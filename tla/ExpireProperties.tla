-------------------------- MODULE ExpireProperties --------------------------
(***************************************************************************)
(* What the expiry list should say, from geometry alone: which tiles a     *)
(* line passes, found tile by tile instead of along the line.              *)
(***************************************************************************)
EXTENDS ExpireTiles

Tiles == (0..MapWidth - 1) \X (0..MapWidth - 1)
IdsOf(tiles) == {xy_to_quadtree(t[1], t[2], Zoom) : t \in tiles}

\* Below this limit an id fits into an int without its sign.
IdsFit == 2 * Zoom < IntBits

\* Both ends of a segment from west to east, on the shorter way around the
\* globe: the western end may lie left of the map.
WestEast(p, q) ==
    LET a == coords_to_tile(p)
        b == coords_to_tile(q)
        l == IF a[1] > b[1] THEN b ELSE a
        r == IF a[1] > b[1] THEN a ELSE b
    IN IF r[1] - l[1] > World \div 2 THEN <<<<r[1] - World, r[2]>>, l>> ELSE <<l, r>>

\* The rows, times the length of the segment, between which the segment s
\* stays in a column.
RowsIn(s, column) ==
    LET a == s[1]
        b == s[2]
        west == Greatest(a[1], column * Unit)
        east == Least(b[1], (column + 1) * Unit)
        At(x) == a[2] * (b[1] - x) + b[2] * (x - a[1])
    IN <<Least(At(west), At(east)), Greatest(At(west), At(east))>>

\* Does the segment pass through the inside of a tile, or along its northern
\* or western border?
Passes(s, column, row) ==
    LET a == s[1]
        b == s[2]
        width == b[1] - a[1]
        rows == RowsIn(s, column)
        top == row * Unit * width
        bottom == (row + 1) * Unit * width
    IN IF width = 0
       THEN /\ a[1] \div Unit = column /\ a # b
            /\ Least(a[2], b[2]) < (row + 1) * Unit
            /\ Greatest(a[2], b[2]) >= row * Unit
       ELSE /\ a[1] < (column + 1) * Unit /\ b[1] > column * Unit
            /\ rows[1] < bottom
            /\ rows[2] > top \/ (rows[1] = rows[2] /\ rows[1] = top)

\* What the program takes for a row: because numbers are rounded towards zero,
\* row 0 begins one tile north of the map, and so do the negative rows.
North(row) == IF row <= 0 THEN row - 1 ELSE row
South(row) == IF row < 0 THEN row ELSE row + 1

\* Does it at least touch the tile?
Touches(s, column, row) ==
    LET width == s[2][1] - s[1][1]
        rows == RowsIn(s, column)
    IN /\ s[1][1] <= (column + 1) * Unit /\ s[2][1] >= column * Unit
       /\ IF width = 0
          THEN /\ Least(s[1][2], s[2][2]) <= South(row) * Unit
               /\ Greatest(s[1][2], s[2][2]) >= North(row) * Unit
          ELSE rows[1] <= South(row) * Unit * width /\ rows[2] >= North(row) * Unit * width

\* Columns west of the map are columns in the east.
Around(column) == column % MapWidth
Columns == -MapWidth..MapWidth
\* Rows, including those between the map and the limit of latitudes.
Rows == -(Beyond \div Unit)..MapWidth + (Beyond \div Unit)

Northward(s) == s[2][2] < s[1][2] /\ s[1][1] \div Unit # s[2][1] \div Unit

\* The segment begins in the tile, or comes into it from the west.
FromTheWest(s, column, row) ==
    LET a == s[1]
        b == s[2]
        x == column * Unit
        y == a[2] * (b[1] - x) + b[2] * (x - a[1])
        height == Unit * (b[1] - a[1])
    IN \/ column = a[1] \div Unit /\ row = a[2] \div Unit
       \/ a[1] < x /\ x <= b[1] /\ row * height <= y /\ y < (row + 1) * height

\* The tiles the code expires for a segment at least: all it passes, but of a
\* segment that runs to the north only those it does not enter from the south.
DueTiles(s) ==
    {<<Around(t[1]), t[2]>> : t \in
        {t \in Columns \X (0..MapWidth - 1) :
            /\ Passes(s, t[1], t[2])
            /\ Northward(s) => FromTheWest(s, t[1], t[2])}}

TouchedTiles(s) ==
    {<<Around(t[1]), t[2]>> : t \in {t \in Columns \X Rows : Touches(s, t[1], t[2])}}

\* Where a segment is north of the map, the walk may come to the border between
\* two rows though the segment ends before: any column may be the result.
StrayTiles(s) ==
    LET first == Least(s[1][2], s[2][2])
        last == Greatest(s[1][2], s[2][2])
    IN {t \in (0..MapWidth - 1) \X Rows :
            /\ t[2] <= 0 /\ first < 0
            /\ first <= South(t[2]) * Unit /\ last >= North(t[2]) * Unit}

Segments(line) == {WestEast(line[i], line[i + 1]) : i \in 1..Len(line) - 1}
\* The tiles of the nodes whose row on the grid is one of rows.
TilesAt(line, rows) ==
    {<<Around(p[1] \div Unit), Trunc(p[2], Unit)>> : p \in
        {q \in {coords_to_tile(line[i]) : i \in DOMAIN line} : q[2] \in rows}}
OnMap == 0..World - 1

\* The tiles of the map that have to be in the list for a geometry.  Ways of the
\* diff are the exception that the code makes: only long ones count, with their
\* nodes.
Due(g) ==
    CASE g.kind = "node" -> TilesAt(g.nodes, OnMap)
      [] g.kind = "old_way" ->
            (UNION {DueTiles(s) : s \in Segments(g.nodes)})
            \cup (IF IsLong(g.nodes) THEN TilesAt(g.nodes, OnMap) ELSE {})
      [] g.kind = "way" -> IF IsLong(g.nodes) THEN TilesAt(g.nodes, OnMap) ELSE {}
      [] OTHER -> {}

\* The tiles that it may put there.  Some of them have rows that are not on the
\* map: their ids are those of tiles at the opposite edge.
Allowed(g) ==
    CASE g.kind \in {"none", "relation_way"} -> {}
      [] OTHER -> TilesAt(g.nodes, Int)
            \cup UNION {TouchedTiles(s) \cup StrayTiles(s) : s \in Segments(g.nodes)}

---------------------------------------------------------------------------
\* The walk along a segment (expire_line_segment(), with its swaps and the
\* split at the 180th meridian) misses no tile the line passes, except those
\* that a segment running northwards enters over their southern border.
PassedTilesExpired == \A g \in done : IdsOf(Due(g)) \subseteq dirty

\* No tile is expired that no geometry touches: rounding, swapped ends and
\* the 180th meridian never lead the walk away from the line.  The exceptions
\* are due to geometries that leave the map (beyond latitude 85.0511): instead
\* of the tiles that would follow there, those at the opposite edge with the
\* same low bits are expired, and in the north the first row of the map and
\* tiles in any column of the rows the geometry reaches.
OnlyTouchedTilesExpired == dirty \subseteq UNION {IdsOf(Allowed(g)) : g \in done}

\* The tile of a lower zoom level a tile lies in.
Ancestor(t, zoom) ==
    [zoom |-> zoom, x |-> t[1] \div TwoTo[Zoom - zoom], y |-> t[2] \div TwoTo[Zoom - zoom]]
DirtyTiles == {t \in Tiles : xy_to_quadtree(t[1], t[2], Zoom) \in dirty}
NumberOf(r) == xy_to_quadtree(r.x, r.y, r.zoom)

\* Without the sign of an int: only tiles over expired ones are written, on
\* every requested zoom level, once; and a tile is missing only if a tile of
\* another level with the same number is there.
ListIsPyramid ==
    LET wanted == {Ancestor(t, zoom) : t \in DirtyTiles, zoom \in options.min..Zoom}
    IN /\ list \subseteq wanted
       /\ \A r \in wanted :
            r \in list \/ \E s \in list : s.zoom # r.zoom /\ NumberOf(s) = NumberOf(r)
       /\ \A r, s \in list : NumberOf(r) = NumberOf(s) => r = s

\* At the zoom level where ids need the sign (16), the columns are right, but the
\* rows of the southern half of the map are written as negative numbers.
RowsWrapAtSign ==
    list = {[zoom |-> Zoom, x |-> t[1],
             y |-> IF IdsFit \/ 2 * t[2] < MapWidth THEN t[2] ELSE t[2] - MapWidth]
              : t \in DirtyTiles}

\* What output_and_destroy() writes is the expired tiles and those above them,
\* except where ids of several zoom levels or the sign of an id get in the way;
\* no two tiles are taken for one, and ids stay in the range of an int.
ListFollowsTiles ==
    /\ dirty \subseteq -TwoTo[IntBits - 1]..TwoTo[IntBits - 1] - 1
    /\ (pc = "written" /\ IdsFit) => ListIsPyramid
    /\ (pc = "written" /\ options.min = Zoom) => RowsWrapAtSign
=============================================================================
