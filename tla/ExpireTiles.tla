---------------------------- MODULE ExpireTiles ----------------------------
(***************************************************************************)
(* The list of expired tiles: ExpireTilesQuadtree collects the tiles that  *)
(* the geometries before and after a diff touch, and writes them when      *)
(* DiffHandler2 is destroyed.                                              *)
(*                                                                         *)
(* A location is a pair on a grid of World x World points that covers the  *)
(* Mercator square; rows grow southwards, as tile numbers do.  Columns 0   *)
(* and World are both the 180th meridian.  Locations near the poles lie    *)
(* north or south of the square, in rows below 0 or above World.  The      *)
(* program computes with doubles, the model with exact fractions.          *)
(***************************************************************************)
EXTENDS Integers, Sequences, FiniteSets, FiniteSetsExt

CONSTANTS
    World,        \* points of the grid from west to east
    Beyond,       \* points of the grid from the edge of the square (latitude
                  \* 85.0511) to the latitude that limits locations (85.07)
    IntBits,      \* width of int, 32 in every build
    Options,      \* values of m_min_zoom, m_max_zoom and m_expire_options, and
                  \* whether the machine saturates when it converts to int
    Nodes,        \* locations of nodes
    Lines,        \* node lists of ways
    LongLength,   \* 20 km, in points of the grid
    LongDegrees,  \* one degree, in points of the grid
    MaxGeometries \* bound of the model: geometries expired in one run

Grid == (0..World) \X Int

\* 1 << n
TwoTo[n \in Nat] == IF n = 0 THEN 1 ELSE 2 * TwoTo[n - 1]

ASSUME WorldAssumption ==
    World \in Nat \ {0} /\ Beyond \in Nat /\ IntBits \in Nat /\ IntBits > 2
\* Bound of the model: the program takes any number for --max-zoom, but from
\* more than half of the bits of an int on (level 17) it shifts ones out of the
\* ids or ints by all of their bits, which has no defined result.
ASSUME OptionsAssumption ==
    \A o \in Options : /\ o.saturating \in BOOLEAN
                       /\ o.max \in 1..(IntBits \div 2) /\ o.min \in Nat
                       /\ 2 * (o.max - o.min) < IntBits
                       /\ World % TwoTo[o.max] = 0
ASSUME PlacesAssumption ==
    Nodes \subseteq Grid /\ \A l \in Lines : l \in Seq(Grid) /\ Len(l) >= 2

VARIABLES
    options,      \* the configuration of this run
    dirty,        \* m_dirty_tiles: keys of the map
    list,         \* lines of the expiry list
    done,         \* history: the geometries that were handed over
    pc            \* "running", "written", "failed" or "dead"

vars == <<options, dirty, list, done, pc>>

Zoom == options.max
MapWidth == TwoTo[Zoom]
\* Points of the grid in one tile of the highest zoom level.
Unit == World \div MapWidth
---------------------------------------------------------------------------
(* Tile numbers and quadtree ids. *)

Bit(n, i) == (n \div TwoTo[i]) % 2
Signed(n) == LET r == n % TwoTo[IntBits]
             IN IF r >= TwoTo[IntBits - 1] THEN r - TwoTo[IntBits] ELSE r

\* Faulty variant: the bits of y start one place too far to the left.
xy_to_quadtree_WrongShift(x, y, zoom) ==
    Signed(MapThenSumSet(LAMBDA z : (Bit(x, z) + 4 * Bit(y, z)) * TwoTo[2 * z], 0..zoom - 1))

\* Ids interleave the bits of both numbers: YXYX...  They are built in an int.
\* Of numbers outside of the map they take the low bits.
xy_to_quadtree(x, y, zoom) ==
    Signed(MapThenSumSet(LAMBDA z : (Bit(x, z) + 2 * Bit(y, z)) * TwoTo[2 * z], 0..zoom - 1))

\* (qt & (1 << bit)) >> down.  The highest bit of an int is its sign, and
\* the shift to the right keeps it.
PickBit(qt, bit, down) ==
    (Signed(Bit(qt % TwoTo[IntBits], bit) * TwoTo[bit])) \div TwoTo[down]

quadtree_to_xy(qt, zoom) ==
    <<MapThenSumSet(LAMBDA z : PickBit(qt, 2 * (z - 1), z - 1), 1..zoom),
      MapThenSumSet(LAMBDA z : PickBit(qt, 2 * z - 1, z), 1..zoom)>>

Least(a, b) == IF a < b THEN a ELSE b
Greatest(a, b) == IF a < b THEN b ELSE a
Distance(a, b) == Greatest(a, b) - Least(a, b)

\* Latitudes are limited to 85.07 degrees, which is not on the map either.
coords_to_tile(p) == <<p[1], Greatest(-Beyond, Least(p[2], World + Beyond))>>

\* static_cast<int> of n / d rounds towards zero.
Trunc(n, d) == IF n >= 0 THEN n \div d ELSE -((-n) \div d)

\* The same for any sign of d.  A number that is infinite or outside of int has
\* no defined result: x86 gives the smallest int, others the nearest one.
ToInt(n, d) ==
    LET q == IF d > 0 THEN Trunc(n, d) ELSE Trunc(-n, -d)
    IN IF d # 0 /\ q \in -TwoTo[IntBits - 1]..TwoTo[IntBits - 1] - 1 THEN q
       ELSE IF options.saturating /\ (n > 0 <=> d >= 0) THEN TwoTo[IntBits - 1] - 1
       ELSE -TwoTo[IntBits - 1]

\* The remainder of C++ has the sign of x.
normalise_tile_x_coord(x) ==
    LET r == IF x < 0 THEN -((-x) % MapWidth) ELSE x % MapWidth
    IN IF r < 0 THEN (MapWidth - r) + 1 ELSE r
---------------------------------------------------------------------------
(* Sets of tiles, as pairs of numbers, that the methods expire. *)

expire_from_point(p) ==
    LET t == coords_to_tile(p)
    IN {<<normalise_tile_x_coord(t[1] \div Unit), Trunc(t[2], Unit)>>}

\* The rows of a line from y1 to y2: that of its begin and those it enters.
RowsFrom(y1, y2, V) == {Trunc(y1, V)} \cup Trunc(y1 + V, V)..Trunc(y2, V)
expire_vertical_line(column, y1, y2, V) == {column} \X RowsFrom(y1, y2, V)

\* Faulty variant: the rows a line enters are not visited.
expire_line_segment_ColumnsOnly(x1, y1, x2, y2, d) ==
    LET V == Unit * d
        RowAt(X) == Trunc(y1 * (x2 - X * Unit) + y2 * (X * Unit - x1), V * (x2 - x1))
    IN IF x1 = x2 /\ y1 = y2 THEN {}
       ELSE {<<x1 \div Unit, Trunc(y1, V)>>} \cup
            {<<X, RowAt(X)>> : X \in (x1 \div Unit) + 1..(x2 \div Unit)}

\* y1 and y2 are fractions with the denominator d.
expire_line_segment(x1, y1, x2, y2, d) ==
    LET V == Unit * d
        column1 == x1 \div Unit
        column2 == x2 \div Unit
        RowAt(X) == Trunc(y1 * (x2 - X * Unit) + y2 * (X * Unit - x1), V * (x2 - x1))
        ColumnAt(Y) == ToInt(x1 * (y2 - y1) + (x2 - x1) * (Y * V - y1), Unit * (y2 - y1))
    IN IF x1 = x2 /\ y1 = y2 THEN {}
       ELSE IF x1 = x2 \/ (x2 - x1 < Unit /\ column1 = column2)
       THEN expire_vertical_line(column1, Least(y1, y2), Greatest(y1, y2), V)
       ELSE {<<column1, Trunc(y1, V)>>}
            \cup {<<X, RowAt(X)>> : X \in column1 + 1..column2}
            \cup {<<ColumnAt(Y), Y>> : Y \in Trunc(y1 + V, V)..Trunc(y2, V)}

\* Faulty variant: lines over the 180th meridian are not split.
expire_line_segment_180secure_NotSplit(p, q) ==
    LET a == coords_to_tile(p)
        b == coords_to_tile(q)
        l == IF a[1] > b[1] THEN b ELSE a
        r == IF a[1] > b[1] THEN a ELSE b
    IN expire_line_segment(l[1], l[2], r[1], r[2], 1)

\* The segment runs from left to right.  If it is wider than half of the map
\* it crosses the 180th meridian, where it is split.
expire_line_segment_180secure(p, q) ==
    LET a == coords_to_tile(p)
        b == coords_to_tile(q)
        l == IF a[1] > b[1] THEN b ELSE a
        r == IF a[1] > b[1] THEN a ELSE b
        d == World + l[1] - r[1]
        split == l[2] * d + (r[2] - l[2]) * l[1]
    IN IF r[1] - l[1] <= World \div 2
       THEN expire_line_segment(l[1], l[2], r[1], r[2], 1)
       ELSE IF d = 0
       THEN expire_line_segment(0, l[2], 0, r[2], 1)
       ELSE expire_line_segment(0, split, l[1], l[2] * d, d)
            \cup expire_line_segment(r[1], r[2] * d, World, split, d)

\* segment_length() between both ends is the distance on the sphere, here that
\* on the grid; the difference in degrees is not taken around the globe.
IsLong(line) ==
    LET p == line[1]
        q == line[Len(line)]
        dx == Distance(p[1], q[1])
    IN /\ Least(dx, World - dx) + Distance(p[2], q[2]) > LongLength
       /\ dx > LongDegrees

expire_nodes_of(line) == UNION {expire_from_point(line[i]) : i \in DOMAIN line}

\* Ways of a diff are given by their nodes: short ones are not expired at all.
expire_from_node_refs(line) == IF IsLong(line) THEN expire_nodes_of(line) ELSE {}

\* Old geometries are given by their coordinates.
expire_from_coordinates(line) ==
    (IF IsLong(line) THEN expire_nodes_of(line) ELSE {})
    \cup UNION {expire_line_segment_180secure(line[i], line[i + 1]) : i \in 1..Len(line) - 1}
---------------------------------------------------------------------------
Init ==
    /\ options \in Options
    /\ dirty = {} /\ list = {} /\ done = {} /\ pc = "running"

expire_tile(tiles) == dirty' = dirty \cup {xy_to_quadtree(t[1], t[2], Zoom) : t \in tiles}

CanExpire == pc = "running" /\ Cardinality(done) < MaxGeometries

Expire(kind, geometry, tiles) ==
    /\ CanExpire
    /\ expire_tile(tiles)
    /\ done' = done \cup {[kind |-> kind, nodes |-> geometry]}
    /\ UNCHANGED <<options, list, pc>>

\* DiffHandler1::node(): the place a node is moved away from.
ExpireNode == \E p \in Nodes : Expire("node", <<p>>, expire_from_point(p))

\* DiffHandler1::way(): the line a way had in the database.
ExpireOldWay == \E l \in Lines : Expire("old_way", l, expire_from_coordinates(l))

\* DiffHandler2::insert_way() and area(): the line of a way of the diff, the
\* outer ring of an area.
ExpireWay == \E l \in Lines : Expire("way", l, expire_from_node_refs(l))

\* CerepsoConfig::expire_this_relation()
expire_this_relation(route) ==
    \/ options.relations = "all"
    \/ options.relations = "no_routes" /\ ~route

\* DiffHandler2::insert_relation(), a relation with one node.
ExpireRelationNode ==
    \E p \in Nodes, route \in BOOLEAN :
        Expire(IF expire_this_relation(route) THEN "node" ELSE "none", <<p>>,
               IF expire_this_relation(route) THEN expire_from_point(p) ELSE {})

\* DiffHandler2::insert_relation(), a relation with a way.  Space for the
\* coordinates is reserved, but there are none: the first coordinate of an
\* empty sequence is read, and the loop counts to the largest number there is.
ExpireRelationWay ==
    \E l \in Lines, route \in BOOLEAN :
        /\ CanExpire
        /\ done' = done \cup {[kind |-> "relation_way", nodes |-> l]}
        /\ IF expire_this_relation(route)
           THEN pc' = "dead" /\ UNCHANGED <<options, dirty, list>>
           ELSE UNCHANGED <<options, dirty, list, pc>>

Span == Zoom - options.min

\* Lines are written for pairs of a tile and a number of levels up, in
\* ascending order of both, unless the same number has been written before,
\* be it for another zoom level.
Shifted(e) == e[1] \div TwoTo[2 * e[2]]
Earlier(e, f) == e[1] < f[1] \/ (e[1] = f[1] /\ e[2] < f[2])

\* Faulty variant: the lowest zoom level is left out.
ToWrite_LevelLost ==
    LET all == dirty \X (0..Span - 1)
    IN {e \in all : ~\E f \in all : Earlier(f, e) /\ Shifted(f) = Shifted(e)}

ToWrite ==
    LET all == dirty \X (0..Span)
    IN {e \in all : ~\E f \in all : Earlier(f, e) /\ Shifted(f) = Shifted(e)}

\* Faulty variant: ids are converted with the highest zoom level.
Row_WrongZoom(e) ==
    LET t == quadtree_to_xy(Shifted(e), Zoom)
    IN [zoom |-> Zoom, x |-> t[1], y |-> t[2]]

Row(e) == LET t == quadtree_to_xy(Shifted(e), Zoom - e[2])
          IN [zoom |-> Zoom - e[2], x |-> t[1], y |-> t[2]]

\* The destructor of DiffHandler2.  If the file cannot be opened, nothing is
\* written and the program goes on.
OutputAndDestroy ==
    /\ pc = "running"
    /\ \E opened \in BOOLEAN :
        /\ list' = IF opened THEN {Row(e) : e \in ToWrite} ELSE {}
        /\ pc' = IF opened THEN "written" ELSE "failed"
    /\ UNCHANGED <<options, dirty, done>>

Next == \/ ExpireNode \/ ExpireOldWay \/ ExpireWay
        \/ ExpireRelationNode \/ ExpireRelationWay \/ OutputAndDestroy

Spec == Init /\ [][Next]_vars
=============================================================================
