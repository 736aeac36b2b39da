--------------------------- MODULE RowsProperties ---------------------------
(***************************************************************************)
(* What the database finds in the lines: fields, texts, geometries.        *)
(***************************************************************************)
EXTENDS Rows
LOCAL INSTANCE SequencesExt
LOCAL INSTANCE FiniteSetsExt

\* The rows COPY reads for a table, which all end with a line break.
RowsIn(table) ==
    LET rows == CopyRows(lines[table])
    IN  SubSeq(rows, 1, Len(rows) - 1)
Ended(table) == Last(CopyRows(lines[table])) = <<<<>>>>

ColumnsAt(table) ==
    IF table = "interpolation" THEN addr_interpolation_columns ELSE ColumnsOfTable(table)

\* What a row of an object's own table says of the object.
Describes(row, o, columns) ==
    \A i \in DOMAIN columns :
        LET class == columns[i].class IN
        /\ class = "OSM_ID" => row[i] = osm_id(o)
        /\ class = "VERSION" => row[i] = <<o.version>>
        /\ class = "USERNAME" => row[i] = o.user
        /\ class = "TIMESTAMP" => row[i] = <<o.timestamp>>
        /\ class = "LONGITUDE" => row[i] = <<o.loc, "x">>
        /\ class = "LATITUDE" => row[i] = <<o.loc, "y">>
        /\ class = "GEOMETRY_MULTIPOINT" => row[i] = <<"SRID=4326;">> \o o.points
        /\ class = "GEOMETRY_MULTILINESTRING" => row[i] = <<"SRID=4326;">> \o o.linestrings
        /\ class = "INTERPOLATION_HOUSENUMBER" => row[i] = o.number
        /\ class = "INTERPOLATION" =>
            row[i] = IF columns[i].name \in DOMAIN o.addr THEN o.addr[columns[i].name] ELSE NullField

\* The members of a relation that find a place in a member table.
KindOf(table) ==
    CASE table = "node_relations" -> "node" [] table = "way_relations" -> "way"
      [] OTHER -> "relation"
PlacedMembers(o, table) ==
    SelectSeq(SubSeq(o.members, 1, Min({Len(o.members), 2^PosBits - 1})),
              LAMBDA member : member.kind = KindOf(table))

\* Every line is one row with a field for every column, and the fields of ids,
\* metadata and positions are those of the object, whatever tabulators, line
\* breaks or backslashes names and roles contain, wherever fill_field() has left
\* a column to its caller, and whichever columns options and style file add.  A
\* member has a row of its own with a position no other row of the relation has,
\* even where the 16 bits of a position wrap.
CellsMatchColumns ==
    \A table \in AllTables :
        LET rows == RowsIn(table)
            columns == ColumnsAt(table)
        IN  /\ Ended(table)
            /\ \A r \in DOMAIN rows : Len(rows[r]) = Len(columns)
            /\ table \in ObjectTables \cup {"interpolation"} =>
                    Len(rows) <= 1 /\ \A r \in DOMAIN rows : Describes(rows[r], object, columns)
            /\ (table = "node_ways" /\ lines[table] # <<>>) =>
                    [r \in DOMAIN rows |-> <<rows[r][1], rows[r][2]>>]
                    = [i \in DOMAIN object.refs |-> <<<<object.id>>, <<object.refs[i]>>>>]
            /\ (table \notin ObjectTables \cup {"interpolation", "node_ways"}
                /\ object.kind = "relation" /\ setup.updateable) =>
                    /\ [r \in DOMAIN rows |-> <<rows[r][1], rows[r][2], rows[r][4]>>]
                       = [i \in DOMAIN PlacedMembers(object, table) |->
                            LET member == PlacedMembers(object, table)[i]
                            IN  <<<<member.ref>>, <<object.id>>, member.role>>]
                    /\ IsInjective([r \in DOMAIN rows |-> rows[r][3]])

\* The tags a row holds: the fields of tag columns, and what HStoreParser finds in
\* the hstore as PostgreSQL returns it.
TagCells(row, columns) ==
    {<<columns[i].name, row[i]>> : i \in
        {i \in DOMAIN columns : columns[i].class = "TAG" /\ row[i] # NullField}}
\* The keys the style file asks columns for.
AskedColumns ==
    {NameIn(setup.style[i]) : i \in {i \in DOMAIN setup.style :
        FlagsIn(setup.style[i]) \cap {"delete", "nocolumn"} = {}}} \ {<<"way_area">>, <<"z_order">>}
HstoreRead(row) == HStoreParser(HstoreOut(HstoreIn(Last(row))))

\* Every tag comes back from the database with key and value unchanged, either
\* from a column of its own or from the hstore, never from both; those of a street
\* come with it, but not into the column of a tag the object has itself; and
\* nothing else is there.  Left out are the keys the style file deletes.  The
\* values come back from an array, too.
TagsSurvive ==
    \A table \in {"point", "line", "polygon", "relations"} : lines[table] # <<>> =>
        LET row == RowsIn(table)[1]
            columns == ColumnsAt(table)
            cells == TagCells(row, columns)
            read == HstoreRead(row)
            pairs == Range(read.found)
            own == Range(object.tags)
            street == IF setup.streets /\ table # "relations" THEN Range(object.street) ELSE {}
            OwnColumn(key) == table # "relations" /\ key \in AskedColumns
            Kept(tag) == OwnColumn(tag[1]) \/ tag[1] \notin style.drop
            values == [i \in DOMAIN object.tags |-> object.tags[i][2]]
        IN  /\ ~read.error
            /\ cells \cup pairs =
                    {tag \in own : Kept(tag)}
                    \cup {tag \in street : Kept(tag)
                            /\ ~(OwnColumn(tag[1]) /\ \E t \in own : t[1] = tag[1])}
            /\ \A tag \in pairs : ~OwnColumn(tag[1])
            /\ ArrayParser(ArrayOut(values)).found = values

\* Well-known binary, written in one go with all numbers known.
Counted(type, parts) == <<"NDR", type, ToString(Len(parts))>> \o FlattenSeq(parts)
PolygonText(rings) ==
    Counted("3", [k \in DOMAIN rings |->
        <<ToString(Len(Unique(rings[k].locs)))>> \o Unique(rings[k].locs)])
\* The rings of the k-th polygon of an area: an outer ring and the inner ones behind it.
Polygon(rings, k) ==
    LET OuterUpTo(i) == Cardinality({j \in 1..i : rings[j].outer})
    IN  SubSeq(rings, Cardinality({i \in DOMAIN rings : OuterUpTo(i) < k}) + 1,
                      Cardinality({i \in DOMAIN rings : OuterUpTo(i) <= k}))
WellKnownBinary(o) ==
    CASE o.kind \in {"node", "interpolation"} -> <<"NDR", "1", o.loc>>
      [] o.kind = "way" -> Counted("2", [i \in DOMAIN Unique(o.locs) |-> <<Unique(o.locs)[i]>>])
      [] o.kind = "area" ->
            Counted("6", [k \in 1..Cardinality({i \in DOMAIN o.rings : o.rings[i].outer}) |->
                            PolygonText(Polygon(o.rings, k))])
HasGeometry(o) ==
    CASE o.kind = "way" -> Len(Unique(o.locs)) >= 2 [] o.kind = "area" -> o.rings # <<>>
      [] OTHER -> TRUE

\* The geometry of a row is the one of its object, complete and with the right
\* numbers of polygons, rings and points, or the empty one if the object has none;
\* its type is one the column takes; and nothing in it is left of a geometry that
\* was given up half-way before.
GeometryReadable ==
    \A table \in Geometric \cup {"interpolation"} : lines[table] # <<>> =>
        LET row == RowsIn(table)[1]
            columns == ColumnsAt(table)
        IN  \A i \in DOMAIN columns : columns[i].class = "GEOMETRY" =>
                /\ row[i] = <<"SRID=4326;">>
                            \o (IF HasGeometry(object) THEN WellKnownBinary(object)
                                ELSE EmptyGeometry(object))
                /\ row[i][3] \in Accepted(columns[i].type)
=============================================================================
