------------------------------- MODULE Columns -------------------------------
(***************************************************************************)
(* The columns of the tables: which there are depends on the options, on   *)
(* the type of the table and, for points, lines and areas, on the style    *)
(* file.  The same list makes the CREATE and the COPY statement and is     *)
(* gone through when a row is written.                                     *)
(***************************************************************************)
EXTENDS Naturals, Sequences
LOCAL INSTANCE SequencesExt

Column(name, type, class) == [name |-> name, type |-> type, class |-> class]
-----------------------------------------------------------------------------
(* ColumnConfigParser.  A line of the style file is the sequence of its     *)
(* words (geometry, name, type, flags), the flags are a set.  A line with   *)
(* nothing in it is left out, a line of blanks is the empty sequence.       *)

NewStyle == [columns |-> <<>>, drop |-> {}, nocolumn |-> <<>>, error |-> FALSE]

NameIn(line) == IF Len(line) < 2 THEN <<>> ELSE line[2]
TypeIn(line) == IF Len(line) < 3 THEN "" ELSE line[3]
FlagsIn(line) == IF Len(line) < 4 THEN {} ELSE line[4]

str_to_column_type(type) ==
    CASE type = "text" -> "TEXT" [] type = "int4" -> "INT" [] type = "real" -> "REAL"
      [] OTHER -> "NONE"

\* Faulty variant: keys that are deleted get a column all the same.
parse_DeletedColumn(style, line) ==
    LET name == NameIn(line)
        type == str_to_column_type(TypeIn(line))
        flags == FlagsIn(line)
    IN  CASE name \in {<<"way_area">>, <<"z_order">>} -> style
          [] name \notin {<<"way_area">>, <<"z_order">>} /\ type = "NONE" ->
                [style EXCEPT !.error = TRUE]
          [] OTHER ->
                [style EXCEPT
                    !.drop = IF "delete" \in flags THEN @ \cup {name} ELSE @,
                    !.nocolumn = IF "nocolumn" \in flags THEN Append(@, name) ELSE @,
                    !.columns = Append(@, Column(name, type, "TAG"))]

\* One line.  An unknown type is an exception, which leaves main().
parse(style, line) ==
    LET name == NameIn(line)
        type == str_to_column_type(TypeIn(line))
        flags == FlagsIn(line)
    IN  CASE name \in {<<"way_area">>, <<"z_order">>} -> style
          [] name \notin {<<"way_area">>, <<"z_order">>} /\ type = "NONE" ->
                [style EXCEPT !.error = TRUE]
          [] OTHER ->
                [style EXCEPT
                    !.drop = IF "delete" \in flags THEN @ \cup {name} ELSE @,
                    !.nocolumn = IF "nocolumn" \in flags THEN Append(@, name) ELSE @,
                    !.columns = IF flags \cap {"delete", "nocolumn"} = {}
                                THEN Append(@, Column(name, type, "TAG")) ELSE @]
-----------------------------------------------------------------------------
(* postgres_drivers::Columns. *)

Metadata == <<Column("osm_user", "TEXT", "USERNAME"),
              Column("osm_uid", "BIGINT", "UID"),
              Column("osm_version", "INT", "VERSION"),
              Column("osm_lastmodified", "TEXT", "TIMESTAMP"),
              Column("osm_changeset", "BIGINT", "CHANGESET")>>

ObjectTables == {"point", "untagged", "line", "polygon", "relations"}

\* What only some types of tables have.
OwnColumns(table) ==
    CASE table = "point" -> <<Column("geom", "POINT", "GEOMETRY")>>
      [] table = "untagged" -> <<Column("x", "INT", "LONGITUDE"), Column("y", "INT", "LATITUDE")>>
      [] table = "line" -> <<Column("geom", "LINESTRING", "GEOMETRY")>>
      [] table = "polygon" -> <<Column("geom", "GEOMETRY", "GEOMETRY")>>
      [] table = "relations" ->
            <<Column("geom_points", "MULTIPOINT", "GEOMETRY_MULTIPOINT"),
              Column("geom_lines", "MULTILINESTRING", "GEOMETRY_MULTILINESTRING")>>
      [] table = "node_ways" ->
            <<Column("way_id", "BIGINT", "OSM_ID"), Column("node_id", "BIGINT", "NODE_ID"),
              Column("position", "SMALLINT", "OTHER")>>
      [] table \in {"node_relations", "way_relations", "relation_relations"} ->
            <<Column("member_id", "BIGINT",
                     CASE table = "node_relations" -> "NODE_ID"
                       [] table = "way_relations" -> "WAY_ID"
                       [] OTHER -> "RELATION_ID"),
              Column("relation_id", "BIGINT", "OSM_ID"),
              Column("position", "SMALLINT", "OTHER"), Column("role", "TEXT", "ROLE")>>

\* Columns::init()
init(table, metadata) ==
    IF table \in ObjectTables
    THEN <<Column("osm_id", "BIGINT", "OSM_ID")>>
         \o SelectSeq(Metadata, LAMBDA column : column.class \in metadata)
         \o OwnColumns(table)
    ELSE OwnColumns(table)

\* Only points, lines and areas are made from the style file; untagged nodes
\* have no hstore.
Styled == {"point", "line", "polygon"}
ColumnsOf(table, metadata, style) ==
    init(table, metadata)
    \o (IF table \in Styled THEN style.columns ELSE <<>>)
    \o (IF table \in ObjectTables \ {"untagged"}
        THEN <<Column("tags", "HSTORE", "TAGS_OTHER")>> ELSE <<>>)

\* The keys that make an object interesting.
filter(style) ==
    {style.columns[i].name : i \in DOMAIN style.columns} \cup {style.nocolumn[i] : i \in DOMAIN style.nocolumn}
drop_filter(style) == style.drop

addr_interpolation_columns ==
    <<Column("osm_id", "INT", "OSM_ID"), Column("housenumber", "TEXT", "INTERPOLATION_HOUSENUMBER")>>
    \o [k \in 1..8 |->
            Column(<<"street", "place", "suburb", "postcode", "city", "province", "state", "country">>[k],
                   "TEXT", "INTERPOLATION")]
    \o <<Column("geom", "POINT", "GEOMETRY")>>

\* The types of geometries (of WKB) PostGIS takes for a column that is declared
\* with a type.  A multipoint without points stands for the empty point.
Accepted(type) ==
    CASE type = "POINT" -> {"1", "4"} [] type = "LINESTRING" -> {"2"}
      [] type = "MULTIPOINT" -> {"4"} [] type = "MULTILINESTRING" -> {"5"}
      [] type = "GEOMETRY" -> {"1", "2", "3", "4", "5", "6", "7"}
      [] OTHER -> {}
=============================================================================
