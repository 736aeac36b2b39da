-------------------------------- MODULE Rows --------------------------------
(***************************************************************************)
(* How an object becomes lines of COPY data: the style file is read, then  *)
(* the handlers get objects, and PostgresHandler goes through the columns  *)
(* of a table and appends a field for each of them.  Texts are sequences   *)
(* of characters here, numbers and geometries sequences of tokens, so that *)
(* a line is what COPY gets.                                               *)
(***************************************************************************)
EXTENDS Integers, TextFormats, WkbWriter, Columns, FiniteSets
LOCAL INSTANCE SequencesExt

CONSTANTS
    Setups,     \* options, lines of the style file, and objects
    PosBits     \* width of a position, in bits (16 in the program)

ASSUME PosBitsAssumption == PosBits \in Nat \ {0}

VARIABLES
    setup,      \* options and input (constant)
    line,       \* lines of the style file that were read
    style,      \* what ColumnConfigParser keeps of them
    pc,         \* "parse", "write" or "dead"
    writer,     \* the writer of every table
    object,     \* the last object
    lines       \* the lines it was written to, for every table

vars == <<setup, line, style, pc, writer, object, lines>>

ColumnsOfTable(table) == ColumnsOf(table, setup.metadata, style)
Geometric == {"point", "line", "polygon"}
AllTables == ObjectTables \cup {"node_ways", "node_relations", "way_relations",
                                "relation_relations", "interpolation"}
Nothing == [kind |-> "none"]
NoLines == [table \in AllTables |-> <<>>]

Init ==
    /\ setup \in Setups
    /\ line = 0
    /\ style = NewStyle
    /\ pc = "parse"
    /\ writer = [table \in Geometric |-> NewWriter]
    /\ object = Nothing
    /\ lines = NoLines
-----------------------------------------------------------------------------
(* The style file and the tables. *)

ReadStyleLine ==
    /\ pc = "parse"
    /\ line < Len(setup.style)
    /\ line' = line + 1
    /\ style' = parse(style, setup.style[line'])
    /\ pc' = IF style'.error THEN "dead" ELSE pc
    /\ UNCHANGED <<setup, writer, object, lines>>

\* CREATE TABLE does not take two columns of the same name.
OpenTables ==
    /\ pc = "parse"
    /\ line = Len(setup.style)
    /\ pc' = IF IsInjective([i \in DOMAIN style.columns |-> style.columns[i].name])
             THEN "write" ELSE "dead"
    /\ UNCHANGED <<setup, line, style, writer, object, lines>>
-----------------------------------------------------------------------------
(* Fields. *)

HasKey(tags, key) == \E i \in DOMAIN tags : tags[i][1] = key
get_value_by_key(tags, key) == tags[SelectInSeq(tags, LAMBDA tag : tag[1] = key)][2]

\* Tags that are written neither to a column of their own nor dropped.
Others(tags, keys) ==
    SelectSeq(tags, LAMBDA tag : tag[1] \notin keys \cup drop_filter(style))

\* Tags of the object, then those of its associatedStreet relation.
tags_other(o, keys) ==
    LET tags == Others(o.tags, keys) \o (IF setup.streets THEN Others(o.street, keys) ELSE <<>>)
    IN  Joined([i \in DOMAIN tags |->
            escape4hstore(tags[i][1]) \o <<"=", ">">> \o escape4hstore(tags[i][2])])

osm_id(o) == IF o.kind = "area" /\ ~o.from_way THEN <<"-", o.id>> ELSE <<o.id>>

EmptyGeometry(o) ==
    CASE o.kind = "node" -> <<"NDR", "4", "0">>
      [] o.kind = "way" -> <<"NDR", "2", "0">>
      [] o.kind = "area" -> <<"NDR", "6", "SRID", "0">>
create_geometry(w, o) ==
    CASE o.kind = "node" -> Geometry(w, make_point(o.loc))
      [] o.kind = "way" -> create_linestring(w, o.locs)
      [] o.kind = "area" -> create_multipolygon(w, o.rings)

\* add_geometry(): if there is none the field is the empty geometry.
geometry(w, o) ==
    LET g == create_geometry(w, o)
    IN  <<"SRID=4326;">> \o (IF g.thrown THEN EmptyGeometry(o) ELSE g.text)

\* The text of a field, given the keys written before it, and whether there is one.
\* The fields of uid and changeset hold the version.
No == [filled |-> FALSE, text |-> <<>>, keys |-> {}]
Yes(text) == [filled |-> TRUE, text |-> text, keys |-> {}]
field(o, column, keys, w) ==
    CASE column.class = "TAGS_OTHER" -> Yes(tags_other(o, keys))
      [] column.class = "TAG" ->
            IF HasKey(o.tags, column.name) \/ (setup.streets /\ HasKey(o.street, column.name))
            THEN [Yes(escape(get_value_by_key(
                        IF HasKey(o.tags, column.name) THEN o.tags ELSE o.street, column.name)))
                    EXCEPT !.keys = {column.name}]
            ELSE Yes(NullCell)
      [] column.class = "OSM_ID" -> Yes(osm_id(o))
      [] column.class \in {"VERSION", "UID", "CHANGESET"} -> Yes(<<o.version>>)
      [] column.class = "USERNAME" -> Yes(escape(o.user))
      [] column.class = "TIMESTAMP" -> Yes(<<o.timestamp>>)
      [] column.class = "GEOMETRY" -> Yes(geometry(w, o))
      [] column.class = "LATITUDE" /\ o.kind = "node" -> Yes(<<o.loc, "y">>)
      [] column.class = "LONGITUDE" /\ o.kind = "node" -> Yes(<<o.loc, "x">>)
      [] OTHER -> No

\* Faulty variant: the separator follows the field.
fill_field_Behind(q, o, column, w) ==
    LET f == field(o, column, q.keys, w)
    IN  [text |-> q.text \o f.text \o (IF f.filled THEN <<TAB>> ELSE <<>>),
         keys |-> q.keys \cup f.keys,
         added |-> f.filled]

\* Faulty variant: tags with a column are not remembered.
fill_field_KeysLost(q, o, column, w) ==
    LET f == field(o, column, q.keys, w)
    IN  [text |-> q.text \o (IF q.added THEN <<TAB>> ELSE <<>>) \o f.text,
         keys |-> q.keys,
         added |-> f.filled]

\* A line so far: its text, keys written, and whether the last column was filled.
fill_field(q, o, column, w) ==
    LET f == field(o, column, q.keys, w)
    IN  [text |-> q.text \o (IF q.added THEN <<TAB>> ELSE <<>>) \o f.text,
         keys |-> q.keys \cup f.keys,
         added |-> f.filled]

EmptyLine == [text |-> <<>>, keys |-> {}, added |-> FALSE]

prepare_query(o, table) ==
    Append(FoldLeft(LAMBDA q, column : fill_field(q, o, column,
                        IF table \in Geometric THEN writer[table] ELSE NewWriter),
                    EmptyLine, ColumnsOfTable(table)).text,
           NL)

\* The geometries of a relation are written behind a column fill_field() has left
\* out, together with a separator.  Relations get no tags of other relations.
prepare_relation_query(o) ==
    LET Fill(q, column) ==
            LET r == fill_field(q, [o EXCEPT !.street = <<>>], column, NewWriter)
            IN  CASE column.class = "GEOMETRY_MULTIPOINT" ->
                        [r EXCEPT !.text = @ \o <<"SRID=4326;">> \o o.points \o <<TAB>>]
                  [] column.class = "GEOMETRY_MULTILINESTRING" ->
                        [r EXCEPT !.text = @ \o <<"SRID=4326;">> \o o.linestrings \o <<TAB>>]
                  [] OTHER -> r
    IN  Append(FoldLeft(Fill, EmptyLine, ColumnsOfTable("relations")).text, NL)

\* add_int16() of a position that counts from 0.
Int16(i) ==
    LET low == i % 2^PosBits
    IN  ToString(IF low < 2^(PosBits - 1) THEN low ELSE low - 2^PosBits)

prepare_node_way_query(o) ==
    FlattenSeq([i \in DOMAIN o.refs |-> <<o.id, TAB, o.refs[i], TAB, Int16(i - 1), NL>>])

\* Faulty variant: roles are not escaped.
prepare_relation_member_list_query_RawRole(o, kind) ==
    FlattenSeq([i \in DOMAIN o.members |->
        IF o.members[i].kind = kind /\ i < 2^PosBits
        THEN <<o.members[i].ref, TAB, o.id, TAB, Int16(i - 1), TAB>>
             \o o.members[i].role \o <<NL>>
        ELSE <<>>])

\* Of more members than there are positions the last ones are left out.
prepare_relation_member_list_query(o, kind) ==
    FlattenSeq([i \in DOMAIN o.members |->
        IF o.members[i].kind = kind /\ i < 2^PosBits
        THEN <<o.members[i].ref, TAB, o.id, TAB, Int16(i - 1), TAB>>
             \o escape(o.members[i].role) \o <<NL>>
        ELSE <<>>])

\* AddrInterpolationHandler::add_points_to_str(), for one house number.
InterpolationTag(o, key) == IF key \in DOMAIN o.addr THEN escape(o.addr[key]) ELSE NullCell
interpolation_query(o) ==
    LET Text(column) ==
            CASE column.class = "OSM_ID" -> <<o.id>>
              [] column.class = "INTERPOLATION_HOUSENUMBER" -> o.number
              [] column.class = "INTERPOLATION" -> InterpolationTag(o, column.name)
              [] OTHER -> <<"SRID=4326;">> \o make_point(o.loc)
    IN  FlattenSeq([k \in DOMAIN addr_interpolation_columns |->
            (IF k > 1 THEN <<TAB>> ELSE <<>>) \o Text(addr_interpolation_columns[k])])
        \o <<NL>>
-----------------------------------------------------------------------------
(* The handlers. *)

Handle(o, kind) == pc = "write" /\ o.kind = kind /\ object' = o
Send(text) == lines' = [table \in AllTables |->
    IF table \in DOMAIN text THEN text[table] ELSE <<>>]
Used(o, table) ==
    writer' = [writer EXCEPT ![table] = create_geometry(writer[table], o).writer]
Frame == UNCHANGED <<setup, line, style, pc>>

has_interesting_tags(o) ==
    (o.tags # <<>> /\ setup.hstore_all) \/ \E i \in DOMAIN o.tags : o.tags[i][1] \in filter(style)

handle_node(o) ==
    /\ Handle(o, "node")
    /\ IF has_interesting_tags(o)
       THEN Send([table \in {"point"} |-> prepare_query(o, "point")]) /\ Used(o, "point")
       ELSE /\ Send([table \in IF setup.untagged THEN {"untagged"} ELSE {} |->
                        prepare_query([o EXCEPT !.street = <<>>], "untagged")])
            /\ UNCHANGED writer
    /\ Frame

handle_way(o) ==
    /\ Handle(o, "way")
    /\ IF Len(o.refs) < 2 \/ ~(setup.updateable \/ has_interesting_tags(o))
       THEN Send(<<>>) /\ UNCHANGED writer
       ELSE /\ Send([table \in {"line"} \cup (IF setup.updateable THEN {"node_ways"} ELSE {}) |->
                        IF table = "line" THEN prepare_query(o, "line")
                        ELSE prepare_node_way_query(o)])
            /\ Used(o, "line")
    /\ Frame

handle_area(o) ==
    /\ Handle(o, "area")
    /\ IF has_interesting_tags(o)
       THEN Send([table \in {"polygon"} |-> prepare_query(o, "polygon")]) /\ Used(o, "polygon")
       ELSE Send(<<>>) /\ UNCHANGED writer
    /\ Frame

\* ImportHandler::relation() and RelationCollector.
handle_relation(o) ==
    /\ Handle(o, "relation")
    /\ Send([table \in {"relations"} \cup (IF setup.updateable
                THEN {"node_relations", "way_relations", "relation_relations"} ELSE {}) |->
            CASE table = "relations" -> prepare_relation_query(o)
              [] table = "node_relations" -> prepare_relation_member_list_query(o, "node")
              [] table = "way_relations" -> prepare_relation_member_list_query(o, "way")
              [] OTHER -> prepare_relation_member_list_query(o, "relation")])
    /\ UNCHANGED writer
    /\ Frame

add_points_to_str(o) ==
    /\ Handle(o, "interpolation")
    /\ Send([table \in {"interpolation"} |-> interpolation_query(o)])
    /\ UNCHANGED writer
    /\ Frame

Next ==
    \/ ReadStyleLine
    \/ OpenTables
    \/ \E o \in setup.objects :
        \/ handle_node(o)
        \/ handle_way(o)
        \/ handle_area(o)
        \/ handle_relation(o)
        \/ add_points_to_str(o)
Spec == Init /\ [][Next]_vars
=============================================================================
