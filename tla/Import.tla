------------------------------- MODULE Import -------------------------------
(***************************************************************************)
(* The import of a planet file (or of an extract) into empty tables:       *)
(*                                                                         *)
(*   open     the tables the options ask for are dropped and created       *)
(*   pass 1   relations: what RelationCollector and the associated streets *)
(*            have to remember of their members                            *)
(*   pass 2   nodes, ways, relations: rows are sent, relations are written *)
(*            when the last of their members has been read                 *)
(*   dump     the location index becomes the flat nodes file               *)
(*   close    the destructors end COPY and sort the tables                 *)
(*                                                                         *)
(* An import may be killed and repeated, with other options too; in the    *)
(* end the append mode is started, which needs the tables to be there.     *)
(* RelationCollector is a RelationsManager of libosmium; the copy of that  *)
(* class in contrib, which the module RelationsManager translates, differs *)
(* from it only in find() being public.                                    *)
(***************************************************************************)
EXTENDS OsmData, PgTable, RelationsManager
LOCAL INSTANCE SequencesExt

CONSTANTS
    Inputs,     \* data set, associatedStreet relations in it, and options
    Troubled,   \* the inputs whose import may be killed and repeated
    MaxRuns     \* how many imports there are at most

ASSUME TroubledAssumption == Troubled \subseteq Inputs
ASSUME MaxRunsAssumption == MaxRuns \in Nat \ {0}

VARIABLES
    input,      \* what is imported (constant during a run)
    run,        \* which import this is
    pc,         \* where main() is
    why,        \* what ended the program prematurely, if anything
    pos,        \* position in the file, or in the list of tables
    stage,      \* what the destructor of the current table does next
    db,         \* the tables
    created,    \* the tables that exist
    left,       \* the rows of the tables named x_tmp, as far as there are any
    index,      \* the location index
    flat,       \* the flat nodes file, <<>> if there is none
    manager,    \* RelationCollector's members
    streets,    \* AssociatedStreetRelationManager's members
    applied     \* which relation's tags were added to which object (history)

vars == <<input, run, pc, why, pos, stage, db, created, left, index, flat,
          manager, streets, applied>>
tables == <<db, created, left>>

data == input.data
options == input.options
-----------------------------------------------------------------------------
(* The file is sorted by type and id. *)

Ascending(kind, ids) ==
    LET s == SetToSortSeq(ids, LAMBDA a, b : a < b)
    IN  [k \in DOMAIN s |-> [kind |-> kind, id |-> s[k]]]
Relations == Ascending("relation", DOMAIN data.rel)
File ==
    Ascending("node", DOMAIN data.node) \o Ascending("way", DOMAIN data.way) \o Relations

Object(kind) == pos <= Len(File) /\ File[pos].kind = kind
Id == File[pos].id

(* Which tables the options ask for, in the order of their declaration.      *)
Wanted(o) ==
    {"point", "line", "relations"}
    \cup (IF o.untagged THEN {"untagged"} ELSE {})
    \cup (IF o.updateable THEN MemberTables \cup {"node_ways"} ELSE {})
    \cup (IF o.areas THEN {"polygon"} ELSE {})
OpenOrder == Reverse(CloseOrder)
Geometric == {"point", "line", "polygon", "relations"}

Init ==
    /\ input \in Inputs
    /\ run = 1
    /\ pc = "open" /\ why = "-" /\ pos = 1 /\ stage = "copy"
    /\ db = [t \in Tables |-> Connect({})]
    /\ created = {} /\ left = <<>>
    /\ index = [n \in Nodes |-> NoLoc]
    /\ flat = <<>>
    /\ manager = NewManager(Rels) /\ streets = NewManager(Rels)
    /\ applied = {}

\* An uncaught exception or a kill: what is still in COPY is lost.
Die(reason) ==
    /\ pc' = "dead"
    /\ why' = reason
    /\ db' = [t \in Tables |-> Disconnect(db[t])]
    /\ UNCHANGED <<input, run, pos, stage, created, left, index, flat, manager,
                   streets, applied>>

\* PostgresTable::init(): DROP IF EXISTS, CREATE, COPY.
OpenTable ==
    /\ pc = "open"
    /\ LET t == OpenOrder[pos]
       IN  IF t \in Wanted(options)
           THEN /\ db' = [db EXCEPT ![t] = start_copy(Connect({}))]
                /\ created' = created \cup {t}
           ELSE UNCHANGED <<db, created>>
    /\ IF pos = Len(OpenOrder) THEN pc' = "pass1" /\ pos' = 1
       ELSE pos' = pos + 1 /\ UNCHANGED pc
    /\ UNCHANGED <<input, run, why, stage, left, index, flat, manager, streets, applied>>
-----------------------------------------------------------------------------
(* Pass 1. *)

\* track() for the members of a relation that are of one of the kinds.
TrackAll(m, rel, kinds) ==
    LET mems == data.rel[rel].mems
        TrackMember(n, i) ==
            IF mems[i].kind \in kinds THEN track(n, mems[i].kind, rel, mems[i].ref, i) ELSE n
    IN  FoldLeft(TrackMember, m, [i \in DOMAIN mems |-> i])

CollectRelation ==
    /\ pc = "pass1"
    /\ pos <= Len(Relations)
    /\ LET rel == Relations[pos].id IN
        /\ manager' = TrackAll(manager, rel, {"node", "way"})
        /\ streets' = IF options.streets /\ rel \in input.streets
                      THEN TrackAll(streets, rel, Kinds) ELSE streets
    /\ pos' = pos + 1
    /\ UNCHANGED <<input, run, pc, why, stage, tables, index, flat, applied>>

\* The members database of the streets is not told that pass 1 is over.
StartPass2 ==
    /\ pc = "pass1"
    /\ pos > Len(Relations)
    /\ pc' = "pass2"
    /\ pos' = 1
    /\ manager' = prepare_for_lookup(manager)
    /\ UNCHANGED <<input, run, why, stage, tables, index, flat, streets, applied>>
-----------------------------------------------------------------------------
(* Pass 2: location handler, RelationCollector, ImportHandler, and the       *)
(* MultipolygonManager, in this order.                                       *)

Pass2(kind) == pc = "pass2" /\ Object(kind) /\ pos' = pos + 1
Pass2Frame == UNCHANGED <<input, run, pc, why, stage, created, left, flat, streets>>

\* Faulty variant: ids of nodes and ways are looked up in the same vector.
get_relation_tags_OfNodes(kind, id) ==
    LET range == Found(streets["node"], id)
    IN  IF range = {} THEN {}
        ELSE {<<kind, id, streets["node"][find(streets["node"], id)[1]].rel>>}

\* The tags that are added to those of an object: of the first element found.
get_relation_tags(kind, id) ==
    LET range == Found(streets[kind], id)
    IN  IF range = {} THEN {}
        ELSE {<<kind, id, streets[kind][find(streets[kind], id)[1]].rel>>}

\* The members of a relation RelationCollector waits for.
Awaited(rel) ==
    SelectSeq(data.rel[rel].mems, LAMBDA member : member.kind \in {"node", "way"})

\* complete_relation(): the rows of the relations completed on the way from one
\* state of the manager to another.  A geometry error drops the relation.
RelationRows(m, n) ==
    LET new == {n.complete[k] : k \in Len(m.complete) + 1 .. Len(n.complete)}
    IN  {RelationRow(rel, Points(data, data.rel[rel].mems),
                     Lines(data, data.rel[rel].mems), run) :
            rel \in {rel \in new : \A i \in MembersAt(data.rel[rel].mems, "way") :
                        GivesLine(data, data.rel[rel].mems[i].ref)}}

\* Lines for several tables.
Send(rows) ==
    [t \in Tables |-> IF t \in DOMAIN rows /\ t \in Wanted(options)
                      THEN send_line(db[t], rows[t]) ELSE db[t]]

ReadNode ==
    /\ Pass2("node")
    /\ LET node == data.node[Id]
           table == IF node.tagged THEN "point" ELSE "untagged"
       IN
        /\ index' = [index EXCEPT ![Id] = node.loc]
        /\ manager' = add(manager, "node", Id, Awaited)
        /\ db' = Send([t \in {table, "relations"} |->
                        IF t = "relations" THEN RelationRows(manager, manager')
                        ELSE {PointRow(Id, node.loc, run)}])
        /\ applied' = IF node.tagged THEN applied \cup get_relation_tags("node", Id) ELSE applied
    /\ Pass2Frame

\* NodeLocationsForWays: osmium::not_found leaves main().
MissesLocation(w) == \E i \in DOMAIN data.way[w].refs : index[data.way[w].refs[i]] = NoLoc

\* Faulty variant: rows of node_ways are written for every way.
WritesNodeWays_Always(w) == options.updateable

WritesLine(w) ==
    Len(data.way[w].refs) >= 2 /\ (options.updateable \/ data.way[w].tagged)
WritesNodeWays(w) == options.updateable /\ WritesLine(w)

\* The areas MultipolygonManager can assemble when it gets a way.  They are sent
\* when its buffer is full or the file ends; nobody can tell when, since all
\* lines become visible together.
Multipolygons(w) ==
    {rel \in RelAreas(data) :
        LET refs == {data.rel[rel].mems[i].ref : i \in MembersAt(data.rel[rel].mems, "way")}
        IN  w \in refs /\ \A v \in refs : v <= w}
AreaRows(w) ==
    (IF data.way[w].area THEN {AreaRow(w, AreaOfWay(data, w), run)} ELSE {})
    \cup {AreaRow(-rel, AreaOfRel(data, rel), run) : rel \in Multipolygons(w)}
AreaTags(w) ==
    (IF data.way[w].area THEN get_relation_tags("way", w) ELSE {})
    \cup UNION {get_relation_tags("relation", rel) : rel \in Multipolygons(w)}

ReadWay ==
    /\ Pass2("way")
    /\ ~MissesLocation(Id)
    /\ LET way == data.way[Id] IN
        /\ manager' = add(manager, "way", Id, Awaited)
        /\ db' = Send([t \in {"relations", "line", "node_ways", "polygon"} |->
            CASE t = "relations" -> RelationRows(manager, manager')
              [] t = "line" -> IF WritesLine(Id)
                    THEN {LineRow(Id, Linestring(WayLine(data, Id)), run)} ELSE {}
              [] t = "node_ways" -> IF WritesNodeWays(Id)
                    THEN NodeWayRows(Id, way.refs, run) ELSE {}
              [] t = "polygon" -> AreaRows(Id)])
        /\ applied' = applied
            \cup (IF WritesLine(Id) THEN get_relation_tags("way", Id) ELSE {})
            \cup (IF options.areas THEN AreaTags(Id) ELSE {})
    /\ UNCHANGED index
    /\ Pass2Frame

ReadWayThrows ==
    /\ pc = "pass2"
    /\ Object("way")
    /\ MissesLocation(Id)
    /\ Die("missing location")

ReadRelation ==
    /\ Pass2("relation")
    /\ db' = Send([t \in MemberTables |->
            MemberRows(Id, data.rel[Id].mems, CHOOSE k \in Kinds : TableOf(k) = t, run)])
    /\ UNCHANGED <<index, manager, applied>>
    /\ Pass2Frame
-----------------------------------------------------------------------------
(* The flat nodes file. *)

AfterPass2 == UNCHANGED <<input, run, why, stage, index, manager, streets, applied>>

\* dump_index(): the file is truncated when it is opened.
OpenDump ==
    /\ pc = "pass2"
    /\ pos > Len(File)
    /\ IF options.flat /\ options.updateable
       THEN pc' = "dump" /\ flat' = [n \in Nodes |-> NoLoc]
       ELSE pc' = "close" /\ UNCHANGED flat
    /\ pos' = 1
    /\ UNCHANGED tables
    /\ AfterPass2

\* Index types that can be dumped.  Of the others only one is an error.
Dumpable == {"dense", "sparse_mmap_array"}

Dump ==
    /\ pc = "dump"
    /\ options.index # "sparse_mem_array"
    /\ flat' = IF options.index \in Dumpable THEN index ELSE flat
    /\ pc' = "close"
    /\ UNCHANGED <<pos, tables>>
    /\ AfterPass2

DumpThrows ==
    /\ pc = "dump"
    /\ options.index = "sparse_mem_array"
    /\ Die("no dump")
-----------------------------------------------------------------------------
(* The destructors: end COPY; then CREATE TABLE x_tmp AS, DROP TABLE x and   *)
(* ALTER TABLE x_tmp RENAME TO x, each of them committed at once.            *)

Closing == CloseOrder[pos]
NextTable ==
    /\ stage' = "copy"
    /\ pos' = pos + 1
    /\ pc' = IF pos = Len(CloseOrder) THEN "done" ELSE pc
CloseFrame == UNCHANGED <<input, run, why, index, flat, manager, streets, applied>>

CloseCopy ==
    /\ pc = "close" /\ stage = "copy"
    /\ db' = [db EXCEPT ![Closing] = close(@)]
    /\ IF options.geohash /\ Closing \in Wanted(options) \cap Geometric
       THEN stage' = "create" /\ UNCHANGED <<pos, pc>> ELSE NextTable
    /\ UNCHANGED <<created, left>>
    /\ CloseFrame

CreateTmp ==
    /\ pc = "close" /\ stage = "create"
    /\ Closing \notin DOMAIN left
    /\ left' = [t \in DOMAIN left \cup {Closing} |->
                    IF t = Closing THEN db[t].saved ELSE left[t]]
    /\ stage' = "drop"
    /\ UNCHANGED <<pos, pc, db, created>>
    /\ CloseFrame

\* The table is there already: an exception leaves a destructor.
CreateTmpThrows ==
    /\ pc = "close" /\ stage = "create"
    /\ Closing \in DOMAIN left
    /\ Die("left over")

DropTable ==
    /\ pc = "close" /\ stage = "drop"
    /\ db' = [db EXCEPT ![Closing] = Connect({})]
    /\ created' = created \ {Closing}
    /\ stage' = "rename"
    /\ UNCHANGED <<pos, pc, left>>
    /\ CloseFrame

\* Faulty variant: the table is not renamed.
RenameTmp_Kept ==
    /\ pc = "close" /\ stage = "rename"
    /\ created' = created \cup {Closing}
    /\ NextTable
    /\ UNCHANGED <<db, left>>
    /\ CloseFrame

RenameTmp ==
    /\ pc = "close" /\ stage = "rename"
    /\ db' = [db EXCEPT ![Closing] = Connect(left[Closing])]
    /\ created' = created \cup {Closing}
    /\ left' = [t \in DOMAIN left \ {Closing} |-> left[t]]
    /\ NextTable
    /\ CloseFrame
-----------------------------------------------------------------------------
(* Kill, another import, append mode. *)

Crash ==
    /\ input \in Troubled
    /\ pc \in {"open", "pass1", "pass2", "dump", "close"}
    /\ Die("killed")

ImportAgain ==
    /\ input \in Troubled
    /\ pc \in {"done", "dead"}
    /\ run < MaxRuns
    /\ run' = run + 1
    /\ input' \in Troubled
    /\ pc' = "open" /\ why' = "-" /\ pos' = 1 /\ stage' = "copy"
    /\ index' = [n \in Nodes |-> NoLoc]
    /\ manager' = NewManager(Rels) /\ streets' = NewManager(Rels)
    /\ applied' = {}
    /\ UNCHANGED <<tables, flat>>

\* What main() opens with --append, which implies updateability, and what the
\* first way or relation of a diff needs.  The location handler opens
\* untagged_nodes whether or not it is asked for, and DiffHandler2 starts COPY
\* into planet_osm_polygon with or without --areas.
NeededToAppend ==
    Wanted([options EXCEPT !.untagged = TRUE, !.updateable = TRUE, !.areas = TRUE])

\* --append with the same options, except that --flat-nodes excludes
\* --untagged-nodes.
StartAppend ==
    /\ pc = "done"
    /\ pc' = IF NeededToAppend \subseteq created /\ (options.flat => flat # <<>>)
             THEN "append" ELSE "no append"
    /\ UNCHANGED <<input, run, why, pos, stage, tables, index, flat, manager,
                   streets, applied>>

ReadFile == ReadNode \/ ReadWay \/ ReadWayThrows \/ ReadRelation
CloseTables == CloseCopy \/ CreateTmp \/ CreateTmpThrows \/ DropTable \/ RenameTmp
Step ==
    OpenTable \/ CollectRelation \/ StartPass2 \/ ReadFile
    \/ OpenDump \/ Dump \/ DumpThrows \/ CloseTables
Next == Step \/ Crash \/ ImportAgain \/ StartAppend
Spec == Init /\ [][Next]_vars
=============================================================================
