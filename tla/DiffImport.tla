----------------------------- MODULE DiffImport -----------------------------
(***************************************************************************)
(* The append mode of Cerepso: one OSM change file is applied to the       *)
(* database in two passes over the file.                                   *)
(*                                                                         *)
(*   pass 1   DiffHandler1 deletes the old versions                        *)
(*   pass 2   the location handler stores the node locations, then         *)
(*            DiffHandler2 inserts the new versions and collects the ways  *)
(*            and relations that have to follow a moved member; libosmium's *)
(*            MultipolygonManager assembles areas behind it                 *)
(*   after    the pending relations are updated, the multipolygons of      *)
(*            which the diff contains only a part are assembled            *)
(*   close    the destructors end the open COPYs and commit, one table     *)
(*            after the other                                              *)
(*                                                                         *)
(* The program has one thread; what makes it hard is that nine connections *)
(* with different transaction modes have to be in the right mode at the    *)
(* right time, that locations are read through two more connections which  *)
(* see the committed rows only, that a crash leaves every table in its own *)
(* state, and that the same file may be applied again.                     *)
(*                                                                         *)
(* Tile expiry is off.                                                     *)
(***************************************************************************)
EXTENDS OsmData, Pending, PgTable
Sequence == INSTANCE SequencesExt

CONSTANTS
    Scenarios,          \* a data set, a change file for it, and the options
    MaxRuns,            \* how often the file is applied at most
    MayCrash            \* whether the program may be killed

ASSUME MayCrashAssumption == MayCrash \in BOOLEAN
ASSUME MaxRunsAssumption == MaxRuns \in Nat \ {0}

\* The objects of a change file.  Only a deleted node comes without a location.
\* v1 is version 1, of a relation also version 0, which libosmium gives to an
\* object without version.
Changes ==
    {c \in [kind: {"node"}, id: Nodes, v1: BOOLEAN, deleted: BOOLEAN,
            loc: Locs \cup {NoLoc}, tagged: BOOLEAN] : c.deleted \/ c.loc \in Locs}
    \cup [kind: {"way"}, id: Ways, v1: BOOLEAN, deleted: BOOLEAN,
          refs: Seq(Nodes), tagged: BOOLEAN, area: BOOLEAN]
    \cup [kind: {"relation"}, id: Rels, v1: BOOLEAN, deleted: BOOLEAN,
          mems: Seq(MemberRefs), mp: BOOLEAN]
ASSUME ScenariosAssumption ==
    \A s \in Scenarios :
        /\ IsDataSet(s.old)
        /\ s.file \in Seq(Changes)
        /\ s.options \in [flat: BOOLEAN, areas: BOOLEAN, polygons: BOOLEAN]
        /\ s.options.areas => s.options.polygons

VARIABLES
    old,        \* the data set that was imported (constant)
    file,       \* the change file (constant)
    options,    \* the options of the command line and of the import (constant)
    run,        \* which application of the file this is
    pc,         \* where main() is
    why,        \* what ended the program prematurely, if anything
    pos,        \* position in the file
    progress,   \* m_progress
    db,         \* the tables
    flat,       \* the flat nodes file
    cache,      \* m_location_cache
    pendWays, waysIdx,  \* m_pending_ways and m_pending_ways_idx
    pendRels, relsIdx,  \* m_pending_relations and m_pending_relations_idx
    todo,       \* the ids the current clean_up_container_and_work_on() calls for
    members,    \* the ways the MultipolygonManager has been given
    mpBuffer,   \* areas in the output buffer of the MultipolygonManager
    updated     \* m_updated_areas_buffer

vars == <<old, file, options, run, pc, why, pos, progress, db, flat, cache, pendWays,
          waysIdx, pendRels, relsIdx, todo, members, mpBuffer, updated>>

constant == <<old, file, options, run>>
pending == <<pendWays, waysIdx, pendRels, relsIdx>>
areas == <<members, mpBuffer, updated>>

FlatNodes == options.flat   \* --flat-nodes instead of --untagged-nodes
Areas == options.areas      \* --areas
\* The import has created planet_osm_polygon, that is, it was given --areas.
\* With --areas, init() prepares statements about the table: without it the
\* program would not come to the first object.
PolygonTable == options.polygons
-----------------------------------------------------------------------------
(* Queries. *)

Live(t) == db[t].live

WayNodes(w) == {<<r.pos, r.node>> : r \in {r \in Live("node_ways") : r.way = w}}
MembersOf(kind, rel) ==
    {<<r.pos, r.member>> : r \in {r \in Live(TableOf(kind)) : r.rel = rel}}

\* push_back() for every row of a result set, in the order the rows come.
PushAll(list, rows, Id(_)) ==
    LET s == Sequence!SetToSeq(rows) IN list \o [k \in DOMAIN s |-> Id(s[k])]

\* Faulty variant: the wrong column of the result is read.
PushNodes(list, n) ==
    PushAll(list, {r \in Live("node_ways") : r.node = n}, LAMBDA r : r.node)

PushWays(list, n) ==
    PushAll(list, {r \in Live("node_ways") : r.node = n}, LAMBDA r : r.way)

\* Faulty variant: relations of ways are not asked for.
PushRelsOfNodes(list, kind, id) ==
    IF kind = "way" THEN list ELSE
    PushAll(list, {r \in Live(TableOf(kind)) : r.member = id}, LAMBDA r : r.rel)

PushRels(list, kind, id) ==
    PushAll(list, {r \in Live(TableOf(kind)) : r.member = id}, LAMBDA r : r.rel)

\* DatabaseLocationHandler and FileBasedLocationHandler.  The former reads the
\* two node tables through connections of its own: it sees committed rows.
Persistent(n) ==
    LET Rows(t) == {r \in db[t].saved : r.id = n}
    IN  IF Rows("untagged") # {} THEN (CHOOSE r \in Rows("untagged") : TRUE).loc
        ELSE IF Rows("point") # {} THEN (CHOOSE r \in Rows("point") : TRUE).loc
        ELSE NoLoc

\* Faulty variant: the cache is not asked before the tables.
LookupWithoutCache(n) == IF FlatNodes THEN flat[n] ELSE Persistent(n)

Lookup(n) ==
    IF FlatNodes THEN flat[n]
    ELSE IF cache[n] # NoLoc THEN cache[n]
    ELSE Persistent(n)

\* The line a way has according to the tables.
StoredLine(w) == {<<p[1], Lookup(p[2])>> : p \in WayNodes(w)}
-----------------------------------------------------------------------------
(* The start of a run, up to the first object of pass 1. *)

Opened(saved) ==
    [t \in Tables |->
        IF t \in {"relations", "point", "untagged", "line"}
        THEN send_begin(Connect(saved[t]))
        ELSE Connect(saved[t])]

Init ==
    /\ \E s \in Scenarios : old = s.old /\ file = s.file /\ options = s.options
    /\ run = 1
    /\ db = Opened(Imported(old, PolygonTable))
    /\ flat = [n \in Nodes |-> LocIn(old, n)]
    /\ pc = "pass1"
    /\ why = "-"
    /\ pos = 1
    /\ progress = "POINT"
    /\ cache = [n \in Nodes |-> NoLoc]
    /\ pendWays = <<>> /\ waysIdx = 1
    /\ pendRels = <<>> /\ relsIdx = 1
    /\ todo = {}
    /\ members = {} /\ mpBuffer = {} /\ updated = {}

\* An uncaught exception or a kill: the connections are closed by the kernel.
Die(reason) ==
    /\ pc' = "dead"
    /\ why' = reason
    /\ db' = [t \in Tables |-> Disconnect(db[t])]
    /\ UNCHANGED <<constant, pos, progress, flat, cache, pending, todo, areas>>

Object(kind) == pos <= Len(file) /\ file[pos].kind = kind
-----------------------------------------------------------------------------
(* Pass 1: DiffHandler1. *)

Pass1 == pc = "pass1" /\ pos' = pos + 1
Pass1Frame ==
    UNCHANGED <<constant, pc, why, progress, flat, cache, pending, todo, areas>>

\* Faulty variant: deleted objects are taken for new ones.
IsNewOrDeleted(c) == c.v1 \/ c.deleted
\* Faulty variant: old versions are only deleted of deleted objects.
IsNotDeleted(c) == ~c.deleted

\* version() == 1 && !deleted(): there is nothing to delete.
IsNew(c) == c.v1 /\ ~c.deleted

DeleteId(t, id) == delete(t, LAMBDA r : r.id = id)

\* Faulty variant: the table is chosen by the tags of the new version.
NodeDeletedByNewTags(c) ==
    LET t == IF c.tagged THEN "point" ELSE "untagged"
    IN  [db EXCEPT ![t] = DeleteId(@, c.id)]

\* A node is looked for in the table of the untagged nodes first.
NodeDeleted(c) ==
    LET untagged == ~FlatNodes /\ \E r \in Live("untagged") : r.id = c.id
        t == IF untagged THEN "untagged" ELSE "point"
    IN  [db EXCEPT ![t] = DeleteId(@, c.id)]

\* Faulty variant: node_ways is forgotten.
WayDeletedFromLine(c) ==
    [db EXCEPT !["line"] = DeleteId(@, c.id),
               !["polygon"] = IF Areas THEN DeleteId(@, c.id) ELSE @]
\* Faulty variant: the areas of ways are forgotten.
WayDeletedButArea(c) ==
    [db EXCEPT !["line"] = DeleteId(@, c.id),
               !["node_ways"] = delete(@, LAMBDA r : r.way = c.id)]

WayDeleted(c) ==
    [db EXCEPT !["line"] = DeleteId(@, c.id),
               !["polygon"] = IF Areas THEN DeleteId(@, c.id) ELSE @,
               !["node_ways"] = delete(@, LAMBDA r : r.way = c.id)]

\* Faulty variant: rows are deleted by member instead of by relation.
MembershipsDeleted(c) ==
    [t \in Tables |->
        IF t = "relations" THEN DeleteId(db[t], c.id)
        ELSE IF t \in MemberTables THEN delete(db[t], LAMBDA r : r.member = c.id)
        ELSE db[t]]

\* The polygon table is asked for the id of the relation, not for its negative.
RelationDeleted(c) ==
    [t \in Tables |->
        IF t = "relations" \/ (t = "polygon" /\ Areas) THEN DeleteId(db[t], c.id)
        ELSE IF t \in MemberTables THEN delete(db[t], LAMBDA r : r.rel = c.id)
        ELSE db[t]]

Node1 ==
    /\ Object("node")
    /\ Pass1
    /\ db' = IF IsNew(file[pos]) THEN db ELSE NodeDeleted(file[pos])
    /\ Pass1Frame

Way1 ==
    /\ Object("way")
    /\ Pass1
    /\ db' = IF IsNew(file[pos]) THEN db ELSE WayDeleted(file[pos])
    /\ Pass1Frame

Relation1 ==
    /\ Object("relation")
    /\ Pass1
    /\ db' = IF IsNew(file[pos]) THEN db ELSE RelationDeleted(file[pos])
    /\ Pass1Frame

\* Faulty variant: COPY is started for node_ways, too early.
StartPass2WithNodeWays ==
    /\ pc = "pass1"
    /\ pos > Len(file)
    /\ pc' = "pass2"
    /\ pos' = 1
    /\ db' = [t \in Tables |-> IF t \in {"untagged", "point", "node_ways"}
                               THEN start_copy(db[t]) ELSE db[t]]
    /\ UNCHANGED <<constant, why, progress, flat, cache, pending, todo, areas>>

\* prepare_for_lookup() and the constructor of DiffHandler2.
StartPass2 ==
    /\ pc = "pass1"
    /\ pos > Len(file)
    /\ pc' = "pass2"
    /\ pos' = 1
    /\ db' = [db EXCEPT !["untagged"] = start_copy(@), !["point"] = start_copy(@)]
    /\ UNCHANGED <<constant, why, progress, flat, cache, pending, todo, areas>>
-----------------------------------------------------------------------------
(* Pass 2: location handler, DiffHandler2, MultipolygonManager. *)

Pass2 == pc = "pass2" /\ pos' = pos + 1

\* Where handle_node() writes a node.
NodeTable(c) ==
    IF c.tagged THEN "point" ELSE IF FlatNodes THEN "none" ELSE "untagged"
NodeLineFails(c) ==
    ~c.deleted /\ NodeTable(c) # "none" /\ ~CanSendLine(db[NodeTable(c)])

\* The location handlers: the first version of a node stays in the cache, the
\* last one in the file.
StoreLocation(c) ==
    /\ flat' = IF FlatNodes
               THEN [flat EXCEPT ![c.id] = IF c.deleted THEN NoLoc ELSE c.loc]
               ELSE flat
    /\ cache' = IF FlatNodes \/ c.deleted \/ cache[c.id] # NoLoc
                THEN cache ELSE [cache EXCEPT ![c.id] = c.loc]

Node2 ==
    /\ Object("node")
    /\ Pass2
    /\ LET c == file[pos] IN
        /\ ~NodeLineFails(c)
        /\ StoreLocation(c)
        /\ IF c.deleted THEN UNCHANGED <<db, pendWays, pendRels>>
           ELSE /\ db' = [t \in Tables |->
                    CASE t = NodeTable(c) ->
                            send_line(db[t], {PointRow(c.id, c.loc, run)})
                      [] t \in {"node_ways", "node_relations"} -> query(db[t])
                      [] OTHER -> db[t]]
                /\ pendWays' = PushWays(pendWays, c.id)
                /\ pendRels' = PushRels(pendRels, "node", c.id)
    /\ UNCHANGED <<constant, pc, why, progress, waysIdx, relsIdx, todo, areas>>

\* send_line() throws if a node comes after write_new_nodes().
Node2Throws ==
    /\ pc = "pass2"
    /\ Object("node")
    /\ NodeLineFails(file[pos])
    /\ Die("not in COPY mode")

\* write_new_nodes(), called before the first way or relation is handled.
WriteNewNodes ==
    /\ pc = "pass2"
    /\ Object("way") \/ Object("relation")
    /\ progress = "POINT"
    /\ PolygonTable
    /\ db' = [t \in Tables |->
            CASE t \in {"point", "untagged"} -> end_copy(db[t])
              [] t \in {"line", "polygon", "node_ways"} -> start_copy(db[t])
              [] OTHER -> db[t]]
    /\ pendWays' \in SortedUnique(pendWays)
    /\ progress' = "WAY"
    /\ UNCHANGED <<constant, pc, why, pos, flat, cache, waysIdx, pendRels,
                   relsIdx, todo, areas>>

\* main() passes the table of the areas with or without --areas, and COPY is
\* started for it.
WriteNewNodesThrows ==
    /\ pc = "pass2"
    /\ Object("way") \/ Object("relation")
    /\ progress = "POINT"
    /\ ~PolygonTable
    /\ Die("no polygon table")

\* Faulty variant: the line is made from the committed locations.
CommittedLine(c) == Line(c.refs, Persistent)

\* A way is written with the locations the location handler has added to it.
NewLine(c) == Line(c.refs, Lookup)
\* Locations are asked for when the way has a line: a missing one throws.
LineThrows(c) == c.tagged /\ ~Complete(NewLine(c))

\* The multipolygon relations of the file, and the areas that are assembled
\* when the manager gets way w and has got the ways in given before.
Multipolygons == {k \in DOMAIN file :
    file[k].kind = "relation" /\ ~file[k].deleted /\ file[k].mp}
MemberWays(k) ==
    {file[k].mems[i].ref : i \in MembersAt(file[k].mems, "way")}
FileLine(w) ==
    LET k == CHOOSE k \in DOMAIN file : file[k].kind = "way" /\ file[k].id = w
    IN  Line(file[k].refs, Lookup)
\* Assembler: no area without all locations; ways without nodes are ignored.
Assembled(id, parts) ==
    IF \E part \in parts : ~Complete(part[2]) THEN {}
    ELSE {AreaRow(id, {part \in parts : part[2] # {}}, run)}
NewAreas(c, given) ==
    (IF c.area THEN Assembled(c.id, {<<c.id, NewLine(c)>>}) ELSE {})
    \cup UNION {Assembled(-file[k].id, {<<w, FileLine(w)>> : w \in MemberWays(k)}) :
            k \in {k \in Multipolygons :
                    c.id \in MemberWays(k) /\ MemberWays(k) \subseteq given \cup {c.id}}}

\* mp_manager->handler(): the manager is told of every way, deleted or not.
Assemble(c) ==
    /\ members' = members \cup {c.id}
    /\ mpBuffer' = IF Areas THEN mpBuffer \cup NewAreas(c, members) ELSE mpBuffer
    /\ UNCHANGED updated

\* DiffHandler2::way() of a deleted way returns early.
Way2Deleted ==
    /\ Object("way")
    /\ progress # "POINT"
    /\ file[pos].deleted
    /\ Pass2
    /\ Assemble(file[pos])
    /\ UNCHANGED <<constant, pc, why, progress, db, flat, cache, pending, todo>>

\* The last character of an empty string is read before an empty node list is
\* sent: it may be anything, so a way without nodes may pass or throw.
Way2 ==
    /\ Object("way")
    /\ progress # "POINT"
    /\ ~file[pos].deleted
    /\ ~LineThrows(file[pos])
    /\ Pass2
    /\ LET c == file[pos] IN
        /\ (c.tagged => CanSendLine(db["line"])) /\ CanSendLine(db["node_ways"])
        /\ db' = [db EXCEPT
                !["line"] = IF c.tagged
                    THEN send_line(@, {LineRow(c.id, Linestring(NewLine(c)), run)})
                    ELSE @,
                !["way_relations"] = query(@),
                !["node_ways"] = send_line(@, NodeWayRows(c.id, c.refs, run))]
        /\ pendRels' = PushRels(pendRels, "way", c.id)
        /\ pendWays' = CrossOut(pendWays, waysIdx, c.id)
        /\ waysIdx' = NextIdx(pendWays, waysIdx, c.id)
        /\ Assemble(c)
    /\ UNCHANGED <<constant, pc, why, progress, flat, cache, relsIdx, todo>>

Way2Throws ==
    /\ pc = "pass2"
    /\ Object("way")
    /\ progress # "POINT"
    /\ ~file[pos].deleted
    /\ LET c == file[pos] IN
        \/ LineThrows(c) /\ Die("missing location")
        \/ c.refs = <<>> /\ Die("empty line")
        \/ ~CanSendLine(db["node_ways"]) /\ Die("not in COPY mode")

\* The manager hands over the areas assembled so far when its buffer is full,
\* and at the end of the pass.  DiffHandler2::area() appends them.
FlushAreas ==
    /\ pc = "pass2"
    /\ mpBuffer # {}
    /\ CanSendLine(db["polygon"])
    /\ db' = [db EXCEPT !["polygon"] = send_line(@, mpBuffer)]
    /\ mpBuffer' = {}
    /\ UNCHANGED <<constant, pc, why, pos, progress, flat, cache, pending, todo,
                   members, updated>>

\* write_new_ways(), called before the first relation is handled: first half,
\* up to the call of work_on_pending_ways().
WriteNewWays ==
    /\ pc = "pass2"
    /\ Object("relation")
    /\ progress = "WAY"
    /\ pc' = "ways"
    /\ db' = [t \in Tables |->
            IF t \in {"line", "node_ways", "polygon"} THEN end_copy(db[t]) ELSE db[t]]
    /\ pendWays' \in Sorted(pendWays)
    /\ todo' = WorkIds(pendWays)
    /\ UNCHANGED <<constant, why, pos, progress, flat, cache, waysIdx, pendRels,
                   relsIdx, areas>>

\* Faulty variant: nothing is ever called for.
TurnOfNone(id) == FALSE

\* The next id of clean_up_container_and_work_on().
Turn(id) == id \in todo /\ \A other \in todo : id <= other

\* fill_linestring() takes a single point, but the server does not.
SinglePoint(line) == Cardinality(line) = 1

\* update_way().  wkbhpp never starts a ring in polygon_start(), so that the
\* polygon that is built has none.
UpdateWay(id) ==
    /\ pc = "ways"
    /\ Turn(id)
    /\ Complete(StoredLine(id)) /\ ~SinglePoint(StoredLine(id))
    /\ db' = [t \in Tables |->
            CASE t = "line" ->
                    update(db[t], LAMBDA r : r.id = id,
                           LAMBDA r : [r EXCEPT !.geom = StoredLine(id)])
              [] t = "polygon" /\ Areas ->
                    update(db[t], LAMBDA r : r.id = id,
                           LAMBDA r : [r EXCEPT !.geom = {}])
              [] OTHER -> db[t]]
    /\ pendRels' = PushRels(pendRels, "way", id)
    /\ todo' = todo \ {id}
    /\ UNCHANGED <<constant, pc, why, pos, progress, flat, cache, pendWays,
                   waysIdx, relsIdx, areas>>

\* osmium::invalid_location is not among the exceptions update_way() catches.
UpdateWayThrows(id) ==
    /\ pc = "ways"
    /\ Turn(id)
    /\ \/ ~Complete(StoredLine(id)) /\ Die("missing location")
       \/ SinglePoint(StoredLine(id)) /\ Complete(StoredLine(id)) /\ Die("single point")

\* write_new_ways(), second half.  The table of the areas is there: otherwise
\* write_new_nodes() would have thrown.
StartRelations ==
    /\ pc = "ways"
    /\ todo = {}
    /\ pc' = "pass2"
    /\ progress' = "RELATION"
    /\ pendRels' \in SortedUnique(pendRels)
    /\ db' = [t \in Tables |->
            IF t \in {"polygon", "relations"} \cup MemberTables
            THEN start_copy(db[t]) ELSE db[t]]
    /\ UNCHANGED <<constant, why, pos, flat, cache, pendWays, waysIdx, relsIdx,
                   todo, areas>>

Relation2Deleted ==
    /\ Object("relation")
    /\ progress = "RELATION"
    /\ file[pos].deleted
    /\ Pass2
    /\ UNCHANGED <<constant, pc, why, progress, db, flat, cache, pending, todo,
                   areas>>

\* insert_relation() reserves room for the coordinates of a way but creates
\* none, so that the loop that fills them in ends immediately.
InsertedLines(mems) == {<<i, {}>> : i \in MembersAt(mems, "way")}

\* Faulty variant: the points are made from the committed locations.
CommittedPoints(nodeMembers) ==
    {p \in {<<m[1], Persistent(m[2])>> : m \in nodeMembers} : p[2] # NoLoc}

NodePoints(nodeMembers) ==
    {p \in {<<m[1], Lookup(m[2])>> : m \in nodeMembers} : p[2] # NoLoc}

Relation2 ==
    /\ Object("relation")
    /\ progress = "RELATION"
    /\ ~file[pos].deleted
    /\ Pass2
    /\ LET c == file[pos]
           points == NodePoints({<<i, c.mems[i].ref>> : i \in MembersAt(c.mems, "node")})
       IN
        /\ \A t \in {"relations"} \cup MemberTables : CanSendLine(db[t])
        /\ db' = [t \in Tables |->
            CASE t = "relations" -> send_line(db[t],
                    {RelationRow(c.id, points, InsertedLines(c.mems), run)})
              [] t = "node_ways" -> query(db[t])
              [] t \in MemberTables -> send_line(db[t],
                    MemberRows(c.id, c.mems, CHOOSE k \in Kinds : TableOf(k) = t, run))
              [] OTHER -> db[t]]
        /\ pendRels' = CrossOut(pendRels, relsIdx, c.id)
        /\ relsIdx' = NextIdx(pendRels, relsIdx, c.id)
    /\ UNCHANGED <<constant, pc, why, progress, flat, cache, pendWays, waysIdx,
                   todo, areas>>
-----------------------------------------------------------------------------
(* After pass 2. *)

AfterRelations ==
    /\ pc = "pass2"
    /\ pos > Len(file)
    /\ mpBuffer = {}
    /\ pc' = "rels"
    /\ db' = [t \in Tables |->
            IF t \in {"relations", "polygon"} \cup MemberTables
            THEN end_copy(db[t]) ELSE db[t]]
    /\ pendRels' \in Sorted(pendRels)
    /\ todo' = WorkIds(pendRels)
    /\ UNCHANGED <<constant, why, pos, progress, flat, cache, pendWays, waysIdx,
                   relsIdx, areas>>

\* The lines of the way members of a relation, according to the tables.
StoredLines(rel) ==
    {<<m[1], StoredLine(m[2])>> : m \in MembersOf("way", rel)}
\* loc.lon() throws for a missing location, and GEOS for a single point.
Incomplete(rel) == \E l \in StoredLines(rel) : ~Complete(l[2])
SinglePoints(rel) == \E l \in StoredLines(rel) : SinglePoint(l[2])
\* The ways the manager still holds: those of relations it could not complete.
Held ==
    {w \in members : \E k \in Multipolygons :
        w \in MemberWays(k) /\ ~(MemberWays(k) \subseteq members)}
MemberPart(w) == <<w, IF w \in Held THEN FileLine(w) ELSE StoredLine(w)>>
\* update_multipolygon_geometry() leaves out the ways of the database that have
\* fewer than two nodes.
RebuiltArea(rel) ==
    Assembled(rel, {MemberPart(m[2]) : m \in
        {m \in MembersOf("way", rel) :
            m[2] \in Held \/ Cardinality(WayNodes(m[2])) >= 2}})

\* update_relation().  It reads node_ways, which is still in COPY if the diff
\* has ways but no relation.
UpdateRelation(rel) ==
    /\ pc = "rels"
    /\ Turn(rel)
    /\ LET readsWays == MembersOf("way", rel) # {} IN
        /\ ~Incomplete(rel) /\ ~SinglePoints(rel)
        /\ db' = [t \in Tables |->
            CASE t = "relations" ->
                    update(db[t], LAMBDA r : r.id = rel,
                           LAMBDA r : [r EXCEPT
                                !.points = NodePoints(MembersOf("node", rel)),
                                !.lines = StoredLines(rel)])
              [] t = "node_ways" /\ readsWays -> query(db[t])
              [] OTHER -> db[t]]
    /\ updated' = IF Areas /\ \E r \in Live("polygon") : r.id = -rel
                  THEN updated \cup RebuiltArea(rel) ELSE updated
    /\ todo' = todo \ {rel}
    /\ UNCHANGED <<constant, pc, why, pos, progress, flat, cache, pending,
                   members, mpBuffer>>

UpdateRelationThrows(rel) ==
    /\ pc = "rels"
    /\ Turn(rel)
    /\ \/ Incomplete(rel) /\ Die("missing location")
       \/ SinglePoints(rel) /\ Die("single point")

\* append_handler2.flush(): update_area_geometry() looks for orig_id(), the id
\* of the relation without the sign.
FlushUpdated ==
    /\ pc = "rels"
    /\ todo = {}
    /\ pc' = IF Areas THEN "incomplete" ELSE "close"
    /\ db' = IF ~Areas THEN db
             ELSE [db EXCEPT !["polygon"] =
                Store(@, {IF \E a \in updated : a.id = r.id
                          THEN [r EXCEPT !.geom =
                                    (CHOOSE a \in updated : a.id = r.id).geom]
                          ELSE r : r \in @.live})]
    /\ updated' = {}
    /\ UNCHANGED <<constant, why, pos, progress, flat, cache, pending, todo,
                   members, mpBuffer>>

\* for_each_incomplete_relation(): the ways that are not in the diff come from
\* the tables.  incomplete_relation() skips members with id 0, which is what the
\* manager has set for everything but ways.
IncompleteRelations ==
    /\ pc = "incomplete"
    /\ pc' = "close"
    /\ LET incomplete == {k \in Multipolygons : ~(MemberWays(k) \subseteq members)}
           new == UNION {Assembled(-file[k].id, {MemberPart(w) : w \in MemberWays(k)}) :
                            k \in incomplete}
       IN  db' = [t \in Tables |->
            CASE t = "polygon" -> end_copy(send_line(start_copy(db[t]), new))
              [] t = "node_ways" /\ incomplete # {} -> query(db[t])
              [] OTHER -> db[t]]
    /\ UNCHANGED <<constant, why, pos, progress, flat, cache, pending, todo, areas>>
-----------------------------------------------------------------------------
(* The end of main(): the tables are destroyed in the reverse order of their *)
(* declaration.                                                              *)

\* Behind the file, pos counts the destructors.
Closing(t) == pc = "close" /\ CloseOrder[pos - Len(file)] = t

CloseTable(t) ==
    /\ Closing(t)
    /\ CanClose(db[t])
    /\ db' = [db EXCEPT ![t] = close(@)]
    /\ pos' = pos + 1
    /\ pc' = IF t = "point" THEN "done" ELSE pc
    /\ UNCHANGED <<constant, why, progress, flat, cache, pending, todo, areas>>

\* An exception leaves a destructor: std::terminate().
CloseThrows(t) ==
    /\ Closing(t)
    /\ ~CanClose(db[t])
    /\ Die("lost COPY")
-----------------------------------------------------------------------------
(* Kill and restart. *)

Crash ==
    /\ MayCrash
    /\ pc \notin {"done", "dead"}
    /\ Die("killed")

\* The same file is applied to what is there, as doc/good_to_now.txt allows.
Restart ==
    /\ pc \in {"done", "dead"}
    /\ run < MaxRuns
    /\ run' = run + 1
    /\ db' = Opened([t \in Tables |-> db[t].saved])
    /\ pc' = "pass1"
    /\ why' = "-"
    /\ pos' = 1
    /\ progress' = "POINT"
    /\ cache' = [n \in Nodes |-> NoLoc]
    /\ pendWays' = <<>> /\ waysIdx' = 1
    /\ pendRels' = <<>> /\ relsIdx' = 1
    /\ todo' = {}
    /\ members' = {} /\ mpBuffer' = {} /\ updated' = {}
    /\ UNCHANGED <<old, file, options, flat>>

Pass1Step == Node1 \/ Way1 \/ Relation1 \/ StartPass2
Pass2Step ==
    \/ Node2 \/ Node2Throws \/ WriteNewNodes \/ WriteNewNodesThrows
    \/ Way2Deleted \/ Way2 \/ Way2Throws \/ FlushAreas
    \/ WriteNewWays \/ StartRelations
    \/ \E w \in Ways : UpdateWay(w) \/ UpdateWayThrows(w)
    \/ Relation2Deleted \/ Relation2
AfterStep ==
    \/ AfterRelations
    \/ \E rel \in Rels : UpdateRelation(rel) \/ UpdateRelationThrows(rel)
    \/ FlushUpdated \/ IncompleteRelations
    \/ \E t \in Tables : CloseTable(t) \/ CloseThrows(t)
Step == Pass1Step \/ Pass2Step \/ AfterStep

Next == Step \/ Crash \/ Restart

\* The program is one thread that never waits for anything but its own work.
Spec == Init /\ [][Next]_vars /\ WF_vars(Step)
=============================================================================
