--------------------------- MODULE DiffRowsProofs ---------------------------
(***************************************************************************)
(* What a step of DiffImport does to the tables and to their rows, for any *)
(* data set, any change file (sorted or not) and any number of crashes and *)
(* repetitions: first for every method of a table, then for every action.  *)
(* The invariants about rows rest on these steps alone; the first of them  *)
(* are here: the modes of the tables, rows of objects that are not in the  *)
(* file stay, COPY is not lost.                                            *)
(***************************************************************************)
EXTENDS DiffProperties, TLAPS
-----------------------------------------------------------------------------
IsTable(t) ==
    /\ DOMAIN t = {"saved", "live", "lines", "copy", "stream", "begun"}
    /\ {t.copy, t.stream, t.begun} \subseteq BOOLEAN
    /\ t = [field \in DOMAIN t |-> t[field]]

\* What every method but begin, commit and the destructor leaves alone.
Isolated(t, u) ==
    /\ IsTable(u)
    /\ u.begun = t.begun
    /\ t.begun = TRUE => u.saved = t.saved

LEMMA StoreIsolated ==
    ASSUME NEW t, IsTable(t), NEW rows
    PROVE  Isolated(t, Store(t, rows)) /\ Store(t, rows).copy = t.copy
<1> DEFINE saved == IF t.begun THEN t.saved ELSE rows
<1>1. Store(t, rows) = [t EXCEPT !.live = rows, !.saved = saved]
    BY DEF Store
<1>2. t.begun = TRUE => saved = t.saved
    OBVIOUS
<1> HIDE DEF saved
<1> QED
    BY <1>1, <1>2 DEF IsTable, Isolated

LEMMA SendLineIsolated ==
    ASSUME NEW t, IsTable(t), NEW rows
    PROVE  Isolated(t, send_line(t, rows)) /\ send_line(t, rows).copy = t.copy
BY DEF IsTable, Isolated, send_line

LEMMA QueryIsolated ==
    ASSUME NEW t, IsTable(t)
    PROVE  Isolated(t, query(t)) /\ query(t).copy = t.copy
BY DEF IsTable, Isolated, query

LEMMA StartCopyIsolated ==
    ASSUME NEW t, IsTable(t)
    PROVE  Isolated(t, start_copy(t))
BY DEF IsTable, Isolated, start_copy

LEMMA EndCopyIsolated ==
    ASSUME NEW t, IsTable(t)
    PROVE  Isolated(t, end_copy(t)) /\ end_copy(t).copy = FALSE
<1>1. CASE t.copy
  <2> DEFINE u == Store(t, t.live \cup t.lines)
  <2>1. Isolated(t, u)
    BY StoreIsolated
  <2>2. end_copy(t) = [u EXCEPT !.lines = {}, !.copy = FALSE, !.stream = FALSE]
    BY <1>1 DEF end_copy
  <2> HIDE DEF u
  <2> QED
    BY <2>1, <2>2 DEF IsTable, Isolated
<1>2. CASE ~t.copy
    BY <1>2 DEF IsTable, Isolated, end_copy
<1> QED
    BY <1>1, <1>2

LEMMA ReflexiveIsolated ==
    ASSUME NEW t, IsTable(t)
    PROVE  Isolated(t, t)
BY DEF Isolated

LEMMA ConnectIsTable ==
    ASSUME NEW rows
    PROVE  /\ IsTable(Connect(rows)) /\ Connect(rows).saved = rows
           /\ Connect(rows).copy = FALSE
BY DEF IsTable, Connect

LEMMA BeginIsTable ==
    ASSUME NEW t, IsTable(t)
    PROVE  /\ IsTable(send_begin(t)) /\ send_begin(t).saved = t.saved
           /\ send_begin(t).copy = t.copy /\ send_begin(t).begun = TRUE
BY DEF IsTable, send_begin
-----------------------------------------------------------------------------
(* The inductive invariant: a table is in COPY only in the phase in which    *)
(* the handlers write to it, and the transactions stay open until the end.   *)

MayCopy ==
    CASE pc \in {"pass1", "ways"} -> {}
      [] pc = "pass2" /\ progress = "POINT" -> {"point", "untagged"}
      [] pc = "pass2" /\ progress = "WAY" -> {"line", "polygon", "node_ways"}
      [] pc = "pass2" /\ progress = "RELATION" ->
            {"polygon", "relations"} \cup MemberTables
      [] pc \in {"rels", "incomplete"} -> {"point", "untagged", "line", "node_ways"}
      [] pc \in {"close", "done", "dead"} -> Tables

Running == pc \in {"pass1", "pass2", "ways", "rels", "incomplete"}

TablesInv ==
    /\ DOMAIN db = Tables
    /\ \A t \in Tables : IsTable(db[t])
    /\ Running \/ pc \in {"close", "done", "dead"}
    /\ progress \in {"POINT", "WAY", "RELATION"}
    /\ pc = "pass1" => progress = "POINT"
    /\ pc = "ways" => progress = "WAY"
    /\ Running => \A t \in Transactional : db[t].begun = TRUE
    /\ \A t \in Tables : db[t].copy = TRUE => t \in MayCopy

\* The step property behind ChangesAtTheEnd.
Invisible == \A t \in Transactional : db'[t].saved # db[t].saved => Closing(t)

\* A step in which no table changes its mode.
Quiet(t) ==
    \/ db'[t] = db[t]
    \/ db'[t] = query(db[t])
    \/ \E rows : db'[t] = Store(db[t], rows)
    \/ \E rows : db'[t] = send_line(db[t], rows)

LEMMA QuietIsolated ==
    ASSUME TablesInv, NEW t \in Tables, Quiet(t)
    PROVE  Isolated(db[t], db'[t]) /\ db'[t].copy = db[t].copy
<1>1. IsTable(db[t])
    BY DEF TablesInv
<1> QED
    BY <1>1, ReflexiveIsolated, QueryIsolated, StoreIsolated, SendLineIsolated
       DEF Quiet

LEMMA TransactionalTables == Transactional \subseteq Tables
BY DEF Transactional, Tables

LEMMA IsolatedInvisible ==
    ASSUME TablesInv, Running, \A t \in Tables : Isolated(db[t], db'[t])
    PROVE  Invisible /\ \A t \in Transactional : db'[t].begun = TRUE
<1> SUFFICES ASSUME NEW t \in Transactional
             PROVE  db'[t].saved = db[t].saved /\ db'[t].begun = TRUE
    BY DEF Invisible
<1>1. db[t].begun = TRUE
    BY DEF TablesInv
<1> QED
    BY <1>1, TransactionalTables DEF Isolated

LEMMA QuietStep ==
    ASSUME TablesInv, Running, DOMAIN db' = Tables, \A t \in Tables : Quiet(t),
           UNCHANGED <<pc, progress>>
    PROVE  TablesInv' /\ Invisible
<1>1. \A t \in Tables : Isolated(db[t], db'[t]) /\ db'[t].copy = db[t].copy
    BY QuietIsolated
<1>2. Invisible /\ \A t \in Transactional : db'[t].begun = TRUE
    BY <1>1, IsolatedInvisible
<1>3. \A t \in Tables : IsTable(db'[t])
    BY <1>1 DEF Isolated
<1>4. MayCopy' = MayCopy
    BY DEF MayCopy
<1> QED
    BY <1>1, <1>2, <1>3, <1>4 DEF TablesInv, Running
-----------------------------------------------------------------------------
(* Pass 1. *)

LEMMA DeleteIdIsStore ==
    ASSUME NEW t, NEW id
    PROVE  \E rows : DeleteId(t, id) = Store(t, rows)
BY DEF DeleteId, delete

LEMMA Node1Step ==
    ASSUME TablesInv, Node1
    PROVE  TablesInv' /\ Invisible
<1> DEFINE c == file[pos]
<1>1. Running /\ UNCHANGED <<pc, progress>>
    BY DEF Node1, Pass1, Pass1Frame, Running
<1>2. CASE db' = db
    BY <1>1, <1>2, QuietStep DEF TablesInv, Quiet
<1>3. CASE db' = NodeDeleted(c)
  <2>1. PICK u \in {"untagged", "point"} : db' = [db EXCEPT ![u] = DeleteId(db[u], c.id)]
    BY <1>3 DEF NodeDeleted
  <2>2. DOMAIN db' = Tables /\ \A t \in Tables : Quiet(t)
    BY <2>1, DeleteIdIsStore DEF TablesInv, Quiet
  <2> QED
    BY <1>1, <2>2, QuietStep
<1> QED
    BY <1>2, <1>3 DEF Node1

LEMMA Way1Step ==
    ASSUME TablesInv, Way1
    PROVE  TablesInv' /\ Invisible
<1> DEFINE c == file[pos]
<1>1. Running /\ UNCHANGED <<pc, progress>>
    BY DEF Way1, Pass1, Pass1Frame, Running
<1>2. CASE db' = db
    BY <1>1, <1>2, QuietStep DEF TablesInv, Quiet
<1>3. CASE db' = WayDeleted(c)
  <2>1. \E rows : delete(db["node_ways"], LAMBDA r : r.way = c.id) = Store(db["node_ways"], rows)
    BY DEF delete
  <2>2. DOMAIN db' = Tables
    BY <1>3 DEF TablesInv, WayDeleted
  <2>3. \A t \in Tables \ {"line", "polygon", "node_ways"} : db'[t] = db[t]
    BY <1>3 DEF TablesInv, WayDeleted
  <2>4. db'["line"] = DeleteId(db["line"], c.id)
    BY <1>3 DEF TablesInv, WayDeleted, Tables
  <2>5. db'["polygon"] = DeleteId(db["polygon"], c.id) \/ db'["polygon"] = db["polygon"]
    BY <1>3 DEF TablesInv, WayDeleted, Tables
  <2>6. db'["node_ways"] = delete(db["node_ways"], LAMBDA r : r.way = c.id)
    BY <1>3 DEF TablesInv, WayDeleted, Tables
  <2>7. \A t \in Tables : Quiet(t)
    BY <2>1, <2>3, <2>4, <2>5, <2>6, DeleteIdIsStore DEF Quiet
  <2> QED
    BY <1>1, <2>2, <2>7, QuietStep
<1> QED
    BY <1>2, <1>3 DEF Way1

LEMMA Relation1Step ==
    ASSUME TablesInv, Relation1
    PROVE  TablesInv' /\ Invisible
<1> DEFINE c == file[pos]
<1>1. Running /\ UNCHANGED <<pc, progress>>
    BY DEF Relation1, Pass1, Pass1Frame, Running
<1>2. CASE db' = db
    BY <1>1, <1>2, QuietStep DEF TablesInv, Quiet
<1>3. CASE db' = RelationDeleted(c)
  <2>1. DOMAIN db' = Tables
    BY <1>3 DEF RelationDeleted
  <2>2. ASSUME NEW t \in Tables PROVE Quiet(t)
    <3>1. \E rows : delete(db[t], LAMBDA r : r.rel = c.id) = Store(db[t], rows)
      BY DEF delete
    <3>2. \/ db'[t] = DeleteId(db[t], c.id)
          \/ db'[t] = delete(db[t], LAMBDA r : r.rel = c.id)
          \/ db'[t] = db[t]
      BY <1>3 DEF RelationDeleted
    <3> QED
      BY <3>1, <3>2, DeleteIdIsStore DEF Quiet
  <2> QED
    BY <1>1, <2>1, <2>2, QuietStep
<1> QED
    BY <1>2, <1>3 DEF Relation1
-----------------------------------------------------------------------------
(* Pass 2: the steps in which no table changes its mode. *)

LEMMA Node2Step ==
    ASSUME TablesInv, Node2
    PROVE  TablesInv' /\ Invisible
<1> DEFINE c == file[pos]
<1>1. Running /\ UNCHANGED <<pc, progress>>
    BY DEF Node2, Pass2, Running
<1>2. CASE db' = db
    BY <1>1, <1>2, QuietStep DEF TablesInv, Quiet
<1>3. CASE db' = [t \in Tables |->
                    CASE t = NodeTable(c) ->
                            send_line(db[t], {PointRow(c.id, c.loc, run)})
                      [] t \in {"node_ways", "node_relations"} -> query(db[t])
                      [] OTHER -> db[t]]
  <2>1. DOMAIN db' = Tables
    BY <1>3
  <2>2. ASSUME NEW t \in Tables PROVE Quiet(t)
    <3>1. \/ db'[t] = send_line(db[t], {PointRow(c.id, c.loc, run)})
          \/ db'[t] = query(db[t])
          \/ db'[t] = db[t]
      BY <1>3
    <3> QED
      BY <3>1 DEF Quiet
  <2> QED
    BY <1>1, <2>1, <2>2, QuietStep
<1> QED
    BY <1>2, <1>3 DEF Node2

LEMMA Way2DeletedStep ==
    ASSUME TablesInv, Way2Deleted \/ Relation2Deleted
    PROVE  TablesInv' /\ Invisible
<1>1. Running /\ UNCHANGED <<pc, progress, db>>
    BY DEF Way2Deleted, Relation2Deleted, Pass2, Running
<1> QED
    BY <1>1, QuietStep DEF TablesInv, Quiet

LEMMA Way2Step ==
    ASSUME TablesInv, Way2
    PROVE  TablesInv' /\ Invisible
<1> DEFINE c == file[pos]
           line == {LineRow(c.id, Linestring(NewLine(c)), run)}
           nodes == NodeWayRows(c.id, c.refs, run)
<1>1. Running /\ UNCHANGED <<pc, progress>>
    BY DEF Way2, Pass2, Running
<1>2. db' = [db EXCEPT
                !["line"] = IF c.tagged THEN send_line(@, line) ELSE @,
                !["way_relations"] = query(@),
                !["node_ways"] = send_line(@, nodes)]
    BY DEF Way2
<1> HIDE DEF line, nodes
<1>3. DOMAIN db' = Tables
    BY <1>2 DEF TablesInv
<1>4. ASSUME NEW t \in Tables PROVE Quiet(t)
  <2>1. \/ db'[t] = send_line(db[t], line)
        \/ db'[t] = send_line(db[t], nodes)
        \/ db'[t] = query(db[t])
        \/ db'[t] = db[t]
    BY <1>2 DEF TablesInv
  <2> QED
    BY <2>1 DEF Quiet
<1> QED
    BY <1>1, <1>3, <1>4, QuietStep

LEMMA FlushAreasStep ==
    ASSUME TablesInv, FlushAreas
    PROVE  TablesInv' /\ Invisible
<1>1. Running /\ UNCHANGED <<pc, progress>>
    BY DEF FlushAreas, Running
<1>2. db' = [db EXCEPT !["polygon"] = send_line(@, mpBuffer)]
    BY DEF FlushAreas
<1>3. DOMAIN db' = Tables /\ \A t \in Tables : Quiet(t)
    BY <1>2 DEF TablesInv, Quiet
<1> QED
    BY <1>1, <1>3, QuietStep

LEMMA UpdateWayStep ==
    ASSUME TablesInv, NEW id, UpdateWay(id)
    PROVE  TablesInv' /\ Invisible
<1>1. Running /\ UNCHANGED <<pc, progress>>
    BY DEF UpdateWay, Running
<1>2. DOMAIN db' = Tables
    BY DEF UpdateWay
<1>3. ASSUME NEW t \in Tables PROVE Quiet(t)
  <2>1. \E rows :
            update(db[t], LAMBDA r : r.id = id,
                   LAMBDA r : [r EXCEPT !.geom = StoredLine(id)]) = Store(db[t], rows)
    BY DEF update
  <2>2. \E rows :
            update(db[t], LAMBDA r : r.id = id,
                   LAMBDA r : [r EXCEPT !.geom = {}]) = Store(db[t], rows)
    BY DEF update
  <2>3. \/ db'[t] = update(db[t], LAMBDA r : r.id = id,
                           LAMBDA r : [r EXCEPT !.geom = StoredLine(id)])
        \/ db'[t] = update(db[t], LAMBDA r : r.id = id,
                           LAMBDA r : [r EXCEPT !.geom = {}])
        \/ db'[t] = db[t]
    BY DEF UpdateWay
  <2> QED
    BY <2>1, <2>2, <2>3 DEF Quiet
<1> QED
    BY <1>1, <1>2, <1>3, QuietStep

LEMMA Relation2Step ==
    ASSUME TablesInv, Relation2
    PROVE  TablesInv' /\ Invisible
<1> DEFINE c == file[pos]
<1>1. Running /\ UNCHANGED <<pc, progress>>
    BY DEF Relation2, Pass2, Running
<1>2. DOMAIN db' = Tables
    BY DEF Relation2
<1>3. ASSUME NEW t \in Tables PROVE Quiet(t)
  <2> DEFINE row == {RelationRow(c.id, NodePoints({<<i, c.mems[i].ref>> :
                                    i \in MembersAt(c.mems, "node")}),
                                 InsertedLines(c.mems), run)}
             mems == MemberRows(c.id, c.mems, CHOOSE k \in Kinds : TableOf(k) = t, run)
  <2>1. \/ db'[t] = send_line(db[t], row)
        \/ db'[t] = send_line(db[t], mems)
        \/ db'[t] = query(db[t])
        \/ db'[t] = db[t]
    BY DEF Relation2
  <2> HIDE DEF row, mems
  <2> QED
    BY <2>1 DEF Quiet
<1> QED
    BY <1>1, <1>2, <1>3, QuietStep

LEMMA UpdateRelationStep ==
    ASSUME TablesInv, NEW rel, UpdateRelation(rel)
    PROVE  TablesInv' /\ Invisible
<1>1. Running /\ UNCHANGED <<pc, progress>>
    BY DEF UpdateRelation, Running
<1>2. DOMAIN db' = Tables
    BY DEF UpdateRelation
<1>3. ASSUME NEW t \in Tables PROVE Quiet(t)
  <2>1. \E rows :
            update(db[t], LAMBDA r : r.id = rel,
                   LAMBDA r : [r EXCEPT !.points = NodePoints(MembersOf("node", rel)),
                                        !.lines = StoredLines(rel)])
                = Store(db[t], rows)
    BY DEF update
  <2>2. \/ db'[t] =
              update(db[t], LAMBDA r : r.id = rel,
                     LAMBDA r : [r EXCEPT !.points = NodePoints(MembersOf("node", rel)),
                                          !.lines = StoredLines(rel)])
        \/ db'[t] = query(db[t])
        \/ db'[t] = db[t]
    BY DEF UpdateRelation
  <2> QED
    BY <2>1, <2>2 DEF Quiet
<1> QED
    BY <1>1, <1>2, <1>3, QuietStep
-----------------------------------------------------------------------------
(* The steps from one phase to the next, which start and end COPY. *)

LEMMA ModeStep ==
    ASSUME TablesInv, Running, DOMAIN db' = Tables,
           \A t \in Tables : Isolated(db[t], db'[t]),
           \A t \in Tables : db'[t].copy = TRUE => t \in MayCopy',
           pc' \in {"pass2", "ways", "rels", "incomplete", "close"},
           progress' \in {"POINT", "WAY", "RELATION"},
           pc' = "ways" => progress' = "WAY"
    PROVE  TablesInv' /\ Invisible
<1>1. Invisible /\ \A t \in Transactional : db'[t].begun = TRUE
    BY IsolatedInvisible
<1>2. \A t \in Tables : IsTable(db'[t])
    BY DEF Isolated
<1>3. Running' \/ pc' \in {"close", "done", "dead"}
    BY DEF Running
<1> QED
    BY <1>1, <1>2, <1>3 DEF TablesInv

\* What one table does in such a step.
LEMMA ModeOfTable ==
    ASSUME TablesInv, NEW t \in Tables,
           \/ db'[t] = start_copy(db[t])
           \/ db'[t] = end_copy(db[t])
           \/ db'[t] = db[t]
    PROVE  /\ Isolated(db[t], db'[t])
           /\ db'[t] = end_copy(db[t]) => db'[t].copy = FALSE
<1>1. IsTable(db[t])
    BY DEF TablesInv
<1> QED
    BY <1>1, StartCopyIsolated, EndCopyIsolated, ReflexiveIsolated

LEMMA StartPass2Step ==
    ASSUME TablesInv, StartPass2
    PROVE  TablesInv' /\ Invisible
<1>1. Running /\ progress' = "POINT" /\ pc' = "pass2"
    BY DEF StartPass2, TablesInv, Running
<1>2. DOMAIN db' = Tables
    BY DEF StartPass2, TablesInv
<1>3. ASSUME NEW t \in Tables
      PROVE  /\ Isolated(db[t], db'[t])
             /\ db'[t].copy = TRUE => t \in MayCopy'
  <2>1. \/ t \in {"untagged", "point"} /\ db'[t] = start_copy(db[t])
        \/ db'[t] = db[t]
    BY DEF StartPass2, TablesInv
  <2>2. db[t].copy # TRUE
    BY DEF StartPass2, TablesInv, MayCopy
  <2>3. MayCopy' = {"point", "untagged"}
    BY <1>1 DEF MayCopy
  <2> QED
    BY <2>1, <2>2, <2>3, ModeOfTable
<1> QED
    BY <1>1, <1>2, <1>3, ModeStep

LEMMA WriteNewNodesStep ==
    ASSUME TablesInv, WriteNewNodes
    PROVE  TablesInv' /\ Invisible
<1>1. Running /\ progress' = "WAY" /\ pc' = "pass2"
    BY DEF WriteNewNodes, Running
<1>2. DOMAIN db' = Tables
    BY DEF WriteNewNodes
<1>3. ASSUME NEW t \in Tables
      PROVE  /\ Isolated(db[t], db'[t])
             /\ db'[t].copy = TRUE => t \in MayCopy'
  <2>1. \/ t \in {"point", "untagged"} /\ db'[t] = end_copy(db[t])
        \/ t \in {"line", "polygon", "node_ways"} /\ db'[t] = start_copy(db[t])
        \/ t \notin {"point", "untagged"} /\ db'[t] = db[t]
    BY DEF WriteNewNodes
  <2>2. db[t].copy = TRUE => t \in {"point", "untagged"}
    BY DEF WriteNewNodes, TablesInv, MayCopy
  <2>3. MayCopy' = {"line", "polygon", "node_ways"}
    BY <1>1 DEF MayCopy
  <2> QED
    BY <2>1, <2>2, <2>3, ModeOfTable
<1> QED
    BY <1>1, <1>2, <1>3, ModeStep

LEMMA WriteNewWaysStep ==
    ASSUME TablesInv, WriteNewWays
    PROVE  TablesInv' /\ Invisible
<1>1. Running /\ progress' = "WAY" /\ pc' = "ways"
    BY DEF WriteNewWays, Running
<1>2. DOMAIN db' = Tables
    BY DEF WriteNewWays
<1>3. ASSUME NEW t \in Tables
      PROVE  /\ Isolated(db[t], db'[t])
             /\ db'[t].copy = TRUE => t \in MayCopy'
  <2>1. \/ db'[t] = end_copy(db[t])
        \/ t \notin {"line", "polygon", "node_ways"} /\ db'[t] = db[t]
    BY DEF WriteNewWays
  <2>2. db[t].copy = TRUE => t \in {"line", "polygon", "node_ways"}
    BY DEF WriteNewWays, TablesInv, MayCopy
  <2> QED
    BY <2>1, <2>2, ModeOfTable
<1> QED
    BY <1>1, <1>2, <1>3, ModeStep

LEMMA StartRelationsStep ==
    ASSUME TablesInv, StartRelations
    PROVE  TablesInv' /\ Invisible
<1>1. Running /\ progress' = "RELATION" /\ pc' = "pass2"
    BY DEF StartRelations, Running
<1>2. DOMAIN db' = Tables
    BY DEF StartRelations
<1>3. ASSUME NEW t \in Tables
      PROVE  /\ Isolated(db[t], db'[t])
             /\ db'[t].copy = TRUE => t \in MayCopy'
  <2>1. \/ t \in {"polygon", "relations"} \cup MemberTables /\ db'[t] = start_copy(db[t])
        \/ db'[t] = db[t]
    BY DEF StartRelations
  <2>2. db[t].copy # TRUE
    BY DEF StartRelations, TablesInv, MayCopy
  <2>3. MayCopy' = {"polygon", "relations"} \cup MemberTables
    BY <1>1 DEF MayCopy
  <2> QED
    BY <2>1, <2>2, <2>3, ModeOfTable
<1> QED
    BY <1>1, <1>2, <1>3, ModeStep

LEMMA AfterRelationsStep ==
    ASSUME TablesInv, AfterRelations
    PROVE  TablesInv' /\ Invisible
<1>1. Running /\ progress' = progress /\ pc = "pass2" /\ pc' = "rels"
    BY DEF AfterRelations, Running
<1>2. DOMAIN db' = Tables
    BY DEF AfterRelations
<1>3. ASSUME NEW t \in Tables
      PROVE  /\ Isolated(db[t], db'[t])
             /\ db'[t].copy = TRUE => t \in MayCopy'
  <2>1. \/ db'[t] = end_copy(db[t])
        \/ t \notin {"relations", "polygon"} \cup MemberTables /\ db'[t] = db[t]
    BY DEF AfterRelations
  <2>2. \/ db[t].copy # TRUE
        \/ t \in {"point", "untagged", "line", "node_ways"}
        \/ t \in {"relations", "polygon"} \cup MemberTables
    BY <1>1 DEF TablesInv, MayCopy
  <2>3. MayCopy' = {"point", "untagged", "line", "node_ways"}
    BY <1>1 DEF MayCopy
  <2> QED
    BY <2>1, <2>2, <2>3, ModeOfTable
<1>4. progress' \in {"POINT", "WAY", "RELATION"}
    BY <1>1 DEF TablesInv
<1> QED
    BY <1>1, <1>2, <1>3, <1>4, ModeStep

LEMMA FlushUpdatedStep ==
    ASSUME TablesInv, FlushUpdated
    PROVE  TablesInv' /\ Invisible
<1> DEFINE new == {IF \E a \in updated : a.id = r.id
                   THEN [r EXCEPT !.geom = (CHOOSE a \in updated : a.id = r.id).geom]
                   ELSE r : r \in db["polygon"].live}
<1>1. Running /\ progress' = progress /\ pc = "rels" /\ pc' \in {"incomplete", "close"}
    BY DEF FlushUpdated, Running
<1>2. db' = db \/ db' = [db EXCEPT !["polygon"] = Store(@, new)]
    BY DEF FlushUpdated
<1> HIDE DEF new
<1>3. DOMAIN db' = Tables /\ \A t \in Tables : Quiet(t)
    BY <1>2 DEF TablesInv, Quiet
<1>4. ASSUME NEW t \in Tables
      PROVE  /\ Isolated(db[t], db'[t])
             /\ db'[t].copy = TRUE => t \in MayCopy'
  <2>1. Isolated(db[t], db'[t]) /\ db'[t].copy = db[t].copy
    BY <1>3, QuietIsolated
  <2>2. MayCopy \subseteq MayCopy'
    BY <1>1 DEF MayCopy, Tables
  <2> QED
    BY <2>1, <2>2 DEF TablesInv
<1>5. progress' \in {"POINT", "WAY", "RELATION"}
    BY <1>1 DEF TablesInv
<1> QED
    BY <1>1, <1>3, <1>4, <1>5, ModeStep

LEMMA IncompleteRelationsStep ==
    ASSUME TablesInv, IncompleteRelations
    PROVE  TablesInv' /\ Invisible
<1>1. Running /\ progress' = progress /\ pc' = "close"
    BY DEF IncompleteRelations, Running
<1>2. DOMAIN db' = Tables
    BY DEF IncompleteRelations
<1>3. ASSUME NEW t \in Tables
      PROVE  Isolated(db[t], db'[t])
  <2> DEFINE new == UNION {Assembled(-file[k].id, {MemberPart(w) : w \in MemberWays(k)}) :
                        k \in {k \in Multipolygons : ~(MemberWays(k) \subseteq members)}}
             started == start_copy(db[t])
             sent == send_line(started, new)
  <2>1. \/ db'[t] = end_copy(sent)
        \/ db'[t] = query(db[t])
        \/ db'[t] = db[t]
    BY DEF IncompleteRelations
  <2>2. IsTable(db[t])
    BY DEF TablesInv
  <2> HIDE DEF new
  <2>3. Isolated(db[t], started)
    BY <2>2, StartCopyIsolated
  <2> HIDE DEF started
  <2>4. Isolated(started, sent)
    BY <2>3, SendLineIsolated DEF Isolated
  <2> HIDE DEF sent
  <2>5. Isolated(sent, end_copy(sent))
    BY <2>4, EndCopyIsolated DEF Isolated
  <2>6. Isolated(db[t], end_copy(sent))
    BY <2>3, <2>4, <2>5 DEF Isolated
  <2> QED
    BY <2>1, <2>2, <2>6, QueryIsolated, ReflexiveIsolated
<1>4. progress' \in {"POINT", "WAY", "RELATION"} /\ MayCopy' = Tables
    BY <1>1 DEF TablesInv, MayCopy
<1> QED
    BY <1>1, <1>2, <1>3, <1>4, ModeStep
-----------------------------------------------------------------------------
(* The end of a run: the destructors, an abort, a kill; and the next run. *)

LEMMA CloseIsTable ==
    ASSUME NEW t, IsTable(t)
    PROVE  IsTable(close(t)) /\ close(t).copy = FALSE
<1> DEFINE u == end_copy(t)
<1>1. IsTable(u) /\ u.copy = FALSE
    BY EndCopyIsolated DEF Isolated
<1>2. close(t) = commit(u) \/ close(t) = u
    BY DEF close
<1> HIDE DEF u
<1> QED
    BY <1>1, <1>2 DEF IsTable, commit

LEMMA CloseTableStep ==
    ASSUME TablesInv, NEW t \in Tables, CloseTable(t)
    PROVE  TablesInv' /\ Invisible
<1>1. pc = "close" /\ pc' \in {"close", "done"} /\ progress' = progress /\ Closing(t)
    BY DEF CloseTable, Closing
<1>2. db' = [db EXCEPT ![t] = close(@)]
    BY DEF CloseTable
<1>3. DOMAIN db' = Tables /\ \A u \in Tables : u # t => db'[u] = db[u]
    BY <1>2 DEF TablesInv
<1>4. \A u \in Tables : IsTable(db'[u])
    BY <1>2, <1>3, CloseIsTable DEF TablesInv
<1>5. Invisible
    BY <1>1, <1>3, TransactionalTables DEF Invisible
<1>6. ~Running' /\ MayCopy' = Tables
    BY <1>1 DEF Running, MayCopy
<1> QED
    BY <1>1, <1>3, <1>4, <1>5, <1>6 DEF TablesInv

LEMMA DieStep ==
    ASSUME TablesInv, NEW reason, Die(reason)
    PROVE  TablesInv' /\ Invisible
<1>1. pc' = "dead" /\ progress' = progress
    BY DEF Die
<1>2. db' = [t \in Tables |-> Disconnect(db[t])]
    BY DEF Die
<1>3. \A t \in Tables : IsTable(db'[t]) /\ db'[t].saved = db[t].saved
    BY <1>2, ConnectIsTable DEF Disconnect
<1>4. Invisible
    BY <1>3, TransactionalTables DEF Invisible
<1>5. ~Running' /\ MayCopy' = Tables
    BY <1>1 DEF Running, MayCopy
<1> QED
    BY <1>1, <1>2, <1>3, <1>4, <1>5 DEF TablesInv

LEMMA OpenedTables ==
    ASSUME NEW saved, NEW t \in Tables
    PROVE  /\ IsTable(Opened(saved)[t])
           /\ Opened(saved)[t].saved = saved[t]
           /\ Opened(saved)[t].copy = FALSE
           /\ t \in Transactional => Opened(saved)[t].begun = TRUE
<1> DEFINE u == Connect(saved[t])
<1>1. IsTable(u) /\ u.saved = saved[t] /\ u.copy = FALSE
    BY ConnectIsTable
<1>2. Opened(saved)[t] = IF t \in Transactional THEN send_begin(u) ELSE u
    BY DEF Opened, Transactional
<1> HIDE DEF u
<1> QED
    BY <1>1, <1>2, BeginIsTable

LEMMA RestartStep ==
    ASSUME TablesInv, Restart
    PROVE  TablesInv' /\ Invisible
<1> DEFINE saved == [t \in Tables |-> db[t].saved]
<1>1. pc' = "pass1" /\ progress' = "POINT"
    BY DEF Restart
<1>2. db' = Opened(saved)
    BY DEF Restart
<1>3. DOMAIN db' = Tables
    BY <1>2 DEF Opened
<1>4. ASSUME NEW t \in Tables
      PROVE  /\ IsTable(db'[t])
             /\ db'[t].saved = db[t].saved
             /\ db'[t].copy = FALSE
             /\ t \in Transactional => db'[t].begun = TRUE
  <2>1. saved[t] = db[t].saved
    OBVIOUS
  <2> HIDE DEF saved
  <2> QED
    BY <1>2, <2>1, OpenedTables
<1>5. Invisible
    BY <1>4, TransactionalTables DEF Invisible
<1>6. Running'
    BY <1>1 DEF Running
<1> QED
    BY <1>1, <1>3, <1>4, <1>5, <1>6, TransactionalTables DEF TablesInv
-----------------------------------------------------------------------------
LEMMA InitTables == Init => TablesInv
<1> SUFFICES ASSUME Init PROVE TablesInv
    OBVIOUS
<1>1. pc = "pass1" /\ progress = "POINT" /\ db = Opened(Imported(old, PolygonTable))
    BY DEF Init
<1>2. DOMAIN db = Tables
    BY <1>1 DEF Opened
<1>3. \A t \in Tables : /\ IsTable(db[t]) /\ db[t].copy = FALSE
                        /\ t \in Transactional => db[t].begun = TRUE
    BY <1>1, OpenedTables
<1> QED
    BY <1>1, <1>2, <1>3, TransactionalTables DEF TablesInv, Running

LEMMA StepTables ==
    ASSUME TablesInv, [Next]_vars
    PROVE  TablesInv' /\ [\A t \in Transactional :
                db'[t].saved # db[t].saved => Closing(t)]_vars
<1>1. CASE UNCHANGED vars
    BY <1>1 DEF TablesInv, vars, Running, MayCopy
<1>2. CASE Next
  <2> SUFFICES TablesInv' /\ Invisible
    BY DEF Invisible
  <2>1. CASE Pass1Step
    BY <2>1, Node1Step, Way1Step, Relation1Step, StartPass2Step DEF Pass1Step
  <2>2. CASE Pass2Step
    <3>1. ASSUME NEW id, UpdateWayThrows(id) PROVE TablesInv' /\ Invisible
      BY <3>1, DieStep DEF UpdateWayThrows
    <3>2. CASE Node2Throws
      BY <3>2, DieStep DEF Node2Throws
    <3>4. CASE WriteNewNodesThrows
      BY <3>4, DieStep DEF WriteNewNodesThrows
    <3>3. CASE Way2Throws
      BY <3>3, DieStep DEF Way2Throws
    <3> QED
      BY <2>2, <3>1, <3>2, <3>3, <3>4, Node2Step, WriteNewNodesStep, Way2DeletedStep,
         Way2Step, FlushAreasStep, WriteNewWaysStep, StartRelationsStep,
         UpdateWayStep, Relation2Step DEF Pass2Step
  <2>3. CASE AfterStep
    <3>1. ASSUME NEW id, UpdateRelationThrows(id) PROVE TablesInv' /\ Invisible
      BY <3>1, DieStep DEF UpdateRelationThrows
    <3>2. ASSUME NEW t \in Tables, CloseThrows(t) PROVE TablesInv' /\ Invisible
      BY <3>2, DieStep DEF CloseThrows
    <3> QED
      BY <2>3, <3>1, <3>2, AfterRelationsStep, UpdateRelationStep,
         FlushUpdatedStep, IncompleteRelationsStep, CloseTableStep DEF AfterStep
  <2>4. CASE Crash
    BY <2>4, DieStep DEF Crash
  <2>5. CASE Restart
    BY <2>5, RestartStep
  <2> QED
    BY <1>2, <2>1, <2>2, <2>3, <2>4, <2>5 DEF Next, Step
<1> QED
    BY <1>1, <1>2

LEMMA TablesInvariant == Spec => []TablesInv
<1>1. TablesInv /\ [Next]_vars => TablesInv'
    BY StepTables
<1> QED
    BY <1>1, InitTables, PTL DEF Spec

\* No DELETE and no UPDATE ever meets a connection that is in COPY, in which
\* case the asserts of postgres_table.cpp would fail: for any change file,
\* sorted or not, every data set, every kill and every repetition.
THEOREM NoModificationInCopy == Spec => []ModifyOutsideCopy
<1>1. TablesInv => ModifyOutsideCopy
    BY DEF TablesInv, ModifyOutsideCopy, MayCopy, CanModify, Tables, IsTable,
           MemberTables
<1> QED
    BY <1>1, TablesInvariant, PTL

\* The rows that other connections see in the tables relations, point, untagged
\* and line change only when the destructor of the table commits: the
\* transactions begun before pass 1 survive every mode switch of the handlers,
\* and neither an exception nor a kill lets a part of a diff become visible.
THEOREM TransactionsHold == Spec => ChangesAtTheEnd
<1>1. TablesInv /\ [Next]_vars =>
        [\A t \in Transactional : db'[t].saved # db[t].saved => Closing(t)]_vars
    BY StepTables
<1> QED
    BY <1>1, TablesInvariant, PTL DEF Spec, ChangesAtTheEnd
-----------------------------------------------------------------------------
(* The methods, field by field. *)

LEMMA StoreFields ==
    ASSUME NEW t, IsTable(t), NEW rows
    PROVE  /\ IsTable(Store(t, rows))
           /\ Store(t, rows).live = rows
           /\ Store(t, rows).lines = t.lines
           /\ Store(t, rows).copy = t.copy
           /\ Store(t, rows).stream = t.stream
           /\ Store(t, rows).begun = t.begun
           /\ t.begun = TRUE => Store(t, rows).saved = t.saved
           /\ t.begun = FALSE => Store(t, rows).saved = rows
<1> DEFINE saved == IF t.begun THEN t.saved ELSE rows
<1>1. Store(t, rows) = [t EXCEPT !.live = rows, !.saved = saved]
    BY DEF Store
<1>2. /\ t.begun = TRUE => saved = t.saved
      /\ t.begun = FALSE => saved = rows
    OBVIOUS
<1> HIDE DEF saved
<1> QED
    BY <1>1, <1>2 DEF IsTable

LEMMA SendLineFields ==
    ASSUME NEW t, IsTable(t), NEW rows
    PROVE  /\ IsTable(send_line(t, rows))
           /\ send_line(t, rows).live = t.live
           /\ send_line(t, rows).lines = t.lines \cup rows
           /\ send_line(t, rows).copy = t.copy
           /\ send_line(t, rows).stream = t.stream
           /\ send_line(t, rows).begun = t.begun
           /\ send_line(t, rows).saved = t.saved
BY DEF IsTable, send_line

LEMMA QueryFields ==
    ASSUME NEW t, IsTable(t)
    PROVE  /\ IsTable(query(t))
           /\ query(t).live = t.live
           /\ query(t).lines = {}
           /\ query(t).copy = t.copy
           /\ query(t).stream = FALSE
           /\ query(t).begun = t.begun
           /\ query(t).saved = t.saved
BY DEF IsTable, query

LEMMA StartCopyFields ==
    ASSUME NEW t, IsTable(t)
    PROVE  /\ IsTable(start_copy(t))
           /\ start_copy(t).live = t.live
           /\ start_copy(t).lines = {}
           /\ start_copy(t).copy = TRUE
           /\ start_copy(t).stream = TRUE
           /\ start_copy(t).begun = t.begun
           /\ start_copy(t).saved = t.saved
BY DEF IsTable, start_copy

LEMMA EndCopyFields ==
    ASSUME NEW t, IsTable(t)
    PROVE  /\ IsTable(end_copy(t))
           /\ end_copy(t).copy = FALSE
           /\ end_copy(t).begun = t.begun
           /\ t.copy = FALSE => end_copy(t) = t
           /\ t.copy = TRUE => /\ end_copy(t).live = t.live \cup t.lines
                               /\ end_copy(t).lines = {}
           /\ t.begun = TRUE => end_copy(t).saved = t.saved
           /\ t.copy = TRUE /\ t.begun = FALSE => end_copy(t).saved = t.live \cup t.lines
<1>1. CASE t.copy = TRUE
  <2> DEFINE rows == t.live \cup t.lines
             u == Store(t, rows)
  <2>1. /\ IsTable(u) /\ u.live = rows /\ u.begun = t.begun
        /\ t.begun = TRUE => u.saved = t.saved
        /\ t.begun = FALSE => u.saved = rows
    BY StoreFields
  <2>2. end_copy(t) = [u EXCEPT !.lines = {}, !.copy = FALSE, !.stream = FALSE]
    BY <1>1 DEF end_copy
  <2> HIDE DEF u, rows
  <2>3. /\ IsTable(end_copy(t)) /\ end_copy(t).copy = FALSE
        /\ end_copy(t).lines = {} /\ end_copy(t).live = u.live
        /\ end_copy(t).saved = u.saved /\ end_copy(t).begun = u.begun
    BY <2>1, <2>2 DEF IsTable
  <2> QED
    BY <1>1, <2>1, <2>3 DEF rows
<1>2. CASE t.copy = FALSE
    BY <1>2 DEF IsTable, end_copy
<1> QED
    BY <1>1, <1>2 DEF IsTable

LEMMA ConnectFields ==
    ASSUME NEW rows
    PROVE  /\ IsTable(Connect(rows))
           /\ Connect(rows).live = rows /\ Connect(rows).saved = rows
           /\ Connect(rows).lines = {}
           /\ Connect(rows).copy = FALSE /\ Connect(rows).begun = FALSE
           /\ Connect(rows).stream = FALSE
BY DEF IsTable, Connect

LEMMA BeginFields ==
    ASSUME NEW t, IsTable(t)
    PROVE  /\ IsTable(send_begin(t))
           /\ send_begin(t).live = t.live /\ send_begin(t).saved = t.saved
           /\ send_begin(t).lines = t.lines
           /\ send_begin(t).copy = t.copy /\ send_begin(t).begun = TRUE
           /\ send_begin(t).stream = t.stream
BY DEF IsTable, send_begin

LEMMA CloseFields ==
    ASSUME NEW t, IsTable(t)
    PROVE  /\ IsTable(close(t))
           /\ close(t).copy = FALSE /\ close(t).begun = FALSE
           /\ close(t).live = end_copy(t).live
           /\ close(t).lines = end_copy(t).lines
           /\ t.begun = TRUE => close(t).saved = close(t).live
           /\ t.begun = FALSE => close(t).saved = end_copy(t).saved
<1> DEFINE u == end_copy(t)
<1>1. IsTable(u) /\ u.copy = FALSE /\ u.begun = t.begun
    BY EndCopyFields
<1>2. close(t) = IF u.begun THEN commit(u) ELSE u
    BY DEF close
<1> HIDE DEF u
<1>3. CASE u.begun = TRUE
    BY <1>1, <1>2, <1>3 DEF IsTable, commit, u
<1>4. CASE u.begun = FALSE
    BY <1>1, <1>2, <1>4 DEF IsTable, u
<1> QED
    BY <1>1, <1>3, <1>4 DEF IsTable
-----------------------------------------------------------------------------
(* The input, and where the program is in the file. *)

InputInv ==
    /\ IsDataSet(old)
    /\ file \in Seq(Changes)
    /\ options \in [flat: BOOLEAN, areas: BOOLEAN, polygons: BOOLEAN]
    /\ Areas => PolygonTable
    /\ run \in 1 .. MaxRuns

InPass2 == pc \in {"pass2", "ways", "rels", "incomplete", "close", "done"}

ControlInv ==
    /\ pos \in Nat \ {0}
    /\ pc \in {"pass1", "pass2", "ways"} => pos <= Len(file) + 1
    /\ pc = "ways" => pos <= Len(file) /\ file[pos].kind = "relation"
    /\ pc \in {"rels", "incomplete"} => pos = Len(file) + 1
    /\ pc = "close" => pos \in Len(file) + 1 .. Len(file) + 9
    /\ pc = "done" => pos = Len(file) + 10
    /\ InPass2 /\ progress = "POINT" =>
            \A k \in DOMAIN file : k < pos => file[k].kind = "node"
    /\ InPass2 /\ progress = "WAY" =>
            \A k \in DOMAIN file : k < pos => file[k].kind # "relation"
    /\ InPass2 /\ progress # "POINT" =>
            \E k \in DOMAIN file : k <= pos /\ file[k].kind # "node"
    /\ InPass2 /\ progress = "RELATION" =>
            \E k \in DOMAIN file : k <= pos /\ file[k].kind = "relation"

LEMMA FileFacts ==
    ASSUME InputInv
    PROVE  /\ Len(file) \in Nat /\ DOMAIN file = 1 .. Len(file)
           /\ \A k \in DOMAIN file : file[k] \in Changes
BY DEF InputInv

LEMMA ChangeFacts ==
    ASSUME NEW c \in Changes
    PROVE  /\ c.kind \in {"node", "way", "relation"}
           /\ c.deleted \in BOOLEAN /\ c.v1 \in BOOLEAN
           /\ c.kind = "node" => /\ c.id \in Nodes /\ c.tagged \in BOOLEAN
                                 /\ ~c.deleted => c.loc \in Locs
           /\ c.kind = "way" => /\ c.id \in Ways /\ c.tagged \in BOOLEAN
                                /\ c.refs \in Seq(Nodes) /\ c.area \in BOOLEAN
           /\ c.kind = "relation" => /\ c.id \in Rels /\ c.mems \in Seq(MemberRefs)
                                     /\ c.mp \in BOOLEAN
BY DEF Changes

LEMMA CloseOrderFacts ==
    /\ DOMAIN CloseOrder = 1 .. 9
    /\ \A i \in 1 .. 9 : CloseOrder[i] \in Tables
    /\ \A i \in 1 .. 9 : CloseOrder[i] = "point" => i = 9
    /\ CloseOrder[9] = "point"
    /\ \A t \in Tables : \E i \in 1 .. 9 : CloseOrder[i] = t
    /\ \A i, j \in 1 .. 9 : CloseOrder[i] = CloseOrder[j] => i = j
BY DEF CloseOrder, Tables
-----------------------------------------------------------------------------
(* The moves of one table: T before, U after the step.                      *)

RowTables == Tables \ {"polygon"}
PlainTables == {"point", "untagged"} \cup TopologyTables

\* The object of a row, as in Owner.
KindOf(t) ==
    IF t \in {"point", "untagged"} THEN "node"
    ELSE IF t \in {"line", "node_ways"} THEN "way" ELSE "relation"
IdIn(t, r) ==
    IF t = "node_ways" THEN r.way ELSE IF t \in MemberTables THEN r.rel ELSE r.id

Calm(T, U) == U.live = T.live /\ U.saved = T.saved /\ U.begun = T.begun
SameMode(T, U) == U.copy = T.copy /\ U.stream = T.stream /\ U.begun = T.begun
Saves(T, U) ==
    /\ T.begun = TRUE => U.saved = T.saved
    /\ T.begun = FALSE => U.saved = U.live

Stored(T, U, rows) ==
    SameMode(T, U) /\ U.lines = T.lines /\ U.live = rows /\ Saves(T, U)
Sent(T, U, rows) ==
    /\ T.copy = TRUE /\ T.stream = TRUE
    /\ Calm(T, U) /\ SameMode(T, U) /\ U.lines = T.lines \cup rows
Queried(T, U) ==
    Calm(T, U) /\ U.copy = T.copy /\ U.stream = FALSE /\ U.lines = {}
Started(T, U) ==
    /\ T.copy = FALSE /\ U.copy = TRUE /\ U.stream = TRUE
    /\ Calm(T, U) /\ U.lines = {}
Ended(T, U) ==
    /\ T.copy = TRUE /\ U.copy = FALSE
    /\ U.begun = T.begun /\ U.live = T.live \cup T.lines /\ U.lines = {}
    /\ Saves(T, U)
\* The destructor: nothing stays open, and what there is is committed.
Destroyed(T, U) ==
    /\ T.copy = TRUE => T.stream = TRUE
    /\ U.copy = FALSE /\ U.begun = FALSE
    /\ U.live = T.live \cup T.lines /\ U.lines = {} /\ U.saved = U.live
\* A new connection.
Renewed(T, U) ==
    /\ U.saved = T.saved /\ U.live = T.saved /\ U.lines = {}
    /\ U.copy = FALSE
-----------------------------------------------------------------------------
(* The steps of the program, as far as the rows are concerned.              *)

NodeHome(c) ==
    IF ~FlatNodes /\ \E r \in Live("untagged") : r.id = c.id THEN "untagged" ELSE "point"
Removes(t, c) ==
    IF \/ IsNew(c)
       \/ KindOf(t) # c.kind
       \/ c.kind = "node" /\ t # NodeHome(c)
    THEN db'[t] = db[t]
    ELSE Stored(db[t], db'[t], {r \in db[t].live : IdIn(t, r) # c.id})

\* The rows of an object in the tables that no later step rewrites.
PlainRows(t, c, r) ==
    IF c.deleted THEN {}
    ELSE IF c.kind = "node" /\ t \in {"point", "untagged"}
         THEN IF t = NodeTable(c) THEN {PointRow(c.id, c.loc, r)} ELSE {}
    ELSE IF c.kind = "way" /\ t = "node_ways" THEN NodeWayRows(c.id, c.refs, r)
    ELSE IF c.kind = "relation" /\ t \in MemberTables
         THEN MemberRows(c.id, c.mems, CHOOSE k \in Kinds : TableOf(k) = t, r)
    ELSE {}
NewPoints(c) == NodePoints({<<i, c.mems[i].ref>> : i \in MembersAt(c.mems, "node")})
WrittenRows(t, c) ==
    CASE t = "line" ->
            IF c.kind = "way" /\ ~c.deleted /\ c.tagged
            THEN {LineRow(c.id, Linestring(NewLine(c)), run)} ELSE {}
      [] t = "relations" ->
            IF c.kind = "relation" /\ ~c.deleted
            THEN {RelationRow(c.id, NewPoints(c), InsertedLines(c.mems), run)} ELSE {}
      [] t \in PlainTables -> PlainRows(t, c, run)

\* The tables that are asked for the parents of an object, or for its nodes.
Asked(t, c) ==
    \/ c.kind = "node" /\ t \in {"node_ways", "node_relations"}
    \/ c.kind = "way" /\ t = "way_relations"
    \/ c.kind = "relation" /\ t = "node_ways"
Sends(t, c) ==
    \/ Sent(db[t], db'[t], WrittenRows(t, c))
    \/ WrittenRows(t, c) = {} /\ db'[t] = db[t]
    \/ WrittenRows(t, c) = {} /\ Queried(db[t], db'[t]) /\ Asked(t, c)

DeleteStep ==
    /\ UNCHANGED <<old, file, options, run, progress, flat, cache, why>>
    /\ pc = "pass1" /\ pc' = "pass1" /\ pos \in DOMAIN file /\ pos' = pos + 1
    /\ \A t \in RowTables : Removes(t, file[pos])

SwitchStep ==
    /\ UNCHANGED <<old, file, options, run, progress, flat, cache, why>>
    /\ pc = "pass1" /\ pc' = "pass2" /\ pos > Len(file) /\ pos' = 1
    /\ \A t \in {"point", "untagged"} : Started(db[t], db'[t])
    /\ \A t \in RowTables \ {"point", "untagged"} : db'[t] = db[t]

SendStep ==
    /\ UNCHANGED <<old, file, options, run, progress, why>>
    /\ pc = "pass2" /\ pc' = "pass2" /\ pos \in DOMAIN file /\ pos' = pos + 1
    /\ file[pos].kind # "node" => progress # "POINT"
    /\ file[pos].kind = "relation" => progress = "RELATION"
    /\ IF file[pos].kind = "node" THEN StoreLocation(file[pos])
       ELSE UNCHANGED <<flat, cache>>
    /\ \A t \in RowTables : Sends(t, file[pos])

Rewritten(t) ==
    \/ /\ t = "line" /\ pc = "ways"
       /\ \E w \in todo : Stored(db[t], db'[t],
            {IF r.id = w THEN [r EXCEPT !.geom = StoredLine(w)] ELSE r : r \in db[t].live})
    \/ /\ t = "relations" /\ pc = "rels"
       /\ \E rel \in todo : Stored(db[t], db'[t],
            {IF r.id = rel
             THEN [r EXCEPT !.points = NodePoints(MembersOf("node", rel)),
                            !.lines = StoredLines(rel)]
             ELSE r : r \in db[t].live})
Switches(t) ==
    \/ db'[t] = db[t]
    \/ Started(db[t], db'[t]) /\ pc' = "pass2"
    \/ Ended(db[t], db'[t]) /\ pc = "pass2"
    \/ Queried(db[t], db'[t]) /\ t = "node_ways" /\ pc \in {"rels", "incomplete"}
    \/ Rewritten(t)
PhaseChange ==
    \/ /\ pc = "pass2" /\ pc' = "pass2"
       /\ pos \in DOMAIN file /\ file[pos].kind \in {"way", "relation"}
       /\ progress = "POINT" /\ progress' = "WAY"
    \/ pc = "pass2" /\ pc' = "pass2" /\ progress' = progress
    \/ /\ pc = "pass2" /\ pc' = "ways"
       /\ pos \in DOMAIN file /\ file[pos].kind = "relation"
       /\ progress = "WAY" /\ progress' = progress
    \/ pc = "ways" /\ pc' = "ways" /\ progress' = progress
    \/ pc = "ways" /\ pc' = "pass2" /\ progress' = "RELATION"
    \/ pc = "pass2" /\ pc' = "rels" /\ pos > Len(file) /\ progress' = progress
    \/ pc = "rels" /\ pc' \in {"rels", "incomplete", "close"} /\ progress' = progress
    \/ pc = "incomplete" /\ pc' = "close" /\ progress' = progress
PhaseStep ==
    /\ UNCHANGED <<old, file, options, run, pos, flat, cache, why>>
    /\ PhaseChange
    /\ \A t \in RowTables : Switches(t)

CloseStep(t) ==
    /\ UNCHANGED <<old, file, options, run, progress, flat, cache, why>>
    /\ Closing(t) /\ pos' = pos + 1 /\ pc' = IF t = "point" THEN "done" ELSE "close"
    /\ \A u \in RowTables :
            IF u = t THEN Destroyed(db[u], db'[u]) ELSE db'[u] = db[u]

DeadStep ==
    /\ UNCHANGED <<old, file, options, run, pos, progress, flat, cache>>
    /\ pc \notin {"done", "dead"} /\ pc' = "dead"
    /\ \A t \in RowTables : Renewed(db[t], db'[t]) /\ db'[t].begun = FALSE

AgainStep ==
    /\ UNCHANGED <<old, file, options, flat>>
    /\ pc \in {"done", "dead"} /\ pc' = "pass1" /\ pos' = 1 /\ progress' = "POINT"
    /\ run < MaxRuns /\ run' = run + 1 /\ why' = "-"
    /\ cache' = [n \in Nodes |-> NoLoc]
    /\ \A t \in RowTables : /\ Renewed(db[t], db'[t])
                            /\ db'[t].begun = TRUE <=> t \in Transactional

IdleStep ==
    /\ UNCHANGED <<old, file, options, run, pc, pos, progress, flat, cache, why>>
    /\ \A t \in RowTables : db'[t] = db[t]

RowStep ==
    \/ DeleteStep \/ SwitchStep \/ SendStep \/ PhaseStep
    \/ \E t \in Tables : CloseStep(t)
    \/ DeadStep \/ AgainStep \/ IdleStep

\* Nothing waits in a table that is not in COPY, and without a transaction
\* everything is committed.
Tidy(t) ==
    /\ db[t].copy = FALSE => db[t].lines = {}
    /\ db[t].begun = FALSE => db[t].saved = db[t].live
RowsInv == \A t \in RowTables : Tidy(t)
-----------------------------------------------------------------------------
(* Every method is one of the moves. *)

LEMMA StoreMoves ==
    ASSUME NEW t, IsTable(t), NEW rows
    PROVE  Stored(t, Store(t, rows), rows)
<1> DEFINE u == Store(t, rows)
<1>1. /\ u.live = rows /\ u.lines = t.lines /\ u.copy = t.copy
      /\ u.stream = t.stream /\ u.begun = t.begun
      /\ t.begun = TRUE => u.saved = t.saved
      /\ t.begun = FALSE => u.saved = rows
    BY StoreFields
<1> HIDE DEF u
<1>2. Stored(t, u, rows)
    BY <1>1 DEF Stored, SameMode, Saves
<1> QED
    BY <1>2 DEF u

LEMMA SendMoves ==
    ASSUME NEW t, IsTable(t), CanSendLine(t), NEW rows
    PROVE  Sent(t, send_line(t, rows), rows)
<1> DEFINE u == send_line(t, rows)
<1>1. /\ u.live = t.live /\ u.saved = t.saved /\ u.lines = t.lines \cup rows
      /\ u.copy = t.copy /\ u.stream = t.stream /\ u.begun = t.begun
    BY SendLineFields
<1>2. t.copy = TRUE /\ t.stream = TRUE
    BY DEF IsTable, CanSendLine
<1> HIDE DEF u
<1>3. Sent(t, u, rows)
    BY <1>1, <1>2 DEF Sent, SameMode, Calm
<1> QED
    BY <1>3 DEF u

LEMMA QueryMoves ==
    ASSUME NEW t, IsTable(t)
    PROVE  Queried(t, query(t))
BY QueryFields DEF Queried, Calm

LEMMA StartMoves ==
    ASSUME NEW t, IsTable(t), t.copy = FALSE
    PROVE  Started(t, start_copy(t))
BY StartCopyFields DEF Started, Calm

LEMMA EndMoves ==
    ASSUME NEW t, IsTable(t)
    PROVE  end_copy(t) = t \/ Ended(t, end_copy(t))
<1> DEFINE u == end_copy(t)
<1>1. t.copy \in BOOLEAN /\ t.begun \in BOOLEAN
    BY DEF IsTable
<1>2. /\ u.copy = FALSE /\ u.begun = t.begun
      /\ t.copy = FALSE => u = t
      /\ t.copy = TRUE => u.live = t.live \cup t.lines /\ u.lines = {}
      /\ t.begun = TRUE => u.saved = t.saved
      /\ t.copy = TRUE /\ t.begun = FALSE => u.saved = t.live \cup t.lines
    BY EndCopyFields
<1> HIDE DEF u
<1>3. t.copy = TRUE => Ended(t, u)
    BY <1>2 DEF Ended, Saves
<1> QED
    BY <1>1, <1>2, <1>3 DEF u

LEMMA CloseMoves ==
    ASSUME NEW t, IsTable(t), CanClose(t),
           t.copy = FALSE => t.lines = {}, t.begun = FALSE => t.saved = t.live
    PROVE  Destroyed(t, close(t))
<1> DEFINE u == end_copy(t)
           v == close(t)
<1>1. t.copy \in BOOLEAN /\ t.begun \in BOOLEAN /\ t.stream \in BOOLEAN
    BY DEF IsTable
<1>2. /\ t.copy = FALSE => u = t
      /\ t.copy = TRUE => u.live = t.live \cup t.lines /\ u.lines = {}
      /\ t.begun = TRUE => u.saved = t.saved
      /\ t.copy = TRUE /\ t.begun = FALSE => u.saved = t.live \cup t.lines
    BY EndCopyFields
<1>3. /\ v.copy = FALSE /\ v.begun = FALSE
      /\ v.live = u.live /\ v.lines = u.lines
      /\ t.begun = TRUE => v.saved = v.live
      /\ t.begun = FALSE => v.saved = u.saved
    BY CloseFields
<1>4. t.copy = TRUE => t.stream = TRUE
    BY <1>1 DEF CanClose, CanEndCopy
<1> HIDE DEF u, v
<1>5. Destroyed(t, v)
  <2>1. CASE t.copy = TRUE
    BY <2>1, <1>1, <1>2, <1>3, <1>4 DEF Destroyed
  <2>2. CASE t.copy = FALSE
    BY <2>2, <1>1, <1>2, <1>3 DEF Destroyed
  <2> QED
    BY <2>1, <2>2, <1>1
<1> QED
    BY <1>5 DEF v

LEMMA RowTablesFacts ==
    /\ RowTables \subseteq Tables
    /\ RowTables = {"point", "untagged", "line", "node_ways", "relations"} \cup MemberTables
    /\ PlainTables \subseteq RowTables
    /\ "line" \notin PlainTables /\ "relations" \notin PlainTables
BY DEF RowTables, PlainTables, TopologyTables, Tables, MemberTables
-----------------------------------------------------------------------------
(* Every action is one of the steps. *)

LEMMA Node1Rows ==
    ASSUME TablesInv, InputInv, ControlInv, Node1
    PROVE  DeleteStep
<1> DEFINE c == file[pos]
<1>1. /\ UNCHANGED <<old, file, options, run, progress, flat, cache, why>>
      /\ pc = "pass1" /\ pc' = "pass1" /\ pos' = pos + 1
    BY DEF Node1, Pass1, Pass1Frame, constant
<1>2. pos \in DOMAIN file /\ c.kind = "node"
    BY FileFacts DEF Node1, Object, ControlInv
<1>3. ASSUME NEW t \in RowTables PROVE Removes(t, c)
  <2>1. IsTable(db[t]) /\ DOMAIN db = Tables /\ t \in Tables
    BY RowTablesFacts DEF TablesInv
  <2>2. CASE IsNew(c)
    BY <2>2 DEF Node1, Removes
  <2>3. CASE ~IsNew(c)
    <3>1. db' = NodeDeleted(c)
      BY <2>3 DEF Node1
    <3>2. db' = [db EXCEPT ![NodeHome(c)] = DeleteId(@, c.id)]
      BY <3>1 DEF NodeDeleted, NodeHome
    <3>3. CASE t # NodeHome(c)
      BY <3>2, <3>3, <2>1, <1>2 DEF Removes
    <3>4. CASE t = NodeHome(c)
      <4>1. db'[t] = Store(db[t], {r \in db[t].live : ~(r.id = c.id)})
        BY <3>2, <3>4, <2>1 DEF DeleteId, delete
      <4>2. t \in {"point", "untagged"}
        BY <3>4 DEF NodeHome
      <4>3. db'[t] = Store(db[t], {r \in db[t].live : IdIn(t, r) # c.id})
        BY <4>1, <4>2 DEF IdIn, MemberTables
      <4>4. KindOf(t) = c.kind
        BY <4>2, <1>2 DEF KindOf
      <4> QED
        BY <4>3, <4>4, <3>4, <2>1, <2>3, StoreMoves DEF Removes
    <3> QED
      BY <3>3, <3>4
  <2> QED
    BY <2>2, <2>3
<1> QED
    BY <1>1, <1>2, <1>3 DEF DeleteStep

LEMMA Way1Rows ==
    ASSUME TablesInv, InputInv, ControlInv, Way1
    PROVE  DeleteStep
<1> DEFINE c == file[pos]
<1>1. /\ UNCHANGED <<old, file, options, run, progress, flat, cache, why>>
      /\ pc = "pass1" /\ pc' = "pass1" /\ pos' = pos + 1
    BY DEF Way1, Pass1, Pass1Frame, constant
<1>2. pos \in DOMAIN file /\ c.kind = "way"
    BY FileFacts DEF Way1, Object, ControlInv
<1>3. ASSUME NEW t \in RowTables PROVE Removes(t, c)
  <2>1. IsTable(db[t]) /\ DOMAIN db = Tables /\ t \in Tables /\ t # "polygon"
    BY RowTablesFacts DEF TablesInv, RowTables
  <2>2. CASE IsNew(c)
    BY <2>2 DEF Way1, Removes
  <2>3. CASE ~IsNew(c)
    <3>1. db' = WayDeleted(c)
      BY <2>3 DEF Way1
    <3>2. CASE t \notin {"line", "node_ways"}
      <4>1. db'[t] = db[t]
        BY <3>1, <3>2, <2>1 DEF WayDeleted
      <4>2. KindOf(t) # "way"
        BY <3>2, <2>1, RowTablesFacts DEF KindOf, MemberTables
      <4> QED
        BY <4>1, <4>2, <1>2 DEF Removes
    <3>3. CASE t = "line"
      <4>1. db'[t] = Store(db[t], {r \in db[t].live : ~(r.id = c.id)})
        BY <3>1, <3>3, <2>1 DEF WayDeleted, DeleteId, delete
      <4>2. db'[t] = Store(db[t], {r \in db[t].live : IdIn(t, r) # c.id})
        BY <4>1, <3>3 DEF IdIn, MemberTables
      <4>3. KindOf(t) = c.kind /\ c.kind # "node"
        BY <3>3, <1>2 DEF KindOf
      <4> QED
        BY <4>2, <4>3, <2>1, <2>3, StoreMoves DEF Removes
    <3>4. CASE t = "node_ways"
      <4>1. db'[t] = Store(db[t], {r \in db[t].live : ~(r.way = c.id)})
        BY <3>1, <3>4, <2>1 DEF WayDeleted, delete
      <4>2. db'[t] = Store(db[t], {r \in db[t].live : IdIn(t, r) # c.id})
        BY <4>1, <3>4 DEF IdIn
      <4>3. KindOf(t) = c.kind /\ c.kind # "node"
        BY <3>4, <1>2 DEF KindOf
      <4> QED
        BY <4>2, <4>3, <2>1, <2>3, StoreMoves DEF Removes
    <3> QED
      BY <3>2, <3>3, <3>4
  <2> QED
    BY <2>2, <2>3
<1> QED
    BY <1>1, <1>2, <1>3 DEF DeleteStep

LEMMA Relation1Rows ==
    ASSUME TablesInv, InputInv, ControlInv, Relation1
    PROVE  DeleteStep
<1> DEFINE c == file[pos]
<1>1. /\ UNCHANGED <<old, file, options, run, progress, flat, cache, why>>
      /\ pc = "pass1" /\ pc' = "pass1" /\ pos' = pos + 1
    BY DEF Relation1, Pass1, Pass1Frame, constant
<1>2. pos \in DOMAIN file /\ c.kind = "relation"
    BY FileFacts DEF Relation1, Object, ControlInv
<1>3. ASSUME NEW t \in RowTables PROVE Removes(t, c)
  <2>1. IsTable(db[t]) /\ DOMAIN db = Tables /\ t \in Tables /\ t # "polygon"
    BY RowTablesFacts DEF TablesInv, RowTables
  <2>2. CASE IsNew(c)
    BY <2>2 DEF Relation1, Removes
  <2>3. CASE ~IsNew(c)
    <3>1. db' = RelationDeleted(c)
      BY <2>3 DEF Relation1
    <3>2. CASE t \notin {"relations"} \cup MemberTables
      <4>1. db'[t] = db[t]
        BY <3>1, <3>2, <2>1 DEF RelationDeleted
      <4>2. KindOf(t) # "relation"
        BY <3>2, <2>1, RowTablesFacts DEF KindOf, MemberTables
      <4> QED
        BY <4>1, <4>2, <1>2 DEF Removes
    <3>3. CASE t = "relations"
      <4>1. db'[t] = Store(db[t], {r \in db[t].live : ~(r.id = c.id)})
        BY <3>1, <3>3, <2>1 DEF RelationDeleted, DeleteId, delete
      <4>2. db'[t] = Store(db[t], {r \in db[t].live : IdIn(t, r) # c.id})
        BY <4>1, <3>3 DEF IdIn, MemberTables
      <4>3. KindOf(t) = c.kind /\ c.kind # "node"
        BY <3>3, <1>2 DEF KindOf
      <4> QED
        BY <4>2, <4>3, <2>1, <2>3, StoreMoves DEF Removes
    <3>4. CASE t \in MemberTables
      <4>1. db'[t] = Store(db[t], {r \in db[t].live : ~(r.rel = c.id)})
        BY <3>1, <3>4, <2>1 DEF RelationDeleted, delete, MemberTables
      <4>2. db'[t] = Store(db[t], {r \in db[t].live : IdIn(t, r) # c.id})
        BY <4>1, <3>4 DEF IdIn, MemberTables
      <4>3. KindOf(t) = c.kind /\ c.kind # "node"
        BY <3>4, <1>2 DEF KindOf, MemberTables
      <4> QED
        BY <4>2, <4>3, <2>1, <2>3, StoreMoves DEF Removes
    <3> QED
      BY <3>2, <3>3, <3>4
  <2> QED
    BY <2>2, <2>3
<1> QED
    BY <1>1, <1>2, <1>3 DEF DeleteStep

LEMMA StartPass2Rows ==
    ASSUME TablesInv, InputInv, ControlInv, StartPass2
    PROVE  SwitchStep
<1>1. /\ UNCHANGED <<old, file, options, run, progress, flat, cache, why>>
      /\ pc = "pass1" /\ pc' = "pass2" /\ pos > Len(file) /\ pos' = 1
    BY DEF StartPass2, constant
<1>2. db' = [db EXCEPT !["untagged"] = start_copy(@), !["point"] = start_copy(@)]
    BY DEF StartPass2
<1>3. \A t \in Tables : IsTable(db[t]) /\ db[t].copy = FALSE
    BY <1>1 DEF TablesInv, MayCopy, IsTable
<1>4. \A t \in {"point", "untagged"} : t \in Tables /\ db'[t] = start_copy(db[t])
    BY <1>2 DEF TablesInv, Tables
<1>5. \A t \in RowTables \ {"point", "untagged"} : db'[t] = db[t]
    BY <1>2, RowTablesFacts DEF TablesInv
<1> QED
    BY <1>1, <1>3, <1>4, <1>5, StartMoves DEF SwitchStep

LEMMA Node2Rows ==
    ASSUME TablesInv, InputInv, ControlInv, Node2
    PROVE  SendStep
<1> DEFINE c == file[pos]
<1>1. /\ UNCHANGED <<old, file, options, run, progress, why>>
      /\ pc = "pass2" /\ pc' = "pass2" /\ pos' = pos + 1 /\ StoreLocation(c)
    BY DEF Node2, Pass2, constant
<1>2. pos \in DOMAIN file /\ c.kind = "node"
    BY FileFacts DEF Node2, Object, ControlInv
<1>3. ASSUME NEW t \in RowTables PROVE Sends(t, c)
  <2>1. IsTable(db[t]) /\ t \in Tables /\ t # "polygon"
    BY RowTablesFacts DEF TablesInv, RowTables
  <2>2. CASE c.deleted
    <3>1. db'[t] = db[t]
      BY <2>2 DEF Node2
    <3>2. WrittenRows(t, c) = {}
      BY <2>2, <1>2, RowTablesFacts DEF WrittenRows, PlainRows, PlainTables, TopologyTables
    <3> QED
      BY <3>1, <3>2 DEF Sends
  <2>3. CASE ~c.deleted
    <3>1. db'[t] = CASE t = NodeTable(c) ->
                            send_line(db[t], {PointRow(c.id, c.loc, run)})
                      [] t \in {"node_ways", "node_relations"} -> query(db[t])
                      [] OTHER -> db[t]
      BY <2>1, <2>3 DEF Node2
    <3>2. NodeTable(c) \in {"point", "untagged", "none"}
      BY DEF NodeTable
    <3>3. CASE t = NodeTable(c)
      <4>1. t \in {"point", "untagged"} /\ CanSendLine(db[t])
        BY <3>2, <3>3, <2>3, <2>1 DEF Node2, NodeLineFails, Tables, MemberTables
      <4>2. WrittenRows(t, c) = {PointRow(c.id, c.loc, run)}
        BY <4>1, <3>3, <2>3, <1>2 DEF WrittenRows, PlainRows, PlainTables
      <4>3. db'[t] = send_line(db[t], {PointRow(c.id, c.loc, run)})
        BY <3>1, <3>3, <4>1
      <4> QED
        BY <4>1, <4>2, <4>3, <2>1, SendMoves DEF Sends
    <3>4. CASE t # NodeTable(c)
      <4>1. WrittenRows(t, c) = {}
        BY <3>4, <1>2, RowTablesFacts DEF WrittenRows, PlainRows, PlainTables, TopologyTables
      <4>2. \/ db'[t] = db[t]
            \/ db'[t] = query(db[t]) /\ t \in {"node_ways", "node_relations"}
        BY <3>1, <3>4
      <4> QED
        BY <4>1, <4>2, <2>1, <1>2, QueryMoves DEF Sends, Asked
    <3> QED
      BY <3>3, <3>4
  <2> QED
    BY <2>2, <2>3
<1> QED
    BY <1>1, <1>2, <1>3 DEF SendStep

LEMMA DeletedRows ==
    ASSUME TablesInv, InputInv, ControlInv, Way2Deleted \/ Relation2Deleted
    PROVE  SendStep
<1> DEFINE c == file[pos]
<1>1. /\ UNCHANGED <<old, file, options, run, progress, flat, cache, why>> /\ db' = db
      /\ pc = "pass2" /\ pc' = "pass2" /\ pos' = pos + 1
    BY DEF Way2Deleted, Relation2Deleted, Pass2, constant
<1>2. /\ pos \in DOMAIN file /\ c.kind \in {"way", "relation"}
      /\ progress # "POINT" /\ (c.kind = "relation" => progress = "RELATION")
    BY FileFacts DEF Way2Deleted, Relation2Deleted, Object, ControlInv
<1>3. \A t \in RowTables : WrittenRows(t, c) = {}
    BY RowTablesFacts DEF Way2Deleted, Relation2Deleted, WrittenRows, PlainRows,
       PlainTables, TopologyTables
<1>4. \A t \in RowTables : Sends(t, c)
    BY <1>1, <1>3 DEF Sends
<1> QED
    BY <1>1, <1>2, <1>4 DEF SendStep

LEMMA Way2Rows ==
    ASSUME TablesInv, InputInv, ControlInv, Way2
    PROVE  SendStep
<1> DEFINE c == file[pos]
           line == {LineRow(c.id, Linestring(NewLine(c)), run)}
           nodes == NodeWayRows(c.id, c.refs, run)
<1>1. /\ UNCHANGED <<old, file, options, run, progress, flat, cache, why>>
      /\ pc = "pass2" /\ pc' = "pass2" /\ pos' = pos + 1 /\ progress # "POINT"
    BY DEF Way2, Pass2, constant
<1>2. pos \in DOMAIN file /\ c.kind = "way" /\ ~c.deleted
    BY FileFacts DEF Way2, Object, ControlInv
<1>3. db' = [db EXCEPT
                !["line"] = IF c.tagged THEN send_line(@, line) ELSE @,
                !["way_relations"] = query(@),
                !["node_ways"] = send_line(@, nodes)]
    BY DEF Way2
<1>4. (c.tagged => CanSendLine(db["line"])) /\ CanSendLine(db["node_ways"])
    BY DEF Way2
<1>5. /\ WrittenRows("line", c) = IF c.tagged THEN line ELSE {}
      /\ WrittenRows("node_ways", c) = nodes
      /\ \A t \in RowTables \ {"line", "node_ways"} : WrittenRows(t, c) = {}
    BY <1>2, RowTablesFacts DEF WrittenRows, PlainRows, PlainTables, TopologyTables
<1> HIDE DEF line, nodes
<1>6. ASSUME NEW t \in RowTables PROVE Sends(t, c)
  <2>1. IsTable(db[t]) /\ t \in Tables /\ DOMAIN db = Tables
    BY RowTablesFacts DEF TablesInv, RowTables
  <2>2. CASE t = "line"
    <3>1. db'[t] = IF c.tagged THEN send_line(db[t], line) ELSE db[t]
      BY <1>3, <2>1, <2>2
    <3> QED
      BY <3>1, <1>4, <1>5, <2>1, <2>2, SendMoves DEF Sends
  <2>3. CASE t = "node_ways"
    <3>1. db'[t] = send_line(db[t], nodes)
      BY <1>3, <2>1, <2>3
    <3> QED
      BY <3>1, <1>4, <1>5, <2>1, <2>3, SendMoves DEF Sends
  <2>4. CASE t = "way_relations"
    <3>1. db'[t] = query(db[t])
      BY <1>3, <2>1, <2>4
    <3>2. Queried(db[t], db'[t])
      BY <3>1, <2>1, QueryMoves
    <3> QED
      BY <3>2, <1>2, <1>5, <2>4 DEF Sends, Asked
  <2>5. CASE t \notin {"line", "node_ways", "way_relations"}
    <3>1. db'[t] = db[t]
      BY <1>3, <2>1, <2>5
    <3> QED
      BY <3>1, <1>5, <2>5 DEF Sends
  <2> QED
    BY <2>2, <2>3, <2>4, <2>5
<1> QED
    BY <1>1, <1>2, <1>6 DEF SendStep

LEMMA Relation2Rows ==
    ASSUME TablesInv, InputInv, ControlInv, Relation2
    PROVE  SendStep
<1> DEFINE c == file[pos]
           row == {RelationRow(c.id, NewPoints(c), InsertedLines(c.mems), run)}
           rows(t) == MemberRows(c.id, c.mems, CHOOSE k \in Kinds : TableOf(k) = t, run)
<1>1. /\ UNCHANGED <<old, file, options, run, progress, flat, cache, why>>
      /\ pc = "pass2" /\ pc' = "pass2" /\ pos' = pos + 1 /\ progress = "RELATION"
    BY DEF Relation2, Pass2, constant
<1>2. pos \in DOMAIN file /\ c.kind = "relation" /\ ~c.deleted
    BY FileFacts DEF Relation2, Object, ControlInv
<1>3. \A t \in {"relations"} \cup MemberTables : CanSendLine(db[t])
    BY DEF Relation2
<1>4. db' = [t \in Tables |->
            CASE t = "relations" -> send_line(db[t], row)
              [] t = "node_ways" -> query(db[t])
              [] t \in MemberTables -> send_line(db[t], rows(t))
              [] OTHER -> db[t]]
    BY DEF Relation2, NewPoints
<1>5. /\ WrittenRows("relations", c) = row
      /\ \A t \in MemberTables : WrittenRows(t, c) = rows(t)
      /\ \A t \in RowTables \ ({"relations"} \cup MemberTables) : WrittenRows(t, c) = {}
    BY <1>2, RowTablesFacts DEF WrittenRows, PlainRows, PlainTables, TopologyTables,
       MemberTables
<1> HIDE DEF row, rows
<1>6. ASSUME NEW t \in RowTables PROVE Sends(t, c)
  <2>1. IsTable(db[t]) /\ t \in Tables
    BY RowTablesFacts DEF TablesInv, RowTables
  <2>2. CASE t = "relations"
    <3>1. db'[t] = send_line(db[t], row)
      BY <1>4, <2>1, <2>2 DEF MemberTables
    <3> QED
      BY <3>1, <1>3, <1>5, <2>1, <2>2, SendMoves DEF Sends
  <2>3. CASE t \in MemberTables
    <3>1. db'[t] = send_line(db[t], rows(t))
      BY <1>4, <2>1, <2>3 DEF MemberTables
    <3> QED
      BY <3>1, <1>3, <1>5, <2>1, <2>3, SendMoves DEF Sends
  <2>4. CASE t = "node_ways"
    <3>1. db'[t] = query(db[t])
      BY <1>4, <2>1, <2>4 DEF MemberTables
    <3>2. Queried(db[t], db'[t])
      BY <3>1, <2>1, QueryMoves
    <3> QED
      BY <3>2, <1>2, <1>5, <2>4 DEF Sends, Asked, MemberTables
  <2>5. CASE t \notin {"relations", "node_ways"} \cup MemberTables
    <3>1. db'[t] = db[t]
      BY <1>4, <2>1, <2>5
    <3> QED
      BY <3>1, <1>5, <2>5 DEF Sends
  <2> QED
    BY <2>2, <2>3, <2>4, <2>5
<1> QED
    BY <1>1, <1>2, <1>6 DEF SendStep
-----------------------------------------------------------------------------
(* The steps from one phase to the next. *)

LEMMA ModeSwitches ==
    ASSUME TablesInv, NEW t \in RowTables,
           \/ db'[t] = start_copy(db[t]) /\ db[t].copy # TRUE /\ pc' = "pass2"
           \/ db'[t] = end_copy(db[t]) /\ pc = "pass2"
           \/ db'[t] = db[t]
    PROVE  Switches(t)
<1>1. IsTable(db[t])
    BY RowTablesFacts DEF TablesInv
<1>2. db[t].copy # TRUE => db[t].copy = FALSE
    BY <1>1 DEF IsTable
<1> QED
    BY <1>1, <1>2, StartMoves, EndMoves DEF Switches

LEMMA WriteNewNodesRows ==
    ASSUME TablesInv, InputInv, ControlInv, WriteNewNodes
    PROVE  PhaseStep
<1>1. /\ UNCHANGED <<old, file, options, run, pos, flat, cache, why>>
      /\ pc = "pass2" /\ pc' = "pass2" /\ progress = "POINT" /\ progress' = "WAY"
    BY DEF WriteNewNodes, constant
<1>2. pos \in DOMAIN file /\ file[pos].kind \in {"way", "relation"}
    BY FileFacts DEF WriteNewNodes, Object, ControlInv
<1>3. ASSUME NEW t \in RowTables PROVE Switches(t)
  <2>1. t \in Tables
    BY RowTablesFacts
  <2>2. \/ db'[t] = end_copy(db[t])
        \/ t \notin {"point", "untagged"} /\ db'[t] = start_copy(db[t])
        \/ db'[t] = db[t]
    BY <2>1 DEF WriteNewNodes
  <2>3. t \notin {"point", "untagged"} => db[t].copy # TRUE
    BY <1>1, <2>1 DEF TablesInv, MayCopy
  <2> QED
    BY <1>1, <2>2, <2>3, ModeSwitches
<1> QED
    BY <1>1, <1>2, <1>3 DEF PhaseStep, PhaseChange

LEMMA FlushAreasRows ==
    ASSUME TablesInv, FlushAreas
    PROVE  PhaseStep
<1>1. /\ UNCHANGED <<old, file, options, run, pos, flat, cache, why>>
      /\ pc = "pass2" /\ pc' = "pass2" /\ progress' = progress
    BY DEF FlushAreas, constant
<1>2. \A t \in RowTables : db'[t] = db[t]
    BY DEF FlushAreas, TablesInv, RowTables
<1> QED
    BY <1>1, <1>2 DEF PhaseStep, PhaseChange, Switches

LEMMA WriteNewWaysRows ==
    ASSUME TablesInv, InputInv, ControlInv, WriteNewWays
    PROVE  PhaseStep
<1>1. /\ UNCHANGED <<old, file, options, run, pos, flat, cache, why>>
      /\ pc = "pass2" /\ pc' = "ways" /\ progress = "WAY" /\ progress' = progress
    BY DEF WriteNewWays, constant
<1>2. pos \in DOMAIN file /\ file[pos].kind = "relation"
    BY FileFacts DEF WriteNewWays, Object, ControlInv
<1>3. ASSUME NEW t \in RowTables PROVE Switches(t)
  <2>1. db'[t] = end_copy(db[t]) \/ db'[t] = db[t]
    BY RowTablesFacts DEF WriteNewWays
  <2> QED
    BY <1>1, <2>1, ModeSwitches
<1> QED
    BY <1>1, <1>2, <1>3 DEF PhaseStep, PhaseChange

LEMMA UpdateWayRows ==
    ASSUME TablesInv, NEW id, UpdateWay(id)
    PROVE  PhaseStep
<1>1. /\ UNCHANGED <<old, file, options, run, pos, flat, cache, why>>
      /\ pc = "ways" /\ pc' = "ways" /\ progress' = progress /\ id \in todo
    BY DEF UpdateWay, constant, Turn
<1>2. ASSUME NEW t \in RowTables PROVE Switches(t)
  <2>1. t \in Tables /\ IsTable(db[t]) /\ t # "polygon"
    BY RowTablesFacts DEF TablesInv, RowTables
  <2>2. CASE t = "line"
    <3> DEFINE rows == {IF r.id = id THEN [r EXCEPT !.geom = StoredLine(id)] ELSE r :
                            r \in db[t].live}
    <3>1. db'[t] = Store(db[t], rows)
      BY <2>1, <2>2 DEF UpdateWay, update
    <3>2. Stored(db[t], db'[t], rows)
      BY <3>1, <2>1, StoreMoves
    <3> QED
      BY <3>2, <2>2, <1>1 DEF Switches, Rewritten
  <2>3. CASE t # "line"
    <3>1. db'[t] = db[t]
      BY <2>1, <2>3 DEF UpdateWay
    <3> QED
      BY <3>1 DEF Switches
  <2> QED
    BY <2>2, <2>3
<1> QED
    BY <1>1, <1>2 DEF PhaseStep, PhaseChange

LEMMA StartRelationsRows ==
    ASSUME TablesInv, StartRelations
    PROVE  PhaseStep
<1>1. /\ UNCHANGED <<old, file, options, run, pos, flat, cache, why>>
      /\ pc = "ways" /\ pc' = "pass2" /\ progress' = "RELATION"
    BY DEF StartRelations, constant
<1>2. ASSUME NEW t \in RowTables PROVE Switches(t)
  <2>1. db'[t] = start_copy(db[t]) \/ db'[t] = db[t]
    BY RowTablesFacts DEF StartRelations
  <2>2. db[t].copy # TRUE
    BY <1>1, RowTablesFacts DEF TablesInv, MayCopy
  <2> QED
    BY <1>1, <2>1, <2>2, ModeSwitches
<1> QED
    BY <1>1, <1>2 DEF PhaseStep, PhaseChange

LEMMA AfterRelationsRows ==
    ASSUME TablesInv, AfterRelations
    PROVE  PhaseStep
<1>1. /\ UNCHANGED <<old, file, options, run, pos, flat, cache, why>>
      /\ pc = "pass2" /\ pc' = "rels" /\ pos > Len(file) /\ progress' = progress
    BY DEF AfterRelations, constant
<1>2. ASSUME NEW t \in RowTables PROVE Switches(t)
  <2>1. db'[t] = end_copy(db[t]) \/ db'[t] = db[t]
    BY RowTablesFacts DEF AfterRelations
  <2> QED
    BY <1>1, <2>1, ModeSwitches
<1> QED
    BY <1>1, <1>2 DEF PhaseStep, PhaseChange

LEMMA UpdateRelationRows ==
    ASSUME TablesInv, NEW rel, UpdateRelation(rel)
    PROVE  PhaseStep
<1>1. /\ UNCHANGED <<old, file, options, run, pos, flat, cache, why>>
      /\ pc = "rels" /\ pc' = "rels" /\ progress' = progress /\ rel \in todo
    BY DEF UpdateRelation, constant, Turn
<1>2. ASSUME NEW t \in RowTables PROVE Switches(t)
  <2>1. t \in Tables /\ IsTable(db[t])
    BY RowTablesFacts DEF TablesInv
  <2>2. CASE t = "relations"
    <3> DEFINE rows == {IF r.id = rel
                        THEN [r EXCEPT !.points = NodePoints(MembersOf("node", rel)),
                                       !.lines = StoredLines(rel)]
                        ELSE r : r \in db[t].live}
    <3>1. db'[t] = Store(db[t], rows)
      BY <2>1, <2>2 DEF UpdateRelation, update
    <3>2. Stored(db[t], db'[t], rows)
      BY <3>1, <2>1, StoreMoves
    <3> QED
      BY <3>2, <2>2, <1>1 DEF Switches, Rewritten
  <2>3. CASE t # "relations"
    <3>1. CASE t = "node_ways"
      <4>1. db'[t] = db[t] \/ db'[t] = query(db[t])
        BY <3>1, <2>1 DEF UpdateRelation
      <4> QED
        BY <3>1, <4>1, <2>1, <1>1, QueryMoves DEF Switches
    <3>2. CASE t # "node_ways"
      <4>1. db'[t] = db[t]
        BY <3>2, <2>1, <2>3 DEF UpdateRelation
      <4> QED
        BY <4>1 DEF Switches
    <3> QED
      BY <3>1, <3>2
  <2> QED
    BY <2>2, <2>3
<1> QED
    BY <1>1, <1>2 DEF PhaseStep, PhaseChange

LEMMA FlushUpdatedRows ==
    ASSUME TablesInv, FlushUpdated
    PROVE  PhaseStep
<1>1. /\ UNCHANGED <<old, file, options, run, pos, flat, cache, why>>
      /\ pc = "rels" /\ pc' \in {"incomplete", "close"} /\ progress' = progress
    BY DEF FlushUpdated, constant
<1>2. \A t \in RowTables : db'[t] = db[t]
    BY DEF FlushUpdated, TablesInv, RowTables
<1> QED
    BY <1>1, <1>2 DEF PhaseStep, PhaseChange, Switches

LEMMA IncompleteRelationsRows ==
    ASSUME TablesInv, IncompleteRelations
    PROVE  PhaseStep
<1>1. /\ UNCHANGED <<old, file, options, run, pos, flat, cache, why>>
      /\ pc = "incomplete" /\ pc' = "close" /\ progress' = progress
    BY DEF IncompleteRelations, constant
<1>2. ASSUME NEW t \in RowTables PROVE Switches(t)
  <2>1. t \in Tables /\ IsTable(db[t]) /\ t # "polygon"
    BY RowTablesFacts DEF TablesInv, RowTables
  <2>2. CASE t = "node_ways"
    <3>1. db'[t] = db[t] \/ db'[t] = query(db[t])
      BY <2>2, <2>1 DEF IncompleteRelations
    <3> QED
      BY <3>1, <2>1, <2>2, <1>1, QueryMoves DEF Switches
  <2>3. CASE t # "node_ways"
    <3>1. db'[t] = db[t]
      BY <2>3, <2>1 DEF IncompleteRelations
    <3> QED
      BY <3>1 DEF Switches
  <2> QED
    BY <2>2, <2>3
<1> QED
    BY <1>1, <1>2 DEF PhaseStep, PhaseChange
-----------------------------------------------------------------------------
(* The end of a run, and the next one. *)

LEMMA CloseTableRows ==
    ASSUME TablesInv, RowsInv, NEW t \in Tables, CloseTable(t)
    PROVE  CloseStep(t)
<1>1. /\ UNCHANGED <<old, file, options, run, progress, flat, cache, why>>
      /\ Closing(t) /\ pos' = pos + 1 /\ pc' = IF t = "point" THEN "done" ELSE "close"
    BY DEF CloseTable, constant, Closing
<1>2. db' = [db EXCEPT ![t] = close(@)] /\ CanClose(db[t])
    BY DEF CloseTable
<1>3. ASSUME NEW u \in RowTables
      PROVE  IF u = t THEN Destroyed(db[u], db'[u]) ELSE db'[u] = db[u]
  <2>1. u \in Tables /\ IsTable(db[u]) /\ DOMAIN db = Tables
    BY RowTablesFacts DEF TablesInv
  <2>2. CASE u # t
    BY <1>2, <2>1, <2>2
  <2>3. CASE u = t
    <3>1. db'[u] = close(db[u]) /\ CanClose(db[u])
      BY <1>2, <2>1, <2>3
    <3> QED
      BY <3>1, <2>1, <2>3, CloseMoves DEF RowsInv, Tidy
  <2> QED
    BY <2>2, <2>3
<1> QED
    BY <1>1, <1>3 DEF CloseStep

LEMMA DieRows ==
    ASSUME NEW reason, Die(reason), pc \notin {"done", "dead"}
    PROVE  DeadStep
<1>1. /\ UNCHANGED <<old, file, options, run, pos, progress, flat, cache>>
      /\ pc' = "dead"
    BY DEF Die, constant
<1>2. \A t \in RowTables : db'[t] = Connect(db[t].saved)
    BY RowTablesFacts DEF Die, Disconnect
<1>3. ASSUME NEW t \in RowTables
      PROVE  Renewed(db[t], db'[t]) /\ db'[t].begun = FALSE
  <2> DEFINE rows == db[t].saved
  <2>1. db'[t] = Connect(rows)
    BY <1>2
  <2>2. /\ Connect(rows).live = rows /\ Connect(rows).saved = rows
        /\ Connect(rows).lines = {}
        /\ Connect(rows).copy = FALSE /\ Connect(rows).begun = FALSE
    BY ConnectFields
  <2> QED
    BY <2>1, <2>2 DEF Renewed
<1> QED
    BY <1>1, <1>3 DEF DeadStep

LEMMA OpenedRows ==
    ASSUME NEW saved, NEW t \in RowTables
    PROVE  /\ Opened(saved)[t].saved = saved[t] /\ Opened(saved)[t].live = saved[t]
           /\ Opened(saved)[t].lines = {} /\ Opened(saved)[t].copy = FALSE
           /\ Opened(saved)[t].begun = TRUE <=> t \in Transactional
           /\ Opened(saved)[t].begun \in BOOLEAN
<1> DEFINE u == Connect(saved[t])
<1>1. /\ IsTable(u) /\ u.saved = saved[t] /\ u.live = saved[t] /\ u.lines = {}
      /\ u.copy = FALSE /\ u.begun = FALSE
    BY ConnectFields
<1>2. Opened(saved)[t] = IF t \in Transactional THEN send_begin(u) ELSE u
    BY RowTablesFacts DEF Opened, Transactional
<1> HIDE DEF u
<1>3. /\ send_begin(u).saved = u.saved /\ send_begin(u).live = u.live
      /\ send_begin(u).lines = u.lines /\ send_begin(u).copy = u.copy
      /\ send_begin(u).begun = TRUE
    BY <1>1, BeginFields
<1> QED
    BY <1>1, <1>2, <1>3

LEMMA RestartRows ==
    ASSUME Restart
    PROVE  AgainStep
<1> DEFINE saved == [t \in Tables |-> db[t].saved]
<1>1. /\ UNCHANGED <<old, file, options, flat>>
      /\ pc \in {"done", "dead"} /\ pc' = "pass1" /\ pos' = 1 /\ progress' = "POINT"
      /\ run < MaxRuns /\ run' = run + 1 /\ why' = "-"
      /\ cache' = [n \in Nodes |-> NoLoc]
    BY DEF Restart
<1>2. db' = Opened(saved)
    BY DEF Restart
<1>3. ASSUME NEW t \in RowTables
      PROVE  Renewed(db[t], db'[t]) /\ (db'[t].begun = TRUE <=> t \in Transactional)
  <2>1. saved[t] = db[t].saved
    BY RowTablesFacts
  <2> HIDE DEF saved
  <2>2. /\ db'[t].saved = saved[t] /\ db'[t].live = saved[t]
        /\ db'[t].lines = {} /\ db'[t].copy = FALSE
        /\ db'[t].begun = TRUE <=> t \in Transactional
    <3>1. /\ Opened(saved)[t].saved = saved[t]
          /\ Opened(saved)[t].live = saved[t]
          /\ Opened(saved)[t].lines = {}
      BY OpenedRows
    <3>2. Opened(saved)[t].begun = TRUE <=> t \in Transactional
      BY OpenedRows
    <3>3. Opened(saved)[t].copy = FALSE
      BY OpenedTables, RowTablesFacts
    <3> QED
      BY <1>2, <3>1, <3>2, <3>3
  <2> QED
    BY <2>1, <2>2 DEF Renewed
<1> QED
    BY <1>1, <1>3 DEF AgainStep

\* Every step of the program is one of them.
LEMMA RowSteps ==
    ASSUME TablesInv, InputInv, ControlInv, RowsInv, [Next]_vars
    PROVE  RowStep
<1>1. CASE UNCHANGED vars
    BY <1>1 DEF vars, RowStep, IdleStep
<1>2. CASE Pass1Step
    BY <1>2, Node1Rows, Way1Rows, Relation1Rows, StartPass2Rows DEF Pass1Step, RowStep
<1>3. CASE Pass2Step
  <2>1. ASSUME NEW id, UpdateWayThrows(id) PROVE DeadStep
    BY <2>1, DieRows DEF UpdateWayThrows
  <2>2. CASE Node2Throws
    BY <2>2, DieRows DEF Node2Throws, RowStep
  <2>4. CASE WriteNewNodesThrows
    BY <2>4, DieRows DEF WriteNewNodesThrows, RowStep
  <2>3. CASE Way2Throws
    BY <2>3, DieRows DEF Way2Throws, RowStep
  <2> QED
    BY <1>3, <2>1, <2>2, <2>3, <2>4, Node2Rows, WriteNewNodesRows, DeletedRows, Way2Rows,
       FlushAreasRows, WriteNewWaysRows, StartRelationsRows, UpdateWayRows,
       Relation2Rows DEF Pass2Step, RowStep
<1>4. CASE AfterStep
  <2>1. ASSUME NEW id, UpdateRelationThrows(id) PROVE DeadStep
    BY <2>1, DieRows DEF UpdateRelationThrows
  <2>2. ASSUME NEW t \in Tables, CloseThrows(t) PROVE DeadStep
    BY <2>2, DieRows DEF CloseThrows, Closing
  <2> QED
    BY <1>4, <2>1, <2>2, AfterRelationsRows, UpdateRelationRows, FlushUpdatedRows,
       IncompleteRelationsRows, CloseTableRows DEF AfterStep, RowStep
<1>5. CASE Crash
    BY <1>5, DieRows DEF Crash, RowStep
<1>6. CASE Restart
    BY <1>6, RestartRows DEF RowStep
<1> QED
    BY <1>1, <1>2, <1>3, <1>4, <1>5, <1>6 DEF Next, Step
-----------------------------------------------------------------------------
(* The input does not change, the position follows the phases, and the      *)
(* tables stay tidy.                                                        *)

BaseInv == TablesInv /\ InputInv /\ ControlInv /\ RowsInv

LEMMA InitBase == Init => BaseInv
<1> SUFFICES ASSUME Init PROVE BaseInv
    OBVIOUS
<1>1. PICK s \in Scenarios : old = s.old /\ file = s.file /\ options = s.options
    BY DEF Init
<1>2. run = 1 /\ pc = "pass1" /\ pos = 1 /\ progress = "POINT" /\ db = Opened(Imported(old, PolygonTable))
    BY DEF Init
<1>3. InputInv
    BY <1>1, <1>2, ScenariosAssumption, MaxRunsAssumption DEF InputInv, Areas, PolygonTable
<1>4. ControlInv
    BY <1>2, <1>3, FileFacts DEF ControlInv, InPass2
<1>5. RowsInv
  <2> SUFFICES ASSUME NEW t \in RowTables PROVE Tidy(t)
    BY DEF RowsInv
  <2> DEFINE saved == Imported(old, PolygonTable)
  <2> HIDE DEF saved
  <2>1. /\ Opened(saved)[t].saved = saved[t]
        /\ Opened(saved)[t].live = saved[t]
        /\ Opened(saved)[t].lines = {}
    BY OpenedRows
  <2>2. db[t].lines = {} /\ db[t].saved = db[t].live
    BY <1>2, <2>1 DEF saved
  <2> QED
    BY <2>2 DEF Tidy
<1> QED
    BY <1>3, <1>4, <1>5, InitTables DEF BaseInv

LEMMA InputStep ==
    ASSUME InputInv, RowStep
    PROVE  InputInv'
<1>1. UNCHANGED <<old, file, options>>
    BY DEF RowStep, DeleteStep, SwitchStep, SendStep, PhaseStep, CloseStep, DeadStep,
       AgainStep, IdleStep
<1>2. run' = run \/ (run' = run + 1 /\ run < MaxRuns)
  <2>1. CASE AgainStep
    BY <2>1 DEF AgainStep
  <2>2. DeleteStep \/ SwitchStep \/ SendStep \/ PhaseStep => run' = run
    BY DEF DeleteStep, SwitchStep, SendStep, PhaseStep
  <2>3. (\E t \in Tables : CloseStep(t)) \/ DeadStep \/ IdleStep => run' = run
    BY DEF CloseStep, DeadStep, IdleStep
  <2> QED
    BY <2>1, <2>2, <2>3 DEF RowStep
<1>3. run' \in 1 .. MaxRuns
    BY <1>2, MaxRunsAssumption DEF InputInv
<1> QED
    BY <1>1, <1>3 DEF InputInv, Areas, PolygonTable

LEMMA PhaseControl ==
    ASSUME TablesInv, InputInv, ControlInv, PhaseStep
    PROVE  ControlInv'
<1>1. pos' = pos /\ file' = file /\ PhaseChange
    BY DEF PhaseStep
<1>2. Len(file) \in Nat /\ DOMAIN file = 1 .. Len(file) /\ pos \in Nat \ {0}
    BY FileFacts DEF ControlInv
<1>3. CASE /\ pc = "pass2" /\ pc' = "pass2"
           /\ pos \in DOMAIN file /\ file[pos].kind \in {"way", "relation"}
           /\ progress = "POINT" /\ progress' = "WAY"
    BY <1>1, <1>2, <1>3 DEF ControlInv, InPass2
<1>4. CASE pc = "pass2" /\ pc' = "pass2" /\ progress' = progress
    BY <1>1, <1>2, <1>4 DEF ControlInv, InPass2
<1>5. CASE /\ pc = "pass2" /\ pc' = "ways"
           /\ pos \in DOMAIN file /\ file[pos].kind = "relation"
           /\ progress = "WAY" /\ progress' = progress
    BY <1>1, <1>2, <1>5 DEF ControlInv, InPass2
<1>6. CASE pc = "ways" /\ pc' = "ways" /\ progress' = progress
    BY <1>1, <1>2, <1>6 DEF ControlInv, InPass2
<1>7. CASE pc = "ways" /\ pc' = "pass2" /\ progress' = "RELATION"
    BY <1>1, <1>2, <1>7 DEF ControlInv, InPass2
<1>8. CASE pc = "pass2" /\ pc' = "rels" /\ pos > Len(file) /\ progress' = progress
    BY <1>1, <1>2, <1>8 DEF ControlInv, InPass2
<1>9. CASE pc = "rels" /\ pc' \in {"rels", "incomplete", "close"} /\ progress' = progress
    BY <1>1, <1>2, <1>9 DEF ControlInv, InPass2
<1>10. CASE pc = "incomplete" /\ pc' = "close" /\ progress' = progress
    BY <1>1, <1>2, <1>10 DEF ControlInv, InPass2
<1> QED
    BY <1>1, <1>3, <1>4, <1>5, <1>6, <1>7, <1>8, <1>9, <1>10 DEF PhaseChange

LEMMA ControlStep ==
    ASSUME TablesInv, InputInv, ControlInv, RowStep
    PROVE  ControlInv'
<1>1. Len(file) \in Nat /\ DOMAIN file = 1 .. Len(file) /\ pos \in Nat \ {0}
    BY FileFacts DEF ControlInv
<1>2. CASE DeleteStep
    BY <1>1, <1>2 DEF DeleteStep, ControlInv, InPass2
<1>3. CASE SwitchStep
    BY <1>1, <1>3 DEF SwitchStep, ControlInv, InPass2, TablesInv
<1>4. CASE SendStep
  <2>1. /\ file' = file /\ progress' = progress
        /\ pc = "pass2" /\ pc' = "pass2" /\ pos \in DOMAIN file /\ pos' = pos + 1
        /\ file[pos].kind # "node" => progress # "POINT"
        /\ file[pos].kind = "relation" => progress = "RELATION"
    BY <1>4 DEF SendStep
  <2>2. \A k \in DOMAIN file : k < pos' => k < pos \/ k = pos
    BY <1>1, <2>1
  <2> QED
    BY <1>1, <2>1, <2>2 DEF ControlInv, InPass2
<1>5. CASE PhaseStep
    BY <1>5, PhaseControl
<1>6. ASSUME NEW t \in Tables, CloseStep(t) PROVE ControlInv'
  <2>1. /\ pc = "close" /\ CloseOrder[pos - Len(file)] = t
        /\ file' = file /\ progress' = progress
        /\ pos' = pos + 1 /\ pc' = IF t = "point" THEN "done" ELSE "close"
    BY <1>6 DEF CloseStep, Closing
  <2>2. pos \in Len(file) + 1 .. Len(file) + 9
    BY <2>1 DEF ControlInv
  <2>3. pos - Len(file) \in 1 .. 9
    BY <1>1, <2>2
  <2>4. t = "point" <=> pos = Len(file) + 9
    BY <1>1, <2>1, <2>2, <2>3, CloseOrderFacts
  <2> QED
    BY <1>1, <2>1, <2>2, <2>4 DEF ControlInv, InPass2
<1>7. CASE DeadStep
    BY <1>1, <1>7 DEF DeadStep, ControlInv, InPass2
<1>8. CASE AgainStep
    BY <1>1, <1>8 DEF AgainStep, ControlInv, InPass2
<1>9. CASE IdleStep
    BY <1>1, <1>9 DEF IdleStep, ControlInv, InPass2
<1> QED
    BY <1>2, <1>3, <1>4, <1>5, <1>6, <1>7, <1>8, <1>9 DEF RowStep

\* What a move does to a tidy table.
LEMMA MovesTidy ==
    ASSUME NEW t, Tidy(t), IsTable(db[t]),
           \/ db'[t] = db[t]
           \/ \E rows : Stored(db[t], db'[t], rows)
           \/ \E rows : Sent(db[t], db'[t], rows)
           \/ Queried(db[t], db'[t])
           \/ Started(db[t], db'[t])
           \/ Ended(db[t], db'[t])
           \/ Destroyed(db[t], db'[t])
           \/ Renewed(db[t], db'[t])
    PROVE  Tidy(t)'
<1> DEFINE T == db[t]
           U == db'[t]
<1>1. T.copy \in BOOLEAN /\ T.begun \in BOOLEAN
    BY DEF IsTable
<1>2. /\ T.copy = FALSE => T.lines = {}
      /\ T.begun = FALSE => T.saved = T.live
    BY DEF Tidy
<1> SUFFICES /\ U.copy = FALSE => U.lines = {}
             /\ U.begun = FALSE => U.saved = U.live
    BY DEF Tidy
<1>3. CASE U = T
    BY <1>2, <1>3
<1>4. ASSUME NEW rows, Stored(T, U, rows)
      PROVE  (U.copy = FALSE => U.lines = {}) /\ (U.begun = FALSE => U.saved = U.live)
    BY <1>2, <1>4 DEF Stored, SameMode, Saves
<1>5. ASSUME NEW rows, Sent(T, U, rows)
      PROVE  (U.copy = FALSE => U.lines = {}) /\ (U.begun = FALSE => U.saved = U.live)
    BY <1>2, <1>5 DEF Sent, SameMode, Calm
<1>6. CASE Queried(T, U) \/ Started(T, U)
    BY <1>2, <1>6 DEF Queried, Started, Calm
<1>7. CASE Ended(T, U)
    BY <1>2, <1>7 DEF Ended, Saves
<1>8. CASE Destroyed(T, U) \/ Renewed(T, U)
    BY <1>8 DEF Destroyed, Renewed
<1> HIDE DEF T, U
<1> QED
    BY <1>3, <1>4, <1>5, <1>6, <1>7, <1>8 DEF T, U

\* Every step of a table is a move.
LEMMA StepMoves ==
    ASSUME RowStep, NEW t \in RowTables
    PROVE  \/ db'[t] = db[t]
           \/ \E rows : Stored(db[t], db'[t], rows)
           \/ \E rows : Sent(db[t], db'[t], rows)
           \/ Queried(db[t], db'[t])
           \/ Started(db[t], db'[t])
           \/ Ended(db[t], db'[t])
           \/ Destroyed(db[t], db'[t])
           \/ Renewed(db[t], db'[t])
<1>1. CASE DeleteStep
  <2>1. Removes(t, file[pos])
    BY <1>1 DEF DeleteStep
  <2> QED
    BY <2>1 DEF Removes
<1>2. CASE SwitchStep
    BY <1>2 DEF SwitchStep
<1>3. CASE SendStep
  <2>1. Sends(t, file[pos])
    BY <1>3 DEF SendStep
  <2> QED
    BY <2>1 DEF Sends
<1>4. CASE PhaseStep
  <2>1. Switches(t)
    BY <1>4 DEF PhaseStep
  <2> QED
    BY <2>1 DEF Switches, Rewritten
<1>5. ASSUME NEW u \in Tables, CloseStep(u)
      PROVE  Destroyed(db[t], db'[t]) \/ db'[t] = db[t]
    BY <1>5 DEF CloseStep
<1>6. CASE DeadStep \/ AgainStep \/ IdleStep
    BY <1>6 DEF DeadStep, AgainStep, IdleStep
<1> QED
    BY <1>1, <1>2, <1>3, <1>4, <1>5, <1>6 DEF RowStep

LEMMA RowsStep ==
    ASSUME TablesInv, RowsInv, RowStep
    PROVE  RowsInv'
<1> SUFFICES ASSUME NEW t \in RowTables PROVE Tidy(t)'
    BY DEF RowsInv
<1>1. Tidy(t) /\ IsTable(db[t])
    BY RowTablesFacts DEF RowsInv, TablesInv
<1> QED
    BY <1>1, StepMoves, MovesTidy

LEMMA BaseStep ==
    ASSUME BaseInv, [Next]_vars
    PROVE  BaseInv' /\ RowStep
<1>1. TablesInv' /\ RowStep
    BY StepTables, RowSteps DEF BaseInv
<1> QED
    BY <1>1, InputStep, ControlStep, RowsStep DEF BaseInv

LEMMA BaseInvariant == Spec => []BaseInv
<1>1. BaseInv /\ [Next]_vars => BaseInv'
    BY BaseStep
<1> QED
    BY <1>1, InitBase, PTL DEF Spec
-----------------------------------------------------------------------------
(* Tables whose rows are never rewritten. *)

LEMMA PlainTablesFacts ==
    /\ PlainTables = {"point", "untagged", "node_ways", "node_relations",
                      "way_relations", "relation_relations"}
    /\ PlainTables \subseteq RowTables
    /\ {"point", "untagged"} \cap TopologyTables = {}
BY DEF PlainTables, TopologyTables, MemberTables, RowTables, Tables

\* A row belongs to the object that wrote it.
LEMMA PlainRowsOwner ==
    ASSUME NEW t \in PlainTables, NEW c, NEW x, NEW r \in PlainRows(t, c, x)
    PROVE  /\ ~c.deleted /\ KindOf(t) = c.kind
           /\ IdIn(t, r) = c.id /\ r.run = x
<1>1. CASE c.kind = "node" /\ t \in {"point", "untagged"}
    BY <1>1 DEF PlainRows, KindOf, IdIn, MemberTables, PointRow
<1>2. CASE c.kind = "way" /\ t = "node_ways"
    BY <1>2 DEF PlainRows, KindOf, IdIn, MemberTables, NodeWayRows
<1>3. CASE c.kind = "relation" /\ t \in MemberTables
  <2>1. r \in MemberRows(c.id, c.mems, CHOOSE k \in Kinds : TableOf(k) = t, x)
    BY <1>3 DEF PlainRows, MemberTables
  <2>2. r.rel = c.id /\ r.run = x
    BY <2>1 DEF MemberRows
  <2> QED
    BY <1>3, <2>2 DEF PlainRows, KindOf, IdIn, MemberTables
<1> QED
    BY <1>1, <1>2, <1>3 DEF PlainRows

LEMMA PlainMoves ==
    ASSUME RowStep, NEW t \in PlainTables
    PROVE  \/ db'[t] = db[t]
           \/ /\ DeleteStep /\ ~IsNew(file[pos]) /\ KindOf(t) = file[pos].kind
              /\ Stored(db[t], db'[t], {r \in db[t].live : IdIn(t, r) # file[pos].id})
           \/ SendStep /\ Sent(db[t], db'[t], PlainRows(t, file[pos], run))
           \/ Queried(db[t], db'[t])
           \/ Started(db[t], db'[t])
           \/ Ended(db[t], db'[t])
           \/ Destroyed(db[t], db'[t])
           \/ Renewed(db[t], db'[t])
<1>1. t \in RowTables /\ t # "line" /\ t # "relations"
    BY PlainTablesFacts
<1>2. CASE DeleteStep
  <2>1. Removes(t, file[pos])
    BY <1>1, <1>2 DEF DeleteStep
  <2> QED
    BY <1>2, <2>1 DEF Removes
<1>3. CASE SwitchStep
    BY <1>1, <1>3 DEF SwitchStep
<1>4. CASE SendStep
  <2>1. Sends(t, file[pos])
    BY <1>1, <1>4 DEF SendStep
  <2>2. WrittenRows(t, file[pos]) = PlainRows(t, file[pos], run)
    BY <1>1 DEF WrittenRows
  <2> QED
    BY <1>4, <2>1, <2>2 DEF Sends
<1>5. CASE PhaseStep
  <2>1. Switches(t)
    BY <1>1, <1>5 DEF PhaseStep
  <2> QED
    BY <1>1, <2>1 DEF Switches, Rewritten
<1>6. ASSUME NEW u \in Tables, CloseStep(u)
      PROVE  Destroyed(db[t], db'[t]) \/ db'[t] = db[t]
    BY <1>1, <1>6 DEF CloseStep
<1>7. CASE DeadStep \/ AgainStep \/ IdleStep
    BY <1>1, <1>7 DEF DeadStep, AgainStep, IdleStep
<1> QED
    BY <1>2, <1>3, <1>4, <1>5, <1>6, <1>7 DEF RowStep

LEMMA SameInput ==
    ASSUME RowStep
    PROVE  UNCHANGED <<old, file, options>>
BY DEF RowStep, DeleteStep, SwitchStep, SendStep, PhaseStep, CloseStep, DeadStep,
       AgainStep, IdleStep
-----------------------------------------------------------------------------
(* Objects that are not in the file.                                        *)

\* A row of such an object is committed, and it is where the import put it.
BystandersInv ==
    \A t \in PlainTables :
        \A r \in Imported(old, PolygonTable)[t] \cup db[t].saved \cup db[t].live \cup db[t].lines :
            Bystander(t, r) =>
                /\ r \in Imported(old, PolygonTable)[t]
                /\ r \in db[t].saved /\ r \in db[t].live /\ r \notin db[t].lines

LEMMA BystanderIsNotInFile ==
    ASSUME NEW t \in PlainTables, NEW r
    PROVE  Bystander(t, r) <=> ~InFile(KindOf(t), IdIn(t, r))
BY PlainTablesFacts DEF Bystander, KindOf, IdIn, MemberTables

LEMMA ChangedIsNotBystander ==
    ASSUME InputInv, NEW t \in PlainTables, NEW r, NEW k \in DOMAIN file,
           file[k].kind = KindOf(t), file[k].id = IdIn(t, r)
    PROVE  ~Bystander(t, r)
BY BystanderIsNotInFile DEF InFile, Has

LEMMA BystandersStep ==
    ASSUME BaseInv, BystandersInv, RowStep
    PROVE  BystandersInv'
<1>1. UNCHANGED <<old, file, options>>
    BY SameInput
<1>2. Imported(old, PolygonTable)' = Imported(old, PolygonTable)
    BY <1>1 DEF Areas, PolygonTable
<1> SUFFICES ASSUME NEW t \in PlainTables,
                    NEW r \in Imported(old, PolygonTable)[t] \cup db'[t].saved
                              \cup db'[t].live \cup db'[t].lines,
                    Bystander(t, r)
             PROVE  /\ r \in Imported(old, PolygonTable)[t]
                    /\ r \in db'[t].saved /\ r \in db'[t].live /\ r \notin db'[t].lines
  <2>1. \A t \in PlainTables : \A r : Bystander(t, r)' <=> Bystander(t, r)
    BY <1>1 DEF Bystander, InFile
  <2> QED
    BY <1>2, <2>1 DEF BystandersInv
<1> DEFINE T == db[t]
           U == db'[t]
           I == Imported(old, PolygonTable)[t]
<1>3. r \in I \cup T.saved \cup T.live \cup T.lines =>
            r \in I /\ r \in T.saved /\ r \in T.live /\ r \notin T.lines
    BY DEF BystandersInv
<1>4. r \in I \cup U.saved \cup U.live \cup U.lines
    OBVIOUS
<1>5. T.begun \in BOOLEAN /\ T.copy \in BOOLEAN /\ InputInv
    BY PlainTablesFacts, RowTablesFacts DEF BaseInv, TablesInv, IsTable
<1>6. CASE U = T
    BY <1>3, <1>4, <1>6
<1>7. CASE /\ DeleteStep /\ KindOf(t) = file[pos].kind
           /\ Stored(T, U, {s \in T.live : IdIn(t, s) # file[pos].id})
  <2>1. pos \in DOMAIN file
    BY <1>7 DEF DeleteStep
  <2>2. IdIn(t, r) # file[pos].id
    BY <1>5, <1>7, <2>1, ChangedIsNotBystander
  <2> QED
    BY <1>3, <1>4, <1>5, <1>7, <2>2 DEF Stored, Saves
<1>8. CASE SendStep /\ Sent(T, U, PlainRows(t, file[pos], run))
  <2>1. pos \in DOMAIN file
    BY <1>8 DEF SendStep
  <2>2. r \notin PlainRows(t, file[pos], run)
    BY <1>5, <2>1, PlainRowsOwner, ChangedIsNotBystander
  <2> QED
    BY <1>3, <1>4, <1>8, <2>2 DEF Sent, Calm
<1>9. CASE Queried(T, U) \/ Started(T, U)
    BY <1>3, <1>4, <1>9 DEF Queried, Started, Calm
<1>10. CASE Ended(T, U)
    BY <1>3, <1>4, <1>5, <1>10 DEF Ended, Saves
<1>11. CASE Destroyed(T, U)
    BY <1>3, <1>4, <1>11 DEF Destroyed
<1>12. CASE Renewed(T, U)
    BY <1>3, <1>4, <1>12 DEF Renewed
<1> QED
    BY <1>6, <1>7, <1>8, <1>9, <1>10, <1>11, <1>12, PlainMoves

\* The tables of the first run.
LEMMA InitRows ==
    ASSUME Init, NEW t \in RowTables
    PROVE  /\ db[t].saved = Imported(old, PolygonTable)[t]
           /\ db[t].live = Imported(old, PolygonTable)[t]
           /\ db[t].lines = {}
<1> DEFINE saved == Imported(old, PolygonTable)
<1>1. db = Opened(saved)
    BY DEF Init
<1> HIDE DEF saved
<1>2. /\ Opened(saved)[t].saved = saved[t]
      /\ Opened(saved)[t].live = saved[t]
      /\ Opened(saved)[t].lines = {}
    BY OpenedRows
<1> QED
    BY <1>1, <1>2 DEF saved

LEMMA InitBystanders == Init => BystandersInv
<1> SUFFICES ASSUME Init, NEW t \in PlainTables
             PROVE  /\ db[t].saved = Imported(old, PolygonTable)[t]
                    /\ db[t].live = Imported(old, PolygonTable)[t]
                    /\ db[t].lines = {}
    BY DEF BystandersInv
<1> QED
    BY InitRows, PlainTablesFacts

\* The nodes, the node lists and the member lists of objects that the change
\* file does not contain stay committed and unchanged in every state: no order
\* of the file, no crash and no repetition touches them.
THEOREM BystandersStay == Spec => []BystandersUntouched
<1>1. Init => BaseInv /\ BystandersInv
    BY InitBase, InitBystanders
<1>2. (BaseInv /\ BystandersInv) /\ [Next]_vars => (BaseInv /\ BystandersInv)'
    BY BaseStep, BystandersStep
<1>3. BystandersInv => BystandersUntouched
    BY DEF BystandersInv, BystandersUntouched, PlainTables
<1> QED
    BY <1>1, <1>2, <1>3, PTL DEF Spec
-----------------------------------------------------------------------------
(* COPY that libpq has ended.  In a sorted file every query comes at a time *)
(* when the table that is asked is not in COPY, but for node_ways at the    *)
(* end of a file that has ways and no relations.                            *)

LEMMA SortedFacts ==
    ASSUME InputInv, SortedFile, NEW j \in DOMAIN file, NEW k \in DOMAIN file, j < k
    PROVE  /\ file[k].kind = "node" => file[j].kind = "node"
           /\ file[k].kind = "way" => file[j].kind # "relation"
<1>1. file[j] \in Changes /\ file[k] \in Changes
    BY FileFacts
<1>2. Rank(file[j].kind) <= Rank(file[k].kind)
    BY DEF SortedFile
<1>3. /\ file[j].kind \in {"node", "way", "relation"}
      /\ file[k].kind \in {"node", "way", "relation"}
    BY <1>1, ChangeFacts
<1> QED
    BY <1>2, <1>3 DEF Rank

\* Which phase an object comes in.
LEMMA SortedProgress ==
    ASSUME InputInv, ControlInv, SortedFile, pc = "pass2", pos \in DOMAIN file,
           progress \in {"POINT", "WAY", "RELATION"}
    PROVE  /\ file[pos].kind = "node" => progress = "POINT"
           /\ file[pos].kind = "way" => progress # "RELATION"
<1>1. DOMAIN file = 1 .. Len(file) /\ Len(file) \in Nat
    BY FileFacts
<1>2. CASE progress = "WAY"
  <2>1. PICK k \in DOMAIN file : k <= pos /\ file[k].kind # "node"
    BY <1>2 DEF ControlInv, InPass2
  <2>2. k = pos \/ k < pos
    BY <1>1, <2>1
  <2> QED
    BY <1>2, <2>1, <2>2, SortedFacts
<1>3. CASE progress = "RELATION"
  <2>1. PICK k \in DOMAIN file : k <= pos /\ file[k].kind = "relation"
    BY <1>3 DEF ControlInv, InPass2
  <2>2. k = pos \/ k < pos
    BY <1>1, <2>1
  <2> QED
    BY <1>3, <2>1, <2>2, SortedFacts
<1> QED
    BY <1>2, <1>3

LEMMA AskedOutsideCopy ==
    ASSUME BaseInv, SortedFile, SendStep, NEW t \in RowTables, Asked(t, file[pos])
    PROVE  db[t].copy # TRUE
<1>1. /\ pc = "pass2" /\ pos \in DOMAIN file /\ progress \in {"POINT", "WAY", "RELATION"}
      /\ file[pos].kind # "node" => progress # "POINT"
      /\ file[pos].kind = "relation" => progress = "RELATION"
    BY DEF SendStep, BaseInv, TablesInv
<1>2. /\ file[pos].kind = "node" => progress = "POINT"
      /\ file[pos].kind = "way" => progress = "WAY"
    BY <1>1, SortedProgress DEF BaseInv
<1>3. t \notin MayCopy
    BY <1>1, <1>2 DEF Asked, MayCopy, MemberTables
<1> QED
    BY <1>3, RowTablesFacts DEF BaseInv, TablesInv

AtTheEnd == pc \in {"rels", "incomplete", "close", "done"}
LossInv ==
    SortedFile =>
        /\ \A t \in RowTables :
                db[t].copy = TRUE /\ db[t].stream = FALSE =>
                    t = "node_ways" /\ progress = "WAY" /\ AtTheEnd
        /\ AtTheEnd /\ db["node_ways"].copy = TRUE => progress = "WAY"

LEMMA LossStep ==
    ASSUME BaseInv, LossInv, RowStep, TablesInv'
    PROVE  LossInv'
<1>1. UNCHANGED file
    BY SameInput
<1> SUFFICES ASSUME SortedFile
             PROVE  /\ \A t \in RowTables :
                            db'[t].copy = TRUE /\ db'[t].stream = FALSE =>
                                t = "node_ways" /\ progress' = "WAY" /\ AtTheEnd'
                    /\ AtTheEnd' /\ db'["node_ways"].copy = TRUE => progress' = "WAY"
  <2>1. SortedFile' <=> SortedFile
    BY <1>1 DEF SortedFile
  <2> QED
    BY <2>1 DEF LossInv
<1> DEFINE Safe(t) == db'[t].copy = TRUE /\ db'[t].stream = FALSE =>
                            t = "node_ways" /\ progress' = "WAY" /\ AtTheEnd'
           End == AtTheEnd' /\ db'["node_ways"].copy = TRUE => progress' = "WAY"
<1>2. /\ \A t \in RowTables :
            db[t].copy = TRUE /\ db[t].stream = FALSE =>
                t = "node_ways" /\ progress = "WAY" /\ AtTheEnd
      /\ AtTheEnd /\ db["node_ways"].copy = TRUE => progress = "WAY"
    BY DEF LossInv
<1>3. \A t \in RowTables : /\ db[t].copy \in BOOLEAN /\ db[t].stream \in BOOLEAN
                           /\ db[t].copy = TRUE => t \in MayCopy
    BY RowTablesFacts DEF BaseInv, TablesInv, IsTable
<1>4. "node_ways" \in RowTables
    BY RowTablesFacts
<1>5. CASE DeleteStep
  <2>1. pc = "pass1" /\ pc' = "pass1" /\ progress' = progress
    BY <1>5 DEF DeleteStep
  <2>2. ASSUME NEW t \in RowTables
        PROVE  db'[t].copy = db[t].copy
    <3>1. Removes(t, file[pos])
      BY <1>5 DEF DeleteStep
    <3> QED
      BY <3>1 DEF Removes, Stored, SameMode
  <2>3. \A t \in RowTables : db[t].copy # TRUE
    BY <2>1, <1>3 DEF MayCopy
  <2> QED
    BY <2>1, <2>2, <2>3 DEF AtTheEnd
<1>6. CASE SwitchStep
  <2>1. pc = "pass1" /\ pc' = "pass2"
    BY <1>6 DEF SwitchStep
  <2>2. \A t \in RowTables : Started(db[t], db'[t]) \/ db'[t] = db[t]
    BY <1>6 DEF SwitchStep
  <2>3. \A t \in RowTables : db[t].copy # TRUE
    BY <2>1, <1>3 DEF MayCopy
  <2> QED
    BY <2>1, <2>2, <2>3 DEF AtTheEnd, Started
<1>7. CASE SendStep
  <2>1. pc = "pass2" /\ pc' = "pass2" /\ progress' = progress
    BY <1>7 DEF SendStep
  <2>2. ASSUME NEW t \in RowTables, db'[t].copy = TRUE, db'[t].stream = FALSE
        PROVE  FALSE
    <3>1. Sends(t, file[pos])
      BY <1>7 DEF SendStep
    <3>2. db'[t] # db[t]
      BY <1>2, <2>1, <2>2 DEF AtTheEnd
    <3>3. ~Sent(db[t], db'[t], WrittenRows(t, file[pos]))
      BY <2>2 DEF Sent, SameMode
    <3>4. Queried(db[t], db'[t]) /\ Asked(t, file[pos])
      BY <3>1, <3>2, <3>3 DEF Sends
    <3>5. db[t].copy = TRUE
      BY <2>2, <3>4 DEF Queried
    <3> QED
      BY <3>4, <3>5, <1>7, AskedOutsideCopy
  <2> QED
    BY <2>1, <2>2 DEF AtTheEnd
<1>8. CASE PhaseStep
  <2>1. PhaseChange /\ pos' = pos
    BY <1>8 DEF PhaseStep
  <2>2. ~AtTheEnd' => pc' \in {"pass2", "ways"} /\ ~AtTheEnd
    BY <2>1 DEF PhaseChange, AtTheEnd
  <2>3. AtTheEnd' /\ db["node_ways"].copy = TRUE => progress' = "WAY"
    <3>1. CASE pc = "pass2" /\ pc' = "rels"
      BY <3>1, <2>1, <1>2, <1>3, <1>4 DEF MayCopy, MemberTables, PhaseChange, BaseInv, TablesInv
    <3>2. CASE ~(pc = "pass2" /\ pc' = "rels")
      BY <3>2, <2>1, <1>2 DEF PhaseChange, AtTheEnd
    <3> QED
      BY <3>1, <3>2
  <2>4. ASSUME NEW t \in RowTables
        PROVE  /\ Safe(t)
               /\ t = "node_ways" /\ AtTheEnd' /\ db'[t].copy = TRUE => db[t].copy = TRUE
    <3>1. Switches(t)
      BY <1>8 DEF PhaseStep
    <3>2. CASE db'[t] = db[t]
      <4>1. AtTheEnd => AtTheEnd' /\ progress' = progress
        BY <2>1 DEF PhaseChange, AtTheEnd
      <4> QED
        BY <4>1, <3>2, <1>2
    <3>3. CASE Started(db[t], db'[t]) /\ pc' = "pass2"
      BY <3>3 DEF Started, AtTheEnd
    <3>4. CASE Ended(db[t], db'[t])
      BY <3>4 DEF Ended
    <3>5. CASE Queried(db[t], db'[t]) /\ t = "node_ways" /\ pc \in {"rels", "incomplete"}
      <4>1. AtTheEnd'
        BY <2>1, <3>5 DEF PhaseChange, AtTheEnd
      <4> QED
        BY <4>1, <2>3, <3>5 DEF Queried
    <3>6. CASE Rewritten(t)
      <4>1. PICK rows : Stored(db[t], db'[t], rows)
        BY <3>6 DEF Rewritten
      <4>2. AtTheEnd => AtTheEnd' /\ progress' = progress
        BY <2>1 DEF PhaseChange, AtTheEnd
      <4> QED
        BY <4>1, <4>2, <1>2 DEF Stored, SameMode
    <3> QED
      BY <3>1, <3>2, <3>3, <3>4, <3>5, <3>6 DEF Switches
  <2> QED
    BY <1>4, <2>3, <2>4
<1>9. ASSUME NEW u \in Tables, CloseStep(u) PROVE (\A t \in RowTables : Safe(t)) /\ End
  <2>1. AtTheEnd /\ AtTheEnd' /\ progress' = progress
    BY <1>9 DEF CloseStep, Closing, AtTheEnd
  <2>2. \A t \in RowTables : Destroyed(db[t], db'[t]) \/ db'[t] = db[t]
    BY <1>9 DEF CloseStep
  <2> QED
    BY <2>1, <2>2, <1>2, <1>4 DEF Destroyed
<1>10. CASE DeadStep \/ AgainStep
  <2>1. \A t \in RowTables : Renewed(db[t], db'[t])
    BY <1>10 DEF DeadStep, AgainStep
  <2> QED
    BY <2>1, <1>4 DEF Renewed
<1>11. CASE IdleStep
  <2>1. pc' = pc /\ progress' = progress /\ \A t \in RowTables : db'[t] = db[t]
    BY <1>11 DEF IdleStep
  <2> QED
    BY <2>1, <1>2, <1>4 DEF AtTheEnd
<1> QED
    BY <1>5, <1>6, <1>7, <1>8, <1>9, <1>10, <1>11 DEF RowStep
-----------------------------------------------------------------------------
(* The table of the areas: its rows are rewritten, deleted by the ids of    *)
(* ways and relations alike, and come from a buffer.                        *)

Polygon == db["polygon"]

AllRows(T) == T.saved \cup T.live \cup T.lines
HasId(r) == "id" \in DOMAIN r
\* Rewriting a row.
Reshaped(s, r) == r = s \/ \E g : r = [s EXCEPT !.geom = g]

PolygonDeletes ==
    LET c == file[pos]
        Deleted == Stored(Polygon, Polygon', {r \in Polygon.live : r.id # c.id})
    IN  /\ Polygon' = Polygon \/ Deleted
        /\ c.kind = "way" /\ Areas /\ ~IsNew(c) => Deleted
PolygonSwitches ==
    \/ Polygon' = Polygon \/ Started(Polygon, Polygon') \/ Ended(Polygon, Polygon')
    \/ \E rows : /\ Stored(Polygon, Polygon', rows)
                 /\ \A r \in rows : \E s \in Polygon.live : Reshaped(s, r)
    \/ /\ pc' = "close" /\ Polygon'.copy = FALSE
       /\ \A r \in AllRows(Polygon') : r \in AllRows(Polygon) \/ HasId(r)

PolygonStep ==
    \/ DeleteStep /\ mpBuffer' = mpBuffer /\ PolygonDeletes
    \/ SwitchStep /\ mpBuffer' = mpBuffer /\ Polygon' = Polygon
    \/ SendStep /\ Polygon' = Polygon /\ \A a \in mpBuffer' : a \in mpBuffer \/ HasId(a)
    \/ PhaseStep /\ mpBuffer' = mpBuffer /\ PolygonSwitches
    \/ PhaseStep /\ mpBuffer' = {} /\ Sent(Polygon, Polygon', mpBuffer)
    \/ /\ \E t \in Tables : CloseStep(t)
       /\ mpBuffer' = mpBuffer
       /\ \/ Polygon' = Polygon
          \/ Polygon'.copy = FALSE /\ AllRows(Polygon') \subseteq AllRows(Polygon)
    \/ DeadStep /\ mpBuffer' = mpBuffer /\ Renewed(Polygon, Polygon')
    \/ AgainStep /\ mpBuffer' = {} /\ Renewed(Polygon, Polygon')
    \/ IdleStep /\ mpBuffer' = mpBuffer /\ Polygon' = Polygon

LEMMA PolygonIsTable ==
    ASSUME TablesInv
    PROVE  /\ "polygon" \in Tables /\ DOMAIN db = Tables /\ IsTable(Polygon)
           /\ Polygon.copy \in BOOLEAN /\ Polygon.stream \in BOOLEAN
BY DEF TablesInv, Tables, Polygon, IsTable

LEMMA PolygonPass1 ==
    ASSUME BaseInv, Pass1Step
    PROVE  PolygonStep
<1>1. TablesInv /\ InputInv /\ ControlInv
    BY DEF BaseInv
<1>2. CASE Node1
  <2>1. DeleteStep /\ file[pos].kind = "node" /\ mpBuffer' = mpBuffer
    BY <1>1, <1>2, Node1Rows DEF Node1, Object, Pass1Frame, areas
  <2>2. Polygon' = Polygon
    BY <1>1, <1>2, PolygonIsTable DEF Node1, NodeDeleted, Polygon
  <2> QED
    BY <2>1, <2>2 DEF PolygonStep, PolygonDeletes
<1>3. CASE Way1
  <2> DEFINE c == file[pos]
             rows == {r \in Polygon.live : ~(r.id = c.id)}
  <2>1. DeleteStep /\ mpBuffer' = mpBuffer
    BY <1>1, <1>3, Way1Rows DEF Way1, Pass1Frame, areas
  <2>2. \/ Polygon' = Polygon /\ (IsNew(c) \/ ~Areas)
        \/ Polygon' = Store(Polygon, rows)
    BY <1>1, <1>3, PolygonIsTable DEF Way1, WayDeleted, DeleteId, delete, Polygon
  <2>3. Stored(Polygon, Store(Polygon, rows), rows)
    BY <1>1, PolygonIsTable, StoreMoves
  <2>4. rows = {r \in Polygon.live : r.id # c.id}
    OBVIOUS
  <2> HIDE DEF rows
  <2> QED
    BY <2>1, <2>2, <2>3, <2>4 DEF PolygonStep, PolygonDeletes
<1>4. CASE Relation1
  <2> DEFINE c == file[pos]
             rows == {r \in Polygon.live : ~(r.id = c.id)}
  <2>1. DeleteStep /\ c.kind = "relation" /\ mpBuffer' = mpBuffer
    BY <1>1, <1>4, Relation1Rows DEF Relation1, Object, Pass1Frame, areas
  <2>2. Polygon' = Polygon \/ Polygon' = Store(Polygon, rows)
    BY <1>1, <1>4, PolygonIsTable
       DEF Relation1, RelationDeleted, DeleteId, delete, Polygon, MemberTables
  <2>3. Stored(Polygon, Store(Polygon, rows), rows)
    BY <1>1, PolygonIsTable, StoreMoves
  <2>4. rows = {r \in Polygon.live : r.id # c.id}
    OBVIOUS
  <2> HIDE DEF rows
  <2> QED
    BY <2>1, <2>2, <2>3, <2>4 DEF PolygonStep, PolygonDeletes
<1>5. CASE StartPass2
  <2>1. SwitchStep /\ mpBuffer' = mpBuffer
    BY <1>1, <1>5, StartPass2Rows DEF StartPass2, areas
  <2>2. Polygon' = Polygon
    BY <1>1, <1>5, PolygonIsTable DEF StartPass2, Polygon
  <2> QED
    BY <2>1, <2>2 DEF PolygonStep
<1> QED
    BY <1>2, <1>3, <1>4, <1>5 DEF Pass1Step

\* The steps that start and end COPY.
LEMMA PolygonModes ==
    ASSUME TablesInv, PhaseStep, mpBuffer' = mpBuffer,
           \/ Polygon' = start_copy(Polygon) /\ Polygon.copy # TRUE
           \/ Polygon' = end_copy(Polygon)
           \/ Polygon' = Polygon
    PROVE  PolygonStep
<1>1. IsTable(Polygon) /\ (Polygon.copy # TRUE => Polygon.copy = FALSE)
    BY PolygonIsTable
<1> QED
    BY <1>1, StartMoves, EndMoves DEF PolygonStep, PolygonSwitches

\* The steps that rewrite geometries.
LEMMA PolygonRewrites ==
    ASSUME TablesInv, PhaseStep, mpBuffer' = mpBuffer, NEW rows,
           Polygon' = Store(Polygon, rows),
           \A r \in rows : \E s \in Polygon.live : Reshaped(s, r)
    PROVE  PolygonStep
<1>1. Stored(Polygon, Polygon', rows)
    BY PolygonIsTable, StoreMoves
<1> QED
    BY <1>1 DEF PolygonStep, PolygonSwitches

LEMMA PolygonDies ==
    ASSUME TablesInv, NEW reason, Die(reason), pc \notin {"done", "dead"}
    PROVE  PolygonStep
<1> DEFINE rows == Polygon.saved
<1>1. Polygon' = Connect(rows)
  <2>1. "polygon" \in Tables
    BY PolygonIsTable
  <2> QED
    BY <2>1 DEF Die, Disconnect, Polygon
<1>2. /\ Connect(rows).live = rows /\ Connect(rows).saved = rows
      /\ Connect(rows).lines = {} /\ Connect(rows).copy = FALSE
    BY ConnectFields
<1>3. Renewed(Polygon, Polygon')
    BY <1>1, <1>2 DEF Renewed
<1>4. DeadStep /\ mpBuffer' = mpBuffer
    BY DieRows DEF Die, areas
<1> QED
    BY <1>3, <1>4 DEF PolygonStep

\* What the MultipolygonManager puts into its buffer are areas.
LEMMA AssembledHasId ==
    ASSUME NEW id, NEW parts, NEW a \in Assembled(id, parts)
    PROVE  HasId(a)
BY DEF Assembled, AreaRow, HasId

LEMMA BufferedHasId ==
    ASSUME NEW c, Assemble(c), NEW a \in mpBuffer'
    PROVE  a \in mpBuffer \/ HasId(a)
BY AssembledHasId DEF Assemble, NewAreas

LEMMA PolygonPass2 ==
    ASSUME BaseInv, Pass2Step
    PROVE  PolygonStep
<1>1. TablesInv /\ InputInv /\ ControlInv /\ "polygon" \in Tables
    BY PolygonIsTable DEF BaseInv
<1>2. ASSUME NEW reason, Die(reason), pc \notin {"done", "dead"}
      PROVE  PolygonStep
    BY <1>1, <1>2, PolygonDies
<1>3. CASE Node2
  <2>1. NodeTable(file[pos]) # "polygon"
    BY DEF NodeTable
  <2>2. Polygon' = Polygon
    BY <1>1, <1>3, <2>1 DEF Node2, Polygon
  <2> QED
    BY <1>1, <1>3, <2>2, Node2Rows DEF PolygonStep, Node2, areas
<1>4. CASE Node2Throws \/ WriteNewNodesThrows
    BY <1>2, <1>4 DEF Node2Throws, WriteNewNodesThrows
<1>5. CASE WriteNewNodes
  <2>1. PhaseStep /\ mpBuffer' = mpBuffer
    BY <1>1, <1>5, WriteNewNodesRows DEF WriteNewNodes, areas
  <2>2. Polygon' = start_copy(Polygon)
    BY <1>1, <1>5 DEF WriteNewNodes, Polygon
  <2>3. Polygon.copy # TRUE
    BY <1>1, <1>5 DEF WriteNewNodes, TablesInv, MayCopy, Polygon
  <2> QED
    BY <1>1, <2>1, <2>2, <2>3, PolygonModes
<1>6. CASE Way2Deleted \/ Relation2Deleted
  <2>1. SendStep /\ Polygon' = Polygon
    BY <1>1, <1>6, DeletedRows DEF Way2Deleted, Relation2Deleted, Polygon
  <2>2. \A a \in mpBuffer' : a \in mpBuffer \/ HasId(a)
    BY <1>6, BufferedHasId DEF Way2Deleted, Relation2Deleted, areas
  <2> QED
    BY <2>1, <2>2 DEF PolygonStep
<1>7. CASE Way2
  <2>1. Polygon' = Polygon
    BY <1>1, <1>7 DEF Way2, Polygon, TablesInv
  <2> QED
    BY <1>1, <1>7, <2>1, Way2Rows, BufferedHasId DEF PolygonStep, Way2
<1>8. CASE Way2Throws
    BY <1>2, <1>8 DEF Way2Throws
<1>9. CASE FlushAreas
  <2>1. mpBuffer' = {} /\ CanSendLine(Polygon) /\ Polygon' = send_line(Polygon, mpBuffer)
    BY <1>1, <1>9 DEF FlushAreas, Polygon, TablesInv
  <2> QED
    BY <1>1, <1>9, <2>1, FlushAreasRows, PolygonIsTable, SendMoves DEF PolygonStep
<1>10. CASE WriteNewWays
  <2>1. PhaseStep /\ mpBuffer' = mpBuffer
    BY <1>1, <1>10, WriteNewWaysRows DEF WriteNewWays, areas
  <2>2. Polygon' = end_copy(Polygon)
    BY <1>1, <1>10 DEF WriteNewWays, Polygon
  <2> QED
    BY <1>1, <2>1, <2>2, PolygonModes
<1>11. CASE StartRelations
  <2>1. PhaseStep /\ mpBuffer' = mpBuffer
    BY <1>1, <1>11, StartRelationsRows DEF StartRelations, areas
  <2>2. Polygon' = start_copy(Polygon)
    BY <1>1, <1>11 DEF StartRelations, Polygon
  <2>3. Polygon.copy # TRUE
    BY <1>1, <1>11 DEF StartRelations, TablesInv, MayCopy, Polygon
  <2> QED
    BY <1>1, <2>1, <2>2, <2>3, PolygonModes
<1>12. ASSUME NEW w \in Ways, UpdateWay(w) PROVE PolygonStep
  <2> DEFINE rows == {IF r.id = w THEN [r EXCEPT !.geom = {}] ELSE r : r \in Polygon.live}
  <2>1. PhaseStep /\ mpBuffer' = mpBuffer
    BY <1>1, <1>12, UpdateWayRows DEF UpdateWay, areas
  <2>2. CASE Polygon' = Polygon
    BY <1>1, <2>1, <2>2, PolygonModes
  <2>3. CASE Polygon' # Polygon
    <3>1. Polygon' = Store(Polygon, rows)
      BY <1>1, <1>12, <2>3 DEF UpdateWay, update, Polygon
    <3>2. \A r \in rows : \E s \in Polygon.live : Reshaped(s, r)
      BY DEF Reshaped
    <3> HIDE DEF rows
    <3> QED
      BY <1>1, <2>1, <3>1, <3>2, PolygonRewrites
  <2> QED
    BY <2>2, <2>3
<1>13. ASSUME NEW w \in Ways, UpdateWayThrows(w) PROVE PolygonStep
    BY <1>2, <1>13 DEF UpdateWayThrows
<1>14. CASE Relation2
  <2>1. Polygon' = Polygon
    BY <1>1, <1>14 DEF Relation2, Polygon, MemberTables
  <2> QED
    BY <1>1, <1>14, <2>1, Relation2Rows DEF PolygonStep, Relation2, areas
<1> QED
    BY <1>3, <1>4, <1>5, <1>6, <1>7, <1>8, <1>9, <1>10, <1>11, <1>12, <1>13, <1>14
       DEF Pass2Step

LEMMA EndCopyRows ==
    ASSUME NEW t, IsTable(t)
    PROVE  end_copy(t).copy = FALSE /\ AllRows(end_copy(t)) \subseteq AllRows(t)
<1> DEFINE u == end_copy(t)
<1>1. t.copy \in BOOLEAN /\ t.begun \in BOOLEAN
    BY DEF IsTable
<1>2. /\ u.copy = FALSE
      /\ t.copy = FALSE => u = t
      /\ t.copy = TRUE => u.live = t.live \cup t.lines /\ u.lines = {}
      /\ t.begun = TRUE => u.saved = t.saved
      /\ t.copy = TRUE /\ t.begun = FALSE => u.saved = t.live \cup t.lines
    BY EndCopyFields
<1> HIDE DEF u
<1>3. CASE t.copy = TRUE
    BY <1>1, <1>2, <1>3 DEF AllRows, u
<1>4. CASE t.copy = FALSE
    BY <1>2, <1>4 DEF u
<1> QED
    BY <1>1, <1>3, <1>4

LEMMA CloseRows ==
    ASSUME NEW t, IsTable(t)
    PROVE  close(t).copy = FALSE /\ AllRows(close(t)) \subseteq AllRows(t)
<1> DEFINE u == end_copy(t)
           v == close(t)
<1>1. AllRows(u) \subseteq AllRows(t) /\ t.begun \in BOOLEAN
    BY EndCopyRows DEF IsTable
<1>2. /\ v.copy = FALSE /\ v.live = u.live /\ v.lines = u.lines
      /\ t.begun = TRUE => v.saved = v.live
      /\ t.begun = FALSE => v.saved = u.saved
    BY CloseFields
<1> HIDE DEF u, v
<1>3. AllRows(v) \subseteq AllRows(u)
    BY <1>1, <1>2 DEF AllRows
<1> QED
    BY <1>1, <1>2, <1>3 DEF v

LEMMA PolygonAfter ==
    ASSUME BaseInv, AfterStep
    PROVE  PolygonStep
<1>1. /\ TablesInv /\ InputInv /\ ControlInv /\ RowsInv /\ "polygon" \in Tables
      /\ IsTable(Polygon) /\ DOMAIN db = Tables
    BY PolygonIsTable DEF BaseInv
<1>2. CASE AfterRelations
  <2>1. PhaseStep /\ mpBuffer' = mpBuffer
    BY <1>1, <1>2, AfterRelationsRows DEF AfterRelations, areas
  <2>2. Polygon' = end_copy(Polygon)
    BY <1>1, <1>2 DEF AfterRelations, Polygon
  <2> QED
    BY <1>1, <2>1, <2>2, PolygonModes
<1>3. ASSUME NEW rel \in Rels, UpdateRelation(rel) PROVE PolygonStep
  <2>1. PhaseStep /\ mpBuffer' = mpBuffer
    BY <1>1, <1>3, UpdateRelationRows DEF UpdateRelation
  <2>2. Polygon' = Polygon
    BY <1>1, <1>3 DEF UpdateRelation, Polygon
  <2> QED
    BY <1>1, <2>1, <2>2, PolygonModes
<1>4. ASSUME NEW rel \in Rels, UpdateRelationThrows(rel) PROVE PolygonStep
    BY <1>1, <1>4, PolygonDies DEF UpdateRelationThrows
<1>5. CASE FlushUpdated
  <2> DEFINE rows == {IF \E a \in updated : a.id = r.id
                      THEN [r EXCEPT !.geom = (CHOOSE a \in updated : a.id = r.id).geom]
                      ELSE r : r \in Polygon.live}
  <2>1. PhaseStep /\ mpBuffer' = mpBuffer
    BY <1>1, <1>5, FlushUpdatedRows DEF FlushUpdated
  <2>2. Polygon' = Polygon \/ Polygon' = Store(Polygon, rows)
    BY <1>1, <1>5 DEF FlushUpdated, Polygon
  <2>3. \A r \in rows : \E s \in Polygon.live : Reshaped(s, r)
    BY DEF Reshaped
  <2> HIDE DEF rows
  <2> QED
    BY <1>1, <2>1, <2>2, <2>3, PolygonModes, PolygonRewrites
<1>6. CASE IncompleteRelations
  <2> DEFINE new == UNION {Assembled(-file[k].id, {MemberPart(w) : w \in MemberWays(k)}) :
                        k \in {k \in Multipolygons : ~(MemberWays(k) \subseteq members)}}
             started == start_copy(Polygon)
             sent == send_line(started, new)
  <2>1. /\ PhaseStep /\ mpBuffer' = mpBuffer /\ pc' = "close"
    BY <1>1, <1>6, IncompleteRelationsRows DEF IncompleteRelations, areas
  <2>2. Polygon' = end_copy(sent)
    BY <1>1, <1>6 DEF IncompleteRelations, Polygon
  <2>3. \A r \in new : HasId(r)
    BY AssembledHasId
  <2> HIDE DEF new
  <2>4. /\ IsTable(started) /\ started.live = Polygon.live
        /\ started.saved = Polygon.saved /\ started.lines = {}
    BY <1>1, StartCopyFields
  <2> HIDE DEF started
  <2>5. /\ IsTable(sent) /\ sent.live = started.live
        /\ sent.saved = started.saved /\ sent.lines = started.lines \cup new
    BY <2>4, SendLineFields
  <2> HIDE DEF sent
  <2>6. Polygon'.copy = FALSE /\ AllRows(Polygon') \subseteq AllRows(sent)
    BY <2>2, <2>5, EndCopyRows
  <2>7. \A r \in AllRows(sent) : r \in AllRows(Polygon) \/ HasId(r)
    BY <2>3, <2>4, <2>5 DEF AllRows
  <2> QED
    BY <2>1, <2>6, <2>7 DEF PolygonStep, PolygonSwitches
<1>7. ASSUME NEW t \in Tables, CloseTable(t) PROVE PolygonStep
  <2>1. CloseStep(t) /\ mpBuffer' = mpBuffer
    BY <1>1, <1>7, CloseTableRows DEF CloseTable, areas
  <2>2. Polygon' = Polygon \/ Polygon' = close(Polygon)
    BY <1>1, <1>7 DEF CloseTable, Polygon
  <2> QED
    BY <1>1, <2>1, <2>2, CloseRows DEF PolygonStep
<1>8. ASSUME NEW t \in Tables, CloseThrows(t) PROVE PolygonStep
    BY <1>1, <1>8, PolygonDies DEF CloseThrows, Closing
<1> QED
    BY <1>2, <1>3, <1>4, <1>5, <1>6, <1>7, <1>8 DEF AfterStep

LEMMA PolygonAgain ==
    ASSUME Restart
    PROVE  PolygonStep
<1> DEFINE saved == [t \in Tables |-> db[t].saved]
           rows == Polygon.saved
<1>1. Opened(saved)["polygon"] = Connect(rows)
    BY DEF Opened, Tables, Polygon
<1>2. db' = Opened(saved) /\ mpBuffer' = {}
    BY DEF Restart
<1> HIDE DEF saved
<1>3. Polygon' = Connect(rows)
    BY <1>1, <1>2 DEF Polygon
<1>4. /\ Connect(rows).live = rows /\ Connect(rows).saved = rows
      /\ Connect(rows).lines = {} /\ Connect(rows).copy = FALSE
    BY ConnectFields
<1>5. Renewed(Polygon, Polygon')
    BY <1>3, <1>4 DEF Renewed
<1> QED
    BY <1>2, <1>5, RestartRows DEF PolygonStep

LEMMA PolygonSteps ==
    ASSUME BaseInv, [Next]_vars
    PROVE  PolygonStep
<1>1. CASE UNCHANGED vars
    BY <1>1 DEF vars, PolygonStep, IdleStep, Polygon
<1>2. CASE Crash
    BY <1>2, PolygonDies DEF Crash, BaseInv
<1> QED
    BY <1>1, <1>2, PolygonPass1, PolygonPass2, PolygonAfter, PolygonAgain DEF Next, Step

\* COPY into the table of the areas is never lost.
LEMMA PolygonCopyStep ==
    ASSUME BaseInv, PolygonStep, Polygon.copy = TRUE => Polygon.stream = TRUE
    PROVE  (Polygon.copy = TRUE => Polygon.stream = TRUE)'
<1> DEFINE P == Polygon
           Q == Polygon'
           Keeps == Q.copy = TRUE => Q.stream = TRUE
<1> SUFFICES Keeps
    OBVIOUS
<1>1. Q = P => Keeps
    OBVIOUS
<1>2. ASSUME NEW rows, Stored(P, Q, rows) \/ Sent(P, Q, rows) PROVE Keeps
    BY <1>2 DEF Stored, Sent, SameMode
<1>3. Started(P, Q) \/ Ended(P, Q) \/ Renewed(P, Q) => Keeps
    BY DEF Started, Ended, Renewed
<1>4. Q.copy = FALSE => Keeps
    OBVIOUS
<1> HIDE DEF P, Q, Keeps
<1> QED
    BY <1>1, <1>2, <1>3, <1>4 DEF PolygonStep, PolygonDeletes, PolygonSwitches, P, Q

\* No query ends a COPY of a sorted file but the one of node_ways, and that one
\* only if the file has ways and no relation.
THEOREM CopyIsNotLost == Spec => []NoRowsLost
<1> DEFINE PolygonCopy == Polygon.copy = TRUE => Polygon.stream = TRUE
<1>1. Init => BaseInv /\ LossInv /\ PolygonCopy
  <2> SUFFICES ASSUME Init PROVE LossInv /\ PolygonCopy
    BY InitBase
  <2>1. BaseInv /\ pc = "pass1"
    BY InitBase DEF Init
  <2>2. \A t \in Tables : db[t].copy # TRUE
    BY <2>1 DEF BaseInv, TablesInv, MayCopy
  <2> QED
    BY <2>1, <2>2, RowTablesFacts, PolygonIsTable DEF LossInv, AtTheEnd, Polygon, BaseInv
<1>2. (BaseInv /\ LossInv /\ PolygonCopy) /\ [Next]_vars =>
            (BaseInv /\ LossInv /\ PolygonCopy)'
  <2> SUFFICES ASSUME BaseInv, LossInv, PolygonCopy, [Next]_vars
               PROVE  (BaseInv /\ LossInv /\ PolygonCopy)'
    OBVIOUS
  <2>1. BaseInv' /\ RowStep
    BY BaseStep
  <2>2. LossInv'
    BY <2>1, LossStep DEF BaseInv
  <2>3. PolygonCopy'
    BY PolygonSteps, PolygonCopyStep
  <2> QED
    BY <2>1, <2>2, <2>3
<1>3. BaseInv /\ LossInv /\ PolygonCopy => NoRowsLost
  <2> SUFFICES ASSUME BaseInv, LossInv, PolygonCopy, SortedFile,
                      NEW t \in Tables, db[t].copy, ~db[t].stream
               PROVE  t = "node_ways" /\ HasWay /\ ~HasRelation
    BY DEF NoRowsLost
  <2>1. /\ db[t].copy \in BOOLEAN /\ db[t].stream \in BOOLEAN
    BY DEF BaseInv, TablesInv, IsTable
  <2>2. t \in RowTables
    BY <2>1 DEF Polygon, RowTables
  <2>3. t = "node_ways" /\ progress = "WAY" /\ AtTheEnd
    BY <2>1, <2>2 DEF LossInv
  <2>4. /\ Len(file) \in Nat /\ DOMAIN file = 1 .. Len(file) /\ pos \in Nat
        /\ \A k \in DOMAIN file : file[k].kind \in {"node", "way", "relation"}
    BY FileFacts, ChangeFacts DEF BaseInv, ControlInv
  <2>5. \A k \in DOMAIN file : k < pos
    BY <2>3, <2>4 DEF AtTheEnd, BaseInv, ControlInv
  <2>6. /\ \A k \in DOMAIN file : file[k].kind # "relation"
        /\ \E k \in DOMAIN file : file[k].kind # "node"
    BY <2>3, <2>5 DEF AtTheEnd, BaseInv, ControlInv, InPass2
  <2> QED
    BY <2>3, <2>4, <2>6 DEF HasWay, HasRelation
<1> HIDE DEF PolygonCopy
<1> QED
    BY <1>1, <1>2, <1>3, PTL DEF Spec
=============================================================================
