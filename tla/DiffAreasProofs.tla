-------------------------- MODULE DiffAreasProofs ---------------------------
(***************************************************************************)
(* The table of the areas, from the assembler's buffer to its rows: what a *)
(* complete run leaves of the areas of every way and relation, and that no *)
(* area is written but those that the file or its members ask for.         *)
(***************************************************************************)
EXTENDS DiffDuplicatesProofs
-----------------------------------------------------------------------------
(* The table of the areas.                                                  *)

\* It is not under a transaction, so that everything is committed at once, and
\* COPY into it is not lost.
AreaTable(T) ==
    /\ IsTable(T) /\ T.begun = FALSE /\ T.saved = T.live
    /\ T.copy = FALSE => T.lines = {}
    /\ T.copy = TRUE => T.stream = TRUE

LEMMA AreaTableStored ==
    ASSUME NEW T, AreaTable(T), NEW rows
    PROVE  /\ AreaTable(Store(T, rows)) /\ Store(T, rows).live = rows
           /\ Store(T, rows).lines = T.lines /\ Store(T, rows).copy = T.copy
<1> DEFINE U == Store(T, rows)
<1>1. /\ IsTable(U) /\ U.live = rows /\ U.lines = T.lines /\ U.copy = T.copy
      /\ U.stream = T.stream /\ U.begun = T.begun /\ (T.begun = FALSE => U.saved = rows)
    BY StoreFields DEF AreaTable
<1> HIDE DEF U
<1>2. AreaTable(U)
    BY <1>1 DEF AreaTable
<1> QED
    BY <1>1, <1>2 DEF U

LEMMA AreaTableSent ==
    ASSUME NEW T, AreaTable(T), CanSendLine(T), NEW rows
    PROVE  /\ AreaTable(send_line(T, rows)) /\ send_line(T, rows).live = T.live
           /\ send_line(T, rows).lines = T.lines \cup rows
           /\ send_line(T, rows).copy = T.copy
<1> DEFINE U == send_line(T, rows)
<1>1. /\ IsTable(U) /\ U.live = T.live /\ U.lines = T.lines \cup rows /\ U.copy = T.copy
      /\ U.stream = T.stream /\ U.begun = T.begun /\ U.saved = T.saved
    BY SendLineFields DEF AreaTable
<1>2. T.copy = TRUE
    BY DEF CanSendLine, AreaTable, IsTable
<1> HIDE DEF U
<1>3. AreaTable(U)
    BY <1>1, <1>2 DEF AreaTable
<1> QED
    BY <1>1, <1>3 DEF U

LEMMA AreaTableStarted ==
    ASSUME NEW T, AreaTable(T), T.copy # TRUE
    PROVE  /\ AreaTable(start_copy(T)) /\ start_copy(T).live = T.live
           /\ start_copy(T).lines = {} /\ T.lines = {} /\ CanSendLine(start_copy(T))
<1> DEFINE U == start_copy(T)
<1>1. /\ IsTable(U) /\ U.live = T.live /\ U.lines = {} /\ U.copy = TRUE
      /\ U.stream = TRUE /\ U.begun = T.begun /\ U.saved = T.saved
    BY StartCopyFields DEF AreaTable
<1>2. T.copy = FALSE
    BY DEF AreaTable, IsTable
<1> HIDE DEF U
<1>3. AreaTable(U) /\ CanSendLine(U) /\ T.lines = {}
    BY <1>1, <1>2 DEF AreaTable, CanSendLine
<1> QED
    BY <1>1, <1>3 DEF U

LEMMA AreaTableEnded ==
    ASSUME NEW T, AreaTable(T)
    PROVE  /\ AreaTable(end_copy(T)) /\ end_copy(T).live = T.live \cup T.lines
           /\ end_copy(T).lines = {} /\ end_copy(T).copy = FALSE
<1> DEFINE U == end_copy(T)
<1>1. /\ IsTable(U) /\ U.copy = FALSE /\ U.begun = T.begun
      /\ T.copy = FALSE => U = T
      /\ T.copy = TRUE => U.live = T.live \cup T.lines /\ U.lines = {}
      /\ T.copy = TRUE /\ T.begun = FALSE => U.saved = T.live \cup T.lines
    BY EndCopyFields DEF AreaTable
<1>2. T.copy \in BOOLEAN
    BY DEF AreaTable, IsTable
<1> HIDE DEF U
<1>3. CASE T.copy = TRUE
  <2>1. AreaTable(U)
    BY <1>1, <1>3 DEF AreaTable
  <2> QED
    BY <1>1, <1>3, <2>1 DEF U
<1>4. CASE T.copy = FALSE
  <2>1. U = T /\ T.lines = {}
    BY <1>1, <1>4 DEF AreaTable
  <2> QED
    BY <1>1, <1>4, <2>1 DEF U
<1> QED
    BY <1>2, <1>3, <1>4

LEMMA AreaTableClosed ==
    ASSUME NEW T, AreaTable(T)
    PROVE  /\ AreaTable(close(T)) /\ close(T).live = T.live \cup T.lines
           /\ close(T).lines = {} /\ close(T).copy = FALSE
<1> DEFINE U == end_copy(T)
<1>1. /\ AreaTable(U) /\ U.live = T.live \cup T.lines /\ U.lines = {} /\ U.copy = FALSE
    BY AreaTableEnded
<1>2. close(T) = U
    BY <1>1 DEF close, AreaTable
<1> QED
    BY <1>1, <1>2

LEMMA AreaTableRenewed ==
    ASSUME NEW rows
    PROVE  /\ AreaTable(Connect(rows)) /\ Connect(rows).live = rows
           /\ Connect(rows).lines = {} /\ Connect(rows).copy = FALSE
BY ConnectFields DEF AreaTable

-----------------------------------------------------------------------------
(* The moves of the areas, from the manager into the table.                 *)

\* Everything that is in the table or on its way there.
Pool == Polygon.live \cup Polygon.lines \cup mpBuffer
\* The multipolygons the manager could not complete, and what becomes of them.
Completed ==
    UNION {Assembled(-file[k].id, {MemberPart(w) : w \in MemberWays(k)}) :
        k \in {k \in Multipolygons : ~(MemberWays(k) \subseteq members)}}

AreasDeleted ==
    /\ DeleteStep /\ UNCHANGED areas
    /\ Areas /\ ~IsNew(file[pos]) /\ file[pos].kind # "node"
    /\ Polygon'.live = {r \in Polygon.live : r.id # file[pos].id}
    /\ Polygon'.lines = Polygon.lines
AreasGathered == SendStep /\ (Way2 \/ Way2Deleted) /\ Polygon' = Polygon
AreasCompleted ==
    /\ PhaseStep /\ pc = "incomplete" /\ pc' = "close" /\ UNCHANGED areas
    /\ Polygon'.live = Polygon.live \cup Polygon.lines \cup Completed
    /\ Polygon'.lines = {}
AreasRewritten ==
    /\ PhaseStep
    /\ (pc = "ways" /\ pc' = "ways") \/ (pc = "rels" /\ pc' = "incomplete")
    /\ members' = members /\ mpBuffer' = mpBuffer /\ Polygon'.lines = Polygon.lines
    /\ \A r \in Polygon'.live : \E s \in Polygon.live : Reshaped(s, r)
    /\ \A s \in Polygon.live : \E r \in Polygon'.live :
            /\ Reshaped(s, r)
            /\ s.id \notin (IF pc = "ways" THEN todo ELSE {a.id : a \in updated}) => r = s
AreasRenewed ==
    /\ \/ DeadStep /\ UNCHANGED areas
       \/ AgainStep /\ members' = {} /\ mpBuffer' = {}
    /\ Polygon'.live = Polygon.live /\ Polygon'.lines = {}
AreasKept ==
    /\ ~DeadStep /\ ~AgainStep /\ members' = members
    /\ Pool' = Pool /\ Polygon.live \subseteq Polygon'.live
    /\ Areas /\ pc' = "close" => pc = "close"
    /\ DeleteStep /\ Areas => file[pos].kind # "way" \/ IsNew(file[pos])
    /\ SendStep => file[pos].kind # "way"
AreaMove ==
    \/ AreasDeleted \/ AreasGathered \/ AreasCompleted \/ AreasRewritten
    \/ AreasRenewed \/ AreasKept

TableOfAreas ==
    /\ AreaTable(Polygon)
    /\ AtTheEnd => mpBuffer = {} /\ Polygon.copy = FALSE
    /\ pc = "pass1" => mpBuffer = {} /\ members = {} /\ Polygon.copy = FALSE

\* A step in which the table keeps its state, is asked to start or to end COPY,
\* or gets what is in the buffer.
LEMMA KeepsAreas ==
    ASSUME TableOfAreas, ~DeadStep, ~AgainStep, members' = members,
           Areas /\ pc' = "close" => pc = "close",
           DeleteStep /\ Areas => file[pos].kind # "way" \/ IsNew(file[pos]),
           SendStep => file[pos].kind # "way",
           pc' = "pass1" => pc = "pass1" /\ Polygon' = Polygon,
           AtTheEnd' /\ mpBuffer # {} => AtTheEnd,
           AtTheEnd' => AtTheEnd \/ Polygon' = end_copy(Polygon),
           \/ Polygon' \in {Polygon, end_copy(Polygon), close(Polygon)} /\ mpBuffer' = mpBuffer
           \/ Polygon' = start_copy(Polygon) /\ Polygon.copy # TRUE /\ mpBuffer' = mpBuffer
                /\ ~AtTheEnd'
           \/ /\ Polygon' = send_line(Polygon, mpBuffer) /\ mpBuffer' = {}
              /\ CanSendLine(Polygon) /\ ~AtTheEnd'
    PROVE  AreaMove /\ TableOfAreas'
<1> DEFINE P == Polygon
           Q == Polygon'
           ended == end_copy(P)
           closed == close(P)
           started == start_copy(P)
           sent == send_line(P, mpBuffer)
<1>1. AreaTable(P)
    BY DEF TableOfAreas
<1>2. /\ AreaTable(ended) /\ ended.live = P.live \cup P.lines
      /\ ended.lines = {} /\ ended.copy = FALSE
    BY <1>1, AreaTableEnded
<1>3. /\ AreaTable(closed) /\ closed.live = P.live \cup P.lines
      /\ closed.lines = {} /\ closed.copy = FALSE
    BY <1>1, AreaTableClosed
<1>4. P.copy # TRUE => AreaTable(started) /\ started.live = P.live /\ started.lines = P.lines
    BY <1>1, AreaTableStarted
<1>5. CanSendLine(P) => /\ AreaTable(sent) /\ sent.live = P.live
                        /\ sent.lines = P.lines \cup mpBuffer
    BY <1>1, AreaTableSent
<1>6. /\ AtTheEnd => mpBuffer = {} /\ P.copy = FALSE
      /\ pc = "pass1" => mpBuffer = {} /\ members = {} /\ P.copy = FALSE
    BY DEF TableOfAreas
<1>7. Q \in {P, ended, closed} \/ (Q = started /\ P.copy # TRUE /\ ~AtTheEnd')
        \/ (Q = sent /\ mpBuffer' = {} /\ CanSendLine(P) /\ ~AtTheEnd')
    OBVIOUS
<1>8. mpBuffer' = mpBuffer \/ (mpBuffer' = {} /\ Q = sent /\ CanSendLine(P))
    OBVIOUS
<1>9. AtTheEnd' => AtTheEnd \/ Q = ended
    OBVIOUS
<1>10. pc' = "pass1" => pc = "pass1" /\ Q = P
    OBVIOUS
<1> HIDE DEF P, Q, ended, closed, started, sent
<1>11. /\ AreaTable(Q) /\ P.live \subseteq Q.live
       /\ Q.live \cup Q.lines \cup mpBuffer' = P.live \cup P.lines \cup mpBuffer
  <2>1. CASE Q = P /\ mpBuffer' = mpBuffer
      BY <1>1, <2>1
  <2>2. CASE (Q = ended \/ Q = closed) /\ mpBuffer' = mpBuffer
      BY <1>2, <1>3, <2>2
  <2>3. CASE Q = started /\ P.copy # TRUE /\ mpBuffer' = mpBuffer
      BY <1>4, <2>3
  <2>4. CASE Q = sent /\ mpBuffer' = {} /\ CanSendLine(P)
      BY <1>5, <2>4
  <2> QED
      BY <1>7, <1>8, <2>1, <2>2, <2>3, <2>4
<1>12. Pool' = Pool
    BY <1>11 DEF Pool, P, Q
<1>13. AreasKept
    BY <1>11, <1>12 DEF AreasKept, P, Q
<1>14. AtTheEnd' => Q.copy = FALSE
    BY <1>2, <1>3, <1>6, <1>7, <1>9
<1>15. AtTheEnd' => mpBuffer' = {}
  <2> SUFFICES ASSUME AtTheEnd' PROVE mpBuffer' = {}
    OBVIOUS
  <2>1. mpBuffer = {}
    BY <1>6
  <2> QED
    BY <1>8, <2>1
<1>16. pc' = "pass1" => mpBuffer' = {} /\ members' = {} /\ Q.copy = FALSE
  <2> SUFFICES ASSUME pc' = "pass1" PROVE mpBuffer' = {} /\ members' = {} /\ Q.copy = FALSE
    OBVIOUS
  <2> QED
    BY <1>6, <1>8, <1>10
<1>17. TableOfAreas'
    BY <1>11, <1>14, <1>15, <1>16 DEF TableOfAreas, P, Q
<1> QED
    BY <1>13, <1>17 DEF AreaMove

LEMMA AreasPass1 ==
    ASSUME BaseInv, TableOfAreas, Pass1Step
    PROVE  AreaMove /\ TableOfAreas'
<1> DEFINE c == file[pos]
           rows == {r \in Polygon.live : ~(r.id = c.id)}
<1>1. /\ TablesInv /\ InputInv /\ ControlInv /\ "polygon" \in Tables /\ DOMAIN db = Tables
      /\ AreaTable(Polygon)
    BY PolygonIsTable DEF BaseInv, TableOfAreas
<1>2. pc = "pass1" /\ ~AtTheEnd
    BY DEF Pass1Step, Node1, Way1, Relation1, StartPass2, Pass1, AtTheEnd
<1>3. CASE Node1
  <2>1. DeleteStep /\ c.kind = "node" /\ UNCHANGED areas /\ pc' = "pass1"
    BY <1>1, <1>3, Node1Rows DEF Node1, Object, Pass1Frame, DeleteStep
  <2>2. Polygon' = Polygon
    BY <1>1, <1>3 DEF Node1, NodeDeleted, Polygon
  <2> QED
    BY <1>2, <2>1, <2>2, KeepsAreas
       DEF areas, AtTheEnd, DeleteStep, DeadStep, AgainStep, SendStep
<1>4. ASSUME DeleteStep, UNCHANGED areas, c.kind # "node",
             \/ Polygon' = Polygon /\ (IsNew(c) \/ ~Areas)
             \/ Polygon' = Store(Polygon, rows) /\ Areas /\ ~IsNew(c)
      PROVE  AreaMove /\ TableOfAreas'
  <2>1. pc' = "pass1" /\ ~AtTheEnd'
    BY <1>4 DEF DeleteStep, AtTheEnd
  <2>2. CASE Polygon' = Polygon /\ (IsNew(c) \/ ~Areas)
    BY <1>2, <1>4, <2>1, <2>2, KeepsAreas
       DEF areas, DeleteStep, DeadStep, AgainStep, SendStep
  <2>3. CASE Polygon' = Store(Polygon, rows) /\ Areas /\ ~IsNew(c)
    <3>1. /\ AreaTable(Polygon') /\ Polygon'.live = rows /\ Polygon'.lines = Polygon.lines
          /\ Polygon'.copy = Polygon.copy
      BY <1>1, <2>3, AreaTableStored
    <3>2. rows = {r \in Polygon.live : r.id # c.id}
      OBVIOUS
    <3>3. AreasDeleted
      BY <1>4, <2>3, <3>1, <3>2 DEF AreasDeleted
    <3>4. TableOfAreas'
      BY <1>2, <1>4, <2>1, <3>1 DEF TableOfAreas, areas
    <3> QED
      BY <3>3, <3>4 DEF AreaMove
  <2> QED
    BY <1>4, <2>2, <2>3
<1>5. CASE Way1
  <2>1. DeleteStep /\ c.kind # "node" /\ UNCHANGED areas
    BY <1>1, <1>5, Way1Rows DEF Way1, Object, Pass1Frame
  <2>2. \/ Polygon' = Polygon /\ (IsNew(c) \/ ~Areas)
        \/ Polygon' = Store(Polygon, rows) /\ Areas /\ ~IsNew(c)
    BY <1>1, <1>5 DEF Way1, WayDeleted, DeleteId, delete, Polygon
  <2> HIDE DEF rows, c
  <2> QED
    BY <1>4, <2>1, <2>2
<1>6. CASE Relation1
  <2>1. DeleteStep /\ c.kind # "node" /\ UNCHANGED areas
    BY <1>1, <1>6, Relation1Rows DEF Relation1, Object, Pass1Frame
  <2>2. \/ Polygon' = Polygon /\ (IsNew(c) \/ ~Areas)
        \/ Polygon' = Store(Polygon, rows) /\ Areas /\ ~IsNew(c)
    BY <1>1, <1>6 DEF Relation1, RelationDeleted, DeleteId, delete, Polygon, MemberTables
  <2> HIDE DEF rows, c
  <2> QED
    BY <1>4, <2>1, <2>2
<1>7. CASE StartPass2
  <2>1. SwitchStep /\ UNCHANGED areas /\ pc' = "pass2"
    BY <1>1, <1>7, StartPass2Rows DEF StartPass2
  <2>2. Polygon' = Polygon
    BY <1>1, <1>7 DEF StartPass2, Polygon
  <2> QED
    BY <1>2, <2>1, <2>2, KeepsAreas
       DEF areas, AtTheEnd, DeleteStep, DeadStep, AgainStep, SendStep
<1> QED
    BY <1>3, <1>5, <1>6, <1>7 DEF Pass1Step

\* The end of a run, and the next one.
LEMMA AreasRenewedStep ==
    ASSUME TableOfAreas,
           \/ DeadStep /\ UNCHANGED areas
           \/ AgainStep /\ members' = {} /\ mpBuffer' = {},
           Polygon' = Connect(Polygon.saved)
    PROVE  AreaMove /\ TableOfAreas'
<1>1. /\ AreaTable(Polygon') /\ Polygon'.live = Polygon.saved
      /\ Polygon'.lines = {} /\ Polygon'.copy = FALSE
    BY AreaTableRenewed
<1>2. Polygon.saved = Polygon.live
    BY DEF TableOfAreas, AreaTable
<1>3. AreasRenewed
    BY <1>1, <1>2 DEF AreasRenewed
<1>4. (DeadStep => pc' = "dead") /\ (AgainStep => pc' = "pass1")
    BY DEF DeadStep, AgainStep
<1>5. TableOfAreas'
  <2>1. CASE DeadStep
    BY <1>1, <1>4, <2>1 DEF TableOfAreas, AtTheEnd
  <2>2. CASE AgainStep /\ members' = {} /\ mpBuffer' = {}
    BY <1>1, <1>4, <2>2 DEF TableOfAreas, AtTheEnd
  <2> QED
    BY <2>1, <2>2
<1> QED
    BY <1>3, <1>5 DEF AreaMove

LEMMA AreasDie ==
    ASSUME TablesInv, TableOfAreas, NEW reason, Die(reason), pc \notin {"done", "dead"}
    PROVE  AreaMove /\ TableOfAreas'
<1>1. DeadStep /\ UNCHANGED areas
    BY DieRows DEF Die
<1>2. Polygon' = Connect(Polygon.saved)
    BY PolygonIsTable DEF Die, Disconnect, Polygon
<1> QED
    BY <1>1, <1>2, AreasRenewedStep

LEMMA AreasAgain ==
    ASSUME TableOfAreas, Restart
    PROVE  AreaMove /\ TableOfAreas'
<1> DEFINE saved == [t \in Tables |-> db[t].saved]
<1>1. Opened(saved)["polygon"] = Connect(Polygon.saved)
    BY DEF Opened, Tables, Polygon
<1>2. db' = Opened(saved) /\ members' = {} /\ mpBuffer' = {}
    BY DEF Restart
<1> HIDE DEF saved
<1>3. Polygon' = Connect(Polygon.saved)
    BY <1>1, <1>2 DEF Polygon
<1> QED
    BY <1>2, <1>3, RestartRows, AreasRenewedStep

\* A step that rewrites geometries in the table.
LEMMA RewritesAreas ==
    ASSUME TableOfAreas, PhaseStep, members' = members, mpBuffer' = mpBuffer,
           (pc = "ways" /\ pc' = "ways") \/ (pc = "rels" /\ pc' = "incomplete"),
           NEW hit, NEW new,
           hit \subseteq (IF pc = "ways" THEN todo ELSE {a.id : a \in updated}),
           \A r \in Polygon.live : Reshaped(r, new[r]) /\ (r.id \notin hit => new[r] = r),
           Polygon' = Store(Polygon, {new[r] : r \in Polygon.live})
    PROVE  AreaMove /\ TableOfAreas'
<1> DEFINE rows == {new[r] : r \in Polygon.live}
<1>1. /\ AreaTable(Polygon') /\ Polygon'.live = rows /\ Polygon'.lines = Polygon.lines
      /\ Polygon'.copy = Polygon.copy
    BY AreaTableStored DEF TableOfAreas
<1>2. \A r \in rows : \E s \in Polygon.live : Reshaped(s, r)
    OBVIOUS
<1>3. \A s \in Polygon.live : \E r \in rows : Reshaped(s, r) /\ (s.id \notin hit => r = s)
    OBVIOUS
<1> HIDE DEF rows
<1>4. AreasRewritten
    BY <1>1, <1>2, <1>3 DEF AreasRewritten
<1>5. TableOfAreas'
    BY <1>1 DEF TableOfAreas, AtTheEnd
<1> QED
    BY <1>4, <1>5 DEF AreaMove

LEMMA AreasPass2 ==
    ASSUME BaseInv, TableOfAreas, Pass2Step
    PROVE  AreaMove /\ TableOfAreas'
<1> DEFINE Goal == AreaMove /\ TableOfAreas'
           \* The steps that KeepsAreas is about.
           Phase == PhaseStep /\ members' = members /\ pc \in {"pass2", "ways"}
                        /\ pc' \in {"pass2", "ways", "rels"}
<1>1. /\ TablesInv /\ InputInv /\ ControlInv /\ "polygon" \in Tables /\ DOMAIN db = Tables
      /\ AreaTable(Polygon)
    BY PolygonIsTable DEF BaseInv, TableOfAreas
<1>2. ASSUME NEW reason, Die(reason), pc \notin {"done", "dead"}
      PROVE  Goal
    BY <1>1, <1>2, AreasDie
<1>3. Phase => /\ ~DeadStep /\ ~AgainStep /\ ~DeleteStep /\ ~SendStep /\ ~AtTheEnd
               /\ members' = members /\ pc' # "close" /\ pc' # "pass1"
               /\ pc' # "rels" => ~AtTheEnd'
  <2>1. Phase => pos' = pos
    BY DEF PhaseStep
  <2>2. pos \in Nat
    BY <1>1 DEF ControlInv
  <2> QED
    BY <2>1, <2>2 DEF DeadStep, AgainStep, DeleteStep, SendStep, AtTheEnd
<1>4. ASSUME SendStep, UNCHANGED areas, Polygon' = Polygon, file[pos].kind # "way" PROVE Goal
  <2>1. /\ ~DeadStep /\ ~AgainStep /\ ~DeleteStep /\ members' = members
        /\ mpBuffer' = mpBuffer /\ pc' = "pass2" /\ ~AtTheEnd'
    BY <1>4 DEF SendStep, DeadStep, AgainStep, DeleteStep, areas, AtTheEnd
  <2> QED
    BY <1>4, <2>1, KeepsAreas
<1>5. ASSUME AreasGathered PROVE Goal
  <2>1. Polygon' = Polygon /\ pc' = "pass2" /\ ~AtTheEnd'
    BY <1>5 DEF AreasGathered, SendStep, AtTheEnd
  <2>2. TableOfAreas'
    BY <2>1 DEF TableOfAreas
  <2> QED
    BY <1>5, <2>2 DEF AreaMove
<1>6. Node2 => Goal
  <2> SUFFICES ASSUME Node2 PROVE Goal
    OBVIOUS
  <2>1. NodeTable(file[pos]) # "polygon" /\ file[pos].kind # "way" /\ UNCHANGED areas
    BY DEF NodeTable, Node2, Object
  <2>2. Polygon' = Polygon
    BY <1>1, <2>1 DEF Node2, Polygon
  <2> QED
    BY <1>1, <1>4, <2>1, <2>2, Node2Rows
<1>7. Node2Throws \/ WriteNewNodesThrows \/ Way2Throws => Goal
    BY <1>2 DEF Node2Throws, WriteNewNodesThrows, Way2Throws
<1>8. WriteNewNodes => Goal
  <2> SUFFICES ASSUME WriteNewNodes PROVE Goal
    OBVIOUS
  <2>1. Phase /\ mpBuffer' = mpBuffer /\ pc' = "pass2"
    BY <1>1, WriteNewNodesRows DEF WriteNewNodes, areas
  <2>2. Polygon' = start_copy(Polygon)
    BY <1>1 DEF WriteNewNodes, Polygon
  <2>3. Polygon.copy # TRUE
    BY <1>1 DEF WriteNewNodes, TablesInv, MayCopy, Polygon
  <2> HIDE DEF Phase
  <2> QED
    BY <1>3, <2>1, <2>2, <2>3, KeepsAreas
<1>9. Relation2Deleted \/ Relation2 => Goal
  <2> SUFFICES ASSUME Relation2Deleted \/ Relation2 PROVE Goal
    OBVIOUS
  <2>1. SendStep
    BY <1>1, DeletedRows, Relation2Rows
  <2>2. file[pos].kind # "way" /\ UNCHANGED areas
    BY DEF Relation2Deleted, Relation2, Object
  <2>3. Polygon' = Polygon
    BY <1>1 DEF Relation2Deleted, Relation2, MemberTables, Polygon
  <2> QED
    BY <1>4, <2>1, <2>2, <2>3
<1>10. Way2Deleted \/ Way2 => Goal
  <2> SUFFICES ASSUME Way2Deleted \/ Way2 PROVE Goal
    OBVIOUS
  <2>1. SendStep
    BY <1>1, DeletedRows, Way2Rows
  <2>2. Polygon' = Polygon
    BY <1>1 DEF Way2Deleted, Way2, Polygon
  <2> QED
    BY <1>5, <2>1, <2>2 DEF AreasGathered
<1>11. FlushAreas => Goal
  <2> SUFFICES ASSUME FlushAreas PROVE Goal
    OBVIOUS
  <2>1. Phase /\ mpBuffer' = {} /\ pc' = "pass2"
    BY <1>1, FlushAreasRows DEF FlushAreas
  <2>2. CanSendLine(Polygon) /\ Polygon' = send_line(Polygon, mpBuffer)
    BY <1>1 DEF FlushAreas, Polygon
  <2> HIDE DEF Phase
  <2> QED
    BY <1>3, <2>1, <2>2, KeepsAreas
<1>12. WriteNewWays => Goal
  <2> SUFFICES ASSUME WriteNewWays PROVE Goal
    OBVIOUS
  <2>1. Phase /\ mpBuffer' = mpBuffer /\ pc' = "ways"
    BY <1>1, WriteNewWaysRows DEF WriteNewWays, areas
  <2>2. Polygon' = end_copy(Polygon)
    BY <1>1 DEF WriteNewWays, Polygon
  <2> HIDE DEF Phase
  <2> QED
    BY <1>3, <2>1, <2>2, KeepsAreas
<1>13. StartRelations => Goal
  <2> SUFFICES ASSUME StartRelations PROVE Goal
    OBVIOUS
  <2>1. Phase /\ mpBuffer' = mpBuffer /\ pc' = "pass2"
    BY <1>1, StartRelationsRows DEF StartRelations, areas
  <2>2. Polygon' = start_copy(Polygon)
    BY <1>1 DEF StartRelations, Polygon
  <2>3. Polygon.copy # TRUE
    BY <1>1 DEF StartRelations, TablesInv, MayCopy, Polygon
  <2> HIDE DEF Phase
  <2> QED
    BY <1>3, <2>1, <2>2, <2>3, KeepsAreas
<1>14. ASSUME NEW w \in Ways, UpdateWay(w) PROVE Goal
  <2> DEFINE new == [r \in Polygon.live |-> IF r.id = w THEN [r EXCEPT !.geom = {}] ELSE r]
             rows == {IF r.id = w THEN [r EXCEPT !.geom = {}] ELSE r : r \in Polygon.live}
  <2>1. Phase /\ mpBuffer' = mpBuffer /\ pc = "ways" /\ pc' = "ways" /\ w \in todo
    BY <1>1, <1>14, UpdateWayRows DEF UpdateWay, areas, Turn
  <2>2. Polygon' = Polygon \/ Polygon' = Store(Polygon, rows)
    BY <1>1, <1>14 DEF UpdateWay, update, Polygon
  <2>3. rows = {new[r] : r \in Polygon.live}
    OBVIOUS
  <2>4. \A r \in Polygon.live : Reshaped(r, new[r]) /\ (r.id \notin {w} => new[r] = r)
    BY DEF Reshaped
  <2> HIDE DEF new, rows, Phase
  <2>5. CASE Polygon' = Polygon
    BY <1>3, <2>1, <2>5, KeepsAreas
  <2>6. CASE Polygon' = Store(Polygon, rows)
    <3>1. PhaseStep /\ members' = members
      BY <2>1 DEF Phase
    <3> QED
      BY <2>1, <2>3, <2>4, <2>6, <3>1, RewritesAreas
  <2> QED
    BY <2>2, <2>5, <2>6
<1>15. ASSUME NEW w \in Ways, UpdateWayThrows(w) PROVE Goal
    BY <1>2, <1>15 DEF UpdateWayThrows
<1> HIDE DEF Goal
<1>16. Goal
    BY <1>6, <1>7, <1>8, <1>9, <1>10, <1>11, <1>12, <1>13, <1>14, <1>15 DEF Pass2Step
<1> QED
    BY <1>16 DEF Goal

LEMMA AreasAfter ==
    ASSUME BaseInv, TableOfAreas, AfterStep
    PROVE  AreaMove /\ TableOfAreas'
<1> DEFINE Goal == AreaMove /\ TableOfAreas'
<1>1. /\ TablesInv /\ InputInv /\ ControlInv /\ RowsInv /\ "polygon" \in Tables
      /\ DOMAIN db = Tables /\ AreaTable(Polygon)
    BY PolygonIsTable DEF BaseInv, TableOfAreas
<1>2. PhaseStep => ~DeadStep /\ ~AgainStep /\ ~DeleteStep /\ ~SendStep
  <2>1. PhaseStep => pos' = pos /\ pc' \notin {"dead", "pass1"}
    BY DEF PhaseStep, PhaseChange
  <2>2. pos \in Nat
    BY <1>1 DEF ControlInv
  <2> QED
    BY <2>1, <2>2 DEF DeadStep, AgainStep, DeleteStep, SendStep
<1>3. AfterRelations => Goal
  <2> SUFFICES ASSUME AfterRelations PROVE Goal
    OBVIOUS
  <2>1. /\ PhaseStep /\ members' = members /\ mpBuffer' = mpBuffer /\ mpBuffer = {}
        /\ pc = "pass2" /\ pc' = "rels"
    BY <1>1, AfterRelationsRows DEF AfterRelations, areas
  <2>2. Polygon' = end_copy(Polygon)
    BY <1>1 DEF AfterRelations, Polygon
  <2> QED
    BY <1>2, <2>1, <2>2, KeepsAreas DEF AtTheEnd
<1>4. ASSUME NEW rel \in Rels, UpdateRelation(rel) PROVE Goal
  <2>1. /\ PhaseStep /\ members' = members /\ mpBuffer' = mpBuffer
        /\ pc = "rels" /\ pc' = "rels"
    BY <1>1, <1>4, UpdateRelationRows DEF UpdateRelation
  <2>2. Polygon' = Polygon
    BY <1>1, <1>4 DEF UpdateRelation, Polygon
  <2> QED
    BY <1>2, <2>1, <2>2, KeepsAreas DEF AtTheEnd
<1>5. ASSUME NEW rel \in Rels, UpdateRelationThrows(rel) PROVE Goal
    BY <1>1, <1>5, AreasDie DEF UpdateRelationThrows
<1>6. FlushUpdated => Goal
  <2> SUFFICES ASSUME FlushUpdated PROVE Goal
    OBVIOUS
  <2> DEFINE New1(r) == IF \E a \in updated : a.id = r.id
                        THEN [r EXCEPT !.geom = (CHOOSE a \in updated : a.id = r.id).geom]
                        ELSE r
             new == [r \in Polygon.live |-> New1(r)]
             rows == {New1(r) : r \in Polygon.live}
             hit == {a.id : a \in updated}
  <2>1. /\ PhaseStep /\ members' = members /\ mpBuffer' = mpBuffer
        /\ pc = "rels" /\ pc' = IF Areas THEN "incomplete" ELSE "close"
    BY <1>1, FlushUpdatedRows DEF FlushUpdated
  <2>2. IF Areas THEN Polygon' = Store(Polygon, rows) ELSE Polygon' = Polygon
    BY <1>1 DEF FlushUpdated, Polygon
  <2>3. rows = {new[r] : r \in Polygon.live}
    OBVIOUS
  <2>4. \A r \in Polygon.live : Reshaped(r, new[r]) /\ (r.id \notin hit => new[r] = r)
    BY DEF Reshaped
  <2> HIDE DEF new, rows
  <2>5. CASE ~Areas
    BY <1>2, <2>1, <2>2, <2>5, KeepsAreas DEF AtTheEnd
  <2>6. CASE Areas
    <3>1. pc = "rels" /\ pc' = "incomplete"
      BY <2>1, <2>6
    <3>2. hit \subseteq IF pc = "ways" THEN todo ELSE {a.id : a \in updated}
      BY <3>1
    <3> HIDE DEF hit
    <3> QED
      BY <2>1, <2>2, <2>3, <2>4, <2>6, <3>1, <3>2, RewritesAreas
  <2> QED
    BY <2>5, <2>6
<1>7. IncompleteRelations => Goal
  <2> SUFFICES ASSUME IncompleteRelations PROVE Goal
    OBVIOUS
  <2> DEFINE started == start_copy(Polygon)
             sent == send_line(started, Completed)
  <2>1. /\ PhaseStep /\ UNCHANGED areas /\ pc = "incomplete" /\ pc' = "close"
    BY <1>1, IncompleteRelationsRows DEF IncompleteRelations
  <2>2. Polygon' = end_copy(sent)
    BY <1>1 DEF IncompleteRelations, Polygon, Completed
  <2>3. Polygon.copy # TRUE
    BY <1>1, <2>1 DEF TablesInv, MayCopy, Polygon
  <2>4. /\ AreaTable(started) /\ started.live = Polygon.live
        /\ started.lines = {} /\ Polygon.lines = {} /\ CanSendLine(started)
    BY <1>1, <2>3, AreaTableStarted
  <2> HIDE DEF started
  <2>5. /\ AreaTable(sent) /\ sent.live = started.live
        /\ sent.lines = started.lines \cup Completed
    BY <2>4, AreaTableSent
  <2> HIDE DEF sent
  <2>6. /\ AreaTable(Polygon') /\ Polygon'.live = sent.live \cup sent.lines
        /\ Polygon'.lines = {} /\ Polygon'.copy = FALSE
    BY <2>2, <2>5, AreaTableEnded
  <2>7. AreasCompleted
    BY <2>1, <2>4, <2>5, <2>6 DEF AreasCompleted
  <2>8. TableOfAreas'
    BY <2>1, <2>6 DEF TableOfAreas, AtTheEnd, areas
  <2> QED
    BY <2>7, <2>8 DEF AreaMove
<1>8. ASSUME NEW t \in Tables, CloseTable(t) PROVE Goal
  <2>1. CloseStep(t) /\ members' = members /\ mpBuffer' = mpBuffer
    BY <1>1, <1>8, CloseTableRows DEF CloseTable, areas
  <2>2. Polygon' \in {Polygon, close(Polygon)}
    BY <1>1, <1>8 DEF CloseTable, Polygon
  <2>3. pc = "close" /\ pc' \in {"close", "done"}
    BY <2>1 DEF CloseStep, Closing
  <2>4. ~DeadStep /\ ~AgainStep /\ ~DeleteStep /\ ~SendStep
    BY <2>3 DEF DeadStep, AgainStep, DeleteStep, SendStep
  <2> QED
    BY <2>1, <2>2, <2>3, <2>4, KeepsAreas DEF AtTheEnd
<1>9. ASSUME NEW t \in Tables, CloseThrows(t) PROVE Goal
    BY <1>1, <1>9, AreasDie DEF CloseThrows, Closing
<1> HIDE DEF Goal
<1>10. Goal
    BY <1>3, <1>4, <1>5, <1>6, <1>7, <1>8, <1>9 DEF AfterStep
<1> QED
    BY <1>10 DEF Goal

\* Every step of the program is one of the moves.
LEMMA AreaSteps ==
    ASSUME BaseInv, TableOfAreas, [Next]_vars
    PROVE  AreaMove /\ TableOfAreas'
<1>1. CASE UNCHANGED vars
  <2>1. UNCHANGED areas /\ Polygon' = Polygon /\ UNCHANGED <<pc, pos, file, options, run>>
    BY <1>1 DEF vars, areas, Polygon
  <2>2. pos \in Nat
    BY DEF BaseInv, ControlInv
  <2>3. ~DeadStep /\ ~AgainStep /\ ~DeleteStep /\ ~SendStep
    BY <2>1, <2>2 DEF DeadStep, AgainStep, DeleteStep, SendStep
  <2> QED
    BY <2>1, <2>3, KeepsAreas DEF areas, AtTheEnd
<1>2. CASE Crash
    BY <1>2, AreasDie DEF Crash, BaseInv
<1> QED
    BY <1>1, <1>2, AreasPass1, AreasPass2, AreasAfter, AreasAgain DEF Next, Step

LEMMA InitTableOfAreas == Init => TableOfAreas
<1> SUFFICES ASSUME Init PROVE TableOfAreas
    OBVIOUS
<1> DEFINE imported == Imported(old, PolygonTable)
<1>1. Opened(imported)["polygon"] = Connect(imported["polygon"])
    BY DEF Opened, Tables
<1>2. db = Opened(imported) /\ pc = "pass1" /\ members = {} /\ mpBuffer = {}
    BY DEF Init
<1> HIDE DEF imported
<1>3. Polygon = Connect(imported["polygon"])
    BY <1>1, <1>2 DEF Polygon
<1> QED
    BY <1>2, <1>3, AreaTableRenewed DEF TableOfAreas, AtTheEnd
-----------------------------------------------------------------------------
(* Which areas there are.                                                   *)

\* Deleted ways have no tags, so that the manager, which is told of them like of
\* all others, does not take them for areas.
BareDeletions ==
    \A k \in DOMAIN file : file[k].kind = "way" /\ file[k].deleted => ~file[k].area
AreasWanted == Areas /\ ProperFile /\ Healthy /\ BareDeletions

\* An area that may be there, as AreasFollowDiff says, and one of an old way that
\* pass 1 has not come to.
RightArea(id) ==
    \/ id \in WayAreas(New)
    \/ \E rel \in RelAreas(New) : id = -rel
    \/ \E rel \in Rels : id = -rel /\ InFile("relation", rel)
LeftArea(id) ==
    \E k \in DOMAIN file :
        /\ file[k].kind = "way" /\ file[k].id = id /\ ~IsNew(file[k])
        /\ pc = "dead" \/ (pc = "pass1" /\ k >= pos)
\* The areas that the file has nothing to do with.
OtherAreas ==
    {w \in WayAreas(old) : ~InFile("way", w) /\ ~InFile("relation", w)}
    \cup {-rel : rel \in {rel \in RelAreas(old) : ~InFile("relation", rel)}}
GivesArea(c) == c.kind = "way" /\ ~c.deleted /\ c.area
\* The manager has been given all ways of a multipolygon, or it has taken the
\* rest of them from the tables.
HasParts(k) ==
    /\ MemberWays(k) # {}
    /\ MemberWays(k) \subseteq members \/ pc \in {"close", "done"}

AreaIdsInv ==
    /\ members \subseteq {file[k].id : k \in {k \in DOMAIN file : file[k].kind = "way"}}
    /\ \A r \in Pool : RightArea(r.id) \/ LeftArea(r.id)
    /\ \A id \in OtherAreas : HasRow(Polygon.live, id)
    /\ InPass2 =>
        /\ \A k \in DOMAIN file : k < pos /\ GivesArea(file[k]) => HasRow(Pool, file[k].id)
        /\ \A k \in Multipolygons : HasParts(k) => HasRow(Pool, -file[k].id)

\* What the data set after the diff says of the areas of the file.
LEMMA NewAreaData ==
    ASSUME OneVersionEach, NEW k \in DOMAIN file, ~file[k].deleted
    PROVE  /\ file[k].kind = "way" => New.way[file[k].id].area = file[k].area
           /\ file[k].kind = "relation" => New.rel[file[k].id].mp = file[k].mp
<1>1. CASE file[k].kind = "way"
  <2> DEFINE ids == {id \in DOMAIN old.way : ~InFile("way", id)} \cup Written("way")
  <2>1. New.way = [id \in ids |->
            IF InFile("way", id)
            THEN [refs |-> Change("way", id).refs, tagged |-> Change("way", id).tagged,
                  area |-> Change("way", id).area]
            ELSE old.way[id]]
    BY DEF New, After, Replace, InFile, Change, Written
  <2>2. file[k].id \in ids
    BY <1>1, ReplaceDomain
  <2>3. InFile("way", file[k].id) /\ Change("way", file[k].id) = file[k]
    BY <1>1, GetUnique DEF InFile, Has
  <2> HIDE DEF ids
  <2> QED
    BY <1>1, <2>1, <2>2, <2>3
<1>2. CASE file[k].kind = "relation"
  <2> DEFINE ids == {id \in DOMAIN old.rel : ~InFile("relation", id)} \cup Written("relation")
  <2>1. New.rel = [id \in ids |->
            IF InFile("relation", id)
            THEN [mems |-> Change("relation", id).mems, mp |-> Change("relation", id).mp]
            ELSE old.rel[id]]
    BY DEF New, After, Replace, InFile, Change, Written
  <2>2. file[k].id \in ids
    BY <1>2, ReplaceDomain
  <2>3. InFile("relation", file[k].id) /\ Change("relation", file[k].id) = file[k]
    BY <1>2, GetUnique DEF InFile, Has
  <2> HIDE DEF ids
  <2> QED
    BY <1>2, <2>1, <2>2, <2>3
<1> QED
    BY <1>1, <1>2

\* The line of a way of the data after the diff.
LEMMA NewLineIsWhole ==
    ASSUME KnownInv, ProperFile, AllNodesPassed, WholeWays(New), NEW w \in DOMAIN New.way
    PROVE  /\ Line(New.way[w].refs, Lookup) = WayLine(New, w)
           /\ Complete(WayLine(New, w)) /\ WayLine(New, w) # {}
<1>1. /\ {<<i, Lookup(New.way[w].refs[i])>> : i \in DOMAIN New.way[w].refs} = WayLine(New, w)
      /\ Complete(WayLine(New, w))
    BY LineIsWhole
<1>2. Line(New.way[w].refs, Lookup)
        = {<<i, Lookup(New.way[w].refs[i])>> : i \in DOMAIN New.way[w].refs}
    BY DEF Line
<1>3. New.way[w].refs \in Seq(Nodes) /\ Len(New.way[w].refs) >= 2
    BY NewRefs DEF KnownInv, DataInv, BaseInv, ProperFile, WholeWays
<1>4. 1 \in DOMAIN New.way[w].refs
  <2>1. DOMAIN New.way[w].refs = 1 .. Len(New.way[w].refs) /\ Len(New.way[w].refs) \in Nat
    BY <1>3
  <2> QED
    BY <1>3, <2>1
<1> QED
    BY <1>1, <1>2, <1>4

\* The manager makes an area of parts that are there.
LEMMA WholeAssembled ==
    ASSUME NEW id, NEW parts, \A part \in parts : Complete(part[2])
    PROVE  /\ HasRow(Assembled(id, parts), id)
           /\ (\A part \in parts : part[2] # {}) =>
                Assembled(id, parts) = {AreaRow(id, parts, run)}
<1> DEFINE whole == {part \in parts : part[2] # {}}
<1>1. Assembled(id, parts) = {AreaRow(id, whole, run)}
    BY DEF Assembled
<1>2. AreaRow(id, whole, run).id = id
    BY DEF AreaRow
<1>3. (\A part \in parts : part[2] # {}) => whole = parts
    OBVIOUS
<1> HIDE DEF whole
<1> QED
    BY <1>1, <1>2, <1>3 DEF HasRow

\* The ways of a multipolygon of the file are ways of the data after the diff.
LEMMA PartsAreWays ==
    ASSUME InputInv, OneVersionEach, Closed(New), NEW k \in Multipolygons
    PROVE  /\ k \in DOMAIN file /\ file[k].kind = "relation" /\ ~file[k].deleted /\ file[k].mp
           /\ file[k].id \in Rels /\ HasRelation
           /\ file[k].id \in DOMAIN New.rel /\ New.rel[file[k].id].mems = file[k].mems
           /\ MemberWays(k) \subseteq DOMAIN New.way
<1>1. k \in DOMAIN file /\ file[k].kind = "relation" /\ ~file[k].deleted /\ file[k].mp
    BY DEF Multipolygons
<1>2. file[k].id \in DOMAIN New.rel /\ New.rel[file[k].id].mems = file[k].mems
    BY <1>1, NewRels
<1>3. file[k].id \in Rels /\ HasRelation
    BY <1>1, FileFacts, ChangeFacts DEF HasRelation
<1>4. \A i \in DOMAIN file[k].mems : HasMember(New, file[k].mems[i])
    BY <1>2 DEF Closed
<1>5. MemberWays(k) \subseteq DOMAIN New.way
    BY <1>4 DEF MemberWays, MembersAt, HasMember
<1> QED
    BY <1>1, <1>2, <1>3, <1>5

\* The line the manager has of a way of the file.
LEMMA FileLineIsNew ==
    ASSUME KnownInv, ProperFile, AllNodesPassed, WholeWays(New),
           NEW w \in DOMAIN New.way, InFile("way", w)
    PROVE  FileLine(w) = WayLine(New, w) /\ Complete(WayLine(New, w)) /\ WayLine(New, w) # {}
<1> DEFINE k == CHOOSE k \in DOMAIN file : file[k].kind = "way" /\ file[k].id = w
<1>1. k \in DOMAIN file /\ file[k].kind = "way" /\ file[k].id = w
    BY DEF InFile, Has
<1>2. FileLine(w) = Line(file[k].refs, Lookup)
    BY DEF FileLine
<1> HIDE DEF k
<1>3. New.way[w].refs = file[k].refs
    BY <1>1, NewWays DEF ProperFile
<1> QED
    BY <1>2, <1>3, NewLineIsWhole

\* A way that is passed gives its own area, with the line after the diff.
LEMMA GatheredOwn ==
    ASSUME KnownInv, ProperFile, Healthy, pc = "pass2", progress # "POINT",
           Object("way"), GivesArea(file[pos]), NEW given
    PROVE  AreaRow(file[pos].id, AreaOfWay(New, file[pos].id), run) \in NewAreas(file[pos], given)
<1> DEFINE c == file[pos]
           w == c.id
           parts == {<<w, NewLine(c)>>}
<1>1. /\ BaseInv /\ InputInv /\ SortedFile /\ OneVersionEach /\ WholeWays(New)
      /\ pos \in DOMAIN file /\ c.kind = "way"
    BY FileFacts DEF KnownInv, DataInv, BaseInv, ControlInv, ProperFile, Healthy, Closed,
        WholeWays, Object
<1>2. w \in DOMAIN New.way /\ New.way[w].refs = c.refs
    BY <1>1, NewWays DEF GivesArea
<1>3. AllNodesPassed
    BY <1>1, PassedWithWays DEF InPass2
<1>4. NewLine(c) = Line(c.refs, Lookup)
    BY DEF NewLine
<1>5. NewLine(c) = WayLine(New, w) /\ Complete(WayLine(New, w)) /\ WayLine(New, w) # {}
  <2> HIDE DEF c, w
  <2> QED
    BY <1>1, <1>2, <1>3, <1>4, NewLineIsWhole
<1>6. \A part \in parts : Complete(part[2]) /\ part[2] # {}
    BY <1>5
<1>7. parts = AreaOfWay(New, w)
    BY <1>5 DEF AreaOfWay
<1> HIDE DEF parts
<1>8. Assembled(w, parts) = {AreaRow(w, parts, run)}
    BY <1>6, WholeAssembled
<1>9. Assembled(w, parts) \subseteq NewAreas(c, given)
    BY DEF NewAreas, GivesArea, parts
<1> QED
    BY <1>7, <1>8, <1>9

\* With its last way the manager has a multipolygon.
LEMMA GatheredParts ==
    ASSUME KnownInv, ProperFile, Healthy, pc = "pass2", progress # "POINT", Object("way"),
           members \subseteq {file[k].id : k \in {k \in DOMAIN file : file[k].kind = "way"}},
           NEW k \in Multipolygons, file[pos].id \in MemberWays(k),
           MemberWays(k) \subseteq members \cup {file[pos].id}
    PROVE  HasRow(NewAreas(file[pos], members), -file[k].id)
<1> DEFINE c == file[pos]
           parts == {<<w, FileLine(w)>> : w \in MemberWays(k)}
           assembled == Assembled(-file[k].id, parts)
<1>1. /\ BaseInv /\ InputInv /\ SortedFile /\ OneVersionEach /\ WholeWays(New) /\ Closed(New)
      /\ pos \in DOMAIN file /\ c.kind = "way"
    BY FileFacts DEF KnownInv, DataInv, BaseInv, ControlInv, ProperFile, Healthy, Closed,
        WholeWays, Object
<1>2. AllNodesPassed
    BY <1>1, PassedWithWays DEF InPass2
<1>3. MemberWays(k) \subseteq DOMAIN New.way
    BY <1>1, PartsAreWays
<1>4. \A w \in MemberWays(k) : InFile("way", w)
    BY <1>1 DEF InFile, Has
<1>5. \A w \in MemberWays(k) : Complete(FileLine(w))
    BY <1>1, <1>2, <1>3, <1>4, FileLineIsNew
<1>6. \A part \in parts : Complete(part[2])
    BY <1>5
<1> HIDE DEF parts
<1>7. HasRow(assembled, -file[k].id)
    BY <1>6, WholeAssembled
<1>8. assembled \subseteq NewAreas(c, members)
    BY DEF NewAreas, parts
<1> QED
    BY <1>7, <1>8 DEF HasRow

\* The ways the manager has not been given are taken from the tables.
LEMMA CompletedParts ==
    ASSUME LinesInv, ProperFile, Healthy, pc = "incomplete",
           members \subseteq {file[k].id : k \in {k \in DOMAIN file : file[k].kind = "way"}},
           NEW k \in Multipolygons, ~(MemberWays(k) \subseteq members)
    PROVE  HasRow(Completed, -file[k].id)
<1> DEFINE parts == {MemberPart(w) : w \in MemberWays(k)}
           assembled == Assembled(-file[k].id, parts)
<1>1. /\ KnownInv /\ WholeInv /\ DataInv /\ InputInv /\ SortedFile /\ OneVersionEach
      /\ WholeWays(New) /\ Closed(New)
    BY DEF LinesInv, KnownInv, DataInv, BaseInv, ProperFile, Healthy, Closed, WholeWays
<1>2. MemberWays(k) \subseteq DOMAIN New.way /\ HasRelation
    BY <1>1, PartsAreWays
<1>3. AllNodesPassed
    BY <1>1, <1>2, WayNodesClosed DEF WaysAreClosed
<1>4. ASSUME NEW w \in MemberWays(k) PROVE Complete(MemberPart(w)[2])
  <2>1. CASE w \in Held
    <3>1. InFile("way", w)
      BY <2>1 DEF Held, InFile, Has
    <3> QED
      BY <1>1, <1>2, <1>3, <2>1, <3>1, FileLineIsNew DEF MemberPart
  <2>2. CASE w \notin Held
    BY <1>1, <1>3, <2>2, StoredLineIsNew DEF MemberPart
  <2> QED
    BY <2>1, <2>2
<1>5. \A part \in parts : Complete(part[2])
    BY <1>4
<1> HIDE DEF parts
<1>6. HasRow(assembled, -file[k].id)
    BY <1>5, WholeAssembled
<1>7. assembled \subseteq Completed
    BY DEF Completed, parts
<1> QED
    BY <1>6, <1>7 DEF HasRow

\* All of them are areas that should be there, or of relations of the file.
LEMMA NewAreasAreRight ==
    ASSUME InputInv, OneVersionEach, BareDeletions,
           NEW k \in DOMAIN file, file[k].kind = "way", NEW given,
           NEW a, a \in NewAreas(file[k], given) \/ a \in Completed
    PROVE  RightArea(a.id)
<1> DEFINE c == file[k]
           own == Assembled(c.id, {<<c.id, NewLine(c)>>})
<1>1. ASSUME NEW j \in Multipolygons, NEW parts, a \in Assembled(-file[j].id, parts)
      PROVE  RightArea(a.id)
  <2>1. a.id = -file[j].id
    BY <1>1, AssembledId
  <2>2. j \in DOMAIN file /\ file[j].kind = "relation"
    BY DEF Multipolygons
  <2>3. file[j].id \in Rels /\ InFile("relation", file[j].id)
    BY <2>2, FileFacts, ChangeFacts DEF InFile, Has
  <2> QED
    BY <2>1, <2>3 DEF RightArea
<1>2. CASE a \in Completed
    BY <1>1, <1>2 DEF Completed
<1>3. CASE a \in own /\ c.area
  <2>1. a.id = c.id
    BY <1>3, AssembledId
  <2>2. ~c.deleted
    BY <1>3 DEF BareDeletions
  <2>3. c.id \in DOMAIN New.way /\ New.way[c.id].area = c.area
    BY <2>2, NewWays, NewAreaData
  <2> QED
    BY <1>3, <2>1, <2>3 DEF RightArea, WayAreas
<1>4. a \in NewAreas(c, given) =>
        \/ a \in own /\ c.area
        \/ \E j \in Multipolygons : \E parts : a \in Assembled(-file[j].id, parts)
  <2> DEFINE js == {j \in Multipolygons :
                        c.id \in MemberWays(j) /\ MemberWays(j) \subseteq given \cup {c.id}}
             Of(j) == Assembled(-file[j].id, {<<w, FileLine(w)>> : w \in MemberWays(j)})
  <2>1. NewAreas(c, given) = (IF c.area THEN own ELSE {}) \cup UNION {Of(j) : j \in js}
    BY DEF NewAreas
  <2>2. js \subseteq Multipolygons
    OBVIOUS
  <2> HIDE DEF js, own
  <2> QED
    BY <2>1, <2>2
<1> QED
    BY <1>1, <1>2, <1>3, <1>4

-----------------------------------------------------------------------------
(* Every step keeps the areas right.                                        *)

LEMMA SameAreas ==
    ASSUME RowStep
    PROVE  /\ UNCHANGED <<file, OtherAreas, Multipolygons>>
           /\ \A id : RightArea(id)' <=> RightArea(id)
           /\ \A k : MemberWays(k)' = MemberWays(k)
           /\ AreasWanted' <=> AreasWanted
<1>1. /\ UNCHANGED <<old, file, options, New, Areas>>
      /\ (ProperFile' <=> ProperFile) /\ (Healthy' <=> Healthy)
    BY SameGoals
<1>2. UNCHANGED <<OtherAreas, Multipolygons>> /\ \A k : MemberWays(k)' = MemberWays(k)
    BY <1>1 DEF OtherAreas, Multipolygons, MemberWays, InFile, Has
<1>3. \A id : RightArea(id)' <=> RightArea(id)
    BY <1>1 DEF RightArea, InFile, Has
<1>4. BareDeletions' <=> BareDeletions
    BY <1>1 DEF BareDeletions
<1>5. AreasWanted' <=> AreasWanted
    BY <1>1, <1>4 DEF AreasWanted
<1> QED
    BY <1>1, <1>2, <1>3, <1>5

\* The invariant after a step, of the file before it.
AreaIdsThen ==
    /\ members' \subseteq {file[k].id : k \in {k \in DOMAIN file : file[k].kind = "way"}}
    /\ \A r \in Pool' :
        \/ RightArea(r.id)
        \/ \E k \in DOMAIN file :
            /\ file[k].kind = "way" /\ file[k].id = r.id /\ ~IsNew(file[k])
            /\ pc' = "dead" \/ (pc' = "pass1" /\ k >= pos')
    /\ \A id \in OtherAreas : HasRow(Polygon'.live, id)
    /\ InPass2' =>
        /\ \A k \in DOMAIN file : k < pos' /\ GivesArea(file[k]) => HasRow(Pool', file[k].id)
        /\ \A k \in Multipolygons :
            /\ MemberWays(k) # {}
            /\ MemberWays(k) \subseteq members' \/ pc' \in {"close", "done"}
            => HasRow(Pool', -file[k].id)

LEMMA AreasDeletedKeep ==
    ASSUME BaseInv, TableOfAreas, AreaIdsInv, AreasDeleted
    PROVE  AreaIdsThen
<1> DEFINE c == file[pos]
<1>1. /\ pc = "pass1" /\ pc' = "pass1" /\ pos' = pos + 1 /\ pos \in DOMAIN file
      /\ members' = members /\ mpBuffer' = mpBuffer
      /\ c.kind # "node" /\ Polygon'.live = {r \in Polygon.live : r.id # c.id}
      /\ Polygon'.lines = Polygon.lines
    BY DEF AreasDeleted, DeleteStep, areas
<1>2. mpBuffer = {} /\ Polygon.lines = {} /\ InputInv /\ ControlInv
    BY <1>1 DEF TableOfAreas, AreaTable, BaseInv
<1>3. pos \in Nat /\ \A k \in DOMAIN file : k \in Nat
    BY <1>2 DEF ControlInv, InputInv
<1>4. Pool = Polygon.live /\ Pool' = {r \in Polygon.live : r.id # c.id}
    BY <1>1, <1>2 DEF Pool
<1>5. ~InPass2'
    BY <1>1 DEF InPass2
<1>6. ASSUME NEW r \in Pool', ~RightArea(r.id)
      PROVE  \E k \in DOMAIN file :
                file[k].kind = "way" /\ file[k].id = r.id /\ ~IsNew(file[k]) /\ k >= pos + 1
  <2>1. PICK k \in DOMAIN file :
            file[k].kind = "way" /\ file[k].id = r.id /\ ~IsNew(file[k]) /\ k >= pos
    BY <1>1, <1>4, <1>6 DEF AreaIdsInv, LeftArea
  <2>2. k # pos
    BY <1>4, <2>1
  <2>3. k >= pos + 1
    BY <1>3, <2>1, <2>2
  <2> QED
    BY <2>1, <2>3
<1>7. ASSUME NEW id \in OtherAreas PROVE id # c.id
  <2>1. c.kind \in {"way", "relation"} /\ c.id \in Nat \ {0}
    BY <1>1, <1>2, FileFacts, ChangeFacts, IdsAssumption
  <2>2. InFile("way", c.id) \/ InFile("relation", c.id)
    BY <1>1, <2>1 DEF InFile, Has
  <2>3. CASE id \in {w \in WayAreas(old) : ~InFile("way", w) /\ ~InFile("relation", w)}
    BY <2>2, <2>3
  <2>4. CASE id \in {-rel : rel \in {rel \in RelAreas(old) : ~InFile("relation", rel)}}
    <3>1. PICK rel \in RelAreas(old) : id = -rel
      BY <2>4
    <3>2. rel \in Nat \ {0}
      BY <1>2, IdsAssumption DEF RelAreas, InputInv, IsDataSet
    <3> QED
      BY <2>1, <3>1, <3>2
  <2> QED
    BY <2>3, <2>4 DEF OtherAreas
<1>8. \A id \in OtherAreas : HasRow(Polygon'.live, id)
    BY <1>1, <1>7 DEF AreaIdsInv, HasRow
<1>9. members' \subseteq {file[k].id : k \in {k \in DOMAIN file : file[k].kind = "way"}}
    BY <1>1 DEF AreaIdsInv
<1> HIDE DEF c
<1> QED
    BY <1>1, <1>5, <1>6, <1>8, <1>9 DEF AreaIdsThen

LEMMA AreasGatheredKeep ==
    ASSUME KnownInv, TableOfAreas, AreasWanted, AreaIdsInv, AreasGathered
    PROVE  AreaIdsThen
<1> DEFINE c == file[pos]
           given == {file[k].id : k \in {k \in DOMAIN file : file[k].kind = "way"}}
<1>1. /\ BaseInv /\ InputInv /\ ControlInv /\ ProperFile /\ Healthy /\ OneVersionEach
      /\ BareDeletions
    BY DEF KnownInv, DataInv, BaseInv, AreasWanted, ProperFile
<1>2. /\ pc = "pass2" /\ pc' = "pass2" /\ pos' = pos + 1 /\ pos \in DOMAIN file
      /\ Object("way") /\ c.kind = "way" /\ progress # "POINT" /\ Polygon' = Polygon
    BY DEF AreasGathered, SendStep, Way2, Way2Deleted, Object
<1>3. members' = members \cup {c.id} /\ mpBuffer' = mpBuffer \cup NewAreas(c, members)
    BY DEF AreasGathered, Way2, Way2Deleted, Assemble, AreasWanted
<1>4. Pool' = Pool \cup NewAreas(c, members)
    BY <1>2, <1>3 DEF Pool
<1>5. InPass2 /\ pos \in Nat /\ \A k \in DOMAIN file : k \in Nat
    BY <1>1, <1>2 DEF ControlInv, InputInv, InPass2
<1>6. members \subseteq given /\ members' \subseteq given
    BY <1>2, <1>3 DEF AreaIdsInv
<1>7. \A r \in Pool' : RightArea(r.id)
  <2>1. \A r \in NewAreas(c, members) : RightArea(r.id)
    BY <1>1, <1>2, NewAreasAreRight
  <2>2. \A r \in Pool : RightArea(r.id)
    BY <1>2 DEF AreaIdsInv, LeftArea
  <2> QED
    BY <1>4, <2>1, <2>2
<1>8. \A id : HasRow(Pool, id) \/ HasRow(NewAreas(c, members), id) => HasRow(Pool', id)
    BY <1>4 DEF HasRow
<1>9. ASSUME NEW k \in DOMAIN file, k < pos + 1, GivesArea(file[k])
      PROVE  HasRow(Pool', file[k].id)
  <2>1. CASE k < pos
    BY <1>5, <1>8, <1>9, <2>1 DEF AreaIdsInv
  <2>2. CASE k = pos
    <3>1. AreaRow(c.id, AreaOfWay(New, c.id), run) \in NewAreas(c, members)
      BY <1>1, <1>2, <1>9, <2>2, GatheredOwn
    <3>2. AreaRow(c.id, AreaOfWay(New, c.id), run).id = c.id
      BY DEF AreaRow
    <3> QED
      BY <1>8, <2>2, <3>1, <3>2 DEF HasRow
  <2> QED
    BY <1>5, <1>9, <2>1, <2>2
<1>10. ASSUME NEW k \in Multipolygons, MemberWays(k) # {}, MemberWays(k) \subseteq members'
       PROVE  HasRow(Pool', -file[k].id)
  <2>1. CASE c.id \in MemberWays(k)
    <3>1. HasRow(NewAreas(c, members), -file[k].id)
      BY <1>1, <1>2, <1>3, <1>6, <1>10, <2>1, GatheredParts
    <3> QED
      BY <1>8, <3>1
  <2>2. CASE c.id \notin MemberWays(k)
    <3>1. HasParts(k)
      BY <1>3, <1>10, <2>2 DEF HasParts
    <3> QED
      BY <1>5, <1>8, <3>1 DEF AreaIdsInv
  <2> QED
    BY <2>1, <2>2
<1>11. \A id \in OtherAreas : HasRow(Polygon'.live, id)
    BY <1>2 DEF AreaIdsInv
<1> HIDE DEF c
<1> QED
    BY <1>2, <1>6, <1>7, <1>9, <1>10, <1>11 DEF AreaIdsThen

LEMMA AreasCompletedKeep ==
    ASSUME LinesInv, TableOfAreas, AreasWanted, AreaIdsInv, AreasCompleted
    PROVE  AreaIdsThen
<1>1. /\ InputInv /\ ControlInv /\ ProperFile /\ Healthy /\ OneVersionEach
      /\ BareDeletions
    BY DEF LinesInv, KnownInv, DataInv, BaseInv, AreasWanted, ProperFile
<1>2. /\ pc = "incomplete" /\ pc' = "close" /\ pos' = pos
      /\ members' = members /\ mpBuffer' = mpBuffer
      /\ Polygon'.live = Polygon.live \cup Polygon.lines \cup Completed
      /\ Polygon'.lines = {}
    BY DEF AreasCompleted, PhaseStep, areas
<1>3. Pool' = Pool \cup Completed /\ InPass2
    BY <1>2 DEF Pool, InPass2
<1>4. \A r \in Pool' : RightArea(r.id)
  <2>1. ASSUME NEW r \in Completed PROVE RightArea(r.id)
    <3>1. PICK k \in Multipolygons :
            r \in Assembled(-file[k].id, {MemberPart(w) : w \in MemberWays(k)})
      BY DEF Completed
    <3>2. r.id = -file[k].id
      BY <3>1, AssembledId
    <3>3. k \in DOMAIN file /\ file[k].kind = "relation"
      BY DEF Multipolygons
    <3>4. file[k].id \in Rels /\ InFile("relation", file[k].id)
      BY <1>1, <3>3, FileFacts, ChangeFacts DEF InFile, Has
    <3> QED
      BY <3>2, <3>4 DEF RightArea
  <2>2. \A r \in Pool : RightArea(r.id)
    BY <1>2 DEF AreaIdsInv, LeftArea
  <2> QED
    BY <1>3, <2>1, <2>2
<1>5. \A id : HasRow(Pool, id) \/ HasRow(Completed, id) => HasRow(Pool', id)
    BY <1>3 DEF HasRow
<1>6. ASSUME NEW k \in Multipolygons, MemberWays(k) # {} PROVE HasRow(Pool', -file[k].id)
  <2>1. CASE MemberWays(k) \subseteq members
    BY <1>3, <1>5, <1>6, <2>1 DEF AreaIdsInv, HasParts
  <2>2. CASE ~(MemberWays(k) \subseteq members)
    <3>1. HasRow(Completed, -file[k].id)
      BY <1>1, <1>2, <2>2, CompletedParts DEF AreaIdsInv
    <3> QED
      BY <1>5, <3>1
  <2> QED
    BY <2>1, <2>2
<1>7. \A id \in OtherAreas : HasRow(Polygon'.live, id)
    BY <1>2 DEF AreaIdsInv, HasRow
<1>8. \A k \in DOMAIN file : k < pos' /\ GivesArea(file[k]) => HasRow(Pool', file[k].id)
    BY <1>2, <1>3, <1>5 DEF AreaIdsInv
<1>9. members' \subseteq {file[k].id : k \in {k \in DOMAIN file : file[k].kind = "way"}}
    BY <1>2 DEF AreaIdsInv
<1> QED
    BY <1>4, <1>6, <1>7, <1>8, <1>9 DEF AreaIdsThen

LEMMA AreasRewrittenKeep ==
    ASSUME OldAreasInv, AreaIdsInv, AreasRewritten
    PROVE  AreaIdsThen
<1>1. /\ pos' = pos /\ pc \in {"ways", "rels"} /\ pc' \in {"ways", "incomplete"}
      /\ members' = members /\ mpBuffer' = mpBuffer /\ Polygon'.lines = Polygon.lines
    BY DEF AreasRewritten, PhaseStep
<1>2. \A r \in Polygon.live : HasId(r)
    BY DEF OldAreasInv, AllRows
<1>3. ASSUME NEW r \in Polygon'.live PROVE \E s \in Polygon.live : r.id = s.id
    BY <1>2, ReshapedId DEF AreasRewritten
<1>4. ASSUME NEW s \in Polygon.live PROVE \E r \in Polygon'.live : r.id = s.id
    BY <1>2, ReshapedId DEF AreasRewritten
<1>5. \A id : HasRow(Polygon.live, id) => HasRow(Polygon'.live, id)
    BY <1>4 DEF HasRow
<1>6. \A id : HasRow(Pool, id) => HasRow(Pool', id)
    BY <1>1, <1>5 DEF HasRow, Pool
<1>7. \A r \in Pool' : \E s \in Pool : r.id = s.id
    BY <1>1, <1>3 DEF Pool
<1>8. \A r \in Pool' : RightArea(r.id)
    BY <1>1, <1>7 DEF AreaIdsInv, LeftArea
<1>9. InPass2
    BY <1>1 DEF InPass2
<1>10. \A id \in OtherAreas : HasRow(Polygon'.live, id)
    BY <1>5 DEF AreaIdsInv
<1>11. \A k \in DOMAIN file : k < pos' /\ GivesArea(file[k]) => HasRow(Pool', file[k].id)
    BY <1>1, <1>6, <1>9 DEF AreaIdsInv
<1>12. ASSUME NEW k \in Multipolygons, MemberWays(k) # {},
              MemberWays(k) \subseteq members' \/ pc' \in {"close", "done"}
       PROVE  HasRow(Pool', -file[k].id)
    BY <1>1, <1>6, <1>9, <1>12 DEF AreaIdsInv, HasParts
<1>13. members' \subseteq {file[k].id : k \in {k \in DOMAIN file : file[k].kind = "way"}}
    BY <1>1 DEF AreaIdsInv
<1> QED
    BY <1>8, <1>10, <1>11, <1>12, <1>13 DEF AreaIdsThen

LEMMA AreasRenewedKeep ==
    ASSUME BaseInv, AreaIdsInv, AreasRenewed
    PROVE  AreaIdsThen
<1>1. /\ pc' = "dead" \/ (pc' = "pass1" /\ pos' = 1 /\ pc \in {"done", "dead"})
      /\ members' = members \/ members' = {}
      /\ mpBuffer' = mpBuffer \/ mpBuffer' = {}
      /\ Polygon'.live = Polygon.live /\ Polygon'.lines = {}
    BY DEF AreasRenewed, DeadStep, AgainStep, areas
<1>2. Pool' \subseteq Pool /\ ~InPass2'
    BY <1>1 DEF Pool, InPass2
<1>3. \A k \in DOMAIN file : k >= 1
    BY DEF BaseInv, InputInv
<1>4. \A r \in Pool' :
        \/ RightArea(r.id)
        \/ \E k \in DOMAIN file :
            /\ file[k].kind = "way" /\ file[k].id = r.id /\ ~IsNew(file[k])
            /\ pc' = "dead" \/ (pc' = "pass1" /\ k >= pos')
    BY <1>1, <1>2, <1>3 DEF AreaIdsInv, LeftArea
<1>5. \A id \in OtherAreas : HasRow(Polygon'.live, id)
    BY <1>1 DEF AreaIdsInv
<1>6. members' \subseteq {file[k].id : k \in {k \in DOMAIN file : file[k].kind = "way"}}
    BY <1>1 DEF AreaIdsInv
<1> QED
    BY <1>2, <1>4, <1>5, <1>6 DEF AreaIdsThen

\* A step that keeps the areas lets nothing be said of an object of the file that
\* could not be said before.
LeftBefore ==
    \A k \in DOMAIN file :
        /\ file[k].kind = "way" /\ ~IsNew(file[k])
        /\ pc = "dead" \/ (pc = "pass1" /\ k >= pos)
        => pc' = "dead" \/ (pc' = "pass1" /\ k >= pos')
OwnBefore ==
    InPass2' => \A k \in DOMAIN file : k < pos' /\ GivesArea(file[k]) => InPass2 /\ k < pos
PartsBefore ==
    InPass2' => \A k \in Multipolygons :
        /\ MemberWays(k) # {}
        /\ MemberWays(k) \subseteq members' \/ pc' \in {"close", "done"}
        => InPass2 /\ HasParts(k)

LEMMA AreasKeptPasses ==
    ASSUME BaseInv, TableOfAreas, Areas, RowStep, AreasKept
    PROVE  LeftBefore /\ OwnBefore /\ PartsBefore
<1> USE DEF LeftBefore, OwnBefore, PartsBefore
<1>1. /\ members' = members /\ InputInv /\ ControlInv
      /\ pc' = "close" => pc = "close"
    BY DEF AreasKept, BaseInv
<1>2. pos \in Nat /\ Len(file) \in Nat /\ DOMAIN file = 1 .. Len(file)
    BY <1>1 DEF ControlInv, InputInv
<1>3. ASSUME DeleteStep PROVE LeftBefore /\ OwnBefore /\ PartsBefore
  <2>1. pc = "pass1" /\ pc' = "pass1" /\ pos' = pos + 1 /\ ~InPass2'
    BY <1>3 DEF DeleteStep, InPass2
  <2>2. file[pos].kind # "way" \/ IsNew(file[pos])
    BY <1>3 DEF AreasKept
  <2>3. LeftBefore
    <3> SUFFICES ASSUME NEW k \in DOMAIN file, file[k].kind = "way", ~IsNew(file[k]), k >= pos
                 PROVE  k >= pos + 1
      BY <2>1
    <3>1. k # pos
      BY <2>2
    <3> QED
      BY <1>2, <3>1
  <2> QED
    BY <2>1, <2>3
<1>4. ASSUME SwitchStep PROVE LeftBefore /\ OwnBefore /\ PartsBefore
  <2>1. pc = "pass1" /\ pc' = "pass2" /\ pos > Len(file) /\ pos' = 1 /\ members = {}
    BY <1>4 DEF SwitchStep, TableOfAreas
  <2>2. LeftBefore /\ OwnBefore
    BY <1>2, <2>1
  <2>3. PartsBefore
    BY <1>1, <2>1
  <2> QED
    BY <2>2, <2>3
<1>5. ASSUME SendStep PROVE LeftBefore /\ OwnBefore /\ PartsBefore
  <2>1. /\ pc = "pass2" /\ pc' = "pass2" /\ pos' = pos + 1 /\ pos \in DOMAIN file
        /\ file[pos].kind # "way"
    BY <1>5 DEF SendStep, AreasKept
  <2>2. InPass2 /\ LeftBefore
    BY <2>1 DEF InPass2
  <2>3. OwnBefore
    BY <1>2, <2>1, <2>2 DEF GivesArea
  <2>4. PartsBefore
    BY <1>1, <2>1, <2>2 DEF HasParts
  <2> QED
    BY <2>2, <2>3, <2>4
<1>6. ASSUME PhaseStep PROVE LeftBefore /\ OwnBefore /\ PartsBefore
  <2>1. pos' = pos /\ InPass2 /\ pc' \notin {"done"} /\ pc \notin {"pass1", "dead"}
    BY <1>6 DEF PhaseStep, PhaseChange, InPass2
  <2>2. LeftBefore /\ OwnBefore
    BY <2>1
  <2>3. PartsBefore
    BY <1>1, <2>1 DEF HasParts
  <2> QED
    BY <2>2, <2>3
<1>7. ASSUME NEW t \in Tables, CloseStep(t) PROVE LeftBefore /\ OwnBefore /\ PartsBefore
  <2>1. pc = "close" /\ pos' = pos + 1 /\ InPass2 /\ pos > Len(file)
    BY <1>1, <1>2, <1>7 DEF CloseStep, Closing, InPass2, ControlInv
  <2>2. LeftBefore
    BY <2>1
  <2>3. OwnBefore
    BY <1>2, <2>1
  <2>4. PartsBefore
    BY <2>1 DEF HasParts
  <2> QED
    BY <2>2, <2>3, <2>4
<1>8. ASSUME IdleStep PROVE LeftBefore /\ OwnBefore /\ PartsBefore
  <2>1. pos' = pos /\ pc' = pc /\ (InPass2' <=> InPass2)
    BY <1>8 DEF IdleStep, InPass2
  <2>2. LeftBefore /\ OwnBefore
    BY <2>1
  <2>3. PartsBefore
    BY <1>1, <2>1 DEF HasParts
  <2> QED
    BY <2>2, <2>3
<1> QED
    BY <1>3, <1>4, <1>5, <1>6, <1>7, <1>8 DEF RowStep, AreasKept

LEMMA AreasKeptKeep ==
    ASSUME BaseInv, TableOfAreas, Areas, AreaIdsInv, RowStep, AreasKept
    PROVE  AreaIdsThen
<1>1. members' = members /\ Pool' = Pool /\ Polygon.live \subseteq Polygon'.live
    BY DEF AreasKept
<1>2. LeftBefore /\ OwnBefore /\ PartsBefore
    BY AreasKeptPasses
<1>3. \A id \in OtherAreas : HasRow(Polygon'.live, id)
    BY <1>1 DEF AreaIdsInv, HasRow
<1>4. members' \subseteq {file[k].id : k \in {k \in DOMAIN file : file[k].kind = "way"}}
    BY <1>1 DEF AreaIdsInv
<1>5. \A r \in Pool' :
        \/ RightArea(r.id)
        \/ \E k \in DOMAIN file :
            /\ file[k].kind = "way" /\ file[k].id = r.id /\ ~IsNew(file[k])
            /\ pc' = "dead" \/ (pc' = "pass1" /\ k >= pos')
    BY <1>1, <1>2 DEF AreaIdsInv, LeftArea, LeftBefore
<1>6. InPass2' =>
        /\ \A k \in DOMAIN file : k < pos' /\ GivesArea(file[k]) => HasRow(Pool', file[k].id)
        /\ \A k \in Multipolygons :
            /\ MemberWays(k) # {}
            /\ MemberWays(k) \subseteq members' \/ pc' \in {"close", "done"}
            => HasRow(Pool', -file[k].id)
    BY <1>1, <1>2 DEF AreaIdsInv, OwnBefore, PartsBefore
<1> QED
    BY <1>3, <1>4, <1>5, <1>6 DEF AreaIdsThen

\* One step of the program.
LEMMA AreasThereStep ==
    ASSUME LinesInv, OldAreasInv, TableOfAreas, AreasWanted, AreaIdsInv, [Next]_vars
    PROVE  AreaIdsInv'
<1>1. KnownInv /\ BaseInv /\ Areas
    BY DEF LinesInv, KnownInv, DataInv, AreasWanted
<1>2. RowStep /\ AreaMove
    BY <1>1, BaseStep, AreaSteps
<1>3. AreaIdsThen
    BY <1>1, <1>2, AreasDeletedKeep, AreasGatheredKeep, AreasCompletedKeep, AreasRewrittenKeep,
       AreasRenewedKeep, AreasKeptKeep DEF AreaMove
<1>4. /\ UNCHANGED <<file, OtherAreas, Multipolygons>>
      /\ \A id : RightArea(id)' <=> RightArea(id)
      /\ \A k : MemberWays(k)' = MemberWays(k)
    BY <1>2, SameAreas
<1>5. \A k \in DOMAIN file : GivesArea(file[k])' <=> GivesArea(file[k])
    BY <1>4 DEF GivesArea
<1>6. \A id : LeftArea(id)' <=>
        \E k \in DOMAIN file :
            /\ file[k].kind = "way" /\ file[k].id = id /\ ~IsNew(file[k])
            /\ pc' = "dead" \/ (pc' = "pass1" /\ k >= pos')
    BY <1>4 DEF LeftArea, IsNew
<1>7. \A k : HasParts(k)' <=>
        MemberWays(k) # {} /\ (MemberWays(k) \subseteq members' \/ pc' \in {"close", "done"})
    BY <1>4 DEF HasParts
<1>8. \A id : HasRow(Polygon.live, id)' <=> HasRow(Polygon'.live, id)
    BY DEF HasRow
<1>9. \A id : HasRow(Pool, id)' <=> HasRow(Pool', id)
    BY DEF HasRow
<1> QED
    BY <1>3, <1>4, <1>5, <1>6, <1>7, <1>8, <1>9 DEF AreaIdsInv, AreaIdsThen

\* The areas that have been imported.
LEMMA ImportedAreas ==
    ASSUME NEW data
    PROVE  /\ \A r \in Imported(data, TRUE)["polygon"] :
                r.id \in WayAreas(data) \/ \E rel \in RelAreas(data) : r.id = -rel
           /\ \A w \in WayAreas(data) : HasRow(Imported(data, TRUE)["polygon"], w)
           /\ \A rel \in RelAreas(data) : HasRow(Imported(data, TRUE)["polygon"], -rel)
<1> DEFINE rows == Imported(data, TRUE)["polygon"]
<1>1. rows = {AreaRow(w, AreaOfWay(data, w), 0) : w \in WayAreas(data)}
             \cup {AreaRow(-rel, AreaOfRel(data, rel), 0) : rel \in RelAreas(data)}
    BY DEF Imported, Tables, MemberTables
<1>2. \A id, geom : AreaRow(id, geom, 0).id = id
    BY DEF AreaRow
<1> HIDE DEF rows
<1>3. \A r \in rows : r.id \in WayAreas(data) \/ \E rel \in RelAreas(data) : r.id = -rel
    BY <1>1, <1>2
<1>4. \A w \in WayAreas(data) : \E r \in rows : r.id = w
    BY <1>1, <1>2
<1>5. \A rel \in RelAreas(data) : \E r \in rows : r.id = -rel
    BY <1>1, <1>2
<1> QED
    BY <1>3, <1>4, <1>5 DEF rows, HasRow

\* Areas of objects that the file does not have are the same before and after.
LEMMA AreasOfOthers ==
    ASSUME OneVersionEach, Healthy
    PROVE  /\ \A w : ~InFile("way", w) => (w \in WayAreas(old) <=> w \in WayAreas(New))
           /\ \A rel : ~InFile("relation", rel) => (rel \in RelAreas(old) <=> rel \in RelAreas(New))
<1>1. ASSUME NEW w, ~InFile("way", w) PROVE w \in WayAreas(old) <=> w \in WayAreas(New)
  <2>1. /\ w \in DOMAIN New.way <=> w \in DOMAIN old.way
        /\ w \in DOMAIN old.way => New.way[w] = old.way[w]
    BY <1>1, NewWays
  <2> QED
    BY <2>1 DEF WayAreas
<1>2. ASSUME NEW rel, ~InFile("relation", rel)
      PROVE  rel \in RelAreas(old) <=> rel \in RelAreas(New)
  <2>1. /\ rel \in DOMAIN New.rel <=> rel \in DOMAIN old.rel
        /\ rel \in DOMAIN old.rel => New.rel[rel] = old.rel[rel]
    BY <1>2, NewRels
  <2>2. ASSUME rel \in DOMAIN old.rel
        PROVE  \A i \in DOMAIN old.rel[rel].mems :
                    HasMember(old, old.rel[rel].mems[i]) /\ HasMember(New, old.rel[rel].mems[i])
    <3>1. \A i \in DOMAIN old.rel[rel].mems : HasMember(old, old.rel[rel].mems[i])
      BY <2>2 DEF Healthy, Closed
    <3>2. rel \in DOMAIN New.rel /\ New.rel[rel] = old.rel[rel]
      BY <2>1, <2>2
    <3>3. \A i \in DOMAIN New.rel[rel].mems : HasMember(New, New.rel[rel].mems[i])
      BY <3>2 DEF Healthy, Closed
    <3> QED
      BY <3>1, <3>2, <3>3
  <2>3. \A i \in MembersAt(old.rel[rel].mems, "way") : i \in DOMAIN old.rel[rel].mems
    BY DEF MembersAt
  <2> QED
    BY <2>1, <2>2, <2>3 DEF RelAreas
<1> QED
    BY <1>1, <1>2

LEMMA InitAreaIds ==
    ASSUME Init, AreasWanted
    PROVE  AreaIdsInv
<1> DEFINE imported == Imported(old, TRUE)
           rows == imported["polygon"]
<1>1. /\ BaseInv /\ InputInv /\ OneVersionEach /\ AddedAreNew /\ Healthy
      /\ Areas = TRUE /\ PolygonTable = TRUE
  <2>1. BaseInv
    BY InitBase
  <2>2. Areas
    BY DEF AreasWanted
  <2>3. InputInv
    BY <2>1 DEF BaseInv
  <2>4. Areas = TRUE /\ PolygonTable = TRUE
    BY <2>2, <2>3 DEF Areas, PolygonTable, InputInv
  <2> QED
    BY <2>1, <2>3, <2>4 DEF AreasWanted, ProperFile
<1>2. Opened(imported)["polygon"] = Connect(rows)
    BY DEF Opened, Tables
<1>3. db = Opened(imported) /\ pc = "pass1" /\ pos = 1 /\ mpBuffer = {} /\ members = {}
    BY <1>1 DEF Init
<1>4. Polygon.live = rows /\ Polygon.lines = {}
  <2> HIDE DEF imported
  <2> QED
    BY <1>2, <1>3, ConnectFields DEF Polygon
<1>5. Pool = rows
    BY <1>3, <1>4 DEF Pool
<1>6. /\ \A r \in rows : r.id \in WayAreas(old) \/ \E rel \in RelAreas(old) : r.id = -rel
      /\ \A w \in WayAreas(old) : HasRow(rows, w)
      /\ \A rel \in RelAreas(old) : HasRow(rows, -rel)
    BY ImportedAreas
<1> HIDE DEF rows
<1>7. /\ \A w : ~InFile("way", w) => (w \in WayAreas(old) <=> w \in WayAreas(New))
      /\ \A rel : ~InFile("relation", rel) => (rel \in RelAreas(old) <=> rel \in RelAreas(New))
    BY <1>1, AreasOfOthers
<1>8. ASSUME NEW r \in rows PROVE RightArea(r.id) \/ LeftArea(r.id)
  <2>1. CASE r.id \in WayAreas(old) /\ ~InFile("way", r.id)
    BY <1>7, <2>1 DEF RightArea
  <2>2. CASE r.id \in WayAreas(old) /\ InFile("way", r.id)
    <3>1. PICK k \in DOMAIN file : file[k].kind = "way" /\ file[k].id = r.id
      BY <2>2 DEF InFile, Has
    <3>2. r.id \in OldIds("way")
      BY <2>2 DEF WayAreas, OldIds
    <3>3. ~IsNew(file[k])
      BY <1>1, <3>1, <3>2 DEF AddedAreNew
    <3>4. k >= 1
      BY <1>1 DEF InputInv
    <3> QED
      BY <1>3, <3>1, <3>3, <3>4 DEF LeftArea
  <2>3. CASE \E rel \in RelAreas(old) : r.id = -rel
    <3>1. PICK rel \in RelAreas(old) : r.id = -rel
      BY <2>3
    <3>2. rel \in Rels
      BY <1>1 DEF RelAreas, InputInv, IsDataSet
    <3> QED
      BY <1>7, <3>1, <3>2 DEF RightArea
  <2> QED
    BY <1>6, <2>1, <2>2, <2>3
<1>9. \A id \in OtherAreas : HasRow(rows, id)
    BY <1>6 DEF OtherAreas
<1>10. ~InPass2 /\ members = {}
    BY <1>3 DEF InPass2
<1> QED
    BY <1>4, <1>5, <1>8, <1>9, <1>10 DEF AreaIdsInv

AreasInv == LinesInv /\ OldAreasInv /\ TableOfAreas /\ (AreasWanted => AreaIdsInv)

LEMMA AreasInvariant == Spec => []AreasInv
<1>1. Init => OldAreasInv /\ TableOfAreas /\ (AreasWanted => AreaIdsInv)
    BY InitOldAreas, InitTableOfAreas, InitAreaIds
<1>2. /\ LinesInv /\ OldAreasInv /\ TableOfAreas /\ (AreasWanted => AreaIdsInv)
      /\ [Next]_vars
      => (OldAreasInv /\ TableOfAreas /\ (AreasWanted => AreaIdsInv))'
  <2> SUFFICES ASSUME LinesInv, OldAreasInv, TableOfAreas, AreasWanted => AreaIdsInv,
                      [Next]_vars
               PROVE  (OldAreasInv /\ TableOfAreas /\ (AreasWanted => AreaIdsInv))'
    OBVIOUS
  <2>1. BaseInv
    BY DEF LinesInv, KnownInv, DataInv
  <2>2. OldAreasInv' /\ TableOfAreas'
    BY <2>1, PolygonSteps, OldAreasStep, AreaSteps
  <2>3. AreasWanted' <=> AreasWanted
    BY <2>1, BaseStep, SameAreas
  <2>4. AreasWanted => AreaIdsInv'
    BY AreasThereStep
  <2> QED
    BY <2>2, <2>3, <2>4
<1> QED
    BY <1>1, <1>2, LinesInvariant, PTL DEF Spec, AreasInv

\* The areas follow the diff: every area has a row, unless a relation of the file
\* has the number of its way, and the rows without area are old ones of relations
\* of the file.  A deleted way must not look like an area, because the manager is
\* told of it like of any other.
THEOREM AreasFollow == Spec => [](ProperFile /\ Healthy /\ BareDeletions => AreasFollowDiff)
<1>1. AreasInv => (ProperFile /\ Healthy /\ BareDeletions => AreasFollowDiff)
  <2> SUFFICES ASSUME AreasInv, ProperFile, Healthy, BareDeletions, pc = "done", Areas
               PROVE  LET has == {r.id : r \in Polygon.saved}
                          should == {r.id : r \in Expected("polygon")}
                      IN  /\ \A id \in should \ has : InFile("relation", id)
                          /\ \A id \in has \ should : -id \in Rels /\ InFile("relation", -id)
    BY DEF AreasFollowDiff, Polygon
  <2> DEFINE has == {r.id : r \in Polygon.saved}
             rows == Expected("polygon")
             should == {r.id : r \in rows}
  <2>1. /\ AreaIdsInv /\ TableOfAreas /\ BaseInv /\ InputInv /\ ControlInv /\ OneVersionEach
        /\ Areas = TRUE /\ PolygonTable = TRUE
    <3>1. BaseInv /\ AreaIdsInv /\ TableOfAreas
      BY DEF AreasInv, AreasWanted, LinesInv, KnownInv, DataInv
    <3>2. InputInv /\ ControlInv
      BY <3>1 DEF BaseInv
    <3>3. Areas = TRUE /\ PolygonTable = TRUE
      BY <3>2 DEF Areas, PolygonTable, InputInv
    <3> QED
      BY <3>1, <3>2, <3>3 DEF ProperFile
  <2>2. mpBuffer = {} /\ Polygon.lines = {} /\ Polygon.saved = Polygon.live
    BY <2>1 DEF TableOfAreas, AreaTable, AtTheEnd
  <2>3. Pool = Polygon.saved /\ InPass2
    BY <2>2 DEF Pool, InPass2
  <2>4. \A id : HasRow(Pool, id) => id \in has
    BY <2>3 DEF HasRow
  <2>5. \A k \in DOMAIN file : k < pos
    BY <2>1 DEF ControlInv, InputInv
  <2>6. /\ \A r \in rows : r.id \in WayAreas(New) \/ \E rel \in RelAreas(New) : r.id = -rel
        /\ \A w \in WayAreas(New) : HasRow(rows, w)
        /\ \A rel \in RelAreas(New) : HasRow(rows, -rel)
    <3>1. rows = Imported(New, TRUE)["polygon"]
      BY <2>1 DEF Expected
    <3> HIDE DEF rows
    <3> QED
      BY <3>1, ImportedAreas
  <2> HIDE DEF rows
  <2>7. \A id : id \in WayAreas(New) \/ (\E rel \in RelAreas(New) : id = -rel) => id \in should
    BY <2>6 DEF HasRow
  <2>8. /\ \A w : ~InFile("way", w) => (w \in WayAreas(old) <=> w \in WayAreas(New))
        /\ \A rel : ~InFile("relation", rel) => (rel \in RelAreas(old) <=> rel \in RelAreas(New))
    BY <2>1, AreasOfOthers
  <2>9. \A id \in OtherAreas : id \in has
    BY <2>1, <2>2 DEF AreaIdsInv, HasRow
  <2>10. ASSUME NEW w \in WayAreas(New), w \notin has PROVE InFile("relation", w)
    <3>1. CASE ~InFile("way", w)
      BY <2>8, <2>9, <2>10, <3>1 DEF OtherAreas
    <3>2. CASE InFile("way", w)
      <4>1. PICK k \in DOMAIN file : file[k].kind = "way" /\ file[k].id = w
        BY <3>2 DEF InFile, Has
      <4>2. w \in DOMAIN New.way /\ New.way[w].area
        BY DEF WayAreas
      <4>3. ~file[k].deleted
        BY <2>1, <4>1, <4>2, NewWays
      <4>4. GivesArea(file[k])
        BY <2>1, <4>1, <4>2, <4>3, NewAreaData DEF GivesArea
      <4>5. w \in has
        BY <2>1, <2>3, <2>4, <2>5, <4>1, <4>4 DEF AreaIdsInv
      <4> QED
        BY <2>10, <4>5
    <3> QED
      BY <3>1, <3>2
  <2>11. ASSUME NEW rel \in RelAreas(New) PROVE -rel \in has
    <3>1. CASE ~InFile("relation", rel)
      BY <2>8, <2>9, <3>1 DEF OtherAreas
    <3>2. CASE InFile("relation", rel)
      <4>1. PICK k \in DOMAIN file : file[k].kind = "relation" /\ file[k].id = rel
        BY <3>2 DEF InFile, Has
      <4>2. /\ rel \in DOMAIN New.rel /\ New.rel[rel].mp
            /\ MembersAt(New.rel[rel].mems, "way") # {}
        BY DEF RelAreas
      <4>3. ~file[k].deleted
        BY <2>1, <4>1, <4>2, NewRels
      <4>4. file[k].mp /\ MembersAt(file[k].mems, "way") # {}
        BY <2>1, <4>1, <4>2, <4>3, NewRels, NewAreaData
      <4>5. k \in Multipolygons /\ MemberWays(k) # {}
        BY <4>1, <4>3, <4>4 DEF Multipolygons, MemberWays
      <4>6. HasParts(k)
        BY <4>5 DEF HasParts
      <4> QED
        BY <2>1, <2>3, <2>4, <4>1, <4>5, <4>6 DEF AreaIdsInv
    <3> QED
      BY <3>1, <3>2
  <2>12. \A id \in should \ has : InFile("relation", id)
    BY <2>6, <2>10, <2>11
  <2>13. ASSUME NEW id \in has, id \notin should PROVE -id \in Rels /\ InFile("relation", -id)
    <3>1. RightArea(id)
      BY <2>1, <2>3 DEF AreaIdsInv, LeftArea
    <3>2. PICK rel \in Rels : id = -rel /\ InFile("relation", rel)
      BY <2>7, <2>13, <3>1 DEF RightArea
    <3>3. -id = rel
      BY <3>2, IdsAssumption
    <3> QED
      BY <3>2, <3>3
  <2> QED
    BY <2>12, <2>13 DEF rows
<1> QED
    BY <1>1, AreasInvariant, PTL
-----------------------------------------------------------------------------
(* What the containers ask for: nothing but what the change file affects.   *)

\* Entries of the containers are affected objects, or objects of the file that are
\* still to be crossed out; what is worked on is affected.
ExactInv ==
    /\ pc \in {"pass2", "ways"} =>
        /\ \A w \in Open(pendWays) : w \in AffectedWays \/ InFile("way", w)
        /\ \A rel \in Open(pendRels) : rel \in AffectedRels \/ InFile("relation", rel)
    /\ pc \in {"pass1", "pass2", "ways"} => updated = {}
    /\ pc = "ways" => todo \subseteq Reached
    /\ pc = "rels" => todo \subseteq AffectedRels /\ \A a \in updated : a.id \in AffectedRels

\* The current area of way c of the file is there.
HasArea(c) ==
    \E by \in 1 .. MaxRuns : AreaRow(c.id, AreaOfWay(New, c.id), by) \in Pool
OwnAreasInv ==
    InPass2 =>
        \A k \in DOMAIN file :
            k < pos /\ GivesArea(file[k]) => HasArea(file[k]) \/ file[k].id \in AffectedRels

\* A row of the topology that is asked for is one of the file, or it says what
\* the data set says after the diff.
LEMMA AskedWays ==
    ASSUME DataInv, ProperFile, NEW r \in db["node_ways"].live, ~InFile("way", r.way)
    PROVE  r.way \in DOMAIN New.way /\ r.node \in RefsOf(r.way)
<1> DEFINE t == "node_ways"
<1>1. /\ InputInv /\ BystandersInv /\ OneVersionEach /\ t \in PlainTables
      /\ KindOf(t) = "way" /\ IdIn(t, r) = r.way
    BY DEF DataInv, BaseInv, ProperFile, PlainTables, TopologyTables, KindOf, IdIn
<1>2. r \in Imported(old, PolygonTable)[t]
    BY <1>1, BystanderIsNotInFile DEF BystandersInv
<1>3. r \in UNION {NodeWayRows(w, old.way[w].refs, 0) : w \in ImportedWays(old) \cup old.late}
    BY <1>2 DEF Imported, Tables, MemberTables
<1>4. PICK w \in ImportedWays(old) \cup old.late : r \in NodeWayRows(w, old.way[w].refs, 0)
    BY <1>3
<1>5. w \in DOMAIN old.way
    BY <1>1 DEF InputInv, IsDataSet, ImportedWays
<1>6. r.way = w /\ \E i \in DOMAIN old.way[w].refs : r.node = old.way[w].refs[i]
    BY <1>4 DEF NodeWayRows
<1>7. w \in DOMAIN New.way /\ New.way[w] = old.way[w]
    BY <1>1, <1>5, <1>6, NewWays
<1> QED
    BY <1>6, <1>7 DEF RefsOf

LEMMA AskedRels ==
    ASSUME DataInv, ProperFile, NEW kind \in Tellers, NEW r \in db[TableOf(kind)].live,
           ~InFile("relation", r.rel)
    PROVE  r.rel \in DOMAIN New.rel /\ r.member \in MemsOf(r.rel, kind)
<1> DEFINE t == TableOf(kind)
<1>1. t \in MemberTables /\ (CHOOSE k \in Kinds : TableOf(k) = t) = kind
    BY TableOfFacts DEF Tellers, Kinds
<1>2. InputInv /\ BystandersInv /\ OneVersionEach
    BY DEF DataInv, BaseInv, ProperFile
<1>3. t \in PlainTables /\ KindOf(t) = "relation" /\ IdIn(t, r) = r.rel
    BY <1>1 DEF PlainTables, TopologyTables, KindOf, IdIn, MemberTables
<1> HIDE DEF t
<1>4. r \in Imported(old, PolygonTable)[t]
    BY <1>2, <1>3, BystanderIsNotInFile DEF BystandersInv, t
<1>5. r \in UNION {MemberRows(rel, old.rel[rel].mems, CHOOSE k \in Kinds : TableOf(k) = t, 0) :
                    rel \in DOMAIN old.rel}
    BY <1>1, <1>4 DEF Imported, Tables, MemberTables
<1>6. PICK rel \in DOMAIN old.rel : r \in MemberRows(rel, old.rel[rel].mems, kind, 0)
    BY <1>1, <1>5
<1>7. /\ r.rel = rel
      /\ \E i \in DOMAIN old.rel[rel].mems :
            old.rel[rel].mems[i].kind = kind /\ r.member = old.rel[rel].mems[i].ref
    BY <1>6 DEF MemberRows
<1>8. rel \in DOMAIN New.rel /\ New.rel[rel] = old.rel[rel]
    BY <1>2, <1>7, NewRels
<1> QED
    BY <1>7, <1>8 DEF MemsOf, MembersAt

LEMMA PushedWaysAffected ==
    ASSUME DataInv, FiniteInv, ProperFile, NEW list \in Seq(Ways \cup {0}),
           NEW n \in Written("node"),
           \A w \in Open(list) : w \in AffectedWays \/ InFile("way", w)
    PROVE  \A w \in Open(PushWays(list, n)) : w \in AffectedWays \/ InFile("way", w)
<1> DEFINE t == "node_ways"
<1>1. IsFiniteSet(db[t].live)
  <2>1. IsFiniteSet(AllRows(db[t])) /\ db[t].live \subseteq AllRows(db[t])
    BY DEF FiniteInv, AllRows, TopologyTables
  <2> QED
    BY <2>1, FS_Subset
<1>2. Entries(PushWays(list, n)) =
        Entries(list) \cup {r.way : r \in {r \in db[t].live : r.node = n}}
    BY <1>1, ListIn, PushedWays DEF Live
<1>3. \A r \in db[t].live : r.node = n => r.way \in AffectedWays \/ InFile("way", r.way)
    BY AskedWays DEF AffectedWays
<1> QED
    BY <1>2, <1>3 DEF Open

LEMMA PushedRelsAffected ==
    ASSUME DataInv, FiniteInv, ProperFile, NEW kind \in Tellers,
           NEW list \in Seq(Rels \cup {0}), NEW m,
           m \in Written(kind) \/ (kind = "way" /\ m \in Reached),
           \A rel \in Open(list) : rel \in AffectedRels \/ InFile("relation", rel)
    PROVE  \A rel \in Open(PushRels(list, kind, m)) :
                rel \in AffectedRels \/ InFile("relation", rel)
<1> DEFINE t == TableOf(kind)
<1>1. IsFiniteSet(db[t].live)
  <2>1. t \in TopologyTables
    BY TableOfFacts DEF Tellers, Kinds, TopologyTables
  <2>2. IsFiniteSet(AllRows(db[t])) /\ db[t].live \subseteq AllRows(db[t])
    BY <2>1 DEF FiniteInv, AllRows
  <2> QED
    BY <2>2, FS_Subset
<1>2. Entries(PushRels(list, kind, m)) =
        Entries(list) \cup {r.rel : r \in {r \in db[t].live : r.member = m}}
    BY <1>1, ListIn, PushedRels DEF Live
<1>3. ASSUME NEW r \in db[t].live, r.member = m, ~InFile("relation", r.rel)
      PROVE  r.rel \in AffectedRels
  <2>1. r.rel \in DOMAIN New.rel /\ m \in MemsOf(r.rel, kind)
    BY <1>3, AskedRels
  <2> QED
    BY <1>3, <2>1 DEF AffectedRels, Tellers
<1> QED
    BY <1>2, <1>3 DEF Open

LEMMA CrossedOutAffected ==
    ASSUME NEW list, NEW idx, NEW id
    PROVE  Open(CrossOut(list, idx, id)) \subseteq Open(list)
BY DEF Open, Entries, CrossOut

\* The ids that are worked on leave out the smallest one, if no entry is there twice.
LEMMA WorkIsReached ==
    ASSUME NEW list \in Seq(Nat), InOrder(list), NEW S, Open(list) \subseteq S
    PROVE  WorkIds(list) \subseteq S \ First(S)
<1> SUFFICES ASSUME NEW id \in WorkIds(list) PROVE id \in S /\ id \notin First(S)
    OBVIOUS
<1>1. PICK k \in DOMAIN list : list[k] = id /\ list[k] > 0
            /\ \E j \in DOMAIN list \ {k} : list[j] > 0 /\ list[j] <= list[k]
    BY DEF WorkIds
<1>2. PICK j \in DOMAIN list \ {k} : list[j] > 0 /\ list[j] <= list[k]
    BY <1>1
<1>3. j \in Nat /\ k \in Nat /\ j # k /\ list[j] \in Nat /\ list[k] \in Nat
    BY <1>2
<1>4. list[j] < list[k]
    BY <1>1, <1>2, <1>3 DEF InOrder
<1>5. list[j] \in S /\ list[k] \in S
    BY <1>1, <1>2, <1>3 DEF Open, Entries
<1> QED
    BY <1>1, <1>3, <1>4, <1>5 DEF First

LEMMA ExactStep ==
    ASSUME DataInv, FiniteInv, CollectInv, CollectRelsInv, ListTypes, TwiceInv, TwiceInv',
           ProperFile, [Next]_vars, ExactInv
    PROVE  ExactInv'
<1> DEFINE W == Ways \cup {0}
           R == Rels \cup {0}
           WaysRight(list) == \A w \in Open(list) : w \in AffectedWays \/ InFile("way", w)
           RelsRight(list) ==
                \A rel \in Open(list) : rel \in AffectedRels \/ InFile("relation", rel)
<1>1. BaseInv /\ InputInv /\ ControlInv /\ TablesInv /\ RowStep /\ SortedFile
    BY BaseStep DEF DataInv, BaseInv, ProperFile
<1>2. /\ DOMAIN file = 1 .. Len(file) /\ Len(file) \in Nat /\ pos \in Nat \ {0}
      /\ UNCHANGED <<file, AffectedRels, AffectedWays>>
      /\ (HasRelation' <=> HasRelation)
    BY <1>1, FileFacts, SameRels DEF ControlInv
<1>3. UNCHANGED Reached
    BY <1>2 DEF Reached
<1>4. /\ pendWays \in Seq(W) /\ pendRels \in Seq(R)
      /\ W \in SUBSET Nat /\ R \in SUBSET Nat
    BY IdsAssumption DEF ListTypes
<1>5. pendWays \in Seq(Nat) /\ pendRels \in Seq(Nat)
    BY <1>4
<1>6. "node" \in Tellers /\ "way" \in Tellers
    BY DEF Tellers
<1>7. WaysRight(<<>>) /\ RelsRight(<<>>)
    BY DEF Open, Entries
<1> HIDE DEF W, R, WaysRight, RelsRight
<1>8. ASSUME pc' = "pass1" PROVE updated' = {}
  <2>1. CASE UNCHANGED vars
    BY <1>8, <2>1 DEF vars, ExactInv
  <2>2. CASE Node1 \/ Way1 \/ Relation1
    <3>1. UNCHANGED updated /\ pc = "pass1"
      BY <2>2 DEF Node1, Way1, Relation1, Pass1, Pass1Frame, areas
    <3> QED
      BY <3>1 DEF ExactInv
  <2>3. CASE Restart
    BY <2>3 DEF Restart
  <2> QED
    BY <1>8, <2>1, <2>2, <2>3, IntoPass1
<1> DEFINE Right == WaysRight(pendWays') /\ RelsRight(pendRels') /\ updated' = {}
<1>9. pc \in {"pass2", "ways"} => WaysRight(pendWays) /\ RelsRight(pendRels) /\ updated = {}
    BY DEF ExactInv, WaysRight, RelsRight
<1>10. ASSUME pc' = "pass2" PROVE Right
  <2>1. CASE UNCHANGED vars
    BY <1>9, <1>10, <2>1 DEF vars
  <2>2. CASE StartPass2
    <3>1. pc = "pass1" /\ UNCHANGED <<pendWays, pendRels, updated>>
      BY <2>2 DEF StartPass2, pending, areas
    <3>2. pendWays = <<>> /\ pendRels = <<>> /\ updated = {}
      BY <3>1 DEF CollectInv, CollectRelsInv, ExactInv
    <3> QED
      BY <1>7, <3>1, <3>2
  <2>3. CASE WriteNewNodes
    <3>1. /\ pc = "pass2" /\ pendWays' \in SortedUnique(pendWays)
          /\ UNCHANGED <<pendRels, updated>>
      BY <2>3 DEF WriteNewNodes, areas
    <3>2. Entries(pendWays') = Entries(pendWays)
      BY <1>4, <3>1, SortedUniqueList
    <3> QED
      BY <1>9, <3>1, <3>2 DEF Open, WaysRight
  <2>4. CASE StartRelations
    <3>1. /\ pc = "ways" /\ pendRels' \in SortedUnique(pendRels)
          /\ UNCHANGED <<pendWays, updated>>
      BY <2>4 DEF StartRelations, areas
    <3>2. Entries(pendRels') = Entries(pendRels)
      BY <1>4, <3>1, SortedUniqueList
    <3> QED
      BY <1>9, <3>1, <3>2 DEF Open, RelsRight
  <2>5. CASE FlushAreas \/ Way2Deleted \/ Relation2Deleted
    <3>1. pc = "pass2" /\ UNCHANGED <<pendWays, pendRels, updated>>
      BY <2>5 DEF FlushAreas, Way2Deleted, Relation2Deleted, Pass2, pending, areas, Assemble
    <3> QED
      BY <1>9, <3>1
  <2>6. CASE Node2
    <3> DEFINE c == file[pos]
    <3>1. /\ pc = "pass2" /\ UNCHANGED updated /\ c.kind = "node" /\ pos \in DOMAIN file
          /\ IF c.deleted THEN UNCHANGED <<pendWays, pendRels>>
             ELSE /\ pendWays' = PushWays(pendWays, c.id)
                  /\ pendRels' = PushRels(pendRels, "node", c.id)
      BY <1>2, <2>6 DEF Node2, Pass2, Object, areas
    <3>2. CASE c.deleted
      BY <1>9, <3>1, <3>2
    <3>3. CASE ~c.deleted
      <4>1. c.id \in Written("node")
        BY <3>1, <3>3 DEF Written, WrittenBy
      <4> HIDE DEF c
      <4>2. WaysRight(pendWays')
        BY <1>4, <1>9, <3>1, <3>3, <4>1, PushedWaysAffected DEF WaysRight, W
      <4>3. RelsRight(pendRels')
        BY <1>4, <1>6, <1>9, <3>1, <3>3, <4>1, PushedRelsAffected DEF RelsRight, R
      <4> QED
        BY <1>9, <3>1, <4>2, <4>3
    <3> QED
      BY <3>2, <3>3
  <2>7. CASE Way2
    <3> DEFINE c == file[pos]
    <3>1. /\ pc = "pass2" /\ UNCHANGED updated /\ c.kind = "way" /\ pos \in DOMAIN file
          /\ ~c.deleted
          /\ pendWays' = CrossOut(pendWays, waysIdx, c.id)
          /\ pendRels' = PushRels(pendRels, "way", c.id)
      BY <1>2, <2>7 DEF Way2, Pass2, Object, Assemble
    <3>2. c.id \in Written("way")
      BY <3>1 DEF Written, WrittenBy
    <3> HIDE DEF c
    <3>3. WaysRight(pendWays')
      BY <1>9, <3>1, CrossedOutAffected DEF WaysRight
    <3>4. RelsRight(pendRels')
      BY <1>4, <1>6, <1>9, <3>1, <3>2, PushedRelsAffected DEF RelsRight, R
    <3> QED
      BY <1>9, <3>1, <3>3, <3>4
  <2>8. CASE Relation2
    <3>1. /\ pc = "pass2" /\ UNCHANGED <<pendWays, updated>>
          /\ pendRels' = CrossOut(pendRels, relsIdx, file[pos].id)
      BY <2>8 DEF Relation2, Pass2, areas
    <3> QED
      BY <1>9, <3>1, CrossedOutAffected DEF RelsRight
  <2> QED
    BY <1>10, <2>1, <2>2, <2>3, <2>4, <2>5, <2>6, <2>7, <2>8, IntoPass2
<1>11. ASSUME pc' = "ways" PROVE Right /\ todo' \subseteq Reached
  <2>1. CASE UNCHANGED vars
    <3>1. UNCHANGED <<pc, todo, pendWays, pendRels, updated>>
      BY <2>1 DEF vars
    <3> QED
      BY <1>9, <1>11, <3>1 DEF ExactInv
  <2>2. CASE WriteNewWays
    <3>1. /\ pc = "pass2" /\ progress = "WAY" /\ pos \in DOMAIN file
          /\ file[pos].kind = "relation"
          /\ pendWays' \in Sorted(pendWays) /\ todo' = WorkIds(pendWays)
          /\ UNCHANGED <<pendRels, updated>>
      BY <1>2, <2>2 DEF WriteNewWays, Object, areas
    <3>2. \A e \in Entries(pendWays') : e \in Entries(pendWays)
      <4>1. PICK p \in Rearrangement(pendWays) :
                pendWays' = [i \in DOMAIN pendWays |-> pendWays[p[i]]]
        BY <3>1 DEF Sorted
      <4>2. p \in [DOMAIN pendWays -> DOMAIN pendWays]
        BY DEF Rearrangement
      <4> QED
        BY <4>1, <4>2 DEF Entries
    <3>3. Right
      BY <1>9, <3>1, <3>2 DEF WaysRight, Open
    <3>4. Searching(pendWays, waysIdx, "way", pos)
      BY <3>1 DEF TwiceInv
    <3>5. ASSUME NEW w \in Open(pendWays), NEW k \in DOMAIN file, file[k].kind = "way",
                 file[k].id = w
          PROVE  FALSE
      <4>1. ~(pos < k)
        BY <1>1, <3>1, <3>5, SortedFacts
      <4>2. k < pos
        BY <1>2, <3>1, <3>5, <4>1
      <4> QED
        BY <3>4, <3>5, <4>2 DEF Searching, Open
    <3>6. Open(pendWays) \subseteq AffectedWays
      BY <1>9, <3>1, <3>5 DEF WaysRight, InFile, Has
    <3>7. WorkIds(pendWays) \subseteq AffectedWays \ First(AffectedWays)
      BY <1>5, <3>4, <3>6, WorkIsReached DEF Searching
    <3>8. HasRelation
      BY <3>1 DEF HasRelation
    <3> QED
      BY <3>1, <3>3, <3>7, <3>8 DEF Reached
  <2>3. ASSUME NEW w \in Ways, UpdateWay(w) PROVE Right /\ todo' \subseteq Reached
    <3>1. /\ pc = "ways" /\ pendRels' = PushRels(pendRels, "way", w) /\ todo' = todo \ {w}
          /\ w \in todo /\ UNCHANGED <<pendWays, updated>>
      BY <2>3 DEF UpdateWay, Turn, areas
    <3>2. todo \subseteq Reached
      BY <3>1 DEF ExactInv
    <3>3. RelsRight(pendRels')
      BY <1>4, <1>6, <1>9, <3>1, <3>2, PushedRelsAffected DEF RelsRight, R
    <3> QED
      BY <1>9, <3>1, <3>2, <3>3
  <2> QED
    BY <1>11, <2>1, <2>2, <2>3, IntoWays
<1>12. ASSUME pc' = "rels"
       PROVE  todo' \subseteq AffectedRels /\ \A a \in updated' : a.id \in AffectedRels
  <2>1. CASE UNCHANGED vars
    <3>1. UNCHANGED <<pc, todo, updated>>
      BY <2>1 DEF vars
    <3> QED
      BY <1>12, <3>1 DEF ExactInv
  <2>2. CASE AfterRelations
    <3>1. pc = "pass2" /\ todo' = WorkIds(pendRels) /\ UNCHANGED updated
      BY <2>2 DEF AfterRelations, areas
    <3>2. \A rel \in todo' : rel \in Open(pendRels)
      BY <3>1 DEF WorkIds, Open, Entries
    <3>3. \A rel \in todo' : ~InFile("relation", rel)
      BY <1>2, <1>12 DEF TwiceInv, InFile
    <3> QED
      BY <1>9, <3>1, <3>2, <3>3 DEF RelsRight
  <2>3. ASSUME NEW rel \in Rels, UpdateRelation(rel)
        PROVE  todo' \subseteq AffectedRels /\ \A a \in updated' : a.id \in AffectedRels
    <3>1. /\ pc = "rels" /\ todo' = todo \ {rel} /\ rel \in todo
          /\ updated' \subseteq updated \cup RebuiltArea(rel)
      BY <2>3 DEF UpdateRelation, Turn
    <3>2. todo \subseteq AffectedRels /\ \A a \in updated : a.id \in AffectedRels
      BY <3>1 DEF ExactInv
    <3>3. \A a \in RebuiltArea(rel) : a.id = rel
      BY AssembledId DEF RebuiltArea
    <3> QED
      BY <3>1, <3>2, <3>3
  <2> QED
    BY <1>12, <2>1, <2>2, <2>3, IntoRels
<1>13. /\ WaysRight(pendWays') <=> (\A w \in Open(pendWays) : w \in AffectedWays \/ InFile("way", w))'
       /\ RelsRight(pendRels') <=>
            (\A rel \in Open(pendRels) : rel \in AffectedRels \/ InFile("relation", rel))'
    BY <1>2 DEF WaysRight, RelsRight, Open, Entries, InFile
<1> QED
    BY <1>2, <1>3, <1>8, <1>10, <1>11, <1>12, <1>13 DEF ExactInv
-----------------------------------------------------------------------------
(* The areas of the ways of the file.                                       *)

\* A way of the file is not worked on, and an area that is assembled again is one
\* of an affected relation, so that the rows of the others stay as they are.
LEMMA OwnAreasStep ==
    ASSUME KnownInv, TableOfAreas, TwiceInv, ExactInv, OwnAreasInv,
           ProperFile, Healthy, Areas, [Next]_vars
    PROVE  OwnAreasInv'
<1> DEFINE Row(k, by) == AreaRow(file[k].id, AreaOfWay(New, file[k].id), by)
<1>1. BaseInv /\ InputInv /\ ControlInv /\ RowStep /\ AreaMove
    BY BaseStep, AreaSteps DEF KnownInv, DataInv, BaseInv
<1>2. /\ UNCHANGED <<file, New, AffectedRels>>
      /\ pos \in Nat /\ \A k \in DOMAIN file : k \in Nat
      /\ run' \in 1 .. MaxRuns /\ run \in 1 .. MaxRuns
  <2>1. InputInv'
    BY <1>1, BaseStep DEF BaseInv
  <2> QED
    BY <1>1, <2>1, FileFacts, SameRels DEF ControlInv, InputInv
<1>3. \A k : HasArea(file[k]) <=> \E by \in 1 .. MaxRuns : Row(k, by) \in Pool
    BY DEF HasArea
<1>4. \A k : HasArea(file[k])' <=> \E by \in 1 .. MaxRuns : Row(k, by) \in Pool'
    BY <1>2 DEF HasArea
<1>5. \A k, by : Row(k, by).id = file[k].id
    BY DEF AreaRow
<1> HIDE DEF Row
<1>6. ASSUME Pool \subseteq Pool',
             InPass2' => \A k \in DOMAIN file : k < pos' /\ GivesArea(file[k]) => InPass2 /\ k < pos
      PROVE  OwnAreasInv'
  <2>1. \A k : HasArea(file[k]) => HasArea(file[k])'
    BY <1>3, <1>4, <1>6
  <2> QED
    BY <1>2, <1>6, <2>1 DEF OwnAreasInv, GivesArea
<1>7. CASE AreasDeleted \/ AreasRenewed
  <2>1. ~InPass2'
    BY <1>7 DEF AreasDeleted, AreasRenewed, DeleteStep, DeadStep, AgainStep, InPass2
  <2> QED
    BY <2>1 DEF OwnAreasInv
<1>8. CASE AreasGathered
  <2> DEFINE c == file[pos]
  <2>1. /\ pc = "pass2" /\ pc' = "pass2" /\ pos' = pos + 1 /\ pos \in DOMAIN file
        /\ Object("way") /\ progress # "POINT" /\ Polygon' = Polygon
    BY <1>8 DEF AreasGathered, SendStep, Way2, Way2Deleted, Object
  <2>2. mpBuffer' = mpBuffer \cup NewAreas(c, members)
    BY <1>8 DEF AreasGathered, Way2, Way2Deleted, Assemble
  <2>3. Pool' = Pool \cup NewAreas(c, members) /\ InPass2
    BY <2>1, <2>2 DEF Pool, InPass2
  <2>4. GivesArea(c) => Row(pos, run) \in NewAreas(c, members)
    BY <2>1, GatheredOwn DEF Row
  <2> HIDE DEF c
  <2>5. GivesArea(c) => Row(pos, run) \in Pool'
    BY <2>3, <2>4
  <2>6. \A k : HasArea(file[k]) => HasArea(file[k])'
    BY <1>3, <1>4, <2>3
  <2>7. ASSUME NEW k \in DOMAIN file, k < pos + 1, GivesArea(file[k])
        PROVE  HasArea(file[k])' \/ file[k].id \in AffectedRels
    <3>1. CASE k < pos
      BY <2>3, <2>6, <2>7, <3>1 DEF OwnAreasInv
    <3>2. CASE k = pos
      <4>1. Row(k, run) \in Pool'
        BY <2>5, <2>7, <3>2 DEF c
      <4> QED
        BY <1>2, <1>4, <4>1
    <3> QED
      BY <1>2, <2>7, <3>1, <3>2
  <2> QED
    BY <1>2, <2>1, <2>7 DEF OwnAreasInv, GivesArea
<1>9. CASE AreasCompleted
  <2>1. /\ pos' = pos /\ pc = "incomplete" /\ mpBuffer' = mpBuffer
        /\ Polygon'.live = Polygon.live \cup Polygon.lines \cup Completed
    BY <1>9 DEF AreasCompleted, PhaseStep, areas
  <2>2. Pool \subseteq Pool' /\ InPass2
    BY <2>1 DEF Pool, InPass2
  <2> QED
    BY <1>6, <2>1, <2>2
<1>10. CASE AreasRewritten
  <2>1. /\ pos' = pos /\ mpBuffer' = mpBuffer /\ Polygon'.lines = Polygon.lines
        /\ pc \in {"ways", "rels"}
    BY <1>10 DEF AreasRewritten, PhaseStep
  <2>2. ASSUME NEW s \in Polygon.live,
               s.id \notin IF pc = "ways" THEN todo ELSE {a.id : a \in updated}
        PROVE  s \in Polygon'.live
    BY <1>10, <2>2 DEF AreasRewritten
  <2>3. ASSUME NEW k \in DOMAIN file, GivesArea(file[k]), HasArea(file[k]),
               file[k].id \notin AffectedRels
        PROVE  HasArea(file[k])'
    <3>1. PICK by \in 1 .. MaxRuns : Row(k, by) \in Pool
      BY <1>3, <2>3
    <3>2. file[k].id \notin IF pc = "ways" THEN todo ELSE {a.id : a \in updated}
      <4>1. CASE pc = "ways"
        <5>1. InFile("way", file[k].id)
          BY <2>3 DEF GivesArea, InFile, Has
        <5> QED
          BY <4>1, <5>1 DEF TwiceInv
      <4>2. CASE pc = "rels"
        BY <2>3, <4>2 DEF ExactInv
      <4> QED
        BY <2>1, <4>1, <4>2
    <3>3. Row(k, by) \in Pool'
      <4>1. CASE Row(k, by) \in Polygon.live
        BY <1>5, <2>2, <3>2, <4>1 DEF Pool
      <4>2. CASE Row(k, by) \notin Polygon.live
        BY <2>1, <3>1, <4>2 DEF Pool
      <4> QED
        BY <4>1, <4>2
    <3> QED
      BY <1>4, <3>3
  <2>4. InPass2
    BY <2>1 DEF InPass2
  <2> QED
    BY <1>2, <2>1, <2>3, <2>4 DEF OwnAreasInv, GivesArea
<1>11. CASE AreasKept
  <2>1. OwnBefore
    BY <1>1, <1>11, AreasKeptPasses
  <2> QED
    BY <1>6, <1>11, <2>1 DEF AreasKept, OwnBefore
<1> QED
    BY <1>1, <1>7, <1>8, <1>9, <1>10, <1>11 DEF AreaMove

WrittenInv ==
    /\ ProperFile /\ AscendingIds => ExactInv
    /\ ProperFile /\ Healthy /\ AscendingIds /\ Areas => OwnAreasInv

LEMMA WrittenInvariant == Spec => []WrittenInv
<1> DEFINE I == WrittenInv
           T == ProperFile /\ AscendingIds => TwiceInv
<1>1. Init => I
  <2> SUFFICES ASSUME Init PROVE ExactInv /\ OwnAreasInv
    BY DEF WrittenInv
  <2> QED
    BY DEF Init, ExactInv, OwnAreasInv, InPass2
<1>2. I /\ T /\ T' /\ TypeInv /\ RelationsInv /\ TableOfAreas /\ [Next]_vars => I'
  <2> SUFFICES ASSUME I, T, T', TypeInv, RelationsInv, TableOfAreas, [Next]_vars PROVE I'
    OBVIOUS
  <2>1. /\ DataInv /\ FiniteInv /\ CollectInv /\ CollectRelsInv /\ ListTypes /\ BaseInv
        /\ KnownInv
    BY DEF RelationsInv, FollowInv, RowsRightInv, LinesInv, KnownInv, DataInv, TypeInv
  <2>2. RowStep
    BY <2>1, BaseStep
  <2>3. /\ (ProperFile' <=> ProperFile) /\ file' = file /\ (Healthy' <=> Healthy)
        /\ UNCHANGED Areas
    BY <2>2, SameRels, SameGoals
  <2>4. AscendingIds' <=> AscendingIds
    BY <2>3 DEF AscendingIds
  <2>5. ProperFile /\ AscendingIds => ExactInv'
    BY <2>1, <2>3, <2>4, ExactStep DEF WrittenInv
  <2>6. ProperFile /\ Healthy /\ AscendingIds /\ Areas => OwnAreasInv'
    BY <2>1, OwnAreasStep DEF WrittenInv
  <2> QED
    BY <2>3, <2>4, <2>5, <2>6 DEF WrittenInv
<1>3. AreasInv => TableOfAreas
    BY DEF AreasInv
<1> QED
  BY <1>1, <1>2, <1>3, TwiceInvariant, TypeInvariant, RelationsInvariant, AreasInvariant,
     PTL DEF Spec

\* The areas of the ways of the file have the geometry the diff gives them, unless
\* the number of the way is also the one of a relation that the diff affects and
\* whose area is put in the place of the way's.
THEOREM WrittenAreasFollow ==
    Spec => [](ProperFile /\ Healthy /\ AscendingIds => WrittenWayAreas)
<1>1. AreasInv /\ WrittenInv => (ProperFile /\ Healthy /\ AscendingIds => WrittenWayAreas)
  <2> SUFFICES ASSUME AreasInv, WrittenInv, ProperFile, Healthy, AscendingIds,
                      pc = "done", Areas, NEW w \in Written("way"), New.way[w].area,
                      w \notin AffectedRels
               PROVE  AreaRow(w, AreaOfWay(New, w), 0) \in Saved("polygon")
    BY DEF WrittenWayAreas
  <2>1. OwnAreasInv /\ TableOfAreas /\ InputInv /\ ControlInv /\ OneVersionEach
    BY DEF AreasInv, WrittenInv, LinesInv, KnownInv, DataInv, BaseInv, ProperFile
  <2>2. Pool = Polygon.saved /\ InPass2
    BY <2>1 DEF TableOfAreas, AreaTable, AtTheEnd, Pool, InPass2
  <2>3. PICK k \in DOMAIN file : file[k].kind = "way" /\ ~file[k].deleted /\ file[k].id = w
    BY DEF Written, WrittenBy
  <2>4. GivesArea(file[k])
    BY <2>1, <2>3, NewAreaData DEF GivesArea
  <2>5. k < pos
    BY <2>1 DEF ControlInv, InputInv
  <2>6. PICK by \in 1 .. MaxRuns : AreaRow(w, AreaOfWay(New, w), by) \in Polygon.saved
    BY <2>1, <2>2, <2>3, <2>4, <2>5 DEF OwnAreasInv, HasArea
  <2> DEFINE row == AreaRow(w, AreaOfWay(New, w), by)
  <2>7. [row EXCEPT !.run = 0] = AreaRow(w, AreaOfWay(New, w), 0)
    BY DEF AreaRow
  <2> QED
    BY <2>6, <2>7 DEF Saved, Strip, Polygon
<1> QED
  BY <1>1, AreasInvariant, WrittenInvariant, PTL
=============================================================================
