------------------------- MODULE DiffVersionsProofs -------------------------
(***************************************************************************)
(* What becomes of the rows of the objects that the change file contains:  *)
(* the old versions go, the new ones come.  Of nodes, the node lists of    *)
(* the ways, and the member lists of the relations, a finished run leaves  *)
(* the versions of the change file, and nothing else.  And what the        *)
(* location handlers return of nodes, and what is written with it.         *)
(***************************************************************************)
EXTENDS DiffRowsProofs, FiniteSetTheorems
-----------------------------------------------------------------------------
(* Old versions.  When pass 1 has passed an object that may have an old     *)
(* version, no row of it is left in any table that DiffHandler1 looks into. *)

\* The node tables are emptied of old versions only if none is in both of them,
\* as after an import.
OldTables ==
    {"line", "relations"} \cup TopologyTables \cup (IF run = 1 THEN NodeTables ELSE {})
Vanished(t, c) ==
    ~IsNew(c) /\ c.kind = KindOf(t) => \A r \in db[t].live : IdIn(t, r) # c.id
RowsHaveIds == \A t \in {"line", "relations"} : \A r \in AllRows(db[t]) : HasId(r)

OldInv ==
    /\ RowsHaveIds
    /\ run = 1 /\ pc = "pass1" =>
            \A t \in {"point", "untagged"} : db[t].live \subseteq Imported(old, PolygonTable)[t]
    /\ pc = "pass1" =>
            \A t \in OldTables : \A k \in DOMAIN file : k < pos => Vanished(t, file[k])
    /\ pc \in {"pass2", "ways"} /\ pos = 1 =>
            \A t \in OldTables :
                db[t].lines = {} /\ \A k \in DOMAIN file : Vanished(t, file[k])

LEMMA OldTablesFacts ==
    /\ OldTables \subseteq RowTables
    /\ {"line", "relations"} \cup TopologyTables \subseteq OldTables
    /\ \A t \in OldTables :
            t \in {"point", "untagged"} => run = 1 /\ (t = "untagged" => ~FlatNodes)
BY RowTablesFacts DEF OldTables, NodeTables, TopologyTables, MemberTables

LEMMA ImportedNodes ==
    ASSUME NEW data, NEW withAreas
    PROVE  /\ Imported(data, withAreas)["point"] =
                {PointRow(n, data.node[n].loc, 0) :
                    n \in {n \in DOMAIN data.node : data.node[n].tagged}}
           /\ Imported(data, withAreas)["untagged"] =
                {PointRow(n, data.node[n].loc, 0) :
                    n \in {n \in DOMAIN data.node : ~data.node[n].tagged}}
BY DEF Imported, Tables, MemberTables

\* A node is tagged or it is not.
LEMMA ImportedNodesDiffer ==
    ASSUME NEW data, NEW withAreas,
           NEW r \in Imported(data, withAreas)["point"],
           NEW s \in Imported(data, withAreas)["untagged"]
    PROVE  r.id # s.id
BY ImportedNodes DEF PointRow

LEMMA ImportedIds ==
    ASSUME NEW data, NEW withAreas, NEW t \in {"line", "relations"},
           NEW r \in Imported(data, withAreas)[t]
    PROVE  HasId(r)
<1>1. /\ Imported(data, withAreas)["line"] =
            {LineRow(w, Linestring(WayLine(data, w)), 0) : w \in ImportedWays(data)
                \cup {w \in data.late : data.way[w].tagged}}
      /\ Imported(data, withAreas)["relations"] =
            {RelationRow(rel, Points(data, data.rel[rel].mems),
                         Lines(data, data.rel[rel].mems), 0) :
                rel \in ImportedRels(data)}
    BY DEF Imported, Tables, MemberTables
<1>2. CASE t = "line"
    BY <1>1, <1>2 DEF HasId, LineRow
<1>3. CASE t = "relations"
    BY <1>1, <1>3 DEF HasId, RelationRow
<1> QED
    BY <1>2, <1>3

\* Rewriting keeps the ids.
LEMMA RewrittenIds ==
    ASSUME RowsHaveIds, NEW t, Rewritten(t), NEW r \in db'[t].live
    PROVE  /\ t \in {"line", "relations"} /\ HasId(r)
           /\ \E s \in db[t].live : r.id = s.id
<1>1. CASE t = "line"
  <2>1. PICK w : Stored(db[t], db'[t],
            {IF s.id = w THEN [s EXCEPT !.geom = StoredLine(w)] ELSE s : s \in db[t].live})
    BY <1>1 DEF Rewritten
  <2>2. PICK s \in db[t].live :
            r = IF s.id = w THEN [s EXCEPT !.geom = StoredLine(w)] ELSE s
    BY <2>1 DEF Stored
  <2>3. HasId(s)
    BY <1>1 DEF RowsHaveIds, AllRows
  <2> QED
    BY <1>1, <2>2, <2>3 DEF HasId
<1>2. CASE t = "relations"
  <2>1. PICK rel : Stored(db[t], db'[t],
            {IF s.id = rel
             THEN [s EXCEPT !.points = NodePoints(MembersOf("node", rel)),
                            !.lines = StoredLines(rel)]
             ELSE s : s \in db[t].live})
    BY <1>2 DEF Rewritten
  <2>2. PICK s \in db[t].live :
            r = IF s.id = rel
                THEN [s EXCEPT !.points = NodePoints(MembersOf("node", rel)),
                               !.lines = StoredLines(rel)]
                ELSE s
    BY <2>1 DEF Stored
  <2>3. HasId(s)
    BY <1>2 DEF RowsHaveIds, AllRows
  <2> QED
    BY <1>2, <2>2, <2>3 DEF HasId
<1> QED
    BY <1>1, <1>2 DEF Rewritten

LEMMA RowsHaveIdsStep ==
    ASSUME BaseInv, RowsHaveIds, RowStep
    PROVE  RowsHaveIds'
<1> SUFFICES ASSUME NEW t \in {"line", "relations"}, NEW r \in AllRows(db'[t])
             PROVE  HasId(r)
    BY DEF RowsHaveIds
<1> DEFINE T == db[t]
           U == db'[t]
<1>1. \A s \in AllRows(T) : HasId(s)
    BY DEF RowsHaveIds
<1>2. t \in RowTables /\ t \notin PlainTables /\ T.begun \in BOOLEAN
    BY RowTablesFacts DEF BaseInv, TablesInv, IsTable
<1>3. CASE U = T
    BY <1>1, <1>3
<1>4. ASSUME NEW c, Stored(T, U, {s \in T.live : IdIn(t, s) # c}) PROVE HasId(r)
    BY <1>1, <1>2, <1>4 DEF Stored, Saves, AllRows
<1>5. CASE Sent(T, U, WrittenRows(t, file[pos]))
  <2>1. \A s \in WrittenRows(t, file[pos]) : HasId(s)
    BY <1>2 DEF WrittenRows, HasId, LineRow, RelationRow
  <2> QED
    BY <1>1, <1>5, <2>1 DEF Sent, Calm, AllRows
<1>6. CASE Queried(T, U) \/ Started(T, U)
    BY <1>1, <1>6 DEF Queried, Started, Calm, AllRows
<1>7. CASE Ended(T, U)
    BY <1>1, <1>2, <1>7 DEF Ended, Saves, AllRows
<1>8. CASE Destroyed(T, U) \/ Renewed(T, U)
    BY <1>1, <1>8 DEF Destroyed, Renewed, AllRows
<1>9. CASE Rewritten(t)
  <2>1. PICK rows : Stored(T, U, rows)
    BY <1>9 DEF Rewritten
  <2>2. \A s \in U.live : HasId(s)
    BY <1>9, RewrittenIds
  <2> QED
    BY <1>1, <1>2, <2>1, <2>2 DEF Stored, Saves, AllRows
<1>10. CASE DeleteStep
  <2>1. Removes(t, file[pos])
    BY <1>2, <1>10 DEF DeleteStep
  <2> QED
    BY <2>1, <1>3, <1>4 DEF Removes
<1>11. CASE SwitchStep
    BY <1>2, <1>3, <1>6, <1>11 DEF SwitchStep
<1>12. CASE SendStep
  <2>1. Sends(t, file[pos])
    BY <1>2, <1>12 DEF SendStep
  <2> QED
    BY <2>1, <1>3, <1>5, <1>6 DEF Sends
<1>13. CASE PhaseStep
  <2>1. Switches(t)
    BY <1>2, <1>13 DEF PhaseStep
  <2> QED
    BY <2>1, <1>3, <1>6, <1>7, <1>9 DEF Switches
<1>14. ASSUME NEW u \in Tables, CloseStep(u) PROVE HasId(r)
    BY <1>2, <1>3, <1>8, <1>14 DEF CloseStep
<1>15. CASE DeadStep \/ AgainStep \/ IdleStep
    BY <1>2, <1>3, <1>8, <1>15 DEF DeadStep, AgainStep, IdleStep
<1> QED
    BY <1>10, <1>11, <1>12, <1>13, <1>14, <1>15 DEF RowStep

\* Pass 1 handles one more object.
LEMMA VanishDelete ==
    ASSUME BaseInv, OldInv, DeleteStep, NEW t \in OldTables
    PROVE  \A k \in DOMAIN file : k < pos' => Vanished(t, file[k])'
<1>1. /\ UNCHANGED <<old, file, options, run>> /\ pc = "pass1" /\ pos' = pos + 1
      /\ pos \in DOMAIN file /\ Removes(t, file[pos])
    BY OldTablesFacts DEF DeleteStep
<1>2. \A k \in DOMAIN file : k < pos => Vanished(t, file[k])
    BY <1>1 DEF OldInv
<1>3. db'[t].live \subseteq db[t].live
    BY <1>1 DEF Removes, Stored
<1>4. \A k \in DOMAIN file : k < pos => Vanished(t, file[k])'
    BY <1>1, <1>2, <1>3 DEF Vanished
<1>5. ASSUME NEW k \in DOMAIN file, k = pos PROVE Vanished(t, file[k])'
  <2> DEFINE c == file[pos]
  <2> SUFFICES ASSUME ~IsNew(c), c.kind = KindOf(t), NEW r \in db'[t].live
               PROVE  IdIn(t, r) # c.id
    BY <1>1, <1>5 DEF Vanished
  <2>1. CASE c.kind # "node" \/ t = NodeHome(c)
    <3>1. Stored(db[t], db'[t], {s \in db[t].live : IdIn(t, s) # c.id})
      BY <1>1, <2>1 DEF Removes
    <3> QED
      BY <3>1 DEF Stored
  <2>2. CASE c.kind = "node" /\ t # NodeHome(c)
    <3>1. t \in {"point", "untagged"} /\ run = 1 /\ (t = "untagged" => ~FlatNodes)
      BY <2>2, OldTablesFacts DEF KindOf
    <3>2. \A s : IdIn(t, s) = s.id
      BY <3>1 DEF IdIn, MemberTables
    <3>3. CASE t = "untagged"
      BY <1>3, <2>2, <3>1, <3>2, <3>3 DEF NodeHome, Live
    <3>4. CASE t = "point"
      <4>1. PICK s \in db["untagged"].live : s.id = c.id
        BY <2>2, <3>4 DEF NodeHome, Live
      <4>2. /\ s \in Imported(old, PolygonTable)["untagged"]
            /\ r \in Imported(old, PolygonTable)["point"]
        BY <1>1, <1>3, <3>1, <3>4, <4>1 DEF OldInv
      <4> QED
        BY <3>2, <4>1, <4>2, ImportedNodesDiffer
    <3> QED
      BY <3>1, <3>3, <3>4
  <2> QED
    BY <2>1, <2>2
<1> QED
  <2>1. \A k \in DOMAIN file : k < pos' => k < pos \/ k = pos
    BY <1>1, FileFacts DEF BaseInv, ControlInv
  <2> QED
    BY <2>1, <1>4, <1>5

LEMMA OldStep ==
    ASSUME BaseInv, OldInv, RowStep
    PROVE  OldInv'
<1>1. UNCHANGED <<old, file, options>>
    BY SameInput
<1>2. RowsHaveIds /\ RowsHaveIds'
    BY RowsHaveIdsStep DEF OldInv
<1>3. Imported(old, PolygonTable)' = Imported(old, PolygonTable)
    BY <1>1 DEF PolygonTable
<1>4. InputInv /\ pos \in Nat \ {0} /\ run \in Nat \ {0}
    BY DEF BaseInv, ControlInv, InputInv
<1>5. DOMAIN file = 1 .. Len(file) /\ Len(file) \in Nat
    BY <1>4, FileFacts
<1>6. run' = run => OldTables' = OldTables
    BY <1>1 DEF OldTables, NodeTables, FlatNodes
<1> DEFINE Original == run' = 1 /\ pc' = "pass1" =>
                \A t \in {"point", "untagged"} : db'[t].live \subseteq Imported(old, PolygonTable)[t]
           Pass == pc' = "pass1" => \A t \in OldTables' : \A k \in DOMAIN file :
                        k < pos' => Vanished(t, file[k])'
           Begin == pc' \in {"pass2", "ways"} /\ pos' = 1 =>
                        \A t \in OldTables' : /\ db'[t].lines = {}
                                              /\ \A k \in DOMAIN file : Vanished(t, file[k])'
<1> SUFFICES Original /\ Pass /\ Begin
    BY <1>1, <1>2, <1>3 DEF OldInv
<1>7. CASE DeleteStep
  <2>1. /\ pc = "pass1" /\ pc' = "pass1" /\ run' = run
        /\ \A t \in RowTables : Removes(t, file[pos])
    BY <1>7 DEF DeleteStep
  <2>2. \A t \in {"point", "untagged"} : db'[t].live \subseteq db[t].live
    BY <2>1, RowTablesFacts DEF Removes, Stored
  <2>3. Original
    BY <2>1, <2>2 DEF OldInv
  <2>4. Pass
    BY <1>6, <1>7, <2>1, VanishDelete
  <2> QED
    BY <2>1, <2>3, <2>4
<1>8. CASE SwitchStep
  <2>1. /\ pc = "pass1" /\ pc' = "pass2" /\ pos > Len(file) /\ run' = run
        /\ \A t \in RowTables : db'[t].live = db[t].live
        /\ \A t \in RowTables : db'[t].lines = {} \/ db'[t] = db[t]
    BY <1>8 DEF SwitchStep, Started, Calm
  <2>2. \A t \in RowTables : db[t].lines = {}
    BY <2>1, RowTablesFacts DEF BaseInv, TablesInv, IsTable, RowsInv, Tidy, MayCopy
  <2>3. \A t \in OldTables, k \in DOMAIN file : Vanished(t, file[k])
    BY <1>5, <2>1, <1>4 DEF OldInv
  <2>4. \A t \in OldTables, k \in DOMAIN file : Vanished(t, file[k])'
    BY <1>1, <2>1, <2>3, OldTablesFacts DEF Vanished
  <2> QED
    BY <1>6, <2>1, <2>2, <2>4, OldTablesFacts
<1>9. CASE SendStep
    BY <1>4, <1>9 DEF SendStep
<1>10. CASE PhaseStep
  <2>1. /\ pos' = pos /\ run' = run /\ pc' # "pass1"
        /\ pc' \in {"pass2", "ways"} => pc \in {"pass2", "ways"}
        /\ \A t \in RowTables : Switches(t)
    BY <1>10 DEF PhaseStep, PhaseChange
  <2>2. ASSUME pc' \in {"pass2", "ways"}, pos' = 1, NEW t \in OldTables
        PROVE  /\ db'[t].lines = {}
               /\ \A k \in DOMAIN file : Vanished(t, file[k])'
    <3>1. db[t].lines = {} /\ \A k \in DOMAIN file : Vanished(t, file[k])
      BY <2>1, <2>2 DEF OldInv
    <3>2. Switches(t)
      BY <2>1, OldTablesFacts
    <3>3. ASSUME db'[t].lines = {},
                 \A r \in db'[t].live : \E s \in db[t].live : IdIn(t, r) = IdIn(t, s)
          PROVE  \A k \in DOMAIN file : Vanished(t, file[k])'
      BY <1>1, <3>1, <3>3 DEF Vanished
    <3>4. CASE db'[t] = db[t] \/ Started(db[t], db'[t]) \/ Queried(db[t], db'[t])
      BY <3>1, <3>3, <3>4 DEF Started, Queried, Calm
    <3>5. CASE Ended(db[t], db'[t])
      BY <3>1, <3>3, <3>5 DEF Ended
    <3>6. CASE Rewritten(t)
      <4>1. t \in {"line", "relations"} /\ \A r : IdIn(t, r) = r.id
        BY <3>6 DEF Rewritten, IdIn, MemberTables
      <4>2. \A r \in db'[t].live : \E s \in db[t].live : IdIn(t, r) = IdIn(t, s)
        BY <1>2, <3>6, <4>1, RewrittenIds
      <4>3. db'[t].lines = db[t].lines
        BY <3>6 DEF Rewritten, Stored
      <4> QED
        BY <3>1, <3>3, <4>2, <4>3
    <3> QED
      BY <3>2, <3>4, <3>5, <3>6 DEF Switches
  <2> QED
    BY <1>6, <2>1, <2>2
<1>11. ASSUME NEW u \in Tables, CloseStep(u) PROVE Original /\ Pass /\ Begin
    BY <1>11 DEF CloseStep
<1>12. CASE DeadStep
    BY <1>12 DEF DeadStep
<1>13. CASE AgainStep
    BY <1>4, <1>5, <1>13 DEF AgainStep
<1>14. CASE IdleStep
  <2>1. /\ run' = run /\ pc' = pc /\ pos' = pos
        /\ \A t \in RowTables : db'[t] = db[t]
    BY <1>14 DEF IdleStep
  <2>2. \A t \in OldTables, k \in DOMAIN file : Vanished(t, file[k])' <=> Vanished(t, file[k])
    BY <1>1, <2>1, OldTablesFacts DEF Vanished
  <2>3. \A t \in {"point", "untagged"} : db'[t] = db[t]
    BY <2>1, RowTablesFacts
  <2> QED
    BY <1>6, <2>1, <2>2, <2>3, OldTablesFacts DEF OldInv
<1> QED
    BY <1>7, <1>8, <1>9, <1>10, <1>11, <1>12, <1>13, <1>14 DEF RowStep

LEMMA InitOld == Init => OldInv
<1> SUFFICES ASSUME Init PROVE OldInv
    OBVIOUS
<1>1. pc = "pass1" /\ pos = 1 /\ \A k \in DOMAIN file : k \in Nat \ {0}
  <2>1. InputInv
    BY InitBase DEF BaseInv
  <2> QED
    BY <2>1, FileFacts DEF Init
<1>2. \A t \in {"line", "relations", "point", "untagged"} :
            AllRows(db[t]) = Imported(old, PolygonTable)[t] /\ db[t].live = Imported(old, PolygonTable)[t]
    BY InitRows, RowTablesFacts DEF AllRows
<1>3. RowsHaveIds
    BY <1>2, ImportedIds DEF RowsHaveIds
<1> QED
    BY <1>1, <1>2, <1>3 DEF OldInv

\* The same for the areas of ways.
AreaVanished(c) ==
    ~IsNew(c) /\ c.kind = "way" => \A r \in Polygon.live : r.id # c.id
OldAreasInv ==
    /\ \A r \in AllRows(Polygon) \cup mpBuffer : HasId(r)
    /\ pc = "pass1" \/ (pc \in {"pass2", "ways"} /\ pos = 1) =>
            mpBuffer = {} /\ Polygon.lines = {}
    /\ pc = "pass1" /\ Areas =>
            \A k \in DOMAIN file : k < pos => AreaVanished(file[k])
    /\ pc \in {"pass2", "ways"} /\ pos = 1 /\ Areas =>
            \A k \in DOMAIN file : AreaVanished(file[k])

LEMMA ReshapedId ==
    ASSUME NEW s, HasId(s), NEW r, Reshaped(s, r)
    PROVE  HasId(r) /\ r.id = s.id
BY DEF HasId, Reshaped

LEMMA AreaIdsStep ==
    ASSUME BaseInv, PolygonStep, \A r \in AllRows(Polygon) \cup mpBuffer : HasId(r)
    PROVE  (\A r \in AllRows(Polygon) \cup mpBuffer : HasId(r))'
<1> DEFINE P == Polygon
           Q == Polygon'
           Fine == \A r \in AllRows(Q) : HasId(r)
<1>1. P.begun \in BOOLEAN /\ \A r \in AllRows(P) : HasId(r)
    BY PolygonIsTable DEF BaseInv, IsTable
<1>2. \A r \in mpBuffer : HasId(r)
    OBVIOUS
<1> HIDE DEF P, Q
<1>3. Q = P => Fine
    BY <1>1
<1>4. ASSUME NEW rows, Stored(P, Q, rows), \A r \in rows : HasId(r) PROVE Fine
    BY <1>1, <1>4 DEF Stored, Saves, AllRows
<1>5. Started(P, Q) => Fine
    BY <1>1 DEF Started, Calm, AllRows
<1>6. Ended(P, Q) => Fine
    BY <1>1 DEF Ended, Saves, AllRows
<1>7. Renewed(P, Q) => Fine
    BY <1>1 DEF Renewed, AllRows
<1>8. Sent(P, Q, mpBuffer) => Fine
    BY <1>1, <1>2 DEF Sent, Calm, AllRows
<1>9. PolygonDeletes => Fine
  <2> SUFFICES ASSUME NEW c, Stored(P, Q, {r \in P.live : r.id # c}) PROVE Fine
    BY <1>3 DEF PolygonDeletes, P, Q
  <2> DEFINE rows == {r \in P.live : r.id # c}
  <2>1. \A r \in rows : HasId(r)
    BY <1>1 DEF AllRows
  <2> HIDE DEF rows
  <2>2. Stored(P, Q, rows)
    BY DEF rows
  <2> QED
    BY <2>1, <2>2, <1>4
<1>10. PolygonSwitches => Fine
  <2>1. ASSUME NEW rows, Stored(P, Q, rows),
               \A r \in rows : \E s \in P.live : Reshaped(s, r)
        PROVE  Fine
    <3>1. \A s \in P.live : HasId(s)
      BY <1>1 DEF AllRows
    <3>2. \A r \in rows : HasId(r)
      BY <2>1, <3>1, ReshapedId
    <3> QED
      BY <2>1, <3>2, <1>4
  <2>2. (\A r \in AllRows(Q) : r \in AllRows(P) \/ HasId(r)) => Fine
    BY <1>1
  <2> QED
    BY <1>3, <1>5, <1>6, <2>1, <2>2 DEF PolygonSwitches, P, Q
<1>11. Fine
  <2>1. AllRows(Q) \subseteq AllRows(P) => Fine
    BY <1>1
  <2> HIDE DEF Fine
  <2> QED
    BY <1>3, <1>7, <1>8, <1>9, <1>10, <2>1 DEF PolygonStep, P, Q
<1>12. \A r \in mpBuffer' : HasId(r)
    BY <1>2 DEF PolygonStep
<1> QED
    BY <1>11, <1>12 DEF Q

LEMMA OldAreasStep ==
    ASSUME BaseInv, OldAreasInv, PolygonStep
    PROVE  OldAreasInv'
<1>1. UNCHANGED <<old, file, options>>
    BY DEF PolygonStep, DeleteStep, SwitchStep, SendStep, PhaseStep, CloseStep, DeadStep,
           AgainStep, IdleStep
<1>2. (\A r \in AllRows(Polygon) \cup mpBuffer : HasId(r))'
    BY AreaIdsStep DEF OldAreasInv
<1>3. /\ pos \in Nat \ {0} /\ DOMAIN file = 1 .. Len(file) /\ Len(file) \in Nat
      /\ \A r \in Polygon.live : HasId(r)
    BY FileFacts DEF BaseInv, ControlInv, OldAreasInv, AllRows
<1> DEFINE Empty == pc' = "pass1" \/ (pc' \in {"pass2", "ways"} /\ pos' = 1) =>
                        mpBuffer' = {} /\ Polygon'.lines = {}
           Pass == pc' = "pass1" /\ Areas =>
                        \A k \in DOMAIN file : k < pos' => AreaVanished(file[k])'
           Begin == pc' \in {"pass2", "ways"} /\ pos' = 1 /\ Areas =>
                        \A k \in DOMAIN file : AreaVanished(file[k])'
<1> SUFFICES Empty /\ Pass /\ Begin
    BY <1>1, <1>2 DEF OldAreasInv, Areas
<1>4. ASSUME \A r \in Polygon'.live : \E s \in Polygon.live : r.id = s.id
      PROVE  \A k \in DOMAIN file : AreaVanished(file[k]) => AreaVanished(file[k])'
    BY <1>1, <1>4 DEF AreaVanished, IsNew
<1>5. CASE DeleteStep /\ mpBuffer' = mpBuffer /\ PolygonDeletes
  <2>1. /\ pc = "pass1" /\ pc' = "pass1" /\ pos' = pos + 1 /\ pos \in DOMAIN file
    BY <1>5 DEF DeleteStep
  <2>2. /\ Polygon'.live \subseteq Polygon.live /\ Polygon'.lines = Polygon.lines
        /\ file[pos].kind = "way" /\ Areas /\ ~IsNew(file[pos]) =>
                \A r \in Polygon'.live : r.id # file[pos].id
    BY <1>5 DEF PolygonDeletes, Stored
  <2>3. Empty
    BY <1>5, <2>1, <2>2 DEF OldAreasInv
  <2>4. ASSUME Areas, NEW k \in DOMAIN file, k < pos' PROVE AreaVanished(file[k])'
    <3>1. CASE k < pos
      BY <1>4, <2>1, <2>2, <2>4, <3>1 DEF OldAreasInv
    <3>2. CASE k = pos
      BY <1>1, <2>2, <2>4, <3>2 DEF AreaVanished, IsNew
    <3> QED
      BY <1>3, <2>1, <2>4, <3>1, <3>2
  <2> QED
    BY <2>1, <2>3, <2>4
<1>6. CASE SwitchStep /\ mpBuffer' = mpBuffer /\ Polygon' = Polygon
  <2>1. pc = "pass1" /\ pc' = "pass2" /\ pos > Len(file)
    BY <1>6 DEF SwitchStep
  <2>2. Areas => \A k \in DOMAIN file : AreaVanished(file[k])
    BY <1>3, <2>1 DEF OldAreasInv
  <2> QED
    BY <1>4, <1>6, <2>1, <2>2 DEF OldAreasInv
<1>7. CASE SendStep
    BY <1>3, <1>7 DEF SendStep
<1>8. CASE PhaseStep
  <2>1. /\ pos' = pos /\ pc' # "pass1"
        /\ pc' \in {"pass2", "ways"} => pc \in {"pass2", "ways"}
    BY <1>8 DEF PhaseStep, PhaseChange
  <2> SUFFICES ASSUME pc' \in {"pass2", "ways"}, pos' = 1
               PROVE  /\ mpBuffer' = {} /\ Polygon'.lines = {}
                      /\ Areas => \A k \in DOMAIN file : AreaVanished(file[k])'
    BY <2>1
  <2>2. /\ mpBuffer = {} /\ Polygon.lines = {}
        /\ Areas => \A k \in DOMAIN file : AreaVanished(file[k])
    BY <2>1 DEF OldAreasInv
  <2> SUFFICES /\ mpBuffer' = {} /\ Polygon'.lines = {}
               /\ \A r \in Polygon'.live : \E s \in Polygon.live : r.id = s.id
    BY <1>4, <2>2
  <2>3. \/ mpBuffer' = mpBuffer /\ PolygonSwitches
        \/ mpBuffer' = {} /\ Sent(Polygon, Polygon', mpBuffer)
    BY <2>1 DEF PolygonStep, DeleteStep, SwitchStep, SendStep, CloseStep, DeadStep,
        AgainStep, IdleStep, PolygonSwitches
  <2>4. CASE mpBuffer' = {} /\ Sent(Polygon, Polygon', mpBuffer)
    BY <2>2, <2>4 DEF Sent, Calm
  <2>5. CASE mpBuffer' = mpBuffer /\ PolygonSwitches
    <3>1. CASE Polygon' = Polygon
      BY <2>2, <2>5, <3>1
    <3>2. CASE Started(Polygon, Polygon')
      BY <2>2, <2>5, <3>2 DEF Started, Calm
    <3>3. CASE Ended(Polygon, Polygon')
      BY <2>2, <2>5, <3>3 DEF Ended
    <3>4. ASSUME NEW rows, Stored(Polygon, Polygon', rows),
                 \A r \in rows : \E s \in Polygon.live : Reshaped(s, r)
          PROVE  /\ Polygon'.lines = {}
                 /\ \A r \in Polygon'.live : \E s \in Polygon.live : r.id = s.id
      BY <1>3, <2>2, <3>4, ReshapedId DEF Stored
    <3> QED
      BY <2>2, <2>5, <3>1, <3>2, <3>3, <3>4 DEF PolygonSwitches
  <2> QED
    BY <2>3, <2>4, <2>5
<1>9. ASSUME NEW t \in Tables, CloseStep(t) PROVE Empty /\ Pass /\ Begin
    BY <1>9 DEF CloseStep
<1>10. CASE DeadStep
    BY <1>10 DEF DeadStep
<1>11. CASE AgainStep /\ mpBuffer' = {} /\ Renewed(Polygon, Polygon')
  <2>1. pc' = "pass1" /\ pos' = 1
    BY <1>11 DEF AgainStep
  <2> QED
    BY <1>3, <1>11, <2>1 DEF Renewed
<1>12. CASE IdleStep /\ mpBuffer' = mpBuffer /\ Polygon' = Polygon
  <2>1. pc' = pc /\ pos' = pos
    BY <1>12 DEF IdleStep
  <2>2. \A k \in DOMAIN file : AreaVanished(file[k]) => AreaVanished(file[k])'
    BY <1>4, <1>12
  <2> QED
    BY <1>12, <2>1, <2>2 DEF OldAreasInv
<1> QED
    BY <1>5, <1>6, <1>7, <1>8, <1>9, <1>10, <1>11, <1>12 DEF PolygonStep

LEMMA InitOldAreas == Init => OldAreasInv
<1> SUFFICES ASSUME Init PROVE OldAreasInv
    OBVIOUS
<1> DEFINE saved == Imported(old, PolygonTable)
           rows == saved["polygon"]
<1>1. \A r \in rows : HasId(r)
  <2>1. rows = IF ~PolygonTable THEN {}
               ELSE {AreaRow(w, AreaOfWay(old, w), 0) : w \in WayAreas(old)}
                    \cup {AreaRow(-rel, AreaOfRel(old, rel), 0) : rel \in RelAreas(old)}
    BY DEF Imported, Tables, MemberTables
  <2> HIDE DEF saved
  <2> QED
    BY <2>1 DEF AreaRow, HasId
<1>2. Opened(saved)["polygon"] = Connect(rows)
    BY DEF Opened, Tables
<1>3. db = Opened(saved) /\ pc = "pass1" /\ pos = 1 /\ mpBuffer = {}
    BY DEF Init
<1> HIDE DEF saved, rows
<1>4. /\ Polygon.live = rows /\ Polygon.saved = rows /\ Polygon.lines = {}
    BY <1>2, <1>3, ConnectFields DEF Polygon
<1>5. \A k \in DOMAIN file : k \in Nat \ {0}
  <2>1. InputInv
    BY InitBase DEF BaseInv
  <2> QED
    BY <2>1, FileFacts
<1> QED
    BY <1>1, <1>3, <1>4, <1>5 DEF OldAreasInv, AllRows

\* In a first application, no table has an old version when pass 2 begins.
THEOREM OldVersionsGo == Spec => [](run = 1 => OldVersionsDeleted)
<1>1. Init => BaseInv /\ OldInv /\ OldAreasInv
    BY InitBase, InitOld, InitOldAreas
<1>2. (BaseInv /\ OldInv /\ OldAreasInv) /\ [Next]_vars => (BaseInv /\ OldInv /\ OldAreasInv)'
    BY BaseStep, OldStep, PolygonSteps, OldAreasStep
<1>3. BaseInv /\ OldInv /\ OldAreasInv => (run = 1 => OldVersionsDeleted)
  <2> SUFFICES ASSUME BaseInv, OldInv, OldAreasInv, run = 1, pc = "pass2", pos = 1,
                      NEW t \in NodeTables \cup {"line", "relations"}
                                \cup IF Areas THEN {"polygon"} ELSE {},
                      NEW r \in Live(t), r.id \in Replaced(t)
               PROVE  FALSE
    BY DEF OldVersionsDeleted
  <2>1. /\ t \in {"point", "untagged", "line", "relations", "polygon"}
        /\ t = "polygon" => Areas
        /\ t # "polygon" => t \in OldTables
    BY DEF NodeTables, OldTables
  <2>2. PICK k \in DOMAIN file :
            /\ file[k].id = r.id /\ (file[k].deleted \/ ~file[k].v1)
            /\ file[k].kind = IF t = "polygon" THEN "way" ELSE KindOf(t)
    BY <2>1 DEF Replaced, KindOf
  <2>3. ~IsNew(file[k])
    BY <2>2 DEF IsNew
  <2>4. CASE t = "polygon"
    BY <2>1, <2>2, <2>3, <2>4 DEF OldAreasInv, AreaVanished, Live, Polygon
  <2>5. CASE t # "polygon"
    <3>1. IdIn(t, r) = r.id
      BY <2>1, <2>5 DEF IdIn, MemberTables
    <3> QED
      BY <2>1, <2>2, <2>3, <2>5, <3>1 DEF OldInv, Vanished, Live
  <2> QED
    BY <2>4, <2>5
<1> QED
    BY <1>1, <1>2, <1>3, PTL DEF Spec
-----------------------------------------------------------------------------
(* Change files as they are published. *)

\* A change file as it is published: sorted, with one version of every object
\* (not every intermediate one), and a first version only of an object that was
\* not there before.
OneVersionEach ==
    \A j, k \in DOMAIN file :
        file[j].kind = file[k].kind /\ file[j].id = file[k].id => j = k
OldIds(kind) ==
    IF kind = "node" THEN DOMAIN old.node
    ELSE IF kind = "way" THEN DOMAIN old.way ELSE DOMAIN old.rel
AddedAreNew ==
    \A k \in DOMAIN file : IsNew(file[k]) => file[k].id \notin OldIds(file[k].kind)
ProperFile == SortedFile /\ OneVersionEach /\ AddedAreNew
-----------------------------------------------------------------------------
(* The inductive invariant.                                                 *)

DataTables == NodeTables \cup TopologyTables
Present(t) == db[t].live \cup db[t].lines

\* Row r is one of object k of the file, in the version of the file.
Matches(t, r, k) == file[k].kind = KindOf(t) /\ file[k].id = IdIn(t, r)
Fresh(t, r, k) == [r EXCEPT !.run = 0] \in PlainRows(t, file[k], 0)

\* The row of a node that lost its tags stays in the table of the tagged nodes
\* if an earlier run has committed the other table and not this one.
MayBeStale(t, c) == t = "point" /\ ~FlatNodes /\ run > 1 /\ ~c.deleted /\ ~c.tagged

\* What is there of an object of the file is of the version in the file, unless
\* the old one may still be there.
FreshInv(t) ==
    \A r \in Present(t) : \A k \in DOMAIN file :
        Matches(t, r, k) =>
            \/ Fresh(t, r, k)
            \/ /\ ~IsNew(file[k])
               /\ pc = "dead" \/ (pc = "pass1" /\ k >= pos) \/ MayBeStale(t, file[k])
\* An object that was added has no other version at any time.
AddedInv(t) ==
    \A r \in db[t].saved : \A k \in DOMAIN file :
        Matches(t, r, k) /\ IsNew(file[k]) => Fresh(t, r, k)
\* A node in both tables is one that lost its tags.
BothInv ==
    ~FlatNodes =>
        \A k \in DOMAIN file, r \in db["point"].saved, s \in db["untagged"].saved :
            ~IsNew(file[k]) /\ Matches("point", r, k) /\ Matches("untagged", s, k) =>
                /\ ~file[k].deleted /\ ~file[k].tagged
                /\ run > 1 \/ pc \in {"close", "done", "dead"}
DeletingInv ==
    pc = "pass1" => \A t \in {"point", "untagged"} : db[t].live \subseteq db[t].saved
\* What the file has had so far is there, as long as COPY is not lost.
ThereInv(t) ==
    InPass2 =>
        \/ db[t].copy = TRUE /\ db[t].stream = FALSE
        \/ \A k \in DOMAIN file : k < pos => PlainRows(t, file[k], 0) \subseteq Strip(Present(t))
\* The tables that are destroyed are closed.
ClosedInv ==
    pc \in {"close", "done"} =>
        \A i \in 1 .. 9 : i < pos - Len(file) /\ CloseOrder[i] # "polygon" =>
            db[CloseOrder[i]].copy = FALSE /\ db[CloseOrder[i]].begun = FALSE
AutocommitInv == \A t \in TopologyTables : db[t].begun = FALSE

VersionsInv ==
    ProperFile =>
        /\ \A t \in DataTables : FreshInv(t) /\ AddedInv(t) /\ ThereInv(t)
        /\ BothInv /\ DeletingInv
EndInv == ClosedInv /\ AutocommitInv
-----------------------------------------------------------------------------
(* The end: closed tables, and tables without a transaction.                *)

LEMMA ClosedStep ==
    ASSUME BaseInv, ClosedInv, RowStep
    PROVE  ClosedInv'
<1>1. UNCHANGED file /\ pos \in Nat \ {0} /\ Len(file) \in Nat
    BY SameInput, FileFacts DEF BaseInv, ControlInv
<1>2. CASE DeleteStep \/ SwitchStep \/ SendStep \/ DeadStep \/ AgainStep
    BY <1>2 DEF ClosedInv, DeleteStep, SwitchStep, SendStep, DeadStep, AgainStep
<1>3. CASE PhaseStep
  <2>1. pos' = pos /\ (pc' \in {"close", "done"} => pc \in {"rels", "incomplete"})
    BY <1>3 DEF PhaseStep, PhaseChange
  <2>2. pc' \in {"close", "done"} => pos' = Len(file) + 1
    BY <2>1 DEF BaseInv, ControlInv
  <2> QED
    BY <1>1, <2>2 DEF ClosedInv
<1>4. ASSUME NEW t \in Tables, CloseStep(t) PROVE ClosedInv'
  <2>1. /\ pc = "close" /\ CloseOrder[pos - Len(file)] = t /\ pos' = pos + 1
        /\ pos - Len(file) \in 1 .. 9
    BY <1>1, <1>4 DEF CloseStep, Closing, BaseInv, ControlInv
  <2> SUFFICES ASSUME NEW i \in 1 .. 9, i < pos' - Len(file), CloseOrder[i] # "polygon"
               PROVE  db'[CloseOrder[i]].copy = FALSE /\ db'[CloseOrder[i]].begun = FALSE
    BY <1>1 DEF ClosedInv
  <2>2. CloseOrder[i] \in RowTables
    BY CloseOrderFacts DEF RowTables
  <2>3. CASE i = pos - Len(file)
    BY <1>4, <2>1, <2>2, <2>3 DEF CloseStep, Destroyed
  <2>4. CASE i < pos - Len(file)
    <3>1. CloseOrder[i] # t
      BY <2>1, <2>4, CloseOrderFacts
    <3>2. db'[CloseOrder[i]] = db[CloseOrder[i]]
      BY <1>4, <2>2, <3>1 DEF CloseStep
    <3> QED
      BY <2>1, <2>4, <3>2 DEF ClosedInv
  <2>5. i = pos - Len(file) \/ i < pos - Len(file)
    BY <1>1, <2>1
  <2> QED
    BY <2>3, <2>4, <2>5
<1>5. CASE IdleStep
  <2>1. pc' = pc /\ pos' = pos /\ \A t \in RowTables : db'[t] = db[t]
    BY <1>5 DEF IdleStep
  <2>2. \A i \in 1 .. 9 : CloseOrder[i] # "polygon" => CloseOrder[i] \in RowTables
    BY CloseOrderFacts DEF RowTables
  <2> QED
    BY <1>1, <2>1, <2>2 DEF ClosedInv
<1> QED
    BY <1>2, <1>3, <1>4, <1>5 DEF RowStep

LEMMA AutocommitStep ==
    ASSUME BaseInv, TablesInv', AutocommitInv, RowStep
    PROVE  AutocommitInv'
<1> SUFFICES ASSUME NEW t \in TopologyTables PROVE db'[t].begun = FALSE
    BY DEF AutocommitInv
<1>1. t \in RowTables /\ t \in PlainTables /\ t \notin Transactional
    BY RowTablesFacts DEF PlainTables, TopologyTables, MemberTables, Transactional
<1>2. db[t].begun = FALSE
    BY DEF AutocommitInv
<1>3. CASE DeadStep
    BY <1>1, <1>3 DEF DeadStep
<1>4. CASE AgainStep
  <2>1. db'[t].begun \in BOOLEAN
    BY <1>1, RowTablesFacts DEF TablesInv, IsTable
  <2> QED
    BY <1>1, <1>4, <2>1 DEF AgainStep
<1>5. ASSUME ~DeadStep, ~AgainStep PROVE db'[t].begun = FALSE
  <2>1. CASE DeleteStep
    <3>1. Removes(t, file[pos])
      BY <1>1, <2>1 DEF DeleteStep
    <3> QED
      BY <1>2, <3>1 DEF Removes, Stored, SameMode
  <2>2. CASE SwitchStep
    BY <1>1, <1>2, <2>2 DEF SwitchStep, Started, Calm
  <2>3. CASE SendStep
    <3>1. Sends(t, file[pos])
      BY <1>1, <2>3 DEF SendStep
    <3> QED
      BY <1>2, <3>1 DEF Sends, Sent, Queried, Calm
  <2>4. CASE PhaseStep
    <3>1. Switches(t)
      BY <1>1, <2>4 DEF PhaseStep
    <3>2. ~Rewritten(t)
      BY <1>1, RowTablesFacts DEF Rewritten
    <3> QED
      BY <1>2, <3>1, <3>2 DEF Switches, Started, Ended, Queried, Calm
  <2>5. ASSUME NEW u \in Tables, CloseStep(u) PROVE db'[t].begun = FALSE
    BY <1>1, <1>2, <2>5 DEF CloseStep, Destroyed
  <2>6. CASE IdleStep
    BY <1>1, <1>2, <2>6 DEF IdleStep
  <2> QED
    BY <1>5, <2>1, <2>2, <2>3, <2>4, <2>5, <2>6 DEF RowStep
<1> QED
    BY <1>3, <1>4, <1>5
-----------------------------------------------------------------------------
(* Rows and versions.                                                       *)

LEMMA DataTablesFacts ==
    /\ DataTables \subseteq PlainTables /\ DataTables \subseteq RowTables
    /\ "point" \in DataTables
    /\ "untagged" \in DataTables <=> ~FlatNodes
BY RowTablesFacts
   DEF DataTables, NodeTables, PlainTables, TopologyTables, MemberTables

\* The run that writes a row makes no other difference.
LEMMA PlainRowsStrip ==
    ASSUME NEW t \in PlainTables, NEW c, NEW x
    PROVE  /\ \A r \in PlainRows(t, c, x) : [r EXCEPT !.run = 0] \in PlainRows(t, c, 0)
           /\ PlainRows(t, c, 0) \subseteq Strip(PlainRows(t, c, x))
<1>1. CASE c.deleted
    BY <1>1 DEF PlainRows, Strip
<1>2. CASE ~c.deleted /\ c.kind = "node" /\ t \in {"point", "untagged"}
  <2>1. \A y : PlainRows(t, c, y) = IF t = NodeTable(c) THEN {PointRow(c.id, c.loc, y)} ELSE {}
    BY <1>2 DEF PlainRows
  <2>2. [PointRow(c.id, c.loc, x) EXCEPT !.run = 0] = PointRow(c.id, c.loc, 0)
    BY DEF PointRow
  <2> QED
    BY <2>1, <2>2 DEF Strip
<1>3. CASE ~c.deleted /\ c.kind = "way" /\ t = "node_ways"
  <2>1. \A y : PlainRows(t, c, y) = NodeWayRows(c.id, c.refs, y)
    BY <1>3 DEF PlainRows
  <2>2. ASSUME NEW r \in NodeWayRows(c.id, c.refs, x)
        PROVE  [r EXCEPT !.run = 0] \in NodeWayRows(c.id, c.refs, 0)
    BY DEF NodeWayRows
  <2>3. ASSUME NEW q \in NodeWayRows(c.id, c.refs, 0)
        PROVE  \E r \in NodeWayRows(c.id, c.refs, x) : q = [r EXCEPT !.run = 0]
    <3>1. PICK i \in DOMAIN c.refs :
                q = [way |-> c.id, node |-> c.refs[i], pos |-> i, run |-> 0]
      BY DEF NodeWayRows
    <3> DEFINE r == [way |-> c.id, node |-> c.refs[i], pos |-> i, run |-> x]
    <3>2. r \in NodeWayRows(c.id, c.refs, x)
      BY DEF NodeWayRows
    <3> QED
      BY <3>1, <3>2
  <2> QED
    BY <2>1, <2>2, <2>3 DEF Strip
<1>4. CASE ~c.deleted /\ c.kind = "relation" /\ t \in MemberTables
  <2> DEFINE kind == CHOOSE k \in Kinds : TableOf(k) = t
  <2>1. \A y : PlainRows(t, c, y) = MemberRows(c.id, c.mems, kind, y)
    BY <1>4 DEF PlainRows, MemberTables
  <2> HIDE DEF kind
  <2>2. ASSUME NEW r \in MemberRows(c.id, c.mems, kind, x)
        PROVE  [r EXCEPT !.run = 0] \in MemberRows(c.id, c.mems, kind, 0)
    BY DEF MemberRows
  <2>3. ASSUME NEW q \in MemberRows(c.id, c.mems, kind, 0)
        PROVE  \E r \in MemberRows(c.id, c.mems, kind, x) : q = [r EXCEPT !.run = 0]
    <3>1. PICK i \in {i \in DOMAIN c.mems : c.mems[i].kind = kind} :
                q = [rel |-> c.id, member |-> c.mems[i].ref, pos |-> i, run |-> 0]
      BY DEF MemberRows
    <3> DEFINE r == [rel |-> c.id, member |-> c.mems[i].ref, pos |-> i, run |-> x]
    <3>2. r \in MemberRows(c.id, c.mems, kind, x)
      BY DEF MemberRows
    <3> QED
      BY <3>1, <3>2
  <2> QED
    BY <2>1, <2>2, <2>3 DEF Strip
<1>5. CASE ~(\/ c.deleted
             \/ c.kind = "node" /\ t \in {"point", "untagged"}
             \/ c.kind = "way" /\ t = "node_ways"
             \/ c.kind = "relation" /\ t \in MemberTables)
    BY <1>5 DEF PlainRows
<1> QED
    BY <1>1, <1>2, <1>3, <1>4, <1>5

\* Deleted nodes have no rows, and the other ones are in the table of their kind.
LEMMA FreshNode ==
    ASSUME NEW r, NEW k, Fresh("untagged", r, k)
    PROVE  ~file[k].deleted /\ ~file[k].tagged
BY DEF Fresh, PlainRows, NodeTable, MemberTables

\* Only writing brings rows that were not there, only a new connection
\* forgets any that were.
LEMMA PresentMoves ==
    ASSUME BaseInv, RowStep, NEW t \in PlainTables
    PROVE  \/ DeadStep \/ AgainStep
           \/ /\ SendStep /\ Sent(db[t], db'[t], PlainRows(t, file[pos], run))
              /\ Present(t)' = Present(t) \cup PlainRows(t, file[pos], run)
           \/ Present(t)' \subseteq Present(t)
<1>1. CASE db'[t] = db[t] \/ Queried(db[t], db'[t]) \/ Started(db[t], db'[t])
    BY <1>1 DEF Present, Queried, Started, Calm
<1>2. ASSUME NEW c, Stored(db[t], db'[t], {r \in db[t].live : IdIn(t, r) # c})
      PROVE  Present(t)' \subseteq Present(t)
    BY <1>2 DEF Present, Stored
<1>3. CASE Ended(db[t], db'[t]) \/ Destroyed(db[t], db'[t])
    BY <1>3 DEF Present, Ended, Destroyed
<1>4. CASE SendStep /\ Sent(db[t], db'[t], PlainRows(t, file[pos], run))
    BY <1>4 DEF Present, Sent, Calm
<1>5. Renewed(db[t], db'[t]) => DeadStep \/ AgainStep \/ Present(t)' \subseteq Present(t)
  <2> SUFFICES ASSUME Renewed(db[t], db'[t]), ~DeadStep, ~AgainStep
               PROVE  Present(t)' \subseteq Present(t)
    OBVIOUS
  <2>1. t \in RowTables /\ t # "line" /\ t # "relations"
    BY PlainTablesFacts
  <2>2. CASE DeleteStep
    <3>1. Removes(t, file[pos])
      BY <2>1, <2>2 DEF DeleteStep
    <3> QED
      BY <3>1 DEF Removes, Stored, Present
  <2>3. CASE SwitchStep
    BY <2>1, <2>3 DEF SwitchStep, Started, Calm, Present
  <2>4. CASE SendStep
    <3>1. Sends(t, file[pos])
      BY <2>1, <2>4 DEF SendStep
    <3> QED
      BY <3>1 DEF Sends, Sent, Queried, Calm, Present, Renewed
  <2>5. CASE PhaseStep
    <3>1. Switches(t)
      BY <2>1, <2>5 DEF PhaseStep
    <3> QED
      BY <2>1, <3>1 DEF Switches, Rewritten, Started, Ended, Queried, Calm, Present
  <2>6. ASSUME NEW u \in Tables, CloseStep(u) PROVE Present(t)' \subseteq Present(t)
    BY <2>1, <2>6 DEF CloseStep, Destroyed, Present
  <2>7. CASE IdleStep
    BY <2>1, <2>7 DEF IdleStep, Present
  <2> QED
    BY <2>2, <2>3, <2>4, <2>5, <2>6, <2>7 DEF RowStep
<1> QED
    BY <1>1, <1>2, <1>3, <1>4, <1>5, PlainMoves

\* What is committed was committed, or was there.
LEMMA SavedMoves ==
    ASSUME BaseInv, RowStep, NEW t \in PlainTables
    PROVE  db'[t].saved \subseteq db[t].saved \cup Present(t)
<1>1. db[t].begun \in BOOLEAN
    BY RowTablesFacts DEF BaseInv, TablesInv, IsTable
<1>2. ASSUME NEW c, Stored(db[t], db'[t], {r \in db[t].live : IdIn(t, r) # c})
      PROVE  db'[t].saved \subseteq db[t].saved \cup Present(t)
    BY <1>1, <1>2 DEF Stored, Saves, Present
<1>3. CASE Ended(db[t], db'[t])
    BY <1>1, <1>3 DEF Ended, Saves, Present
<1>4. CASE \/ db'[t] = db[t] \/ Queried(db[t], db'[t]) \/ Started(db[t], db'[t])
           \/ Sent(db[t], db'[t], PlainRows(t, file[pos], run))
           \/ Destroyed(db[t], db'[t]) \/ Renewed(db[t], db'[t])
    BY <1>4 DEF Queried, Started, Calm, Sent, Destroyed, Renewed, Present
<1> QED
    BY <1>2, <1>3, <1>4, PlainMoves

\* The committed rows of the nodes change when their table is destroyed.
LEMMA NodesSavedAtTheEnd ==
    ASSUME BaseInv, RowStep, NEW t \in {"point", "untagged"}, ~CloseStep(t)
    PROVE  db'[t].saved = db[t].saved
<1>1. t \in PlainTables /\ t \in RowTables /\ t \in Transactional
    BY PlainTablesFacts DEF Transactional
<1>2. Running => db[t].begun = TRUE
    BY <1>1 DEF BaseInv, TablesInv
<1>3. CASE DeleteStep
  <2>1. Removes(t, file[pos])
    BY <1>1, <1>3 DEF DeleteStep
  <2>2. db[t].begun = TRUE
    BY <1>2, <1>3 DEF DeleteStep, Running
  <2> QED
    BY <2>1, <2>2 DEF Removes, Stored, Saves
<1>4. CASE SwitchStep
    BY <1>1, <1>4 DEF SwitchStep, Started, Calm
<1>5. CASE SendStep
  <2>1. Sends(t, file[pos])
    BY <1>1, <1>5 DEF SendStep
  <2> QED
    BY <2>1 DEF Sends, Sent, Queried, Calm
<1>6. CASE PhaseStep
  <2>1. Switches(t) /\ ~Rewritten(t)
    BY <1>1, <1>6 DEF PhaseStep, Rewritten
  <2>2. pc = "pass2" => db[t].begun = TRUE
    BY <1>2 DEF Running
  <2> QED
    BY <2>1, <2>2 DEF Switches, Started, Ended, Queried, Calm, Saves
<1>7. ASSUME NEW u \in Tables, CloseStep(u) PROVE db'[t].saved = db[t].saved
  <2>1. u # t
    BY <1>7
  <2> QED
    BY <1>1, <1>7, <2>1 DEF CloseStep
<1>8. CASE DeadStep \/ AgainStep \/ IdleStep
    BY <1>1, <1>8 DEF DeadStep, AgainStep, IdleStep, Renewed
<1> QED
    BY <1>3, <1>4, <1>5, <1>6, <1>7, <1>8 DEF RowStep

\* The rows of an object of the file are the same in every state.
LEMMA SameVersions ==
    ASSUME RowStep, NEW t, NEW r, NEW k
    PROVE  /\ Matches(t, r, k)' <=> Matches(t, r, k)
           /\ Fresh(t, r, k)' <=> Fresh(t, r, k)
           /\ PlainRows(t, file[k], 0)' = PlainRows(t, file[k], 0)
<1>1. UNCHANGED <<old, file, options>>
    BY SameInput
<1>2. \A c : NodeTable(c)' = NodeTable(c)
    BY <1>1 DEF NodeTable, FlatNodes
<1>3. PlainRows(t, file[k], 0)' = PlainRows(t, file[k], 0)
    BY <1>1, <1>2 DEF PlainRows
<1> QED
    BY <1>1, <1>3 DEF Matches, Fresh
-----------------------------------------------------------------------------
(* Old versions go.                                                         *)

LEMMA FreshDelete ==
    ASSUME BaseInv, BothInv, DeletingInv, DeleteStep, NEW t \in DataTables,
           NEW r \in Present(t)', NEW k \in DOMAIN file, k = pos,
           Matches(t, r, k), ~IsNew(file[k])
    PROVE  MayBeStale(t, file[k])
<1>1. /\ pc = "pass1" /\ Removes(t, file[pos])
      /\ t \in RowTables /\ t \in PlainTables
    BY DataTablesFacts DEF DeleteStep
<1>2. db[t].lines = {}
    BY <1>1, RowTablesFacts DEF BaseInv, TablesInv, IsTable, RowsInv, Tidy, MayCopy
<1>3. file[pos].kind = KindOf(t) /\ file[pos].id = IdIn(t, r)
    BY DEF Matches
<1>4. file[pos].kind = "node" /\ t # NodeHome(file[pos])
  <2> SUFFICES ASSUME ~(file[pos].kind = "node" /\ t # NodeHome(file[pos])) PROVE FALSE
    OBVIOUS
  <2>1. Stored(db[t], db'[t], {s \in db[t].live : IdIn(t, s) # file[pos].id})
    BY <1>1, <1>3 DEF Removes
  <2> QED
    BY <1>2, <1>3, <2>1 DEF Stored, Present
<1>5. /\ t \in {"point", "untagged"} /\ db'[t] = db[t] /\ r \in db[t].live
      /\ r.id = file[pos].id
    BY <1>1, <1>2, <1>3, <1>4 DEF Removes, KindOf, IdIn, MemberTables, Present
<1>6. t = "point" /\ ~FlatNodes
    BY <1>4, <1>5, DataTablesFacts DEF NodeHome, Live
<1>7. PICK s \in db["untagged"].live : s.id = file[pos].id
    BY <1>4, <1>6 DEF NodeHome, Live
<1>8. r \in db["point"].saved /\ s \in db["untagged"].saved
    BY <1>1, <1>5, <1>6, <1>7 DEF DeletingInv
<1>9. Matches("untagged", s, k)
    BY <1>4, <1>7 DEF Matches, KindOf, IdIn, MemberTables
<1>10. ~file[k].deleted /\ ~file[k].tagged /\ run > 1
    BY <1>1, <1>6, <1>8, <1>9 DEF BothInv
<1> QED
    BY <1>6, <1>10 DEF MayBeStale

LEMMA FreshStep ==
    ASSUME BaseInv, OneVersionEach, RowStep, BothInv, DeletingInv,
           NEW t \in DataTables, FreshInv(t), AddedInv(t)
    PROVE  FreshInv(t)'
<1>1. UNCHANGED <<old, file, options>>
    BY SameInput
<1>2. /\ t \in PlainTables /\ t \in RowTables
      /\ run \in Nat /\ pos \in Nat /\ DOMAIN file = 1 .. Len(file) /\ Len(file) \in Nat
    BY DataTablesFacts, FileFacts DEF BaseInv, ControlInv, InputInv
<1> DEFINE Old(r, k) == /\ ~IsNew(file[k])
                        /\ \/ pc' = "dead" \/ (pc' = "pass1" /\ k >= pos')
                           \/ MayBeStale(t, file[k])'
<1> SUFFICES ASSUME NEW r \in Present(t)', NEW k \in DOMAIN file,
                    Matches(t, r, k), ~Fresh(t, r, k)
             PROVE  Old(r, k)
    BY <1>1, SameVersions DEF FreshInv, IsNew
<1>3. run' = run => (MayBeStale(t, file[k])' <=> MayBeStale(t, file[k]))
    BY <1>1 DEF MayBeStale, FlatNodes
<1>4. r \in Present(t) => /\ ~IsNew(file[k])
                          /\ \/ pc = "dead" \/ (pc = "pass1" /\ k >= pos)
                             \/ MayBeStale(t, file[k])
    BY DEF FreshInv
<1>5. DeadStep \/ AgainStep \/ r \in Present(t)
  <2>1. CASE SendStep /\ r \in PlainRows(t, file[pos], run)
    <3>1. pos \in DOMAIN file
      BY <2>1 DEF SendStep
    <3>2. file[pos].kind = KindOf(t) /\ file[pos].id = IdIn(t, r)
      BY <1>2, <2>1, PlainRowsOwner
    <3>3. k = pos
      BY <3>1, <3>2 DEF Matches, OneVersionEach
    <3>4. Fresh(t, r, k)
      BY <1>2, <2>1, <3>3, PlainRowsStrip DEF Fresh
    <3> QED
      BY <3>4
  <2> QED
    BY <1>2, <2>1, PresentMoves
<1>6. CASE DeadStep \/ AgainStep
  <2>1. r \in db[t].saved
    BY <1>2, <1>6 DEF DeadStep, AgainStep, Renewed, Present
  <2>2. ~IsNew(file[k])
    BY <2>1 DEF AddedInv
  <2> QED
    BY <1>2, <1>6, <2>2 DEF DeadStep, AgainStep
<1>7. CASE DeleteStep
  <2>1. pc = "pass1" /\ pc' = "pass1" /\ pos' = pos + 1 /\ run' = run
    BY <1>7 DEF DeleteStep
  <2>2. ~DeadStep /\ ~AgainStep
    BY <2>1 DEF DeadStep, AgainStep
  <2>3. CASE k = pos
    BY <1>3, <1>4, <1>5, <1>7, <2>1, <2>2, <2>3, FreshDelete
  <2>4. CASE k # pos
    BY <1>2, <1>3, <1>4, <1>5, <2>1, <2>2, <2>4
  <2> QED
    BY <2>3, <2>4
<1>8. CASE SwitchStep
  <2>1. pc = "pass1" /\ pc' = "pass2" /\ pos > Len(file) /\ run' = run
    BY <1>8 DEF SwitchStep
  <2> QED
    BY <1>2, <1>3, <1>4, <1>5, <2>1 DEF DeadStep, AgainStep
<1>9. CASE SendStep \/ PhaseStep \/ \E u \in Tables : CloseStep(u)
  <2>1. pc \notin {"dead", "pass1"} /\ pc' # "dead" /\ pc' # "pass1" /\ run' = run
    BY <1>9 DEF SendStep, PhaseStep, PhaseChange, CloseStep, Closing
  <2> QED
    BY <1>3, <1>4, <1>5, <2>1 DEF DeadStep, AgainStep
<1>10. CASE IdleStep
  <2>1. UNCHANGED <<run, pc, pos>> /\ db'[t] = db[t]
    BY <1>2, <1>10 DEF IdleStep
  <2> QED
    BY <1>3, <1>4, <2>1 DEF Present
<1> QED
    BY <1>6, <1>7, <1>8, <1>9, <1>10 DEF RowStep

LEMMA AddedStep ==
    ASSUME BaseInv, RowStep, NEW t \in DataTables, FreshInv(t), AddedInv(t)
    PROVE  AddedInv(t)'
<1>1. UNCHANGED <<old, file, options>>
    BY SameInput
<1>2. db'[t].saved \subseteq db[t].saved \cup Present(t)
    BY DataTablesFacts, SavedMoves
<1>3. ASSUME NEW r \in db'[t].saved, NEW k \in DOMAIN file, Matches(t, r, k), IsNew(file[k])
      PROVE  Fresh(t, r, k)
    BY <1>2, <1>3 DEF FreshInv, AddedInv
<1> QED
    BY <1>1, <1>3, SameVersions DEF AddedInv, IsNew

LEMMA DeletingStep ==
    ASSUME BaseInv, RowStep, DeletingInv
    PROVE  DeletingInv'
<1> SUFFICES ASSUME pc' = "pass1", NEW t \in {"point", "untagged"}
             PROVE  db'[t].live \subseteq db'[t].saved
    BY DEF DeletingInv
<1>1. t \in RowTables /\ t \in Transactional
    BY RowTablesFacts DEF Transactional
<1>2. CASE DeleteStep
  <2>1. pc = "pass1" /\ Removes(t, file[pos])
    BY <1>1, <1>2 DEF DeleteStep
  <2>2. db[t].begun = TRUE
    BY <1>1, <2>1 DEF BaseInv, TablesInv, Running
  <2> QED
    BY <2>1, <2>2 DEF Removes, Stored, Saves, DeletingInv
<1>3. CASE AgainStep
    BY <1>1, <1>3 DEF AgainStep, Renewed
<1>4. CASE IdleStep
    BY <1>1, <1>4 DEF IdleStep, DeletingInv
<1>5. ~SwitchStep /\ ~SendStep /\ ~PhaseStep /\ ~DeadStep /\ \A t1 \in Tables : ~CloseStep(t1)
    BY DEF SwitchStep, SendStep, PhaseStep, PhaseChange, DeadStep, CloseStep
<1> QED
    BY <1>2, <1>3, <1>4, <1>5 DEF RowStep

LEMMA BothStep ==
    ASSUME BaseInv, ClosedInv, RowStep, BothInv, ~FlatNodes => FreshInv("untagged")
    PROVE  BothInv'
<1>1. UNCHANGED <<old, file, options>> /\ run \in Nat
    BY SameInput DEF BaseInv, InputInv
<1> SUFFICES ASSUME ~FlatNodes, NEW k \in DOMAIN file, ~IsNew(file[k]),
                    NEW r \in db'["point"].saved, NEW s \in db'["untagged"].saved,
                    Matches("point", r, k), Matches("untagged", s, k)
             PROVE  /\ ~file[k].deleted /\ ~file[k].tagged
                    /\ run' > 1 \/ pc' \in {"close", "done", "dead"}
    BY <1>1, SameVersions DEF BothInv, FlatNodes, IsNew
<1>2. \A u \in Present("untagged") : Matches("untagged", u, k) /\ pc = "close" =>
            ~file[k].deleted /\ ~file[k].tagged
  <2> SUFFICES ASSUME NEW u \in Present("untagged"), Matches("untagged", u, k), pc = "close"
               PROVE  Fresh("untagged", u, k)
    BY FreshNode
  <2> QED
    BY DEF FreshInv, MayBeStale
<1>3. CASE CloseStep("untagged")
  <2>1. pc = "close" /\ pc' = "close" /\ s \in Present("untagged")
    BY <1>3, RowTablesFacts DEF CloseStep, Closing, Destroyed, Present
  <2> QED
    BY <1>2, <2>1
<1>4. CASE CloseStep("point")
  <2>1. pc = "close" /\ pc' = "done" /\ db'["untagged"] = db["untagged"]
    BY <1>4, RowTablesFacts DEF CloseStep, Closing
  <2>2. CloseOrder[pos - Len(file)] = "point" /\ pos - Len(file) \in 1 .. 9
    BY <1>4, FileFacts DEF CloseStep, Closing, BaseInv, ControlInv
  <2>3. pos - Len(file) = 9
    BY <2>2, CloseOrderFacts
  <2>4. CloseOrder[8] = "untagged"
    BY DEF CloseOrder
  <2>5. db["untagged"].begun = FALSE
    BY <2>1, <2>3, <2>4 DEF ClosedInv
  <2>6. s \in Present("untagged")
    BY <2>1, <2>5, RowTablesFacts DEF BaseInv, RowsInv, Tidy, Present
  <2> QED
    BY <1>2, <2>1, <2>6
<1>5. CASE ~CloseStep("untagged") /\ ~CloseStep("point")
  <2>1. db'["point"].saved = db["point"].saved /\ db'["untagged"].saved = db["untagged"].saved
    BY <1>5, NodesSavedAtTheEnd
  <2>2. /\ ~file[k].deleted /\ ~file[k].tagged
        /\ run > 1 \/ pc \in {"close", "done", "dead"}
    BY <2>1 DEF BothInv
  <2>3. run' = run \/ (run' = run + 1 /\ run >= 1)
    BY DEF RowStep, DeleteStep, SwitchStep, SendStep, PhaseStep, CloseStep, DeadStep,
        AgainStep, IdleStep, BaseInv, InputInv
  <2>4. pc \in {"close", "done", "dead"} => run' > 1 \/ pc' \in {"close", "done", "dead"}
    <3>1. AgainStep => run' > 1
      BY <1>1 DEF AgainStep, BaseInv, InputInv
    <3> QED
      BY <3>1 DEF RowStep, DeleteStep, SwitchStep, SendStep, PhaseStep, PhaseChange,
            CloseStep, DeadStep, IdleStep
  <2> QED
    BY <1>1, <2>2, <2>3, <2>4
<1> QED
    BY <1>3, <1>4, <1>5
-----------------------------------------------------------------------------
(* New versions come.                                                       *)

LEMMA ThereStep ==
    ASSUME BaseInv, SortedFile, LossInv, LossInv', RowStep, NEW t \in DataTables, ThereInv(t)
    PROVE  ThereInv(t)'
<1>1. UNCHANGED <<old, file, options>>
    BY SameInput
<1>2. /\ t \in PlainTables /\ t \in RowTables
      /\ db[t].copy \in BOOLEAN /\ db[t].stream \in BOOLEAN
      /\ DOMAIN file = 1 .. Len(file) /\ Len(file) \in Nat /\ pos \in Nat
    BY DataTablesFacts, RowTablesFacts, FileFacts DEF BaseInv, TablesInv, IsTable, ControlInv
<1>3. db[t].copy = FALSE => db[t].lines = {}
    BY <1>2 DEF BaseInv, RowsInv, Tidy
<1> DEFINE Lost == db[t].copy = TRUE /\ db[t].stream = FALSE
           LostNow == db'[t].copy = TRUE /\ db'[t].stream = FALSE
           There(k) == PlainRows(t, file[k], 0) \subseteq Strip(Present(t))
           ThereNow(k) == PlainRows(t, file[k], 0) \subseteq Strip(Present(t)')
<1> SUFFICES ASSUME InPass2', NEW k \in DOMAIN file, k < pos'
             PROVE  LostNow \/ ThereNow(k)
    BY <1>1, SameVersions DEF ThereInv, Strip
<1>4. Lost => AtTheEnd
    BY <1>2 DEF LossInv
<1>5. InPass2 /\ k < pos => Lost \/ There(k)
    BY DEF ThereInv
<1>6. Present(t) \subseteq Present(t)' => (There(k) => ThereNow(k))
    BY DEF Strip
<1>7. CASE SwitchStep
    BY <1>2, <1>7 DEF SwitchStep
<1>8. CASE SendStep
  <2>1. pc = "pass2" /\ pos' = pos + 1 /\ pos \in DOMAIN file /\ Sends(t, file[pos])
    BY <1>2, <1>8 DEF SendStep
  <2>2. ~Lost
    BY <1>4, <2>1 DEF AtTheEnd
  <2>3. WrittenRows(t, file[pos]) = PlainRows(t, file[pos], run)
    BY <1>2, RowTablesFacts DEF WrittenRows
  <2>4. CASE Sent(db[t], db'[t], PlainRows(t, file[pos], run))
    <3>1. Present(t)' = Present(t) \cup PlainRows(t, file[pos], run)
      BY <2>4 DEF Sent, Calm, Present
    <3>2. CASE k < pos
      BY <1>5, <1>6, <2>1, <2>2, <3>1, <3>2 DEF InPass2
    <3>3. CASE k = pos
      BY <1>2, <3>1, <3>3, PlainRowsStrip DEF Strip
    <3>4. k < pos \/ k = pos
      BY <1>2, <2>1
    <3> QED
      BY <3>2, <3>3, <3>4
  <2>5. ASSUME PlainRows(t, file[pos], run) = {}, Present(t)' = Present(t)
        PROVE  ThereNow(k)
    <3>1. CASE k < pos
      BY <1>5, <1>6, <2>1, <2>2, <2>5, <3>1 DEF InPass2
    <3>2. CASE k = pos
      <4>1. PlainRows(t, file[pos], 0) = {}
        BY <1>2, <2>5, PlainRowsStrip DEF Strip
      <4> QED
        BY <3>2, <4>1
    <3> QED
      BY <1>2, <2>1, <3>1, <3>2
  <2>6. CASE PlainRows(t, file[pos], run) = {} /\ db'[t] = db[t]
    BY <2>5, <2>6 DEF Present
  <2>7. CASE PlainRows(t, file[pos], run) = {} /\ Queried(db[t], db'[t])
    <3>1. db[t].copy = TRUE => LostNow
      BY <2>7 DEF Queried
    <3>2. db[t].copy = FALSE => Present(t)' = Present(t)
      BY <1>3, <2>7 DEF Queried, Calm, Present
    <3> QED
      BY <1>2, <2>5, <2>7, <3>1, <3>2
  <2> QED
    BY <2>1, <2>3, <2>4, <2>6, <2>7 DEF Sends
<1>9. CASE PhaseStep
  <2>1. pos' = pos /\ InPass2 /\ Switches(t) /\ ~Rewritten(t)
    BY <1>2, <1>9, RowTablesFacts DEF PhaseStep, PhaseChange, InPass2, Rewritten
  <2>2. CASE db'[t] = db[t]
    BY <1>5, <1>6, <2>1, <2>2 DEF Present
  <2>3. CASE Started(db[t], db'[t])
    BY <1>3, <1>5, <1>6, <2>1, <2>3 DEF Started, Calm, Present
  <2>4. CASE Ended(db[t], db'[t]) /\ pc = "pass2"
    BY <1>4, <1>5, <1>6, <2>1, <2>4 DEF Ended, Present, AtTheEnd
  <2>5. CASE Queried(db[t], db'[t])
    BY <1>2, <1>3, <1>5, <1>6, <2>1, <2>5 DEF Queried, Calm, Present
  <2> QED
    BY <2>1, <2>2, <2>3, <2>4, <2>5 DEF Switches
<1>10. ASSUME NEW u \in Tables, CloseStep(u) PROVE LostNow \/ ThereNow(k)
  <2>1. /\ pc = "close" /\ pos \in Len(file) + 1 .. Len(file) + 9
        /\ Destroyed(db[t], db'[t]) \/ db'[t] = db[t]
    BY <1>2, <1>10 DEF CloseStep, Closing, BaseInv, ControlInv
  <2>2. k < pos /\ InPass2
    BY <1>2, <2>1 DEF InPass2
  <2>3. CASE db'[t] = db[t]
    BY <1>5, <1>6, <2>2, <2>3 DEF Present
  <2>4. CASE Destroyed(db[t], db'[t])
    BY <1>5, <1>6, <2>2, <2>4 DEF Destroyed, Present
  <2> QED
    BY <2>1, <2>3, <2>4
<1>11. CASE IdleStep
  <2>1. UNCHANGED <<pc, pos>> /\ db'[t] = db[t]
    BY <1>2, <1>11 DEF IdleStep
  <2> QED
    BY <1>5, <1>6, <2>1 DEF Present, InPass2
<1>12. ~DeleteStep /\ ~DeadStep /\ ~AgainStep
    BY DEF InPass2, DeleteStep, DeadStep, AgainStep
<1> QED
    BY <1>7, <1>8, <1>9, <1>10, <1>11, <1>12 DEF RowStep

LEMMA VersionsStep ==
    ASSUME BaseInv, BaseInv', LossInv, LossInv', EndInv, VersionsInv, RowStep
    PROVE  EndInv' /\ VersionsInv'
<1>1. UNCHANGED <<old, file, options>>
    BY SameInput
<1>2. EndInv'
    BY ClosedStep, AutocommitStep DEF EndInv, BaseInv
<1>3. ProperFile' <=> ProperFile
    BY <1>1 DEF ProperFile, SortedFile, OneVersionEach, AddedAreNew, OldIds, IsNew
<1>4. DataTables' = DataTables
    BY <1>1 DEF DataTables, NodeTables, FlatNodes
<1>5. ASSUME ProperFile
      PROVE  /\ \A t \in DataTables : FreshInv(t)' /\ AddedInv(t)' /\ ThereInv(t)'
             /\ BothInv' /\ DeletingInv'
  <2>1. /\ SortedFile /\ OneVersionEach /\ BothInv /\ DeletingInv /\ ClosedInv
        /\ \A t \in DataTables : FreshInv(t) /\ AddedInv(t) /\ ThereInv(t)
    BY <1>5 DEF ProperFile, VersionsInv, EndInv
  <2>2. BothInv' /\ DeletingInv'
    BY <2>1, BothStep, DeletingStep, DataTablesFacts
  <2> QED
    BY <2>1, <2>2, FreshStep, AddedStep, ThereStep
<1> QED
  <2>1. \A t \in DataTables' : t \in DataTables
    BY <1>4
  <2> QED
    BY <1>2, <1>3, <1>5, <2>1 DEF VersionsInv

\* The rows an import makes belong to objects of the data set.
LEMMA ImportedOwner ==
    ASSUME InputInv, NEW t \in PlainTables, NEW r \in Imported(old, PolygonTable)[t]
    PROVE  IdIn(t, r) \in OldIds(KindOf(t)) /\ r.run = 0
<1>1. CASE t \in {"point", "untagged"}
    BY <1>1, ImportedNodes DEF PointRow, IdIn, KindOf, OldIds, MemberTables
<1>2. CASE t = "node_ways"
  <2>1. r \in UNION {NodeWayRows(w, old.way[w].refs, 0) : w \in ImportedWays(old) \cup old.late}
    BY <1>2 DEF Imported, Tables, MemberTables
  <2>2. PICK w \in ImportedWays(old) \cup old.late : r \in NodeWayRows(w, old.way[w].refs, 0)
    BY <2>1
  <2>3. w \in DOMAIN old.way
    BY DEF InputInv, IsDataSet, ImportedWays
  <2>4. r.way = w /\ r.run = 0
    BY <2>2 DEF NodeWayRows
  <2> QED
    BY <1>2, <2>3, <2>4 DEF IdIn, KindOf, OldIds
<1>3. CASE t \in MemberTables
  <2> DEFINE kind == CHOOSE k \in Kinds : TableOf(k) = t
  <2>1. r \in UNION {MemberRows(rel, old.rel[rel].mems, kind, 0) : rel \in DOMAIN old.rel}
    BY <1>3 DEF Imported, Tables, MemberTables
  <2> HIDE DEF kind
  <2>2. PICK rel \in DOMAIN old.rel : r \in MemberRows(rel, old.rel[rel].mems, kind, 0)
    BY <2>1
  <2>3. r.rel = rel /\ r.run = 0
    BY <2>2 DEF MemberRows
  <2> QED
    BY <1>3, <2>3 DEF IdIn, KindOf, OldIds, MemberTables
<1> QED
    BY <1>1, <1>2, <1>3 DEF PlainTables, TopologyTables

LEMMA InitVersions == Init => EndInv /\ VersionsInv
<1> SUFFICES ASSUME Init PROVE EndInv /\ VersionsInv
    OBVIOUS
<1>1. BaseInv /\ InputInv /\ TablesInv /\ pc = "pass1" /\ pos = 1
    BY InitBase DEF Init, BaseInv
<1>2. \A t \in RowTables : /\ db[t].saved = Imported(old, PolygonTable)[t]
                           /\ db[t].live = Imported(old, PolygonTable)[t]
                           /\ db[t].lines = {}
    BY InitRows
<1>3. EndInv
  <2>1. \A t \in TopologyTables : db[t].begun = FALSE
    <3> SUFFICES ASSUME NEW t \in TopologyTables PROVE db[t].begun = FALSE
      OBVIOUS
    <3> DEFINE saved == Imported(old, PolygonTable)
    <3>1. db = Opened(saved) /\ t \in Tables /\ t \notin {"relations", "point", "untagged", "line"}
      BY DEF Init, TopologyTables, MemberTables, Tables
    <3> HIDE DEF saved
    <3>2. db[t] = Connect(saved[t])
      BY <3>1 DEF Opened
    <3> QED
      BY <3>2, ConnectFields
  <2> QED
    BY <1>1, <2>1 DEF EndInv, ClosedInv, AutocommitInv
<1>4. ASSUME ProperFile, NEW t \in DataTables
      PROVE  FreshInv(t) /\ AddedInv(t) /\ ThereInv(t)
  <2>1. t \in PlainTables /\ t \in RowTables
    BY DataTablesFacts
  <2>2. Present(t) = Imported(old, PolygonTable)[t] /\ db[t].saved = Imported(old, PolygonTable)[t]
    BY <1>2, <2>1 DEF Present
  <2>3. ASSUME NEW r \in Imported(old, PolygonTable)[t], NEW k \in DOMAIN file, Matches(t, r, k)
        PROVE  ~IsNew(file[k])
    BY <1>1, <1>4, <2>1, <2>3, ImportedOwner DEF Matches, ProperFile, AddedAreNew
  <2>4. \A k \in DOMAIN file : k >= 1
    BY <1>1, FileFacts
  <2> QED
    BY <1>1, <2>2, <2>3, <2>4 DEF FreshInv, AddedInv, ThereInv, InPass2
<1>5. BothInv
  <2>1. ASSUME NEW r \in db["point"].saved, NEW s \in db["untagged"].saved PROVE r.id # s.id
    BY <1>2, RowTablesFacts, ImportedNodesDiffer
  <2> QED
    BY <2>1 DEF BothInv, Matches, IdIn, MemberTables
<1>6. DeletingInv
    BY <1>2, RowTablesFacts DEF DeletingInv
<1> QED
    BY <1>3, <1>4, <1>5, <1>6 DEF VersionsInv
-----------------------------------------------------------------------------
(* The rows that are expected.                                              *)

\* The objects that have rows in a table, and the rows of one of them.
ObjectsOf(data, t) ==
    IF KindOf(t) = "node" THEN DOMAIN data.node
    ELSE IF KindOf(t) = "way" THEN DOMAIN data.way ELSE DOMAIN data.rel
RowsOf(data, t, id) ==
    IF t = "point"
    THEN IF data.node[id].tagged THEN {PointRow(id, data.node[id].loc, 0)} ELSE {}
    ELSE IF t = "untagged"
    THEN IF data.node[id].tagged THEN {} ELSE {PointRow(id, data.node[id].loc, 0)}
    ELSE IF t = "node_ways" THEN NodeWayRows(id, data.way[id].refs, 0)
    ELSE MemberRows(id, data.rel[id].mems, CHOOSE k \in Kinds : TableOf(k) = t, 0)

\* A data set in which every way has nodes that are there: the import leaves out
\* no way.
WholeWays(data) ==
    \A w \in DOMAIN data.way : Len(data.way[w].refs) >= 2 /\ Complete(WayLine(data, w))

LEMMA ImportedRowsOf ==
    ASSUME NEW data, NEW withAreas, NEW t \in PlainTables, data.late \subseteq DOMAIN data.way,
           t = "node_ways" => WholeWays(data)
    PROVE  Imported(data, withAreas)[t] = UNION {RowsOf(data, t, id) : id \in ObjectsOf(data, t)}
<1>1. CASE t = "point"
  <2>1. ObjectsOf(data, t) = DOMAIN data.node
    BY <1>1 DEF ObjectsOf, KindOf
  <2>2. \A id : RowsOf(data, t, id) =
            IF data.node[id].tagged THEN {PointRow(id, data.node[id].loc, 0)} ELSE {}
    BY <1>1 DEF RowsOf
  <2> QED
    BY <1>1, <2>1, <2>2, ImportedNodes
<1>2. CASE t = "untagged"
  <2>1. ObjectsOf(data, t) = DOMAIN data.node
    BY <1>2 DEF ObjectsOf, KindOf
  <2>2. \A id : RowsOf(data, t, id) =
            IF data.node[id].tagged THEN {} ELSE {PointRow(id, data.node[id].loc, 0)}
    BY <1>2 DEF RowsOf
  <2> QED
    BY <1>2, <2>1, <2>2, ImportedNodes
<1>3. CASE t = "node_ways"
  <2>1. ObjectsOf(data, t) = DOMAIN data.way
    BY <1>3 DEF ObjectsOf, KindOf
  <2>2. \A id : RowsOf(data, t, id) = NodeWayRows(id, data.way[id].refs, 0)
    BY <1>3 DEF RowsOf
  <2>3. Imported(data, withAreas)[t] = UNION {NodeWayRows(w, data.way[w].refs, 0) :
                                            w \in ImportedWays(data) \cup data.late}
    BY <1>3 DEF Imported, Tables, MemberTables
  <2>4. ImportedWays(data) \cup data.late = DOMAIN data.way
    BY <1>3 DEF ImportedWays, WholeWays
  <2> QED
    BY <2>1, <2>2, <2>3, <2>4
<1>4. CASE t \in MemberTables
  <2> DEFINE kind == CHOOSE k \in Kinds : TableOf(k) = t
  <2>1. ObjectsOf(data, t) = DOMAIN data.rel
    BY <1>4 DEF ObjectsOf, KindOf, MemberTables
  <2>2. \A id : RowsOf(data, t, id) = MemberRows(id, data.rel[id].mems, kind, 0)
    BY <1>4 DEF RowsOf, MemberTables
  <2>3. Imported(data, withAreas)[t] =
            UNION {MemberRows(rel, data.rel[rel].mems, kind, 0) : rel \in DOMAIN data.rel}
    BY <1>4 DEF Imported, Tables, MemberTables
  <2> HIDE DEF kind
  <2> QED
    BY <2>1, <2>2, <2>3
<1> QED
    BY <1>1, <1>2, <1>3, <1>4 DEF PlainTables, TopologyTables

\* A row of an import says nothing of a run.
LEMMA ImportedStrip ==
    ASSUME NEW data, NEW t \in PlainTables, NEW id, NEW r \in RowsOf(data, t, id)
    PROVE  [r EXCEPT !.run = 0] = r /\ IdIn(t, r) = id
<1>1. CASE t \in {"point", "untagged"}
  <2>1. r = PointRow(id, data.node[id].loc, 0)
    BY <1>1 DEF RowsOf
  <2> QED
    BY <1>1, <2>1 DEF PointRow, IdIn, MemberTables
<1>2. CASE t = "node_ways"
  <2>1. PICK i : r = [way |-> id, node |-> data.way[id].refs[i], pos |-> i, run |-> 0]
    BY <1>2 DEF RowsOf, NodeWayRows
  <2> QED
    BY <1>2, <2>1 DEF IdIn
<1>3. CASE t \in MemberTables
  <2> DEFINE kind == CHOOSE k \in Kinds : TableOf(k) = t
  <2>1. r \in MemberRows(id, data.rel[id].mems, kind, 0)
    BY <1>3 DEF RowsOf, MemberTables
  <2> HIDE DEF kind
  <2>2. PICK i : r = [rel |-> id, member |-> data.rel[id].mems[i].ref, pos |-> i, run |-> 0]
    BY <2>1 DEF MemberRows
  <2> QED
    BY <1>3, <2>2 DEF IdIn, MemberTables
<1> QED
    BY <1>1, <1>2, <1>3 DEF PlainTables, TopologyTables

\* The data set after the diff, object by object.
LEMMA GetUnique ==
    ASSUME OneVersionEach, NEW k \in DOMAIN file
    PROVE  Change(file[k].kind, file[k].id) = file[k]
<1> DEFINE j == CHOOSE j \in DOMAIN file : file[j].kind = file[k].kind /\ file[j].id = file[k].id
<1>1. j \in DOMAIN file /\ file[j].kind = file[k].kind /\ file[j].id = file[k].id
    OBVIOUS
<1>2. Change(file[k].kind, file[k].id) = file[j]
    BY DEF Change, Get
<1> HIDE DEF j
<1> QED
    BY <1>1, <1>2 DEF OneVersionEach

LEMMA ReplaceDomain ==
    ASSUME OneVersionEach, NEW before, NEW kind
    PROVE  LET ids == {id \in DOMAIN before : ~InFile(kind, id)} \cup Written(kind)
           IN  /\ \A id : ~InFile(kind, id) => (id \in ids <=> id \in DOMAIN before)
               /\ \A k \in DOMAIN file :
                        file[k].kind = kind => (file[k].id \in ids <=> ~file[k].deleted)
<1>1. \A id : id \in Written(kind) <=>
            \E k \in DOMAIN file : file[k].kind = kind /\ ~file[k].deleted /\ file[k].id = id
    BY DEF Written, WrittenBy
<1>2. \A id : InFile(kind, id) <=> \E k \in DOMAIN file : file[k].kind = kind /\ file[k].id = id
    BY DEF InFile, Has
<1> QED
    BY <1>1, <1>2 DEF OneVersionEach

LEMMA NewNodes ==
    ASSUME OneVersionEach
    PROVE  /\ \A id : ~InFile("node", id) =>
                /\ id \in DOMAIN New.node <=> id \in DOMAIN old.node
                /\ id \in DOMAIN old.node => New.node[id] = old.node[id]
           /\ \A k \in DOMAIN file : file[k].kind = "node" =>
                /\ file[k].id \in DOMAIN New.node <=> ~file[k].deleted
                /\ ~file[k].deleted => /\ New.node[file[k].id].loc = file[k].loc
                                       /\ New.node[file[k].id].tagged = file[k].tagged
<1> DEFINE ids == {id \in DOMAIN old.node : ~InFile("node", id)} \cup Written("node")
<1>1. New.node = [id \in ids |->
            IF InFile("node", id)
            THEN [loc |-> Change("node", id).loc, tagged |-> Change("node", id).tagged]
            ELSE old.node[id]]
    BY DEF New, After, Replace, InFile, Change, Written
<1>2. /\ \A id : ~InFile("node", id) => (id \in ids <=> id \in DOMAIN old.node)
      /\ \A k \in DOMAIN file :
            file[k].kind = "node" => (file[k].id \in ids <=> ~file[k].deleted)
    BY ReplaceDomain
<1> HIDE DEF ids
<1>3. \A k \in DOMAIN file :
            file[k].kind = "node" => /\ InFile("node", file[k].id)
                                     /\ Change("node", file[k].id) = file[k]
    BY GetUnique DEF InFile, Has
<1> QED
    BY <1>1, <1>2, <1>3

LEMMA NewWays ==
    ASSUME OneVersionEach
    PROVE  /\ \A id : ~InFile("way", id) =>
                /\ id \in DOMAIN New.way <=> id \in DOMAIN old.way
                /\ id \in DOMAIN old.way => New.way[id] = old.way[id]
           /\ \A k \in DOMAIN file : file[k].kind = "way" =>
                /\ file[k].id \in DOMAIN New.way <=> ~file[k].deleted
                /\ ~file[k].deleted =>
                    /\ New.way[file[k].id].refs = file[k].refs
                    /\ New.way[file[k].id].tagged = file[k].tagged
           /\ old.late \subseteq DOMAIN old.way => New.late \subseteq DOMAIN New.way
<1> DEFINE ids == {id \in DOMAIN old.way : ~InFile("way", id)} \cup Written("way")
<1>1. New.way = [id \in ids |->
            IF InFile("way", id)
            THEN [refs |-> Change("way", id).refs, tagged |-> Change("way", id).tagged,
                  area |-> Change("way", id).area]
            ELSE old.way[id]]
    BY DEF New, After, Replace, InFile, Change, Written
<1>2. /\ \A id : ~InFile("way", id) => (id \in ids <=> id \in DOMAIN old.way)
      /\ \A k \in DOMAIN file :
            file[k].kind = "way" => (file[k].id \in ids <=> ~file[k].deleted)
    BY ReplaceDomain
<1>3. old.late \subseteq DOMAIN old.way => New.late \subseteq ids
    BY DEF New, After, InFile, Written
<1> HIDE DEF ids
<1>4. \A k \in DOMAIN file :
            file[k].kind = "way" => /\ InFile("way", file[k].id)
                                    /\ Change("way", file[k].id) = file[k]
    BY GetUnique DEF InFile, Has
<1> QED
    BY <1>1, <1>2, <1>3, <1>4

LEMMA NewRels ==
    ASSUME OneVersionEach
    PROVE  /\ \A id : ~InFile("relation", id) =>
                /\ id \in DOMAIN New.rel <=> id \in DOMAIN old.rel
                /\ id \in DOMAIN old.rel => New.rel[id] = old.rel[id]
           /\ \A k \in DOMAIN file : file[k].kind = "relation" =>
                /\ file[k].id \in DOMAIN New.rel <=> ~file[k].deleted
                /\ ~file[k].deleted => New.rel[file[k].id].mems = file[k].mems
<1> DEFINE ids == {id \in DOMAIN old.rel : ~InFile("relation", id)} \cup Written("relation")
<1>1. New.rel = [id \in ids |->
            IF InFile("relation", id)
            THEN [mems |-> Change("relation", id).mems, mp |-> Change("relation", id).mp]
            ELSE old.rel[id]]
    BY DEF New, After, Replace, InFile, Change, Written
<1>2. /\ \A id : ~InFile("relation", id) => (id \in ids <=> id \in DOMAIN old.rel)
      /\ \A k \in DOMAIN file :
            file[k].kind = "relation" => (file[k].id \in ids <=> ~file[k].deleted)
    BY ReplaceDomain
<1> HIDE DEF ids
<1>3. \A k \in DOMAIN file :
            file[k].kind = "relation" => /\ InFile("relation", file[k].id)
                                         /\ Change("relation", file[k].id) = file[k]
    BY GetUnique DEF InFile, Has
<1> QED
    BY <1>1, <1>2, <1>3

\* An object that is not in the file keeps its rows, one that is in it gets the
\* rows of its version in the file.
LEMMA NewRowsOf ==
    ASSUME InputInv, OneVersionEach, NEW t \in DataTables
    PROVE  /\ \A id : ~InFile(KindOf(t), id) =>
                /\ id \in ObjectsOf(New, t) <=> id \in ObjectsOf(old, t)
                /\ id \in ObjectsOf(old, t) => RowsOf(New, t, id) = RowsOf(old, t, id)
           /\ \A k \in DOMAIN file : file[k].kind = KindOf(t) =>
                /\ file[k].id \in ObjectsOf(New, t) <=> ~file[k].deleted
                /\ ~file[k].deleted => RowsOf(New, t, file[k].id) = PlainRows(t, file[k], 0)
<1>1. t \in PlainTables /\ (t = "untagged" => ~FlatNodes)
    BY DataTablesFacts
<1>2. CASE t \in {"point", "untagged"}
  <2>1. KindOf(t) = "node" /\ \A data : ObjectsOf(data, t) = DOMAIN data.node
    BY <1>2 DEF KindOf, ObjectsOf
  <2>2. ASSUME NEW k \in DOMAIN file, file[k].kind = "node", ~file[k].deleted
        PROVE  RowsOf(New, t, file[k].id) = PlainRows(t, file[k], 0)
    <3>1. /\ New.node[file[k].id].loc = file[k].loc
          /\ New.node[file[k].id].tagged = file[k].tagged
      BY <2>2, NewNodes
    <3> QED
      BY <1>1, <1>2, <2>2, <3>1 DEF RowsOf, PlainRows, NodeTable
  <2>3. \A id : New.node[id] = old.node[id] => RowsOf(New, t, id) = RowsOf(old, t, id)
    BY <1>2 DEF RowsOf
  <2> QED
    BY <2>1, <2>2, <2>3, NewNodes
<1>3. CASE t = "node_ways"
  <2>1. KindOf(t) = "way" /\ \A data : ObjectsOf(data, t) = DOMAIN data.way
    BY <1>3 DEF KindOf, ObjectsOf
  <2>2. ASSUME NEW k \in DOMAIN file, file[k].kind = "way", ~file[k].deleted
        PROVE  RowsOf(New, t, file[k].id) = PlainRows(t, file[k], 0)
    <3>1. New.way[file[k].id].refs = file[k].refs
      BY <2>2, NewWays
    <3> QED
      BY <1>3, <2>2, <3>1 DEF RowsOf, PlainRows
  <2>3. \A id : New.way[id] = old.way[id] => RowsOf(New, t, id) = RowsOf(old, t, id)
    BY <1>3 DEF RowsOf
  <2> QED
    BY <2>1, <2>2, <2>3, NewWays
<1>4. CASE t \in MemberTables
  <2>1. KindOf(t) = "relation" /\ \A data : ObjectsOf(data, t) = DOMAIN data.rel
    BY <1>4 DEF KindOf, ObjectsOf, MemberTables
  <2>2. ASSUME NEW k \in DOMAIN file, file[k].kind = "relation", ~file[k].deleted
        PROVE  RowsOf(New, t, file[k].id) = PlainRows(t, file[k], 0)
    <3>1. New.rel[file[k].id].mems = file[k].mems
      BY <2>2, NewRels
    <3>2. RowsOf(New, t, file[k].id) =
            MemberRows(file[k].id, file[k].mems, CHOOSE j \in Kinds : TableOf(j) = t, 0)
      BY <1>4, <3>1 DEF RowsOf, MemberTables
    <3> QED
      BY <1>4, <2>2, <3>2 DEF PlainRows, MemberTables
  <2>3. ASSUME NEW id, New.rel[id] = old.rel[id] PROVE RowsOf(New, t, id) = RowsOf(old, t, id)
    BY <1>4, <2>3 DEF RowsOf, MemberTables
  <2> QED
    BY <2>1, <2>2, <2>3, NewRels
<1> QED
    BY <1>1, <1>2, <1>3, <1>4 DEF PlainTables, TopologyTables

\* What is expected: the rows of the objects that the file does not contain, as
\* the import put them, and the rows of those that it contains.
LEMMA ExpectedRows ==
    ASSUME InputInv, OneVersionEach, NEW t \in DataTables,
           t = "node_ways" => WholeWays(old) /\ WholeWays(New)
    PROVE  /\ \A r \in Imported(old, PolygonTable)[t] : [r EXCEPT !.run = 0] = r
           /\ \A r : r \in Expected(t) <=>
                \/ r \in Imported(old, PolygonTable)[t] /\ ~InFile(KindOf(t), IdIn(t, r))
                \/ \E k \in DOMAIN file : r \in PlainRows(t, file[k], 0)
<1>1. t \in PlainTables
    BY DataTablesFacts
<1>2. old.late \subseteq DOMAIN old.way /\ New.late \subseteq DOMAIN New.way
    BY NewWays DEF InputInv, IsDataSet
<1>3. Imported(old, PolygonTable)[t] = UNION {RowsOf(old, t, id) : id \in ObjectsOf(old, t)}
    BY <1>1, <1>2, ImportedRowsOf
<1>4. Expected(t) = UNION {RowsOf(New, t, id) : id \in ObjectsOf(New, t)}
    BY <1>1, <1>2, ImportedRowsOf DEF Expected
<1>5. \A r \in Imported(old, PolygonTable)[t] : [r EXCEPT !.run = 0] = r
    BY <1>1, <1>3, ImportedStrip
<1>6. ASSUME NEW r \in Expected(t)
      PROVE  \/ r \in Imported(old, PolygonTable)[t] /\ ~InFile(KindOf(t), IdIn(t, r))
             \/ \E k \in DOMAIN file : r \in PlainRows(t, file[k], 0)
  <2>1. PICK id \in ObjectsOf(New, t) : r \in RowsOf(New, t, id)
    BY <1>4
  <2>2. IdIn(t, r) = id
    BY <1>1, <2>1, ImportedStrip
  <2>3. CASE ~InFile(KindOf(t), id)
    BY <1>3, <2>1, <2>2, <2>3, NewRowsOf
  <2>4. CASE InFile(KindOf(t), id)
    <3>1. PICK k \in DOMAIN file : file[k].kind = KindOf(t) /\ file[k].id = id
      BY <2>4 DEF InFile, Has
    <3> QED
      BY <2>1, <3>1, NewRowsOf
  <2> QED
    BY <2>3, <2>4
<1>7. ASSUME NEW r \in Imported(old, PolygonTable)[t], ~InFile(KindOf(t), IdIn(t, r))
      PROVE  r \in Expected(t)
  <2>1. PICK id \in ObjectsOf(old, t) : r \in RowsOf(old, t, id)
    BY <1>3
  <2>2. IdIn(t, r) = id
    BY <1>1, <2>1, ImportedStrip
  <2> QED
    BY <1>4, <1>7, <2>1, <2>2, NewRowsOf
<1>8. ASSUME NEW k \in DOMAIN file, NEW r \in PlainRows(t, file[k], 0) PROVE r \in Expected(t)
  <2>1. ~file[k].deleted /\ KindOf(t) = file[k].kind
    BY <1>1, PlainRowsOwner
  <2> QED
    BY <1>4, <2>1, NewRowsOf
<1> QED
    BY <1>5, <1>6, <1>7, <1>8
-----------------------------------------------------------------------------
(* The end of a run.                                                        *)

DataInv == BaseInv /\ BystandersInv /\ LossInv /\ EndInv /\ VersionsInv

LEMMA InitData == Init => DataInv
<1> SUFFICES ASSUME Init PROVE DataInv
    OBVIOUS
<1>1. BaseInv /\ pc = "pass1"
    BY InitBase DEF Init
<1>2. \A t \in Tables : db[t].copy # TRUE
    BY <1>1 DEF BaseInv, TablesInv, MayCopy
<1>3. LossInv
    BY <1>1, <1>2, RowTablesFacts DEF LossInv, AtTheEnd
<1> QED
    BY <1>1, <1>3, InitBystanders, InitVersions DEF DataInv

LEMMA DataStep == DataInv /\ [Next]_vars => DataInv'
<1> SUFFICES ASSUME DataInv, [Next]_vars PROVE DataInv'
    OBVIOUS
<1>1. BaseInv' /\ RowStep
    BY BaseStep DEF DataInv
<1>2. BystandersInv'
    BY <1>1, BystandersStep DEF DataInv
<1>3. LossInv'
    BY <1>1, LossStep DEF DataInv, BaseInv
<1>4. EndInv' /\ VersionsInv'
    BY <1>1, <1>3, VersionsStep DEF DataInv
<1> QED
    BY <1>1, <1>2, <1>3, <1>4 DEF DataInv

LEMMA DataInvariant == Spec => []DataInv
BY InitData, DataStep, PTL DEF Spec

\* The file has no more rows for a table, none is on its way into it, and
\* everything is committed.
Settled(t) ==
    /\ InPass2 /\ \A k \in DOMAIN file : file[k].kind = KindOf(t) => k < pos
    /\ db[t].copy = FALSE /\ Present(t) = db[t].saved

\* So it is when the program is done.
LEMMA DoneTables ==
    ASSUME BaseInv, EndInv, pc = "done", NEW t \in DataTables
    PROVE  Settled(t)
<1>1. /\ t \in RowTables /\ pos = Len(file) + 10
      /\ Len(file) \in Nat /\ DOMAIN file = 1 .. Len(file)
    BY DataTablesFacts, FileFacts DEF BaseInv, ControlInv
<1>2. PICK i \in 1 .. 9 : CloseOrder[i] = t
    BY <1>1, RowTablesFacts, CloseOrderFacts
<1>3. i < pos - Len(file) /\ CloseOrder[i] # "polygon"
    BY <1>1, <1>2 DEF RowTables
<1>4. db[t].copy = FALSE /\ db[t].begun = FALSE
    BY <1>2, <1>3 DEF EndInv, ClosedInv
<1> QED
    BY <1>1, <1>4 DEF BaseInv, RowsInv, Tidy, Present, Settled, InPass2

\* Nothing is missing then, and nothing else is there but perhaps the tagged
\* versions of nodes that lost their tags.
LEMMA SettledRows ==
    ASSUME DataInv, ProperFile, NEW t \in DataTables, Settled(t),
           t = "node_ways" => WholeWays(old) /\ WholeWays(New)
    PROVE  /\ Expected(t) \subseteq Saved(t)
           /\ \A r \in Saved(t) \ Expected(t) :
                \E k \in DOMAIN file : Matches(t, r, k) /\ MayBeStale(t, file[k])
<1>1. /\ BaseInv /\ InputInv /\ BystandersInv /\ LossInv /\ EndInv /\ VersionsInv
      /\ SortedFile /\ OneVersionEach /\ InPass2
    BY DEF DataInv, BaseInv, ProperFile, Settled
<1>2. t \in PlainTables /\ FreshInv(t) /\ ThereInv(t)
    BY <1>1, DataTablesFacts DEF VersionsInv
<1>3. /\ db[t].copy = FALSE /\ Present(t) = db[t].saved
      /\ \A k \in DOMAIN file : file[k].kind = KindOf(t) => k < pos
    BY DEF Settled
<1>4. /\ \A r \in Imported(old, PolygonTable)[t] : [r EXCEPT !.run = 0] = r
      /\ \A r : r \in Expected(t) <=>
            \/ r \in Imported(old, PolygonTable)[t] /\ ~InFile(KindOf(t), IdIn(t, r))
            \/ \E k \in DOMAIN file : r \in PlainRows(t, file[k], 0)
    BY <1>1, ExpectedRows
<1>5. Expected(t) \subseteq Saved(t)
  <2>1. ASSUME NEW r \in Imported(old, PolygonTable)[t], ~InFile(KindOf(t), IdIn(t, r))
        PROVE  r \in Saved(t)
    <3>1. r \in db[t].saved
      BY <1>1, <1>2, <2>1, BystanderIsNotInFile DEF BystandersInv
    <3> QED
      BY <1>4, <3>1 DEF Saved, Strip
  <2>2. ASSUME NEW k \in DOMAIN file PROVE PlainRows(t, file[k], 0) \subseteq Saved(t)
    <3>1. CASE file[k].kind = KindOf(t)
      BY <1>1, <1>2, <1>3, <3>1 DEF ThereInv, Saved
    <3>2. CASE file[k].kind # KindOf(t)
      BY <1>2, <3>2, PlainRowsOwner
    <3> QED
      BY <3>1, <3>2
  <2> QED
    BY <1>4, <2>1, <2>2
<1>6. ASSUME NEW r \in Saved(t), r \notin Expected(t)
      PROVE  \E k \in DOMAIN file : Matches(t, r, k) /\ MayBeStale(t, file[k])
  <2>1. PICK q \in db[t].saved : r = [q EXCEPT !.run = 0]
    BY DEF Saved, Strip
  <2>2. InFile(KindOf(t), IdIn(t, q))
    <3> SUFFICES ASSUME ~InFile(KindOf(t), IdIn(t, q)) PROVE FALSE
      OBVIOUS
    <3>1. q \in Imported(old, PolygonTable)[t]
      BY <1>1, <1>2, BystanderIsNotInFile DEF BystandersInv
    <3> QED
      BY <1>4, <1>6, <2>1, <3>1
  <2>3. PICK k \in DOMAIN file : Matches(t, q, k)
    BY <2>2 DEF InFile, Has, Matches
  <2>4. ~Fresh(t, q, k)
    BY <1>4, <1>6, <2>1 DEF Fresh
  <2>5. MayBeStale(t, file[k])
    BY <1>1, <1>2, <1>3, <2>3, <2>4 DEF FreshInv, InPass2
  <2>6. IdIn(t, r) = IdIn(t, q)
    BY <2>1 DEF IdIn
  <2> QED
    BY <2>3, <2>5, <2>6 DEF Matches
<1> QED
    BY <1>5, <1>6

\* Every application of a change file that comes to its end, after any number of
\* crashes and other applications of the same file, leaves the nodes in place
\* (DiffHandler1::node(), DiffHandler2::node()): none is missing, and only of a
\* node that lost its tags an old row may be left, if the two tables were not
\* committed together.
THEOREM NodesSurvive == Spec => [](ProperFile => NodesSurviveCrash)
<1>1. DataInv => (ProperFile => NodesSurviveCrash)
  <2> SUFFICES ASSUME DataInv, ProperFile, pc = "done", NEW t \in NodeTables
               PROVE  /\ Expected(t) \subseteq Saved(t)
                      /\ \A r \in Saved(t) \ Expected(t) :
                            t = "point" /\ run > 1
                                /\ r.id \in Written("node") /\ ~New.node[r.id].tagged
    BY DEF NodesSurviveCrash
  <2>1. /\ t \in DataTables /\ t \in {"point", "untagged"} /\ t # "node_ways"
        /\ Settled(t)
    BY DoneTables DEF DataTables, NodeTables, DataInv
  <2>2. ASSUME NEW r \in Saved(t) \ Expected(t)
        PROVE  /\ t = "point" /\ run > 1
               /\ r.id \in Written("node") /\ ~New.node[r.id].tagged
    <3>1. PICK k \in DOMAIN file : Matches(t, r, k) /\ MayBeStale(t, file[k])
      BY <2>1, <2>2, SettledRows
    <3>2. file[k].kind = "node" /\ file[k].id = r.id
      BY <2>1, <3>1 DEF Matches, KindOf, IdIn, MemberTables
    <3>3. t = "point" /\ run > 1 /\ ~file[k].deleted /\ ~file[k].tagged
      BY <3>1 DEF MayBeStale
    <3>4. ~New.node[file[k].id].tagged
      BY <3>2, <3>3, NewNodes DEF ProperFile
    <3> QED
      BY <3>2, <3>3, <3>4 DEF Written, WrittenBy
  <2> QED
    BY <2>1, <2>2, SettledRows
<1> QED
    BY <1>1, DataInvariant, PTL

\* The first application of a change file leaves exactly the nodes of the data
\* set after the diff, in the tables they belong to.
THEOREM NodesFollow == Spec => [](ProperFile /\ run = 1 => NodesFollowDiff)
<1>1. (ProperFile => NodesSurviveCrash) => (ProperFile /\ run = 1 => NodesFollowDiff)
  <2> SUFFICES ASSUME NodesSurviveCrash, run = 1, pc = "done", NEW t \in NodeTables
               PROVE  Saved(t) = Expected(t)
    BY DEF NodesFollowDiff
  <2>1. ~(run > 1)
    OBVIOUS
  <2> QED
    BY <2>1 DEF NodesSurviveCrash
<1> QED
    BY <1>1, NodesSurvive, PTL

\* The tables of the nodes of ways and of the members of relations are those of
\* the data set after the diff when a run comes to its end, although none of them
\* is under a transaction, and whatever became of the runs before.
THEOREM TopologyFollows == Spec => [](ProperFile /\ Healthy => TopologyFollowsDiff)
<1>1. DataInv => (ProperFile /\ Healthy => TopologyFollowsDiff)
  <2> SUFFICES ASSUME DataInv, ProperFile, Healthy, pc = "done", NEW t \in TopologyTables
               PROVE  Saved(t) = Expected(t)
    BY DEF TopologyFollowsDiff
  <2>1. t \in DataTables /\ t # "point" /\ Settled(t)
    BY PlainTablesFacts, DoneTables DEF DataTables, DataInv
  <2>2. WholeWays(old) /\ WholeWays(New)
    BY DEF Healthy, Closed, WholeWays
  <2>3. \A k : ~MayBeStale(t, file[k])
    BY <2>1 DEF MayBeStale
  <2> QED
    BY <2>1, <2>2, <2>3, SettledRows
<1> QED
    BY <1>1, DataInvariant, PTL
-----------------------------------------------------------------------------
(* What the location handlers know.                                         *)

NodeAt(k) == k \in DOMAIN file /\ file[k].kind = "node"

StorageTypes ==
    flat \in [Nodes -> Locs \cup {NoLoc}] /\ cache \in [Nodes -> Locs \cup {NoLoc}]
\* Nothing is stored of a node that is not in the file.
OtherLocations ==
    \A n \in Nodes : ~InFile("node", n) => flat[n] = LocIn(old, n) /\ cache[n] = NoLoc
CacheIsNew ==
    \A k \in DOMAIN file : NodeAt(k) /\ cache[file[k].id] # NoLoc =>
        ~file[k].deleted /\ cache[file[k].id] = file[k].loc
\* The nodes pass 2 has had so far.
PassedLocations ==
    InPass2 =>
        \A k \in DOMAIN file : NodeAt(k) /\ k < pos =>
            /\ FlatNodes => flat[file[k].id] = IF file[k].deleted THEN NoLoc ELSE file[k].loc
            /\ ~FlatNodes /\ ~file[k].deleted => cache[file[k].id] # NoLoc

LocationsInv ==
    /\ StorageTypes
    /\ OneVersionEach => OtherLocations /\ CacheIsNew /\ PassedLocations

LEMMA NodeAtFacts ==
    ASSUME InputInv, NEW k, NodeAt(k)
    PROVE  /\ file[k].id \in Nodes /\ InFile("node", file[k].id)
           /\ ~file[k].deleted => file[k].loc \in Locs /\ file[k].loc # NoLoc
<1>1. k \in DOMAIN file /\ file[k].kind = "node" /\ file[k] \in Changes
    BY FileFacts DEF NodeAt
<1> QED
    BY <1>1, ChangeFacts, NoLocAssumption DEF InFile, Has

\* One node more.
LEMMA StoreStep ==
    ASSUME InputInv, LocationsInv, NodeAt(pos), pos \in Nat, pos' = pos + 1,
           UNCHANGED <<old, file, options>>, pc = "pass2", pc' = "pass2",
           StoreLocation(file[pos])
    PROVE  LocationsInv'
<1> DEFINE c == file[pos]
<1>1. /\ c.id \in Nodes /\ InFile("node", c.id)
      /\ ~c.deleted => c.loc \in Locs /\ c.loc # NoLoc
    BY NodeAtFacts
<1>2. /\ flat' = IF FlatNodes
                 THEN [flat EXCEPT ![c.id] = IF c.deleted THEN NoLoc ELSE c.loc] ELSE flat
      /\ cache' = IF FlatNodes \/ c.deleted \/ cache[c.id] # NoLoc
                  THEN cache ELSE [cache EXCEPT ![c.id] = c.loc]
    BY DEF StoreLocation
<1> HIDE DEF c
<1>3. StorageTypes'
    BY <1>1, <1>2 DEF StorageTypes, LocationsInv
<1>4. /\ \A n \in Nodes : n # c.id => flat'[n] = flat[n] /\ cache'[n] = cache[n]
      /\ FlatNodes => flat'[c.id] = IF c.deleted THEN NoLoc ELSE c.loc
      /\ cache'[c.id] = cache[c.id] \/ (~c.deleted /\ cache'[c.id] = c.loc)
      /\ ~FlatNodes /\ ~c.deleted => cache'[c.id] # NoLoc
    BY <1>1, <1>2 DEF StorageTypes, LocationsInv
<1> SUFFICES ASSUME OneVersionEach
             PROVE  OtherLocations' /\ CacheIsNew' /\ PassedLocations'
    BY <1>3 DEF LocationsInv, OneVersionEach
<1>5. OtherLocations /\ CacheIsNew /\ PassedLocations
    BY DEF LocationsInv
<1>6. OtherLocations'
    BY <1>1, <1>4, <1>5 DEF OtherLocations, InFile
<1>7. \A k \in DOMAIN file : NodeAt(k) => /\ file[k].id \in Nodes
                                          /\ k = pos \/ file[k].id # c.id
    BY NodeAtFacts DEF OneVersionEach, NodeAt, c
<1>8. CacheIsNew'
    BY <1>4, <1>5, <1>7 DEF CacheIsNew, NodeAt, c
<1>9. PassedLocations'
  <2> SUFFICES ASSUME NEW k \in DOMAIN file, NodeAt(k), k < pos'
               PROVE  /\ FlatNodes => flat'[file[k].id] =
                                IF file[k].deleted THEN NoLoc ELSE file[k].loc
                      /\ ~FlatNodes /\ ~file[k].deleted => cache'[file[k].id] # NoLoc
    BY DEF PassedLocations, NodeAt, FlatNodes
  <2>1. k < pos \/ k = pos
    BY FileFacts
  <2>2. CASE k = pos
    BY <1>4, <2>2 DEF c
  <2>3. CASE k < pos /\ k # pos
    <3>1. file[k].id \in Nodes /\ file[k].id # c.id
      BY <1>7, <2>3
    <3>2. /\ FlatNodes => flat[file[k].id] = IF file[k].deleted THEN NoLoc ELSE file[k].loc
          /\ ~FlatNodes /\ ~file[k].deleted => cache[file[k].id] # NoLoc
      BY <1>5, <2>3 DEF PassedLocations, InPass2
    <3> QED
      BY <1>4, <3>1, <3>2
  <2> QED
    BY <2>1, <2>2, <2>3
<1> QED
    BY <1>6, <1>8, <1>9

LEMMA LocationsStep ==
    ASSUME BaseInv, LocationsInv, RowStep
    PROVE  LocationsInv'
<1>1. UNCHANGED <<old, file, options>>
    BY SameInput
<1>2. InputInv /\ pos \in Nat /\ DOMAIN file = 1 .. Len(file) /\ Len(file) \in Nat
    BY FileFacts DEF BaseInv, ControlInv
<1>3. ASSUME UNCHANGED <<flat, cache>>,
             InPass2' => \A k \in DOMAIN file : NodeAt(k) /\ k < pos' => InPass2 /\ k < pos
      PROVE  LocationsInv'
    BY <1>1, <1>3 DEF LocationsInv, StorageTypes, OneVersionEach, OtherLocations, CacheIsNew,
        PassedLocations, NodeAt, InFile, FlatNodes
<1>4. CASE DeleteStep \/ DeadStep
    BY <1>3, <1>4 DEF DeleteStep, DeadStep, InPass2
<1>5. CASE SwitchStep
  <2>1. UNCHANGED <<flat, cache>> /\ pos' = 1
    BY <1>5 DEF SwitchStep
  <2> QED
    BY <1>2, <1>3, <2>1
<1>6. CASE SendStep
  <2>1. /\ pc = "pass2" /\ pc' = "pass2" /\ pos \in DOMAIN file /\ pos' = pos + 1
        /\ IF file[pos].kind = "node" THEN StoreLocation(file[pos])
           ELSE UNCHANGED <<flat, cache>>
    BY <1>6 DEF SendStep
  <2>2. CASE NodeAt(pos)
    <3>1. StoreLocation(file[pos])
      BY <2>1, <2>2 DEF NodeAt
    <3> QED
      BY <1>1, <1>2, <2>1, <2>2, <3>1, StoreStep
  <2>3. CASE ~NodeAt(pos)
    <3>1. UNCHANGED <<flat, cache>>
      BY <2>1, <2>3 DEF NodeAt
    <3>2. \A k \in DOMAIN file : k < pos' => k < pos \/ k = pos
      BY <1>2, <2>1
    <3> QED
      BY <1>3, <2>1, <2>3, <3>1, <3>2 DEF InPass2
  <2> QED
    BY <2>2, <2>3
<1>7. CASE PhaseStep
    BY <1>3, <1>7 DEF PhaseStep, PhaseChange, InPass2
<1>8. ASSUME NEW t \in Tables, CloseStep(t) PROVE LocationsInv'
  <2>1. UNCHANGED <<flat, cache>> /\ pc = "close" /\ pos \in Len(file) + 1 .. Len(file) + 9
    BY <1>8 DEF CloseStep, Closing, BaseInv, ControlInv
  <2>2. InPass2 /\ \A k \in DOMAIN file : k < pos
    BY <1>2, <2>1 DEF InPass2
  <2> QED
    BY <1>3, <2>1, <2>2
<1>9. CASE AgainStep
  <2>1. cache' = [n \in Nodes |-> NoLoc] /\ flat' = flat /\ pc' = "pass1"
    BY <1>9 DEF AgainStep
  <2>2. \A k \in DOMAIN file : NodeAt(k) => file[k].id \in Nodes
    BY <1>2, NodeAtFacts
  <2> QED
    BY <1>1, <2>1, <2>2 DEF LocationsInv, StorageTypes, OneVersionEach, OtherLocations,
        CacheIsNew, PassedLocations, NodeAt, InFile, InPass2
<1>10. CASE IdleStep
    BY <1>3, <1>10 DEF IdleStep, InPass2
<1> QED
    BY <1>4, <1>5, <1>6, <1>7, <1>8, <1>9, <1>10 DEF RowStep

LEMMA InitLocations == Init => LocationsInv
<1> SUFFICES ASSUME Init PROVE LocationsInv
    OBVIOUS
<1>1. /\ InputInv /\ pc = "pass1"
      /\ flat = [n \in Nodes |-> LocIn(old, n)] /\ cache = [n \in Nodes |-> NoLoc]
    BY InitBase DEF Init, BaseInv
<1>2. \A n \in Nodes : LocIn(old, n) \in Locs \cup {NoLoc}
    BY <1>1 DEF LocIn, InputInv, IsDataSet
<1>3. \A k \in DOMAIN file : NodeAt(k) => file[k].id \in Nodes
    BY <1>1, NodeAtFacts
<1> QED
    BY <1>1, <1>2, <1>3 DEF LocationsInv, StorageTypes, OtherLocations, CacheIsNew,
        PassedLocations, InPass2

\* When the first way or relation is handled, pass 2 has had every node.
LEMMA NodesPassed ==
    ASSUME BaseInv, SortedFile, InPass2, progress # "POINT", NEW k, NodeAt(k)
    PROVE  k < pos
<1>1. /\ DOMAIN file = 1 .. Len(file) /\ Len(file) \in Nat /\ pos \in Nat
      /\ k \in DOMAIN file /\ file[k].kind = "node"
      /\ \A j \in DOMAIN file : file[j].kind \in {"node", "way", "relation"}
    BY FileFacts, ChangeFacts DEF BaseInv, ControlInv, NodeAt
<1>2. PICK j \in DOMAIN file : j <= pos /\ file[j].kind # "node"
    BY DEF BaseInv, ControlInv
<1>3. ~(j < k)
    BY <1>1, <1>2 DEF SortedFile, Rank
<1>4. j # k
    BY <1>1, <1>2
<1> QED
    BY <1>1, <1>2, <1>3, <1>4

\* The committed location of a node that is not in the file.
LEMMA PersistentBystander ==
    ASSUME InputInv, BystandersInv, NEW n \in DOMAIN old.node, ~InFile("node", n)
    PROVE  Persistent(n) = old.node[n].loc
<1> DEFINE Rows(t) == {r \in db[t].saved : r.id = n}
           row == PointRow(n, old.node[n].loc, 0)
<1>1. ASSUME NEW t \in {"point", "untagged"}
      PROVE  Rows(t) = {r \in Imported(old, PolygonTable)[t] : r.id = n}
  <2>1. t \in PlainTables /\ \A r : r.id = n => Bystander(t, r)
    BY PlainTablesFacts, BystanderIsNotInFile DEF KindOf, IdIn, MemberTables
  <2> QED
    BY <2>1 DEF BystandersInv
<1>2. /\ row.id = n /\ row.loc = old.node[n].loc
      /\ \A m : PointRow(m, old.node[m].loc, 0).id = m
    BY DEF PointRow
<1>3. Persistent(n) = IF Rows("untagged") # {} THEN (CHOOSE r \in Rows("untagged") : TRUE).loc
                      ELSE IF Rows("point") # {} THEN (CHOOSE r \in Rows("point") : TRUE).loc
                      ELSE NoLoc
    BY DEF Persistent
<1>4. old.node[n].tagged \in BOOLEAN
    BY DEF InputInv, IsDataSet
<1>5. /\ Rows("untagged") = IF old.node[n].tagged THEN {} ELSE {row}
      /\ Rows("point") = IF old.node[n].tagged THEN {row} ELSE {}
    BY <1>1, <1>2, <1>4, ImportedNodes
<1> HIDE DEF Rows, row
<1>6. (CHOOSE r \in {row} : TRUE) = row
    OBVIOUS
<1> QED
    BY <1>2, <1>3, <1>4, <1>5, <1>6

\* Once pass 2 has had every node, the locations are those after the diff.
AllNodesPassed == InPass2 /\ \A k \in DOMAIN file : NodeAt(k) => k < pos

LEMMA LookupIsCurrent ==
    ASSUME DataInv, LocationsInv, ProperFile, AllNodesPassed, NEW n \in DOMAIN New.node
    PROVE  Lookup(n) = New.node[n].loc /\ New.node[n].loc # NoLoc /\ n \in Nodes
<1>1. /\ BaseInv /\ InputInv /\ BystandersInv /\ OneVersionEach
      /\ StorageTypes /\ OtherLocations /\ CacheIsNew /\ PassedLocations
    BY DEF DataInv, BaseInv, ProperFile, LocationsInv
<1>2. Lookup(n) = IF FlatNodes THEN flat[n]
                  ELSE IF cache[n] # NoLoc THEN cache[n] ELSE Persistent(n)
    BY DEF Lookup
<1>3. CASE ~InFile("node", n)
  <2>1. /\ n \in DOMAIN old.node /\ New.node[n] = old.node[n] /\ n \in Nodes
        /\ old.node[n].loc \in Locs
    BY <1>1, <1>3, NewNodes DEF InputInv, IsDataSet
  <2>2. flat[n] = old.node[n].loc /\ cache[n] = NoLoc
    BY <1>1, <1>3, <2>1 DEF OtherLocations, LocIn
  <2> QED
    BY <1>1, <1>2, <1>3, <2>1, <2>2, PersistentBystander, NoLocAssumption
<1>4. CASE InFile("node", n)
  <2>1. PICK k \in DOMAIN file : file[k].kind = "node" /\ file[k].id = n
    BY <1>4 DEF InFile, Has
  <2>2. NodeAt(k) /\ k < pos /\ InPass2
    BY <2>1 DEF NodeAt, AllNodesPassed
  <2>3. ~file[k].deleted /\ New.node[n].loc = file[k].loc
    BY <1>1, <2>1, NewNodes
  <2>4. n \in Nodes /\ file[k].loc # NoLoc
    BY <1>1, <2>1, <2>2, <2>3, NodeAtFacts
  <2> QED
    BY <1>1, <1>2, <2>1, <2>2, <2>3, <2>4 DEF PassedLocations, CacheIsNew
<1> QED
    BY <1>3, <1>4

LEMMA PassedWithWays ==
    ASSUME BaseInv, SortedFile, InPass2, progress # "POINT" \/ pc \notin {"pass2", "ways"}
    PROVE  AllNodesPassed
<1>1. CASE progress # "POINT"
    BY <1>1, NodesPassed DEF AllNodesPassed
<1>2. CASE pc \in {"rels", "incomplete", "close", "done"}
    BY <1>2, FileFacts DEF AllNodesPassed, BaseInv, ControlInv
<1> QED
    BY <1>1, <1>2 DEF InPass2

KnownInv == DataInv /\ LocationsInv

LEMMA KnownInvariant == Spec => []KnownInv
<1>1. KnownInv /\ [Next]_vars => KnownInv'
  <2> SUFFICES ASSUME KnownInv, [Next]_vars PROVE KnownInv'
    OBVIOUS
  <2>1. BaseInv /\ RowStep
    BY BaseStep DEF KnownInv, DataInv
  <2> QED
    BY <2>1, DataStep, LocationsStep DEF KnownInv
<1>2. Init => KnownInv
    BY InitData, InitLocations DEF KnownInv
<1> QED
    BY <1>1, <1>2, PTL DEF Spec

\* After the first way or relation has come, every location that is looked up,
\* in the cache, the tables or the flat nodes file, is the one after the diff
\* (DatabaseLocationHandler::get_node_location(), FileBasedLocationHandler).
THEOREM LocationsAreCurrent == Spec => [](ProperFile => CurrentLocations)
<1>1. KnownInv => (ProperFile => CurrentLocations)
  <2> SUFFICES ASSUME KnownInv, ProperFile, progress # "POINT", pc # "dead",
                      NEW n \in DOMAIN New.node
               PROVE  Lookup(n) = New.node[n].loc
    BY DEF CurrentLocations
  <2>1. BaseInv /\ SortedFile
    BY DEF KnownInv, DataInv, ProperFile
  <2>2. InPass2
    BY <2>1 DEF BaseInv, TablesInv, Running, InPass2
  <2>3. AllNodesPassed
    BY <2>1, <2>2, PassedWithWays
  <2> QED
    BY <2>3, LookupIsCurrent DEF KnownInv
<1> QED
    BY <1>1, KnownInvariant, PTL
-----------------------------------------------------------------------------
(* The lines of the ways, as they are read from the tables.                 *)

\* The node list of a way of the file is there completely or not at all, since
\* the rows of a COPY appear all at once.
Whole(rows, k) == PlainRows("node_ways", file[k], 0) \subseteq Strip(rows)
WholeInv ==
    /\ \A r \in db["node_ways"].lines : \A k \in DOMAIN file :
            Matches("node_ways", r, k) => Whole(db["node_ways"].lines, k)
    /\ \A r \in db["node_ways"].live : \A k \in DOMAIN file :
            Matches("node_ways", r, k) =>
                \/ Whole(db["node_ways"].live, k)
                \/ ~IsNew(file[k]) /\ (pc = "dead" \/ (pc = "pass1" /\ k >= pos))

LEMMA WholeGrows ==
    ASSUME NEW rows, NEW more, rows \subseteq more, NEW k, Whole(rows, k)
    PROVE  Whole(more, k)
BY DEF Whole, Strip

LEMMA WholeStep ==
    ASSUME BaseInv, AutocommitInv, OneVersionEach, WholeInv, RowStep
    PROVE  WholeInv'
<1> DEFINE T == db["node_ways"]
           U == db'["node_ways"]
           Old(k) == ~IsNew(file[k]) /\ (pc = "dead" \/ (pc = "pass1" /\ k >= pos))
           OldNow(k) == ~IsNew(file[k]) /\ (pc' = "dead" \/ (pc' = "pass1" /\ k >= pos'))
           LinesWhole == \A r \in U.lines : \A k \in DOMAIN file :
                Matches("node_ways", r, k) => Whole(U.lines, k)
           LiveWhole == \A r \in U.live : \A k \in DOMAIN file :
                Matches("node_ways", r, k) => Whole(U.live, k) \/ OldNow(k)
<1>1. UNCHANGED <<old, file, options>> /\ "node_ways" \in PlainTables
    BY SameInput DEF PlainTables, TopologyTables
<1>2. /\ pos \in Nat /\ DOMAIN file = 1 .. Len(file) /\ Len(file) \in Nat
      /\ T.begun = FALSE /\ T.saved = T.live
    BY FileFacts, RowTablesFacts DEF BaseInv, ControlInv, AutocommitInv, TopologyTables,
        RowsInv, Tidy
<1>3. LinesWhole /\ LiveWhole => WholeInv'
  <2>1. \A rows, k : PlainRows("node_ways", file[k], 0)' = PlainRows("node_ways", file[k], 0)
    BY SameVersions
  <2> QED
    BY <1>1, <2>1, SameVersions DEF WholeInv, Whole, Strip, IsNew
<1>4. /\ \A r \in T.lines : \A k \in DOMAIN file :
                Matches("node_ways", r, k) => Whole(T.lines, k)
      /\ \A r \in T.live : \A k \in DOMAIN file :
                Matches("node_ways", r, k) => Whole(T.live, k) \/ Old(k)
    BY DEF WholeInv
<1>5. CASE DeadStep \/ AgainStep
  <2>1. Renewed(T, U)
    BY <1>5, RowTablesFacts DEF DeadStep, AgainStep
  <2>2. U.live = T.live /\ U.lines = {}
    BY <1>2, <2>1 DEF Renewed
  <2>3. ASSUME NEW k \in DOMAIN file PROVE Old(k) => OldNow(k)
    BY <1>2, <1>5 DEF DeadStep, AgainStep
  <2> QED
    BY <1>3, <1>4, <2>2, <2>3
<1>6. CASE DeleteStep
  <2>1. pos' = pos + 1 /\ pc = "pass1" /\ pc' = "pass1"
    BY <1>6 DEF DeleteStep
  <2>2. CASE /\ ~IsNew(file[pos]) /\ file[pos].kind = "way"
             /\ Stored(T, U, {r \in T.live : r.way # file[pos].id})
    <3>1. U.lines = T.lines /\ U.live = {r \in T.live : r.way # file[pos].id}
      BY <2>2 DEF Stored
    <3>2. ASSUME NEW r \in U.live, NEW k \in DOMAIN file, Matches("node_ways", r, k)
          PROVE  Whole(U.live, k) \/ OldNow(k)
      <4>1. /\ r.way = file[k].id /\ r.way # file[pos].id /\ k # pos
            /\ Whole(T.live, k) \/ Old(k)
        BY <1>4, <3>1, <3>2 DEF Matches, IdIn
      <4>2. CASE Old(k)
        BY <1>2, <2>1, <4>1, <4>2
      <4>3. CASE Whole(T.live, k)
        <5> SUFFICES ASSUME NEW q \in PlainRows("node_ways", file[k], 0)
                     PROVE  q \in Strip(U.live)
          BY DEF Whole
        <5>1. PICK s \in T.live : q = [s EXCEPT !.run = 0]
          BY <4>3 DEF Whole, Strip
        <5>2. q.way = file[k].id
          BY <1>1, PlainRowsOwner DEF IdIn
        <5>3. s.way = q.way
          BY <5>1
        <5> QED
          BY <3>1, <4>1, <5>1, <5>2, <5>3 DEF Strip
      <4> QED
        BY <4>1, <4>2, <4>3
    <3> QED
      BY <1>3, <1>4, <3>1, <3>2
  <2>3. CASE U = T /\ (IsNew(file[pos]) \/ file[pos].kind # "way")
    <3>1. ASSUME NEW r \in U.live, NEW k \in DOMAIN file, Matches("node_ways", r, k)
          PROVE  Whole(U.live, k) \/ OldNow(k)
      <4>1. k = pos => IsNew(file[k])
        BY <2>3, <3>1 DEF Matches, KindOf
      <4> QED
        BY <1>2, <1>4, <2>1, <2>3, <3>1, <4>1
    <3> QED
      BY <1>3, <1>4, <2>3, <3>1
  <2> QED
    <3>1. Removes("node_ways", file[pos])
      BY <1>6, RowTablesFacts DEF DeleteStep
    <3> QED
      BY <2>2, <2>3, <3>1 DEF Removes, KindOf, IdIn
<1>7. ASSUME ~DeadStep, ~AgainStep, ~DeleteStep
      PROVE  \A k \in DOMAIN file : Old(k) => OldNow(k)
  <2>1. CASE IdleStep
    BY <2>1 DEF IdleStep
  <2>2. CASE SwitchStep
    BY <1>2, <2>2 DEF SwitchStep
  <2>3. CASE SendStep \/ PhaseStep \/ \E t \in Tables : CloseStep(t)
    BY <2>3 DEF SendStep, PhaseStep, PhaseChange, CloseStep, Closing
  <2> QED
    BY <1>7, <2>1, <2>2, <2>3 DEF RowStep
<1>8. CASE U = T /\ ~DeadStep /\ ~AgainStep /\ ~DeleteStep
    BY <1>3, <1>4, <1>7, <1>8
<1>9. CASE Queried(T, U) \/ Started(T, U)
  <2>1. U.lines = {} /\ U.live = T.live
    BY <1>9 DEF Queried, Started, Calm
  <2> QED
    BY <1>3, <1>4, <1>5, <1>6, <1>7, <2>1
<1>10. CASE (Ended(T, U) \/ Destroyed(T, U)) /\ ~DeadStep /\ ~AgainStep /\ ~DeleteStep
  <2>1. U.lines = {} /\ U.live = T.live \cup T.lines
    BY <1>10 DEF Ended, Destroyed
  <2> QED
    BY <1>3, <1>4, <1>7, <1>10, <2>1, WholeGrows
<1>11. CASE SendStep /\ Sent(T, U, PlainRows("node_ways", file[pos], run))
  <2>1. /\ U.lines = T.lines \cup PlainRows("node_ways", file[pos], run) /\ U.live = T.live
        /\ pos \in DOMAIN file /\ ~DeadStep /\ ~AgainStep /\ ~DeleteStep
    BY <1>11 DEF Sent, Calm, SendStep, DeadStep, AgainStep, DeleteStep
  <2>2. ASSUME NEW r \in PlainRows("node_ways", file[pos], run), NEW k \in DOMAIN file,
               Matches("node_ways", r, k)
        PROVE  Whole(U.lines, k)
    <3>1. k = pos
      BY <1>1, <2>1, <2>2, PlainRowsOwner DEF Matches, OneVersionEach
    <3>2. PlainRows("node_ways", file[k], 0) \subseteq Strip(PlainRows("node_ways", file[k], run))
      BY <1>1, PlainRowsStrip
    <3> QED
      BY <2>1, <3>1, <3>2 DEF Whole, Strip
  <2>3. \A r \in T.lines : \A k \in DOMAIN file :
            Matches("node_ways", r, k) => Whole(U.lines, k)
    BY <1>4, <2>1, WholeGrows
  <2> QED
    BY <1>3, <1>4, <1>7, <2>1, <2>2, <2>3
<1> HIDE DEF T, U, LinesWhole, LiveWhole
<1> QED
  <2>1. CASE Renewed(T, U)
    <3>1. U.live = T.live /\ U.lines = {}
      BY <1>2, <2>1 DEF Renewed
    <3> QED
      BY <1>3, <1>4, <1>5, <1>6, <1>7, <3>1 DEF LinesWhole, LiveWhole
  <2>2. CASE DeleteStep \/ DeadStep \/ AgainStep
    BY <1>5, <1>6, <2>2
  <2> QED
    BY <1>1, <1>8, <1>9, <1>10, <1>11, <2>1, <2>2, PlainMoves DEF T, U

LEMMA InitWhole == Init /\ AddedAreNew => WholeInv
<1> SUFFICES ASSUME Init, AddedAreNew PROVE WholeInv
    OBVIOUS
<1>1. /\ InputInv /\ pc = "pass1" /\ pos = 1 /\ db["node_ways"].lines = {}
      /\ db["node_ways"].live = Imported(old, PolygonTable)["node_ways"]
    BY InitBase, InitRows, RowTablesFacts DEF Init, BaseInv
<1>2. \A k \in DOMAIN file : k >= 1
    BY <1>1, FileFacts
<1>3. ASSUME NEW r \in Imported(old, PolygonTable)["node_ways"], NEW k \in DOMAIN file,
             Matches("node_ways", r, k)
      PROVE  ~IsNew(file[k])
  <2>1. "node_ways" \in PlainTables
    BY DEF PlainTables, TopologyTables
  <2> QED
    BY <1>1, <1>3, <2>1, ImportedOwner DEF Matches, AddedAreNew
<1> QED
    BY <1>1, <1>2, <1>3 DEF WholeInv

\* The node list of a way that is in the table is the one after the diff.
LEMMA WayNodesAreNew ==
    ASSUME KnownInv, WholeInv, ProperFile, InPass2, NEW w, WayNodes(w) # {}
    PROVE  /\ w \in DOMAIN New.way
           /\ WayNodes(w) = {<<i, New.way[w].refs[i]>> : i \in DOMAIN New.way[w].refs}
<1> DEFINE T == db["node_ways"]
           Pair(r) == <<r.pos, r.node>>
           rows == {r \in T.live : r.way = w}
<1>1. /\ BaseInv /\ InputInv /\ BystandersInv /\ OneVersionEach
      /\ "node_ways" \in PlainTables /\ "node_ways" \in DataTables
      /\ pc \notin {"pass1", "dead"}
    BY DEF KnownInv, DataInv, BaseInv, ProperFile, PlainTables, DataTables, TopologyTables, InPass2
<1>2. WayNodes(w) = {Pair(r) : r \in rows}
    BY DEF WayNodes, Live
<1>3. PICK r \in rows : TRUE
    BY <1>2
<1>4. ASSUME NEW refs, NEW q \in NodeWayRows(w, refs, 0)
      PROVE  \E i \in DOMAIN refs : q = [way |-> w, node |-> refs[i], pos |-> i, run |-> 0]
    BY DEF NodeWayRows
<1>5. ASSUME NEW refs,
             \A q \in rows : [q EXCEPT !.run = 0] \in NodeWayRows(w, refs, 0),
             NodeWayRows(w, refs, 0) \subseteq Strip(rows)
      PROVE  WayNodes(w) = {<<i, refs[i]>> : i \in DOMAIN refs}
  <2>1. ASSUME NEW q \in rows PROVE \E i \in DOMAIN refs : Pair(q) = <<i, refs[i]>>
    <3>1. PICK i \in DOMAIN refs :
                [q EXCEPT !.run = 0] = [way |-> w, node |-> refs[i], pos |-> i, run |-> 0]
      BY <1>5, <1>4
    <3>2. q.pos = i /\ q.node = refs[i]
      BY <3>1
    <3> QED
      BY <3>2
  <2>2. ASSUME NEW i \in DOMAIN refs PROVE \E q \in rows : Pair(q) = <<i, refs[i]>>
    <3>1. [way |-> w, node |-> refs[i], pos |-> i, run |-> 0] \in NodeWayRows(w, refs, 0)
      BY DEF NodeWayRows
    <3>2. PICK q \in rows :
                [way |-> w, node |-> refs[i], pos |-> i, run |-> 0] = [q EXCEPT !.run = 0]
      BY <1>5, <3>1 DEF Strip
    <3>3. q.pos = i /\ q.node = refs[i]
      BY <3>2
    <3> QED
      BY <3>3
  <2> HIDE DEF Pair, rows
  <2> QED
    BY <1>2, <2>1, <2>2
<1>6. CASE InFile("way", w)
  <2>1. PICK k \in DOMAIN file : file[k].kind = "way" /\ file[k].id = w
    BY <1>6 DEF InFile, Has
  <2>2. \A q \in rows : Matches("node_ways", q, k)
    BY <2>1 DEF Matches, KindOf, IdIn
  <2>3. \A q \in rows : [q EXCEPT !.run = 0] \in PlainRows("node_ways", file[k], 0)
    <3>1. FreshInv("node_ways")
      BY <1>1 DEF KnownInv, DataInv, VersionsInv
    <3>2. rows \subseteq Present("node_ways")
      BY DEF Present
    <3> QED
      BY <1>1, <2>2, <3>1, <3>2 DEF FreshInv, Fresh, MayBeStale
  <2>4. ~file[k].deleted
    BY <1>1, <1>3, <2>3, PlainRowsOwner
  <2>5. PlainRows("node_ways", file[k], 0) = NodeWayRows(w, file[k].refs, 0)
    BY <2>1, <2>4 DEF PlainRows
  <2>6. Whole(T.live, k)
    BY <1>1, <1>3, <2>2 DEF WholeInv
  <2>7. ASSUME NEW q \in NodeWayRows(w, file[k].refs, 0) PROVE q \in Strip(rows)
    <3>1. PICK s \in T.live : q = [s EXCEPT !.run = 0]
      BY <2>5, <2>6, <2>7 DEF Whole, Strip
    <3>2. q.way = w
      BY <1>4, <2>7
    <3>3. s.way = w
      BY <3>1, <3>2
    <3> QED
      BY <3>1, <3>3 DEF Strip
  <2>8. w \in DOMAIN New.way /\ New.way[w].refs = file[k].refs
    BY <1>1, <2>1, <2>4, NewWays
  <2> HIDE DEF rows
  <2> QED
    BY <1>5, <2>3, <2>5, <2>7, <2>8
<1>7. CASE ~InFile("way", w)
  <2> DEFINE ways == ImportedWays(old) \cup old.late
  <2>1. \A q : q.way = w => Bystander("node_ways", q)
    BY <1>1, <1>7, BystanderIsNotInFile DEF KindOf, IdIn
  <2>2. rows = {q \in Imported(old, PolygonTable)["node_ways"] : q.way = w}
    BY <1>1, <2>1 DEF BystandersInv
  <2>3. Imported(old, PolygonTable)["node_ways"] =
            UNION {NodeWayRows(v, old.way[v].refs, 0) : v \in ways}
    BY DEF Imported, Tables, MemberTables
  <2>4. \A v, refs : \A q \in NodeWayRows(v, refs, 0) : q.way = v /\ [q EXCEPT !.run = 0] = q
    BY DEF NodeWayRows
  <2>5. ways \subseteq DOMAIN old.way
    BY <1>1 DEF InputInv, IsDataSet, ImportedWays
  <2> HIDE DEF rows, ways
  <2>6. w \in ways
    BY <1>3, <2>2, <2>3, <2>4
  <2>7. rows = NodeWayRows(w, old.way[w].refs, 0)
    BY <2>2, <2>3, <2>4, <2>6
  <2>8. Strip(rows) = rows
    BY <2>4, <2>7 DEF Strip
  <2>9. w \in DOMAIN New.way /\ New.way[w] = old.way[w]
    BY <1>1, <1>7, <2>5, <2>6, NewWays
  <2> DEFINE refs == old.way[w].refs
  <2>10. /\ \A q \in rows : [q EXCEPT !.run = 0] \in NodeWayRows(w, refs, 0)
         /\ NodeWayRows(w, refs, 0) \subseteq Strip(rows)
    BY <2>4, <2>7, <2>8
  <2> HIDE DEF refs
  <2>11. WayNodes(w) = {<<i, refs[i]>> : i \in DOMAIN refs}
    BY <1>5, <2>10
  <2> QED
    BY <2>9, <2>11 DEF refs
<1> QED
    BY <1>6, <1>7

\* With the current locations it is the line after the diff.
LEMMA KnownLocation ==
    ASSUME KnownInv, ProperFile, AllNodesPassed, NEW n, LocIn(New, n) # NoLoc
    PROVE  Lookup(n) = LocIn(New, n)
<1>1. n \in DOMAIN New.node /\ LocIn(New, n) = New.node[n].loc
    BY DEF LocIn
<1> QED
    BY <1>1, LookupIsCurrent DEF KnownInv

LEMMA NewRefs ==
    ASSUME InputInv, OneVersionEach, NEW w \in DOMAIN New.way
    PROVE  New.way[w].refs \in Seq(Nodes) /\ w \in Ways
<1>1. CASE ~InFile("way", w)
    BY <1>1, NewWays DEF InputInv, IsDataSet
<1>2. CASE InFile("way", w)
  <2>1. PICK k \in DOMAIN file : file[k].kind = "way" /\ file[k].id = w
    BY <1>2 DEF InFile, Has
  <2>2. New.way[w].refs = file[k].refs
    BY <2>1, NewWays
  <2>3. file[k] \in Changes
    BY FileFacts
  <2> QED
    BY <2>1, <2>2, <2>3, ChangeFacts
<1> QED
    BY <1>1, <1>2

LEMMA LineIsWhole ==
    ASSUME KnownInv, ProperFile, AllNodesPassed, WholeWays(New), NEW w \in DOMAIN New.way
    PROVE  /\ {<<i, Lookup(New.way[w].refs[i])>> : i \in DOMAIN New.way[w].refs} = WayLine(New, w)
           /\ Complete(WayLine(New, w)) /\ ~SinglePoint(WayLine(New, w))
<1> DEFINE refs == New.way[w].refs
<1>1. WayLine(New, w) = {<<i, LocIn(New, refs[i])>> : i \in DOMAIN refs}
    BY DEF WayLine, Line
<1>2. Complete(WayLine(New, w)) /\ Len(refs) >= 2
    BY DEF WholeWays
<1>3. refs \in Seq(Nodes)
    BY NewRefs DEF KnownInv, DataInv, BaseInv, ProperFile
<1> HIDE DEF refs
<1>4. ASSUME NEW i \in DOMAIN refs PROVE LocIn(New, refs[i]) # NoLoc
  <2>1. <<i, LocIn(New, refs[i])>> \in WayLine(New, w)
    BY <1>1
  <2>2. <<i, LocIn(New, refs[i])>>[2] # NoLoc
    BY <1>2, <2>1 DEF Complete
  <2> QED
    BY <2>2
<1>5. \A i \in DOMAIN refs : Lookup(refs[i]) = LocIn(New, refs[i])
    BY <1>4, KnownLocation
<1>6. ~SinglePoint(WayLine(New, w))
  <2>1. DOMAIN refs = 1 .. Len(refs) /\ Len(refs) \in Nat
    BY <1>3
  <2>2. IsFiniteSet(DOMAIN refs)
    BY <2>1, FS_Interval
  <2>3. IsFiniteSet(WayLine(New, w))
    <3> DEFINE points == [i \in DOMAIN refs |-> <<i, LocIn(New, refs[i])>>]
    <3>1. points \in Surjection(DOMAIN refs, WayLine(New, w))
      BY <1>1 DEF Surjection
    <3> HIDE DEF points
    <3> QED
      BY <2>2, <3>1, FS_Surjection
  <2>4. /\ <<1, LocIn(New, refs[1])>> \in WayLine(New, w)
        /\ <<2, LocIn(New, refs[2])>> \in WayLine(New, w)
    BY <1>1, <1>2, <2>1
  <2> QED
    BY <2>3, <2>4, FS_Singleton DEF SinglePoint
<1> QED
    BY <1>1, <1>2, <1>5, <1>6 DEF refs

LEMMA StoredLineIsNew ==
    ASSUME KnownInv, WholeInv, ProperFile, AllNodesPassed, WholeWays(New), NEW w
    PROVE  /\ StoredLine(w) = {} \/ (w \in DOMAIN New.way /\ StoredLine(w) = WayLine(New, w))
           /\ Complete(StoredLine(w)) /\ ~SinglePoint(StoredLine(w))
<1>1. CASE WayNodes(w) = {}
  <2>1. StoredLine(w) = {}
    BY <1>1 DEF StoredLine
  <2>2. Cardinality({}) # 1
    BY FS_EmptySet
  <2> QED
    BY <2>1, <2>2 DEF Complete, SinglePoint
<1>2. CASE WayNodes(w) # {}
  <2> DEFINE refs == New.way[w].refs
  <2>1. w \in DOMAIN New.way /\ WayNodes(w) = {<<i, refs[i]>> : i \in DOMAIN refs}
    BY <1>2, WayNodesAreNew DEF AllNodesPassed
  <2> HIDE DEF refs
  <2>2. StoredLine(w) = {<<i, Lookup(refs[i])>> : i \in DOMAIN refs}
    <3> DEFINE Located(p) == <<p[1], Lookup(p[2])>>
    <3>1. StoredLine(w) = {Located(p) : p \in WayNodes(w)}
      BY DEF StoredLine
    <3>2. \A i : Located(<<i, refs[i]>>) = <<i, Lookup(refs[i])>>
      OBVIOUS
    <3> HIDE DEF Located
    <3>3. StoredLine(w) = {Located(<<i, refs[i]>>) : i \in DOMAIN refs}
      BY <2>1, <3>1
    <3> QED
      BY <3>2, <3>3
  <2>3. StoredLine(w) = WayLine(New, w)
    BY <2>1, <2>2, LineIsWhole DEF refs
  <2> QED
    BY <2>1, <2>3, LineIsWhole
<1> QED
    BY <1>1, <1>2
-----------------------------------------------------------------------------
(* Premature ends.                                                          *)

LinesInv == KnownInv /\ (ProperFile => WholeInv)

LEMMA LinesInvariant == Spec => []LinesInv
<1>1. LinesInv /\ KnownInv' /\ [Next]_vars => LinesInv'
  <2> SUFFICES ASSUME LinesInv, KnownInv', [Next]_vars, ProperFile' PROVE WholeInv'
    BY DEF LinesInv
  <2>1. BaseInv /\ AutocommitInv /\ RowStep
    BY BaseStep DEF LinesInv, KnownInv, DataInv, EndInv
  <2>2. ProperFile
    BY <2>1, SameInput DEF ProperFile, SortedFile, OneVersionEach, AddedAreNew, OldIds, IsNew
  <2> QED
    BY <2>1, <2>2, WholeStep DEF LinesInv, ProperFile
<1>2. Init => (ProperFile => WholeInv)
  BY InitWhole DEF ProperFile
<1> QED
    BY <1>1, <1>2, KnownInvariant, PTL DEF Spec, LinesInv

\* The tables that are written to in pass 2 are in COPY.
CopyInv ==
    pc = "pass2" =>
        /\ progress = "POINT" => db["point"].copy = TRUE /\ db["untagged"].copy = TRUE
        /\ progress = "WAY" => db["node_ways"].copy = TRUE

\* The actions that lead into pass 2.
LEMMA IntoPass2 ==
    ASSUME [Next]_vars, pc' = "pass2"
    PROVE  \/ UNCHANGED vars \/ StartPass2 \/ WriteNewNodes \/ FlushAreas \/ StartRelations
           \/ Node2 \/ Way2Deleted \/ Way2 \/ Relation2Deleted \/ Relation2
<1>1. ~Node1 /\ ~Way1 /\ ~Relation1
    BY DEF Node1, Way1, Relation1, Pass1, Pass1Frame
<1>2. ~Node2Throws /\ ~WriteNewNodesThrows /\ ~Way2Throws /\ ~WriteNewWays
    BY DEF Node2Throws, WriteNewNodesThrows, Way2Throws, WriteNewWays, Die
<1>3. \A w \in Ways : ~UpdateWay(w) /\ ~UpdateWayThrows(w)
    BY DEF UpdateWay, UpdateWayThrows, Die
<1>4. \A rel \in Rels : ~UpdateRelation(rel) /\ ~UpdateRelationThrows(rel)
    BY DEF UpdateRelation, UpdateRelationThrows, Die
<1>5. ~AfterRelations /\ ~FlushUpdated /\ ~IncompleteRelations
    BY DEF AfterRelations, FlushUpdated, IncompleteRelations
<1>6. \A t \in Tables : ~CloseTable(t) /\ ~CloseThrows(t)
    BY DEF CloseTable, CloseThrows, Closing, Die
<1>7. ~Crash /\ ~Restart
    BY DEF Crash, Restart, Die
<1> QED
    BY <1>1, <1>2, <1>3, <1>4, <1>5, <1>6, <1>7 DEF Next, Step, Pass1Step, Pass2Step, AfterStep

LEMMA CopyStep ==
    ASSUME BaseInv, CopyInv, [Next]_vars
    PROVE  CopyInv'
<1> SUFFICES ASSUME pc' = "pass2"
             PROVE  /\ progress' = "POINT" =>
                            db'["point"].copy = TRUE /\ db'["untagged"].copy = TRUE
                    /\ progress' = "WAY" => db'["node_ways"].copy = TRUE
    BY DEF CopyInv
<1>1. /\ TablesInv /\ InputInv /\ ControlInv /\ RowsInv
      /\ \A t \in {"point", "untagged", "node_ways"} : t \in Tables /\ t \in RowTables /\ IsTable(db[t])
    BY RowTablesFacts DEF BaseInv, TablesInv
<1>2. CASE UNCHANGED vars
    BY <1>2 DEF vars, CopyInv
<1>3. CASE StartPass2
  <2>1. SwitchStep /\ progress = "POINT"
    BY <1>1, <1>3, StartPass2Rows DEF StartPass2, TablesInv
  <2> QED
    BY <2>1 DEF SwitchStep, Started
<1>4. CASE WriteNewNodes
  <2>1. progress' = "WAY" /\ db'["node_ways"] = start_copy(db["node_ways"])
    BY <1>1, <1>4 DEF WriteNewNodes
  <2> QED
    BY <1>1, <2>1, StartCopyFields
<1>5. CASE FlushAreas
  <2>1. /\ pc = "pass2" /\ progress' = progress
        /\ \A t \in {"point", "untagged", "node_ways"} : db'[t] = db[t]
    BY <1>1, <1>5 DEF FlushAreas, TablesInv
  <2> QED
    BY <2>1 DEF CopyInv
<1>6. CASE StartRelations
    BY <1>6 DEF StartRelations
<1>7. CASE Node2 \/ Way2Deleted \/ Way2 \/ Relation2Deleted \/ Relation2
  <2>1. SendStep
    BY <1>1, <1>7, Node2Rows, DeletedRows, Way2Rows, Relation2Rows
  <2>2. pc = "pass2" /\ progress' = progress
    BY <2>1 DEF SendStep
  <2>3. ASSUME NEW t \in {"point", "untagged", "node_ways"} PROVE db'[t].copy = db[t].copy
    <3>1. Sends(t, file[pos])
      BY <1>1, <2>1 DEF SendStep
    <3> QED
      BY <3>1 DEF Sends, Sent, Queried, SameMode
  <2> QED
    BY <2>2, <2>3 DEF CopyInv
<1> QED
    BY <1>2, <1>3, <1>4, <1>5, <1>6, <1>7, IntoPass2

\* What is written down as the reason of an end.
LEMMA WhyMoves ==
    ASSUME [Next]_vars
    PROVE  \/ why' = why \/ why' = "-" \/ why' = "killed"
           \/ Node2Throws \/ WriteNewNodesThrows \/ Way2Throws
           \/ \E w \in Ways : UpdateWayThrows(w)
           \/ \E rel \in Rels : UpdateRelationThrows(rel)
           \/ \E t \in Tables : CloseThrows(t)
<1>1. CASE UNCHANGED vars
    BY <1>1 DEF vars
<1>2. CASE Pass1Step
    BY <1>2 DEF Pass1Step, Node1, Way1, Relation1, StartPass2, Pass1Frame
<1>3. CASE Node2 \/ WriteNewNodes \/ Way2Deleted \/ Way2 \/ FlushAreas
    BY <1>3 DEF Node2, WriteNewNodes, Way2Deleted, Way2, FlushAreas
<1>4. CASE WriteNewWays \/ StartRelations \/ Relation2Deleted \/ Relation2
    BY <1>4 DEF WriteNewWays, StartRelations, Relation2Deleted, Relation2
<1>5. \A w \in Ways : UpdateWay(w) => why' = why
    BY DEF UpdateWay
<1>6. CASE AfterRelations \/ FlushUpdated \/ IncompleteRelations
    BY <1>6 DEF AfterRelations, FlushUpdated, IncompleteRelations
<1>7. \A rel \in Rels : UpdateRelation(rel) => why' = why
    BY DEF UpdateRelation
<1>8. \A t \in Tables : CloseTable(t) => why' = why
    BY DEF CloseTable
<1>9. CASE Crash \/ Restart
    BY <1>9 DEF Crash, Restart, Die
<1> QED
    BY <1>1, <1>2, <1>3, <1>4, <1>5, <1>6, <1>7, <1>8, <1>9 DEF Next, Step, Pass2Step, AfterStep

\* A node that is too late, or a way: the file is not sorted.
LEMMA ModeThrows ==
    ASSUME KnownInv, CopyInv, SortedFile,
           \/ Node2Throws
           \/ Object("way") /\ pc = "pass2" /\ progress # "POINT" /\ ~CanSendLine(db["node_ways"])
    PROVE  FALSE
<1>1. /\ BaseInv /\ InputInv /\ ControlInv /\ TablesInv /\ LossInv
      /\ DOMAIN file = 1 .. Len(file) /\ Len(file) \in Nat /\ pos \in Nat \ {0}
      /\ \A t \in {"point", "untagged", "node_ways"} :
            t \in RowTables /\ db[t].copy \in BOOLEAN /\ db[t].stream \in BOOLEAN
    BY FileFacts, RowTablesFacts DEF KnownInv, DataInv, BaseInv, ControlInv, TablesInv, IsTable
<1>2. pc = "pass2" /\ InPass2 /\ pos \in DOMAIN file
  <2>1. pc = "pass2" /\ pos <= Len(file)
    BY DEF Node2Throws, Object
  <2>2. InPass2
    BY <2>1 DEF InPass2
  <2>3. pos \in 1 .. Len(file)
    BY <1>1, <2>1
  <2> QED
    BY <1>1, <2>1, <2>2, <2>3
<1>3. \A t \in {"point", "untagged", "node_ways"} : db[t].copy = TRUE => CanSendLine(db[t])
    BY <1>1, <1>2 DEF LossInv, AtTheEnd, CanSendLine
<1>4. CASE Node2Throws
  <2>1. NodeAt(pos) /\ NodeTable(file[pos]) \in {"point", "untagged"}
        /\ ~CanSendLine(db[NodeTable(file[pos])])
    BY <1>2, <1>4 DEF Node2Throws, Object, NodeLineFails, NodeTable, NodeAt
  <2>2. progress = "POINT"
    BY <1>1, <1>2, <2>1, NodesPassed
  <2> QED
    BY <1>2, <1>3, <2>1, <2>2 DEF CopyInv
<1>5. CASE Object("way") /\ progress # "POINT" /\ ~CanSendLine(db["node_ways"])
  <2>1. file[pos].kind = "way"
    BY <1>5 DEF Object
  <2>2. progress # "RELATION"
    <3> SUFFICES ASSUME progress = "RELATION" PROVE FALSE
      OBVIOUS
    <3>1. PICK k \in DOMAIN file : k <= pos /\ file[k].kind = "relation"
      BY <1>1, <1>2 DEF ControlInv
    <3>2. k < pos
      BY <1>1, <2>1, <3>1
    <3> QED
      BY <1>2, <2>1, <3>1, <3>2 DEF SortedFile, Rank
  <2>3. progress = "WAY"
    BY <1>1, <1>5, <2>2 DEF TablesInv
  <2> QED
    BY <1>2, <1>3, <1>5, <2>3 DEF CopyInv
<1> QED
    BY <1>4, <1>5

\* The lines and collections of complete data can be made.
LEMMA LineThrowsNever ==
    ASSUME KnownInv, ProperFile, Healthy, pc = "pass2", progress # "POINT",
           Object("way"), ~file[pos].deleted
    PROVE  ~LineThrows(file[pos])
<1> DEFINE c == file[pos]
           w == c.id
<1>1. /\ BaseInv /\ InputInv /\ SortedFile /\ OneVersionEach /\ WholeWays(New)
      /\ pos \in DOMAIN file /\ c.kind = "way"
    BY FileFacts DEF KnownInv, DataInv, BaseInv, ControlInv, ProperFile, Healthy, Closed,
        WholeWays, Object
<1>2. w \in DOMAIN New.way /\ New.way[w].refs = c.refs
    BY <1>1, NewWays
<1>3. AllNodesPassed
    BY <1>1, PassedWithWays DEF InPass2
<1>4. NewLine(c) = {<<i, Lookup(c.refs[i])>> : i \in DOMAIN c.refs}
    BY DEF NewLine, Line
<1> HIDE DEF c, w
<1>5. NewLine(c) = WayLine(New, w) /\ Complete(WayLine(New, w))
    BY <1>1, <1>2, <1>3, <1>4, LineIsWhole
<1> QED
    BY <1>5 DEF LineThrows, c

LEMMA StoredLinesNeverThrow ==
    ASSUME LinesInv, ProperFile, Healthy, pc \in {"ways", "rels"}
    PROVE  /\ \A w : ~UpdateWayThrows(w)
           /\ \A rel : ~UpdateRelationThrows(rel)
<1>1. BaseInv /\ SortedFile /\ InPass2 /\ WholeWays(New) /\ KnownInv /\ WholeInv
    BY DEF LinesInv, KnownInv, DataInv, ProperFile, Healthy, Closed, WholeWays, InPass2
<1>2. AllNodesPassed
  <2>1. pc = "ways" => progress # "POINT"
    BY <1>1 DEF BaseInv, TablesInv
  <2> QED
    BY <1>1, <2>1, PassedWithWays
<1>3. \A w : Complete(StoredLine(w)) /\ ~SinglePoint(StoredLine(w))
    BY <1>1, <1>2, StoredLineIsNew
<1>4. ASSUME NEW rel PROVE ~Incomplete(rel) /\ ~SinglePoints(rel)
  <2>1. ASSUME NEW l \in StoredLines(rel) PROVE \E w : l[2] = StoredLine(w)
    <3>1. PICK m \in MembersOf("way", rel) : l = <<m[1], StoredLine(m[2])>>
      BY DEF StoredLines
    <3> QED
      BY <3>1
  <2> QED
    BY <1>3, <2>1 DEF Incomplete, SinglePoints
<1> QED
    BY <1>3, <1>4 DEF UpdateWayThrows, UpdateRelationThrows

LEMMA WhyStep ==
    ASSUME LinesInv, CopyInv, NoRowsLost, [Next]_vars, ProperFile, FailuresExplained
    PROVE  FailuresExplained'
<1> DEFINE Lost == (HasWay /\ ~HasRelation) \/ ~SortedFile
           Empty == \E w \in Written("way") : Change("way", w).refs = <<>>
           Missing == ~PolygonTable /\ ~Areas /\ (HasWay \/ HasRelation)
           Explained(reason) ==
                /\ reason = "lost COPY" => Lost
                /\ reason = "not in COPY mode" => ~SortedFile
                /\ reason = "no polygon table" => Missing
                /\ reason \in {"missing location", "single point"} => ~Healthy
                /\ reason = "empty line" => Empty
<1>1. KnownInv /\ BaseInv /\ InputInv /\ SortedFile /\ OneVersionEach
    BY DEF LinesInv, KnownInv, DataInv, BaseInv, ProperFile
<1>2. UNCHANGED <<old, file, Areas, PolygonTable>>
    BY <1>1, BaseStep, SameInput DEF Areas, PolygonTable
<1>3. Explained(why') => FailuresExplained'
    BY <1>2 DEF FailuresExplained, HasWay, HasRelation, SortedFile, Healthy, New, Written, Change
<1>4. Explained(why) /\ Explained("-") /\ Explained("killed")
    BY DEF FailuresExplained
<1>5. ASSUME Node2Throws PROVE Explained(why')
    BY <1>1, <1>5, ModeThrows DEF LinesInv
<1>6. ASSUME Way2Throws PROVE Explained(why')
  <2>1. Object("way") /\ pc = "pass2" /\ progress # "POINT" /\ ~file[pos].deleted
    BY <1>6 DEF Way2Throws
  <2>2. CASE LineThrows(file[pos]) /\ why' = "missing location"
    BY <1>1, <2>1, <2>2, LineThrowsNever
  <2>3. CASE file[pos].refs = <<>> /\ why' = "empty line"
    <3>1. pos \in DOMAIN file /\ file[pos].kind = "way"
      BY <1>1, <2>1, FileFacts DEF Object, BaseInv, ControlInv
    <3>2. Change("way", file[pos].id) = file[pos]
      BY <1>1, <3>1, GetUnique
    <3>3. file[pos].id \in Written("way")
      BY <2>1, <3>1 DEF Written, WrittenBy
    <3>4. Empty
      BY <2>3, <3>2, <3>3
    <3> QED
      BY <2>3, <3>4
  <2>4. CASE ~CanSendLine(db["node_ways"])
    BY <1>1, <2>1, <2>4, ModeThrows DEF LinesInv
  <2> QED
    BY <1>6, <2>2, <2>3, <2>4 DEF Way2Throws, Die
<1>7. ASSUME NEW w, UpdateWayThrows(w) PROVE Explained(why')
  <2>1. pc = "ways" /\ why' \in {"missing location", "single point"}
    BY <1>7 DEF UpdateWayThrows, Die
  <2>2. ~Healthy
    BY <1>7, <2>1, StoredLinesNeverThrow
  <2> QED
    BY <2>1, <2>2
<1>8. ASSUME NEW rel, UpdateRelationThrows(rel) PROVE Explained(why')
  <2>1. pc = "rels" /\ why' \in {"missing location", "single point"}
    BY <1>8 DEF UpdateRelationThrows, Die
  <2>2. ~Healthy
    BY <1>8, <2>1, StoredLinesNeverThrow
  <2> QED
    BY <2>1, <2>2
<1>9. ASSUME NEW t \in Tables, CloseThrows(t) PROVE Explained(why')
  <2>1. why' = "lost COPY" /\ db[t].copy /\ ~db[t].stream
    BY <1>9 DEF CloseThrows, Die, CanClose, CanEndCopy
  <2>2. Lost
    BY <2>1 DEF NoRowsLost
  <2> QED
    BY <2>1, <2>2
<1>10. ASSUME WriteNewNodesThrows PROVE Explained(why')
  <2>1. why' = "no polygon table" /\ ~PolygonTable
    BY <1>10 DEF WriteNewNodesThrows, Die
  <2>2. ~Areas
    BY <1>1, <2>1 DEF InputInv
  <2>3. pos \in DOMAIN file /\ file[pos].kind \in {"way", "relation"}
    <3>1. pc = "pass2" /\ (Object("way") \/ Object("relation"))
      BY <1>10 DEF WriteNewNodesThrows
    <3> QED
      BY <1>1, <3>1, FileFacts DEF Object, BaseInv, ControlInv
  <2>4. Missing
    BY <2>1, <2>2, <2>3 DEF HasWay, HasRelation
  <2> QED
    BY <2>1, <2>4
<1> HIDE DEF Explained
<1> QED
    BY <1>3, <1>4, <1>5, <1>6, <1>7, <1>8, <1>9, <1>10, WhyMoves

\* Every premature end has a reason in the input: the program does not die for a
\* lost COPY, a table in the wrong mode, a missing location or a line of one
\* point but where the file or the data are to blame, and for the missing table
\* of the areas only if neither the import nor the update was given --areas and
\* the file has a way or a relation; as long as the file has one version of every
\* object, in order.
THEOREM FailuresHaveReasons == Spec => [](ProperFile => FailuresExplained)
<1>1. Init => FailuresExplained /\ CopyInv
    BY DEF Init, FailuresExplained, CopyInv
<1>2. LinesInv /\ CopyInv /\ [Next]_vars => CopyInv'
    BY CopyStep DEF LinesInv, KnownInv, DataInv
<1>3. LinesInv /\ CopyInv /\ NoRowsLost /\ [Next]_vars /\ (ProperFile => FailuresExplained)
            => (ProperFile => FailuresExplained)'
  <2> SUFFICES ASSUME LinesInv, CopyInv, NoRowsLost, [Next]_vars,
                      ProperFile => FailuresExplained, ProperFile'
               PROVE  FailuresExplained'
    OBVIOUS
  <2>1. RowStep
    BY BaseStep DEF LinesInv, KnownInv, DataInv
  <2>2. ProperFile
    BY <2>1, SameInput DEF ProperFile, SortedFile, OneVersionEach, AddedAreNew, OldIds, IsNew
  <2> QED
    BY <2>2, WhyStep
<1> QED
    BY <1>1, <1>2, <1>3, LinesInvariant, CopyIsNotLost, PTL DEF Spec
=============================================================================
