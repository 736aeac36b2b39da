-------------------------- MODULE DiffFollowProofs --------------------------
(***************************************************************************)
(* The lines and the relations, whose rows are rewritten after they were   *)
(* inserted: those of the change file have the geometry after the diff.    *)
(* The relations that the change file does not contain: their collections  *)
(* follow the members, those in the file and the ways that follow their    *)
(* nodes, from the queries of pass 2 by way of m_pending_relations to      *)
(* update_relation().                                                      *)
(***************************************************************************)
EXTENDS DiffVersionsProofs
-----------------------------------------------------------------------------
(* The moves of the rows.                                                   *)

EditedTables == {"line", "relations"}

Shaped(t, r) ==
    IF t = "line" THEN r = LineRow(r.id, r.geom, r.run)
    ELSE r = RelationRow(r.id, r.points, r.lines, r.run)
ShapeInv == \A t \in EditedTables : \A r \in AllRows(db[t]) : Shaped(t, r)

\* What update_way() and update_relation() make of a row.
Updated(t, r) ==
    IF t = "line" THEN [r EXCEPT !.geom = StoredLine(r.id)]
    ELSE [r EXCEPT !.points = NodePoints(MembersOf("node", r.id)),
                   !.lines = StoredLines(r.id)]
UpdateStep(t, id) ==
    /\ pc = IF t = "line" THEN "ways" ELSE "rels"
    /\ id \in todo
    /\ Stored(db[t], db'[t], {IF r.id = id THEN Updated(t, r) ELSE r : r \in db[t].live})

LEMMA EditedTablesFacts ==
    ASSUME NEW t \in EditedTables
    PROVE  /\ t \in RowTables /\ t \in Tables /\ t \in Transactional /\ t \in OldTables
           /\ t \notin PlainTables
           /\ \A r : IdIn(t, r) = r.id
           /\ KindOf(t) = IF t = "line" THEN "way" ELSE "relation"
           /\ Rewritten(t) <=> \E id \in todo : UpdateStep(t, id)
<1>1. /\ t \in RowTables /\ t \in Tables /\ t \in Transactional /\ t \in OldTables
      /\ t \notin PlainTables
    BY RowTablesFacts, OldTablesFacts DEF EditedTables, Transactional
<1>2. /\ \A r : IdIn(t, r) = r.id
      /\ KindOf(t) = IF t = "line" THEN "way" ELSE "relation"
    BY DEF EditedTables, IdIn, KindOf, MemberTables
<1>3. ASSUME NEW id
      PROVE  {IF r.id = id THEN Updated(t, r) ELSE r : r \in db[t].live} =
                IF t = "line"
                THEN {IF r.id = id THEN [r EXCEPT !.geom = StoredLine(id)] ELSE r :
                        r \in db[t].live}
                ELSE {IF r.id = id
                      THEN [r EXCEPT !.points = NodePoints(MembersOf("node", id)),
                                     !.lines = StoredLines(id)]
                      ELSE r : r \in db[t].live}
  <2>1. CASE t = "line"
    <3>1. \A r : (IF r.id = id THEN Updated(t, r) ELSE r) =
                    IF r.id = id THEN [r EXCEPT !.geom = StoredLine(id)] ELSE r
      BY <2>1 DEF Updated
    <3> QED
      BY <2>1, <3>1
  <2>2. CASE t # "line"
    <3>1. \A r : (IF r.id = id THEN Updated(t, r) ELSE r) =
                    IF r.id = id
                    THEN [r EXCEPT !.points = NodePoints(MembersOf("node", id)),
                                   !.lines = StoredLines(id)]
                    ELSE r
      BY <2>2 DEF Updated
    <3> QED
      BY <2>2, <3>1
  <2> QED
    BY <2>1, <2>2
<1>4. Rewritten(t) <=> \E id \in todo : UpdateStep(t, id)
    BY <1>3 DEF Rewritten, UpdateStep, EditedTables
<1> QED
    BY <1>1, <1>2, <1>4

LEMMA UpdatedShape ==
    ASSUME NEW t, NEW r, Shaped(t, r)
    PROVE  /\ Shaped(t, Updated(t, r)) /\ Updated(t, r).id = r.id
           /\ Updated(t, r).run = r.run
           /\ t = "line" => Updated(t, r).geom = StoredLine(r.id)
           /\ t # "line" => Updated(t, r).points = NodePoints(MembersOf("node", r.id))
<1>1. CASE t = "line"
  <2>1. Updated(t, r) = LineRow(r.id, StoredLine(r.id), r.run)
    BY <1>1 DEF Shaped, Updated, LineRow
  <2> QED
    BY <1>1, <2>1 DEF Shaped, LineRow
<1>2. CASE t # "line"
  <2>1. Updated(t, r) = RelationRow(r.id, NodePoints(MembersOf("node", r.id)),
                                    StoredLines(r.id), r.run)
    BY <1>2 DEF Shaped, Updated, RelationRow
  <2> QED
    BY <1>2, <2>1 DEF Shaped, RelationRow
<1> QED
    BY <1>1, <1>2

LEMMA WrittenShape ==
    ASSUME NEW t \in EditedTables, NEW c, NEW r \in WrittenRows(t, c)
    PROVE  /\ Shaped(t, r) /\ r.run = run /\ r.id = c.id /\ c.kind = KindOf(t) /\ ~c.deleted
           /\ t = "line" => c.tagged /\ r.geom = Linestring(NewLine(c))
           /\ t # "line" => r.points = NewPoints(c)
<1>1. CASE t = "line"
  <2>1. WrittenRows(t, c) = IF c.kind = "way" /\ ~c.deleted /\ c.tagged
                            THEN {LineRow(c.id, Linestring(NewLine(c)), run)} ELSE {}
    BY <1>1, RowTablesFacts DEF WrittenRows
  <2>2. /\ c.kind = "way" /\ ~c.deleted /\ c.tagged
        /\ r = LineRow(c.id, Linestring(NewLine(c)), run)
    BY <2>1
  <2> QED
    BY <1>1, <2>2 DEF Shaped, LineRow, KindOf
<1>2. CASE t = "relations"
  <2>0. WrittenRows(t, c) =
            IF c.kind = "relation" /\ ~c.deleted
            THEN {RelationRow(c.id, NewPoints(c), InsertedLines(c.mems), run)} ELSE {}
    BY <1>2, RowTablesFacts DEF WrittenRows
  <2>1. /\ c.kind = "relation" /\ ~c.deleted
        /\ r = RelationRow(c.id, NewPoints(c), InsertedLines(c.mems), run)
    BY <2>0
  <2> QED
    BY <1>2, <2>1 DEF Shaped, RelationRow, KindOf
<1> QED
    BY <1>1, <1>2 DEF EditedTables

\* Where the rows come from, and where they go.
LEMMA EditedMoves ==
    ASSUME BaseInv, RowStep, NEW t \in EditedTables
    PROVE  \/ (DeadStep \/ AgainStep) /\ Renewed(db[t], db'[t])
           \/ /\ DeleteStep
              /\ \/ db'[t] = db[t] /\ (IsNew(file[pos]) \/ file[pos].kind # KindOf(t))
                 \/ Stored(db[t], db'[t], {r \in db[t].live : r.id # file[pos].id})
           \/ /\ SendStep /\ Present(t)' = Present(t) \cup WrittenRows(t, file[pos])
              /\ db'[t].saved = db[t].saved /\ db'[t].live = db[t].live
           \/ PhaseStep /\ \E id \in todo : UpdateStep(t, id)
           \/ /\ ~DeadStep /\ ~AgainStep /\ ~DeleteStep /\ ~SendStep
              /\ Present(t)' = Present(t)
              /\ db'[t].live \in {db[t].live, Present(t)}
              /\ db'[t].saved \in {db[t].saved, Present(t)}
<1> DEFINE Kept == /\ Present(t)' = Present(t)
                   /\ db'[t].live \in {db[t].live, Present(t)}
                   /\ db'[t].saved \in {db[t].saved, Present(t)}
<1>1. /\ t \in RowTables /\ t \notin PlainTables /\ t \in Transactional
      /\ \A r : IdIn(t, r) = r.id
      /\ KindOf(t) # "node"
      /\ Rewritten(t) <=> \E id \in todo : UpdateStep(t, id)
    BY EditedTablesFacts
<1>2. Running => db[t].begun = TRUE
    BY <1>1 DEF BaseInv, TablesInv
<1>3. db[t].copy = FALSE => db[t].lines = {}
    BY <1>1 DEF BaseInv, RowsInv, Tidy
<1>4. db'[t] = db[t] => Kept
    BY DEF Present
<1>5. Started(db[t], db'[t]) => Kept
    BY <1>3 DEF Started, Calm, Present
<1>6. CASE DeadStep \/ AgainStep
    BY <1>1, <1>6 DEF DeadStep, AgainStep
<1>7. CASE DeleteStep
  <2>1. Removes(t, file[pos])
    BY <1>1, <1>7 DEF DeleteStep
  <2> QED
    BY <1>1, <1>7, <2>1 DEF Removes
<1>8. CASE SwitchStep
  <2>1. db'[t] = db[t] /\ ~DeadStep /\ ~AgainStep /\ ~DeleteStep /\ ~SendStep
    BY <1>1, <1>8 DEF SwitchStep, DeadStep, AgainStep, DeleteStep, SendStep, EditedTables
  <2> QED
    BY <1>4, <2>1
<1>9. CASE SendStep
  <2>1. Sends(t, file[pos]) /\ ~Asked(t, file[pos])
    BY <1>1, <1>9 DEF SendStep, Asked, EditedTables
  <2>2. CASE Sent(db[t], db'[t], WrittenRows(t, file[pos]))
    BY <1>9, <2>2 DEF Sent, Calm, Present
  <2>3. CASE WrittenRows(t, file[pos]) = {} /\ db'[t] = db[t]
    BY <1>9, <2>3 DEF Present
  <2> QED
    BY <2>1, <2>2, <2>3 DEF Sends
<1>10. CASE PhaseStep
  <2>1. /\ Switches(t) /\ ~DeadStep /\ ~AgainStep /\ ~DeleteStep /\ t # "node_ways"
        /\ pc \in {"pass2", "ways", "rels", "incomplete"}
    BY <1>1, <1>10 DEF PhaseStep, PhaseChange, DeadStep, AgainStep, DeleteStep, EditedTables
  <2>2. ~SendStep
    BY <1>10, FileFacts DEF SendStep, PhaseStep, BaseInv, ControlInv
  <2>3. db[t].begun = TRUE
    BY <1>2, <2>1 DEF Running
  <2>4. Ended(db[t], db'[t]) => Kept
    BY <2>3 DEF Ended, Saves, Present
  <2> QED
    BY <1>1, <1>4, <1>5, <1>10, <2>1, <2>2, <2>4 DEF Switches
<1>11. ASSUME NEW u \in Tables, CloseStep(u)
       PROVE  ~DeadStep /\ ~AgainStep /\ ~DeleteStep /\ ~SendStep /\ Kept
  <2>1. pc = "close" /\ pc' # "dead"
    BY <1>11 DEF CloseStep, Closing
  <2>2. Destroyed(db[t], db'[t]) => Kept
    BY DEF Destroyed, Present
  <2> QED
    BY <1>1, <1>4, <1>11, <2>1, <2>2 DEF CloseStep, DeadStep, AgainStep, DeleteStep, SendStep
<1>12. CASE IdleStep
  <2>1. db'[t] = db[t] /\ pc' = pc /\ pos' = pos
    BY <1>1, <1>12 DEF IdleStep
  <2>2. ~DeadStep /\ ~AgainStep /\ ~DeleteStep /\ ~SendStep
    BY <2>1, FileFacts DEF DeadStep, AgainStep, DeleteStep, SendStep, BaseInv, ControlInv
  <2> QED
    BY <1>4, <2>1, <2>2
<1> QED
    BY <1>6, <1>7, <1>8, <1>9, <1>10, <1>11, <1>12 DEF RowStep

LEMMA ShapeStep ==
    ASSUME BaseInv, ShapeInv, RowStep
    PROVE  ShapeInv'
<1> SUFFICES ASSUME NEW t \in EditedTables, NEW r \in AllRows(db'[t])
             PROVE  Shaped(t, r)
    BY DEF ShapeInv, Shaped
<1>1. \A s \in AllRows(db[t]) : Shaped(t, s)
    BY DEF ShapeInv
<1>2. db[t].begun \in BOOLEAN
    BY EditedTablesFacts DEF BaseInv, TablesInv, IsTable
<1>3. CASE Renewed(db[t], db'[t]) \/ db'[t] = db[t]
    BY <1>1, <1>3 DEF Renewed, AllRows
<1>4. CASE Stored(db[t], db'[t], {s \in db[t].live : s.id # file[pos].id})
    BY <1>1, <1>2, <1>4 DEF Stored, Saves, AllRows
<1>5. CASE /\ Present(t)' = Present(t) \cup WrittenRows(t, file[pos])
           /\ db'[t].saved = db[t].saved
  <2>1. r \in AllRows(db[t]) \cup WrittenRows(t, file[pos])
    BY <1>5 DEF AllRows, Present
  <2> QED
    BY <1>1, <2>1, WrittenShape
<1>6. ASSUME NEW id, UpdateStep(t, id) PROVE Shaped(t, r)
  <2>1. \A s \in db[t].live : Shaped(t, IF s.id = id THEN Updated(t, s) ELSE s)
    BY <1>1, UpdatedShape DEF AllRows
  <2> QED
    BY <1>1, <1>2, <1>6, <2>1 DEF UpdateStep, Stored, Saves, AllRows
<1>7. CASE /\ Present(t)' = Present(t)
           /\ db'[t].saved \in {db[t].saved, Present(t)}
    BY <1>1, <1>7 DEF AllRows, Present
<1> QED
    BY <1>3, <1>4, <1>5, <1>6, <1>7, EditedMoves

\* What the import has made of the ways and relations.
LEMMA ImportedEdited ==
    ASSUME InputInv, NEW t \in EditedTables, NEW r \in Imported(old, PolygonTable)[t]
    PROVE  /\ Shaped(t, r) /\ r.run = 0 /\ r.id \in OldIds(KindOf(t))
           /\ t = "line" => r = LineRow(r.id, Linestring(WayLine(old, r.id)), 0)
           /\ t # "line" => r = RelationRow(r.id, Points(old, old.rel[r.id].mems),
                                            Lines(old, old.rel[r.id].mems), 0)
<1> DEFINE ways == ImportedWays(old) \cup {w \in old.late : old.way[w].tagged}
<1>1. /\ Imported(old, PolygonTable)["line"] = {LineRow(w, Linestring(WayLine(old, w)), 0) : w \in ways}
      /\ Imported(old, PolygonTable)["relations"] =
            {RelationRow(rel, Points(old, old.rel[rel].mems),
                         Lines(old, old.rel[rel].mems), 0) : rel \in ImportedRels(old)}
    BY DEF Imported, Tables, MemberTables
<1>2. ways \subseteq DOMAIN old.way /\ ImportedRels(old) \subseteq DOMAIN old.rel
    BY DEF InputInv, IsDataSet, ImportedWays, ImportedRels
<1> HIDE DEF ways
<1>3. CASE t = "line"
  <2>1. PICK w \in ways : r = LineRow(w, Linestring(WayLine(old, w)), 0)
    BY <1>1, <1>3
  <2>2. r.id = w /\ r.run = 0 /\ r.geom = Linestring(WayLine(old, w))
    BY <2>1 DEF LineRow
  <2> QED
    BY <1>2, <1>3, <2>1, <2>2 DEF Shaped, KindOf, OldIds
<1>4. CASE t = "relations"
  <2>1. PICK rel \in ImportedRels(old) :
            r = RelationRow(rel, Points(old, old.rel[rel].mems),
                            Lines(old, old.rel[rel].mems), 0)
    BY <1>1, <1>4
  <2>2. /\ r.id = rel /\ r.run = 0 /\ r.points = Points(old, old.rel[rel].mems)
        /\ r.lines = Lines(old, old.rel[rel].mems)
    BY <2>1 DEF RelationRow
  <2> QED
    BY <1>2, <1>4, <2>1, <2>2 DEF Shaped, KindOf, OldIds
<1> QED
    BY <1>3, <1>4 DEF EditedTables

LEMMA InitShape == Init => ShapeInv
<1> SUFFICES ASSUME Init, NEW t \in EditedTables, NEW r \in AllRows(db[t])
             PROVE  Shaped(t, r)
    BY DEF ShapeInv
<1>1. InputInv
    BY InitBase DEF BaseInv
<1>2. r \in Imported(old, PolygonTable)[t]
    BY InitRows, EditedTablesFacts DEF AllRows
<1> QED
    BY <1>1, <1>2, ImportedEdited
-----------------------------------------------------------------------------
(* The phases in which the rows are rewritten.                              *)

\* When update_way() is called, the node lists of all ways are those after the
\* diff.
LEMMA WaysSettled ==
    ASSUME DataInv, SortedFile, pc = "ways"
    PROVE  Settled("node_ways")
<1>1. /\ BaseInv /\ LossInv /\ EndInv /\ "node_ways" \in RowTables
      /\ pos \in DOMAIN file /\ file[pos].kind = "relation" /\ InPass2
    BY FileFacts, RowTablesFacts DEF DataInv, BaseInv, ControlInv, InPass2
<1>2. db["node_ways"].copy = FALSE
    BY <1>1 DEF BaseInv, TablesInv, IsTable, MayCopy, RowTables
<1>3. Present("node_ways") = db["node_ways"].saved
    BY <1>1, <1>2 DEF BaseInv, RowsInv, Tidy, EndInv, AutocommitInv, TopologyTables, Present
<1>4. ASSUME NEW k \in DOMAIN file, file[k].kind = "way" PROVE k < pos
  <2>1. ~(pos < k) /\ k # pos
    BY <1>1, <1>4 DEF SortedFile, Rank
  <2> QED
    BY <1>1, <2>1, FileFacts DEF BaseInv
<1> QED
    BY <1>1, <1>2, <1>3, <1>4 DEF Settled, KindOf

\* When update_relation() is called, so are the member lists of all relations.
LEMMA RelationsSettled ==
    ASSUME DataInv, pc = "rels", NEW t \in MemberTables
    PROVE  Settled(t)
<1>1. /\ BaseInv /\ EndInv /\ t \in RowTables /\ InPass2 /\ pos = Len(file) + 1
      /\ Len(file) \in Nat /\ DOMAIN file = 1 .. Len(file)
    BY FileFacts, RowTablesFacts DEF DataInv, BaseInv, ControlInv, InPass2
<1>2. db[t].copy = FALSE
    BY <1>1 DEF BaseInv, TablesInv, IsTable, MayCopy, RowTables, MemberTables
<1>3. Present(t) = db[t].saved
    BY <1>1, <1>2 DEF BaseInv, RowsInv, Tidy, EndInv, AutocommitInv, TopologyTables, Present
<1> QED
    BY <1>1, <1>2, <1>3 DEF Settled

LEMMA SettledWayNodes ==
    ASSUME DataInv, ProperFile, Settled("node_ways"), WholeWays(old), WholeWays(New),
           db["node_ways"].live = db["node_ways"].saved, NEW w \in DOMAIN New.way
    PROVE  WayNodes(w) # {}
<1>1. /\ InputInv /\ OneVersionEach /\ "node_ways" \in DataTables
      /\ "node_ways" \in PlainTables
    BY DataTablesFacts DEF DataInv, BaseInv, ProperFile, DataTables, TopologyTables
<1>2. Expected("node_ways") \subseteq Saved("node_ways")
    BY <1>1, SettledRows
<1> DEFINE refs == New.way[w].refs
           q == [way |-> w, node |-> refs[1], pos |-> 1, run |-> 0]
<1>3. q \in Expected("node_ways")
  <2>1. New.late \subseteq DOMAIN New.way
    BY <1>1, NewWays DEF InputInv, IsDataSet
  <2>2. Expected("node_ways") =
            UNION {RowsOf(New, "node_ways", id) : id \in ObjectsOf(New, "node_ways")}
    BY <1>1, <2>1, ImportedRowsOf DEF Expected
  <2>3. refs \in Seq(Nodes) /\ Len(refs) >= 2
    BY <1>1, NewRefs DEF WholeWays
  <2>4. q \in NodeWayRows(w, refs, 0)
    BY <2>3 DEF NodeWayRows
  <2> HIDE DEF refs, q
  <2>5. q \in RowsOf(New, "node_ways", w) /\ w \in ObjectsOf(New, "node_ways")
    BY <2>4 DEF RowsOf, ObjectsOf, KindOf, refs
  <2> QED
    BY <2>2, <2>5
<1>4. PICK s \in db["node_ways"].live : q = [s EXCEPT !.run = 0]
    BY <1>2, <1>3 DEF Saved, Strip
<1>5. s.way = w
    BY <1>4
<1> QED
    BY <1>5 DEF WayNodes, Live

\* update_way() sets the line of the way after the diff.
LEMMA UpdatedLine ==
    ASSUME LinesInv, ProperFile, Healthy, pc = "ways", NEW w \in DOMAIN New.way
    PROVE  StoredLine(w) = WayLine(New, w)
<1>1. /\ KnownInv /\ WholeInv /\ DataInv /\ BaseInv /\ EndInv /\ SortedFile /\ InPass2
      /\ WholeWays(old) /\ WholeWays(New) /\ "node_ways" \in RowTables
    BY RowTablesFacts DEF LinesInv, KnownInv, DataInv, ProperFile, Healthy, Closed, WholeWays,
        InPass2
<1>2. db["node_ways"].live = db["node_ways"].saved
    BY <1>1 DEF BaseInv, RowsInv, Tidy, EndInv, AutocommitInv, TopologyTables
<1>3. WayNodes(w) # {}
    BY <1>1, <1>2, WaysSettled, SettledWayNodes
<1>4. progress # "POINT"
    BY <1>1 DEF BaseInv, TablesInv
<1>5. AllNodesPassed
    BY <1>1, <1>4, PassedWithWays
<1>6. StoredLine(w) # {}
    BY <1>3 DEF StoredLine
<1> QED
    BY <1>1, <1>5, <1>6, StoredLineIsNew

LEMMA TableOfFacts ==
    ASSUME NEW kind \in Kinds
    PROVE  /\ TableOf(kind) \in MemberTables
           /\ (CHOOSE k \in Kinds : TableOf(k) = TableOf(kind)) = kind
<1>1. \A k \in Kinds : TableOf(k) = TableOf(kind) => k = kind
    BY DEF Kinds, TableOf
<1>2. TableOf(kind) \in MemberTables
    BY DEF Kinds, TableOf, MemberTables
<1> QED
    BY <1>1, <1>2

\* The members of a relation according to the tables.
LEMMA MembersAreNew ==
    ASSUME DataInv, ProperFile, NEW kind \in Kinds, Settled(TableOf(kind)),
           db[TableOf(kind)].live = db[TableOf(kind)].saved, NEW rel \in DOMAIN New.rel
    PROVE  MembersOf(kind, rel) =
                {<<i, New.rel[rel].mems[i].ref>> : i \in MembersAt(New.rel[rel].mems, kind)}
<1> DEFINE t == TableOf(kind)
           mems == New.rel[rel].mems
           Row(i) == [rel |-> rel, member |-> mems[i].ref, pos |-> i, run |-> 0]
           Pair(r) == <<r.pos, r.member>>
           rows == {r \in db[t].live : r.rel = rel}
           at == MembersAt(mems, kind)
<1>1. /\ t \in MemberTables /\ t \in PlainTables /\ t \in DataTables
      /\ t \notin {"node_ways", "point", "untagged"}
      /\ (CHOOSE k \in Kinds : TableOf(k) = t) = kind
    BY TableOfFacts DEF PlainTables, DataTables, TopologyTables, MemberTables
<1>2. /\ InputInv /\ OneVersionEach /\ New.late \subseteq DOMAIN New.way
    BY NewWays DEF DataInv, BaseInv, ProperFile, InputInv, IsDataSet
<1>3. Settled(t) /\ db[t].live = db[t].saved
    OBVIOUS
<1> HIDE DEF t, mems, at
<1>4. Strip(db[t].live) = Expected(t)
  <2>1. \A k : ~MayBeStale(t, file[k])
    BY <1>1 DEF MayBeStale
  <2> QED
    BY <1>1, <1>3, <2>1, SettledRows DEF Saved
<1>5. \A id : RowsOf(New, t, id) = MemberRows(id, New.rel[id].mems, kind, 0)
    BY <1>1 DEF RowsOf
<1>6. Expected(t) = UNION {RowsOf(New, t, id) : id \in DOMAIN New.rel}
  <2>1. ObjectsOf(New, t) = DOMAIN New.rel
    BY <1>1 DEF ObjectsOf, KindOf, MemberTables
  <2> QED
    BY <1>1, <1>2, <2>1, ImportedRowsOf DEF Expected
<1>7. RowsOf(New, t, rel) = {Row(i) : i \in at}
    BY <1>5 DEF MemberRows, mems, at, MembersAt
<1>8. ASSUME NEW r \in rows PROVE \E i \in at : Pair(r) = <<i, mems[i].ref>>
  <2>1. PICK id \in DOMAIN New.rel : [r EXCEPT !.run = 0] \in RowsOf(New, t, id)
    BY <1>4, <1>6 DEF Strip
  <2>2. [r EXCEPT !.run = 0].rel = id
    BY <1>5, <2>1 DEF MemberRows
  <2>3. id = rel
    BY <2>2
  <2>4. PICK i \in at : [r EXCEPT !.run = 0] = Row(i)
    BY <1>7, <2>1, <2>3
  <2>5. r.pos = i /\ r.member = mems[i].ref
    BY <2>4
  <2> QED
    BY <2>5
<1>9. ASSUME NEW i \in at PROVE \E r \in rows : Pair(r) = <<i, mems[i].ref>>
  <2>1. Row(i) \in Strip(db[t].live)
    BY <1>4, <1>6, <1>7
  <2>2. PICK r \in db[t].live : Row(i) = [r EXCEPT !.run = 0]
    BY <2>1 DEF Strip
  <2>3. r.pos = i /\ r.member = mems[i].ref /\ r.rel = rel
    BY <2>2
  <2> QED
    BY <2>3
<1>10. MembersOf(kind, rel) = {Pair(r) : r \in rows}
    BY DEF MembersOf, Live, t
<1> HIDE DEF Pair, rows
<1>11. MembersOf(kind, rel) = {<<i, mems[i].ref>> : i \in at}
    BY <1>8, <1>9, <1>10
<1> QED
    BY <1>11 DEF mems, at

\* With the current locations they are the points after the diff.
LEMMA PointsAreNew ==
    ASSUME KnownInv, ProperFile, AllNodesPassed, NEW mems,
           \A i \in MembersAt(mems, "node") : mems[i].ref \in DOMAIN New.node
    PROVE  NodePoints({<<i, mems[i].ref>> : i \in MembersAt(mems, "node")}) = Points(New, mems)
<1> DEFINE at == MembersAt(mems, "node")
           pairs == {<<i, mems[i].ref>> : i \in at}
           Located(m) == <<m[1], Lookup(m[2])>>
<1>1. \A i \in at : /\ Lookup(mems[i].ref) = LocIn(New, mems[i].ref)
                    /\ Lookup(mems[i].ref) # NoLoc
    BY LookupIsCurrent DEF KnownInv, LocIn
<1>2. \A i : Located(<<i, mems[i].ref>>) = <<i, Lookup(mems[i].ref)>>
    OBVIOUS
<1>3. NodePoints(pairs) = {p \in {Located(m) : m \in pairs} : p[2] # NoLoc}
    BY DEF NodePoints
<1>4. Points(New, mems) = {<<i, LocIn(New, mems[i].ref)>> : i \in at}
    BY DEF Points
<1> HIDE DEF at, Located
<1>5. {Located(m) : m \in pairs} = {<<i, Lookup(mems[i].ref)>> : i \in at}
    BY <1>2
<1> HIDE DEF pairs
<1>6. \A p \in {<<i, Lookup(mems[i].ref)>> : i \in at} : p[2] # NoLoc
    BY <1>1
<1>7. NodePoints(pairs) = {<<i, Lookup(mems[i].ref)>> : i \in at}
    BY <1>3, <1>5, <1>6
<1>8. {<<i, Lookup(mems[i].ref)>> : i \in at} = {<<i, LocIn(New, mems[i].ref)>> : i \in at}
    BY <1>1
<1> QED
    BY <1>4, <1>7, <1>8 DEF at, pairs

LEMMA ClosedMembers ==
    ASSUME Closed(New), NEW rel \in DOMAIN New.rel
    PROVE  \A i \in MembersAt(New.rel[rel].mems, "node") :
                New.rel[rel].mems[i].ref \in DOMAIN New.node
BY DEF Closed, HasMember, MembersAt

\* update_relation() sets the points after the diff.
LEMMA UpdatedPoints ==
    ASSUME KnownInv, ProperFile, Closed(New), pc = "rels", NEW rel \in DOMAIN New.rel
    PROVE  NodePoints(MembersOf("node", rel)) = Points(New, New.rel[rel].mems)
<1> DEFINE mems == New.rel[rel].mems
<1>1. /\ DataInv /\ BaseInv /\ EndInv /\ SortedFile /\ InPass2
    BY DEF KnownInv, DataInv, ProperFile, InPass2
<1>2. "node" \in Kinds /\ TableOf("node") \in MemberTables
    BY TableOfFacts DEF Kinds
<1>3. Settled(TableOf("node"))
    BY <1>1, <1>2, RelationsSettled
<1>4. db[TableOf("node")].live = db[TableOf("node")].saved
    BY <1>1, <1>2, RowTablesFacts DEF BaseInv, RowsInv, Tidy, EndInv, AutocommitInv, TopologyTables
<1>5. MembersOf("node", rel) = {<<i, mems[i].ref>> : i \in MembersAt(mems, "node")}
    BY <1>1, <1>2, <1>3, <1>4, MembersAreNew
<1>6. \A i \in MembersAt(mems, "node") : mems[i].ref \in DOMAIN New.node
    BY ClosedMembers
<1>7. AllNodesPassed
    BY <1>1, PassedWithWays
<1> HIDE DEF mems
<1>8. NodePoints({<<i, mems[i].ref>> : i \in MembersAt(mems, "node")}) = Points(New, mems)
    BY <1>6, <1>7, PointsAreNew
<1> QED
    BY <1>5, <1>8 DEF mems
-----------------------------------------------------------------------------
(* The rows of the objects of the file.                                     *)

\* No way has all its nodes in one place.
LinesGiven(data) == \A w \in DOMAIN data.way : GivesLine(data, w)
\* Data for which the geometries can be made.
SoundFor(t) == IF t = "line" THEN Healthy /\ LinesGiven(New) ELSE Closed(New)

\* A row that is right for object c of the file.
RightRow(t, r, c) ==
    /\ ~c.deleted
    /\ IF t = "line" THEN c.tagged /\ r.geom = WayLine(New, c.id)
       ELSE r.points = Points(New, c.mems)
EditedInv(t) ==
    /\ \A r \in Present(t) : \A k \in DOMAIN file :
            Matches(t, r, k) =>
                \/ RightRow(t, r, file[k])
                \/ ~IsNew(file[k]) /\ (pc = "dead" \/ (pc = "pass1" /\ k >= pos))
    /\ \A r \in db[t].saved : \A k \in DOMAIN file :
            Matches(t, r, k) /\ IsNew(file[k]) => RightRow(t, r, file[k])

LEMMA WrittenRowIsRight ==
    ASSUME LinesInv, ProperFile, SendStep, NEW t \in EditedTables, SoundFor(t),
           NEW r \in WrittenRows(t, file[pos])
    PROVE  RightRow(t, r, file[pos])
<1> DEFINE c == file[pos]
<1>1. /\ KnownInv /\ BaseInv /\ InputInv /\ SortedFile /\ OneVersionEach
      /\ pc = "pass2" /\ pos \in DOMAIN file /\ InPass2
    BY DEF LinesInv, KnownInv, DataInv, BaseInv, ProperFile, SendStep, InPass2
<1>2. /\ ~c.deleted /\ c.kind = KindOf(t)
      /\ t = "line" => c.tagged /\ r.geom = Linestring(NewLine(c))
      /\ t # "line" => r.points = NewPoints(c)
    BY WrittenShape
<1>3. c.kind \in {"way", "relation"} /\ (t = "line" <=> c.kind = "way")
    BY <1>2, EditedTablesFacts
<1>4. progress # "POINT"
    BY <1>3 DEF SendStep
<1>5. AllNodesPassed
    BY <1>1, <1>4, PassedWithWays
<1>6. CASE t = "line"
  <2>1. c.id \in DOMAIN New.way /\ New.way[c.id].refs = c.refs
    BY <1>1, <1>2, <1>3, <1>6, NewWays
  <2>2. WholeWays(New) /\ GivesLine(New, c.id)
    BY <1>6, <2>1 DEF SoundFor, Healthy, Closed, WholeWays, LinesGiven
  <2>3. NewLine(c) = {<<i, Lookup(c.refs[i])>> : i \in DOMAIN c.refs}
    BY DEF NewLine, Line
  <2> HIDE DEF c
  <2>4. NewLine(c) = WayLine(New, c.id)
    BY <1>1, <1>5, <2>1, <2>2, <2>3, LineIsWhole
  <2>5. Linestring(WayLine(New, c.id)) = WayLine(New, c.id)
    BY <2>2 DEF GivesLine, Linestring
  <2> QED
    BY <1>2, <1>6, <2>4, <2>5 DEF RightRow, c
<1>7. CASE t # "line"
  <2>1. c.id \in DOMAIN New.rel /\ New.rel[c.id].mems = c.mems
    BY <1>1, <1>2, <1>3, <1>7, NewRels
  <2>2. \A i \in MembersAt(c.mems, "node") : c.mems[i].ref \in DOMAIN New.node
    BY <1>7, <2>1, ClosedMembers DEF SoundFor
  <2> HIDE DEF c
  <2>3. NewPoints(c) = Points(New, c.mems)
    BY <1>1, <1>5, <2>2, PointsAreNew DEF NewPoints
  <2> QED
    BY <1>2, <1>7, <2>3 DEF RightRow, c
<1> QED
    BY <1>6, <1>7

LEMMA UpdatedRowIsRight ==
    ASSUME LinesInv, ProperFile, NEW t \in EditedTables, SoundFor(t), ShapeInv,
           NEW id, UpdateStep(t, id), NEW s \in db[t].live, s.id = id,
           NEW k \in DOMAIN file, Matches(t, s, k), RightRow(t, s, file[k])
    PROVE  RightRow(t, Updated(t, s), file[k])
<1>1. /\ KnownInv /\ OneVersionEach /\ ~file[k].deleted /\ file[k].id = id
      /\ t = "line" => file[k].kind = "way" /\ file[k].tagged
      /\ t # "line" => file[k].kind = "relation"
    BY EditedTablesFacts DEF LinesInv, ProperFile, RightRow, Matches
<1>2. Shaped(t, s)
    BY DEF ShapeInv, AllRows
<1>3. /\ t = "line" => Updated(t, s).geom = StoredLine(id)
      /\ t # "line" => Updated(t, s).points = NodePoints(MembersOf("node", id))
    BY <1>2, UpdatedShape
<1>4. CASE t = "line"
  <2>1. id \in DOMAIN New.way /\ pc = "ways"
    BY <1>1, <1>4, NewWays DEF UpdateStep
  <2>2. StoredLine(id) = WayLine(New, id)
    BY <1>4, <2>1, UpdatedLine DEF SoundFor
  <2> QED
    BY <1>1, <1>3, <1>4, <2>2 DEF RightRow
<1>5. CASE t # "line"
  <2>1. id \in DOMAIN New.rel /\ New.rel[id].mems = file[k].mems /\ pc = "rels"
    BY <1>1, <1>5, NewRels DEF UpdateStep
  <2>2. NodePoints(MembersOf("node", id)) = Points(New, file[k].mems)
    BY <1>1, <1>5, <2>1, UpdatedPoints DEF SoundFor
  <2> QED
    BY <1>1, <1>3, <1>5, <2>2 DEF RightRow
<1> QED
    BY <1>4, <1>5

\* What the properties compare the rows with does not change.
LEMMA SameGoals ==
    ASSUME RowStep
    PROVE  /\ UNCHANGED <<old, file, options, New, Areas>>
           /\ ProperFile' <=> ProperFile
           /\ Healthy' <=> Healthy
           /\ Closed(New)' <=> Closed(New)
           /\ LinesGiven(New)' <=> LinesGiven(New)
<1>1. UNCHANGED <<old, file, options>>
    BY SameInput
<1>2. UNCHANGED New
    BY <1>1 DEF New
<1> QED
    BY <1>1, <1>2 DEF ProperFile, SortedFile, OneVersionEach, AddedAreNew, OldIds, IsNew,
        Healthy, Closed, LinesGiven, Areas

LEMMA EditedStep ==
    ASSUME LinesInv, ProperFile, ShapeInv, RowStep,
           NEW t \in EditedTables, SoundFor(t), EditedInv(t)
    PROVE  EditedInv(t)'
<1> DEFINE Old(k) == ~IsNew(file[k]) /\ (pc' = "dead" \/ (pc' = "pass1" /\ k >= pos'))
           Live1 == \A r \in Present(t)' : \A k \in DOMAIN file :
                        Matches(t, r, k) => RightRow(t, r, file[k]) \/ Old(k)
           Saved1 == \A r \in db'[t].saved : \A k \in DOMAIN file :
                        Matches(t, r, k) /\ IsNew(file[k]) => RightRow(t, r, file[k])
<1>1. /\ BaseInv /\ OneVersionEach /\ pos \in Nat
      /\ DOMAIN file = 1 .. Len(file) /\ Len(file) \in Nat
    BY FileFacts DEF LinesInv, KnownInv, DataInv, BaseInv, ControlInv, ProperFile
<1>2. /\ UNCHANGED <<file, New>>
      /\ \A r, k : Matches(t, r, k)' <=> Matches(t, r, k)
    BY SameGoals, SameVersions
<1> SUFFICES Live1 /\ Saved1
    BY <1>2 DEF EditedInv, RightRow, IsNew
<1>3. /\ \A r \in Present(t) : \A k \in DOMAIN file :
            Matches(t, r, k) =>
                \/ RightRow(t, r, file[k])
                \/ ~IsNew(file[k]) /\ (pc = "dead" \/ (pc = "pass1" /\ k >= pos))
      /\ \A r \in db[t].saved : \A k \in DOMAIN file :
            Matches(t, r, k) /\ IsNew(file[k]) => RightRow(t, r, file[k])
    BY DEF EditedInv
<1>4. \A r \in Present(t) : \A k \in DOMAIN file :
            Matches(t, r, k) /\ IsNew(file[k]) => RightRow(t, r, file[k])
    BY <1>3
<1>5. db'[t].saved \subseteq db[t].saved \cup Present(t) => Saved1
    BY <1>3, <1>4
<1>6. /\ t \in RowTables /\ (Running => db[t].begun = TRUE)
      /\ KindOf(t) \in {"way", "relation"} /\ \A r : IdIn(t, r) = r.id
    BY <1>1, EditedTablesFacts DEF BaseInv, TablesInv
<1>7. CASE (DeadStep \/ AgainStep) /\ Renewed(db[t], db'[t])
  <2>1. db'[t].saved = db[t].saved /\ Present(t)' = db[t].saved
    BY <1>7 DEF Renewed, Present
  <2>2. pc' = "dead" \/ (pc' = "pass1" /\ pos' = 1)
    BY <1>7 DEF DeadStep, AgainStep
  <2> QED
    BY <1>1, <1>3, <2>1, <2>2
<1>8. CASE DeleteStep /\ db'[t] = db[t] /\ (IsNew(file[pos]) \/ file[pos].kind # KindOf(t))
  <2>1. Present(t)' = Present(t) /\ pc = "pass1" /\ pc' = "pass1" /\ pos' = pos + 1
    BY <1>8 DEF Present, DeleteStep
  <2>2. \A r, k : Matches(t, r, k) /\ k = pos => IsNew(file[k])
    BY <1>8 DEF Matches
  <2>3. Live1
    <3> SUFFICES ASSUME NEW r \in Present(t), NEW k \in DOMAIN file, Matches(t, r, k),
                        ~RightRow(t, r, file[k])
                 PROVE  Old(k)
      BY <2>1
    <3>1. ~IsNew(file[k]) /\ k >= pos
      BY <1>3, <2>1
    <3>2. k # pos
      BY <2>2, <3>1
    <3> QED
      BY <1>1, <2>1, <3>1, <3>2
  <2> QED
    BY <1>5, <1>8, <2>3
<1>9. CASE DeleteStep /\ Stored(db[t], db'[t], {r \in db[t].live : r.id # file[pos].id})
  <2>1. pc = "pass1" /\ pc' = "pass1" /\ pos' = pos + 1
    BY <1>9 DEF DeleteStep
  <2>2. /\ Present(t)' \subseteq Present(t) /\ db'[t].saved = db[t].saved
        /\ \A r \in db'[t].live : r.id # file[pos].id
    BY <1>6, <1>9, <2>1 DEF Stored, Saves, Present, Running
  <2>3. db'[t].lines = {}
    <3>1. db[t].copy = FALSE
      BY <1>1, <1>6, <2>1 DEF BaseInv, TablesInv, IsTable, MayCopy, RowTables
    <3> QED
      BY <1>1, <1>6, <1>9, <3>1 DEF BaseInv, RowsInv, Tidy, Stored
  <2>4. Live1
    <3> SUFFICES ASSUME NEW r \in Present(t)', NEW k \in DOMAIN file, Matches(t, r, k),
                        ~RightRow(t, r, file[k])
                 PROVE  Old(k)
      OBVIOUS
    <3>1. ~IsNew(file[k]) /\ k >= pos
      BY <1>3, <2>1, <2>2
    <3>2. k # pos
      BY <1>6, <2>2, <2>3 DEF Matches, Present
    <3> QED
      BY <1>1, <2>1, <3>1, <3>2
  <2> QED
    BY <1>5, <2>2, <2>4
<1>10. CASE /\ SendStep /\ Present(t)' = Present(t) \cup WrittenRows(t, file[pos])
            /\ db'[t].saved = db[t].saved
  <2>1. pc = "pass2" /\ pos \in DOMAIN file
    BY <1>10 DEF SendStep
  <2>2. ASSUME NEW r \in WrittenRows(t, file[pos]), NEW k \in DOMAIN file, Matches(t, r, k)
        PROVE  RightRow(t, r, file[k])
    <3>1. k = pos
      BY <1>1, <1>6, <2>1, <2>2, WrittenShape DEF Matches, OneVersionEach
    <3> QED
      BY <1>10, <2>2, <3>1, WrittenRowIsRight
  <2> QED
    BY <1>3, <1>5, <1>10, <2>1, <2>2
<1>11. ASSUME PhaseStep, NEW id \in todo, UpdateStep(t, id) PROVE Live1 /\ Saved1
  <2>1. /\ pc \in {"ways", "rels"}
        /\ Stored(db[t], db'[t], {IF r.id = id THEN Updated(t, r) ELSE r : r \in db[t].live})
    BY <1>11 DEF UpdateStep
  <2>2. db'[t].saved = db[t].saved
    BY <1>6, <2>1 DEF Stored, Saves, Running
  <2>3. Live1
    <3> SUFFICES ASSUME NEW r \in Present(t)', NEW k \in DOMAIN file, Matches(t, r, k)
                 PROVE  RightRow(t, r, file[k])
      OBVIOUS
    <3>1. CASE r \in Present(t)
      BY <1>3, <2>1, <3>1
    <3>2. CASE r \notin Present(t)
      <4>1. PICK s \in db[t].live : r = IF s.id = id THEN Updated(t, s) ELSE s
        BY <2>1, <3>2 DEF Stored, Present
      <4>2. s.id = id /\ r = Updated(t, s) /\ s \in Present(t)
        BY <3>2, <4>1 DEF Present
      <4>3. Shaped(t, s)
        BY DEF ShapeInv, AllRows
      <4>4. r.id = s.id
        BY <4>2, <4>3, UpdatedShape
      <4>5. Matches(t, s, k)
        BY <1>6, <4>4 DEF Matches
      <4>6. RightRow(t, s, file[k])
        BY <1>3, <2>1, <4>2, <4>5
      <4> QED
        BY <1>11, <4>2, <4>5, <4>6, UpdatedRowIsRight
    <3> QED
      BY <3>1, <3>2
  <2> QED
    BY <1>5, <2>2, <2>3
<1>12. CASE /\ ~DeadStep /\ ~AgainStep /\ ~DeleteStep /\ ~SendStep
            /\ Present(t)' = Present(t)
            /\ db'[t].saved \in {db[t].saved, Present(t)}
  <2>1. \A k \in DOMAIN file :
            ~IsNew(file[k]) /\ (pc = "dead" \/ (pc = "pass1" /\ k >= pos)) => Old(k)
    <3>1. CASE SwitchStep
      BY <1>1, <3>1 DEF SwitchStep
    <3>2. CASE PhaseStep
      BY <3>2 DEF PhaseStep, PhaseChange
    <3>3. ASSUME NEW u \in Tables, CloseStep(u) PROVE pc = "close"
      BY <3>3 DEF CloseStep, Closing
    <3>4. CASE IdleStep
      BY <3>4 DEF IdleStep
    <3> QED
      BY <1>12, <3>1, <3>2, <3>3, <3>4 DEF RowStep
  <2> QED
    BY <1>3, <1>5, <1>12, <2>1
<1> QED
    BY <1>1, <1>7, <1>8, <1>9, <1>10, <1>11, <1>12, EditedMoves

LEMMA InitEdited ==
    ASSUME Init, AddedAreNew, NEW t \in EditedTables
    PROVE  EditedInv(t)
<1>1. InputInv /\ pc = "pass1" /\ pos = 1
    BY InitBase DEF Init, BaseInv
<1>2. Present(t) = Imported(old, PolygonTable)[t] /\ db[t].saved = Imported(old, PolygonTable)[t]
    BY InitRows, EditedTablesFacts DEF Present
<1>3. \A k \in DOMAIN file : k >= 1
    BY <1>1, FileFacts
<1>4. ASSUME NEW r \in Imported(old, PolygonTable)[t], NEW k \in DOMAIN file, Matches(t, r, k)
      PROVE  ~IsNew(file[k])
    BY <1>1, <1>4, ImportedEdited, EditedTablesFacts DEF Matches, AddedAreNew
<1> QED
    BY <1>1, <1>2, <1>3, <1>4 DEF EditedInv

RowsRightInv ==
    /\ LinesInv /\ ShapeInv
    /\ ProperFile => \A t \in EditedTables : SoundFor(t) => EditedInv(t)

LEMMA RowsRightInvariant == Spec => []RowsRightInv
<1>1. RowsRightInv /\ LinesInv' /\ [Next]_vars => RowsRightInv'
  <2> SUFFICES ASSUME RowsRightInv, LinesInv', [Next]_vars PROVE RowsRightInv'
    OBVIOUS
  <2>1. BaseInv /\ RowStep
    BY BaseStep DEF RowsRightInv, LinesInv, KnownInv, DataInv
  <2>2. ShapeInv'
    BY <2>1, ShapeStep DEF RowsRightInv
  <2>3. \A t : SoundFor(t)' <=> SoundFor(t)
    BY <2>1, SameGoals DEF SoundFor
  <2>4. ProperFile' <=> ProperFile
    BY <2>1, SameGoals
  <2>5. ASSUME ProperFile, NEW t \in EditedTables, SoundFor(t) PROVE EditedInv(t)'
    BY <2>1, <2>5, EditedStep DEF RowsRightInv
  <2> QED
    BY <2>2, <2>3, <2>4, <2>5 DEF RowsRightInv
<1>2. Init /\ LinesInv => RowsRightInv
    BY InitShape, InitEdited DEF ProperFile, RowsRightInv
<1> QED
    BY <1>1, <1>2, LinesInvariant, PTL DEF Spec

LEMMA EditedDone ==
    ASSUME BaseInv, EndInv, pc = "done", NEW t \in EditedTables
    PROVE  db[t].saved = db[t].live /\ db[t].lines = {}
<1>1. /\ t \in RowTables /\ pos = Len(file) + 10 /\ Len(file) \in Nat
    BY EditedTablesFacts, FileFacts DEF BaseInv, ControlInv
<1>2. PICK i \in 1 .. 9 : CloseOrder[i] = t
    BY <1>1, RowTablesFacts, CloseOrderFacts
<1>3. i < pos - Len(file) /\ CloseOrder[i] # "polygon"
    BY <1>1, <1>2 DEF RowTables
<1>4. db[t].copy = FALSE /\ db[t].begun = FALSE
    BY <1>2, <1>3 DEF EndInv, ClosedInv
<1> QED
    BY <1>1, <1>4 DEF BaseInv, RowsInv, Tidy

\* When a run has come to its end, the relations of the change file have the
\* points of their nodes after the diff (DiffHandler2::insert_relation(),
\* update_relation()), those of a run that was repeated after a crash included.
THEOREM RelationsHavePoints ==
    Spec => [](ProperFile /\ Closed(New) => WrittenRelationsHavePoints)
<1>1. RowsRightInv => (ProperFile /\ Closed(New) => WrittenRelationsHavePoints)
  <2> SUFFICES ASSUME RowsRightInv, ProperFile, Closed(New), pc = "done",
                      NEW r \in db["relations"].saved, r.id \in Written("relation")
               PROVE  r.points = Points(New, New.rel[r.id].mems)
    BY DEF WrittenRelationsHavePoints
  <2>1. /\ BaseInv /\ EndInv /\ OneVersionEach /\ "relations" \in EditedTables
        /\ EditedInv("relations")
    BY DEF RowsRightInv, LinesInv, KnownInv, DataInv, ProperFile, EditedTables, SoundFor
  <2>2. r \in Present("relations")
    BY <2>1, EditedDone DEF Present
  <2>3. PICK k \in DOMAIN file : file[k].kind = "relation" /\ file[k].id = r.id
    BY DEF Written, WrittenBy
  <2>4. Matches("relations", r, k)
    BY <2>3, <2>1, EditedTablesFacts DEF Matches
  <2>5. RightRow("relations", r, file[k])
    BY <2>1, <2>2, <2>4 DEF EditedInv
  <2>6. ~file[k].deleted /\ r.points = Points(New, file[k].mems)
    BY <2>5 DEF RightRow
  <2> QED
    BY <2>1, <2>3, <2>6, NewRels
<1> QED
    BY <1>1, RowsRightInvariant, PTL
-----------------------------------------------------------------------------
(* The containers of pending objects as sequences.                          *)

\* A container is a sequence.
IsList(list) == list \in Seq(Entries(list))

LEMMA JoinedEntries ==
    ASSUME NEW s, NEW t, IsList(s), IsList(t)
    PROVE  IsList(s \o t) /\ Entries(s \o t) = Entries(s) \cup Entries(t)
<1> DEFINE S == Entries(s) \cup Entries(t)
           j == s \o t
<1>1. s \in Seq(S) /\ t \in Seq(S)
    BY DEF IsList
<1>2. /\ j \in Seq(S) /\ Len(j) = Len(s) + Len(t)
      /\ \A i \in 1 .. Len(s) + Len(t) :
            j[i] = IF i <= Len(s) THEN s[i] ELSE t[i - Len(s)]
    BY <1>1
<1> HIDE DEF S, j
<1>3. /\ Len(s) \in Nat /\ DOMAIN s = 1 .. Len(s) /\ Len(t) \in Nat /\ DOMAIN t = 1 .. Len(t)
      /\ DOMAIN j = 1 .. Len(j)
    BY <1>1, <1>2
<1>4. Entries(j) \subseteq S
    BY <1>2, <1>3 DEF Entries, S
<1>5. \A i \in DOMAIN s : i \in DOMAIN j /\ j[i] = s[i]
    BY <1>2, <1>3
<1>6. \A i \in DOMAIN t : Len(s) + i \in DOMAIN j /\ j[Len(s) + i] = t[i]
    BY <1>2, <1>3
<1>7. S \subseteq Entries(j)
    BY <1>5, <1>6 DEF Entries, S
<1> QED
    BY <1>2, <1>4, <1>7 DEF IsList, S, j

\* What a query returns, one row after the other.
LEMMA ListOfSet ==
    ASSUME NEW S, IsFiniteSet(S)
    PROVE  /\ Sequence!SetToSeq(S) \in Seq(S)
           /\ Entries(Sequence!SetToSeq(S)) = S
<1> DEFINE n == Cardinality(S)
           f == Sequence!SetToSeq(S)
<1>1. n \in Nat /\ ExistsBijection(1 .. n, S)
    BY FS_CardinalityType
<1>2. \E g \in [1 .. n -> S] : \A a, b \in DOMAIN g : g[a] = g[b] => a = b
    BY <1>1, Zenon DEF ExistsBijection, Bijection, Injection, Surjection, IsInjective
<1>0. Sequence!Cardinality(S) = n
    BY Zenon DEF Sequence!Cardinality, Cardinality
<1>3. f \in [1 .. n -> S] /\ \A a, b \in DOMAIN f : f[a] = f[b] => a = b
    BY <1>0, <1>2 DEF Sequence!SetToSeq, Sequence!IsInjective
<1> HIDE DEF f
<1>4. f \in Injection(1 .. n, S)
    BY <1>3 DEF Injection, IsInjective
<1>5. IsFiniteSet(1 .. n) /\ Cardinality(1 .. n) = n
    BY <1>1, FS_Interval
<1>6. f \in Surjection(1 .. n, S)
    BY <1>4, <1>5, FS_Injection
<1>7. f \in Seq(S)
    BY <1>1, <1>3
<1>8. Entries(f) = S
    BY <1>3, <1>6 DEF Entries, Surjection
<1> QED
    BY <1>7, <1>8 DEF f

LEMMA ListOfIds ==
    ASSUME NEW rows, IsFiniteSet(rows), NEW id, NEW list, IsList(list),
           NEW s, s = Sequence!SetToSeq(rows)
    PROVE  /\ IsList(list \o [k \in DOMAIN s |-> id[s[k]]])
           /\ Entries(list \o [k \in DOMAIN s |-> id[s[k]]]) =
                Entries(list) \cup {id[r] : r \in rows}
<1> DEFINE t == [k \in DOMAIN s |-> id[s[k]]]
<1>1. s \in Seq(rows) /\ Entries(s) = rows
    BY ListOfSet
<1>2. Len(s) \in Nat /\ DOMAIN s = 1 .. Len(s)
    BY <1>1
<1>3. Entries(t) = {id[r] : r \in rows}
    BY <1>1 DEF Entries
<1>4. t \in [1 .. Len(s) -> Entries(t)]
    BY <1>2 DEF Entries
<1>5. IsList(t)
  <2> DEFINE E == Entries(t)
  <2>1. t \in [1 .. Len(s) -> E]
    BY <1>4
  <2> HIDE DEF E, t
  <2>2. t \in Seq(E)
    BY <1>2, <2>1
  <2> QED
    BY <2>2 DEF E, IsList
<1> HIDE DEF t
<1>6. IsList(list \o t) /\ Entries(list \o t) = Entries(list) \cup {id[r] : r \in rows}
    BY <1>3, <1>5, JoinedEntries
<1> QED
    BY <1>6 DEF t

\* push_back() for the ways of a node.
LEMMA PushedWays ==
    ASSUME NEW list, IsList(list), NEW n, IsFiniteSet(db["node_ways"].live)
    PROVE  /\ IsList(PushWays(list, n))
           /\ Entries(PushWays(list, n)) =
                Entries(list) \cup {r.way : r \in {r \in Live("node_ways") : r.node = n}}
<1> DEFINE rows == {r \in Live("node_ways") : r.node = n}
           id == [r \in rows |-> r.way]
           s == Sequence!SetToSeq(rows)
<1>1. IsFiniteSet(rows)
    BY FS_Subset DEF Live
<1>2. s \in Seq(rows)
    BY <1>1, ListOfSet
<1> HIDE DEF s
<1>3. \A k \in DOMAIN s : s[k] \in rows
    BY <1>2
<1>4. [k \in DOMAIN s |-> id[s[k]]] = [k \in DOMAIN s |-> s[k].way]
    BY <1>3
<1>5. PushWays(list, n) = list \o [k \in DOMAIN s |-> id[s[k]]]
    BY <1>4 DEF PushWays, PushAll, s
<1>6. {id[r] : r \in rows} = {r.way : r \in rows}
    OBVIOUS
<1>7. s = Sequence!SetToSeq(rows)
    BY DEF s
<1> HIDE DEF id, rows
<1>8. /\ IsList(list \o [k \in DOMAIN s |-> id[s[k]]])
      /\ Entries(list \o [k \in DOMAIN s |-> id[s[k]]]) =
            Entries(list) \cup {id[r] : r \in rows}
    BY <1>1, <1>7, ListOfIds
<1> QED
    BY <1>5, <1>6, <1>8 DEF rows
-----------------------------------------------------------------------------
(* What the database contains is finite, so that the rows a query returns   *)
(* can be put into a sequence.                                              *)

LEMMA FiniteImage ==
    ASSUME NEW S, IsFiniteSet(S), NEW f
    PROVE  IsFiniteSet({f[x] : x \in S})
<1> DEFINE T == {f[x] : x \in S}
           g == [x \in S |-> f[x]]
<1>1. g \in Surjection(S, T)
    BY DEF Surjection
<1> HIDE DEF g, T
<1>2. IsFiniteSet(T)
    BY <1>1, FS_Surjection
<1> QED
    BY <1>2 DEF T

LEMMA FiniteDomain ==
    ASSUME NEW S, NEW s \in Seq(S)
    PROVE  IsFiniteSet(DOMAIN s)
<1>1. Len(s) \in Nat /\ DOMAIN s = 1 .. Len(s)
    OBVIOUS
<1>2. IsFiniteSet(1 .. Len(s))
    BY <1>1, FS_Interval
<1> QED
    BY <1>1, <1>2

\* An object has finitely many rows.
LEMMA FiniteRows ==
    ASSUME NEW S, NEW s \in Seq(S), NEW id, NEW kind, NEW x
    PROVE  IsFiniteSet(NodeWayRows(id, s, x)) /\ IsFiniteSet(MemberRows(id, s, kind, x))
<1>1. IsFiniteSet(DOMAIN s)
    BY FiniteDomain
<1>2. IsFiniteSet(NodeWayRows(id, s, x))
  <2> DEFINE f == [i \in DOMAIN s |-> [way |-> id, node |-> s[i], pos |-> i, run |-> x]]
  <2>1. {f[i] : i \in DOMAIN s} = NodeWayRows(id, s, x)
    BY DEF NodeWayRows
  <2> HIDE DEF f
  <2>2. IsFiniteSet({f[i] : i \in DOMAIN s})
    BY <1>1, FiniteImage
  <2> QED
    BY <2>1, <2>2
<1>3. IsFiniteSet(MemberRows(id, s, kind, x))
  <2> DEFINE D == {i \in DOMAIN s : s[i].kind = kind}
             f == [i \in D |-> [rel |-> id, member |-> s[i].ref, pos |-> i, run |-> x]]
  <2>1. {f[i] : i \in D} = MemberRows(id, s, kind, x)
    BY DEF MemberRows
  <2>2. IsFiniteSet(D)
    BY <1>1, FS_Subset
  <2> HIDE DEF f, D
  <2>3. IsFiniteSet({f[i] : i \in D})
    BY <2>2, FiniteImage
  <2> QED
    BY <2>1, <2>3
<1> QED
    BY <1>2, <1>3

FiniteInv == \A t \in TopologyTables : IsFiniteSet(AllRows(db[t]))

LEMMA FiniteImport ==
    ASSUME IsDataSet(old), NEW t \in TopologyTables
    PROVE  IsFiniteSet(Imported(old, PolygonTable)[t])
<1>1. CASE t = "node_ways"
  <2> DEFINE ways == ImportedWays(old) \cup old.late
             f == [w \in DOMAIN old.way |-> NodeWayRows(w, old.way[w].refs, 0)]
             parts == {f[w] : w \in ways}
  <2>1. Imported(old, PolygonTable)[t] = UNION {NodeWayRows(w, old.way[w].refs, 0) : w \in ways}
    BY <1>1 DEF Imported, Tables, MemberTables
  <2>2. ways \subseteq DOMAIN old.way
    BY DEF ImportedWays, IsDataSet
  <2>3. \A w \in ways : IsFiniteSet(f[w])
    BY <2>2, FiniteRows DEF IsDataSet
  <2>4. IsFiniteSet(ways)
    BY <2>2, FS_Subset DEF IsDataSet
  <2>5. {NodeWayRows(w, old.way[w].refs, 0) : w \in ways} = parts
    BY <2>2
  <2> HIDE DEF f, ways
  <2>6. IsFiniteSet(parts)
    BY <2>4, FiniteImage
  <2>7. \A T \in parts : IsFiniteSet(T)
    BY <2>3
  <2> HIDE DEF parts
  <2>8. IsFiniteSet(UNION parts)
    BY <2>6, <2>7, FS_UNION
  <2> QED
    BY <2>1, <2>5, <2>8
<1>2. CASE t \in MemberTables
  <2> DEFINE kind == CHOOSE k \in Kinds : TableOf(k) = t
             f == [rel \in DOMAIN old.rel |-> MemberRows(rel, old.rel[rel].mems, kind, 0)]
             parts == {f[rel] : rel \in DOMAIN old.rel}
  <2>1. Imported(old, PolygonTable)[t] =
            UNION {MemberRows(rel, old.rel[rel].mems, kind, 0) : rel \in DOMAIN old.rel}
    BY <1>2 DEF Imported, Tables, MemberTables
  <2> HIDE DEF kind
  <2>3. \A rel \in DOMAIN old.rel : IsFiniteSet(f[rel])
    BY FiniteRows DEF IsDataSet
  <2>4. IsFiniteSet(DOMAIN old.rel)
    BY DEF IsDataSet
  <2>5. {MemberRows(rel, old.rel[rel].mems, kind, 0) : rel \in DOMAIN old.rel} = parts
    OBVIOUS
  <2> HIDE DEF f
  <2>6. IsFiniteSet(parts)
    BY <2>4, FiniteImage
  <2>7. \A T \in parts : IsFiniteSet(T)
    BY <2>3
  <2> HIDE DEF parts
  <2>8. IsFiniteSet(UNION parts)
    BY <2>6, <2>7, FS_UNION
  <2> QED
    BY <2>1, <2>5, <2>8
<1> QED
    BY <1>1, <1>2 DEF TopologyTables

LEMMA FiniteStep ==
    ASSUME BaseInv, FiniteInv, RowStep
    PROVE  FiniteInv'
<1> SUFFICES ASSUME NEW t \in TopologyTables PROVE IsFiniteSet(AllRows(db'[t]))
    BY DEF FiniteInv, AllRows
<1>1. t \in PlainTables /\ t \in RowTables /\ IsFiniteSet(AllRows(db[t]))
    BY RowTablesFacts DEF FiniteInv, PlainTables
<1>2. CASE DeadStep \/ AgainStep
  <2>1. Renewed(db[t], db'[t])
    BY <1>1, <1>2 DEF DeadStep, AgainStep
  <2>2. AllRows(db'[t]) \subseteq AllRows(db[t])
    BY <2>1 DEF Renewed, AllRows
  <2> QED
    BY <1>1, <2>2, FS_Subset
<1>3. CASE /\ SendStep
           /\ Present(t)' = Present(t) \cup PlainRows(t, file[pos], run)
  <2>1. IsFiniteSet(PlainRows(t, file[pos], run))
    <3> DEFINE c == file[pos]
    <3>1. c \in Changes
      BY <1>3, FileFacts DEF SendStep, BaseInv
    <3>2. /\ c.kind = "way" => c.refs \in Seq(Nodes)
          /\ c.kind = "relation" => c.mems \in Seq(MemberRefs)
      BY <3>1, ChangeFacts
    <3> HIDE DEF c
    <3>3. /\ c.kind = "way" => IsFiniteSet(NodeWayRows(c.id, c.refs, run))
          /\ c.kind = "relation" => IsFiniteSet(
                MemberRows(c.id, c.mems, CHOOSE k \in Kinds : TableOf(k) = t, run))
      BY <3>2, FiniteRows
    <3>4. t \notin {"point", "untagged"}
      BY DEF TopologyTables, MemberTables
    <3>5. IsFiniteSet(PlainRows(t, c, run))
      BY <3>3, <3>4, FS_EmptySet DEF PlainRows
    <3> QED
      BY <3>5 DEF c
  <2>2. IsFiniteSet(AllRows(db[t]) \cup PlainRows(t, file[pos], run))
    BY <1>1, <2>1, FS_Union
  <2>3. AllRows(db'[t]) \subseteq AllRows(db[t]) \cup PlainRows(t, file[pos], run)
    BY <1>1, <1>3, SavedMoves DEF AllRows, Present
  <2> QED
    BY <2>2, <2>3, FS_Subset
<1>4. CASE Present(t)' \subseteq Present(t)
  <2>1. AllRows(db'[t]) \subseteq AllRows(db[t])
    BY <1>1, <1>4, SavedMoves DEF AllRows, Present
  <2> QED
    BY <1>1, <2>1, FS_Subset
<1> QED
    BY <1>1, <1>2, <1>3, <1>4, PresentMoves

LEMMA InitFinite == Init => FiniteInv
<1> SUFFICES ASSUME Init, NEW t \in TopologyTables PROVE IsFiniteSet(AllRows(db[t]))
    BY DEF FiniteInv
<1>1. t \in RowTables /\ IsDataSet(old)
    BY InitBase, RowTablesFacts DEF PlainTables, BaseInv, InputInv
<1>2. AllRows(db[t]) = Imported(old, PolygonTable)[t]
    BY <1>1, InitRows DEF AllRows
<1> QED
    BY <1>1, <1>2, FiniteImport
-----------------------------------------------------------------------------
(* The pending ways: every way that has to follow is collected.             *)

\* A node of way w that the file writes has been read.
NodeRead(w) ==
    \E k \in DOMAIN file :
        NodeAt(k) /\ ~file[k].deleted /\ k < pos /\ file[k].id \in RefsOf(w)
CollectInv ==
    /\ pc = "pass1" => pendWays = <<>>
    /\ pc = "pass2" /\ progress # "RELATION" =>
        /\ IsList(pendWays)
        /\ ProperFile /\ Healthy =>
                \A w \in AffectedWays : NodeRead(w) => w \in Entries(pendWays)

\* The nodes of ways that are not in the file are in the table all the time.
LEMMA AffectedHasRow ==
    ASSUME DataInv, ProperFile, Healthy, NEW w \in AffectedWays, NEW n \in RefsOf(w)
    PROVE  \E r \in db["node_ways"].live : r.node = n /\ r.way = w
<1>1. /\ InputInv /\ OneVersionEach /\ BystandersInv /\ WholeWays(old)
      /\ old.late \subseteq DOMAIN old.way /\ "node_ways" \in PlainTables
      /\ "node_ways" # "point" /\ "node_ways" # "untagged"
    BY PlainTablesFacts DEF DataInv, BaseInv, InputInv, IsDataSet, ProperFile, Healthy, Closed, WholeWays
<1>2. /\ w \in DOMAIN New.way /\ ~InFile("way", w)
      /\ w \in DOMAIN old.way /\ New.way[w] = old.way[w]
    BY <1>1, NewWays DEF AffectedWays
<1> DEFINE refs == old.way[w].refs
<1>3. PICK i \in DOMAIN refs : refs[i] = n
    BY <1>2 DEF RefsOf
<1> DEFINE q == [way |-> w, node |-> refs[i], pos |-> i, run |-> 0]
<1>4. q \in NodeWayRows(w, refs, 0)
    BY DEF NodeWayRows
<1> HIDE DEF refs
<1>5. q \in RowsOf(old, "node_ways", w) /\ w \in ObjectsOf(old, "node_ways")
    BY <1>2, <1>4 DEF RowsOf, ObjectsOf, KindOf, refs
<1>6. q \in Imported(old, PolygonTable)["node_ways"]
    BY <1>1, <1>5, ImportedRowsOf
<1>7. q.way = w /\ q.node = n
    BY <1>3
<1> HIDE DEF q
<1>8. Bystander("node_ways", q)
    BY <1>1, <1>2, <1>7, BystanderIsNotInFile DEF KindOf, IdIn
<1>9. q \in db["node_ways"].live
    BY <1>1, <1>6, <1>8 DEF BystandersInv
<1> QED
    BY <1>7, <1>9

\* The rearranged containers hold what was in them.
LEMMA ListOfFunction ==
    ASSUME NEW n \in Nat, NEW S, NEW s \in [1 .. n -> S]
    PROVE  IsList(s) /\ Entries(s) \subseteq S
<1> DEFINE E == Entries(s)
<1>1. s \in [1 .. n -> E] /\ E \subseteq S
    BY DEF Entries
<1> HIDE DEF E
<1>2. s \in Seq(E)
    BY <1>1
<1> QED
    BY <1>1, <1>2 DEF E, IsList

LEMMA SortedUniqueEntries ==
    ASSUME NEW list, IsList(list), NEW s \in SortedUnique(list)
    PROVE  IsList(s) /\ Entries(s) = Entries(list)
<1>1. Len(list) \in Nat /\ DOMAIN list = 1 .. Len(list)
    BY DEF IsList
<1>2. IsFiniteSet(1 .. Len(list))
    BY <1>1, FS_Interval
<1>3. IsFiniteSet({list[i] : i \in 1 .. Len(list)})
    BY <1>2, FiniteImage
<1>4. IsFiniteSet(Entries(list))
    BY <1>1, <1>3 DEF Entries
<1>5. Cardinality(Entries(list)) \in Nat
    BY <1>4, FS_CardinalityType
<1>6. s \in [1 .. Cardinality(Entries(list)) -> Entries(list)] /\ Entries(s) = Entries(list)
    BY DEF SortedUnique
<1> QED
    BY <1>5, <1>6, ListOfFunction

LEMMA CrossedOutEntries ==
    ASSUME NEW list, IsList(list), NEW idx, NEW id
    PROVE  /\ IsList(CrossOut(list, idx, id))
           /\ \A e \in Entries(list) : e # id => e \in Entries(CrossOut(list, idx, id))
<1> DEFINE s == CrossOut(list, idx, id)
<1>1. Len(list) \in Nat /\ DOMAIN list = 1 .. Len(list)
    BY DEF IsList
<1>2. s \in [1 .. Len(list) -> Entries(list) \cup {0}]
    BY <1>1 DEF CrossOut, Entries
<1>3. ASSUME NEW e \in Entries(list), e # id PROVE e \in Entries(s)
  <2>1. PICK i \in DOMAIN list : list[i] = e
    BY DEF Entries
  <2>2. s[i] = e /\ i \in DOMAIN s
    BY <1>3, <2>1 DEF CrossOut, Hits
  <2> QED
    BY <2>2 DEF Entries
<1> HIDE DEF s
<1>4. IsList(s)
    BY <1>1, <1>2, ListOfFunction
<1> QED
    BY <1>3, <1>4 DEF s

\* The actions that lead into pass 1.
LEMMA IntoPass1 ==
    ASSUME [Next]_vars, pc' = "pass1"
    PROVE  UNCHANGED vars \/ Node1 \/ Way1 \/ Relation1 \/ Restart
<1>1. /\ ~StartPass2 /\ ~Node2 /\ ~Node2Throws /\ ~WriteNewNodesThrows
      /\ ~Way2Throws /\ ~WriteNewWays /\ ~WriteNewNodes
    BY DEF StartPass2, Node2, Pass2, Node2Throws, WriteNewNodesThrows,
        Way2Throws, WriteNewWays, WriteNewNodes, Die
<1>2. ~Way2Deleted /\ ~Way2 /\ ~FlushAreas /\ ~StartRelations /\ ~Relation2Deleted /\ ~Relation2
    BY DEF Way2Deleted, Way2, FlushAreas, StartRelations, Relation2Deleted, Relation2, Pass2
<1>3. \A w \in Ways : ~UpdateWay(w) /\ ~UpdateWayThrows(w)
    BY DEF UpdateWay, UpdateWayThrows, Die
<1>4. \A rel \in Rels : ~UpdateRelation(rel) /\ ~UpdateRelationThrows(rel)
    BY DEF UpdateRelation, UpdateRelationThrows, Die
<1>5. ~AfterRelations /\ ~FlushUpdated /\ ~IncompleteRelations
    BY DEF AfterRelations, FlushUpdated, IncompleteRelations
<1>6. \A t \in Tables : ~CloseTable(t) /\ ~CloseThrows(t)
    BY DEF CloseTable, CloseThrows, Closing, Die
<1>7. ~Crash
    BY DEF Crash, Die
<1> QED
    BY <1>1, <1>2, <1>3, <1>4, <1>5, <1>6, <1>7 DEF Next, Step, Pass1Step, Pass2Step, AfterStep

LEMMA SameAffected ==
    ASSUME RowStep
    PROVE  /\ UNCHANGED <<AffectedWays, file, New>> /\ \A w : RefsOf(w)' = RefsOf(w)
           /\ (ProperFile /\ Healthy)' <=> ProperFile /\ Healthy
           /\ \A k : NodeAt(k)' <=> NodeAt(k)
<1>1. UNCHANGED <<old, file>>
    BY SameInput
<1>2. UNCHANGED New
    BY <1>1 DEF New
<1>3. \A w : RefsOf(w)' = RefsOf(w)
    BY <1>2 DEF RefsOf
<1>4. UNCHANGED AffectedWays
    BY <1>1, <1>2, <1>3 DEF AffectedWays, InFile, Written
<1>5. (ProperFile /\ Healthy)' <=> ProperFile /\ Healthy
    BY <1>1, <1>2 DEF ProperFile, SortedFile, OneVersionEach, AddedAreNew, OldIds, IsNew,
        Healthy, Closed
<1> QED
    BY <1>1, <1>2, <1>3, <1>4, <1>5 DEF NodeAt

LEMMA CollectStep ==
    ASSUME DataInv, FiniteInv, CollectInv, [Next]_vars
    PROVE  CollectInv'
<1>1. BaseInv /\ RowStep
    BY BaseStep DEF DataInv
<1>2. pc' = "pass1" => pendWays' = <<>>
  <2> SUFFICES ASSUME pc' = "pass1" PROVE pendWays' = <<>>
    OBVIOUS
  <2>1. CASE UNCHANGED vars
    BY <2>1 DEF vars, CollectInv
  <2>2. CASE Node1 \/ Way1 \/ Relation1
    BY <2>2 DEF Node1, Way1, Relation1, Pass1, Pass1Frame, pending, CollectInv
  <2>3. CASE Restart
    BY <2>3 DEF Restart
  <2> QED
    BY <2>1, <2>2, <2>3, IntoPass1
<1> DEFINE Goal == /\ IsList(pendWays')
                   /\ ProperFile /\ Healthy =>
                        \A w \in AffectedWays : NodeRead(w)' => w \in Entries(pendWays')
<1>3. pc' = "pass2" /\ progress' # "RELATION" => Goal
  <2> SUFFICES ASSUME pc' = "pass2", progress' # "RELATION" PROVE Goal
    OBVIOUS
  <2>1. /\ DOMAIN file = 1 .. Len(file) /\ Len(file) \in Nat /\ pos \in Nat \ {0}
        /\ OneVersionEach => \A w \in AffectedWays : w \in Ways /\ ~InFile("way", w)
    BY <1>1, FileFacts, NewRefs DEF BaseInv, ControlInv, AffectedWays
  <2>2. /\ UNCHANGED file /\ \A w : RefsOf(w)' = RefsOf(w)
        /\ \A k : NodeAt(k)' <=> NodeAt(k)
    BY <1>1, SameAffected
  <2>3. ASSUME pos' = pos, IsList(pendWays'), pc = "pass2", progress # "RELATION",
               Entries(pendWays') = Entries(pendWays)
        PROVE  Goal
    <3>1. \A w : NodeRead(w)' <=> NodeRead(w)
      BY <2>2, <2>3 DEF NodeRead
    <3> QED
      BY <2>3, <3>1 DEF CollectInv
  <2>4. ASSUME pos' = pos + 1, pos \in DOMAIN file, IsList(pendWays'), pc = "pass2",
               progress # "RELATION",
               ProperFile /\ Healthy =>
                    \A w \in AffectedWays :
                        /\ w \in Entries(pendWays) => w \in Entries(pendWays')
                        /\ NodeAt(pos) /\ ~file[pos].deleted /\ file[pos].id \in RefsOf(w) =>
                                w \in Entries(pendWays')
        PROVE  Goal
    <3> SUFFICES ASSUME ProperFile, Healthy, NEW w \in AffectedWays, NodeRead(w)'
                 PROVE  w \in Entries(pendWays')
      BY <2>4
    <3>1. PICK k \in DOMAIN file : /\ NodeAt(k) /\ ~file[k].deleted /\ k < pos'
                                   /\ file[k].id \in RefsOf(w)
      BY <2>2 DEF NodeRead
    <3>2. k < pos \/ k = pos
      BY <2>1, <2>4, <3>1
    <3>3. CASE k < pos
      <4>1. NodeRead(w)
        BY <3>1, <3>3 DEF NodeRead
      <4> QED
        BY <2>4, <4>1 DEF CollectInv
    <3>4. CASE k = pos
      BY <2>4, <3>1, <3>4
    <3> QED
      BY <3>2, <3>3, <3>4
  <2>5. CASE UNCHANGED vars
    BY <2>3, <2>5 DEF vars, CollectInv
  <2>6. CASE StartPass2
    <3>1. pendWays' = <<>> /\ pos' = 1
      BY <2>6 DEF StartPass2, pending, CollectInv
    <3>2. \A w : ~NodeRead(w)'
      BY <2>1, <2>2, <3>1 DEF NodeRead
    <3>3. IsList(<<>>)
      BY DEF IsList
    <3> QED
      BY <3>1, <3>2, <3>3
  <2>7. CASE WriteNewNodes
    <3>1. /\ pc = "pass2" /\ progress # "RELATION" /\ pos' = pos
          /\ pendWays' \in SortedUnique(pendWays)
      BY <2>7 DEF WriteNewNodes
    <3>2. IsList(pendWays)
      BY <3>1 DEF CollectInv
    <3>3. IsList(pendWays') /\ Entries(pendWays') = Entries(pendWays)
      BY <3>1, <3>2, SortedUniqueEntries
    <3> QED
      BY <2>3, <3>1, <3>3
  <2>8. CASE FlushAreas
    BY <2>3, <2>8 DEF FlushAreas, pending, CollectInv
  <2>9. CASE StartRelations
    BY <2>9 DEF StartRelations
  <2>10. CASE Way2Deleted
    <3>1. /\ pc = "pass2" /\ progress # "RELATION" /\ pos' = pos + 1 /\ pos \in DOMAIN file
          /\ pendWays' = pendWays /\ file[pos].kind = "way"
      BY <2>1, <2>10 DEF Way2Deleted, Pass2, Object, pending
    <3> QED
      BY <2>4, <3>1 DEF NodeAt, CollectInv
  <2>11. CASE Way2
    <3> DEFINE id == file[pos].id
    <3>1. /\ pc = "pass2" /\ progress # "RELATION" /\ pos' = pos + 1 /\ pos \in DOMAIN file
          /\ pendWays' = CrossOut(pendWays, waysIdx, id) /\ file[pos].kind = "way"
      BY <2>1, <2>11 DEF Way2, Pass2, Object
    <3>2. IsList(pendWays) /\ InFile("way", id)
      BY <3>1 DEF CollectInv, InFile, Has
    <3> HIDE DEF id
    <3>3. /\ IsList(pendWays')
          /\ \A e \in Entries(pendWays) : e # id => e \in Entries(pendWays')
      BY <3>1, <3>2, CrossedOutEntries
    <3>4. ASSUME ProperFile, NEW w \in AffectedWays, w \in Entries(pendWays)
          PROVE  w \in Entries(pendWays')
      BY <2>1, <3>2, <3>3, <3>4 DEF ProperFile
    <3>5. ~NodeAt(pos)
      BY <3>1 DEF NodeAt
    <3> QED
      BY <2>4, <3>1, <3>3, <3>4, <3>5
  <2>12. CASE Node2
    <3> DEFINE n == file[pos].id
    <3>1. /\ pc = "pass2" /\ progress # "RELATION" /\ pos' = pos + 1 /\ pos \in DOMAIN file
          /\ file[pos].deleted => pendWays' = pendWays
          /\ ~file[pos].deleted => pendWays' = PushWays(pendWays, n)
      BY <2>1, <2>12 DEF Node2, Pass2, Object
    <3>2. IsList(pendWays) /\ "node_ways" \in TopologyTables
      BY <3>1 DEF CollectInv, TopologyTables
    <3>3. IsFiniteSet(db["node_ways"].live)
      <4>1. /\ IsFiniteSet(AllRows(db["node_ways"]))
            /\ db["node_ways"].live \subseteq AllRows(db["node_ways"])
        BY <3>2 DEF FiniteInv, AllRows
      <4> QED
        BY <4>1, FS_Subset
    <3> HIDE DEF n
    <3>4. /\ IsList(PushWays(pendWays, n))
          /\ Entries(PushWays(pendWays, n)) =
                Entries(pendWays) \cup {r.way : r \in {r \in Live("node_ways") : r.node = n}}
      BY <3>2, <3>3, PushedWays
    <3>5. IsList(pendWays') /\ Entries(pendWays) \subseteq Entries(pendWays')
      BY <3>1, <3>2, <3>4
    <3>6. ASSUME ProperFile, Healthy, NEW w \in AffectedWays, n \in RefsOf(w),
                 ~file[pos].deleted
          PROVE  w \in Entries(pendWays')
      <4>1. PICK r \in db["node_ways"].live : r.node = n /\ r.way = w
        BY <3>6, AffectedHasRow
      <4> QED
        BY <3>1, <3>4, <3>6, <4>1 DEF Live
    <3> QED
      BY <2>4, <3>1, <3>5, <3>6 DEF n
  <2>13. CASE Relation2Deleted \/ Relation2
    BY <2>13 DEF Relation2Deleted, Relation2
  <2> QED
    BY <2>5, <2>6, <2>7, <2>8, <2>9, <2>10, <2>11, <2>12, <2>13, IntoPass2
<1>4. Goal => (/\ IsList(pendWays)
               /\ ProperFile /\ Healthy =>
                    \A w \in AffectedWays : NodeRead(w) => w \in Entries(pendWays))'
  <2>1. UNCHANGED AffectedWays /\ ((ProperFile /\ Healthy)' <=> ProperFile /\ Healthy)
    BY <1>1, SameAffected
  <2>2. IsList(pendWays)' <=> IsList(pendWays')
    BY DEF IsList, Entries
  <2>3. \A w : (w \in Entries(pendWays))' <=> w \in Entries(pendWays')
    BY DEF Entries
  <2> QED
    BY <2>1, <2>2, <2>3
<1> HIDE DEF Goal
<1> QED
    BY <1>2, <1>3, <1>4 DEF CollectInv

LEMMA InitCollect == Init => CollectInv
BY DEF Init, CollectInv

\* When the ways that are not in the file have their turn, so have all of them
\* but the smallest.
LEMMA ReachedHaveTurns ==
    ASSUME DataInv, CollectInv, ProperFile, Healthy, WriteNewWays, NEW w \in AffectedWays,
           w \notin First(AffectedWays)
    PROVE  w \in todo'
<1>1. /\ pc = "pass2" /\ progress = "WAY" /\ todo' = WorkIds(pendWays)
    BY DEF WriteNewWays
<1>2. AllNodesPassed
    BY <1>1, PassedWithWays DEF DataInv, ProperFile, InPass2
<1>3. ASSUME NEW v \in AffectedWays
      PROVE  v \in Entries(pendWays) /\ v \in Nat /\ v > 0
  <2>1. v \in Ways
    BY NewRefs DEF DataInv, BaseInv, ProperFile, AffectedWays
  <2>2. PICK n \in RefsOf(v) : n \in Written("node")
    BY DEF AffectedWays
  <2>3. PICK k \in DOMAIN file : file[k].kind = "node" /\ ~file[k].deleted /\ file[k].id = n
    BY <2>2 DEF Written, WrittenBy
  <2>4. NodeRead(v)
    BY <1>2, <2>2, <2>3 DEF NodeRead, AllNodesPassed, NodeAt
  <2> QED
    BY <1>1, <2>1, <2>4, IdsAssumption DEF CollectInv
<1>4. PICK v \in AffectedWays : ~(w <= v)
    BY DEF First
<1>5. PICK k \in DOMAIN pendWays : pendWays[k] = w
    BY <1>3 DEF Entries
<1>6. PICK j \in DOMAIN pendWays : pendWays[j] = v
    BY <1>3 DEF Entries
<1>7. v <= w /\ j # k
    BY <1>3, <1>4, <1>5, <1>6
<1> QED
    BY <1>1, <1>3, <1>5, <1>6, <1>7 DEF WorkIds
-----------------------------------------------------------------------------
(* Which objects have a row.                                                *)

HasRow(rows, id) == \E r \in rows : r.id = id

\* The objects that are not in the file have a row if the import has given them
\* one.
OthersInv(t) ==
    /\ \A r \in AllRows(db[t]) :
            ~InFile(KindOf(t), r.id) => HasRow(Imported(old, PolygonTable)[t], r.id)
    /\ \A r \in Imported(old, PolygonTable)[t] :
            ~InFile(KindOf(t), r.id) => HasRow(db[t].saved, r.id) /\ HasRow(db[t].live, r.id)
\* The objects of the file that have been read have one, too.
Gives(t, c) == c.kind = KindOf(t) /\ ~c.deleted /\ (t = "line" => c.tagged)
ReadInv(t) ==
    InPass2 =>
        \A k \in DOMAIN file :
            k < pos /\ Gives(t, file[k]) => HasRow(Present(t), file[k].id)

LEMMA GivenRow ==
    ASSUME NEW t \in EditedTables, NEW c, Gives(t, c)
    PROVE  HasRow(WrittenRows(t, c), c.id)
<1>1. CASE t = "line"
  <2> DEFINE r == LineRow(c.id, Linestring(NewLine(c)), run)
  <2>1. c.kind = "way" /\ ~c.deleted /\ c.tagged
    BY <1>1 DEF Gives, KindOf
  <2>2. WrittenRows(t, c) = {r}
    BY <1>1, <2>1, RowTablesFacts DEF WrittenRows
  <2>3. r.id = c.id
    BY DEF LineRow
  <2> QED
    BY <2>2, <2>3 DEF HasRow
<1>2. CASE t = "relations"
  <2> DEFINE r == RelationRow(c.id, NewPoints(c), InsertedLines(c.mems), run)
  <2>1. c.kind = "relation" /\ ~c.deleted
    BY <1>2, EditedTablesFacts DEF Gives
  <2>2. WrittenRows(t, c) = {r}
    BY <1>2, <2>1, RowTablesFacts DEF WrittenRows
  <2>3. r.id = c.id
    BY DEF RelationRow
  <2> QED
    BY <2>2, <2>3 DEF HasRow
<1> QED
    BY <1>1, <1>2 DEF EditedTables

\* The moves, as far as ids are concerned.
LEMMA UpdatedIds ==
    ASSUME ShapeInv, NEW t \in EditedTables, NEW id, UpdateStep(t, id)
    PROVE  /\ \A r \in db'[t].live : HasRow(db[t].live, r.id)
           /\ \A r \in db[t].live : HasRow(db'[t].live, r.id)
           /\ db'[t].lines = db[t].lines
<1> DEFINE new(r) == IF r.id = id THEN Updated(t, r) ELSE r
<1>1. db'[t].live = {new(r) : r \in db[t].live} /\ db'[t].lines = db[t].lines
    BY DEF UpdateStep, Stored
<1>2. \A r \in db[t].live : new(r).id = r.id
    BY UpdatedShape DEF ShapeInv, AllRows
<1> HIDE DEF new
<1> QED
    BY <1>1, <1>2 DEF HasRow

LEMMA OthersStep ==
    ASSUME BaseInv, ShapeInv, RowStep, NEW t \in EditedTables, OthersInv(t)
    PROVE  OthersInv(t)'
<1> DEFINE Kept == Imported(old, PolygonTable)[t]
           Other(r) == ~InFile(KindOf(t), r.id)
           Known1 == \A r \in AllRows(db'[t]) : Other(r) => HasRow(Kept, r.id)
           There1 == \A r \in Kept : Other(r) =>
                        HasRow(db'[t].saved, r.id) /\ HasRow(db'[t].live, r.id)
<1>1. /\ UNCHANGED <<old, file, options>>
      /\ t \in RowTables /\ (Running => db[t].begun = TRUE)
      /\ \A r : IdIn(t, r) = r.id
    BY SameInput, EditedTablesFacts DEF BaseInv, TablesInv
<1>2. /\ \A r \in AllRows(db[t]) : Other(r) => HasRow(Kept, r.id)
      /\ \A r \in Kept : Other(r) => HasRow(db[t].saved, r.id) /\ HasRow(db[t].live, r.id)
    BY DEF OthersInv
<1>3. OthersInv(t)' <=> Known1 /\ There1
    BY <1>1 DEF OthersInv, PolygonTable, InFile, HasRow, AllRows
<1> HIDE DEF Kept
<1>4. CASE DeadStep \/ AgainStep
  <2>1. Renewed(db[t], db'[t])
    BY <1>1, <1>4 DEF DeadStep, AgainStep
  <2> QED
    BY <1>2, <1>3, <2>1 DEF Renewed, AllRows
<1>5. CASE DeleteStep
  <2>1. Removes(t, file[pos]) /\ pos \in DOMAIN file /\ Running
    BY <1>1, <1>5 DEF DeleteStep, Running
  <2>2. CASE db'[t] = db[t]
    BY <1>2, <1>3, <2>2
  <2>3. CASE db'[t] # db[t]
    <3>1. /\ Stored(db[t], db'[t], {r \in db[t].live : r.id # file[pos].id})
          /\ InFile(KindOf(t), file[pos].id)
      BY <1>1, <2>1, <2>3 DEF Removes, InFile, Has
    <3>2. /\ db'[t].saved = db[t].saved /\ db'[t].lines = db[t].lines
          /\ db'[t].live = {r \in db[t].live : r.id # file[pos].id}
      BY <1>1, <2>1, <3>1 DEF Stored, Saves
    <3>3. \A r : Other(r) /\ HasRow(db[t].live, r.id) => HasRow(db'[t].live, r.id)
      BY <3>1, <3>2 DEF HasRow
    <3> QED
      BY <1>2, <1>3, <3>2, <3>3 DEF AllRows
  <2> QED
    BY <2>2, <2>3
<1>6. CASE SendStep /\ Present(t)' = Present(t) \cup WrittenRows(t, file[pos])
           /\ db'[t].saved = db[t].saved /\ db'[t].live = db[t].live
  <2>1. AllRows(db'[t]) \subseteq AllRows(db[t]) \cup WrittenRows(t, file[pos])
    BY <1>6 DEF AllRows, Present
  <2>2. \A r \in WrittenRows(t, file[pos]) : ~Other(r)
    BY <1>6, WrittenShape DEF SendStep, InFile, Has
  <2> QED
    BY <1>2, <1>3, <1>6, <2>1, <2>2
<1>7. ASSUME PhaseStep, NEW id, UpdateStep(t, id) PROVE OthersInv(t)'
  <2>1. Running /\ Stored(db[t], db'[t], db'[t].live)
    BY <1>7 DEF UpdateStep, Stored, Running
  <2>2. db'[t].saved = db[t].saved
    BY <1>1, <2>1 DEF Stored, Saves
  <2>3. /\ \A r \in db'[t].live : HasRow(db[t].live, r.id)
        /\ \A r \in db[t].live : HasRow(db'[t].live, r.id)
        /\ db'[t].lines = db[t].lines
    BY <1>7, UpdatedIds
  <2>4. Known1
    <3> SUFFICES ASSUME NEW r \in AllRows(db'[t]), Other(r) PROVE HasRow(Kept, r.id)
      OBVIOUS
    <3>1. PICK s \in AllRows(db[t]) : s.id = r.id
      BY <2>2, <2>3 DEF AllRows, HasRow
    <3> QED
      BY <1>2, <3>1
  <2>5. There1
    BY <1>2, <2>2, <2>3 DEF HasRow
  <2> QED
    BY <1>3, <2>4, <2>5
<1>8. CASE /\ Present(t)' = Present(t)
           /\ db'[t].live \in {db[t].live, Present(t)}
           /\ db'[t].saved \in {db[t].saved, Present(t)}
  <2>1. Known1
    BY <1>2, <1>8 DEF AllRows, Present
  <2>2. There1
    BY <1>2, <1>8 DEF HasRow, Present
  <2> QED
    BY <1>3, <2>1, <2>2
<1> QED
    BY <1>4, <1>5, <1>6, <1>7, <1>8, EditedMoves

LEMMA InitOthers ==
    ASSUME Init, NEW t \in EditedTables
    PROVE  OthersInv(t)
BY InitRows, EditedTablesFacts DEF OthersInv, AllRows, HasRow

LEMMA ReadStep ==
    ASSUME BaseInv, ShapeInv, RowStep, NEW t \in EditedTables, ReadInv(t)
    PROVE  ReadInv(t)'
<1>1. /\ UNCHANGED file /\ DOMAIN file = 1 .. Len(file) /\ Len(file) \in Nat /\ pos \in Nat
    BY SameInput, FileFacts DEF BaseInv, ControlInv
<1> SUFFICES ASSUME InPass2', NEW k \in DOMAIN file, k < pos', Gives(t, file[k])
             PROVE  HasRow(Present(t)', file[k].id)
    BY <1>1 DEF ReadInv, Gives, HasRow
<1>2. ~DeadStep /\ ~AgainStep /\ ~DeleteStep
    BY DEF InPass2, DeadStep, AgainStep, DeleteStep
<1>3. InPass2 /\ k < pos => HasRow(Present(t), file[k].id)
    BY DEF ReadInv
<1>4. CASE SendStep /\ Present(t)' = Present(t) \cup WrittenRows(t, file[pos])
  <2>1. k < pos \/ k = pos
    BY <1>1, <1>4 DEF SendStep
  <2>2. k = pos => HasRow(WrittenRows(t, file[pos]), file[k].id)
    BY GivenRow
  <2>3. InPass2
    BY <1>4 DEF SendStep, InPass2
  <2> QED
    BY <1>3, <1>4, <2>1, <2>2, <2>3 DEF HasRow
<1>5. CASE ~SendStep
  <2>1. InPass2 /\ k < pos
    <3>1. CASE SwitchStep
      BY <1>1, <3>1 DEF SwitchStep
    <3>2. CASE PhaseStep
      BY <3>2 DEF PhaseStep, PhaseChange, InPass2
    <3>3. ASSUME NEW u \in Tables, CloseStep(u) PROVE InPass2 /\ k < pos
      BY <1>1, <3>3 DEF CloseStep, Closing, InPass2, BaseInv, ControlInv
    <3>4. CASE IdleStep
      BY <3>4 DEF IdleStep, InPass2
    <3> QED
      BY <1>2, <1>5, <3>1, <3>2, <3>3, <3>4 DEF RowStep
  <2>2. HasRow(Present(t), file[k].id)
    BY <1>3, <2>1
  <2>3. CASE Present(t)' = Present(t)
    BY <2>2, <2>3
  <2>4. ASSUME NEW id, UpdateStep(t, id) PROVE HasRow(Present(t)', file[k].id)
    BY <2>2, <2>4, UpdatedIds DEF HasRow, Present
  <2> QED
    BY <1>2, <1>5, <2>3, <2>4, EditedMoves
<1>6. ASSUME NEW id, UpdateStep(t, id) PROVE ~SendStep
    BY <1>6 DEF UpdateStep, SendStep
<1> QED
    BY <1>2, <1>4, <1>5, <1>6, EditedMoves

LEMMA InitRead ==
    ASSUME Init, NEW t
    PROVE  ReadInv(t)
BY DEF Init, ReadInv, InPass2
-----------------------------------------------------------------------------
(* The lines of the ways that are not in the file.                          *)

\* The lines of the ways that are not in the file are those of the import until
\* they are rewritten.
LinesKept ==
    \A r \in AllRows(db["line"]) : ~InFile("way", r.id) =>
        r.geom \in {Linestring(WayLine(old, r.id)), WayLine(New, r.id)}

LEMMA OtherLineIsOfWay ==
    ASSUME InputInv, OthersInv("line"), NEW r \in AllRows(db["line"]), ~InFile("way", r.id)
    PROVE  r.id \in DOMAIN old.way
<1>1. HasRow(Imported(old, PolygonTable)["line"], r.id)
    BY DEF OthersInv, KindOf
<1>2. PICK s \in Imported(old, PolygonTable)["line"] : s.id = r.id
    BY <1>1 DEF HasRow
<1>3. "line" \in EditedTables /\ KindOf("line") = "way"
    BY DEF EditedTables, KindOf
<1> QED
    BY <1>2, <1>3, ImportedEdited DEF OldIds

LEMMA LinesKeptStep ==
    ASSUME LinesInv, ShapeInv, RowStep, ProperFile, Healthy, OthersInv("line"), LinesKept
    PROVE  LinesKept'
<1> DEFINE t == "line"
           Good(r) == ~InFile("way", r.id) =>
                        r.geom \in {Linestring(WayLine(old, r.id)), WayLine(New, r.id)}
<1>1. /\ UNCHANGED <<old, file, New>> /\ BaseInv /\ InputInv /\ OneVersionEach
      /\ t \in EditedTables /\ (Running => db[t].begun = TRUE) /\ KindOf(t) = "way"
      /\ t \in RowTables
    BY SameGoals, EditedTablesFacts
    DEF LinesInv, KnownInv, DataInv, BaseInv, ProperFile, EditedTables, TablesInv
<1>2. LinesKept' <=> \A r \in AllRows(db'[t]) : Good(r)
    BY <1>1 DEF LinesKept, InFile, AllRows
<1>3. \A r \in AllRows(db[t]) : Good(r)
    BY DEF LinesKept
<1>4. CASE DeadStep \/ AgainStep
  <2>1. Renewed(db[t], db'[t])
    BY <1>1, <1>4 DEF DeadStep, AgainStep
  <2> QED
    BY <1>2, <1>3, <2>1 DEF Renewed, AllRows
<1>5. CASE DeleteStep /\ (\/ db'[t] = db[t]
                          \/ Stored(db[t], db'[t], {r \in db[t].live : r.id # file[pos].id}))
  <2>1. Running
    BY <1>5 DEF DeleteStep, Running
  <2>2. AllRows(db'[t]) \subseteq AllRows(db[t])
    BY <1>1, <1>5, <2>1 DEF Stored, Saves, AllRows
  <2> QED
    BY <1>2, <1>3, <2>2
<1>6. CASE SendStep /\ Present(t)' = Present(t) \cup WrittenRows(t, file[pos])
           /\ db'[t].saved = db[t].saved /\ db'[t].live = db[t].live
  <2>1. AllRows(db'[t]) \subseteq AllRows(db[t]) \cup WrittenRows(t, file[pos])
    BY <1>6 DEF AllRows, Present
  <2>2. \A r \in WrittenRows(t, file[pos]) : InFile("way", r.id)
    BY <1>1, <1>6, WrittenShape DEF SendStep, InFile, Has
  <2> QED
    BY <1>2, <1>3, <2>1, <2>2
<1>7. ASSUME NEW id, UpdateStep(t, id) PROVE \A r \in AllRows(db'[t]) : Good(r)
  <2>1. /\ pc = "ways"
        /\ Stored(db[t], db'[t], {IF r.id = id THEN Updated(t, r) ELSE r : r \in db[t].live})
    BY <1>7 DEF UpdateStep
  <2>2. db'[t].saved = db[t].saved /\ db'[t].lines = db[t].lines
    BY <1>1, <2>1 DEF Stored, Saves, Running
  <2> SUFFICES ASSUME NEW r \in AllRows(db'[t]) PROVE Good(r)
    OBVIOUS
  <2>3. CASE r \in AllRows(db[t])
    BY <1>3, <2>3
  <2>4. CASE r \notin AllRows(db[t])
    <3>1. PICK s \in db[t].live : r = IF s.id = id THEN Updated(t, s) ELSE s
      BY <2>1, <2>2, <2>4 DEF Stored, AllRows
    <3>2. r = Updated(t, s) /\ s \in AllRows(db[t])
      BY <2>4, <3>1 DEF AllRows
    <3>3. r.id = s.id /\ r.geom = StoredLine(s.id)
      BY <1>1, <3>2, UpdatedShape DEF ShapeInv
    <3>4. ~InFile("way", r.id) => r.id \in DOMAIN New.way
      BY <1>1, <3>2, <3>3, OtherLineIsOfWay, NewWays
    <3> QED
      BY <2>1, <3>3, <3>4, UpdatedLine
  <2> QED
    BY <2>3, <2>4
<1>8. CASE /\ Present(t)' = Present(t)
           /\ db'[t].live \in {db[t].live, Present(t)}
           /\ db'[t].saved \in {db[t].saved, Present(t)}
    BY <1>2, <1>3, <1>8 DEF AllRows, Present
<1> QED
    BY <1>1, <1>2, <1>4, <1>5, <1>6, <1>7, <1>8, EditedMoves

LEMMA InitLinesKept == Init => LinesKept
<1> SUFFICES ASSUME Init, NEW r \in AllRows(db["line"])
             PROVE  r.geom = Linestring(WayLine(old, r.id))
    BY DEF LinesKept
<1>1. InputInv /\ "line" \in EditedTables
    BY InitBase DEF BaseInv, EditedTables
<1>2. r \in Imported(old, PolygonTable)["line"]
    BY <1>1, InitRows, EditedTablesFacts DEF AllRows
<1>3. r = LineRow(r.id, Linestring(WayLine(old, r.id)), 0)
    BY <1>1, <1>2, ImportedEdited
<1> QED
    BY <1>3 DEF LineRow
-----------------------------------------------------------------------------
(* The ways that are reached.                                               *)

\* The ways that have to follow and are not the one that is left out.
Followers == AffectedWays \ First(AffectedWays)
\* They are up to date as soon as they had their turn.
ReachedInv ==
    \A r \in Present("line") : r.id \in Followers =>
        /\ pc = "ways" => r.id \in todo \/ r.geom = WayLine(New, r.id)
        /\ InPass2 /\ progress = "RELATION" => r.geom = WayLine(New, r.id)

\* The actions during which the ways have their turns.
LEMMA IntoWays ==
    ASSUME [Next]_vars, pc' = "ways"
    PROVE  UNCHANGED vars \/ WriteNewWays \/ \E w \in Ways : UpdateWay(w)
<1>1. /\ ~StartPass2 /\ ~Node2 /\ ~Node2Throws /\ ~WriteNewNodesThrows
      /\ ~Way2Throws /\ ~WriteNewNodes
    BY DEF StartPass2, Node2, Pass2, Node2Throws, WriteNewNodesThrows,
        Way2Throws, WriteNewNodes, Die
<1>2. ~Way2Deleted /\ ~Way2 /\ ~FlushAreas /\ ~StartRelations /\ ~Relation2Deleted /\ ~Relation2
    BY DEF Way2Deleted, Way2, FlushAreas, StartRelations, Relation2Deleted, Relation2, Pass2
<1>3. \A w \in Ways : ~UpdateWayThrows(w)
    BY DEF UpdateWayThrows, Die
<1>4. \A rel \in Rels : ~UpdateRelation(rel) /\ ~UpdateRelationThrows(rel)
    BY DEF UpdateRelation, UpdateRelationThrows, Die
<1>5. ~AfterRelations /\ ~FlushUpdated /\ ~IncompleteRelations
    BY DEF AfterRelations, FlushUpdated, IncompleteRelations
<1>6. \A t \in Tables : ~CloseTable(t) /\ ~CloseThrows(t)
    BY DEF CloseTable, CloseThrows, Closing, Die
<1>7. ~Crash /\ ~Restart
    BY DEF Crash, Die, Restart
<1>8. ~Node1 /\ ~Way1 /\ ~Relation1
    BY DEF Node1, Way1, Relation1, Pass1, Pass1Frame
<1> QED
    BY <1>1, <1>2, <1>3, <1>4, <1>5, <1>6, <1>7, <1>8
    DEF Next, Step, Pass1Step, Pass2Step, AfterStep

LEMMA OutOfWays ==
    ASSUME [Next]_vars, pc = "ways", pc' = "pass2"
    PROVE  StartRelations
<1>1. /\ ~StartPass2 /\ ~Node2 /\ ~Node2Throws /\ ~WriteNewNodesThrows
      /\ ~Way2Throws /\ ~WriteNewNodes /\ ~WriteNewWays
    BY DEF StartPass2, Node2, Pass2, Node2Throws, WriteNewNodesThrows,
        Way2Throws, WriteNewNodes, WriteNewWays, Die
<1>2. ~Way2Deleted /\ ~Way2 /\ ~FlushAreas /\ ~Relation2Deleted /\ ~Relation2
    BY DEF Way2Deleted, Way2, FlushAreas, Relation2Deleted, Relation2, Pass2
<1>3. \A w \in Ways : ~UpdateWay(w) /\ ~UpdateWayThrows(w)
    BY DEF UpdateWay, UpdateWayThrows, Die
<1>4. \A rel \in Rels : ~UpdateRelation(rel) /\ ~UpdateRelationThrows(rel)
    BY DEF UpdateRelation, UpdateRelationThrows, Die
<1>5. ~AfterRelations /\ ~FlushUpdated /\ ~IncompleteRelations
    BY DEF AfterRelations, FlushUpdated, IncompleteRelations
<1>6. \A t \in Tables : ~CloseTable(t) /\ ~CloseThrows(t)
    BY DEF CloseTable, CloseThrows, Closing, Die
<1>7. ~Crash /\ ~Restart /\ ~UNCHANGED vars
    BY DEF Crash, Die, Restart, vars
<1>8. ~Node1 /\ ~Way1 /\ ~Relation1
    BY DEF Node1, Way1, Relation1, Pass1, Pass1Frame
<1> QED
    BY <1>1, <1>2, <1>3, <1>4, <1>5, <1>6, <1>7, <1>8
    DEF Next, Step, Pass1Step, Pass2Step, AfterStep

LEMMA SameFollowers ==
    ASSUME RowStep
    PROVE  UNCHANGED <<Followers, New>>
BY SameAffected DEF Followers, First

\* update_way() of one way after the other.
LEMMA TurnStep ==
    ASSUME LinesInv, ShapeInv, ProperFile, Healthy, ReachedInv, NEW w, UpdateWay(w),
           NEW r \in Present("line")', r.id \in Followers
    PROVE  r.id \in todo' \/ r.geom = WayLine(New, r.id)
<1> DEFINE t == "line"
<1>1. /\ BaseInv /\ pc = "ways" /\ todo' = todo \ {w} /\ t \in Tables /\ t \in RowTables
      /\ t \in EditedTables
      /\ DOMAIN db = Tables /\ IsTable(db[t])
    BY RowTablesFacts, EditedTablesFacts
    DEF LinesInv, KnownInv, DataInv, UpdateWay, BaseInv, TablesInv, Tables, EditedTables
<1>2. db[t].copy = FALSE
    BY <1>1 DEF BaseInv, TablesInv, IsTable, MayCopy
<1>3. db[t].lines = {}
    BY <1>1, <1>2 DEF BaseInv, RowsInv, Tidy
<1> DEFINE rows == {IF s.id = w THEN [s EXCEPT !.geom = StoredLine(w)] ELSE s : s \in db[t].live}
<1>4. db'[t] = Store(db[t], rows)
    BY <1>1 DEF UpdateWay, update
<1> HIDE DEF rows
<1>5. db'[t].live = rows /\ db'[t].lines = {}
  <2>1. Store(db[t], rows).live = rows
    BY <1>1, StoreFields
  <2>2. Store(db[t], rows).lines = db[t].lines
    BY <1>1, StoreFields
  <2> QED
    BY <1>3, <1>4, <2>1, <2>2
<1>6. PICK s \in db[t].live : r = IF s.id = w THEN [s EXCEPT !.geom = StoredLine(w)] ELSE s
    BY <1>5 DEF Present, rows
<1>7. Shaped(t, s) /\ s \in Present(t)
    BY <1>1 DEF ShapeInv, AllRows, Present
<1>8. CASE s.id = w
  <2>1. r.id = w /\ r.geom = StoredLine(w)
    BY <1>6, <1>7, <1>8 DEF Shaped, LineRow
  <2>2. w \in DOMAIN New.way
    BY <2>1 DEF Followers, AffectedWays
  <2> QED
    BY <1>1, <2>1, <2>2, UpdatedLine
<1>9. CASE s.id # w
  <2>1. r = s
    BY <1>6, <1>9
  <2> QED
    BY <1>1, <1>7, <1>9, <2>1 DEF ReachedInv
<1> QED
    BY <1>8, <1>9

LEMMA ReachedStep ==
    ASSUME LinesInv, ShapeInv, CollectInv, ProperFile, Healthy, ReachedInv,
           BaseInv', [Next]_vars
    PROVE  ReachedInv'
<1> DEFINE t == "line"
<1>1. /\ DataInv /\ BaseInv /\ RowStep /\ UNCHANGED <<Followers, New, file>> /\ t \in EditedTables
      /\ KindOf(t) = "way"
    BY BaseStep, SameFollowers, SameInput, EditedTablesFacts
    DEF LinesInv, KnownInv, DataInv, EditedTables
<1> SUFFICES ASSUME NEW r \in Present(t)', r.id \in Followers
             PROVE  /\ pc' = "ways" => r.id \in todo' \/ r.geom = WayLine(New, r.id)
                    /\ InPass2' /\ progress' = "RELATION" => r.geom = WayLine(New, r.id)
    BY <1>1 DEF ReachedInv
<1>2. \A s \in Present(t) : s.id \in Followers =>
        /\ pc = "ways" => s.id \in todo \/ s.geom = WayLine(New, s.id)
        /\ InPass2 /\ progress = "RELATION" => s.geom = WayLine(New, s.id)
    BY DEF ReachedInv
<1>3. ASSUME pc' = "ways" PROVE r.id \in todo' \/ r.geom = WayLine(New, r.id)
  <2>1. CASE UNCHANGED vars
    BY <1>2, <1>3, <2>1 DEF vars, Present
  <2>2. CASE WriteNewWays
    BY <1>1, <2>2, ReachedHaveTurns DEF Followers
  <2>3. ASSUME NEW w, UpdateWay(w) PROVE r.id \in todo' \/ r.geom = WayLine(New, r.id)
    BY <2>3, TurnStep
  <2> QED
    BY <1>3, <2>1, <2>2, <2>3, IntoWays
<1>4. ASSUME InPass2', progress' = "RELATION" PROVE r.geom = WayLine(New, r.id)
  <2>1. CASE pc = "ways"
    <3>1. pc' # "ways" /\ progress = "WAY"
      BY <1>1, <1>4, <2>1 DEF BaseInv, TablesInv
    <3>2. CASE pc' = "pass2"
      <4>1. StartRelations
        BY <2>1, <3>2, OutOfWays
      <4>2. todo = {} /\ db'[t] = db[t]
        BY <4>1 DEF StartRelations, Tables, MemberTables
      <4> QED
        BY <1>2, <2>1, <4>2 DEF Present
    <3>3. CASE pc' # "pass2"
      BY <1>1, <1>4, <2>1, <3>1, <3>3
      DEF RowStep, DeleteStep, SwitchStep, SendStep, PhaseStep, PhaseChange, CloseStep, Closing,
          DeadStep, AgainStep, IdleStep, InPass2
    <3> QED
      BY <3>2, <3>3
  <2>2. CASE pc # "ways"
    <3>1. ~DeadStep /\ ~AgainStep /\ ~DeleteStep
      BY <1>4 DEF DeadStep, AgainStep, DeleteStep, InPass2
    <3>2. InPass2 /\ progress = "RELATION"
      <4>1. ~SwitchStep
        BY <1>1, <1>4 DEF SwitchStep, BaseInv, TablesInv
      <4>2. SendStep => InPass2 /\ progress = "RELATION"
        BY <1>4 DEF SendStep, InPass2
      <4>3. PhaseStep => InPass2 /\ progress = "RELATION"
        BY <1>4, <2>2 DEF PhaseStep, PhaseChange, InPass2
      <4>4. \A u \in Tables : CloseStep(u) => InPass2 /\ progress = "RELATION"
        BY <1>4 DEF CloseStep, Closing, InPass2
      <4>5. IdleStep => InPass2 /\ progress = "RELATION"
        BY <1>4 DEF IdleStep, InPass2
      <4> QED
        BY <1>1, <3>1, <4>1, <4>2, <4>3, <4>4, <4>5 DEF RowStep
    <3>3. \A s \in Present(t) : s.id \in Followers => s.geom = WayLine(New, s.id)
      BY <1>2, <3>2
    <3>4. CASE SendStep /\ Present(t)' = Present(t) \cup WrittenRows(t, file[pos])
      <4>1. \A s \in WrittenRows(t, file[pos]) : InFile("way", s.id)
        BY <1>1, <3>4, WrittenShape DEF SendStep, InFile, Has
      <4>2. ~InFile("way", r.id)
        BY DEF Followers, AffectedWays
      <4> QED
        BY <3>3, <3>4, <4>1, <4>2
    <3>5. ~(\E id \in todo : UpdateStep(t, id))
      BY <2>2 DEF UpdateStep
    <3>6. CASE Present(t)' = Present(t)
      BY <3>3, <3>6
    <3> QED
      BY <1>1, <3>1, <3>4, <3>5, <3>6, EditedMoves
  <2> QED
    BY <2>1, <2>2
<1> QED
    BY <1>3, <1>4

LEMMA InitReached == Init => ReachedInv
BY DEF Init, ReachedInv, InPass2
-----------------------------------------------------------------------------
(* The lines after the diff.                                                *)

\* The ways that have a row in the line table.
LineWays(data) == ImportedWays(data) \cup {w \in data.late : data.way[w].tagged}

LEMMA LineIds ==
    ASSUME NEW data, NEW withAreas
    PROVE  {r.id : r \in Imported(data, withAreas)["line"]} = LineWays(data)
<1> DEFINE Row(w) == LineRow(w, Linestring(WayLine(data, w)), 0)
<1>1. Imported(data, withAreas)["line"] = {Row(w) : w \in LineWays(data)}
    BY DEF Imported, Tables, MemberTables, LineWays
<1>2. \A w : Row(w).id = w
    BY DEF LineRow
<1> HIDE DEF Row
<1> QED
    BY <1>1, <1>2

LEMMA NewLate ==
    /\ \A w : ~InFile("way", w) => (w \in New.late <=> w \in old.late)
    /\ Written("way") \subseteq New.late
<1>1. New.late = {w \in old.late : ~Has(file, "way", w)} \cup WrittenBy(file, "way")
    BY DEF New, After
<1>2. \A w \in WrittenBy(file, "way") : Has(file, "way", w)
    BY DEF WrittenBy, Has
<1> QED
    BY <1>1, <1>2 DEF InFile, Written

\* The ways that have a line after the diff: those of the file that are tagged,
\* and of the others those that had one before.
LEMMA NewLineWays ==
    ASSUME InputInv, OneVersionEach, Healthy, NEW w
    PROVE  w \in LineWays(New) <=>
                IF InFile("way", w)
                THEN \E k \in DOMAIN file : Gives("line", file[k]) /\ file[k].id = w
                ELSE w \in LineWays(old)
<1>1. /\ \A data \in {old, New} : \A v \in DOMAIN data.way :
            Len(data.way[v].refs) >= 2 /\ Complete(WayLine(data, v))
      /\ old.late \subseteq DOMAIN old.way /\ New.late \subseteq DOMAIN New.way
    BY NewWays DEF Healthy, Closed, InputInv, IsDataSet
<1>2. \A data \in {old, New} : ImportedWays(data) = DOMAIN data.way \ data.late
    BY <1>1 DEF ImportedWays
<1>3. CASE ~InFile("way", w)
  <2>1. /\ w \in DOMAIN New.way <=> w \in DOMAIN old.way
        /\ w \in DOMAIN old.way => New.way[w] = old.way[w]
        /\ w \in New.late <=> w \in old.late
    BY <1>3, NewWays, NewLate
  <2> QED
    BY <1>1, <1>2, <1>3, <2>1 DEF LineWays
<1>4. CASE InFile("way", w)
  <2>1. PICK k \in DOMAIN file : file[k].kind = "way" /\ file[k].id = w
    BY <1>4 DEF InFile, Has
  <2>2. /\ w \in DOMAIN New.way <=> ~file[k].deleted
        /\ ~file[k].deleted => New.way[w].tagged = file[k].tagged /\ w \in New.late
    BY <2>1, NewWays, NewLate DEF Written, WrittenBy
  <2>3. w \in LineWays(New) <=> ~file[k].deleted /\ file[k].tagged
    BY <1>1, <1>2, <2>2 DEF LineWays
  <2>4. \A j \in DOMAIN file : Gives("line", file[j]) /\ file[j].id = w => j = k
    BY <2>1 DEF Gives, KindOf, OneVersionEach
  <2>5. Gives("line", file[k]) <=> ~file[k].deleted /\ file[k].tagged
    BY <2>1 DEF Gives, KindOf
  <2> QED
    BY <1>4, <2>1, <2>3, <2>4, <2>5
<1> QED
    BY <1>3, <1>4

\* Neither the location of a node that is not written nor the line of a way with
\* such nodes changes.
LEMMA UnmovedNode ==
    ASSUME OneVersionEach, NEW n \in DOMAIN New.node, n \notin Written("node")
    PROVE  LocIn(old, n) = LocIn(New, n)
<1>1. ~InFile("node", n)
  <2> SUFFICES ASSUME NEW k \in DOMAIN file, file[k].kind = "node", file[k].id = n
               PROVE  FALSE
    BY DEF InFile, Has
  <2>1. ~file[k].deleted
    BY NewNodes
  <2> QED
    BY <2>1 DEF Written, WrittenBy
<1> QED
    BY <1>1, NewNodes DEF LocIn

LEMMA UnmovedWay ==
    ASSUME InputInv, OneVersionEach, Healthy,
           NEW w \in DOMAIN New.way, ~InFile("way", w), w \notin AffectedWays
    PROVE  WayLine(old, w) = WayLine(New, w)
<1> DEFINE refs == New.way[w].refs
<1>1. w \in DOMAIN old.way /\ old.way[w] = New.way[w]
    BY NewWays
<1>2. Complete(WayLine(New, w))
    BY DEF Healthy, Closed
<1>3. WayLine(New, w) = {<<i, LocIn(New, refs[i])>> : i \in DOMAIN refs}
    BY DEF WayLine, Line
<1>4. WayLine(old, w) = {<<i, LocIn(old, refs[i])>> : i \in DOMAIN refs}
    BY <1>1 DEF WayLine, Line
<1>5. \A i \in DOMAIN refs : refs[i] \notin Written("node")
    BY DEF AffectedWays, RefsOf
<1> HIDE DEF refs
<1>6. ASSUME NEW i \in DOMAIN refs PROVE LocIn(old, refs[i]) = LocIn(New, refs[i])
  <2>1. LocIn(New, refs[i]) # NoLoc
    <3>1. <<i, LocIn(New, refs[i])>> \in WayLine(New, w)
      BY <1>3
    <3> QED
      BY <1>2, <3>1 DEF Complete
  <2>2. refs[i] \in DOMAIN New.node
    BY <2>1 DEF LocIn
  <2> QED
    BY <1>5, <2>2, UnmovedNode
<1> QED
    BY <1>3, <1>4, <1>6

LEMMA UnmovedLine ==
    ASSUME InputInv, OneVersionEach, Healthy, LinesGiven(New),
           NEW w \in DOMAIN New.way, ~InFile("way", w), w \notin AffectedWays
    PROVE  Linestring(WayLine(old, w)) = WayLine(New, w)
<1>1. WayLine(old, w) = WayLine(New, w)
    BY UnmovedWay
<1> QED
    BY <1>1 DEF LinesGiven, GivesLine, Linestring
-----------------------------------------------------------------------------
\* The inductive invariant of the lines.
FollowInv ==
    /\ RowsRightInv /\ FiniteInv /\ CollectInv /\ OthersInv("line") /\ ReadInv("line")
    /\ ProperFile /\ Healthy => LinesKept /\ ReachedInv

LEMMA FollowInvariant == Spec => []FollowInv
<1>1. FollowInv /\ RowsRightInv' /\ [Next]_vars => FollowInv'
  <2> SUFFICES ASSUME FollowInv, RowsRightInv', [Next]_vars PROVE FollowInv'
    OBVIOUS
  <2>1. /\ LinesInv /\ DataInv /\ BaseInv /\ ShapeInv /\ BaseInv' /\ RowStep
        /\ "line" \in EditedTables
    BY BaseStep DEF FollowInv, RowsRightInv, LinesInv, KnownInv, DataInv, EditedTables
  <2>2. FiniteInv' /\ CollectInv'
    BY <2>1, FiniteStep, CollectStep DEF FollowInv
  <2>3. OthersInv("line")' /\ ReadInv("line")'
    BY <2>1, OthersStep, ReadStep DEF FollowInv
  <2>4. ProperFile /\ Healthy => LinesKept' /\ ReachedInv'
    BY <2>1, LinesKeptStep, ReachedStep DEF FollowInv
  <2>5. (ProperFile' <=> ProperFile) /\ (Healthy' <=> Healthy)
    BY <2>1, SameGoals
  <2> QED
    BY <2>2, <2>3, <2>4, <2>5 DEF FollowInv
<1>2. Init /\ RowsRightInv => FollowInv
  <2>1. "line" \in EditedTables
    BY DEF EditedTables
  <2> QED
    BY <2>1, InitFinite, InitCollect, InitOthers, InitRead, InitLinesKept, InitReached
    DEF FollowInv
<1> QED
    BY <1>1, <1>2, RowsRightInvariant, PTL DEF Spec

\* When a run has come to its end, the line table has a row for exactly the ways
\* it should have, and if the file contains a relation, the lines of all ways
\* with a moved node follow it but for the one with the smallest id
\* (DiffHandler2::node(), way() and update_way(), PendingContainer).  The ways
\* of the data after the diff do not have all their nodes in one place: of such
\* a way the table has an empty line.
THEOREM LinesFollow ==
    Spec => [](ProperFile /\ Healthy /\ LinesGiven(New) => LinesFollowNodes)
<1> DEFINE t == "line"
<1>1. FollowInv => (ProperFile /\ Healthy /\ LinesGiven(New) => LinesFollowNodes)
  <2> SUFFICES ASSUME FollowInv, ProperFile, Healthy, LinesGiven(New), pc = "done"
               PROVE  /\ {r.id : r \in db[t].saved} = {r.id : r \in Expected(t)}
                      /\ StaleLines \subseteq AffectedWays \ Reached
    BY DEF LinesFollowNodes
  <2>1. /\ RowsRightInv /\ BaseInv /\ InputInv /\ EndInv /\ OneVersionEach
        /\ t \in EditedTables /\ KindOf(t) = "way" /\ InPass2
        /\ EditedInv(t) /\ OthersInv(t) /\ ReadInv(t) /\ LinesKept /\ ReachedInv
    BY EditedTablesFacts
    DEF FollowInv, RowsRightInv, LinesInv, KnownInv, DataInv, BaseInv, ProperFile, EditedTables,
        SoundFor, InPass2
  <2>2. Present(t) = db[t].saved
    BY <2>1, EditedDone DEF Present
  <2>3. \A r \in db[t].saved : \A k \in DOMAIN file :
            Matches(t, r, k) => RightRow(t, r, file[k])
    BY <2>1, <2>2 DEF EditedInv
  <2>4. \A r, k : Matches(t, r, k) <=> file[k].kind = "way" /\ file[k].id = r.id
    BY <2>1, EditedTablesFacts DEF Matches
  <2>5. {r.id : r \in Expected(t)} = LineWays(New)
        /\ {r.id : r \in Imported(old, PolygonTable)[t]} = LineWays(old)
    BY LineIds DEF Expected
  <2>6. ASSUME NEW r \in db[t].saved PROVE r.id \in LineWays(New)
    <3>1. CASE InFile("way", r.id)
      <4>1. PICK k \in DOMAIN file : file[k].kind = "way" /\ file[k].id = r.id
        BY <3>1 DEF InFile, Has
      <4>2. RightRow(t, r, file[k])
        BY <2>3, <2>4, <4>1
      <4>3. Gives(t, file[k])
        BY <2>1, <4>1, <4>2 DEF RightRow, Gives
      <4> QED
        BY <2>1, <3>1, <4>1, <4>3, NewLineWays
    <3>2. CASE ~InFile("way", r.id)
      <4>1. HasRow(Imported(old, PolygonTable)[t], r.id)
        BY <2>1, <3>2 DEF OthersInv, AllRows
      <4>2. r.id \in LineWays(old)
        BY <2>5, <4>1 DEF HasRow
      <4> QED
        BY <2>1, <3>2, <4>2, NewLineWays
    <3> QED
      BY <3>1, <3>2
  <2>7. ASSUME NEW w \in LineWays(New) PROVE \E r \in db[t].saved : r.id = w
    <3>1. CASE InFile("way", w)
      <4>1. PICK k \in DOMAIN file : Gives(t, file[k]) /\ file[k].id = w
        BY <2>1, <3>1, NewLineWays
      <4>2. k < pos
        BY <2>1, FileFacts DEF BaseInv, ControlInv
      <4>3. HasRow(Present(t), w)
        BY <2>1, <4>1, <4>2 DEF ReadInv
      <4> QED
        BY <2>2, <4>3 DEF HasRow
    <3>2. CASE ~InFile("way", w)
      <4>1. w \in LineWays(old)
        BY <2>1, <3>2, NewLineWays
      <4>2. PICK r \in Imported(old, PolygonTable)[t] : r.id = w
        BY <2>5, <4>1
      <4>3. HasRow(db[t].saved, r.id)
        BY <2>1, <3>2, <4>2 DEF OthersInv
      <4> QED
        BY <4>2, <4>3 DEF HasRow
    <3> QED
      BY <3>1, <3>2
  <2>8. ASSUME NEW r \in db[t].saved, r.id \in DOMAIN New.way, r.geom # WayLine(New, r.id)
        PROVE  r.id \in AffectedWays \ Reached
    <3>1. ~InFile("way", r.id)
      <4> SUFFICES ASSUME NEW k \in DOMAIN file, file[k].kind = "way", file[k].id = r.id
                   PROVE  FALSE
        BY DEF InFile, Has
      <4> QED
        BY <2>3, <2>4, <2>8 DEF RightRow
    <3>2. r.geom = Linestring(WayLine(old, r.id))
      BY <2>1, <2>8, <3>1 DEF LinesKept, AllRows
    <3>3. r.id \in AffectedWays
      BY <2>1, <2>8, <3>1, <3>2, UnmovedLine
    <3>4. HasRelation => progress = "RELATION"
      BY <2>1, FileFacts DEF HasRelation, BaseInv, ControlInv, TablesInv
    <3>5. ~(HasRelation /\ r.id \in Followers)
      BY <2>1, <2>2, <2>8, <3>4 DEF ReachedInv
    <3> QED
      BY <3>3, <3>5 DEF Reached, Followers
  <2> QED
    BY <2>5, <2>6, <2>7, <2>8 DEF StaleLines
<1> QED
    BY <1>1, FollowInvariant, PTL
-----------------------------------------------------------------------------
(* The pending relations: every relation that has to follow is collected.   *)

OtherRels == {rel \in DOMAIN New.rel : ~InFile("relation", rel)}
Tellers == {"node", "way"}
\* The relations of m have been asked for: it is written and has been read, or
\* it is a way that follows its nodes and has had its turn.
Told(kind, m) ==
    \/ \E k \in DOMAIN file :
            file[k].kind = kind /\ ~file[k].deleted /\ k < pos /\ file[k].id = m
    \/ /\ kind = "way" /\ m \in Followers
       /\ (pc = "ways" /\ m \notin todo) \/ progress = "RELATION"
CollectRelsInv ==
    /\ pc = "pass1" => pendRels = <<>>
    /\ pc \in {"pass2", "ways"} =>
        /\ IsList(pendRels)
        /\ ProperFile /\ Healthy =>
                \A rel \in OtherRels : \A kind \in Tellers : \A m \in MemsOf(rel, kind) :
                    Told(kind, m) => rel \in Entries(pendRels)

\* The members of relations that are not in the file are in their tables all
\* the time.
LEMMA OtherHasRow ==
    ASSUME DataInv, ProperFile, NEW rel \in OtherRels, NEW kind \in Tellers,
           NEW m \in MemsOf(rel, kind)
    PROVE  \E r \in db[TableOf(kind)].live : r.member = m /\ r.rel = rel
<1> DEFINE t == TableOf(kind)
           mems == old.rel[rel].mems
<1>1. kind \in Kinds
    BY DEF Tellers, Kinds
<1>2. /\ t \in MemberTables /\ t \in PlainTables /\ t \notin {"node_ways", "point", "untagged"}
      /\ (CHOOSE k \in Kinds : TableOf(k) = t) = kind
    BY <1>1, TableOfFacts DEF PlainTables, TopologyTables, MemberTables
<1>3. /\ InputInv /\ OneVersionEach /\ BystandersInv /\ old.late \subseteq DOMAIN old.way
    BY DEF DataInv, BaseInv, InputInv, IsDataSet, ProperFile
<1>4. /\ ~InFile("relation", rel) /\ rel \in DOMAIN old.rel /\ New.rel[rel] = old.rel[rel]
    BY <1>3, NewRels DEF OtherRels
<1>5. PICK i \in MembersAt(mems, kind) : mems[i].ref = m
    BY <1>4 DEF MemsOf
<1> DEFINE q == [rel |-> rel, member |-> mems[i].ref, pos |-> i, run |-> 0]
<1> HIDE DEF t
<1>6. q \in MemberRows(rel, mems, kind, 0)
    BY <1>5 DEF MemberRows, MembersAt
<1>7. q \in RowsOf(old, t, rel) /\ rel \in ObjectsOf(old, t)
  <2>1. RowsOf(old, t, rel) = MemberRows(rel, mems, kind, 0)
    BY <1>2 DEF RowsOf
  <2>2. ObjectsOf(old, t) = DOMAIN old.rel
    BY <1>2 DEF ObjectsOf, KindOf, MemberTables
  <2> QED
    BY <1>4, <1>6, <2>1, <2>2
<1>8. q \in Imported(old, PolygonTable)[t]
    BY <1>2, <1>3, <1>7, ImportedRowsOf
<1>9. q.rel = rel /\ q.member = m
    BY <1>5
<1> HIDE DEF q
<1>10. Bystander(t, q)
  <2>1. KindOf(t) = "relation" /\ IdIn(t, q) = rel
    BY <1>2, <1>9 DEF KindOf, IdIn, MemberTables
  <2> QED
    BY <1>2, <1>4, <2>1, BystanderIsNotInFile
<1>11. q \in db[t].live
    BY <1>2, <1>3, <1>8, <1>10 DEF BystandersInv
<1> QED
    BY <1>9, <1>11 DEF t

LEMMA PushedRels ==
    ASSUME NEW list, IsList(list), NEW kind, NEW m, IsFiniteSet(db[TableOf(kind)].live)
    PROVE  /\ IsList(PushRels(list, kind, m))
           /\ Entries(PushRels(list, kind, m)) =
                Entries(list) \cup {r.rel : r \in {r \in Live(TableOf(kind)) : r.member = m}}
<1> DEFINE rows == {r \in Live(TableOf(kind)) : r.member = m}
           id == [r \in rows |-> r.rel]
           s == Sequence!SetToSeq(rows)
<1>1. IsFiniteSet(rows)
    BY FS_Subset DEF Live
<1>2. s \in Seq(rows)
    BY <1>1, ListOfSet
<1> HIDE DEF s
<1>3. \A k \in DOMAIN s : s[k] \in rows
    BY <1>2
<1>4. [k \in DOMAIN s |-> id[s[k]]] = [k \in DOMAIN s |-> s[k].rel]
    BY <1>3
<1>5. PushRels(list, kind, m) = list \o [k \in DOMAIN s |-> id[s[k]]]
    BY <1>4 DEF PushRels, PushAll, s
<1>6. {id[r] : r \in rows} = {r.rel : r \in rows}
    OBVIOUS
<1>7. s = Sequence!SetToSeq(rows)
    BY DEF s
<1> HIDE DEF id, rows
<1>8. /\ IsList(list \o [k \in DOMAIN s |-> id[s[k]]])
      /\ Entries(list \o [k \in DOMAIN s |-> id[s[k]]]) =
            Entries(list) \cup {id[r] : r \in rows}
    BY <1>1, <1>7, ListOfIds
<1> QED
    BY <1>5, <1>6, <1>8 DEF rows

\* What a push adds.
LEMMA PushedMember ==
    ASSUME DataInv, FiniteInv, NEW kind \in Tellers, NEW m, IsList(pendRels)
    PROVE  /\ IsList(PushRels(pendRels, kind, m))
           /\ Entries(pendRels) \subseteq Entries(PushRels(pendRels, kind, m))
           /\ ProperFile =>
                \A rel \in OtherRels :
                    m \in MemsOf(rel, kind) => rel \in Entries(PushRels(pendRels, kind, m))
<1>1. TableOf(kind) \in TopologyTables
    BY TableOfFacts DEF Tellers, Kinds, TopologyTables
<1>2. IsFiniteSet(db[TableOf(kind)].live)
  <2>1. /\ IsFiniteSet(AllRows(db[TableOf(kind)]))
        /\ db[TableOf(kind)].live \subseteq AllRows(db[TableOf(kind)])
    BY <1>1 DEF FiniteInv, AllRows
  <2> QED
    BY <2>1, FS_Subset
<1>3. /\ IsList(PushRels(pendRels, kind, m))
      /\ Entries(PushRels(pendRels, kind, m)) =
            Entries(pendRels) \cup {r.rel : r \in {r \in Live(TableOf(kind)) : r.member = m}}
    BY <1>2, PushedRels
<1>4. ASSUME ProperFile, NEW rel \in OtherRels, m \in MemsOf(rel, kind)
      PROVE  rel \in Entries(PushRels(pendRels, kind, m))
  <2>1. PICK r \in db[TableOf(kind)].live : r.member = m /\ r.rel = rel
    BY <1>4, OtherHasRow
  <2> QED
    BY <1>3, <2>1 DEF Live
<1> QED
    BY <1>3, <1>4

LEMMA SameRels ==
    ASSUME RowStep
    PROVE  /\ UNCHANGED <<file, old, New, Followers, OtherRels, AffectedRels, AffectedWays>>
           /\ \A rel, kind : MemsOf(rel, kind)' = MemsOf(rel, kind)
           /\ ProperFile' <=> ProperFile
           /\ Healthy' <=> Healthy
           /\ HasWay' <=> HasWay
           /\ HasRelation' <=> HasRelation
<1>1. /\ UNCHANGED <<file, old, New, Followers, AffectedWays>>
      /\ ProperFile' <=> ProperFile
      /\ Healthy' <=> Healthy
    BY SameGoals, SameFollowers, SameAffected
<1>2. \A rel, kind : MemsOf(rel, kind)' = MemsOf(rel, kind)
    BY <1>1 DEF MemsOf
<1>3. (HasWay' <=> HasWay) /\ (HasRelation' <=> HasRelation)
    BY <1>1 DEF HasWay, HasRelation
<1>4. UNCHANGED <<Reached, OtherRels>>
    BY <1>1, <1>3 DEF Reached, First, OtherRels, InFile
<1>5. UNCHANGED AffectedRels
    BY <1>1, <1>2, <1>4 DEF AffectedRels, InFile, Written
<1> QED
    BY <1>1, <1>2, <1>3, <1>4, <1>5

LEMMA CollectRelsStep ==
    ASSUME DataInv, FiniteInv, CollectInv, CollectRelsInv, [Next]_vars
    PROVE  CollectRelsInv'
<1>1. BaseInv /\ RowStep
    BY BaseStep DEF DataInv
<1>2. pc' = "pass1" => pendRels' = <<>>
  <2> SUFFICES ASSUME pc' = "pass1" PROVE pendRels' = <<>>
    OBVIOUS
  <2>1. CASE UNCHANGED vars
    BY <2>1 DEF vars, CollectRelsInv
  <2>2. CASE Node1 \/ Way1 \/ Relation1
    BY <2>2 DEF Node1, Way1, Relation1, Pass1, Pass1Frame, pending, CollectRelsInv
  <2>3. CASE Restart
    BY <2>3 DEF Restart
  <2> QED
    BY <2>1, <2>2, <2>3, IntoPass1
<1> DEFINE Goal == /\ IsList(pendRels')
                   /\ ProperFile /\ Healthy =>
                        \A rel \in OtherRels : \A kind \in Tellers : \A m \in MemsOf(rel, kind) :
                            Told(kind, m)' => rel \in Entries(pendRels')
<1>3. /\ DOMAIN file = 1 .. Len(file) /\ Len(file) \in Nat /\ pos \in Nat \ {0}
      /\ UNCHANGED <<file, Followers>> /\ \A rel \in OtherRels : ~InFile("relation", rel)
    BY <1>1, FileFacts, SameRels DEF BaseInv, ControlInv, OtherRels
<1>4. ASSUME pc \in {"pass2", "ways"}, IsList(pendRels'),
             Entries(pendRels) \subseteq Entries(pendRels'),
             ProperFile /\ Healthy =>
                \A rel \in OtherRels : \A kind \in Tellers : \A m \in MemsOf(rel, kind) :
                    Told(kind, m)' => Told(kind, m) \/ rel \in Entries(pendRels')
      PROVE  Goal
    BY <1>4 DEF CollectRelsInv
\* No object is passed, and no way has a turn.
<1>5. ASSUME pc \in {"pass2", "ways"}, pos' = pos, pc' = pc, todo' = todo,
             progress' = "RELATION" => progress = "RELATION",
             pendRels' = pendRels
      PROVE  Goal
  <2>1. \A kind, m : Told(kind, m)' => Told(kind, m)
    BY <1>3, <1>5 DEF Told
  <2> QED
    BY <1>4, <1>5, <2>1 DEF CollectRelsInv
\* An object is passed.
<1>6. ASSUME pc = "pass2", pc' = "pass2", pos' = pos + 1, pos \in DOMAIN file, progress' = progress,
             IsList(pendRels'),
             \A rel \in OtherRels : rel \in Entries(pendRels) => rel \in Entries(pendRels'),
             ProperFile /\ Healthy /\ file[pos].kind \in Tellers /\ ~file[pos].deleted =>
                \A rel \in OtherRels :
                    file[pos].id \in MemsOf(rel, file[pos].kind) => rel \in Entries(pendRels')
      PROVE  Goal
  <2> SUFFICES ASSUME ProperFile, Healthy, NEW rel \in OtherRels, NEW kind \in Tellers,
                      NEW m \in MemsOf(rel, kind), Told(kind, m)'
               PROVE  rel \in Entries(pendRels')
    BY <1>6
  <2>1. CASE Told(kind, m)
    BY <1>6, <2>1 DEF CollectRelsInv
  <2>2. CASE ~Told(kind, m)
    <3>1. PICK k \in DOMAIN file : file[k].kind = kind /\ ~file[k].deleted /\ k < pos + 1
                                   /\ file[k].id = m
      BY <1>3, <1>6, <2>2 DEF Told
    <3>2. k < pos \/ k = pos
      BY <1>3, <3>1
    <3>3. k = pos
      BY <2>2, <3>1, <3>2 DEF Told
    <3> QED
      BY <1>6, <3>1, <3>3
  <2> QED
    BY <2>1, <2>2
<1>7. pc' = "pass2" => Goal
  <2> SUFFICES ASSUME pc' = "pass2" PROVE Goal
    OBVIOUS
  <2>1. CASE UNCHANGED vars
    <3>1. /\ pc = "pass2" /\ pos' = pos /\ pc' = pc /\ todo' = todo /\ progress' = progress
          /\ pendRels' = pendRels
      BY <2>1 DEF vars
    <3> QED
      BY <1>5, <3>1
  <2>2. CASE StartPass2
    <3>1. pendRels' = <<>> /\ pos' = 1 /\ progress' # "RELATION"
      BY <1>1, <2>2 DEF StartPass2, pending, CollectRelsInv, BaseInv, TablesInv
    <3>2. \A kind, m : ~Told(kind, m)'
      BY <1>3, <3>1 DEF Told
    <3>3. IsList(<<>>)
      BY DEF IsList
    <3> QED
      BY <3>1, <3>2, <3>3
  <2>3. CASE WriteNewNodes
    <3>1. /\ pc = "pass2" /\ pos' = pos /\ pc' = pc /\ todo' = todo /\ progress' # "RELATION"
          /\ pendRels' = pendRels
      BY <2>3 DEF WriteNewNodes
    <3> QED
      BY <1>5, <3>1
  <2>4. CASE FlushAreas
    <3>1. /\ pc = "pass2" /\ pos' = pos /\ pc' = pc /\ todo' = todo /\ progress' = progress
          /\ pendRels' = pendRels
      BY <2>4 DEF FlushAreas, pending
    <3> QED
      BY <1>5, <3>1
  <2>5. CASE StartRelations
    <3>1. /\ pc = "ways" /\ todo = {} /\ pos' = pos /\ todo' = todo
          /\ pendRels' \in SortedUnique(pendRels)
      BY <2>5 DEF StartRelations
    <3>2. IsList(pendRels)
      BY <3>1 DEF CollectRelsInv
    <3>3. IsList(pendRels') /\ Entries(pendRels') = Entries(pendRels)
      BY <3>1, <3>2, SortedUniqueEntries
    <3>4. \A kind, m : Told(kind, m)' => Told(kind, m)
      BY <1>3, <3>1 DEF Told
    <3> QED
      BY <1>4, <3>1, <3>3, <3>4
  <2>6. CASE Node2
    <3> DEFINE n == file[pos].id
    <3>1. /\ pc = "pass2" /\ pc' = "pass2" /\ pos' = pos + 1 /\ pos \in DOMAIN file
          /\ progress' = progress /\ file[pos].kind = "node"
          /\ file[pos].deleted => pendRels' = pendRels
          /\ ~file[pos].deleted => pendRels' = PushRels(pendRels, "node", n)
      BY <1>3, <2>6 DEF Node2, Pass2, Object
    <3>2. IsList(pendRels) /\ "node" \in Tellers
      BY <3>1 DEF CollectRelsInv, Tellers
    <3> HIDE DEF n
    <3>3. /\ IsList(PushRels(pendRels, "node", n))
          /\ Entries(pendRels) \subseteq Entries(PushRels(pendRels, "node", n))
          /\ ProperFile =>
                \A rel \in OtherRels :
                    n \in MemsOf(rel, "node") => rel \in Entries(PushRels(pendRels, "node", n))
      BY <3>2, PushedMember
    <3>4. IsList(pendRels') /\ Entries(pendRels) \subseteq Entries(pendRels')
      BY <3>1, <3>2, <3>3
    <3> QED
      BY <1>6, <3>1, <3>3, <3>4 DEF n
  <2>7. CASE Way2Deleted
    <3>1. /\ pc = "pass2" /\ pc' = "pass2" /\ pos' = pos + 1 /\ pos \in DOMAIN file
          /\ progress' = progress /\ file[pos].deleted /\ pendRels' = pendRels
      BY <1>3, <2>7 DEF Way2Deleted, Pass2, Object, pending
    <3> QED
      BY <1>6, <3>1 DEF CollectRelsInv
  <2>8. CASE Way2
    <3> DEFINE w == file[pos].id
    <3>1. /\ pc = "pass2" /\ pc' = "pass2" /\ pos' = pos + 1 /\ pos \in DOMAIN file
          /\ progress' = progress /\ file[pos].kind = "way"
          /\ pendRels' = PushRels(pendRels, "way", w)
      BY <1>3, <2>8 DEF Way2, Pass2, Object
    <3>2. IsList(pendRels) /\ "way" \in Tellers
      BY <3>1 DEF CollectRelsInv, Tellers
    <3> HIDE DEF w
    <3>3. /\ IsList(PushRels(pendRels, "way", w))
          /\ Entries(pendRels) \subseteq Entries(PushRels(pendRels, "way", w))
          /\ ProperFile =>
                \A rel \in OtherRels :
                    w \in MemsOf(rel, "way") => rel \in Entries(PushRels(pendRels, "way", w))
      BY <3>2, PushedMember
    <3> QED
      BY <1>6, <3>1, <3>3 DEF w
  <2>9. CASE Relation2Deleted
    <3>1. /\ pc = "pass2" /\ pc' = "pass2" /\ pos' = pos + 1 /\ pos \in DOMAIN file
          /\ progress' = progress /\ file[pos].deleted /\ pendRels' = pendRels
      BY <1>3, <2>9 DEF Relation2Deleted, Pass2, Object, pending
    <3> QED
      BY <1>6, <3>1 DEF CollectRelsInv
  <2>10. CASE Relation2
    <3> DEFINE id == file[pos].id
    <3>1. /\ pc = "pass2" /\ pc' = "pass2" /\ pos' = pos + 1 /\ pos \in DOMAIN file
          /\ progress' = progress /\ file[pos].kind = "relation"
          /\ pendRels' = CrossOut(pendRels, relsIdx, id)
      BY <1>3, <2>10 DEF Relation2, Pass2, Object
    <3>2. IsList(pendRels) /\ InFile("relation", id) /\ file[pos].kind \notin Tellers
      BY <3>1 DEF CollectRelsInv, InFile, Has, Tellers
    <3> HIDE DEF id
    <3>3. /\ IsList(pendRels')
          /\ \A e \in Entries(pendRels) : e # id => e \in Entries(pendRels')
      BY <3>1, <3>2, CrossedOutEntries
    <3>4. \A rel \in OtherRels : rel \in Entries(pendRels) => rel \in Entries(pendRels')
      BY <1>3, <3>2, <3>3
    <3> QED
      BY <1>6, <3>1, <3>2, <3>3, <3>4
  <2> QED
    BY <2>1, <2>2, <2>3, <2>4, <2>5, <2>6, <2>7, <2>8, <2>9, <2>10, IntoPass2
<1>8. pc' = "ways" => Goal
  <2> SUFFICES ASSUME pc' = "ways" PROVE Goal
    OBVIOUS
  <2>1. CASE UNCHANGED vars
    <3>1. /\ pc = "ways" /\ pos' = pos /\ pc' = pc /\ todo' = todo /\ progress' = progress
          /\ pendRels' = pendRels
      BY <2>1 DEF vars
    <3> QED
      BY <1>5, <3>1
  <2>2. CASE WriteNewWays
    <3>1. pc = "pass2" /\ pos' = pos /\ progress' # "RELATION" /\ pendRels' = pendRels
      BY <2>2 DEF WriteNewWays
    <3>2. ASSUME ProperFile, Healthy, NEW w \in Followers PROVE w \in todo'
      BY <2>2, <3>2, ReachedHaveTurns DEF Followers
    <3>3. ASSUME ProperFile, Healthy, NEW kind, NEW m, Told(kind, m)' PROVE Told(kind, m)
      BY <1>3, <3>1, <3>2, <3>3 DEF Told
    <3> QED
      BY <1>4, <3>1, <3>3 DEF CollectRelsInv
  <2>3. ASSUME NEW w \in Ways, UpdateWay(w) PROVE Goal
    <3>1. /\ pc = "ways" /\ pos' = pos /\ todo' = todo \ {w} /\ progress' = progress
          /\ pendRels' = PushRels(pendRels, "way", w)
      BY <2>3 DEF UpdateWay
    <3>2. IsList(pendRels) /\ "way" \in Tellers
      BY <3>1 DEF CollectRelsInv, Tellers
    <3>3. /\ IsList(PushRels(pendRels, "way", w))
          /\ Entries(pendRels) \subseteq Entries(PushRels(pendRels, "way", w))
          /\ ProperFile =>
                \A rel \in OtherRels :
                    w \in MemsOf(rel, "way") => rel \in Entries(PushRels(pendRels, "way", w))
      BY <3>2, PushedMember
    <3>4. ASSUME NEW kind, NEW m, Told(kind, m)'
          PROVE  Told(kind, m) \/ (kind = "way" /\ m = w)
      BY <1>3, <3>1, <3>4 DEF Told
    <3> QED
      BY <1>4, <3>1, <3>3, <3>4
  <2> QED
    BY <2>1, <2>2, <2>3, IntoWays
<1>9. Goal => (/\ IsList(pendRels)
               /\ ProperFile /\ Healthy =>
                    \A rel \in OtherRels : \A kind \in Tellers : \A m \in MemsOf(rel, kind) :
                        Told(kind, m) => rel \in Entries(pendRels))'
  <2>1. /\ UNCHANGED OtherRels /\ \A rel, kind : MemsOf(rel, kind)' = MemsOf(rel, kind)
        /\ (ProperFile' <=> ProperFile) /\ (Healthy' <=> Healthy)
    BY <1>1, SameRels
  <2>2. IsList(pendRels)' <=> IsList(pendRels')
    BY DEF IsList, Entries
  <2>3. \A rel : (rel \in Entries(pendRels))' <=> rel \in Entries(pendRels')
    BY DEF Entries
  <2> QED
    BY <2>1, <2>2, <2>3 DEF Tellers
<1> HIDE DEF Goal
<1> QED
    BY <1>2, <1>7, <1>8, <1>9 DEF CollectRelsInv

LEMMA InitCollectRels == Init => CollectRelsInv
BY DEF Init, CollectRelsInv

LEMMA RelIds ==
    ASSUME InputInv, OneVersionEach, NEW rel \in DOMAIN New.rel
    PROVE  rel \in Rels
<1>1. CASE ~InFile("relation", rel)
    BY <1>1, NewRels DEF InputInv, IsDataSet
<1>2. CASE InFile("relation", rel)
  <2>1. PICK k \in DOMAIN file : file[k].kind = "relation" /\ file[k].id = rel
    BY <1>2 DEF InFile, Has
  <2>2. file[k] \in Changes
    BY FileFacts
  <2> QED
    BY <2>1, <2>2, ChangeFacts
<1> QED
    BY <1>1, <1>2

\* When the file has been read to its end, every relation that has to follow has its turn
\* to come, but for the smallest.
RelFollowers == AffectedRels \ First(AffectedRels)

LEMMA AllTold ==
    ASSUME DataInv, pc = "pass2", pos > Len(file), NEW kind \in Tellers, NEW m,
           m \in Written(kind) \/ (kind = "way" /\ m \in Reached)
    PROVE  Told(kind, m)
<1>1. /\ DOMAIN file = 1 .. Len(file) /\ Len(file) \in Nat /\ pos \in Nat
      /\ BaseInv /\ InPass2
    BY FileFacts DEF DataInv, BaseInv, ControlInv, InPass2
<1>2. CASE m \in Written(kind)
  <2>1. PICK k \in DOMAIN file : file[k].kind = kind /\ ~file[k].deleted /\ file[k].id = m
    BY <1>2 DEF Written, WrittenBy
  <2>2. k < pos
    BY <1>1
  <2> QED
    BY <2>1, <2>2 DEF Told
<1>3. CASE kind = "way" /\ m \in Reached
  <2>1. HasRelation /\ m \in Followers
    BY <1>3 DEF Reached, Followers
  <2>2. PICK k \in DOMAIN file : file[k].kind = "relation"
    BY <2>1 DEF HasRelation
  <2>3. k < pos
    BY <1>1
  <2>4. progress = "RELATION"
    BY <1>1, <2>2, <2>3 DEF BaseInv, ControlInv, TablesInv
  <2> QED
    BY <1>3, <2>1, <2>4 DEF Told
<1> QED
    BY <1>2, <1>3

LEMMA RelsHaveTurns ==
    ASSUME DataInv, CollectRelsInv, ProperFile, Healthy, AfterRelations,
           NEW rel \in RelFollowers
    PROVE  rel \in todo'
<1>1. /\ pc = "pass2" /\ pos > Len(file) /\ todo' = WorkIds(pendRels)
    BY DEF AfterRelations
<1>2. ASSUME NEW v \in AffectedRels
      PROVE  v \in Entries(pendRels) /\ v \in Nat /\ v > 0
  <2>1. v \in Rels /\ v \in OtherRels
    BY RelIds DEF DataInv, BaseInv, ProperFile, AffectedRels, OtherRels
  <2>2. PICK kind \in Tellers : \E m \in MemsOf(v, kind) :
            m \in Written(kind) \/ (kind = "way" /\ m \in Reached)
    BY DEF AffectedRels, Tellers
  <2>3. PICK m \in MemsOf(v, kind) : m \in Written(kind) \/ (kind = "way" /\ m \in Reached)
    BY <2>2
  <2>4. Told(kind, m)
    BY <1>1, <2>3, AllTold
  <2>5. v \in Entries(pendRels)
    BY <1>1, <2>1, <2>4 DEF CollectRelsInv
  <2> QED
    BY <2>1, <2>5, IdsAssumption
<1>3. rel \in AffectedRels /\ rel \notin First(AffectedRels)
    BY DEF RelFollowers
<1>4. PICK v \in AffectedRels : ~(rel <= v)
    BY <1>3 DEF First
<1>5. PICK k \in DOMAIN pendRels : pendRels[k] = rel
    BY <1>2, <1>3 DEF Entries
<1>6. PICK j \in DOMAIN pendRels : pendRels[j] = v
    BY <1>2 DEF Entries
<1>7. v <= rel /\ j # k
    BY <1>2, <1>3, <1>4, <1>5, <1>6
<1> QED
    BY <1>1, <1>2, <1>3, <1>5, <1>6, <1>7 DEF WorkIds
-----------------------------------------------------------------------------
(* What update_relation() writes.                                           *)

\* A file with ways has a relation, so that COPY into node_ways has ended when
\* the lines of the members are read.
WaysAreClosed == HasWay => HasRelation

LEMMA WayNodesClosed ==
    ASSUME DataInv, SortedFile, WaysAreClosed, pc \in {"rels", "incomplete"}
    PROVE  /\ Settled("node_ways") /\ db["node_ways"].live = db["node_ways"].saved
           /\ AllNodesPassed
<1> DEFINE t == "node_ways"
<1>1. /\ BaseInv /\ EndInv /\ LossInv /\ t \in RowTables /\ InPass2 /\ pos = Len(file) + 1
      /\ Len(file) \in Nat /\ DOMAIN file = 1 .. Len(file)
    BY FileFacts, RowTablesFacts DEF DataInv, BaseInv, ControlInv, InPass2
<1>2. progress # "WAY"
  <2> SUFFICES ASSUME progress = "WAY" PROVE FALSE
    OBVIOUS
  <2>1. \A k \in DOMAIN file : file[k].kind # "relation"
    BY <1>1 DEF BaseInv, ControlInv
  <2>2. PICK k \in DOMAIN file : file[k].kind # "node"
    BY <1>1 DEF BaseInv, ControlInv
  <2>3. file[k].kind \in Kinds
    <3>1. file[k] \in Changes
      BY <1>1, FileFacts DEF BaseInv
    <3> QED
      BY <3>1, ChangeFacts DEF Kinds
  <2>4. HasWay /\ ~HasRelation
    BY <2>1, <2>2, <2>3 DEF HasWay, HasRelation, Kinds
  <2> QED
    BY <2>4 DEF WaysAreClosed
<1>3. db[t].copy = FALSE
    BY <1>1, <1>2 DEF LossInv, AtTheEnd, BaseInv, TablesInv, IsTable, RowTables
<1>4. Present(t) = db[t].saved /\ db[t].live = db[t].saved
    BY <1>1, <1>3 DEF BaseInv, RowsInv, Tidy, EndInv, AutocommitInv, TopologyTables, Present
<1>5. Settled(t)
    BY <1>1, <1>3, <1>4 DEF Settled
<1> QED
    BY <1>1, <1>4, <1>5, PassedWithWays

LEMMA UpdatedLines ==
    ASSUME LinesInv, ProperFile, Healthy, WaysAreClosed, pc = "rels", NEW rel \in DOMAIN New.rel
    PROVE  StoredLines(rel) = Lines(New, New.rel[rel].mems)
<1> DEFINE mems == New.rel[rel].mems
           at == MembersAt(mems, "way")
           pairs == {<<i, mems[i].ref>> : i \in at}
           Lined(m) == <<m[1], StoredLine(m[2])>>
<1>1. /\ KnownInv /\ WholeInv /\ DataInv /\ BaseInv /\ EndInv /\ SortedFile /\ InPass2
      /\ WholeWays(old) /\ WholeWays(New) /\ Closed(New)
    BY DEF LinesInv, KnownInv, DataInv, ProperFile, Healthy, Closed, WholeWays, InPass2
<1>2. /\ Settled("node_ways") /\ db["node_ways"].live = db["node_ways"].saved
      /\ AllNodesPassed
    BY <1>1, WayNodesClosed
<1>3. "way" \in Kinds /\ TableOf("way") \in MemberTables
    BY TableOfFacts DEF Kinds
<1>4. Settled(TableOf("way"))
    BY <1>1, <1>3, RelationsSettled
<1>5. db[TableOf("way")].live = db[TableOf("way")].saved
  <2>1. TableOf("way") \in RowTables /\ TableOf("way") \in TopologyTables
    BY <1>3, RowTablesFacts DEF TopologyTables
  <2> QED
    BY <1>1, <1>4, <2>1 DEF Settled, BaseInv, RowsInv, Tidy, EndInv, AutocommitInv
<1>6. MembersOf("way", rel) = pairs
    BY <1>1, <1>3, <1>4, <1>5, MembersAreNew
<1>7. ASSUME NEW i \in at PROVE StoredLine(mems[i].ref) = WayLine(New, mems[i].ref)
  <2>1. mems[i].ref \in DOMAIN New.way
    BY <1>1 DEF Closed, HasMember, MembersAt
  <2>2. WayNodes(mems[i].ref) # {}
    BY <1>1, <1>2, <2>1, SettledWayNodes
  <2>3. StoredLine(mems[i].ref) # {}
    BY <2>2 DEF StoredLine
  <2> QED
    BY <1>1, <1>2, <2>3, StoredLineIsNew
<1>8. \A i : Lined(<<i, mems[i].ref>>) = <<i, StoredLine(mems[i].ref)>>
    OBVIOUS
<1>9. StoredLines(rel) = {Lined(m) : m \in pairs}
    BY <1>6 DEF StoredLines
<1>10. Lines(New, mems) = {<<i, WayLine(New, mems[i].ref)>> : i \in at}
    BY DEF Lines
<1> HIDE DEF at, Lined
<1>11. {Lined(m) : m \in pairs} = {<<i, StoredLine(mems[i].ref)>> : i \in at}
    BY <1>8
<1> HIDE DEF pairs, mems
<1>12. {<<i, StoredLine(mems[i].ref)>> : i \in at} = {<<i, WayLine(New, mems[i].ref)>> : i \in at}
    BY <1>7
<1> QED
    BY <1>9, <1>10, <1>11, <1>12 DEF mems

\* A row with the points and lines after the diff.
RelRight(r) ==
    /\ r.points = Points(New, New.rel[r.id].mems)
    /\ r.lines = Lines(New, New.rel[r.id].mems)

LEMMA UpdatedRelation ==
    ASSUME LinesInv, ProperFile, Healthy, WaysAreClosed, pc = "rels",
           NEW s, Shaped("relations", s), s.id \in DOMAIN New.rel
    PROVE  RelRight(Updated("relations", s))
<1> DEFINE r == Updated("relations", s)
<1>1. r = RelationRow(s.id, NodePoints(MembersOf("node", s.id)), StoredLines(s.id), s.run)
    BY DEF Shaped, Updated, RelationRow
<1>2. /\ r.id = s.id /\ r.points = NodePoints(MembersOf("node", s.id))
      /\ r.lines = StoredLines(s.id)
    BY <1>1 DEF RelationRow
<1>3. NodePoints(MembersOf("node", s.id)) = Points(New, New.rel[s.id].mems)
    BY UpdatedPoints DEF LinesInv, Healthy
<1>4. StoredLines(s.id) = Lines(New, New.rel[s.id].mems)
    BY UpdatedLines
<1> QED
    BY <1>2, <1>3, <1>4 DEF RelRight

-----------------------------------------------------------------------------
(* The rows of the relations that are not in the file.                      *)

\* They have the points and lines of the import until they are rewritten.
RelsKept ==
    \A r \in AllRows(db["relations"]) : ~InFile("relation", r.id) =>
        \/ RelRight(r)
        \/ /\ r.points = Points(old, old.rel[r.id].mems)
           /\ r.lines = Lines(old, old.rel[r.id].mems)

LEMMA OtherRowIsOfRelation ==
    ASSUME InputInv, OneVersionEach, OthersInv("relations"),
           NEW r \in AllRows(db["relations"]), ~InFile("relation", r.id)
    PROVE  r.id \in DOMAIN old.rel /\ r.id \in DOMAIN New.rel
<1>1. "relations" \in EditedTables /\ KindOf("relations") = "relation"
    BY DEF EditedTables, KindOf
<1>2. HasRow(Imported(old, PolygonTable)["relations"], r.id)
    BY <1>1 DEF OthersInv
<1>3. PICK s \in Imported(old, PolygonTable)["relations"] : s.id = r.id
    BY <1>2 DEF HasRow
<1>4. r.id \in DOMAIN old.rel
    BY <1>1, <1>3, ImportedEdited DEF OldIds
<1> QED
    BY <1>4, NewRels

LEMMA RelsKeptStep ==
    ASSUME LinesInv, ShapeInv, RowStep, ProperFile, Healthy, WaysAreClosed,
           OthersInv("relations"), RelsKept
    PROVE  RelsKept'
<1> DEFINE t == "relations"
           Good(r) == ~InFile("relation", r.id) =>
                        \/ RelRight(r)
                        \/ /\ r.points = Points(old, old.rel[r.id].mems)
                           /\ r.lines = Lines(old, old.rel[r.id].mems)
<1>1. /\ UNCHANGED <<old, file, New>> /\ BaseInv /\ InputInv /\ OneVersionEach
      /\ t \in EditedTables /\ (Running => db[t].begun = TRUE) /\ KindOf(t) = "relation"
      /\ t \in RowTables
    BY SameGoals, EditedTablesFacts
    DEF LinesInv, KnownInv, DataInv, BaseInv, ProperFile, EditedTables, TablesInv
<1>2. RelsKept' <=> \A r \in AllRows(db'[t]) : Good(r)
    BY <1>1 DEF RelsKept, InFile, AllRows, RelRight
<1>3. \A r \in AllRows(db[t]) : Good(r)
    BY DEF RelsKept
<1> HIDE DEF Good
<1>4. CASE DeadStep \/ AgainStep
  <2>1. Renewed(db[t], db'[t])
    BY <1>1, <1>4 DEF DeadStep, AgainStep
  <2> QED
    BY <1>2, <1>3, <2>1 DEF Renewed, AllRows
<1>5. CASE DeleteStep /\ (\/ db'[t] = db[t]
                          \/ Stored(db[t], db'[t], {r \in db[t].live : r.id # file[pos].id}))
  <2>1. Running
    BY <1>5 DEF DeleteStep, Running
  <2>2. AllRows(db'[t]) \subseteq AllRows(db[t])
    BY <1>1, <1>5, <2>1 DEF Stored, Saves, AllRows
  <2> QED
    BY <1>2, <1>3, <2>2
<1>6. CASE SendStep /\ Present(t)' = Present(t) \cup WrittenRows(t, file[pos])
           /\ db'[t].saved = db[t].saved /\ db'[t].live = db[t].live
  <2>1. AllRows(db'[t]) \subseteq AllRows(db[t]) \cup WrittenRows(t, file[pos])
    BY <1>6 DEF AllRows, Present
  <2>2. \A r \in WrittenRows(t, file[pos]) : InFile("relation", r.id)
    BY <1>1, <1>6, WrittenShape DEF SendStep, InFile, Has
  <2> QED
    BY <1>2, <1>3, <2>1, <2>2 DEF Good
<1>7. ASSUME NEW id, UpdateStep(t, id) PROVE \A r \in AllRows(db'[t]) : Good(r)
  <2>1. /\ pc = "rels"
        /\ Stored(db[t], db'[t], {IF r.id = id THEN Updated(t, r) ELSE r : r \in db[t].live})
    BY <1>7 DEF UpdateStep
  <2>2. db'[t].saved = db[t].saved /\ db'[t].lines = db[t].lines
    BY <1>1, <2>1 DEF Stored, Saves, Running
  <2> SUFFICES ASSUME NEW r \in AllRows(db'[t]) PROVE Good(r)
    OBVIOUS
  <2>3. CASE r \in AllRows(db[t])
    BY <1>3, <2>3
  <2>4. CASE r \notin AllRows(db[t])
    <3>1. PICK s \in db[t].live : r = IF s.id = id THEN Updated(t, s) ELSE s
      BY <2>1, <2>2, <2>4 DEF Stored, AllRows
    <3>2. r = Updated(t, s) /\ s \in AllRows(db[t])
      BY <2>4, <3>1 DEF AllRows
    <3>3. Shaped(t, s) /\ r.id = s.id
      BY <1>1, <3>2, UpdatedShape DEF ShapeInv
    <3>4. ~InFile("relation", r.id) => s.id \in DOMAIN New.rel
      BY <1>1, <3>2, <3>3, OtherRowIsOfRelation
    <3> QED
      BY <2>1, <3>2, <3>3, <3>4, UpdatedRelation DEF Good
  <2> QED
    BY <2>3, <2>4
<1>8. CASE /\ Present(t)' = Present(t)
           /\ db'[t].live \in {db[t].live, Present(t)}
           /\ db'[t].saved \in {db[t].saved, Present(t)}
    BY <1>2, <1>3, <1>8 DEF AllRows, Present
<1> QED
    BY <1>1, <1>2, <1>4, <1>5, <1>6, <1>7, <1>8, EditedMoves

LEMMA InitRelsKept == Init => RelsKept
<1> SUFFICES ASSUME Init, NEW r \in AllRows(db["relations"])
             PROVE  /\ r.points = Points(old, old.rel[r.id].mems)
                    /\ r.lines = Lines(old, old.rel[r.id].mems)
    BY DEF RelsKept
<1>1. InputInv /\ "relations" \in EditedTables
    BY InitBase DEF BaseInv, EditedTables
<1>2. r \in Imported(old, PolygonTable)["relations"]
    BY <1>1, InitRows, EditedTablesFacts DEF AllRows
<1>3. r = RelationRow(r.id, Points(old, old.rel[r.id].mems), Lines(old, old.rel[r.id].mems), 0)
    BY <1>1, <1>2, ImportedEdited
<1> QED
    BY <1>3 DEF RelationRow
-----------------------------------------------------------------------------
(* The relations that are reached.                                          *)

\* The relations that have to follow and are not the one that is left out are
\* right as soon as they had their turn.
ReachedRelsInv ==
    \A r \in Present("relations") : r.id \in RelFollowers =>
        /\ pc = "rels" => r.id \in todo \/ RelRight(r)
        /\ pc \in {"incomplete", "close", "done"} => RelRight(r)

\* The actions during which the relations have their turns.
LEMMA IntoRels ==
    ASSUME [Next]_vars, pc' = "rels"
    PROVE  UNCHANGED vars \/ AfterRelations \/ \E rel \in Rels : UpdateRelation(rel)
<1>1. /\ ~StartPass2 /\ ~Node2 /\ ~Node2Throws /\ ~WriteNewNodesThrows
      /\ ~Way2Throws /\ ~WriteNewNodes /\ ~WriteNewWays
    BY DEF StartPass2, Node2, Pass2, Node2Throws, WriteNewNodesThrows,
        Way2Throws, WriteNewNodes, WriteNewWays, Die
<1>2. ~Way2Deleted /\ ~Way2 /\ ~FlushAreas /\ ~StartRelations /\ ~Relation2Deleted /\ ~Relation2
    BY DEF Way2Deleted, Way2, FlushAreas, StartRelations, Relation2Deleted, Relation2, Pass2
<1>3. \A w \in Ways : ~UpdateWay(w) /\ ~UpdateWayThrows(w)
    BY DEF UpdateWay, UpdateWayThrows, Die
<1>4. \A rel \in Rels : ~UpdateRelationThrows(rel)
    BY DEF UpdateRelationThrows, Die
<1>5. ~FlushUpdated /\ ~IncompleteRelations
    BY DEF FlushUpdated, IncompleteRelations
<1>6. \A t \in Tables : ~CloseTable(t) /\ ~CloseThrows(t)
    BY DEF CloseTable, CloseThrows, Closing, Die
<1>7. ~Crash /\ ~Restart
    BY DEF Crash, Die, Restart
<1>8. ~Node1 /\ ~Way1 /\ ~Relation1
    BY DEF Node1, Way1, Relation1, Pass1, Pass1Frame
<1> QED
    BY <1>1, <1>2, <1>3, <1>4, <1>5, <1>6, <1>7, <1>8
    DEF Next, Step, Pass1Step, Pass2Step, AfterStep

LEMMA OutOfRels ==
    ASSUME [Next]_vars, pc = "rels", pc' \in {"incomplete", "close", "done"}
    PROVE  FlushUpdated
<1>1. /\ ~StartPass2 /\ ~Node2 /\ ~Node2Throws /\ ~WriteNewNodesThrows
      /\ ~Way2Throws /\ ~WriteNewNodes /\ ~WriteNewWays
    BY DEF StartPass2, Node2, Pass2, Node2Throws, WriteNewNodesThrows,
        Way2Throws, WriteNewNodes, WriteNewWays, Die
<1>2. ~Way2Deleted /\ ~Way2 /\ ~FlushAreas /\ ~StartRelations /\ ~Relation2Deleted /\ ~Relation2
    BY DEF Way2Deleted, Way2, FlushAreas, StartRelations, Relation2Deleted, Relation2, Pass2
<1>3. \A w \in Ways : ~UpdateWay(w) /\ ~UpdateWayThrows(w)
    BY DEF UpdateWay, UpdateWayThrows, Die
<1>4. \A rel \in Rels : ~UpdateRelation(rel) /\ ~UpdateRelationThrows(rel)
    BY DEF UpdateRelation, UpdateRelationThrows, Die
<1>5. ~AfterRelations /\ ~IncompleteRelations
    BY DEF AfterRelations, IncompleteRelations
<1>6. \A t \in Tables : ~CloseTable(t) /\ ~CloseThrows(t)
    BY DEF CloseTable, CloseThrows, Closing, Die
<1>7. ~Crash /\ ~Restart /\ ~UNCHANGED vars
    BY DEF Crash, Die, Restart, vars
<1>8. ~Node1 /\ ~Way1 /\ ~Relation1
    BY DEF Node1, Way1, Relation1, Pass1, Pass1Frame
<1> QED
    BY <1>1, <1>2, <1>3, <1>4, <1>5, <1>6, <1>7, <1>8
    DEF Next, Step, Pass1Step, Pass2Step, AfterStep

\* update_relation() of one relation after the other.
LEMMA RelTurnStep ==
    ASSUME LinesInv, ShapeInv, ProperFile, Healthy, WaysAreClosed, ReachedRelsInv,
           NEW rel, UpdateRelation(rel), NEW r \in Present("relations")', r.id \in RelFollowers
    PROVE  r.id \in todo' \/ RelRight(r)
<1> DEFINE t == "relations"
<1>1. /\ BaseInv /\ pc = "rels" /\ todo' = todo \ {rel} /\ t \in Tables /\ t \in RowTables
      /\ t \in EditedTables
      /\ DOMAIN db = Tables /\ IsTable(db[t])
    BY RowTablesFacts, EditedTablesFacts
    DEF LinesInv, KnownInv, DataInv, UpdateRelation, BaseInv, TablesInv, Tables, EditedTables
<1>2. db[t].copy = FALSE
    BY <1>1 DEF BaseInv, TablesInv, IsTable, MayCopy, MemberTables
<1>3. db[t].lines = {}
    BY <1>1, <1>2 DEF BaseInv, RowsInv, Tidy
<1> DEFINE new(s) == [s EXCEPT !.points = NodePoints(MembersOf("node", rel)),
                               !.lines = StoredLines(rel)]
           rows == {IF s.id = rel THEN new(s) ELSE s : s \in db[t].live}
<1>4. db'[t] = Store(db[t], rows)
    BY <1>1 DEF UpdateRelation, update
<1> HIDE DEF rows
<1>5. db'[t].live = rows /\ db'[t].lines = {}
  <2>1. Store(db[t], rows).live = rows
    BY <1>1, StoreFields
  <2>2. Store(db[t], rows).lines = db[t].lines
    BY <1>1, StoreFields
  <2> QED
    BY <1>3, <1>4, <2>1, <2>2
<1>6. PICK s \in db[t].live : r = IF s.id = rel THEN new(s) ELSE s
    BY <1>5 DEF Present, rows
<1>7. Shaped(t, s) /\ s \in Present(t)
    BY <1>1 DEF ShapeInv, AllRows, Present
<1>8. CASE s.id = rel
  <2>1. r = Updated(t, s)
    BY <1>6, <1>8 DEF Updated
  <2>2. r.id = s.id
    BY <1>7, <2>1, UpdatedShape
  <2>3. s.id \in DOMAIN New.rel
    BY <2>2 DEF RelFollowers, AffectedRels
  <2> QED
    BY <1>1, <1>7, <2>1, <2>3, UpdatedRelation
<1>9. CASE s.id # rel
  <2>1. r = s
    BY <1>6, <1>9
  <2> QED
    BY <1>1, <1>7, <1>9, <2>1 DEF ReachedRelsInv
<1> QED
    BY <1>8, <1>9

LEMMA ReachedRelsStep ==
    ASSUME LinesInv, ShapeInv, CollectRelsInv, ProperFile, Healthy, WaysAreClosed,
           ReachedRelsInv, [Next]_vars
    PROVE  ReachedRelsInv'
<1> DEFINE t == "relations"
<1>1. /\ DataInv /\ BaseInv /\ RowStep /\ UNCHANGED <<RelFollowers, New, file>>
      /\ t \in EditedTables
    BY BaseStep, SameRels
    DEF LinesInv, KnownInv, DataInv, EditedTables, RelFollowers, First
<1> SUFFICES ASSUME NEW r \in Present(t)', r.id \in RelFollowers
             PROVE  /\ pc' = "rels" => r.id \in todo' \/ RelRight(r)
                    /\ pc' \in {"incomplete", "close", "done"} => RelRight(r)
    BY <1>1 DEF ReachedRelsInv, RelRight
<1>2. \A s \in Present(t) : s.id \in RelFollowers =>
        /\ pc = "rels" => s.id \in todo \/ RelRight(s)
        /\ pc \in {"incomplete", "close", "done"} => RelRight(s)
    BY DEF ReachedRelsInv
<1>3. ASSUME pc' = "rels" PROVE r.id \in todo' \/ RelRight(r)
  <2>1. CASE UNCHANGED vars
    BY <1>2, <1>3, <2>1 DEF vars, Present
  <2>2. CASE AfterRelations
    BY <1>1, <2>2, RelsHaveTurns
  <2>3. ASSUME NEW rel, UpdateRelation(rel) PROVE r.id \in todo' \/ RelRight(r)
    BY <2>3, RelTurnStep
  <2> QED
    BY <1>3, <2>1, <2>2, <2>3, IntoRels
<1>4. ASSUME pc' \in {"incomplete", "close", "done"} PROVE RelRight(r)
  <2>1. CASE pc = "rels"
    <3>1. FlushUpdated
      BY <1>4, <2>1, OutOfRels
    <3>2. todo = {} /\ db'[t] = db[t]
      BY <3>1 DEF FlushUpdated
    <3> QED
      BY <1>2, <2>1, <3>2 DEF Present
  <2>2. CASE pc # "rels"
    <3>1. ~DeadStep /\ ~AgainStep /\ ~DeleteStep /\ ~SendStep /\ ~SwitchStep
      BY <1>4 DEF DeadStep, AgainStep, DeleteStep, SendStep, SwitchStep
    <3>2. pc \in {"incomplete", "close", "done"}
      <4>1. PhaseStep => pc \in {"incomplete", "close", "done"}
        BY <1>4, <2>2 DEF PhaseStep, PhaseChange
      <4>2. \A u \in Tables : CloseStep(u) => pc \in {"incomplete", "close", "done"}
        BY DEF CloseStep, Closing
      <4>3. IdleStep => pc \in {"incomplete", "close", "done"}
        BY <1>4 DEF IdleStep
      <4> QED
        BY <1>1, <3>1, <4>1, <4>2, <4>3 DEF RowStep
    <3>3. ~(\E id \in todo : UpdateStep(t, id))
      BY <2>2 DEF UpdateStep
    <3>4. Present(t)' = Present(t)
      BY <1>1, <3>1, <3>3, EditedMoves
    <3> QED
      BY <1>2, <3>2, <3>4
  <2> QED
    BY <2>1, <2>2
<1> QED
    BY <1>3, <1>4

LEMMA InitReachedRels == Init => ReachedRelsInv
BY DEF Init, ReachedRelsInv
-----------------------------------------------------------------------------
(* The relations after the diff.                                            *)

\* The collection of a relation none of whose members is written or moved
\* does not change.
LEMMA UnmovedRelation ==
    ASSUME InputInv, OneVersionEach, Healthy, NEW rel \in OtherRels,
           MemsOf(rel, "node") \cap Written("node") = {},
           MemsOf(rel, "way") \cap (Written("way") \cup AffectedWays) = {}
    PROVE  /\ old.rel[rel].mems = New.rel[rel].mems
           /\ Points(old, New.rel[rel].mems) = Points(New, New.rel[rel].mems)
           /\ Lines(old, New.rel[rel].mems) = Lines(New, New.rel[rel].mems)
<1> DEFINE mems == New.rel[rel].mems
           nodesAt == MembersAt(mems, "node")
           waysAt == MembersAt(mems, "way")
<1>1. old.rel[rel].mems = mems
    BY NewRels DEF OtherRels
<1>2. ASSUME NEW i \in nodesAt PROVE LocIn(old, mems[i].ref) = LocIn(New, mems[i].ref)
  <2>1. mems[i].ref \in DOMAIN New.node
    BY ClosedMembers DEF OtherRels, Healthy
  <2>2. mems[i].ref \notin Written("node")
    BY DEF MemsOf
  <2> QED
    BY <2>1, <2>2, UnmovedNode
<1>3. ASSUME NEW i \in waysAt PROVE WayLine(old, mems[i].ref) = WayLine(New, mems[i].ref)
  <2> DEFINE w == mems[i].ref
  <2>1. w \in DOMAIN New.way
    BY DEF OtherRels, Healthy, Closed, HasMember, MembersAt
  <2>2. w \notin Written("way") /\ w \notin AffectedWays
    BY DEF MemsOf
  <2> HIDE DEF w
  <2>3. ~InFile("way", w)
    <3> SUFFICES ASSUME NEW k \in DOMAIN file, file[k].kind = "way", file[k].id = w
                 PROVE  FALSE
      BY DEF InFile, Has
    <3>1. ~file[k].deleted
      BY <2>1, NewWays
    <3> QED
      BY <2>2, <3>1 DEF Written, WrittenBy
  <2>4. WayLine(old, w) = WayLine(New, w)
    BY <2>1, <2>2, <2>3, UnmovedWay
  <2> QED
    BY <2>4 DEF w
<1>4. /\ Points(old, mems) = {<<i, LocIn(old, mems[i].ref)>> : i \in nodesAt}
      /\ Points(New, mems) = {<<i, LocIn(New, mems[i].ref)>> : i \in nodesAt}
      /\ Lines(old, mems) = {<<i, WayLine(old, mems[i].ref)>> : i \in waysAt}
      /\ Lines(New, mems) = {<<i, WayLine(New, mems[i].ref)>> : i \in waysAt}
    BY DEF Points, Lines
<1> HIDE DEF nodesAt, waysAt, mems
<1>5. Points(old, mems) = Points(New, mems)
    BY <1>2, <1>4
<1>6. Lines(old, mems) = Lines(New, mems)
    BY <1>3, <1>4
<1> QED
    BY <1>1, <1>5, <1>6 DEF mems

\* The inductive invariant of the relations.
RelationsInv ==
    /\ FollowInv /\ CollectRelsInv /\ OthersInv("relations") /\ ReadInv("relations")
    /\ ProperFile /\ Healthy /\ WaysAreClosed => RelsKept /\ ReachedRelsInv

LEMMA RelationsInvariant == Spec => []RelationsInv
<1>1. RelationsInv /\ FollowInv' /\ [Next]_vars => RelationsInv'
  <2> SUFFICES ASSUME RelationsInv, FollowInv', [Next]_vars PROVE RelationsInv'
    OBVIOUS
  <2>1. /\ LinesInv /\ DataInv /\ BaseInv /\ ShapeInv /\ FiniteInv /\ CollectInv /\ RowStep
        /\ "relations" \in EditedTables
    BY BaseStep
    DEF RelationsInv, FollowInv, RowsRightInv, LinesInv, KnownInv, DataInv, EditedTables
  <2>2. CollectRelsInv'
    BY <2>1, CollectRelsStep DEF RelationsInv
  <2>3. OthersInv("relations")' /\ ReadInv("relations")'
    BY <2>1, OthersStep, ReadStep DEF RelationsInv
  <2>4. ProperFile /\ Healthy /\ WaysAreClosed => RelsKept' /\ ReachedRelsInv'
    BY <2>1, RelsKeptStep, ReachedRelsStep DEF RelationsInv
  <2>5. (ProperFile' <=> ProperFile) /\ (Healthy' <=> Healthy)
        /\ (WaysAreClosed' <=> WaysAreClosed)
    BY <2>1, SameRels DEF WaysAreClosed
  <2> QED
    BY <2>2, <2>3, <2>4, <2>5 DEF RelationsInv
<1>2. Init /\ FollowInv => RelationsInv
  <2>1. "relations" \in EditedTables
    BY DEF EditedTables
  <2> QED
    BY <2>1, InitCollectRels, InitOthers, InitRead, InitRelsKept, InitReachedRels
    DEF RelationsInv
<1> QED
    BY <1>1, <1>2, FollowInvariant, PTL DEF Spec

\* When a run has come to its end, the table of relations has a row for exactly
\* the relations of the data after the diff, and the collections of those the
\* file does not contain follow their members, but for the smallest one and those
\* with a way whose line has not followed its nodes (DiffHandler2::node(), way(),
\* update_way() and update_relation(), PendingContainer).  In a file with ways
\* there is a relation, and the import has left out no relation.
THEOREM RelationsFollow ==
    Spec => [](ProperFile /\ Healthy /\ WaysAreClosed /\ ImportedRels(old) = DOMAIN old.rel
                => RelationsFollowMembers)
<1> DEFINE t == "relations"
<1>1. RelationsInv =>
        (ProperFile /\ Healthy /\ WaysAreClosed /\ ImportedRels(old) = DOMAIN old.rel
            => RelationsFollowMembers)
  <2> SUFFICES ASSUME RelationsInv, ProperFile, Healthy, WaysAreClosed,
                      ImportedRels(old) = DOMAIN old.rel, pc = "done"
               PROVE  /\ {r.id : r \in db[t].saved} = DOMAIN New.rel
                      /\ \A rel \in StaleRels \ Written("relation") :
                            \/ rel \in First(AffectedRels)
                            \/ MemsOf(rel, "way") \cap (AffectedWays \ Reached) # {}
    BY DEF RelationsFollowMembers
  <2>1. /\ RowsRightInv /\ BaseInv /\ InputInv /\ EndInv /\ OneVersionEach /\ ShapeInv
        /\ t \in EditedTables /\ KindOf(t) = "relation" /\ InPass2
        /\ EditedInv(t) /\ OthersInv(t) /\ ReadInv(t) /\ RelsKept /\ ReachedRelsInv
    BY EditedTablesFacts
    DEF RelationsInv, FollowInv, RowsRightInv, LinesInv, KnownInv, DataInv, BaseInv, ProperFile,
        EditedTables, SoundFor, Healthy, InPass2
  <2>2. Present(t) = db[t].saved
    BY <2>1, EditedDone DEF Present
  <2>3. \A rel : HasRow(Imported(old, PolygonTable)[t], rel) <=> rel \in DOMAIN old.rel
    <3> DEFINE Row(rel) == RelationRow(rel, Points(old, old.rel[rel].mems),
                                       Lines(old, old.rel[rel].mems), 0)
    <3>1. Imported(old, PolygonTable)[t] = {Row(rel) : rel \in DOMAIN old.rel}
      BY DEF Imported, Tables, MemberTables
    <3>2. \A rel : Row(rel).id = rel
      BY DEF RelationRow
    <3> HIDE DEF Row
    <3> QED
      BY <3>1, <3>2 DEF HasRow
  <2>4. ASSUME NEW r \in db[t].saved PROVE r.id \in DOMAIN New.rel
    <3>1. CASE InFile("relation", r.id)
      <4>1. PICK k \in DOMAIN file : file[k].kind = "relation" /\ file[k].id = r.id
        BY <3>1 DEF InFile, Has
      <4>2. Matches(t, r, k)
        BY <2>1, <4>1, EditedTablesFacts DEF Matches
      <4>3. RightRow(t, r, file[k])
        BY <2>1, <2>2, <4>2 DEF EditedInv
      <4> QED
        BY <2>1, <4>1, <4>3, NewRels DEF RightRow
    <3>2. CASE ~InFile("relation", r.id)
      BY <2>1, <3>2, OtherRowIsOfRelation DEF AllRows
    <3> QED
      BY <3>1, <3>2
  <2>5. ASSUME NEW rel \in DOMAIN New.rel PROVE \E r \in db[t].saved : r.id = rel
    <3>1. CASE InFile("relation", rel)
      <4>1. PICK k \in DOMAIN file : file[k].kind = "relation" /\ file[k].id = rel
        BY <3>1 DEF InFile, Has
      <4>2. Gives(t, file[k])
        BY <2>1, <4>1, NewRels DEF Gives
      <4>3. k < pos
        BY <2>1, FileFacts DEF BaseInv, ControlInv
      <4>4. HasRow(Present(t), rel)
        BY <2>1, <4>1, <4>2, <4>3 DEF ReadInv
      <4> QED
        BY <2>2, <4>4 DEF HasRow
    <3>2. CASE ~InFile("relation", rel)
      <4>1. rel \in DOMAIN old.rel
        BY <2>1, <3>2, NewRels
      <4>2. PICK r \in Imported(old, PolygonTable)[t] : r.id = rel
        BY <2>3, <4>1 DEF HasRow
      <4>3. HasRow(db[t].saved, r.id)
        BY <2>1, <3>2, <4>2 DEF OthersInv
      <4> QED
        BY <4>2, <4>3 DEF HasRow
    <3> QED
      BY <3>1, <3>2
  <2>6. ASSUME NEW rel \in StaleRels \ Written("relation"), rel \notin First(AffectedRels),
               MemsOf(rel, "way") \cap (AffectedWays \ Reached) = {}
        PROVE  FALSE
    <3>1. PICK r \in db[t].saved : [r EXCEPT !.run = 0] \notin ExpectedRels
                                   /\ [r EXCEPT !.run = 0].id = rel
      BY DEF StaleRels, Strip
    <3>2. r = RelationRow(r.id, r.points, r.lines, r.run)
      BY <2>1 DEF ShapeInv, AllRows, Shaped
    <3>3. [r EXCEPT !.run = 0] = RelationRow(r.id, r.points, r.lines, 0) /\ r.id = rel
      BY <3>1, <3>2 DEF RelationRow
    <3>4. rel \in DOMAIN New.rel
      BY <2>4, <3>3
    <3>5. ~RelRight(r)
      BY <3>1, <3>3, <3>4 DEF RelRight, ExpectedRels
    <3>6. ~InFile("relation", rel)
      <4> SUFFICES ASSUME NEW k \in DOMAIN file, file[k].kind = "relation", file[k].id = rel
                   PROVE  FALSE
        BY DEF InFile, Has
      <4>1. ~file[k].deleted
        BY <2>1, <3>4, NewRels
      <4> QED
        BY <4>1 DEF Written, WrittenBy
    <3>7. /\ r.points = Points(old, old.rel[rel].mems)
          /\ r.lines = Lines(old, old.rel[rel].mems)
      BY <2>1, <3>3, <3>5, <3>6 DEF RelsKept, AllRows
    <3>8. CASE rel \in AffectedRels
      BY <2>1, <2>2, <2>6, <3>3, <3>5, <3>8 DEF ReachedRelsInv, RelFollowers
    <3>9. CASE rel \notin AffectedRels
      <4>1. /\ MemsOf(rel, "node") \cap Written("node") = {}
            /\ MemsOf(rel, "way") \cap (Written("way") \cup Reached) = {}
        BY <3>4, <3>6, <3>9 DEF AffectedRels
      <4>2. MemsOf(rel, "way") \cap (Written("way") \cup AffectedWays) = {}
        BY <2>6, <4>1
      <4>3. rel \in OtherRels
        BY <3>4, <3>6 DEF OtherRels
      <4>4. /\ old.rel[rel].mems = New.rel[rel].mems
            /\ Points(old, New.rel[rel].mems) = Points(New, New.rel[rel].mems)
            /\ Lines(old, New.rel[rel].mems) = Lines(New, New.rel[rel].mems)
        BY <2>1, <4>1, <4>2, <4>3, UnmovedRelation
      <4> QED
        BY <3>3, <3>5, <3>7, <4>4 DEF RelRight
    <3> QED
      BY <3>8, <3>9
  <2> QED
    BY <2>4, <2>5, <2>6
<1> QED
    BY <1>1, RelationsInvariant, PTL
=============================================================================
