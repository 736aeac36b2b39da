------------------------ MODULE DiffDuplicatesProofs ------------------------
(***************************************************************************)
(* What is true of the rows and the containers whatever the file is: their *)
(* types.  What a run does more than once, and what it does not: rows that *)
(* are duplicated, objects that are updated.                               *)
(***************************************************************************)
EXTENDS DiffFollowProofs
-----------------------------------------------------------------------------
(* Types.                                                                   *)

IdsOf(kind) == IF kind = "node" THEN Nodes ELSE IF kind = "way" THEN Ways ELSE Rels
RowTypes ==
    /\ \A t \in {"point", "untagged"} : AllRows(db[t]) \subseteq Point
    /\ \A t \in TopologyTables : \A r \in AllRows(db[t]) : IdIn(t, r) \in IdsOf(KindOf(t))
ListTypes ==
    /\ pendWays \in Seq(Ways \cup {0}) /\ waysIdx \in Nat \ {0}
    /\ pendRels \in Seq(Rels \cup {0}) /\ relsIdx \in Nat \ {0}
    /\ todo \subseteq Ways \cup Rels
    /\ pc = "ways" => todo \subseteq Ways
    /\ pc = "rels" => todo \subseteq Rels
AreaTypes ==
    /\ members \subseteq Ways
    /\ \A a \in mpBuffer : a.id \in Ways \cup {-rel : rel \in Rels}
    /\ \A a \in updated : a.id \in Rels
EndTypes ==
    /\ why \in {"-", "not in COPY mode", "missing location", "single point", "empty line",
                "no polygon table", "lost COPY", "killed"}
    /\ pos <= Len(file) + 10
TypeInv == RowTypes /\ ListTypes /\ AreaTypes /\ EndTypes

\* Only writing an object brings a row that no table has had.
LEMMA AllRowsMoves ==
    ASSUME BaseInv, RowStep, NEW t \in PlainTables
    PROVE  \/ AllRows(db'[t]) \subseteq AllRows(db[t])
           \/ /\ SendStep
              /\ AllRows(db'[t]) \subseteq AllRows(db[t]) \cup PlainRows(t, file[pos], run)
<1>1. t \in RowTables
    BY RowTablesFacts
<1>2. CASE DeadStep \/ AgainStep
  <2>1. Renewed(db[t], db'[t])
    BY <1>1, <1>2 DEF DeadStep, AgainStep
  <2> QED
    BY <2>1 DEF Renewed, AllRows
<1>3. CASE SendStep /\ Present(t)' = Present(t) \cup PlainRows(t, file[pos], run)
    BY <1>3, SavedMoves DEF AllRows, Present
<1>4. CASE Present(t)' \subseteq Present(t)
    BY <1>4, SavedMoves DEF AllRows, Present
<1> QED
    BY <1>2, <1>3, <1>4, PresentMoves

LEMMA RowTypesStep ==
    ASSUME BaseInv, RowStep, RowTypes
    PROVE  RowTypes'
<1>1. InputInv /\ MaxRuns \in Nat
    BY MaxRunsAssumption DEF BaseInv
<1>2. ASSUME SendStep
      PROVE  /\ file[pos] \in Changes /\ run \in 0 .. MaxRuns
             /\ file[pos].id \in IdsOf(file[pos].kind)
             /\ file[pos].kind = "node" /\ ~file[pos].deleted => file[pos].loc \in Locs
  <2>1. file[pos] \in Changes
    BY <1>1, <1>2, FileFacts DEF SendStep
  <2>2. run \in 0 .. MaxRuns
    BY <1>1 DEF InputInv
  <2> DEFINE c == file[pos]
  <2>3. c \in Changes
    BY <2>1
  <2> HIDE DEF c
  <2>4. /\ c.id \in IdsOf(c.kind)
        /\ c.kind = "node" /\ ~c.deleted => c.loc \in Locs
    BY <2>3, ChangeFacts DEF IdsOf
  <2> QED
    BY <2>1, <2>2, <2>4 DEF c
<1>3. ASSUME NEW t \in {"point", "untagged"} PROVE AllRows(db'[t]) \subseteq Point
  <2>1. t \in PlainTables /\ AllRows(db[t]) \subseteq Point
    BY DEF RowTypes, PlainTables
  <2>2. ASSUME SendStep, NEW r \in PlainRows(t, file[pos], run) PROVE r \in Point
    <3>1. r = PointRow(file[pos].id, file[pos].loc, run) /\ file[pos].kind = "node"
          /\ ~file[pos].deleted
      BY <2>2 DEF PlainRows, TopologyTables, MemberTables
    <3>2. file[pos].id \in Nodes /\ file[pos].loc \in Locs /\ run \in 0 .. MaxRuns
      BY <1>2, <2>2, <3>1 DEF IdsOf
    <3> QED
      BY <3>1, <3>2 DEF PointRow, Point
  <2> QED
    BY <2>1, <2>2, AllRowsMoves
<1>4. ASSUME NEW t \in TopologyTables, NEW r \in AllRows(db'[t])
      PROVE  IdIn(t, r) \in IdsOf(KindOf(t))
  <2>1. t \in PlainTables /\ \A s \in AllRows(db[t]) : IdIn(t, s) \in IdsOf(KindOf(t))
    BY DEF RowTypes, PlainTables
  <2>2. ASSUME SendStep, r \in PlainRows(t, file[pos], run)
        PROVE  IdIn(t, r) \in IdsOf(KindOf(t))
    BY <1>2, <2>1, <2>2, PlainRowsOwner
  <2> QED
    BY <2>1, <2>2, AllRowsMoves
<1> QED
    BY <1>3, <1>4 DEF RowTypes, AllRows

LEMMA InitRowTypes == Init => RowTypes
<1> SUFFICES ASSUME Init PROVE RowTypes
    OBVIOUS
<1>1. InputInv /\ IsDataSet(old) /\ MaxRuns \in Nat
    BY InitBase, MaxRunsAssumption DEF BaseInv, InputInv
<1>2. \A t \in PlainTables : AllRows(db[t]) = Imported(old, PolygonTable)[t]
    BY InitRows, RowTablesFacts DEF AllRows
<1>3. ASSUME NEW t \in {"point", "untagged"}, NEW r \in Imported(old, PolygonTable)[t]
      PROVE  r \in Point
  <2>1. PICK n \in DOMAIN old.node : r = PointRow(n, old.node[n].loc, 0)
    BY ImportedNodes
  <2>2. n \in Nodes /\ old.node[n] \in [loc: Locs, tagged: BOOLEAN]
    BY <1>1 DEF IsDataSet
  <2>3. old.node[n].loc \in Locs /\ 0 \in 0 .. MaxRuns
    BY <1>1, <2>2
  <2> QED
    BY <2>1, <2>2, <2>3 DEF PointRow, Point
<1>4. ASSUME NEW t \in TopologyTables, NEW r \in Imported(old, PolygonTable)[t]
      PROVE  IdIn(t, r) \in IdsOf(KindOf(t))
  <2>1. IdIn(t, r) \in OldIds(KindOf(t))
    BY <1>1, ImportedOwner DEF PlainTables
  <2> QED
    BY <1>1, <2>1 DEF OldIds, IdsOf, IsDataSet, KindOf
<1> QED
    BY <1>2, <1>3, <1>4 DEF RowTypes, PlainTables
-----------------------------------------------------------------------------
(* The containers.                                                          *)

LEMMA ListIn ==
    ASSUME NEW S, NEW s
    PROVE  s \in Seq(S) <=> IsList(s) /\ Entries(s) \subseteq S
<1>1. ASSUME s \in Seq(S) PROVE IsList(s) /\ Entries(s) \subseteq S
  <2>1. Len(s) \in Nat /\ s \in [1 .. Len(s) -> S]
    BY <1>1
  <2> QED
    BY <2>1, ListOfFunction
<1>2. ASSUME IsList(s), Entries(s) \subseteq S PROVE s \in Seq(S)
  <2> DEFINE E == Entries(s)
  <2>1. s \in Seq(E) /\ E \subseteq S
    BY <1>2 DEF IsList
  <2> HIDE DEF E
  <2> QED
    BY <2>1
<1> QED
    BY <1>1, <1>2

LEMMA SortedUniqueList ==
    ASSUME NEW S, NEW s \in Seq(S), NEW t \in SortedUnique(s)
    PROVE  t \in Seq(S) /\ Entries(t) = Entries(s)
<1>1. IsList(s) /\ Entries(s) \subseteq S
    BY ListIn
<1>2. IsList(t) /\ Entries(t) = Entries(s)
    BY <1>1, SortedUniqueEntries
<1> QED
    BY <1>1, <1>2, ListIn

LEMMA SortedList ==
    ASSUME NEW S, NEW s \in Seq(S), NEW t \in Sorted(s)
    PROVE  t \in Seq(S)
<1>1. PICK p \in Rearrangement(s) : t = [i \in DOMAIN s |-> s[p[i]]]
    BY DEF Sorted
<1>2. p \in [DOMAIN s -> DOMAIN s]
    BY DEF Rearrangement
<1>3. t \in [1 .. Len(s) -> S]
    BY <1>1, <1>2
<1> QED
    BY <1>3

LEMMA CrossedOutList ==
    ASSUME NEW S, 0 \in S, NEW s \in Seq(S), NEW idx, NEW id
    PROVE  CrossOut(s, idx, id) \in Seq(S)
<1>1. CrossOut(s, idx, id) \in [1 .. Len(s) -> S]
    BY DEF CrossOut
<1> QED
    BY <1>1

LEMMA NextIdxType ==
    ASSUME NEW S, NEW s \in Seq(S), NEW idx \in Nat \ {0}, NEW id
    PROVE  NextIdx(s, idx, id) \in Nat \ {0}
<1>1. CASE Hits(s, idx, id) = {}
    BY <1>1 DEF NextIdx
<1>2. CASE Hits(s, idx, id) # {}
  <2>1. NextIdx(s, idx, id) \in Hits(s, idx, id)
    BY <1>2 DEF NextIdx
  <2> QED
    BY <2>1 DEF Hits
<1> QED
    BY <1>1, <1>2

LEMMA WorkIdsAreOpen ==
    ASSUME NEW S \in SUBSET Nat, NEW s \in Seq(S \cup {0})
    PROVE  WorkIds(s) \subseteq S \ {0} /\ WorkIds(s) \subseteq Entries(s)
BY DEF WorkIds, Entries

LEMMA PushedWaysType ==
    ASSUME RowTypes, FiniteInv, NEW list \in Seq(Ways \cup {0}), NEW n
    PROVE  PushWays(list, n) \in Seq(Ways \cup {0})
<1> DEFINE t == "node_ways"
<1>1. t \in TopologyTables /\ KindOf(t) = "way" /\ \A r : IdIn(t, r) = r.way
    BY DEF TopologyTables, KindOf, IdIn
<1>2. \A r \in db[t].live : r.way \in Ways
    BY <1>1 DEF RowTypes, AllRows, IdsOf
<1>3. IsFiniteSet(db[t].live)
  <2>1. IsFiniteSet(AllRows(db[t])) /\ db[t].live \subseteq AllRows(db[t])
    BY <1>1 DEF FiniteInv, AllRows
  <2> QED
    BY <2>1, FS_Subset
<1>4. IsList(list) /\ Entries(list) \subseteq Ways \cup {0}
    BY ListIn
<1>5. /\ IsList(PushWays(list, n))
      /\ Entries(PushWays(list, n)) = Entries(list) \cup {r.way : r \in {r \in db[t].live : r.node = n}}
    BY <1>3, <1>4, PushedWays DEF Live
<1> QED
    BY <1>2, <1>4, <1>5, ListIn

LEMMA PushedRelsType ==
    ASSUME RowTypes, FiniteInv, NEW kind \in Tellers, NEW list \in Seq(Rels \cup {0}), NEW m
    PROVE  PushRels(list, kind, m) \in Seq(Rels \cup {0})
<1> DEFINE t == TableOf(kind)
<1>1. t \in TopologyTables /\ KindOf(t) = "relation" /\ \A r : IdIn(t, r) = r.rel
  <2>1. t \in MemberTables
    BY TableOfFacts DEF Tellers, Kinds
  <2> QED
    BY <2>1 DEF TopologyTables, KindOf, IdIn, MemberTables
<1>2. \A r \in db[t].live : r.rel \in Rels
    BY <1>1 DEF RowTypes, AllRows, IdsOf
<1>3. IsFiniteSet(db[t].live)
  <2>1. IsFiniteSet(AllRows(db[t])) /\ db[t].live \subseteq AllRows(db[t])
    BY <1>1 DEF FiniteInv, AllRows
  <2> QED
    BY <2>1, FS_Subset
<1>4. IsList(list) /\ Entries(list) \subseteq Rels \cup {0}
    BY ListIn
<1>5. /\ IsList(PushRels(list, kind, m))
      /\ Entries(PushRels(list, kind, m)) =
            Entries(list) \cup {r.rel : r \in {r \in db[t].live : r.member = m}}
    BY <1>3, <1>4, PushedRels DEF Live
<1> QED
    BY <1>2, <1>4, <1>5, ListIn

\* The steps that change the containers.
LEMMA PendingMoves ==
    ASSUME [Next]_vars
    PROVE  \/ UNCHANGED <<pending, todo>> /\ (pc' = pc \/ pc' \notin {"ways", "rels"})
           \/ Node2 \/ WriteNewNodes \/ Way2 \/ WriteNewWays \/ StartRelations \/ Relation2
           \/ AfterRelations \/ Restart
           \/ \E w \in Ways : UpdateWay(w)
           \/ \E rel \in Rels : UpdateRelation(rel)
<1>1. CASE UNCHANGED vars
    BY <1>1 DEF vars, pending
<1>2. CASE Pass1Step
    BY <1>2 DEF Pass1Step, Node1, Way1, Relation1, StartPass2, Pass1Frame
<1>3. CASE Way2Deleted \/ FlushAreas \/ Relation2Deleted
           \/ Node2Throws \/ WriteNewNodesThrows \/ Way2Throws
    BY <1>3 DEF Way2Deleted, FlushAreas, Relation2Deleted, Node2Throws, WriteNewNodesThrows,
        Way2Throws, Die, pending
<1>4. CASE FlushUpdated \/ IncompleteRelations
    BY <1>4 DEF FlushUpdated, IncompleteRelations
<1>5. ASSUME \E w \in Ways : UpdateWayThrows(w) PROVE UNCHANGED <<pending, todo>> /\ pc' = "dead"
    BY <1>5 DEF UpdateWayThrows, Die
<1>6. ASSUME \E rel \in Rels : UpdateRelationThrows(rel)
      PROVE  UNCHANGED <<pending, todo>> /\ pc' = "dead"
    BY <1>6 DEF UpdateRelationThrows, Die
<1>7. ASSUME \E t \in Tables : CloseTable(t) \/ CloseThrows(t)
      PROVE  UNCHANGED <<pending, todo>> /\ (pc' = pc \/ pc' \in {"done", "dead"})
    BY <1>7 DEF CloseTable, CloseThrows, Die
<1>8. CASE Crash
    BY <1>8 DEF Crash, Die
<1> QED
    BY <1>1, <1>2, <1>3, <1>4, <1>5, <1>6, <1>7, <1>8
    DEF Next, Step, Pass2Step, AfterStep

LEMMA ListTypesStep ==
    ASSUME BaseInv, FiniteInv, RowTypes, ListTypes, [Next]_vars
    PROVE  ListTypes'
<1> DEFINE W == Ways \cup {0}
           R == Rels \cup {0}
<1>1. /\ Ways \in SUBSET Nat /\ Rels \in SUBSET Nat /\ 0 \notin Ways /\ 0 \notin Rels
      /\ 0 \in W /\ 0 \in R
    BY IdsAssumption
<1>2. /\ pendWays \in Seq(W) /\ waysIdx \in Nat \ {0}
      /\ pendRels \in Seq(R) /\ relsIdx \in Nat \ {0}
      /\ todo \subseteq Ways \cup Rels
    BY DEF ListTypes
<1> DEFINE Goal == /\ pendWays' \in Seq(W) /\ waysIdx' \in Nat \ {0}
                   /\ pendRels' \in Seq(R) /\ relsIdx' \in Nat \ {0}
                   /\ todo' \subseteq Ways \cup Rels
                   /\ pc' = "ways" => todo' \subseteq Ways
                   /\ pc' = "rels" => todo' \subseteq Rels
<1>3. "node" \in Tellers /\ "way" \in Tellers
    BY DEF Tellers
<1>4. ASSUME UNCHANGED <<pending, todo>> /\ (pc' = pc \/ pc' \notin {"ways", "rels"}) PROVE Goal
    BY <1>4, <1>2 DEF pending, ListTypes
<1>5. ASSUME Node2 PROVE Goal
  <2>1. pendWays' = pendWays \/ pendWays' = PushWays(pendWays, file[pos].id)
    BY <1>5 DEF Node2
  <2>2. pendRels' = pendRels \/ pendRels' = PushRels(pendRels, "node", file[pos].id)
    BY <1>5 DEF Node2
  <2>3. UNCHANGED <<pc, waysIdx, relsIdx, todo>> /\ pc = "pass2"
    BY <1>5 DEF Node2, Pass2
  <2>4. pendWays' \in Seq(W)
    BY <1>2, <2>1, PushedWaysType
  <2>5. pendRels' \in Seq(R)
    BY <1>2, <1>3, <2>2, PushedRelsType
  <2> QED
    BY <1>2, <2>3, <2>4, <2>5
<1>6. ASSUME WriteNewNodes PROVE Goal
  <2>1. pendWays' \in SortedUnique(pendWays) /\ UNCHANGED <<pc, waysIdx, pendRels, relsIdx, todo>>
        /\ pc = "pass2"
    BY <1>6 DEF WriteNewNodes
  <2>2. pendWays' \in Seq(W)
    BY <1>2, <2>1, SortedUniqueList
  <2> QED
    BY <1>2, <2>1, <2>2
<1>7. ASSUME Way2 PROVE Goal
  <2> DEFINE id == file[pos].id
  <2>1. /\ pc = "pass2" /\ pendRels' = PushRels(pendRels, "way", id)
        /\ pendWays' = CrossOut(pendWays, waysIdx, id) /\ waysIdx' = NextIdx(pendWays, waysIdx, id)
        /\ UNCHANGED <<pc, relsIdx, todo>>
    BY <1>7 DEF Way2, Pass2
  <2> HIDE DEF id, W, R
  <2>2. pendWays' \in Seq(W) /\ waysIdx' \in Nat \ {0}
    BY <1>1, <1>2, <2>1, CrossedOutList, NextIdxType
  <2>3. pendRels' \in Seq(R)
    BY <1>2, <1>3, <2>1, PushedRelsType DEF R
  <2> QED
    BY <1>2, <2>1, <2>2, <2>3
<1>8. ASSUME WriteNewWays PROVE Goal
  <2>1. /\ pc' = "ways" /\ pendWays' \in Sorted(pendWays) /\ todo' = WorkIds(pendWays)
        /\ UNCHANGED <<waysIdx, pendRels, relsIdx>>
    BY <1>8 DEF WriteNewWays
  <2>2. pendWays' \in Seq(W)
    BY <1>2, <2>1, SortedList
  <2>3. todo' \subseteq Ways
    BY <1>1, <1>2, <2>1, WorkIdsAreOpen
  <2> QED
    BY <1>2, <2>1, <2>2, <2>3
<1>9. ASSUME StartRelations PROVE Goal
  <2>1. /\ pc' = "pass2" /\ pendRels' \in SortedUnique(pendRels)
        /\ UNCHANGED <<pendWays, waysIdx, relsIdx, todo>>
    BY <1>9 DEF StartRelations
  <2>2. pendRels' \in Seq(R)
    BY <1>2, <2>1, SortedUniqueList
  <2> QED
    BY <1>2, <2>1, <2>2
<1>10. ASSUME Relation2 PROVE Goal
  <2> DEFINE id == file[pos].id
  <2>1. /\ pc = "pass2" /\ pendRels' = CrossOut(pendRels, relsIdx, id)
        /\ relsIdx' = NextIdx(pendRels, relsIdx, id) /\ UNCHANGED <<pc, pendWays, waysIdx, todo>>
    BY <1>10 DEF Relation2, Pass2
  <2> HIDE DEF id, W, R
  <2>2. pendRels' \in Seq(R) /\ relsIdx' \in Nat \ {0}
    BY <1>1, <1>2, <2>1, CrossedOutList, NextIdxType
  <2> QED
    BY <1>2, <2>1, <2>2
<1>11. ASSUME AfterRelations PROVE Goal
  <2>1. /\ pc' = "rels" /\ pendRels' \in Sorted(pendRels) /\ todo' = WorkIds(pendRels)
        /\ UNCHANGED <<pendWays, waysIdx, relsIdx>>
    BY <1>11 DEF AfterRelations
  <2>2. pendRels' \in Seq(R)
    BY <1>2, <2>1, SortedList
  <2>3. todo' \subseteq Rels
    BY <1>1, <1>2, <2>1, WorkIdsAreOpen
  <2> QED
    BY <1>2, <2>1, <2>2, <2>3
<1>12. ASSUME Restart PROVE Goal
  <2>1. /\ pc' = "pass1" /\ pendWays' = <<>> /\ waysIdx' = 1 /\ pendRels' = <<>> /\ relsIdx' = 1
        /\ todo' = {}
    BY <1>12 DEF Restart
  <2> QED
    BY <2>1
<1>13. ASSUME NEW w \in Ways, UpdateWay(w) PROVE Goal
  <2>1. /\ pc = "ways" /\ pendRels' = PushRels(pendRels, "way", w) /\ todo' = todo \ {w}
        /\ UNCHANGED <<pc, pendWays, waysIdx, relsIdx>>
    BY <1>13 DEF UpdateWay
  <2>2. pendRels' \in Seq(R)
    BY <1>2, <1>3, <2>1, PushedRelsType
  <2>3. todo' \subseteq Ways
    BY <2>1 DEF ListTypes
  <2> QED
    BY <1>2, <2>1, <2>2, <2>3
<1>14. ASSUME NEW rel \in Rels, UpdateRelation(rel) PROVE Goal
  <2>1. pc = "rels" /\ todo' = todo \ {rel} /\ UNCHANGED <<pc, pending>>
    BY <1>14 DEF UpdateRelation
  <2> QED
    BY <1>2, <2>1 DEF pending, ListTypes
<1>15. Goal
    BY <1>4, <1>5, <1>6, <1>7, <1>8, <1>9, <1>10, <1>11, <1>12, <1>13, <1>14, PendingMoves
<1> QED
    BY <1>15 DEF ListTypes
-----------------------------------------------------------------------------
(* The areas.                                                               *)

\* The steps that change what the MultipolygonManager and the handler hold.
LEMMA AreaMoves ==
    ASSUME [Next]_vars
    PROVE  \/ UNCHANGED areas
           \/ Way2Deleted \/ Way2 \/ FlushAreas \/ FlushUpdated \/ Restart
           \/ \E rel \in Rels : UpdateRelation(rel)
<1>1. CASE UNCHANGED vars
    BY <1>1 DEF vars, areas
<1>2. CASE Pass1Step
    BY <1>2 DEF Pass1Step, Node1, Way1, Relation1, StartPass2, Pass1Frame
<1>3. CASE Node2 \/ Node2Throws \/ WriteNewNodes \/ WriteNewNodesThrows \/ Way2Throws
    BY <1>3 DEF Node2, Node2Throws, WriteNewNodes, WriteNewNodesThrows, Way2Throws, Die
<1>4. CASE WriteNewWays \/ StartRelations \/ Relation2Deleted \/ Relation2
    BY <1>4 DEF WriteNewWays, StartRelations, Relation2Deleted, Relation2
<1>5. ASSUME \E w \in Ways : UpdateWay(w) \/ UpdateWayThrows(w) PROVE UNCHANGED areas
    BY <1>5 DEF UpdateWay, UpdateWayThrows, Die
<1>6. ASSUME \E rel \in Rels : UpdateRelationThrows(rel) PROVE UNCHANGED areas
    BY <1>6 DEF UpdateRelationThrows, Die
<1>7. ASSUME \E t \in Tables : CloseTable(t) \/ CloseThrows(t) PROVE UNCHANGED areas
    BY <1>7 DEF CloseTable, CloseThrows, Die
<1>8. CASE AfterRelations \/ IncompleteRelations \/ Crash
    BY <1>8 DEF AfterRelations, IncompleteRelations, Crash, Die
<1> QED
    BY <1>1, <1>2, <1>3, <1>4, <1>5, <1>6, <1>7, <1>8
    DEF Next, Step, Pass2Step, AfterStep

LEMMA AssembledId ==
    ASSUME NEW id, NEW parts, NEW a \in Assembled(id, parts)
    PROVE  a.id = id
BY DEF Assembled, AreaRow

\* The areas a way gives are its own and those of multipolygons of the file.
LEMMA NewAreaIds ==
    ASSUME InputInv, NEW c \in Changes, c.kind = "way", NEW given, NEW a \in NewAreas(c, given)
    PROVE  a.id \in Ways \cup {-rel : rel \in Rels}
<1> DEFINE ks == {k \in Multipolygons :
                    c.id \in MemberWays(k) /\ MemberWays(k) \subseteq given \cup {c.id}}
           Of(k) == Assembled(-file[k].id, {<<w, FileLine(w)>> : w \in MemberWays(k)})
           own == Assembled(c.id, {<<c.id, NewLine(c)>>})
<1>1. a \in own \/ \E k \in ks : a \in Of(k)
    BY DEF NewAreas
<1>2. c.id \in Ways
    BY ChangeFacts
<1>3. CASE a \in own
  <2>1. a.id = c.id
    BY <1>3, AssembledId
  <2> QED
    BY <1>2, <2>1
<1>4. ASSUME NEW k \in ks, a \in Of(k) PROVE a.id \in {-rel : rel \in Rels}
  <2>1. a.id = -file[k].id
    BY <1>4, AssembledId
  <2>2. k \in DOMAIN file /\ file[k].kind = "relation"
    BY DEF Multipolygons
  <2>3. file[k].id \in Rels
    BY <2>2, FileFacts, ChangeFacts
  <2> QED
    BY <2>1, <2>3
<1> QED
    BY <1>1, <1>3, <1>4

LEMMA AreaTypesStep ==
    ASSUME BaseInv, AreaTypes, [Next]_vars
    PROVE  AreaTypes'
<1>1. CASE UNCHANGED areas
    BY <1>1 DEF areas, AreaTypes
<1>2. CASE Way2Deleted \/ Way2
  <2> DEFINE c == file[pos]
  <2>1. Assemble(c) /\ c.kind = "way" /\ pos <= Len(file)
    BY <1>2 DEF Way2Deleted, Way2, Object
  <2>2. c \in Changes
    BY <2>1, FileFacts DEF BaseInv, ControlInv
  <2> HIDE DEF c
  <2>3. members' = members \cup {c.id} /\ updated' = updated
        /\ \A a \in mpBuffer' : a \in mpBuffer \/ a \in NewAreas(c, members)
    BY <2>1 DEF Assemble
  <2>4. c.id \in Ways
    BY <2>1, <2>2, ChangeFacts
  <2>5. \A a \in NewAreas(c, members) : a.id \in Ways \cup {-rel : rel \in Rels}
    BY <2>1, <2>2, NewAreaIds DEF BaseInv
  <2> QED
    BY <2>3, <2>4, <2>5 DEF AreaTypes
<1>3. CASE FlushAreas \/ FlushUpdated \/ Restart
  <2>1. /\ members' \in {members, {}} /\ mpBuffer' \in {mpBuffer, {}}
        /\ updated' \in {updated, {}}
    BY <1>3 DEF FlushAreas, FlushUpdated, Restart
  <2> QED
    BY <2>1 DEF AreaTypes
<1>4. ASSUME NEW rel \in Rels, UpdateRelation(rel) PROVE AreaTypes'
  <2>1. UNCHANGED <<members, mpBuffer>> /\ updated' \in {updated, updated \cup RebuiltArea(rel)}
    BY <1>4 DEF UpdateRelation
  <2>2. \A a \in RebuiltArea(rel) : a.id = rel
    BY AssembledId DEF RebuiltArea
  <2> QED
    BY <2>1, <2>2 DEF AreaTypes
<1> QED
    BY <1>1, <1>2, <1>3, <1>4, AreaMoves

LEMMA EndTypesStep ==
    ASSUME BaseInv, EndTypes, [Next]_vars
    PROVE  EndTypes'
<1>1. /\ RowStep /\ BaseInv' /\ Len(file) \in Nat /\ DOMAIN file = 1 .. Len(file)
    BY BaseStep, FileFacts DEF BaseInv
<1>2. file' = file
    BY <1>1, SameInput
<1>3. pos' <= Len(file) + 10
  <2>1. pc' # "dead" => pos' \in Nat /\ pos' <= Len(file) + 10
    BY <1>1, <1>2 DEF BaseInv, ControlInv, TablesInv, Running
  <2>2. CASE pc' = "dead"
    <3>1. ~DeleteStep /\ ~SwitchStep /\ ~SendStep /\ ~PhaseStep /\ ~AgainStep
          /\ \A t \in Tables : ~CloseStep(t)
      BY <2>2 DEF DeleteStep, SwitchStep, SendStep, PhaseStep, PhaseChange, AgainStep, CloseStep
    <3>2. pos' = pos
      BY <1>1, <3>1 DEF RowStep, DeadStep, IdleStep
    <3> QED
      BY <3>2 DEF EndTypes
  <2> QED
    BY <2>1, <2>2
<1>4. why' \in {"-", "not in COPY mode", "missing location", "single point", "empty line",
                "no polygon table", "lost COPY", "killed"}
  <2>1. /\ Node2Throws => why' = "not in COPY mode"
        /\ WriteNewNodesThrows => why' = "no polygon table"
    BY DEF Node2Throws, WriteNewNodesThrows, Die
  <2>2. Way2Throws => why' \in {"not in COPY mode", "missing location", "empty line"}
    BY DEF Way2Throws, Die
  <2>3. \A w : UpdateWayThrows(w) => why' \in {"missing location", "single point"}
    BY DEF UpdateWayThrows, Die
  <2>4. \A rel : UpdateRelationThrows(rel) => why' \in {"missing location", "single point"}
    BY DEF UpdateRelationThrows, Die
  <2>5. \A t : CloseThrows(t) => why' = "lost COPY"
    BY DEF CloseThrows, Die
  <2> QED
    BY <2>1, <2>2, <2>3, <2>4, <2>5, WhyMoves DEF EndTypes
<1> QED
    BY <1>2, <1>3, <1>4 DEF EndTypes

LEMMA TypeInvariant == Spec => []TypeInv
<1>1. Init /\ BaseInv => TypeInv
  <2> SUFFICES ASSUME Init, BaseInv PROVE TypeInv
    OBVIOUS
  <2>1. RowTypes
    BY InitRowTypes
  <2>2. ListTypes /\ AreaTypes
    BY DEF Init, ListTypes, AreaTypes
  <2>3. EndTypes
    BY FileFacts DEF Init, EndTypes, BaseInv
  <2> QED
    BY <2>1, <2>2, <2>3 DEF TypeInv
<1>2. TypeInv /\ RelationsInv /\ [Next]_vars => TypeInv'
  <2> SUFFICES ASSUME TypeInv, RelationsInv, [Next]_vars PROVE TypeInv'
    OBVIOUS
  <2>1. BaseInv /\ FiniteInv
    BY DEF RelationsInv, FollowInv, RowsRightInv, LinesInv, KnownInv, DataInv
  <2>2. RowStep
    BY <2>1, BaseStep
  <2> QED
    BY <2>1, <2>2, RowTypesStep, ListTypesStep, AreaTypesStep, EndTypesStep DEF TypeInv
<1>3. RelationsInv => BaseInv
    BY DEF RelationsInv, FollowInv, RowsRightInv, LinesInv, KnownInv, DataInv
<1> QED
    BY <1>1, <1>2, <1>3, RelationsInvariant, PTL DEF Spec

\* The variables have their types, whatever the file and the data are: what the
\* queries return, what std::sort and std::unique make of it, and what is written
\* into the tables of the nodes are ids and locations of the data.
THEOREM DiffTypeOK == Spec => []TypeOK
<1>1. TypeInv /\ RelationsInv => TypeOK
  <2> SUFFICES ASSUME TypeInv, RelationsInv PROVE TypeOK
    OBVIOUS
  <2>1. BaseInv /\ TablesInv /\ InputInv /\ ControlInv /\ StorageTypes
    BY DEF RelationsInv, FollowInv, RowsRightInv, LinesInv, KnownInv, DataInv, BaseInv, LocationsInv
  <2>2. pc \in {"pass1", "pass2", "ways", "rels", "incomplete", "close", "done", "dead"}
    BY <2>1 DEF TablesInv, Running
  <2>3. pos \in 1 .. Len(file) + Len(CloseOrder) + 1
    <3>1. Len(CloseOrder) = 9
      BY DEF CloseOrder
    <3>2. pos \in Nat \ {0} /\ Len(file) \in Nat /\ pos <= Len(file) + 10
      BY <2>1, FileFacts DEF TypeInv, EndTypes, ControlInv
    <3> QED
      BY <3>1, <3>2
  <2>4. ASSUME NEW t \in {"point", "untagged"} PROVE db[t] \in TableType(Point)
    <3>1. t \in Tables /\ IsTable(db[t]) /\ AllRows(db[t]) \subseteq Point
      BY <2>1 DEF Tables, TablesInv, TypeInv, RowTypes
    <3>2. /\ db[t].saved \in SUBSET Point /\ db[t].live \in SUBSET Point
          /\ db[t].lines \in SUBSET Point
          /\ db[t].copy \in BOOLEAN /\ db[t].stream \in BOOLEAN /\ db[t].begun \in BOOLEAN
      BY <3>1 DEF AllRows, IsTable
    <3> QED
      BY <3>1, <3>2 DEF IsTable, TableType
  <2>5. \A t \in Tables : {db[t].copy, db[t].stream, db[t].begun} \subseteq BOOLEAN
    BY <2>1 DEF TablesInv, IsTable
  <2> QED
    BY <2>1, <2>2, <2>3, <2>4, <2>5
    DEF TypeOK, TypeInv, ListTypes, AreaTypes, EndTypes, StorageTypes, InputInv, TablesInv
<1> QED
    BY <1>1, TypeInvariant, RelationsInvariant, PTL
-----------------------------------------------------------------------------
(* What the containers do not ask for: objects of the file.                 *)

\* The objects of a kind are sorted by their ids, as in a published file.
AscendingIds ==
    \A j, k \in DOMAIN file :
        j < k /\ file[j].kind = file[k].kind => file[j].id < file[k].id

\* The open entries are in order, and none of them is repeated.
InOrder(list) ==
    \A i, j \in DOMAIN list : i < j /\ list[i] # 0 /\ list[j] # 0 => list[i] < list[j]
\* The search of way() or relation(): what it has left behind is smaller than
\* all objects from position p on, and none of those before p is left in it.
Searching(list, idx, kind, p) ==
    /\ InOrder(list)
    /\ \A i \in DOMAIN list : i < idx /\ list[i] # 0 =>
            \A k \in DOMAIN file : k >= p /\ file[k].kind = kind => list[i] < file[k].id
    /\ \A k \in DOMAIN file :
            k < p /\ file[k].kind = kind => file[k].id \notin Entries(list)
NoneDeleted(list, kind) ==
    \A k \in DOMAIN file :
        file[k].kind = kind /\ file[k].deleted => file[k].id \notin Entries(list)
TwiceInv ==
    /\ pc \in {"pass1", "pass2", "ways"} =>
        /\ progress = "POINT" => waysIdx = 1
        /\ progress # "RELATION" => relsIdx = 1
    /\ pc \in {"pass2", "ways"} =>
        NoneDeleted(pendWays, "way") /\ NoneDeleted(pendRels, "relation")
    /\ pc = "pass2" /\ progress = "WAY" => Searching(pendWays, waysIdx, "way", pos)
    /\ pc = "pass2" /\ progress = "RELATION" =>
        Searching(pendRels, relsIdx, "relation", pos)
    /\ pc = "ways" => \A w \in todo : ~InFile("way", w)
    /\ pc = "rels" => \A rel \in todo : ~InFile("relation", rel)

\* If the list is in order and everything open before idx is smaller than id, the
\* search finds id if it is there, crosses it out and nothing else.
LEMMA CrossOutIsExact ==
    ASSUME NEW s \in Seq(Nat), NEW from \in Nat \ {0}, NEW id \in Nat \ {0},
           InOrder(s), \A k \in DOMAIN s : k < from /\ s[k] # 0 => s[k] < id
    PROVE  /\ DOMAIN CrossOut(s, from, id) = DOMAIN s
           /\ \A k \in DOMAIN s : CrossOut(s, from, id)[k] = IF s[k] = id THEN 0 ELSE s[k]
<1>1. \A k \in Hits(s, from, id) : k \in DOMAIN s /\ s[k] = id
    BY DEF Hits
<1>2. ASSUME NEW k \in DOMAIN s, s[k] = id PROVE k \in Hits(s, from, id)
  <2>1. k >= from
    BY <1>2
  <2>2. \A j \in from .. (k - 1) : s[j] < id
    BY <1>2 DEF InOrder
  <2> QED
    BY <1>2, <2>1, <2>2 DEF Hits
<1> QED
    BY <1>1, <1>2 DEF CrossOut

LEMMA NextIdxIsExact ==
    ASSUME NEW s \in Seq(Nat), NEW from \in Nat \ {0}, NEW id \in Nat \ {0},
           \A k \in DOMAIN s : k < from /\ s[k] # 0 => s[k] < id
    PROVE  \A k \in DOMAIN s : k < NextIdx(s, from, id) /\ s[k] # 0 => s[k] < id
<1>1. CASE Hits(s, from, id) = {}
    BY <1>1 DEF NextIdx
<1>2. CASE Hits(s, from, id) # {}
  <2>1. NextIdx(s, from, id) \in Hits(s, from, id)
    BY <1>2 DEF NextIdx
  <2> QED
    BY <2>1 DEF Hits
<1> QED
    BY <1>1, <1>2

\* One object of the kind more.
LEMMA SearchFinds ==
    ASSUME InputInv, AscendingIds, NEW list \in Seq(Nat), NEW idx \in Nat \ {0}, NEW kind,
           NEW p \in DOMAIN file, file[p].kind = kind, Searching(list, idx, kind, p)
    PROVE  Searching(CrossOut(list, idx, file[p].id), NextIdx(list, idx, file[p].id), kind, p + 1)
<1> DEFINE id == file[p].id
           new == CrossOut(list, idx, id)
           next == NextIdx(list, idx, id)
<1>1. DOMAIN file = 1 .. Len(file) /\ Len(file) \in Nat /\ p \in Nat
      /\ \A k \in DOMAIN file : file[k].id \in Nat \ {0}
  <2>1. ASSUME NEW k \in DOMAIN file PROVE file[k].id \in Nat \ {0}
    BY FileFacts, ChangeFacts, IdsAssumption
  <2> QED
    BY <2>1, FileFacts
<1>2. \A i \in DOMAIN list : i < idx /\ list[i] # 0 => list[i] < id
    BY <1>1 DEF Searching
<1>3. id \in Nat \ {0} /\ InOrder(list)
    BY <1>1 DEF Searching
<1>4. \A k \in DOMAIN file : k >= p + 1 /\ file[k].kind = kind => id < file[k].id
    BY <1>1 DEF AscendingIds
<1> HIDE DEF id
<1>5. /\ DOMAIN new = DOMAIN list
      /\ \A k \in DOMAIN list : new[k] = IF list[k] = id THEN 0 ELSE list[k]
    BY <1>2, <1>3, CrossOutIsExact
<1>6. \A k \in DOMAIN list : k < next /\ list[k] # 0 => list[k] < id
    BY <1>2, <1>3, NextIdxIsExact
<1> HIDE DEF new, next
<1>7. InOrder(new)
    BY <1>3, <1>5 DEF InOrder
<1>8. ASSUME NEW i \in DOMAIN new, i < next, new[i] # 0,
             NEW k \in DOMAIN file, k >= p + 1, file[k].kind = kind
      PROVE  new[i] < file[k].id
  <2>1. i \in DOMAIN list /\ new[i] = list[i] /\ list[i] \in Nat
    BY <1>5, <1>8
  <2>2. list[i] < id
    BY <1>6, <1>8, <2>1
  <2> QED
    BY <1>1, <1>3, <1>4, <1>8, <2>1, <2>2
<1>9. ASSUME NEW k \in DOMAIN file, k < p + 1, file[k].kind = kind, NEW i \in DOMAIN new,
             new[i] = file[k].id
      PROVE  FALSE
  <2>1. i \in DOMAIN list /\ list[i] = new[i] /\ list[i] # id
    BY <1>1, <1>5, <1>9
  <2>2. CASE k = p
    BY <1>9, <2>1, <2>2 DEF id
  <2>3. CASE k < p
    BY <1>9, <2>1, <2>3 DEF Searching, Entries
  <2> QED
    BY <1>1, <1>9, <2>2, <2>3
<1>10. Searching(new, next, kind, p + 1)
    BY <1>7, <1>8, <1>9 DEF Searching, Entries
<1> QED
    BY <1>10 DEF new, next, id

\* An object that is not looked for.
LEMMA SearchGoesOn ==
    ASSUME InputInv, NEW list, NEW idx, NEW kind, NEW p \in DOMAIN file,
           Searching(list, idx, kind, p), NoneDeleted(list, kind),
           file[p].kind # kind \/ file[p].deleted
    PROVE  Searching(list, idx, kind, p + 1)
<1>1. DOMAIN file = 1 .. Len(file) /\ Len(file) \in Nat /\ p \in Nat
    BY FileFacts
<1> QED
    BY <1>1 DEF Searching, NoneDeleted

\* The search begins.
LEMMA SearchStarts ==
    ASSUME NEW list, NEW S \in SUBSET Nat, list \in Seq(S), NEW new \in SortedUnique(list), NEW kind, NEW p,
           \A k \in DOMAIN file : k < p => file[k].kind # kind
    PROVE  Searching(new, 1, kind, p)
<1>1. new \in Seq(S) /\ StrictlyAscending(new)
    BY SortedUniqueList DEF SortedUnique
<1>2. InOrder(new)
    BY <1>1 DEF InOrder, StrictlyAscending
<1> QED
    BY <1>1, <1>2 DEF Searching

LEMMA CrossedOutIsLess ==
    ASSUME NEW kind, NEW list, NEW idx, NEW id, NoneDeleted(list, kind), InputInv
    PROVE  NoneDeleted(CrossOut(list, idx, id), kind)
<1>1. \A e \in Entries(CrossOut(list, idx, id)) : e \in Entries(list) \/ e = 0
    BY DEF CrossOut, Entries
<1>2. \A k \in DOMAIN file : file[k].id # 0
    BY FileFacts, ChangeFacts, IdsAssumption
<1> QED
    BY <1>1, <1>2 DEF NoneDeleted

\* No row of a deleted object is there when the rows are asked for.
LEMMA LiveNotDeleted ==
    ASSUME DataInv, ProperFile, pc \in {"pass2", "ways"}, NEW t \in TopologyTables,
           NEW r \in db[t].live, NEW k \in DOMAIN file, file[k].kind = KindOf(t), file[k].deleted
    PROVE  IdIn(t, r) # file[k].id
<1> SUFFICES ASSUME IdIn(t, r) = file[k].id PROVE FALSE
    OBVIOUS
<1>1. t \in DataTables /\ r \in Present(t) /\ Matches(t, r, k) /\ t # "point"
    BY DEF DataTables, Present, Matches, TopologyTables, MemberTables
<1>2. Fresh(t, r, k)
    BY <1>1 DEF DataInv, VersionsInv, FreshInv, MayBeStale
<1> QED
    BY <1>2 DEF Fresh, PlainRows

LEMMA PushedWaysNotDeleted ==
    ASSUME DataInv, FiniteInv, ProperFile, pc \in {"pass2", "ways"},
           NEW list \in Seq(Ways \cup {0}), NEW n, NoneDeleted(list, "way")
    PROVE  NoneDeleted(PushWays(list, n), "way")
<1> DEFINE t == "node_ways"
<1>1. t \in TopologyTables /\ KindOf(t) = "way" /\ \A r : IdIn(t, r) = r.way
    BY DEF TopologyTables, KindOf, IdIn
<1>2. IsFiniteSet(db[t].live)
  <2>1. IsFiniteSet(AllRows(db[t])) /\ db[t].live \subseteq AllRows(db[t])
    BY <1>1 DEF FiniteInv, AllRows
  <2> QED
    BY <2>1, FS_Subset
<1>3. Entries(PushWays(list, n)) =
        Entries(list) \cup {r.way : r \in {r \in db[t].live : r.node = n}}
    BY <1>2, ListIn, PushedWays DEF Live
<1>4. \A r \in db[t].live : \A k \in DOMAIN file :
        file[k].kind = "way" /\ file[k].deleted => r.way # file[k].id
    BY <1>1, LiveNotDeleted
<1> QED
    BY <1>3, <1>4 DEF NoneDeleted

LEMMA PushedRelsNotDeleted ==
    ASSUME DataInv, FiniteInv, ProperFile, pc \in {"pass2", "ways"}, NEW kind \in Tellers,
           NEW list \in Seq(Rels \cup {0}), NEW m, NoneDeleted(list, "relation")
    PROVE  NoneDeleted(PushRels(list, kind, m), "relation")
<1> DEFINE t == TableOf(kind)
<1>1. t \in TopologyTables /\ KindOf(t) = "relation" /\ \A r : IdIn(t, r) = r.rel
  <2>1. t \in MemberTables
    BY TableOfFacts DEF Tellers, Kinds
  <2> QED
    BY <2>1 DEF TopologyTables, KindOf, IdIn, MemberTables
<1>2. IsFiniteSet(db[t].live)
  <2>1. IsFiniteSet(AllRows(db[t])) /\ db[t].live \subseteq AllRows(db[t])
    BY <1>1 DEF FiniteInv, AllRows
  <2> QED
    BY <2>1, FS_Subset
<1>3. Entries(PushRels(list, kind, m)) =
        Entries(list) \cup {r.rel : r \in {r \in db[t].live : r.member = m}}
    BY <1>2, ListIn, PushedRels DEF Live
<1>4. \A r \in db[t].live : \A k \in DOMAIN file :
        file[k].kind = "relation" /\ file[k].deleted => r.rel # file[k].id
    BY <1>1, LiveNotDeleted
<1> QED
    BY <1>3, <1>4 DEF NoneDeleted

LEMMA TwiceStep ==
    ASSUME DataInv, DataInv', FiniteInv, CollectInv, CollectRelsInv, ListTypes, TwiceInv,
           ProperFile, AscendingIds, [Next]_vars
    PROVE  TwiceInv'
<1> DEFINE W == Ways \cup {0}
           R == Rels \cup {0}
<1>1. /\ BaseInv /\ InputInv /\ ControlInv /\ TablesInv /\ RowStep /\ SortedFile
      /\ BaseInv' /\ ControlInv' /\ TablesInv'
    BY BaseStep DEF DataInv, BaseInv, ProperFile
<1>2. /\ DOMAIN file = 1 .. Len(file) /\ Len(file) \in Nat /\ pos \in Nat \ {0}
      /\ file' = file
      /\ \A k \in DOMAIN file : file[k].kind \in {"node", "way", "relation"}
    BY <1>1, FileFacts, ChangeFacts, SameInput DEF ControlInv
<1>3. /\ pendWays \in Seq(W) /\ waysIdx \in Nat \ {0}
      /\ pendRels \in Seq(R) /\ relsIdx \in Nat \ {0}
      /\ W \in SUBSET Nat /\ R \in SUBSET Nat
    BY IdsAssumption DEF ListTypes
<1>4. pendWays \in Seq(Nat) /\ pendRels \in Seq(Nat)
    BY <1>3
<1> HIDE DEF W, R
<1>5. "node" \in Tellers /\ "way" \in Tellers
    BY DEF Tellers
\* What the invariant says in the phases of pass 2.
<1> DEFINE Indices == /\ progress' = "POINT" => waysIdx' = 1
                      /\ progress' # "RELATION" => relsIdx' = 1
           Lists == NoneDeleted(pendWays', "way") /\ NoneDeleted(pendRels', "relation")
           Searches == /\ progress' = "WAY" => Searching(pendWays', waysIdx', "way", pos')
                       /\ progress' = "RELATION" =>
                            Searching(pendRels', relsIdx', "relation", pos')
<1>6. ASSUME pc' = "pass1" PROVE Indices
  <2>1. CASE UNCHANGED vars
    BY <1>6, <2>1 DEF vars, TwiceInv
  <2>2. CASE Node1 \/ Way1 \/ Relation1
    <3>1. UNCHANGED <<waysIdx, relsIdx, progress>> /\ pc = "pass1"
      BY <2>2 DEF Node1, Way1, Relation1, Pass1, Pass1Frame, pending
    <3> QED
      BY <3>1 DEF TwiceInv
  <2>3. CASE Restart
    BY <2>3 DEF Restart
  <2> QED
    BY <1>6, <2>1, <2>2, <2>3, IntoPass1
<1>7. ASSUME pc' = "pass2" PROVE Indices /\ Lists /\ Searches
  <2>1. CASE UNCHANGED vars
    <3>1. /\ UNCHANGED <<pc, progress, pos, pendWays, waysIdx, pendRels, relsIdx>>
      BY <2>1 DEF vars
    <3> QED
      BY <1>7, <3>1 DEF TwiceInv
  <2>2. CASE StartPass2
    <3>1. pc = "pass1" /\ UNCHANGED <<progress, pendWays, waysIdx, pendRels, relsIdx>>
      BY <2>2 DEF StartPass2, pending
    <3>2. progress = "POINT" /\ pendWays = <<>> /\ pendRels = <<>> /\ waysIdx = 1 /\ relsIdx = 1
      BY <1>1, <3>1 DEF TablesInv, CollectInv, CollectRelsInv, TwiceInv
    <3>3. Entries(<<>>) = {}
      BY DEF Entries
    <3> QED
      BY <3>1, <3>2, <3>3 DEF NoneDeleted
  <2>3. CASE WriteNewNodes
    <3>1. /\ pc = "pass2" /\ progress = "POINT" /\ progress' = "WAY" /\ pos' = pos
          /\ pendWays' \in SortedUnique(pendWays) /\ UNCHANGED <<waysIdx, pendRels, relsIdx>>
      BY <2>3 DEF WriteNewNodes
    <3>2. waysIdx = 1 /\ relsIdx = 1 /\ NoneDeleted(pendWays, "way")
          /\ NoneDeleted(pendRels, "relation")
      BY <3>1 DEF TwiceInv
    <3>3. Entries(pendWays') = Entries(pendWays)
      BY <1>3, <3>1, SortedUniqueList
    <3>4. \A k \in DOMAIN file : k < pos => file[k].kind # "way"
      BY <1>1, <3>1 DEF ControlInv, InPass2
    <3>5. Searching(pendWays', 1, "way", pos)
      BY <1>3, <3>1, <3>4, SearchStarts
    <3> QED
      BY <3>1, <3>2, <3>3, <3>5 DEF NoneDeleted
  <2>4. CASE FlushAreas
    <3>1. pc = "pass2" /\ UNCHANGED <<progress, pos, pendWays, waysIdx, pendRels, relsIdx>>
      BY <2>4 DEF FlushAreas, pending
    <3> QED
      BY <3>1 DEF TwiceInv
  <2>5. CASE StartRelations
    <3>1. /\ pc = "ways" /\ progress' = "RELATION" /\ pos' = pos
          /\ pendRels' \in SortedUnique(pendRels) /\ UNCHANGED <<waysIdx, pendWays, relsIdx>>
      BY <2>5 DEF StartRelations
    <3>2. progress = "WAY"
      BY <1>1, <3>1 DEF TablesInv
    <3>3. relsIdx = 1 /\ NoneDeleted(pendWays, "way") /\ NoneDeleted(pendRels, "relation")
      BY <3>1, <3>2 DEF TwiceInv
    <3>4. Entries(pendRels') = Entries(pendRels)
      BY <1>3, <3>1, SortedUniqueList
    <3>5. \A k \in DOMAIN file : k < pos => file[k].kind # "relation"
      BY <1>1, <3>1, <3>2 DEF ControlInv, InPass2
    <3>6. Searching(pendRels', 1, "relation", pos)
      BY <1>3, <3>1, <3>5, SearchStarts
    <3> QED
      BY <3>1, <3>3, <3>4, <3>6 DEF NoneDeleted
  <2>6. CASE Node2
    <3>1. /\ pc = "pass2" /\ progress' = progress /\ UNCHANGED <<waysIdx, relsIdx>>
          /\ pos \in DOMAIN file /\ file[pos].kind = "node"
          /\ pendWays' \in {pendWays, PushWays(pendWays, file[pos].id)}
          /\ pendRels' \in {pendRels, PushRels(pendRels, "node", file[pos].id)}
      BY <1>2, <2>6 DEF Node2, Pass2, Object
    <3>2. progress = "POINT"
      BY <1>1, <3>1, SortedProgress DEF TablesInv
    <3>3. NoneDeleted(pendWays, "way") /\ NoneDeleted(pendRels, "relation")
      BY <3>1 DEF TwiceInv
    <3>4. NoneDeleted(pendWays', "way")
      BY <1>3, <3>1, <3>3, PushedWaysNotDeleted DEF W
    <3>5. NoneDeleted(pendRels', "relation")
      BY <1>3, <1>5, <3>1, <3>3, PushedRelsNotDeleted DEF R
    <3> QED
      BY <3>1, <3>2, <3>4, <3>5 DEF TwiceInv
  <2>7. CASE Way2Deleted
    <3>1. /\ pc = "pass2" /\ UNCHANGED <<progress, pendWays, waysIdx, pendRels, relsIdx>>
          /\ pos \in DOMAIN file /\ file[pos].kind = "way" /\ file[pos].deleted
          /\ pos' = pos + 1
      BY <1>2, <2>7 DEF Way2Deleted, Pass2, Object, pending
    <3>2. NoneDeleted(pendWays, "way") /\ NoneDeleted(pendRels, "relation")
      BY <3>1 DEF TwiceInv
    <3>3. /\ progress = "WAY" => Searching(pendWays, waysIdx, "way", pos + 1)
          /\ progress = "RELATION" => Searching(pendRels, relsIdx, "relation", pos + 1)
      BY <1>1, <3>1, <3>2, SearchGoesOn DEF TwiceInv
    <3> QED
      BY <3>1, <3>2, <3>3 DEF TwiceInv
  <2>8. CASE Way2
    <3> DEFINE id == file[pos].id
    <3>1. /\ pc = "pass2" /\ UNCHANGED <<progress, relsIdx>> /\ progress # "POINT"
          /\ pos \in DOMAIN file /\ file[pos].kind = "way" /\ pos' = pos + 1
          /\ pendWays' = CrossOut(pendWays, waysIdx, id) /\ waysIdx' = NextIdx(pendWays, waysIdx, id)
          /\ pendRels' = PushRels(pendRels, "way", id)
      BY <1>2, <2>8 DEF Way2, Pass2, Object
    <3>2. progress = "WAY"
      BY <1>1, <3>1, SortedProgress DEF TablesInv
    <3>3. NoneDeleted(pendWays, "way") /\ NoneDeleted(pendRels, "relation")
          /\ Searching(pendWays, waysIdx, "way", pos) /\ relsIdx = 1
      BY <3>1, <3>2 DEF TwiceInv
    <3>4. Searching(pendWays', waysIdx', "way", pos + 1)
      BY <1>1, <1>3, <1>4, <3>1, <3>3, SearchFinds
    <3> HIDE DEF id
    <3>5. NoneDeleted(pendWays', "way")
      BY <1>1, <3>1, <3>3, CrossedOutIsLess
    <3>6. NoneDeleted(pendRels', "relation")
      BY <1>3, <1>5, <3>1, <3>3, PushedRelsNotDeleted DEF R
    <3> QED
      BY <3>1, <3>2, <3>3, <3>4, <3>5, <3>6
  <2>9. CASE Relation2Deleted
    <3>1. /\ pc = "pass2" /\ UNCHANGED <<progress, pendWays, waysIdx, pendRels, relsIdx>>
          /\ pos \in DOMAIN file /\ file[pos].kind = "relation" /\ file[pos].deleted
          /\ pos' = pos + 1
      BY <1>2, <2>9 DEF Relation2Deleted, Pass2, Object, pending
    <3>2. NoneDeleted(pendWays, "way") /\ NoneDeleted(pendRels, "relation")
      BY <3>1 DEF TwiceInv
    <3>3. /\ progress = "WAY" => Searching(pendWays, waysIdx, "way", pos + 1)
          /\ progress = "RELATION" => Searching(pendRels, relsIdx, "relation", pos + 1)
      BY <1>1, <3>1, <3>2, SearchGoesOn DEF TwiceInv
    <3> QED
      BY <3>1, <3>2, <3>3 DEF TwiceInv
  <2>10. CASE Relation2
    <3> DEFINE id == file[pos].id
    <3>1. /\ pc = "pass2" /\ UNCHANGED <<progress, waysIdx, pendWays>> /\ progress = "RELATION"
          /\ pos \in DOMAIN file /\ file[pos].kind = "relation" /\ pos' = pos + 1
          /\ pendRels' = CrossOut(pendRels, relsIdx, id) /\ relsIdx' = NextIdx(pendRels, relsIdx, id)
      BY <1>2, <2>10 DEF Relation2, Pass2, Object
    <3>2. NoneDeleted(pendWays, "way") /\ NoneDeleted(pendRels, "relation")
          /\ Searching(pendRels, relsIdx, "relation", pos)
      BY <3>1 DEF TwiceInv
    <3>3. Searching(pendRels', relsIdx', "relation", pos + 1)
      BY <1>1, <1>3, <1>4, <3>1, <3>2, SearchFinds
    <3> HIDE DEF id
    <3>4. NoneDeleted(pendRels', "relation")
      BY <1>1, <3>1, <3>2, CrossedOutIsLess
    <3> QED
      BY <3>1, <3>2, <3>3, <3>4
  <2> QED
    BY <1>7, <2>1, <2>2, <2>3, <2>4, <2>5, <2>6, <2>7, <2>8, <2>9, <2>10, IntoPass2
<1>8. ASSUME pc' = "ways" PROVE Indices /\ Lists /\ \A w \in todo' : ~InFile("way", w)
  <2>1. CASE UNCHANGED vars
    <3>1. UNCHANGED <<pc, progress, todo, pendWays, waysIdx, pendRels, relsIdx>>
      BY <2>1 DEF vars
    <3> QED
      BY <1>8, <3>1 DEF TwiceInv
  <2>2. CASE WriteNewWays
    <3>1. /\ pc = "pass2" /\ progress = "WAY" /\ pos \in DOMAIN file /\ file[pos].kind = "relation"
          /\ pendWays' \in Sorted(pendWays) /\ todo' = WorkIds(pendWays)
          /\ UNCHANGED <<progress, waysIdx, pendRels, relsIdx>>
      BY <1>2, <2>2 DEF WriteNewWays, Object
    <3>2. NoneDeleted(pendWays, "way") /\ NoneDeleted(pendRels, "relation")
          /\ Searching(pendWays, waysIdx, "way", pos) /\ relsIdx = 1
      BY <3>1 DEF TwiceInv
    <3>3. \A e \in Entries(pendWays') : e \in Entries(pendWays)
      <4>1. PICK p \in Rearrangement(pendWays) : pendWays' = [i \in DOMAIN pendWays |-> pendWays[p[i]]]
        BY <3>1 DEF Sorted
      <4>2. p \in [DOMAIN pendWays -> DOMAIN pendWays]
        BY DEF Rearrangement
      <4> QED
        BY <4>1, <4>2 DEF Entries
    <3>4. \A w \in todo' : w \in Entries(pendWays)
      BY <3>1 DEF WorkIds, Entries
    <3>5. ASSUME NEW w \in todo', NEW k \in DOMAIN file, file[k].kind = "way", file[k].id = w
          PROVE  FALSE
      <4>1. ~(pos < k)
        BY <1>1, <3>1, <3>5, SortedFacts
      <4>2. k < pos
        BY <1>2, <3>1, <3>5, <4>1
      <4> QED
        BY <3>2, <3>4, <3>5, <4>2 DEF Searching
    <3> QED
      BY <3>1, <3>2, <3>3, <3>5 DEF NoneDeleted, InFile, Has
  <2>3. ASSUME NEW w \in Ways, UpdateWay(w)
        PROVE  Indices /\ Lists /\ \A v \in todo' : ~InFile("way", v)
    <3>1. /\ pc = "ways" /\ pendRels' = PushRels(pendRels, "way", w) /\ todo' = todo \ {w}
          /\ UNCHANGED <<progress, pendWays, waysIdx, relsIdx>>
      BY <2>3 DEF UpdateWay
    <3>2. NoneDeleted(pendWays, "way") /\ NoneDeleted(pendRels, "relation")
      BY <3>1 DEF TwiceInv
    <3>3. NoneDeleted(pendRels', "relation")
      BY <1>3, <1>5, <3>1, <3>2, PushedRelsNotDeleted DEF R
    <3> QED
      BY <3>1, <3>2, <3>3 DEF TwiceInv
  <2> QED
    BY <1>8, <2>1, <2>2, <2>3, IntoWays
<1>9. ASSUME pc' = "rels" PROVE \A rel \in todo' : ~InFile("relation", rel)
  <2>1. CASE UNCHANGED vars
    BY <1>9, <2>1 DEF vars, TwiceInv
  <2>2. CASE AfterRelations
    <3>1. pc = "pass2" /\ pos > Len(file) /\ todo' = WorkIds(pendRels)
      BY <2>2 DEF AfterRelations
    <3>2. \A rel \in todo' : rel \in Entries(pendRels)
      BY <3>1 DEF WorkIds, Entries
    <3>3. ASSUME NEW rel \in todo', NEW k \in DOMAIN file, file[k].kind = "relation",
                 file[k].id = rel
          PROVE  FALSE
      <4>1. k < pos /\ InPass2
        BY <1>2, <3>1 DEF InPass2
      <4>2. progress = "RELATION"
        BY <1>1, <3>3, <4>1 DEF ControlInv, TablesInv
      <4>3. Searching(pendRels, relsIdx, "relation", pos)
        BY <3>1, <4>2 DEF TwiceInv
      <4> QED
        BY <3>2, <3>3, <4>1, <4>3 DEF Searching
    <3> QED
      BY <3>3 DEF InFile, Has
  <2>3. ASSUME NEW rel \in Rels, UpdateRelation(rel)
        PROVE  \A v \in todo' : ~InFile("relation", v)
    BY <2>3 DEF UpdateRelation, TwiceInv
  <2> QED
    BY <1>9, <2>1, <2>2, <2>3, IntoRels
<1>11. /\ Lists <=> (NoneDeleted(pendWays, "way") /\ NoneDeleted(pendRels, "relation"))'
       /\ Searches <=>
            (/\ progress = "WAY" => Searching(pendWays, waysIdx, "way", pos)
             /\ progress = "RELATION" => Searching(pendRels, relsIdx, "relation", pos))'
    BY <1>2 DEF NoneDeleted, Searching, Entries, InOrder
<1>12. /\ (\A w \in todo' : ~InFile("way", w)) <=> (\A w \in todo : ~InFile("way", w))'
       /\ (\A rel \in todo' : ~InFile("relation", rel)) <=>
            (\A rel \in todo : ~InFile("relation", rel))'
    BY <1>2 DEF InFile
<1> HIDE DEF Indices, Lists, Searches
<1>13. /\ (pc \in {"pass2", "ways"} =>
            NoneDeleted(pendWays, "way") /\ NoneDeleted(pendRels, "relation"))'
       /\ (pc = "pass2" /\ progress = "WAY" => Searching(pendWays, waysIdx, "way", pos))'
       /\ (pc = "pass2" /\ progress = "RELATION" =>
            Searching(pendRels, relsIdx, "relation", pos))'
    BY <1>7, <1>8, <1>11
<1>14. (pc \in {"pass1", "pass2", "ways"} =>
            /\ progress = "POINT" => waysIdx = 1
            /\ progress # "RELATION" => relsIdx = 1)'
    BY <1>6, <1>7, <1>8 DEF Indices
<1>15. /\ (pc = "ways" => \A w \in todo : ~InFile("way", w))'
       /\ (pc = "rels" => \A rel \in todo : ~InFile("relation", rel))'
    BY <1>8, <1>9, <1>12
<1> QED
    BY <1>13, <1>14, <1>15 DEF TwiceInv

LEMMA TwiceInvariant == Spec => [](ProperFile /\ AscendingIds => TwiceInv)
<1> DEFINE I == ProperFile /\ AscendingIds => TwiceInv
<1>1. Init => I
  <2> SUFFICES ASSUME Init PROVE TwiceInv
    OBVIOUS
  <2> QED
    BY DEF Init, TwiceInv
<1>2. I /\ TypeInv /\ RelationsInv /\ RelationsInv' /\ [Next]_vars => I'
  <2> SUFFICES ASSUME I, TypeInv, RelationsInv, RelationsInv', [Next]_vars PROVE I'
    OBVIOUS
  <2>1. /\ DataInv /\ FiniteInv /\ CollectInv /\ CollectRelsInv /\ ListTypes /\ BaseInv
    BY DEF RelationsInv, FollowInv, RowsRightInv, LinesInv, KnownInv, DataInv, TypeInv
  <2>2. DataInv'
    BY DEF RelationsInv, FollowInv, RowsRightInv, LinesInv, KnownInv
  <2>3. RowStep
    BY <2>1, BaseStep
  <2>4. (ProperFile' <=> ProperFile) /\ file' = file
    BY <2>3, SameRels
  <2>5. AscendingIds' <=> AscendingIds
    BY <2>4 DEF AscendingIds
  <2>6. ProperFile /\ AscendingIds => TwiceInv'
    BY <2>1, <2>2, TwiceStep
  <2> QED
    BY <2>4, <2>5, <2>6
<1> QED
  BY <1>1, <1>2, TypeInvariant, RelationsInvariant, PTL DEF Spec

\* DiffHandler2 asks the containers for objects the file does not contain only:
\* those it deletes have not been collected, and the search of way() and
\* relation() has crossed out the other ones, as long as the file is sorted by
\* type and id and the handlers come to a type after all pushes for it.
THEOREM NothingTwice == Spec => [](ProperFile /\ AscendingIds => NothingUpdatedTwice)
<1>1. (ProperFile /\ AscendingIds => TwiceInv)
        => (ProperFile /\ AscendingIds => NothingUpdatedTwice)
  <2> SUFFICES ASSUME ProperFile, AscendingIds, TwiceInv PROVE NothingUpdatedTwice
    OBVIOUS
  <2> QED
    BY DEF TwiceInv, NothingUpdatedTwice
<1> QED
  BY <1>1, TwiceInvariant, PTL
-----------------------------------------------------------------------------
(* Duplicates.                                                              *)

\* The column that says which object a row is of, and the form of a row.
KeyOf(t) ==
    IF t = "node_ways" THEN "way" ELSE IF t \in MemberTables THEN "rel" ELSE "id"
WholeRow(t, r) == {KeyOf(t), "run"} \subseteq DOMAIN r /\ r = [field \in DOMAIN r |-> r[field]]
WholeRows == \A t \in PlainTables : \A r \in AllRows(db[t]) : WholeRow(t, r)

\* All rows of an object that was there before come from the same run.
OneRun(t, rows) ==
    \A r, s \in rows :
        IdIn(t, r) = IdIn(t, s) /\ IdIn(t, r) \notin Added(KindOf(t)) => r.run = s.run
\* A table that may have rows of c when it is written, but gets none of it.
Kept(t, c) == (t = "untagged" /\ FlatNodes) \/ MayBeStale(t, c)
Gone(t, c) ==
    c.kind = KindOf(t) /\ ~IsNew(c) =>
        Kept(t, c) \/ \A r \in Present(t) : IdIn(t, r) # c.id
GoneInv(t) ==
    /\ pc = "pass1" => \A k \in DOMAIN file : k < pos => Gone(t, file[k])
    /\ pc \in {"pass2", "ways"} => \A k \in DOMAIN file : k >= pos => Gone(t, file[k])
CopiesInv ==
    \A t \in RowTables : OneRun(t, db[t].saved) /\ OneRun(t, Present(t)) /\ GoneInv(t)

LEMMA WrittenOwner ==
    ASSUME NEW t \in RowTables, NEW c, NEW r \in WrittenRows(t, c)
    PROVE  /\ ~c.deleted /\ c.kind = KindOf(t) /\ IdIn(t, r) = c.id /\ r.run = run
           /\ ~Kept(t, c)
<1>1. CASE t \in PlainTables
  <2>1. r \in PlainRows(t, c, run)
    BY <1>1, RowTablesFacts DEF WrittenRows
  <2>2. ~c.deleted /\ c.kind = KindOf(t) /\ IdIn(t, r) = c.id /\ r.run = run
    BY <1>1, <2>1, PlainRowsOwner
  <2>3. t \in {"point", "untagged"} => t = NodeTable(c)
    BY <2>1, <2>2 DEF PlainRows, KindOf, TopologyTables, MemberTables
  <2> QED
    BY <2>2, <2>3 DEF NodeTable, Kept, MayBeStale
<1>2. CASE t \notin PlainTables
  <2>1. t \in EditedTables
    BY <1>2, RowTablesFacts DEF EditedTables, PlainTables, TopologyTables
  <2>2. IdIn(t, r) = r.id
    BY <2>1, EditedTablesFacts
  <2> QED
    BY <2>1, <2>2, WrittenShape DEF EditedTables, Kept, MayBeStale
<1> QED
    BY <1>1, <1>2

\* Rows come from the rows of the same object and run, or are written.
Heirs(t, rows, from) ==
    \A r \in rows : \E s \in from : IdIn(t, r) = IdIn(t, s) /\ r.run = s.run
LEMMA CopiesMoves ==
    ASSUME BaseInv, ShapeInv, RowStep, NEW t \in RowTables
    PROVE  \/ (DeadStep \/ AgainStep) /\ Renewed(db[t], db'[t])
           \/ /\ SendStep /\ db'[t].saved = db[t].saved
              /\ Present(t)' \subseteq Present(t) \cup WrittenRows(t, file[pos])
           \/ /\ ~DeadStep /\ ~AgainStep /\ ~SendStep
              /\ Heirs(t, Present(t)', Present(t))
              /\ db'[t].saved = db[t].saved \/ Heirs(t, db'[t].saved, Present(t))
<1> USE DEF Heirs
<1>1. DeadStep \/ AgainStep => Renewed(db[t], db'[t])
    BY DEF DeadStep, AgainStep
<1>2. SendStep => ~DeadStep /\ ~AgainStep
    BY DEF SendStep, DeadStep, AgainStep
<1>3. db[t].begun \in BOOLEAN
    BY RowTablesFacts DEF BaseInv, TablesInv, IsTable
<1>4. CASE SendStep
  <2>1. Sends(t, file[pos])
    BY <1>4 DEF SendStep
  <2> QED
    BY <1>4, <2>1 DEF Sends, Sent, Queried, Calm, Present
<1>5. CASE t \in PlainTables /\ ~SendStep /\ ~DeadStep /\ ~AgainStep
  <2>1. Present(t)' \subseteq Present(t)
    BY <1>5, PresentMoves
  <2>2. ASSUME NEW c, Stored(db[t], db'[t], {r \in db[t].live : IdIn(t, r) # c})
        PROVE  db'[t].saved = db[t].saved \/ db'[t].saved \subseteq Present(t)
    BY <1>3, <2>2 DEF Stored, Saves, Present
  <2>3. Ended(db[t], db'[t]) => db'[t].saved = db[t].saved \/ db'[t].saved \subseteq Present(t)
    BY <1>3 DEF Ended, Saves, Present
  <2>4. (\/ db'[t] = db[t] \/ Queried(db[t], db'[t]) \/ Started(db[t], db'[t])
        \/ Destroyed(db[t], db'[t]) \/ Renewed(db[t], db'[t]))
            => db'[t].saved = db[t].saved \/ db'[t].saved \subseteq Present(t)
    BY DEF Queried, Started, Calm, Destroyed, Renewed, Present
  <2>5. db'[t].saved = db[t].saved \/ db'[t].saved \subseteq Present(t)
    BY <1>5, <2>2, <2>3, <2>4, PlainMoves
  <2> QED
    BY <1>5, <2>1, <2>5
<1>6. CASE t \notin PlainTables /\ ~SendStep /\ ~DeadStep /\ ~AgainStep
  <2>1. t \in EditedTables
    BY <1>6, RowTablesFacts DEF EditedTables, PlainTables, TopologyTables
  <2>2. ASSUME NEW c, Stored(db[t], db'[t], {r \in db[t].live : r.id # c})
        PROVE  /\ Present(t)' \subseteq Present(t)
               /\ db'[t].saved = db[t].saved \/ db'[t].saved \subseteq Present(t)
    BY <1>3, <2>2 DEF Stored, Saves, Present
  <2>3. ASSUME NEW id \in todo, UpdateStep(t, id)
        PROVE  /\ Heirs(t, Present(t)', Present(t))
               /\ db'[t].saved = db[t].saved \/ Heirs(t, db'[t].saved, Present(t))
    <3>1. /\ db'[t].lines = db[t].lines
          /\ db'[t].live = {IF r.id = id THEN Updated(t, r) ELSE r : r \in db[t].live}
          /\ db'[t].saved = db[t].saved \/ db'[t].saved = db'[t].live
      BY <1>3, <2>3 DEF UpdateStep, Stored, Saves
    <3>2. \A r : IdIn(t, r) = r.id
      BY <2>1, EditedTablesFacts
    <3>3. \A r \in db[t].live : Updated(t, r).id = r.id /\ Updated(t, r).run = r.run
      BY <2>1, UpdatedShape DEF ShapeInv, AllRows
    <3>4. \A r \in db'[t].live : \E s \in db[t].live : r.id = s.id /\ r.run = s.run
      BY <3>1, <3>3
    <3> QED
      BY <3>1, <3>2, <3>4 DEF Present
  <2>4. ASSUME Present(t)' = Present(t), db'[t].live \in {db[t].live, Present(t)},
               db'[t].saved \in {db[t].saved, Present(t)}
        PROVE  /\ Heirs(t, Present(t)', Present(t))
               /\ db'[t].saved = db[t].saved \/ Heirs(t, db'[t].saved, Present(t))
    BY <2>4
  <2>5. db'[t] = db[t] => /\ Heirs(t, Present(t)', Present(t)) /\ db'[t].saved = db[t].saved
    BY DEF Present
  <2> QED
    BY <1>6, <2>1, <2>2, <2>3, <2>4, <2>5, EditedMoves
<1> QED
    BY <1>1, <1>2, <1>4, <1>5, <1>6

LEMMA HeirsOneRun ==
    ASSUME NEW t, NEW rows, NEW from, OneRun(t, from), Heirs(t, rows, from)
    PROVE  OneRun(t, rows)
<1> SUFFICES ASSUME NEW r \in rows, NEW s \in rows, IdIn(t, r) = IdIn(t, s),
                    IdIn(t, r) \notin Added(KindOf(t))
             PROVE  r.run = s.run
    BY DEF OneRun
<1>1. PICK r0 \in from : IdIn(t, r) = IdIn(t, r0) /\ r.run = r0.run
    BY DEF Heirs
<1>2. PICK s0 \in from : IdIn(t, s) = IdIn(t, s0) /\ s.run = s0.run
    BY DEF Heirs
<1> QED
    BY <1>1, <1>2 DEF OneRun

\* Of an object of the file that may have an older version nothing is left after
\* pass 1 has passed it.
LEMMA GoneDelete ==
    ASSUME BaseInv, ShapeInv, BothInv, DeletingInv, DeleteStep, NEW t \in RowTables,
           NEW r \in Present(t)', ~IsNew(file[pos]), file[pos].kind = KindOf(t),
           IdIn(t, r) = file[pos].id
    PROVE  Kept(t, file[pos])
<1>1. pc = "pass1" /\ pos \in DOMAIN file /\ Removes(t, file[pos])
    BY DEF DeleteStep
<1>2. db[t].lines = {}
    BY <1>1, RowTablesFacts DEF BaseInv, TablesInv, IsTable, RowsInv, Tidy, MayCopy
<1>3. CASE t \in DataTables
    BY <1>1, <1>3, FreshDelete DEF Matches, Kept
<1>4. CASE t \in EditedTables
  <2>1. Stored(db[t], db'[t], {s \in db[t].live : IdIn(t, s) # file[pos].id})
    BY <1>1, <1>4 DEF Removes, KindOf, EditedTables, MemberTables
  <2> QED
    BY <1>2, <2>1 DEF Stored, Present
<1>5. t \in DataTables \/ t \in EditedTables \/ (t = "untagged" /\ FlatNodes)
    BY RowTablesFacts DEF DataTables, NodeTables, TopologyTables, EditedTables
<1> QED
    BY <1>3, <1>4, <1>5 DEF Kept

LEMMA CopiesStep ==
    ASSUME BaseInv, ShapeInv, BothInv, DeletingInv, OneVersionEach, CopiesInv, RowStep
    PROVE  CopiesInv'
<1>1. UNCHANGED <<old, file, options>>
    BY SameInput
<1>2. /\ pos \in Nat \ {0} /\ run \in Nat /\ DOMAIN file = 1 .. Len(file) /\ Len(file) \in Nat
    BY FileFacts DEF BaseInv, ControlInv, InputInv
<1>3. \A kind : Added(kind)' = Added(kind)
    BY <1>1 DEF Added
<1> SUFFICES ASSUME NEW t \in RowTables
             PROVE  /\ OneRun(t, db'[t].saved) /\ OneRun(t, Present(t)')
                    /\ GoneInv(t)'
    BY <1>3 DEF CopiesInv, OneRun
<1>4. OneRun(t, db[t].saved) /\ OneRun(t, Present(t)) /\ GoneInv(t)
    BY DEF CopiesInv
<1>5. \A k \in DOMAIN file :
        run' = run => (Kept(t, file[k])' <=> Kept(t, file[k]))
    BY <1>1 DEF Kept, MayBeStale, FlatNodes
<1>6. ASSUME NEW k \in DOMAIN file, Gone(t, file[k]), run' = run,
             Heirs(t, Present(t)', Present(t))
      PROVE  Gone(t, file[k])'
    BY <1>1, <1>5, <1>6 DEF Gone, Heirs, IsNew
<1>7. CASE (DeadStep \/ AgainStep) /\ Renewed(db[t], db'[t])
  <2>1. Present(t)' = db[t].saved /\ db'[t].saved = db[t].saved
    BY <1>7 DEF Renewed, Present
  <2>2. (pc' = "dead") \/ (pc' = "pass1" /\ pos' = 1)
    BY <1>7 DEF DeadStep, AgainStep
  <2>3. GoneInv(t)'
    BY <1>1, <1>2, <2>2 DEF GoneInv
  <2> QED
    BY <1>4, <2>1, <2>3
<1>8. CASE /\ SendStep /\ db'[t].saved = db[t].saved
           /\ Present(t)' \subseteq Present(t) \cup WrittenRows(t, file[pos])
  <2>1. /\ pc = "pass2" /\ pc' = "pass2" /\ pos \in DOMAIN file /\ pos' = pos + 1 /\ run' = run
    BY <1>8 DEF SendStep
  <2>2. Gone(t, file[pos])
    BY <1>2, <1>4, <2>1 DEF GoneInv
  <2>3. OneRun(t, Present(t)')
    <3> SUFFICES ASSUME NEW r \in Present(t)', NEW s \in Present(t)', IdIn(t, r) = IdIn(t, s),
                        IdIn(t, r) \notin Added(KindOf(t))
                 PROVE  r.run = s.run
      BY DEF OneRun
    <3>1. ASSUME NEW x \in WrittenRows(t, file[pos]), IdIn(t, x) \notin Added(KindOf(t)),
                 NEW y \in Present(t), IdIn(t, x) = IdIn(t, y)
          PROVE  FALSE
      <4>1. /\ ~file[pos].deleted /\ file[pos].kind = KindOf(t) /\ IdIn(t, x) = file[pos].id
            /\ ~Kept(t, file[pos])
        BY <3>1, WrittenOwner
      <4>2. ~IsNew(file[pos])
        BY <2>1, <3>1, <4>1 DEF IsNew, Added
      <4> QED
        BY <2>2, <3>1, <4>1, <4>2 DEF Gone
    <3>2. r \in WrittenRows(t, file[pos]) => r.run = run
      BY WrittenOwner
    <3>3. s \in WrittenRows(t, file[pos]) => s.run = run
      BY WrittenOwner
    <3> QED
      BY <1>4, <1>8, <3>1, <3>2, <3>3 DEF OneRun
  <2>4. ASSUME NEW k \in DOMAIN file, k >= pos + 1 PROVE Gone(t, file[k])'
    <3>1. Gone(t, file[k])
      BY <1>2, <1>4, <2>1, <2>4 DEF GoneInv
    <3>2. file[k].kind # file[pos].kind \/ file[k].id # file[pos].id
      BY <1>2, <2>1, <2>4 DEF OneVersionEach
    <3>3. \A x \in WrittenRows(t, file[pos]) :
            file[k].kind = KindOf(t) => IdIn(t, x) # file[k].id
      BY <3>2, WrittenOwner
    <3> QED
      BY <1>1, <1>5, <1>8, <2>1, <3>1, <3>3 DEF Gone, IsNew
  <2> QED
    BY <1>1, <1>4, <1>8, <2>1, <2>3, <2>4 DEF GoneInv
<1>9. CASE /\ ~DeadStep /\ ~AgainStep /\ ~SendStep
           /\ Heirs(t, Present(t)', Present(t))
           /\ db'[t].saved = db[t].saved \/ Heirs(t, db'[t].saved, Present(t))
  <2>1. OneRun(t, db'[t].saved) /\ OneRun(t, Present(t)')
    BY <1>4, <1>9, HeirsOneRun
  <2>2. CASE DeleteStep
    <3>1. pc = "pass1" /\ pc' = "pass1" /\ pos \in DOMAIN file /\ pos' = pos + 1 /\ run' = run
      BY <2>2 DEF DeleteStep
    <3>2. ASSUME NEW k \in DOMAIN file, k < pos PROVE Gone(t, file[k])'
      BY <1>4, <1>6, <1>9, <3>1, <3>2 DEF GoneInv
    <3>3. ASSUME NEW k \in DOMAIN file, k = pos PROVE Gone(t, file[k])'
      <4>1. /\ Kept(t, file[k])' <=> Kept(t, file[k])
            /\ file'[k] = file[k]
        BY <1>1, <1>5, <3>1
      <4>2. file[k].kind = KindOf(t) /\ ~IsNew(file[k]) /\ ~Kept(t, file[k]) =>
                \A r \in Present(t)' : IdIn(t, r) # file[k].id
        BY <2>2, <3>3, GoneDelete
      <4> QED
        BY <4>1, <4>2 DEF Gone, IsNew
    <3>4. ASSUME NEW k \in DOMAIN file, k < pos + 1 PROVE Gone(t, file[k])'
      <4>1. k < pos \/ k = pos
        BY <1>2, <3>4
      <4> QED
        BY <3>2, <3>3, <4>1
    <3> QED
      BY <1>1, <2>1, <3>1, <3>4 DEF GoneInv
  <2>3. CASE SwitchStep
    <3>1. pc = "pass1" /\ pc' = "pass2" /\ pos > Len(file) /\ run' = run
      BY <2>3 DEF SwitchStep
    <3>2. ASSUME NEW k \in DOMAIN file PROVE Gone(t, file[k])'
      BY <1>2, <1>4, <1>6, <1>9, <3>1 DEF GoneInv
    <3> QED
      BY <1>1, <2>1, <3>1, <3>2 DEF GoneInv
  <2>4. CASE PhaseStep
    <3>1. /\ pos' = pos /\ run' = run /\ pc' # "pass1"
          /\ pc' \in {"pass2", "ways"} => pc \in {"pass2", "ways"}
      BY <2>4 DEF PhaseStep, PhaseChange
    <3>2. ASSUME pc' \in {"pass2", "ways"}, NEW k \in DOMAIN file, k >= pos
          PROVE  Gone(t, file[k])'
      BY <1>4, <1>6, <1>9, <3>1, <3>2 DEF GoneInv
    <3> QED
      BY <1>1, <2>1, <3>1, <3>2 DEF GoneInv
  <2>5. ASSUME NEW u \in Tables, CloseStep(u) PROVE GoneInv(t)'
    BY <2>5 DEF CloseStep, GoneInv
  <2>6. CASE IdleStep
    <3>1. UNCHANGED <<pc, pos, run>> /\ file' = file
      BY <1>1, <2>6 DEF IdleStep
    <3>2. ASSUME NEW k \in DOMAIN file, Gone(t, file[k]) PROVE Gone(t, file[k])'
      BY <1>6, <1>9, <3>1, <3>2
    <3> QED
      BY <1>4, <2>1, <3>1, <3>2 DEF GoneInv
  <2> QED
    BY <1>9, <2>1, <2>2, <2>3, <2>4, <2>5, <2>6 DEF RowStep
<1> QED
    BY <1>7, <1>8, <1>9, CopiesMoves

LEMMA WholeRowsStep ==
    ASSUME BaseInv, WholeRows, RowStep
    PROVE  WholeRows'
<1> SUFFICES ASSUME NEW t \in PlainTables, NEW r \in AllRows(db'[t])
             PROVE  WholeRow(t, r)
    BY DEF WholeRows, AllRows
<1>1. r \in PlainRows(t, file[pos], run) => WholeRow(t, r)
    BY PlainTablesFacts
    DEF PlainRows, PointRow, NodeWayRows, MemberRows, WholeRow, KeyOf, MemberTables
<1> QED
    BY <1>1, AllRowsMoves DEF WholeRows

LEMMA InitCopies == Init => CopiesInv /\ WholeRows
<1> SUFFICES ASSUME Init PROVE CopiesInv /\ WholeRows
    OBVIOUS
<1>1. BaseInv /\ InputInv /\ pc = "pass1" /\ pos = 1
    BY InitBase DEF Init, BaseInv
<1>2. DOMAIN file = 1 .. Len(file) /\ Len(file) \in Nat
    BY <1>1, FileFacts
<1>3. ASSUME NEW t \in RowTables PROVE OneRun(t, Imported(old, PolygonTable)[t])
  <2>1. \A r \in Imported(old, PolygonTable)[t] : r.run = 0
    <3>1. CASE t \in PlainTables
      BY <1>1, <3>1, ImportedOwner
    <3>2. CASE t \in EditedTables
      BY <1>1, <3>2, ImportedEdited
    <3> QED
      BY <3>1, <3>2, RowTablesFacts DEF EditedTables, PlainTables, TopologyTables
  <2> QED
    BY <2>1 DEF OneRun
<1>4. ASSUME NEW t \in RowTables
      PROVE  OneRun(t, db[t].saved) /\ OneRun(t, Present(t)) /\ GoneInv(t)
  <2>1. db[t].saved = Imported(old, PolygonTable)[t] /\ Present(t) = Imported(old, PolygonTable)[t]
    BY InitRows DEF Present
  <2> QED
    BY <1>1, <1>2, <1>3, <2>1 DEF GoneInv
<1>5. ASSUME NEW t \in PlainTables, NEW r \in AllRows(db[t]) PROVE WholeRow(t, r)
  <2>1. r \in Imported(old, PolygonTable)[t]
    BY InitRows, RowTablesFacts DEF AllRows
  <2>2. CASE t \in {"point", "untagged"}
    BY <2>1, <2>2, ImportedNodes DEF WholeRow, KeyOf, PointRow, MemberTables
  <2>3. CASE t = "node_ways"
    BY <2>1, <2>3 DEF Imported, Tables, MemberTables, WholeRow, KeyOf, NodeWayRows
  <2>4. CASE t \in MemberTables
    BY <2>1, <2>4 DEF Imported, Tables, MemberTables, WholeRow, KeyOf, MemberRows
  <2> QED
    BY <2>2, <2>3, <2>4 DEF PlainTables, TopologyTables
<1> QED
    BY <1>4, <1>5 DEF CopiesInv, WholeRows

LEMMA CopiesInvariant == Spec => [](WholeRows /\ (ProperFile => CopiesInv))
<1> DEFINE I == WholeRows /\ (ProperFile => CopiesInv)
<1>1. Init => I
    BY InitCopies
<1>2. I /\ RelationsInv /\ [Next]_vars => I'
  <2> SUFFICES ASSUME I, RelationsInv, [Next]_vars PROVE I'
    OBVIOUS
  <2>1. BaseInv /\ ShapeInv /\ DataInv
    BY DEF RelationsInv, FollowInv, RowsRightInv, LinesInv, KnownInv, DataInv
  <2>2. RowStep
    BY <2>1, BaseStep
  <2>3. ProperFile => OneVersionEach /\ BothInv /\ DeletingInv
    BY <2>1 DEF ProperFile, DataInv, VersionsInv
  <2>4. ProperFile' <=> ProperFile
    BY <2>2, SameRels
  <2>5. ProperFile => CopiesInv'
    BY <2>1, <2>2, <2>3, CopiesStep
  <2> QED
    BY <2>1, <2>2, <2>4, <2>5, WholeRowsStep
<1> QED
  BY <1>1, <1>2, RelationsInvariant, PTL DEF Spec

\* Applying a change file again, after a crash or not, duplicates only objects
\* that the file adds: of every other one DiffHandler1 deletes what there was, in
\* every table, before DiffHandler2 writes it, and every table is committed as a
\* whole or not at all (tables under a transaction) or follows at once.
THEOREM DuplicatesAreNew == Spec => [](ProperFile => OnlyAddedDuplicated)
<1>1. WholeRows /\ (ProperFile => CopiesInv) /\ RelationsInv
        => (ProperFile => OnlyAddedDuplicated)
  <2> SUFFICES ASSUME WholeRows, CopiesInv, RelationsInv,
                      NEW t \in RowTables, NEW r \in db[t].saved, NEW s \in db[t].saved,
                      [r EXCEPT !.run = 0] = [s EXCEPT !.run = 0],
                      Owner(t, r)[2] \notin Added(Owner(t, r)[1])
               PROVE  r = s
    BY DEF OnlyAddedDuplicated, RowTables
  <2>1. ShapeInv
    BY DEF RelationsInv, FollowInv, RowsRightInv
  <2>2. Owner(t, r)[1] = KindOf(t) /\ Owner(t, r)[2] = IdIn(t, r)
    BY RowTablesFacts DEF Owner, KindOf, IdIn, MemberTables
  <2>3. ASSUME NEW x \in db[t].saved PROVE WholeRow(t, x)
    <3>1. CASE t \in PlainTables
      BY <3>1 DEF WholeRows, AllRows
    <3>2. CASE t \in EditedTables
      <4>1. Shaped(t, x)
        BY <2>1, <3>2 DEF ShapeInv, AllRows
      <4> QED
        BY <3>2, <4>1 DEF Shaped, EditedTables, LineRow, RelationRow, WholeRow, KeyOf, MemberTables
    <3> QED
      BY <3>1, <3>2, RowTablesFacts DEF EditedTables, PlainTables, TopologyTables
  <2>4. WholeRow(t, r) /\ WholeRow(t, s)
    BY <2>3
  <2>5. DOMAIN r = DOMAIN s /\ \A field \in DOMAIN r : field # "run" => r[field] = s[field]
    <3>1. \A field \in DOMAIN r : [r EXCEPT !.run = 0][field] = IF field = "run" THEN 0 ELSE r[field]
      OBVIOUS
    <3>2. \A field \in DOMAIN s : [s EXCEPT !.run = 0][field] = IF field = "run" THEN 0 ELSE s[field]
      OBVIOUS
    <3>3. DOMAIN r = DOMAIN s
      <4>1. DOMAIN [r EXCEPT !.run = 0] = DOMAIN r /\ DOMAIN [s EXCEPT !.run = 0] = DOMAIN s
        OBVIOUS
      <4> QED
        BY <4>1
    <3> QED
      BY <3>1, <3>2, <3>3
  <2>6. IdIn(t, r) = IdIn(t, s)
    <3>1. KeyOf(t) # "run"
      BY DEF KeyOf
    <3>2. r[KeyOf(t)] = s[KeyOf(t)]
      BY <2>4, <2>5, <3>1 DEF WholeRow
    <3> QED
      BY <3>2 DEF IdIn, KeyOf, MemberTables
  <2>7. r.run = s.run
    BY <2>2, <2>6 DEF CopiesInv, OneRun
  <2>8. \A field \in DOMAIN r : r[field] = s[field]
    BY <2>5, <2>7
  <2> QED
    BY <2>4, <2>5, <2>8 DEF WholeRow
<1> QED
    BY <1>1, CopiesInvariant, RelationsInvariant, PTL
=============================================================================
