-------------------------- MODULE PendingListProofs --------------------------
(***************************************************************************)
(* Proofs about PendingList, for any set of ids and any number of entries. *)
(***************************************************************************)
EXTENDS PendingList, FiniteSetTheorems, TLAPS

\* A container has finitely many ids.
LEMMA EntriesFinite ==
    ASSUME NEW S, NEW s \in Seq(S)
    PROVE  IsFiniteSet(Entries(s))
<1>1. IsFiniteSet(DOMAIN s)
    BY FS_Interval
<1>2. s \in Surjection(DOMAIN s, Entries(s))
    BY DEF Entries, Surjection
<1> QED
    BY <1>1, <1>2, FS_Surjection

LEMMA NumbersOnly ==
    ASSUME NEW S, S \subseteq Nat, NEW s \in Seq(S)
    PROVE  s \in Seq(Nat) /\ \A k \in DOMAIN s : k \in Nat /\ s[k] \in Nat
<1>1. Len(s) \in Nat /\ s \in [1 .. Len(s) -> S]
    OBVIOUS
<1>2. s \in [1 .. Len(s) -> Nat]
    BY <1>1
<1>3. s \in Seq(Nat)
    BY <1>1, <1>2
<1>4. \A k \in DOMAIN s : k \in Nat /\ s[k] \in S
    BY <1>1
<1> QED
    BY <1>3, <1>4

LEMMA IdsAreNumbers == Ids \subseteq Nat /\ Ids \cup {0} \subseteq Nat
BY IdsAssumption

\* Sorting and removing repetitions keeps the ids.
LEMMA SortedUniqueResult ==
    ASSUME NEW S, NEW s \in Seq(S), NEW t \in SortedUnique(s)
    PROVE  /\ t \in Seq(S)
           /\ Entries(t) = Entries(s)
           /\ StrictlyAscending(t)
<1>1. Cardinality(Entries(s)) \in Nat
    BY EntriesFinite, FS_CardinalityType
<1>2. Entries(s) \subseteq S
    BY DEF Entries
<1>3. t \in [1 .. Cardinality(Entries(s)) -> S]
    BY <1>2 DEF SortedUnique
<1> QED
    BY <1>1, <1>3 DEF SortedUnique

\* Sorting keeps the ids.
LEMMA SortedResult ==
    ASSUME NEW S, NEW s \in Seq(S), NEW t \in Sorted(s)
    PROVE  /\ t \in Seq(S)
           /\ Entries(t) = Entries(s)
           /\ Ascending(t)
<1>1. PICK p \in Rearrangement(s) : t = [i \in DOMAIN s |-> s[p[i]]]
    BY DEF Sorted
<1>2. p \in [DOMAIN s -> DOMAIN s] /\ \A j \in DOMAIN s : \E i \in DOMAIN s : p[i] = j
    BY DEF Rearrangement
<1>3. t \in [1 .. Len(s) -> S]
    BY <1>1, <1>2
<1>4. t \in Seq(S)
    BY <1>3
<1>5. Entries(t) = Entries(s)
    BY <1>1, <1>2 DEF Entries
<1> QED
    BY <1>4, <1>5 DEF Sorted
-----------------------------------------------------------------------------
(* The resumed search. *)

\* The open entries are in order, and none of them is repeated.
InOrder(s) ==
    \A i, j \in DOMAIN s : i < j /\ s[i] # 0 /\ s[j] # 0 => s[i] < s[j]

\* What the search has left behind is smaller than some object of the diff.
Passed(s, from, ids) ==
    \A k \in DOMAIN s : k < from /\ s[k] # 0 => \E id \in ids : s[k] < id

\* If the list is in order and everything open before idx is smaller than id, the
\* search finds id if it is there, crosses it out and nothing else.
LEMMA CrossOutResult ==
    ASSUME NEW s \in Seq(Nat), NEW from \in Nat \ {0}, NEW id \in Nat \ {0},
           InOrder(s),
           \A k \in DOMAIN s : k < from /\ s[k] # 0 => s[k] < id
    PROVE  /\ CrossOut(s, from, id) \in Seq(Nat)
           /\ DOMAIN CrossOut(s, from, id) = DOMAIN s
           /\ \A k \in DOMAIN s :
                CrossOut(s, from, id)[k] = IF s[k] = id THEN 0 ELSE s[k]
<1> DEFINE t == CrossOut(s, from, id)
<1>1. \A k \in Hits(s, from, id) : k \in DOMAIN s /\ s[k] = id
    BY DEF Hits
<1>2. ASSUME NEW k \in DOMAIN s, s[k] = id
      PROVE  k \in Hits(s, from, id)
  <2>1. k >= from
    BY <1>2
  <2>2. \A j \in from .. (k - 1) : s[j] < id
    BY <1>2 DEF InOrder
  <2> QED
    BY <1>2, <2>1, <2>2 DEF Hits
<1>3. t = [k \in DOMAIN s |-> IF s[k] = id THEN 0 ELSE s[k]]
    BY <1>1, <1>2 DEF CrossOut
<1> QED
    BY <1>3

\* The position of the search stays a position, and everything open that it has
\* left behind is smaller than id.
LEMMA NextIdxResult ==
    ASSUME NEW s \in Seq(Nat), NEW from \in Nat \ {0}, NEW id \in Nat \ {0},
           \A k \in DOMAIN s : k < from /\ s[k] # 0 => s[k] < id
    PROVE  /\ NextIdx(s, from, id) \in Nat \ {0}
           /\ \A k \in DOMAIN s : k < NextIdx(s, from, id) /\ s[k] # 0 => s[k] < id
<1>1. CASE Hits(s, from, id) = {}
    BY <1>1 DEF NextIdx
<1>2. CASE Hits(s, from, id) # {}
  <2>1. NextIdx(s, from, id) \in Hits(s, from, id)
    BY <1>2 DEF NextIdx
  <2> QED
    BY <2>1 DEF Hits
<1> QED
    BY <1>1, <1>2
-----------------------------------------------------------------------------
(* The inductive invariant. *)

\* Collecting: nothing has been searched yet, and no entry is crossed out.
CollectInv ==
    phase = "collect" =>
        /\ seen = {} /\ idx = 1
        /\ Entries(list) = pushed
        /\ calls = <<>>

\* Searching: ScanIsExact needs the order of the list and the position idx.
ScanInv ==
    phase = "scan" =>
        /\ InOrder(list)
        /\ Passed(list, idx, seen)
        /\ calls = <<>>

\* Working: the list is sorted, the calls are what the iterator has passed, and
\* whatever it has passed without a call is not larger than anything open.
WorkInv ==
    phase \in {"work", "done"} =>
        /\ Ascending(list)
        /\ Entries(calls) \subseteq Open(list)
        /\ StrictlyAscending(calls)
        /\ \A i \in DOMAIN calls : calls[i] <= last
        /\ last \in Entries(calls) \cup {0}
        /\ \A k \in DOMAIN list : k < it \/ phase = "done" =>
            \/ list[k] \in Entries(calls) \cup {0}
            \/ \A id \in Open(list) : list[k] <= id
        /\ \A k \in DOMAIN list : k >= it /\ phase = "work" =>
            last <= list[k] /\ list[k] # 0

ListInv == TypeOK /\ ScanIsExact /\ CollectInv /\ ScanInv /\ WorkInv
-----------------------------------------------------------------------------
LEMMA InitListInv == Init => ListInv
<1> SUFFICES ASSUME Init PROVE ListInv
    OBVIOUS
<1>1. Entries(<<>>) = {}
    BY DEF Entries
<1>2. TypeOK
    BY DEF Init, TypeOK
<1>3. ScanIsExact
    BY <1>1 DEF Init, ScanIsExact, Open
<1> QED
    BY <1>1, <1>2, <1>3 DEF Init, ListInv, CollectInv, ScanInv, WorkInv

LEMMA PushListInv ==
    ASSUME ListInv, NEW id \in Ids, Push(id)
    PROVE  ListInv'
<1> USE IdsAssumption
<1>1. TypeOK /\ phase = "collect" /\ seen = {} /\ Entries(list) = pushed
        /\ list' = Append(list, id) /\ pushed' = pushed \cup {id}
        /\ UNCHANGED <<phase, idx, it, last, calls, seen>>
    BY DEF ListInv, CollectInv, Push
<1>2. list \in Seq(Ids \cup {0})
    BY <1>1 DEF TypeOK
<1>3. Entries(list') = Entries(list) \cup {id}
    BY <1>1, <1>2 DEF Entries
<1>4. TypeOK'
    BY <1>1, <1>2 DEF TypeOK
<1>5. ScanIsExact'
    BY <1>1, <1>3 DEF ScanIsExact, Open, TypeOK
<1>6. CollectInv'
    BY <1>1, <1>3 DEF ListInv, CollectInv
<1> QED
    BY <1>1, <1>4, <1>5, <1>6 DEF ListInv, ScanInv, WorkInv

LEMMA SortListInv ==
    ASSUME ListInv, Sort
    PROVE  ListInv'
<1>1. TypeOK /\ phase = "collect" /\ seen = {} /\ idx = 1 /\ calls = <<>>
        /\ Entries(list) = pushed /\ phase' = "scan" /\ list' \in SortedUnique(list)
        /\ UNCHANGED <<idx, it, last, calls, pushed, seen>>
    BY DEF ListInv, CollectInv, Sort
<1>2. list \in Seq(Ids \cup {0})
    BY <1>1 DEF TypeOK
<1>3. list' \in Seq(Ids \cup {0}) /\ Entries(list') = Entries(list) /\ StrictlyAscending(list')
    BY <1>1, <1>2, SortedUniqueResult
<1>4. TypeOK'
    BY <1>1, <1>3 DEF TypeOK
<1>5. ScanIsExact'
    BY <1>1, <1>3 DEF ListInv, ScanIsExact, Open
<1>6. ScanInv'
    BY <1>1, <1>3 DEF ScanInv, InOrder, Passed, StrictlyAscending
<1> QED
    BY <1>1, <1>4, <1>5, <1>6 DEF ListInv, CollectInv, WorkInv

LEMMA HandleListInv ==
    ASSUME ListInv, NEW id \in Ids, Handle(id)
    PROVE  ListInv'
<1> USE IdsAssumption
<1>1. TypeOK /\ phase = "scan" /\ InOrder(list) /\ Passed(list, idx, seen)
        /\ calls = <<>> /\ Open(list) = pushed \ seen
        /\ (\A s \in seen : s <= id)
        /\ list' = CrossOut(list, idx, id) /\ idx' = NextIdx(list, idx, id)
        /\ seen' = seen \cup {id}
        /\ UNCHANGED <<phase, it, last, calls, pushed>>
    BY DEF ListInv, ScanInv, ScanIsExact, Handle
<1>2. /\ list \in Seq(Ids \cup {0}) /\ list \in Seq(Nat)
      /\ idx \in Nat \ {0} /\ seen \subseteq Ids
  <2>1. list \in Seq(Ids \cup {0}) /\ idx \in Nat \ {0} /\ seen \subseteq Ids
    BY <1>1 DEF TypeOK
  <2>2. list \in Seq(Nat)
    BY <2>1, NumbersOnly, IdsAreNumbers
  <2> QED
    BY <2>1, <2>2
<1>3. \A k \in DOMAIN list : k < idx /\ list[k] # 0 => list[k] < id
    BY <1>1, <1>2 DEF Passed
<1>4. /\ list' \in Seq(Nat) /\ DOMAIN list' = DOMAIN list
      /\ \A k \in DOMAIN list : list'[k] = IF list[k] = id THEN 0 ELSE list[k]
    BY <1>1, <1>2, <1>3, CrossOutResult
<1>5. /\ idx' \in Nat \ {0}
      /\ \A k \in DOMAIN list : k < idx' /\ list[k] # 0 => list[k] < id
    BY <1>1, <1>2, <1>3, NextIdxResult
<1>6. list' \in Seq(Ids \cup {0})
    BY <1>2, <1>4
<1>7. TypeOK'
    BY <1>1, <1>5, <1>6 DEF TypeOK
<1>8. Open(list') = Open(list) \ {id}
    BY <1>2, <1>4 DEF Open, Entries
<1>9. ScanIsExact'
    BY <1>1, <1>8 DEF ScanIsExact
<1>10. ScanInv'
  <2>1. InOrder(list')
    BY <1>1, <1>4 DEF InOrder
  <2>2. Passed(list', idx', seen')
    BY <1>1, <1>4, <1>5 DEF Passed
  <2> QED
    BY <1>1, <2>1, <2>2 DEF ScanInv
<1> QED
    BY <1>1, <1>7, <1>9, <1>10 DEF ListInv, CollectInv, WorkInv

LEMMA CleanUpListInv ==
    ASSUME ListInv, CleanUp
    PROVE  ListInv'
<1> USE IdsAssumption
<1>1. /\ TypeOK /\ Open(list) = pushed \ seen /\ calls = <<>>
      /\ list' \in Sorted(list) /\ last' = 0
      /\ UNCHANGED <<idx, calls, pushed, seen>>
    BY DEF ListInv, CollectInv, ScanInv, ScanIsExact, CleanUp
<1>2. list \in Seq(Ids \cup {0})
    BY <1>1 DEF TypeOK
<1>3. list' \in Seq(Ids \cup {0}) /\ Entries(list') = Entries(list) /\ Ascending(list')
    BY <1>1, <1>2, SortedResult
<1>0. \A k \in DOMAIN list' : k \in Nat /\ list'[k] \in Nat
    BY <1>3, NumbersOnly, IdsAreNumbers
<1>4. ScanIsExact'
    BY <1>1, <1>3 DEF ScanIsExact, Open
<1>5. Entries(calls') = {} /\ StrictlyAscending(calls')
    BY <1>1 DEF Entries, StrictlyAscending
<1>6. CASE phase' = "done" /\ it' = it /\ {k \in DOMAIN list' : list'[k] > 0} = {}
  <2>1. TypeOK'
    BY <1>1, <1>3, <1>6 DEF TypeOK
  <2>2. \A k \in DOMAIN list' : list'[k] = 0
    BY <1>0, <1>6
  <2>3. WorkInv'
    BY <1>1, <1>3, <1>5, <1>6, <2>2 DEF WorkInv
  <2> QED
    BY <1>4, <1>6, <2>1, <2>3 DEF ListInv, CollectInv, ScanInv
<1>7. ASSUME NEW first \in DOMAIN list', list'[first] > 0,
             \A k \in DOMAIN list' : list'[k] > 0 => first <= k,
             phase' = "work", it' = first + 1
      PROVE  ListInv'
  <2>1. TypeOK'
    BY <1>1, <1>3, <1>7 DEF TypeOK
  <2>2. \A k \in DOMAIN list' : k < it' =>
            list'[k] = 0 \/ \A id \in Open(list') : list'[k] <= id
    <3> SUFFICES ASSUME NEW k \in DOMAIN list', k < it', list'[k] # 0,
                        NEW id \in Open(list')
                 PROVE  list'[k] <= id
        OBVIOUS
    <3>1. k = first
        BY <1>0, <1>7
    <3>2. PICK j \in DOMAIN list' : list'[j] = id /\ id # 0
        BY DEF Open, Entries
    <3>3. first <= j
        BY <1>0, <1>7, <3>2
    <3> QED
        BY <1>3, <1>0, <3>1, <3>2, <3>3 DEF Ascending
  <2>3. \A k \in DOMAIN list' : k >= it' => last' <= list'[k] /\ list'[k] # 0
    BY <1>1, <1>3, <1>0, <1>7 DEF Ascending
  <2>4. WorkInv'
    BY <1>1, <1>3, <1>5, <1>7, <2>2, <2>3 DEF WorkInv
  <2> QED
    BY <1>4, <1>7, <2>1, <2>4 DEF ListInv, CollectInv, ScanInv
<1> QED
    BY <1>6, <1>7 DEF CleanUp

LEMMA VisitListInv ==
    ASSUME ListInv, Visit
    PROVE  ListInv'
<1> USE IdsAssumption
<1>1. /\ TypeOK /\ ScanIsExact /\ WorkInv /\ phase = "work" /\ it <= Len(list)
      /\ it' = it + 1
      /\ UNCHANGED <<phase, list, idx, pushed, seen>>
    BY DEF ListInv, Visit
<1>2. /\ list \in Seq(Ids \cup {0}) /\ calls \in Seq(Ids)
      /\ it \in DOMAIN list /\ last \in Ids \cup {0}
    BY <1>1 DEF TypeOK
<1>0. /\ \A k \in DOMAIN list : k \in Nat /\ list[k] \in Nat
      /\ \A i \in DOMAIN calls : calls[i] \in Nat
      /\ last \in Nat
  <2>1. \A k \in DOMAIN list : k \in Nat /\ list[k] \in Nat
    BY <1>2, NumbersOnly, IdsAreNumbers
  <2>2. \A i \in DOMAIN calls : calls[i] \in Nat
    BY <1>2, NumbersOnly, IdsAreNumbers
  <2> QED
    BY <1>2, <2>1, <2>2
<1>3. /\ Ascending(list) /\ last <= list[it] /\ list[it] # 0
      /\ \A i \in DOMAIN calls : calls[i] <= last
      /\ last \in Entries(calls) \cup {0}
    BY <1>1, <1>2 DEF WorkInv
<1>4. ScanIsExact'
    BY <1>1 DEF ScanIsExact
<1>5. \A k \in DOMAIN list : k >= it + 1 => list[it] <= list[k] /\ list[k] # 0
    BY <1>1, <1>2, <1>3 DEF WorkInv, Ascending
<1>6. CASE last # list[it]
  <2>1. calls' = Append(calls, list[it]) /\ last' = list[it]
    BY <1>6 DEF Visit
  <2>2. TypeOK'
    BY <1>1, <1>2, <1>3, <2>1 DEF TypeOK
  <2>3. Entries(calls') = Entries(calls) \cup {list[it]}
    BY <1>2, <1>3, <2>1 DEF Entries
  <2>4. \A i \in DOMAIN calls : calls[i] < list[it]
    BY <1>0, <1>2, <1>3, <1>6
  <2>5. StrictlyAscending(calls')
    BY <1>1, <1>2, <1>3, <2>1, <2>4 DEF WorkInv, StrictlyAscending
  <2>6. \A i \in DOMAIN calls' : calls'[i] <= last'
    BY <1>0, <1>2, <1>3, <2>1, <2>4
  <2>7. Entries(calls') \subseteq Open(list')
    <3>1. list[it] \in Open(list)
        BY <1>2, <1>3 DEF Open, Entries
    <3>2. Entries(calls) \subseteq Open(list)
        BY <1>1 DEF WorkInv
    <3> QED
        BY <1>1, <2>3, <3>1, <3>2
  <2>8. \A k \in DOMAIN list' : k < it' =>
            \/ list'[k] \in Entries(calls') \cup {0}
            \/ \A id \in Open(list') : list'[k] <= id
    BY <1>1, <1>2, <2>3 DEF WorkInv
  <2>9. WorkInv'
    BY <1>1, <1>3, <1>5, <2>1, <2>3, <2>5, <2>6, <2>7, <2>8 DEF WorkInv
  <2> QED
    BY <1>1, <1>4, <2>2, <2>9 DEF ListInv, CollectInv, ScanInv
<1>7. CASE last = list[it]
  <2>1. calls' = calls /\ last' = last
    BY <1>7 DEF Visit
  <2>2. TypeOK'
    BY <1>1, <1>2, <2>1 DEF TypeOK
  <2>3. \A k \in DOMAIN list' : k < it' =>
            \/ list'[k] \in Entries(calls') \cup {0}
            \/ \A id \in Open(list') : list'[k] <= id
    BY <1>1, <1>2, <1>3, <1>7, <2>1 DEF WorkInv
  <2>4. WorkInv'
    BY <1>1, <1>5, <1>7, <2>1, <2>3 DEF WorkInv
  <2> QED
    BY <1>1, <1>4, <2>2, <2>4 DEF ListInv, CollectInv, ScanInv
<1> QED
    BY <1>6, <1>7

LEMMA FinishListInv ==
    ASSUME ListInv, Finish
    PROVE  ListInv'
<1>1. /\ TypeOK /\ ScanIsExact /\ WorkInv /\ phase = "work" /\ phase' = "done"
      /\ it > Len(list)
      /\ UNCHANGED <<list, idx, it, last, calls, pushed, seen>>
    BY DEF ListInv, Finish
<1>2. TypeOK' /\ ScanIsExact'
    BY <1>1 DEF TypeOK, ScanIsExact
<1>3. \A k \in DOMAIN list : k < it
    BY <1>1 DEF TypeOK
<1>4. WorkInv'
    BY <1>1, <1>3 DEF WorkInv
<1> QED
    BY <1>1, <1>2, <1>4 DEF ListInv, CollectInv, ScanInv

LEMMA StepListInv == ListInv /\ [Next]_vars => ListInv'
<1> SUFFICES ASSUME ListInv, [Next]_vars PROVE ListInv'
    OBVIOUS
<1>1. CASE \E id \in Ids : Push(id)
    BY <1>1, PushListInv
<1>2. CASE \E id \in Ids : Handle(id)
    BY <1>2, HandleListInv
<1>3. CASE Sort
    BY <1>3, SortListInv
<1>4. CASE CleanUp
    BY <1>4, CleanUpListInv
<1>5. CASE Visit
    BY <1>5, VisitListInv
<1>6. CASE Finish
    BY <1>6, FinishListInv
<1>7. CASE UNCHANGED vars
    BY <1>7 DEF vars, ListInv, TypeOK, ScanIsExact, CollectInv, ScanInv, WorkInv
<1> QED
    BY <1>1, <1>2, <1>3, <1>4, <1>5, <1>6, <1>7 DEF Next, Work
-----------------------------------------------------------------------------
LEMMA ListInvariant == Spec => []ListInv
    BY InitListInv, StepListInv, PTL DEF Spec

\* The variables of the container and of the loop over it have their types.
THEOREM ListTypeOK == Spec => []TypeOK
<1>1. ListInv => TypeOK
    BY DEF ListInv
<1> QED
    BY <1>1, ListInvariant, PTL

\* The resumed search of way() and relation() never misses an entry and never
\* crosses out a wrong one, for any number of objects.
THEOREM SearchIsExact == Spec => []ScanIsExact
<1>1. ListInv => ScanIsExact
    BY DEF ListInv
<1> QED
    BY <1>1, ListInvariant, PTL

\* clean_up_container_and_work_on() never calls its function for an object of the
\* diff or for one that nobody asked for.
THEOREM CallsArePending == Spec => []OnlyPending
<1>1. ListInv => OnlyPending
  <2> SUFFICES ASSUME ListInv PROVE OnlyPending
      OBVIOUS
  <2>1. phase \in {"collect", "scan"} => Entries(calls) = {}
      BY DEF ListInv, CollectInv, ScanInv, Entries
  <2> QED
      BY <2>1 DEF ListInv, OnlyPending, WorkInv, ScanIsExact, TypeOK
<1> QED
    BY <1>1, ListInvariant, PTL

\* It calls its function at most once per object, the smaller ids first.
THEOREM CallsAreOrdered == Spec => []CalledOnce
<1>1. ListInv => CalledOnce
  <2> SUFFICES ASSUME ListInv PROVE CalledOnce
      OBVIOUS
  <2>1. phase \in {"collect", "scan"} => StrictlyAscending(calls)
      BY DEF ListInv, CollectInv, ScanInv, StrictlyAscending
  <2> QED
      BY <2>1 DEF ListInv, CalledOnce, WorkInv, TypeOK
<1> QED
    BY <1>1, ListInvariant, PTL

\* And it leaves out nothing but the smallest of the objects.
THEOREM OnlyFirstIsSkipped == Spec => []AtMostFirstSkipped
<1>1. ListInv => AtMostFirstSkipped
  <2> SUFFICES ASSUME ListInv, phase = "done",
                      NEW id \in (pushed \ seen) \ Entries(calls),
                      NEW other \in pushed \ seen
               PROVE  id <= other
      BY DEF AtMostFirstSkipped
  <2>1. id \in Open(list) /\ other \in Open(list)
      BY DEF ListInv, ScanIsExact
  <2>2. PICK k \in DOMAIN list : list[k] = id /\ id # 0
      BY <2>1 DEF Open, Entries
  <2> QED
      BY <2>1, <2>2 DEF ListInv, WorkInv
<1> QED
    BY <1>1, ListInvariant, PTL
-----------------------------------------------------------------------------
(* The container implements WorkSet. *)

LEMMA PromiseInit == Init => Promise!Init
BY DEF Init, Promise!Init, Stage, Waiting, Open, Entries

LEMMA PushKeepsPromise ==
    ASSUME ListInv, NEW id \in Ids, Push(id)
    PROVE  Promise!Request(id)
<1>1. phase = "collect" /\ phase' = "collect" /\ list' = Append(list, id)
    BY DEF Push
<1>2. list \in Seq(Ids \cup {0}) /\ id # 0
    BY IdsAssumption DEF ListInv, TypeOK
<1>3. Open(list') = Open(list) \cup {id}
    BY <1>1, <1>2 DEF Open, Entries
<1> QED
    BY <1>1, <1>3 DEF Promise!Request, Stage, Waiting

LEMMA SortKeepsPromise ==
    ASSUME ListInv, Sort
    PROVE  UNCHANGED <<Stage, Waiting>>
<1>1. phase = "collect" /\ phase' = "scan" /\ list' \in SortedUnique(list)
    BY DEF Sort
<1>2. Entries(list') = Entries(list)
    BY <1>1, SortedUniqueResult DEF ListInv, TypeOK
<1> QED
    BY <1>1, <1>2 DEF Stage, Waiting, Open

LEMMA HandleKeepsPromise ==
    ASSUME ListInv, NEW id \in Ids, Handle(id)
    PROVE  Promise!Cancel(id)
<1>1. phase = "scan" /\ phase' = "scan" /\ pushed' = pushed /\ seen' = seen \cup {id}
    BY DEF Handle
<1>2. Open(list) = pushed \ seen /\ Open(list') = pushed' \ seen'
    BY HandleListInv DEF ListInv, ScanIsExact
<1> QED
    BY <1>1, <1>2 DEF Promise!Cancel, Stage, Waiting

LEMMA CleanUpKeepsPromise ==
    ASSUME ListInv, CleanUp
    PROVE  Promise!Close
<1>1. phase \in {"collect", "scan"} /\ list' \in Sorted(list) /\ last' = 0
    BY DEF CleanUp
<1>2. list' \in Seq(Ids \cup {0}) /\ Entries(list') = Entries(list) /\ Ascending(list')
    BY <1>1, SortedResult DEF ListInv, TypeOK
<1>3. \A k \in DOMAIN list' : k \in Nat /\ list'[k] \in Nat
    BY <1>2, NumbersOnly, IdsAreNumbers
<1>4. Open(list') = Open(list) /\ Stage = "open" /\ Waiting = Open(list)
    BY <1>1, <1>2 DEF Open, Stage, Waiting
<1>5. CASE phase' = "done" /\ {k \in DOMAIN list' : list'[k] > 0} = {}
  <2>1. Open(list') = {}
    BY <1>3, <1>5 DEF Open, Entries
  <2> QED
    BY <1>4, <1>5, <2>1 DEF Promise!Close, Stage, Waiting
<1>6. ASSUME NEW first \in DOMAIN list', list'[first] > 0,
             \A k \in DOMAIN list' : list'[k] > 0 => first <= k,
             phase' = "work", it' = first + 1
      PROVE  Promise!Close
  <2> DEFINE id == list'[first]
  <2>1. Waiting' = {list'[k] : k \in {k \in DOMAIN list' : k >= first + 1}} \ {0}
    BY <1>1, <1>6 DEF Waiting
  <2>2. id \in Open(list')
    BY <1>3, <1>6 DEF Open, Entries
  <2>3. \A other \in Open(list') : id <= other /\ (other # id => other \in Waiting')
    <3> SUFFICES ASSUME NEW j \in DOMAIN list', list'[j] # 0
                 PROVE  id <= list'[j] /\ (list'[j] # id => list'[j] \in Waiting')
        BY DEF Open, Entries
    <3>1. first <= j
        BY <1>3, <1>6
    <3>2. id <= list'[j]
        BY <1>2, <1>3, <3>1 DEF Ascending
    <3>3. list'[j] # id => j >= first + 1
        BY <1>3, <3>1
    <3> QED
        BY <2>1, <3>2, <3>3
  <2>4. Waiting' \subseteq Open(list')
    BY <2>1 DEF Open, Entries
  <2>5. Waiting' = Waiting \/ Waiting' = Waiting \ {id}
    BY <1>4, <2>3, <2>4
  <2>6. Stage' = "closed"
    BY <1>6 DEF Stage
  <2>7. Promise!Smallest(id)
    BY <1>4, <2>2, <2>3 DEF Promise!Smallest
  <2> QED
    BY <1>4, <2>2, <2>5, <2>6, <2>7 DEF Promise!Close
<1> QED
    BY <1>5, <1>6 DEF CleanUp

LEMMA VisitKeepsPromise ==
    ASSUME ListInv, Visit
    PROVE  (\E id \in Ids : Promise!Do(id)) \/ UNCHANGED <<Stage, Waiting>>
<1>1. /\ phase = "work" /\ phase' = "work" /\ it <= Len(list)
      /\ it' = it + 1 /\ list' = list
    BY DEF Visit
<1>2. list \in Seq(Ids \cup {0}) /\ it \in DOMAIN list /\ last \in Nat
    BY <1>1, IdsAreNumbers DEF ListInv, TypeOK
<1>3. \A k \in DOMAIN list : k \in Nat /\ list[k] \in Nat
    BY <1>2, NumbersOnly, IdsAreNumbers
<1>4. /\ list[it] \in Ids /\ last <= list[it]
      /\ \A k \in DOMAIN list : k >= it => list[it] <= list[k]
    BY <1>1, <1>2, <1>3 DEF ListInv, WorkInv, Ascending
<1>5. Stage = "closed" /\ Stage' = "closed"
    BY <1>1 DEF Stage
<1>6. /\ Waiting = {list[k] : k \in {k \in DOMAIN list : k >= it}} \ {last}
      /\ Waiting' = {list[k] : k \in {k \in DOMAIN list : k >= it + 1}} \ {last'}
    BY <1>1 DEF Waiting
<1>7. {list[k] : k \in {k \in DOMAIN list : k >= it}} =
        {list[it]} \cup {list[k] : k \in {k \in DOMAIN list : k >= it + 1}}
    BY <1>2, <1>3
<1>8. CASE last # list[it]
  <2>1. last' = list[it]
    BY <1>8 DEF Visit
  <2>2. \A k \in DOMAIN list : k >= it + 1 => list[k] # last
    BY <1>2, <1>3, <1>4, <1>8
  <2>3. Waiting' = Waiting \ {list[it]} /\ list[it] \in Waiting
    BY <1>6, <1>7, <1>8, <2>1, <2>2
  <2>4. \A other \in Waiting : list[it] <= other
    BY <1>4, <1>6
  <2>5. Promise!Do(list[it])
    BY <1>5, <2>3, <2>4 DEF Promise!Do, Promise!Smallest
  <2> QED
    BY <1>4, <2>5
<1>9. CASE last = list[it]
  <2>1. last' = last
    BY <1>9 DEF Visit
  <2> QED
    BY <1>5, <1>6, <1>7, <1>9, <2>1
<1> QED
    BY <1>8, <1>9

LEMMA FinishKeepsPromise ==
    ASSUME ListInv, Finish
    PROVE  Promise!Over
<1>1. phase = "work" /\ phase' = "done" /\ it > Len(list)
    BY DEF Finish
<1>2. {k \in DOMAIN list : k >= it} = {}
    BY <1>1 DEF ListInv, TypeOK
<1>3. Waiting = {} /\ Waiting' = {}
    BY <1>1, <1>2 DEF Waiting
<1> QED
    BY <1>1, <1>3 DEF Promise!Over, Stage

LEMMA StepKeepsPromise ==
    ListInv /\ [Next]_vars => [Promise!Next]_<<Stage, Waiting>>
<1> SUFFICES ASSUME ListInv, [Next]_vars
             PROVE  [Promise!Next]_<<Stage, Waiting>>
    OBVIOUS
<1>1. CASE \E id \in Ids : Push(id)
    BY <1>1, PushKeepsPromise DEF Promise!Next
<1>2. CASE \E id \in Ids : Handle(id)
    BY <1>2, HandleKeepsPromise DEF Promise!Next
<1>3. CASE Sort
    BY <1>3, SortKeepsPromise
<1>4. CASE CleanUp
    BY <1>4, CleanUpKeepsPromise DEF Promise!Next
<1>5. CASE Visit
    BY <1>5, VisitKeepsPromise DEF Promise!Next
<1>6. CASE Finish
    BY <1>6, FinishKeepsPromise DEF Promise!Next
<1>7. CASE UNCHANGED vars
    BY <1>7 DEF vars, Stage, Waiting, Open, Entries
<1> QED
    BY <1>1, <1>2, <1>3, <1>4, <1>5, <1>6, <1>7 DEF Next, Work

\* A container of any size, filled, searched and worked on in any order of
\* calls, keeps the promise of WorkSet: every object that was requested and not
\* cancelled is done exactly once, except perhaps the smallest one.
THEOREM ImplementsWorkSet == Spec => KeepsPromise
<1>1. Init => Promise!Init
    BY PromiseInit
<1>2. ListInv /\ [Next]_vars => [Promise!Next]_<<Stage, Waiting>>
    BY StepKeepsPromise
<1> QED
    BY <1>1, <1>2, ListInvariant, PTL DEF Spec, KeepsPromise, Promise!Spec
-----------------------------------------------------------------------------
(* The loop and its summary WorkIds, which the append mode is modelled with. *)

\* The calls are the entries between the first open one and the iterator.
Called(first) ==
    /\ list[first] # 0 /\ first < it
    /\ \A k \in DOMAIN list : k < first => list[k] = 0
    /\ Entries(calls) = {list[k] : k \in {k \in DOMAIN list : first < k /\ k < it}}
    /\ phase = "done" => it > Len(list)
LoopInv ==
    /\ phase = "work" => \E first \in DOMAIN list : Called(first)
    /\ phase = "done" =>
            \/ Open(list) = {} /\ Entries(calls) = {}
            \/ \E first \in DOMAIN list : Called(first)

LEMMA CleanUpLoopInv ==
    ASSUME ListInv, CleanUp
    PROVE  LoopInv'
<1>1. /\ calls = <<>> /\ calls' = calls /\ list \in Seq(Ids \cup {0})
      /\ list' \in Sorted(list)
    BY DEF ListInv, CollectInv, ScanInv, TypeOK, CleanUp
<1>2. Entries(calls') = {} /\ list' \in Seq(Ids \cup {0})
    BY <1>1, SortedResult DEF Entries
<1>3. \A k \in DOMAIN list' : k \in Nat /\ list'[k] \in Nat
    BY <1>2, NumbersOnly, IdsAreNumbers
<1>4. CASE phase' = "done" /\ {k \in DOMAIN list' : list'[k] > 0} = {}
  <2>1. Open(list') = {}
    BY <1>3, <1>4 DEF Open, Entries
  <2> QED
    BY <1>2, <1>4, <2>1 DEF LoopInv
<1>5. ASSUME NEW first \in DOMAIN list', list'[first] > 0,
             \A k \in DOMAIN list' : list'[k] > 0 => first <= k,
             phase' = "work", it' = first + 1
      PROVE  LoopInv'
  <2>1. \A k \in DOMAIN list' : k < first => list'[k] = 0
    BY <1>3, <1>5
  <2>2. {k \in DOMAIN list' : first < k /\ k < it'} = {}
    BY <1>3, <1>5
  <2>3. Called(first)'
    BY <1>2, <1>3, <1>5, <2>1, <2>2 DEF Called
  <2> QED
    BY <1>5, <2>3 DEF LoopInv
<1> QED
    BY <1>4, <1>5 DEF CleanUp

LEMMA VisitLoopInv ==
    ASSUME ListInv, LoopInv, Visit
    PROVE  LoopInv'
<1>1. /\ phase = "work" /\ phase' = "work" /\ it' = it + 1 /\ it <= Len(list)
      /\ list' = list
    BY DEF Visit
<1>2. /\ list \in Seq(Ids \cup {0}) /\ calls \in Seq(Ids) /\ it \in Nat \ {0}
      /\ DOMAIN list = 1 .. Len(list) /\ it \in DOMAIN list
    BY <1>1 DEF ListInv, TypeOK
<1>3. PICK first \in DOMAIN list : Called(first)
    BY <1>1 DEF LoopInv
<1>4. list[it] # 0 /\ last \in Entries(calls) \cup {0}
    BY <1>1, <1>2 DEF ListInv, WorkInv
<1>5. Entries(calls') = Entries(calls) \cup {list[it]}
  <2>1. CASE last # list[it]
    BY <2>1, <1>2 DEF Visit, Entries
  <2>2. CASE last = list[it]
    BY <2>2, <1>4 DEF Visit
  <2> QED
    BY <2>1, <2>2
<1>6. {k \in DOMAIN list : first < k /\ k < it + 1} =
            {k \in DOMAIN list : first < k /\ k < it} \cup {it}
    BY <1>2, <1>3 DEF Called
<1>7. Entries(calls') = {list[k] : k \in {k \in DOMAIN list : first < k /\ k < it + 1}}
    BY <1>3, <1>5, <1>6 DEF Called
<1>8. Called(first)'
    BY <1>1, <1>2, <1>3, <1>7 DEF Called
<1> QED
    BY <1>1, <1>3, <1>8 DEF LoopInv

LEMMA StepLoopInv ==
    ASSUME ListInv, LoopInv, [Next]_vars
    PROVE  LoopInv'
<1>1. CASE \E id \in Ids : Push(id) \/ Handle(id)
    BY <1>1 DEF Push, Handle, LoopInv
<1>2. CASE Sort
    BY <1>2 DEF Sort, LoopInv
<1>3. CASE CleanUp
    BY <1>3, CleanUpLoopInv
<1>4. CASE Visit
    BY <1>4, VisitLoopInv
<1>5. CASE Finish
  <2>1. /\ phase = "work" /\ phase' = "done" /\ it > Len(list)
        /\ UNCHANGED <<list, it, calls>>
    BY <1>5 DEF Finish
  <2> QED
    BY <2>1 DEF LoopInv, Called
<1>6. CASE UNCHANGED vars
    BY <1>6 DEF vars, LoopInv, Called
<1> QED
    BY <1>1, <1>2, <1>3, <1>4, <1>5, <1>6 DEF Next, Work

\* Whatever the container holds, the loop calls its function for exactly the
\* ids of WorkIds: DiffImport may use the summary in place of the loop.
THEOREM LoopIsWorkIds == Spec => []WorkIdsIsLoop
<1>1. Init => ListInv /\ LoopInv
    BY InitListInv DEF Init, LoopInv
<1>2. (ListInv /\ LoopInv) /\ [Next]_vars => (ListInv /\ LoopInv)'
    BY StepListInv, StepLoopInv
<1>3. ListInv /\ LoopInv => WorkIdsIsLoop
  <2> SUFFICES ASSUME ListInv, LoopInv, phase = "done"
               PROVE  Entries(calls) = WorkIds(list)
    BY DEF WorkIdsIsLoop
  <2>1. /\ list \in Seq(Ids \cup {0}) /\ DOMAIN list = 1 .. Len(list)
        /\ Ascending(list)
    BY DEF ListInv, TypeOK, WorkInv
  <2>2. \A k \in DOMAIN list : k \in Nat /\ list[k] \in Nat
    BY <2>1, NumbersOnly, IdsAreNumbers
  <2>3. CASE Open(list) = {} /\ Entries(calls) = {}
    BY <2>2, <2>3 DEF Open, Entries, WorkIds
  <2>4. ASSUME NEW first \in DOMAIN list, Called(first)
        PROVE  Entries(calls) = WorkIds(list)
    <3>1. /\ list[first] # 0 /\ \A k \in DOMAIN list : k < first => list[k] = 0
          /\ \A k \in DOMAIN list : k < it
      BY <2>1, <2>4 DEF Called, ListInv, TypeOK
    <3>2. Entries(calls) = {list[k] : k \in {k \in DOMAIN list : first < k}}
      BY <2>4, <3>1 DEF Called
    <3>3. ASSUME NEW k \in DOMAIN list, first < k
          PROVE  list[k] \in WorkIds(list)
      <4>1. list[first] <= list[k] /\ list[first] > 0 /\ first \in DOMAIN list \ {k}
        BY <2>1, <2>2, <3>1, <3>3 DEF Ascending
      <4> QED
        BY <2>2, <4>1 DEF WorkIds
    <3>4. ASSUME NEW k \in DOMAIN list, NEW j \in DOMAIN list \ {k},
                 list[k] > 0, list[j] > 0, list[j] <= list[k]
          PROVE  \E i \in DOMAIN list : first < i /\ list[i] = list[k]
      <4>1. first <= k /\ first <= j
        BY <2>2, <3>1, <3>4
      <4>2. CASE first < k
        BY <4>2
      <4>3. CASE first = k
        <5>1. first < j /\ list[k] <= list[j]
          BY <2>1, <2>2, <3>4, <4>1, <4>3 DEF Ascending
        <5> QED
          BY <2>2, <3>4, <5>1
      <4> QED
        BY <2>2, <4>1, <4>2, <4>3
    <3>5. WorkIds(list) \subseteq Entries(calls)
      BY <3>2, <3>4 DEF WorkIds
    <3> QED
      BY <3>2, <3>3, <3>5
  <2> QED
    BY <2>3, <2>4 DEF LoopInv
<1> QED
    BY <1>1, <1>2, <1>3, PTL DEF Spec
=============================================================================
