------------------------------ MODULE Pending ------------------------------
(***************************************************************************)
(* The pending containers of DiffHandler2 (m_pending_ways and              *)
(* m_pending_relations): plain vectors of object ids that are filled while *)
(* the diff is read, sorted once, crossed out while the objects of the     *)
(* diff arrive in ascending order, and finally worked on.                  *)
(*                                                                         *)
(* A container is a sequence of naturals; 0 is the mark of a crossed-out   *)
(* entry.  std::sort and std::unique are described by their result, a set  *)
(* of possible sequences with one element, so that no sorting algorithm    *)
(* has to be written down.                                                 *)
(***************************************************************************)
EXTENDS Naturals, Sequences, FiniteSets

\* The ids that occur in a container.
Entries(list) == {list[i] : i \in DOMAIN list}

\* The ids that are still to be worked on.
Open(list) == Entries(list) \ {0}

Ascending(s) == \A i, j \in DOMAIN s : i < j => s[i] <= s[j]
StrictlyAscending(s) == \A i, j \in DOMAIN s : i < j => s[i] < s[j]

\* std::sort: the rearrangements of list that are in order.
Rearrangement(list) ==
    {p \in [DOMAIN list -> DOMAIN list] :
        \A j \in DOMAIN list : \E i \in DOMAIN list : p[i] = j}
Sorted(list) ==
    {s \in {[i \in DOMAIN list |-> list[p[i]]] : p \in Rearrangement(list)} :
        Ascending(s)}

\* Faulty variant: std::unique is forgotten.
SortedOnly(list) == Sorted(list)

\* std::sort followed by erase(std::unique(...)).
SortedUnique(list) ==
    {s \in [1 .. Cardinality(Entries(list)) -> Entries(list)] :
        StrictlyAscending(s) /\ Entries(s) = Entries(list)}

\* The loop at the end of DiffHandler2::way() and ::relation(): it starts at
\* the position of the previous hit, stops behind the position where id would
\* have to be, and crosses the entry out if it is there.
Hits(list, idx, id) ==
    {k \in idx .. Len(list) :
        list[k] = id /\ \A j \in idx .. (k - 1) : list[j] < id}

\* Faulty variant: a larger entry is crossed out if id is not there (std::lower_bound).
CrossOutLowerBound(list, idx, id) ==
    [k \in DOMAIN list |->
        IF k >= idx /\ list[k] >= id /\ \A j \in idx .. (k - 1) : list[j] < id
        THEN 0 ELSE list[k]]

CrossOut(list, idx, id) ==
    [k \in DOMAIN list |-> IF k \in Hits(list, idx, id) THEN 0 ELSE list[k]]

\* Faulty variant: the position is remembered one too small.
NextIdxFromZero(list, idx, id) ==
    IF Hits(list, idx, id) = {} THEN idx ELSE (CHOOSE k \in Hits(list, idx, id) : TRUE) - 1

NextIdx(list, idx, id) ==
    IF Hits(list, idx, id) = {} THEN idx ELSE CHOOSE k \in Hits(list, idx, id) : TRUE

\* Faulty variant: the loop starts with the entry find_if() returns.
EveryOpenId(list) == Open(list)

\* The ids clean_up_container_and_work_on() calls its function with.  The
\* iterator that find_if() returns is incremented before the loop, so an id is
\* visited only if another open entry stands in front of one of its entries.
WorkIds(list) ==
    {list[k] : k \in {k \in DOMAIN list :
        /\ list[k] > 0
        /\ \E j \in DOMAIN list \ {k} : list[j] > 0 /\ list[j] <= list[k]}}
=============================================================================
