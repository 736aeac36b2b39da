---------------------------- MODULE PendingList ----------------------------
(***************************************************************************)
(* The life of one pending container of DiffHandler2, for ways or for      *)
(* relations:                                                              *)
(*                                                                         *)
(*   collect   node(), way() and update_way() push the ids they read from  *)
(*             the member tables, in any order and with repetitions;       *)
(*   scan      write_new_nodes() or write_new_ways() has sorted the        *)
(*             container, and way() or relation() crosses out the objects  *)
(*             that the diff itself contains, which arrive sorted by id;   *)
(*   work      clean_up_container_and_work_on() calls update_way() or      *)
(*             update_relation() for what is left.                         *)
(*                                                                         *)
(* A container that is never scanned goes from collect to work directly:   *)
(* the relations of a diff that contains no relation.                      *)
(***************************************************************************)
EXTENDS Pending

CONSTANTS
    Ids,        \* the ids an object of this type can have
    MaxPush     \* how many entries are pushed at most

ASSUME IdsAssumption == Ids \subseteq Nat \ {0}
ASSUME MaxPushAssumption == MaxPush \in Nat

VARIABLES
    phase,      \* "collect", "scan", "work" or "done"
    list,       \* the container
    idx,        \* m_pending_ways_idx, m_pending_relations_idx (from 1)
    it,         \* iterator of clean_up_container_and_work_on (from 1)
    last,       \* local variable of the same name
    calls,      \* history: the calls of func, in order
    pushed,     \* history: the ids that were ever pushed
    seen        \* history: the ids the diff contained so far

vars == <<phase, list, idx, it, last, calls, pushed, seen>>

Init ==
    /\ phase = "collect"
    /\ list = <<>>
    /\ idx = 1
    /\ it = 1
    /\ last = 0
    /\ calls = <<>>
    /\ pushed = {}
    /\ seen = {}

\* push_back() of an id that a member table returned.
Push(id) ==
    /\ phase = "collect"
    /\ Len(list) < MaxPush
    /\ list' = Append(list, id)
    /\ pushed' = pushed \cup {id}
    /\ UNCHANGED <<phase, idx, it, last, calls, seen>>

\* write_new_nodes(), write_new_ways(): sort and remove repetitions.
Sort ==
    /\ phase = "collect"
    /\ list' \in SortedUnique(list)
    /\ phase' = "scan"
    /\ UNCHANGED <<idx, it, last, calls, pushed, seen>>

\* way(), relation(): the diff contains the object itself.  The file is
\* sorted; an id may come again, if the file has several versions of it.
Handle(id) ==
    /\ phase = "scan"
    /\ \A s \in seen : s <= id
    /\ list' = CrossOut(list, idx, id)
    /\ idx' = NextIdx(list, idx, id)
    /\ seen' = seen \cup {id}
    /\ UNCHANGED <<phase, it, last, calls, pushed>>

\* Faulty variant: the iterator is incremented once too often.
CleanUpSkipsTwo ==
    /\ phase \in {"collect", "scan"}
    /\ list' \in Sorted(list)
    /\ phase' = "work"
    /\ it' = Cardinality({k \in DOMAIN list' : list'[k] = 0}) + 3
    /\ last' = 0
    /\ UNCHANGED <<idx, calls, pushed, seen>>

\* clean_up_container_and_work_on() up to its loop.
CleanUp ==
    /\ phase \in {"collect", "scan"}
    /\ list' \in Sorted(list)
    /\ LET open == {k \in DOMAIN list' : list'[k] > 0}
       IN  \/ open = {} /\ phase' = "done" /\ it' = it
           \/ /\ phase' = "work"
              /\ \E first \in open :
                    (\A k \in open : first <= k) /\ it' = first + 1
    /\ last' = 0
    /\ UNCHANGED <<idx, calls, pushed, seen>>

\* Faulty variant: the iterator is not incremented at a repetition.
VisitStuck ==
    /\ phase = "work"
    /\ it <= Len(list)
    /\ last # list[it]
    /\ calls' = Append(calls, list[it]) /\ last' = list[it]
    /\ it' = it + 1
    /\ UNCHANGED <<phase, list, idx, pushed, seen>>

\* One iteration of the loop of clean_up_container_and_work_on().
Visit ==
    /\ phase = "work"
    /\ it <= Len(list)
    /\ IF last # list[it]
       THEN calls' = Append(calls, list[it]) /\ last' = list[it]
       ELSE UNCHANGED <<calls, last>>
    /\ it' = it + 1
    /\ UNCHANGED <<phase, list, idx, pushed, seen>>

Finish ==
    /\ phase = "work"
    /\ it > Len(list)
    /\ phase' = "done"
    /\ UNCHANGED <<list, idx, it, last, calls, pushed, seen>>

Work == CleanUp \/ Visit \/ Finish

Next ==
    \/ \E id \in Ids : Push(id) \/ Handle(id)
    \/ Sort
    \/ Work

\* The loop runs to its end: it neither waits nor reads anything.  Whether it is
\* entered at all is the caller's business and is not assumed.
Fairness == WF_vars(Visit \/ Finish)

Spec == Init /\ [][Next]_vars /\ Fairness
-----------------------------------------------------------------------------
TypeOK ==
    /\ phase \in {"collect", "scan", "work", "done"}
    /\ list \in Seq(Ids \cup {0})
    /\ idx \in Nat \ {0}
    /\ it \in Nat \ {0}
    /\ last \in Ids \cup {0}
    /\ calls \in Seq(Ids)
    /\ pushed \subseteq Ids
    /\ seen \subseteq Ids

\* The resumed search of way() and relation() is exact: although it never goes
\* back behind its last hit and gives up at the first larger entry, the open
\* entries are at any time the pushed ids that the diff has not contained.
ScanIsExact == Open(list) = pushed \ seen

\* No object that the diff contains is worked on again, and nothing is worked
\* on that no member table asked for.
OnlyPending == Entries(calls) \subseteq pushed \ seen

\* func is called at most once per object and in ascending order, however often
\* the object was pushed.
CalledOnce == StrictlyAscending(calls)

\* What is left out: at most one object, and only the smallest one.
AtMostFirstSkipped ==
    phase = "done" =>
        \A id \in (pushed \ seen) \ Entries(calls) :
            \A other \in pushed \ seen : id <= other

\* WorkIds summarises the loop.
WorkIdsIsLoop ==
    phase = "done" => Entries(calls) = WorkIds(list)

\* "... and then call a function for each non-zero element"
\* (diff_handler2.hpp:145).
EachNonZeroElement ==
    phase = "done" => Entries(calls) = pushed \ seen

\* Seen as a set: what stands behind the iterator is still to be done, apart from
\* repetitions of the last call.
Waiting ==
    IF phase = "work"
    THEN {list[k] : k \in {k \in DOMAIN list : k >= it}} \ {last}
    ELSE IF phase = "done" THEN {} ELSE Open(list)

\* Once the loop of clean_up_container_and_work_on() has begun, every object
\* behind the iterator is worked on sooner or later, whatever repetitions stand
\* in front of it.
WaitingIsCalled ==
    \A id \in Ids : (phase = "work" /\ id \in Waiting) ~> (id \in Entries(calls))

Stage ==
    CASE phase = "work" -> "closed"
      [] phase = "done" -> "over"
      [] OTHER -> "open"
Promise == INSTANCE WorkSet WITH stage <- Stage, todo <- Waiting

\* The container implements the work set: the vector with its marks and its two
\* indices never loses, repeats or invents work, apart from the first object.
KeepsPromise == Promise!Spec
=============================================================================
