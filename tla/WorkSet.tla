------------------------------ MODULE WorkSet ------------------------------
(***************************************************************************)
(* What a pending container of DiffHandler2 promises, without the vector:  *)
(* a set of objects.  While it is open, objects are requested by the       *)
(* member tables and cancelled by the diff; then it is closed and every    *)
(* object in it is done exactly once, the smallest first.  The one         *)
(* concession to the implementation is that closing may lose the smallest  *)
(* object.                                                                 *)
(***************************************************************************)
EXTENDS Naturals

CONSTANT Ids

VARIABLES
    stage,      \* "open", "closed" or "over"
    todo        \* the objects that are waiting

Smallest(id) == id \in todo /\ \A other \in todo : id <= other

Init ==
    /\ stage = "open"
    /\ todo = {}

Request(id) ==
    /\ stage = "open"
    /\ todo' = todo \cup {id}
    /\ UNCHANGED stage

Cancel(id) ==
    /\ stage = "open"
    /\ todo' = todo \ {id}
    /\ UNCHANGED stage

Close ==
    /\ stage = "open"
    /\ \/ stage' = "closed" /\ UNCHANGED todo
       \/ \E id \in todo : Smallest(id) /\ stage' = "closed" /\ todo' = todo \ {id}
       \/ todo = {} /\ stage' = "over" /\ UNCHANGED todo

Do(id) ==
    /\ stage = "closed"
    /\ Smallest(id)
    /\ todo' = todo \ {id}
    /\ UNCHANGED stage

Over ==
    /\ stage = "closed"
    /\ todo = {}
    /\ stage' = "over"
    /\ UNCHANGED todo

Next ==
    \/ \E id \in Ids : Request(id) \/ Cancel(id) \/ Do(id)
    \/ Close
    \/ Over

Spec == Init /\ [][Next]_<<stage, todo>>
=============================================================================
