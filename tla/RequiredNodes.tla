---------------------------- MODULE RequiredNodes ----------------------------
(***************************************************************************)
(* RequiredNodesTracking: the nodes of address interpolations, remembered  *)
(* in pass 1 and looked up in pass 2.  The lookup resumes where the last   *)
(* one succeeded.  Both of its loops read behind the last element of the   *)
(* vector: what they find there is not determined.                         *)
(***************************************************************************)
EXTENDS Pending, Integers

VARIABLES
    m_vector,  \* ids, in the order of pass 1 until they are sorted
    last,      \* m_last_node_iter, as an index; Len + 1 is the end, Len + 2
               \* stands for everything behind the end
    strayed    \* history: memory behind the vector has been read

trackingVars == <<m_vector, last, strayed>>

TrackingInit == m_vector = <<>> /\ last = 1 /\ strayed = FALSE

track(ids) == m_vector' = m_vector \o ids /\ UNCHANGED <<last, strayed>>

\* std::unique moves the ids to the front; nothing is erased, so what was
\* behind them is still there.
prepare_for_lookup ==
    /\ \E unique \in SortedUnique(m_vector), sorted \in Sorted(m_vector) :
        m_vector' = unique \o SubSeq(sorted, Len(unique) + 1, Len(sorted))
    /\ last' = 1
    /\ UNCHANGED strayed

End == Len(m_vector) + 1

\* Results of a lookup: the answer, the new position, and whether it has read
\* behind the vector.
Found(k) == [needed |-> TRUE, last |-> k + 1, stray |-> FALSE, dead |-> FALSE]
NotFound == [needed |-> FALSE, last |-> last, stray |-> FALSE, dead |-> FALSE]

\* Behind the vector there may be a smaller number, on which a loop stops, the
\* number searched for, or the end of the memory of the program.
Astray == {[NotFound EXCEPT !.stray = TRUE],
           [Found(End) EXCEPT !.stray = TRUE],
           [NotFound EXCEPT !.stray = TRUE, !.dead = TRUE]}

\* The loop that goes forward: to the first element that is not smaller.  It
\* compares the element behind the last one with the id.
Forward(id) ==
    LET stops == {k \in last..Len(m_vector) : id <= m_vector[k]}
    IN IF stops = {} THEN {r \in Astray : ~r.dead}
       ELSE LET k == CHOOSE k \in stops : \A j \in stops : k <= j
            IN IF m_vector[k] = id THEN {Found(k)} ELSE {NotFound}

\* The loop that should go backward goes forward, too, as long as elements are
\* greater: they are, up to the end, or up to what std::unique has left there.
Backward(id) ==
    LET stops == {k \in last..Len(m_vector) : m_vector[k] <= id}
    IN IF stops = {} THEN Astray
       ELSE LET k == CHOOSE k \in stops : \A j \in stops : k <= j
            IN IF m_vector[k] = id THEN {Found(k)} ELSE {NotFound}

\* Faulty variant: the loop backward is not entered, the loop forward does not begin.
Lookups_HitsOnly(id) ==
    IF last = End THEN {NotFound}
    ELSE IF last <= Len(m_vector) /\ m_vector[last] = id THEN {Found(last)} ELSE {NotFound}

\* All possible results of node_needed().
Lookups(id) ==
    IF last = End THEN {NotFound}
    ELSE IF last > End THEN Astray
    ELSE IF m_vector[last] <= id THEN Forward(id)
    ELSE IF last = 1 THEN {NotFound}
    ELSE Backward(id)

\* A lookup that comes back.
node_needed(id, r) ==
    /\ r \in Lookups(id)
    /\ last' = r.last
    /\ strayed' = (strayed \/ r.stray)
    /\ UNCHANGED m_vector
=============================================================================
