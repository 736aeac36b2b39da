-------------------------- MODULE RelationsManager --------------------------
(***************************************************************************)
(* Relations and their members during the two passes of an import: the     *)
(* members database, a vector of elements that is filled in pass 1, sorted *)
(* by prepare_for_lookup() and searched in pass 2, and the stash, where    *)
(* objects are kept as long as a relation needs them.                      *)
(*                                                                         *)
(* A manager is a record of three databases (node, way, relation), the     *)
(* members every relation still waits for, the stash, the relations that   *)
(* were completed in their order, and those of them (history) for which a  *)
(* member could not be had.  Relations are known by their ids, of which    *)
(* there is one each.                                                      *)
(***************************************************************************)
EXTENDS Integers, Sequences
LOCAL INSTANCE SequencesExt

NewManager(rels) ==
    [node |-> <<>>, way |-> <<>>, relation |-> <<>>,
     missing |-> [rel \in rels |-> 0], stash |-> {}, complete |-> <<>>, lost |-> {}]

track(m, kind, rel, ref, num) ==
    [m EXCEPT ![kind] = Append(@, [member |-> ref, num |-> num, rel |-> rel,
                                   stored |-> FALSE, removed |-> FALSE]),
              !.missing[rel] = @ + 1]

Before(a, b) ==
    \/ a.member < b.member
    \/ a.member = b.member /\ a.num < b.num
    \/ a.member = b.member /\ a.num = b.num /\ a.rel < b.rel

SortedElements(s) == SetToSortSeq({s[k] : k \in DOMAIN s}, Before)
prepare_for_lookup(m) ==
    [m EXCEPT !.node = SortedElements(@), !.way = SortedElements(@),
              !.relation = SortedElements(@)]
---------------------------------------------------------------------------
(* std::equal_range, by halves, as it goes on any vector: only if the vector *)
(* is sorted does it find what it should.                                    *)

\* Of the n elements from first on: the first one that is not less than id.
LowerBound(s, id, first, n) ==
    LET halve[len \in 0..n, at \in 1..Len(s) + 1] ==
            IF len = 0 THEN at
            ELSE LET half == len \div 2
                 IN IF s[at + half].member < id
                    THEN halve[len - half - 1, at + half + 1]
                    ELSE halve[half, at]
    IN halve[n, first]

\* The first one that is greater.
UpperBound(s, id, first, n) ==
    LET halve[len \in 0..n, at \in 1..Len(s) + 1] ==
            IF len = 0 THEN at
            ELSE LET half == len \div 2
                 IN IF id < s[at + half].member
                    THEN halve[half, at]
                    ELSE halve[len - half - 1, at + half + 1]
    IN halve[n, first]

\* Positions of the range: from the first one up to the one before the second.
find(s, id) ==
    LET search[len \in 0..Len(s), at \in 1..Len(s) + 1] ==
            IF len = 0 THEN <<at, at>>
            ELSE LET half == len \div 2
                     mid == at + half
                 IN IF s[mid].member < id THEN search[len - half - 1, mid + 1]
                    ELSE IF id < s[mid].member THEN search[half, at]
                    ELSE <<LowerBound(s, id, at, half),
                           UpperBound(s, id, mid + 1, len - half - 1)>>
    IN search[Len(s), 1]

Found(s, id) == find(s, id)[1]..find(s, id)[2] - 1

\* get_object(): through the first element of the range.
AtHand(m, kind, id) ==
    /\ Found(m[kind], id) # {}
    /\ m[kind][find(m[kind], id)[1]].stored
    /\ <<kind, id>> \in m.stash
---------------------------------------------------------------------------
\* Faulty variant: an object is thrown away with the first relation it was for.
remove_Early(m, kind, id, rel) ==
    LET range == Found(m[kind], id)
        hits == {k \in range : ~m[kind][k].removed /\ m[kind][k].rel = rel}
    IN IF range = {} THEN m
       ELSE [m EXCEPT
                !.stash = @ \ {<<kind, id>>},
                ![kind] = [k \in DOMAIN @ |->
                    [@[k] EXCEPT !.removed = @ \/ (k \in hits /\ \A j \in hits : k <= j)]]]

\* The object leaves the stash when it was needed for the last time; the first
\* element for the relation is marked.
remove(m, kind, id, rel) ==
    LET range == Found(m[kind], id)
        needed == {k \in range : ~m[kind][k].removed}
        hits == {k \in needed : m[kind][k].rel = rel}
    IN IF range = {} THEN m
       ELSE [m EXCEPT
                !.stash = IF \E k \in needed : needed = {k} THEN @ \ {<<kind, id>>} ELSE @,
                ![kind] = [k \in DOMAIN @ |->
                    [@[k] EXCEPT !.removed = @ \/ (k \in hits /\ \A j \in hits : k <= j)]]]

\* The relation is handed over while its members are in the stash, then they
\* are released one by one.  mems: the members that are tracked.
handle_complete_relation(m, rel, mems) ==
    LET Release(n, member) == remove(n, member.kind, member.ref, rel)
    IN FoldLeft(Release,
                [m EXCEPT !.complete = Append(@, rel),
                          !.lost = IF \A k \in DOMAIN mems : AtHand(m, mems[k].kind, mems[k].ref)
                                   THEN @ ELSE @ \cup {rel}],
                mems)

\* add(): a member is stored once and all relations are told, one after the
\* other; the last one for which a relation waits completes it.
add(m, kind, id, TrackedMembers(_)) ==
    LET range == Found(m[kind], id)
        stored == [m EXCEPT
                    !.stash = @ \cup {<<kind, id>>},
                    ![kind] = [k \in DOMAIN @ |->
                                [@[k] EXCEPT !.stored = @ \/ k \in range]]]
        Tell(n, k) ==
            LET rel == n[kind][k].rel
                told == [n EXCEPT !.missing[rel] = @ - 1]
            IN IF told.missing[rel] = 0
               THEN handle_complete_relation(told, rel, TrackedMembers(rel))
               ELSE told
    IN IF range = {} THEN m
       ELSE FoldLeft(Tell, stored, SetToSortSeq(range, LAMBDA a, b : a < b))
=============================================================================
