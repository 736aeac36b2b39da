---------------------------- MODULE MCDiffImport ----------------------------
(***************************************************************************)
(* Data sets and change files for DiffImport.                              *)
(***************************************************************************)
EXTENDS DiffProperties

\* Locations are the numbers 11 to 16, 0 is the missing one.
MCLocs == 11 .. 16

\* The objects of a change file.
N(id, v1, loc, tagged) ==
    <<[kind |-> "node", id |-> id, v1 |-> v1, deleted |-> FALSE,
       loc |-> loc, tagged |-> tagged]>>
W(id, v1, refs, tagged, area) ==
    <<[kind |-> "way", id |-> id, v1 |-> v1, deleted |-> FALSE,
       refs |-> refs, tagged |-> tagged, area |-> area]>>
R(id, v1, mems, mp) ==
    <<[kind |-> "relation", id |-> id, v1 |-> v1, deleted |-> FALSE,
       mems |-> mems, mp |-> mp]>>
\* A deleted object has no location, no nodes, no members and no tags.
DelN(id) ==
    <<[kind |-> "node", id |-> id, v1 |-> FALSE, deleted |-> TRUE,
       loc |-> NoLoc, tagged |-> FALSE]>>
DelW(id) ==
    <<[kind |-> "way", id |-> id, v1 |-> FALSE, deleted |-> TRUE,
       refs |-> <<>>, tagged |-> FALSE, area |-> FALSE]>>
DelR(id) ==
    <<[kind |-> "relation", id |-> id, v1 |-> FALSE, deleted |-> TRUE,
       mems |-> <<>>, mp |-> FALSE]>>
No == <<>>

n(id) == [kind |-> "node", ref |-> id]
w(id) == [kind |-> "way", ref |-> id]
r(id) == [kind |-> "relation", ref |-> id]

\* A data set is what a file that creates everything makes of nothing.
Nothing == [node |-> <<>>, way |-> <<>>, rel |-> <<>>, late |-> {}]
DataSet(objects) == [After(Nothing, objects) EXCEPT !.late = {}]
With(flatNodes, wanted) == [flat |-> flatNodes, areas |-> wanted, polygons |-> TRUE]
\* A database that was imported without --areas.
WithoutTable(flatNodes) == [With(flatNodes, FALSE) EXCEPT !.polygons = FALSE]
Combinations(dataSets, files, opts) ==
    {[old |-> d, file |-> f, options |-> o] : d \in dataSets, f \in files, o \in opts}
Sound(data, files, opts) ==
    Combinations({data}, {f \in files : Closed(After(data, f))}, opts)
-----------------------------------------------------------------------------
(* Lines and collections: three nodes, one of them tagged, two ways that     *)
(* share a node, a relation with a node and a way, and one with a way and a  *)
(* relation.  The ways are in the line table, whether tagged or not.         *)

Base == DataSet(
    N(1, TRUE, 11, FALSE) \o N(2, TRUE, 12, FALSE) \o N(3, TRUE, 13, TRUE)
    \o W(1, TRUE, <<1, 2>>, TRUE, FALSE) \o W(2, TRUE, <<2, 3>>, TRUE, FALSE)
    \o R(1, TRUE, <<n(3), w(1)>>, FALSE) \o R(2, TRUE, <<w(2), r(1)>>, FALSE))

Files(n1, n2, n3, n4, w1, w2, w3, r1, r2, r3) ==
    {a \o b \o c \o d \o e \o f \o g \o h \o i \o j :
        a \in n1, b \in n2, c \in n3, d \in n4, e \in w1, f \in w2, g \in w3,
        h \in r1, i \in r2, j \in r3}

Change1 == {No, N(1, FALSE, 14, FALSE), DelN(1)}
Change2 == {No, N(2, FALSE, 14, FALSE), N(2, FALSE, 12, TRUE)}
Change3 == {No, N(3, FALSE, 15, TRUE), N(3, FALSE, 13, FALSE)}
Add4 == {No, N(4, TRUE, 16, TRUE)}
ChangeW1 == {No, W(1, FALSE, <<2, 3, 1>>, TRUE, FALSE), DelW(1)}
ChangeW2 == {No, W(2, FALSE, <<2, 3>>, FALSE, FALSE)}
AddW3 == {No, W(3, TRUE, <<1, 4>>, TRUE, FALSE)}
ChangeR1 == {No, R(1, FALSE, <<n(1), w(2), n(3)>>, FALSE), DelR(1)}
ChangeR2 == {No, R(2, FALSE, <<w(2)>>, FALSE)}
AddR3 == {No, R(3, TRUE, <<n(2), w(2)>>, FALSE)}

MCSorted == Sound(Base,
    Files(Change1, Change2, Change3, Add4, ChangeW1, ChangeW2, AddW3,
          ChangeR1, ChangeR2, AddR3),
    {With(FALSE, FALSE)})

\* One file for every combination of a few changes, for crashes and second runs
\* and for the flat nodes file.
MCFew == Sound(Base,
    Files({No, N(1, FALSE, 14, FALSE)}, {N(2, FALSE, 14, FALSE), N(2, FALSE, 12, TRUE)},
          {N(3, FALSE, 13, FALSE)}, Add4,
          {No, W(1, FALSE, <<2, 3, 1>>, TRUE, FALSE)}, {No}, AddW3,
          {No, R(1, FALSE, <<n(1), w(2), n(3)>>, FALSE)}, {No}, AddR3),
    {With(FALSE, FALSE), With(TRUE, FALSE), WithoutTable(FALSE)})

\* The same for diffs that contain neither ways nor relations.
MCNodesOnly == Sound(Base,
    Files(Change1, Change2, Change3, Add4, {No}, {No}, {No}, {No}, {No}, {No}),
    {With(FALSE, FALSE), WithoutTable(FALSE)})
-----------------------------------------------------------------------------
(* Areas: a closed way, two ways that are the ring of a multipolygon, and a  *)
(* relation that has nothing to do with areas.                              *)

AreaBase(mp, plain) == DataSet(
    N(1, TRUE, 11, FALSE) \o N(2, TRUE, 12, FALSE) \o N(3, TRUE, 13, FALSE)
    \o N(4, TRUE, 14, FALSE)
    \o W(1, TRUE, <<2, 3>>, FALSE, FALSE) \o W(2, TRUE, <<3, 4, 2>>, FALSE, FALSE)
    \o W(3, TRUE, <<1, 2, 3, 1>>, TRUE, TRUE)
    \o R(mp, TRUE, <<w(1), w(2)>>, TRUE) \o R(plain, TRUE, <<w(3)>>, FALSE))

ChangeArea(mp, plain) ==
    Sound(AreaBase(mp, plain), Files(
        {No}, {No}, {No, N(3, FALSE, 15, FALSE)}, {No, N(4, FALSE, 16, FALSE)},
        {No, W(1, FALSE, <<2, 3>>, FALSE, FALSE)},
        {No, W(2, FALSE, <<3, 4, 2>>, FALSE, FALSE)},
        {No, W(3, FALSE, <<1, 2, 4, 1>>, TRUE, TRUE), DelW(3)},
        {No, R(plain, FALSE, <<w(2)>>, FALSE)},
        {No, R(mp, FALSE, <<w(1), w(2)>>, TRUE), R(mp, FALSE, <<w(1)>>, FALSE), DelR(mp)},
        {No, R(8, TRUE, <<w(2), w(1)>>, TRUE)}),
        {With(FALSE, TRUE)})

\* The multipolygon has an id of its own, or the one of the closed way.
MCAreas == ChangeArea(5, 2) \cup ChangeArea(3, 2) \cup ChangeArea(5, 7)

\* Everything that is sorted and complete.
MCAll == MCSorted \cup MCFew \cup MCNodesOnly \cup MCAreas
-----------------------------------------------------------------------------
(* Incomplete data, as in an extract, and files that are not sorted.        *)

Extract == DataSet(
    N(1, TRUE, 11, FALSE) \o N(2, TRUE, 12, FALSE)
    \o W(1, TRUE, <<1, 2>>, TRUE, FALSE) \o W(2, TRUE, <<2, 3>>, TRUE, FALSE)
    \o R(1, TRUE, <<n(3), w(1)>>, FALSE) \o R(2, TRUE, <<w(2), n(1)>>, FALSE))

MCTroubled == Combinations(
    {Base, Extract, [Extract EXCEPT !.late = {2}],
     [Extract EXCEPT !.late = {2}, !.way[2].refs = <<2>>]},
    Files({No, N(1, FALSE, 14, FALSE)}, {No, N(2, FALSE, 14, FALSE)}, {No}, {No},
          {No, W(1, FALSE, <<2, 1>>, FALSE, FALSE), DelW(1)},
          {No, W(2, FALSE, <<2, 3>>, FALSE, FALSE), W(2, FALSE, <<2, 3>>, TRUE, FALSE)},
          {No, W(3, TRUE, <<>>, TRUE, FALSE)},
          {No, R(1, FALSE, <<n(3), w(2)>>, FALSE)}, {No, DelR(2)},
          {No, N(4, TRUE, 16, TRUE), N(4, TRUE, 16, FALSE), W(4, TRUE, <<1, 2>>, TRUE, FALSE)}),
    {With(FALSE, FALSE), With(TRUE, FALSE), WithoutTable(FALSE)})
=============================================================================
