------------------------------ MODULE MCImport ------------------------------
(***************************************************************************)
(* Data sets and options for Import.                                       *)
(***************************************************************************)
EXTENDS ImportProperties

MCLocs == 11 .. 13

node(loc, tagged) == [loc |-> loc, tagged |-> tagged]
way(refs, tagged, area) == [refs |-> refs, tagged |-> tagged, area |-> area]
rel(mems, mp) == [mems |-> mems, mp |-> mp]
n(id) == [kind |-> "node", ref |-> id]
w(id) == [kind |-> "way", ref |-> id]
r(id) == [kind |-> "relation", ref |-> id]

MCNodes == <<node(11, TRUE), node(12, FALSE), node(13, TRUE)>>
MCWays == <<way(<<1, 2>>, TRUE, FALSE), way(<<2, 3, 1, 2>>, TRUE, TRUE)>>
Plain == [areas |-> FALSE, untagged |-> TRUE, flat |-> FALSE, updateable |-> TRUE,
          streets |-> FALSE, geohash |-> FALSE, index |-> "dense"]
Input(nodes, ways, rels, s, o) ==
    [data |-> [node |-> nodes, way |-> ways, rel |-> rels, late |-> {}],
     streets |-> s, options |-> o]

\* Members: shared ones, one that is named twice, one that is not in the file,
\* relations without any tracked member.
Members == {<<n(1)>>, <<n(1), w(2)>>, <<w(1), n(3), w(1)>>, <<r(1)>>, <<w(3), n(1)>>,
            <<w(2), w(1)>>, <<n(2), n(2)>>}
MCMembers == {Input(MCNodes, MCWays,
                    <<rel(a, FALSE), rel(b, FALSE), rel(c, mp)>>, {}, [Plain EXCEPT !.areas = mp]) :
                a \in Members, b \in Members, c \in Members, mp \in BOOLEAN}

\* Streets: members in all orders, relations beside them.
Houses == {<<n(1), n(3)>>, <<n(3), n(1)>>, <<w(2), n(3), w(1)>>, <<r(3), n(3), w(2)>>,
           <<n(3), n(2), n(1)>>}
MCStreets == {Input(MCNodes, MCWays,
                    <<rel(a, FALSE), rel(b, FALSE), rel(<<w(1), w(2)>>, TRUE)>>, s,
                    [Plain EXCEPT !.streets = TRUE, !.areas = areas]) :
                a \in Houses, b \in Houses, s \in {{1}, {2}, {1, 2}, {1, 2, 3}}, areas \in BOOLEAN}

\* Ways with gaps, of one node, and degenerated ones.
MCGaps == {Input(MCNodes, <<a, b>>, <<rel(<<w(1), n(2)>>, TRUE), rel(<<w(2)>>, FALSE)>>, {},
                 [Plain EXCEPT !.areas = TRUE, !.updateable = u]) :
            a \in {way(<<1, 4>>, TRUE, FALSE), way(<<1>>, TRUE, FALSE), way(<<1, 1>>, TRUE, FALSE),
                   way(<<2, 3>>, FALSE, FALSE)},
            b \in {way(<<1, 2>>, FALSE, FALSE), way(<<>>, TRUE, FALSE)}, u \in BOOLEAN}

\* All options, on one small data set.
MCOptions == {Input(<<node(11, TRUE), node(12, FALSE)>>, <<way(<<1, 2>>, TRUE, FALSE)>>,
                    <<rel(<<w(1), n(2)>>, FALSE)>>, {1}, o) :
    o \in [areas: BOOLEAN, untagged: BOOLEAN, flat: BOOLEAN, updateable: BOOLEAN,
           streets: {TRUE}, geohash: BOOLEAN,
           index: {"dense", "sparse_mmap_array", "sparse_mem_array", "sparse_mem_map"}]}

\* Killed and repeated.
MCTroubled == {i \in MCOptions :
    /\ i.options.index = "dense"
    /\ ~(i.options.untagged /\ i.options.flat)
    /\ i.options.geohash}
MCInputs == MCMembers \cup MCStreets \cup MCGaps \cup MCOptions
=============================================================================
