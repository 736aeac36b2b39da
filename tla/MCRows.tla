------------------------------- MODULE MCRows -------------------------------
(* Two setups with all texts of up to two of ten characters, which serve as *)
(* value, key, user name and street; and seven with other style files and    *)
(* options for ways, areas and relations.  Positions have three bits.        *)
EXTENDS RowsProperties

Characters == {"a", "n", "N", ",", "=", " ", BS, QU, TAB, NL}
Texts == {<<>>} \cup {<<c>> : c \in Characters} \cup {<<c, d>> : c, d \in Characters}

Tag(key, value) == <<key, value>>
K == <<"k">>
Name == <<"n", "a">>

Object(kind, tags) ==
    [kind |-> kind, id |-> "7", tags |-> tags, street |-> <<>>, user |-> <<"u">>,
     version |-> "2", timestamp |-> "t"]
Node(tags) == [loc |-> "here"] @@ Object("node", tags)
Street(tags) == <<Tag(Name, <<"s">>), Tag(K, <<"s", ",">>)>>

TextNodes ==
    {Node(<<Tag(K, text), Tag(Name, <<"x">>)>>) : text \in Texts}
    \cup {Node(<<Tag(text, <<"v">>), Tag(K, text)>>) : text \in Texts \ {<<>>, K}}
    \cup {[Node(<<Tag(K, <<"v">>)>>) EXCEPT !.user = text, !.street = <<Tag(Name, text)>>] :
            text \in Texts}

Locations == <<"here", "there", "beyond">>
Way(locs, tags) ==
    [locs |-> locs, refs |-> [i \in DOMAIN locs |-> ToString(i)]] @@ Object("way", tags)
Ring(outer, locs) == [outer |-> outer, locs |-> locs]
Area(from_way, rings, tags) ==
    [from_way |-> from_way, rings |-> rings] @@ Object("area", tags)
Member(kind, ref, role) == [kind |-> kind, ref |-> ref, role |-> role]
Relation(members, tags) ==
    [members |-> members, points |-> <<"NDR", "4", "0">>, linestrings |-> <<"NDR", "5", "0">>]
    @@ Object("relation", tags)

ThreeTags == <<Tag(K, <<"v">>), Tag(Name, <<"x">>), Tag(<<"z">>, <<"9">>)>>
Shapes ==
    {Node(ThreeTags), Node(<<>>), [Node(<<Tag(Name, <<"x">>)>>) EXCEPT !.street = ThreeTags],
     Way(<<"here", "there", "there">>, <<>>), Way(Locations, ThreeTags),
     Way(<<"here", "here">>, ThreeTags), Way(<<"here">>, ThreeTags),
     Area(TRUE, <<Ring(TRUE, Locations)>>, ThreeTags),
     Area(FALSE, <<Ring(TRUE, Locations), Ring(FALSE, <<"here", "there">>), Ring(FALSE, Locations),
                   Ring(TRUE, <<"beyond", "beyond", "here">>)>>, ThreeTags),
     Area(FALSE, <<>>, ThreeTags),
     Relation([i \in 1..9 |-> Member(IF i = 3 THEN "way" ELSE "node", ToString(i), <<TAB>>)],
              ThreeTags),
     Relation(<<Member("relation", "8", <<NL, BS>>), Member("node", "1", <<>>)>>, <<>>),
     [kind |-> "interpolation", id |-> "5", number |-> <<"1", "2", "a">>, loc |-> "here",
      addr |-> [key \in {"street", "city"} |-> <<"a", BS, TAB>>]]}

Line(name, type, flags) == <<"node,way", name, type, flags>>
ColumnK == Line(K, "text", {"linear"})
Setup(file, all) ==
    [style |-> file, streets |-> all, metadata |->
        IF all THEN {"USERNAME", "UID", "VERSION", "TIMESTAMP", "CHANGESET"} ELSE {"VERSION"},
     updateable |-> all, untagged |-> all, hstore_all |-> all, objects |-> Shapes]

MCSetups ==
    {[Setup(file, TRUE) EXCEPT !.objects = TextNodes] : file \in {<<>>, <<ColumnK>>}}
    \cup {Setup(<<ColumnK, Line(Name, "int4", {"nocolumn"}), Line(<<"z">>, "real", {"delete"})>>, all) :
            all \in BOOLEAN}
    \cup {Setup(<<Line(<<"way_area">>, "real", {}), ColumnK, Line(Name, "text", {})>>, all) :
            all \in BOOLEAN}
    \cup {Setup(<<ColumnK, ColumnK>>, TRUE), Setup(<<ColumnK, <<>>>>, TRUE),
          Setup(<<Line(K, "polygon", {})>>, TRUE)}
=============================================================================
