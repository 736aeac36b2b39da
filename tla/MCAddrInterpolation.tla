------------------------ MODULE MCAddrInterpolation ------------------------
(* Searching: every file over four nodes, two ways, in and out of order.     *)
(* Adding: one way over three nodes with all tags, on four kinds of road.    *)
EXTENDS AddrInterpolation

Orders == UNION {{s \in [1..n -> 1..4] : \A i, j \in 1..n : i # j => s[i] # s[j]} : n \in 1..4}

FirstWay == {<<1, 3>>, <<3, 4, 1>>}
SecondWay == {<<2, 4>>, <<3, 1>>, <<2, 3, 2>>, <<4, 3, 4>>, <<3>>}
Plain == [n \in 1..4 |-> IF n = 2 THEN NoTag ELSE HouseNumber(2 * n, 0)]

Searching ==
    {[ways |-> <<[nodes |-> a, type |-> s], [nodes |-> b, type |-> "even"]>>,
      file |-> f, tags |-> Plain, pos |-> [n \in 1..4 |-> 10 * n]]
        : a \in FirstWay, b \in SecondWay, s \in {"even", "other"}, f \in Orders}

Numbers == {NoTag, Text, Malformed} \cup {HouseNumber(n, 0) : n \in {1, 4, 8}}
Letters == {NoTag, HouseNumber(7, 0)} \cup {HouseNumber(7, c) : c \in {97, 67, 101, 121}}

Roads == {<<0, 6, 18>>, <<0, 12, 6>>, <<6, 6, 6>>}

Adding ==
    {[ways |-> <<[nodes |-> l, type |-> t]>>, file |-> <<1, 2, 3>>, tags |-> g, pos |-> r]
        : l \in {<<1, 2, 3>>, <<2, 3, 1>>}, t \in {"odd", "even", "all"},
          g \in [1..3 -> Numbers], r \in Roads}
    \cup
    {[ways |-> <<[nodes |-> <<1, 2, 3>>, type |-> "alphabetic"]>>,
      file |-> <<1, 2, 3>>, tags |-> g, pos |-> r]
        : g \in [1..3 -> Letters], r \in Roads}

MCInputs == Searching \cup Adding
=============================================================================
