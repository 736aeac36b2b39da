------------------------------ MODULE MCExpire ------------------------------
(* All segments between any location, on the map or beyond it, and some      *)
(* chosen ones, two bent lines, on zoom levels 1 to 3; an int of 6 bits      *)
(* makes level 3 what 16 is to 32.                                           *)
EXTENDS ExpireProperties

Corners == {<<0, 1>>, <<3, 5>>, <<6, 2>>, <<8, 7>>, <<5, -1>>, <<1, -3>>, <<4, 10>>}

MCNodes == {<<0, 0>>, <<3, 5>>, <<8, 4>>, <<7, 8>>, <<2, -1>>, <<6, -5>>, <<1, 12>>}
MCLines == {<<p, q>> : p \in (0..World) \X (-4..12), q \in Corners}
           \cup {<<<<1, 1>>, <<4, 6>>, <<2, 7>>>>, <<<<7, 3>>, <<1, 4>>, <<1, 6>>>>}
MCOptions ==
    [min: {1}, max: {2}, relations: {"all"}, saturating: {FALSE}]
    \cup [min: {2, 3}, max: {3}, relations: {"no_routes"}, saturating: {FALSE}]
    \cup [min: {0}, max: {2}, relations: {"none"}, saturating: {TRUE}]
=============================================================================
