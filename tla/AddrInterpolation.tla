------------------------- MODULE AddrInterpolation -------------------------
(***************************************************************************)
(* Address interpolation during an import.  Pass 1 (AddrInterpolation-     *)
(* Handler) remembers the nodes of interpolation ways, pass 2 (Second-     *)
(* PassHandler) keeps the tags of these nodes and then writes one row for  *)
(* every house number between two that are mapped.                         *)
(*                                                                         *)
(* Nodes lie on a straight road, at a number of metres; a house number is  *)
(* a number and the code of a letter, 0 for none.                          *)
(***************************************************************************)
EXTENDS RequiredNodes, FiniteSetsExt

CONSTANTS Inputs, Null

\* What a tag addr:housenumber can be.  parse_number() returns an invalid
\* number for a text and throws for a malformed one.
HouseNumber(number, suffix) == [kind |-> "number", number |-> number, suffix |-> suffix]
NoTag == [kind |-> "absent"]
Text == [kind |-> "text"]
Malformed == [kind |-> "malformed"]

IsLetter(code) == code \in 65..90 \cup 97..122
HouseNumbers ==
    [kind : {"number"}, number : Nat \ {0}, suffix : {code \in 0..122 : code = 0 \/ IsLetter(code)}]

\* Ids are integers: files that have not been uploaded have negative ones.  Every
\* node of the file has tags, with or without a house number, and a place.
ASSUME InputsAssumption ==
    \A i \in Inputs :
        /\ i.file \in Seq(Int)
        /\ \A k \in DOMAIN i.file :
            /\ i.tags[i.file[k]] \in {NoTag, Text, Malformed} \cup HouseNumbers
            /\ i.pos[i.file[k]] \in Int
        /\ i.ways \in Seq([nodes : Seq(Int), type : STRING])
ASSUME NullAssumption == Null \notin {NoTag, Text, Malformed} \cup HouseNumbers

VARIABLES
    input,    \* the file: ways, nodes in their order, tags and places
    phase,    \* "pass1", "nodes", "ways", "done"; "dead" after a crash,
              \* "stopped" after an exception that is not caught
    at,       \* number of objects of this phase that are behind
    m_index,  \* TagsStorage: ids of nodes with stored tags
    rows      \* interpolated_addresses

vars == <<m_vector, last, strayed, input, phase, at, m_index, rows>>

Types == {"odd", "even", "all", "alphabetic"}
valid_interpolation(type) == type \in Types

nodes(w) == input.ways[w].nodes
type(w) == input.ways[w].type
ends_have_same_id(line) == line[1] = line[Len(line)]
---------------------------------------------------------------------------
(* TagsStorage *)

\* std::lower_bound on the index: <<n, first>> are the n elements from first on
\* that are left.
LowerBound(index, id) ==
    LET Ranges == {r \in (0..Len(index)) \X (1..Len(index) + 1) : r[1] + r[2] <= Len(index) + 1}
        halve[r \in Ranges] ==
            IF r[1] = 0 THEN r[2]
            ELSE LET half == r[1] \div 2
                 IN IF index[r[2] + half] < id
                    THEN halve[<<r[1] - half - 1, r[2] + half + 1>>]
                    ELSE halve[<<half, r[2]>>]
    IN halve[<<Len(index), 1>>]

\* Faulty variant: the last element is not looked at.
get_LastLost(id) ==
    LET k == LowerBound(m_index, id)
    IN IF k < Len(m_index) /\ m_index[k] = id THEN input.tags[id] ELSE Null

\* Tags of a node, Null if they are not stored or not found.
get(id) ==
    LET k == LowerBound(m_index, id)
    IN IF k <= Len(m_index) /\ m_index[k] = id THEN input.tags[id] ELSE Null

has_housenumber(id) == get(id) # Null /\ get(id).kind # "absent"
---------------------------------------------------------------------------
(* interpolate(): between which nodes of a way numbers are added. *)

\* The first node is taken whatever its tags are, if it has stored tags.
First(line) ==
    IF get(line[1]) # Null THEN 1
    ELSE Min({i \in 2..Len(line) : has_housenumber(line[i])} \cup {Len(line)})

Second(line, first) ==
    Min({i \in first + 1..Len(line) : has_housenumber(line[i])} \cup {Len(line)})

\* Later nodes need a number, except for the last one, which needs tags.
Stops(line) ==
    LET first == First(line)
        second == Second(line, first)
    IN {first, second}
       \cup {i \in second + 1..Len(line) :
                has_housenumber(line[i]) \/ (i = Len(line) /\ get(line[i]) # Null)}

Pairs(line) ==
    {p \in Stops(line) \X Stops(line) :
        p[1] < p[2] /\ \A i \in Stops(line) : ~(p[1] < i /\ i < p[2])}
---------------------------------------------------------------------------
(* add_points_to_str(): the numbers between two nodes. *)

ToLower(letter) == IF letter \in 65..90 THEN letter + 32 ELSE letter
interpolation_difference(t, h2, h1) ==
    IF t = "alphabetic" THEN ToLower(h2.suffix) - ToLower(h1.suffix)
    ELSE h2.number - h1.number

Magnitude(n) == IF n < 0 THEN -n ELSE n
Difference(t, h1, h2) == Magnitude(interpolation_difference(t, h2, h1))
Increment(t) == IF t \in {"odd", "even"} THEN 2 ELSE 1
Steps(t, diff) == {i \in 1..diff - 1 : i % Increment(t) = 0}

\* Numbers grow from the first node on, also if the second one has a smaller
\* number.
Incremented(t, h, i) ==
    IF t = "alphabetic" THEN [h EXCEPT !.suffix = @ + i]
    ELSE [h EXCEPT !.number = @ + i]

Place(line, i) == input.pos[line[i]]
\* The length of the line between two of its nodes, edge by edge.
Path(line, from, to) ==
    LET length[k \in from..Len(line)] ==
            IF k = from THEN 0
            ELSE length[k - 1] + Magnitude(Place(line, k) - Place(line, k - 1))
    IN length[to]

\* Faulty variant: the fraction is applied to the last edge.
get_remote_point_LastEdge(line, from, to, i, diff) ==
    Place(line, to - 1) * diff + i * (Place(line, to) - Place(line, to - 1))

\* The point after the fraction i / diff of the way between two nodes, times
\* diff: along the edge on which this length is reached.
get_remote_point(line, from, to, i, diff) ==
    LET length == Path(line, from, to) * i
        k == Min({k \in from..to - 1 : Path(line, from, k + 1) * diff >= length})
        rest == length - Path(line, from, k) * diff
    IN Place(line, k) * diff
       + (IF Place(line, k + 1) >= Place(line, k) THEN rest ELSE -rest)

\* Why a pair of nodes gives no rows: tags that are not there are read, or an
\* exception ends the whole way.  If all nodes lie in one place, 0 is divided
\* by 0 and the location is not valid.
Crashes(line, p) ==
    get(line[p[2]]) = Null /\ get(line[p[1]]).kind # "malformed"

Number(line, i) == get(line[i])
Valid(line, p) ==
    Number(line, p[1]).kind = "number" /\ Number(line, p[2]).kind = "number"

\* Faulty variant: letters are not checked.
Throws_NoRange(t, line, p) ==
    \/ \E i \in {1, 2} : Number(line, p[i]) # Null /\ Number(line, p[i]).kind = "malformed"
    \/ /\ Valid(line, p)
       /\ Difference(t, Number(line, p[1]), Number(line, p[2])) % 2 # 0
       /\ t \in {"odd", "even"}

Throws(t, line, p) ==
    \/ \E i \in {1, 2} : Number(line, p[i]) # Null /\ Number(line, p[i]).kind = "malformed"
    \/ /\ Valid(line, p)
       /\ LET h1 == Number(line, p[1])
              diff == Difference(t, h1, Number(line, p[2]))
          IN \/ t \in {"odd", "even"} /\ diff % 2 # 0
             \/ Steps(t, diff) # {} /\ Path(line, p[1], p[2]) = 0
             \/ /\ t = "alphabetic"
                /\ \E i \in Steps(t, diff) : ~IsLetter(h1.suffix + i)

Points(w, p) ==
    LET line == nodes(w)
        h1 == Number(line, p[1])
        diff == Difference(type(w), h1, Number(line, p[2]))
        Row(i) == [way |-> w, from |-> p[1], to |-> p[2], step |-> i,
                   number |-> Incremented(type(w), h1, i).number,
                   suffix |-> Incremented(type(w), h1, i).suffix,
                   place |-> get_remote_point(line, p[1], p[2], i, diff)]
    IN IF Valid(line, p) THEN {Row(i) : i \in Steps(type(w), diff)} ELSE {}

\* Ways that are left alone before a pair is formed.
Skipped(w) ==
    \/ ~valid_interpolation(type(w))
    \/ Len(nodes(w)) < 2
    \/ First(nodes(w)) = Len(nodes(w))

\* Pairs are worked on in their order, so what happens first counts.
FirstFailure(w) ==
    LET failing == {p \in Pairs(nodes(w)) :
                        Crashes(nodes(w), p) \/ Throws(type(w), nodes(w), p)}
    IN {p \in failing : \A q \in failing : p[1] <= q[1]}

WayCrashes(w) ==
    ~Skipped(w) /\ \E p \in FirstFailure(w) : Crashes(nodes(w), p)

\* Faulty variant: what was written before an exception is kept.
RowsOf_Partial(w) ==
    IF Skipped(w) THEN {}
    ELSE UNION {Points(w, p) : p \in {p \in Pairs(nodes(w)) : ~Throws(type(w), nodes(w), p)}}

\* The rows of a way, all or none.
RowsOf(w) ==
    IF Skipped(w) \/ FirstFailure(w) # {} THEN {}
    ELSE UNION {Points(w, p) : p \in Pairs(nodes(w))}
---------------------------------------------------------------------------
Init ==
    /\ TrackingInit
    /\ input \in Inputs
    /\ phase = "pass1" /\ at = 0 /\ m_index = <<>> /\ rows = {}

\* Closed ways and ways with one node are not interpolations.
TracksWay(w) ==
    /\ valid_interpolation(type(w))
    /\ ~(Len(nodes(w)) = 1 \/ ends_have_same_id(nodes(w)))

\* AddrInterpolationHandler::way()
Pass1Way ==
    /\ phase = "pass1" /\ at < Len(input.ways)
    /\ at' = at + 1
    /\ IF TracksWay(at + 1) THEN track(nodes(at + 1)) ELSE UNCHANGED trackingVars
    /\ UNCHANGED <<input, phase, m_index, rows>>

\* after_pass1()
AfterPass1 ==
    /\ phase = "pass1" /\ at = Len(input.ways)
    /\ prepare_for_lookup
    /\ phase' = "nodes" /\ at' = 0
    /\ UNCHANGED <<input, m_index, rows>>

\* handle_node()
HandleNode ==
    /\ phase = "nodes" /\ at < Len(input.file)
    /\ LET id == input.file[at + 1]
       IN \E r \in Lookups(id) :
            /\ node_needed(id, r)
            /\ m_index' = IF r.needed THEN Append(m_index, id) ELSE m_index
            /\ phase' = IF r.dead THEN "dead" ELSE phase
    /\ at' = at + 1
    /\ UNCHANGED <<input, rows>>

StartWays ==
    /\ phase = "nodes" /\ at = Len(input.file)
    /\ phase' = "ways" /\ at' = 0
    /\ UNCHANGED <<trackingVars, input, m_index, rows>>

\* handle_way(); an exception is caught there, reading no tags at all is not.
\* The location handler is called before and ends the import if a node of the
\* way is not in the file.
HandleWay ==
    /\ phase = "ways" /\ at < Len(input.ways)
    /\ IF ~(Entries(nodes(at + 1)) \subseteq Entries(input.file))
       THEN phase' = "stopped" /\ UNCHANGED rows
       ELSE IF WayCrashes(at + 1)
       THEN phase' = "dead" /\ UNCHANGED rows
       ELSE rows' = rows \cup RowsOf(at + 1) /\ UNCHANGED phase
    /\ at' = at + 1
    /\ UNCHANGED <<trackingVars, input, m_index>>

Finish ==
    /\ phase = "ways" /\ at = Len(input.ways)
    /\ phase' = "done"
    /\ UNCHANGED <<trackingVars, input, at, m_index, rows>>

Next == Pass1Way \/ AfterPass1 \/ HandleNode \/ StartWays \/ HandleWay \/ Finish

Spec == Init /\ [][Next]_vars
---------------------------------------------------------------------------
(* What the handler promises. *)

\* Nodes of the ways that pass 1 should remember.
Required ==
    UNION {Entries(nodes(w)) : w \in
        {w \in DOMAIN input.ways :
            type(w) \in Types /\ Len(nodes(w)) > 1 /\ ~ends_have_same_id(nodes(w))}}

InOrder == StrictlyAscending(input.file)
Read == {input.file[i] : i \in 1..(IF phase = "nodes" THEN at ELSE Len(input.file))}
Searched == phase \in {"nodes", "ways", "done"}

\* The resumed search answers as if it had looked through all ids, if the
\* nodes of the file are in order and memory behind the vector was not read;
\* and it is read only for a node that is not required and has a greater id
\* than one that is.
LookupsExact ==
    /\ (Searched /\ InOrder /\ ~strayed) => Entries(m_index) = Required \cap Read
    /\ (strayed /\ InOrder) =>
            \E id \in Read \ Required : \E needed \in Required : needed < id

\* A closed way whose nodes are not remembered on its own account, but another
\* interpolation needs one of them that has a house number.  Pass 1 leaves closed
\* ways out, pass 2 does not.
ClosedThroughAnother(w) ==
    LET line == nodes(w)
    IN /\ type(w) \in Types /\ Len(line) > 1 /\ ends_have_same_id(line)
       /\ line[1] \notin Required
       /\ \E i \in DOMAIN line :
            line[i] \in Required /\ input.tags[line[i]].kind # "absent"

\* The handler does not read tags that are not there, unless its lookups have
\* gone astray, the file is not in order, or a closed way borrows the number of
\* another one.  (All other closed ways end in an exception.)
DeathExplained ==
    phase = "dead" => strayed \/ ~InOrder \/ \E w \in DOMAIN input.ways : ClosedThroughAnother(w)

\* Positions of a way with a house number, and neighbours among them.
Numbered(line) == {i \in DOMAIN line : input.tags[line[i]].kind # "absent"}
Stretches(line) ==
    {p \in Numbered(line) \X Numbered(line) :
        p[1] < p[2] /\ \A i \in Numbered(line) : ~(p[1] < i /\ i < p[2])}

\* What is counted: numbers, or letters without their case.
Rank(t, h) == IF t = "alphabetic" THEN ToLower(h.suffix) ELSE h.number
HouseAt(line, i) == input.tags[line[i]]

\* A way as the wiki describes it: numbers at its first node and in ascending
\* order.  (In descending order, the code writes numbers above the first one.)
Regular(w) ==
    LET line == nodes(w)
    IN /\ Len(line) > 1 /\ 1 \in Numbered(line)
       /\ \A i \in Numbered(line) :
            /\ HouseAt(line, i).kind = "number"
            /\ type(w) = "alphabetic" => IsLetter(HouseAt(line, i).suffix)
       /\ \A p \in Stretches(line) :
            LET difference == Rank(type(w), HouseAt(line, p[2])) - Rank(type(w), HouseAt(line, p[1]))
            IN /\ difference > 0 /\ difference % Increment(type(w)) = 0
               /\ \E i \in p[1]..p[2] : Place(line, i) # Place(line, p[1])

\* The point of row r lies on the way, as far behind its first node as the
\* row's number is behind the first number.
LiesAtItsNumber(r) ==
    LET line == nodes(r.way)
        t == type(r.way)
        h1 == HouseAt(line, r.from)
        all == Rank(t, HouseAt(line, r.to)) - Rank(t, h1)
    IN \E k \in r.from..r.to - 1 :
        /\ r.place >= all * Min({Place(line, k), Place(line, k + 1)})
        /\ r.place <= all * Max({Place(line, k), Place(line, k + 1)})
        /\ all * Path(line, r.from, k) + Magnitude(r.place - all * Place(line, k))
            = Path(line, r.from, r.to) * (Rank(t, r) - Rank(t, h1))

\* A regular way has exactly the numbers between those of neighbouring nodes,
\* each at its place; a way with a malformed number has no rows at all; and
\* whatever is added to a letter gives a letter.
NumbersFollowWays ==
    /\ \A r \in rows : r.suffix = 0 \/ IsLetter(r.suffix)
    /\ (phase = "done" /\ ~strayed /\ InOrder) =>
        \A w \in DOMAIN input.ways :
            LET line == nodes(w)
                written == {r \in rows : r.way = w}
            IN (type(w) \in Types /\ ~ends_have_same_id(line)) =>
                /\ Regular(w) =>
                    /\ {<<<<r.from, r.to>>, Rank(type(w), r)>> : r \in written} =
                        UNION {{<<p, Rank(type(w), HouseAt(line, p[1])) + i>> :
                                    i \in Steps(type(w), Rank(type(w), HouseAt(line, p[2]))
                                                        - Rank(type(w), HouseAt(line, p[1])))}
                                : p \in Stretches(line)}
                    /\ \A r, s \in written : Rank(type(w), r) = Rank(type(w), s) => r = s
                    /\ \A r \in written : LiesAtItsNumber(r)
                /\ (1 \in Numbered(line) /\ Cardinality(Numbered(line)) > 1
                     /\ \E i \in Numbered(line) : HouseAt(line, i).kind = "malformed")
                        => written = {}
=============================================================================
