----------------------- MODULE AddrInterpolationProofs -----------------------
(***************************************************************************)
(* Proofs about address interpolation.  The lookup of RequiredNodes, which *)
(* resumes where the last one succeeded, is exact.  This is not inductive  *)
(* as it stands.  It depends on the front of the vector, which is in order *)
(* and has every id that is required, and on the position: everything in   *)
(* front of it is smaller than any node that is still to come.  The second *)
(* lookup, by halves in the index of the tags, finds what has been stored, *)
(* so that null pointers to tags are only read where it is said, and the   *)
(* numbers that are added are those that are missing.                      *)
(***************************************************************************)
EXTENDS AddrInterpolation, FiniteSetTheorems, FunctionTheorems,
        WellFoundedInduction, TLAPS

\* A vector of ids.
Vector(s) == s \in Seq(Int)

LEMMA VectorFacts ==
    ASSUME NEW s, Vector(s)
    PROVE  /\ Len(s) \in Nat /\ DOMAIN s = 1 .. Len(s)
           /\ \A i \in DOMAIN s : s[i] \in Int
           /\ Entries(s) \subseteq Int
           /\ IsFiniteSet(Entries(s))
<1>1. s \in Seq(Int)
    BY DEF Vector
<1>2. Len(s) \in Nat /\ DOMAIN s = 1 .. Len(s) /\ \A i \in DOMAIN s : s[i] \in Int
    BY <1>1
<1>3. IsFiniteSet(DOMAIN s)
    BY <1>2, FS_Interval
<1>4. s \in Surjection(DOMAIN s, Entries(s))
    BY <1>1 DEF Entries, Surjection
<1>5. IsFiniteSet(Entries(s))
    BY <1>3, <1>4, FS_Surjection
<1> QED
    BY <1>2, <1>5 DEF Entries

LEMMA Joined ==
    ASSUME NEW s, NEW t, Vector(s), Vector(t)
    PROVE  Vector(s \o t) /\ Entries(s \o t) = Entries(s) \cup Entries(t)
<1> DEFINE j == s \o t
<1>1. s \in Seq(Int) /\ t \in Seq(Int)
    BY DEF Vector
<1>2. /\ j \in Seq(Int) /\ Len(j) = Len(s) + Len(t)
      /\ \A i \in 1 .. Len(s) + Len(t) : j[i] = IF i <= Len(s) THEN s[i] ELSE t[i - Len(s)]
    BY <1>1
<1>3. /\ Len(s) \in Nat /\ DOMAIN s = 1 .. Len(s) /\ Len(t) \in Nat /\ DOMAIN t = 1 .. Len(t)
      /\ DOMAIN j = 1 .. Len(j)
    BY <1>1, <1>2
<1> HIDE DEF j
<1>4. ASSUME NEW i \in DOMAIN j PROVE j[i] \in Entries(s) \cup Entries(t)
  <2>1. CASE i <= Len(s)
    BY <1>2, <1>3, <2>1 DEF Entries
  <2>2. CASE i > Len(s)
    <3>1. i - Len(s) \in DOMAIN t /\ j[i] = t[i - Len(s)]
      BY <1>2, <1>3, <2>2
    <3> QED
      BY <3>1 DEF Entries
  <2> QED
    BY <1>2, <1>3, <2>1, <2>2
<1>5. ASSUME NEW i \in DOMAIN s PROVE s[i] \in Entries(j)
  <2>1. i \in DOMAIN j /\ j[i] = s[i]
    BY <1>2, <1>3
  <2> QED
    BY <2>1 DEF Entries
<1>6. ASSUME NEW i \in DOMAIN t PROVE t[i] \in Entries(j)
  <2>1. i + Len(s) \in DOMAIN j /\ j[i + Len(s)] = t[i]
    BY <1>2, <1>3
  <2> QED
    BY <2>1 DEF Entries
<1>7. Entries(j) = Entries(s) \cup Entries(t)
    BY <1>4, <1>5, <1>6 DEF Entries
<1> QED
    BY <1>2, <1>7 DEF Vector, j

LEMMA Appended ==
    ASSUME NEW s, Vector(s), NEW id \in Int
    PROVE  Vector(Append(s, id)) /\ Entries(Append(s, id)) = Entries(s) \cup {id}
<1> DEFINE t == Append(s, id)
<1>1. s \in Seq(Int)
    BY DEF Vector
<1>2. /\ t \in Seq(Int) /\ Len(s) \in Nat /\ DOMAIN s = 1 .. Len(s)
      /\ DOMAIN t = 1 .. Len(s) + 1
      /\ \A i \in 1 .. Len(s) : t[i] = s[i]
      /\ t[Len(s) + 1] = id
    BY <1>1
<1> HIDE DEF t
<1>3. \A i \in DOMAIN t : t[i] \in Entries(s) \cup {id}
    BY <1>2 DEF Entries
<1>4. \A i \in DOMAIN s : s[i] \in Entries(t)
    BY <1>2 DEF Entries
<1>5. id \in Entries(t)
    BY <1>2 DEF Entries
<1>6. Entries(t) = Entries(s) \cup {id}
    BY <1>3, <1>4, <1>5 DEF Entries
<1> QED
    BY <1>2, <1>6 DEF Vector, t

\* What sorting makes of a vector.
LEMMA UniqueResult ==
    ASSUME NEW s, Vector(s), NEW t \in SortedUnique(s)
    PROVE  Vector(t) /\ Entries(t) = Entries(s) /\ StrictlyAscending(t)
<1>1. Cardinality(Entries(s)) \in Nat /\ Entries(s) \subseteq Int
    BY VectorFacts, FS_CardinalityType
<1>2. t \in [1 .. Cardinality(Entries(s)) -> Int]
    BY <1>1 DEF SortedUnique
<1>3. t \in Seq(Int)
    BY <1>1, <1>2
<1> QED
    BY <1>3 DEF SortedUnique, Vector

LEMMA SortedResult ==
    ASSUME NEW s, Vector(s), NEW t \in Sorted(s)
    PROVE  Vector(t) /\ Entries(t) \subseteq Entries(s)
<1>1. PICK p \in Rearrangement(s) : t = [i \in DOMAIN s |-> s[p[i]]]
    BY DEF Sorted
<1>2. p \in [DOMAIN s -> DOMAIN s]
    BY DEF Rearrangement
<1>3. Len(s) \in Nat /\ DOMAIN s = 1 .. Len(s) /\ \A i \in DOMAIN s : s[i] \in Int
    BY VectorFacts
<1>4. t \in [1 .. Len(s) -> Int] /\ \A i \in DOMAIN t : t[i] \in Entries(s)
    BY <1>1, <1>2, <1>3 DEF Entries
<1>5. t \in Seq(Int)
    BY <1>3, <1>4
<1> QED
    BY <1>4, <1>5 DEF Vector, Entries

LEMMA RestOfVector ==
    ASSUME NEW s, Vector(s), NEW from \in Nat \ {0}
    PROVE  /\ Vector(SubSeq(s, from, Len(s)))
           /\ Entries(SubSeq(s, from, Len(s))) \subseteq Entries(s)
<1> DEFINE t == SubSeq(s, from, Len(s))
<1>1. s \in Seq(Int) /\ Len(s) \in Nat /\ DOMAIN s = 1 .. Len(s)
    BY DEF Vector
<1>2. CASE from > Len(s)
  <2>1. t = <<>>
    BY <1>1, <1>2
  <2> QED
    BY <2>1 DEF Vector, Entries
<1>3. CASE from <= Len(s)
  <2>1. /\ t \in Seq(Int) /\ DOMAIN t = 1 .. Len(s) - from + 1
        /\ \A i \in 1 .. Len(s) - from + 1 : t[i] = s[from + i - 1]
    BY <1>1, <1>3
  <2>2. \A i \in DOMAIN t : from + i - 1 \in DOMAIN s
    BY <1>1, <1>3, <2>1
  <2> HIDE DEF t
  <2>3. Entries(t) \subseteq Entries(s)
    BY <2>1, <2>2 DEF Entries
  <2> QED
    BY <2>1, <2>3 DEF Vector, t
<1> QED
    BY <1>1, <1>2, <1>3
-----------------------------------------------------------------------------
(* The lookup. *)

\* The first u ids are in order and all there are; what std::unique has left
\* behind them is among them.
Front(u) ==
    /\ Vector(m_vector) /\ u \in 0 .. Len(m_vector)
    /\ \A i, j \in 1 .. u : i < j => m_vector[i] < m_vector[j]
    /\ \A k \in DOMAIN m_vector : \E i \in 1 .. u : m_vector[i] = m_vector[k]

\* The position is in the front or just behind it.
PositionFor(u, id) ==
    /\ last \in 1 .. u + 1
    /\ last > 1 => m_vector[last - 1] < id

\* The first of some positions.
LEMMA FirstStop ==
    ASSUME NEW stops, stops \subseteq Nat, stops # {}
    PROVE  LET k == CHOOSE k \in stops : \A j \in stops : k <= j
           IN  k \in stops /\ \A j \in stops : k <= j
<1> DEFINE R == OpToRel(<, Nat)
<1>1. IsWellFoundedOn(R, Nat)
    BY NatLessThanWellFounded
<1>2. \A j, k \in Nat : <<j, k>> \in R <=> j < k
    BY DEF OpToRel
<1> HIDE DEF R
<1>3. PICK k \in stops : \A j \in stops : ~(<<j, k>> \in R)
    BY <1>1, WFMin
<1>4. \A j \in stops : k <= j
  <2> SUFFICES ASSUME NEW j \in stops PROVE k <= j
    OBVIOUS
  <2>1. k \in Nat /\ j \in Nat /\ ~(<<j, k>> \in R)
    BY <1>3
  <2>2. ~(j < k)
    BY <1>2, <2>1
  <2> QED
    BY <2>1, <2>2
<1> QED
    BY <1>4

\* The lookup finds an id that is in the vector and stays behind it; any other
\* leaves the position where it is, unless the search leaves the vector, and
\* then there was a smaller one.
LEMMA LookupResult ==
    ASSUME NEW u, Front(u), NEW id \in Int, PositionFor(u, id), NEW r \in Lookups(id)
    PROVE  /\ id \in Entries(m_vector) =>
                \E k \in 1 .. u : m_vector[k] = id /\ r = Found(k)
           /\ id \notin Entries(m_vector) =>
                \/ r = NotFound
                \/ r.stray /\ \E k \in DOMAIN m_vector : m_vector[k] < id
           /\ r.dead => r.stray
<1> DEFINE L == Len(m_vector)
           up == {k \in last .. L : id <= m_vector[k]}
           down == {k \in last .. L : m_vector[k] <= id}
<1>1. /\ L \in Nat /\ u \in Nat /\ u <= L /\ DOMAIN m_vector = 1 .. L
      /\ \A i \in 1 .. L : m_vector[i] \in Int
      /\ \A i, j \in 1 .. u : i < j => m_vector[i] < m_vector[j]
      /\ \A k \in 1 .. L : \E i \in 1 .. u : m_vector[i] = m_vector[k]
      /\ last \in Nat /\ last >= 1 /\ last <= u + 1
      /\ last > 1 => m_vector[last - 1] < id
  <2>1. Vector(m_vector) /\ u \in 0 .. Len(m_vector) /\ last \in 1 .. u + 1
    BY DEF Front, PositionFor
  <2>2. Len(m_vector) \in Nat /\ DOMAIN m_vector = 1 .. L /\ \A i \in 1 .. L : m_vector[i] \in Int
    BY <2>1, VectorFacts
  <2> HIDE DEF L
  <2> QED
    BY <2>1, <2>2 DEF Front, PositionFor, L
<1>2. up \subseteq Nat /\ down \subseteq Nat
    BY <1>1
<1>3. \A k \in 1 .. L : k < last => m_vector[k] < id
  <2> SUFFICES ASSUME NEW k \in 1 .. L, k < last PROVE m_vector[k] < id
    OBVIOUS
  <2>1. CASE k = last - 1
    BY <1>1, <2>1
  <2>2. CASE k < last - 1
    <3>1. k \in 1 .. u /\ last - 1 \in 1 .. u /\ last - 1 \in 1 .. L
      BY <1>1, <2>2
    <3>2. m_vector[k] < m_vector[last - 1] /\ m_vector[last - 1] < id
      BY <1>1, <2>2, <3>1
    <3> QED
      BY <1>1, <3>1, <3>2
  <2> QED
    BY <1>1, <2>1, <2>2
<1>4. Entries(m_vector) = {m_vector[k] : k \in 1 .. L}
    BY <1>1 DEF Entries
<1> DEFINE first == CHOOSE k \in up : \A j \in up : k <= j
           firstDown == CHOOSE k \in down : \A j \in down : k <= j
<1>5. up # {} => first \in up /\ \A j \in up : first <= j
    BY <1>2, FirstStop
<1>6. down # {} => firstDown \in down /\ \A j \in down : firstDown <= j
    BY <1>2, FirstStop
<1>7. Forward(id) = IF up = {} THEN {s \in Astray : ~s.dead}
                    ELSE IF m_vector[first] = id THEN {Found(first)} ELSE {NotFound}
    BY DEF Forward
<1>8. Backward(id) = IF down = {} THEN Astray
                     ELSE IF m_vector[firstDown] = id THEN {Found(firstDown)} ELSE {NotFound}
    BY DEF Backward
<1>9. /\ \A s \in Astray : s.stray
      /\ ~NotFound.dead /\ \A k : ~Found(k).dead
    BY DEF Astray, Found, NotFound
<1>10. \/ last = L + 1 /\ r = NotFound
       \/ last <= L /\ m_vector[last] <= id /\ r \in Forward(id)
       \/ last <= L /\ id < m_vector[last] /\ last = 1 /\ r = NotFound
       \/ last <= L /\ id < m_vector[last] /\ last > 1 /\ r \in Backward(id)
    BY <1>1 DEF Lookups, End
<1> HIDE DEF L, up, down, first, firstDown
<1>11. r.dead => r.stray
    BY <1>7, <1>8, <1>9, <1>10
<1>12. ASSUME id \in Entries(m_vector)
       PROVE  \E k \in 1 .. u : m_vector[k] = id /\ r = Found(k)
  <2>1. PICK j \in 1 .. u : m_vector[j] = id
    BY <1>1, <1>4, <1>12
  <2>2. j >= last /\ j \in up /\ last \in 1 .. u /\ last <= L
    BY <1>1, <1>3, <2>1 DEF up
  <2>3. m_vector[last] <= id
    BY <1>1, <2>1, <2>2
  <2>4. r \in Forward(id)
    BY <1>1, <1>10, <2>2, <2>3
  <2>5. first \in up /\ first <= j
    BY <1>5, <2>2
  <2>6. first \in 1 .. u /\ id <= m_vector[first]
    BY <1>1, <2>1, <2>5 DEF up
  <2>7. m_vector[first] = id
    BY <1>1, <2>1, <2>5, <2>6
  <2> QED
    BY <1>7, <2>2, <2>4, <2>6, <2>7
<1>13. ASSUME id \notin Entries(m_vector)
       PROVE  \/ r = NotFound
              \/ r.stray /\ \E k \in DOMAIN m_vector : m_vector[k] < id
  <2>1. \A k \in 1 .. L : m_vector[k] # id
    BY <1>4, <1>13
  <2>2. CASE last <= L /\ m_vector[last] <= id /\ r \in Forward(id)
    <3>1. last \in DOMAIN m_vector /\ m_vector[last] < id
      BY <1>1, <2>1, <2>2
    <3>2. CASE up = {}
      BY <1>7, <1>9, <2>2, <3>1, <3>2
    <3>3. CASE up # {}
      <4>1. first \in 1 .. L
        BY <1>1, <1>5, <3>3 DEF up
      <4> QED
        BY <1>7, <2>1, <2>2, <3>3, <4>1
    <3> QED
      BY <3>2, <3>3
  <2>3. CASE last <= L /\ id < m_vector[last] /\ last > 1 /\ r \in Backward(id)
    <3>1. last - 1 \in DOMAIN m_vector /\ m_vector[last - 1] < id
      BY <1>1, <2>3
    <3>2. CASE down = {}
      BY <1>8, <1>9, <2>3, <3>1, <3>2
    <3>3. CASE down # {}
      <4>1. firstDown \in 1 .. L
        BY <1>1, <1>6, <3>3 DEF down
      <4> QED
        BY <1>8, <2>1, <2>3, <3>3, <4>1
    <3> QED
      BY <3>2, <3>3
  <2> QED
    BY <1>10, <2>2, <2>3
<1> QED
    BY <1>11, <1>12, <1>13
-----------------------------------------------------------------------------
(* The invariant. *)

LEMMA InputFacts ==
    ASSUME input \in Inputs
    PROVE  /\ Vector(input.file)
           /\ Len(input.ways) \in Nat /\ DOMAIN input.ways = 1 .. Len(input.ways)
           /\ \A w \in DOMAIN input.ways : Vector(nodes(w))
<1>1. /\ input.file \in Seq(Int)
      /\ input.ways \in Seq([nodes : Seq(Int), type : STRING])
    BY InputsAssumption
<1> DEFINE Way == [nodes : Seq(Int), type : STRING]
<1>2. \A w \in Way : w.nodes \in Seq(Int)
    OBVIOUS
<1>3. input.ways \in Seq(Way)
    BY <1>1
<1> HIDE DEF Way
<1>4. /\ Len(input.ways) \in Nat /\ DOMAIN input.ways = 1 .. Len(input.ways)
      /\ \A w \in DOMAIN input.ways : input.ways[w] \in Way
    BY <1>3
<1> QED
    BY <1>1, <1>2, <1>4 DEF Vector, nodes

\* The ids of the ways that pass 1 has reached.
TrackedWay(w) == type(w) \in Types /\ Len(nodes(w)) > 1 /\ ~ends_have_same_id(nodes(w))
Tracked(n) == UNION {Entries(nodes(w)) : w \in {w \in DOMAIN input.ways : w <= n /\ TrackedWay(w)}}

TypeInv ==
    /\ input \in Inputs
    /\ phase \in {"pass1", "nodes", "ways", "done", "dead", "stopped"}
    /\ at \in Nat
    /\ Vector(m_vector) /\ Vector(m_index)
    /\ strayed \in BOOLEAN

CollectInv ==
    phase = "pass1" =>
        /\ at <= Len(input.ways)
        /\ Entries(m_vector) = Tracked(at)
        /\ m_index = <<>> /\ last = 1 /\ ~strayed

\* The position is in the front, and an id that the file has been found in front of it.
SearchInv ==
    (phase = "nodes" /\ InOrder /\ ~strayed) =>
        \E u \in 0 .. Len(m_vector) :
            /\ Front(u) /\ last \in 1 .. u + 1
            /\ last > 1 => m_vector[last - 1] \in Read

AddrInv ==
    /\ TypeInv /\ CollectInv /\ SearchInv /\ LookupsExact
    /\ phase = "nodes" => at <= Len(input.file)
    /\ Searched => Entries(m_vector) = Required

LEMMA SameInput ==
    ASSUME UNCHANGED input
    PROVE  /\ Required' = Required /\ (InOrder' <=> InOrder)
           /\ UNCHANGED at => Tracked(at)' = Tracked(at)
<1>1. Required' = Required
    BY DEF Required, nodes, type, ends_have_same_id
<1>2. InOrder' <=> InOrder
    BY DEF InOrder, StrictlyAscending
<1>3. UNCHANGED at => Tracked(at)' = Tracked(at)
    BY DEF Tracked, TrackedWay, nodes, type, ends_have_same_id
<1> QED
    BY <1>1, <1>2, <1>3

LEMMA AllTracked ==
    ASSUME input \in Inputs
    PROVE  Tracked(Len(input.ways)) = Required /\ Tracked(0) = {}
<1>1. Len(input.ways) \in Nat /\ DOMAIN input.ways = 1 .. Len(input.ways)
    BY InputFacts
<1> QED
    BY <1>1 DEF Tracked, TrackedWay, Required

LEMMA Pass1WayInv ==
    ASSUME AddrInv, Pass1Way
    PROVE  AddrInv'
<1>1. /\ TypeInv /\ CollectInv /\ phase = "pass1" /\ phase' = "pass1"
      /\ at < Len(input.ways) /\ at' = at + 1
      /\ UNCHANGED <<input, m_index>>
    BY DEF AddrInv, Pass1Way
<1>2. /\ input \in Inputs /\ at \in Nat /\ Vector(m_vector) /\ at + 1 \in DOMAIN input.ways
      /\ Vector(nodes(at + 1)) /\ Len(input.ways) \in Nat
    BY <1>1, InputFacts DEF TypeInv
<1> DEFINE w == at + 1
           line == nodes(w)
<1>3. Entries(m_vector) = Tracked(at) /\ m_index = <<>> /\ last = 1 /\ ~strayed
    BY <1>1 DEF CollectInv
<1>4. last' = 1 /\ strayed' = strayed
    BY <1>3 DEF Pass1Way, track, trackingVars
<1>5. Tracked(w) = Tracked(at) \cup (IF TrackedWay(w) THEN Entries(line) ELSE {})
  <2>1. {v \in DOMAIN input.ways : v <= w /\ TrackedWay(v)}
            = {v \in DOMAIN input.ways : v <= at /\ TrackedWay(v)}
                \cup (IF TrackedWay(w) THEN {w} ELSE {})
    BY <1>2, InputFacts
  <2> QED
    BY <2>1 DEF Tracked
<1>6. Vector(m_vector') /\ Entries(m_vector') = Tracked(w)
  <2>1. Len(line) \in Nat /\ DOMAIN line = 1 .. Len(line)
    BY <1>2, VectorFacts
  <2>2. CASE TracksWay(w)
    <3>1. m_vector' = m_vector \o line
      BY <2>2 DEF Pass1Way, track
    <3>2. Vector(m_vector') /\ Entries(m_vector') = Tracked(at) \cup Entries(line)
      BY <1>2, <1>3, <3>1, Joined
    <3>3. CASE Len(line) = 0
      <4>1. Entries(line) = {} /\ ~TrackedWay(w)
        BY <2>1, <3>3 DEF Entries, TrackedWay
      <4> QED
        BY <1>5, <3>2, <4>1
    <3>4. CASE Len(line) # 0
      <4>1. TrackedWay(w)
        BY <2>1, <2>2, <3>4 DEF TracksWay, TrackedWay, valid_interpolation, ends_have_same_id
      <4> QED
        BY <1>5, <3>2, <4>1
    <3> QED
      BY <3>3, <3>4
  <2>3. CASE ~TracksWay(w)
    <3>1. m_vector' = m_vector
      BY <2>3 DEF Pass1Way, trackingVars
    <3>2. ~TrackedWay(w)
      BY <2>1, <2>3 DEF TracksWay, TrackedWay, valid_interpolation, ends_have_same_id
    <3> QED
      BY <1>2, <1>3, <1>5, <3>1, <3>2
  <2> QED
    BY <2>2, <2>3
<1>7. TypeInv'
    BY <1>1, <1>2, <1>4, <1>6 DEF TypeInv, Vector
<1>8. CollectInv'
  <2>1. Tracked(at)' = Tracked(w)
    BY <1>1 DEF Tracked, TrackedWay, nodes, type, ends_have_same_id
  <2>2. Entries(m_vector)' = Tracked(at)'
    BY <1>6, <2>1 DEF Entries
  <2> QED
    BY <1>1, <1>2, <1>3, <1>4, <2>2 DEF CollectInv
<1>9. ~Searched' /\ LookupsExact' /\ SearchInv'
    BY <1>1, <1>3, <1>4 DEF Searched, LookupsExact, SearchInv
<1> QED
    BY <1>1, <1>7, <1>8, <1>9 DEF AddrInv

LEMMA AfterPass1Inv ==
    ASSUME AddrInv, AfterPass1
    PROVE  AddrInv'
<1>1. /\ TypeInv /\ CollectInv /\ phase = "pass1" /\ phase' = "nodes" /\ at' = 0
      /\ at = Len(input.ways) /\ last' = 1
      /\ UNCHANGED <<input, m_index, strayed>>
    BY DEF AddrInv, AfterPass1, prepare_for_lookup
<1>2. /\ input \in Inputs /\ Vector(m_vector) /\ Vector(m_index)
      /\ Entries(m_vector) = Required /\ m_index = <<>> /\ ~strayed
    BY <1>1, AllTracked DEF TypeInv, CollectInv
<1>3. PICK unique \in SortedUnique(m_vector), sorted \in Sorted(m_vector) :
        m_vector' = unique \o SubSeq(sorted, Len(unique) + 1, Len(sorted))
    BY DEF AfterPass1, prepare_for_lookup
<1>4. Vector(unique) /\ Entries(unique) = Required /\ StrictlyAscending(unique)
    BY <1>2, UniqueResult
<1>5. Vector(sorted) /\ Entries(sorted) \subseteq Required
    BY <1>2, SortedResult
<1> DEFINE u == Len(unique)
           rest == SubSeq(sorted, u + 1, Len(sorted))
<1>6. u \in Nat /\ DOMAIN unique = 1 .. u /\ \A i \in 1 .. u : unique[i] \in Int
    BY <1>4, VectorFacts
<1>7. Vector(rest) /\ Entries(rest) \subseteq Required
    BY <1>5, <1>6, RestOfVector
<1>8. /\ m_vector' = unique \o rest /\ unique \in Seq(Int) /\ rest \in Seq(Int)
    BY <1>3, <1>4, <1>7 DEF Vector
<1> HIDE DEF rest
<1>9. Vector(m_vector') /\ Entries(m_vector') = Required
    BY <1>4, <1>7, <1>8, Joined
<1>10. u <= Len(m_vector') /\ Len(m_vector') \in Nat /\ \A i \in 1 .. u : m_vector'[i] = unique[i]
    BY <1>6, <1>8
<1>11. Front(u)'
  <2>1. \A i, j \in 1 .. u : i < j => m_vector'[i] < m_vector'[j]
    BY <1>4, <1>6, <1>10 DEF StrictlyAscending
  <2>2. ASSUME NEW k \in DOMAIN m_vector'
        PROVE  \E i \in 1 .. u : m_vector'[i] = m_vector'[k]
    <3>1. m_vector'[k] \in Entries(unique)
      BY <1>4, <1>9 DEF Entries
    <3> QED
      BY <1>6, <1>10, <3>1 DEF Entries
  <2> QED
    BY <1>6, <1>9, <1>10, <2>1, <2>2 DEF Front
<1>12. TypeInv'
    BY <1>1, <1>2, <1>9 DEF TypeInv
<1>13. SearchInv'
    BY <1>1, <1>6, <1>10, <1>11 DEF SearchInv
<1>14. Required' = Required
    BY <1>1, SameInput
<1>15. LookupsExact'
  <2>1. Read' = {}
    BY <1>1 DEF Read
  <2>2. Entries(m_index') = {}
    BY <1>1, <1>2 DEF Entries
  <2> QED
    BY <1>1, <1>2, <1>14, <2>1, <2>2 DEF LookupsExact
<1>16. 0 <= Len(input.file)
    BY <1>2, InputFacts, VectorFacts
<1> QED
    BY <1>1, <1>9, <1>12, <1>13, <1>14, <1>15, <1>16 DEF AddrInv, CollectInv

\* Ids that are still to come are greater than those that have been read.
LEMMA ReadFacts ==
    ASSUME input \in Inputs, at \in Nat, phase = "nodes", at < Len(input.file)
    PROVE  /\ input.file[at + 1] \in Int
           /\ Read \subseteq Int
           /\ InOrder => \A id \in Read : id < input.file[at + 1]
<1>1. /\ Len(input.file) \in Nat /\ DOMAIN input.file = 1 .. Len(input.file)
      /\ \A i \in DOMAIN input.file : input.file[i] \in Int
    BY InputFacts, VectorFacts
<1>2. Read = {input.file[i] : i \in 1 .. at}
    BY DEF Read
<1> QED
    BY <1>1, <1>2 DEF InOrder, StrictlyAscending

LEMMA ReadGrows ==
    ASSUME input \in Inputs, at \in Nat, phase = "nodes", at < Len(input.file),
           UNCHANGED input, at' = at + 1
    PROVE  /\ phase' = "nodes" => Read' = Read \cup {input.file[at + 1]}
           /\ Read \cup {input.file[at + 1]} \subseteq Read'
<1>1. Len(input.file) \in Nat
    BY InputFacts, VectorFacts
<1>2. Read = {input.file[i] : i \in 1 .. at}
    BY DEF Read
<1>3. phase' = "nodes" => Read' = {input.file[i] : i \in 1 .. at + 1}
    BY DEF Read
<1>4. phase' # "nodes" => Read' = {input.file[i] : i \in 1 .. Len(input.file)}
    BY DEF Read
<1> QED
    BY <1>1, <1>2, <1>3, <1>4

LEMMA HandleNodeInv ==
    ASSUME AddrInv, HandleNode
    PROVE  AddrInv'
<1> DEFINE id == input.file[at + 1]
<1>1. PICK r \in Lookups(id) :
        /\ node_needed(id, r)
        /\ m_index' = IF r.needed THEN Append(m_index, id) ELSE m_index
        /\ phase' = IF r.dead THEN "dead" ELSE phase
    BY DEF HandleNode
<1>2. /\ TypeInv /\ SearchInv /\ LookupsExact /\ phase = "nodes" /\ Searched
      /\ Entries(m_vector) = Required
      /\ at < Len(input.file) /\ at' = at + 1 /\ UNCHANGED <<input, m_vector>>
      /\ last' = r.last /\ strayed' = (strayed \/ r.stray)
    BY <1>1 DEF AddrInv, HandleNode, node_needed, Searched
<1>3. /\ input \in Inputs /\ at \in Nat /\ Vector(m_vector) /\ Vector(m_index)
      /\ strayed \in BOOLEAN
    BY <1>2 DEF TypeInv
<1>4. id \in Int /\ Read \subseteq Int /\ (InOrder => \A n \in Read : n < id)
    BY <1>2, <1>3, ReadFacts
<1>5. /\ phase' = "nodes" => Read' = Read \cup {id}
      /\ Read \cup {id} \subseteq Read'
    BY <1>2, <1>3, ReadGrows
<1>6. Required' = Required /\ (InOrder' <=> InOrder)
    BY <1>2, SameInput
<1>7. Len(input.file) \in Nat
    BY <1>3, InputFacts, VectorFacts
<1> HIDE DEF id
<1>8. phase' \in {"nodes", "dead"} /\ (phase' = "nodes" \/ r.dead)
    BY <1>1, <1>2
<1>9. /\ Vector(m_index')
      /\ Entries(m_index') = Entries(m_index) \cup (IF r.needed THEN {id} ELSE {})
    BY <1>1, <1>3, <1>4, Appended
<1>10. TypeInv'
    BY <1>2, <1>3, <1>8, <1>9 DEF TypeInv, Vector
<1>11. ASSUME InOrder, ~strayed
       PROVE  /\ SearchInv'
              /\ r.dead => r.stray
              /\ ~r.stray => Entries(m_index') = Required \cap (Read \cup {id})
              /\ r.stray => id \notin Required /\ \E needed \in Required : needed < id
  <2>1. PICK u \in 0 .. Len(m_vector) :
            /\ Front(u) /\ last \in 1 .. u + 1
            /\ last > 1 => m_vector[last - 1] \in Read
    BY <1>2, <1>11 DEF SearchInv
  <2>2. PositionFor(u, id)
    BY <1>4, <1>11, <2>1 DEF PositionFor
  <2>3. Entries(m_index) = Required \cap Read
    BY <1>2, <1>11 DEF LookupsExact
  <2>4. Front(u)'
    BY <1>2, <2>1 DEF Front, Vector
  <2>5. r.dead => r.stray
    BY <1>1, <1>4, <2>1, <2>2, LookupResult
  <2>6. CASE id \in Required
    <3>1. PICK k \in 1 .. u : m_vector[k] = id /\ r = Found(k)
      BY <1>1, <1>2, <1>4, <2>1, <2>2, <2>6, LookupResult
    <3>2. r.last = k + 1 /\ r.needed /\ ~r.stray
      BY <3>1 DEF Found
    <3>3. last' \in 1 .. u + 1 /\ last' > 1 /\ m_vector'[last' - 1] = id
      BY <1>2, <2>1, <3>1, <3>2
    <3>4. phase' = "nodes"
      BY <1>8, <2>5, <3>2
    <3>5. SearchInv'
      BY <1>2, <1>5, <2>1, <2>4, <3>3, <3>4 DEF SearchInv
    <3> QED
      BY <1>9, <2>3, <2>5, <2>6, <3>2, <3>5
  <2>7. CASE id \notin Required /\ r = NotFound
    <3>1. r.last = last /\ ~r.needed /\ ~r.stray
      BY <2>7 DEF NotFound
    <3>2. phase' = "nodes"
      BY <1>8, <2>5, <3>1
    <3>3. last' > 1 => m_vector'[last' - 1] \in Read'
      BY <1>2, <1>5, <2>1, <3>1
    <3>4. SearchInv'
      BY <1>2, <2>1, <2>4, <3>1, <3>3 DEF SearchInv
    <3> QED
      BY <1>9, <2>3, <2>5, <2>7, <3>1, <3>4
  <2>8. CASE id \notin Required /\ r.stray /\ \E k \in DOMAIN m_vector : m_vector[k] < id
    <3>1. \E needed \in Required : needed < id
      BY <1>2, <2>8 DEF Entries
    <3>2. SearchInv'
      BY <1>2, <2>8 DEF SearchInv
    <3> QED
      BY <2>5, <2>8, <3>1, <3>2
  <2> QED
    BY <1>1, <1>2, <1>4, <2>1, <2>2, <2>6, <2>7, <2>8, LookupResult
<1>12. SearchInv'
  <2>1. CASE InOrder /\ ~strayed
    BY <1>11, <2>1
  <2>2. CASE ~InOrder \/ strayed
    BY <1>2, <1>6, <2>2 DEF SearchInv
  <2> QED
    BY <2>1, <2>2
<1>13. LookupsExact'
  <2>1. CASE ~InOrder
    BY <1>6, <2>1 DEF LookupsExact
  <2>2. CASE InOrder /\ strayed
    <3>1. \E n \in Read \ Required : \E needed \in Required : needed < n
      BY <1>2, <2>2 DEF LookupsExact
    <3>2. \E n \in Read' \ Required' : \E needed \in Required' : needed < n
      BY <1>5, <1>6, <3>1
    <3> QED
      BY <1>2, <2>2, <3>2 DEF LookupsExact
  <2>3. CASE InOrder /\ ~strayed /\ r.stray
    <3>1. id \in Read' \ Required' /\ \E needed \in Required' : needed < id
      BY <1>5, <1>6, <1>11, <2>3
    <3> QED
      BY <1>2, <2>3, <3>1 DEF LookupsExact
  <2>4. CASE InOrder /\ ~strayed /\ ~r.stray
    <3>1. phase' = "nodes" /\ Entries(m_index') = Required' \cap Read'
      BY <1>5, <1>6, <1>8, <1>11, <2>4
    <3>2. ~strayed'
      BY <1>2, <2>4
    <3> QED
      BY <3>1, <3>2 DEF LookupsExact
  <2> QED
    BY <2>1, <2>2, <2>3, <2>4
<1>14. Entries(m_vector') = Required'
    BY <1>2, <1>6
<1>15. at' <= Len(input'.file)
    BY <1>2, <1>3, <1>7
<1> QED
    BY <1>8, <1>10, <1>12, <1>13, <1>14, <1>15 DEF AddrInv, CollectInv

\* What comes after the nodes: everything has been read, nothing is looked up.
LEMMA LaterInv ==
    ASSUME AddrInv, phase \in {"nodes", "ways"}, phase = "nodes" => at = Len(input.file),
           phase' \in {"ways", "done", "dead", "stopped"}, at' \in Nat,
           UNCHANGED <<trackingVars, input, m_index>>
    PROVE  AddrInv'
<1>1. /\ TypeInv /\ LookupsExact /\ Searched /\ Entries(m_vector) = Required
      /\ UNCHANGED <<m_vector, last, strayed, input, m_index>>
    BY DEF AddrInv, Searched, trackingVars
<1>2. Required' = Required /\ (InOrder' <=> InOrder)
    BY <1>1, SameInput
<1>3. Read' = Read
    BY <1>1 DEF Read
<1>4. LookupsExact'
    BY <1>1, <1>2, <1>3 DEF LookupsExact
<1>5. TypeInv'
    BY <1>1 DEF TypeInv, Vector
<1> QED
    BY <1>1, <1>2, <1>4, <1>5 DEF AddrInv, CollectInv, SearchInv

LEMMA InitInv ==
    ASSUME Init
    PROVE  AddrInv
<1>1. /\ m_vector = <<>> /\ last = 1 /\ strayed = FALSE /\ input \in Inputs
      /\ phase = "pass1" /\ at = 0 /\ m_index = <<>>
    BY DEF Init, TrackingInit
<1>2. Vector(<<>>) /\ Entries(<<>>) = {}
    BY DEF Vector, Entries
<1>3. Tracked(0) = {} /\ 0 <= Len(input.ways)
    BY <1>1, AllTracked, InputFacts
<1> QED
    BY <1>1, <1>2, <1>3
    DEF AddrInv, TypeInv, CollectInv, SearchInv, LookupsExact, Searched

LEMMA StepInv ==
    ASSUME AddrInv, [Next]_vars
    PROVE  AddrInv'
<1>1. CASE Pass1Way
    BY <1>1, Pass1WayInv
<1>2. CASE AfterPass1
    BY <1>2, AfterPass1Inv
<1>3. CASE HandleNode
    BY <1>3, HandleNodeInv
<1>4. CASE StartWays
    BY <1>4, LaterInv DEF StartWays
<1>5. CASE HandleWay
  <2>1. phase = "ways" /\ phase' \in {"ways", "dead", "stopped"} /\ at' \in Nat
    BY <1>5 DEF HandleWay, AddrInv, TypeInv
  <2> QED
    BY <1>5, <2>1, LaterInv DEF HandleWay
<1>6. CASE Finish
  <2>1. at' \in Nat
    BY <1>6 DEF Finish, AddrInv, TypeInv
  <2> QED
    BY <1>6, <2>1, LaterInv DEF Finish
<1>7. CASE UNCHANGED vars
  <2>1. UNCHANGED <<m_vector, last, strayed, input, phase, at, m_index>>
    BY <1>7 DEF vars
  <2>2. Required' = Required /\ (InOrder' <=> InOrder) /\ Tracked(at)' = Tracked(at)
    BY <2>1, SameInput
  <2>3. Read' = Read
    BY <2>1 DEF Read
  <2>4. LookupsExact' /\ TypeInv' /\ CollectInv'
    BY <2>1, <2>2, <2>3 DEF AddrInv, LookupsExact, Searched, TypeInv, CollectInv, Vector
  <2>5. SearchInv'
    BY <2>1, <2>2, <2>3 DEF AddrInv, SearchInv, Front, Vector
  <2> QED
    BY <2>1, <2>2, <2>4, <2>5 DEF AddrInv, Searched
<1> QED
    BY <1>1, <1>2, <1>3, <1>4, <1>5, <1>6, <1>7 DEF Next

\* If the nodes of the file are in order and memory behind the vector is not
\* read, the resumed search of RequiredNodesTracking::node_needed() keeps the
\* tags of exactly the nodes that pass 1 has remembered; and it is read only for a
\* node that is not required and has a greater id than one that is.
THEOREM LookupsAreExact == Spec => []LookupsExact
<1>1. Init => AddrInv
    BY InitInv
<1>2. AddrInv /\ [Next]_vars => AddrInv'
    BY StepInv
<1>3. AddrInv => LookupsExact
    BY DEF AddrInv
<1> QED
    BY <1>1, <1>2, <1>3, PTL DEF Spec
-----------------------------------------------------------------------------
(* The search in the index of the tags.                                     *)

\* What LowerBound computes: h says for every range <<n, first>> where its search ends.
Ranges(s) == {r \in (0 .. Len(s)) \X (1 .. Len(s) + 1) : r[1] + r[2] <= Len(s) + 1}
Lower(r) == <<r[1] \div 2, r[2]>>
Upper(r) == <<r[1] - (r[1] \div 2) - 1, r[2] + (r[1] \div 2) + 1>>
Halved(s, id, h, r) ==
    IF r[1] = 0 THEN r[2]
    ELSE IF s[r[2] + (r[1] \div 2)] < id THEN h[Upper(r)] ELSE h[Lower(r)]
Searches(s, id, h) == h = [r \in Ranges(s) |-> Halved(s, id, h, r)]

LEMMA LowerBoundIsSearch ==
    ASSUME NEW s, NEW id
    PROVE  LowerBound(s, id) = (CHOOSE h : Searches(s, id, h))[<<Len(s), 1>>]
BY DEF LowerBound, Searches, Halved, Ranges, Lower, Upper

\* A range that is left is shorter, and within the index.
LEMMA RangesShrink ==
    ASSUME NEW s, Vector(s), NEW r \in Ranges(s), r[1] # 0
    PROVE  /\ r[1] \in Nat /\ r[2] \in Nat \ {0} /\ r[1] + r[2] <= Len(s) + 1
           /\ Lower(r) \in Ranges(s) /\ Lower(r)[1] < r[1] /\ Lower(r)[1] \in Nat
           /\ Upper(r) \in Ranges(s) /\ Upper(r)[1] < r[1] /\ Upper(r)[1] \in Nat
           /\ r[2] + (r[1] \div 2) \in 1 .. Len(s)
<1>1. /\ Len(s) \in Nat /\ r[1] \in 0 .. Len(s) /\ r[2] \in 1 .. Len(s) + 1
      /\ r[1] + r[2] <= Len(s) + 1
    BY VectorFacts DEF Ranges
<1> DEFINE half == r[1] \div 2
<1>2. half \in Nat /\ half < r[1]
    BY <1>1
<1> HIDE DEF half
<1>3. <<half, r[2]>> \in Ranges(s) /\ <<r[1] - half - 1, r[2] + half + 1>> \in Ranges(s)
    BY <1>1, <1>2 DEF Ranges
<1>4. Lower(r) = <<half, r[2]>> /\ Upper(r) = <<r[1] - half - 1, r[2] + half + 1>>
    BY DEF Lower, Upper, half
<1>5. r[2] + half \in 1 .. Len(s)
    BY <1>1, <1>2
<1>6. /\ Lower(r)[1] = half /\ Upper(r)[1] = r[1] - half - 1
    BY <1>4
<1>7. r[2] + (r[1] \div 2) \in 1 .. Len(s)
    BY <1>5 DEF half
<1>8. Lower(r) \in Ranges(s) /\ Upper(r) \in Ranges(s)
    BY <1>3, <1>4
<1>9. /\ Lower(r)[1] < r[1] /\ Lower(r)[1] \in Nat
      /\ Upper(r)[1] < r[1] /\ Upper(r)[1] \in Nat
    BY <1>1, <1>2, <1>6
<1> QED
    BY <1>1, <1>7, <1>8, <1>9

\* The least of some numbers.
LEMMA LeastOf ==
    ASSUME NEW T, T \subseteq Nat, T # {}
    PROVE  \E n \in T : \A m \in T : n <= m
BY FirstStop

\* There is such a function: by induction on the length of the ranges.
LEMMA SearchExists ==
    ASSUME NEW s, Vector(s), NEW id
    PROVE  \E h : Searches(s, id, h)
<1> DEFINE UpTo(n) == {r \in Ranges(s) : r[1] <= n}
           Partial(n) == \E h : h = [r \in UpTo(n) |-> Halved(s, id, h, r)]
           bad == {n \in Nat : ~Partial(n)}
<1>1. Len(s) \in Nat /\ \A r \in Ranges(s) : r[1] \in Nat /\ r[1] <= Len(s)
    BY VectorFacts DEF Ranges
<1>2. Partial(0)
  <2> DEFINE h == [r \in UpTo(0) |-> r[2]]
  <2>1. \A r \in UpTo(0) : r[1] = 0
    BY <1>1
  <2>2. \A r \in UpTo(0) : Halved(s, id, h, r) = r[2]
    BY <2>1 DEF Halved
  <2>3. h = [r \in UpTo(0) |-> Halved(s, id, h, r)]
    BY <2>2
  <2> QED
    BY <2>3
<1>3. ASSUME NEW n \in Nat, n # 0, Partial(n - 1)
      PROVE  Partial(n)
  <2>1. PICK h : h = [r \in UpTo(n - 1) |-> Halved(s, id, h, r)]
    BY <1>3
  <2> DEFINE g == [r \in UpTo(n) |-> IF r[1] <= n - 1 THEN h[r] ELSE Halved(s, id, h, r)]
  <2>2. \A r \in UpTo(n - 1) : r \in UpTo(n) /\ g[r] = h[r]
    BY <1>1
  <2>3. ASSUME NEW r \in UpTo(n) PROVE Halved(s, id, g, r) = Halved(s, id, h, r)
    <3>1. CASE r[1] = 0
      BY <3>1 DEF Halved
    <3>2. CASE r[1] # 0
      <4>1. Lower(r) \in UpTo(n - 1) /\ Upper(r) \in UpTo(n - 1)
        BY <3>2, RangesShrink
      <4>2. g[Lower(r)] = h[Lower(r)] /\ g[Upper(r)] = h[Upper(r)]
        BY <2>2, <4>1
      <4> HIDE DEF g
      <4> QED
        BY <4>2 DEF Halved
    <3> QED
      BY <3>1, <3>2
  <2>4. ASSUME NEW r \in UpTo(n) PROVE g[r] = Halved(s, id, h, r)
    <3>1. CASE r[1] <= n - 1
      <4>1. r \in UpTo(n - 1)
        BY <3>1
      <4>2. h[r] = Halved(s, id, h, r)
        BY <2>1, <4>1
      <4> QED
        BY <3>1, <4>2
    <3>2. CASE ~(r[1] <= n - 1)
      BY <3>2
    <3> QED
      BY <3>1, <3>2
  <2>5. \A r \in UpTo(n) : g[r] = Halved(s, id, g, r)
    BY <2>3, <2>4
  <2>6. g = [r \in UpTo(n) |-> g[r]]
    OBVIOUS
  <2> HIDE DEF g
  <2>7. g = [r \in UpTo(n) |-> Halved(s, id, g, r)]
    BY <2>5, <2>6
  <2> QED
    BY <2>7
<1> HIDE DEF Partial
<1>4. bad = {}
  <2> SUFFICES ASSUME bad # {} PROVE FALSE
    OBVIOUS
  <2>1. PICK n \in bad : \A m \in bad : n <= m
    BY LeastOf
  <2>2. n # 0 /\ n \in Nat
    BY <1>2, <2>1
  <2>3. n - 1 \in Nat /\ n - 1 \notin bad
    BY <2>1, <2>2
  <2> QED
    BY <1>3, <2>1, <2>2, <2>3
<1>5. Partial(Len(s))
    BY <1>1, <1>4
<1>6. UpTo(Len(s)) = Ranges(s)
    BY <1>1
<1>7. PICK h : h = [r \in UpTo(Len(s)) |-> Halved(s, id, h, r)]
    BY <1>5 DEF Partial
<1> HIDE DEF UpTo
<1>8. h = [r \in Ranges(s) |-> Halved(s, id, h, r)]
    BY <1>6, <1>7
<1> QED
    BY <1>8 DEF Searches

\* Everything in front of the range is smaller than id, everything behind it is not.
Cut(s, id, from, to) ==
    /\ \A i \in DOMAIN s : i < from => s[i] < id
    /\ \A i \in DOMAIN s : i >= to => s[i] >= id

\* In an index in order the search ends where the ids cease to be smaller.
LEMMA SearchEnds ==
    ASSUME NEW s, Vector(s), StrictlyAscending(s), NEW id \in Int, NEW h, Searches(s, id, h),
           NEW r \in Ranges(s), Cut(s, id, r[2], r[1] + r[2])
    PROVE  h[r] \in 1 .. Len(s) + 1 /\ Cut(s, id, h[r], h[r])
<1> DEFINE Right(q) == Cut(s, id, q[2], q[1] + q[2]) =>
                            h[q] \in 1 .. Len(s) + 1 /\ Cut(s, id, h[q], h[q])
           bad == {n \in Nat : \E q \in Ranges(s) : q[1] = n /\ ~Right(q)}
<1>1. /\ Len(s) \in Nat /\ DOMAIN s = 1 .. Len(s) /\ \A i \in DOMAIN s : s[i] \in Int
    BY VectorFacts
<1>2. \A q \in Ranges(s) : h[q] = Halved(s, id, h, q)
    BY DEF Searches
<1>3. ASSUME NEW q \in Ranges(s), \A o \in Ranges(s) : o[1] < q[1] => Right(o),
             Cut(s, id, q[2], q[1] + q[2])
      PROVE  h[q] \in 1 .. Len(s) + 1 /\ Cut(s, id, h[q], h[q])
  <2>1. CASE q[1] = 0
    <3>1. q[2] \in 1 .. Len(s) + 1 /\ q[1] + q[2] = q[2]
      BY <1>1, <2>1 DEF Ranges
    <3>2. h[q] = q[2]
      BY <1>2, <2>1 DEF Halved
    <3> QED
      BY <1>3, <3>1, <3>2
  <2>2. CASE q[1] # 0
    <3> DEFINE half == q[1] \div 2
               mid == q[2] + half
    <3>1. /\ q[1] \in Nat /\ q[2] \in Nat \ {0}
          /\ Lower(q) \in Ranges(s) /\ Lower(q)[1] < q[1]
          /\ Upper(q) \in Ranges(s) /\ Upper(q)[1] < q[1]
          /\ mid \in DOMAIN s
      BY <1>1, <2>2, RangesShrink
    <3>2. /\ half \in Nat /\ Lower(q)[2] = q[2] /\ Lower(q)[1] + Lower(q)[2] = mid
          /\ Upper(q)[2] = mid + 1 /\ Upper(q)[1] + Upper(q)[2] = q[1] + q[2]
      BY <3>1 DEF Lower, Upper
    <3> HIDE DEF half, mid
    <3>3. h[q] = IF s[mid] < id THEN h[Upper(q)] ELSE h[Lower(q)]
      BY <1>2, <2>2 DEF Halved, mid, half
    <3>4. mid \in 1 .. Len(s) /\ s[mid] \in Int
      BY <1>1, <3>1
    <3>5. CASE s[mid] < id
      <4>1. ASSUME NEW i \in DOMAIN s, i < mid + 1 PROVE s[i] < id
        <5>1. i = mid \/ i < mid
          BY <1>1, <3>4, <4>1
        <5>2. i < mid => s[i] < s[mid]
          BY <3>1 DEF StrictlyAscending
        <5> QED
          BY <1>1, <3>4, <3>5, <5>1, <5>2
      <4>2. Cut(s, id, Upper(q)[2], Upper(q)[1] + Upper(q)[2])
        BY <1>3, <3>2, <4>1 DEF Cut
      <4> QED
        BY <1>3, <3>1, <3>3, <3>5, <4>2
    <3>6. CASE ~(s[mid] < id)
      <4>1. ASSUME NEW i \in DOMAIN s, i >= mid PROVE s[i] >= id
        <5>1. i = mid \/ mid < i
          BY <1>1, <3>4, <4>1
        <5>2. mid < i => s[mid] < s[i]
          BY <3>1 DEF StrictlyAscending
        <5> QED
          BY <1>1, <3>4, <3>6, <5>1, <5>2
      <4>2. Cut(s, id, Lower(q)[2], Lower(q)[1] + Lower(q)[2])
        BY <1>3, <3>2, <4>1 DEF Cut
      <4> QED
        BY <1>3, <3>1, <3>3, <3>6, <4>2
    <3> QED
      BY <3>5, <3>6
  <2> QED
    BY <2>1, <2>2
<1>4. \A q \in Ranges(s) : q[1] \in Nat
    BY <1>1 DEF Ranges
<1> HIDE DEF Right
<1>5. bad = {}
  <2> SUFFICES ASSUME bad # {} PROVE FALSE
    OBVIOUS
  <2>1. PICK n \in bad : \A m \in bad : n <= m
    BY LeastOf
  <2>2. PICK q \in Ranges(s) : q[1] = n /\ ~Right(q)
    BY <2>1
  <2>3. ASSUME NEW o \in Ranges(s), o[1] < q[1] PROVE Right(o)
    <3>1. o[1] \in Nat /\ n \in Nat /\ o[1] \notin bad
      BY <1>4, <2>1, <2>2, <2>3
    <3> QED
      BY <3>1
  <2> QED
    BY <1>3, <2>2, <2>3 DEF Right
<1>6. Right(r)
    BY <1>4, <1>5
<1> QED
    BY <1>6 DEF Right

LEMMA LowerBoundFacts ==
    ASSUME NEW s, Vector(s), StrictlyAscending(s), NEW id \in Int
    PROVE  LowerBound(s, id) \in 1 .. Len(s) + 1 /\ Cut(s, id, LowerBound(s, id), LowerBound(s, id))
<1> DEFINE h == CHOOSE h : Searches(s, id, h)
           r == <<Len(s), 1>>
<1>1. Searches(s, id, h)
    BY SearchExists
<1>2. Len(s) \in Nat /\ DOMAIN s = 1 .. Len(s)
    BY VectorFacts
<1>3. r \in Ranges(s) /\ Cut(s, id, r[2], r[1] + r[2])
    BY <1>2 DEF Ranges, Cut
<1>4. LowerBound(s, id) = h[r]
    BY LowerBoundIsSearch
<1> HIDE DEF h, r
<1> QED
    BY <1>1, <1>3, <1>4, SearchEnds

\* TagsStorage::get() finds what has been stored, as long as it was stored in order.
LEMMA GetFacts ==
    ASSUME Vector(m_index), StrictlyAscending(m_index), NEW id \in Int
    PROVE  get(id) = IF id \in Entries(m_index) THEN input.tags[id] ELSE Null
<1> DEFINE k == LowerBound(m_index, id)
<1>1. /\ Len(m_index) \in Nat /\ DOMAIN m_index = 1 .. Len(m_index)
      /\ \A i \in DOMAIN m_index : m_index[i] \in Int
    BY VectorFacts
<1>2. k \in 1 .. Len(m_index) + 1 /\ Cut(m_index, id, k, k)
    BY LowerBoundFacts
<1>3. get(id) = IF k <= Len(m_index) /\ m_index[k] = id THEN input.tags[id] ELSE Null
    BY DEF get
<1> HIDE DEF k
<1>4. ASSUME id \in Entries(m_index) PROVE k <= Len(m_index) /\ m_index[k] = id
  <2>1. PICK i \in DOMAIN m_index : m_index[i] = id
    BY <1>4 DEF Entries
  <2>2. i >= k
    BY <1>1, <1>2, <2>1 DEF Cut
  <2>3. k \in DOMAIN m_index /\ m_index[k] >= id
    BY <1>1, <1>2, <2>2 DEF Cut
  <2>4. k < i => m_index[k] < m_index[i]
    BY <2>3 DEF StrictlyAscending
  <2> QED
    BY <1>1, <1>2, <2>1, <2>2, <2>3, <2>4
<1>5. ASSUME k <= Len(m_index), m_index[k] = id PROVE id \in Entries(m_index)
    BY <1>1, <1>2, <1>5 DEF Entries
<1> QED
    BY <1>3, <1>4, <1>5
-----------------------------------------------------------------------------
(* The pairs of house numbers.                                              *)

LEMMA MinFacts ==
    ASSUME NEW S, S \subseteq Nat, S # {}
    PROVE  Min(S) \in S /\ \A i \in S : Min(S) <= i
BY FirstStop DEF Min

\* What handle_way() finds when it gets to a way whose nodes are all in the file.
TagsStored ==
    /\ input \in Inputs
    /\ Vector(m_index) /\ StrictlyAscending(m_index)
    /\ Entries(m_index) = Required \cap Entries(input.file)
Whole(line) == Entries(line) \subseteq Entries(input.file)

Kinds == {NoTag, Text, Malformed} \cup HouseNumbers

LEMMA NodeInFile ==
    ASSUME input \in Inputs, NEW line, Vector(line), Whole(line), NEW i \in DOMAIN line
    PROVE  input.tags[line[i]] \in Kinds /\ input.tags[line[i]] # Null /\ Place(line, i) \in Int
<1>1. line[i] \in Entries(input.file)
    BY DEF Whole, Entries
<1>2. PICK k \in DOMAIN input.file : input.file[k] = line[i]
    BY <1>1 DEF Entries
<1>3. input.tags[line[i]] \in Kinds /\ Null \notin Kinds /\ input.pos[line[i]] \in Int
    BY <1>2, InputsAssumption, NullAssumption DEF Kinds
<1> QED
    BY <1>3 DEF Place

LEMMA NodeTags ==
    ASSUME TagsStored, NEW line, Vector(line), Whole(line), NEW i \in DOMAIN line
    PROVE  /\ input.tags[line[i]] # Null
           /\ get(line[i]) = IF line[i] \in Required THEN input.tags[line[i]] ELSE Null
<1>1. line[i] \in Int /\ line[i] \in Entries(input.file)
    BY VectorFacts DEF Whole, Entries
<1>2. input.tags[line[i]] # Null
    BY NodeInFile DEF TagsStored
<1>3. get(line[i]) = IF line[i] \in Entries(m_index) THEN input.tags[line[i]] ELSE Null
    BY <1>1, GetFacts DEF TagsStored
<1> QED
    BY <1>1, <1>2, <1>3 DEF TagsStored

\* Where interpolate() looks for the first two numbers, and where it stops later.
LEMMA SearchStops ==
    ASSUME NEW line, Vector(line), Len(line) >= 2, First(line) # Len(line)
    PROVE  /\ First(line) \in 1 .. Len(line) - 1
           /\ IF get(line[1]) # Null THEN First(line) = 1
              ELSE First(line) # 1 /\ has_housenumber(line[First(line)])
           /\ Second(line, First(line)) \in First(line) + 1 .. Len(line)
           /\ \/ Second(line, First(line)) = Len(line)
              \/ has_housenumber(line[Second(line, First(line))])
           /\ Stops(line) \subseteq First(line) .. Len(line)
           /\ \A i \in Stops(line) :
                \/ i \in {First(line), Second(line, First(line))}
                \/ get(line[i]) # Null
<1> DEFINE L == Len(line)
           starts == {i \in 2 .. L : has_housenumber(line[i])} \cup {L}
           first == First(line)
           ends == {i \in first + 1 .. L : has_housenumber(line[i])} \cup {L}
           second == Second(line, first)
<1>1. L \in Nat /\ L >= 2 /\ DOMAIN line = 1 .. L
    BY VectorFacts
<1>2. starts \subseteq Nat /\ starts # {}
    BY <1>1
<1>3. first = IF get(line[1]) # Null THEN 1 ELSE Min(starts)
    BY DEF First
<1> HIDE DEF first
<1>4. Min(starts) \in starts
    BY <1>2, MinFacts
<1>5. /\ first \in 1 .. L - 1
      /\ IF get(line[1]) # Null THEN first = 1
         ELSE first # 1 /\ has_housenumber(line[first])
  <2>1. CASE get(line[1]) # Null
    BY <1>1, <1>3, <2>1
  <2>2. CASE get(line[1]) = Null
    <3>1. first # L
      BY DEF first
    <3>2. first \in 2 .. L /\ has_housenumber(line[first])
      BY <1>3, <1>4, <2>2, <3>1
    <3>3. first \in 1 .. L - 1 /\ first # 1
      <4> HIDE DEF L
      <4> QED
        BY <1>1, <3>1, <3>2
    <3> QED
      BY <2>2, <3>2, <3>3
  <2> QED
    BY <2>1, <2>2
<1>6. ends \subseteq Nat /\ ends # {}
    BY <1>1, <1>5
<1>7. second = Min(ends)
    BY DEF Second, first
<1> HIDE DEF second
<1>8. second \in ends
    BY <1>6, <1>7, MinFacts
<1>9. second \in first + 1 .. L /\ (second = L \/ has_housenumber(line[second]))
  <2>1. second = L \/ (second \in first + 1 .. L /\ has_housenumber(line[second]))
    BY <1>8, Zenon
  <2>2. first \in Int /\ L \in first + 1 .. L
    BY <1>1, <1>5
  <2> QED
    BY <2>1, <2>2
<1>10. Stops(line) = {first, second}
            \cup {i \in second + 1 .. L :
                    has_housenumber(line[i]) \/ (i = L /\ get(line[i]) # Null)}
    BY DEF Stops, first, second
<1>11. \A i : has_housenumber(i) => get(i) # Null
    BY DEF has_housenumber
<1>12. Stops(line) \subseteq first .. L
  <2>1. Stops(line) \subseteq {first, second} \cup (second + 1 .. L)
    BY <1>10, Zenon
  <2>2. first \in Int /\ second \in Int /\ first < second /\ second <= L
    <3>1. first \in 1 .. L - 1 /\ second \in first + 1 .. L
      BY <1>5, <1>9
    <3> HIDE DEF L
    <3> QED
      BY <1>1, <3>1
  <2>3. ({first, second} \cup (second + 1 .. L)) \subseteq first .. L
    <3> HIDE DEF L
    <3> QED
      BY <1>1, <2>2
  <2> QED
    BY <2>1, <2>3
<1>13. \A i \in Stops(line) : i \in {first, second} \/ get(line[i]) # Null
    BY <1>10, <1>11
<1> QED
    BY <1>5, <1>9, <1>12, <1>13 DEF first, second

\* Tags that are not there are only read if the way ends where it has begun, at a
\* node that is not remembered, and goes through one that is and has a number.
LEMMA CrashExplained ==
    ASSUME TagsStored, NEW w \in DOMAIN input.ways, Whole(nodes(w)), WayCrashes(w)
    PROVE  ClosedThroughAnother(w)
<1> DEFINE line == nodes(w)
           L == Len(line)
           first == First(line)
           second == Second(line, first)
<1>1. /\ Vector(line) /\ L \in Nat /\ DOMAIN line = 1 .. L
  <2>1. Vector(line)
    BY InputFacts DEF TagsStored
  <2> QED
    BY <2>1, VectorFacts
<1>2. type(w) \in Types /\ L >= 2 /\ first # L
    BY <1>1 DEF WayCrashes, Skipped, valid_interpolation
<1>3. PICK p \in Pairs(line) : Crashes(line, p)
    BY DEF WayCrashes, FirstFailure
<1>4. /\ first \in 1 .. L - 1
      /\ IF get(line[1]) # Null THEN first = 1
         ELSE first # 1 /\ has_housenumber(line[first])
      /\ second \in first + 1 .. L
      /\ second = L \/ has_housenumber(line[second])
      /\ Stops(line) \subseteq first .. L
      /\ \A i \in Stops(line) : i \in {first, second} \/ get(line[i]) # Null
    BY <1>1, <1>2, SearchStops
<1>5. /\ p[1] \in Stops(line) /\ p[2] \in Stops(line) /\ p[1] < p[2]
      /\ get(line[p[2]]) = Null
    BY <1>3 DEF Pairs, Crashes
<1> HIDE DEF first, second, L
<1>6. p[2] = second
    BY <1>1, <1>4, <1>5
<1>7. second = L
    BY <1>4, <1>5, <1>6 DEF has_housenumber
<1>8. \A i \in DOMAIN line :
            /\ input.tags[line[i]] # Null
            /\ get(line[i]) = IF line[i] \in Required THEN input.tags[line[i]] ELSE Null
    BY <1>1, NodeTags
<1>9. L \in DOMAIN line /\ 1 \in DOMAIN line /\ first \in DOMAIN line
    BY <1>1, <1>2, <1>4
<1>10. line[L] \notin Required
    BY <1>5, <1>6, <1>7, <1>8, <1>9
<1>11. ends_have_same_id(line)
  <2> SUFFICES ASSUME ~ends_have_same_id(line) PROVE FALSE
    OBVIOUS
  <2>1. Entries(line) \subseteq Required
    BY <1>1, <1>2 DEF Required, L
  <2> QED
    BY <1>9, <1>10, <2>1 DEF Entries
<1>12. line[1] = line[L]
    BY <1>11 DEF ends_have_same_id, L
<1>13. get(line[1]) = Null
    BY <1>8, <1>9, <1>10, <1>12
<1>14. get(line[first]) # Null /\ get(line[first]).kind # "absent"
    BY <1>4, <1>13 DEF has_housenumber
<1>15. line[first] \in Required /\ input.tags[line[first]].kind # "absent"
    BY <1>8, <1>9, <1>14
<1>16. L > 1
    BY <1>1, <1>2
<1> QED
    BY <1>2, <1>9, <1>10, <1>11, <1>12, <1>15, <1>16 DEF ClosedThroughAnother, L
-----------------------------------------------------------------------------
(* The index of the tags and the end of the program.                        *)

\* Tags are stored in the order of the file.
IndexInv == InOrder => StrictlyAscending(m_index) /\ Entries(m_index) \subseteq Read

LEMMA AppendedInOrder ==
    ASSUME NEW s, Vector(s), StrictlyAscending(s), NEW id \in Int, \A n \in Entries(s) : n < id
    PROVE  StrictlyAscending(Append(s, id))
<1> DEFINE t == Append(s, id)
<1>1. s \in Seq(Int)
    BY DEF Vector
<1>2. /\ Len(s) \in Nat /\ DOMAIN s = 1 .. Len(s) /\ DOMAIN t = 1 .. Len(s) + 1
      /\ \A i \in 1 .. Len(s) : t[i] = s[i]
      /\ t[Len(s) + 1] = id
    BY <1>1
<1> HIDE DEF t
<1>3. \A i \in DOMAIN s : s[i] < id
    BY DEF Entries
<1>4. ASSUME NEW i \in DOMAIN t, NEW j \in DOMAIN t, i < j PROVE t[i] < t[j]
  <2>1. CASE j = Len(s) + 1
    BY <1>2, <1>3, <1>4, <2>1
  <2>2. CASE j # Len(s) + 1
    <3>1. i \in DOMAIN s /\ j \in DOMAIN s
      BY <1>2, <1>4, <2>2
    <3> QED
      BY <1>2, <1>4, <3>1 DEF StrictlyAscending
  <2> QED
    BY <2>1, <2>2
<1> QED
    BY <1>4 DEF StrictlyAscending, t

\* A lookup ends the program only behind the vector.
LEMMA DeathIsStray ==
    ASSUME NEW id, NEW r \in Lookups(id), r.dead
    PROVE  r.stray
<1>1. \A s \in Astray : s.stray
    BY DEF Astray, Found, NotFound
<1>2. ~NotFound.dead /\ \A k : ~Found(k).dead
    BY DEF NotFound, Found
<1>3. r \in Astray \/ r = NotFound \/ \E k : r = Found(k)
    BY DEF Lookups, Forward, Backward
<1> QED
    BY <1>1, <1>2, <1>3

LEMMA IndexStep ==
    ASSUME AddrInv, IndexInv, [Next]_vars
    PROVE  IndexInv'
<1>1. /\ input \in Inputs /\ at \in Nat /\ Vector(m_index)
      /\ phase = "pass1" => m_index = <<>>
    BY DEF AddrInv, TypeInv, CollectInv
<1>2. StrictlyAscending(<<>>) /\ Entries(<<>>) = {}
    BY DEF StrictlyAscending, Entries
<1>3. CASE phase = "pass1" /\ UNCHANGED m_index
    BY <1>1, <1>2, <1>3 DEF IndexInv
<1>4. CASE HandleNode
  <2> DEFINE id == input.file[at + 1]
  <2>1. /\ phase = "nodes" /\ at < Len(input.file) /\ at' = at + 1 /\ UNCHANGED input
        /\ m_index' \in {m_index, Append(m_index, id)}
    BY <1>4 DEF HandleNode
  <2>2. id \in Int /\ (InOrder => \A n \in Read : n < id)
    BY <1>1, <2>1, ReadFacts
  <2>3. Read \cup {id} \subseteq Read'
    BY <1>1, <2>1, ReadGrows
  <2>4. InOrder' <=> InOrder
    BY <2>1, SameInput
  <2> HIDE DEF id
  <2>5. ASSUME InOrder
        PROVE  StrictlyAscending(m_index') /\ Entries(m_index') \subseteq Read'
    <3>1. StrictlyAscending(m_index) /\ Entries(m_index) \subseteq Read
      BY <2>5 DEF IndexInv
    <3>2. CASE m_index' = m_index
      BY <2>3, <3>1, <3>2
    <3>3. CASE m_index' = Append(m_index, id)
      <4>1. Entries(m_index') = Entries(m_index) \cup {id}
        BY <1>1, <2>2, <3>3, Appended
      <4>2. StrictlyAscending(m_index')
        BY <1>1, <2>2, <2>5, <3>1, <3>3, AppendedInOrder
      <4> QED
        BY <2>3, <3>1, <4>1, <4>2
    <3> QED
      BY <2>1, <3>2, <3>3
  <2> QED
    BY <2>4, <2>5 DEF IndexInv
<1>5. CASE StartWays \/ HandleWay \/ Finish \/ UNCHANGED vars
  <2>1. UNCHANGED <<input, m_index>>
    BY <1>5 DEF StartWays, HandleWay, Finish, vars
  <2>2. Read' = Read
    BY <1>5 DEF StartWays, HandleWay, Finish, vars, Read
  <2> QED
    BY <2>1, <2>2 DEF IndexInv, InOrder, StrictlyAscending
<1>6. Pass1Way \/ AfterPass1 => phase = "pass1" /\ UNCHANGED m_index
    BY DEF Pass1Way, AfterPass1
<1> QED
    BY <1>3, <1>4, <1>5, <1>6 DEF Next

LEMMA DeathStep ==
    ASSUME AddrInv, IndexInv, DeathExplained, [Next]_vars
    PROVE  DeathExplained'
<1>1. input \in Inputs /\ Vector(m_index) /\ LookupsExact
    BY DEF AddrInv, TypeInv
<1>2. ASSUME phase' = "dead", phase # "dead"
      PROVE  strayed' \/ ~InOrder' \/ \E w \in DOMAIN input'.ways : ClosedThroughAnother(w)'
  <2>1. HandleNode \/ HandleWay
    BY <1>2 DEF Next, Pass1Way, AfterPass1, StartWays, Finish, vars
  <2>2. CASE HandleNode
    <3>1. PICK r \in Lookups(input.file[at + 1]) :
            /\ strayed' = (strayed \/ r.stray)
            /\ phase' = IF r.dead THEN "dead" ELSE phase
      BY <2>2 DEF HandleNode, node_needed
    <3>2. r.dead /\ r.stray
      BY <1>2, <3>1, DeathIsStray
    <3> QED
      BY <3>1, <3>2
  <2>3. CASE HandleWay
    <3>1. /\ phase = "ways" /\ at < Len(input.ways)
          /\ Entries(nodes(at + 1)) \subseteq Entries(input.file) /\ WayCrashes(at + 1)
          /\ UNCHANGED <<input, strayed>>
      BY <1>2, <2>3 DEF HandleWay, trackingVars
    <3>2. at + 1 \in DOMAIN input.ways
      <4>1. at \in Nat
        BY DEF AddrInv, TypeInv
      <4> QED
        BY <1>1, <3>1, <4>1, InputFacts
    <3>3. ASSUME InOrder, ~strayed PROVE ClosedThroughAnother(at + 1)
      <4>1. Entries(m_index) = Required \cap Read /\ StrictlyAscending(m_index)
        BY <1>1, <3>1, <3>3 DEF LookupsExact, Searched, IndexInv
      <4>2. Read = Entries(input.file)
        BY <1>1, <3>1, InputFacts, VectorFacts DEF Read, Entries
      <4>3. TagsStored
        BY <1>1, <4>1, <4>2 DEF TagsStored
      <4> QED
        BY <3>1, <3>2, <4>3, CrashExplained DEF Whole
    <3>4. /\ InOrder' <=> InOrder
          /\ ClosedThroughAnother(at + 1) => \E w \in DOMAIN input'.ways : ClosedThroughAnother(w)'
      <4>1. (InOrder' <=> InOrder) /\ Required' = Required
        BY <3>1, SameInput
      <4>2. \A w : ClosedThroughAnother(w) => ClosedThroughAnother(w)'
        BY <3>1, <4>1 DEF ClosedThroughAnother, nodes, type, ends_have_same_id
      <4> QED
        BY <3>1, <3>2, <4>1, <4>2
    <3> QED
      BY <3>1, <3>3, <3>4
  <2> QED
    BY <2>1, <2>2, <2>3
<1>3. ASSUME phase = "dead"
      PROVE  strayed' \/ ~InOrder' \/ \E w \in DOMAIN input'.ways : ClosedThroughAnother(w)'
  <2>1. UNCHANGED vars
    BY <1>3 DEF Next, Pass1Way, AfterPass1, HandleNode, StartWays, HandleWay, Finish
  <2>2. UNCHANGED <<input, strayed>>
    BY <2>1 DEF vars
  <2>3. (InOrder' <=> InOrder) /\ Required' = Required
    BY <2>2, SameInput
  <2>4. \A w : ClosedThroughAnother(w) => ClosedThroughAnother(w)'
    BY <2>2, <2>3 DEF ClosedThroughAnother, nodes, type, ends_have_same_id
  <2> QED
    BY <1>3, <2>2, <2>3, <2>4 DEF DeathExplained
<1> QED
    BY <1>2, <1>3 DEF DeathExplained

\* The handler never reads tags that are not there, whatever the ways and tags
\* are, unless the search left the vector, the nodes are not in order, or there is a
\* closed way of the kind named: the index can be searched by halves because tags
\* are stored in the order of the file, and it has the tags of all nodes of an open
\* way.
THEOREM DeathsAreExplained == Spec => []DeathExplained
<1>1. Init => IndexInv /\ DeathExplained
    BY DEF Init, IndexInv, DeathExplained, StrictlyAscending, Entries
<1>2. AddrInv /\ IndexInv /\ DeathExplained /\ [Next]_vars => IndexInv' /\ DeathExplained'
    BY IndexStep, DeathStep
<1>3. Init => AddrInv
    BY InitInv
<1>4. AddrInv /\ [Next]_vars => AddrInv'
    BY StepInv
<1> QED
    BY <1>1, <1>2, <1>3, <1>4, PTL DEF Spec
-----------------------------------------------------------------------------
(* The length of a line.                                                    *)

\* The line of a way whose nodes have a place.
OnRoad(line) == Vector(line) /\ \A i \in DOMAIN line : Place(line, i) \in Int
Edge(line, k) == Magnitude(Place(line, k) - Place(line, k - 1))

\* What Path computes: h says for every node how far it is from the first one.
Measured(line, from, h, k) == IF k = from THEN 0 ELSE h[k - 1] + Edge(line, k)
Measures(line, from, h) == h = [k \in from .. Len(line) |-> Measured(line, from, h, k)]

LEMMA PathIsMeasured ==
    ASSUME NEW line, NEW from, NEW to
    PROVE  Path(line, from, to) = (CHOOSE h : Measures(line, from, h))[to]
BY DEF Path, Measures, Measured, Edge

\* There is such a function: by induction on the number of nodes.
LEMMA MeasureExists ==
    ASSUME NEW line, Vector(line), NEW from \in Nat
    PROVE  \E h : Measures(line, from, h)
<1> DEFINE Partial(n) == \E h : h = [k \in from .. n |-> Measured(line, from, h, k)]
           bad == {n \in Nat : ~Partial(n)}
<1>1. Len(line) \in Nat
    BY VectorFacts
<1>2. ASSUME NEW n \in Nat, n < from PROVE Partial(n)
  <2> DEFINE h == [k \in from .. n |-> 0]
  <2>1. from .. n = {}
    BY <1>2
  <2>2. h = [k \in from .. n |-> Measured(line, from, h, k)]
    BY <2>1
  <2> QED
    BY <2>2
<1>3. ASSUME NEW n \in Nat, n # 0, n >= from, Partial(n - 1)
      PROVE  Partial(n)
  <2>1. PICK h : h = [k \in from .. n - 1 |-> Measured(line, from, h, k)]
    BY <1>3
  <2> DEFINE g == [k \in from .. n |->
                        IF k <= n - 1 THEN h[k] ELSE Measured(line, from, h, k)]
  <2>2. \A k \in from .. n - 1 : k \in from .. n /\ g[k] = h[k]
    BY <1>3
  <2>3. ASSUME NEW k \in from .. n PROVE Measured(line, from, g, k) = Measured(line, from, h, k)
    <3>1. CASE k = from
      BY <3>1 DEF Measured
    <3>2. CASE k # from
      <4>1. k - 1 \in from .. n - 1
        BY <1>3, <3>2
      <4>2. g[k - 1] = h[k - 1]
        BY <2>2, <4>1
      <4> HIDE DEF g
      <4> QED
        BY <4>2 DEF Measured
    <3> QED
      BY <3>1, <3>2
  <2>4. ASSUME NEW k \in from .. n PROVE g[k] = Measured(line, from, h, k)
    <3>1. CASE k <= n - 1
      <4>1. k \in from .. n - 1
        BY <1>3, <3>1
      <4>2. h[k] = Measured(line, from, h, k)
        BY <2>1, <4>1
      <4> QED
        BY <3>1, <4>2
    <3>2. CASE ~(k <= n - 1)
      BY <3>2
    <3> QED
      BY <3>1, <3>2
  <2>5. \A k \in from .. n : g[k] = Measured(line, from, g, k)
    BY <2>3, <2>4
  <2>6. g = [k \in from .. n |-> g[k]]
    OBVIOUS
  <2> HIDE DEF g
  <2>7. g = [k \in from .. n |-> Measured(line, from, g, k)]
    BY <2>5, <2>6
  <2> QED
    BY <2>7
<1> HIDE DEF Partial
<1>4. bad = {}
  <2> SUFFICES ASSUME bad # {} PROVE FALSE
    OBVIOUS
  <2>1. PICK n \in bad : \A m \in bad : n <= m
    BY LeastOf
  <2>2. n >= from
    BY <1>2, <2>1
  <2>3. CASE n = 0
    <3>1. from = 0
      BY <2>2, <2>3
    <3>2. Partial(0)
      <4> DEFINE h == [k \in from .. 0 |-> 0]
      <4>1. \A k \in from .. 0 : Measured(line, from, h, k) = 0
        BY <3>1 DEF Measured
      <4>2. h = [k \in from .. 0 |-> Measured(line, from, h, k)]
        BY <4>1
      <4> QED
        BY <4>2 DEF Partial
    <3> QED
      BY <2>1, <2>3, <3>2
  <2>4. CASE n # 0
    <3>1. n - 1 \in Nat /\ n - 1 \notin bad
      BY <2>1, <2>4
    <3> QED
      BY <1>3, <2>1, <2>2, <2>4, <3>1
  <2> QED
    BY <2>3, <2>4
<1>5. Partial(Len(line))
    BY <1>1, <1>4
<1> QED
    BY <1>5 DEF Partial, Measures

LEMMA PathSteps ==
    ASSUME NEW line, Vector(line), NEW from \in DOMAIN line
    PROVE  /\ Path(line, from, from) = 0
           /\ \A k \in from + 1 .. Len(line) :
                Path(line, from, k) = Path(line, from, k - 1) + Edge(line, k)
<1> DEFINE h == CHOOSE h : Measures(line, from, h)
<1>1. Len(line) \in Nat /\ DOMAIN line = 1 .. Len(line)
    BY VectorFacts
<1>2. from \in Nat /\ from <= Len(line)
    BY <1>1
<1>3. Measures(line, from, h)
    BY <1>2, MeasureExists
<1>4. \A k : Path(line, from, k) = h[k]
    BY PathIsMeasured
<1> HIDE DEF h
<1>5. \A k \in from .. Len(line) : h[k] = Measured(line, from, h, k)
    BY <1>3 DEF Measures
<1>6. h[from] = 0
    BY <1>1, <1>2, <1>5 DEF Measured
<1>7. \A k \in from + 1 .. Len(line) : h[k] = h[k - 1] + Edge(line, k)
    BY <1>1, <1>2, <1>5 DEF Measured
<1> QED
    BY <1>4, <1>6, <1>7

LEMMA EdgeFacts ==
    ASSUME NEW line, OnRoad(line), NEW k \in DOMAIN line, k - 1 \in DOMAIN line
    PROVE  /\ Edge(line, k) \in Nat
           /\ Edge(line, k) = IF Place(line, k) >= Place(line, k - 1)
                              THEN Place(line, k) - Place(line, k - 1)
                              ELSE Place(line, k - 1) - Place(line, k)
<1>1. Place(line, k) \in Int /\ Place(line, k - 1) \in Int
    BY DEF OnRoad
<1> QED
    BY <1>1 DEF Edge, Magnitude

\* The length of a line is no less than the distance of its ends, and grows.
LEMMA PathFacts ==
    ASSUME NEW line, OnRoad(line), NEW from \in DOMAIN line, NEW to \in from .. Len(line)
    PROVE  /\ Path(line, from, to) \in Nat
           /\ \A k \in from .. to :
                /\ Path(line, from, k) \in Nat
                /\ Path(line, from, k) <= Path(line, from, to)
                /\ Place(line, k) - Place(line, from) <= Path(line, from, k)
                /\ Place(line, from) - Place(line, k) <= Path(line, from, k)
<1> DEFINE L == Len(line)
           P(k) == Path(line, from, k)
           D(k) == Place(line, k)
           Fine(n) == /\ P(n) \in Nat
                      /\ D(n) - D(from) <= P(n) /\ D(from) - D(n) <= P(n)
                      /\ \A k \in from .. n : P(k) \in Nat /\ P(k) <= P(n)
           bad == {n \in from .. L : ~Fine(n)}
<1>1. L \in Nat /\ DOMAIN line = 1 .. L
    BY VectorFacts DEF OnRoad
<1>2. from \in 1 .. L /\ \A k \in 1 .. L : D(k) \in Int
    BY <1>1 DEF OnRoad
<1>3. P(from) = 0 /\ \A k \in from + 1 .. L : P(k) = P(k - 1) + Edge(line, k)
    BY PathSteps DEF OnRoad
<1> HIDE DEF L, P, D
<1>4. Fine(from)
  <2>1. \A k \in from .. from : k = from
    BY <1>2
  <2> QED
    BY <1>2, <1>3, <2>1
<1>5. ASSUME NEW n \in from + 1 .. L, Fine(n - 1) PROVE Fine(n)
  <2>1. n \in 1 .. L /\ n - 1 \in 1 .. L /\ n \in Int
    BY <1>1, <1>2
  <2>2. /\ Edge(line, n) \in Nat
        /\ Edge(line, n) = IF D(n) >= D(n - 1) THEN D(n) - D(n - 1) ELSE D(n - 1) - D(n)
    BY <1>1, <2>1, EdgeFacts DEF D
  <2>3. P(n) = P(n - 1) + Edge(line, n)
    BY <1>3
  <2>4. D(n) \in Int /\ D(n - 1) \in Int /\ D(from) \in Int
    BY <1>2, <2>1
  <2>5. P(n) \in Nat /\ P(n - 1) \in Nat /\ P(n - 1) <= P(n)
    BY <1>5, <2>2, <2>3
  <2>6. D(n) - D(from) <= P(n) /\ D(from) - D(n) <= P(n)
    BY <1>5, <2>2, <2>3, <2>4
  <2>7. ASSUME NEW k \in from .. n PROVE P(k) \in Nat /\ P(k) <= P(n)
    <3>1. CASE k = n
      BY <2>5, <3>1
    <3>2. CASE k # n
      <4>1. k \in from .. n - 1
        BY <1>2, <2>1, <3>2
      <4>2. P(k) \in Nat /\ P(k) <= P(n - 1)
        BY <1>5, <4>1
      <4> QED
        BY <2>5, <4>2
    <3> QED
      BY <3>1, <3>2
  <2> QED
    BY <2>5, <2>6, <2>7
<1>6. bad \subseteq Nat
    BY <1>2
<1> HIDE DEF Fine
<1>7. bad = {}
  <2> SUFFICES ASSUME bad # {} PROVE FALSE
    OBVIOUS
  <2>1. PICK n \in bad : \A m \in bad : n <= m
    BY <1>6, LeastOf
  <2>2. n # from /\ n \in from .. L
    BY <1>4, <2>1
  <2>3. n \in from + 1 .. L /\ n - 1 \in from .. L /\ ~(n <= n - 1)
    BY <1>1, <1>2, <2>2
  <2>4. n - 1 \notin bad
    BY <2>1, <2>3
  <2> QED
    BY <1>5, <2>1, <2>3, <2>4
<1>8. \A k \in from .. L : Fine(k)
    BY <1>7
<1>9. to \in from .. L /\ \A k \in from .. to : k \in from .. L
    BY <1>1, <1>2 DEF L
<1>10. P(to) \in Nat /\ \A k \in from .. to : P(k) \in Nat /\ P(k) <= P(to)
    BY <1>8, <1>9 DEF Fine
<1>11. \A k \in from .. to : D(k) - D(from) <= P(k) /\ D(from) - D(k) <= P(k)
    BY <1>8, <1>9 DEF Fine
<1> QED
    BY <1>10, <1>11 DEF P, D
LEMMA MinOfTwo ==
    ASSUME NEW a \in Int, NEW b \in Int
    PROVE  /\ Min({a, b}) = IF a <= b THEN a ELSE b
           /\ Max({a, b}) = IF a <= b THEN b ELSE a
<1> DEFINE low == IF a <= b THEN a ELSE b
           high == IF a <= b THEN b ELSE a
<1>1. low \in {a, b} /\ (\A y \in {a, b} : low <= y)
    OBVIOUS
<1>2. high \in {a, b} /\ (\A y \in {a, b} : high >= y)
    OBVIOUS
<1>3. \A x \in {a, b} : (\A y \in {a, b} : x <= y) => x = low
    OBVIOUS
<1>4. \A x \in {a, b} : (\A y \in {a, b} : x >= y) => x = high
    OBVIOUS
<1> HIDE DEF low, high
<1>5. Min({a, b}) = low
    BY <1>1, <1>3 DEF Min
<1>6. Max({a, b}) = high
    BY <1>2, <1>4 DEF Max
<1> QED
    BY <1>5, <1>6 DEF low, high

\* The point is on the edge on which the length is reached, as far from the first node
\* of this edge as is left of the length.
LEMMA PointOnEdge ==
    ASSUME NEW a \in Int, NEW b \in Int, NEW rest \in Int, NEW diff \in Nat,
           NEW edge \in Int, b >= a => edge = b - a, ~(b >= a) => edge = a - b,
           0 <= rest, rest <= edge * diff,
           NEW place \in Int, b >= a => place = a * diff + rest, ~(b >= a) => place = a * diff - rest
    PROVE  place >= diff * Min({a, b}) /\ place <= diff * Max({a, b})
<1>1. CASE b >= a
  <2>1. place = a * diff + rest /\ rest <= b * diff - a * diff
    <3>1. edge * diff = b * diff - a * diff
      BY <1>1
    <3> QED
      BY <1>1, <3>1
  <2>2. Min({a, b}) = a /\ Max({a, b}) = b
    BY <1>1, MinOfTwo
  <2>3. place >= a * diff /\ place <= b * diff
    BY <2>1
  <2> QED
    BY <2>2, <2>3
<1>2. CASE ~(b >= a)
  <2>1. place = a * diff - rest /\ rest <= a * diff - b * diff
    <3>1. edge * diff = a * diff - b * diff
      BY <1>2
    <3> QED
      BY <1>2, <3>1
  <2>2. Min({a, b}) = b /\ Max({a, b}) = a
    BY <1>2, MinOfTwo
  <2>3. place <= a * diff /\ place >= b * diff
    BY <2>1
  <2> QED
    BY <2>2, <2>3
<1> QED
    BY <1>1, <1>2

\* get_remote_point() finds the point on the line whose distance from the first node is
\* the fraction of the length that it is asked for.
LEMMA RemotePoint ==
    ASSUME NEW line, OnRoad(line), NEW from \in DOMAIN line, NEW to \in from + 1 .. Len(line),
           NEW diff \in Nat, NEW i \in 1 .. diff - 1
    PROVE  LET place == get_remote_point(line, from, to, i, diff)
           IN \E k \in from .. to - 1 :
                /\ place >= diff * Min({Place(line, k), Place(line, k + 1)})
                /\ place <= diff * Max({Place(line, k), Place(line, k + 1)})
                /\ diff * Path(line, from, k) + Magnitude(place - diff * Place(line, k))
                    = Path(line, from, to) * i
<1> DEFINE L == Len(line)
           P(k) == Path(line, from, k)
           D(k) == Place(line, k)
           length == P(to) * i
           reached == {k \in from .. to - 1 : P(k + 1) * diff >= length}
           k == Min(reached)
           rest == length - P(k) * diff
           place == D(k) * diff + (IF D(k + 1) >= D(k) THEN rest ELSE -rest)
<1>1. L \in Nat /\ DOMAIN line = 1 .. L
    BY VectorFacts DEF OnRoad
<1>2. /\ from \in Nat /\ from >= 1 /\ to \in Nat /\ from < to /\ to <= L
      /\ i \in Nat /\ 0 < i /\ i < diff
    BY <1>1
<1>3. to \in from .. L
    BY <1>2
<1>4. /\ P(to) \in Nat
      /\ \A n \in from .. to : P(n) \in Nat
      /\ P(from) = 0
      /\ \A n \in from + 1 .. L : P(n) = P(n - 1) + Edge(line, n)
    BY <1>3, PathFacts, PathSteps DEF OnRoad
<1>5. get_remote_point(line, from, to, i, diff) = place
    BY DEF get_remote_point
<1>6. length \in Nat /\ length <= P(to) * diff
  <2>1. P(to) * i <= P(to) * diff /\ P(to) * i \in Nat
    <3> HIDE DEF P
    <3> QED
      BY <1>2, <1>4
  <2> QED
    BY <2>1
<1> HIDE DEF L, P, D, length
<1>7. reached \subseteq Nat /\ to - 1 \in reached
  <2>1. to - 1 \in from .. to - 1 /\ to - 1 + 1 = to
    BY <1>2
  <2>2. P(to) * diff >= length
    BY <1>2, <1>4, <1>6
  <2>3. reached \subseteq Nat
    BY <1>2
  <2> QED
    BY <2>1, <2>2, <2>3
<1>8. k \in reached /\ \A n \in reached : k <= n
  <2> HIDE DEF reached
  <2> QED
    BY <1>7, MinFacts
<1> HIDE DEF k
<1>9. /\ k \in Nat /\ from <= k /\ k < to
      /\ P(k + 1) * diff >= length
    BY <1>2, <1>8
<1>10. /\ k \in from .. to - 1 /\ k \in from .. to /\ k + 1 \in from .. to
       /\ k + 1 \in from + 1 .. L /\ k + 1 - 1 = k
    BY <1>1, <1>2, <1>9
<1>11. P(k) \in Nat /\ P(k + 1) \in Nat /\ P(k + 1) = P(k) + Edge(line, k + 1)
    BY <1>4, <1>10
<1>12. /\ D(k) \in Int /\ D(k + 1) \in Int
       /\ Edge(line, k + 1) = IF D(k + 1) >= D(k) THEN D(k + 1) - D(k) ELSE D(k) - D(k + 1)
  <2>1. k \in DOMAIN line /\ k + 1 \in DOMAIN line
    BY <1>1, <1>2, <1>9
  <2> QED
    BY <1>10, <2>1, EdgeFacts DEF OnRoad, D
<1>13. P(k) * diff <= length
  <2>1. CASE k = from
    BY <1>2, <1>4, <1>6, <2>1
  <2>2. CASE k # from
    <3>1. k - 1 \in from .. to - 1 /\ ~(k <= k - 1) /\ k - 1 + 1 = k
      BY <1>2, <1>9, <2>2
    <3>2. ~(P(k) * diff >= length)
      BY <1>8, <3>1
    <3>3. P(k) * diff \in Int
      BY <1>2, <1>11
    <3> QED
      BY <1>6, <3>2, <3>3
  <2> QED
    BY <2>1, <2>2
<1>14. rest \in Int /\ 0 <= rest /\ rest <= Edge(line, k + 1) * diff
  <2> DEFINE E == Edge(line, k + 1)
  <2>1. E \in Int
    BY <1>12
  <2> HIDE DEF E
  <2>2. P(k + 1) = P(k) + E
    BY <1>11 DEF E
  <2>3. P(k + 1) * diff = P(k) * diff + E * diff
    BY <1>2, <1>11, <2>1, <2>2
  <2>4. P(k) * diff \in Int /\ P(k + 1) * diff \in Int /\ E * diff \in Int
    BY <1>2, <1>11, <2>1
  <2>5. rest \in Int /\ 0 <= rest /\ rest <= E * diff
    BY <1>6, <1>9, <1>13, <2>3, <2>4
  <2> QED
    BY <2>5 DEF E
<1>15. diff * P(k) + rest = length
  <2>1. P(k) * diff \in Int /\ diff * P(k) = P(k) * diff
    BY <1>2, <1>11
  <2> QED
    BY <1>6, <2>1
<1> HIDE DEF rest
<1>16. /\ place >= diff * Min({D(k), D(k + 1)}) /\ place <= diff * Max({D(k), D(k + 1)})
       /\ Magnitude(place - diff * D(k)) = rest
  <2> DEFINE a == D(k)
             b == D(k + 1)
             edge == Edge(line, k + 1)
  <2>1. /\ a \in Int /\ b \in Int /\ edge \in Int
        /\ b >= a => edge = b - a
        /\ ~(b >= a) => edge = a - b
    BY <1>12
  <2>2. b >= a => place = a * diff + rest
    OBVIOUS
  <2>3. ~(b >= a) => place = a * diff - rest
    BY <1>2, <1>14, <2>1
  <2>4. rest \in Int /\ 0 <= rest /\ rest <= edge * diff /\ place \in Int
    <3>1. a * diff \in Int
      BY <1>2, <2>1
    <3> QED
      BY <1>14, <2>2, <2>3, <3>1
  <2> HIDE DEF place, a, b, edge
  <2>5. /\ place >= diff * Min({a, b}) /\ place <= diff * Max({a, b})
        /\ Magnitude(place - diff * a) = rest
    <3>1. place >= diff * Min({a, b})
      BY <2>1, <2>2, <2>3, <2>4, PointOnEdge
    <3>2. place <= diff * Max({a, b})
      BY <2>1, <2>2, <2>3, <2>4, PointOnEdge
    <3>3. Magnitude(place - diff * a) = rest
      <4>1. a * diff \in Int /\ diff * a = a * diff
        BY <1>2, <2>1
      <4>2. place - diff * a \in {rest, -rest}
        BY <2>2, <2>3, <2>4, <4>1
      <4>3. Magnitude(rest) = rest /\ Magnitude(-rest) = rest
        BY <2>4 DEF Magnitude
      <4> QED
        BY <4>2, <4>3
    <3> QED
      BY <3>1, <3>2, <3>3
  <2> QED
    BY <2>5 DEF a, b
<1> HIDE DEF place
<1>17. /\ place >= diff * Min({D(k), D(k + 1)}) /\ place <= diff * Max({D(k), D(k + 1)})
       /\ diff * P(k) + Magnitude(place - diff * D(k)) = length
    BY <1>15, <1>16
<1> QED
    BY <1>5, <1>10, <1>17 DEF P, D, length
-----------------------------------------------------------------------------
(* The numbers of an open way.                                              *)

\* The tags of a way whose nodes have all been remembered are at hand.
LEMMA OpenWayTags ==
    ASSUME TagsStored, NEW w \in DOMAIN input.ways, TrackedWay(w), Whole(nodes(w))
    PROVE  LET line == nodes(w)
           IN  /\ OnRoad(line) /\ Len(line) \in Nat \ {0, 1} /\ DOMAIN line = 1 .. Len(line)
               /\ \A i \in DOMAIN line :
                    /\ get(line[i]) = HouseAt(line, i)
                    /\ get(line[i]) # Null /\ get(line[i]) \in Kinds
                    /\ has_housenumber(line[i]) <=> i \in Numbered(line)
<1> DEFINE line == nodes(w)
<1>1. input \in Inputs /\ Vector(line)
    BY InputFacts DEF TagsStored
<1>2. Len(line) \in Nat /\ DOMAIN line = 1 .. Len(line)
    BY <1>1, VectorFacts
<1>3. type(w) \in Types /\ Len(line) > 1 /\ ~ends_have_same_id(line)
    BY DEF TrackedWay
<1> HIDE DEF line
<1>4. Entries(line) \subseteq Required
    BY <1>3 DEF Required, line
<1>5. Whole(line)
    BY DEF line
<1>6. ASSUME NEW i \in DOMAIN line
      PROVE  /\ get(line[i]) = HouseAt(line, i)
             /\ get(line[i]) # Null /\ get(line[i]) \in Kinds
             /\ has_housenumber(line[i]) <=> i \in Numbered(line)
             /\ Place(line, i) \in Int
  <2>1. line[i] \in Required
    BY <1>4 DEF Entries
  <2>2. /\ input.tags[line[i]] \in Kinds /\ input.tags[line[i]] # Null
        /\ Place(line, i) \in Int
    BY <1>1, <1>5, NodeInFile
  <2>3. get(line[i]) = input.tags[line[i]]
    BY <1>1, <1>5, <2>1, NodeTags
  <2> QED
    BY <2>2, <2>3 DEF HouseAt, has_housenumber, Numbered
<1>7. OnRoad(line)
    BY <1>1, <1>6 DEF OnRoad
<1>8. Len(line) \in Nat \ {0, 1}
  <2> DEFINE L == Len(line)
  <2>1. L \in Nat /\ L > 1
    BY <1>2, <1>3
  <2> HIDE DEF L
  <2>2. L \in Nat \ {0, 1}
    BY <2>1
  <2> QED
    BY <2>2 DEF L
<1> QED
    BY <1>2, <1>6, <1>7, <1>8 DEF line

\* Between which nodes of an open way numbers are added: from its first node to its
\* last one, whatever their tags are, and at every number.
LEMMA OpenWayStops ==
    ASSUME TagsStored, NEW w \in DOMAIN input.ways, TrackedWay(w), Whole(nodes(w))
    PROVE  ~Skipped(w) /\ Stops(nodes(w)) = {1, Len(nodes(w))} \cup Numbered(nodes(w))
<1> DEFINE line == nodes(w)
           L == Len(line)
           ends == {i \in 2 .. L : has_housenumber(line[i])} \cup {L}
           second == Min(ends)
<1>1. /\ L \in Nat \ {0, 1} /\ DOMAIN line = 1 .. L
      /\ \A i \in 1 .. L : /\ get(line[i]) # Null
                           /\ has_housenumber(line[i]) <=> i \in Numbered(line)
    BY OpenWayTags
<1>2. First(line) = 1
  <2>1. 1 \in 1 .. L
    BY <1>1
  <2> QED
    BY <1>1, <2>1 DEF First
<1>3. type(w) \in Types
    BY DEF TrackedWay
<1>4. Numbered(line) \subseteq 1 .. L
    BY <1>1 DEF Numbered
<1> HIDE DEF line
<1>5. Second(line, 1) = second
    BY DEF Second
<1>6. Stops(line) = {1, second} \cup {i \in second + 1 .. L :
                            has_housenumber(line[i]) \/ (i = L /\ get(line[i]) # Null)}
    BY <1>2, <1>5 DEF Stops
<1> HIDE DEF L
<1>7. second \in ends /\ \A i \in ends : second <= i
  <2>1. ends \subseteq Nat /\ ends # {}
    BY <1>1
  <2> HIDE DEF ends
  <2> QED
    BY <2>1, MinFacts
<1>8. /\ second \in 2 .. L /\ (second = L \/ second \in Numbered(line))
      /\ \A i \in 2 .. L : i \in Numbered(line) => second <= i
  <2>1. second = L \/ (second \in 2 .. L /\ has_housenumber(line[second]))
    BY <1>7
  <2>2. \A i \in 2 .. L : i \in 1 .. L
    BY <1>1
  <2>3. L \in 2 .. L
    BY <1>1
  <2> QED
    BY <1>1, <1>7, <2>1, <2>2, <2>3
<1> HIDE DEF second
<1>9. ASSUME NEW i \in Stops(line) PROVE i \in {1, L} \cup Numbered(line)
  <2>1. CASE i \in {1, second}
    BY <1>8, <2>1
  <2>2. CASE i \in second + 1 .. L /\ (has_housenumber(line[i]) \/ i = L)
    <3>1. i \in 1 .. L
      BY <1>1, <1>8, <2>2
    <3> QED
      BY <1>1, <2>2, <3>1
  <2> QED
    BY <1>6, <2>1, <2>2
<1>10. ASSUME NEW i \in {1, L} \cup Numbered(line) PROVE i \in Stops(line)
  <2>1. i \in 1 .. L
    BY <1>1, <1>4
  <2>2. CASE i = 1 \/ i = second
    BY <1>6, <2>2
  <2>3. CASE i # 1 /\ i # second
    <3>1. i \in 2 .. L
      BY <1>1, <2>1, <2>3
    <3>2. second <= i
      BY <1>1, <1>8, <1>10, <2>3, <3>1
    <3>3. i \in second + 1 .. L
      BY <1>1, <1>8, <2>3, <3>1, <3>2
    <3>4. has_housenumber(line[i]) \/ i = L
      BY <1>1, <1>10, <2>1, <2>3
    <3>5. get(line[i]) # Null
      BY <1>1, <2>1
    <3> QED
      BY <1>6, <3>3, <3>4, <3>5
  <2> QED
    BY <2>2, <2>3
<1>11. ~Skipped(w)
  <2>1. valid_interpolation(type(w)) /\ ~(L < 2) /\ 1 # L
    BY <1>1, <1>3 DEF valid_interpolation
  <2> QED
    BY <1>2, <2>1 DEF Skipped, L, line
<1>12. Stops(line) = {1, L} \cup Numbered(line)
    BY <1>9, <1>10
<1> QED
    BY <1>11, <1>12 DEF L, line

\* The pairs are the neighbours with a number, and the last number with the end of the
\* way if it has none.
LEMMA OpenWayPairs ==
    ASSUME TagsStored, NEW w \in DOMAIN input.ways, TrackedWay(w), Whole(nodes(w)),
           1 \in Numbered(nodes(w))
    PROVE  LET line == nodes(w)
           IN  /\ Stretches(line) \subseteq Pairs(line)
               /\ \A p \in Pairs(line) \ Stretches(line) :
                    /\ p[1] \in Numbered(line)
                    /\ p[2] = Len(line) /\ Len(line) \notin Numbered(line)
<1> DEFINE line == nodes(w)
           L == Len(line)
<1>1. L \in Nat \ {0, 1} /\ DOMAIN line = 1 .. L
    BY OpenWayTags
<1>2. Stops(line) = {1, L} \cup Numbered(line)
    BY OpenWayStops
<1>3. Numbered(line) \subseteq 1 .. L /\ 1 \in Numbered(line)
    BY <1>1 DEF Numbered
<1> HIDE DEF line, L
<1>4. ASSUME NEW p \in Stretches(line) PROVE p \in Pairs(line)
  <2>1. /\ p \in Numbered(line) \X Numbered(line) /\ p[1] < p[2]
        /\ \A i \in Numbered(line) : ~(p[1] < i /\ i < p[2])
    BY DEF Stretches
  <2>2. p \in Stops(line) \X Stops(line)
    BY <1>2, <2>1
  <2>3. p[1] \in 1 .. L /\ p[2] \in 1 .. L
    BY <1>3, <2>1
  <2>4. ~(p[1] < 1 /\ 1 < p[2]) /\ ~(p[1] < L /\ L < p[2])
    BY <1>1, <2>3
  <2> QED
    BY <1>2, <2>1, <2>2, <2>4 DEF Pairs
<1>5. ASSUME NEW p \in Pairs(line) \ Stretches(line)
      PROVE  p[1] \in Numbered(line) /\ p[2] = L /\ L \notin Numbered(line)
  <2>1. /\ p \in Stops(line) \X Stops(line) /\ p[1] < p[2]
        /\ \A i \in Stops(line) : ~(p[1] < i /\ i < p[2])
    BY DEF Pairs
  <2>2. Stops(line) \subseteq 1 .. L
    BY <1>1, <1>2, <1>3
  <2>3. p[1] \in 1 .. L /\ p[2] \in 1 .. L /\ p[1] # L /\ p[2] # 1
    BY <1>1, <2>1, <2>2
  <2>4. p[1] \in Numbered(line)
    BY <1>2, <1>3, <2>1, <2>3
  <2>5. p[2] \notin Numbered(line)
    <3> SUFFICES ASSUME p[2] \in Numbered(line) PROVE FALSE
      OBVIOUS
    <3>1. p \in Numbered(line) \X Numbered(line)
      BY <2>1, <2>4
    <3>2. p \in Stretches(line)
      BY <1>2, <2>1, <3>1 DEF Stretches
    <3> QED
      BY <3>2
  <2> QED
    BY <1>2, <2>1, <2>3, <2>4, <2>5
<1> QED
    BY <1>4, <1>5 DEF line, L

\* A letter and what is added to it.
LEMMA LettersBetween ==
    ASSUME NEW c \in Int, NEW d \in Int, IsLetter(c), IsLetter(d),
           NEW n \in 1 .. ToLower(d) - ToLower(c) - 1
    PROVE  IsLetter(c + n) /\ ToLower(c + n) = ToLower(c) + n
<1>1. ToLower(d) \in Int /\ ToLower(d) <= 122
    BY DEF IsLetter, ToLower
<1>2. CASE c \in 65 .. 90
  <2>1. ToLower(c) = c + 32
    BY <1>2 DEF ToLower
  <2>2. c + n \in 65 .. 90
    BY <1>1, <1>2, <2>1
  <2>3. ToLower(c + n) = c + n + 32
    BY <2>2 DEF ToLower
  <2> QED
    BY <2>1, <2>2, <2>3 DEF IsLetter
<1>3. CASE c \in 97 .. 122
  <2>1. ToLower(c) = c
    BY <1>3 DEF ToLower
  <2>2. c + n \in 97 .. 122
    BY <1>1, <1>3, <2>1
  <2>3. ToLower(c + n) = c + n
    BY <2>2 DEF ToLower
  <2> QED
    BY <2>1, <2>2, <2>3 DEF IsLetter
<1> QED
    BY <1>2, <1>3 DEF IsLetter

LEMMA HouseFacts ==
    ASSUME NEW h \in Kinds, h.kind = "number"
    PROVE  /\ h \in HouseNumbers /\ h.number \in Nat /\ h.suffix \in Nat
           /\ h.suffix = 0 \/ IsLetter(h.suffix)
           /\ \A t : Rank(t, h) \in Int
<1>1. h \in HouseNumbers
    BY DEF Kinds, NoTag, Text, Malformed
<1>2. h.number \in Nat /\ h.suffix \in Nat /\ (h.suffix = 0 \/ IsLetter(h.suffix))
    BY <1>1 DEF HouseNumbers
<1>3. ToLower(h.suffix) \in Int
    BY <1>2 DEF ToLower
<1> QED
    BY <1>1, <1>2, <1>3 DEF Rank

\* What the rows of a regular way are made from.
RankAt(w, i) == Rank(type(w), HouseAt(nodes(w), i))
Count(w, p) == RankAt(w, p[2]) - RankAt(w, p[1])
RowAt(w, p, i) ==
    LET h1 == HouseAt(nodes(w), p[1])
    IN [way |-> w, from |-> p[1], to |-> p[2], step |-> i,
        number |-> Incremented(type(w), h1, i).number,
        suffix |-> Incremented(type(w), h1, i).suffix,
        place |-> get_remote_point(nodes(w), p[1], p[2], i, Count(w, p))]

RegularWay(w) ==
    TagsStored /\ w \in DOMAIN input.ways /\ TrackedWay(w) /\ Whole(nodes(w)) /\ Regular(w)

LEMMA RegularFacts ==
    ASSUME NEW w, RegularWay(w)
    PROVE  LET line == nodes(w)
           IN  /\ OnRoad(line) /\ Len(line) \in Nat /\ DOMAIN line = 1 .. Len(line)
               /\ 1 \in Numbered(line) /\ Numbered(line) \subseteq DOMAIN line
               /\ \A i \in Numbered(line) :
                    /\ get(line[i]) = HouseAt(line, i) /\ get(line[i]) # Null
                    /\ HouseAt(line, i) \in HouseNumbers
                    /\ HouseAt(line, i).kind = "number"
                    /\ type(w) = "alphabetic" => IsLetter(HouseAt(line, i).suffix)
                    /\ RankAt(w, i) \in Int
               /\ \A p \in Stretches(line) :
                    /\ Count(w, p) \in Nat /\ Count(w, p) > 0
                    /\ Count(w, p) % Increment(type(w)) = 0
                    /\ \E i \in p[1] .. p[2] : Place(line, i) # Place(line, p[1])
<1> DEFINE line == nodes(w)
<1>1. TagsStored /\ w \in DOMAIN input.ways /\ TrackedWay(w) /\ Whole(nodes(w)) /\ Regular(w)
    BY DEF RegularWay
<1>2. /\ OnRoad(line) /\ Len(line) \in Nat /\ DOMAIN line = 1 .. Len(line)
      /\ \A i \in DOMAIN line :
            get(line[i]) = HouseAt(line, i) /\ get(line[i]) # Null /\ get(line[i]) \in Kinds
    BY <1>1, OpenWayTags
<1>3. 1 \in Numbered(line) /\ Numbered(line) \subseteq DOMAIN line
    BY <1>1 DEF Regular, Numbered
<1>4. ASSUME NEW i \in Numbered(line)
      PROVE  /\ get(line[i]) = HouseAt(line, i) /\ get(line[i]) # Null
             /\ HouseAt(line, i) \in HouseNumbers
             /\ HouseAt(line, i).kind = "number"
             /\ type(w) = "alphabetic" => IsLetter(HouseAt(line, i).suffix)
             /\ RankAt(w, i) \in Int
  <2>1. /\ HouseAt(line, i).kind = "number"
        /\ type(w) = "alphabetic" => IsLetter(HouseAt(line, i).suffix)
    BY <1>1 DEF Regular
  <2>2. HouseAt(line, i) \in Kinds /\ get(line[i]) = HouseAt(line, i) /\ get(line[i]) # Null
    BY <1>2, <1>3
  <2>3. HouseAt(line, i) \in HouseNumbers /\ Rank(type(w), HouseAt(line, i)) \in Int
    BY <2>1, <2>2, HouseFacts
  <2> QED
    BY <2>1, <2>2, <2>3 DEF RankAt
<1>5. ASSUME NEW p \in Stretches(line)
      PROVE  /\ Count(w, p) \in Nat /\ Count(w, p) > 0
             /\ Count(w, p) % Increment(type(w)) = 0
             /\ \E i \in p[1] .. p[2] : Place(line, i) # Place(line, p[1])
  <2>1. p[1] \in Numbered(line) /\ p[2] \in Numbered(line)
    BY DEF Stretches
  <2>2. Count(w, p) \in Int
    BY <1>4, <2>1 DEF Count
  <2>3. /\ Count(w, p) > 0 /\ Count(w, p) % Increment(type(w)) = 0
        /\ \E i \in p[1] .. p[2] : Place(line, i) # Place(line, p[1])
    BY <1>1 DEF Regular, Count, RankAt
  <2> QED
    BY <2>2, <2>3
<1> QED
    BY <1>2, <1>3, <1>4, <1>5

\* Numbers grow along a regular way, not only between neighbours.
LEMMA RanksGrow ==
    ASSUME NEW w, RegularWay(w), NEW a \in Numbered(nodes(w)), NEW b \in Numbered(nodes(w)), a < b
    PROVE  RankAt(w, a) < RankAt(w, b)
<1> DEFINE numbered == Numbered(nodes(w))
           bad == {n \in Nat : \E i, j \in numbered :
                        i < j /\ n = j - i /\ ~(RankAt(w, i) < RankAt(w, j))}
<1>1. /\ \A i \in numbered : i \in Nat /\ RankAt(w, i) \in Int
      /\ \A p \in Stretches(nodes(w)) : Count(w, p) \in Nat /\ Count(w, p) > 0
    BY RegularFacts
<1>2. bad = {}
  <2> SUFFICES ASSUME bad # {} PROVE FALSE
    OBVIOUS
  <2>1. PICK n \in bad : \A m \in bad : n <= m
    BY LeastOf
  <2>2. PICK i, j \in numbered : i < j /\ n = j - i /\ ~(RankAt(w, i) < RankAt(w, j))
    BY <2>1
  <2>3. i \in Nat /\ j \in Nat /\ RankAt(w, i) \in Int /\ RankAt(w, j) \in Int
    BY <1>1
  <2>4. CASE \E k \in numbered : i < k /\ k < j
    <3>1. PICK k \in numbered : i < k /\ k < j
      BY <2>4
    <3>2. k \in Nat /\ RankAt(w, k) \in Int
      BY <1>1
    <3>3. k - i \in Nat /\ j - k \in Nat /\ ~(n <= k - i) /\ ~(n <= j - k)
      BY <2>2, <2>3, <3>1, <3>2
    <3>4. k - i \notin bad /\ j - k \notin bad
      BY <2>1, <3>3
    <3>5. RankAt(w, i) < RankAt(w, k) /\ RankAt(w, k) < RankAt(w, j)
      BY <3>1, <3>3, <3>4
    <3> QED
      BY <2>2, <2>3, <3>2, <3>5
  <2>5. CASE ~\E k \in numbered : i < k /\ k < j
    <3> DEFINE p == <<i, j>>
    <3>1. p \in Stretches(nodes(w))
      BY <2>2, <2>5 DEF Stretches
    <3>2. Count(w, p) = RankAt(w, j) - RankAt(w, i)
      BY DEF Count
    <3>3. Count(w, p) \in Nat /\ Count(w, p) > 0
      BY <1>1, <3>1
    <3> HIDE DEF p
    <3> QED
      BY <2>2, <2>3, <3>2, <3>3
  <2> QED
    BY <2>4, <2>5
<1> QED
  <2>1. a \in Nat /\ b \in Nat /\ b - a \in Nat
    BY <1>1
  <2>2. b - a \notin bad
    BY <1>2
  <2> QED
    BY <2>1, <2>2

LEMMA StretchFacts ==
    ASSUME NEW w, RegularWay(w), NEW p \in Stretches(nodes(w))
    PROVE  LET line == nodes(w)
           IN  /\ p = <<p[1], p[2]>> /\ p[1] \in Numbered(line) /\ p[2] \in Numbered(line)
               /\ p[1] \in DOMAIN line /\ p[1] \in Nat /\ p[2] \in Nat
               /\ p[2] \in p[1] + 1 .. Len(line)
               /\ Number(line, p[1]) = HouseAt(line, p[1])
               /\ Number(line, p[2]) = HouseAt(line, p[2])
               /\ Valid(line, p)
               /\ Difference(type(w), Number(line, p[1]), Number(line, p[2])) = Count(w, p)
<1> DEFINE line == nodes(w)
           h1 == HouseAt(line, p[1])
           h2 == HouseAt(line, p[2])
<1>1. /\ Len(line) \in Nat /\ DOMAIN line = 1 .. Len(line)
      /\ Numbered(line) \subseteq DOMAIN line
      /\ \A i \in Numbered(line) :
            get(line[i]) = HouseAt(line, i) /\ HouseAt(line, i).kind = "number"
      /\ Count(w, p) \in Nat
    BY RegularFacts
<1>2. p \in Numbered(line) \X Numbered(line) /\ p[1] < p[2]
    BY DEF Stretches
<1>3. p = <<p[1], p[2]>> /\ p[1] \in Numbered(line) /\ p[2] \in Numbered(line)
    BY <1>2
<1>4. p[1] \in DOMAIN line /\ p[1] \in Nat /\ p[2] \in Nat /\ p[2] \in p[1] + 1 .. Len(line)
    BY <1>1, <1>2, <1>3
<1>5. Number(line, p[1]) = h1 /\ Number(line, p[2]) = h2
    BY <1>1, <1>3 DEF Number
<1>6. Valid(line, p)
    BY <1>1, <1>3, <1>5 DEF Valid
<1>7. interpolation_difference(type(w), h2, h1) = Count(w, p)
    BY DEF interpolation_difference, Count, RankAt, Rank
<1>8. Difference(type(w), h1, h2) = Count(w, p)
    BY <1>1, <1>7 DEF Difference, Magnitude
<1> QED
    BY <1>3, <1>4, <1>5, <1>6, <1>8

\* Each row has the number that is so many behind the first one.
LEMMA RowRanks ==
    ASSUME NEW w, RegularWay(w), NEW p \in Stretches(nodes(w)),
           NEW i \in Steps(type(w), Count(w, p))
    PROVE  /\ i \in 1 .. Count(w, p) - 1
           /\ Rank(type(w), RowAt(w, p, i)) = RankAt(w, p[1]) + i
           /\ type(w) = "alphabetic" => IsLetter(HouseAt(nodes(w), p[1]).suffix + i)
<1> DEFINE line == nodes(w)
           h1 == HouseAt(line, p[1])
           h2 == HouseAt(line, p[2])
           r == RowAt(w, p, i)
<1>1. p[1] \in Numbered(line) /\ p[2] \in Numbered(line)
    BY StretchFacts
<1>2. /\ h1 \in HouseNumbers /\ h2 \in HouseNumbers
      /\ type(w) = "alphabetic" => IsLetter(h1.suffix) /\ IsLetter(h2.suffix)
      /\ Count(w, p) \in Nat
    BY <1>1, RegularFacts
<1>3. i \in 1 .. Count(w, p) - 1
    BY DEF Steps
<1>4. /\ r.number = Incremented(type(w), h1, i).number
      /\ r.suffix = Incremented(type(w), h1, i).suffix
    BY DEF RowAt
<1>5. RankAt(w, p[1]) = Rank(type(w), h1) /\ Count(w, p) = Rank(type(w), h2) - Rank(type(w), h1)
    BY DEF RankAt, Count
<1> HIDE DEF h1, h2, r
<1>6. h1.suffix \in Int /\ h2.suffix \in Int /\ h1.number \in Int
    BY <1>2 DEF HouseNumbers
<1>7. CASE type(w) = "alphabetic"
  <2>1. r.suffix = h1.suffix + i
    <3>1. Incremented(type(w), h1, i).suffix = h1.suffix + i
      BY <1>2, <1>7 DEF Incremented, HouseNumbers
    <3> QED
      BY <1>4, <3>1
  <2>2. Count(w, p) = ToLower(h2.suffix) - ToLower(h1.suffix)
    BY <1>5, <1>7 DEF Rank
  <2>3. IsLetter(h1.suffix + i) /\ ToLower(h1.suffix + i) = ToLower(h1.suffix) + i
    BY <1>2, <1>3, <1>6, <1>7, <2>2, LettersBetween
  <2>4. Rank(type(w), r) = ToLower(h1.suffix + i) /\ Rank(type(w), h1) = ToLower(h1.suffix)
    BY <1>7, <2>1 DEF Rank
  <2> QED
    BY <1>3, <1>5, <2>3, <2>4 DEF r, h1
<1>8. CASE type(w) # "alphabetic"
  <2>1. r.number = h1.number + i
    <3>1. Incremented(type(w), h1, i).number = h1.number + i
      BY <1>2, <1>8 DEF Incremented, HouseNumbers
    <3> QED
      BY <1>4, <3>1
  <2>2. Rank(type(w), r) = h1.number + i /\ Rank(type(w), h1) = h1.number
    BY <1>8, <2>1 DEF Rank
  <2> QED
    BY <1>3, <1>5, <1>8, <2>2 DEF r
<1> QED
    BY <1>7, <1>8

\* Nothing fails on a regular way: neither between two numbers, ...
LEMMA StretchSucceeds ==
    ASSUME NEW w, RegularWay(w), NEW p \in Stretches(nodes(w))
    PROVE  ~Crashes(nodes(w), p) /\ ~Throws(type(w), nodes(w), p)
<1> DEFINE line == nodes(w)
           h1 == HouseAt(line, p[1])
           h2 == HouseAt(line, p[2])
           all == Count(w, p)
<1>1. /\ p[1] \in Numbered(line) /\ p[2] \in Numbered(line)
      /\ p[1] \in DOMAIN line /\ p[2] \in p[1] + 1 .. Len(line)
      /\ p[1] \in Nat /\ p[2] \in Nat
      /\ Number(line, p[1]) = h1 /\ Number(line, p[2]) = h2
      /\ Difference(type(w), Number(line, p[1]), Number(line, p[2])) = all
    BY StretchFacts
<1>2. /\ OnRoad(line)
      /\ get(line[p[2]]) # Null /\ h1.kind = "number" /\ h2.kind = "number"
      /\ all \in Nat /\ all > 0 /\ all % Increment(type(w)) = 0
      /\ \E i \in p[1] .. p[2] : Place(line, i) # Place(line, p[1])
    BY <1>1, RegularFacts
<1> HIDE DEF line, h1, h2, all
<1>3. ~Crashes(line, p)
    BY <1>2 DEF Crashes
<1>4. ~\E i \in {1, 2} : Number(line, p[i]) # Null /\ Number(line, p[i]).kind = "malformed"
    BY <1>1, <1>2
<1>5. Path(line, p[1], p[2]) # 0
  <2>1. p[2] \in p[1] .. Len(line)
    BY <1>1
  <2>2. /\ Path(line, p[1], p[2]) \in Nat
        /\ \A k \in p[1] .. p[2] :
                /\ Path(line, p[1], k) \in Nat
                /\ Path(line, p[1], k) <= Path(line, p[1], p[2])
                /\ Place(line, k) - Place(line, p[1]) <= Path(line, p[1], k)
                /\ Place(line, p[1]) - Place(line, k) <= Path(line, p[1], k)
    BY <1>1, <1>2, <2>1, PathFacts
  <2>3. PICK k \in p[1] .. p[2] : Place(line, k) # Place(line, p[1])
    BY <1>2
  <2>4. Place(line, k) \in Int /\ Place(line, p[1]) \in Int
    <3>1. k \in DOMAIN line
      BY <1>1, <1>2, VectorFacts DEF OnRoad
    <3> QED
      BY <1>1, <1>2, <3>1 DEF OnRoad
  <2> QED
    BY <2>2, <2>3, <2>4
<1>6. ~(type(w) \in {"odd", "even"} /\ all % 2 # 0)
    BY <1>2 DEF Increment
<1>7. type(w) = "alphabetic" => \A i \in Steps(type(w), all) : IsLetter(h1.suffix + i)
    BY RowRanks DEF all, h1, line
<1>8. ~Throws(type(w), line, p)
    BY <1>1, <1>4, <1>5, <1>6, <1>7 DEF Throws
<1> QED
    BY <1>3, <1>8 DEF line

\* ... nor behind the last number.
LEMMA RestSucceeds ==
    ASSUME NEW w, RegularWay(w), NEW p \in Pairs(nodes(w)) \ Stretches(nodes(w))
    PROVE  ~Crashes(nodes(w), p) /\ ~Throws(type(w), nodes(w), p) /\ Points(w, p) = {}
<1> DEFINE line == nodes(w)
<1>1. TagsStored /\ w \in DOMAIN input.ways /\ TrackedWay(w) /\ Whole(nodes(w))
    BY DEF RegularWay
<1>2. /\ 1 \in Numbered(line)
      /\ \A i \in Numbered(line) : get(line[i]) = HouseAt(line, i) /\ HouseAt(line, i).kind = "number"
    BY RegularFacts
<1>3. p[1] \in Numbered(line) /\ p[2] = Len(line) /\ Len(line) \notin Numbered(line)
    BY <1>1, <1>2, OpenWayPairs
<1>4. Len(line) \in DOMAIN line
  <2>1. Len(line) \in Nat \ {0, 1} /\ DOMAIN line = 1 .. Len(line)
    BY <1>1, OpenWayTags
  <2> QED
    BY <2>1
<1>5. get(line[p[2]]) # Null /\ get(line[p[2]]).kind = "absent"
  <2>1. get(line[p[2]]) # Null /\ get(line[p[2]]) = HouseAt(line, p[2])
    BY <1>1, <1>3, <1>4, OpenWayTags
  <2> QED
    BY <1>3, <1>4, <2>1 DEF Numbered, HouseAt
<1> HIDE DEF line
<1>6. Number(line, p[1]).kind = "number" /\ Number(line, p[2]).kind = "absent"
    BY <1>2, <1>3, <1>5 DEF Number
<1>7. ~Valid(line, p)
    BY <1>6 DEF Valid
<1>8. ~\E i \in {1, 2} : Number(line, p[i]).kind = "malformed"
    BY <1>6
<1> QED
    BY <1>5, <1>7, <1>8 DEF Crashes, Throws, Points, line

LEMMA RegularRows ==
    ASSUME NEW w, RegularWay(w)
    PROVE  RowsOf(w) = UNION {{RowAt(w, p, i) : i \in Steps(type(w), Count(w, p))}
                                : p \in Stretches(nodes(w))}
<1> DEFINE line == nodes(w)
           RowsAt(p) == {RowAt(w, p, i) : i \in Steps(type(w), Count(w, p))}
<1>1. /\ TagsStored /\ w \in DOMAIN input.ways /\ TrackedWay(w) /\ Whole(nodes(w))
      /\ 1 \in Numbered(line)
    BY RegularFacts DEF RegularWay
<1>2. ~Skipped(w)
    BY <1>1, OpenWayStops
<1>3. Stretches(line) \subseteq Pairs(line)
    BY <1>1, OpenWayPairs
<1>4. FirstFailure(w) = {}
    BY StretchSucceeds, RestSucceeds DEF FirstFailure
<1>5. ASSUME NEW p \in Stretches(line) PROVE Points(w, p) = RowsAt(p)
  <2>1. /\ Valid(line, p)
        /\ Number(line, p[1]) = HouseAt(line, p[1])
        /\ Difference(type(w), Number(line, p[1]), Number(line, p[2])) = Count(w, p)
    BY StretchFacts
  <2> QED
    BY <2>1 DEF Points, RowAt
<1>6. \A p \in Pairs(line) \ Stretches(line) : Points(w, p) = {}
    BY RestSucceeds
<1>7. RowsOf(w) = UNION {Points(w, p) : p \in Pairs(line)}
    BY <1>2, <1>4 DEF RowsOf
<1>8. UNION {Points(w, p) : p \in Pairs(line)} = UNION {RowsAt(p) : p \in Stretches(line)}
  <2> HIDE DEF RowsAt, line
  <2> QED
    BY <1>3, <1>5, <1>6
<1> QED
    BY <1>7, <1>8

\* What NumbersFollowWays says of the rows of one regular way.
NumbersBetween(w, written) ==
    {<<<<r.from, r.to>>, Rank(type(w), r)>> : r \in written} =
        UNION {{<<p, Rank(type(w), HouseAt(nodes(w), p[1])) + i>> :
                    i \in Steps(type(w), Rank(type(w), HouseAt(nodes(w), p[2]))
                                        - Rank(type(w), HouseAt(nodes(w), p[1])))}
                : p \in Stretches(nodes(w))}
NumbersOnce(w, written) ==
    \A r, s \in written : Rank(type(w), r) = Rank(type(w), s) => r = s

LEMMA RegularNumbers ==
    ASSUME NEW w, RegularWay(w)
    PROVE  NumbersBetween(w, RowsOf(w))
<1> DEFINE line == nodes(w)
           found == {<<<<r.from, r.to>>, Rank(type(w), r)>> : r \in RowsOf(w)}
           Expected(p) == {<<p, RankAt(w, p[1]) + i>> : i \in Steps(type(w), Count(w, p))}
           expected == UNION {Expected(p) : p \in Stretches(line)}
<1>1. RowsOf(w) = UNION {{RowAt(w, p, i) : i \in Steps(type(w), Count(w, p))}
                            : p \in Stretches(line)}
    BY RegularRows
<1>2. ASSUME NEW p \in Stretches(line), NEW i \in Steps(type(w), Count(w, p))
      PROVE  <<<<RowAt(w, p, i).from, RowAt(w, p, i).to>>, Rank(type(w), RowAt(w, p, i))>>
                = <<p, RankAt(w, p[1]) + i>>
  <2>1. RowAt(w, p, i).from = p[1] /\ RowAt(w, p, i).to = p[2]
    BY DEF RowAt
  <2>2. p = <<p[1], p[2]>> /\ Rank(type(w), RowAt(w, p, i)) = RankAt(w, p[1]) + i
    BY StretchFacts, RowRanks
  <2> QED
    BY <2>1, <2>2
<1>3. ASSUME NEW x \in found PROVE x \in expected
  <2>1. PICK r \in RowsOf(w) : x = <<<<r.from, r.to>>, Rank(type(w), r)>>
    OBVIOUS
  <2>2. PICK p \in Stretches(line) : \E i \in Steps(type(w), Count(w, p)) : r = RowAt(w, p, i)
    BY <1>1
  <2>3. PICK i \in Steps(type(w), Count(w, p)) : r = RowAt(w, p, i)
    BY <2>2
  <2>4. x = <<p, RankAt(w, p[1]) + i>>
    BY <1>2, <2>1, <2>3
  <2>5. x \in Expected(p)
    BY <2>4
  <2> HIDE DEF Expected, line
  <2> QED
    BY <2>5
<1>4. ASSUME NEW x \in expected PROVE x \in found
  <2>1. PICK p \in Stretches(line) : x \in Expected(p)
    OBVIOUS
  <2>2. PICK i \in Steps(type(w), Count(w, p)) : x = <<p, RankAt(w, p[1]) + i>>
    BY <2>1
  <2>3. RowAt(w, p, i) \in RowsOf(w)
    BY <1>1
  <2>4. x = <<<<RowAt(w, p, i).from, RowAt(w, p, i).to>>, Rank(type(w), RowAt(w, p, i))>>
    BY <1>2, <2>2
  <2> QED
    BY <2>3, <2>4
<1>5. found = expected
    BY <1>3, <1>4
<1> QED
    BY <1>5 DEF NumbersBetween, RankAt, Count

\* Numbers of different stretches are different.
LEMMA RegularOnce ==
    ASSUME NEW w, RegularWay(w)
    PROVE  NumbersOnce(w, RowsOf(w))
<1> DEFINE line == nodes(w)
<1>1. RowsOf(w) = UNION {{RowAt(w, p, i) : i \in Steps(type(w), Count(w, p))}
                            : p \in Stretches(line)}
    BY RegularRows
<1>2. ASSUME NEW p \in Stretches(line)
      PROVE  /\ p = <<p[1], p[2]>> /\ p[1] \in Numbered(line) /\ p[2] \in Numbered(line)
             /\ p[1] \in Nat /\ p[2] \in Nat /\ p[1] < p[2]
             /\ RankAt(w, p[1]) \in Int /\ RankAt(w, p[2]) \in Int
             /\ Count(w, p) = RankAt(w, p[2]) - RankAt(w, p[1])
             /\ \A i \in Numbered(line) : ~(p[1] < i /\ i < p[2])
  <2>1. p[1] < p[2] /\ \A i \in Numbered(line) : ~(p[1] < i /\ i < p[2])
    BY DEF Stretches
  <2>2. /\ p = <<p[1], p[2]>> /\ p[1] \in Numbered(line) /\ p[2] \in Numbered(line)
        /\ p[1] \in Nat /\ p[2] \in Nat
    BY StretchFacts
  <2> QED
    BY <2>1, <2>2, RegularFacts DEF Count
<1>3. ASSUME NEW p \in Stretches(line), NEW q \in Stretches(line), p[1] < q[1],
             NEW i \in 1 .. Count(w, p) - 1, NEW j \in 1 .. Count(w, q) - 1
      PROVE  RankAt(w, p[1]) + i # RankAt(w, q[1]) + j
  <2>1. p[2] <= q[1]
    BY <1>2, <1>3
  <2>2. RankAt(w, p[2]) <= RankAt(w, q[1])
    <3>1. CASE p[2] = q[1]
      BY <1>2, <3>1
    <3>2. CASE p[2] # q[1]
      <4>1. p[2] < q[1]
        BY <1>2, <2>1, <3>2
      <4>2. RankAt(w, p[2]) < RankAt(w, q[1])
        BY <1>2, <4>1, RanksGrow
      <4> QED
        BY <1>2, <4>2
    <3> QED
      BY <3>1, <3>2
  <2> QED
    BY <1>2, <2>2
<1>4. ASSUME NEW p \in Stretches(line), NEW q \in Stretches(line), p[1] = q[1]
      PROVE  p = q
  <2>1. p[2] = q[2]
    BY <1>2, <1>4
  <2> QED
    BY <1>2, <1>4, <2>1
<1>5. ASSUME NEW r \in RowsOf(w), NEW s \in RowsOf(w), Rank(type(w), r) = Rank(type(w), s)
      PROVE  r = s
  <2>1. PICK p \in Stretches(line) : \E i \in Steps(type(w), Count(w, p)) : r = RowAt(w, p, i)
    BY <1>1
  <2>2. PICK i \in Steps(type(w), Count(w, p)) : r = RowAt(w, p, i)
    BY <2>1
  <2>3. PICK q \in Stretches(line) : \E j \in Steps(type(w), Count(w, q)) : s = RowAt(w, q, j)
    BY <1>1
  <2>4. PICK j \in Steps(type(w), Count(w, q)) : s = RowAt(w, q, j)
    BY <2>3
  <2>5. /\ i \in 1 .. Count(w, p) - 1 /\ Rank(type(w), r) = RankAt(w, p[1]) + i
        /\ j \in 1 .. Count(w, q) - 1 /\ Rank(type(w), s) = RankAt(w, q[1]) + j
    BY <2>2, <2>4, RowRanks
  <2>6. ~(p[1] < q[1]) /\ ~(q[1] < p[1])
    BY <1>3, <1>5, <2>5
  <2>7. p = q
    BY <1>2, <1>4, <2>6
  <2>8. i = j
    <3> DEFINE a == RankAt(w, p[1])
    <3>1. a \in Int /\ Count(w, p) \in Int
      BY <1>2
    <3>2. i \in Int /\ j \in Int
      BY <2>5, <2>7, <3>1
    <3>3. a + i = a + j
      BY <1>5, <2>5, <2>7
    <3> HIDE DEF a
    <3> QED
      BY <3>1, <3>2, <3>3
  <2> QED
    BY <2>2, <2>4, <2>7, <2>8
<1> QED
    BY <1>5 DEF NumbersOnce

LEMMA RegularPlaces ==
    ASSUME NEW w, RegularWay(w), NEW r \in RowsOf(w)
    PROVE  LiesAtItsNumber(r)
<1> DEFINE line == nodes(w)
<1>0. PICK p \in Stretches(line) : \E i \in Steps(type(w), Count(w, p)) : r = RowAt(w, p, i)
    BY RegularRows
<1>1. PICK i \in Steps(type(w), Count(w, p)) : r = RowAt(w, p, i)
    BY <1>0
<1> DEFINE all == Count(w, p)
           place == get_remote_point(line, p[1], p[2], i, all)
<1>2. /\ r.way = w /\ r.from = p[1] /\ r.to = p[2] /\ r.place = place
    BY <1>1 DEF RowAt
<1>3. /\ all \in Nat /\ OnRoad(line) /\ RankAt(w, p[1]) \in Int
      /\ p[1] \in DOMAIN line /\ p[2] \in p[1] + 1 .. Len(line)
    BY StretchFacts, RegularFacts
<1>4. i \in 1 .. all - 1 /\ Rank(type(w), r) = RankAt(w, p[1]) + i
    BY <1>1, RowRanks
<1>5. Rank(type(w), r) - RankAt(w, p[1]) = i
  <2> HIDE DEF all
  <2>1. i \in Int
    BY <1>3, <1>4
  <2> QED
    BY <1>3, <1>4, <2>1
<1>6. \E k \in p[1] .. p[2] - 1 :
        /\ place >= all * Min({Place(line, k), Place(line, k + 1)})
        /\ place <= all * Max({Place(line, k), Place(line, k + 1)})
        /\ all * Path(line, p[1], k) + Magnitude(place - all * Place(line, k))
            = Path(line, p[1], p[2]) * i
  <2> HIDE DEF all, line
  <2> QED
    BY <1>3, <1>4, RemotePoint
<1>7. all = Rank(type(w), HouseAt(line, p[2])) - Rank(type(w), HouseAt(line, p[1]))
    BY DEF Count, RankAt
<1>8. i = Rank(type(w), r) - Rank(type(w), HouseAt(line, p[1]))
    BY <1>5 DEF RankAt
<1> HIDE DEF all, place, line
<1>9. LET h1 == HouseAt(line, p[1])
      IN \E k \in p[1] .. p[2] - 1 :
        /\ r.place >= all * Min({Place(line, k), Place(line, k + 1)})
        /\ r.place <= all * Max({Place(line, k), Place(line, k + 1)})
        /\ all * Path(line, p[1], k) + Magnitude(r.place - all * Place(line, k))
            = Path(line, p[1], p[2]) * (Rank(type(w), r) - Rank(type(w), h1))
    BY <1>2, <1>6, <1>8
<1> QED
    BY <1>2, <1>7, <1>9 DEF LiesAtItsNumber, line

\* If a pair fails there is a first one.
LEMMA FailureFound ==
    ASSUME NEW w, Vector(nodes(w)), ~Skipped(w), NEW p \in Pairs(nodes(w)),
           Crashes(nodes(w), p) \/ Throws(type(w), nodes(w), p)
    PROVE  FirstFailure(w) # {}
<1> DEFINE line == nodes(w)
           failing == {q \in Pairs(line) : Crashes(line, q) \/ Throws(type(w), line, q)}
           starts == {q[1] : q \in failing}
<1>1. Stops(line) \subseteq Nat
  <2>1. Len(line) \in Nat /\ Len(line) >= 2 /\ First(line) # Len(line)
    BY VectorFacts DEF Skipped
  <2>2. First(line) \in 1 .. Len(line) - 1 /\ Stops(line) \subseteq First(line) .. Len(line)
    BY <2>1, SearchStops
  <2> HIDE DEF line
  <2> QED
    BY <2>1, <2>2
<1>2. p \in failing /\ \A q \in failing : q[1] \in Nat
    BY <1>1 DEF Pairs
<1>3. FirstFailure(w) = {a \in failing : \A b \in failing : a[1] <= b[1]}
    BY DEF FirstFailure
<1> HIDE DEF failing
<1>4. starts \subseteq Nat /\ p[1] \in starts
    BY <1>2
<1>5. PICK n \in starts : \A k \in starts : n <= k
    BY <1>4, LeastOf
<1>6. PICK q \in failing : n = q[1]
    BY <1>5
<1>7. \A k \in failing : q[1] <= k[1]
    BY <1>5, <1>6
<1> QED
    BY <1>3, <1>6, <1>7

\* Whatever the ways are and wherever the search has gone, a row has a letter or none.
LEMMA RowLetters ==
    ASSUME input \in Inputs, NEW w \in DOMAIN input.ways, Whole(nodes(w)), NEW r \in RowsOf(w)
    PROVE  r.way = w /\ (r.suffix = 0 \/ IsLetter(r.suffix))
<1> DEFINE line == nodes(w)
           L == Len(line)
<1>1. Vector(line) /\ L \in Nat /\ DOMAIN line = 1 .. L
    BY InputFacts, VectorFacts
<1>2. ~Skipped(w) /\ FirstFailure(w) = {}
    BY DEF RowsOf
<1>3. PICK p \in Pairs(line) : r \in Points(w, p)
    BY <1>2 DEF RowsOf
<1>4. ~Throws(type(w), line, p)
    BY <1>1, <1>2, FailureFound
<1> DEFINE h1 == Number(line, p[1])
           diff == Difference(type(w), h1, Number(line, p[2]))
<1>5. Valid(line, p)
    BY <1>3 DEF Points
<1>6. PICK i \in Steps(type(w), diff) :
            /\ r.way = w
            /\ r.suffix = Incremented(type(w), h1, i).suffix
    BY <1>3, <1>5 DEF Points
<1>7. p[1] \in DOMAIN line /\ h1 # Null
  <2>1. L >= 2 /\ First(line) # L
    BY <1>1, <1>2 DEF Skipped
  <2>2. /\ First(line) \in 1 .. L - 1
        /\ IF get(line[1]) # Null THEN First(line) = 1
           ELSE First(line) # 1 /\ has_housenumber(line[First(line)])
        /\ Second(line, First(line)) = L \/ has_housenumber(line[Second(line, First(line))])
        /\ Stops(line) \subseteq First(line) .. L
        /\ \A k \in Stops(line) :
                \/ k \in {First(line), Second(line, First(line))}
                \/ get(line[k]) # Null
    BY <1>1, <2>1, SearchStops
  <2>3. p[1] \in Stops(line) /\ p[2] \in Stops(line) /\ p[1] < p[2]
    BY DEF Pairs
  <2> HIDE DEF line, L
  <2>4. p[1] \in 1 .. L /\ p[1] # L
    BY <1>1, <2>2, <2>3
  <2>5. get(line[p[1]]) # Null
    BY <2>2, <2>3, <2>4 DEF has_housenumber
  <2> QED
    BY <1>1, <2>4, <2>5 DEF Number
<1>8. h1 \in HouseNumbers /\ h1.suffix \in Nat /\ (h1.suffix = 0 \/ IsLetter(h1.suffix))
  <2>1. h1 = input.tags[line[p[1]]]
    BY <1>7 DEF Number, get
  <2>2. h1 \in Kinds
    BY <1>1, <1>7, <2>1, NodeInFile
  <2>3. h1.kind = "number"
    BY <1>5 DEF Valid
  <2> QED
    BY <2>2, <2>3, HouseFacts
<1> HIDE DEF line, L, h1, diff
<1>9. CASE type(w) = "alphabetic"
  <2>1. IsLetter(h1.suffix + i)
    BY <1>4, <1>5, <1>9 DEF Throws, h1, diff
  <2>2. Incremented(type(w), h1, i).suffix = h1.suffix + i
    BY <1>8, <1>9 DEF Incremented, HouseNumbers
  <2> QED
    BY <1>6, <2>1, <2>2
<1>10. CASE type(w) # "alphabetic"
  <2>1. Incremented(type(w), h1, i).suffix = h1.suffix
    BY <1>8, <1>10 DEF Incremented, HouseNumbers
  <2> QED
    BY <1>6, <1>8, <2>1
<1> QED
    BY <1>9, <1>10

\* A malformed number ends its way, whichever node has it.
LEMMA MalformedEndsWay ==
    ASSUME TagsStored, NEW w \in DOMAIN input.ways, TrackedWay(w), Whole(nodes(w)),
           NEW m \in Numbered(nodes(w)), HouseAt(nodes(w), m).kind = "malformed"
    PROVE  RowsOf(w) = {}
<1> DEFINE line == nodes(w)
           L == Len(line)
           stops == Stops(line)
<1>1. /\ L \in Nat \ {0, 1} /\ DOMAIN line = 1 .. L
      /\ \A i \in 1 .. L : get(line[i]) = HouseAt(line, i) /\ get(line[i]) # Null
    BY OpenWayTags
<1>2. stops = {1, L} \cup Numbered(line)
    BY OpenWayStops
<1>3. stops \subseteq 1 .. L /\ m \in stops /\ 1 \in stops /\ L \in stops
    BY <1>1, <1>2 DEF Numbered
<1> HIDE DEF L, stops
<1>4. \E p \in Pairs(line) : m \in {p[1], p[2]}
  <2>1. CASE m = L
    <3> DEFINE behind == {n \in Nat : n # 0 /\ L - n \in stops}
    <3>1. L - 1 \in behind
      BY <1>1, <1>3
    <3>2. PICK n \in behind : \A k \in behind : n <= k
      BY <3>1, LeastOf
    <3>3. n \in Nat \ {0} /\ L - n \in stops
      BY <3>2
    <3>4. ASSUME NEW i \in stops PROVE ~(L - n < i /\ i < L)
      <4> SUFFICES ASSUME L - n < i, i < L PROVE FALSE
        OBVIOUS
      <4>1. i \in Nat
        BY <1>3
      <4>2. L - i \in Nat /\ L - i # 0 /\ L - (L - i) = i /\ ~(n <= L - i)
        BY <1>1, <3>3, <3>4, <4>1
      <4>3. L - i \in behind
        BY <3>4, <4>2
      <4> QED
        BY <3>2, <4>2, <4>3
    <3> DEFINE p == <<L - n, L>>
    <3>5. L - n < L
      BY <1>1, <3>3
    <3>6. p \in Pairs(line)
      BY <1>3, <3>3, <3>4, <3>5 DEF Pairs, stops
    <3> QED
      BY <2>1, <3>6
  <2>2. CASE m # L
    <3> DEFINE later == {n \in stops : n > m}
    <3>1. later \subseteq Nat /\ L \in later
      <4>1. \A n \in stops : n \in Nat /\ n <= L
        BY <1>1, <1>3
      <4>2. L > m
        BY <1>1, <1>3, <2>2, <4>1
      <4> QED
        BY <1>3, <4>1, <4>2
    <3>2. PICK n \in later : \A k \in later : n <= k
      BY <3>1, LeastOf
    <3>3. n \in stops /\ m < n /\ n \in Nat /\ m \in Nat
      BY <1>3, <3>2
    <3>4. ASSUME NEW i \in stops PROVE ~(m < i /\ i < n)
      <4>1. i \in Nat
        BY <1>3
      <4> QED
        BY <3>2, <3>3, <3>4, <4>1
    <3> DEFINE p == <<m, n>>
    <3>5. p \in Pairs(line)
      BY <1>3, <3>3, <3>4 DEF Pairs, stops
    <3> QED
      BY <3>5
  <2> QED
    BY <2>1, <2>2
<1>5. PICK p \in Pairs(line) : m \in {p[1], p[2]}
    BY <1>4
<1>6. Throws(type(w), line, p)
  <2>1. get(line[m]) # Null /\ get(line[m]).kind = "malformed"
    BY <1>1, <1>3
  <2>2. \E i \in {1, 2} : Number(line, p[i]) # Null /\ Number(line, p[i]).kind = "malformed"
    BY <1>5, <2>1 DEF Number
  <2> QED
    BY <2>2 DEF Throws
<1>7. FirstFailure(w) # {}
  <2>1. Vector(line) /\ ~Skipped(w)
    BY OpenWayTags, OpenWayStops DEF OnRoad
  <2> QED
    BY <1>5, <1>6, <2>1, FailureFound
<1> QED
    BY <1>7 DEF RowsOf
-----------------------------------------------------------------------------
(* The rows that have been written.                                         *)

\* Rows are those of the ways behind, all of whose nodes are in the file.
WholeWays == {w \in DOMAIN input.ways : Whole(nodes(w))}
RowsUpTo(n) == UNION {RowsOf(w) : w \in 1 .. n}
RowsInv ==
    /\ phase \in {"pass1", "nodes"} => rows = {}
    /\ rows \subseteq UNION {RowsOf(w) : w \in WholeWays}
    /\ phase \in {"ways", "done"} =>
        /\ at <= Len(input.ways)
        /\ phase = "done" => at = Len(input.ways)
        /\ \A w \in 1 .. at : w \in WholeWays
        /\ rows = RowsUpTo(at)

LEMMA SameRows ==
    ASSUME UNCHANGED <<input, m_index>>
    PROVE  /\ WholeWays' = WholeWays
           /\ \A w : RowsOf(w)' = RowsOf(w)
<1>1. WholeWays' = WholeWays
    BY DEF WholeWays, Whole, nodes
<1>2. \A id : get(id)' = get(id)
    BY DEF get, LowerBound
<1>3. \A id : has_housenumber(id)' = has_housenumber(id)
    BY <1>2 DEF has_housenumber
<1>4. /\ \A w : nodes(w)' = nodes(w) /\ type(w)' = type(w)
      /\ \A line, i : Place(line, i)' = Place(line, i)
    BY DEF nodes, type, Place
<1>5. \A line : First(line)' = First(line)
    BY <1>2, <1>3 DEF First
<1>6. \A line, first : Second(line, first)' = Second(line, first)
    BY <1>3 DEF Second
<1>7. \A line : Stops(line)' = Stops(line)
    BY <1>2, <1>3, <1>5, <1>6 DEF Stops
<1>8. \A line : Pairs(line)' = Pairs(line)
    BY <1>7 DEF Pairs
<1>9. \A line, from, to : Path(line, from, to)' = Path(line, from, to)
    BY <1>4 DEF Path
<1>10. \A line, from, to, i, diff :
            get_remote_point(line, from, to, i, diff)' = get_remote_point(line, from, to, i, diff)
    BY DEF get_remote_point, Path, Place
<1>11. \A line, i : Number(line, i)' = Number(line, i)
    BY <1>2 DEF Number
<1>12. \A line, p : Valid(line, p)' = Valid(line, p)
    BY <1>11 DEF Valid
<1>13. \A line, p : Crashes(line, p)' = Crashes(line, p)
    BY <1>2 DEF Crashes
<1>14. \A t, line, p : Throws(t, line, p)' = Throws(t, line, p)
    BY <1>9, <1>11, <1>12 DEF Throws
<1>15. \A w, p : Points(w, p)' = Points(w, p)
    BY <1>4, <1>10, <1>11, <1>12 DEF Points
<1>16. \A w : Skipped(w)' = Skipped(w)
    BY <1>4, <1>5 DEF Skipped
<1>17. \A w : FirstFailure(w)' = FirstFailure(w)
    BY <1>4, <1>8, <1>13, <1>14 DEF FirstFailure
<1>18. \A w : RowsOf(w)' = RowsOf(w)
    BY <1>4, <1>8, <1>15, <1>16, <1>17 DEF RowsOf
<1> QED
    BY <1>1, <1>18

LEMMA RowsStep ==
    ASSUME AddrInv, RowsInv, [Next]_vars
    PROVE  RowsInv'
<1>1. /\ input \in Inputs /\ at \in Nat
      /\ Len(input.ways) \in Nat /\ DOMAIN input.ways = 1 .. Len(input.ways)
    BY InputFacts DEF AddrInv, TypeInv
<1>2. CASE Pass1Way \/ AfterPass1 \/ HandleNode
  <2>1. phase \in {"pass1", "nodes"} /\ phase' \in {"pass1", "nodes", "dead"} /\ rows' = rows
    BY <1>2 DEF Pass1Way, AfterPass1, HandleNode
  <2> QED
    BY <2>1 DEF RowsInv
<1>3. CASE StartWays
  <2>1. phase = "nodes" /\ phase' = "ways" /\ at' = 0 /\ rows' = rows /\ UNCHANGED input
    BY <1>3 DEF StartWays
  <2>2. rows' = {} /\ 1 .. at' = {}
    BY <2>1 DEF RowsInv
  <2>3. RowsUpTo(at)' = {}
    BY <2>2 DEF RowsUpTo
  <2> QED
    BY <1>1, <2>1, <2>2, <2>3 DEF RowsInv
<1>4. CASE HandleWay
  <2> DEFINE w == at + 1
  <2>1. /\ phase = "ways" /\ at < Len(input.ways) /\ at' = w
        /\ phase' \in {"ways", "dead", "stopped"}
        /\ UNCHANGED <<input, m_index>>
        /\ \/ rows' = rows /\ phase' # "ways"
           \/ Whole(nodes(w)) /\ rows' = rows \cup RowsOf(w)
    BY <1>4 DEF HandleWay, Whole
  <2>2. /\ \A v \in 1 .. at : v \in WholeWays
        /\ rows = RowsUpTo(at)
        /\ rows \subseteq UNION {RowsOf(v) : v \in WholeWays}
    BY <2>1 DEF RowsInv
  <2>3. WholeWays' = WholeWays /\ \A v : RowsOf(v)' = RowsOf(v)
    BY <2>1, SameRows
  <2>4. w \in DOMAIN input.ways /\ 1 .. w = (1 .. at) \cup {w} /\ w <= Len(input.ways)
    BY <1>1, <2>1
  <2> HIDE DEF w
  <2>5. CASE rows' = rows /\ phase' # "ways"
    BY <2>1, <2>2, <2>3, <2>5 DEF RowsInv
  <2>6. CASE Whole(nodes(w)) /\ rows' = rows \cup RowsOf(w)
    <3>1. w \in WholeWays
      BY <2>4, <2>6 DEF WholeWays
    <3>2. rows' \subseteq UNION {RowsOf(v) : v \in WholeWays}
      BY <2>2, <2>6, <3>1
    <3>3. \A v \in 1 .. w : v \in WholeWays
      BY <2>2, <2>4, <3>1
    <3>4. rows' = RowsUpTo(at)'
      <4>1. RowsUpTo(at)' = UNION {RowsOf(v) : v \in 1 .. w}
        BY <2>1, <2>3 DEF RowsUpTo
      <4> QED
        BY <2>2, <2>4, <2>6, <4>1 DEF RowsUpTo
    <3> QED
      BY <2>1, <2>3, <2>4, <3>2, <3>3, <3>4 DEF RowsInv
  <2> QED
    BY <2>1, <2>5, <2>6
<1>5. CASE Finish \/ UNCHANGED vars
  <2>1. /\ UNCHANGED <<input, m_index, rows, at>>
        /\ \/ UNCHANGED phase
           \/ phase = "ways" /\ phase' = "done" /\ at = Len(input.ways)
    BY <1>5 DEF Finish, vars
  <2>2. WholeWays' = WholeWays /\ \A v : RowsOf(v)' = RowsOf(v)
    BY <2>1, SameRows
  <2>3. RowsUpTo(at)' = RowsUpTo(at)
    BY <2>1, <2>2 DEF RowsUpTo
  <2> QED
    BY <1>1, <2>1, <2>2, <2>3 DEF RowsInv
<1> QED
    BY <1>2, <1>3, <1>4, <1>5 DEF Next

\* What is written about a way in the end is what the way gives.
LEMMA WrittenRows ==
    ASSUME input \in Inputs, RowsInv, phase = "done", NEW w \in DOMAIN input.ways
    PROVE  Whole(nodes(w)) /\ {r \in rows : r.way = w} = RowsOf(w)
<1>1. DOMAIN input.ways = 1 .. at /\ rows = RowsUpTo(at) /\ \A v \in 1 .. at : v \in WholeWays
    BY InputFacts DEF RowsInv
<1>2. \A v \in DOMAIN input.ways : Whole(nodes(v)) /\ \A r \in RowsOf(v) : r.way = v
    BY <1>1, RowLetters DEF WholeWays
<1>3. rows = UNION {RowsOf(v) : v \in DOMAIN input.ways}
    BY <1>1 DEF RowsUpTo
<1> QED
    BY <1>2, <1>3

LEMMA NumbersFollow ==
    ASSUME AddrInv, IndexInv, RowsInv
    PROVE  NumbersFollowWays
<1>1. input \in Inputs /\ Vector(m_index) /\ LookupsExact
    BY DEF AddrInv, TypeInv
<1>2. ASSUME NEW r \in rows PROVE r.suffix = 0 \/ IsLetter(r.suffix)
  <2>1. PICK w \in WholeWays : r \in RowsOf(w)
    BY DEF RowsInv
  <2> QED
    BY <1>1, <2>1, RowLetters DEF WholeWays
<1>3. ASSUME phase = "done", ~strayed, InOrder, NEW w \in DOMAIN input.ways,
             type(w) \in Types, ~ends_have_same_id(nodes(w))
      PROVE  LET line == nodes(w)
                 written == {r \in rows : r.way = w}
             IN  /\ Regular(w) =>
                        /\ NumbersBetween(w, written)
                        /\ NumbersOnce(w, written)
                        /\ \A r \in written : LiesAtItsNumber(r)
                 /\ (1 \in Numbered(line)
                        /\ \E i \in Numbered(line) : HouseAt(line, i).kind = "malformed")
                            => written = {}
  <2> DEFINE line == nodes(w)
             written == {r \in rows : r.way = w}
  <2>1. TagsStored
    <3>1. Entries(m_index) = Required \cap Read /\ StrictlyAscending(m_index)
      BY <1>1, <1>3 DEF LookupsExact, Searched, IndexInv
    <3>2. Read = Entries(input.file)
      BY <1>1, <1>3, InputFacts, VectorFacts DEF Read, Entries
    <3> QED
      BY <1>1, <3>1, <3>2 DEF TagsStored
  <2>2. Whole(line) /\ written = RowsOf(w)
    BY <1>1, <1>3, WrittenRows
  <2>3. Len(line) \in Nat /\ DOMAIN line = 1 .. Len(line)
    BY <1>1, InputFacts, VectorFacts
  <2>4. 1 \in Numbered(line) => TrackedWay(w)
    <3> SUFFICES ASSUME 1 \in Numbered(line) PROVE TrackedWay(w)
      OBVIOUS
    <3>1. Len(line) >= 1
      BY <2>3 DEF Numbered
    <3>2. Len(line) # 1
      BY <1>3 DEF ends_have_same_id
    <3>3. Len(line) > 1
      BY <2>3, <3>1, <3>2
    <3> QED
      BY <1>3, <3>3 DEF TrackedWay
  <2> HIDE DEF written
  <2>5. ASSUME Regular(w)
        PROVE  /\ NumbersBetween(w, written) /\ NumbersOnce(w, written)
               /\ \A r \in written : LiesAtItsNumber(r)
    <3>1. 1 \in Numbered(line)
      BY <2>5 DEF Regular
    <3>2. RegularWay(w)
      BY <2>1, <2>2, <2>4, <2>5, <3>1 DEF RegularWay
    <3> QED
      BY <2>2, <3>2, RegularNumbers, RegularOnce, RegularPlaces
  <2>6. ASSUME 1 \in Numbered(line), NEW m \in Numbered(line), HouseAt(line, m).kind = "malformed"
        PROVE  written = {}
    BY <2>1, <2>2, <2>4, <2>6, MalformedEndsWay
  <2> QED
    BY <2>5, <2>6 DEF written
<1> QED
  <2>1. ASSUME phase = "done", ~strayed, InOrder
        PROVE  \A w \in DOMAIN input.ways :
            LET line == nodes(w)
                written == {r \in rows : r.way = w}
            IN (type(w) \in Types /\ ~ends_have_same_id(line)) =>
                /\ Regular(w) =>
                    /\ {<<<<r.from, r.to>>, Rank(type(w), r)>> : r \in written} =
                        UNION {{<<p, Rank(type(w), HouseAt(line, p[1])) + i>> :
                                    i \in Steps(type(w), Rank(type(w), HouseAt(line, p[2]))
                                                        - Rank(type(w), HouseAt(line, p[1])))}
                                : p \in Stretches(line)}
                    /\ \A r, s \in written : Rank(type(w), r) = Rank(type(w), s) => r = s
                    /\ \A r \in written : LiesAtItsNumber(r)
                /\ (1 \in Numbered(line) /\ Cardinality(Numbered(line)) > 1
                     /\ \E i \in Numbered(line) : HouseAt(line, i).kind = "malformed")
                        => written = {}
    BY <1>3, <2>1 DEF NumbersBetween, NumbersOnce
  <2> QED
    BY <1>2, <2>1 DEF NumbersFollowWays

\* Whatever the ways, the tags and the places are: a regular way gets exactly the
\* numbers between those of neighbouring nodes, each of them once and at its place on
\* the line; a malformed number ends its way; and what is added to a letter is one.
THEOREM NumbersFollowTheirWays == Spec => []NumbersFollowWays
<1>1. Init => RowsInv /\ IndexInv /\ AddrInv
  <2>1. Init => RowsInv /\ IndexInv
    BY DEF Init, RowsInv, IndexInv, StrictlyAscending, Entries
  <2> QED
    BY <2>1, InitInv
<1>2. AddrInv /\ IndexInv /\ RowsInv /\ [Next]_vars => AddrInv' /\ IndexInv' /\ RowsInv'
    BY StepInv, IndexStep, RowsStep
<1>3. AddrInv /\ IndexInv /\ RowsInv => NumbersFollowWays
    BY NumbersFollow
<1> QED
    BY <1>1, <1>2, <1>3, PTL DEF Spec
=============================================================================
