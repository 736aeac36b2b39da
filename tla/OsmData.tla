------------------------------ MODULE OsmData ------------------------------
(***************************************************************************)
(* Data sets, the rows that stand for them in the tables, and the tables   *)
(* an import makes of a data set: the append mode starts from them, the    *)
(* model of the import is compared with them.                              *)
(***************************************************************************)
EXTENDS Integers, Sequences, FiniteSets

CONSTANTS
    Nodes, Ways, Rels,  \* object ids
    Locs,               \* valid locations
    NoLoc               \* osmium::Location{}

ASSUME IdsAssumption == Nodes \cup Ways \cup Rels \subseteq Nat \ {0}
ASSUME NoLocAssumption == NoLoc \notin Locs
-----------------------------------------------------------------------------
(* Geometries.  The points of a line are tagged with their position, and so *)
(* are the parts of a collection: {} is the empty geometry, and a point or  *)
(* part that is there twice makes no difference.                            *)

Line(refs, Loc(_)) == {<<i, Loc(refs[i])>> : i \in DOMAIN refs}
Complete(line) == \A p \in line : p[2] # NoLoc
\* create_linestring() does not accept fewer than two different points in a row;
\* add_geometry() then goes on with the empty geometry.
Linestring(line) == IF Cardinality({p[2] : p \in line}) < 2 THEN {} ELSE line

(* Rows.  Every row carries the run that inserted it, which no query looks  *)
(* at: two rows that differ in nothing else are a duplicated object.        *)

PointRow(n, loc, r) == [id |-> n, loc |-> loc, run |-> r]
LineRow(w, line, r) == [id |-> w, geom |-> line, run |-> r]
NodeWayRows(w, refs, r) ==
    {[way |-> w, node |-> refs[i], pos |-> i, run |-> r] : i \in DOMAIN refs}
MemberRows(rel, mems, kind, r) ==
    {[rel |-> rel, member |-> mems[i].ref, pos |-> i, run |-> r] :
        i \in {i \in DOMAIN mems : mems[i].kind = kind}}
RelationRow(rel, points, lines, r) ==
    [id |-> rel, points |-> points, lines |-> lines, run |-> r]
\* The id of an area is the id of the way, or minus the id of the relation.
AreaRow(id, geom, r) == [id |-> id, geom |-> geom, run |-> r]

Tables == {"point", "untagged", "node_ways", "node_relations",
           "way_relations", "relation_relations", "line", "polygon",
           "relations"}
MemberTables == {"node_relations", "way_relations", "relation_relations"}
TableOf(kind) ==
    CASE kind = "node" -> "node_relations"
      [] kind = "way" -> "way_relations"
      [] kind = "relation" -> "relation_relations"
Kinds == {"node", "way", "relation"}

\* The tables are destroyed in the reverse order of their declaration.
CloseOrder == <<"relations", "polygon", "line", "relation_relations",
                "way_relations", "node_relations", "node_ways", "untagged", "point">>
-----------------------------------------------------------------------------
(* The database before the diff.  A data set has the fields node, way and   *)
(* rel, functions from ids to objects, and late, the ways an earlier diff   *)
(* has written (DiffHandler2::way() stores the node list of a way even if   *)
(* locations are missing, ImportHandler::way() does not).                   *)

\* The form of a data set: it is finite, and a member may refer to an object that
\* is not there.
MemberRefs ==
    [kind: {"node"}, ref: Nodes] \cup [kind: {"way"}, ref: Ways]
    \cup [kind: {"relation"}, ref: Rels]
IsDataSet(data) ==
    /\ DOMAIN data.node \subseteq Nodes /\ DOMAIN data.way \subseteq Ways
    /\ DOMAIN data.rel \subseteq Rels /\ data.late \subseteq DOMAIN data.way
    /\ IsFiniteSet(DOMAIN data.node) /\ IsFiniteSet(DOMAIN data.way)
    /\ IsFiniteSet(DOMAIN data.rel)
    /\ \A n \in DOMAIN data.node : data.node[n] \in [loc: Locs, tagged: BOOLEAN]
    /\ \A w \in DOMAIN data.way :
            data.way[w] \in [refs: Seq(Nodes), tagged: BOOLEAN, area: BOOLEAN]
    /\ \A rel \in DOMAIN data.rel :
            data.rel[rel] \in [mems: Seq(MemberRefs), mp: BOOLEAN]

LocIn(data, n) == IF n \in DOMAIN data.node THEN data.node[n].loc ELSE NoLoc
WayLine(data, w) == Line(data.way[w].refs, LAMBDA n : LocIn(data, n))

\* ImportHandler::way() leaves out ways that are incomplete or degenerated.
ImportedWays(data) ==
    {w \in DOMAIN data.way \ data.late :
        Len(data.way[w].refs) >= 2 /\ Complete(WayLine(data, w))}

\* A relation member that is in the data set.
HasMember(data, m) ==
    CASE m.kind = "node" -> m.ref \in DOMAIN data.node
      [] m.kind = "way" -> m.ref \in DOMAIN data.way
      [] m.kind = "relation" -> m.ref \in DOMAIN data.rel
MembersAt(mems, kind) == {i \in DOMAIN mems : mems[i].kind = kind}
Points(data, mems) ==
    {<<i, LocIn(data, mems[i].ref)>> : i \in MembersAt(mems, "node")}
Lines(data, mems) ==
    {<<i, WayLine(data, mems[i].ref)>> : i \in MembersAt(mems, "way")}

\* RelationCollector asks for nodes and ways, not for relations.  It writes a
\* relation when the last of them arrives, so one without any is never written,
\* and neither is one with a way that gives no line.
Tracked(mems) == MembersAt(mems, "node") \cup MembersAt(mems, "way")
GivesLine(data, w) ==
    Complete(WayLine(data, w)) /\ Linestring(WayLine(data, w)) # {}
ImportedRels(data) ==
    {rel \in DOMAIN data.rel :
        LET mems == data.rel[rel].mems
        IN /\ Tracked(mems) # {}
           /\ \A i \in Tracked(mems) : HasMember(data, mems[i])
           /\ \A i \in MembersAt(mems, "way") : GivesLine(data, mems[i].ref)}

\* The area of a way, and of a multipolygon relation: its outer and inner ways.
WayAreas(data) == {w \in DOMAIN data.way : data.way[w].area}
AreaOfWay(data, w) == {<<w, WayLine(data, w)>>}
RelAreas(data) ==
    {rel \in DOMAIN data.rel :
        LET mems == data.rel[rel].mems
        IN /\ data.rel[rel].mp /\ MembersAt(mems, "way") # {}
           /\ \A i \in MembersAt(mems, "way") : HasMember(data, mems[i])}
AreaOfRel(data, rel) ==
    {<<data.rel[rel].mems[i].ref, WayLine(data, data.rel[rel].mems[i].ref)>> :
        i \in MembersAt(data.rel[rel].mems, "way")}

Imported(data, areas) == [t \in Tables |->
    CASE t = "point" ->
            {PointRow(n, data.node[n].loc, 0) :
                n \in {n \in DOMAIN data.node : data.node[n].tagged}}
      [] t = "untagged" ->
            {PointRow(n, data.node[n].loc, 0) :
                n \in {n \in DOMAIN data.node : ~data.node[n].tagged}}
      [] t = "line" ->
            {LineRow(w, Linestring(WayLine(data, w)), 0) : w \in ImportedWays(data)
                \cup {w \in data.late : data.way[w].tagged}}
      [] t = "node_ways" ->
            UNION {NodeWayRows(w, data.way[w].refs, 0) :
                w \in ImportedWays(data) \cup data.late}
      [] t \in MemberTables ->
            UNION {MemberRows(rel, data.rel[rel].mems,
                              CHOOSE k \in Kinds : TableOf(k) = t, 0) :
                rel \in DOMAIN data.rel}
      [] t = "relations" ->
            {RelationRow(rel, Points(data, data.rel[rel].mems),
                         Lines(data, data.rel[rel].mems), 0) :
                rel \in ImportedRels(data)}
      [] t = "polygon" ->
            IF ~areas THEN {}
            ELSE {AreaRow(w, AreaOfWay(data, w), 0) : w \in WayAreas(data)}
                 \cup {AreaRow(-rel, AreaOfRel(data, rel), 0) :
                            rel \in RelAreas(data)}]
=============================================================================
