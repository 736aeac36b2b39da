--------------------------- MODULE DiffProperties ---------------------------
(***************************************************************************)
(* What the append mode has to achieve.  The yardstick is the data set     *)
(* that one gets by applying the change file to the old data set, and the  *)
(* tables the handlers would write for it.                                 *)
(***************************************************************************)
EXTENDS DiffImport

\* Change files and what they do to a data set.
Has(changes, kind, id) ==
    \E k \in DOMAIN changes : changes[k].kind = kind /\ changes[k].id = id
Get(changes, kind, id) ==
    changes[CHOOSE k \in DOMAIN changes :
                changes[k].kind = kind /\ changes[k].id = id]
WrittenBy(changes, kind) ==
    {changes[k].id : k \in {k \in DOMAIN changes :
        changes[k].kind = kind /\ ~changes[k].deleted}}
Replace(before, changes, kind, Result(_)) ==
    [id \in {id \in DOMAIN before : ~Has(changes, kind, id)} \cup WrittenBy(changes, kind) |->
        IF Has(changes, kind, id) THEN Result(Get(changes, kind, id)) ELSE before[id]]
After(data, changes) == [
    node |-> Replace(data.node, changes, "node",
                LAMBDA c : [loc |-> c.loc, tagged |-> c.tagged]),
    way |-> Replace(data.way, changes, "way",
                LAMBDA c : [refs |-> c.refs, tagged |-> c.tagged, area |-> c.area]),
    rel |-> Replace(data.rel, changes, "relation",
                LAMBDA c : [mems |-> c.mems, mp |-> c.mp]),
    late |-> {w \in data.late : ~Has(changes, "way", w)} \cup WrittenBy(changes, "way")]

InFile(kind, id) == Has(file, kind, id)
Change(kind, id) == Get(file, kind, id)
Written(kind) == WrittenBy(file, kind)
New == After(old, file)

\* Rows without the run that wrote them.
Strip(rows) == {[r EXCEPT !.run = 0] : r \in rows}
Saved(t) == Strip(db[t].saved)
Expected(t) == Imported(New, PolygonTable)[t]

NodeTables == IF FlatNodes THEN {"point"} ELSE {"point", "untagged"}
TopologyTables == MemberTables \cup {"node_ways"}
Transactional == {"relations", "point", "untagged", "line"}

HasRelation == \E k \in DOMAIN file : file[k].kind = "relation"
HasWay == \E k \in DOMAIN file : file[k].kind = "way"

\* Every member that is referred to exists, as in a planet file.
Closed(data) ==
    /\ \A w \in DOMAIN data.way : Complete(WayLine(data, w))
    /\ \A w \in DOMAIN data.way : Len(data.way[w].refs) >= 2
    /\ \A rel \in DOMAIN data.rel : \A i \in DOMAIN data.rel[rel].mems :
            HasMember(data, data.rel[rel].mems[i])
Healthy == Closed(old) /\ Closed(New)

\* Nodes before ways before relations, as the handlers expect it.
Rank(kind) == CASE kind = "node" -> 1 [] kind = "way" -> 2 [] kind = "relation" -> 3
SortedFile == \A j, k \in DOMAIN file : j < k => Rank(file[j].kind) <= Rank(file[k].kind)

\* Objects that are not in the file but have a member in it.  Ways are reached
\* only from relation(); of every container the smallest id is left out.
First(S) == {id \in S : \A other \in S : id <= other}
RefsOf(w) == {New.way[w].refs[i] : i \in DOMAIN New.way[w].refs}
MemsOf(rel, kind) ==
    {New.rel[rel].mems[i].ref : i \in MembersAt(New.rel[rel].mems, kind)}
AffectedWays ==
    {w \in DOMAIN New.way : ~InFile("way", w) /\ RefsOf(w) \cap Written("node") # {}}
Reached ==
    IF HasRelation THEN AffectedWays \ First(AffectedWays) ELSE {}
AffectedRels ==
    {rel \in DOMAIN New.rel : ~InFile("relation", rel) /\
        \/ MemsOf(rel, "node") \cap Written("node") # {}
        \/ MemsOf(rel, "way") \cap (Written("way") \cup Reached) # {}}
-----------------------------------------------------------------------------
Point == [id: Nodes, loc: Locs, run: 0 .. MaxRuns]

TypeOK ==
    /\ run \in 1 .. MaxRuns
    /\ pc \in {"pass1", "pass2", "ways", "rels", "incomplete", "close", "done", "dead"}
    /\ why \in {"-", "not in COPY mode", "missing location",
                "single point", "empty line", "no polygon table",
                "lost COPY", "killed"}
    /\ pos \in 1 .. Len(file) + Len(CloseOrder) + 1
    /\ progress \in {"POINT", "WAY", "RELATION"}
    /\ DOMAIN db = Tables
    /\ \A t \in {"point", "untagged"} : db[t] \in TableType(Point)
    /\ \A t \in Tables : {db[t].copy, db[t].stream, db[t].begun} \subseteq BOOLEAN
    /\ flat \in [Nodes -> Locs \cup {NoLoc}]
    /\ cache \in [Nodes -> Locs \cup {NoLoc}]
    /\ pendWays \in Seq(Ways \cup {0}) /\ waysIdx \in Nat \ {0}
    /\ pendRels \in Seq(Rels \cup {0}) /\ relsIdx \in Nat \ {0}
    /\ todo \subseteq Ways \cup Rels
    /\ members \subseteq Ways
    /\ \A a \in mpBuffer : a.id \in Ways \cup {-rel : rel \in Rels}
    /\ \A a \in updated : a.id \in Rels

\* A finished run has replaced the nodes exactly: nothing is missing, nothing
\* of an old version is left, no matter whether a node got or lost its tags
\* and moved from one table to the other (DiffHandler1::node() looks into the
\* untagged table first).
NodesFollowDiff ==
    pc = "done" => \A t \in NodeTables : Saved(t) = Expected(t)

\* The same for the tables that say which way has which nodes and which
\* relation has which members, although they are not under a transaction.
TopologyFollowsDiff ==
    pc = "done" => \A t \in TopologyTables : Saved(t) = Expected(t)

\* Once the first way is handled, every location that is looked up is the
\* one after the diff: for nodes of the diff the tables would still give the
\* old one, because the lookups go through connections of their own.
CurrentLocations ==
    progress # "POINT" /\ pc # "dead" =>
        \A n \in DOMAIN New.node : Lookup(n) = New.node[n].loc

StaleLines ==
    {r.id : r \in {r \in db["line"].saved :
        r.id \in DOMAIN New.way /\ r.geom # WayLine(New, r.id)}}

\* The line table has exactly the ways it should have.  If the diff contains a
\* relation, their lines follow their nodes, apart from the way that happens to
\* have the smallest id of those that have to follow.
LinesFollowNodes ==
    pc = "done" =>
        /\ {r.id : r \in db["line"].saved} = {r.id : r \in Expected("line")}
        /\ StaleLines \subseteq AffectedWays \ Reached

\* update_way(), "Update all ways whose node locations have changed without any
\* direct changes to the way" (diff_handler2.hpp:191).
AllLinesFollowNodes ==
    pc = "done" => StaleLines = {}

ExpectedRels ==
    {RelationRow(rel, Points(New, New.rel[rel].mems), Lines(New, New.rel[rel].mems), 0) :
        rel \in DOMAIN New.rel}
StaleRels == {r.id : r \in Strip(db["relations"].saved) \ ExpectedRels}

\* Likewise for the relations that the diff does not contain: their collections
\* follow the members, apart from the smallest one and from those that depend
\* on a way that did not follow.  (An import would leave out a relation with a
\* way whose nodes have come to lie in one place; the append mode keeps it.)
RelationsFollowMembers ==
    pc = "done" =>
        /\ {r.id : r \in db["relations"].saved} = DOMAIN New.rel
        /\ \A rel \in StaleRels \ Written("relation") :
                \/ rel \in First(AffectedRels)
                \/ MemsOf(rel, "way") \cap (AffectedWays \ Reached) # {}

\* Relations of the diff get the current locations of their nodes.
WrittenRelationsHavePoints ==
    pc = "done" =>
        \A r \in db["relations"].saved : r.id \in Written("relation") =>
            r.points = Points(New, New.rel[r.id].mems)

\* "geom_lines of type MultiLineString for the relations table"
\* (doc/scheme.txt:62): the ways of an inserted relation are in it.
WrittenRelationsHaveLines ==
    pc = "done" =>
        \A r \in db["relations"].saved : r.id \in Written("relation") =>
            r.lines = Lines(New, New.rel[r.id].mems)

\* "This handler deletes all objects with version > 1 from the tables"
\* (diff_handler1.hpp:19): when the first new version is to be inserted, no
\* table has an old one, apart from the areas of relations.
Replaced(t) ==
    LET Ids(kind) == {file[k].id : k \in {k \in DOMAIN file :
                        file[k].kind = kind /\ (file[k].deleted \/ ~file[k].v1)}}
    IN  CASE t \in {"point", "untagged"} -> Ids("node")
          [] t = "line" -> Ids("way")
          [] t = "relations" -> Ids("relation")
          [] t = "polygon" -> Ids("way")
OldVersionsDeleted ==
    pc = "pass2" /\ pos = 1 =>
        \A t \in NodeTables \cup {"line", "relations"}
                \cup IF Areas THEN {"polygon"} ELSE {} :
            {r.id : r \in Live(t)} \cap Replaced(t) = {}

\* The containers never ask for an object that the diff deletes, and of those
\* that it contains only for objects the file has not come to yet: an object
\* that was inserted by this run is not updated by it.  In a first application
\* DiffHandler1 has already deleted the rows that would lead to such objects; in
\* a second one the new objects of the first are there.
NothingUpdatedTwice ==
    /\ pc = "ways" => todo \cap {id \in Ways : InFile("way", id)} = {}
    /\ pc = "rels" => todo \cap {id \in Rels : InFile("relation", id)} = {}

\* The asserts of postgres_table.cpp: no DELETE or UPDATE on a connection that
\* is in COPY.
ModifyOutsideCopy ==
    /\ pc = "pass1" => \A t \in Tables : CanModify(db[t])
    /\ pc = "ways" => CanModify(db["line"]) /\ CanModify(db["polygon"])
    /\ pc = "rels" => CanModify(db["relations"]) /\ CanModify(db["polygon"])

\* A query that libpq answers by ending COPY loses rows.  The handlers switch
\* the modes early enough, except for node_ways if the diff has ways and no
\* relation, or is not sorted.
NoRowsLost ==
    \A t \in Tables : db[t].copy /\ ~db[t].stream =>
        (t = "node_ways" /\ HasWay /\ ~HasRelation) \/ ~SortedFile

\* The four tables with a transaction change for other connections only when
\* they are destroyed at the end of main().
ChangesAtTheEnd ==
    [][\A t \in Transactional :
        db'[t].saved # db[t].saved => Closing(t)]_vars

\* What other objects consist of is never touched, not even for a moment and
\* not by a crash: their nodes and members stay committed all the time.
Bystander(t, r) ==
    CASE t \in {"point", "untagged"} -> ~InFile("node", r.id)
      [] t = "node_ways" -> ~InFile("way", r.way)
      [] t \in MemberTables -> ~InFile("relation", r.rel)
BystandersUntouched ==
    \A t \in {"point", "untagged"} \cup TopologyTables :
        {r \in db[t].saved : Bystander(t, r)} =
            {r \in Imported(old, PolygonTable)[t] : Bystander(t, r)}

\* Applying a diff again, after a crash or not, duplicates new objects only:
\* "If the update adds new geometries, these geometries might be duplicated"
\* (doc/good_to_now.txt:8).
Added(kind) == {file[k].id : k \in {k \in DOMAIN file :
                    file[k].kind = kind /\ file[k].v1 /\ ~file[k].deleted}}
Owner(t, r) ==
    CASE t \in {"point", "untagged"} -> <<"node", r.id>>
      [] t = "line" -> <<"way", r.id>>
      [] t = "node_ways" -> <<"way", r.way>>
      [] t \in MemberTables -> <<"relation", r.rel>>
      [] t = "relations" -> <<"relation", r.id>>
OnlyAddedDuplicated ==
    \A t \in Tables \ {"polygon"} : \A r, s \in db[t].saved :
        r # s /\ [r EXCEPT !.run = 0] = [s EXCEPT !.run = 0] =>
            Owner(t, r)[2] \in Added(Owner(t, r)[1])

\* A crash at any point followed by a complete run leaves all nodes of the diff
\* in place; old rows survive only of nodes that lost their tags, if the two
\* node tables were not committed together.
NodesSurviveCrash ==
    pc = "done" =>
        \A t \in NodeTables :
            /\ Expected(t) \subseteq Saved(t)
            /\ \A r \in Saved(t) \ Expected(t) :
                    t = "point" /\ run > 1
                        /\ r.id \in Written("node") /\ ~New.node[r.id].tagged

\* Areas: every area has a row, and a row without area is an old one of a
\* relation of the file, because DiffHandler1 does not look for negative ids;
\* what it deletes instead is the area of the way with the same number.
AreasFollowDiff ==
    pc = "done" /\ Areas =>
        LET has == {r.id : r \in db["polygon"].saved}
            should == {r.id : r \in Expected("polygon")}
        IN  /\ \A id \in should \ has : InFile("relation", id)
            /\ \A id \in has \ should : -id \in Rels /\ InFile("relation", -id)

\* The areas of ways of the diff have the current geometry, unless a relation
\* with the number of the way has been assembled again.
WrittenWayAreas ==
    pc = "done" /\ Areas =>
        \A w \in Written("way") : New.way[w].area =>
            \/ AreaRow(w, AreaOfWay(New, w), 0) \in Saved("polygon")
            \/ w \in AffectedRels

\* "Buffer for assembled areas which required an update due to changes to their
\* members" (diff_handler2.hpp:73): the areas that are assembled again replace
\* the ones of their relations.
UpdatedAreasFollow ==
    pc = "done" /\ Areas =>
        \A rel \in AffectedRels \ First(AffectedRels) :
            rel \in RelAreas(New) /\ rel \in RelAreas(old) =>
                AreaRow(-rel, AreaOfRel(New, rel), 0) \in Saved("polygon")

\* Every premature end has a reason in the input.
FailuresExplained ==
    /\ why = "lost COPY" => (HasWay /\ ~HasRelation) \/ ~SortedFile
    /\ why = "not in COPY mode" => ~SortedFile
    /\ why = "no polygon table" => ~PolygonTable /\ ~Areas /\ (HasWay \/ HasRelation)
    /\ why \in {"missing location", "single point"} => ~Healthy
    /\ why = "empty line" => \E w \in Written("way") : Change("way", w).refs = <<>>

\* A sorted diff for complete data that contains a relation, if the import has
\* created the table of the areas, and every such diff of nodes only, is applied
\* to the end.
Finishes ==
    (/\ pc = "pass1" /\ Healthy /\ SortedFile
     /\ HasWay => HasRelation
     /\ HasRelation => PolygonTable) ~> pc = "done"
=============================================================================
