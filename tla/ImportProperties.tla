-------------------------- MODULE ImportProperties --------------------------
(***************************************************************************)
(* What an import has to achieve: the tables are those of the data set     *)
(* (OsmData!Imported, from which DiffImport starts), every relation is     *)
(* written with all its members, and the append mode finds what it needs.  *)
(***************************************************************************)
EXTENDS Import

Strip(rows) == {[r EXCEPT !.run = 0] : r \in rows}

\* The tables of a data set with the options it is imported with.
Result(i) == [t \in Wanted(i.options) |->
    IF t = "line" /\ ~i.options.updateable
    THEN {row \in Imported(i.data, i.options.areas)[t] : i.data.way[row.id].tagged}
    ELSE Imported(i.data, i.options.areas)[t]]

\* What pass 2 has read, and the members a relation still waits for.
Reading == pc = "pass2"
Read == {<<File[k].kind, File[k].id>> : k \in 1..pos - 1}
Mems(rel) == data.rel[rel].mems
Missing(rel) == {i \in Tracked(Mems(rel)) : <<Mems(rel)[i].kind, Mems(rel)[i].ref>> \notin Read}
Waiting == {rel \in DOMAIN data.rel : Missing(rel) # {}}
MembersOf(rel) == {<<Mems(rel)[i].kind, Mems(rel)[i].ref>> : i \in Tracked(Mems(rel))}

\* Pass 2 counts the members of every relation correctly, whatever relations
\* share them and even if a relation names one twice; it hands over a relation
\* once, when the last member has come, with all of them in the stash
\* (get_member_way() is not tested for a null pointer); and the stash holds
\* exactly the objects that are still needed.
MembersAtHand ==
    Reading =>
        /\ \A rel \in DOMAIN data.rel : manager.missing[rel] = Cardinality(Missing(rel))
        /\ \A j, k \in DOMAIN manager.complete :
                manager.complete[j] = manager.complete[k] => j = k
        /\ {manager.complete[k] : k \in DOMAIN manager.complete} =
                {rel \in DOMAIN data.rel \ Waiting : Tracked(Mems(rel)) # {}}
        /\ manager.lost = {}
        /\ manager.stash = Read \cap UNION {MembersOf(rel) : rel \in Waiting}

\* std::equal_range is only specified for a vector in which what is less than
\* the id comes first and what is greater comes last.
Partitioned(s, id) ==
    \A j, k \in DOMAIN s : j < k =>
        /\ s[k].member < id => s[j].member < id
        /\ s[j].member > id => s[k].member > id

\* The objects that were written and may get tags of a street.
Receivers ==
    {<<"node", n>> : n \in {n \in DOMAIN data.node : data.node[n].tagged}}
    \cup {<<"way", w>> : w \in {w \in DOMAIN data.way :
                WritesLine(w) \/ (options.areas /\ data.way[w].area)}}
    \cup {<<"relation", rel>> : rel \in IF options.areas THEN RelAreas(data) ELSE {}}
StreetsOf(kind, id) ==
    IF ~options.streets THEN {}
    ELSE {rel \in input.streets : \E i \in DOMAIN Mems(rel) :
            Mems(rel)[i].kind = kind /\ Mems(rel)[i].ref = id}
TagsFor(kind, id) == {a[3] : a \in {a \in applied : a[1] = kind /\ a[2] = id}}

\* The members of associatedStreet relations get the tags of one of theirs, and
\* nobody else gets any, if the order in which the members were tracked happens
\* to suit the search: nobody calls prepare_for_lookup() for these relations
\* (src/pgimporter.cpp:459).  Otherwise an object may get none or those of a
\* street it does not belong to.
StreetTags ==
    pc = "close" => \A kind \in Kinds : \A id \in Nodes \cup Ways \cup Rels :
        Partitioned(streets[kind], id) =>
            IF <<kind, id>> \in Receivers /\ StreetsOf(kind, id) # {}
            THEN Cardinality(TagsFor(kind, id)) = 1 /\ TagsFor(kind, id) \subseteq StreetsOf(kind, id)
            ELSE TagsFor(kind, id) = {}

\* Whenever the import is killed or fails, and whatever was imported before,
\* every table is empty or complete (one COPY is one statement), and the rows
\* of a table that is being sorted are in the table or in its copy.
WholeTables ==
    LET Whole(rows, t) == rows = {} \/
            \E i \in Troubled \cup {input} : t \in Wanted(i.options) /\ Strip(rows) = Result(i)[t]
    IN  /\ \A t \in Tables : Whole(db[t].saved, t)
        /\ \A t \in DOMAIN left : Whole(left[t], t)
        /\ pc = "close" => \A t \in Wanted(options) : t \in created \cup DOMAIN left

\* All nodes of the way are in the file.
HasItsNodes(w) == \A i \in DOMAIN data.way[w].refs : data.way[w].refs[i] \in DOMAIN data.node

\* When the append mode starts, it finds the tables of this data set, from this
\* import, and a location for every node; except that
\*   - the rest of a killed import makes every later one fail that orders the
\*     same table, so that there is no append mode,
\*   - an index type without dump leaves an empty flat nodes file,
\*   - after an import with --one, without --areas or with neither kind of node
\*     storage, tables of an earlier import are taken for its own.
\* Without such an earlier import it does not get through a diff: it needs
\* untagged_nodes, which --flat-nodes alone does not make (src/pgimporter.cpp:288
\* says that it enables updates), and planet_osm_polygon, even if no areas are
\* wanted.  And an import that does not come to its end was killed, lacks a node
\* of a way, cannot dump its index, or meets what a killed one has left.
AppendReady ==
    /\ pc \in {"append", "no append"} =>
        /\ \A t \in Wanted(options) : t \in created /\
                db[t].saved = {[row EXCEPT !.run = run] : row \in Result(input)[t]}
        /\ options.geohash => DOMAIN left \cap Wanted(options) \cap Geometric = {}
    /\ pc = "append" /\ options.updateable =>
        \/ options.flat /\ options.index \in Dumpable /\ DOMAIN flat = Nodes
                /\ \A n \in DOMAIN data.node : flat[n] = data.node[n].loc
        \/ options.flat /\ options.index \notin Dumpable
                /\ \A n \in DOMAIN flat : flat[n] = NoLoc
        \/ ~options.flat /\ options.untagged
                /\ \A n \in DOMAIN data.node : \E t \in {"point", "untagged"} :
                        PointRow(n, data.node[n].loc, run) \in db[t].saved
        \/ ~options.flat /\ ~options.untagged /\ run > 1
    /\ pc = "append" => (options.untagged /\ options.updateable /\ options.areas) \/ run > 1
    /\ pc = "no append" => ~options.untagged \/ ~options.updateable \/ ~options.areas
    /\ pc = "dead" =>
        \/ why = "killed"
        \/ why = "missing location" /\ \E w \in DOMAIN data.way : ~HasItsNodes(w)
        \/ why = "no dump" /\ options.flat /\ options.updateable
        \/ why = "left over" /\ options.geohash /\ run > 1
=============================================================================
