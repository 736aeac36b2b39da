# Cerepso in TLA+

Cerepso imports OpenStreetMap data into a PostgreSQL/PostGIS database and keeps
the database up to date with change files ("diffs"). This directory contains TLA+
modules translated from its source, TLC configurations that check them on small
instances, and proofs that TLAPS checks. Paths below are relative to the root of
the repository (`src/…` is the program, `contrib/…` the libraries beside it).

Run a check with `tlc -config MCDiff.cfg MCDiffImport`, and a proof with
`tlapm DiffRowsProofs.tla`.

## 1. Inventory

The program is one thread; `main()` in `src/pgimporter.cpp` builds the tables
and handlers and lets libosmium call the handlers object by object. It has no
locks. What makes it hard is the number of connections: every `PostgresTable` is a
connection of its own with its own transaction mode, and several connections
look at the same table.

| Component | State | Operations | Talks to |
|---|---|---|---|
| `main()` | options, tables, handlers | append branch (359–428), import branch (428–488) | everything, by calls |
| `postgres_drivers::Table`, `PostgresTable` | `m_copy_mode`, `m_begin`, the connection | `send_begin`, `start_copy`, `send_line`, `end_copy`, `commit`, prepared queries and updates, destructor | PostgreSQL |
| `PostgresHandler` | – | rows for nodes, ways, areas, members | tables |
| `DiffHandler1` (pass 1) | – | `node`, `way`, `relation` delete old versions | tables |
| `DiffHandler2` (pass 2) | `m_progress`, two pending containers and their indices, two area buffers | `node`, `way`, `relation`, `area`, `write_new_nodes`, `write_new_ways`, `after_relations`, `update_way`, `update_relation`, `incomplete_relation`, `flush` | tables, location handler, area manager, expiry |
| `DatabaseLocationHandler`, `FileBasedLocationHandler` | cache; file | `node`, `way`, `get_node_location` | two read-only connections; flat nodes file |
| `MultipolygonManager`, `Assembler` (libosmium) | members, output buffer | called by `main()` and `DiffHandler2` | calls `area()` back |
| `ImportHandler`, `RelationCollector`, `HandlerCollection` | members of relations | the two passes of an import | tables |
| `ExpireTilesQuadtree` | set of dirty tiles | expire points, segments, lines; write list | file |
| `AddrInterpolationHandler`, `RequiredNodesTracking`, `TagsStorage` | sorted ids, tags | two passes | its table |
| `AssociatedStreetRelationManager`, patched members database | members | track, sort, find | `ImportHandler` |
| option and column parsing, encoders (`contrib/wkbhpp`, …), text parsers | – | pure | – |

Hard behaviours, and what correctness means for them:

* **Modes.** A connection is in COPY or not, in a transaction or not. DELETE and
  UPDATE need a connection outside of COPY, new rows need one inside. The modes
  are switched by the first object of the next type (`write_new_nodes`,
  `write_new_ways`), not where the rows are written. A query on a connection
  in COPY makes libpq end COPY, and the rows on the way are lost.
* **Visibility.** Old versions are deleted and new ones inserted in
  transactions; node locations are looked up through two more connections that see
  committed rows only. The cache has to make up for the difference.
* **Propagation.** A moved node changes ways that are not in the diff, these
  change relations; both are collected in containers that also have to drop the
  objects the diff contains.
* **Crashes and repetition.** Four tables have a transaction each, five commit
  every statement, and the flat nodes file is changed at once. The documentation
  allows a diff to be applied twice.
* **Failures.** Data may be incomplete; what is not caught ends the program in
  the middle.

* **Counting members.** A relation of an import is written when the last of
  its members has been read; relations share members, and one may name a member
  twice. Associated streets are searched in a database nobody sorts.
* **Resumed and unsorted searches.** `RequiredNodesTracking` continues where its
  last hit was, and its loops end at what lies behind the vector.
* **Killed imports.** Every statement outside of COPY is committed at once, sorting a
  table by geohash takes three of them, and the flat nodes file is truncated
  before it is filled.
* **Numbers at their limits.** Tile ids interleave two tile numbers in an `int`,
  ids of all zoom levels share one set, a segment may cross the 180th
  meridian, positions of members have 16 bits.
* **Text within text within text.** A tag is escaped for hstore and the hstore
  for COPY; geometries are written before the numbers of their parts are known,
  in a writer an exception may leave half-filled; columns depend on options and
  on a style file, and every field has to be in step with them.

All hazards, each with its line and the properties about it, are in
`PROJECT.json`.

## 2. Modules

| Module | Models | Role |
|---|---|---|
| `Pending` | pure operations on a container of ids: sort, unique, resumed search, work-off loop | operators |
| `PendingList` | one container element by element: `Push`, `Sort`, `Handle`, `CleanUp`, `Visit`, `Finish` | component |
| `WorkSet` | what a container promises: a set of objects, each done once in ascending order | abstract specification |
| `PgTable` | one connection and its table: committed rows, visible rows, lines in COPY, modes | operators on a record |
| `DiffImport` | the append mode: both passes, what comes after, destructors, kill and second run | composes `PgTable` (nine of them) and `Pending` |
| `DiffProperties` | the data set after a diff, and properties that compare tables with it | properties |
| `OsmData` | a data set, geometries, and the rows an import writes for it | operators, shared by `DiffImport` and `Import` |
| `RelationsManager` | members database, stash and counters of relations | operators on a record |
| `Import` | the import: tables, two passes, relations, streets, index dump, destructors, kill and repetition, start of the append mode | composes `PgTable`, `RelationsManager` (twice) and `OsmData` |
| `ImportProperties` | what an import has to achieve | properties |
| `RequiredNodes` | `RequiredNodesTracking`: the resumed lookup | part of a component |
| `AddrInterpolation` | both passes of address interpolation | composes `RequiredNodes` and `TagsStorage` |
| `ExpireTiles` | `ExpireTilesQuadtree` and what is handed to it | component |
| `ExpireProperties` | which tiles a line passes, tile by tile | reference definition, properties |
| `TextFormats` | escaping, COPY, hstore and array texts, both parsers | operators |
| `WkbWriter` | `wkbhpp::WKBWriter` | operators on a record |
| `Columns` | style file and columns of every table | operators |
| `Rows` | the handlers that turn objects into lines of COPY | composes the three above |
| `RowsProperties` | what the database reads in these lines | properties |
| `PendingListProofs` | theorems about `PendingList` | proofs |
| `DiffRowsProofs` | modes of the tables; every action as one of eight kinds of move of rows; rows of objects the file does not name; COPY that is not lost | proofs |
| `DiffVersionsProofs` | old versions in a first application; node and member tables against the data set after the diff; locations, whole lines, premature ends | proofs |
| `DiffFollowProofs` | lines and relations, whose rows are rewritten, also those of ways and relations the file does not name | proofs |
| `DiffDuplicatesProofs` | types; what is done more than once and what is not: updates, rows of several runs | proofs |
| `DiffAreasProofs` | the table of the areas, from the buffers to its rows | proofs |
| `AddrInterpolationProofs` | both searches of address interpolation, when it reads tags that are not there, and the numbers it writes | proofs |
| `ExpireProofs` | the walk along a line covers it and stays at it; tiles that have to be and may be in the set; ids and the list that is written | proofs |
| `MCPendingList`, `MCDiffImport`, `MCImport`, `MCAddrInterpolation`, `MCExpire`, `MCRows` | instances | model checking |

Operators whose names end in a suffix such as `…_LastLost` and whose comment
begins with "Faulty variant" are not part of the model: each is a plausible mistake
at that place which makes one of the properties fail.

### PgTable

The methods of `Table` and of `PostgresTable` are operators on a record. `copy`
is `m_copy_mode`; `stream` is whether the server really is in COPY. They differ
after a query on a connection in COPY, which libpq answers by ending COPY with an
error that nobody looks at. `begun` is `m_begin`. `saved` is what other
connections see.

### Pending, PendingList, WorkSet

`m_pending_ways` and `m_pending_relations` are vectors of ids that are filled in
any order, sorted, crossed out (set to 0) while the sorted diff is read, and
worked off. `PendingList` has one action per push, hit and loop iteration.
A hit of the search is rare: `DiffHandler1` deletes the member rows of every changed
object of the diff, so only objects with version 1 that an earlier application of
the same file has inserted can be in a container and in the file.
`DiffImport` uses the summary `WorkIds` for the loop; `WorkIdsIsLoop` says
that the summary is the loop. `std::sort` and `std::unique` are described by
their result.

### DiffImport

One action per callback:

| Action | Code |
|---|---|
| `Node1`, `Way1`, `Relation1` | `DiffHandler1` |
| `StartPass2` | `prepare_for_lookup()`, constructor of `DiffHandler2` |
| `Node2`, `Way2`, `Way2Deleted`, `Relation2`, `Relation2Deleted` | location handler, `DiffHandler2`, `MultipolygonManager`, in the order of `osmium::apply` |
| `WriteNewNodes`, `WriteNewNodesThrows`; `WriteNewWays`, `UpdateWay`, `StartRelations` | `write_new_nodes()`; `write_new_ways()` before, in and after `work_on_pending_ways()` |
| `FlushAreas` | `area()` called from the output buffer of the manager |
| `AfterRelations`, `UpdateRelation` | `after_relations()`, `update_relation()`, `update_multipolygon_geometry()` |
| `FlushUpdated`, `IncompleteRelations` | the rest of the append branch |
| `CloseTable` | the destructors, in reverse order of declaration |
| `…Throws` | exceptions that leave `main()`: every connection is lost |
| `Crash`, `Restart` | a kill at any point; the same file again |

`WriteNewNodes` and `WriteNewWays` are the first thing the callback of the next
way or relation does; they are actions of their own so that a kill between them is
possible. Nothing else can happen in between, because `pos` has not moved.

Data are abstracted to ids, locations (a few numbers), the presence of tags,
member lists, and "version 1 or not". A geometry is the set of its points, each with
its position. Every row carries the run that inserted it, only to tell
duplicated rows apart. A way is an area or not by a flag of the object, in the
place of the tag and ring checks of libosmium.

The initial tables are what an import of a data set writes (`OsmData!Imported`;
`Import` shows that an import leaves them so), with or without a table of areas
(`PolygonTable`), as the import was given `--areas` or not; rows of ways that an earlier diff has
written (`late`) differ in what they require of the nodes.

### Import, RelationsManager

| Action | Code |
|---|---|
| `OpenTable` | `PostgresTable::init()`, one table after the other |
| `CollectRelation`, `StartPass2` | pass 1: `RelationCollector` and `AssociatedStreetRelationManager`; `prepare_for_lookup()` of the first only |
| `ReadNode`, `ReadWay`, `ReadWayThrows`, `ReadRelation` | pass 2: location handler, `RelationCollector` (with `complete_relation()` for whatever became complete), `ImportHandler`, `MultipolygonManager` |
| `OpenDump`, `Dump`, `DumpThrows` | `dump_index()` of the flat nodes file |
| `CloseCopy`, `CreateTmp`, `CreateTmpThrows`, `DropTable`, `RenameTmp` | destructors of the tables and the order by geohash, statement by statement |
| `Crash`, `ImportAgain`, `StartAppend` | a kill; another import, with other options too; what `--append` opens first |

`RelationsManager` translates the copy of libosmium's class in
`contrib/libosmium_patched`. The members database is a vector of elements;
`find()` is the binary search of `std::equal_range`, step by step, because the database
of the streets is searched without having been sorted. The tables are compared
with `OsmData!Imported`, which is defined from the data set and knows nothing
of the order in which members arrive.

### RequiredNodes, AddrInterpolation

`Pass1Way`, `AfterPass1` (sorting, `std::unique` without `erase`), `HandleNode`
(the resumed lookup and the tags it stores), `StartWays`, `HandleWay`
(`interpolate()` and `add_points_to_str()` as a whole), `Finish`. What is read
behind the vector is a free choice of the model; `strayed` remembers that it has
happened. `LowerBound` is the search by halves of `std::lower_bound` in the index of the
tags, as a function of what is left to be searched. Places on a road are whole metres
on a line and interpolated places exact
fractions; the distance on the sphere that the code uses is out of the model.

### ExpireTiles

One action per caller: `ExpireNode` and `ExpireOldWay` (`DiffHandler1`),
`ExpireWay`, `ExpireRelationNode`, `ExpireRelationWay` (`DiffHandler2`), and
`OutputAndDestroy`. Ids have `IntBits` bits with a sign, and shifts, masks
and the arithmetic shift to the right are those of an `int`. The walk
(`expire_line_segment()`) is translated with exact fractions in the place of
doubles: a location is a point of a grid, with column 0 and column `World` both on
the 180th meridian. The square of the tiles ends at latitude 85.0511, locations are limited
to 85.07 degrees: `Beyond` is the number of points between the two, so that rows
may be negative or too large for the map, as in the code. Conversions to `int` round towards
zero (`Trunc`); north of the map, where the walk may divide by zero or by little, the result may
be outside of `int`, and depends on the machine (`ToInt`). `ExpireProperties` finds the tiles of a line without
walking, by testing every tile. `1 << n` is a power of two, written as a recursive
function (`TwoTo`) so that they can be reasoned about for every exponent.

### TextFormats, WkbWriter, Columns, Rows

A text is a sequence of characters and a row a sequence of tokens, here alone,
because these properties are about characters. `ReadStyleLine` and `OpenTables`
read the style file and create the tables; `handle_node`, `handle_way`,
`handle_area`, `handle_relation` and `add_points_to_str` go through the columns
and append fields (`fill_field()`, and what the caller adds where it declines).
What COPY, hstore and array input make of a text, and what hstore and array
output write, is external: PostgreSQL's documented formats. `HStoreParser` and
`ArrayParser` are folds over the characters, with the state of the parser as
the accumulator.

## 3. Runs

| Run | Instance | States | What it shows |
|---|---|---|---|
| `pending_list` | 4 ids, 4 pushes | 1,355 | the scan is exact; every waiting object but possibly the smallest is done, once; the container implements `WorkSet` |
| `diff` | 5,020 change files, one run | 141,888 | node and member tables equal those of an import of the new data; lines, relations and areas do so up to the exceptions named below; modes; termination |
| `diff_again` | 288 files and databases, 2 runs, kill anywhere | 64,140 | nodes and members of other objects are never touched; a second complete run repairs members and lines; only new objects are duplicated; transactions |
| `diff_troubled` | 13,824 files and data sets with gaps | 192,484 | every failure and every lost row has a reason in the input |
| `import` | 1,030 data sets with options, 2 runs | 75,693 | relations get their members exactly when all are there; tables equal `Imported`; streets as far as the search can; tables are empty or whole after any kill; when the append mode can start |
| `addr_interpolation` | 5,816 files | 61,297 | the resumed lookup is exact as long as it stays within its vector; the interpolated numbers are those of the wiki, at their places |
| `expire` | 4 configurations, 1,073 lines | 38,787 | tiles of the map that a line passes are expired and no others, the list is the pyramid over them, with the named exceptions |
| `rows` | 9 setups | 1,358 | every line has its fields in step with the columns; every tag comes back unchanged; geometries are complete |
| `pending_first`, `lines_stale`, `no_lines`, `updated_area` | parts of the above | – | counterexamples to documented behaviour, see below |

The bounds. Four ids and four pushes give a container a repeated id, a crossed-out
smallest entry, hits before and behind the resumed position, and emptiness.
The line instance has three nodes (one of them tagged), two ways that share
a node, a relation over a node and a way, and a relation over a way and a
relation, so that changes travel node → way → relation; each object is left alone,
changed, deleted or added, a node gains or loses tags, in all combinations
that leave no dangling reference. Two affected ways or relations are needed because
the smallest is left out. The area instance has a closed way, a two-way ring as
multipolygon, a plain relation, and lets the number of the multipolygon coincide
with that of the closed way; it adds a multipolygon and takes a way out of one. Files
with nodes only and the smaller sets of files are also applied to a database without a table of
areas. Two runs suffice for what a repetition does to the tables: the third starts from rows
of the same kind.

`import` combines four groups of inputs: three relations with any of seven member
lists (shared members, one named twice, one that is missing, none that is
tracked); streets whose members are tracked in every order, beside relations
that are none; ways with missing nodes, one node, or two equal ones; and all
options on one small data set, a part of which may also be killed at every step
and be followed by an import with other options. Two imports are enough: what a
third meets is what the second met.

`addr_interpolation` has two groups. For the lookup, files that hold up to four
nodes in every order, and two ways that share nodes, are closed (also closed through
a node the other one has numbered), or have one node. For the numbers, one way over three nodes, first to last or through the
middle, on roads that go on, turn back or stay in one place, where every node has
no number, a text, a malformed or any of several numbers or letters.

`expire` has a map of eight by eight points, with up to three more in the north and in the south
(where tiles are two points high or one), and locations that are beyond these and are moved
back. There are all lines between any of them and
seven fixed ones, in both directions and over the 180th meridian, and two bent
lines, with lists up to zoom level 3. An `int` of six bits makes level 3 what level 16 is
to 32 bits. One geometry is expired in a run: a second one only adds to the set.

`rows` has all texts of up to two of ten characters (those the formats treat
as special, letters that follow a backslash in an escape, a plain one), as value, as
key, as user name and as tag of a street (roles are escaped in the same way and are
tried with tabulators, line breaks and backslashes), which is enough since no
format looks further than one character ahead; positions have three bits, so that a
relation of nine members wraps around; and style files with deleted keys, keys
without a column, a repeated column, a line of blanks and an unknown type.

`CHECK_DEADLOCK FALSE` is set in every configuration: a finished or dead
program does nothing any more.

**Fairness.** `DiffImport` assumes `WF_vars(Step)`: the program is
one thread that never waits for anything but a reply of its database, so as long as
it lives and has a step, it takes one. No fairness is assumed of `Crash` and
`Restart`. `PendingList` assumes weak fairness of the loop only, not of
its being called. `Finishes` holds for complete data and sorted files if a diff
with ways also has a relation and a relation finds a table of areas; otherwise the
program may die (below). The other
modules state no fairness: nothing is claimed of them that needs it.

## 4. Where code and documentation disagree

With a run that shows it:

* `pending_first` – `clean_up_container_and_work_on()` increments the iterator
  before its loop (`src/diff_handler2.cpp:629`): the smallest pending object is not
  updated. `src/diff_handler2.hpp:145` says "for each non-zero element".
* `lines_stale` – ways are worked on only when the first relation arrives
  (`src/diff_handler2.cpp:572`), so a diff without relations leaves every line
  with a moved node as it was. Cf. `src/diff_handler2.hpp:191`.
* `no_lines` – relations written by a diff have empty lines
  (`src/diff_handler2.cpp:289`). Cf. `doc/scheme.txt:62`.
* `updated_area` – areas that are assembled again are written back under the
  wrong id (`src/diff_handler2.cpp:433`). Cf. `src/diff_handler2.hpp:73`.

`LinesFollowNodes`, `RelationsFollowMembers`, `AreasFollowDiff`,
`WrittenWayAreas`, `NoRowsLost` and `FailuresExplained` hold because they name
these behaviours as the only exceptions, together with the missing table of the areas and:

* a diff with ways and without relations leaves `node_ways` in COPY while
  `update_relation()` reads it; its lines are lost and the destructor throws;
* `DiffHandler1::relation()` deletes areas by the id of the relation, not by its
  negative: old areas of relations stay, the area of a way with the same
  number goes (`src/diff_handler1.cpp:86`);
* `update_way()` writes an empty polygon for the area of a way
  (`polygon_start()` of wkbhpp never starts a ring);
* a missing location or a way with a single node ends the program
  (`osmium::invalid_location` and errors of the server are not caught in
  `update_way()` and `update_relation()`);
* a way without nodes makes `send_line()` look at a character before an empty
  string (`contrib/cerepso-postgres-backend/…/table.hpp:245`);
* after a crash between the commits of the node tables, a second run leaves
  an old tagged row of a node that has lost its tags
  (`src/diff_handler1.cpp:48`).

Without a run of their own, but named as exceptions by the properties in
parentheses, or seen while reading:

* *Updates without areas.* `main()` passes the table of the areas to both handlers with or without
  `--areas` (`src/pgimporter.cpp:385`, `:401`), so that `write_new_nodes()` always starts
  COPY for `planet_osm_polygon` (`src/diff_handler2.cpp:548`). An import without `--areas`
  does not create that table (`src/pgimporter.cpp:341`): every diff with a way or a relation
  then ends with an uncaught exception (`FailuresExplained`, `AppendReady`). The help text says that
  `--areas` "disables updateability" (`src/pgimporter.cpp:134`); in fact only a database
  imported with it takes diffs that are more than nodes.
* *Rows of tiles.* `coords_to_tile()` limits latitudes to 85.07 degrees (`src/expire_tiles.cpp:38`),
  outside of the Mercator square, which ends at 85.0511, and never limits the row. South of
  the square rows are `map_width` or more, north of it they are negative (about −20 at zoom
  level 15), and the ids of both are those of tiles at the opposite edge
  (`OnlyTouchedTilesExpired`). Cf. "inside  [0; map_width-1[" in `src/expire_tiles.hpp:123`.
* *Tile expiry.* At zoom level 16 the sign of an `int` makes the rows of the
  southern half negative in the list. A tile is missing if one of another level has
  the same number. A segment that runs north misses the tiles it enters over their
  southern border. A line that leaves the map in the north may also expire tiles in any
  column of the rows it reaches, down to the first row of the map, because numbers are rounded towards zero
  (`StrayTiles`, in `OnlyTouchedTilesExpired`). From `--max-zoom 17` on, which `main()` accepts
  (`src/pgimporter.cpp:257`), shifts leave the `int` and ids of different tiles
  collide; this is outside of the model. Ways of a diff are expired only if they are long
  (`ListFollowsTiles`, `PassedTilesExpired`). A relation with a way as member hands
  over an empty list of coordinates, whose first element is read
  (`src/diff_handler2.cpp:289`); the action `ExpireRelationWay` ends the program
  there. The list is written by a destructor, before the tables are committed.
* *Null tags.* Pass 1 of address interpolation leaves out closed ways
  (`src/addr_interpolation_handler.cpp:312`), pass 2 does not. If one goes through a numbered node of
  another interpolation, a null pointer is handed on as "tags of the last node"
  (`src/addr_interpolation_handler.cpp:94`, cf. `src/addr_interpolation_handler.hpp:172`); the
  exception meant for this case (line 90) cannot be reached, since the
  loop before it stops one node before the end. An earlier version of
  `DeathExplained` said that only a search that left its vector could
  lead to such a read; the attempt to prove it showed this second way, which
  the run now contains.
* *Address interpolation.* The second loop of `node_needed()` is said to go back
  (`src/addr_interpolation_handler.hpp:111`) but goes forward, and both read
  behind the vector (`LookupsExact` holds as long as they have not). Descending
  numbers are written above the first one. A malformed number drops the rows of the
  whole way.
* *Import.* `prepare_for_lookup()` is never called for associated streets
  (`src/pgimporter.cpp:459`): an object may get no tags or, by a search in an
  unsorted vector, those of the wrong street (`StreetTags`). A warning says that
  flat nodes alone make updates possible (`src/pgimporter.cpp:288`), but the append
  mode opens `untagged_nodes` and, with the first way or relation, `planet_osm_polygon` too. An index type without dump leaves an empty
  flat nodes file, and one of them ends the import. A table `x_tmp` that a kill
  has left makes every later import of that table fail in a destructor
  (`AppendReady`). A way with a missing node ends the import.
* *Rows.* The columns for user id and changeset hold the version of the object.
  Positions above 32,767 are written as negative numbers; they stay
  different as long as a relation has at most 65,535 members. A key an object and
  its street share is written twice into the hstore, of which PostgreSQL keeps
  one. A tag with a column of its own is written there even if another
  line of the style file deletes its key. A line of blanks or an unknown type in the style file, or a repeated column, ends
  the program. `escape4array()`, which is unused, loses line breaks.
  `HStoreParser` reads an unquoted `NULL` as a text.

## 5. Proofs

**PendingListProofs** (every set of ids, any number of pushes). `ScanIsExact` is
not inductive: that a search which never goes back finds every entry depends on the
container being strictly ascending apart from zeros, on everything in front of the
resumed position being zero or smaller than what the diff has reached, and on the
order in which objects arrive. The inductive invariant `ListInv` adds
these, and for the loop: the order of the container, that `last` is the last call,
and that what lies behind the iterator is exactly what has not been called.
From it follow `ListTypeOK`, `SearchIsExact`, `CallsArePending`,
`CallsAreOrdered` and `OnlyFirstIsSkipped`, and, action by action, that the container
implements the abstract set (`ImplementsWorkSet`: the stage and the entries behind
the iterator are the refinement mapping; sorting and passing a repetition stutter).

**DiffRowsProofs** begins with modes of tables (for every data set, change file,
option, number of runs, with and without kills). `ModifyOutsideCopy` speaks of three moments only. The
inductive invariant `TablesInv` says for every value of `pc` and
`m_progress` which tables may be in COPY, and that the four tables under a
transaction are within it until their destructor. One lemma per action;
actions that leave modes and committed rows alone share the lemma `QuietStep`, those
that switch modes share `ModeStep`. Results: `NoModificationInCopy` and
`TransactionsHold`.

The rest of it is the ground the others stand on. For properties that compare
rows, the twenty-odd actions are eight kinds of move (`RowStep`): a deletion in
pass 1, a switch of modes, an object that is sent, a phase that begins
or updates rows, a destructor, the loss of all connections, another application, and
nothing. `BaseStep` shows that every step is one of them. With it goes
`BaseInv`: the input has its form and does not change, `pos` and `progress`
follow the phases (after `write_new_nodes()` a way or relation has been reached),
and a table outside of COPY has no lines waiting, one outside of a transaction
has everything committed.

Two results need no more than that. `BystandersStay`: rows of objects the file does not name are
committed, live and never on their way, in every state, for every file, sorted
or not, any number of runs and kills. `CopyIsNotLost`: why the queries of pass 2
never hit a connection in COPY; the invariant (`LossInv`) has to say that only
`node_ways` can, and only after the end of the file with `m_progress` still at
the ways.

**DiffVersionsProofs** begins with `OldVersionsGo`, for a first application (`run = 1`; later ones
start from what a killed run left, where it does not hold for the node tables).
The invariant counts objects passed by pass 1 (`Vanished`). That
`DiffHandler1::node()` looks into only one of the two node tables is right because a node
of the initial tables is in one of them only.

Then `NodesSurvive`, `NodesFollow` and `TopologyFollows`. The invariant
(`VersionsInv`) says of every row of an object of the file, live or on its way:
it has the version of the file, or pass 1 has not reached the object yet, or it is the one
row that may be stale (a node that lost its tags, run 2 or later); that new
objects are not there before they are sent unless an earlier run wrote them
(`AddedInv`); and that what has been sent is there (`ThereInv`). Kills are covered
since a lost connection falls back to committed rows, and all of this is said of those too.

`LocationsAreCurrent`: the cache holds the new location of
every node passed, and of the others the committed row, seen through
the two other connections, is the new one because it is the old one.
`FailuresHaveReasons` needs that every way named by a pending row has all
of its nodes (`WholeInv`), which makes `Complete(StoredLine(id))` true in
`update_way()` for healthy data. A missing table of the areas needs no invariant: the step that
meets it says so.

**DiffFollowProofs.** Lines and relations are updated after they were written.
The invariant (`RowsRightInv`) says that a row of an object of the file is right or
has not been reached by pass 1, and an update writes what is right because what
the member tables say is what the new data say by then (`UpdatedLine`,
`UpdatedPoints`). `RelationsHavePoints` follows.

`LinesFollow` adds the ways the file does not name: a moved node becomes
a query, its rows become entries of a pending container, an entry becomes a
call, and a call rewrites a line. The invariant (`FollowInv`) has one
part for each of these. `CollectInv`: until relations begin, the container holds every way of every node that
pass 2 has passed, unless the way is in the file itself; it is a list because the tables are finite.
`ReachedHaveTurns`: when the loop over the container begins, each of these
ways has its turn to come, except the smallest, which the loop leaves out
(`OnlyFirstIsSkipped`) and which keeps its old line. `OthersInv` and `ReadInv`: which
objects have a row at all. `LinesKept` and `ReachedInv`: a row of a way
the file does not name has its old line, or the line after the diff, and the latter once the way
has had its turn. Kills and repeated runs are covered: a second application
finds the same members, and passes the same nodes.

`RelationsFollow` goes on from there: a node or way that is
written becomes a query of pass 2, and a way that is updated asks for its relations too
(`update_way()`), so that relations can follow a node two steps away.
`CollectRelsInv`: until relations begin, the container holds every relation the file does not
name that has a member passed by pass 2, or one among the ways that follow and
have had their turn. At the end of the loop over the ways each of them has
had it (`AllTold`), hence each affected relation but the smallest gets
its own (`RelsHaveTurns`). `RelsKept` and `ReachedRelsInv` do for rows of relations what
`LinesKept` and `ReachedInv` do for lines. What a turn writes is right
(`UpdatedRelation`) because COPY into `node_ways` has ended before `update_relation()` reads it
(`WayNodesClosed`) and every node has been passed by then.

**DiffDuplicatesProofs.** `DiffTypeOK` is the complete type invariant (`TypeInv`,
with `RelationsInv`), for every file: the pending containers are sequences of ids
although they are sorted and cleared of repetitions by a description of the result,
and what `areas` and tables hold are ids of the data.

`NothingTwice` is about the search that crosses objects of the file out of the
containers. `Searching` says that the sorted container is in order apart from
zeros, that everything open behind the resumed position is smaller than any object
of the file to come, and that no object passed is left in it; `TwiceInv` adds that
before the sorting the position is at the front, that a deleted object
never gets into a container (its rows were gone before pass 2 looked for it), and that
what is worked on is not in the file. Only `AscendingIds` makes it true.

`DuplicatesAreNew` says which rows two runs can both write. `GoneInv`: when an
object that was there before is written, pass 1 of the same run has deleted its row from
the table it goes to. With it `OneRun` is inductive for the committed rows, and for the live
rows together with those on their way, so that a kill cannot bring two runs together.

**DiffAreasProofs.** Areas reach their table by three ways: as the area of a way of
the file, from the output buffer of the manager, and a second time when a changed
member makes `after_relations()` assemble them again. `TableOfAreas` reduces every
action to one of six moves of that table (`AreaMove`). `AreasFollow` needs `AreaIdsInv`: each id
in the table, or on its way there, is that of an area after the diff, of a relation of the
file, or of an old way pass 1 has yet to delete; an area the file does not
touch stays; and an area passed in pass 2 is there, a multipolygon as soon as
the manager has all of its ways.

`WrittenAreasFollow` is about geometries. Because areas are written back under a wrong
id (`updated_area`), it has to be shown which ids these are: `ExactInv` says that the containers ask
for nothing but what the diff affects, and objects of the file that are still to be crossed out. For this the
member tables have to say of other objects what the data set after the diff says
(`AskedWays`), in the middle of pass 2. `OwnAreasInv` then keeps the area of every way of the file
whose number is not that of an affected relation.

**AddrInterpolationProofs** (every file, any number of ways and nodes, ways of any length). `LookupsAreExact`:
as long as the nodes come in order, `RequiredNodesTracking` finds a node
when and only when an interpolation needs it, although every search
starts where the last hit was, unless it leaves the vector; and it leaves it only for a
node that is not required and has a greater id than one that is. The inductive invariant
(`AddrInv`) says of the vector of required ids that it holds what the ways
read so far need; that from the end of pass 1 on it has a front which is
strictly ascending and complete; that the position is within this front or at its end; and that
the position has moved past ids only which the file has already passed
(`SearchInv`).

`DeathsAreExplained`: tags are read through a null pointer only after the search has left
its vector, for nodes out of order, or for a closed way through a numbered node of
another. The second lookup goes by halves through the index of the tags.
`LowerBound` is a recursive function over ranges of the index; that there is such a function
is shown by giving it (`SearchExists`), that it ends where it should from the first range, by size, for
which it would not (`SearchEnds`, with `LeastOf` for the least counterexample). It finds what is stored because the
index is strictly ascending (`IndexInv`), as far as nodes are in order.

`NumbersFollowTheirWays`: a way whose numbers rise in steps its type allows gets exactly the numbers between
those of neighbouring nodes, each once, at its place; a malformed number ends its way;
what is added to a letter is a letter. `RowsInv` reduces this to one call: the rows
are those of the ways behind, all of whose nodes are in the file. Then, for one way: the
numbered nodes are the stops of the walk (`OpenWayStops`, `OpenWayPairs`: an
interpolation way that is not closed has tags stored for each of its nodes), numbers
grow between any two of them, not only between neighbours (`RanksGrow`), so that none is written twice
(`RegularOnce`), and the point found by walking a given length along the line lies on an
edge, at that length from the numbered node (`PathFacts`, `RemotePoint`). The
length of a path and the growth of the numbers are recursions over the line; both are handled by the least node at
which they would fail.

**ExpireProofs** (every grid, limit of latitudes, zoom level of at most half the bits of an `int`,
configuration, node and line, any number of geometries). `PassedTiles` and `OnlyTouchedTiles` compare the walk of
`expire_line_segment()`, which notices a new column or a new row and computes the other number by
division, with a test of every tile. Their invariant (`TilesInv`) is no more than both
properties and the configuration; the argument is about one segment, in four steps:

* *One walk* (`WalkCovers`, `WalkTouches`), for a line from west to east whose rows are
  fractions. Nothing is divided: `Height` is the row of the line at a place, times its width
  and the denominator, and a quotient is compared by products (`DivAtMost`). A tile the line passes
  is the one it begins in, or the line comes into it over its western
  border – then the new column is noticed, and `RowAt` is its row – or over its northern one – then the
  new row is noticed, and `ColumnAt` is its column (`PassingInColumn`, `EnteringTile`). Over
  its southern border come only lines to the north, for which the loop over rows does not run; hence the
  exception in the property.
* *The split.* `split` is the height of the segment at the meridian (`HeightAtMeridian`). Each part has
  the heights of the whole times its own width (`HeightEast`, `HeightWest`), so that it passes
  and touches what the whole does on its side (`CutPasses`, `CutTouches`); the
  western part does so a map's width further to the east. If one of the ends is on the meridian its
  part is empty, if both are the segment is one walk along column 0.
* *Off the map.* Rows are rounded towards zero, so that the program takes for row 0 one tile
  more than there is, and for a negative row the tile south of it (`TruncFacts`, `NorthSouth`). All rows of
  the map a line enters are still noticed (`RowsCovered`), and a row that is noticed is touched in this sense (`RowsVisited`), or the
  line is north of the map and the tile is one of the strays the property names (`WalkTouches`, `StrayOfPart`). What a line
  touches lies between its ends, hence within the limit of latitudes (`TouchedBetween`, `RowInRows`).
* *Numbers of tiles.* An id depends on the remainders of column and row only (`RemainderId`), which gives
  tiles off the map the ids of tiles at the opposite edge. A line that ends on the eastern border of the map is in the column
  behind the last one; the bits that are read of this number are those of column 0
  (`AroundFacts`, from `LowBits`), so that its tiles get the right ids.
* *Geometries.* What each action hands over suits its geometry (`NodeSuits`, `WaySuits`,
  `OldWaySuits`, `NothingSuits`), and the set of dirty tiles only grows.

`ListOfTiles` is about the numbers: what `output_and_destroy()` writes of the ids
(`ListFollowsTiles`), for every width of an `int`. Its invariant (`ListInit`, `ListStep`) adds that geometries lie on
the grid, so that with `OnlyTouchedTilesExpired` every id is that of some tile of the map
(`AllowedIds`), and that the list was made of the ids that are still there.

* *Sums.* `xy_to_quadtree()` and `quadtree_to_xy()` are loops that add up bits. A sum over a finite
  set does not depend on the order (`SumFacts`), so that one over an interval can be taken from
  below (`TotalUpTo`).
* *Ids.* The lowest two bits of a number are the lowest of row and column, the others the number of the
  tile above (`TwoBitsRight`). Hence a shift by two bits for every level gives the
  number of the tile that many levels higher (`ShiftedUp`), each bit is one of the row or of the column
  (`InterleavedBits`), and picking them out again gives both back (`TileOfId`, from
  `BitsAddUp`). In the one case in which a bit falls on the sign of the `int` it counts the
  other way (`BitShiftedDown`, `SignedBitsAddUp`): the row loses the width of the map.
* *The list.* A line that is left out has the number of an earlier one, and the
  earliest of them is written (`EarliestWritten`); of the same level it is the same tile, because ids give their
  tiles back (`Pyramid`, `OneLevel`).

Hypotheses of the theorems about `DiffProperties`, which are facts about published change files:

* `ProperFile` – the file is sorted, has one version of every object, and version 1
  means that the object did not exist before. The first two are what the handlers
  are built for (`RelationsManager` and pending containers rely on the order); a
  change file with several versions of an object has to be simplified first.
  The third is how OpenStreetMap numbers versions. The initial data set has been
  imported from an earlier state of the same data. Files that break this
  are in the runs (`diff_troubled`), and `CopyIsNotLost`, `BystandersStay`,
  `NoModificationInCopy`, `TransactionsHold` and `OldVersionsGo` are proved for them too.
* `AscendingIds` (`NothingTwice`, `WrittenAreasFollow`) – the objects of a kind come in the order of their ids,
  each once, as in every published file.
* `BareDeletions` (`AreasFollow` only) – a deleted way carries no tags, so that libosmium
  does not take it for an area. Files of deletions come without tags and nodes.
  With tags, the manager, which is handed deleted ways too, would pass on
  an area that the data no longer have.
* `Healthy` and `Closed(New)` – every member exists, and a way has two nodes at
  least, before and after the diff (or after it only), as in a planet file. Otherwise the import writes
  fewer rows than the append mode does.
* `LinesGiven(New)` (`LinesFollow` only) – no way of the data after the diff has all
  its nodes in one place. Of such a way the table gets an empty line, which the
  property would count as stale.
* `WaysAreClosed` (`RelationsFollow` only) – a file with ways has a relation.
  Otherwise `node_ways` is still in COPY when relations are updated; the first one with
  a way as its member ends that COPY with an error, and the run dies in the
  destructor of the table (`NoRowsLost` names the case, `CopyIsNotLost` shows that it is
  the only one). For such files the property is only checked by TLC.
* `ImportedRels(old) = DOMAIN old.rel` (`RelationsFollow` only) – the import has written every
  relation. It leaves out those without a node or way among their members and those with a
  way that gives no line, and `update_relation()` adds no row.

Assumptions about the constants: ids are positive naturals (`IdsAssumption`), the
missing location is not a valid one, `MaxRuns` is positive, `MayCrash` is a truth
value, and `ScenariosAssumption`: data sets are finite, files are finite
sequences, and both consist of nodes, ways and relations in the form libosmium
delivers them (only a deleted node comes without a location; a member may refer to
something that is not there). Address interpolation assumes that a file is a sequence of
ids whose nodes have one of the kinds of tags `parse_number()` tells apart and a place, that
a way is a list of ids with a type (`InputsAssumption`), and that `Null` is none of these tags
(`NullAssumption`). The expiry assumes that places are on the grid and that a tile of the highest
zoom level is a whole number of points wide, which loses nothing as the grid may be as
fine as one likes, that an `int` has more than two bits (`WorldAssumption`), that the highest zoom level is at most half
of them, and that the levels of a list take fewer bits than an `int` has (`OptionsAssumption`; see section 6),
and that a line has two nodes at least (`PlacesAssumption`). TLC evaluates all of them on every run of the module.

Only model-checked:

* liveness (`WaitingIsCalled`, `Finishes`), which the prover does not handle;
* the import: `MembersAtHand`, `StreetTags`, `WholeTables`, `AppendReady`. They
  rest on folds over lists of members (`add`, `TrackAll`), on sorting, and on the
  insertion into a database while it is searched;
* the rows: `CellsMatchColumns`, `TagsSurvive` and `GeometryReadable` are statements about parsers and writers that
  are folds over texts of any length.

A theorem of induction that takes a property as its parameter cannot be used with the
installed provers. Where a proof needs induction over one given function (the
search by halves, the length of a path, the growth of numbers, powers of two, sums), it takes the least
counterexample from `WFMin` instead. For the folds above, every accumulator would
need such a lemma of its own, as the sums over bits have in `ExpireProofs`.

## 6. Not modelled

* Append mode: several versions of one object in a file (the location cache keeps
  the first, the tables get a row for each); growth of `m_relation_buffer`;
  `ExpireTiles` is not composed with `DiffImport`, so that nothing is said of a
  list whose tables were not committed.
* Import: the loop of `dump_index_manually()` is modelled by what it writes; with
  a repeated id it does not advance, and for an empty index it looks at the
  element before the first. Interpolation and the rows of its table are not
  composed with `Import`, with which they share nothing but the file.
* Expiry: the trigonometry of the projection and the rounding of doubles;
  `expire_bbox()` and `quadtree_upscale()`, which nothing calls; zoom levels above 16 – `--max-zoom`
  is not checked (`src/pgimporter.cpp:257`), but from 17 on shifts leave an `int` of 32 bits – and
  levels from 0 to 16 in one list, for which it is shifted by 32: neither has a defined result.
* Rows: a column of type `int4` or `real` whose tag is not a number (COPY fails and
  the table is lost as a whole); bytes of numbers and the GEOS encoder;
  single polygons, which nothing asks for.
* `intermediate_commit()`, which nothing calls; the creation of indexes; `getopt`
  and help texts; logging.
* libosmium (reading files, area assembly, buffers), GEOS, libpq and PostgreSQL
  are modelled from how the code uses them; such definitions are marked external
  in `PROJECT.json`. The array and hstore parsers are modelled although only their
  tests call them.

## 7. Plan

1. *done* – `PendingList` with `WorkSet`, `PgTable`, `DiffImport`, and the
   first invariants proved.
2. *done* – breadth: `OsmData`, `ExpireTiles`, `RequiredNodes`,
   `AddrInterpolation`, `RelationsManager`, `Import`, `TextFormats`, `WkbWriter`,
   `Columns`, `Rows`.
3. *done* – the append mode by proof: types, nodes, members, locations, failures, COPY,
   rows of the file, lines that follow moved nodes, collections that follow both,
   areas, updates and duplicates. Every invariant of `DiffProperties` is a theorem.
4. *done* – address interpolation by proof: both searches, reads through null
   pointers, and the numbers. Every invariant of `AddrInterpolation` is a theorem.
5. *done* – the expiry by proof. Every invariant of `ExpireProperties` is a theorem.
6. The control of `Import` by proof: which tables are in COPY, and from it that a kill leaves every table
   empty or whole and that a table being sorted exists in one of its two places
   (`WholeTables`, parts of `AppendReady`).
7. Several versions of one object in a change file, and the composition of the
   expiry list with the commits of `DiffImport`.
