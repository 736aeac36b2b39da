------------------------------ MODULE WkbWriter ------------------------------
(***************************************************************************)
(* The writer of well-known binary geometries that every table has one of. *)
(* It is filled step by step: the numbers of rings and points are not      *)
(* known when their place is reached and are put in later.  A writer is a  *)
(* record; data is a sequence of tokens, one for each byte order mark,     *)
(* type, number and location.                                              *)
(***************************************************************************)
EXTENDS Naturals, Sequences, TLC
LOCAL INSTANCE SequencesExt

NewWriter == [data |-> <<>>, points |-> 0, rings |-> 0, polygons |-> 0,
              linestring_size |-> 0, ring_size |-> 0, polygon_size |-> 0,
              multipolygon_size |-> 0]

\* Types.
wkbPoint == "1"
wkbLineString == "2"
wkbPolygon == "3"
wkbMultiPolygon == "6"

header(type) == <<"NDR", type>>
\* The place the writer has reached is kept, a number is put there later.
add_length(data) == Append(data, "0")
set_size(w, offset, size) == [w EXCEPT !.data[offset] = ToString(size)]
\* The text of a finished geometry is moved out of the writer.
Taken(w) == [w EXCEPT !.data = <<>>]

make_point(loc) == header(wkbPoint) \o <<loc>>
-----------------------------------------------------------------------------
(* Line strings: the caller counts the points. *)

\* Faulty variant: what a failed geometry has left is not removed.
linestring_start_NotCleared(w) ==
    LET data == add_length(w.data \o header(wkbLineString))
    IN  [w EXCEPT !.data = data, !.linestring_size = Len(data)]

linestring_start(w) ==
    LET data == add_length(header(wkbLineString))
    IN  [w EXCEPT !.data = data, !.linestring_size = Len(data)]

linestring_add_location(w, loc) == [w EXCEPT !.data = Append(@, loc)]
linestring_finish(w, num_points) == set_size(w, w.linestring_size, num_points)
-----------------------------------------------------------------------------
(* Multipolygons.  Single polygons are never asked for. *)

multipolygon_start(w) ==
    LET data == add_length(header(wkbMultiPolygon))
    IN  [w EXCEPT !.data = data, !.polygons = 0, !.multipolygon_size = Len(data)]

\* Faulty variant: rings are counted over all polygons.
multipolygon_polygon_start_KeepRings(w) ==
    LET data == add_length(w.data \o header(wkbPolygon))
    IN  [w EXCEPT !.data = data, !.polygons = @ + 1, !.polygon_size = Len(data)]

multipolygon_polygon_start(w) ==
    LET data == add_length(w.data \o header(wkbPolygon))
    IN  [w EXCEPT !.data = data, !.polygons = @ + 1, !.rings = 0, !.polygon_size = Len(data)]

multipolygon_polygon_finish(w) == set_size(w, w.polygon_size, w.rings)

\* Outer and inner rings are the same.
ring_start(w) ==
    LET data == add_length(w.data)
    IN  [w EXCEPT !.data = data, !.rings = @ + 1, !.points = 0, !.ring_size = Len(data)]
ring_finish(w) == set_size(w, w.ring_size, w.points)
multipolygon_add_location(w, loc) == [w EXCEPT !.data = Append(@, loc), !.points = @ + 1]

multipolygon_finish(w) == set_size(w, w.multipolygon_size, w.polygons)
-----------------------------------------------------------------------------
(* osmium::geom::GeometryFactory, which calls the writer.  Every operator    *)
(* returns the writer and the geometry; an exception leaves the writer as it *)
(* is at that moment and gives no geometry.                                  *)

Geometry(w, text) == [writer |-> w, thrown |-> FALSE, text |-> text]
GeometryError(w) == [writer |-> w, thrown |-> TRUE, text |-> <<>>]

\* Of equal locations in a row the first one.
Unique(locs) ==
    FoldLeft(LAMBDA found, loc : IF found # <<>> /\ Last(found) = loc THEN found
                                 ELSE Append(found, loc), <<>>, locs)

create_linestring(w, locs) ==
    LET points == Unique(locs)
        filled == FoldLeft(linestring_add_location, linestring_start(w), points)
        finished == linestring_finish(filled, Len(points))
    IN  IF Len(points) < 2 THEN GeometryError(filled)
        ELSE Geometry(Taken(finished), finished.data)

\* An area is a sequence of rings, its outer rings followed by their inner ones.
create_multipolygon(w, rings) ==
    LET Ring(v, ring) ==
            LET first == v.polygons = 0
                next == CASE ring.outer /\ first -> multipolygon_polygon_start(v)
                          [] ring.outer /\ ~first ->
                                multipolygon_polygon_start(multipolygon_polygon_finish(v))
                          [] OTHER -> v
            IN  ring_finish(FoldLeft(multipolygon_add_location, ring_start(next),
                                     Unique(ring.locs)))
        filled == FoldLeft(Ring, multipolygon_start(w), rings)
        finished == multipolygon_finish(multipolygon_polygon_finish(filled))
    IN  IF rings = <<>> THEN GeometryError(filled)
        ELSE Geometry(Taken(finished), finished.data)
=============================================================================
