--------------------------- MODULE MCGpsTracking ----------------------------
(* GpsTracking on one or two buses of one route: a first stop, and then stops with one
   and the same stop_order. *)
EXTENDS GpsTracking, TLC

InSteps == [s \in Stops |-> IF s = 1 THEN 1 ELSE 2]

Symmetry == Permutations(Workers) \cup Permutations(Buses)

=============================================================================
