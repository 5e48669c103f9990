------------------------------ MODULE MCAlerts ------------------------------
(* Alerts with one child, whose driver raises an SOS. *)
EXTENDS Alerts, TLC

CONSTANTS p1, c1

MCParentOf == c1 :> p1

=============================================================================
