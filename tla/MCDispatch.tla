----------------------------- MODULE MCDispatch -----------------------------
(* Dispatch on a fleet of two buses and two drivers. *)
EXTENDS Dispatch, FiniteSets, TLC

OneField == {p \in [bus : Buses \cup {None}, driver : Drivers \cup {None},
                     active : BOOLEAN \cup {None}] :
                Cardinality({f \in DOMAIN p : p[f] # None}) = 1}

Symmetry == Permutations(Workers) \cup Permutations(Buses) \cup Permutations(Drivers)

=============================================================================
