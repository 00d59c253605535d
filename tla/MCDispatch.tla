------------------------------- MODULE MCDispatch -------------------------------
(* Instances of Dispatch for TLC. *)
EXTENDS Dispatch, TLC

\* Tasks, drivers and broadcasts are interchangeable.
Symmetry == Permutations(Tasks) \cup Permutations(Drivers) \cup Permutations(Broadcasts)

=============================================================================
