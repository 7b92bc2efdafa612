---------------------------- MODULE MCJobService ----------------------------
(* JobService for TLC: requests are interchangeable. *)
EXTENDS JobProperties, TLC

ClientSymmetry == Permutations(Clients)

=============================================================================
