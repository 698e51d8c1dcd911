------------------------------ MODULE MCDaemon ------------------------------
(* Instances of Daemon for TLC. *)
EXTENDS Daemon, TLC

(* The calls are interchangeable until they choose a method. *)
Symmetry == Permutations(Req)

(* The gate settings a configuration file may hold. *)
OpenPolicy == {NoGates}
AllPolicies == Gates
=============================================================================
