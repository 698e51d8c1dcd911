-------------------------- MODULE MCIngressLimiter --------------------------
(* Instances of IngressLimiter for TLC. *)
EXTENDS IngressLimiter, TLC

Symmetry == Permutations(Uid)
=============================================================================
