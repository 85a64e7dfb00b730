---------------------------- MODULE MCSpecCache ----------------------------
(***************************************************************************)
(* What TLC needs beyond SpecCache: the symmetry of callers and calls.     *)
(***************************************************************************)
EXTENDS SpecCache, TLC

\* Askers and calls are model values that are only compared for equality.
Symmetry == Permutations(Askers) \cup Permutations(Calls)

=============================================================================
