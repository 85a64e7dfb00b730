---------------------------- MODULE MCLiveAgent ----------------------------
(***************************************************************************)
(* What TLC needs beyond LiveAgent: session ids are the runs' numbers.     *)
(***************************************************************************)
EXTENDS LiveAgent, TLC

MCSids == 1..Runs

\* Writes are model values that are only compared for equality.
Symmetry == Permutations(Writes)

=============================================================================
