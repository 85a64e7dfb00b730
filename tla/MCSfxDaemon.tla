---------------------------- MODULE MCSfxDaemon ----------------------------
(***************************************************************************)
(* Values for SfxDaemon's constants, and its symmetry.                     *)
(***************************************************************************)
EXTENDS SfxDaemon, TLC

CONSTANT r1

\* Every session works on the same repository.
OneRepo == [t \in Sids |-> r1]

\* Sessions of one repository, callers and calls are interchangeable.
Symmetry == Permutations(Askers) \cup Permutations(Calls) \cup Permutations(Writes)
            \cup Permutations(Sids)

=============================================================================
