------------------------------- MODULE MCReads -------------------------------
(* Instances of the reading verbs beside the writing ones for TLC.          *)
EXTENDS VaultReads, TLC

\* Secrets are interchangeable.
Symmetry == Permutations(Names)
=============================================================================
