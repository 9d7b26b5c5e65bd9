------------------------------- MODULE MCStore -------------------------------
(* Instances of the vault's tables for TLC.                                 *)
EXTENDS VaultStore, TLC

\* Secrets, env names and invocations of one verb are interchangeable.
Symmetry == Permutations(Names) \cup Permutations(EnvNames) \cup Permutations(Deleters)
=============================================================================
