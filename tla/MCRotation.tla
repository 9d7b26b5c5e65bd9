------------------------------ MODULE MCRotation ------------------------------
(* Instances of key rotation for TLC.                                       *)
EXTENDS IdentityRotation, TLC

\* Two rekeys are interchangeable, and so are two inits.
Symmetry == Permutations(Rekeyers) \cup Permutations(Initers)
=============================================================================
