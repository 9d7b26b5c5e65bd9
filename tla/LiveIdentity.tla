----------------------------- MODULE LiveIdentity -----------------------------
(***************************************************************************)
(* What the identity directory promises its user: one key opens the vault, *)
(* one passphrase opens that key, and rotation changes the first without   *)
(* touching the second.  Where the key is kept and under which name does   *)
(* not show.                                                               *)
(***************************************************************************)
EXTENDS Naturals

CONSTANTS
  Keys,     \* The age keys, numbered as they are generated.
  Passes,   \* The passphrases users type.
  None      \* No vault yet.

VARIABLES
  key,        \* The key the vault is sealed to.
  pass,       \* The passphrase that opens it.
  possible    \* The passphrases that may open it after a power loss.

vars == <<key, pass, possible>>

\* rekey: a key never used before, under the passphrase the user has, and
\* nothing a power loss can undo.
Rotate ==
  /\ key # None
  /\ possible = {pass}
  /\ \E k \in Keys : k > key /\ key' = k
  /\ UNCHANGED <<pass, possible>>

\* passwd: until the disk has settled, the old passphrase may come back.
ChangePass(new) ==
  /\ key # None
  /\ pass' = new
  /\ possible' = possible \cup {new}
  /\ UNCHANGED key

\* The directory reaches the disk.
Settle ==
  /\ possible' = {pass}
  /\ UNCHANGED <<key, pass>>

\* A power loss decides for one of the passphrases.
Revert ==
  /\ \E old \in possible : pass' = old /\ possible' = {old}
  /\ UNCHANGED key

Init ==
  \/ key = None /\ pass = None /\ possible = {None}
  \/ key \in Keys /\ pass \in Passes /\ possible = {pass}

Next == Rotate \/ Settle \/ Revert \/ \E new \in Passes : ChangePass(new)

Spec == Init /\ [][Next]_vars
=============================================================================
