---------------------------- MODULE SecretLifecycle ----------------------------
(***************************************************************************)
(* What the vault promises about a secret and its versions: four atomic    *)
(* operations, whatever the verbs that ask for them have read before.      *)
(***************************************************************************)
EXTENDS Naturals

CONSTANTS
  Names,        \* The secrets.
  MaxVersion    \* Bound: versions of one secret.

Numbers == 1..MaxVersion

VARIABLES
  life,      \* The state of each version, or "absent".
  deleted    \* Whether the secret carries a tombstone.

vars == <<life, deleted>>

Present(n) == {v \in Numbers : life[n][v] # "absent"}

\* Disabling keeps what is destroyed destroyed.
Retire(state) == IF state = "enabled" THEN "disabled" ELSE state

\* A new version is enabled, takes the number after the last one, and may
\* retire all the others; it brings a deleted secret back.
Add(n, v, revoke) ==
  /\ Present(n) = 1..(v - 1)
  /\ life' = [life EXCEPT ![n] = [w \in Numbers |->
       IF w = v THEN "enabled" ELSE IF revoke THEN Retire(@[w]) ELSE @[w]]]
  /\ deleted' = [deleted EXCEPT ![n] = FALSE]

Disable(n, v) ==
  /\ life[n][v] \in {"enabled", "disabled"}
  /\ life' = [life EXCEPT ![n][v] = "disabled"]
  /\ UNCHANGED deleted

Drop(n) ==
  /\ Present(n) # {}
  /\ ~deleted[n]
  /\ deleted' = [deleted EXCEPT ![n] = TRUE]
  /\ UNCHANGED life

Destroy(n) ==
  /\ Present(n) # {}
  /\ life' = [life EXCEPT ![n] = [v \in Numbers |->
       IF v \in Present(n) THEN "destroyed" ELSE "absent"]]
  /\ deleted' = [deleted EXCEPT ![n] = TRUE]

Init ==
  /\ life = [n \in Names |-> [v \in Numbers |-> "absent"]]
  /\ deleted = [n \in Names |-> FALSE]

Next ==
  \E n \in Names :
    \/ \E v \in Numbers, revoke \in BOOLEAN : Add(n, v, revoke)
    \/ \E v \in Numbers : Disable(n, v)
    \/ Drop(n)
    \/ Destroy(n)

Spec == Init /\ [][Next]_vars
=============================================================================
