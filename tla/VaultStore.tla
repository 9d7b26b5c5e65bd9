------------------------------ MODULE VaultStore ------------------------------
(***************************************************************************)
(* The tables of vault.db and the verbs that write them, split where the   *)
(* code splits them: a transaction is one step, a verb that reads outside  *)
(* a transaction and writes later is two, with anything in between.        *)
(*                                                                         *)
(*   set      read the recipient, then one transaction                     *)
(*   disable  look the version up, then one guarded UPDATE                 *)
(*   delete   look the secret up, then one guarded UPDATE                  *)
(*   purge    one transaction                                              *)
(*   rekey    one transaction (its files are module IdentityRotation)      *)
(***************************************************************************)
EXTENDS Naturals

CONSTANTS
  Names,        \* The secrets.
  EnvNames,     \* Non-empty env names a set may bind.
  Expiries,     \* Expiry times a set may bind.
  MaxVersion,   \* Bound: versions of one secret.
  MaxKey,       \* Bound: how often the vault is rekeyed, plus one.
  Setters, Disablers, Deleters, Purgers,   \* The processes, by verb.
  None          \* SQL NULL; no row; nothing read yet.

Numbers == 1..MaxVersion
Keys == 1..MaxKey
Procs == Setters \cup Disablers \cup Deleters \cup Purgers

\* The two columns a set binds into the envelope.
Columns == [env : EnvNames \cup {None}, expires : Expiries \cup {None}]

\* deleted_at, told apart by the invocation that wrote it.
SecretRow == [cols : Columns, deleted : Deleters \cup Purgers \cup {None}]

\* What an envelope is sealed to and what is bound inside.  Its address is
\* the row it is stored in, since only set and rekey seal and both pass it.
Envelope == [key : Keys, bound : Columns]

States == {"enabled", "disabled", "destroyed"}

VersionRow == [state : States, envelope : Envelope \cup {None}]

ASSUME StoreAssumption ==
  /\ MaxVersion \in Nat \ {0}
  /\ MaxKey \in Nat \ {0}
  /\ Setters \cap Disablers = {} /\ (Setters \cup Disablers) \cap Deleters = {}
  /\ (Setters \cup Disablers \cup Deleters) \cap Purgers = {}
  /\ None \notin Deleters \cup Purgers \cup EnvNames \cup Expiries \cup Names
  /\ None \notin Nat \cup SecretRow \cup VersionRow \cup Envelope

VARIABLES
  secret,     \* The row of each name, or None.
  version,    \* The row of each name and version number, or None.
  recipient,  \* The key vault_meta names.
  pc,         \* What each invocation does next.
  local       \* What it has read: the recipient, a version, a name, or None.

vars == <<secret, version, recipient, pc, local>>

tables == <<secret, version, recipient>>

Labels == {"idle", "append", "update", "tombstone"}

TypeOK ==
  /\ secret \in [Names -> SecretRow \cup {None}]
  /\ version \in [Names -> [Numbers -> VersionRow \cup {None}]]
  /\ recipient \in Keys
  /\ pc \in [Procs -> Labels]
  /\ local = [p \in Procs |-> local[p]]
  /\ \A p \in Setters : local[p] \in Keys \cup {None}
  /\ \A p \in Disablers : local[p] \in (Names \X Numbers) \cup {None}
  /\ \A p \in Deleters : local[p] \in Names \cup {None}
  /\ \A p \in Purgers : local[p] = None

Goto(p, label, read) ==
  /\ pc' = [pc EXCEPT ![p] = label]
  /\ local' = [local EXCEPT ![p] = read]

Return(p) == Goto(p, "idle", None)

Exists(n, v) == version[n][v] # None

\* Mutant of IsNextVersion: destroyed versions are not counted.
IsNextVersionReused(n, v) ==
  LET Counted(w) == Exists(n, w) /\ version[n][w].state # "destroyed"
  IN  /\ \A w \in Numbers : Counted(w) => w < v
      /\ v = 1 \/ \E w \in Numbers : Counted(w) /\ v = w + 1

\* Mutant of IsNextVersion: the first version is not 1.
IsNextVersionSkips(n, v) ==
  /\ \A w \in Numbers : Exists(n, w) => w < v
  /\ v = 2 \/ \E w \in Numbers : Exists(n, w) /\ v = w + 1

\* COALESCE(MAX(version_number), 0) + 1
IsNextVersion(n, v) ==
  /\ \A w \in Numbers : Exists(n, w) => w < v
  /\ v = 1 \/ \E w \in Numbers : Exists(n, w) /\ v = w + 1

-----------------------------------------------------------------------------
(* set                                                                     *)

\* storedRecipient, on its own connection before the transaction.
ReadRecipient(p) ==
  /\ p \in Setters
  /\ pc[p] = "idle"
  /\ Goto(p, "append", recipient)
  /\ UNCHANGED tables

\* The flags: a value, None for an explicit clear, or the flag not passed.
Keep == "keep"
Flags == [env : EnvNames \cup {None, Keep}, expires : Expiries \cup {None, Keep},
          revoke : BOOLEAN]

\* Mutant of Effective: a flag that was not passed is stored as it is.
EffectiveRaw(n, flags) == [env |-> flags.env, expires |-> flags.expires]

\* The columns as upsertSecret leaves them: only what was passed changes.
Effective(n, flags) ==
  LET old == IF secret[n] = None THEN [env |-> None, expires |-> None]
                                 ELSE secret[n].cols
  IN  [env     |-> IF flags.env = Keep THEN old.env ELSE flags.env,
       expires |-> IF flags.expires = Keep THEN old.expires ELSE flags.expires]

\* Mutant of Revoked: every older version is disabled, destroyed ones too.
RevokedAll(row) == IF row # None THEN [row EXCEPT !.state = "disabled"] ELSE row

\* revokeOlderVersions
Revoked(row) ==
  IF row # None /\ row.state = "enabled" THEN [row EXCEPT !.state = "disabled"]
                                          ELSE row

\* The transaction of a set, with what it binds into the new envelope.
AppendBinding(p, n, v, flags, bound) ==
  /\ pc[p] = "append"
  /\ IsNextVersion(n, v)
  /\ secret' = [secret EXCEPT ![n] = [cols |-> Effective(n, flags), deleted |-> None]]
  /\ version' = [version EXCEPT ![n] = [w \in Numbers |->
       IF w = v THEN [state |-> "enabled", envelope |-> [key |-> local[p], bound |-> bound]]
       ELSE IF flags.revoke THEN Revoked(version[n][w])
       ELSE version[n][w]]]
  /\ Return(p)
  /\ UNCHANGED recipient

\* Mutant of AppendVersion: the row is not read again after the upsert.
AppendVersionUnread(p, n, v, flags) ==
  AppendBinding(p, n, v, flags,
    IF secret[n] = None THEN Effective(n, flags) ELSE secret[n].cols)

\* AppendVersion: upsert and revive, seal, insert, revoke, in one
\* transaction, under the recipient read before it began.
AppendVersion(p, n, v, flags) == AppendBinding(p, n, v, flags, Effective(n, flags))

-----------------------------------------------------------------------------
(* disable                                                                 *)

\* findSecret and the SELECT of the state.  Rows are never removed, so the
\* two reads are one step; a missing or destroyed version is refused.
LookUpVersion(p, n, v) ==
  /\ p \in Disablers
  /\ pc[p] = "idle"
  /\ secret[n] # None
  /\ Exists(n, v)
  /\ version[n][v].state # "destroyed"
  /\ Goto(p, "update", <<n, v>>)
  /\ UNCHANGED tables

\* Mutant of DisableVersion: the UPDATE does not repeat the test.
DisableVersionUnguarded(p, n, v) ==
  /\ pc[p] = "update"
  /\ local[p] = <<n, v>>
  /\ version' = [version EXCEPT ![n][v].state = "disabled"]
  /\ Return(p)
  /\ UNCHANGED <<secret, recipient>>

\* The UPDATE repeats the test, and zero rows is reported as destroyed.
DisableVersion(p, n, v) ==
  /\ pc[p] = "update"
  /\ local[p] = <<n, v>>
  /\ IF version[n][v].state # "destroyed"
       THEN version' = [version EXCEPT ![n][v].state = "disabled"]
       ELSE UNCHANGED version
  /\ Return(p)
  /\ UNCHANGED <<secret, recipient>>

-----------------------------------------------------------------------------
(* delete                                                                  *)

LookUpSecret(p, n) ==
  /\ p \in Deleters
  /\ pc[p] = "idle"
  /\ secret[n] # None
  /\ secret[n].deleted = None
  /\ Goto(p, "tombstone", n)
  /\ UNCHANGED tables

\* Mutant of SoftDelete: the UPDATE does not repeat the test.
SoftDeleteUnguarded(p, n) ==
  /\ pc[p] = "tombstone"
  /\ local[p] = n
  /\ secret' = [secret EXCEPT ![n].deleted = p]
  /\ Return(p)
  /\ UNCHANGED <<version, recipient>>

\* UPDATE ... WHERE deleted_at IS NULL: a lost race changes nothing.
SoftDelete(p, n) ==
  /\ pc[p] = "tombstone"
  /\ local[p] = n
  /\ IF secret[n].deleted = None
       THEN secret' = [secret EXCEPT ![n].deleted = p]
       ELSE UNCHANGED secret
  /\ Return(p)
  /\ UNCHANGED <<version, recipient>>

-----------------------------------------------------------------------------
(* purge and rekey                                                         *)

Erased(row) ==
  IF row = None THEN None ELSE [state |-> "destroyed", envelope |-> None]

\* Every envelope goes; the tombstone is COALESCE(deleted_at, now).
Purge(p, n) ==
  /\ p \in Purgers
  /\ secret[n] # None
  /\ version' = [version EXCEPT ![n] = [v \in Numbers |-> Erased(version[n][v])]]
  /\ secret' = [secret EXCEPT ![n].deleted = IF @ = None THEN p ELSE @]
  /\ UNCHANGED <<recipient, pc, local>>

\* Mutant of Live: only what reads resolve is resealed.
LiveEnabled(row) == row # None /\ row.state = "enabled"

\* collectLiveVersions
Live(row) == row # None /\ row.state # "destroyed" /\ row.envelope # None

Resealed(row, k) == IF Live(row) THEN [row EXCEPT !.envelope.key = k] ELSE row

\* Vault.Rekey: every live version is opened with the old key, so one that
\* is sealed to another key fails the whole transaction.
Rekey(k) ==
  /\ k = recipient + 1
  /\ \A n \in Names, v \in Numbers :
       Live(version[n][v]) => version[n][v].envelope.key = recipient
  /\ version' = [n \in Names |-> [v \in Numbers |-> Resealed(version[n][v], k)]]
  /\ recipient' = k
  /\ UNCHANGED <<secret, pc, local>>

\* A kill, an error or a rollback: the tables stay as they are.
Abandon(p) ==
  /\ pc[p] # "idle"
  /\ Return(p)
  /\ UNCHANGED tables

-----------------------------------------------------------------------------

\* vault.Create: empty tables, the first key.
Init ==
  /\ secret = [n \in Names |-> None]
  /\ version = [n \in Names |-> [v \in Numbers |-> None]]
  /\ recipient = 1
  /\ pc = [p \in Procs |-> "idle"]
  /\ local = [p \in Procs |-> None]

Set(p) ==
  \/ ReadRecipient(p)
  \/ \E n \in Names, v \in Numbers, flags \in Flags : AppendVersion(p, n, v, flags)

Disable(p) ==
  \E n \in Names, v \in Numbers : LookUpVersion(p, n, v) \/ DisableVersion(p, n, v)

Delete(p) == \E n \in Names : LookUpSecret(p, n) \/ SoftDelete(p, n)

Next ==
  \/ \E p \in Setters : Set(p)
  \/ \E p \in Disablers : Disable(p)
  \/ \E p \in Deleters : Delete(p)
  \/ \E p \in Purgers, n \in Names : Purge(p, n)
  \/ \E k \in Keys : Rekey(k)
  \/ \E p \in Procs : Abandon(p)

Spec == Init /\ [][Next]_vars

-----------------------------------------------------------------------------
(* Properties.                                                             *)

\* A version has an envelope exactly until it is destroyed, whatever
\* disable, revoke or rekey was half-way when purge ran.
DestroyedErased ==
  \A n \in Names, v \in Numbers :
    Exists(n, v) => (version[n][v].state = "destroyed" <=> version[n][v].envelope = None)

\* Numbers are handed out without gaps and a version has a secret row.
Contiguous ==
  \A n \in Names, v \in Numbers :
    Exists(n, v) => secret[n] # None /\ \A w \in 1..v : Exists(n, w)

\* The newest version, unless destroyed, carries the columns of its row, so
\* the metadata check of a read fails only after that version is disabled.
NewestBound ==
  \A n \in Names, v \in Numbers :
    /\ Exists(n, v)
    /\ \A w \in Numbers : Exists(n, w) => w <= v
    /\ version[n][v].envelope # None
    => version[n][v].envelope.bound = secret[n].cols

\* secret_version is append-only: a row never goes, a number is never
\* reused, a state never goes back, what is bound never changes.
Rank(state) == CASE state = "enabled" -> 1 [] state = "disabled" -> 2 [] state = "destroyed" -> 3

RowGrows(old, new) ==
  old # None =>
    /\ new # None
    /\ Rank(old.state) <= Rank(new.state)
    /\ new.envelope = None \/ (old.envelope # None /\ new.envelope.bound = old.envelope.bound)

AppendOnly ==
  [][\A n \in Names, v \in Numbers : RowGrows(version[n][v], version'[n][v])]_vars

\* A tombstone is never replaced by another: it is set once and stays until
\* a set revives the secret.
TombstoneKept ==
  [][\A n \in Names :
       secret[n] # None /\ secret[n].deleted # None =>
         secret'[n] # None /\ secret'[n].deleted \in {None, secret[n].deleted}]_vars

\* A committed rekey leaves no envelope behind, those of disabled versions
\* and of deleted secrets included.
RekeyMovesAll ==
  [][recipient' # recipient =>
       \A n \in Names, v \in Numbers :
         version'[n][v] # None /\ version'[n][v].envelope # None =>
           version'[n][v].envelope.key = recipient']_vars

\* Every envelope is sealed to the key the vault says it is on.
OneKey ==
  \A n \in Names, v \in Numbers :
    Exists(n, v) /\ version[n][v].envelope # None =>
      version[n][v].envelope.key = recipient

\* Two-step verbs and their guarded updates come to the four atomic
\* operations of SecretLifecycle: what a verb read before another one wrote
\* never shows in the states of the versions.
Lifecycle == INSTANCE SecretLifecycle WITH
  life <- [n \in Names |-> [v \in Numbers |->
             IF Exists(n, v) THEN version[n][v].state ELSE "absent"]],
  deleted <- [n \in Names |-> secret[n] # None /\ secret[n].deleted # None]

Implements == Lifecycle!Spec
=============================================================================
