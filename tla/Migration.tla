------------------------------ MODULE Migration ------------------------------
(***************************************************************************)
(* migrate beside set, purge and rekey: the format of the vault, the frame *)
(* of each envelope, and what commits leave in the write-ahead log.        *)
(*                                                                         *)
(* A binary opens a vault of its own format only, and looks at the format  *)
(* only when it opens it.  The previous release is not in the repository:  *)
(* as migrate reads it, it differs in the frame it seals, without bound    *)
(* metadata, and in env names it does not validate.  disable and delete    *)
(* touch neither format nor envelopes; VaultStore has them.                *)
(***************************************************************************)
EXTENDS VaultStore

CONSTANTS
  Rekeyers, Migrators,   \* More processes, by verb; one may purge and rekey.
  Persistent,   \* Migrates whose user runs them until they work.
  Multiline,    \* Env names with a newline, which Seal refuses.
  Clean         \* An env name without newline and carriage return, or None.

Legacy == 1     \* The format of the previous release.
Current == 2    \* formatVersion
Formats == {Legacy, Current}

\* The verbs that free envelopes, and scrub the log after their commit.
Scrubbers == Purgers \cup Rekeyers
Freers == Scrubbers \cup Migrators

ASSUME MigrationAssumption ==
  /\ Scrubbers \cap Migrators = {}
  /\ None \notin Migrators
  /\ Persistent \subseteq Migrators
  /\ Multiline \subseteq EnvNames
  /\ Clean \in [EnvNames -> (EnvNames \ Multiline) \cup {None}]

VARIABLES
  format,     \* The format version in vault_meta.
  frame,      \* The frame of each version's envelope.
  stage,      \* What a purge, rekey or migrate does next.
  held,       \* The key a migrate has loaded, or None.
  lock,       \* The migrate that holds the flock beside the vault, or None.
  leftover,   \* Purges and rekeys whose commit freed what the log still holds.
  silent      \* History: whose last run returned without a warning.

formats == <<format, frame>>
migrateVars == <<format, frame, stage, held, lock, leftover, silent>>
allVars == <<vars, migrateVars>>

Stages == {"idle", "load", "check", "reseal", "scrub", "warn", "failed"}

\* A migrate between the two ends of runMigrate, past the lock.
Running(m) == stage[m] \in {"load", "check", "reseal", "scrub"}

MigrationTypeOK ==
  /\ TypeOK
  /\ format \in Formats
  /\ frame \in [Names -> [Numbers -> Formats]]
  /\ stage \in [Freers -> Stages]
  /\ held \in [Migrators -> Keys \cup {None}]
  /\ lock \in Migrators \cup {None}
  /\ leftover \subseteq Scrubbers
  /\ silent \subseteq Scrubbers

HasEnvelope(n, v) == Exists(n, v) /\ version[n][v].envelope # None

\* vault.Open compares the format once: a handle a binary of the previous
\* release got before the migration goes on writing after it.
Opens(release) == release <= format

-----------------------------------------------------------------------------
(* set, of either release                                                  *)

SetReads(p) ==
  /\ ReadRecipient(p)
  /\ UNCHANGED migrateVars

\* Seal refuses an env name with a newline, also one the set inherits.
Sealable(release, cols) == release = Current => cols.env \notin Multiline

SetAppends(p, n, v, flags, release) ==
  /\ Opens(release)
  /\ Sealable(release, Effective(n, flags))
  /\ AppendVersion(p, n, v, flags)
  /\ frame' = [frame EXCEPT ![n][v] = release]
  /\ UNCHANGED <<format, stage, held, lock, leftover, silent>>

SetAbandons(p) ==
  /\ Abandon(p)
  /\ UNCHANGED migrateVars

-----------------------------------------------------------------------------
(* purge and rekey, and the scrub of the log after them                    *)

\* secure_delete zeroes what a commit frees, and the log keeps it.
Frees(p) ==
  /\ stage[p] = "idle"
  /\ stage' = [stage EXCEPT ![p] = "scrub"]
  /\ leftover' = leftover \cup {p}
  /\ silent' = silent \ {p}
  /\ UNCHANGED <<format, frame, held, lock>>

\* Of either release: a purge opens no envelope.
PurgeCommits(p, n) == Purge(p, n) /\ Frees(p)

\* Every live version is opened first, in the frame of this release.
RekeyCommits(p, k, release) ==
  /\ Opens(release)
  /\ \A n \in Names, v \in Numbers : Live(version[n][v]) => frame[n][v] = release
  /\ Rekey(k)
  /\ Frees(p)

\* wal_checkpoint(TRUNCATE): a reader's snapshot or an error may block it;
\* if nothing does, the log is gone.
Checkpoint(blocked) == leftover' = IF blocked THEN leftover ELSE {}

\* The call inside Vault.Purge and Vault.Rekey, whose error is dropped.
ScrubQuietly(p, blocked) ==
  /\ stage[p] = "scrub"
  /\ Checkpoint(blocked)
  /\ stage' = [stage EXCEPT ![p] = "warn"]
  /\ UNCHANGED <<vars, formats, held, lock, silent>>

\* Mutant of Warns: the busy column of the result is not looked at.
WarnsNever(blocked) == FALSE

Warns(blocked) == blocked

\* warnIfCheckpointBlocked: it tries again, and is silent if that worked.
WarnIfBlocked(p, blocked) ==
  /\ stage[p] = "warn"
  /\ Checkpoint(blocked)
  /\ stage' = [stage EXCEPT ![p] = "idle"]
  /\ silent' = IF Warns(blocked) THEN silent ELSE silent \cup {p}
  /\ UNCHANGED <<vars, formats, held, lock>>

\* A kill after the commit: nothing is scrubbed, and nothing was said.
KillScrub(p) ==
  /\ stage[p] # "idle"
  /\ stage' = [stage EXCEPT ![p] = "idle"]
  /\ UNCHANGED <<vars, formats, held, lock, leftover, silent>>

-----------------------------------------------------------------------------
(* migrate                                                                 *)

MigrateMoves(m, label, key) ==
  /\ stage' = [stage EXCEPT ![m] = label]
  /\ held' = [held EXCEPT ![m] = key]
  /\ UNCHANGED silent

\* runMigrate goes on to its next call, or returns: then it unlocks, and so
\* does the kernel at the end of its process.
MigrateGoesOn(m, label, key) ==
  /\ MigrateMoves(m, label, key)
  /\ UNCHANGED <<vars, formats, lock, leftover>>

MigrateReturns(m, label) ==
  /\ MigrateMoves(m, label, None)
  /\ lock' = None
  /\ UNCHANGED <<vars, formats, leftover>>

\* Mutant of LockFree: LOCK_SH, which several may hold.
LockFreeShared == TRUE

\* flock with LOCK_EX and LOCK_NB
LockFree == lock = None

\* acquireMigrateLock, before anything else.
TakeLock(m) ==
  /\ stage[m] \in {"idle", "failed"}
  /\ LockFree
  /\ MigrateMoves(m, "load", None)
  /\ lock' = m
  /\ UNCHANGED <<vars, formats, leftover>>

\* "another safetybox migrate is running": an error, and nothing is held.
Refused(m) ==
  /\ stage[m] \in {"idle", "failed"}
  /\ ~LockFree
  /\ MigrateGoesOn(m, "failed", None)

\* loadIdentity: the file may be one rekey behind the vault, or a backup.
LoadIdentity(m, k) ==
  /\ stage[m] = "load"
  /\ k <= recipient
  /\ MigrateGoesOn(m, "check", k)

\* checkMigratable, outside the transaction: vault.Migrate opens the file
\* whatever its format.
CheckPasses(m) ==
  /\ stage[m] = "check"
  /\ format = Legacy
  /\ recipient = held[m]
  /\ MigrateGoesOn(m, "reseal", held[m])

CheckFails(m) ==
  /\ stage[m] = "check"
  /\ format = Legacy
  /\ recipient # held[m]
  /\ MigrateReturns(m, "failed")

\* ErrAlreadyCurrentFormat, from the check or from inside the transaction:
\* nothing to migrate, and no failure.
AlreadyCurrent(m) ==
  /\ stage[m] \in {"check", "reseal"}
  /\ format = Current
  /\ MigrateReturns(m, "idle")

\* Mutant of CleanCols: the env name is sealed as it is.
CleanColsRaw(n) == secret[n].cols

\* Mutant of CleanCols: a NULL env name comes back as the empty string.
CleanColsEmpty(n) ==
  [secret[n].cols EXCEPT !.env = IF @ = None THEN "" ELSE Clean[@]]

\* frameSafeEnvName on the columns of a row; what is empty stays NULL.
CleanCols(n) ==
  [secret[n].cols EXCEPT !.env = IF @ = None THEN None ELSE Clean[@]]

\* OpenLegacy fails on another key and on a frame that is not its own.
Unopenable(m, n, v) ==
  /\ Live(version[n][v])
  /\ version[n][v].envelope.key # held[m] \/ frame[n][v] # Legacy

\* Mutant of Migrated: the version is stored as a new one.
MigratedAnew(row, key, cols) ==
  IF Live(row) THEN [state |-> "enabled", envelope |-> [key |-> key, bound |-> cols]]
               ELSE row

Migrated(row, key, cols) ==
  IF Live(row) THEN [row EXCEPT !.envelope = [key |-> key, bound |-> cols]] ELSE row

\* Mutant of Reconciled: the column keeps the name the frame cannot carry.
ReconciledNot(n) == secret[n]

\* reconcileEnvName, once for every version that is resealed.
Reconciled(n) ==
  IF \E v \in Numbers : Live(version[n][v])
    THEN [secret[n] EXCEPT !.cols = CleanCols(n)]
    ELSE secret[n]

\* ensureFormatOne
FormatOne == format = Legacy

\* The transaction: every live version into the current frame, bound to the
\* columns of its secret as they are now, then the format.
Reseal(m) ==
  /\ stage[m] = "reseal"
  /\ FormatOne
  /\ \A n \in Names, v \in Numbers :
       /\ ~Unopenable(m, n, v)
       /\ Live(version[n][v]) => CleanCols(n).env \notin Multiline
  /\ version' = [n \in Names |-> [v \in Numbers |->
                   Migrated(version[n][v], held[m], CleanCols(n))]]
  /\ secret' = [n \in Names |-> Reconciled(n)]
  /\ frame' = [n \in Names |-> [v \in Numbers |->
                 IF Live(version[n][v]) THEN Current ELSE frame[n][v]]]
  /\ format' = Current
  /\ MigrateMoves(m, "scrub", None)
  /\ UNCHANGED <<recipient, pc, local, lock, leftover>>

\* An envelope that does not open rolls everything back.
ResealFails(m) ==
  /\ stage[m] = "reseal"
  /\ FormatOne
  /\ \E n \in Names, v \in Numbers : Unopenable(m, n, v)
  /\ MigrateReturns(m, "failed")

\* Best effort, and the verb does not warn when it is blocked.
MigrateScrubs(m, blocked) ==
  /\ stage[m] = "scrub"
  /\ Checkpoint(blocked)
  /\ MigrateMoves(m, "idle", None)
  /\ lock' = None
  /\ UNCHANGED <<vars, formats>>

\* Any other error: no identity, a wrong passphrase, another verb's write
\* transaction outlasting busy_timeout at BeginTx, a failing statement; or,
\* from "scrub", a commit that reports an error and has landed.
MigrateErrs(m) ==
  /\ Running(m)
  /\ MigrateReturns(m, "failed")

KillMigrate(m) ==
  /\ Running(m)
  /\ MigrateReturns(m, "idle")

-----------------------------------------------------------------------------

\* A vault the previous release has just created.
MigrationInit ==
  /\ Init
  /\ format = Legacy
  /\ frame = [n \in Names |-> [v \in Numbers |-> Legacy]]
  /\ stage = [p \in Freers |-> "idle"]
  /\ held = [m \in Migrators |-> None]
  /\ lock = None
  /\ leftover = {}
  /\ silent = {}

Setting(p) ==
  \/ SetReads(p)
  \/ \E n \in Names, v \in Numbers, flags \in Flags, release \in Formats :
       SetAppends(p, n, v, flags, release)
  \/ SetAbandons(p)

Scrubbing(p) ==
  \/ \E blocked \in BOOLEAN : ScrubQuietly(p, blocked) \/ WarnIfBlocked(p, blocked)
  \/ KillScrub(p)

Migrating(m) ==
  \/ TakeLock(m)
  \/ Refused(m)
  \/ \E k \in Keys : LoadIdentity(m, k)
  \/ CheckPasses(m)
  \/ CheckFails(m)
  \/ AlreadyCurrent(m)
  \/ Reseal(m)
  \/ ResealFails(m)
  \/ \E blocked \in BOOLEAN : MigrateScrubs(m, blocked)
  \/ MigrateErrs(m)
  \/ KillMigrate(m)

MigrationNext ==
  \/ \E p \in Setters : Setting(p)
  \/ \E p \in Purgers, n \in Names : PurgeCommits(p, n)
  \/ \E p \in Rekeyers, k \in Keys, release \in Formats : RekeyCommits(p, k, release)
  \/ \E p \in Scrubbers : Scrubbing(p)
  \/ \E m \in Migrators : Migrating(m)

MigrationSpec == MigrationInit /\ [][MigrationNext]_allVars

\* No run hangs: it goes on, fails or is killed.
RunEnds(m) == WF_allVars(Running(m) /\ Migrating(m))

\* The user runs migrate again until it works, also after a refusal, now and
\* then with the identity the vault is on, and not every run is killed.
MigrateFairness(m) ==
  /\ SF_allVars(TakeLock(m))
  /\ SF_allVars(LoadIdentity(m, recipient))
  /\ SF_allVars(CheckPasses(m))
  /\ SF_allVars(Reseal(m))

FairMigrationSpec ==
  /\ MigrationSpec
  /\ \A m \in Migrators : RunEnds(m)
  /\ \A m \in Persistent : MigrateFairness(m)

-----------------------------------------------------------------------------
(* Properties.                                                             *)

\* What a read of the newest version needs at the current format: the frame
\* carries the columns of the row, also where migrate cleaned the env name
\* and whatever sets ran before, beside and after it.
NewestReadable ==
  format = Current =>
    \A n \in Names, v \in Numbers :
      /\ HasEnvelope(n, v) /\ frame[n][v] = Current
      /\ \A w \in Numbers : Exists(n, w) => w <= v
      => /\ version[n][v].envelope.bound = secret[n].cols
         /\ secret[n].cols.env \notin Multiline

\* The format changes once, and together with every envelope there is, those
\* of disabled versions and deleted secrets included; each opens with the
\* key it opened with before and passes the metadata check of its row.
MigratedWhole ==
  [][format' # format =>
       /\ format' = Current
       /\ \A n \in Names, v \in Numbers :
            /\ HasEnvelope(n, v)' <=> HasEnvelope(n, v)
            /\ HasEnvelope(n, v)' =>
                 /\ frame'[n][v] = Current
                 /\ version'[n][v].envelope =
                      [key |-> version[n][v].envelope.key, bound |-> secret'[n].cols]]_allVars

\* Once a purge or rekey has returned without a warning, nothing its commit
\* freed is left in the log, whatever blocked its checkpoints in between.
SilentMeansScrubbed == silent \cap leftover = {}

\* What a migrate saw of the format in its check still holds when it gets to
\* its transaction, whoever ran in between: the vault has the old one, with
\* frames of that format only, and no other migrate is on its way there whose
\* write transaction could make this one time out (docs/commands.md:333-336).
NeverOvertaken ==
  \A m \in Migrators : stage[m] = "reseal" =>
    /\ format = Legacy
    /\ \A n \in Names, v \in Numbers : HasEnvelope(n, v) => frame[n][v] = Legacy
    /\ \A o \in Migrators \ {m} : ~Running(o)

\* An envelope that a set sealed to a key the vault has left.
Stranded ==
  \E n \in Names, v \in Numbers :
    HasEnvelope(n, v) /\ version[n][v].envelope.key # recipient

\* A user who runs migrate again and again gets the vault to the current
\* format, through kills, refusals and errors and whatever env names the previous
\* release stored, unless an envelope stays that no identity in use opens.
Migrates == []<>(format = Current \/ Stranded)
=============================================================================
