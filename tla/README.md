# safetybox in TLA+

safetybox is a command-line secret store: one SQLite file with a sealed
envelope per secret version, and one passphrase-protected age identity that
opens them. Every verb is a short-lived process. There is no daemon, so all
coordination between verbs goes through files, one advisory lock and SQLite
transactions. This directory models those verbs step by step, checks them with
TLC on small instances and proves the main invariants with TLAPS.

## The system

| Component | State | Operations |
|---|---|---|
| identity file (`internal/identity`) | `identity.age`, `.new`, `.bak`, `.tmp` and what of them is durable | `Load`, `Write`, `Replace`, `SyncDir` |
| key rotation (`cmd/rekey.go`, `cmd/passwd.go`, `cmd/helpers.go`) | the `.lock` sibling, the loaded key, the staged key | rekey, passwd, `completeInterruptedRekey` |
| initialisation (`cmd/init.go`, `vault.Create`) | identity and vault file | init with two unwindings |
| vault tables (`internal/vault/store.go`, `schema.go`) | `secret`, `secret_version`, `vault_meta` | set, disable, delete, purge, rekey |
| resolving (`cmd/get.go`, `reveal.go`, `exec.go`, `helpers.go`) | what a reader has read so far | get, reveal by name or filter, exec |
| envelope (`internal/envelope`) | a frame: tag, address, bound columns, value | `Seal`, `Open`, `OpenLegacy` |
| migration (`vault/migrate.go`, `cmd/migrate.go`) | format version, the frame of each envelope | migrate |
| WAL scrubbing (`Checkpoint`) | what the log still holds of freed envelopes | after purge, rekey and migrate |
| wiping reader (`internal/secret`) | a buffer that grows | `ReadAllWiping`, `readLineWiping` |
| no-echo prompt (`cmd/noecho.go`, `cmd/passphrase.go`, `main.go`) | the terminal's mode, a goroutine per prompt, pending signals | prompts for passphrases and values |
| listing, output, configuration | none | list, show, stale, printing, flags |

How they interact. A write verb needs only the recipient in `vault_meta`; a
read verb copies what it needs from the vault, closes it, and only then loads
the identity, healing an interrupted swap on the way. rekey joins both worlds:
it stages a new identity file, commits one vault transaction, then swaps the
files by two renames. passwd rewrites the identity file under the same lock.
Readers, set and init take no lock. migrate rewrites every envelope in one
transaction and moves the vault to a new format; a binary looks at the format
only when it opens the vault, so that a set of the previous release may still
write after the migration. Every passphrase, value, identity and payload comes
into the process through two read loops that wipe what they outgrow.

What is hard here: two stores (a directory and a database) that change in
several steps and can be cut by a kill or a power loss between any two; readers
that repair files without the lock; statements outside a transaction; an
unwinding that removes files by path; a commit that may or may not have landed;
a format checked outside the transaction that relies on it; buffers that must
not leave a secret behind on any path; a terminal that a deferred call, a
goroutine and the exit of another handler all want to restore. `PROJECT.json`
lists each such place with the property that covers it.

## The modules

`IdentityFiles` is the directory. `files` is what processes see; `durable` is
the set of directories a power loss may leave. A create, rename or remove adds
the new directory to `durable`, `SyncDir` collapses it, and `LosePower` picks
one. That is a journaling file system: metadata reaches the disk in order, any
prefix may be lost until the next fsync of the directory, and file contents are
there after their fsync. A file is *torn* from its exclusive create to the
write and fsync of its bytes. These operations follow the descriptor, not the
name, so a file renamed in between still receives them.

`IdentityRotation` extends it with the verbs. `pc` names the next system call
of each process, and every system call on the identity files or on the lock,
and every vault transaction, is one action. `held` is the decrypted identity,
`made` the file being written, `vault` the key named by the stored recipient
(`Husk` is a vault file whose schema has not been committed), `lock` the holder
of the flock and `advised` says that rekey has told the user to move `.new`
over the identity. The writers share `Create`, `Fill`, `Sync` as they share
`identity.Write`; what differs is the target and the draft. `Abandon` is a
kill, or an error that leaves nothing to undo, at any step; the failures that
do undo something have actions of their own (`WriteFails`, `RekeyFails`,
`ReplaceFails`, `SchemaFails`, `CloseFails`, `Disown`, `SelfTestFails`).

`LiveIdentity` is what the directory promises: `key`, the `pass` that opens it,
and the set `possible` of passphrases that may open it after a power loss.
`Rotate` moves to a newer key under the same passphrase and only when a power
loss can undo nothing; `ChangePass`, `Settle` and `Revert` are a passwd, an
fsync and a power loss. `IdentityRotation!KeepsLiveIdentity` maps the directory
to it: `key` is `vault`, and `PassOf` looks for the passphrase of that key at
the identity path and then beside it. A commit is a `Rotate`, the rename of a
passwd a `ChangePass` (or a stutter, when a crashed rekey has left a retired
key at the identity path), and every rename of a staged file a stutter.

`VaultStore` is the three tables. A transaction is one action. disable and
delete read first and write later, so they are two actions each, and a set
reads the recipient before its transaction, so it is two as well. `local` holds
what was read. An envelope is the key it is sealed to and the columns bound in
it; its address is the row it is stored in, because only set and rekey seal and
both pass that address. `deleted_at` is abstracted to the invocation that wrote
it, which is what tells one tombstone from another.

`SecretLifecycle` is the abstract specification of the tables: add, disable,
drop and destroy, each atomic, on the state of every version and on one flag
per secret. `VaultStore!Implements` maps the tables to it.

`VaultReads` composes the readers with `VaultStore`. Each statement a reader
runs is an action, in the order of its verb (get and exec read the recipient
last, reveal first); `Decrypt` loads the identity, compares the recipient,
opens every envelope and compares the bound columns. The key it loads is the
vault's or, until the swap of a rekey, the one before. `witness` is a history
variable: it collects what the tables showed since the reader started, and only
properties use it.

`Migration` extends `VaultStore` with the format, the frame of each envelope
and the log. `stage` names the next step of a purge, rekey or migrate;
`leftover` holds those whose commit freed an envelope that the log still has,
and `silent` is a history variable: who returned without a warning. A set, a
purge and a rekey may be of the previous release as long as the format is the
old one; a set that had its vault open by then writes a legacy frame after it.
The previous release is not in the repository: it is modelled as `migrate`
reads it, by the frame it seals, without bound metadata, and by env names with
a newline, which it accepted. For such a frame the `bound` of the model says
what the row had when it was sealed; nothing reads it. migrate is `TakeLock` or
`Refused`, then `LoadIdentity`, the checks outside the transaction, the
transaction `Reseal` with its second look at the format, and the scrub. `lock`
is the flock beside the vault. A run ends by returning, by an error that it
reports (stage `failed`: a refusal, a key that does not fit, and in
`MigrateErrs` all others, of which a busy timeout at `BeginTx` and a commit that
landed but reported an error are two) or by a kill; each of them drops the lock
if it had it, and from `failed` the user may run it again. Under the lock the
second look at the format never finds another one than the check did, which is
`NeverOvertaken`: it is there for callers of `vault.Migrate` that take no lock,
which the repository has in a test only (`migrate_test.go:103-122`) and the
model has not.

`EnvelopeFrame` is the payload of an envelope in both formats. A payload is the
sequence of its lines, and the lines of a value may look like any other line: a
tag, a blank, an address, a header line. `Open` and `OpenLegacy` are the two
parsers with their refusals.

`WipingBuffer` is the two loops, read by read: capacities are ints of `w` bits
that wrap around (`Add`), a reader may leave scratch past the count it reports,
report items together with an error, or wrap `io.EOF`. `heap` is a history
variable: what was in a buffer when the program let go of it. `NoEchoPrompt`
adds the terminal: what each prompt does between its two ioctls and its
deferred calls, and its goroutine, which may still run when the next prompt
starts. `SecretInput` composes both with `EnvelopeFrame` into one invocation of
a verb: which secrets it reads in which order, from a file or a prompt, what it
trims, compares and keeps, and what it zeroes on each way out.

`IdentityRotationProofs`, `KeySurvivalProofs`, `VaultStoreProofs`,
`LifecycleRefinement`, `VaultReadsProofs`, `MigrationProofs`,
`EnvelopeFrameProofs` and `SecretInputProofs` hold the proofs. `MCRotation`,
`MCStore` and `MCReads` add symmetry sets for TLC, `MCMigration` and
`MCSecretInput` the sets their instances are made of. An operator commented
"Mutant of X" is a wrong version of X, used by no specification: putting it in
X's place must break the property that `PROJECT.json` pairs it with, which
shows that the property is sensitive to the code.

## The runs

| Run | Instance | Shows |
|---|---|---|
| `locked_verbs` | 2 rekeys, 1 passwd, 2 passphrases, 2 keys | `DurableKey`, `AdviceIsSound`, `CarriesPassphrase`, `KeepsLiveIdentity`, `TypeOK` |
| `rotations` | 2 rekeys, 4 keys, fair | `DurableKey`, `HealPromotesLiveKey`, `Recovers` |
| `healing_reader` | 1 rekey, 1 passwd, 1 reader, 2 keys, fair | `DurableKey`, `AdviceIsSound`, `Recovers` |
| `bootstrap` | 2 inits, 1 reader, 4 keys | `InitReportsPair`, `InitRemovesOnlyOwn` |
| `vault_tables` | 1 secret, 3 versions, 2 keys, every write verb | the eight properties of `VaultStore` |
| `reads` | 1 reader of any verb, 1 secret, 2 versions, 2 keys, every write verb | `DeliversLive`, `SkipsAreReal`, `OpenFailureExplained`, `ReadsTypeOK` |
| `migration` | 2 migrates, a set of either release, a process that purges and rekeys, 1 secret, 2 versions, 2 keys, 2 env names of which one has a newline, fair | `NewestReadable`, `MigratedWhole`, `NeverOvertaken`, `SilentMeansScrubbed`, `Implements`, `Migrates`, `MigrationTypeOK` |
| `secret_input` | any verb, from files and from up to 3 prompts, 2 addresses, values of 1 or 2 lines of 5 kinds, 5-bit ints | `NothingLeft`, `ReadsWhole`, `OpenInvertsSeal`, `TerminalRestored`, `TypedInSilence`, `InputTypeOK` |
| `stale_heal` | 1 rekey, 1 reader, 3 keys | violation of `HealPromotesLiveKey` |
| `init_race` | 1 rekey, 1 init, 3 keys | violation of `InitRemovesOnlyOwn` |
| `rekey_race` | 1 set, a rekey | violation of `OneKey` |
| `false_alarm` | 1 set, 1 reader | violation of `TamperAlarmIsReal` |

The properties that carry most:

* `DurableKey`: in every directory a power loss may leave, the key the vault is
  on is in the identity file or in the staged one.
* `AdviceIsSound`: once rekey has said ".new is the live key", it stays so
  however late the user acts.
* `CarriesPassphrase`: a rekey never brings back a passphrase that a passwd has
  changed.
* `KeepsLiveIdentity`: all of rekey, passwd, healing and crashes looks like one
  key with one passphrase. It implies that some file has the vault's key (`None`
  is no passphrase), that a retired key never comes back, and that only passwd
  and a power loss change what opens it.
* `Recovers`: if kills, power losses and errors stop, the identity path comes
  back on the vault's key.
* `Implements`, `AppendOnly`, `DestroyedErased`, `TombstoneKept`: reads outside
  a transaction never show in the history of the rows.
* `NewestBound`: the newest version always passes the metadata check, so a
  mismatch means that it was disabled or erased, or that someone edited the
  file.
* `RekeyMovesAll`: a committed rekey leaves no envelope on the old key.
* `DeliversLive`, `SkipsAreReal`, `OpenFailureExplained`: what a read delivers
  was live while it ran, and what it refuses has a cause in the tables.
* `MigratedWhole`, `NewestReadable`: the format changes once and together with
  every envelope, those of disabled versions and deleted secrets included; what
  is newest can be read after it, whatever the previous release stored.
* `NeverOvertaken`, `Migrates`: between its check and its transaction no
  migrate is overtaken by another, which the lock refuses up front
  (`docs/commands.md:333-336`), and a user who runs it again after refusals,
  errors and kills gets there.
* `SilentMeansScrubbed`: a purge or rekey that says nothing has left nothing of
  what it freed in the log, whatever blocked its first checkpoint.
* `NothingLeft`, `ReadsWhole`: no buffer is let go with a secret in it, and a
  secret comes in whole or not at all.
* `OpenInvertsSeal`: no value, whatever its lines look like, makes either
  parser cut in the wrong place or take a frame of the other format.
* `TerminalRestored`, `TypedInSilence`: a late goroutine of one prompt neither
  leaves the terminal silent nor turns the echo on during the next.

### Bounds

Keys are bounded by `MaxKey`. A failed rekey uses a key up, so with `MaxKey =
2` a run has one rotation, committed or not, and with 4 it has up to three,
enough for the leftovers of one rotation (`.new`, `.bak`, a durable prefix) to
meet the next two. Two rekeys are enough because the lock admits one at a time,
and the second stands for every later one: a process starts its verb again and
again. Two passphrases tell a passphrase that was carried from one that was
not.

In the tables secrets do not interact except through the recipient, which rekey
changes for all of them, so one secret is enough; its row and versions are what
the verbs race on. Three versions give an oldest, a middle and a newest one;
two env names and one expiry tell apart a column kept, changed and cleared; two
deletes give a tombstone that could be overwritten. For `reads`, two versions
are what newest-of-enabled needs, and readers do not affect each other, so one
reader that may be any verb is enough. A `reveal` of several names is exercised
by naming the same secret twice: its two reads may see different versions and
different keys.

For `migration`, two migrates are what the lock keeps apart; one secret with two versions has
a newest one and an older one that must be resealed as well; two keys give the
identity that fits and the one that does not. One process both purges and
rekeys, because the two verbs share all of their code past the commit and any
two of them scrub one log. It has 96 176 distinct states, and liveness is
checked over all of them.

For `secret_input`, ints of five bits and chunks of one give the capacities 1,
3, 7 and 15, after which the next one leaves the range of an int: files of 0 to
15 items meet every one of them, and `OverflowIsDetected` is proved for all
widths. Three prompts are what the longest verb (passwd) has. An invocation
opens one envelope: a verb that opens several runs the same code for each.
Values of two lines out of a plain one, a blank one, the tag, an address and a
header line are enough to fake every part of a header. 382 008 distinct states.
This run alone sets `CHECK_DEADLOCK FALSE`: the process ends.

The vault tables can always take another step, and so can the readers and a
migrate. The runs on key rotation check deadlock too: a process can always
start a verb or be abandoned.

### Fairness

`FairSpec` is used by `Recovers` alone. Weak fairness of `LockedStep(p)` and of
a reader's steps says that the operating system does not suspend a process
forever. Strong fairness of `StartLocked(p)` and of `RestoreStaged` is an
assumption about users: they run the verbs again, also after a refusal on a
busy lock, and follow rekey's instruction to move `.new` into place. The lock
is non-blocking and users retry, hence strong and not weak: the lock is free
again and again but need not be free when they look. `Recovers` is a
conditional property: kills, power losses and errors must eventually stop.
Nothing is assumed of inits or of the vault tables.

`RunEnds` and `MigrateFairness` are used by `Migrates` alone. `RunEnds` is weak
fairness of each migrate that has the lock: its process is not suspended
forever and its prompt is answered or interrupted, so the run goes on, fails or
is killed; without it the lock could stay taken. `MigrateFairness` is about the
persistent migrates. Strong fairness of `TakeLock` says that the user runs
migrate again, also after a refusal, and does not always meet another run;
strong fairness of `LoadIdentity` with the vault's key, that the right identity
is given now and then; strong fairness of `CheckPasses` and `Reseal`, that not
every run is killed, fails or is overtaken by a rekey before its commit. They
are strong because the lock, a kill and an error disable them. `Migrates` is
conditional: an envelope that a racing set has sealed to a
retired key (`rekey_race`) opens with no identity in use, and migrate refuses
the vault until it is purged.

### What the violations show

`stale_heal`. `completeInterruptedRekey` is two stats and a rename, without the
lock. A reader that stopped after the first stat, in the swap window of one
rekey, may promote the file that the *next* rekey has just staged. It
overwrites the live identity file while the vault is still on its key. The same
instance violates `DurableKey`: if that second rekey is killed before its
commit, no file holds the vault's key (`.bak` holds the one before). Over a
single rotation (`healing_reader`) the unlocked heal is harmless. The code's
comment (`cmd/helpers.go:209-211`) takes it for granted that the staged file is
live.

`init_race`. init takes no lock and unwinds by path. If it runs inside the swap
window it finds no identity, writes one, fails on the existing vault and
removes whatever is at the identity path by then: the key that the rekey has
just promoted.

`rekey_race`. set reads the recipient before its transaction. A rekey that
commits in between leaves one version on the retired key. It cannot be read
with the new identity, and every later rekey refuses the whole vault until the
secret is purged.

`false_alarm`. get and `reveal <name>` read the secret's row and its newest
version in two statements. A set that changes the env name in between makes
them report tampered metadata. exec and `reveal --env/--prefix` use one
statement and are free of it.

Other behaviour the model shows and no document rules out: after a rekey that
died between its commit and its swap, passwd changes the passphrase of the
retired key; a reader in the swap window that stats the identity just before
the staged file goes reports a missing identity; get and exec may report a
recipient mismatch while a rekey runs; an init killed after its identity file
was made, or before its schema was committed, leaves files that make the next
init refuse, and so does one whose vault file or handle does not close
(`vault.go:70-72`, `vault.go:89-91`): the identity is removed, the vault stays.

On migration: a set of the previous release that had the vault open writes a
legacy frame at the new format, which reads refuse. The documents name that
limit (`README.md:68-73`, `docs/commands.md:340-347`) and tell the user to set
the secret again; that makes the newest version readable, but rekey opens every
live version and goes on refusing until the secret is purged. A purged secret
has no live version, so migrate does not repair an env name with a newline in
its row; a later set that inherits it is refused by `Seal` until `--env-name`
gives another. A scrub that is blocked after migrate is silent
(`migrate.go:77`), while purge and rekey warn: `SilentMeansScrubbed` is about
those two. On prompts: a SIGTERM at a prompt restores the echo once, and the
process reads on with the echo on (`TypedInSilence` allows for it: `received`
is not empty); an interrupt may end the process before the goroutine has
restored the terminal, so `TerminalRestored` is about verbs that return.

## The proofs

All are for arbitrary constants under the named assumptions of the modules
(`FilesAssumption`, `RotationAssumption`, `StoreAssumption`,
`MigrationAssumption`, `FrameAssumption`, `BufferAssumption`, ...). They say no
more than that bounds are positive, that processes run one verb each, that
`None` is none of the values, that a chunk fits an int, that the inputs of a
verb are sequences of items, and that a cleaned env name has no newline.

* **Types** (`IdentityRotationProofs`, `VaultStoreProofs`): one step per
  action.
* **Key survival** (`KeySurvivalProofs`): `DurableKey`, `AdviceIsSound`,
  `CarriesPassphrase` and `HealPromotesLiveKey`, for any number of rekeys,
  passwds, readers and rotations, with `Initers = {}`. `stale_heal` shows that
  they do not hold as they stand, so each theorem names what it takes:
  * `OnlyOverwritesLoseKeys`, `HealsPromoteLiveKey`: as long as every heal
    finds no identity file to replace (`HealsMissing`);
  * `StagingApartKeepsKeys`: as long as no rekey stages a key while a reader is
    between its look at the identity and its rename (`Apart`);
  * `OneRotationKeepsKeys`: with two keys, so over one rotation, nothing is
    asked of the schedule: `healing_reader` for any number of processes;
  * `KeySurvives`, `AdviceStaysSound`, `PassphraseCarried`,
    `LockedHealPromotesLiveKey`: nothing is asked where there is no reader.

  `DurableKey` alone is not inductive: a step such as `SwapOut` keeps it only
  because the staged key is already durable at that point. The invariant `Inv`
  therefore adds `Alone` (a process inside a verb other than a reader holds the
  lock) and `Stage`, which says for each label what the directory, its durable
  variants and the local variables of the holder are: `Verb`, `Healing`,
  `Current`, `Verified`, `Drafting`, `Swapping`. A reader's heal may do the
  holder's rename for it, so `Healing` and `Swapping` allow for a directory in
  which that has happened. `Advice` relates `advised` to the staged file.
  `Behind` says that an identity path behind the vault's key is behind it, with
  the live key staged, in every directory a power loss may leave as well: the
  user still remembers the advice after one. One lemma per group of actions
  shows that it is kept. `StagingApartKeepsKeys` and `OneRotationKeepsKeys`
  derive `HealsMissing` from a further invariant, `HealsHole`: while a reader
  is inside a heal, the identity path or the staged one is free. TLC checked
  every invariant before it was proved.
* **One identity** (`KeySurvivalProofs`): `KeepsOneIdentity` is the refinement
  of `LiveIdentity` under `HealsMissing`; `LockedVerbsKeepIdentity` (no reader)
  and `OneRotationKeepsIdentity` (two keys) have no hypothesis on the schedule.
  Beside `Inv` it takes `Newer` (a key that a rekey has drafted is newer than
  the vault's) and `Distinct` (in no directory a power loss may leave do both
  files have the vault's key), without which it would not be clear which
  passphrase opens it. One lemma per kind of step says what it shows:
  `StagingHidden`, `PromotionHidden`, `FillHidden`, `CommitShows`,
  `ReplaceShows`, and `LiveStep` puts them together.
* **Tables** (`VaultStoreProofs`): `DestroyedErased`, `Contiguous`,
  `AppendOnly`, `NewestBound`, `TombstoneKept` and `RekeyMovesAll`. The
  invariant adds to the types that a secret's row comes with at least one
  version (`Founded`) and what a disable or delete in progress has read: rows
  never go away, so what was looked up is still there when the UPDATE runs.
  Two more theorems are about a version sealed to a key that a rekey has left:
  `OneKeyUnlessOvertaken` says that there is none as long as no rekey commits
  between a set's read of the recipient and its transaction (`RekeysApart`),
  and `LeftBehindUntilPurged`, on no condition, that one such version keeps the
  vault on its recipient until its secret is purged.
* **Initialisation** (`IdentityRotationProofs`): `InitReportsPair` and
  `InitRemovesOnlyOwn`, for any number of inits and readers with `Lockers =
  {}`; `init_race` shows that they need it. The invariant `BootstrapInv` says
  who owns what: the exclusive create gives the identity path to one init until
  it removes the file or returns, and the reservation gives it the vault path;
  each path has one owner at most, what is there is the owner's, and without a
  staged file no reader renames anything. Beside rekeys and passwds
  (`ApartInitsUnwindOwn`, `ApartInitsHavePair`) both properties hold as long as
  an init starts only where there is no vault and no verb takes the lock while
  one runs (`InitsApart`); TLC shows that neither half is enough. The invariant
  `ApartInv` has two phases: while the vault is being founded nothing is
  staged, and once it is established no init runs.
* **Reads** (`VaultReadsProofs`): `DeliversLive`, `SkipsAreReal` and
  `OpenFailureExplained`, for any number of readers and writers. `ReadsInv`
  adds to the tables' invariant, for each reader, that every entry it has
  collected, and the recipient, are in its witness (`Seen`), and that an answer
  is about what was collected. A witness only grows, so a statement establishes
  this at the moment it reads and no writer can take it away. `AlarmsHaveCause`
  is about the property that `false_alarm` violates: it holds as long as the
  columns of the secret stay as they were read until the reader has its version
  (`RowHolds`).
* **Migration** (`MigrationProofs`): the six safety properties, among them
  `Implements` again (a migration is a stutter of `SecretLifecycle`).
  `MigrationInv` adds to `Inv` and `NewestBound` that a migrate in its
  transaction has a key (`Holds`), that the old format has legacy frames only
  (`LegacyFrames`), that a frame of the new format carries no newline
  (`FramesCarry`), that a migrate past the lock holds it (`LockHeld`) and that
  one before its transaction has the old format in front of it (`Checked`).
  `NeverOvertaken` follows from the last two: only a holder of the lock writes
  the format, so nobody can change it under one that has checked it. `Reseal` is the step that uses all of them: binding every
  live version to the cleaned columns must preserve each part at once. Two more
  theorems are about the old release beside a migration: a frame that stays is
  never repaired (`LegacyFramesAreLeft`), and if no old binary writes once the
  format is current, as `README.md:68-73` asks, every envelope is of the
  current format (`StoppedMeansCurrent`).
* **Frames** (`EnvelopeFrameProofs`): `OpenInverts`, for every address,
  metadata and value. No line of a header is blank but its last, so the first
  blank line is the terminator whatever the value holds; the tag is no address,
  so neither parser takes the other's frame.
* **Secrets** (`SecretInputProofs`): the six properties of `SecretInput`, for
  every width of int, chunk, content and number of interleaved signals, and
  `OverflowIsDetected`: the one comparison the code makes on the grown capacity
  fails exactly when the growth left the range of an int. `InputInv` is the
  conjunction of `BufferInv` (the buffer holds what has been read of its
  source, and wiped cells behind it once the loop is over), `PlaceInv` (which
  loop runs where), `KeptInv`, `TerminalInv` (the mode each pending prompt has
  saved is the original one) and `EnvelopeInv`.
* **Refinement** (`LifecycleRefinement`): `Spec => Implements`. A set is an
  `Add`, a guarded UPDATE that finds its row changed is a stutter, otherwise a
  `Disable` or `Drop`, a purge is a `Destroy`, and a rekey is a stutter.

Each theorem with a hypothesis on the schedule is the other half of a
violation. TLC shows that the property fails; the theorem shows that one kind of
step is all that makes it fail, for any number of processes. It so names a
repair that is enough:

| violation | the theorem's hypothesis | what would establish it |
|---|---|---|
| `stale_heal` | `HealsMissing` | a rename that refuses to replace (link, then unlink), or healing under the lock |
| `init_race` | `InitsApart` | init takes the lock and looks for the vault before it writes |
| `rekey_race` | `RekeysApart` | set reads the recipient inside its transaction |
| `false_alarm` | `RowHolds` | one statement, or one read transaction, for row and version |

Only model-checked: liveness (`Recovers`, `Migrates`), which the prover cannot
do, and that the violations exist, which is TLC's to show.

## Assumptions on what is external

A committed SQLite transaction is atomic, isolated and durable, and write
transactions are serialised (`_txlock=immediate`). An error of a commit is
modelled as landed or not, decided at once. An age file opens with its own key
only, and a torn one not at all. flock is held by one process and dropped by
the kernel at its end. The identity path is not a symbolic link. A truncating
checkpoint that is not blocked leaves nothing in the log.

The ioctl that restores the terminal's mode does not fail: the code drops its
error (`noecho.go:37`), and there is nothing else it could do. A reader keeps
the contract of `io.Reader`: it reports what it has put at the
front of the buffer, and may use the rest as scratch. memguard's handler wipes
and exits on SIGINT; which signals it takes is not in this repository, and one
that exits on SIGTERM as well only has fewer behaviours. `heap` counts what
this code lets go of: Go strings that age makes of a passphrase or a key
(`identity.go`), and copies a runtime or an allocator makes, are outside. The
growth of a line's capacity is not checked by the code and not bounded in the
model, because a terminal delivers at most a few KiB.

## Not modelled, and what could follow

Not modelled, because there is no state to get wrong:

* list, show and stale: single SELECTs that decrypt nothing; show's two
  statements only display rows that never go away.
* output and quoting, flags, paths and error hints: functions of one value,
  within reach of unit tests.
* what exec and reveal do with a delivered value: environment names, NUL
  checks, shell quoting and the child process change no vault state.
* `secret.Value`: a copy of the bytes that its owner destroys; its redaction is
  formatting.

Left out of a model that exists:

* permission checks: they refuse, which is part of the errors a verb may return
  at any step, and change nothing.
* an identity path that is a symbolic link: the lock's path then depends on
  where the link points when a verb starts, and the swap renames the link. It
  would take paths as data throughout `IdentityFiles`.
* "\r" before a newline, which is trimmed with it, and one on its own, which
  set trims too: one item stands for both.
* callers of `vault.Migrate` that do not take the lock of the verb: only a test
  is one.
* the composition of migrate's identity load with key rotation: `LoadIdentity`
  picks any key the vault has had, which is more than the rotation leaves on
  disk.

What could follow: aliases of the identity path; an init beside the verbs in
`LiveIdentity`, which `init_race` shows to need `InitsApart`.
