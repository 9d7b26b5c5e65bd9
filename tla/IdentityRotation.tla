--------------------------- MODULE IdentityRotation ---------------------------
(***************************************************************************)
(* Key rotation: the verbs that read and rewrite the identity file, each   *)
(* invocation a process that stops between any two system calls.           *)
(*                                                                         *)
(*   rekey   lock, heal, load, stage .new, commit the vault, swap files    *)
(*   passwd  lock, heal, load, write .tmp, rename it over the identity     *)
(*   readers get, reveal, exec, migrate: heal and load, without the lock   *)
(*   init    write the identity, create the vault, self-test               *)
(*                                                                         *)
(* A process runs one verb again and again.  The vault is seen only        *)
(* through its stored recipient; a commit of SQLite is atomic and durable. *)
(***************************************************************************)
EXTENDS IdentityFiles

CONSTANTS
  Rekeyers, Passwders, Readers, Initers,   \* The processes, by verb.
  Husk                                     \* A vault file without a schema.

Lockers == Rekeyers \cup Passwders
Procs == Lockers \cup Readers \cup Initers

ASSUME RotationAssumption ==
  /\ Rekeyers \cap Passwders = {}
  /\ Lockers \cap Readers = {}
  /\ (Lockers \cup Readers) \cap Initers = {}
  /\ None \notin Procs
  /\ Husk \notin Nat \cup {None}

VARIABLES
  vault,    \* The key the stored recipient names, None, or Husk.
  minted,   \* Keys generated so far.
  lock,     \* Holder of the flock on identity.age.lock, or None.
  pc,       \* The next system call of each process.
  held,     \* The identity file each process has decrypted, or None.
  made,     \* The identity file each process is writing, or None.
  advised   \* A refusal told the user to move .new over the identity.

vars == <<files, durable, vault, minted, lock, pc, held, made, advised>>

Labels ==
  {"idle", "heal", "healStaged", "healMove", "load", "ensure", "discard",
   "create", "fill", "sync", "txn", "swapOut", "swapIn", "swapSync",
   "replace", "replaceSync", "reserve", "schema", "selfTest", "disown",
   "dropVault"}

TypeOK ==
  /\ FilesTypeOK
  /\ vault \in Keys \cup {None, Husk}
  /\ minted \in 0..MaxKey
  /\ lock \in Procs \cup {None}
  /\ pc \in [Procs -> Labels]
  /\ held \in [Procs -> Sealed \cup {None}]
  /\ made \in [Procs -> Sealed \cup {None}]
  /\ advised \in BOOLEAN

Goto(p, label) == pc' = [pc EXCEPT ![p] = label]

\* A process ends, by returning or by dying: the kernel drops its lock.
Quit(p) ==
  /\ Goto(p, "idle")
  /\ lock' = IF lock = p THEN None ELSE lock
  /\ held' = [held EXCEPT ![p] = None]
  /\ made' = [made EXCEPT ![p] = None]

-----------------------------------------------------------------------------
(* Starting a verb.                                                        *)
\* Mutant of StartLocked: the verbs do not take the lock.
StartUnlocked(p) ==
  /\ p \in Lockers
  /\ pc[p] = "idle"
  /\ Goto(p, "heal")
  /\ UNCHANGED <<files, durable, vault, minted, lock, held, made, advised>>

\* acquireIdentityLock: non-blocking, so a busy lock is only a refusal.
StartLocked(p) ==
  /\ p \in Lockers
  /\ pc[p] = "idle"
  /\ lock = None
  /\ lock' = p
  /\ Goto(p, "heal")
  /\ UNCHANGED <<files, durable, vault, minted, held, made, advised>>

\* A read verb opens the vault and copies what it needs, then goes for
\* the identity.  The comparison with the recipient changes nothing.
StartRead(p) ==
  /\ p \in Readers
  /\ pc[p] = "idle"
  /\ vault \in Keys
  /\ Goto(p, "heal")
  /\ UNCHANGED <<files, durable, vault, minted, lock, held, made, advised>>

\* init goes ahead only if it sees no identity file.
StartInit(p) ==
  /\ p \in Initers
  /\ pc[p] = "idle"
  /\ files["id"] = None
  /\ Goto(p, "create")
  /\ UNCHANGED <<files, durable, vault, minted, lock, held, made, advised>>

-----------------------------------------------------------------------------
(* completeInterruptedRekey: three system calls, no lock of its own.       *)
\* Mutant of HealCheck: the staged file is promoted over a live identity.
HealCheckEager(p) ==
  /\ pc[p] = "heal"
  /\ Goto(p, "healStaged")
  /\ UNCHANGED <<files, durable, vault, minted, lock, held, made, advised>>

HealCheck(p) ==
  /\ pc[p] = "heal"
  /\ Goto(p, IF files["id"] # None THEN "load" ELSE "healStaged")
  /\ UNCHANGED <<files, durable, vault, minted, lock, held, made, advised>>
\* Mutant of HealStaged: no one looks for a staged file.
HealStagedNever(p) ==
  /\ pc[p] = "healStaged"
  /\ Goto(p, "load")
  /\ UNCHANGED <<files, durable, vault, minted, lock, held, made, advised>>

HealStaged(p) ==
  /\ pc[p] = "healStaged"
  /\ Goto(p, IF files["new"] # None THEN "healMove" ELSE "load")
  /\ UNCHANGED <<files, durable, vault, minted, lock, held, made, advised>>

\* A rename that finds no staged file is fine if the identity is back.
HealMove(p) ==
  /\ pc[p] = "healMove"
  /\ \/ Rename("new", "id")
     \/ files["new"] = None /\ files["id"] # None /\ UNCHANGED fileVars
  /\ Goto(p, "load")
  /\ UNCHANGED <<vault, minted, lock, held, made, advised>>

\* identity.Load with the right passphrase; a torn file does not decrypt.
\* A reader is done with the files here.
Load(p) ==
  /\ pc[p] = "load"
  /\ files["id"] # None
  /\ files["id"].whole
  /\ IF p \in Readers
       THEN Quit(p)
       ELSE /\ held' = [held EXCEPT ![p] = files["id"]]
            /\ Goto(p, IF p \in Rekeyers THEN "ensure" ELSE "discard")
            /\ UNCHANGED <<lock, made>>
  /\ UNCHANGED <<files, durable, vault, minted, advised>>

-----------------------------------------------------------------------------
(* identity.Write, shared: rekey stages .new, passwd writes .tmp, init     *)
(* writes the identity itself.                                             *)

Target(p) ==
  CASE p \in Rekeyers  -> "new"
    [] p \in Passwders -> "tmp"
    [] p \in Initers   -> "id"

\* A leftover of an earlier crash is removed before the create.
Discard(p) ==
  /\ pc[p] = "discard"
  /\ Remove(Target(p))
  /\ Goto(p, "create")
  /\ UNCHANGED <<vault, minted, lock, held, made, advised>>
\* Mutant of Draft: rekey writes the new key without a passphrase.
DraftInTheClear(p) ==
  CASE p \in Rekeyers  -> {[key |-> minted + 1, pass |-> None, whole |-> TRUE]}
    [] p \in Passwders -> [key : {held[p].key}, pass : Passes, whole : {TRUE}]
    [] p \in Initers   -> [key : {minted + 1}, pass : Passes, whole : {TRUE}]

\* What each writer seals: rekey a new key under the passphrase it was
\* given, passwd the loaded key under a new one, init both new.
Draft(p) ==
  CASE p \in Rekeyers  -> {[key |-> minted + 1, pass |-> held[p].pass, whole |-> TRUE]}
    [] p \in Passwders -> [key : {held[p].key}, pass : Passes, whole : {TRUE}]
    [] p \in Initers   -> [key : {minted + 1}, pass : Passes, whole : {TRUE}]
\* Mutant of Create: the file is opened without O_EXCL.
CreateTruncates(p) ==
  /\ pc[p] = "create"
  /\ p \notin Passwders => minted < MaxKey
  /\ minted' = IF p \in Passwders THEN minted ELSE minted + 1
  /\ \E e \in Draft(p) :
       /\ Mutate([files EXCEPT ![Target(p)] = Torn(e)])
       /\ made' = [made EXCEPT ![p] = e]
  /\ Goto(p, "fill")
  /\ UNCHANGED <<vault, lock, held, advised>>

Create(p) ==
  /\ pc[p] = "create"
  /\ p \notin Passwders => minted < MaxKey
  /\ minted' = IF p \in Passwders THEN minted ELSE minted + 1
  /\ \E e \in Draft(p) :
       /\ CreateExclusive(Target(p), e)
       /\ made' = [made EXCEPT ![p] = e]
  /\ Goto(p, "fill")
  /\ UNCHANGED <<vault, lock, held, advised>>

Fill(p) ==
  /\ pc[p] = "fill"
  /\ WriteAndSync(made[p])
  /\ Goto(p, "sync")
  /\ UNCHANGED <<vault, minted, lock, held, made, advised>>
\* Mutant of Sync: the new file's directory entry is never fsynced.
SyncSkipped(p) ==
  /\ pc[p] = "sync"
  /\ Goto(p, CASE p \in Rekeyers  -> "txn"
               [] p \in Passwders -> "replace"
               [] p \in Initers   -> "reserve")
  /\ UNCHANGED <<files, durable, vault, minted, lock, held, made, advised>>

Sync(p) ==
  /\ pc[p] = "sync"
  /\ SyncDir
  /\ Goto(p, CASE p \in Rekeyers  -> "txn"
               [] p \in Passwders -> "replace"
               [] p \in Initers   -> "reserve")
  /\ UNCHANGED <<vault, minted, lock, held, made, advised>>

\* A write or a sync that fails unlinks the file it made, by path.
WriteFails(p) ==
  /\ pc[p] \in {"fill", "sync"}
  /\ Remove(Target(p))
  /\ Quit(p)
  /\ UNCHANGED <<vault, minted, advised>>
-----------------------------------------------------------------------------
(* rekey: verify, stage, commit, swap.                                     *)

\* ensureVaultOnIdentity: on a mismatch with a staged file present the
\* refusal calls that file the live key.
Ensure(p) ==
  /\ pc[p] = "ensure"
  /\ vault \in Keys
  /\ IF vault = held[p].key
       THEN Goto(p, "discard") /\ UNCHANGED <<lock, held, made, advised>>
       ELSE Quit(p) /\ advised' = (advised \/ files["new"] # None)
  /\ UNCHANGED <<files, durable, vault, minted>>

\* Vault.Rekey in one transaction: every envelope and, last, the recipient.
Commit(p) ==
  /\ pc[p] = "txn"
  /\ vault = held[p].key
  /\ vault' = made[p].key
  /\ Goto(p, "swapOut")
  /\ UNCHANGED <<files, durable, minted, lock, held, made, advised>>

\* ErrCommitAmbiguous: the commit errored, landed or not, both files stay.
CommitAmbiguous(p) ==
  /\ pc[p] = "txn"
  /\ vault = held[p].key
  /\ vault' \in {vault, made[p].key}
  /\ Quit(p)
  /\ UNCHANGED <<files, durable, minted, advised>>

\* Any earlier failure rolled the vault back, so the staged key goes.
RekeyFails(p) ==
  /\ pc[p] = "txn"
  /\ Remove("new")
  /\ Quit(p)
  /\ UNCHANGED <<vault, minted, advised>>

SwapOut(p) ==
  /\ pc[p] = "swapOut"
  /\ Rename("id", "bak")
  /\ Goto(p, "swapIn")
  /\ UNCHANGED <<vault, minted, lock, held, made, advised>>

\* A missing staged file with the identity in place: a reader healed it.
SwapIn(p) ==
  /\ pc[p] = "swapIn"
  /\ \/ Rename("new", "id")
     \/ files["new"] = None /\ files["id"] # None /\ UNCHANGED fileVars
  /\ Goto(p, "swapSync")
  /\ UNCHANGED <<vault, minted, lock, held, made, advised>>

\* The last fsync of rekey and of passwd; the verb reports success.
FinalSync(p) ==
  /\ pc[p] \in {"swapSync", "replaceSync"}
  /\ SyncDir
  /\ Quit(p)
  /\ UNCHANGED <<vault, minted, advised>>

-----------------------------------------------------------------------------
(* passwd: identity.Replace after its Write.                               *)

Replace(p) ==
  /\ pc[p] = "replace"
  /\ Rename("tmp", "id")
  /\ Goto(p, "replaceSync")
  /\ UNCHANGED <<vault, minted, lock, held, made, advised>>

ReplaceFails(p) ==
  /\ pc[p] = "replace"
  /\ Remove("tmp")
  /\ Quit(p)
  /\ UNCHANGED <<vault, minted, advised>>

-----------------------------------------------------------------------------
(* init: vault.Create is an exclusive create and a schema transaction.     *)

Reserve(p) ==
  /\ pc[p] = "reserve"
  /\ IF vault = None
       THEN vault' = Husk /\ Goto(p, "schema")
       ELSE Goto(p, "disown") /\ UNCHANGED vault
  /\ UNCHANGED <<files, durable, minted, lock, held, made, advised>>

Schema(p) ==
  /\ pc[p] = "schema"
  /\ vault' = made[p].key
  /\ Goto(p, "selfTest")
  /\ UNCHANGED <<files, durable, minted, lock, held, made, advised>>

SchemaFails(p) ==
  /\ pc[p] = "schema"
  /\ vault' = None
  /\ Goto(p, "disown")
  /\ UNCHANGED <<files, durable, minted, lock, held, made, advised>>

\* The new file or, after the transaction, the handle does not close: this
\* error alone removes no vault file.
CloseFails(p) ==
  /\ pc[p] = "schema"
  /\ vault' \in {vault, made[p].key}
  /\ Goto(p, "disown")
  /\ UNCHANGED <<files, durable, minted, lock, held, made, advised>>

\* vault.Create failed: the identity just written is removed, by path.
Disown(p) ==
  /\ pc[p] = "disown"
  /\ Remove("id")
  /\ Quit(p)
  /\ UNCHANGED <<vault, minted, advised>>

SelfTestPasses(p) ==
  /\ pc[p] = "selfTest"
  /\ Quit(p)
  /\ UNCHANGED <<files, durable, vault, minted, advised>>

\* The self-test failed: identity first, then the vault files.
SelfTestFails(p) ==
  /\ pc[p] = "selfTest"
  /\ Remove("id")
  /\ Goto(p, "dropVault")
  /\ UNCHANGED <<vault, minted, lock, held, made, advised>>

DropVault(p) ==
  /\ pc[p] = "dropVault"
  /\ vault' = None
  /\ Quit(p)
  /\ UNCHANGED <<files, durable, minted, advised>>

-----------------------------------------------------------------------------
(* What goes wrong around the program.                                     *)

\* An error returned before anything was changed, or with nothing left to
\* undo (a failed rename or final fsync), and a kill at any point: both
\* leave the files as they are.
Abandon(p) ==
  /\ pc[p] # "idle"
  /\ Quit(p)
  /\ UNCHANGED <<files, durable, vault, minted, advised>>

PowerLoss ==
  /\ LosePower
  /\ lock' = None
  /\ pc' = [p \in Procs |-> "idle"]
  /\ held' = [p \in Procs |-> None]
  /\ made' = [p \in Procs |-> None]
  /\ UNCHANGED <<vault, minted, advised>>

\* The user follows the refusal's advice, while no locked verb runs.
RestoreStaged ==
  /\ advised
  /\ lock = None
  /\ Rename("new", "id")
  /\ advised' = FALSE
  /\ UNCHANGED <<vault, minted, lock, pc, held, made>>

-----------------------------------------------------------------------------

\* Nothing initialised yet, or an identity and the vault made for it.
Init ==
  /\ \/ /\ files = [n \in Names |-> None]
        /\ vault = None
        /\ minted = 0
     \/ /\ \E pass \in Passes :
             files = [n \in Names |->
                        IF n = "id" THEN [key |-> 1, pass |-> pass, whole |-> TRUE]
                                    ELSE None]
        /\ vault = 1
        /\ minted = 1
  /\ durable = {files}
  /\ lock = None
  /\ pc = [p \in Procs |-> "idle"]
  /\ held = [p \in Procs |-> None]
  /\ made = [p \in Procs |-> None]
  /\ advised = FALSE

Heal(p) == HealCheck(p) \/ HealStaged(p) \/ HealMove(p) \/ Load(p)

Write(p) == Discard(p) \/ Create(p) \/ Fill(p) \/ Sync(p) \/ WriteFails(p)

Rekey(p) ==
  \/ Ensure(p) \/ Commit(p) \/ CommitAmbiguous(p) \/ RekeyFails(p)
  \/ SwapOut(p) \/ SwapIn(p)

Passwd(p) == Replace(p) \/ ReplaceFails(p)

InitVerb(p) ==
  \/ StartInit(p) \/ Reserve(p) \/ Schema(p) \/ SchemaFails(p) \/ CloseFails(p)
  \/ Disown(p) \/ SelfTestPasses(p) \/ SelfTestFails(p) \/ DropVault(p)

LockedStep(p) ==
  StartLocked(p) \/ Heal(p) \/ Write(p) \/ Rekey(p) \/ Passwd(p) \/ FinalSync(p)

Environment == PowerLoss \/ RestoreStaged \/ \E p \in Procs : Abandon(p)

Next ==
  \/ \E p \in Lockers : LockedStep(p)
  \/ \E p \in Readers : StartRead(p) \/ Heal(p)
  \/ \E p \in Initers : InitVerb(p) \/ Write(p)
  \/ Environment

Spec == Init /\ [][Next]_vars

\* A running verb is not suspended forever, and users keep using the tool:
\* they retry a verb that found the lock busy and follow rekey's advice.
Fairness ==
  /\ SF_vars(RestoreStaged)
  /\ \A p \in Lockers : SF_vars(StartLocked(p)) /\ WF_vars(LockedStep(p))
  /\ \A p \in Readers : WF_vars(StartRead(p) \/ Heal(p))

FairSpec == Spec /\ Fairness

-----------------------------------------------------------------------------
(* Properties.                                                             *)

\* Whatever a power loss leaves of the directory, the key the vault is
\* sealed to is in it, at the identity path or staged beside it: no crash,
\* failed step or second invocation of rekey destroys the only key.
DurableKey ==
  vault \in Keys =>
    \A dir \in durable : HoldsKey(dir, "id", vault) \/ HoldsKey(dir, "new", vault)

\* rekey's refusal tells the user that .new is the live key and to move it
\* over the identity.  However long the user waits, that stays true.
AdviceIsSound == advised => vault \in Keys /\ HoldsKey(files, "new", vault)

\* When rekey is about to swap, the staged file opens with the passphrase
\* the identity has at that moment, so no passwd is silently undone.
CarriesPassphrase ==
  \A p \in Rekeyers :
    pc[p] = "swapOut" /\ files["new"] # None /\ files["id"] # None
      => files["new"].pass = files["id"].pass

\* completeInterruptedRekey only ever promotes the key the vault is on.
HealPromotesLiveKey ==
  [][\A p \in Procs :
       pc[p] = "healMove" /\ HealMove(p) /\ files' # files
         => HoldsKey(files', "id", vault)]_vars

\* An init that unwinds a failed vault.Create removes the identity it wrote
\* in this invocation and no other.
InitRemovesOnlyOwn ==
  [][\A p \in Initers :
       Disown(p) => files["id"] = None \/ files["id"].key = made[p].key]_vars

\* The passphrase that opens a key in a directory: that of the identity file
\* if it holds the key, else that of the staged one, which rekey's refusal
\* names and a heal promotes.
PassOf(dir, k) ==
  IF HoldsKey(dir, "id", k) THEN dir["id"].pass
  ELSE IF HoldsKey(dir, "new", k) THEN dir["new"].pass
  ELSE None

Live == INSTANCE LiveIdentity WITH
  key <- vault,
  pass <- PassOf(files, vault),
  possible <- {PassOf(dir, vault) : dir \in durable}

\* All of rekey, passwd, healing and the user's repair look like a single
\* key with a single passphrase: a rotation moves to a new key once that is
\* on disk for good, and only passwd changes what opens it.
KeepsLiveIdentity == Live!Spec

\* When init is about to report success, the identity on disk is the one
\* it made and the vault is sealed to it, however many inits ran at once.
InitReportsPair ==
  \A p \in Initers :
    pc[p] = "selfTest" => vault = made[p].key /\ HoldsKey(files, "id", vault)

\* Once kills, power losses and errors stop, the identity path comes back
\* on the vault's key and stays usable: an interrupted swap is healed, one
\* that never began is repaired through rekey's refusal, and no lock or
\* leftover file blocks either.
Usable == vault \in Keys => HoldsKey(files, "id", vault)

Uninterrupted == ~PowerLoss /\ \A p \in Procs : ~Abandon(p)

Recovers == <>[][Uninterrupted]_vars => []<>Usable
=============================================================================
