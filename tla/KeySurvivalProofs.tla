--------------------------- MODULE KeySurvivalProofs ---------------------------
(***************************************************************************)
(* The vault's key is never lost, the advice of a refused rekey stays      *)
(* right, and no new passphrase is undone, for any rekeys, passwds and     *)
(* readers and any crashes, unless a reader's heal renames the staged file *)
(* over an identity file that is there.  That never happens in a single    *)
(* rotation, nor while only the verbs that take the lock run.              *)
(* On the same condition all of it implements LiveIdentity.                *)
(***************************************************************************)
EXTENDS IdentityRotationProofs

-----------------------------------------------------------------------------
(* The hypothesis and the inductive invariant.                             *)

\* The unlocked heal of a reader does what completeInterruptedRekey is for:
\* it renames the staged file to an identity path that is free at that
\* moment.  The code tests this two system calls earlier.
HealsMissing ==
  \A p \in Readers : HealMove(p) /\ files' # files => files["id"] = None

\* A verb that takes the lock has it while it runs, so at most one does.
Alone ==
  /\ \A p \in Lockers : pc[p] # "idle" => lock = p
  /\ lock \notin Readers

\* Where a reader can be.
ReadLabels == {"idle", "heal", "healStaged", "healMove", "load"}

\* Which verb has which system calls.
Verb(p) ==
  /\ pc[p] \in {"ensure", "txn", "swapOut", "swapIn", "swapSync"} => p \in Rekeyers
  /\ pc[p] \in {"replace", "replaceSync"} => p \in Passwders
  /\ p \in Readers => pc[p] \in ReadLabels
  /\ pc[p] \notin {"reserve", "schema", "selfTest", "disown", "dropVault"}

\* A verb with the lock promotes only while the identity is missing: if it
\* comes back, a reader has promoted the staged file first.
Healing(p) ==
  p \in Lockers /\ pc[p] \in {"healStaged", "healMove"} =>
    files["id"] = None \/ files["new"] = None

\* The identity that was loaded is the one on disk until it is moved away.
Current(p) ==
  pc[p] \in {"ensure", "discard", "create", "fill", "sync", "txn", "swapOut", "replace"} =>
    held[p] # None /\ held[p].whole /\ files["id"] = held[p]

\* rekey goes on only if that identity holds the vault's key.
Verified(p) ==
  p \in Rekeyers /\ pc[p] \in {"discard", "create", "fill", "sync", "txn"} =>
    vault = held[p].key

\* What is being written: the parts it takes from the loaded identity, and
\* where it is.
Drafting(p) ==
  /\ pc[p] \in {"fill", "sync", "txn", "swapOut", "replace"} =>
       /\ made[p] \in Sealed
       /\ made[p].whole
       /\ p \in Passwders => made[p].key = held[p].key
       /\ p \in Rekeyers => made[p].pass = held[p].pass
  /\ pc[p] = "fill" => files[Target(p)] = Torn(made[p])
  /\ pc[p] \in {"sync", "txn", "swapOut", "replace"} => files[Target(p)] = made[p]
  /\ pc[p] = "txn" => durable = {files}

\* Between the commit and the end of the swap the staged file is the live
\* key, until a reader has put it in place.
Swapping(p) ==
  /\ pc[p] = "swapOut" => HoldsKey(files, "new", vault)
  /\ pc[p] = "swapIn" =>
       \/ HoldsKey(files, "new", vault)
       \/ files["new"] = None /\ HoldsKey(files, "id", vault)
  /\ pc[p] \in {"swapOut", "swapIn", "swapSync"} => ~advised

Stage(p) ==
  Verb(p) /\ Healing(p) /\ Current(p) /\ Verified(p) /\ Drafting(p) /\ Swapping(p)

\* While the advice stands the identity path holds another key, so no rekey
\* gets as far as discarding the staged file.
Advice ==
  advised =>
    /\ vault \in Keys
    /\ HoldsKey(files, "new", vault)
    /\ files["id"] # None
    /\ files["id"].key # vault

\* The identity path holds a key that the vault has left.
IsBehind(dir) == dir["id"] # None /\ dir["id"].key # vault

\* It comes to that by the commit of a rekey alone, which has fsynced the
\* staged file, so that no power loss takes back what the advice relies on.
Behind ==
  vault \in Keys /\ IsBehind(files) =>
    \A dir \in durable : HoldsKey(dir, "new", vault) /\ IsBehind(dir)

Inv ==
  /\ Typing
  /\ Alone
  /\ \A p \in Procs : Stage(p)
  /\ Advice
  /\ Behind
  /\ DurableKey

-----------------------------------------------------------------------------
(* Steps of one process leave the others idle.                             *)

\* An idle process asks nothing of the state.
LEMMA IdleStage ==
  ASSUME NEW p, pc[p] = "idle"
  PROVE  Stage(p)
BY DEF ReadLabels, Stage, Verb, Healing, Current, Verified, Drafting, Swapping

\* The same in the next state.
LEMMA IdleStageNext ==
  ASSUME NEW p, pc'[p] = "idle"
  PROVE  Stage(p)'
BY DEF ReadLabels, Stage, Verb, Healing, Current, Verified, Drafting, Swapping

\* A reader that is where readers can be has no more to it.
LEMMA ReaderStageNext ==
  ASSUME NEW q \in Readers, pc'[q] \in ReadLabels
  PROVE  Stage(q)'
BY RotationAssumption
DEF ReadLabels, Stage, Verb, Healing, Current, Verified, Drafting, Swapping, Lockers

\* Beside a verb that has the lock, or takes it, no other locked verb runs,
\* and its steps move no reader.
LEMMA OthersIdle ==
  ASSUME Initers = {}, Typing, Alone, \A q \in Procs : Stage(q),
         NEW p \in Lockers, NEW label \in Labels, Goto(p, label),
         lock' = p, lock = p \/ lock = None
  PROVE  Alone' /\ \A q \in Procs \ {p} : Stage(q)'
<1>1. \A q \in Procs \ {p} : pc'[q] = pc[q]
  BY DEF Goto, Typing, TypeOK
<1>2. \A q \in Lockers \ {p} : pc'[q] = "idle"
  BY <1>1, RotationAssumption DEF Alone, Procs
<1>3. \A q \in Readers : pc'[q] \in ReadLabels /\ q # p
  BY <1>1, RotationAssumption DEF Stage, Verb, Procs
<1>4. Alone'
  BY <1>2, RotationAssumption DEF Alone
<1> QED
  BY <1>2, <1>3, <1>4, IdleStageNext, ReaderStageNext DEF Procs

\* Once the process that has the lock ends, no locked verb runs.
LEMMA AllIdle ==
  ASSUME Initers = {}, Typing, Alone, \A q \in Procs : Stage(q),
         NEW p \in Lockers, pc[p] # "idle", Quit(p)
  PROVE  Alone' /\ \A q \in Procs : Stage(q)'
<1>0. p \in Procs /\ lock = p /\ lock' = None
  BY DEF Alone, Quit, Procs
<1>1. \A q \in Procs : pc'[q] = IF q = p THEN "idle" ELSE pc[q]
  BY <1>0 DEF Quit, Goto, Typing, TypeOK
<1>2. \A q \in Lockers : pc'[q] = "idle"
  BY <1>0, <1>1, RotationAssumption DEF Alone, Procs
<1>3. \A q \in Readers : pc'[q] \in ReadLabels
  BY <1>1 DEF Stage, Verb, Procs, ReadLabels
<1>4. Alone'
  BY <1>0, <1>2, RotationAssumption DEF Alone, Procs
<1> QED
  BY <1>2, <1>3, <1>4, IdleStageNext, ReaderStageNext DEF Procs

\* A reader's step leaves the locked verbs where they are.
LEMMA ReaderAlone ==
  ASSUME Typing, Alone, NEW p \in Readers, NEW label \in Labels, Goto(p, label),
         lock' = lock
  PROVE  Alone'
<1>1. \A q \in Lockers : pc'[q] = pc[q]
  BY RotationAssumption DEF Goto, Typing, TypeOK, Procs
<1> QED
  BY <1>1 DEF Alone

\* And unless it renames, it leaves every stage as it was.
LEMMA ReaderMoves ==
  ASSUME Initers = {}, Typing, Alone, \A q \in Procs : Stage(q), Advice, DurableKey,
         NEW p \in Readers, NEW label \in ReadLabels, Goto(p, label),
         UNCHANGED <<files, durable, vault, lock, advised>>,
         \A q \in Lockers : held'[q] = held[q] /\ made'[q] = made[q]
  PROVE  Alone' /\ (\A q \in Procs : Stage(q)') /\ Advice' /\ DurableKey'
<1>0. label \in Labels
  BY DEF ReadLabels, Labels
<1>1. \A q \in Procs : pc'[q] = IF q = p THEN label ELSE pc[q]
  BY DEF Goto, Typing, TypeOK, Procs
<1>2. \A q \in Readers : Stage(q)'
  BY <1>1, ReaderStageNext DEF Stage, Verb, Procs
<1>3. \A q \in Lockers : pc'[q] = pc[q]
  BY <1>1, RotationAssumption DEF Procs
<1>4. ASSUME NEW q \in Lockers PROVE Stage(q)'
  <2>1. Stage(q) /\ pc'[q] = pc[q] /\ held'[q] = held[q] /\ made'[q] = made[q]
    BY <1>3 DEF Procs
  <2> QED
    BY <2>1 DEF Stage, Verb, Healing, Current, Verified, Drafting, Swapping, HoldsKey
<1>5. Alone'
  BY <1>0, ReaderAlone
<1>6. Advice' /\ DurableKey'
  BY DEF Advice, DurableKey, HoldsKey
<1> QED
  BY <1>2, <1>4, <1>5, <1>6 DEF Procs

-----------------------------------------------------------------------------
(* What the operations on the directory do to the vault's key.             *)

Safe(dir, k) == HoldsKey(dir, "id", k) \/ HoldsKey(dir, "new", k)

\* A change loses nothing if the changed directory still has the key.
LEMMA MutateKeeps ==
  ASSUME DurableKey, vault' = vault, NEW dir, Mutate(dir),
         vault \in Keys => Safe(dir, vault)
  PROVE  DurableKey'
BY DEF DurableKey, Mutate, Safe

\* Filling a torn file takes no key away.
LEMMA FillKeepsKey ==
  ASSUME NEW dir \in Directory, NEW n \in Names, NEW k, NEW e \in Sealed, HoldsKey(dir, n, k)
  PROVE  HoldsKey(Filled(dir, e), n, k)
<1>1. dir[n] # Torn(e)
  BY DEF HoldsKey, Torn, Sealed
<1> QED
  BY <1>1 DEF HoldsKey, Filled

\* So a write keeps what every snapshot had.
LEMMA FillKeeps ==
  ASSUME Typing, DurableKey, vault' = vault, NEW e \in Sealed, WriteAndSync(e)
  PROVE  DurableKey'
<1>1. durable \subseteq Directory /\ "id" \in Names /\ "new" \in Names
  BY DEF Typing, TypeOK, FilesTypeOK, Names
<1> QED
  BY <1>1, FillKeepsKey DEF DurableKey, WriteAndSync

\* fsync forgets the older snapshots.
LEMMA SyncKeeps ==
  ASSUME Typing, DurableKey, vault' = vault, SyncDir
  PROVE  DurableKey'
BY DEF Typing, TypeOK, FilesTypeOK, DurableKey, SyncDir

-----------------------------------------------------------------------------
(* An identity path that is behind the vault.                              *)

\* A change that does not bring it behind, nor touches the staged file of one
\* that is.
LEMMA MutateBehind ==
  ASSUME Behind, vault' = vault, NEW dir, Mutate(dir),
         IsBehind(dir) => IsBehind(files) /\ dir["new"] = files["new"],
         files \in durable
  PROVE  Behind'
<1> SUFFICES ASSUME vault \in Keys, IsBehind(dir)
             PROVE  \A d \in durable' : HoldsKey(d, "new", vault) /\ IsBehind(d)
  BY DEF Behind, Mutate, IsBehind
<1>1. HoldsKey(dir, "new", vault)
  BY DEF Behind, HoldsKey
<1> QED
  BY <1>1 DEF Behind, Mutate

\* Filling a file changes no key.
LEMMA FillBehind ==
  ASSUME Typing, Behind, vault' = vault, NEW e \in Sealed, WriteAndSync(e)
  PROVE  Behind'
<1>1. /\ files \in Directory /\ durable \subseteq Directory
      /\ "id" \in Names /\ "new" \in Names
  BY DEF Typing, TypeOK, FilesTypeOK, Names
<1>2. ASSUME NEW dir \in Directory PROVE IsBehind(Filled(dir, e)) <=> IsBehind(dir)
  <2>1. Torn(e) # None /\ e # None /\ Torn(e).key = e.key
    BY FilesAssumption DEF Torn, Sealed
  <2>2. CASE dir["id"] = Torn(e)
    <3>1. Filled(dir, e)["id"] = e
      BY <1>1, <2>2 DEF Filled
    <3> QED
      BY <2>1, <2>2, <3>1 DEF IsBehind
  <2>3. CASE dir["id"] # Torn(e)
    BY <1>1, <2>3 DEF IsBehind, Filled
  <2> QED
    BY <2>2, <2>3
<1>3. vault \in Keys /\ IsBehind(files)' =>
        \A dir \in durable : HoldsKey(dir, "new", vault) /\ IsBehind(dir)
  BY <1>1, <1>2 DEF WriteAndSync, Behind, IsBehind
<1>4. ASSUME NEW dir \in durable, HoldsKey(dir, "new", vault), IsBehind(dir)
      PROVE  HoldsKey(Filled(dir, e), "new", vault) /\ IsBehind(Filled(dir, e))
  BY <1>1, <1>2, <1>4, FillKeepsKey
<1> QED
  BY <1>3, <1>4 DEF WriteAndSync, Behind, IsBehind, HoldsKey

\* Every step keeps it so, unless a reader's heal overwrites.
LEMMA BehindStep ==
  ASSUME Initers = {}, Inv, [Next]_vars, [HealsMissing]_vars
  PROVE  Behind'
<1>0. /\ Typing /\ Advice /\ Behind /\ DurableKey
      /\ files \in durable /\ files \in Directory
      /\ "id" \in Names /\ "new" \in Names /\ "tmp" \in Names /\ "bak" \in Names
      /\ \A p \in Procs : Stage(p)
      /\ Procs = Lockers \cup Readers
      /\ Lockers = Rekeyers \cup Passwders /\ Rekeyers \cap Passwders = {}
  BY RotationAssumption DEF Inv, Typing, TypeOK, FilesTypeOK, Names, Procs, Lockers
<1>1. CASE UNCHANGED <<files, durable, vault>>
  BY <1>0, <1>1 DEF Behind, IsBehind, HoldsKey
<1>2. ASSUME NEW dir, Mutate(dir), vault' = vault, dir["id"] = None \/ dir["id"].key = vault
      PROVE  Behind'
  BY <1>0, <1>2, MutateBehind DEF IsBehind
<1>3. CASE Rename("new", "id") /\ vault' = vault /\ HoldsKey(files, "new", vault)
  <2>1. Mutate([files EXCEPT !["id"] = files["new"], !["new"] = None])
    BY <1>3 DEF Rename
  <2> QED
    BY <1>0, <1>2, <1>3, <2>1 DEF HoldsKey, Directory, Names
<1>4. ASSUME NEW p \in Lockers, Discard(p) \/ WriteFails(p) \/ Create(p) \/ ReplaceFails(p)
                                \/ RekeyFails(p)
      PROVE  Behind'
  <2>1. p \in Rekeyers /\ ~ReplaceFails(p) => HoldsKey(files, "id", vault)
    BY <1>0, <1>4
    DEF Discard, WriteFails, Create, RekeyFails, Stage, Verb, Current, Verified, HoldsKey
  <2>2. PICK n \in {"new", "tmp"} :
          /\ \E e : Mutate([files EXCEPT ![n] = e])
          /\ n = "new" => p \in Rekeyers /\ ~ReplaceFails(p)
    BY <1>0, <1>4
    DEF Discard, WriteFails, Create, ReplaceFails, RekeyFails, Remove, CreateExclusive, Target,
        Stage, Verb
  <2>3. PICK e : Mutate([files EXCEPT ![n] = e])
    BY <2>2
  <2> DEFINE dir == [files EXCEPT ![n] = e]
  <2>4. /\ Mutate(dir) /\ dir["id"] = files["id"]
        /\ n = "tmp" => dir["new"] = files["new"]
    BY <1>0, <2>3, <2>2 DEF Directory, Names
  <2>5. vault' = vault
    BY <1>4 DEF Discard, WriteFails, Create, ReplaceFails, RekeyFails
  <2>6. IsBehind(dir) => IsBehind(files) /\ dir["new"] = files["new"]
    BY <2>1, <2>2, <2>4 DEF IsBehind, HoldsKey
  <2> HIDE DEF dir
  <2> QED
    BY <1>0, <2>4, <2>5, <2>6, MutateBehind
<1>5. ASSUME NEW p \in Lockers, Fill(p) PROVE Behind'
  BY <1>0, <1>5, FillBehind DEF Fill, Stage, Drafting
<1>6. ASSUME NEW p \in Lockers, Sync(p) \/ FinalSync(p) PROVE Behind'
  BY <1>0, <1>6 DEF Sync, FinalSync, SyncDir, Behind, IsBehind, HoldsKey
<1>7. ASSUME NEW p \in Lockers, Commit(p) \/ CommitAmbiguous(p) PROVE Behind'
  <2>1. /\ durable = {files} /\ files["new"] = made[p]
        /\ made[p] \in Sealed /\ made[p].whole
        /\ UNCHANGED <<files, durable>> /\ vault' \in {vault, made[p].key}
    BY <1>0, <1>7 DEF Commit, CommitAmbiguous, Stage, Verb, Drafting, Target
  <2>2. HoldsKey(files, "new", made[p].key)
    BY <2>1, FilesAssumption DEF HoldsKey
  <2> QED
    BY <1>0, <2>1, <2>2 DEF Behind, IsBehind, HoldsKey
<1>8. ASSUME NEW p \in Lockers, SwapOut(p) PROVE Behind'
  <2>1. Mutate([files EXCEPT !["bak"] = files["id"], !["id"] = None]) /\ vault' = vault
    BY <1>8 DEF SwapOut, Rename
  <2> QED
    BY <1>0, <1>2, <2>1 DEF Directory, Names
<1>9. ASSUME NEW p \in Lockers, SwapIn(p) PROVE Behind'
  BY <1>0, <1>1, <1>3, <1>9 DEF SwapIn, Stage, Swapping, Rename, fileVars
<1>10. ASSUME NEW p \in Lockers, Replace(p) PROVE Behind'
  <2>1. /\ files["id"] # None /\ files["tmp"].key = files["id"].key
        /\ vault' = vault
        /\ Mutate([files EXCEPT !["id"] = files["tmp"], !["tmp"] = None])
    BY <1>0, <1>10, FilesAssumption
    DEF Replace, Rename, Stage, Verb, Current, Drafting, Target
  <2> DEFINE dir == [files EXCEPT !["id"] = files["tmp"], !["tmp"] = None]
  <2>2. dir["id"] = files["tmp"] /\ dir["new"] = files["new"]
    BY <1>0 DEF Directory, Names
  <2>3. IsBehind(dir) => IsBehind(files) /\ dir["new"] = files["new"]
    BY <2>1, <2>2 DEF IsBehind
  <2>4. Mutate(dir)
    BY <2>1
  <2> HIDE DEF dir
  <2> QED
    BY <1>0, <2>1, <2>3, <2>4, MutateBehind
<1>11. ASSUME NEW p \in Procs, HealMove(p) PROVE Behind'
  <2>1. CASE UNCHANGED fileVars
    BY <1>1, <1>11, <2>1 DEF HealMove, fileVars
  <2>2. CASE Rename("new", "id")
    <3>1. files["new"] # None /\ files' = [files EXCEPT !["id"] = files["new"], !["new"] = None]
      BY <2>2 DEF Rename, Mutate
    <3>2. files' # files
      BY <1>0, <3>1 DEF Directory, Names
    <3>3. files["id"] = None
      BY <1>0, <1>11, <3>1, <3>2 DEF HealMove, HealsMissing, Stage, Healing, vars
    <3>4. vault \in Keys => HoldsKey(files, "new", vault)
      BY <1>0, <3>3 DEF DurableKey, HoldsKey
    <3>5. vault' = vault
      BY <1>11 DEF HealMove
    <3> QED
      BY <1>3, <2>2, <3>4, <3>5 DEF Behind
  <2> QED
    BY <1>11, <2>1, <2>2 DEF HealMove
<1>12. CASE PowerLoss
  <2>1. PICK dir \in durable : files' = dir /\ durable' = {dir} /\ vault' = vault
    BY <1>12 DEF PowerLoss, LosePower
  <2> QED
    BY <1>0, <2>1 DEF DurableKey, Behind, IsBehind, HoldsKey
<1>13. CASE RestoreStaged
  BY <1>0, <1>3, <1>13 DEF RestoreStaged, Advice
<1>14. ASSUME NEW p \in Procs,
              \/ StartLocked(p) \/ StartRead(p) \/ HealCheck(p) \/ HealStaged(p) \/ Load(p)
              \/ Ensure(p) \/ Abandon(p)
       PROVE  Behind'
  BY <1>1, <1>14 DEF StartLocked, StartRead, HealCheck, HealStaged, Load, Ensure, Abandon
<1>15. CASE UNCHANGED vars
  BY <1>1, <1>15 DEF vars
<1> QED
  BY <1>0, <1>4, <1>5, <1>6, <1>7, <1>8, <1>9, <1>10, <1>11, <1>12, <1>13, <1>14, <1>15
  DEF Next, Environment, LockedStep, Heal, Write, Rekey, Passwd

-----------------------------------------------------------------------------
(* Preservation, one step per action.                                      *)

\* No step breaks the invariant, unless a reader's heal overwrites.
LEMMA InvStep ==
  ASSUME Initers = {}, Inv, [Next]_vars, [HealsMissing]_vars
  PROVE  Inv'
<1> DEFINE Rest == Alone' /\ (\A q \in Procs : Stage(q)') /\ Advice' /\ DurableKey'
<1>0. /\ Typing' /\ Typing /\ Alone /\ Advice /\ Behind /\ Behind' /\ DurableKey
      /\ Procs = Lockers \cup Readers
      /\ Lockers \cap Readers = {}
      /\ \A q \in Procs : Stage(q)
  BY NextTyping, BehindStep, RotationAssumption DEF Inv, Procs
<1>1. ASSUME NEW p \in Lockers, StartLocked(p) PROVE Rest
  <2>1. Alone' /\ \A q \in Procs \ {p} : Stage(q)'
    BY <1>0, <1>1, OthersIdle DEF StartLocked, Labels
  <2>2. Stage(p)'
    BY <1>0, <1>1 DEF Stage, Verb, Healing, Current, Verified, Drafting, Swapping, StartLocked, Goto, Typing, TypeOK
  <2>3. Advice' /\ DurableKey'
    BY <1>0, <1>1 DEF StartLocked, Advice, DurableKey
  <2> QED
    BY <2>1, <2>2, <2>3
<1>2. ASSUME NEW p \in Lockers, HealCheck(p) PROVE Rest
  <2>1. Alone' /\ \A q \in Procs \ {p} : Stage(q)'
    BY <1>0, <1>2, OthersIdle DEF HealCheck, Labels, Alone
  <2>2. Stage(p)'
    BY <1>0, <1>2 DEF Stage, Verb, Healing, Current, Verified, Drafting, Swapping, HealCheck, Goto, Typing, TypeOK
  <2>3. Advice' /\ DurableKey'
    BY <1>0, <1>2 DEF HealCheck, Advice, DurableKey
  <2> QED
    BY <2>1, <2>2, <2>3
<1>3. ASSUME NEW p \in Lockers, HealStaged(p) PROVE Rest
  <2>1. Alone' /\ \A q \in Procs \ {p} : Stage(q)'
    BY <1>0, <1>3, OthersIdle DEF HealStaged, Labels, Alone
  <2>2. Stage(p)'
    BY <1>0, <1>3 DEF Stage, Verb, Healing, Current, Verified, Drafting, Swapping, HealStaged, Goto, Typing, TypeOK
  <2>3. Advice' /\ DurableKey'
    BY <1>0, <1>3 DEF HealStaged, Advice, DurableKey
  <2> QED
    BY <2>1, <2>2, <2>3
<1>4. ASSUME NEW p \in Lockers, HealMove(p) PROVE Rest
  <2>1. Alone' /\ \A q \in Procs \ {p} : Stage(q)'
    BY <1>0, <1>4, OthersIdle DEF HealMove, Labels, Alone
  <2>2. Stage(p)'
    BY <1>0, <1>4 DEF Stage, Verb, Healing, Current, Verified, Drafting, Swapping, HealMove, Goto, Typing, TypeOK
  <2>3. CASE UNCHANGED fileVars
    <3>1. Advice' /\ DurableKey'
      BY <1>0, <1>4, <2>3 DEF HealMove, fileVars, Advice, DurableKey, HoldsKey
    <3> QED
      BY <2>1, <2>2, <3>1
  <2>4. CASE Rename("new", "id")
    <3>1. files["id"] = None
      BY <1>0, <1>4, <2>4 DEF HealMove, Rename, Stage, Healing
    <3>2. ~advised /\ (vault \in Keys => HoldsKey(files, "new", vault))
      BY <1>0, <3>1 DEF Advice, DurableKey, HoldsKey, Typing, TypeOK, FilesTypeOK
    <3>3. Advice'
      BY <1>4, <3>2 DEF HealMove, Advice
    <3>4. vault \in Keys => Safe([files EXCEPT !["id"] = files["new"], !["new"] = None], vault)
      BY <1>0, <3>2 DEF Safe, HoldsKey, Typing, TypeOK, FilesTypeOK, Directory, Names
    <3>5. DurableKey'
      BY <1>0, <1>4, <2>4, <3>4, MutateKeeps DEF HealMove, Rename
    <3> QED
      BY <2>1, <2>2, <3>3, <3>5
  <2> QED
    BY <1>4, <2>3, <2>4 DEF HealMove
<1>5. ASSUME NEW p \in Lockers, Load(p) PROVE Rest
  <2>1. Alone' /\ \A q \in Procs \ {p} : Stage(q)'
    BY <1>0, <1>5, OthersIdle DEF Load, Labels, Alone
  <2>2. Stage(p)'
    BY <1>0, <1>5, RotationAssumption
    DEF Stage, Verb, Healing, Current, Verified, Drafting, Swapping, Load, Goto, Typing, TypeOK, Lockers
  <2>3. Advice' /\ DurableKey'
    BY <1>0, <1>5 DEF Load, Advice, DurableKey
  <2> QED
    BY <2>1, <2>2, <2>3
<1>6. ASSUME NEW p \in Lockers, Discard(p) PROVE Rest
  <2>1. Alone' /\ \A q \in Procs \ {p} : Stage(q)'
    BY <1>0, <1>6, OthersIdle DEF Discard, Labels, Alone
  <2>2. /\ files' = [files EXCEPT ![Target(p)] = None]
        /\ Target(p) = IF p \in Rekeyers THEN "new" ELSE "tmp"
    BY <1>6, RotationAssumption DEF Discard, Remove, Mutate, Target, Lockers
  <2>3. files'["id"] = files["id"]
    BY <1>0, <2>2 DEF Typing, TypeOK, FilesTypeOK, Directory, Names
  <2>4. Stage(p)'
    BY <1>0, <1>6, <2>3 DEF Stage, Verb, Healing, Current, Verified, Drafting, Swapping, Discard, Goto, Typing, TypeOK
  <2>5. p \in Rekeyers => HoldsKey(files, "id", vault) /\ ~advised
    BY <1>0, <1>6 DEF Stage, Current, Verified, Discard, HoldsKey, Advice
  <2>6. Advice'
    BY <1>0, <1>6, <2>2, <2>3, <2>5
    DEF Discard, Advice, HoldsKey, Typing, TypeOK, FilesTypeOK, Directory, Names
  <2>7. vault \in Keys => Safe(files', vault)
    BY <1>0, <2>2, <2>3, <2>5
    DEF Safe, DurableKey, HoldsKey, Typing, TypeOK, FilesTypeOK, Directory, Names
  <2>8. DurableKey'
    BY <1>0, <1>6, <2>7, MutateKeeps DEF Discard, Remove, Mutate
  <2> QED
    BY <2>1, <2>4, <2>6, <2>8
<1>7. ASSUME NEW p \in Lockers, Create(p) PROVE Rest
  <2>0. PICK e \in Draft(p) : CreateExclusive(Target(p), e) /\ made' = [made EXCEPT ![p] = e]
    BY <1>7 DEF Create
  <2>1. Alone' /\ \A q \in Procs \ {p} : Stage(q)'
    BY <1>0, <1>7, OthersIdle DEF Create, Labels, Alone
  <2>2. /\ files' = [files EXCEPT ![Target(p)] = Torn(e)]
        /\ files[Target(p)] = None
        /\ Target(p) = IF p \in Rekeyers THEN "new" ELSE "tmp"
    BY <2>0, RotationAssumption DEF CreateExclusive, Mutate, Target, Lockers
  <2>3. files'["id"] = files["id"] /\ files'[Target(p)] = Torn(e)
    BY <1>0, <2>2 DEF Typing, TypeOK, FilesTypeOK, Directory, Names
  <2>4. /\ e \in Sealed
        /\ e.whole
        /\ p \in Passwders => e.key = held[p].key
        /\ p \in Rekeyers => e.pass = held[p].pass
    <3>1. e \in Sealed
      BY <1>0, <1>7, DraftTyping DEF Create
    <3>2. CASE p \in Rekeyers
      <4>1. e = [key |-> minted + 1, pass |-> held[p].pass, whole |-> TRUE]
        BY <3>2, RotationAssumption DEF Draft, Lockers
      <4> QED
        BY <3>1, <3>2, <4>1, RotationAssumption
    <3>3. CASE p \in Passwders
      <4>1. e \in [key : {held[p].key}, pass : Passes, whole : {TRUE}]
        BY <3>3, RotationAssumption DEF Draft, Lockers
      <4> QED
        BY <3>1, <3>3, <4>1, RotationAssumption
    <3> QED
      BY <3>2, <3>3 DEF Lockers
  <2>5. Stage(p)'
    BY <1>0, <1>7, <2>0, <2>3, <2>4 DEF Stage, Verb, Healing, Current, Verified, Drafting, Swapping, Create, Goto, Target, Typing, TypeOK
  <2>6. Advice'
    BY <1>0, <1>7, <2>2, <2>3
    DEF Create, Advice, HoldsKey, Typing, TypeOK, FilesTypeOK, Directory, Names
  <2>7. vault \in Keys => Safe(files', vault)
    BY <1>0, <2>2, <2>3
    DEF Safe, DurableKey, HoldsKey, Typing, TypeOK, FilesTypeOK, Directory, Names
  <2>8. DurableKey'
    BY <1>0, <1>7, <2>0, <2>7, MutateKeeps DEF Create, CreateExclusive, Mutate
  <2> QED
    BY <2>1, <2>5, <2>6, <2>8
<1>8. ASSUME NEW p \in Lockers, Fill(p) PROVE Rest
  <2>1. Alone' /\ \A q \in Procs \ {p} : Stage(q)'
    BY <1>0, <1>8, OthersIdle DEF Fill, Labels, Alone
  <2>2. /\ made[p] \in Sealed
        /\ files["id"] # None
        /\ files["id"].whole
        /\ files[Target(p)] = Torn(made[p])
        /\ Target(p) \in Names
    BY <1>0, <1>8, TargetTyping DEF Stage, Current, Drafting, Fill
  <2>3. files' = Filled(files, made[p])
    BY <1>8 DEF Fill, WriteAndSync
  <2>4. files'["id"] = files["id"]
    BY <2>2, <2>3 DEF Filled, Torn, Sealed, Names
  <2>5. files'[Target(p)] = made[p]
    BY <2>2, <2>3 DEF Filled
  <2>6. Stage(p)'
    BY <1>0, <1>8, <2>4, <2>5 DEF Stage, Verb, Healing, Current, Verified, Drafting, Swapping, Fill, Goto, Target, Typing, TypeOK
  <2>7. Advice'
    BY <1>0, <1>8, <2>2, <2>3, <2>4, FillKeepsKey
    DEF Fill, Advice, Typing, TypeOK, FilesTypeOK, Names
  <2>8. DurableKey'
    BY <1>0, <1>8, <2>2, FillKeeps DEF Fill
  <2> QED
    BY <2>1, <2>6, <2>7, <2>8
<1>9. ASSUME NEW p \in Lockers, Sync(p) PROVE Rest
  <2>0. Goto(p, IF p \in Rekeyers THEN "txn" ELSE "replace")
    BY <1>9, RotationAssumption DEF Sync, Lockers
  <2>1. Alone' /\ \A q \in Procs \ {p} : Stage(q)'
    BY <1>0, <1>9, <2>0, OthersIdle DEF Sync, Labels, Alone
  <2>2. Stage(p)'
    BY <1>0, <1>9, <2>0, RotationAssumption
    DEF Stage, Verb, Healing, Current, Verified, Drafting, Swapping, Sync, SyncDir, Goto, Target, Typing, TypeOK, Lockers
  <2>3. Advice' /\ DurableKey'
    BY <1>0, <1>9, SyncKeeps DEF Sync, SyncDir, Advice
  <2> QED
    BY <2>1, <2>2, <2>3
<1>10. ASSUME NEW p \in Lockers, WriteFails(p) PROVE Rest
  <2>1. Alone' /\ \A q \in Procs : Stage(q)'
    BY <1>0, <1>10, AllIdle DEF WriteFails
  <2>2. /\ files' = [files EXCEPT ![Target(p)] = None]
        /\ Target(p) = IF p \in Rekeyers THEN "new" ELSE "tmp"
    BY <1>10, RotationAssumption DEF WriteFails, Remove, Mutate, Target, Lockers
  <2>3. p \in Rekeyers => HoldsKey(files, "id", vault) /\ ~advised
    BY <1>0, <1>10 DEF Stage, Current, Verified, WriteFails, HoldsKey, Advice
  <2>4. Advice'
    BY <1>0, <1>10, <2>2, <2>3
    DEF WriteFails, Advice, HoldsKey, Typing, TypeOK, FilesTypeOK, Directory, Names
  <2>5. vault \in Keys => Safe(files', vault)
    BY <1>0, <2>2, <2>3
    DEF Safe, DurableKey, HoldsKey, Typing, TypeOK, FilesTypeOK, Directory, Names
  <2>6. DurableKey'
    BY <1>0, <1>10, <2>5, MutateKeeps DEF WriteFails, Remove, Mutate
  <2> QED
    BY <2>1, <2>4, <2>6
<1>11. ASSUME NEW p \in Lockers, Ensure(p) PROVE Rest
  <2>1. CASE vault = held[p].key
    <3>1. Alone' /\ \A q \in Procs \ {p} : Stage(q)'
      BY <1>0, <1>11, <2>1, OthersIdle DEF Ensure, Labels, Alone
    <3>2. Stage(p)'
      BY <1>0, <1>11, <2>1 DEF Stage, Verb, Healing, Current, Verified, Drafting, Swapping, Ensure, Goto, Typing, TypeOK
    <3>3. Advice' /\ DurableKey'
      BY <1>0, <1>11, <2>1 DEF Ensure, Advice, DurableKey
    <3> QED
      BY <3>1, <3>2, <3>3
  <2>2. CASE vault # held[p].key
    <3>1. Alone' /\ \A q \in Procs : Stage(q)'
      BY <1>0, <1>11, <2>2, AllIdle DEF Ensure
    <3>2. files["id"] = held[p] /\ held[p] # None
      BY <1>0, <1>11 DEF Ensure, Stage, Current
    <3>3. HoldsKey(files, "new", vault)
      BY <1>0, <1>11, <2>2, <3>2 DEF Ensure, DurableKey, HoldsKey, Typing, TypeOK, FilesTypeOK
    <3>4. Advice' /\ DurableKey'
      BY <1>0, <1>11, <2>2, <3>2, <3>3 DEF Ensure, Advice, DurableKey
    <3> QED
      BY <3>1, <3>4
  <2> QED
    BY <2>1, <2>2
<1>12. ASSUME NEW p \in Lockers, Commit(p) PROVE Rest
  <2>0. p \in Rekeyers /\ p \notin Passwders
    BY <1>0, <1>12, RotationAssumption DEF Commit, Stage, Verb
  <2>1. Alone' /\ \A q \in Procs \ {p} : Stage(q)'
    BY <1>0, <1>12, OthersIdle DEF Commit, Labels, Alone
  <2>2. durable = {files} /\ HoldsKey(files, "new", made[p].key)
    BY <1>0, <1>12, <2>0, FilesAssumption DEF Commit, Stage, Drafting, HoldsKey, Target
  <2>3. ~advised
    BY <1>0, <1>12 DEF Commit, Stage, Current, Advice
  <2>4. Stage(p)'
    BY <1>0, <1>12, <2>0, <2>2, <2>3 DEF Stage, Verb, Healing, Current, Verified, Drafting, Swapping, Commit, Goto, HoldsKey, Target, Typing, TypeOK
  <2>5. Advice' /\ DurableKey'
    BY <1>12, <2>2, <2>3 DEF Commit, Advice, DurableKey
  <2> QED
    BY <2>1, <2>4, <2>5
<1>13. ASSUME NEW p \in Lockers, CommitAmbiguous(p) PROVE Rest
  <2>0. p \in Rekeyers /\ p \notin Passwders
    BY <1>0, <1>13, RotationAssumption DEF CommitAmbiguous, Stage, Verb
  <2>1. Alone' /\ \A q \in Procs : Stage(q)'
    BY <1>0, <1>13, AllIdle DEF CommitAmbiguous
  <2>2. durable = {files} /\ HoldsKey(files, "new", made[p].key)
    BY <1>0, <1>13, <2>0, FilesAssumption DEF CommitAmbiguous, Stage, Drafting, HoldsKey, Target
  <2>3. ~advised
    BY <1>0, <1>13 DEF CommitAmbiguous, Stage, Current, Advice
  <2>4. Advice' /\ DurableKey'
    BY <1>0, <1>13, <2>2, <2>3 DEF CommitAmbiguous, Advice, DurableKey
  <2> QED
    BY <2>1, <2>4
<1>14. ASSUME NEW p \in Lockers, RekeyFails(p) PROVE Rest
  <2>1. Alone' /\ \A q \in Procs : Stage(q)'
    BY <1>0, <1>14, AllIdle DEF RekeyFails
  <2>2. files' = [files EXCEPT !["new"] = None]
    BY <1>14 DEF RekeyFails, Remove, Mutate
  <2>3. HoldsKey(files, "id", vault) /\ ~advised
    BY <1>0, <1>14 DEF RekeyFails, Stage, Verb, Current, Verified, HoldsKey, Advice
  <2>4. Safe(files', vault)
    BY <1>0, <2>2, <2>3 DEF Safe, HoldsKey, Typing, TypeOK, FilesTypeOK, Directory, Names
  <2>5. Advice' /\ DurableKey'
    BY <1>0, <1>14, <2>3, <2>4, MutateKeeps DEF RekeyFails, Remove, Mutate, Advice
  <2> QED
    BY <2>1, <2>5
<1>15. ASSUME NEW p \in Lockers, SwapOut(p) PROVE Rest
  <2>1. Alone' /\ \A q \in Procs \ {p} : Stage(q)'
    BY <1>0, <1>15, OthersIdle DEF SwapOut, Labels, Alone
  <2>2. ~advised /\ HoldsKey(files, "new", vault)
    BY <1>0, <1>15 DEF SwapOut, Stage, Swapping
  <2>3. HoldsKey(files', "new", vault)
    BY <1>0, <1>15, <2>2
    DEF SwapOut, Rename, Mutate, HoldsKey, Typing, TypeOK, FilesTypeOK, Directory, Names
  <2>4. Stage(p)'
    BY <1>0, <1>15, <2>2, <2>3 DEF Stage, Verb, Healing, Current, Verified, Drafting, Swapping, SwapOut, Goto, Typing, TypeOK
  <2>5. Advice' /\ DurableKey'
    BY <1>0, <1>15, <2>2, <2>3, MutateKeeps DEF SwapOut, Rename, Mutate, Advice, Safe
  <2> QED
    BY <2>1, <2>4, <2>5
<1>16. ASSUME NEW p \in Lockers, SwapIn(p) PROVE Rest
  <2>1. Alone' /\ \A q \in Procs \ {p} : Stage(q)'
    BY <1>0, <1>16, OthersIdle DEF SwapIn, Labels, Alone
  <2>2. ~advised
    BY <1>0, <1>16 DEF SwapIn, Stage, Swapping
  <2>3. Stage(p)'
    BY <1>0, <1>16, <2>2
    DEF Stage, Verb, Healing, Current, Verified, Drafting, Swapping, SwapIn, Goto, Typing, TypeOK
  <2>4. CASE UNCHANGED fileVars
    <3>1. Advice' /\ DurableKey'
      BY <1>0, <1>16, <2>2, <2>4 DEF SwapIn, fileVars, Advice, DurableKey
    <3> QED
      BY <2>1, <2>3, <3>1
  <2>5. CASE Rename("new", "id")
    <3>1. HoldsKey(files, "new", vault)
      BY <1>0, <1>16, <2>5 DEF SwapIn, Rename, Stage, Swapping
    <3>2. HoldsKey(files', "id", vault)
      BY <1>0, <2>5, <3>1
      DEF Rename, Mutate, HoldsKey, Typing, TypeOK, FilesTypeOK, Directory, Names
    <3>3. Advice' /\ DurableKey'
      BY <1>0, <1>16, <2>2, <2>5, <3>2, MutateKeeps DEF SwapIn, Rename, Mutate, Advice, Safe
    <3> QED
      BY <2>1, <2>3, <3>3
  <2> QED
    BY <1>16, <2>4, <2>5 DEF SwapIn
<1>17. ASSUME NEW p \in Lockers, FinalSync(p) PROVE Rest
  <2>1. Alone' /\ \A q \in Procs : Stage(q)'
    BY <1>0, <1>17, AllIdle DEF FinalSync
  <2>2. Advice' /\ DurableKey'
    BY <1>0, <1>17, SyncKeeps DEF FinalSync, SyncDir, Advice
  <2> QED
    BY <2>1, <2>2
<1>18. ASSUME NEW p \in Lockers, Replace(p) PROVE Rest
  <2>0. p \in Passwders /\ p \notin Rekeyers
    BY <1>0, <1>18, RotationAssumption DEF Replace, Stage, Verb
  <2>1. Alone' /\ \A q \in Procs \ {p} : Stage(q)'
    BY <1>0, <1>18, OthersIdle DEF Replace, Labels, Alone
  <2>2. /\ files["tmp"] # None
        /\ files["tmp"].whole
        /\ files["id"] # None
        /\ files["tmp"].key = files["id"].key
    BY <1>0, <1>18, <2>0, FilesAssumption
    DEF Replace, Stage, Current, Drafting, Target
  <2>3. files'["id"] = files["tmp"] /\ files'["new"] = files["new"]
    BY <1>0, <1>18
    DEF Replace, Rename, Mutate, Typing, TypeOK, FilesTypeOK, Directory, Names
  <2>4. Stage(p)'
    BY <1>0, <1>18, <2>0 DEF Stage, Verb, Healing, Current, Verified, Drafting, Swapping, Replace, Goto, Typing, TypeOK
  <2>5. Advice'
    BY <1>0, <1>18, <2>2, <2>3 DEF Replace, Advice, HoldsKey
  <2>6. vault \in Keys => Safe(files', vault)
    BY <1>0, <2>2, <2>3 DEF Safe, DurableKey, HoldsKey, Typing, TypeOK, FilesTypeOK
  <2>7. DurableKey'
    BY <1>0, <1>18, <2>6, MutateKeeps DEF Replace, Rename, Mutate
  <2> QED
    BY <2>1, <2>4, <2>5, <2>7
<1>19. ASSUME NEW p \in Lockers, ReplaceFails(p) PROVE Rest
  <2>1. Alone' /\ \A q \in Procs : Stage(q)'
    BY <1>0, <1>19, AllIdle DEF ReplaceFails
  <2>2. files'["id"] = files["id"] /\ files'["new"] = files["new"]
    BY <1>0, <1>19
    DEF ReplaceFails, Remove, Mutate, Typing, TypeOK, FilesTypeOK, Directory, Names
  <2>3. Advice'
    BY <1>0, <1>19, <2>2 DEF ReplaceFails, Advice, HoldsKey
  <2>4. vault \in Keys => Safe(files', vault)
    BY <1>0, <2>2 DEF Safe, DurableKey, HoldsKey, Typing, TypeOK, FilesTypeOK
  <2>5. DurableKey'
    BY <1>0, <1>19, <2>4, MutateKeeps DEF ReplaceFails, Remove, Mutate
  <2> QED
    BY <2>1, <2>3, <2>5
<1>20. ASSUME NEW p \in Lockers, Abandon(p) PROVE Rest
  <2>1. Alone' /\ \A q \in Procs : Stage(q)'
    BY <1>0, <1>20, AllIdle DEF Abandon
  <2>2. Advice' /\ DurableKey'
    BY <1>0, <1>20 DEF Abandon, Advice, DurableKey
  <2> QED
    BY <2>1, <2>2
<1>21. CASE PowerLoss
  <2>1. Alone' /\ \A q \in Procs : Stage(q)'
    BY <1>21, IdleStageNext, RotationAssumption DEF PowerLoss, Alone, Procs
  <2>2. Advice' /\ DurableKey'
    BY <1>0, <1>21 DEF PowerLoss, LosePower, Advice, Behind, IsBehind, DurableKey
  <2> QED
    BY <1>0, <2>1, <2>2 DEF Inv
<1>22. CASE RestoreStaged
  <2>1. \A q \in Lockers : pc'[q] = "idle"
    BY <1>0, <1>22, RotationAssumption DEF RestoreStaged, Alone, Procs
  <2>2. Alone' /\ \A q \in Procs : Stage(q)'
    <3>1. \A q \in Readers : pc'[q] \in ReadLabels
      BY <1>0, <1>22 DEF RestoreStaged, Stage, Verb
    <3>2. lock' = lock
      BY <1>22 DEF RestoreStaged
    <3> QED
      BY <1>0, <2>1, <3>1, <3>2, IdleStageNext, ReaderStageNext DEF Alone
  <2>3. HoldsKey(files', "id", vault)
    BY <1>0, <1>22
    DEF RestoreStaged, Advice, Rename, Mutate, HoldsKey, Typing, TypeOK, FilesTypeOK,
        Directory, Names
  <2>4. Advice' /\ DurableKey'
    BY <1>0, <1>22, <2>3, MutateKeeps DEF RestoreStaged, Rename, Mutate, Advice, Safe
  <2> QED
    BY <1>0, <2>2, <2>4 DEF Inv
<1>23. CASE UNCHANGED vars
  BY <1>0, <1>23
  DEF vars, Inv, Alone, Advice, DurableKey, HoldsKey, Stage, Verb, Healing, Current, Verified, Drafting, Swapping
<1>24. ASSUME NEW p \in Readers, StartRead(p) \/ HealCheck(p) \/ HealStaged(p) PROVE Rest
  <2>1. PICK label \in ReadLabels : Goto(p, label)
    BY <1>24 DEF StartRead, HealCheck, HealStaged, ReadLabels
  <2> QED
    BY <1>0, <1>24, <2>1, ReaderMoves DEF StartRead, HealCheck, HealStaged
<1>25. ASSUME NEW p \in Readers, Load(p) \/ Abandon(p) PROVE Rest
  <2>1. /\ Quit(p)
        /\ UNCHANGED <<files, durable, vault, advised>>
    BY <1>25 DEF Load, Abandon
  <2>2. lock' = lock /\ Goto(p, "idle") /\ "idle" \in ReadLabels
    BY <1>0, <2>1 DEF Quit, Alone, ReadLabels
  <2>3. \A q \in Lockers : held'[q] = held[q] /\ made'[q] = made[q]
    BY <1>0, <2>1 DEF Quit, Typing, TypeOK
  <2> QED
    BY <1>0, <2>1, <2>2, <2>3, ReaderMoves
<1>26. ASSUME NEW p \in Readers, HealMove(p), files' = files PROVE Rest
  <2>1. /\ UNCHANGED <<files, durable, vault, lock, held, made, advised>>
        /\ Goto(p, "load")
        /\ "load" \in ReadLabels
    BY <1>0, <1>26
    DEF HealMove, fileVars, Rename, Mutate, Typing, TypeOK, FilesTypeOK, ReadLabels
  <2> QED
    BY <1>0, <2>1, ReaderMoves
<1>27. ASSUME NEW p \in Readers, HealMove(p), files' # files PROVE Rest
  <2>1. files["id"] = None /\ Rename("new", "id")
    BY <1>27 DEF HealsMissing, HealMove, fileVars, vars
  <2>2. /\ files' = [files EXCEPT !["id"] = files["new"], !["new"] = None]
        /\ files'["id"] = files["new"] /\ files'["new"] = None
        /\ files["new"] # None
    BY <1>0, <2>1
    DEF Rename, Mutate, Typing, TypeOK, FilesTypeOK, Directory, Names
  <2>3. /\ UNCHANGED <<vault, lock, held, made, advised>>
        /\ Goto(p, "load") /\ "load" \in Labels /\ "load" \in ReadLabels
    BY <1>27 DEF HealMove, Labels, ReadLabels
  <2>4. \A q \in Procs : pc'[q] = IF q = p THEN "load" ELSE pc[q]
    BY <1>0, <2>3 DEF Goto, Typing, TypeOK
  <2>5. Alone'
    BY <1>0, <2>3, ReaderAlone
  <2>6. ASSUME NEW q \in Lockers PROVE Stage(q)'
    <3>1. Stage(q) /\ pc'[q] = pc[q] /\ p # q
      BY <1>0, <2>4
    <3>2. pc[q] \notin {"ensure", "discard", "create", "fill", "sync", "txn", "swapOut",
                         "replace"}
      BY <2>1, <3>1 DEF Stage, Current
    <3>3. pc[q] = "swapIn" => HoldsKey(files', "id", vault')
      BY <2>1, <2>2, <2>3, <3>1 DEF Stage, Swapping, HoldsKey
    <3> QED
      BY <2>2, <2>3, <3>1, <3>2, <3>3
      DEF Stage, Verb, Healing, Current, Verified, Drafting, Swapping
  <2>7. \A q \in Readers : Stage(q)'
    BY <1>0, <2>3, <2>4, ReaderStageNext DEF Stage, Verb
  <2>8. ~advised /\ Advice'
    BY <1>0, <2>1, <2>3 DEF Advice
  <2>9. vault \in Keys => HoldsKey(files, "new", vault)
    BY <1>0, <2>1 DEF DurableKey, HoldsKey, Typing, TypeOK, FilesTypeOK
  <2>10. vault \in Keys => Safe(files', vault)
    BY <2>2, <2>9 DEF Safe, HoldsKey
  <2>11. DurableKey'
    BY <1>0, <2>1, <2>3, <2>10, MutateKeeps DEF Rename, Mutate
  <2> QED
    BY <1>0, <2>5, <2>6, <2>7, <2>8, <2>11
<1> QED
  BY <1>0, <1>1, <1>2, <1>3, <1>4, <1>5, <1>6, <1>7, <1>8, <1>9, <1>10, <1>11,
     <1>12, <1>13, <1>14, <1>15, <1>16, <1>17, <1>18, <1>19, <1>20, <1>21, <1>22, <1>23,
     <1>24, <1>25, <1>26, <1>27
  DEF Inv, Next, Environment, LockedStep, Heal, Write, Rekey, Passwd, Procs

\* At the start nothing runs and the identity, if any, is the vault's.
LEMMA InvInit ==
  ASSUME Init
  PROVE  Inv
<1>1. Typing
  BY InitTyping
<1>2. Alone /\ (\A p \in Procs : Stage(p)) /\ Advice
  BY IdleStage, RotationAssumption DEF Init, Alone, Advice, Procs
<1>3. DurableKey
  <2>1. CASE vault = None
    BY <2>1, FilesAssumption DEF DurableKey, Keys
  <2>2. CASE vault = 1
    <3>1. PICK pass \in Passes :
            files = [n \in Names |->
                       IF n = "id" THEN [key |-> 1, pass |-> pass, whole |-> TRUE] ELSE None]
      BY <2>2, FilesAssumption DEF Init
    <3>2. files["id"] = [key |-> 1, pass |-> pass, whole |-> TRUE]
      BY <3>1 DEF Names
    <3>3. files["id"] \in Sealed
      BY <3>2, FilesAssumption DEF Sealed, Keys
    <3> QED
      BY <2>2, <3>2, <3>3, FilesAssumption DEF Init, DurableKey, HoldsKey
  <2> QED
    BY <2>1, <2>2 DEF Init
<1>4. Behind
  BY FilesAssumption DEF Init, Behind, IsBehind, Keys, Names
<1> QED
  BY <1>1, <1>2, <1>3, <1>4 DEF Inv

\* rekey's refusal and rekey's swap, read off the invariant.
LEMMA InvImplies ==
  ASSUME Inv
  PROVE  AdviceIsSound /\ CarriesPassphrase
<1>1. AdviceIsSound
  BY DEF Inv, Advice, AdviceIsSound
<1>2. CarriesPassphrase
  <2> SUFFICES ASSUME NEW p \in Rekeyers, pc[p] = "swapOut"
               PROVE  files["new"].pass = files["id"].pass
    BY DEF CarriesPassphrase
  <2>1. Stage(p)
    BY DEF Inv, Procs, Lockers
  <2>2. Target(p) = "new"
    BY RotationAssumption DEF Target, Lockers
  <2> QED
    BY <2>1, <2>2 DEF Stage, Current, Drafting
<1> QED
  BY <1>1, <1>2

\* For any number of rekeys, passwds and readers, keys and passphrases, with
\* a kill, an error or a power loss anywhere: unless a reader's heal renames
\* the staged file over an identity file, the key the vault is sealed to is
\* at the identity path or staged beside it in whatever the disk keeps, the
\* advice of rekey's refusal stays right, and no rekey brings back a
\* passphrase that passwd has replaced.  So a rename that refuses to replace
\* is all that completeInterruptedRekey lacks.
THEOREM OnlyOverwritesLoseKeys ==
  ASSUME Initers = {}
  PROVE  Spec /\ [][HealsMissing]_vars =>
           [](DurableKey /\ AdviceIsSound /\ CarriesPassphrase)
<1>1. Inv => DurableKey /\ AdviceIsSound /\ CarriesPassphrase
  BY InvImplies DEF Inv
<1> QED
  BY <1>1, InvInit, InvStep, PTL DEF Spec

\* For any number of rekey and passwd processes and no reader: the key
\* survives.
THEOREM KeySurvives ==
  ASSUME Readers = {}, Initers = {}
  PROVE  Spec => []DurableKey
<1>1. [HealsMissing]_vars
  BY DEF HealsMissing
<1> QED
  BY <1>1, OnlyOverwritesLoseKeys, PTL

\* Under the same assumptions the user who follows rekey's refusal, however
\* late, installs the key the vault is on.
THEOREM AdviceStaysSound ==
  ASSUME Readers = {}, Initers = {}
  PROVE  Spec => []AdviceIsSound
<1>1. [HealsMissing]_vars
  BY DEF HealsMissing
<1> QED
  BY <1>1, OnlyOverwritesLoseKeys, PTL

\* And a rekey never brings back a passphrase that passwd has replaced.
THEOREM PassphraseCarried ==
  ASSUME Readers = {}, Initers = {}
  PROVE  Spec => []CarriesPassphrase
<1>1. [HealsMissing]_vars
  BY DEF HealsMissing
<1> QED
  BY <1>1, OnlyOverwritesLoseKeys, PTL

-----------------------------------------------------------------------------
(* What healing promotes.                                                  *)

\* Before init has run there is no vault and no file.
Blank == vault \in Keys \/ (vault = None /\ durable = {[n \in Names |-> None]})

\* No verb but init gets past that.
LEMMA BlankStep ==
  ASSUME Initers = {}, Inv, Blank, [Next]_vars
  PROVE  Blank'
<1>1. vault' = vault \/ vault' \in Keys
  <2>1. ASSUME NEW p \in Lockers, pc[p] = "txn"
        PROVE  made[p].key \in Keys
    BY <2>1 DEF Inv, Stage, Drafting, Sealed, Procs
  <2> QED
    BY <2>1 DEF Next, Environment, LockedStep, Heal, Write, Rekey, Passwd, StartLocked,
      StartRead, HealCheck, HealStaged, HealMove, Load, Discard, Create, Fill, Sync, WriteFails, Ensure,
      Commit, CommitAmbiguous, RekeyFails, SwapOut, SwapIn, FinalSync, Replace, ReplaceFails,
      Abandon, PowerLoss, RestoreStaged, vars
<1>2. CASE vault \in Keys
  BY <1>1, <1>2 DEF Blank
<1>3. CASE vault = None /\ durable = {[n \in Names |-> None]}
  <2>1. files = [n \in Names |-> None]
    BY <1>3 DEF Inv, Typing, TypeOK, FilesTypeOK
  <2>2. \A n \in Names : files[n] = None
    BY <2>1
  <2>3. \A p \in Procs : pc[p] \in {"idle", "heal", "healStaged", "healMove", "load",
                                    "swapSync", "replaceSync"}
    <3> SUFFICES ASSUME NEW p \in Procs
                 PROVE  pc[p] \in {"idle", "heal", "healStaged", "healMove", "load",
                                   "swapSync", "replaceSync"}
      OBVIOUS
    <3>1. Stage(p) /\ pc[p] \in Labels
      BY DEF Inv, Typing, TypeOK
    <3>2. pc[p] \notin {"ensure", "discard", "create", "fill", "sync", "txn", "swapOut", "replace"}
      BY <2>2, <3>1 DEF Stage, Current, Names
    <3>3. pc[p] # "swapIn"
      BY <2>2, <3>1 DEF Stage, Swapping, HoldsKey, Names
    <3> QED
      BY <3>1, <3>2, <3>3 DEF Stage, Verb, Labels
  <2>4. vault' = vault /\ durable' = durable
    <3>1. Lockers \cup Readers \subseteq Procs
      BY DEF Procs
    <3> QED
      BY <1>3, <2>1, <2>2, <2>3, <3>1 DEF Next, Environment, LockedStep, Heal, Write, Rekey, Passwd,
        StartLocked, StartRead, HealCheck, HealStaged, HealMove, Load, Discard, Create, Fill,
        Sync, WriteFails, Ensure, Commit, CommitAmbiguous, RekeyFails, SwapOut, SwapIn, FinalSync,
        Replace, ReplaceFails, Abandon, PowerLoss, RestoreStaged, vars, fileVars, Rename,
        SyncDir, LosePower, Names
  <2> QED
    BY <1>3, <2>4 DEF Blank
<1> QED
  BY <1>2, <1>3 DEF Blank

\* Under the hypothesis on heals, whoever promotes a staged file, with the
\* lock or without, promotes the key the vault is on.
THEOREM HealsPromoteLiveKey ==
  ASSUME Initers = {}
  PROVE  Spec /\ [][HealsMissing]_vars => HealPromotesLiveKey
<1> DEFINE Promotes ==
      \A p \in Procs :
        pc[p] = "healMove" /\ HealMove(p) /\ files' # files => HoldsKey(files', "id", vault)
<1>1. Init => Blank
  BY FilesAssumption DEF Init, Blank, Keys
<1>2. ASSUME Inv, Blank, [Next]_vars, [HealsMissing]_vars PROVE [Promotes]_vars
  <2> SUFFICES ASSUME NEW p \in Procs, pc[p] = "healMove", HealMove(p), files' # files
               PROVE  HoldsKey(files', "id", vault)
    OBVIOUS
  <2>1. Rename("new", "id") /\ files["new"] # None
    BY DEF HealMove, fileVars, Rename
  <2>2. files["id"] = None
    <3>1. CASE p \in Lockers
      BY <1>2, <2>1, <3>1 DEF Inv, Stage, Healing
    <3>2. CASE p \in Readers
      BY <1>2, <3>2 DEF HealsMissing, vars
    <3> QED
      BY <3>1, <3>2 DEF Procs
  <2>3. vault \in Keys
    BY <1>2, <2>1 DEF Blank, Inv, Typing, TypeOK, FilesTypeOK, Names
  <2>4. HoldsKey(files, "new", vault)
    BY <1>2, <2>2, <2>3 DEF Inv, DurableKey, HoldsKey, Typing, TypeOK, FilesTypeOK
  <2> QED
    BY <1>2, <2>1, <2>4
    DEF Rename, Mutate, HoldsKey, Inv, Typing, TypeOK, FilesTypeOK, Directory, Names
<1> QED
  BY <1>1, <1>2, InvInit, InvStep, BlankStep, PTL DEF Spec, HealPromotesLiveKey

\* A verb that has the lock promotes a staged file only if it holds the key
\* the vault is on.
THEOREM LockedHealPromotesLiveKey ==
  ASSUME Readers = {}, Initers = {}
  PROVE  Spec => HealPromotesLiveKey
<1>1. [HealsMissing]_vars
  BY DEF HealsMissing
<1> QED
  BY <1>1, HealsPromoteLiveKey, PTL

-----------------------------------------------------------------------------
(* When heals overwrite nothing.                                           *)

\* No rekey stages a file while a reader is between its look at the identity
\* path and its rename.
Apart ==
  \A p \in Rekeyers, q \in Readers : Create(p) => pc[q] \notin {"healStaged", "healMove"}

\* The identity path or the staged path is free.
Hole(dir) == dir["id"] = None \/ dir["new"] = None

\* Then one of the two stays free while a reader heals.
HealsHole == \A q \in Readers : pc[q] \in {"healStaged", "healMove"} => Hole(files)

\* Every step but a rekey's create and a power loss keeps a path free.
LEMMA HoleStep ==
  ASSUME Initers = {}, Inv, Hole(files), [Next]_vars, \A p \in Rekeyers : ~Create(p), ~PowerLoss
  PROVE  Hole(files')
<1>0. /\ "id" \in Names /\ "new" \in Names
      /\ files \in Directory
      /\ Lockers \subseteq Procs
      /\ \A p \in Procs : Stage(p)
  BY DEF Names, Inv, Typing, TypeOK, FilesTypeOK, Procs
<1>1. CASE files' = files
  BY <1>1
<1>2. ASSUME NEW n \in Names, files' = [files EXCEPT ![n] = None]
      PROVE  Hole(files')
  BY <1>0, <1>2 DEF Hole, Directory
<1>3. CASE Rename("new", "id")
  BY <1>0, <1>3 DEF Hole, Rename, Mutate, Directory
<1>4. CASE Rename("id", "bak")
  BY <1>0, <1>4 DEF Hole, Rename, Mutate, Directory, Names
<1>5. ASSUME NEW p \in Lockers, Create(p) PROVE Hole(files')
  <2>1. p \in Passwders /\ Target(p) = "tmp"
    BY <1>5, RotationAssumption DEF Lockers, Target
  <2>2. PICK e : files' = [files EXCEPT !["tmp"] = Torn(e)]
    BY <1>5, <2>1 DEF Create, CreateExclusive, Mutate
  <2> QED
    BY <1>0, <2>2 DEF Hole, Directory, Names
<1>6. ASSUME NEW p \in Lockers, Fill(p) PROVE Hole(files')
  <2>1. made[p] \in Sealed /\ Torn(made[p]) # None
    <3>1. made[p] \in Sealed
      BY <1>0, <1>6 DEF Stage, Drafting, Fill
    <3>2. Torn(made[p]) \in Sealed
      BY <3>1 DEF Torn, Sealed
    <3> QED
      BY <3>1, <3>2, FilesAssumption
  <2>2. files' = Filled(files, made[p])
    BY <1>6 DEF Fill, WriteAndSync
  <2> QED
    BY <1>0, <2>1, <2>2 DEF Hole, Filled
<1>7. ASSUME NEW p \in Lockers, Replace(p) PROVE Hole(files')
  <2>1. files["id"] # None
    BY <1>0, <1>7 DEF Stage, Current, Replace
  <2>2. files' = [files EXCEPT !["id"] = files["tmp"], !["tmp"] = None]
    BY <1>7 DEF Replace, Rename, Mutate
  <2> QED
    BY <1>0, <2>1, <2>2 DEF Hole, Directory, Names
<1>8. ASSUME NEW p \in Lockers,
             Discard(p) \/ WriteFails(p) \/ RekeyFails(p) \/ ReplaceFails(p)
      PROVE  Hole(files')
  <2>1. Target(p) \in Names /\ "tmp" \in Names
    BY <1>8, RotationAssumption DEF Target, Lockers, Names
  <2>2. PICK n \in Names : files' = [files EXCEPT ![n] = None]
    BY <1>0, <1>8, <2>1 DEF Discard, WriteFails, RekeyFails, ReplaceFails, Remove, Mutate
  <2> QED
    BY <1>2, <2>2
<1> QED
  BY <1>1, <1>3, <1>4, <1>5, <1>6, <1>7, <1>8
  DEF Next, Environment, LockedStep, Heal, Write, Rekey, Passwd, StartLocked, StartRead,
      HealCheck, HealStaged, HealMove, Load, Sync, SyncDir, Ensure, Commit, CommitAmbiguous,
      SwapOut, SwapIn, FinalSync, Abandon, RestoreStaged, fileVars, vars

\* A process that gets to another step of its verb took that step itself.
LEMMA OwnStep ==
  ASSUME Initers = {}, Inv, [Next]_vars, NEW p \in Procs, pc'[p] \notin {pc[p], "idle"}
  PROVE  \/ p \in Lockers /\ LockedStep(p)
         \/ p \in Readers /\ (StartRead(p) \/ Heal(p))
<1>0. pc \in [Procs -> Labels] /\ Lockers \subseteq Procs /\ Readers \subseteq Procs
  BY DEF Inv, Typing, TypeOK, Procs
<1>1. ASSUME NEW q, NEW label, Goto(q, label) PROVE q = p
  BY <1>0, <1>1 DEF Goto
<1>2. ASSUME NEW q \in Lockers, LockedStep(q) PROVE q = p
  <2>1. \E label : Goto(q, label)
    BY <1>2 DEF LockedStep, Heal, Write, Rekey, Passwd, StartLocked, HealCheck, HealStaged,
      HealMove, Load, Discard, Create, Fill, Sync, WriteFails, Ensure, Commit,
      CommitAmbiguous, RekeyFails, SwapOut, SwapIn, FinalSync, Replace, ReplaceFails, Quit
  <2> QED
    BY <1>1, <2>1
<1>3. ASSUME NEW q \in Readers, StartRead(q) \/ Heal(q) PROVE q = p
  <2>1. \E label : Goto(q, label)
    BY <1>3 DEF StartRead, Heal, HealCheck, HealStaged, HealMove, Load, Quit
  <2> QED
    BY <1>1, <2>1
<1>4. ~Environment /\ ~UNCHANGED vars
  BY <1>0 DEF Environment, PowerLoss, RestoreStaged, Abandon, Quit, Goto, vars
<1> QED
  BY <1>2, <1>3, <1>4 DEF Next

\* So while no rekey stages beside a heal, heals find a path free ...
LEMMA HealsHoleStep ==
  ASSUME Initers = {}, Inv, HealsHole, [Next]_vars, [Apart]_vars
  PROVE  HealsHole'
<1> SUFFICES ASSUME NEW q \in Readers, pc'[q] \in {"healStaged", "healMove"}
             PROVE  Hole(files')
  BY DEF HealsHole
<1>0. q \in Procs /\ Readers \subseteq Procs /\ Lockers \subseteq Procs /\ q \notin Lockers
  BY RotationAssumption DEF Procs
<1>1. CASE pc[q] \in {"healStaged", "healMove"}
  <2>1. CASE UNCHANGED vars
    BY <1>1, <2>1 DEF HealsHole, vars
  <2>2. CASE ~UNCHANGED vars
    <3>1. \A p \in Rekeyers : ~Create(p)
      BY <1>1, <2>2 DEF Apart
    <3>2. ~PowerLoss
      BY <1>0 DEF PowerLoss
    <3> QED
      BY <1>1, <3>1, <3>2, HoleStep DEF HealsHole
  <2> QED
    BY <2>1, <2>2
<1>2. CASE pc[q] \notin {"healStaged", "healMove"}
  <2>1. StartRead(q) \/ Heal(q)
    BY <1>0, <1>2, OwnStep
  <2>2. HealCheck(q) /\ pc \in [Procs -> Labels]
    BY <1>0, <1>2, <2>1
    DEF StartRead, Heal, HealStaged, HealMove, Load, Quit, Goto, Inv, Typing, TypeOK
  <2> QED
    BY <1>0, <2>2 DEF HealCheck, Hole, Goto
<1> QED
  BY <1>1, <1>2

\* ... and what is renamed then goes to a free identity path.
LEMMA HoleHealsMissing ==
  ASSUME HealsHole
  PROVE  HealsMissing
BY DEF HealsHole, HealsMissing, HealMove, Hole, Rename, fileVars

\* For any number of rekeys, passwds, readers and rotations: the key
\* survives, the advice stays right, passphrases are carried and heals
\* promote the live key as long as no rekey stages its file between the two
\* system calls of a reader's heal.
THEOREM StagingApartKeepsKeys ==
  ASSUME Initers = {}
  PROVE  Spec /\ [][Apart]_vars =>
           /\ [](DurableKey /\ AdviceIsSound /\ CarriesPassphrase)
           /\ HealPromotesLiveKey
<1>1. Init => HealsHole
  BY DEF Init, HealsHole, Procs
<1>2. HealsHole => [HealsMissing]_vars
  BY HoleHealsMissing
<1> QED
  BY <1>1, <1>2, InvInit, InvStep, HealsHoleStep, OnlyOverwritesLoseKeys,
     HealsPromoteLiveKey, PTL DEF Spec

-----------------------------------------------------------------------------
(* A single rotation.                                                      *)

\* The labels of a rekey once its key has been generated.
Staging == {"fill", "sync", "txn", "swapOut", "swapIn", "swapSync"}

\* Only the last key's swap leaves the identity path free, now or after a
\* power loss, and only then does a reader get as far as healing.
Spent ==
  /\ vault \in Keys =>
       minted >= 1 /\ \A dir \in durable : dir["id"] = None => minted = MaxKey
  /\ \A p \in Rekeyers : pc[p] \in Staging => minted = MaxKey
  /\ \A q \in Readers :
       /\ pc[q] # "idle" => vault \in Keys
       /\ pc[q] \in {"healStaged", "healMove"} => minted = MaxKey

\* Keys are not given back, and the vault goes from one key to another.
LEMMA MintedStep ==
  ASSUME Initers = {}, Inv, [Next]_vars, MaxKey = 2, vault \in Keys => minted >= 1
  PROVE  /\ minted = MaxKey => minted' = MaxKey
         /\ vault' \in Keys <=> vault \in Keys
         /\ vault' \in Keys => minted' >= 1
<1>1. minted \in 0..MaxKey /\ Lockers \subseteq Procs
  BY DEF Inv, Typing, TypeOK, Procs
<1>2. CASE UNCHANGED <<minted, vault>>
  BY <1>2
<1>3. ASSUME NEW p \in Lockers, Create(p)
      PROVE  /\ minted = MaxKey => minted' = MaxKey
             /\ vault' \in Keys <=> vault \in Keys
             /\ vault' \in Keys => minted' >= 1
  BY <1>1, <1>3 DEF Create
<1>4. ASSUME NEW p \in Lockers, Commit(p) \/ CommitAmbiguous(p)
      PROVE  vault \in Keys /\ vault' \in Keys /\ minted' = minted
  <2>1. Stage(p) /\ held[p] \in Sealed \cup {None}
    BY <1>1 DEF Inv, Typing, TypeOK
  <2>2. held[p] \in Sealed /\ made[p] \in Sealed
    BY <1>4, <2>1
    DEF Stage, Verb, Verified, Current, Drafting, Commit, CommitAmbiguous
  <2> QED
    BY <1>4, <2>2 DEF Commit, CommitAmbiguous, Sealed
<1> QED
  BY <1>2, <1>3, <1>4
  DEF Next, Environment, LockedStep, Heal, Write, Rekey, Passwd, StartLocked, StartRead,
      HealCheck, HealStaged, HealMove, Load, Discard, Fill, Sync, WriteFails, Ensure,
      RekeyFails, SwapOut, SwapIn, FinalSync, Replace, ReplaceFails, Abandon, PowerLoss,
      RestoreStaged, vars

\* What a power loss may leave has an identity, unless it could leave none
\* before or a rekey has just begun its swap.
LEMMA DurableStep ==
  ASSUME Initers = {}, Inv, [Next]_vars, NEW dir \in durable', dir["id"] = None
  PROVE  (\E old \in durable : old["id"] = None) \/ (\E p \in Lockers : SwapOut(p))
<1>0. /\ "id" \in Names /\ "new" \in Names /\ "tmp" \in Names
      /\ files \in Directory /\ files \in durable /\ durable \subseteq Directory
      /\ Lockers \subseteq Procs
      /\ \A p \in Procs : Stage(p)
  BY DEF Names, Inv, Typing, TypeOK, FilesTypeOK, Procs
<1>1. CASE durable' \subseteq durable
  BY <1>1
<1>2. ASSUME NEW d, Mutate(d), d["id"] = None => files["id"] = None
      PROVE  \E old \in durable : old["id"] = None
  BY <1>0, <1>2 DEF Mutate
<1>3. ASSUME NEW n \in Names \ {"id"}, Remove(n) \/ \E e : CreateExclusive(n, e)
      PROVE  \E old \in durable : old["id"] = None
  BY <1>0, <1>2, <1>3 DEF Remove, CreateExclusive, Directory
<1>4. ASSUME NEW n \in Names \ {"id"}, Rename(n, "id")
      PROVE  \E old \in durable : old["id"] = None
  BY <1>0, <1>2, <1>4 DEF Rename, Directory
<1>5. ASSUME NEW p \in Lockers, Fill(p)
      PROVE  \E old \in durable : old["id"] = None
  <2>1. made[p] \in Sealed /\ made[p] # None
    BY <1>0, <1>5, FilesAssumption DEF Stage, Drafting, Fill
  <2>2. PICK old \in durable : dir = Filled(old, made[p])
    BY <1>5 DEF Fill, WriteAndSync
  <2> QED
    BY <1>0, <2>1, <2>2 DEF Filled
<1>6. \A p \in Lockers : Target(p) \in Names \ {"id"}
  BY RotationAssumption DEF Target, Lockers, Names
<1>7. ASSUME NEW p \in Lockers, Write(p)
      PROVE  \E old \in durable : old["id"] = None
  BY <1>0, <1>3, <1>5, <1>6, <1>7 DEF Write, Discard, Create, Sync, SyncDir, WriteFails
<1>8. CASE PowerLoss
  BY <1>8 DEF PowerLoss, LosePower
<1> QED
  BY <1>0, <1>1, <1>3, <1>4, <1>7, <1>8
  DEF Next, Environment, LockedStep, Heal, Rekey, Passwd, StartLocked, StartRead,
      HealCheck, HealStaged, HealMove, Load, SyncDir, Ensure, Commit, CommitAmbiguous,
      RekeyFails, SwapIn, FinalSync, Replace, ReplaceFails, Abandon,
      RestoreStaged, fileVars, vars, Names

\* With one key to generate, the bookkeeping above is kept.
LEMMA SpentStep ==
  ASSUME Initers = {}, MaxKey = 2, Inv, Spent, [Next]_vars
  PROVE  Spent'
<1>0. /\ Rekeyers \subseteq Lockers /\ Lockers \subseteq Procs /\ Readers \subseteq Procs
      /\ Lockers \cap Readers = {}
      /\ minted \in 0..MaxKey
      /\ pc \in [Procs -> Labels]
  BY RotationAssumption DEF Procs, Lockers, Inv, Typing, TypeOK
<1>1. /\ minted = MaxKey => minted' = MaxKey
      /\ vault' \in Keys <=> vault \in Keys
      /\ vault' \in Keys => minted' >= 1
  BY MintedStep DEF Spent
<1>2. ASSUME vault' \in Keys, NEW dir \in durable', dir["id"] = None
      PROVE  minted' = MaxKey
  <2>1. CASE \E old \in durable : old["id"] = None
    BY <1>1, <1>2, <2>1 DEF Spent
  <2>2. ASSUME NEW p \in Lockers, SwapOut(p) PROVE minted' = MaxKey
    <3>1. p \in Rekeyers /\ pc[p] \in Staging
      BY <1>0, <2>2 DEF SwapOut, Staging, Inv, Stage, Verb
    <3> QED
      BY <1>1, <3>1 DEF Spent
  <2> QED
    BY <1>2, <2>1, <2>2, DurableStep
<1>3. ASSUME NEW p \in Rekeyers, pc'[p] \in Staging PROVE minted' = MaxKey
  <2>1. CASE pc[p] \in Staging
    BY <1>1, <2>1 DEF Spent
  <2>2. CASE pc[p] \notin Staging
    <3>1. LockedStep(p)
      BY <1>0, <1>3, <2>2, OwnStep DEF Staging
    <3>2. Create(p)
      BY <1>0, <1>3, <2>2, <3>1, RotationAssumption
      DEF LockedStep, Heal, Write, Rekey, Passwd, StartLocked, HealCheck, HealStaged,
          HealMove, Load, Discard, Fill, Sync, WriteFails, Ensure, Commit, CommitAmbiguous,
          RekeyFails, SwapOut, SwapIn, FinalSync, Replace, ReplaceFails, Quit, Goto, Staging,
          Lockers
    <3>3. vault \in Keys
      <4>1. Stage(p) /\ pc[p] = "create" /\ held[p] \in Sealed \cup {None}
        BY <1>0, <3>2 DEF Inv, Create, Typing, TypeOK
      <4> QED
        BY <4>1 DEF Stage, Verified, Current, Sealed
    <3> QED
      BY <1>0, <3>2, <3>3, RotationAssumption DEF Spent, Create
  <2> QED
    BY <2>1, <2>2
<1>4. ASSUME NEW q \in Readers, pc'[q] # "idle" PROVE vault' \in Keys
  <2>1. CASE pc[q] # "idle"
    BY <1>1, <2>1 DEF Spent
  <2>2. CASE pc[q] = "idle"
    <3>1. StartRead(q) \/ Heal(q)
      BY <1>0, <1>4, <2>2, OwnStep
    <3> QED
      BY <1>1, <2>2, <3>1 DEF StartRead, Heal, HealCheck, HealStaged, HealMove, Load
  <2> QED
    BY <2>1, <2>2
<1>5. ASSUME NEW q \in Readers, pc'[q] \in {"healStaged", "healMove"}
      PROVE  minted' = MaxKey
  <2>1. CASE pc[q] \in {"healStaged", "healMove"}
    BY <1>1, <2>1 DEF Spent
  <2>2. CASE pc[q] \notin {"healStaged", "healMove"}
    <3>1. StartRead(q) \/ Heal(q)
      BY <1>0, <1>5, <2>2, OwnStep
    <3>2. HealCheck(q) /\ files["id"] = None
      BY <1>0, <1>5, <2>2, <3>1
      DEF StartRead, Heal, HealCheck, HealStaged, HealMove, Load, Quit, Goto
    <3>3. vault \in Keys /\ files \in durable
      BY <3>2 DEF Spent, HealCheck, Inv, Typing, TypeOK, FilesTypeOK
    <3> QED
      BY <1>1, <3>2, <3>3 DEF Spent
  <2> QED
    BY <2>1, <2>2
<1> QED
  BY <1>1, <1>2, <1>3, <1>4, <1>5 DEF Spent

\* A reader that heals has seen the last key staged, so no rekey stages
\* another.
LEMMA SpentApart ==
  ASSUME Spent, MaxKey = 2
  PROVE  Apart
BY RotationAssumption DEF Spent, Apart, Create, Lockers

\* At the start there is an identity or no vault.
LEMMA SpentInit ==
  ASSUME Init, MaxKey = 2, Initers = {}
  PROVE  Spent
<1>1. \A p \in Procs : pc[p] = "idle"
  BY DEF Init
<1>2. CASE vault = None
  BY <1>1, <1>2, FilesAssumption DEF Spent, Staging, Keys, Procs, Lockers
<1>3. CASE vault = 1
  <2>1. PICK pass \in Passes :
          files = [n \in Names |->
                     IF n = "id" THEN [key |-> 1, pass |-> pass, whole |-> TRUE] ELSE None]
    BY <1>3, FilesAssumption DEF Init
  <2>2. files["id"] = [key |-> 1, pass |-> pass, whole |-> TRUE]
    BY <2>1 DEF Names
  <2>3. files["id"] # None
    <3>1. files["id"] \in Sealed
      BY <2>2 DEF Sealed, Keys
    <3> QED
      BY <3>1, FilesAssumption
  <2>4. durable = {files} /\ minted = 1
    BY <1>3, FilesAssumption DEF Init
  <2> QED
    BY <1>1, <2>3, <2>4 DEF Spent, Staging, Procs, Lockers
<1> QED
  BY <1>2, <1>3 DEF Init

\* Over a single rotation nothing is asked of the readers: with any number
\* of them healing without the lock, beside any rekeys and passwds and any
\* crashes, the vault's key survives, rekey's advice stays right and every
\* heal promotes the live key.  It takes a second rotation to lose it.
THEOREM OneRotationKeepsKeys ==
  ASSUME Initers = {}, MaxKey = 2
  PROVE  Spec => /\ [](DurableKey /\ AdviceIsSound /\ CarriesPassphrase)
                 /\ HealPromotesLiveKey
<1>1. Init => HealsHole
  BY DEF Init, HealsHole, Procs
<1>2. HealsHole => [HealsMissing]_vars
  BY HoleHealsMissing
<1>3. Spent => [Apart]_vars
  BY SpentApart
<1> QED
  BY <1>1, <1>2, <1>3, InvInit, InvStep, HealsHoleStep, SpentInit, SpentStep,
     StagingApartKeepsKeys, PTL DEF Spec

-----------------------------------------------------------------------------
(* One key and one passphrase: the refinement of LiveIdentity.             *)

\* The key a rekey has drafted is newer than the vault's.
Newer ==
  /\ vault \in Keys => vault <= minted
  /\ \A p \in Rekeyers :
       pc[p] \in {"fill", "sync", "txn"} => vault < made[p].key /\ made[p].key <= minted

\* No two files of a directory have the key k.
Single(dir, k) ==
  dir["id"] # None /\ dir["new"] # None /\ dir["id"].key = k => dir["new"].key # k

\* So it is clear which passphrase opens it.
Distinct == \A dir \in durable : Single(dir, vault)

\* A rekey that holds the lock and has looked at the vault finds its key in
\* the identity file.
LEMMA RekeyHolds ==
  ASSUME Inv, NEW p \in Rekeyers, pc[p] \in {"discard", "create", "fill", "sync", "txn"}
  PROVE  /\ vault \in Keys
         /\ HoldsKey(files, "id", vault)
         /\ files["id"] = held[p]
<1>1. Stage(p) /\ held[p] \in Sealed \cup {None}
  BY DEF Inv, Typing, TypeOK, Procs, Lockers
<1> QED
  BY <1>1 DEF Stage, Verified, Current, HoldsKey, Sealed

\* What the commit of a rekey finds: the staged file carries the passphrase
\* over, and nothing is left to lose.
LEMMA CommitFinds ==
  ASSUME Initers = {}, Inv, Newer, NEW p \in Lockers, pc[p] = "txn"
  PROVE  /\ p \in Rekeyers
         /\ vault \in Keys /\ made[p].key \in Keys /\ vault < made[p].key
         /\ durable = {files}
         /\ HoldsKey(files, "id", vault)
         /\ HoldsKey(files, "new", made[p].key)
         /\ files["new"].pass = files["id"].pass
<1>1. p \in Rekeyers /\ Stage(p)
  BY DEF Inv, Stage, Verb, Procs
<1>2. vault \in Keys /\ HoldsKey(files, "id", vault) /\ files["id"] = held[p]
  BY <1>1, RekeyHolds
<1>3. Target(p) = "new"
  BY <1>1, RotationAssumption DEF Target, Lockers
<1>4. /\ made[p] \in Sealed /\ made[p] # None /\ made[p].whole /\ made[p].pass = held[p].pass
      /\ files["new"] = made[p] /\ durable = {files}
  BY <1>1, <1>3, FilesAssumption DEF Stage, Drafting
<1> QED
  BY <1>1, <1>2, <1>4 DEF Newer, HoldsKey, Sealed

\* No step lets the vault catch up with a drafted key.
LEMMA NewerStep ==
  ASSUME Initers = {}, Inv, Newer, [Next]_vars
  PROVE  Newer'
<1>0. /\ Rekeyers \subseteq Lockers /\ Lockers \subseteq Procs
      /\ minted \in 0..MaxKey /\ MaxKey \in Nat
      /\ pc \in [Procs -> Labels]
      /\ made \in [Procs -> Sealed \cup {None}]
      /\ Keys = 1..MaxKey
  BY FilesAssumption DEF Lockers, Procs, Inv, Typing, TypeOK, Keys
<1>1. CASE \E p \in Lockers : Create(p)
  <2>1. PICK p \in Lockers : Create(p)
    BY <1>1
  <2>2. /\ minted' = minted \/ minted' = minted + 1
        /\ vault' = vault
        /\ pc' = [pc EXCEPT ![p] = "fill"]
    BY <2>1 DEF Create, Goto
  <2>3. \A q \in Rekeyers \ {p} :
          pc'[q] \in {"fill", "sync", "txn"} => vault < made[q].key /\ made[q].key <= minted
    BY <1>0, <2>2 DEF Newer
  <2>4. \A q \in Rekeyers \ {p} :
          pc'[q] \in {"fill", "sync", "txn"} => q # p /\ pc[q] # "idle"
    BY <1>0, <2>2
  <2>5. \A q \in Rekeyers \ {p} : pc[q] = "idle"
    BY <1>0, <2>1 DEF Inv, Alone, Create
  <2>6. p \in Rekeyers => vault' < made'[p].key /\ made'[p].key <= minted'
    <3> SUFFICES ASSUME p \in Rekeyers
                 PROVE  vault' < made'[p].key /\ made'[p].key <= minted'
      OBVIOUS
    <3>1. p \notin Passwders
      BY RotationAssumption
    <3>2. Draft(p) = {[key |-> minted + 1, pass |-> held[p].pass, whole |-> TRUE]}
      BY RotationAssumption DEF Draft, Lockers
    <3>3. made'[p] = [key |-> minted + 1, pass |-> held[p].pass, whole |-> TRUE]
      BY <1>0, <2>1, <3>2 DEF Create
    <3>4. minted' = minted + 1 /\ made'[p].key = minted + 1
      BY <2>1, <3>1, <3>3 DEF Create
    <3>5. vault \in Keys /\ vault <= minted
      BY <2>1, RekeyHolds DEF Newer, Create
    <3> QED
      BY <1>0, <2>2, <3>4, <3>5
  <2>7. vault' \in Keys => vault' <= minted'
    BY <1>0, <2>2 DEF Newer
  <2> QED
    BY <2>4, <2>5, <2>6, <2>7 DEF Newer
<1>2. CASE \E p \in Lockers : Commit(p) \/ CommitAmbiguous(p)
  <2>1. PICK p \in Lockers : Commit(p) \/ CommitAmbiguous(p)
    BY <1>2
  <2>2. /\ pc[p] = "txn" /\ minted' = minted
        /\ vault' = vault \/ vault' = made[p].key
        /\ pc' \in {[pc EXCEPT ![p] = "swapOut"], [pc EXCEPT ![p] = "idle"]}
    BY <2>1 DEF Commit, CommitAmbiguous, Quit, Goto
  <2>3. p \in Rekeyers /\ vault \in Keys /\ made[p].key \in Keys
    BY <2>2, CommitFinds
  <2>4. \A q \in Rekeyers : pc'[q] \notin {"fill", "sync", "txn"}
    BY <1>0, <2>2 DEF Inv, Alone
  <2> QED
    BY <2>2, <2>3, <2>4 DEF Newer
<1>3. CASE /\ minted' = minted /\ vault' = vault
           /\ \A q \in Rekeyers : pc'[q] \in {"fill", "sync", "txn"} =>
                pc[q] \in {"fill", "sync", "txn"} /\ made'[q] = made[q]
  BY <1>3 DEF Newer
<1>4. ASSUME NEW p \in Procs, Quit(p)
      PROVE  \A q \in Rekeyers : pc'[q] \in {"fill", "sync", "txn"} =>
                pc[q] \in {"fill", "sync", "txn"} /\ made'[q] = made[q]
  BY <1>0, <1>4 DEF Quit, Goto
<1>5. ASSUME NEW p \in Procs, NEW label, Goto(p, label), made' = made,
             label \in {"fill", "sync", "txn"} => pc[p] \in {"fill", "sync", "txn"}
      PROVE  \A q \in Rekeyers : pc'[q] \in {"fill", "sync", "txn"} =>
                pc[q] \in {"fill", "sync", "txn"} /\ made'[q] = made[q]
  BY <1>0, <1>5 DEF Goto
<1>6. ASSUME NEW p \in Procs,
             \/ p \in Lockers /\ (StartLocked(p) \/ Heal(p) \/ Discard(p) \/ Fill(p) \/ Sync(p)
                  \/ WriteFails(p) \/ Ensure(p) \/ RekeyFails(p) \/ SwapOut(p) \/ SwapIn(p)
                  \/ Passwd(p) \/ FinalSync(p))
             \/ p \in Readers /\ (StartRead(p) \/ Heal(p))
             \/ Abandon(p)
      PROVE  /\ minted' = minted /\ vault' = vault
             /\ \A q \in Rekeyers : pc'[q] \in {"fill", "sync", "txn"} =>
                  pc[q] \in {"fill", "sync", "txn"} /\ made'[q] = made[q]
  <2>1. minted' = minted /\ vault' = vault
    BY <1>6
    DEF StartLocked, StartRead, Heal, HealCheck, HealStaged, HealMove, Load, Discard, Fill, Sync,
        WriteFails, Ensure, RekeyFails, SwapOut, SwapIn, Passwd, Replace, ReplaceFails,
        FinalSync, Abandon
  <2>2. \/ Quit(p)
        \/ \E label : /\ Goto(p, label) /\ made' = made
                      /\ label \in {"fill", "sync", "txn"} => pc[p] \in {"fill", "sync", "txn"}
    BY <1>6, RotationAssumption
    DEF StartLocked, StartRead, Heal, HealCheck, HealStaged, HealMove, Load, Discard, Fill, Sync,
        WriteFails, Ensure, RekeyFails, SwapOut, SwapIn, Passwd, Replace, ReplaceFails,
        FinalSync, Abandon, Lockers
  <2> QED
    BY <1>4, <1>5, <2>1, <2>2
<1>7. CASE PowerLoss \/ RestoreStaged \/ UNCHANGED vars
  BY <1>0, <1>3, <1>7 DEF PowerLoss, RestoreStaged, vars
<1> QED
  BY <1>0, <1>1, <1>2, <1>3, <1>6, <1>7
  DEF Next, Environment, LockedStep, Write, Rekey, Procs

\* A write changes the bytes of a file and not its key.
LEMMA FillSingle ==
  ASSUME NEW dir \in Directory, NEW e \in Sealed, NEW k, Single(dir, k)
  PROVE  Single(Filled(dir, e), k)
<1>1. \A n \in Names : /\ Filled(dir, e)[n] = None <=> dir[n] = None
                       /\ dir[n] # None => Filled(dir, e)[n].key = dir[n].key
  BY FilesAssumption DEF Filled, Torn, Sealed, Directory
<1> QED
  BY <1>1 DEF Single, Names

\* No step puts the vault's key into a second file.
LEMMA DistinctStep ==
  ASSUME Initers = {}, Inv, Newer, Distinct, [Next]_vars
  PROVE  Distinct'
<1>0. /\ files \in durable /\ durable \subseteq Directory /\ files \in Directory
      /\ minted \in 0..MaxKey /\ MaxKey \in Nat /\ Keys = 1..MaxKey
      /\ Rekeyers \subseteq Lockers /\ Lockers \subseteq Procs
      /\ \A p \in Procs : Stage(p)
      /\ Single(files, vault)
      /\ Names = {"id", "new", "bak", "tmp"}
  BY FilesAssumption
  DEF Inv, Typing, TypeOK, FilesTypeOK, Keys, Lockers, Procs, Distinct, Names
<1>1. CASE vault' = vault /\ durable' \subseteq durable
  BY <1>1 DEF Distinct
<1>2. ASSUME NEW d, Mutate(d), vault' = vault, Single(d, vault) PROVE Distinct'
  BY <1>2 DEF Mutate, Distinct
<1>3. ASSUME NEW n \in Names, Remove(n), vault' = vault PROVE Distinct'
  <2>1. Single([files EXCEPT ![n] = None], vault)
    BY <1>0 DEF Single, Directory
  <2> QED
    BY <1>2, <1>3, <2>1 DEF Remove
<1>4. ASSUME vault' = vault, Rename("new", "id") \/ Rename("id", "bak") PROVE Distinct'
  <2>1. /\ Single([files EXCEPT !["id"] = files["new"], !["new"] = None], vault)
        /\ Single([files EXCEPT !["bak"] = files["id"], !["id"] = None], vault)
    BY <1>0 DEF Single, Directory
  <2> QED
    BY <1>2, <1>4, <2>1 DEF Rename
<1>5. ASSUME NEW p \in Lockers, Replace(p) PROVE Distinct'
  <2>1. Stage(p) /\ p \in Passwders /\ p \notin Rekeyers
    BY <1>0, <1>5, RotationAssumption DEF Replace, Stage, Verb
  <2>2. files["id"] # None /\ files["id"].key = files["tmp"].key
    BY <1>5, <2>1, RotationAssumption DEF Replace, Stage, Current, Drafting, Target, Lockers
  <2>3. Single([files EXCEPT !["id"] = files["tmp"], !["tmp"] = None], vault)
    BY <1>0, <2>2 DEF Single, Directory
  <2> QED
    BY <1>2, <1>5, <2>3 DEF Replace, Rename
<1>6. ASSUME NEW p \in Lockers, Create(p) PROVE Distinct'
  <2>1. PICK e \in Draft(p) : CreateExclusive(Target(p), e)
    BY <1>6 DEF Create
  <2>2. Single([files EXCEPT ![Target(p)] = Torn(e)], vault)
    <3>1. CASE p \in Passwders
      <4>1. Target(p) = "tmp"
        BY <3>1, RotationAssumption DEF Target
      <4> QED
        BY <1>0, <4>1 DEF Single, Directory
    <3>2. CASE p \in Rekeyers
      <4>1. Target(p) = "new"
        BY <3>2, RotationAssumption DEF Target, Lockers
      <4>2. vault \in Keys /\ vault <= minted
        BY <1>6, <3>2, RekeyHolds DEF Create, Newer
      <4>3. Torn(e).key # vault
        <5>1. e = [key |-> minted + 1, pass |-> held[p].pass, whole |-> TRUE]
          BY <2>1, <3>2, RotationAssumption DEF Draft, Lockers
        <5> QED
          BY <1>0, <4>2, <5>1 DEF Torn
      <4> QED
        BY <1>0, <4>1, <4>3 DEF Single, Directory
    <3> QED
      BY <3>1, <3>2 DEF Lockers
  <2> QED
    BY <1>2, <1>6, <2>1, <2>2 DEF Create, CreateExclusive
<1>7. ASSUME NEW p \in Lockers, Fill(p) PROVE Distinct'
  <2>1. made[p] \in Sealed
    BY <1>0, <1>7 DEF Fill, Stage, Drafting
  <2> QED
    BY <1>0, <1>7, <2>1, FillSingle DEF Fill, WriteAndSync, Distinct
<1>8. ASSUME NEW p \in Lockers, Commit(p) \/ CommitAmbiguous(p) PROVE Distinct'
  <2>1. pc[p] = "txn" /\ durable' = durable /\ vault' \in {vault, made[p].key}
    BY <1>8 DEF Commit, CommitAmbiguous
  <2>2. /\ durable = {files} /\ HoldsKey(files, "id", vault)
        /\ vault < made[p].key /\ vault \in Keys /\ made[p].key \in Keys
    BY <2>1, CommitFinds
  <2>3. files["id"].key # made[p].key
    BY <1>0, <2>2 DEF HoldsKey
  <2> QED
    BY <1>0, <2>1, <2>2, <2>3 DEF Distinct, Single
<1>9. CASE PowerLoss
  BY <1>1, <1>9 DEF PowerLoss, LosePower
<1>10. ASSUME NEW p \in Lockers, Sync(p) \/ FinalSync(p) PROVE Distinct'
  BY <1>0, <1>1, <1>10 DEF Sync, FinalSync, SyncDir
<1>11. \A p \in Lockers : Target(p) \in Names
  BY <1>0, RotationAssumption DEF Target, Lockers
<1>12. ASSUME NEW p \in Lockers, Write(p) PROVE Distinct'
  BY <1>3, <1>6, <1>7, <1>10, <1>11, <1>12 DEF Write, Discard, WriteFails
<1>13. ASSUME NEW p \in Procs, Heal(p) \/ StartLocked(p) \/ StartRead(p) \/ Abandon(p)
       PROVE  Distinct'
  BY <1>1, <1>4, <1>13
  DEF Heal, HealCheck, HealStaged, HealMove, Load, StartLocked, StartRead, Abandon, fileVars
<1>14. ASSUME NEW p \in Lockers, Rekey(p) \/ Passwd(p) PROVE Distinct'
  BY <1>0, <1>1, <1>3, <1>4, <1>5, <1>8, <1>14
  DEF Rekey, Passwd, Ensure, RekeyFails, SwapOut, SwapIn, ReplaceFails, fileVars
<1>15. CASE RestoreStaged \/ UNCHANGED vars
  BY <1>1, <1>4, <1>15 DEF RestoreStaged, vars
<1> QED
  BY <1>0, <1>9, <1>10, <1>12, <1>13, <1>14, <1>15
  DEF Next, Environment, LockedStep, Procs

\* A change to the directory that leaves the passphrase alone does not show.
LEMMA HiddenChange ==
  ASSUME files \in durable, NEW d, Mutate(d), vault' = vault,
         PassOf(d, vault) = PassOf(files, vault)
  PROVE  UNCHANGED Live!vars
BY DEF Mutate, Live!vars

\* Nor does one that leaves both files alone, ...
LEMMA ElsewhereHidden ==
  ASSUME files \in durable, NEW d, Mutate(d), vault' = vault,
         d["id"] = files["id"], d["new"] = files["new"]
  PROVE  UNCHANGED Live!vars
BY HiddenChange DEF PassOf, HoldsKey

\* ... or replaces the staged one while the identity file is live, ...
LEMMA StagingHidden ==
  ASSUME files \in durable, NEW d, Mutate(d), vault' = vault,
         d["id"] = files["id"], HoldsKey(files, "id", vault)
  PROVE  UNCHANGED Live!vars
BY HiddenChange DEF PassOf, HoldsKey

\* ... or puts a live staged file in place, ...
LEMMA PromotionHidden ==
  ASSUME Inv, Distinct, Rename("new", "id"), vault' = vault,
         vault \in Keys => HoldsKey(files, "new", vault)
  PROVE  UNCHANGED Live!vars
<1> DEFINE d == [files EXCEPT !["id"] = files["new"], !["new"] = None]
<1>0. /\ files \in durable /\ files \in Directory
      /\ Names = {"id", "new", "bak", "tmp"}
      /\ Single(files, vault)
  BY DEF Inv, Typing, TypeOK, FilesTypeOK, Names, Distinct
<1>1. d["id"] = files["new"] /\ d["new"] = None
  BY <1>0 DEF Directory
<1>2. CASE vault \in Keys
  <2>1. HoldsKey(files, "new", vault) /\ ~HoldsKey(files, "id", vault)
    BY <1>0, <1>2 DEF HoldsKey, Single
  <2>2. HoldsKey(d, "id", vault)
    BY <1>1, <2>1 DEF HoldsKey
  <2>3. PassOf(d, vault) = PassOf(files, vault)
    BY <1>1, <2>1, <2>2 DEF PassOf
  <2> QED
    BY <1>0, <2>3, HiddenChange DEF Rename
<1>3. CASE vault \notin Keys
  <2>1. \A n \in Names : ~HoldsKey(files, n, vault) /\ ~HoldsKey(d, n, vault)
    BY <1>0, <1>3 DEF HoldsKey, Directory, Sealed
  <2> QED
    BY <1>0, <2>1, HiddenChange DEF Rename, PassOf
<1> QED
  BY <1>2, <1>3

\* ... or completes a file.
LEMMA FillHidden ==
  ASSUME Inv, Distinct, NEW e \in Sealed, WriteAndSync(e), vault' = vault
  PROVE  UNCHANGED Live!vars
<1>0. /\ files \in durable /\ durable \subseteq Directory
      /\ "id" \in Names /\ "new" \in Names
  BY DEF Inv, Typing, TypeOK, FilesTypeOK, Names
<1>1. ASSUME NEW dir \in durable PROVE PassOf(Filled(dir, e), vault) = PassOf(dir, vault)
  <2>0. /\ dir \in Directory /\ Single(dir, vault)
        /\ vault \in Keys => HoldsKey(dir, "id", vault) \/ HoldsKey(dir, "new", vault)
    BY <1>0 DEF Distinct, Inv, DurableKey
  <2>1. \A n \in Names : HoldsKey(dir, n, vault) => Filled(dir, e)[n] = dir[n]
    BY DEF HoldsKey, Filled, Torn, Sealed
  <2>2. CASE HoldsKey(dir, "id", vault)
    BY <1>0, <2>1, <2>2 DEF PassOf, HoldsKey
  <2>3. CASE ~HoldsKey(dir, "id", vault) /\ HoldsKey(dir, "new", vault)
    <3>1. dir["id"] = None \/ dir["id"].key # vault
      BY <2>0, <2>3 DEF Single, HoldsKey
    <3>2. ~HoldsKey(Filled(dir, e), "id", vault)
      <4>1. Torn(e) # None /\ e.key = Torn(e).key
        BY FilesAssumption DEF Torn, Sealed
      <4>2. Filled(dir, e)["id"] = None \/ Filled(dir, e)["id"].key # vault
        BY <1>0, <3>1, <4>1 DEF Filled
      <4> QED
        BY <4>2 DEF HoldsKey
    <3> QED
      BY <1>0, <2>1, <2>3, <3>2 DEF PassOf, HoldsKey
  <2>4. CASE ~HoldsKey(dir, "id", vault) /\ ~HoldsKey(dir, "new", vault)
    <3>1. vault \notin Keys
      BY <2>0, <2>4
    <3>2. Filled(dir, e) \in Directory
      BY <2>0 DEF Filled, Directory
    <3>3. ~HoldsKey(Filled(dir, e), "id", vault) /\ ~HoldsKey(Filled(dir, e), "new", vault)
      BY <1>0, <3>1, <3>2 DEF HoldsKey, Directory, Sealed
    <3> QED
      BY <2>4, <3>3 DEF PassOf
  <2> QED
    BY <2>2, <2>3, <2>4
<1>2. PassOf(files', vault') = PassOf(files, vault)
  BY <1>0, <1>1 DEF WriteAndSync
<1>3. {PassOf(dir, vault') : dir \in durable'} = {PassOf(dir, vault) : dir \in durable}
  BY <1>1 DEF WriteAndSync
<1> QED
  BY <1>2, <1>3 DEF Live!vars

\* What an fsync of the directory shows.
LEMMA SyncShows ==
  ASSUME SyncDir, vault' = vault
  PROVE  Live!Settle
BY DEF SyncDir, Live!Settle

\* What a power loss shows.
LEMMA LossShows ==
  ASSUME LosePower, vault' = vault
  PROVE  Live!Revert
BY DEF LosePower, Live!Revert

\* A commit is the moment of the rotation, reported or not.
LEMMA CommitShows ==
  ASSUME Initers = {}, Inv, Newer, NEW p \in Lockers, pc[p] = "txn",
         UNCHANGED fileVars, vault' = made[p].key
  PROVE  Live!Rotate
<1>1. /\ vault \in Keys /\ made[p].key \in Keys /\ vault < made[p].key
      /\ durable = {files}
      /\ HoldsKey(files, "id", vault)
      /\ HoldsKey(files, "new", made[p].key)
      /\ files["new"].pass = files["id"].pass
  BY CommitFinds
<1>2. files["id"].key # made[p].key /\ vault # None
  BY <1>1, FilesAssumption DEF HoldsKey, Keys
<1>3. PassOf(files, vault) = files["id"].pass
  BY <1>1 DEF PassOf
<1>4. PassOf(files, made[p].key) = files["id"].pass
  BY <1>1, <1>2 DEF PassOf, HoldsKey
<1> QED
  BY <1>1, <1>2, <1>3, <1>4 DEF Live!Rotate, fileVars

\* The rename of a passwd changes the passphrase, unless the identity file
\* is one that a crashed rekey has retired.
LEMMA ReplaceShows ==
  ASSUME Initers = {}, Inv, NEW p \in Lockers, Replace(p)
  PROVE  (\E new \in Passes : Live!ChangePass(new)) \/ UNCHANGED Live!vars
<1>0. /\ files \in durable /\ files \in Directory
      /\ Names = {"id", "new", "bak", "tmp"}
      /\ Stage(p)
  BY DEF Inv, Typing, TypeOK, FilesTypeOK, Names, Procs
<1>1. p \in Passwders /\ p \notin Rekeyers
  BY <1>0, RotationAssumption DEF Replace, Stage, Verb
<1>2. /\ files["id"] # None /\ files["id"].whole
      /\ files["tmp"] # None /\ files["tmp"].whole
      /\ files["tmp"].key = files["id"].key
      /\ files["tmp"].pass \in Passes
  BY <1>0, <1>1, RotationAssumption, FilesAssumption
  DEF Replace, Stage, Current, Drafting, Target, Lockers, Sealed
<1> DEFINE d == [files EXCEPT !["id"] = files["tmp"], !["tmp"] = None]
<1>3. d["id"] = files["tmp"] /\ d["new"] = files["new"]
  BY <1>0 DEF Directory
<1>4. Mutate(d) /\ vault' = vault
  BY DEF Replace, Rename
<1>5. CASE files["id"].key = vault
  <2>1. PassOf(d, vault) = files["tmp"].pass
    BY <1>2, <1>3, <1>5 DEF PassOf, HoldsKey
  <2>2. vault # None
    BY <1>0, <1>2, <1>5, FilesAssumption DEF Directory, Sealed, Keys
  <2>3. PassOf(files', vault') = files["tmp"].pass
    BY <1>4, <2>1 DEF Mutate
  <2>4. {PassOf(dir, vault') : dir \in durable'}
          = {PassOf(dir, vault) : dir \in durable} \cup {files["tmp"].pass}
    BY <1>4, <2>1 DEF Mutate
  <2> QED
    BY <1>2, <1>4, <2>2, <2>3, <2>4 DEF Live!ChangePass
<1>6. CASE files["id"].key # vault
  <2>1. ~HoldsKey(files, "id", vault) /\ ~HoldsKey(d, "id", vault)
    BY <1>2, <1>3, <1>6 DEF HoldsKey
  <2>2. PassOf(d, vault) = PassOf(files, vault)
    BY <1>3, <2>1 DEF PassOf, HoldsKey
  <2> QED
    BY <1>0, <1>4, <2>2, HiddenChange
<1> QED
  BY <1>5, <1>6

\* The staged file that is renamed to the identity path is live.
LEMMA PromotesLive ==
  ASSUME Initers = {}, Inv, NEW p \in Procs, Rename("new", "id"),
         \/ HealMove(p) /\ HealsMissing
         \/ SwapIn(p)
         \/ RestoreStaged
  PROVE  vault \in Keys => HoldsKey(files, "new", vault)
<1>0. /\ files["new"] # None
      /\ files \in durable /\ files \in Directory /\ Names = {"id", "new", "bak", "tmp"}
      /\ Stage(p) /\ Advice /\ DurableKey
  BY DEF Rename, Inv, Typing, TypeOK, FilesTypeOK, Names
<1>1. CASE HealMove(p) /\ HealsMissing
  <2>1. files' # files
    BY <1>0 DEF Rename, Mutate, Directory
  <2>2. files["id"] = None
    BY <1>0, <1>1, <2>1 DEF HealMove, HealsMissing, Stage, Healing, Procs
  <2> QED
    BY <1>0, <2>2 DEF DurableKey, HoldsKey
<1>2. CASE SwapIn(p)
  BY <1>0, <1>2 DEF SwapIn, Stage, Swapping
<1>3. CASE RestoreStaged
  BY <1>0, <1>3 DEF RestoreStaged, Advice
<1> QED
  BY <1>1, <1>2, <1>3

\* What each step looks like to the user.
LEMMA LiveStep ==
  ASSUME Initers = {}, Inv, Newer, Distinct, [Next]_vars, [HealsMissing]_vars
  PROVE  [Live!Next]_Live!vars
<1> DEFINE Hidden == UNCHANGED Live!vars
<1>0. /\ files \in durable /\ files \in Directory
      /\ Names = {"id", "new", "bak", "tmp"}
      /\ Lockers \subseteq Procs
      /\ \A p \in Procs : Stage(p)
  BY DEF Inv, Typing, TypeOK, FilesTypeOK, Names, Procs
<1>1. UNCHANGED <<files, durable, vault>> => Hidden
  BY DEF Live!vars
<1>2. ASSUME NEW p \in Procs, HealMove(p) \/ SwapIn(p) PROVE Hidden
  <2>1. CASE UNCHANGED fileVars
    BY <1>1, <1>2, <2>1 DEF HealMove, SwapIn, fileVars
  <2>2. CASE Rename("new", "id")
    <3>1. files' # files
      BY <1>0, <2>2 DEF Rename, Mutate, Directory
    <3>2. HealsMissing
      BY <3>1 DEF vars
    <3> QED
      BY <1>2, <2>2, <3>2, PromotesLive, PromotionHidden DEF HealMove, SwapIn
  <2> QED
    BY <1>2, <2>1, <2>2 DEF HealMove, SwapIn
<1>3. CASE RestoreStaged
  <2>1. vault \in Keys => HoldsKey(files, "new", vault)
    BY <1>3 DEF RestoreStaged, Inv, Advice
  <2> QED
    BY <1>3, <2>1, PromotionHidden DEF RestoreStaged
<1>4. ASSUME NEW p \in Lockers, Discard(p) \/ WriteFails(p) PROVE Hidden
  <2>1. Remove(Target(p)) /\ vault' = vault /\ pc[p] \in {"discard", "fill", "sync"}
    BY <1>4 DEF Discard, WriteFails
  <2>2. CASE p \in Rekeyers
    <3>1. Target(p) = "new"
      BY <2>2, RotationAssumption DEF Target, Lockers
    <3>2. [files EXCEPT !["new"] = None]["id"] = files["id"]
      BY <1>0 DEF Directory
    <3> QED
      BY <1>0, <2>1, <2>2, <3>1, <3>2, RekeyHolds, StagingHidden DEF Remove
  <2>3. CASE p \in Passwders
    <3>1. Target(p) = "tmp"
      BY <2>3, RotationAssumption DEF Target
    <3>2. /\ [files EXCEPT !["tmp"] = None]["id"] = files["id"]
          /\ [files EXCEPT !["tmp"] = None]["new"] = files["new"]
      BY <1>0 DEF Directory
    <3> QED
      BY <1>0, <2>1, <3>1, <3>2, ElsewhereHidden DEF Remove
  <2> QED
    BY <2>2, <2>3 DEF Lockers
<1>5. ASSUME NEW p \in Lockers, Create(p) PROVE Hidden
  <2>1. PICK e \in Draft(p) : CreateExclusive(Target(p), e)
    BY <1>5 DEF Create
  <2>2. vault' = vault /\ pc[p] = "create"
    BY <1>5 DEF Create
  <2>3. CASE p \in Rekeyers
    <3>1. Target(p) = "new"
      BY <2>3, RotationAssumption DEF Target, Lockers
    <3>2. [files EXCEPT !["new"] = Torn(e)]["id"] = files["id"]
      BY <1>0 DEF Directory
    <3> QED
      BY <1>0, <2>1, <2>2, <2>3, <3>1, <3>2, RekeyHolds, StagingHidden DEF CreateExclusive
  <2>4. CASE p \in Passwders
    <3>1. Target(p) = "tmp"
      BY <2>4, RotationAssumption DEF Target
    <3>2. /\ [files EXCEPT !["tmp"] = Torn(e)]["id"] = files["id"]
          /\ [files EXCEPT !["tmp"] = Torn(e)]["new"] = files["new"]
      BY <1>0 DEF Directory
    <3> QED
      BY <1>0, <2>1, <2>2, <3>1, <3>2, ElsewhereHidden DEF CreateExclusive
  <2> QED
    BY <2>3, <2>4 DEF Lockers
<1>6. ASSUME NEW p \in Lockers, Fill(p) PROVE Hidden
  <2>1. made[p] \in Sealed
    BY <1>0, <1>6 DEF Fill, Stage, Drafting
  <2> QED
    BY <1>6, <2>1, FillHidden DEF Fill
<1>7. ASSUME NEW p \in Lockers, Sync(p) \/ FinalSync(p) PROVE Live!Settle
  BY <1>7, SyncShows DEF Sync, FinalSync
<1>8. ASSUME NEW p \in Lockers, Commit(p) \/ CommitAmbiguous(p) PROVE Live!Rotate \/ Hidden
  <2>1. /\ pc[p] = "txn" /\ UNCHANGED fileVars
        /\ vault' = vault \/ vault' = made[p].key
    BY <1>8 DEF Commit, CommitAmbiguous, fileVars
  <2> QED
    BY <1>1, <2>1, CommitShows DEF fileVars
<1>9. ASSUME NEW p \in Lockers, RekeyFails(p) PROVE Hidden
  <2>1. p \in Rekeyers /\ pc[p] = "txn" /\ Remove("new") /\ vault' = vault
    BY <1>0, <1>9 DEF RekeyFails, Stage, Verb
  <2>2. [files EXCEPT !["new"] = None]["id"] = files["id"]
    BY <1>0 DEF Directory
  <2> QED
    BY <1>0, <2>1, <2>2, RekeyHolds, StagingHidden DEF Remove
<1>10. ASSUME NEW p \in Lockers, SwapOut(p) PROVE Hidden
  <2> DEFINE d == [files EXCEPT !["bak"] = files["id"], !["id"] = None]
  <2>1. Mutate(d) /\ vault' = vault /\ files["id"] # None
    BY <1>10 DEF SwapOut, Rename
  <2>2. d["id"] = None /\ d["new"] = files["new"]
    BY <1>0 DEF Directory
  <2>3. HoldsKey(files, "new", vault) /\ Single(files, vault)
    BY <1>0, <1>10 DEF SwapOut, Stage, Swapping, Distinct
  <2> QED
    <3>1. ~HoldsKey(files, "id", vault) /\ ~HoldsKey(d, "id", vault) /\ HoldsKey(d, "new", vault)
      BY <2>1, <2>2, <2>3 DEF HoldsKey, Single
    <3>2. PassOf(d, vault) = PassOf(files, vault)
      BY <2>2, <2>3, <3>1 DEF PassOf
    <3> QED
      BY <1>0, <2>1, <3>2, HiddenChange
<1>11. ASSUME NEW p \in Lockers, ReplaceFails(p) PROVE Hidden
  <2>1. /\ [files EXCEPT !["tmp"] = None]["id"] = files["id"]
        /\ [files EXCEPT !["tmp"] = None]["new"] = files["new"]
    BY <1>0 DEF Directory
  <2> QED
    BY <1>0, <1>11, <2>1, ElsewhereHidden DEF ReplaceFails, Remove
<1>12. ASSUME NEW p \in Lockers, Replace(p)
       PROVE  (\E new \in Passes : Live!ChangePass(new)) \/ Hidden
  BY <1>12, ReplaceShows
<1>13. ASSUME NEW p \in Procs,
              StartLocked(p) \/ StartRead(p) \/ HealCheck(p) \/ HealStaged(p) \/ Load(p)
                \/ Ensure(p) \/ Abandon(p)
       PROVE  Hidden
  BY <1>1, <1>13 DEF StartLocked, StartRead, HealCheck, HealStaged, Load, Ensure, Abandon
<1>14. CASE PowerLoss
  BY <1>14, LossShows DEF PowerLoss, Live!Next
<1>15. CASE UNCHANGED vars
  BY <1>1, <1>15 DEF vars
<1> QED
  BY <1>0, <1>2, <1>3, <1>4, <1>5, <1>6, <1>7, <1>8, <1>9, <1>10, <1>11, <1>12, <1>13,
     <1>14, <1>15
  DEF Next, Environment, LockedStep, Heal, Write, Rekey, Passwd, Procs, Live!Next

\* Where everything begins.
LEMMA LiveInit ==
  ASSUME Initers = {}, Init
  PROVE  Newer /\ Distinct /\ Live!Init
<1>1. Newer
  BY FilesAssumption DEF Init, Newer, Keys, Procs, Lockers
<1>2. durable = {files} /\ "id" \in Names /\ "new" \in Names
  BY DEF Init, Names
<1>3. CASE files = [n \in Names |-> None] /\ vault = None
  <2>1. Distinct
    BY <1>2, <1>3 DEF Distinct, Single
  <2>2. PassOf(files, vault) = None
    BY <1>2, <1>3 DEF PassOf, HoldsKey
  <2> QED
    BY <1>1, <1>2, <1>3, <2>1, <2>2 DEF Live!Init
<1>4. ASSUME NEW pass \in Passes, vault = 1,
             files = [n \in Names |->
                        IF n = "id" THEN [key |-> 1, pass |-> pass, whole |-> TRUE] ELSE None]
      PROVE  Distinct /\ Live!Init
  <2>1. files["id"] = [key |-> 1, pass |-> pass, whole |-> TRUE] /\ files["new"] = None
    BY <1>2, <1>4
  <2>2. files["id"] \in Sealed /\ 1 \in Keys
    BY <2>1, FilesAssumption DEF Sealed, Keys
  <2>3. Distinct
    BY <1>2, <2>1 DEF Distinct, Single
  <2>4. PassOf(files, vault) = pass
    <3>1. files["id"] # None
      BY <2>2, FilesAssumption
    <3>2. HoldsKey(files, "id", vault)
      BY <1>4, <2>1, <3>1 DEF HoldsKey
    <3> QED
      BY <2>1, <3>2 DEF PassOf
  <2> QED
    BY <1>2, <1>4, <2>2, <2>3, <2>4 DEF Live!Init
<1> QED
  BY <1>1, <1>3, <1>4 DEF Init

\* For any number of rekeys, passwds, readers and rotations: as long as no
\* heal renames over a live identity, all that happens in the identity
\* directory, kills, errors and power losses included, looks like one key
\* with one passphrase.  The key only moves on to newer ones, once they are
\* on disk for good, and its passphrase is the one passwd last put in place
\* or, after a power loss, one that was in place since the last fsync.
THEOREM KeepsOneIdentity ==
  ASSUME Initers = {}
  PROVE  Spec /\ [][HealsMissing]_vars => KeepsLiveIdentity
<1> QED
  BY InvInit, InvStep, LiveInit, NewerStep, DistinctStep, LiveStep, PTL
  DEF Spec, KeepsLiveIdentity, Live!Spec

\* The verbs that take the lock keep it on no condition.
THEOREM LockedVerbsKeepIdentity ==
  ASSUME Readers = {}, Initers = {}
  PROVE  Spec => KeepsLiveIdentity
<1>1. [HealsMissing]_vars
  BY DEF HealsMissing
<1> QED
  BY <1>1, KeepsOneIdentity, PTL

\* And over a single rotation so do they beside any readers.
THEOREM OneRotationKeepsIdentity ==
  ASSUME Initers = {}, MaxKey = 2
  PROVE  Spec => KeepsLiveIdentity
<1>1. Init => HealsHole
  BY DEF Init, HealsHole, Procs
<1>2. HealsHole => [HealsMissing]_vars
  BY HoleHealsMissing
<1>3. Spent => [Apart]_vars
  BY SpentApart
<1> QED
  BY <1>1, <1>2, <1>3, InvInit, InvStep, HealsHoleStep, SpentInit, SpentStep,
     KeepsOneIdentity, PTL DEF Spec
=============================================================================
