------------------------ MODULE IdentityRotationProofs ------------------------
(***************************************************************************)
(* Proofs about IdentityRotation, for any number of processes, keys and    *)
(* passphrases.                                                            *)
(***************************************************************************)
EXTENDS IdentityRotation, TLAPS

-----------------------------------------------------------------------------
(* The operations on the directory keep its type.                          *)

\* A changed directory is seen at once and may survive a power loss.
LEMMA MutateTyping ==
  ASSUME FilesTypeOK, NEW dir \in Directory, Mutate(dir)
  PROVE  FilesTypeOK'
BY DEF FilesTypeOK, Mutate

\* Removing a name.
LEMMA RemoveTyping ==
  ASSUME FilesTypeOK, NEW n \in Names, Remove(n)
  PROVE  FilesTypeOK'
<1>1. [files EXCEPT ![n] = None] \in Directory
  BY DEF FilesTypeOK, Directory
<1> QED
  BY <1>1, MutateTyping DEF Remove

\* Renaming one name over another.
LEMMA RenameTyping ==
  ASSUME FilesTypeOK, NEW from \in Names, NEW to \in Names, Rename(from, to)
  PROVE  FilesTypeOK'
<1>1. [files EXCEPT ![to] = files[from], ![from] = None] \in Directory
  BY DEF FilesTypeOK, Directory
<1> QED
  BY <1>1, MutateTyping DEF Rename

\* Creating a file under a free name.
LEMMA CreateTyping ==
  ASSUME FilesTypeOK, NEW n \in Names, NEW e \in Sealed, CreateExclusive(n, e)
  PROVE  FilesTypeOK'
<1>1. Torn(e) \in Sealed
  BY DEF Torn, Sealed
<1>2. [files EXCEPT ![n] = Torn(e)] \in Directory
  BY <1>1 DEF FilesTypeOK, Directory
<1> QED
  BY <1>2, MutateTyping DEF CreateExclusive

\* Filling the file a create made, wherever it is now.
LEMMA WriteTyping ==
  ASSUME FilesTypeOK, NEW e \in Sealed, WriteAndSync(e)
  PROVE  FilesTypeOK'
<1>1. \A dir \in Directory : Filled(dir, e) \in Directory
  BY DEF Filled, Directory
<1> QED
  BY <1>1 DEF FilesTypeOK, WriteAndSync

\* fsync of the directory.
LEMMA SyncTyping ==
  ASSUME FilesTypeOK, SyncDir
  PROVE  FilesTypeOK'
BY DEF FilesTypeOK, SyncDir

\* A power loss.
LEMMA LosePowerTyping ==
  ASSUME FilesTypeOK, LosePower
  PROVE  FilesTypeOK'
BY DEF FilesTypeOK, LosePower
-----------------------------------------------------------------------------
(* Type correctness.  TypeOK alone is not inductive: what a process goes   *)
(* on to use must have been loaded or drafted by then.                     *)

Loaded(p) == pc[p] \in {"ensure", "discard", "create"} /\ p \in Lockers => held[p] \in Sealed

Drafted(p) ==
  pc[p] \in {"fill", "sync", "txn", "replace", "reserve", "schema"} => made[p] \in Sealed

Typing == TypeOK /\ \A p \in Procs : Loaded(p) /\ Drafted(p)

\* A process that ends leaves every other process as it was.
LEMMA QuitTyping ==
  ASSUME Typing, NEW q \in Procs, Quit(q)
  PROVE  /\ lock' \in Procs \cup {None}
         /\ pc' \in [Procs -> Labels]
         /\ held' \in [Procs -> Sealed \cup {None}]
         /\ made' \in [Procs -> Sealed \cup {None}]
         /\ \A p \in Procs : (Loaded(p) /\ Drafted(p))'
BY DEF Typing, TypeOK, Quit, Goto, Labels, Loaded, Drafted

\* A process that only moves on to a label where nothing new is needed.
LEMMA GotoTyping ==
  ASSUME Typing, NEW q \in Procs, NEW label \in Labels, Goto(q, label),
         label \in {"ensure", "discard", "create"} /\ q \in Lockers => held'[q] \in Sealed,
         label \in {"fill", "sync", "txn", "replace", "reserve", "schema"} => made'[q] \in Sealed,
         \A p \in Procs \ {q} : held'[p] = held[p] /\ made'[p] = made[p]
  PROVE  /\ pc' \in [Procs -> Labels]
         /\ \A p \in Procs : (Loaded(p) /\ Drafted(p))'
BY DEF Typing, TypeOK, Goto, Loaded, Drafted

\* What a writer drafts is an identity file.
LEMMA DraftTyping ==
  ASSUME Typing, NEW p \in Lockers \cup Initers, pc[p] = "create",
         p \notin Passwders => minted < MaxKey,
         NEW e \in Draft(p)
  PROVE  e \in Sealed
<1> USE RotationAssumption, FilesAssumption
<1>0. p \in Procs
  BY DEF Procs
<1>1. CASE p \in Rekeyers
  <2>1. held[p] \in Sealed
    BY <1>0, <1>1 DEF Typing, Loaded, Lockers
  <2>2. minted + 1 \in Keys
    BY <1>1 DEF Typing, TypeOK, Keys
  <2>3. p \notin Passwders /\ p \notin Initers
    BY <1>1 DEF Lockers
  <2>4. e = [key |-> minted + 1, pass |-> held[p].pass, whole |-> TRUE]
    BY <1>1, <2>3 DEF Draft
  <2>5. held[p].pass \in Passes
    BY <2>1 DEF Sealed
  <2> HIDE RotationAssumption, FilesAssumption
  <2> QED
    BY <2>2, <2>4, <2>5 DEF Sealed
<1>2. CASE p \in Passwders
  <2>1. held[p] \in Sealed
    BY <1>0, <1>2 DEF Typing, Loaded, Lockers
  <2>2. p \notin Rekeyers /\ p \notin Initers
    BY <1>2 DEF Lockers
  <2>3. e \in [key : {held[p].key}, pass : Passes, whole : {TRUE}]
    BY <1>2, <2>2 DEF Draft
  <2>4. held[p].key \in Keys
    BY <2>1 DEF Sealed
  <2> QED
    BY <2>3, <2>4 DEF Sealed
<1>3. CASE p \in Initers
  <2>1. minted + 1 \in Keys
    BY <1>3 DEF Typing, TypeOK, Keys, Lockers
  <2>2. p \notin Rekeyers /\ p \notin Passwders
    BY <1>3 DEF Lockers
  <2> QED
    BY <1>3, <2>1, <2>2 DEF Draft, Sealed, Lockers
<1> QED
  BY <1>1, <1>2, <1>3 DEF Lockers

\* Every writer has a file to write.
LEMMA TargetTyping ==
  ASSUME NEW p \in Lockers \cup Initers
  PROVE  Target(p) \in Names
BY DEF Target, Names, Lockers

\* Every step of every verb, and everything around them, keeps Typing.
LEMMA NextTyping ==
  ASSUME Typing, [Next]_vars
  PROVE  Typing'
<1>0. Lockers \cup Readers \cup Initers \subseteq Procs
  BY DEF Procs
<1>1. ASSUME NEW p \in Lockers, StartLocked(p) PROVE Typing'
  <2>1. FilesTypeOK'
    BY <1>0, <1>1 DEF StartLocked, Typing, TypeOK, FilesTypeOK, fileVars
  <2> QED
    BY <1>0, <1>1, <2>1, RotationAssumption DEF StartLocked, Typing, TypeOK, Goto, Labels, Loaded, Drafted, Lockers
<1>2. ASSUME NEW p \in Readers, StartRead(p) PROVE Typing'
  <2>1. FilesTypeOK'
    BY <1>0, <1>2 DEF StartRead, Typing, TypeOK, FilesTypeOK, fileVars
  <2> QED
    BY <1>0, <1>2, <2>1, RotationAssumption DEF StartRead, Typing, TypeOK, Goto, Labels, Loaded, Drafted, Lockers
<1>3. ASSUME NEW p \in Initers, StartInit(p) PROVE Typing'
  <2>1. FilesTypeOK'
    BY <1>0, <1>3 DEF StartInit, Typing, TypeOK, FilesTypeOK, fileVars
  <2> QED
    BY <1>0, <1>3, <2>1, RotationAssumption DEF StartInit, Typing, TypeOK, Goto, Labels, Loaded, Drafted, Lockers
<1>4. ASSUME NEW p \in Procs, HealCheck(p) PROVE Typing'
  <2>1. FilesTypeOK'
    BY <1>0, <1>4 DEF HealCheck, Typing, TypeOK, FilesTypeOK, fileVars
  <2> QED
    BY <1>0, <1>4, <2>1, RotationAssumption DEF HealCheck, Typing, TypeOK, Goto, Labels, Loaded, Drafted, Lockers
<1>5. ASSUME NEW p \in Procs, HealStaged(p) PROVE Typing'
  <2>1. FilesTypeOK'
    BY <1>0, <1>5 DEF HealStaged, Typing, TypeOK, FilesTypeOK, fileVars
  <2> QED
    BY <1>0, <1>5, <2>1, RotationAssumption DEF HealStaged, Typing, TypeOK, Goto, Labels, Loaded, Drafted, Lockers
<1>6. ASSUME NEW p \in Procs, HealMove(p) PROVE Typing'
  <2>1. FilesTypeOK'
    BY <1>0, <1>6, RenameTyping DEF HealMove, Typing, TypeOK, Names, fileVars, FilesTypeOK
  <2> QED
    BY <1>0, <1>6, <2>1 DEF HealMove, Typing, TypeOK, Goto, Labels, Loaded, Drafted
<1>7. ASSUME NEW p \in Procs, Load(p) PROVE Typing'
  <2>1. FilesTypeOK'
    BY <1>0, <1>7 DEF Load, Typing, TypeOK, FilesTypeOK
  <2>2. CASE p \in Readers
    BY <1>0, <1>7, <2>1, <2>2, QuitTyping DEF Load, Typing, TypeOK
  <2>3. CASE p \notin Readers
    <3>1. files["id"] \in Sealed
      BY <1>0, <1>7 DEF Load, Typing, TypeOK, FilesTypeOK, Directory, Names
    <3> QED
      BY <1>0, <1>7, <2>1, <2>3, <3>1 DEF Load, Typing, TypeOK, Goto, Labels, Loaded, Drafted
  <2> QED
    BY <2>2, <2>3
<1>8. ASSUME NEW p \in Lockers \cup Initers, Discard(p) PROVE Typing'
  <2>1. FilesTypeOK'
    BY <1>0, <1>8, RemoveTyping, TargetTyping DEF Discard, Typing, TypeOK, Names, fileVars
  <2> QED
    BY <1>0, <1>8, <2>1 DEF Discard, Typing, TypeOK, Goto, Labels, Loaded, Drafted
<1>9. ASSUME NEW p \in Lockers \cup Initers, Create(p) PROVE Typing'
  <2>1. PICK e \in Draft(p) : CreateExclusive(Target(p), e) /\ made' = [made EXCEPT ![p] = e]
    BY <1>0, <1>9 DEF Create
  <2>2. e \in Sealed
    BY <1>0, <1>9, DraftTyping DEF Create
  <2>3. FilesTypeOK'
    BY <1>0, <1>9, <2>1, <2>2, CreateTyping, TargetTyping DEF Typing, TypeOK
  <2>4. minted' \in 0..MaxKey
    BY <1>0, <1>9, FilesAssumption DEF Create, Typing, TypeOK
  <2> QED
    BY <1>0, <1>9, <2>1, <2>2, <2>3, <2>4 DEF Create, Typing, TypeOK, Goto, Labels, Loaded, Drafted
<1>10. ASSUME NEW p \in Lockers \cup Initers, Fill(p) PROVE Typing'
  <2>1. FilesTypeOK'
    BY <1>0, <1>10, WriteTyping DEF Fill, Typing, TypeOK, Drafted
  <2> QED
    BY <1>0, <1>10, <2>1 DEF Fill, Typing, TypeOK, Goto, Labels, Loaded, Drafted
<1>11. ASSUME NEW p \in Lockers \cup Initers, Sync(p) PROVE Typing'
  <2>1. FilesTypeOK'
    BY <1>0, <1>11, SyncTyping DEF Sync, Typing, TypeOK
  <2>2. PICK label \in {"txn", "replace", "reserve"} : Goto(p, label)
    BY <1>0, <1>11 DEF Sync, Lockers
  <2> QED
    BY <1>0, <1>11, <2>1, <2>2, ZenonT(40)
    DEF Sync, Typing, TypeOK, Goto, Labels, Loaded, Drafted
<1>12. ASSUME NEW p \in Lockers \cup Initers, WriteFails(p) PROVE Typing'
  <2>1. FilesTypeOK'
    BY <1>0, <1>12, RemoveTyping, TargetTyping DEF WriteFails, Typing, TypeOK, Names, FilesTypeOK
  <2>2. /\ vault' \in Keys \cup {None, Husk}
        /\ minted' \in 0..MaxKey
        /\ advised' \in BOOLEAN
    BY <1>0, <1>12 DEF WriteFails, Typing, TypeOK, Drafted, Sealed
  <2> QED
    BY <1>0, <1>12, <2>1, <2>2, QuitTyping DEF WriteFails, Typing, TypeOK
<1>13. ASSUME NEW p \in Lockers, Ensure(p) PROVE Typing'
  <2>1. FilesTypeOK'
    BY <1>0, <1>13 DEF Ensure, Typing, TypeOK, FilesTypeOK
  <2>2. CASE vault = held[p].key
    BY <1>0, <1>13, <2>1, <2>2 DEF Ensure, Typing, TypeOK, Goto, Labels, Loaded, Drafted
  <2>3. CASE vault # held[p].key
    BY <1>0, <1>13, <2>1, <2>3, QuitTyping DEF Ensure, Typing, TypeOK
  <2> QED
    BY <2>2, <2>3
<1>14. ASSUME NEW p \in Lockers, Commit(p) PROVE Typing'
  <2>1. FilesTypeOK'
    BY <1>0, <1>14 DEF Commit, Typing, TypeOK, FilesTypeOK
  <2>2. made[p].key \in Keys
    BY <1>0, <1>14 DEF Commit, Typing, Drafted, Sealed
  <2> QED
    BY <1>0, <1>14, <2>1, <2>2 DEF Commit, Typing, TypeOK, Goto, Labels, Loaded, Drafted
<1>15. ASSUME NEW p \in Lockers, CommitAmbiguous(p) PROVE Typing'
  <2>1. FilesTypeOK'
    BY <1>0, <1>15 DEF CommitAmbiguous, Typing, TypeOK, FilesTypeOK, fileVars
  <2>2. /\ vault' \in Keys \cup {None, Husk}
        /\ minted' \in 0..MaxKey
        /\ advised' \in BOOLEAN
    BY <1>0, <1>15 DEF CommitAmbiguous, Typing, TypeOK, Drafted, Sealed
  <2> QED
    BY <1>0, <1>15, <2>1, <2>2, QuitTyping DEF CommitAmbiguous, Typing, TypeOK
<1>16. ASSUME NEW p \in Lockers, RekeyFails(p) PROVE Typing'
  <2>1. FilesTypeOK'
    BY <1>0, <1>16, RemoveTyping, TargetTyping DEF RekeyFails, Typing, TypeOK, Names, FilesTypeOK
  <2>2. /\ vault' \in Keys \cup {None, Husk}
        /\ minted' \in 0..MaxKey
        /\ advised' \in BOOLEAN
    BY <1>0, <1>16 DEF RekeyFails, Typing, TypeOK, Drafted, Sealed
  <2> QED
    BY <1>0, <1>16, <2>1, <2>2, QuitTyping DEF RekeyFails, Typing, TypeOK
<1>17. ASSUME NEW p \in Lockers, SwapOut(p) PROVE Typing'
  <2>1. FilesTypeOK'
    BY <1>0, <1>17, RenameTyping DEF SwapOut, Typing, TypeOK, Names, fileVars
  <2> QED
    BY <1>0, <1>17, <2>1 DEF SwapOut, Typing, TypeOK, Goto, Labels, Loaded, Drafted
<1>18. ASSUME NEW p \in Lockers, SwapIn(p) PROVE Typing'
  <2>1. FilesTypeOK'
    BY <1>0, <1>18, RenameTyping DEF SwapIn, Typing, TypeOK, Names, fileVars, FilesTypeOK
  <2> QED
    BY <1>0, <1>18, <2>1 DEF SwapIn, Typing, TypeOK, Goto, Labels, Loaded, Drafted
<1>19. ASSUME NEW p \in Lockers, FinalSync(p) PROVE Typing'
  <2>1. FilesTypeOK'
    BY <1>0, <1>19, SyncTyping, TargetTyping DEF FinalSync, Typing, TypeOK, Names, FilesTypeOK
  <2>2. /\ vault' \in Keys \cup {None, Husk}
        /\ minted' \in 0..MaxKey
        /\ advised' \in BOOLEAN
    BY <1>0, <1>19 DEF FinalSync, Typing, TypeOK, Drafted, Sealed
  <2> QED
    BY <1>0, <1>19, <2>1, <2>2, QuitTyping DEF FinalSync, Typing, TypeOK
<1>20. ASSUME NEW p \in Lockers, Replace(p) PROVE Typing'
  <2>1. FilesTypeOK'
    BY <1>0, <1>20, RenameTyping DEF Replace, Typing, TypeOK, Names, fileVars
  <2> QED
    BY <1>0, <1>20, <2>1 DEF Replace, Typing, TypeOK, Goto, Labels, Loaded, Drafted
<1>21. ASSUME NEW p \in Lockers, ReplaceFails(p) PROVE Typing'
  <2>1. FilesTypeOK'
    BY <1>0, <1>21, RemoveTyping, TargetTyping DEF ReplaceFails, Typing, TypeOK, Names, FilesTypeOK
  <2>2. /\ vault' \in Keys \cup {None, Husk}
        /\ minted' \in 0..MaxKey
        /\ advised' \in BOOLEAN
    BY <1>0, <1>21 DEF ReplaceFails, Typing, TypeOK, Drafted, Sealed
  <2> QED
    BY <1>0, <1>21, <2>1, <2>2, QuitTyping DEF ReplaceFails, Typing, TypeOK
<1>22. ASSUME NEW p \in Initers, Reserve(p) PROVE Typing'
  <2>1. FilesTypeOK'
    BY <1>0, <1>22 DEF Reserve, Typing, TypeOK, FilesTypeOK, fileVars
  <2> QED
    BY <1>0, <1>22, <2>1, RotationAssumption DEF Reserve, Typing, TypeOK, Goto, Labels, Loaded, Drafted, Lockers
<1>23. ASSUME NEW p \in Initers, Schema(p) PROVE Typing'
  <2>1. FilesTypeOK'
    BY <1>0, <1>23 DEF Schema, Typing, TypeOK, FilesTypeOK
  <2>2. made[p].key \in Keys
    BY <1>0, <1>23 DEF Schema, Typing, Drafted, Sealed
  <2> QED
    BY <1>0, <1>23, <2>1, <2>2 DEF Schema, Typing, TypeOK, Goto, Labels, Loaded, Drafted
<1>24. ASSUME NEW p \in Initers, SchemaFails(p) PROVE Typing'
  <2>1. FilesTypeOK'
    BY <1>0, <1>24 DEF SchemaFails, Typing, TypeOK, FilesTypeOK, fileVars
  <2> QED
    BY <1>0, <1>24, <2>1, RotationAssumption DEF SchemaFails, Typing, TypeOK, Goto, Labels, Loaded, Drafted, Lockers
<1>25. ASSUME NEW p \in Initers, CloseFails(p) PROVE Typing'
  <2>1. FilesTypeOK'
    BY <1>0, <1>25 DEF CloseFails, Typing, TypeOK, FilesTypeOK
  <2>2. made[p].key \in Keys
    BY <1>0, <1>25 DEF CloseFails, Typing, Drafted, Sealed
  <2> QED
    BY <1>0, <1>25, <2>1, <2>2 DEF CloseFails, Typing, TypeOK, Goto, Labels, Loaded, Drafted
<1>26. ASSUME NEW p \in Initers, Disown(p) PROVE Typing'
  <2>1. FilesTypeOK'
    BY <1>0, <1>26, RemoveTyping, TargetTyping DEF Disown, Typing, TypeOK, Names, FilesTypeOK
  <2>2. /\ vault' \in Keys \cup {None, Husk}
        /\ minted' \in 0..MaxKey
        /\ advised' \in BOOLEAN
    BY <1>0, <1>26 DEF Disown, Typing, TypeOK, Drafted, Sealed
  <2> QED
    BY <1>0, <1>26, <2>1, <2>2, QuitTyping DEF Disown, Typing, TypeOK
<1>27. ASSUME NEW p \in Initers, SelfTestPasses(p) PROVE Typing'
  <2>1. FilesTypeOK'
    BY <1>0, <1>27 DEF SelfTestPasses, Typing, TypeOK, FilesTypeOK, fileVars
  <2>2. /\ vault' \in Keys \cup {None, Husk}
        /\ minted' \in 0..MaxKey
        /\ advised' \in BOOLEAN
    BY <1>0, <1>27 DEF SelfTestPasses, Typing, TypeOK, Drafted, Sealed
  <2> QED
    BY <1>0, <1>27, <2>1, <2>2, QuitTyping DEF SelfTestPasses, Typing, TypeOK
<1>28. ASSUME NEW p \in Initers, SelfTestFails(p) PROVE Typing'
  <2>1. FilesTypeOK'
    BY <1>0, <1>28, RemoveTyping DEF SelfTestFails, Typing, TypeOK, Names, fileVars
  <2> QED
    BY <1>0, <1>28, <2>1 DEF SelfTestFails, Typing, TypeOK, Goto, Labels, Loaded, Drafted
<1>29. ASSUME NEW p \in Initers, DropVault(p) PROVE Typing'
  <2>1. FilesTypeOK'
    BY <1>0, <1>29 DEF DropVault, Typing, TypeOK, FilesTypeOK, fileVars
  <2>2. /\ vault' \in Keys \cup {None, Husk}
        /\ minted' \in 0..MaxKey
        /\ advised' \in BOOLEAN
    BY <1>0, <1>29 DEF DropVault, Typing, TypeOK, Drafted, Sealed
  <2> QED
    BY <1>0, <1>29, <2>1, <2>2, QuitTyping DEF DropVault, Typing, TypeOK
<1>30. ASSUME NEW p \in Procs, Abandon(p) PROVE Typing'
  <2>1. FilesTypeOK'
    BY <1>0, <1>30 DEF Abandon, Typing, TypeOK, FilesTypeOK, fileVars
  <2>2. /\ vault' \in Keys \cup {None, Husk}
        /\ minted' \in 0..MaxKey
        /\ advised' \in BOOLEAN
    BY <1>0, <1>30 DEF Abandon, Typing, TypeOK, Drafted, Sealed
  <2> QED
    BY <1>0, <1>30, <2>1, <2>2, QuitTyping DEF Abandon, Typing, TypeOK
<1>31. CASE PowerLoss
  <2>1. FilesTypeOK'
    BY <1>31, LosePowerTyping DEF PowerLoss, Typing, TypeOK
  <2> QED
    BY <1>31, <2>1 DEF PowerLoss, Typing, TypeOK, Goto, Labels, Loaded, Drafted
<1>32. CASE RestoreStaged
  <2>1. FilesTypeOK'
    BY <1>32, RenameTyping DEF RestoreStaged, Typing, TypeOK, Names
  <2> QED
    BY <1>32, <2>1 DEF RestoreStaged, Typing, TypeOK, Goto, Labels, Loaded, Drafted
<1>33. CASE UNCHANGED vars
  BY <1>33 DEF vars, Typing, TypeOK, Goto, Labels, Loaded, Drafted, FilesTypeOK
<1> QED
  BY <1>0, <1>1, <1>2, <1>3, <1>4, <1>5, <1>6, <1>7, <1>8, <1>9, <1>10,
     <1>11, <1>12, <1>13, <1>14, <1>15, <1>16, <1>17, <1>18, <1>19, <1>20, <1>21,
     <1>22, <1>23, <1>24, <1>25, <1>26, <1>27, <1>28, <1>29, <1>30, <1>31, <1>32, <1>33
  DEF Next, Environment, LockedStep, Heal, Write, Rekey, Passwd, InitVerb

\* The initial states, both of them.
LEMMA InitTyping ==
  ASSUME Init
  PROVE  Typing
<1>1. 1 \in Keys
  BY FilesAssumption DEF Keys
<1>2. files \in Directory
  <2>1. [n \in Names |-> None] \in Directory
    BY DEF Directory
  <2>2. ASSUME NEW pass \in Passes
        PROVE  [n \in Names |-> IF n = "id" THEN [key |-> 1, pass |-> pass, whole |-> TRUE]
                                           ELSE None] \in Directory
    <3>1. [key |-> 1, pass |-> pass, whole |-> TRUE] \in Sealed
      BY <1>1 DEF Sealed
    <3> QED
      BY <3>1 DEF Directory
  <2> QED
    BY <2>1, <2>2 DEF Init
<1>3. FilesTypeOK
  BY <1>2 DEF Init, FilesTypeOK
<1>4. vault \in Keys \cup {None, Husk} /\ minted \in 0..MaxKey
  BY <1>1, FilesAssumption DEF Init
<1> QED
  BY <1>3, <1>4 DEF Init, Typing, TypeOK, Labels, Loaded, Drafted

\* The state has its type in every behaviour, whatever the processes do.
THEOREM TypeCorrect == Spec => []TypeOK
<1>1. Typing => TypeOK
  BY DEF Typing
<1> QED
  BY <1>1, InitTyping, NextTyping, PTL DEF Spec

-----------------------------------------------------------------------------
(* init without the verbs that take the lock: any number of inits and      *)
(* readers.  The exclusive creates decide who owns the identity path and   *)
(* who owns the vault path, and an init removes what it owns.              *)

\* An init owns the identity path from its create until it removes the file
\* or returns, and the vault path from its reservation on.
OwningIdentity == {"fill", "sync", "reserve", "schema", "selfTest", "disown"}

OwningVault == {"schema", "selfTest", "dropVault"}

OwnsIdentity(p) ==
  pc[p] \in OwningIdentity =>
    /\ made[p] \in Sealed
    /\ made[p].whole
    /\ files["id"] = IF pc[p] = "fill" THEN Torn(made[p]) ELSE made[p]

OwnsVault(p) ==
  /\ pc[p] = "schema" => vault = Husk
  /\ pc[p] \in {"selfTest", "dropVault"} => made[p] \in Sealed /\ vault = made[p].key

\* Each path has one owner at most.
OneOwner ==
  \A p, q \in Initers :
    /\ pc[p] \in OwningIdentity /\ pc[q] \in OwningIdentity => p = q
    /\ pc[p] \in OwningVault /\ pc[q] \in OwningVault => p = q

\* No rekey has left a staged file, so a reader has nothing to promote.
Unstaged ==
  /\ \A dir \in durable : dir["new"] = None
  /\ ~advised

Bootstrapping ==
  /\ \A p \in Initers : pc[p] \in {"idle", "create"} \cup OwningIdentity \cup OwningVault
  /\ \A p \in Readers : pc[p] \in {"idle", "heal", "healStaged", "load"}

BootstrapInv ==
  /\ Typing
  /\ Bootstrapping
  /\ OneOwner
  /\ Unstaged
  /\ \A p \in Initers : OwnsIdentity(p) /\ OwnsVault(p)

\* A process that ends owns nothing, and all others are where they were.
LEMMA QuitOwns ==
  ASSUME BootstrapInv, NEW p \in Procs, Quit(p)
  PROVE  /\ Bootstrapping'
         /\ OneOwner'
         /\ \A q \in Initers : q = p \/ pc[q] = "idle" => OwnsIdentity(q)' /\ OwnsVault(q)'
         /\ pc'[p] = "idle"
         /\ \A q \in Procs \ {p} : pc'[q] = pc[q] /\ made'[q] = made[q]
<1>1. /\ pc'[p] = "idle"
      /\ \A q \in Procs \ {p} : pc'[q] = pc[q] /\ made'[q] = made[q]
  BY DEF Quit, Goto, BootstrapInv, Typing, TypeOK
<1>2. Initers \subseteq Procs /\ Readers \subseteq Procs
  BY DEF Procs
<1>3. Bootstrapping'
  BY <1>1, <1>2 DEF BootstrapInv, Bootstrapping
<1>4. OneOwner'
  BY <1>1, <1>2 DEF BootstrapInv, OneOwner, OwningIdentity, OwningVault
<1>5. \A q \in Initers : q = p \/ pc[q] = "idle" => OwnsIdentity(q)' /\ OwnsVault(q)'
  BY <1>1, <1>2 DEF OwnsIdentity, OwnsVault, OwningIdentity
<1> QED
  BY <1>1, <1>3, <1>4, <1>5

\* A process that ends without touching files and vault.
LEMMA QuitBootstrap ==
  ASSUME BootstrapInv, Typing', NEW p \in Procs, Quit(p),
         UNCHANGED <<files, durable, vault, advised>>
  PROVE  BootstrapInv'
<1>1. \A q \in Initers : OwnsIdentity(q)' /\ OwnsVault(q)'
  <2> SUFFICES ASSUME NEW q \in Initers, q # p
               PROVE  OwnsIdentity(q)' /\ OwnsVault(q)'
    BY QuitOwns
  <2>1. pc'[q] = pc[q] /\ made'[q] = made[q]
    BY QuitOwns DEF Procs
  <2> QED
    BY <2>1 DEF BootstrapInv, OwnsIdentity, OwnsVault
<1> QED
  BY <1>1, QuitOwns DEF BootstrapInv, Unstaged

\* The owner of the identity path removes it and ends.
LEMMA RemoveBootstrap ==
  ASSUME BootstrapInv, Typing', NEW p \in Initers, pc[p] \in OwningIdentity \ OwningVault,
         Quit(p), Remove("id"), UNCHANGED <<vault, advised>>
  PROVE  BootstrapInv'
<1>1. p \in Procs
  BY DEF Procs
<1>2. \A q \in Initers \ {p} : pc[q] \notin OwningIdentity
  BY DEF BootstrapInv, OneOwner
<1>3. \A q \in Initers : OwnsIdentity(q)' /\ OwnsVault(q)'
  <2> SUFFICES ASSUME NEW q \in Initers, q # p
               PROVE  OwnsIdentity(q)' /\ OwnsVault(q)'
    BY <1>1, QuitOwns
  <2>1. pc'[q] = pc[q] /\ made'[q] = made[q]
    BY <1>1, QuitOwns DEF Procs
  <2> QED
    BY <1>2, <2>1 DEF BootstrapInv, OwnsIdentity, OwnsVault
<1>4. Unstaged'
  BY DEF BootstrapInv, Unstaged, Remove, Mutate, Typing, TypeOK, FilesTypeOK, Directory, Names
<1> QED
  BY <1>1, <1>3, <1>4, QuitOwns DEF BootstrapInv

\* A step of a reader.
LEMMA ReaderBootstrap ==
  ASSUME BootstrapInv, Typing', NEW p \in Readers, StartRead(p) \/ Heal(p)
  PROVE  BootstrapInv'
<1>1. p \in Procs /\ p \notin Initers /\ Initers \subseteq Procs /\ Readers \subseteq Procs
  BY RotationAssumption DEF Procs
<1>2. files["new"] = None
  BY DEF BootstrapInv, Unstaged, Typing, TypeOK, FilesTypeOK
<1>3. ASSUME NEW label \in {"heal", "healStaged", "load"}, Goto(p, label),
             UNCHANGED <<files, durable, vault, made, advised>>
      PROVE  BootstrapInv'
  <2>1. pc'[p] = label /\ \A q \in Procs \ {p} : pc'[q] = pc[q]
    BY <1>1, <1>3 DEF Goto, BootstrapInv, Typing, TypeOK
  <2>2. \A q \in Initers : pc'[q] = pc[q]
    BY <1>1, <2>1
  <2>3. Bootstrapping'
    BY <1>1, <2>1, <2>2 DEF BootstrapInv, Bootstrapping
  <2> QED
    BY <1>3, <2>2, <2>3 DEF BootstrapInv, OneOwner, Unstaged, OwnsIdentity, OwnsVault
<1>4. CASE StartRead(p)
  BY <1>3, <1>4 DEF StartRead
<1>5. CASE HealCheck(p)
  BY <1>3, <1>5 DEF HealCheck
<1>6. CASE HealStaged(p)
  BY <1>2, <1>3, <1>6 DEF HealStaged
<1>7. CASE HealMove(p)
  BY <1>7 DEF HealMove, BootstrapInv, Bootstrapping
<1>8. CASE Load(p)
  BY <1>1, <1>8, QuitBootstrap DEF Load
<1> QED
  BY <1>4, <1>5, <1>6, <1>7, <1>8 DEF Heal

\* An init goes to another label and leaves the files alone.
LEMMA GotoOwns ==
  ASSUME BootstrapInv, NEW p \in Initers, NEW label \in Labels, Goto(p, label),
         label \in {"idle", "create"} \cup OwningIdentity \cup OwningVault,
         label \in OwningIdentity => \A q \in Initers \ {p} : pc[q] \notin OwningIdentity,
         label \in OwningVault => \A q \in Initers \ {p} : pc[q] \notin OwningVault
  PROVE  /\ Bootstrapping'
         /\ OneOwner'
         /\ pc'[p] = label
         /\ \A q \in Initers \ {p} : pc'[q] = pc[q]
<1>1. p \in Procs /\ p \notin Readers /\ Initers \subseteq Procs /\ Readers \subseteq Procs
  BY RotationAssumption DEF Procs
<1>2. pc'[p] = label /\ \A q \in Procs \ {p} : pc'[q] = pc[q]
  BY <1>1 DEF Goto, BootstrapInv, Typing, TypeOK
<1>3. Bootstrapping'
  BY <1>1, <1>2 DEF BootstrapInv, Bootstrapping
<1>4. OneOwner'
  BY <1>1, <1>2 DEF BootstrapInv, OneOwner
<1> QED
  BY <1>1, <1>2, <1>3, <1>4

\* A step of an init: its writes.
LEMMA InitWrites ==
  ASSUME BootstrapInv, Typing', NEW p \in Initers, Write(p)
  PROVE  BootstrapInv'
<1>1. /\ p \in Procs /\ p \notin Rekeyers /\ p \notin Passwders
      /\ Target(p) = "id"
      /\ "id" \in Names /\ "new" \in Names
  BY RotationAssumption DEF Procs, Lockers, Target, Names
<1>2. files \in Directory /\ durable \subseteq Directory
  BY DEF BootstrapInv, Typing, TypeOK, FilesTypeOK
<1>3. CASE Discard(p)
  BY <1>3 DEF Discard, BootstrapInv, Bootstrapping, OwningIdentity, OwningVault
<1>4. CASE Create(p)
  <2>1. PICK e \in Draft(p) : CreateExclusive("id", e) /\ made' = [made EXCEPT ![p] = e]
    BY <1>1, <1>4 DEF Create
  <2>2. e \in Sealed /\ e.whole
    <3>1. minted + 1 \in Keys
      BY <1>1, <1>4, FilesAssumption DEF Create, BootstrapInv, Typing, TypeOK, Keys
    <3> QED
      BY <1>1, <3>1, <2>1 DEF Draft, Sealed
  <2>3. \A q \in Initers : pc[q] \notin OwningIdentity
    <3> SUFFICES ASSUME NEW q \in Initers, pc[q] \in OwningIdentity
                 PROVE  FALSE
      OBVIOUS
    <3>1. files["id"] \in Sealed
      BY DEF BootstrapInv, OwnsIdentity, Torn, Sealed
    <3> QED
      BY <2>1, <3>1, FilesAssumption DEF CreateExclusive
  <2>4. /\ Bootstrapping' /\ OneOwner' /\ pc'[p] = "fill"
        /\ \A q \in Initers \ {p} : pc'[q] = pc[q]
    BY <1>4, <2>3, GotoOwns DEF Create, Labels, OwningIdentity, OwningVault
  <2>5. made'[p] = e /\ \A q \in Initers \ {p} : made'[q] = made[q]
    BY <1>1, <2>1 DEF BootstrapInv, Typing, TypeOK, Procs
  <2>6. files'["id"] = Torn(e)
    BY <1>1, <1>2, <2>1 DEF CreateExclusive, Mutate, Directory
  <2>7. Unstaged'
    BY <1>1, <1>2, <1>4, <2>1
    DEF BootstrapInv, Unstaged, CreateExclusive, Mutate, Create, Typing, TypeOK, FilesTypeOK, Directory
  <2>8. \A q \in Initers : OwnsIdentity(q)' /\ OwnsVault(q)'
    BY <1>4, <2>2, <2>3, <2>4, <2>5, <2>6
    DEF BootstrapInv, OwnsIdentity, OwnsVault, OwningIdentity, Create
  <2> QED
    BY <2>4, <2>7, <2>8 DEF BootstrapInv
<1>5. CASE Fill(p)
  <2>1. made[p] \in Sealed /\ made[p].whole /\ files["id"] = Torn(made[p])
    BY <1>5 DEF Fill, BootstrapInv, OwnsIdentity, OwningIdentity
  <2>2. \A q \in Initers \ {p} : pc[q] \notin OwningIdentity
    BY <1>5 DEF Fill, BootstrapInv, OneOwner, OwningIdentity
  <2>3. /\ Bootstrapping' /\ OneOwner' /\ pc'[p] = "sync"
        /\ \A q \in Initers \ {p} : pc'[q] = pc[q]
    BY <1>5, <2>2, GotoOwns DEF Fill, Labels, OwningIdentity, OwningVault
  <2>4. files'["id"] = made[p]
    BY <1>1, <1>5, <2>1 DEF Fill, WriteAndSync, Filled
  <2>5. Unstaged'
    <3>1. Torn(made[p]) # None
      BY <2>1, FilesAssumption DEF Torn, Sealed
    <3>2. \A dir \in durable : Filled(dir, made[p])["new"] = None
      BY <1>1, <3>1 DEF BootstrapInv, Unstaged, Filled
    <3> QED
      BY <1>5, <3>2 DEF Fill, WriteAndSync, BootstrapInv, Unstaged
  <2>6. \A q \in Initers : OwnsIdentity(q)' /\ OwnsVault(q)'
    BY <1>5, <2>1, <2>2, <2>3, <2>4
    DEF BootstrapInv, OwnsIdentity, OwnsVault, OwningIdentity, Fill
  <2> QED
    BY <2>3, <2>5, <2>6 DEF BootstrapInv
<1>6. CASE Sync(p)
  <2>1. \A q \in Initers \ {p} : pc[q] \notin OwningIdentity
    BY <1>6 DEF Sync, BootstrapInv, OneOwner, OwningIdentity
  <2>2. /\ Bootstrapping' /\ OneOwner' /\ pc'[p] = "reserve"
        /\ \A q \in Initers \ {p} : pc'[q] = pc[q]
    BY <1>1, <1>6, <2>1, GotoOwns DEF Sync, Labels, OwningIdentity, OwningVault
  <2>3. Unstaged'
    BY <1>6 DEF Sync, SyncDir, BootstrapInv, Unstaged, Typing, TypeOK, FilesTypeOK
  <2>4. \A q \in Initers : OwnsIdentity(q)' /\ OwnsVault(q)'
    BY <1>6, <2>2 DEF BootstrapInv, OwnsIdentity, OwnsVault, OwningIdentity, Sync, SyncDir
  <2> QED
    BY <2>2, <2>3, <2>4 DEF BootstrapInv
<1>7. CASE WriteFails(p)
  BY <1>1, <1>7, RemoveBootstrap DEF WriteFails, OwningIdentity, OwningVault
<1> QED
  BY <1>3, <1>4, <1>5, <1>6, <1>7 DEF Write

\* A step of an init: the vault, the self-test and both unwindings.
LEMMA InitSteps ==
  ASSUME BootstrapInv, Typing', NEW p \in Initers, InitVerb(p)
  PROVE  BootstrapInv'
<1>1. p \in Procs
  BY DEF Procs
<1>2. ASSUME NEW label \in OwningIdentity, Goto(p, label), pc[p] \in OwningIdentity,
             UNCHANGED <<files, durable, made, advised>>,
             label \in OwningVault => \A q \in Initers \ {p} : pc[q] \notin OwningVault,
             label # "fill", pc[p] # "fill",
             label = "schema" => vault' = Husk,
             label = "selfTest" => vault' = made[p].key,
             \/ vault' = vault
             \/ \A q \in Initers \ {p} : pc[q] \notin OwningVault
      PROVE  BootstrapInv'
  <2>1. \A q \in Initers \ {p} : pc[q] \notin OwningIdentity
    BY <1>2 DEF BootstrapInv, OneOwner
  <2>2. label \in Labels
    BY <1>2 DEF Labels, OwningIdentity
  <2>3. /\ Bootstrapping' /\ OneOwner' /\ pc'[p] = label
        /\ \A q \in Initers \ {p} : pc'[q] = pc[q]
    BY <1>2, <2>1, <2>2, GotoOwns
  <2>4. OwnsIdentity(p)' /\ OwnsVault(p)'
    BY <1>2, <2>3 DEF BootstrapInv, OwnsIdentity, OwnsVault, OwningIdentity
  <2>5. ASSUME NEW q \in Initers \ {p}
        PROVE  OwnsIdentity(q)' /\ OwnsVault(q)'
    BY <1>2, <2>1, <2>3 DEF BootstrapInv, OwnsIdentity, OwnsVault, OwningVault
  <2> QED
    BY <1>2, <2>3, <2>4, <2>5 DEF BootstrapInv, Unstaged
<1>3. CASE StartInit(p)
  <2>1. /\ Bootstrapping' /\ OneOwner' /\ pc'[p] = "create"
        /\ \A q \in Initers \ {p} : pc'[q] = pc[q]
    BY <1>3, GotoOwns DEF StartInit, Labels, OwningIdentity, OwningVault
  <2> QED
    BY <1>3, <2>1
    DEF StartInit, BootstrapInv, Unstaged, OwnsIdentity, OwnsVault, OwningIdentity
<1>4. CASE Reserve(p)
  <2>1. CASE vault = None
    <3>1. \A q \in Initers : pc[q] \notin OwningVault
      BY <2>1, FilesAssumption, RotationAssumption
      DEF BootstrapInv, OwnsVault, OwningVault, Sealed, Keys
    <3> QED
      BY <1>2, <1>4, <2>1, <3>1 DEF Reserve, OwningIdentity
  <2>2. CASE vault # None
    BY <1>2, <1>4, <2>2 DEF Reserve, OwningIdentity, OwningVault
  <2> QED
    BY <2>1, <2>2
<1>5. CASE Schema(p) \/ SchemaFails(p) \/ CloseFails(p)
  <2>1. \A q \in Initers \ {p} : pc[q] \notin OwningVault
    BY <1>5 DEF BootstrapInv, OneOwner, OwningVault, Schema, SchemaFails, CloseFails
  <2> QED
    BY <1>2, <1>5, <2>1 DEF Schema, SchemaFails, CloseFails, OwningIdentity
<1>6. CASE Disown(p)
  BY <1>6, RemoveBootstrap DEF Disown, OwningIdentity, OwningVault
<1>7. CASE SelfTestPasses(p)
  BY <1>1, <1>7, QuitBootstrap DEF SelfTestPasses
<1>8. CASE SelfTestFails(p)
  <2>1. \A q \in Initers \ {p} : pc[q] \notin OwningIdentity /\ pc[q] \notin OwningVault
    BY <1>8 DEF SelfTestFails, BootstrapInv, OneOwner, OwningIdentity, OwningVault
  <2>2. /\ Bootstrapping' /\ OneOwner' /\ pc'[p] = "dropVault"
        /\ \A q \in Initers \ {p} : pc'[q] = pc[q]
    BY <1>8, <2>1, GotoOwns DEF SelfTestFails, Labels, OwningIdentity, OwningVault
  <2>3. Unstaged'
    BY <1>8 DEF SelfTestFails, BootstrapInv, Unstaged, Remove, Mutate, Typing, TypeOK,
      FilesTypeOK, Directory, Names
  <2>4. \A q \in Initers : OwnsIdentity(q)' /\ OwnsVault(q)'
    BY <1>8, <2>1, <2>2
    DEF SelfTestFails, BootstrapInv, OwnsIdentity, OwnsVault, OwningIdentity, OwningVault
  <2> QED
    BY <2>2, <2>3, <2>4 DEF BootstrapInv
<1>9. CASE DropVault(p)
  <2>1. \A q \in Initers \ {p} : pc[q] \notin OwningVault
    BY <1>9 DEF DropVault, BootstrapInv, OneOwner, OwningVault
  <2>2. \A q \in Initers : OwnsIdentity(q)' /\ OwnsVault(q)'
    <3> SUFFICES ASSUME NEW q \in Initers, q # p
                 PROVE  OwnsIdentity(q)' /\ OwnsVault(q)'
      BY <1>1, <1>9, QuitOwns DEF DropVault
    <3>1. pc'[q] = pc[q] /\ made'[q] = made[q]
      BY <1>1, <1>9, QuitOwns DEF Procs, DropVault
    <3> QED
      BY <1>9, <2>1, <3>1 DEF BootstrapInv, OwnsIdentity, OwnsVault, OwningVault, DropVault
  <2> QED
    BY <1>1, <1>9, <2>2, QuitOwns DEF DropVault, BootstrapInv, Unstaged
<1> QED
  BY <1>3, <1>4, <1>5, <1>6, <1>7, <1>8, <1>9 DEF InitVerb

\* Every step but those of the verbs that take the lock keeps who owns what.
LEMMA UnlockedBootstrap ==
  ASSUME BootstrapInv, Typing',
         \/ \E p \in Readers : StartRead(p) \/ Heal(p)
         \/ \E p \in Initers : InitVerb(p) \/ Write(p)
         \/ Environment
         \/ UNCHANGED vars
  PROVE  BootstrapInv'
<1>1. ASSUME NEW p \in Readers, StartRead(p) \/ Heal(p) PROVE BootstrapInv'
  BY <1>1, ReaderBootstrap
<1>2. ASSUME NEW p \in Initers, InitVerb(p) \/ Write(p) PROVE BootstrapInv'
  BY <1>2, InitSteps, InitWrites
<1>3. ASSUME NEW p \in Procs, Abandon(p) PROVE BootstrapInv'
  BY <1>3, QuitBootstrap DEF Abandon
<1>4. CASE PowerLoss
  <2>1. \A p \in Procs : pc'[p] = "idle"
    BY <1>4 DEF PowerLoss
  <2>2. Initers \subseteq Procs /\ Readers \subseteq Procs
    BY DEF Procs
  <2>3. Unstaged'
    BY <1>4 DEF PowerLoss, LosePower, BootstrapInv, Unstaged
  <2> QED
    BY <2>1, <2>2, <2>3
    DEF BootstrapInv, Bootstrapping, OneOwner, OwnsIdentity, OwnsVault, OwningIdentity, OwningVault
<1>5. CASE RestoreStaged
  BY <1>5 DEF RestoreStaged, BootstrapInv, Unstaged
<1>6. CASE UNCHANGED vars
  BY <1>6 DEF vars, BootstrapInv, Bootstrapping, OneOwner, Unstaged, OwnsIdentity, OwnsVault
<1> QED
  BY <1>1, <1>2, <1>3, <1>4, <1>5, <1>6 DEF Environment

\* Without those verbs every step does.
LEMMA BootstrapStep ==
  ASSUME Lockers = {}, BootstrapInv, [Next]_vars
  PROVE  BootstrapInv'
<1>1. Typing'
  BY NextTyping DEF BootstrapInv
<1> QED
  BY <1>1, UnlockedBootstrap DEF Next

\* At the start no verb runs and nothing is staged.
LEMMA BootstrapInit ==
  ASSUME Init
  PROVE  BootstrapInv
<1>1. Initers \subseteq Procs /\ Readers \subseteq Procs
  BY DEF Procs
<1>2. \A p \in Procs : pc[p] = "idle"
  BY DEF Init
<1>3. Unstaged
  BY DEF Init, Unstaged, Names
<1> QED
  BY <1>1, <1>2, <1>3, InitTyping
  DEF BootstrapInv, Bootstrapping, OneOwner, OwnsIdentity, OwnsVault, OwningIdentity, OwningVault

\* However many inits race, with crashes, power losses and failing steps,
\* one that is about to report success has the identity and the vault it made.
THEOREM InitHasPair ==
  ASSUME Lockers = {}
  PROVE  Spec => []InitReportsPair
<1>1. BootstrapInv => InitReportsPair
  BY FilesAssumption
  DEF BootstrapInv, InitReportsPair, OwnsIdentity, OwnsVault, OwningIdentity, HoldsKey
<1> QED
  BY <1>1, BootstrapInit, BootstrapStep, PTL DEF Spec

\* An init that unwinds a failed vault.Create removes the identity it wrote.
THEOREM InitUnwindsOwn ==
  ASSUME Lockers = {}
  PROVE  Spec => InitRemovesOnlyOwn
<1> DEFINE Own ==
      \A p \in Initers : Disown(p) => files["id"] = None \/ files["id"].key = made[p].key
<1>1. ASSUME BootstrapInv PROVE [Own]_vars
  BY <1>1 DEF Disown, BootstrapInv, OwnsIdentity, OwningIdentity
<1> QED
  BY <1>1, BootstrapInit, BootstrapStep, PTL DEF Spec, InitRemovesOnlyOwn

-----------------------------------------------------------------------------
(* init beside the verbs that take the lock.  If an init keeps clear of a  *)
(* finished vault and of those verbs, there are two phases: until the      *)
(* first init has finished a vault nothing is staged, and from then on no  *)
(* init runs.                                                              *)

InitsIdle == \A p \in Initers : pc[p] = "idle"

\* An init starts only when there is no finished vault, and no verb holds
\* the lock while one runs, as if it took the lock and then looked.
InitsApart ==
  /\ \A p \in Initers : StartInit(p) => vault \notin Keys
  /\ ~InitsIdle' => lock' = None

LockHeld == \A p \in Lockers : pc[p] # "idle" => lock = p

Established == vault \in Keys /\ InitsIdle

\* Until then rekey finds no vault to stage a key for.  passwd may change the
\* passphrase of an identity that a killed init left.
Founding ==
  /\ BootstrapInv
  /\ ~InitsIdle => lock = None
  /\ \A p \in Rekeyers : pc[p] \in {"idle", "heal", "healStaged", "load", "ensure"}
  /\ \A p \in Passwders :
       pc[p] \in {"idle", "heal", "healStaged", "load", "discard", "create", "fill",
                  "sync", "replace", "replaceSync"}

ApartInv == Typing /\ LockHeld /\ (Established \/ Founding)

\* A process moves itself only, and a verb leaves the others' lock alone.
LEMMA OnlyItself ==
  ASSUME Typing, NEW p \in Procs,
         LockedStep(p) \/ StartRead(p) \/ InitVerb(p) \/ Abandon(p)
  PROVE  /\ \A q \in Procs \ {p} : pc'[q] = pc[q]
         /\ lock' = lock \/ lock \in {None, p}
         /\ pc'[p] = "idle" \/ lock' = lock \/ lock' = p
<1>1. ASSUME NEW label, Goto(p, label) PROVE \A q \in Procs \ {p} : pc'[q] = pc[q]
  BY <1>1 DEF Goto, Typing, TypeOK
<1>2. ASSUME Quit(p)
      PROVE  /\ \A q \in Procs \ {p} : pc'[q] = pc[q]
             /\ lock' = lock \/ lock \in {None, p}
             /\ pc'[p] = "idle"
  BY <1>1, <1>2 DEF Quit, Goto, Typing, TypeOK
<1>3. CASE StartLocked(p) \/ StartRead(p)
  BY <1>1, <1>3 DEF StartLocked, StartRead
<1>4. CASE HealCheck(p) \/ HealStaged(p) \/ HealMove(p)
  BY <1>1, <1>4 DEF HealCheck, HealStaged, HealMove
<1>5. CASE Load(p)
  BY <1>1, <1>2, <1>5 DEF Load
<1>6. CASE Write(p)
  BY <1>1, <1>2, <1>6 DEF Write, Discard, Create, Fill, Sync, WriteFails
<1>7. CASE Ensure(p)
  BY <1>1, <1>2, <1>7 DEF Ensure
<1>8. CASE Commit(p) \/ SwapOut(p) \/ SwapIn(p) \/ Replace(p)
  BY <1>1, <1>8 DEF Commit, SwapOut, SwapIn, Replace
<1>9. CASE CommitAmbiguous(p) \/ RekeyFails(p) \/ ReplaceFails(p) \/ FinalSync(p) \/ Abandon(p)
  BY <1>2, <1>9 DEF CommitAmbiguous, RekeyFails, ReplaceFails, FinalSync, Abandon
<1>10. CASE StartInit(p) \/ Reserve(p) \/ Schema(p) \/ SchemaFails(p) \/ CloseFails(p)
           \/ SelfTestFails(p)
  BY <1>1, <1>10 DEF StartInit, Reserve, Schema, SchemaFails, CloseFails, SelfTestFails
<1>11. CASE Disown(p) \/ SelfTestPasses(p) \/ DropVault(p)
  BY <1>2, <1>11 DEF Disown, SelfTestPasses, DropVault
<1> QED
  BY <1>3, <1>4, <1>5, <1>6, <1>7, <1>8, <1>9, <1>10, <1>11
  DEF LockedStep, Heal, Rekey, Passwd, InitVerb

\* A verb that runs holds the lock.
LEMMA LockHeldStep ==
  ASSUME Typing, LockHeld, [Next]_vars
  PROVE  LockHeld'
<1>1. /\ Lockers \subseteq Procs /\ Readers \subseteq Procs /\ Initers \subseteq Procs
      /\ \A p \in Readers \cup Initers : p \notin Lockers
      /\ None \notin Lockers
  BY RotationAssumption DEF Procs
<1>2. ASSUME NEW p \in Procs, LockedStep(p) \/ StartRead(p) \/ InitVerb(p) \/ Abandon(p),
             p \in Lockers => lock = p \/ pc'[p] = "idle" \/ lock' = p
      PROVE  LockHeld'
  <2>1. /\ \A q \in Procs \ {p} : pc'[q] = pc[q]
        /\ lock' = lock \/ lock \in {None, p}
        /\ pc'[p] = "idle" \/ lock' = lock \/ lock' = p
    BY <1>2, OnlyItself
  <2>2. ASSUME NEW q \in Lockers, pc'[q] # "idle" PROVE lock' = q
    <3>1. CASE q = p
      BY <1>2, <2>1, <2>2, <3>1
    <3>2. CASE q # p
      <4>1. lock = q
        BY <1>1, <2>1, <2>2, <3>2 DEF LockHeld
      <4> QED
        BY <1>1, <2>1, <3>2, <4>1
    <3> QED
      BY <3>1, <3>2
  <2> QED
    BY <2>2 DEF LockHeld
<1>3. ASSUME NEW p \in Lockers, LockedStep(p) PROVE LockHeld'
  <2>1. CASE StartLocked(p)
    BY <1>1, <1>2, <1>3, <2>1 DEF StartLocked
  <2>2. CASE ~StartLocked(p)
    <3>1. pc[p] # "idle"
      BY <1>3, <2>2
      DEF LockedStep, Heal, HealCheck, HealStaged, HealMove, Load, Write, Discard, Create, Fill,
          Sync, WriteFails, Rekey, Ensure, Commit, CommitAmbiguous, RekeyFails, SwapOut, SwapIn,
          Passwd, Replace, ReplaceFails, FinalSync
    <3> QED
      BY <1>1, <1>2, <1>3, <3>1 DEF LockHeld
  <2> QED
    BY <2>1, <2>2
<1>4. ASSUME NEW p \in Readers, StartRead(p) \/ Heal(p) PROVE LockHeld'
  BY <1>1, <1>2, <1>4 DEF LockedStep
<1>5. ASSUME NEW p \in Initers, InitVerb(p) \/ Write(p) PROVE LockHeld'
  BY <1>1, <1>2, <1>5 DEF LockedStep
<1>6. ASSUME NEW p \in Procs, Abandon(p) PROVE LockHeld'
  <2>1. pc'[p] = "idle"
    BY <1>6 DEF Abandon, Quit, Goto, Typing, TypeOK
  <2> QED
    BY <1>2, <1>6, <2>1
<1>7. CASE PowerLoss
  BY <1>1, <1>7 DEF PowerLoss, LockHeld
<1>8. CASE RestoreStaged \/ UNCHANGED vars
  BY <1>8 DEF RestoreStaged, LockHeld, vars
<1> QED
  BY <1>3, <1>4, <1>5, <1>6, <1>7, <1>8 DEF Next, Environment

\* A finished vault stays one, and no init starts.
LEMMA EstablishedStays ==
  ASSUME Typing, Established, InitsApart, [Next]_vars
  PROVE  Established'
<1>1. /\ Lockers \subseteq Procs /\ Readers \subseteq Procs /\ Initers \subseteq Procs
      /\ \A p \in Lockers \cup Readers : p \notin Initers
  BY RotationAssumption DEF Procs
<1>2. ASSUME NEW p \in Lockers \cup Readers, LockedStep(p) \/ StartRead(p) PROVE InitsIdle'
  BY <1>1, <1>2, OnlyItself DEF Established, InitsIdle
<1>3. ASSUME NEW p \in Lockers, LockedStep(p) PROVE vault' \in Keys
  <2>1. CASE Commit(p) \/ CommitAmbiguous(p)
    <3>1. made[p] \in Sealed
      BY <1>1, <2>1 DEF Commit, CommitAmbiguous, Typing, Drafted
    <3> QED
      BY <2>1, <3>1 DEF Commit, CommitAmbiguous, Established, Sealed
  <2>2. CASE ~(Commit(p) \/ CommitAmbiguous(p))
    <3>1. vault' = vault
      BY <1>3, <2>2
      DEF LockedStep, StartLocked, Heal, HealCheck, HealStaged, HealMove, Load, Write, Discard,
          Create, Fill, Sync, WriteFails, Rekey, Ensure, RekeyFails, SwapOut, SwapIn, Passwd,
          Replace, ReplaceFails, FinalSync
    <3> QED
      BY <3>1 DEF Established
  <2> QED
    BY <2>1, <2>2
<1>4. ASSUME NEW p \in Readers, StartRead(p) \/ Heal(p) PROVE vault' \in Keys
  BY <1>4 DEF StartRead, Heal, HealCheck, HealStaged, HealMove, Load, Established
<1>5. ASSUME NEW p \in Initers, InitVerb(p) \/ Write(p) PROVE FALSE
  <2>1. pc[p] = "idle" /\ ~StartInit(p)
    BY DEF Established, InitsIdle, InitsApart
  <2> QED
    BY <1>5, <2>1
    DEF InitVerb, Reserve, Schema, SchemaFails, CloseFails, Disown, SelfTestPasses,
        SelfTestFails, DropVault, Write, Discard, Create, Fill, Sync, WriteFails
<1>6. ASSUME NEW p \in Procs, Abandon(p) PROVE Established'
  BY <1>1, <1>6 DEF Abandon, Quit, Goto, Typing, TypeOK, Established, InitsIdle
<1>7. CASE PowerLoss \/ RestoreStaged \/ UNCHANGED vars
  BY <1>1, <1>7 DEF PowerLoss, RestoreStaged, vars, Established, InitsIdle
<1> QED
  BY <1>2, <1>3, <1>4, <1>5, <1>6, <1>7 DEF Next, Environment, LockedStep, Established

\* What a verb does to other names than .new leaves it free.
LEMMA UnstagedKept ==
  ASSUME Typing, Unstaged, UNCHANGED advised,
         \/ UNCHANGED fileVars
         \/ \E n \in Names : Remove(n)
         \/ \E e \in Sealed : CreateExclusive("tmp", e) \/ WriteAndSync(e)
         \/ Rename("tmp", "id")
         \/ SyncDir
  PROVE  Unstaged'
<1>1. /\ files \in Directory /\ files["new"] = None
      /\ {"id", "new", "tmp"} \subseteq Names
  BY DEF Typing, TypeOK, FilesTypeOK, Unstaged, Names
<1>2. ASSUME NEW dir, Mutate(dir), dir["new"] = None PROVE Unstaged'
  BY <1>2 DEF Mutate, Unstaged
<1>3. ASSUME NEW n \in Names, Remove(n) PROVE Unstaged'
  <2>1. [files EXCEPT ![n] = None]["new"] = None
    BY <1>1 DEF Directory
  <2> QED
    BY <1>2, <1>3, <2>1 DEF Remove
<1>4. ASSUME NEW e \in Sealed, CreateExclusive("tmp", e) PROVE Unstaged'
  <2>1. [files EXCEPT !["tmp"] = Torn(e)]["new"] = None
    BY <1>1 DEF Directory
  <2> QED
    BY <1>2, <1>4, <2>1 DEF CreateExclusive
<1>5. CASE Rename("tmp", "id")
  <2>1. [files EXCEPT !["id"] = files["tmp"], !["tmp"] = None]["new"] = None
    BY <1>1 DEF Directory
  <2> QED
    BY <1>2, <1>5, <2>1 DEF Rename
<1>6. ASSUME NEW e \in Sealed, WriteAndSync(e) PROVE Unstaged'
  <2>1. Torn(e) # None
    BY FilesAssumption DEF Torn, Sealed
  <2>2. \A dir \in durable : Filled(dir, e)["new"] = None
    BY <1>1, <2>1 DEF Unstaged, Filled
  <2> QED
    BY <1>6, <2>2 DEF WriteAndSync, Unstaged
<1>7. CASE UNCHANGED fileVars \/ SyncDir
  BY <1>1, <1>7 DEF fileVars, SyncDir, Unstaged
<1> QED
  BY <1>3, <1>4, <1>5, <1>6, <1>7

\* While no init runs there is nothing to own.
LEMMA IdleBootstrap ==
  ASSUME Founding, Typing', InitsIdle', Unstaged', NEW p \in Lockers,
         \A q \in Procs \ {p} : pc'[q] = pc[q]
  PROVE  BootstrapInv'
<1>1. /\ Readers \subseteq Procs /\ Initers \subseteq Procs
      /\ \A q \in Readers : q # p
  BY RotationAssumption DEF Procs
<1>2. Bootstrapping'
  BY <1>1 DEF Founding, BootstrapInv, Bootstrapping, InitsIdle
<1> QED
  BY <1>2 DEF BootstrapInv, InitsIdle, OneOwner, OwnsIdentity, OwnsVault, OwningIdentity,
              OwningVault

\* A verb that takes the lock before there is a finished vault.
LEMMA LockedFounding ==
  ASSUME Typing, Typing', LockHeld, Founding, ~Established, InitsApart,
         NEW p \in Lockers, LockedStep(p)
  PROVE  Founding'
<1>1. /\ Lockers \subseteq Procs /\ Initers \subseteq Procs
      /\ \A q \in Initers : q # p
      /\ p \in Procs /\ p # None
      /\ p \in Rekeyers \/ p \in Passwders
      /\ p \in Rekeyers => p \notin Passwders
  BY RotationAssumption DEF Procs, Lockers
<1>2. \A q \in Procs \ {p} : pc'[q] = pc[q]
  BY <1>1, OnlyItself
<1>3. InitsIdle /\ InitsIdle'
  <2>1. CASE StartLocked(p)
    BY <1>1, <1>2, <2>1 DEF StartLocked, InitsApart, InitsIdle
  <2>2. CASE ~StartLocked(p)
    <3>1. pc[p] # "idle"
      BY <2>2
      DEF LockedStep, Heal, HealCheck, HealStaged, HealMove, Load, Write, Discard, Create, Fill,
          Sync, WriteFails, Rekey, Ensure, Commit, CommitAmbiguous, RekeyFails, SwapOut, SwapIn,
          Passwd, Replace, ReplaceFails, FinalSync
    <3>2. InitsIdle
      BY <1>1, <3>1 DEF LockHeld, Founding
    <3> QED
      BY <1>1, <1>2, <3>2 DEF InitsIdle
  <2> QED
    BY <2>1, <2>2
<1>4. vault \notin Keys
  BY <1>3 DEF Established
<1>5. Unstaged /\ files["new"] = None
  BY DEF Founding, BootstrapInv, Unstaged, Typing, TypeOK, FilesTypeOK
<1>6. ASSUME Unstaged',
             p \in Rekeyers => pc'[p] \in {"idle", "heal", "healStaged", "load", "ensure"},
             p \in Passwders => pc'[p] \in {"idle", "heal", "healStaged", "load", "discard",
                                            "create", "fill", "sync", "replace", "replaceSync"}
      PROVE  Founding'
  <2>1. BootstrapInv'
    BY <1>2, <1>3, <1>6, IdleBootstrap
  <2> QED
    BY <1>1, <1>2, <1>3, <1>6, <2>1 DEF Founding, Lockers
<1>7. ASSUME NEW label, Goto(p, label) PROVE pc'[p] = label
  BY <1>1, <1>7 DEF Goto, Typing, TypeOK
<1>8. ASSUME Quit(p), Unstaged' PROVE Founding'
  BY <1>6, <1>7, <1>8 DEF Quit
<1>9. CASE StartLocked(p) \/ HealCheck(p) \/ HealStaged(p)
  <2>1. UNCHANGED <<files, durable, advised>> /\ pc'[p] \in {"heal", "healStaged", "load"}
    BY <1>5, <1>7, <1>9 DEF StartLocked, HealCheck, HealStaged
  <2>2. Unstaged'
    BY <1>5, <2>1 DEF Unstaged
  <2> QED
    BY <1>6, <2>1, <2>2
<1>10. CASE HealMove(p)
  BY <1>1, <1>10 DEF HealMove, Founding
<1>11. CASE Load(p)
  <2>1. p \notin Readers
    BY RotationAssumption
  <2>2. UNCHANGED <<files, durable, advised>>
        /\ pc'[p] = IF p \in Rekeyers THEN "ensure" ELSE "discard"
    BY <1>7, <1>11, <2>1 DEF Load
  <2>3. Unstaged'
    BY <1>5, <2>2 DEF Unstaged
  <2> QED
    BY <1>1, <1>6, <2>2, <2>3
<1>12. CASE Ensure(p)
  BY <1>4, <1>12 DEF Ensure
<1>13. ASSUME p \in Passwders, Write(p) PROVE Founding'
  <2>1. Target(p) = "tmp" /\ p \notin Rekeyers /\ p \notin Initers
    BY <1>1, <1>13 DEF Target
  <2>2. "tmp" \in Names
    BY DEF Names
  <2>3. CASE Discard(p)
    <3>1. Unstaged'
      BY <1>5, <2>1, <2>2, <2>3, UnstagedKept DEF Discard
    <3>2. pc'[p] = "create"
      BY <1>7, <2>3 DEF Discard
    <3> QED
      BY <1>6, <2>1, <3>1, <3>2
  <2>4. CASE Create(p)
    <3>1. PICK e \in Draft(p) : CreateExclusive("tmp", e)
      BY <2>1, <2>4 DEF Create
    <3>2. e \in Sealed
      BY <1>13, <2>4, DraftTyping DEF Create
    <3>3. Unstaged'
      BY <1>5, <2>4, <3>1, <3>2, UnstagedKept DEF Create
    <3>4. pc'[p] = "fill"
      BY <1>7, <2>4 DEF Create
    <3> QED
      BY <1>6, <2>1, <3>3, <3>4
  <2>5. CASE Fill(p)
    <3>1. made[p] \in Sealed
      BY <1>1, <2>5 DEF Fill, Typing, Drafted
    <3>2. Unstaged'
      BY <1>5, <2>5, <3>1, UnstagedKept DEF Fill
    <3>3. pc'[p] = "sync"
      BY <1>7, <2>5 DEF Fill
    <3> QED
      BY <1>6, <2>1, <3>2, <3>3
  <2>6. CASE Sync(p)
    <3>1. Unstaged'
      BY <1>5, <2>6, UnstagedKept DEF Sync
    <3>2. pc'[p] = "replace"
      BY <1>7, <1>13, <2>1, <2>6 DEF Sync
    <3> QED
      BY <1>6, <2>1, <3>1, <3>2
  <2>7. CASE WriteFails(p)
    <3>1. Unstaged'
      BY <1>5, <2>1, <2>2, <2>7, UnstagedKept DEF WriteFails
    <3> QED
      BY <1>8, <2>7, <3>1 DEF WriteFails
  <2> QED
    BY <1>13, <2>3, <2>4, <2>5, <2>6, <2>7 DEF Write
<1>14. ASSUME p \in Rekeyers, Write(p) PROVE FALSE
  BY <1>14 DEF Founding, Write, Discard, Create, Fill, Sync, WriteFails
<1>15. CASE Commit(p) \/ CommitAmbiguous(p) \/ RekeyFails(p) \/ SwapOut(p) \/ SwapIn(p)
  BY <1>1, <1>15 DEF Founding, Commit, CommitAmbiguous, RekeyFails, SwapOut, SwapIn
<1>16. CASE Replace(p)
  <2>1. Unstaged'
    BY <1>5, <1>16, UnstagedKept DEF Replace
  <2>2. pc'[p] = "replaceSync" /\ p \notin Rekeyers
    BY <1>7, <1>16 DEF Replace, Founding
  <2> QED
    BY <1>6, <2>1, <2>2
<1>17. CASE ReplaceFails(p) \/ FinalSync(p)
  <2>1. "tmp" \in Names
    BY DEF Names
  <2>2. Unstaged'
    BY <1>5, <1>17, <2>1, UnstagedKept DEF ReplaceFails, FinalSync
  <2> QED
    BY <1>8, <1>17, <2>2 DEF ReplaceFails, FinalSync
<1> QED
  BY <1>1, <1>9, <1>10, <1>11, <1>12, <1>13, <1>14, <1>15, <1>16, <1>17
  DEF LockedStep, Heal, Rekey, Passwd

\* Everyone else before there is a finished vault.
LEMMA UnlockedFounding ==
  ASSUME Typing, Typing', LockHeld, Founding, InitsApart,
         \/ \E p \in Readers : StartRead(p) \/ Heal(p)
         \/ \E p \in Initers : InitVerb(p) \/ Write(p)
         \/ Environment
         \/ UNCHANGED vars
  PROVE  Founding'
<1>1. BootstrapInv'
  BY UnlockedBootstrap DEF Founding
<1>2. /\ Lockers \subseteq Procs /\ Readers \cup Initers \subseteq Procs
      /\ Lockers = Rekeyers \cup Passwders
      /\ \A p \in Readers \cup Initers : p \notin Lockers
  BY RotationAssumption DEF Procs, Lockers
<1>3. \A q \in Lockers : pc'[q] \in {pc[q], "idle"}
  <2>1. ASSUME NEW p \in Readers \cup Initers, LockedStep(p) \/ StartRead(p) \/ InitVerb(p)
        PROVE  \A q \in Lockers : pc'[q] = pc[q]
    BY <1>2, <2>1, OnlyItself
  <2>2. ASSUME NEW p \in Procs, Abandon(p) PROVE \A q \in Lockers : pc'[q] \in {pc[q], "idle"}
    BY <1>2, <2>2 DEF Abandon, Quit, Goto, Typing, TypeOK
  <2>3. CASE PowerLoss \/ RestoreStaged \/ UNCHANGED vars
    BY <1>2, <2>3 DEF PowerLoss, RestoreStaged, vars
  <2> QED
    BY <2>1, <2>2, <2>3 DEF Environment, LockedStep
<1>4. ~InitsIdle' => lock' = None
  BY DEF InitsApart
<1> QED
  BY <1>1, <1>2, <1>3, <1>4 DEF Founding

\* The two phases.
LEMMA ApartStep ==
  ASSUME ApartInv, [Next /\ InitsApart]_vars
  PROVE  ApartInv'
<1>1. Typing' /\ LockHeld'
  BY NextTyping, LockHeldStep DEF ApartInv
<1>2. CASE UNCHANGED vars
  BY <1>1, <1>2, UnlockedBootstrap
  DEF ApartInv, vars, Established, InitsIdle, Founding
<1>3. CASE Next /\ InitsApart
  <2>1. CASE Established
    BY <1>1, <1>3, <2>1, EstablishedStays DEF ApartInv
  <2>2. CASE ~Established
    <3>1. Founding'
      BY <1>1, <1>3, <2>2, LockedFounding, UnlockedFounding DEF ApartInv, Next
    <3> QED
      BY <1>1, <3>1 DEF ApartInv
  <2> QED
    BY <2>1, <2>2
<1> QED
  BY <1>2, <1>3

\* They begin with the first.
LEMMA ApartInit ==
  ASSUME Init
  PROVE  ApartInv
<1>1. BootstrapInv /\ Typing
  BY BootstrapInit DEF BootstrapInv
<1>2. \A p \in Procs : pc[p] = "idle"
  BY DEF Init
<1> QED
  BY <1>1, <1>2 DEF Init, ApartInv, LockHeld, Founding, InitsIdle, Procs, Lockers

\* With rekey, passwd and any readers beside it, an init that unwinds removes
\* its own identity file, if inits keep apart.  Run init_race shows that they
\* have to.
THEOREM ApartInitsUnwindOwn ==
  Spec /\ [][InitsApart]_vars => InitRemovesOnlyOwn
<1> DEFINE Own ==
      \A p \in Initers : Disown(p) => files["id"] = None \/ files["id"].key = made[p].key
<1>1. ASSUME ApartInv PROVE [Own]_vars
  BY <1>1
  DEF ApartInv, Established, InitsIdle, Founding, Disown, BootstrapInv, OwnsIdentity, OwningIdentity
<1>2. ASSUME ApartInv, [Next]_vars, [InitsApart]_vars PROVE ApartInv'
  BY <1>2, ApartStep
<1> QED
  BY <1>1, <1>2, ApartInit, PTL DEF Spec, InitRemovesOnlyOwn

\* And one that is about to report success has the identity and the vault it
\* made.
THEOREM ApartInitsHavePair ==
  Spec /\ [][InitsApart]_vars => []InitReportsPair
<1>1. ApartInv => InitReportsPair
  BY FilesAssumption
  DEF ApartInv, Established, InitsIdle, Founding, BootstrapInv, InitReportsPair, OwnsIdentity,
      OwnsVault, OwningIdentity, HoldsKey
<1>2. ASSUME ApartInv, [Next]_vars, [InitsApart]_vars PROVE ApartInv'
  BY <1>2, ApartStep
<1> QED
  BY <1>1, <1>2, ApartInit, PTL DEF Spec
=============================================================================
