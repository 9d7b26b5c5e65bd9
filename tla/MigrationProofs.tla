--------------------------- MODULE MigrationProofs ---------------------------
(***************************************************************************)
(* Proofs about Migration: migrate and the verbs of two releases beside it *)
(* keep the tables consistent and every newest frame readable, for any     *)
(* secrets, versions, keys, env names and processes.                       *)
(***************************************************************************)
EXTENDS Migration, LifecycleRefinement

-----------------------------------------------------------------------------
(* The inductive invariant.                                                *)

MigrateTyping ==
  /\ format \in Formats
  /\ frame \in [Names -> [Numbers -> Formats]]
  /\ stage \in [Freers -> Stages]
  /\ held \in [Migrators -> Keys \cup {None}]
  /\ lock \in Migrators \cup {None}
  /\ leftover \subseteq Scrubbers
  /\ silent \subseteq Scrubbers

\* A migrate that goes on has a key.
Holds ==
  \A m \in Migrators : stage[m] \in {"check", "reseal"} => held[m] \in Keys

\* Whoever runs holds the lock, so that one migrate runs at most.
LockHeld == \A m \in Migrators : Running(m) => lock = m

\* What the check saw is true until the transaction.
Checked == \A m \in Migrators : stage[m] = "reseal" => format = Legacy

\* Nothing but migrate brings a current frame into a legacy vault.
LegacyFrames ==
  format = Legacy =>
    \A n \in Names, v \in Numbers : HasEnvelope(n, v) => frame[n][v] = Legacy

\* A current frame carries no newline.
FramesCarry ==
  \A n \in Names, v \in Numbers :
    HasEnvelope(n, v) /\ frame[n][v] = Current =>
      version[n][v].envelope.bound.env \notin Multiline

MigrationInv ==
  /\ Inv
  /\ NewestBound
  /\ MigrateTyping
  /\ Holds
  /\ LockHeld
  /\ Checked
  /\ LegacyFrames
  /\ FramesCarry

-----------------------------------------------------------------------------
(* What migrate's transaction does to the rows.                            *)

\* A version that has an envelope is one migrate collects.
LEMMA LiveHasEnvelope ==
  ASSUME Inv, NEW n \in Names, NEW v \in Numbers
  PROVE  Live(version[n][v]) <=> HasEnvelope(n, v)
BY DEF Inv, DestroyedErased, HasEnvelope, Exists, Live

\* Cleaned columns fit the table and the frame.
LEMMA CleanTyping ==
  ASSUME Inv, NEW n \in Names, secret[n] # None
  PROVE  CleanCols(n) \in Columns /\ CleanCols(n).env \notin Multiline
<1>1. secret[n].cols \in Columns
  BY DEF Inv, TypeOK, SecretRow
<1>2. /\ CleanCols(n) = [env |-> CleanCols(n).env, expires |-> secret[n].cols.expires]
      /\ CleanCols(n).env = IF secret[n].cols.env = None THEN None
                                                         ELSE Clean[secret[n].cols.env]
  BY <1>1 DEF CleanCols, Columns
<1>3. CleanCols(n).env \in (EnvNames \ Multiline) \cup {None}
  BY <1>1, <1>2, MigrationAssumption DEF Columns
<1> QED
  BY <1>1, <1>2, <1>3, MigrationAssumption, StoreAssumption DEF Columns

\* The rows after it: live versions with a new envelope, cleaned columns,
\* and nothing else.
MigratedRows(m) ==
  /\ version' \in [Names -> [Numbers -> VersionRow \cup {None}]]
  /\ secret' \in [Names -> SecretRow \cup {None}]
  /\ \A n \in Names : secret'[n] # None <=> secret[n] # None
  /\ \A n \in Names : secret[n] # None => secret'[n].deleted = secret[n].deleted
  /\ \A n \in Names, v \in Numbers : Exists(n, v)' <=> Exists(n, v)
  /\ \A n \in Names, v \in Numbers : HasEnvelope(n, v)' <=> HasEnvelope(n, v)
  /\ \A n \in Names, v \in Numbers : Exists(n, v) => version'[n][v].state = version[n][v].state
  /\ \A n \in Names, v \in Numbers : HasEnvelope(n, v) =>
       /\ version'[n][v].envelope = [key |-> held[m], bound |-> CleanCols(n)]
       /\ secret'[n].cols = CleanCols(n)
       /\ frame'[n][v] = Current

LEMMA ResealRows ==
  ASSUME Inv, Holds, NEW m \in Migrators, Reseal(m)
  PROVE  MigratedRows(m)
<1>0. held[m] \in Keys
  BY DEF Holds, Reseal
<1>1. \A n \in Names, v \in Numbers :
        /\ version'[n][v] = Migrated(version[n][v], held[m], CleanCols(n))
        /\ frame'[n][v] = IF Live(version[n][v]) THEN Current ELSE frame[n][v]
  BY DEF Reseal
<1>2. ASSUME NEW n \in Names, NEW v \in Numbers, HasEnvelope(n, v)
      PROVE  /\ version'[n][v] \in VersionRow
             /\ version'[n][v].state = version[n][v].state
             /\ version'[n][v].envelope = [key |-> held[m], bound |-> CleanCols(n)]
             /\ version'[n][v].envelope # None
             /\ secret[n] # None
             /\ secret'[n] = [secret[n] EXCEPT !.cols = CleanCols(n)]
             /\ frame'[n][v] = Current
  <2>1. Live(version[n][v]) /\ version[n][v] \in VersionRow
    BY <1>2, LiveHasEnvelope DEF Inv, TypeOK, HasEnvelope, Exists
  <2>2. secret[n] # None
    BY <1>2 DEF Inv, Contiguous, HasEnvelope
  <2>3. [key |-> held[m], bound |-> CleanCols(n)] \in Envelope
    BY <1>0, <2>2, CleanTyping DEF Envelope
  <2>4. secret'[n] = [secret[n] EXCEPT !.cols = CleanCols(n)]
    BY <2>1 DEF Reseal, Reconciled
  <2>5. version'[n][v] = [version[n][v] EXCEPT !.envelope =
                            [key |-> held[m], bound |-> CleanCols(n)]]
    BY <1>1, <2>1 DEF Migrated
  <2>6. frame'[n][v] = Current
    BY <1>1, <2>1
  <2>7. /\ version'[n][v] \in VersionRow
        /\ version'[n][v].state = version[n][v].state
        /\ version'[n][v].envelope = [key |-> held[m], bound |-> CleanCols(n)]
    <3> DEFINE new == [key |-> held[m], bound |-> CleanCols(n)]
    <3>1. new \in Envelope /\ version'[n][v] = [version[n][v] EXCEPT !.envelope = new]
      BY <2>3, <2>5
    <3> HIDE DEF new
    <3>2. /\ version'[n][v] \in VersionRow
          /\ version'[n][v].state = version[n][v].state
          /\ version'[n][v].envelope = new
      BY <2>1, <3>1 DEF VersionRow
    <3> QED
      BY <3>2 DEF new
  <2>8. version'[n][v].envelope # None
    BY <2>3, <2>7, StoreAssumption
  <2> QED
    BY <2>2, <2>4, <2>6, <2>7, <2>8
<1>3. ASSUME NEW n \in Names, NEW v \in Numbers, ~HasEnvelope(n, v)
      PROVE  version'[n][v] = version[n][v]
  BY <1>1, <1>3, LiveHasEnvelope DEF Migrated
<1>4. ASSUME NEW n \in Names
      PROVE  /\ secret'[n] \in SecretRow \cup {None}
             /\ secret'[n] # None <=> secret[n] # None
             /\ secret[n] # None => secret'[n].deleted = secret[n].deleted
  <2>1. CASE \E v \in Numbers : HasEnvelope(n, v)
    <3>1. /\ secret[n] # None
          /\ secret'[n] = [secret[n] EXCEPT !.cols = CleanCols(n)]
      BY <1>2, <2>1
    <3>2. secret[n] \in SecretRow
      BY <3>1 DEF Inv, TypeOK
    <3> QED
      BY <3>1, <3>2, CleanTyping, StoreAssumption DEF SecretRow
  <2>2. CASE ~\E v \in Numbers : HasEnvelope(n, v)
    <3>1. secret'[n] = secret[n]
      BY <2>2, LiveHasEnvelope DEF Reseal, Reconciled
    <3> QED
      BY <3>1 DEF Inv, TypeOK
  <2> QED
    BY <2>1, <2>2
<1>5. secret' \in [Names -> SecretRow \cup {None}]
  BY <1>4 DEF Reseal
<1>6. ASSUME NEW n \in Names, NEW v \in Numbers
      PROVE  /\ version'[n][v] \in VersionRow \cup {None}
             /\ Exists(n, v)' <=> Exists(n, v)
             /\ HasEnvelope(n, v)' <=> HasEnvelope(n, v)
             /\ Exists(n, v) => version'[n][v].state = version[n][v].state
  <2>1. CASE HasEnvelope(n, v)
    BY <1>2, <2>1, StoreAssumption DEF HasEnvelope, Exists
  <2>2. CASE ~HasEnvelope(n, v)
    BY <1>3, <2>2 DEF Inv, TypeOK, HasEnvelope, Exists
  <2> QED
    BY <2>1, <2>2
<1>7. version' \in [Names -> [Numbers -> VersionRow \cup {None}]]
  BY <1>6 DEF Reseal
<1>8. \A n \in Names, v \in Numbers : HasEnvelope(n, v) => secret'[n].cols = CleanCols(n)
  <2> SUFFICES ASSUME NEW n \in Names, NEW v \in Numbers, HasEnvelope(n, v)
               PROVE  secret'[n].cols = CleanCols(n)
    OBVIOUS
  <2>1. secret'[n] = [secret[n] EXCEPT !.cols = CleanCols(n)] /\ secret[n] # None
    BY <1>2
  <2>2. secret[n] \in SecretRow
    BY <2>1 DEF Inv, TypeOK
  <2> QED
    BY <2>1, <2>2 DEF SecretRow
<1> QED
  BY <1>2, <1>4, <1>5, <1>6, <1>7, <1>8 DEF MigratedRows

-----------------------------------------------------------------------------
(* Preservation.                                                           *)

\* migrate writes in its transaction only.
LEMMA OnlyResealWrites ==
  ASSUME NEW m \in Migrators, Migrating(m), ~Reseal(m)
  PROVE  UNCHANGED <<vars, formats>>
BY DEF Migrating, MigrateGoesOn, MigrateReturns, TakeLock, Refused, LoadIdentity, CheckPasses,
       CheckFails, AlreadyCurrent, ResealFails, MigrateScrubs, MigrateErrs, KillMigrate

\* On the tables, every verb but migrate is one of VaultStore.
LEMMA TableStep ==
  ASSUME [MigrationNext]_allVars
  PROVE  [Next]_vars \/ \E m \in Migrators : Reseal(m)
<1>1. \A p \in Setters : p \in Procs
  BY DEF Procs
<1>2. CASE \E p \in Setters : Setting(p)
  BY <1>1, <1>2 DEF Setting, SetReads, SetAppends, SetAbandons, Next, Set
<1>3. CASE \E p \in Purgers, n \in Names : PurgeCommits(p, n)
  BY <1>3 DEF PurgeCommits, Next
<1>4. CASE \E p \in Rekeyers, k \in Keys, release \in Formats : RekeyCommits(p, k, release)
  BY <1>4 DEF RekeyCommits, Next
<1>5. CASE \E p \in Scrubbers : Scrubbing(p)
  BY <1>5 DEF Scrubbing, ScrubQuietly, WarnIfBlocked, KillScrub
<1>6. CASE \E m \in Migrators : Migrating(m)
  BY <1>6, OnlyResealWrites
<1>7. CASE UNCHANGED allVars
  BY <1>7 DEF allVars
<1> QED
  BY <1>2, <1>3, <1>4, <1>5, <1>6, <1>7 DEF MigrationNext

\* The tables' own invariant.
LEMMA TablesKept ==
  ASSUME MigrationInv, [MigrationNext]_allVars
  PROVE  Inv' /\ NewestBound'
<1>1. CASE [Next]_vars
  BY <1>1, InvStep, NewestBoundStep DEF MigrationInv
<1>2. ASSUME NEW m \in Migrators, Reseal(m) PROVE Inv' /\ NewestBound'
  <2>0. MigratedRows(m)
    BY <1>2, ResealRows DEF MigrationInv
  <2>1. UNCHANGED <<recipient, pc, local>>
    BY <1>2 DEF Reseal
  <2>2. TypeOK'
    BY <2>0, <2>1 DEF MigrationInv, Inv, TypeOK, MigratedRows
  <2>3. \A p \in Procs : HasRead(p)'
    BY <2>0, <2>1 DEF MigrationInv, Inv, HasRead, MigratedRows
  <2>4. Founded' /\ Contiguous'
    BY <2>0, StoreAssumption DEF MigrationInv, Inv, Founded, Contiguous, MigratedRows, Numbers
  <2>5. DestroyedErased'
    BY <2>0 DEF MigrationInv, Inv, DestroyedErased, MigratedRows, HasEnvelope
  <2>6. NewestBound'
    <3> SUFFICES ASSUME NEW n \in Names, NEW v \in Numbers, HasEnvelope(n, v)'
                 PROVE  version'[n][v].envelope.bound = secret'[n].cols
      BY DEF NewestBound, HasEnvelope
    <3>1. HasEnvelope(n, v)
      BY <2>0 DEF MigratedRows
    <3>2. /\ version'[n][v].envelope = [key |-> held[m], bound |-> CleanCols(n)]
          /\ secret'[n].cols = CleanCols(n)
      BY <2>0, <3>1 DEF MigratedRows
    <3> QED
      BY <3>2
  <2> QED
    BY <2>2, <2>3, <2>4, <2>5, <2>6 DEF Inv
<1> QED
  BY <1>1, <1>2, TableStep

\* What migrate keeps for itself has its type.
LEMMA MigrateTypingStep ==
  ASSUME MigrationInv, [MigrationNext]_allVars
  PROVE  MigrateTyping' /\ Holds'
<1>0. /\ MigrateTyping /\ Holds
      /\ Scrubbers \subseteq Freers /\ Migrators \subseteq Freers
      /\ \A p \in Scrubbers : p \notin Migrators
      /\ Purgers \subseteq Scrubbers /\ Rekeyers \subseteq Scrubbers
      /\ Legacy \in Formats /\ Current \in Formats
  BY MigrationAssumption DEF MigrationInv, Freers, Scrubbers, Formats
<1>1. ASSUME NEW p \in Setters, Setting(p) PROVE MigrateTyping' /\ Holds'
  BY <1>0, <1>1 DEF MigrateTyping, Holds, Setting, SetReads, SetAppends, SetAbandons, migrateVars
<1>2. ASSUME NEW p \in Scrubbers, Frees(p) PROVE MigrateTyping' /\ Holds'
  BY <1>0, <1>2 DEF MigrateTyping, Holds, Frees, Stages
<1>3. ASSUME NEW p \in Scrubbers, Scrubbing(p) PROVE MigrateTyping' /\ Holds'
  <2>1. ASSUME NEW blocked \in BOOLEAN, ScrubQuietly(p, blocked)
        PROVE  MigrateTyping' /\ Holds'
    BY <1>0, <2>1 DEF MigrateTyping, Holds, ScrubQuietly, Checkpoint, formats, Stages
  <2>2. ASSUME NEW blocked \in BOOLEAN, WarnIfBlocked(p, blocked)
        PROVE  MigrateTyping' /\ Holds'
    BY <1>0, <2>2 DEF MigrateTyping, Holds, WarnIfBlocked, Checkpoint, formats, Stages
  <2>3. CASE KillScrub(p)
    BY <1>0, <2>3 DEF MigrateTyping, Holds, KillScrub, formats, Stages
  <2> QED
    BY <1>3, <2>1, <2>2, <2>3 DEF Scrubbing
<1>4. ASSUME NEW m \in Migrators, NEW label \in Stages, NEW key \in Keys \cup {None},
             MigrateMoves(m, label, key),
             label \in {"check", "reseal"} => key \in Keys
      PROVE  /\ stage' \in [Freers -> Stages]
             /\ held' \in [Migrators -> Keys \cup {None}]
             /\ silent' \subseteq Scrubbers
             /\ Holds'
  BY <1>0, <1>4 DEF MigrateTyping, Holds, MigrateMoves
<1>5. ASSUME NEW m \in Migrators, NEW label \in Stages, NEW key \in Keys \cup {None},
             MigrateGoesOn(m, label, key),
             label \in {"check", "reseal"} => key \in Keys
      PROVE  MigrateTyping' /\ Holds'
  <2>1. MigrateMoves(m, label, key) /\ UNCHANGED <<formats, lock, leftover>>
    BY <1>5 DEF MigrateGoesOn
  <2> QED
    BY <1>0, <1>4, <1>5, <2>1 DEF MigrateTyping, formats
<1>6. ASSUME NEW m \in Migrators, NEW label \in {"idle", "failed"}, MigrateReturns(m, label)
      PROVE  MigrateTyping' /\ Holds'
  <2>1. /\ MigrateMoves(m, label, None) /\ lock' = None /\ UNCHANGED <<formats, leftover>>
        /\ label \in Stages
    BY <1>6 DEF MigrateReturns, Stages
  <2> QED
    BY <1>0, <1>4, <1>6, <2>1 DEF MigrateTyping, formats
<1>7. ASSUME NEW m \in Migrators, Migrating(m) PROVE MigrateTyping' /\ Holds'
  <2>1. CASE TakeLock(m)
    <3>1. /\ MigrateMoves(m, "load", None) /\ lock' = m /\ UNCHANGED <<formats, leftover>>
          /\ "load" \in Stages
      BY <2>1 DEF TakeLock, Stages
    <3> QED
      BY <1>0, <1>4, <3>1 DEF MigrateTyping, formats
  <2>2. CASE Refused(m)
    BY <1>5, <2>2 DEF Refused, Stages
  <2>3. ASSUME NEW k \in Keys, LoadIdentity(m, k) PROVE MigrateTyping' /\ Holds'
    BY <1>5, <2>3 DEF LoadIdentity, Stages
  <2>4. CASE CheckPasses(m)
    BY <1>0, <1>5, <2>4 DEF CheckPasses, Stages, Holds
  <2>5. CASE CheckFails(m) \/ AlreadyCurrent(m) \/ ResealFails(m) \/ MigrateErrs(m) \/ KillMigrate(m)
    BY <1>6, <2>5 DEF CheckFails, AlreadyCurrent, ResealFails, MigrateErrs, KillMigrate
  <2>6. CASE Reseal(m)
    <3>1. MigrateMoves(m, "scrub", None) /\ "scrub" \in Stages
      BY <2>6 DEF Reseal, Stages
    <3>2. format' \in Formats /\ leftover' \subseteq Scrubbers /\ lock' = lock
      BY <1>0, <2>6 DEF Reseal, MigrateTyping
    <3>3. frame' \in [Names -> [Numbers -> Formats]]
      BY <1>0, <2>6 DEF Reseal, MigrateTyping
    <3> QED
      BY <1>0, <1>4, <3>1, <3>2, <3>3 DEF MigrateTyping
  <2>7. ASSUME NEW blocked \in BOOLEAN, MigrateScrubs(m, blocked)
        PROVE  MigrateTyping' /\ Holds'
    <3>1. MigrateMoves(m, "idle", None) /\ "idle" \in Stages
      BY <2>7 DEF MigrateScrubs, Stages
    <3>2. /\ format' \in Formats /\ leftover' \subseteq Scrubbers /\ lock' = None
          /\ frame' \in [Names -> [Numbers -> Formats]]
      BY <1>0, <2>7 DEF MigrateScrubs, Checkpoint, formats, MigrateTyping
    <3> QED
      BY <1>4, <3>1, <3>2 DEF MigrateTyping
  <2> QED
    BY <1>7, <2>1, <2>2, <2>3, <2>4, <2>5, <2>6, <2>7 DEF Migrating
<1>8. CASE UNCHANGED allVars
  BY <1>0, <1>8 DEF allVars, migrateVars, MigrateTyping, Holds
<1> QED
  BY <1>0, <1>1, <1>2, <1>3, <1>7, <1>8 DEF MigrationNext, PurgeCommits, RekeyCommits

\* The lock passes from one run to the next only when none is left, and no
\* format changes under a migrate that has checked it.
LEMMA LockStep ==
  ASSUME MigrationInv, [MigrationNext]_allVars
  PROVE  LockHeld' /\ Checked'
<1>0. /\ LockHeld /\ Checked
      /\ stage \in [Freers -> Stages]
      /\ Migrators \subseteq Freers /\ None \notin Migrators
      /\ \A p \in Scrubbers : p \notin Migrators
      /\ Purgers \subseteq Scrubbers /\ Rekeyers \subseteq Scrubbers
  BY MigrationAssumption DEF MigrationInv, MigrateTyping, Freers, Scrubbers
<1>1. ASSUME UNCHANGED <<format, lock>>, \A m \in Migrators : stage'[m] = stage[m]
      PROVE  LockHeld' /\ Checked'
  BY <1>0, <1>1 DEF LockHeld, Checked, Running
<1>2. ASSUME NEW p \in Setters, Setting(p) PROVE LockHeld' /\ Checked'
  BY <1>1, <1>2 DEF Setting, SetReads, SetAppends, SetAbandons, migrateVars
<1>3. ASSUME NEW p \in Scrubbers, Frees(p) \/ Scrubbing(p) PROVE LockHeld' /\ Checked'
  BY <1>0, <1>1, <1>3
  DEF Frees, Scrubbing, ScrubQuietly, WarnIfBlocked, KillScrub, formats
<1>4. ASSUME NEW m \in Migrators, Migrating(m) PROVE LockHeld' /\ Checked'
  <2>1. ASSUME NEW label, NEW key, MigrateMoves(m, label, key)
        PROVE  /\ stage'[m] = label
               /\ \A o \in Migrators \ {m} : stage'[o] = stage[o]
    BY <1>0, <2>1 DEF MigrateMoves
  <2>2. ASSUME Running(m) PROVE \A o \in Migrators \ {m} : ~Running(o)
    BY <1>0, <2>2 DEF LockHeld
  <2>3. ASSUME NEW label \in {"idle", "failed"}, Running(m),
               MigrateMoves(m, label, None)
        PROVE  LockHeld' /\ Checked'
    BY <2>1, <2>2, <2>3 DEF LockHeld, Checked, Running
  <2>4. CASE TakeLock(m)
    <3>1. \A o \in Migrators : ~Running(o)
      BY <1>0, <2>4 DEF TakeLock, LockFree, LockHeld
    <3> QED
      BY <2>1, <2>4, <3>1 DEF TakeLock, LockHeld, Checked, Running
  <2>5. CASE Refused(m)
    BY <1>0, <2>1, <2>5 DEF Refused, MigrateGoesOn, formats, LockHeld, Checked, Running
  <2>6. CASE CheckPasses(m) \/ \E k \in Keys : LoadIdentity(m, k)
    BY <1>0, <2>1, <2>6
    DEF CheckPasses, LoadIdentity, MigrateGoesOn, formats, LockHeld, Checked, Running
  <2>7. CASE CheckFails(m) \/ AlreadyCurrent(m) \/ ResealFails(m) \/ MigrateErrs(m) \/ KillMigrate(m)
    BY <2>3, <2>7
    DEF CheckFails, AlreadyCurrent, ResealFails, MigrateErrs, KillMigrate, MigrateReturns, Running
  <2>8. CASE Reseal(m)
    BY <1>0, <2>1, <2>2, <2>8 DEF Reseal, LockHeld, Checked, Running
  <2>9. CASE \E blocked \in BOOLEAN : MigrateScrubs(m, blocked)
    BY <2>3, <2>9 DEF MigrateScrubs, Running
  <2> QED
    BY <1>4, <2>4, <2>5, <2>6, <2>7, <2>8, <2>9 DEF Migrating
<1>5. CASE UNCHANGED allVars
  BY <1>1, <1>5 DEF allVars, migrateVars
<1> QED
  BY <1>0, <1>2, <1>3, <1>4, <1>5 DEF MigrationNext, PurgeCommits, RekeyCommits

\* A set stores the frame of its release, which a legacy vault refuses if it
\* is the current one, and that frame carries what it binds.
LEMMA SetFrames ==
  ASSUME MigrationInv, NEW p \in Setters, NEW n \in Names, NEW v \in Numbers,
         NEW flags \in Flags, NEW release \in Formats, SetAppends(p, n, v, flags, release)
  PROVE  LegacyFrames' /\ FramesCarry'
<1>0. /\ AppendedRows(p, n, v, flags)
      /\ frame \in [Names -> [Numbers -> Formats]]
      /\ frame' = [frame EXCEPT ![n][v] = release]
      /\ format' = format
      /\ Opens(release) /\ Sealable(release, Effective(n, flags))
  BY AppendRows DEF MigrationInv, SetAppends, MigrateTyping
<1>1. ASSUME NEW m \in Names, NEW w \in Numbers, HasEnvelope(m, w)', m # n \/ w # v
      PROVE  /\ HasEnvelope(m, w)
             /\ version'[m][w].envelope = version[m][w].envelope
             /\ frame'[m][w] = frame[m][w]
  <2>1. Exists(m, w) /\ version[m][w] \in VersionRow \cup {None}
    BY <1>0, <1>1 DEF AppendedRows, HasEnvelope, MigrationInv, Inv, TypeOK
  <2>2. version'[m][w].envelope = version[m][w].envelope
    BY <1>0, <1>1, <2>1, RevokedRow DEF AppendedRows, Exists
  <2> QED
    BY <1>0, <1>1, <2>1, <2>2 DEF HasEnvelope
<1>2. frame'[n][v] = release
  BY <1>0
<1>3. version'[n][v].envelope.bound = Effective(n, flags)
  BY <1>0 DEF AppendedRows
<1>4. LegacyFrames'
  <2> SUFFICES ASSUME format = Legacy, NEW m \in Names, NEW w \in Numbers, HasEnvelope(m, w)'
               PROVE  frame'[m][w] = Legacy
    BY <1>0 DEF LegacyFrames
  <2>1. CASE m = n /\ w = v
    BY <1>0, <1>2, <2>1 DEF Opens, Formats, Legacy, Current
  <2>2. CASE m # n \/ w # v
    BY <1>1, <2>2 DEF MigrationInv, LegacyFrames
  <2> QED
    BY <2>1, <2>2
<1>5. FramesCarry'
  <2> SUFFICES ASSUME NEW m \in Names, NEW w \in Numbers, HasEnvelope(m, w)',
                      frame'[m][w] = Current
               PROVE  version'[m][w].envelope.bound.env \notin Multiline
    BY DEF FramesCarry
  <2>1. CASE m = n /\ w = v
    BY <1>0, <1>2, <1>3, <2>1 DEF Sealable
  <2>2. CASE m # n \/ w # v
    BY <1>1, <2>2 DEF MigrationInv, FramesCarry
  <2> QED
    BY <2>1, <2>2
<1> QED
  BY <1>4, <1>5

\* The frames, through every step.
LEMMA FramesStep ==
  ASSUME MigrationInv, [MigrationNext]_allVars
  PROVE  LegacyFrames' /\ FramesCarry'
<1>1. ASSUME UNCHANGED formats,
             \A n \in Names, v \in Numbers : HasEnvelope(n, v)' =>
               /\ HasEnvelope(n, v)
               /\ version'[n][v].envelope.bound = version[n][v].envelope.bound
      PROVE  LegacyFrames' /\ FramesCarry'
  BY <1>1 DEF formats, MigrationInv, LegacyFrames, FramesCarry
<1>2. CASE UNCHANGED <<version, formats>>
  BY <1>1, <1>2 DEF HasEnvelope, Exists
<1>3. ASSUME NEW p \in Setters, Setting(p) PROVE LegacyFrames' /\ FramesCarry'
  <2>1. CASE SetReads(p)
    BY <1>2, <2>1 DEF SetReads, ReadRecipient, tables, migrateVars, formats
  <2>2. ASSUME NEW n \in Names, NEW v \in Numbers, NEW flags \in Flags,
               NEW release \in Formats, SetAppends(p, n, v, flags, release)
        PROVE  LegacyFrames' /\ FramesCarry'
    BY <2>2, SetFrames
  <2>3. CASE SetAbandons(p)
    BY <1>2, <2>3 DEF SetAbandons, Abandon, tables, migrateVars, formats
  <2> QED
    BY <1>3, <2>1, <2>2, <2>3 DEF Setting
<1>4. ASSUME NEW p \in Purgers, NEW n \in Names, PurgeCommits(p, n)
      PROVE  LegacyFrames' /\ FramesCarry'
  <2>1. PurgedRows(p, n) /\ UNCHANGED formats
    BY <1>4, PurgeRows DEF MigrationInv, PurgeCommits, Frees, formats
  <2>2. ASSUME NEW m \in Names, NEW w \in Numbers, HasEnvelope(m, w)'
        PROVE  /\ HasEnvelope(m, w)
               /\ version'[m][w].envelope.bound = version[m][w].envelope.bound
    BY <2>1, <2>2 DEF PurgedRows, HasEnvelope
  <2> QED
    BY <1>1, <2>1, <2>2
<1>5. ASSUME NEW p \in Rekeyers, NEW k \in Keys, NEW release \in Formats,
             RekeyCommits(p, k, release)
      PROVE  LegacyFrames' /\ FramesCarry'
  <2>1. RekeyedRows(k) /\ UNCHANGED formats
    BY <1>5, RekeyRows DEF MigrationInv, RekeyCommits, Frees, formats
  <2>2. ASSUME NEW m \in Names, NEW w \in Numbers, HasEnvelope(m, w)'
        PROVE  /\ HasEnvelope(m, w)
               /\ version'[m][w].envelope.bound = version[m][w].envelope.bound
    BY <2>1, <2>2 DEF RekeyedRows, HasEnvelope
  <2> QED
    BY <1>1, <2>1, <2>2
<1>6. ASSUME NEW p \in Scrubbers, Scrubbing(p) PROVE LegacyFrames' /\ FramesCarry'
  BY <1>2, <1>6 DEF Scrubbing, ScrubQuietly, WarnIfBlocked, KillScrub, vars, formats
<1>7. ASSUME NEW m \in Migrators, Migrating(m) PROVE LegacyFrames' /\ FramesCarry'
  <2>1. CASE Reseal(m)
    <3>1. MigratedRows(m) /\ format' = Current
      BY <2>1, ResealRows DEF MigrationInv, Reseal
    <3>2. LegacyFrames'
      BY <3>1 DEF LegacyFrames, Legacy, Current
    <3>3. ASSUME NEW n \in Names, NEW v \in Numbers, HasEnvelope(n, v)'
          PROVE  version'[n][v].envelope.bound.env \notin Multiline
      <4>1. HasEnvelope(n, v)
        BY <3>1, <3>3 DEF MigratedRows
      <4>2. secret[n] # None
        BY <4>1 DEF MigrationInv, Inv, Contiguous, HasEnvelope
      <4>3. version'[n][v].envelope = [key |-> held[m], bound |-> CleanCols(n)]
        BY <3>1, <4>1 DEF MigratedRows
      <4>4. version'[n][v].envelope.bound = CleanCols(n)
        BY <4>3
      <4> QED
        BY <4>2, <4>4, CleanTyping DEF MigrationInv
    <3> QED
      BY <3>2, <3>3 DEF FramesCarry
  <2>2. CASE ~Reseal(m)
    BY <1>2, <1>7, <2>2, OnlyResealWrites DEF vars
  <2> QED
    BY <2>1, <2>2
<1>8. CASE UNCHANGED allVars
  BY <1>2, <1>8 DEF allVars, vars, migrateVars, formats
<1> QED
  BY <1>3, <1>4, <1>5, <1>6, <1>7, <1>8 DEF MigrationNext

\* The format is migrate's alone.
LEMMA FormatStep ==
  ASSUME [MigrationNext]_allVars, ~(\E m \in Migrators : Reseal(m))
  PROVE  format' = format
<1>1. CASE \E m \in Migrators : Migrating(m)
  BY <1>1, OnlyResealWrites DEF formats
<1>2. CASE ~\E m \in Migrators : Migrating(m)
  BY <1>2
  DEF MigrationNext, Setting, SetReads, SetAppends, SetAbandons, PurgeCommits, RekeyCommits,
      Frees, Scrubbing, ScrubQuietly, WarnIfBlocked, KillScrub, formats, migrateVars, allVars
<1> QED
  BY <1>1, <1>2

\* No step breaks the invariant.
LEMMA MigrationInvStep ==
  ASSUME MigrationInv, [MigrationNext]_allVars
  PROVE  MigrationInv'
BY TablesKept, MigrateTypingStep, LockStep, FramesStep DEF MigrationInv

\* The empty vault of the previous release.
LEMMA MigrationInvInit ==
  ASSUME MigrationInit
  PROVE  MigrationInv
<1>1. Inv
  BY InvInit DEF MigrationInit
<1>2. \A n \in Names, v \in Numbers : ~Exists(n, v)
  BY DEF MigrationInit, Init, Exists
<1>3. MigrateTyping /\ Holds /\ LockHeld /\ Checked
  BY DEF MigrationInit, MigrateTyping, Holds, LockHeld, Checked, Running, Formats, Legacy,
         Stages, Freers
<1> QED
  BY <1>1, <1>2, <1>3
  DEF MigrationInv, NewestBound, LegacyFrames, FramesCarry, HasEnvelope

-----------------------------------------------------------------------------
(* Theorems.                                                               *)

\* Every variable keeps its type, beside binaries of two releases.
THEOREM MigrationTypeCorrect == MigrationSpec => []MigrationTypeOK
<1>1. MigrationInv => MigrationTypeOK
  BY DEF MigrationInv, Inv, MigrateTyping, MigrationTypeOK
<1> QED
  BY <1>1, MigrationInvInit, MigrationInvStep, PTL DEF MigrationSpec

\* In a migrated vault the newest current frame of a secret carries the
\* columns of its row, so a read of it passes the metadata check, whatever
\* env name the previous release had stored and whatever set has raced.
THEOREM NewestStaysReadable == MigrationSpec => []NewestReadable
<1>1. MigrationInv => NewestReadable
  BY DEF MigrationInv, NewestBound, FramesCarry, NewestReadable, HasEnvelope
<1> QED
  BY <1>1, MigrationInvInit, MigrationInvStep, PTL DEF MigrationSpec

\* The format never goes back, and changes in one step with every envelope.
THEOREM MigrationIsWhole == MigrationSpec => MigratedWhole
<1> DEFINE Whole == format' # format =>
                      /\ format' = Current
                      /\ \A n \in Names, v \in Numbers :
                           /\ HasEnvelope(n, v)' <=> HasEnvelope(n, v)
                           /\ HasEnvelope(n, v)' =>
                                /\ frame'[n][v] = Current
                                /\ version'[n][v].envelope =
                                     [key |-> version[n][v].envelope.key,
                                      bound |-> secret'[n].cols]
<1>1. ASSUME MigrationInv, [MigrationNext]_allVars PROVE [Whole]_allVars
  <2> SUFFICES ASSUME format' # format PROVE Whole
    OBVIOUS
  <2>1. PICK m \in Migrators : Reseal(m)
    BY <1>1, FormatStep
  <2>2. MigratedRows(m) /\ format' = Current
    BY <1>1, <2>1, ResealRows DEF MigrationInv, Reseal
  <2>3. ASSUME NEW n \in Names, NEW v \in Numbers, HasEnvelope(n, v)
        PROVE  version[n][v].envelope.key = held[m]
    BY <1>1, <2>1, <2>3, LiveHasEnvelope DEF MigrationInv, Reseal, Unopenable
  <2> QED
    BY <2>2, <2>3 DEF MigratedRows
<1> QED
  BY <1>1, MigrationInvInit, MigrationInvStep, PTL DEF MigrationSpec, MigratedWhole

\* A migrate that gets to its transaction finds the vault as its check left
\* it: no other has migrated it since or can be in its way, and no set of the
\* current release has stored a frame that it could not open.
THEOREM NobodyOvertakes == MigrationSpec => []NeverOvertaken
<1>1. MigrationInv => NeverOvertaken
  <2> SUFFICES ASSUME MigrationInv, NEW m \in Migrators, stage[m] = "reseal"
               PROVE  /\ format = Legacy
                      /\ \A n \in Names, v \in Numbers :
                           HasEnvelope(n, v) => frame[n][v] = Legacy
                      /\ \A o \in Migrators \ {m} : ~Running(o)
    BY DEF NeverOvertaken
  <2>1. format = Legacy
    BY DEF MigrationInv, Checked
  <2>2. lock = m
    BY DEF MigrationInv, LockHeld, Running
  <2> QED
    BY <2>1, <2>2 DEF MigrationInv, LegacyFrames, LockHeld
<1> QED
  BY <1>1, MigrationInvInit, MigrationInvStep, PTL DEF MigrationSpec

\* What a purge or rekey freed is out of the log once it has returned in
\* silence, and does not come back.
THEOREM SilenceIsTrue == MigrationSpec => []SilentMeansScrubbed
<1>1. MigrationInit => SilentMeansScrubbed
  BY DEF MigrationInit, SilentMeansScrubbed
<1>2. ASSUME SilentMeansScrubbed, [MigrationNext]_allVars PROVE SilentMeansScrubbed'
  <2>1. ASSUME NEW p, Frees(p) PROVE SilentMeansScrubbed'
    BY <1>2, <2>1 DEF Frees, SilentMeansScrubbed
  <2>2. ASSUME NEW p \in Scrubbers, Scrubbing(p) PROVE SilentMeansScrubbed'
    BY <1>2, <2>2
    DEF Scrubbing, ScrubQuietly, WarnIfBlocked, KillScrub, Checkpoint, Warns, SilentMeansScrubbed
  <2>3. ASSUME NEW m \in Migrators, Migrating(m) PROVE SilentMeansScrubbed'
    BY <1>2, <2>3
    DEF Migrating, MigrateGoesOn, MigrateReturns, MigrateMoves, TakeLock, Refused,
        LoadIdentity, CheckPasses, CheckFails, AlreadyCurrent, Reseal, ResealFails,
        MigrateScrubs, MigrateErrs, KillMigrate, Checkpoint, SilentMeansScrubbed
  <2>4. CASE UNCHANGED <<leftover, silent>>
    BY <1>2, <2>4 DEF SilentMeansScrubbed
  <2> QED
    BY <1>2, <2>1, <2>2, <2>3, <2>4
    DEF MigrationNext, Setting, SetReads, SetAppends, SetAbandons, PurgeCommits, RekeyCommits,
        migrateVars, allVars
<1> QED
  BY <1>1, <1>2, PTL DEF MigrationSpec

\* A migration is no operation on the life of a secret: with it beside them
\* the verbs still implement the four operations of SecretLifecycle.
THEOREM MigrationIsInvisible == MigrationSpec => Implements
<1>1. MigrationInit => Lifecycle!Init
  BY LifecycleInit DEF MigrationInit
<1>2. ASSUME MigrationInv, [MigrationNext]_allVars
      PROVE  [Lifecycle!Next]_(Lifecycle!vars)
  <2>1. CASE [Next]_vars
    BY <1>2, <2>1, LifecycleStep DEF MigrationInv
  <2>2. ASSUME NEW m \in Migrators, Reseal(m)
        PROVE  UNCHANGED Lifecycle!vars
    <3>1. MigratedRows(m)
      BY <1>2, <2>2, ResealRows DEF MigrationInv
    <3>2. \A n \in Names, v \in Numbers : StateOf(n, v)' = StateOf(n, v)
      BY <3>1 DEF MigratedRows, StateOf
    <3>3. \A n \in Names : Tombstoned(n)' = Tombstoned(n)
      BY <3>1 DEF MigratedRows, Tombstoned
    <3> QED
      BY <3>2, <3>3 DEF Lifecycle!vars, StateOf, Tombstoned
  <2> QED
    BY <1>2, <2>1, <2>2, TableStep
<1> QED
  BY <1>1, <1>2, MigrationInvInit, MigrationInvStep, PTL
  DEF MigrationSpec, Implements, Lifecycle!Spec

-----------------------------------------------------------------------------
(* The frames after the migration.                                         *)

\* Every binary of the previous release is stopped before the migration, as
\* README.md:68-73 and docs/commands.md:340-347 ask.
OldStopped ==
  \A p \in Setters, n \in Names, v \in Numbers, flags \in Flags :
    SetAppends(p, n, v, flags, Legacy) => format = Legacy

\* Every envelope of a migrated vault has the current frame.
AllCurrent ==
  format = Current =>
    \A n \in Names, v \in Numbers : HasEnvelope(n, v) => frame[n][v] = Current

\* A legacy frame in a migrated vault is beyond repair: no migrate, rekey or
\* set changes it, and it is there as long as its envelope.
LegacyFrameStays ==
  [][format = Current =>
       /\ format' = Current
       /\ \A n \in Names, v \in Numbers :
            HasEnvelope(n, v) /\ HasEnvelope(n, v)' => frame'[n][v] = frame[n][v]]_allVars

\* Only a set makes an envelope, and only migrate changes the frame of one.
LEMMA FrameStays ==
  ASSUME MigrationInv, [MigrationNext]_allVars, NEW n \in Names, NEW v \in Numbers,
         HasEnvelope(n, v)',
         ~(\E m \in Migrators : Reseal(m)),
         ~(\E p \in Setters, flags \in Flags, release \in Formats :
             SetAppends(p, n, v, flags, release))
  PROVE  HasEnvelope(n, v) /\ frame'[n][v] = frame[n][v]
<1> DEFINE Stays == HasEnvelope(n, v) /\ frame'[n][v] = frame[n][v]
<1>1. CASE UNCHANGED <<version, frame>>
  BY <1>1 DEF HasEnvelope, Exists
<1>2. ASSUME NEW p \in Setters, NEW m \in Names, NEW w \in Numbers, NEW flags \in Flags,
             NEW release \in Formats, SetAppends(p, m, w, flags, release)
      PROVE  Stays
  <2>1. /\ AppendedRows(p, m, w, flags)
        /\ frame \in [Names -> [Numbers -> Formats]]
        /\ frame' = [frame EXCEPT ![m][w] = release]
    BY <1>2, AppendRows DEF MigrationInv, SetAppends, MigrateTyping
  <2>2. m # n \/ w # v
    BY <1>2
  <2>3. Exists(n, v) /\ version[n][v] \in VersionRow \cup {None}
    BY <2>1, <2>2 DEF AppendedRows, HasEnvelope, MigrationInv, Inv, TypeOK
  <2>4. version'[n][v].envelope = version[n][v].envelope
    BY <2>1, <2>2, <2>3, RevokedRow DEF AppendedRows, Exists
  <2> QED
    BY <2>1, <2>2, <2>3, <2>4 DEF HasEnvelope
<1>3. ASSUME NEW p \in Purgers, NEW m \in Names, PurgeCommits(p, m) PROVE Stays
  <2>1. PurgedRows(p, m) /\ frame' = frame
    BY <1>3, PurgeRows DEF MigrationInv, PurgeCommits, Frees
  <2> QED
    BY <2>1 DEF PurgedRows, HasEnvelope
<1>4. ASSUME NEW p \in Rekeyers, NEW k \in Keys, NEW release \in Formats,
             RekeyCommits(p, k, release)
      PROVE  Stays
  <2>1. RekeyedRows(k) /\ frame' = frame
    BY <1>4, RekeyRows DEF MigrationInv, RekeyCommits, Frees
  <2> QED
    BY <2>1 DEF RekeyedRows, HasEnvelope
<1>5. ASSUME NEW p \in Setters, Setting(p) PROVE Stays
  <2>1. CASE SetReads(p) \/ SetAbandons(p)
    BY <1>1, <2>1 DEF SetReads, ReadRecipient, SetAbandons, Abandon, tables, migrateVars
  <2> QED
    BY <1>2, <1>5, <2>1 DEF Setting
<1>6. ASSUME NEW p \in Scrubbers, Scrubbing(p) PROVE Stays
  BY <1>1, <1>6 DEF Scrubbing, ScrubQuietly, WarnIfBlocked, KillScrub, vars, formats
<1>7. ASSUME NEW m \in Migrators, Migrating(m) PROVE Stays
  BY <1>1, <1>7, OnlyResealWrites DEF vars, formats
<1>8. CASE UNCHANGED allVars
  BY <1>1, <1>8 DEF allVars, vars, migrateVars
<1> QED
  BY <1>3, <1>4, <1>5, <1>6, <1>7, <1>8 DEF MigrationNext

\* What a set of the previous release slips in after the migration is never
\* repaired: docs/commands.md:344-347 says so of migrate, and it is as true of
\* every other verb.
THEOREM LegacyFramesAreLeft == MigrationSpec => LegacyFrameStays
<1> DEFINE Stays ==
      format = Current =>
        /\ format' = Current
        /\ \A n \in Names, v \in Numbers :
             HasEnvelope(n, v) /\ HasEnvelope(n, v)' => frame'[n][v] = frame[n][v]
<1>1. ASSUME MigrationInv, [MigrationNext]_allVars PROVE [Stays]_allVars
  <2> SUFFICES ASSUME format = Current
               PROVE  /\ format' = Current
                      /\ \A n \in Names, v \in Numbers :
                           HasEnvelope(n, v) /\ HasEnvelope(n, v)'
                             => frame'[n][v] = frame[n][v]
    OBVIOUS
  <2>1. ~(\E m \in Migrators : Reseal(m))
    BY DEF Reseal, FormatOne, Legacy, Current
  <2>2. ASSUME NEW n \in Names, NEW v \in Numbers, HasEnvelope(n, v), HasEnvelope(n, v)'
        PROVE  frame'[n][v] = frame[n][v]
    <3>1. ~(\E p \in Setters, flags \in Flags, release \in Formats :
              SetAppends(p, n, v, flags, release))
      BY <2>2, StoreAssumption
      DEF SetAppends, AppendVersion, AppendBinding, IsNextVersion, HasEnvelope, Numbers
    <3> QED
      BY <1>1, <2>1, <2>2, <3>1, FrameStays
  <2> QED
    BY <1>1, <2>1, <2>2, FormatStep
<1> QED
  BY <1>1, MigrationInvInit, MigrationInvStep, PTL DEF MigrationSpec, LegacyFrameStays

\* With the precaution the documents ask for, every envelope of a migrated
\* vault has the current frame.  So NewestReadable covers every newest one,
\* and no later rekey meets a version it cannot parse.
THEOREM StoppedMeansCurrent ==
  MigrationSpec /\ [][OldStopped]_allVars => []AllCurrent
<1>1. MigrationInit => AllCurrent
  BY DEF MigrationInit, AllCurrent, Legacy, Current
<1>2. ASSUME MigrationInv, AllCurrent, [MigrationNext]_allVars, [OldStopped]_allVars
      PROVE  AllCurrent'
  <2> SUFFICES ASSUME format' = Current, NEW n \in Names, NEW v \in Numbers, HasEnvelope(n, v)'
               PROVE  frame'[n][v] = Current
    BY DEF AllCurrent
  <2>1. ASSUME NEW m \in Migrators, Reseal(m) PROVE frame'[n][v] = Current
    <3>1. HasEnvelope(n, v)
      BY <1>2, <2>1, ResealRows DEF MigrationInv, MigratedRows
    <3>2. Live(version[n][v])
      BY <1>2, <3>1, LiveHasEnvelope DEF MigrationInv
    <3> QED
      BY <2>1, <3>2 DEF Reseal
  <2>2. ASSUME ~(\E m \in Migrators : Reseal(m)),
               NEW p \in Setters, NEW flags \in Flags, NEW release \in Formats,
               SetAppends(p, n, v, flags, release)
        PROVE  frame'[n][v] = Current
    <3>1. format = Current
      BY <1>2, <2>2, FormatStep
    <3>2. frame'[n][v] = release
      BY <1>2, <2>2 DEF SetAppends, MigrationInv, MigrateTyping
    <3>3. OldStopped \/ UNCHANGED allVars
      BY <1>2
    <3>4. release # Legacy
      <4>1. CASE OldStopped
        BY <2>2, <3>1, <4>1 DEF OldStopped, Legacy, Current
      <4>2. CASE UNCHANGED allVars
        BY <2>2, <4>2, StoreAssumption
        DEF SetAppends, AppendVersion, AppendBinding, IsNextVersion, HasEnvelope, Exists,
            allVars, vars, Numbers
      <4> QED
        BY <3>3, <4>1, <4>2
    <3> QED
      BY <3>2, <3>4 DEF Formats
  <2>3. CASE /\ ~(\E m \in Migrators : Reseal(m))
             /\ ~(\E p \in Setters, flags \in Flags, release \in Formats :
                    SetAppends(p, n, v, flags, release))
    <3>1. HasEnvelope(n, v) /\ frame'[n][v] = frame[n][v]
      BY <1>2, <2>3, FrameStays
    <3>2. format = Current
      BY <1>2, <2>3, FormatStep
    <3> QED
      BY <1>2, <3>1, <3>2 DEF AllCurrent
  <2> QED
    BY <2>1, <2>2, <2>3
<1> QED
  BY <1>1, <1>2, MigrationInvInit, MigrationInvStep, PTL DEF MigrationSpec
=============================================================================
