-------------------------- MODULE LifecycleRefinement --------------------------
(***************************************************************************)
(* The verbs, with their reads outside a transaction, implement the four   *)
(* atomic operations of SecretLifecycle.                                   *)
(***************************************************************************)
EXTENDS VaultStoreProofs

\* What the mapping of VaultStore's Lifecycle makes of a version and a secret.
StateOf(n, v) == IF Exists(n, v) THEN version[n][v].state ELSE "absent"

Tombstoned(n) == secret[n] # None /\ secret[n].deleted # None

\* A version is present if its row is there.
LEMMA PresentIsExists ==
  ASSUME Inv, NEW n \in Names
  PROVE  Lifecycle!Present(n) = {v \in Numbers : Exists(n, v)}
<1>1. \A v \in Numbers : Exists(n, v) => version[n][v].state # "absent"
  BY DEF Inv, TypeOK, Exists, VersionRow, States
<1> QED
  BY <1>1 DEF Lifecycle!Present, Lifecycle!Numbers, Numbers

\* A set adds a version and retires the others if asked to.
LEMMA AppendRefines ==
  ASSUME Inv, NEW p \in Setters, NEW n \in Names, NEW v \in Numbers, NEW flags \in Flags,
         AppendVersion(p, n, v, flags)
  PROVE  Lifecycle!Add(n, v, flags.revoke)
<1>0. AppendedRows(p, n, v, flags)
  BY AppendRows
<1>1. Lifecycle!Present(n) = 1..(v - 1)
  <2>1. {w \in Numbers : Exists(n, w)} = 1..(v - 1)
    BY <1>0, StoreAssumption DEF AppendedRows, Numbers
  <2> QED
    BY <2>1, PresentIsExists
<1>2. ASSUME NEW m \in Names, NEW w \in Numbers
      PROVE  StateOf(m, w)' = IF m = n /\ w = v THEN "enabled"
                              ELSE IF m = n /\ flags.revoke THEN Lifecycle!Retire(StateOf(m, w))
                              ELSE StateOf(m, w)
  <2>1. CASE m = n /\ w = v
    BY <1>0, <2>1 DEF AppendedRows, StateOf
  <2>2. CASE ~(m = n /\ w = v)
    <3>1. version[m][w] \in VersionRow \cup {None}
      BY DEF Inv, TypeOK
    <3> QED
      BY <1>0, <2>2, <3>1, RevokedRow DEF AppendedRows, Exists, Lifecycle!Retire, StateOf
  <2> QED
    BY <2>1, <2>2
<1>3. \A m \in Names : Tombstoned(m)' = IF m = n THEN FALSE ELSE Tombstoned(m)
  BY <1>0 DEF AppendedRows, Inv, TypeOK, Tombstoned
<1> QED
  BY <1>1, <1>2, <1>3 DEF Lifecycle!Add, Lifecycle!Numbers, Numbers, StateOf, Tombstoned

\* A guarded disable disables, or finds the version destroyed and stutters.
LEMMA DisableRefines ==
  ASSUME Inv, NEW p \in Disablers, NEW n \in Names, NEW v \in Numbers, DisableVersion(p, n, v)
  PROVE  Lifecycle!Disable(n, v) \/ UNCHANGED Lifecycle!vars
<1>0. DisabledRows(n, v)
  BY DisableRows
<1>1. \A m \in Names : Tombstoned(m)' = Tombstoned(m)
  BY DEF DisableVersion, Tombstoned
<1>2. CASE version[n][v].state = "destroyed"
  <2>1. \A m \in Names, w \in Numbers : StateOf(m, w)' = StateOf(m, w)
    BY <1>0, <1>2 DEF DisabledRows, StateOf
  <2> QED
    BY <1>1, <2>1 DEF Lifecycle!vars, StateOf, Tombstoned
<1>3. CASE version[n][v].state # "destroyed"
  <2>1. version[n][v] \in VersionRow
    BY <1>0 DEF DisabledRows, Inv, TypeOK, Exists
  <2>2. StateOf(n, v) \in {"enabled", "disabled"}
    BY <1>0, <1>3, <2>1 DEF DisabledRows, StateOf, VersionRow, States
  <2>3. \A m \in Names, w \in Numbers :
          StateOf(m, w)' = IF m = n /\ w = v THEN "disabled" ELSE StateOf(m, w)
    BY <1>0, <1>3, <2>1 DEF DisabledRows, StateOf, VersionRow
  <2> QED
    BY <1>1, <2>2, <2>3 DEF Lifecycle!Disable, StateOf, Tombstoned
<1> QED
  BY <1>2, <1>3

\* A guarded delete deletes, or finds a tombstone and stutters.
LEMMA SoftDeleteRefines ==
  ASSUME Inv, NEW p \in Deleters, NEW n \in Names, SoftDelete(p, n)
  PROVE  Lifecycle!Drop(n) \/ UNCHANGED Lifecycle!vars
<1>1. secret[n] # None /\ secret[n] \in SecretRow
  BY DEF Inv, TypeOK, HasRead, SoftDelete, Procs
<1>2. \A m \in Names, w \in Numbers : StateOf(m, w)' = StateOf(m, w)
  BY DEF SoftDelete, StateOf, Exists
<1>3. CASE secret[n].deleted # None
  BY <1>2, <1>3 DEF SoftDelete, Lifecycle!vars, StateOf
<1>4. CASE secret[n].deleted = None
  <2>1. secret' = [secret EXCEPT ![n] = [secret[n] EXCEPT !.deleted = p]]
    BY <1>4 DEF SoftDelete
  <2>2. [secret[n] EXCEPT !.deleted = p] # None /\ p # None
    <3>1. [secret[n] EXCEPT !.deleted = p] \in SecretRow
      BY <1>1 DEF SecretRow
    <3> QED
      BY <3>1, StoreAssumption
  <2>3. \A m \in Names : Tombstoned(m)' = IF m = n THEN TRUE ELSE Tombstoned(m)
    BY <1>1, <2>1, <2>2 DEF Inv, TypeOK, Tombstoned, SecretRow
  <2>4. Lifecycle!Present(n) # {}
    BY <1>1, PresentIsExists, StoreAssumption DEF Inv, Founded, Numbers
  <2>5. ~Tombstoned(n)
    BY <1>4 DEF Tombstoned
  <2> QED
    BY <1>2, <2>3, <2>4, <2>5 DEF Lifecycle!Drop, StateOf, Tombstoned
<1> QED
  BY <1>3, <1>4

\* A purge destroys.
LEMMA PurgeRefines ==
  ASSUME Inv, NEW p \in Purgers, NEW n \in Names, Purge(p, n)
  PROVE  Lifecycle!Destroy(n)
<1>0. PurgedRows(p, n)
  BY PurgeRows
<1>1. Lifecycle!Present(n) # {}
  BY <1>0, PresentIsExists, StoreAssumption DEF PurgedRows, Inv, Founded, Numbers
<1>2. \A m \in Names, w \in Numbers :
        StateOf(m, w)' = IF m = n THEN IF w \in Lifecycle!Present(n) THEN "destroyed" ELSE "absent"
                                  ELSE StateOf(m, w)
  BY <1>0, PresentIsExists DEF PurgedRows, StateOf
<1>3. \A m \in Names : Tombstoned(m)' = IF m = n THEN TRUE ELSE Tombstoned(m)
  BY <1>0 DEF PurgedRows, Tombstoned
<1> QED
  BY <1>1, <1>2, <1>3 DEF Lifecycle!Destroy, Lifecycle!Numbers, Numbers, StateOf, Tombstoned

\* A rekey leaves states and tombstones alone.
LEMMA RekeyRefines ==
  ASSUME Inv, NEW k \in Keys, Rekey(k)
  PROVE  UNCHANGED Lifecycle!vars
<1>1. RekeyedRows(k)
  BY RekeyRows
<1>2. \A m \in Names, w \in Numbers : StateOf(m, w)' = StateOf(m, w)
  BY <1>1 DEF RekeyedRows, StateOf
<1> QED
  BY <1>2 DEF Rekey, Lifecycle!vars, StateOf

\* Empty tables are an empty life.
LEMMA LifecycleInit ==
  ASSUME Init
  PROVE  Lifecycle!Init
<1>1. /\ \A n \in Names, v \in Numbers : ~Exists(n, v)
      /\ \A n \in Names : secret[n] = None
  BY DEF Init, Exists
<1> QED
  BY <1>1 DEF Lifecycle!Init, Lifecycle!Numbers, Numbers

\* Every step of a verb is one of the four operations or a stutter.
LEMMA LifecycleStep ==
  ASSUME Inv, [Next]_vars
  PROVE  [Lifecycle!Next]_(Lifecycle!vars)
<1>1. CASE UNCHANGED tables
  BY <1>1 DEF tables, Lifecycle!vars, Exists
<1>2. ASSUME NEW p \in Setters, NEW n \in Names, NEW v \in Numbers, NEW flags \in Flags,
             AppendVersion(p, n, v, flags)
      PROVE  Lifecycle!Next
  BY <1>2, AppendRefines DEF Lifecycle!Next, Lifecycle!Numbers, Numbers, Flags
<1>3. ASSUME NEW p \in Disablers, NEW n \in Names, NEW v \in Numbers, DisableVersion(p, n, v)
      PROVE  [Lifecycle!Next]_(Lifecycle!vars)
  BY <1>3, DisableRefines DEF Lifecycle!Next, Lifecycle!Numbers, Numbers
<1>4. ASSUME NEW p \in Deleters, NEW n \in Names, SoftDelete(p, n)
      PROVE  [Lifecycle!Next]_(Lifecycle!vars)
  BY <1>4, SoftDeleteRefines DEF Lifecycle!Next
<1>5. ASSUME NEW p \in Purgers, NEW n \in Names, Purge(p, n)
      PROVE  Lifecycle!Next
  BY <1>5, PurgeRefines DEF Lifecycle!Next
<1>6. ASSUME NEW k \in Keys, Rekey(k)
      PROVE  UNCHANGED Lifecycle!vars
  BY <1>6, RekeyRefines
<1> QED
  BY <1>1, <1>2, <1>3, <1>4, <1>5, <1>6
  DEF Next, Set, Disable, Delete, ReadRecipient, LookUpVersion, LookUpSecret, Abandon,
      tables, vars

\* The tables show four atomic operations and nothing of what a verb had
\* read before another one wrote.
THEOREM VerbsAreAtomic == Spec => Implements
BY LifecycleInit, LifecycleStep, InvInit, InvStep, PTL DEF Spec, Implements, Lifecycle!Spec
=============================================================================
