--------------------------- MODULE VaultStoreProofs ---------------------------
(***************************************************************************)
(* Proofs about VaultStore, for any secrets, versions, keys and processes: *)
(* the tables stay consistent, and the verbs implement SecretLifecycle.    *)
(***************************************************************************)
EXTENDS VaultStore, TLAPS

-----------------------------------------------------------------------------
(* The inductive invariant.                                                *)

\* What a verb has read before its last step: a recipient, a version that
\* is there, a secret that is there.
HasRead(p) ==
  /\ pc[p] = "append" => p \in Setters /\ local[p] \in Keys
  /\ pc[p] = "update" =>
       /\ p \in Disablers
       /\ local[p] \in Names \X Numbers
       /\ Exists(local[p][1], local[p][2])
  /\ pc[p] = "tombstone" =>
       /\ p \in Deleters
       /\ local[p] \in Names
       /\ secret[local[p]] # None

\* A secret row and its first version come together.
Founded == \A n \in Names : secret[n] # None <=> Exists(n, 1)

Inv ==
  /\ TypeOK
  /\ \A p \in Procs : HasRead(p)
  /\ Founded
  /\ Contiguous
  /\ DestroyedErased

-----------------------------------------------------------------------------
(* What the operators return.                                              *)

\* Storing what a set leaves of the columns.
LEMMA EffectiveTyping ==
  ASSUME TypeOK, NEW n \in Names, NEW flags \in Flags
  PROVE  Effective(n, flags) \in Columns
<1>1. CASE secret[n] = None
  BY <1>1 DEF Effective, Flags, Columns
<1>2. CASE secret[n] # None
  <2>1. secret[n].cols \in Columns
    BY <1>2 DEF TypeOK, SecretRow
  <2> QED
    BY <1>2, <2>1 DEF Effective, Flags, Columns
<1> QED
  BY <1>1, <1>2

\* The next number is the one after all that are taken.
LEMMA NextNumber ==
  ASSUME Contiguous, NEW n \in Names, NEW v \in Numbers, IsNextVersion(n, v)
  PROVE  \A w \in Numbers : Exists(n, w) <=> w < v
<1>1. CASE v = 1
  BY <1>1, StoreAssumption DEF IsNextVersion, Numbers
<1>2. CASE v # 1
  <2>1. PICK w \in Numbers : Exists(n, w) /\ v = w + 1
    BY <1>2 DEF IsNextVersion
  <2>2. \A u \in 1..w : Exists(n, u)
    BY <2>1 DEF Contiguous
  <2> QED
    BY <2>1, <2>2, StoreAssumption DEF IsNextVersion, Numbers
<1> QED
  BY <1>1, <1>2

\* A revoke changes the state of an enabled version and nothing else.
LEMMA RevokedRow ==
  ASSUME NEW row \in VersionRow \cup {None}
  PROVE  /\ Revoked(row) \in VersionRow \cup {None}
         /\ Revoked(row) = None <=> row = None
         /\ row # None => /\ Revoked(row).envelope = row.envelope
                          /\ Revoked(row).state =
                               IF row.state = "enabled" THEN "disabled" ELSE row.state
BY StoreAssumption DEF Revoked, VersionRow, States

\* Purge destroys a version that is there and makes none.
LEMMA ErasedRow ==
  ASSUME NEW row \in VersionRow \cup {None}
  PROVE  /\ Erased(row) \in VersionRow \cup {None}
         /\ Erased(row) = None <=> row = None
         /\ row # None => Erased(row).state = "destroyed" /\ Erased(row).envelope = None
<1>1. [state |-> "destroyed", envelope |-> None] \in VersionRow
  BY DEF VersionRow, States
<1>2. [state |-> "destroyed", envelope |-> None] # None
  BY <1>1, StoreAssumption
<1> QED
  BY <1>1, <1>2 DEF Erased

\* Rekey changes the key of an envelope that is there and nothing else.
LEMMA ResealedRow ==
  ASSUME NEW row \in VersionRow \cup {None}, NEW k \in Keys
  PROVE  /\ Resealed(row, k) \in VersionRow \cup {None}
         /\ Resealed(row, k) = None <=> row = None
         /\ row # None =>
              /\ Resealed(row, k).state = row.state
              /\ Resealed(row, k).envelope = None <=> row.envelope = None
              /\ row.envelope # None => Resealed(row, k).envelope.bound = row.envelope.bound
<1>1. CASE Live(row)
  <2>1. row \in VersionRow /\ row.envelope \in Envelope
    BY <1>1 DEF Live, VersionRow
  <2>2. [row EXCEPT !.envelope.key = k] \in VersionRow
    BY <2>1 DEF VersionRow, Envelope
  <2>3. [row EXCEPT !.envelope.key = k].envelope = [row.envelope EXCEPT !.key = k]
    BY <2>1 DEF VersionRow
  <2>4. [row.envelope EXCEPT !.key = k] \in Envelope
    BY <2>1 DEF Envelope
  <2> QED
    BY <1>1, <2>1, <2>2, <2>3, <2>4, StoreAssumption DEF Resealed, VersionRow, Envelope, Live
<1>2. CASE ~Live(row)
  BY <1>2 DEF Resealed
<1> QED
  BY <1>1, <1>2

-----------------------------------------------------------------------------
(* What each write to the tables does to the versions that exist.          *)

LocalTyping ==
  /\ pc \in [Procs -> Labels]
  /\ local = [p \in Procs |-> local[p]]
  /\ \A p \in Setters : local[p] \in Keys \cup {None}
  /\ \A p \in Disablers : local[p] \in (Names \X Numbers) \cup {None}
  /\ \A p \in Deleters : local[p] \in Names \cup {None}
  /\ \A p \in Purgers : local[p] = None

\* A process that goes on with something it may hold keeps the types.
LEMMA GotoTyping ==
  ASSUME TypeOK, NEW p \in Procs, NEW label \in Labels, NEW read, Goto(p, label, read),
         p \in Setters => read \in Keys \cup {None},
         p \in Disablers => read \in (Names \X Numbers) \cup {None},
         p \in Deleters => read \in Names \cup {None},
         p \in Purgers => read = None
  PROVE  LocalTyping'
<1>1. pc' \in [Procs -> Labels] /\ local' = [q \in Procs |-> IF q = p THEN read ELSE local[q]]
  BY DEF TypeOK, Goto
<1>2. /\ local' = [q \in Procs |-> local'[q]]
      /\ \A q \in Procs : local'[q] = IF q = p THEN read ELSE local[q]
  BY <1>1
<1> QED
  BY <1>1, <1>2 DEF TypeOK, LocalTyping, Procs

\* A process that goes on or ends leaves what the others have read.
LEMMA OthersRead ==
  ASSUME Inv, NEW p \in Procs, NEW label, NEW read, Goto(p, label, read),
         \A n \in Names : secret[n] # None => secret'[n] # None,
         \A n \in Names, v \in Numbers : Exists(n, v) => Exists(n, v)'
  PROVE  \A q \in Procs \ {p} : HasRead(q)'
BY DEF Inv, TypeOK, Goto, HasRead

\* The rows after a set: one more, the others as they were or disabled.
AppendedRows(p, n, v, flags) ==
  /\ secret' = [secret EXCEPT ![n] = [cols |-> Effective(n, flags), deleted |-> None]]
  /\ secret' \in [Names -> SecretRow \cup {None}]
  /\ \A m \in Names : secret'[m] # None <=> m = n \/ secret[m] # None
  /\ version' \in [Names -> [Numbers -> VersionRow \cup {None}]]
  /\ version'[n][v] = [state |-> "enabled",
                       envelope |-> [key |-> local[p], bound |-> Effective(n, flags)]]
  /\ version'[n][v].envelope # None
  /\ \A w \in Numbers : Exists(n, w) <=> w < v
  /\ \A m \in Names, w \in Numbers : m # n \/ w # v =>
       version'[m][w] = IF m = n /\ flags.revoke THEN Revoked(version[m][w])
                                                 ELSE version[m][w]
  /\ \A m \in Names, w \in Numbers : Exists(m, w)' <=> (m = n /\ w = v) \/ Exists(m, w)

LEMMA AppendRows ==
  ASSUME Inv, NEW p \in Setters, NEW n \in Names, NEW v \in Numbers, NEW flags \in Flags,
         AppendVersion(p, n, v, flags)
  PROVE  AppendedRows(p, n, v, flags)
<1> DEFINE new == [state |-> "enabled",
                   envelope |-> [key |-> local[p], bound |-> Effective(n, flags)]]
<1>1. local[p] \in Keys /\ Effective(n, flags) \in Columns
  BY EffectiveTyping DEF Inv, HasRead, AppendVersion, AppendBinding, Procs
<1>2. new.envelope \in Envelope /\ new \in VersionRow
  BY <1>1 DEF Envelope, VersionRow, States
<1>3. new # None /\ new.envelope # None
  BY <1>2, StoreAssumption
<1>4. [cols |-> Effective(n, flags), deleted |-> None] \in SecretRow
  BY <1>1 DEF SecretRow
<1>5. version' = [version EXCEPT ![n] = [w \in Numbers |->
                    IF w = v THEN new
                    ELSE IF flags.revoke THEN Revoked(version[n][w]) ELSE version[n][w]]]
  BY DEF AppendVersion, AppendBinding
<1> HIDE DEF new
<1>6. version'[n][v] = new
  BY <1>5 DEF Inv, TypeOK
<1>7. \A m \in Names, w \in Numbers : m # n \/ w # v =>
        version'[m][w] = IF m = n /\ flags.revoke THEN Revoked(version[m][w])
                                                  ELSE version[m][w]
  BY <1>5 DEF Inv, TypeOK
<1>8. version' \in [Names -> [Numbers -> VersionRow \cup {None}]]
  BY <1>2, <1>5, RevokedRow DEF Inv, TypeOK
<1>9. \A m \in Names, w \in Numbers : Exists(m, w)' <=> (m = n /\ w = v) \/ Exists(m, w)
  BY <1>3, <1>6, <1>7, RevokedRow DEF Inv, TypeOK, Exists
<1>10. \A w \in Numbers : Exists(n, w) <=> w < v
  BY NextNumber DEF Inv, AppendVersion, AppendBinding
<1>11. secret' = [secret EXCEPT ![n] = [cols |-> Effective(n, flags), deleted |-> None]]
  BY DEF AppendVersion, AppendBinding
<1>12. /\ secret' \in [Names -> SecretRow \cup {None}]
       /\ \A m \in Names : secret'[m] # None <=> m = n \/ secret[m] # None
  BY <1>4, <1>11, StoreAssumption DEF Inv, TypeOK
<1> QED
  BY <1>3, <1>6, <1>7, <1>8, <1>9, <1>10, <1>11, <1>12 DEF AppendedRows, new

\* The rows after a disable: at most one changes, and only its state.
DisabledRows(n, v) ==
  /\ Exists(n, v)
  /\ version' \in [Names -> [Numbers -> VersionRow \cup {None}]]
  /\ version[n][v].state # "destroyed" =>
       version'[n][v] = [version[n][v] EXCEPT !.state = "disabled"]
  /\ \A m \in Names, w \in Numbers :
       m # n \/ w # v \/ version[n][v].state = "destroyed" => version'[m][w] = version[m][w]
  /\ \A m \in Names, w \in Numbers : Exists(m, w)' <=> Exists(m, w)

LEMMA DisableRows ==
  ASSUME Inv, NEW p \in Disablers, NEW n \in Names, NEW v \in Numbers, DisableVersion(p, n, v)
  PROVE  DisabledRows(n, v)
<1>0. p \in Procs /\ local[p][1] = n /\ local[p][2] = v
  BY DEF Procs, DisableVersion
<1>1. Exists(n, v) /\ version[n][v] \in VersionRow
  BY <1>0 DEF Inv, TypeOK, HasRead, DisableVersion, Exists
<1>2. [version[n][v] EXCEPT !.state = "disabled"] \in VersionRow
  BY <1>1 DEF VersionRow, States
<1>3. CASE version[n][v].state # "destroyed"
  <2>1. version' = [version EXCEPT ![n] =
                      [@ EXCEPT ![v] = [version[n][v] EXCEPT !.state = "disabled"]]]
    BY <1>3 DEF DisableVersion
  <2> QED
    BY <1>1, <1>2, <1>3, <2>1, StoreAssumption DEF Inv, TypeOK, Exists, DisabledRows
<1>4. CASE version[n][v].state = "destroyed"
  BY <1>1, <1>4 DEF DisableVersion, Inv, TypeOK, Exists, DisabledRows
<1> QED
  BY <1>3, <1>4

\* The rows after a purge: all destroyed, and a secret row that is there.
PurgedRows(p, n) ==
  /\ secret[n] # None
  /\ secret' \in [Names -> SecretRow \cup {None}]
  /\ \A m \in Names : secret'[m] # None <=> secret[m] # None
  /\ secret'[n].deleted # None
  /\ version' \in [Names -> [Numbers -> VersionRow \cup {None}]]
  /\ \A m \in Names, w \in Numbers : m # n => version'[m][w] = version[m][w]
  /\ \A m \in Names : m # n => secret'[m] = secret[m]
  /\ \A w \in Numbers : Exists(n, w) =>
       version'[n][w].state = "destroyed" /\ version'[n][w].envelope = None
  /\ \A m \in Names, w \in Numbers : Exists(m, w)' <=> Exists(m, w)

LEMMA PurgeRows ==
  ASSUME Inv, NEW p \in Purgers, NEW n \in Names, Purge(p, n)
  PROVE  PurgedRows(p, n)
<1>1. secret[n] # None /\ secret[n] \in SecretRow
  BY DEF Inv, TypeOK, Purge
<1>2. PICK d \in Deleters \cup Purgers :
        secret' = [secret EXCEPT ![n] = [secret[n] EXCEPT !.deleted = d]]
  <2>1. CASE secret[n].deleted = None
    BY <2>1 DEF Purge
  <2>2. CASE secret[n].deleted # None
    <3>1. secret[n].deleted \in Deleters \cup Purgers
      BY <1>1, <2>2 DEF SecretRow
    <3> QED
      BY <2>2, <3>1 DEF Purge
  <2> QED
    BY <2>1, <2>2
<1>3. [secret[n] EXCEPT !.deleted = d] \in SecretRow
  BY <1>1 DEF SecretRow
<1>4. /\ secret' \in [Names -> SecretRow \cup {None}]
      /\ \A m \in Names : secret'[m] # None <=> secret[m] # None
      /\ \A m \in Names : m # n => secret'[m] = secret[m]
  BY <1>1, <1>2, <1>3, StoreAssumption DEF Inv, TypeOK
<1>5. secret'[n].deleted # None
  BY <1>1, <1>2, StoreAssumption DEF Inv, TypeOK, SecretRow
<1>6. version' = [version EXCEPT ![n] = [v \in Numbers |-> Erased(version[n][v])]]
  BY DEF Purge
<1>7. /\ version' \in [Names -> [Numbers -> VersionRow \cup {None}]]
      /\ \A m \in Names, w \in Numbers : m # n => version'[m][w] = version[m][w]
      /\ \A w \in Numbers : version'[n][w] = Erased(version[n][w])
  BY <1>6, ErasedRow DEF Inv, TypeOK
<1>8. \A m \in Names, w \in Numbers : Exists(m, w)' <=> Exists(m, w)
  BY <1>7, ErasedRow DEF Inv, TypeOK, Exists
<1>9. \A w \in Numbers : Exists(n, w) =>
        version'[n][w].state = "destroyed" /\ version'[n][w].envelope = None
  BY <1>7, ErasedRow DEF Inv, TypeOK, Exists
<1> QED
  BY <1>1, <1>4, <1>5, <1>7, <1>8, <1>9 DEF PurgedRows

\* The rows after a rekey: other keys, and nothing else.
RekeyedRows(k) ==
  /\ version' \in [Names -> [Numbers -> VersionRow \cup {None}]]
  /\ \A n \in Names, v \in Numbers : Exists(n, v)' <=> Exists(n, v)
  /\ \A n \in Names, v \in Numbers : Exists(n, v) =>
       /\ version'[n][v].state = version[n][v].state
       /\ version'[n][v].envelope = None <=> version[n][v].envelope = None
       /\ version[n][v].envelope # None =>
            version'[n][v].envelope.bound = version[n][v].envelope.bound

LEMMA RekeyRows ==
  ASSUME Inv, NEW k \in Keys, Rekey(k)
  PROVE  RekeyedRows(k)
<1>1. version' = [n \in Names |-> [v \in Numbers |-> Resealed(version[n][v], k)]]
  BY DEF Rekey
<1>2. version' \in [Names -> [Numbers -> VersionRow \cup {None}]]
  BY <1>1, ResealedRow DEF Inv, TypeOK
<1>3. \A n \in Names, v \in Numbers :
        version'[n][v] = Resealed(version[n][v], k) /\ version[n][v] \in VersionRow \cup {None}
  BY <1>1 DEF Inv, TypeOK
<1>4. ASSUME NEW n \in Names, NEW v \in Numbers
      PROVE  /\ Exists(n, v)' <=> Exists(n, v)
             /\ Exists(n, v) =>
                  /\ version'[n][v].state = version[n][v].state
                  /\ version'[n][v].envelope = None <=> version[n][v].envelope = None
                  /\ version[n][v].envelope # None =>
                       version'[n][v].envelope.bound = version[n][v].envelope.bound
  BY <1>3, ResealedRow DEF Exists
<1> QED
  BY <1>2, <1>4 DEF RekeyedRows

-----------------------------------------------------------------------------
(* Preservation, one step per action.                                      *)

\* No step breaks the invariant.
LEMMA InvStep ==
  ASSUME Inv, [Next]_vars
  PROVE  Inv'
<1>0. /\ Setters \subseteq Procs /\ Disablers \subseteq Procs
      /\ Deleters \subseteq Procs /\ Purgers \subseteq Procs
  BY DEF Procs
<1>1. ASSUME NEW p \in Setters, ReadRecipient(p) PROVE Inv'
  <2>1. TypeOK'
    BY <1>0, <1>1, StoreAssumption DEF Inv, TypeOK, ReadRecipient, Goto, tables, Labels
  <2>2. \A q \in Procs \ {p} : HasRead(q)'
    BY <1>0, <1>1, OthersRead DEF ReadRecipient, tables, Exists
  <2>3. HasRead(p)'
    BY <1>0, <1>1 DEF Inv, TypeOK, ReadRecipient, Goto, HasRead
  <2> QED
    BY <1>1, <2>1, <2>2, <2>3
    DEF Inv, ReadRecipient, tables, Founded, Contiguous, DestroyedErased, Exists
<1>2. ASSUME NEW p \in Setters, NEW n \in Names, NEW v \in Numbers, NEW flags \in Flags,
             AppendVersion(p, n, v, flags)
      PROVE  Inv'
  <2>0. AppendedRows(p, n, v, flags)
    BY <1>2, AppendRows
  <2>1. TypeOK'
    BY <1>0, <1>2, <2>0, StoreAssumption
    DEF AppendedRows, Inv, TypeOK, AppendVersion, AppendBinding, Return, Goto, Labels
  <2>2. \A q \in Procs \ {p} : HasRead(q)'
    <3>1. Goto(p, "idle", None)
      BY <1>2 DEF AppendVersion, AppendBinding, Return
    <3> QED
      BY <1>0, <1>2, <2>0, <3>1, OthersRead DEF AppendedRows
  <2>3. HasRead(p)'
    BY <1>0, <1>2 DEF Inv, TypeOK, AppendVersion, AppendBinding, Return, Goto, HasRead
  <2>4. Contiguous'
    BY <2>0, StoreAssumption, SMTT(30) DEF AppendedRows, Inv, Contiguous, Numbers
  <2>5. Founded'
    BY <2>0, StoreAssumption DEF AppendedRows, Inv, Founded, Numbers
  <2>6. DestroyedErased'
    <3> SUFFICES ASSUME NEW m \in Names, NEW w \in Numbers, Exists(m, w)'
                 PROVE  (version'[m][w].state = "destroyed" <=> version'[m][w].envelope = None)
      BY DEF DestroyedErased
    <3>1. CASE m = n /\ w = v
      BY <2>0, <3>1 DEF AppendedRows
    <3>2. CASE m # n \/ w # v
      <4>1. Exists(m, w) /\ version[m][w] \in VersionRow \cup {None}
        BY <2>0, <3>2 DEF AppendedRows, Inv, TypeOK
      <4> QED
        BY <2>0, <3>2, <4>1, RevokedRow, SMTT(30) DEF AppendedRows, Inv, DestroyedErased, Exists
    <3> QED
      BY <3>1, <3>2
  <2> QED
    BY <2>1, <2>2, <2>3, <2>4, <2>5, <2>6 DEF Inv
<1>3. ASSUME NEW p \in Disablers, NEW n \in Names, NEW v \in Numbers, LookUpVersion(p, n, v)
      PROVE  Inv'
  <2>1. TypeOK'
    BY <1>0, <1>3, StoreAssumption, ZenonT(40)
    DEF Inv, TypeOK, LookUpVersion, Goto, tables, Labels
  <2>2. \A q \in Procs \ {p} : HasRead(q)'
    BY <1>0, <1>3, OthersRead DEF LookUpVersion, tables, Exists
  <2>3. HasRead(p)'
    BY <1>0, <1>3 DEF Inv, TypeOK, LookUpVersion, Goto, HasRead, tables, Exists
  <2> QED
    BY <1>3, <2>1, <2>2, <2>3
    DEF Inv, LookUpVersion, tables, Founded, Contiguous, DestroyedErased, Exists
<1>4. ASSUME NEW p \in Disablers, NEW n \in Names, NEW v \in Numbers, DisableVersion(p, n, v)
      PROVE  Inv'
  <2>0. DisabledRows(n, v)
    BY <1>4, DisableRows
  <2>1. TypeOK'
    BY <1>0, <1>4, <2>0, StoreAssumption
    DEF DisabledRows, Inv, TypeOK, DisableVersion, Return, Goto, Labels
  <2>2. \A q \in Procs \ {p} : HasRead(q)'
    BY <1>0, <1>4, <2>0, OthersRead DEF DisabledRows, DisableVersion, Return
  <2>3. HasRead(p)'
    BY <1>0, <1>4 DEF Inv, TypeOK, DisableVersion, Return, Goto, HasRead
  <2>4. Contiguous' /\ Founded'
    BY <1>4, <2>0, StoreAssumption
    DEF DisabledRows, Inv, DisableVersion, Contiguous, Founded, Numbers
  <2>5. DestroyedErased'
    <3> SUFFICES ASSUME NEW m \in Names, NEW w \in Numbers, Exists(m, w)'
                 PROVE  (version'[m][w].state = "destroyed" <=> version'[m][w].envelope = None)
      BY DEF DestroyedErased
    <3>1. Exists(m, w) /\ version[m][w] \in VersionRow
      BY <2>0 DEF DisabledRows, Inv, TypeOK, Exists
    <3> QED
      BY <2>0, <3>1 DEF DisabledRows, Inv, DestroyedErased, VersionRow
  <2> QED
    BY <2>1, <2>2, <2>3, <2>4, <2>5 DEF Inv
<1>5. ASSUME NEW p \in Deleters, NEW n \in Names, LookUpSecret(p, n) PROVE Inv'
  <2>1. TypeOK'
    <3>1. LocalTyping'
      BY <1>0, <1>5, GotoTyping, StoreAssumption DEF Inv, LookUpSecret, Labels
    <3> QED
      BY <1>5, <3>1 DEF Inv, TypeOK, LookUpSecret, tables, LocalTyping
  <2>2. \A q \in Procs \ {p} : HasRead(q)'
    BY <1>0, <1>5, OthersRead DEF LookUpSecret, tables, Exists
  <2>3. HasRead(p)'
    BY <1>0, <1>5 DEF Inv, TypeOK, LookUpSecret, Goto, HasRead, tables
  <2> QED
    BY <1>5, <2>1, <2>2, <2>3
    DEF Inv, LookUpSecret, tables, Founded, Contiguous, DestroyedErased, Exists
<1>6. ASSUME NEW p \in Deleters, NEW n \in Names, SoftDelete(p, n) PROVE Inv'
  <2>1. secret[n] # None /\ secret[n] \in SecretRow
    BY <1>0, <1>6 DEF Inv, TypeOK, HasRead, SoftDelete
  <2>2. /\ secret' \in [Names -> SecretRow \cup {None}]
        /\ \A m \in Names : secret'[m] # None <=> secret[m] # None
    <3>1. [secret[n] EXCEPT !.deleted = p] \in SecretRow
      BY <1>6, <2>1 DEF SecretRow
    <3>2. CASE secret[n].deleted = None
      <4>1. secret' = [secret EXCEPT ![n] = [secret[n] EXCEPT !.deleted = p]]
        BY <1>6, <3>2 DEF SoftDelete
      <4> QED
        BY <2>1, <3>1, <4>1, StoreAssumption DEF Inv, TypeOK
    <3>3. CASE secret[n].deleted # None
      BY <1>6, <3>3 DEF Inv, TypeOK, SoftDelete
    <3> QED
      BY <3>2, <3>3
  <2>3. TypeOK'
    BY <1>0, <1>6, <2>2, StoreAssumption DEF Inv, TypeOK, SoftDelete, Return, Goto, Labels
  <2>4. \A q \in Procs \ {p} : HasRead(q)'
    BY <1>0, <1>6, <2>2, OthersRead DEF SoftDelete, Return, Exists
  <2>5. HasRead(p)'
    BY <1>0, <1>6 DEF Inv, TypeOK, SoftDelete, Return, Goto, HasRead
  <2>6. Contiguous' /\ Founded' /\ DestroyedErased'
    BY <1>6, <2>2, StoreAssumption
    DEF Inv, SoftDelete, Contiguous, Founded, DestroyedErased, Exists, Numbers
  <2> QED
    BY <2>3, <2>4, <2>5, <2>6 DEF Inv
<1>7. ASSUME NEW p \in Purgers, NEW n \in Names, Purge(p, n) PROVE Inv'
  <2>0. PurgedRows(p, n)
    BY <1>7, PurgeRows
  <2>1. TypeOK'
    BY <1>0, <1>7, <2>0 DEF PurgedRows, Inv, TypeOK, Purge
  <2>2. \A q \in Procs : HasRead(q)'
    BY <1>7, <2>0 DEF PurgedRows, Inv, HasRead, Purge
  <2>3. Contiguous' /\ Founded'
    BY <2>0, StoreAssumption DEF PurgedRows, Inv, Contiguous, Founded, Numbers
  <2>4. DestroyedErased'
    BY <2>0 DEF PurgedRows, Inv, DestroyedErased, Exists
  <2> QED
    BY <2>1, <2>2, <2>3, <2>4 DEF Inv
<1>8. ASSUME NEW k \in Keys, Rekey(k) PROVE Inv'
  <2>0. RekeyedRows(k)
    BY <1>8, RekeyRows
  <2>1. TypeOK'
    BY <1>8, <2>0 DEF RekeyedRows, Inv, TypeOK, Rekey
  <2>2. \A q \in Procs : HasRead(q)'
    BY <1>8, <2>0 DEF RekeyedRows, Inv, HasRead, Rekey
  <2>3. Contiguous' /\ Founded'
    BY <1>8, <2>0, StoreAssumption DEF RekeyedRows, Inv, Contiguous, Founded, Rekey, Numbers
  <2>4. DestroyedErased'
    BY <2>0 DEF RekeyedRows, Inv, DestroyedErased, Exists
  <2> QED
    BY <2>1, <2>2, <2>3, <2>4 DEF Inv
<1>9. ASSUME NEW p \in Procs, Abandon(p) PROVE Inv'
  <2>1. TypeOK'
    <3>1. LocalTyping'
      BY <1>9, GotoTyping DEF Inv, Abandon, Return, Labels
    <3> QED
      BY <1>9, <3>1 DEF Inv, TypeOK, Abandon, tables, LocalTyping
  <2>2. \A q \in Procs \ {p} : HasRead(q)'
    BY <1>9, OthersRead DEF Abandon, Return, tables, Exists
  <2>3. HasRead(p)'
    BY <1>9 DEF Inv, TypeOK, Abandon, Return, Goto, HasRead
  <2> QED
    BY <1>9, <2>1, <2>2, <2>3
    DEF Inv, Abandon, tables, Founded, Contiguous, DestroyedErased, Exists
<1>10. CASE UNCHANGED vars
  BY <1>10 DEF vars, Inv, TypeOK, HasRead, Founded, Contiguous, DestroyedErased, Exists
<1> QED
  BY <1>1, <1>2, <1>3, <1>4, <1>5, <1>6, <1>7, <1>8, <1>9, <1>10
  DEF Next, Set, Disable, Delete

\* The tables of a new vault.
LEMMA InvInit ==
  ASSUME Init
  PROVE  Inv
<1>1. TypeOK
  <2>1. 1 \in Keys /\ "idle" \in Labels
    BY StoreAssumption DEF Keys, Labels
  <2>2. pc \in [Procs -> Labels] /\ local = [p \in Procs |-> local[p]]
    BY <2>1 DEF Init
  <2>3. \A p \in Procs : local[p] = None
    BY DEF Init
  <2> QED
    BY <2>1, <2>2, <2>3 DEF Init, TypeOK, Procs
<1>2. \A p \in Procs : HasRead(p)
  BY DEF Init, HasRead
<1>3. Founded /\ Contiguous /\ DestroyedErased
  BY StoreAssumption DEF Init, Founded, Contiguous, DestroyedErased, Exists, Numbers
<1> QED
  BY <1>1, <1>2, <1>3 DEF Inv

\* The tables have their type in every behaviour.
THEOREM TypeCorrect == Spec => []TypeOK
<1>1. Inv => TypeOK
  BY DEF Inv
<1> QED
  BY <1>1, InvInit, InvStep, PTL DEF Spec

\* A version keeps its envelope exactly until it is destroyed, whatever any
\* disable, set or rekey had read before the purge.
THEOREM PurgeIsFinal == Spec => []DestroyedErased
<1>1. Inv => DestroyedErased
  BY DEF Inv
<1> QED
  BY <1>1, InvInit, InvStep, PTL DEF Spec

\* Version numbers have no gaps.
THEOREM NoGaps == Spec => []Contiguous
<1>1. Inv => Contiguous
  BY DEF Inv
<1> QED
  BY <1>1, InvInit, InvStep, PTL DEF Spec

-----------------------------------------------------------------------------
(* Rows only grow.                                                         *)

\* Of every row of secret_version, forever: it stays, its state never goes
\* back, its number is not used again, what is bound in it never changes.
THEOREM RowsOnlyGrow == Spec => AppendOnly
<1> DEFINE Grow == \A n \in Names, v \in Numbers : RowGrows(version[n][v], version'[n][v])
<1>1. ASSUME Inv, [Next]_vars PROVE [Grow]_vars
  <2> SUFFICES ASSUME NEW n \in Names, NEW v \in Numbers, version[n][v] # None
               PROVE  RowGrows(version[n][v], version'[n][v])
    BY DEF RowGrows
  <2>0. /\ version[n][v] \in VersionRow
        /\ version[n][v].state \in States
        /\ RowGrows(version[n][v], version[n][v])
    BY <1>1 DEF Inv, TypeOK, VersionRow, RowGrows, Rank, States
  <2>1. ASSUME NEW p \in Setters, NEW m \in Names, NEW w \in Numbers, NEW flags \in Flags,
               AppendVersion(p, m, w, flags)
        PROVE  RowGrows(version[n][v], version'[n][v])
    <3>1. AppendedRows(p, m, w, flags)
      BY <1>1, <2>1, AppendRows
    <3>2. m # n \/ v # w
      BY <3>1, StoreAssumption DEF AppendedRows, Exists, Numbers
    <3>3. version'[n][v] = version[n][v] \/ version'[n][v] = Revoked(version[n][v])
      BY <3>1, <3>2 DEF AppendedRows
    <3> QED
      BY <2>0, <3>3, RevokedRow DEF RowGrows, Rank, States
  <2>2. ASSUME NEW p \in Disablers, NEW m \in Names, NEW w \in Numbers, DisableVersion(p, m, w)
        PROVE  RowGrows(version[n][v], version'[n][v])
    <3>1. DisabledRows(m, w)
      BY <1>1, <2>2, DisableRows
    <3>2. CASE version'[n][v] = version[n][v]
      BY <2>0, <3>2
    <3>3. CASE /\ version[n][v].state # "destroyed"
               /\ version'[n][v] = [version[n][v] EXCEPT !.state = "disabled"]
      <4>1. /\ version'[n][v].state = "disabled"
            /\ version'[n][v].envelope = version[n][v].envelope
        BY <2>0, <3>3 DEF VersionRow
      <4>2. version'[n][v] # None
        BY <3>1 DEF DisabledRows, Exists
      <4> QED
        BY <2>0, <3>3, <4>1, <4>2 DEF RowGrows, Rank, States
    <3> QED
      BY <3>1, <3>2, <3>3 DEF DisabledRows
  <2>3. ASSUME NEW p \in Purgers, NEW m \in Names, Purge(p, m)
        PROVE  RowGrows(version[n][v], version'[n][v])
    <3>1. PurgedRows(p, m)
      BY <1>1, <2>3, PurgeRows
    <3>2. version'[n][v] # None
      BY <3>1 DEF PurgedRows, Exists
    <3> QED
      BY <2>0, <3>1, <3>2 DEF PurgedRows, Exists, RowGrows, Rank, States
  <2>4. ASSUME NEW k \in Keys, Rekey(k)
        PROVE  RowGrows(version[n][v], version'[n][v])
    <3>1. RekeyedRows(k)
      BY <1>1, <2>4, RekeyRows
    <3> QED
      BY <2>0, <3>1 DEF RekeyedRows, Exists, RowGrows, Rank, States
  <2>5. CASE UNCHANGED version
    BY <2>0, <2>5
  <2> QED
    BY <1>1, <2>1, <2>2, <2>3, <2>4, <2>5
    DEF Next, Set, Disable, Delete, ReadRecipient, LookUpVersion, LookUpSecret, SoftDelete,
        Abandon, tables, vars
<1> QED
  BY <1>1, InvInit, InvStep, PTL DEF Spec, AppendOnly

\* A tombstone that is there stays as it is until a set revives the secret:
\* neither a delete that lost its race nor a purge writes another over it.
THEOREM TombstonesStay == Spec => TombstoneKept
<1> DEFINE Kept == \A n \in Names :
                     secret[n] # None /\ secret[n].deleted # None =>
                       secret'[n] # None /\ secret'[n].deleted \in {None, secret[n].deleted}
<1>1. ASSUME Inv, [Next]_vars PROVE [Kept]_vars
  <2> SUFFICES ASSUME NEW n \in Names, secret[n] # None, secret[n].deleted # None
               PROVE  secret'[n] # None /\ secret'[n].deleted \in {None, secret[n].deleted}
    OBVIOUS
  <2>1. CASE UNCHANGED secret
    BY <2>1
  <2>2. ASSUME NEW p \in Setters, NEW m \in Names, NEW w \in Numbers, NEW flags \in Flags,
               AppendVersion(p, m, w, flags)
        PROVE  secret'[n] # None /\ secret'[n].deleted \in {None, secret[n].deleted}
    <3>1. AppendedRows(p, m, w, flags)
      BY <1>1, <2>2, AppendRows
    <3> QED
      BY <1>1, <3>1 DEF AppendedRows, Inv, TypeOK
  <2>3. ASSUME NEW p \in Deleters, NEW m \in Names, SoftDelete(p, m)
        PROVE  secret'[n] # None /\ secret'[n].deleted \in {None, secret[n].deleted}
    BY <1>1, <2>3 DEF Inv, TypeOK, SoftDelete
  <2>4. ASSUME NEW p \in Purgers, NEW m \in Names, Purge(p, m)
        PROVE  secret'[n] # None /\ secret'[n].deleted \in {None, secret[n].deleted}
    <3>1. secret[m] \in SecretRow
      BY <1>1, <2>4 DEF Inv, TypeOK, Purge
    <3>2. CASE m = n
      <4>1. secret' = [secret EXCEPT ![n] = [secret[n] EXCEPT !.deleted = secret[n].deleted]]
        BY <2>4, <3>2 DEF Purge
      <4>2. secret'[n] = secret[n]
        BY <1>1, <3>1, <3>2, <4>1 DEF Inv, TypeOK, SecretRow
      <4> QED
        BY <4>2
    <3>3. CASE m # n
      BY <1>1, <2>4, <3>3, PurgeRows DEF PurgedRows
    <3> QED
      BY <3>2, <3>3
  <2> QED
    BY <1>1, <2>1, <2>2, <2>3, <2>4
    DEF Next, Set, Disable, Delete, ReadRecipient, LookUpVersion, DisableVersion,
        LookUpSecret, Rekey, Abandon, tables, vars
<1> QED
  BY <1>1, InvInit, InvStep, PTL DEF Spec, TombstoneKept

\* A rekey that commits has resealed every envelope there is, those of
\* disabled versions and of deleted secrets included.
THEOREM RekeyLeavesNone == Spec => RekeyMovesAll
<1> DEFINE Moved == recipient' # recipient =>
                      \A n \in Names, v \in Numbers :
                        version'[n][v] # None /\ version'[n][v].envelope # None =>
                          version'[n][v].envelope.key = recipient'
<1>1. ASSUME Inv, [Next]_vars PROVE [Moved]_vars
  <2> SUFFICES ASSUME recipient' # recipient,
                      NEW n \in Names, NEW v \in Numbers,
                      version'[n][v] # None, version'[n][v].envelope # None
               PROVE  version'[n][v].envelope.key = recipient'
    OBVIOUS
  <2>1. PICK k \in Keys : Rekey(k)
    BY <1>1
    DEF Next, Set, Disable, Delete, ReadRecipient, AppendVersion, AppendBinding,
        LookUpVersion, DisableVersion, LookUpSecret, SoftDelete, Purge, Abandon, tables, vars
  <2>2. recipient' = k /\ version'[n][v] = Resealed(version[n][v], k)
    BY <2>1 DEF Rekey
  <2>3. version[n][v] \in VersionRow \cup {None}
    BY <1>1 DEF Inv, TypeOK
  <2>4. CASE Live(version[n][v])
    <3>1. version[n][v] \in VersionRow /\ version[n][v].envelope \in Envelope
      BY <2>3, <2>4 DEF Live, VersionRow
    <3> QED
      BY <2>2, <2>4, <3>1 DEF Resealed, VersionRow, Envelope
  <2>5. CASE ~Live(version[n][v])
    <3>1. version'[n][v] = version[n][v]
      BY <2>2, <2>5 DEF Resealed
    <3> QED
      BY <1>1, <2>5, <3>1 DEF Inv, DestroyedErased, Exists, Live
  <2> QED
    BY <2>4, <2>5
<1> QED
  BY <1>1, InvInit, InvStep, PTL DEF Spec, RekeyMovesAll

-----------------------------------------------------------------------------
(* The newest version carries the columns of its secret.                   *)

\* NewestBound is kept given Inv.
LEMMA NewestBoundStep ==
  ASSUME Inv, NewestBound, [Next]_vars
  PROVE  NewestBound'
<1> SUFFICES ASSUME NEW n \in Names, NEW v \in Numbers, Exists(n, v)',
                    \A w \in Numbers : Exists(n, w)' => w <= v,
                    version'[n][v].envelope # None
             PROVE  version'[n][v].envelope.bound = secret'[n].cols
  BY DEF NewestBound
<1>1. ASSUME NEW p \in Setters, NEW m \in Names, NEW w \in Numbers, NEW flags \in Flags,
             AppendVersion(p, m, w, flags)
      PROVE  version'[n][v].envelope.bound = secret'[n].cols
  <2>1. AppendedRows(p, m, w, flags)
    BY <1>1, AppendRows
  <2>2. CASE m = n
    <3>1. v = w
      BY <2>1, <2>2, StoreAssumption DEF AppendedRows, Numbers
    <3>2. version'[n][v].envelope = [key |-> local[p], bound |-> Effective(n, flags)]
      BY <2>1, <2>2, <3>1 DEF AppendedRows
    <3>3. secret'[n] = [cols |-> Effective(n, flags), deleted |-> None]
      BY <2>1, <2>2 DEF AppendedRows, Inv, TypeOK
    <3> QED
      BY <3>2, <3>3
  <2>3. CASE m # n
    <3>1. secret'[n] = secret[n] /\ version'[n][v] = version[n][v]
      BY <2>1, <2>3 DEF AppendedRows, Inv, TypeOK
    <3>2. Exists(n, v) /\ \A u \in Numbers : Exists(n, u) => u <= v
      BY <2>1, <2>3 DEF AppendedRows
    <3> QED
      BY <3>1, <3>2 DEF NewestBound
  <2> QED
    BY <2>2, <2>3
<1>2. ASSUME NEW p \in Disablers, NEW m \in Names, NEW w \in Numbers, DisableVersion(p, m, w)
      PROVE  version'[n][v].envelope.bound = secret'[n].cols
  <2>1. DisabledRows(m, w)
    BY <1>2, DisableRows
  <2>2. /\ Exists(n, v)
        /\ \A u \in Numbers : Exists(n, u) => u <= v
        /\ version'[n][v].envelope = version[n][v].envelope
    BY <2>1 DEF DisabledRows, Inv, TypeOK, Exists, VersionRow
  <2> QED
    BY <1>2, <2>2 DEF NewestBound, DisableVersion
<1>3. ASSUME NEW p \in Deleters, NEW m \in Names, SoftDelete(p, m)
      PROVE  version'[n][v].envelope.bound = secret'[n].cols
  <2>1. secret[m] # None /\ secret[m] \in SecretRow
    BY <1>3 DEF Inv, TypeOK, HasRead, SoftDelete, Procs
  <2>2. secret'[n].cols = secret[n].cols
    <3>1. CASE secret[m].deleted = None
      <4>1. secret' = [secret EXCEPT ![m] = [secret[m] EXCEPT !.deleted = p]]
        BY <1>3, <3>1 DEF SoftDelete
      <4> QED
        BY <2>1, <4>1 DEF Inv, TypeOK, SecretRow
    <3>2. CASE secret[m].deleted # None
      BY <1>3, <3>2 DEF SoftDelete
    <3> QED
      BY <3>1, <3>2
  <2> QED
    BY <1>3, <2>2 DEF NewestBound, SoftDelete, Exists
<1>4. ASSUME NEW p \in Purgers, NEW m \in Names, Purge(p, m)
      PROVE  version'[n][v].envelope.bound = secret'[n].cols
  <2>1. PurgedRows(p, m)
    BY <1>4, PurgeRows
  <2>2. m # n
    BY <2>1 DEF PurgedRows
  <2> QED
    BY <2>1, <2>2 DEF PurgedRows, NewestBound, Exists
<1>5. ASSUME NEW k \in Keys, Rekey(k)
      PROVE  version'[n][v].envelope.bound = secret'[n].cols
  <2>1. RekeyedRows(k)
    BY <1>5, RekeyRows
  <2> QED
    BY <1>5, <2>1 DEF RekeyedRows, NewestBound, Rekey
<1>6. CASE UNCHANGED tables
  BY <1>6 DEF tables, NewestBound, Exists
<1> QED
  BY <1>1, <1>2, <1>3, <1>4, <1>5, <1>6
  DEF Next, Set, Disable, Delete, ReadRecipient, LookUpVersion, LookUpSecret, Abandon, tables, vars

\* The newest version of a secret, unless purged, is bound to the columns of
\* its row, so a read of it never fails the metadata check.
THEOREM NewestIsBound == Spec => []NewestBound
<1>1. Init => NewestBound
  BY DEF Init, NewestBound, Exists
<1> QED
  BY <1>1, InvInit, InvStep, NewestBoundStep, PTL DEF Spec

-----------------------------------------------------------------------------
(* Which key the envelopes are on.                                         *)

\* No rekey commits between the two steps of a set.
RekeysApart == \A k \in Keys, p \in Setters : Rekey(k) => pc[p] # "append"

\* What a set goes on to seal under is still the recipient.
FreshReads == \A p \in Setters : pc[p] = "append" => local[p] = recipient

\* An envelope no identity in use opens: sealed to a key the vault left.
LeftBehind(n, v) ==
  Exists(n, v) /\ version[n][v].envelope # None /\ version[n][v].envelope.key # recipient

\* What Vault.Rekey's refusal of a version it cannot open comes to: the vault
\* stays on its key, and the version is left behind, until that secret is purged.
LeftBehindStays ==
  [][\A n \in Names, v \in Numbers :
       LeftBehind(n, v) => /\ recipient' = recipient
                           /\ LeftBehind(n, v)' \/ \E p \in Purgers : Purge(p, n)]_vars

\* A row's envelope and the recipient, step by step.
LEMMA EnvelopeStep ==
  ASSUME Inv, [Next]_vars, NEW n \in Names, NEW v \in Numbers,
         ~(\E p \in Purgers : Purge(p, n)), ~(\E k \in Keys : Rekey(k)),
         ~(\E p \in Setters, flags \in Flags : AppendVersion(p, n, v, flags))
  PROVE  /\ Exists(n, v)' <=> Exists(n, v)
         /\ Exists(n, v) => version'[n][v].envelope = version[n][v].envelope
         /\ recipient' = recipient
<1> DEFINE Same == /\ Exists(n, v)' <=> Exists(n, v)
                   /\ Exists(n, v) => version'[n][v].envelope = version[n][v].envelope
                   /\ recipient' = recipient
<1>1. ASSUME NEW p \in Setters, NEW m \in Names, NEW w \in Numbers, NEW flags \in Flags,
             AppendVersion(p, m, w, flags)
      PROVE  Same
  <2>1. AppendedRows(p, m, w, flags)
    BY <1>1, AppendRows
  <2>2. m # n \/ w # v
    BY <1>1
  <2>3. version[n][v] \in VersionRow \cup {None}
    BY DEF Inv, TypeOK
  <2>4. version'[n][v] = version[n][v] \/ version'[n][v] = Revoked(version[n][v])
    BY <2>1, <2>2 DEF AppendedRows
  <2>5. Exists(n, v)' <=> Exists(n, v)
    BY <2>1, <2>2 DEF AppendedRows
  <2> QED
    BY <1>1, <2>3, <2>4, <2>5, RevokedRow DEF Exists, AppendVersion, AppendBinding
<1>2. ASSUME NEW p \in Disablers, NEW m \in Names, NEW w \in Numbers, DisableVersion(p, m, w)
      PROVE  Same
  <2>1. DisabledRows(m, w)
    BY <1>2, DisableRows
  <2>2. version[n][v] \in VersionRow \cup {None}
    BY DEF Inv, TypeOK
  <2>3. Exists(n, v) => version'[n][v].envelope = version[n][v].envelope
    BY <2>1, <2>2 DEF DisabledRows, Exists, VersionRow
  <2> QED
    BY <1>2, <2>1, <2>3 DEF DisabledRows, DisableVersion
<1>3. ASSUME NEW p \in Purgers, NEW m \in Names, Purge(p, m)
      PROVE  Same
  <2>1. PurgedRows(p, m) /\ m # n
    BY <1>3, PurgeRows
  <2> QED
    BY <1>3, <2>1 DEF PurgedRows, Purge, Exists
<1>4. CASE UNCHANGED <<version, recipient>>
  BY <1>4 DEF Exists
<1> QED
  BY <1>1, <1>2, <1>3, <1>4
  DEF Next, Set, Disable, Delete, ReadRecipient, LookUpVersion, LookUpSecret, SoftDelete,
      Abandon, tables, vars

\* A version left behind keeps the vault on its key and stays so until its
\* secret is purged: neither a later set, nor a disable, a delete or a rekey
\* gets the vault out of it.
THEOREM LeftBehindUntilPurged == Spec => LeftBehindStays
<1> DEFINE Stays == \A n \in Names, v \in Numbers :
                      LeftBehind(n, v) => /\ recipient' = recipient
                                          /\ LeftBehind(n, v)' \/ \E p \in Purgers : Purge(p, n)
<1>1. ASSUME Inv, [Next]_vars PROVE [Stays]_vars
  <2> SUFFICES ASSUME NEW n \in Names, NEW v \in Numbers, LeftBehind(n, v)
               PROVE  /\ recipient' = recipient
                      /\ LeftBehind(n, v)' \/ \E p \in Purgers : Purge(p, n)
    OBVIOUS
  <2>1. ~(\E k \in Keys : Rekey(k))
    <3>1. Live(version[n][v])
      BY <1>1 DEF LeftBehind, Inv, DestroyedErased, Exists, Live
    <3> QED
      BY <3>1 DEF Rekey, LeftBehind
  <2>2. ~(\E p \in Setters, flags \in Flags : AppendVersion(p, n, v, flags))
    BY <1>1, StoreAssumption DEF LeftBehind, AppendVersion, AppendBinding, IsNextVersion, Numbers
  <2>3. CASE \E p \in Purgers : Purge(p, n)
    BY <2>3 DEF Purge
  <2>4. CASE ~(\E p \in Purgers : Purge(p, n))
    BY <1>1, <2>1, <2>2, <2>4, EnvelopeStep DEF LeftBehind
  <2> QED
    BY <2>3, <2>4
<1> QED
  BY <1>1, InvInit, InvStep, PTL DEF Spec, LeftBehindStays

\* Unless a rekey commits inside a set, what sets have read is fresh.
LEMMA FreshReadsStep ==
  ASSUME Inv, FreshReads, [Next]_vars, [RekeysApart]_vars
  PROVE  FreshReads'
<1> SUFFICES ASSUME NEW p \in Setters, pc'[p] = "append" PROVE local'[p] = recipient'
  BY DEF FreshReads
<1>0. p \in Procs /\ pc \in [Procs -> Labels] /\ local = [q \in Procs |-> local[q]]
  BY DEF Procs, Inv, TypeOK
<1>1. CASE UNCHANGED vars
  BY <1>1 DEF FreshReads, vars
<1>2. ASSUME NEW k \in Keys, Rekey(k), ~UNCHANGED vars PROVE FALSE
  BY <1>2 DEF RekeysApart, Rekey
<1>3. ASSUME ~(\E k \in Keys : Rekey(k)), ~UNCHANGED vars PROVE local'[p] = recipient'
  <2>1. recipient' = recipient
    BY <1>3 DEF Next, Set, Disable, Delete, ReadRecipient, AppendVersion, AppendBinding,
      LookUpVersion, DisableVersion, LookUpSecret, SoftDelete, Purge, Abandon, tables
  <2>2. CASE UNCHANGED <<pc, local>>
    BY <2>1, <2>2 DEF FreshReads
  <2>3. ASSUME NEW q \in Procs, NEW label, NEW read, Goto(q, label, read),
               label = "append" => read = recipient
        PROVE  local'[p] = recipient
    BY <1>0, <2>3 DEF Goto, FreshReads
  <2>4. Setters \cup Disablers \cup Deleters \cup Purgers \subseteq Procs
    BY DEF Procs
  <2> QED
    BY <1>3, <2>1, <2>2, <2>3, <2>4
    DEF Next, Set, Disable, Delete, ReadRecipient, AppendVersion, AppendBinding,
        LookUpVersion, DisableVersion, LookUpSecret, SoftDelete, Purge, Abandon, Return
<1> QED
  BY <1>1, <1>2, <1>3

\* With fresh reads every step keeps the envelopes on the recipient.
LEMMA OneKeyStep ==
  ASSUME Inv, FreshReads, OneKey, [Next]_vars
  PROVE  OneKey'
<1> SUFFICES ASSUME NEW n \in Names, NEW v \in Numbers,
                    Exists(n, v)', version'[n][v].envelope # None
             PROVE  version'[n][v].envelope.key = recipient'
  BY DEF OneKey
<1>1. ASSUME NEW p \in Setters, NEW flags \in Flags, AppendVersion(p, n, v, flags)
      PROVE  version'[n][v].envelope.key = recipient'
  <2>1. version'[n][v].envelope.key = local[p]
    <3>1. AppendedRows(p, n, v, flags)
      BY <1>1, AppendRows
    <3>2. version'[n][v].envelope = [key |-> local[p], bound |-> Effective(n, flags)]
      BY <3>1 DEF AppendedRows
    <3> QED
      BY <3>2
  <2>2. local[p] = recipient /\ recipient' = recipient
    BY <1>1 DEF FreshReads, AppendVersion, AppendBinding
  <2> QED
    BY <2>1, <2>2
<1>2. ASSUME NEW k \in Keys, Rekey(k)
      PROVE  version'[n][v].envelope.key = recipient'
  <2>1. recipient' = k /\ version'[n][v] = Resealed(version[n][v], k)
    BY <1>2 DEF Rekey
  <2>2. version[n][v] \in VersionRow /\ Live(version[n][v])
    <3>1. Exists(n, v) /\ version[n][v] \in VersionRow
      BY <1>2, RekeyRows DEF RekeyedRows, Inv, TypeOK, Exists
    <3>2. version[n][v].envelope # None
      BY <1>2, <3>1, RekeyRows DEF RekeyedRows
    <3> QED
      BY <3>1, <3>2 DEF Live, Inv, DestroyedErased, Exists
  <2>3. version[n][v].envelope \in Envelope
    BY <2>2 DEF Live, VersionRow
  <2> QED
    BY <2>1, <2>2, <2>3 DEF Resealed, VersionRow, Envelope
<1>3. ASSUME NEW p \in Purgers, Purge(p, n)
      PROVE  version'[n][v].envelope.key = recipient'
  BY <1>3, PurgeRows DEF PurgedRows
<1> QED
  BY <1>1, <1>2, <1>3, EnvelopeStep DEF OneKey

\* Every envelope is on the key the vault says it is on, for any number of
\* sets, purges and rekeys, unless a rekey commits between the two steps of
\* a set: reading the recipient inside the transaction would be enough.
THEOREM OneKeyUnlessOvertaken == Spec /\ [][RekeysApart]_vars => []OneKey
<1>1. Init => FreshReads /\ OneKey
  BY DEF Init, FreshReads, OneKey, Exists, Procs
<1> QED
  BY <1>1, InvInit, InvStep, FreshReadsStep, OneKeyStep, PTL DEF Spec
=============================================================================
