--------------------------- MODULE VaultReadsProofs ---------------------------
(***************************************************************************)
(* Proofs about VaultReads, for any readers beside any writers: the tables *)
(* keep the invariant of VaultStoreProofs, and what a reader has collected *)
(* is in its witness from the moment it collected it.                      *)
(***************************************************************************)
EXTENDS VaultReads, VaultStoreProofs

-----------------------------------------------------------------------------
(* The inductive invariant.                                                *)

RowRead == [name : Names, cols : Columns]

ReaderTyping ==
  /\ step \in [Readers -> Steps]
  /\ verb \in [Readers -> Explicit \cup Batch \cup {None}]
  /\ row \in [Readers -> RowRead \cup {None}]
  /\ entries \in [Readers -> SUBSET Entry]
  /\ stored \in [Readers -> Keys \cup {None}]
  /\ answer \in [Readers -> Answer \cup {None}]

\* Where a reader is says which kind of verb it runs and what it has.
At(p) ==
  /\ step[p] = "idle" => entries[p] = {} /\ stored[p] = None
  /\ step[p] \in {"row", "version"} => verb[p] \in Explicit
  /\ step[p] = "entries" => verb[p] \in Batch
  /\ step[p] = "version" => row[p] \in RowRead

\* An entry came from what the witness shows: a batch reads the row with the
\* version, a named secret in two statements.
Seen(p, e) ==
  /\ IF verb[p] \in Batch
       THEN /\ Numbered(e) \in witness[p].current
            /\ ~Bound(e) => e.name \in witness[p].mismatched
       ELSE Numbered(e) \in witness[p].enabled /\ e.name \in witness[p].undeleted
  /\ e.envelope.key \in witness[p].keys \/ Numbered(e) \in witness[p].orphaned

Collected(p) ==
  /\ step[p] = "version" => row[p].name \in witness[p].undeleted
  /\ stored[p] # None => stored[p] \in witness[p].keys
  /\ \A e \in entries[p] : Seen(p, e)

\* An answer is about what was collected, and a failure to open about a key
\* that is not the recipient that was read.
Answered(p) ==
  step[p] = "done" =>
    /\ answer[p].delivered \subseteq entries[p]
    /\ verb[p] \in Batch /\ answer[p].kind = "values" =>
         \A e \in answer[p].refused : e \in entries[p] /\ ~Bound(e)
    /\ answer[p].kind = "open failed" =>
         /\ stored[p] # None
         /\ \E e \in answer[p].refused : e \in entries[p] /\ e.envelope.key # stored[p]

Reader(p) == At(p) /\ Collected(p) /\ Answered(p)

ReadsInv == Inv /\ ReaderTyping /\ \A p \in Readers : Reader(p)

-----------------------------------------------------------------------------
(* The witness.                                                            *)

Fields == {"keys", "undeleted", "enabled", "current", "mismatched", "orphaned"}

\* Which kinds of moments a witness collects.
LEMMA ShownFields == DOMAIN Shown = Fields
BY DEF Shown, Fields

\* A witness only grows until its reader has finished.
LEMMA WitnessGrows ==
  ASSUME Witness, NEW p \in Readers, step'[p] # "idle"
  PROVE  \A f \in Fields : witness[p][f] \subseteq witness'[p][f]
<1>1. CASE step'[p] = "done"
  BY <1>1 DEF Witness
<1>2. CASE step'[p] # "done"
  BY <1>2, ShownFields DEF Witness
<1> QED
  BY <1>1, <1>2

\* A statement of a reader leaves in its witness what the tables showed.
LEMMA WitnessShows ==
  ASSUME Witness, UNCHANGED vars, NEW p \in Readers, step'[p] \notin {"idle", "done"}
  PROVE  \A f \in Fields : Shown[f] \subseteq witness'[p][f]
<1>1. Shown' = Shown
  BY DEF vars, Shown, Undeleted, Enabled, Exists, Current, EnvelopeOf
<1>2. witness'[p] = [f \in DOMAIN Shown |-> witness[p][f] \cup Shown'[f]]
  BY DEF Witness
<1> QED
  BY <1>1, <1>2, ShownFields

\* The fields, one by one.
LEMMA FieldsGrow ==
  ASSUME Witness, NEW p \in Readers, step'[p] # "idle"
  PROVE  /\ witness[p].keys \subseteq witness'[p].keys
         /\ witness[p].undeleted \subseteq witness'[p].undeleted
         /\ witness[p].enabled \subseteq witness'[p].enabled
         /\ witness[p].current \subseteq witness'[p].current
         /\ witness[p].mismatched \subseteq witness'[p].mismatched
         /\ witness[p].orphaned \subseteq witness'[p].orphaned
BY WitnessGrows DEF Fields

\* What was seen stays seen.
LEMMA SeenKept ==
  ASSUME Witness, NEW p \in Readers, step'[p] # "idle", verb'[p] = verb[p],
         NEW e, Seen(p, e)
  PROVE  Seen(p, e)'
BY FieldsGrow DEF Seen, Bound, Numbered

\* A reader that does not move keeps what it has.
LEMMA ReaderKept ==
  ASSUME NEW p \in Readers, Reader(p), Witness,
         UNCHANGED <<step[p], verb[p], row[p], entries[p], stored[p], answer[p]>>
  PROVE  Reader(p)'
<1>1. CASE step[p] = "idle"
  BY <1>1 DEF Reader, At, Collected, Answered
<1>2. CASE step[p] # "idle"
  BY <1>2, FieldsGrow, SeenKept DEF Reader, At, Collected, Answered, Bound
<1> QED
  BY <1>1, <1>2

-----------------------------------------------------------------------------
(* The statements.                                                         *)

\* A version that is current has an envelope and the columns of a row.
LEMMA CurrentEntry ==
  ASSUME Inv, NEW n \in Names, NEW v \in Numbers, IsNewestEnabled(n, v), NEW cols \in Columns
  PROVE  /\ EntryOf(n, v, cols) \in Entry
         /\ <<n, v>> \in Current
         /\ <<n, v>> \in Shown.enabled
         /\ \/ version[n][v].envelope.key \in Shown.keys
            \/ <<n, v>> \in Shown.orphaned
         /\ Undeleted(n) => <<n, v>> \in Shown.current
         /\ version[n][v].envelope.bound # secret[n].cols => n \in Shown.mismatched
<1>1. /\ version[n][v] \in VersionRow /\ version[n][v].state = "enabled"
      /\ Enabled(n, v)
  BY DEF IsNewestEnabled, Enabled, Exists, Inv, TypeOK
<1>2. version[n][v].envelope \in Envelope
  BY <1>1 DEF Inv, DestroyedErased, VersionRow, Enabled
<1>3. EntryOf(n, v, cols) \in Entry
  BY <1>2 DEF EntryOf, Entry
<1>4. <<n, v>> \in Current
  <2>1. \A w \in (v + 1)..MaxVersion : w \in Numbers /\ ~(w <= v)
    BY StoreAssumption DEF Numbers
  <2> QED
    BY <1>1, <2>1 DEF Current, IsNewestEnabled
<1>5. EnvelopeOf(<<n, v>>) = version[n][v].envelope
  BY DEF EnvelopeOf
<1> QED
  BY <1>1, <1>3, <1>4, <1>5 DEF Shown

\* Start: nothing has been collected.
LEMMA StartReads ==
  ASSUME ReadsInv, NEW p \in Readers, NEW v \in Explicit \cup Batch, Start(p, v),
         UNCHANGED vars, Witness
  PROVE  ReaderTyping' /\ Reader(p)'
<1>1. FirstStep(v) \in {"row", "entries", "recipient"}
      /\ (FirstStep(v) = "row" => v = "get") /\ (FirstStep(v) = "entries" => v = "exec")
  BY DEF FirstStep
<1>2. ReaderTyping'
  BY <1>1 DEF ReadsInv, ReaderTyping, Start, Steps
<1>3. /\ step'[p] = FirstStep(v) /\ verb'[p] = v
      /\ entries'[p] = {} /\ stored'[p] = None
  BY DEF ReadsInv, ReaderTyping, Reader, At, Start
<1> QED
  BY <1>1, <1>2, <1>3 DEF Reader, At, Collected, Answered, Explicit, Batch

\* ReadRow: the secret is not deleted, and the witness has that.
LEMMA RowReads ==
  ASSUME ReadsInv, NEW p \in Readers, NEW n \in Names, ReadRow(p, n), UNCHANGED vars, Witness
  PROVE  ReaderTyping' /\ Reader(p)'
<1> DEFINE read == [name |-> n, cols |-> secret[n].cols]
<1>1. secret[n] \in SecretRow
  BY DEF ReadsInv, Inv, TypeOK, ReadRow, Undeleted
<1>2. read \in RowRead
  BY <1>1 DEF SecretRow, RowRead
<1>3. ReaderTyping'
  BY <1>2 DEF ReadsInv, ReaderTyping, ReadRow, Steps
<1>4. /\ step[p] = "row" /\ step'[p] = "version" /\ row'[p] = read
      /\ verb'[p] = verb[p] /\ entries'[p] = entries[p] /\ stored'[p] = stored[p]
  BY DEF ReadsInv, ReaderTyping, ReadRow
<1>5. n \in Shown.undeleted
  BY DEF ReadRow, Shown
<1>6. Shown.undeleted \subseteq witness'[p].undeleted
  BY <1>4, WitnessShows DEF Fields
<1>7. Collected(p)'
  BY <1>4, <1>5, <1>6, FieldsGrow, SeenKept DEF ReadsInv, Reader, Collected
<1> QED
  BY <1>2, <1>3, <1>4, <1>7 DEF ReadsInv, Reader, At, Answered

\* ReadVersion: the entry is an enabled version of the secret that was read.
LEMMA VersionReads ==
  ASSUME ReadsInv, NEW p \in Readers, NEW v \in Numbers, ReadVersion(p, v),
         UNCHANGED vars, Witness
  PROVE  ReaderTyping' /\ Reader(p)'
<1>0. PICK n, e : n = row[p].name /\ e = EntryOf(n, v, row[p].cols)
  OBVIOUS
<1>1. /\ step[p] = "version" /\ IsNewestEnabled(n, v) /\ verb[p] \in Explicit
      /\ row[p] \in RowRead /\ n \in Names /\ row[p].cols \in Columns
      /\ n \in witness[p].undeleted
  BY <1>0 DEF ReadVersion, ReadsInv, Reader, At, Collected, RowRead
<1>2. /\ e \in Entry
      /\ <<n, v>> \in Shown.enabled
      /\ e.envelope.key \in Shown.keys \/ <<n, v>> \in Shown.orphaned
  BY <1>0, <1>1, CurrentEntry DEF ReadsInv, EntryOf
<1>3. ReaderTyping'
  BY <1>0, <1>2 DEF ReadsInv, ReaderTyping, ReadVersion, Steps
<1>4. /\ step'[p] \in {"recipient", "row"} /\ verb'[p] = verb[p]
      /\ entries'[p] = entries[p] \cup {e} /\ stored'[p] = stored[p]
  BY <1>0 DEF ReadsInv, ReaderTyping, ReadVersion
<1>5. /\ Shown.enabled \subseteq witness'[p].enabled
      /\ Shown.keys \subseteq witness'[p].keys
      /\ Shown.orphaned \subseteq witness'[p].orphaned
  BY <1>4, WitnessShows DEF Fields
<1>6. Numbered(e) = <<n, v>> /\ e.name = n
  BY <1>0 DEF Numbered, EntryOf
<1>7. verb[p] \notin Batch
  BY <1>1 DEF Explicit, Batch
<1>8. step'[p] # "idle"
  BY <1>4
<1>9. n \in witness'[p].undeleted
  BY <1>1, <1>8, FieldsGrow
<1>10. Seen(p, e)'
  BY <1>2, <1>4, <1>5, <1>6, <1>7, <1>9 DEF Seen, Numbered
<1>11. Collected(p)'
  BY <1>4, <1>8, <1>10, FieldsGrow, SeenKept DEF ReadsInv, Reader, Collected
<1> QED
  BY <1>1, <1>3, <1>4, <1>11 DEF Reader, At, Answered

\* ReadEntries: rows and versions of one moment.
LEMMA EntriesRead ==
  ASSUME ReadsInv, NEW p \in Readers, NEW prefix \in SUBSET Names, NEW envNamed \in BOOLEAN,
         ReadEntries(p, prefix, envNamed), UNCHANGED vars, Witness
  PROVE  ReaderTyping' /\ Reader(p)'
<1>1. /\ step[p] = "entries" /\ verb[p] \in Batch /\ verb'[p] = verb[p]
      /\ step'[p] \in {"recipient", "decrypt"} /\ stored'[p] = stored[p]
  BY DEF ReadsInv, ReaderTyping, Reader, At, ReadEntries
<1>2. /\ Shown.current \subseteq witness'[p].current
      /\ Shown.mismatched \subseteq witness'[p].mismatched
      /\ Shown.keys \subseteq witness'[p].keys
      /\ Shown.orphaned \subseteq witness'[p].orphaned
  BY <1>1, WitnessShows DEF Fields
<1>3. ASSUME NEW e \in entries'[p] PROVE e \in Entry /\ Seen(p, e)'
  <2>1. PICK n \in Names, v \in Numbers :
          /\ e = EntryOf(n, v, secret[n].cols)
          /\ Undeleted(n)
          /\ IsNewestEnabled(n, v)
    BY <1>3 DEF ReadEntries, ReadsInv, ReaderTyping
  <2>2. secret[n].cols \in Columns
    BY <2>1 DEF ReadsInv, Inv, TypeOK, SecretRow, Undeleted
  <2>3. /\ e \in Entry
        /\ <<n, v>> \in Shown.current
        /\ e.envelope.key \in Shown.keys \/ <<n, v>> \in Shown.orphaned
        /\ e.envelope.bound # secret[n].cols => n \in Shown.mismatched
    BY <2>1, <2>2, CurrentEntry DEF ReadsInv, EntryOf
  <2>4. Numbered(e) = <<n, v>> /\ e.name = n /\ e.cols = secret[n].cols
    BY <2>1 DEF Numbered, EntryOf
  <2> QED
    BY <1>1, <1>2, <2>3, <2>4 DEF Seen, Numbered, Bound
<1>4. ReaderTyping'
  <2>1. entries' = [entries EXCEPT ![p] = entries'[p]]
    BY DEF ReadEntries, ReadsInv, ReaderTyping
  <2>2. entries' \in [Readers -> SUBSET Entry]
    BY <1>3, <2>1 DEF ReadsInv, ReaderTyping
  <2> QED
    BY <2>2 DEF ReadsInv, ReaderTyping, ReadEntries, Steps
<1>5. step'[p] # "idle" /\ step'[p] # "version"
  BY <1>1
<1>6. Collected(p)'
  BY <1>1, <1>3, <1>5, FieldsGrow DEF ReadsInv, Reader, Collected
<1> QED
  BY <1>1, <1>4, <1>6 DEF Reader, At, Answered

\* ReadStored: the witness has the recipient.
LEMMA StoredReads ==
  ASSUME ReadsInv, NEW p \in Readers, ReadStored(p), UNCHANGED vars, Witness
  PROVE  ReaderTyping' /\ Reader(p)'
<1>1. recipient \in Keys
  BY DEF ReadsInv, Inv, TypeOK
<1>2. verb[p] \in Explicit \cup Batch \cup {None}
  BY DEF ReadsInv, ReaderTyping
<1>3. /\ step[p] = "recipient" /\ step'[p] \in {"row", "entries", "decrypt"}
      /\ step'[p] = "row" => verb[p] \in Explicit
      /\ step'[p] = "entries" => verb[p] \in Batch
      /\ verb'[p] = verb[p] /\ entries'[p] = entries[p] /\ stored'[p] = recipient
  BY <1>2 DEF ReadsInv, ReaderTyping, ReadStored, Explicit, Batch
<1>4. ReaderTyping'
  BY <1>1, <1>3 DEF ReadsInv, ReaderTyping, ReadStored, Steps
<1>5. recipient \in Shown.keys /\ Shown.keys \subseteq witness'[p].keys
  BY <1>3, WitnessShows DEF Fields, Shown
<1>6. step'[p] # "idle" /\ step'[p] # "version"
  BY <1>3
<1>7. Collected(p)'
  BY <1>3, <1>5, <1>6, SeenKept DEF ReadsInv, Reader, Collected
<1> QED
  BY <1>3, <1>4, <1>7 DEF Reader, At, Answered

\* Finish: back to where it began.
LEMMA FinishReads ==
  ASSUME ReadsInv, NEW p \in Readers, Finish(p), Witness
  PROVE  ReaderTyping' /\ Reader(p)'
<1>1. ReaderTyping'
  BY DEF ReadsInv, ReaderTyping, Finish, Steps
<1>2. step'[p] = "idle" /\ entries'[p] = {} /\ stored'[p] = None
  BY DEF ReadsInv, ReaderTyping, Finish
<1> QED
  BY <1>1, <1>2 DEF Reader, At, Collected, Answered

-----------------------------------------------------------------------------
(* Decrypting.                                                             *)

\* What an outcome is about: versions that were collected, refused because
\* they are sealed to another key than the one the reader found in the
\* vault, or because their columns differ.
LEMMA OutcomeIsFair ==
  ASSUME ReadsInv, NEW p \in Readers, NEW k \in Keys, NEW outcome \in Outcomes(p, k)
  PROVE  /\ outcome \in Answer
         /\ outcome.delivered \subseteq entries[p]
         /\ verb[p] \in Batch /\ outcome.kind = "values" =>
              \A e \in outcome.refused : e \in entries[p] /\ ~Bound(e)
         /\ outcome.kind = "open failed" =>
              /\ stored[p] = k
              /\ \E e \in outcome.refused : e \in entries[p] /\ e.envelope.key # k
<1>1. PICK unopened, unbound :
        /\ unopened = {e \in entries[p] : e.envelope.key # k}
        /\ unbound = {e \in entries[p] \ unopened : ~Bound(e)}
  OBVIOUS
<1>2. \/ \E skipped \in {{}, unbound} :
           outcome = [kind |-> "values", delivered |-> entries[p] \ skipped,
                      refused |-> skipped]
      \/ outcome = Refusal("recipient mismatch", {})
      \/ \E refused \in SUBSET unopened :
           /\ Trusted(p, k) /\ refused # {}
           /\ outcome = Refusal("open failed", refused)
      \/ \E e \in unbound : outcome = Refusal("metadata mismatch", {e})
  BY <1>1 DEF Outcomes
<1>3. /\ entries[p] \subseteq Entry /\ unopened \subseteq Entry /\ unbound \subseteq Entry
      /\ \A e \in unopened : e \in entries[p] /\ e.envelope.key # k
      /\ \A e \in unbound : e \in entries[p] /\ ~Bound(e)
  BY <1>1 DEF ReadsInv, ReaderTyping
<1>4. ASSUME NEW skipped \in {{}, unbound},
             outcome = [kind |-> "values", delivered |-> entries[p] \ skipped,
                        refused |-> skipped]
      PROVE  /\ outcome \in Answer /\ outcome.kind = "values"
             /\ outcome.delivered \subseteq entries[p]
             /\ \A e \in outcome.refused : e \in entries[p] /\ ~Bound(e)
  BY <1>3, <1>4 DEF Answer
<1>5. ASSUME NEW kind \in {"recipient mismatch", "open failed", "metadata mismatch"},
             NEW refused \in SUBSET Entry, outcome = Refusal(kind, refused)
      PROVE  /\ outcome \in Answer /\ outcome.kind = kind
             /\ outcome.delivered = {} /\ outcome.refused = refused
  BY <1>5 DEF Answer, Refusal
<1>6. CASE outcome = Refusal("recipient mismatch", {})
  <2>1. {} \in SUBSET Entry
    OBVIOUS
  <2>2. /\ outcome \in Answer /\ outcome.kind = "recipient mismatch"
        /\ outcome.delivered = {}
    BY <1>5, <1>6, <2>1
  <2> QED
    BY <2>2
<1>7. ASSUME NEW refused \in SUBSET unopened, Trusted(p, k), refused # {},
             outcome = Refusal("open failed", refused)
      PROVE  /\ outcome \in Answer /\ outcome.kind = "open failed"
             /\ outcome.delivered = {} /\ stored[p] = k
             /\ \E e \in outcome.refused : e \in entries[p] /\ e.envelope.key # k
  <2>1. refused \in SUBSET Entry
    BY <1>3
  <2>2. outcome \in Answer /\ outcome.kind = "open failed"
        /\ outcome.delivered = {} /\ outcome.refused = refused
    BY <1>5, <1>7, <2>1
  <2> QED
    BY <1>3, <1>7, <2>2 DEF Trusted
<1>8. ASSUME NEW e \in unbound, outcome = Refusal("metadata mismatch", {e})
      PROVE  /\ outcome \in Answer /\ outcome.kind = "metadata mismatch"
             /\ outcome.delivered = {}
  <2>1. {e} \in SUBSET Entry
    BY <1>3
  <2> QED
    BY <1>5, <1>8, <2>1
<1> QED
  BY <1>2, <1>4, <1>6, <1>7, <1>8

\* Decrypt: the answer is one of these outcomes.
LEMMA DecryptReads ==
  ASSUME ReadsInv, NEW p \in Readers, NEW k \in Keys, Decrypt(p, k), Witness
  PROVE  ReaderTyping' /\ Reader(p)'
<1>1. PICK outcome \in Outcomes(p, k) : answer' = [answer EXCEPT ![p] = outcome]
  BY DEF Decrypt
<1>2. ReaderTyping'
  BY <1>1, OutcomeIsFair DEF ReadsInv, ReaderTyping, Decrypt, Steps
<1>3. /\ step'[p] = "done" /\ answer'[p] = outcome /\ verb'[p] = verb[p]
      /\ entries'[p] = entries[p] /\ stored'[p] = stored[p]
  BY <1>1 DEF ReadsInv, ReaderTyping, Decrypt
<1>4. step'[p] # "idle" /\ step'[p] # "version"
  BY <1>3
<1>5. Collected(p)'
  BY <1>3, <1>4, FieldsGrow, SeenKept DEF ReadsInv, Reader, Collected
<1>6. Answered(p)'
  <2>1. k # None
    BY StoreAssumption DEF Keys
  <2>2. /\ outcome.delivered \subseteq entries[p]
        /\ verb[p] \in Batch /\ outcome.kind = "values" =>
             \A e \in outcome.refused : e \in entries[p] /\ ~Bound(e)
        /\ outcome.kind = "open failed" =>
             /\ stored[p] = k
             /\ \E e \in outcome.refused : e \in entries[p] /\ e.envelope.key # k
    BY OutcomeIsFair
  <2> QED
    BY <1>3, <2>1, <2>2 DEF Answered, Bound
<1> QED
  BY <1>2, <1>3, <1>5, <1>6 DEF Reader, At

-----------------------------------------------------------------------------
(* The invariant.                                                          *)

\* Idle readers have collected nothing.
LEMMA ReadsStart ==
  ASSUME ReadsInit
  PROVE  ReadsInv
<1>1. Inv
  BY InvInit DEF ReadsInit
<1>2. ReaderTyping
  BY DEF ReadsInit, ReaderTyping, Steps
<1>3. \A p \in Readers : Reader(p)
  BY DEF ReadsInit, Reader, At, Collected, Answered
<1> QED
  BY <1>1, <1>2, <1>3 DEF ReadsInv

\* Writers change the tables, a reader its own variables.
LEMMA ReadsStep ==
  ASSUME ReadsInv, [ReadsNext]_<<vars, readVars, witness>>
  PROVE  ReadsInv'
<1>1. Inv'
  BY InvStep DEF ReadsInv, ReadsNext
<1>2. CASE Next /\ UNCHANGED readVars /\ Witness
  <2>1. ReaderTyping'
    BY <1>2 DEF ReadsInv, ReaderTyping, readVars
  <2>2. \A p \in Readers : Reader(p)'
    BY <1>2, ReaderKept DEF ReadsInv, readVars
  <2> QED
    BY <1>1, <2>1, <2>2 DEF ReadsInv
<1>3. ASSUME NEW p \in Readers, Read(p), UNCHANGED vars, Witness PROVE ReadsInv'
  <2>1. ReaderTyping' /\ Reader(p)'
    BY <1>3, StartReads, RowReads, VersionReads, EntriesRead, StoredReads, DecryptReads,
       FinishReads DEF Read
  <2>2. \A q \in Readers \ {p} :
          UNCHANGED <<step[q], verb[q], row[q], entries[q], stored[q], answer[q]>>
    BY <1>3 DEF ReadsInv, ReaderTyping, Read, Start, ReadRow, ReadVersion, ReadEntries,
                ReadStored, Decrypt, Finish
  <2>3. \A q \in Readers \ {p} : Reader(q)'
    BY <1>3, <2>2, ReaderKept DEF ReadsInv
  <2> QED
    BY <1>1, <2>1, <2>3 DEF ReadsInv
<1>4. CASE UNCHANGED <<vars, readVars, witness>>
  <2>1. ReaderTyping'
    BY <1>4 DEF ReadsInv, ReaderTyping, readVars
  <2>2. ASSUME NEW p \in Readers PROVE Reader(p)'
    BY <1>4 DEF ReadsInv, Reader, At, Collected, Answered, Seen, Bound, Numbered, readVars
  <2> QED
    BY <1>1, <2>1, <2>2 DEF ReadsInv
<1> QED
  BY <1>2, <1>3, <1>4 DEF ReadsNext

-----------------------------------------------------------------------------
(* The theorems.                                                           *)

\* Every reader's row, entries, recipient and answer keep their types:
\* nothing is resolved that has no envelope.
THEOREM ReadsTypeCorrect == ReadsSpec => []ReadsTypeOK
<1>1. ReadsInv => ReadsTypeOK
  BY DEF ReadsInv, ReaderTyping, ReadsTypeOK, RowRead
<1> QED
  BY <1>1, ReadsStart, ReadsStep, PTL DEF ReadsSpec

\* What a read delivers was live while it ran, for any number of secrets,
\* versions, readers and writers.
THEOREM LiveDelivered == ReadsSpec => []DeliversLive
<1>1. ReadsInv => DeliversLive
  BY DEF ReadsInv, Reader, Collected, Answered, Seen, DeliversLive
<1> QED
  BY <1>1, ReadsStart, ReadsStep, PTL DEF ReadsSpec

\* exec and a reveal filter skip a secret only for a mismatch of the tables.
THEOREM SkipsHaveCause == ReadsSpec => []SkipsAreReal
<1>1. ReadsInv => SkipsAreReal
  BY DEF ReadsInv, Reader, Collected, Answered, Seen, SkipsAreReal
<1> QED
  BY <1>1, ReadsStart, ReadsStep, PTL DEF ReadsSpec

\* A decryption that fails after the recipient check has passed met a rekey
\* while it read, or a version sealed to a key the vault has left.
THEOREM OpenFailuresHaveCause == ReadsSpec => []OpenFailureExplained
<1>1. ReadsInv => OpenFailureExplained
  <2> SUFFICES ASSUME ReadsInv, NEW p \in Readers, step[p] = "done",
                      answer[p].kind = "open failed"
               PROVE  \/ \E j, k \in witness[p].keys : j # k
                      \/ \E e \in answer[p].refused : Numbered(e) \in witness[p].orphaned
    BY DEF OpenFailureExplained
  <2>1. PICK e \in answer[p].refused : e \in entries[p] /\ e.envelope.key # stored[p]
    BY DEF ReadsInv, Reader, Answered
  <2>2. stored[p] \in witness[p].keys
    BY DEF ReadsInv, Reader, Answered, Collected
  <2>3. e.envelope.key \in witness[p].keys \/ Numbered(e) \in witness[p].orphaned
    BY <2>1 DEF ReadsInv, Reader, Collected, Seen
  <2> QED
    BY <2>1, <2>2, <2>3
<1> QED
  BY <1>1, ReadsStart, ReadsStep, PTL DEF ReadsSpec

-----------------------------------------------------------------------------
(* The metadata check of named secrets.                                    *)

\* While a reader is between its row and its version, the columns it has
\* read are those of the secret, as long as there is one.  A transaction
\* around the two statements would give that, and so would one statement.
RowHolds ==
  \A p \in Readers :
    step[p] = "version" /\ step'[p] = "version" /\ secret'[row[p].name] # None
      => secret'[row[p].name].cols = row[p].cols

\* What a reader has of a row is still right, what it collected with other
\* columns is in its witness, and its alarm is about what it collected.
Undisturbed(p) ==
  /\ step[p] = "version" /\ secret[row[p].name] # None
       => secret[row[p].name].cols = row[p].cols
  /\ \A e \in entries[p] : ~Bound(e) => e.name \in witness[p].mismatched
  /\ step[p] = "done" /\ answer[p].kind = "metadata mismatch" =>
       \A e \in answer[p].refused : e \in entries[p] /\ ~Bound(e)

\* A metadata alarm is about a version that was collected.
LEMMA AlarmIsFair ==
  ASSUME NEW p \in Readers, NEW k \in Keys, NEW outcome \in Outcomes(p, k),
         outcome.kind = "metadata mismatch"
  PROVE  \A e \in outcome.refused : e \in entries[p] /\ ~Bound(e)
<1>1. PICK unopened, unbound :
        /\ unopened = {e \in entries[p] : e.envelope.key # k}
        /\ unbound = {e \in entries[p] \ unopened : ~Bound(e)}
  OBVIOUS
<1>2. \/ \E skipped \in {{}, unbound} :
           outcome = [kind |-> "values", delivered |-> entries[p] \ skipped,
                      refused |-> skipped]
      \/ outcome = Refusal("recipient mismatch", {})
      \/ \E refused \in SUBSET unopened : outcome = Refusal("open failed", refused)
      \/ \E e \in unbound : outcome = Refusal("metadata mismatch", {e})
  BY <1>1 DEF Outcomes
<1>3. ASSUME NEW skipped \in {{}, unbound},
             outcome = [kind |-> "values", delivered |-> entries[p] \ skipped,
                        refused |-> skipped]
      PROVE  FALSE
  <2>1. outcome.kind = "values"
    BY <1>3
  <2> QED
    BY <2>1
<1>4. ASSUME NEW kind, NEW refused, outcome = Refusal(kind, refused)
      PROVE  kind = "metadata mismatch"
  <2>1. outcome.kind = kind
    BY <1>4 DEF Refusal
  <2> QED
    BY <2>1
<1>5. \E e \in unbound : outcome = Refusal("metadata mismatch", {e})
  BY <1>2, <1>3, <1>4, "recipient mismatch" # "metadata mismatch",
     "open failed" # "metadata mismatch"
<1>6. PICK e \in unbound : outcome = Refusal("metadata mismatch", {e})
  BY <1>5
<1> QED
  BY <1>1, <1>6 DEF Refusal

\* A writer that leaves the row alone leaves the reader's columns right.
LEMMA UndisturbedKept ==
  ASSUME NEW p \in Readers, Reader(p), Undisturbed(p), RowHolds, Witness,
         UNCHANGED <<step[p], verb[p], row[p], entries[p], stored[p], answer[p]>>
  PROVE  Undisturbed(p)'
<1>1. step'[p] = "version" /\ secret'[row'[p].name] # None
        => secret'[row'[p].name].cols = row'[p].cols
  BY DEF RowHolds
<1>2. CASE step[p] = "idle"
  BY <1>1, <1>2 DEF Reader, At, Undisturbed
<1>3. CASE step[p] # "idle"
  BY <1>1, <1>3, FieldsGrow DEF Undisturbed, Bound
<1> QED
  BY <1>2, <1>3

\* A version that is newest and carries other columns than the row that was
\* read carries other columns than the row that is there.
LEMMA VersionUndisturbed ==
  ASSUME ReadsInv, NEW p \in Readers, NEW v \in Numbers, Undisturbed(p), ReadVersion(p, v),
         UNCHANGED vars, Witness
  PROVE  Undisturbed(p)'
<1>0. PICK n, e : n = row[p].name /\ e = EntryOf(n, v, row[p].cols)
  OBVIOUS
<1>1. /\ step[p] = "version" /\ IsNewestEnabled(n, v) /\ n \in Names
  BY <1>0 DEF ReadVersion, ReadsInv, Reader, At, RowRead
<1>2. secret[n] # None
  BY <1>1 DEF ReadsInv, Inv, Contiguous, IsNewestEnabled, Enabled
<1>3. secret[n].cols = row[p].cols
  BY <1>0, <1>1, <1>2 DEF Undisturbed
<1>4. row[p].cols \in Columns
  BY <1>1 DEF ReadsInv, Reader, At, RowRead
<1>5. ~Bound(e) => n \in Shown.mismatched
  <2>1. version[n][v].envelope.bound # secret[n].cols => n \in Shown.mismatched
    BY <1>1, <1>4, CurrentEntry DEF ReadsInv
  <2>2. e.envelope = version[n][v].envelope /\ e.cols = row[p].cols
    BY <1>0 DEF EntryOf
  <2> QED
    BY <1>3, <2>1, <2>2 DEF Bound
<1>6. /\ step'[p] \in {"recipient", "row"} /\ entries'[p] = entries[p] \cup {e}
  BY <1>0 DEF ReadsInv, ReaderTyping, ReadVersion
<1>7. Shown.mismatched \subseteq witness'[p].mismatched
  BY <1>6, WitnessShows DEF Fields
<1>8. step'[p] # "idle"
  BY <1>6
<1>9. witness[p].mismatched \subseteq witness'[p].mismatched
  BY <1>8, FieldsGrow
<1>10. e.name = n
  BY <1>0 DEF EntryOf
<1>11. ASSUME NEW d \in entries'[p], ~Bound(d) PROVE d.name \in witness'[p].mismatched
  <2>1. CASE d = e
    BY <1>5, <1>7, <1>10, <1>11, <2>1
  <2>2. CASE d \in entries[p]
    BY <1>9, <1>11, <2>2 DEF Undisturbed
  <2> QED
    BY <1>6, <2>1, <2>2
<1> QED
  BY <1>6, <1>11 DEF Undisturbed, Bound

\* A reader's own statements.
LEMMA ReadUndisturbed ==
  ASSUME ReadsInv, NEW p \in Readers, Undisturbed(p), Read(p), UNCHANGED vars, Witness
  PROVE  Undisturbed(p)'
<1>1. ASSUME NEW v \in Explicit \cup Batch, Start(p, v) PROVE Undisturbed(p)'
  <2>1. FirstStep(v) \in {"row", "entries", "recipient"}
    BY DEF FirstStep
  <2>2. step'[p] = FirstStep(v) /\ entries'[p] = {}
    BY <1>1 DEF ReadsInv, ReaderTyping, Reader, At, Start
  <2> QED
    BY <2>1, <2>2 DEF Undisturbed
<1>2. ASSUME NEW n \in Names, ReadRow(p, n) PROVE Undisturbed(p)'
  <2>1. /\ step'[p] = "version" /\ entries'[p] = entries[p]
        /\ row'[p] = [name |-> n, cols |-> secret[n].cols] /\ secret' = secret
    BY <1>2 DEF ReadsInv, ReaderTyping, ReadRow, vars
  <2>2. step'[p] # "idle"
    BY <2>1
  <2>3. witness[p].mismatched \subseteq witness'[p].mismatched
    BY <2>2, FieldsGrow
  <2>4. row'[p].name = n /\ row'[p].cols = secret[n].cols
    BY <2>1
  <2> QED
    BY <2>1, <2>3, <2>4 DEF Undisturbed, Bound
<1>3. ASSUME NEW v \in Numbers, ReadVersion(p, v) PROVE Undisturbed(p)'
  BY <1>3, VersionUndisturbed
<1>4. ASSUME NEW prefix \in SUBSET Names, NEW envNamed \in BOOLEAN,
             ReadEntries(p, prefix, envNamed)
      PROVE  Undisturbed(p)'
  <2>1. Reader(p)'
    BY <1>4, EntriesRead
  <2>2. verb'[p] \in Batch /\ step'[p] \in {"recipient", "decrypt"}
    BY <1>4 DEF ReadsInv, ReaderTyping, Reader, At, ReadEntries
  <2> QED
    BY <2>1, <2>2 DEF Undisturbed, Reader, Collected, Seen
<1>5. ASSUME ReadStored(p) PROVE Undisturbed(p)'
  <2>1. verb[p] \in Explicit \cup Batch \cup {None}
    BY DEF ReadsInv, ReaderTyping
  <2>2. step'[p] \in {"row", "entries", "decrypt"} /\ entries'[p] = entries[p]
    BY <1>5, <2>1 DEF ReadsInv, ReaderTyping, ReadStored
  <2>3. step'[p] # "idle"
    BY <2>2
  <2>4. witness[p].mismatched \subseteq witness'[p].mismatched
    BY <2>3, FieldsGrow
  <2> QED
    BY <2>2, <2>4 DEF Undisturbed, Bound
<1>6. ASSUME NEW k \in Keys, Decrypt(p, k) PROVE Undisturbed(p)'
  <2>1. PICK outcome \in Outcomes(p, k) : answer' = [answer EXCEPT ![p] = outcome]
    BY <1>6 DEF Decrypt
  <2>2. step'[p] = "done" /\ answer'[p] = outcome /\ entries'[p] = entries[p]
    BY <1>6, <2>1 DEF ReadsInv, ReaderTyping, Decrypt
  <2>3. step'[p] # "idle"
    BY <2>2
  <2>4. witness[p].mismatched \subseteq witness'[p].mismatched
    BY <2>3, FieldsGrow
  <2> QED
    BY <2>2, <2>4, AlarmIsFair DEF Undisturbed, Bound
<1>7. ASSUME Finish(p) PROVE Undisturbed(p)'
  <2>1. step'[p] = "idle" /\ entries'[p] = {}
    BY <1>7 DEF ReadsInv, ReaderTyping, Finish
  <2> QED
    BY <2>1 DEF Undisturbed
<1> QED
  BY <1>1, <1>2, <1>3, <1>4, <1>5, <1>6, <1>7 DEF Read

\* get and reveal <name> cry tampering only over a mismatch of the tables, if
\* nobody gives the secret other columns between the two statements that
\* resolve it.  Run false_alarm shows that the hypothesis is needed.
THEOREM AlarmsHaveCause ==
  ReadsSpec /\ [][RowHolds]_<<vars, readVars, witness>> => []TamperAlarmIsReal
<1> DEFINE All == \A p \in Readers : Undisturbed(p)
<1>1. ReadsInit => All
  BY DEF ReadsInit, Undisturbed
<1>2. ASSUME ReadsInv, All, [ReadsNext]_<<vars, readVars, witness>>,
             [RowHolds]_<<vars, readVars, witness>>
      PROVE  All'
  <2>1. CASE UNCHANGED <<vars, readVars, witness>>
    BY <1>2, <2>1 DEF Undisturbed, Bound, vars, readVars
  <2>2. CASE Next /\ UNCHANGED readVars /\ Witness /\ RowHolds
    BY <1>2, <2>2, UndisturbedKept DEF ReadsInv, readVars
  <2>3. ASSUME NEW p \in Readers, Read(p), UNCHANGED vars, Witness, RowHolds PROVE All'
    <3>1. Undisturbed(p)'
      BY <1>2, <2>3, ReadUndisturbed
    <3>2. \A q \in Readers \ {p} :
            UNCHANGED <<step[q], verb[q], row[q], entries[q], stored[q], answer[q]>>
      BY <1>2, <2>3 DEF ReadsInv, ReaderTyping, Read, Start, ReadRow, ReadVersion,
                        ReadEntries, ReadStored, Decrypt, Finish
    <3>3. \A q \in Readers \ {p} : Undisturbed(q)'
      BY <1>2, <2>3, <3>2, UndisturbedKept DEF ReadsInv
    <3> QED
      BY <3>1, <3>3
  <2> QED
    BY <1>2, <2>1, <2>2, <2>3 DEF ReadsNext
<1>3. All => TamperAlarmIsReal
  BY DEF Undisturbed, TamperAlarmIsReal
<1> QED
  BY <1>1, <1>2, <1>3, ReadsStart, ReadsStep, PTL DEF ReadsSpec
=============================================================================
