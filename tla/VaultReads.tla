------------------------------ MODULE VaultReads ------------------------------
(***************************************************************************)
(* The verbs that resolve and decrypt secrets, beside the ones that write  *)
(* the tables.  A reader runs its statements one by one, with no           *)
(* transaction around them, closes the vault, and only then loads the      *)
(* identity and opens what it has read:                                    *)
(*                                                                         *)
(*   get           row, newest enabled version, recipient, decrypt         *)
(*   revealNames   recipient, then row and version per name, decrypt       *)
(*   exec          entries, recipient, decrypt                             *)
(*   revealFilter  recipient, entries, decrypt                             *)
(***************************************************************************)
EXTENDS VaultStore

CONSTANT Readers

Explicit == {"get", "revealNames"}
Batch == {"exec", "revealFilter"}
Steps == {"idle", "row", "version", "entries", "recipient", "decrypt", "done"}

\* A resolved version: its row, its columns as read, and its envelope.
Entry == [name : Names, cols : Columns, number : Numbers, envelope : Envelope]

\* An outcome: what was delivered and what the metadata check refused.
Answer == [kind : {"values", "recipient mismatch", "open failed", "metadata mismatch"},
           delivered : SUBSET Entry, refused : SUBSET Entry]

VARIABLES
  step,      \* The next statement of each reader.
  verb,      \* The verb it runs, or None.
  row,       \* The name it resolves and the columns it read, or None.
  entries,   \* The versions it has collected.
  stored,    \* The recipient it read, or None.
  answer,    \* Its outcome, or None.
  witness    \* History: what the tables showed while it ran.

readVars == <<step, verb, row, entries, stored, answer>>

ReadsTypeOK ==
  /\ step \in [Readers -> Steps]
  /\ verb \in [Readers -> Explicit \cup Batch \cup {None}]
  /\ \A p \in Readers :
       /\ row[p] \in [name : Names, cols : Columns] \cup {None}
       /\ entries[p] \subseteq Entry
       /\ stored[p] \in Keys \cup {None}
       /\ answer[p] \in Answer \cup {None}

-----------------------------------------------------------------------------
(* The statements.                                                         *)

Enabled(n, v) == Exists(n, v) /\ version[n][v].state = "enabled"

\* Mutant of IsNewestEnabled: the order is ascending.
IsOldestEnabled(n, v) ==
  /\ Enabled(n, v)
  /\ \A w \in Numbers : Enabled(n, w) => w >= v

\* Mutant of IsNewestEnabled: the state is not part of the selection.
IsNewestOfAnyState(n, v) ==
  /\ Exists(n, v)
  /\ \A w \in Numbers : Exists(n, w) => w <= v

\* ORDER BY version_number DESC LIMIT 1, and the MAX of entriesQuery.
IsNewestEnabled(n, v) ==
  /\ Enabled(n, v)
  /\ \A w \in Numbers : Enabled(n, w) => w <= v

Undeleted(n) == secret[n] # None /\ secret[n].deleted = None

EntryOf(n, v, cols) ==
  [name |-> n, cols |-> cols, number |-> v, envelope |-> version[n][v].envelope]

FirstStep(v) ==
  CASE v = "get" -> "row" [] v = "exec" -> "entries" [] OTHER -> "recipient"

Start(p, v) ==
  /\ step[p] = "idle"
  /\ step' = [step EXCEPT ![p] = FirstStep(v)]
  /\ verb' = [verb EXCEPT ![p] = v]
  /\ UNCHANGED <<row, entries, stored, answer>>

\* findSecret: a missing or deleted secret is refused.
ReadRow(p, n) ==
  /\ step[p] = "row"
  /\ Undeleted(n)
  /\ row' = [row EXCEPT ![p] = [name |-> n, cols |-> secret[n].cols]]
  /\ step' = [step EXCEPT ![p] = "version"]
  /\ UNCHANGED <<verb, entries, stored, answer>>

\* The second statement of NewestEnabled does not look at the row again.
ReadVersion(p, v) ==
  /\ step[p] = "version"
  /\ IsNewestEnabled(row[p].name, v)
  /\ entries' = [entries EXCEPT ![p] = @ \cup {EntryOf(row[p].name, v, row[p].cols)}]
  /\ row' = [row EXCEPT ![p] = None]
  /\ step' = [step EXCEPT ![p] = IF verb[p] = "get" THEN "recipient" ELSE "row"]
  /\ UNCHANGED <<verb, stored, answer>>

\* The one statement of Entries.  exec wants every env-named secret, a
\* reveal those under a prefix, env-named or not.
ReadEntries(p, prefix, envNamed) ==
  /\ step[p] = "entries"
  /\ verb[p] = "exec" => prefix = Names /\ envNamed
  /\ entries' = [entries EXCEPT ![p] =
       {EntryOf(nv[1], nv[2], secret[nv[1]].cols) :
          nv \in {nv \in prefix \X Numbers :
                    /\ Undeleted(nv[1])
                    /\ IsNewestEnabled(nv[1], nv[2])
                    /\ envNamed => secret[nv[1]].cols.env # None}}]
  /\ step' = [step EXCEPT ![p] = IF verb[p] = "exec" THEN "recipient" ELSE "decrypt"]
  /\ UNCHANGED <<verb, row, stored, answer>>

ReadStored(p) ==
  /\ step[p] = "recipient"
  /\ stored' = [stored EXCEPT ![p] = recipient]
  /\ step' = [step EXCEPT ![p] =
       CASE verb[p] = "revealNames"  -> "row"
         [] verb[p] = "revealFilter" -> "entries"
         [] OTHER                    -> "decrypt"]
  /\ UNCHANGED <<verb, row, entries, answer>>

-----------------------------------------------------------------------------
(* Decrypting, after the vault is closed.                                  *)

\* Mutant of Trusted: the stored recipient is not compared.
TrustedAlways(p, k) == TRUE

\* verifyRecipient
Trusted(p, k) == stored[p] = k

\* verifyBound
Bound(e) == e.envelope.bound = e.cols

Refusal(kind, refused) == [kind |-> kind, delivered |-> {}, refused |-> refused]

\* What the decrypt paths can answer with the identity's key k.  A batch
\* skips what fails the metadata check; named secrets, in any order, stop
\* at the first failure.  An empty batch never loads the identity.
Outcomes(p, k) ==
  LET unopened == {e \in entries[p] : e.envelope.key # k}
      unbound  == {e \in entries[p] \ unopened : ~Bound(e)}
      values(skipped) == [kind |-> "values", delivered |-> entries[p] \ skipped,
                          refused |-> skipped]
  IN  IF entries[p] = {} THEN {values({})}
      ELSE IF ~Trusted(p, k) THEN {Refusal("recipient mismatch", {})}
      ELSE IF verb[p] \in Batch
        THEN {IF unopened # {} THEN Refusal("open failed", unopened) ELSE values(unbound)}
      ELSE IF unopened \cup unbound = {} THEN {values({})}
      ELSE {Refusal("open failed", {e}) : e \in unopened}
             \cup {Refusal("metadata mismatch", {e}) : e \in unbound}

\* The identity file holds the vault's key or, between the commit of a
\* rekey and the swap of the files, the one before.
Decrypt(p, k) ==
  /\ \/ step[p] = "decrypt"
     \/ step[p] = "row" /\ verb[p] = "revealNames" /\ entries[p] # {}
  /\ k \in {recipient, recipient - 1}
  /\ \E outcome \in Outcomes(p, k) : answer' = [answer EXCEPT ![p] = outcome]
  /\ step' = [step EXCEPT ![p] = "done"]
  /\ UNCHANGED <<verb, row, entries, stored>>

\* The invocation ends: done, refused, failed or killed.
Finish(p) ==
  /\ step[p] # "idle"
  /\ step' = [step EXCEPT ![p] = "idle"]
  /\ verb' = [verb EXCEPT ![p] = None]
  /\ row' = [row EXCEPT ![p] = None]
  /\ entries' = [entries EXCEPT ![p] = {}]
  /\ stored' = [stored EXCEPT ![p] = None]
  /\ answer' = [answer EXCEPT ![p] = None]

Read(p) ==
  \/ \E v \in Explicit \cup Batch : Start(p, v)
  \/ \E n \in Names : ReadRow(p, n)
  \/ \E v \in Numbers : ReadVersion(p, v)
  \/ \E prefix \in SUBSET Names, envNamed \in BOOLEAN : ReadEntries(p, prefix, envNamed)
  \/ ReadStored(p)
  \/ \E k \in Keys : Decrypt(p, k)
  \/ Finish(p)

-----------------------------------------------------------------------------
(* History: per reader, what held at some moment since it started.         *)

Current == {nv \in Names \X Numbers :
  /\ Enabled(nv[1], nv[2])
  /\ ~\E w \in (nv[2] + 1)..MaxVersion : Enabled(nv[1], w)}

EnvelopeOf(nv) == version[nv[1]][nv[2]].envelope

Shown ==
  [keys       |-> {recipient},
   undeleted  |-> {n \in Names : Undeleted(n)},
   enabled    |-> {nv \in Names \X Numbers : Enabled(nv[1], nv[2])},
   current    |-> {nv \in Current : Undeleted(nv[1])},
   mismatched |-> {nv[1] : nv \in {nv \in Current : EnvelopeOf(nv).bound # secret[nv[1]].cols}},
   orphaned   |-> {nv \in Current : EnvelopeOf(nv).key # recipient}]

Unseen == [f \in DOMAIN Shown |-> {}]

Witness ==
  witness' = [p \in Readers |->
    CASE step'[p] = "idle" -> Unseen
      [] step'[p] = "done" -> witness[p]
      [] OTHER             -> [f \in DOMAIN Shown |-> witness[p][f] \cup Shown'[f]]]

-----------------------------------------------------------------------------

ReadsInit ==
  /\ Init
  /\ step = [p \in Readers |-> "idle"]
  /\ verb = [p \in Readers |-> None]
  /\ row = [p \in Readers |-> None]
  /\ entries = [p \in Readers |-> {}]
  /\ stored = [p \in Readers |-> None]
  /\ answer = [p \in Readers |-> None]
  /\ witness = [p \in Readers |-> Unseen]

ReadsNext ==
  /\ \/ Next /\ UNCHANGED readVars
     \/ \E p \in Readers : Read(p) /\ UNCHANGED vars
  /\ Witness

ReadsSpec == ReadsInit /\ [][ReadsNext]_<<vars, readVars, witness>>

-----------------------------------------------------------------------------
(* Properties.                                                             *)

Numbered(e) == <<e.name, e.number>>

\* What a read delivers was there to be delivered while it ran: for exec
\* and a reveal filter the newest enabled version of a non-deleted secret
\* at one single moment; for named secrets an enabled version, and a
\* secret not deleted, each at some moment.  A version disabled, or a
\* secret deleted, before a read began never comes out of it.
DeliversLive ==
  \A p \in Readers : step[p] = "done" =>
    \A e \in answer[p].delivered :
      IF verb[p] \in Batch
        THEN Numbered(e) \in witness[p].current
        ELSE Numbered(e) \in witness[p].enabled /\ e.name \in witness[p].undeleted

\* exec and a reveal filter skip a secret with a metadata warning only if
\* the tables themselves showed the mismatch, never because a set, a
\* disable or a purge ran beside them.
SkipsAreReal ==
  \A p \in Readers : step[p] = "done" /\ verb[p] \in Batch /\ answer[p].kind = "values" =>
    \A e \in answer[p].refused : e.name \in witness[p].mismatched

\* A decryption that fails after the recipient check has passed has one of
\* two causes: a rekey committed between two statements of this very read,
\* or a version was sealed to a key the vault has left.  An interrupted
\* rekey or the wrong identity never shows as a failed decryption.
OpenFailureExplained ==
  \A p \in Readers : step[p] = "done" /\ answer[p].kind = "open failed" =>
    \/ \E j, k \in witness[p].keys : j # k
    \/ \E e \in answer[p].refused : Numbered(e) \in witness[p].orphaned

\* get and reveal <name> report tampered metadata only if the columns of
\* the secret and its newest enabled version differed at some moment.
TamperAlarmIsReal ==
  \A p \in Readers : step[p] = "done" /\ answer[p].kind = "metadata mismatch" =>
    \A e \in answer[p].refused : e.name \in witness[p].mismatched
=============================================================================
