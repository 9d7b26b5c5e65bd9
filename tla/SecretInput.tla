----------------------------- MODULE SecretInput -----------------------------
(***************************************************************************)
(* How the secrets of one invocation come in, what is kept of them while   *)
(* it runs, and what is left of them when it returns:                      *)
(*                                                                         *)
(*   load     passphrase, identity, envelope   (get, exec, reveal)         *)
(*   migrate  passphrase, identity, legacy envelope                        *)
(*   passwd   passphrase, identity, new passphrase, confirmation           *)
(*   init     new passphrase, confirmation                                 *)
(*   set      value                                                        *)
(*                                                                         *)
(* A passphrase or value comes from a file or pipe, or from a prompt; a    *)
(* new passphrase is confirmed only at a prompt.                           *)
(***************************************************************************)
EXTENDS EnvelopeFrame, NoEchoPrompt

CONSTANTS
  Files,      \* Contents of passphrase files and pipes.
  Identity,   \* The decrypted identity file.
  Blobs,      \* What may be in the envelope a verb opens.
  Row         \* The address of the row it came from.

ASSUME InputAssumption ==
  /\ Files \subseteq Seq(Items) /\ Identity \in Seq(Items)
  /\ Line \subseteq Items
  /\ Blobs \subseteq Sealed
  /\ Row \in Addresses

Verbs == {"load", "migrate", "passwd", "init", "set"}
Tasks == {"passphrase", "identity", "new", "confirm", "payload", "value"}
Typed == {"passphrase", "new", "value"}   \* Tasks with a file or a prompt.

VARIABLES
  verb,
  task,      \* What is read next or now; "done" and "failed" at the end.
  current,   \* The passphrase of the identity, until it is wiped.
  fresh,     \* A new passphrase, until it is wiped.
  blob,      \* What is in the envelope being opened, or None.
  answer     \* What Open or OpenLegacy returned, or None.

verbVars == <<verb, task, current, fresh, blob, answer>>
promptVars == <<terminal, signals>>
inputVars == <<buffers, promptVars, verbVars>>

InputTypeOK ==
  /\ BufferTypeOK
  /\ PromptTypeOK
  /\ verb \in Verbs
  /\ task \in Tasks \cup {"done", "failed"}
  /\ IsBuffer(current)
  /\ IsBuffer(fresh)
  /\ blob \in Sealed \cup {None}
  /\ answer = None \/ answer = Refused \/ answer.value \in Values

First(v) ==
  CASE v = "init" -> "new" [] v = "set" -> "value" [] OTHER -> "passphrase"

-----------------------------------------------------------------------------
(* Starting a read.                                                        *)

Idle(t) == task = t /\ loop = "none" /\ at = "out"

\* passphraseFromFile, readSecretValue
ReadFile(t, content) ==
  /\ Idle(t) /\ t \in Typed
  /\ Begin("all", content)
  /\ UNCHANGED <<promptVars, verbVars>>

\* promptOnce
Prompt(t) ==
  /\ Idle(t) /\ t \in Typed \cup {"confirm"}
  /\ StartPrompt
  /\ UNCHANGED <<buffers, verbVars>>

\* decrypt in identity.go
DecryptIdentity ==
  /\ Idle("identity")
  /\ Begin("all", Identity)
  /\ UNCHANGED <<promptVars, verbVars>>

DecryptBlob(s) ==
  /\ Idle("payload")
  /\ Begin("all", Payload(s))
  /\ blob' = s
  /\ UNCHANGED <<promptVars, verb, task, current, fresh, answer>>

\* An unsafe mode, stdin that is no terminal, a wrong passphrase or key.
CannotRead ==
  /\ \E t \in Tasks : Idle(t)
  /\ loop' = "error"
  /\ UNCHANGED <<origin, buf, one, heap, promptVars, verbVars>>

Reading ==
  /\ at = "out"
  /\ ReadAllWiping
  /\ UNCHANGED <<promptVars, verbVars>>

-----------------------------------------------------------------------------
(* What the callers do with what a loop returned.                          *)

Back == at \in {"out", "back"}

Has(t) == task = t /\ loop = "content" /\ Back

\* From files: all newlines at the end of a passphrase, one of a value.
TrimsTo(n) ==
  /\ n \in 0..buf.len
  /\ at = "back" => n = buf.len
  /\ \A i \in (n + 1)..buf.len : buf.cell[i] = Newline
  /\ at = "out" /\ n > 0 /\ task # "value" => buf.cell[n] # Newline
  /\ at = "out" /\ task = "value" =>
       IF buf.len > 0 /\ buf.cell[buf.len] = Newline THEN n = buf.len - 1
                                                    ELSE n = buf.len

Trimmed(n) == [buf EXCEPT !.len = n]

\* The next read of the verb.
Proceed(t) ==
  /\ task' = t
  /\ loop' = "none"
  /\ origin' = <<>>
  /\ buf' = NoBuffer
  /\ at' = "out"
  /\ UNCHANGED <<one, tty, prompt, saved, signals>>

\* The deferred zeroBytes of what the verb keeps.
Deferred(b) == Zeroed(b)

\* The verb returns and lets go of b and of the passphrases it keeps.
Return(outcome, b) ==
  /\ Proceed(outcome)
  /\ heap' = heap \cup Remains(b) \cup Remains(Deferred(current)) \cup Remains(Deferred(fresh))
  /\ current' = NoBuffer
  /\ fresh' = NoBuffer

ReadFailed ==
  /\ loop = "error" /\ Back
  /\ Return("failed", NoBuffer)
  /\ UNCHANGED <<verb, blob, answer>>

\* "must not be empty"
Empty ==
  /\ \E t \in Typed \cup {"confirm"} : Has(t)
  /\ TrimsTo(0)
  /\ Return("failed", buf)
  /\ UNCHANGED <<verb, blob, answer>>

KeepPassphrase(n) ==
  /\ Has("passphrase")
  /\ n > 0 /\ TrimsTo(n)
  /\ current' = Trimmed(n)
  /\ Proceed("identity")
  /\ UNCHANGED <<heap, verb, fresh, blob, answer>>

\* NewBufferFromBytes moves the key into locked memory and wipes the
\* buffer.  loadIdentity returns, and zeroes the passphrase; passwd keeps it.
LoadKey ==
  /\ Has("identity")
  /\ IF verb = "passwd"
       THEN /\ Proceed("new")
            /\ Discard(Zeroed(buf))
            /\ UNCHANGED current
       ELSE /\ Proceed("payload")
            /\ heap' = heap \cup Remains(Zeroed(buf)) \cup Remains(Deferred(current))
            /\ current' = NoBuffer
  /\ UNCHANGED <<verb, fresh, blob, answer>>

\* ErrMalformed
MalformedKey ==
  /\ Has("identity")
  /\ Return("failed", Zeroed(buf))
  /\ UNCHANGED <<verb, blob, answer>>

ConfirmNew ==
  /\ Has("new") /\ at = "back" /\ buf.len > 0
  /\ fresh' = buf
  /\ Proceed("confirm")
  /\ UNCHANGED <<heap, verb, current, blob, answer>>

\* From a file it is not confirmed: the verb uses it, and returns.
TakeNew(n) ==
  /\ Has("new") /\ at = "out"
  /\ n > 0 /\ TrimsTo(n)
  /\ Return("done", Deferred(Trimmed(n)))
  /\ UNCHANGED <<verb, blob, answer>>

\* bytes.Equal; both are zeroed either way.
Compare ==
  /\ Has("confirm") /\ buf.len > 0
  /\ Return(IF Content(buf) = Content(fresh) THEN "done" ELSE "failed", Deferred(buf))
  /\ UNCHANGED <<verb, blob, answer>>

StoreValue(n) ==
  /\ Has("value")
  /\ n > 0 /\ TrimsTo(n)
  /\ Return("done", Deferred(Trimmed(n)))
  /\ UNCHANGED <<verb, blob, answer>>

Opened(p) == IF verb = "migrate" THEN OpenLegacy(Row, p) ELSE Open(Row, p)

\* The payload is cleared whether or not it parses; the value is a copy.
OpenEnvelope ==
  /\ Has("payload")
  /\ answer' = Opened(Content(buf))
  /\ Return(IF answer' = Refused THEN "failed" ELSE "done", Zeroed(buf))
  /\ UNCHANGED <<verb, blob>>

-----------------------------------------------------------------------------

InputInit ==
  /\ BufferInit
  /\ PromptInit
  /\ verb \in Verbs
  /\ task = First(verb)
  /\ current = NoBuffer
  /\ fresh = NoBuffer
  /\ blob = None
  /\ answer = None

Calling ==
  \/ \E t \in Tasks : (\E content \in Files : ReadFile(t, content)) \/ Prompt(t)
  \/ DecryptIdentity
  \/ \E s \in Blobs : DecryptBlob(s)
  \/ CannotRead
  \/ Reading

Handling ==
  \/ ReadFailed
  \/ Empty
  \/ \E n \in 0..buf.len : KeepPassphrase(n) \/ TakeNew(n) \/ StoreValue(n)
  \/ LoadKey
  \/ MalformedKey
  \/ ConfirmNew
  \/ Compare
  \/ OpenEnvelope

InputNext ==
  /\ alive
  /\ \/ Calling
     \/ Handling
     \/ (Prompting \/ Signalling) /\ UNCHANGED verbVars

InputSpec == InputInit /\ [][InputNext]_inputVars

-----------------------------------------------------------------------------
(* Properties.                                                             *)

\* Whatever path an invocation takes, growing, failing, refusing, returning,
\* no buffer is let go with a secret in it or with a reader's scratch, and
\* the byte the line loop reads into does not outlive the loop.
NothingLeft ==
  /\ heap = {}
  /\ loop # "line" => one = Zero
  /\ task \in {"done", "failed"} => Remains(buf) \cup Remains(current) \cup Remains(fresh) = {}

\* c is what comes before the first newline of s, or all of s.
IsLineOf(c, s) ==
  /\ Len(c) <= Len(s)
  /\ \A i \in 1..Len(c) : c[i] = s[i] /\ c[i] # Newline
  /\ Len(c) < Len(s) => s[Len(c) + 1] = Newline

\* What a loop returns as content is everything its source had, or a line
\* of the terminal to its end: a source that breaks off, a reader whose
\* error wraps io.EOF or a capacity past the width of an int is an error,
\* never a shorter secret.
ReadsWhole ==
  loop = "content" =>
    IF at = "out" THEN Content(buf) = origin ELSE IsLineOf(Content(buf), origin)

\* An envelope opens as what was sealed, value and bound metadata, if it was
\* sealed for this row and in the format asked for, and otherwise not at
\* all, also if its value holds blank lines, tags, addresses or prefixes.
OpenInvertsSeal ==
  answer # None =>
    IF blob.address = Row /\ blob.legacy = (verb = "migrate")
      THEN answer = [value |-> blob.value,
                     bound |-> IF blob.legacy THEN None ELSE blob.bound]
      ELSE answer = Refused

\* Between prompts, and once the verb has returned, the terminal is in the
\* mode the first prompt found, whichever goroutine of an earlier prompt is
\* late, and for good.
TerminalRestored == at \in {"out", "get", "back"} => tty = "original"

\* Nothing is typed at an echoing prompt unless a signal has come: no
\* goroutine of an earlier prompt turns the echo back on.
TypedInSilence == at = "line" /\ tty = "original" => received # {}
=============================================================================
