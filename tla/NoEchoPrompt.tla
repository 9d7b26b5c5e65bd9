----------------------------- MODULE NoEchoPrompt -----------------------------
(***************************************************************************)
(* readLineNoEcho: a line read with the echo of the terminal off, and what *)
(* puts it back: a deferred call, and a goroutine per prompt that waits    *)
(* for a signal.  A verb prompts up to three times, so that the goroutine  *)
(* of one prompt may still run during the next.                            *)
(*                                                                         *)
(* The interrupt handler that main installs belongs to memguard: it wipes  *)
(* and exits on SIGINT, and does not listen for SIGTERM, which ends the    *)
(* process by default unless a prompt has registered for it.               *)
(***************************************************************************)
EXTENDS WipingBuffer

CONSTANT Lines    \* What a user types, up to a newline or the end of input.

Prompts == 1..3

Modes == {"original", "silent"}

VARIABLES
  tty,       \* The mode of the terminal.
  prompt,    \* The number of the prompt that runs or ran last.
  at,        \* Where it is.
  saved,     \* The mode each prompt found, which it writes back.
  waiting,   \* The prompts whose goroutine has not ended.
  caught,    \* The prompts with a signal in their channel.
  received,  \* History: the signals that have reached the process.
  alive

terminal == <<tty, prompt, at, saved>>
signals == <<waiting, caught, received, alive>>

Places == {"out", "get", "silence", "notify", "line", "restore", "back"}

ASSUME PromptAssumption == Lines \subseteq Seq(Items)

Listening == IF at = "line" THEN {prompt} ELSE {}

-----------------------------------------------------------------------------
(* The prompt.                                                             *)

StartPrompt ==
  /\ prompt < 3
  /\ prompt' = prompt + 1
  /\ at' = "get"
  /\ UNCHANGED <<tty, saved, signals>>

\* An ioctl that fails leaves the terminal as it is.
IoctlFails ==
  /\ at \in {"get", "silence"}
  /\ at' = "back"
  /\ loop' = "error"
  /\ UNCHANGED <<tty, prompt, saved, signals, origin, buf, one, heap>>

GetTermios ==
  /\ at = "get"
  /\ saved' = [saved EXCEPT ![prompt] = tty]
  /\ at' = "silence"
  /\ UNCHANGED <<tty, prompt, signals, buffers>>

SetSilent ==
  /\ at = "silence"
  /\ tty' = "silent"
  /\ at' = "notify"
  /\ UNCHANGED <<prompt, saved, signals, buffers>>

\* onSignalRestore, then the first read.
NotifyRestore(line) ==
  /\ at = "notify"
  /\ waiting' = waiting \cup {prompt}
  /\ at' = "line"
  /\ Begin("line", line)
  /\ UNCHANGED <<tty, prompt, saved, caught, received, alive>>

TypeLine ==
  /\ at = "line"
  /\ ReadLineWiping
  /\ UNCHANGED <<terminal, signals>>

\* The deferred calls, last in first out: signal.Stop and close, restore.
StopSignals ==
  /\ at = "line"
  /\ loop \in {"content", "error"}
  /\ at' = "restore"
  /\ UNCHANGED <<tty, prompt, saved, signals, buffers>>

\* Mutant of Restored: the mode is edited in place, not in a copy.
RestoredAliased(g) == "silent"

Restored(g) == saved[g]

Restore ==
  /\ at = "restore"
  /\ tty' = Restored(prompt)
  /\ at' = "back"
  /\ UNCHANGED <<prompt, saved, signals, buffers>>

-----------------------------------------------------------------------------
(* The goroutines and the signals.                                         *)

\* With both channels ready, select takes either.
WakeOnSignal(g) ==
  /\ g \in waiting \cap caught
  /\ tty' = Restored(g)
  /\ waiting' = waiting \ {g}
  /\ UNCHANGED <<prompt, at, saved, caught, received, alive, buffers>>

\* Mutant of AfterDone: done restores as well, "to be safe".
AfterDoneRestores(g) == saved[g]

AfterDone(g) == tty

WakeOnDone(g) ==
  /\ g \in waiting \ Listening
  /\ tty' = AfterDone(g)
  /\ waiting' = waiting \ {g}
  /\ UNCHANGED <<prompt, at, saved, caught, received, alive, buffers>>

Interrupt ==
  /\ received' = received \cup {"SIGINT"}
  /\ caught' = caught \cup Listening
  /\ UNCHANGED <<terminal, waiting, alive, buffers>>

\* At a prompt the process reads on, with the terminal restored.
Terminate ==
  /\ received' = received \cup {"SIGTERM"}
  /\ caught' = caught \cup Listening
  /\ alive' = (Listening # {})
  /\ UNCHANGED <<terminal, waiting, buffers>>

\* memguard's handler gets to its exit.
ExitOnInterrupt ==
  /\ "SIGINT" \in received
  /\ alive' = FALSE
  /\ UNCHANGED <<terminal, waiting, caught, received, buffers>>

Prompting ==
  \/ IoctlFails
  \/ GetTermios
  \/ SetSilent
  \/ \E line \in Lines : NotifyRestore(line)
  \/ TypeLine
  \/ StopSignals
  \/ Restore

Signalling ==
  \/ \E g \in Prompts : WakeOnSignal(g) \/ WakeOnDone(g)
  \/ Interrupt
  \/ Terminate
  \/ ExitOnInterrupt

PromptInit ==
  /\ tty = "original"
  /\ prompt = 0
  /\ at = "out"
  /\ saved = [g \in Prompts |-> "original"]
  /\ waiting = {}
  /\ caught = {}
  /\ received = {}
  /\ alive = TRUE

PromptTypeOK ==
  /\ tty \in Modes
  /\ prompt \in 0..3
  /\ at \in Places
  /\ saved \in [Prompts -> Modes]
  /\ waiting \subseteq Prompts
  /\ caught \subseteq Prompts
  /\ received \subseteq {"SIGINT", "SIGTERM"}
  /\ alive \in BOOLEAN
=============================================================================
