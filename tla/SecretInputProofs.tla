-------------------------- MODULE SecretInputProofs --------------------------
(***************************************************************************)
(* The inductive invariant behind the properties of SecretInput, for all   *)
(* sources, chunks and integer widths: a buffer holds what its source has  *)
(* delivered, nothing but zeros follows what a loop returns, and every     *)
(* mode a goroutine may still write back is the original one.              *)
(***************************************************************************)
EXTENDS SecretInput, EnvelopeFrameProofs

-----------------------------------------------------------------------------
(* Buffers.                                                                *)

\* After the content there is nothing secret.
CleanTail(b) == \A i \in (b.len + 1)..b.cap : b.cell[i] \in {Zero, Newline}

Holds(b, source) == b.len <= Len(source) /\ \A i \in 1..b.len : b.cell[i] = source[i]

\* A fresh buffer is a buffer and holds nothing.
LEMMA FreshBuffer ==
  ASSUME NEW c \in Nat
  PROVE  /\ IsBuffer(Fresh(c)) /\ CleanTail(Fresh(c)) /\ Remains(Fresh(c)) = {}
         /\ Fresh(c).len = 0 /\ Fresh(c).cap = c
BY DEF Fresh, IsBuffer, CleanTail, Remains, Cells

\* What wiping changes, and what it leaves.
LEMMA WipedBuffer ==
  ASSUME NEW b, IsBuffer(b), NEW first \in Int, NEW last \in Int
  PROVE  LET w == Wiped(b, first, last)
         IN  /\ IsBuffer(w) /\ w.len = b.len /\ w.cap = b.cap
             /\ \A i \in 1..b.cap : w.cell[i] = IF i \in first..last THEN Zero ELSE b.cell[i]
BY DEF Wiped, IsBuffer, Cells

\* Zeroing the content of a buffer with a clean tail leaves nothing in it.
LEMMA ZeroedBuffer ==
  ASSUME NEW b, IsBuffer(b), CleanTail(b)
  PROVE  Remains(Zeroed(b)) = {}
<1>1. b.len \in Int /\ b.cap \in Nat
  BY DEF IsBuffer
<1>2. /\ Zeroed(b).cap = b.cap
      /\ \A i \in 1..b.cap : Zeroed(b).cell[i] = IF i \in 1..b.len THEN Zero ELSE b.cell[i]
  BY DEF Zeroed, Wiped
<1>3. \A i \in 1..b.cap : Zeroed(b).cell[i] \in {Zero, Newline}
  <2> TAKE i \in 1..b.cap
  <2>1. i \in 1..b.len \/ i \in (b.len + 1)..b.cap
    BY <1>1
  <2>. QED
    BY <1>2, <2>1 DEF CleanTail
<1>. QED
  BY <1>2, <1>3 DEF Remains

\* A buffer wiped over its whole capacity has nothing left.
LEMMA WholeWiped ==
  ASSUME NEW b, IsBuffer(b)
  PROVE  Remains(Wiped(b, 1, b.cap)) = {}
<1>1. b.cap \in Nat
  BY DEF IsBuffer
<1>. QED
  BY <1>1, WipedBuffer DEF Remains

\* A grown buffer has the content, and zeros after it.
LEMMA GrownBuffer ==
  ASSUME NEW b, IsBuffer(b), NEW c \in Nat, c >= b.len
  PROVE  /\ IsBuffer(Grown(b, c)) /\ CleanTail(Grown(b, c))
         /\ Grown(b, c).len = b.len /\ Grown(b, c).cap = c
         /\ \A i \in 1..b.len : Grown(b, c).cell[i] = b.cell[i]
BY DEF Grown, IsBuffer, CleanTail, Cells

\* The growth that ReadAllWiping refuses is exactly the one an int of this
\* width cannot hold: no overflow comes out as a larger capacity.
THEOREM OverflowIsDetected ==
  ASSUME NEW c \in 1..(Half - 1)
  PROVE  IF c + c + Chunk < Half THEN ~Overflows(c) /\ GrownCap(c) = c + c + Chunk
                                 ELSE Overflows(c)
BY BufferAssumption DEF Overflows, GrownCap, Add

\* What a Read of n items leaves in the buffer.
LEMMA FilledBuffer ==
  ASSUME IsBuffer(buf), origin \in Seq(Items), NEW n \in Nat, NEW scribbles \in BOOLEAN,
         Reads(n), Holds(buf, origin)
  PROVE  LET f == Filled(n, scribbles)
         IN  /\ IsBuffer(f) /\ Holds(f, origin)
             /\ f.len = buf.len + n /\ f.cap = buf.cap
<1>1. \A i \in 1..Len(origin) : origin[i] \in Cells
  BY ElementOfSeq DEF Cells
<1>2. /\ buf.cap \in Nat /\ buf.len \in 0..buf.cap /\ buf.cell \in [1..buf.cap -> Cells]
  BY DEF IsBuffer
<1>3. Len(origin) \in Nat /\ buf.len + n <= buf.cap /\ buf.len + n <= Len(origin)
  BY DEF Reads
<1> DEFINE cell == [i \in 1..buf.cap |->
                      IF i <= buf.len THEN buf.cell[i]
                      ELSE IF i <= buf.len + n THEN origin[i]
                      ELSE IF scribbles THEN Scratch ELSE buf.cell[i]]
<1>4. Filled(n, scribbles) = [cap |-> buf.cap, len |-> buf.len + n, cell |-> cell]
  BY DEF Filled
<1>5. cell \in [1..buf.cap -> Cells]
  BY <1>1, <1>2, <1>3 DEF Cells
<1>6. \A i \in 1..(buf.len + n) : cell[i] = origin[i]
  BY <1>2, <1>3 DEF Holds
<1> HIDE DEF cell
<1>. QED
  BY <1>2, <1>3, <1>4, <1>5, <1>6 DEF IsBuffer, Holds

\* A growth by one item that its source delivers next.
LEMMA AppendedBuffer ==
  ASSUME origin \in Seq(Items), NEW b, IsBuffer(b), CleanTail(b), Holds(b, origin),
         b.len = buf.len, b.len < b.cap, b.len < Len(origin)
  PROVE  LET g == Appended(b)
         IN  /\ IsBuffer(g) /\ CleanTail(g) /\ Holds(g, origin)
             /\ g.len = b.len + 1
             /\ \A i \in 1..b.len : g.cell[i] = b.cell[i]
             /\ g.cell[b.len + 1] = NextByte
<1>1. /\ b.cap \in Nat /\ b.len \in 0..b.cap /\ b.cell \in [1..b.cap -> Cells]
      /\ Len(origin) \in Nat
  BY DEF IsBuffer
<1>2. b.len + 1 \in 1..Len(origin) /\ b.len + 1 \in 1..b.cap
  BY <1>1
<1>3. NextByte \in Cells /\ NextByte = origin[b.len + 1]
  BY <1>2, ElementOfSeq DEF NextByte, Cells
<1> DEFINE cell == [b.cell EXCEPT ![b.len + 1] = NextByte]
<1>4. Appended(b) = [cap |-> b.cap, len |-> b.len + 1, cell |-> cell]
  BY DEF Appended
<1>5. /\ cell \in [1..b.cap -> Cells] /\ cell[b.len + 1] = NextByte
      /\ \A i \in 1..b.cap : i # b.len + 1 => cell[i] = b.cell[i]
  BY <1>1, <1>2, <1>3
<1> HIDE DEF cell
<1>6. \A i \in 1..(b.len + 1) : cell[i] = origin[i]
  <2> TAKE i \in 1..(b.len + 1)
  <2>1. i = b.len + 1 \/ (i \in 1..b.len /\ i \in 1..b.cap /\ i # b.len + 1)
    BY <1>1
  <2>. QED
    BY <1>3, <1>5, <2>1 DEF Holds
<1>7. \A i \in (b.len + 1 + 1)..b.cap : cell[i] \in {Zero, Newline}
  <2> TAKE i \in (b.len + 1 + 1)..b.cap
  <2>1. i \in (b.len + 1)..b.cap /\ i \in 1..b.cap /\ i # b.len + 1
    BY <1>1
  <2>. QED
    BY <1>5, <2>1 DEF CleanTail
<1>8. \A i \in 1..b.len : cell[i] = b.cell[i]
  <2> TAKE i \in 1..b.len
  <2>1. i \in 1..b.cap /\ i # b.len + 1
    BY <1>1
  <2>. QED
    BY <1>5, <2>1
<1>. QED
  BY <1>1, <1>2, <1>4, <1>5, <1>6, <1>7, <1>8 DEF IsBuffer, Holds, CleanTail

-----------------------------------------------------------------------------
(* The inductive invariant.                                                *)

\* No byte of a line is its newline, and a line ends there or at the end.
NoNewline(b) == \A i \in 1..b.len : b.cell[i] # Newline

AtEnd(b, source) == b.len < Len(source) => source[b.len + 1] = Newline

BufferInv ==
  /\ loop \in {"none", "error"} => buf = NoBuffer
  /\ loop \in {"all", "line", "content"} => Holds(buf, origin)
  /\ loop \in {"line", "content"} => CleanTail(buf)
  /\ loop = "line" => NoNewline(buf)
  /\ loop = "content" => IF at = "out" THEN buf.len = Len(origin)
                                      ELSE NoNewline(buf) /\ AtEnd(buf, origin)
  /\ heap = {}
  /\ loop # "line" => one = Zero

PlaceInv ==
  /\ loop = "line" => at = "line"
  /\ loop = "all" => at = "out"
  /\ at = "line" => loop \in {"line", "content", "error"}
  /\ at \in {"get", "silence", "notify"} => loop = "none"
  /\ at \in {"restore", "back"} => loop \in {"content", "error"}
  /\ at # "out" => prompt \in Prompts /\ task \in Typed \cup {"confirm"}
  /\ task \in {"done", "failed"} =>
       loop = "none" /\ at = "out" /\ current = NoBuffer /\ fresh = NoBuffer

KeptInv == CleanTail(current) /\ CleanTail(fresh)

TerminalInv ==
  /\ at \in {"out", "get", "silence", "back"} => tty = "original"
  /\ at \in {"silence", "notify", "line", "restore"} => saved[prompt] = "original"
  /\ \A g \in waiting : saved[g] = "original"
  /\ caught # {} => received # {}
  /\ at \in {"notify", "line", "restore"} /\ tty = "original" => received # {}

EnvelopeInv ==
  /\ task = "payload" /\ loop \in {"all", "content"} =>
       blob \in Blobs /\ origin = Payload(blob)
  /\ answer # None => task \in {"done", "failed"}
  /\ OpenInvertsSeal

InputInv == InputTypeOK /\ BufferInv /\ PlaceInv /\ KeptInv /\ TerminalInv /\ EnvelopeInv

-----------------------------------------------------------------------------
(* The terminal.                                                           *)

\* The steps that do not touch the terminal.
LEMMA TerminalUnchanged ==
  ASSUME TerminalInv, UNCHANGED promptVars
  PROVE  TerminalInv'
BY DEF TerminalInv, promptVars, terminal, signals

\* What callers do after a prompt, or without one.
LEMMA TerminalProceeds ==
  ASSUME TerminalInv, Back, NEW t, Proceed(t)
  PROVE  TerminalInv'
BY DEF TerminalInv, Back, Proceed, signals

\* No step leaves a mode to be written back that is not the original one.
LEMMA TerminalStep ==
  ASSUME InputInv, InputNext
  PROVE  TerminalInv'
<1> USE DEF InputInv, PlaceInv, InputTypeOK, PromptTypeOK
<1>1. CASE Calling
  <2>1. CASE \E t \in Tasks : Prompt(t)
    BY <2>1 DEF Prompt, Idle, StartPrompt, TerminalInv, signals
  <2>2. CASE UNCHANGED promptVars
    BY <2>2, TerminalUnchanged
  <2>. QED
    BY <1>1, <2>1, <2>2 DEF Calling, ReadFile, DecryptIdentity, DecryptBlob, CannotRead, Reading
<1>2. CASE Handling
  <2>1. Back
    BY <1>2 DEF Handling, ReadFailed, Empty, KeepPassphrase, TakeNew, StoreValue, LoadKey,
                MalformedKey, ConfirmNew, Compare, OpenEnvelope, Has
  <2>2. \E t \in Tasks \cup {"done", "failed"} : Proceed(t)
    BY <1>2 DEF Handling, ReadFailed, Empty, KeepPassphrase, TakeNew, StoreValue, LoadKey,
                MalformedKey, ConfirmNew, Compare, OpenEnvelope, Return, Tasks
  <2>. QED
    BY <2>1, <2>2, TerminalProceeds
<1>3. CASE Prompting
  <2>1. CASE IoctlFails
    BY <2>1 DEF IoctlFails, TerminalInv, signals
  <2>2. CASE GetTermios
    BY <2>2 DEF GetTermios, TerminalInv, signals
  <2>3. CASE SetSilent
    BY <2>3 DEF SetSilent, TerminalInv, signals
  <2>4. CASE \E line \in Lines : NotifyRestore(line)
    BY <2>4 DEF NotifyRestore, TerminalInv
  <2>5. CASE TypeLine
    BY <2>5, TerminalUnchanged DEF TypeLine, promptVars
  <2>6. CASE StopSignals
    BY <2>6 DEF StopSignals, TerminalInv, signals
  <2>7. CASE Restore
    BY <2>7 DEF Restore, Restored, TerminalInv, signals
  <2>. QED
    BY <1>3, <2>1, <2>2, <2>3, <2>4, <2>5, <2>6, <2>7 DEF Prompting
<1>4. CASE Signalling
  <2>1. CASE \E g \in Prompts : WakeOnSignal(g)
    BY <2>1 DEF WakeOnSignal, Restored, TerminalInv
  <2>2. CASE \E g \in Prompts : WakeOnDone(g)
    BY <2>2 DEF WakeOnDone, AfterDone, TerminalInv
  <2>3. CASE Interrupt
    BY <2>3 DEF Interrupt, TerminalInv, terminal
  <2>4. CASE Terminate
    BY <2>4 DEF Terminate, TerminalInv, terminal
  <2>5. CASE ExitOnInterrupt
    BY <2>5 DEF ExitOnInterrupt, TerminalInv, terminal
  <2>. QED
    BY <1>4, <2>1, <2>2, <2>3, <2>4, <2>5 DEF Signalling
<1>. QED
  BY <1>1, <1>2, <1>3, <1>4 DEF InputNext

-----------------------------------------------------------------------------
(* The buffers.                                                            *)

BufferOK == BufferTypeOK /\ BufferInv

\* A loop starts with a fresh buffer.
LEMMA BeginStep ==
  ASSUME BufferOK, loop # "line", NEW kind \in {"all", "line"},
         NEW source \in Seq(Items), Begin(kind, source)
  PROVE  BufferOK'
<1>1. Chunk \in Nat /\ LineChunk \in Nat /\ Len(source) \in Nat
  BY BufferAssumption
<1>2. /\ IsBuffer(buf') /\ CleanTail(buf') /\ buf'.len = 0
      /\ loop' = kind /\ origin' = source /\ heap' = heap /\ one' = one
  BY <1>1, FreshBuffer DEF Begin
<1>3. Holds(buf', origin') /\ NoNewline(buf')
  BY <1>1, <1>2 DEF Holds, NoNewline
<1>. QED
  BY <1>2, <1>3 DEF BufferOK, BufferTypeOK, BufferInv, Loops

\* A caller moves on without a buffer, having left nothing.
LEMMA ProceedStep ==
  ASSUME BufferOK, loop # "line", NEW t, Proceed(t), heap' = {}
  PROVE  BufferOK'
<1>1. IsBuffer(NoBuffer)
  BY FreshBuffer DEF NoBuffer
<1>. QED
  BY <1>1, EmptySeq DEF BufferOK, BufferTypeOK, BufferInv, Proceed, Loops

\* Steps that leave the buffers alone, and do not leave or enter a prompt
\* while a loop runs or has returned.
LEMMA BuffersUnchanged ==
  ASSUME BufferOK, UNCHANGED buffers,
         loop = "content" => (at' = "out" <=> at = "out")
  PROVE  BufferOK'
BY DEF BufferOK, BufferTypeOK, BufferInv, buffers, Holds, CleanTail, NoNewline, AtEnd, IsBuffer

\* A loop, or what comes before it, fails and leaves nothing.
LEMMA ErrorStep ==
  ASSUME BufferOK, loop' = "error", buf' = NoBuffer, heap' = heap,
         one' = Zero, origin' = origin
  PROVE  BufferOK'
<1>1. IsBuffer(NoBuffer)
  BY FreshBuffer DEF NoBuffer
<1>. QED
  BY <1>1 DEF BufferOK, BufferTypeOK, BufferInv, Loops, Cells

\* Every step of ReadAllWiping, its reader failing or not.
LEMMA ReadAllStep ==
  ASSUME BufferOK, ReadAllWiping, at = "out", at' = "out"
  PROVE  BufferOK'
<1>1. /\ IsBuffer(buf) /\ origin \in Seq(Items) /\ Len(origin) \in Nat
      /\ heap = {} /\ loop = "all" /\ one = Zero /\ Holds(buf, origin)
      /\ buf.cap \in Nat /\ buf.len \in 0..buf.cap
  BY DEF BufferOK, BufferTypeOK, BufferInv, ReadAllWiping, Grow, TooLarge, ReadMore,
         ReadEnds, ReadFails, Reads, IsBuffer
<1>2. Full => Remains(Zeroed(buf)) = {}
  BY <1>1, ZeroedBuffer DEF Full, CleanTail
<1>3. CASE Grow
  <2>1. Add(Add(buf.cap, buf.cap), Chunk) \in Int
    <3>1. Chunk \in Int /\ Half \in Int /\ buf.cap \in Int
      BY <1>1, BufferAssumption
    <3>2. \A a, b \in Int : Add(a, b) \in Int
      BY <3>1 DEF Add
    <3> QED
      BY <3>1, <3>2
  <2>2. GrownCap(buf.cap) \in Nat /\ GrownCap(buf.cap) >= buf.len
    BY <1>1, <1>3, <2>1 DEF Grow, Overflows, GrownCap
  <2>3. /\ IsBuffer(buf') /\ buf'.len = buf.len
        /\ \A i \in 1..buf.len : buf'.cell[i] = buf.cell[i]
    BY <1>1, <1>3, <2>2, GrownBuffer DEF Grow
  <2>4. heap' = {} /\ UNCHANGED <<loop, origin, one>>
    BY <1>1, <1>2, <1>3 DEF Grow, Discard, Outgrown
  <2>. QED
    BY <1>1, <2>3, <2>4 DEF BufferOK, BufferTypeOK, BufferInv, Holds, Loops, Cells
<1>4. CASE TooLarge
  <2>1. heap' = heap
    BY <1>1, <1>2, <1>4 DEF TooLarge, Discard
  <2>. QED
    BY <1>1, <1>4, <2>1, ErrorStep DEF TooLarge
<1>5. ASSUME NEW n \in 0..buf.cap, NEW scribbles \in BOOLEAN, ReadMore(n, scribbles)
      PROVE  BufferOK'
  <2>1. IsBuffer(buf') /\ Holds(buf', origin)
    BY <1>1, <1>5, FilledBuffer DEF ReadMore
  <2>. QED
    BY <1>1, <1>5, <2>1 DEF ReadMore, BufferOK, BufferTypeOK, BufferInv
<1>6. ASSUME NEW n \in 0..buf.cap, NEW scribbles \in BOOLEAN,
             NEW err \in Failures \cup {"EOF"}, ReadEnds(n, scribbles, err)
      PROVE  BufferOK'
  <2>1. PICK f : f = Filled(n, scribbles)
    OBVIOUS
  <2>2. /\ IsBuffer(f) /\ Holds(f, origin) /\ f.len = buf.len + n /\ f.cap = buf.cap
    BY <1>1, <1>6, <2>1, FilledBuffer DEF ReadEnds
  <2>3. f.len \in 0..f.cap /\ f.cap \in Nat
    BY <2>2 DEF IsBuffer
  <2>4. buf' = Wiped(f, f.len + 1, f.cap) /\ UNCHANGED <<origin, one, heap>> /\ loop' = "content"
    BY <1>6, <2>1 DEF ReadEnds
  <2>5. /\ IsBuffer(buf') /\ buf'.len = f.len /\ buf'.cap = f.cap
        /\ \A i \in 1..f.cap : buf'.cell[i] = IF i \in (f.len + 1)..f.cap THEN Zero ELSE f.cell[i]
    <3>1. f.len + 1 \in Int /\ f.cap \in Int
      BY <2>3
    <3>2. IsBuffer(buf')
      BY <2>2, <2>4, <3>1, WipedBuffer
    <3>. QED
      BY <2>4, <3>2 DEF Wiped
  <2>6. f.len = Len(origin)
    BY <1>6, <2>2 DEF ReadEnds, MayReport, IsEnd, Failures
  <2>7. CleanTail(buf')
    BY <2>3, <2>5 DEF CleanTail
  <2>8. Holds(buf', origin)
    BY <2>2, <2>3, <2>5 DEF Holds
  <2>. QED
    BY <1>1, <2>4, <2>5, <2>6, <2>7, <2>8 DEF BufferOK, BufferTypeOK, BufferInv, Loops
<1>7. ASSUME NEW n \in 0..buf.cap, NEW scribbles \in BOOLEAN,
             NEW err \in Failures \cup {"EOF"}, ReadFails(n, scribbles, err)
      PROVE  BufferOK'
  <2>1. IsBuffer(Filled(n, scribbles)) /\ Filled(n, scribbles).cap = buf.cap
    BY <1>1, <1>7, FilledBuffer DEF ReadFails
  <2>2. Remains(Wiped(Filled(n, scribbles), 1, buf.cap)) = {}
    BY <2>1, WholeWiped
  <2>. QED
    BY <1>1, <1>7, <2>2, ErrorStep DEF ReadFails, Discard
<1>. QED
  BY <1>3, <1>4, <1>5, <1>6, <1>7 DEF ReadAllWiping

\* Every step of readLineWiping.
LEMMA ReadLineStep ==
  ASSUME BufferOK, ReadLineWiping, at = "line", at' = "line"
  PROVE  BufferOK'
<1>1. /\ IsBuffer(buf) /\ origin \in Seq(Items) /\ Len(origin) \in Nat
      /\ heap = {} /\ loop = "line" /\ Holds(buf, origin) /\ CleanTail(buf) /\ NoNewline(buf)
      /\ buf.cap \in Nat /\ buf.len \in 0..buf.cap
  BY DEF BufferOK, BufferTypeOK, BufferInv, ReadLineWiping, ReadByte, LineEnds, LineFails,
         IsBuffer
<1>2. Remains(Zeroed(buf)) = {}
  BY <1>1, ZeroedBuffer
<1>3. CASE ReadByte
  <2>1. buf.len < Len(origin) /\ NextByte # Newline
    BY <1>3 DEF ReadByte, AtLineEnd
  <2>2. NextByte \in Cells
    <3>1. buf.len + 1 \in 1..Len(origin)
      BY <1>1, <2>1
    <3>. QED
      BY <1>1, <3>1, ElementOfSeq DEF NextByte, Cells
  <2>3. PICK b : /\ buf' = Appended(b) /\ heap' = {}
                 /\ IsBuffer(b) /\ CleanTail(b) /\ b.len = buf.len /\ b.len < b.cap
                 /\ \A i \in 1..buf.len : b.cell[i] = buf.cell[i]
    <3>1. CASE Full
      <4> DEFINE c == buf.cap + buf.cap + LineChunk
      <4>1. c \in Nat /\ c >= buf.len /\ buf.len < c
        BY <1>1, BufferAssumption
      <4>2. /\ IsBuffer(Grown(buf, c)) /\ CleanTail(Grown(buf, c))
            /\ Grown(buf, c).len = buf.len /\ Grown(buf, c).cap = c
            /\ \A i \in 1..buf.len : Grown(buf, c).cell[i] = buf.cell[i]
        BY <1>1, <4>1, GrownBuffer
      <4>3. buf' = Appended(Grown(buf, c)) /\ heap' = {}
        BY <1>1, <1>2, <1>3, <3>1 DEF ReadByte, Discard, Outgrown
      <4>. QED
        BY <4>1, <4>2, <4>3
    <3>2. CASE ~Full
      BY <1>1, <1>3, <3>2 DEF ReadByte, Full
    <3>. QED
      BY <3>1, <3>2
  <2>4. Holds(b, origin)
    BY <1>1, <2>3 DEF Holds
  <2>5. /\ IsBuffer(buf') /\ CleanTail(buf') /\ Holds(buf', origin) /\ buf'.len = b.len + 1
        /\ \A i \in 1..b.len : buf'.cell[i] = b.cell[i]
        /\ buf'.cell[b.len + 1] = NextByte
    BY <1>1, <2>1, <2>3, <2>4, AppendedBuffer
  <2>6. NoNewline(buf')
    BY <1>1, <2>1, <2>3, <2>5 DEF NoNewline
  <2>. QED
    BY <1>1, <1>3, <2>2, <2>3, <2>5, <2>6 DEF ReadByte, BufferOK, BufferTypeOK, BufferInv
<1>4. CASE LineEnds
  <2>1. AtEnd(buf, origin)
    BY <1>4 DEF LineEnds, AtLineEnd, NextByte, AtEnd
  <2>. QED
    BY <1>1, <1>4, <2>1 DEF LineEnds, BufferOK, BufferTypeOK, BufferInv, Loops, Cells
<1>5. CASE LineFails
  BY <1>1, <1>2, <1>5, ErrorStep DEF LineFails, Discard
<1>. QED
  BY <1>3, <1>4, <1>5 DEF ReadLineWiping

\* The typing of what is kept, and no secret behind it.
Kept == IsBuffer(current) /\ IsBuffer(fresh) /\ KeptInv

\* A trimmed buffer is followed by newlines and zeros only.
LEMMA TrimmedBuffer ==
  ASSUME IsBuffer(buf), CleanTail(buf), NEW n \in 0..buf.len, TrimsTo(n)
  PROVE  IsBuffer(Trimmed(n)) /\ CleanTail(Trimmed(n))
<1>1. /\ buf.cap \in Nat /\ buf.len \in 0..buf.cap /\ buf.cell \in [1..buf.cap -> Cells]
      /\ buf = [cap |-> buf.cap, len |-> buf.len, cell |-> buf.cell]
  BY DEF IsBuffer
<1>2. Trimmed(n) = [cap |-> buf.cap, len |-> n, cell |-> buf.cell]
  BY <1>1 DEF Trimmed
<1>3. \A i \in (n + 1)..buf.cap : buf.cell[i] \in {Zero, Newline}
  <2> TAKE i \in (n + 1)..buf.cap
  <2>1. i \in (n + 1)..buf.len \/ i \in (buf.len + 1)..buf.cap
    BY <1>1
  <2>. QED
    BY <2>1 DEF TrimsTo, CleanTail
<1>. QED
  BY <1>1, <1>2, <1>3 DEF IsBuffer, CleanTail

\* A verb that returns lets go of nothing, if b has nothing left in it.
LEMMA ReturnStep ==
  ASSUME Kept, heap = {}, NEW outcome, NEW b, Remains(b) = {}, Return(outcome, b)
  PROVE  heap' = {} /\ Kept'
<1>1. Remains(Deferred(current)) = {} /\ Remains(Deferred(fresh)) = {}
  BY ZeroedBuffer DEF Kept, KeptInv, Deferred
<1>2. IsBuffer(NoBuffer) /\ CleanTail(NoBuffer)
  BY FreshBuffer DEF NoBuffer
<1>. QED
  BY <1>1, <1>2 DEF Return, Kept, KeptInv

\* Whatever a caller does with what a loop returned, no secret is let go.
LEMMA HandlingStep ==
  ASSUME InputInv, Handling
  PROVE  /\ heap' = {} /\ Kept'
         /\ loop # "line"
         /\ \E t \in Tasks \cup {"done", "failed"} : Proceed(t)
<1>1. Kept /\ heap = {} /\ IsBuffer(buf)
  BY DEF InputInv, InputTypeOK, BufferTypeOK, BufferInv, Kept
<1>2. loop = "content" => CleanTail(buf)
  BY DEF InputInv, BufferInv
<1>3. IsBuffer(NoBuffer) /\ CleanTail(NoBuffer) /\ Remains(NoBuffer) = {}
  BY FreshBuffer DEF NoBuffer
<1>4. loop # "line" /\ \E t \in Tasks \cup {"done", "failed"} : Proceed(t)
  BY DEF Handling, ReadFailed, Empty, KeepPassphrase, TakeNew, StoreValue, LoadKey,
         MalformedKey, ConfirmNew, Compare, OpenEnvelope, Return, Tasks, Has
<1> SUFFICES heap' = {} /\ Kept'
  BY <1>4
<1>5. loop = "content" => Remains(Zeroed(buf)) = {}
  BY <1>1, <1>2, ZeroedBuffer
<1>6. Remains(Deferred(current)) = {}
  BY <1>1, ZeroedBuffer DEF Kept, KeptInv, Deferred
<1>7. CASE ReadFailed
  BY <1>1, <1>3, <1>7, ReturnStep DEF ReadFailed
<1>8. CASE Empty
  <2>1. loop = "content" /\ TrimsTo(0) /\ Return("failed", buf)
    BY <1>8 DEF Empty, Has
  <2>2. buf.cap \in Nat /\ buf.len \in 0..buf.cap
    BY <1>1 DEF IsBuffer
  <2>3. \A i \in 1..buf.cap : buf.cell[i] \in {Zero, Newline}
    <3> TAKE i \in 1..buf.cap
    <3>1. i \in (0 + 1)..buf.len \/ i \in (buf.len + 1)..buf.cap
      BY <2>2
    <3>. QED
      BY <1>2, <2>1, <3>1 DEF TrimsTo, CleanTail
  <2>4. Remains(buf) = {}
    BY <2>3 DEF Remains
  <2>. QED
    BY <1>1, <1>4, <2>1, <2>4, ReturnStep
<1>9. ASSUME NEW n \in 0..buf.len, KeepPassphrase(n)
      PROVE  heap' = {} /\ Kept'
  <2>1. IsBuffer(Trimmed(n)) /\ CleanTail(Trimmed(n))
    BY <1>1, <1>2, <1>9, TrimmedBuffer DEF KeepPassphrase, Has
  <2>. QED
    BY <1>1, <1>9, <2>1 DEF KeepPassphrase, Kept, KeptInv
<1>10. ASSUME NEW n \in 0..buf.len, TakeNew(n) \/ StoreValue(n)
       PROVE  heap' = {} /\ Kept'
  <2>1. loop = "content" /\ TrimsTo(n) /\ Return("done", Deferred(Trimmed(n)))
    BY <1>10 DEF TakeNew, StoreValue, Has
  <2>2. IsBuffer(Trimmed(n)) /\ CleanTail(Trimmed(n))
    BY <1>1, <1>2, <2>1, TrimmedBuffer
  <2>3. Remains(Deferred(Trimmed(n))) = {}
    BY <2>2, ZeroedBuffer DEF Deferred
  <2>. QED
    BY <1>1, <2>1, <2>3, ReturnStep
<1>11. CASE LoadKey
  BY <1>1, <1>3, <1>5, <1>6, <1>11 DEF LoadKey, Has, Discard, Kept, KeptInv
<1>12. CASE MalformedKey
  BY <1>1, <1>5, <1>12, ReturnStep DEF MalformedKey, Has
<1>13. CASE ConfirmNew
  BY <1>1, <1>2, <1>13 DEF ConfirmNew, Has, Kept, KeptInv
<1>14. CASE Compare
  BY <1>1, <1>5, <1>14, ReturnStep DEF Compare, Has, Deferred
<1>15. CASE OpenEnvelope
  BY <1>1, <1>5, <1>15, ReturnStep DEF OpenEnvelope, Has
<1>. QED
  BY <1>4, <1>7, <1>8, <1>9, <1>10, <1>11, <1>12, <1>13, <1>14, <1>15 DEF Handling

\* The contents of an envelope are items like any other.
LEMMA PayloadItems ==
  ASSUME NEW s \in Sealed
  PROVE  Payload(s) \in Seq(Items)
<1>1. s.address \in Addresses /\ s.bound \in Bound /\ s.value \in Values
  BY DEF Sealed
<1>2. Payload(s) \in Seq(Line)
  BY <1>1, FrameLines, LegacyLines DEF Payload
<1>. QED
  BY <1>2, SeqMonotonic, InputAssumption

\* No step of an invocation corrupts a buffer, shortens a content or leaves
\* anything on the heap.
LEMMA BufferStep ==
  ASSUME InputInv, InputNext
  PROVE  BufferOK' /\ Kept'
<1>1. BufferOK /\ Kept
  BY DEF InputInv, InputTypeOK, BufferOK, Kept
<1>2. PlaceInv /\ TerminalInv /\ PromptTypeOK
  BY DEF InputInv, InputTypeOK
<1>3. UNCHANGED <<current, fresh>> => Kept'
  BY <1>1 DEF Kept, KeptInv, IsBuffer, CleanTail
<1>4. CASE Calling
  <2>1. UNCHANGED <<current, fresh>>
    BY <1>4 DEF Calling, ReadFile, Prompt, DecryptIdentity, DecryptBlob, CannotRead, Reading,
                verbVars
  <2> SUFFICES BufferOK'
    BY <1>3, <2>1
  <2>2. CASE \E t \in Tasks, content \in Files : ReadFile(t, content)
    BY <1>1, <2>2, BeginStep, InputAssumption DEF ReadFile, Idle
  <2>3. CASE \E t \in Tasks : Prompt(t)
    BY <1>1, <2>3, BuffersUnchanged DEF Prompt, Idle
  <2>4. CASE DecryptIdentity
    BY <1>1, <2>4, BeginStep, InputAssumption DEF DecryptIdentity, Idle
  <2>5. CASE \E s \in Blobs : DecryptBlob(s)
    BY <1>1, <2>5, BeginStep, PayloadItems, InputAssumption DEF DecryptBlob, Idle
  <2>6. CASE CannotRead
    <3>1. loop = "none"
      BY <2>6 DEF CannotRead, Idle
    <3>2. buf = NoBuffer /\ one = Zero
      BY <1>1, <3>1 DEF BufferOK, BufferInv
    <3>. QED
      BY <1>1, <2>6, <3>2, ErrorStep DEF CannotRead
  <2>7. CASE Reading
    BY <1>1, <2>7, ReadAllStep DEF Reading, promptVars, terminal
  <2>. QED
    BY <1>4, <2>2, <2>3, <2>4, <2>5, <2>6, <2>7 DEF Calling
<1>5. CASE Handling
  BY <1>1, <1>5, HandlingStep, ProceedStep
<1>6. CASE Prompting /\ UNCHANGED verbVars
  <2>1. Kept'
    BY <1>3, <1>6 DEF verbVars
  <2>2. CASE IoctlFails
    <3>1. loop = "none"
      BY <1>2, <2>2 DEF IoctlFails, PlaceInv
    <3>2. buf = NoBuffer /\ one = Zero
      BY <1>1, <3>1 DEF BufferOK, BufferInv
    <3>. QED
      BY <1>1, <2>1, <2>2, <3>2, ErrorStep DEF IoctlFails
  <2>3. CASE GetTermios \/ SetSilent \/ StopSignals \/ Restore
    BY <1>1, <1>2, <2>1, <2>3, BuffersUnchanged
       DEF GetTermios, SetSilent, StopSignals, Restore
  <2>4. CASE \E line \in Lines : NotifyRestore(line)
    <3>1. loop = "none"
      BY <1>2, <2>4 DEF NotifyRestore, PlaceInv
    <3>. QED
      BY <1>1, <2>1, <2>4, <3>1, BeginStep, PromptAssumption DEF NotifyRestore
  <2>5. CASE TypeLine
    BY <1>1, <2>1, <2>5, ReadLineStep DEF TypeLine, terminal
  <2>. QED
    BY <1>6, <2>1, <2>2, <2>3, <2>4, <2>5 DEF Prompting
<1>7. CASE Signalling /\ UNCHANGED verbVars
  BY <1>1, <1>3, <1>7, BuffersUnchanged
     DEF Signalling, WakeOnSignal, WakeOnDone, Interrupt, Terminate, ExitOnInterrupt,
         terminal, verbVars
<1>. QED
  BY <1>4, <1>5, <1>6, <1>7 DEF InputNext

-----------------------------------------------------------------------------
(* Where an invocation is, and what it has opened.                         *)

\* A loop stays the loop it is until it returns.
LEMMA LoopPlaces ==
  /\ ReadAllWiping => loop = "all" /\ loop' \in {"all", "content", "error"} /\ origin' = origin
  /\ ReadLineWiping => loop = "line" /\ loop' \in {"line", "content", "error"}
BY DEF ReadAllWiping, Grow, TooLarge, ReadMore, ReadEnds, ReadFails, Reads,
       ReadLineWiping, ReadByte, LineEnds, LineFails

\* Where the loops run, and that a verb that returned keeps nothing.
LEMMA PlaceStep ==
  ASSUME InputInv, InputNext
  PROVE  PlaceInv'
<1>1. PlaceInv /\ PromptTypeOK /\ task \in Tasks \cup {"done", "failed"}
  BY DEF InputInv, InputTypeOK
<1>2. CASE Calling
  <2>1. CASE \E t \in Tasks : Prompt(t)
    BY <1>1, <2>1 DEF Prompt, Idle, StartPrompt, PlaceInv, PromptTypeOK, Prompts, Typed, buffers,
                      verbVars
  <2>2. CASE Reading
    BY <1>1, <2>2, LoopPlaces DEF Reading, PlaceInv, promptVars, terminal, verbVars
  <2>3. CASE CannotRead
    BY <1>1, <2>3 DEF CannotRead, Idle, PlaceInv, promptVars, terminal, verbVars, Tasks
  <2>4. CASE (\E t \in Tasks, content \in Files : ReadFile(t, content)) \/ DecryptIdentity
    BY <1>1, <2>4 DEF ReadFile, DecryptIdentity, Idle, Begin, PlaceInv, promptVars, terminal,
                      verbVars, Tasks, Typed
  <2>5. CASE \E s \in Blobs : DecryptBlob(s)
    BY <1>1, <2>5 DEF DecryptBlob, Idle, Begin, PlaceInv, promptVars, terminal
  <2>. QED
    BY <1>2, <2>1, <2>2, <2>3, <2>4, <2>5 DEF Calling
<1>3. CASE Handling
  <2>1. loop' = "none" /\ at' = "out"
    BY <1>3, HandlingStep DEF Proceed
  <2>2. task' \in {"done", "failed"} => current' = NoBuffer /\ fresh' = NoBuffer
    BY <1>3 DEF Handling, ReadFailed, Empty, KeepPassphrase, TakeNew, StoreValue, LoadKey,
                MalformedKey, ConfirmNew, Compare, OpenEnvelope, Return, Proceed
  <2>. QED
    BY <2>1, <2>2 DEF PlaceInv
<1>4. CASE Prompting /\ UNCHANGED verbVars
  <2>1. CASE IoctlFails \/ GetTermios \/ SetSilent \/ StopSignals \/ Restore
    BY <1>1, <1>4, <2>1 DEF IoctlFails, GetTermios, SetSilent, StopSignals, Restore, PlaceInv,
                            buffers, verbVars
  <2>2. CASE \E line \in Lines : NotifyRestore(line)
    BY <1>1, <1>4, <2>2 DEF NotifyRestore, Begin, PlaceInv, verbVars, Typed
  <2>3. CASE TypeLine
    BY <1>1, <1>4, <2>3, LoopPlaces DEF TypeLine, PlaceInv, terminal, verbVars
  <2>. QED
    BY <1>4, <2>1, <2>2, <2>3 DEF Prompting
<1>5. CASE Signalling /\ UNCHANGED verbVars
  BY <1>1, <1>5 DEF Signalling, WakeOnSignal, WakeOnDone, Interrupt, Terminate, ExitOnInterrupt,
                    PlaceInv, terminal, buffers, verbVars
<1>. QED
  BY <1>2, <1>3, <1>4, <1>5 DEF InputNext

\* The content a loop returns is all of its source.
LEMMA ContentIsOrigin ==
  ASSUME BufferOK, loop = "content", at = "out"
  PROVE  Content(buf) = origin
<1>1. /\ origin \in Seq(Items) /\ Len(origin) \in Nat
      /\ buf.len = Len(origin) /\ \A i \in 1..buf.len : buf.cell[i] = origin[i]
  BY DEF BufferOK, BufferTypeOK, BufferInv, Holds
<1>2. origin = [i \in 1..Len(origin) |-> origin[i]]
  BY <1>1, LenProperties
<1>. QED
  BY <1>1, <1>2 DEF Content

\* What an envelope answers is what was sealed in it.
LEMMA AnswerExpected ==
  ASSUME InputInv, OpenEnvelope
  PROVE  blob \in Sealed /\ answer' = Expected(Row, blob, verb = "migrate")
<1>1. task = "payload" /\ loop = "content" /\ answer' = Opened(Content(buf))
  BY DEF OpenEnvelope, Has
<1>2. at = "out" /\ blob \in Sealed /\ origin = Payload(blob)
  BY <1>1, InputAssumption DEF InputInv, PlaceInv, EnvelopeInv, Typed
<1>3. Content(buf) = Payload(blob)
  BY <1>1, <1>2, ContentIsOrigin DEF InputInv, InputTypeOK, BufferOK
<1>. QED
  BY <1>1, <1>2, <1>3, OpenInverts, InputAssumption DEF Opened

\* What is read for an envelope is what is in it, and its answer fits.
LEMMA EnvelopeStep ==
  ASSUME InputInv, InputNext
  PROVE  EnvelopeInv'
<1>1. PlaceInv /\ EnvelopeInv
  BY DEF InputInv
<1>2. CASE OpenEnvelope
  <2>1. blob \in Sealed /\ answer' = Expected(Row, blob, verb = "migrate")
    BY <1>2, AnswerExpected
  <2>2. UNCHANGED <<verb, blob>> /\ task' \in {"done", "failed"}
    BY <1>2 DEF OpenEnvelope, Return, Proceed
  <2>3. blob.legacy \in BOOLEAN /\ (verb = "migrate") \in BOOLEAN
    BY <2>1 DEF Sealed
  <2>4. OpenInvertsSeal'
    BY <2>1, <2>2, <2>3 DEF OpenInvertsSeal, Expected
  <2>. QED
    BY <2>2, <2>4 DEF EnvelopeInv
<1>3. CASE Handling /\ ~OpenEnvelope
  <2>1. loop' = "none" /\ UNCHANGED <<verb, blob, answer>>
    BY <1>3 DEF Handling, ReadFailed, Empty, KeepPassphrase, TakeNew, StoreValue, LoadKey,
                MalformedKey, ConfirmNew, Compare, Return, Proceed
  <2>2. task \notin {"done", "failed"}
    BY <1>1, <1>3 DEF Handling, ReadFailed, Empty, KeepPassphrase, TakeNew, StoreValue, LoadKey,
                MalformedKey, ConfirmNew, Compare, Has, PlaceInv
  <2>. QED
    BY <1>1, <2>1, <2>2 DEF EnvelopeInv, OpenInvertsSeal
<1>4. CASE \E s \in Blobs : DecryptBlob(s)
  <2>1. answer = None /\ answer' = None
    BY <1>1, <1>4 DEF DecryptBlob, Idle, EnvelopeInv
  <2>. QED
    BY <1>4, <2>1 DEF DecryptBlob, Begin, EnvelopeInv, OpenInvertsSeal
<1>5. CASE Reading
  BY <1>1, <1>5, LoopPlaces DEF Reading, EnvelopeInv, OpenInvertsSeal, verbVars
<1>6. CASE CannotRead \/ DecryptIdentity \/ \E t \in Tasks, content \in Files : ReadFile(t, content)
  BY <1>1, <1>6 DEF CannotRead, DecryptIdentity, ReadFile, Idle, EnvelopeInv, OpenInvertsSeal,
                    verbVars, Typed
<1>7. CASE \E t \in Tasks : Prompt(t)
  BY <1>1, <1>7 DEF Prompt, EnvelopeInv, OpenInvertsSeal, verbVars, buffers
<1>8. CASE Prompting /\ UNCHANGED verbVars
  <2>1. task # "payload"
    BY <1>1, <1>8 DEF Prompting, IoctlFails, GetTermios, SetSilent, NotifyRestore, TypeLine,
                      StopSignals, Restore, PlaceInv, Typed
  <2>. QED
    BY <1>1, <1>8, <2>1 DEF EnvelopeInv, OpenInvertsSeal, verbVars
<1>9. CASE Signalling /\ UNCHANGED verbVars
  BY <1>1, <1>9 DEF Signalling, WakeOnSignal, WakeOnDone, Interrupt, Terminate, ExitOnInterrupt,
                    EnvelopeInv, OpenInvertsSeal, buffers, verbVars
<1>. QED
  BY <1>2, <1>3, <1>4, <1>5, <1>6, <1>7, <1>8, <1>9 DEF InputNext, Calling

-----------------------------------------------------------------------------
(* Types.                                                                  *)

\* The types of the terminal and of the signals.
LEMMA PromptTypes ==
  ASSUME PromptTypeOK, PlaceInv, InputNext
  PROVE  PromptTypeOK'
<1> USE DEF PromptTypeOK, Prompts, Modes, Places
<1>1. CASE Calling
  <2>1. CASE \E t \in Tasks : Prompt(t)
    BY <2>1 DEF Prompt, StartPrompt, signals
  <2>2. CASE UNCHANGED promptVars
    BY <2>2 DEF promptVars, terminal, signals
  <2>. QED
    BY <1>1, <2>1, <2>2 DEF Calling, ReadFile, DecryptIdentity, DecryptBlob, CannotRead, Reading
<1>2. CASE Handling
  <2>1. \E t \in Tasks \cup {"done", "failed"} : Proceed(t)
    BY <1>2 DEF Handling, ReadFailed, Empty, KeepPassphrase, TakeNew, StoreValue, LoadKey,
                MalformedKey, ConfirmNew, Compare, OpenEnvelope, Return, Tasks
  <2>. QED
    BY <2>1 DEF Proceed, signals
<1>3. CASE Prompting
  <2>1. CASE IoctlFails \/ GetTermios \/ SetSilent \/ StopSignals
    BY <2>1 DEF IoctlFails, GetTermios, SetSilent, StopSignals, signals
  <2>2. CASE \E line \in Lines : NotifyRestore(line)
    BY <2>2 DEF NotifyRestore, PlaceInv
  <2>3. CASE TypeLine
    BY <2>3 DEF TypeLine, terminal, signals
  <2>4. CASE Restore
    BY <2>4 DEF Restore, Restored, PlaceInv, signals
  <2>. QED
    BY <1>3, <2>1, <2>2, <2>3, <2>4 DEF Prompting
<1>4. CASE Signalling
  <2>1. CASE \E g \in Prompts : WakeOnSignal(g) \/ WakeOnDone(g)
    BY <2>1 DEF WakeOnSignal, WakeOnDone, Restored, AfterDone
  <2>2. CASE Interrupt \/ Terminate \/ ExitOnInterrupt
    BY <2>2 DEF Interrupt, Terminate, ExitOnInterrupt, Listening, PlaceInv, terminal
  <2>. QED
    BY <1>4, <2>1, <2>2 DEF Signalling
<1>. QED
  BY <1>1, <1>2, <1>3, <1>4 DEF InputNext

\* The types of what a verb does.
LEMMA VerbTypes ==
  ASSUME InputInv, InputNext
  PROVE  /\ (verb \in Verbs)' /\ (task \in Tasks \cup {"done", "failed"})'
         /\ (blob \in Sealed \cup {None})'
         /\ (answer = None \/ answer = Refused \/ answer.value \in Values)'
<1>1. /\ verb \in Verbs /\ task \in Tasks \cup {"done", "failed"}
      /\ blob \in Sealed \cup {None}
      /\ answer = None \/ answer = Refused \/ answer.value \in Values
  BY DEF InputInv, InputTypeOK
<1>2. CASE UNCHANGED verbVars
  BY <1>1, <1>2 DEF verbVars
<1>3. CASE \E s \in Blobs : DecryptBlob(s)
  BY <1>1, <1>3, InputAssumption DEF DecryptBlob
<1>4. CASE Handling
  <2>1. verb' = verb /\ blob' = blob
    BY <1>4 DEF Handling, ReadFailed, Empty, KeepPassphrase, TakeNew, StoreValue, LoadKey,
                MalformedKey, ConfirmNew, Compare, OpenEnvelope
  <2>2. task' \in Tasks \cup {"done", "failed"}
    BY <1>4, HandlingStep DEF Proceed
  <2>3. CASE OpenEnvelope
    <3>1. blob \in Sealed /\ answer' = Expected(Row, blob, verb = "migrate")
      BY <2>3, AnswerExpected
    <3>2. answer' = Refused \/ answer'.value \in Values
      BY <3>1 DEF Expected, Sealed
    <3>. QED
      BY <1>1, <2>1, <2>2, <3>2
  <2>4. CASE ~OpenEnvelope
    <3>1. answer' = answer
      BY <1>4, <2>4 DEF Handling, ReadFailed, Empty, KeepPassphrase, TakeNew, StoreValue, LoadKey,
                        MalformedKey, ConfirmNew, Compare
    <3>. QED
      BY <1>1, <2>1, <2>2, <3>1
  <2>. QED
    BY <2>3, <2>4
<1>. QED
  BY <1>2, <1>3, <1>4 DEF InputNext, Calling, ReadFile, Prompt, DecryptIdentity, CannotRead, Reading

-----------------------------------------------------------------------------
(* The theorems.                                                           *)

\* The invariant holds when an invocation starts.
LEMMA InvariantInit ==
  ASSUME InputInit
  PROVE  InputInv
<1>1. IsBuffer(NoBuffer) /\ CleanTail(NoBuffer)
  BY FreshBuffer DEF NoBuffer
<1>2. InputTypeOK
  BY <1>1, EmptySeq DEF InputInit, BufferInit, PromptInit, InputTypeOK, BufferTypeOK, PromptTypeOK,
       Loops, Cells, Prompts, Modes, Places, First, Tasks, Verbs
<1>3. BufferInv /\ KeptInv /\ TerminalInv
  BY <1>1 DEF InputInit, BufferInit, PromptInit, BufferInv, KeptInv, TerminalInv
<1>4. PlaceInv /\ EnvelopeInv
  BY DEF InputInit, BufferInit, PromptInit, PlaceInv, EnvelopeInv, OpenInvertsSeal, First
<1>. QED
  BY <1>2, <1>3, <1>4 DEF InputInv

\* Every step of an invocation preserves the invariant.
LEMMA InvariantStep ==
  ASSUME InputInv, [InputNext]_inputVars
  PROVE  InputInv'
<1>1. CASE InputNext
  <2>1. PromptTypeOK'
    BY <1>1, PromptTypes DEF InputInv, InputTypeOK
  <2>2. InputTypeOK' /\ BufferInv' /\ KeptInv'
    BY <1>1, <2>1, BufferStep, VerbTypes DEF BufferOK, Kept, InputTypeOK
  <2>. QED
    BY <1>1, <2>2, TerminalStep, PlaceStep, EnvelopeStep DEF InputInv
<1>2. CASE UNCHANGED inputVars
  BY <1>2 DEF inputVars, buffers, promptVars, terminal, signals, verbVars, InputInv, InputTypeOK,
              BufferTypeOK, PromptTypeOK, IsBuffer, BufferInv, PlaceInv, KeptInv, TerminalInv,
              EnvelopeInv, OpenInvertsSeal, Holds, CleanTail, NoNewline, AtEnd
<1>. QED
  BY <1>1, <1>2

\* The invariant holds throughout.
LEMMA Invariant == InputSpec => []InputInv
BY InvariantInit, InvariantStep, PTL DEF InputSpec

\* A secret is read into a buffer of its size, and types are kept, whatever
\* the sources, chunks and integer widths (ReadAllWiping, readLineNoEcho and
\* their callers).
THEOREM InputTypeCorrect == InputSpec => []InputTypeOK
<1>1. InputInv => InputTypeOK
  BY DEF InputInv
<1>. QED
  BY <1>1, Invariant, PTL

\* No path of an invocation lets go of a buffer with a secret in it: every
\* outgrown array, failed read, refused frame and passphrase is wiped.
THEOREM NothingIsLeft == InputSpec => []NothingLeft
<1>1. InputInv => NothingLeft
  BY FreshBuffer DEF InputInv, BufferInv, PlaceInv, NothingLeft, NoBuffer
<1>. QED
  BY <1>1, Invariant, PTL

\* What ReadAllWiping and readLineWiping return is all of their source or
\* line, never a prefix of it.
THEOREM InputIsWhole == InputSpec => []ReadsWhole
<1>1. ASSUME InputInv
      PROVE  ReadsWhole
  <2>1. BufferOK
    BY <1>1 DEF InputInv, InputTypeOK, BufferOK
  <2>2. CASE loop = "content" /\ at = "out"
    BY <2>1, <2>2, ContentIsOrigin DEF ReadsWhole
  <2>3. CASE loop = "content" /\ at # "out"
    <3>1. /\ Holds(buf, origin) /\ NoNewline(buf) /\ AtEnd(buf, origin)
          /\ buf.len \in Nat
      BY <2>1, <2>3 DEF BufferOK, BufferTypeOK, BufferInv, IsBuffer
    <3>2. Content(buf) \in Seq({buf.cell[i] : i \in 1..buf.len}) /\ Len(Content(buf)) = buf.len
      BY <3>1 DEF Content
    <3>3. IsLineOf(Content(buf), origin)
      BY <3>1, <3>2 DEF IsLineOf, Holds, NoNewline, AtEnd, Content
    <3>. QED
      BY <2>3, <3>3 DEF ReadsWhole
  <2>. QED
    BY <2>2, <2>3 DEF ReadsWhole
<1>. QED
  BY <1>1, Invariant, PTL

\* An envelope opens, as what was sealed, exactly for its own row and in its
\* own format, for every value (Seal, Open, OpenLegacy).
THEOREM OpensWhatWasSealed == InputSpec => []OpenInvertsSeal
<1>1. InputInv => OpenInvertsSeal
  BY DEF InputInv, EnvelopeInv
<1>. QED
  BY <1>1, Invariant, PTL

\* Between the prompts of a verb and after them the terminal is as the first
\* prompt found it, however late the goroutine of any of them runs.
THEOREM TerminalComesBack == InputSpec => []TerminalRestored
<1>1. InputInv => TerminalRestored
  BY DEF InputInv, TerminalInv, TerminalRestored
<1>. QED
  BY <1>1, Invariant, PTL

\* The echo is off while a line is typed unless a signal has arrived
\* (onSignalRestore).
THEOREM TypingIsSilent == InputSpec => []TypedInSilence
<1>1. InputInv => TypedInSilence
  BY DEF InputInv, TerminalInv, TypedInSilence
<1>. QED
  BY <1>1, Invariant, PTL
=============================================================================
