----------------------------- MODULE WipingBuffer -----------------------------
(***************************************************************************)
(* The two loops through which every secret enters the process:            *)
(* ReadAllWiping for files, pipes and decryptions, readLineWiping for the  *)
(* terminal.  Both outgrow buffers, which the heap keeps as they are.      *)
(***************************************************************************)
EXTENDS Integers, Sequences

CONSTANTS
  Items,       \* What a reader delivers, one per cell of a buffer.
  Newline,
  Zero,        \* A cell that is fresh or wiped.
  Scratch,     \* What a reader leaves past the count it reports.
  Chunk, LineChunk,   \* readChunk, lineChunk
  Half         \* 2^(w-1) for integers of w bits.

Cells == Items \cup {Zero, Scratch}

ASSUME BufferAssumption ==
  /\ Half \in Nat /\ Chunk \in 1..(Half - 1) /\ LineChunk \in Nat \ {0}
  /\ Newline \in Items
  /\ Zero \notin Items /\ Scratch \notin Items /\ Zero # Scratch

VARIABLES
  loop,     \* The loop that runs, or how the last one returned.
  origin,   \* All that the reader of the loop has to deliver.
  buf,      \* The buffer, which has taken the first buf.len items of it.
  one,      \* The byte readLineWiping reads into.
  heap      \* History: what was in the buffers when they were let go.

buffers == <<loop, origin, buf, one, heap>>

Loops == {"none", "all", "line", "content", "error"}

IsBuffer(b) ==
  /\ b.cap \in Nat
  /\ b \in [cap : {b.cap}, len : 0..b.cap, cell : [1..b.cap -> Cells]]

Fresh(c) == [cap |-> c, len |-> 0, cell |-> [i \in 1..c |-> Zero]]

NoBuffer == Fresh(0)

Content(b) == [i \in 1..b.len |-> b.cell[i]]

\* wipe, zeroBytes
Wiped(b, first, last) ==
  [cap |-> b.cap, len |-> b.len,
   cell |-> [i \in 1..b.cap |-> IF i \in first..last THEN Zero ELSE b.cell[i]]]

Zeroed(b) == Wiped(b, 1, b.len)

\* A trimmed newline is no secret; the code lets it go as it is.
Remains(b) == {b.cell[i] : i \in 1..b.cap} \ {Zero, Newline}

Discard(b) == heap' = heap \cup Remains(b)

Begin(kind, source) ==
  /\ loop' = kind
  /\ origin' = source
  /\ buf' = Fresh(IF kind = "line" THEN LineChunk ELSE Chunk)
  /\ UNCHANGED <<one, heap>>

-----------------------------------------------------------------------------
(* Growing.                                                                *)

\* Addition of two ints of w bits.
Add(a, b) ==
  IF a + b >= Half THEN a + b - 2 * Half
  ELSE IF a + b < -Half THEN a + b + 2 * Half ELSE a + b

GrownCap(c) == Add(Add(c, c), Chunk)

\* Mutant of Overflows: the new capacity is used as it comes out.
OverflowsNever(c) == FALSE

Overflows(c) == GrownCap(c) <= c

Grown(b, c) ==
  [cap |-> c, len |-> b.len,
   cell |-> [i \in 1..c |-> IF i <= b.len THEN b.cell[i] ELSE Zero]]

\* Mutant of Outgrown: as append grows, the old array is not wiped.
OutgrownAsIs(b) == b

\* What is left of a buffer after its content has moved.
Outgrown(b) == Zeroed(b)

-----------------------------------------------------------------------------
(* ReadAllWiping                                                           *)

Full == buf.len = buf.cap

Grow ==
  /\ loop = "all" /\ Full
  /\ ~Overflows(buf.cap)
  /\ buf' = Grown(buf, GrownCap(buf.cap))
  /\ Discard(Outgrown(buf))
  /\ UNCHANGED <<loop, origin, one>>

TooLarge ==
  /\ loop = "all" /\ Full
  /\ Overflows(buf.cap)
  /\ Discard(Zeroed(buf))
  /\ loop' = "error"
  /\ buf' = NoBuffer
  /\ UNCHANGED <<origin, one>>

\* After a Read that reported n items, and may have left scratch past them.
Filled(n, scribbles) ==
  [cap |-> buf.cap, len |-> buf.len + n,
   cell |-> [i \in 1..buf.cap |-> IF i <= buf.len THEN buf.cell[i]
                                  ELSE IF i <= buf.len + n THEN origin[i]
                                  ELSE IF scribbles THEN Scratch ELSE buf.cell[i]]]

Reads(n) ==
  /\ loop = "all" /\ ~Full
  /\ buf.len + n <= buf.cap
  /\ buf.len + n <= Len(origin)

ReadMore(n, scribbles) ==
  /\ Reads(n)
  /\ buf' = Filled(n, scribbles)
  /\ UNCHANGED <<loop, origin, one, heap>>

\* A failed Read can report items, and its error may wrap io.EOF.
Failures == {"wrapped EOF", "other"}

\* A bare io.EOF comes at the end of the source only.
MayReport(n, err) == err \in Failures \/ (err = "EOF" /\ buf.len + n = Len(origin))

\* Mutant of IsEnd: errors.Is instead of a comparison.
IsEndWrapped(err) == err \in {"EOF", "wrapped EOF"}

IsEnd(err) == err = "EOF"

ReadEnds(n, scribbles, err) ==
  /\ Reads(n) /\ MayReport(n, err) /\ IsEnd(err)
  /\ LET filled == Filled(n, scribbles)
     IN  buf' = Wiped(filled, filled.len + 1, filled.cap)
  /\ loop' = "content"
  /\ UNCHANGED <<origin, one, heap>>

ReadFails(n, scribbles, err) ==
  /\ Reads(n) /\ MayReport(n, err) /\ ~IsEnd(err)
  /\ Discard(Wiped(Filled(n, scribbles), 1, buf.cap))
  /\ loop' = "error"
  /\ buf' = NoBuffer
  /\ UNCHANGED <<origin, one>>

ReadAllWiping ==
  \/ Grow
  \/ TooLarge
  \/ \E n \in 0..buf.cap, scribbles \in BOOLEAN :
       \/ ReadMore(n, scribbles)
       \/ \E err \in Failures \cup {"EOF"} :
            ReadEnds(n, scribbles, err) \/ ReadFails(n, scribbles, err)

-----------------------------------------------------------------------------
(* readLineWiping.  A line of the terminal is at most a few KiB, so that   *)
(* its capacity is far from the width of an int.                           *)

NextByte == origin[buf.len + 1]

AtLineEnd == buf.len < Len(origin) => NextByte = Newline

Appended(b) ==
  [cap |-> b.cap, len |-> b.len + 1, cell |-> [b.cell EXCEPT ![b.len + 1] = NextByte]]

\* appendWiping
ReadByte ==
  /\ loop = "line"
  /\ ~AtLineEnd
  /\ IF Full THEN /\ buf' = Appended(Grown(buf, buf.cap + buf.cap + LineChunk))
                  /\ Discard(Outgrown(buf))
             ELSE /\ buf' = Appended(buf)
                  /\ UNCHANGED heap
  /\ one' = NextByte
  /\ UNCHANGED <<loop, origin>>

LineEnds ==
  /\ loop = "line"
  /\ AtLineEnd
  /\ loop' = "content"
  /\ one' = Zero
  /\ UNCHANGED <<origin, buf, heap>>

LineFails ==
  /\ loop = "line"
  /\ Discard(Zeroed(buf))
  /\ loop' = "error"
  /\ buf' = NoBuffer
  /\ one' = Zero
  /\ UNCHANGED origin

ReadLineWiping == ReadByte \/ LineEnds \/ LineFails

-----------------------------------------------------------------------------

BufferInit ==
  /\ loop = "none"
  /\ origin = <<>>
  /\ buf = NoBuffer
  /\ one = Zero
  /\ heap = {}

BufferTypeOK ==
  /\ loop \in Loops
  /\ origin \in Seq(Items)
  /\ IsBuffer(buf)
  /\ one \in Cells
  /\ heap \subseteq Cells
=============================================================================
