---------------------------- MODULE EnvelopeFrame ----------------------------
(***************************************************************************)
(* What is inside an envelope: the value behind a header with the address  *)
(* of its row and its bound metadata, or behind the address alone in the   *)
(* previous format.  A payload is the sequence of its lines, what its      *)
(* newlines separate; the lines of a value may look like any other line.   *)
(***************************************************************************)
EXTENDS Integers, Sequences

CONSTANTS
  Addresses, EnvNames, Expiries,
  Texts,    \* Lines that begin with no prefix and are nothing below.
  Values,   \* Plaintexts, as sequences of lines.
  None

Tag == [kind |-> "tag", of |-> None]       \* envelopeVersion
Blank == [kind |-> "blank", of |-> None]
AddressLine(a) == [kind |-> "address", of |-> a]
EnvLine(e) == [kind |-> "env", of |-> e]
ExpiryLine(x) == [kind |-> "expiry", of |-> x]

Line ==
  {Tag, Blank}
    \cup {AddressLine(a) : a \in Addresses}
    \cup {EnvLine(e) : e \in EnvNames}
    \cup {ExpiryLine(x) : x \in Expiries}
    \cup [kind : {"text"}, of : Texts]

Bound == [env : EnvNames \cup {None}, expires : Expiries \cup {None}]

ASSUME FrameAssumption ==
  /\ None \notin EnvNames \cup Expiries
  /\ Values \subseteq Seq(Line) \ {<<>>}

Optional(line, content) == IF content = None THEN <<>> ELSE <<line>>

\* buildHeader; Seal refuses a newline in what it frames (see Migration).
Header(a, bound) ==
  <<Tag, AddressLine(a)>>
    \o Optional(EnvLine(bound.env), bound.env)
    \o Optional(ExpiryLine(bound.expires), bound.expires)
    \o <<Blank>>

Frame(a, bound, value) == Header(a, bound) \o value
LegacyFrame(a, value) == <<AddressLine(a)>> \o value

\* What may be inside the envelope of a row.
Sealed == [address : Addresses, legacy : BOOLEAN, bound : Bound, value : Values]

Payload(s) ==
  IF s.legacy THEN LegacyFrame(s.address, s.value)
              ELSE Frame(s.address, s.bound, s.value)

Refused == [value |-> None, bound |-> None]

After(p, i) == SubSeq(p, i + 1, Len(p))

\* Mutant of Terminates: the value is cut at its last blank line.
TerminatesLast(p, i) ==
  /\ i \in 2..(Len(p) - 1)
  /\ p[i] = Blank
  /\ \A j \in (i + 1)..(Len(p) - 1) : p[j] # Blank

\* The first occurrence of headerTerminator, two newlines in a row.
Terminates(p, i) ==
  /\ i \in 2..(Len(p) - 1)
  /\ p[i] = Blank
  /\ \A j \in 2..(i - 1) : p[j] # Blank

\* Of header lines with one prefix, the last one counts.
Carried(kind, p, i) ==
  LET at == {j \in 3..(i - 1) : p[j].kind = kind}
  IN  IF at = {} THEN None ELSE p[CHOOSE j \in at : \A k \in at : k <= j].of

\* parseFrame, with the terminator at i.
Parses(a, p, i) ==
  /\ Terminates(p, i)
  /\ i > 2
  /\ p[1] = Tag
  /\ p[2] = AddressLine(a)
  /\ \A j \in 3..(i - 1) : p[j].kind \in {"env", "expiry"}

ParsedAt(p, i) ==
  [value |-> After(p, i),
   bound |-> [env |-> Carried("env", p, i), expires |-> Carried("expiry", p, i)]]

Open(a, p) ==
  IF \E i \in 1..Len(p) : Parses(a, p, i)
    THEN ParsedAt(p, CHOOSE i \in 1..Len(p) : Parses(a, p, i))
    ELSE Refused

\* The first line is the address, and there is a second one.
OpenLegacy(a, p) ==
  IF Len(p) >= 2 /\ p[1] = AddressLine(a)
    THEN [value |-> After(p, 1), bound |-> None]
    ELSE Refused
=============================================================================
