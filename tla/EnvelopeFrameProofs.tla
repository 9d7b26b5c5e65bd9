------------------------- MODULE EnvelopeFrameProofs -------------------------
(***************************************************************************)
(* Opening inverts sealing, for every value: what a value looks like is    *)
(* irrelevant, since no header line is empty and the header comes first.   *)
(***************************************************************************)
EXTENDS EnvelopeFrame, SequenceTheorems, TLAPS

\* What is in a concatenation, in front and behind.
LEMMA Concatenated ==
  ASSUME NEW s \in Seq(Line), NEW t \in Seq(Line)
  PROVE  /\ s \o t \in Seq(Line)
         /\ Len(s \o t) = Len(s) + Len(t)
         /\ \A i \in 1..Len(s) : (s \o t)[i] = s[i]
         /\ \A i \in 1..Len(t) : (s \o t)[Len(s) + i] = t[i]
<1>1. Len(s) \in Nat /\ Len(t) \in Nat
  OBVIOUS
<1>. QED
  BY <1>1, ConcatProperties

\* Cutting a concatenation after its front leaves its back.
LEMMA AfterFront ==
  ASSUME NEW s \in Seq(Line), NEW t \in Seq(Line), t # <<>>
  PROVE  After(s \o t, Len(s)) = t
<1> DEFINE h == Len(s)
<1>1. PICK p : p = s \o t
  OBVIOUS
<1>2. /\ h \in Nat /\ Len(t) \in Nat \ {0}
      /\ p \in Seq(Line) /\ Len(p) = h + Len(t)
      /\ \A i \in 1..Len(t) : p[h + i] = t[i]
  BY <1>1, Concatenated, EmptySeq
<1> HIDE DEF h
<1>3. \A i \in (h + 1)..Len(p) : p[i] \in Line
  BY <1>2, ElementOfSeq
<1>4. /\ After(p, h) \in Seq(Line)
      /\ Len(After(p, h)) = IF h + 1 <= Len(p) THEN Len(p) - (h + 1) + 1 ELSE 0
      /\ \A i \in 1..(Len(p) - (h + 1) + 1) : After(p, h)[i] = p[(h + 1) + i - 1]
  BY <1>2, <1>3, SubSeqProperties DEF After
<1>5. Len(After(p, h)) = Len(t)
  BY <1>2, <1>4
<1>6. \A i \in 1..Len(t) : After(p, h)[i] = t[i]
  <2> TAKE i \in 1..Len(t)
  <2>1. i \in 1..(Len(p) - (h + 1) + 1) /\ (h + 1) + i - 1 = h + i
    BY <1>2
  <2>. QED
    BY <1>2, <1>4, <2>1
<1>. QED
  BY <1>1, <1>4, <1>5, <1>6, SeqEqual DEF h

Present(content) == IF content = None THEN 0 ELSE 1

\* A header is the tag, the address, at most one line for each bound field,
\* in their order, and the blank line.
LEMMA HeaderShape ==
  ASSUME NEW a \in Addresses, NEW bound \in Bound
  PROVE  /\ Header(a, bound) \in Seq(Line)
         /\ Len(Header(a, bound)) = 3 + Present(bound.env) + Present(bound.expires)
         /\ Header(a, bound)[1] = Tag
         /\ Header(a, bound)[2] = AddressLine(a)
         /\ bound.env # None => Header(a, bound)[3] = EnvLine(bound.env)
         /\ bound.expires # None =>
              Header(a, bound)[3 + Present(bound.env)] = ExpiryLine(bound.expires)
         /\ Header(a, bound)[Len(Header(a, bound))] = Blank
<1> DEFINE H == Header(a, bound)
           e == Present(bound.env)
           x == Present(bound.expires)
           S == <<Tag, AddressLine(a)>>
           E == Optional(EnvLine(bound.env), bound.env)
           X == Optional(ExpiryLine(bound.expires), bound.expires)
           B == <<Blank>>
<1>1. Tag \in Line /\ Blank \in Line /\ AddressLine(a) \in Line
  BY DEF Line
<1>2. /\ bound.env # None => EnvLine(bound.env) \in Line
      /\ bound.expires # None => ExpiryLine(bound.expires) \in Line
  BY DEF Line, Bound
<1>3. S \in Seq(Line) /\ Len(S) = 2 /\ S[1] = Tag /\ S[2] = AddressLine(a)
  BY <1>1
<1>4. E \in Seq(Line) /\ Len(E) = e /\ (bound.env # None => e = 1 /\ E[1] = EnvLine(bound.env))
  BY <1>2 DEF Optional, Present
<1>5. /\ X \in Seq(Line) /\ Len(X) = x
      /\ bound.expires # None => x = 1 /\ X[1] = ExpiryLine(bound.expires)
  BY <1>2 DEF Optional, Present
<1>6. B \in Seq(Line) /\ Len(B) = 1 /\ B[1] = Blank
  BY <1>1
<1>7. e \in {0, 1} /\ x \in {0, 1}
  BY DEF Present
<1>8. H = ((S \o E) \o X) \o B
  BY DEF Header
<1> HIDE DEF H, e, x, S, E, X, B
<1>9. PICK SE : SE = S \o E
  OBVIOUS
<1>10. /\ SE \in Seq(Line) /\ Len(SE) = 2 + e
       /\ SE[1] = Tag /\ SE[2] = AddressLine(a)
       /\ bound.env # None => SE[3] = EnvLine(bound.env)
  <2>1. /\ SE \in Seq(Line) /\ Len(SE) = Len(S) + Len(E)
        /\ \A i \in 1..Len(S) : SE[i] = S[i]
        /\ \A i \in 1..Len(E) : SE[Len(S) + i] = E[i]
    BY <1>3, <1>4, <1>9, Concatenated
  <2>. QED
    BY <1>3, <1>4, <1>7, <2>1
<1>11. PICK SEX : SEX = SE \o X
  OBVIOUS
<1>12. /\ SEX \in Seq(Line) /\ Len(SEX) = 2 + e + x
       /\ SEX[1] = Tag /\ SEX[2] = AddressLine(a)
       /\ bound.env # None => SEX[3] = EnvLine(bound.env)
       /\ bound.expires # None => SEX[3 + e] = ExpiryLine(bound.expires)
  <2>1. /\ SEX \in Seq(Line) /\ Len(SEX) = Len(SE) + Len(X)
        /\ \A i \in 1..Len(SE) : SEX[i] = SE[i]
        /\ \A i \in 1..Len(X) : SEX[Len(SE) + i] = X[i]
    BY <1>5, <1>10, <1>11, Concatenated
  <2>2. bound.expires # None => SEX[3 + e] = ExpiryLine(bound.expires)
    <3>1. (2 + e) + 1 = 3 + e /\ 1 \in 1..1
      BY <1>7
    <3>. QED
      BY <1>5, <1>10, <2>1, <3>1
  <2>. QED
    BY <1>4, <1>5, <1>7, <1>10, <2>1, <2>2
<1>13. H = SEX \o B
  BY <1>8, <1>9, <1>11
<1>14. /\ H \in Seq(Line) /\ Len(H) = 3 + e + x
       /\ \A i \in 1..(2 + e + x) : H[i] = SEX[i]
       /\ H[3 + e + x] = Blank
  <2>1. /\ H \in Seq(Line) /\ Len(H) = Len(SEX) + Len(B)
        /\ \A i \in 1..Len(SEX) : H[i] = SEX[i]
        /\ \A i \in 1..Len(B) : H[Len(SEX) + i] = B[i]
    BY <1>6, <1>12, <1>13, Concatenated
  <2>2. (2 + e + x) + 1 = 3 + e + x /\ 1 \in 1..1
    BY <1>7
  <2>. QED
    BY <1>6, <1>12, <2>1, <2>2
<1>15. /\ 1 \in 1..(2 + e + x) /\ 2 \in 1..(2 + e + x)
       /\ bound.env # None => 3 \in 1..(2 + e + x)
       /\ bound.expires # None => 3 + e \in 1..(2 + e + x)
  BY <1>4, <1>5, <1>7
<1>16. /\ H[1] = Tag /\ H[2] = AddressLine(a)
       /\ bound.env # None => H[3] = EnvLine(bound.env)
       /\ bound.expires # None => H[3 + e] = ExpiryLine(bound.expires)
  BY <1>12, <1>14, <1>15
<1>. QED
  BY <1>14, <1>16 DEF H, e, x

\* A frame is its header and then the value, as they are.
LEMMA FrameLines ==
  ASSUME NEW a \in Addresses, NEW bound \in Bound, NEW value \in Values
  PROVE  LET p == Frame(a, bound, value)
             h == Len(Header(a, bound))
         IN  /\ p \in Seq(Line)
             /\ h \in 3..5 /\ h < Len(p)
             /\ \A i \in 1..h : p[i] = Header(a, bound)[i]
             /\ After(p, h) = value
<1> DEFINE H == Header(a, bound)
           p == Frame(a, bound, value)
           h == Len(H)
<1>1. H \in Seq(Line) /\ h \in 3..5
  <2>1. Present(bound.env) \in {0, 1} /\ Present(bound.expires) \in {0, 1}
    BY DEF Present
  <2>2. H \in Seq(Line) /\ h = 3 + Present(bound.env) + Present(bound.expires)
    BY HeaderShape
  <2>. QED
    BY <2>1, <2>2
<1>2. value \in Seq(Line) /\ Len(value) \in Nat \ {0}
  BY FrameAssumption, EmptySeq
<1>3. p = H \o value
  BY DEF Frame
<1>4. After(p, h) = value
  BY <1>1, <1>2, <1>3, AfterFront, EmptySeq
<1> HIDE DEF H, p
<1>5. p \in Seq(Line) /\ Len(p) = h + Len(value) /\ \A i \in 1..h : p[i] = H[i]
  BY <1>1, <1>2, <1>3, Concatenated
<1>. QED
  BY <1>1, <1>2, <1>4, <1>5 DEF H, p

\* No header line before the last is blank, and the last one is.
LEMMA HeaderLines ==
  ASSUME NEW a \in Addresses, NEW bound \in Bound
  PROVE  LET H == Header(a, bound)
             h == Len(H)
         IN  /\ H[1] = Tag /\ H[2] = AddressLine(a) /\ H[h] = Blank
             /\ H[2] # Blank
             /\ \A j \in 3..(h - 1) : H[j].kind \in {"env", "expiry"} /\ H[j] # Blank
<1> DEFINE H == Header(a, bound)
           e == Present(bound.env)
           x == Present(bound.expires)
           h == Len(H)
<1>1. /\ h = 3 + e + x /\ H[1] = Tag /\ H[2] = AddressLine(a) /\ H[h] = Blank
      /\ bound.env # None => H[3] = EnvLine(bound.env)
      /\ bound.expires # None => H[3 + e] = ExpiryLine(bound.expires)
  BY HeaderShape
<1>2. /\ e \in {0, 1} /\ (e = 1 => bound.env # None)
      /\ x \in {0, 1} /\ (x = 1 => bound.expires # None)
  BY DEF Present
<1> HIDE DEF H, e, x
<1>3. AddressLine(a) # Blank
  BY DEF AddressLine, Blank
<1>4. ASSUME NEW j \in 3..(h - 1)
      PROVE  H[j].kind \in {"env", "expiry"} /\ H[j] # Blank
  <2>1. (j = 3 /\ e = 1) \/ (j = 3 + e /\ x = 1)
    BY <1>1, <1>2
  <2>2. H[j] = EnvLine(bound.env) \/ H[j] = ExpiryLine(bound.expires)
    BY <1>1, <1>2, <2>1
  <2>. QED
    BY <2>2 DEF EnvLine, ExpiryLine, Blank
<1>. QED
  BY <1>1, <1>3, <1>4 DEF H

\* The first blank line of a frame is the one that ends its header.
LEMMA FirstBlank ==
  ASSUME NEW a \in Addresses, NEW bound \in Bound, NEW value \in Values,
         NEW i \in 1..Len(Frame(a, bound, value))
  PROVE  Terminates(Frame(a, bound, value), i) <=> i = Len(Header(a, bound))
<1> DEFINE H == Header(a, bound)
           p == Frame(a, bound, value)
           h == Len(H)
<1>1. /\ p \in Seq(Line) /\ h \in 3..5 /\ h < Len(p) /\ Len(p) \in Nat
      /\ \A j \in 1..h : p[j] = H[j]
  BY FrameLines
<1>2. /\ H[h] = Blank /\ H[2] # Blank
      /\ \A j \in 3..(h - 1) : H[j] # Blank
  BY HeaderLines
<1> HIDE DEF H, p, h
<1>3. p[h] = Blank /\ \A j \in 2..(h - 1) : p[j] # Blank
  <2>1. h \in 1..h /\ \A j \in 2..(h - 1) : j \in 1..h /\ (j = 2 \/ j \in 3..(h - 1))
    BY <1>1
  <2>. QED
    BY <1>1, <1>2, <2>1
<1>4. Terminates(p, i) <=> i = h
  <2>1. i \in 1..Len(p)
    BY DEF p
  <2>2. ASSUME Terminates(p, i)
        PROVE  i = h
    <3>1. i \in 2..(Len(p) - 1) /\ p[i] = Blank /\ \A j \in 2..(i - 1) : p[j] # Blank
      BY <2>2 DEF Terminates
    <3>. QED
      BY <1>1, <1>3, <3>1
  <2>3. h \in 2..(Len(p) - 1)
    BY <1>1
  <2>. QED
    BY <1>3, <2>2, <2>3 DEF Terminates
<1>. QED
  BY <1>4 DEF H, p, h

\* The bound metadata is read back from the header as it was framed.
LEMMA BoundCarried ==
  ASSUME NEW a \in Addresses, NEW bound \in Bound, NEW value \in Values
  PROVE  LET p == Frame(a, bound, value)
             h == Len(Header(a, bound))
         IN  Carried("env", p, h) = bound.env /\ Carried("expiry", p, h) = bound.expires
<1> DEFINE H == Header(a, bound)
           p == Frame(a, bound, value)
           e == Present(bound.env)
           x == Present(bound.expires)
           h == Len(H)
<1>1. \A j \in 1..h : p[j] = H[j]
  BY FrameLines
<1>2. /\ h = 3 + e + x
      /\ bound.env # None => H[3] = EnvLine(bound.env)
      /\ bound.expires # None => H[3 + e] = ExpiryLine(bound.expires)
  BY HeaderShape
<1>3. /\ e \in {0, 1} /\ (e = 1 <=> bound.env # None)
      /\ x \in {0, 1} /\ (x = 1 <=> bound.expires # None)
  BY DEF Present
<1> HIDE DEF H, p, e, x
<1>4. bound.env # None => p[3] = EnvLine(bound.env)
  <2>1. bound.env # None => 3 \in 1..h
    BY <1>2, <1>3
  <2>. QED
    BY <1>1, <1>2, <2>1
<1>5. bound.expires # None => p[3 + e] = ExpiryLine(bound.expires)
  <2>1. bound.expires # None => 3 + e \in 1..h
    BY <1>2, <1>3
  <2>. QED
    BY <1>1, <1>2, <2>1
<1> DEFINE At(kind) == {j \in 3..(h - 1) : p[j].kind = kind}
<1>6. At("env") = IF bound.env = None THEN {} ELSE {3}
  <2>1. \A j \in 3..(h - 1) : (j = 3 /\ e = 1) \/ (j = 3 + e /\ x = 1)
    BY <1>2, <1>3
  <2>2. bound.env # None => 3 \in 3..(h - 1) /\ p[3].kind = "env"
    BY <1>2, <1>3, <1>4 DEF EnvLine
  <2>3. bound.expires # None => p[3 + e].kind = "expiry"
    BY <1>5 DEF ExpiryLine
  <2>. QED
    BY <1>3, <2>1, <2>2, <2>3
<1>7. At("expiry") = IF bound.expires = None THEN {} ELSE {3 + e}
  <2>1. \A j \in 3..(h - 1) : (j = 3 /\ e = 1) \/ (j = 3 + e /\ x = 1)
    BY <1>2, <1>3
  <2>2. bound.env # None => p[3].kind = "env"
    BY <1>4 DEF EnvLine
  <2>3. bound.expires # None => 3 + e \in 3..(h - 1) /\ p[3 + e].kind = "expiry"
    BY <1>2, <1>3, <1>5 DEF ExpiryLine
  <2>. QED
    BY <1>3, <2>1, <2>2, <2>3
<1>8. \A m \in Int : (CHOOSE j \in {m} : \A k \in {m} : k <= j) = m
  OBVIOUS
<1>9. Carried("env", p, h) = bound.env
  <2>1. CASE bound.env = None
    BY <1>6, <2>1 DEF Carried
  <2>2. CASE bound.env # None
    <3>1. Carried("env", p, h) = p[CHOOSE j \in {3} : \A k \in {3} : k <= j].of
      BY <1>6, <2>2 DEF Carried
    <3>. QED
      BY <1>4, <1>8, <2>2, <3>1 DEF EnvLine
  <2>. QED
    BY <2>1, <2>2
<1>10. Carried("expiry", p, h) = bound.expires
  <2>1. CASE bound.expires = None
    BY <1>7, <2>1 DEF Carried
  <2>2. CASE bound.expires # None
    <3>1. Carried("expiry", p, h) = p[CHOOSE j \in {3 + e} : \A k \in {3 + e} : k <= j].of
      BY <1>7, <2>2 DEF Carried
    <3>2. 3 + e \in Int
      BY <1>3
    <3>. QED
      BY <1>5, <1>8, <2>2, <3>1, <3>2 DEF ExpiryLine
  <2>. QED
    BY <2>1, <2>2
<1>. QED
  BY <1>9, <1>10 DEF H, p

\* Open gives back what Seal framed for this address, and refuses what was
\* framed for another.
LEMMA OpenFrame ==
  ASSUME NEW a \in Addresses, NEW b \in Addresses,
         NEW bound \in Bound, NEW value \in Values
  PROVE  Open(a, Frame(b, bound, value)) =
           IF a = b THEN [value |-> value, bound |-> bound] ELSE Refused
<1> DEFINE p == Frame(b, bound, value)
           h == Len(Header(b, bound))
<1>1. /\ h \in 3..5 /\ h < Len(p) /\ Len(p) \in Nat
      /\ \A j \in 1..h : p[j] = Header(b, bound)[j]
      /\ After(p, h) = value
  BY FrameLines
<1>2. p[1] = Tag /\ p[2] = AddressLine(b)
  BY <1>1, HeaderLines
<1>3. \A j \in 3..(h - 1) : p[j].kind \in {"env", "expiry"}
  BY <1>1, HeaderLines, SMTT(30)
<1>4. \A i \in 1..Len(p) : Terminates(p, i) <=> i = h
  BY FirstBlank
<1>5. Carried("env", p, h) = bound.env /\ Carried("expiry", p, h) = bound.expires
  BY BoundCarried
<1> HIDE DEF p, h
<1>6. AddressLine(b) = AddressLine(a) <=> a = b
  BY DEF AddressLine
<1>7. \A i \in 1..Len(p) : Parses(a, p, i) <=> a = b /\ i = h
  BY <1>1, <1>2, <1>3, <1>4, <1>6 DEF Parses
<1>8. CASE a = b
  <2>1. h \in 1..Len(p) /\ Parses(a, p, h)
    BY <1>1, <1>7, <1>8
  <2>2. (CHOOSE i \in 1..Len(p) : Parses(a, p, i)) = h
    BY <1>7, <2>1
  <2>3. Open(a, p) = ParsedAt(p, h)
    BY <2>1, <2>2 DEF Open
  <2>4. bound = [env |-> bound.env, expires |-> bound.expires]
    BY DEF Bound
  <2>. QED
    BY <1>1, <1>5, <1>8, <2>3, <2>4 DEF ParsedAt, p
<1>9. CASE a # b
  BY <1>7, <1>9 DEF Open, p
<1>. QED
  BY <1>8, <1>9

\* What follows the address of a legacy frame is its value.
LEMMA LegacyLines ==
  ASSUME NEW a \in Addresses, NEW value \in Values
  PROVE  LET p == LegacyFrame(a, value)
         IN  /\ p \in Seq(Line) /\ Len(p) >= 2
             /\ p[1] = AddressLine(a)
             /\ After(p, 1) = value
<1> DEFINE p == LegacyFrame(a, value)
           L == <<AddressLine(a)>>
<1>1. L \in Seq(Line) /\ Len(L) = 1 /\ L[1] = AddressLine(a)
  BY DEF Line
<1>2. value \in Seq(Line) /\ Len(value) \in Nat \ {0}
  BY FrameAssumption, EmptySeq
<1>3. p = L \o value
  BY DEF LegacyFrame
<1>4. After(p, Len(L)) = value
  BY <1>1, <1>2, <1>3, AfterFront, EmptySeq
<1> HIDE DEF p, L
<1>5. p \in Seq(Line) /\ Len(p) = Len(L) + Len(value) /\ \A i \in 1..Len(L) : p[i] = L[i]
  BY <1>1, <1>2, <1>3, Concatenated
<1>. QED
  BY <1>1, <1>2, <1>4, <1>5 DEF p

\* What Open and OpenLegacy should return for what was sealed as s.
Expected(a, s, legacy) ==
  IF s.address = a /\ s.legacy = legacy
    THEN [value |-> s.value, bound |-> IF legacy THEN None ELSE s.bound]
    ELSE Refused

\* The two formats never open as each other, no envelope opens as another
\* row's, and what opens is exactly what was sealed, whatever the value:
\* parseFrame and OpenLegacy against buildHeader and Seal.
THEOREM OpenInverts ==
  ASSUME NEW a \in Addresses, NEW s \in Sealed
  PROVE  /\ Open(a, Payload(s)) = Expected(a, s, FALSE)
         /\ OpenLegacy(a, Payload(s)) = Expected(a, s, TRUE)
<1>1. /\ s.address \in Addresses /\ s.legacy \in BOOLEAN
      /\ s.bound \in Bound /\ s.value \in Values
  BY DEF Sealed
<1>2. AddressLine(s.address) = AddressLine(a) <=> s.address = a
  BY DEF AddressLine
<1>3. \A b : AddressLine(b) # Tag
  BY DEF AddressLine, Tag
<1>4. CASE s.legacy
  <2> DEFINE p == LegacyFrame(s.address, s.value)
  <2>1. Payload(s) = p
    BY <1>4 DEF Payload
  <2>2. Len(p) >= 2 /\ p[1] = AddressLine(s.address) /\ After(p, 1) = s.value
    BY <1>1, LegacyLines
  <2> HIDE DEF p
  <2>3. Open(a, p) = Refused
    BY <1>3, <2>2 DEF Open, Parses
  <2>4. OpenLegacy(a, p) = Expected(a, s, TRUE)
    BY <1>1, <1>2, <1>4, <2>2 DEF OpenLegacy, Expected
  <2>. QED
    BY <1>4, <2>1, <2>3, <2>4 DEF Expected
<1>5. CASE ~s.legacy
  <2> DEFINE p == Frame(s.address, s.bound, s.value)
  <2>1. Payload(s) = p
    BY <1>5 DEF Payload
  <2>2. Open(a, p) = IF a = s.address THEN [value |-> s.value, bound |-> s.bound] ELSE Refused
    BY <1>1, OpenFrame
  <2>3. p[1] = Tag
    <3>1. /\ Len(Header(s.address, s.bound)) \in 3..5
          /\ \A j \in 1..Len(Header(s.address, s.bound)) : p[j] = Header(s.address, s.bound)[j]
      BY <1>1, FrameLines
    <3>. QED
      BY <1>1, <3>1, HeaderLines
  <2> HIDE DEF p
  <2>4. OpenLegacy(a, p) = Refused
    BY <1>3, <2>3 DEF OpenLegacy
  <2>. QED
    BY <1>1, <1>5, <2>1, <2>2, <2>4 DEF Expected
<1>. QED
  BY <1>1, <1>4, <1>5
=============================================================================
