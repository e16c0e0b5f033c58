--------------------------- MODULE SequenceFacts ---------------------------
(***************************************************************************)
(* What the proofs use of sequences and of queues of consecutive numbers.  *)
(* They extend this short module rather than all of SequenceTheorems:      *)
(* every statement in scope costs time in each of their obligations.       *)
(***************************************************************************)
EXTENDS Integers, Sequences, Functions, TLAPS

\* Only the empty sequence has no elements.
LEMMA EmptySeq ==
  ASSUME NEW S
  PROVE  /\ <<>> \in Seq(S) /\ Len(<<>>) = 0
         /\ \A q \in Seq(S) : q # <<>> => Len(q) \in Nat \ {0}
OBVIOUS

\* A sequence is a function on 1 .. Len.
LEMMA LenProperties ==
  ASSUME NEW S, NEW q \in Seq(S)
  PROVE  Len(q) \in Nat /\ DOMAIN q = 1 .. Len(q) /\ q \in [1 .. Len(q) -> S]
OBVIOUS

\* Sequences with the same elements are the same.
LEMMA SeqEqual ==
  ASSUME NEW S, NEW p \in Seq(S), NEW q \in Seq(S),
         Len(p) = Len(q), \A i \in 1 .. Len(p) : p[i] = q[i]
  PROVE  p = q
OBVIOUS

\* Append adds one element behind the others.
LEMMA AppendProperties ==
  ASSUME NEW S, NEW q \in Seq(S), NEW x \in S
  PROVE  /\ Append(q, x) \in Seq(S) /\ Len(Append(q, x)) = Len(q) + 1
         /\ \A i \in 1 .. Len(q) : Append(q, x)[i] = q[i]
         /\ Append(q, x)[Len(q) + 1] = x
OBVIOUS

\* Head and Tail split a sequence after its first element.
LEMMA HeadTailProperties ==
  ASSUME NEW S, NEW q \in Seq(S), q # <<>>
  PROVE  /\ Head(q) \in S /\ Tail(q) \in Seq(S) /\ Len(Tail(q)) = Len(q) - 1
         /\ \A i \in 1 .. Len(q) - 1 : Tail(q)[i] = q[i + 1]
OBVIOUS

\* The elements of a concatenation.
LEMMA ConcatProperties ==
  ASSUME NEW S, NEW p \in Seq(S), NEW q \in Seq(S)
  PROVE  /\ p \o q \in Seq(S) /\ Len(p \o q) = Len(p) + Len(q)
         /\ \A i \in 1 .. Len(p) + Len(q) :
              (p \o q)[i] = IF i <= Len(p) THEN p[i] ELSE q[i - Len(p)]
OBVIOUS

\* Nothing is added by the empty sequence.
LEMMA ConcatEmptySeq ==
  ASSUME NEW S, NEW q \in Seq(S)
  PROVE  q \o <<>> = q
OBVIOUS

\* The elements of a part.
LEMMA SubSeqProperties ==
  ASSUME NEW S, NEW q, NEW m \in Int, NEW n \in Int, \A i \in m .. n : q[i] \in S
  PROVE  /\ SubSeq(q, m, n) \in Seq(S)
         /\ Len(SubSeq(q, m, n)) = IF m <= n THEN n - m + 1 ELSE 0
         /\ \A i \in 1 .. n - m + 1 : SubSeq(q, m, n)[i] = q[m + i - 1]
OBVIOUS

\* Whoever joins a queue comes last, and is in it once if not in it before.
LEMMA JoinQueue ==
  ASSUME NEW S, NEW q \in Seq(S), NEW x \in S
  PROVE  /\ Append(q, x) \in Seq(S) /\ Range(Append(q, x)) = Range(q) \cup {x}
         /\ IsInjective(q) /\ x \notin Range(q) => IsInjective(Append(q, x))
<1>1. /\ Append(q, x) \in Seq(S) /\ Len(Append(q, x)) = Len(q) + 1
      /\ \A i \in 1 .. Len(q) : Append(q, x)[i] = q[i]
      /\ Append(q, x)[Len(q) + 1] = x
  BY AppendProperties
<1>2. /\ Len(q) \in Nat /\ DOMAIN q = 1 .. Len(q)
      /\ DOMAIN Append(q, x) = 1 .. Len(q) + 1
  BY <1>1, LenProperties
<1>3. 1 .. Len(q) + 1 = (1 .. Len(q)) \cup {Len(q) + 1}
  BY <1>2
<1>4. Range(Append(q, x)) = Range(q) \cup {x}
  BY <1>1, <1>2, <1>3 DEF Range
<1>5. IsInjective(q) /\ x \notin Range(q) => IsInjective(Append(q, x))
  BY <1>1, <1>2, <1>3 DEF Range, IsInjective
<1> QED
  BY <1>1, <1>4, <1>5

\* The first leaves a queue; if nobody is in it twice, the others stay.
LEMMA LeaveQueue ==
  ASSUME NEW S, NEW q \in Seq(S), q # <<>>
  PROVE  /\ Head(q) \in S /\ Tail(q) \in Seq(S)
         /\ Head(q) \in Range(q) /\ Range(Tail(q)) \subseteq Range(q)
         /\ IsInjective(q) => IsInjective(Tail(q)) /\ Range(Tail(q)) = Range(q) \ {Head(q)}
<1>1. /\ Head(q) \in S /\ Tail(q) \in Seq(S) /\ Len(Tail(q)) = Len(q) - 1
      /\ \A i \in 1 .. Len(q) - 1 : Tail(q)[i] = q[i + 1]
  BY HeadTailProperties
<1>2. /\ Len(q) \in Nat \ {0} /\ DOMAIN q = 1 .. Len(q)
      /\ DOMAIN Tail(q) = 1 .. Len(q) - 1 /\ Head(q) = q[1]
  BY <1>1, LenProperties, EmptySeq
<1>3. 1 \in DOMAIN q /\ \A i \in DOMAIN Tail(q) : i + 1 \in DOMAIN q /\ i + 1 # 1
  BY <1>2
<1>4. \A i \in DOMAIN q \ {1} : i - 1 \in DOMAIN Tail(q) /\ q[i] = Tail(q)[i - 1]
  BY <1>1, <1>2
<1>5. Head(q) \in Range(q) /\ Range(Tail(q)) \subseteq Range(q)
  BY <1>1, <1>2, <1>3 DEF Range
<1>6. Range(q) \subseteq Range(Tail(q)) \cup {Head(q)}
  BY <1>2, <1>4 DEF Range
<1>7. ASSUME IsInjective(q) PROVE Head(q) \notin Range(Tail(q))
  BY <1>1, <1>2, <1>3, <1>7 DEF Range, IsInjective
<1>8. ASSUME IsInjective(q) PROVE IsInjective(Tail(q))
  <2> SUFFICES ASSUME NEW i \in DOMAIN Tail(q), NEW j \in DOMAIN Tail(q), Tail(q)[i] = Tail(q)[j]
               PROVE  i = j
    BY DEF IsInjective
  <2>1. i + 1 = j + 1
    BY <1>1, <1>2, <1>3, <1>8, SMTT(20) DEF IsInjective
  <2> QED
    BY <1>2, <2>1
<1> QED
  BY <1>1, <1>5, <1>6, <1>7, <1>8

\* Appending to the second part appends to the whole.
LEMMA ConcatAppend ==
  ASSUME NEW S, NEW p \in Seq(S), NEW q \in Seq(S), NEW x \in S
  PROVE  p \o Append(q, x) = Append(p \o q, x)
<1>1. Append(q, x) \in Seq(S) /\ p \o q \in Seq(S)
  BY AppendProperties, ConcatProperties
<1> DEFINE l == p \o Append(q, x)
           r == Append(p \o q, x)
<1>2. l \in Seq(S) /\ r \in Seq(S) /\ Len(l) = Len(r)
  BY <1>1
<1>3. \A i \in 1 .. Len(l) : l[i] = r[i]
  BY <1>1
<1> QED
  BY <1>2, <1>3, SeqEqual

\* The first of the whole is the first of the first part.
LEMMA ConcatTail ==
  ASSUME NEW S, NEW p \in Seq(S), NEW q \in Seq(S), p # <<>>
  PROVE  p \o q # <<>> /\ Tail(p \o q) = Tail(p) \o q
<1>1. Tail(p) \in Seq(S) /\ p \o q \in Seq(S) /\ p \o q # <<>>
  OBVIOUS
<1> DEFINE l == Tail(p \o q)
           r == Tail(p) \o q
<1>2. l \in Seq(S) /\ r \in Seq(S) /\ Len(l) = Len(r)
  BY <1>1
<1>3. \A i \in 1 .. Len(l) : l[i] = r[i]
  BY <1>1
<1> QED
  BY <1>1, <1>2, <1>3, SeqEqual

\* A queue of the numbers after g up to a, in order.
Numbered(q, a, g) ==
  /\ g <= a /\ Len(q) = a - g
  /\ \A i \in 1 .. a - g : q[i] = g + i

\* The next number is appended.
LEMMA NumberedAppend ==
  ASSUME NEW q \in Seq(Nat), NEW a \in Nat, NEW g \in Nat, Numbered(q, a, g)
  PROVE  Numbered(Append(q, a + 1), a + 1, g)
<1>1. g <= a + 1 /\ Len(Append(q, a + 1)) = a + 1 - g
  BY AppendProperties DEF Numbered
<1>2. ASSUME NEW i \in 1 .. a + 1 - g PROVE Append(q, a + 1)[i] = g + i
  <2>1. CASE i <= a - g
    <3>1. i \in 1 .. a - g /\ i \in 1 .. Len(q)
      BY <2>1 DEF Numbered
    <3>2. Append(q, a + 1)[i] = q[i]
      BY <3>1, AppendProperties
    <3> QED
      BY <3>1, <3>2, Zenon DEF Numbered
  <2>2. CASE i > a - g
    <3>1. i = Len(q) + 1 /\ g + i = a + 1
      BY <2>2 DEF Numbered
    <3>2. Append(q, a + 1)[Len(q) + 1] = a + 1
      BY AppendProperties
    <3> QED
      BY <3>1, <3>2, Zenon
  <2>3. i <= a - g \/ i > a - g
    OBVIOUS
  <2> QED
    BY <2>1, <2>2, <2>3, Zenon
<1> QED
  BY <1>1, <1>2 DEF Numbered

\* The first number is taken.
LEMMA NumberedTail ==
  ASSUME NEW q \in Seq(Nat), NEW a \in Nat, NEW g \in Nat, Numbered(q, a, g), q # <<>>
  PROVE  Numbered(Tail(q), a, g + 1)
<1>1. Len(q) \in Nat \ {0} /\ Len(Tail(q)) = Len(q) - 1
  OBVIOUS
<1>2. g + 1 <= a /\ Len(Tail(q)) = a - (g + 1)
  BY <1>1 DEF Numbered
<1>3. ASSUME NEW i \in 1 .. a - (g + 1) PROVE Tail(q)[i] = g + 1 + i
  <2>1. i \in 1 .. Len(q) - 1 /\ i + 1 \in 1 .. a - g
    BY <1>1, <1>2
  <2>2. Tail(q)[i] = q[i + 1] /\ q[i + 1] = g + (i + 1)
    BY <2>1, HeadTailProperties DEF Numbered
  <2>3. g + (i + 1) = g + 1 + i
    BY <2>1
  <2> QED
    BY <2>2, <2>3, Zenon
<1> QED
  BY <1>2, <1>3 DEF Numbered

\* The same for the numbers split in two queues: one arrives in the second, ...
LEMMA NumberedArrives ==
  ASSUME NEW b \in Seq(Nat), NEW f \in Seq(Nat), NEW a \in Nat, NEW g \in Nat,
         Numbered(b \o f, a, g)
  PROVE  Numbered(b \o Append(f, a + 1), a + 1, g)
<1>1. PICK q \in Seq(Nat) : q = b \o f
  BY ConcatProperties, Zenon
<1>2. PICK x \in Nat : x = a + 1
  OBVIOUS
<1>3. b \o Append(f, x) = Append(q, x)
  <2>1. b \o Append(f, x) = Append(b \o f, x)
    BY ConcatAppend, SMTT(60)
  <2> QED
    BY <1>1, <2>1, Zenon
<1>4. Numbered(Append(q, x), x, g)
  BY <1>1, <1>2, NumberedAppend, Zenon
<1> QED
  BY <1>2, <1>3, <1>4, Zenon

\* ... one is taken from the first, ...
LEMMA NumberedTaken ==
  ASSUME NEW b \in Seq(Nat), NEW f \in Seq(Nat), NEW a \in Nat, NEW g \in Nat,
         Numbered(b \o f, a, g), b # <<>>
  PROVE  Numbered(Tail(b) \o f, a, g + 1)
<1>1. PICK q \in Seq(Nat) : q = b \o f
  BY ConcatProperties, Zenon
<1>2. q # <<>> /\ Tail(b) \o f = Tail(q)
  BY <1>1, ConcatTail, Zenon
<1> QED
  BY <1>1, <1>2, NumberedTail, Zenon

\* ... or the second is moved behind the first.
LEMMA NumberedMoved ==
  ASSUME NEW b \in Seq(Nat), NEW f \in Seq(Nat), NEW a, NEW g, Numbered(b \o f, a, g)
  PROVE  Numbered((b \o f) \o <<>>, a, g)
<1>1. PICK q \in Seq(Nat) : q = b \o f
  BY ConcatProperties, Zenon
<1> QED
  BY <1>1, ConcatEmptySeq, Zenon
=============================================================================
