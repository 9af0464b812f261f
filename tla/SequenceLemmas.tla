--------------------------- MODULE SequenceLemmas ---------------------------
(***************************************************************************)
(* What the proofs need to know of data: sequences that are used as queues,  *)
(* as hands that hold one chunk and as runs of bytes; induction; and that a  *)
(* function defined by recursion is what its definition says.                *)
(***************************************************************************)
EXTENDS SequencesExt, SequenceTheorems, FiniteSetTheorems, TLAPS

\* What the front and the rest of a non-empty queue are.
LEMMA Popped ==
    ASSUME NEW S, NEW q \in Seq(S), q # <<>>
    PROVE  /\ Len(q) >= 1 /\ Head(q) \in S /\ Head(q) = q[1]
           /\ Tail(q) \in Seq(S) /\ Len(Tail(q)) = Len(q) - 1
           /\ \A i \in 1..Len(Tail(q)) : Tail(q)[i] = q[i + 1]
  OBVIOUS

\* A hand that holds one chunk.
LEMMA Single ==
    ASSUME NEW S, NEW e \in S
    PROVE  <<e>> \in Seq(S) /\ Len(<<e>>) = 1 /\ <<e>>[1] = e /\ <<e>> # <<>>
  OBVIOUS

\* A sequence of one element is the tuple of it.
LEMMA InOne == ASSUME NEW S, NEW h \in Seq(S), Len(h) = 1 PROVE h = <<h[1]>>
  BY SeqEqual

\* A hand holds nothing or one chunk.
LEMMA AtMostOne == ASSUME NEW S, NEW h \in Seq(S), Len(h) <= 1 PROVE Len(h) \in 0..1
<1>1. Len(h) \in Nat
  BY LenProperties
<1>2. \A k \in Nat : k <= 1 => k \in 0..1
  OBVIOUS
<1>3. QED
  BY <1>1, <1>2, Zenon

\* One element of a sequence is replaced by another.
LEMMA Replaced ==
    ASSUME NEW S, NEW s \in Seq(S), NEW i \in 1..Len(s), NEW e \in S,
           NEW t, t = [s EXCEPT ![i] = e]
    PROVE  /\ t \in Seq(S) /\ Len(t) = Len(s) /\ t[i] = e
           /\ \A j \in 1..Len(s) : j # i => t[j] = s[j]
  BY ExceptSeq

\* n successive positions of the stream, from b + 1 on.
Span(b, n) == [j \in 1..n |-> b + j]

\* They are a sequence.
LEMMA Positions ==
    ASSUME NEW n \in Nat, NEW b \in Nat
    PROVE  /\ Span(b, n) \in Seq(Nat) /\ Len(Span(b, n)) = n
           /\ \A j \in 1..n : Span(b, n)[j] = b + j
<1>1. \A j \in 1..n : b + j \in Nat
  OBVIOUS
<1>2. Span(b, n) \in [1..n -> Nat]
  BY <1>1 DEF Span
<1>3. QED
  BY <1>2 DEF Span

\* A sequence is the span of the positions it lists.
LEMMA IsSpan ==
    ASSUME NEW n \in Nat, NEW b \in Nat, NEW s \in Seq(Nat), Len(s) = n,
           \A j \in 1..n : s[j] = b + j
    PROVE  s = Span(b, n)
<1>1. /\ Span(b, n) \in Seq(Nat) /\ Len(Span(b, n)) = n
      /\ \A j \in 1..n : Span(b, n)[j] = b + j
  BY Positions
<1>2. QED
  BY <1>1, SeqEqual

\* A run of positions cut after n of them.
LEMMA CutPositions ==
    ASSUME NEW b \in Nat, NEW m \in Nat, NEW n \in 0..m
    PROVE  /\ SubSeq(Span(b, m), 1, n) = Span(b, n)
           /\ SubSeq(Span(b, m), n + 1, m) = Span(b + n, m - n)
<1> DEFINE s == Span(b, m)
<1>1. s \in Seq(Nat) /\ Len(s) = m /\ \A j \in 1..m : s[j] = b + j
  BY Positions
<1> HIDE DEF s
<1>2. /\ SubSeq(s, 1, n) \in Seq(Nat) /\ Len(SubSeq(s, 1, n)) = n
      /\ \A j \in 1..n : SubSeq(s, 1, n)[j] = b + j
  <2>1. /\ SubSeq(s, 1, n) \in Seq(Nat)
        /\ Len(SubSeq(s, 1, n)) = IF 1 <= n THEN n - 1 + 1 ELSE 0
        /\ \A j \in 1..(n - 1 + 1) : SubSeq(s, 1, n)[j] = s[1 + j - 1]
    BY <1>1, SubSeqProperties
  <2>2. ASSUME NEW j \in 1..n PROVE 1 + j - 1 = j /\ j \in 1..m /\ j \in 1..(n - 1 + 1)
    OBVIOUS
  <2>3. QED
    BY <1>1, <2>1, <2>2
<1>3. /\ SubSeq(s, n + 1, m) \in Seq(Nat) /\ Len(SubSeq(s, n + 1, m)) = m - n
      /\ \A j \in 1..(m - n) : SubSeq(s, n + 1, m)[j] = (b + n) + j
  <2>1. /\ SubSeq(s, n + 1, m) \in Seq(Nat)
        /\ Len(SubSeq(s, n + 1, m)) = IF n + 1 <= m THEN m - (n + 1) + 1 ELSE 0
        /\ \A j \in 1..(m - (n + 1) + 1) : SubSeq(s, n + 1, m)[j] = s[n + 1 + j - 1]
    BY <1>1, SubSeqProperties
  <2>2. m - (n + 1) + 1 = m - n
    OBVIOUS
  <2>3. ASSUME NEW j \in 1..(m - n)
        PROVE  /\ n + 1 + j - 1 = n + j /\ n + j \in 1..m /\ b + (n + j) = (b + n) + j
    OBVIOUS
  <2>4. QED
    BY <1>1, <2>1, <2>2, <2>3
<1>4. SubSeq(s, 1, n) = Span(b, n)
  <2>1. n \in Nat
    OBVIOUS
  <2>2. QED
    BY <1>2, <2>1, IsSpan
<1>5. SubSeq(s, n + 1, m) = Span(b + n, m - n)
  <2>1. m - n \in Nat /\ b + n \in Nat
    OBVIOUS
  <2>2. QED
    BY <1>3, <2>1, IsSpan
<1>6. QED
  BY <1>4, <1>5 DEF s

\* Two runs of positions, the second beginning where the first ends, are one.
LEMMA JoinPositions ==
    ASSUME NEW b \in Nat, NEW m \in Nat, NEW n \in Nat
    PROVE  Span(b, m) \o Span(b + m, n) = Span(b, m + n)
<1> DEFINE s == Span(b, m)
           t == Span(b + m, n)
<1>1. /\ s \in Seq(Nat) /\ Len(s) = m /\ t \in Seq(Nat) /\ Len(t) = n
      /\ \A j \in 1..m : s[j] = b + j
      /\ \A j \in 1..n : t[j] = (b + m) + j
  <2>1. b + m \in Nat
    OBVIOUS
  <2>2. QED
    BY <2>1, Positions
<1> HIDE DEF s, t
<1>2. /\ s \o t \in Seq(Nat) /\ Len(s \o t) = m + n
      /\ \A j \in 1..(m + n) : (s \o t)[j] = IF j <= m THEN s[j] ELSE t[j - m]
  <2>1. /\ s \o t \in Seq(Nat) /\ Len(s \o t) = Len(s) + Len(t)
        /\ \A j \in 1..(Len(s) + Len(t)) :
              (s \o t)[j] = IF j <= Len(s) THEN s[j] ELSE t[j - Len(s)]
    BY <1>1, ConcatProperties
  <2>2. Len(s) = m /\ Len(t) = n
    BY <1>1
  <2>3. QED
    BY <2>1, <2>2, Zenon
<1>3. ASSUME NEW j \in 1..(m + n) PROVE (s \o t)[j] = b + j
  <2>1. CASE j <= m
    BY <1>1, <1>2, <2>1
  <2>2. CASE ~(j <= m)
    <3>1. j - m \in 1..n /\ (b + m) + (j - m) = b + j
      BY <2>2
    <3>2. QED
      BY <1>1, <1>2, <2>2, <3>1
  <2>3. QED
    BY <2>1, <2>2
<1>4. s \o t = Span(b, m + n)
  <2>1. m + n \in Nat
    OBVIOUS
  <2>2. QED
    BY <1>2, <1>3, <2>1, IsSpan
<1>5. QED
  BY <1>4 DEF s, t
\* A sequence and another behind it.
LEMMA Joined ==
    ASSUME NEW S, NEW s \in Seq(S), NEW t \in Seq(S)
    PROVE  /\ s \o t \in Seq(S) /\ Len(s \o t) = Len(s) + Len(t)
           /\ \A j \in 1..Len(s) : (s \o t)[j] = s[j]
           /\ \A j \in 1..Len(t) : (s \o t)[Len(s) + j] = t[j]
<1> DEFINE u == s \o t
<1>1. /\ u \in Seq(S) /\ Len(u) = Len(s) + Len(t)
      /\ \A j \in 1..(Len(s) + Len(t)) : u[j] = IF j <= Len(s) THEN s[j] ELSE t[j - Len(s)]
  BY ConcatProperties
<1> HIDE DEF u
<1>2. Len(s) \in Nat /\ Len(t) \in Nat
  OBVIOUS
<1> DEFINE m == Len(s)
           n == Len(t)
<1> HIDE DEF m, n
<1>3. ASSUME NEW j \in 1..m PROVE u[j] = s[j]
  <2>1. j \in 1..m + n /\ j <= m
    BY <1>2 DEF m, n
  <2>2. QED
    BY <1>1, <2>1 DEF m, n
<1>4. ASSUME NEW j \in 1..n PROVE u[m + j] = t[j]
  <2>1. m + j \in 1..m + n /\ ~(m + j <= m) /\ (m + j) - m = j
    BY <1>2 DEF m, n
  <2>2. QED
    BY <1>1, <2>1 DEF m, n
<1>5. QED
  BY <1>1, <1>3, <1>4 DEF u, m, n

\* The part of a sequence after its first a elements and up to the b-th.
Section(s, a, b) == SubSeq(s, a + 1, b)

\* Its elements are those of the sequence.
IsSection(part, S, s, a, b) ==
    part \in Seq(S) /\ Len(part) = b - a /\ \A j \in 1..b - a : part[j] = s[a + j]
LEMMA SectionOf ==
    ASSUME NEW S, NEW s \in Seq(S), NEW b \in 0..Len(s), NEW a \in 0..b
    PROVE  IsSection(Section(s, a, b), S, s, a, b)
<1> DEFINE m == a + 1
           part == SubSeq(s, m, b)
<1>1. m \in Int /\ b \in Int /\ \A i \in m..b : s[i] \in S
  <2>1. Len(s) \in Nat /\ \A i \in 1..Len(s) : s[i] \in S
    OBVIOUS
  <2>2. \A i \in m..b : i \in 1..Len(s)
    BY <2>1
  <2>3. a + 1 \in Int /\ b \in Int
    BY <2>1
  <2>4. QED
    BY <2>1, <2>2, <2>3
<1>2. a \in Nat /\ b \in Nat /\ a <= b
  <2>1. Len(s) \in Nat
    OBVIOUS
  <2>2. QED
    BY <2>1
<1> HIDE DEF m
<1>3. /\ part \in Seq(S) /\ Len(part) = (IF m <= b THEN b - m + 1 ELSE 0)
      /\ \A i \in 1..b - m + 1 : part[i] = s[m + i - 1]
  BY <1>1, SubSeqProperties
<1> HIDE DEF part
<1>4. /\ (IF m <= b THEN b - m + 1 ELSE 0) = b - a
      /\ \A j \in 1..b - a : j \in 1..b - m + 1 /\ m + j - 1 = a + j
  BY <1>2 DEF m
<1>5. Len(part) = b - a /\ \A j \in 1..b - a : part[j] = s[a + j]
  BY <1>3, <1>4
<1>6. QED
  BY <1>3, <1>5 DEF part, m, Section, IsSection

\* A buffer has a piece from the byte after the p-th on.
Holds(bytes, p, piece) ==
    p + Len(piece) <= Len(bytes) /\ \A j \in 1..Len(piece) : bytes[p + j] = piece[j]

\* A section is some sequence when its elements are those of it.
SectionTest(s, a, t) ==
    Section(s, a, a + Len(t)) = t <=> \A j \in 1..Len(t) : s[a + j] = t[j]

\* This holds wherever there is a section of that length.
LEMMA SectionIs ==
    ASSUME NEW S, NEW s \in Seq(S), NEW t \in Seq(S), NEW a \in Nat, a + Len(t) <= Len(s)
    PROVE  SectionTest(s, a, t)
<1> DEFINE d == Len(t)
           x == Section(s, a, a + d)
<1>1. a + d \in 0..Len(s) /\ a \in 0..a + d /\ (a + d) - a = d
  OBVIOUS
<1>2. IsSection(Section(s, a, a + d), S, s, a, a + d)
  BY <1>1, SectionOf, Zenon
<1>3. x \in Seq(S) /\ Len(x) = d /\ \A j \in 1..d : x[j] = s[a + j]
  BY <1>1, <1>2, Zenon DEF IsSection
<1> HIDE DEF x
<1>4. x = t <=> \A j \in 1..d : x[j] = t[j]
  BY <1>3, SeqEqual
<1>5. x = t <=> \A j \in 1..d : s[a + j] = t[j]
  BY <1>3, <1>4, Zenon
<1>6. QED
  BY <1>5, Zenon DEF x, d, SectionTest

\* A buffer has the parts of what it has.
LEMMA HoldsParts ==
    ASSUME NEW S, NEW bytes \in Seq(S), NEW p \in Nat, NEW s \in Seq(S), NEW t \in Seq(S),
           Holds(bytes, p, s \o t)
    PROVE  Holds(bytes, p, s) /\ Holds(bytes, p + Len(s), t)
<1> DEFINE u == s \o t
           m == Len(s)
           n == Len(t)
<1>1. Len(u) = m + n /\ (\A j \in 1..m : u[j] = s[j]) /\ \A j \in 1..n : u[m + j] = t[j]
  BY Joined
<1>2. p + Len(u) <= Len(bytes) /\ \A j \in 1..Len(u) : bytes[p + j] = u[j]
  BY DEF Holds
<1>3. m \in Nat /\ n \in Nat /\ Len(bytes) \in Nat
  OBVIOUS
<1> HIDE DEF u, m, n
<1>4. \A j \in 1..m : bytes[p + j] = s[j]
  <2>1. \A j \in 1..m : j \in 1..Len(u)
    BY <1>1, <1>3
  <2>2. QED
    BY <1>1, <1>2, <2>1
<1>5. ASSUME NEW j \in 1..n PROVE bytes[(p + m) + j] = t[j]
  <2>1. m + j \in 1..m + n /\ (p + m) + j = p + (m + j)
    BY <1>3
  <2>2. QED
    BY <1>1, <1>2, <2>1
<1>6. p + m <= Len(bytes) /\ (p + m) + n <= Len(bytes)
  <2>1. p + (m + n) <= Len(bytes)
    BY <1>1, <1>2, Zenon
  <2>2. QED
    BY <1>3, <2>1
<1>7. QED
  BY <1>4, <1>5, <1>6 DEF Holds, m, n

\* What is left of the first bytes of a buffer begins with its next piece.
LEMMA NextPiece ==
    ASSUME NEW S, NEW bytes \in Seq(S), NEW limit \in 0..Len(bytes), NEW p \in 0..limit,
           NEW piece \in Seq(S), Holds(bytes, p, piece), p + Len(piece) <= limit,
           NEW rest, rest = Section(bytes, p, limit)
    PROVE  /\ Section(rest, 0, Len(piece)) = piece
           /\ Section(rest, Len(piece), Len(rest)) = Section(bytes, p + Len(piece), limit)
<1> DEFINE n == Len(piece)
           a == Section(rest, 0, n)
           b == Section(rest, n, Len(rest))
           c == Section(bytes, p + n, limit)
           k == limit - (p + n)
<1>1. n \in Nat /\ limit \in Nat /\ p \in Nat /\ Len(bytes) \in Nat /\ limit - p \in Nat
  OBVIOUS
<1>2. p + n <= Len(bytes) /\ \A j \in 1..n : bytes[p + j] = piece[j]
  BY DEF Holds
<1>3. /\ rest \in Seq(S) /\ Len(rest) = limit - p
      /\ \A j \in 1..limit - p : rest[j] = bytes[p + j]
  <2>1. IsSection(Section(bytes, p, limit), S, bytes, p, limit)
    BY SectionOf, Zenon
  <2>2. QED
    BY <2>1 DEF IsSection
<1>4. /\ n \in 0..Len(rest) /\ 0 \in 0..n /\ Len(rest) \in 0..Len(rest) /\ p + n \in 0..limit
      /\ n - 0 = n /\ Len(rest) - n = k /\ k \in Nat
  BY <1>1, <1>3
<1> HIDE DEF n
<1>5. a \in Seq(S) /\ Len(a) = n - 0 /\ \A j \in 1..n - 0 : a[j] = rest[0 + j]
  <2>1. IsSection(Section(rest, 0, n), S, rest, 0, n)
    BY <1>3, <1>4, SectionOf, Zenon
  <2>2. QED
    BY <2>1 DEF IsSection
<1>6. /\ b \in Seq(S) /\ Len(b) = Len(rest) - n
      /\ \A j \in 1..Len(rest) - n : b[j] = rest[n + j]
  <2>1. IsSection(Section(rest, n, Len(rest)), S, rest, n, Len(rest))
    BY <1>3, <1>4, SectionOf, Zenon
  <2>2. QED
    BY <2>1 DEF IsSection
<1>7. c \in Seq(S) /\ Len(c) = k /\ \A j \in 1..k : c[j] = bytes[(p + n) + j]
  <2>1. IsSection(Section(bytes, p + n, limit), S, bytes, p + n, limit)
    BY <1>4, SectionOf, Zenon
  <2>2. QED
    BY <1>4, <2>1 DEF IsSection
<1> HIDE DEF a, b, c
<1>8. a = piece
  <2>1. ASSUME NEW j \in 1..n PROVE a[j] = piece[j]
    <3>1. j \in 1..limit - p /\ 0 + j = j
      BY <1>1, <1>4
    <3>2. QED
      BY <1>2, <1>3, <1>4, <1>5, <3>1
  <2>2. Len(a) = Len(piece) /\ \A j \in 1..Len(a) : a[j] = piece[j]
    BY <1>4, <1>5, <2>1 DEF n
  <2>3. QED
    BY <1>5, <2>2, SeqEqual
<1>9. b = c
  <2>1. ASSUME NEW j \in 1..k PROVE b[j] = c[j]
    <3>1. n + j \in 1..limit - p /\ p + (n + j) = (p + n) + j
      BY <1>1, <1>4
    <3>2. QED
      BY <1>3, <1>4, <1>6, <1>7, <3>1
  <2>2. Len(b) = Len(c) /\ \A j \in 1..Len(b) : b[j] = c[j]
    BY <1>4, <1>6, <1>7, <2>1
  <2>3. QED
    BY <1>6, <1>7, <2>2, SeqEqual
<1>10. QED
  BY <1>8, <1>9 DEF a, b, c, n

-----------------------------------------------------------------------------
(***************************************************************************)
(* Induction and recursion. The provers do not instantiate a theorem that    *)
(* has an operator for a parameter, so what is proved by induction is the    *)
(* set of the numbers it holds for, and what a recursion computes is given   *)
(* by functions.                                                             *)
(***************************************************************************)

\* A set of numbers has a least one.
LEMMA LeastNumber ==
    ASSUME NEW T, T \subseteq Nat, T # {}
    PROVE  \E m \in T : \A k \in T : m <= k
<1>1. PICK m \in T : \A k \in T : ~ (<<k, m>> \in OpToRel(<, Nat))
  BY NatLessThanWellFounded, WFMin
<1>2. ASSUME NEW k \in T PROVE m <= k
  <2>1. /\ m \in Nat /\ k \in Nat
        /\ <<k, m>> \in Nat \X Nat /\ <<k, m>>[1] = k /\ <<k, m>>[2] = m
    OBVIOUS
  <2>2. ~(k < m)
    BY <1>1, <2>1, Zenon DEF OpToRel
  <2>3. QED
    BY <2>1, <2>2
<1>3. QED
  BY <1>2

\* What holds of 0, and of n + 1 if it holds of n, holds of every number.
LEMMA SetInduction ==
    ASSUME NEW T, 0 \in T, \A n \in Nat : n \in T => n + 1 \in T
    PROVE  \A n \in Nat : n \in T
<1> SUFFICES ASSUME Nat \ T # {} PROVE FALSE
  OBVIOUS
<1>1. PICK m \in Nat \ T : \A k \in Nat \ T : m <= k
  BY LeastNumber
<1>2. m # 0 /\ m - 1 \in Nat /\ ~(m <= m - 1) /\ (m - 1) + 1 = m
  BY <1>1
<1>3. m - 1 \in T
  BY <1>1, <1>2
<1>4. QED
  BY <1>1, <1>2, <1>3

\* The same for the numbers up to a bound.
LEMMA UpTo ==
    ASSUME NEW N \in Nat, NEW T, 0 \in T, \A n \in 0..N - 1 : n \in T => n + 1 \in T
    PROVE  \A n \in 0..N : n \in T
<1> DEFINE U == {n \in Nat : n <= N => n \in T}
<1>1. 0 \in U
  OBVIOUS
<1>2. ASSUME NEW n \in Nat, n \in U PROVE n + 1 \in U
  <2>1. ASSUME n + 1 <= N PROVE n + 1 \in T
    <3>1. n \in 0..N - 1 /\ n <= N
      BY <2>1
    <3>2. QED
      BY <1>2, <3>1
  <2>2. QED
    BY <2>1
<1>3. \A n \in Nat : n \in U
  <2> HIDE DEF U
  <2>1. QED
    BY <1>1, <1>2, SetInduction
<1>4. QED
  BY <1>3

\* And downwards from it.
LEMMA DownFrom ==
    ASSUME NEW N \in Nat, NEW T, N \in T, \A n \in 1..N : n \in T => n - 1 \in T
    PROVE  \A n \in 0..N : n \in T
<1> DEFINE U == {n \in Nat : N - n \in T}
<1>1. 0 \in U
  OBVIOUS
<1>2. ASSUME NEW n \in 0..N - 1, n \in U PROVE n + 1 \in U
  <2>1. N - n \in 1..N /\ n + 1 \in Nat /\ (N - n) - 1 = N - (n + 1)
    OBVIOUS
  <2>2. QED
    BY <1>2, <2>1
<1>3. \A n \in 0..N : n \in U
  <2> HIDE DEF U
  <2>1. QED
    BY <1>1, <1>2, UpTo
<1>4. ASSUME NEW n \in 0..N PROVE n \in T
  <2>1. N - n \in 0..N /\ N - (N - n) = n
    OBVIOUS
  <2>2. QED
    BY <1>3, <2>1
<1>5. QED
  BY <1>4

\* A recursion in which each argument d refers to at most one other, prev[d], of a lower
\* rank: the value at rank 0 is base[d], above it a step from the value of prev[d].
Descends(D, rank, prev) ==
    \A d \in D : rank[d] # 0 => prev[d] \in D /\ rank[prev[d]] < rank[d]
Recurs(g, D, rank, prev, base, step) ==
    \A d \in D : g[d] = IF rank[d] = 0 THEN base[d] ELSE step[<<d, g[prev[d]]>>]

\* There is a function that is so defined.
LEMMA Recursion ==
    ASSUME NEW D, NEW N \in Nat, NEW rank \in [D -> 0..N], NEW prev, Descends(D, rank, prev),
           NEW V, NEW base \in [D -> V], NEW step \in [D \X V -> V]
    PROVE  \E g \in [D -> V] : Recurs(g, D, rank, prev, base, step)
<1> DEFINE Rule(g, d) == g[d] = IF rank[d] = 0 THEN base[d] ELSE step[<<d, g[prev[d]]>>]
           Below(g, k) == \A d \in D : rank[d] <= k => Rule(g, d)
           T == {k \in 0..N : \E g \in [D -> V] : Below(g, k)}
<1>1. ASSUME NEW d \in D, rank[d] # 0
      PROVE  /\ prev[d] \in D /\ rank[prev[d]] < rank[d]
             /\ rank[d] \in 0..N /\ rank[prev[d]] \in 0..N
  BY <1>1 DEF Descends
<1>2. 0 \in T
  <2>1. Below(base, 0)
    OBVIOUS
  <2>2. QED
    BY <2>1
<1>3. ASSUME NEW k \in 0..N - 1, k \in T PROVE k + 1 \in T
  <2>1. PICK g \in [D -> V] : Below(g, k)
    BY <1>3
  <2> DEFINE h == [d \in D |-> IF rank[d] = 0 THEN base[d] ELSE step[<<d, g[prev[d]]>>]]
  <2>2. h \in [D -> V]
    BY <1>1
  <2>3. ASSUME NEW d \in D, rank[d] <= k + 1 PROVE Rule(h, d)
    <3>1. CASE rank[d] = 0
      BY <3>1
    <3>2. CASE rank[d] # 0
      <4>1. prev[d] \in D /\ rank[prev[d]] <= k
        BY <1>1, <2>3, <3>2
      <4>2. Rule(g, prev[d])
        BY <2>1, <4>1
      <4>3. h[prev[d]] = g[prev[d]]
        BY <4>1, <4>2
      <4>4. QED
        BY <3>2, <4>1, <4>3
    <3>3. QED
      BY <3>1, <3>2
  <2> HIDE DEF h
  <2>4. \E f \in [D -> V] : Below(f, k + 1)
    BY <2>2, <2>3
  <2>5. k + 1 \in 0..N
    OBVIOUS
  <2>6. QED
    BY <2>4, <2>5
<1>4. N \in T
  <2> HIDE DEF T
  <2>1. N \in 0..N
    OBVIOUS
  <2>2. QED
    BY <1>2, <1>3, <2>1, UpTo
<1>5. PICK g \in [D -> V] : Below(g, N)
  BY <1>4
<1>6. QED
  BY <1>5 DEF Recurs

\* A fold unfolds a subset of D one element at a time, the one that pick picks.
Picks(pick, D) == \A t \in SUBSET D : t # {} => pick[t] \in t
Unfolds(g, D, pick, base, step) ==
    \A t \in SUBSET D : g[t] = IF t = {} THEN base ELSE step[<<pick[t], g[t \ {pick[t]}]>>]

\* There is a function that does.
LEMMA FoldRecursion ==
    ASSUME NEW D, IsFiniteSet(D), NEW pick, Picks(pick, D),
           NEW V, NEW b \in V, NEW step \in [D \X V -> V]
    PROVE  \E g \in [SUBSET D -> V] : Unfolds(g, D, pick, b, step)
<1> DEFINE S    == SUBSET D
           rank == [t \in S |-> Cardinality(t)]
           prev == [t \in S |-> t \ {pick[t]}]
           base == [t \in S |-> b]
           move == [p \in S \X V |-> IF p[1] = {} THEN b ELSE step[<<pick[p[1]], p[2]>>]]
<1>1. ASSUME NEW t \in S
      PROVE  /\ Cardinality(t) \in 0..Cardinality(D) /\ (Cardinality(t) = 0 <=> t = {})
             /\ t # {} => /\ pick[t] \in D /\ t \ {pick[t]} \in S
                          /\ Cardinality(t \ {pick[t]}) < Cardinality(t)
  <2>1. /\ IsFiniteSet(t) /\ Cardinality(t) \in Nat /\ Cardinality(t) <= Cardinality(D)
        /\ Cardinality(D) \in Nat /\ (Cardinality(t) = 0 <=> t = {})
    BY FS_Subset, FS_CardinalityType, FS_EmptySet
  <2>2. ASSUME t # {}
        PROVE  pick[t] \in t /\ Cardinality(t \ {pick[t]}) = Cardinality(t) - 1
    BY <2>1, <2>2, FS_RemoveElement DEF Picks
  <2>3. QED
    BY <2>1, <2>2
<1>2. rank \in [S -> 0..Cardinality(D)] /\ Descends(S, rank, prev) /\ base \in [S -> V]
  BY <1>1 DEF Descends
<1>3. move \in [S \X V -> V]
  BY <1>1
<1>4. \E g \in [S -> V] : Recurs(g, S, rank, prev, base, move)
  <2>1. Cardinality(D) \in Nat
    BY FS_CardinalityType
  <2> HIDE DEF S, rank, prev, base, move
  <2>2. QED
    BY <1>2, <1>3, <2>1, Recursion
<1>5. PICK g \in [S -> V] : Recurs(g, S, rank, prev, base, move)
  BY <1>4
<1>6. ASSUME NEW t \in S
      PROVE  g[t] = IF t = {} THEN b ELSE step[<<pick[t], g[t \ {pick[t]}]>>]
  <2>1. /\ rank[t] = Cardinality(t) /\ base[t] = b /\ prev[t] = t \ {pick[t]}
        /\ g[t] = IF rank[t] = 0 THEN base[t] ELSE move[<<t, g[prev[t]]>>]
    BY <1>5 DEF Recurs
  <2>2. CASE t = {}
    BY <1>1, <2>1, <2>2
  <2>3. CASE t # {}
    <3>1. g[t \ {pick[t]}] \in V
      BY <1>1, <2>3
    <3>2. move[<<t, g[t \ {pick[t]}]>>] = step[<<pick[t], g[t \ {pick[t]}]>>]
      BY <2>3, <3>1
    <3>3. QED
      BY <1>1, <2>1, <2>3, <3>2
  <2>4. QED
    BY <2>2, <2>3
<1>7. QED
  BY <1>5, <1>6 DEF Unfolds

\* The greatest element of a set of positions, which FoldLeft takes first.
LEMMA GreatestOf ==
    ASSUME NEW n \in Nat, NEW t \in SUBSET (1..n), t # {}
    PROVE  Max(t) \in t /\ \A k \in t : Max(t) >= k
<1> DEFINE u == {n - k : k \in t}
<1>1. \A k \in t : k \in Int /\ n - k \in Nat
  <2>1. \A k \in 1..n : k \in Int /\ n - k \in Nat
    OBVIOUS
  <2>2. QED
    BY <2>1
<1>2. \E m \in u : \A k \in u : m <= k
  <2>1. u \subseteq Nat /\ u # {}
    BY <1>1
  <2> HIDE DEF u
  <2>2. QED
    BY <2>1, LeastNumber
<1>3. PICK x \in t : \A k \in t : n - x <= n - k
  BY <1>2
<1>4. \A k \in t : x >= k
  BY <1>1, <1>3
<1>5. QED
  BY <1>4 DEF Max

\* The least, which FoldRight takes first.
LEMMA LeastOf ==
    ASSUME NEW n \in Nat, NEW t \in SUBSET (1..n), t # {}
    PROVE  Min(t) \in t /\ \A k \in t : Min(t) <= k
<1>1. t \subseteq Nat
  <2>1. 1..n \subseteq Nat
    OBVIOUS
  <2>2. QED
    BY <2>1
<1>2. \E m \in t : \A k \in t : m <= k
  BY <1>1, LeastNumber
<1>3. QED
  BY <1>2 DEF Min

\* What FoldLeft meets on its way are prefixes.
LEMMA LeftPart ==
    ASSUME NEW n \in Nat, NEW k \in 1..n
    PROVE  /\ 1..k \in SUBSET (1..n) /\ 1..k # {}
           /\ Max(1..k) = k /\ (1..k) \ {k} = 1..k - 1
<1>1. 1..k \in SUBSET (1..n) /\ k \in 1..k /\ (1..k) \ {k} = 1..k - 1
  OBVIOUS
<1>2. 1..k # {}
  BY <1>1
<1>3. Max(1..k) \in 1..k /\ Max(1..k) >= k
  BY <1>1, <1>2, GreatestOf
<1>4. \A m \in 1..k : m >= k => m = k
  OBVIOUS
<1>5. QED
  BY <1>1, <1>2, <1>3, <1>4, Zenon

\* And FoldRight meets suffixes.
LEMMA RightPart ==
    ASSUME NEW n \in Nat, NEW k \in 1..n
    PROVE  /\ k..n \in SUBSET (1..n) /\ k..n # {}
           /\ Min(k..n) = k /\ (k..n) \ {k} = k + 1..n
<1>1. k..n \in SUBSET (1..n) /\ k \in k..n /\ (k..n) \ {k} = k + 1..n
  OBVIOUS
<1>2. k..n # {}
  BY <1>1
<1>3. Min(k..n) \in k..n /\ Min(k..n) <= k
  BY <1>1, <1>2, LeastOf
<1>4. \A m \in k..n : m <= k => m = k
  OBVIOUS
<1>5. QED
  BY <1>1, <1>2, <1>3, <1>4, Zenon

LeftUnfolds(g, n, b, step) ==
    \A t \in SUBSET (1..n) : g[t] = IF t = {} THEN b ELSE step[<<Max(t), g[t \ {Max(t)}]>>]
RightUnfolds(g, n, b, step) ==
    \A t \in SUBSET (1..n) : g[t] = IF t = {} THEN b ELSE step[<<Min(t), g[t \ {Min(t)}]>>]

\* The recursion of FoldLeft over the positions of a sequence.
LEMMA LeftRecursion ==
    ASSUME NEW n \in Nat, NEW V, NEW b \in V, NEW step \in [(1..n) \X V -> V]
    PROVE  \E g \in [SUBSET (1..n) -> V] : LeftUnfolds(g, n, b, step)
<1> DEFINE D == 1..n
           pick == [t \in SUBSET D |-> Max(t)]
<1>1. IsFiniteSet(D) /\ Picks(pick, D) /\ \A t \in SUBSET D : pick[t] = Max(t)
  <2>1. IsFiniteSet(D)
    BY FS_Interval
  <2>2. \A t \in SUBSET D : t # {} => Max(t) \in t
    BY GreatestOf
  <2>3. QED
    BY <2>1, <2>2 DEF Picks
<1>2. step \in [D \X V -> V]
  OBVIOUS
<1> HIDE DEF D, pick
<1>3. \E g \in [SUBSET D -> V] : Unfolds(g, D, pick, b, step)
  BY <1>1, <1>2, FoldRecursion
<1>4. QED
  BY <1>1, <1>3, ZenonT(30) DEF Unfolds, LeftUnfolds, D

\* The recursion of FoldRight.
LEMMA RightRecursion ==
    ASSUME NEW n \in Nat, NEW V, NEW b \in V, NEW step \in [(1..n) \X V -> V]
    PROVE  \E g \in [SUBSET (1..n) -> V] : RightUnfolds(g, n, b, step)
<1> DEFINE D == 1..n
           pick == [t \in SUBSET D |-> Min(t)]
<1>1. IsFiniteSet(D) /\ Picks(pick, D) /\ \A t \in SUBSET D : pick[t] = Min(t)
  <2>1. IsFiniteSet(D)
    BY FS_Interval
  <2>2. \A t \in SUBSET D : t # {} => Min(t) \in t
    BY LeastOf
  <2>3. QED
    BY <2>1, <2>2 DEF Picks
<1>2. step \in [D \X V -> V]
  OBVIOUS
<1> HIDE DEF D, pick
<1>3. \E g \in [SUBSET D -> V] : Unfolds(g, D, pick, b, step)
  BY <1>1, <1>2, FoldRecursion
<1>4. QED
  BY <1>1, <1>3, ZenonT(30) DEF Unfolds, RightUnfolds, D

\* The first sequences of a list put one behind the other, for each number of them.
Flattens(flat, seqs, S, n) ==
    /\ flat \in [0..n -> Seq(S)] /\ flat[0] = <<>>
    /\ \A i \in 1..n : flat[i] = flat[i - 1] \o seqs[i]

\* FlattenSeq puts sequences one behind the other.
LEMMA FlattenDef ==
    ASSUME NEW S, NEW n \in Nat, n # 0, NEW seqs, seqs \in [1..n -> Seq(S)]
    PROVE  \E flat : Flattens(flat, seqs, S, n) /\ FlattenSeq(seqs) = flat[n]
<1> DEFINE D == 1..n
           V == Seq(S)
           flatten[i \in 1..n] == IF i = 1 THEN seqs[i] ELSE flatten[i - 1] \o seqs[i]
<1>1. FlattenSeq(seqs) = flatten[n]
  <2>1. Len(seqs) = n /\ n # 0
    <3>1. seqs \in Seq(Seq(S)) /\ DOMAIN seqs = 1..n
      OBVIOUS
    <3>2. DOMAIN seqs = 1..Len(seqs) /\ Len(seqs) \in Nat
      BY <3>1
    <3>3. \A a, b \in Nat : a >= 1 /\ 1..a = 1..b => a = b
      <4>1. ASSUME NEW a \in Nat, NEW b \in Nat, a >= 1, 1..a = 1..b PROVE a = b
        <5>1. a \in 1..a /\ a \in 1..b
          BY <4>1
        <5>2. b \in 1..b /\ b \in 1..a
          BY <4>1, <5>1
        <5>3. QED
          BY <5>1, <5>2
      <4>2. QED
        BY <4>1
    <3>4. QED
      BY <3>1, <3>2, <3>3
  <2>2. QED
    BY <2>1 DEF FlattenSeq
<1>2. \E g : g = [i \in 1..n |-> IF i = 1 THEN seqs[i] ELSE g[i - 1] \o seqs[i]]
  <2> DEFINE rank == [i \in D |-> i - 1]
             prev == [i \in D |-> i - 1]
             step == [p \in D \X V |-> p[2] \o seqs[p[1]]]
  <2>1. \A s, t \in V : s \o t \in V
    OBVIOUS
  <2>2. /\ rank \in [D -> 0..n - 1] /\ n - 1 \in Nat
        /\ \A i \in D : rank[i] # 0 => prev[i] \in D /\ rank[prev[i]] < rank[i]
    OBVIOUS
  <2>3. step \in [D \X V -> V] /\ \A i \in D, v \in V : step[<<i, v>>] = v \o seqs[i]
    <3> HIDE DEF V
    <3>1. QED
      BY <2>1 DEF V
  <2>4. seqs \in [D -> V]
    OBVIOUS
  <2>5. \A i \in D : rank[i] = i - 1 /\ prev[i] = i - 1
    OBVIOUS
  <2> HIDE DEF rank, prev, step, D, V
  <2>6. PICK g \in [D -> V] : Recurs(g, D, rank, prev, seqs, step)
    BY <2>2, <2>3, <2>4, Recursion DEF Descends
  <2>7. ASSUME NEW i \in D PROVE g[i] = IF i = 1 THEN seqs[i] ELSE g[i - 1] \o seqs[i]
    <3>1. g[i] = IF rank[i] = 0 THEN seqs[i] ELSE step[<<i, g[prev[i]]>>]
      BY <2>6 DEF Recurs
    <3>2. i # 1 => i - 1 \in D
      BY DEF D
    <3>3. i - 1 = 0 <=> i = 1
      BY DEF D
    <3>4. CASE i = 1
      BY <2>5, <3>1, <3>3, <3>4
    <3>5. CASE i # 1
      <4>1. g[i] = step[<<i, g[i - 1]>>] /\ g[i - 1] \in V
        BY <2>5, <3>1, <3>2, <3>3, <3>5
      <4>2. QED
        BY <2>3, <3>5, <4>1
    <3>6. QED
      BY <3>4, <3>5
  <2>8. g = [i \in D |-> IF i = 1 THEN seqs[i] ELSE g[i - 1] \o seqs[i]]
    BY <2>7
  <2>9. QED
    BY <2>8 DEF D
<1>3. flatten = [i \in 1..n |-> IF i = 1 THEN seqs[i] ELSE flatten[i - 1] \o seqs[i]]
  BY <1>2, Zenon
<1> HIDE DEF flatten
<1> DEFINE T == {k \in 0..n : k # 0 => flatten[k] \in Seq(S)}
           flat == [i \in 0..n |-> IF i = 0 THEN <<>> ELSE flatten[i]]
<1>4. \A k \in 0..n : k \in T
  <2>1. 0 \in T
    OBVIOUS
  <2>2. ASSUME NEW k \in 0..n - 1, k \in T PROVE k + 1 \in T
    <3>1. k + 1 \in 1..n /\ k + 1 \in 0..n /\ (k + 1) - 1 = k /\ (k + 1 = 1 <=> k = 0)
      OBVIOUS
    <3>2. flatten[k + 1] = IF k = 0 THEN seqs[k + 1] ELSE flatten[k] \o seqs[k + 1]
      BY <1>3, <3>1
    <3>3. seqs[k + 1] \in Seq(S)
      BY <3>1
    <3>4. \A s, t \in Seq(S) : s \o t \in Seq(S)
      OBVIOUS
    <3>5. flatten[k + 1] \in Seq(S)
      BY <2>2, <3>2, <3>3, <3>4
    <3>6. QED
      BY <3>1, <3>5
  <2> HIDE DEF T
  <2>3. QED
    BY <2>1, <2>2, UpTo
<1>5. flat \in [0..n -> Seq(S)] /\ flat[0] = <<>> /\ flat[n] = flatten[n]
  BY <1>4
<1>6. ASSUME NEW i \in 1..n PROVE flat[i] = flat[i - 1] \o seqs[i]
  <2>1. \A t \in Seq(S) : <<>> \o t = t
    OBVIOUS
  <2>2. i \in 0..n /\ i - 1 \in 0..n /\ i # 0 /\ (i - 1 = 0 <=> i = 1) /\ seqs[i] \in Seq(S)
    OBVIOUS
  <2>3. flatten[i] = IF i = 1 THEN seqs[i] ELSE flatten[i - 1] \o seqs[i]
    BY <1>3
  <2>4. QED
    BY <2>1, <2>2, <2>3
<1> HIDE DEF flat
<1>7. QED
  BY <1>1, <1>5, <1>6 DEF Flattens
==============================================================================
