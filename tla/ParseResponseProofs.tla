------------------------ MODULE ParseResponseProofs ------------------------
(***************************************************************************)
(* What TLAPS proves about Framing and ParseResponse: for any bytes, that  *)
(* the parser stays in its frame and counts by index; for any response of  *)
(* a DNP3 device, wherever it is cut off, that what arrived is parsed as   *)
(* it was sent.                                                            *)
(***************************************************************************)
EXTENDS ParseResponse, FiniteSetTheorems, SequenceTheorems, WellFoundedInduction, TLAPS

-----------------------------------------------------------------------------
(* FlattenSeq, which is defined by a recursive function: first that there  *)
(* is one, then what it gives for one sequence more.                       *)

\* Induction on the natural numbers, for sets.
LEMMA InductionSet ==
    ASSUME NEW S, 0 \in S, \A n \in Nat : n \in S => n + 1 \in S
    PROVE  \A n \in Nat : n \in S
<1> DEFINE T == Nat \ S
<1> SUFFICES ASSUME T # {} PROVE FALSE
  OBVIOUS
<1>1. PICK x \in T : \A y \in T : ~(<<y, x>> \in OpToRel(<, Nat))
  BY NatLessThanWellFounded, WFMin
<1>2. x \in Nat /\ x # 0 /\ x \notin S
  OBVIOUS
<1>3. x - 1 \in Nat /\ x - 1 < x /\ (x - 1) + 1 = x
  BY <1>2
<1>4. x - 1 \in S
  BY <1>1, <1>2, <1>3 DEF OpToRel
<1> QED
  BY <1>2, <1>3, <1>4

\* What FlattenSeq chooses: f[k] is the first k sequences of s, up to the n-th, in a row.
IsFlattening(f, s, n) ==
    f = [k \in 1..n |-> IF k = 1 THEN s[k] ELSE f[k - 1] \o s[k]]

LEMMA FlattenDef ==
    ASSUME NEW s, Len(s) # 0
    PROVE  FlattenSeq(s) = (CHOOSE f : IsFlattening(f, s, Len(s)))[Len(s)]
BY DEF FlattenSeq, IsFlattening

LEMMA FlattenExists ==
    ASSUME NEW T, NEW s \in Seq(Seq(T))
    PROVE  \E f : IsFlattening(f, s, Len(s))
<1> DEFINE N == Len(s)
           S == {n \in Nat : n <= N => \E f : IsFlattening(f, s, n)}
<1>1. N \in Nat
  OBVIOUS
<1>2. \E f : IsFlattening(f, s, 0)
  <2> DEFINE f == [k \in 1..0 |-> s[k]]
  <2>1. f = [k \in 1..0 |-> IF k = 1 THEN s[k] ELSE f[k - 1] \o s[k]]
    OBVIOUS
  <2> QED
    BY <2>1 DEF IsFlattening
<1>3. ASSUME NEW n \in Nat, NEW g, IsFlattening(g, s, n)
      PROVE  \E f : IsFlattening(f, s, n + 1)
  <2>1. g = [k \in 1..n |-> IF k = 1 THEN s[k] ELSE g[k - 1] \o s[k]]
    BY <1>3 DEF IsFlattening
  <2> DEFINE f == [k \in 1..n + 1 |->
                     IF k = n + 1 THEN (IF n = 0 THEN s[k] ELSE g[n] \o s[k]) ELSE g[k]]
  <2>2. ASSUME NEW k \in 1..n + 1
        PROVE  f[k] = IF k = 1 THEN s[k] ELSE f[k - 1] \o s[k]
    <3>1. CASE k = n + 1
      <4>1. k # 1 => k - 1 \in 1..n + 1 /\ k - 1 # n + 1 /\ k - 1 = n
        BY <3>1
      <4> QED
        BY <3>1, <4>1
    <3>2. CASE k # n + 1
      <4>1. k \in 1..n /\ (k # 1 => k - 1 \in 1..n /\ k - 1 \in 1..n + 1 /\ k - 1 # n + 1)
        BY <3>2
      <4>2. g[k] = IF k = 1 THEN s[k] ELSE g[k - 1] \o s[k]
        BY <2>1, <4>1, Zenon
      <4> QED
        BY <3>2, <4>1, <4>2
    <3> QED
      BY <3>1, <3>2
  <2>3. f = [k \in 1..n + 1 |-> f[k]]
    OBVIOUS
  <2> HIDE DEF f
  <2>4. f = [k \in 1..n + 1 |-> IF k = 1 THEN s[k] ELSE f[k - 1] \o s[k]]
    BY <2>2, <2>3
  <2> QED
    BY <2>4 DEF IsFlattening
<1>4. 0 \in S
  BY <1>2
<1>5. ASSUME NEW n \in Nat, n \in S PROVE n + 1 \in S
  <2>1. n + 1 <= N => n <= N
    BY <1>1
  <2> QED
    BY <1>3, <1>5, <2>1
<1> HIDE DEF S
<1>6. \A n \in Nat : n \in S
  BY <1>4, <1>5, InductionSet
<1>7. N \in S
  BY <1>1, <1>6
<1> QED
  BY <1>1, <1>7 DEF S

\* Two of them agree where their sequences do.
LEMMA FlattenAgree ==
    ASSUME NEW T, NEW s \in Seq(Seq(T)), NEW t \in Seq(Seq(T)), Len(s) <= Len(t),
           \A k \in 1..Len(s) : s[k] = t[k],
           NEW f, NEW g, IsFlattening(f, s, Len(s)), IsFlattening(g, t, Len(t))
    PROVE  \A k \in 1..Len(s) : f[k] = g[k] /\ f[k] \in Seq(T)
<1> DEFINE S == {n \in Nat : n \in 1..Len(s) => f[n] = g[n] /\ f[n] \in Seq(T)}
<1>1. /\ \A k \in 1..Len(s) : f[k] = IF k = 1 THEN s[k] ELSE f[k - 1] \o s[k]
      /\ \A k \in 1..Len(t) : g[k] = IF k = 1 THEN t[k] ELSE g[k - 1] \o t[k]
  BY Zenon DEF IsFlattening
<1>2. Len(s) \in Nat /\ Len(t) \in Nat /\ \A k \in 1..Len(s) : s[k] \in Seq(T)
  OBVIOUS
<1>3. 0 \in S
  OBVIOUS
<1>4. ASSUME NEW n \in Nat, n \in S PROVE n + 1 \in S
  <2> SUFFICES ASSUME n + 1 \in 1..Len(s)
               PROVE  f[n + 1] = g[n + 1] /\ f[n + 1] \in Seq(T)
    OBVIOUS
  <2>1. n + 1 \in 1..Len(t) /\ s[n + 1] = t[n + 1] /\ s[n + 1] \in Seq(T)
    BY <1>2
  <2>2. CASE n = 0
    <3>1. f[1] = s[1] /\ g[1] = t[1]
      BY <1>1, <2>1, <2>2
    <3> QED
      BY <2>1, <2>2, <3>1
  <2>3. CASE n # 0
    <3>1. n \in 1..Len(s) /\ n + 1 # 1 /\ (n + 1) - 1 = n
      BY <1>2, <2>3
    <3>2. f[n] = g[n] /\ f[n] \in Seq(T)
      BY <1>4, <3>1
    <3>3. f[n + 1] = f[n] \o s[n + 1] /\ g[n + 1] = g[n] \o t[n + 1]
      BY <1>1, <2>1, <3>1
    <3>4. f[n] \o s[n + 1] \in Seq(T)
      BY <2>1, <3>2
    <3> QED
      BY <2>1, <3>2, <3>3, <3>4
  <2> QED
    BY <2>2, <2>3
<1> HIDE DEF S
<1>5. \A n \in Nat : n \in S
  BY <1>3, <1>4, InductionSet
<1> QED
  BY <1>2, <1>5 DEF S

LEMMA FlattenEmpty ==
    ASSUME NEW T, NEW s \in Seq(Seq(T)), Len(s) = 0
    PROVE  FlattenSeq(s) = <<>>
BY DEF FlattenSeq

\* One sequence more is appended.
LEMMA FlattenMore ==
    ASSUME NEW T, NEW s \in Seq(Seq(T)), NEW t \in Seq(Seq(T)), Len(t) = Len(s) + 1,
           \A k \in 1..Len(s) : s[k] = t[k]
    PROVE  /\ FlattenSeq(s) \in Seq(T)
           /\ FlattenSeq(t) = FlattenSeq(s) \o t[Len(t)]
<1> DEFINE f == CHOOSE f : IsFlattening(f, s, Len(s))
           g == CHOOSE g : IsFlattening(g, t, Len(t))
<1>1. IsFlattening(f, s, Len(s)) /\ IsFlattening(g, t, Len(t))
  BY FlattenExists, Zenon
<1> HIDE DEF f, g
<1>2. Len(s) \in Nat /\ Len(t) \in Nat /\ Len(t) # 0 /\ t[Len(t)] \in Seq(T)
  OBVIOUS
<1>3. FlattenSeq(t) = g[Len(t)]
  BY <1>2, FlattenDef DEF g
<1>4. \A k \in 1..Len(t) : g[k] = IF k = 1 THEN t[k] ELSE g[k - 1] \o t[k]
  BY <1>1, Zenon DEF IsFlattening
<1>5. CASE Len(s) = 0
  <2>1. FlattenSeq(s) = <<>>
    BY <1>5, FlattenEmpty
  <2>2. FlattenSeq(t) = t[Len(t)]
    BY <1>2, <1>3, <1>4, <1>5
  <2> QED
    BY <1>2, <2>1, <2>2
<1>6. CASE Len(s) # 0
  <2>1. FlattenSeq(s) = f[Len(s)]
    BY <1>6, FlattenDef DEF f
  <2>2. \A k \in 1..Len(s) : f[k] = g[k] /\ f[k] \in Seq(T)
    <3>1. Len(s) <= Len(t)
      BY <1>2
    <3> QED
      BY <1>1, <3>1, FlattenAgree
  <2>3. f[Len(s)] = g[Len(s)] /\ f[Len(s)] \in Seq(T)
    BY <1>2, <1>6, <2>2
  <2>4. Len(t) \in 1..Len(t) /\ Len(t) # 1 /\ Len(t) - 1 = Len(s)
    BY <1>2, <1>6
  <2>5. g[Len(t)] = g[Len(s)] \o t[Len(t)]
    BY <1>4, <2>4
  <2> QED
    BY <1>3, <2>1, <2>3, <2>5
<1> QED
  BY <1>5, <1>6

LEMMA Concat ==
    ASSUME NEW T, NEW a \in Seq(T), NEW b \in Seq(T)
    PROVE  /\ a \o b \in Seq(T) /\ Len(a) \in Nat /\ Len(b) \in Nat
           /\ Len(a \o b) = Len(a) + Len(b)
           /\ \A j \in 1..Len(a) : (a \o b)[j] = a[j]
           /\ \A j \in 1..Len(b) : (a \o b)[Len(a) + j] = b[j]
OBVIOUS

\* The first n sequences of s in a row.
First(s, n) == FlattenSeq(SubSeq(s, 1, n))

LEMMA FirstMore ==
    ASSUME NEW T, NEW s \in Seq(Seq(T)), NEW n \in 1..Len(s)
    PROVE  First(s, n - 1) \in Seq(T) /\ First(s, n) = First(s, n - 1) \o s[n]
<1> DEFINE a == SubSeq(s, 1, n - 1)
           b == SubSeq(s, 1, n)
<1>1. /\ a \in Seq(Seq(T)) /\ b \in Seq(Seq(T))
      /\ Len(a) = n - 1 /\ Len(b) = n /\ n \in Nat
      /\ \A k \in 1..n - 1 : a[k] = s[k]
      /\ \A k \in 1..n : b[k] = s[k]
  OBVIOUS
<1> HIDE DEF a, b
<1>2. Len(b) = Len(a) + 1 /\ \A k \in 1..Len(a) : a[k] = b[k]
  <2>1. \A k \in 1..n - 1 : k \in 1..n
    BY <1>1
  <2>2. (n - 1) + 1 = n
    BY <1>1
  <2> QED
    BY <1>1, <2>1, <2>2, Zenon
<1>3. FlattenSeq(a) \in Seq(T) /\ FlattenSeq(b) = FlattenSeq(a) \o b[Len(b)]
  BY <1>1, <1>2, FlattenMore
<1>4. b[Len(b)] = s[n]
  BY <1>1
<1> QED
  BY <1>3, <1>4 DEF a, b, First

LEMMA FirstEnds ==
    ASSUME NEW T, NEW s \in Seq(Seq(T))
    PROVE  /\ First(s, 0) = <<>>
           /\ First(s, Len(s)) = FlattenSeq(s)
           /\ \A n \in 0..Len(s) : First(s, n) \in Seq(T)
<1>1. First(s, 0) = <<>>
  <2>1. SubSeq(s, 1, 0) \in Seq(Seq(T)) /\ Len(SubSeq(s, 1, 0)) = 0
    OBVIOUS
  <2> QED
    BY <2>1, FlattenEmpty DEF First
<1>2. SubSeq(s, 1, Len(s)) = s
  OBVIOUS
<1>3. ASSUME NEW n \in 0..Len(s) PROVE First(s, n) \in Seq(T)
  <2>1. CASE n = 0
    BY <1>1, <2>1, EmptySeq
  <2>2. CASE n # 0
    <3>1. n \in 1..Len(s) /\ s[n] \in Seq(T)
      BY <2>2
    <3>2. First(s, n - 1) \in Seq(T) /\ First(s, n) = First(s, n - 1) \o s[n]
      BY <3>1, FirstMore
    <3> QED
      BY <3>1, <3>2, Concat
  <2> QED
    BY <2>1, <2>2
<1> QED
  BY <1>1, <1>2, <1>3 DEF First

LEMMA FirstStep ==
    ASSUME NEW T, NEW s \in Seq(Seq(T)), NEW k \in 1..Len(s)
    PROVE  /\ Len(First(s, k - 1)) \in Nat /\ Len(s[k]) \in Nat
           /\ Len(First(s, k)) = Len(First(s, k - 1)) + Len(s[k])
           /\ \A j \in 1..Len(First(s, k - 1)) : First(s, k)[j] = First(s, k - 1)[j]
           /\ \A j \in 1..Len(s[k]) : First(s, k)[Len(First(s, k - 1)) + j] = s[k][j]
<1>1. First(s, k - 1) \in Seq(T) /\ First(s, k) = First(s, k - 1) \o s[k]
  BY FirstMore
<1>2. s[k] \in Seq(T)
  OBVIOUS
<1> QED
  BY <1>1, <1>2, Concat

\* Where the elements of the n-th sequence stand.
LEMMA FirstPlaces ==
    ASSUME NEW T, NEW s \in Seq(Seq(T)), NEW n \in 1..Len(s), NEW m \in n..Len(s)
    PROVE  /\ Len(First(s, n)) = Len(First(s, n - 1)) + Len(s[n])
           /\ Len(First(s, n)) <= Len(First(s, m))
           /\ \A j \in 1..Len(s[n]) : First(s, m)[Len(First(s, n - 1)) + j] = s[n][j]
<1> DEFINE l == Len(First(s, n - 1))
           a == Len(s[n])
           N == Len(s)
           Holds(k) == /\ l + a <= Len(First(s, k))
                       /\ \A j \in 1..a : First(s, k)[l + j] = s[n][j]
           S == {d \in Nat : n + d <= N => Holds(n + d)}
<1>1. /\ n \in Nat /\ N \in Nat /\ n \in 1..N /\ m \in n..N
      /\ l \in Nat /\ a \in Nat /\ Len(First(s, n)) = l + a
      /\ \A j \in 1..a : First(s, n)[l + j] = s[n][j]
  <2>1. n \in Nat /\ N \in Nat /\ n \in 1..N /\ m \in n..N
    OBVIOUS
  <2>2. /\ l \in Nat /\ a \in Nat /\ Len(First(s, n)) = l + a
        /\ \A j \in 1..a : First(s, n)[l + j] = s[n][j]
    BY FirstStep, Zenon
  <2> QED
    BY <2>1, <2>2
<1>2. \A k \in 1..N : /\ Len(First(s, k - 1)) \in Nat /\ Len(s[k]) \in Nat
                      /\ Len(First(s, k)) = Len(First(s, k - 1)) + Len(s[k])
                      /\ \A j \in 1..Len(First(s, k - 1)) : First(s, k)[j] = First(s, k - 1)[j]
  BY FirstStep, Zenon
<1> HIDE DEF l, a, N
<1>3. 0 \in S
  BY <1>1
<1>4. ASSUME NEW d \in Nat, d \in S PROVE d + 1 \in S
  <2> SUFFICES ASSUME n + (d + 1) <= N PROVE Holds(n + (d + 1))
    OBVIOUS
  <2> DEFINE k == n + (d + 1)
  <2>1. k \in 1..N /\ k - 1 = n + d /\ n + d <= N
    BY <1>1
  <2> HIDE DEF k
  <2>2. Holds(k - 1)
    BY <1>4, <2>1
  <2>3. l + a <= Len(First(s, k))
    <3>1. /\ Len(First(s, k - 1)) \in Nat /\ Len(s[k]) \in Nat
          /\ Len(First(s, k)) = Len(First(s, k - 1)) + Len(s[k])
      BY <1>2, <2>1
    <3>2. l + a <= Len(First(s, k - 1))
      BY <2>2
    <3>3. l + a \in Nat
      BY <1>1
    <3>4. \A x, y, z \in Nat : x <= y => x <= y + z
      OBVIOUS
    <3> QED
      BY <3>1, <3>2, <3>3, <3>4, Zenon
  <2>4. ASSUME NEW j \in 1..a PROVE First(s, k)[l + j] = s[n][j]
    <3>1. l + j \in 1..Len(First(s, k - 1))
      BY <1>1, <1>2, <2>1, <2>2
    <3> QED
      BY <1>2, <2>1, <2>2, <3>1
  <2> QED
    BY <2>3, <2>4 DEF k
<1> HIDE DEF S
<1>5. \A d \in Nat : d \in S
  BY <1>3, <1>4, InductionSet
<1>6. m - n \in Nat /\ n + (m - n) = m /\ m <= N
  BY <1>1
<1>7. m - n \in S
  BY <1>5, <1>6
<1>8. Holds(m)
  BY <1>6, <1>7 DEF S
<1> QED
  BY <1>1, <1>8 DEF l, a

\* What is empty adds nothing.
LEMMA FirstOnly ==
    ASSUME NEW T, NEW s \in Seq(Seq(T)), NEW n \in 0..Len(s),
           \A k \in n + 1..Len(s) : s[k] = <<>>
    PROVE  FlattenSeq(s) = First(s, n)
<1> DEFINE S == {d \in Nat : n + d <= Len(s) => First(s, n + d) = First(s, n)}
<1>1. n \in Nat /\ Len(s) \in Nat
  OBVIOUS
<1>2. 0 \in S
  BY <1>1
<1>3. ASSUME NEW d \in Nat, d \in S PROVE d + 1 \in S
  <2> SUFFICES ASSUME n + (d + 1) <= Len(s) PROVE First(s, n + (d + 1)) = First(s, n)
    OBVIOUS
  <2> DEFINE k == n + (d + 1)
  <2>1. k \in 1..Len(s) /\ k \in n + 1..Len(s) /\ k - 1 = n + d /\ n + d <= Len(s)
    BY <1>1
  <2> HIDE DEF k
  <2>2. First(s, k) = First(s, n + d) \o s[k] /\ First(s, n + d) \in Seq(T) /\ s[k] = <<>>
    BY <2>1, FirstMore
  <2>3. First(s, k) = First(s, n + d)
    BY <2>2
  <2> QED
    BY <1>3, <2>1, <2>3 DEF k
<1> HIDE DEF S
<1>4. \A d \in Nat : d \in S
  BY <1>2, <1>3, InductionSet
<1>5. Len(s) - n \in Nat /\ n + (Len(s) - n) = Len(s)
  BY <1>1
<1>6. Len(s) - n \in S
  BY <1>4, <1>5
<1>7. First(s, Len(s)) = First(s, n)
  BY <1>1, <1>5, <1>6 DEF S
<1> QED
  BY <1>7, FirstEnds

\* Sequences that are equal up to the n-th begin alike.
LEMMA FirstSame ==
    ASSUME NEW T, NEW s \in Seq(Seq(T)), NEW t \in Seq(Seq(T)),
           NEW n \in 0..Len(s), n <= Len(t), \A k \in 1..n : s[k] = t[k]
    PROVE  First(s, n) = First(t, n)
<1>1. SubSeq(s, 1, n) = SubSeq(t, 1, n)
  OBVIOUS
<1> QED
  BY <1>1 DEF First

-----------------------------------------------------------------------------
(* Frames.                                                                 *)

\* strip_crc_blocks takes no byte of the payload away, and at most the two of
\* the last block's CRC are left (rwk35.py:75-82).
LEMMA StrippedBounds ==
    ASSUME NEW n \in Nat
    PROVE  /\ n + 2 * NumBlocks(n) \in Nat
           /\ Stripped(n + 2 * NumBlocks(n)) \in Nat
           /\ n <= Stripped(n + 2 * NumBlocks(n))
           /\ Stripped(n + 2 * NumBlocks(n)) <= n + 2
  BY Z3 DEF Stripped, NumBlocks, Least

\* Where byte j of the payload stands among the blocks with their CRCs.
Place(j) == 18 * ((j - 1) \div 16) + ((j - 1) % 16) + 1

\* It stands there in block (j - 1) \div 16, before the CRC of that block.
LEMMA PlaceInBlock ==
    ASSUME NEW n \in Nat, NEW j \in 1..n
    PROVE  /\ Place(j) \in 1..n + 2 * NumBlocks(n)
           /\ (Place(j) - 1) \div 18 = (j - 1) \div 16
           /\ (Place(j) - 1) % 18 = (j - 1) % 16
           /\ (j - 1) % 16 < Least(16, n - 16 * ((j - 1) \div 16))
           /\ 16 * ((j - 1) \div 16) + ((j - 1) % 16) + 1 = j
  BY Z3 DEF Place, NumBlocks, Least

\* The length of a function on 1..n.
LEMMA LengthOf ==
    ASSUME NEW n \in Nat, NEW f, f = [k \in 1..n |-> f[k]]
    PROVE  Len(f) = n
<1> DEFINE S == {f[k] : k \in 1..n}
<1>1. f \in [1..n -> S]
  OBVIOUS
<1>2. f \in Seq(S)
  BY <1>1
<1> QED
  BY <1>1, <1>2

\* Whatever the payload, its framed bytes have the length that the receiver
\* computes from the length byte, and what strip_crc_blocks makes of them is the
\* payload with at most two bytes more (rwk35.py:51-57, 75-82, 102-105).
THEOREM PayloadKept ==
    ASSUME NEW S, NEW payload \in Seq(S)
    PROVE  LET raw == WithBlockCrcs(payload)
               stripped == strip_crc_blocks(raw)
           IN /\ Len(raw) = PayloadSize(5 + Len(payload))
              /\ Len(stripped) \in Len(payload)..Len(payload) + 2
              /\ \A j \in 1..Len(payload) : stripped[j] = payload[j]
<1> DEFINE n        == Len(payload)
           raw      == WithBlockCrcs(payload)
           stripped == strip_crc_blocks(raw)
<1>1. n \in Nat
  OBVIOUS
<1>2. raw = [k \in 1..n + 2 * NumBlocks(n) |-> raw[k]]
  BY DEF WithBlockCrcs
<1>3. Len(raw) = n + 2 * NumBlocks(n)
  BY <1>1, <1>2, LengthOf, StrippedBounds
<1>4. stripped = [j \in 1..Stripped(n + 2 * NumBlocks(n)) |-> raw[Place(j)]]
  BY <1>3 DEF strip_crc_blocks, Place
<1>5. Len(stripped) = Stripped(n + 2 * NumBlocks(n))
  BY <1>1, <1>4, LengthOf, StrippedBounds
<1>6. Len(stripped) \in n..n + 2
  BY <1>1, <1>5, StrippedBounds
<1>7. ASSUME NEW j \in 1..n PROVE stripped[j] = payload[j]
  <2>0. j \in 1..Stripped(n + 2 * NumBlocks(n))
    BY <1>1, StrippedBounds
  <2>1. stripped[j] = raw[Place(j)]
    BY <1>4, <2>0
  <2>2. raw[Place(j)] = payload[16 * ((j - 1) \div 16) + ((j - 1) % 16) + 1]
    BY <1>1, PlaceInBlock DEF WithBlockCrcs
  <2> QED
    BY <1>1, <2>1, <2>2, PlaceInBlock
<1>8. PayloadSize(5 + n) = n + 2 * NumBlocks(n)
  BY <1>1, Z3 DEF PayloadSize, NumBlocks
<1> QED
  BY <1>3, <1>6, <1>7, <1>8

LEMMA ThreeParts ==
    ASSUME NEW T, NEW a \in Seq(T), NEW b \in Seq(T), NEW c \in Seq(T)
    PROVE  (a \o b) \o c \in Seq(T) /\ Len((a \o b) \o c) = Len(a) + Len(b) + Len(c)
<1>1. a \o b \in Seq(T) /\ Len(a \o b) = Len(a) + Len(b)
  BY ConcatProperties
<1> DEFINE ab == a \o b
<1>2. ab \in Seq(T) /\ Len(ab) = Len(a) + Len(b)
  BY <1>1
<1> HIDE DEF ab
<1>3. ab \o c \in Seq(T) /\ Len(ab \o c) = Len(ab) + Len(c)
  BY <1>2, ConcatProperties
<1> QED
  BY <1>2, <1>3 DEF ab

\* How a header, its checksum and the rest are told apart.
Framed(frame, header, crc, raw) ==
    /\ Len(frame) = 10 + Len(raw)
    /\ SubSeq(frame, 1, 8) = header
    /\ SubSeq(frame, 9, 10) = crc
    /\ SubSeq(frame, 11, Len(frame)) = raw

LEMMA HeaderParts ==
    ASSUME NEW T, NEW h \in Seq(T), Len(h) = 8, NEW crc \in Seq(T), Len(crc) = 2,
           NEW raw \in Seq(T)
    PROVE  Framed((h \o crc) \o raw, h, crc, raw)
<1> DEFINE s == h \o crc
           f == s \o raw
<1>0. /\ s \in Seq(T) /\ Len(s) = Len(h) + Len(crc)
      /\ \A k \in 1..Len(h) + Len(crc) : s[k] = IF k <= Len(h) THEN h[k] ELSE crc[k - Len(h)]
  BY ConcatProperties
<1>1. s \in Seq(T) /\ Len(s) = 10 /\ \A k \in 1..10 : s[k] = IF k <= 8 THEN h[k] ELSE crc[k - 8]
  BY <1>0
<1>2. /\ f \in Seq(T) /\ Len(f) = 10 + Len(raw) /\ Len(raw) \in Nat
      /\ \A k \in 1..10 + Len(raw) : f[k] = IF k <= 10 THEN s[k] ELSE raw[k - 10]
  BY <1>1
<1> HIDE DEF s, f
<1>3. SubSeq(f, 1, 8) = h
  BY <1>1, <1>2
<1>4. SubSeq(f, 9, 10) = crc
  BY <1>1, <1>2
<1>5. SubSeq(f, 11, Len(f)) = raw
  BY <1>1, <1>2
<1> QED
  BY <1>2, <1>3, <1>4, <1>5 DEF f, s, Framed

\* For any payload, addresses and bytes: the checksum of a frame as build_frame makes
\* it is the one that the parser wants, and behind the ten bytes of its header are the
\* blocks (rwk35.py:37-57, 146-147, 204-207).
THEOREM FrameAccepted ==
    ASSUME NEW S, NEW payload \in Seq(S), NEW src, NEW dst
    PROVE  LET frame == build_frame(src, dst, payload)
           IN  /\ Len(frame) = 10 + PayloadSize(5 + Len(payload))
               /\ validate_header_crc(frame)
               /\ SubSeq(frame, 11, Len(frame)) = WithBlockCrcs(payload)
               /\ \E T : frame \in Seq(T)
<1> DEFINE raw    == WithBlockCrcs(payload)
           first  == <<5, 100, 5 + Len(payload), 196>>
           header == (first \o LE(dst)) \o LE(src)
           crc    == LE(crc16_dnp(header))
           frame  == (header \o crc) \o raw
           T      == {raw[k] : k \in 1..Len(raw)} \cup {5, 100, 5 + Len(payload), 196}
                       \cup {LE(n)[k] : n \in {src, dst, crc16_dnp(header)}, k \in {1, 2}}
<1>1. \A n \in {src, dst, crc16_dnp(header)} : LE(n) \in Seq(T) /\ Len(LE(n)) = 2
  <2> HIDE DEF header, raw
  <2> SUFFICES ASSUME NEW n \in {src, dst, crc16_dnp(header)}
               PROVE  LE(n) \in Seq(T) /\ Len(LE(n)) = 2
    OBVIOUS
  <2>1. LE(n)[1] \in T /\ LE(n)[2] \in T
    OBVIOUS
  <2>2. LE(n) = <<n % 256, (n \div 256) % 256>>
    BY DEF LE
  <2> HIDE DEF T
  <2> QED
    BY <2>1, <2>2
<1>2. first \in Seq(T) /\ Len(first) = 4
  <2> HIDE DEF raw, header
  <2>1. 5 \in T /\ 100 \in T /\ 5 + Len(payload) \in T /\ 196 \in T
    OBVIOUS
  <2> HIDE DEF T
  <2> QED
    BY <2>1
<1>3. raw \in Seq(T) /\ Len(raw) = PayloadSize(5 + Len(payload))
  <2>1. Len(raw) \in Nat /\ Len(raw) = PayloadSize(5 + Len(payload))
    <3>1. Len(payload) \in Nat
      OBVIOUS
    <3> QED
      BY <3>1, PayloadKept, LenProperties
  <2>2. raw = [k \in 1..Len(payload) + 2 * NumBlocks(Len(payload)) |-> raw[k]]
    BY DEF WithBlockCrcs
  <2>3. Len(payload) + 2 * NumBlocks(Len(payload)) \in Nat
    <3>1. Len(payload) \in Nat
      OBVIOUS
    <3> QED
      BY <3>1, StrippedBounds
  <2> HIDE DEF raw, header
  <2>4. Len(raw) = Len(payload) + 2 * NumBlocks(Len(payload))
    BY <2>2, <2>3, LengthOf
  <2>5. \A k \in 1..Len(raw) : raw[k] \in T
    OBVIOUS
  <2> HIDE DEF T
  <2>6. raw \in [1..Len(raw) -> T]
    BY <2>2, <2>4, <2>5
  <2> QED
    BY <2>1, <2>6
<1> HIDE DEF T, raw, first
<1>4. header \in Seq(T) /\ Len(header) = 8
  <2>1. /\ LE(dst) \in Seq(T) /\ Len(LE(dst)) = 2
        /\ LE(src) \in Seq(T) /\ Len(LE(src)) = 2
    BY <1>1
  <2>2. header \in Seq(T) /\ Len(header) = Len(first) + Len(LE(dst)) + Len(LE(src))
    <3>1. \A a, b, c \in Seq(T) :
            (a \o b) \o c \in Seq(T) /\ Len((a \o b) \o c) = Len(a) + Len(b) + Len(c)
      BY ThreeParts
    <3> QED
      BY <1>2, <2>1, <3>1, Zenon
  <2> HIDE DEF header
  <2> QED
    BY <1>2, <2>1, <2>2
<1> HIDE DEF header
<1>5. crc \in Seq(T) /\ Len(crc) = 2
  BY <1>1
<1>6. frame = build_frame(src, dst, payload)
  BY DEF build_frame, raw, header, first
<1> HIDE DEF crc
<1>7. /\ Len(frame) = 10 + Len(raw)
      /\ SubSeq(frame, 1, 8) = header /\ SubSeq(frame, 9, 10) = crc
      /\ SubSeq(frame, 11, Len(frame)) = raw
  <2>1. \A h, c, r \in Seq(T) :
          Len(h) = 8 /\ Len(c) = 2 => Framed((h \o c) \o r, h, c, r)
    BY HeaderParts
  <2>2. Framed(frame, header, crc, raw)
    BY <1>3, <1>4, <1>5, <2>1, Zenon
  <2> HIDE DEF frame
  <2> QED
    BY <2>2 DEF Framed
<1>8. validate_header_crc(frame)
  <2>1. Len(raw) \in Nat
    BY <1>3, LenProperties
  <2>2. Len(frame) >= 10
    BY <1>7, <2>1
  <2>3. LE(crc16_dnp(SubSeq(frame, 1, 8))) = SubSeq(frame, 9, 10)
    BY <1>7, Zenon DEF crc
  <2> HIDE DEF frame
  <2> QED
    BY <2>2, <2>3, Zenon DEF validate_header_crc
<1>9. frame \in Seq(T)
  <2>1. \A a, b, c \in Seq(T) : (a \o b) \o c \in Seq(T)
    BY ThreeParts
  <2> QED
    BY <1>3, <1>4, <1>5, <2>1, Zenon
<1>10. \E U : frame \in Seq(U)
  BY <1>9, Zenon
<1> HIDE DEF frame
<1> QED
  BY <1>3, <1>6, <1>7, <1>8, <1>10 DEF raw

-----------------------------------------------------------------------------
(* The parser.                                                             *)

\* Whatever the device sends, parse_response reads no byte beyond the end of app,
\* so it never raises, and poll_device never fails for a malformed response
\* (rwk35.py:224-427).
THEOREM NeverRaises == Spec => []InBounds
<1>1. Init => InBounds
  BY DEF Init, InBounds
<1>2. InBounds /\ [Next]_vars => InBounds'
  <2> SUFFICES ASSUME InBounds, [Next]_vars PROVE InBounds'
    OBVIOUS
  <2>1. CASE Begin
    BY <2>1 DEF Begin, IsResponse, InBounds
  <2>2. ASSUME NEW kind \in DOMAIN Kinds, BeginObject(kind) PROVE InBounds'
    BY <2>2 DEF BeginObject, InBounds
  <2>3. CASE StopParsing
    BY <2>3 DEF StopParsing, InBounds
  <2>4. CASE NextPoint
    BY <2>4 DEF NextPoint, Room, InBounds
  <2>5. CASE EndObject
    BY <2>5 DEF EndObject, InBounds
  <2>6. CASE UNCHANGED vars
    BY <2>6 DEF vars, InBounds
  <2> QED
    BY <2>1, <2>2, <2>3, <2>4, <2>5, <2>6 DEF Next
<1> QED
  BY <1>1, <1>2, PTL DEF Spec

-----------------------------------------------------------------------------
(* The counts.                                                             *)

\* Of places in a sequence there is a last.
LEMMA LastPlace ==
    ASSUME NEW n \in Nat, NEW S \in SUBSET (1..n), S # {}
    PROVE  Max(S) \in S /\ \A l \in S : Max(S) >= l
<1> DEFINE R == OpToRel(<, Nat)
           T == {n - l : l \in S}
<1>0. \A l \in S : l \in 1..n /\ n - l \in Nat
  OBVIOUS
<1>1. T \subseteq Nat /\ T # {}
  BY <1>0, Zenon
<1>2. PICK x \in T : \A y \in T : ~(<<y, x>> \in R)
  BY <1>1, NatLessThanWellFounded, WFMin
<1>3. \A y \in T : ~(y < x)
  BY <1>1, <1>2 DEF OpToRel
<1>4. PICK m \in S : x = n - m
  OBVIOUS
<1>5. ASSUME NEW l \in S PROVE m >= l
  <2>1. ~(n - l < n - m)
    BY <1>3, <1>4
  <2> QED
    BY <1>0, <2>1
<1> QED
  BY <1>5 DEF Max

ReadingType ==
    [type : {"binary", "analog"}, id : Nat, value : Seq(Byte), factor : {1, 1000},
     quality_online : BOOLEAN]
Point == [reading : ReadingType, count_update : Nat, change_count : Nat]

LEMMA EarlierLast ==
    ASSUME NEW p \in Seq(Point), NEW k \in 1..Len(p), Earlier(p, k) # {}
    PROVE  LET m == Max(Earlier(p, k))
           IN  /\ m \in 1..k - 1 /\ p[m].reading.id = p[k].reading.id
               /\ Earlier(p, k) = Earlier(p, m) \cup {m}
               /\ Changes(p, k) = Changes(p, m) \cup
                    {l \in {k} : Differs(p[m].reading, p[k].reading)}
<1> DEFINE m == Max(Earlier(p, k))
<1>1. Earlier(p, k) \subseteq 1..k - 1 /\ k - 1 \in Nat /\ Len(p) \in Nat
  BY DEF Earlier
<1>2. m \in Earlier(p, k) /\ \A l \in Earlier(p, k) : m >= l
  BY <1>1, LastPlace
<1>m. m = Max(Earlier(p, k))
  OBVIOUS
<1> HIDE DEF m
<1>3. m \in 1..k - 1 /\ p[m].reading.id = p[k].reading.id
  BY <1>2 DEF Earlier
<1>4. Earlier(p, k) = Earlier(p, m) \cup {m}
  BY <1>1, <1>2, <1>3 DEF Earlier
<1>5. Changes(p, k) =
        Changes(p, m) \cup {l \in {k} : Differs(p[m].reading, p[k].reading)}
  BY <1>3, <1>4, <1>m DEF Changes
<1> QED
  BY <1>3, <1>4, <1>5 DEF m

\* A point more at the end changes no count before it.
LEMMA EarlierStays ==
    ASSUME NEW p \in Seq(Point), NEW q \in Point, NEW k \in 1..Len(p)
    PROVE  /\ Earlier(Append(p, q), k) = Earlier(p, k)
           /\ Changes(Append(p, q), k) = Changes(p, k)
<1> DEFINE r == Append(p, q)
<1>1. Len(p) \in Nat /\ \A l \in 1..Len(p) : r[l] = p[l]
  OBVIOUS
<1> HIDE DEF r
<1>2. \A j \in 1..Len(p) : Earlier(r, j) = Earlier(p, j)
  BY <1>1 DEF Earlier
<1>3. \A j \in 1..Len(p) : Earlier(p, j) # {} => Max(Earlier(p, j)) \in 1..Len(p)
  <2> SUFFICES ASSUME NEW j \in 1..Len(p), Earlier(p, j) # {}
               PROVE  Max(Earlier(p, j)) \in 1..Len(p)
    OBVIOUS
  <2>1. j - 1 \in Nat /\ Earlier(p, j) \in SUBSET (1..j - 1)
    BY <1>1 DEF Earlier
  <2>2. Max(Earlier(p, j)) \in Earlier(p, j)
    BY <2>1, LastPlace
  <2> QED
    BY <1>1, <2>1, <2>2
<1>4. \A l \in Earlier(p, k) \cup {k} : l \in 1..Len(p)
  BY <1>1 DEF Earlier
<1>5. Changes(r, k) = Changes(p, k)
  BY <1>1, <1>2, <1>3, <1>4 DEF Changes
<1> QED
  BY <1>2, <1>5 DEF r

LEMMA CountsFinite ==
    ASSUME NEW p \in Seq(Point), NEW k \in 1..Len(p)
    PROVE  /\ IsFiniteSet(Earlier(p, k)) /\ IsFiniteSet(Changes(p, k))
           /\ Cardinality(Earlier(p, k)) \in 0..k - 1
           /\ Cardinality(Changes(p, k)) \in Nat
           /\ \A l \in Earlier(p, k) : l < k
           /\ \A l \in Changes(p, k) : l \in 1..k
<1>1. k \in Nat /\ k - 1 \in Nat
  OBVIOUS
<1>2. Earlier(p, k) \subseteq 1..k - 1 /\ Changes(p, k) \subseteq 1..k
  BY <1>1 DEF Earlier, Changes
<1>3. IsFiniteSet(1..k - 1) /\ Cardinality(1..k - 1) = k - 1 /\ IsFiniteSet(1..k)
  BY <1>1, FS_Interval
<1>4. /\ IsFiniteSet(Earlier(p, k)) /\ IsFiniteSet(Changes(p, k))
      /\ Cardinality(Earlier(p, k)) <= k - 1
  BY <1>2, <1>3, FS_Subset
<1>5. Cardinality(Earlier(p, k)) \in Nat /\ Cardinality(Changes(p, k)) \in Nat
  BY <1>4, FS_CardinalityType
<1> QED
  BY <1>1, <1>2, <1>4, <1>5

CountsOf(p) ==
    \A k \in 1..Len(p) :
        /\ p[k].count_update = Cardinality(Earlier(p, k)) + 1
        /\ p[k].change_count = Cardinality(Changes(p, k))

LEMMA CountsAppend ==
    ASSUME points \in Seq(Point), CountsOf(points), NEW reading \in ReadingType
    PROVE  /\ Append(points, Counted(reading)) \in Seq(Point)
           /\ CountsOf(Append(points, Counted(reading)))
<1> DEFINE n       == Len(points)
           earlier == {k \in DOMAIN points : points[k].reading.id = reading.id}
           m       == Max(earlier)
           q       == Counted(reading)
           r       == Append(points, q)
<1>1. n \in Nat /\ DOMAIN points = 1..n /\ \A k \in 1..n : points[k] \in Point
  OBVIOUS
<1>2. earlier # {} => m \in earlier
  <2>1. earlier \in SUBSET (1..n)
    BY <1>1
  <2> QED
    BY <1>1, <2>1, LastPlace
<1>3. q = IF earlier = {}
          THEN [reading |-> reading, count_update |-> 1, change_count |-> 0]
          ELSE [reading |-> reading,
                count_update |-> points[m].count_update + 1,
                change_count |-> points[m].change_count +
                    IF Differs(points[m].reading, reading) THEN 1 ELSE 0]
  BY DEF Counted
<1> HIDE DEF m, q
<1>4. q \in Point /\ q.reading = reading
  <2>1. CASE earlier = {}
    BY <1>3, <2>1 DEF Point
  <2>2. CASE earlier # {}
    <3>1. points[m] \in Point
      BY <1>1, <1>2, <2>2
    <3>2. points[m].count_update \in Nat /\ points[m].change_count \in Nat
      BY <3>1 DEF Point
    <3> DEFINE change == IF Differs(points[m].reading, reading) THEN 1 ELSE 0
    <3>3. change \in Nat
      OBVIOUS
    <3>4. q = [reading |-> reading, count_update |-> points[m].count_update + 1,
               change_count |-> points[m].change_count + change]
      BY <1>3, <2>2
    <3> HIDE DEF change
    <3> DEFINE update  == points[m].count_update + 1
               changes == points[m].change_count + change
    <3>5. update \in Nat /\ changes \in Nat
      BY <3>2, <3>3
    <3>6. q = [reading |-> reading, count_update |-> update, change_count |-> changes]
      BY <3>4
    <3> HIDE DEF update, changes
    <3> QED
      BY <3>5, <3>6, Zenon DEF Point
  <2> QED
    BY <2>1, <2>2
<1>5. /\ r \in Seq(Point) /\ Len(r) = n + 1 /\ r[n + 1] = q
      /\ \A k \in 1..n : r[k] = points[k]
  BY <1>1, <1>4
<1>6. \A k \in 1..n : Earlier(r, k) = Earlier(points, k) /\ Changes(r, k) = Changes(points, k)
  BY <1>4, EarlierStays
<1>7. ASSUME NEW k \in 1..n
      PROVE  /\ r[k].count_update = Cardinality(Earlier(r, k)) + 1
             /\ r[k].change_count = Cardinality(Changes(r, k))
  BY <1>5, <1>6 DEF CountsOf
<1> HIDE DEF r
<1>8. Earlier(r, n + 1) = earlier
  BY <1>1, <1>4, <1>5 DEF Earlier
<1> HIDE DEF earlier
<1>9. /\ q.count_update = Cardinality(Earlier(r, n + 1)) + 1
      /\ q.change_count = Cardinality(Changes(r, n + 1))
  <2>1. CASE earlier = {}
    <3>1. Changes(r, n + 1) = {}
      BY <1>8, <2>1 DEF Changes
    <3>2. q.count_update = 1 /\ q.change_count = 0
      BY <1>3, <2>1
    <3>3. Cardinality(Earlier(r, n + 1)) = 0 /\ Cardinality(Changes(r, n + 1)) = 0
      BY <1>8, <2>1, <3>1, FS_EmptySet
    <3> QED
      BY <3>2, <3>3
  <2>2. CASE earlier # {}
    <3>1. m = Max(Earlier(r, n + 1)) /\ n + 1 \in 1..Len(r)
      BY <1>1, <1>5, <1>8 DEF m
    <3>2. /\ m \in 1..n
          /\ Earlier(r, n + 1) = Earlier(r, m) \cup {m}
          /\ Changes(r, n + 1) = Changes(r, m) \cup
               {l \in {n + 1} : Differs(r[m].reading, r[n + 1].reading)}
      BY <1>1, <1>5, <1>8, <2>2, <3>1, EarlierLast
    <3>3. /\ IsFiniteSet(Earlier(r, m)) /\ m \notin Earlier(r, m)
          /\ IsFiniteSet(Changes(r, m)) /\ n + 1 \notin Changes(r, m)
          /\ Cardinality(Changes(r, m)) \in Nat /\ Cardinality(Earlier(r, m)) \in Nat
      BY <1>1, <1>5, <3>2, CountsFinite
    <3>4. Cardinality(Earlier(r, n + 1)) = Cardinality(Earlier(r, m)) + 1
      BY <3>2, <3>3, FS_AddElement
    <3>5. /\ points[m].count_update = Cardinality(Earlier(r, m)) + 1
          /\ points[m].change_count = Cardinality(Changes(r, m))
      BY <1>5, <1>7, <3>2
    <3>6. q.count_update = points[m].count_update + 1
      BY <1>3, <2>2
    <3>7. r[m].reading = points[m].reading /\ r[n + 1].reading = reading
      BY <1>4, <1>5, <3>2
    <3>8. CASE Differs(points[m].reading, reading)
      <4>1. Changes(r, n + 1) = Changes(r, m) \cup {n + 1}
        BY <3>2, <3>7, <3>8
      <4>2. Cardinality(Changes(r, n + 1)) = Cardinality(Changes(r, m)) + 1
        BY <3>3, <4>1, FS_AddElement
      <4>3. q.change_count = points[m].change_count + 1
        BY <1>3, <2>2, <3>8
      <4> QED
        BY <3>4, <3>5, <3>6, <4>2, <4>3
    <3>9. CASE ~Differs(points[m].reading, reading)
      <4>1. Changes(r, n + 1) = Changes(r, m)
        BY <3>2, <3>7, <3>9
      <4>2. q.change_count = points[m].change_count + 0
        BY <1>3, <2>2, <3>9
      <4> QED
        BY <3>3, <3>4, <3>5, <3>6, <4>1, <4>2
    <3> QED
      BY <3>8, <3>9
  <2> QED
    BY <2>1, <2>2
<1>10. ASSUME NEW k \in 1..Len(r)
       PROVE  /\ r[k].count_update = Cardinality(Earlier(r, k)) + 1
              /\ r[k].change_count = Cardinality(Changes(r, k))
  <2>1. CASE k \in 1..n
    BY <1>7, <2>1
  <2>2. CASE k = n + 1
    BY <1>5, <1>9, <2>2
  <2> QED
    BY <1>1, <1>5, <2>1, <2>2
<1>11. CountsOf(r)
  BY <1>10 DEF CountsOf
<1> QED
  BY <1>5, <1>11 DEF r, q

-----------------------------------------------------------------------------
(* What the parser reads are bytes.                                        *)

LEMMA AtType ==
    ASSUME app \in Seq(Byte), NEW k \in Nat
    PROVE  At(k) \in Byte /\ Word(k) \in Nat
<1>1. ASSUME NEW l \in Nat PROVE At(l) \in Byte
  <2>1. l < Len(app) => app[l + 1] \in Byte
    OBVIOUS
  <2>2. 0 \in Byte
    BY DEF Byte
  <2> QED
    BY <2>1, <2>2 DEF At
<1>2. At(k) \in Byte /\ At(k + 1) \in Byte
  BY <1>1
<1>3. \A a, b \in Byte : a + 256 * b \in Nat
  BY DEF Byte
<1> QED
  BY <1>2, <1>3 DEF Word

LEMMA RestType ==
    ASSUME NEW n \in Nat, NEW f \in Nat, \A k \in Nat : At(k) \in Byte
    PROVE  [k \in 1..n |-> At(f + k)] \in Seq(Byte)
<1>1. \A k \in 1..n : f + k \in Nat
  OBVIOUS
<1>2. \A k \in 1..n : At(f + k) \in Byte
  BY <1>1, Zenon
<1>3. [k \in 1..n |-> At(f + k)] \in [1..n -> Byte]
  BY <1>2
<1> QED
  BY <1>3

LEMMA StrippedSize ==
    ASSUME NEW n \in Nat
    PROVE  Stripped(n) \in Nat
  BY Z3 DEF Stripped, Least

LEMMA StrippedPlace ==
    ASSUME NEW n \in Nat, NEW j \in 1..Stripped(n)
    PROVE  18 * ((j - 1) \div 16) + ((j - 1) % 16) + 1 \in 1..n
  BY Z3 DEF Stripped, Least

LEMMA StrippedBytes ==
    ASSUME NEW raw \in Seq(Byte)
    PROVE  strip_crc_blocks(raw) \in Seq(Byte)
<1>1. Len(raw) \in Nat /\ Stripped(Len(raw)) \in Nat
  BY StrippedSize
<1>2. \A j \in 1..Stripped(Len(raw)) :
        raw[18 * ((j - 1) \div 16) + ((j - 1) % 16) + 1] \in Byte
  BY <1>1, StrippedPlace
<1> QED
  BY <1>1, <1>2 DEF strip_crc_blocks

\* The invariant: TypeOK alone does not say what is received, nor what a point is.
ParserTypes ==
    /\ mode \in {"frame", "header", "points", "done"}
    /\ data \in Seq(Byte)
    /\ app \in Seq(Byte)
    /\ i \in Nat
    /\ object \in [kind : DOMAIN Kinds, next : Nat, left : Int]
    /\ points \in Seq(Point)

LEMMA KindFacts ==
    /\ DOMAIN Kinds = {"binary", "float", "short", "event"}
    /\ \A kind \in DOMAIN Kinds :
          /\ Kinds[kind].rest \in Nat
          /\ Kinds[kind].qualifiers \subseteq {0, 1, 40}
          /\ PointSize(kind) \in Nat
BY DEF Kinds, PointSize

LEMMA ReadingTyped ==
    ASSUME NEW kind \in DOMAIN Kinds, NEW id \in Nat, NEW flag \in Byte,
           NEW rest \in Seq(Byte)
    PROVE  Reading(kind, id, flag, rest) \in ReadingType
<1>1. flag \div 128 \in Byte /\ flag % 2 \in Nat
  BY Z3 DEF Byte
<1>2. <<flag \div 128>> \in Seq(Byte)
  BY <1>1
<1> QED
  BY <1>2 DEF Reading, ReadingType

LEMMA ParserKept ==
    ParserTypes /\ CountsOf(points) /\ [Next]_vars => ParserTypes' /\ CountsOf(points)'
<1> SUFFICES ASSUME ParserTypes, CountsOf(points), [Next]_vars
             PROVE  ParserTypes' /\ CountsOf(points)'
  OBVIOUS
<1> USE DEF ParserTypes
<1>t. \A k \in Nat : At(k) \in Byte /\ At(k) \in Nat /\ Word(k) \in Nat
  <2>1. \A k \in Nat : At(k) \in Byte /\ Word(k) \in Nat
    BY AtType
  <2>2. Byte \subseteq Nat
    BY DEF Byte
  <2> QED
    BY <2>1, <2>2, Zenon
<1>1. CASE Begin
  <2> DEFINE stripped == strip_crc_blocks(SubSeq(data, 11, Len(data)))
  <2>1. SubSeq(data, 11, Len(data)) \in Seq(Byte)
    OBVIOUS
  <2>2. stripped \in Seq(Byte)
    BY <2>1, StrippedBytes
  <2>3. /\ mode' \in {"header", "done"} /\ app' \in {app, stripped} /\ i' \in {i, 5}
        /\ UNCHANGED <<data, object, points>>
    BY <1>1 DEF Begin
  <2> HIDE DEF stripped
  <2> QED
    BY <2>2, <2>3
<1>2. ASSUME NEW kind \in DOMAIN Kinds, BeginObject(kind)
      PROVE  ParserTypes' /\ CountsOf(points)'
  <2>1. At(i + 2) \in {0, 1, 40}
    BY <1>2, KindFacts DEF BeginObject, Matches
  <2>2. /\ At(i + 3) \in Nat /\ At(i + 4) \in Nat
        /\ Word(i + 3) \in Nat /\ Word(i + 5) \in Nat
    <3>1. i + 3 \in Nat /\ i + 4 \in Nat /\ i + 5 \in Nat
      OBVIOUS
    <3> QED
      BY <1>t, <3>1, Zenon
  <2>3. object' \in [kind : DOMAIN Kinds, next : Nat, left : Int]
    <3>t. \A next \in Nat, left \in Int :
              [kind |-> kind, next |-> next, left |-> left]
                  \in [kind : DOMAIN Kinds, next : Nat, left : Int]
      OBVIOUS
    <3> DEFINE left == At(i + 4) - At(i + 3) + 1
               more == Word(i + 5) - Word(i + 3) + 1
    <3>l. left \in Int /\ more \in Int /\ 0 \in Nat /\ Word(i + 3) \in Int
      BY <2>2
    <3>b. object' = CASE At(i + 2) = 0 ->
                          [kind |-> kind, next |-> At(i + 3), left |-> left]
                      [] At(i + 2) = 1 ->
                          [kind |-> kind, next |-> Word(i + 3), left |-> more]
                      [] At(i + 2) = 40 ->
                          [kind |-> kind, next |-> 0, left |-> Word(i + 3)]
      BY <1>2, Zenon DEF BeginObject
    <3> HIDE DEF left, more
    <3>1. CASE At(i + 2) = 0
      <4>1. object' = [kind |-> kind, next |-> At(i + 3), left |-> left]
        BY <3>b, <3>1
      <4> QED
        BY <2>2, <3>t, <3>l, <4>1, Zenon
    <3>2. CASE At(i + 2) = 1
      <4>1. object' = [kind |-> kind, next |-> Word(i + 3), left |-> more]
        BY <3>b, <3>2
      <4> QED
        BY <2>2, <3>t, <3>l, <4>1, Zenon
    <3>3. CASE At(i + 2) = 40
      <4>1. object' = [kind |-> kind, next |-> 0, left |-> Word(i + 3)]
        BY <3>b, <3>3
      <4> QED
        BY <3>t, <3>l, <4>1, Zenon
    <3> QED
      BY <2>1, <3>1, <3>2, <3>3
  <2>4. i' \in Nat
    BY <1>2 DEF BeginObject, RangeSize
  <2> QED
    BY <1>2, <2>3, <2>4 DEF BeginObject
<1>3. CASE StopParsing \/ EndObject \/ UNCHANGED vars
  BY <1>3 DEF StopParsing, EndObject, vars
<1>4. CASE NextPoint
  <2> DEFINE kind  == object.kind
             event == kind = "event"
             flag  == IF event THEN i + 2 ELSE i
             rest  == [k \in 1..Kinds[kind].rest |-> At(flag + k)]
             id    == IF event THEN Word(i) ELSE object.next
  <2>1. kind \in DOMAIN Kinds /\ object.next \in Nat /\ object.left \in Int
    OBVIOUS
  <2>2. flag \in Nat /\ Kinds[kind].rest \in Nat
    BY <2>1, KindFacts
  <2>f. id \in Nat
    BY <1>t, <2>1
  <2> HIDE DEF flag
  <2>3. At(flag) \in Byte
    BY <1>t, <2>2, Zenon
  <2>4. rest \in Seq(Byte)
    BY <1>t, <2>2, RestType
  <2> DEFINE reading == Reading(kind, id, At(flag), rest)
  <2>5. points' = Append(points, Counted(reading))
    BY <1>4 DEF NextPoint, flag
  <2> HIDE DEF rest, id
  <2>6. reading \in ReadingType
    BY <2>1, <2>3, <2>f, <2>4, ReadingTyped
  <2> HIDE DEF reading
  <2>7. points' \in Seq(Point) /\ CountsOf(points)'
    BY <2>5, <2>6, CountsAppend
  <2>8. /\ i' = i + PointSize(kind)
        /\ object' = [object EXCEPT !.next = object.next + 1, !.left = object.left - 1]
        /\ UNCHANGED <<message, data, mode, app>>
    BY <1>4 DEF NextPoint
  <2>9. i' \in Nat /\ object' \in [kind : DOMAIN Kinds, next : Nat, left : Int]
    <3>1. PointSize(kind) \in Nat
      BY <2>1, KindFacts
    <3>2. i' \in Nat
      BY <2>8, <3>1
    <3>3. object.next + 1 \in Nat /\ object.left - 1 \in Int
      BY <2>1
    <3>4. object' \in [kind : DOMAIN Kinds, next : Nat, left : Int]
      BY <2>8, <3>3
    <3> QED
      BY <3>2, <3>4
  <2> QED
    BY <2>7, <2>8, <2>9
<1> QED
  BY <1>1, <1>2, <1>3, <1>4 DEF Next

LEMMA ParserInvariant == Spec => [](ParserTypes /\ CountsOf(points))
<1>1. Init => ParserTypes /\ CountsOf(points)
  <2> SUFFICES ASSUME Init PROVE ParserTypes /\ CountsOf(points)
    OBVIOUS
  <2>1. data \in Seq(Byte)
    BY BytesAssumption DEF Init
  <2>2. NoObject \in [kind : DOMAIN Kinds, next : Nat, left : Int]
    BY KindFacts DEF NoObject
  <2> QED
    BY <2>1, <2>2 DEF Init, ParserTypes, CountsOf
<1> QED
  BY <1>1, ParserKept, PTL DEF Spec

\* Whatever bytes are received: each variable of parse_response keeps its type, and
\* no count exceeds the points there are (rwk35.py:203-456).
THEOREM TypeCorrect == Spec => []TypeOK
<1>1. ParserTypes /\ CountsOf(points) => TypeOK
  <2> SUFFICES ASSUME ParserTypes, CountsOf(points) PROVE TypeOK
    OBVIOUS
  <2>1. ASSUME NEW k \in DOMAIN points
        PROVE  points[k].count_update \in 1..Len(points) /\ points[k].change_count \in Nat
    <3>1. points \in Seq(Point) /\ k \in 1..Len(points) /\ Len(points) \in Nat
      BY DEF ParserTypes
    <3>2. Cardinality(Earlier(points, k)) \in 0..k - 1 /\ Cardinality(Changes(points, k)) \in Nat
      BY <3>1, CountsFinite
    <3>3. /\ points[k].count_update = Cardinality(Earlier(points, k)) + 1
          /\ points[k].change_count = Cardinality(Changes(points, k))
      BY <3>1 DEF CountsOf
    <3> QED
      BY <3>1, <3>2, <3>3
  <2> QED
    BY <2>1 DEF ParserTypes, TypeOK
<1> QED
  BY <1>1, ParserInvariant, PTL

\* Whatever bytes are received, however the reports of several indexes are mixed, and
\* whatever values differ: each index counts its own reports and changes
\* (rwk35.py:217-219, 246-250).
THEOREM CountedRight == Spec => []CountedByIndex
<1>1. ParserTypes /\ CountsOf(points) => CountedByIndex
  BY DEF ParserTypes, CountsOf, CountedByIndex
<1> QED
  BY <1>1, ParserInvariant, PTL

-----------------------------------------------------------------------------
(* The track of the parser: where it stands in the response that was sent, *)
(* and what it has read.  This is the strengthening from which the         *)
(* round trip follows.                                                     *)

\* The encodings of a response's objects, and of an object's samples.
Encoded(m)   == [k \in DOMAIN m.objects |-> Encode(m.objects[k])]
Encodings(o) == [k \in DOMAIN o.samples |-> EncodeSample(o.kind, o.samples[k])]

\* Where the n-th object starts in the fragment, and its samples.
Start(m, n) == 5 + Len(First(Encoded(m), n - 1))
Body(m, n)  == Start(m, n) + Len(EncodeHeader(m.objects[n]))

\* What is read of an object, of its first count samples.
ReadingsOf(o, count) ==
    [k \in 1..count |-> Reading(o.kind, o.samples[k].id, o.samples[k].flag, o.samples[k].rest)]
ReadAll(m) == [k \in DOMAIN m.objects |-> ReadingsOf(m.objects[k], Len(m.objects[k].samples))]

\* The parser comes past the first n objects.
Known(m, n) == \A k \in 1..n : m.objects[k].kind \in DOMAIN Kinds

\* The parser has come to the n-th object without losing its way.
AtObject(n) ==
    /\ mode = "header" /\ n \in 1..Len(message.objects) + 1 /\ Known(message, n - 1)
    /\ i = Start(message, n) /\ i <= message.cut
    /\ Readings = First(ReadAll(message), n - 1)

\* It has read the first k samples of this object.
InObject(n, k) ==
    LET o == message.objects[n]
    IN  /\ mode = "points" /\ n \in 1..Len(message.objects) /\ Known(message, n)
        /\ k \in 0..Len(o.samples)
        /\ object.kind = o.kind /\ object.left = Len(o.samples) - k
        /\ o.kind # "event" => object.next = o.samples[1].id + k
        /\ i = Body(message, n) + k * PointSize(o.kind) /\ i <= message.cut
        /\ Readings = First(ReadAll(message), n - 1) \o ReadingsOf(o, k)

\* All that arrived is read; what is read on is made of what is left.
AllRead ==
    /\ IsPrefix(WhollyReceived(message), Readings)
    /\ Whole(message) => mode = "done" /\ Readings = WhollyReceived(message)

\* The first cut bytes are what was sent, and at most a CRC follows.
Arrived ==
    /\ Len(app) \in message.cut..message.cut + 2
    /\ \A j \in 1..message.cut : app[j] = Fragment(message)[j]

\* Before the frame is looked at, in a header, in an object or past all that arrived.
Following ==
    /\ mode = "frame" => points = <<>> /\ data = Received(message)
    /\ mode # "frame" =>
        /\ Arrived
        /\ \/ \E n \in 1..Len(message.objects) + 1 : AtObject(n)
           \/ \E n \in 1..Len(message.objects) :
                  \E k \in 0..Len(message.objects[n].samples) : InObject(n, k)
           \/ AllRead

\* Where the parser is in the response that was sent.
OnTrack == Answers(message) => Following

\* c is a sequence of length m and then one of length n.
Joined(c, a, b, m, n) ==
    Len(c) = m + n /\ (\A j \in 1..m : c[j] = a[j]) /\ \A j \in 1..n : c[m + j] = b[j]

-----------------------------------------------------------------------------
(* What the device encodes, and where each byte of it stands.              *)

\* Two sequences in a row, with the lengths they have by other facts.
LEMMA ConcatBytes ==
    \A m, n \in Nat : \A a, b \in Seq(Byte) :
        Len(a) = m /\ Len(b) = n => a \o b \in Seq(Byte) /\ Joined(a \o b, a, b, m, n)
BY DEF Joined

\* What the table of kinds holds.
LEMMA KindBytes ==
    ASSUME NEW kind \in DOMAIN Kinds
    PROVE  /\ Kinds[kind].group \in Byte /\ Kinds[kind].var \in Byte
           /\ Kinds[kind].qualifiers \subseteq {0, 1, 40}
           /\ kind # "event" => Kinds[kind].qualifiers = {0, 1}
           /\ kind = "event" => Kinds[kind].qualifiers = {40}
BY DEF Kinds, Byte

\* A number of two bytes is what its two bytes say.
LEMMA LittleEndian ==
    ASSUME NEW n, TwoBytes(n)
    PROVE  /\ LE(n) \in Seq(Byte) /\ Len(LE(n)) = 2
           /\ LE(n)[1] + 256 * LE(n)[2] = n
<1>1. n % 256 \in Byte /\ (n \div 256) % 256 \in Byte /\ (n % 256) + 256 * ((n \div 256) % 256) = n
  BY Z3 DEF Byte, TwoBytes
<1> QED
  BY <1>1 DEF LE

\* What stands in the bytes of a sample.
LEMMA SampleBytes ==
    ASSUME NEW kind \in DOMAIN Kinds, NEW s, Sample(kind, s)
    PROVE  LET e == EncodeSample(kind, s)
           IN  /\ e \in Seq(Byte) /\ Len(e) = PointSize(kind)
               /\ kind = "event" =>
                    /\ e[1] + 256 * e[2] = s.id /\ e[3] = s.flag
                    /\ \A j \in 1..Kinds[kind].rest : e[3 + j] = s.rest[j]
               /\ kind # "event" =>
                    /\ e[1] = s.flag
                    /\ \A j \in 1..Kinds[kind].rest : e[1 + j] = s.rest[j]
<1> DEFINE r    == Kinds[kind].rest
           id   == LE(s.id)
           flag == <<s.flag>>
<1>1. r \in Nat /\ PointSize(kind) = 1 + r + (IF kind = "event" THEN 2 ELSE 0)
  BY KindFacts, Zenon DEF PointSize
<1> HIDE DEF r
<1>2. TwoBytes(s.id) /\ s.flag \in Byte /\ s.rest \in Seq(Byte) /\ Len(s.rest) = r
  BY Zenon DEF Sample, r
<1>3. flag \in Seq(Byte) /\ Len(flag) = 1 /\ flag[1] = s.flag
  BY <1>2
<1>4. id \in Seq(Byte) /\ Len(id) = 2 /\ id[1] + 256 * id[2] = s.id
  BY <1>2, LittleEndian
<1>5. EncodeSample(kind, s) = ((IF kind = "event" THEN id ELSE <<>>) \o flag) \o s.rest
  BY Zenon DEF EncodeSample
<1> HIDE DEF flag, id
<1>n. 1 \in Nat /\ 2 \in Nat /\ 3 \in Nat /\ r \in Nat
  BY <1>1
<1>6. CASE kind = "event"
  <2> DEFINE a == id \o flag
             e == a \o s.rest
  <2>1. EncodeSample(kind, s) = e
    BY <1>5, <1>6, Zenon
  <2>2. a \in Seq(Byte) /\ Joined(a, id, flag, 2, 1)
    BY <1>3, <1>4, <1>n, ConcatBytes, Zenon
  <2> HIDE DEF a
  <2>3. Len(a) = 3 /\ a[1] = id[1] /\ a[2] = id[2] /\ a[3] = s.flag
    BY <1>3, <2>2 DEF Joined
  <2>4. e \in Seq(Byte) /\ Joined(e, a, s.rest, 3, r)
    BY <1>2, <1>n, <2>2, <2>3, ConcatBytes, Zenon
  <2> HIDE DEF e
  <2>5. /\ Len(e) = 3 + r /\ e[1] = a[1] /\ e[2] = a[2] /\ e[3] = a[3]
        /\ \A j \in 1..r : e[3 + j] = s.rest[j]
    BY <2>4 DEF Joined
  <2>6. PointSize(kind) = 3 + r
    BY <1>1, <1>6
  <2>7. e[1] + 256 * e[2] = s.id
    BY <1>4, <2>3, <2>5, Zenon
  <2> QED
    BY <1>6, <2>1, <2>3, <2>4, <2>5, <2>6, <2>7, Zenon DEF r
<1>7. CASE kind # "event"
  <2> DEFINE e == flag \o s.rest
  <2>1. EncodeSample(kind, s) = e
    <3>1. <<>> \o flag = flag
      BY <1>3
    <3> QED
      BY <1>5, <1>7, <3>1, Zenon
  <2>2. e \in Seq(Byte) /\ Joined(e, flag, s.rest, 1, r)
    BY <1>2, <1>3, <1>n, ConcatBytes, Zenon
  <2> HIDE DEF e
  <2>3. Len(e) = 1 + r /\ e[1] = s.flag /\ \A j \in 1..r : e[1 + j] = s.rest[j]
    BY <1>3, <2>2 DEF Joined
  <2>4. PointSize(kind) = 1 + r
    BY <1>1, <1>7
  <2> QED
    BY <1>7, <2>1, <2>2, <2>3, <2>4, Zenon DEF r
<1> QED
  BY <1>6, <1>7

\* What stands in the bytes of an object's header.
LEMMA HeaderBytes ==
    ASSUME NEW o, o.kind \in DOMAIN Kinds, KnownObject(o)
    PROVE  LET h     == EncodeHeader(o)
               count == Len(o.samples)
           IN  /\ h \in Seq(Byte) /\ Len(h) = 3 + RangeSize(o.qualifier)
               /\ h[1] = Kinds[o.kind].group /\ h[2] = Kinds[o.kind].var
               /\ h[3] = o.qualifier /\ o.qualifier \in Kinds[o.kind].qualifiers
               /\ o.qualifier = 0 =>
                    h[4] = o.samples[1].id /\ h[5] = o.samples[1].id + count - 1
               /\ o.qualifier = 1 =>
                    /\ h[4] + 256 * h[5] = o.samples[1].id
                    /\ h[6] + 256 * h[7] = o.samples[1].id + count - 1
               /\ o.qualifier = 40 => h[4] + 256 * h[5] = count
<1> DEFINE q     == o.qualifier
           count == Len(o.samples)
           first == o.samples[1].id
           last  == first + count - 1
           start == <<Kinds[o.kind].group, Kinds[o.kind].var, q>>
           range == EncodeRange(o)
<1>1. /\ q \in Kinds[o.kind].qualifiers /\ q \in {0, 1, 40}
      /\ Kinds[o.kind].group \in Byte /\ Kinds[o.kind].var \in Byte /\ q \in Byte
  <2>1. q \in Kinds[o.kind].qualifiers
    BY DEF KnownObject
  <2>2. q \in {0, 1, 40}
    BY <2>1, KindBytes
  <2>3. \A n \in {0, 1, 40} : n \in Byte
    BY DEF Byte
  <2> QED
    BY <2>1, <2>2, <2>3, KindBytes, Zenon
<1>2. start \in Seq(Byte) /\ Len(start) = 3
  BY <1>1
<1>3. EncodeHeader(o) = start \o range
  BY DEF EncodeHeader
<1>4. count \in Nat /\ TwoBytes(count)
  BY DEF KnownObject, TwoBytes
<1>5. ASSUME q # 40
      PROVE  TwoBytes(first) /\ TwoBytes(last) /\ (q = 0 => first \in Byte /\ last \in Byte)
  <2>1. /\ count > 0 /\ DOMAIN o.samples = 1..count
        /\ q = 0 => last \in Byte
        /\ \A k \in DOMAIN o.samples :
              o.samples[k].id = first + k - 1 /\ TwoBytes(o.samples[k].id)
    BY <1>4, <1>5 DEF KnownObject, InRange, Sample
  <2>2. 1 \in DOMAIN o.samples /\ count \in DOMAIN o.samples
    BY <1>4, <2>1
  <2>3. TwoBytes(first) /\ TwoBytes(last)
    BY <2>1, <2>2, Zenon
  <2> HIDE DEF first
  <2>4. first \in Nat /\ first <= last
    BY <1>4, <2>1, <2>3 DEF TwoBytes
  <2> HIDE DEF last
  <2>5. last \in Byte => first \in Byte
    BY <2>4 DEF Byte
  <2> QED
    BY <2>1, <2>3, <2>5
<1>n. 2 \in Nat /\ 3 \in Nat /\ 4 \in Nat
  OBVIOUS
<1> DEFINE h == start \o range
<1>s. start[1] = Kinds[o.kind].group /\ start[2] = Kinds[o.kind].var /\ start[3] = q
  OBVIOUS
<1>r. /\ q = 0 => range = <<first, last>>
      /\ q = 1 => range = LE(first) \o LE(last)
      /\ q = 40 => range = LE(count)
  BY <1>1 DEF EncodeRange
<1> HIDE DEF start, first, last, range, q, count
<1>h. ASSUME NEW n \in Nat, range \in Seq(Byte), Len(range) = n
      PROVE  /\ h \in Seq(Byte) /\ Len(h) = 3 + n
             /\ h[1] = Kinds[o.kind].group /\ h[2] = Kinds[o.kind].var /\ h[3] = q
             /\ \A j \in 1..n : h[3 + j] = range[j]
  <2>1. h \in Seq(Byte) /\ Joined(h, start, range, 3, n)
    BY <1>2, <1>h, <1>n, ConcatBytes, Zenon
  <2> HIDE DEF h
  <2> QED
    BY <1>s, <2>1 DEF Joined
<1>6. CASE q = 0
  <2>1. range = <<first, last>>
    BY <1>6, <1>r
  <2>2. range \in Seq(Byte) /\ Len(range) = 2 /\ range[1] = first /\ range[2] = last
    BY <1>5, <1>6, <2>1
  <2>3. /\ h \in Seq(Byte) /\ Len(h) = 5
        /\ h[1] = Kinds[o.kind].group /\ h[2] = Kinds[o.kind].var /\ h[3] = q
        /\ h[4] = first /\ h[5] = last
    <3> HIDE DEF h
    <3>1. /\ h \in Seq(Byte) /\ Len(h) = 3 + 2
          /\ h[1] = Kinds[o.kind].group /\ h[2] = Kinds[o.kind].var /\ h[3] = q
          /\ \A j \in 1..2 : h[3 + j] = range[j]
      BY <1>n, <1>h, <2>2, Zenon
    <3> QED
      BY <2>2, <3>1
  <2> QED
    BY <1>1, <1>3, <1>6, <2>3 DEF RangeSize, q, first, last, count
<1>7. CASE q = 1
  <2>1. /\ LE(first) \in Seq(Byte) /\ Len(LE(first)) = 2 /\ LE(first)[1] + 256 * LE(first)[2] = first
        /\ LE(last) \in Seq(Byte) /\ Len(LE(last)) = 2 /\ LE(last)[1] + 256 * LE(last)[2] = last
    BY <1>5, <1>7, LittleEndian
  <2>2. range \in Seq(Byte) /\ Joined(range, LE(first), LE(last), 2, 2)
    BY <1>7, <1>n, <1>r, <2>1, ConcatBytes, Zenon
  <2>3. /\ Len(range) = 4
        /\ range[1] + 256 * range[2] = first /\ range[3] + 256 * range[4] = last
    BY <2>1, <2>2 DEF Joined
  <2>4. /\ h \in Seq(Byte) /\ Len(h) = 7
        /\ h[1] = Kinds[o.kind].group /\ h[2] = Kinds[o.kind].var /\ h[3] = q
        /\ h[4] = range[1] /\ h[5] = range[2] /\ h[6] = range[3] /\ h[7] = range[4]
    <3> HIDE DEF h
    <3>1. /\ h \in Seq(Byte) /\ Len(h) = 3 + 4
          /\ h[1] = Kinds[o.kind].group /\ h[2] = Kinds[o.kind].var /\ h[3] = q
          /\ \A j \in 1..4 : h[3 + j] = range[j]
      BY <1>n, <1>h, <2>2, <2>3, Zenon
    <3> QED
      BY <3>1
  <2> QED
    BY <1>1, <1>3, <1>7, <2>3, <2>4 DEF RangeSize, q, first, last, count
<1>8. CASE q = 40
  <2>1. range \in Seq(Byte) /\ Len(range) = 2 /\ range[1] + 256 * range[2] = count
    BY <1>4, <1>8, <1>r, LittleEndian
  <2>2. /\ h \in Seq(Byte) /\ Len(h) = 5
        /\ h[1] = Kinds[o.kind].group /\ h[2] = Kinds[o.kind].var /\ h[3] = q
        /\ h[4] = range[1] /\ h[5] = range[2]
    <3> HIDE DEF h
    <3>1. /\ h \in Seq(Byte) /\ Len(h) = 3 + 2
          /\ h[1] = Kinds[o.kind].group /\ h[2] = Kinds[o.kind].var /\ h[3] = q
          /\ \A j \in 1..2 : h[3 + j] = range[j]
      BY <1>n, <1>h, <2>1, Zenon
    <3> QED
      BY <3>1
  <2> QED
    BY <1>1, <1>3, <1>8, <2>1, <2>2 DEF RangeSize, q, count
<1> QED
  BY <1>1, <1>6, <1>7, <1>8 DEF q

\* Sequences of one length in a row.
LEMMA EqualLengths ==
    ASSUME NEW T, NEW s \in Seq(Seq(T)), NEW p \in Nat, \A k \in 1..Len(s) : Len(s[k]) = p
    PROVE  \A k \in 0..Len(s) : Len(First(s, k)) = k * p
<1> DEFINE N == Len(s)
           S == {k \in Nat : k <= N => Len(First(s, k)) = k * p}
<1>1. N \in Nat
  OBVIOUS
<1>2. 0 \in S
  <2>1. Len(First(s, 0)) = 0
    BY FirstEnds
  <2>2. 0 * p = 0
    OBVIOUS
  <2> QED
    BY <2>1, <2>2
<1>3. ASSUME NEW k \in Nat, k \in S PROVE k + 1 \in S
  <2> SUFFICES ASSUME k + 1 <= N PROVE Len(First(s, k + 1)) = (k + 1) * p
    OBVIOUS
  <2>1. k + 1 \in 1..N /\ (k + 1) - 1 = k /\ k <= N
    BY <1>1
  <2>2. Len(First(s, k + 1)) = Len(First(s, k)) + Len(s[k + 1])
    <3>1. Len(First(s, k + 1)) = Len(First(s, (k + 1) - 1)) + Len(s[k + 1])
      BY <2>1, FirstStep, Zenon
    <3> QED
      BY <2>1, <3>1
  <2>3. Len(First(s, k)) = k * p /\ Len(s[k + 1]) = p
    BY <1>3, <2>1
  <2>4. (k + 1) * p = k * p + p
    OBVIOUS
  <2> QED
    BY <2>2, <2>3, <2>4, Zenon
<1> HIDE DEF S
<1>4. \A k \in Nat : k \in S
  BY <1>2, <1>3, InductionSet
<1> QED
  BY <1>1, <1>4 DEF S

\* All samples of an object have one length.
LEMMA EncodingsType ==
    ASSUME NEW o, o.kind \in DOMAIN Kinds, KnownObject(o)
    PROVE  /\ Encodings(o) \in Seq(Seq(Byte)) /\ Len(Encodings(o)) = Len(o.samples)
           /\ Len(o.samples) \in Nat /\ PointSize(o.kind) \in Nat
           /\ \A k \in 1..Len(o.samples) :
                /\ Encodings(o)[k] = EncodeSample(o.kind, o.samples[k])
                /\ Len(Encodings(o)[k]) = PointSize(o.kind)
<1> DEFINE N == Len(o.samples)
<1>1. N \in Nat /\ DOMAIN o.samples = 1..N /\ \A k \in 1..N : Sample(o.kind, o.samples[k])
  BY Zenon DEF KnownObject, TwoBytes
<1>2. PointSize(o.kind) \in Nat
  BY KindFacts
<1> HIDE DEF N
<1>3. \A k \in 1..N : /\ EncodeSample(o.kind, o.samples[k]) \in Seq(Byte)
                      /\ Len(EncodeSample(o.kind, o.samples[k])) = PointSize(o.kind)
  BY <1>1, SampleBytes, Zenon
<1> DEFINE e(k) == EncodeSample(o.kind, o.samples[k])
<1>4. Encodings(o) = [k \in 1..N |-> e(k)]
  BY <1>1, Zenon DEF Encodings
<1>5. \A k \in 1..N : e(k) \in Seq(Byte) /\ Len(e(k)) = PointSize(o.kind)
  BY <1>3
<1> HIDE DEF e
<1>6. Encodings(o) \in [1..N -> Seq(Byte)]
  BY <1>4, <1>5, Zenon
<1>7. Encodings(o) \in Seq(Seq(Byte)) /\ Len(Encodings(o)) = N
  BY <1>1, <1>6
<1>8. \A k \in 1..N : Encodings(o)[k] = e(k) /\ Len(Encodings(o)[k]) = PointSize(o.kind)
  BY <1>4, <1>5
<1> QED
  BY <1>1, <1>2, <1>7, <1>8 DEF N, e

\* Where the header and each sample of an object stand.
LEMMA ObjectBytes ==
    ASSUME NEW o, o.kind \in DOMAIN Kinds, KnownObject(o)
    PROVE  LET h    == Len(EncodeHeader(o))
               size == PointSize(o.kind)
           IN  /\ Encode(o) \in Seq(Byte) /\ h \in Nat /\ size \in Nat /\ Len(o.samples) \in Nat
               /\ Len(Encode(o)) = h + Len(o.samples) * size
               /\ \A j \in 1..h : Encode(o)[j] = EncodeHeader(o)[j]
               /\ \A k \in 1..Len(o.samples) : \A j \in 1..size :
                     Encode(o)[h + ((k - 1) * size + j)] = EncodeSample(o.kind, o.samples[k])[j]
<1> DEFINE h    == Len(EncodeHeader(o))
           size == PointSize(o.kind)
           N    == Len(o.samples)
           s    == Encodings(o)
           b    == FlattenSeq(s)
           e    == EncodeHeader(o) \o b
<1>1. EncodeHeader(o) \in Seq(Byte) /\ h \in Nat
  <2>1. EncodeHeader(o) \in Seq(Byte)
    BY HeaderBytes, Zenon
  <2> QED
    BY <2>1, LenProperties
<1>2. /\ s \in Seq(Seq(Byte)) /\ Len(s) = N /\ N \in Nat /\ size \in Nat
      /\ \A k \in 1..N : s[k] = EncodeSample(o.kind, o.samples[k]) /\ Len(s[k]) = size
  BY EncodingsType, Zenon
<1>3. Encode(o) = e
  BY Zenon DEF Encode, Encodings
<1> HIDE DEF h, size, N, s
<1>4. \A k \in 0..N : Len(First(s, k)) = k * size
  BY <1>2, EqualLengths, Zenon
<1>5. b = First(s, N) /\ b \in Seq(Byte)
  <2>1. N \in 0..N
    BY <1>2
  <2> QED
    BY <1>2, <2>1, FirstEnds, Zenon
<1>6. Len(b) = N * size /\ N * size \in Nat
  <2>1. N \in 0..N
    BY <1>2
  <2>2. \A x, y \in Nat : x * y \in Nat
    OBVIOUS
  <2> QED
    BY <1>2, <1>4, <1>5, <2>1, <2>2, Zenon
<1>7. ASSUME NEW k \in 1..N, NEW j \in 1..size
      PROVE  /\ b[(k - 1) * size + j] = EncodeSample(o.kind, o.samples[k])[j]
             /\ (k - 1) * size + j \in 1..N * size
  <2>1. k - 1 \in 0..N /\ k \in 0..N /\ N \in k..N /\ N \in Nat /\ k \in Nat
    BY <1>2
  <2>2. Len(First(s, k - 1)) = (k - 1) * size
    BY <1>4, <2>1
  <2>3. k \in 1..Len(s) /\ N \in k..Len(s)
    BY <1>2, <2>1
  <2>4. /\ Len(First(s, k)) <= Len(First(s, N))
        /\ Len(First(s, k)) = Len(First(s, k - 1)) + Len(s[k])
        /\ \A l \in 1..Len(s[k]) : First(s, N)[Len(First(s, k - 1)) + l] = s[k][l]
    BY <1>2, <2>3, FirstPlaces, Zenon
  <2>5. (k - 1) * size + size <= N * size
    BY <1>2, <1>4, <2>1, <2>2, <2>4
  <2>6. \A x, y, z \in Nat : \A l \in 1..y : x + y <= z => x + l \in 1..z
    OBVIOUS
  <2>7. (k - 1) * size \in Nat
    BY <1>2, <2>1
  <2>8. (k - 1) * size + j \in 1..N * size
    BY <1>2, <1>6, <2>5, <2>6, <2>7, Zenon
  <2>9. First(s, N)[(k - 1) * size + j] = s[k][j]
    BY <1>2, <2>2, <2>4, Zenon
  <2> QED
    BY <1>2, <1>5, <2>8, <2>9, Zenon
<1> HIDE DEF b
<1>8. e \in Seq(Byte) /\ Joined(e, EncodeHeader(o), b, h, N * size)
  BY <1>1, <1>5, <1>6, ConcatBytes, Zenon DEF h
<1> HIDE DEF e
<1>9. /\ Len(e) = h + N * size
      /\ \A j \in 1..h : e[j] = EncodeHeader(o)[j]
      /\ \A j \in 1..N * size : e[h + j] = b[j]
  BY <1>8, Zenon DEF Joined
<1>10. \A k \in 1..N : \A j \in 1..size :
          e[h + ((k - 1) * size + j)] = EncodeSample(o.kind, o.samples[k])[j]
  BY <1>7, <1>9, Zenon
<1> QED
  BY <1>1, <1>2, <1>3, <1>8, <1>9, <1>10, Zenon DEF h, size, N

\* An object that the parser does not know is its bytes.
LEMMA UnknownBytes ==
    ASSUME NEW o, o.kind \notin DOMAIN Kinds, UnknownObject(o)
    PROVE  /\ EncodeHeader(o) = o.bytes /\ Encode(o) = o.bytes
           /\ o.bytes \in Seq(Byte) /\ Len(o.bytes) >= 3 /\ Len(o.bytes) \in Nat
<1>1. o.samples = <<>> /\ o.bytes \in Seq(Byte) /\ Len(o.bytes) >= 3
  BY Zenon DEF UnknownObject
<1>2. EncodeHeader(o) = o.bytes
  BY Zenon DEF EncodeHeader
<1> DEFINE s == [k \in DOMAIN o.samples |-> EncodeSample(o.kind, o.samples[k])]
<1>3. Len(s) = 0
  <2>1. DOMAIN o.samples = 1..0 /\ 0 \in Nat
    BY <1>1
  <2>2. s = [k \in 1..0 |-> s[k]]
    BY <2>1
  <2> HIDE DEF s
  <2> QED
    BY <2>1, <2>2, LengthOf
<1>4. FlattenSeq(s) = <<>>
  BY <1>3 DEF FlattenSeq
<1>5. Encode(o) = EncodeHeader(o) \o <<>>
  BY <1>4, Zenon DEF Encode
<1>6. o.bytes \o <<>> = o.bytes
  BY <1>1
<1> QED
  BY <1>1, <1>2, <1>5, <1>6, LenProperties

\* The encodings of a response are sequences of bytes.
LEMMA EncodedType ==
    ASSUME NEW m, WellFormed(m)
    PROVE  /\ Encoded(m) \in Seq(Seq(Byte)) /\ Len(Encoded(m)) = Len(m.objects)
           /\ Len(m.objects) \in Nat
           /\ \A n \in 1..Len(m.objects) : /\ Encoded(m)[n] = Encode(m.objects[n])
                                           /\ Encode(m.objects[n]) \in Seq(Byte)
<1> DEFINE N == Len(m.objects)
           e(n) == Encode(m.objects[n])
<1>1. /\ N \in Nat /\ DOMAIN m.objects = 1..N
      /\ \A n \in 1..N : IF m.objects[n].kind \in DOMAIN Kinds THEN KnownObject(m.objects[n])
                                                              ELSE UnknownObject(m.objects[n])
  BY Zenon DEF WellFormed
<1> HIDE DEF N
<1>2. ASSUME NEW n \in 1..N PROVE e(n) \in Seq(Byte)
  <2>1. CASE m.objects[n].kind \in DOMAIN Kinds
    BY <1>1, <2>1, ObjectBytes, Zenon
  <2>2. CASE m.objects[n].kind \notin DOMAIN Kinds
    <3>1. UnknownObject(m.objects[n])
      BY <1>1, <2>2, Zenon
    <3>2. Encode(m.objects[n]) = m.objects[n].bytes /\ m.objects[n].bytes \in Seq(Byte)
      BY <2>2, <3>1, UnknownBytes, Zenon
    <3> QED
      BY <3>2, Zenon
  <2> QED
    BY <2>1, <2>2
<1>3. Encoded(m) = [n \in 1..N |-> e(n)]
  BY <1>1, Zenon DEF Encoded
<1> HIDE DEF e
<1>4. Encoded(m) \in [1..N -> Seq(Byte)] /\ \A n \in 1..N : Encoded(m)[n] = e(n)
  BY <1>2, <1>3
<1>5. Encoded(m) \in Seq(Seq(Byte)) /\ Len(Encoded(m)) = N
  BY <1>1, <1>4
<1> QED
  BY <1>1, <1>2, <1>4, <1>5 DEF N, e

\* Where each object of a response stands.
LEMMA FragmentPlaces ==
    ASSUME NEW m, WellFormed(m), Answers(m)
    PROVE  LET N == Len(m.objects)
           IN  /\ N \in Nat /\ Fragment(m) \in Seq(Byte) /\ Len(Fragment(m)) = Start(m, N + 1)
               /\ Fragment(m)[3] = m.func
               /\ Start(m, 1) = 5
               /\ \A n \in 1..N + 1 : Start(m, n) \in Nat
               /\ \A n \in 1..N + 1 : \A l \in n..N + 1 : Start(m, n) <= Start(m, l)
               /\ \A n \in 1..N :
                    /\ Len(Encode(m.objects[n])) \in Nat
                    /\ Start(m, n + 1) = Start(m, n) + Len(Encode(m.objects[n]))
                    /\ \A j \in 1..Len(Encode(m.objects[n])) :
                          Fragment(m)[Start(m, n) + j] = Encode(m.objects[n])[j]
<1> DEFINE N    == Len(m.objects)
           s    == Encoded(m)
           head == <<192, 192, m.func, 0, 0>>
           b    == FlattenSeq(s)
           f    == head \o b
           at(n) == Len(First(s, n))
<1>1. /\ s \in Seq(Seq(Byte)) /\ Len(s) = N /\ N \in Nat
      /\ \A n \in 1..N : s[n] = Encode(m.objects[n]) /\ s[n] \in Seq(Byte)
  BY EncodedType, Zenon
<1>2. head \in Seq(Byte) /\ Len(head) = 5 /\ head[3] = m.func
  <2>1. m.func \in Byte /\ 192 \in Byte /\ 0 \in Byte
    BY DEF Answers, Byte
  <2> QED
    BY <2>1
<1>3. Fragment(m) = f
  BY Zenon DEF Fragment, Encoded
<1> HIDE DEF N, s, head
<1>4. b = First(s, N) /\ First(s, 0) = <<>> /\ \A n \in 0..N : First(s, n) \in Seq(Byte)
  BY <1>1, FirstEnds, Zenon
<1>5. at(0) = 0 /\ \A n \in 0..N : at(n) \in Nat
  BY <1>4
<1>6. N \in 0..N /\ 5 \in Nat
  BY <1>1
<1>7. b \in Seq(Byte) /\ Len(b) = at(N) /\ at(N) \in Nat
  BY <1>4, <1>5, <1>6, Zenon
<1> HIDE DEF b, at
<1>8. f \in Seq(Byte) /\ Joined(f, head, b, 5, at(N))
  BY <1>2, <1>6, <1>7, ConcatBytes, Zenon
<1> HIDE DEF f
<1>9. Len(f) = 5 + at(N) /\ f[3] = m.func /\ \A j \in 1..at(N) : f[5 + j] = b[j]
  BY <1>2, <1>8 DEF Joined
<1>10. \A n \in 1..N : /\ at(n) = at(n - 1) + Len(s[n])
                       /\ \A l \in n..N : at(n) <= at(l)
                       /\ \A j \in 1..Len(s[n]) : b[at(n - 1) + j] = s[n][j]
  <2>1. \A n \in 1..N : N \in n..N
    BY <1>1
  <2>2. \A n \in 1..Len(s) : \A l \in n..Len(s) :
           /\ Len(First(s, n)) = Len(First(s, n - 1)) + Len(s[n])
           /\ Len(First(s, n)) <= Len(First(s, l))
           /\ \A j \in 1..Len(s[n]) : First(s, l)[Len(First(s, n - 1)) + j] = s[n][j]
    BY <1>1, FirstPlaces, Zenon
  <2>3. \A n \in 1..N : \A l \in n..N :
           /\ at(n) = at(n - 1) + Len(s[n]) /\ at(n) <= at(l)
           /\ \A j \in 1..Len(s[n]) : First(s, l)[at(n - 1) + j] = s[n][j]
    BY <1>1, <2>2, Zenon DEF at
  <2> QED
    BY <1>4, <2>1, <2>3, Zenon
<1>11. \A n : Start(m, n) = 5 + at(n - 1)
  BY Zenon DEF Start, at, s
<1>12. \A n \in 1..N : Len(s[n]) \in Nat
  BY <1>1, LenProperties
<1>13. ASSUME NEW n \in 1..N, NEW j \in 1..Len(s[n])
       PROVE  f[Start(m, n) + j] = s[n][j]
  <2>1. n - 1 \in 0..N /\ n \in 0..N /\ n \in 1..N /\ N \in n..N
    BY <1>1
  <2>2. /\ at(n - 1) \in Nat /\ at(n) \in Nat /\ at(N) \in Nat /\ Len(s[n]) \in Nat
        /\ at(n) <= at(N) /\ at(n) = at(n - 1) + Len(s[n])
    BY <1>5, <1>7, <1>10, <1>12, <2>1, Zenon
  <2>3. \A x, y, z, w \in Nat : \A l \in 1..w : z = y + w /\ z <= x => y + l \in 1..x
    OBVIOUS
  <2>4. at(n - 1) + j \in 1..at(N)
    BY <2>2, <2>3, Zenon
  <2>5. f[5 + (at(n - 1) + j)] = s[n][j]
    BY <1>9, <1>10, <2>4, Zenon
  <2>6. Start(m, n) + j = 5 + (at(n - 1) + j)
    <3>1. \A x, w \in Nat : \A l \in 1..w : (5 + x) + l = 5 + (x + l)
      OBVIOUS
    <3>2. (5 + at(n - 1)) + j = 5 + (at(n - 1) + j)
      BY <2>2, <3>1, Zenon
    <3>3. Start(m, n) = 5 + at(n - 1)
      BY <1>11, Zenon
    <3> QED
      BY <3>2, <3>3, Zenon
  <2> QED
    BY <2>5, <2>6, Zenon
<1>14. ASSUME NEW n \in 1..N + 1 PROVE Start(m, n) \in Nat
  <2>1. n - 1 \in 0..N
    BY <1>1
  <2> QED
    BY <1>5, <1>11, <2>1
<1>15. ASSUME NEW n \in 1..N + 1, NEW l \in n..N + 1 PROVE Start(m, n) <= Start(m, l)
  <2>1. /\ n - 1 \in 0..N /\ l - 1 \in 0..N
        /\ n - 1 # 0 => n - 1 \in 1..N /\ l - 1 \in (n - 1)..N
    BY <1>1
  <2>2. at(n - 1) \in Nat /\ at(l - 1) \in Nat
    BY <1>5, <2>1
  <2>3. at(n - 1) <= at(l - 1)
    <3>1. CASE n - 1 = 0
      BY <1>5, <2>2, <3>1
    <3>2. CASE n - 1 # 0
      BY <1>10, <2>1, <3>2, Zenon
    <3> QED
      BY <3>1, <3>2
  <2> QED
    BY <1>11, <2>2, <2>3
<1>16. ASSUME NEW n \in 1..N PROVE Start(m, n + 1) = Start(m, n) + Len(s[n])
  <2>1. at(n) = at(n - 1) + Len(s[n]) /\ Len(s[n]) \in Nat /\ n - 1 \in 0..N /\ n - 1 \in Int
    BY <1>1, <1>10, <1>12
  <2>2. at(n - 1) \in Nat
    BY <1>5, <2>1, Zenon
  <2>3. Start(m, n + 1) = 5 + at(n) /\ Start(m, n) = 5 + at(n - 1)
    <3>1. (n + 1) - 1 = n
      OBVIOUS
    <3> QED
      BY <1>11, <3>1, Zenon
  <2> QED
    BY <2>1, <2>2, <2>3
<1>17. Start(m, 1) = 5 /\ Start(m, N + 1) = 5 + at(N)
  <2>1. (N + 1) - 1 = N /\ 1 - 1 = 0
    BY <1>1
  <2>2. Start(m, 1) = 5 + 0 /\ Start(m, N + 1) = 5 + at(N)
    BY <1>5, <1>11, <2>1, Zenon
  <2> QED
    BY <2>2
<1> QED
  BY <1>1, <1>3, <1>8, <1>9, <1>12, <1>13, <1>14, <1>15, <1>16, <1>17, Zenon DEF N

\* The same for one object and the start of the next.
LEMMA ObjectPlaces ==
    ASSUME NEW m, WellFormed(m), Answers(m), NEW n \in 1..Len(m.objects)
    PROVE  LET e == Encode(m.objects[n])
           IN  /\ Start(m, n) \in Nat /\ Len(e) \in Nat
               /\ Start(m, n + 1) = Start(m, n) + Len(e)
               /\ \A j \in 1..Len(e) : Fragment(m)[Start(m, n) + j] = e[j]
<1> DEFINE N == Len(m.objects)
<1>1. N \in Nat
  BY FragmentPlaces, Zenon
<1> HIDE DEF N
<1>2. \A l \in 1..N : l \in 1..N + 1
  BY <1>1
<1>3. n \in 1..N + 1
  BY <1>2, Zenon DEF N
<1> QED
  BY <1>3, FragmentPlaces, Zenon DEF N

\* Where the header and the samples of an object that the parser knows stand.
KnownAt(m, n) ==
    LET o     == m.objects[n]
        size  == PointSize(o.kind)
        start == Start(m, n)
        body  == Body(m, n)
    IN  /\ KnownObject(o) /\ size \in Nat /\ Len(o.samples) \in Nat
        /\ RangeSize(o.qualifier) \in Nat /\ start \in Nat /\ body \in Nat
        /\ body = start + (3 + RangeSize(o.qualifier))
        /\ Start(m, n + 1) = body + Len(o.samples) * size
        /\ \A j \in 1..3 + RangeSize(o.qualifier) : Fragment(m)[start + j] = EncodeHeader(o)[j]
        /\ \A k \in 1..Len(o.samples) : \A j \in 1..size :
              Fragment(m)[body + ((k - 1) * size + j)] = EncodeSample(o.kind, o.samples[k])[j]

LEMMA KnownPlaces ==
    ASSUME NEW m, WellFormed(m), Answers(m), NEW n \in 1..Len(m.objects),
           m.objects[n].kind \in DOMAIN Kinds
    PROVE  KnownAt(m, n)
<1> DEFINE o     == m.objects[n]
           size  == PointSize(o.kind)
           count == Len(o.samples)
           h     == Len(EncodeHeader(o))
           start == Start(m, n)
<1>1. KnownObject(o)
  <2>1. DOMAIN m.objects = 1..Len(m.objects)
    BY DEF WellFormed
  <2> QED
    BY <2>1, Zenon DEF WellFormed
<1>2. /\ size \in Nat /\ count \in Nat /\ h \in Nat
      /\ Len(Encode(o)) = h + count * size
      /\ \A j \in 1..h : Encode(o)[j] = EncodeHeader(o)[j]
      /\ \A k \in 1..count : \A j \in 1..size :
            Encode(o)[h + ((k - 1) * size + j)] = EncodeSample(o.kind, o.samples[k])[j]
  BY <1>1, ObjectBytes, Zenon
<1>3. h = 3 + RangeSize(o.qualifier) /\ RangeSize(o.qualifier) \in Nat
  <2>1. Len(EncodeHeader(o)) = 3 + RangeSize(o.qualifier)
    BY <1>1, HeaderBytes, Zenon
  <2>2. RangeSize(o.qualifier) \in Nat
    BY DEF RangeSize
  <2> QED
    BY <2>1, <2>2
<1>4. /\ start \in Nat /\ Len(Encode(o)) \in Nat
      /\ Start(m, n + 1) = start + Len(Encode(o))
      /\ \A j \in 1..Len(Encode(o)) : Fragment(m)[start + j] = Encode(o)[j]
  BY ObjectPlaces, Zenon
<1>5. Body(m, n) = start + h
  BY Zenon DEF Body
<1> HIDE DEF size, count, h, start
<1>6. count * size \in Nat
  BY <1>2
<1> DEFINE all == count * size
<1>7. all \in Nat /\ Len(Encode(o)) = h + all
  BY <1>2, <1>6
<1>8. \A k \in 1..count : \A j \in 1..size : (k - 1) * size + j \in 1..all
  <2> SUFFICES ASSUME NEW k \in 1..count, NEW j \in 1..size PROVE (k - 1) * size + j \in 1..all
    OBVIOUS
  <2>1. k - 1 \in Nat /\ count - k \in Nat /\ (k - 1) + 1 + (count - k) = count /\ j \in Nat
    BY <1>2
  <2>2. (k - 1) * size \in Nat /\ (count - k) * size \in Nat
    BY <1>2, <2>1
  <2>3. \A x, y, z \in Nat : (x + 1 + y) * z = x * z + z + y * z
    OBVIOUS
  <2>4. all = (k - 1) * size + size + (count - k) * size
    BY <1>2, <2>1, <2>3
  <2>5. \A x, y, z \in Nat : \A l \in 1..y : x + l \in 1..(x + y + z)
    OBVIOUS
  <2> HIDE DEF all
  <2> QED
    BY <1>2, <2>2, <2>4, <2>5
<1> HIDE DEF all
<1>9. \A j \in 1..h : Fragment(m)[start + j] = EncodeHeader(o)[j]
  <2>1. \A j \in 1..h : j \in 1..Len(Encode(o))
    BY <1>2, <1>7
  <2> QED
    BY <1>2, <1>4, <2>1, Zenon
<1>10. ASSUME NEW k \in 1..count, NEW j \in 1..size
       PROVE  Fragment(m)[Body(m, n) + ((k - 1) * size + j)]
                  = EncodeSample(o.kind, o.samples[k])[j]
  <2> DEFINE x == (k - 1) * size + j
  <2>1. x \in 1..all
    BY <1>8
  <2>2. Encode(o)[h + x] = EncodeSample(o.kind, o.samples[k])[j]
    BY <1>2, Zenon
  <2> HIDE DEF x
  <2>3. h + x \in 1..Len(Encode(o)) /\ start + (h + x) = (start + h) + x
    BY <1>2, <1>4, <1>7, <2>1
  <2>4. Fragment(m)[start + (h + x)] = Encode(o)[h + x]
    BY <1>4, <2>3, Zenon
  <2>5. Fragment(m)[Body(m, n) + x] = EncodeSample(o.kind, o.samples[k])[j]
    BY <1>5, <2>2, <2>3, <2>4, Zenon
  <2> QED
    BY <2>5 DEF x
<1>11. Start(m, n + 1) = Body(m, n) + all /\ Body(m, n) \in Nat
  <2>1. \A x, y, z \in Nat : x + (y + z) = (x + y) + z /\ x + y \in Nat
    OBVIOUS
  <2>2. start \in Nat /\ h \in Nat /\ all \in Nat
    BY <1>2, <1>4, <1>7
  <2>3. start + (h + all) = (start + h) + all /\ start + h \in Nat
    BY <2>1, <2>2, Zenon
  <2> QED
    BY <1>4, <1>5, <1>7, <2>3, Zenon
<1> QED
  BY <1>1, <1>2, <1>3, <1>4, <1>5, <1>9, <1>10, <1>11, Zenon DEF KnownAt, size, count, all, start

\* Where an object that the parser does not know stands.
LEMMA UnknownPlaces ==
    ASSUME NEW m, WellFormed(m), Answers(m), NEW n \in 1..Len(m.objects),
           m.objects[n].kind \notin DOMAIN Kinds
    PROVE  LET o == m.objects[n]
           IN  /\ UnknownObject(o) /\ Start(m, n) \in Nat
               /\ Len(EncodeHeader(o)) \in Nat /\ Len(EncodeHeader(o)) >= 3
               /\ Start(m, n + 1) = Start(m, n) + Len(EncodeHeader(o))
               /\ \A j \in 1..3 : Fragment(m)[Start(m, n) + j] = o.bytes[j]
<1> DEFINE o     == m.objects[n]
           start == Start(m, n)
<1>1. UnknownObject(o)
  <2>1. DOMAIN m.objects = 1..Len(m.objects)
    BY DEF WellFormed
  <2> QED
    BY <2>1, Zenon DEF WellFormed
<1>2. /\ EncodeHeader(o) = o.bytes /\ Encode(o) = o.bytes
      /\ Len(o.bytes) >= 3 /\ Len(o.bytes) \in Nat
  BY <1>1, UnknownBytes, Zenon
<1>4. /\ start \in Nat /\ Len(Encode(o)) \in Nat
      /\ Start(m, n + 1) = start + Len(Encode(o))
      /\ \A j \in 1..Len(Encode(o)) : Fragment(m)[start + j] = Encode(o)[j]
  BY ObjectPlaces, Zenon
<1>5. \A j \in 1..3 : j \in 1..Len(Encode(o))
  BY <1>2
<1> QED
  BY <1>1, <1>2, <1>4, <1>5, Zenon

-----------------------------------------------------------------------------
(* What the parser reads where it stands.                                  *)

\* Before the cut app[k] is the byte that was sent.
LEMMA AtArrived ==
    ASSUME app \in Seq(Byte), Arrived, message.cut \in Nat, NEW k \in Nat, k + 1 <= message.cut
    PROVE  At(k) = Fragment(message)[k + 1]
<1>1. Len(app) \in Nat /\ Len(app) >= message.cut
  BY DEF Arrived
<1>2. k + 1 \in 1..message.cut /\ k < Len(app)
  BY <1>1
<1>3. app[k + 1] = Fragment(message)[k + 1]
  BY <1>2, Zenon DEF Arrived
<1> QED
  BY <1>2, <1>3, Zenon DEF At

\* The l bytes after x bytes are those of b.
Reads(x, l, b) == (l > 0 => At(x) = b[1]) /\ \A j \in 1..l - 1 : At(x + j) = b[j + 1]

\* Bytes that arrived whole are read as they were sent.
LEMMA ReadsWhole ==
    ASSUME app \in Seq(Byte), Arrived, message.cut \in Nat,
           NEW x \in Nat, NEW l \in Nat, x + l <= message.cut, NEW b,
           \A j \in 1..l : Fragment(message)[x + j] = b[j]
    PROVE  Reads(x, l, b)
<1>1. l > 0 => At(x) = b[1]
  <2> SUFFICES ASSUME l > 0 PROVE At(x) = b[1]
    OBVIOUS
  <2>1. x + 1 <= message.cut /\ 1 \in 1..l
    OBVIOUS
  <2> QED
    BY <2>1, AtArrived, Zenon
<1>2. ASSUME NEW j \in 1..l - 1 PROVE At(x + j) = b[j + 1]
  <2>1. x + j \in Nat /\ (x + j) + 1 <= message.cut /\ (x + j) + 1 = x + (j + 1) /\ j + 1 \in 1..l
    OBVIOUS
  <2>2. At(x + j) = Fragment(message)[(x + j) + 1]
    BY <2>1, AtArrived, Zenon
  <2> QED
    BY <2>1, <2>2, Zenon
<1> QED
  BY <1>1, <1>2 DEF Reads

\* The header of an object that the parser knows is read as it was written.
LEMMA HeaderRead ==
    ASSUME app \in Seq(Byte), Arrived, WellFormed(message), Answers(message), message.cut \in Nat,
           NEW n \in 1..Len(message.objects), message.objects[n].kind \in DOMAIN Kinds,
           i = Start(message, n), Body(message, n) <= message.cut
    PROVE  LET o     == message.objects[n]
               first == o.samples[1].id
               count == Len(o.samples)
           IN  /\ i + 3 + RangeSize(o.qualifier) = Body(message, n) /\ RangeSize(o.qualifier) \in Nat
               /\ Matches(o.kind) /\ \A kind \in DOMAIN Kinds : Matches(kind) => kind = o.kind
               /\ At(i + 2) = o.qualifier /\ o.qualifier \in Kinds[o.kind].qualifiers
               /\ o.qualifier = 0 => At(i + 3) = first /\ At(i + 4) = first + count - 1
               /\ o.qualifier = 1 => Word(i + 3) = first /\ Word(i + 5) = first + count - 1
               /\ o.qualifier = 40 => Word(i + 3) = count
<1> DEFINE o == message.objects[n]
           q == o.qualifier
           h == EncodeHeader(o)
           first == o.samples[1].id
           count == Len(o.samples)
           last  == first + count - 1
           b == Body(message, n)
<1>0. /\ KnownObject(o) /\ RangeSize(q) \in Nat /\ Start(message, n) \in Nat
      /\ b = Start(message, n) + (3 + RangeSize(q))
      /\ \A j \in 1..3 + RangeSize(q) : Fragment(message)[Start(message, n) + j] = h[j]
  <2>1. KnownAt(message, n)
    BY KnownPlaces, Zenon
  <2> QED
    BY <2>1, Zenon DEF KnownAt
<1>1. /\ KnownObject(o) /\ RangeSize(q) \in Nat /\ i \in Nat /\ b = i + (3 + RangeSize(q))
      /\ \A j \in 1..3 + RangeSize(q) : Fragment(message)[i + j] = h[j]
  BY <1>0, Zenon
<1>2. /\ h[1] = Kinds[o.kind].group /\ h[2] = Kinds[o.kind].var
      /\ h[3] = q /\ q \in Kinds[o.kind].qualifiers
      /\ q = 0 => h[4] = first /\ h[5] = last
      /\ q = 1 => h[4] + 256 * h[5] = first /\ h[6] + 256 * h[7] = last
      /\ q = 40 => h[4] + 256 * h[5] = count
  BY <1>1, HeaderBytes, Zenon
<1>3. /\ q = 0 => RangeSize(q) = 2
      /\ q = 1 => RangeSize(q) = 4
      /\ q = 40 => RangeSize(q) = 2
  BY DEF RangeSize
<1>4. q \in {0, 1, 40}
  BY <1>2, KindBytes
<1>c. b <= message.cut
  OBVIOUS
<1> HIDE DEF q, h, first, last, count, b
<1>5. 3 + RangeSize(q) \in Nat /\ i + (3 + RangeSize(q)) <= message.cut
  <2>1. 3 + RangeSize(q) \in Nat
    BY <1>1
  <2>2. i + (3 + RangeSize(q)) <= message.cut
    BY <1>1, <1>c, Zenon
  <2> QED
    BY <2>1, <2>2
<1>6. /\ 3 + RangeSize(q) > 0 => At(i) = h[1]
      /\ \A j \in 1..(3 + RangeSize(q)) - 1 : At(i + j) = h[j + 1]
  <2>1. Reads(i, 3 + RangeSize(q), h)
    BY <1>1, <1>5, ReadsWhole, Zenon
  <2> QED
    BY <2>1, Zenon DEF Reads
<1>7. At(i) = h[1] /\ At(i + 1) = h[2] /\ At(i + 2) = h[3] /\ At(i + 3) = h[4] /\ At(i + 4) = h[5]
  BY <1>3, <1>4, <1>6
<1>8. q = 1 => At(i + 5) = h[6] /\ At(i + 6) = h[7]
  BY <1>3, <1>6
<1>9. Word(i + 3) = h[4] + 256 * h[5] /\ (q = 1 => Word(i + 5) = h[6] + 256 * h[7])
  <2>1. (i + 3) + 1 = i + 4 /\ (i + 5) + 1 = i + 6
    BY <1>1
  <2> QED
    BY <1>7, <1>8, <2>1, Zenon DEF Word
<1>10. Matches(o.kind)
  BY <1>2, <1>7, Zenon DEF Matches
<1>11. ASSUME NEW kind \in DOMAIN Kinds, Matches(kind) PROVE kind = o.kind
  <2>1. Kinds[kind].group = Kinds[o.kind].group /\ Kinds[kind].var = Kinds[o.kind].var
    BY <1>10, <1>11, Zenon DEF Matches
  <2> QED
    BY <2>1 DEF Kinds
<1>12. i + 3 + RangeSize(q) = b
  BY <1>1
<1> QED
  BY <1>1, <1>2, <1>7, <1>8, <1>9, <1>10, <1>11, <1>12, Zenon DEF q, first, last, count, b

\* The r bytes after At(x): what NextPoint takes for a value.
Rest(x, r) == [j \in 1..r |-> At(x + j)]

\* They are t if each of them is.
LEMMA RestRead ==
    ASSUME NEW x, NEW r \in Nat, NEW t \in Seq(Byte), Len(t) = r,
           \A j \in 1..r : At(x + j) = t[j]
    PROVE  Rest(x, r) = t
BY DEF Rest

\* A sample is read as it was written.
LEMMA SampleRead ==
    ASSUME app \in Seq(Byte), Arrived, WellFormed(message), Answers(message), message.cut \in Nat,
           NEW n \in 1..Len(message.objects), message.objects[n].kind \in DOMAIN Kinds,
           NEW k \in Nat, k + 1 <= Len(message.objects[n].samples),
           i = Body(message, n) + k * PointSize(message.objects[n].kind),
           i + PointSize(message.objects[n].kind) <= message.cut,
           message.objects[n].kind # "event" => object.next = message.objects[n].samples[1].id + k
    PROVE  LET s     == message.objects[n].samples[k + 1]
               kind  == message.objects[n].kind
               event == kind = "event"
               flag  == IF event THEN i + 2 ELSE i
           IN  /\ (IF event THEN Word(i) ELSE object.next) = s.id
               /\ At(flag) = s.flag
               /\ [j \in 1..Kinds[kind].rest |-> At(flag + j)] = s.rest
<1> DEFINE o    == message.objects[n]
           s    == o.samples[k + 1]
           kind == o.kind
           size == PointSize(kind)
           e    == EncodeSample(kind, s)
           r    == Kinds[kind].rest
           N    == Len(o.samples)
<1>1. /\ KnownObject(o) /\ size \in Nat /\ N \in Nat /\ Body(message, n) \in Nat
      /\ \A l \in 1..N : \A j \in 1..size :
            Fragment(message)[Body(message, n) + ((l - 1) * size + j)]
                = EncodeSample(kind, o.samples[l])[j]
  <2>1. KnownAt(message, n)
    BY KnownPlaces, Zenon
  <2> QED
    BY <2>1, Zenon DEF KnownAt
<1>2. k + 1 \in 1..N /\ (k + 1) - 1 = k /\ k * size \in Nat
  <2>1. k * size \in Nat
    BY <1>1
  <2> HIDE DEF N
  <2>2. k + 1 <= N
    BY DEF N
  <2> QED
    <3>1. N \in Nat
      BY <1>1
    <3> QED
      BY <2>1, <2>2, <3>1
<1>3. DOMAIN o.samples = 1..N /\ Sample(kind, s) /\ (kind # "event" => s.id = o.samples[1].id + k)
  <2>1. DOMAIN o.samples = 1..N
    BY <1>1, Zenon DEF KnownObject
  <2>2. Sample(kind, s)
    BY <1>1, <1>2, <2>1, Zenon DEF KnownObject
  <2>3. ASSUME kind # "event" PROVE s.id = o.samples[1].id + (k + 1) - 1
    <3>1. o.qualifier # 40
      <4>1. o.qualifier \in {0, 1}
        BY <1>1, <2>3, KindBytes DEF KnownObject
      <4> QED
        BY <4>1
    <3> QED
      BY <1>1, <1>2, <2>1, <3>1, Zenon DEF KnownObject, InRange
  <2>4. ASSUME kind # "event" PROVE s.id = o.samples[1].id + k
    <3> DEFINE x == o.samples[1].id
    <3>1. TwoBytes(x)
      <4>1. 1 \in 1..N
        <5>1. N \in Nat /\ k + 1 <= N
          BY <1>1
        <5> HIDE DEF N
        <5> QED
          BY <5>1
      <4> QED
        BY <1>1, <2>1, <4>1, Zenon DEF KnownObject, Sample
    <3>2. x \in Nat
      BY <3>1 DEF TwoBytes
    <3> HIDE DEF x
    <3>3. x + (k + 1) - 1 = x + k
      BY <3>2
    <3> QED
      BY <2>3, <2>4, <3>3, Zenon DEF x
  <2> QED
    BY <2>1, <2>2, <2>4
<1>4. /\ kind = "event" => /\ e[1] + 256 * e[2] = s.id /\ e[3] = s.flag
                           /\ \A j \in 1..r : e[3 + j] = s.rest[j]
      /\ kind # "event" => /\ e[1] = s.flag
                           /\ \A j \in 1..r : e[1 + j] = s.rest[j]
      /\ r \in Nat /\ size = 1 + r + (IF kind = "event" THEN 2 ELSE 0)
      /\ s.rest \in Seq(Byte) /\ Len(s.rest) = r
  <2>1. r \in Nat
    BY KindFacts
  <2>2. size = 1 + r + (IF kind = "event" THEN 2 ELSE 0)
    BY DEF PointSize
  <2>3. s.rest \in Seq(Byte) /\ Len(s.rest) = r
    BY <1>3, Zenon DEF Sample
  <2> QED
    BY <1>3, <2>1, <2>2, <2>3, SampleBytes, Zenon
<1> HIDE DEF N, size, r
<1>5. i \in Nat /\ \A j \in 1..size : Fragment(message)[i + j] = e[j]
  <2> DEFINE b == Body(message, n)
             x == k * size
  <2>1. b \in Nat /\ x \in Nat /\ i = b + x
    BY <1>1, <1>2 DEF size
  <2>2. \A j \in 1..size : Fragment(message)[b + (x + j)] = e[j]
    BY <1>1, <1>2, Zenon
  <2> HIDE DEF b, x
  <2>3. \A j \in 1..size : b + (x + j) = i + j
    BY <1>1, <2>1
  <2> QED
    BY <2>1, <2>2, <2>3
<1> HIDE DEF e
<1>6. /\ size > 0 => At(i) = e[1]
      /\ \A j \in 1..size - 1 : At(i + j) = e[j + 1]
  <2>1. i + size <= message.cut
    BY DEF size
  <2>2. size \in Nat
    BY <1>1
  <2>3. Reads(i, size, e)
    BY <1>5, <2>1, <2>2, ReadsWhole, Zenon
  <2> QED
    BY <2>3, Zenon DEF Reads
<1>7. CASE kind = "event"
  <2>1. size = 3 + r
    BY <1>4, <1>7
  <2>2. At(i) = e[1] /\ At(i + 1) = e[2] /\ At(i + 2) = e[3]
    BY <1>4, <1>6, <2>1
  <2>3. Word(i) = s.id /\ At(i + 2) = s.flag
    BY <1>4, <1>7, <2>2, Zenon DEF Word
  <2>4. ASSUME NEW j \in 1..r PROVE At((i + 2) + j) = s.rest[j]
    <3>1. (i + 2) + j = i + (j + 2) /\ j + 2 \in 1..size - 1 /\ (j + 2) + 1 = 3 + j
      BY <1>4, <1>5, <2>1
    <3> QED
      BY <1>4, <1>6, <1>7, <3>1, Zenon
  <2>5. Rest(i + 2, r) = s.rest
    BY <1>4, <2>4, RestRead, Zenon
  <2> QED
    BY <1>7, <2>3, <2>5, Zenon DEF r, Rest
<1>8. CASE kind # "event"
  <2>1. size = 1 + r
    BY <1>4, <1>8
  <2>2. At(i) = s.flag
    BY <1>4, <1>6, <1>8, <2>1
  <2>3. ASSUME NEW j \in 1..r PROVE At(i + j) = s.rest[j]
    <3>1. j \in 1..size - 1 /\ j + 1 = 1 + j
      BY <1>4, <2>1
    <3> QED
      BY <1>4, <1>6, <1>8, <3>1, Zenon
  <2>4. Rest(i, r) = s.rest
    BY <1>4, <2>3, RestRead, Zenon
  <2> QED
    BY <1>3, <1>8, <2>2, <2>4, Zenon DEF r, Rest
<1> QED
  BY <1>7, <1>8

-----------------------------------------------------------------------------
(* What arrived whole.                                                     *)

\* How many samples of the n-th object arrived whole, and the objects that count.
Count(m, n) ==
    Cardinality({k \in DOMAIN m.objects[n].samples :
                    Body(m, n) + k * PointSize(m.objects[n].kind) <= m.cut})
KnownObjects(m) == {n \in DOMAIN m.objects : Known(m, n)}
Whollies(m) == [n \in 1..Cardinality(KnownObjects(m)) |-> ReadingsOf(m.objects[n], Count(m, n))]

\* WhollyReceived, in the words of this module.
LEMMA WhollyReceivedIs ==
    ASSUME NEW m
    PROVE  WhollyReceived(m) = FlattenSeq(Whollies(m))
BY Zenon DEF WhollyReceived, Whollies, KnownObjects, Known, Count, ReadingsOf, Body, Start, Encoded, First

\* The objects that count are those before the first one that the parser does not know.
LEMMA KnownUpTo ==
    ASSUME NEW m, WellFormed(m)
    PROVE  LET N == Len(m.objects)
               C == Cardinality(KnownObjects(m))
           IN  /\ N \in Nat /\ C \in 0..N /\ KnownObjects(m) = 1..C
               /\ \A n \in 1..C : m.objects[n].kind \in DOMAIN Kinds
               /\ \A n \in 0..N : Known(m, n) =>
                     n <= C /\ (n < N => (m.objects[n + 1].kind \notin DOMAIN Kinds => n = C))
<1> DEFINE N == Len(m.objects)
           K == KnownObjects(m)
<1>1. N \in Nat /\ K = {n \in 1..N : Known(m, n)}
  BY Zenon DEF WellFormed, KnownObjects
<1> HIDE DEF N, K
<1>2. \A n \in 1..N : \A l \in 1..n : Known(m, n) => Known(m, l)
  BY <1>1 DEF Known
<1>3. \E C \in 0..N : K = 1..C
  <2>1. CASE K = {}
    <3>1. K = 1..0 /\ 0 \in 0..N
      BY <1>1, <2>1
    <3> QED
      BY <3>1, Zenon
  <2>2. CASE K # {}
    <3> DEFINE C == Max(K)
    <3>1. C \in K /\ \A l \in K : C >= l
      <4>1. K \in SUBSET (1..N)
        BY <1>1
      <4> QED
        BY <1>1, <2>2, <4>1, LastPlace
    <3> HIDE DEF C
    <3>2. C \in 0..N /\ K = 1..C
      BY <1>1, <1>2, <3>1
    <3> QED
      BY <3>2, Zenon
  <2> QED
    BY <2>1, <2>2
<1>4. PICK C \in 0..N : K = 1..C
  BY <1>3
<1>5. Cardinality(K) = C
  <2>1. C \in Nat
    BY <1>1
  <2> QED
    BY <1>4, <2>1, FS_Interval
<1>6. \A n \in 1..C : m.objects[n].kind \in DOMAIN Kinds
  BY <1>1, <1>4 DEF Known
<1>7. ASSUME NEW n \in 0..N, Known(m, n) PROVE n <= C
  BY <1>1, <1>4, <1>7
<1>8. ASSUME NEW n \in 0..N, Known(m, n), n < N, m.objects[n + 1].kind \notin DOMAIN Kinds
      PROVE  n = C
  <2>1. n <= C
    BY <1>7, <1>8
  <2>2. ~(n + 1 <= C)
    BY <1>1, <1>6, <1>8
  <2> QED
    BY <1>1, <2>1, <2>2
<1> QED
  BY <1>1, <1>4, <1>5, <1>6, <1>7, <1>8, Zenon DEF N, K

\* Multiplication is monotone.
LEMMA TimesGrows ==
    ASSUME NEW x \in Nat, NEW y \in Nat, NEW z \in Nat, x <= y
    PROVE  x * z \in Nat /\ y * z \in Nat /\ x * z <= y * z
<1>1. PICK d \in Nat : y = x + d
  <2>1. y - x \in Nat /\ y = x + (y - x)
    OBVIOUS
  <2> QED
    BY <2>1
<1>2. x * z \in Nat /\ d * z \in Nat /\ y * z = x * z + d * z
  BY <1>1
<1> QED
  BY <1>2

\* The samples that arrived are the first c.
LEMMA CountIs ==
    ASSUME NEW m, WellFormed(m), Answers(m), m.cut \in Nat, NEW n \in 1..Len(m.objects),
           m.objects[n].kind \in DOMAIN Kinds,
           NEW c \in 0..Len(m.objects[n].samples),
           c > 0 => Body(m, n) + c * PointSize(m.objects[n].kind) <= m.cut,
           c < Len(m.objects[n].samples) =>
               Body(m, n) + (c + 1) * PointSize(m.objects[n].kind) > m.cut
    PROVE  Count(m, n) = c
<1> DEFINE o    == m.objects[n]
           body == Body(m, n)
           size == PointSize(o.kind)
           L    == Len(o.samples)
           S    == {k \in 1..L : body + k * size <= m.cut}
<1>1. size \in Nat /\ L \in Nat /\ body \in Nat /\ DOMAIN o.samples = 1..L
  <2>1. KnownAt(m, n)
    BY KnownPlaces, Zenon
  <2> QED
    BY <2>1, Zenon DEF KnownAt, KnownObject
<1>2. Count(m, n) = Cardinality(S)
  BY <1>1, Zenon DEF Count
<1>3. c \in 0..L /\ (c > 0 => body + c * size <= m.cut) /\ (c < L => body + (c + 1) * size > m.cut)
  OBVIOUS
<1> HIDE DEF body, size, L
<1>4. c \in Nat /\ c <= L
  BY <1>1, <1>3
<1>6. \A x, y \in Nat : x <= y => x * size \in Nat /\ y * size \in Nat /\ x * size <= y * size
  BY <1>1, TimesGrows, Zenon
<1>7. ASSUME NEW k \in 1..L PROVE body + k * size <= m.cut <=> k <= c
  <2>1. k \in Nat /\ c + 1 \in Nat
    BY <1>1, <1>4
  <2>2. CASE k <= c
    <3>1. c > 0
      BY <1>4, <2>2
    <3>2. k * size \in Nat /\ c * size \in Nat /\ k * size <= c * size
      BY <1>4, <1>6, <2>1, <2>2, Zenon
    <3>3. body + c * size <= m.cut
      BY <1>3, <3>1, Zenon
    <3>4. \A x, y, z \in Nat : \A w \in Nat : x <= y /\ z + y <= w => z + x <= w
      OBVIOUS
    <3> QED
      BY <1>1, <2>2, <3>2, <3>3, <3>4, Zenon
  <2>3. CASE ~(k <= c)
    <3>1. c + 1 <= k /\ c < L
      BY <1>1, <1>4, <2>1, <2>3
    <3>2. k * size \in Nat /\ (c + 1) * size \in Nat /\ (c + 1) * size <= k * size
      BY <1>6, <2>1, <3>1, Zenon
    <3>3. body + (c + 1) * size > m.cut
      BY <1>3, <3>1, Zenon
    <3>4. \A x, y, z \in Nat : \A w \in Nat : x <= y /\ z + x > w => ~(z + y <= w)
      OBVIOUS
    <3> QED
      BY <1>1, <2>3, <3>2, <3>3, <3>4, Zenon
  <2> QED
    BY <2>2, <2>3
<1>8. S = {k \in 1..L : k <= c}
  BY <1>7, Zenon
<1>9. S = 1..c
  <2> HIDE DEF S
  <2> QED
    BY <1>1, <1>4, <1>8
<1> QED
  <2>1. Cardinality(1..c) = c
    BY <1>4, FS_Interval
  <2> QED
    BY <1>2, <1>9, <2>1, Zenon

\* The readings of an object that is well formed.
LEMMA ReadingsType ==
    ASSUME NEW m, WellFormed(m), NEW n \in 1..Len(m.objects),
           NEW c \in 0..Len(m.objects[n].samples)
    PROVE  /\ ReadingsOf(m.objects[n], c) \in Seq(ReadingType)
           /\ Len(ReadingsOf(m.objects[n], c)) = c /\ c \in Nat
<1> DEFINE o == m.objects[n]
           R(k) == Reading(o.kind, o.samples[k].id, o.samples[k].flag, o.samples[k].rest)
<1>1. IF o.kind \in DOMAIN Kinds THEN KnownObject(o) ELSE UnknownObject(o)
  <2>1. DOMAIN m.objects = 1..Len(m.objects)
    BY Zenon DEF WellFormed
  <2> QED
    BY <2>1, Zenon DEF WellFormed
<1>2. Len(o.samples) \in Nat
  <2>1. CASE o.kind \in DOMAIN Kinds
    BY <1>1, <2>1, Zenon DEF KnownObject, TwoBytes
  <2>2. CASE o.kind \notin DOMAIN Kinds
    <3>1. o.samples = <<>>
      BY <1>1, <2>2, Zenon DEF UnknownObject
    <3> QED
      BY <3>1
  <2> QED
    BY <2>1, <2>2
<1>3. c \in Nat /\ \A k \in 1..c : k \in 1..Len(o.samples)
  BY <1>2
<1>4. ASSUME NEW k \in 1..c PROVE R(k) \in ReadingType
  <2>1. k \in 1..Len(o.samples)
    BY <1>3, Zenon
  <2>2. o.kind \in DOMAIN Kinds
    <3> SUFFICES ASSUME o.kind \notin DOMAIN Kinds PROVE FALSE
      OBVIOUS
    <3>1. o.samples = <<>>
      BY <1>1, Zenon DEF UnknownObject
    <3>2. Len(o.samples) = 0
      BY <3>1
    <3> QED
      BY <2>1, <3>2
  <2>3. Sample(o.kind, o.samples[k])
    BY <1>1, <2>1, <2>2, Zenon DEF KnownObject
  <2>4. o.samples[k].id \in Nat /\ o.samples[k].flag \in Byte /\ o.samples[k].rest \in Seq(Byte)
    BY <2>3, Zenon DEF Sample, TwoBytes
  <2> QED
    BY <2>2, <2>4, ReadingTyped, Zenon
<1>5. ReadingsOf(o, c) = [k \in 1..c |-> R(k)]
  BY Zenon DEF ReadingsOf
<1> HIDE DEF R
<1>6. ReadingsOf(o, c) \in [1..c -> ReadingType]
  BY <1>4, <1>5, Zenon
<1> QED
  BY <1>3, <1>6

LEMMA ReadAllType ==
    ASSUME NEW m, WellFormed(m)
    PROVE  /\ ReadAll(m) \in Seq(Seq(ReadingType)) /\ Len(ReadAll(m)) = Len(m.objects)
           /\ Len(m.objects) \in Nat
           /\ \A n \in 1..Len(m.objects) :
                 ReadAll(m)[n] = ReadingsOf(m.objects[n], Len(m.objects[n].samples))
<1> DEFINE N == Len(m.objects)
           R(n) == ReadingsOf(m.objects[n], Len(m.objects[n].samples))
<1>1. N \in Nat /\ DOMAIN m.objects = 1..N
  BY Zenon DEF WellFormed
<1>2. ASSUME NEW n \in 1..N PROVE R(n) \in Seq(ReadingType)
  <2> DEFINE L == Len(m.objects[n].samples)
  <2>1. L \in Nat
    <3>1. IF m.objects[n].kind \in DOMAIN Kinds THEN KnownObject(m.objects[n])
                                               ELSE UnknownObject(m.objects[n])
      BY <1>1, Zenon DEF WellFormed
    <3>2. CASE m.objects[n].kind \in DOMAIN Kinds
      BY <3>1, <3>2, Zenon DEF KnownObject, TwoBytes
    <3>3. CASE m.objects[n].kind \notin DOMAIN Kinds
      <4>1. m.objects[n].samples = <<>>
        BY <3>1, <3>3, Zenon DEF UnknownObject
      <4> QED
        BY <4>1
    <3> QED
      BY <3>2, <3>3
  <2> HIDE DEF L
  <2>2. L \in 0..L
    BY <2>1
  <2> QED
    BY <2>2, ReadingsType, Zenon DEF L
<1>3. ReadAll(m) = [n \in 1..N |-> R(n)]
  BY <1>1, Zenon DEF ReadAll
<1> HIDE DEF R, N
<1>4. ReadAll(m) \in [1..N -> Seq(ReadingType)] /\ \A n \in 1..N : ReadAll(m)[n] = R(n)
  BY <1>2, <1>3
<1>5. ReadAll(m) \in Seq(Seq(ReadingType)) /\ Len(ReadAll(m)) = N
  BY <1>1, <1>4
<1> QED
  BY <1>1, <1>4, <1>5 DEF N, R

\* No more samples arrive than there are.
LEMMA CountType ==
    ASSUME NEW m, WellFormed(m), Answers(m), NEW n \in 1..Len(m.objects),
           m.objects[n].kind \in DOMAIN Kinds
    PROVE  Len(m.objects[n].samples) \in Nat /\ Count(m, n) \in 0..Len(m.objects[n].samples)
<1> DEFINE o == m.objects[n]
           L == Len(o.samples)
           S == {k \in 1..L : Body(m, n) + k * PointSize(o.kind) <= m.cut}
<1>1. L \in Nat /\ DOMAIN o.samples = 1..L
  <2>1. KnownAt(m, n)
    BY KnownPlaces, Zenon
  <2> QED
    BY <2>1, Zenon DEF KnownAt, KnownObject
<1>2. Count(m, n) = Cardinality(S)
  BY <1>1, Zenon DEF Count
<1>3. S \subseteq 1..L
  OBVIOUS
<1> HIDE DEF S, L
<1>4. IsFiniteSet(1..L) /\ Cardinality(1..L) = L
  BY <1>1, FS_Interval
<1>5. Cardinality(S) \in Nat /\ Cardinality(S) <= L
  BY <1>3, <1>4, FS_Subset, FS_CardinalityType
<1>6. Cardinality(S) \in 0..L
  BY <1>1, <1>5
<1> QED
  BY <1>1, <1>2, <1>6, Zenon DEF L

\* All of an object, and none of it.
LEMMA CountEnds ==
    ASSUME NEW m, WellFormed(m), Answers(m), m.cut \in Nat, NEW n \in 1..Len(m.objects),
           m.objects[n].kind \in DOMAIN Kinds
    PROVE  /\ Start(m, n + 1) <= m.cut => Count(m, n) = Len(m.objects[n].samples)
           /\ Body(m, n) > m.cut => Count(m, n) = 0
<1> DEFINE o    == m.objects[n]
           body == Body(m, n)
           size == PointSize(o.kind)
           L    == Len(o.samples)
<1>1. size \in Nat /\ L \in Nat /\ body \in Nat /\ Start(m, n + 1) = body + L * size
  <2>1. KnownAt(m, n)
    BY KnownPlaces, Zenon
  <2> QED
    BY <2>1, Zenon DEF KnownAt
<1> DEFINE Ends(c) == /\ c > 0 => body + c * size <= m.cut
                      /\ c < L => body + (c + 1) * size > m.cut
<1>2. \A c \in 0..L : Ends(c) => Count(m, n) = c
  BY CountIs, Zenon
<1> HIDE DEF body, size, L
<1>3. 0 \in 0..L /\ L \in 0..L /\ ~(L < L) /\ ~(0 > 0) /\ (0 + 1) * size \in Nat
  <2>1. (0 + 1) * size = size
    BY <1>1
  <2> QED
    BY <1>1, <2>1
<1>4. ASSUME Start(m, n + 1) <= m.cut PROVE Count(m, n) = L
  <2>1. body + L * size <= m.cut
    BY <1>1, <1>4, Zenon
  <2> QED
    BY <1>2, <1>3, <2>1, Zenon
<1>5. ASSUME body > m.cut PROVE Count(m, n) = 0
  <2>1. \A x, y, z \in Nat : x > z => x + y > z
    OBVIOUS
  <2>2. body + (0 + 1) * size > m.cut
    BY <1>1, <1>3, <1>5, <2>1, Zenon
  <2> QED
    BY <1>2, <1>3, <2>2, Zenon
<1> QED
  BY <1>4, <1>5, Zenon DEF body, L

\* What arrived, object by object: all of one before the cut, nothing of one after it.
LEMMA WholliesAre ==
    ASSUME NEW m, WellFormed(m), Answers(m), m.cut \in Nat
    PROVE  LET W == Whollies(m)
               C == Cardinality(KnownObjects(m))
           IN  /\ W \in Seq(Seq(ReadingType)) /\ Len(W) = C /\ C \in 0..Len(m.objects) /\ C \in Nat
               /\ \A n \in 1..C :
                    /\ n \in 1..Len(m.objects) /\ m.objects[n].kind \in DOMAIN Kinds
                    /\ W[n] = ReadingsOf(m.objects[n], Count(m, n))
                    /\ Start(m, n + 1) <= m.cut => W[n] = ReadAll(m)[n]
                    /\ Body(m, n) > m.cut => W[n] = <<>>
<1> DEFINE N == Len(m.objects)
           C == Cardinality(KnownObjects(m))
           W == Whollies(m)
           R(n) == ReadingsOf(m.objects[n], Count(m, n))
<1>1. N \in Nat /\ C \in 0..N /\ \A n \in 1..C : m.objects[n].kind \in DOMAIN Kinds
  BY KnownUpTo, Zenon
<1>2. W = [n \in 1..C |-> R(n)]
  BY Zenon DEF Whollies
<1> HIDE DEF C, W
<1>3. C \in Nat /\ \A n \in 1..C : n \in 1..N
  <2> HIDE DEF N
  <2> QED
    BY <1>1
<1>4. ASSUME NEW n \in 1..C PROVE R(n) \in Seq(ReadingType)
  <2>1. n \in 1..N /\ m.objects[n].kind \in DOMAIN Kinds
    BY <1>1, <1>3, Zenon
  <2>2. Count(m, n) \in 0..Len(m.objects[n].samples)
    BY <2>1, CountType, Zenon
  <2> QED
    BY <2>1, <2>2, ReadingsType, Zenon
<1>5. ASSUME NEW n \in 1..C, Start(m, n + 1) <= m.cut PROVE R(n) = ReadAll(m)[n]
  <2>1. n \in 1..N /\ m.objects[n].kind \in DOMAIN Kinds
    BY <1>1, <1>3, Zenon
  <2>2. Count(m, n) = Len(m.objects[n].samples)
    BY <1>5, <2>1, CountEnds, Zenon
  <2>3. ReadAll(m)[n] = ReadingsOf(m.objects[n], Len(m.objects[n].samples))
    BY <2>1, ReadAllType, Zenon
  <2> QED
    BY <2>2, <2>3, Zenon
<1>6. ASSUME NEW n \in 1..C, Body(m, n) > m.cut PROVE R(n) = <<>>
  <2>1. n \in 1..N /\ m.objects[n].kind \in DOMAIN Kinds
    BY <1>1, <1>3, Zenon
  <2>2. Count(m, n) = 0
    BY <1>6, <2>1, CountEnds, Zenon
  <2>3. Count(m, n) \in 0..Len(m.objects[n].samples)
    BY <2>1, CountType, Zenon
  <2> DEFINE s == R(n)
  <2>4. s \in Seq(ReadingType) /\ Len(s) = 0
    BY <2>1, <2>2, <2>3, ReadingsType, Zenon
  <2> HIDE DEF s
  <2>5. s = <<>>
    BY <2>4
  <2> QED
    BY <2>5 DEF s
<1> HIDE DEF R
<1>7. W \in [1..C -> Seq(ReadingType)] /\ \A n \in 1..C : W[n] = R(n)
  BY <1>2, <1>4
<1>8. W \in Seq(Seq(ReadingType)) /\ Len(W) = C
  BY <1>3, <1>7
<1> QED
  BY <1>1, <1>3, <1>5, <1>6, <1>7, <1>8, Zenon DEF C, W, R

\* What arrived when the cut is at an object, and when it is in one.
LEMMA WhollyFirst ==
    ASSUME NEW m, WellFormed(m), Answers(m), m.cut \in Nat,
           NEW n \in 0..Cardinality(KnownObjects(m)),
           \A l \in 1..n : Start(m, l + 1) <= m.cut,
           \A l \in n + 1..Cardinality(KnownObjects(m)) : Body(m, l) > m.cut
    PROVE  WhollyReceived(m) = First(ReadAll(m), n)
<1> DEFINE W == Whollies(m)
           C == Cardinality(KnownObjects(m))
           R == ReadAll(m)
           N == Len(m.objects)
<1>1. /\ W \in Seq(Seq(ReadingType)) /\ Len(W) = C /\ C \in 0..N /\ C \in Nat
      /\ \A l \in 1..C : /\ Start(m, l + 1) <= m.cut => W[l] = R[l]
                         /\ Body(m, l) > m.cut => W[l] = <<>>
  BY WholliesAre, Zenon
<1>2. R \in Seq(Seq(ReadingType)) /\ Len(R) = N /\ N \in Nat
  BY ReadAllType, Zenon
<1>3. WhollyReceived(m) = FlattenSeq(W)
  BY WhollyReceivedIs, Zenon
<1>4. /\ n \in 0..C /\ \A l \in 1..n : Start(m, l + 1) <= m.cut
      /\ \A l \in n + 1..C : Body(m, l) > m.cut
  OBVIOUS
<1> HIDE DEF W, C, R, N
<1>5. n <= N /\ (\A l \in 1..n : l \in 1..C) /\ \A l \in n + 1..C : l \in 1..C
  BY <1>1, <1>2, <1>4
<1>6. \A l \in 1..n : W[l] = R[l]
  BY <1>1, <1>4, <1>5, Zenon
<1>7. \A l \in n + 1..C : W[l] = <<>>
  BY <1>1, <1>4, <1>5, Zenon
<1>8. n \in 0..Len(W) /\ n <= Len(R) /\ \A l \in n + 1..Len(W) : W[l] = <<>>
  BY <1>1, <1>2, <1>4, <1>5, <1>7, Zenon
<1>9. FlattenSeq(W) = First(W, n)
  BY <1>1, <1>8, FirstOnly, Zenon
<1>10. First(W, n) = First(R, n)
  BY <1>1, <1>2, <1>6, <1>8, FirstSame, Zenon
<1> QED
  BY <1>3, <1>9, <1>10, Zenon DEF R

LEMMA WhollyPart ==
    ASSUME NEW m, WellFormed(m), Answers(m), m.cut \in Nat,
           NEW n \in 1..Cardinality(KnownObjects(m)),
           \A l \in 1..n - 1 : Start(m, l + 1) <= m.cut,
           \A l \in n + 1..Cardinality(KnownObjects(m)) : Body(m, l) > m.cut
    PROVE  WhollyReceived(m) = First(ReadAll(m), n - 1) \o ReadingsOf(m.objects[n], Count(m, n))
<1> DEFINE W == Whollies(m)
           C == Cardinality(KnownObjects(m))
           R == ReadAll(m)
           N == Len(m.objects)
<1>1. /\ W \in Seq(Seq(ReadingType)) /\ Len(W) = C /\ C \in 0..N /\ C \in Nat
      /\ \A l \in 1..C : /\ W[l] = ReadingsOf(m.objects[l], Count(m, l))
                         /\ Start(m, l + 1) <= m.cut => W[l] = R[l]
                         /\ Body(m, l) > m.cut => W[l] = <<>>
  BY WholliesAre, Zenon
<1>2. R \in Seq(Seq(ReadingType)) /\ Len(R) = N /\ N \in Nat
  BY ReadAllType, Zenon
<1>3. WhollyReceived(m) = FlattenSeq(W)
  BY WhollyReceivedIs, Zenon
<1>4. /\ n \in 1..C /\ \A l \in 1..n - 1 : Start(m, l + 1) <= m.cut
      /\ \A l \in n + 1..C : Body(m, l) > m.cut
  OBVIOUS
<1> HIDE DEF W, C, R, N
<1>5. /\ n - 1 <= N /\ n - 1 \in 0..C /\ n \in 0..C
      /\ (\A l \in 1..n - 1 : l \in 1..C) /\ \A l \in n + 1..C : l \in 1..C
  BY <1>1, <1>2, <1>4
<1>6. \A l \in 1..n - 1 : W[l] = R[l]
  BY <1>1, <1>4, <1>5, Zenon
<1>7. \A l \in n + 1..C : W[l] = <<>>
  BY <1>1, <1>4, <1>5, Zenon
<1>8. /\ n - 1 \in 0..Len(W) /\ n \in 0..Len(W) /\ n \in 1..Len(W) /\ n - 1 <= Len(R)
      /\ \A l \in n + 1..Len(W) : W[l] = <<>>
  BY <1>1, <1>2, <1>4, <1>5, <1>7, Zenon
<1>9. FlattenSeq(W) = First(W, n)
  BY <1>1, <1>8, FirstOnly, Zenon
<1>10. First(W, n) = First(W, n - 1) \o W[n]
  BY <1>1, <1>8, FirstMore, Zenon
<1>11. First(W, n - 1) = First(R, n - 1)
  BY <1>1, <1>2, <1>6, <1>8, FirstSame, Zenon
<1>12. W[n] = ReadingsOf(m.objects[n], Count(m, n))
  BY <1>1, <1>4, Zenon
<1> QED
  BY <1>3, <1>9, <1>10, <1>11, <1>12, Zenon DEF R

\* The objects stand in their order.
LEMMA Later ==
    ASSUME NEW m, WellFormed(m), Answers(m), m.cut \in Nat,
           NEW n \in 1..Len(m.objects), NEW l \in n..Len(m.objects),
           m.objects[l].kind \in DOMAIN Kinds
    PROVE  /\ Start(m, n) \in Nat /\ Start(m, n) <= Start(m, l)
           /\ Start(m, l) \in Nat /\ Body(m, l) \in Nat /\ Start(m, l) <= Body(m, l)
<1> DEFINE N == Len(m.objects)
<1>1. /\ N \in Nat
      /\ \A x \in 1..N + 1 : Start(m, x) \in Nat
      /\ \A x \in 1..N + 1 : \A y \in x..N + 1 : Start(m, x) <= Start(m, y)
  BY FragmentPlaces, Zenon
<1>2. n \in 1..N /\ l \in n..N
  OBVIOUS
<1> HIDE DEF N
<1>3. n \in 1..N + 1 /\ l \in 1..N + 1 /\ l \in n..N + 1 /\ l \in 1..N
  BY <1>1, <1>2
<1>4. Start(m, n) \in Nat /\ Start(m, n) <= Start(m, l) /\ Start(m, l) \in Nat
  BY <1>1, <1>3, Zenon
<1>5. Body(m, l) \in Nat /\ Start(m, l) <= Body(m, l)
  <2>1. KnownAt(m, l)
    BY <1>3, KnownPlaces, Zenon DEF N
  <2> DEFINE r == 3 + RangeSize(m.objects[l].qualifier)
  <2>2. RangeSize(m.objects[l].qualifier) \in Nat /\ Body(m, l) \in Nat /\ Body(m, l) = Start(m, l) + r
    BY <2>1, Zenon DEF KnownAt
  <2>3. r \in Nat
    BY <2>2
  <2> HIDE DEF r
  <2> QED
    BY <1>4, <2>2, <2>3
<1> QED
  BY <1>4, <1>5

\* An object's samples stand after the object before it.
LEMMA BodyLater ==
    ASSUME NEW m, WellFormed(m), Answers(m), m.cut \in Nat,
           NEW n \in 1..Len(m.objects), m.objects[n].kind \in DOMAIN Kinds,
           NEW l \in n + 1..Len(m.objects), m.objects[l].kind \in DOMAIN Kinds
    PROVE  Start(m, n + 1) \in Nat /\ Start(m, n + 1) <= Body(m, l) /\ Body(m, l) \in Nat
<1> DEFINE N == Len(m.objects)
<1>1. N \in Nat
  BY FragmentPlaces, Zenon
<1>2. n \in 1..N /\ l \in n + 1..N
  OBVIOUS
<1> HIDE DEF N
<1>3. n + 1 \in 1..N /\ l \in 1..N
  BY <1>1, <1>2
<1>4. /\ Start(m, n + 1) \in Nat /\ Start(m, n + 1) <= Start(m, l)
      /\ Start(m, l) \in Nat /\ Body(m, l) \in Nat /\ Start(m, l) <= Body(m, l)
  BY <1>2, <1>3, Later, Zenon DEF N
<1>5. \A x, y, z \in Nat : x <= y /\ y <= z => x <= z
  OBVIOUS
<1> QED
  BY <1>4, <1>5, Zenon

\* The parser stops at the n-th object when this one is not there, is not known or
\* its header is cut off: what it has read is all that arrived.
LEMMA WhollyAt ==
    ASSUME NEW m, WellFormed(m), Answers(m), m.cut \in Nat,
           NEW n \in 1..Len(m.objects) + 1, Known(m, n - 1), Start(m, n) <= m.cut,
           \/ n = Len(m.objects) + 1
           \/ m.objects[n].kind \notin DOMAIN Kinds
           \/ m.objects[n].kind \in DOMAIN Kinds /\ Body(m, n) > m.cut
    PROVE  WhollyReceived(m) = First(ReadAll(m), n - 1)
<1> DEFINE N == Len(m.objects)
           C == Cardinality(KnownObjects(m))
<1>1. /\ N \in Nat /\ C \in 0..N /\ \A l \in 1..C : m.objects[l].kind \in DOMAIN Kinds
      /\ \A l \in 0..N : Known(m, l) =>
            l <= C /\ (l < N => (m.objects[l + 1].kind \notin DOMAIN Kinds => l = C))
  BY KnownUpTo, Zenon
<1>2. /\ \A x \in 1..N + 1 : Start(m, x) \in Nat
      /\ \A x \in 1..N + 1 : \A y \in x..N + 1 : Start(m, x) <= Start(m, y)
  BY FragmentPlaces, Zenon
<1>3. /\ n \in 1..N + 1 /\ Start(m, n) <= m.cut /\ Known(m, n - 1)
      /\ n # N + 1 /\ m.objects[n].kind \in DOMAIN Kinds => Body(m, n) > m.cut
  OBVIOUS
<1> HIDE DEF N, C
<1>4. n - 1 \in 0..N /\ n \in Nat /\ (n - 1) + 1 = n /\ C \in Nat
  BY <1>1, <1>3
<1>5. n - 1 <= C
  BY <1>1, <1>3, <1>4, Zenon
<1>6. n - 1 \in 0..C
  BY <1>4, <1>5
<1>7. ASSUME NEW l \in 1..n - 1 PROVE Start(m, l + 1) <= m.cut
  <2>1. l + 1 \in 1..N + 1 /\ n \in l + 1..N + 1
    BY <1>1, <1>3
  <2>2. Start(m, l + 1) <= Start(m, n) /\ Start(m, l + 1) \in Nat /\ Start(m, n) \in Nat
    BY <1>2, <1>3, <2>1, Zenon
  <2>3. \A x, y, z \in Nat : x <= y /\ y <= z => x <= z
    OBVIOUS
  <2> QED
    BY <1>3, <2>2, <2>3, Zenon
<1>8. ASSUME NEW l \in (n - 1) + 1..C PROVE Body(m, l) > m.cut
  <2>1. l \in n..C /\ l \in 1..C /\ l \in 1..N /\ n \in 1..N /\ n <= C /\ n # N + 1 /\ n \in 1..C
    BY <1>1, <1>3, <1>4
  <2>2. m.objects[n].kind \in DOMAIN Kinds /\ m.objects[l].kind \in DOMAIN Kinds
    BY <1>1, <2>1, Zenon
  <2>3. Body(m, n) > m.cut
    BY <1>3, <2>1, <2>2, Zenon
  <2>4. CASE l = n
    BY <2>3, <2>4
  <2>5. CASE l # n
    <3>1. l \in n + 1..N
      BY <1>1, <2>1, <2>5
    <3>2. Start(m, n + 1) \in Nat /\ Start(m, n + 1) <= Body(m, l) /\ Body(m, l) \in Nat
      BY <2>1, <2>2, <3>1, BodyLater, Zenon DEF N
    <3>3. KnownAt(m, n)
      BY <2>1, <2>2, KnownPlaces, Zenon DEF N
    <3> DEFINE x == Len(m.objects[n].samples)
               y == PointSize(m.objects[n].kind)
    <3>4. Body(m, n) \in Nat /\ Start(m, n + 1) = Body(m, n) + x * y /\ x \in Nat /\ y \in Nat
      BY <3>3, Zenon DEF KnownAt
    <3> HIDE DEF x, y
    <3>5. \A u, v \in Nat : u * v \in Nat
      OBVIOUS
    <3>6. \A b, s, t, w, c \in Nat : b > c /\ s = b + w /\ s <= t => t > c
      OBVIOUS
    <3> QED
      BY <2>3, <3>2, <3>4, <3>5, <3>6, Zenon
  <2> QED
    BY <2>4, <2>5
<1> QED
  BY <1>6, <1>7, <1>8, WhollyFirst, Zenon DEF C

\* The parser leaves the n-th object when sample k + 1 is cut off.
LEMMA WhollyIn ==
    ASSUME NEW m, WellFormed(m), Answers(m), m.cut \in Nat,
           NEW n \in 1..Len(m.objects), Known(m, n),
           NEW k \in Nat, k < Len(m.objects[n].samples),
           Body(m, n) + k * PointSize(m.objects[n].kind) <= m.cut,
           Body(m, n) + (k + 1) * PointSize(m.objects[n].kind) > m.cut
    PROVE  /\ WhollyReceived(m) = First(ReadAll(m), n - 1) \o ReadingsOf(m.objects[n], k)
           /\ m.cut # Len(Fragment(m))
<1> DEFINE N == Len(m.objects)
           C == Cardinality(KnownObjects(m))
           L == Len(m.objects[n].samples)
           size == PointSize(m.objects[n].kind)
           body == Body(m, n)
<1>1. /\ N \in Nat /\ C \in 0..N /\ \A l \in 1..C : m.objects[l].kind \in DOMAIN Kinds
      /\ \A l \in 0..N : Known(m, l) => l <= C
  BY KnownUpTo, Zenon
<1>2. /\ \A x \in 1..N + 1 : Start(m, x) \in Nat
      /\ \A x \in 1..N + 1 : \A y \in x..N + 1 : Start(m, x) <= Start(m, y)
      /\ Len(Fragment(m)) = Start(m, N + 1)
  BY FragmentPlaces, Zenon
<1>3. /\ n \in 1..N /\ Known(m, n) /\ k < L
      /\ body + k * size <= m.cut /\ body + (k + 1) * size > m.cut
  OBVIOUS
<1>k. m.objects[n].kind \in DOMAIN Kinds
  <2> HIDE DEF N
  <2>1. n \in 1..n
    BY <1>1, <1>3
  <2> QED
    BY <2>1, Zenon DEF Known
<1>4. /\ size \in Nat /\ L \in Nat /\ body \in Nat /\ Start(m, n + 1) = body + L * size
      /\ Start(m, n) \in Nat
      /\ body = Start(m, n) + (3 + RangeSize(m.objects[n].qualifier))
      /\ RangeSize(m.objects[n].qualifier) \in Nat
  <2>1. KnownAt(m, n)
    BY <1>k, KnownPlaces, Zenon
  <2> QED
    BY <2>1, Zenon DEF KnownAt
<1>c. Count(m, n) = k
  <2>1. k \in 0..L
    <3> HIDE DEF L, size, body
    <3> QED
      BY <1>3, <1>4
  <2> QED
    BY <1>3, <1>k, <2>1, CountIs, Zenon
<1> HIDE DEF N, C, L, size, body
<1>5. n \in Nat /\ n + 1 \in Nat /\ n \in 0..N /\ n + 1 \in 1..N + 1 /\ N + 1 \in n + 1..N + 1 /\ C \in Nat
  BY <1>1, <1>3
<1>6. n \in 1..C
  <2>1. n <= C
    BY <1>1, <1>3, <1>5, Zenon
  <2> QED
    BY <1>3, <1>5, <2>1
<1>7. Start(m, n + 1) > m.cut /\ Start(m, n + 1) \in Nat
  <2>1. k + 1 \in Nat /\ k + 1 <= L
    BY <1>3, <1>4
  <2>2. (k + 1) * size \in Nat /\ L * size \in Nat /\ (k + 1) * size <= L * size
    BY <1>4, <2>1, TimesGrows, Zenon
  <2> DEFINE x == (k + 1) * size
             y == L * size
  <2>3. x \in Nat /\ y \in Nat /\ x <= y /\ body + x > m.cut
    BY <1>3, <2>2
  <2>4. Start(m, n + 1) = body + y /\ body \in Nat
    BY <1>4, Zenon
  <2> HIDE DEF x, y
  <2> QED
    BY <2>3, <2>4
<1>8. m.cut # Len(Fragment(m))
  <2>1. Start(m, n + 1) <= Start(m, N + 1) /\ Start(m, N + 1) \in Nat
    <3>1. N + 1 \in 1..N + 1
      BY <1>1
    <3> QED
      BY <1>2, <1>5, <3>1, Zenon
  <2>2. \A x, y, z \in Nat : x > z /\ x <= y => z # y
    OBVIOUS
  <2> QED
    BY <1>2, <1>7, <2>1, <2>2, Zenon
<1>9. ASSUME NEW l \in 1..n - 1 PROVE Start(m, l + 1) <= m.cut
  <2>1. l + 1 \in 1..N + 1 /\ n \in l + 1..N + 1 /\ n \in 1..N + 1
    BY <1>1, <1>3
  <2>2. Start(m, l + 1) <= Start(m, n) /\ Start(m, l + 1) \in Nat
    BY <1>2, <2>1, Zenon
  <2> DEFINE r == RangeSize(m.objects[n].qualifier)
             p == k * size
  <2>3. p \in Nat /\ r \in Nat
    <3>1. \A x, y \in Nat : x * y \in Nat
      OBVIOUS
    <3> QED
      BY <1>4, <3>1, Zenon
  <2>4. body + p <= m.cut /\ body = Start(m, n) + (3 + r)
    BY <1>3, <1>4, Zenon
  <2> HIDE DEF r, p
  <2>5. \A x, y, u, v, c \in Nat : x <= y /\ (y + (3 + u)) + v <= c => x <= c
    OBVIOUS
  <2> QED
    BY <1>4, <2>2, <2>3, <2>4, <2>5, Zenon
<1>10. ASSUME NEW l \in n + 1..C PROVE Body(m, l) > m.cut
  <2>1. l \in 1..C /\ l \in n + 1..N
    BY <1>1, <1>5
  <2>2. Start(m, n + 1) <= Body(m, l) /\ Body(m, l) \in Nat
    BY <1>1, <1>3, <1>k, <2>1, BodyLater, Zenon DEF N
  <2>3. \A x, y, z \in Nat : x > z /\ x <= y => y > z
    OBVIOUS
  <2> QED
    BY <1>7, <2>2, <2>3, Zenon
<1>11. WhollyReceived(m) = First(ReadAll(m), n - 1) \o ReadingsOf(m.objects[n], Count(m, n))
  BY <1>6, <1>9, <1>10, WhollyPart, Zenon DEF C
<1> QED
  BY <1>c, <1>8, <1>11, Zenon

-----------------------------------------------------------------------------
(* The steps of the parser.                                                *)

\* A frame in which no bit has turned is what build_frame made, and it is accepted.
LEMMA FrameRead ==
    ASSUME NEW m, WellFormed(m), Answers(m)
    PROVE  LET d        == Received(m)
               stripped == strip_crc_blocks(SubSeq(d, 11, Len(d)))
           IN  /\ validate_header_crc(d) /\ m.cut \in Nat
               /\ Len(stripped) \in m.cut..m.cut + 2 /\ Len(stripped) >= 5
               /\ \A j \in 1..m.cut : stripped[j] = Fragment(m)[j]
               /\ stripped[3] \in {129, 130}
<1> DEFINE payload  == SubSeq(Fragment(m), 1, m.cut)
           frame    == build_frame(1, 2, payload)
           d        == Received(m)
           stripped == strip_crc_blocks(WithBlockCrcs(payload))
<1>1. /\ Fragment(m) \in Seq(Byte) /\ Len(Fragment(m)) \in Nat
      /\ Fragment(m)[3] = m.func
  <2>1. Fragment(m) \in Seq(Byte) /\ Fragment(m)[3] = m.func
    BY FragmentPlaces, Zenon
  <2> QED
    BY <2>1, LenProperties
<1>2. m.cut \in 0..Len(Fragment(m)) /\ m.cut >= 5 /\ m.func \in {129, 130} /\ m.damage = {}
  BY Zenon DEF Answers, WellFormed
<1>3. m.cut \in Nat
  BY <1>1, <1>2
<1>4. payload \in Seq(Byte) /\ Len(payload) = m.cut /\ \A j \in 1..m.cut : payload[j] = Fragment(m)[j]
  <2> DEFINE f == Fragment(m)
             c == m.cut
  <2>1. f \in Seq(Byte) /\ c \in 0..Len(f)
    BY <1>1, <1>2
  <2> HIDE DEF f, c
  <2>2. LET p == SubSeq(f, 1, c) IN p \in Seq(Byte) /\ Len(p) = c /\ \A j \in 1..c : p[j] = f[j]
    BY <2>1
  <2> QED
    BY <2>2, Zenon DEF f, c
<1> HIDE DEF payload
<1>5. /\ validate_header_crc(frame)
      /\ SubSeq(frame, 11, Len(frame)) = WithBlockCrcs(payload)
      /\ \E T : frame \in Seq(T)
  BY <1>4, FrameAccepted, Zenon
<1>6. /\ Len(stripped) \in Len(payload)..Len(payload) + 2
      /\ \A j \in 1..Len(payload) : stripped[j] = payload[j]
  BY <1>4, PayloadKept, Zenon
<1> HIDE DEF frame, stripped
<1>7. d = frame
  <2>1. d = [k \in DOMAIN frame |-> Turned(frame[k], {b \in 0..7 : <<k, b>> \in m.damage})]
    BY Zenon DEF Received, frame, payload
  <2>2. \A k : {b \in 0..7 : <<k, b>> \in m.damage} = {}
    BY <1>2
  <2>3. \A byte : Turned(byte, {}) = byte
    BY DEF Turned
  <2>4. d = [k \in DOMAIN frame |-> frame[k]]
    BY <2>1, <2>2, <2>3
  <2>5. frame = [k \in DOMAIN frame |-> frame[k]]
    BY <1>5
  <2> QED
    BY <2>4, <2>5, Zenon
<1>8. Len(stripped) \in m.cut..m.cut + 2 /\ Len(stripped) >= 5
  BY <1>2, <1>3, <1>4, <1>6
<1>9. \A j \in 1..m.cut : stripped[j] = Fragment(m)[j]
  BY <1>4, <1>6, Zenon
<1>10. stripped[3] \in {129, 130}
  <2>1. 3 \in 1..m.cut
    BY <1>2, <1>3
  <2> QED
    BY <1>1, <1>2, <1>9, <2>1
<1>11. stripped = strip_crc_blocks(SubSeq(d, 11, Len(d))) /\ validate_header_crc(d)
  BY <1>5, <1>7, Zenon DEF stripped
<1> QED
  BY <1>3, <1>8, <1>9, <1>10, <1>11, Zenon

\* The readings of the points are typed.
LEMMA ReadingsAre ==
    ASSUME points \in Seq(Point)
    PROVE  Readings \in Seq(ReadingType) /\ Len(Readings) = Len(points)
<1> DEFINE n == Len(points)
           r(k) == points[k].reading
<1>1. n \in Nat /\ \A k \in 1..n : r(k) \in ReadingType
  <2>1. n \in Nat /\ \A k \in 1..n : points[k] \in Point
    OBVIOUS
  <2>2. \A p \in Point : p.reading \in ReadingType
    BY DEF Point
  <2> QED
    BY <2>1, <2>2, Zenon
<1>2. Readings = [k \in 1..n |-> r(k)]
  BY DEF Readings
<1> HIDE DEF r, n
<1>3. Readings \in [1..n -> ReadingType]
  BY <1>1, <1>2
<1>4. Readings \in Seq(ReadingType) /\ Len(Readings) = n
  BY <1>1, <1>3
<1> QED
  BY <1>4 DEF n

\* One point more is one reading more.
LEMMA ReadingsAppend ==
    ASSUME points \in Seq(Point), NEW q \in Point, points' = Append(points, q)
    PROVE  Readings' = Append(Readings, q.reading)
<1> DEFINE n == Len(points)
<1>1. n \in Nat /\ DOMAIN points = 1..n /\ DOMAIN points' = 1..n + 1
  OBVIOUS
<1>2. /\ \A k \in 1..n : points'[k] = points[k]
      /\ points'[n + 1] = q
  OBVIOUS
<1>3. Readings \in Seq(ReadingType) /\ Len(Readings) = n
  BY ReadingsAre
<1>4. Readings' = [k \in 1..n + 1 |-> points'[k].reading] /\ Readings = [k \in 1..n |-> points[k].reading]
  BY <1>1 DEF Readings
<1>5. q.reading \in ReadingType
  BY DEF Point
<1>6. Append(Readings, q.reading) = [k \in 1..n + 1 |-> IF k = n + 1 THEN q.reading ELSE Readings[k]]
  BY <1>1, <1>3, <1>5
<1> HIDE DEF n
<1>7. \A k \in 1..n + 1 : points'[k].reading = IF k = n + 1 THEN q.reading ELSE Readings[k]
  BY <1>1, <1>2, <1>4
<1> QED
  BY <1>4, <1>6, <1>7

\* IsPrefix, for what has been read and for one reading more.
LEMMA PrefixOfItself ==
    ASSUME NEW T, NEW t \in Seq(T)
    PROVE  IsPrefix(t, t)
BY DEF IsPrefix

LEMMA PrefixKept ==
    ASSUME NEW T, NEW s, Len(s) \in Nat, NEW t \in Seq(T), NEW e \in T, IsPrefix(s, t)
    PROVE  IsPrefix(s, Append(t, e))
BY DEF IsPrefix

\* What arrived are readings.
LEMMA WhollyType ==
    ASSUME NEW m, WellFormed(m), Answers(m), m.cut \in Nat
    PROVE  WhollyReceived(m) \in Seq(ReadingType)
<1> DEFINE W == Whollies(m)
<1>1. W \in Seq(Seq(ReadingType))
  BY WholliesAre, Zenon
<1>2. WhollyReceived(m) = FlattenSeq(W)
  BY WhollyReceivedIs, Zenon
<1> HIDE DEF W
<1>3. Len(W) \in 0..Len(W)
  BY <1>1
<1>4. FlattenSeq(W) \in Seq(ReadingType)
  BY <1>1, <1>3, FirstEnds, Zenon
<1> QED
  BY <1>2, <1>4, Zenon

\* The n-th object is not there, is not known or its header is cut off.
NoObjectAt(m, n) ==
    \/ n = Len(m.objects) + 1
    \/ m.objects[n].kind \notin DOMAIN Kinds
    \/ m.objects[n].kind \in DOMAIN Kinds /\ Body(m, n) > m.cut

\* What the steps of the parser have in common.
Parsing ==
    /\ ParserTypes /\ CountsOf(points) /\ Arrived
    /\ WellFormed(message) /\ Answers(message) /\ message.cut \in Nat

\* Where no object is to be read the parser has read all that arrived, and of a
\* whole response it takes nothing for a header.
LEMMA AtNoObject ==
    ASSUME Parsing, NEW n, AtObject(n), NoObjectAt(message, n)
    PROVE  /\ WhollyReceived(message) = Readings
           /\ Whole(message) => \A kind \in DOMAIN Kinds : ~BeginObject(kind)
<1> DEFINE m == message
           N == Len(m.objects)
           o == m.objects[n]
<1> USE DEF Parsing
<1>1. /\ n \in 1..N + 1 /\ Known(m, n - 1) /\ i = Start(m, n) /\ Start(m, n) <= m.cut
      /\ Readings = First(ReadAll(m), n - 1)
  BY Zenon DEF AtObject
<1>2. WhollyReceived(m) = Readings
  BY <1>1, WhollyAt, Zenon DEF NoObjectAt
<1>3. ASSUME Whole(m), NEW kind \in DOMAIN Kinds, BeginObject(kind) PROVE FALSE
  <2>1. /\ m.cut = Len(Fragment(m)) /\ Len(Fragment(m)) = Start(m, N + 1) /\ N \in Nat
        /\ \A x \in 1..N + 1 : Start(m, x) \in Nat
        /\ \A x \in 1..N + 1 : \A y \in x..N + 1 : Start(m, x) <= Start(m, y)
    BY <1>3, FragmentPlaces, Zenon DEF Whole
  <2>2. i + 3 <= Len(app) /\ Matches(kind) /\ Len(app) \in m.cut..m.cut + 2 /\ i \in Nat
    BY <1>3, Zenon DEF BeginObject, Arrived, ParserTypes
  <2> HIDE DEF N
  <2>3. i + 1 <= m.cut
    BY <2>2
  <2>4. n # N + 1
    BY <1>1, <2>1, <2>3
  <2>5. n \in 1..N /\ n + 1 \in 1..N + 1 /\ N + 1 \in n + 1..N + 1
    BY <1>1, <2>1, <2>4
  <2>6. Start(m, n + 1) <= m.cut /\ Start(m, n + 1) \in Nat
    <3>1. N + 1 \in 1..N + 1
      BY <2>1
    <3> QED
      BY <2>1, <2>5, <3>1, Zenon
  <2>7. CASE o.kind \in DOMAIN Kinds
    <3>1. Body(m, n) > m.cut
      BY <2>4, <2>7, Zenon DEF NoObjectAt, N
    <3>2. KnownAt(m, n)
      BY <2>5, <2>7, KnownPlaces, Zenon DEF N
    <3> DEFINE x == Len(o.samples)
               y == PointSize(o.kind)
    <3>3. Body(m, n) \in Nat /\ Start(m, n + 1) = Body(m, n) + x * y /\ x \in Nat /\ y \in Nat
      BY <3>2, Zenon DEF KnownAt
    <3> HIDE DEF x, y
    <3>4. \A u, v \in Nat : u * v \in Nat
      OBVIOUS
    <3>5. \A b, s, w, c \in Nat : b > c /\ s = b + w => ~(s <= c)
      OBVIOUS
    <3> QED
      BY <2>6, <3>1, <3>3, <3>4, <3>5, Zenon
  <2>8. CASE o.kind \notin DOMAIN Kinds
    <3>1. /\ UnknownObject(o)
          /\ Len(EncodeHeader(o)) \in Nat /\ Len(EncodeHeader(o)) >= 3
          /\ Start(m, n + 1) = Start(m, n) + Len(EncodeHeader(o))
          /\ \A j \in 1..3 : Fragment(m)[Start(m, n) + j] = o.bytes[j]
      BY <2>5, <2>8, UnknownPlaces, Zenon DEF N
    <3> DEFINE h == Len(EncodeHeader(o))
    <3>2. i + 3 <= m.cut
      <4>1. h \in Nat /\ h >= 3 /\ i + h <= m.cut
        BY <1>1, <2>6, <3>1, Zenon
      <4> HIDE DEF h
      <4> QED
        BY <2>2, <4>1
    <3>3. \A j \in 1..3 : Fragment(m)[i + j] = o.bytes[j]
      BY <1>1, <3>1, Zenon
    <3>4. Reads(i, 3, o.bytes)
      <4>1. app \in Seq(Byte) /\ 3 \in Nat
        BY DEF ParserTypes
      <4> QED
        BY <2>2, <3>2, <3>3, <4>1, ReadsWhole, Zenon
    <3>5. At(i) = o.bytes[1] /\ At(i + 1) = o.bytes[2] /\ At(i + 2) = o.bytes[3]
      BY <3>4 DEF Reads
    <3> QED
      BY <2>2, <3>1, <3>5, Zenon DEF Matches, UnknownObject
  <2> QED
    BY <2>7, <2>8
<1> QED
  BY <1>2, <1>3, Zenon

\* Where the header of a known object arrived the parser reads this object.
LEMMA AtKnownObject ==
    ASSUME Parsing, NEW n, AtObject(n), ~NoObjectAt(message, n)
    PROVE  /\ ~StopParsing
           /\ \A kind \in DOMAIN Kinds : BeginObject(kind) => InObject(n, 0)'
<1> DEFINE m     == message
           N     == Len(m.objects)
           o     == m.objects[n]
           q     == o.qualifier
           first == o.samples[1].id
           count == Len(o.samples)
           body  == Body(m, n)
           R     == First(ReadAll(m), n - 1)
<1> USE DEF Parsing
<1>1. /\ n \in 1..N + 1 /\ Known(m, n - 1) /\ i = Start(m, n) /\ Start(m, n) <= m.cut
      /\ Readings = R /\ mode = "header"
  BY Zenon DEF AtObject
<1>2. n # N + 1 /\ o.kind \in DOMAIN Kinds /\ ~(body > m.cut)
  BY Zenon DEF NoObjectAt
<1>3. N \in Nat /\ n \in 1..N /\ Known(m, n)
  <2>1. N \in Nat
    BY FragmentPlaces, Zenon
  <2> HIDE DEF N
  <2>2. n \in 1..N /\ \A l \in 1..n : l \in 1..n - 1 \/ l = n
    BY <1>1, <1>2, <2>1
  <2> QED
    BY <1>1, <1>2, <2>1, <2>2, Zenon DEF Known
<1>4. KnownAt(m, n)
  BY <1>2, <1>3, KnownPlaces, Zenon
<1>5. KnownObject(o) /\ body \in Nat /\ count \in Nat /\ PointSize(o.kind) \in Nat
  BY <1>4, Zenon DEF KnownAt
<1>6. body <= m.cut
  <2> HIDE DEF body
  <2> QED
    BY <1>2, <1>5
<1>7. /\ i + 3 + RangeSize(q) = body /\ RangeSize(q) \in Nat
      /\ Matches(o.kind) /\ \A kind \in DOMAIN Kinds : Matches(kind) => kind = o.kind
      /\ At(i + 2) = q /\ q \in Kinds[o.kind].qualifiers
      /\ q = 0 => At(i + 3) = first /\ At(i + 4) = first + count - 1
      /\ q = 1 => Word(i + 3) = first /\ Word(i + 5) = first + count - 1
      /\ q = 40 => Word(i + 3) = count
  <2>1. app \in Seq(Byte)
    BY DEF ParserTypes
  <2> QED
    BY <1>1, <1>2, <1>3, <1>6, <2>1, HeaderRead, Zenon
<1>8. i \in Nat /\ Len(app) >= body
  <2>1. i \in Nat /\ Len(app) \in m.cut..m.cut + 2
    BY Zenon DEF ParserTypes, Arrived
  <2> HIDE DEF body
  <2> QED
    BY <1>5, <1>6, <2>1
<1>f. q # 40 => first \in Nat
  <2> SUFFICES ASSUME q # 40 PROVE first \in Nat
    OBVIOUS
  <2>1. count > 0 /\ DOMAIN o.samples = 1..count /\ \A k \in DOMAIN o.samples : Sample(o.kind, o.samples[k])
    BY <1>5, Zenon DEF KnownObject, InRange
  <2>2. 1 \in DOMAIN o.samples
    <3> HIDE DEF count
    <3> QED
      BY <1>5, <2>1
  <2> QED
    BY <2>1, <2>2, Zenon DEF Sample, TwoBytes
<1> HIDE DEF q, first, count, body, R
<1>9. ~StopParsing
  <2>1. i + 3 <= Len(app) /\ i + 3 + RangeSize(At(i + 2)) <= Len(app)
    BY <1>5, <1>7, <1>8
  <2>2. ~(i + 3 > Len(app)) /\ ~(i + 3 + RangeSize(At(i + 2)) > Len(app))
    <3>1. RangeSize(At(i + 2)) \in Nat /\ Len(app) \in Nat
      <4>1. app \in Seq(Byte)
        BY DEF ParserTypes
      <4> QED
        BY <1>7, <4>1
    <3> QED
      BY <1>8, <2>1, <3>1
  <2> QED
    BY <1>2, <1>7, <2>2, Zenon DEF StopParsing
<1>10. ASSUME NEW kind \in DOMAIN Kinds, BeginObject(kind) PROVE InObject(n, 0)'
  <2>1. /\ kind = o.kind /\ mode' = "points" /\ i' = body /\ message' = m /\ points' = points
    BY <1>7, <1>10, Zenon DEF BeginObject
  <2>2. q \in {0, 1, 40} /\ (o.kind # "event" => q # 40)
    BY <1>2, <1>7, KindBytes
  <2>3. object'.kind = o.kind /\ object'.left = count /\ (o.kind # "event" => object'.next = first)
    <3>t. \A k, x, y : LET r == [kind |-> k, next |-> x, left |-> y]
                       IN  r.kind = k /\ r.next = x /\ r.left = y
      OBVIOUS
    <3>b. object' = CASE q = 0 -> [kind |-> kind, next |-> At(i + 3),
                                   left |-> At(i + 4) - At(i + 3) + 1]
                      [] q = 1 -> [kind |-> kind, next |-> Word(i + 3),
                                   left |-> Word(i + 5) - Word(i + 3) + 1]
                      [] q = 40 -> [kind |-> kind, next |-> 0, left |-> Word(i + 3)]
      BY <1>7, <1>10, Zenon DEF BeginObject
    <3>d. \A f, c \in Nat : (f + c - 1) - f + 1 = c
      OBVIOUS
    <3>1. CASE q = 0
      <4>1. object' = [kind |-> kind, next |-> At(i + 3), left |-> At(i + 4) - At(i + 3) + 1]
        BY <3>b, <3>1
      <4>2. (first + count - 1) - first + 1 = count
        <5>1. q # 40
          BY <3>1
        <5> QED
          BY <1>5, <1>f, <3>d, <5>1, Zenon DEF count
      <4>3. At(i + 4) - At(i + 3) + 1 = count
        BY <1>7, <3>1, <4>2, Zenon
      <4> QED
        BY <1>7, <2>1, <3>t, <3>1, <4>1, <4>3, Zenon
    <3>2. CASE q = 1
      <4>1. object' = [kind |-> kind, next |-> Word(i + 3), left |-> Word(i + 5) - Word(i + 3) + 1]
        BY <3>b, <3>2
      <4>2. (first + count - 1) - first + 1 = count
        <5>1. q # 40
          BY <3>2
        <5> QED
          BY <1>5, <1>f, <3>d, <5>1, Zenon DEF count
      <4>3. Word(i + 5) - Word(i + 3) + 1 = count
        BY <1>7, <3>2, <4>2, Zenon
      <4> QED
        BY <1>7, <2>1, <3>t, <3>2, <4>1, <4>3, Zenon
    <3>3. CASE q = 40
      <4>1. object' = [kind |-> kind, next |-> 0, left |-> Word(i + 3)]
        BY <3>b, <3>3
      <4> QED
        BY <1>7, <2>1, <2>2, <3>t, <3>3, <4>1, Zenon
    <3> QED
      BY <2>2, <3>1, <3>2, <3>3
  <2>4. Readings' = R \o ReadingsOf(o, 0)
    <3>1. Readings' = Readings
      BY <2>1, Zenon DEF Readings
    <3>2. ReadingsOf(o, 0) = <<>>
      BY DEF ReadingsOf
    <3>3. Readings \in Seq(ReadingType)
      BY ReadingsAre, Zenon DEF ParserTypes
    <3>4. Readings \o <<>> = Readings
      BY <3>3
    <3> QED
      BY <1>1, <3>1, <3>2, <3>4, Zenon
  <2>5. 0 \in 0..count /\ count - 0 = count /\ body + 0 * PointSize(o.kind) = body
    BY <1>5 DEF count
  <2>6. o.kind # "event" => first + 0 = first
    BY <1>f, <2>2
  <2> QED
    BY <1>3, <1>6, <2>1, <2>3, <2>4, <2>5, <2>6, Zenon DEF InObject, first, count, body, R
<1> QED
  BY <1>9, <1>10

\* Append and \o.
LEMMA AppendLast ==
    \A a, b \in Seq(ReadingType) : \A e \in ReadingType : Append(a \o b, e) = a \o Append(b, e)
OBVIOUS

\* One sample more is one reading more.
LEMMA ReadingsOfMore ==
    ASSUME NEW m, WellFormed(m), NEW n \in 1..Len(m.objects),
           NEW k \in Nat, k < Len(m.objects[n].samples), Len(m.objects[n].samples) \in Nat
    PROVE  LET o == m.objects[n]
               s == o.samples[k + 1]
               e == Reading(o.kind, s.id, s.flag, s.rest)
           IN  /\ ReadingsOf(o, k) \in Seq(ReadingType) /\ e \in ReadingType
               /\ ReadingsOf(o, k + 1) = Append(ReadingsOf(o, k), e)
<1> DEFINE o == m.objects[n]
           L == Len(o.samples)
           R(j) == Reading(o.kind, o.samples[j].id, o.samples[j].flag, o.samples[j].rest)
           a == ReadingsOf(o, k)
           b == ReadingsOf(o, k + 1)
<1>1. k < L /\ L \in Nat
  OBVIOUS
<1> HIDE DEF L
<1>2. k \in 0..L /\ k + 1 \in 0..L /\ k + 1 \in Nat
  BY <1>1
<1>3. a \in Seq(ReadingType) /\ Len(a) = k /\ b \in Seq(ReadingType) /\ Len(b) = k + 1
  BY <1>2, ReadingsType, Zenon DEF L
<1>4. a = [j \in 1..k |-> R(j)] /\ b = [j \in 1..k + 1 |-> R(j)]
  BY Zenon DEF ReadingsOf
<1> HIDE DEF a, b, R
<1>5. b[k + 1] = R(k + 1) /\ R(k + 1) \in ReadingType
  BY <1>2, <1>3, <1>4
<1>6. \A j \in 1..k : b[j] = a[j]
  BY <1>4
<1>7. b = Append(a, R(k + 1))
  BY <1>3, <1>5, <1>6
<1> QED
  BY <1>3, <1>5, <1>7, Zenon DEF a, b, R

\* What the lemmas about the n-th object share.
LEMMA InObjectFacts ==
    ASSUME Parsing, NEW n, NEW k, InObject(n, k)
    PROVE  LET o == message.objects[n]
           IN  /\ n \in 1..Len(message.objects) /\ Len(message.objects) \in Nat
               /\ o.kind \in DOMAIN Kinds /\ KnownAt(message, n)
               /\ k \in Nat /\ Len(o.samples) \in Nat /\ k <= Len(o.samples)
               /\ PointSize(o.kind) \in Nat /\ Body(message, n) \in Nat
               /\ k * PointSize(o.kind) \in Nat /\ (k + 1) * PointSize(o.kind) \in Nat
               /\ (k + 1) * PointSize(o.kind) = k * PointSize(o.kind) + PointSize(o.kind)
               /\ i \in Nat /\ Len(app) \in Nat /\ message.cut <= Len(app)
<1> DEFINE m == message
           o == m.objects[n]
           L == Len(o.samples)
           size == PointSize(o.kind)
<1> USE DEF Parsing
<1>1. n \in 1..Len(m.objects) /\ Known(m, n) /\ k \in 0..L
  BY Zenon DEF InObject
<1>2. Len(m.objects) \in Nat
  BY FragmentPlaces, Zenon
<1>3. o.kind \in DOMAIN Kinds
  <2>1. n \in 1..n
    BY <1>1, <1>2
  <2> QED
    BY <1>1, <2>1, Zenon DEF Known
<1>4. KnownAt(m, n)
  BY <1>1, <1>3, KnownPlaces, Zenon
<1>5. L \in Nat /\ size \in Nat /\ Body(m, n) \in Nat
  BY <1>4, Zenon DEF KnownAt
<1> HIDE DEF L, size
<1>6. k \in Nat /\ k <= L
  BY <1>1, <1>5
<1>7. k * size \in Nat /\ (k + 1) * size \in Nat /\ (k + 1) * size = k * size + size
  BY <1>5, <1>6
<1>8. i \in Nat /\ Len(app) \in Nat /\ m.cut <= Len(app)
  <2>1. app \in Seq(Byte) /\ i \in Nat /\ Len(app) \in m.cut..m.cut + 2
    BY Zenon DEF ParserTypes, Arrived
  <2> QED
    BY <2>1
<1> QED
  BY <1>1, <1>2, <1>3, <1>4, <1>5, <1>6, <1>7, <1>8, Zenon DEF L, size

\* The next sample is there: it is read.
LEMMA SampleThere ==
    ASSUME Parsing, NEW n, NEW k, InObject(n, k), k < Len(message.objects[n].samples),
           Body(message, n) + (k + 1) * PointSize(message.objects[n].kind) <= message.cut
    PROVE  /\ ~EndObject
           /\ NextPoint => InObject(n, k + 1)'
<1> DEFINE m == message
           o == m.objects[n]
           L == Len(o.samples)
           size == PointSize(o.kind)
           body == Body(m, n)
           s == o.samples[k + 1]
           e == Reading(o.kind, s.id, s.flag, s.rest)
           F == First(ReadAll(m), n - 1)
<1> USE DEF Parsing
<1>1. /\ n \in 1..Len(m.objects) /\ Len(m.objects) \in Nat
      /\ o.kind \in DOMAIN Kinds /\ KnownAt(m, n)
      /\ k \in Nat /\ L \in Nat /\ k <= L
      /\ size \in Nat /\ body \in Nat
      /\ k * size \in Nat /\ (k + 1) * size \in Nat
      /\ (k + 1) * size = k * size + size
      /\ i \in Nat /\ Len(app) \in Nat /\ m.cut <= Len(app)
  BY InObjectFacts, Zenon
<1>2. /\ mode = "points" /\ Known(m, n)
      /\ object.kind = o.kind /\ object.left = L - k
      /\ o.kind # "event" => object.next = o.samples[1].id + k
      /\ i = body + k * size /\ i <= m.cut
      /\ Readings = F \o ReadingsOf(o, k)
  BY Zenon DEF InObject
<1>3. k < L /\ body + (k + 1) * size <= m.cut
  OBVIOUS
<1> HIDE DEF L, size, body, F
<1>4. i + size = body + (k + 1) * size /\ i + size <= m.cut
  <2> DEFINE x == k * size
             y == (k + 1) * size
  <2>1. x \in Nat /\ y = x + size /\ i = body + x /\ body + y <= m.cut /\ size \in Nat /\ body \in Nat
    BY <1>1, <1>2, <1>3, Zenon
  <2> HIDE DEF x, y
  <2>2. i + size = body + y /\ i + size <= m.cut
    BY <2>1
  <2> QED
    BY <2>2, Zenon DEF y
<1>5. ~EndObject
  <2>1. object.left > 0 /\ object.left \in Int
    BY <1>1, <1>2, <1>3
  <2>2. i + size <= Len(app)
    <3>1. i \in Nat /\ size \in Nat /\ Len(app) \in Nat /\ m.cut <= Len(app)
      BY <1>1
    <3> QED
      BY <1>4, <3>1
  <2>3. Room(object.kind) /\ ~(object.left <= 0)
    BY <1>2, <2>1, <2>2 DEF Room, size
  <2> QED
    BY <2>3, Zenon DEF EndObject
<1>6. ASSUME NextPoint PROVE InObject(n, k + 1)'
  <2> DEFINE event == o.kind = "event"
             flag  == IF event THEN i + 2 ELSE i
             rest  == [j \in 1..Kinds[o.kind].rest |-> At(flag + j)]
             id    == IF event THEN Word(i) ELSE object.next
             q     == Counted(e)
  <2>1. id = s.id /\ At(flag) = s.flag /\ rest = s.rest
    <3>1. app \in Seq(Byte) /\ k + 1 <= L
      <4>1. app \in Seq(Byte)
        BY DEF ParserTypes
      <4> QED
        BY <1>1, <1>3, <4>1
    <3> QED
      BY <1>1, <1>2, <1>4, <3>1, SampleRead, Zenon DEF L, size, body
  <2>2. /\ points' = Append(points, Counted(Reading(o.kind, id, At(flag), rest)))
        /\ i' = i + size
        /\ object' = [object EXCEPT !.next = object.next + 1, !.left = object.left - 1]
        /\ message' = m /\ mode' = mode
    BY <1>2, <1>6, Zenon DEF NextPoint, size
  <2> HIDE DEF event, flag, rest, id
  <2>3. points' = Append(points, q)
    BY <2>1, <2>2, Zenon
  <2>4. /\ ReadingsOf(o, k) \in Seq(ReadingType) /\ e \in ReadingType
        /\ ReadingsOf(o, k + 1) = Append(ReadingsOf(o, k), e)
    BY <1>1, <1>3, ReadingsOfMore, Zenon DEF L
  <2> HIDE DEF e
  <2>5. q \in Point /\ q.reading = e
    <3>1. Append(points, q) \in Seq(Point) /\ points \in Seq(Point)
      BY <2>4, CountsAppend, Zenon DEF ParserTypes
    <3>2. q.reading = e
      <4>c. \A r, u, c : [reading |-> r, count_update |-> u, change_count |-> c].reading = r
        OBVIOUS
      <4> QED
        BY <4>c DEF Counted
    <3> HIDE DEF q
    <3>3. q \in Point
      <4>1. Len(points) + 1 \in 1..Len(Append(points, q)) /\ Append(points, q)[Len(points) + 1] = q
        BY <3>1
      <4> QED
        BY <3>1, <4>1, ElementOfSeq
    <3> QED
      BY <3>2, <3>3
  <2> HIDE DEF q
  <2>6. Readings' = Append(Readings, e)
    <3>1. Readings' = Append(Readings, q.reading)
      BY <2>3, <2>5, ReadingsAppend, Zenon DEF ParserTypes
    <3> QED
      BY <2>5, <3>1, Zenon
  <2>7. F \in Seq(ReadingType)
    <3>1. n - 1 \in 0..Len(m.objects)
      BY <1>1
    <3> QED
      BY <3>1, ReadAllType, FirstEnds, Zenon DEF F
  <2>8. Readings' = F \o ReadingsOf(o, k + 1)
    <3> DEFINE a == ReadingsOf(o, k)
    <3>1. a \in Seq(ReadingType)
      BY <2>4
    <3> HIDE DEF a
    <3>2. e \in ReadingType
      BY <2>4
    <3>3. Append(F \o a, e) = F \o Append(a, e)
      BY <2>7, <3>1, <3>2, AppendLast, Zenon
    <3> QED
      BY <1>2, <2>4, <2>6, <3>3, Zenon DEF a
  <2>9. /\ object'.kind = o.kind /\ object'.left = L - (k + 1)
        /\ o.kind # "event" => object'.next = o.samples[1].id + (k + 1)
    <3>1. object \in [kind : DOMAIN Kinds, next : Nat, left : Int]
      BY DEF ParserTypes
    <3>2. /\ object'.kind = object.kind /\ object'.left = object.left - 1
          /\ object'.next = object.next + 1
      BY <2>2, <3>1
    <3>3. object.left - 1 = L - (k + 1)
      BY <1>1, <1>2
    <3>4. ASSUME o.kind # "event" PROVE object'.next = o.samples[1].id + (k + 1)
      <4> DEFINE x == o.samples[1].id
      <4>1. x \in Nat
        <5>1. KnownObject(o) /\ 1 \in 1..L
          <6>1. KnownObject(o)
            BY <1>1, Zenon DEF KnownAt
          <6>2. 1 \in 1..L
            BY <1>1, <1>3
          <6> QED
            BY <6>1, <6>2
        <5>2. Sample(o.kind, o.samples[1])
          BY <5>1, Zenon DEF KnownObject, L
        <5> QED
          BY <5>2, Zenon DEF Sample, TwoBytes
      <4>2. object.next = x + k
        BY <1>2, <3>4
      <4> HIDE DEF x
      <4>3. (x + k) + 1 = x + (k + 1)
        BY <1>1, <4>1
      <4> QED
        BY <3>2, <4>2, <4>3, Zenon DEF x
    <3> QED
      BY <1>2, <3>2, <3>3, <3>4, Zenon
  <2>10. i' = body + (k + 1) * size /\ i' <= m.cut /\ k + 1 \in 0..L /\ mode' = "points"
    <3>1. k + 1 \in 0..L
      BY <1>1, <1>3
    <3> QED
      BY <1>2, <1>4, <2>2, <3>1, Zenon
  <2> QED
    BY <1>1, <1>2, <2>2, <2>8, <2>9, <2>10, Zenon DEF InObject, L, size, body, F
<1> QED
  BY <1>5, <1>6

\* The last sample is read: the parser goes on with the next object.
LEMMA ObjectRead ==
    ASSUME Parsing, NEW n, InObject(n, Len(message.objects[n].samples))
    PROVE  ~NextPoint /\ (EndObject => AtObject(n + 1)')
<1> DEFINE m == message
           N == Len(m.objects)
           o == m.objects[n]
           L == Len(o.samples)
           R == ReadAll(m)
<1> USE DEF Parsing
<1>1. n \in 1..N /\ N \in Nat /\ KnownAt(m, n) /\ L \in Nat
  BY InObjectFacts, Zenon
<1>2. /\ Known(m, n) /\ object.left = L - L
      /\ i = Body(m, n) + L * PointSize(o.kind) /\ i <= m.cut
      /\ Readings = First(R, n - 1) \o ReadingsOf(o, L)
  BY Zenon DEF InObject
<1>3. i = Start(m, n + 1)
  BY <1>1, <1>2, Zenon DEF KnownAt
<1>4. R[n] = ReadingsOf(o, L) /\ R \in Seq(Seq(ReadingType)) /\ Len(R) = N
  BY <1>1, ReadAllType, Zenon
<1> HIDE DEF N, L, R
<1>5. ~(object.left > 0)
  BY <1>1, <1>2
<1>6. First(R, n) = First(R, n - 1) \o R[n]
  BY <1>1, <1>4, FirstMore, Zenon
<1>7. n + 1 \in 1..N + 1 /\ (n + 1) - 1 = n
  BY <1>1
<1>8. ASSUME EndObject PROVE AtObject(n + 1)'
  <2>1. mode' = "header" /\ message' = m /\ i' = i /\ points' = points
    BY <1>8, Zenon DEF EndObject
  <2>2. Readings' = First(R, n)
    BY <1>2, <1>4, <1>6, <2>1, Zenon DEF Readings
  <2>3. Known(m, (n + 1) - 1) /\ Readings' = First(R, (n + 1) - 1)
    BY <1>2, <1>7, <2>2, Zenon
  <2> QED
    BY <1>2, <1>3, <1>7, <2>1, <2>3, Zenon DEF AtObject, N, R
<1> QED
  BY <1>5, <1>8, Zenon DEF NextPoint

\* The next sample did not arrive whole: the parser has read all that arrived.
LEMMA SampleCut ==
    ASSUME Parsing, NEW n, NEW k, InObject(n, k), k < Len(message.objects[n].samples),
           ~(Body(message, n) + (k + 1) * PointSize(message.objects[n].kind) <= message.cut)
    PROVE  WhollyReceived(message) = Readings /\ ~Whole(message)
<1> DEFINE m == message
           o == m.objects[n]
           size == PointSize(o.kind)
<1> USE DEF Parsing
<1>1. /\ n \in 1..Len(m.objects) /\ k \in Nat
      /\ Body(m, n) \in Nat /\ (k + 1) * size \in Nat
  BY InObjectFacts, Zenon
<1>2. /\ Known(m, n) /\ i = Body(m, n) + k * size /\ i <= m.cut
      /\ Readings = First(ReadAll(m), n - 1) \o ReadingsOf(o, k)
  BY Zenon DEF InObject
<1>3. Body(m, n) + k * size <= m.cut
  BY <1>2, Zenon
<1>4. Body(m, n) + (k + 1) * size > m.cut
  <2> DEFINE x == (k + 1) * size
             b == Body(m, n)
  <2>1. x \in Nat /\ b \in Nat /\ m.cut \in Nat /\ ~(b + x <= m.cut)
    BY <1>1
  <2> HIDE DEF x, b
  <2>2. b + x > m.cut
    BY <2>1
  <2> QED
    BY <2>2 DEF x, b
<1>5. /\ WhollyReceived(m) = First(ReadAll(m), n - 1) \o ReadingsOf(o, k)
      /\ m.cut # Len(Fragment(m))
  BY <1>1, <1>2, <1>3, <1>4, WhollyIn, Zenon
<1> QED
  BY <1>2, <1>5, Zenon DEF Whole

\* Once all that arrived is read, it stays so.
LEMMA AllReadKept ==
    ASSUME Parsing, AllRead, [Next]_vars
    PROVE  AllRead'
<1> USE DEF Parsing
<1>1. WhollyReceived(message) \in Seq(ReadingType) /\ Len(WhollyReceived(message)) \in Nat
  <2>1. WhollyReceived(message) \in Seq(ReadingType)
    BY WhollyType, Zenon
  <2> QED
    BY <2>1, LenProperties
<1>2. message' = message
  BY DEF Next, Begin, BeginObject, StopParsing, NextPoint, EndObject, vars
<1>3. ASSUME Whole(message) PROVE UNCHANGED vars
  <2>1. mode = "done"
    BY <1>3, Zenon DEF AllRead
  <2> QED
    BY <2>1 DEF Next, Begin, BeginObject, StopParsing, NextPoint, EndObject
<1>4. points' = points \/ \E q \in Point : points' = Append(points, q)
  <2>1. CASE NextPoint
    <3> DEFINE n == Len(points)
    <3>1. PICK q : points' = Append(points, q)
      BY <2>1, Zenon DEF NextPoint
    <3>2. points \in Seq(Point) /\ points' \in Seq(Point)
      <4>1. ParserTypes'
        BY ParserKept, Zenon
      <4> QED
        BY <4>1, Zenon DEF ParserTypes
    <3>3. q \in Point
      <4>1. Len(points) + 1 \in 1..Len(points') /\ points'[Len(points) + 1] = q
        BY <3>1, <3>2
      <4> QED
        BY <3>2, <4>1, ElementOfSeq
    <3> QED
      BY <3>1, <3>3
  <2>2. CASE ~NextPoint
    BY <2>2 DEF Next, Begin, BeginObject, StopParsing, EndObject, vars
  <2> QED
    BY <2>1, <2>2
<1>5. IsPrefix(WhollyReceived(message), Readings)'
  <2>1. IsPrefix(WhollyReceived(message), Readings)
    BY Zenon DEF AllRead
  <2>2. CASE points' = points
    BY <1>2, <2>1, <2>2, Zenon DEF Readings
  <2>3. ASSUME NEW q \in Point, points' = Append(points, q)
        PROVE  IsPrefix(WhollyReceived(message), Readings)'
    <3>1. Readings' = Append(Readings, q.reading)
      BY <2>3, ReadingsAppend, Zenon DEF ParserTypes
    <3>2. Readings \in Seq(ReadingType) /\ q.reading \in ReadingType
      <4>1. Readings \in Seq(ReadingType)
        BY ReadingsAre, Zenon DEF ParserTypes
      <4>2. q.reading \in ReadingType
        BY DEF Point
      <4> QED
        BY <4>1, <4>2
    <3>3. IsPrefix(WhollyReceived(message), Append(Readings, q.reading))
      BY <1>1, <2>1, <3>2, PrefixKept, Zenon
    <3> QED
      BY <1>2, <3>1, <3>3, Zenon
  <2> QED
    BY <1>4, <2>2, <2>3, Zenon
<1>6. ASSUME Whole(message) PROVE mode' = "done" /\ Readings' = WhollyReceived(message)
  <2>1. mode' = mode /\ points' = points
    BY <1>3, <1>6 DEF vars
  <2> QED
    BY <1>6, <2>1, Zenon DEF AllRead, Readings
<1> QED
  BY <1>2, <1>5, <1>6, Zenon DEF AllRead

\* The first step: the frame is accepted, and the payload is what was sent.
LEMMA BeginFollows ==
    ASSUME ParserTypes, WellFormed(message), Answers(message), Following, Begin
    PROVE  Following'
<1> DEFINE m        == message
           stripped == strip_crc_blocks(SubSeq(data, 11, Len(data)))
<1>1. mode = "frame" /\ points = <<>> /\ data = Received(m)
  BY Zenon DEF Begin, Following
<1>2. /\ validate_header_crc(data) /\ m.cut \in Nat
      /\ Len(stripped) \in m.cut..m.cut + 2 /\ Len(stripped) >= 5
      /\ \A j \in 1..m.cut : stripped[j] = Fragment(m)[j]
      /\ stripped[3] \in {129, 130}
  <2> DEFINE Read(d) ==
         LET s == strip_crc_blocks(SubSeq(d, 11, Len(d)))
         IN  /\ validate_header_crc(d) /\ m.cut \in Nat
             /\ Len(s) \in m.cut..m.cut + 2 /\ Len(s) >= 5
             /\ \A j \in 1..m.cut : s[j] = Fragment(m)[j]
             /\ s[3] \in {129, 130}
  <2>1. Read(Received(m))
    BY FrameRead, Zenon
  <2> HIDE DEF Read
  <2>2. Read(data)
    BY <1>1, <2>1, Zenon
  <2> QED
    BY <2>2, Zenon DEF Read
<1>3. /\ app' = stripped /\ i' = 5 /\ mode' = "header"
      /\ message' = m /\ points' = points
  BY <1>2, Zenon DEF Begin, IsResponse
<1> HIDE DEF stripped
<1>4. Arrived'
  BY <1>2, <1>3, Zenon DEF Arrived
<1>5. /\ Start(m, 1) = 5 /\ Len(m.objects) \in Nat
  BY FragmentPlaces, Zenon
<1>6. 1 \in 1..Len(m.objects) + 1 /\ 1 - 1 = 0
  BY <1>5
<1>7. Known(m, 0)
  BY DEF Known
<1>8. Readings' = First(ReadAll(m), 0)
  <2>1. First(ReadAll(m), 0) = <<>>
    BY ReadAllType, FirstEnds, Zenon
  <2>2. points' = <<>>
    BY <1>1, <1>3
  <2>3. Readings' = <<>>
    BY <2>2 DEF Readings
  <2> QED
    BY <2>1, <2>3, Zenon
<1>9. 5 <= m.cut
  BY DEF Answers
<1>10. AtObject(1)'
  BY <1>3, <1>5, <1>6, <1>7, <1>8, <1>9, Zenon DEF AtObject
<1>11. mode' # "frame"
  BY <1>3
<1> QED
  BY <1>3, <1>4, <1>6, <1>10, <1>11, Zenon DEF Following

\* Every later step keeps the parser on its track.
LEMMA StepFollows ==
    ASSUME Parsing, Following, mode # "frame", [Next]_vars
    PROVE  Following'
<1> DEFINE m == message
           N == Len(m.objects)
<1>1. /\ message' = m /\ app' = app /\ mode' # "frame"
  BY DEF Next, Begin, BeginObject, StopParsing, NextPoint, EndObject, vars
<1>2. Arrived'
  <2>1. Arrived
    BY Zenon DEF Parsing
  <2> QED
    BY <1>1, <2>1, Zenon DEF Arrived
<1>3. N \in Nat
  BY FragmentPlaces, Zenon DEF Parsing
<1>4. \/ \E n \in 1..N + 1 : AtObject(n)'
      \/ \E n \in 1..N : \E k \in 0..Len(m.objects[n].samples) : InObject(n, k)'
      \/ AllRead'
  <2>1. CASE AllRead
    BY <2>1, AllReadKept, Zenon
  <2>2. CASE UNCHANGED vars
    <3>1. UNCHANGED <<message, mode, app, i, object, points>>
      BY <2>2 DEF vars
    <3>2. Readings' = Readings
      BY <3>1, Zenon DEF Readings
    <3>3. \A n : AtObject(n) => AtObject(n)'
      BY <3>1, <3>2, Zenon DEF AtObject
    <3>4. \A n, k : InObject(n, k) => InObject(n, k)'
      BY <3>1, <3>2, Zenon DEF InObject
    <3>5. AllRead => AllRead'
      BY <3>1, <3>2, Zenon DEF AllRead
    <3> QED
      BY <3>3, <3>4, <3>5, Zenon DEF Following
  <2>w. ASSUME WhollyReceived(m) = Readings, Readings' = Readings \/ NextPoint,
               Whole(m) => mode' = "done" /\ Readings' = Readings
        PROVE  AllRead'
    <3>1. Readings \in Seq(ReadingType) /\ Len(Readings) \in Nat
      <4>1. Readings \in Seq(ReadingType)
        BY ReadingsAre, Zenon DEF Parsing, ParserTypes
      <4> QED
        BY <4>1, LenProperties
    <3>2. IsPrefix(Readings, Readings)
      BY <3>1, PrefixOfItself, Zenon
    <3>3. CASE ~Whole(m)
      <4>1. AllRead
        BY <2>w, <3>2, <3>3, Zenon DEF AllRead
      <4> QED
        BY <4>1, AllReadKept, Zenon
    <3>4. CASE Whole(m)
      BY <1>1, <2>w, <3>2, <3>4, Zenon DEF AllRead
    <3> QED
      BY <3>3, <3>4
  <2>3. ASSUME NEW n \in 1..N + 1, AtObject(n), Next
        PROVE  (\E k \in 0..Len(m.objects[n].samples) : n \in 1..N /\ InObject(n, k)') \/ AllRead'
    <3>1. mode = "header"
      BY <2>3, Zenon DEF AtObject
    <3>2. (\E kind \in DOMAIN Kinds : BeginObject(kind)) \/ StopParsing
      BY <2>3, <3>1 DEF Next, Begin, NextPoint, EndObject
    <3>3. points' = points
      BY <3>2, Zenon DEF BeginObject, StopParsing
    <3>4. Readings' = Readings
      BY <3>3, Zenon DEF Readings
    <3>5. CASE NoObjectAt(m, n)
      <4>1. /\ WhollyReceived(m) = Readings
            /\ Whole(m) => \A kind \in DOMAIN Kinds : ~BeginObject(kind)
        BY <2>3, <3>5, AtNoObject, Zenon
      <4>2. Whole(m) => mode' = "done"
        BY <3>2, <4>1, Zenon DEF StopParsing
      <4> QED
        BY <2>w, <3>4, <4>1, <4>2, Zenon
    <3>6. CASE ~NoObjectAt(m, n)
      <4>1. InObject(n, 0)'
        BY <2>3, <3>2, <3>6, AtKnownObject, Zenon
      <4>2. n \in 1..N /\ 0 \in 0..Len(m.objects[n].samples)
        BY <1>1, <4>1, Zenon DEF InObject
      <4> QED
        BY <4>1, <4>2, Zenon
    <3> QED
      BY <3>5, <3>6
  <2>4. ASSUME NEW n \in 1..N, NEW k \in 0..Len(m.objects[n].samples), InObject(n, k), Next
        PROVE  \/ \E l \in 1..N + 1 : AtObject(l)'
               \/ \E l \in 0..Len(m.objects[n].samples) : InObject(n, l)'
               \/ AllRead'
    <3> DEFINE L == Len(m.objects[n].samples)
    <3>1. mode = "points" /\ k \in Nat /\ L \in Nat /\ k <= L
      BY <2>4, InObjectFacts, Zenon DEF InObject
    <3>2. NextPoint \/ EndObject
      BY <2>4, <3>1 DEF Next, Begin, BeginObject, StopParsing
    <3>3. CASE k = L
      <4>1. ~NextPoint /\ (EndObject => AtObject(n + 1)')
        BY <2>4, <3>3, ObjectRead, Zenon
      <4>2. n + 1 \in 1..N + 1
        <5> HIDE DEF N
        <5> QED
          BY <1>3
      <4> QED
        BY <3>2, <4>1, <4>2, Zenon
    <3>4. CASE k # L /\ Body(m, n) + (k + 1) * PointSize(m.objects[n].kind) <= m.cut
      <4>1. k < L /\ k + 1 \in 0..L
        <5> HIDE DEF L
        <5> QED
          BY <3>1, <3>4
      <4>2. InObject(n, k + 1)'
        BY <2>4, <3>2, <3>4, <4>1, SampleThere, Zenon
      <4> QED
        BY <4>1, <4>2, Zenon
    <3>5. CASE k # L /\ ~(Body(m, n) + (k + 1) * PointSize(m.objects[n].kind) <= m.cut)
      <4>1. k < L
        <5>1. k # L
          BY <3>5
        <5> HIDE DEF L
        <5> QED
          BY <3>1, <5>1
      <4>2. WhollyReceived(m) = Readings /\ ~Whole(m)
        BY <2>4, <3>5, <4>1, SampleCut, Zenon
      <4>3. Readings' = Readings \/ NextPoint
        BY <3>2, Zenon DEF EndObject, Readings
      <4> QED
        BY <2>w, <4>2, <4>3, Zenon
    <3> QED
      BY <3>3, <3>4, <3>5, Zenon
  <2>5. \/ \E n \in 1..N + 1 : AtObject(n)
        \/ \E n \in 1..N : \E k \in 0..Len(m.objects[n].samples) : InObject(n, k)
        \/ AllRead
    BY Zenon DEF Following
  <2> QED
    BY <2>1, <2>2, <2>3, <2>4, <2>5, Zenon
<1> QED
  BY <1>1, <1>2, <1>4, Zenon DEF Following

-----------------------------------------------------------------------------
(* The round trip.                                                         *)

\* The inductive invariant.
Kept == ParserTypes /\ CountsOf(points) /\ message \in Messages /\ OnTrack

\* Every step keeps it.
LEMMA KeptStep ==
    ASSUME Kept, [Next]_vars
    PROVE  Kept'
<1> USE DEF Kept
<1>1. ParserTypes' /\ CountsOf(points)'
  BY ParserKept, Zenon
<1>2. message' = message
  BY DEF Next, Begin, BeginObject, StopParsing, NextPoint, EndObject, vars
<1>3. ASSUME Answers(message) PROVE Following'
  <2>1. WellFormed(message) /\ Following
    BY <1>3, DeviceAssumption, Zenon DEF OnTrack
  <2>2. CASE mode = "frame"
    <3>1. CASE Begin
      BY <1>3, <2>1, <3>1, BeginFollows, Zenon
    <3>2. CASE ~Begin
      <4>1. UNCHANGED vars
        BY <2>2, <3>2 DEF Next, BeginObject, StopParsing, NextPoint, EndObject
      <4>2. mode' = mode /\ points' = points /\ data' = data
        BY <4>1 DEF vars
      <4> QED
        BY <1>2, <2>1, <2>2, <4>2, Zenon DEF Following
    <3> QED
      BY <3>1, <3>2
  <2>3. CASE mode # "frame"
    <3>1. Arrived
      BY <2>1, <2>3, Zenon DEF Following
    <3>2. message.cut \in Nat
      BY <1>3, <2>1, FrameRead, Zenon
    <3> QED
      BY <1>3, <2>1, <2>3, <3>1, <3>2, StepFollows, Zenon DEF Parsing
  <2> QED
    BY <2>2, <2>3
<1> QED
  BY <1>1, <1>2, <1>3, Zenon DEF OnTrack

\* So it holds from the start on.
LEMMA KeptInvariant == Spec => []Kept
<1>1. Init => Kept
  <2> SUFFICES ASSUME Init PROVE Kept
    OBVIOUS
  <2>1. ParserTypes /\ CountsOf(points)
    <3>1. data \in Seq(Byte)
      BY BytesAssumption DEF Init
    <3>2. NoObject \in [kind : DOMAIN Kinds, next : Nat, left : Int]
      BY KindFacts DEF NoObject
    <3> QED
      BY <3>1, <3>2 DEF Init, ParserTypes, CountsOf
  <2> QED
    BY <2>1 DEF Kept, OnTrack, Following, Init
<1> QED
  BY <1>1, KeptStep, PTL DEF Spec

\* At the end all that arrived has been read.
LEMMA DoneAllRead ==
    ASSUME Kept, mode = "done", Answers(message)
    PROVE  AllRead
<1>1. Following /\ mode # "frame" /\ mode # "header" /\ mode # "points"
  BY DEF Kept, OnTrack
<1> QED
  BY <1>1, Zenon DEF Following, AtObject, InObject

\* Whatever a DNP3 device answers, however long, and wherever the line cuts it off:
\* the readings that arrived whole are parsed, each as it was sent and in order,
\* before anything else becomes a point (rwk35.py:75-82, 203-456).
THEOREM CutKeepsWhatArrived == Spec => []CutKeepsPoints
<1>1. Kept => CutKeepsPoints
  BY DoneAllRead, Zenon DEF CutKeepsPoints, AllRead
<1> QED
  BY <1>1, KeptInvariant, PTL

\* Whatever a DNP3 device answers in one frame, with any objects, samples and values:
\* the points are the readings it encoded, no CRC byte becomes one, and each index
\* counts its own reports and changes (rwk35.py:37-82, 203-456).
THEOREM ParsedAsSent == Spec => []Faithful
<1>1. Kept => Faithful
  <2> SUFFICES ASSUME Kept, mode = "done", Whole(message)
               PROVE  Readings = WhollyReceived(message) /\ CountedByIndex
    BY Zenon DEF Faithful
  <2>1. AllRead
    BY DoneAllRead, Zenon DEF Whole
  <2>2. CountedByIndex
    BY DEF Kept, ParserTypes, CountsOf, CountedByIndex
  <2> QED
    BY <2>1, <2>2, Zenon DEF AllRead
<1> QED
  BY <1>1, KeptInvariant, PTL
=============================================================================
