---------------------------- MODULE BlockAckProofs ----------------------------
(***************************************************************************)
(* Proofs about BlockAck for any number of frames, any space of sequence   *)
(* numbers, any window of less than a quarter of it, and any retry limit.  *)
(*                                                                         *)
(* Frames are integers, and the code knows only their remainders.  The     *)
(* invariant gives each of the three windows the frame it starts with: a   *)
(* for the originator's, b for the reordering buffer, c for the            *)
(* scoreboard.  All three stay so close to the next frame that a remainder *)
(* tells which frame is meant.                                             *)
(***************************************************************************)
EXTENDS BlockAckProperties, NumberLemmas, FiniteSetTheorems, SequenceTheorems

(* With a quarter a request can be half the space ahead of the scoreboard. *)
NarrowWindow == 4 * WinSize < SEQNO_SPACE_SIZE

Windows == [m_winStart : SeqNumbers, set : SUBSET (0 .. WinSize - 1)]

StartsAt(window, start) == window.m_winStart = GetSequenceNumber(start)

-------------------------------------------------------------------------------
(* Sequence numbers. *)

LEMMA SpaceFacts ==
  /\ WinSize \in Nat /\ WinSize > 0
  /\ SEQNO_SPACE_SIZE \in Nat \ {0}
  /\ SEQNO_SPACE_HALF_SIZE \in Nat /\ 2 * SEQNO_SPACE_HALF_SIZE = SEQNO_SPACE_SIZE
  /\ 2 * WinSize <= SEQNO_SPACE_HALF_SIZE
  /\ NarrowWindow => 2 * WinSize < SEQNO_SPACE_HALF_SIZE
  /\ StartingSeq \in Nat
BY SpaceAssumption, FramesAssumption DEF SEQNO_SPACE_HALF_SIZE, NarrowWindow, SeqNumbers

LEMMA NumberIsNumber ==
  ASSUME NEW x \in Nat
  PROVE  GetSequenceNumber(x) \in SeqNumbers
BY SpaceFacts, Division DEF GetSequenceNumber, SeqNumbers

LEMMA DistanceOf ==
  ASSUME NEW x \in Nat, NEW y \in Nat, NEW d \in 0 .. SEQNO_SPACE_SIZE - 1, NEW k \in Nat,
         x - y = d - k * SEQNO_SPACE_SIZE, k <= 1
  PROVE  GetDistance(GetSequenceNumber(x), GetSequenceNumber(y)) = d
<1> DEFINE n == SEQNO_SPACE_SIZE
           p == x \div n
           q == y \div n
           r == x % n
           s == y % n
<1>1. n \in Nat \ {0}
  BY SpaceFacts
<1> HIDE DEF n
<1>2. p \in Nat /\ r \in 0 .. n - 1 /\ x = p * n + r
  BY <1>1, Division
<1>3. q \in Nat /\ s \in 0 .. n - 1 /\ y = q * n + s
  BY <1>1, Division
<1> HIDE DEF p, q, r, s
<1> DEFINE v == r - s + n
           t == q - p + 1 - k
<1>4. v \in Nat /\ t \in Int
  BY <1>1, <1>2, <1>3
<1>5. x - y = d - k * n /\ d \in 0 .. n - 1
  BY DEF n
<1>6. p * n \in Nat /\ q * n \in Nat /\ k * n \in Nat
  BY <1>1, <1>2, <1>3
<1>7. t * n = q * n - p * n + n - k * n
  BY <1>1, <1>2, <1>3
<1>8. v = t * n + d
  BY <1>1, <1>2, <1>3, <1>5, <1>6, <1>7
<1> HIDE DEF v, t
<1>9. v % n = d
  BY <1>1, <1>4, <1>5, <1>8, Quotient
<1> QED
  BY <1>9 DEF v, n, r, s, GetDistance, GetSequenceNumber

(* The distance to a frame that is not before the other. *)
LEMMA DistanceAhead ==
  ASSUME NEW x \in Nat, NEW y \in Nat, y <= x, x < y + SEQNO_SPACE_SIZE
  PROVE  GetDistance(GetSequenceNumber(x), GetSequenceNumber(y)) = x - y
<1>1. x - y \in 0 .. SEQNO_SPACE_SIZE - 1 /\ 0 * SEQNO_SPACE_SIZE = 0
  BY SpaceFacts
<1> QED
  BY <1>1, DistanceOf

(* The distance to a frame that is before it. *)
LEMMA DistanceBehind ==
  ASSUME NEW x \in Nat, NEW y \in Nat, x < y, y <= x + SEQNO_SPACE_SIZE
  PROVE  GetDistance(GetSequenceNumber(x), GetSequenceNumber(y)) = x - y + SEQNO_SPACE_SIZE
<1> DEFINE d == x - y + SEQNO_SPACE_SIZE
<1>1. /\ d \in 0 .. SEQNO_SPACE_SIZE - 1 /\ 1 * SEQNO_SPACE_SIZE = SEQNO_SPACE_SIZE
      /\ x - y = d - 1 * SEQNO_SPACE_SIZE
  BY SpaceFacts
<1> HIDE DEF d
<1>2. GetDistance(GetSequenceNumber(x), GetSequenceNumber(y)) = d
  BY <1>1, DistanceOf
<1> QED
  BY <1>2 DEF d

(* What is old, of two frames that are less than half the space apart. *)
LEMMA OldIsBefore ==
  ASSUME NEW x \in Nat, NEW y \in Nat,
         x < y + SEQNO_SPACE_HALF_SIZE, y <= x + SEQNO_SPACE_HALF_SIZE
  PROVE  IsOld(GetSequenceNumber(x), GetSequenceNumber(y)) <=> x < y
<1>1. CASE x < y
  BY <1>1, SpaceFacts, DistanceBehind DEF IsOld
<1>2. CASE y <= x
  BY <1>2, SpaceFacts, DistanceAhead DEF IsOld
<1> QED
  BY <1>1, <1>2

LEMMA SameNumber ==
  ASSUME NEW x \in Nat, NEW y \in Nat, GetSequenceNumber(x) = GetSequenceNumber(y),
         x < y + SEQNO_SPACE_SIZE, y < x + SEQNO_SPACE_SIZE
  PROVE  x = y
<1>1. /\ SEQNO_SPACE_SIZE \in Nat \ {0} /\ SEQNO_SPACE_SIZE \in Nat
      /\ x % SEQNO_SPACE_SIZE = y % SEQNO_SPACE_SIZE
  BY SpaceFacts DEF GetSequenceNumber
<1>2. CASE x <= y
  BY <1>1, <1>2, SameRemainder
<1>3. CASE y <= x
  BY <1>1, <1>3, SameRemainder
<1> QED
  BY <1>2, <1>3

LEMMA NumberOfSum ==
  ASSUME NEW x \in Nat, NEW k \in Nat
  PROVE  (GetSequenceNumber(x) + k) % SEQNO_SPACE_SIZE = GetSequenceNumber(x + k)
BY SpaceFacts, RemainderOfSum DEF GetSequenceNumber

-------------------------------------------------------------------------------
(* Windows. *)

LEMMA NewWindowStarts ==
  ASSUME NEW a \in Nat
  PROVE  /\ NewWindow(GetSequenceNumber(a)) \in Windows
         /\ StartsAt(NewWindow(GetSequenceNumber(a)), a)
         /\ NewWindow(GetSequenceNumber(a)).set = {}
BY NumberIsNumber DEF NewWindow, Windows, StartsAt

LEMMA MarkDoes ==
  ASSUME NEW w \in Windows, NEW d \in 0 .. WinSize - 1
  PROVE  /\ Mark(w, d) \in Windows
         /\ Mark(w, d).m_winStart = w.m_winStart
         /\ Mark(w, d).set = w.set \cup {d}
BY DEF Mark, Windows

LEMMA AdvanceDoes ==
  ASSUME NEW a \in Nat, NEW w \in Windows, StartsAt(w, a), NEW count \in Nat
  PROVE  /\ Advance(w, count) \in Windows
         /\ StartsAt(Advance(w, count), a + count)
         /\ \A d \in Nat : d \in Advance(w, count).set <=> d + count \in w.set
<1>1. /\ w.set \subseteq 0 .. WinSize - 1
      /\ (w.m_winStart + count) % SEQNO_SPACE_SIZE = GetSequenceNumber(a + count)
      /\ GetSequenceNumber(a + count) \in SeqNumbers
  <2>1. w.m_winStart = GetSequenceNumber(a) /\ w.set \subseteq 0 .. WinSize - 1
    BY DEF Windows, StartsAt
  <2>2. a + count \in Nat
    OBVIOUS
  <2> QED
    BY <2>1, <2>2, NumberOfSum, NumberIsNumber
<1>2. CASE count >= WinSize
  BY <1>1, <1>2, SpaceFacts DEF Advance, Windows, NewWindow, StartsAt
<1>3. CASE ~(count >= WinSize)
  <2> DEFINE s == {d - count : d \in {e \in w.set : e >= count}}
  <2>1. s \subseteq 0 .. WinSize - 1
    BY <1>1, SpaceFacts
  <2>2. \A d \in Nat : d \in s <=> d + count \in w.set
    BY <1>1, SpaceFacts
  <2>3. Advance(w, count) = [m_winStart |-> GetSequenceNumber(a + count), set |-> s]
    BY <1>1, <1>3 DEF Advance
  <2> HIDE DEF s
  <2> QED
    BY <1>1, <2>1, <2>2, <2>3 DEF Windows, StartsAt
<1> QED
  BY <1>2, <1>3

(* Of bits there is a first that is not set. *)
LEMMA FirstUnset ==
  ASSUME NEW s \in SUBSET Nat, NEW k \in Nat, \E l \in 0 .. k : l \notin s
  PROVE  LET n == CHOOSE n \in 0 .. k : 0 .. n - 1 \subseteq s /\ n \notin s
         IN  n \in 0 .. k /\ 0 .. n - 1 \subseteq s /\ n \notin s
<1>1. PICK n \in {x \in Nat : x \notin s} : \A y \in {x \in Nat : x \notin s} : n <= y
  <2> DEFINE U == {x \in Nat : x \notin s}
  <2>1. U \in SUBSET Nat /\ U # {}
    OBVIOUS
  <2> HIDE DEF U
  <2>2. \E x \in U : \A y \in U : x <= y
    BY <2>1, LeastNumber
  <2> QED
    BY <2>2 DEF U
<1>2. n \in 0 .. k /\ 0 .. n - 1 \subseteq s /\ n \notin s
  BY <1>1
<1> QED
  BY <1>2

LEMMA AdvanceTxDoes ==
  ASSUME NEW a \in Nat, NEW w \in Windows, StartsAt(w, a)
  PROVE  \E n \in 0 .. WinSize :
            /\ 0 .. n - 1 \subseteq w.set
            /\ AdvanceTxWindow(w) \in Windows
            /\ StartsAt(AdvanceTxWindow(w), a + n)
            /\ \A d \in Nat : d \in AdvanceTxWindow(w).set <=> d + n \in w.set
<1> DEFINE n == CHOOSE n \in 0 .. WinSize : 0 .. n - 1 \subseteq w.set /\ n \notin w.set
<1>1. /\ w.set \in SUBSET Nat /\ WinSize \in Nat
      /\ WinSize \in 0 .. WinSize /\ WinSize \notin w.set
  BY SpaceFacts DEF Windows
<1>2. n \in 0 .. WinSize /\ 0 .. n - 1 \subseteq w.set
  BY <1>1, FirstUnset
<1>3. AdvanceTxWindow(w) = Advance(w, n)
  BY DEF AdvanceTxWindow
<1> HIDE DEF n
<1>4. n \in Nat
  BY <1>2
<1> QED
  BY <1>2, <1>3, <1>4, AdvanceDoes

-------------------------------------------------------------------------------
(* Sequences of frames. *)

IsAscending(s) == \A i, j \in DOMAIN s : i < j => s[i] < s[j]

LEMMA SetOfSeq ==
  ASSUME NEW s \in Seq(Nat)
  PROVE  /\ Len(s) \in Nat /\ DOMAIN s = 1 .. Len(s)
         /\ \A i \in 1 .. Len(s) : s[i] \in Nat /\ s[i] \in ToSet(s)
         /\ ToSet(s) \in SUBSET Nat
         /\ \A m \in ToSet(s) : \E i \in 1 .. Len(s) : m = s[i]
         /\ s = <<>> <=> ToSet(s) = {}
<1>1. Len(s) \in Nat /\ DOMAIN s = 1 .. Len(s) /\ s \in [1 .. Len(s) -> Nat]
  BY LenProperties
<1>2. s = <<>> <=> Len(s) = 0
  BY EmptySeq
<1>3. ToSet(s) = {s[i] : i \in 1 .. Len(s)}
  BY ONLY <1>1 DEF ToSet
<1>4. \A i \in 1 .. Len(s) : s[i] \in Nat
  BY <1>1
<1> HIDE DEF ToSet
<1>5. s = <<>> <=> ToSet(s) = {}
  <2>1. CASE Len(s) = 0
    <3>1. 1 .. Len(s) = {}
      BY <2>1
    <3> QED
      BY <1>2, <1>3, <2>1, <3>1
  <2>2. CASE Len(s) # 0
    <3>1. 1 \in 1 .. Len(s)
      BY <1>1, <2>2
    <3> QED
      BY <1>2, <1>3, <2>2, <3>1
  <2> QED
    BY <2>1, <2>2
<1> QED
  BY ONLY <1>1, <1>3, <1>4, <1>5

LEMMA NoFrames ==
  <<>> \in Seq(Nat) /\ ToSet(<<>>) = {} /\ IsAscending(<<>>)
<1>1. <<>> \in Seq(Nat)
  OBVIOUS
<1>2. ToSet(<<>>) = {}
  BY <1>1, SetOfSeq
<1> QED
  BY <1>1, <1>2 DEF IsAscending

LEMMA OneFrame ==
  ASSUME NEW s \in Seq(Nat), Len(s) = 1
  PROVE  ToSet(s) = {s[1]} /\ Head(s) = s[1] /\ s[1] \in Nat /\ s = <<s[1]>>
<1>1. \A i \in 1 .. Len(s) : i = 1
  OBVIOUS
<1>2. 1 \in 1 .. Len(s)
  OBVIOUS
<1>3. s[1] \in ToSet(s) /\ s[1] \in Nat
  BY <1>2, SetOfSeq
<1>4. \A m \in ToSet(s) : m = s[1]
  BY <1>1, SetOfSeq
<1>5. ToSet(s) = {s[1]}
  BY <1>3, <1>4
<1> QED
  BY <1>3, <1>5

(* InOrder enumerates a set: its frames are told apart by their places. *)
LEMMA InOrderSorts ==
  ASSUME NEW S \in SUBSET Nat, IsFiniteSet(S), NEW p \in [S -> Int],
         \A k, m \in S : p[k] = p[m] => k = m,
         NEW s, s = InOrder(S, p)
  PROVE  /\ s \in Seq(Nat) /\ ToSet(s) = S
         /\ \A i, j \in 1 .. Len(s) : i < j => p[s[i]] < p[s[j]]
<1>0. s = [i \in 1 .. Cardinality(S) |->
              CHOOSE m \in S : Cardinality({k \in S : p[k] < p[m]}) = i - 1]
  BY DEF InOrder
<1> DEFINE N == Cardinality(S)
           Below(m) == {k \in S : p[k] < p[m]}
           rank == [m \in S |-> Cardinality(Below(m))]
<1>1. N \in Nat
  BY FS_CardinalityType
<1>2. ASSUME NEW m \in S
      PROVE  IsFiniteSet(Below(m)) /\ Cardinality(Below(m)) \in 0 .. N - 1
  <2>1. Below(m) \subseteq S /\ m \notin Below(m)
    OBVIOUS
  <2> HIDE DEF Below
  <2>2. IsFiniteSet(Below(m)) /\ Cardinality(Below(m)) <= N /\ Cardinality(Below(m)) # N
    BY <2>1, FS_Subset
  <2>3. Cardinality(Below(m)) \in Nat
    BY <2>2, FS_CardinalityType
  <2> QED
    BY <1>1, <2>2, <2>3
<1>3. ASSUME NEW k \in S, NEW m \in S, p[k] < p[m]
      PROVE  Cardinality(Below(k)) < Cardinality(Below(m))
  <2>1. Below(k) \subseteq Below(m) /\ k \notin Below(k) /\ k \in Below(m)
    <3>1. ASSUME NEW n \in S, p[n] < p[k] PROVE p[n] < p[m]
      <4>1. p[n] \in Int /\ p[k] \in Int /\ p[m] \in Int
        OBVIOUS
      <4> QED
        BY ONLY <1>3, <3>1, <4>1
    <3>2. ~(p[k] < p[k])
      <4>1. p[k] \in Int
        OBVIOUS
      <4> QED
        BY ONLY <4>1
    <3> QED
      BY <1>3, <3>1, <3>2
  <2> HIDE DEF Below
  <2>2. /\ Cardinality(Below(k)) <= Cardinality(Below(m))
        /\ Cardinality(Below(k)) # Cardinality(Below(m))
    BY <1>2, <2>1, FS_Subset
  <2> QED
    BY <1>2, <2>2
<1>4. rank \in [S -> 0 .. N - 1]
  BY <1>2
<1>5. \A k, m \in S : rank[k] = rank[m] => k = m
  <2> SUFFICES ASSUME NEW k \in S, NEW m \in S, k # m PROVE rank[k] # rank[m]
    OBVIOUS
  <2>1. p[k] \in Int /\ p[m] \in Int /\ p[k] # p[m]
    OBVIOUS
  <2>2. rank[k] = Cardinality(Below(k)) /\ rank[m] = Cardinality(Below(m))
    OBVIOUS
  <2> HIDE DEF Below, rank
  <2> QED
    BY <1>2, <1>3, <2>1, <2>2
<1>6. \A k, m \in S : p[k] < p[m] <=> rank[k] < rank[m]
  <2> TAKE k \in S, m \in S
  <2>1. p[k] \in Int /\ p[m] \in Int /\ (p[k] = p[m] => k = m)
    OBVIOUS
  <2>2. rank[k] = Cardinality(Below(k)) /\ rank[m] = Cardinality(Below(m))
    OBVIOUS
  <2> HIDE DEF Below, rank
  <2>3. rank[k] \in Int /\ rank[m] \in Int
    BY <1>2, <2>2
  <2>4. p[k] < p[m] => rank[k] < rank[m]
    BY <1>3, <2>2
  <2>5. p[m] < p[k] => rank[m] < rank[k]
    BY <1>3, <2>2
  <2> QED
    BY ONLY <2>1, <2>3, <2>4, <2>5
<1>7. \A i \in 0 .. N - 1 : \E m \in S : rank[m] = i
  <2>1. IsFiniteSet(0 .. N - 1) /\ Cardinality(0 .. N - 1) = N
    <3>1. 0 \in Int /\ N - 1 \in Int /\ N \in Nat
      BY <1>1
    <3> HIDE DEF N
    <3>2. /\ IsFiniteSet(0 .. N - 1)
          /\ Cardinality(0 .. N - 1) = IF 0 > N - 1 THEN 0 ELSE N - 1 - 0 + 1
      BY ONLY <3>1, FS_Interval
    <3> QED
      BY ONLY <3>1, <3>2
  <2>2. rank \in Injection(S, 0 .. N - 1)
    BY <1>4, <1>5 DEF Injection, IsInjective
  <2> HIDE DEF rank
  <2>3. rank \in Surjection(S, 0 .. N - 1)
    BY <2>1, <2>2, FS_Injection
  <2> QED
    BY <2>3 DEF Surjection
<1>8. ASSUME NEW i \in 1 .. N PROVE s[i] \in S /\ rank[s[i]] = i - 1
  <2>1. s[i] = CHOOSE m \in S : Cardinality(Below(m)) = i - 1
    BY <1>0
  <2>2. i - 1 \in 0 .. N - 1
    BY <1>1
  <2>3. \E m \in S : Cardinality(Below(m)) = i - 1
    BY <1>7, <2>2
  <2> QED
    BY <2>1, <2>3
<1>9. DOMAIN s = 1 .. N /\ s \in [1 .. N -> Nat]
  <2>1. \E f : s = [i \in 1 .. N |-> f[i]]
    <3> DEFINE e(i) == CHOOSE m \in S : Cardinality(Below(m)) = i - 1
               f == [i \in 1 .. N |-> e(i)]
    <3>1. s = f
      BY <1>0
    <3> HIDE DEF e
    <3>2. f = [i \in 1 .. N |-> f[i]]
      OBVIOUS
    <3> HIDE DEF f, N
    <3>3. s = [i \in 1 .. N |-> f[i]]
      BY ONLY <3>1, <3>2
    <3> QED
      BY ONLY <3>3
  <2>2. PICK f : s = [i \in 1 .. N |-> f[i]]
    BY <2>1
  <2>3. \A i \in 1 .. N : s[i] \in Nat
    BY <1>8
  <2> QED
    BY ONLY <2>2, <2>3
<1>10. s \in Seq(Nat) /\ Len(s) = N
  BY ONLY <1>1, <1>9
<1>r. \A m \in S : rank[m] \in 0 .. N - 1
  BY <1>4
<1> HIDE DEF rank
<1>11. ToSet(s) = S
  <2>1. \A m \in S : \E i \in 1 .. N : s[i] = m
    <3> TAKE m \in S
    <3>1. rank[m] + 1 \in 1 .. N /\ (rank[m] + 1) - 1 = rank[m]
      BY <1>1, <1>r
    <3>2. s[rank[m] + 1] \in S /\ rank[s[rank[m] + 1]] = rank[m]
      BY <1>8, <3>1
    <3> QED
      BY <1>5, <3>1, <3>2
  <2>2. ToSet(s) = {s[i] : i \in 1 .. N}
    BY ONLY <1>9 DEF ToSet
  <2> QED
    BY ONLY <1>8, <2>1, <2>2
<1>12. \A i, j \in 1 .. Len(s) : i < j => p[s[i]] < p[s[j]]
  <2> SUFFICES ASSUME NEW i \in 1 .. N, NEW j \in 1 .. N, i < j PROVE p[s[i]] < p[s[j]]
    BY <1>10
  <2>1. i - 1 < j - 1
    BY <1>1
  <2>2. s[i] \in S /\ s[j] \in S /\ rank[s[i]] < rank[s[j]]
    BY <1>8, <2>1
  <2> QED
    BY ONLY <1>6, <2>2
<1> QED
  BY <1>10, <1>11, <1>12

LEMMA SliceOfAscending ==
  ASSUME NEW s \in Seq(Nat), IsAscending(s),
         NEW i \in 1 .. Len(s) + 1, NEW j \in i - 1 .. Len(s)
  PROVE  /\ SubSeq(s, i, j) \in Seq(Nat) /\ IsAscending(SubSeq(s, i, j))
         /\ Len(SubSeq(s, i, j)) = j - i + 1
         /\ \A k \in 1 .. j - i + 1 : SubSeq(s, i, j)[k] = s[i + k - 1]
         /\ ToSet(SubSeq(s, i, j)) = {s[k] : k \in i .. j}
<1> DEFINE t == SubSeq(s, i, j)
<1>0. Len(s) \in Nat /\ DOMAIN s = 1 .. Len(s) /\ \A k \in 1 .. Len(s) : s[k] \in Nat
  BY SetOfSeq
<1>a. i \in Int /\ j \in Int /\ \A k \in i .. j : s[k] \in Nat
  BY <1>0
<1>1. /\ t \in Seq(Nat) /\ Len(t) = j - i + 1
      /\ \A k \in 1 .. j - i + 1 : t[k] = s[i + k - 1]
  <2>1. /\ t \in Seq(Nat)
        /\ Len(t) = IF i <= j THEN j - i + 1 ELSE 0
        /\ \A k \in 1 .. j - i + 1 : t[k] = s[i + k - 1]
    BY <1>a, SubSeqProperties
  <2> HIDE DEF t
  <2> QED
    BY <1>0, <2>1
<1> HIDE DEF t
<1>2. DOMAIN t = 1 .. j - i + 1 /\ ToSet(t) = {t[k] : k \in 1 .. j - i + 1}
  BY <1>1, SetOfSeq DEF ToSet
<1>3. IsAscending(t)
  <2> SUFFICES ASSUME NEW k \in 1 .. j - i + 1, NEW l \in 1 .. j - i + 1, k < l
               PROVE  t[k] < t[l]
    BY <1>2 DEF IsAscending
  <2>1. i + k - 1 \in 1 .. Len(s) /\ i + l - 1 \in 1 .. Len(s) /\ i + k - 1 < i + l - 1
    BY <1>0
  <2>2. s[i + k - 1] < s[i + l - 1]
    BY <1>0, <2>1 DEF IsAscending
  <2> QED
    BY <1>1, <2>2
<1>4. ToSet(t) = {s[k] : k \in i .. j}
  <2>1. \A k \in 1 .. j - i + 1 : i + k - 1 \in i .. j
    BY <1>0
  <2>2. \A l \in i .. j : l - i + 1 \in 1 .. j - i + 1 /\ i + (l - i + 1) - 1 = l
    BY <1>0
  <2>3. \A k \in 1 .. j - i + 1 : t[k] \in {s[l] : l \in i .. j}
    BY <1>1, <2>1
  <2>4. \A l \in i .. j : s[l] = t[l - i + 1]
    BY <1>1, <2>2
  <2>5. \A x \in ToSet(t) : x \in {s[l] : l \in i .. j}
    BY ONLY <1>2, <2>3
  <2>6. \A l \in i .. j : s[l] \in ToSet(t)
    BY ONLY <1>2, <2>2, <2>4
  <2> QED
    BY ONLY <2>5, <2>6
<1> QED
  BY <1>1, <1>3, <1>4 DEF t

LEMMA JoinAscending ==
  ASSUME NEW s \in Seq(Nat), IsAscending(s), NEW t \in Seq(Nat), IsAscending(t),
         \A x \in ToSet(s), y \in ToSet(t) : x < y
  PROVE  /\ s \o t \in Seq(Nat) /\ IsAscending(s \o t)
         /\ ToSet(s \o t) = ToSet(s) \cup ToSet(t)
<1> DEFINE u == s \o t
<1>1. /\ u \in Seq(Nat) /\ Len(u) = Len(s) + Len(t)
      /\ \A i \in 1 .. Len(s) + Len(t) : u[i] = IF i <= Len(s) THEN s[i] ELSE t[i - Len(s)]
  BY ConcatProperties
<1> HIDE DEF u
<1>2. /\ Len(s) \in Nat /\ Len(t) \in Nat
      /\ DOMAIN s = 1 .. Len(s) /\ DOMAIN t = 1 .. Len(t) /\ DOMAIN u = 1 .. Len(u)
      /\ \A i \in 1 .. Len(s) : s[i] \in ToSet(s)
      /\ \A i \in 1 .. Len(t) : t[i] \in ToSet(t)
  BY <1>1, SetOfSeq
<1>3. IsAscending(u)
  <2> SUFFICES ASSUME NEW i \in 1 .. Len(s) + Len(t), NEW j \in 1 .. Len(s) + Len(t), i < j
               PROVE  u[i] < u[j]
    BY <1>1, <1>2 DEF IsAscending
  <2>1. CASE j <= Len(s)
    <3>1. i \in 1 .. Len(s) /\ j \in 1 .. Len(s) /\ u[i] = s[i] /\ u[j] = s[j]
      BY <1>1, <1>2, <2>1
    <3> QED
      BY <1>2, <3>1 DEF IsAscending
  <2>2. CASE i <= Len(s) /\ ~(j <= Len(s))
    <3>1. i \in 1 .. Len(s) /\ j - Len(s) \in 1 .. Len(t) /\ u[i] = s[i] /\ u[j] = t[j - Len(s)]
      BY <1>1, <1>2, <2>2
    <3> QED
      BY <1>2, <3>1
  <2>3. CASE ~(i <= Len(s))
    <3>1. /\ i - Len(s) \in 1 .. Len(t) /\ j - Len(s) \in 1 .. Len(t)
          /\ i - Len(s) < j - Len(s)
          /\ u[i] = t[i - Len(s)] /\ u[j] = t[j - Len(s)]
      <4>1. Len(s) \in Nat /\ Len(t) \in Nat
        BY <1>2
      <4>2. ~(i <= Len(s)) /\ ~(j <= Len(s))
        BY <2>3, <4>1
      <4>3. /\ i - Len(s) \in 1 .. Len(t) /\ j - Len(s) \in 1 .. Len(t)
            /\ i - Len(s) < j - Len(s)
        BY ONLY <4>1, <4>2, i \in 1 .. Len(s) + Len(t), j \in 1 .. Len(s) + Len(t), i < j
      <4>4. u[i] = t[i - Len(s)] /\ u[j] = t[j - Len(s)]
        BY ONLY <1>1, <4>2, i \in 1 .. Len(s) + Len(t), j \in 1 .. Len(s) + Len(t)
      <4> QED
        BY <4>3, <4>4
    <3> QED
      BY <1>2, <3>1 DEF IsAscending
  <2> QED
    BY <1>2, <2>1, <2>2, <2>3
<1>4. ToSet(u) = ToSet(s) \cup ToSet(t)
  <2>1. /\ ToSet(u) = {u[i] : i \in 1 .. Len(s) + Len(t)}
        /\ ToSet(s) = {s[i] : i \in 1 .. Len(s)} /\ ToSet(t) = {t[i] : i \in 1 .. Len(t)}
    BY <1>1, <1>2 DEF ToSet
  <2>2. \A i \in 1 .. Len(s) + Len(t) : u[i] \in ToSet(s) \cup ToSet(t)
    <3> TAKE i \in 1 .. Len(s) + Len(t)
    <3>1. CASE i <= Len(s)
      BY <1>1, <1>2, <3>1
    <3>2. CASE ~(i <= Len(s))
      <4>1. i - Len(s) \in 1 .. Len(t)
        BY <1>2, <3>2
      <4> QED
        BY <1>1, <1>2, <3>2, <4>1
    <3> QED
      BY <3>1, <3>2
  <2>3. \A i \in 1 .. Len(s) : i \in 1 .. Len(s) + Len(t) /\ s[i] = u[i]
    BY <1>1, <1>2
  <2>4. \A i \in 1 .. Len(t) : Len(s) + i \in 1 .. Len(s) + Len(t) /\ t[i] = u[Len(s) + i]
    <3> TAKE i \in 1 .. Len(t)
    <3>1. /\ Len(s) + i \in 1 .. Len(s) + Len(t) /\ ~(Len(s) + i <= Len(s))
          /\ (Len(s) + i) - Len(s) = i
      BY <1>2
    <3> QED
      BY <1>1, <3>1
  <2> QED
    BY <2>1, <2>2, <2>3, <2>4
<1> QED
  BY <1>1, <1>3, <1>4 DEF u

(* The first of a set of indices. *)
LEMMA MinOfIndices ==
  ASSUME NEW I \in SUBSET Nat, I # {}
  PROVE  Min(I) \in I /\ \A i \in I : Min(I) <= i
<1>1. \E x \in I : \A y \in I : x <= y
  BY LeastNumber
<1> QED
  BY <1>1 DEF Min

(* What is left of a sequence from the first frame that is not before a. *)
FirstFrom(s, a) ==
    LET I == {i \in 1 .. Len(s) : s[i] >= a} IN IF I # {} THEN Min(I) ELSE 0
Cut(s, first) == IF first = 0 THEN <<>> ELSE SubSeq(s, first, Len(s))

LEMMA CutDoes ==
  ASSUME NEW s \in Seq(Nat), IsAscending(s), NEW a \in Nat
  PROVE  LET kept == Cut(s, FirstFrom(s, a))
         IN  /\ kept \in Seq(Nat) /\ IsAscending(kept)
             /\ ToSet(kept) = {m \in ToSet(s) : m >= a}
<1> DEFINE I == {i \in 1 .. Len(s) : s[i] >= a}
           young == FirstFrom(s, a)
           kept == Cut(s, young)
<1>a. young = IF I # {} THEN Min(I) ELSE 0
  BY DEF FirstFrom
<1>b. kept = IF young = 0 THEN <<>> ELSE SubSeq(s, young, Len(s))
  BY DEF Cut
<1> SUFFICES /\ kept \in Seq(Nat) /\ IsAscending(kept)
             /\ ToSet(kept) = {m \in ToSet(s) : m >= a}
  OBVIOUS
<1> HIDE DEF young, kept
<1>0. /\ Len(s) \in Nat /\ DOMAIN s = 1 .. Len(s)
      /\ \A i \in 1 .. Len(s) : s[i] \in Nat
      /\ ToSet(s) = {s[i] : i \in 1 .. Len(s)}
  BY SetOfSeq DEF ToSet
<1>1. CASE I = {}
  <2>1. kept = <<>>
    BY <1>a, <1>b, <1>1
  <2>2. {m \in ToSet(s) : m >= a} = {}
    BY <1>0, <1>1
  <2> QED
    BY <2>1, <2>2, NoFrames
<1>2. CASE I # {}
  <2>1. I \in SUBSET Nat /\ young = Min(I)
    BY <1>a, <1>2
  <2>2. young \in I /\ \A i \in I : young <= i
    BY <1>2, <2>1, MinOfIndices
  <2>a. /\ young \in 1 .. Len(s) /\ s[young] >= a
        /\ \A i \in 1 .. Len(s) : s[i] >= a => young <= i
    BY <2>2
  <2> HIDE DEF I
  <2>b. young # 0
    BY <2>a
  <2>3. /\ young \in 1 .. Len(s) + 1 /\ Len(s) \in young - 1 .. Len(s)
        /\ kept = SubSeq(s, young, Len(s))
    BY ONLY <1>0, <1>b, <2>a, <2>b
  <2>4. /\ kept \in Seq(Nat) /\ IsAscending(kept)
        /\ ToSet(kept) = {s[k] : k \in young .. Len(s)}
    <3>1. /\ SubSeq(s, young, Len(s)) \in Seq(Nat)
          /\ IsAscending(SubSeq(s, young, Len(s)))
          /\ ToSet(SubSeq(s, young, Len(s))) = {s[k] : k \in young .. Len(s)}
      BY ONLY <2>3, SliceOfAscending, s \in Seq(Nat), IsAscending(s)
    <3> QED
      BY ONLY <2>3, <3>1
  <2>5. \A k \in 1 .. Len(s) : k \in young .. Len(s) <=> s[k] >= a
    <3> TAKE k \in 1 .. Len(s)
    <3>1. young \in 1 .. Len(s) /\ s[young] >= a
      BY <2>a
    <3>2. ASSUME k >= young PROVE s[k] >= a
      <4>1. CASE k = young
        BY <3>1, <4>1
      <4>2. CASE k > young
        <5>1. s[young] < s[k]
          BY <1>0, <3>1, <4>2 DEF IsAscending
        <5> QED
          BY <1>0, <3>1, <5>1
      <4> QED
        BY ONLY <3>1, <3>2, <4>1, <4>2, k \in 1 .. Len(s)
    <3>3. ASSUME s[k] >= a PROVE k >= young
      BY <2>a, <3>3
    <3> QED
      BY <3>1, <3>2, <3>3
  <2>6. young .. Len(s) \subseteq 1 .. Len(s)
    BY ONLY <2>a
  <2> QED
    BY <1>0, <2>4, <2>5, <2>6
<1> QED
  BY <1>1, <1>2

LEMMA RemoveFirstDoes ==
  ASSUME NEW s \in Seq(Nat), IsAscending(s), NEW m \in Nat
  PROVE  /\ RemoveFirst(s, m) \in Seq(Nat) /\ IsAscending(RemoveFirst(s, m))
         /\ ToSet(RemoveFirst(s, m)) = ToSet(s) \ {m}
<1>0. /\ Len(s) \in Nat /\ DOMAIN s = 1 .. Len(s)
      /\ \A i \in 1 .. Len(s) : s[i] \in Nat
      /\ ToSet(s) = {s[i] : i \in 1 .. Len(s)}
  BY SetOfSeq DEF ToSet
<1>1. CASE ~\E i \in 1 .. Len(s) : s[i] = m
  BY <1>0, <1>1 DEF RemoveFirst
<1>2. CASE \E i \in 1 .. Len(s) : s[i] = m
  <2> DEFINE I == {i \in 1 .. Len(s) : s[i] = m}
             k == Min(I)
             u == SubSeq(s, 1, k - 1)
             v == SubSeq(s, k + 1, Len(s))
  <2>1. I \in SUBSET Nat /\ I # {}
    BY <1>2
  <2>2. k \in I
    BY <2>1, MinOfIndices
  <2>3. RemoveFirst(s, m) = u \o v
    BY <1>2, <2>1 DEF RemoveFirst, RemoveAt, SelectInSeq
  <2> HIDE DEF k
  <2>4. k \in 1 .. Len(s) /\ s[k] = m
    BY <2>2
  <2>5. /\ 1 \in 1 .. Len(s) + 1 /\ k - 1 \in 1 - 1 .. Len(s)
        /\ k + 1 \in 1 .. Len(s) + 1 /\ Len(s) \in (k + 1) - 1 .. Len(s)
    BY <1>0, <2>4
  <2>6. u \in Seq(Nat) /\ IsAscending(u) /\ ToSet(u) = {s[i] : i \in 1 .. k - 1}
    BY <2>5, SliceOfAscending
  <2>7. v \in Seq(Nat) /\ IsAscending(v) /\ ToSet(v) = {s[i] : i \in k + 1 .. Len(s)}
    BY <2>5, SliceOfAscending
  <2> HIDE DEF u, v, I
  <2>8. \A i \in 1 .. Len(s) : /\ i \in 1 .. k - 1 => s[i] < m
                               /\ i \in k + 1 .. Len(s) => m < s[i]
    BY <1>0, <2>4 DEF IsAscending
  <2>9. \A x \in ToSet(u), y \in ToSet(v) : x < m /\ m < y /\ x < y
    <3> TAKE x \in ToSet(u), y \in ToSet(v)
    <3>1. PICK i \in 1 .. k - 1 : x = s[i]
      BY <2>6
    <3>2. PICK j \in k + 1 .. Len(s) : y = s[j]
      BY <2>7
    <3>3. i \in 1 .. Len(s) /\ j \in 1 .. Len(s) /\ i < j
      BY <1>0, <2>4
    <3> QED
      BY <1>0, <2>8, <3>1, <3>2, <3>3 DEF IsAscending
  <2>10. /\ u \o v \in Seq(Nat) /\ IsAscending(u \o v)
         /\ ToSet(u \o v) = ToSet(u) \cup ToSet(v)
    BY <2>6, <2>7, <2>9, JoinAscending
  <2>11. ToSet(u) \cup ToSet(v) = ToSet(s) \ {m}
    <3>1. \A i \in 1 .. Len(s) : i \in 1 .. k - 1 \/ i = k \/ i \in k + 1 .. Len(s)
      BY <1>0, <2>4
    <3>2. 1 .. k - 1 \subseteq 1 .. Len(s) /\ k + 1 .. Len(s) \subseteq 1 .. Len(s)
      BY <1>0, <2>4
    <3>3. \A i \in 1 .. Len(s) : s[i] \in Nat /\ m \in Nat
      BY <1>0
    <3> QED
      BY <1>0, <2>4, <2>6, <2>7, <2>8, <3>1, <3>2, <3>3
  <2> QED
    BY <2>3, <2>10, <2>11
<1> QED
  BY <1>1, <1>2

-------------------------------------------------------------------------------
(* The recipient. *)

Recipients ==
    [m_scoreboard : Windows, m_winStartB : SeqNumbers,
     m_bufferedMpdus : SUBSET Nat, forwarded : Seq(Nat)]

(* The buffer starts with frame b; n is the next frame of the originator. *)
BufferingOK(r, b, n) ==
    /\ r.m_winStartB = GetSequenceNumber(b)
    /\ b <= n /\ n <= b + WinSize
    /\ r.m_bufferedMpdus \subseteq b .. n - 1
    /\ ToSet(r.forwarded) \subseteq 0 .. b - 1
    /\ IsAscending(r.forwarded)

(* It does not hold the frame it waits for. *)
ReorderingOK(r, b, n) == BufferingOK(r, b, n) /\ b \notin r.m_bufferedMpdus

(* The scoreboard starts with frame c, and its bits are frames received. *)
ScoreboardOK(r, c, n) ==
    /\ StartsAt(r.m_scoreboard, c)
    /\ n <= c + 2 * WinSize
    /\ \A d \in r.m_scoreboard.set : c + d \in Received(r)
    /\ \A m \in Received(r) : m < c + WinSize

LEMMA RecipientFields ==
  ASSUME NEW r \in Recipients
  PROVE  /\ r.m_scoreboard \in Windows /\ r.m_winStartB \in SeqNumbers
         /\ r.m_bufferedMpdus \in SUBSET Nat /\ r.forwarded \in Seq(Nat)
         /\ Received(r) \in SUBSET Nat
<1>1. r.forwarded \in Seq(Nat) /\ r.m_bufferedMpdus \in SUBSET Nat
  BY DEF Recipients
<1>2. ToSet(r.forwarded) \in SUBSET Nat
  BY <1>1, SetOfSeq
<1> QED
  BY <1>1, <1>2 DEF Recipients, Received

LEMMA PlaceOf ==
  ASSUME NEW r, NEW b \in Nat, NEW n \in Nat, NEW m \in b .. n,
         r.m_winStartB = GetSequenceNumber(b), n <= b + WinSize
  PROVE  Place(r, m) = m - b
<1>1. m \in Nat /\ b <= m /\ m < b + SEQNO_SPACE_SIZE
  BY SpaceFacts
<1> QED
  BY <1>1, DistanceAhead DEF Place

(* Frames before e leave the buffer. *)
LEMMA PassDoes ==
  ASSUME NEW r \in Recipients, NEW b \in Nat, NEW n \in Nat, BufferingOK(r, b, n),
         NEW e \in b .. n,
         NEW mpdus, mpdus = {m \in r.m_bufferedMpdus : m < e}
  PROVE  LET q == Pass(r, mpdus, GetSequenceNumber(e))
         IN  /\ q \in Recipients /\ BufferingOK(q, e, n)
             /\ q.m_bufferedMpdus = {m \in r.m_bufferedMpdus : m >= e}
             /\ Received(q) = Received(r) /\ q.m_scoreboard = r.m_scoreboard
<1> DEFINE q == Pass(r, mpdus, GetSequenceNumber(e))
           p == [m \in mpdus |-> Place(r, m)]
           t == InOrder(mpdus, p)
<1>1. /\ r.m_winStartB = GetSequenceNumber(b)
      /\ b <= n /\ n <= b + WinSize
      /\ r.m_bufferedMpdus \subseteq b .. n - 1
      /\ ToSet(r.forwarded) \subseteq 0 .. b - 1
      /\ IsAscending(r.forwarded)
      /\ r.forwarded \in Seq(Nat) /\ r.m_bufferedMpdus \in SUBSET Nat
      /\ e \in Nat /\ e <= n /\ b <= e
  BY RecipientFields DEF BufferingOK
<1>2. mpdus \subseteq b .. n - 1 /\ mpdus \in SUBSET Nat /\ IsFiniteSet(mpdus)
  <2>1. mpdus \subseteq b .. n - 1 /\ mpdus \in SUBSET Nat
    BY <1>1
  <2>2. IsFiniteSet(b .. n - 1)
    BY FS_Interval
  <2> QED
    BY <2>1, <2>2, FS_Subset
<1>3. \A m \in mpdus : Place(r, m) = m - b
  <2> TAKE m \in mpdus
  <2>1. m \in b .. n
    BY <1>2
  <2> QED
    BY <1>1, <2>1, PlaceOf
<1> HIDE DEF q
<1>4. p \in [mpdus -> Int] /\ \A m \in mpdus : p[m] = m - b
  BY <1>2, <1>3
<1>5. \A k, m \in mpdus : p[k] = p[m] => k = m
  BY ONLY <1>2, <1>4, b \in Nat, n \in Nat
<1> HIDE DEF p
<1>6. t = InOrder(mpdus, p)
  OBVIOUS
<1> HIDE DEF t
<1>7. /\ t \in Seq(Nat) /\ ToSet(t) = mpdus
      /\ \A i, j \in 1 .. Len(t) : i < j => p[t[i]] < p[t[j]]
  BY <1>2, <1>4, <1>5, <1>6, InOrderSorts
<1>8. IsAscending(t)
  <2> SUFFICES ASSUME NEW i \in 1 .. Len(t), NEW j \in 1 .. Len(t), i < j
               PROVE  t[i] < t[j]
    BY <1>7, SetOfSeq DEF IsAscending
  <2>1. /\ t[i] \in mpdus /\ t[j] \in mpdus /\ t[i] \in Nat /\ t[j] \in Nat
        /\ p[t[i]] < p[t[j]]
    BY <1>7, SetOfSeq
  <2> QED
    BY <1>4, <2>1
<1>9. \A x \in ToSet(r.forwarded), y \in ToSet(t) : x < y
  BY <1>1, <1>2, <1>7
<1>10. /\ r.forwarded \o t \in Seq(Nat) /\ IsAscending(r.forwarded \o t)
       /\ ToSet(r.forwarded \o t) = ToSet(r.forwarded) \cup mpdus
  BY <1>1, <1>7, <1>8, <1>9, JoinAscending
<1>11. /\ q.m_bufferedMpdus = r.m_bufferedMpdus \ mpdus
       /\ q.forwarded = r.forwarded \o t
       /\ q.m_winStartB = GetSequenceNumber(e)
       /\ q.m_scoreboard = r.m_scoreboard
       /\ q \in Recipients
  <2>1. q = [r EXCEPT !.m_bufferedMpdus = @ \ mpdus, !.forwarded = @ \o t,
                      !.m_winStartB = GetSequenceNumber(e)]
    BY DEF q, Pass, t, p
  <2>2. GetSequenceNumber(e) \in SeqNumbers
    BY <1>1, NumberIsNumber
  <2> QED
    BY <1>1, <1>10, <2>1, <2>2 DEF Recipients
<1>12. r.m_bufferedMpdus \ mpdus = {m \in r.m_bufferedMpdus : m >= e}
  BY <1>1
<1>13. Received(q) = Received(r)
  BY <1>1, <1>2, <1>10, <1>11 DEF Received
<1>14. BufferingOK(q, e, n)
  <2>1. n <= e + WinSize
    BY <1>1, SpaceFacts
  <2>2. q.m_bufferedMpdus \subseteq e .. n - 1
    BY <1>1, <1>11, <1>12
  <2>3. ToSet(r.forwarded) \cup mpdus \subseteq 0 .. e - 1
    BY <1>1, <1>2
  <2> QED
    BY <1>1, <1>10, <1>11, <2>1, <2>2, <2>3 DEF BufferingOK
<1> QED
  BY <1>11, <1>12, <1>13, <1>14 DEF q

LEMMA PassUntilFirstLostDoes ==
  ASSUME NEW r \in Recipients, NEW b \in Nat, NEW n \in Nat, BufferingOK(r, b, n)
  PROVE  LET q == PassBufferedMpdusUntilFirstLost(r)
         IN  \E e \in b .. n :
                 /\ q \in Recipients /\ ReorderingOK(q, e, n)
                 /\ b .. e - 1 \subseteq Received(r)
                 /\ Received(q) = Received(r) /\ q.m_scoreboard = r.m_scoreboard
<1> DEFINE places == {Place(r, m) : m \in r.m_bufferedMpdus}
           firstLost == CHOOSE p \in 0 .. Cardinality(places) :
                            0 .. p - 1 \subseteq places /\ p \notin places
<1>1. /\ r.m_winStartB = GetSequenceNumber(b)
      /\ b <= n /\ n <= b + WinSize
      /\ r.m_bufferedMpdus \subseteq b .. n - 1
  BY DEF BufferingOK
<1>2. \A m \in r.m_bufferedMpdus : Place(r, m) = m - b
  <2> TAKE m \in r.m_bufferedMpdus
  <2>1. m \in b .. n
    BY <1>1
  <2> QED
    BY <1>1, <2>1, PlaceOf
<1>3. places = {m - b : m \in r.m_bufferedMpdus}
  BY <1>2
<1> HIDE DEF places
<1>4. places \subseteq 0 .. n - b - 1 /\ places \in SUBSET Nat
  BY <1>1, <1>3
<1>5. \A d \in Nat : d \in places <=> b + d \in r.m_bufferedMpdus
  <2> TAKE d \in Nat
  <2>1. \A m \in r.m_bufferedMpdus : m \in Nat
    BY <1>1
  <2>2. ASSUME NEW m \in r.m_bufferedMpdus, d = m - b PROVE b + d \in r.m_bufferedMpdus
    <3>1. b + d = m
      BY <2>1, <2>2
    <3> QED
      BY <3>1
  <2>3. (b + d) - b = d
    OBVIOUS
  <2> QED
    BY <1>3, <2>2, <2>3
<1>6. IsFiniteSet(places) /\ Cardinality(places) \in Nat
  <2>1. IsFiniteSet(0 .. n - b - 1)
    BY FS_Interval
  <2> QED
    BY <1>4, <2>1, FS_Subset, FS_CardinalityType
<1>7. \E l \in 0 .. Cardinality(places) : l \notin places
  <2> SUFFICES ASSUME 0 .. Cardinality(places) \subseteq places PROVE FALSE
    OBVIOUS
  <2>1. Cardinality(0 .. Cardinality(places)) <= Cardinality(places)
    BY <1>6, FS_Subset
  <2>2. Cardinality(0 .. Cardinality(places)) = Cardinality(places) + 1
    BY <1>6, FS_Interval
  <2> QED
    BY <1>6, <2>1, <2>2
<1>8. firstLost \in Nat /\ 0 .. firstLost - 1 \subseteq places /\ firstLost \notin places
  <2> HIDE DEF firstLost
  <2>1. /\ firstLost \in 0 .. Cardinality(places)
        /\ 0 .. firstLost - 1 \subseteq places /\ firstLost \notin places
    BY <1>4, <1>6, <1>7, FirstUnset DEF firstLost
  <2> QED
    BY <2>1
<1> DEFINE e == b + firstLost
           q == Pass(r, {m \in r.m_bufferedMpdus : m < e}, GetSequenceNumber(e))
<1>9. PassBufferedMpdusUntilFirstLost(r) = q
  <2>1. PassBufferedMpdusUntilFirstLost(r) =
            Pass(r, {m \in r.m_bufferedMpdus : Place(r, m) < firstLost},
                 (r.m_winStartB + firstLost) % SEQNO_SPACE_SIZE)
    BY DEF PassBufferedMpdusUntilFirstLost, places
  <2> HIDE DEF firstLost
  <2>2. (r.m_winStartB + firstLost) % SEQNO_SPACE_SIZE = GetSequenceNumber(e)
    BY <1>1, <1>8, NumberOfSum
  <2>3. \A m \in r.m_bufferedMpdus : Place(r, m) < firstLost <=> m < e
    BY <1>1, <1>2, <1>8
  <2>4. {m \in r.m_bufferedMpdus : Place(r, m) < firstLost} = {m \in r.m_bufferedMpdus : m < e}
    BY <2>3
  <2> QED
    BY ONLY <2>1, <2>2, <2>4
<1> HIDE DEF firstLost
<1>10. e \in b .. n
  <2>1. firstLost <= n - b
    <3> SUFFICES ASSUME firstLost > n - b PROVE FALSE
      BY <1>1, <1>8
    <3>1. n - b \in 0 .. firstLost - 1
      BY <1>1, <1>8
    <3> QED
      BY <1>4, <1>8, <3>1
  <2> QED
    BY <1>1, <1>8, <2>1
<1>11. /\ q \in Recipients /\ BufferingOK(q, e, n)
       /\ q.m_bufferedMpdus = {m \in r.m_bufferedMpdus : m >= e}
       /\ Received(q) = Received(r) /\ q.m_scoreboard = r.m_scoreboard
  BY <1>10, PassDoes
<1>12. e \notin q.m_bufferedMpdus
  BY <1>5, <1>8, <1>11
<1>13. b .. e - 1 \subseteq Received(r)
  <2>1. \A m \in b .. e - 1 : m - b \in 0 .. firstLost - 1 /\ m - b \in Nat /\ b + (m - b) = m
    BY <1>8
  <2> QED
    BY <1>5, <1>8, <2>1 DEF Received
<1> HIDE DEF e, q
<1>14. /\ q \in Recipients /\ ReorderingOK(q, e, n) /\ b .. e - 1 \subseteq Received(r)
       /\ Received(q) = Received(r) /\ q.m_scoreboard = r.m_scoreboard
  BY <1>11, <1>12, <1>13 DEF ReorderingOK
<1> QED
  BY <1>9, <1>10, <1>14

LEMMA PassLessThanDoes ==
  ASSUME NEW r \in Recipients, NEW b \in Nat, NEW n \in Nat, BufferingOK(r, b, n),
         NEW s \in b .. n
  PROVE  LET q == PassBufferedMpdusWithSeqNumberLessThan(r, GetSequenceNumber(s))
         IN  /\ q \in Recipients /\ BufferingOK(q, s, n)
             /\ Received(q) = Received(r) /\ q.m_scoreboard = r.m_scoreboard
<1> DEFINE mpdus == {m \in r.m_bufferedMpdus : m < s}
           q == Pass(r, mpdus, GetSequenceNumber(s))
<1>1. /\ r.m_winStartB = GetSequenceNumber(b)
      /\ b <= n /\ n <= b + WinSize
      /\ r.m_bufferedMpdus \subseteq b .. n - 1
      /\ s \in Nat /\ b <= s /\ s < b + SEQNO_SPACE_SIZE
  BY SpaceFacts DEF BufferingOK
<1>2. GetDistance(GetSequenceNumber(s), r.m_winStartB) = s - b
  BY <1>1, DistanceAhead
<1>3. \A m \in r.m_bufferedMpdus : Place(r, m) < s - b <=> m < s
  <2> TAKE m \in r.m_bufferedMpdus
  <2>1. m \in b .. n /\ m \in Int
    BY <1>1
  <2>2. Place(r, m) = m - b
    BY <1>1, <2>1, PlaceOf
  <2> QED
    BY <1>1, <2>1, <2>2
<1>4. mpdus = {m \in r.m_bufferedMpdus :
                  Place(r, m) < GetDistance(GetSequenceNumber(s), r.m_winStartB)}
  BY <1>2, <1>3
<1> HIDE DEF mpdus
<1>5. PassBufferedMpdusWithSeqNumberLessThan(r, GetSequenceNumber(s)) = q
  BY <1>4 DEF PassBufferedMpdusWithSeqNumberLessThan
<1>6. mpdus = {m \in r.m_bufferedMpdus : m < s}
  BY DEF mpdus
<1>7. /\ q \in Recipients /\ BufferingOK(q, s, n)
      /\ Received(q) = Received(r) /\ q.m_scoreboard = r.m_scoreboard
  BY <1>6, PassDoes
<1> HIDE DEF q
<1> QED
  BY <1>5, <1>7

LEMMA StoreDoes ==
  ASSUME NEW r \in Recipients, NEW b \in Nat, NEW n \in Nat, BufferingOK(r, b, n),
         NEW m \in b .. n - 1
  PROVE  /\ Store(r, m) \in Recipients /\ BufferingOK(Store(r, m), b, n)
         /\ Received(Store(r, m)) = Received(r) \cup {m}
         /\ Store(r, m).m_scoreboard = r.m_scoreboard
<1>1. /\ r.m_bufferedMpdus \subseteq b .. n - 1 /\ n <= b + WinSize
      /\ r.m_bufferedMpdus \in SUBSET Nat /\ m \in Nat
  BY RecipientFields DEF BufferingOK
<1>2. CASE m \in r.m_bufferedMpdus
  BY <1>2 DEF Store, Received
<1>3. CASE m \notin r.m_bufferedMpdus
  <2>1. ASSUME NEW k \in r.m_bufferedMpdus, GetSequenceNumber(k) = GetSequenceNumber(m)
        PROVE  FALSE
    <3>1. k \in Nat /\ k < m + SEQNO_SPACE_SIZE /\ m < k + SEQNO_SPACE_SIZE
      BY <1>1, SpaceFacts
    <3>2. k = m
      BY <1>1, <2>1, <3>1, SameNumber
    <3> QED
      BY <1>3, <3>2
  <2>2. Store(r, m) = [r EXCEPT !.m_bufferedMpdus = @ \cup {m}]
    BY <2>1 DEF Store
  <2>3. /\ Store(r, m) \in Recipients
        /\ Store(r, m).m_bufferedMpdus = r.m_bufferedMpdus \cup {m}
        /\ Store(r, m).forwarded = r.forwarded
        /\ Store(r, m).m_winStartB = r.m_winStartB
        /\ Store(r, m).m_scoreboard = r.m_scoreboard
    BY <1>1, <2>2 DEF Recipients
  <2> QED
    BY <1>1, <2>3 DEF BufferingOK, Received
<1> QED
  BY <1>2, <1>3

(* The scoreboard marks a frame that is not old for it. *)
LEMMA ScoredDoes ==
  ASSUME NEW w \in Windows, NEW c \in Nat, NEW n \in Nat, StartsAt(w, c), NEW R,
         \A d \in w.set : c + d \in R,
         c <= n, n <= c + 2 * WinSize,
         NEW m \in Nat, m < n, n <= m + WinSize
  PROVE  \E e \in c .. n :
            /\ Scored(w, GetSequenceNumber(m)) \in Windows
            /\ StartsAt(Scored(w, GetSequenceNumber(m)), e)
            /\ e = c \/ e + WinSize <= n
            /\ m < e + WinSize
            /\ \A d \in Scored(w, GetSequenceNumber(m)).set : e + d \in R \cup {m}
<1> DEFINE distance == GetDistance(GetSequenceNumber(m), w.m_winStart)
           v == Scored(w, GetSequenceNumber(m))
<1>0. w.m_winStart = GetSequenceNumber(c) /\ w.set \subseteq 0 .. WinSize - 1
  BY DEF StartsAt, Windows
<1>1. CASE m >= c /\ m < c + WinSize
  <2>1. distance = m - c
    BY <1>0, <1>1, SpaceFacts, DistanceAhead
  <2>2. m - c \in 0 .. WinSize - 1 /\ distance < WinSize
    BY <1>1, <2>1, SpaceFacts
  <2>3. v = Mark(w, m - c)
    BY <2>1, <2>2 DEF Scored
  <2>4. v \in Windows /\ v.m_winStart = w.m_winStart /\ v.set = w.set \cup {m - c}
    BY <2>2, <2>3, MarkDoes
  <2> HIDE DEF v
  <2>5. c \in c .. n /\ c + (m - c) = m
    OBVIOUS
  <2> QED
    BY <1>1, <2>4, <2>5 DEF StartsAt, v
<1>2. CASE m >= c + WinSize
  <2> DEFINE k == m - c - WinSize + 1
             u == Advance(w, k)
  <2>1. distance = m - c
    BY <1>0, <1>2, SpaceFacts, DistanceAhead
  <2>2. ~(distance < WinSize) /\ distance < SEQNO_SPACE_HALF_SIZE
    BY <1>2, <2>1, SpaceFacts
  <2>3. v = Mark(u, WinSize - 1)
    <3>1. distance - WinSize + 1 = k
      BY <2>1
    <3> QED
      BY <2>2, <3>1 DEF Scored
  <2>4. k \in Nat
    BY <1>2, SpaceFacts
  <2>5. /\ u \in Windows /\ StartsAt(u, c + k)
        /\ \A d \in Nat : d \in u.set <=> d + k \in w.set
    BY <2>4, AdvanceDoes
  <2>6. u.set \subseteq 0 .. WinSize - 1
    BY <2>5 DEF Windows
  <2> HIDE DEF u
  <2>7. WinSize - 1 \in 0 .. WinSize - 1
    BY SpaceFacts
  <2>8. v \in Windows /\ v.m_winStart = u.m_winStart /\ v.set = u.set \cup {WinSize - 1}
    BY <2>3, <2>5, <2>7, MarkDoes
  <2> HIDE DEF v
  <2> DEFINE e == c + k
  <2>9. e \in c .. n /\ e + WinSize <= n /\ m < e + WinSize /\ e + (WinSize - 1) = m
    BY <2>4, SpaceFacts
  <2>10. ASSUME NEW d \in u.set PROVE e + d \in R
    <3>1. d \in Nat /\ d + k \in w.set /\ c + (d + k) = e + d
      BY <2>4, <2>5, <2>6
    <3> QED
      BY <3>1
  <2>11. StartsAt(v, e)
    BY <2>5, <2>8 DEF StartsAt
  <2>12. \A d \in v.set : e + d \in R \cup {m}
    BY <2>8, <2>9, <2>10
  <2> HIDE DEF e
  <2> QED
    BY <2>8, <2>9, <2>11, <2>12 DEF v
<1>3. CASE m < c
  <2>1. distance = m - c + SEQNO_SPACE_SIZE
    BY <1>0, <1>3, SpaceFacts, DistanceBehind
  <2>2. ~(distance < WinSize) /\ ~(distance < SEQNO_SPACE_HALF_SIZE)
    BY <1>3, <2>1, SpaceFacts
  <2>3. v = w
    BY <2>2 DEF Scored
  <2>4. c \in c .. n /\ m < c + WinSize
    BY <1>3, SpaceFacts
  <2> QED
    BY <2>3, <2>4
<1> QED
  BY <1>1, <1>2, <1>3, SpaceFacts

(* A frame that the recipient has, or waits for, arrives. *)
Arriving(m, r, b, c, n) ==
    /\ r \in Recipients /\ b \in Nat /\ c \in Nat /\ n \in Nat /\ m \in Nat
    /\ ReorderingOK(r, b, n) /\ ScoreboardOK(r, c, n) /\ c <= n
    /\ m < n /\ n <= m + WinSize /\ (m \in Received(r) \/ b <= m)

LEMMA NotifyReceivedMpduDoes ==
  ASSUME NEW r, NEW b, NEW c, NEW n, NEW m, Arriving(m, r, b, c, n)
  PROVE  LET q == NotifyReceivedMpdu(r, m)
         IN  \E e \in b .. n, f \in c .. n :
                 /\ q \in Recipients /\ ReorderingOK(q, e, n) /\ ScoreboardOK(q, f, n)
                 /\ f = c \/ f + WinSize <= n
                 /\ Received(q) = Received(r) \cup {m}
                 /\ b .. e - 1 \subseteq Received(q)
<1> DEFINE v == Scored(r.m_scoreboard, GetSequenceNumber(m))
           scored == [r EXCEPT !.m_scoreboard = v]
           q == NotifyReceivedMpdu(r, m)
<1>0. /\ r \in Recipients /\ b \in Nat /\ c \in Nat /\ n \in Nat /\ m \in Nat
      /\ ReorderingOK(r, b, n) /\ ScoreboardOK(r, c, n) /\ c <= n
      /\ m < n /\ n <= m + WinSize /\ (m \in Received(r) \/ b <= m)
  BY DEF Arriving
<1> USE <1>0
<1>1. /\ r.m_scoreboard \in Windows /\ StartsAt(r.m_scoreboard, c)
      /\ n <= c + 2 * WinSize
      /\ \A d \in r.m_scoreboard.set : c + d \in Received(r)
      /\ \A k \in Received(r) : k < c + WinSize
      /\ Received(r) \in SUBSET Nat
  BY RecipientFields DEF ScoreboardOK
<1>2. PICK f \in c .. n :
          /\ v \in Windows /\ StartsAt(v, f)
          /\ f = c \/ f + WinSize <= n
          /\ m < f + WinSize
          /\ \A d \in v.set : f + d \in Received(r) \cup {m}
  <2> DEFINE w == r.m_scoreboard
             R == Received(r)
  <2>1. /\ w \in Windows /\ StartsAt(w, c) /\ \A d \in w.set : c + d \in R
        /\ c <= n /\ n <= c + 2 * WinSize /\ m < n /\ n <= m + WinSize
        /\ c \in Nat /\ n \in Nat /\ m \in Nat
    BY <1>1
  <2> HIDE DEF w, R
  <2>2. \E e \in c .. n :
            /\ Scored(w, GetSequenceNumber(m)) \in Windows
            /\ StartsAt(Scored(w, GetSequenceNumber(m)), e)
            /\ e = c \/ e + WinSize <= n
            /\ m < e + WinSize
            /\ \A d \in Scored(w, GetSequenceNumber(m)).set : e + d \in R \cup {m}
    BY ONLY <2>1, ScoredDoes
  <2> QED
    BY ONLY <2>2 DEF w, R, v
<1> HIDE DEF v
<1>3. /\ scored \in Recipients /\ scored.m_scoreboard = v
      /\ scored.m_winStartB = r.m_winStartB /\ scored.m_bufferedMpdus = r.m_bufferedMpdus
      /\ scored.forwarded = r.forwarded
  BY <1>2 DEF Recipients
<1> HIDE DEF scored
<1>4. Received(scored) = Received(r) /\ ReorderingOK(scored, b, n) /\ BufferingOK(scored, b, n)
  BY <1>3 DEF Received, ReorderingOK, BufferingOK
<1>5. b <= n /\ n <= b + WinSize /\ r.m_winStartB = GetSequenceNumber(b)
  BY DEF ReorderingOK, BufferingOK
<1>6. ASSUME NEW x, x.m_scoreboard = v, Received(x) = Received(r) \cup {m}
      PROVE  ScoreboardOK(x, f, n)
  <2>1. n <= f + 2 * WinSize
    BY <1>1, SpaceFacts
  <2>2. \A k \in Received(r) \cup {m} : k < f + WinSize
    BY <1>1, <1>2, SpaceFacts
  <2> QED
    BY <1>2, <1>6, <2>1, <2>2 DEF ScoreboardOK
<1>7. CASE b <= m
  <2>1. Place(r, m) = m - b
    <3>1. m \in b .. n
      BY <1>7
    <3> QED
      BY <1>5, <3>1, PlaceOf
  <2>2. Place(r, m) < WinSize
    BY <1>5, <2>1, SpaceFacts
  <2>3. q = PassBufferedMpdusUntilFirstLost(Store(scored, m))
    BY <2>2 DEF NotifyReceivedMpdu, scored, v
  <2> HIDE DEF q
  <2> DEFINE stored == Store(scored, m)
  <2>4. m \in b .. n - 1
    BY <1>7
  <2>5. /\ stored \in Recipients /\ BufferingOK(stored, b, n)
        /\ Received(stored) = Received(r) \cup {m}
        /\ stored.m_scoreboard = v
    BY <1>3, <1>4, <2>4, StoreDoes
  <2> HIDE DEF stored
  <2>6. PICK e \in b .. n :
            /\ q \in Recipients /\ ReorderingOK(q, e, n)
            /\ b .. e - 1 \subseteq Received(stored)
            /\ Received(q) = Received(stored) /\ q.m_scoreboard = stored.m_scoreboard
    BY <2>3, <2>5, PassUntilFirstLostDoes DEF stored
  <2>7. ScoreboardOK(q, f, n)
    BY <1>6, <2>5, <2>6
  <2> QED
    BY <1>2, <2>5, <2>6, <2>7 DEF q
<1>8. CASE m < b
  <2>1. Place(r, m) = m - b + SEQNO_SPACE_SIZE
    BY <1>5, <1>8, SpaceFacts, DistanceBehind DEF Place
  <2>2. ~(Place(r, m) < WinSize) /\ ~(Place(r, m) < SEQNO_SPACE_HALF_SIZE)
    BY <1>5, <2>1, SpaceFacts
  <2>3. q = scored
    BY <2>2 DEF NotifyReceivedMpdu, scored, v
  <2>4. m \in Received(r)
    BY <1>8
  <2>5. Received(scored) = Received(r) \cup {m}
    BY <1>4, <2>4
  <2>6. ScoreboardOK(scored, f, n)
    BY <1>3, <1>6, <2>5
  <2>7. b \in b .. n /\ b .. b - 1 = {}
    BY <1>5
  <2> HIDE DEF q
  <2> QED
    BY <1>2, <1>3, <1>4, <2>3, <2>5, <2>6, <2>7 DEF q
<1> QED
  BY <1>7, <1>8

(* A request arrives that starts with frame s. *)
LEMMA NotifyReceivedBarDoes ==
  ASSUME NarrowWindow,
         NEW r \in Recipients, NEW b \in Nat, NEW c \in Nat, NEW n \in Nat,
         ReorderingOK(r, b, n), ScoreboardOK(r, c, n), c <= n,
         NEW s \in Nat, s <= n, n <= s + WinSize
  PROVE  LET q == NotifyReceivedBar(r, GetSequenceNumber(s))
         IN  \E e \in b .. n, f \in c .. n :
                 /\ q \in Recipients /\ ReorderingOK(q, e, n) /\ ScoreboardOK(q, f, n)
                 /\ f = c \/ f = s
                 /\ s <= e /\ s <= f
                 /\ Received(q) = Received(r)
                 /\ \A m \in b .. e - 1 : m < s \/ m \in Received(r)
<1> DEFINE distance == GetDistance(GetSequenceNumber(s), r.m_scoreboard.m_winStart)
           v == IF distance < SEQNO_SPACE_HALF_SIZE
                THEN Advance(r.m_scoreboard, distance) ELSE r.m_scoreboard
           scored == [r EXCEPT !.m_scoreboard = v]
           q == NotifyReceivedBar(r, GetSequenceNumber(s))
<1>1. /\ r.m_scoreboard \in Windows /\ StartsAt(r.m_scoreboard, c)
      /\ n <= c + 2 * WinSize
      /\ \A d \in r.m_scoreboard.set : c + d \in Received(r)
      /\ \A k \in Received(r) : k < c + WinSize
      /\ Received(r) \in SUBSET Nat
      /\ r.m_scoreboard.m_winStart = GetSequenceNumber(c)
      /\ r.m_scoreboard.set \in SUBSET Nat
  BY RecipientFields DEF ScoreboardOK, StartsAt, Windows
<1>2. \E f \in c .. n :
          /\ v \in Windows /\ StartsAt(v, f)
          /\ f = c \/ f = s
          /\ s <= f
          /\ \A d \in v.set : f + d \in Received(r)
  <2>1. CASE c <= s
    <3>1. distance = s - c
      BY <1>1, <2>1, SpaceFacts, DistanceAhead
    <3>2. distance < SEQNO_SPACE_HALF_SIZE /\ s - c \in Nat
      BY <1>1, <2>1, <3>1, SpaceFacts
    <3>3. v = Advance(r.m_scoreboard, s - c)
      BY <3>1, <3>2
    <3> HIDE DEF v
    <3>4. /\ v \in Windows /\ StartsAt(v, c + (s - c))
          /\ \A d \in Nat : d \in v.set <=> d + (s - c) \in r.m_scoreboard.set
      BY <1>1, <3>2, <3>3, AdvanceDoes
    <3>5. v.set \subseteq Nat /\ c + (s - c) = s
      BY <3>4 DEF Windows
    <3>6. ASSUME NEW d \in v.set PROVE s + d \in Received(r)
      <4>1. d + (s - c) \in r.m_scoreboard.set /\ c + (d + (s - c)) = s + d
        BY <3>4, <3>5
      <4> QED
        BY <1>1, <4>1
    <3>7. s \in c .. n
      BY <2>1
    <3> QED
      BY <3>4, <3>5, <3>6, <3>7
  <2>2. CASE s < c
    <3>1. distance = s - c + SEQNO_SPACE_SIZE
      BY <1>1, <2>2, SpaceFacts, DistanceBehind
    <3>2. ~(distance < SEQNO_SPACE_HALF_SIZE)
      BY <2>2, <3>1, SpaceFacts
    <3>3. v = r.m_scoreboard
      BY <3>2
    <3>4. c \in c .. n /\ s <= c
      BY <2>2
    <3> QED
      BY <1>1, <3>3, <3>4
  <2> QED
    BY <2>1, <2>2
<1>3. PICK f \in c .. n :
          /\ v \in Windows /\ StartsAt(v, f)
          /\ f = c \/ f = s
          /\ s <= f
          /\ \A d \in v.set : f + d \in Received(r)
  BY <1>2
<1>a. (IF distance < SEQNO_SPACE_HALF_SIZE
       THEN [r EXCEPT !.m_scoreboard = Advance(@, distance)] ELSE r) = scored
  BY DEF Recipients
<1>b. q = IF GetSequenceNumber(s) # r.m_winStartB /\ ~IsOld(GetSequenceNumber(s), r.m_winStartB)
          THEN PassBufferedMpdusUntilFirstLost(
                   PassBufferedMpdusWithSeqNumberLessThan(scored, GetSequenceNumber(s)))
          ELSE scored
  BY <1>a DEF NotifyReceivedBar
<1> HIDE DEF v, distance, q
<1>4. /\ scored \in Recipients /\ scored.m_scoreboard = v
      /\ scored.m_winStartB = r.m_winStartB /\ scored.m_bufferedMpdus = r.m_bufferedMpdus
      /\ scored.forwarded = r.forwarded
  BY <1>3 DEF Recipients
<1> HIDE DEF scored
<1>5. Received(scored) = Received(r) /\ ReorderingOK(scored, b, n) /\ BufferingOK(scored, b, n)
  BY <1>4 DEF Received, ReorderingOK, BufferingOK
<1>6. b <= n /\ n <= b + WinSize /\ r.m_winStartB = GetSequenceNumber(b)
  BY DEF ReorderingOK, BufferingOK
<1>7. ASSUME NEW x, x.m_scoreboard = v, Received(x) = Received(r)
      PROVE  ScoreboardOK(x, f, n)
  <2>1. n <= f + 2 * WinSize
    BY <1>1, SpaceFacts
  <2>2. \A k \in Received(r) : k < f + WinSize
    BY <1>1, <1>3, SpaceFacts
  <2> QED
    BY <1>3, <1>7, <2>1, <2>2 DEF ScoreboardOK
<1>8. IsOld(GetSequenceNumber(s), r.m_winStartB) <=> s < b
  BY <1>6, SpaceFacts, OldIsBefore
<1>9. GetSequenceNumber(s) = r.m_winStartB <=> s = b
  <2>1. s < b + SEQNO_SPACE_SIZE /\ b < s + SEQNO_SPACE_SIZE
    BY <1>6, SpaceFacts
  <2> QED
    BY <1>6, <2>1, SameNumber
<1>10. CASE b < s
  <2> DEFINE passed == PassBufferedMpdusWithSeqNumberLessThan(scored, GetSequenceNumber(s))
  <2>1. q = PassBufferedMpdusUntilFirstLost(passed)
    BY <1>b, <1>8, <1>9, <1>10
  <2>2. s \in b .. n
    BY <1>10
  <2>3. /\ passed \in Recipients /\ BufferingOK(passed, s, n)
        /\ Received(passed) = Received(r) /\ passed.m_scoreboard = v
    BY <1>4, <1>5, <2>2, PassLessThanDoes
  <2> HIDE DEF passed
  <2>4. PICK e \in s .. n :
            /\ q \in Recipients /\ ReorderingOK(q, e, n)
            /\ s .. e - 1 \subseteq Received(passed)
            /\ Received(q) = Received(passed) /\ q.m_scoreboard = passed.m_scoreboard
    BY <2>1, <2>3, PassUntilFirstLostDoes
  <2>5. ScoreboardOK(q, f, n)
    BY <1>7, <2>3, <2>4
  <2>6. e \in b .. n /\ s <= e /\ \A m \in b .. e - 1 : m < s \/ m \in s .. e - 1
    BY <1>10
  <2>7. \A m \in b .. e - 1 : m < s \/ m \in Received(r)
    BY <2>3, <2>4, <2>6
  <2> QED
    BY <1>3, <2>3, <2>4, <2>5, <2>6, <2>7 DEF q
<1>11. CASE s <= b
  <2>1. q = scored
    BY <1>b, <1>8, <1>9, <1>11
  <2>2. ScoreboardOK(scored, f, n)
    BY <1>4, <1>5, <1>7
  <2>3. b \in b .. n /\ b .. b - 1 = {}
    BY <1>6
  <2> QED
    BY <1>3, <1>4, <1>5, <1>11, <2>1, <2>2, <2>3 DEF q
<1> QED
  BY <1>10, <1>11

-------------------------------------------------------------------------------
(* The originator: its window, its queue and the frames in flight. *)

Originators ==
    [unsent : Nat, next : Nat, queued : SUBSET Nat, inFlight : SUBSET Nat,
     packetQueue : Seq(Nat), window : Windows, retryCount : [Mpdus -> Nat],
     bar : {"none", "queued", "sent"}, sendBarIfDataQueued : BOOLEAN,
     expired : Seq(Nat), acked : SUBSET Nat]

(* The window starts with frame a; its bits are frames acknowledged. *)
WindowOK(o, a) ==
    /\ StartsAt(o.window, a)
    /\ a <= o.next /\ o.next <= a + WinSize
    /\ \A d \in o.window.set : a + d \in o.acked
    /\ o.acked \subseteq 0 .. o.next - 1

(* No frame in the queue is old or acknowledged; those in flight are stored. *)
StoreOK(o, a) ==
    /\ o.queued \subseteq a .. o.next - 1
    /\ o.acked \cap o.queued = {}
    /\ o.inFlight \subseteq Stored(o) /\ Stored(o) \subseteq o.queued
    /\ IsAscending(o.packetQueue)

(* Those stored are in flight, but for the end of an exchange. *)
QueueOK(o, a) == StoreOK(o, a) /\ Stored(o) = o.inFlight

InFlightFirst(o) == \A k \in o.inFlight, m \in o.queued \ o.inFlight : k < m

(* Frames that have expired and whose trace is due; none that could be sent
   again is as old. *)
ExpiredOK(o, a) ==
    /\ ToSet(o.expired) \subseteq a .. o.next - 1
    /\ ToSet(o.expired) \cap (o.queued \cup o.acked) = {}
    /\ IsAscending(o.expired)
    /\ \A m \in ToSet(o.expired) : m < expiredTo
    /\ o.expired # <<>> => \A m \in o.queued \ o.inFlight : m >= expiredTo

(* p is o but for the queue, the frames in flight, the window and the request. *)
Keeps(p, o) ==
    /\ p.unsent = o.unsent /\ p.next = o.next
    /\ p.sendBarIfDataQueued = o.sendBarIfDataQueued
    /\ p.expired = o.expired

LEMMA OriginatorFields ==
  ASSUME NEW o \in Originators
  PROVE  /\ o.unsent \in Nat /\ o.next \in Nat /\ o.queued \in SUBSET Nat
         /\ o.inFlight \in SUBSET Nat /\ o.packetQueue \in Seq(Nat)
         /\ o.window \in Windows /\ o.retryCount \in [Mpdus -> Nat]
         /\ o.bar \in {"none", "queued", "sent"} /\ o.sendBarIfDataQueued \in BOOLEAN
         /\ o.expired \in Seq(Nat) /\ o.acked \in SUBSET Nat
BY DEF Originators

LEMMA DequeueDoes ==
  ASSUME NEW o \in Originators, NEW S
  PROVE  LET q == Dequeue(o, S)
         IN  /\ q \in Originators /\ Keeps(q, o)
             /\ q.queued = o.queued \ S /\ q.inFlight = o.inFlight \ S
             /\ q.packetQueue = o.packetQueue /\ q.window = o.window
             /\ q.retryCount = o.retryCount /\ q.bar = o.bar /\ q.acked = o.acked
BY DEF Originators, Dequeue, Keeps

LEMMA EraseDoes ==
  ASSUME NEW o \in Originators, IsAscending(o.packetQueue), NEW m \in Nat
  PROVE  LET q == Erase(o, m)
         IN  /\ q \in Originators /\ Keeps(q, o)
             /\ q.queued = o.queued /\ q.inFlight = o.inFlight
             /\ IsAscending(q.packetQueue) /\ Stored(q) = Stored(o) \ {m}
             /\ q.window = o.window /\ q.retryCount = o.retryCount
             /\ q.bar = o.bar /\ q.acked = o.acked
<1>1. o.packetQueue \in Seq(Nat)
  BY OriginatorFields
<1>2. /\ RemoveFirst(o.packetQueue, m) \in Seq(Nat)
      /\ IsAscending(RemoveFirst(o.packetQueue, m))
      /\ ToSet(RemoveFirst(o.packetQueue, m)) = ToSet(o.packetQueue) \ {m}
  BY <1>1, RemoveFirstDoes
<1> QED
  BY <1>2 DEF Originators, Erase, Keeps, Stored

(* The window moves over its first bits, which are frames of K. *)
LEMMA WindowMoves ==
  ASSUME NEW w \in Windows, NEW a \in Nat, StartsAt(w, a), NEW n \in Nat, a <= n,
         NEW K, K \subseteq 0 .. n - 1, \A d \in w.set : a + d \in K
  PROVE  \E e \in a .. n :
            /\ AdvanceTxWindow(w) \in Windows /\ StartsAt(AdvanceTxWindow(w), e)
            /\ \A d \in AdvanceTxWindow(w).set : e + d \in K
            /\ a .. e - 1 \subseteq K
<1> DEFINE v == AdvanceTxWindow(w)
<1>1. PICK i \in 0 .. WinSize :
            /\ 0 .. i - 1 \subseteq w.set
            /\ v \in Windows /\ StartsAt(v, a + i)
            /\ \A d \in Nat : d \in v.set <=> d + i \in w.set
  BY AdvanceTxDoes
<1>2. v.set \subseteq Nat
  BY <1>1 DEF Windows
<1> HIDE DEF v
<1> DEFINE e == a + i
<1>3. i \in Nat
  BY <1>1, SpaceFacts
<1>4. ASSUME NEW m \in a .. e - 1 PROVE m \in K
  <2>1. m - a \in 0 .. i - 1 /\ a + (m - a) = m
    BY <1>3
  <2> QED
    BY <1>1, <2>1
<1>5. e \in a .. n
  <2>1. CASE i = 0
    BY <2>1
  <2>2. CASE i > 0
    <3>1. e - 1 \in a .. e - 1
      BY <1>3, <2>2
    <3>2. e - 1 \in 0 .. n - 1
      BY <1>4, <3>1
    <3> QED
      BY <1>3, <3>2
  <2> QED
    BY <1>3, <2>1, <2>2
<1>6. ASSUME NEW d \in v.set PROVE e + d \in K
  <2>1. d \in Nat /\ d + i \in w.set /\ a + (d + i) = e + d
    BY <1>1, <1>2, <1>3
  <2> QED
    BY <2>1
<1> HIDE DEF e
<1>7. v \in Windows /\ StartsAt(v, e)
  BY <1>1 DEF e
<1> QED
  BY <1>4, <1>5, <1>6, <1>7 DEF v

(* The window moves past frame m and the frames acknowledged after it; what
   the agreement has stored before that is dropped. *)
LEMMA HandleDiscardedMpduDoes ==
  ASSUME NEW o \in Originators, NEW a \in Nat, WindowOK(o, a),
         IsAscending(o.packetQueue), Stored(o) \subseteq a .. o.next - 1,
         NEW m \in a .. o.next - 1
  PROVE  LET q == HandleDiscardedMpdu(o, m)
         IN  \E e \in m + 1 .. o.next :
                 /\ q \in Originators /\ Keeps(q, o) /\ WindowOK(q, e)
                 /\ m + 1 .. e - 1 \subseteq o.acked
                 /\ IsAscending(q.packetQueue)
                 /\ Stored(q) = {k \in Stored(o) : k >= e}
                 /\ q.queued = o.queued \ {k \in Stored(o) : k < e}
                 /\ q.inFlight = o.inFlight \ {k \in Stored(o) : k < e}
                 /\ q.retryCount = o.retryCount /\ q.bar = "queued" /\ q.acked = o.acked
<1> DEFINE v == AdvanceTxWindow(Advance(o.window, m - a + 1))
           moved == [o EXCEPT !.window = v]
           young == SelectInSeq(moved.packetQueue, LAMBDA k : ~IsOldMpdu(moved, k))
           kept == IF young = 0 THEN <<>>
                   ELSE SubSeq(moved.packetQueue, young, Len(moved.packetQueue))
           gone == Stored(moved) \ ToSet(kept)
           q == [Dequeue(moved, gone) EXCEPT !.packetQueue = kept, !.bar = "queued"]
<1>1. /\ o.next \in Nat /\ o.packetQueue \in Seq(Nat) /\ o.window \in Windows
      /\ o.acked \in SUBSET Nat /\ StartsAt(o.window, a)
      /\ o.window.m_winStart = GetSequenceNumber(a)
      /\ a <= o.next /\ o.next <= a + WinSize
      /\ \A d \in o.window.set : a + d \in o.acked
      /\ o.acked \subseteq 0 .. o.next - 1
      /\ o.window.set \subseteq Nat
  BY OriginatorFields DEF WindowOK, StartsAt, Windows
<1>2. ~IsOldMpdu(o, m) /\ Distance(o, m) = m - a
  <2>1. m \in Nat /\ m < a + SEQNO_SPACE_HALF_SIZE /\ m < a + SEQNO_SPACE_SIZE
    BY <1>1, SpaceFacts
  <2>2. a <= m /\ a <= m + SEQNO_SPACE_HALF_SIZE
    BY SpaceFacts
  <2>3. ~(m < a)
    BY <2>1, <2>2
  <2> QED
    BY <1>1, <2>1, <2>2, <2>3, OldIsBefore, DistanceAhead DEF IsOldMpdu, Distance
<1>3. \E e \in m + 1 .. o.next :
          /\ v \in Windows /\ StartsAt(v, e)
          /\ \A d \in v.set : e + d \in o.acked
          /\ m + 1 .. e - 1 \subseteq o.acked
  <2> DEFINE u == Advance(o.window, m - a + 1)
  <2>1. m - a + 1 \in Nat /\ m + 1 \in Nat /\ a + (m - a + 1) = m + 1
    BY <1>1
  <2>2. /\ u \in Windows /\ StartsAt(u, m + 1)
        /\ \A d \in Nat : d \in u.set <=> d + (m - a + 1) \in o.window.set
    BY <1>1, <2>1, AdvanceDoes
  <2>3. u.set \subseteq Nat
    BY <2>2 DEF Windows
  <2> HIDE DEF u
  <2>4. ASSUME NEW d \in u.set PROVE (m + 1) + d \in o.acked
    <3>1. d + (m - a + 1) \in o.window.set /\ a + (d + (m - a + 1)) = (m + 1) + d
      BY <2>2, <2>3
    <3> QED
      BY <1>1, <3>1
  <2>5. m + 1 <= o.next
    BY <1>1
  <2>6. \E e \in m + 1 .. o.next :
            /\ AdvanceTxWindow(u) \in Windows /\ StartsAt(AdvanceTxWindow(u), e)
            /\ \A d \in AdvanceTxWindow(u).set : e + d \in o.acked
            /\ m + 1 .. e - 1 \subseteq o.acked
    <3>1. u \in Windows /\ StartsAt(u, m + 1) /\ m + 1 \in Nat /\ o.next \in Nat
      BY <1>1, <2>1, <2>2
    <3>2. o.acked \subseteq 0 .. o.next - 1
      BY <1>1
    <3> QED
      BY ONLY <2>4, <2>5, <3>1, <3>2, WindowMoves
  <2> QED
    BY <2>6 DEF u
<1>4. PICK e \in m + 1 .. o.next :
          /\ v \in Windows /\ StartsAt(v, e)
          /\ \A d \in v.set : e + d \in o.acked
          /\ m + 1 .. e - 1 \subseteq o.acked
  BY <1>3
<1>5. HandleDiscardedMpdu(o, m) = q
  BY <1>2 DEF HandleDiscardedMpdu
<1> HIDE DEF v
<1>6. /\ moved \in Originators /\ moved.window = v /\ moved.packetQueue = o.packetQueue
      /\ moved.queued = o.queued /\ moved.inFlight = o.inFlight /\ moved.acked = o.acked
      /\ moved.retryCount = o.retryCount /\ Keeps(moved, o)
  BY <1>4 DEF Originators, Keeps
<1> HIDE DEF moved
<1>7. e \in Nat
  BY <1>1
<1>8. \A k \in Stored(o) : IsOldMpdu(moved, k) <=> k < e
  <2> TAKE k \in Stored(o)
  <2>1. k \in Nat /\ k < e + SEQNO_SPACE_HALF_SIZE /\ e <= k + SEQNO_SPACE_HALF_SIZE
    <3>1. /\ a \in Nat /\ o.next \in Nat /\ a <= k /\ k < o.next /\ k \in Nat
          /\ a <= e /\ e <= o.next /\ o.next <= a + WinSize
      BY <1>1, <1>7
    <3> QED
      BY ONLY <1>7, <3>1, SpaceFacts
  <2>2. moved.window.m_winStart = GetSequenceNumber(e)
    BY <1>4, <1>6 DEF StartsAt
  <2> QED
    BY <1>7, <2>1, <2>2, OldIsBefore DEF IsOldMpdu
<1>9. young = FirstFrom(o.packetQueue, e)
  <2>1. \A i \in 1 .. Len(o.packetQueue) :
            ~IsOldMpdu(moved, o.packetQueue[i]) <=> o.packetQueue[i] >= e
    <3> TAKE i \in 1 .. Len(o.packetQueue)
    <3>1. o.packetQueue[i] \in Stored(o) /\ o.packetQueue[i] \in Nat
      BY <1>1, SetOfSeq DEF Stored
    <3> QED
      BY <1>7, <1>8, <3>1
  <2>2. {i \in 1 .. Len(o.packetQueue) : ~IsOldMpdu(moved, o.packetQueue[i])}
            = {i \in 1 .. Len(o.packetQueue) : o.packetQueue[i] >= e}
    BY <2>1
  <2>3. moved.packetQueue = o.packetQueue
    BY <1>6
  <2> QED
    BY ONLY <2>2, <2>3 DEF SelectInSeq, FirstFrom
<1> HIDE DEF young
<1>10. kept = Cut(o.packetQueue, young)
  BY <1>6 DEF Cut
<1> HIDE DEF kept
<1>11. /\ kept \in Seq(Nat) /\ IsAscending(kept)
       /\ ToSet(kept) = {k \in ToSet(o.packetQueue) : k >= e}
  <2>1. o.packetQueue \in Seq(Nat) /\ IsAscending(o.packetQueue)
    BY <1>1
  <2> QED
    BY ONLY <1>7, <1>9, <1>10, <2>1, CutDoes
<1>12. gone = {k \in Stored(o) : k < e}
  <2>1. Stored(moved) = Stored(o) /\ ToSet(o.packetQueue) = Stored(o)
    BY <1>6 DEF Stored
  <2>2. \A k \in Stored(o) : k \in Nat
    BY <1>1
  <2> QED
    BY <1>7, <1>11, <2>1, <2>2
<1> HIDE DEF gone
<1>13. /\ q \in Originators /\ Keeps(q, o)
       /\ q.queued = o.queued \ gone /\ q.inFlight = o.inFlight \ gone
       /\ q.packetQueue = kept /\ q.bar = "queued" /\ q.window = v
       /\ q.retryCount = o.retryCount /\ q.acked = o.acked
  <2> DEFINE d == Dequeue(moved, gone)
  <2>1. /\ d \in Originators /\ Keeps(d, moved)
        /\ d.queued = moved.queued \ gone /\ d.inFlight = moved.inFlight \ gone
        /\ d.window = moved.window
        /\ d.retryCount = moved.retryCount /\ d.acked = moved.acked
    BY <1>6, DequeueDoes
  <2> HIDE DEF d
  <2>2. /\ [d EXCEPT !.packetQueue = kept, !.bar = "queued"] \in Originators
        /\ Keeps([d EXCEPT !.packetQueue = kept, !.bar = "queued"], d)
    BY <1>11, <2>1 DEF Originators, Keeps
  <2>3. q = [d EXCEPT !.packetQueue = kept, !.bar = "queued"]
    BY DEF d
  <2> HIDE DEF q
  <2>4. /\ q.packetQueue = kept /\ q.bar = "queued" /\ q.queued = d.queued
        /\ q.inFlight = d.inFlight /\ q.window = d.window
        /\ q.retryCount = d.retryCount /\ q.acked = d.acked
    BY <2>1, <2>3 DEF Originators
  <2> QED
    BY <1>6, <2>1, <2>2, <2>3, <2>4 DEF Keeps
<1> HIDE DEF q
<1>14. WindowOK(q, e)
  <2>1. q.next = o.next
    BY <1>13 DEF Keeps
  <2>2. e <= o.next /\ o.next <= e + WinSize
    BY <1>1, <1>7, SpaceFacts
  <2> QED
    BY <1>1, <1>4, <1>13, <2>1, <2>2 DEF WindowOK
<1>15. IsAscending(q.packetQueue) /\ Stored(q) = {k \in Stored(o) : k >= e}
  BY <1>11, <1>13 DEF Stored
<1> QED
  BY <1>4, <1>5, <1>12, <1>13, <1>14, <1>15

(* Frames were dropped or may be sent again: p is o after it, and its window
   has moved from frame e to frame f, which a request tells the recipient. *)
Handled(p, o, e, f) ==
    /\ p \in Originators /\ Keeps(p, o) /\ p.acked = o.acked
    /\ e <= f /\ f <= o.next /\ WindowOK(p, f) /\ StoreOK(p, f)
    /\ p.queued \subseteq o.queued /\ \A k \in o.queued \ p.queued : k < f
    /\ Stored(p) \subseteq Stored(o) /\ p.inFlight = o.inFlight \cap Stored(p)
    /\ p.bar = "queued" \/ (p.bar = o.bar /\ f = e)

(* No frame in the queue may be sent again that could not be before. *)
Dropping(p, o, e, f) ==
    Handled(p, o, e, f) /\ p.queued \ Stored(p) \subseteq o.queued \ Stored(o)

LEMMA HandledTwice ==
  ASSUME NEW o \in Originators, NEW p, NEW q, NEW e \in Nat, NEW f \in Nat, NEW g \in Nat,
         Handled(p, o, e, f), Handled(q, p, f, g)
  PROVE  /\ Handled(q, o, e, g)
         /\ Dropping(p, o, e, f) /\ Dropping(q, p, f, g) => Dropping(q, o, e, g)
<1>1. /\ q \in Originators /\ Keeps(q, o) /\ q.acked = o.acked
      /\ e <= g /\ g <= o.next /\ WindowOK(q, g) /\ StoreOK(q, g)
  BY DEF Handled, Keeps
<1>2. q.queued \subseteq o.queued /\ Stored(q) \subseteq Stored(o)
  BY DEF Handled
<1>3. \A k \in o.queued \ q.queued : k < g
  <2> TAKE k \in o.queued \ q.queued
  <2>1. k \in Nat /\ f <= g
    BY OriginatorFields DEF Handled
  <2>2. k < f \/ k < g
    BY DEF Handled
  <2> QED
    BY <2>1, <2>2
<1>4. q.inFlight = o.inFlight \cap Stored(q)
  BY DEF Handled
<1>5. q.bar = "queued" \/ (q.bar = o.bar /\ g = e)
  BY DEF Handled
<1> QED
  BY <1>1, <1>2, <1>3, <1>4, <1>5 DEF Handled, Dropping

LEMMA NothingHandled ==
  ASSUME NEW o \in Originators, NEW a \in Nat, WindowOK(o, a), StoreOK(o, a)
  PROVE  Dropping(o, o, a, a)
<1>1. o.inFlight = o.inFlight \cap Stored(o) /\ a <= o.next
  BY DEF StoreOK, WindowOK
<1> QED
  BY <1>1 DEF Handled, Dropping, Keeps

(* A stored frame is discarded, when none that may be sent again is before it. *)
LEMMA DropDoes ==
  ASSUME NEW o \in Originators, NEW e \in Nat, WindowOK(o, e), StoreOK(o, e),
         NEW m \in Stored(o), \A k \in o.queued \ Stored(o) : m < k
  PROVE  LET q == DropExpired(o, m)
         IN  \E f \in e .. o.next : Dropping(q, o, e, f) /\ m \notin q.queued
<1> DEFINE p == HandleDiscardedMpdu(o, m)
           q == DropExpired(o, m)
<1>1. /\ IsAscending(o.packetQueue) /\ Stored(o) \subseteq o.queued
      /\ o.queued \subseteq e .. o.next - 1 /\ o.acked \cap o.queued = {}
      /\ m \in e .. o.next - 1 /\ Stored(o) \subseteq e .. o.next - 1
      /\ o.next \in Nat /\ o.inFlight \subseteq Stored(o)
  BY OriginatorFields DEF StoreOK
<1>2. PICK f \in m + 1 .. o.next :
          /\ p \in Originators /\ Keeps(p, o) /\ WindowOK(p, f)
          /\ m + 1 .. f - 1 \subseteq o.acked
          /\ IsAscending(p.packetQueue)
          /\ Stored(p) = {k \in Stored(o) : k >= f}
          /\ p.queued = o.queued \ {k \in Stored(o) : k < f}
          /\ p.inFlight = o.inFlight \ {k \in Stored(o) : k < f}
          /\ p.retryCount = o.retryCount /\ p.bar = "queued" /\ p.acked = o.acked
  BY <1>1, HandleDiscardedMpduDoes
<1>3. q = Dequeue(p, {m})
  BY DEF DropExpired
<1> HIDE DEF p, q
<1>4. /\ q \in Originators /\ Keeps(q, p)
      /\ q.queued = p.queued \ {m} /\ q.inFlight = p.inFlight \ {m}
      /\ q.packetQueue = p.packetQueue /\ q.window = p.window
      /\ q.bar = p.bar /\ q.acked = p.acked
  BY <1>2, <1>3, DequeueDoes
<1>5. f \in e .. o.next /\ m < f
  BY <1>1, <1>2
<1>6. Keeps(q, o) /\ q.next = o.next /\ q.acked = o.acked /\ q.bar = "queued"
  BY <1>2, <1>4 DEF Keeps
<1>7. WindowOK(q, f)
  BY <1>2, <1>4, <1>6 DEF WindowOK, Keeps
<1>8. Stored(q) = {k \in Stored(o) : k >= f} /\ m \notin Stored(q)
  BY <1>1, <1>2, <1>4, <1>5 DEF Stored
<1>9. q.queued = o.queued \ {k \in Stored(o) : k < f} /\ m \notin q.queued
  BY <1>1, <1>2, <1>4, <1>5
<1>10. \A k \in q.queued : k >= f
  <2> SUFFICES ASSUME NEW k \in o.queued, ~(k \in Stored(o) /\ k < f), k < f PROVE FALSE
    BY <1>1, <1>5, <1>9
  <2>1. k \in Nat /\ m < k
    BY <1>1
  <2>2. k \in m + 1 .. f - 1
    BY <1>1, <1>5, <2>1
  <2> QED
    BY <1>1, <1>2, <2>2
<1>11. q.queued \subseteq f .. o.next - 1
  BY <1>1, <1>5, <1>9, <1>10
<1>12. q.inFlight = o.inFlight \cap Stored(q)
  <2>1. q.inFlight = o.inFlight \ {k \in Stored(o) : k < f}
    BY <1>1, <1>2, <1>4, <1>5
  <2> QED
    BY <1>1, <1>5, <1>8, <2>1
<1>13. Stored(q) \subseteq q.queued
  BY <1>1, <1>5, <1>8, <1>9
<1>14. StoreOK(q, f)
  BY <1>1, <1>2, <1>4, <1>6, <1>9, <1>11, <1>12, <1>13 DEF StoreOK
<1>15. \A k \in o.queued \ q.queued : k < f
  BY <1>9
<1>16. q.queued \ Stored(q) \subseteq o.queued \ Stored(o)
  BY <1>8, <1>9, <1>10
<1>17. Dropping(q, o, e, f)
  BY <1>4, <1>5, <1>6, <1>7, <1>8, <1>9, <1>12, <1>14, <1>15, <1>16 DEF Dropping, Handled
<1> QED
  BY <1>5, <1>9, <1>17 DEF q

(* A frame was not acknowledged: one that has not expired may be sent again,
   or stays in flight. *)
LEMMA HandleInFlightMpduDoes ==
  ASSUME NEW o \in Originators, NEW e \in Nat, WindowOK(o, e), StoreOK(o, e),
         NEW m \in Stored(o), NEW retransmit \in BOOLEAN, expiredTo \in Nat,
         \A k \in o.queued \ Stored(o) : k < m => k >= expiredTo
  PROVE  LET q == HandleInFlightMpdu(o, m, retransmit)
         IN  \E f \in e .. o.next :
                 /\ Handled(q, o, e, f)
                 /\ \A k \in q.queued \ Stored(q) :
                        \/ k \in o.queued \ Stored(o)
                        \/ k = m /\ retransmit /\ k >= expiredTo
                 /\ retransmit => m \notin Stored(q)
<1> DEFINE q == HandleInFlightMpdu(o, m, retransmit)
<1>1. /\ Stored(o) \subseteq o.queued /\ o.queued \subseteq e .. o.next - 1
      /\ IsAscending(o.packetQueue) /\ o.inFlight \subseteq Stored(o)
      /\ o.next \in Nat /\ o.next <= e + WinSize /\ StartsAt(o.window, e) /\ e <= o.next
      /\ o.acked \cap o.queued = {}
  BY OriginatorFields DEF StoreOK, WindowOK
<1>2. m \in o.queued /\ m \in e .. o.next - 1 /\ m \in Nat
  BY <1>1
<1>3. ~IsOldMpdu(o, m)
  <2>1. m < e + SEQNO_SPACE_HALF_SIZE /\ e <= m + SEQNO_SPACE_HALF_SIZE /\ ~(m < e)
    BY <1>1, <1>2, SpaceFacts
  <2> QED
    BY <1>1, <1>2, <2>1, OldIsBefore DEF IsOldMpdu, StartsAt
<1>4. CASE m < expiredTo
  <2>1. q = DropExpired(o, m)
    BY <1>2, <1>3, <1>4 DEF HandleInFlightMpdu
  <2>2. \A k \in o.queued \ Stored(o) : m < k
    <3> TAKE k \in o.queued \ Stored(o)
    <3>1. k \in Nat /\ k # m /\ (k < m => k >= expiredTo)
      BY <1>1
    <3> QED
      BY <1>2, <1>4, <3>1
  <2>3. PICK f \in e .. o.next : Dropping(q, o, e, f) /\ m \notin q.queued
    BY <2>1, <2>2, DropDoes
  <2> HIDE DEF q
  <2>4. Handled(q, o, e, f) /\ Stored(q) \subseteq q.queued
    BY <2>3 DEF Dropping, Handled, StoreOK
  <2> QED
    BY <2>3, <2>4 DEF Dropping, q
<1>5. CASE ~(m < expiredTo) /\ retransmit
  <2> DEFINE p == [o EXCEPT !.inFlight = @ \ {m}]
  <2>1. q = Erase(p, m)
    BY <1>2, <1>3, <1>5 DEF HandleInFlightMpdu
  <2>2. /\ p \in Originators /\ Keeps(p, o) /\ p.packetQueue = o.packetQueue
        /\ p.queued = o.queued /\ p.inFlight = o.inFlight \ {m} /\ p.window = o.window
        /\ p.bar = o.bar /\ p.acked = o.acked
    BY DEF Originators, Keeps
  <2> HIDE DEF p, q
  <2>3. /\ q \in Originators /\ Keeps(q, p)
        /\ q.queued = p.queued /\ q.inFlight = p.inFlight
        /\ IsAscending(q.packetQueue) /\ Stored(q) = Stored(p) \ {m}
        /\ q.window = p.window /\ q.bar = p.bar /\ q.acked = p.acked
    <3>1. IsAscending(p.packetQueue)
      BY <1>1, <2>2
    <3> QED
      BY <1>2, <2>1, <2>2, <3>1, EraseDoes
  <2>4. Keeps(q, o) /\ q.next = o.next /\ Stored(q) = Stored(o) \ {m}
    BY <2>2, <2>3 DEF Keeps, Stored
  <2>5. WindowOK(q, e)
    BY <2>2, <2>3, <2>4 DEF WindowOK
  <2>6. StoreOK(q, e)
    BY <1>1, <2>2, <2>3, <2>4 DEF StoreOK
  <2>7. Handled(q, o, e, e)
    BY <1>1, <2>2, <2>3, <2>4, <2>5, <2>6 DEF Handled
  <2>8. \A k \in q.queued \ Stored(q) : k \in o.queued \ Stored(o) \/ k = m
    BY <2>2, <2>3, <2>4
  <2>9. m >= expiredTo /\ e \in e .. o.next
    BY <1>1, <1>2, <1>5
  <2> QED
    BY <1>5, <2>4, <2>7, <2>8, <2>9 DEF q
<1>6. CASE ~(m < expiredTo) /\ ~retransmit
  <2>1. q = o
    BY <1>2, <1>3, <1>6 DEF HandleInFlightMpdu
  <2> HIDE DEF q
  <2>2. Dropping(o, o, e, e) /\ e \in e .. o.next
    BY <1>1, NothingHandled
  <2> QED
    BY <1>6, <2>1, <2>2 DEF Dropping, q
<1> QED
  BY <1>4, <1>5, <1>6

(* No block ack came: no frame stays in flight. *)
LEMMA NotifyMissedBlockAckDoes ==
  ASSUME NEW o \in Originators, NEW a \in Nat, WindowOK(o, a), QueueOK(o, a),
         InFlightFirst(o), expiredTo \in Nat
  PROVE  LET q == NotifyMissedBlockAck(o)
         IN  \E f \in a .. o.next : Handled(q, o, a, f) /\ Stored(q) = {}
<1> DEFINE mpdus == o.packetQueue
           N == Len(mpdus)
           H(p, m) == IF m \in Stored(p) THEN HandleInFlightMpdu(p, m, m \in p.inFlight) ELSE p
           holds(p, n) == \E f \in a .. o.next :
                             /\ Handled(p, o, a, f)
                             /\ \A i \in 1 .. n : mpdus[i] \notin Stored(p)
                             /\ \A k \in p.queued \ Stored(p) :
                                    k \in o.queued \ Stored(o) \/ k >= expiredTo
           S == [n \in 0 .. N |-> {p \in Originators : holds(p, n)}]
           G == [x \in Nat \X Originators |-> H(x[2], mpdus[x[1]])]
           Rec(f) == f = [n \in 0 .. N |-> IF n = 0 THEN o ELSE H(f[n - 1], mpdus[n])]
           g == CHOOSE f : Rec(f)
<1>1. NotifyMissedBlockAck(o) = g[N]
  BY DEF NotifyMissedBlockAck, ForEachStored, ForEach
<1>2. mpdus \in Seq(Nat)
  BY OriginatorFields
<1>3. /\ N \in Nat /\ \A n \in 1 .. N : n \in 0 .. N /\ n - 1 \in 0 .. N /\ n \in Nat /\ n # 0
      /\ 0 \in 0 .. N /\ N \in 0 .. N
  BY <1>2, SetOfSeq
<1> HIDE DEF N, g
<1>4. /\ \A n \in 0 .. N : \A p : p \in S[n] <=> p \in Originators /\ holds(p, n)
      /\ \A n \in Nat, p \in Originators : G[<<n, p>>] = H(p, mpdus[n])
  <2> HIDE DEF H, holds, mpdus
  <2> QED
    OBVIOUS
<1> HIDE DEF S, G
<1>5. o \in Originators /\ holds(o, 0)
  <2>1. Dropping(o, o, a, a) /\ a \in a .. o.next
    BY NothingHandled, OriginatorFields DEF QueueOK, WindowOK
  <2>2. 1 .. 0 = {}
    OBVIOUS
  <2> QED
    BY <2>1, <2>2 DEF Dropping
<1>6. ASSUME NEW n \in 1 .. N, NEW p \in Originators, holds(p, n - 1)
      PROVE  H(p, mpdus[n]) \in Originators /\ holds(H(p, mpdus[n]), n)
  <2> DEFINE m == mpdus[n]
             q == HandleInFlightMpdu(p, m, TRUE)
  <2>1. PICK e \in a .. o.next :
            /\ Handled(p, o, a, e)
            /\ \A i \in 1 .. n - 1 : mpdus[i] \notin Stored(p)
            /\ \A k \in p.queued \ Stored(p) :
                   k \in o.queued \ Stored(o) \/ k >= expiredTo
    BY <1>6
  <2>2. /\ WindowOK(p, e) /\ StoreOK(p, e) /\ p.next = o.next /\ e \in Nat
        /\ Stored(p) \subseteq Stored(o) /\ p.inFlight = Stored(p)
        /\ o.next \in Nat
    BY <2>1, OriginatorFields DEF Handled, QueueOK, Keeps
  <2>3. \A i \in 1 .. n : i \in 1 .. n - 1 \/ i = n
    BY <1>3
  <2>4. CASE m \notin Stored(p)
    <3>1. H(p, m) = p
      BY <2>4
    <3>2. holds(p, n)
      BY <2>1, <2>3, <2>4
    <3> QED
      BY <3>1, <3>2
  <2>5. CASE m \in Stored(p)
    <3>1. \A k \in p.queued \ Stored(p) : k < m => k >= expiredTo
      <4> TAKE k \in p.queued \ Stored(p)
      <4>1. k \in o.queued \ o.inFlight => m < k
        BY <2>2, <2>5 DEF InFlightFirst, QueueOK
      <4>2. k \in Nat /\ m \in Nat
        BY <2>2, <2>5, OriginatorFields DEF StoreOK
      <4>3. k \in o.queued \ Stored(o) => k \in o.queued \ o.inFlight
        BY DEF QueueOK
      <4> QED
        BY <2>1, <4>1, <4>2, <4>3
    <3>2. H(p, m) = q
      <4>1. (m \in p.inFlight) = TRUE
        BY <2>2, <2>5
      <4>2. HandleInFlightMpdu(p, m, m \in p.inFlight) = q
        BY ONLY <4>1
      <4> QED
        BY <2>5, <4>2
    <3>3. PICK f \in e .. p.next :
              /\ Handled(q, p, e, f)
              /\ \A k \in q.queued \ Stored(q) :
                     \/ k \in p.queued \ Stored(p)
                     \/ k = m /\ TRUE /\ k >= expiredTo
              /\ TRUE => m \notin Stored(q)
      <4>1. /\ p \in Originators /\ e \in Nat /\ WindowOK(p, e) /\ StoreOK(p, e)
            /\ m \in Stored(p) /\ TRUE \in BOOLEAN /\ expiredTo \in Nat
        BY <2>2, <2>5
      <4> QED
        BY ONLY <3>1, <4>1, HandleInFlightMpduDoes
    <3> HIDE DEF q, H, m
    <3>4. f \in a .. o.next /\ f \in Nat
      BY <2>2
    <3>5. Handled(q, o, a, f)
      BY <2>1, <2>2, <3>3, <3>4, HandledTwice
    <3>6. Stored(q) \subseteq Stored(p) /\ q \in Originators
      BY <3>3 DEF Handled
    <3>7. \A i \in 1 .. n : mpdus[i] \notin Stored(q)
      BY <2>1, <2>3, <3>3, <3>6 DEF m
    <3>8. \A k \in q.queued \ Stored(q) : k \in o.queued \ Stored(o) \/ k >= expiredTo
      BY <2>1, <3>3
    <3>9. holds(q, n)
      BY <3>4, <3>5, <3>7, <3>8
    <3> QED
      BY <3>2, <3>6, <3>9 DEF m
  <2> QED
    BY <2>4, <2>5
<1>7. Passing(G, S, N)
  <2> HIDE DEF H, holds, mpdus
  <2>1. ASSUME NEW n \in 1 .. N, NEW p \in S[n - 1] PROVE G[<<n, p>>] \in S[n]
    <3>1. p \in Originators /\ holds(p, n - 1)
      BY ONLY <1>3, <1>4, <2>1
    <3>2. H(p, mpdus[n]) \in Originators /\ holds(H(p, mpdus[n]), n)
      BY ONLY <1>6, <2>1, <3>1
    <3> QED
      BY ONLY <1>3, <1>4, <2>1, <3>1, <3>2
  <2> QED
    BY <2>1 DEF Passing
<1>8. PICK h : /\ h = [n \in 0 .. N |-> h[n]]
               /\ h[0] = o
               /\ \A n \in 0 .. N : h[n] \in S[n]
               /\ \A n \in 1 .. N : h[n] = G[<<n, h[n - 1]>>]
  <2> DEFINE start == o
  <2>1. start \in S[0]
    <3> HIDE DEF holds, start
    <3> QED
      BY ONLY <1>3, <1>4, <1>5 DEF start
  <2> HIDE DEF start
  <2>2. \E f : /\ f = [n \in 0 .. N |-> f[n]]
               /\ f[0] = start
               /\ \A n \in 0 .. N : f[n] \in S[n]
               /\ \A n \in 1 .. N : f[n] = G[<<n, f[n - 1]>>]
    BY ONLY <1>3, <1>7, <2>1, LoopRuns
  <2> QED
    BY <2>2 DEF start
<1>9. Rec(h)
  <2> HIDE DEF H, holds, mpdus
  <2>1. \A n \in 0 .. N : h[n] \in Originators
    BY ONLY <1>4, <1>8
  <2>2. \A n \in 1 .. N : h[n] = H(h[n - 1], mpdus[n])
    BY ONLY <1>3, <1>4, <1>8, <2>1
  <2>3. \A n \in 0 .. N : n = 0 \/ n \in 1 .. N
    BY ONLY <1>3
  <2> QED
    BY ONLY <1>8, <2>2, <2>3
<1>10. Rec(g)
  <2>1. \E x : Rec(x)
    BY <1>9
  <2> HIDE DEF Rec
  <2> QED
    BY <2>1 DEF g
<1>11. g[0] = o /\ \A n \in 1 .. N : g[n] = H(g[n - 1], mpdus[n])
  <2> HIDE DEF H, mpdus
  <2> QED
    BY ONLY <1>3, <1>10
<1>12. \A n \in 0 .. N : g[n] \in S[n]
  <2> HIDE DEF H, holds, mpdus
  <2>1. g[0] \in S[0]
    BY ONLY <1>3, <1>4, <1>5, <1>11
  <2>2. ASSUME NEW n \in 1 .. N, g[n - 1] \in S[n - 1] PROVE g[n] \in S[n]
    <3>1. g[n - 1] \in Originators /\ holds(g[n - 1], n - 1)
      BY ONLY <1>3, <1>4, <2>2
    <3>2. H(g[n - 1], mpdus[n]) \in Originators /\ holds(H(g[n - 1], mpdus[n]), n)
      BY ONLY <1>6, <2>2, <3>1
    <3> QED
      BY ONLY <1>3, <1>4, <1>11, <2>2, <3>2
  <2> QED
    BY ONLY <1>3, <2>1, <2>2, LoopKeeps
<1>13. g[N] \in Originators /\ holds(g[N], N)
  <2> HIDE DEF H, holds, mpdus
  <2> QED
    BY ONLY <1>3, <1>4, <1>12
<1>14. PICK f \in a .. o.next :
          Handled(g[N], o, a, f) /\ \A i \in 1 .. N : mpdus[i] \notin Stored(g[N])
  BY <1>13
<1>15. Stored(g[N]) = {}
  <2>1. Stored(g[N]) \subseteq {mpdus[i] : i \in 1 .. N}
    BY <1>2, <1>14, SetOfSeq DEF Handled, Stored, N
  <2> QED
    BY <1>14, <2>1
<1> QED
  BY <1>1, <1>14, <1>15

(* Old and expired frames at the head were dropped. *)
LEMMA DropHeadsDoes ==
  ASSUME NEW o \in Originators, NEW a \in Nat, WindowOK(o, a), QueueOK(o, a),
         InFlightFirst(o), expiredTo \in Nat
  PROVE  LET q == DropHeads(o)
         IN  \E f \in a .. o.next : Dropping(q, o, a, f)
<1> DEFINE mpdus == o.packetQueue
           N == Len(mpdus)
           H(p, m) == IF m \in Stored(p)
                      THEN IF m = Head(p.packetQueue) THEN HandleInFlightMpdu(p, m, FALSE) ELSE p
                      ELSE p
           holds(p, n) == \E f \in a .. o.next : Dropping(p, o, a, f)
           S == [n \in 0 .. N |-> {p \in Originators : holds(p, n)}]
           G == [x \in Nat \X Originators |-> H(x[2], mpdus[x[1]])]
           Rec(f) == f = [n \in 0 .. N |-> IF n = 0 THEN o ELSE H(f[n - 1], mpdus[n])]
           g == CHOOSE f : Rec(f)
<1>1. DropHeads(o) = g[N]
  BY DEF DropHeads, ForEachStored, ForEach
<1>2. mpdus \in Seq(Nat)
  BY OriginatorFields
<1>3. /\ N \in Nat /\ \A n \in 1 .. N : n \in 0 .. N /\ n - 1 \in 0 .. N /\ n \in Nat /\ n # 0
      /\ 0 \in 0 .. N /\ N \in 0 .. N
  BY <1>2, SetOfSeq
<1> HIDE DEF N, g
<1>4. /\ \A n \in 0 .. N : \A p : p \in S[n] <=> p \in Originators /\ holds(p, n)
      /\ \A n \in Nat, p \in Originators : G[<<n, p>>] = H(p, mpdus[n])
  <2> HIDE DEF H, holds, mpdus
  <2> QED
    OBVIOUS
<1> HIDE DEF S, G
<1>5. o \in Originators /\ holds(o, 0)
  <2>1. Dropping(o, o, a, a) /\ a \in a .. o.next
    BY NothingHandled, OriginatorFields DEF QueueOK, WindowOK
  <2> QED
    BY <2>1
<1>6. ASSUME NEW n \in 1 .. N, NEW p \in Originators, holds(p, n - 1)
      PROVE  H(p, mpdus[n]) \in Originators /\ holds(H(p, mpdus[n]), n)
  <2> DEFINE m == mpdus[n]
             q == HandleInFlightMpdu(p, m, FALSE)
  <2>1. PICK e \in a .. o.next : Dropping(p, o, a, e)
    BY <1>6
  <2>2. /\ WindowOK(p, e) /\ StoreOK(p, e) /\ p.next = o.next /\ e \in Nat
        /\ Stored(p) \subseteq Stored(o) /\ Stored(o) = o.inFlight
        /\ p.queued \ Stored(p) \subseteq o.queued \ o.inFlight
        /\ p.queued \subseteq o.queued /\ \A k \in o.queued \ p.queued : k < e
        /\ o.next \in Nat
    BY <2>1, OriginatorFields DEF Dropping, Handled, QueueOK, Keeps
  <2>3. CASE ~(m \in Stored(p) /\ m = Head(p.packetQueue))
    <3>1. H(p, m) = p
      BY <2>3
    <3> QED
      BY <2>1, <3>1
  <2>4. CASE m \in Stored(p) /\ m = Head(p.packetQueue)
    <3>1. \A k \in p.queued \ Stored(p) : k < m => k >= expiredTo
      <4> TAKE k \in p.queued \ Stored(p)
      <4>1. m < k
        BY <2>2, <2>4 DEF InFlightFirst
      <4>2. k \in Nat /\ m \in Nat
        BY <2>2, <2>4, OriginatorFields DEF StoreOK
      <4> QED
        BY <4>1, <4>2
    <3>2. H(p, m) = q
      BY <2>4
    <3>3. PICK f \in e .. p.next :
              /\ Handled(q, p, e, f)
              /\ \A k \in q.queued \ Stored(q) : k \in p.queued \ Stored(p)
      <4>1. PICK no \in BOOLEAN : no = FALSE
        OBVIOUS
      <4> DEFINE r == HandleInFlightMpdu(p, m, no)
      <4>2. q = r
        BY ONLY <4>1
      <4>3. /\ p \in Originators /\ e \in Nat /\ WindowOK(p, e) /\ StoreOK(p, e)
            /\ m \in Stored(p) /\ no \in BOOLEAN /\ expiredTo \in Nat
        BY <2>2, <2>4
      <4>4. \E f \in e .. p.next :
                /\ Handled(r, p, e, f)
                /\ \A k \in r.queued \ Stored(r) :
                       \/ k \in p.queued \ Stored(p)
                       \/ k = m /\ no /\ k >= expiredTo
                /\ no => m \notin Stored(r)
        BY ONLY <3>1, <4>3, HandleInFlightMpduDoes
      <4> HIDE DEF q, r
      <4> QED
        BY ONLY <4>1, <4>2, <4>4
    <3> HIDE DEF q, H, m
    <3>4. f \in a .. o.next /\ f \in Nat
      BY <2>2
    <3>5. Dropping(q, p, e, f)
      BY <3>3 DEF Dropping
    <3>6. Dropping(q, o, a, f) /\ q \in Originators
      <4>1. /\ o \in Originators /\ a \in Nat /\ e \in Nat /\ f \in Nat
            /\ Dropping(p, o, a, e) /\ Handled(p, o, a, e) /\ Handled(q, p, e, f)
            /\ Dropping(q, p, e, f)
        BY <2>1, <2>2, <3>3, <3>4, <3>5 DEF Dropping
      <4>2. q \in Originators
        BY ONLY <4>1 DEF Handled
      <4>3. /\ Handled(q, o, a, f)
            /\ Dropping(p, o, a, e) /\ Dropping(q, p, e, f) => Dropping(q, o, a, f)
        BY ONLY <4>1, HandledTwice
      <4> QED
        BY ONLY <4>1, <4>2, <4>3
    <3> QED
      BY <3>2, <3>4, <3>6 DEF m
  <2> QED
    BY <2>3, <2>4
<1>7. Passing(G, S, N)
  <2> HIDE DEF H, holds, mpdus
  <2>1. ASSUME NEW n \in 1 .. N, NEW p \in S[n - 1] PROVE G[<<n, p>>] \in S[n]
    <3>1. p \in Originators /\ holds(p, n - 1)
      BY ONLY <1>3, <1>4, <2>1
    <3>2. H(p, mpdus[n]) \in Originators /\ holds(H(p, mpdus[n]), n)
      BY ONLY <1>6, <2>1, <3>1
    <3> QED
      BY ONLY <1>3, <1>4, <2>1, <3>1, <3>2
  <2> QED
    BY <2>1 DEF Passing
<1>8. PICK h : /\ h = [n \in 0 .. N |-> h[n]]
               /\ h[0] = o
               /\ \A n \in 0 .. N : h[n] \in S[n]
               /\ \A n \in 1 .. N : h[n] = G[<<n, h[n - 1]>>]
  <2> DEFINE start == o
  <2>1. start \in S[0]
    <3> HIDE DEF holds, start
    <3> QED
      BY ONLY <1>3, <1>4, <1>5 DEF start
  <2> HIDE DEF start
  <2>2. \E f : /\ f = [n \in 0 .. N |-> f[n]]
               /\ f[0] = start
               /\ \A n \in 0 .. N : f[n] \in S[n]
               /\ \A n \in 1 .. N : f[n] = G[<<n, f[n - 1]>>]
    BY ONLY <1>3, <1>7, <2>1, LoopRuns
  <2> QED
    BY <2>2 DEF start
<1>9. Rec(h)
  <2> HIDE DEF H, holds, mpdus
  <2>1. \A n \in 0 .. N : h[n] \in Originators
    BY ONLY <1>4, <1>8
  <2>2. \A n \in 1 .. N : h[n] = H(h[n - 1], mpdus[n])
    BY ONLY <1>3, <1>4, <1>8, <2>1
  <2>3. \A n \in 0 .. N : n = 0 \/ n \in 1 .. N
    BY ONLY <1>3
  <2> QED
    BY ONLY <1>8, <2>2, <2>3
<1>10. Rec(g)
  <2>1. \E x : Rec(x)
    BY <1>9
  <2> HIDE DEF Rec
  <2> QED
    BY <2>1 DEF g
<1>11. g[0] = o /\ \A n \in 1 .. N : g[n] = H(g[n - 1], mpdus[n])
  <2> HIDE DEF H, mpdus
  <2> QED
    BY ONLY <1>3, <1>10
<1>12. \A n \in 0 .. N : g[n] \in S[n]
  <2> HIDE DEF H, holds, mpdus
  <2>1. g[0] \in S[0]
    BY ONLY <1>3, <1>4, <1>5, <1>11
  <2>2. ASSUME NEW n \in 1 .. N, g[n - 1] \in S[n - 1] PROVE g[n] \in S[n]
    <3>1. g[n - 1] \in Originators /\ holds(g[n - 1], n - 1)
      BY ONLY <1>3, <1>4, <2>2
    <3>2. H(g[n - 1], mpdus[n]) \in Originators /\ holds(H(g[n - 1], mpdus[n]), n)
      BY ONLY <1>6, <2>2, <3>1
    <3> QED
      BY ONLY <1>3, <1>4, <1>11, <2>2, <3>2
  <2> QED
    BY ONLY <1>3, <2>1, <2>2, LoopKeeps
<1>13. g[N] \in Originators /\ holds(g[N], N)
  <2> HIDE DEF H, holds, mpdus
  <2> QED
    BY ONLY <1>3, <1>4, <1>12
<1> QED
  BY <1>1, <1>13

(* The frames of an exchange that have been sent often enough are given up;
   those in flight are of that exchange, and the others have been dealt with. *)
LEMMA DropMpduIfRetryLimitReachedDoes ==
  ASSUME NEW o \in Originators, NEW a \in Nat, WindowOK(o, a), QueueOK(o, a),
         InFlightFirst(o), NEW mpdus \in Seq(Nat),
         \A m \in ToSet(mpdus) : o.next <= m + WinSize /\ m < o.next,
         o.inFlight = o.queued \cap ToSet(mpdus),
         \A m \in ToSet(mpdus) \ o.queued : m < a
  PROVE  LET q == DropMpduIfRetryLimitReached(o, mpdus)
         IN  \E f \in a .. o.next : Dropping(q, o, a, f)
<1> DEFINE counted == IF RetryIsCounted
                      THEN [o EXCEPT !.retryCount =
                               [m \in Mpdus |-> IF m \in ToSet(mpdus) THEN @[m] + 1 ELSE @[m]]]
                      ELSE o
           N == Len(mpdus)
           H(p, m) == IF counted.retryCount[m] = FrameRetryLimit THEN DropExpired(p, m) ELSE p
           holds(p, n) == \E f \in a .. o.next : Dropping(p, o, a, f)
           S == [n \in 0 .. N |-> {p \in Originators : holds(p, n)}]
           G == [x \in Nat \X Originators |-> H(x[2], mpdus[x[1]])]
           Rec(f) == f = [n \in 0 .. N |-> IF n = 0 THEN counted ELSE H(f[n - 1], mpdus[n])]
           g == CHOOSE f : Rec(f)
<1>1. DropMpduIfRetryLimitReached(o, mpdus) = g[N]
  BY DEF DropMpduIfRetryLimitReached, DropExpired, counted, ForEach
<1> HIDE DEF counted
<1>2. mpdus \in Seq(Nat)
  OBVIOUS
<1>3. /\ N \in Nat /\ \A n \in 1 .. N : n \in 0 .. N /\ n - 1 \in 0 .. N /\ n \in Nat /\ n # 0
      /\ 0 \in 0 .. N /\ N \in 0 .. N
  BY <1>2, SetOfSeq
<1> HIDE DEF N, g
<1>4. /\ \A n \in 0 .. N : \A p : p \in S[n] <=> p \in Originators /\ holds(p, n)
      /\ \A n \in Nat, p \in Originators : G[<<n, p>>] = H(p, mpdus[n])
  <2> HIDE DEF H, holds
  <2> QED
    OBVIOUS
<1> HIDE DEF S, G
<1>5. counted \in Originators /\ holds(counted, 0)
  <2>1. Dropping(o, o, a, a) /\ a \in a .. o.next
    BY NothingHandled, OriginatorFields DEF QueueOK, WindowOK
  <2>2. /\ counted \in Originators /\ Keeps(counted, o)
        /\ counted.queued = o.queued /\ counted.inFlight = o.inFlight
        /\ counted.packetQueue = o.packetQueue /\ counted.window = o.window
        /\ counted.bar = o.bar /\ counted.acked = o.acked
    <3>1. CASE ~RetryIsCounted
      BY <3>1 DEF Keeps, counted
    <3>2. CASE RetryIsCounted
      <4> DEFINE c == [m \in Mpdus |-> IF m \in ToSet(mpdus) THEN o.retryCount[m] + 1
                                                             ELSE o.retryCount[m]]
      <4>1. c \in [Mpdus -> Nat]
        BY OriginatorFields
      <4>2. counted = [o EXCEPT !.retryCount = c]
        BY <3>2 DEF counted
      <4> HIDE DEF c
      <4> QED
        BY <4>1, <4>2 DEF Originators, Keeps
    <3> QED
      BY <3>1, <3>2
  <2>3. Stored(counted) = Stored(o) /\ counted.next = o.next
    BY <2>2 DEF Stored, Keeps
  <2>4. WindowOK(counted, a) /\ StoreOK(counted, a)
    BY <2>1, <2>2, <2>3 DEF WindowOK, StoreOK, Dropping, Handled
  <2>5. Dropping(counted, o, a, a)
    BY <2>1, <2>2, <2>3, <2>4 DEF Dropping, Handled
  <2> QED
    BY <2>1, <2>2, <2>5
<1>6. ASSUME NEW n \in 1 .. N, NEW p \in Originators, holds(p, n - 1)
      PROVE  H(p, mpdus[n]) \in Originators /\ holds(H(p, mpdus[n]), n)
  <2> DEFINE m == mpdus[n]
             q == DropExpired(p, m)
  <2>1. PICK e \in a .. o.next : Dropping(p, o, a, e)
    BY <1>6
  <2>2. /\ WindowOK(p, e) /\ StoreOK(p, e) /\ p.next = o.next /\ e \in Nat
        /\ Stored(p) \subseteq Stored(o) /\ Stored(o) = o.inFlight
        /\ p.queued \ Stored(p) \subseteq o.queued \ o.inFlight
        /\ p.queued \subseteq o.queued /\ \A k \in o.queued \ p.queued : k < e
        /\ o.next \in Nat
    BY <2>1, OriginatorFields DEF Dropping, Handled, QueueOK, Keeps
  <2>a. m \in ToSet(mpdus) /\ m \in Nat
    BY <1>2, SetOfSeq DEF N
  <2>3. CASE counted.retryCount[m] # FrameRetryLimit
    <3>1. H(p, m) = p
      BY <2>3
    <3> QED
      BY <2>1, <3>1
  <2>4. CASE counted.retryCount[m] = FrameRetryLimit /\ m \in p.queued
    <3>1. m \in o.inFlight /\ m \in Stored(p)
      BY <2>2, <2>4, <2>a
    <3>2. \A k \in p.queued \ Stored(p) : m < k
      BY <2>2, <3>1 DEF InFlightFirst
    <3>3. H(p, m) = q
      BY <2>4
    <3>4. PICK f \in e .. p.next : Dropping(q, p, e, f)
      BY <2>2, <3>1, <3>2, DropDoes
    <3> HIDE DEF q, H, m
    <3>5. f \in a .. o.next /\ f \in Nat
      BY <2>2
    <3>6. Dropping(q, o, a, f) /\ q \in Originators
      <4>1. /\ o \in Originators /\ a \in Nat /\ e \in Nat /\ f \in Nat
            /\ Dropping(p, o, a, e) /\ Handled(p, o, a, e) /\ Handled(q, p, e, f)
            /\ Dropping(q, p, e, f)
        BY <2>1, <2>2, <3>4, <3>5 DEF Dropping
      <4>2. q \in Originators
        BY ONLY <4>1 DEF Handled
      <4>3. /\ Handled(q, o, a, f)
            /\ Dropping(p, o, a, e) /\ Dropping(q, p, e, f) => Dropping(q, o, a, f)
        BY ONLY <4>1, HandledTwice
      <4> QED
        BY ONLY <4>1, <4>2, <4>3
    <3> QED
      BY <3>3, <3>5, <3>6 DEF m
  <2>5. CASE counted.retryCount[m] = FrameRetryLimit /\ m \notin p.queued
    <3>1. m < e
      <4>1. m < a \/ m < e
        BY <2>2, <2>5, <2>a
      <4> QED
        BY <2>2, <2>a, <4>1
    <3>2. IsOldMpdu(p, m)
      <4>1. p.window.m_winStart = GetSequenceNumber(e) /\ e <= o.next
        BY <2>2 DEF WindowOK, StartsAt
      <4>2. o.next <= m + WinSize
        BY <2>a
      <4>3. m < e + SEQNO_SPACE_HALF_SIZE /\ e <= m + SEQNO_SPACE_HALF_SIZE
        <5>1. m \in Nat /\ e \in Nat /\ o.next \in Nat /\ m < e
          BY <2>2, <2>a, <3>1
        <5> HIDE DEF m
        <5> QED
          BY ONLY <4>1, <4>2, <5>1, SpaceFacts
      <4> QED
        BY <2>2, <2>a, <3>1, <4>1, <4>3, OldIsBefore DEF IsOldMpdu
    <3>3. q = Dequeue(p, {m})
      BY <3>2 DEF DropExpired, HandleDiscardedMpdu
    <3>4. /\ q \in Originators /\ Keeps(q, p)
          /\ q.queued = p.queued \ {m} /\ q.inFlight = p.inFlight \ {m}
          /\ q.packetQueue = p.packetQueue /\ q.window = p.window
          /\ q.bar = p.bar /\ q.acked = p.acked
      BY <3>3, DequeueDoes
    <3>5. H(p, m) = q
      BY <2>5
    <3> HIDE DEF q, H, m
    <3>6. /\ q.queued = p.queued /\ q.inFlight = p.inFlight /\ Stored(q) = Stored(p)
          /\ Keeps(q, o) /\ q.next = p.next
      BY <2>1, <2>2, <2>5, <3>4 DEF StoreOK, Stored, Dropping, Handled, Keeps
    <3>7. WindowOK(q, e) /\ StoreOK(q, e)
      BY <2>2, <3>4, <3>6 DEF WindowOK, StoreOK
    <3>8. Dropping(q, o, a, e)
      BY <2>1, <3>4, <3>6, <3>7 DEF Dropping, Handled
    <3> QED
      BY <3>4, <3>5, <3>8 DEF m
  <2> QED
    BY <2>3, <2>4, <2>5
<1>7. Passing(G, S, N)
  <2> HIDE DEF H, holds
  <2>1. ASSUME NEW n \in 1 .. N, NEW p \in S[n - 1] PROVE G[<<n, p>>] \in S[n]
    <3>1. p \in Originators /\ holds(p, n - 1)
      BY ONLY <1>3, <1>4, <2>1
    <3>2. H(p, mpdus[n]) \in Originators /\ holds(H(p, mpdus[n]), n)
      BY ONLY <1>6, <2>1, <3>1
    <3> QED
      BY ONLY <1>3, <1>4, <2>1, <3>1, <3>2
  <2> QED
    BY <2>1 DEF Passing
<1>8. PICK h : /\ h = [n \in 0 .. N |-> h[n]]
               /\ h[0] = counted
               /\ \A n \in 0 .. N : h[n] \in S[n]
               /\ \A n \in 1 .. N : h[n] = G[<<n, h[n - 1]>>]
  <2> DEFINE start == counted
  <2>1. start \in S[0]
    <3> HIDE DEF holds, start
    <3> QED
      BY ONLY <1>3, <1>4, <1>5 DEF start
  <2> HIDE DEF start
  <2>2. \E f : /\ f = [n \in 0 .. N |-> f[n]]
               /\ f[0] = start
               /\ \A n \in 0 .. N : f[n] \in S[n]
               /\ \A n \in 1 .. N : f[n] = G[<<n, f[n - 1]>>]
    BY ONLY <1>3, <1>7, <2>1, LoopRuns
  <2> QED
    BY <2>2 DEF start
<1>9. Rec(h)
  <2> HIDE DEF H, holds
  <2>1. \A n \in 0 .. N : h[n] \in Originators
    BY ONLY <1>4, <1>8
  <2>2. \A n \in 1 .. N : h[n] = H(h[n - 1], mpdus[n])
    BY ONLY <1>3, <1>4, <1>8, <2>1
  <2>3. \A n \in 0 .. N : n = 0 \/ n \in 1 .. N
    BY ONLY <1>3
  <2> QED
    BY ONLY <1>8, <2>2, <2>3
<1>10. Rec(g)
  <2>1. \E x : Rec(x)
    BY <1>9
  <2> HIDE DEF Rec
  <2> QED
    BY <2>1 DEF g
<1>11. g[0] = counted /\ \A n \in 1 .. N : g[n] = H(g[n - 1], mpdus[n])
  <2> HIDE DEF H
  <2> QED
    BY ONLY <1>3, <1>10
<1>12. \A n \in 0 .. N : g[n] \in S[n]
  <2> HIDE DEF H, holds
  <2>1. g[0] \in S[0]
    BY ONLY <1>3, <1>4, <1>5, <1>11
  <2>2. ASSUME NEW n \in 1 .. N, g[n - 1] \in S[n - 1] PROVE g[n] \in S[n]
    <3>1. g[n - 1] \in Originators /\ holds(g[n - 1], n - 1)
      BY ONLY <1>3, <1>4, <2>2
    <3>2. H(g[n - 1], mpdus[n]) \in Originators /\ holds(H(g[n - 1], mpdus[n]), n)
      BY ONLY <1>6, <2>2, <3>1
    <3> QED
      BY ONLY <1>3, <1>4, <1>11, <2>2, <3>2
  <2> QED
    BY ONLY <1>3, <2>1, <2>2, LoopKeeps
<1>13. g[N] \in Originators /\ holds(g[N], N)
  <2> HIDE DEF H, holds
  <2> QED
    BY ONLY <1>3, <1>4, <1>12
<1> QED
  BY <1>1, <1>13

(* A frame was acknowledged: its bit is set, and the window moves over the
   first bits. *)
Acking(q, o, T, a, f) ==
    /\ q \in Originators /\ Keeps(q, o) /\ q.queued = o.queued /\ q.inFlight = o.inFlight
    /\ q.bar = o.bar /\ IsAscending(q.packetQueue) /\ Stored(q) = Stored(o) \ T
    /\ q.acked = o.acked \cup T /\ WindowOK(q, f) /\ a .. f - 1 \subseteq q.acked

LEMMA AcknowledgeDoes ==
  ASSUME NEW o \in Originators, NEW a \in Nat, WindowOK(o, a), IsAscending(o.packetQueue),
         NEW m \in Nat, m < o.next, o.next <= m + WinSize
  PROVE  \E f \in a .. o.next : Acking(Acknowledge(o, m), o, {m}, a, f)
<1> DEFINE K == o.acked \cup {m}
           p == NotifyAckedMpdu(o, m)
           r == Erase(p, m)
           q == Acknowledge(o, m)
<1>1. /\ o.next \in Nat /\ o.window \in Windows /\ o.acked \in SUBSET Nat
      /\ StartsAt(o.window, a) /\ o.window.m_winStart = GetSequenceNumber(a)
      /\ a <= o.next /\ o.next <= a + WinSize
      /\ \A d \in o.window.set : a + d \in o.acked
      /\ K \subseteq 0 .. o.next - 1
  BY OriginatorFields DEF WindowOK, StartsAt
<1>2. \E f \in a .. o.next :
          /\ p.window \in Windows /\ StartsAt(p.window, f)
          /\ \A d \in p.window.set : f + d \in K
          /\ a .. f - 1 \subseteq K
          /\ p = [o EXCEPT !.window = p.window]
  <2>1. IsOldMpdu(o, m) <=> m < a
    <3>1. m < a + SEQNO_SPACE_HALF_SIZE /\ a <= m + SEQNO_SPACE_HALF_SIZE
      BY <1>1, SpaceFacts
    <3> QED
      BY <1>1, <3>1, OldIsBefore DEF IsOldMpdu
  <2>2. CASE m < a
    <3>1. p = o /\ o = [o EXCEPT !.window = o.window] /\ a .. a - 1 = {} /\ a \in a .. o.next
      BY <1>1, <2>1, <2>2 DEF NotifyAckedMpdu, Originators
    <3> HIDE DEF p
    <3> QED
      BY <1>1, <3>1
  <2>3. CASE a <= m
    <3> DEFINE w == Mark(o.window, m - a)
               v == AdvanceTxWindow(w)
    <3>1. Distance(o, m) = m - a /\ m - a \in 0 .. WinSize - 1
      <4>1. m < a + SEQNO_SPACE_SIZE /\ m - a \in 0 .. WinSize - 1
        BY <1>1, <2>3, SpaceFacts
      <4> QED
        BY <1>1, <2>3, <4>1, DistanceAhead DEF Distance
    <3>2. /\ w \in Windows /\ w.m_winStart = o.window.m_winStart
          /\ w.set = o.window.set \cup {m - a}
      BY <1>1, <3>1, MarkDoes
    <3>3. p = [o EXCEPT !.window = v]
      <4>1. ~IsOldMpdu(o, m)
        BY <2>1, <2>3
      <4> QED
        BY <3>1, <4>1 DEF NotifyAckedMpdu
    <3> HIDE DEF w
    <3>4. \A d \in w.set : a + d \in K
      <4>1. a + (m - a) = m
        OBVIOUS
      <4> QED
        BY <1>1, <3>2, <4>1
    <3>5. StartsAt(w, a)
      BY <1>1, <3>2 DEF StartsAt
    <3> HIDE DEF K
    <3>6. \E f \in a .. o.next :
              /\ v \in Windows /\ StartsAt(v, f)
              /\ \A d \in v.set : f + d \in K
              /\ a .. f - 1 \subseteq K
      BY ONLY <1>1, <3>2, <3>4, <3>5, WindowMoves, a \in Nat
    <3> HIDE DEF v, p
    <3>7. p.window = v
      BY <3>3 DEF Originators
    <3> QED
      BY <3>3, <3>6, <3>7
  <2> QED
    BY <1>1, <2>2, <2>3
<1>3. PICK f \in a .. o.next :
          /\ p.window \in Windows /\ StartsAt(p.window, f)
          /\ \A d \in p.window.set : f + d \in K
          /\ a .. f - 1 \subseteq K
          /\ p = [o EXCEPT !.window = p.window]
  BY <1>2
<1>4. q = [r EXCEPT !.acked = @ \cup {m}]
  BY DEF Acknowledge
<1> HIDE DEF p
<1>5. /\ p \in Originators /\ Keeps(p, o) /\ p.queued = o.queued /\ p.inFlight = o.inFlight
      /\ p.bar = o.bar /\ p.packetQueue = o.packetQueue /\ p.acked = o.acked
  <2> DEFINE w == p.window
  <2>1. w \in Windows /\ p = [o EXCEPT !.window = w]
    BY <1>3
  <2> HIDE DEF w
  <2> QED
    BY <2>1 DEF Originators, Keeps
<1>6. /\ r \in Originators /\ Keeps(r, p) /\ r.queued = p.queued /\ r.inFlight = p.inFlight
      /\ IsAscending(r.packetQueue) /\ Stored(r) = Stored(p) \ {m}
      /\ r.window = p.window /\ r.bar = p.bar /\ r.acked = p.acked
  BY <1>5, EraseDoes
<1> HIDE DEF r, q
<1>7. /\ q \in Originators /\ Keeps(q, r) /\ q.queued = r.queued /\ q.inFlight = r.inFlight
      /\ q.packetQueue = r.packetQueue /\ q.window = r.window /\ q.bar = r.bar
      /\ q.acked = r.acked \cup {m}
  BY <1>4, <1>6 DEF Originators, Keeps
<1>8. /\ Keeps(q, o) /\ q.next = o.next /\ Stored(q) = Stored(o) \ {m} /\ q.acked = K
      /\ q.window = p.window
  BY <1>5, <1>6, <1>7 DEF Keeps, Stored
<1>9. WindowOK(q, f)
  <2>1. f <= o.next /\ o.next <= f + WinSize
    BY <1>1, SpaceFacts
  <2> QED
    BY <1>1, <1>3, <1>8, <2>1 DEF WindowOK
<1>10. Acking(q, o, {m}, a, f)
  BY <1>3, <1>5, <1>6, <1>7, <1>8, <1>9 DEF Acking
<1> QED
  BY <1>10 DEF q

(* The stored frames whose numbers the block ack reports are acknowledged. *)
LEMMA AcknowledgeStoredDoes ==
  ASSUME NEW o \in Originators, NEW a \in Nat, WindowOK(o, a), IsAscending(o.packetQueue),
         Stored(o) \subseteq a .. o.next - 1, NEW bitmap,
         NEW T, T = {m \in Stored(o) : GetSequenceNumber(m) \in bitmap}
  PROVE  \E f \in a .. o.next : Acking(AcknowledgeStored(o, bitmap), o, T, a, f)
<1> DEFINE mpdus == o.packetQueue
           N == Len(mpdus)
           H(p, m) == IF m \in Stored(p)
                      THEN IF GetSequenceNumber(m) \in bitmap THEN Acknowledge(p, m) ELSE p
                      ELSE p
           holds(p, n) == \E f \in a .. o.next, U \in SUBSET T :
                             /\ Acking(p, o, U, a, f)
                             /\ \A i \in 1 .. n : mpdus[i] \in T => mpdus[i] \in U
           S == [n \in 0 .. N |-> {p \in Originators : holds(p, n)}]
           G == [x \in Nat \X Originators |-> H(x[2], mpdus[x[1]])]
           Rec(f) == f = [n \in 0 .. N |-> IF n = 0 THEN o ELSE H(f[n - 1], mpdus[n])]
           g == CHOOSE f : Rec(f)
<1>1. AcknowledgeStored(o, bitmap) = g[N]
  BY DEF AcknowledgeStored, ForEachStored, ForEach
<1>2. mpdus \in Seq(Nat)
  BY OriginatorFields
<1>3. /\ N \in Nat /\ \A n \in 1 .. N : n \in 0 .. N /\ n - 1 \in 0 .. N /\ n \in Nat /\ n # 0
      /\ 0 \in 0 .. N /\ N \in 0 .. N
  BY <1>2, SetOfSeq
<1> HIDE DEF N, g
<1>4. /\ \A n \in 0 .. N : \A p : p \in S[n] <=> p \in Originators /\ holds(p, n)
      /\ \A n \in Nat, p \in Originators : G[<<n, p>>] = H(p, mpdus[n])
  <2> HIDE DEF H, holds, mpdus
  <2> QED
    OBVIOUS
<1> HIDE DEF S, G
<1>5. o \in Originators /\ holds(o, 0)
  <2>1. 1 .. 0 = {} /\ a .. a - 1 = {} /\ {} \in SUBSET T /\ a \in a .. o.next
    BY OriginatorFields DEF WindowOK
  <2>2. Acking(o, o, {}, a, a)
    BY <2>1 DEF Acking, Keeps
  <2> QED
    BY <2>1, <2>2
<1>6. ASSUME NEW n \in 1 .. N, NEW p \in Originators, holds(p, n - 1)
      PROVE  H(p, mpdus[n]) \in Originators /\ holds(H(p, mpdus[n]), n)
  <2> DEFINE m == mpdus[n]
             q == Acknowledge(p, m)
  <2>1. PICK e \in a .. o.next, U \in SUBSET T :
            /\ Acking(p, o, U, a, e)
            /\ \A i \in 1 .. n - 1 : mpdus[i] \in T => mpdus[i] \in U
    BY <1>6
  <2>2. /\ WindowOK(p, e) /\ IsAscending(p.packetQueue) /\ p.next = o.next /\ e \in Nat
        /\ Stored(p) = Stored(o) \ U /\ o.next \in Nat
    BY <2>1, OriginatorFields DEF Acking, Keeps
  <2>3. /\ m \in Stored(o) /\ m \in Nat /\ m < o.next /\ o.next <= m + WinSize
        /\ \A i \in 1 .. n : i \in 1 .. n - 1 \/ i = n
    <3>1. m \in Stored(o)
      BY <1>2, SetOfSeq DEF Stored, N
    <3>2. m \in a .. o.next - 1 /\ o.next <= a + WinSize
      BY <3>1 DEF WindowOK
    <3> QED
      BY <2>2, <3>1, <3>2, SpaceFacts
  <2>4. CASE m \in Stored(p) /\ GetSequenceNumber(m) \in bitmap
    <3>1. H(p, m) = q
      BY <2>4
    <3>2. PICK f \in e .. p.next : Acking(q, p, {m}, e, f)
      BY <2>2, <2>3, AcknowledgeDoes
    <3> HIDE DEF q, H
    <3>3. m \in T
      BY <2>3, <2>4
    <3>4. f \in a .. o.next /\ U \cup {m} \in SUBSET T
      BY <2>2, <3>3
    <3>5. a .. f - 1 \subseteq q.acked
      <4>1. \A k \in a .. f - 1 : k \in a .. e - 1 \/ k \in e .. f - 1
        BY <2>2, <3>4
      <4> QED
        BY <2>1, <3>2, <4>1 DEF Acking
    <3>6. Acking(q, o, U \cup {m}, a, f)
      BY <2>1, <3>2, <3>5 DEF Acking, Keeps
    <3>7. \A i \in 1 .. n : mpdus[i] \in T => mpdus[i] \in U \cup {m}
      BY <2>1, <2>3
    <3> HIDE DEF m
    <3>8. q \in Originators /\ holds(q, n)
      BY <3>4, <3>6, <3>7 DEF Acking
    <3> QED
      BY <3>1, <3>8 DEF m
  <2>5. CASE ~(m \in Stored(p) /\ GetSequenceNumber(m) \in bitmap)
    <3>1. H(p, m) = p
      BY <2>5
    <3>2. m \in T => m \in U
      BY <2>2, <2>3, <2>5
    <3> HIDE DEF H
    <3>3. \A i \in 1 .. n : mpdus[i] \in T => mpdus[i] \in U
      BY <2>1, <2>3, <3>2
    <3> HIDE DEF m
    <3>4. holds(p, n)
      BY <2>1, <3>3
    <3> QED
      BY <3>1, <3>4 DEF m
  <2> QED
    BY <2>4, <2>5
<1>7. Passing(G, S, N)
  <2> HIDE DEF H, holds, mpdus
  <2>1. ASSUME NEW n \in 1 .. N, NEW p \in S[n - 1] PROVE G[<<n, p>>] \in S[n]
    <3>1. p \in Originators /\ holds(p, n - 1)
      BY ONLY <1>3, <1>4, <2>1
    <3>2. H(p, mpdus[n]) \in Originators /\ holds(H(p, mpdus[n]), n)
      BY ONLY <1>6, <2>1, <3>1
    <3> QED
      BY ONLY <1>3, <1>4, <2>1, <3>1, <3>2
  <2> QED
    BY <2>1 DEF Passing
<1>8. PICK h : /\ h = [n \in 0 .. N |-> h[n]]
               /\ h[0] = o
               /\ \A n \in 0 .. N : h[n] \in S[n]
               /\ \A n \in 1 .. N : h[n] = G[<<n, h[n - 1]>>]
  <2> DEFINE start == o
  <2>1. start \in S[0]
    <3> HIDE DEF holds, start
    <3> QED
      BY ONLY <1>3, <1>4, <1>5 DEF start
  <2> HIDE DEF start
  <2>2. \E f : /\ f = [n \in 0 .. N |-> f[n]]
               /\ f[0] = start
               /\ \A n \in 0 .. N : f[n] \in S[n]
               /\ \A n \in 1 .. N : f[n] = G[<<n, f[n - 1]>>]
    BY ONLY <1>3, <1>7, <2>1, LoopRuns
  <2> QED
    BY <2>2 DEF start
<1>9. Rec(h)
  <2> HIDE DEF H, holds, mpdus
  <2>1. \A n \in 0 .. N : h[n] \in Originators
    BY ONLY <1>4, <1>8
  <2>2. \A n \in 1 .. N : h[n] = H(h[n - 1], mpdus[n])
    BY ONLY <1>3, <1>4, <1>8, <2>1
  <2>3. \A n \in 0 .. N : n = 0 \/ n \in 1 .. N
    BY ONLY <1>3
  <2> QED
    BY ONLY <1>8, <2>2, <2>3
<1>10. Rec(g)
  <2>1. \E x : Rec(x)
    BY <1>9
  <2> HIDE DEF Rec
  <2> QED
    BY <2>1 DEF g
<1>11. g[0] = o /\ \A n \in 1 .. N : g[n] = H(g[n - 1], mpdus[n])
  <2> HIDE DEF H, mpdus
  <2> QED
    BY ONLY <1>3, <1>10
<1>12. \A n \in 0 .. N : g[n] \in S[n]
  <2> HIDE DEF H, holds, mpdus
  <2>1. g[0] \in S[0]
    BY ONLY <1>3, <1>4, <1>5, <1>11
  <2>2. ASSUME NEW n \in 1 .. N, g[n - 1] \in S[n - 1] PROVE g[n] \in S[n]
    <3>1. g[n - 1] \in Originators /\ holds(g[n - 1], n - 1)
      BY ONLY <1>3, <1>4, <2>2
    <3>2. H(g[n - 1], mpdus[n]) \in Originators /\ holds(H(g[n - 1], mpdus[n]), n)
      BY ONLY <1>6, <2>2, <3>1
    <3> QED
      BY ONLY <1>3, <1>4, <1>11, <2>2, <3>2
  <2> QED
    BY ONLY <1>3, <2>1, <2>2, LoopKeeps
<1>13. g[N] \in Originators /\ holds(g[N], N)
  <2> HIDE DEF H, holds, mpdus
  <2> QED
    BY ONLY <1>3, <1>4, <1>12
<1>14. PICK f \in a .. o.next, U \in SUBSET T :
           /\ Acking(g[N], o, U, a, f)
           /\ \A i \in 1 .. N : mpdus[i] \in T => mpdus[i] \in U
  BY <1>13
<1>15. U = T
  <2>1. T \subseteq {mpdus[i] : i \in 1 .. N}
    BY <1>2, SetOfSeq DEF Stored, N
  <2> QED
    BY <1>14, <2>1
<1> QED
  BY <1>1, <1>14, <1>15

(* The end of an exchange with a response: frames T were acknowledged, and no
   frame is in flight any more. *)
Told(q, o, T, a, f) ==
    /\ q \in Originators /\ Keeps(q, o) /\ q.queued \subseteq o.queued
    /\ q.acked = o.acked \cup T
    /\ a <= f /\ f <= o.next /\ WindowOK(q, f) /\ QueueOK(q, f) /\ q.inFlight = {}
    /\ q.bar = "queued" \/ (q.bar = o.bar /\ a .. f - 1 \subseteq q.acked)

LEMMA NotifyGotBlockAckDoes ==
  ASSUME NEW o \in Originators, NEW a \in Nat, WindowOK(o, a), QueueOK(o, a),
         InFlightFirst(o), expiredTo \in Nat, NEW bitmap,
         NEW T, T = {m \in Stored(o) : GetSequenceNumber(m) \in bitmap}
  PROVE  \E f \in a .. o.next : Told(NotifyGotBlockAck(o, bitmap), o, T, a, f)
<1> DEFINE s == AcknowledgeStored(o, bitmap)
           p == Dequeue(s, T)
           q == NotifyGotBlockAck(o, bitmap)
<1>1. /\ IsAscending(o.packetQueue) /\ Stored(o) = o.inFlight /\ Stored(o) \subseteq o.queued
      /\ o.queued \subseteq a .. o.next - 1 /\ o.acked \cap o.queued = {}
      /\ Stored(o) \subseteq a .. o.next - 1 /\ o.next \in Nat
  BY OriginatorFields DEF QueueOK, StoreOK
<1>2. PICK e \in a .. o.next : Acking(s, o, T, a, e)
  BY <1>1, AcknowledgeStoredDoes
<1>3. q = NotifyMissedBlockAck(p)
  BY DEF NotifyGotBlockAck
<1> HIDE DEF s, q
<1>4. /\ p \in Originators /\ Keeps(p, s)
      /\ p.queued = s.queued \ T /\ p.inFlight = s.inFlight \ T
      /\ p.packetQueue = s.packetQueue /\ p.window = s.window
      /\ p.bar = s.bar /\ p.acked = s.acked
  BY <1>2, DequeueDoes DEF Acking
<1> HIDE DEF p
<1>5. /\ Keeps(p, o) /\ p.next = o.next /\ e \in Nat
      /\ p.queued = o.queued \ T /\ p.inFlight = o.inFlight \ T
      /\ Stored(p) = p.inFlight /\ IsAscending(p.packetQueue)
      /\ p.acked = o.acked \cup T /\ p.bar = o.bar
  BY <1>1, <1>2, <1>4 DEF Acking, Keeps, Stored
<1>6. WindowOK(p, e)
  BY <1>2, <1>4, <1>5 DEF Acking, WindowOK, Keeps
<1>7. p.queued \subseteq e .. o.next - 1
  <2> SUFFICES ASSUME NEW k \in p.queued, k < e PROVE FALSE
    BY <1>1, <1>5
  <2>1. k \in a .. e - 1
    BY <1>1, <1>5
  <2> QED
    BY <1>1, <1>2, <1>5, <2>1 DEF Acking
<1>8. QueueOK(p, e)
  BY <1>1, <1>5, <1>7 DEF QueueOK, StoreOK
<1>9. InFlightFirst(p)
  <2>1. p.queued \ p.inFlight \subseteq o.queued \ o.inFlight
    BY <1>1, <1>5
  <2> QED
    BY <1>5, <2>1 DEF InFlightFirst
<1>10. PICK f \in e .. p.next : Handled(q, p, e, f) /\ Stored(q) = {}
  BY <1>3, <1>4, <1>5, <1>6, <1>8, <1>9, NotifyMissedBlockAckDoes
<1>11. f \in a .. o.next /\ q.inFlight = {} /\ QueueOK(q, f)
  BY <1>5, <1>10 DEF Handled, QueueOK
<1>12. q.bar = "queued" \/ (q.bar = o.bar /\ a .. f - 1 \subseteq q.acked)
  BY <1>2, <1>4, <1>5, <1>10 DEF Handled, Acking
<1>13. Told(q, o, T, a, f)
  BY <1>5, <1>10, <1>11, <1>12 DEF Handled, Told, Keeps
<1> QED
  BY <1>11, <1>13 DEF q

(* The ack of the only frame of an exchange. *)
LEMMA NotifyGotAckDoes ==
  ASSUME NEW o \in Originators, NEW a \in Nat, WindowOK(o, a), QueueOK(o, a),
         NEW m \in Nat, m < o.next, o.next <= m + WinSize,
         o.inFlight = o.queued \cap {m}
  PROVE  \E f \in a .. o.next : Told(NotifyGotAck(o, m), o, {m}, a, f)
<1> DEFINE p == Acknowledge(o, m)
           T == {m} \cap Stored(o)
           q == NotifyGotAck(o, m)
<1>1. /\ IsAscending(o.packetQueue) /\ Stored(o) = o.inFlight
      /\ o.queued \subseteq a .. o.next - 1 /\ o.acked \cap o.queued = {}
      /\ o.next \in Nat
  BY OriginatorFields DEF QueueOK, StoreOK
<1>2. PICK f \in a .. o.next : Acking(p, o, {m}, a, f)
  BY <1>1, AcknowledgeDoes
<1>3. q = Dequeue(p, T)
  BY DEF NotifyGotAck
<1> HIDE DEF p, q
<1>4. /\ q \in Originators /\ Keeps(q, p)
      /\ q.queued = p.queued \ T /\ q.inFlight = p.inFlight \ T
      /\ q.packetQueue = p.packetQueue /\ q.window = p.window
      /\ q.bar = p.bar /\ q.acked = p.acked
  BY <1>2, <1>3, DequeueDoes DEF Acking
<1>5. /\ Keeps(q, o) /\ q.next = o.next /\ f \in Nat
      /\ q.queued = o.queued \ {m} /\ q.inFlight = {} /\ Stored(q) = {}
      /\ IsAscending(q.packetQueue)
      /\ q.acked = o.acked \cup {m} /\ q.bar = o.bar
  BY <1>1, <1>2, <1>4 DEF Acking, Keeps, Stored
<1>6. WindowOK(q, f)
  BY <1>2, <1>4, <1>5 DEF Acking, WindowOK, Keeps
<1>7. q.queued \subseteq f .. o.next - 1
  <2> SUFFICES ASSUME NEW k \in q.queued, k < f PROVE FALSE
    BY <1>1, <1>5
  <2>1. k \in a .. f - 1
    BY <1>1, <1>5
  <2> QED
    BY <1>1, <1>2, <1>4, <1>5, <2>1 DEF Acking
<1>8. QueueOK(q, f)
  BY <1>1, <1>5, <1>7 DEF QueueOK, StoreOK
<1>9. Told(q, o, {m}, a, f)
  BY <1>2, <1>4, <1>5, <1>6, <1>8 DEF Acking, Told
<1> QED
  BY <1>9 DEF q

RequestPending(o) == o.bar # "none" \/ o.sendBarIfDataQueued

(* The end of an exchange without a response. *)
TimedOut(q, o, a, f) ==
    /\ q \in Originators /\ q.unsent = o.unsent /\ q.next = o.next
    /\ q.expired = o.expired /\ q.acked = o.acked /\ q.queued \subseteq o.queued
    /\ a <= f /\ f <= o.next /\ WindowOK(q, f) /\ QueueOK(q, f) /\ InFlightFirst(q)
    /\ q.bar # "sent" /\ (q.inFlight # {} => q.bar # "none")
    /\ RequestPending(q) \/ (f = a /\ ~RequestPending(o))

(* The frames of an exchange under way: those in flight, and others that the
   originator has dealt with. *)
SentOK(o, mpdus, a) ==
    /\ \A m \in ToSet(mpdus) : o.next <= m + WinSize /\ m < o.next
    /\ o.inFlight = o.queued \cap ToSet(mpdus)
    /\ \A m \in ToSet(mpdus) \ o.queued : m < a

LEMMA DroppingKeepsOrder ==
  ASSUME NEW o, NEW p, NEW a \in Nat, NEW f \in Nat,
         QueueOK(o, a), InFlightFirst(o), Dropping(p, o, a, f)
  PROVE  QueueOK(p, f) /\ InFlightFirst(p)
BY DEF Dropping, Handled, QueueOK, InFlightFirst

LEMMA NormalAckTimeoutDoes ==
  ASSUME NEW o \in Originators, NEW a \in Nat, WindowOK(o, a), QueueOK(o, a),
         InFlightFirst(o), expiredTo \in Nat, NEW m \in Nat, SentOK(o, <<m>>, a),
         o.bar # "sent"
  PROVE  \E f \in a .. o.next : TimedOut(NormalAckTimeout(o, m), o, a, f)
<1> DEFINE d == DropMpduIfRetryLimitReached(o, <<m>>)
           p == [d EXCEPT !.inFlight = @ \ {m}]
           q == NormalAckTimeout(o, m)
<1>1. <<m>> \in Seq(Nat) /\ ToSet(<<m>>) = {m} /\ o.inFlight = o.queued \cap {m}
  <2>1. <<m>> \in Seq(Nat) /\ Len(<<m>>) = 1 /\ <<m>>[1] = m
    OBVIOUS
  <2>2. ToSet(<<m>>) = {m}
    BY <2>1, OneFrame
  <2> QED
    BY <2>1, <2>2 DEF SentOK
<1>2. PICK e \in a .. o.next : Dropping(d, o, a, e)
  BY <1>1, DropMpduIfRetryLimitReachedDoes DEF SentOK
<1>3. q = IF m \in d.queued THEN NotifyMissedAck(p, m) ELSE d
  BY DEF NormalAckTimeout
<1> HIDE DEF d, q
<1>4. /\ e \in Nat /\ o.next \in Nat /\ d \in Originators /\ Keeps(d, o) /\ d.next = o.next
      /\ QueueOK(d, e) /\ InFlightFirst(d) /\ WindowOK(d, e)
      /\ Stored(d) \subseteq {m} /\ Stored(d) = d.inFlight /\ Stored(o) = o.inFlight
      /\ d.queued \ Stored(d) \subseteq o.queued \ Stored(o) /\ d.queued \subseteq o.queued
      /\ d.acked = o.acked
      /\ d.bar = "queued" \/ (d.bar = o.bar /\ e = a)
  <2>1. QueueOK(d, e) /\ InFlightFirst(d)
    BY <1>2, OriginatorFields, DroppingKeepsOrder
  <2> QED
    BY <1>1, <1>2, <2>1, OriginatorFields DEF Dropping, Handled, QueueOK, Keeps
<1>5. ASSUME NEW x, NEW f \in e .. o.next, Handled(x, d, e, f), Stored(x) = {}
      PROVE  TimedOut(x, o, a, f) /\ f \in a .. o.next
  <2>1. x.inFlight = {} /\ QueueOK(x, f) /\ InFlightFirst(x)
    BY <1>5 DEF Handled, QueueOK, InFlightFirst
  <2>2. x.bar = "queued" \/ (x.bar = o.bar /\ f = a)
    BY <1>4, <1>5 DEF Handled
  <2>3. /\ x \in Originators /\ Keeps(x, o) /\ x.acked = o.acked /\ x.queued \subseteq o.queued
        /\ WindowOK(x, f) /\ a <= f /\ f <= o.next
    BY <1>4, <1>5 DEF Handled, Keeps
  <2> QED
    BY <2>1, <2>2, <2>3 DEF TimedOut, RequestPending, Keeps
<1>6. CASE m \in d.queued
  <2>1. m \in Stored(d) /\ Stored(d) = {m}
    BY <1>1, <1>4, <1>6
  <2>2. /\ p \in Originators /\ Keeps(p, d) /\ p.queued = d.queued /\ p.inFlight = d.inFlight \ {m}
        /\ p.packetQueue = d.packetQueue /\ p.window = d.window /\ p.bar = d.bar
        /\ p.acked = d.acked /\ Stored(p) = Stored(d) /\ p.next = o.next
    BY <1>4 DEF Originators, Keeps, Stored
  <2> HIDE DEF p
  <2>3. q = HandleInFlightMpdu(p, m, TRUE)
    BY <1>3, <1>6, <2>1, <2>2 DEF NotifyMissedAck
  <2>4. WindowOK(p, e) /\ StoreOK(p, e)
    BY <1>4, <2>2 DEF WindowOK, StoreOK, QueueOK
  <2>5. \A k \in p.queued \ Stored(p) : k < m => k >= expiredTo
    <3> TAKE k \in p.queued \ Stored(p)
    <3>1. m < k
      BY <1>4, <2>1, <2>2 DEF InFlightFirst
    <3>2. k \in Nat
      BY <1>4, <2>2, OriginatorFields
    <3> QED
      BY <3>1, <3>2
  <2>6. PICK f \in e .. o.next : Handled(q, p, e, f) /\ m \notin Stored(q)
    <3>1. /\ p \in Originators /\ e \in Nat /\ WindowOK(p, e) /\ StoreOK(p, e)
          /\ m \in Stored(p) /\ TRUE \in BOOLEAN /\ expiredTo \in Nat
      BY <1>4, <2>1, <2>2, <2>4
    <3> DEFINE r == HandleInFlightMpdu(p, m, TRUE)
    <3>2. \E f \in e .. p.next :
              /\ Handled(r, p, e, f)
              /\ \A k \in r.queued \ Stored(r) :
                     \/ k \in p.queued \ Stored(p)
                     \/ k = m /\ TRUE /\ k >= expiredTo
              /\ TRUE => m \notin Stored(r)
      BY ONLY <2>5, <3>1, HandleInFlightMpduDoes
    <3> HIDE DEF r
    <3>3. q = r /\ p.next = o.next
      BY <2>2, <2>3 DEF r
    <3> QED
      BY ONLY <3>2, <3>3
  <2>7. Stored(q) = {}
    BY <2>1, <2>2, <2>6 DEF Handled
  <2>8. Handled(q, d, e, f)
    BY <2>2, <2>6, <2>7 DEF Handled, Keeps
  <2> QED
    BY <1>4, <1>5, <2>7, <2>8 DEF q
<1>7. CASE m \notin d.queued
  <2>1. q = d /\ Stored(d) = {}
    BY <1>3, <1>4, <1>7 DEF QueueOK, StoreOK
  <2>2. Dropping(d, d, e, e)
    BY <1>4, NothingHandled DEF QueueOK
  <2>3. e \in e .. o.next
    BY <1>4
  <2> QED
    BY <1>5, <2>1, <2>2, <2>3 DEF q, Dropping
<1> QED
  BY <1>6, <1>7

LEMMA MissedBlockAckDoes ==
  ASSUME NEW o \in Originators, NEW a \in Nat, WindowOK(o, a), QueueOK(o, a),
         InFlightFirst(o), expiredTo \in Nat, NEW isBar \in BOOLEAN, NEW mpdus \in Seq(Nat),
         ~isBar => SentOK(o, mpdus, a) /\ o.bar # "sent"
  PROVE  \E f \in a .. o.next : TimedOut(MissedBlockAck(o, isBar, mpdus), o, a, f)
<1> DEFINE failed == IF isBar THEN o ELSE DropMpduIfRetryLimitReached(o, mpdus)
           dropped == DropHeads(failed)
           q == MissedBlockAck(o, isBar, mpdus)
<1>0. o.next \in Nat /\ a <= o.next /\ StoreOK(o, a) /\ Stored(o) = o.inFlight
  BY OriginatorFields DEF WindowOK, QueueOK
<1>1. \E e \in a .. o.next : Dropping(failed, o, a, e)
  <2>1. CASE isBar
    <3>1. Dropping(o, o, a, a) /\ a \in a .. o.next
      BY <1>0, NothingHandled
    <3> QED
      BY <2>1, <3>1
  <2>2. CASE ~isBar
    <3>1. \E e \in a .. o.next : Dropping(DropMpduIfRetryLimitReached(o, mpdus), o, a, e)
      BY <2>2, DropMpduIfRetryLimitReachedDoes DEF SentOK
    <3> QED
      BY <2>2, <3>1
  <2> QED
    BY <2>1, <2>2
<1>2. PICK e \in a .. o.next : Dropping(failed, o, a, e)
  BY <1>1
<1>3. q = IF ~config.useExplicitBarAfterMissedBlockAck /\ ~isBar
          THEN NotifyMissedBlockAck(failed)
          ELSE IF dropped.packetQueue # <<>>
               THEN [dropped EXCEPT !.bar = "queued"]
               ELSE [dropped EXCEPT
                        !.bar = IF isBar /\ @ = "sent" THEN "none" ELSE @,
                        !.sendBarIfDataQueued = TRUE]
  BY DEF MissedBlockAck, NeedBarRetransmission
<1> HIDE DEF failed, q
<1>4. /\ e \in Nat /\ failed \in Originators /\ failed.next = o.next
      /\ QueueOK(failed, e) /\ InFlightFirst(failed) /\ WindowOK(failed, e)
      /\ Handled(failed, o, a, e)
  <2>1. QueueOK(failed, e) /\ InFlightFirst(failed)
    BY <1>0, <1>2, DroppingKeepsOrder
  <2> QED
    BY <1>0, <1>2, <2>1 DEF Dropping, Handled, Keeps
<1>5. CASE ~config.useExplicitBarAfterMissedBlockAck /\ ~isBar
  <2>1. q = NotifyMissedBlockAck(failed)
    BY <1>3, <1>5
  <2>2. PICK f \in e .. o.next : Handled(q, failed, e, f) /\ Stored(q) = {}
    BY <1>4, <2>1, NotifyMissedBlockAckDoes
  <2>3. f \in Nat /\ f \in a .. o.next
    BY <1>0, <1>4
  <2>4. Handled(q, o, a, f)
    BY <1>4, <2>2, <2>3, HandledTwice
  <2>5. q.inFlight = {} /\ QueueOK(q, f) /\ InFlightFirst(q)
    BY <2>2 DEF Handled, QueueOK, InFlightFirst
  <2>6. TimedOut(q, o, a, f)
    BY <1>5, <2>3, <2>4, <2>5 DEF Handled, TimedOut, RequestPending, Keeps
  <2> QED
    BY <2>3, <2>6 DEF q
<1>6. CASE ~(~config.useExplicitBarAfterMissedBlockAck /\ ~isBar)
  <2>1. q = IF dropped.packetQueue # <<>>
            THEN [dropped EXCEPT !.bar = "queued"]
            ELSE [dropped EXCEPT
                     !.bar = IF isBar /\ @ = "sent" THEN "none" ELSE @,
                     !.sendBarIfDataQueued = TRUE]
    BY ONLY <1>3, <1>6
  <2>2. PICK f \in e .. o.next : Dropping(dropped, failed, e, f)
    BY <1>4, DropHeadsDoes
  <2> HIDE DEF dropped
  <2>3. f \in Nat /\ f \in a .. o.next
    BY <1>0, <1>4
  <2>4. Dropping(dropped, o, a, f)
    BY <1>2, <1>4, <2>2, <2>3, HandledTwice DEF Dropping
  <2>5. QueueOK(dropped, f) /\ InFlightFirst(dropped)
    BY <1>0, <2>3, <2>4, DroppingKeepsOrder
  <2>6. /\ dropped \in Originators /\ Keeps(dropped, o) /\ dropped.acked = o.acked
        /\ WindowOK(dropped, f) /\ dropped.queued \subseteq o.queued
        /\ dropped.bar = "queued" \/ dropped.bar = o.bar
        /\ dropped.packetQueue \in Seq(Nat)
    BY <2>4, OriginatorFields DEF Dropping, Handled
  <2>7. CASE dropped.packetQueue # <<>>
    <3>1. q = [dropped EXCEPT !.bar = "queued"]
      BY <2>1, <2>7
    <3>2. /\ q \in Originators /\ Keeps(q, o) /\ q.acked = o.acked /\ q.bar = "queued"
          /\ q.queued = dropped.queued /\ q.inFlight = dropped.inFlight
          /\ q.packetQueue = dropped.packetQueue /\ q.window = dropped.window
          /\ q.next = dropped.next
      BY <2>6, <3>1 DEF Originators, Keeps
    <3>3. WindowOK(q, f) /\ QueueOK(q, f) /\ InFlightFirst(q)
      BY <2>5, <2>6, <3>2 DEF WindowOK, QueueOK, StoreOK, InFlightFirst, Stored
    <3>4. TimedOut(q, o, a, f)
      BY <2>3, <2>6, <3>2, <3>3 DEF TimedOut, RequestPending, Keeps
    <3> QED
      BY <2>3, <3>4 DEF q
  <2>8. CASE dropped.packetQueue = <<>>
    <3> DEFINE b == IF isBar /\ dropped.bar = "sent" THEN "none" ELSE dropped.bar
    <3>1. q = [dropped EXCEPT !.bar = b, !.sendBarIfDataQueued = TRUE]
      BY <2>1, <2>8
    <3>2. b \in {"none", "queued"}
      BY <2>6, OriginatorFields
    <3> HIDE DEF b
    <3>3. /\ q \in Originators /\ q.unsent = o.unsent /\ q.next = o.next
          /\ q.expired = o.expired /\ q.acked = o.acked /\ q.bar = b
          /\ q.queued = dropped.queued /\ q.inFlight = dropped.inFlight
          /\ q.packetQueue = dropped.packetQueue /\ q.window = dropped.window
          /\ q.next = dropped.next /\ q.sendBarIfDataQueued = TRUE
          /\ q.acked = dropped.acked
      BY <2>6, <3>1, <3>2 DEF Originators, Keeps
    <3>4. WindowOK(q, f) /\ QueueOK(q, f) /\ InFlightFirst(q)
      BY <2>5, <2>6, <3>3 DEF WindowOK, QueueOK, StoreOK, InFlightFirst, Stored
    <3>5. q.inFlight = {}
      <4>1. Stored(dropped) = {}
        BY <2>6, <2>8, SetOfSeq DEF Stored
      <4> QED
        BY <2>5, <3>3, <4>1 DEF QueueOK
    <3>6. TimedOut(q, o, a, f)
      BY <2>3, <2>6, <3>2, <3>3, <3>4, <3>5 DEF TimedOut, RequestPending
    <3> QED
      BY <2>3, <3>6 DEF q
  <2> QED
    BY <2>7, <2>8
<1> QED
  BY <1>5, <1>6

(* Between two handlers: the window starts with frame a. *)
OriginatorOK(o, a) ==
    /\ WindowOK(o, a) /\ QueueOK(o, a) /\ InFlightFirst(o) /\ ExpiredOK(o, a)

(* p is o, but for frames that are not in flight and expired, and for a request
   that waited for data. *)
Wiped(q, o, a) ==
    /\ q \in Originators /\ q.unsent = o.unsent /\ q.next = o.next /\ q.acked = o.acked
    /\ q.queued \subseteq o.queued /\ q.inFlight = o.inFlight
    /\ OriginatorOK(q, a)
    /\ RequestPending(q) <=> RequestPending(o)
    /\ q.bar = o.bar \/ (o.bar = "none" /\ q.bar = "queued")

LEMMA AscendingSorts ==
  ASSUME NEW S, NEW n \in Nat, S \subseteq 0 .. n
  PROVE  /\ Ascending(S) \in Seq(Nat) /\ ToSet(Ascending(S)) = S
         /\ IsAscending(Ascending(S))
<1> DEFINE p == [m \in S |-> m]
           s == InOrder(S, p)
<1>1. S \in SUBSET Nat /\ IsFiniteSet(S)
  <2>1. 0 \in Int /\ n \in Int
    OBVIOUS
  <2>2. IsFiniteSet(0 .. n)
    BY ONLY <2>1, FS_Interval
  <2>3. S \in SUBSET (0 .. n)
    OBVIOUS
  <2>4. IsFiniteSet(S)
    BY ONLY <2>2, <2>3, FS_Subset
  <2> QED
    BY <2>3, <2>4
<1>2. p \in [S -> Int] /\ \A k, m \in S : p[k] = p[m] => k = m
  BY <1>1
<1>3. s \in Seq(Nat) /\ ToSet(s) = S /\ \A i, j \in 1 .. Len(s) : i < j => p[s[i]] < p[s[j]]
  <2> HIDE DEF p
  <2> QED
    BY <1>1, <1>2, InOrderSorts
<1>4. Ascending(S) = s
  BY DEF Ascending
<1> HIDE DEF s
<1>5. IsAscending(s)
  <2> SUFFICES ASSUME NEW i \in 1 .. Len(s), NEW j \in 1 .. Len(s), i < j PROVE s[i] < s[j]
    BY <1>3, SetOfSeq DEF IsAscending
  <2>1. s[i] \in S /\ s[j] \in S
    BY <1>3, SetOfSeq
  <2> QED
    BY <1>3, <2>1
<1> QED
  BY <1>3, <1>4, <1>5

LEMMA WipeAllExpiredMpdusDoes ==
  ASSUME NEW o \in Originators, NEW a \in Nat, OriginatorOK(o, a), expiredTo \in Nat
  PROVE  LET q == WipeAllExpiredMpdus(o)
         IN  Wiped(q, o, a) /\ q.bar = o.bar
<1> DEFINE gone == {m \in o.queued \ o.inFlight : m < expiredTo}
           t == Ascending(gone)
           d == Dequeue(o, gone)
           q == [d EXCEPT !.expired = @ \o t]
<1>1. /\ o.next \in Nat /\ o.queued \subseteq a .. o.next - 1 /\ o.expired \in Seq(Nat)
      /\ o.inFlight \subseteq o.queued /\ Stored(o) = o.inFlight
      /\ o.acked \cap o.queued = {} /\ IsAscending(o.packetQueue)
      /\ gone \subseteq o.queued \ o.inFlight
      /\ gone \subseteq 0 .. o.next
  BY OriginatorFields DEF OriginatorOK, QueueOK, StoreOK
<1>2. t \in Seq(Nat) /\ ToSet(t) = gone /\ IsAscending(t)
  <2> HIDE DEF gone
  <2> QED
    BY <1>1, AscendingSorts
<1>3. /\ ToSet(o.expired) \subseteq a .. o.next - 1
      /\ ToSet(o.expired) \cap (o.queued \cup o.acked) = {}
      /\ IsAscending(o.expired) /\ \A m \in ToSet(o.expired) : m < expiredTo
      /\ o.expired # <<>> => gone = {}
  <2>1. o.expired # <<>> => gone = {}
    BY <1>1 DEF OriginatorOK, ExpiredOK
  <2> QED
    BY <2>1 DEF OriginatorOK, ExpiredOK
<1>4. WipeAllExpiredMpdus(o) = q
  BY DEF WipeAllExpiredMpdus
<1>5. \A x \in ToSet(o.expired), y \in ToSet(t) : x < y
  <2>1. o.expired = <<>> => ToSet(o.expired) = {}
    BY <1>1, SetOfSeq
  <2> QED
    BY <1>2, <1>3, <2>1
<1> HIDE DEF t
<1>6. /\ o.expired \o t \in Seq(Nat) /\ IsAscending(o.expired \o t)
      /\ ToSet(o.expired \o t) = ToSet(o.expired) \cup gone
  BY <1>1, <1>2, <1>3, <1>5, JoinAscending
<1>7. /\ d \in Originators /\ Keeps(d, o)
      /\ d.queued = o.queued \ gone /\ d.inFlight = o.inFlight \ gone
      /\ d.packetQueue = o.packetQueue /\ d.window = o.window
      /\ d.bar = o.bar /\ d.acked = o.acked
  BY DequeueDoes
<1> HIDE DEF d
<1>8. /\ q \in Originators /\ q.unsent = d.unsent /\ q.next = d.next
      /\ q.queued = d.queued /\ q.inFlight = d.inFlight /\ q.packetQueue = d.packetQueue
      /\ q.window = d.window /\ q.bar = d.bar /\ q.acked = d.acked
      /\ q.sendBarIfDataQueued = d.sendBarIfDataQueued
      /\ q.expired = o.expired \o t
  BY <1>6, <1>7 DEF Originators, Keeps
<1> HIDE DEF q
<1>9. /\ q.next = o.next /\ q.unsent = o.unsent /\ q.queued = o.queued \ gone
      /\ q.inFlight = o.inFlight /\ Stored(q) = Stored(o) /\ q.acked = o.acked
      /\ q.bar = o.bar /\ q.sendBarIfDataQueued = o.sendBarIfDataQueued
      /\ q.packetQueue = o.packetQueue /\ q.window = o.window
  BY <1>1, <1>7, <1>8 DEF Keeps, Stored
<1>10. WindowOK(q, a) /\ QueueOK(q, a) /\ InFlightFirst(q)
  BY <1>1, <1>9 DEF OriginatorOK, WindowOK, QueueOK, StoreOK, InFlightFirst
<1>11. ExpiredOK(q, a)
  <2>1. ToSet(q.expired) \subseteq a .. o.next - 1
    BY <1>1, <1>3, <1>6, <1>8
  <2>2. ToSet(q.expired) \cap (q.queued \cup q.acked) = {}
    BY <1>1, <1>3, <1>6, <1>8, <1>9
  <2>3. \A m \in ToSet(q.expired) : m < expiredTo
    BY <1>3, <1>6, <1>8
  <2>4. \A m \in q.queued \ q.inFlight : m >= expiredTo
    BY <1>1, <1>9
  <2> QED
    BY <1>6, <1>8, <1>9, <2>1, <2>2, <2>3, <2>4 DEF ExpiredOK
<1> QED
  BY <1>1, <1>4, <1>8, <1>9, <1>10, <1>11 DEF Wiped, OriginatorOK, RequestPending

LEMMA GetBarDoes ==
  ASSUME NEW o \in Originators, NEW a \in Nat, OriginatorOK(o, a), expiredTo \in Nat
  PROVE  LET q == GetBar(o)
         IN  Wiped(q, o, a) /\ (q.bar = "none" /\ DataQueued(q) => ~RequestPending(q))
<1> DEFINE wiped == WipeAllExpiredMpdus(o)
           q == GetBar(o)
<1>1. Wiped(wiped, o, a) /\ wiped.bar = o.bar
  BY WipeAllExpiredMpdusDoes
<1>2. q = IF wiped.bar = "none" /\ wiped.sendBarIfDataQueued /\ DataQueued(wiped)
          THEN [wiped EXCEPT !.bar = "queued", !.sendBarIfDataQueued = FALSE]
          ELSE wiped
  BY DEF GetBar
<1> HIDE DEF wiped, q
<1>3. CASE wiped.bar = "none" /\ wiped.sendBarIfDataQueued /\ DataQueued(wiped)
  <2>1. q = [wiped EXCEPT !.bar = "queued", !.sendBarIfDataQueued = FALSE]
    BY <1>2, <1>3
  <2>2. wiped \in Originators
    BY <1>1 DEF Wiped
  <2>3. /\ q \in Originators /\ q.unsent = wiped.unsent /\ q.next = wiped.next
        /\ q.queued = wiped.queued /\ q.inFlight = wiped.inFlight
        /\ q.packetQueue = wiped.packetQueue
        /\ q.window = wiped.window /\ q.bar = "queued" /\ q.acked = wiped.acked
        /\ q.expired = wiped.expired
    BY <2>1, <2>2 DEF Originators
  <2>4. OriginatorOK(wiped, a)
    BY <1>1 DEF Wiped
  <2>5. OriginatorOK(q, a)
    BY <2>3, <2>4 DEF OriginatorOK, WindowOK, QueueOK, StoreOK, InFlightFirst, ExpiredOK, Stored
  <2>6. Wiped(q, o, a)
    BY <1>1, <1>3, <2>3, <2>5 DEF Wiped, RequestPending
  <2> QED
    BY <2>3, <2>6 DEF q
<1>4. CASE ~(wiped.bar = "none" /\ wiped.sendBarIfDataQueued /\ DataQueued(wiped))
  <2>1. q = wiped
    BY <1>2, <1>4
  <2> QED
    BY <1>1, <1>4, <2>1 DEF RequestPending, q
<1> QED
  BY <1>3, <1>4

LEMMA TransmissionSucceededDoes ==
  ASSUME NEW o \in Originators, NEW a \in Nat, OriginatorOK(o, a), expiredTo \in Nat
  PROVE  Wiped(TransmissionSucceeded(o), o, a)
<1>1. CASE TxopLimitIsZero
  BY <1>1, GetBarDoes DEF TransmissionSucceeded
<1>2. CASE ~TxopLimitIsZero
  <2>1. TransmissionSucceeded(o) = o
    BY <1>2 DEF TransmissionSucceeded
  <2> QED
    BY <2>1 DEF Wiped
<1> QED
  BY <1>1, <1>2

(* No frame in the queue is old. *)
LEMMA RemoveOldDoes ==
  ASSUME NEW o \in Originators, NEW a \in Nat, OriginatorOK(o, a)
  PROVE  RemoveOld(o) = o
<1>1. /\ o.queued \subseteq a .. o.next - 1 /\ o.next <= a + WinSize /\ o.next \in Nat
      /\ o.window.m_winStart = GetSequenceNumber(a)
  BY OriginatorFields DEF OriginatorOK, QueueOK, StoreOK, WindowOK, StartsAt
<1>2. ASSUME NEW m \in o.queued PROVE ~IsOldMpdu(o, m)
  <2>1. /\ m \in Nat /\ m < a + SEQNO_SPACE_HALF_SIZE /\ a <= m + SEQNO_SPACE_HALF_SIZE
        /\ ~(m < a)
    BY <1>1, SpaceFacts
  <2> QED
    BY <1>1, <2>1, OldIsBefore DEF IsOldMpdu
<1>3. {m \in o.queued : IsOldMpdu(o, m)} = {}
  BY <1>2
<1>4. RemoveOld(o) = Dequeue(o, {})
  BY <1>3 DEF RemoveOld
<1>5. o.queued \ {} = o.queued /\ o.inFlight \ {} = o.inFlight
  OBVIOUS
<1>6. Dequeue(o, {}) = [o EXCEPT !.queued = o.queued, !.inFlight = o.inFlight]
  BY ONLY <1>5 DEF Dequeue
<1>7. [o EXCEPT !.queued = o.queued, !.inFlight = o.inFlight] = o
  BY DEF Originators
<1> QED
  BY ONLY <1>4, <1>6, <1>7

(* Frames that may be sent: none is skipped, and all are within the window. *)
MayBeSent(o, a) == (o.queued \ o.inFlight) \cup (o.next .. o.next + o.unsent - 1)
Sendable(s, o, a) ==
    /\ s \in Seq(Nat) /\ IsAscending(s)
    /\ ToSet(s) \subseteq MayBeSent(o, a)
    /\ \A m \in ToSet(s) : m < a + WinSize
    /\ \A m \in ToSet(s), k \in MayBeSent(o, a) : k < m => k \in ToSet(s)

LEMMA NewFrames ==
  ASSUME NEW n \in Nat, NEW u \in Nat
  PROVE  LET t == [i \in 1 .. u |-> n + i - 1]
         IN  /\ t \in Seq(Nat) /\ Len(t) = u /\ IsAscending(t) /\ ToSet(t) = n .. n + u - 1
             /\ \A i \in 1 .. u : t[i] = n + i - 1
<1> DEFINE t == [i \in 1 .. u |-> n + i - 1]
<1>1. t \in [1 .. u -> Nat] /\ DOMAIN t = 1 .. u /\ \A i \in 1 .. u : t[i] = n + i - 1
  OBVIOUS
<1> HIDE DEF t
<1>2. t \in Seq(Nat) /\ Len(t) = u
  BY <1>1
<1>3. IsAscending(t)
  BY <1>1 DEF IsAscending
<1>4. ToSet(t) = n .. n + u - 1
  <2>1. ToSet(t) = {t[i] : i \in 1 .. u}
    BY <1>1 DEF ToSet
  <2>2. \A i \in 1 .. u : t[i] \in n .. n + u - 1
    BY <1>1
  <2>3. \A m \in n .. n + u - 1 : m - n + 1 \in 1 .. u /\ t[m - n + 1] = m
    <3> TAKE m \in n .. n + u - 1
    <3>1. m - n + 1 \in 1 .. u /\ n + (m - n + 1) - 1 = m
      OBVIOUS
    <3> QED
      BY <1>1, <3>1
  <2> QED
    BY <2>1, <2>2, <2>3
<1> QED
  BY <1>1, <1>2, <1>3, <1>4 DEF t

LEMMA PeekedDoes ==
  ASSUME NEW o \in Originators, NEW a \in Nat, OriginatorOK(o, a)
  PROVE  Sendable(Peeked(o), o, a)
<1> DEFINE old == Ascending(o.queued \ o.inFlight)
           new == [i \in 1 .. o.unsent |-> o.next + i - 1]
           frames == old \o new
           beyond == SelectInSeq(frames, LAMBDA m : Distance(o, m) >= WinSize)
           I == {i \in 1 .. Len(frames) : Distance(o, frames[i]) >= WinSize}
           s == Peeked(o)
<1>1. /\ o.queued \subseteq a .. o.next - 1 /\ a <= o.next /\ o.next <= a + WinSize
      /\ o.next \in Nat /\ o.unsent \in Nat
      /\ o.window.m_winStart = GetSequenceNumber(a)
      /\ o.queued \ o.inFlight \subseteq 0 .. o.next
  BY OriginatorFields DEF OriginatorOK, QueueOK, StoreOK, WindowOK, StartsAt
<1>2. old \in Seq(Nat) /\ ToSet(old) = o.queued \ o.inFlight /\ IsAscending(old)
  BY <1>1, AscendingSorts
<1>3. /\ new \in Seq(Nat) /\ Len(new) = o.unsent /\ IsAscending(new)
      /\ ToSet(new) = o.next .. o.next + o.unsent - 1
      /\ \A i \in 1 .. o.unsent : new[i] = o.next + i - 1
  BY <1>1, NewFrames
<1>4. s = IF beyond = 0 THEN frames ELSE SubSeq(frames, 1, beyond - 1)
  BY DEF Peeked
<1> HIDE DEF old, new, s
<1>5. /\ frames \in Seq(Nat) /\ IsAscending(frames)
      /\ ToSet(frames) = ToSet(old) \cup ToSet(new)
  <2>1. \A x \in ToSet(old), y \in ToSet(new) : x < y
    BY <1>1, <1>2, <1>3
  <2> QED
    BY <1>2, <1>3, <2>1, JoinAscending
<1>6. /\ Len(frames) = Len(old) + Len(new) /\ Len(old) \in Nat
      /\ \A i \in 1 .. Len(frames) : i > Len(old) => frames[i] = new[i - Len(old)]
      /\ \A i \in 1 .. Len(frames) : i <= Len(old) => frames[i] \in ToSet(old)
  <2>1. /\ Len(frames) = Len(old) + Len(new) /\ Len(old) \in Nat
        /\ \A i \in 1 .. Len(old) + Len(new) :
               frames[i] = IF i <= Len(old) THEN old[i] ELSE new[i - Len(old)]
    <3>1. old \in Seq(Nat) /\ new \in Seq(Nat)
      BY <1>2, <1>3
    <3>2. /\ Len(old \o new) = Len(old) + Len(new)
          /\ \A i \in 1 .. Len(old) + Len(new) :
                 (old \o new)[i] = IF i <= Len(old) THEN old[i] ELSE new[i - Len(old)]
      BY ONLY <3>1, ConcatProperties
    <3>3. Len(old) \in Nat
      BY ONLY <3>1, SetOfSeq
    <3> QED
      BY ONLY <3>2, <3>3 DEF frames
  <2>2. \A i \in 1 .. Len(old) : old[i] \in ToSet(old)
    BY <1>2, SetOfSeq
  <2> HIDE DEF frames
  <2>3. Len(new) \in Nat
    BY <1>1, <1>3
  <2>4. \A i \in 1 .. Len(frames) : i > Len(old) => frames[i] = new[i - Len(old)]
    BY ONLY <2>1, <2>3
  <2>5. \A i \in 1 .. Len(frames) : i <= Len(old) => frames[i] \in ToSet(old)
    <3> TAKE i \in 1 .. Len(frames)
    <3> SUFFICES ASSUME i <= Len(old) PROVE frames[i] \in ToSet(old)
      OBVIOUS
    <3>1. i \in 1 .. Len(old) /\ i \in 1 .. Len(old) + Len(new)
      BY ONLY <2>1, <2>3, i \in 1 .. Len(frames), i <= Len(old)
    <3> QED
      BY ONLY <2>1, <2>2, <3>1
  <2> QED
    BY ONLY <2>1, <2>4, <2>5
<1>7. beyond = IF I # {} THEN Min(I) ELSE 0
  BY DEF SelectInSeq
<1> HIDE DEF beyond, frames
<1>8. I # {} => beyond \in I /\ \A i \in I : beyond <= i
  <2>1. I \in SUBSET Nat
    BY <1>5, SetOfSeq
  <2> QED
    BY <1>7, <2>1, MinOfIndices
<1>9. /\ DOMAIN frames = 1 .. Len(frames) /\ Len(frames) \in Nat
      /\ \A i \in 1 .. Len(frames) : frames[i] \in Nat
      /\ \A m \in ToSet(frames) : \E i \in 1 .. Len(frames) : m = frames[i]
  BY <1>5, SetOfSeq
(* The first frame beyond the window is the one the window's length from a. *)
<1>10. ASSUME NEW i \in 1 .. Len(frames), frames[i] >= a + WinSize
       PROVE  beyond # 0 /\ beyond <= i
  <2> DEFINE l == a + WinSize - o.next + 1
             j == Len(old) + l
  <2>1. i > Len(old)
    <3> SUFFICES ASSUME i <= Len(old) PROVE FALSE
      BY <1>6
    <3>1. frames[i] \in o.queued
      BY <1>2, <1>6
    <3> QED
      BY <1>1, <1>10, <3>1, SpaceFacts
  <2>2. i - Len(old) \in 1 .. o.unsent
    BY <1>1, <1>3, <1>6, <2>1
  <2>3. frames[i] = o.next + (i - Len(old)) - 1
    BY <1>3, <1>6, <2>1, <2>2
  <2>4. l \in 1 .. o.unsent /\ l <= i - Len(old) /\ o.next + l - 1 = a + WinSize
    <3>1. PICK d \in 1 .. o.unsent : d = i - Len(old)
      BY <2>2
    <3>2. PICK b \in Nat : b = a + WinSize
      BY SpaceFacts
    <3>3. o.next + d - 1 >= b
      BY <1>10, <2>3, <3>1, <3>2
    <3>4. o.next \in Nat /\ o.unsent \in Nat /\ o.next <= b
      BY <1>1, <3>2
    <3>5. b - o.next + 1 \in 1 .. o.unsent /\ b - o.next + 1 <= d
          /\ o.next + (b - o.next + 1) - 1 = b
      BY ONLY <3>3, <3>4, b \in Nat, d \in 1 .. o.unsent
    <3>6. l = b - o.next + 1
      <4>1. WinSize \in Nat
        BY SpaceFacts
      <4> QED
        BY ONLY <3>2, <3>4, <4>1, a \in Nat
    <3> HIDE DEF l
    <3>7. l \in 1 .. o.unsent /\ l <= d /\ o.next + l - 1 = b
      BY ONLY <3>5, <3>6
    <3> QED
      BY ONLY <3>1, <3>2, <3>7
  <2> HIDE DEF l
  <2>5. j \in 1 .. Len(frames) /\ j > Len(old) /\ j - Len(old) = l /\ j <= i
    <3>1. /\ Len(old) \in Nat /\ o.unsent \in Nat /\ i \in Int
          /\ Len(frames) = Len(old) + o.unsent
      BY <1>1, <1>3, <1>6
    <3> QED
      BY ONLY <3>1, <2>4, i \in 1 .. Len(frames)
  <2>6. frames[j] = a + WinSize
    BY <1>3, <1>6, <2>4, <2>5
  <2> HIDE DEF j
  <2>7. Distance(o, a + WinSize) = WinSize
    <3>1. /\ a + WinSize \in Nat /\ a <= a + WinSize /\ a + WinSize < a + SEQNO_SPACE_SIZE
          /\ (a + WinSize) - a = WinSize
      BY SpaceFacts
    <3> QED
      BY <1>1, <3>1, DistanceAhead DEF Distance
  <2>8. j \in I
    <3>1. WinSize >= WinSize
      BY SpaceFacts
    <3> QED
      BY <2>5, <2>6, <2>7, <3>1
  <2>9. beyond \in I /\ beyond <= j
    BY <1>8, <2>8
  <2>10. beyond \in 1 .. Len(frames)
    BY <2>9
  <2> HIDE DEF I
  <2> QED
    BY <1>9, <2>5, <2>9, <2>10
<1> DEFINE last == IF beyond = 0 THEN Len(frames) ELSE beyond - 1
<1>11. /\ 1 \in 1 .. Len(frames) + 1 /\ last \in 1 - 1 .. Len(frames)
       /\ beyond = 0 \/ beyond \in 1 .. Len(frames)
  <2>1. beyond = 0 \/ beyond \in 1 .. Len(frames)
    BY <1>7, <1>8
  <2> QED
    BY <1>9, <2>1
<1>12. s = SubSeq(frames, 1, last)
  <2>1. SubSeq(frames, 1, Len(frames)) = frames
    BY <1>5, SubSeqFull
  <2> QED
    BY <1>4, <2>1
<1>13. \A i \in 1 .. last : frames[i] < a + WinSize
  <2> SUFFICES ASSUME NEW i \in 1 .. last, frames[i] >= a + WinSize PROVE FALSE
    BY <1>9, <1>11, SpaceFacts
  <2>1. i \in 1 .. Len(frames)
    BY <1>9, <1>11
  <2>2. beyond # 0 /\ beyond <= i
    BY <1>10, <2>1
  <2> QED
    BY <1>11, <2>2
<1> HIDE DEF last, I
<1>14. s \in Seq(Nat) /\ IsAscending(s) /\ ToSet(s) = {frames[i] : i \in 1 .. last}
  BY <1>5, <1>11, <1>12, SliceOfAscending
<1>15. ToSet(frames) = MayBeSent(o, a)
  BY <1>2, <1>3, <1>5 DEF MayBeSent
<1>16. ToSet(s) \subseteq MayBeSent(o, a)
  <2>1. \A i \in 1 .. last : i \in 1 .. Len(frames)
    BY <1>9, <1>11
  <2>2. \A i \in 1 .. Len(frames) : frames[i] \in ToSet(frames)
    BY <1>5, SetOfSeq
  <2> QED
    BY <1>14, <1>15, <2>1, <2>2
<1>17. ASSUME NEW m \in ToSet(s), NEW k \in MayBeSent(o, a), k < m PROVE k \in ToSet(s)
  <2>1. PICK i \in 1 .. last : m = frames[i]
    BY <1>14
  <2>2. PICK j \in 1 .. Len(frames) : k = frames[j]
    BY <1>9, <1>15
  <2>3. i \in 1 .. Len(frames)
    BY <1>9, <1>11
  <2>4. j <= i
    <3> SUFFICES ASSUME i < j PROVE FALSE
      BY <2>1, <2>2, <2>3
    <3>1. m < k
      BY <1>5, <1>9, <2>1, <2>2, <2>3 DEF IsAscending
    <3> QED
      BY <1>9, <1>17, <2>1, <2>2, <2>3, <3>1
  <2>5. j \in 1 .. last
    BY <1>11, <2>4
  <2> QED
    BY <1>14, <2>2, <2>5
<1>18. \A m \in ToSet(s) : m < a + WinSize
  BY ONLY <1>13, <1>14
<1>19. \A m \in ToSet(s), k \in MayBeSent(o, a) : k < m => k \in ToSet(s)
  BY ONLY <1>17
<1> QED
  BY ONLY <1>14, <1>16, <1>18, <1>19 DEF Sendable, s

LEMMA PrefixIsSendable ==
  ASSUME NEW o \in Originators, NEW a \in Nat, NEW s, Sendable(s, o, a),
         NEW count \in 1 .. Len(s)
  PROVE  LET t == SubSeq(s, 1, count)
         IN  Sendable(t, o, a) /\ t # <<>> /\ Len(t) = count
<1> DEFINE t == SubSeq(s, 1, count)
<1>1. /\ s \in Seq(Nat) /\ IsAscending(s) /\ Len(s) \in Nat /\ DOMAIN s = 1 .. Len(s)
      /\ ToSet(s) \subseteq MayBeSent(o, a)
      /\ \A m \in ToSet(s) : m < a + WinSize
      /\ \A m \in ToSet(s), k \in MayBeSent(o, a) : k < m => k \in ToSet(s)
      /\ \A i \in 1 .. Len(s) : s[i] \in Nat /\ s[i] \in ToSet(s)
      /\ \A m \in ToSet(s) : \E i \in 1 .. Len(s) : m = s[i]
  BY SetOfSeq DEF Sendable
<1>2. 1 \in 1 .. Len(s) + 1 /\ count \in 1 - 1 .. Len(s) /\ 1 .. count \subseteq 1 .. Len(s)
  BY <1>1
<1>3. /\ t \in Seq(Nat) /\ IsAscending(t) /\ Len(t) = count - 1 + 1
      /\ ToSet(t) = {s[i] : i \in 1 .. count}
  BY <1>1, <1>2, SliceOfAscending
<1> HIDE DEF t
<1>4. Len(t) = count /\ t # <<>>
  <2>1. Len(t) = count
    BY <1>2, <1>3
  <2> QED
    BY <1>2, <2>1, EmptySeq
<1>5. ToSet(t) \subseteq ToSet(s)
  BY <1>1, <1>2, <1>3
<1>6. ASSUME NEW m \in ToSet(t), NEW k \in MayBeSent(o, a), k < m PROVE k \in ToSet(t)
  <2>1. k \in ToSet(s)
    BY <1>1, <1>5, <1>6
  <2>2. PICK i \in 1 .. count : m = s[i]
    BY <1>3
  <2>3. PICK j \in 1 .. Len(s) : k = s[j]
    BY <1>1, <2>1
  <2>4. i \in 1 .. Len(s) /\ m \in Nat /\ k \in Nat
    BY <1>1, <1>2, <2>2, <2>3
  <2>5. ~(i < j)
    <3> SUFFICES ASSUME i < j PROVE FALSE
      OBVIOUS
    <3>1. m < k
      BY ONLY <1>1, <2>2, <2>3, <2>4, i < j DEF IsAscending
    <3> QED
      BY ONLY <1>6, <2>4, <3>1
  <2>6. j \in 1 .. count
    BY <2>3, <2>4, <2>5
  <2> QED
    BY <1>3, <2>3, <2>6
<1> QED
  BY <1>1, <1>3, <1>4, <1>5, <1>6 DEF Sendable, t

(* A frame joins those that were stored before it. *)
WithStored(o, frames) == [o EXCEPT !.packetQueue = frames]

LEMMA StorePacketDoes ==
  ASSUME NEW p \in Originators, NEW a \in Nat, StartsAt(p.window, a), NEW mpdus \in Seq(Nat),
         IsAscending(mpdus), \A m \in ToSet(mpdus) : a <= m /\ m < a + WinSize,
         NEW n \in 1 .. Len(mpdus), p.packetQueue = SubSeq(mpdus, 1, n - 1)
  PROVE  StorePacket(p, mpdus[n]) = WithStored(p, SubSeq(mpdus, 1, n))
<1> DEFINE m == mpdus[n]
           s == SubSeq(mpdus, 1, n - 1)
           before == SelectLastInSeq(s, LAMBDA k : Distance(p, k) < Distance(p, m))
           I == {i \in 1 .. Len(s) : Distance(p, s[i]) < Distance(p, m)}
<1>1. /\ Len(mpdus) \in Nat /\ DOMAIN mpdus = 1 .. Len(mpdus)
      /\ \A i \in 1 .. Len(mpdus) : /\ mpdus[i] \in Nat /\ a <= mpdus[i]
                                    /\ mpdus[i] < a + WinSize
      /\ p.window.m_winStart = GetSequenceNumber(a)
  BY SetOfSeq DEF StartsAt
<1>2. \A i \in 1 .. Len(mpdus) : Distance(p, mpdus[i]) = mpdus[i] - a
  <2> TAKE i \in 1 .. Len(mpdus)
  <2>1. mpdus[i] \in Nat /\ a <= mpdus[i] /\ mpdus[i] < a + SEQNO_SPACE_SIZE
    BY <1>1, SpaceFacts
  <2> QED
    BY <1>1, <2>1, DistanceAhead DEF Distance
<1>3. 1 \in 1 .. Len(mpdus) + 1 /\ n - 1 \in 1 - 1 .. Len(mpdus)
  BY <1>1
<1>4. /\ s \in Seq(Nat) /\ Len(s) = n - 1 - 1 + 1
      /\ \A i \in 1 .. n - 1 - 1 + 1 : s[i] = mpdus[1 + i - 1]
  BY <1>3, SliceOfAscending
<1> HIDE DEF s
<1>5. Len(s) = n - 1 /\ \A i \in 1 .. n - 1 : s[i] = mpdus[i]
  BY <1>1, <1>4
<1>6. \A i \in 1 .. n - 1 : Distance(p, s[i]) < Distance(p, m)
  <2> TAKE i \in 1 .. n - 1
  <2>1. i \in 1 .. Len(mpdus) /\ n \in 1 .. Len(mpdus) /\ i < n
    BY <1>1
  <2>2. mpdus[i] < mpdus[n] /\ mpdus[i] \in Nat /\ mpdus[n] \in Nat
    BY <1>1, <2>1 DEF IsAscending
  <2>3. mpdus[i] - a < mpdus[n] - a
    BY <2>2
  <2> QED
    BY <1>2, <1>5, <2>1, <2>3
<1>7. before = n - 1
  <2>1. I = 1 .. n - 1
    BY <1>5, <1>6
  <2>2. before = IF I # {} THEN Max(I) ELSE 0
    BY DEF SelectLastInSeq
  <2> HIDE DEF I, before
  <2>3. CASE n = 1
    BY <1>1, <2>1, <2>2, <2>3
  <2>4. CASE n # 1
    <3>1. n - 1 \in I /\ \A i \in I : n - 1 >= i
      BY <1>1, <2>1, <2>4
    <3>2. Max(I) = n - 1
      <4>1. \E x \in I : \A y \in I : x >= y
        BY <3>1
      <4>2. Max(I) \in I /\ \A y \in I : Max(I) >= y
        BY <4>1 DEF Max
      <4> QED
        BY <2>1, <3>1, <4>2
    <3> QED
      BY <2>2, <3>1, <3>2
  <2> QED
    BY <2>3, <2>4
<1> HIDE DEF before
<1>8. /\ m \in Nat /\ a <= m /\ m < a + WinSize /\ Distance(p, m) = m - a
  BY <1>1, <1>2
<1>9. ~IsOldMpdu(p, m)
  <2>1. m < a + SEQNO_SPACE_HALF_SIZE /\ a <= m + SEQNO_SPACE_HALF_SIZE /\ ~(m < a)
    BY <1>8, SpaceFacts
  <2> QED
    BY <1>1, <1>8, <2>1, OldIsBefore DEF IsOldMpdu
<1>10. SubSeq(s, before + 1, Len(s)) = <<>> /\ m \notin ToSet(<<>>)
  <2>1. before + 1 \in Int /\ Len(s) \in Int /\ Len(s) < before + 1
    BY <1>1, <1>5, <1>7
  <2>2. ToSet(<<>>) = {}
    BY SetOfSeq, EmptySeq
  <2> QED
    BY <2>1, <2>2, SubSeqEmpty
<1>11. InsertAt(s, before + 1, m) = SubSeq(mpdus, 1, n)
  <2>1. SubSeq(s, 1, (before + 1) - 1) = s
    <3>1. (before + 1) - 1 = Len(s)
      BY <1>1, <1>5, <1>7
    <3> QED
      BY <1>4, <3>1, SubSeqFull
  <2>2. InsertAt(s, before + 1, m) = s \o <<m>> \o <<>>
    BY <1>10, <2>1 DEF InsertAt
  <2>3. s \o <<m>> = SubSeq(mpdus, 1, n)
    <3>1. 1 \in 1 .. Len(mpdus) /\ n \in 1 .. Len(mpdus)
      BY <1>1
    <3> QED
      BY <3>1, SubSeqRecursiveSecond DEF s
  <2>4. s \o <<m>> \in Seq(Nat)
    <3>1. <<m>> \in Seq(Nat)
      BY <1>8
    <3> QED
      BY <1>4, <3>1, ConcatProperties
  <2> QED
    BY <2>2, <2>3, <2>4, ConcatEmptySeq
<1>12. NotifyTransmittedMpdu(p.window, m) = p.window
  <2>1. GetDistance(GetSequenceNumber(m), p.window.m_winStart) < WinSize
    BY <1>8, SpaceFacts DEF Distance
  <2> QED
    BY <2>1 DEF NotifyTransmittedMpdu
<1>13. StorePacket(p, m) = [p EXCEPT !.packetQueue = SubSeq(mpdus, 1, n), !.window = p.window]
  <2>1. before = SelectLastInSeq(p.packetQueue, LAMBDA k : Distance(p, k) < Distance(p, m))
    BY DEF before, s
  <2>2. p.packetQueue = s
    BY DEF s
  <2> HIDE DEF m, s
  <2>3. StorePacket(p, m) =
            IF IsOldMpdu(p, m) \/ m \in ToSet(SubSeq(s, before + 1, Len(s))) THEN p
            ELSE [p EXCEPT !.packetQueue = InsertAt(s, before + 1, m),
                           !.window      = NotifyTransmittedMpdu(p.window, m)]
    BY <2>1, <2>2 DEF StorePacket
  <2> QED
    BY <1>9, <1>10, <1>11, <1>12, <2>3
<1>14. [p EXCEPT !.packetQueue = SubSeq(mpdus, 1, n), !.window = p.window]
           = [p EXCEPT !.packetQueue = SubSeq(mpdus, 1, n)]
  <2> DEFINE x == SubSeq(mpdus, 1, n)
  <2> HIDE DEF x
  <2>1. [p EXCEPT !.packetQueue = x, !.window = p.window] = [p EXCEPT !.packetQueue = x]
    BY DEF Originators
  <2> QED
    BY <2>1 DEF x
<1> QED
  BY <1>13, <1>14 DEF WithStored

(* The new ones of the frames sent are the next numbers, in a row. *)
LEMMA NewAreNext ==
  ASSUME NEW o \in Originators, NEW a \in Nat, NEW s, Sendable(s, o, a),
         o.queued \subseteq 0 .. o.next - 1,
         NEW new, new = {m \in ToSet(s) : m >= o.next}
  PROVE  Cardinality(new) \in 0 .. o.unsent /\ new = o.next .. o.next + Cardinality(new) - 1
<1>1. /\ s \in Seq(Nat) /\ IsAscending(s) /\ Len(s) \in Nat /\ DOMAIN s = 1 .. Len(s)
      /\ ToSet(s) \subseteq MayBeSent(o, a)
      /\ \A m \in ToSet(s), k \in MayBeSent(o, a) : k < m => k \in ToSet(s)
      /\ \A i \in 1 .. Len(s) : s[i] \in Nat /\ s[i] \in ToSet(s)
      /\ \A m \in ToSet(s) : m \in Nat /\ \E i \in 1 .. Len(s) : m = s[i]
      /\ o.next \in Nat /\ o.unsent \in Nat
  BY SetOfSeq, OriginatorFields DEF Sendable
<1>2. new \subseteq o.next .. o.next + o.unsent - 1
  <2> SUFFICES ASSUME NEW m \in ToSet(s), m >= o.next
               PROVE  m \in o.next .. o.next + o.unsent - 1
    OBVIOUS
  <2>1. m \in MayBeSent(o, a) /\ o.next \in Nat
    BY <1>1
  <2>2. ~(m \in 0 .. o.next - 1)
    BY ONLY <2>1, m >= o.next
  <2> QED
    BY ONLY <2>1, <2>2, o.queued \subseteq 0 .. o.next - 1 DEF MayBeSent
<1>3. CASE new = {}
  <2>1. Cardinality(new) = 0 /\ o.next .. o.next + 0 - 1 = {}
    <3>1. o.next .. o.next + 0 - 1 = {}
      BY <1>1
    <3>2. Cardinality({}) = 0
      BY ONLY FS_EmptySet
    <3> QED
      BY <1>3, <3>1, <3>2
  <2>2. 0 \in 0 .. o.unsent
    BY <1>1
  <2> QED
    BY <1>3, <2>1, <2>2
<1>4. CASE new # {}
  <2> DEFINE l == s[Len(s)]
             k == l - o.next + 1
  <2>1. PICK x \in new : TRUE
    BY <1>4
  <2>2. PICK i \in 1 .. Len(s) : x = s[i]
    BY <1>1, <2>1
  <2>3. \A j \in 1 .. Len(s) : s[j] <= l
    <3> TAKE j \in 1 .. Len(s)
    <3>1. Len(s) \in Nat
      BY <1>1
    <3>2. Len(s) \in 1 .. Len(s) /\ (j = Len(s) \/ j < Len(s))
      BY ONLY <3>1, j \in 1 .. Len(s)
    <3>3. s[j] \in Nat /\ l \in Nat
      BY ONLY <1>1, <3>2, j \in 1 .. Len(s)
    <3>4. j < Len(s) => s[j] < l
      BY ONLY <1>1, <3>2, j \in 1 .. Len(s) DEF IsAscending
    <3> HIDE DEF l
    <3>5. j = Len(s) => s[j] = l
      BY DEF l
    <3> QED
      BY ONLY <3>2, <3>3, <3>4, <3>5
  <2>4. l \in ToSet(s) /\ l \in Nat
    <3>1. Len(s) \in 1 .. Len(s)
      BY <1>1, <2>2
    <3> QED
      BY <1>1, <3>1
  <2> HIDE DEF l
  <2>5. l >= o.next /\ l \in new
    <3>1. x >= o.next /\ x <= l /\ x \in Nat
      BY <1>1, <2>1, <2>2, <2>3
    <3> QED
      BY <1>1, <2>4, <3>1
  <2>6. l < o.next + o.unsent
    <3>1. l \in o.next .. o.next + o.unsent - 1
      BY ONLY <1>2, <2>5
    <3>2. o.next \in Nat /\ o.unsent \in Nat
      BY <1>1
    <3> QED
      BY ONLY <3>1, <3>2
  <2>7. new = o.next .. l
    <3>1. \A m \in new : m \in o.next .. l
      <4> TAKE m \in new
      <4>1. PICK j \in 1 .. Len(s) : m = s[j]
        BY <1>1
      <4>2. m <= l /\ m >= o.next /\ m \in Nat
        BY <1>1, <2>3, <4>1
      <4> QED
        BY <1>1, <2>4, <4>2
    <3>2. \A m \in o.next .. l : m \in new
      <4> TAKE m \in o.next .. l
      <4>1. m \in MayBeSent(o, a) /\ (m = l \/ m < l) /\ m >= o.next
        <5>1. o.next \in Nat /\ o.unsent \in Nat /\ m \in Int
          BY <1>1, <2>4
        <5>2. m <= o.next + o.unsent - 1 /\ m >= o.next /\ (m = l \/ m < l)
          BY ONLY <5>1, <2>4, <2>6, m \in o.next .. l
        <5> QED
          BY <5>1, <5>2 DEF MayBeSent
      <4>2. m \in ToSet(s)
        BY <1>1, <2>4, <4>1
      <4> QED
        BY <4>1, <4>2
    <3> QED
      BY <3>1, <3>2
  <2>8. Cardinality(new) = k
    <3>1. Cardinality(o.next .. l) = IF o.next > l THEN 0 ELSE l - o.next + 1
      <4>1. o.next \in Int /\ l \in Int
        BY <1>1, <2>4
      <4> QED
        BY ONLY <4>1, FS_Interval
    <3>2. o.next \in Nat /\ l \in Nat /\ l >= o.next
      BY <1>1, <2>4, <2>5
    <3>3. Cardinality(o.next .. l) = k
      BY ONLY <3>1, <3>2
    <3> QED
      BY <2>7, <3>3
  <2>9. k \in 0 .. o.unsent /\ o.next + k - 1 = l
    <3>1. o.next \in Nat /\ o.unsent \in Nat /\ l \in Nat /\ l >= o.next
          /\ l < o.next + o.unsent
      BY <1>1, <2>4, <2>5, <2>6
    <3> QED
      BY ONLY <3>1
  <2> QED
    BY ONLY <2>7, <2>8, <2>9
<1> QED
  BY <1>3, <1>4

(* The agreement, which has stored no frame, stores those sent. *)
LEMMA StorePacketsDoes ==
  ASSUME NEW o \in Originators, NEW a \in Nat, StartsAt(o.window, a),
         o.packetQueue = <<>>, NEW mpdus \in Seq(Nat), IsAscending(mpdus),
         \A m \in ToSet(mpdus) : a <= m /\ m < a + WinSize
  PROVE  ForEach(mpdus, o, StorePacket) = [o EXCEPT !.packetQueue = mpdus]
<1> DEFINE N == Len(mpdus)
           H(p, m) == StorePacket(p, m)
           holds(p, n) == p = [o EXCEPT !.packetQueue = SubSeq(mpdus, 1, n)]
           S == [n \in 0 .. N |-> {p \in Originators : holds(p, n)}]
           G == [x \in Nat \X Originators |-> H(x[2], mpdus[x[1]])]
           Rec(f) == f = [n \in 0 .. N |-> IF n = 0 THEN o ELSE H(f[n - 1], mpdus[n])]
           g == CHOOSE f : Rec(f)
<1>1. ForEach(mpdus, o, StorePacket) = g[N]
  BY DEF ForEach
<1>2. mpdus \in Seq(Nat)
  OBVIOUS
<1>3. /\ N \in Nat /\ \A n \in 1 .. N : n \in 0 .. N /\ n - 1 \in 0 .. N /\ n \in Nat /\ n # 0
      /\ 0 \in 0 .. N /\ N \in 0 .. N
  BY <1>2, SetOfSeq
<1> HIDE DEF N, g
<1>4. /\ \A n \in 0 .. N : \A p : p \in S[n] <=> p \in Originators /\ holds(p, n)
      /\ \A n \in Nat, p \in Originators : G[<<n, p>>] = H(p, mpdus[n])
  <2> HIDE DEF H, holds
  <2> QED
    OBVIOUS
<1> HIDE DEF S, G
<1>5. o \in Originators /\ holds(o, 0)
  <2>1. SubSeq(mpdus, 1, 0) = <<>>
    BY SubSeqEmpty
  <2>2. [o EXCEPT !.packetQueue = <<>>] = o
    BY DEF Originators
  <2> QED
    BY <2>1, <2>2
<1>6. ASSUME NEW n \in 1 .. N, NEW p \in Originators, holds(p, n - 1)
      PROVE  H(p, mpdus[n]) \in Originators /\ holds(H(p, mpdus[n]), n)
  <2> DEFINE s == SubSeq(mpdus, 1, n - 1)
             t == SubSeq(mpdus, 1, n)
             q == StorePacket(p, mpdus[n])
  <2>1. p = [o EXCEPT !.packetQueue = s]
    BY <1>6
  <2> HIDE DEF s
  <2>2. StartsAt(p.window, a) /\ p.packetQueue = s
    BY <2>1 DEF Originators, StartsAt
  <2>3. n \in 1 .. Len(mpdus)
    BY DEF N
  <2>4. q = [p EXCEPT !.packetQueue = t]
    <3>1. /\ p \in Originators /\ a \in Nat /\ StartsAt(p.window, a) /\ mpdus \in Seq(Nat)
          /\ IsAscending(mpdus) /\ \A m \in ToSet(mpdus) : a <= m /\ m < a + WinSize
          /\ n \in 1 .. Len(mpdus) /\ p.packetQueue = SubSeq(mpdus, 1, n - 1)
      BY <2>2, <2>3 DEF s
    <3>2. StorePacket(p, mpdus[n]) = WithStored(p, SubSeq(mpdus, 1, n))
      BY ONLY <3>1, StorePacketDoes
    <3> QED
      BY <3>2 DEF WithStored
  <2>5. t \in Seq(Nat)
    <3>1. 1 \in 1 .. Len(mpdus) + 1 /\ n \in 1 - 1 .. Len(mpdus)
      BY <2>3
    <3> QED
      BY <3>1, SliceOfAscending
  <2> HIDE DEF t, q
  <2>6. q \in Originators /\ q = [o EXCEPT !.packetQueue = t]
    BY <2>1, <2>4, <2>5 DEF Originators
  <2> QED
    BY <2>6 DEF t, q
<1>7. Passing(G, S, N)
  <2> HIDE DEF H, holds
  <2>1. ASSUME NEW n \in 1 .. N, NEW p \in S[n - 1] PROVE G[<<n, p>>] \in S[n]
    <3>1. p \in Originators /\ holds(p, n - 1)
      BY ONLY <1>3, <1>4, <2>1
    <3>2. H(p, mpdus[n]) \in Originators /\ holds(H(p, mpdus[n]), n)
      BY ONLY <1>6, <2>1, <3>1
    <3> QED
      BY ONLY <1>3, <1>4, <2>1, <3>1, <3>2
  <2> QED
    BY <2>1 DEF Passing
<1>8. PICK h : /\ h = [n \in 0 .. N |-> h[n]]
               /\ h[0] = o
               /\ \A n \in 0 .. N : h[n] \in S[n]
               /\ \A n \in 1 .. N : h[n] = G[<<n, h[n - 1]>>]
  <2> DEFINE start == o
  <2>1. start \in S[0]
    <3> HIDE DEF holds, start
    <3> QED
      BY ONLY <1>3, <1>4, <1>5 DEF start
  <2> HIDE DEF start
  <2>2. \E f : /\ f = [n \in 0 .. N |-> f[n]]
               /\ f[0] = start
               /\ \A n \in 0 .. N : f[n] \in S[n]
               /\ \A n \in 1 .. N : f[n] = G[<<n, f[n - 1]>>]
    BY ONLY <1>3, <1>7, <2>1, LoopRuns
  <2> QED
    BY <2>2 DEF start
<1>9. Rec(h)
  <2> HIDE DEF H, holds
  <2>1. \A n \in 0 .. N : h[n] \in Originators
    BY ONLY <1>4, <1>8
  <2>2. \A n \in 1 .. N : h[n] = H(h[n - 1], mpdus[n])
    BY ONLY <1>3, <1>4, <1>8, <2>1
  <2>3. \A n \in 0 .. N : n = 0 \/ n \in 1 .. N
    BY ONLY <1>3
  <2> QED
    BY ONLY <1>8, <2>2, <2>3
<1>10. Rec(g)
  <2>1. \E x : Rec(x)
    BY <1>9
  <2> HIDE DEF Rec
  <2> QED
    BY <2>1 DEF g
<1>11. g[0] = o /\ \A n \in 1 .. N : g[n] = H(g[n - 1], mpdus[n])
  <2> HIDE DEF H
  <2> QED
    BY ONLY <1>3, <1>10
<1>12. \A n \in 0 .. N : g[n] \in S[n]
  <2> HIDE DEF H, holds
  <2>1. g[0] \in S[0]
    BY ONLY <1>3, <1>4, <1>5, <1>11
  <2>2. ASSUME NEW n \in 1 .. N, g[n - 1] \in S[n - 1] PROVE g[n] \in S[n]
    <3>1. g[n - 1] \in Originators /\ holds(g[n - 1], n - 1)
      BY ONLY <1>3, <1>4, <2>2
    <3>2. H(g[n - 1], mpdus[n]) \in Originators /\ holds(H(g[n - 1], mpdus[n]), n)
      BY ONLY <1>6, <2>2, <3>1
    <3> QED
      BY ONLY <1>3, <1>4, <1>11, <2>2, <3>2
  <2> QED
    BY ONLY <1>3, <2>1, <2>2, LoopKeeps
<1>13. g[N] \in Originators /\ holds(g[N], N)
  <2> HIDE DEF H, holds
  <2> QED
    BY ONLY <1>3, <1>4, <1>12
<1>14. SubSeq(mpdus, 1, N) = mpdus
  BY <1>2, SubSeqFull DEF N
<1> QED
  BY <1>1, <1>13, <1>14

(* Frames are sent when none is in flight. *)
LEMMA SendMpdusDoes ==
  ASSUME NEW o \in Originators, NEW a \in Nat, OriginatorOK(o, a), o.inFlight = {},
         NEW mpdus, Sendable(mpdus, o, a)
  PROVE  LET q == SendMpdus(o, mpdus)
         IN  /\ q \in Originators /\ OriginatorOK(q, a) /\ SentOK(q, mpdus, a)
             /\ q.inFlight = ToSet(mpdus) /\ ToSet(mpdus) \subseteq q.queued
             /\ o.next <= q.next /\ q.acked = o.acked /\ q.bar = o.bar
             /\ q.sendBarIfDataQueued = o.sendBarIfDataQueued
             /\ \A m \in q.queued : m \in o.queued \/ m >= o.next
<1> DEFINE new == {m \in ToSet(mpdus) : m >= o.next}
           k == Cardinality(new)
           sent == [o EXCEPT !.unsent   = @ - k,
                             !.next     = @ + k,
                             !.queued   = @ \cup new,
                             !.inFlight = @ \cup ToSet(mpdus)]
           q == SendMpdus(o, mpdus)
<1>1. /\ o.queued \subseteq a .. o.next - 1 /\ a <= o.next /\ o.next <= a + WinSize
      /\ o.next \in Nat /\ o.unsent \in Nat /\ o.queued \in SUBSET Nat
      /\ StartsAt(o.window, a) /\ o.acked \subseteq 0 .. o.next - 1
      /\ o.acked \cap o.queued = {} /\ Stored(o) = {}
      /\ o.queued \subseteq 0 .. o.next - 1
  BY OriginatorFields DEF OriginatorOK, QueueOK, StoreOK, WindowOK
<1>2. /\ mpdus \in Seq(Nat) /\ IsAscending(mpdus) /\ ToSet(mpdus) \in SUBSET Nat
      /\ ToSet(mpdus) \subseteq o.queued \cup (o.next .. o.next + o.unsent - 1)
      /\ \A m \in ToSet(mpdus) : a <= m /\ m < a + WinSize
  <2>1. mpdus \in Seq(Nat) /\ ToSet(mpdus) \subseteq MayBeSent(o, a)
    BY DEF Sendable
  <2>2. \A m \in MayBeSent(o, a) : m >= a
    BY <1>1 DEF MayBeSent
  <2> QED
    BY <2>1, <2>2, SetOfSeq DEF Sendable, MayBeSent
<1>3. k \in 0 .. o.unsent /\ new = o.next .. o.next + k - 1
  BY <1>1, NewAreNext
<1>4. q = ForEach(mpdus, sent, StorePacket)
  BY DEF SendMpdus
<1> HIDE DEF k, q
<1>5. new \in SUBSET Nat /\ new \subseteq ToSet(mpdus) /\ ToSet(mpdus) \subseteq o.queued \cup new
  BY <1>1, <1>2
<1> HIDE DEF new
<1>6. /\ sent \in Originators /\ sent.unsent = o.unsent - k /\ sent.next = o.next + k
      /\ sent.queued = o.queued \cup new /\ sent.inFlight = ToSet(mpdus)
      /\ sent.packetQueue = o.packetQueue /\ sent.window = o.window /\ sent.bar = o.bar
      /\ sent.acked = o.acked /\ sent.sendBarIfDataQueued = o.sendBarIfDataQueued
      /\ sent.expired = o.expired
  <2>1. /\ o.unsent - k \in Nat /\ o.next + k \in Nat /\ o.queued \cup new \in SUBSET Nat
        /\ o.inFlight \cup ToSet(mpdus) = ToSet(mpdus)
    BY <1>1, <1>2, <1>3, <1>5
  <2> QED
    BY <1>2, <2>1 DEF Originators
<1> HIDE DEF sent
<1>7. q = [sent EXCEPT !.packetQueue = mpdus]
  <2>1. sent.packetQueue = <<>>
    BY <1>1, <1>6, OriginatorFields, SetOfSeq DEF Stored
  <2>2. StartsAt(sent.window, a)
    BY <1>1, <1>6
  <2> QED
    BY <1>2, <1>4, <1>6, <2>1, <2>2, StorePacketsDoes
<1>8. /\ q \in Originators /\ q.next = o.next + k
      /\ q.queued = o.queued \cup new /\ q.inFlight = ToSet(mpdus)
      /\ q.packetQueue = mpdus /\ q.window = o.window /\ q.bar = o.bar
      /\ q.acked = o.acked /\ q.sendBarIfDataQueued = o.sendBarIfDataQueued
      /\ q.expired = o.expired
  BY <1>2, <1>6, <1>7 DEF Originators
<1>9. o.next + k <= a + WinSize
  <2>1. CASE k = 0
    BY <1>1, <2>1
  <2>2. CASE k # 0
    <3>1. o.next + k - 1 \in new
      BY <1>1, <1>3, <2>2
    <3> QED
      BY <1>1, <1>2, <1>3, <1>5, <3>1, SpaceFacts
  <2> QED
    BY <2>1, <2>2
<1>10. WindowOK(q, a)
  <2>1. q.acked \subseteq 0 .. q.next - 1 /\ a <= q.next /\ q.next <= a + WinSize
    BY <1>1, <1>3, <1>8, <1>9
  <2> QED
    BY <1>8, <2>1 DEF OriginatorOK, WindowOK
<1>11. ToSet(mpdus) \subseteq q.queued
  BY <1>5, <1>8
<1>12. QueueOK(q, a)
  <2>1. q.queued \subseteq a .. q.next - 1
    BY <1>1, <1>3, <1>8
  <2>2. q.acked \cap q.queued = {}
    BY <1>1, <1>3, <1>8
  <2> QED
    BY <1>2, <1>8, <1>11, <2>1, <2>2 DEF QueueOK, StoreOK, Stored
<1>13. \A m \in q.queued \ q.inFlight : m \in o.queued \ o.inFlight
  BY <1>5, <1>8
<1>14. InFlightFirst(q)
  <2> SUFFICES ASSUME NEW x \in ToSet(mpdus), NEW m \in q.queued \ ToSet(mpdus) PROVE x < m
    BY <1>8 DEF InFlightFirst
  <2>1. m \in MayBeSent(o, a)
    BY <1>8, <1>13 DEF MayBeSent
  <2>2. ~(m < x)
    BY <2>1 DEF Sendable
  <2>3. x \in Nat /\ m \in Nat /\ x # m
    BY <1>1, <1>2, <1>8, <1>13
  <2> QED
    BY <2>2, <2>3
<1>15. ExpiredOK(q, a)
  <2>1. /\ ToSet(o.expired) \subseteq a .. o.next - 1
        /\ ToSet(o.expired) \cap (o.queued \cup o.acked) = {}
        /\ IsAscending(o.expired) /\ \A m \in ToSet(o.expired) : m < expiredTo
        /\ o.expired # <<>> => \A m \in o.queued \ o.inFlight : m >= expiredTo
    BY DEF OriginatorOK, ExpiredOK
  <2>2. ToSet(q.expired) \subseteq a .. q.next - 1
    BY <1>1, <1>3, <1>8, <2>1
  <2>3. ToSet(q.expired) \cap (q.queued \cup q.acked) = {}
    BY <1>1, <1>3, <1>8, <2>1
  <2> QED
    BY <1>8, <1>13, <2>1, <2>2, <2>3 DEF ExpiredOK
<1>16. SentOK(q, mpdus, a)
  <2>1. \A m \in ToSet(mpdus) : q.next <= m + WinSize /\ m < q.next
    <3> TAKE m \in ToSet(mpdus)
    <3>1. m \in Nat /\ a <= m /\ m \in a .. q.next - 1
      BY <1>2, <1>11, <1>12 DEF QueueOK, StoreOK
    <3> QED
      BY <1>1, <1>3, <1>8, <1>9, <3>1, SpaceFacts
  <2> QED
    BY <1>8, <1>11, <2>1 DEF SentOK
<1>17. o.next <= q.next /\ \A m \in q.queued : m \in o.queued \/ m >= o.next
  BY <1>1, <1>3, <1>8
<1> QED
  BY <1>8, <1>10, <1>11, <1>12, <1>14, <1>15, <1>16, <1>17 DEF OriginatorOK, q

(* The Expired trace of the first frame whose trace is due. *)
LEMMA ExpiredTraceDoes ==
  ASSUME NEW o \in Originators, NEW a \in Nat, OriginatorOK(o, a), o.expired # <<>>,
         expiredTo \in Nat
  PROVE  LET q == HandleDiscardedMpdu([o EXCEPT !.expired = Tail(@)], Head(o.expired))
         IN  \E f \in a .. o.next :
                 /\ q \in Originators /\ OriginatorOK(q, f)
                 /\ q.next = o.next /\ q.acked = o.acked /\ q.bar = "queued"
                 /\ q.queued \subseteq o.queued /\ q.inFlight = o.inFlight \cap q.queued
                 /\ \A k \in o.queued \ q.queued : k < f
<1> DEFINE m == Head(o.expired)
           t == Tail(o.expired)
           p == [o EXCEPT !.expired = t]
           q == HandleDiscardedMpdu(p, m)
<1>1. /\ o.expired \in Seq(Nat) /\ o.queued \subseteq a .. o.next - 1 /\ o.next \in Nat
      /\ Stored(o) = o.inFlight /\ o.inFlight \subseteq o.queued
      /\ o.acked \cap o.queued = {} /\ IsAscending(o.packetQueue)
      /\ WindowOK(o, a) /\ InFlightFirst(o)
      /\ ToSet(o.expired) \subseteq a .. o.next - 1
      /\ ToSet(o.expired) \cap (o.queued \cup o.acked) = {}
      /\ IsAscending(o.expired) /\ \A k \in ToSet(o.expired) : k < expiredTo
      /\ \A k \in o.queued \ o.inFlight : k >= expiredTo
  BY OriginatorFields DEF OriginatorOK, QueueOK, StoreOK, ExpiredOK
<1>2. /\ m \in ToSet(o.expired) /\ t \in Seq(Nat) /\ IsAscending(t)
      /\ ToSet(t) \subseteq ToSet(o.expired) /\ \A k \in ToSet(t) : m < k
  <2>1. /\ Len(o.expired) \in Nat /\ DOMAIN o.expired = 1 .. Len(o.expired)
        /\ Len(o.expired) # 0
        /\ \A i \in 1 .. Len(o.expired) : o.expired[i] \in Nat /\ o.expired[i] \in ToSet(o.expired)
    BY <1>1, SetOfSeq, EmptySeq
  <2>2. 2 \in 1 .. Len(o.expired) + 1 /\ Len(o.expired) \in 2 - 1 .. Len(o.expired)
    <3>1. Len(o.expired) \in Nat /\ Len(o.expired) # 0
      BY <2>1
    <3> QED
      BY ONLY <3>1
  <2>3. m = o.expired[1] /\ t = SubSeq(o.expired, 2, Len(o.expired))
    BY <1>1, TailIsSubSeq
  <2>4. t \in Seq(Nat) /\ IsAscending(t) /\ ToSet(t) = {o.expired[i] : i \in 2 .. Len(o.expired)}
    <3>1. o.expired \in Seq(Nat) /\ IsAscending(o.expired)
      BY <1>1
    <3>2. LET y == SubSeq(o.expired, 2, Len(o.expired))
          IN  y \in Seq(Nat) /\ IsAscending(y)
              /\ ToSet(y) = {o.expired[i] : i \in 2 .. Len(o.expired)}
      BY ONLY <2>2, <3>1, SliceOfAscending
    <3> HIDE DEF t
    <3> QED
      BY ONLY <2>3, <3>2
  <2>5. 1 \in 1 .. Len(o.expired) /\ \A i \in 2 .. Len(o.expired) : i \in 1 .. Len(o.expired) /\ 1 < i
    BY <2>1
  <2> HIDE DEF m, t
  <2>6. \A i \in 2 .. Len(o.expired) : m < o.expired[i]
    BY <1>1, <2>1, <2>3, <2>5 DEF IsAscending
  <2> QED
    BY <2>1, <2>3, <2>4, <2>5, <2>6
<1> HIDE DEF m, t
<1>3. /\ p \in Originators /\ p.unsent = o.unsent /\ p.next = o.next
      /\ p.queued = o.queued /\ p.inFlight = o.inFlight
      /\ p.packetQueue = o.packetQueue /\ p.window = o.window
      /\ p.expired = t /\ p.acked = o.acked
  BY <1>2 DEF Originators
<1> HIDE DEF p
<1>4. /\ WindowOK(p, a) /\ IsAscending(p.packetQueue) /\ Stored(p) = o.inFlight
      /\ Stored(p) \subseteq a .. p.next - 1 /\ m \in a .. p.next - 1
  BY <1>1, <1>2, <1>3 DEF WindowOK, Stored
<1>5. PICK f \in m + 1 .. p.next :
          /\ q \in Originators /\ Keeps(q, p) /\ WindowOK(q, f)
          /\ m + 1 .. f - 1 \subseteq p.acked
          /\ IsAscending(q.packetQueue)
          /\ Stored(q) = {k \in Stored(p) : k >= f}
          /\ q.queued = p.queued \ {k \in Stored(p) : k < f}
          /\ q.inFlight = p.inFlight \ {k \in Stored(p) : k < f}
          /\ q.bar = "queued" /\ q.acked = p.acked
  <2>1. /\ p \in Originators /\ a \in Nat /\ WindowOK(p, a) /\ IsAscending(p.packetQueue)
        /\ Stored(p) \subseteq a .. p.next - 1 /\ m \in a .. p.next - 1
    BY <1>1, <1>3, <1>4
  <2>2. LET y == HandleDiscardedMpdu(p, m)
        IN  \E e \in m + 1 .. p.next :
                /\ y \in Originators /\ Keeps(y, p) /\ WindowOK(y, e)
                /\ m + 1 .. e - 1 \subseteq p.acked
                /\ IsAscending(y.packetQueue)
                /\ Stored(y) = {k \in Stored(p) : k >= e}
                /\ y.queued = p.queued \ {k \in Stored(p) : k < e}
                /\ y.inFlight = p.inFlight \ {k \in Stored(p) : k < e}
                /\ y.retryCount = p.retryCount /\ y.bar = "queued" /\ y.acked = p.acked
    BY ONLY <2>1, HandleDiscardedMpduDoes
  <2>3. q = HandleDiscardedMpdu(p, m)
    OBVIOUS
  <2> HIDE DEF q
  <2> QED
    BY ONLY <2>2, <2>3
<1> HIDE DEF q
<1>6. /\ f \in a .. o.next /\ f \in Nat /\ m < f /\ m \in Nat /\ m + 1 .. f - 1 \subseteq o.acked
      /\ q.next = o.next /\ q.acked = o.acked /\ q.expired = t
      /\ Stored(q) = {k \in o.inFlight : k >= f}
      /\ q.queued = o.queued \ {k \in o.inFlight : k < f}
      /\ q.inFlight = o.inFlight \ {k \in o.inFlight : k < f}
  BY <1>1, <1>3, <1>4, <1>5 DEF Keeps
<1>7. \A k \in q.queued : k >= f
  <2> SUFFICES ASSUME NEW k \in o.queued, k \notin o.inFlight \/ ~(k < f), k < f PROVE FALSE
    BY <1>1, <1>6
  <2>1. k \in Nat /\ k >= expiredTo /\ m < expiredTo /\ m < k
    <3>1. k \in Nat /\ k >= expiredTo /\ m < expiredTo /\ k # m
      BY <1>1, <1>2
    <3>2. k \in m + 1 .. f - 1 \/ k <= m
      BY <1>6, <3>1
    <3>3. k \notin m + 1 .. f - 1
      BY <1>1, <1>6
    <3>4. expiredTo <= k /\ k < m
      BY <1>6, <3>1, <3>2, <3>3
    <3> QED
      BY <1>6, <3>1, <3>4
  <2> QED
    BY <1>1, <1>6, <2>1
<1>8. QueueOK(q, f)
  <2>1. q.queued \subseteq f .. q.next - 1
    BY <1>1, <1>6, <1>7
  <2>2. q.inFlight = Stored(q) /\ Stored(q) \subseteq q.queued
    BY <1>1, <1>6
  <2> QED
    BY <1>1, <1>5, <1>6, <2>1, <2>2 DEF QueueOK, StoreOK
<1>9. q.queued \ q.inFlight \subseteq o.queued \ o.inFlight
  BY <1>6, <1>7
<1>10. InFlightFirst(q)
  BY <1>1, <1>6, <1>9 DEF InFlightFirst
<1>11. ExpiredOK(q, f)
  <2>1. ToSet(q.expired) \subseteq f .. q.next - 1
    <3> SUFFICES ASSUME NEW k \in ToSet(t), k < f PROVE FALSE
      BY <1>1, <1>2, <1>6
    <3>1. k \in m + 1 .. f - 1 /\ k \in ToSet(o.expired)
      BY <1>1, <1>2, <1>6
    <3> QED
      BY <1>1, <1>6, <3>1
  <2>2. ToSet(q.expired) \cap (q.queued \cup q.acked) = {}
    BY <1>1, <1>2, <1>6
  <2> QED
    BY <1>1, <1>2, <1>6, <1>9, <2>1, <2>2 DEF ExpiredOK
<1>12. q.queued \subseteq o.queued /\ q.inFlight = o.inFlight \cap q.queued
  BY <1>1, <1>6
<1>13. \A k \in o.queued \ q.queued : k < f
  BY <1>6
<1> QED
  BY <1>5, <1>6, <1>8, <1>10, <1>11, <1>12, <1>13 DEF OriginatorOK, q, p, m, t

(* The recipient takes in turn those of the frames that it decodes. *)
Decoding(mpdus, recipient0, decoded) ==
    ForEach(mpdus, recipient0, LAMBDA r, m :
        IF m \in decoded THEN NotifyReceivedMpdu(r, m) ELSE r)

(* The frames of an exchange that were decoded arrive, in their order. *)
LEMMA ReceiveMpdusDoes ==
  ASSUME NEW r \in Recipients, NEW b \in Nat, NEW c \in Nat, NEW l \in Nat,
         ReorderingOK(r, b, l), ScoreboardOK(r, c, l), c <= l,
         NEW mpdus \in Seq(Nat), NEW decoded,
         \A m \in ToSet(mpdus) : m < l /\ l <= m + WinSize /\ (m \in Received(r) \/ b <= m)
  PROVE  LET q == Decoding(mpdus, r, decoded)
         IN  \E e \in b .. l, f \in c .. l :
                 /\ q \in Recipients /\ ReorderingOK(q, e, l) /\ ScoreboardOK(q, f, l)
                 /\ f = c \/ f + WinSize <= l
                 /\ Received(r) \subseteq Received(q) /\ b .. e - 1 \subseteq Received(q)
                 /\ ToSet(mpdus) \cap decoded \subseteq Received(q)
<1> DEFINE N == Len(mpdus)
           H(p, m) == IF m \in decoded THEN NotifyReceivedMpdu(p, m) ELSE p
           holds(p, n) == \E e \in b .. l, f \in c .. l :
                             /\ ReorderingOK(p, e, l) /\ ScoreboardOK(p, f, l)
                             /\ f = c \/ f + WinSize <= l
                             /\ Received(r) \subseteq Received(p) /\ b .. e - 1 \subseteq Received(p)
                             /\ \A i \in 1 .. n : mpdus[i] \in decoded => mpdus[i] \in Received(p)
           S == [n \in 0 .. N |-> {p \in Recipients : holds(p, n)}]
           G == [x \in Nat \X Recipients |-> H(x[2], mpdus[x[1]])]
           Rec(f) == f = [n \in 0 .. N |-> IF n = 0 THEN r ELSE H(f[n - 1], mpdus[n])]
           g == CHOOSE f : Rec(f)
<1>1. Decoding(mpdus, r, decoded) = g[N]
  BY DEF Decoding, ForEach
<1>2. mpdus \in Seq(Nat)
  OBVIOUS
<1>3. /\ N \in Nat /\ \A n \in 1 .. N : n \in 0 .. N /\ n - 1 \in 0 .. N /\ n \in Nat /\ n # 0
      /\ 0 \in 0 .. N /\ N \in 0 .. N
  BY <1>2, SetOfSeq
<1> HIDE DEF N, g
<1>4. /\ \A n \in 0 .. N : \A p : p \in S[n] <=> p \in Recipients /\ holds(p, n)
      /\ \A n \in Nat, p \in Recipients : G[<<n, p>>] = H(p, mpdus[n])
  <2> HIDE DEF H, holds
  <2> QED
    OBVIOUS
<1> HIDE DEF S, G
<1>5. r \in Recipients /\ holds(r, 0)
  <2>1. 1 .. 0 = {} /\ b .. b - 1 = {} /\ b \in b .. l /\ c \in c .. l
    BY DEF ReorderingOK, BufferingOK
  <2> QED
    BY <2>1
<1>6. ASSUME NEW n \in 1 .. N, NEW p \in Recipients, holds(p, n - 1)
      PROVE  H(p, mpdus[n]) \in Recipients /\ holds(H(p, mpdus[n]), n)
  <2> DEFINE m == mpdus[n]
             q == NotifyReceivedMpdu(p, m)
  <2>1. PICK e \in b .. l, f \in c .. l :
            /\ ReorderingOK(p, e, l) /\ ScoreboardOK(p, f, l)
            /\ f = c \/ f + WinSize <= l
            /\ Received(r) \subseteq Received(p) /\ b .. e - 1 \subseteq Received(p)
            /\ \A i \in 1 .. n - 1 : mpdus[i] \in decoded => mpdus[i] \in Received(p)
    BY <1>6
  <2>2. /\ m \in ToSet(mpdus) /\ m \in Nat /\ e \in Nat /\ f \in Nat /\ f <= l
        /\ \A i \in 1 .. n : i \in 1 .. n - 1 \/ i = n
    <3>1. m \in ToSet(mpdus) /\ m \in Nat
      BY SetOfSeq DEF N
    <3> QED
      BY <1>3, <3>1
  <2>3. CASE m \notin decoded
    <3>1. H(p, m) = p
      BY <2>3
    <3>2. \A i \in 1 .. n : mpdus[i] \in decoded => mpdus[i] \in Received(p)
      BY <2>1, <2>2, <2>3
    <3> HIDE DEF H, m
    <3>3. holds(p, n)
      BY <2>1, <3>2
    <3> QED
      BY <3>1, <3>3 DEF m
  <2>4. CASE m \in decoded
    <3>1. H(p, m) = q
      BY <2>4
    <3>2. m < l /\ l <= m + WinSize /\ (m \in Received(p) \/ e <= m)
      <4>1. m < l /\ l <= m + WinSize /\ (m \in Received(r) \/ b <= m)
        BY <2>2
      <4>2. b <= m => m \in b .. e - 1 \/ e <= m
        BY <2>2
      <4> QED
        BY <2>1, <4>1, <4>2
    <3>3. PICK u \in e .. l, v \in f .. l :
              /\ q \in Recipients /\ ReorderingOK(q, u, l) /\ ScoreboardOK(q, v, l)
              /\ v = f \/ v + WinSize <= l
              /\ Received(q) = Received(p) \cup {m}
              /\ e .. u - 1 \subseteq Received(q)
      <4>1. Arriving(m, p, e, f, l)
        BY <2>1, <2>2, <3>2 DEF Arriving
      <4> HIDE DEF m, H
      <4>2. LET y == NotifyReceivedMpdu(p, m)
            IN  \E u \in e .. l, v \in f .. l :
                    /\ y \in Recipients /\ ReorderingOK(y, u, l) /\ ScoreboardOK(y, v, l)
                    /\ v = f \/ v + WinSize <= l
                    /\ Received(y) = Received(p) \cup {m}
                    /\ e .. u - 1 \subseteq Received(y)
        BY ONLY <4>1, NotifyReceivedMpduDoes
      <4> QED
        BY ONLY <4>2 DEF q
    <3> HIDE DEF q, H
    <3>4. u \in b .. l /\ v \in c .. l /\ (v = c \/ v + WinSize <= l)
      BY <2>1, <2>2, <3>3
    <3>5. b .. u - 1 \subseteq Received(q)
      <4>1. \A k \in b .. u - 1 : k \in b .. e - 1 \/ k \in e .. u - 1
        BY <2>2
      <4> QED
        BY <2>1, <3>3, <4>1
    <3>6. \A i \in 1 .. n : mpdus[i] \in decoded => mpdus[i] \in Received(q)
      BY <2>1, <2>2, <3>3
    <3> HIDE DEF m
    <3>7. holds(q, n)
      BY <2>1, <3>3, <3>4, <3>5, <3>6
    <3> QED
      BY <3>1, <3>3, <3>7 DEF m
  <2> QED
    BY <2>3, <2>4
<1>7. Passing(G, S, N)
  <2> HIDE DEF H, holds
  <2>1. ASSUME NEW n \in 1 .. N, NEW p \in S[n - 1] PROVE G[<<n, p>>] \in S[n]
    <3>1. p \in Recipients /\ holds(p, n - 1)
      BY ONLY <1>3, <1>4, <2>1
    <3>2. H(p, mpdus[n]) \in Recipients /\ holds(H(p, mpdus[n]), n)
      BY ONLY <1>6, <2>1, <3>1
    <3> QED
      BY ONLY <1>3, <1>4, <2>1, <3>1, <3>2
  <2> QED
    BY <2>1 DEF Passing
<1>8. PICK h : /\ h = [n \in 0 .. N |-> h[n]]
               /\ h[0] = r
               /\ \A n \in 0 .. N : h[n] \in S[n]
               /\ \A n \in 1 .. N : h[n] = G[<<n, h[n - 1]>>]
  <2> DEFINE start == r
  <2>1. start \in S[0]
    <3> HIDE DEF holds, start
    <3> QED
      BY ONLY <1>3, <1>4, <1>5 DEF start
  <2> HIDE DEF start
  <2>2. \E f : /\ f = [n \in 0 .. N |-> f[n]]
               /\ f[0] = start
               /\ \A n \in 0 .. N : f[n] \in S[n]
               /\ \A n \in 1 .. N : f[n] = G[<<n, f[n - 1]>>]
    BY ONLY <1>3, <1>7, <2>1, LoopRuns
  <2> QED
    BY <2>2 DEF start
<1>9. Rec(h)
  <2> HIDE DEF H, holds
  <2>1. \A n \in 0 .. N : h[n] \in Recipients
    BY ONLY <1>4, <1>8
  <2>2. \A n \in 1 .. N : h[n] = H(h[n - 1], mpdus[n])
    BY ONLY <1>3, <1>4, <1>8, <2>1
  <2>3. \A n \in 0 .. N : n = 0 \/ n \in 1 .. N
    BY ONLY <1>3
  <2> QED
    BY ONLY <1>8, <2>2, <2>3
<1>10. Rec(g)
  <2>1. \E x : Rec(x)
    BY <1>9
  <2> HIDE DEF Rec
  <2> QED
    BY <2>1 DEF g
<1>11. g[0] = r /\ \A n \in 1 .. N : g[n] = H(g[n - 1], mpdus[n])
  <2> HIDE DEF H
  <2> QED
    BY ONLY <1>3, <1>10
<1>12. \A n \in 0 .. N : g[n] \in S[n]
  <2> HIDE DEF H, holds
  <2>1. g[0] \in S[0]
    BY ONLY <1>3, <1>4, <1>5, <1>11
  <2>2. ASSUME NEW n \in 1 .. N, g[n - 1] \in S[n - 1] PROVE g[n] \in S[n]
    <3>1. g[n - 1] \in Recipients /\ holds(g[n - 1], n - 1)
      BY ONLY <1>3, <1>4, <2>2
    <3>2. H(g[n - 1], mpdus[n]) \in Recipients /\ holds(H(g[n - 1], mpdus[n]), n)
      BY ONLY <1>6, <2>2, <3>1
    <3> QED
      BY ONLY <1>3, <1>4, <1>11, <2>2, <3>2
  <2> QED
    BY ONLY <1>3, <2>1, <2>2, LoopKeeps
<1>13. g[N] \in Recipients /\ holds(g[N], N)
  <2> HIDE DEF H, holds
  <2> QED
    BY ONLY <1>3, <1>4, <1>12
<1>14. ToSet(mpdus) \subseteq {mpdus[i] : i \in 1 .. N}
  BY SetOfSeq DEF N
<1> QED
  BY <1>1, <1>13, <1>14

-------------------------------------------------------------------------------
(* The invariant. *)

Exchanges ==
    [kind : {"none", "mpdu", "ampdu", "bar"}, mpdus : Seq(Nat), startingSeq : Nat,
     phase : {"idle", "sent", "answered", "lost"}, bitmap : SUBSET Nat]

(* What the two sides know of each other.  When the originator's window is
   ahead of the recipient's buffer, a request will tell the recipient. *)
TogetherOK(o, r, a, b, c) ==
    /\ c <= a
    /\ o.acked \subseteq Received(r)
    /\ \A m \in o.queued \ Received(r) : m >= b
    /\ ~RequestPending(o) => a <= b /\ a <= c + WinSize

DataOK(x, o, r, a, b) ==
    /\ x.mpdus # <<>> /\ IsAscending(x.mpdus) /\ SentOK(o, x.mpdus, a)
    /\ o.bar # "sent"
    /\ x.phase = "sent" => \A m \in ToSet(x.mpdus) \ Received(r) : m >= b
    /\ x.kind = "mpdu" => Len(x.mpdus) = 1
    /\ x.kind = "mpdu" /\ x.phase = "answered" => Head(x.mpdus) \in Received(r)

(* The request on the air is for a window that starts with frame s. *)
BarOK(x, o, a, b, c) ==
    /\ o.bar # "none" /\ x.mpdus = <<>>
    /\ \E s \in Nat :
           /\ x.startingSeq = GetSequenceNumber(s)
           /\ s <= a /\ o.next <= s + WinSize
           /\ o.bar = "sent" => s = a
           /\ x.phase = "answered" => s <= b /\ s <= c

ExchangeOK(x, o, r, a, b, c) ==
    /\ x.kind = "none" => /\ x = NoExchange
                          /\ o.bar # "sent"
                          /\ o.inFlight # {} => o.bar # "none"
    /\ x.kind \in {"mpdu", "ampdu"} => DataOK(x, o, r, a, b)
    /\ x.kind = "bar" => BarOK(x, o, a, b, c)
    /\ x.phase = "answered" => x.bitmap = FillBlockAckBitmap(r)

AgreementOK(o, r, x, a, b, c) ==
    /\ OriginatorOK(o, a)
    /\ ReorderingOK(r, b, o.next)
    /\ ScoreboardOK(r, c, o.next)
    /\ TogetherOK(o, r, a, b, c)
    /\ ExchangeOK(x, o, r, a, b, c)

TypeOK ==
    /\ config \in Configs /\ expiredTo \in Nat
    /\ originator \in Originators /\ recipient \in Recipients /\ exchange \in Exchanges

IInv ==
    /\ TypeOK
    /\ \E a, b, c \in Nat :
           c <= originator.next /\ AgreementOK(originator, recipient, exchange, a, b, c)

LEMMA ExchangeFields ==
  ASSUME NEW x \in Exchanges
  PROVE  /\ x.kind \in {"none", "mpdu", "ampdu", "bar"} /\ x.mpdus \in Seq(Nat)
         /\ x.startingSeq \in Nat /\ x.phase \in {"idle", "sent", "answered", "lost"}
         /\ x.bitmap \in SUBSET Nat
BY DEF Exchanges

LEMMA BitmapIsNumbers ==
  ASSUME NEW r \in Recipients
  PROVE  FillBlockAckBitmap(r) \in SUBSET Nat
<1>1. \A k \in Nat : k % SEQNO_SPACE_SIZE \in Nat
  BY SpaceFacts
<1>2. \A d \in r.m_scoreboard.set : r.m_scoreboard.m_winStart + d \in Nat
  BY RecipientFields, SpaceFacts DEF Windows, SeqNumbers
<1> QED
  BY <1>1, <1>2 DEF FillBlockAckBitmap

(* A state is in the invariant as soon as its parts are. *)
LEMMA Concluding ==
  ASSUME NEW o \in Originators, NEW r \in Recipients, NEW x \in Exchanges,
         NEW a \in Nat, NEW b \in Nat, NEW c \in Nat, AgreementOK(o, r, x, a, b, c),
         TypeOK, config' = config, expiredTo' = expiredTo,
         originator' = o, recipient' = r, exchange' = x
  PROVE  IInv'
<1>1. TypeOK'
  BY DEF TypeOK
<1>2. c <= o.next
  BY OriginatorFields DEF AgreementOK, TogetherOK, OriginatorOK, WindowOK
<1>3. AgreementOK(originator, recipient, exchange, a, b, c)'
  BY DEF AgreementOK, OriginatorOK, ExpiredOK
<1> QED
  BY <1>1, <1>2, <1>3 DEF IInv

-------------------------------------------------------------------------------
(* The initial state and the steps of the originator's queue. *)

LEMMA InitOK == Init => IInv
<1> SUFFICES ASSUME Init PROVE IInv
  OBVIOUS
<1> DEFINE s == StartingSeq
           o == NewOriginator
           r == NewRecipient(s)
<1>1. s \in Nat /\ GetSequenceNumber(s) = s /\ s \in SeqNumbers
  BY SpaceFacts, FramesAssumption DEF GetSequenceNumber, SeqNumbers
<1>2. /\ NewWindow(s) \in Windows /\ StartsAt(NewWindow(s), s) /\ NewWindow(s).set = {}
  BY <1>1, NewWindowStarts
<1>3. <<>> \in Seq(Nat) /\ ToSet(<<>>) = {} /\ IsAscending(<<>>)
  BY NoFrames
<1>4. o \in Originators /\ Stored(o) = {}
  BY <1>1, <1>2, <1>3 DEF Originators, NewOriginator, Stored
<1>5. OriginatorOK(o, s)
  <2>1. /\ o.next = s /\ o.queued = {} /\ o.inFlight = {} /\ o.packetQueue = <<>>
        /\ o.window = NewWindow(s) /\ o.expired = <<>> /\ o.acked = {}
    BY DEF NewOriginator
  <2> HIDE DEF o, s
  <2>2. WindowOK(o, s)
    BY ONLY <1>1, <1>2, <2>1, SpaceFacts DEF WindowOK
  <2>3. QueueOK(o, s)
    BY ONLY <1>3, <1>4, <2>1 DEF QueueOK, StoreOK
  <2>4. InFlightFirst(o) /\ ExpiredOK(o, s)
    BY ONLY <1>3, <2>1 DEF InFlightFirst, ExpiredOK
  <2> QED
    BY <2>2, <2>3, <2>4 DEF OriginatorOK
<1>6. r \in Recipients /\ Received(r) = {}
  BY <1>1, <1>2, <1>3 DEF Recipients, NewRecipient, Received
<1>7. ReorderingOK(r, s, s) /\ ScoreboardOK(r, s, s)
  <2>1. /\ r.m_scoreboard = NewWindow(s) /\ r.m_winStartB = s /\ r.m_bufferedMpdus = {}
        /\ r.forwarded = <<>>
    BY DEF NewRecipient
  <2> HIDE DEF r, s
  <2>2. s <= s /\ s <= s + WinSize /\ s <= s + 2 * WinSize
    BY <1>1, SpaceFacts
  <2>3. ReorderingOK(r, s, s)
    BY ONLY <1>1, <1>3, <2>1, <2>2 DEF ReorderingOK, BufferingOK
  <2>4. ScoreboardOK(r, s, s)
    BY ONLY <1>2, <1>6, <2>1, <2>2 DEF ScoreboardOK
  <2> QED
    BY <2>3, <2>4
<1>8. TogetherOK(o, r, s, s, s)
  BY <1>1, <1>6, SpaceFacts DEF TogetherOK, NewOriginator, RequestPending
<1>9. NoExchange \in Exchanges /\ ExchangeOK(NoExchange, o, r, s, s, s)
  BY <1>3 DEF Exchanges, NoExchange, ExchangeOK, NewOriginator
<1>10. TypeOK
  BY <1>1, <1>4, <1>6, <1>9 DEF Init, TypeOK
<1>11. AgreementOK(o, r, NoExchange, s, s, s) /\ o.next = s
  BY <1>5, <1>7, <1>8, <1>9 DEF AgreementOK, NewOriginator
<1> HIDE DEF o, r, s
<1>12. originator = o /\ recipient = r /\ exchange = NoExchange
  BY DEF Init, o, r, s
<1> QED
  BY <1>1, <1>10, <1>11, <1>12 DEF IInv

(* The number of frames that wait bears on no part of the invariant. *)
LEMMA QueueStep ==
  ASSUME IInv, Queue PROVE IInv'
<1>1. PICK a, b, c \in Nat : AgreementOK(originator, recipient, exchange, a, b, c)
  BY DEF IInv
<1> DEFINE o == originator
           q == [originator EXCEPT !.unsent = @ + 1]
<1>2. TypeOK /\ o \in Originators /\ recipient \in Recipients /\ exchange \in Exchanges
  BY DEF IInv, TypeOK
<1>3. q \in Originators
  <2>1. o.unsent \in Nat
    BY <1>2, OriginatorFields
  <2>2. PICK u \in Nat : u = o.unsent + 1
    BY <2>1
  <2>3. q = [o EXCEPT !.unsent = u]
    BY <2>2
  <2> QED
    BY <1>2, <2>3 DEF Originators
<1>4. /\ q.next = o.next /\ q.queued = o.queued /\ q.inFlight = o.inFlight
      /\ q.packetQueue = o.packetQueue /\ q.window = o.window /\ q.bar = o.bar
      /\ q.sendBarIfDataQueued = o.sendBarIfDataQueued
      /\ q.expired = o.expired /\ q.acked = o.acked
  BY <1>2 DEF Originators
<1> HIDE DEF q
<1>5. OriginatorOK(q, a)
  BY <1>1, <1>4 DEF AgreementOK, OriginatorOK, WindowOK, QueueOK, StoreOK, Stored,
                    InFlightFirst, ExpiredOK
<1>6. TogetherOK(q, recipient, a, b, c)
  BY <1>1, <1>4 DEF AgreementOK, TogetherOK, RequestPending
<1>7. ExchangeOK(exchange, q, recipient, a, b, c)
  BY <1>1, <1>4 DEF AgreementOK, ExchangeOK, DataOK, BarOK, SentOK
<1>8. AgreementOK(q, recipient, exchange, a, b, c)
  BY <1>1, <1>4, <1>5, <1>6, <1>7 DEF AgreementOK
<1>9. /\ originator' = q /\ config' = config /\ expiredTo' = expiredTo
      /\ recipient' = recipient /\ exchange' = exchange
  BY DEF Queue, q
<1> QED
  BY <1>2, <1>3, <1>8, <1>9, Concluding

LEMMA TimePassesStep ==
  ASSUME IInv, TimePasses PROVE IInv'
<1>1. PICK a, b, c \in Nat :
          c <= originator.next /\ AgreementOK(originator, recipient, exchange, a, b, c)
  BY DEF IInv
<1> DEFINE o == originator
<1>2. TypeOK /\ o \in Originators /\ recipient \in Recipients /\ exchange \in Exchanges
  BY DEF IInv, TypeOK
<1>3. PICK q \in Originators :
         /\ originator' = q
         /\ q.next = o.next /\ q.queued = o.queued /\ q.inFlight = o.inFlight
         /\ q.packetQueue = o.packetQueue /\ q.window = o.window /\ q.bar = o.bar
         /\ q.sendBarIfDataQueued = o.sendBarIfDataQueued
         /\ q.expired = o.expired /\ q.acked = o.acked
  <2>1. CASE UNCHANGED originator
    BY <1>2, <2>1
  <2>2. CASE o.unsent > 0 /\ originator' = [originator EXCEPT !.unsent = @ - 1]
    <3>1. [originator EXCEPT !.unsent = @ - 1] \in Originators
      <4>1. o.unsent \in Nat
        BY <1>2, OriginatorFields
      <4>2. PICK u \in Nat : u = o.unsent - 1
        BY <2>2, <4>1
      <4>3. [originator EXCEPT !.unsent = @ - 1] = [o EXCEPT !.unsent = u]
        BY <4>2
      <4> QED
        BY <1>2, <4>3 DEF Originators
    <3> QED
      BY <1>2, <2>2, <3>1 DEF Originators
  <2> QED
    BY <2>1, <2>2 DEF TimePasses
<1>4. q.expired = <<>> /\ ToSet(q.expired) = {} /\ IsAscending(q.expired)
  BY <1>3, NoFrames DEF TimePasses, TimeMayPass
<1>5. OriginatorOK(q, a)'
  <2>1. WindowOK(q, a) /\ QueueOK(q, a) /\ InFlightFirst(q)
    BY <1>1, <1>3 DEF AgreementOK, OriginatorOK, WindowOK, QueueOK, StoreOK, Stored,
                      InFlightFirst
  <2>2. ExpiredOK(q, a)'
    BY <1>4 DEF ExpiredOK
  <2> QED
    BY <2>1, <2>2 DEF OriginatorOK
<1>6. TogetherOK(q, recipient, a, b, c)
  BY <1>1, <1>3 DEF AgreementOK, TogetherOK, RequestPending
<1>7. ExchangeOK(exchange, q, recipient, a, b, c)
  BY <1>1, <1>3 DEF AgreementOK, ExchangeOK, DataOK, BarOK, SentOK
<1>8. recipient' = recipient /\ exchange' = exchange /\ config' = config /\ expiredTo' \in Nat
  BY <1>2 DEF TimePasses, TypeOK
<1>9. AgreementOK(originator, recipient, exchange, a, b, c)'
  BY <1>1, <1>3, <1>5, <1>6, <1>7, <1>8 DEF AgreementOK
<1>10. TypeOK'
  BY <1>2, <1>3, <1>8 DEF TypeOK
<1> QED
  BY <1>1, <1>3, <1>9, <1>10 DEF IInv

LEMMA HasFramesStep ==
  ASSUME IInv, HasFramesToTransmit PROVE IInv'
<1>1. PICK a, b, c \in Nat : AgreementOK(originator, recipient, exchange, a, b, c)
  BY DEF IInv
<1> DEFINE o == originator
           q == WipeAllExpiredMpdus(originator)
<1>2. /\ TypeOK /\ o \in Originators /\ recipient \in Recipients /\ exchange \in Exchanges
      /\ expiredTo \in Nat
  BY DEF IInv, TypeOK
<1>3. Wiped(q, o, a) /\ q.bar = o.bar
  BY <1>1, <1>2, WipeAllExpiredMpdusDoes DEF AgreementOK
<1> HIDE DEF q
<1>4. TogetherOK(q, recipient, a, b, c)
  BY <1>1, <1>3 DEF AgreementOK, TogetherOK, Wiped
<1>5. SentOK(o, exchange.mpdus, a) => SentOK(q, exchange.mpdus, a)
  BY <1>1, <1>3 DEF AgreementOK, OriginatorOK, QueueOK, StoreOK, SentOK, Wiped
<1>6. ExchangeOK(exchange, q, recipient, a, b, c)
  BY <1>1, <1>3, <1>5 DEF AgreementOK, ExchangeOK, DataOK, BarOK, Wiped
<1>7. q \in Originators /\ AgreementOK(q, recipient, exchange, a, b, c)
  BY <1>1, <1>3, <1>4, <1>6 DEF AgreementOK, Wiped
<1>8. /\ originator' = q /\ config' = config /\ expiredTo' = expiredTo
      /\ recipient' = recipient /\ exchange' = exchange
  BY DEF HasFramesToTransmit, q
<1> QED
  BY <1>2, <1>7, <1>8, Concluding

LEMMA ExpiredTraceStep ==
  ASSUME IInv, ExpiredTrace PROVE IInv'
<1>1. PICK a, b, c \in Nat : AgreementOK(originator, recipient, exchange, a, b, c)
  BY DEF IInv
<1> DEFINE o == originator
           q == HandleDiscardedMpdu([originator EXCEPT !.expired = Tail(@)],
                                    Head(originator.expired))
<1>2. /\ TypeOK /\ o \in Originators /\ recipient \in Recipients /\ exchange \in Exchanges
      /\ expiredTo \in Nat /\ o.expired # <<>>
  BY DEF IInv, TypeOK, ExpiredTrace
<1>3. OriginatorOK(o, a)
  BY <1>1 DEF AgreementOK
<1>4. PICK f \in a .. o.next :
         /\ q \in Originators /\ OriginatorOK(q, f)
         /\ q.next = o.next /\ q.acked = o.acked /\ q.bar = "queued"
         /\ q.queued \subseteq o.queued /\ q.inFlight = o.inFlight \cap q.queued
         /\ \A k \in o.queued \ q.queued : k < f
  BY <1>2, <1>3, ExpiredTraceDoes
<1> HIDE DEF q
<1>5. f \in Nat /\ a <= f
  BY <1>2, <1>4, OriginatorFields
<1>6. TogetherOK(q, recipient, f, b, c)
  BY <1>1, <1>4, <1>5 DEF AgreementOK, TogetherOK, RequestPending
<1>7. SentOK(o, exchange.mpdus, a) => SentOK(q, exchange.mpdus, f)
  <2> SUFFICES ASSUME SentOK(o, exchange.mpdus, a) PROVE SentOK(q, exchange.mpdus, f)
    OBVIOUS
  <2>1. ToSet(exchange.mpdus) \in SUBSET Nat
    BY <1>2, ExchangeFields, SetOfSeq
  <2>2. \A m \in ToSet(exchange.mpdus) \ q.queued : m < f
    BY <1>4, <1>5, <2>1 DEF SentOK
  <2>3. q.inFlight = q.queued \cap ToSet(exchange.mpdus)
    BY <1>4 DEF SentOK
  <2> QED
    BY <1>4, <2>2, <2>3 DEF SentOK
<1>8. DataOK(exchange, o, recipient, a, b) => DataOK(exchange, q, recipient, f, b)
  BY <1>4, <1>7 DEF DataOK
<1>9. BarOK(exchange, o, a, b, c) => BarOK(exchange, q, f, b, c)
  BY <1>4, <1>5 DEF BarOK
<1>10. ExchangeOK(exchange, q, recipient, f, b, c)
  BY <1>1, <1>4, <1>8, <1>9 DEF AgreementOK, ExchangeOK
<1>11. AgreementOK(q, recipient, exchange, f, b, c)
  BY <1>1, <1>4, <1>6, <1>10 DEF AgreementOK
<1>12. /\ originator' = q /\ config' = config /\ expiredTo' = expiredTo
       /\ recipient' = recipient /\ exchange' = exchange
  BY DEF ExpiredTrace, q
<1> QED
  BY <1>2, <1>4, <1>5, <1>11, <1>12, Concluding

LEMMA LoseStep ==
  ASSUME IInv, Lose PROVE IInv'
<1>1. PICK a, b, c \in Nat : AgreementOK(originator, recipient, exchange, a, b, c)
  BY DEF IInv
<1> DEFINE x == [exchange EXCEPT !.phase = "lost"]
<1>2. /\ TypeOK /\ originator \in Originators /\ recipient \in Recipients
      /\ exchange \in Exchanges
  BY DEF IInv, TypeOK
<1>3. x \in Exchanges
  BY <1>2 DEF Exchanges
<1>4. x.kind = exchange.kind /\ x.mpdus = exchange.mpdus /\ x.phase = "lost"
      /\ x.startingSeq = exchange.startingSeq
  BY <1>2 DEF Exchanges
<1>5. exchange.kind # "none"
  BY <1>1 DEF AgreementOK, ExchangeOK, NoExchange, Lose
<1> HIDE DEF x
<1>6. ExchangeOK(x, originator, recipient, a, b, c)
  BY <1>1, <1>4, <1>5 DEF AgreementOK, ExchangeOK, DataOK, BarOK
<1>7. AgreementOK(originator, recipient, x, a, b, c)
  BY <1>1, <1>6 DEF AgreementOK
<1>8. /\ originator' = originator /\ config' = config /\ expiredTo' = expiredTo
      /\ recipient' = recipient /\ exchange' = x
  BY DEF Lose, x
<1> QED
  BY <1>2, <1>3, <1>7, <1>8, Concluding

-------------------------------------------------------------------------------
(* The start of an exchange. *)

LEMMA SendBarStep ==
  ASSUME IInv, exchange = NoExchange, SendBar(GetBar(originator)),
         UNCHANGED <<config, expiredTo, recipient>>
  PROVE  IInv'
<1>1. PICK a, b, c \in Nat : AgreementOK(originator, recipient, exchange, a, b, c)
  BY DEF IInv
<1> DEFINE o == GetBar(originator)
           q == [o EXCEPT !.bar = "sent"]
           x == [NoExchange EXCEPT !.kind = "bar", !.phase = "sent",
                                   !.startingSeq = o.window.m_winStart]
<1>2. /\ TypeOK /\ originator \in Originators /\ recipient \in Recipients
      /\ expiredTo \in Nat
  BY DEF IInv, TypeOK
<1>3. Wiped(o, originator, a)
  BY <1>1, <1>2, GetBarDoes DEF AgreementOK
<1> HIDE DEF o
<1>4. o \in Originators /\ OriginatorOK(o, a)
  BY <1>3 DEF Wiped
<1>5. /\ q \in Originators
      /\ q.next = o.next /\ q.queued = o.queued /\ q.inFlight = o.inFlight
      /\ q.packetQueue = o.packetQueue /\ q.window = o.window /\ q.bar = "sent"
      /\ q.expired = o.expired /\ q.acked = o.acked
  BY <1>4 DEF Originators
<1>6. o.window.m_winStart = GetSequenceNumber(a) /\ o.window.m_winStart \in Nat
  BY <1>4, OriginatorFields, SpaceFacts
     DEF OriginatorOK, WindowOK, StartsAt, Windows, SeqNumbers
<1>7. /\ x \in Exchanges /\ x.kind = "bar" /\ x.phase = "sent" /\ x.mpdus = <<>>
      /\ x.startingSeq = GetSequenceNumber(a)
  <2>1. PICK w \in Nat : w = o.window.m_winStart
    BY <1>6
  <2>2. x = [NoExchange EXCEPT !.kind = "bar", !.phase = "sent", !.startingSeq = w]
    BY <2>1
  <2>3. <<>> \in Seq(Nat)
    BY NoFrames
  <2> HIDE DEF x
  <2>4. /\ x \in Exchanges /\ x.kind = "bar" /\ x.phase = "sent" /\ x.mpdus = <<>>
        /\ x.startingSeq = w
    BY <2>2, <2>3 DEF Exchanges, NoExchange
  <2> QED
    BY <1>6, <2>1, <2>4
<1> HIDE DEF q, x
<1>8. OriginatorOK(q, a)
  BY <1>4, <1>5 DEF OriginatorOK, WindowOK, QueueOK, StoreOK, Stored, InFlightFirst, ExpiredOK
<1>9. TogetherOK(q, recipient, a, b, c)
  BY <1>1, <1>3, <1>5 DEF AgreementOK, TogetherOK, Wiped, RequestPending
<1>10. BarOK(x, q, a, b, c)
  BY <1>5, <1>7, <1>8 DEF BarOK, OriginatorOK, WindowOK
<1>11. ExchangeOK(x, q, recipient, a, b, c)
  BY <1>7, <1>10 DEF ExchangeOK
<1>12. q.next = originator.next
  BY <1>3, <1>5 DEF Wiped
<1>13. AgreementOK(q, recipient, x, a, b, c)
  BY <1>1, <1>8, <1>9, <1>11, <1>12 DEF AgreementOK
<1>14. /\ originator' = q /\ config' = config /\ expiredTo' = expiredTo
       /\ recipient' = recipient /\ exchange' = x
  BY DEF SendBar, o, q, x
<1> QED
  BY <1>2, <1>5, <1>7, <1>13, <1>14, Concluding

LEMMA SendDataStep ==
  ASSUME IInv, exchange = NoExchange, SendDataFrame(GetBar(originator)),
         UNCHANGED <<config, expiredTo, recipient>>
  PROVE  IInv'
<1>1. PICK a, b, c \in Nat : AgreementOK(originator, recipient, exchange, a, b, c)
  BY DEF IInv
<1> DEFINE o == GetBar(originator)
           frames == Peeked(RemoveOld(o))
<1>2. /\ TypeOK /\ originator \in Originators /\ recipient \in Recipients
      /\ exchange \in Exchanges /\ expiredTo \in Nat
  BY DEF IInv, TypeOK
<1>3. /\ Wiped(o, originator, a)
      /\ o.bar = "none" /\ DataQueued(o) => ~RequestPending(o)
  BY <1>1, <1>2, GetBarDoes DEF AgreementOK
<1>4. o.bar = "none"
  BY DEF SendDataFrame
<1>5. RemoveOld(o) = o /\ Sendable(frames, o, a)
  <2> HIDE DEF o
  <2>1. o \in Originators /\ OriginatorOK(o, a)
    BY <1>3 DEF Wiped
  <2> QED
    BY <2>1, RemoveOldDoes, PeekedDoes
<1>6. \/ frames = <<>> /\ originator' = o /\ exchange' = exchange
      \/ \E count \in 1 .. Len(frames) :
             /\ originator' = SendMpdus(o, SubSeq(frames, 1, count))
             /\ exchange' = [NoExchange EXCEPT
                    !.kind = IF count = 1 THEN "mpdu" ELSE "ampdu",
                    !.phase = "sent", !.mpdus = SubSeq(frames, 1, count)]
  BY <1>5 DEF SendDataFrame
<1> HIDE DEF o, frames
<1>7. o \in Originators /\ OriginatorOK(o, a) /\ o.inFlight = {} /\ o.next = originator.next
  <2>1. originator.inFlight # {} => originator.bar # "none"
    BY <1>1 DEF AgreementOK, ExchangeOK, NoExchange
  <2> QED
    BY <1>3, <1>4, <2>1 DEF Wiped
<1>8. /\ config' = config /\ expiredTo' = expiredTo /\ recipient' = recipient
  OBVIOUS
<1>9. CASE originator' = o /\ exchange' = exchange
  <2>1. TogetherOK(o, recipient, a, b, c)
    BY <1>1, <1>3 DEF AgreementOK, TogetherOK, Wiped
  <2>2. ExchangeOK(exchange, o, recipient, a, b, c)
    BY <1>4, <1>7 DEF ExchangeOK, NoExchange
  <2>3. AgreementOK(o, recipient, exchange, a, b, c)
    BY <1>1, <1>7, <2>1, <2>2 DEF AgreementOK
  <2> QED
    BY <1>2, <1>7, <1>8, <1>9, <2>3, Concluding
<1>10. ASSUME NEW count \in 1 .. Len(frames),
              originator' = SendMpdus(o, SubSeq(frames, 1, count)),
              exchange' = [NoExchange EXCEPT
                    !.kind = IF count = 1 THEN "mpdu" ELSE "ampdu",
                    !.phase = "sent", !.mpdus = SubSeq(frames, 1, count)]
       PROVE  IInv'
  <2> DEFINE mpdus == SubSeq(frames, 1, count)
             q == SendMpdus(o, mpdus)
             x == [NoExchange EXCEPT !.kind = IF count = 1 THEN "mpdu" ELSE "ampdu",
                                     !.phase = "sent", !.mpdus = mpdus]
  <2>1. Sendable(mpdus, o, a) /\ mpdus # <<>> /\ Len(mpdus) = count
    BY <1>5, <1>7, PrefixIsSendable
  <2>2. /\ q \in Originators /\ OriginatorOK(q, a) /\ SentOK(q, mpdus, a)
        /\ q.inFlight = ToSet(mpdus) /\ ToSet(mpdus) \subseteq q.queued
        /\ o.next <= q.next /\ q.acked = o.acked /\ q.bar = o.bar
        /\ q.sendBarIfDataQueued = o.sendBarIfDataQueued
        /\ \A m \in q.queued : m \in o.queued \/ m >= o.next
    BY <1>7, <2>1, SendMpdusDoes
  <2> HIDE DEF mpdus, q
  <2>3. mpdus \in Seq(Nat) /\ IsAscending(mpdus)
    BY <2>1 DEF Sendable
  <2>4. /\ x \in Exchanges /\ x.mpdus = mpdus /\ x.phase = "sent"
        /\ x.kind \in {"mpdu", "ampdu"} /\ (x.kind = "mpdu" => count = 1)
    BY <2>3 DEF Exchanges, NoExchange
  <2> HIDE DEF x
  <2>5. ~RequestPending(o)
    <3>1. \E m : m \in ToSet(mpdus)
      BY <2>1, <2>3, SetOfSeq
    <3>2. \E m : m \in MayBeSent(o, a)
      BY <2>1, <3>1 DEF Sendable
    <3>3. o.next \in Nat /\ o.unsent \in Nat
      BY <1>7, OriginatorFields
    <3>4. DataQueued(o)
      BY <3>2, <3>3 DEF MayBeSent, DataQueued
    <3> QED
      BY <1>3, <1>4, <3>4
  <2>6. /\ a <= b /\ a <= c + WinSize /\ c <= a
        /\ originator.acked \subseteq Received(recipient)
        /\ \A m \in originator.queued \ Received(recipient) : m >= b
    BY <1>1, <1>3, <2>5 DEF AgreementOK, TogetherOK, Wiped
  <2>7. ReorderingOK(recipient, b, o.next) /\ ScoreboardOK(recipient, c, o.next)
    BY <1>1, <1>7 DEF AgreementOK
  <2>8. o.next \in Nat /\ q.next \in Nat /\ q.next <= a + WinSize /\ o.next >= b
    BY <1>7, <2>2, <2>7, OriginatorFields
       DEF OriginatorOK, WindowOK, ReorderingOK, BufferingOK
  <2>9. \A m \in q.queued \ Received(recipient) : m >= b
    <3>1. q.queued \subseteq Nat
      BY <2>2, OriginatorFields
    <3> QED
      BY <1>3, <2>2, <2>6, <2>8, <3>1 DEF Wiped
  <2>10. TogetherOK(q, recipient, a, b, c)
    BY <1>3, <2>2, <2>6, <2>9 DEF TogetherOK, Wiped
  <2>11. ReorderingOK(recipient, b, q.next)
    <3>1. /\ recipient.m_winStartB = GetSequenceNumber(b)
          /\ recipient.m_bufferedMpdus \subseteq b .. o.next - 1
          /\ ToSet(recipient.forwarded) \subseteq 0 .. b - 1
          /\ IsAscending(recipient.forwarded) /\ b \notin recipient.m_bufferedMpdus
      BY <2>7 DEF ReorderingOK, BufferingOK
    <3>2. b <= q.next /\ q.next <= b + WinSize /\ o.next <= q.next
      BY <2>2, <2>6, <2>8, SpaceFacts
    <3>3. \A m \in b .. o.next - 1 : m \in b .. q.next - 1
      BY <2>8, <3>2
    <3> QED
      BY ONLY <3>1, <3>2, <3>3 DEF ReorderingOK, BufferingOK
  <2>12. ScoreboardOK(recipient, c, q.next)
    BY <2>6, <2>7, <2>8, SpaceFacts DEF ScoreboardOK
  <2>13. DataOK(x, q, recipient, a, b)
    BY <1>4, <2>1, <2>2, <2>3, <2>4, <2>9 DEF DataOK
  <2>14. ExchangeOK(x, q, recipient, a, b, c)
    BY <2>4, <2>13 DEF ExchangeOK
  <2>15. AgreementOK(q, recipient, x, a, b, c)
    BY <2>2, <2>10, <2>11, <2>12, <2>14 DEF AgreementOK
  <2>16. originator' = q /\ exchange' = x
    BY <1>10 DEF q, x, mpdus
  <2> QED
    BY <1>2, <1>8, <2>2, <2>4, <2>15, <2>16, Concluding
<1> QED
  BY <1>6, <1>9, <1>10

LEMMA StartStep ==
  ASSUME IInv, StartFrameExchange PROVE IInv'
BY SendBarStep, SendDataStep DEF StartFrameExchange

-------------------------------------------------------------------------------
(* The recipient's part of an exchange. *)

LEMMA ReceiveDataStep ==
  ASSUME IInv, ReceiveData PROVE IInv'
<1>1. PICK a, b, c \in Nat :
          c <= originator.next /\ AgreementOK(originator, recipient, exchange, a, b, c)
  BY DEF IInv
<1>2. PICK decoded \in (SUBSET ToSet(exchange.mpdus)) \ {{}} :
         LET after == Decoding(exchange.mpdus, recipient, decoded)
         IN  /\ recipient' = after
             /\ exchange' = [exchange EXCEPT !.phase = "answered",
                                             !.bitmap = FillBlockAckBitmap(after)]
  BY DEF ReceiveData, Decoding
<1> DEFINE o == originator
           l == originator.next
           mpdus == exchange.mpdus
           q == Decoding(mpdus, recipient, decoded)
           x == [exchange EXCEPT !.phase = "answered", !.bitmap = FillBlockAckBitmap(q)]
<1>3. /\ TypeOK /\ o \in Originators /\ recipient \in Recipients
      /\ exchange \in Exchanges /\ l \in Nat /\ mpdus \in Seq(Nat)
  BY OriginatorFields, ExchangeFields DEF IInv, TypeOK
<1>4. /\ OriginatorOK(o, a) /\ ReorderingOK(recipient, b, l) /\ ScoreboardOK(recipient, c, l)
      /\ TogetherOK(o, recipient, a, b, c)
      /\ DataOK(exchange, o, recipient, a, b) /\ exchange.phase = "sent"
      /\ exchange.kind \in {"mpdu", "ampdu"}
  BY <1>1 DEF AgreementOK, ExchangeOK, ReceiveData
<1>5. ToSet(mpdus) \in SUBSET Nat
  BY <1>3, SetOfSeq
<1>6. \A m \in ToSet(mpdus) : m < l /\ l <= m + WinSize /\ (m \in Received(recipient) \/ b <= m)
  BY <1>4, <1>5 DEF DataOK, SentOK
<1>7. PICK e \in b .. l, f \in c .. l :
         /\ q \in Recipients /\ ReorderingOK(q, e, l) /\ ScoreboardOK(q, f, l)
         /\ f = c \/ f + WinSize <= l
         /\ Received(recipient) \subseteq Received(q) /\ b .. e - 1 \subseteq Received(q)
         /\ ToSet(mpdus) \cap decoded \subseteq Received(q)
  <2>1. /\ recipient \in Recipients /\ b \in Nat /\ c \in Nat /\ l \in Nat
        /\ ReorderingOK(recipient, b, l) /\ ScoreboardOK(recipient, c, l) /\ c <= l
        /\ mpdus \in Seq(Nat)
        /\ \A m \in ToSet(mpdus) : /\ m < l /\ l <= m + WinSize
                                   /\ (m \in Received(recipient) \/ b <= m)
    BY <1>1, <1>3, <1>4, <1>6
  <2> HIDE DEF l, mpdus
  <2>2. LET y == Decoding(mpdus, recipient, decoded)
        IN  \E e \in b .. l, f \in c .. l :
                /\ y \in Recipients /\ ReorderingOK(y, e, l) /\ ScoreboardOK(y, f, l)
                /\ f = c \/ f + WinSize <= l
                /\ Received(recipient) \subseteq Received(y) /\ b .. e - 1 \subseteq Received(y)
                /\ ToSet(mpdus) \cap decoded \subseteq Received(y)
    BY ONLY <2>1, ReceiveMpdusDoes
  <2> QED
    BY ONLY <2>2
<1> HIDE DEF q
<1>8. e \in Nat /\ f \in Nat /\ b <= e /\ c <= f
  BY <1>3
<1>9. TogetherOK(o, q, a, e, f)
  <2>1. f <= a
    BY <1>3, <1>4, <1>7, <1>8, SpaceFacts DEF OriginatorOK, WindowOK, TogetherOK
  <2>2. ASSUME NEW m \in o.queued \ Received(q) PROVE m >= e
    <3>1. m \in Nat
      BY <1>3, OriginatorFields
    <3>2. m >= b
      BY <1>4, <1>7 DEF TogetherOK
    <3> QED
      BY <1>7, <1>8, <3>1, <3>2
  <2>3. ~RequestPending(o) => a <= e /\ a <= f + WinSize
    BY <1>4, <1>8, SpaceFacts DEF TogetherOK
  <2> QED
    BY <1>4, <1>7, <2>1, <2>2, <2>3 DEF TogetherOK
<1>10. /\ x \in Exchanges /\ x.kind = exchange.kind /\ x.mpdus = mpdus
       /\ x.phase = "answered" /\ x.bitmap = FillBlockAckBitmap(q)
  BY <1>3, <1>7, BitmapIsNumbers DEF Exchanges
<1>11. exchange.kind = "mpdu" => Head(mpdus) \in Received(q)
  <2> SUFFICES ASSUME exchange.kind = "mpdu" PROVE Head(mpdus) \in Received(q)
    OBVIOUS
  <2>1. Len(mpdus) = 1
    BY <1>4 DEF DataOK
  <2>2. ToSet(mpdus) = {mpdus[1]} /\ Head(mpdus) = mpdus[1]
    BY <1>3, <2>1, OneFrame
  <2>3. mpdus[1] \in decoded /\ mpdus[1] \in ToSet(mpdus)
    <3>1. decoded \subseteq ToSet(mpdus) /\ decoded # {}
      BY <1>2
    <3> HIDE DEF mpdus
    <3> QED
      BY ONLY <2>2, <3>1
  <2> QED
    BY <1>7, <2>2, <2>3
<1> HIDE DEF x
<1>12. DataOK(x, o, q, a, e)
  BY <1>4, <1>10, <1>11 DEF DataOK
<1>13. ExchangeOK(x, o, q, a, e, f)
  BY <1>4, <1>10, <1>12 DEF ExchangeOK
<1>14. AgreementOK(o, q, x, a, e, f)
  BY <1>4, <1>7, <1>9, <1>13 DEF AgreementOK
<1>15. recipient' = q /\ exchange' = x
  BY <1>2 DEF q, x
<1>16. originator' = o /\ config' = config /\ expiredTo' = expiredTo
  BY DEF ReceiveData
<1> QED
  BY <1>3, <1>7, <1>8, <1>10, <1>14, <1>15, <1>16, Concluding

LEMMA ReceiveBarStep ==
  ASSUME NarrowWindow, IInv, ReceiveBar PROVE IInv'
<1>1. PICK a, b, c \in Nat :
          c <= originator.next /\ AgreementOK(originator, recipient, exchange, a, b, c)
  BY DEF IInv
<1> DEFINE o == originator
           l == originator.next
           q == NotifyReceivedBar(recipient, exchange.startingSeq)
           x == [exchange EXCEPT !.phase = "answered", !.bitmap = FillBlockAckBitmap(q)]
<1>2. /\ TypeOK /\ o \in Originators /\ recipient \in Recipients
      /\ exchange \in Exchanges /\ l \in Nat
  BY OriginatorFields DEF IInv, TypeOK
<1>3. /\ OriginatorOK(o, a) /\ ReorderingOK(recipient, b, l) /\ ScoreboardOK(recipient, c, l)
      /\ TogetherOK(o, recipient, a, b, c)
      /\ BarOK(exchange, o, a, b, c) /\ exchange.phase = "sent" /\ exchange.kind = "bar"
  BY <1>1 DEF AgreementOK, ExchangeOK, ReceiveBar
<1>4. PICK s \in Nat :
         /\ exchange.startingSeq = GetSequenceNumber(s)
         /\ s <= a /\ l <= s + WinSize
         /\ o.bar = "sent" => s = a
  BY <1>3 DEF BarOK
<1>5. a <= l
  BY <1>3 DEF OriginatorOK, WindowOK
<1>6. PICK e \in b .. l, f \in c .. l :
         /\ q \in Recipients /\ ReorderingOK(q, e, l) /\ ScoreboardOK(q, f, l)
         /\ f = c \/ f = s
         /\ s <= e /\ s <= f
         /\ Received(q) = Received(recipient)
         /\ \A m \in b .. e - 1 : m < s \/ m \in Received(recipient)
  <2>1. s <= l
    BY <1>2, <1>4, <1>5
  <2>2. LET r == NotifyReceivedBar(recipient, GetSequenceNumber(s))
        IN  \E e \in b .. l, f \in c .. l :
                /\ r \in Recipients /\ ReorderingOK(r, e, l) /\ ScoreboardOK(r, f, l)
                /\ f = c \/ f = s
                /\ s <= e /\ s <= f
                /\ Received(r) = Received(recipient)
                /\ \A m \in b .. e - 1 : m < s \/ m \in Received(recipient)
    BY <1>1, <1>2, <1>3, <1>4, <2>1, NotifyReceivedBarDoes
  <2> QED
    BY <1>4, <2>2
<1> HIDE DEF q
<1>7. e \in Nat /\ f \in Nat /\ b <= e /\ c <= f
  BY <1>2
<1>8. TogetherOK(o, q, a, e, f)
  <2>1. f <= a
    BY <1>3, <1>4, <1>6 DEF TogetherOK
  <2>2. ASSUME NEW m \in o.queued \ Received(q) PROVE m >= e
    <3>1. m \in Nat /\ m >= a /\ m >= b
      BY <1>2, <1>3, <1>6, OriginatorFields DEF TogetherOK, OriginatorOK, QueueOK, StoreOK
    <3> QED
      BY <1>4, <1>6, <1>7, <3>1, <2>2
  <2>3. ~RequestPending(o) => a <= e /\ a <= f + WinSize
    BY <1>3, <1>7, SpaceFacts DEF TogetherOK
  <2> QED
    BY <1>3, <1>6, <2>1, <2>2, <2>3 DEF TogetherOK
<1>9. /\ x \in Exchanges /\ x.kind = exchange.kind /\ x.mpdus = exchange.mpdus
      /\ x.startingSeq = exchange.startingSeq
      /\ x.phase = "answered" /\ x.bitmap = FillBlockAckBitmap(q)
  BY <1>2, <1>6, BitmapIsNumbers DEF Exchanges
<1> HIDE DEF x
<1>10. BarOK(x, o, a, e, f)
  BY <1>3, <1>4, <1>6, <1>9 DEF BarOK
<1>11. ExchangeOK(x, o, q, a, e, f)
  BY <1>3, <1>9, <1>10 DEF ExchangeOK
<1>12. AgreementOK(o, q, x, a, e, f)
  BY <1>3, <1>6, <1>8, <1>11 DEF AgreementOK
<1>13. recipient' = q /\ exchange' = x
  BY DEF ReceiveBar, q, x
<1>14. originator' = o /\ config' = config /\ expiredTo' = expiredTo
  BY DEF ReceiveBar
<1> QED
  BY <1>2, <1>6, <1>7, <1>9, <1>12, <1>13, <1>14, Concluding

-------------------------------------------------------------------------------
(* The end of an exchange. *)

(* A number that a block ack reports stands for the frame in flight that
   bears it, for no frame before or after it. *)
LEMMA ReportedIsReceived ==
  ASSUME NEW o \in Originators, NEW r \in Recipients, NEW a \in Nat, NEW c \in Nat,
         OriginatorOK(o, a), ScoreboardOK(r, c, o.next), c <= a,
         NEW m \in Stored(o), GetSequenceNumber(m) \in FillBlockAckBitmap(r)
  PROVE  m \in Received(r)
<1>1. PICK d \in r.m_scoreboard.set :
         GetSequenceNumber(m) = (r.m_scoreboard.m_winStart + d) % SEQNO_SPACE_SIZE
  BY DEF FillBlockAckBitmap
<1>2. /\ d \in 0 .. WinSize - 1 /\ d \in Nat /\ c + d \in Received(r)
      /\ r.m_scoreboard.m_winStart = GetSequenceNumber(c)
  BY <1>1, RecipientFields, SpaceFacts DEF Windows, ScoreboardOK, StartsAt
<1>3. GetSequenceNumber(m) = GetSequenceNumber(c + d)
  BY <1>1, <1>2, NumberOfSum
<1>4. o.next \in Nat /\ m \in Nat /\ a <= m /\ m < o.next /\ o.next <= c + 2 * WinSize
  BY OriginatorFields DEF OriginatorOK, QueueOK, StoreOK, ScoreboardOK
<1>5. m < c + d + SEQNO_SPACE_SIZE /\ c + d < m + SEQNO_SPACE_SIZE /\ c + d \in Nat
  BY <1>2, <1>4, SpaceFacts
<1>6. m = c + d
  BY <1>3, <1>4, <1>5, SameNumber
<1> QED
  BY <1>2, <1>6

(* The request on the air, if any, is done with. *)
Responded(p, q) == p = q \/ (q.bar = "sent" /\ p = [q EXCEPT !.bar = "none"])

(* After a response: T are the frames that it acknowledged. *)
Answering(o, r, q, a, b, c, f, T, p) ==
    /\ o \in Originators /\ r \in Recipients
    /\ a \in Nat /\ b \in Nat /\ c \in Nat /\ f \in a .. o.next
    /\ OriginatorOK(o, a) /\ ReorderingOK(r, b, o.next) /\ ScoreboardOK(r, c, o.next)
    /\ TogetherOK(o, r, a, b, c) /\ o.expired = <<>>
    /\ Told(q, o, T, a, f) /\ T \subseteq Received(r)
    /\ o.bar = "sent" => a <= b /\ a <= c
    /\ Responded(p, q)

LEMMA ToldAgrees ==
  ASSUME NEW o, NEW r, NEW q, NEW a, NEW b, NEW c, NEW f, NEW T, NEW p,
         Answering(o, r, q, a, b, c, f, T, p)
  PROVE  /\ p \in Originators /\ OriginatorOK(p, f) /\ p.next = o.next
         /\ TogetherOK(p, r, f, b, c) /\ p.inFlight = {}
<1>0. /\ o \in Originators /\ r \in Recipients
      /\ a \in Nat /\ b \in Nat /\ c \in Nat /\ f \in a .. o.next
      /\ OriginatorOK(o, a) /\ ReorderingOK(r, b, o.next) /\ ScoreboardOK(r, c, o.next)
      /\ TogetherOK(o, r, a, b, c) /\ o.expired = <<>>
      /\ Told(q, o, T, a, f) /\ T \subseteq Received(r)
      /\ o.bar = "sent" => a <= b /\ a <= c
      /\ Responded(p, q)
  BY DEF Answering
<1> USE <1>0
<1>1. q \in Originators
  BY DEF Told
<1>2. /\ p \in Originators
      /\ p.next = q.next /\ p.queued = q.queued /\ p.inFlight = q.inFlight
      /\ p.packetQueue = q.packetQueue /\ p.window = q.window
      /\ p.sendBarIfDataQueued = q.sendBarIfDataQueued
      /\ p.expired = q.expired /\ p.acked = q.acked
      /\ p.bar = q.bar \/ (q.bar = "sent" /\ p.bar = "none")
  BY <1>1 DEF Originators, Responded
<1>3. f \in Nat /\ a <= f /\ f <= o.next /\ o.next \in Nat
  BY OriginatorFields
<1>4. p.next = o.next /\ p.expired = <<>> /\ p.inFlight = {}
  BY <1>2 DEF Told, Keeps
<1>5. OriginatorOK(p, f)
  <2>1. WindowOK(p, f) /\ QueueOK(p, f) /\ InFlightFirst(p)
    BY <1>2, <1>4 DEF Told, WindowOK, QueueOK, StoreOK, Stored, InFlightFirst
  <2>2. ToSet(p.expired) = {} /\ IsAscending(p.expired)
    BY <1>4, NoFrames
  <2>3. ExpiredOK(p, f)
    BY <1>4, <2>2 DEF ExpiredOK
  <2> QED
    BY <2>1, <2>3 DEF OriginatorOK
<1>6. p.acked \subseteq Received(r)
  BY <1>2 DEF Told, TogetherOK
<1>7. \A m \in p.queued \ Received(r) : m >= b
  BY <1>2 DEF Told, TogetherOK
<1>8. Received(r) \in SUBSET Nat /\ b \notin Received(r)
  <2>1. b \notin ToSet(r.forwarded)
    BY DEF ReorderingOK, BufferingOK
  <2> QED
    BY <2>1, RecipientFields DEF ReorderingOK, Received
<1>9. ASSUME ~RequestPending(p) PROVE f <= b /\ f <= c + WinSize
  <2>1. q.bar = o.bar /\ a .. f - 1 \subseteq Received(r)
    BY <1>2, <1>6, <1>9 DEF Told, RequestPending
  <2>2. a <= b /\ a <= c + WinSize
    BY <1>2, <1>9, <2>1, SpaceFacts DEF Told, Keeps, TogetherOK, RequestPending
  <2>3. f <= b
    BY <1>3, <1>8, <2>1, <2>2
  <2>4. f = a \/ f - 1 \in Received(r)
    BY <1>3, <2>1
  <2>5. \A m \in Received(r) : m < c + WinSize
    BY DEF ScoreboardOK
  <2>6. f <= c + WinSize
    BY <1>3, <2>2, <2>4, <2>5, SpaceFacts
  <2> QED
    BY <2>3, <2>6
<1>10. c <= f
  BY <1>3 DEF TogetherOK
<1>11. TogetherOK(p, r, f, b, c)
  BY <1>6, <1>7, <1>9, <1>10 DEF TogetherOK
<1> QED
  BY <1>2, <1>4, <1>5, <1>11

LEMMA ReceiveResponseStep ==
  ASSUME IInv, ReceiveResponse PROVE IInv'
<1>1. PICK a, b, c \in Nat :
          c <= originator.next /\ AgreementOK(originator, recipient, exchange, a, b, c)
  BY DEF IInv
<1> DEFINE o == originator
           r == recipient
           x == exchange
           told == NotifyGotBlockAck(o, x.bitmap)
           p == IF x.kind = "mpdu" THEN NotifyGotAck(o, Head(x.mpdus))
                ELSE IF told.bar = "sent" THEN [told EXCEPT !.bar = "none"] ELSE told
           q == TransmissionSucceeded(p)
<1>2. /\ TypeOK /\ o \in Originators /\ r \in Recipients /\ x \in Exchanges
      /\ expiredTo \in Nat /\ x.mpdus \in Seq(Nat) /\ o.expired = <<>>
  BY OriginatorFields, ExchangeFields DEF IInv, TypeOK, ReceiveResponse, TimeMayPass
<1>3. /\ OriginatorOK(o, a) /\ ReorderingOK(r, b, o.next) /\ ScoreboardOK(r, c, o.next)
      /\ TogetherOK(o, r, a, b, c) /\ ExchangeOK(x, o, r, a, b, c)
      /\ WindowOK(o, a) /\ QueueOK(o, a) /\ InFlightFirst(o)
  BY <1>1 DEF AgreementOK, OriginatorOK
<1>4. x.phase = "answered" /\ x.kind \in {"mpdu", "ampdu", "bar"}
  BY <1>2, <1>3, ExchangeFields DEF ReceiveResponse, ExchangeOK, NoExchange
<1>5. o.bar = "sent" => x.kind = "bar" /\ a <= b /\ a <= c
  <2>1. x.kind = "bar" \/ o.bar # "sent"
    BY <1>3, <1>4 DEF ExchangeOK, DataOK
  <2>2. x.kind = "bar" /\ o.bar = "sent" => a <= b /\ a <= c
    BY <1>3, <1>4 DEF ExchangeOK, BarOK
  <2> QED
    BY <2>1, <2>2
<1>6. \E f \in a .. o.next : /\ p \in Originators /\ OriginatorOK(p, f) /\ p.next = o.next
                             /\ TogetherOK(p, r, f, b, c) /\ p.inFlight = {}
                             /\ p.bar # "sent"
  <2>1. CASE x.kind = "mpdu"
    <3> DEFINE m == Head(x.mpdus)
    <3>1. /\ SentOK(o, x.mpdus, a) /\ Len(x.mpdus) = 1 /\ m \in Received(r)
          /\ o.bar # "sent"
      BY <1>3, <1>4, <2>1 DEF ExchangeOK, DataOK
    <3>2. m \in Nat /\ ToSet(x.mpdus) = {m}
      BY <1>2, <3>1, OneFrame
    <3>3. m < o.next /\ o.next <= m + WinSize /\ o.inFlight = o.queued \cap {m}
      BY <3>1, <3>2 DEF SentOK
    <3> HIDE DEF m
    <3>4. PICK f \in a .. o.next : Told(NotifyGotAck(o, m), o, {m}, a, f)
      BY <1>2, <1>3, <3>2, <3>3, NotifyGotAckDoes
    <3>5. p = NotifyGotAck(o, m)
      BY <2>1 DEF m
    <3> HIDE DEF p
    <3>6. Told(p, o, {m}, a, f) /\ {m} \subseteq Received(r) /\ (o.bar = "sent" => FALSE)
      BY <3>1, <3>4, <3>5
    <3>7. p.bar # "sent"
      BY <3>1, <3>6 DEF Told
    <3>8. /\ p \in Originators /\ OriginatorOK(p, f) /\ p.next = o.next
          /\ TogetherOK(p, r, f, b, c) /\ p.inFlight = {}
      <4>1. Answering(o, r, p, a, b, c, f, {m}, p)
        BY <1>2, <1>3, <1>5, <3>6 DEF Answering, Responded
      <4> HIDE DEF o, r
      <4> QED
        BY ONLY <4>1, ToldAgrees
    <3> QED
      BY <3>7, <3>8
  <2>2. CASE x.kind # "mpdu"
    <3> DEFINE T == {m \in Stored(o) : GetSequenceNumber(m) \in x.bitmap}
    <3>1. T \subseteq Received(r)
      <4>1. x.bitmap = FillBlockAckBitmap(r) /\ c <= a
        BY <1>3, <1>4 DEF ExchangeOK, TogetherOK
      <4> QED
        BY <1>2, <1>3, <4>1, ReportedIsReceived
    <3>2. PICK f \in a .. o.next : Told(told, o, T, a, f)
      BY <1>2, <1>3, NotifyGotBlockAckDoes
    <3> HIDE DEF told, T
    <3>3. p = IF told.bar = "sent" THEN [told EXCEPT !.bar = "none"] ELSE told
      BY <2>2
    <3> HIDE DEF p
    <3>4. told \in Originators
      BY <3>2 DEF Told
    <3>5. p.bar # "sent"
      BY <3>3, <3>4 DEF Originators
    <3>6. Responded(p, told)
      BY <3>3 DEF Responded
    <3>7. /\ p \in Originators /\ OriginatorOK(p, f) /\ p.next = o.next
          /\ TogetherOK(p, r, f, b, c) /\ p.inFlight = {}
      <4>1. Answering(o, r, told, a, b, c, f, T, p)
        BY <1>2, <1>3, <1>5, <3>1, <3>2, <3>6 DEF Answering
      <4> HIDE DEF o, r
      <4> QED
        BY ONLY <4>1, ToldAgrees
    <3> QED
      BY <3>5, <3>7
  <2> QED
    BY <2>1, <2>2
<1> HIDE DEF p
<1>7. PICK f \in a .. o.next : /\ p \in Originators /\ OriginatorOK(p, f) /\ p.next = o.next
                               /\ TogetherOK(p, r, f, b, c) /\ p.inFlight = {}
                               /\ p.bar # "sent"
  BY <1>6
<1>8. f \in Nat
  BY <1>2, OriginatorFields
<1>9. Wiped(q, p, f)
  BY <1>2, <1>7, <1>8, TransmissionSucceededDoes
<1> HIDE DEF q
<1>10. /\ q \in Originators /\ OriginatorOK(q, f) /\ q.next = o.next /\ q.inFlight = {}
       /\ q.bar # "sent"
  BY <1>7, <1>9 DEF Wiped
<1>11. TogetherOK(q, r, f, b, c)
  BY <1>7, <1>9 DEF Wiped, TogetherOK
<1>12. NoExchange \in Exchanges /\ ExchangeOK(NoExchange, q, r, f, b, c)
  BY <1>10 DEF NoExchange, Exchanges, ExchangeOK
<1>13. AgreementOK(q, r, NoExchange, f, b, c)
  BY <1>3, <1>10, <1>11, <1>12 DEF AgreementOK
<1>14. /\ originator' = q /\ config' = config /\ expiredTo' = expiredTo
       /\ recipient' = recipient /\ exchange' = NoExchange
  BY DEF ReceiveResponse, q, p, told
<1> QED
  BY <1>1, <1>2, <1>8, <1>10, <1>12, <1>13, <1>14, Concluding

LEMMA ResponseTimeoutStep ==
  ASSUME IInv, ResponseTimeout PROVE IInv'
<1>1. PICK a, b, c \in Nat :
          c <= originator.next /\ AgreementOK(originator, recipient, exchange, a, b, c)
  BY DEF IInv
<1> DEFINE o == originator
           r == recipient
           x == exchange
           q == IF x.kind = "mpdu" THEN NormalAckTimeout(o, Head(x.mpdus))
                ELSE MissedBlockAck(o, x.kind = "bar", x.mpdus)
<1>2. /\ TypeOK /\ o \in Originators /\ r \in Recipients /\ x \in Exchanges
      /\ expiredTo \in Nat /\ x.mpdus \in Seq(Nat) /\ o.expired = <<>>
  BY OriginatorFields, ExchangeFields DEF IInv, TypeOK, ResponseTimeout, TimeMayPass
<1>3. /\ OriginatorOK(o, a) /\ ReorderingOK(r, b, o.next) /\ ScoreboardOK(r, c, o.next)
      /\ TogetherOK(o, r, a, b, c) /\ ExchangeOK(x, o, r, a, b, c)
      /\ WindowOK(o, a) /\ QueueOK(o, a) /\ InFlightFirst(o)
  BY <1>1 DEF AgreementOK, OriginatorOK
<1>4. x.kind \in {"mpdu", "ampdu", "bar"}
  BY <1>2, <1>3, ExchangeFields DEF ResponseTimeout, ExchangeOK, NoExchange
<1>5. x.kind # "bar" => SentOK(o, x.mpdus, a) /\ o.bar # "sent"
  BY <1>3, <1>4 DEF ExchangeOK, DataOK
<1>6. PICK f \in a .. o.next : TimedOut(q, o, a, f)
  <2>1. CASE x.kind = "mpdu"
    <3>1. Len(x.mpdus) = 1
      BY <1>3, <2>1 DEF ExchangeOK, DataOK
    <3>2. Head(x.mpdus) \in Nat /\ x.mpdus = <<Head(x.mpdus)>>
      BY <1>2, <3>1, OneFrame
    <3>3. SentOK(o, <<Head(x.mpdus)>>, a) /\ o.bar # "sent"
      BY <1>5, <2>1, <3>2
    <3>4. \E f \in a .. o.next : TimedOut(NormalAckTimeout(o, Head(x.mpdus)), o, a, f)
      BY <1>2, <1>3, <3>2, <3>3, NormalAckTimeoutDoes
    <3> QED
      BY <2>1, <3>4
  <2>2. CASE x.kind # "mpdu"
    <3>1. (x.kind = "bar") \in BOOLEAN
      OBVIOUS
    <3>2. \E f \in a .. o.next : TimedOut(MissedBlockAck(o, x.kind = "bar", x.mpdus), o, a, f)
      BY <1>2, <1>3, <1>5, <3>1, MissedBlockAckDoes
    <3> QED
      BY <2>2, <3>2
  <2> QED
    BY <2>1, <2>2
<1> HIDE DEF q
<1>7. f \in Nat /\ a <= f
  BY <1>2, OriginatorFields
<1>8. ToSet(q.expired) = {} /\ IsAscending(q.expired) /\ q.expired = <<>>
  BY <1>2, <1>6, NoFrames DEF TimedOut
<1>9. q \in Originators /\ OriginatorOK(q, f) /\ q.next = o.next
  BY <1>6, <1>8 DEF TimedOut, OriginatorOK, ExpiredOK
<1>10. TogetherOK(q, r, f, b, c)
  BY <1>3, <1>6, <1>7 DEF TimedOut, TogetherOK
<1>11. NoExchange \in Exchanges /\ ExchangeOK(NoExchange, q, r, f, b, c)
  BY <1>6 DEF NoExchange, Exchanges, ExchangeOK, TimedOut
<1>12. AgreementOK(q, r, NoExchange, f, b, c)
  BY <1>3, <1>9, <1>10, <1>11 DEF AgreementOK
<1>13. /\ originator' = q /\ config' = config /\ expiredTo' = expiredTo
       /\ recipient' = recipient /\ exchange' = NoExchange
  BY DEF ResponseTimeout, q
<1> QED
  BY <1>1, <1>2, <1>7, <1>9, <1>11, <1>12, <1>13, Concluding

-------------------------------------------------------------------------------
(* The invariant holds, and with it the properties. *)

LEMMA StepOK ==
  ASSUME NarrowWindow, IInv, [Next]_vars PROVE IInv'
<1>1. CASE UNCHANGED vars
  <2>1. PICK a, b, c \in Nat :
            c <= originator.next /\ AgreementOK(originator, recipient, exchange, a, b, c)
    BY DEF IInv
  <2>2. /\ TypeOK /\ originator \in Originators /\ recipient \in Recipients
        /\ exchange \in Exchanges
    BY DEF IInv, TypeOK
  <2>3. /\ config' = config /\ expiredTo' = expiredTo /\ originator' = originator
        /\ recipient' = recipient /\ exchange' = exchange
    BY <1>1 DEF vars
  <2> QED
    BY <2>1, <2>2, <2>3, Concluding
<1>2. CASE Next
  BY <1>2, QueueStep, TimePassesStep, HasFramesStep, ExpiredTraceStep, StartStep,
     ReceiveDataStep, ReceiveBarStep, LoseStep, ReceiveResponseStep, ResponseTimeoutStep
     DEF Next
<1> QED
  BY <1>1, <1>2

(* Type correctness, and the three windows as the invariant places them:   *)
(* every number on the air and in a block ack means one frame.             *)
THEOREM AgreementHolds == NarrowWindow => (Spec => []IInv)
<1> SUFFICES ASSUME NarrowWindow PROVE Spec => []IInv
  OBVIOUS
<1>1. IInv /\ [Next]_vars => IInv'
  BY StepOK
<1> QED
  BY <1>1, InitOK, PTL DEF Spec

(* Frames reach the layer above in the order of their numbers, none twice. *)
THEOREM FramesStayInOrder == NarrowWindow => (Spec => []ForwardedInOrder)
<1> SUFFICES ASSUME NarrowWindow PROVE Spec => []ForwardedInOrder
  OBVIOUS
<1>1. IInv => ForwardedInOrder
  BY DEF IInv, AgreementOK, ReorderingOK, BufferingOK, IsAscending, ForwardedInOrder
<1>2. Spec => []IInv
  BY AgreementHolds
<1> QED
  BY <1>1, <1>2, PTL

(* No ack and no bit of a block ack stands for a frame that did not arrive. *)
THEOREM AcknowledgedAreReceived == NarrowWindow => (Spec => []AcknowledgedIsReceived)
<1> SUFFICES ASSUME NarrowWindow PROVE Spec => []AcknowledgedIsReceived
  OBVIOUS
<1>1. IInv => AcknowledgedIsReceived
  BY DEF IInv, AgreementOK, TogetherOK, AcknowledgedIsReceived
<1>2. Spec => []IInv
  BY AgreementHolds
<1> QED
  BY <1>1, <1>2, PTL

(* The recipient's buffer does not take a frame that is sent again for old. *)
THEOREM RetriesStayWanted == NarrowWindow => (Spec => []RetriesAreWanted)
<1> SUFFICES ASSUME NarrowWindow PROVE Spec => []RetriesAreWanted
  OBVIOUS
<1>1. IInv => RetriesAreWanted
  <2> SUFFICES ASSUME IInv, NEW m \in originator.queued \ Received(recipient)
               PROVE  ~IsOld(GetSequenceNumber(m), recipient.m_winStartB)
    BY DEF RetriesAreWanted
  <2>1. PICK a, b, c \in Nat : AgreementOK(originator, recipient, exchange, a, b, c)
    BY DEF IInv
  <2>2. m \in Nat /\ originator.next \in Nat
    BY OriginatorFields DEF IInv, TypeOK
  <2>3. b <= m
    BY <2>1, <2>2 DEF AgreementOK, TogetherOK
  <2>4. m < originator.next
    BY <2>1, <2>2 DEF AgreementOK, OriginatorOK, QueueOK, StoreOK
  <2>5. /\ recipient.m_winStartB = GetSequenceNumber(b)
        /\ originator.next <= b + WinSize
    BY <2>1 DEF AgreementOK, ReorderingOK, BufferingOK
  <2>6. m < b + SEQNO_SPACE_HALF_SIZE /\ b <= m + SEQNO_SPACE_HALF_SIZE
    BY <2>2, <2>3, <2>4, <2>5, SpaceFacts
  <2> QED
    BY <2>2, <2>3, <2>5, <2>6, OldIsBefore
<1>2. Spec => []IInv
  BY AgreementHolds
<1> QED
  BY <1>1, <1>2, PTL

(* Frames in flight are where a block ack looks for them, and a request is *)
(* queued for those whose exchange has ended.                              *)
THEOREM InFlightStaysCovered == NarrowWindow => (Spec => []InFlightIsCovered)
<1> SUFFICES ASSUME NarrowWindow PROVE Spec => []InFlightIsCovered
  OBVIOUS
<1>1. IInv => InFlightIsCovered
  BY DEF IInv, AgreementOK, OriginatorOK, QueueOK, ExchangeOK, NoExchange, InFlightIsCovered
<1>2. Spec => []IInv
  BY AgreementHolds
<1> QED
  BY <1>1, <1>2, PTL
===============================================================================
