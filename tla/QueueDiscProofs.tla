---------------------------- MODULE QueueDiscProofs ----------------------------
(***************************************************************************)
(* Proofs about QueueDisc for any queues, sizes, limits and bounds.  The   *)
(* bytes a device queue counts are those of its packets: a function of     *)
(* partial sums witnesses it, so that no recursion is needed.              *)
(***************************************************************************)
EXTENDS QueueDiscProperties, NumberLemmas, SequenceTheorems, TLAPS

Weighs(packets, bytes) ==
    \E f \in [0 .. Len(packets) -> Nat] :
        /\ f[0] = 0
        /\ f[Len(packets)] = bytes
        /\ \A i \in 1 .. Len(packets) : f[i] = f[i-1] + packets[i].size + HeaderSize
        /\ \A i, j \in 0 .. Len(packets) :
              i <= j => f[i] <= f[j] /\ f[j] - f[i] <= (j - i) * MaxFrame

TypeOK ==
    /\ m_txQueuesVector \in SUBSET TxQueues
    /\ limited \in SUBSET m_txQueuesVector
    /\ m_maxSize \in MaxSizes
    /\ queue \in [TxQueues -> Seq(Packets)]
    /\ m_nBytes \in [TxQueues -> Nat]
    /\ m_stoppedByDevice \in [TxQueues -> BOOLEAN]
    /\ m_stoppedByQueueLimits \in [TxQueues -> BOOLEAN]
    /\ m_queueLimits \in [TxQueues -> QueueLimits]
    /\ m_txMachineState \in [TxQueues -> {"READY", "BUSY"}]
    /\ notify \in [TxQueues -> 0 .. MaxFrame]
    /\ waking \in TxQueues \cup {Nothing}
    /\ discarded \in BOOLEAN

(* The device: a queue that is READY has nothing left.                     *)
DeviceOK(q) ==
    /\ Weighs(queue[q], m_nBytes[q])
    /\ ~ Exceeds(Len(queue[q]), m_nBytes[q])
    /\ m_txMachineState[q] = "READY" => queue[q] = <<>> /\ notify[q] = 0

(* The byte limits                                                         *)
LimitsOK(q) ==
    LET dql == m_queueLimits[q]
    IN  /\ dql.limit <= MaxLimit
        /\ dql.adjLimit = Plus(dql.limit, dql.numCompleted)
        /\ q \in limited => InProgress(dql) = m_nBytes[q] + notify[q]
        /\ m_stoppedByQueueLimits[q] => q \in limited /\ Available(dql) < 0

(* A stopped queue has something that will wake it.                        *)
Served(q) ==
    m_stoppedByDevice[q] => queue[q] # <<>> \/ notify[q] # 0 \/ waking = q

(* A queue that is not stopped has room for a packet without its header.   *)
HasRoom(q) ==
    m_stoppedByDevice[q] \/ ~ WouldOverflow(Len(queue[q]), m_nBytes[q])

QueueOK(q) == DeviceOK(q) /\ LimitsOK(q) /\ Served(q) /\ HasRoom(q)

IInv == TypeOK /\ \A q \in TxQueues : QueueOK(q)
-----------------------------------------------------------------------------
(* Multiplication, for the provers                                         *)
LEMMA OneMore == ASSUME NEW a \in Nat, NEW k \in Nat PROVE (a + 1) * k = a * k + k
  OBVIOUS

LEMMA NoFewer == ASSUME NEW a \in Nat, NEW b \in Nat, NEW k \in Nat, a <= b PROVE a * k <= b * k
<1>1. a * k + (b - a) * k = b * k
  OBVIOUS
<1>2. (b - a) * k >= 0
  <2>1. b - a \in Nat
    OBVIOUS
  <2> QED
    BY <2>1
<1> QED
  BY <1>1, <1>2

LEMMA Farther ==
  ASSUME NEW a \in Nat, NEW b \in Nat, NEW w \in Nat, NEW m \in Int, NEW k \in Nat,
         a <= b, b - a <= m, w <= k
  PROVE  a <= b + w /\ (b + w) - a <= m + k
  OBVIOUS

LEMMA FrameSize ==
  /\ MTU \in Nat \ {0} /\ HeaderSize \in Nat /\ MaxFrame \in Nat
  /\ \A p \in Packets : p.size \in Nat /\ 1 <= p.size /\ p.size + HeaderSize <= MaxFrame
<1>1. MTU \in Nat \ {0} /\ HeaderSize \in Nat /\ MaxFrame \in Nat
  BY SizesAssumption DEF MaxFrame
<1>2. ASSUME NEW p \in Packets
      PROVE  p.size \in Nat /\ 1 <= p.size /\ p.size + HeaderSize <= MaxFrame
  <2>1. p.size \in Sizes
    BY DEF Packets
  <2>2. p.size \in 1 .. MTU
    BY <2>1, SizesAssumption
  <2> QED
    BY <1>1, <2>2 DEF MaxFrame
<1> QED
  BY <1>1, <1>2

(* What an enqueued packet adds to the bytes of a queue                    *)
LEMMA WeighsAppend ==
  ASSUME NEW s \in Seq(Packets), NEW p \in Packets, NEW b \in Nat, Weighs(s, b)
  PROVE  Weighs(Append(s, p), b + p.size + HeaderSize)
<1> DEFINE n == Len(s)
           w == p.size + HeaderSize
<1>0. /\ n \in Nat /\ w \in Nat /\ w <= MaxFrame /\ MaxFrame \in Nat
      /\ p.size \in Nat /\ HeaderSize \in Nat
  BY FrameSize
<1>1. PICK f \in [0 .. n -> Nat] :
        /\ f[0] = 0
        /\ f[n] = b
        /\ \A i \in 1 .. n : f[i] = f[i-1] + s[i].size + HeaderSize
        /\ \A i, j \in 0 .. n : i <= j => f[i] <= f[j] /\ f[j] - f[i] <= (j - i) * MaxFrame
  BY DEF Weighs
<1> DEFINE g == [i \in 0 .. n + 1 |-> IF i = n + 1 THEN b + w ELSE f[i]]
<1>2. Len(Append(s, p)) = n + 1
  OBVIOUS
<1>3. g \in [0 .. n + 1 -> Nat]
  BY <1>0
<1>4. g[0] = 0 /\ g[n + 1] = b + p.size + HeaderSize
  BY <1>0, <1>1
<1>5. \A i \in 1 .. n + 1 : g[i] = g[i-1] + Append(s, p)[i].size + HeaderSize
  <2> TAKE i \in 1 .. n + 1
  <2>1. CASE i = n + 1
    <3>1. Append(s, p)[i] = p /\ g[i-1] = f[n] /\ g[i] = b + w
      BY <1>0, <2>1
    <3>2. g[i-1] = b
      BY <1>1, <3>1
    <3>3. b + w = b + p.size + HeaderSize
      BY <1>0
    <3> HIDE DEF g, w
    <3> QED
      BY <3>1, <3>2, <3>3
  <2>2. CASE i # n + 1
    <3>1. i \in 1 .. n /\ Append(s, p)[i] = s[i] /\ g[i-1] = f[i-1] /\ g[i] = f[i]
      BY <1>0, <2>2
    <3> QED
      BY <1>1, <3>1
  <2> QED
    BY <2>1, <2>2
<1>6. \A i, j \in 0 .. n + 1 : i <= j => g[i] <= g[j] /\ g[j] - g[i] <= (j - i) * MaxFrame
  <2> SUFFICES ASSUME NEW i \in 0 .. n + 1, NEW j \in 0 .. n + 1, i <= j
               PROVE  g[i] <= g[j] /\ g[j] - g[i] <= (j - i) * MaxFrame
    OBVIOUS
  <2>1. CASE j # n + 1
    <3>1. g[i] = f[i] /\ g[j] = f[j] /\ i \in 0 .. n /\ j \in 0 .. n
      BY <1>0, <2>1
    <3> HIDE DEF g
    <3> QED
      BY <1>1, <3>1
  <2>2. CASE j = n + 1 /\ i = n + 1
    <3>1. g[i] = g[j] /\ g[i] \in Nat /\ (j - i) * MaxFrame = 0
      BY <1>0, <1>3, <2>2
    <3> HIDE DEF g
    <3> QED
      BY <3>1
  <2>3. CASE j = n + 1 /\ i # n + 1
    <3>1. g[i] = f[i] /\ g[j] = f[n] + w /\ i \in 0 .. n
      BY <1>0, <1>1, <2>3
    <3>2. f[i] <= f[n] /\ f[n] - f[i] <= (n - i) * MaxFrame
      BY <1>0, <1>1, <3>1
    <3>3. j - i = (n - i) + 1 /\ n - i \in Nat
      BY <1>0, <2>3, <3>1
    <3>4. (j - i) * MaxFrame = (n - i) * MaxFrame + MaxFrame
      BY <1>0, <3>3, OneMore
    <3>5. f[i] \in Nat /\ f[n] \in Nat
      BY <1>0, <1>1, <3>1
    <3>6. (n - i) * MaxFrame \in Int
      BY <1>0, <3>3
    <3> DEFINE m == (n - i) * MaxFrame
    <3>7. f[i] <= f[n] /\ f[n] - f[i] <= m /\ m \in Int
      BY <3>2, <3>6
    <3>8. (j - i) * MaxFrame = m + MaxFrame
      BY <3>4
    <3> HIDE DEF g, m, w
    <3>9. f[i] <= f[n] + w /\ (f[n] + w) - f[i] <= m + MaxFrame
      BY <1>0, <3>5, <3>7, Farther
    <3>10. g[i] <= g[j] /\ g[j] - g[i] <= m + MaxFrame
      BY <3>1, <3>9
    <3> QED
      BY <3>8, <3>10
  <2> QED
    BY <2>1, <2>2, <2>3
<1> HIDE DEF g
<1> QED
  BY <1>2, <1>3, <1>4, <1>5, <1>6 DEF Weighs

(* What a dequeued packet takes from them                                  *)
LEMMA WeighsTail ==
  ASSUME NEW s \in Seq(Packets), NEW b \in Nat, Weighs(s, b), s # <<>>
  PROVE  /\ b - (Head(s).size + HeaderSize) \in Nat
         /\ Weighs(Tail(s), b - (Head(s).size + HeaderSize))
<1> DEFINE n == Len(s)
           w == Head(s).size + HeaderSize
<1>0. n \in Nat \ {0} /\ w \in Nat /\ Head(s) = s[1] /\ Head(s) \in Packets
  <2>1. n \in Nat \ {0} /\ Head(s) = s[1] /\ s[1] \in Packets
    OBVIOUS
  <2> QED
    BY <2>1, FrameSize
<1>1. PICK f \in [0 .. n -> Nat] :
        /\ f[0] = 0
        /\ f[n] = b
        /\ \A i \in 1 .. n : f[i] = f[i-1] + s[i].size + HeaderSize
        /\ \A i, j \in 0 .. n : i <= j => f[i] <= f[j] /\ f[j] - f[i] <= (j - i) * MaxFrame
  BY DEF Weighs
<1>2. f[1] = w
  BY <1>0, <1>1, FrameSize
<1>3. f[1] <= f[n]
  BY <1>0, <1>1
<1> DEFINE g == [i \in 0 .. n - 1 |-> f[i + 1] - w]
<1>4. Len(Tail(s)) = n - 1 /\ \A i \in 1 .. n - 1 : Tail(s)[i] = s[i + 1]
  BY <1>0
<1>5. g \in [0 .. n - 1 -> Nat]
  <2> SUFFICES ASSUME NEW i \in 0 .. n - 1 PROVE f[i + 1] - w \in Nat
    OBVIOUS
  <2>1. 1 \in 0 .. n /\ i + 1 \in 0 .. n /\ 1 <= i + 1
    BY <1>0
  <2>2. f[1] <= f[i + 1] /\ f[i + 1] \in Nat
    BY <1>1, <2>1
  <2> QED
    BY <1>0, <1>2, <2>2
<1>6. g[0] = 0 /\ g[n - 1] = b - w
  BY <1>0, <1>1, <1>2
<1>7. \A i \in 1 .. n - 1 : g[i] = g[i-1] + Tail(s)[i].size + HeaderSize
  <2> TAKE i \in 1 .. n - 1
  <2>1. g[i] = f[i + 1] - w /\ g[i-1] = f[i] - w /\ Tail(s)[i] = s[i + 1]
    BY <1>0, <1>4
  <2>2. f[i + 1] = f[i] + s[i + 1].size + HeaderSize
    BY <1>0, <1>1
  <2>3. f[i] \in Nat /\ s[i + 1] \in Packets
    <3> HIDE DEF g, w
    <3>1. i \in 0 .. n /\ i + 1 \in 1 .. n
      BY <1>0
    <3>2. f[i] \in Nat
      BY <3>1
    <3>3. s[i + 1] \in Packets
      BY <3>1
    <3> QED
      BY <3>2, <3>3
  <2>4. s[i + 1].size \in Nat /\ HeaderSize \in Nat
    BY <2>3, FrameSize
  <2>5. \A x, size, header, v \in Nat : (x + size + header) - v = (x - v) + size + header
    OBVIOUS
  <2> HIDE DEF g, w
  <2>6. f[i + 1] - w = (f[i] - w) + s[i + 1].size + HeaderSize
    BY <1>0, <2>2, <2>3, <2>4, <2>5
  <2> QED
    BY <2>1, <2>6
<1>8. \A i, j \in 0 .. n - 1 : i <= j => g[i] <= g[j] /\ g[j] - g[i] <= (j - i) * MaxFrame
  <2> SUFFICES ASSUME NEW i \in 0 .. n - 1, NEW j \in 0 .. n - 1, i <= j
               PROVE  g[i] <= g[j] /\ g[j] - g[i] <= (j - i) * MaxFrame
    OBVIOUS
  <2>1. g[i] = f[i + 1] - w /\ g[j] = f[j + 1] - w
    OBVIOUS
  <2>2. /\ i + 1 \in 0 .. n /\ j + 1 \in 0 .. n /\ i + 1 <= j + 1
        /\ (j + 1) - (i + 1) = j - i
    BY <1>0
  <2>3. f[i + 1] <= f[j + 1] /\ f[j + 1] - f[i + 1] <= (j - i) * MaxFrame
    BY <1>1, <2>2
  <2>4. f[i + 1] \in Nat /\ f[j + 1] \in Nat
    BY <1>1, <2>2
  <2>5. (j - i) * MaxFrame \in Int
    BY <1>0, FrameSize
  <2> HIDE DEF g
  <2> QED
    BY <1>0, <2>1, <2>3, <2>4, <2>5
<1> HIDE DEF g
<1>9. b - w \in Nat
  BY <1>0, <1>1, <1>2, <1>3
<1> QED
  BY <1>4, <1>5, <1>6, <1>7, <1>8, <1>9 DEF Weighs

(* The bytes of a queue, its packets and what it can hold                  *)
LEMMA WeighsBounds ==
  ASSUME NEW s \in Seq(Packets), NEW b \in Nat, Weighs(s, b)
  PROVE  b <= Len(s) * MaxFrame /\ (s = <<>> <=> b = 0)
<1> DEFINE n == Len(s)
<1>1. PICK f \in [0 .. n -> Nat] :
        /\ f[0] = 0
        /\ f[n] = b
        /\ \A i \in 1 .. n : f[i] = f[i-1] + s[i].size + HeaderSize
        /\ \A i, j \in 0 .. n : i <= j => f[i] <= f[j] /\ f[j] - f[i] <= (j - i) * MaxFrame
  BY DEF Weighs
<1>2. n \in Nat /\ (s = <<>> <=> n = 0)
  OBVIOUS
<1>3. f[n] - f[0] <= (n - 0) * MaxFrame
  BY <1>1, <1>2
<1>4. b <= n * MaxFrame
  <2>1. n - 0 = n
    BY <1>2
  <2> QED
    BY <1>1, <1>3, <2>1
<1>5. ASSUME n # 0 PROVE b # 0
  <2>1. f[1] = f[0] + s[1].size + HeaderSize /\ f[1] <= f[n] /\ s[1] \in Packets
    BY <1>1, <1>2, <1>5
  <2> QED
    BY <1>1, <2>1, FrameSize
<1> QED
  BY <1>1, <1>2, <1>4, <1>5

LEMMA WeighsNothing == Weighs(<<>>, 0)
<1> DEFINE f == [i \in 0 .. 0 |-> 0]
<1>1. Len(<<>>) = 0 /\ f \in [0 .. 0 -> Nat] /\ f[0] = 0
  OBVIOUS
<1>2. \A i, j \in 0 .. 0 : (j - i) * MaxFrame = 0
  BY FrameSize
<1> QED
  <2>1. \A i, j \in 0 .. 0 : f[i] = 0 /\ f[j] = 0
    OBVIOUS
  <2> HIDE DEF f
  <2> QED
    BY <1>1, <1>2, <2>1 DEF Weighs
-----------------------------------------------------------------------------
(***************************************************************************)
(* The counters of the byte limits.                                        *)
(***************************************************************************)
LEMMA WordSize ==
  /\ HalfWord \in Nat \ {0} /\ Word \in Nat /\ Word = HalfWord + HalfWord
  /\ MinLimit \in Nat /\ MaxLimit \in Nat /\ MaxLimit < HalfWord
  /\ 0 \in Words /\ NoSlack \in Words /\ MaxLimit \in Words
BY WordAssumption, LimitsAssumption DEF Word, Words, NoSlack

LEMMA WordArithmetic ==
  ASSUME NEW a \in Words, NEW b \in Words
  PROVE  /\ Plus(a, b) \in Words /\ Minus(a, b) \in Words /\ Posdiff(a, b) \in Words
         /\ Smaller(a, b) \in Words /\ Larger(a, b) \in Words
<1>1. Plus(a, b) \in Words /\ Minus(a, b) \in Words
  BY WordSize DEF Words, Plus, Minus
<1>2. Posdiff(a, b) \in Words
  BY <1>1, WordSize DEF Posdiff
<1> QED
  BY <1>1, <1>2 DEF Smaller, Larger

LEMMA BoundedIsSmall == \A n \in Words : Bounded(n) \in Words /\ Bounded(n) <= MaxLimit
<1> SUFFICES ASSUME NEW n \in Words PROVE Bounded(n) \in Words /\ Bounded(n) <= MaxLimit
  OBVIOUS
<1>1. Larger(n, MinLimit) \in Nat
  BY WordSize DEF Larger, Words
<1> QED
  BY <1>1, WordSize DEF Bounded, Smaller, Words

(* Queued counts what is queued, as long as the word can hold it.          *)
LEMMA QueuedCounts ==
  ASSUME NEW dql \in QueueLimits, NEW count \in Nat, InProgress(dql) + count < Word
  PROVE  LET new == Queued(dql, count)
         IN  /\ new \in QueueLimits
             /\ InProgress(new) = InProgress(dql) + count
             /\ new.limit = dql.limit /\ new.adjLimit = dql.adjLimit
             /\ new.numCompleted = dql.numCompleted
<1> DEFINE new == Queued(dql, count)
<1>1. dql.numQueued \in Words /\ dql.numCompleted \in Words
  BY DEF QueueLimits
<1>2. InProgress(dql) \in Words
  BY <1>1, WordArithmetic DEF InProgress
<1>3. count \in Words
  BY <1>2, WordSize DEF Words
<1>4. Plus(dql.numQueued, count) \in Words
  BY <1>1, <1>3, WordArithmetic
<1>5. new \in QueueLimits
  BY <1>3, <1>4 DEF Queued, QueueLimits
<1>6. /\ new.numQueued = Plus(dql.numQueued, count) /\ new.numCompleted = dql.numCompleted
      /\ new.limit = dql.limit /\ new.adjLimit = dql.adjLimit
  BY DEF Queued, QueueLimits
<1>7. Minus(Plus(dql.numQueued, count), dql.numCompleted)
        = Minus(dql.numQueued, dql.numCompleted) + count
  <2>1. Minus(dql.numQueued, dql.numCompleted) + count < Word
    BY DEF InProgress
  <2> QED
    BY <1>1, <1>3, <2>1, WordSize DEF Plus, Minus, Words
<1> QED
  BY <1>5, <1>6, <1>7 DEF InProgress

(* Completed gives back what it is told and keeps the limit in its bounds. *)
LEMMA CompletedCounts ==
  ASSUME NEW dql \in QueueLimits, NEW count \in Nat, count <= InProgress(dql),
         NEW held \in BOOLEAN
  PROVE  LET new == Completed(dql, count, held)
         IN  /\ new \in QueueLimits
             /\ InProgress(new) = InProgress(dql) - count
             /\ new.limit <= MaxLimit
             /\ new.adjLimit = Plus(new.limit, new.numCompleted)
<1> DEFINE new == Completed(dql, count, held)
           completed == Plus(dql.numCompleted, count)
<1>1. /\ dql.limit \in Words /\ dql.numQueued \in Words /\ dql.numCompleted \in Words
      /\ dql.lastObjCnt \in Words /\ dql.prevNumQueued \in Words
      /\ dql.prevLastObjCnt \in Words /\ dql.prevOvlimit \in Words
      /\ dql.lowestSlack \in Words
  BY DEF QueueLimits
<1>2. InProgress(dql) \in Words
  BY <1>1, WordArithmetic DEF InProgress
<1>3. count \in Words
  BY <1>2, WordSize DEF Words
<1>4. completed \in Words
  BY <1>1, <1>3, WordArithmetic
<1>5. Ovlimit(dql) \in Words
  BY <1>1, <1>2, WordArithmetic DEF Ovlimit
<1>6. Slack(dql, count) \in Words
  <2>1. Posdiff(Plus(dql.limit, dql.prevOvlimit), Plus(count, count)) \in Words
    BY <1>1, <1>3, WordArithmetic
  <2>2. (IF dql.prevOvlimit = 0 THEN 0 ELSE Posdiff(dql.prevLastObjCnt, dql.prevOvlimit)) \in Words
    BY <1>1, WordArithmetic, WordSize
  <2> QED
    BY <1>1, <2>1, <2>2, WordArithmetic DEF Slack
<1>7. Adapted(dql, count, held).limit \in Words /\ Adapted(dql, count, held).slack \in Words
  <2>1. Plus(Plus(dql.limit, Posdiff(completed, dql.prevNumQueued)), dql.prevOvlimit) \in Words
    BY <1>1, <1>4, WordArithmetic
  <2>2. Posdiff(dql.limit, Slack(dql, count)) \in Words
    BY <1>1, <1>6, WordArithmetic
  <2> QED
    BY <1>1, <1>6, <2>1, <2>2, WordSize DEF Adapted
<1> DEFINE limit == Bounded(Adapted(dql, count, held).limit)
<1>8. limit \in Words /\ limit <= MaxLimit
  BY <1>7, BoundedIsSmall
<1>9. Plus(limit, completed) \in Words
  BY <1>4, <1>8, WordArithmetic
<1>10. /\ new.limit = limit /\ new.adjLimit = Plus(limit, completed)
       /\ new.numCompleted = completed /\ new.numQueued = dql.numQueued
  BY DEF Completed
<1>11. new \in QueueLimits
  <2>1. (IF limit = dql.limit THEN Ovlimit(dql) ELSE 0) \in Words
    BY <1>5, WordSize
  <2> HIDE DEF limit, completed
  <2> QED
    BY <1>1, <1>4, <1>7, <1>8, <1>9, <2>1 DEF Completed, QueueLimits, limit, completed
<1>12. Minus(dql.numQueued, completed) = Minus(dql.numQueued, dql.numCompleted) - count
  <2>1. count <= Minus(dql.numQueued, dql.numCompleted)
    BY DEF InProgress
  <2> QED
    BY <1>1, <1>3, <2>1, WordSize DEF Plus, Minus, Words
<1> QED
  BY <1>8, <1>10, <1>11, <1>12 DEF InProgress

(* With nothing in progress the limits do not stop a queue.                *)
LEMMA NothingInProgress ==
  ASSUME NEW dql \in QueueLimits, dql.limit <= MaxLimit,
         dql.adjLimit = Plus(dql.limit, dql.numCompleted), InProgress(dql) = 0
  PROVE  Available(dql) >= 0
<1>1. dql.numQueued \in Words /\ dql.numCompleted \in Words /\ dql.limit \in Words
  BY DEF QueueLimits
<1>2. dql.numQueued = dql.numCompleted
  BY <1>1, WordSize DEF InProgress, Minus, Words
<1>3. Minus(Plus(dql.limit, dql.numCompleted), dql.numCompleted) = dql.limit
  BY <1>1, WordSize DEF Plus, Minus, Words
<1>4. Available(dql) = Signed(dql.limit)
  BY <1>2, <1>3 DEF Available
<1> QED
  BY <1>1, <1>4, WordSize DEF Signed, Words

LEMMA FreshLimits ==
  /\ Fresh \in QueueLimits /\ InProgress(Fresh) = 0
  /\ Fresh.limit <= MaxLimit /\ Fresh.adjLimit = Plus(Fresh.limit, Fresh.numCompleted)
BY WordSize DEF Fresh, QueueLimits, InProgress, Plus, Minus
-----------------------------------------------------------------------------
(***************************************************************************)
(* The room in a device queue.                                             *)
(***************************************************************************)
LEMMA CapacityType ==
  ASSUME TypeOK
  PROVE  /\ m_maxSize.value \in Nat /\ CapacityBytes(m_maxSize) \in Nat
         /\ MaxFrame <= CapacityBytes(m_maxSize)
         /\ CapacityBytes(m_maxSize) + MaxFrame < Word
<1>1. m_maxSize \in MaxSizes /\ MaxSizes \subseteq [unit: {"PACKETS", "BYTES"}, value: Nat]
  BY SizesAssumption DEF TypeOK
<1>2. m_maxSize.value \in Nat
  BY <1>1
<1>3. m_maxSize.value * MaxFrame \in Nat
  BY <1>2, FrameSize
<1> QED
  BY <1>1, <1>2, <1>3, RoomAssumption DEF CapacityBytes

(* The bytes of a queue that does not exceed its capacity                  *)
LEMMA BytesFit ==
  ASSUME TypeOK, NEW s \in Seq(Packets), NEW b \in Nat, Weighs(s, b), ~ Exceeds(Len(s), b)
  PROVE  b <= CapacityBytes(m_maxSize)
<1>1. m_maxSize.value \in Nat
  BY CapacityType
<1>2. CASE m_maxSize.unit = "PACKETS"
  <2>1. Len(s) \in Nat /\ Len(s) <= m_maxSize.value
    BY <1>1, <1>2 DEF Exceeds
  <2>2. Len(s) * MaxFrame <= m_maxSize.value * MaxFrame
    BY <1>1, <2>1, FrameSize, NoFewer
  <2>3. b <= Len(s) * MaxFrame
    BY WeighsBounds
  <2>4. Len(s) * MaxFrame \in Int /\ m_maxSize.value * MaxFrame \in Int
    BY <1>1, <2>1, FrameSize
  <2> DEFINE x == Len(s) * MaxFrame
             y == m_maxSize.value * MaxFrame
  <2>5. x \in Int /\ y \in Int /\ b <= x /\ x <= y /\ CapacityBytes(m_maxSize) = y
    BY <1>2, <2>2, <2>3, <2>4 DEF CapacityBytes
  <2> HIDE DEF x, y
  <2> QED
    BY <2>5
<1>3. CASE m_maxSize.unit # "PACKETS"
  BY <1>1, <1>3 DEF Exceeds, CapacityBytes
<1> QED
  BY <1>2, <1>3

(* An empty queue takes any packet.                                        *)
LEMMA EmptyTakesAny ==
  ASSUME TypeOK, NEW b \in Nat, b <= MaxFrame
  PROVE  ~ Exceeds(1, b)
<1>1. CASE m_maxSize.unit = "PACKETS"
  <2>1. m_maxSize.value # 0
    <3>1. 0 * MaxFrame = 0 /\ 1 <= MaxFrame
      BY FrameSize DEF MaxFrame
    <3>2. ASSUME m_maxSize.value = 0 PROVE CapacityBytes(m_maxSize) = 0
      BY <1>1, <3>1, <3>2 DEF CapacityBytes
    <3> QED
      BY <3>1, <3>2, CapacityType, FrameSize
  <2> QED
    BY <1>1, <2>1, CapacityType DEF Exceeds
<1>2. CASE m_maxSize.unit # "PACKETS"
  BY <1>2, CapacityType, FrameSize DEF Exceeds, CapacityBytes
<1> QED
  BY <1>1, <1>2

LEMMA EmptyHasRoom ==
  ASSUME TypeOK
  PROVE  ~ WouldOverflow(Len(<<>>), 0)
<1>1. Len(<<>>) + 1 = 1 /\ 0 + MTU = MTU /\ MTU \in Nat /\ MTU <= MaxFrame
  BY FrameSize DEF MaxFrame
<1> QED
  BY <1>1, EmptyTakesAny DEF WouldOverflow

(* What fits, fits after taking away.                                      *)
LEMMA LessFits ==
  ASSUME TypeOK, NEW m \in Nat, NEW n \in Nat, NEW a \in Nat, NEW b \in Nat, m <= n, a <= b
  PROVE  /\ ~ Exceeds(n, b) => ~ Exceeds(m, a)
         /\ ~ WouldOverflow(n, b) => ~ WouldOverflow(m, a)
BY CapacityType, FrameSize DEF Exceeds, WouldOverflow

(* Dequeuing from a queue in order                                         *)
LEMMA Dequeued ==
  ASSUME TypeOK, NEW s \in Seq(Packets), s # <<>>, NEW b \in Nat,
         Weighs(s, b), ~ Exceeds(Len(s), b)
  PROVE  LET n == Head(s).size + HeaderSize
         IN  /\ n \in 1 .. MaxFrame
             /\ b - n \in Nat /\ (b - n) + n = b
             /\ Tail(s) \in Seq(Packets)
             /\ Weighs(Tail(s), b - n)
             /\ ~ Exceeds(Len(Tail(s)), b - n)
             /\ ~ WouldOverflow(Len(s), b) => ~ WouldOverflow(Len(Tail(s)), b - n)
<1> DEFINE n == Head(s).size + HeaderSize
<1>1. Head(s) \in Packets /\ Tail(s) \in Seq(Packets) /\ Len(s) \in Nat
      /\ Len(Tail(s)) \in Nat /\ Len(Tail(s)) <= Len(s)
  OBVIOUS
<1>2. n \in 1 .. MaxFrame
  BY <1>1, FrameSize
<1>3. b - n \in Nat /\ Weighs(Tail(s), b - n)
  BY WeighsTail
<1>4. b - n <= b /\ (b - n) + n = b
  BY <1>2, FrameSize
<1> HIDE DEF n
<1>5. /\ ~ Exceeds(Len(Tail(s)), b - n)
      /\ ~ WouldOverflow(Len(s), b) => ~ WouldOverflow(Len(Tail(s)), b - n)
  BY <1>1, <1>3, <1>4, LessFits
<1> QED
  BY <1>1, <1>2, <1>3, <1>4, <1>5 DEF n
-----------------------------------------------------------------------------
(***************************************************************************)
(* Every step keeps the invariant.                                         *)
(***************************************************************************)

(* A queue whose state a step leaves alone                                 *)
LEMMA OtherQueue ==
  ASSUME IInv, NEW q \in TxQueues, UNCHANGED config,
         queue'[q] = queue[q], m_nBytes'[q] = m_nBytes[q],
         m_stoppedByDevice'[q] = m_stoppedByDevice[q],
         m_stoppedByQueueLimits'[q] = m_stoppedByQueueLimits[q],
         m_queueLimits'[q] = m_queueLimits[q],
         m_txMachineState'[q] = m_txMachineState[q],
         notify'[q] = notify[q], waking = q => waking' = q
  PROVE  QueueOK(q)'
<1>1. QueueOK(q)
  BY DEF IInv
<1>2. DeviceOK(q)'
  BY <1>1 DEF QueueOK, DeviceOK, Exceeds, config
<1>3. LimitsOK(q)'
  BY <1>1 DEF QueueOK, LimitsOK, config
<1>4. Served(q)' /\ HasRoom(q)'
  BY <1>1 DEF QueueOK, Served, HasRoom, WouldOverflow, Exceeds, config
<1> QED
  BY <1>2, <1>3, <1>4 DEF QueueOK

LEMMA InitOK == Init => IInv
<1> SUFFICES ASSUME Init PROVE IInv
  OBVIOUS
<1>1. TypeOK
  <2>1. <<>> \in Seq(Packets) /\ 0 \in 0 .. MaxFrame
    BY FrameSize
  <2> QED
    BY <2>1, FreshLimits DEF Init, TypeOK
<1>2. ASSUME NEW q \in TxQueues PROVE QueueOK(q)
  <2>1. /\ queue[q] = <<>> /\ m_nBytes[q] = 0 /\ notify[q] = 0
        /\ m_stoppedByDevice[q] = FALSE /\ m_stoppedByQueueLimits[q] = FALSE
        /\ m_queueLimits[q] = Fresh
    BY <1>2 DEF Init
  <2>2. ~ Exceeds(0, 0) /\ ~ WouldOverflow(0, 0) /\ Len(<<>>) = 0
    BY <1>1, EmptyHasRoom, CapacityType DEF Exceeds
  <2>3. DeviceOK(q)
    BY <2>1, <2>2, WeighsNothing DEF DeviceOK
  <2>4. LimitsOK(q)
    BY <2>1, FreshLimits DEF LimitsOK
  <2> QED
    BY <2>1, <2>2, <2>3, <2>4 DEF QueueOK, Served, HasRoom
<1> QED
  BY <1>1, <1>2 DEF IInv

(* Send, NoPacket, Requeue and steps that change nothing do not touch the  *)
(* device.                                                                 *)
LEMMA DeviceAlone ==
  ASSUME IInv, UNCHANGED <<config, stopped, link, m_queueLimits, waking, discarded>>
  PROVE  IInv'
<1>1. TypeOK'
  BY DEF IInv, TypeOK, config, stopped, link
<1>2. ASSUME NEW q \in TxQueues PROVE QueueOK(q)'
  BY <1>2, OtherQueue DEF config, stopped, link
<1> QED
  BY <1>1, <1>2 DEF IInv

(* A discarded packet was too much for a queue that holds others.          *)
LEMMA DiscardOK ==
  ASSUME IInv, NEW p \in Packets, DeviceDiscards(p), UNCHANGED <<config, waking>>
  PROVE  IInv'
<1> DEFINE q == p.txq
<1>1. q \in TxQueues
  BY DEF Packets
<1>2. TypeOK'
  BY <1>1 DEF IInv, TypeOK, DeviceDiscards, config, link
<1>3. ASSUME NEW r \in TxQueues, r # q PROVE QueueOK(r)'
  <2>1. m_stoppedByDevice'[r] = m_stoppedByDevice[r]
    BY <1>3 DEF DeviceDiscards, IInv, TypeOK
  <2> QED
    BY <1>3, <2>1, OtherQueue DEF DeviceDiscards, link
<1>4. QueueOK(q)'
  <2>1. QueueOK(q) /\ TypeOK
    BY <1>1 DEF IInv
  <2>2. m_stoppedByDevice'[q] = TRUE
    BY <1>1, <2>1 DEF DeviceDiscards, TypeOK
  <2>3. queue[q] # <<>>
    <3>1. ASSUME queue[q] = <<>> PROVE FALSE
      <4>1. m_nBytes[q] = 0 /\ queue[q] \in Seq(Packets)
        BY <1>1, <2>1, <3>1, WeighsBounds DEF QueueOK, DeviceOK, TypeOK
      <4>2. Len(queue[q]) + 1 = 1
        BY <3>1
      <4>3. m_nBytes[q] + p.size + HeaderSize \in Nat
            /\ m_nBytes[q] + p.size + HeaderSize <= MaxFrame
        BY <4>1, FrameSize
      <4> QED
        BY <2>1, <4>2, <4>3, EmptyTakesAny DEF DeviceDiscards
    <3> QED
      BY <3>1
  <2>4. DeviceOK(q)'
    BY <2>1 DEF QueueOK, DeviceOK, Exceeds, DeviceDiscards, config, link
  <2>5. LimitsOK(q)'
    BY <2>1 DEF QueueOK, LimitsOK, DeviceDiscards, config, link
  <2>6. Served(q)' /\ HasRoom(q)'
    BY <2>2, <2>3 DEF Served, HasRoom, DeviceDiscards, link
  <2> QED
    BY <2>4, <2>5, <2>6 DEF QueueOK
<1> QED
  BY <1>2, <1>3, <1>4 DEF IInv

(* The rest of a notification                                              *)
LEMMA WakeOK == ASSUME IInv, Wake PROVE IInv'
<1>1. TypeOK /\ waking \in TxQueues
  BY DEF IInv, TypeOK, Wake
<1>2. PICK q \in TxQueues : q = waking
  BY <1>1
<1> DEFINE full == WouldOverflow(Len(queue[q]), m_nBytes[q])
<1>3. /\ waking' = Nothing
      /\ m_stoppedByDevice' =
           IF ~ full /\ m_stoppedByDevice[q]
           THEN [m_stoppedByDevice EXCEPT ![q] = FALSE]
           ELSE m_stoppedByDevice
      /\ UNCHANGED <<config, m_stoppedByQueueLimits, link, m_queueLimits, discarded>>
  BY <1>2 DEF Wake, past
<1>4. TypeOK'
  BY <1>1, <1>3 DEF TypeOK, config, link
<1>5. ASSUME NEW r \in TxQueues, r # q PROVE QueueOK(r)'
  <2>1. m_stoppedByDevice'[r] = m_stoppedByDevice[r]
    BY <1>1, <1>3, <1>5 DEF TypeOK
  <2> QED
    BY <1>2, <1>3, <1>5, <2>1, OtherQueue DEF link
<1>6. QueueOK(q)'
  <2>1. QueueOK(q)
    BY DEF IInv
  <2>2. DeviceOK(q)'
    BY <1>3, <2>1 DEF QueueOK, DeviceOK, Exceeds, config, link
  <2>3. LimitsOK(q)'
    BY <1>3, <2>1 DEF QueueOK, LimitsOK, config, link
  <2>4. queue'[q] = queue[q] /\ m_nBytes'[q] = m_nBytes[q] /\ m_maxSize' = m_maxSize
    BY <1>3 DEF config, link
  <2>5. CASE full
    <3>1. queue[q] # <<>>
      BY <1>1, <2>1, <2>5, EmptyHasRoom, WeighsBounds DEF QueueOK, DeviceOK, TypeOK
    <3>2. m_stoppedByDevice'[q] = m_stoppedByDevice[q]
      BY <1>3, <2>5
    <3>3. Served(q)' /\ HasRoom(q)'
      BY <2>1, <2>4, <3>1, <3>2 DEF QueueOK, Served, HasRoom, WouldOverflow, Exceeds
    <3> QED
      BY <2>2, <2>3, <3>3 DEF QueueOK
  <2>6. CASE ~ full
    <3>1. m_stoppedByDevice'[q] = FALSE
      BY <1>1, <1>3, <2>6 DEF TypeOK
    <3>2. Served(q)' /\ HasRoom(q)'
      BY <2>4, <2>6, <3>1 DEF Served, HasRoom, WouldOverflow, Exceeds
    <3> QED
      BY <2>2, <2>3, <3>2 DEF QueueOK
  <2> QED
    BY <2>5, <2>6
<1> QED
  BY <1>4, <1>5, <1>6 DEF IInv

(* What becomes of the queue a packet is dequeued from: packets and bytes  *)
(* are those it would hold otherwise.                                      *)
LEMMA DequeueOK ==
  ASSUME TypeOK, UNCHANGED config, NEW q \in TxQueues,
         NEW packets \in Seq(Packets), packets # <<>>, NEW bytes \in Nat,
         Weighs(packets, bytes), ~ Exceeds(Len(packets), bytes),
         DequeueAndTransmit(q, packets, bytes)
  PROVE  /\ DeviceOK(q)' /\ Served(q)'
         /\ m_nBytes'[q] + notify'[q] = bytes
         /\ ~ WouldOverflow(Len(packets), bytes)
              => ~ WouldOverflow(Len(queue'[q]), m_nBytes'[q])
         /\ queue' \in [TxQueues -> Seq(Packets)]
         /\ m_nBytes' \in [TxQueues -> Nat]
         /\ m_txMachineState' \in [TxQueues -> {"READY", "BUSY"}]
         /\ notify' \in [TxQueues -> 0 .. MaxFrame]
<1> DEFINE n == Head(packets).size + HeaderSize
<1>1. /\ n \in 1 .. MaxFrame
      /\ bytes - n \in Nat /\ (bytes - n) + n = bytes
      /\ Tail(packets) \in Seq(Packets)
      /\ Weighs(Tail(packets), bytes - n)
      /\ ~ Exceeds(Len(Tail(packets)), bytes - n)
      /\ ~ WouldOverflow(Len(packets), bytes) => ~ WouldOverflow(Len(Tail(packets)), bytes - n)
  BY Dequeued
<1> HIDE DEF n
<1>2. /\ queue' = [queue EXCEPT ![q] = Tail(packets)]
      /\ m_nBytes' = [m_nBytes EXCEPT ![q] = bytes - n]
      /\ m_txMachineState' = [m_txMachineState EXCEPT ![q] = "BUSY"]
      /\ notify' = [notify EXCEPT ![q] = n]
  BY DEF DequeueAndTransmit, n
<1>3. /\ queue' \in [TxQueues -> Seq(Packets)]
      /\ m_nBytes' \in [TxQueues -> Nat]
      /\ m_txMachineState' \in [TxQueues -> {"READY", "BUSY"}]
      /\ notify' \in [TxQueues -> 0 .. MaxFrame]
  <2>1. n \in 0 .. MaxFrame
    BY <1>1, FrameSize
  <2> QED
    BY <1>1, <1>2, <2>1 DEF TypeOK
<1>4. /\ queue'[q] = Tail(packets) /\ m_nBytes'[q] = bytes - n
      /\ m_txMachineState'[q] = "BUSY" /\ notify'[q] = n
  BY <1>2 DEF TypeOK
<1>5. DeviceOK(q)'
  <2>1. Weighs(queue'[q], m_nBytes'[q]) /\ ~ Exceeds(Len(queue'[q]), m_nBytes'[q])
    BY <1>1, <1>4
  <2> QED
    BY <1>4, <2>1 DEF DeviceOK, Exceeds, config
<1>6. notify'[q] # 0
  BY <1>1, <1>4, FrameSize
<1> QED
  BY <1>1, <1>3, <1>4, <1>5, <1>6 DEF Served

(* The end of a transmission                                               *)
LEMMA CompleteOK ==
  ASSUME IInv, NEW q \in TxQueues, TransmitComplete(q)
  PROVE  IInv'
<1>1. TypeOK /\ QueueOK(q)
  BY DEF IInv
<1>2. /\ notify[q] = 0
      /\ UNCHANGED <<config, stopped, m_queueLimits, waking, discarded>>
  BY DEF TransmitComplete, past
<1>3. queue[q] \in Seq(Packets) /\ m_nBytes[q] \in Nat
  BY <1>1 DEF TypeOK
<1>4. CASE queue[q] = <<>>
  <2>1. /\ m_txMachineState' = [m_txMachineState EXCEPT ![q] = "READY"]
        /\ UNCHANGED <<queue, m_nBytes, notify>>
    BY <1>4 DEF TransmitComplete
  <2>2. TypeOK'
    BY <1>1, <1>2, <2>1 DEF TypeOK, config, stopped
  <2>3. ASSUME NEW r \in TxQueues PROVE QueueOK(r)'
    <3>1. CASE r # q
      <4>1. m_txMachineState'[r] = m_txMachineState[r]
        BY <1>1, <2>1, <3>1 DEF TypeOK
      <4> QED
        BY <1>2, <2>1, <4>1, OtherQueue DEF stopped
    <3>2. CASE r = q
      <4>1. DeviceOK(q)'
        BY <1>1, <1>2, <1>4, <2>1 DEF QueueOK, DeviceOK, Exceeds, config
      <4>2. LimitsOK(q)'
        BY <1>1, <1>2, <2>1 DEF QueueOK, LimitsOK, config, stopped
      <4>3. Served(q)' /\ HasRoom(q)'
        BY <1>1, <1>2, <2>1 DEF QueueOK, Served, HasRoom, WouldOverflow, Exceeds, config, stopped
      <4> QED
        BY <3>2, <4>1, <4>2, <4>3 DEF QueueOK
    <3> QED
      BY <3>1, <3>2
  <2> QED
    BY <2>2, <2>3 DEF IInv
<1>5. CASE queue[q] # <<>>
  <2>1. DequeueAndTransmit(q, queue[q], m_nBytes[q])
    BY <1>5 DEF TransmitComplete
  <2>2. Weighs(queue[q], m_nBytes[q]) /\ ~ Exceeds(Len(queue[q]), m_nBytes[q])
    BY <1>1 DEF QueueOK, DeviceOK
  <2>3. /\ DeviceOK(q)' /\ Served(q)'
        /\ m_nBytes'[q] + notify'[q] = m_nBytes[q]
        /\ ~ WouldOverflow(Len(queue[q]), m_nBytes[q])
             => ~ WouldOverflow(Len(queue'[q]), m_nBytes'[q])
        /\ queue' \in [TxQueues -> Seq(Packets)]
        /\ m_nBytes' \in [TxQueues -> Nat]
        /\ m_txMachineState' \in [TxQueues -> {"READY", "BUSY"}]
        /\ notify' \in [TxQueues -> 0 .. MaxFrame]
    BY <1>1, <1>2, <1>3, <1>5, <2>1, <2>2, DequeueOK
  <2>4. TypeOK'
    BY <1>1, <1>2, <2>3 DEF TypeOK, config, stopped
  <2>5. ASSUME NEW r \in TxQueues PROVE QueueOK(r)'
    <3>1. CASE r # q
      <4>1. /\ queue'[r] = queue[r] /\ m_nBytes'[r] = m_nBytes[r]
            /\ m_txMachineState'[r] = m_txMachineState[r] /\ notify'[r] = notify[r]
        BY <1>1, <2>1, <3>1 DEF TypeOK, DequeueAndTransmit
      <4> QED
        BY <1>2, <4>1, OtherQueue DEF stopped
    <3>2. CASE r = q
      <4>1. m_nBytes[q] + notify[q] = m_nBytes[q]
        BY <1>2, <1>3
      <4>2. LimitsOK(q)'
        BY <1>1, <1>2, <2>3, <4>1 DEF QueueOK, LimitsOK, config, stopped
      <4>3. HasRoom(q)'
        BY <1>1, <1>2, <2>3 DEF QueueOK, HasRoom, WouldOverflow, Exceeds, config, stopped
      <4> QED
        BY <2>3, <3>2, <4>2, <4>3 DEF QueueOK
    <3> QED
      BY <3>1, <3>2
  <2> QED
    BY <2>4, <2>5 DEF IInv
<1> QED
  BY <1>4, <1>5

(* The first half of a notification                                        *)
LEMMA NotifyOK ==
  ASSUME IInv, NEW q \in TxQueues, NotifyTransmittedBytes(q)
  PROVE  IInv'
<1>1. TypeOK /\ QueueOK(q) /\ waking = Nothing
  BY DEF IInv, NotifyTransmittedBytes, Idle
<1>2. /\ notify' = [notify EXCEPT ![q] = 0] /\ waking' = q
      /\ UNCHANGED <<config, m_stoppedByDevice, queue, m_nBytes, m_txMachineState, discarded>>
  BY DEF NotifyTransmittedBytes, past
<1>3. q # Nothing
  BY NothingAssumption
<1>4. m_nBytes[q] \in Nat /\ notify[q] \in Nat /\ m_queueLimits[q] \in QueueLimits
  BY <1>1, FrameSize DEF TypeOK
<1>5. /\ m_queueLimits' \in [TxQueues -> QueueLimits]
      /\ m_stoppedByQueueLimits' \in [TxQueues -> BOOLEAN]
      /\ \A r \in TxQueues \ {q} : /\ m_queueLimits'[r] = m_queueLimits[r]
                                   /\ m_stoppedByQueueLimits'[r] = m_stoppedByQueueLimits[r]
      /\ m_queueLimits'[q].limit <= MaxLimit
      /\ m_queueLimits'[q].adjLimit
           = Plus(m_queueLimits'[q].limit, m_queueLimits'[q].numCompleted)
      /\ q \in limited => InProgress(m_queueLimits'[q]) = m_nBytes[q]
      /\ m_stoppedByQueueLimits'[q] => q \in limited /\ Available(m_queueLimits'[q]) < 0
  <2>1. CASE q \notin limited
    <3>1. UNCHANGED <<m_queueLimits, m_stoppedByQueueLimits>>
      BY <2>1 DEF NotifyTransmittedBytes
    <3> QED
      BY <1>1, <2>1, <3>1 DEF TypeOK, QueueOK, LimitsOK
  <2>2. CASE q \in limited
    <3>1. PICK held \in BOOLEAN :
            m_queueLimits' =
              [m_queueLimits EXCEPT ![q] = Completed(m_queueLimits[q], notify[q], held)]
      BY <2>2 DEF NotifyTransmittedBytes
    <3> DEFINE new == Completed(m_queueLimits[q], notify[q], held)
    <3>2. InProgress(m_queueLimits[q]) = m_nBytes[q] + notify[q]
      BY <1>1, <2>2 DEF QueueOK, LimitsOK
    <3>3. notify[q] <= InProgress(m_queueLimits[q])
      BY <1>4, <3>2
    <3>4. /\ new \in QueueLimits
          /\ InProgress(new) = InProgress(m_queueLimits[q]) - notify[q]
          /\ new.limit <= MaxLimit
          /\ new.adjLimit = Plus(new.limit, new.numCompleted)
      BY <1>4, <3>3, CompletedCounts
    <3> HIDE DEF new
    <3>5. InProgress(new) = m_nBytes[q]
      BY <1>4, <3>2, <3>4
    <3>6. /\ m_queueLimits' \in [TxQueues -> QueueLimits]
          /\ m_queueLimits'[q] = new
          /\ \A r \in TxQueues \ {q} : m_queueLimits'[r] = m_queueLimits[r]
      BY <1>1, <3>1, <3>4 DEF TypeOK, new
    <3>7. \/ Available(new) < 0 /\ UNCHANGED m_stoppedByQueueLimits
          \/ m_stoppedByQueueLimits' = [m_stoppedByQueueLimits EXCEPT ![q] = FALSE]
      BY <2>2, <3>6 DEF NotifyTransmittedBytes
    <3>8. /\ m_stoppedByQueueLimits' \in [TxQueues -> BOOLEAN]
          /\ \A r \in TxQueues \ {q} : m_stoppedByQueueLimits'[r] = m_stoppedByQueueLimits[r]
          /\ m_stoppedByQueueLimits'[q] => Available(new) < 0
      BY <1>1, <3>7 DEF TypeOK
    <3> QED
      BY <2>2, <3>4, <3>5, <3>6, <3>8
  <2> QED
    BY <2>1, <2>2
<1>6. TypeOK'
  <2>1. notify' \in [TxQueues -> 0 .. MaxFrame]
    <3>1. 0 \in 0 .. MaxFrame
      BY FrameSize
    <3> QED
      BY <1>1, <1>2, <3>1 DEF TypeOK
  <2> QED
    BY <1>1, <1>2, <1>5, <2>1 DEF TypeOK, config
<1>7. ASSUME NEW r \in TxQueues PROVE QueueOK(r)'
  <2>1. CASE r # q
    <3>1. notify'[r] = notify[r] /\ waking # r
      BY <1>1, <1>2, <2>1, NothingAssumption DEF TypeOK
    <3> QED
      BY <1>2, <1>5, <2>1, <3>1, OtherQueue
  <2>2. CASE r = q
    <3>1. notify'[q] = 0
      BY <1>1, <1>2 DEF TypeOK
    <3>2. DeviceOK(q)'
      BY <1>1, <1>2, <3>1 DEF QueueOK, DeviceOK, Exceeds, config
    <3>3. LimitsOK(q)'
      <4>1. m_nBytes'[q] + notify'[q] = m_nBytes[q]
        BY <1>2, <1>4, <3>1
      <4> QED
        BY <1>2, <1>5, <4>1 DEF LimitsOK, config
    <3>4. Served(q)' /\ HasRoom(q)'
      BY <1>1, <1>2 DEF QueueOK, Served, HasRoom, WouldOverflow, Exceeds, config
    <3> QED
      BY <2>2, <3>2, <3>3, <3>4 DEF QueueOK
  <2> QED
    BY <2>1, <2>2
<1> QED
  BY <1>6, <1>7 DEF IInv

(* A packet the device takes                                               *)
LEMMA AcceptOK ==
  ASSUME IInv, NEW p \in Packets, ~ IsStopped(p.txq), DeviceAccepts(p),
         UNCHANGED <<config, waking>>
  PROVE  IInv'
<1>1. PICK q \in TxQueues : q = p.txq
  BY DEF Packets
<1> DEFINE n       == p.size + HeaderSize
           bytes   == m_nBytes[q] + n
           packets == Append(queue[q], p)
           old     == m_queueLimits[q]
           new     == IF q \in limited THEN Queued(old, n) ELSE old
<1>2. TypeOK /\ QueueOK(q)
  BY DEF IInv
<1>3. /\ n \in Nat /\ n # 0 /\ n <= MaxFrame /\ MaxFrame \in Nat
      /\ m_nBytes[q] \in Nat /\ notify[q] \in Nat /\ notify[q] <= MaxFrame
      /\ queue[q] \in Seq(Packets) /\ old \in QueueLimits
  BY <1>2, FrameSize DEF TypeOK
<1>4. bytes \in Nat
  BY <1>3
<1>5. packets \in Seq(Packets) /\ packets # <<>> /\ Len(packets) = Len(queue[q]) + 1
      /\ Head(packets) \in Packets
  BY <1>3
<1>6. Weighs(packets, bytes)
  <2>1. m_nBytes[q] + p.size + HeaderSize = bytes
    BY <1>3, FrameSize
  <2> QED
    BY <1>2, <1>3, <2>1, WeighsAppend DEF QueueOK, DeviceOK
<1>7. /\ ~ Exceeds(Len(packets), bytes)
      /\ m_queueLimits' = [m_queueLimits EXCEPT ![q] = new]
      /\ m_stoppedByQueueLimits' =
           [m_stoppedByQueueLimits EXCEPT ![q] = @ \/ (q \in limited /\ Available(new) < 0)]
      /\ m_stoppedByDevice' =
           [m_stoppedByDevice EXCEPT ![q] = @ \/ WouldOverflow(Len(packets), bytes)]
      /\ IF m_txMachineState[q] = "READY"
         THEN DequeueAndTransmit(q, packets, bytes)
         ELSE /\ queue' = [queue EXCEPT ![q] = packets]
              /\ m_nBytes' = [m_nBytes EXCEPT ![q] = bytes]
              /\ UNCHANGED <<m_txMachineState, notify>>
      /\ UNCHANGED discarded
  BY <1>1, <1>5 DEF DeviceAccepts, PacketEnqueued
<1> HIDE DEF n, bytes, packets, new
<1>8. bytes <= CapacityBytes(m_maxSize) /\ CapacityBytes(m_maxSize) + MaxFrame < Word
      /\ CapacityBytes(m_maxSize) \in Nat /\ Word \in Nat
  BY <1>2, <1>4, <1>5, <1>6, <1>7, BytesFit, CapacityType, WordSize
<1>9. /\ new \in QueueLimits
      /\ new.limit <= MaxLimit
      /\ new.adjLimit = Plus(new.limit, new.numCompleted)
      /\ q \in limited => InProgress(new) = bytes + notify[q]
  <2>1. CASE q \in limited
    <3>1. InProgress(old) = m_nBytes[q] + notify[q]
      BY <1>2, <2>1 DEF QueueOK, LimitsOK
    <3>2. InProgress(old) + n = bytes + notify[q]
      BY <1>3, <3>1 DEF bytes
    <3>3. InProgress(old) + n < Word
      BY <1>3, <1>4, <1>8, <3>2
    <3> QED
      BY <1>2, <1>3, <2>1, <3>2, <3>3, QueuedCounts DEF new, QueueOK, LimitsOK
  <2>2. CASE q \notin limited
    BY <1>2, <1>3, <2>2 DEF new, QueueOK, LimitsOK
  <2> QED
    BY <2>1, <2>2
<1>10. /\ queue' \in [TxQueues -> Seq(Packets)]
       /\ m_nBytes' \in [TxQueues -> Nat]
       /\ m_txMachineState' \in [TxQueues -> {"READY", "BUSY"}]
       /\ notify' \in [TxQueues -> 0 .. MaxFrame]
       /\ DeviceOK(q)' /\ Served(q)'
       /\ m_nBytes'[q] + notify'[q] = bytes + notify[q]
       /\ ~ WouldOverflow(Len(packets), bytes)
            => ~ WouldOverflow(Len(queue'[q]), m_nBytes'[q])
       /\ \A r \in TxQueues \ {q} :
            /\ queue'[r] = queue[r] /\ m_nBytes'[r] = m_nBytes[r]
            /\ m_txMachineState'[r] = m_txMachineState[r] /\ notify'[r] = notify[r]
  <2>1. CASE m_txMachineState[q] = "READY"
    <3>1. DequeueAndTransmit(q, packets, bytes)
      BY <1>7, <2>1
    <3>2. notify[q] = 0
      BY <1>2, <2>1 DEF QueueOK, DeviceOK
    <3>3. bytes + notify[q] = bytes
      BY <1>4, <3>2
    <3>4. \A r \in TxQueues \ {q} :
            /\ queue'[r] = queue[r] /\ m_nBytes'[r] = m_nBytes[r]
            /\ m_txMachineState'[r] = m_txMachineState[r] /\ notify'[r] = notify[r]
      BY <1>2, <3>1 DEF TypeOK, DequeueAndTransmit
    <3> QED
      BY <1>2, <1>4, <1>5, <1>6, <1>7, <3>1, <3>3, <3>4, DequeueOK
  <2>2. CASE m_txMachineState[q] # "READY"
    <3>1. /\ queue' = [queue EXCEPT ![q] = packets]
          /\ m_nBytes' = [m_nBytes EXCEPT ![q] = bytes]
          /\ UNCHANGED <<m_txMachineState, notify>>
      BY <1>7, <2>2
    <3>2. queue'[q] = packets /\ m_nBytes'[q] = bytes
      BY <1>2, <3>1 DEF TypeOK
    <3>3. Weighs(queue'[q], m_nBytes'[q]) /\ ~ Exceeds(Len(queue'[q]), m_nBytes'[q])
      BY <1>6, <1>7, <3>2
    <3>4. DeviceOK(q)'
      BY <2>2, <3>1, <3>3 DEF DeviceOK, Exceeds, config
    <3>5. Served(q)'
      BY <1>5, <3>2 DEF Served
    <3> QED
      BY <1>2, <1>4, <1>5, <3>1, <3>2, <3>4, <3>5 DEF TypeOK
  <2> QED
    BY <2>1, <2>2
<1>11. TypeOK'
  <2>1. /\ m_queueLimits' \in [TxQueues -> QueueLimits]
        /\ m_stoppedByQueueLimits' \in [TxQueues -> BOOLEAN]
        /\ m_stoppedByDevice' \in [TxQueues -> BOOLEAN]
    BY <1>2, <1>7, <1>9 DEF TypeOK
  <2> QED
    BY <1>2, <1>7, <1>10, <2>1 DEF TypeOK, config
<1>12. ASSUME NEW r \in TxQueues PROVE QueueOK(r)'
  <2>1. CASE r # q
    <3>1. /\ m_stoppedByDevice'[r] = m_stoppedByDevice[r]
          /\ m_stoppedByQueueLimits'[r] = m_stoppedByQueueLimits[r]
          /\ m_queueLimits'[r] = m_queueLimits[r]
      BY <1>2, <1>7, <2>1 DEF TypeOK
    <3> QED
      BY <1>10, <2>1, <3>1, OtherQueue
  <2>2. CASE r = q
    <3>1. m_queueLimits'[q] = new
      BY <1>2, <1>7 DEF TypeOK
    <3>2. m_stoppedByQueueLimits'[q] => q \in limited /\ Available(new) < 0
      BY <1>1, <1>2, <1>7 DEF TypeOK, IsStopped
    <3>3. LimitsOK(q)'
      BY <1>9, <1>10, <3>1, <3>2 DEF LimitsOK, config
    <3>4. ~ m_stoppedByDevice'[q] => ~ WouldOverflow(Len(packets), bytes)
      BY <1>2, <1>7 DEF TypeOK
    <3>5. HasRoom(q)'
      BY <1>10, <3>4 DEF HasRoom, WouldOverflow, Exceeds, config
    <3> QED
      BY <1>10, <2>2, <3>3, <3>5 DEF QueueOK
  <2> QED
    BY <2>1, <2>2
<1> QED
  BY <1>11, <1>12 DEF IInv

LEMMA StepOK == IInv /\ [Next]_vars => IInv'
<1> SUFFICES ASSUME IInv, [Next]_vars PROVE IInv'
  OBVIOUS
<1>1. CASE \E q \in m_txQueuesVector, size \in Sizes : Send(q, size)
  BY <1>1, DeviceAlone DEF Send
<1>2. CASE NoPacket
  BY <1>2, DeviceAlone DEF NoPacket, past
<1>3. CASE \E p \in Packets : Requeue(p)
  BY <1>3, DeviceAlone DEF Requeue, past
<1>4. CASE \E p \in Packets : Transmit(p)
  BY <1>4, AcceptOK, DiscardOK DEF Transmit
<1>5. CASE \E q \in m_txQueuesVector : NotifyTransmittedBytes(q)
  BY <1>5, NotifyOK DEF IInv, TypeOK
<1>6. CASE Wake
  BY <1>6, WakeOK
<1>7. CASE \E q \in m_txQueuesVector : TransmitComplete(q)
  BY <1>7, CompleteOK DEF IInv, TypeOK
<1>8. CASE UNCHANGED vars
  BY <1>8, DeviceAlone DEF vars, past
<1> QED
  BY <1>1, <1>2, <1>3, <1>4, <1>5, <1>6, <1>7, <1>8 DEF Next

LEMMA Invariance == Spec => []IInv
BY InitOK, StepOK, PTL DEF Spec
-----------------------------------------------------------------------------
(* The byte limits agree with the device about what is queued, for any     *)
(* sizes, and start over without losing count.                             *)
THEOREM LimitsAccount == Spec => []CompletionsAccounted
<1>1. IInv => CompletionsAccounted
  BY DEF IInv, TypeOK, QueueOK, LimitsOK, CompletionsAccounted
<1> QED
  BY <1>1, Invariance, PTL

(* Every stopped queue has an event of its own that looks whether to wake  *)
(* it.                                                                     *)
THEOREM StopsEnd == Spec => []StoppedIsServed
<1>1. ASSUME IInv, NEW q \in m_txQueuesVector, IsStopped(q)
      PROVE  \/ notify[q] # 0
             \/ waking = q
             \/ m_txMachineState[q] = "BUSY" /\ queue[q] # <<>>
  <2>1. TypeOK /\ q \in TxQueues /\ QueueOK(q)
    BY <1>1 DEF IInv, TypeOK
  <2>2. queue[q] # <<>> => m_txMachineState[q] = "BUSY"
    BY <2>1 DEF QueueOK, DeviceOK, TypeOK
  <2>3. CASE m_stoppedByDevice[q]
    BY <2>1, <2>2, <2>3 DEF QueueOK, Served
  <2>4. CASE m_stoppedByQueueLimits[q]
    <3>1. /\ q \in limited /\ Available(m_queueLimits[q]) < 0
          /\ m_queueLimits[q] \in QueueLimits
          /\ InProgress(m_queueLimits[q]) = m_nBytes[q] + notify[q]
          /\ m_nBytes[q] \in Nat /\ notify[q] \in Nat
      BY <2>1, <2>4, FrameSize DEF QueueOK, LimitsOK, TypeOK
    <3>2. ASSUME m_nBytes[q] = 0, notify[q] = 0 PROVE FALSE
      <4>1. InProgress(m_queueLimits[q]) = 0
        BY <3>1, <3>2
      <4>2. Available(m_queueLimits[q]) >= 0
        BY <2>1, <3>1, <4>1, NothingInProgress DEF QueueOK, LimitsOK
      <4>3. Available(m_queueLimits[q]) \in Int
        <5>1. m_queueLimits[q].adjLimit \in Words /\ m_queueLimits[q].numQueued \in Words
          BY <3>1 DEF QueueLimits
        <5>2. Minus(m_queueLimits[q].adjLimit, m_queueLimits[q].numQueued) \in Words
          BY <5>1, WordArithmetic
        <5> QED
          BY <5>2, WordSize DEF Available, Signed, Words
      <4> QED
        BY <3>1, <4>2, <4>3
    <3>3. queue[q] = <<>> => m_nBytes[q] = 0
      BY <2>1, WeighsBounds DEF QueueOK, DeviceOK, TypeOK
    <3> QED
      BY <2>2, <3>2, <3>3
  <2> QED
    BY <1>1, <2>3, <2>4 DEF IsStopped
<1>2. IInv => StoppedIsServed
  BY <1>1 DEF StoppedIsServed
<1> QED
  BY <1>2, Invariance, PTL

(* With no header in front of a packet, the room a queue is asked for is    *)
(* the largest that a packet takes.                                        *)
LEMMA NoneDiscardedStep ==
  ASSUME HeaderSize = 0, IInv, NoneDiscarded, [Next]_vars
  PROVE  NoneDiscarded'
<1>1. ASSUME NEW p \in Packets, Transmit(p) PROVE NoneDiscarded'
  <2>1. PICK q \in TxQueues : q = p.txq
    BY DEF Packets
  <2>2. /\ m_nBytes[q] \in Nat /\ Len(queue[q]) \in Nat
        /\ p.size \in Nat /\ p.size + HeaderSize <= MTU
        /\ ~ WouldOverflow(Len(queue[q]), m_nBytes[q])
    <3>1. TypeOK /\ QueueOK(q) /\ ~ m_stoppedByDevice[q]
      BY <1>1, <2>1 DEF IInv, Transmit, IsStopped
    <3>2. MaxFrame = MTU
      BY FrameSize DEF MaxFrame
    <3> QED
      BY <3>1, <3>2, FrameSize DEF TypeOK, QueueOK, HasRoom
  <2>3. ~ Exceeds(Len(queue[q]) + 1, m_nBytes[q] + p.size + HeaderSize)
    <3>1. m_maxSize.value \in Nat
      BY CapacityType DEF IInv
    <3> QED
      BY <2>2, <3>1, FrameSize DEF WouldOverflow, Exceeds
  <2> QED
    BY <1>1, <2>1, <2>3 DEF Transmit, DeviceAccepts, DeviceDiscards, NoneDiscarded
<1>2. CASE \E p \in Packets : Transmit(p)
  BY <1>1, <1>2
<1>3. CASE ~ \E p \in Packets : Transmit(p)
  BY <1>3
  DEF Next, vars, past, Send, NoPacket, Requeue, NotifyTransmittedBytes, Wake,
      TransmitComplete, NoneDiscarded
<1> QED
  BY <1>2, <1>3

(* A device that puts no header in front of a packet never drops one: the  *)
(* room its queue is asked for is the largest payload.                     *)
THEOREM NothingIsDropped == HeaderSize = 0 => (Spec => []NoneDiscarded)
<1> SUFFICES ASSUME HeaderSize = 0 PROVE Spec => []NoneDiscarded
  OBVIOUS
<1>1. Init => NoneDiscarded
  BY DEF Init, NoneDiscarded
<1>2. IInv /\ NoneDiscarded /\ [Next]_vars => NoneDiscarded'
  BY NoneDiscardedStep
<1> QED
  BY <1>1, <1>2, Invariance, PTL DEF Spec
-----------------------------------------------------------------------------
(***************************************************************************)
(* The identities of the packets for a queue.                              *)
(***************************************************************************)

LEMMA PacketFields == \A p \in Packets : p.id \in Nat /\ p.txq \in TxQueues
BY DiscAssumption DEF Packets

LEMMA ChosenStep ==
  ASSUME NEW q, NEW s \in Seq(Packets)
  PROVE  /\ Chosen(q, s) \in [0 .. Len(s) -> Seq(Nat)]
         /\ Chosen(q, s)[0] = <<>>
         /\ \A n \in 1 .. Len(s) :
              Chosen(q, s)[n] = IF s[n].txq = q THEN Append(Chosen(q, s)[n - 1], s[n].id)
                                ELSE Chosen(q, s)[n - 1]
<1> DEFINE G == [p \in Nat \X Seq(Nat) |->
                   IF p[1] \in 1 .. Len(s) /\ s[p[1]].txq = q
                   THEN Append(p[2], s[p[1]].id) ELSE p[2]]
           Step(f, n) == IF n = 0 THEN <<>>
                         ELSE IF s[n].txq = q THEN Append(f[n - 1], s[n].id)
                         ELSE f[n - 1]
           Rec(f) == f = [n \in 0 .. Len(s) |-> Step(f, n)]
<1>1. \A n \in Nat : \A t \in Seq(Nat) : G[<<n, t>>] \in Seq(Nat)
  <2> SUFFICES ASSUME NEW n \in Nat, NEW t \in Seq(Nat) PROVE G[<<n, t>>] \in Seq(Nat)
    OBVIOUS
  <2>1. n \in 1 .. Len(s) => s[n] \in Packets
    OBVIOUS
  <2>2. n \in 1 .. Len(s) => s[n].id \in Nat
    BY <2>1, PacketFields
  <2> QED
    BY <2>2
<1>2. \A n \in 1 .. Len(s), t \in Seq(Nat) :
         G[<<n, t>>] = IF s[n].txq = q THEN Append(t, s[n].id) ELSE t
  OBVIOUS
<1> HIDE DEF G
<1>3. Len(s) \in Nat /\ <<>> \in Seq(Nat)
  OBVIOUS
<1>4. PICK f \in [0 .. Len(s) -> Seq(Nat)] :
        f[0] = <<>> /\ \A n \in 1 .. Len(s) : f[n] = G[<<n, f[n - 1]>>]
  <2> DEFINE S == Seq(Nat)
             N == Len(s)
             a == <<>>
  <2>1. Leads(G, S)
    BY <1>1 DEF Leads
  <2>2. N \in Nat /\ a \in S
    BY <1>3
  <2> HIDE DEF S, N, a
  <2>3. \E f : Follows(f, S, a, G, N)
    BY <2>1, <2>2, RecursionUpTo
  <2> QED
    BY <2>3 DEF S, N, a, Follows
<1>5. \A n \in 1 .. Len(s) : f[n] = Step(f, n)
  <2> TAKE n \in 1 .. Len(s)
  <2>1. f[n - 1] \in Seq(Nat) /\ n # 0
    BY <1>3, <1>4
  <2>2. f[n] = G[<<n, f[n - 1]>>]
    BY <1>4
  <2> QED
    BY <1>2, <2>1, <2>2
<1>6. Rec(f)
  <2>1. f = [n \in 0 .. Len(s) |-> f[n]]
    BY <1>4
  <2>2. f[0] = Step(f, 0)
    BY <1>4
  <2>3. \A n \in 0 .. Len(s) : n = 0 \/ n \in 1 .. Len(s)
    BY <1>3
  <2> HIDE DEF Step
  <2>4. \A n \in 0 .. Len(s) : f[n] = Step(f, n)
    BY <1>5, <2>2, <2>3
  <2> QED
    BY <2>1, <2>4
<1> DEFINE g == Chosen(q, s)
<1>7. Rec(g)
  <2>1. g = CHOOSE h : Rec(h)
    BY DEF Chosen
  <2> HIDE DEF g, Rec
  <2> QED
    BY <1>6, <2>1
<1> HIDE DEF g
<1>8. g[0] = <<>> /\ \A n \in 1 .. Len(s) : g[n] = Step(g, n)
  <2> HIDE DEF Step
  <2>1. \A n \in 0 .. Len(s) : g[n] = Step(g, n)
    BY <1>7
  <2>2. 0 \in 0 .. Len(s) /\ \A n \in 1 .. Len(s) : n \in 0 .. Len(s)
    BY <1>3
  <2>3. Step(g, 0) = <<>>
    BY DEF Step
  <2> QED
    BY <2>1, <2>2, <2>3
<1>9. 0 .. Len(s) \subseteq {n \in 0 .. Len(s) : g[n] \in Seq(Nat)}
  <2> DEFINE T == {n \in 0 .. Len(s) : g[n] \in Seq(Nat)}
  <2>1. 0 \in T
    <3>1. 0 \in 0 .. Len(s)
      BY <1>3
    <3> QED
      BY <1>3, <1>8, <3>1
  <2>2. ASSUME NEW n \in 0 .. Len(s) - 1, n \in T PROVE n + 1 \in T
    <3>1. n + 1 \in 1 .. Len(s) /\ (n + 1) - 1 = n /\ n + 1 # 0
      BY <1>3
    <3>2. s[n + 1] \in Packets
      BY <3>1
    <3>3. s[n + 1].id \in Nat
      BY <3>2, PacketFields
    <3>4. g[n + 1] = Step(g, n + 1)
      BY <1>8, <3>1
    <3>5. g[n + 1] = IF s[n + 1].txq = q THEN Append(g[n], s[n + 1].id) ELSE g[n]
      BY <3>1, <3>4
    <3>6. g[n] \in Seq(Nat) /\ n + 1 \in 0 .. Len(s)
      BY <1>3, <2>2
    <3>7. g[n + 1] \in Seq(Nat)
      BY <3>3, <3>5, <3>6
    <3> QED
      BY <3>6, <3>7
  <2> HIDE DEF T
  <2>3. 0 .. Len(s) \subseteq T
    BY <1>3, <2>1, <2>2, InductionUpTo
  <2> QED
    BY <2>3 DEF T
<1>10. g \in [0 .. Len(s) -> Seq(Nat)]
  BY <1>7, <1>9
<1> QED
  <2>1. \A n \in 1 .. Len(s) : n # 0
    OBVIOUS
  <2> QED
    BY <1>8, <1>10, <2>1 DEF g

LEMMA OfType == ASSUME NEW q, NEW s \in Seq(Packets) PROVE Of(q, s) \in Seq(Nat)
<1>1. Len(s) \in 0 .. Len(s)
  OBVIOUS
<1> QED
  BY <1>1, ChosenStep DEF Of

LEMMA OfEmpty == ASSUME NEW q PROVE Of(q, <<>>) = <<>>
<1>1. <<>> \in Seq(Packets) /\ Len(<<>>) = 0
  OBVIOUS
<1> QED
  BY <1>1, ChosenStep DEF Of

LEMMA OfAppend ==
  ASSUME NEW q, NEW s \in Seq(Packets), NEW p \in Packets
  PROVE  Of(q, Append(s, p)) = IF p.txq = q THEN Append(Of(q, s), p.id) ELSE Of(q, s)
<1> DEFINE N == Len(s)
           t == Append(s, p)
           f == Chosen(q, s)
           g == Chosen(q, t)
<1>1. /\ N \in Nat /\ t \in Seq(Packets) /\ Len(t) = N + 1
      /\ t[N + 1] = p /\ \A n \in 1 .. N : t[n] = s[n]
  OBVIOUS
<1> HIDE DEF t
<1>2. f[0] = <<>> /\ \A n \in 1 .. N :
        f[n] = IF s[n].txq = q THEN Append(f[n - 1], s[n].id) ELSE f[n - 1]
  BY ChosenStep
<1>3. g[0] = <<>> /\ \A n \in 1 .. N + 1 :
        g[n] = IF t[n].txq = q THEN Append(g[n - 1], t[n].id) ELSE g[n - 1]
  BY <1>1, ChosenStep
<1> HIDE DEF f, g
<1> DEFINE T == {n \in 0 .. N : g[n] = f[n]}
<1>4. 0 \in T
  BY <1>1, <1>2, <1>3
<1>5. ASSUME NEW n \in 0 .. N - 1, n \in T PROVE n + 1 \in T
  <2>1. n + 1 \in 1 .. N /\ n + 1 \in 1 .. N + 1 /\ (n + 1) - 1 = n
    BY <1>1
  <2>2. t[n + 1] = s[n + 1]
    BY <1>1, <2>1
  <2> HIDE DEF N
  <2> QED
    BY <1>2, <1>3, <1>5, <2>1, <2>2
<1> HIDE DEF T
<1>6. 0 .. N \subseteq T
  BY <1>1, <1>4, <1>5, InductionUpTo
<1>7. g[N] = f[N]
  <2>1. N \in 0 .. N
    BY <1>1
  <2> QED
    BY <1>6, <2>1 DEF T
<1>8. g[N + 1] = IF p.txq = q THEN Append(g[N], p.id) ELSE g[N]
  <2>1. N + 1 \in 1 .. N + 1 /\ (N + 1) - 1 = N
    BY <1>1
  <2> QED
    BY <1>1, <1>3, <2>1
<1> QED
  BY <1>1, <1>7, <1>8 DEF Of, f, g, t

(* What p adds to the packets for q                                        *)
Its(q, p) == IF p.txq = q THEN <<p.id>> ELSE <<>>

LEMMA ItsType == ASSUME NEW q, NEW p \in Packets PROVE Its(q, p) \in Seq(Nat)
BY PacketFields DEF Its

LEMMA OfOne == ASSUME NEW q, NEW p \in Packets PROVE Of(q, <<p>>) = Its(q, p)
<1>1. <<>> \in Seq(Packets) /\ <<p>> = Append(<<>>, p)
  OBVIOUS
<1>2. Append(<<>>, p.id) = <<p.id>>
  OBVIOUS
<1>3. Of(q, Append(<<>>, p)) = IF p.txq = q THEN Append(<<>>, p.id) ELSE <<>>
  <2> DEFINE e == <<>>
  <2>1. e \in Seq(Packets) /\ Of(q, e) = <<>>
    BY <1>1, OfEmpty
  <2> HIDE DEF e
  <2>2. Of(q, Append(e, p)) = IF p.txq = q THEN Append(Of(q, e), p.id) ELSE Of(q, e)
    BY <2>1, OfAppend
  <2>3. Of(q, Append(e, p)) = IF p.txq = q THEN Append(<<>>, p.id) ELSE <<>>
    BY <2>1, <2>2
  <2> QED
    BY <2>3 DEF e
<1> QED
  <2> DEFINE one == <<p>>
  <2>1. one = Append(<<>>, p)
    BY <1>1
  <2> HIDE DEF one
  <2> QED
    BY <1>2, <1>3, <2>1 DEF Its, one

LEMMA OfLast ==
  ASSUME NEW q, NEW s \in Seq(Packets), NEW p \in Packets
  PROVE  Of(q, Append(s, p)) = Of(q, s) \o Its(q, p)
<1>1. Of(q, s) \in Seq(Nat) /\ p.id \in Nat
  BY OfType, PacketFields
<1> DEFINE o == Of(q, s)
<1>2. o \o <<>> = o /\ Append(o, p.id) = o \o <<p.id>>
  <2> HIDE DEF o
  <2> QED
    BY <1>1, AppendIsConcat, ConcatEmptySeq DEF o
<1> QED
  BY <1>2, OfAppend DEF Its

LEMMA OfFirst ==
  ASSUME NEW q, NEW s \in Seq(Packets), s # <<>>
  PROVE  Of(q, s) = Its(q, Head(s)) \o Of(q, Tail(s))
<1> DEFINE N == Len(s) - 1
           t == Tail(s)
           f == Chosen(q, s)
           g == Chosen(q, t)
           h == Its(q, Head(s))
<1>1. /\ N \in Nat /\ t \in Seq(Packets) /\ Len(t) = N /\ Len(s) = N + 1
      /\ Head(s) = s[1] /\ s[1] \in Packets /\ \A n \in 1 .. N : t[n] = s[n + 1]
  OBVIOUS
<1> HIDE DEF t
<1>2. f[0] = <<>> /\ \A n \in 1 .. N + 1 :
        f[n] = IF s[n].txq = q THEN Append(f[n - 1], s[n].id) ELSE f[n - 1]
  BY <1>1, ChosenStep
<1> HIDE DEF N
<1>3. /\ g \in [0 .. N -> Seq(Nat)]
      /\ g[0] = <<>> /\ \A n \in 1 .. N :
        g[n] = IF t[n].txq = q THEN Append(g[n - 1], t[n].id) ELSE g[n - 1]
  <2> HIDE DEF g
  <2>1. /\ g \in [0 .. Len(t) -> Seq(Nat)]
        /\ g[0] = <<>>
        /\ \A n \in 1 .. Len(t) :
             g[n] = IF t[n].txq = q THEN Append(g[n - 1], t[n].id) ELSE g[n - 1]
    <3>1. t \in Seq(Packets)
      BY <1>1
    <3> QED
      BY <3>1, ChosenStep DEF g
  <2>2. Len(t) = N
    BY <1>1
  <2> QED
    BY <2>1, <2>2
<1>4. h \in Seq(Nat)
  BY <1>1, ItsType
<1>5. f[1] = h
  <2>1. 1 \in 1 .. N + 1 /\ 1 - 1 = 0
    BY <1>1
  <2>2. f[1] = IF s[1].txq = q THEN Append(f[1 - 1], s[1].id) ELSE f[1 - 1]
    BY <1>2, <2>1
  <2>3. Append(<<>>, s[1].id) = <<s[1].id>>
    OBVIOUS
  <2> QED
    BY <1>1, <1>2, <2>1, <2>2, <2>3 DEF Its
<1> HIDE DEF f, g, h
<1> DEFINE T == {n \in 0 .. N : f[n + 1] = h \o g[n]}
<1>6. 0 \in T
  <2>1. h \o <<>> = h
    BY <1>4, ConcatEmptySeq
  <2>2. f[0 + 1] = h \o g[0]
    BY <1>3, <1>5, <2>1
  <2>3. 0 \in 0 .. N
    BY <1>1
  <2> QED
    BY <2>2, <2>3
<1>7. ASSUME NEW n \in 0 .. N - 1, n \in T PROVE n + 1 \in T
  <2>1. /\ n + 1 \in 1 .. N /\ (n + 1) + 1 \in 1 .. N + 1 /\ (n + 1) - 1 = n
        /\ ((n + 1) + 1) - 1 = n + 1 /\ n \in 0 .. N
    BY <1>1
  <2>2. t[n + 1] = s[(n + 1) + 1]
    BY <1>1, <2>1
  <2>3. t[n + 1].id \in Nat
    <3>1. t[n + 1] \in Packets
      BY <1>1, <2>1
    <3> QED
      BY <3>1 DEF Packets
  <2>4. /\ f[(n + 1) + 1] = IF t[n + 1].txq = q THEN Append(f[n + 1], t[n + 1].id) ELSE f[n + 1]
        /\ g[n + 1] = IF t[n + 1].txq = q THEN Append(g[n], t[n + 1].id) ELSE g[n]
    BY <1>2, <1>3, <2>1, <2>2
  <2>5. f[n + 1] = h \o g[n] /\ g[n] \in Seq(Nat)
    BY <1>3, <1>7, <2>1
  <2>6. \A x \in Nat, u \in Seq(Nat) : Append(h \o u, x) = h \o Append(u, x)
    <3> TAKE x \in Nat, u \in Seq(Nat)
    <3> DEFINE v == h \o u
               w == <<x>>
    <3>1. v \in Seq(Nat) /\ w \in Seq(Nat) /\ Append(u, x) = u \o w
      BY <1>4, AppendIsConcat
    <3>2. Append(v, x) = v \o w
      BY <3>1, AppendIsConcat
    <3> HIDE DEF w
    <3> DEFINE S == Nat
    <3>3. h \in Seq(S) /\ u \in Seq(S) /\ w \in Seq(S)
      BY <1>4, <3>1
    <3> HIDE DEF S
    <3>4. v \o w = h \o (u \o w)
      BY <3>3, ConcatAssociative
    <3> QED
      BY <3>1, <3>2, <3>4
  <2>7. f[(n + 1) + 1] = h \o g[n + 1]
    BY <2>3, <2>4, <2>5, <2>6
  <2> QED
    BY <2>1, <2>7
<1> HIDE DEF T
<1>8. 0 .. N \subseteq T
  BY <1>1, <1>6, <1>7, InductionUpTo
<1>9. f[N + 1] = h \o g[N]
  <2>1. N \in 0 .. N
    BY <1>1
  <2> QED
    BY <1>8, <2>1 DEF T
<1> QED
  BY <1>1, <1>9 DEF Of, f, g, h, t


(***************************************************************************)
(* The packets on their way, for each queue.                               *)
(***************************************************************************)
LEMMA IdsType == ASSUME NEW s \in Seq(Packets) PROVE Ids(s) \in Seq(Nat) /\ Len(Ids(s)) = Len(s)
<1>1. \A i \in 1 .. Len(s) : s[i].id \in Nat
  <2>1. \A i \in 1 .. Len(s) : s[i] \in Packets
    OBVIOUS
  <2> QED
    BY <2>1, PacketFields
<1>2. DOMAIN s = 1 .. Len(s)
  OBVIOUS
<1> QED
  BY <1>1, <1>2 DEF Ids

LEMMA IdsEmpty == Ids(<<>>) = <<>>
BY DEF Ids

LEMMA IdsLast ==
  ASSUME NEW s \in Seq(Packets), NEW p \in Packets
  PROVE  Ids(Append(s, p)) = Ids(s) \o <<p.id>>
<1> DEFINE t == Append(s, p)
           one == <<p.id>>
           r == Ids(s) \o one
<1>1. /\ t \in Seq(Packets) /\ Len(t) = Len(s) + 1 /\ DOMAIN t = 1 .. Len(s) + 1
      /\ DOMAIN s = 1 .. Len(s) /\ Len(s) \in Nat
      /\ t[Len(s) + 1] = p /\ \A i \in 1 .. Len(s) : t[i] = s[i]
  OBVIOUS
<1>2. one \in Seq(Nat) /\ Len(one) = 1 /\ one[1] = p.id
  BY PacketFields
<1> HIDE DEF t, one
<1>3. Ids(t) \in Seq(Nat) /\ Len(Ids(t)) = Len(s) + 1 /\ Ids(s) \in Seq(Nat) /\ Len(Ids(s)) = Len(s)
  BY <1>1, IdsType
<1>4. /\ \A i \in 1 .. Len(s) + 1 : Ids(t)[i] = t[i].id
      /\ \A i \in 1 .. Len(s) : Ids(s)[i] = s[i].id
  BY <1>1 DEF Ids
<1>5. /\ r \in Seq(Nat) /\ Len(r) = Len(s) + 1
      /\ \A i \in 1 .. Len(s) + 1 : r[i] = IF i <= Len(s) THEN Ids(s)[i] ELSE one[i - Len(s)]
  <2> DEFINE a == Ids(s)
             b == one
             S == Nat
  <2>1. a \in Seq(S) /\ b \in Seq(S)
    BY <1>2, <1>3
  <2> HIDE DEF a, b, S
  <2>2. /\ a \o b \in Seq(S) /\ Len(a \o b) = Len(a) + Len(b)
        /\ \A i \in 1 .. Len(a) + Len(b) : (a \o b)[i] = IF i <= Len(a) THEN a[i] ELSE b[i - Len(a)]
    BY <2>1, ConcatProperties
  <2>3. Len(a) = Len(s) /\ Len(b) = 1
    BY <1>2, <1>3 DEF a, b
  <2> QED
    BY <2>2, <2>3 DEF a, b, S
<1>6. ASSUME NEW i \in 1 .. Len(s) + 1 PROVE Ids(t)[i] = r[i]
  <2>1. CASE i = Len(s) + 1
    <3>1. ~(i <= Len(s)) /\ i - Len(s) = 1
      BY <1>1, <2>1
    <3> HIDE DEF r
    <3> QED
      BY <1>1, <1>2, <1>4, <1>5, <2>1, <3>1
  <2>2. CASE i # Len(s) + 1
    <3>1. i \in 1 .. Len(s) /\ i <= Len(s)
      BY <1>1, <2>2
    <3> HIDE DEF r
    <3> QED
      BY <1>1, <1>4, <1>5, <3>1
  <2> QED
    BY <2>1, <2>2
<1> DEFINE u == Ids(t)
<1>7. u = r
  <2> HIDE DEF u, r
  <2> QED
    BY <1>3, <1>5, <1>6, SeqEqual DEF u
<1> QED
  BY <1>7 DEF t, one

LEMMA IdsFirst ==
  ASSUME NEW s \in Seq(Packets), s # <<>>
  PROVE  Ids(s) = <<Head(s).id>> \o Ids(Tail(s))
<1> DEFINE t == Tail(s)
           one == <<Head(s).id>>
           r == one \o Ids(t)
           N == Len(s)
<1>1. /\ t \in Seq(Packets) /\ Len(t) = N - 1 /\ DOMAIN t = 1 .. N - 1
      /\ DOMAIN s = 1 .. N /\ N \in Nat \ {0} /\ Head(s) = s[1] /\ Head(s) \in Packets
      /\ \A i \in 1 .. N - 1 : t[i] = s[i + 1]
  OBVIOUS
<1>2. one \in Seq(Nat) /\ Len(one) = 1 /\ one[1] = s[1].id
  BY <1>1, PacketFields
<1> HIDE DEF t, one
<1>3. Ids(t) \in Seq(Nat) /\ Len(Ids(t)) = N - 1 /\ Ids(s) \in Seq(Nat) /\ Len(Ids(s)) = N
  BY <1>1, IdsType
<1>4. /\ \A i \in 1 .. N - 1 : Ids(t)[i] = t[i].id
      /\ \A i \in 1 .. N : Ids(s)[i] = s[i].id
  BY <1>1 DEF Ids
<1> HIDE DEF N
<1>5. /\ r \in Seq(Nat) /\ Len(r) = 1 + (N - 1)
      /\ \A i \in 1 .. 1 + (N - 1) : r[i] = IF i <= 1 THEN one[i] ELSE Ids(t)[i - 1]
  <2> DEFINE a == one
             b == Ids(t)
             S == Nat
  <2>1. a \in Seq(S) /\ b \in Seq(S)
    BY <1>2, <1>3
  <2> HIDE DEF a, b, S
  <2>2. /\ a \o b \in Seq(S) /\ Len(a \o b) = Len(a) + Len(b)
        /\ \A i \in 1 .. Len(a) + Len(b) : (a \o b)[i] = IF i <= Len(a) THEN a[i] ELSE b[i - Len(a)]
    BY <2>1, ConcatProperties
  <2>3. Len(a) = 1 /\ Len(b) = N - 1
    BY <1>2, <1>3 DEF a, b
  <2> QED
    BY <2>2, <2>3 DEF a, b, S
<1>6. ASSUME NEW i \in 1 .. N PROVE Ids(s)[i] = r[i]
  <2> HIDE DEF r
  <2>0. i \in 1 .. 1 + (N - 1)
    BY <1>1
  <2>1. CASE i = 1
    <3>1. r[i] = one[i]
      BY <1>5, <2>0, <2>1
    <3> QED
      BY <1>2, <1>4, <2>1, <3>1
  <2>2. CASE i # 1
    <3>1. i - 1 \in 1 .. N - 1 /\ ~(i <= 1) /\ (i - 1) + 1 = i
      BY <1>1, <2>2
    <3>2. r[i] = Ids(t)[i - 1]
      BY <1>5, <2>0, <3>1
    <3>3. Ids(t)[i - 1] = t[i - 1].id /\ t[i - 1] = s[i]
      BY <1>1, <1>4, <3>1
    <3> QED
      BY <1>4, <3>2, <3>3
  <2> QED
    BY <2>1, <2>2
<1> DEFINE u == Ids(s)
<1>7. u = r
  <2>1. Len(u) = Len(r) /\ Len(u) = N
    BY <1>1, <1>3, <1>5
  <2> HIDE DEF u, r
  <2> QED
    BY <1>3, <1>5, <1>6, <2>1, SeqEqual DEF u
<1> QED
  BY <1>7 DEF t, one

(* Sequences of identities one after the other                             *)
LEMMA InARow ==
  ASSUME NEW a \in Seq(Nat), NEW b \in Seq(Nat), NEW c \in Seq(Nat)
  PROVE  (a \o b) \o c = a \o (b \o c) /\ a \o b \in Seq(Nat)
<1> DEFINE S == Nat
<1>1. a \in Seq(S) /\ b \in Seq(S) /\ c \in Seq(S)
  OBVIOUS
<1> HIDE DEF S
<1>2. (a \o b) \o c = a \o (b \o c)
  BY <1>1, ConcatAssociative
<1>3. a \o b \in Seq(S)
  BY <1>1, ConcatProperties
<1> QED
  BY <1>2, <1>3 DEF S

(* What has left the queue disc for q, and what has not                    *)
Gone(q) == transmitted[q] \o Ids(queue[q])

Waiting(q) == Of(q, m_requeued) \o Of(q, disc)

DiscOK ==
    /\ disc \in Seq(Packets)
    /\ m_requeued \in Seq(Packets)
    /\ m_requeued = <<>> \/ \E p \in Packets : m_requeued = <<p>>
    /\ accepted \in [TxQueues -> Seq(Nat)]
    /\ transmitted \in [TxQueues -> Seq(Nat)]
    /\ sent \in 0 .. MaxPackets

OrderOK(q) == Gone(q) \o Waiting(q) = accepted[q]

OInv == IInv /\ NoneDiscarded /\ DiscOK /\ \A q \in TxQueues : OrderOK(q)

LEMMA GoneType ==
  ASSUME TypeOK, DiscOK, NEW q \in TxQueues
  PROVE  Gone(q) \in Seq(Nat)
<1>1. transmitted[q] \in Seq(Nat) /\ Ids(queue[q]) \in Seq(Nat)
  BY IdsType DEF TypeOK, DiscOK
<1> QED
  BY <1>1, InARow DEF Gone

(* The packet that DequeuePacket returns is the first that waits.          *)
LEMMA NextIsFirst ==
  ASSUME DiscOK, NEW p \in Packets, NextPacket(p), NEW q
  PROVE  /\ DiscAfter \in Seq(Packets)
         /\ Waiting(q) = Its(q, p) \o Of(q, DiscAfter)
<1>1. CASE m_requeued # <<>>
  <2>1. m_requeued = <<p>>
    <3>1. PICK r \in Packets : m_requeued = <<r>>
      BY <1>1 DEF DiscOK
    <3>2. p = m_requeued[1]
      BY <1>1 DEF NextPacket
    <3> QED
      BY <3>1, <3>2
  <2>2. DiscAfter = disc
    BY <1>1 DEF DiscAfter
  <2> QED
    BY <2>1, <2>2, OfOne DEF Waiting, DiscOK
<1>2. CASE m_requeued = <<>>
  <2>1. disc # <<>> /\ p = Head(disc) /\ DiscAfter = Tail(disc) /\ disc \in Seq(Packets)
    BY <1>2 DEF NextPacket, DiscAfter, DiscOK
  <2>2. DiscAfter \in Seq(Packets)
    BY <2>1
  <2>3. Of(q, m_requeued) = <<>>
    BY <1>2, OfEmpty
  <2>4. Of(q, disc) \in Seq(Nat)
    BY <2>1, OfType
  <2> DEFINE o == Of(q, disc)
  <2>5. <<>> \o o = o
    <3> HIDE DEF o
    <3> QED
      BY <2>4, ConcatEmptySeq DEF o
  <2>6. Waiting(q) = o
    BY <2>3, <2>5 DEF Waiting
  <2> QED
    BY <2>1, <2>2, <2>6, OfFirst
<1> QED
  BY <1>1, <1>2

(* A packet that the device begins to transmit stays where it was in the   *)
(* row.                                                                    *)
LEMMA DequeueKeepsRow ==
  ASSUME TypeOK, DiscOK, NEW q \in TxQueues, NEW packets \in Seq(Packets), packets # <<>>,
         NEW bytes, DequeueAndTransmit(q, packets, bytes)
  PROVE  /\ transmitted' \in [TxQueues -> Seq(Nat)]
         /\ Gone(q)' = transmitted[q] \o Ids(packets)
         /\ \A r \in TxQueues \ {q} : Gone(r)' = Gone(r)
<1> DEFINE one == <<Head(packets).id>>
           t == transmitted[q]
<1>1. Head(packets) \in Packets /\ Tail(packets) \in Seq(Packets)
  OBVIOUS
<1>2. Head(packets).id \in Nat
  BY <1>1, PacketFields
<1>3. t \in Seq(Nat) /\ one \in Seq(Nat) /\ Ids(Tail(packets)) \in Seq(Nat)
  <2>1. t \in Seq(Nat)
    BY DEF DiscOK
  <2>2. one \in Seq(Nat)
    BY <1>2
  <2>3. Ids(Tail(packets)) \in Seq(Nat)
    BY <1>1, IdsType
  <2> HIDE DEF t, one
  <2> QED
    BY <2>1, <2>2, <2>3
<1>4. /\ transmitted' = [transmitted EXCEPT ![q] = Append(t, Head(packets).id)]
      /\ queue' = [queue EXCEPT ![q] = Tail(packets)]
  BY DEF DequeueAndTransmit
<1>5. Append(t, Head(packets).id) = t \o one
  <2> HIDE DEF t
  <2> QED
    BY <1>2, <1>3, AppendIsConcat
<1> HIDE DEF t, one
<1>6. t \o one \in Seq(Nat)
  BY <1>3, InARow
<1>7. /\ transmitted' \in [TxQueues -> Seq(Nat)]
      /\ transmitted'[q] = t \o one /\ queue'[q] = Tail(packets)
      /\ \A r \in TxQueues \ {q} : transmitted'[r] = transmitted[r] /\ queue'[r] = queue[r]
  BY <1>4, <1>5, <1>6 DEF DiscOK, TypeOK
<1>8. Ids(packets) = one \o Ids(Tail(packets))
  BY IdsFirst DEF one
<1>9. (t \o one) \o Ids(Tail(packets)) = t \o (one \o Ids(Tail(packets)))
  BY <1>3, InARow
<1>10. Gone(q)' = transmitted[q] \o Ids(packets)
  BY <1>7, <1>8, <1>9 DEF Gone, t, Ids
<1> QED
  BY <1>7, <1>10 DEF Gone, Ids

(* A packet that the device takes comes behind those it has.               *)
LEMMA AcceptAddsLast ==
  ASSUME TypeOK, DiscOK, NEW p \in Packets, DeviceAccepts(p), NEW q \in TxQueues
  PROVE  /\ transmitted' \in [TxQueues -> Seq(Nat)]
         /\ Gone(q)' = Gone(q) \o Its(q, p)
<1> DEFINE k == p.txq
           packets == Append(queue[k], p)
           one == <<p.id>>
<1>1. k \in TxQueues /\ p.id \in Nat
  BY PacketFields
<1>2. /\ queue[k] \in Seq(Packets) /\ packets \in Seq(Packets) /\ packets # <<>>
      /\ transmitted[k] \in Seq(Nat) /\ one \in Seq(Nat)
  <2>1. queue[k] \in Seq(Packets) /\ transmitted[k] \in Seq(Nat)
    BY <1>1 DEF TypeOK, DiscOK
  <2> HIDE DEF k
  <2> QED
    BY <1>1, <2>1
<1>3. Ids(packets) = Ids(queue[k]) \o one /\ Ids(queue[k]) \in Seq(Nat)
  BY <1>2, IdsLast, IdsType
<1>4. /\ transmitted' \in [TxQueues -> Seq(Nat)]
      /\ Gone(k)' = transmitted[k] \o Ids(packets)
      /\ \A r \in TxQueues \ {k} : Gone(r)' = Gone(r)
  <2>1. CASE m_txMachineState[k] = "READY"
    <3>1. DequeueAndTransmit(k, packets, m_nBytes[k] + (p.size + HeaderSize))
      BY <2>1 DEF DeviceAccepts
    <3> HIDE DEF k, packets
    <3> QED
      BY <1>1, <1>2, <3>1, DequeueKeepsRow
  <2>2. CASE m_txMachineState[k] # "READY"
    <3>1. queue' = [queue EXCEPT ![k] = packets] /\ transmitted' = transmitted
      BY <2>2 DEF DeviceAccepts
    <3>2. queue'[k] = packets /\ \A r \in TxQueues \ {k} : queue'[r] = queue[r]
      BY <1>1, <3>1 DEF TypeOK
    <3>3. transmitted' \in [TxQueues -> Seq(Nat)]
      BY <3>1 DEF DiscOK
    <3> HIDE DEF k, packets
    <3>4. Gone(k)' = transmitted[k] \o Ids(packets)
      BY <3>1, <3>2 DEF Gone, Ids
    <3>5. \A r \in TxQueues \ {k} : Gone(r)' = Gone(r)
      BY <3>1, <3>2 DEF Gone, Ids
    <3> QED
      BY <3>3, <3>4, <3>5
  <2> QED
    BY <2>1, <2>2
<1>5. Gone(k)' = Gone(k) \o one
  <2> DEFINE a == transmitted[k]
             b == Ids(queue[k])
  <2>1. a \in Seq(Nat) /\ b \in Seq(Nat) /\ one \in Seq(Nat)
    BY <1>2, <1>3
  <2>2. Gone(k) = a \o b /\ Gone(k)' = a \o (b \o one)
    BY <1>3, <1>4 DEF Gone
  <2> HIDE DEF a, b, k, one
  <2>3. (a \o b) \o one = a \o (b \o one)
    BY <2>1, InARow
  <2> QED
    BY <2>2, <2>3
<1>6. CASE q = k
  BY <1>4, <1>5, <1>6 DEF Its
<1>7. CASE q # k
  <2> DEFINE g == Gone(q)
  <2>1. Its(q, p) = <<>>
    BY <1>7 DEF Its
  <2>2. g \in Seq(Nat)
    BY GoneType
  <2>3. g \o <<>> = g
    <3> HIDE DEF g
    <3> QED
      BY <2>2, ConcatEmptySeq
  <2>4. Gone(q)' = Gone(q)
    BY <1>4, <1>7
  <2> QED
    BY <1>4, <2>1, <2>3, <2>4
<1> QED
  BY <1>6, <1>7

(* A packet sent comes last of those that wait.                            *)
LEMMA SendKeepsOrder ==
  ASSUME OInv, NEW k \in TxQueues, NEW size \in Sizes, Send(k, size)
  PROVE  DiscOK' /\ \A q \in TxQueues : OrderOK(q)'
<1> DEFINE p == [id |-> sent + 1, txq |-> k, size |-> size]
<1>1. TypeOK /\ DiscOK /\ sent \in Nat /\ MaxPackets \in Nat
  BY DiscAssumption DEF OInv, IInv, DiscOK
<1>2. sent < MaxPackets /\ sent' = sent + 1
  BY DEF Send
<1>3. p \in Packets /\ p.txq = k /\ p.id \in Nat
  BY <1>1, <1>2 DEF Packets
<1>4. UNCHANGED <<queue, transmitted, m_requeued>>
  BY DEF Send, link
<1>5. \/ disc' = Append(disc, p) /\ accepted' = [accepted EXCEPT ![k] = Append(@, p.id)]
      \/ UNCHANGED <<disc, accepted>>
  BY DEF Send
<1> HIDE DEF p
<1>6. CASE UNCHANGED <<disc, accepted>>
  <2>1. DiscOK'
    BY <1>1, <1>2, <1>4, <1>6 DEF DiscOK
  <2>2. ASSUME NEW q \in TxQueues PROVE OrderOK(q)'
    <3>1. OrderOK(q)
      BY DEF OInv
    <3> QED
      BY <1>4, <1>6, <3>1 DEF OrderOK, Gone, Waiting
  <2> QED
    BY <2>1, <2>2
<1>7. CASE disc' = Append(disc, p) /\ accepted' = [accepted EXCEPT ![k] = Append(@, p.id)]
  <2>1. DiscOK'
    <3>1. disc' \in Seq(Packets)
      BY <1>1, <1>3, <1>7 DEF DiscOK
    <3>2. accepted' \in [TxQueues -> Seq(Nat)]
      <4>1. Append(accepted[k], p.id) \in Seq(Nat)
        BY <1>1, <1>3 DEF DiscOK
      <4> QED
        BY <1>1, <1>7, <4>1 DEF DiscOK
    <3>3. sent' \in 0 .. MaxPackets
      BY <1>1, <1>2
    <3> QED
      BY <1>1, <1>4, <3>1, <3>2, <3>3 DEF DiscOK
  <2>2. ASSUME NEW q \in TxQueues PROVE OrderOK(q)'
    <3> DEFINE g == Gone(q)
               o == Of(q, m_requeued)
               d == Of(q, disc)
               i == Its(q, p)
               a == accepted[q]
    <3>1. /\ g \in Seq(Nat) /\ o \in Seq(Nat) /\ d \in Seq(Nat) /\ i \in Seq(Nat)
          /\ a \in Seq(Nat)
      BY <1>1, <1>3, GoneType, OfType, ItsType DEF DiscOK
    <3>2. g \o (o \o d) = a
      BY DEF OInv, OrderOK, Waiting
    <3>3. accepted'[q] = a \o i
      <4>1. CASE q = k
        <5>1. accepted'[q] = Append(a, p.id)
          BY <1>1, <1>7, <4>1 DEF DiscOK
        <5>2. i = <<p.id>>
          BY <1>3, <4>1 DEF Its
        <5> HIDE DEF a
        <5>3. Append(a, p.id) = a \o <<p.id>>
          BY <1>3, <3>1, AppendIsConcat
        <5> QED
          BY <5>1, <5>2, <5>3
      <4>2. CASE q # k
        <5>1. accepted'[q] = a
          BY <1>1, <1>7, <4>2 DEF DiscOK
        <5>2. i = <<>>
          BY <1>3, <4>2 DEF Its
        <5> HIDE DEF a
        <5>3. a \o <<>> = a
          BY <3>1, ConcatEmptySeq
        <5> QED
          BY <5>1, <5>2, <5>3
      <4> QED
        BY <4>1, <4>2
    <3>4. Gone(q)' = g
      BY <1>4 DEF Gone
    <3>5. Waiting(q)' = o \o (d \o i)
      <4>1. Of(q, Append(disc, p)) = d \o i
        BY <1>1, <1>3, OfLast DEF DiscOK
      <4>2. Waiting(q)' = o \o Of(q, Append(disc, p))
        BY <1>4, <1>7 DEF Waiting
      <4> HIDE DEF d, i, o
      <4> QED
        BY <4>1, <4>2
    <3> HIDE DEF g, o, d, i, a
    <3>6. (o \o d) \o i = o \o (d \o i)
      <4>1. o \in Seq(Nat) /\ d \in Seq(Nat) /\ i \in Seq(Nat)
        BY <3>1
      <4> QED
        BY <4>1, InARow
    <3>7. o \o d \in Seq(Nat)
      BY <3>1, InARow
    <3>8. (g \o (o \o d)) \o i = g \o ((o \o d) \o i)
      <4> DEFINE w == o \o d
      <4>1. g \in Seq(Nat) /\ w \in Seq(Nat) /\ i \in Seq(Nat)
        BY <3>1, <3>7
      <4> HIDE DEF w
      <4>2. (g \o w) \o i = g \o (w \o i)
        BY <4>1, InARow
      <4> QED
        BY <4>2 DEF w
    <3> QED
      BY <3>2, <3>3, <3>4, <3>5, <3>6, <3>8 DEF OrderOK
  <2> QED
    BY <2>1, <2>2
<1> QED
  BY <1>5, <1>6, <1>7

LEMMA RequeueKeepsOrder ==
  ASSUME OInv, NEW p \in Packets, Requeue(p)
  PROVE  DiscOK' /\ \A q \in TxQueues : OrderOK(q)'
<1>1. DiscOK /\ NextPacket(p)
  BY DEF OInv, Requeue
<1>2. /\ m_requeued' = <<p>> /\ disc' = DiscAfter
      /\ UNCHANGED <<queue, transmitted, accepted, sent>>
  BY DEF Requeue, link, past
<1>3. DiscAfter \in Seq(Packets)
  BY <1>1, NextIsFirst
<1>4. DiscOK'
  <2>1. m_requeued' \in Seq(Packets)
    BY <1>2
  <2> QED
    BY <1>1, <1>2, <1>3, <2>1 DEF DiscOK
<1>5. ASSUME NEW q \in TxQueues PROVE OrderOK(q)'
  <2>1. OrderOK(q)
    BY DEF OInv
  <2>2. Waiting(q) = Its(q, p) \o Of(q, DiscAfter)
    BY <1>1, NextIsFirst
  <2>3. Waiting(q)' = Of(q, <<p>>) \o Of(q, DiscAfter)
    BY <1>2 DEF Waiting
  <2>4. Waiting(q)' = Waiting(q)
    BY <2>2, <2>3, OfOne
  <2> QED
    BY <1>2, <2>1, <2>4 DEF OrderOK, Gone
<1> QED
  BY <1>4, <1>5

LEMMA TransmitKeepsOrder ==
  ASSUME OInv, NEW p \in Packets, Transmit(p), NoneDiscarded'
  PROVE  DiscOK' /\ \A q \in TxQueues : OrderOK(q)'
<1>1. TypeOK /\ DiscOK /\ NextPacket(p)
  BY DEF OInv, IInv, Transmit
<1>2. m_requeued' = <<>> /\ disc' = DiscAfter /\ UNCHANGED <<accepted, sent>>
  BY DEF Transmit
<1>3. DeviceAccepts(p)
  BY DEF Transmit, DeviceDiscards, NoneDiscarded
<1>4. DiscAfter \in Seq(Packets)
  BY <1>1, NextIsFirst
<1>5. transmitted' \in [TxQueues -> Seq(Nat)]
  <2>1. p.txq \in TxQueues
    BY PacketFields
  <2> QED
    BY <1>1, <1>3, <2>1, AcceptAddsLast
<1>6. DiscOK'
  BY <1>1, <1>2, <1>4, <1>5 DEF DiscOK
<1>7. ASSUME NEW q \in TxQueues PROVE OrderOK(q)'
  <2> DEFINE g == Gone(q)
             i == Its(q, p)
             d == Of(q, DiscAfter)
  <2>1. g \in Seq(Nat) /\ i \in Seq(Nat) /\ d \in Seq(Nat)
    BY <1>1, <1>4, GoneType, ItsType, OfType
  <2>2. g \o (i \o d) = accepted[q]
    BY <1>1, NextIsFirst DEF OInv, OrderOK
  <2>3. Gone(q)' = g \o i
    BY <1>1, <1>3, AcceptAddsLast
  <2>4. Waiting(q)' = <<>> \o d
    BY <1>2, OfEmpty DEF Waiting
  <2> HIDE DEF g, i, d
  <2>5. <<>> \o d = d
    BY <2>1, ConcatEmptySeq
  <2>6. (g \o i) \o d = g \o (i \o d)
    BY <2>1, InARow
  <2> QED
    BY <1>2, <2>2, <2>3, <2>4, <2>5, <2>6 DEF OrderOK
<1> QED
  BY <1>6, <1>7

LEMMA CompleteKeepsOrder ==
  ASSUME OInv, NEW k \in TxQueues, TransmitComplete(k)
  PROVE  DiscOK' /\ \A q \in TxQueues : OrderOK(q)'
<1>1. TypeOK /\ DiscOK
  BY DEF OInv, IInv
<1>2. UNCHANGED <<m_requeued, disc, accepted, sent>>
  BY DEF TransmitComplete, backlog, past
<1>3. transmitted' \in [TxQueues -> Seq(Nat)] /\ \A q \in TxQueues : Gone(q)' = Gone(q)
  <2>1. CASE queue[k] = <<>>
    <3>1. UNCHANGED <<queue, transmitted>>
      BY <2>1 DEF TransmitComplete, DequeueAndTransmit
    <3> QED
      BY <1>1, <3>1 DEF Gone, DiscOK
  <2>2. CASE queue[k] # <<>>
    <3>1. DequeueAndTransmit(k, queue[k], m_nBytes[k])
      BY <2>2 DEF TransmitComplete
    <3>2. queue[k] \in Seq(Packets)
      BY <1>1 DEF TypeOK
    <3>3. /\ transmitted' \in [TxQueues -> Seq(Nat)]
          /\ Gone(k)' = transmitted[k] \o Ids(queue[k])
          /\ \A r \in TxQueues \ {k} : Gone(r)' = Gone(r)
      BY <1>1, <2>2, <3>1, <3>2, DequeueKeepsRow
    <3> QED
      BY <3>3 DEF Gone
  <2> QED
    BY <2>1, <2>2
<1> QED
  BY <1>1, <1>2, <1>3 DEF OInv, DiscOK, OrderOK, Waiting

LEMMA OrderStep ==
  ASSUME OInv, [Next]_vars, NoneDiscarded'
  PROVE  DiscOK' /\ \A q \in TxQueues : OrderOK(q)'
<1>1. CASE \E q \in m_txQueuesVector, size \in Sizes : Send(q, size)
  BY <1>1, SendKeepsOrder DEF OInv, IInv, TypeOK
<1>2. CASE \E p \in Packets : Requeue(p)
  BY <1>2, RequeueKeepsOrder
<1>3. CASE \E p \in Packets : Transmit(p)
  BY <1>3, TransmitKeepsOrder
<1>4. CASE \E q \in m_txQueuesVector : TransmitComplete(q)
  BY <1>4, CompleteKeepsOrder DEF OInv, IInv, TypeOK
<1>5. ASSUME UNCHANGED <<disc, m_requeued, queue, transmitted, accepted, sent>>
      PROVE  DiscOK' /\ \A q \in TxQueues : OrderOK(q)'
  BY <1>5 DEF OInv, DiscOK, OrderOK, Gone, Waiting
<1>6. CASE NoPacket \/ Wake \/ UNCHANGED vars
  <2>1. UNCHANGED <<disc, m_requeued, queue, transmitted, accepted, sent>>
    BY <1>6 DEF NoPacket, Wake, vars, backlog, link, past
  <2> QED
    BY <1>5, <2>1
<1>7. CASE \E q \in m_txQueuesVector : NotifyTransmittedBytes(q)
  <2>1. UNCHANGED <<disc, m_requeued, queue, transmitted, accepted, sent>>
    BY <1>7 DEF NotifyTransmittedBytes, backlog, past
  <2> QED
    BY <1>5, <2>1
<1> QED
  BY <1>1, <1>2, <1>3, <1>4, <1>6, <1>7 DEF Next

(* Once a packet has been dropped, one has been dropped.                   *)
LEMMA DiscardedStays == ASSUME IInv, [Next]_vars, NoneDiscarded' PROVE NoneDiscarded
<1>1. ASSUME NEW p \in Packets, Transmit(p) PROVE NoneDiscarded
  BY <1>1 DEF Transmit, DeviceAccepts, DeviceDiscards, NoneDiscarded
<1>2. CASE \E p \in Packets : Transmit(p)
  BY <1>1, <1>2
<1>3. CASE ~ \E p \in Packets : Transmit(p)
  BY <1>3
  DEF Next, vars, past, Send, NoPacket, Requeue, NotifyTransmittedBytes, Wake,
      TransmitComplete, NoneDiscarded
<1> QED
  BY <1>2, <1>3

(* As long as the device has not dropped a packet the packets of each      *)
(* queue leave in the order in which the disc accepted them, whatever the  *)
(* header, the sizes and the limits.                                       *)
THEOREM PacketsStayInOrder == Spec => [](NoneDiscarded => InOrder)
<1> DEFINE Inv == IInv /\ (NoneDiscarded => OInv)
<1>1. Init => Inv
  <2> SUFFICES ASSUME Init PROVE Inv
    OBVIOUS
  <2>1. IInv /\ NoneDiscarded
    BY InitOK DEF Init, NoneDiscarded
  <2>2. /\ disc = <<>> /\ m_requeued = <<>> /\ sent = 0
        /\ \A q \in TxQueues : /\ transmitted[q] = <<>> /\ queue[q] = <<>> /\ accepted[q] = <<>>
        /\ transmitted \in [TxQueues -> Seq(Nat)] /\ accepted \in [TxQueues -> Seq(Nat)]
    BY DEF Init
  <2>3. DiscOK
    BY <2>2, DiscAssumption DEF DiscOK
  <2>4. ASSUME NEW q \in TxQueues PROVE OrderOK(q)
    <3>1. Gone(q) = <<>> \o <<>>
      BY <2>2, IdsEmpty DEF Gone
    <3>2. Waiting(q) = <<>> \o <<>>
      BY <2>2, OfEmpty DEF Waiting
    <3>3. <<>> \o <<>> = <<>>
      OBVIOUS
    <3> QED
      BY <2>2, <3>1, <3>2, <3>3 DEF OrderOK
  <2> QED
    BY <2>1, <2>3, <2>4 DEF OInv
<1>2. Inv /\ [Next]_vars => Inv'
  <2> SUFFICES ASSUME Inv, [Next]_vars PROVE Inv'
    OBVIOUS
  <2>1. IInv'
    BY StepOK
  <2>2. ASSUME NoneDiscarded' PROVE OInv'
    <3>1. OInv
      BY <2>2, DiscardedStays
    <3> QED
      BY <2>1, <2>2, <3>1, OrderStep DEF OInv
  <2> QED
    BY <2>1, <2>2
<1>3. Inv /\ NoneDiscarded => InOrder
  <2> SUFFICES ASSUME OInv, NEW q \in m_txQueuesVector
               PROVE  transmitted[q] \o Ids(queue[q]) \o Of(q, m_requeued) \o Of(q, disc)
                        = accepted[q]
    BY DEF InOrder
  <2>1. TypeOK /\ DiscOK /\ q \in TxQueues /\ OrderOK(q)
    BY DEF OInv, IInv, TypeOK
  <2> DEFINE g == Gone(q)
             o == Of(q, m_requeued)
             d == Of(q, disc)
  <2>2. g \in Seq(Nat) /\ o \in Seq(Nat) /\ d \in Seq(Nat)
    BY <2>1, GoneType, OfType DEF DiscOK
  <2>3. g \o (o \o d) = accepted[q]
    BY <2>1 DEF OrderOK, Waiting
  <2> HIDE DEF g, o, d
  <2>4. (g \o o) \o d = g \o (o \o d)
    BY <2>2, InARow
  <2> QED
    BY <2>3, <2>4 DEF g, o, d, Gone
<1> QED
  BY <1>1, <1>2, <1>3, PTL DEF Spec

(* Without a header the device drops none, and the order is kept always.   *)
THEOREM OrderWithoutHeader == HeaderSize = 0 => (Spec => []InOrder)
<1> SUFFICES ASSUME HeaderSize = 0 PROVE Spec => []InOrder
  OBVIOUS
<1>1. Spec => []NoneDiscarded
  BY NothingIsDropped
<1> QED
  BY <1>1, PacketsStayInOrder, PTL
===============================================================================
