--------------------------- MODULE SetSchedulerProofs ---------------------------
(***************************************************************************)
(* Proofs about the schedulers: what the loops of the heap, the calendar   *)
(* and the sorted list do to their events, that each class keeps its       *)
(* structure, and that every class and every exchange of one for another   *)
(* implements the contract of ns3::Scheduler.                              *)
(***************************************************************************)
EXTENDS SetSchedulerProperties, NumberLemmas, SequenceTheorems, FiniteSetTheorems

Keys == [ts : Nat, uid : Nat]

(* A set of events as the schedulers hold it: no uid is there twice. *)
Distinct(E) == E \subseteq Keys /\ \A e, f \in E : e.uid = f.uid => e = f

(* The sequence h has each member of E in it, and has it once. *)
Holds(h, E) ==
    /\ h \in Seq(E)
    /\ \A e \in E : \E i \in 1 .. Len(h) : h[i] = e
    /\ \A i, j \in 1 .. Len(h) : h[i] = h[j] => i = j

-------------------------------------------------------------------------------
(* The order of the keys, which is the same in each class. *)

LEMMA OneOrder ==
  ASSUME NEW a, NEW b, NEW q
  PROVE  /\ Heap!KeyLess(a, b) <=> KeyLess(a, b)
         /\ List!KeyLess(a, b) <=> KeyLess(a, b)
         /\ Calendar!IsEarliest(a, q) <=> IsEarliest(a, q)
         /\ Contract!IsEarliest(a, q) <=> IsEarliest(a, q)
  BY DEF KeyLess, Heap!KeyLess, List!KeyLess, Calendar!KeyLess, Contract!KeyLess,
         IsEarliest, Calendar!IsEarliest, Contract!IsEarliest

LEMMA KeyOrder ==
  ASSUME NEW a \in Keys, NEW b \in Keys, NEW c \in Keys
  PROVE  /\ ~KeyLess(a, a)
         /\ KeyLess(a, b) => ~KeyLess(b, a)
         /\ KeyLess(a, b) /\ KeyLess(b, c) => KeyLess(a, c)
         /\ a.uid # b.uid => KeyLess(a, b) \/ KeyLess(b, a)
<1>1. /\ a.ts \in Nat /\ b.ts \in Nat /\ c.ts \in Nat
      /\ a.uid \in Nat /\ b.uid \in Nat /\ c.uid \in Nat
  BY DEF Keys
<1> QED
  BY <1>1 DEF KeyLess

LEMMA KeyTotal ==
  ASSUME NEW E, Distinct(E), NEW a \in E, NEW b \in E, a # b
  PROVE  KeyLess(a, b) \/ KeyLess(b, a)
<1>1. a \in Keys /\ b \in Keys /\ a.uid # b.uid
  BY DEF Distinct
<1> QED
  BY <1>1, KeyOrder

-------------------------------------------------------------------------------
(* Exchanges in the heap. *)

LEMMA HoldsFacts ==
  ASSUME NEW E, NEW h, Holds(h, E)
  PROVE  /\ Len(h) \in Nat /\ DOMAIN h = 1 .. Len(h)
         /\ \A i \in 1 .. Len(h) : h[i] \in E
         /\ h \in [1 .. Len(h) -> E]
  BY DEF Holds

LEMMA ExchValues ==
  ASSUME NEW E, NEW h \in Seq(E), NEW a \in 1 .. Len(h), NEW b \in 1 .. Len(h)
  PROVE  /\ Heap!Exch(h, a, b) \in Seq(E)
         /\ Len(Heap!Exch(h, a, b)) = Len(h)
         /\ Heap!Exch(h, a, b) = [i \in 1 .. Len(h) |->
               IF i = b THEN h[a] ELSE IF i = a THEN h[b] ELSE h[i]]
<1> DEFINE g == Heap!Exch(h, a, b)
           n == Len(h)
<1>1. n \in Nat /\ DOMAIN h = 1 .. n /\ \A i \in 1 .. n : h[i] \in E
  OBVIOUS
<1>2. g = [i \in 1 .. n |-> IF i = b THEN h[a] ELSE IF i = a THEN h[b] ELSE h[i]]
  BY <1>1 DEF Heap!Exch
<1>3. g \in [1 .. n -> E]
  BY <1>1, <1>2
<1> HIDE DEF g, n
<1>4. g \in Seq(E)
  BY <1>1, <1>3
<1>5. Len(g) = n
  BY <1>1, <1>3, <1>4
<1> QED
  BY <1>2, <1>4, <1>5 DEF g, n

LEMMA ExchHolds ==
  ASSUME NEW E, NEW h, Holds(h, E), NEW a \in 1 .. Len(h), NEW b \in 1 .. Len(h)
  PROVE  Holds(Heap!Exch(h, a, b), E)
<1> DEFINE g == Heap!Exch(h, a, b)
           n == Len(h)
           other(i) == IF i = b THEN a ELSE IF i = a THEN b ELSE i
<1>1. h \in Seq(E)
  BY DEF Holds
<1>2. /\ g \in Seq(E) /\ Len(g) = n
      /\ \A i \in 1 .. n : g[i] = IF i = b THEN h[a] ELSE IF i = a THEN h[b] ELSE h[i]
  <2>1. g \in Seq(E)
    BY <1>1, ExchValues
  <2>2. Len(g) = n
    BY <1>1, ExchValues
  <2>3. g = [i \in 1 .. n |-> IF i = b THEN h[a] ELSE IF i = a THEN h[b] ELSE h[i]]
    BY <1>1, ExchValues
  <2> QED
    BY <2>1, <2>2, <2>3
<1> HIDE DEF g
<1>3. \A i \in 1 .. n : /\ g[i] = h[other(i)] /\ other(i) \in 1 .. n
                        /\ g[other(i)] = h[i] /\ other(other(i)) = i
  BY <1>2
<1> HIDE DEF other, n
<1>4. /\ \A e \in E : \E i \in 1 .. n : h[i] = e
      /\ \A i, j \in 1 .. n : h[i] = h[j] => i = j
  BY DEF Holds, n
<1>5. \A e \in E : \E i \in 1 .. n : g[i] = e
  BY <1>3, <1>4
<1>6. \A i, j \in 1 .. n : g[i] = g[j] => i = j
  BY <1>3, <1>4
<1> QED
  BY <1>2, <1>5, <1>6 DEF Holds, g, n

-------------------------------------------------------------------------------
(* BottomUp *)

(* The states of the loops of BottomUp and TopDown. *)
Passes(E, N) == {[h |-> g, i |-> j] : g \in {f \in Seq(E) : Holds(f, E) /\ Len(f) = N},
                                      j \in 1 .. N}

LEMMA PassFields ==
  ASSUME NEW E, NEW N, NEW s \in Passes(E, N)
  PROVE  s.h \in Seq(E) /\ Holds(s.h, E) /\ Len(s.h) = N /\ s.i \in 1 .. N
  BY DEF Passes

LEMMA ExchangedPasses ==
  ASSUME NEW E, NEW N \in Nat, NEW s \in Passes(E, N), NEW a \in 1 .. N
  PROVE  Heap!Exchanged(s, a) \in Passes(E, N)
<1>1. s.h \in Seq(E) /\ Holds(s.h, E) /\ Len(s.h) = N /\ s.i \in 1 .. N
  BY DEF Passes
<1>2. /\ Heap!Exch(s.h, s.i, a) \in Seq(E) /\ Len(Heap!Exch(s.h, s.i, a)) = N
  BY <1>1, ExchValues
<1>3. Holds(Heap!Exch(s.h, s.i, a), E)
  BY <1>1, ExchHolds
<1> QED
  BY <1>2, <1>3 DEF Passes, Heap!Exchanged

LEMMA UpPasses ==
  ASSUME NEW E, NEW N \in Nat, NEW s \in Passes(E, N)
  PROVE  Heap!Up(s) \in Passes(E, N)
<1>1. s.i \in 1 .. N
  BY DEF Passes
<1>2. CASE s.i # 1
  <2>1. Heap!Parent(s.i) \in 1 .. N
    BY <1>1, <1>2 DEF Heap!Parent
  <2> QED
    BY <2>1, ExchangedPasses DEF Heap!Up
<1>3. CASE s.i = 1
  BY <1>3 DEF Heap!Up, Heap!Root
<1> QED
  BY <1>2, <1>3

LEMMA UpsLoop ==
  ASSUME NEW E, NEW h, Holds(h, E), h # <<>>
  PROVE  /\ Heap!Ups(h)[0] = [h |-> h, i |-> Len(h)]
         /\ \A n \in 1 .. Len(h) : Heap!Ups(h)[n] = Heap!Up(Heap!Ups(h)[n - 1])
         /\ \A n \in 0 .. Len(h) : Heap!Ups(h)[n] \in Passes(E, Len(h))
<1> DEFINE N == Len(h)
           S == Passes(E, N)
           a == [h |-> h, i |-> N]
           G == [p \in Nat \X S |-> Heap!Up(p[2])]
           Rec(f) == f = [n \in 0 .. N |-> IF n = 0 THEN a ELSE Heap!Up(f[n - 1])]
<1>1. N \in Nat /\ a \in S
  <2>1. h \in Seq(E) /\ N \in Nat /\ N \in 1 .. N
    BY DEF Holds
  <2> QED
    BY <2>1 DEF Passes
<1>2. \A s \in S : Heap!Up(s) \in S
  BY <1>1, UpPasses
<1> HIDE DEF N, S, a
<1>3. /\ \A n \in Nat, s \in S : G[<<n, s>>] = Heap!Up(s)
      /\ Leads(G, S)
  BY <1>2 DEF Leads
<1> HIDE DEF G
<1>4. PICK f : Follows(f, S, a, G, N)
  BY <1>1, <1>3, RecursionUpTo
<1>5. Rec(f)
  <2>1. \A n \in 1 .. N : n - 1 \in 0 .. N /\ n \in Nat
    BY <1>1
  <2>2. \A n \in 1 .. N : f[n] = Heap!Up(f[n - 1])
    BY <1>3, <1>4, <2>1 DEF Follows
  <2>3. \A n \in 0 .. N : n = 0 \/ n \in 1 .. N
    BY <1>1
  <2>4. f \in [0 .. N -> S] /\ f[0] = a
    BY <1>4 DEF Follows
  <2> QED
    BY <2>2, <2>3, <2>4
<1>6. Heap!Ups(h) = CHOOSE x : Rec(x)
  BY DEF Heap!Ups, N, a
<1> DEFINE g == Heap!Ups(h)
<1>7. Rec(g)
  BY <1>5, <1>6
<1> HIDE DEF g
<1>8. g[0] = a /\ \A n \in 1 .. N : g[n] = Heap!Up(g[n - 1])
  <2>1. 0 \in 0 .. N /\ \A n \in 1 .. N : n \in 0 .. N /\ n # 0
    BY <1>1
  <2> QED
    BY <1>7, <2>1
<1> DEFINE T == {n \in 0 .. N : g[n] \in S}
<1>9. 0 .. N \subseteq T
  <2>1. 0 \in T
    BY <1>1, <1>8
  <2>2. ASSUME NEW n \in 0 .. N - 1, n \in T PROVE n + 1 \in T
    <3>1. n + 1 \in 1 .. N /\ (n + 1) - 1 = n /\ n + 1 \in 0 .. N
      BY <1>1
    <3> QED
      BY <1>2, <1>8, <2>2, <3>1
  <2> HIDE DEF T
  <2> QED
    BY <1>1, <2>1, <2>2, InductionUpTo
<1> QED
  BY <1>8, <1>9 DEF g, N, a, S

(* The heap is ordered, but for the entry i, which may be smaller than its
   parent and is not yet larger than its children. *)
OrderedAbove(h, i) ==
    \A k \in 2 .. Len(h) :
       /\ k # i => KeyLess(h[k \div 2], h[k])
       /\ k \div 2 = i /\ i # 1 => KeyLess(h[i \div 2], h[k])

Ordered(h) == \A k \in 2 .. Len(h) : KeyLess(h[k \div 2], h[k])

LEMMA Halves ==
  ASSUME NEW N \in Nat, NEW k \in 2 .. N
  PROVE  k \div 2 \in 1 .. N /\ k \div 2 < k /\ k \in 1 .. N
  OBVIOUS

LEMMA UpOrder ==
  ASSUME NEW E, Distinct(E), NEW N \in Nat, NEW s \in Passes(E, N), OrderedAbove(s.h, s.i)
  PROVE  LET t == Heap!Up(s) IN
         \/ t = s /\ Ordered(s.h)
         \/ t.i = s.i \div 2 /\ s.i # 1 /\ OrderedAbove(t.h, t.i)
<1> DEFINE h == s.h
           i == s.i
           p == i \div 2
           g == Heap!Exch(h, i, p)
<1>1. Holds(h, E) /\ Len(h) = N /\ i \in 1 .. N /\ h \in Seq(E)
  BY DEF Passes
<1>2. \A k \in 1 .. N : h[k] \in E /\ h[k] \in Keys
  BY <1>1 DEF Distinct
<1>3. \A j, k \in 1 .. N : j # k => KeyLess(h[j], h[k]) \/ KeyLess(h[k], h[j])
  BY <1>1, <1>2, KeyTotal DEF Holds
<1>o. \A k \in 2 .. N : /\ k # i => KeyLess(h[k \div 2], h[k])
                        /\ k \div 2 = i /\ i # 1 => KeyLess(h[p], h[k])
  BY <1>1 DEF OrderedAbove
<1> HIDE DEF h, i, p
<1>4. CASE i = 1
  <2>1. Heap!Up(s) = s
    BY <1>4 DEF Heap!Up, Heap!Root, i
  <2>2. \A k \in 2 .. N : k # 1
    OBVIOUS
  <2>3. Ordered(h)
    BY <1>1, <1>4, <1>o, <2>2 DEF Ordered
  <2> QED
    BY <2>1, <2>3 DEF h
<1>5. CASE i # 1 /\ ~KeyLess(h[i], h[p])
  <2>1. Heap!Up(s) = s
    BY <1>5, OneOrder DEF Heap!Up, Heap!Root, Heap!Parent, h, i, p
  <2>2. i \in 2 .. N /\ p \in 1 .. N /\ p # i
    BY <1>1, <1>5 DEF p
  <2>3. KeyLess(h[p], h[i])
    BY <1>1, <1>3, <1>5, <2>2
  <2>4. Ordered(h)
    BY <1>1, <1>o, <2>3 DEF Ordered, p
  <2> QED
    BY <2>1, <2>4 DEF h
<1>6. CASE i # 1 /\ KeyLess(h[i], h[p])
  <2>1. Heap!Up(s) = [h |-> g, i |-> p]
    <3>1. ~(s.i = Heap!Root \/ ~Heap!KeyLess(s.h[s.i], s.h[Heap!Parent(s.i)]))
      BY <1>6, OneOrder DEF Heap!Parent, Heap!Root, h, i, p
    <3>2. Heap!Up(s) = Heap!Exchanged(s, Heap!Parent(s.i))
      BY <3>1 DEF Heap!Up
    <3> QED
      BY <3>2 DEF Heap!Parent, Heap!Exchanged, h, i, p
  <2>2. i \in 2 .. N /\ p \in 1 .. N /\ p < i
    BY <1>1, <1>6 DEF p
  <2>3. /\ Len(g) = N
        /\ \A k \in 1 .. N : g[k] = IF k = p THEN h[i] ELSE IF k = i THEN h[p] ELSE h[k]
    <3>0. i \in 1 .. Len(h) /\ p \in 1 .. Len(h) /\ h \in Seq(E)
      BY <1>1, <2>2
    <3>1. Len(g) = Len(h)
      BY <3>0, ExchValues
    <3>2. g = [k \in 1 .. Len(h) |-> IF k = p THEN h[i] ELSE IF k = i THEN h[p] ELSE h[k]]
      BY <3>0, ExchValues
    <3> HIDE DEF g
    <3> QED
      BY <1>1, <3>1, <3>2
  <2> HIDE DEF g
  <2>4. \A x, y, z \in 1 .. N : KeyLess(h[x], h[y]) /\ KeyLess(h[y], h[z]) => KeyLess(h[x], h[z])
    BY <1>2, KeyOrder
  <2>5. ASSUME NEW k \in 2 .. N, k # p PROVE KeyLess(g[k \div 2], g[k])
    <3>0. k \in 1 .. N /\ k \div 2 \in 1 .. N /\ k \div 2 # k
      OBVIOUS
    <3>1. CASE k = i
      BY <1>6, <2>2, <2>3, <3>1 DEF p
    <3>2. CASE k # i /\ k \div 2 = i
      <4>1. g[k \div 2] = h[p] /\ g[k] = h[k]
        BY <2>2, <2>3, <2>5, <3>0, <3>2
      <4> QED
        BY <1>6, <1>o, <3>2, <4>1
    <3>3. CASE k # i /\ k \div 2 = p
      <4>1. g[k \div 2] = h[i] /\ g[k] = h[k]
        BY <2>2, <2>3, <2>5, <3>0, <3>3
      <4>2. KeyLess(h[p], h[k])
        BY <1>o, <3>3
      <4> QED
        BY <1>6, <1>1, <2>2, <2>4, <3>0, <4>1, <4>2
    <3>4. CASE k # i /\ k \div 2 # i /\ k \div 2 # p
      <4>1. g[k \div 2] = h[k \div 2] /\ g[k] = h[k]
        BY <2>2, <2>3, <2>5, <3>0, <3>4
      <4> QED
        BY <1>o, <3>4, <4>1
    <3> QED
      BY <3>1, <3>2, <3>3, <3>4
  <2>6. ASSUME NEW k \in 2 .. N, k \div 2 = p, p # 1 PROVE KeyLess(g[p \div 2], g[k])
    <3>1. p \in 2 .. N /\ p \div 2 \in 1 .. N /\ p \div 2 < p /\ k \in 1 .. N /\ k # p
      BY <2>2, <2>6
    <3>2. KeyLess(h[p \div 2], h[p]) /\ g[p \div 2] = h[p \div 2]
      BY <1>o, <2>2, <2>3, <3>1
    <3>3. CASE k = i
      BY <2>2, <2>3, <3>2, <3>3
    <3>4. CASE k # i
      <4>1. KeyLess(h[p], h[k]) /\ g[k] = h[k]
        BY <1>o, <2>3, <2>6, <3>1, <3>4
      <4> QED
        BY <2>2, <2>4, <3>1, <3>2, <4>1
    <3> QED
      BY <3>3, <3>4
  <2>7. OrderedAbove(g, p)
    BY <2>3, <2>5, <2>6 DEF OrderedAbove
  <2> QED
    BY <1>6, <2>1, <2>7 DEF i, p
<1> QED
  BY <1>4, <1>5, <1>6

LEMMA BottomUpOrders ==
  ASSUME NEW E, Distinct(E), NEW h, Holds(h, E), h # <<>>, OrderedAbove(h, Len(h))
  PROVE  Ordered(Heap!BottomUp(h))
<1> DEFINE N == Len(h)
           u == Heap!Ups(h)
           ended(s) == Heap!Up(s) = s /\ Ordered(s.h)
           T == {n \in 0 .. N : \/ ended(u[n])
                                \/ OrderedAbove(u[n].h, u[n].i) /\ u[n].i <= N - n}
<1>1. N \in Nat /\ N >= 1
  BY DEF Holds
<1>2. /\ u[0] = [h |-> h, i |-> N]
      /\ \A n \in 1 .. N : u[n] = Heap!Up(u[n - 1])
      /\ \A n \in 0 .. N : u[n] \in Passes(E, N)
  BY UpsLoop
<1> HIDE DEF u, N
<1>3. 0 \in T
  BY <1>1, <1>2 DEF N
<1>4. ASSUME NEW n \in 0 .. N - 1, n \in T PROVE n + 1 \in T
  <2>1. /\ n \in 0 .. N /\ n + 1 \in 1 .. N /\ (n + 1) - 1 = n /\ n + 1 \in 0 .. N
    BY <1>1
  <2>2. u[n + 1] = Heap!Up(u[n]) /\ u[n] \in Passes(E, N)
    BY <1>2, <2>1
  <2>3. CASE ended(u[n])
    BY <2>1, <2>2, <2>3
  <2>4. CASE OrderedAbove(u[n].h, u[n].i) /\ u[n].i <= N - n
    <3>1. \/ u[n + 1] = u[n] /\ Ordered(u[n].h)
          \/ /\ u[n + 1].i = u[n].i \div 2 /\ u[n].i # 1
             /\ OrderedAbove(u[n + 1].h, u[n + 1].i)
      BY <1>1, <2>2, <2>4, UpOrder
    <3>2. CASE u[n + 1] = u[n] /\ Ordered(u[n].h)
      BY <2>1, <2>2, <3>2
    <3>3. CASE /\ u[n + 1].i = u[n].i \div 2 /\ u[n].i # 1
               /\ OrderedAbove(u[n + 1].h, u[n + 1].i)
      <4>1. u[n].i \in 1 .. N
        BY <2>2 DEF Passes
      <4>2. u[n + 1].i <= N - (n + 1)
        BY <1>1, <2>4, <3>3, <4>1
      <4> QED
        BY <2>1, <3>3, <4>2
    <3> QED
      BY <3>1, <3>2, <3>3
  <2> QED
    BY <1>4, <2>3, <2>4
<1> HIDE DEF T
<1>5. N \in T
  <2>1. 0 .. N \subseteq T
    BY <1>1, <1>3, <1>4, InductionUpTo
  <2> QED
    BY <1>1, <2>1
<1>6. u[N].i \in 1 .. N
  BY <1>1, <1>2 DEF Passes
<1>7. Ordered(u[N].h)
  BY <1>1, <1>5, <1>6 DEF T
<1> QED
  BY <1>7 DEF Heap!BottomUp, u, N

LEMMA BottomUpHolds ==
  ASSUME NEW E, NEW h, Holds(h, E), h # <<>>
  PROVE  Holds(Heap!BottomUp(h), E) /\ Len(Heap!BottomUp(h)) = Len(h)
<1>1. Len(h) \in 0 .. Len(h)
  BY DEF Holds
<1>2. Heap!Ups(h)[Len(h)] \in Passes(E, Len(h))
  BY <1>1, UpsLoop
<1> QED
  BY <1>2 DEF Passes, Heap!BottomUp

-------------------------------------------------------------------------------
(* TopDown *)

(* The heap is ordered, but for the entry i, which may be larger than its
   children. *)
OrderedBelow(h, i) ==
    \A k \in 2 .. Len(h) :
       /\ k \div 2 # i => KeyLess(h[k \div 2], h[k])
       /\ k \div 2 = i /\ i # 1 => KeyLess(h[i \div 2], h[k])

(* A pass of TopDown stops at an entry smaller than its children, or exchanges
   it with the smallest of them. *)
LEMMA DownCases ==
  ASSUME NEW E, Distinct(E), NEW N \in Nat, NEW s \in Passes(E, N)
  PROVE  \/ /\ Heap!Down(s) = s
            /\ \A k \in 2 .. N : k \div 2 = s.i => KeyLess(s.h[s.i], s.h[k])
         \/ \E a \in 2 .. N :
              /\ a \div 2 = s.i
              /\ Heap!Down(s) = Heap!Exchanged(s, a)
              /\ KeyLess(s.h[a], s.h[s.i])
              /\ \A k \in 2 .. N : k \div 2 = s.i /\ k # a => KeyLess(s.h[a], s.h[k])
<1> DEFINE h == s.h
           i == s.i
           l == 2 * i
           r == 2 * i + 1
<1>1. Holds(h, E) /\ Len(h) = N /\ i \in 1 .. N /\ h \in Seq(E)
  BY DEF Passes
<1>2. \A k \in 1 .. N : h[k] \in E /\ h[k] \in Keys
  BY <1>1 DEF Distinct
<1>3. \A j, k \in 1 .. N : j # k => KeyLess(h[j], h[k]) \/ KeyLess(h[k], h[j])
  BY <1>1, <1>2, KeyTotal DEF Holds
<1>t. \A x, y, z \in 1 .. N : KeyLess(h[x], h[y]) /\ KeyLess(h[y], h[z]) => KeyLess(h[x], h[z])
  BY <1>2, KeyOrder
<1> HIDE DEF h
<1>4. \A k \in 2 .. N : k \div 2 = i <=> k = l \/ k = r
  BY <1>1
<1>5. CASE l > N
  <2>1. Heap!Down(s) = s
    BY <1>1, <1>5 DEF Heap!Down, Heap!IsBottom, Heap!RightChild, Heap!LeftChild, h
  <2>2. \A k \in 2 .. N : k \div 2 # i
    BY <1>1, <1>4, <1>5
  <2> QED
    BY <2>1, <2>2
<1>6. CASE l = N
  <2>1. /\ Heap!IsBottom(s.h, Heap!RightChild(s.i)) /\ ~Heap!IsBottom(s.h, Heap!LeftChild(s.i))
        /\ Heap!LeftChild(s.i) = l
    BY <1>1, <1>6 DEF Heap!IsBottom, Heap!RightChild, Heap!LeftChild, h
  <2>2. l \in 2 .. N /\ l # i /\ \A k \in 2 .. N : k \div 2 = i <=> k = l
    BY <1>1, <1>4, <1>6
  <2>3. CASE KeyLess(h[i], h[l])
    <3>1. Heap!Down(s) = s
      BY <2>1, <2>3, OneOrder DEF Heap!Down, h
    <3> QED
      BY <2>2, <2>3, <3>1 DEF h
  <2>4. CASE ~KeyLess(h[i], h[l])
    <3>1. Heap!Down(s) = Heap!Exchanged(s, l)
      BY <2>1, <2>4, OneOrder DEF Heap!Down, h
    <3>2. KeyLess(h[l], h[i])
      BY <1>1, <1>3, <2>2, <2>4
    <3> QED
      BY <2>2, <3>1, <3>2 DEF h
  <2> QED
    BY <2>3, <2>4
<1>7. CASE l < N
  <2> DEFINE a == IF KeyLess(h[l], h[r]) THEN l ELSE r
             b == IF KeyLess(h[l], h[r]) THEN r ELSE l
  <2>1. /\ l \in 1 .. N /\ r \in 1 .. N /\ l # r /\ i # l /\ i # r
        /\ l \in 2 .. N /\ r \in 2 .. N
    BY <1>1, <1>7
  <2>2. ~Heap!IsBottom(s.h, Heap!RightChild(s.i))
    BY <1>1, <2>1 DEF Heap!IsBottom, Heap!RightChild, h
  <2>3. Heap!Smallest(s.h, Heap!LeftChild(s.i), Heap!RightChild(s.i)) = a
    BY OneOrder DEF Heap!Smallest, Heap!LeftChild, Heap!RightChild, h
  <2>4. KeyLess(h[a], h[b])
    BY <1>3, <2>1
  <2>5. /\ a \in 1 .. N /\ b \in 1 .. N /\ a # i /\ a \in 2 .. N /\ a \div 2 = i
        /\ \A k \in 2 .. N : k \div 2 = i <=> k = a \/ k = b
    BY <1>4, <2>1
  <2> HIDE DEF a, b
  <2>6. CASE KeyLess(h[i], h[a])
    <3>1. Heap!Down(s) = s
      BY <2>2, <2>3, <2>6, OneOrder DEF Heap!Down, h
    <3>2. KeyLess(h[i], h[b])
      BY <1>1, <1>t, <2>4, <2>5, <2>6
    <3> QED
      BY <2>5, <2>6, <3>1, <3>2 DEF h
  <2>7. CASE ~KeyLess(h[i], h[a])
    <3>1. Heap!Down(s) = Heap!Exchanged(s, a)
      BY <2>2, <2>3, <2>7, OneOrder DEF Heap!Down, h
    <3>2. KeyLess(h[a], h[i])
      BY <1>1, <1>3, <2>5, <2>7
    <3>3. \A k \in 2 .. N : k \div 2 = i /\ k # a => KeyLess(h[a], h[k])
      BY <2>4, <2>5
    <3> QED
      BY <2>5, <3>1, <3>2, <3>3 DEF h
  <2> QED
    BY <2>6, <2>7
<1> QED
  BY <1>1, <1>5, <1>6, <1>7

LEMMA DownPasses ==
  ASSUME NEW E, Distinct(E), NEW N \in Nat, NEW s \in Passes(E, N)
  PROVE  Heap!Down(s) \in Passes(E, N)
<1>1. CASE Heap!Down(s) = s
  BY <1>1
<1>2. CASE \E a \in 2 .. N : Heap!Down(s) = Heap!Exchanged(s, a)
  <2>1. PICK a \in 2 .. N : Heap!Down(s) = Heap!Exchanged(s, a)
    BY <1>2
  <2>2. a \in 1 .. N
    OBVIOUS
  <2> QED
    BY <2>1, <2>2, ExchangedPasses
<1> QED
  BY <1>1, <1>2, DownCases

LEMMA DownOrder ==
  ASSUME NEW E, Distinct(E), NEW N \in Nat, NEW s \in Passes(E, N), OrderedBelow(s.h, s.i)
  PROVE  LET t == Heap!Down(s) IN
         \/ t = s /\ Ordered(s.h)
         \/ t.i >= s.i + 1 /\ OrderedBelow(t.h, t.i)
<1> DEFINE h == s.h
           i == s.i
<1>1. Holds(h, E) /\ Len(h) = N /\ i \in 1 .. N /\ h \in Seq(E)
  BY DEF Passes
<1>2. \A k \in 1 .. N : h[k] \in E /\ h[k] \in Keys
  BY <1>1 DEF Distinct
<1>o. \A k \in 2 .. N : /\ k \div 2 # i => KeyLess(h[k \div 2], h[k])
                        /\ k \div 2 = i /\ i # 1 => KeyLess(h[i \div 2], h[k])
  BY <1>1 DEF OrderedBelow
<1>3. CASE /\ Heap!Down(s) = s
           /\ \A k \in 2 .. N : k \div 2 = i => KeyLess(h[i], h[k])
  <2>1. Ordered(h)
    BY <1>1, <1>3, <1>o DEF Ordered
  <2> QED
    BY <1>3, <2>1
<1>4. ASSUME NEW a \in 2 .. N, a \div 2 = i, Heap!Down(s) = Heap!Exchanged(s, a),
             KeyLess(h[a], h[i]),
             \A k \in 2 .. N : k \div 2 = i /\ k # a => KeyLess(h[a], h[k])
      PROVE  Heap!Down(s).i >= i + 1 /\ OrderedBelow(Heap!Down(s).h, Heap!Down(s).i)
  <2> DEFINE g == Heap!Exch(h, i, a)
  <2>1. Heap!Down(s) = [h |-> g, i |-> a]
    BY <1>4 DEF Heap!Exchanged
  <2>2. a \in 1 .. N /\ i < a /\ i # a
    BY <1>1, <1>4
  <2>3. /\ Len(g) = N
        /\ \A k \in 1 .. N : g[k] = IF k = a THEN h[i] ELSE IF k = i THEN h[a] ELSE h[k]
    <3>0. i \in 1 .. Len(h) /\ a \in 1 .. Len(h) /\ h \in Seq(E)
      BY <1>1, <2>2
    <3> HIDE DEF h, i
    <3>1. Len(g) = Len(h)
      BY <3>0, ExchValues
    <3>2. g = [k \in 1 .. Len(h) |-> IF k = a THEN h[i] ELSE IF k = i THEN h[a] ELSE h[k]]
      BY <3>0, ExchValues
    <3> HIDE DEF g
    <3> QED
      BY <1>1, <3>1, <3>2
  <2> HIDE DEF g, h, i
  <2>4. ASSUME NEW k \in 2 .. N, k \div 2 # a PROVE KeyLess(g[k \div 2], g[k])
    <3>0. k \in 1 .. N /\ k \div 2 \in 1 .. N /\ k \div 2 # k
      OBVIOUS
    <3>1. CASE k = a
      BY <1>4, <2>2, <2>3, <3>0, <3>1
    <3>2. CASE k # a /\ k \div 2 = i
      BY <1>4, <2>2, <2>3, <3>0, <3>2
    <3>3. CASE k # a /\ k = i
      <4>1. g[k] = h[a] /\ g[k \div 2] = h[i \div 2]
        BY <2>2, <2>3, <2>4, <3>0, <3>3
      <4>2. i # 1
        BY <3>3
      <4> QED
        BY <1>4, <1>o, <4>1, <4>2
    <3>4. CASE k # a /\ k \div 2 # i /\ k # i
      <4>1. g[k] = h[k] /\ g[k \div 2] = h[k \div 2]
        BY <2>3, <2>4, <3>0, <3>4
      <4> QED
        BY <1>o, <3>4, <4>1
    <3> QED
      BY <3>1, <3>2, <3>3, <3>4
  <2>5. ASSUME NEW k \in 2 .. N, k \div 2 = a PROVE KeyLess(g[a \div 2], g[k])
    <3>0. k \in 1 .. N /\ k # a /\ k # i /\ a # i
      BY <2>2, <2>5
    <3>1. g[a \div 2] = h[a] /\ g[k] = h[k]
      BY <1>1, <1>4, <2>3, <3>0
    <3> QED
      BY <1>o, <2>5, <3>0, <3>1
  <2>6. OrderedBelow(g, a)
    BY <2>3, <2>4, <2>5 DEF OrderedBelow
  <2>7. a >= i + 1
    BY <1>1, <2>2
  <2> QED
    BY <2>1, <2>6, <2>7
<1> HIDE DEF h, i
<1>5. \/ /\ Heap!Down(s) = s
         /\ \A k \in 2 .. N : k \div 2 = i => KeyLess(h[i], h[k])
      \/ \E a \in 2 .. N :
           /\ a \div 2 = i
           /\ Heap!Down(s) = Heap!Exchanged(s, a)
           /\ KeyLess(h[a], h[i])
           /\ \A k \in 2 .. N : k \div 2 = i /\ k # a => KeyLess(h[a], h[k])
  BY DownCases DEF h, i
<1> QED
  BY <1>3, <1>4, <1>5 DEF h, i

LEMMA DownsLoop ==
  ASSUME NEW S, NEW h, NEW i, [h |-> h, i |-> i] \in S, Len(h) \in Nat,
         \A s \in S : Heap!Down(s) \in S
  PROVE  /\ Heap!Downs(h, i)[0] = [h |-> h, i |-> i]
         /\ \A n \in 1 .. Len(h) : Heap!Downs(h, i)[n] = Heap!Down(Heap!Downs(h, i)[n - 1])
         /\ \A n \in 0 .. Len(h) : Heap!Downs(h, i)[n] \in S
<1> DEFINE N == Len(h)
           a == [h |-> h, i |-> i]
           G == [p \in Nat \X S |-> Heap!Down(p[2])]
           Rec(f) == f = [n \in 0 .. N |-> IF n = 0 THEN a ELSE Heap!Down(f[n - 1])]
<1>1. N \in Nat /\ a \in S
  OBVIOUS
<1> HIDE DEF N, a
<1>3. /\ \A n \in Nat, s \in S : G[<<n, s>>] = Heap!Down(s)
      /\ Leads(G, S)
  BY DEF Leads
<1> HIDE DEF G
<1>4. PICK f : Follows(f, S, a, G, N)
  BY <1>1, <1>3, RecursionUpTo
<1>5. Rec(f)
  <2>1. \A n \in 1 .. N : n - 1 \in 0 .. N /\ n \in Nat
    BY <1>1
  <2>2. \A n \in 1 .. N : f[n] = Heap!Down(f[n - 1])
    BY <1>3, <1>4, <2>1 DEF Follows
  <2>3. \A n \in 0 .. N : n = 0 \/ n \in 1 .. N
    BY <1>1
  <2>4. f \in [0 .. N -> S] /\ f[0] = a
    BY <1>4 DEF Follows
  <2> QED
    BY <2>2, <2>3, <2>4
<1>6. Heap!Downs(h, i) = CHOOSE x : Rec(x)
  BY DEF Heap!Downs, N, a
<1> DEFINE g == Heap!Downs(h, i)
<1>7. Rec(g)
  BY <1>5, <1>6
<1> HIDE DEF g
<1>8. g[0] = a /\ \A n \in 1 .. N : g[n] = Heap!Down(g[n - 1])
  <2>1. 0 \in 0 .. N /\ \A n \in 1 .. N : n \in 0 .. N /\ n # 0
    BY <1>1
  <2> QED
    BY <1>7, <2>1
<1> DEFINE T == {n \in 0 .. N : g[n] \in S}
<1>9. 0 .. N \subseteq T
  <2>1. 0 \in T
    BY <1>1, <1>8
  <2>2. ASSUME NEW n \in 0 .. N - 1, n \in T PROVE n + 1 \in T
    <3>1. n + 1 \in 1 .. N /\ (n + 1) - 1 = n /\ n + 1 \in 0 .. N
      BY <1>1
    <3> QED
      BY <1>8, <2>2, <3>1
  <2> HIDE DEF T
  <2> QED
    BY <1>1, <2>1, <2>2, InductionUpTo
<1> QED
  BY <1>8, <1>9 DEF g, N, a

LEMMA TopDownHolds ==
  ASSUME NEW E, Distinct(E), NEW h, Holds(h, E), NEW i \in 1 .. Len(h) + 1
  PROVE  Holds(Heap!TopDown(h, i), E) /\ Len(Heap!TopDown(h, i)) = Len(h)
<1> DEFINE N == Len(h)
           a == [h |-> h, i |-> i]
<1>1. N \in Nat /\ h \in Seq(E) /\ N \in 0 .. N
  BY DEF Holds
<1>2. CASE i \in 1 .. N
  <2>1. a \in Passes(E, N)
    BY <1>1, <1>2 DEF Passes
  <2>2. \A s \in Passes(E, N) : Heap!Down(s) \in Passes(E, N)
    BY <1>1, DownPasses
  <2>3. Heap!Downs(h, i)[N] \in Passes(E, N)
    BY <1>1, <2>1, <2>2, DownsLoop
  <2> QED
    BY <2>3 DEF Passes, Heap!TopDown
<1>3. CASE i = N + 1
  <2>1. Heap!Down(a) = a
    BY <1>1, <1>3 DEF Heap!Down, Heap!IsBottom, Heap!LeftChild, Heap!RightChild
  <2>2. Heap!Downs(h, i)[N] \in {a}
    <3> DEFINE S == {a}
    <3>1. (\A s \in S : Heap!Down(s) \in S) /\ a \in S
      BY <2>1
    <3> HIDE DEF S
    <3>2. \A n \in 0 .. N : Heap!Downs(h, i)[n] \in S
      BY <1>1, <3>1, DownsLoop
    <3> QED
      BY <1>1, <3>2 DEF S
  <2>3. Heap!TopDown(h, i) = h
    BY <2>2 DEF Heap!TopDown
  <2> QED
    BY <2>3
<1> QED
  BY <1>1, <1>2, <1>3

LEMMA TopDownOrders ==
  ASSUME NEW E, Distinct(E), NEW h, Holds(h, E), h # <<>>, OrderedBelow(h, 1)
  PROVE  Ordered(Heap!TopDown(h, 1))
<1> DEFINE N == Len(h)
           u == Heap!Downs(h, 1)
           a == [h |-> h, i |-> 1]
           ended(s) == Heap!Down(s) = s /\ Ordered(s.h)
           T == {n \in 0 .. N : \/ ended(u[n])
                                \/ OrderedBelow(u[n].h, u[n].i) /\ u[n].i >= n + 1}
<1>1. N \in Nat /\ N >= 1 /\ h \in Seq(E)
  BY DEF Holds
<1>2. /\ u[0] = a
      /\ \A n \in 1 .. N : u[n] = Heap!Down(u[n - 1])
      /\ \A n \in 0 .. N : u[n] \in Passes(E, N)
  <2>1. a \in Passes(E, N)
    <3>1. h \in {f \in Seq(E) : Holds(f, E) /\ Len(f) = N} /\ 1 \in 1 .. N
      BY <1>1
    <3> HIDE DEF N
    <3> QED
      BY <3>1 DEF Passes
  <2>2. \A s \in Passes(E, N) : Heap!Down(s) \in Passes(E, N)
    BY <1>1, DownPasses
  <2> QED
    BY <1>1, <2>1, <2>2, DownsLoop
<1> HIDE DEF u, N
<1>3. 0 \in T
  BY <1>1, <1>2
<1>4. ASSUME NEW n \in 0 .. N - 1, n \in T PROVE n + 1 \in T
  <2>1. /\ n \in 0 .. N /\ n + 1 \in 1 .. N /\ (n + 1) - 1 = n /\ n + 1 \in 0 .. N
    BY <1>1
  <2>2. u[n + 1] = Heap!Down(u[n]) /\ u[n] \in Passes(E, N) /\ u[n + 1] \in Passes(E, N)
    BY <1>2, <2>1
  <2>3. CASE ended(u[n])
    BY <2>1, <2>2, <2>3
  <2>4. CASE OrderedBelow(u[n].h, u[n].i) /\ u[n].i >= n + 1
    <3>1. \/ u[n + 1] = u[n] /\ Ordered(u[n].h)
          \/ u[n + 1].i >= u[n].i + 1 /\ OrderedBelow(u[n + 1].h, u[n + 1].i)
      BY <1>1, <2>2, <2>4, DownOrder
    <3>2. CASE u[n + 1] = u[n] /\ Ordered(u[n].h)
      BY <2>1, <2>2, <3>2
    <3>3. CASE u[n + 1].i >= u[n].i + 1 /\ OrderedBelow(u[n + 1].h, u[n + 1].i)
      <4>1. u[n].i \in 1 .. N /\ u[n + 1].i \in 1 .. N
        BY <2>2, PassFields
      <4>2. u[n + 1].i >= (n + 1) + 1
        BY <1>1, <2>4, <3>3, <4>1
      <4> QED
        BY <2>1, <3>3, <4>2
    <3> QED
      BY <3>1, <3>2, <3>3
  <2> QED
    BY <1>4, <2>3, <2>4
<1> HIDE DEF T
<1>5. N \in T
  <2>1. 0 .. N \subseteq T
    BY <1>1, <1>3, <1>4, InductionUpTo
  <2> QED
    BY <1>1, <2>1
<1>6. u[N].i \in 1 .. N
  BY <1>1, <1>2 DEF Passes
<1>7. Ordered(u[N].h)
  BY <1>1, <1>5, <1>6 DEF T
<1> QED
  BY <1>7 DEF Heap!TopDown, u, N

-------------------------------------------------------------------------------
(* The operations of the heap. *)

LEMMA AppendHolds ==
  ASSUME NEW E, NEW h, Holds(h, E), NEW e, e \notin E
  PROVE  /\ Holds(Append(h, e), E \cup {e})
         /\ Append(h, e) # <<>> /\ Len(Append(h, e)) = Len(h) + 1
         /\ \A i \in 1 .. Len(h) : Append(h, e)[i] = h[i]
<1> DEFINE g == Append(h, e)
           n == Len(h)
<1>1. h \in Seq(E) /\ n \in Nat /\ h \in Seq(E \cup {e}) /\ e \in E \cup {e}
  BY DEF Holds
<1>2. /\ g \in Seq(E \cup {e}) /\ Len(g) = n + 1 /\ g[n + 1] = e
      /\ \A i \in 1 .. n : g[i] = h[i]
  BY <1>1
<1>3. /\ \A f \in E : \E i \in 1 .. n : h[i] = f
      /\ \A i, j \in 1 .. n : h[i] = h[j] => i = j
      /\ \A i \in 1 .. n : h[i] \in E
  BY <1>1 DEF Holds
<1> HIDE DEF g, n
<1>4. \A i \in 1 .. n + 1 : i = n + 1 \/ i \in 1 .. n
  BY <1>1
<1>5. \A i \in 1 .. n : i \in 1 .. n + 1
  BY <1>1
<1>6. \A f \in E \cup {e} : \E i \in 1 .. n + 1 : g[i] = f
  <2>1. n + 1 \in 1 .. n + 1
    BY <1>1
  <2> QED
    BY <1>2, <1>3, <1>5, <2>1
<1>7. \A i, j \in 1 .. n + 1 : g[i] = g[j] => i = j
  BY <1>2, <1>3, <1>4
<1>8. Holds(g, E \cup {e})
  BY <1>2, <1>6, <1>7 DEF Holds
<1>9. g # <<>>
  BY <1>1, <1>2
<1> QED
  BY <1>2, <1>8, <1>9 DEF g, n

(* Without the entry i, the last one in its place. *)
LEMMA MoveLastHolds ==
  ASSUME NEW E, NEW h, Holds(h, E), NEW i \in 1 .. Len(h)
  PROVE  /\ Holds(Heap!MoveLastTo(h, i), E \ {h[i]})
         /\ Len(Heap!MoveLastTo(h, i)) = Len(h) - 1
         /\ \A k \in 1 .. Len(h) - 1 :
               Heap!MoveLastTo(h, i)[k] = IF k = i THEN h[Len(h)] ELSE h[k]
<1> DEFINE n == Len(h)
           x == Heap!Exch(h, i, n)
           g == Heap!MoveLastTo(h, i)
<1>1. h \in Seq(E) /\ n \in Nat /\ n \in 1 .. n /\ n >= 1
  BY DEF Holds
<1>2. /\ x \in Seq(E) /\ Len(x) = n /\ Holds(x, E)
      /\ \A k \in 1 .. n : x[k] = IF k = n THEN h[i] ELSE IF k = i THEN h[n] ELSE h[k]
  <2>1. x \in Seq(E) /\ Len(x) = n
    BY <1>1, ExchValues
  <2>2. Holds(x, E)
    BY <1>1, ExchHolds
  <2>3. \A k \in 1 .. n : x[k] = IF k = n THEN h[i] ELSE IF k = i THEN h[n] ELSE h[k]
    <3>1. PICK m \in 1 .. Len(h) : m = n
      BY <1>1
    <3>2. Heap!Exch(h, i, m) = [k \in 1 .. Len(h) |->
            IF k = m THEN h[i] ELSE IF k = i THEN h[m] ELSE h[k]]
      BY <1>1, ExchValues
    <3> QED
      BY <3>1, <3>2
  <2> QED
    BY <2>1, <2>2, <2>3
<1>3. g = SubSeq(x, 1, n - 1)
  BY DEF Heap!MoveLastTo
<1> HIDE DEF g, x
<1>4. /\ g \in Seq(E) /\ Len(g) = n - 1
      /\ \A k \in 1 .. n - 1 : g[k] = x[k]
  BY <1>1, <1>2, <1>3
<1> HIDE DEF n
<1>5. \A k \in 1 .. n - 1 : k \in 1 .. n /\ k # n
  BY <1>1
<1>6. \A k \in 1 .. n - 1 : g[k] = IF k = i THEN h[n] ELSE h[k]
  BY <1>2, <1>4, <1>5
<1>7. /\ \A e \in E : \E k \in 1 .. n : x[k] = e
      /\ \A j, k \in 1 .. n : x[j] = x[k] => j = k
      /\ \A k \in 1 .. n : x[k] \in E
  <2>1. Holds(x, E) /\ Len(x) = n
    BY <1>2
  <2>2. \A k \in 1 .. n : x[k] \in E
    BY <2>1, HoldsFacts
  <2> QED
    BY <2>1, <2>2 DEF Holds
<1>8. x[n] = h[i]
  BY <1>1, <1>2
<1>9. \A k \in 1 .. n - 1 : g[k] \in E \ {h[i]}
  BY <1>1, <1>4, <1>5, <1>7, <1>8
<1>10. g \in Seq(E \ {h[i]})
  <2>1. n - 1 \in Nat
    BY <1>1
  <2>2. g \in [1 .. n - 1 -> E]
    BY <1>4
  <2>3. g \in [1 .. n - 1 -> E \ {h[i]}]
    BY <1>9, <2>2
  <2> QED
    BY <2>1, <2>3
<1>11. \A e \in E \ {h[i]} : \E k \in 1 .. n - 1 : g[k] = e
  <2> TAKE e \in E \ {h[i]}
  <2>1. PICK k \in 1 .. n : x[k] = e
    BY <1>7
  <2>2. k # n
    BY <1>8, <2>1
  <2>3. k \in 1 .. n - 1
    BY <1>1, <2>2
  <2> QED
    BY <1>4, <2>1, <2>3
<1>12. \A j, k \in 1 .. n - 1 : g[j] = g[k] => j = k
  BY <1>4, <1>5, <1>7
<1>13. Holds(g, E \ {h[i]})
  BY <1>4, <1>10, <1>11, <1>12 DEF Holds
<1> QED
  BY <1>4, <1>6, <1>13 DEF g, n

(* The root of an ordered heap is the earliest event. *)
LEMMA RootIsEarliest ==
  ASSUME NEW E, Distinct(E), NEW h, Holds(h, E), h # <<>>, Ordered(h)
  PROVE  IsEarliest(h[1], E)
<1> DEFINE N == Len(h)
           T == {k \in Nat : k \in 2 .. N => KeyLess(h[1], h[k])}
<1>1. /\ N \in Nat /\ N >= 1 /\ 1 \in 1 .. N
      /\ \A k \in 1 .. N : h[k] \in Keys /\ h[k] \in E
  BY DEF Holds, Distinct
<1> HIDE DEF N
<1>2. ASSUME NEW k \in Nat, \A j \in 0 .. k - 1 : j \in T PROVE k \in T
  <2> SUFFICES ASSUME k \in 2 .. N PROVE KeyLess(h[1], h[k])
    OBVIOUS
  <2>1. KeyLess(h[k \div 2], h[k])
    BY DEF Ordered, N
  <2>2. /\ k \div 2 \in 1 .. N /\ k \div 2 \in 0 .. k - 1 /\ k \in 1 .. N
        /\ k \div 2 = 1 \/ k \div 2 \in 2 .. N
    BY <1>1
  <2>3. CASE k \div 2 = 1
    BY <2>1, <2>3
  <2>4. CASE k \div 2 \in 2 .. N
    <3>1. KeyLess(h[1], h[k \div 2])
      BY <1>2, <2>2, <2>4
    <3> QED
      BY <1>1, <2>1, <2>2, <3>1, KeyOrder
  <2> QED
    BY <2>2, <2>3, <2>4
<1>3. Nat \subseteq T
  <2> HIDE DEF T
  <2> QED
    BY <1>2, StrongInduction
<1>4. ASSUME NEW f \in E \ {h[1]} PROVE KeyLess(h[1], f)
  <2>1. PICK k \in 1 .. N : h[k] = f
    BY DEF Holds, N
  <2>2. k \in 2 .. N /\ k \in Nat
    BY <1>1, <2>1
  <2> QED
    BY <1>3, <2>1, <2>2
<1> QED
  BY <1>1, <1>4 DEF IsEarliest

LEMMA HeapInsert ==
  ASSUME NEW E, NEW e, e \notin E, Distinct(E \cup {e}), NEW h, Holds(h, E)
  PROVE  /\ Holds(Heap!BottomUp(Append(h, e)), E \cup {e})
         /\ Len(Heap!BottomUp(Append(h, e))) = Len(h) + 1
         /\ Ordered(h) => Ordered(Heap!BottomUp(Append(h, e)))
<1> DEFINE g == Append(h, e)
           N == Len(h)
<1>1. /\ Holds(g, E \cup {e}) /\ g # <<>> /\ Len(g) = N + 1
      /\ \A i \in 1 .. N : g[i] = h[i]
  BY AppendHolds
<1>2. N \in Nat
  BY DEF Holds
<1> HIDE DEF g
<1>3. Holds(Heap!BottomUp(g), E \cup {e}) /\ Len(Heap!BottomUp(g)) = Len(g)
  BY <1>1, BottomUpHolds
<1>4. ASSUME Ordered(h) PROVE Ordered(Heap!BottomUp(g))
  <2>1. ASSUME NEW k \in 2 .. N + 1, k # N + 1 PROVE KeyLess(g[k \div 2], g[k])
    <3>1. k \in 2 .. N /\ k \in 1 .. N /\ k \div 2 \in 1 .. N
      BY <1>2, <2>1
    <3>2. KeyLess(h[k \div 2], h[k])
      BY <1>4, <3>1 DEF Ordered
    <3> QED
      BY <1>1, <3>1, <3>2
  <2>2. \A k \in 2 .. N + 1 : k \div 2 # N + 1
    BY <1>2
  <2>3. OrderedAbove(g, Len(g))
    BY <1>1, <2>1, <2>2 DEF OrderedAbove
  <2> QED
    BY <1>1, <2>3, BottomUpOrders
<1> QED
  BY <1>1, <1>3, <1>4 DEF g

LEMMA HeapRemove ==
  ASSUME NEW E, Distinct(E), NEW h, Holds(h, E), NEW i \in 1 .. Len(h)
  PROVE  /\ Holds(Heap!TopDown(Heap!MoveLastTo(h, i), i), E \ {h[i]})
         /\ Len(Heap!TopDown(Heap!MoveLastTo(h, i), i)) = Len(h) - 1
<1> DEFINE g == Heap!MoveLastTo(h, i)
<1>1. Len(h) \in Nat
  BY DEF Holds
<1>2. Holds(g, E \ {h[i]}) /\ Len(g) = Len(h) - 1
  BY MoveLastHolds
<1>3. Distinct(E \ {h[i]}) /\ i \in 1 .. Len(g) + 1
  BY <1>1, <1>2 DEF Distinct
<1> HIDE DEF g
<1> QED
  BY <1>2, <1>3, TopDownHolds DEF g

LEMMA HeapRemoveNext ==
  ASSUME NEW E, Distinct(E), NEW h, Holds(h, E), h # <<>>, Ordered(h)
  PROVE  Ordered(Heap!TopDown(Heap!MoveLastTo(h, 1), 1))
<1> DEFINE g == Heap!MoveLastTo(h, 1)
           N == Len(h)
<1>1. N \in Nat /\ N >= 1 /\ 1 \in 1 .. N
  BY DEF Holds
<1>2. /\ Holds(g, E \ {h[1]}) /\ Len(g) = N - 1
      /\ \A k \in 1 .. N - 1 : g[k] = IF k = 1 THEN h[N] ELSE h[k]
  <2>1. Holds(g, E \ {h[1]}) /\ Len(g) = N - 1
    BY <1>1, MoveLastHolds
  <2>2. \A k \in 1 .. N - 1 : g[k] = IF k = 1 THEN h[N] ELSE h[k]
    <3>1. PICK r \in 1 .. Len(h) : r = 1
      BY <1>1
    <3>2. \A k \in 1 .. Len(h) - 1 :
            Heap!MoveLastTo(h, r)[k] = IF k = r THEN h[Len(h)] ELSE h[k]
      BY MoveLastHolds
    <3> QED
      BY <3>1, <3>2
  <2> QED
    BY <2>1, <2>2
<1>3. Distinct(E \ {h[1]})
  BY DEF Distinct
<1> HIDE DEF g
<1>4. ASSUME NEW k \in 2 .. N - 1, k \div 2 # 1 PROVE KeyLess(g[k \div 2], g[k])
  <2>1. k \in 2 .. N /\ k \in 1 .. N - 1 /\ k \div 2 \in 1 .. N - 1 /\ k # 1
    BY <1>1
  <2>2. KeyLess(h[k \div 2], h[k])
    BY <2>1 DEF Ordered
  <2> QED
    BY <1>2, <1>4, <2>1, <2>2
<1>5. OrderedBelow(g, 1)
  BY <1>2, <1>4 DEF OrderedBelow
<1>6. CASE g # <<>>
  BY <1>2, <1>3, <1>5, <1>6, TopDownOrders DEF g
<1>7. CASE g = <<>>
  <2>1. Len(Heap!TopDown(g, 1)) = 0
    <3>1. Len(g) = 0 /\ 1 \in 1 .. Len(g) + 1
      BY <1>7
    <3> QED
      BY <1>2, <1>3, <3>1, TopDownHolds
  <2> QED
    BY <2>1 DEF Ordered, g
<1> QED
  BY <1>6, <1>7

-------------------------------------------------------------------------------
(* Filling a heap and draining it. *)

Prefix(es, n) == {es[i] : i \in 1 .. n}

LEMMA PrefixFacts ==
  ASSUME NEW E, Distinct(E), NEW es, Holds(es, E)
  PROVE  /\ Prefix(es, 0) = {} /\ Prefix(es, Len(es)) = E
         /\ \A n \in 1 .. Len(es) :
              /\ es[n] \notin Prefix(es, n - 1)
              /\ Prefix(es, n) = Prefix(es, n - 1) \cup {es[n]}
              /\ Prefix(es, n) \subseteq E
              /\ Distinct(Prefix(es, n - 1) \cup {es[n]})
<1>1. /\ Len(es) \in Nat /\ \A i \in 1 .. Len(es) : es[i] \in E
      /\ \A e \in E : \E i \in 1 .. Len(es) : es[i] = e
      /\ \A i, j \in 1 .. Len(es) : es[i] = es[j] => i = j
  BY DEF Holds
<1>2. Prefix(es, 0) = {} /\ Prefix(es, Len(es)) = E
  BY <1>1 DEF Prefix
<1>3. ASSUME NEW n \in 1 .. Len(es)
      PROVE  /\ es[n] \notin Prefix(es, n - 1)
             /\ Prefix(es, n) = Prefix(es, n - 1) \cup {es[n]}
             /\ Prefix(es, n) \subseteq E
             /\ Distinct(Prefix(es, n - 1) \cup {es[n]})
  <2>1. \A i \in 1 .. n - 1 : i \in 1 .. Len(es) /\ i # n
    BY <1>1
  <2>2. es[n] \notin Prefix(es, n - 1)
    BY <1>1, <2>1 DEF Prefix
  <2>3. \A i : i \in 1 .. n <=> i \in 1 .. n - 1 \/ i = n
    BY <1>1
  <2>4. Prefix(es, n) = Prefix(es, n - 1) \cup {es[n]}
    BY <2>3 DEF Prefix
  <2>5. Prefix(es, n) \subseteq E
    BY <1>1, <2>1, <2>4 DEF Prefix
  <2>6. Distinct(Prefix(es, n))
    BY <2>5 DEF Distinct
  <2> QED
    BY <2>2, <2>4, <2>5, <2>6
<1> QED
  BY <1>2, <1>3

LEMMA HoldsNothing == Holds(<<>>, {}) /\ Ordered(<<>>)
  BY DEF Holds, Ordered

LEMMA WiderSeq ==
  ASSUME NEW E, NEW F, F \subseteq E, NEW s \in Seq(F)
  PROVE  s \in Seq(E)
  OBVIOUS

LEMMA HeapFills ==
  ASSUME NEW E, Distinct(E), NEW es, Holds(es, E)
  PROVE  LET h == HeapFill(es)[Len(es)] IN Holds(h, E) /\ Ordered(h) /\ Len(h) = Len(es)
<1> DEFINE N == Len(es)
           S == [n \in 0 .. N |->
                   {h \in Seq(E) : Holds(h, Prefix(es, n)) /\ Ordered(h) /\ Len(h) = n}]
           G == [p \in Nat \X Seq(E) |-> Heap!BottomUp(Append(p[2], es[p[1]]))]
           Rec(f) == f = [n \in 0 .. N |-> IF n = 0 THEN <<>>
                                           ELSE Heap!BottomUp(Append(f[n - 1], es[n]))]
<1>1. N \in Nat /\ \A n \in 1 .. N : n \in 0 .. N /\ n - 1 \in 0 .. N /\ n \in Nat /\ n # 0
  BY DEF Holds
<1>2. /\ \A n \in 0 .. N : \A h : h \in S[n] <=> /\ h \in Seq(E) /\ Holds(h, Prefix(es, n))
                                            /\ Ordered(h) /\ Len(h) = n
      /\ \A n \in Nat, h \in Seq(E) : G[<<n, h>>] = Heap!BottomUp(Append(h, es[n]))
  OBVIOUS
<1> HIDE DEF S, G
<1>3. <<>> \in S[0]
  <2>1. <<>> \in Seq(E) /\ Len(<<>>) = 0 /\ 0 \in 0 .. N
    BY <1>1
  <2>2. Prefix(es, 0) = {}
    BY PrefixFacts
  <2>3. Holds(<<>>, Prefix(es, 0)) /\ Ordered(<<>>)
    BY ONLY <2>2, HoldsNothing
  <2> QED
    BY <1>2, <2>1, <2>3
<1>4. ASSUME NEW n \in 1 .. N, NEW h \in S[n - 1]
      PROVE  Heap!BottomUp(Append(h, es[n])) \in S[n]
  <2> DEFINE P == Prefix(es, n - 1)
             t == Heap!BottomUp(Append(h, es[n]))
  <2>1. /\ es[n] \notin P /\ Prefix(es, n) = P \cup {es[n]} /\ Distinct(P \cup {es[n]})
        /\ P \cup {es[n]} \subseteq E
    BY PrefixFacts
  <2>2. Holds(h, P) /\ Ordered(h) /\ Len(h) = n - 1
    BY <1>1, <1>2
  <2> HIDE DEF P
  <2>3. Holds(t, P \cup {es[n]}) /\ Len(t) = Len(h) + 1 /\ Ordered(t)
    BY <2>1, <2>2, HeapInsert
  <2> HIDE DEF t
  <2>4. t \in Seq(E)
    BY <2>1, <2>3, WiderSeq DEF Holds
  <2>5. Len(t) = n
    BY <1>1, <2>2, <2>3
  <2>6. Holds(t, Prefix(es, n)) /\ Ordered(t)
    BY <2>1, <2>3
  <2>7. t \in S[n]
    BY ONLY <1>1, <1>2, <2>4, <2>5, <2>6
  <2> QED
    BY <2>7 DEF t
<1>5. ASSUME NEW n \in 1 .. N, NEW h \in S[n - 1]
      PROVE  G[<<n, h>>] = Heap!BottomUp(Append(h, es[n]))
  BY <1>1, <1>2
<1>6. Passing(G, S, N)
  BY <1>4, <1>5 DEF Passing
<1> DEFINE a == <<>>
<1>7. a \in S[0]
  BY <1>3
<1> HIDE DEF a, N
<1>8. PICK f : /\ f = [n \in 0 .. N |-> f[n]]
               /\ f[0] = a
               /\ \A n \in 0 .. N : f[n] \in S[n]
               /\ \A n \in 1 .. N : f[n] = G[<<n, f[n - 1]>>]
  BY <1>1, <1>6, <1>7, LoopRuns
<1>9. Rec(f)
  <2>1. \A n \in 1 .. N : f[n] = Heap!BottomUp(Append(f[n - 1], es[n]))
    BY <1>1, <1>5, <1>8
  <2>2. \A n \in 0 .. N : n = 0 \/ n \in 1 .. N
    BY <1>1
  <2> QED
    BY <1>8, <2>1, <2>2 DEF a
<1> DEFINE g == HeapFill(es)
<1>10. g = CHOOSE x : Rec(x)
  BY DEF HeapFill, N
<1>11. Rec(g)
  BY <1>9, <1>10
<1> HIDE DEF g
<1>12. g[0] = <<>> /\ \A n \in 1 .. N : g[n] = Heap!BottomUp(Append(g[n - 1], es[n]))
  <2>1. 0 \in 0 .. N
    BY <1>1
  <2> QED
    BY <1>1, <1>11, <2>1
<1>13. \A n \in 0 .. N : g[n] \in S[n]
  <2>1. g[0] \in S[0]
    BY <1>3, <1>12
  <2>2. \A n \in 1 .. N : g[n - 1] \in S[n - 1] => g[n] \in S[n]
    BY <1>4, <1>12
  <2> QED
    BY <1>1, <2>1, <2>2, LoopKeeps
<1>14. N \in 0 .. N
  BY <1>1
<1>15. Holds(g[N], Prefix(es, N)) /\ Ordered(g[N]) /\ Len(g[N]) = N
  BY <1>2, <1>13, <1>14
<1>16. Prefix(es, N) = E
  BY PrefixFacts DEF N
<1> QED
  BY <1>15, <1>16 DEF g, N

LEMMA HeapDrains ==
  ASSUME NEW E, Distinct(E), NEW h, Holds(h, E)
  PROVE  LET out == HeapDrain(h)[Len(h)].out IN Holds(out, E) /\ Len(out) = Len(h)
<1> DEFINE N == Len(h)
           R == [out : Seq(E), left : Seq(E)]
           S == [n \in 0 .. N |->
                   {s \in R : /\ \E D \in SUBSET E : Holds(s.out, D) /\ Holds(s.left, E \ D)
                              /\ Len(s.out) = n /\ Len(s.left) = N - n}]
           step(s) == [out  |-> Append(s.out, s.left[Heap!Root]),
                       left |-> Heap!TopDown(Heap!MoveLastTo(s.left, Heap!Root), Heap!Root)]
           G == [p \in Nat \X R |-> step(p[2])]
           a == [out |-> <<>>, left |-> h]
           Rec(f) == f = [n \in 0 .. N |-> IF n = 0 THEN a ELSE step(f[n - 1])]
<1>1. N \in Nat /\ \A n \in 1 .. N : n \in 0 .. N /\ n - 1 \in 0 .. N /\ n \in Nat /\ n # 0
  BY DEF Holds
<1>2. /\ \A n \in 0 .. N : \A s : s \in S[n] <=>
           /\ s \in R /\ \E D \in SUBSET E : Holds(s.out, D) /\ Holds(s.left, E \ D)
           /\ Len(s.out) = n /\ Len(s.left) = N - n
      /\ \A n \in Nat, s \in R : G[<<n, s>>] = step(s)
  OBVIOUS
<1> HIDE DEF S, G
<1>3. a \in S[0]
  <2>1. a \in R /\ Len(a.out) = 0 /\ Len(a.left) = N /\ 0 \in 0 .. N /\ N - 0 = N
    BY <1>1 DEF Holds
  <2>2. {} \in SUBSET E /\ Holds(a.out, {}) /\ Holds(a.left, E \ {})
    BY HoldsNothing
  <2> HIDE DEF a, N, R
  <2>3. \E D \in SUBSET E : Holds(a.out, D) /\ Holds(a.left, E \ D)
    BY <2>2
  <2> QED
    BY <1>2, <2>1, <2>3
<1>4. ASSUME NEW n \in 1 .. N, NEW s \in S[n - 1]
      PROVE  step(s) \in S[n] /\ s \in R
  <2>1. /\ s \in R /\ Len(s.out) = n - 1 /\ Len(s.left) = N - (n - 1)
        /\ \E D \in SUBSET E : Holds(s.out, D) /\ Holds(s.left, E \ D)
    BY <1>1, <1>2
  <2>2. PICK D \in SUBSET E : Holds(s.out, D) /\ Holds(s.left, E \ D)
    BY <2>1
  <2> DEFINE l == s.left
             e == l[1]
             t == Heap!TopDown(Heap!MoveLastTo(l, 1), 1)
             o == Append(s.out, e)
  <2>3. Holds(l, E \ D) /\ Len(l) = N - (n - 1) /\ Distinct(E \ D)
    BY <2>1, <2>2 DEF Distinct
  <2> HIDE DEF l
  <2>4. 1 \in 1 .. Len(l) /\ N - (n - 1) \in Nat /\ N - (n - 1) - 1 = N - n
    BY <1>1, <2>3
  <2>5. e \in E \ D
    BY <2>3, <2>4, HoldsFacts
  <2>6. Holds(t, (E \ D) \ {e}) /\ Len(t) = Len(l) - 1
    BY <2>3, <2>4, HeapRemove
  <2>7. Holds(o, D \cup {e}) /\ Len(o) = Len(s.out) + 1
    BY <2>2, <2>5, AppendHolds
  <2>8. (E \ D) \ {e} = E \ (D \cup {e}) /\ D \cup {e} \in SUBSET E
    BY <2>5
  <2>9. step(s) = [out |-> o, left |-> t]
    BY DEF Heap!Root, l
  <2> HIDE DEF o, t, e
  <2>10. o \in Seq(E) /\ t \in Seq(E)
    <3>1. o \in Seq(D \cup {e}) /\ t \in Seq(E \ (D \cup {e})) /\ E \ (D \cup {e}) \subseteq E
      BY <2>6, <2>7, <2>8 DEF Holds
    <3> QED
      BY <2>8, <3>1, WiderSeq
  <2>11. Len(o) = n /\ Len(t) = N - n
    BY <1>1, <2>1, <2>3, <2>4, <2>6, <2>7
  <2>12. [out |-> o, left |-> t] \in R
    BY <2>10
  <2> HIDE DEF R
  <2>13. \E C \in SUBSET E : Holds(o, C) /\ Holds(t, E \ C)
    BY <2>6, <2>7, <2>8
  <2>14. [out |-> o, left |-> t] \in S[n]
    BY <1>1, <1>2, <2>11, <2>12, <2>13
  <2> QED
    BY <2>1, <2>9, <2>14
<1> HIDE DEF step, R
<1>5. ASSUME NEW n \in 1 .. N, NEW s \in S[n - 1] PROVE G[<<n, s>>] = step(s)
  BY <1>1, <1>2, <1>4
<1>6. Passing(G, S, N)
  BY <1>4, <1>5 DEF Passing
<1> HIDE DEF a, N
<1>8. PICK f : /\ f = [n \in 0 .. N |-> f[n]]
               /\ f[0] = a
               /\ \A n \in 0 .. N : f[n] \in S[n]
               /\ \A n \in 1 .. N : f[n] = G[<<n, f[n - 1]>>]
  BY <1>1, <1>3, <1>6, LoopRuns
<1>9. Rec(f)
  <2>1. \A n \in 1 .. N : f[n] = step(f[n - 1])
    BY <1>1, <1>2, <1>4, <1>8
  <2>2. \A n \in 0 .. N : n = 0 \/ n \in 1 .. N
    BY <1>1
  <2> QED
    BY <1>8, <2>1, <2>2
<1> DEFINE g == HeapDrain(h)
<1>10. g = CHOOSE x : Rec(x)
  BY DEF HeapDrain, N, a, step
<1>11. Rec(g)
  BY <1>9, <1>10
<1> HIDE DEF g
<1>12. g[0] = a /\ \A n \in 1 .. N : g[n] = step(g[n - 1])
  <2>1. 0 \in 0 .. N
    BY <1>1
  <2> QED
    BY <1>1, <1>11, <2>1
<1>13. \A n \in 0 .. N : g[n] \in S[n]
  <2>1. g[0] \in S[0]
    BY <1>3, <1>12
  <2>2. \A n \in 1 .. N : g[n - 1] \in S[n - 1] => g[n] \in S[n]
    BY <1>4, <1>12
  <2> QED
    BY <1>1, <2>1, <2>2, LoopKeeps
<1>14. N \in 0 .. N /\ N - N = 0
  BY <1>1
<1>15. PICK D \in SUBSET E : /\ Holds(g[N].out, D) /\ Holds(g[N].left, E \ D)
                             /\ Len(g[N].out) = N /\ Len(g[N].left) = 0
  BY <1>2, <1>13, <1>14
<1>16. E \ D = {}
  BY <1>15 DEF Holds
<1>17. D = E
  BY <1>16
<1> QED
  BY <1>15, <1>17 DEF g, N

-------------------------------------------------------------------------------
(* The sorted list. *)

Sorted(l) == \A i, j \in 1 .. Len(l) : i < j => KeyLess(l[i], l[j])

LEMMA Joined ==
  ASSUME NEW E, NEW a \in Seq(E), NEW b \in Seq(E)
  PROVE  /\ a \o b \in Seq(E) /\ Len(a \o b) = Len(a) + Len(b)
         /\ \A k \in 1 .. Len(a) + Len(b) :
               (a \o b)[k] = IF k <= Len(a) THEN a[k] ELSE b[k - Len(a)]
  OBVIOUS

LEMMA InsertAtFacts ==
  ASSUME NEW E, NEW l \in Seq(E), NEW i \in 1 .. Len(l), NEW e \in E
  PROVE  /\ List!SE!InsertAt(l, i, e) \in Seq(E)
         /\ Len(List!SE!InsertAt(l, i, e)) = Len(l) + 1
         /\ \A k \in 1 .. Len(l) + 1 : List!SE!InsertAt(l, i, e)[k] =
               IF k < i THEN l[k] ELSE IF k = i THEN e ELSE l[k - 1]
<1> DEFINE a == SubSeq(l, 1, i - 1)
           b == <<e>>
           c == SubSeq(l, i, Len(l))
           N == Len(l)
<1>1. N \in Nat /\ i \in Nat /\ 1 <= i /\ i <= N
  OBVIOUS
<1>2. /\ a \in Seq(E) /\ Len(a) = i - 1 /\ \A k \in 1 .. i - 1 : a[k] = l[k]
      /\ b \in Seq(E) /\ Len(b) = 1 /\ b[1] = e
      /\ c \in Seq(E) /\ Len(c) = N - i + 1 /\ \A k \in 1 .. N - i + 1 : c[k] = l[i + k - 1]
  OBVIOUS
<1>3. List!SE!InsertAt(l, i, e) = a \o b \o c
  BY DEF List!SE!InsertAt
<1> HIDE DEF a, b, c
<1> DEFINE ab == a \o b
<1>4. ab \in Seq(E) /\ Len(ab) = i /\ \A k \in 1 .. i : ab[k] = IF k < i THEN l[k] ELSE e
  <2>1. /\ ab \in Seq(E) /\ Len(ab) = Len(a) + Len(b)
        /\ \A k \in 1 .. Len(a) + Len(b) : ab[k] = IF k <= Len(a) THEN a[k] ELSE b[k - Len(a)]
    BY <1>2, Joined
  <2>2. \A k \in 1 .. i : (k <= i - 1 /\ k \in 1 .. i - 1 /\ k < i) \/ (k = i /\ k - (i - 1) = 1)
    BY <1>1
  <2> QED
    BY <1>1, <1>2, <2>1, <2>2
<1> HIDE DEF ab
<1>5. /\ ab \o c \in Seq(E) /\ Len(ab \o c) = N + 1
      /\ \A k \in 1 .. N + 1 : (ab \o c)[k] = IF k <= i THEN ab[k] ELSE c[k - i]
  <2>1. /\ ab \o c \in Seq(E) /\ Len(ab \o c) = Len(ab) + Len(c)
        /\ \A k \in 1 .. Len(ab) + Len(c) :
              (ab \o c)[k] = IF k <= Len(ab) THEN ab[k] ELSE c[k - Len(ab)]
    BY <1>2, <1>4, Joined
  <2>2. Len(ab) + Len(c) = N + 1
    BY <1>1, <1>2, <1>4
  <2> QED
    BY <1>4, <2>1, <2>2
<1>6. \A k \in 1 .. N + 1 : (ab \o c)[k] = IF k < i THEN l[k] ELSE IF k = i THEN e ELSE l[k - 1]
  <2> TAKE k \in 1 .. N + 1
  <2>1. CASE k <= i
    BY <1>1, <1>4, <1>5, <2>1
  <2>2. CASE k > i
    <3>1. k - i \in 1 .. N - i + 1 /\ i + (k - i) - 1 = k - 1
      BY <1>1, <2>2
    <3> QED
      BY <1>1, <1>2, <1>5, <2>2, <3>1
  <2>3. k <= i \/ k > i
    BY <1>1
  <2> QED
    BY ONLY <2>1, <2>2, <2>3
<1> QED
  BY <1>3, <1>5, <1>6 DEF ab

LEMMA RemoveAtFacts ==
  ASSUME NEW E, NEW l \in Seq(E), NEW i \in 1 .. Len(l)
  PROVE  /\ List!SE!RemoveAt(l, i) \in Seq(E)
         /\ Len(List!SE!RemoveAt(l, i)) = Len(l) - 1
         /\ \A k \in 1 .. Len(l) - 1 : List!SE!RemoveAt(l, i)[k] =
               IF k < i THEN l[k] ELSE l[k + 1]
<1> DEFINE a == SubSeq(l, 1, i - 1)
           c == SubSeq(l, i + 1, Len(l))
           N == Len(l)
<1>1. N \in Nat /\ i \in Nat /\ 1 <= i /\ i <= N
  OBVIOUS
<1>2. /\ a \in Seq(E) /\ Len(a) = i - 1 /\ \A k \in 1 .. i - 1 : a[k] = l[k]
      /\ c \in Seq(E) /\ Len(c) = N - i /\ \A k \in 1 .. N - i : c[k] = l[i + k]
  OBVIOUS
<1>3. List!SE!RemoveAt(l, i) = a \o c
  BY DEF List!SE!RemoveAt
<1> HIDE DEF a, c
<1>4. /\ a \o c \in Seq(E) /\ Len(a \o c) = N - 1
      /\ \A k \in 1 .. N - 1 : (a \o c)[k] = IF k < i THEN a[k] ELSE c[k - (i - 1)]
  <2>1. /\ a \o c \in Seq(E) /\ Len(a \o c) = Len(a) + Len(c)
        /\ \A k \in 1 .. Len(a) + Len(c) :
              (a \o c)[k] = IF k <= Len(a) THEN a[k] ELSE c[k - Len(a)]
    BY <1>2, Joined
  <2>2. Len(a) + Len(c) = N - 1 /\ \A k \in 1 .. N - 1 : k <= i - 1 <=> k < i
    BY <1>1, <1>2
  <2> QED
    BY <1>2, <2>1, <2>2
<1>5. \A k \in 1 .. N - 1 : (a \o c)[k] = IF k < i THEN l[k] ELSE l[k + 1]
  <2> TAKE k \in 1 .. N - 1
  <2>1. CASE k < i
    BY <1>1, <1>2, <1>4, <2>1
  <2>2. CASE k >= i
    <3>1. k - (i - 1) \in 1 .. N - i /\ i + (k - (i - 1)) = k + 1
      BY <1>1, <2>2
    <3> QED
      BY <1>1, <1>2, <1>4, <2>2, <3>1
  <2>3. k < i \/ k >= i
    BY <1>1
  <2> QED
    BY ONLY <2>1, <2>2, <2>3
<1> QED
  BY <1>3, <1>4, <1>5

(* Where DoInsert puts an event: before the first one with a greater key. *)
LEMMA ListInserts ==
  ASSUME NEW E, NEW l \in Seq(E), NEW e
  PROVE  \/ /\ \A j \in 1 .. Len(l) : ~KeyLess(e, l[j])
            /\ List!DoInsert(l, e) = Append(l, e)
         \/ \E i \in 1 .. Len(l) : /\ KeyLess(e, l[i])
                                   /\ \A j \in 1 .. i - 1 : ~KeyLess(e, l[j])
                                   /\ List!DoInsert(l, e) = List!SE!InsertAt(l, i, e)
<1> DEFINE T == {i \in 1 .. Len(l) : List!KeyLess(e, l[i])}
           place == IF T # {} THEN List!SE!Min(T) ELSE 0
<1>1. List!DoInsert(l, e) = IF place = 0 THEN Append(l, e) ELSE List!SE!InsertAt(l, place, e)
  BY DEF List!DoInsert, List!SE!SelectInSeq
<1>2. Len(l) \in Nat /\ T = {i \in 1 .. Len(l) : KeyLess(e, l[i])}
  BY OneOrder
<1> HIDE DEF T
<1>3. CASE T = {}
  BY <1>1, <1>2, <1>3
<1>4. CASE T # {}
  <2>1. T \in SUBSET Nat
    BY <1>2
  <2>2. PICK x \in T : \A y \in T : x <= y
    BY <1>4, <2>1, LeastNumber
  <2> DEFINE i == List!SE!Min(T)
  <2>3. i \in T /\ \A y \in T : i <= y
    BY <2>2 DEF List!SE!Min
  <2> HIDE DEF i
  <2>4. i \in 1 .. Len(l) /\ i # 0 /\ KeyLess(e, l[i])
    BY <1>2, <2>3
  <2>5. place = i
    BY <1>4 DEF i
  <2>6. \A j \in 1 .. i - 1 : ~KeyLess(e, l[j])
    <3> SUFFICES ASSUME NEW j \in 1 .. i - 1, KeyLess(e, l[j]) PROVE FALSE
      OBVIOUS
    <3>1. j \in 1 .. Len(l) /\ ~(i <= j)
      BY <1>2, <2>4
    <3>2. j \in T
      BY <1>2, <3>1
    <3> QED
      BY <2>3, <3>1, <3>2
  <2> QED
    BY <1>1, <2>4, <2>5, <2>6
<1> QED
  BY <1>3, <1>4

(* Keys out of order in a sorted list do not occur: the places follow the keys. *)
LEMMA SortedFacts ==
  ASSUME NEW E, Distinct(E), NEW l, Holds(l, E), Sorted(l)
  PROVE  /\ Len(l) \in Nat /\ l \in Seq(E)
         /\ \A i \in 1 .. Len(l) : l[i] \in E /\ l[i] \in Keys
         /\ \A i, j \in 1 .. Len(l) : i < j => KeyLess(l[i], l[j])
  BY DEF Holds, Distinct, Sorted

LEMMA ListInsert ==
  ASSUME NEW E, NEW e, e \notin E, Distinct(E \cup {e}), NEW l, Holds(l, E), Sorted(l)
  PROVE  /\ Holds(List!DoInsert(l, e), E \cup {e})
         /\ Len(List!DoInsert(l, e)) = Len(l) + 1
         /\ Sorted(List!DoInsert(l, e))
<1> DEFINE N == Len(l)
           g == List!DoInsert(l, e)
           F == E \cup {e}
<1>1. /\ N \in Nat /\ l \in Seq(F) /\ e \in F /\ e \in Keys
      /\ \A i \in 1 .. N : l[i] \in E /\ l[i] \in Keys /\ l[i] # e
      /\ \A i, j \in 1 .. N : i < j => KeyLess(l[i], l[j])
  <2>1. Distinct(E)
    BY DEF Distinct
  <2>2. e \in Keys
    BY DEF Distinct
  <2>3. l \in Seq(F)
    BY DEF Holds
  <2> QED
    BY <2>1, <2>2, <2>3, SortedFacts
<1>2. \A i \in 1 .. N : KeyLess(e, l[i]) \/ KeyLess(l[i], e)
  BY <1>1, KeyTotal
<1>3. \E p \in 1 .. N + 1 :
        /\ \A j \in 1 .. N : j < p => KeyLess(l[j], e)
        /\ \A j \in 1 .. N : p <= j => KeyLess(e, l[j])
        /\ g \in Seq(F) /\ Len(g) = N + 1
        /\ \A k \in 1 .. N + 1 : g[k] = IF k < p THEN l[k] ELSE IF k = p THEN e ELSE l[k - 1]
  <2>1. CASE /\ \A j \in 1 .. N : ~KeyLess(e, l[j])
             /\ g = Append(l, e)
    <3>1. /\ g \in Seq(F) /\ Len(g) = N + 1 /\ g[N + 1] = e
          /\ \A k \in 1 .. N : g[k] = l[k]
      BY <1>1, <2>1
    <3>2. N + 1 \in 1 .. N + 1 /\ \A k \in 1 .. N + 1 : (k \in 1 .. N /\ k < N + 1) \/ (k = N + 1)
      BY <1>1
    <3>3. \A j \in 1 .. N : j < N + 1 /\ ~(N + 1 <= j)
      BY <1>1
    <3> HIDE DEF g, N, F
    <3>4. \A k \in 1 .. N + 1 : g[k] = IF k < N + 1 THEN l[k] ELSE IF k = N + 1 THEN e ELSE l[k - 1]
      BY <1>1, <3>1, <3>2
    <3> QED
      BY <1>2, <2>1, <3>1, <3>2, <3>3, <3>4
  <2>2. CASE \E i \in 1 .. N : /\ KeyLess(e, l[i])
                               /\ \A j \in 1 .. i - 1 : ~KeyLess(e, l[j])
                               /\ g = List!SE!InsertAt(l, i, e)
    <3>1. PICK i \in 1 .. N : /\ KeyLess(e, l[i])
                              /\ \A j \in 1 .. i - 1 : ~KeyLess(e, l[j])
                              /\ g = List!SE!InsertAt(l, i, e)
      BY <2>2
    <3> HIDE DEF g
    <3>2. /\ g \in Seq(F) /\ Len(g) = N + 1
          /\ \A k \in 1 .. N + 1 : g[k] = IF k < i THEN l[k] ELSE IF k = i THEN e ELSE l[k - 1]
      <4>1. List!SE!InsertAt(l, i, e) \in Seq(F)
        BY <1>1, InsertAtFacts
      <4>2. Len(List!SE!InsertAt(l, i, e)) = N + 1
        BY <1>1, InsertAtFacts
      <4>3. \A k \in 1 .. N + 1 : List!SE!InsertAt(l, i, e)[k] =
               IF k < i THEN l[k] ELSE IF k = i THEN e ELSE l[k - 1]
        <5>1. l \in Seq(F) /\ e \in F /\ i \in 1 .. Len(l)
          BY <1>1
        <5> HIDE DEF F
        <5> QED
          BY ONLY <5>1, InsertAtFacts DEF N
      <4> QED
        BY <3>1, <4>1, <4>2, <4>3
    <3> HIDE DEF N, F
    <3>3. i \in 1 .. N + 1 /\ \A j \in 1 .. N : (j < i => j \in 1 .. i - 1) /\ (i <= j => i = j \/ i < j)
      BY <1>1
    <3>4. \A j \in 1 .. N : j < i => KeyLess(l[j], e)
      BY <1>2, <3>1, <3>3
    <3>5. ASSUME NEW j \in 1 .. N, i <= j PROVE KeyLess(e, l[j])
      <4>1. CASE i = j
        BY <3>1, <4>1
      <4>2. CASE i < j
        <5>1. KeyLess(l[i], l[j])
          BY <1>1, <4>2
        <5>2. e \in Keys /\ l[i] \in Keys /\ l[j] \in Keys
          BY <1>1
        <5> QED
          BY <3>1, <5>1, <5>2, KeyOrder
      <4> QED
        BY <3>3, <3>5, <4>1, <4>2
    <3> QED
      BY <3>2, <3>3, <3>4, <3>5
  <2>3. l \in Seq(F)
    BY <1>1
  <2> HIDE DEF F
  <2>4. \/ /\ \A j \in 1 .. N : ~KeyLess(e, l[j])
           /\ g = Append(l, e)
        \/ \E i \in 1 .. N : /\ KeyLess(e, l[i])
                             /\ \A j \in 1 .. i - 1 : ~KeyLess(e, l[j])
                             /\ g = List!SE!InsertAt(l, i, e)
    BY <2>3, ListInserts
  <2> QED
    BY <2>1, <2>2, <2>4
<1> HIDE DEF g
<1>4. PICK p \in 1 .. N + 1 :
        /\ \A j \in 1 .. N : j < p => KeyLess(l[j], e)
        /\ \A j \in 1 .. N : p <= j => KeyLess(e, l[j])
        /\ g \in Seq(F) /\ Len(g) = N + 1
        /\ \A k \in 1 .. N + 1 : g[k] = IF k < p THEN l[k] ELSE IF k = p THEN e ELSE l[k - 1]
  BY <1>3
<1>5. /\ \A x \in E : \E i \in 1 .. N : l[i] = x
      /\ \A i, j \in 1 .. N : l[i] = l[j] => i = j
  BY DEF Holds
<1> HIDE DEF N
<1>6. \A k \in 1 .. N + 1 :
        \/ k < p /\ k \in 1 .. N /\ g[k] = l[k]
        \/ k = p /\ g[k] = e
        \/ k > p /\ k - 1 \in 1 .. N /\ p <= k - 1 /\ g[k] = l[k - 1]
  BY <1>1, <1>4
<1>7. ASSUME NEW x \in F PROVE \E i \in 1 .. N + 1 : g[i] = x
  <2>1. CASE x = e
    BY <1>1, <1>4, <2>1
  <2>2. CASE x \in E
    <3>1. PICK i \in 1 .. N : l[i] = x
      BY <1>5, <2>2
    <3>2. CASE i < p
      <4>1. i \in 1 .. N + 1
        BY <1>1
      <4> QED
        BY <1>4, <3>1, <3>2, <4>1
    <3>3. CASE ~(i < p)
      <4>1. i + 1 \in 1 .. N + 1 /\ ~(i + 1 < p) /\ i + 1 # p /\ (i + 1) - 1 = i
        BY <1>1, <3>3
      <4>2. g[i + 1] = l[(i + 1) - 1]
        BY <1>4, <4>1
      <4> QED
        BY <3>1, <4>1, <4>2
    <3> QED
      BY <3>2, <3>3
  <2> QED
    BY <2>1, <2>2
<1>8. ASSUME NEW i \in 1 .. N + 1, NEW j \in 1 .. N + 1, i < j PROVE KeyLess(g[i], g[j])
  <2>1. CASE j < p
    BY <1>1, <1>6, <1>8, <2>1
  <2>2. CASE j = p
    BY <1>1, <1>4, <1>6, <1>8, <2>2
  <2>3. CASE j > p
    <3>1. j - 1 \in 1 .. N /\ p <= j - 1 /\ g[j] = l[j - 1]
      BY <1>1, <1>6, <2>3
    <3>2. CASE i < p
      <4>1. i \in 1 .. N /\ i < j - 1 /\ g[i] = l[i]
        BY <1>1, <1>6, <3>1, <3>2
      <4> QED
        BY <1>1, <3>1, <4>1
    <3>3. CASE i = p
      BY <1>4, <3>1, <3>3
    <3>4. CASE i > p
      <4>1. i - 1 \in 1 .. N /\ i - 1 < j - 1 /\ g[i] = l[i - 1]
        BY <1>1, <1>6, <1>8, <3>4
      <4> QED
        BY <1>1, <3>1, <4>1
    <3> QED
      BY <1>1, <3>2, <3>3, <3>4
  <2> QED
    BY <1>1, <2>1, <2>2, <2>3
<1>9. \A i \in 1 .. N + 1 : g[i] \in Keys
  BY <1>1, <1>6
<1>10. ASSUME NEW i \in 1 .. N + 1, NEW j \in 1 .. N + 1, g[i] = g[j] PROVE i = j
  <2>1. ~KeyLess(g[i], g[j]) /\ ~KeyLess(g[j], g[i])
    BY <1>9, <1>10, KeyOrder
  <2> QED
    BY <1>1, <1>8, <2>1
<1> QED
  BY <1>4, <1>7, <1>8, <1>10 DEF Holds, Sorted, N, g

(* The sequence g is l without its i-th event. *)
LEMMA LeftOut ==
  ASSUME NEW E, Distinct(E), NEW l, Holds(l, E), Sorted(l), NEW i \in 1 .. Len(l),
         NEW g \in Seq(E), Len(g) = Len(l) - 1,
         \A k \in 1 .. Len(l) - 1 : g[k] = IF k < i THEN l[k] ELSE l[k + 1]
  PROVE  Holds(g, E \ {l[i]}) /\ Sorted(g)
<1> DEFINE N == Len(l)
           at(k) == IF k < i THEN k ELSE k + 1
<1>1. /\ N \in Nat
      /\ \A j \in 1 .. N : l[j] \in E /\ l[j] \in Keys
      /\ \A j, k \in 1 .. N : j < k => KeyLess(l[j], l[k])
  BY SortedFacts
<1>2. /\ \A e \in E : \E j \in 1 .. N : l[j] = e
      /\ \A j, k \in 1 .. N : l[j] = l[k] => j = k
  BY DEF Holds
<1>3. \A k \in 1 .. N - 1 : g[k] = l[at(k)] /\ at(k) \in 1 .. N /\ at(k) # i
  BY <1>1
<1>4. \A j, k \in 1 .. N - 1 : (j < k => at(j) < at(k)) /\ (at(j) = at(k) => j = k)
  BY <1>1
<1>5. \A j \in 1 .. N : j # i => \E k \in 1 .. N - 1 : at(k) = j
  <2> TAKE j \in 1 .. N
  <2> SUFFICES ASSUME j # i PROVE \E k \in 1 .. N - 1 : at(k) = j
    OBVIOUS
  <2>1. CASE j < i
    <3>1. j \in 1 .. N - 1 /\ at(j) = j
      BY <1>1, <2>1
    <3> QED
      BY <3>1
  <2>2. CASE j > i
    <3>1. j - 1 \in 1 .. N - 1 /\ at(j - 1) = j
      BY <1>1, <2>2
    <3> QED
      BY <3>1
  <2> QED
    BY <1>1, <2>1, <2>2
<1> HIDE DEF at
<1>6. \A k \in 1 .. N - 1 : g[k] \in E \ {l[i]}
  BY <1>1, <1>2, <1>3
<1>7. g \in Seq(E \ {l[i]})
  <2>1. g = [k \in 1 .. N - 1 |-> g[k]] /\ N - 1 \in Nat
    BY <1>1
  <2> QED
    BY <1>6, <2>1
<1>8. ASSUME NEW e \in E \ {l[i]} PROVE \E k \in 1 .. N - 1 : g[k] = e
  <2>1. PICK j \in 1 .. N : l[j] = e
    BY <1>2
  <2>2. j # i
    BY <2>1
  <2>3. PICK k \in 1 .. N - 1 : at(k) = j
    BY <1>5, <2>2
  <2> QED
    BY <1>3, <2>1, <2>3
<1>9. ASSUME NEW j \in 1 .. N - 1, NEW k \in 1 .. N - 1, g[j] = g[k] PROVE j = k
  <2>1. l[at(j)] = l[at(k)] /\ at(j) \in 1 .. N /\ at(k) \in 1 .. N
    BY <1>3, <1>9
  <2>2. at(j) = at(k)
    BY <1>2, <2>1
  <2> QED
    BY <1>4, <2>2
<1>10. \A j, k \in 1 .. N - 1 : j < k => KeyLess(g[j], g[k])
  BY <1>1, <1>3, <1>4
<1> QED
  BY <1>7, <1>8, <1>9, <1>10 DEF Holds, Sorted

LEMMA ListRemove ==
  ASSUME NEW E, Distinct(E), NEW l, Holds(l, E), Sorted(l), NEW i \in 1 .. Len(l)
  PROVE  /\ Holds(List!SE!RemoveAt(l, i), E \ {l[i]})
         /\ Sorted(List!SE!RemoveAt(l, i))
<1> DEFINE g == List!SE!RemoveAt(l, i)
<1>1. l \in Seq(E)
  BY DEF Holds
<1>2. g \in Seq(E)
  BY <1>1, RemoveAtFacts
<1>3. Len(g) = Len(l) - 1
  BY <1>1, RemoveAtFacts
<1>4. \A k \in 1 .. Len(l) - 1 : g[k] = IF k < i THEN l[k] ELSE l[k + 1]
  BY <1>1, RemoveAtFacts
<1> HIDE DEF g
<1>5. Holds(g, E \ {l[i]}) /\ Sorted(g)
  BY <1>2, <1>3, <1>4, LeftOut
<1> QED
  BY <1>5 DEF g

LEMMA ListRemoveNext ==
  ASSUME NEW E, Distinct(E), NEW l, Holds(l, E), Sorted(l), l # <<>>
  PROVE  /\ 1 \in 1 .. Len(l) /\ IsEarliest(l[1], E) /\ Head(l) = l[1]
         /\ Holds(Tail(l), E \ {l[1]}) /\ Sorted(Tail(l))
<1> DEFINE g == Tail(l)
<1>1. l \in Seq(E)
  BY DEF Holds
<1>2. /\ Len(l) \in Nat /\ 1 \in 1 .. Len(l)
      /\ \A j \in 1 .. Len(l) : l[j] \in E
  BY <1>1
<1>3. PICK i \in 1 .. Len(l) : i = 1
  BY <1>2
<1>4. /\ g \in Seq(E) /\ Len(g) = Len(l) - 1
      /\ \A k \in 1 .. Len(l) - 1 : g[k] = l[k + 1]
  BY <1>1, <1>2
<1>5. \A k \in 1 .. Len(l) - 1 : g[k] = IF k < i THEN l[k] ELSE l[k + 1]
  <2>1. \A k \in 1 .. Len(l) - 1 : ~(k < 1)
    BY <1>2
  <2> QED
    BY <1>3, <1>4, <2>1
<1> HIDE DEF g
<1>6. Holds(g, E \ {l[i]}) /\ Sorted(g)
  BY <1>4, <1>5, LeftOut
<1>7. ASSUME NEW f \in E \ {l[1]} PROVE KeyLess(l[1], f)
  <2>1. PICK j \in 1 .. Len(l) : l[j] = f
    BY DEF Holds
  <2>2. 1 < j
    BY <1>2, <2>1
  <2> QED
    BY <1>2, <2>1, <2>2 DEF Sorted
<1>8. IsEarliest(l[1], E)
  BY <1>2, <1>7 DEF IsEarliest
<1>9. Head(l) = l[1]
  BY <1>1
<1> QED
  BY <1>2, <1>3, <1>6, <1>8, <1>9 DEF g

LEMMA ListFills ==
  ASSUME NEW E, Distinct(E), NEW es, Holds(es, E)
  PROVE  Holds(ListFill(es)[Len(es)], E) /\ Sorted(ListFill(es)[Len(es)])
<1> DEFINE N == Len(es)
           S == [n \in 0 .. N |->
                   {h \in Seq(E) : Holds(h, Prefix(es, n)) /\ Sorted(h)}]
           G == [p \in Nat \X Seq(E) |-> List!DoInsert(p[2], es[p[1]])]
           Rec(f) == f = [n \in 0 .. N |-> IF n = 0 THEN <<>>
                                           ELSE List!DoInsert(f[n - 1], es[n])]
<1>1. N \in Nat /\ \A n \in 1 .. N : n \in 0 .. N /\ n - 1 \in 0 .. N /\ n \in Nat /\ n # 0
  BY DEF Holds
<1>2. /\ \A n \in 0 .. N : \A h : h \in S[n] <=> /\ h \in Seq(E) /\ Holds(h, Prefix(es, n))
                                            /\ Sorted(h)
      /\ \A n \in Nat, h \in Seq(E) : G[<<n, h>>] = List!DoInsert(h, es[n])
  OBVIOUS
<1> HIDE DEF S, G
<1>3. <<>> \in S[0]
  <2>1. <<>> \in Seq(E) /\ 0 \in 0 .. N
    BY <1>1
  <2>2. Prefix(es, 0) = {}
    BY PrefixFacts
  <2>3. Holds(<<>>, Prefix(es, 0)) /\ Sorted(<<>>)
    BY ONLY <2>2, HoldsNothing DEF Sorted
  <2> QED
    BY <1>2, <2>1, <2>3
<1>4. ASSUME NEW n \in 1 .. N, NEW h \in S[n - 1]
      PROVE  List!DoInsert(h, es[n]) \in S[n]
  <2> DEFINE P == Prefix(es, n - 1)
             t == List!DoInsert(h, es[n])
  <2>1. /\ es[n] \notin P /\ Prefix(es, n) = P \cup {es[n]} /\ Distinct(P \cup {es[n]})
        /\ P \cup {es[n]} \subseteq E
    BY PrefixFacts
  <2>2. Holds(h, P) /\ Sorted(h)
    BY <1>1, <1>2
  <2> HIDE DEF P
  <2>3. Holds(t, P \cup {es[n]}) /\ Sorted(t)
    BY <2>1, <2>2, ListInsert
  <2> HIDE DEF t
  <2>4. t \in Seq(E)
    BY <2>1, <2>3, WiderSeq DEF Holds
  <2>6. Holds(t, Prefix(es, n)) /\ Sorted(t)
    BY <2>1, <2>3
  <2>7. t \in S[n]
    BY ONLY <1>1, <1>2, <2>4, <2>6
  <2> QED
    BY <2>7 DEF t
<1>5. ASSUME NEW n \in 1 .. N, NEW h \in S[n - 1]
      PROVE  G[<<n, h>>] = List!DoInsert(h, es[n])
  BY <1>1, <1>2
<1>6. Passing(G, S, N)
  BY <1>4, <1>5 DEF Passing
<1> DEFINE a == <<>>
<1>7. a \in S[0]
  BY <1>3
<1> HIDE DEF a, N
<1>8. PICK f : /\ f = [n \in 0 .. N |-> f[n]]
               /\ f[0] = a
               /\ \A n \in 0 .. N : f[n] \in S[n]
               /\ \A n \in 1 .. N : f[n] = G[<<n, f[n - 1]>>]
  BY <1>1, <1>6, <1>7, LoopRuns
<1>9. Rec(f)
  <2>1. \A n \in 1 .. N : f[n] = List!DoInsert(f[n - 1], es[n])
    BY <1>1, <1>5, <1>8
  <2>2. \A n \in 0 .. N : n = 0 \/ n \in 1 .. N
    BY <1>1
  <2> QED
    BY <1>8, <2>1, <2>2 DEF a
<1> DEFINE g == ListFill(es)
<1>10. g = CHOOSE x : Rec(x)
  BY DEF ListFill, N
<1>11. Rec(g)
  BY <1>9, <1>10
<1> HIDE DEF g
<1>12. g[0] = <<>> /\ \A n \in 1 .. N : g[n] = List!DoInsert(g[n - 1], es[n])
  <2>1. 0 \in 0 .. N
    BY <1>1
  <2> QED
    BY <1>1, <1>11, <2>1
<1>13. \A n \in 0 .. N : g[n] \in S[n]
  <2>1. g[0] \in S[0]
    BY <1>3, <1>12
  <2>2. \A n \in 1 .. N : g[n - 1] \in S[n - 1] => g[n] \in S[n]
    BY <1>4, <1>12
  <2> QED
    BY <1>1, <2>1, <2>2, LoopKeeps
<1>14. N \in 0 .. N
  BY <1>1
<1>15. Holds(g[N], Prefix(es, N)) /\ Sorted(g[N])
  BY <1>2, <1>13, <1>14
<1>16. Prefix(es, N) = E
  BY PrefixFacts DEF N
<1> QED
  BY <1>15, <1>16 DEF g, N

-------------------------------------------------------------------------------
(* Days of a calendar. *)

(* The day of a time stamp, when a day is w long. *)
LEMMA DayOf ==
  ASSUME NEW w \in Nat \ {0}, NEW t \in Nat
  PROVE  /\ t \div w \in Nat
         /\ (t \div w) * w <= t
         /\ \A d \in Nat : t < (d + 1) * w <=> t \div w <= d
<1> DEFINE q == t \div w
           r == t % w
<1>0. q \in Nat /\ r \in 0 .. w - 1 /\ t = q * w + r
  BY Division
<1> HIDE DEF q, r
<1>1. q \in Nat /\ r \in 0 .. w - 1 /\ t = q * w + r /\ q * w \in Nat
  BY <1>0
<1>2. ASSUME NEW d \in Nat, q <= d PROVE t < (d + 1) * w
  <2>1. (q + 1) * w <= (d + 1) * w /\ (q + 1) * w = q * w + w /\ (d + 1) * w \in Nat
    BY <1>1, <1>2, Products
  <2> QED
    BY <1>1, <2>1
<1>3. ASSUME NEW d \in Nat, ~(q <= d) PROVE ~(t < (d + 1) * w)
  <2>1. (d + 1) * w <= q * w /\ (d + 1) * w \in Nat
    BY <1>1, <1>3, Products
  <2> QED
    BY <1>1, <2>1
<1> QED
  BY <1>1, <1>2, <1>3 DEF q

LEMMA LaterDay ==
  ASSUME NEW w \in Nat \ {0}, NEW s \in Nat, NEW t \in Nat, s <= t
  PROVE  s \div w <= t \div w
<1> DEFINE p == s \div w
           q == t \div w
<1>1. p \in Nat /\ q \in Nat /\ p * w <= s /\ (t < (q + 1) * w <=> q <= q)
  BY DayOf
<1> HIDE DEF p, q
<1>2. ~(q < p)
  <2> SUFFICES ASSUME q + 1 <= p PROVE FALSE
    BY <1>1
  <2>1. (q + 1) * w <= p * w /\ (q + 1) * w \in Nat /\ p * w \in Nat
    BY <1>1, Products
  <2> QED
    BY <1>1, <2>1
<1> QED
  BY <1>1, <1>2 DEF p, q

-------------------------------------------------------------------------------
(* The calendar. *)

(* The calendar of n days, each w long, with the events E in them, in which the
   search for the next event starts at the day of p. *)
Year(E, n, w, p) ==
    [buckets    |-> [i \in 0 .. n - 1 |-> {e \in E : Calendar!Hash(e.ts, n, w) = i}],
     n          |-> n,
     width      |-> w,
     lastBucket |-> Calendar!Hash(p, n, w),
     lastPrio   |-> p,
     top        |-> (p \div w + 1) * w]

LEMMA HashInYear ==
  ASSUME NEW t \in Nat, NEW n \in Nat \ {0}, NEW w \in Nat \ {0}
  PROVE  Calendar!Hash(t, n, w) \in 0 .. n - 1
<1>1. t \div w \in Nat
  BY Division
<1> QED
  BY <1>1, Division DEF Calendar!Hash

LEMMA YearBegins ==
  ASSUME NEW n, NEW w, NEW p
  PROVE  Calendar!InitCalendar(n, w, p) = Year({}, n, w, p)
  BY DEF Calendar!InitCalendar, Year

LEMMA YearFields ==
  ASSUME NEW E, NEW n, NEW w, NEW p
  PROVE  /\ Year(E, n, w, p).n = n
         /\ Year(E, n, w, p).width = w
         /\ Year(E, n, w, p).lastPrio = p
         /\ Year(E, n, w, p).lastBucket = Calendar!Hash(p, n, w)
         /\ Year(E, n, w, p).top = (p \div w + 1) * w
         /\ \A i \in 0 .. n - 1 :
               Year(E, n, w, p).buckets[i] = {e \in E : Calendar!Hash(e.ts, n, w) = i}
  BY DEF Year

LEMMA YearEvents ==
  ASSUME NEW E \in SUBSET Keys, NEW n \in Nat \ {0}, NEW w \in Nat \ {0}, NEW p
  PROVE  UNION {Year(E, n, w, p).buckets[i] : i \in 0 .. n - 1} = E
<1>1. \A e \in E : e.ts \in Nat
  BY DEF Keys
<1>2. \A e \in E : Calendar!Hash(e.ts, n, w) \in 0 .. n - 1
  BY <1>1, HashInYear
<1>3. \A e : e \in E <=> \E i \in 0 .. n - 1 : e \in Year(E, n, w, p).buckets[i]
  BY <1>2, YearFields
<1> QED
  BY <1>3

(* An event comes into or out of its day. *)

Into(c, b, e)  == [c EXCEPT !.buckets[b] = @ \cup {e}]
OutOf(c, b, e) == [c EXCEPT !.buckets[b] = @ \ {e}]

LEMMA YearGains ==
  ASSUME NEW E, NEW e, NEW n, NEW w, NEW p, NEW b, b = Calendar!Hash(e.ts, n, w)
  PROVE  Into(Year(E, n, w, p), b, e) = Year(E \cup {e}, n, w, p)
<1> DEFINE B(x) == [i \in 0 .. n - 1 |-> {f \in x : Calendar!Hash(f.ts, n, w) = i}]
           l == Calendar!Hash(p, n, w)
           t == (p \div w + 1) * w
           c(x) == [buckets |-> x, n |-> n, width |-> w,
                    lastBucket |-> l, lastPrio |-> p, top |-> t]
<1>1. ASSUME NEW i \in 0 .. n - 1, b # i PROVE B(E \cup {e})[i] = B(E)[i]
  BY <1>1
<1>2. ASSUME b \in 0 .. n - 1 PROVE B(E \cup {e})[b] = B(E)[b] \cup {e}
  BY <1>2
<1>3. \A x : B(x) = [i \in 0 .. n - 1 |-> B(x)[i]] /\ Year(x, n, w, p) = c(B(x))
  BY DEF Year
<1> HIDE DEF B
<1> DEFINE old == B(E)
           new == B(E \cup {e})
<1>4. [old EXCEPT ![b] = @ \cup {e}] = new
  BY <1>1, <1>2, <1>3
<1>5. Year(E, n, w, p) = c(old) /\ Year(E \cup {e}, n, w, p) = c(new)
  BY <1>3
<1> HIDE DEF old, new, l, t
<1>6. Into(c(old), b, e) = c([old EXCEPT ![b] = @ \cup {e}])
  BY DEF Into
<1>7. Into(c(old), b, e) = c(new)
  BY ONLY <1>4, <1>6
<1> HIDE DEF c
<1> QED
  BY <1>5, <1>7

LEMMA YearLoses ==
  ASSUME NEW E, NEW e, NEW n, NEW w, NEW p, NEW b, b = Calendar!Hash(e.ts, n, w)
  PROVE  OutOf(Year(E, n, w, p), b, e) = Year(E \ {e}, n, w, p)
<1> DEFINE B(x) == [i \in 0 .. n - 1 |-> {f \in x : Calendar!Hash(f.ts, n, w) = i}]
           l == Calendar!Hash(p, n, w)
           t == (p \div w + 1) * w
           c(x) == [buckets |-> x, n |-> n, width |-> w,
                    lastBucket |-> l, lastPrio |-> p, top |-> t]
<1>1. ASSUME NEW i \in 0 .. n - 1, b # i PROVE B(E \ {e})[i] = B(E)[i]
  BY <1>1
<1>2. ASSUME b \in 0 .. n - 1 PROVE B(E \ {e})[b] = B(E)[b] \ {e}
  BY <1>2
<1>3. \A x : B(x) = [i \in 0 .. n - 1 |-> B(x)[i]] /\ Year(x, n, w, p) = c(B(x))
  BY DEF Year
<1> HIDE DEF B
<1> DEFINE old == B(E)
           new == B(E \ {e})
<1>4. [old EXCEPT ![b] = @ \ {e}] = new
  BY <1>1, <1>2, <1>3
<1>5. Year(E, n, w, p) = c(old) /\ Year(E \ {e}, n, w, p) = c(new)
  BY <1>3
<1> HIDE DEF old, new, l, t
<1>6. OutOf(c(old), b, e) = c([old EXCEPT ![b] = @ \ {e}])
  BY DEF OutOf
<1>7. OutOf(c(old), b, e) = c(new)
  BY ONLY <1>4, <1>6
<1> HIDE DEF c
<1> QED
  BY <1>5, <1>7

LEMMA YearInserts ==
  ASSUME NEW E, NEW e, NEW n, NEW w, NEW p
  PROVE  Calendar!DoInsert(Year(E, n, w, p), e) = Year(E \cup {e}, n, w, p)
<1>1. Year(E, n, w, p).n = n /\ Year(E, n, w, p).width = w
  BY YearFields
<1> DEFINE b == Calendar!Hash(e.ts, n, w)
<1>2. Into(Year(E, n, w, p), b, e) = Year(E \cup {e}, n, w, p)
  <2>1. b = Calendar!Hash(e.ts, n, w)
    OBVIOUS
  <2> HIDE DEF b
  <2> QED
    BY <2>1, YearGains
<1> DEFINE y == Year(E, n, w, p)
<1> HIDE DEF y
<1>3. Calendar!DoInsert(y, e) = Into(y, Calendar!Hash(e.ts, y.n, y.width), e)
  BY DEF Calendar!DoInsert, Into
<1> QED
  BY <1>1, <1>2, <1>3 DEF y

LEMMA YearResizes ==
  ASSUME NEW E \in SUBSET Keys, NEW n \in Nat \ {0}, NEW w \in Nat \ {0}, NEW p, NEW m, NEW v
  PROVE  Calendar!DoResize(Year(E, n, w, p), m, v) = Year(E, m, v, p)
<1>1. /\ Year(E, n, w, p).n = n /\ Year(E, n, w, p).lastPrio = p
      /\ UNION {Year(E, n, w, p).buckets[i] : i \in 0 .. n - 1} = E
  BY YearFields, YearEvents
<1> DEFINE y == Year(E, n, w, p)
<1> HIDE DEF y
<1>2. Calendar!DoResize(y, m, v) =
        [Calendar!InitCalendar(m, v, p) EXCEPT
           !.buckets = [i \in 0 .. m - 1 |-> {e \in E : Calendar!Hash(e.ts, m, v) = i}]]
  BY <1>1 DEF Calendar!DoResize, y
<1> QED
  BY <1>2 DEF Calendar!InitCalendar, Year, y

LEMMA EarliestExists ==
  ASSUME NEW E, Distinct(E), E # {}
  PROVE  IsEarliest(Calendar!Earliest(E), E)
<1>1. \A e \in E : e \in Keys /\ e.ts \in Nat /\ e.uid \in Nat
  BY DEF Distinct, Keys
<1> DEFINE T == {t \in Nat : \E e \in E : e.ts = t}
<1>2. T \in SUBSET Nat /\ T # {}
  BY <1>1
<1>3. PICK t \in T : \A s \in T : t <= s
  BY <1>2, LeastNumber
<1> DEFINE U == {u \in Nat : \E e \in E : e.ts = t /\ e.uid = u}
<1>4. U \in SUBSET Nat /\ U # {}
  BY <1>1, <1>3
<1>5. PICK u \in U : \A v \in U : u <= v
  BY <1>4, LeastNumber
<1>6. PICK e \in E : e.ts = t /\ e.uid = u
  BY <1>5
<1>7. ASSUME NEW f \in E \ {e} PROVE KeyLess(e, f)
  <2>1. f.ts \in T /\ t <= f.ts /\ e.uid # f.uid
    BY <1>1, <1>3, <1>7 DEF Distinct
  <2>2. CASE f.ts = t
    <3>1. f.uid \in U
      BY <1>1, <2>2
    <3> QED
      BY <1>1, <1>5, <1>6, <2>1, <2>2, <3>1 DEF KeyLess
  <2>3. CASE f.ts # t
    BY <1>1, <1>6, <2>1, <2>3 DEF KeyLess
  <2> QED
    BY <2>2, <2>3
<1>8. IsEarliest(e, E)
  BY <1>6, <1>7 DEF IsEarliest
<1>9. \E x \in E : Calendar!IsEarliest(x, E)
  BY <1>6, <1>8, OneOrder
<1>10. Calendar!IsEarliest(Calendar!Earliest(E), E)
  BY <1>9 DEF Calendar!Earliest
<1> QED
  BY <1>10, OneOrder

(* The events E are all at or after p, in n days of length w. *)
Pending(E, n, w, p) ==
    /\ Distinct(E) /\ n \in Nat \ {0} /\ w \in Nat \ {0} /\ p \in Nat
    /\ \A e \in E : e.ts >= p

(* The day on which the events are, counted from the beginning of time. *)
DayNo(e, w) == e.ts \div w

(* The bucket of the k-th day from that of p, and the events in it. *)
Turn(p, w, n, k) == (p \div w + k) % n
OnDay(E, w, n, d) == {e \in E : DayNo(e, w) % n = d}

LEMMA DayNumbers ==
  ASSUME NEW E, NEW n, NEW w, NEW p, Pending(E, n, w, p)
  PROVE  /\ p \div w \in Nat
         /\ \A e \in E : /\ e \in Keys /\ e.ts \in Nat /\ DayNo(e, w) \in Nat
                         /\ p \div w <= DayNo(e, w)
                         /\ Calendar!Hash(e.ts, n, w) = DayNo(e, w) % n
<1> USE DEF Pending
<1>1. p \div w \in Nat
  BY Division
<1>2. ASSUME NEW e \in E
      PROVE  /\ e \in Keys /\ e.ts \in Nat /\ DayNo(e, w) \in Nat
             /\ p \div w <= DayNo(e, w)
             /\ Calendar!Hash(e.ts, n, w) = DayNo(e, w) % n
  <2>1. e \in Keys /\ e.ts \in Nat /\ p <= e.ts
    BY DEF Distinct, Keys
  <2>2. e.ts \div w \in Nat
    BY <2>1, Division
  <2>3. p \div w <= e.ts \div w
    BY <2>1, LaterDay
  <2> QED
    BY <2>1, <2>2, <2>3 DEF DayNo, Calendar!Hash
<1> QED
  BY <1>1, <1>2

LEMMA DayBuckets ==
  ASSUME NEW E, NEW n, NEW w, NEW p, Pending(E, n, w, p), NEW k \in 0 .. n - 1
  PROVE  /\ Calendar!Day(Year(E, n, w, p), k) = Turn(p, w, n, k)
         /\ Turn(p, w, n, k) \in 0 .. n - 1
         /\ Year(E, n, w, p).buckets[Calendar!Day(Year(E, n, w, p), k)]
              = OnDay(E, w, n, Turn(p, w, n, k))
<1> DEFINE c == Year(E, n, w, p)
           d == Turn(p, w, n, k)
<1>0. n \in Nat \ {0} /\ w \in Nat \ {0} /\ p \in Nat
  BY DEF Pending
<1>1. p \div w \in Nat /\ \A e \in E : Calendar!Hash(e.ts, n, w) = DayNo(e, w) % n
  BY DayNumbers
<1>2. /\ c.n = n /\ c.lastBucket = (p \div w) % n
      /\ \A i \in 0 .. n - 1 : c.buckets[i] = {e \in E : Calendar!Hash(e.ts, n, w) = i}
  BY YearFields DEF Calendar!Hash
<1>3. k \in Nat /\ p \div w + k \in Nat
  BY <1>0, <1>1
<1>4. d \in 0 .. n - 1
  BY <1>0, <1>3, Division DEF Turn
<1>5. (((p \div w) % n) + k) % n = d
  BY <1>0, <1>1, <1>3, RemainderOfSum DEF Turn
<1> HIDE DEF c
<1>6. Calendar!Day(c, k) = d
  BY <1>2, <1>5 DEF Calendar!Day
<1> HIDE DEF d
<1>7. c.buckets[d] = OnDay(E, w, n, d)
  BY <1>1, <1>2, <1>4 DEF OnDay
<1> QED
  BY <1>4, <1>6, <1>7 DEF c, d

(* The k-th day is hit when it has an event, and then its earliest event comes
   before all others of that day. *)
LEMMA DayHit ==
  ASSUME NEW E, NEW n, NEW w, NEW p, Pending(E, n, w, p), NEW k \in 0 .. n - 1, NEW e,
         e = Calendar!Earliest(Year(E, n, w, p).buckets[Calendar!Day(Year(E, n, w, p), k)])
  PROVE  /\ Calendar!Hit(Year(E, n, w, p), k) <=> \E f \in E : DayNo(f, w) = p \div w + k
         /\ Calendar!Hit(Year(E, n, w, p), k) =>
               /\ e \in E /\ DayNo(e, w) = p \div w + k
               /\ \A f \in E \ {e} : DayNo(f, w) = p \div w + k => KeyLess(e, f)
<1> DEFINE c == Year(E, n, w, p)
           P == p \div w
           q == OnDay(E, w, n, Turn(p, w, n, k))
<1>0. n \in Nat \ {0} /\ w \in Nat \ {0} /\ p \in Nat /\ k \in Nat /\ k < n
  BY DEF Pending
<1>1. c.buckets[Calendar!Day(c, k)] = q
  BY DayBuckets
<1>2. c.width = w /\ c.top = (P + 1) * w
  BY YearFields
<1>3. /\ P \in Nat
      /\ \A f \in E : f \in Keys /\ f.ts \in Nat /\ DayNo(f, w) \in Nat /\ P <= DayNo(f, w)
  BY DayNumbers
<1>a. \A f : f \in q <=> f \in E /\ DayNo(f, w) % n = (P + k) % n
  BY DEF OnDay, Turn
<1> HIDE DEF c, P, q
<1>4. Calendar!Hit(c, k) <=> q # {} /\ e.ts < (P + 1) * w + k * w
  BY <1>1, <1>2 DEF Calendar!Hit, c
<1>5. (P + 1) * w + k * w = ((P + k) + 1) * w /\ P + k \in Nat
  BY <1>0, <1>3
<1>6. q # {} => IsEarliest(e, q)
  <2>1. Distinct(q)
    BY <1>a DEF Distinct, Pending
  <2> QED
    BY <1>1, <2>1, EarliestExists DEF c
<1>7. \A f \in E : f.ts < ((P + k) + 1) * w <=> DayNo(f, w) <= P + k
  BY <1>0, <1>3, <1>5, DayOf DEF DayNo
<1>8. \A f \in q : f \in E /\ (DayNo(f, w) <= P + k => DayNo(f, w) = P + k)
  <2> TAKE f \in q
  <2>1. f \in E /\ DayNo(f, w) % n = (P + k) % n
    BY <1>a
  <2>2. ASSUME DayNo(f, w) <= P + k PROVE DayNo(f, w) = P + k
    <3>1. /\ DayNo(f, w) \in Nat /\ P + k \in Nat /\ DayNo(f, w) <= P + k
          /\ P + k < DayNo(f, w) + n
      BY <1>0, <1>3, <1>5, <2>1, <2>2
    <3> QED
      BY <1>0, <2>1, <3>1, SameRemainder
  <2> QED
    BY <2>1, <2>2
<1>9. \A f \in E : DayNo(f, w) = P + k => f \in q
  BY <1>a
<1>10. Calendar!Hit(c, k) =>
         /\ e \in E /\ DayNo(e, w) = P + k
         /\ \A f \in E \ {e} : DayNo(f, w) = P + k => KeyLess(e, f)
  BY <1>4, <1>5, <1>6, <1>7, <1>8, <1>9 DEF IsEarliest
<1>11. ASSUME NEW f \in E, DayNo(f, w) = P + k PROVE Calendar!Hit(c, k)
  <2>1. f \in q /\ q # {} /\ e \in q /\ e \in E
    BY <1>6, <1>8, <1>9, <1>11 DEF IsEarliest
  <2>2. f.ts < ((P + k) + 1) * w
    BY <1>3, <1>5, <1>7, <1>11
  <2>3. e.ts <= f.ts
    <3>1. e = f \/ KeyLess(e, f)
      BY <1>6, <2>1 DEF IsEarliest
    <3>2. e.ts \in Nat /\ f.ts \in Nat
      BY <1>3, <2>1
    <3> QED
      BY <3>1, <3>2 DEF KeyLess
  <2>4. e.ts < ((P + k) + 1) * w
    <3>1. e.ts \in Nat /\ f.ts \in Nat /\ ((P + k) + 1) * w \in Nat
      BY <1>0, <1>3, <1>5, <2>1
    <3> QED
      BY <2>2, <2>3, <3>1
  <2> QED
    BY <1>4, <1>5, <2>1, <2>4
<1> QED
  BY <1>10, <1>11 DEF c, P

(* An event goes out, and its day becomes the current one. *)
OutAt(c, b, e, u, t) == [c EXCEPT !.buckets[b] = @ \ {e}, !.lastBucket = b,
                                  !.lastPrio = u, !.top = t]

DayEnd(u, w) == (u \div w + 1) * w

CalendarOf(x, n, w, l, p, t) ==
    [buckets |-> x, n |-> n, width |-> w, lastBucket |-> l, lastPrio |-> p, top |-> t]

LEMMA FieldsChange ==
  ASSUME NEW B, NEW n, NEW w, NEW l, NEW p, NEW s, NEW b, NEW e, NEW u, NEW t
  PROVE  OutAt(CalendarOf(B, n, w, l, p, s), b, e, u, t)
           = CalendarOf([B EXCEPT ![b] = @ \ {e}], n, w, b, u, t)
<1> DEFINE F == {"buckets", "n", "width", "lastBucket", "lastPrio", "top"}
           X == [B EXCEPT ![b] = @ \ {e}]
           r == OutAt(CalendarOf(B, n, w, l, p, s), b, e, u, t)
           d == CalendarOf(X, n, w, b, u, t)
<1> USE DEF OutAt, CalendarOf
<1>1. r = [k \in F |-> r[k]]
  OBVIOUS
<1>2. r["n"] = n /\ r["width"] = w
  OBVIOUS
<1>3. r["buckets"] = X
  OBVIOUS
<1>4. r["lastBucket"] = b /\ r["lastPrio"] = u /\ r["top"] = t
  OBVIOUS
<1>5. d = [k \in F |-> d[k]]
  OBVIOUS
<1>6. /\ d["n"] = n /\ d["width"] = w /\ d["buckets"] = X
      /\ d["lastBucket"] = b /\ d["lastPrio"] = u /\ d["top"] = t
  OBVIOUS
<1> HIDE DEF r, d
<1>7. \A k \in F : r[k] = d[k]
  BY <1>2, <1>3, <1>4, <1>6
<1>8. r = d
  BY <1>1, <1>5, <1>7
<1> QED
  BY <1>8 DEF r, d

LEMMA YearMoves ==
  ASSUME NEW E, NEW e, NEW n, NEW w, NEW p, NEW u, u = e.ts,
         NEW b, b = Calendar!Hash(u, n, w), NEW t, t = DayEnd(u, w),
         NEW F, F = E \ {e}
  PROVE  OutAt(Year(E, n, w, p), b, e, u, t) = Year(F, n, w, u)
<1> DEFINE B(x) == [i \in 0 .. n - 1 |-> {f \in x : Calendar!Hash(f.ts, n, w) = i}]
           l == Calendar!Hash(p, n, w)
           s == (p \div w + 1) * w
<1>1. ASSUME NEW i \in 0 .. n - 1, b # i PROVE B(E \ {e})[i] = B(E)[i]
  BY <1>1
<1>2. ASSUME b \in 0 .. n - 1 PROVE B(E \ {e})[b] = B(E)[b] \ {e}
  BY <1>2
<1>3. /\ \A x : B(x) = [i \in 0 .. n - 1 |-> B(x)[i]]
      /\ Year(E, n, w, p) = CalendarOf(B(E), n, w, l, p, s)
      /\ Year(E \ {e}, n, w, u) = CalendarOf(B(E \ {e}), n, w, b, u, t)
  BY DEF Year, CalendarOf, DayEnd
<1> HIDE DEF B
<1> DEFINE old == B(E)
           new == B(E \ {e})
<1>4. [old EXCEPT ![b] = @ \ {e}] = new
  BY <1>1, <1>2, <1>3
<1>5. Year(E, n, w, p) = CalendarOf(old, n, w, l, p, s)
  BY <1>3
<1>6. Year(E \ {e}, n, w, u) = CalendarOf(new, n, w, b, u, t)
  BY <1>3
<1> HIDE DEF old, new, l, s
<1>7. OutAt(CalendarOf(old, n, w, l, p, s), b, e, u, t)
        = CalendarOf([old EXCEPT ![b] = @ \ {e}], n, w, b, u, t)
  BY FieldsChange
<1>8. OutAt(Year(E, n, w, p), b, e, u, t) = Year(E \ {e}, n, w, u)
  BY ONLY <1>4, <1>5, <1>6, <1>7
<1> QED
  BY <1>8

LEMMA YearRemoves ==
  ASSUME NEW E, NEW n, NEW w, NEW p, Pending(E, n, w, p), E # {}, NEW r,
         r = Calendar!DoRemoveNext(Year(E, n, w, p))
  PROVE  /\ IsEarliest(r.event, E)
         /\ r.cal = Year(E \ {r.event}, n, w, r.event.ts)
<1> DEFINE c == Year(E, n, w, p)
           P == p \div w
<1>0. n \in Nat \ {0} /\ w \in Nat \ {0} /\ p \in Nat /\ Distinct(E)
  BY DEF Pending
<1>1. /\ P \in Nat
      /\ \A f \in E : /\ f \in Keys /\ f.ts \in Nat /\ DayNo(f, w) \in Nat /\ P <= DayNo(f, w)
                      /\ Calendar!Hash(f.ts, n, w) = DayNo(f, w) % n
  BY DayNumbers
<1>2. c.n = n /\ c.width = w /\ c.top = (P + 1) * w
  BY YearFields
<1> HIDE DEF P, c
<1>3. CASE \E k \in 0 .. n - 1 : Calendar!Hit(c, k)
  <2> DEFINE T == {k \in 0 .. n - 1 : Calendar!Hit(c, k)}
             k == Calendar!FirstHit(c)
             e == Calendar!Earliest(c.buckets[Calendar!Day(c, k)])
             d == Calendar!Day(c, k)
  <2>1. PICK x \in T : \A y \in T : x <= y
    <3>1. T \in SUBSET Nat /\ T # {}
      BY <1>0, <1>3
    <3> QED
      BY <3>1, LeastNumber
  <2>2. /\ k \in 0 .. n - 1 /\ Calendar!Hit(c, k)
        /\ \A j \in 0 .. n - 1 : Calendar!Hit(c, j) => k <= j
    BY <1>2, <2>1 DEF Calendar!FirstHit
  <2>3. r = [event |-> e,
             cal   |-> [c EXCEPT !.buckets[d] = @ \ {e}, !.lastBucket = d,
                                 !.lastPrio = e.ts, !.top = @ + k * c.width]]
    BY <1>2, <1>3 DEF Calendar!DoRemoveNext, c
  <2> HIDE DEF k
  <2>4. e \in E /\ DayNo(e, w) = P + k
        /\ \A f \in E \ {e} : DayNo(f, w) = P + k => KeyLess(e, f)
    <3> HIDE DEF e, d
    <3>1. e = Calendar!Earliest(Year(E, n, w, p).buckets[Calendar!Day(Year(E, n, w, p), k)])
      BY DEF e, c
    <3>2. Calendar!Hit(Year(E, n, w, p), k)
      BY <2>2 DEF c
    <3> QED
      BY <2>2, <3>1, <3>2, DayHit DEF P
  <2>5. d = Turn(p, w, n, k)
    BY <2>2, DayBuckets DEF c
  <2> HIDE DEF e, d
  <2>6. ASSUME NEW f \in E \ {e} PROVE KeyLess(e, f)
    <3>1. ~(DayNo(f, w) < P + k)
      <4> SUFFICES ASSUME DayNo(f, w) < P + k PROVE FALSE
        OBVIOUS
      <4>1. PICK j \in 0 .. n - 1 : DayNo(f, w) = P + j /\ ~(k <= j)
        <5>1. /\ DayNo(f, w) - P \in 0 .. n - 1 /\ DayNo(f, w) = P + (DayNo(f, w) - P)
              /\ ~(k <= DayNo(f, w) - P)
          BY <1>0, <1>1, <2>2
        <5> QED
          BY <5>1
      <4>2. Calendar!Hit(Year(E, n, w, p), j)
        <5>1. \E g \in E : DayNo(g, w) = p \div w + j
          BY <4>1 DEF P
        <5> QED
          BY <5>1, DayHit
      <4> QED
        BY <2>2, <4>1, <4>2 DEF c
    <3>2. CASE DayNo(f, w) = P + k
      BY <2>4, <3>2
    <3>3. CASE DayNo(f, w) > P + k
      <4>1. e.ts \in Nat /\ f.ts \in Nat /\ DayNo(e, w) \in Nat /\ DayNo(f, w) \in Nat
        BY <1>1, <2>4
      <4>2. DayNo(f, w) > DayNo(e, w)
        BY <2>4, <3>3
      <4>3. ~(f.ts <= e.ts)
        <5> SUFFICES ASSUME f.ts <= e.ts PROVE FALSE
          OBVIOUS
        <5>1. f.ts \div w <= e.ts \div w
          BY <1>0, <4>1, LaterDay
        <5> QED
          BY <4>1, <4>2, <5>1 DEF DayNo
      <4> QED
        BY <4>1, <4>3 DEF KeyLess
    <3> QED
      BY <1>0, <1>1, <2>2, <3>1, <3>2, <3>3
  <2>7. IsEarliest(e, E)
    BY <2>4, <2>6 DEF IsEarliest
  <2>8. d = Calendar!Hash(e.ts, n, w)
    BY <1>1, <2>4, <2>5 DEF Turn, P
  <2>9. c.top + k * c.width = (e.ts \div w + 1) * w
    <3>1. e.ts \div w = P + k
      BY <2>4 DEF DayNo
    <3>2. k \in Nat /\ w \in Nat
      BY <1>0, <2>2
    <3>3. (P + 1) * w + k * w = ((P + k) + 1) * w
      BY <1>1, <3>2
    <3> QED
      BY <1>2, <3>1, <3>3
  <2> DEFINE t == c.top + k * c.width
  <2>10. r = [event |-> e, cal |-> OutAt(c, d, e, e.ts, t)]
    BY <2>3 DEF OutAt
  <2> HIDE DEF t
  <2>11. OutAt(c, d, e, e.ts, t) = Year(E \ {e}, n, w, e.ts)
    <3>1. t = DayEnd(e.ts, w)
      BY <2>9 DEF t, DayEnd
    <3> DEFINE u == e.ts
               F == E \ {e}
    <3>2. /\ u = e.ts /\ F = E \ {e}
          /\ d = Calendar!Hash(u, n, w) /\ t = DayEnd(u, w)
      BY <2>8, <3>1
    <3> HIDE DEF u, F
    <3>3. OutAt(Year(E, n, w, p), d, e, u, t) = Year(F, n, w, u)
      BY ONLY <3>2, YearMoves
    <3> QED
      BY <3>3 DEF c, u, F
  <2> QED
    BY <2>7, <2>10, <2>11
<1>4. CASE ~\E k \in 0 .. n - 1 : Calendar!Hit(c, k)
  <2> DEFINE e == Calendar!Earliest(UNION {c.buckets[d] : d \in 0 .. n - 1})
             b == Calendar!Hash(e.ts, n, w)
             t == (e.ts \div w + 1) * w
  <2>1. UNION {c.buckets[d] : d \in 0 .. n - 1} = E
    <3>1. E \in SUBSET Keys
      BY <1>0 DEF Distinct
    <3> QED
      BY <1>0, <3>1, YearEvents DEF c
  <2>2. r = [event |-> e, cal |-> OutAt(c, b, e, e.ts, t)]
    BY <1>2, <1>4 DEF Calendar!DoRemoveNext, c, OutAt
  <2>3. IsEarliest(e, E)
    BY <1>0, <2>1, EarliestExists
  <2> HIDE DEF e
  <2>4. b = Calendar!Hash(e.ts, n, w) /\ t = (e.ts \div w + 1) * w
    OBVIOUS
  <2> HIDE DEF b, t
  <2>5. OutAt(c, b, e, e.ts, t) = Year(E \ {e}, n, w, e.ts)
    <3>1. t = DayEnd(e.ts, w)
      BY <2>4 DEF DayEnd
    <3> DEFINE u == e.ts
               F == E \ {e}
    <3>2. /\ u = e.ts /\ F = E \ {e}
          /\ b = Calendar!Hash(u, n, w) /\ t = DayEnd(u, w)
      BY <2>4, <3>1
    <3> HIDE DEF u, F
    <3>3. OutAt(Year(E, n, w, p), b, e, u, t) = Year(F, n, w, u)
      BY ONLY <3>2, YearMoves
    <3> QED
      BY <3>3 DEF c, u, F
  <2> QED
    BY <2>2, <2>3, <2>5
<1> QED
  BY <1>3, <1>4

-------------------------------------------------------------------------------
(* The width of the days after a resizing. *)

(* The calendar c holds the events E, all at or after p, at which it stands. *)
StandsAt(c, E, p) ==
    /\ IsFiniteSet(E)
    /\ \E n, w \in Nat \ {0} : Pending(E, n, w, p) /\ c = Year(E, n, w, p)

LEMMA StandsFacts ==
  ASSUME NEW c, NEW E, NEW p, StandsAt(c, E, p)
  PROVE  /\ Distinct(E) /\ p \in Nat /\ IsFiniteSet(E) /\ Cardinality(E) \in Nat
         /\ \A e \in E : e \in Keys /\ e.ts \in Nat /\ e.ts >= p
<1>1. Distinct(E) /\ p \in Nat /\ IsFiniteSet(E) /\ \A e \in E : e.ts >= p
  BY DEF StandsAt, Pending
<1>2. \A e \in E : e \in Keys /\ e.ts \in Nat
  BY <1>1 DEF Distinct, Keys
<1>3. Cardinality(E) \in Nat
  BY <1>1, FS_CardinalityType
<1> QED
  BY <1>1, <1>2, <1>3

LEMMA CalendarRemoves ==
  ASSUME NEW c, NEW E, NEW p, StandsAt(c, E, p), E # {}, NEW r, r = Calendar!DoRemoveNext(c)
  PROVE  /\ IsEarliest(r.event, E) /\ r.event \in E
         /\ StandsAt(r.cal, E \ {r.event}, r.event.ts)
<1>1. PICK n \in Nat \ {0}, w \in Nat \ {0} : Pending(E, n, w, p) /\ c = Year(E, n, w, p)
  BY DEF StandsAt
<1> DEFINE e == r.event
           F == E \ {e}
           u == e.ts
<1>2. IsEarliest(e, E) /\ r.cal = Year(F, n, w, u)
  BY <1>1, YearRemoves
<1>3. e \in E /\ \A f \in F : KeyLess(e, f)
  BY <1>2 DEF IsEarliest
<1>4. \A f \in E : f.ts \in Nat
  BY StandsFacts
<1>5. \A f \in F : f.ts >= u
  BY <1>3, <1>4 DEF KeyLess
<1>6. Pending(F, n, w, u)
  BY <1>1, <1>3, <1>4, <1>5 DEF Pending, Distinct
<1>7. IsFiniteSet(F)
  BY StandsFacts, FS_RemoveElement
<1> HIDE DEF e, F, u
<1>8. StandsAt(r.cal, F, u)
  BY <1>2, <1>6, <1>7 DEF StandsAt
<1> QED
  BY <1>2, <1>3, <1>8 DEF e, F, u

(* The events that samples take out are events of the calendar. *)
LEMMA SampleEvents ==
  ASSUME NEW c, NEW E, NEW p, StandsAt(c, E, p), NEW N \in Nat, N <= Cardinality(E)
  PROVE  \A i \in 1 .. N : Calendar!Samples(c, N)[i].event \in E
<1> DEFINE Q == Cardinality(E)
           C == {Year(X, n, w, t) : X \in SUBSET E, n \in Nat, w \in Nat, t \in Nat}
           R == [event : E \cup {0}, cal : C]
           S == [n \in 0 .. N |->
                   {r \in R : /\ n # 0 => r.event \in E
                              /\ \E X \in SUBSET E, t \in Nat :
                                    StandsAt(r.cal, X, t) /\ Cardinality(X) = Q - n}]
           G == [q \in Nat \X R |-> Calendar!DoRemoveNext(q[2].cal)]
           a == [event |-> 0, cal |-> c]
           Rec(f) == f = [i \in 1 .. N |->
                            Calendar!DoRemoveNext(IF i = 1 THEN c ELSE f[i - 1].cal)]
<1>1. Q \in Nat /\ N <= Q /\ \A n \in 1 .. N : n \in 0 .. N /\ n - 1 \in 0 .. N /\ n \in Nat /\ n # 0
  BY StandsFacts
<1>2. /\ \A n \in 0 .. N : \A r : r \in S[n] <=>
           /\ r \in R
           /\ n # 0 => r.event \in E
           /\ \E X \in SUBSET E, t \in Nat : StandsAt(r.cal, X, t) /\ Cardinality(X) = Q - n
      /\ \A n \in Nat, r \in R : G[<<n, r>>] = Calendar!DoRemoveNext(r.cal)
  OBVIOUS
<1> HIDE DEF S, G, Q
<1>3. \A d, X, t : X \in SUBSET E /\ StandsAt(d, X, t) => d \in C
  BY DEF StandsAt, Pending
<1>4. a \in S[0]
  <2>1. 0 \in 0 .. N /\ Q - 0 = Q /\ p \in Nat
    BY <1>1, StandsFacts
  <2>2. E \in SUBSET E /\ StandsAt(a.cal, E, p) /\ Cardinality(E) = Q - 0
    BY <2>1 DEF Q
  <2>3. a \in R
    BY <1>3, <2>2
  <2> HIDE DEF a, R
  <2> QED
    BY <1>2, <2>1, <2>2, <2>3
<1>5. ASSUME NEW n \in 1 .. N, NEW s \in S[n - 1], NEW r, r = Calendar!DoRemoveNext(s.cal)
      PROVE  s \in R /\ r.event \in E /\ r \in S[n]
  <2>1. PICK X \in SUBSET E, t \in Nat : StandsAt(s.cal, X, t) /\ Cardinality(X) = Q - (n - 1)
    BY <1>1, <1>2
  <2>2. X # {}
    <3>1. Q - (n - 1) # 0
      BY <1>1
    <3> QED
      BY <2>1, <3>1, FS_EmptySet
  <2> DEFINE Y == X \ {r.event}
             u == r.event.ts
             d == s.cal
  <2>3. r.event \in X /\ StandsAt(r.cal, Y, u)
    <3>1. StandsAt(d, X, t) /\ r = Calendar!DoRemoveNext(d)
      BY <1>5, <2>1
    <3> HIDE DEF d
    <3> QED
      BY <2>2, <3>1, CalendarRemoves
  <2>4. IsFiniteSet(X) /\ u \in Nat /\ Y \in SUBSET E
    BY <2>1, <2>3, StandsFacts
  <2>5. Cardinality(Y) = Q - n
    <3>1. Cardinality(Y) = Cardinality(X) - 1
      BY <2>3, <2>4, FS_RemoveElement
    <3> QED
      BY <1>1, <2>1, <3>1
  <2> HIDE DEF Y, u
  <2>6. r = [event |-> r.event, cal |-> r.cal]
    BY <1>5 DEF Calendar!DoRemoveNext
  <2>7. r.cal \in C
    BY <1>3, <2>3, <2>4
  <2> HIDE DEF C
  <2>8. r \in R
    BY <2>3, <2>6, <2>7
  <2>9. s \in R
    BY <1>1, <1>2
  <2> HIDE DEF R
  <2> QED
    BY <1>1, <1>2, <2>3, <2>4, <2>5, <2>8, <2>9
<1> HIDE DEF C, R
<1>6. ASSUME NEW n \in 1 .. N, NEW s \in S[n - 1]
      PROVE  G[<<n, s>>] = Calendar!DoRemoveNext(s.cal) /\ G[<<n, s>>] \in S[n]
  <2>1. s \in R
    BY <1>5
  <2>2. G[<<n, s>>] = Calendar!DoRemoveNext(s.cal)
    BY <1>1, <1>2, <2>1
  <2> QED
    BY <1>5, <2>2
<1>7. Passing(G, S, N)
  BY <1>6 DEF Passing
<1> HIDE DEF a
<1>8. PICK f : /\ f = [n \in 0 .. N |-> f[n]]
               /\ f[0] = a
               /\ \A n \in 0 .. N : f[n] \in S[n]
               /\ \A n \in 1 .. N : f[n] = G[<<n, f[n - 1]>>]
  BY <1>4, <1>7, LoopRuns
<1> DEFINE h == [i \in 1 .. N |-> f[i]]
<1>9. Rec(h)
  <2>1. ASSUME NEW i \in 1 .. N
        PROVE  f[i] = Calendar!DoRemoveNext(IF i = 1 THEN c ELSE h[i - 1].cal)
    <3>1. f[i] = Calendar!DoRemoveNext(f[i - 1].cal)
      BY <1>1, <1>6, <1>8
    <3>2. CASE i = 1
      <4>1. f[i - 1].cal = c
        BY <1>8, <3>2 DEF a
      <4> QED
        BY <3>1, <3>2, <4>1
    <3>3. CASE i # 1
      <4>1. i - 1 \in 1 .. N
        BY <3>3
      <4>2. h[i - 1] = f[i - 1]
        BY <4>1
      <4> QED
        BY <3>1, <3>3, <4>2
    <3> QED
      BY <3>2, <3>3
  <2> QED
    BY <2>1
<1> DEFINE g == Calendar!Samples(c, N)
<1>10. g = CHOOSE x : Rec(x)
  BY DEF Calendar!Samples
<1>11. Rec(g)
  BY <1>9, <1>10
<1> HIDE DEF g, h
<1>12. \A i \in 1 .. N : g[i] = Calendar!DoRemoveNext(IF i = 1 THEN c ELSE g[i - 1].cal)
  BY <1>11
<1> DEFINE k == [i \in 0 .. N |-> IF i = 0 THEN a ELSE g[i]]
<1>13. \A n \in 1 .. N : k[n] = Calendar!DoRemoveNext(k[n - 1].cal)
  <2> TAKE n \in 1 .. N
  <2>1. k[n] = g[n] /\ k[n - 1] = IF n = 1 THEN a ELSE g[n - 1]
    BY <1>1
  <2>2. a.cal = c
    BY DEF a
  <2> HIDE DEF k
  <2> QED
    BY <1>12, <2>1, <2>2
<1>14. k[0] = a
  OBVIOUS
<1>15. \A n \in 1 .. N : k[n] = g[n]
  OBVIOUS
<1> HIDE DEF k
<1>16. \A n \in 0 .. N : k[n] \in S[n]
  <2>1. \A n \in 1 .. N : k[n - 1] \in S[n - 1] => k[n] \in S[n]
    BY <1>5, <1>13
  <2> QED
    BY <1>4, <1>14, <2>1, LoopKeeps
<1>17. \A n \in 1 .. N : k[n].event \in E
  BY <1>1, <1>2, <1>16
<1> QED
  BY <1>15, <1>17 DEF g

LEMMA SumIsInteger ==
  ASSUME NEW N \in Nat, NEW d, \A i \in 1 .. N : d[i] \in Int, NEW max
  PROVE  Calendar!SumUpTo(d, N, max) \in Int
<1> DEFINE S == [n \in 0 .. N |-> Int]
           G == [q \in Nat \X Int |-> q[2] + (IF d[q[1]] <= max THEN d[q[1]] ELSE 0)]
           a == 0
           add(x, i) == x + (IF d[i] <= max THEN d[i] ELSE 0)
           Rec(f) == f = [i \in 0 .. N |-> IF i = 0 THEN 0 ELSE add(f[i - 1], i)]
<1>1. /\ \A n \in 1 .. N : n \in 0 .. N /\ n - 1 \in 0 .. N /\ n \in Nat /\ n # 0
      /\ 0 \in 0 .. N /\ N \in 0 .. N
  OBVIOUS
<1>2. /\ \A n \in 0 .. N : S[n] = Int
      /\ \A n \in Nat, x \in Int : G[<<n, x>>] = add(x, n)
  OBVIOUS
<1> HIDE DEF S, G
<1>3. \A n \in 1 .. N : \A x \in Int : add(x, n) \in Int
  OBVIOUS
<1> HIDE DEF add
<1>b. ASSUME NEW n \in 1 .. N, NEW x \in S[n - 1] PROVE G[<<n, x>>] \in S[n]
  <2>1. x \in Int /\ n \in Nat /\ S[n] = Int
    BY <1>1, <1>2
  <2>2. G[<<n, x>>] = add(x, n)
    BY <1>2, <2>1
  <2> QED
    BY <1>3, <2>1, <2>2
<1>4. Passing(G, S, N)
  BY <1>b DEF Passing
<1>5. a \in S[0]
  BY <1>1, <1>2
<1>c. a = 0
  OBVIOUS
<1> HIDE DEF a
<1>6. PICK f : /\ f = [n \in 0 .. N |-> f[n]]
               /\ f[0] = a
               /\ \A n \in 0 .. N : f[n] \in S[n]
               /\ \A n \in 1 .. N : f[n] = G[<<n, f[n - 1]>>]
  BY <1>4, <1>5, LoopRuns
<1>7. Rec(f)
  <2>1. ASSUME NEW n \in 1 .. N PROVE f[n] = add(f[n - 1], n)
    <3>1. f[n - 1] \in Int /\ n \in Nat
      BY <1>1, <1>2, <1>6
    <3>2. G[<<n, f[n - 1]>>] = add(f[n - 1], n)
      BY <1>2, <3>1
    <3> QED
      BY <1>6, <3>2
  <2>2. \A n \in 0 .. N : n = 0 \/ n \in 1 .. N
    OBVIOUS
  <2> QED
    BY <1>6, <1>c, <2>1, <2>2
<1> DEFINE g == CHOOSE x : Rec(x)
<1>8. Rec(g)
  BY <1>7
<1>9. Calendar!SumUpTo(d, N, max) = g[N]
  BY DEF Calendar!SumUpTo, add
<1> HIDE DEF g
<1>10. g[0] = a /\ \A n \in 1 .. N : g[n] = add(g[n - 1], n)
  BY <1>1, <1>8, <1>c
<1>11. \A n \in 0 .. N : g[n] \in S[n]
  <2>1. \A n \in 1 .. N : g[n - 1] \in S[n - 1] => g[n] \in S[n]
    BY <1>1, <1>2, <1>3, <1>10
  <2>2. g[0] \in S[0]
    BY <1>5, <1>10
  <2> QED
    BY <2>1, <2>2, LoopKeeps
<1> QED
  BY <1>1, <1>2, <1>9, <1>11

LEMMA SamplesInQueue ==
  ASSUME NEW q \in Nat, q >= 2
  PROVE  Calendar!NSamples(q) \in Nat /\ 2 <= Calendar!NSamples(q) /\ Calendar!NSamples(q) <= q
  BY DEF Calendar!NSamples

LEMMA NewWidth ==
  ASSUME NEW c, NEW E, NEW p, StandsAt(c, E, p)
  PROVE  Calendar!CalculateNewWidth(c, Cardinality(E)) \in Nat \ {0}
<1> DEFINE q == Cardinality(E)
<1>1. q \in Nat
  BY StandsFacts
<1>2. CASE q < 2
  BY <1>2 DEF Calendar!CalculateNewWidth
<1>3. CASE ~(q < 2)
  <2> DEFINE n == Calendar!NSamples(q)
             s == Calendar!Samples(c, n)
             d == [i \in 1 .. n - 1 |-> s[i + 1].event.ts - s[i].event.ts]
             total == s[n].event.ts - s[1].event.ts
             max == (total \div (n - 1)) * 2
             x == Calendar!SumUpTo(d, n - 1, max)
  <2>1. n \in Nat /\ n >= 2 /\ n <= q /\ n - 1 \in Nat
    BY <1>1, <1>3, SamplesInQueue
  <2> HIDE DEF n
  <2>2. \A i \in 1 .. n : s[i].event \in E
    BY <2>1, SampleEvents
  <2>3. \A i \in 1 .. n : s[i].event.ts \in Nat
    BY <2>2, StandsFacts
  <2>4. ASSUME NEW i \in 1 .. n - 1 PROVE d[i] \in Int
    <3>1. i \in 1 .. n /\ i + 1 \in 1 .. n
      BY <2>1
    <3>2. s[i].event.ts \in Nat /\ s[i + 1].event.ts \in Nat
      BY <2>3, <3>1
    <3> QED
      BY <3>2
  <2> HIDE DEF d, max
  <2>5. x \in Int
    BY <2>1, <2>4, SumIsInteger
  <2>6. Calendar!CalculateNewWidth(c, q) = IF 3 * x > 1 THEN 3 * x ELSE 1
    BY <1>3 DEF Calendar!CalculateNewWidth, n, d, max
  <2> HIDE DEF x
  <2> QED
    BY <2>5, <2>6
<1> QED
  BY <1>2, <1>3

LEMMA CalendarInserts ==
  ASSUME NEW c, NEW E, NEW p, StandsAt(c, E, p), NEW e, Distinct(E \cup {e}), e.ts >= p
  PROVE  StandsAt(Calendar!DoInsert(c, e), E \cup {e}, p)
<1>1. PICK n \in Nat \ {0}, w \in Nat \ {0} : Pending(E, n, w, p) /\ c = Year(E, n, w, p)
  BY DEF StandsAt
<1> DEFINE F == E \cup {e}
<1>2. Calendar!DoInsert(c, e) = Year(F, n, w, p)
  BY <1>1, YearInserts
<1>3. Pending(F, n, w, p)
  BY <1>1 DEF Pending
<1>4. IsFiniteSet(F)
  BY StandsFacts, FS_AddElement
<1> HIDE DEF F
<1>5. StandsAt(Calendar!DoInsert(c, e), F, p)
  BY <1>2, <1>3, <1>4 DEF StandsAt
<1> QED
  BY <1>5 DEF F

LEMMA CalendarResizes ==
  ASSUME NEW c, NEW E, NEW p, StandsAt(c, E, p)
  PROVE  /\ StandsAt(Calendar!ResizeUp(c, Cardinality(E)), E, p)
         /\ StandsAt(Calendar!ResizeDown(c, Cardinality(E)), E, p)
<1> DEFINE q == Cardinality(E)
           v == Calendar!CalculateNewWidth(c, q)
<1>1. PICK n \in Nat \ {0}, w \in Nat \ {0} : Pending(E, n, w, p) /\ c = Year(E, n, w, p)
  BY DEF StandsAt
<1>2. v \in Nat \ {0}
  BY NewWidth
<1>3. q \in Nat /\ Distinct(E) /\ IsFiniteSet(E)
  BY StandsFacts
<1>4. c.n = n
  BY <1>1, YearFields
<1> HIDE DEF q, v
<1>5. ASSUME NEW m \in Nat \ {0} PROVE StandsAt(Calendar!DoResize(c, m, v), E, p)
  <2>1. E \in SUBSET Keys
    BY <1>3 DEF Distinct
  <2>2. Calendar!DoResize(c, m, v) = Year(E, m, v, p)
    BY <1>1, <2>1, YearResizes
  <2>3. Pending(E, m, v, p)
    BY <1>1, <1>2 DEF Pending
  <2> QED
    BY <1>2, <1>3, <2>2, <2>3 DEF StandsAt
<1>6. n * 2 \in Nat \ {0} /\ (q < n \div 2 => n \div 2 \in Nat \ {0})
  BY <1>3
<1>7. StandsAt(Calendar!ResizeUp(c, q), E, p)
  <2>1. Calendar!ResizeUp(c, q) = c \/ Calendar!ResizeUp(c, q) = Calendar!DoResize(c, n * 2, v)
    BY <1>4 DEF Calendar!ResizeUp, Calendar!Resize, v
  <2> QED
    BY <1>5, <1>6, <2>1
<1>8. StandsAt(Calendar!ResizeDown(c, q), E, p)
  <2>1. \/ Calendar!ResizeDown(c, q) = c
        \/ q < n \div 2 /\ Calendar!ResizeDown(c, q) = Calendar!DoResize(c, n \div 2, v)
    BY <1>4 DEF Calendar!ResizeDown, Calendar!Resize, v
  <2> QED
    BY <1>5, <1>6, <2>1
<1> QED
  BY <1>7, <1>8 DEF q

-------------------------------------------------------------------------------
(* Filling a calendar and draining it. *)

(* As many events as there are places, when each is in one place. *)
LEMMA Counted ==
  ASSUME NEW N \in Nat, NEW h, NEW E, \A i \in 1 .. N : h[i] \in E,
         \A e \in E : \E i \in 1 .. N : h[i] = e,
         \A i, j \in 1 .. N : h[i] = h[j] => i = j
  PROVE  IsFiniteSet(E) /\ Cardinality(E) = N
<1> DEFINE S == 1 .. N
           f == [i \in S |-> h[i]]
<1>1. IsFiniteSet(S) /\ Cardinality(S) = N
  BY FS_Interval
<1>2. /\ f \in [S -> E]
      /\ \A i, j \in S : f[i] = f[j] => i = j
      /\ \A e \in E : \E i \in S : f[i] = e
  OBVIOUS
<1> HIDE DEF f, S
<1>3. f \in Bijection(S, E)
  BY <1>2 DEF Bijection, Injection, IsInjective, Surjection
<1>4. ExistsBijection(S, E)
  BY <1>3 DEF ExistsBijection
<1> QED
  BY <1>1, <1>4, FS_Bijection

LEMMA HoldsCardinality ==
  ASSUME NEW E, NEW h, Holds(h, E)
  PROVE  IsFiniteSet(E) /\ Cardinality(E) = Len(h)
<1>1. /\ Len(h) \in Nat /\ \A i \in 1 .. Len(h) : h[i] \in E
      /\ \A e \in E : \E i \in 1 .. Len(h) : h[i] = e
      /\ \A i, j \in 1 .. Len(h) : h[i] = h[j] => i = j
  BY DEF Holds
<1> DEFINE N == Len(h)
<1> HIDE DEF N
<1>2. IsFiniteSet(E) /\ Cardinality(E) = N
  BY <1>1, Counted DEF N
<1> QED
  BY <1>2 DEF N

LEMMA StandsEmpty ==
  ASSUME NEW p \in Nat
  PROVE  StandsAt(Calendar!InitCalendar(2, 1, p), {}, p)
<1>1. Calendar!InitCalendar(2, 1, p) = Year({}, 2, 1, p)
  BY YearBegins
<1>2. Pending({}, 2, 1, p) /\ 2 \in Nat \ {0} /\ 1 \in Nat \ {0}
  BY DEF Pending, Distinct
<1> QED
  BY <1>1, <1>2, FS_EmptySet DEF StandsAt

LEMMA CalendarFills ==
  ASSUME NEW E, Distinct(E), NEW es, Holds(es, E)
  PROVE  StandsAt(CalendarFill(es)[Len(es)], E, 0)
<1> DEFINE N == Len(es)
           C == {Year(X, n, w, 0) : X \in SUBSET E, n \in Nat, w \in Nat}
           S == [n \in 0 .. N |-> {c \in C : StandsAt(c, Prefix(es, n), 0)}]
           pass(c, n) == Calendar!ResizeUp(Calendar!DoInsert(c, es[n]), n)
           G == [q \in Nat \X C |-> pass(q[2], q[1])]
           a == Calendar!InitCalendar(2, 1, 0)
           Rec(f) == f = [n \in 0 .. N |-> IF n = 0 THEN a ELSE pass(f[n - 1], n)]
<1>1. /\ N \in Nat /\ 0 \in 0 .. N /\ N \in 0 .. N
      /\ \A n \in 1 .. N : n \in 0 .. N /\ n - 1 \in 0 .. N /\ n \in Nat /\ n # 0
  BY DEF Holds
<1>2. /\ \A n \in 0 .. N : \A c : c \in S[n] <=> c \in C /\ StandsAt(c, Prefix(es, n), 0)
      /\ \A n \in Nat, c \in C : G[<<n, c>>] = pass(c, n)
  OBVIOUS
<1> HIDE DEF S, G
<1>3. \A c, X : X \in SUBSET E /\ StandsAt(c, X, 0) => c \in C
  BY DEF StandsAt
<1> HIDE DEF C
<1>4. a \in S[0]
  <2>1. Prefix(es, 0) = {}
    BY PrefixFacts
  <2>2. StandsAt(a, Prefix(es, 0), 0)
    BY <2>1, StandsEmpty
  <2>3. {} \in SUBSET E
    OBVIOUS
  <2> HIDE DEF a
  <2>4. a \in C
    BY <1>3, <2>1, <2>2, <2>3
  <2> QED
    BY <1>1, <1>2, <2>2, <2>4
<1>5. ASSUME NEW n \in 1 .. N, NEW c \in S[n - 1]
      PROVE  c \in C /\ pass(c, n) \in S[n]
  <2> DEFINE P == Prefix(es, n - 1)
             F == Prefix(es, n)
             e == es[n]
             d == Calendar!DoInsert(c, e)
  <2>1. e \notin P /\ F = P \cup {e} /\ Distinct(P \cup {e}) /\ F \in SUBSET E
    BY PrefixFacts
  <2>2. c \in C /\ StandsAt(c, P, 0)
    BY <1>1, <1>2
  <2>3. e.ts >= 0
    BY <2>1 DEF Distinct, Keys
  <2> HIDE DEF P, F, e
  <2>4. StandsAt(d, P \cup {e}, 0)
    BY <2>1, <2>2, <2>3, CalendarInserts
  <2>5. Cardinality(F) = n
    <3>2. F = {es[i] : i \in 1 .. n}
      BY DEF F, Prefix
    <3>3. \A i \in 1 .. n : i \in 1 .. N /\ es[i] \in F
      BY <1>1, <3>2
    <3>4. \A x \in F : \E i \in 1 .. n : es[i] = x
      BY <3>2
    <3>5. \A i, j \in 1 .. n : es[i] = es[j] => i = j
      BY <3>3 DEF Holds
    <3>6. n \in Nat
      BY <1>1
    <3> QED
      BY ONLY <3>3, <3>4, <3>5, <3>6, Counted
  <2> HIDE DEF d
  <2>6. StandsAt(Calendar!ResizeUp(d, n), F, 0)
    BY <2>1, <2>4, <2>5, CalendarResizes
  <2>7. pass(c, n) = Calendar!ResizeUp(d, n)
    BY DEF d, e
  <2>8. pass(c, n) \in C /\ StandsAt(pass(c, n), Prefix(es, n), 0)
    BY <1>3, <2>1, <2>6, <2>7 DEF F
  <2> HIDE DEF pass
  <2>9. pass(c, n) \in S[n]
    BY <1>1, <1>2, <2>8
  <2> QED
    BY <2>2, <2>9
<1> HIDE DEF pass
<1>6. ASSUME NEW n \in 1 .. N, NEW c \in S[n - 1]
      PROVE  G[<<n, c>>] = pass(c, n) /\ G[<<n, c>>] \in S[n]
  BY <1>1, <1>2, <1>5
<1>7. Passing(G, S, N)
  BY <1>6 DEF Passing
<1> HIDE DEF a, N
<1>8. PICK f : /\ f = [n \in 0 .. N |-> f[n]]
               /\ f[0] = a
               /\ \A n \in 0 .. N : f[n] \in S[n]
               /\ \A n \in 1 .. N : f[n] = G[<<n, f[n - 1]>>]
  BY <1>1, <1>4, <1>7, LoopRuns
<1>9. Rec(f)
  <2>1. \A n \in 1 .. N : f[n] = pass(f[n - 1], n)
    BY <1>1, <1>6, <1>8
  <2>2. \A n \in 0 .. N : n = 0 \/ n \in 1 .. N
    BY <1>1
  <2> QED
    BY <1>8, <2>1, <2>2
<1> DEFINE g == CalendarFill(es)
<1>10. g = CHOOSE x : Rec(x)
  BY DEF CalendarFill, N, a, pass
<1>11. Rec(g)
  BY <1>9, <1>10
<1> HIDE DEF g
<1>12. g[0] = a /\ \A n \in 1 .. N : g[n] = pass(g[n - 1], n)
  BY <1>1, <1>11
<1>13. \A n \in 0 .. N : g[n] \in S[n]
  <2>1. g[0] \in S[0]
    BY <1>4, <1>12
  <2>2. \A n \in 1 .. N : g[n - 1] \in S[n - 1] => g[n] \in S[n]
    BY <1>5, <1>12
  <2> QED
    BY <1>1, <2>1, <2>2, LoopKeeps
<1>14. StandsAt(g[N], Prefix(es, N), 0)
  BY <1>1, <1>2, <1>13
<1>15. Prefix(es, N) = E
  BY PrefixFacts DEF N
<1> QED
  BY <1>14, <1>15 DEF g, N

LEMMA CalendarDrains ==
  ASSUME NEW c, NEW E, NEW p, StandsAt(c, E, p), NEW N, N = Cardinality(E)
  PROVE  LET out == CalendarDrain(c, N)[N].out IN Holds(out, E) /\ Len(out) = N
<1> DEFINE C == {Year(X, n, w, t) : X \in SUBSET E, n \in Nat, w \in Nat, t \in Nat}
           R == [out : Seq(E), left : C]
           S == [n \in 0 .. N |->
                   {s \in R : /\ \E D \in SUBSET E, t \in Nat :
                                    Holds(s.out, D) /\ StandsAt(s.left, E \ D, t)
                              /\ Len(s.out) = n}]
           pass(s, n) == LET r == Calendar!DoRemoveNext(s.left)
                         IN  [out  |-> Append(s.out, r.event),
                              left |-> Calendar!ResizeDown(r.cal, N - n)]
           G == [q \in Nat \X R |-> pass(q[2], q[1])]
           a == [out |-> <<>>, left |-> c]
           Rec(f) == f = [n \in 0 .. N |-> IF n = 0 THEN a ELSE pass(f[n - 1], n)]
<1>0. N \in Nat /\ Distinct(E) /\ p \in Nat /\ IsFiniteSet(E)
  BY StandsFacts
<1>1. /\ N \in Nat /\ 0 \in 0 .. N /\ N \in 0 .. N
      /\ \A n \in 1 .. N : n \in 0 .. N /\ n - 1 \in 0 .. N /\ n \in Nat /\ n # 0
  BY <1>0
<1>3. \A d, X, t : X \in SUBSET E /\ StandsAt(d, X, t) => d \in C
  BY DEF StandsAt, Pending
<1> HIDE DEF C, pass
<1>2. /\ \A n \in 0 .. N : \A s : s \in S[n] <=>
           /\ s \in R
           /\ \E D \in SUBSET E, t \in Nat : Holds(s.out, D) /\ StandsAt(s.left, E \ D, t)
           /\ Len(s.out) = n
      /\ \A n \in Nat, s \in R : G[<<n, s>>] = pass(s, n)
  OBVIOUS
<1> HIDE DEF S, G
<1>4. a \in S[0]
  <2>1. <<>> \in Seq(E) /\ Len(<<>>) = 0
    OBVIOUS
  <2>2. {} \in SUBSET E /\ Holds(<<>>, {}) /\ StandsAt(c, E \ {}, p)
    BY HoldsNothing
  <2>3. c \in C
    BY <1>3
  <2>4. a \in R /\ a.out = <<>> /\ a.left = c
    BY <2>1, <2>3
  <2> HIDE DEF a, R
  <2>5. \E D \in SUBSET E, t \in Nat : Holds(a.out, D) /\ StandsAt(a.left, E \ D, t)
    BY <1>0, <2>2, <2>4
  <2> QED
    BY <1>1, <1>2, <2>1, <2>4, <2>5
<1>5. ASSUME NEW n \in 1 .. N, NEW s \in S[n - 1]
      PROVE  s \in R /\ pass(s, n) \in S[n]
  <2>1. /\ s \in R /\ Len(s.out) = n - 1
        /\ \E D \in SUBSET E, t \in Nat : Holds(s.out, D) /\ StandsAt(s.left, E \ D, t)
    BY <1>1, <1>2
  <2>2. PICK D \in SUBSET E, t \in Nat : Holds(s.out, D) /\ StandsAt(s.left, E \ D, t)
    BY <2>1
  <2> DEFINE X == E \ D
             d == s.left
             r == Calendar!DoRemoveNext(d)
             e == r.event
             u == e.ts
             o == Append(s.out, e)
             Y == X \ {e}
             m == Calendar!ResizeDown(r.cal, N - n)
  <2>3. StandsAt(d, X, t) /\ IsFiniteSet(D) /\ Cardinality(D) = n - 1
    BY <2>1, <2>2, HoldsCardinality
  <2>4. IsFiniteSet(X) /\ Cardinality(X) = N - (n - 1)
    <3>1. D \cap E = D /\ X = E \ D
      OBVIOUS
    <3>2. Cardinality(X) = Cardinality(E) - Cardinality(E \cap D)
      BY <1>0, FS_Difference
    <3>3. E \cap D = D
      OBVIOUS
    <3> QED
      BY <2>3, <3>2, <3>3, StandsFacts
  <2>5. X # {}
    BY <1>1, <2>4, FS_EmptySet
  <2> HIDE DEF X, d
  <2>6. e \in X /\ StandsAt(r.cal, Y, u)
    BY <2>3, <2>5, CalendarRemoves
  <2>7. Cardinality(Y) = N - n
    <3>1. Cardinality(Y) = Cardinality(X) - 1
      BY <2>4, <2>6, FS_RemoveElement
    <3> QED
      BY <1>1, <2>4, <3>1
  <2> HIDE DEF Y, u
  <2>8. StandsAt(m, Y, u)
    BY <2>6, <2>7, CalendarResizes
  <2>9. pass(s, n) = [out |-> o, left |-> m]
    BY DEF d, pass
  <2> HIDE DEF r
  <2>10. e \in E /\ e \notin D
    BY <2>6 DEF X
  <2>11. Holds(o, D \cup {e}) /\ Len(o) = Len(s.out) + 1
    BY <2>2, <2>10, AppendHolds
  <2>12. Y = E \ (D \cup {e}) /\ D \cup {e} \in SUBSET E /\ Y \in SUBSET E
    BY <2>10 DEF X, Y
  <2>13. u \in Nat
    BY <2>8, StandsFacts
  <2> HIDE DEF o, m, e
  <2>14. o \in Seq(E)
    BY <2>11, <2>12, WiderSeq DEF Holds
  <2>15. m \in C
    BY <1>3, <2>8, <2>12
  <2>16. pass(s, n) \in R
    BY <2>9, <2>14, <2>15
  <2>17. pass(s, n).out = o /\ pass(s, n).left = m
    BY <2>9
  <2>18. Len(o) = n
    BY <1>1, <2>1, <2>11
  <2> HIDE DEF R
  <2>19. \E D1 \in SUBSET E, t1 \in Nat :
            Holds(pass(s, n).out, D1) /\ StandsAt(pass(s, n).left, E \ D1, t1)
    BY <2>8, <2>11, <2>12, <2>13, <2>17
  <2>20. pass(s, n) \in S[n]
    BY <1>1, <1>2, <2>16, <2>17, <2>18, <2>19
  <2> QED
    BY <2>1, <2>20
<1> HIDE DEF R
<1>6. ASSUME NEW n \in 1 .. N, NEW s \in S[n - 1]
      PROVE  G[<<n, s>>] = pass(s, n) /\ G[<<n, s>>] \in S[n]
  BY <1>1, <1>2, <1>5
<1>7. Passing(G, S, N)
  BY <1>6 DEF Passing
<1> HIDE DEF a
<1>8. PICK f : /\ f = [n \in 0 .. N |-> f[n]]
               /\ f[0] = a
               /\ \A n \in 0 .. N : f[n] \in S[n]
               /\ \A n \in 1 .. N : f[n] = G[<<n, f[n - 1]>>]
  BY <1>1, <1>4, <1>7, LoopRuns
<1>9. Rec(f)
  <2>1. \A n \in 1 .. N : f[n] = pass(f[n - 1], n)
    BY <1>1, <1>6, <1>8
  <2>2. \A n \in 0 .. N : n = 0 \/ n \in 1 .. N
    BY <1>1
  <2> QED
    BY <1>8, <2>1, <2>2
<1> DEFINE g == CalendarDrain(c, N)
<1>10. g = CHOOSE x : Rec(x)
  BY DEF CalendarDrain, a, pass
<1>11. Rec(g)
  BY <1>9, <1>10
<1> HIDE DEF g
<1>12. g[0] = a /\ \A n \in 1 .. N : g[n] = pass(g[n - 1], n)
  BY <1>1, <1>11
<1>13. \A n \in 0 .. N : g[n] \in S[n]
  <2>1. g[0] \in S[0]
    BY <1>4, <1>12
  <2>2. \A n \in 1 .. N : g[n - 1] \in S[n - 1] => g[n] \in S[n]
    BY <1>5, <1>12
  <2> QED
    BY <1>1, <2>1, <2>2, LoopKeeps
<1>14. PICK D \in SUBSET E : Holds(g[N].out, D) /\ Len(g[N].out) = N
  BY <1>1, <1>2, <1>13
<1>15. D = E
  <2>1. Cardinality(D) = N
    BY <1>14, HoldsCardinality
  <2> QED
    BY <1>0, <2>1, FS_Subset
<1> QED
  BY <1>14, <1>15 DEF g

-------------------------------------------------------------------------------
(* The invariant: the class in use has the pending events E, the others none,
   and each has its structure. *)

Pool(E, u) == Distinct(E) /\ \A e \in E : e.uid < u

HeapSound(h, r, E)        == Holds(h, E) /\ (r \/ Ordered(h))
CalendarSound(c, q, p, E) == StandsAt(c, E, p) /\ q = Cardinality(E)
ListSound(l, E)           == Holds(l, E) /\ Sorted(l)

Share(class, k, E) == IF class = k THEN E ELSE {}

Kept(class, h, r, c, q, l, t, u, E) ==
    /\ class \in Classes /\ t \in Nat /\ u \in Nat
    /\ Pool(E, u)
    /\ HeapSound(h, r, Share(class, "heap", E))
    /\ \E p \in 0 .. t : /\ CalendarSound(c, q, p, Share(class, "calendar", E))
                         /\ class # "calendar" => p = 0
    /\ ListSound(l, Share(class, "list", E))

Now(E) == Kept(m_events, m_heap, removed, cal, m_qSize, m_list, clock, uid, E)

IInv == \E E : Now(E)

(* The same of the next state, of events E that this one determines. *)
Then(E) ==
    Kept(m_events', m_heap', removed', cal', m_qSize', m_list', clock', uid', E)

(* What a step does to the pending events, the clock and the next uid. *)
Steps(E, t, u, F, s, v) ==
    \/ \E d \in Delays : F = E \cup {[ts |-> t + d, uid |-> u]} /\ s = t /\ v = u + 1
    \/ \E e \in E : IsEarliest(e, E) /\ F = E \ {e} /\ s = e.ts /\ v = u
    \/ \E e \in E : F = E \ {e} /\ s = t /\ v = u

LEMMA HoldsRange ==
  ASSUME NEW E, NEW h, Holds(h, E)
  PROVE  {h[i] : i \in DOMAIN h} = E
<1>1. /\ DOMAIN h = 1 .. Len(h) /\ \A i \in 1 .. Len(h) : h[i] \in E
      /\ \A e \in E : \E i \in 1 .. Len(h) : h[i] = e
  BY HoldsFacts DEF Holds
<1> QED
  BY <1>1

LEMMA StandsEvents ==
  ASSUME NEW c, NEW E, NEW p, StandsAt(c, E, p)
  PROVE  /\ UNION {c.buckets[i] : i \in 0 .. c.n - 1} = E
         /\ c.lastPrio = p
         /\ c.lastBucket = Calendar!Hash(p, c.n, c.width)
         /\ c.top > p /\ c.top - c.width <= p
<1>1. PICK n \in Nat \ {0}, w \in Nat \ {0} : Pending(E, n, w, p) /\ c = Year(E, n, w, p)
  BY DEF StandsAt
<1>2. /\ c.n = n /\ c.width = w /\ c.lastPrio = p /\ c.top = (p \div w + 1) * w
      /\ c.lastBucket = Calendar!Hash(p, n, w)
  BY <1>1, YearFields
<1>3. E \in SUBSET Keys /\ p \in Nat
  BY <1>1 DEF Pending, Distinct
<1>4. UNION {c.buckets[i] : i \in 0 .. n - 1} = E
  BY <1>1, <1>3, YearEvents
<1> DEFINE d == p \div w
<1>5. d \in Nat /\ d * w <= p
  BY <1>3, DayOf
<1>6. p < (d + 1) * w
  BY <1>3, <1>5, DayOf
<1> HIDE DEF d
<1>7. c.top = (d + 1) * w
  BY <1>2 DEF d
<1>8. (d + 1) * w = d * w + w /\ d * w \in Nat
  BY <1>5
<1>9. c.top > p /\ c.top - c.width <= p
  BY <1>2, <1>3, <1>5, <1>6, <1>7, <1>8
<1> QED
  BY <1>2, <1>4, <1>9

LEMMA KeptContents ==
  ASSUME NEW class, NEW h, NEW r, NEW c, NEW q, NEW l, NEW t, NEW u, NEW E,
         Kept(class, h, r, c, q, l, t, u, E)
  PROVE  /\ {h[i] : i \in DOMAIN h} = Share(class, "heap", E)
         /\ UNION {c.buckets[i] : i \in 0 .. c.n - 1} = Share(class, "calendar", E)
         /\ {l[i] : i \in DOMAIN l} = Share(class, "list", E)
<1>1. {h[i] : i \in DOMAIN h} = Share(class, "heap", E)
  BY HoldsRange DEF Kept, HeapSound
<1>2. {l[i] : i \in DOMAIN l} = Share(class, "list", E)
  BY HoldsRange DEF Kept, ListSound
<1>3. UNION {c.buckets[i] : i \in 0 .. c.n - 1} = Share(class, "calendar", E)
  BY StandsEvents DEF Kept, CalendarSound
<1> QED
  BY <1>1, <1>2, <1>3

LEMMA NowContents ==
  ASSUME NEW E, Now(E)
  PROVE  /\ HeapContents = Share(m_events, "heap", E)
         /\ Calendar!Events = Share(m_events, "calendar", E)
         /\ {m_list[i] : i \in DOMAIN m_list} = Share(m_events, "list", E)
         /\ Contents = E
<1>1. HeapContents = Share(m_events, "heap", E)
  BY KeptContents DEF Now, HeapContents
<1>2. Calendar!Events = Share(m_events, "calendar", E)
  BY KeptContents DEF Now, Calendar!Events
<1>3. {m_list[i] : i \in DOMAIN m_list} = Share(m_events, "list", E)
  BY KeptContents DEF Now
<1>4. m_events \in {"heap", "calendar", "list"}
  BY DEF Now, Kept, Classes
<1>5. Contents = E
  BY <1>1, <1>2, <1>3, <1>4 DEF Contents, Share
<1> QED
  BY <1>1, <1>2, <1>3, <1>5

LEMMA NextContents ==
  ASSUME NEW E, Now(E)'
  PROVE  HeapContents' = Share(m_events, "heap", E)' /\ Contents' = E
<1>0. Kept(m_events', m_heap', removed', cal', m_qSize', m_list', clock', uid', E)
  BY DEF Now
<1>1. HeapContents' = Share(m_events', "heap", E)
  BY <1>0, KeptContents DEF HeapContents
<1>2. Calendar!Events' = Share(m_events', "calendar", E)
  BY <1>0, KeptContents DEF Calendar!Events
<1>3. {m_list'[i] : i \in DOMAIN m_list'} = Share(m_events', "list", E)
  BY <1>0, KeptContents
<1>4. m_events' \in {"heap", "calendar", "list"}
  BY <1>0 DEF Kept, Classes
<1>5. Contents' = E
  BY <1>1, <1>2, <1>3, <1>4 DEF Contents, Share
<1> QED
  BY <1>1, <1>5 DEF Share

LEMMA FreshEvent ==
  ASSUME NEW E, NEW u \in Nat, NEW t \in Nat, Pool(E, u), NEW d \in Delays, NEW e,
         e = [ts |-> t + d, uid |-> u]
  PROVE  /\ e \notin E /\ Distinct(E \cup {e}) /\ Pool(E \cup {e}, u + 1)
         /\ e.ts \in Nat /\ e.ts >= t
<1>1. d \in Nat
  BY DelaysAssumption
<1>2. e \in Keys /\ e.uid = u /\ e.ts = t + d
  BY <1>1 DEF Keys
<1>3. \A f \in E : f.uid < u /\ f.uid \in Nat
  BY DEF Pool, Distinct, Keys
<1>4. \A f \in E : f.uid # e.uid
  BY <1>2, <1>3
<1>5. Distinct(E \cup {e})
  BY <1>2, <1>4 DEF Distinct, Pool
<1>6. \A f \in E \cup {e} : f.uid < u + 1
  BY <1>2, <1>3
<1> QED
  BY <1>1, <1>2, <1>4, <1>5, <1>6 DEF Pool

LEMMA InitKept == Init => Now({})
<1> SUFFICES ASSUME Init PROVE Now({})
  OBVIOUS
<1>1. /\ m_events \in Classes /\ m_heap = <<>> /\ clock = 0 /\ uid = 0
      /\ cal = Calendar!InitCalendar(2, 1, 0) /\ m_qSize = 0 /\ m_list = <<>>
  BY DEF Init, Heap!Init, Calendar!Init, List!Init
<1>2. StandsAt(cal, {}, 0)
  BY <1>1, StandsEmpty
<1>3. CalendarSound(cal, m_qSize, 0, {})
  BY <1>1, <1>2, FS_EmptySet DEF CalendarSound
<1>4. HeapSound(m_heap, removed, {}) /\ ListSound(m_list, {})
  BY <1>1, HoldsNothing DEF HeapSound, ListSound, Sorted
<1>5. \A k : Share(m_events, k, {}) = {}
  BY DEF Share
<1>6. Pool({}, uid)
  BY DEF Pool, Distinct
<1>7. 0 \in 0 .. clock /\ clock \in Nat /\ uid \in Nat
  BY <1>1
<1> QED
  BY <1>1, <1>3, <1>4, <1>5, <1>6, <1>7 DEF Now, Kept

LEMMA SmallerPool ==
  ASSUME NEW E, NEW u, Pool(E, u), NEW e
  PROVE  Pool(E \ {e}, u)
  BY DEF Pool, Distinct

(* A step of the heap in use. *)
LEMMA HeapStep ==
  ASSUME NEW E, Now(E), UseHeap
  PROVE  \E F : Then(F) /\ (removed \/ Steps(E, clock, uid, F, clock', uid'))
<1>1. /\ m_events = "heap" /\ m_events' = "heap"
      /\ cal' = cal /\ m_qSize' = m_qSize /\ m_list' = m_list
      /\ Heap!Next
  BY DEF UseHeap
<1>2. /\ clock \in Nat /\ uid \in Nat /\ Pool(E, uid) /\ Distinct(E)
      /\ Holds(m_heap, E) /\ (removed \/ Ordered(m_heap))
      /\ CalendarSound(cal, m_qSize, 0, {}) /\ ListSound(m_list, {})
  BY <1>1 DEF Now, Kept, Share, HeapSound, Pool
<1>3. ASSUME NEW F, Pool(F, uid'), HeapSound(m_heap', removed', F),
             clock' \in Nat, uid' \in Nat
      PROVE  Then(F)
  <2>1. 0 \in 0 .. clock' /\ "heap" \in Classes
    BY <1>3 DEF Classes
  <2>2. Share("heap", "heap", F) = F /\ Share("heap", "list", F) = {} /\ Share("heap", "calendar", F) = {}
    BY DEF Share
  <2>3. Kept("heap", m_heap', removed', cal', m_qSize', m_list', clock', uid', F)
    BY <1>1, <1>2, <1>3, <2>1, <2>2 DEF Kept
  <2> QED
    BY <1>1, <2>3 DEF Then
<1>4. CASE \E d \in Delays : Heap!Insert(d)
  <2>1. PICK d \in Delays : Heap!Insert(d)
    BY <1>4
  <2> DEFINE e == [ts |-> clock + d, uid |-> uid]
             F == E \cup {e}
  <2>2. /\ m_heap' = Heap!BottomUp(Append(m_heap, e))
        /\ uid' = uid + 1 /\ clock' = clock /\ removed' = removed
    BY <2>1 DEF Heap!Insert
  <2>3. e \notin E /\ Distinct(F) /\ Pool(F, uid + 1)
    BY <1>2, FreshEvent
  <2> HIDE DEF e
  <2>4. Holds(m_heap', F) /\ (removed' \/ Ordered(m_heap'))
    BY <1>2, <2>2, <2>3, HeapInsert
  <2>5. Then(F)
    BY <1>2, <1>3, <2>2, <2>3, <2>4 DEF HeapSound
  <2>6. Steps(E, clock, uid, F, clock', uid')
    BY <2>2 DEF Steps, e
  <2> QED
    BY <2>5, <2>6
<1>5. CASE Heap!RemoveNext
  <2> DEFINE e == m_heap[1]
             F == E \ {e}
  <2>1. /\ m_heap # <<>> /\ clock' = e.ts /\ uid' = uid /\ removed' = removed
        /\ m_heap' = Heap!TopDown(Heap!MoveLastTo(m_heap, 1), 1)
    BY <1>5 DEF Heap!RemoveNext, Heap!Root
  <2>2. 1 \in 1 .. Len(m_heap) /\ e \in E
    BY <1>2, <2>1 DEF Holds
  <2>3. Holds(m_heap', F)
    <3>1. PICK i \in 1 .. Len(m_heap) : i = 1
      BY <2>2
    <3>2. Holds(Heap!TopDown(Heap!MoveLastTo(m_heap, i), i), E \ {m_heap[i]})
      BY <1>2, HeapRemove
    <3> QED
      BY <2>1, <3>1, <3>2
  <2>4. removed' \/ Ordered(m_heap')
    BY <1>2, <2>1, HeapRemoveNext
  <2>5. e.ts \in Nat
    BY <1>2, <2>2 DEF Distinct, Keys
  <2>6. Pool(F, uid)
    BY <1>2, SmallerPool
  <2>7. Then(F)
    BY <1>2, <1>3, <2>1, <2>3, <2>4, <2>5, <2>6 DEF HeapSound
  <2>8. removed \/ IsEarliest(e, E)
    BY <1>2, <2>1, RootIsEarliest
  <2>9. removed \/ Steps(E, clock, uid, F, clock', uid')
    BY <2>1, <2>2, <2>8 DEF Steps
  <2> QED
    BY <2>7, <2>9
<1>6. CASE \E i \in DOMAIN m_heap : Heap!Remove(i)
  <2>1. PICK i \in DOMAIN m_heap : Heap!Remove(i)
    BY <1>6
  <2> DEFINE e == m_heap[i]
             F == E \ {e}
  <2>2. i \in 1 .. Len(m_heap) /\ e \in E
    BY <1>2, HoldsFacts
  <2>3. /\ m_heap' = Heap!TopDown(Heap!MoveLastTo(m_heap, i), i)
        /\ removed' = TRUE /\ clock' = clock /\ uid' = uid
    BY <2>1 DEF Heap!Remove
  <2>4. Holds(m_heap', F)
    BY <1>2, <2>2, <2>3, HeapRemove
  <2>5. Pool(F, uid)
    BY <1>2, SmallerPool
  <2>6. Then(F)
    BY <1>2, <1>3, <2>3, <2>4, <2>5 DEF HeapSound
  <2>7. Steps(E, clock, uid, F, clock', uid')
    BY <2>2, <2>3 DEF Steps
  <2> QED
    BY <2>6, <2>7
<1> QED
  BY <1>1, <1>4, <1>5, <1>6 DEF Heap!Next

(* A step of the sorted list in use. *)
LEMMA ListStep ==
  ASSUME NEW E, Now(E), UseList
  PROVE  \E F : Then(F) /\ Steps(E, clock, uid, F, clock', uid')
<1>1. /\ m_events = "list" /\ m_events' = "list"
      /\ cal' = cal /\ m_qSize' = m_qSize /\ m_heap' = m_heap /\ removed' = removed
      /\ List!Next
  BY DEF UseList
<1>2. /\ clock \in Nat /\ uid \in Nat /\ Pool(E, uid) /\ Distinct(E)
      /\ Holds(m_list, E) /\ Sorted(m_list)
      /\ CalendarSound(cal, m_qSize, 0, {}) /\ HeapSound(m_heap, removed, {})
  BY <1>1 DEF Now, Kept, Share, ListSound, Pool
<1>3. ASSUME NEW F, Pool(F, uid'), ListSound(m_list', F), clock' \in Nat, uid' \in Nat
      PROVE  Then(F)
  <2>1. 0 \in 0 .. clock' /\ "list" \in Classes
    BY <1>3 DEF Classes
  <2>2. Share("list", "list", F) = F /\ Share("list", "heap", F) = {} /\ Share("list", "calendar", F) = {}
    BY DEF Share
  <2>3. Kept("list", m_heap', removed', cal', m_qSize', m_list', clock', uid', F)
    BY <1>1, <1>2, <1>3, <2>1, <2>2 DEF Kept
  <2> QED
    BY <1>1, <2>3 DEF Then
<1>4. CASE \E d \in Delays : List!Insert(d)
  <2>1. PICK d \in Delays : List!Insert(d)
    BY <1>4
  <2> DEFINE e == [ts |-> clock + d, uid |-> uid]
             F == E \cup {e}
  <2>2. m_list' = List!DoInsert(m_list, e) /\ uid' = uid + 1 /\ clock' = clock
    BY <2>1 DEF List!Insert
  <2>3. e \notin E /\ Distinct(F) /\ Pool(F, uid + 1)
    BY <1>2, FreshEvent
  <2> HIDE DEF e
  <2>4. Holds(m_list', F) /\ Sorted(m_list')
    BY <1>2, <2>2, <2>3, ListInsert
  <2>5. Then(F)
    BY <1>2, <1>3, <2>2, <2>3, <2>4 DEF ListSound
  <2>6. Steps(E, clock, uid, F, clock', uid')
    BY <2>2 DEF Steps, e
  <2> QED
    BY <2>5, <2>6
<1>5. CASE List!RemoveNext
  <2> DEFINE e == m_list[1]
             F == E \ {e}
  <2>1. /\ m_list # <<>> /\ clock' = Head(m_list).ts /\ uid' = uid
        /\ m_list' = Tail(m_list)
    BY <1>5 DEF List!RemoveNext
  <2>2. /\ IsEarliest(e, E) /\ Head(m_list) = e
        /\ Holds(Tail(m_list), F) /\ Sorted(Tail(m_list))
    BY <1>2, <2>1, ListRemoveNext
  <2>3. e \in E /\ e.ts \in Nat
    BY <1>2, <2>2 DEF IsEarliest, Distinct, Keys
  <2>4. Pool(F, uid)
    BY <1>2, SmallerPool
  <2>5. Then(F)
    BY <1>2, <1>3, <2>1, <2>2, <2>3, <2>4 DEF ListSound
  <2>6. Steps(E, clock, uid, F, clock', uid')
    BY <2>1, <2>2, <2>3 DEF Steps
  <2> QED
    BY <2>5, <2>6
<1>6. CASE \E i \in DOMAIN m_list : List!Remove(i)
  <2>1. PICK i \in DOMAIN m_list : List!Remove(i)
    BY <1>6
  <2> DEFINE e == m_list[i]
             F == E \ {e}
  <2>2. i \in 1 .. Len(m_list) /\ e \in E
    BY <1>2, HoldsFacts
  <2>3. m_list' = List!SE!RemoveAt(m_list, i) /\ clock' = clock /\ uid' = uid
    BY <2>1 DEF List!Remove
  <2>4. Holds(m_list', F) /\ Sorted(m_list')
    BY <1>2, <2>2, <2>3, ListRemove
  <2>5. Pool(F, uid)
    BY <1>2, SmallerPool
  <2>6. Then(F)
    BY <1>2, <1>3, <2>3, <2>4, <2>5 DEF ListSound
  <2>7. Steps(E, clock, uid, F, clock', uid')
    BY <2>2, <2>3 DEF Steps
  <2> QED
    BY <2>6, <2>7
<1> QED
  BY <1>1, <1>4, <1>5, <1>6 DEF List!Next

LEMMA CalendarLoses ==
  ASSUME NEW c, NEW E, NEW p, StandsAt(c, E, p), NEW e \in E
  PROVE  StandsAt(OutOf(c, Calendar!Hash(e.ts, c.n, c.width), e), E \ {e}, p)
<1>1. PICK n \in Nat \ {0}, w \in Nat \ {0} : Pending(E, n, w, p) /\ c = Year(E, n, w, p)
  BY DEF StandsAt
<1> DEFINE F == E \ {e}
           b == Calendar!Hash(e.ts, c.n, c.width)
<1>2. b = Calendar!Hash(e.ts, n, w)
  BY <1>1, YearFields
<1> HIDE DEF b
<1>3. OutOf(c, b, e) = Year(F, n, w, p)
  <2>1. OutOf(Year(E, n, w, p), b, e) = Year(E \ {e}, n, w, p)
    BY <1>2, YearLoses
  <2> QED
    BY <1>1, <2>1
<1>4. Pending(F, n, w, p)
  BY <1>1 DEF Pending, Distinct
<1>5. IsFiniteSet(F)
  BY StandsFacts, FS_RemoveElement
<1> HIDE DEF F
<1>6. StandsAt(OutOf(c, b, e), F, p)
  BY <1>3, <1>4, <1>5 DEF StandsAt
<1> QED
  BY <1>6 DEF F, b

(* A step of the calendar in use. *)
LEMMA CalendarStep ==
  ASSUME NEW E, Now(E), UseCalendar
  PROVE  \E F : Then(F) /\ Steps(E, clock, uid, F, clock', uid')
<1>1. /\ m_events = "calendar" /\ m_events' = "calendar"
      /\ m_heap' = m_heap /\ removed' = removed /\ m_list' = m_list
      /\ Calendar!Next
  BY DEF UseCalendar
<1>2. /\ clock \in Nat /\ uid \in Nat /\ Pool(E, uid) /\ Distinct(E)
      /\ HeapSound(m_heap, removed, {}) /\ ListSound(m_list, {})
      /\ \E p \in 0 .. clock : CalendarSound(cal, m_qSize, p, E)
  BY <1>1 DEF Now, Kept, Share, Pool
<1>3. PICK p \in 0 .. clock : StandsAt(cal, E, p) /\ m_qSize = Cardinality(E)
  BY <1>2 DEF CalendarSound
<1>4. IsFiniteSet(E) /\ m_qSize \in Nat /\ p \in Nat /\ p <= clock
  BY <1>2, <1>3, StandsFacts
<1>5. ASSUME NEW F, NEW s \in 0 .. clock', Pool(F, uid'), StandsAt(cal', F, s),
             m_qSize' = Cardinality(F), clock' \in Nat, uid' \in Nat
      PROVE  Then(F)
  <2>1. "calendar" \in Classes /\ CalendarSound(cal', m_qSize', s, F)
    BY <1>5 DEF Classes, CalendarSound
  <2>2. /\ Share("calendar", "calendar", F) = F /\ Share("calendar", "heap", F) = {}
        /\ Share("calendar", "list", F) = {}
    BY DEF Share
  <2>3. Kept("calendar", m_heap', removed', cal', m_qSize', m_list', clock', uid', F)
    BY <1>1, <1>2, <1>5, <2>1, <2>2 DEF Kept
  <2> QED
    BY <1>1, <2>3 DEF Then
<1>6. CASE \E d \in Delays : Calendar!Insert(d)
  <2>1. PICK d \in Delays : Calendar!Insert(d)
    BY <1>6
  <2> DEFINE e == [ts |-> clock + d, uid |-> uid]
             F == E \cup {e}
             c == Calendar!DoInsert(cal, e)
  <2>2. /\ cal' = Calendar!ResizeUp(c, m_qSize') /\ m_qSize' = m_qSize + 1
        /\ uid' = uid + 1 /\ clock' = clock
    BY <2>1 DEF Calendar!Insert
  <2>3. e \notin E /\ Distinct(F) /\ Pool(F, uid + 1) /\ e.ts \in Nat /\ e.ts >= clock
    BY <1>2, FreshEvent
  <2> HIDE DEF e
  <2>4. e.ts >= p
    BY <1>2, <1>4, <2>3
  <2>5. StandsAt(c, F, p)
    BY <1>3, <2>3, <2>4, CalendarInserts
  <2>6. m_qSize' = Cardinality(F)
    BY <1>3, <1>4, <2>2, <2>3, FS_AddElement
  <2> HIDE DEF c, F
  <2>7. StandsAt(cal', F, p)
    BY <2>2, <2>5, <2>6, CalendarResizes
  <2>8. Then(F)
    BY <1>2, <1>3, <1>5, <2>2, <2>3, <2>6, <2>7
  <2>9. Steps(E, clock, uid, F, clock', uid')
    BY <2>2 DEF Steps, e, F
  <2> QED
    BY <2>8, <2>9
<1>7. CASE Calendar!RemoveNext
  <2> DEFINE r == Calendar!DoRemoveNext(cal)
             e == r.event
             F == E \ {e}
             s == e.ts
  <2>1. /\ m_qSize # 0 /\ m_qSize' = m_qSize - 1 /\ uid' = uid
        /\ clock' = s /\ cal' = Calendar!ResizeDown(r.cal, m_qSize')
    BY <1>7 DEF Calendar!RemoveNext
  <2>2. E # {}
    BY <1>3, <2>1, FS_EmptySet
  <2>3. IsEarliest(e, E) /\ e \in E /\ StandsAt(r.cal, F, s)
    BY <1>3, <2>2, CalendarRemoves
  <2>4. m_qSize' = Cardinality(F)
    BY <1>3, <1>4, <2>1, <2>3, FS_RemoveElement
  <2>5. s \in Nat
    BY <1>2, <2>3 DEF Distinct, Keys
  <2>6. Pool(F, uid)
    BY <1>2, SmallerPool
  <2>7. Steps(E, clock, uid, F, clock', uid')
    BY <2>1, <2>3 DEF Steps
  <2> HIDE DEF r, e, F, s
  <2>8. StandsAt(cal', F, s)
    BY <2>1, <2>3, <2>4, CalendarResizes
  <2>9. Then(F)
    <3>1. s \in 0 .. clock'
      BY <2>1, <2>5
    <3> QED
      BY <1>2, <1>5, <2>1, <2>4, <2>5, <2>6, <2>8, <3>1
  <2> QED
    BY <2>7, <2>9
<1>8. CASE \E e \in Calendar!Events : Calendar!Remove(e)
  <2>1. PICK e \in Calendar!Events : Calendar!Remove(e)
    BY <1>8
  <2>2. e \in E
    BY <1>1, <2>1, NowContents DEF Share
  <2> DEFINE b == Calendar!Hash(e.ts, cal.n, cal.width)
             c == OutOf(cal, b, e)
             F == E \ {e}
  <2>3. /\ cal' = Calendar!ResizeDown(c, m_qSize') /\ m_qSize' = m_qSize - 1
        /\ clock' = clock /\ uid' = uid
    BY <2>1 DEF Calendar!Remove, OutOf
  <2>4. StandsAt(c, F, p)
    BY <1>3, <2>2, CalendarLoses
  <2>5. m_qSize' = Cardinality(F)
    BY <1>3, <1>4, <2>2, <2>3, FS_RemoveElement
  <2>6. Pool(F, uid)
    BY <1>2, SmallerPool
  <2>7. Steps(E, clock, uid, F, clock', uid')
    BY <2>2, <2>3 DEF Steps
  <2> HIDE DEF c, F
  <2>8. StandsAt(cal', F, p)
    BY <2>3, <2>4, <2>5, CalendarResizes
  <2>9. Then(F)
    BY <1>2, <1>3, <1>5, <2>3, <2>5, <2>6, <2>8
  <2> QED
    BY <2>7, <2>9
<1> QED
  BY <1>1, <1>6, <1>7, <1>8 DEF Calendar!Next

(* What SetScheduler takes out of the old list, and the new list it makes of it. *)
LEMMA DrainedHolds ==
  ASSUME NEW E, Now(E)
  PROVE  Holds(Drained, E)
<1>1. m_events \in {"heap", "calendar", "list"} /\ Distinct(E)
  BY DEF Now, Kept, Classes, Pool
<1>2. CASE m_events = "heap"
  <2>1. Holds(m_heap, E)
    BY <1>2 DEF Now, Kept, Share, HeapSound
  <2>2. Drained = HeapDrain(m_heap)[Len(m_heap)].out
    BY <1>2 DEF Drained
  <2> QED
    BY <1>1, <2>1, <2>2, HeapDrains
<1>3. CASE m_events = "calendar"
  <2>1. \E p \in 0 .. clock : StandsAt(cal, E, p) /\ m_qSize = Cardinality(E)
    BY <1>3 DEF Now, Kept, Share, CalendarSound
  <2>2. Drained = CalendarDrain(cal, m_qSize)[m_qSize].out
    BY <1>3 DEF Drained
  <2> QED
    BY <2>1, <2>2, CalendarDrains
<1>4. CASE m_events = "list"
  <2>1. Holds(m_list, E)
    BY <1>4 DEF Now, Kept, Share, ListSound
  <2>2. Drained = m_list
    BY <1>4 DEF Drained
  <2> QED
    BY <2>1, <2>2
<1> QED
  BY <1>1, <1>2, <1>3, <1>4

LEMMA ChangedKeeps ==
  ASSUME NEW E, Now(E), NEW class \in Classes, NEW es, Holds(es, E), Changed(class, es)
  PROVE  Then(E)
<1>1. /\ m_events' = class
      /\ m_heap' = IF class = "heap" THEN HeapFill(es)[Len(es)] ELSE <<>>
      /\ cal' = IF class = "calendar" THEN CalendarFill(es)[Len(es)]
                ELSE Calendar!InitCalendar(2, 1, 0)
      /\ m_qSize' = IF class = "calendar" THEN Len(es) ELSE 0
      /\ m_list' = IF class = "list" THEN ListFill(es)[Len(es)] ELSE <<>>
      /\ clock' = clock /\ uid' = uid
  BY DEF Changed
<1>2. clock \in Nat /\ uid \in Nat /\ Pool(E, uid) /\ Distinct(E) /\ 0 \in 0 .. clock
  BY DEF Now, Kept, Pool
<1>3. HeapSound(m_heap', removed', Share(class, "heap", E))
  <2>1. CASE class = "heap"
    BY <1>1, <1>2, <2>1, HeapFills DEF HeapSound, Share
  <2>2. CASE class # "heap"
    BY <1>1, <2>2, HoldsNothing DEF HeapSound, Share
  <2> QED
    BY <2>1, <2>2
<1>4. CalendarSound(cal', m_qSize', 0, Share(class, "calendar", E))
  <2>1. CASE class = "calendar"
    <3>1. StandsAt(cal', E, 0)
      BY <1>1, <1>2, <2>1, CalendarFills
    <3>2. m_qSize' = Cardinality(E)
      BY <1>1, <2>1, HoldsCardinality
    <3> QED
      BY <2>1, <3>1, <3>2 DEF CalendarSound, Share
  <2>2. CASE class # "calendar"
    BY <1>1, <2>2, StandsEmpty, FS_EmptySet DEF CalendarSound, Share
  <2> QED
    BY <2>1, <2>2
<1>5. ListSound(m_list', Share(class, "list", E))
  <2>1. CASE class = "list"
    BY <1>1, <1>2, <2>1, ListFills DEF ListSound, Share
  <2>2. CASE class # "list"
    BY <1>1, <2>2, HoldsNothing DEF ListSound, Share, Sorted
  <2> QED
    BY <2>1, <2>2
<1> QED
  BY <1>1, <1>2, <1>3, <1>4, <1>5 DEF Then, Kept

(* A step of the specification: one of the contract on the class in use, or none
   on the pending events. *)
LEMMA StepKept ==
  ASSUME NEW E, Now(E), [Next]_vars
  PROVE  \E F : /\ Then(F)
                /\ \/ m_events' = m_events
                      /\ (removed \/ Steps(E, clock, uid, F, clock', uid'))
                   \/ F = E /\ clock' = clock /\ uid' = uid
<1>1. CASE UseHeap
  BY <1>1, HeapStep DEF UseHeap
<1>2. CASE UseCalendar
  BY <1>2, CalendarStep DEF UseCalendar
<1>3. CASE UseList
  BY <1>3, ListStep DEF UseList
<1>4. CASE \E class \in Classes : SetScheduler(class)
  <2>1. PICK class \in Classes : Changed(class, Drained)
    BY <1>4 DEF SetScheduler
  <2>2. Then(E)
    BY <2>1, DrainedHolds, ChangedKeeps
  <2> QED
    BY <2>1, <2>2 DEF Changed
<1>5. CASE UNCHANGED vars
  BY <1>5 DEF vars, Now, Then
<1> QED
  BY <1>1, <1>2, <1>3, <1>4, <1>5 DEF Next

LEMMA IInvKept == IInv /\ [Next]_vars => IInv'
<1> SUFFICES ASSUME IInv, [Next]_vars PROVE IInv'
  OBVIOUS
<1>1. PICK E : Now(E)
  BY DEF IInv
<1>2. PICK F : Then(F)
  BY <1>1, StepKept
<1>3. Now(F)'
  BY <1>2 DEF Now, Then
<1> QED
  BY <1>3 DEF IInv

(* The class in use holds the pending events, each once and with uids below the
   next one; the heap is ordered unless Remove was called on it, the calendar is
   the year of its events at a day that no event and the clock lie before, m_qSize
   their number, and the list is sorted.  The classes not in use are empty. *)
THEOREM SchedulersStaySound == Spec => []IInv
<1>1. Init => IInv
  BY InitKept DEF IInv
<1>2. IInv /\ [Next]_vars => IInv'
  BY IInvKept
<1> QED
  BY <1>1, <1>2, PTL DEF Spec

-------------------------------------------------------------------------------
(* What the invariant gives. *)

(* No entry of HeapScheduler's array is smaller than its parent, until Remove is
   called on the heap: on this RemoveNext rests when it answers with the root. *)
THEOREM HeapStaysOrdered == Spec => []HeapOrdered
<1>1. IInv => HeapOrdered
  <2> SUFFICES ASSUME NEW E, Now(E) PROVE HeapOrdered
    BY DEF IInv
  <2> DEFINE D == Share(m_events, "heap", E)
  <2>1. Holds(m_heap, D) /\ (removed \/ Ordered(m_heap))
    BY DEF Now, Kept, HeapSound
  <2>2. Len(m_heap) \in Nat /\ DOMAIN m_heap = 1 .. Len(m_heap)
    BY <2>1, HoldsFacts
  <2>3. \A i \in DOMAIN m_heap \ {1} : i \in 2 .. Len(m_heap)
    BY <2>2
  <2> QED
    BY <2>1, <2>3 DEF HeapOrdered, Ordered, Heap!Parent
<1> QED
  BY <1>1, SchedulersStaySound, PTL

(* m_qSize is the number of events in the buckets of CalendarScheduler after every
   Insert, Remove, RemoveNext, resizing and exchange of the list. *)
THEOREM SizeStaysExact == Spec => []SizeExact
<1>1. IInv => SizeExact
  <2> SUFFICES ASSUME NEW E, Now(E) PROVE SizeExact
    BY DEF IInv
  <2>1. m_qSize = Cardinality(Share(m_events, "calendar", E))
    BY DEF Now, Kept, CalendarSound
  <2>2. Calendar!Events = Share(m_events, "calendar", E)
    BY NowContents
  <2> QED
    BY <2>1, <2>2 DEF SizeExact
<1> QED
  BY <1>1, SchedulersStaySound, PTL

(* The search of CalendarScheduler's RemoveNext starts at the day of m_lastPrio,
   and no pending event lies behind it, whatever was inserted, resized or moved in
   by SetScheduler. *)
THEOREM NothingFallsBehind == Spec => []NothingBehindTheDay
<1>1. IInv => NothingBehindTheDay
  <2> SUFFICES ASSUME NEW E, Now(E) PROVE NothingBehindTheDay
    BY DEF IInv
  <2> DEFINE D == Share(m_events, "calendar", E)
  <2>1. clock \in Nat /\ \E p \in 0 .. clock : StandsAt(cal, D, p)
    BY DEF Now, Kept, CalendarSound
  <2> HIDE DEF D
  <2>2. PICK p \in 0 .. clock : StandsAt(cal, D, p)
    BY <2>1
  <2>3. /\ cal.lastPrio = p /\ cal.lastBucket = Calendar!Hash(p, cal.n, cal.width)
        /\ cal.top > p /\ cal.top - cal.width <= p
    BY <2>2, StandsEvents
  <2>4. \A e \in D : e.ts >= p
    BY <2>2, StandsFacts
  <2>5. Calendar!Events = D /\ p <= clock
    BY <2>1, NowContents DEF D
  <2> QED
    BY <2>3, <2>4, <2>5 DEF NothingBehindTheDay
<1> QED
  BY <1>1, SchedulersStaySound, PTL

(* Remove takes out of the heap the event it is asked for and no other, in every
   heap it is called on, ordered or not. *)
THEOREM HeapRemovesOne == Spec => RemoveTakesOne
<1> DEFINE One == \A i \in DOMAIN m_heap :
                     Heap!Remove(i) => /\ HeapContents' = HeapContents \ {m_heap[i]}
                                       /\ Cardinality(HeapContents') = Len(m_heap')
<1>1. IInv => One
  <2> SUFFICES ASSUME NEW E, Now(E), NEW i \in DOMAIN m_heap, Heap!Remove(i)
               PROVE  /\ HeapContents' = HeapContents \ {m_heap[i]}
                      /\ Cardinality(HeapContents') = Len(m_heap')
    BY DEF IInv
  <2> DEFINE D == Share(m_events, "heap", E)
             F == D \ {m_heap[i]}
  <2>1. Holds(m_heap, D) /\ Distinct(D)
    BY DEF Now, Kept, HeapSound, Pool, Distinct, Share
  <2> HIDE DEF D
  <2>2. i \in 1 .. Len(m_heap) /\ {m_heap[j] : j \in DOMAIN m_heap} = D
    BY <2>1, HoldsFacts, HoldsRange
  <2>3. m_heap' = Heap!TopDown(Heap!MoveLastTo(m_heap, i), i)
    BY DEF Heap!Remove
  <2>4. Holds(m_heap', F)
    BY <2>1, <2>2, <2>3, HeapRemove
  <2> HIDE DEF F
  <2>5. {m_heap'[j] : j \in DOMAIN m_heap'} = F /\ Cardinality(F) = Len(m_heap')
    BY <2>4, HoldsRange, HoldsCardinality
  <2> QED
    BY <2>2, <2>5 DEF HeapContents, F
<1> QED
  BY <1>1, SchedulersStaySound, PTL DEF RemoveTakesOne

(* Each class of event list, and any exchange of one for another while events are
   pending, implements the contract of ns3::Scheduler: RemoveNext returns the
   earliest event by time stamp and uid, SetScheduler loses and adds none.  On a
   heap this holds until Remove is called on it. *)
THEOREM SchedulersImplementTheContract == Spec => ImplementsEventList
<1> DEFINE Step == IF m_events' = m_events THEN removed \/ Contract!Next
                   ELSE UNCHANGED Contents
           v == <<m_events, Contents, clock, uid>>
<1>1. Init => Contract!Init
  <2> SUFFICES ASSUME Init PROVE Contract!Init
    OBVIOUS
  <2>1. Contents = {}
    BY InitKept, NowContents
  <2> QED
    BY <2>1 DEF Contract!Init, Init, Heap!Init
<1>2. IInv /\ [Next]_vars => [Step]_v
  <2> SUFFICES ASSUME NEW E, Now(E), [Next]_vars PROVE [Step]_v
    BY DEF IInv
  <2>1. PICK F : /\ Then(F)
                 /\ \/ m_events' = m_events
                       /\ (removed \/ Steps(E, clock, uid, F, clock', uid'))
                    \/ F = E /\ clock' = clock /\ uid' = uid
    BY StepKept
  <2>2. Contents = E
    BY NowContents
  <2>3. Contents' = F
    <3>1. Now(F)'
      BY <2>1 DEF Now, Then
    <3> QED
      BY <3>1, NextContents
  <2>4. Steps(E, clock, uid, F, clock', uid') => Contract!Next
    <3>1. ASSUME NEW d \in Delays, F = E \cup {[ts |-> clock + d, uid |-> uid]},
                 clock' = clock, uid' = uid + 1
          PROVE  Contract!Next
      BY <2>2, <2>3, <3>1 DEF Contract!Next, Contract!Insert
    <3>2. ASSUME NEW e \in E, IsEarliest(e, E), F = E \ {e}, clock' = e.ts, uid' = uid
          PROVE  Contract!Next
      BY <2>2, <2>3, <3>2, OneOrder DEF Contract!Next, Contract!RemoveNext
    <3>3. ASSUME NEW e \in E, F = E \ {e}, clock' = clock, uid' = uid
          PROVE  Contract!Next
      BY <2>2, <2>3, <3>3 DEF Contract!Next, Contract!Remove
    <3> QED
      BY <3>1, <3>2, <3>3 DEF Steps
  <2>5. CASE m_events' = m_events /\ (removed \/ Steps(E, clock, uid, F, clock', uid'))
    BY <2>4, <2>5
  <2>6. CASE F = E /\ clock' = clock /\ uid' = uid
    BY <2>2, <2>3, <2>6
  <2> QED
    BY <2>1, <2>5, <2>6
<1> QED
  BY <1>1, <1>2, SchedulersStaySound, PTL DEF Spec, ImplementsEventList
===============================================================================
