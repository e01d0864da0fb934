----------------------------- MODULE NumberLemmas -----------------------------
(***************************************************************************)
(* Induction on natural numbers, over sets, and the existence of functions *)
(* defined by recursion on them: what the proofs about loops and about     *)
(* sequences of the other modules rest on.  Properties and steps are sets  *)
(* and functions here, not operators, so that the lemmas can be cited.     *)
(* And quotients and remainders, by numbers that are not known.            *)
(***************************************************************************)
EXTENDS Integers, WellFoundedInduction, TLAPS

(* A nonempty set of natural numbers has a least element. *)
LEMMA LeastNumber ==
  ASSUME NEW T \in SUBSET Nat, T # {}
  PROVE  \E x \in T : \A y \in T : x <= y
<1>1. \E x \in T : \A y \in T : ~(<<y, x>> \in OpToRel(<, Nat))
  BY NatLessThanWellFounded, WFMin
<1>2. PICK x \in T : \A y \in T : ~(<<y, x>> \in {p \in Nat \X Nat : p[1] < p[2]})
  BY <1>1 DEF OpToRel
<1>3. ASSUME NEW y \in T PROVE x <= y
  <2>1. ~(y < x)
    <3>1. <<y, x>> \in Nat \X Nat /\ <<y, x>>[1] = y /\ <<y, x>>[2] = x
      OBVIOUS
    <3> QED
      BY <1>2, <3>1
  <2> QED
    BY <2>1
<1> QED
  BY <1>2, <1>3

(* What holds of 0, and of n + 1 when it holds of n, holds of every number. *)
LEMMA Induction ==
  ASSUME NEW T, 0 \in T, \A n \in Nat : n \in T => n + 1 \in T
  PROVE  Nat \subseteq T
<1> SUFFICES ASSUME Nat \ T # {} PROVE FALSE
  OBVIOUS
<1>1. PICK x \in Nat \ T : \A y \in Nat \ T : x <= y
  BY LeastNumber
<1>2. x - 1 \in Nat /\ (x - 1) + 1 = x /\ ~(x <= x - 1)
  BY <1>1
<1>3. x - 1 \in T
  BY <1>1, <1>2
<1> QED
  BY <1>1, <1>2, <1>3

(* The same for the numbers up to N. *)
LEMMA InductionUpTo ==
  ASSUME NEW N \in Nat, NEW T, 0 \in T, \A n \in 0 .. N - 1 : n \in T => n + 1 \in T
  PROVE  0 .. N \subseteq T
<1> DEFINE U == {n \in Nat : n <= N => n \in T}
<1>1. 0 \in U
  OBVIOUS
<1>2. ASSUME NEW n \in Nat, n \in U PROVE n + 1 \in U
  <2>1. CASE n + 1 <= N
    BY <1>2, <2>1
  <2>2. CASE ~(n + 1 <= N)
    BY <2>2
  <2> QED
    BY <2>1, <2>2
<1> HIDE DEF U
<1>3. Nat \subseteq U
  BY <1>1, <1>2, Induction
<1> QED
  BY <1>3 DEF U

(* Strong induction: what holds of n when it holds of all smaller numbers. *)
LEMMA StrongInduction ==
  ASSUME NEW T, \A n \in Nat : (\A k \in 0 .. n - 1 : k \in T) => n \in T
  PROVE  Nat \subseteq T
<1> SUFFICES ASSUME Nat \ T # {} PROVE FALSE
  OBVIOUS
<1>1. PICK x \in Nat \ T : \A y \in Nat \ T : x <= y
  BY LeastNumber
<1>2. ASSUME NEW k \in 0 .. x - 1 PROVE k \in T
  BY <1>1
<1> QED
  BY <1>1, <1>2

(* G leads from a number and a value in S to a value in S. *)
Leads(G, S) == \A n \in Nat : \A x \in S : G[<<n, x>>] \in S

(* The values f takes up to N start with a and go on by G. *)
Follows(f, S, a, G, N) ==
  /\ f \in [0 .. N -> S]
  /\ f[0] = a
  /\ \A n \in 1 .. N : f[n] = G[<<n, f[n - 1]>>]

(* For a first value and a step from each value to the next there is the
   function that starts with the one and goes on by the other. *)
LEMMA RecursionUpTo ==
  ASSUME NEW S, NEW a \in S, NEW G, Leads(G, S), NEW N \in Nat
  PROVE  \E f : Follows(f, S, a, G, N)
<1> DEFINE OK(f, n) == /\ f \in [0 .. n -> S] /\ f[0] = a
                       /\ \A k \in 1 .. n : f[k] = G[<<k, f[k - 1]>>]
           T == {n \in Nat : \E f : OK(f, n)}
<1>1. 0 \in T
  <2> DEFINE f == [k \in 0 .. 0 |-> a]
  <2>1. OK(f, 0)
    OBVIOUS
  <2> QED
    BY <2>1
<1>2. ASSUME NEW n \in Nat, n \in T PROVE n + 1 \in T
  <2>1. PICK f : OK(f, n)
    BY <1>2
  <2> DEFINE g == [k \in 0 .. n + 1 |-> IF k = n + 1 THEN G[<<n + 1, f[n]>>] ELSE f[k]]
  <2>2. f[n] \in S /\ n + 1 \in Nat
    BY <2>1
  <2>a. G[<<n + 1, f[n]>>] \in S
    BY <2>2 DEF Leads
  <2>3. g \in [0 .. n + 1 -> S] /\ g[0] = a
    BY <2>1, <2>2, <2>a
  <2>4. ASSUME NEW k \in 1 .. n + 1 PROVE g[k] = G[<<k, g[k - 1]>>]
    <3>1. k - 1 \in 0 .. n + 1 /\ k - 1 # n + 1 /\ k \in 0 .. n + 1
      OBVIOUS
    <3>2. CASE k = n + 1
      BY <3>1, <3>2
    <3>3. CASE k # n + 1
      BY <2>1, <3>1, <3>3
    <3> QED
      BY <3>2, <3>3
  <2> HIDE DEF g
  <2> QED
    BY <2>3, <2>4
<1> HIDE DEF T
<1>3. Nat \subseteq T
  BY <1>1, <1>2, Induction
<1> QED
  BY <1>3 DEF T, Follows

(* The states of a loop after each of N passes: S[n] are those after n. *)
Passing(G, S, N) == \A n \in 1 .. N : \A x \in S[n - 1] : G[<<n, x>>] \in S[n]

(* A loop whose passes lead from S[n - 1] to S[n] runs from a to the end. *)
LEMMA LoopRuns ==
  ASSUME NEW N \in Nat, NEW S, NEW a \in S[0], NEW G, Passing(G, S, N)
  PROVE  \E f : /\ f = [n \in 0 .. N |-> f[n]]
                /\ f[0] = a
                /\ \A n \in 0 .. N : f[n] \in S[n]
                /\ \A n \in 1 .. N : f[n] = G[<<n, f[n - 1]>>]
<1> DEFINE U == {p \in (0 .. N) \X UNION {S[n] : n \in 0 .. N} : p[2] \in S[p[1]]}
           H == [q \in Nat \X U |->
                   IF q[2][1] < N THEN <<q[2][1] + 1, G[<<q[2][1] + 1, q[2][2]>>]>> ELSE q[2]]
           b == <<0, a>>
<1>1. b \in U
  OBVIOUS
<1>2. ASSUME NEW n \in 0 .. N - 1, NEW x \in S[n]
      PROVE  <<n, x>> \in U /\ <<n + 1, G[<<n + 1, x>>]>> \in U
  <2>1. n \in 0 .. N /\ n + 1 \in 0 .. N /\ n + 1 \in 1 .. N /\ (n + 1) - 1 = n
    OBVIOUS
  <2>2. G[<<n + 1, x>>] \in S[n + 1]
    BY <2>1 DEF Passing
  <2> QED
    BY <2>1, <2>2
<1>3. ASSUME NEW k \in Nat, NEW p \in U
      PROVE  /\ H[<<k, p>>] \in U
             /\ p[1] < N => H[<<k, p>>] = <<p[1] + 1, G[<<p[1] + 1, p[2]>>]>>
  <2>1. /\ p = <<p[1], p[2]>> /\ p[1] \in 0 .. N /\ p[2] \in S[p[1]]
        /\ H[<<k, p>>] = IF p[1] < N THEN <<p[1] + 1, G[<<p[1] + 1, p[2]>>]>> ELSE p
    OBVIOUS
  <2>2. p[1] < N => p[1] \in 0 .. N - 1
    BY <2>1
  <2> HIDE DEF H, U
  <2> QED
    BY <1>2, <2>1, <2>2
<1> HIDE DEF H
<1>4. Leads(H, U)
  BY <1>3 DEF Leads
<1>5. \A p \in U : p[1] \in 0 .. N /\ p[2] \in S[p[1]]
  OBVIOUS
<1> HIDE DEF U, b
<1>6. PICK F : Follows(F, U, b, H, N)
  BY <1>1, <1>4, RecursionUpTo
<1>7. /\ F \in [0 .. N -> U] /\ F[0] = b
      /\ \A n \in 1 .. N : F[n] = H[<<n, F[n - 1]>>]
  BY <1>6 DEF Follows
<1> DEFINE T == {n \in 0 .. N : F[n][1] = n}
<1>8. 0 .. N \subseteq T
  <2>1. 0 \in T
    BY <1>7 DEF b
  <2>2. ASSUME NEW n \in 0 .. N - 1, n \in T PROVE n + 1 \in T
    <3>1. n \in 0 .. N /\ n + 1 \in 0 .. N /\ n + 1 \in 1 .. N /\ (n + 1) - 1 = n /\ n < N
      OBVIOUS
    <3>2. F[n + 1] = H[<<n + 1, F[n]>>] /\ F[n] \in U /\ F[n][1] = n
      BY <1>7, <2>2, <3>1
    <3>3. F[n + 1] = <<n + 1, G[<<n + 1, F[n][2]>>]>>
      BY <1>3, <3>1, <3>2
    <3> QED
      BY <3>1, <3>3
  <2> HIDE DEF T
  <2> QED
    BY <2>1, <2>2, InductionUpTo
<1> DEFINE f == [n \in 0 .. N |-> F[n][2]]
<1>9. f[0] = a
  BY <1>7 DEF b
<1>10. \A n \in 0 .. N : f[n] \in S[n]
  BY <1>5, <1>7, <1>8
<1>11. ASSUME NEW n \in 1 .. N PROVE f[n] = G[<<n, f[n - 1]>>]
  <2>1. n - 1 \in 0 .. N /\ n \in 0 .. N /\ (n - 1) + 1 = n /\ n - 1 < N /\ n \in Nat
    OBVIOUS
  <2>2. F[n] = H[<<n, F[n - 1]>>] /\ F[n - 1] \in U /\ F[n - 1][1] = n - 1
    BY <1>7, <1>8, <2>1
  <2>3. F[n] = <<n, G[<<n, F[n - 1][2]>>]>>
    BY <1>3, <2>1, <2>2
  <2> QED
    BY <2>1, <2>3
<1>12. f = [n \in 0 .. N |-> f[n]]
  OBVIOUS
<1> HIDE DEF f
<1> QED
  BY <1>9, <1>10, <1>11, <1>12

(* What each pass keeps true from S[n - 1] to S[n] is true after every pass. *)
LEMMA LoopKeeps ==
  ASSUME NEW N \in Nat, NEW S, NEW g, g[0] \in S[0],
         \A n \in 1 .. N : g[n - 1] \in S[n - 1] => g[n] \in S[n]
  PROVE  \A n \in 0 .. N : g[n] \in S[n]
<1> DEFINE T == {n \in 0 .. N : g[n] \in S[n]}
<1>1. 0 \in T
  OBVIOUS
<1>2. ASSUME NEW n \in 0 .. N - 1, n \in T PROVE n + 1 \in T
  <2>1. n + 1 \in 0 .. N /\ n + 1 \in 1 .. N /\ (n + 1) - 1 = n
    OBVIOUS
  <2> QED
    BY <1>2, <2>1
<1> HIDE DEF T
<1>3. 0 .. N \subseteq T
  BY <1>1, <1>2, InductionUpTo
<1> QED
  BY <1>3 DEF T

-------------------------------------------------------------------------------
(* Quotients and remainders. *)

LEMMA Division ==
  ASSUME NEW a \in Nat, NEW w \in Nat \ {0}
  PROVE  /\ a \div w \in Nat /\ a % w \in 0 .. w - 1
         /\ a = (a \div w) * w + (a % w)
  OBVIOUS

LEMMA Products ==
  ASSUME NEW x \in Int, NEW y \in Int, NEW w \in Nat, x <= y
  PROVE  x * w <= y * w
<1>1. PICK d \in Nat : y = x + d
  <2>1. y - x \in Nat /\ y = x + (y - x)
    OBVIOUS
  <2> QED
    BY <2>1
<1>2. d * w \in Nat /\ y * w = x * w + d * w /\ x * w \in Int
  BY <1>1
<1> QED
  BY <1>2

LEMMA Quotient ==
  ASSUME NEW a \in Nat, NEW w \in Nat \ {0}, NEW q \in Int, NEW r \in 0 .. w - 1, a = q * w + r
  PROVE  a \div w = q /\ a % w = r
<1>1. a \div w \in Nat /\ a % w \in 0 .. w - 1 /\ a = (a \div w) * w + (a % w)
  BY Division
<1> DEFINE p == a \div w
           s == a % w
<1>2. p \in Int /\ s \in 0 .. w - 1 /\ p * w + s = q * w + r
  BY <1>1
<1> HIDE DEF p, s
<1>3. ASSUME NEW x \in Int, NEW y \in Int, NEW i \in 0 .. w - 1, NEW j \in 0 .. w - 1,
             x * w + i = y * w + j
      PROVE  ~(x < y)
  <2> SUFFICES ASSUME x + 1 <= y PROVE FALSE
    OBVIOUS
  <2>1. (x + 1) * w <= y * w /\ (x + 1) * w = x * w + w
    BY Products
  <2>2. x * w \in Int /\ y * w \in Int
    OBVIOUS
  <2> QED
    BY <1>3, <2>1, <2>2
<1>4. p = q
  BY <1>2, <1>3
<1>5. s = r
  BY <1>2, <1>4
<1> QED
  BY <1>4, <1>5 DEF p, s

LEMMA RemainderOfSum ==
  ASSUME NEW x \in Nat, NEW k \in Nat, NEW n \in Nat \ {0}
  PROVE  ((x % n) + k) % n = (x + k) % n
<1> DEFINE s == x % n
           q == x \div n
           y == s + k
           p == y \div n
           r == y % n
<1>1. q \in Nat /\ s \in Nat /\ x = q * n + s
  BY Division
<1>2. y \in Nat
  BY <1>1
<1> HIDE DEF y
<1>3. p \in Nat /\ r \in 0 .. n - 1 /\ y = p * n + r
  BY <1>2, Division
<1> HIDE DEF s, q, p, r
<1>4. x + k = (p + q) * n + r /\ p + q \in Int /\ x + k \in Nat
  BY <1>1, <1>3 DEF y
<1>5. (x + k) % n = r
  BY <1>3, <1>4, Quotient
<1> QED
  BY <1>5 DEF r, y, s

LEMMA SameRemainder ==
  ASSUME NEW n \in Nat \ {0}, NEW x \in Nat, NEW y \in Nat, x % n = y % n, x <= y, y < x + n
  PROVE  x = y
<1> DEFINE r == x % n
           p == x \div n
           q == y \div n
<1>1. p \in Nat /\ r \in Nat /\ x = p * n + r
  <2>1. p \in Nat /\ r \in 0 .. n - 1 /\ x = p * n + r
    BY ONLY Division, x \in Nat, n \in Nat \ {0}
  <2> QED
    BY <2>1
<1>2. q \in Nat /\ y = q * n + r
  <2>1. q \in Nat /\ y = q * n + (y % n)
    BY Division
  <2> QED
    BY <2>1
<1> HIDE DEF p, q, r
<1>3. ~(q < p)
  <2> SUFFICES ASSUME q + 1 <= p PROVE FALSE
    BY <1>1, <1>2
  <2>1. (q + 1) * n <= p * n /\ (q + 1) * n = q * n + n /\ q * n \in Nat /\ p * n \in Nat
    BY <1>1, <1>2, Products
  <2> QED
    BY <1>1, <1>2, <2>1
<1>4. ~(p < q)
  <2> SUFFICES ASSUME p + 1 <= q PROVE FALSE
    BY <1>1, <1>2
  <2>1. (p + 1) * n <= q * n /\ (p + 1) * n = p * n + n /\ q * n \in Nat /\ p * n \in Nat
    BY <1>1, <1>2, Products
  <2> QED
    BY <1>1, <1>2, <2>1
<1> QED
  BY <1>1, <1>2, <1>3, <1>4
===============================================================================
