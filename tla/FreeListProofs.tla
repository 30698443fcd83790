--------------------------- MODULE FreeListProofs ---------------------------
(***************************************************************************)
(* Popping and pushing keep a list sound, for lists of any length; and the  *)
(* induction on the naturals that walks along lists and loops need.         *)
(***************************************************************************)
EXTENDS FreeList, Integers, FiniteSetTheorems, WellFoundedInduction, TLAPS

\* A set of numbers has a least member.
LEMMA Least == ASSUME NEW T \in SUBSET Nat, T # {}
               PROVE  \E x \in T : \A y \in T : x <= y
<1> DEFINE R == OpToRel(<, Nat)
<1>1. \A x, y \in Nat : <<y, x>> \in R <=> y < x
  BY DEF OpToRel
<1>2. IsWellFoundedOn(R, Nat)
  BY NatLessThanWellFounded
<1> HIDE DEF R
<1>3. PICK x \in T : \A y \in T : ~(<<y, x>> \in R)
  BY <1>2, WFMin
<1>4. \A y \in T : x \in Nat /\ y \in Nat /\ ~(y < x)
  BY <1>1, <1>3
<1>5. \A y \in T : x <= y
  BY <1>4
<1> QED
  BY <1>5

(***************************************************************************)
(* Induction with a set in place of a predicate: among the numbers outside  *)
(* of S there would be a least one.                                         *)
(***************************************************************************)
LEMMA SetInduction ==
  ASSUME NEW S, 0 \in S, \A n \in Nat : n \in S => n + 1 \in S
  PROVE  \A n \in Nat : n \in S
<1> DEFINE T == Nat \ S
<1> SUFFICES ASSUME T # {} PROVE FALSE
  OBVIOUS
<1>1. T \in SUBSET Nat
  OBVIOUS
<1>2. PICK x \in T : \A y \in T : x <= y
  BY <1>1, Least
<1>3. x \in Nat /\ x # 0 /\ x - 1 \in Nat /\ ~(x <= x - 1) /\ x - 1 + 1 = x
  BY <1>2
<1>4. x - 1 \in S
  BY <1>2, <1>3
<1> QED
  BY <1>2, <1>3, <1>4

(***************************************************************************)
(* A loop of n rounds from x, round k of which maps v to step[k-1][v], has  *)
(* values: what a recursive function definition needs to stand for its      *)
(* equation.                                                                *)
(***************************************************************************)
Runs(n, S, x, step) ==
    \E f \in [0..n -> S] : f[0] = x /\ \A k \in 1..n : f[k] = step[k-1][f[k-1]]

LEMMA Recursion ==
  ASSUME NEW n \in Nat, NEW S, NEW x \in S, NEW step \in [Nat -> [S -> S]]
  PROVE  Runs(n, S, x, step)
<1> DEFINE Done == {k \in Nat : \E f \in [0..k -> S] :
                      f[0] = x /\ \A j \in 1..k : f[j] = step[j-1][f[j-1]]}
<1>1. 0 \in Done
  <2> DEFINE f == [j \in 0..0 |-> x]
  <2>1. f \in [0..0 -> S] /\ f[0] = x /\ \A j \in 1..0 : f[j] = step[j-1][f[j-1]]
    OBVIOUS
  <2> HIDE DEF f
  <2> QED
    BY <2>1
<1>2. ASSUME NEW k \in Nat, k \in Done PROVE k + 1 \in Done
  <2>1. PICK f \in [0..k -> S] : f[0] = x /\ \A j \in 1..k : f[j] = step[j-1][f[j-1]]
    BY <1>2
  <2> DEFINE v == step[k][f[k]]
             g == [j \in 0..k+1 |-> IF j = k+1 THEN v ELSE f[j]]
  <2>2. v \in S
    BY <2>1
  <2> HIDE DEF v
  <2>3. g \in [0..k+1 -> S]
    BY <2>1, <2>2
  <2>4. g[0] = x
    BY <2>1
  <2>5. \A j \in 1..k+1 : g[j] = step[j-1][g[j-1]]
    <3> TAKE j \in 1..k+1
    <3>1. CASE j \in 1..k
      BY <2>1, <3>1
    <3>2. CASE j = k+1
      BY <2>1, <3>2 DEF v
    <3> QED
      BY <3>1, <3>2
  <2> HIDE DEF g
  <2>6. \E h \in [0..k+1 -> S] : h[0] = x /\ \A j \in 1..k+1 : h[j] = step[j-1][h[j-1]]
    BY <2>3, <2>4, <2>5, Zenon
  <2>7. k + 1 \in Nat
    OBVIOUS
  <2> QED
    BY ONLY <2>6, <2>7
<1> HIDE DEF Done
<1>3. n \in Done
  BY <1>1, <1>2, SetInduction
<1> QED
  BY <1>3 DEF Done, Runs

-----------------------------------------------------------------------------
(***************************************************************************)
(* The head is null exactly when the list is empty, and is on the list      *)
(* otherwise.                                                               *)
(***************************************************************************)
LEMMA ListHead ==
  ASSUME NEW free, IsFiniteSet(free), NEW nil, nil \notin free,
         NEW head, NEW next, IsListOf(head, next, nil, free)
  PROVE  /\ head = nil <=> free = {}
         /\ head # nil => head \in free
<1> DEFINE n == Cardinality(free)
<1>1. n \in Nat /\ (n = 0 <=> free = {})
  BY FS_CardinalityType, FS_EmptySet
<1>2. PICK s \in [1..n -> free] : /\ IsChain(head, next, nil, n, s)
                                  /\ \A p \in free : \E i \in 1..n : s[i] = p
  BY DEF IsListOf, IsListWith
<1>3. CASE n = 0
  BY <1>1, <1>2, <1>3 DEF IsChain
<1>4. CASE n # 0
  <2>1. s[1] \in free /\ head = s[1]
    BY <1>1, <1>2, <1>4 DEF IsChain
  <2> QED
    BY <2>1
<1> QED
  BY <1>3, <1>4

(***************************************************************************)
(* Taking the head off, whatever happens to the link of the head.           *)
(***************************************************************************)
LEMMA PopList ==
  ASSUME NEW free, IsFiniteSet(free), NEW nil, nil \notin free,
         NEW head, NEW next, IsListOf(head, next, nil, free), head # nil,
         NEW next2, \A p \in free \ {head} : next2[p] = next[p]
  PROVE  IsListOf(next[head], next2, nil, free \ {head})
<1> DEFINE n == Cardinality(free)
<1>1. n \in Nat /\ head \in free
  BY FS_CardinalityType, ListHead
<1>2. Cardinality(free \ {head}) = n - 1 /\ n # 0
  BY <1>1, FS_RemoveElement, FS_EmptySet
<1>3. PICK s \in [1..n -> free] : /\ IsChain(head, next, nil, n, s)
                                  /\ \A p \in free : \E i \in 1..n : s[i] = p
  BY DEF IsListOf, IsListWith
<1> HIDE DEF n
<1> DEFINE r == [i \in 1..n-1 |-> s[i+1]]
<1>4. head = s[1] /\ \A i \in 1..n : i # 1 => s[i] # head
  BY <1>1, <1>2, <1>3 DEF IsChain
<1>5. r \in [1..n-1 -> free \ {head}]
  BY <1>1, <1>4
<1>6. IsChain(next[head], next2, nil, n-1, r)
  <2>1. \A i, j \in 1..n-1 : r[i] = r[j] => i = j
    BY <1>1, <1>3 DEF IsChain
  <2>2. next[head] = IF n-1 = 0 THEN nil ELSE r[1]
    BY <1>1, <1>2, <1>3, <1>4 DEF IsChain
  <2>3. \A i \in 1..n-1 : next2[r[i]] = IF i = n-1 THEN nil ELSE r[i+1]
    BY <1>1, <1>3, <1>5 DEF IsChain
  <2> QED
    BY <2>1, <2>2, <2>3 DEF IsChain
<1>7. \A p \in free \ {head} : \E i \in 1..n-1 : r[i] = p
  <2> TAKE p \in free \ {head}
  <2>1. PICK i \in 1..n : s[i] = p
    BY <1>3
  <2>2. i-1 \in 1..n-1 /\ r[i-1] = p
    BY <1>1, <1>4, <2>1
  <2> QED
    BY <2>2
<1> HIDE DEF r
<1>8. IsListWith(next[head], next2, nil, free \ {head}, n-1)
  BY <1>5, <1>6, <1>7 DEF IsListWith
<1> QED
  BY <1>2, <1>8 DEF IsListOf

(***************************************************************************)
(* Putting an element that is not on the list at its head.                  *)
(***************************************************************************)
LEMMA PushList ==
  ASSUME NEW free, IsFiniteSet(free), NEW nil,
         NEW head, NEW next, IsListOf(head, next, nil, free),
         NEW p, p \notin free,
         NEW next2, next2[p] = head, \A q \in free : next2[q] = next[q]
  PROVE  IsListOf(p, next2, nil, free \cup {p})
<1> DEFINE n == Cardinality(free)
<1>1. n \in Nat /\ Cardinality(free \cup {p}) = n + 1
  BY FS_CardinalityType, FS_AddElement
<1>2. PICK s \in [1..n -> free] : /\ IsChain(head, next, nil, n, s)
                                  /\ \A q \in free : \E i \in 1..n : s[i] = q
  BY DEF IsListOf, IsListWith
<1> HIDE DEF n
<1> DEFINE r == [i \in 1..n+1 |-> IF i = 1 THEN p ELSE s[i-1]]
<1>3. r \in [1..n+1 -> free \cup {p}]
  BY <1>1
<1>4. IsChain(p, next2, nil, n+1, r)
  <2>1. \A i, j \in 1..n+1 : r[i] = r[j] => i = j
    BY <1>1, <1>2 DEF IsChain
  <2>2. p = IF n+1 = 0 THEN nil ELSE r[1]
    BY <1>1
  <2>3. \A i \in 1..n+1 : next2[r[i]] = IF i = n+1 THEN nil ELSE r[i+1]
    <3> TAKE i \in 1..n+1
    <3>1. CASE i = 1
      BY <1>1, <1>2, <3>1 DEF IsChain
    <3>2. CASE i > 1
      <4>1. i-1 \in 1..n /\ r[i] = s[i-1] /\ s[i-1] \in free
        BY <1>1, <3>2
      <4>2. next2[r[i]] = IF i-1 = n THEN nil ELSE s[i-1+1]
        BY <1>2, <4>1 DEF IsChain
      <4>3. i # n+1 => r[i+1] = s[i-1+1]
        BY <1>1, <3>2
      <4> QED
        BY <1>1, <4>2, <4>3
    <3> QED
      BY <1>1, <3>1, <3>2
  <2> QED
    BY <2>1, <2>2, <2>3 DEF IsChain
<1>5. \A q \in free \cup {p} : \E i \in 1..n+1 : r[i] = q
  <2> TAKE q \in free \cup {p}
  <2>1. CASE q = p
    <3>1. 1 \in 1..n+1 /\ r[1] = p
      BY <1>1
    <3> QED
      BY <2>1, <3>1
  <2>2. CASE q \in free
    <3>1. PICK i \in 1..n : s[i] = q
      BY <1>2, <2>2
    <3>2. i+1 \in 1..n+1 /\ r[i+1] = q
      BY <1>1, <3>1
    <3> QED
      BY <3>2
  <2> QED
    BY <2>1, <2>2
<1> HIDE DEF r
<1>6. IsListWith(p, next2, nil, free \cup {p}, n+1)
  BY <1>3, <1>4, <1>5 DEF IsListWith
<1> QED
  BY <1>1, <1>6 DEF IsListOf

\* Only the links of the listed elements matter.
LEMMA SameList ==
  ASSUME NEW free, NEW nil, NEW head, NEW next, IsListOf(head, next, nil, free),
         NEW next2, \A q \in free : next2[q] = next[q]
  PROVE  IsListOf(head, next2, nil, free)
<1> DEFINE n == Cardinality(free)
<1>1. PICK s \in [1..n -> free] : /\ IsChain(head, next, nil, n, s)
                                  /\ \A p \in free : \E i \in 1..n : s[i] = p
  BY DEF IsListOf, IsListWith
<1> HIDE DEF n
<1>2. IsChain(head, next2, nil, n, s)
  BY <1>1 DEF IsChain
<1> QED
  BY <1>1, <1>2 DEF IsListOf, IsListWith, n

(***************************************************************************)
(* The list of [lo, hi) that pushing [mid, hi) and then [lo, mid) leaves,   *)
(* each in ascending order: mid-1 down to lo, then hi-1 down to mid.        *)
(***************************************************************************)
LEMMA TwoRuns ==
  ASSUME NEW lo \in Nat, NEW mid \in Nat, NEW hi \in Nat, lo < mid, mid <= hi, NEW nil, NEW next,
         \A p \in lo..hi-1 : next[p] = IF p > lo /\ p # mid THEN p - 1
                                     ELSE IF p = lo /\ mid < hi THEN hi - 1 ELSE nil
  PROVE  IsListOf(mid - 1, next, nil, lo..hi-1)
<1> DEFINE n == hi - lo
           s == [i \in 1..n |-> IF i <= mid - lo THEN mid - i ELSE hi + mid - lo - i]
<1>1. n \in 0..hi /\ n > 0
  OBVIOUS
<1>2. s \in [1..n -> lo..hi-1]
  OBVIOUS
<1>3. \A i, j \in 1..n : s[i] = s[j] => i = j
  OBVIOUS
<1>4. mid - 1 = s[1]
  BY <1>1
<1>5. \A i \in 1..n : next[s[i]] = IF i = n THEN nil ELSE s[i+1]
  <2> TAKE i \in 1..n
  <2>1. s[i] \in lo..hi-1
    BY <1>2
  <2>2. CASE i < mid - lo
    BY <2>1, <2>2
  <2>3. CASE i = mid - lo
    BY <2>1, <2>3
  <2>4. CASE i > mid - lo
    BY <2>1, <2>4
  <2> QED
    BY <2>2, <2>3, <2>4
<1>6. \A p \in lo..hi-1 : \E i \in 1..n : s[i] = p
  <2> TAKE p \in lo..hi-1
  <2>1. CASE p < mid
    <3>1. mid - p \in 1..n /\ s[mid - p] = p
      BY <2>1
    <3> QED BY <3>1
  <2>2. CASE p >= mid
    <3>1. hi + mid - lo - p \in 1..n /\ s[hi + mid - lo - p] = p
      BY <2>2
    <3> QED BY <3>1
  <2> QED
    BY <2>1, <2>2
<1>7. Cardinality(lo..hi-1) = n
  <2>1. /\ lo \in Int /\ hi-1 \in Int
        /\ (IF lo > hi-1 THEN 0 ELSE hi-1-lo+1) = n
    OBVIOUS
  <2> HIDE DEF n
  <2> QED
    BY <2>1, FS_Interval
<1> HIDE DEF n, s
<1>8. IsChain(mid - 1, next, nil, n, s)
  BY <1>1, <1>3, <1>4, <1>5 DEF IsChain
<1>9. IsListWith(mid - 1, next, nil, lo..hi-1, n)
  BY <1>2, <1>6, <1>8 DEF IsListWith
<1> QED
  BY <1>7, <1>9 DEF IsListOf

-----------------------------------------------------------------------------
\* Division by a number that is not known to the provers.
LEMMA Apart ==
  ASSUME NEW n \in Nat, n > 0, NEW p \in Int, NEW q \in Int, p < q
  PROVE  p * n + n <= q * n
<1>1. p + 1 <= q /\ q - (p + 1) \in Nat
  OBVIOUS
<1>2. (q - (p + 1)) * n \in Nat
  BY <1>1
<1>3. (q - (p + 1)) * n = q * n - (p * n + n)
  OBVIOUS
<1>4. q * n \in Int /\ p * n \in Int
  OBVIOUS
<1> QED
  BY <1>2, <1>3, <1>4

LEMMA Quotient ==
  ASSUME NEW n \in Nat, n > 0, NEW a \in Int
  PROVE  /\ a \div n \in Int /\ a % n \in 0..n-1
         /\ a = (a \div n) * n + (a % n)
<1> DEFINE d == a \div n
<1>1. n \in Nat /\ n > 0 /\ a \in Int
  OBVIOUS
<1>2. a = n * d + (a % n) /\ a % n \in 0..n-1 /\ d \in Int
  BY <1>1
<1>3. n * d = d * n
  BY <1>1, <1>2
<1> QED
  BY <1>2, <1>3

LEMMA QuotientIs ==
  ASSUME NEW n \in Nat, n > 0, NEW q \in Int, NEW a \in Int, q * n <= a, a < q * n + n
  PROVE  a \div n = q
<1> DEFINE d == a \div n
<1>1. d \in Int /\ a % n \in 0..n-1 /\ a = d * n + (a % n)
  BY Quotient
<1> HIDE DEF d
<1>2. d * n \in Int /\ q * n \in Int
  BY <1>1
<1>3. d < q => d * n + n <= q * n
  BY <1>1, Apart
<1>4. q < d => q * n + n <= d * n
  BY <1>1, Apart
<1>5. a % n \in Int /\ a % n < n /\ a % n >= 0
  BY <1>1
<1> QED
  BY <1>1, <1>2, <1>3, <1>4, <1>5 DEF d

LEMMA QuotientGrows ==
  ASSUME NEW n \in Nat, n > 0, NEW a \in Int, NEW b \in Int, a <= b
  PROVE  a \div n <= b \div n
<1> DEFINE d == a \div n
           e == b \div n
<1>1. /\ d \in Int /\ a % n \in 0..n-1 /\ a = d * n + (a % n)
      /\ e \in Int /\ b % n \in 0..n-1 /\ b = e * n + (b % n)
  BY Quotient
<1> HIDE DEF d, e
<1>2. d * n \in Int /\ e * n \in Int
  BY <1>1
<1>3. e < d => e * n + n <= d * n
  BY <1>1, Apart
<1>4. a % n \in Int /\ a % n >= 0 /\ b % n \in Int /\ b % n < n
  BY <1>1
<1>5. ~(e < d)
  BY <1>1, <1>2, <1>3, <1>4
<1> QED
  BY <1>1, <1>5 DEF d, e
=============================================================================
