---------------------------- MODULE MonitorProofs ----------------------------
(***************************************************************************)
(* Proofs about the monitor.  Its command line, for lines of any length,    *)
(* delimiters and tables of commands: what is called is what was typed, and *)
(* a line is refused for the reason that is reported.  And the loops of     *)
(* vmshow, vmdumpv and vmdumpp, for any memory and any range: what they     *)
(* print is what was asked for.  The latter suppose that the code reads and *)
(* prints single numbers rightly: the provers have no theory of folds over  *)
(* texts and of powers, and TLC checks that part on the instance of a run.  *)
(***************************************************************************)
EXTENDS Monitor, SequenceTheorems, FreeListProofs

(***************************************************************************)
(* str::find: the first character of cs from i on, or the end of the text.  *)
(***************************************************************************)
LEMMA FromIs ==
  ASSUME NEW X, NEW s \in Seq(X), NEW i \in 1..Len(s)+1, NEW cs
  PROVE  /\ From(s, i, cs) \in i..Len(s)+1
         /\ From(s, i, cs) <= Len(s) => s[From(s, i, cs)] \in cs
         /\ \A k \in i..From(s, i, cs)-1 : s[k] \notin cs
<1> DEFINE T == {j \in i..Len(s)+1 : j <= Len(s) => s[j] \in cs}
<1>1. Len(s) \in Nat /\ Len(s) + 1 \in T /\ T \in SUBSET Nat
  OBVIOUS
<1>2. PICK j \in T : \A k \in T : j <= k
  BY <1>1, Least
<1>3. ASSUME NEW k \in i..j-1 PROVE s[k] \notin cs
  <2>1. k \in i..Len(s)+1 /\ ~(j <= k)
    BY <1>1, <1>2
  <2> QED
    BY <1>2, <2>1
<1>4. j \in i..Len(s)+1 /\ (j <= Len(s) => s[j] \in cs) /\ \A k \in i..j-1 : s[k] \notin cs
  BY <1>2, <1>3
<1>5. \E a \in i..Len(s)+1 : (a <= Len(s) => s[a] \in cs) /\ \A k \in i..a-1 : s[k] \notin cs
  BY <1>4
<1> QED
  BY <1>5 DEF From

-----------------------------------------------------------------------------
(***************************************************************************)
(* One round of the loop of split: the next piece after those in got, when  *)
(* there was a piece in each round before and there is one more.            *)
(***************************************************************************)
Positions(s) == 1..Len(s)

EndedAt(s, got) == IF got = <<>> THEN 1 ELSE From(s, Last(got), Delimiters)
NextAt(s, got)  == From(s, EndedAt(s, got), ToSet(s) \ Delimiters)

Round(s, n, got) ==
    IF Len(got) < n - 1 \/ NextAt(s, got) > Len(s) THEN got ELSE Append(got, NextAt(s, got))

\* The pieces found are words of s in order, and none before the last is left out.
WordsSoFar(s, n, got) ==
    /\ got \in Seq(Positions(s)) /\ Len(got) <= n
    /\ \A i, j \in 1..Len(got) : i < j => got[i] < got[j]
    /\ \A i \in 1..Len(got) : got[i] \in WordStarts(s)
    /\ \A w \in WordStarts(s) :
          Len(got) < n \/ (got # <<>> /\ w <= got[Len(got)]) => \E k \in 1..Len(got) : got[k] = w

LEMMA RoundPositions ==
  ASSUME NEW X, NEW s \in Seq(X), NEW got \in Seq(Positions(s))
  PROVE  /\ EndedAt(s, got) \in 1..Len(s)+1
         /\ NextAt(s, got) \in EndedAt(s, got)..Len(s)+1
         /\ NextAt(s, got) <= Len(s) => s[NextAt(s, got)] \notin Delimiters
         /\ \A k \in EndedAt(s, got)..NextAt(s, got)-1 : s[k] \in Delimiters
         /\ got # <<>> => /\ got[Len(got)] \in 1..Len(s) /\ Len(got) \in 1..Len(got)
                          /\ EndedAt(s, got) \in got[Len(got)]..Len(s)+1
                          /\ EndedAt(s, got) <= Len(s) => s[EndedAt(s, got)] \in Delimiters
                          /\ \A k \in got[Len(got)]..EndedAt(s, got)-1 : s[k] \notin Delimiters
<1> DEFINE e == EndedAt(s, got)
           n == NextAt(s, got)
<1>1. Len(s) \in Nat /\ Len(got) \in Nat
  OBVIOUS
<1>2. got # <<>> => got[Len(got)] \in 1..Len(s) /\ Len(got) \in 1..Len(got)
  BY DEF Positions
<1>3. got # <<>> => /\ e \in got[Len(got)]..Len(s)+1
                    /\ e <= Len(s) => s[e] \in Delimiters
                    /\ \A k \in got[Len(got)]..e-1 : s[k] \notin Delimiters
  <2> SUFFICES ASSUME got # <<>>
               PROVE  /\ e \in got[Len(got)]..Len(s)+1
                      /\ e <= Len(s) => s[e] \in Delimiters
                      /\ \A k \in got[Len(got)]..e-1 : s[k] \notin Delimiters
    OBVIOUS
  <2>1. got[Len(got)] \in 1..Len(s)+1 /\ e = From(s, got[Len(got)], Delimiters)
    BY <1>1, <1>2 DEF EndedAt, Last
  <2> HIDE DEF e
  <2> QED
    BY <2>1, FromIs
<1>4. e \in 1..Len(s)+1
  <2>1. CASE got = <<>>
    BY <1>1, <2>1 DEF EndedAt
  <2>2. CASE got # <<>>
    <3> HIDE DEF e
    <3> QED
      BY <1>1, <1>2, <1>3, <2>2
  <2> QED
    BY <2>1, <2>2
<1>5. n = From(s, e, ToSet(s) \ Delimiters)
  BY DEF NextAt
<1> HIDE DEF e, n
<1>6. /\ n \in e..Len(s)+1
      /\ n <= Len(s) => s[n] \in ToSet(s) \ Delimiters
      /\ \A k \in e..n-1 : s[k] \notin ToSet(s) \ Delimiters
  BY <1>4, <1>5, FromIs
<1>7. \A k \in e..n-1 : s[k] \in ToSet(s)
  BY <1>1, <1>4, <1>6 DEF ToSet
<1> QED
  BY <1>2, <1>3, <1>4, <1>6, <1>7 DEF e, n

\* Between the last piece and the next there is no beginning of a word.
LEMMA NoWordSkipped ==
  ASSUME NEW X, NEW s \in Seq(X), NEW got \in Seq(Positions(s)), NEW w \in WordStarts(s),
         got # <<>> => w > got[Len(got)], w < NextAt(s, got)
  PROVE  FALSE
<1> DEFINE e == EndedAt(s, got)
           n == NextAt(s, got)
<1>1. w \in 1..Len(s) /\ s[w] \notin Delimiters /\ (w > 1 => s[w-1] \in Delimiters) /\ Len(s) \in Nat
  BY DEF WordStarts
<1>2. /\ e \in 1..Len(s)+1 /\ n \in e..Len(s)+1
      /\ \A k \in e..n-1 : s[k] \in Delimiters
      /\ got # <<>> => /\ got[Len(got)] \in 1..Len(s) /\ e \in got[Len(got)]..Len(s)+1
                       /\ \A k \in got[Len(got)]..e-1 : s[k] \notin Delimiters
  BY RoundPositions
<1>3. got = <<>> => e = 1
  BY DEF EndedAt
<1>4. w < n
  OBVIOUS
<1> HIDE DEF e, n
<1>5. ~(w >= e)
  <2> SUFFICES ASSUME w >= e PROVE FALSE
    OBVIOUS
  <2>1. w \in e..n-1
    BY <1>1, <1>2, <1>4
  <2> QED
    BY <1>1, <1>2, <2>1
<1>6. got # <<>>
  BY <1>1, <1>3, <1>5
<1>7. w - 1 \in got[Len(got)]..e-1 /\ w > 1
  BY <1>1, <1>2, <1>5, <1>6
<1> QED
  BY <1>1, <1>2, <1>6, <1>7

LEMMA RoundKeeps ==
  ASSUME NEW X, NEW s \in Seq(X), NEW n \in Nat, NEW got, WordsSoFar(s, n, got)
  PROVE  WordsSoFar(s, n + 1, Round(s, n + 1, got))
<1> DEFINE p == NextAt(s, got)
<1>1. /\ got \in Seq(Positions(s)) /\ Len(got) <= n /\ Len(got) \in Nat /\ Len(s) \in Nat
      /\ \A i, j \in 1..Len(got) : i < j => got[i] < got[j]
      /\ \A i \in 1..Len(got) : got[i] \in WordStarts(s)
      /\ \A w \in WordStarts(s) :
            Len(got) < n \/ (got # <<>> /\ w <= got[Len(got)]) => \E k \in 1..Len(got) : got[k] = w
  BY DEF WordsSoFar
<1>2. p \in 1..Len(s)+1
  <2> HIDE DEF p
  <2>1. EndedAt(s, got) \in 1..Len(s)+1 /\ p \in EndedAt(s, got)..Len(s)+1
    BY <1>1, RoundPositions DEF p
  <2> QED
    BY <1>1, <2>1
<1>3. ASSUME NEW w \in WordStarts(s), w < p, ~\E k \in 1..Len(got) : got[k] = w
      PROVE  FALSE
  <2>1. w \in Nat
    BY DEF WordStarts
  <2>2. got # <<>> => ~(w <= got[Len(got)])
    BY <1>1, <1>3
  <2>3. got # <<>> => got[Len(got)] \in Nat
    BY <1>1 DEF Positions
  <2>4. got # <<>> => w > got[Len(got)]
    BY <2>1, <2>2, <2>3
  <2> QED
    BY <1>1, <1>3, <2>4, NoWordSkipped
<1>4. CASE Len(got) < n \/ p > Len(s)
  <2>1. Round(s, n + 1, got) = got
    BY <1>1, <1>4 DEF Round
  <2>2. \A w \in WordStarts(s) : \E k \in 1..Len(got) : got[k] = w
    <3> TAKE w \in WordStarts(s)
    <3>1. w \in 1..Len(s)
      BY DEF WordStarts
    <3>2. CASE Len(got) < n
      BY <1>1, <3>2
    <3>3. CASE p > Len(s)
      <4>1. w < p
        BY <1>1, <1>2, <3>1, <3>3
      <4> QED
        BY <1>3, <4>1
    <3> QED
      BY <1>4, <3>2, <3>3
  <2>3. Len(got) <= n + 1
    BY <1>1
  <2> QED
    BY <1>1, <2>1, <2>2, <2>3 DEF WordsSoFar
<1>5. CASE Len(got) = n /\ p <= Len(s)
  <2> DEFINE g == Append(got, p)
  <2>1. Round(s, n + 1, got) = g
    BY <1>1, <1>2, <1>5 DEF Round
  <2>2. p \in Positions(s)
    BY <1>1, <1>2, <1>5 DEF Positions
  <2>3. /\ g \in Seq(Positions(s)) /\ Len(g) = n + 1 /\ g # <<>>
        /\ g[n+1] = p /\ \A i \in 1..n : g[i] = got[i]
    BY <1>1, <1>5, <2>2
  <2>4. p \in WordStarts(s) /\ \A i \in 1..n : got[i] < p
    <3> DEFINE e == EndedAt(s, got)
    <3>1. /\ e \in 1..Len(s)+1 /\ p \in e..Len(s)+1 /\ s[p] \notin Delimiters
          /\ \A k \in e..p-1 : s[k] \in Delimiters
          /\ got # <<>> => /\ got[Len(got)] \in 1..Len(s) /\ Len(got) \in 1..Len(got)
                           /\ e \in got[Len(got)]..Len(s)+1
                           /\ e <= Len(s) => s[e] \in Delimiters
                           /\ \A k \in got[Len(got)]..e-1 : s[k] \notin Delimiters
      BY <1>1, <1>5, RoundPositions
    <3>2. got = <<>> => e = 1
      BY DEF EndedAt
    <3> HIDE DEF e, p
    <3>3. p # e => s[p-1] \in Delimiters
      BY <1>1, <1>2, <3>1
    <3>4. p = e => got = <<>>
      BY <1>1, <1>5, <3>1
    <3>5. p > 1 => s[p-1] \in Delimiters
      BY <3>2, <3>3, <3>4
    <3>6. p \in WordStarts(s)
      BY <1>1, <1>2, <1>5, <3>1, <3>5 DEF WordStarts
    <3>7. got # <<>> => got[Len(got)] < p
      BY <1>1, <1>2, <3>1, <3>4
    <3>8. ASSUME NEW i \in 1..n PROVE got[i] < p
      <4>1. got # <<>> /\ Len(got) \in 1..Len(got) /\ i \in 1..Len(got)
        BY <1>1, <1>5
      <4>2. got[i] \in Nat /\ got[Len(got)] \in Nat /\ got[Len(got)] < p
        BY <1>1, <3>7, <4>1 DEF Positions
      <4>3. CASE i = Len(got)
        BY <4>2, <4>3
      <4>4. CASE i # Len(got)
        <5>1. i < Len(got)
          BY <1>1, <4>1, <4>4
        <5>2. got[i] < got[Len(got)]
          BY <1>1, <4>1, <5>1
        <5> QED
          BY <1>2, <4>2, <5>2
      <4> QED
        BY <4>3, <4>4
    <3> QED
      BY <3>6, <3>8
  <2> HIDE DEF g
  <2>5. \A i, j \in 1..Len(g) : i < j => g[i] < g[j]
    <3> TAKE i, j \in 1..Len(g)
    <3> HAVE i < j
    <3>1. i \in 1..n /\ j \in 1..n+1 /\ g[i] = got[i]
      BY <1>1, <2>3
    <3>2. CASE j = n + 1
      BY <2>3, <2>4, <3>1, <3>2
    <3>3. CASE j # n + 1
      <4>1. j \in 1..n /\ g[j] = got[j]
        BY <1>1, <2>3, <3>1, <3>3
      <4> QED
        BY <1>1, <1>5, <3>1, <4>1
    <3> QED
      BY <3>2, <3>3
  <2>6. \A i \in 1..Len(g) : g[i] \in WordStarts(s)
    <3> TAKE i \in 1..Len(g)
    <3>1. CASE i = n + 1
      BY <2>3, <2>4, <3>1
    <3>2. CASE i # n + 1
      <4>1. i \in 1..n
        BY <2>3, <3>2
      <4> QED
        BY <1>1, <1>5, <2>3, <4>1
    <3> QED
      BY <3>1, <3>2
  <2>7. \A w \in WordStarts(s) : w <= p => \E k \in 1..Len(g) : g[k] = w
    <3> TAKE w \in WordStarts(s)
    <3> HAVE w <= p
    <3>1. w \in Nat /\ n + 1 \in 1..Len(g)
      BY <2>3 DEF WordStarts
    <3>2. CASE w = p
      BY <2>3, <3>1, <3>2
    <3>3. CASE w # p
      <4>1. w < p
        BY <1>2, <3>1, <3>3
      <4>2. PICK k \in 1..Len(got) : got[k] = w
        BY <1>3, <4>1
      <4>3. k \in 1..n /\ k \in 1..Len(g)
        BY <1>1, <1>5, <2>3
      <4> QED
        BY <2>3, <4>2, <4>3
    <3> QED
      BY <3>2, <3>3
  <2>8. g[Len(g)] = p /\ ~(Len(g) < n + 1) /\ Len(g) <= n + 1
    BY <1>1, <2>3
  <2> QED
    BY <2>1, <2>3, <2>5, <2>6, <2>7, <2>8 DEF WordsSoFar
<1> QED
  BY <1>1, <1>2, <1>4, <1>5

(***************************************************************************)
(* The loop of split: after n rounds the first n words have been found, or  *)
(* all of them.                                                             *)
(***************************************************************************)
LEMMA PieceStartsAre ==
  ASSUME NEW X, NEW s \in Seq(X), NEW count \in Nat
  PROVE  WordsSoFar(s, count, PieceStarts(s, count))
<1> DEFINE Texts == Seq(Positions(s))
           step  == [n \in Nat |-> [got \in Texts |->
                        IF WordsSoFar(s, n, got) THEN Round(s, n + 1, got) ELSE <<>>]]
           next  == CHOOSE f : f = [n \in 0..count |-> IF n = 0 THEN <<>> ELSE Round(s, n, f[n-1])]
<1>1. WordsSoFar(s, 0, <<>>) /\ <<>> \in Texts
  BY DEF WordsSoFar
<1>2. step \in [Nat -> [Texts -> Texts]]
  <2> HIDE DEF Texts
  <2>1. ASSUME NEW n \in Nat, NEW got \in Texts
        PROVE  (IF WordsSoFar(s, n, got) THEN Round(s, n + 1, got) ELSE <<>>) \in Texts
    <3>1. CASE WordsSoFar(s, n, got)
      <4>1. WordsSoFar(s, n + 1, Round(s, n + 1, got))
        BY <3>1, RoundKeeps
      <4> QED
        BY <3>1, <4>1 DEF WordsSoFar, Texts
    <3> QED
      BY <1>1, <3>1
  <2> QED
    BY <2>1
<1>3. \A n \in Nat, got \in Texts : WordsSoFar(s, n, got) => step[n][got] = Round(s, n + 1, got)
  OBVIOUS
<1> HIDE DEF step, next, Texts
<1>4. PICK f \in [0..count -> Texts] : f[0] = <<>> /\ \A n \in 1..count : f[n] = step[n-1][f[n-1]]
  <2>1. Runs(count, Texts, <<>>, step)
    BY <1>1, <1>2, Recursion
  <2> QED
    BY <2>1 DEF Runs
<1>5. ASSUME NEW n \in Nat, n + 1 \in 0..count
       PROVE  n \in 0..count /\ f[n] \in Texts /\ f[n+1] = step[n][f[n]]
  <2>1. n \in 0..count /\ n + 1 \in 1..count /\ (n + 1) - 1 = n
    BY <1>5
  <2> DEFINE k == n + 1
  <2>2. k \in 1..count /\ k - 1 = n
    BY <2>1
  <2> HIDE DEF k
  <2>3. f[k] = step[n][f[n]] /\ f[n] \in Texts
    BY <1>4, <2>1, <2>2
  <2> QED
    BY <2>1, <2>3 DEF k
<1>6. \A n \in 0..count : WordsSoFar(s, n, f[n])
  <2> DEFINE S == {n \in Nat : n \in 0..count => WordsSoFar(s, n, f[n])}
  <2>1. 0 \in S
    BY <1>1, <1>4
  <2>2. ASSUME NEW n \in Nat, n \in S PROVE n + 1 \in S
    <3> SUFFICES ASSUME n + 1 \in 0..count PROVE WordsSoFar(s, n + 1, f[n+1])
      OBVIOUS
    <3>1. n \in 0..count /\ f[n] \in Texts /\ f[n+1] = step[n][f[n]]
      BY <1>5
    <3>2. WordsSoFar(s, n, f[n])
      BY <2>2, <3>1
    <3>3. f[n+1] = Round(s, n + 1, f[n])
      BY <1>3, <3>1, <3>2
    <3> QED
      BY <3>2, <3>3, RoundKeeps
  <2> HIDE DEF S
  <2>3. \A n \in Nat : n \in S
    BY <2>1, <2>2, SetInduction
  <2> QED
    BY <2>3 DEF S
<1>7. f = [n \in 0..count |-> IF n = 0 THEN <<>> ELSE Round(s, n, f[n-1])]
  <2> SUFFICES ASSUME NEW n \in 0..count
               PROVE  f[n] = IF n = 0 THEN <<>> ELSE Round(s, n, f[n-1])
    BY <1>4, Zenon
  <2>1. CASE n = 0
    BY <1>4, <2>1
  <2>2. CASE n # 0
    <3>1. n \in 1..count /\ n - 1 \in 0..count /\ n - 1 \in Nat /\ n - 1 + 1 = n
      BY <2>2
    <3>2. WordsSoFar(s, n - 1, f[n-1]) /\ f[n-1] \in Texts
      BY <1>4, <1>6, <3>1
    <3>3. f[n] = Round(s, n - 1 + 1, f[n-1])
      BY <1>3, <1>4, <3>1, <3>2
    <3> QED
      BY <2>2, <3>1, <3>3
  <2> QED
    BY <2>1, <2>2
<1>8. next = [n \in 0..count |-> IF n = 0 THEN <<>> ELSE Round(s, n, next[n-1])]
  BY <1>7, Zenon DEF next
<1>9. PieceStarts(s, count) = next[count]
  BY DEF PieceStarts, Round, NextAt, EndedAt, next
<1>10. \A n \in 0..count : next[n] = f[n]
  <2> DEFINE S == {n \in Nat : n \in 0..count => next[n] = f[n]}
  <2>1. 0 \in S
    BY <1>7, <1>8
  <2>2. ASSUME NEW n \in Nat, n \in S PROVE n + 1 \in S
    <3> SUFFICES ASSUME n + 1 \in 0..count PROVE next[n+1] = f[n+1]
      OBVIOUS
    <3>1. n \in 0..count /\ n + 1 \in 1..count /\ n + 1 # 0 /\ n + 1 - 1 = n
      OBVIOUS
    <3>2. next[n] = f[n]
      BY <2>2, <3>1
    <3>3. next[n+1] = Round(s, n + 1, next[n])
      BY <1>8, <3>1
    <3>4. f[n+1] = Round(s, n + 1, f[n])
      <4>1. /\ f[n] \in Texts /\ WordsSoFar(s, n, f[n])
            /\ f[n+1] = step[n][f[n]]
        BY <1>6, <1>5, <3>1
      <4> QED
        BY <1>3, <4>1
    <3> QED
      BY <3>2, <3>3, <3>4
  <2> HIDE DEF S
  <2>3. \A n \in Nat : n \in S
    BY <2>1, <2>2, SetInduction
  <2> QED
    BY <2>3 DEF S
<1>11. count \in 0..count
  OBVIOUS
<1> QED
  BY <1>6, <1>9, <1>10, <1>11

-----------------------------------------------------------------------------
(***************************************************************************)
(* The members of a set of numbers have one ascending order.                *)
(***************************************************************************)
Ascending(f) == \A i, j \in DOMAIN f : i < j => f[i] < f[j]

LEMMA OneOrder ==
  ASSUME NEW S \in SUBSET Nat, NEW n \in Nat,
         NEW f \in [1..n -> S], Ascending(f), \A x \in S : \E i \in 1..n : f[i] = x,
         NEW g \in [1..n -> S], Ascending(g), \A x \in S : \E i \in 1..n : g[i] = x
  PROVE  f = g
<1> SUFFICES ASSUME f # g PROVE FALSE
  OBVIOUS
<1> DEFINE T == {i \in 1..n : f[i] # g[i]}
<1>1. T # {} /\ T \in SUBSET Nat
  OBVIOUS
<1>2. PICK i \in T : \A j \in T : i <= j
  BY <1>1, Least
<1>3. \A j \in 1..n : j < i => f[j] = g[j]
  BY <1>2
<1>4. i \in 1..n /\ f[i] # g[i] /\ f[i] \in Nat /\ g[i] \in Nat
  BY <1>2
<1> HIDE DEF T
<1>5. ASSUME f[i] < g[i] PROVE FALSE
  <2>1. PICK j \in 1..n : g[j] = f[i]
    BY <1>4
  <2>2. CASE j < i
    BY <1>3, <1>4, <2>1, <2>2 DEF Ascending
  <2>3. CASE j = i
    BY <1>4, <2>1, <2>3
  <2>4. CASE j > i
    BY <1>4, <1>5, <2>1, <2>4 DEF Ascending
  <2> QED
    BY <1>4, <2>2, <2>3, <2>4
<1>6. ASSUME g[i] < f[i] PROVE FALSE
  <2>1. PICK j \in 1..n : f[j] = g[i]
    BY <1>4
  <2>2. CASE j < i
    BY <1>3, <1>4, <2>1, <2>2 DEF Ascending
  <2>3. CASE j = i
    BY <1>4, <2>1, <2>3
  <2>4. CASE j > i
    BY <1>4, <1>6, <2>1, <2>4 DEF Ascending
  <2> QED
    BY <1>4, <2>2, <2>3, <2>4
<1> QED
  BY <1>4, <1>5, <1>6

(***************************************************************************)
(* An ascending list of all members of a set is its InOrder, and no list of *)
(* different members is longer.                                             *)
(***************************************************************************)
LEMMA InOrderIs ==
  ASSUME NEW S \in SUBSET Nat, NEW n \in Nat, NEW f \in [1..n -> S], Ascending(f),
         \A x \in S : \E i \in 1..n : f[i] = x
  PROVE  IsFiniteSet(S) /\ Cardinality(S) = n /\ InOrder(S) = f
<1>1. /\ IsFiniteSet(1..n) /\ Cardinality(1..n) = n
  <2>1. 1 \in Int /\ n \in Int /\ (IF 1 > n THEN 0 ELSE n - 1 + 1) = n
    OBVIOUS
  <2> QED
    BY <2>1, FS_Interval
<1>2. ExistsBijection(1..n, S)
  <2>1. \A i, j \in 1..n : f[i] = f[j] => i = j
    <3> SUFFICES ASSUME NEW i \in 1..n, NEW j \in 1..n, i < j PROVE f[i] # f[j]
      OBVIOUS
    <3>1. f[i] < f[j] /\ f[i] \in Nat /\ f[j] \in Nat
      BY DEF Ascending
    <3> QED
      BY <3>1
  <2>2. f \in Bijection(1..n, S)
    BY <2>1 DEF Bijection, Injection, Surjection, IsInjective
  <2> QED
    BY <2>2 DEF ExistsBijection
<1>3. IsFiniteSet(S) /\ Cardinality(S) = n
  BY <1>1, <1>2, FS_Bijection
<1>4. ASSUME NEW g \in [1..n -> S], Ascending(g) PROVE g = f
  <2>1. \A i, j \in 1..n : g[i] = g[j] => i = j
    <3> SUFFICES ASSUME NEW i \in 1..n, NEW j \in 1..n, i < j PROVE g[i] # g[j]
      OBVIOUS
    <3>1. g[i] < g[j] /\ g[i] \in Nat /\ g[j] \in Nat
      BY <1>4 DEF Ascending
    <3> QED
      BY <3>1
  <2>2. g \in Injection(1..n, S)
    BY <2>1 DEF Injection, IsInjective
  <2>3. g \in Surjection(1..n, S)
    BY <1>1, <1>3, <2>2, FS_Injection
  <2>4. \A x \in S : \E i \in 1..n : g[i] = x
    BY <2>3 DEF Surjection
  <2> QED
    BY <1>4, <2>4, OneOrder
<1>5. InOrder(S) = CHOOSE g \in [1..n -> S] : Ascending(g)
  BY <1>3 DEF InOrder, Ascending
<1>6. InOrder(S) \in [1..n -> S] /\ Ascending(InOrder(S))
  BY <1>5
<1> QED
  BY <1>3, <1>4, <1>6

(***************************************************************************)
(* The words of a line are where split finds its pieces, when it has room   *)
(* for one more; without room there is a word for each piece at least.      *)
(***************************************************************************)
LEMMA WordOrder ==
  ASSUME NEW X, NEW s \in Seq(X), NEW count \in Nat, Len(PieceStarts(s, count)) < count
  PROVE  /\ InOrder(WordStarts(s)) = PieceStarts(s, count)
         /\ Cardinality(WordStarts(s)) = Len(PieceStarts(s, count))
         /\ IsFiniteSet(WordStarts(s))
<1> DEFINE got == PieceStarts(s, count)
           n   == Len(got)
<1>1. WordsSoFar(s, count, got)
  BY PieceStartsAre
<1> HIDE DEF got
<1>2. n \in Nat /\ n < count /\ got \in Seq(Positions(s)) /\ DOMAIN got = 1..n
  BY <1>1 DEF WordsSoFar, got
<1>3. got \in [1..n -> WordStarts(s)] /\ Ascending(got)
  BY <1>1, <1>2 DEF WordsSoFar, Ascending
<1>4. \A w \in WordStarts(s) : \E k \in 1..n : got[k] = w
  BY <1>1, <1>2 DEF WordsSoFar
<1>5. WordStarts(s) \in SUBSET Nat
  BY DEF WordStarts
<1> HIDE DEF n
<1> QED
  BY <1>2, <1>3, <1>4, <1>5, InOrderIs DEF got, n

LEMMA AllWords ==
  ASSUME NEW X, NEW s \in Seq(X)
  PROVE  /\ IsFiniteSet(WordStarts(s)) /\ Cardinality(WordStarts(s)) \in Nat
         /\ InOrder(WordStarts(s)) \in [1..Cardinality(WordStarts(s)) -> WordStarts(s)]
<1> DEFINE count == Len(s) + 1
           got   == PieceStarts(s, count)
<1>1. count \in Nat /\ Len(s) \in Nat
  OBVIOUS
<1>2. WordsSoFar(s, count, got)
  BY <1>1, PieceStartsAre
<1> HIDE DEF got
<1>3. /\ got \in Seq(Positions(s)) /\ Len(got) \in Nat /\ DOMAIN got = 1..Len(got)
      /\ \A i, j \in 1..Len(got) : i < j => got[i] < got[j]
      /\ got \in [1..Len(got) -> 1..Len(s)]
  BY <1>2 DEF WordsSoFar, Positions
<1>4. Len(got) <= Len(s)
  <2> DEFINE g == Len(got)
             l == Len(s)
  <2>1. \A i, j \in 1..g : got[i] = got[j] => i = j
    <3> SUFFICES ASSUME NEW i \in 1..g, NEW j \in 1..g, i < j PROVE got[i] # got[j]
      BY <1>3
    <3>1. got[i] < got[j] /\ got[i] \in Nat /\ got[j] \in Nat
      BY <1>3
    <3> QED
      BY <3>1
  <2>2. got \in Injection(1..g, 1..l)
    BY <1>3, <2>1 DEF Injection, IsInjective
  <2>3. g \in Nat /\ l \in Nat
    BY <1>1, <1>3
  <2> HIDE DEF g, l
  <2>4. ASSUME NEW k \in Nat PROVE IsFiniteSet(1..k) /\ Cardinality(1..k) = k
    <3>1. 1 \in Int /\ k \in Int /\ (IF 1 > k THEN 0 ELSE k - 1 + 1) = k
      OBVIOUS
    <3> QED
      BY <3>1, FS_Interval
  <2>5. Cardinality(1..g) <= Cardinality(1..l)
    BY <2>2, <2>3, <2>4, FS_Injection
  <2>6. g <= l
    BY <2>3, <2>4, <2>5
  <2> QED
    BY <2>6 DEF g, l
<1>5. Len(got) < count
  BY <1>1, <1>3, <1>4
<1>6. got \in [1..Len(got) -> WordStarts(s)]
  BY <1>2, <1>3 DEF WordsSoFar
<1> HIDE DEF count
<1> QED
  BY <1>1, <1>3, <1>5, <1>6, WordOrder DEF got

LEMMA AsManyWords ==
  ASSUME NEW X, NEW s \in Seq(X), NEW count \in Nat, Len(PieceStarts(s, count)) = count
  PROVE  Cardinality(WordStarts(s)) >= count
<1> DEFINE got == PieceStarts(s, count)
<1>1. WordsSoFar(s, count, got) /\ Len(got) = count
  BY PieceStartsAre
<1> HIDE DEF got
<1>2. got \in Injection(1..count, WordStarts(s))
  <2>1. /\ got \in Seq(Positions(s)) /\ DOMAIN got = 1..count
        /\ \A i, j \in 1..count : i < j => got[i] < got[j]
        /\ \A i \in 1..count : got[i] \in WordStarts(s)
    BY <1>1 DEF WordsSoFar
  <2>2. \A i, j \in 1..count : got[i] = got[j] => i = j
    <3> SUFFICES ASSUME NEW i \in 1..count, NEW j \in 1..count, i < j PROVE got[i] # got[j]
      OBVIOUS
    <3>1. got[i] < got[j] /\ got[i] \in Nat /\ got[j] \in Nat
      BY <2>1 DEF WordStarts
    <3> QED
      BY <3>1
  <2>3. got \in [1..count -> WordStarts(s)]
    BY <2>1
  <2> QED
    BY <2>1, <2>2, <2>3 DEF Injection, IsInjective
<1>3. Cardinality(1..count) = count
  <2>1. 1 \in Int /\ count \in Int /\ (IF 1 > count THEN 0 ELSE count - 1 + 1) = count
    OBVIOUS
  <2> QED
    BY <2>1, FS_Interval
<1>4. IsFiniteSet(WordStarts(s)) /\ Cardinality(WordStarts(s)) \in Nat
  BY AllWords
<1>5. Cardinality(1..count) <= Cardinality(WordStarts(s))
  BY <1>2, <1>4, FS_Injection
<1> QED
  BY <1>3, <1>4, <1>5

-----------------------------------------------------------------------------
(***************************************************************************)
(* With NUL for each delimiter, the C string that begins at a word is the   *)
(* word.                                                                    *)
(***************************************************************************)
IsEnd(s, w, j) == /\ \A k \in w..j : s[k] \notin Delimiters
                  /\ j < Len(s) => s[j + 1] \in Delimiters

LEMMA WordEnd ==
  ASSUME NEW X, NEW s \in Seq(X), NEW w \in WordStarts(s), NEW e \in w..Len(s), IsEnd(s, w, e)
  PROVE  EndOf(s, w) = e
<1>1. w \in Nat /\ Len(s) \in Nat
  BY DEF WordStarts
<1>2. ASSUME NEW d \in w..Len(s), IsEnd(s, w, d) PROVE d = e
  <2>1. ~(d < e)
    <3> SUFFICES ASSUME d < e PROVE FALSE
      OBVIOUS
    <3>1. d + 1 \in w..e /\ d < Len(s)
      BY <1>1
    <3> QED
      BY <1>2, <3>1 DEF IsEnd
  <2>2. ~(e < d)
    <3> SUFFICES ASSUME e < d PROVE FALSE
      OBVIOUS
    <3>1. e + 1 \in w..d /\ e < Len(s)
      BY <1>1
    <3> QED
      BY <1>2, <3>1 DEF IsEnd
  <2> QED
    BY <1>1, <2>1, <2>2
<1>3. EndOf(s, w) = CHOOSE j \in w..Len(s) : IsEnd(s, w, j)
  BY DEF EndOf, IsEnd
<1>4. EndOf(s, w) \in w..Len(s) /\ IsEnd(s, w, EndOf(s, w))
  BY <1>3
<1> QED
  BY <1>2, <1>4

LEMMA WordHasEnd ==
  ASSUME NEW X, NEW s \in Seq(X), NEW w \in WordStarts(s)
  PROVE  EndOf(s, w) \in w..Len(s)
<1> DEFINE f == From(s, w, Delimiters)
           e == f - 1
<1>1. Len(s) \in Nat /\ w \in 1..Len(s) /\ w \in 1..Len(s)+1 /\ s[w] \notin Delimiters
  BY DEF WordStarts
<1>2. /\ f \in w..Len(s)+1
      /\ f <= Len(s) => s[f] \in Delimiters
      /\ \A k \in w..f-1 : s[k] \notin Delimiters
  BY <1>1, FromIs
<1> HIDE DEF f
<1>3. f # w
  BY <1>1, <1>2
<1>4. e \in w..Len(s) /\ e + 1 = f /\ (e < Len(s) => f <= Len(s))
  BY <1>1, <1>2, <1>3
<1>5. IsEnd(s, w, e)
  BY <1>2, <1>4 DEF IsEnd
<1> HIDE DEF e
<1> QED
  BY <1>4, <1>5, WordEnd

LEMMA WordAt ==
  ASSUME NEW X, NEW s \in Seq(X), "NUL" \notin X, NEW w \in WordStarts(s),
         NEW cut \in Seq(X \cup {"NUL"}), Len(cut) = Len(s),
         \A i \in 1..Len(s) : cut[i] = IF s[i] \in Delimiters THEN "NUL" ELSE s[i]
  PROVE  StringAt(cut, w) = SubSeq(s, w, EndOf(s, w))
<1> DEFINE f == From(cut, w, {"NUL"})
           e == f - 1
           Y == X \cup {"NUL"}
<1>1. Len(s) \in Nat /\ w \in 1..Len(s) /\ s[w] \notin Delimiters
  BY DEF WordStarts
<1>2. w \in 1..Len(cut)+1
  BY <1>1
<1>3. /\ f \in w..Len(s)+1
      /\ f <= Len(s) => cut[f] = "NUL"
      /\ \A k \in w..f-1 : cut[k] # "NUL"
  <2> HIDE DEF f
  <2>1. /\ f \in w..Len(cut)+1
        /\ f <= Len(cut) => cut[f] \in {"NUL"}
        /\ \A k \in w..f-1 : cut[k] \notin {"NUL"}
    BY <1>2, FromIs DEF f
  <2> QED
    BY <2>1
<1>4. StringAt(cut, w) = SubSeq(cut, w, e)
  BY DEF StringAt
<1> HIDE DEF f
<1>5. \A i \in 1..Len(s) : cut[i] = "NUL" <=> s[i] \in Delimiters
  BY ElementOfSeq
<1>6. /\ e \in w..Len(s)
      /\ \A k \in w..e : s[k] \notin Delimiters
      /\ e < Len(s) => s[e+1] \in Delimiters
  <2>1. f # w
    BY <1>1, <1>3, <1>5
  <2>2. e \in w..Len(s) /\ e + 1 = f
    BY <1>1, <1>3, <2>1
  <2>3. \A k \in w..e : k \in 1..Len(s) /\ k \in w..f-1
    BY <1>1, <2>2
  <2>4. e < Len(s) => f \in 1..Len(s) /\ f <= Len(s)
    BY <1>1, <2>2
  <2> HIDE DEF e
  <2> QED
    BY <1>3, <1>5, <2>2, <2>3, <2>4
<1> HIDE DEF e
<1>7. EndOf(s, w) = e
  BY <1>6, WordEnd DEF IsEnd
<1>8. SubSeq(cut, w, e) = SubSeq(s, w, e)
  <2>1. s \in Seq(Y) /\ cut \in Seq(Y)
    BY SeqMonotonic
  <2>2. w \in 1..Len(s) /\ e \in w-1..Len(s) /\ w \in 1..Len(s)+1
    BY <1>1, <1>6
  <2>3. \A i \in w..e : cut[i] = s[i]
    BY <1>1, <1>6
  <2> QED
    BY <1>1, <1>6, <2>1, <2>2, <2>3 DEF SubSeq
<1> QED
  BY <1>4, <1>7, <1>8

LEMMA WordsType ==
  ASSUME NEW X, NEW s \in Seq(X)
  PROVE  /\ Words(s) \in Seq(Seq(X)) /\ Len(Words(s)) = Cardinality(WordStarts(s))
         /\ \A n \in 1..Len(Words(s)) :
               Words(s)[n] = SubSeq(s, InOrder(WordStarts(s))[n], EndOf(s, InOrder(WordStarts(s))[n]))
<1> DEFINE starts == InOrder(WordStarts(s))
           c      == Cardinality(WordStarts(s))
<1>1. c \in Nat /\ starts \in [1..c -> WordStarts(s)]
  BY AllWords
<1>2. ASSUME NEW n \in 1..c PROVE SubSeq(s, starts[n], EndOf(s, starts[n])) \in Seq(X)
  <2> DEFINE w == starts[n]
             e == EndOf(s, w)
  <2>1. w \in WordStarts(s)
    BY <1>1
  <2> HIDE DEF w, starts
  <2>2. e \in w..Len(s)
    BY <2>1, WordHasEnd
  <2>3. w \in 1..Len(s) /\ Len(s) \in Nat
    BY <2>1 DEF WordStarts
  <2> HIDE DEF e
  <2>4. w \in Int /\ e \in Int /\ \A i \in w..e : s[i] \in X
    BY <2>2, <2>3, ElementOfSeq
  <2>5. SubSeq(s, w, e) \in Seq(X)
    BY <2>4, SubSeqProperties
  <2> QED
    BY <2>5 DEF w, e
<1>3. Words(s) = [n \in 1..c |-> SubSeq(s, starts[n], EndOf(s, starts[n]))]
  BY <1>1 DEF Words
<1> HIDE DEF c, starts
<1>4. Words(s) \in Seq(Seq(X)) /\ Len(Words(s)) = c
  BY <1>1, <1>2, <1>3
<1> QED
  BY <1>3, <1>4 DEF c, starts

(***************************************************************************)
(* parseCmd: up to MAX_ARGS arguments are the words of the line, all of     *)
(* them; MAX_ARGS + 1 arguments mean that there are more words.             *)
(***************************************************************************)
LEMMA ArgumentsAre ==
  ASSUME NEW l \in Lines
  PROVE  /\ Len(Arguments(l)) \in 0..MaxArgs + 1
         /\ Len(Arguments(l)) <= MaxArgs => Arguments(l) = Words(l)
         /\ Len(Arguments(l)) = MaxArgs + 1 => Len(Words(l)) > MaxArgs
<1> DEFINE X      == ToSet(l)
           count  == MaxArgs + 1
           starts == PieceStarts(l, count)
           cut    == Split(l, count)
           n      == Len(starts)
<1>1. l \in Seq(X) /\ "NUL" \notin X /\ MaxArgs \in Nat /\ count \in Nat /\ Len(l) \in Nat
  BY ShellAssumption
<1> HIDE DEF X
<1>2. WordsSoFar(l, count, starts)
  BY <1>1, PieceStartsAre
<1>3. /\ starts \in Seq(Positions(l)) /\ n <= count /\ n \in Nat /\ DOMAIN starts = 1..n
      /\ \A i \in 1..n : starts[i] \in WordStarts(l)
  BY <1>2 DEF WordsSoFar
<1>4. Arguments(l) = [i \in 1..n |-> StringAt(cut, starts[i])]
  BY <1>3 DEF Arguments
<1>5. Len(Arguments(l)) = n
  BY <1>3, <1>4
<1>6. ASSUME n <= MaxArgs PROVE Arguments(l) = Words(l)
  <2>1. /\ InOrder(WordStarts(l)) = starts /\ Cardinality(WordStarts(l)) = n
    BY <1>1, <1>3, <1>6, WordOrder
  <2>2. cut = [i \in 1..Len(l) |-> IF i <= Len(l) /\ l[i] \in Delimiters THEN "NUL" ELSE l[i]]
    <3>1. n # count
      BY <1>1, <1>3, <1>6
    <3> QED
      BY <3>1 DEF Split
  <2> HIDE DEF cut, starts, n
  <2>3. \A i \in 1..Len(l) : cut[i] = IF l[i] \in Delimiters THEN "NUL" ELSE l[i]
    BY <1>1, <2>2
  <2>4. cut \in Seq(X \cup {"NUL"}) /\ Len(cut) = Len(l)
    <3>1. \A i \in 1..Len(l) : l[i] \in X
      BY <1>1
    <3> QED
      BY <1>1, <2>2, <3>1
  <2>5. \A i \in 1..n : StringAt(cut, starts[i]) = SubSeq(l, starts[i], EndOf(l, starts[i]))
    BY <1>1, <1>3, <2>3, <2>4, WordAt
  <2>6. Words(l) = [i \in 1..n |-> SubSeq(l, starts[i], EndOf(l, starts[i]))]
    BY <1>3, <2>1 DEF Words
  <2> QED
    BY <1>4, <2>5, <2>6
<1>7. ASSUME n = count PROVE Len(Words(l)) > MaxArgs
  <2>1. Cardinality(WordStarts(l)) >= count
    BY <1>1, <1>7, AsManyWords
  <2>2. Len(Words(l)) = Cardinality(WordStarts(l)) /\ Cardinality(WordStarts(l)) \in Nat
    BY <1>1, WordsType, AllWords
  <2> QED
    BY <1>1, <2>1, <2>2
<1> HIDE DEF n, cut, starts
<1> QED
  BY <1>1, <1>3, <1>5, <1>6, <1>7

-----------------------------------------------------------------------------
(***************************************************************************)
(* The inductive invariant: beside the two properties, the line that is     *)
(* parsed is one that was typed, and exactly a command that runs has a      *)
(* name.  A command that returns was called by a line that was not refused. *)
(***************************************************************************)
IInv == /\ typed \in Lines \cup {<<>>}
        /\ pc = "parse" \/ called # <<>> => typed \in Lines
        /\ pc \in {"prompt", "parse"} => called = <<>>
        /\ pc \in {"run", "loop"} => called # <<>>
        /\ CalledAsTyped
        /\ RefusedWithReason

\* What a step does to the command line.
Running(p) == pc \in {"run", "loop"} /\ pc' = p /\ UNCHANGED <<typed, lastRet, called, argv>>

LEMMA StepCases ==
  ASSUME MNext
  PROVE  \/ \E l \in Lines : ReadLine(l)
         \/ Refuse \/ ReadNull \/ Call \/ Report
         \/ \E result \in Results : Return(result)
         \/ Running("loop") \/ Running("fault")
         \/ UNCHANGED vars
<1>1. CASE CommandLine
  BY <1>1 DEF CommandLine
<1>2. CASE MReport
  BY <1>2 DEF MReport
<1>3. CASE NoArgument \/ OtherCommand
  BY <1>3 DEF NoArgument, OtherCommand, Results
<1>4. CASE StartShow \/ StartDump
  BY <1>4 DEF StartShow, StartDump, Enter, Running
<1>5. CASE ShowPage
  BY <1>5 DEF ShowPage, Continue
<1>6. CASE DumpVRow
  BY <1>6 DEF DumpVRow, Continue, InLoop, Running, Results
<1>7. CASE DumpPRow
  BY <1>7 DEF DumpPRow, Continue, InLoop, Running, Results
<1>8. CASE LoopEnds
  BY <1>8 DEF LoopEnds, Results
<1> QED
  BY <1>1, <1>2, <1>3, <1>4, <1>5, <1>6, <1>7, <1>8 DEF MNext, Loop

LEMMA IInvInit == MInit => IInv
BY DEF MInit, Init, IInv, CalledAsTyped, RefusedWithReason

\* cmpCase finds two names equal when they are equal in small letters.
LEMMA SameNameIs ==
  ASSUME NEW X, NEW l \in Seq(X), NEW Y, NEW r \in Seq(Y), SameName(l, r)
  PROVE  [i \in DOMAIN l |-> Lower(l[i])] = [i \in DOMAIN r |-> Lower(r[i])]
<1>1. Len(l) = Len(r) /\ DOMAIN l = 1..Len(l) /\ DOMAIN r = 1..Len(l) /\ Len(l) \in Nat
  BY DEF SameName
<1>2. Min2(Len(l), Len(r)) = Len(l)
  BY <1>1 DEF Min2
<1>3. \A i \in 1..Len(l) : Lower(l[i]) = Lower(r[i])
  BY <1>1, <1>2 DEF SameName
<1> QED
  BY <1>1, <1>3

LEMMA CallKeeps == IInv /\ Call => IInv'
<1> SUFFICES ASSUME IInv, Call PROVE IInv'
  OBVIOUS
<1> DEFINE args  == Arguments(typed)
           match == {n \in DOMAIN Names : SameName(args[1], Names[n])}
<1>1. /\ pc = "parse" /\ typed \in Lines /\ called = <<>> /\ typed' = typed
      /\ Len(args) \in 1..MaxArgs /\ MaxArgs \in Nat
      /\ Lookup(args)
  BY ShellAssumption DEF Call, IInv, Lookup
<1>2. args = Words(typed) /\ typed \in Seq(ToSet(typed)) /\ args \in Seq(Seq(ToSet(typed)))
  <2>1. typed \in Seq(ToSet(typed))
    BY <1>1, ShellAssumption
  <2>2. Len(args) <= MaxArgs
    BY <1>1
  <2> HIDE DEF args
  <2>3. args = Words(typed)
    BY <1>1, <2>2, ArgumentsAre DEF args
  <2> QED
    BY <2>1, <2>3, WordsType
<1>3. CASE match = {}
  <2>1. pc' = "report" /\ lastRet' = "badCommand" /\ called' = called /\ argv' = argv
    BY <1>1, <1>3 DEF Lookup
  <2>2. \A n \in ToSet(Names) : ~SameName(Words(typed)[1], n)
    BY <1>2, <1>3 DEF ToSet
  <2>3. ~(Len(Words(typed)) > MaxArgs)
    BY <1>1, <1>2
  <2> HIDE DEF match, args
  <2> QED
    BY <1>1, <2>1, <2>2, <2>3 DEF IInv, CalledAsTyped, RefusedWithReason
<1>4. CASE match # {}
  <2> DEFINE name == Names[CHOOSE n \in match : \A m \in match : n <= m]
  <2>1. pc' = "run" /\ called' = name /\ argv' = args /\ lastRet' = lastRet
    BY <1>1, <1>4 DEF Lookup
  <2>2. PICK n \in match : name = Names[n]
    <3>1. match \in SUBSET Nat
      BY ShellAssumption
    <3> HIDE DEF match
    <3>2. \E n \in match : \A m \in match : n <= m
      BY <1>4, <3>1, Least
    <3> QED
      BY <3>2
  <2> HIDE DEF name
  <2>3. name \in ToSet(Names) /\ SameName(args[1], name)
    BY <2>2 DEF ToSet
  <2>4. name # <<>> /\ name \in Seq(ToSet(name))
    BY <2>3, ShellAssumption
  <2>5. args[1] \in Seq(ToSet(typed))
    BY <1>1, <1>2
  <2>6. [i \in DOMAIN args[1] |-> Lower(args[1][i])] = [i \in DOMAIN name |-> Lower(name[i])]
    BY <2>3, <2>4, <2>5, SameNameIs
  <2> HIDE DEF match, args
  <2>7. CalledAsTyped'
    BY <1>1, <1>2, <2>1, <2>6 DEF CalledAsTyped
  <2> QED
    BY <1>1, <2>1, <2>4, <2>7 DEF IInv, RefusedWithReason
<1> QED
  BY <1>3, <1>4

LEMMA IInvStep == IInv /\ [MNext]_mvars => IInv'
<1> SUFFICES ASSUME IInv, [MNext]_mvars PROVE IInv'
  OBVIOUS
<1> USE DEF IInv
<1>1. ASSUME NEW l \in Lines, ReadLine(l) PROVE IInv'
  BY <1>1 DEF ReadLine, CalledAsTyped, RefusedWithReason
<1>2. CASE Refuse
  <2>1. typed \in Lines /\ called = <<>> /\ Len(Words(typed)) > MaxArgs
    BY <1>2, ArgumentsAre DEF Refuse
  <2> QED
    BY <1>2, <2>1 DEF Refuse, CalledAsTyped, RefusedWithReason
<1>3. CASE ReadNull
  <2>1. typed \in Lines /\ called = <<>> /\ Arguments(typed) = <<>> /\ MaxArgs \in Nat
    BY <1>3, ShellAssumption DEF ReadNull
  <2>2. Len(Arguments(typed)) <= MaxArgs
    BY <2>1
  <2>3. Words(typed) = <<>>
    BY <2>1, <2>2, ArgumentsAre
  <2> QED
    BY <1>3, <2>1, <2>3 DEF ReadNull, CalledAsTyped, RefusedWithReason
<1>4. CASE Call
  BY <1>4, CallKeeps
<1>5. CASE Report
  BY <1>5 DEF Report, CalledAsTyped, RefusedWithReason
<1>6. ASSUME NEW result \in Results, Return(result) PROVE IInv'
  <2>1. result \notin {"tooManyArgs", "badCommand"}
    BY DEF Results
  <2>2. /\ called # <<>> /\ pc' = "report" /\ lastRet' = result
        /\ UNCHANGED <<typed, called, argv>>
    BY <1>6 DEF Return
  <2>3. ~(Len(Words(typed)) > MaxArgs)
    <3>1. argv = Words(typed) /\ Len(argv) <= MaxArgs
      BY <2>2 DEF CalledAsTyped
    <3>2. typed \in Seq(ToSet(typed)) /\ MaxArgs \in Nat
      BY ShellAssumption, EmptySeq DEF ToSet
    <3>3. Len(Words(typed)) \in Nat
      BY <3>2, WordsType, AllWords
    <3> QED
      BY <3>1, <3>2, <3>3
  <2> QED
    BY <2>1, <2>2, <2>3 DEF CalledAsTyped, RefusedWithReason
<1>7. CASE Running("loop") \/ Running("fault")
  BY <1>7 DEF Running, CalledAsTyped, RefusedWithReason
<1>8. CASE UNCHANGED vars
  BY <1>8 DEF vars, CalledAsTyped, RefusedWithReason
<1>9. CASE UNCHANGED mvars
  BY <1>8, <1>9 DEF mvars
<1> QED
  BY <1>1, <1>2, <1>3, <1>4, <1>5, <1>6, <1>7, <1>8, <1>9, StepCases

\* The inductive invariant holds of every behaviour of the monitor.
THEOREM Inductive == MSpec => []IInv
BY IInvInit, IInvStep, PTL DEF MSpec

(***************************************************************************)
(* split and the lookup give every command the words of the line, all of    *)
(* them, and run it only under its own name, for lines of any length, any   *)
(* delimiters, any table of commands and any MAX_ARGS.                      *)
(***************************************************************************)
THEOREM CommandsCalledAsTyped == MSpec => []CalledAsTyped
BY Inductive, PTL DEF IInv

(***************************************************************************)
(* Too many arguments are reported exactly for lines of more than MAX_ARGS  *)
(* words with the name, an unknown command only when the first word names   *)
(* none; and the null argv[0] is read for no line but one of blanks.        *)
(***************************************************************************)
THEOREM LinesRefusedWithReason == MSpec => []RefusedWithReason
BY Inductive, PTL DEF IInv

-----------------------------------------------------------------------------
(***************************************************************************)
(* The loops of the memory commands.  First the multiples of a number that  *)
(* the provers do not know.                                                 *)
(***************************************************************************)
LEMMA MultipleOf ==
  ASSUME NEW n \in Nat, n > 0, NEW q \in Int
  PROVE  (q * n) % n = 0
<1> DEFINE a == q * n
<1>1. a \in Int /\ q * n <= a /\ a < q * n + n
  OBVIOUS
<1> HIDE DEF a
<1>2. a \div n = q
  BY <1>1, QuotientIs
<1>3. a = q * n + (a % n) /\ a % n \in Int
  BY <1>1, <1>2, Quotient
<1>4. q * n \in Int
  OBVIOUS
<1>5. a = q * n
  BY DEF a
<1>6. a % n = 0
  BY <1>3, <1>4, <1>5
<1> QED
  BY <1>6 DEF a

LEMMA MultipleIs ==
  ASSUME NEW n \in Nat, n > 0, NEW a \in Int, a % n = 0
  PROVE  a \div n \in Int /\ a = (a \div n) * n
<1>1. a \div n \in Int /\ a = (a \div n) * n + 0
  BY Quotient
<1>2. (a \div n) * n \in Int
  BY <1>1
<1> QED
  BY <1>1, <1>2

LEMMA NextMultiple ==
  ASSUME NEW n \in Nat, n > 0, NEW a \in Int, a % n = 0, NEW b \in Int, b % n = 0
  PROVE  /\ a < b => a + n <= b
         /\ (a + n) % n = 0
<1> DEFINE p == a \div n
           q == b \div n
<1>1. p \in Int /\ a = p * n /\ q \in Int /\ b = q * n
  BY MultipleIs
<1> HIDE DEF p, q
<1>2. ASSUME a < b PROVE a + n <= b
  <2>1. q < p => b + n <= a
    BY <1>1, Apart
  <2>2. p < q
    BY <1>1, <1>2, <2>1
  <2> QED
    BY <1>1, <2>2, Apart
<1>3. a + n = (p + 1) * n
  BY <1>1
<1>4. ((p + 1) * n) % n = 0
  BY <1>1, MultipleOf
<1> QED
  BY <1>2, <1>3, <1>4

LEMMA StepsAhead ==
  ASSUME NEW n \in Nat, n > 0, NEW a \in Int, a % n = 0, NEW k \in Int
  PROVE  a + k * n \in Int /\ (a + k * n) % n = 0
<1> DEFINE p == a \div n
<1>1. p \in Int /\ a = p * n
  BY MultipleIs
<1> HIDE DEF p
<1>2. a + k * n = (p + k) * n
  BY <1>1
<1>3. ((p + k) * n) % n = 0 /\ k * n \in Int
  BY <1>1, MultipleOf
<1> QED
  BY <1>2, <1>3

LEMMA RoundDownIs ==
  ASSUME NEW n \in Nat, n > 0, NEW a \in Nat
  PROVE  /\ RoundDown(a, n) \in Nat /\ RoundDown(a, n) % n = 0
         /\ RoundDown(a, n) <= a /\ a < RoundDown(a, n) + n
<1> DEFINE d == a \div n
           r == a % n
<1>1. d \in Int /\ r \in 0..n-1 /\ a = d * n + r /\ RoundDown(a, n) = a - r
  BY Quotient DEF RoundDown
<1> HIDE DEF d, r
<1>2. d * n \in Int /\ a - r = d * n
  BY <1>1
<1>3. d >= 0
  <2> SUFFICES ASSUME d < 0 PROVE FALSE
    BY <1>1
  <2>1. d * n + n <= 0 * n
    BY <1>1, Apart
  <2> QED
    BY <1>1, <1>2, <2>1
<1>4. d * n \in Nat
  BY <1>1, <1>3
<1>5. (d * n) % n = 0
  BY <1>1, MultipleOf
<1> QED
  BY <1>1, <1>2, <1>4, <1>5

\* What wraps at n.
LEMMA Wrapped ==
  ASSUME NEW n \in Nat, n > 0, NEW a \in Nat
  PROVE  /\ a < n => a % n = a
         /\ n % n = 0
<1>1. ASSUME a < n PROVE a % n = a
  <2>1. 0 * n = 0
    OBVIOUS
  <2>2. a \div n = 0
    BY <1>1, <2>1, QuotientIs
  <2>3. a % n \in Int /\ a = 0 + (a % n)
    BY <2>1, <2>2, Quotient
  <2> QED
    BY <2>3
<1>2. (1 * n) % n = 0 /\ 1 * n = n
  BY MultipleOf
<1> QED
  BY <1>1, <1>2

-----------------------------------------------------------------------------
(***************************************************************************)
(* What the numbers of the model are, and the arguments of a command.       *)
(***************************************************************************)
LEMMA Sizes == /\ Word \in Nat /\ Word > 0 /\ PgSize \in Nat /\ PgSize > 0
               /\ RowSize \in Nat /\ RowSize > 0 /\ KernBase \in Nat /\ KernBase > 0
               /\ TotalMem \in Nat /\ TotalMem <= Word - KernBase /\ NPages \in Int
<1>1. \A n \in {Word, PgSize, RowSize, KernBase, KBytes} : n \in Nat /\ n > 0
  BY MonitorAssumption
<1>2. /\ Word \in Nat /\ Word > 0 /\ PgSize \in Nat /\ PgSize > 0
      /\ RowSize \in Nat /\ RowSize > 0 /\ KernBase \in Nat /\ KernBase > 0 /\ KBytes \in Nat
  BY <1>1
<1>3. TotalMem \in Nat
  BY <1>2, MonitorAssumption DEF TotalMem
<1>4. TotalMem <= Word - KernBase
  BY MonitorAssumption
<1>5. NPages \in Int
  BY <1>2, <1>3, Quotient DEF NPages
<1> QED
  BY <1>2, <1>3, <1>4, <1>5

LEMMA NamesDiffer == /\ ShowName # DumpVName /\ ShowName # DumpPName /\ DumpVName # DumpPName
                     /\ ShowName # <<>> /\ DumpVName # <<>> /\ DumpPName # <<>>
<1>1. ShowName[3] = "s" /\ DumpVName[3] = "d" /\ DumpPName[3] = "d"
  BY DEF ShowName, DumpVName, DumpPName
<1>2. DumpVName[7] = "v" /\ DumpPName[7] = "p"
  BY DEF DumpVName, DumpPName
<1>3. Len(ShowName) = 6 /\ Len(DumpVName) = 7 /\ Len(DumpPName) = 7
  BY DEF ShowName, DumpVName, DumpPName
<1> QED
  BY <1>1, <1>2, <1>3

LEMMA ArgumentsRead ==
  ASSUME IInv, NumbersRead, called # <<>>, Len(argv) >= 2
  PROVE  /\ Begin \in 0..Word-1 /\ End \in 0..Word-1
         /\ Begin = AskedBegin /\ End = AskedEnd
<1>1. typed \in Lines /\ argv = Words(typed)
  BY DEF IInv, CalledAsTyped
<1>2. Len(argv) \in Nat
  <2>1. typed \in Seq(ToSet(typed))
    BY <1>1, ShellAssumption
  <2> QED
    BY <1>1, <2>1, WordsType, AllWords
<1>3. /\ ToLong(argv[2], 0) \in 0..Word-1
      /\ ToLong(argv[2], 0) = Written(argv[2]) % Word
  BY <1>1, <1>2 DEF NumbersRead
<1>4. ASSUME Len(argv) >= 3
      PROVE  /\ ToLong(argv[3], 0) \in 0..Word-1
             /\ ToLong(argv[3], 0) = Written(argv[3]) % Word
  BY <1>1, <1>2, <1>4 DEF NumbersRead
<1> QED
  BY <1>3, <1>4 DEF Begin, End, AskedBegin, AskedEnd

-----------------------------------------------------------------------------
(***************************************************************************)
(* The lines that a loop has printed after k rounds are the first k of the  *)
(* lines of the loop, f.                                                    *)
(***************************************************************************)
LEMMA RowPrinted ==
  ASSUME NEW k \in Nat, NEW f, rows = [i \in 1..k |-> f[i]], k < MaxRows, MaxRows \in Nat,
         NEW n, PrintRow(f[k+1], n)
  PROVE  rows' = [i \in 1..k+1 |-> f[i]]
<1> DEFINE S == {f[i] : i \in 1..k+1}
<1>1. rows \in [1..k -> S]
  OBVIOUS
<1>2. rows \in Seq(S) /\ Len(rows) = k /\ f[k+1] \in S
  <2>1. f[k+1] \in S
    OBVIOUS
  <2> HIDE DEF S
  <2>2. DOMAIN rows = 1..k
    BY <1>1
  <2>3. rows \in Seq(S)
    BY <1>1
  <2>4. Len(rows) = k
    BY <2>2, <2>3
  <2> QED
    BY <2>1, <2>3, <2>4
<1>3. rows' = Append(rows, f[k+1])
  BY <1>2 DEF PrintRow
<1> HIDE DEF S
<1>4. /\ rows' \in Seq(S) /\ Len(rows') = k + 1
      /\ \A i \in 1..k+1 : rows'[i] = IF i = k + 1 THEN f[k+1] ELSE rows[i]
  BY <1>2, <1>3
<1>5. rows' \in [1..k+1 -> S]
  BY <1>4
<1>6. \A i \in 1..k+1 : rows'[i] = f[i]
  BY <1>4
<1> QED
  BY <1>5, <1>6

\* No line is dropped, since the address in it does not wrap.
LEMMA RowFits ==
  ASSUME NEW n \in Nat, n > 0, MaxRows \in Nat, Word <= MaxRows * n, NEW k \in Nat,
         NEW first \in Nat, first + k * n < Word
  PROVE  k < MaxRows
<1>1. k * n \in Nat /\ MaxRows * n \in Nat /\ Word \in Nat
  BY Sizes
<1>2. k * n < MaxRows * n
  BY <1>1
<1>3. MaxRows < k => MaxRows * n + n <= k * n
  BY Apart
<1> QED
  BY <1>1, <1>2, <1>3

-----------------------------------------------------------------------------
(***************************************************************************)
(* vmshow.  In round k + 1 the loop is at the page that is k pages behind   *)
(* the first, unless the range ends in the last page: then the loop         *)
(* variable wraps, and never passes the end.                                *)
(***************************************************************************)
ShowFirst == RoundDown(Begin, PgSize)
ShowLast  == RoundDown(End, PgSize)
PageNo(i) == ShowFirst + (i - 1) * PgSize

ShowRows(k) == rows = [i \in 1..k |-> ShowRow(PageNo(i))]

ShowLoop ==
    /\ last = ShowLast /\ addr \in Multiples(PgSize)
    /\ last + PgSize < Word =>
          \E k \in Nat : addr = PageNo(k + 1) /\ (k > 0 => addr <= last + PgSize) /\ ShowRows(k)

ShowDone ==
    \E k \in Nat : /\ PageNo(k + 1) > ShowLast
                   /\ k > 0 => PageNo(k + 1) <= ShowLast + PgSize
                   /\ ShowRows(k)

LEMMA PageNumbers ==
  ASSUME Begin \in 0..Word-1, End \in 0..Word-1
  PROVE  /\ ShowFirst \in Multiples(PgSize) /\ ShowLast \in Multiples(PgSize)
         /\ ShowFirst <= Begin /\ Begin < ShowFirst + PgSize
         /\ ShowLast <= End /\ End < ShowLast + PgSize
         /\ PageNo(1) = ShowFirst
         /\ \A i \in Int : PageNo(i) \in Int /\ PageNo(i) % PgSize = 0
         /\ \A i \in Int : PageNo(i + 1) = PageNo(i) + PgSize
         /\ \A i, j \in Int : i < j => PageNo(i) + PgSize <= PageNo(j)
<1>1. /\ ShowFirst \in Multiples(PgSize) /\ ShowLast \in Multiples(PgSize)
      /\ ShowFirst <= Begin /\ Begin < ShowFirst + PgSize
      /\ ShowLast <= End /\ End < ShowLast + PgSize
      /\ ShowFirst \in Nat /\ ShowFirst % PgSize = 0
  <2>1. Begin \in Nat /\ Begin < Word /\ End \in Nat /\ End < Word
    BY Sizes
  <2>2. \A a \in Nat : /\ RoundDown(a, PgSize) \in Nat /\ RoundDown(a, PgSize) % PgSize = 0
                       /\ RoundDown(a, PgSize) <= a /\ a < RoundDown(a, PgSize) + PgSize
    BY Sizes, RoundDownIs
  <2> QED
    BY <2>1, <2>2, Sizes DEF ShowFirst, ShowLast, Multiples
<1> HIDE DEF ShowFirst
<1>2. PageNo(1) = ShowFirst
  BY <1>1, Sizes DEF PageNo
<1>3. ASSUME NEW i \in Int PROVE PageNo(i) \in Int /\ PageNo(i) % PgSize = 0
  <2>1. i - 1 \in Int /\ PgSize \in Nat /\ PgSize > 0 /\ ShowFirst \in Int
    BY <1>1, Sizes
  <2>2. ShowFirst + (i - 1) * PgSize \in Int /\ (ShowFirst + (i - 1) * PgSize) % PgSize = 0
    BY ONLY <1>1, <2>1, StepsAhead
  <2> QED
    BY <2>2 DEF PageNo
<1>4. ASSUME NEW i \in Int PROVE PageNo(i + 1) = PageNo(i) + PgSize
  BY <1>1, Sizes DEF PageNo
<1>5. ASSUME NEW i \in Int, NEW j \in Int, i < j PROVE PageNo(i) + PgSize <= PageNo(j)
  <2>1. (i - 1) * PgSize + PgSize <= (j - 1) * PgSize
    BY <1>5, Sizes, Apart
  <2>2. (i - 1) * PgSize \in Int /\ (j - 1) * PgSize \in Int
    BY Sizes
  <2> QED
    BY <1>1, <2>1, <2>2, Sizes DEF PageNo
<1> QED
  BY <1>1, <1>2, <1>3, <1>4, <1>5

\* The first k pages from the first on: those before the end of the k-th.
LEMMA PagesUpTo ==
  ASSUME Begin \in 0..Word-1, End \in 0..Word-1, NEW k \in Nat, NEW S \in SUBSET Nat,
         \A p \in Nat : p \in S <=> p % PgSize = 0 /\ ShowFirst <= p /\ p < PageNo(k + 1)
  PROVE  Cardinality(S) = k /\ \A p \in S : \E i \in 1..k : PageNo(i) = p
<1> DEFINE f == [i \in 1..k |-> PageNo(i)]
<1>1. /\ ShowFirst \in Nat /\ PageNo(1) = ShowFirst
      /\ \A i \in Int : PageNo(i) \in Int /\ PageNo(i) % PgSize = 0
      /\ \A i, j \in Int : i < j => PageNo(i) + PgSize <= PageNo(j)
      /\ PgSize \in Nat /\ PgSize > 0 /\ ShowFirst % PgSize = 0
  BY PageNumbers, Sizes DEF Multiples
<1>2. ASSUME NEW i \in 1..k PROVE PageNo(i) \in S
  <2>1. i \in Int /\ 1 \in Int /\ k + 1 \in Int /\ i < k + 1 /\ (i = 1 \/ 1 < i)
    OBVIOUS
  <2>2. PageNo(i) < PageNo(k + 1) /\ ShowFirst <= PageNo(i)
    BY <1>1, <2>1
  <2>3. PageNo(i) \in Nat
    BY <1>1, <2>1, <2>2
  <2> QED
    BY <1>1, <2>1, <2>2, <2>3
<1>3. ASSUME NEW p \in S PROVE \E i \in 1..k : PageNo(i) = p
  <2> DEFINE a == p \div PgSize
             b == ShowFirst \div PgSize
             i == a - b + 1
  <2>1. p \in Nat /\ p % PgSize = 0 /\ ShowFirst <= p /\ p < PageNo(k + 1)
    OBVIOUS
  <2>2. a \in Int /\ p = a * PgSize /\ b \in Int /\ ShowFirst = b * PgSize
    BY <1>1, <2>1, MultipleIs
  <2> HIDE DEF a, b
  <2>3. i \in Int /\ PageNo(i) = p
    <3>1. i \in Int /\ i - 1 = a - b
      BY <2>2
    <3>2. b * PgSize + (a - b) * PgSize = a * PgSize
      BY <1>1, <2>2
    <3> HIDE DEF i
    <3> QED
      BY <2>2, <3>1, <3>2 DEF PageNo
  <2> HIDE DEF i
  <2>4. ~(i < 1)
    <3>1. 1 \in Int /\ (i < 1 => PageNo(i) + PgSize <= PageNo(1))
      BY <1>1, <2>3
    <3> QED
      BY <1>1, <2>1, <2>3, <3>1
  <2>5. ~(k + 1 <= i)
    <3>1. k + 1 \in Int /\ (k + 1 < i => PageNo(k + 1) + PgSize <= PageNo(i))
      BY <1>1, <2>3
    <3>2. PageNo(k + 1) \in Int
      BY <1>1, <3>1
    <3> QED
      BY <1>1, <2>1, <2>3, <3>1, <3>2
  <2>6. i \in 1..k
    BY <2>3, <2>4, <2>5
  <2> QED
    BY <2>3, <2>6
<1>4. f \in [1..k -> S]
  BY <1>2
<1>5. Ascending(f)
  <2> SUFFICES ASSUME NEW i \in 1..k, NEW j \in 1..k, i < j PROVE PageNo(i) < PageNo(j)
    BY DEF Ascending
  <2>1. PageNo(i) + PgSize <= PageNo(j) /\ PageNo(i) \in Int /\ PageNo(j) \in Int
    BY <1>1
  <2> QED
    BY <1>1, <2>1
<1>6. \A p \in S : \E i \in 1..k : f[i] = p
  BY <1>3
<1> HIDE DEF f
<1>7. Cardinality(S) = k
  BY <1>4, <1>5, <1>6, InOrderIs
<1> QED
  BY <1>3, <1>7

\* The lines that are printed when vmshow returns are those of the range.
LEMMA ShownAsAsked ==
  ASSUME IInv, NumbersRead, PagesLegible, called = ShowName, Len(argv) >= 2, ShowDone
  PROVE  ShowsRange
<1>1. /\ Begin \in 0..Word-1 /\ End \in 0..Word-1 /\ Begin = AskedBegin /\ End = AskedEnd
  BY NamesDiffer, ArgumentsRead
<1>2. PICK k \in Nat : /\ PageNo(k + 1) > ShowLast
                       /\ k > 0 => PageNo(k + 1) <= ShowLast + PgSize
                       /\ ShowRows(k)
  BY DEF ShowDone
<1>3. PgSize \in Nat /\ PgSize > 0 /\ Word \in Nat
  BY Sizes
<1>4. /\ ShowFirst \in Multiples(PgSize) /\ ShowLast \in Multiples(PgSize)
      /\ ShowFirst <= Begin /\ Begin < ShowFirst + PgSize
      /\ ShowLast <= End /\ End < ShowLast + PgSize
  BY <1>1, PageNumbers
<1>5. /\ PageNo(1) = ShowFirst
      /\ \A i \in Int : PageNo(i) \in Int /\ PageNo(i) % PgSize = 0
      /\ \A i \in Int : PageNo(i + 1) = PageNo(i) + PgSize
      /\ \A i, j \in Int : i < j => PageNo(i) + PgSize <= PageNo(j)
  BY <1>1, PageNumbers
<1>6. /\ ShowFirst \in Nat /\ ShowFirst % PgSize = 0
      /\ ShowLast \in Nat /\ ShowLast % PgSize = 0
      /\ Begin \in Nat /\ End \in Nat /\ End < Word
  BY <1>1, <1>3, <1>4 DEF Multiples
<1> DEFINE stop == PageNo(k + 1)
<1>7. k + 1 \in Int /\ stop \in Int /\ stop % PgSize = 0 /\ (k = 0 => stop = ShowFirst)
  <2>1. k + 1 \in Int /\ (k = 0 => k + 1 = 1)
    OBVIOUS
  <2> QED
    BY <1>5, <2>1
<1>8. stop > ShowLast /\ (k > 0 => stop <= ShowLast + PgSize)
  BY <1>2
<1> HIDE DEF stop
<1>9. \A a, b \in Int : a % PgSize = 0 /\ b % PgSize = 0 /\ a < b => a + PgSize <= b
  BY ONLY <1>3, NextMultiple
<1>10. ASSUME NEW p \in Nat
       PROVE  p \in AskedPages <=> p % PgSize = 0 /\ ShowFirst <= p /\ p < stop
  <2>1. p \in AskedPages <=> /\ p < Word /\ p % PgSize = 0
                             /\ p + PgSize > Begin /\ p <= End
    BY <1>1, <1>3 DEF AskedPages, Multiples
  <2>2. ASSUME p % PgSize = 0 PROVE p + PgSize > Begin <=> ShowFirst <= p
    <3>1. p < ShowFirst => p + PgSize <= ShowFirst
      BY <1>6, <1>9, <2>2
    <3> QED
      BY <1>3, <1>4, <1>6, <3>1
  <2>3. ASSUME p % PgSize = 0 PROVE p <= End <=> p <= ShowLast
    <3>1. ShowLast < p => ShowLast + PgSize <= p
      BY <1>6, <1>9, <2>3
    <3> QED
      BY <1>3, <1>4, <1>6, <3>1
  <2>4. ASSUME p % PgSize = 0, ShowFirst <= p PROVE p <= ShowLast <=> p < stop
    <3>1. p < stop => p + PgSize <= stop
      BY <1>7, <1>9, <2>4
    <3> QED
      BY <1>3, <1>6, <1>7, <1>8, <2>4, <3>1
  <2>5. p <= End => p < Word
    BY <1>3, <1>6
  <2> QED
    BY <2>1, <2>2, <2>3, <2>4, <2>5
<1>11. AskedPages \in SUBSET Nat
  BY <1>3 DEF AskedPages, Multiples
<1>12. Cardinality(AskedPages) = k /\ \A p \in AskedPages : \E i \in 1..k : PageNo(i) = p
  BY <1>1, <1>10, <1>11, PagesUpTo DEF stop
<1>13. Len(rows) = k /\ \A i \in 1..k : rows[i] = ShowRow(PageNo(i))
  BY <1>2 DEF ShowRows
<1>14. ASSUME NEW p \in AskedPages
       PROVE  ShowsPage(rows[Cardinality({q \in AskedPages : q <= p})], p)
  <2> DEFINE S == {q \in AskedPages : q <= p}
  <2>1. PICK i \in 1..k : PageNo(i) = p
    BY <1>12
  <2>2. i \in Nat /\ i \in Int /\ i + 1 \in Int /\ (i = k \/ i + 1 < k + 1)
    OBVIOUS
  <2>3. p \in Nat /\ p % PgSize = 0 /\ PageNo(i + 1) = p + PgSize
    BY <1>5, <1>10, <1>11, <2>1, <2>2
  <2>4. PageNo(i + 1) <= stop
    <3>1. CASE i = k
      BY <1>7, <3>1 DEF stop
    <3>2. CASE i + 1 < k + 1
      <4>1. PageNo(i + 1) + PgSize <= stop /\ PageNo(i + 1) \in Int
        BY <1>5, <1>7, <2>2, <3>2 DEF stop
      <4> QED
        BY <1>3, <1>7, <4>1
    <3> QED
      BY <2>2, <3>1, <3>2
  <2>5. ASSUME NEW q \in Nat
        PROVE  q \in S <=> q % PgSize = 0 /\ ShowFirst <= q /\ q < PageNo(i + 1)
    <3>1. q % PgSize = 0 /\ p < q => p + PgSize <= q
      BY <1>9, <2>3
    <3>2. q \in S <=> q % PgSize = 0 /\ ShowFirst <= q /\ q < stop /\ q <= p
      BY <1>10
    <3> HIDE DEF S
    <3> QED
      BY <1>3, <1>7, <2>3, <2>4, <3>1, <3>2
  <2>6. S \in SUBSET Nat
    BY <1>11
  <2> HIDE DEF S
  <2>7. Cardinality(S) = i
    BY <1>1, <2>2, <2>5, <2>6, PagesUpTo
  <2>8. p \in Multiples(PgSize) /\ rows[i] = ShowRow(p)
    BY <1>13, <2>1 DEF AskedPages
  <2> QED
    BY <2>7, <2>8 DEF S, PagesLegible
<1> QED
  BY <1>12, <1>13, <1>14 DEF ShowsRange

LEMMA SamePages ==
  ASSUME argv' = argv
  PROVE  /\ Begin' = Begin /\ End' = End /\ ShowFirst' = ShowFirst /\ ShowLast' = ShowLast
         /\ \A i : PageNo(i)' = PageNo(i)
<1>1. Begin' = Begin /\ End' = End
  BY DEF Begin, End
<1>2. ShowFirst' = ShowFirst /\ ShowLast' = ShowLast
  BY <1>1 DEF ShowFirst, ShowLast
<1> QED
  BY <1>1, <1>2 DEF PageNo

LEMMA ShowStarts ==
  ASSUME IInv, NumbersRead, StartShow, rows = <<>>
  PROVE  ShowLoop'
<1>1. /\ pc = "run" /\ called = ShowName /\ Len(argv) >= 2 /\ argv' = argv
      /\ addr' = ShowFirst /\ last' = ShowLast /\ rows' = rows
  BY DEF StartShow, Enter, ShowFirst, ShowLast
<1>2. Begin \in 0..Word-1 /\ End \in 0..Word-1
  BY <1>1, NamesDiffer, ArgumentsRead
<1>3. ShowFirst \in Multiples(PgSize) /\ PageNo(1) = ShowFirst
  BY <1>2, PageNumbers
<1>4. /\ ShowLast' = ShowLast /\ PageNo(0 + 1)' = PageNo(1)
  BY <1>1, SamePages
<1>5. ShowRows(0)'
  BY <1>1 DEF ShowRows
<1> QED
  BY <1>1, <1>3, <1>4, <1>5 DEF ShowLoop, Multiples

LEMMA ShowGoesOn ==
  ASSUME IInv, NumbersRead, RowsKept, Len(argv) >= 2, ShowLoop, ShowPage
  PROVE  ShowLoop'
<1>1. /\ called = ShowName /\ addr <= last /\ argv' = argv /\ last' = last
      /\ addr' = (addr + PgSize) % Word /\ PrintRow(ShowRow(addr), PgSize)
  BY DEF ShowPage, InLoop, Continue, PrintRow, vars
<1>2. Begin \in 0..Word-1 /\ End \in 0..Word-1
  BY <1>1, NamesDiffer, ArgumentsRead
<1>3. /\ ShowLast' = ShowLast /\ \A i : PageNo(i)' = PageNo(i)
  BY <1>1, SamePages
<1>4. PgSize \in Nat /\ PgSize > 0 /\ Word \in Nat /\ Word > 0 /\ Word % PgSize = 0
  BY Sizes, MonitorAssumption
<1>5. addr \in Nat /\ addr < Word /\ addr % PgSize = 0 /\ last = ShowLast
  BY <1>4 DEF ShowLoop, Multiples
<1>6. addr + PgSize <= Word /\ (addr + PgSize) % PgSize = 0
  <2>1. \A a, b \in Int : a % PgSize = 0 /\ b % PgSize = 0 =>
            (a < b => a + PgSize <= b) /\ (a + PgSize) % PgSize = 0
    BY ONLY <1>4, NextMultiple
  <2> QED
    BY <1>4, <1>5, <2>1
<1>7. addr' \in Multiples(PgSize) /\ (addr + PgSize < Word => addr' = addr + PgSize)
  <2>1. addr + PgSize \in Nat
    BY <1>4, <1>5
  <2>2. CASE addr + PgSize < Word
    <3>1. addr' = addr + PgSize
      BY <1>1, <1>4, <2>1, <2>2, Wrapped
    <3> QED
      BY <1>4, <1>6, <2>1, <2>2, <3>1 DEF Multiples
  <2>3. CASE addr + PgSize = Word
    <3>1. addr' = 0
      BY <1>1, <1>4, <2>3, Wrapped
    <3>2. 0 % PgSize = 0
      BY <1>4, Wrapped
    <3> QED
      BY <1>4, <2>3, <3>1, <3>2 DEF Multiples
  <2> QED
    BY <1>4, <1>6, <2>1, <2>2, <2>3
<1>8. ASSUME last + PgSize < Word
      PROVE  \E k \in Nat : /\ addr' = PageNo(k + 1)' /\ (k > 0 => addr' <= last' + PgSize)
                            /\ ShowRows(k)'
  <2>1. PICK k \in Nat : addr = PageNo(k + 1) /\ ShowRows(k)
    BY <1>8 DEF ShowLoop
  <2>2. k < MaxRows /\ MaxRows \in Nat
    <3>1. ShowFirst \in Nat /\ ShowFirst + k * PgSize < Word
      <4>1. k + 1 - 1 = k
        OBVIOUS
      <4>2. ShowFirst \in Nat
        BY <1>2, <1>4, PageNumbers DEF Multiples
      <4> QED
        BY <1>5, <2>1, <4>1, <4>2 DEF PageNo
    <3> QED
      BY <1>4, <3>1, RowFits DEF RowsKept
  <2> DEFINE f == [i \in Nat |-> ShowRow(PageNo(i))]
  <2>3. rows = [i \in 1..k |-> f[i]] /\ f[k + 1] = ShowRow(addr)
    BY <2>1 DEF ShowRows
  <2> HIDE DEF f
  <2>4. rows' = [i \in 1..k+1 |-> f[i]]
    BY <1>1, <2>2, <2>3, RowPrinted
  <2>5. ShowRows(k + 1)'
    BY <1>3, <2>4 DEF ShowRows, f
  <2>6. last \in Nat
    BY <1>2, <1>4, <1>5, PageNumbers DEF Multiples
  <2>7. addr' = addr + PgSize /\ addr' <= last + PgSize
    BY <1>1, <1>4, <1>5, <1>7, <1>8, <2>6
  <2>8. k + 1 \in Int
    OBVIOUS
  <2>9. PageNo((k + 1) + 1)' = addr + PgSize
    BY <1>2, <1>3, <2>1, <2>8, PageNumbers
  <2>10. k + 1 \in Nat
    OBVIOUS
  <2> QED
    BY <1>1, <2>5, <2>7, <2>9, <2>10
<1> QED
  BY <1>1, <1>3, <1>5, <1>7, <1>8 DEF ShowLoop

LEMMA ShowEnds ==
  ASSUME IInv, NumbersRead, called = ShowName, Len(argv) >= 2, ShowLoop, LoopEnds
  PROVE  ShowDone'
<1>1. argv' = argv /\ rows' = rows /\ addr > last
  BY DEF LoopEnds, Return
<1>2. Begin \in 0..Word-1 /\ End \in 0..Word-1
  BY NamesDiffer, ArgumentsRead
<1>3. /\ ShowLast' = ShowLast /\ \A i : PageNo(i)' = PageNo(i)
  BY <1>1, SamePages
<1>4. PgSize \in Nat /\ PgSize > 0 /\ Word \in Nat /\ Word > 0 /\ Word % PgSize = 0
  BY Sizes, MonitorAssumption
<1>5. addr \in Nat /\ addr < Word /\ addr % PgSize = 0 /\ last = ShowLast
  BY <1>4 DEF ShowLoop, Multiples
<1>6. last \in Nat /\ last % PgSize = 0
  BY <1>2, <1>4, <1>5, PageNumbers DEF Multiples
<1>7. last + PgSize < Word
  <2>1. \A a, b \in Int : a % PgSize = 0 /\ b % PgSize = 0 /\ a < b => a + PgSize <= b
    BY ONLY <1>4, NextMultiple
  <2>2. last + PgSize <= addr
    BY <1>1, <1>5, <1>6, <2>1
  <2> QED
    BY <1>4, <1>5, <1>6, <2>2
<1>8. PICK k \in Nat : addr = PageNo(k + 1) /\ (k > 0 => addr <= last + PgSize) /\ ShowRows(k)
  BY <1>7 DEF ShowLoop
<1>9. ShowRows(k)'
  BY <1>1, <1>3, <1>8 DEF ShowRows
<1> QED
  BY <1>1, <1>3, <1>5, <1>8, <1>9 DEF ShowDone

-----------------------------------------------------------------------------
(***************************************************************************)
(* vmdumpv and vmdumpp.  In round k + 1 the loop is at the row that is k    *)
(* rows behind the first, and all rows before it are full.  The loop        *)
(* variable does not wrap: dumpV faults in the last row, and the memory     *)
(* ends before the address space does.                                      *)
(***************************************************************************)
DumpFirst == RoundDown(Begin, RowSize)
DumpLast  == RoundUp(End, RowSize)
RowNo(i)  == DumpFirst + (i - 1) * RowSize

DumpLine(name, a) == IF name = DumpPName THEN DumpPLine(a) ELSE DumpVLine(a)

\* The row at a is printed whole, or ends where there is nothing to read.
Full(name, a)  == IF name = DumpPName THEN Addressed(a) /\ Installed(a) = RowSize ELSE Present(a)
Short(name, a) == IF name = DumpPName THEN Addressed(a) /\ Installed(a) < RowSize ELSE ~Present(a)

DumpRows(k) == rows = [i \in 1..k |-> DumpLine(called, RowNo(i))]
AllFull(k)  == \A i \in 1..k : Full(called, RowNo(i))

DumpLoop ==
    /\ last = DumpLast
    /\ \E k \in Nat : /\ addr = RowNo(k + 1) /\ addr < Word
                      /\ k > 0 => addr <= last + RowSize
                      /\ DumpRows(k) /\ AllFull(k)

DumpDone ==
    \E k \in Nat : /\ RowNo(k + 1) < Word /\ (k > 0 => RowNo(k + 1) <= DumpLast + RowSize)
                   /\ AllFull(k)
                   /\ \/ RowNo(k + 1) > DumpLast /\ DumpRows(k)
                      \/ /\ RowNo(k + 1) <= DumpLast /\ Short(called, RowNo(k + 1))
                         /\ DumpRows(k + 1)

LEMMA RowNumbers ==
  ASSUME Begin \in 0..Word-1
  PROVE  /\ DumpFirst \in Nat /\ DumpFirst <= Begin /\ Begin < DumpFirst + RowSize
         /\ RowNo(1) = DumpFirst
         /\ \A i \in Int : i >= 1 => RowNo(i) \in Nat /\ RowNo(i) % RowSize = 0
         /\ \A i \in Int : RowNo(i + 1) = RowNo(i) + RowSize
         /\ \A k \in Nat : RowNo(k + 1) = DumpFirst + k * RowSize
<1>1. RowSize \in Nat /\ RowSize > 0 /\ Begin \in Nat
  BY Sizes
<1>2. /\ DumpFirst \in Nat /\ DumpFirst % RowSize = 0
      /\ DumpFirst <= Begin /\ Begin < DumpFirst + RowSize
  BY <1>1, RoundDownIs DEF DumpFirst
<1> HIDE DEF DumpFirst
<1>3. RowNo(1) = DumpFirst
  BY <1>1, <1>2 DEF RowNo
<1>4. ASSUME NEW i \in Int, i >= 1 PROVE RowNo(i) \in Nat /\ RowNo(i) % RowSize = 0
  <2>1. i - 1 \in Nat /\ i - 1 \in Int /\ DumpFirst \in Int
    BY <1>2, <1>4
  <2>2. DumpFirst + (i - 1) * RowSize \in Int /\ (DumpFirst + (i - 1) * RowSize) % RowSize = 0
    BY ONLY <1>1, <1>2, <2>1, StepsAhead
  <2>3. (i - 1) * RowSize \in Nat
    BY <1>1, <2>1
  <2> QED
    BY <1>2, <2>2, <2>3 DEF RowNo
<1>5. ASSUME NEW i \in Int PROVE RowNo(i + 1) = RowNo(i) + RowSize
  BY <1>1, <1>2 DEF RowNo
<1>6. ASSUME NEW k \in Nat PROVE RowNo(k + 1) = DumpFirst + k * RowSize
  <2>1. k + 1 - 1 = k
    OBVIOUS
  <2> QED
    BY <2>1 DEF RowNo
<1> QED
  BY <1>2, <1>3, <1>4, <1>5, <1>6

LEMMA InstalledIs ==
  ASSUME NEW a \in Nat
  PROVE  /\ Installed(a) \in 0..RowSize
         /\ Installed(a) = RowSize => a + RowSize <= TotalMem
         /\ Installed(a) < RowSize => a + Installed(a) >= TotalMem
<1>1. TotalMem \in Nat /\ RowSize \in Nat /\ RowSize > 0
  BY Sizes
<1> DEFINE S == {pa \in a..a + RowSize - 1 : pa < TotalMem}
           e == IF TotalMem < a + RowSize THEN TotalMem ELSE a + RowSize
<1>2. S = a..e - 1 /\ e \in Int
  BY <1>1
<1>3. Cardinality(S) = IF a > e - 1 THEN 0 ELSE e - 1 - a + 1
  <2>1. a \in Int /\ e - 1 \in Int
    BY <1>2
  <2> HIDE DEF e, S
  <2> QED
    BY <1>2, <2>1, FS_Interval
<1>4. Installed(a) = Cardinality(S)
  BY DEF Installed
<1> HIDE DEF S
<1> QED
  BY <1>1, <1>3, <1>4

LEMMA SameRows ==
  ASSUME argv' = argv, called' = called
  PROVE  /\ Begin' = Begin /\ End' = End /\ DumpLast' = DumpLast
         /\ \A i : RowNo(i)' = RowNo(i)
         /\ \A k : AllFull(k)' <=> AllFull(k)
<1>1. Begin' = Begin /\ End' = End
  BY DEF Begin, End
<1>2. DumpFirst' = DumpFirst /\ DumpLast' = DumpLast
  BY <1>1 DEF DumpFirst, DumpLast
<1>3. \A i : RowNo(i)' = RowNo(i)
  BY <1>2 DEF RowNo
<1> QED
  BY <1>1, <1>2, <1>3 DEF AllFull

\* The round at a row that is printed adds its line.
LEMMA RowAdded ==
  ASSUME RowsKept, Begin \in 0..Word-1, argv' = argv, called' = called,
         NEW k \in Nat, DumpRows(k), RowNo(k + 1) < Word,
         NEW n, PrintRow(DumpLine(called, RowNo(k + 1)), n)
  PROVE  DumpRows(k + 1)'
<1>1. k < MaxRows /\ MaxRows \in Nat
  <2>1. DumpFirst \in Nat /\ DumpFirst + k * RowSize < Word
    BY RowNumbers
  <2> QED
    BY <2>1, Sizes, RowFits DEF RowsKept
<1> DEFINE f == [i \in Nat |-> DumpLine(called, RowNo(i))]
<1>2. rows = [i \in 1..k |-> f[i]] /\ f[k + 1] = DumpLine(called, RowNo(k + 1))
  BY DEF DumpRows
<1> HIDE DEF f
<1>3. rows' = [i \in 1..k+1 |-> f[i]]
  BY <1>1, <1>2, RowPrinted
<1>4. \A i : RowNo(i)' = RowNo(i)
  BY SameRows
<1> QED
  BY <1>3, <1>4 DEF DumpRows, f

LEMMA DumpStarts ==
  ASSUME IInv, NumbersRead, StartDump, rows = <<>>
  PROVE  DumpLoop'
<1>1. /\ pc = "run" /\ called \in {DumpVName, DumpPName} /\ Len(argv) >= 2 /\ argv' = argv
      /\ addr' = DumpFirst /\ last' = DumpLast /\ rows' = rows /\ called' = called
  BY DEF StartDump, Enter, DumpFirst, DumpLast
<1>2. Begin \in 0..Word-1
  BY <1>1, NamesDiffer, ArgumentsRead
<1>3. DumpFirst \in Nat /\ DumpFirst < Word /\ RowNo(1) = DumpFirst
  <2>1. DumpFirst \in Nat /\ DumpFirst <= Begin /\ RowNo(1) = DumpFirst
    BY <1>2, RowNumbers
  <2> QED
    BY <1>2, <2>1, Sizes
<1>4. /\ DumpLast' = DumpLast /\ RowNo(0 + 1)' = RowNo(1)
  BY <1>1, SameRows
<1>5. DumpRows(0)' /\ AllFull(0)'
  BY <1>1 DEF DumpRows, AllFull
<1> QED
  BY <1>1, <1>3, <1>4, <1>5 DEF DumpLoop

\* One round of a dump: a row in full, the last one, or a stop.
LEMMA RoundOfDump ==
  ASSUME DumpVRow \/ DumpPRow, addr \in Nat
  PROVE  /\ called \in {DumpVName, DumpPName} /\ addr <= last /\ UNCHANGED <<argv, called, last>>
         /\ \/ /\ Full(called, addr) /\ addr' = addr + RowSize /\ addr' < Word
               /\ PrintRow(DumpLine(called, addr), RowSize) /\ pc' = "loop"
            \/ /\ Short(called, addr) /\ PrintRow(DumpLine(called, addr), 0)
               /\ pc' = "report"
            \/ /\ pc' = "fault" /\ addr' = addr
               /\ called = DumpVName => addr + RowSize = Word
               /\ called = DumpPName => ~Addressed(addr)
<1>1. RowSize \in Nat /\ Word \in Nat /\ Word > 0 /\ addr + RowSize \in Nat
  BY Sizes
<1>2. addr + RowSize < Word => (addr + RowSize) % Word = addr + RowSize
  BY <1>1, Wrapped
<1>3. CASE DumpVRow
  <2>1. called = DumpVName /\ called # DumpPName /\ addr <= last /\ pc = "loop"
    BY <1>3, NamesDiffer DEF DumpVRow, InLoop
  <2>2. DumpLine(called, addr) = DumpVLine(addr)
    BY <2>1 DEF DumpLine
  <2>3. CASE ~Present(addr) /\ PrintRow(DumpVLine(addr), 0) /\ Return("ok")
    BY <2>1, <2>2, <2>3 DEF PrintRow, Return, Short
  <2>4. CASE Present(addr) /\ addr + RowSize < Word /\ Continue(DumpVLine(addr), RowSize)
    BY <1>2, <2>1, <2>2, <2>4 DEF PrintRow, Continue, vars, Full
  <2>5. CASE /\ Present(addr) /\ addr + RowSize = Word /\ pc' = "fault"
             /\ UNCHANGED <<typed, lastRet, called, argv, addr, last, rows>>
    BY <2>1, <2>5
  <2> QED
    BY <1>3, <2>3, <2>4, <2>5 DEF DumpVRow
<1>4. CASE DumpPRow
  <2>1. called = DumpPName /\ called # DumpVName /\ addr <= last /\ pc = "loop"
    BY <1>4, NamesDiffer DEF DumpPRow, InLoop
  <2>2. DumpLine(called, addr) = DumpPLine(addr)
    BY <2>1 DEF DumpLine
  <2>3. CASE Addressed(addr) /\ Installed(addr) < RowSize /\ PrintRow(DumpPLine(addr), 0) /\ Return("ok")
    BY <2>1, <2>2, <2>3 DEF PrintRow, Return, Short
  <2>4. CASE Addressed(addr) /\ Installed(addr) = RowSize /\ Continue(DumpPLine(addr), RowSize)
    <3>1. addr + RowSize < Word
      <4>1. addr + RowSize <= TotalMem
        BY <2>4, InstalledIs
      <4> QED
        BY <1>1, <4>1, Sizes
    <3> QED
      BY <1>2, <2>1, <2>2, <2>4, <3>1 DEF PrintRow, Continue, vars, Full
  <2>5. CASE /\ ~Addressed(addr) /\ pc' = "fault"
             /\ UNCHANGED <<typed, lastRet, called, argv, addr, last, rows>>
    BY <2>1, <2>5
  <2> QED
    BY <1>4, <2>3, <2>4, <2>5 DEF DumpPRow
<1> QED
  BY <1>3, <1>4

LEMMA DumpGoesOn ==
  ASSUME IInv, NumbersRead, RowsKept, Len(argv) >= 2, DumpLoop, DumpVRow \/ DumpPRow
  PROVE  /\ pc' = "loop" => DumpLoop'
         /\ pc' = "report" => DumpDone'
<1>1. PICK k \in Nat : /\ addr = RowNo(k + 1) /\ addr < Word
                       /\ k > 0 => addr <= last + RowSize
                       /\ DumpRows(k) /\ AllFull(k)
  BY DEF DumpLoop
<1>2. called \in {DumpVName, DumpPName}
  BY NamesDiffer DEF DumpVRow, DumpPRow, InLoop
<1>3. Begin \in 0..Word-1 /\ End \in 0..Word-1
  BY <1>2, NamesDiffer, ArgumentsRead
<1>4. /\ addr \in Nat /\ k + 1 \in Nat /\ k + 1 > 0
      /\ RowNo((k + 1) + 1) = addr + RowSize
  <2>1. k + 1 \in Int /\ k + 1 >= 1 /\ k + 1 \in Nat /\ k + 1 > 0
    OBVIOUS
  <2> QED
    BY <1>1, <1>3, <2>1, RowNumbers
<1>5. /\ addr <= last /\ argv' = argv /\ called' = called /\ last' = last
      /\ \/ /\ Full(called, addr) /\ addr' = addr + RowSize /\ addr' < Word
            /\ PrintRow(DumpLine(called, addr), RowSize) /\ pc' = "loop"
         \/ /\ Short(called, addr) /\ PrintRow(DumpLine(called, addr), 0) /\ pc' = "report"
         \/ pc' = "fault"
  BY <1>4, RoundOfDump
<1>6. /\ DumpLast' = DumpLast /\ last = DumpLast
      /\ \A i : RowNo(i)' = RowNo(i)
      /\ \A i : AllFull(i)' <=> AllFull(i)
  BY <1>5, SameRows DEF DumpLoop
<1>7. \A n : PrintRow(DumpLine(called, addr), n) => DumpRows(k + 1)'
  BY <1>1, <1>3, <1>5, RowAdded
<1>8. ASSUME pc' = "loop" PROVE DumpLoop'
  <2>1. /\ Full(called, addr) /\ addr' = addr + RowSize /\ addr' < Word
        /\ PrintRow(DumpLine(called, addr), RowSize)
    BY <1>5, <1>8
  <2>2. AllFull(k + 1)
    BY <1>1, <2>1 DEF AllFull
  <2>3. addr' <= last' + RowSize
    <3>1. RowSize \in Nat /\ last \in Int
      <4>1. Word \in Nat /\ Word > 0 /\ RowSize \in Nat /\ RowSize > 0
        BY Sizes
      <4>2. (End + RowSize - 1) % Word \in Nat
        BY <1>3, <4>1, Quotient
      <4>3. DumpLast \in Int
        BY <4>1, <4>2, RoundDownIs DEF DumpLast, RoundUp
      <4> QED
        BY <1>6, <4>1, <4>3
    <3> QED
      BY <1>4, <1>5, <2>1, <3>1
  <2>4. addr' = RowNo((k + 1) + 1)'
    BY <1>4, <1>6, <2>1
  <2> QED
    BY <1>4, <1>5, <1>6, <1>7, <2>1, <2>2, <2>3, <2>4 DEF DumpLoop
<1>9. ASSUME pc' = "report" PROVE DumpDone'
  <2>1. Short(called, addr) /\ PrintRow(DumpLine(called, addr), 0)
    BY <1>5, <1>9
  <2>2. DumpRows(k + 1)'
    BY <1>7, <2>1
  <2>3. Short(called, RowNo(k + 1))'
    BY <1>1, <1>5, <1>6, <2>1 DEF Short
  <2> QED
    BY <1>1, <1>5, <1>6, <2>2, <2>3 DEF DumpDone
<1> QED
  BY <1>8, <1>9

LEMMA DumpEnds ==
  ASSUME IInv, NumbersRead, called \in {DumpVName, DumpPName}, Len(argv) >= 2, DumpLoop, LoopEnds
  PROVE  DumpDone'
<1>1. argv' = argv /\ called' = called /\ rows' = rows /\ addr > last
  BY DEF LoopEnds, Return
<1>2. PICK k \in Nat : /\ addr = RowNo(k + 1) /\ addr < Word
                       /\ k > 0 => addr <= last + RowSize
                       /\ DumpRows(k) /\ AllFull(k)
  BY DEF DumpLoop
<1>3. /\ DumpLast' = DumpLast /\ last = DumpLast
      /\ \A i : RowNo(i)' = RowNo(i)
      /\ \A i : AllFull(i)' <=> AllFull(i)
  BY <1>1, SameRows DEF DumpLoop
<1>4. DumpRows(k)'
  BY <1>1, <1>2, <1>3 DEF DumpRows
<1> QED
  BY <1>1, <1>2, <1>3, <1>4 DEF DumpDone

\* vmdumpp stops the kernel only beyond the last whole page of the memory.
LEMMA StopsBeyond ==
  ASSUME NEW a \in Nat, ~Addressed(a)
  PROVE  a + RowSize > NPages * PgSize
<1>1. PICK k \in 0..Installed(a) - 1 : ~((a + k) \div PgSize < NPages)
  BY DEF Addressed
<1>2. RowSize \in Nat /\ PgSize \in Nat /\ PgSize > 0 /\ NPages \in Int /\ Installed(a) \in 0..RowSize
  BY Sizes, InstalledIs
<1>3. k \in Nat /\ k < RowSize /\ a + k \in Int
  BY <1>2
<1> DEFINE d == (a + k) \div PgSize
           r == (a + k) % PgSize
<1>4. d \in Int /\ r \in 0..PgSize-1 /\ a + k = d * PgSize + r /\ d >= NPages
  BY <1>1, <1>2, <1>3, Quotient
<1> HIDE DEF d, r
<1>5. d * PgSize >= NPages * PgSize
  <2>1. CASE d = NPages
    BY <1>2, <2>1
  <2>2. CASE NPages < d
    <3>1. NPages * PgSize + PgSize <= d * PgSize
      BY <1>2, <1>4, <2>2, Apart
    <3>2. NPages * PgSize \in Int /\ d * PgSize \in Int
      BY <1>2, <1>4
    <3> QED
      BY <1>2, <3>1, <3>2
  <2> QED
    BY <1>2, <1>4, <2>1, <2>2
<1>6. NPages * PgSize \in Int /\ d * PgSize \in Int
  BY <1>2, <1>4
<1> QED
  BY <1>2, <1>3, <1>4, <1>5, <1>6

\* The lines that are printed when a dump returns are those of the range, up to
\* the first byte that there is none of.
LEMMA DumpedAsAsked ==
  ASSUME IInv, NumbersRead, RowsLegible, called \in {DumpVName, DumpPName}, Len(argv) >= 2,
         DumpDone, pc # "fault"
  PROVE  DumpsRange
<1>1. Begin \in 0..Word-1 /\ End \in 0..Word-1 /\ Begin = AskedBegin /\ End = AskedEnd
  BY NamesDiffer, ArgumentsRead
<1>2. PICK k \in Nat :
         /\ RowNo(k + 1) < Word /\ (k > 0 => RowNo(k + 1) <= DumpLast + RowSize)
         /\ AllFull(k)
         /\ \/ RowNo(k + 1) > DumpLast /\ DumpRows(k)
            \/ /\ RowNo(k + 1) <= DumpLast /\ Short(called, RowNo(k + 1)) /\ DumpRows(k + 1)
  BY DEF DumpDone
<1>3. /\ RowSize \in Nat /\ RowSize > 0 /\ Word \in Nat /\ TotalMem \in Nat
  BY Sizes
<1>4. /\ DumpFirst \in Nat /\ DumpFirst <= Begin /\ Begin < DumpFirst + RowSize
      /\ RowNo(1) = DumpFirst
      /\ \A i \in Int : i >= 1 => RowNo(i) \in Nat /\ RowNo(i) % RowSize = 0
      /\ \A i \in Int : RowNo(i + 1) = RowNo(i) + RowSize
  BY <1>1, RowNumbers
<1> SUFFICES ASSUME AskedEnd + RowSize <= Word
             PROVE  LET n       == Len(rows)
                        reached == IF n = 0 THEN DumpFirst ELSE RowNo(n) + Held(rows[n])
                    IN /\ \A i \in 1..n : /\ DumpsRow(rows[i], called, RowNo(i))
                                          /\ i < n => Held(rows[i]) = RowSize
                       /\ reached > End \/ ~Readable(called, reached)
                       /\ reached > DumpFirst => reached < End + 2 * RowSize
  BY <1>1 DEF DumpsRange, DumpFirst, RowNo
<1>5. End \in Nat /\ DumpLast \in Nat /\ DumpLast >= End /\ DumpLast < End + RowSize
  <2>1. End + RowSize - 1 \in Nat /\ End + RowSize - 1 < Word /\ End \in Nat
    BY <1>1, <1>3
  <2>2. DumpLast = RoundDown(End + RowSize - 1, RowSize)
    BY <1>3, <2>1, Wrapped DEF DumpLast, RoundUp
  <2>3. /\ DumpLast \in Nat /\ DumpLast <= End + RowSize - 1
        /\ End + RowSize - 1 < DumpLast + RowSize
    BY <1>3, <2>1, <2>2, RoundDownIs
  <2> QED
    BY <1>3, <2>1, <2>3
<1> DEFINE a == RowNo(k + 1)
<1>6. a \in Nat /\ a < Word /\ (k > 0 => a <= DumpLast + RowSize /\ a = RowNo(k) + RowSize)
      /\ (k = 0 => a = DumpFirst)
  <2>1. k + 1 \in Int /\ k + 1 >= 1 /\ k \in Int /\ (k = 0 => k + 1 = 1)
    OBVIOUS
  <2> QED
    BY <1>2, <1>4, <2>1
<1>7. ASSUME NEW i \in 1..k+1 PROVE RowNo(i) \in Multiples(RowSize)
  <2>1. i \in Int /\ i >= 1 /\ (i = k + 1 \/ i <= k)
    OBVIOUS
  <2>2. RowNo(i) <= a
    <3>1. DumpFirst + (i - 1) * RowSize <= DumpFirst + k * RowSize
      <4>1. i - 1 = k \/ i - 1 < k
        BY <2>1
      <4>2. i - 1 < k => (i - 1) * RowSize + RowSize <= k * RowSize
        BY <1>3, <2>1, Apart
      <4>3. (i - 1) * RowSize \in Int /\ k * RowSize \in Int
        BY <1>3, <2>1
      <4> QED
        BY <1>3, <1>4, <4>1, <4>2, <4>3
    <3>2. a = DumpFirst + k * RowSize
      BY <1>1, RowNumbers
    <3> QED
      BY <3>1, <3>2 DEF RowNo
  <2>3. RowNo(i) \in Nat /\ RowNo(i) % RowSize = 0
    BY <1>4, <2>1
  <2> HIDE DEF a
  <2> QED
    BY <1>3, <1>6, <2>2, <2>3 DEF Multiples
<1>8. \A b \in Multiples(RowSize) :
         /\ Full(called, b) => Held(DumpLine(called, b)) = RowSize
         /\ Full(called, b) \/ Short(called, b) => DumpsRow(DumpLine(called, b), called, b)
         /\ Short(called, b) =>
               Held(DumpLine(called, b)) = IF called = DumpPName THEN Installed(b) ELSE 0
  <2> SUFFICES ASSUME NEW b \in Multiples(RowSize)
               PROVE  /\ Full(called, b) => Held(DumpLine(called, b)) = RowSize
                      /\ Full(called, b) \/ Short(called, b) =>
                            DumpsRow(DumpLine(called, b), called, b)
                      /\ Short(called, b) =>
                            Held(DumpLine(called, b)) = IF called = DumpPName THEN Installed(b) ELSE 0
    OBVIOUS
  <2>1. CASE called = DumpPName
    BY <2>1 DEF RowsLegible, Full, Short, DumpLine
  <2>2. CASE called = DumpVName
    BY <2>2, NamesDiffer DEF RowsLegible, Full, Short, DumpLine
  <2> QED
    BY <2>1, <2>2
<1>9. ASSUME NEW i \in 1..k, NEW n \in Nat, i <= n, DumpRows(n)
      PROVE  DumpsRow(rows[i], called, RowNo(i)) /\ Held(rows[i]) = RowSize
  <2>1. i \in 1..k+1 /\ rows[i] = DumpLine(called, RowNo(i)) /\ Full(called, RowNo(i))
    BY <1>2, <1>9 DEF DumpRows, AllFull
  <2> QED
    BY <1>7, <1>8, <2>1
<1> HIDE DEF a
<1>10. CASE a > DumpLast /\ DumpRows(k)
  <2>1. Len(rows) = k
    BY <1>10 DEF DumpRows
  <2>2. \A i \in 1..k : DumpsRow(rows[i], called, RowNo(i)) /\ Held(rows[i]) = RowSize
    BY <1>9, <1>10
  <2>3. (IF k = 0 THEN DumpFirst ELSE RowNo(k) + Held(rows[k])) = a
    <3>1. k > 0 => k \in 1..k
      OBVIOUS
    <3> QED
      BY <1>6, <2>2, <3>1
  <2>4. a > End /\ (a > DumpFirst => a < End + 2 * RowSize)
    BY <1>3, <1>5, <1>6, <1>10
  <2> QED
    BY <2>1, <2>2, <2>3, <2>4
<1>11. CASE a <= DumpLast /\ Short(called, a) /\ DumpRows(k + 1)
  <2>1. Len(rows) = k + 1 /\ k + 1 \in 1..k+1 /\ k + 1 # 0 /\ k + 1 \in Nat
    BY <1>11 DEF DumpRows
  <2>2. rows[k + 1] = DumpLine(called, a)
    BY <1>11, <2>1 DEF DumpRows, a
  <2>3. a \in Multiples(RowSize)
    BY <1>7, <2>1 DEF a
  <2>4. DumpsRow(rows[k + 1], called, a)
    BY <1>8, <1>11, <2>2, <2>3
  <2>5. /\ Held(rows[k + 1]) \in 0..RowSize-1
        /\ ~Readable(called, a + Held(rows[k + 1]))
    <3>1. CASE called = DumpPName
      <4>1. Held(rows[k + 1]) = Installed(a) /\ Installed(a) < RowSize
        BY <1>8, <1>11, <2>2, <2>3, <3>1 DEF Short
      <4>2. Installed(a) \in 0..RowSize /\ a + Installed(a) >= TotalMem
        BY <1>6, <4>1, InstalledIs
      <4> QED
        BY <1>3, <1>6, <3>1, <4>1, <4>2 DEF Readable
    <3>2. CASE called = DumpVName
      <4>1. Held(rows[k + 1]) = 0 /\ ~Present(a)
        BY <1>8, <1>11, <2>2, <2>3, <3>2, NamesDiffer DEF Short
      <4>2. a + 0 = a
        BY <1>6
      <4> QED
        BY <1>3, <3>2, <4>1, <4>2, NamesDiffer DEF Readable
    <3> QED
      BY <3>1, <3>2
  <2>6. \A i \in 1..k+1 : /\ DumpsRow(rows[i], called, RowNo(i))
                          /\ i < k + 1 => Held(rows[i]) = RowSize
    <3> SUFFICES ASSUME NEW i \in 1..k+1
                 PROVE  /\ DumpsRow(rows[i], called, RowNo(i))
                        /\ i < k + 1 => Held(rows[i]) = RowSize
      OBVIOUS
    <3>1. CASE i = k + 1
      BY <2>4, <3>1 DEF a
    <3>2. CASE i \in 1..k
      <4>1. i <= k + 1
        OBVIOUS
      <4> QED
        BY <1>9, <1>11, <2>1, <3>2, <4>1
    <3> QED
      BY <3>1, <3>2
  <2>7. a + Held(rows[k + 1]) < End + 2 * RowSize
    BY <1>3, <1>5, <1>6, <1>11, <2>5
  <2> QED
    BY <2>1, <2>5, <2>6, <2>7 DEF a
<1> QED
  BY <1>2, <1>10, <1>11 DEF a

-----------------------------------------------------------------------------
(***************************************************************************)
(* The inductive invariant of the memory commands: where a loop is, what it *)
(* has printed, and what it leaves when it returns or the kernel stops.     *)
(***************************************************************************)
Dumps == {DumpVName, DumpPName}

StoppedAt ==
    /\ pc = "fault" /\ called = DumpVName => addr + RowSize = Word
    /\ pc = "fault" /\ called = DumpPName => addr + RowSize > NPages * PgSize

LoopInv ==
    /\ pc \in {"prompt", "parse", "run"} => rows = <<>>
    /\ pc = "loop" => called \in {ShowName} \cup Dumps /\ Len(argv) >= 2
    /\ pc = "loop" /\ called = ShowName => ShowLoop
    /\ pc = "loop" /\ called \in Dumps => DumpLoop
    /\ Returned({ShowName}) => Len(argv) >= 2 /\ ShowDone
    /\ Returned(Dumps) => Len(argv) >= 2 /\ DumpDone
    /\ StoppedAt

LEMMA LoopInvInit == MInit => LoopInv
BY DEF MInit, Init, LoopInv, Returned, StoppedAt

\* The same state, seen again.
LEMMA LoopInvSame ==
  ASSUME LoopInv, UNCHANGED mvars
  PROVE  LoopInv'
<1>1. UNCHANGED <<pc, typed, lastRet, called, argv, addr, last, rows>>
  BY DEF mvars, vars
<1>2. ShowLoop' <=> ShowLoop
  <2>1. ShowLast' = ShowLast /\ \A i : PageNo(i)' = PageNo(i)
    BY <1>1, SamePages
  <2> QED
    BY <1>1, <2>1 DEF ShowLoop, ShowRows
<1>3. ShowDone' <=> ShowDone
  <2>1. ShowLast' = ShowLast /\ \A i : PageNo(i)' = PageNo(i)
    BY <1>1, SamePages
  <2> QED
    BY <1>1, <2>1 DEF ShowDone, ShowRows
<1>4. DumpLoop' <=> DumpLoop
  <2>1. DumpLast' = DumpLast /\ (\A i : RowNo(i)' = RowNo(i)) /\ \A i : AllFull(i)' <=> AllFull(i)
    BY <1>1, SameRows
  <2> QED
    BY <1>1, <2>1 DEF DumpLoop, DumpRows
<1>5. DumpDone' <=> DumpDone
  <2>1. DumpLast' = DumpLast /\ (\A i : RowNo(i)' = RowNo(i)) /\ \A i : AllFull(i)' <=> AllFull(i)
    BY <1>1, SameRows
  <2> QED
    BY <1>1, <2>1 DEF DumpDone, DumpRows
<1> QED
  BY <1>1, <1>2, <1>3, <1>4, <1>5 DEF LoopInv, Returned, StoppedAt

\* A step outside the loops, which neither prints nor leaves a result of theirs.
LEMMA OutsideLoops ==
  ASSUME \/ pc' \in {"prompt", "parse", "run"} /\ rows' = <<>>
         \/ pc' \in {"report", "fault"} /\ (called' \in {ShowName} \cup Dumps => pc' = "report" /\ lastRet' # "ok")
  PROVE  LoopInv'
BY DEF LoopInv, Returned, StoppedAt, Dumps

\* A round of a dump that stops the kernel.
LEMMA DumpStops ==
  ASSUME IInv, NumbersRead, called \in Dumps, Len(argv) >= 2, DumpLoop, DumpVRow \/ DumpPRow,
         pc' = "fault"
  PROVE  StoppedAt'
<1>1. addr \in Nat
  <2>1. PICK k \in Nat : addr = RowNo(k + 1)
    BY DEF DumpLoop
  <2>2. Begin \in 0..Word-1
    BY NamesDiffer, ArgumentsRead DEF Dumps
  <2>3. k + 1 \in Int /\ k + 1 >= 1
    OBVIOUS
  <2> QED
    BY <2>1, <2>2, <2>3, RowNumbers
<1>2. /\ called' = called /\ addr' = addr
      /\ called = DumpVName => addr + RowSize = Word
      /\ called = DumpPName => ~Addressed(addr)
  BY <1>1, RoundOfDump
<1> QED
  BY <1>1, <1>2, StopsBeyond DEF StoppedAt

LEMMA LoopInvStep ==
  ASSUME NumbersRead, RowsKept, IInv, LoopInv, [MNext]_mvars
  PROVE  LoopInv'
<1>1. CASE UNCHANGED mvars
  BY <1>1, LoopInvSame
<1>2. CASE CommandLine
  <2>1. CASE \E l \in Lines : ReadLine(l)
    BY <1>2, <2>1, NamesDiffer, OutsideLoops DEF CommandLine, ReadLine, IInv, LoopInv, Dumps
  <2>2. CASE Refuse \/ ReadNull
    BY <2>2, NamesDiffer, OutsideLoops DEF Refuse, ReadNull, IInv, Dumps
  <2>3. CASE Call
    BY <1>2, <2>3, NamesDiffer, OutsideLoops DEF CommandLine, Call, Lookup, IInv, LoopInv, Dumps
  <2> QED
    BY <1>2, <2>1, <2>2, <2>3 DEF CommandLine
<1>3. CASE MReport
  BY <1>3, OutsideLoops DEF MReport, Report
<1>4. CASE NoArgument
  BY <1>4, OutsideLoops DEF NoArgument, Return
<1>5. CASE StartShow
  <2>1. pc = "run" /\ pc' = "loop" /\ called = ShowName /\ called' = called /\ argv' = argv /\ Len(argv) >= 2
    BY <1>5 DEF StartShow, Enter
  <2>2. ShowLoop'
    BY <1>5, <2>1, ShowStarts DEF LoopInv
  <2> QED
    BY <2>1, <2>2, NamesDiffer DEF LoopInv, Returned, StoppedAt, Dumps
<1>6. CASE StartDump
  <2>1. pc = "run" /\ pc' = "loop" /\ called \in Dumps /\ called' = called /\ argv' = argv /\ Len(argv) >= 2
    BY <1>6 DEF StartDump, Enter, Dumps
  <2>2. DumpLoop'
    BY <1>6, <2>1, DumpStarts DEF LoopInv
  <2> QED
    BY <2>1, <2>2, NamesDiffer DEF LoopInv, Returned, StoppedAt, Dumps
<1>7. CASE ShowPage
  <2>1. pc = "loop" /\ pc' = "loop" /\ called = ShowName /\ called' = called /\ argv' = argv
    BY <1>7 DEF ShowPage, InLoop, Continue, vars
  <2>2. Len(argv) >= 2 /\ ShowLoop
    BY <2>1 DEF LoopInv
  <2>3. ShowLoop'
    BY <1>7, <2>2, ShowGoesOn
  <2> QED
    BY <2>1, <2>2, <2>3, NamesDiffer DEF LoopInv, Returned, StoppedAt, Dumps
<1>8. CASE DumpVRow \/ DumpPRow
  <2>1. pc = "loop" /\ called \in Dumps
    BY <1>8 DEF DumpVRow, DumpPRow, InLoop, Dumps
  <2>2. Len(argv) >= 2 /\ DumpLoop
    BY <2>1 DEF LoopInv
  <2>3. called' = called /\ argv' = argv /\ pc' \in {"loop", "report", "fault"}
    BY <1>8, <2>1 DEF DumpVRow, DumpPRow, Continue, Return, vars
  <2>4. (pc' = "loop" => DumpLoop') /\ (pc' = "report" => DumpDone')
    BY <1>8, <2>2, DumpGoesOn
  <2>5. pc' = "fault" => StoppedAt'
    BY <1>8, <2>1, <2>2, DumpStops
  <2> QED
    BY <2>1, <2>2, <2>3, <2>4, <2>5, NamesDiffer DEF LoopInv, Returned, StoppedAt, Dumps
<1>9. CASE LoopEnds
  <2>1. pc = "loop" /\ pc' = "report" /\ called' = called /\ argv' = argv
    BY <1>9 DEF LoopEnds, Return
  <2>2. Len(argv) >= 2 /\ called \in {ShowName} \cup Dumps
    BY <2>1 DEF LoopInv
  <2>3. called = ShowName => ShowDone'
    BY <1>9, <2>1, <2>2, ShowEnds DEF LoopInv
  <2>4. called \in Dumps => DumpDone'
    BY <1>9, <2>1, <2>2, DumpEnds DEF LoopInv, Dumps
  <2> QED
    BY <2>1, <2>2, <2>3, <2>4 DEF LoopInv, Returned, StoppedAt
<1>10. CASE OtherCommand
  BY <1>10, OutsideLoops DEF OtherCommand, Return, Dumps
<1> QED
  BY <1>1, <1>2, <1>3, <1>4, <1>5, <1>6, <1>7, <1>8, <1>9, <1>10 DEF MNext, Loop

(***************************************************************************)
(* The loops of vmshow, vmdumpv and vmdumpp keep their invariant, whatever  *)
(* is mapped and however much memory there is, when the code reads the      *)
(* numbers that are typed.                                                  *)
(***************************************************************************)
THEOREM LoopsAsDescribed ==
  ASSUME NumbersRead, RowsKept
  PROVE  MSpec => []LoopInv
<1>1. MInit => LoopInv
  BY LoopInvInit
<1>2. IInv /\ LoopInv /\ [MNext]_mvars => LoopInv'
  BY LoopInvStep
<1> QED
  BY <1>1, <1>2, Inductive, PTL DEF MSpec

(***************************************************************************)
(* vmshow prints the pages that have a byte of the range, each once and in  *)
(* order, whatever range is typed and whatever is mapped, when numbers are  *)
(* read and printed as the code means to.                                   *)
(***************************************************************************)
THEOREM ShowsRangeCorrect ==
  ASSUME NumbersRead, PagesLegible, RowsKept
  PROVE  MSpec => []ShowsRange
<1>1. IInv /\ LoopInv => ShowsRange
  <2> SUFFICES ASSUME IInv, LoopInv, Returned({ShowName}) PROVE ShowsRange
    BY DEF ShowsRange
  <2> QED
    BY ShownAsAsked DEF LoopInv, Returned
<1> QED
  BY <1>1, Inductive, LoopsAsDescribed, PTL

(***************************************************************************)
(* vmdumpv and vmdumpp print every byte of the range, up to the first that  *)
(* there is none of, and stop the kernel only in the last row of the        *)
(* address space or beyond the last whole page of memory, whatever range is *)
(* typed, whatever is mapped and however much memory there is, when numbers *)
(* are read and printed as the code means to.                               *)
(***************************************************************************)
THEOREM DumpsRangeCorrect ==
  ASSUME NumbersRead, RowsLegible, RowsKept
  PROVE  MSpec => []DumpsRange
<1>1. IInv /\ LoopInv => DumpsRange
  <2> SUFFICES ASSUME IInv, LoopInv PROVE DumpsRange
    OBVIOUS
  <2>1. CASE Returned(Dumps)
    BY <2>1, DumpedAsAsked DEF LoopInv, Returned, Dumps
  <2>2. CASE ~Returned(Dumps)
    BY <2>2 DEF DumpsRange, LoopInv, StoppedAt, Dumps
  <2> QED
    BY <2>1, <2>2
<1> QED
  BY <1>1, Inductive, LoopsAsDescribed, PTL
=============================================================================
