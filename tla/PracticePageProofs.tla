------------------------- MODULE PracticePageProofs -------------------------
(***************************************************************************)
(* Proofs about PracticePage, for any PDFs, question counts, list limit and *)
(* bounds, and any replies that are lists of items: the session that runs   *)
(* is the one asked for, what is shown of a submission belongs to it, and   *)
(* the score that is shown is the share of its questions answered right.    *)
(*                                                                          *)
(* The first two parts are about data, for lists of any length: what a loop *)
(* collects (by induction over its rounds), and how a score is rounded.     *)
(***************************************************************************)
EXTENDS PracticePage, ExamSheets, FiniteSetTheorems, WellFoundedInduction, TLAPS

(* Induction: a set that holds 0 and the successor of each of its numbers   *)
(* holds all of them.                                                       *)
LEMMA NatSet ==
  ASSUME NEW S, 0 \in S, \A n \in Nat : n \in S => n + 1 \in S
  PROVE  \A n \in Nat : n \in S
<1> DEFINE T == Nat \ S
<1>1. SUFFICES ASSUME T # {} PROVE FALSE
  OBVIOUS
<1> DEFINE R == {p \in Nat \X Nat : p[1] < p[2]}
<1>2. IsWellFoundedOn(R, Nat)
  BY NatLessThanWellFounded DEF OpToRel
<1>3. PICK x \in T : \A y \in T : <<y, x>> \notin R
  BY <1>1, <1>2, WFMin, T \subseteq Nat
<1>4. x # 0 /\ x - 1 \in T /\ x - 1 < x
  <2>1. x # 0 /\ x - 1 \in Nat
    OBVIOUS
  <2>2. QED BY <2>1
<1>5. QED BY <1>3, <1>4

Steps(V, n) == [V \X (1..n) -> V]

Iterates(f, n, V, b, step) ==
  f \in [0..n -> V] /\ f[0] = b /\ \A i \in 1..n : f[i] = step[<<f[i - 1], i>>]

(* A function on 0..n is defined by its first value and by the step from    *)
(* each value to the next.                                                  *)
LEMMA Recursion ==
  ASSUME NEW n \in Nat, NEW V, NEW b, b \in V, NEW step, step \in Steps(V, n)
  PROVE  \E f : Iterates(f, n, V, b, step)
<1> USE DEF Steps
<1> DEFINE Is(f, k) == f \in [0..k -> V] /\ f[0] = b /\ \A i \in 1..k : f[i] = step[<<f[i - 1], i>>]
           S == {k \in Nat : k <= n => \E f : Is(f, k)}
<1>1. 0 \in S
  <2>1. Is([i \in 0..0 |-> b], 0)
    OBVIOUS
  <2>2. QED BY <2>1
<1>2. ASSUME NEW k \in Nat, k \in S PROVE k + 1 \in S
  <2>1. SUFFICES ASSUME k + 1 <= n PROVE \E f : Is(f, k + 1)
    OBVIOUS
  <2>2. PICK f : Is(f, k)
    BY <1>2, <2>1
  <2>3. <<f[k], k + 1>> \in V \X (1..n)
    BY <2>1, <2>2
  <2> DEFINE v == step[<<f[k], k + 1>>]
             g == [i \in 0..(k + 1) |-> IF i = k + 1 THEN v ELSE f[i]]
  <2>4. v \in V
    BY <2>3
  <2> HIDE DEF v
  <2>5. g \in [0..(k + 1) -> V] /\ g[0] = b /\ g[k + 1] = v
    BY <2>2, <2>4
  <2>6. \A i \in 0..k : g[i] = f[i]
    OBVIOUS
  <2>7. ASSUME NEW i \in 1..(k + 1) PROVE g[i] = step[<<g[i - 1], i>>]
    <3>1. CASE i = k + 1
      <4>1. g[i - 1] = f[k] /\ g[i] = v
        BY <2>5, <2>6, <3>1
      <4>2. QED BY <3>1, <4>1 DEF v
    <3>2. CASE i # k + 1
      <4>1. i \in 1..k /\ i - 1 \in 0..k /\ i \in 0..k
        BY <3>2
      <4>2. f[i] = step[<<f[i - 1], i>>]
        BY <2>2, <4>1
      <4>3. QED BY <2>6, <4>1, <4>2
    <3>3. QED BY <3>1, <3>2
  <2>8. Is(g, k + 1)
    <3> HIDE DEF g
    <3>1. QED BY <2>5, <2>7
  <2>9. QED BY <2>8
<1>3. \A k \in Nat : k \in S
  <2> HIDE DEF S
  <2>1. QED BY <1>1, <1>2, NatSet
<1>4. PICK f : Is(f, n)
  <2> HIDE DEF Is
  <2>1. n \in S
    <3> HIDE DEF S
    <3>1. QED BY <1>3
  <2>2. QED BY <2>1
<1>5. QED BY <1>4 DEF Iterates

(* The loop goes from place to place. *)
LEMMA CollectedSteps ==
  ASSUME NEW A, NEW s \in Seq(A), NEW P
  PROVE  \E f : /\ f[0] = <<>>
                /\ \A i \in 1..Len(s) : f[i] = IF i \in P THEN Append(f[i - 1], s[i]) ELSE f[i - 1]
                /\ Collected(s, P) = f[Len(s)]
<1> DEFINE n == Len(s)
           Body(f) == [i \in 0..n |-> IF i = 0 THEN <<>>
                                      ELSE IF i \in P THEN Append(f[i - 1], s[i]) ELSE f[i - 1]]
           step == [p \in Seq(A) \X (1..n) |-> IF p[2] \in P THEN Append(p[1], s[p[2]]) ELSE p[1]]
<1>1. n \in Nat /\ <<>> \in Seq(A) /\ \A i \in 1..n : s[i] \in A
  OBVIOUS
<1>2. step \in [Seq(A) \X (1..n) -> Seq(A)]
  <2>1. ASSUME NEW p \in Seq(A) \X (1..n) PROVE step[p] \in Seq(A)
    OBVIOUS
  <2>2. QED BY <2>1
<1>3. PICK g \in [0..n -> Seq(A)] : g[0] = <<>> /\ \A i \in 1..n : g[i] = step[<<g[i - 1], i>>]
  <2> DEFINE V == Seq(A)
             b == <<>>
  <2>1. n \in Nat /\ b \in V /\ step \in Steps(V, n)
    BY <1>1, <1>2 DEF Steps
  <2> HIDE DEF step, n, V, b
  <2>2. PICK g : Iterates(g, n, V, b, step)
    BY <2>1, Recursion
  <2>3. QED BY <2>2 DEF Iterates, V, b
<1>4. g = Body(g)
  <2>1. ASSUME NEW i \in 0..n PROVE g[i] = Body(g)[i]
    <3>1. CASE i = 0
      BY <1>3, <3>1
    <3>2. CASE i # 0
      <4>1. i \in 1..n /\ i - 1 \in 0..n
        BY <3>2, <1>1
      <4>2. g[i - 1] \in Seq(A)
        BY <4>1
      <4>3. g[i] = IF i \in P THEN Append(g[i - 1], s[i]) ELSE g[i - 1]
        BY <1>3, <4>1, <4>2
      <4>4. QED BY <3>2, <4>3
    <3>3. QED BY <3>1, <3>2
  <2>2. QED BY <2>1
<1>5. PICK f : f = CHOOSE h : h = Body(h)
  OBVIOUS
<1>6. f = Body(f)
  <2> HIDE DEF Body
  <2>1. QED BY <1>4, <1>5
<1>7. Collected(s, P) = f[n]
  BY <1>5 DEF Collected
<1>8. f[0] = <<>> /\ \A i \in 1..n : f[i] = IF i \in P THEN Append(f[i - 1], s[i]) ELSE f[i - 1]
  <2>1. 0 \in 0..n /\ \A i \in 1..n : i \in 0..n /\ i # 0
    BY <1>1
  <2>2. QED BY <1>6, <2>1
<1>9. QED BY <1>7, <1>8

(* There are n numbers from 1 to n. *)
LEMMA IntervalCount ==
  ASSUME NEW n \in Nat PROVE IsFiniteSet(1..n) /\ Cardinality(1..n) = n
<1>1. 1 \in Int /\ n \in Int
  OBVIOUS
<1>2. Cardinality(1..n) = IF 1 > n THEN 0 ELSE n - 1 + 1
  BY <1>1, FS_Interval
<1>3. QED BY <1>1, <1>2, FS_Interval

Upto(P, i) == {k \in P : k <= i}

(* The taken places up to the next one, counted. *)
LEMMA UptoGrows ==
  ASSUME NEW n \in Nat, NEW P \in SUBSET (1..n), NEW k \in 0..(n - 1)
  PROVE  /\ Upto(P, 0) = {} /\ Cardinality(Upto(P, 0)) = 0
         /\ Upto(P, n) = P
         /\ IsFiniteSet(Upto(P, k)) /\ Cardinality(Upto(P, k)) \in Nat
         /\ k + 1 \in P => Cardinality(Upto(P, k + 1)) = Cardinality(Upto(P, k)) + 1
         /\ k + 1 \notin P => Upto(P, k + 1) = Upto(P, k)
<1>0. \A m \in P : m \in Int /\ 1 <= m /\ m <= n
  OBVIOUS
<1>1. Upto(P, 0) = {} /\ Cardinality(Upto(P, 0)) = 0
  <2>1. \A i \in P : ~(i <= 0)
    BY <1>0
  <2>2. Upto(P, 0) = {}
    BY <2>1 DEF Upto
  <2>3. QED BY <2>2, FS_EmptySet
<1>2. IsFiniteSet(Upto(P, k)) /\ Cardinality(Upto(P, k)) \in Nat
  <2>1. IsFiniteSet(1..n)
    <3>1. 1 \in Int /\ n \in Int
      OBVIOUS
    <3>2. QED BY <3>1, FS_Interval
  <2>2. Upto(P, k) \subseteq 1..n
    BY DEF Upto
  <2>3. QED BY <2>1, <2>2, FS_Subset, FS_CardinalityType
<1>3. k + 1 \in P => Cardinality(Upto(P, k + 1)) = Cardinality(Upto(P, k)) + 1
  <2>1. k + 1 \in P => Upto(P, k + 1) = Upto(P, k) \cup {k + 1} /\ k + 1 \notin Upto(P, k)
    <3>1. \A i \in P : i <= k + 1 <=> i <= k \/ i = k + 1
      BY <1>0
    <3>2. k + 1 <= k + 1 /\ ~(k + 1 <= k)
      OBVIOUS
    <3>3. QED BY <3>1, <3>2 DEF Upto
  <2>2. QED BY <1>2, <2>1, FS_AddElement
<1>4. k + 1 \notin P => Upto(P, k + 1) = Upto(P, k)
  <2>1. k + 1 \notin P => \A i \in P : i <= k + 1 <=> i <= k
    BY <1>0
  <2>2. QED BY <2>1 DEF Upto
<1>5. Upto(P, n) = P
  BY <1>0 DEF Upto
<1>6. QED BY <1>1, <1>2, <1>3, <1>4, <1>5

(* The loop collects the taken elements, each once and in their order: the  *)
(* j-th collected is the one at the taken place with j taken places up to it. *)
LEMMA CollectedPlaces ==
  ASSUME NEW A, NEW s \in Seq(A), NEW P \in SUBSET (1..Len(s))
  PROVE  /\ Collected(s, P) \in Seq(A)
         /\ Len(Collected(s, P)) = Cardinality(P)
         /\ \A i \in P : /\ Cardinality(Upto(P, i)) \in 1..Cardinality(P)
                         /\ Collected(s, P)[Cardinality(Upto(P, i))] = s[i]
         /\ \A j \in 1..Cardinality(P) : \E i \in P : Cardinality(Upto(P, i)) = j
<1> DEFINE n == Len(s)
<1>0. \A k \in P : k \in Int /\ 1 <= k /\ k <= n
  OBVIOUS
<1>1. n \in Nat /\ \A i \in 1..n : s[i] \in A
  OBVIOUS
<1>2. PICK f : /\ f[0] = <<>>
               /\ \A i \in 1..n : f[i] = IF i \in P THEN Append(f[i - 1], s[i]) ELSE f[i - 1]
               /\ Collected(s, P) = f[n]
  BY CollectedSteps
<1> DEFINE c(k) == Cardinality(Upto(P, k))
           Good(k) == /\ f[k] \in Seq(A) /\ Len(f[k]) = c(k) /\ c(k) \in Nat
                      /\ \A i \in Upto(P, k) : c(i) \in 1..c(k) /\ f[k][c(i)] = s[i]
                      /\ \A j \in 1..c(k) : \E i \in Upto(P, k) : c(i) = j
           S == {k \in Nat : k <= n => Good(k)}
<1> HIDE DEF n
<1>3. 0 \in S
  <2>1. Good(0)
    <3>1. Upto(P, 0) = {} /\ c(0) = 0
      <4>1. \A i \in P : ~(i <= 0)
        BY <1>0
      <4>2. Upto(P, 0) = {}
        BY <4>1 DEF Upto
      <4>3. QED BY <4>2, FS_EmptySet
    <3>2. QED BY <1>2, <3>1
  <2>2. QED BY <2>1
<1>4. ASSUME NEW k \in Nat, k \in S PROVE k + 1 \in S
  <2>1. SUFFICES ASSUME k + 1 <= n PROVE Good(k + 1)
    OBVIOUS
  <2>2. Good(k)
    BY <1>1, <1>4, <2>1
  <2>3. k \in 0..(n - 1) /\ k + 1 \in 1..n /\ (k + 1) - 1 = k /\ P \in SUBSET (1..n)
    BY <1>1, <2>1 DEF n
  <2>4. /\ k + 1 \in P => c(k + 1) = c(k) + 1
        /\ k + 1 \notin P => Upto(P, k + 1) = Upto(P, k)
    BY <1>1, <2>3, UptoGrows
  <2>5. CASE k + 1 \in P
    <3>1. f[k + 1] = Append(f[k], s[k + 1]) /\ s[k + 1] \in A
      BY <1>1, <1>2, <2>3, <2>5
    <3>2. Upto(P, k + 1) = Upto(P, k) \cup {k + 1}
      <4>1. \A i \in P : i <= k + 1 <=> i <= k \/ i = k + 1
        BY <1>0
      <4>2. k + 1 <= k + 1
        OBVIOUS
      <4>3. QED BY <2>5, <4>1, <4>2 DEF Upto
    <3> HIDE DEF c
    <3>3. /\ f[k + 1] \in Seq(A) /\ Len(f[k + 1]) = c(k) + 1
          /\ f[k + 1][c(k) + 1] = s[k + 1]
          /\ \A j \in 1..c(k) : f[k + 1][j] = f[k][j]
      BY <2>2, <3>1
    <3>4. c(k + 1) = c(k) + 1
      BY <2>4, <2>5
    <3>5. \A i \in Upto(P, k + 1) : c(i) \in 1..c(k + 1) /\ f[k + 1][c(i)] = s[i]
      <4>1. ASSUME NEW i \in Upto(P, k) PROVE c(i) \in 1..c(k + 1) /\ f[k + 1][c(i)] = s[i]
        BY <2>2, <3>3, <3>4
      <4>2. c(k + 1) \in 1..c(k + 1) /\ f[k + 1][c(k + 1)] = s[k + 1]
        BY <2>2, <3>3, <3>4
      <4>3. QED BY <3>2, <4>1, <4>2
    <3>6. \A j \in 1..c(k + 1) : \E i \in Upto(P, k + 1) : c(i) = j
      <4>1. ASSUME NEW j \in 1..c(k + 1) PROVE \E i \in Upto(P, k + 1) : c(i) = j
        <5>1. j \in 1..c(k) \/ j = c(k + 1)
          BY <2>2, <3>4
        <5>2. QED BY <2>2, <3>2, <5>1
      <4>2. QED BY <4>1
    <3>7. QED BY <2>2, <3>3, <3>4, <3>5, <3>6
  <2>6. CASE k + 1 \notin P
    <3>1. f[k + 1] = f[k] /\ Upto(P, k + 1) = Upto(P, k)
      BY <1>2, <2>3, <2>4, <2>6
    <3>2. QED BY <2>2, <3>1
  <2>7. QED BY <2>5, <2>6
<1>5. Good(n)
  <2>1. \A k \in Nat : k \in S
    <3> HIDE DEF S
    <3>1. QED BY <1>3, <1>4, NatSet
  <2>2. QED BY <1>1, <2>1
<1>6. Upto(P, n) = P
  BY <1>0 DEF Upto
<1>7. QED BY <1>2, <1>5, <1>6

(* What is collected is one of the elements that were taken. *)
LEMMA CollectedTaken ==
  ASSUME NEW A, NEW s \in Seq(A), NEW P \in SUBSET (1..Len(s))
  PROVE  /\ IsFiniteSet(P) /\ Len(Collected(s, P)) <= Len(s)
         /\ \A j \in DOMAIN Collected(s, P) : \E i \in P : Collected(s, P)[j] = s[i]
<1>1. IsFiniteSet(1..Len(s)) /\ Cardinality(1..Len(s)) = Len(s) /\ Len(s) \in Nat
  BY IntervalCount
<1>2. IsFiniteSet(P) /\ Cardinality(P) <= Len(s)
  BY <1>1, FS_Subset
<1>3. Collected(s, P) \in Seq(A) /\ Len(Collected(s, P)) = Cardinality(P)
  BY CollectedPlaces
<1>4. ASSUME NEW j \in DOMAIN Collected(s, P) PROVE \E i \in P : Collected(s, P)[j] = s[i]
  <2>1. j \in 1..Cardinality(P)
    BY <1>3
  <2>2. PICK i \in P : Cardinality(Upto(P, i)) = j
    BY <2>1, CollectedPlaces
  <2>3. QED BY <2>2, CollectedPlaces
<1>5. QED BY <1>2, <1>3, <1>4

(* When all are taken, what is collected is what there was. *)
LEMMA CollectedAll ==
  ASSUME NEW A, NEW s \in Seq(A) PROVE Collected(s, 1..Len(s)) = s
<1> DEFINE n == Len(s)
           C == Collected(s, 1..n)
<1>1. n \in Nat /\ IsFiniteSet(1..n) /\ Cardinality(1..n) = n
  BY IntervalCount
<1>2. ASSUME NEW i \in 1..n PROVE C[i] = s[i]
  <2>1. Upto(1..n, i) = 1..i
    BY <1>1 DEF Upto
  <2>2. Cardinality(1..i) = i
    BY IntervalCount
  <2>3. QED BY <2>1, <2>2, CollectedPlaces
<1>3. C \in Seq(A) /\ Len(C) = n
  BY <1>1, CollectedPlaces
<1> HIDE DEF C
<1>4. C = s
  BY <1>2, <1>3
<1>5. QED BY <1>4 DEF C
-----------------------------------------------------------------------------
(* Division rounds down. *)
LEMMA DivFacts ==
  ASSUME NEW a \in Nat, NEW b \in Nat \ {0}
  PROVE  /\ a \div b \in Nat /\ b * (a \div b) <= a /\ a < b * (a \div b) + b
OBVIOUS

(* The share in tenths of a percent, rounded to the nearest. *)
IsShare(x, correct, total) ==
  x = Tenths(correct, total) /\ 2 * (x * total - 1000 * correct) \in -total..total

(* The score is that share, from none to all.                               *)
LEMMA TenthsRound ==
  ASSUME NEW total \in Nat \ {0}, NEW correct \in 0..total
  PROVE  \E x \in 0..1000 : IsShare(x, correct, total)
<1>1. PICK a \in Nat : a = 2000 * correct + total
  OBVIOUS
<1>2. PICK b \in Nat \ {0} : b = 2 * total
  OBVIOUS
<1>3. PICK x \in Nat : x = Tenths(correct, total) /\ b * x <= a /\ a < b * x + b
  BY <1>1, <1>2, DivFacts DEF Tenths
<1>4. PICK y \in Nat : y = x * total
  OBVIOUS
<1>5. b * x = 2 * y
  BY <1>2, <1>4
<1>6. 2 * (y - 1000 * correct) \in -total..total
  BY <1>1, <1>2, <1>3, <1>5
<1>7. x <= 1000
  <2>1. SUFFICES ASSUME x >= 1001 PROVE FALSE
    OBVIOUS
  <2>2. y >= 1001 * total
    BY <1>4, <2>1
  <2>3. QED BY <1>1, <1>2, <1>3, <1>5, <2>2
<1>8. x \in 0..1000
  BY ONLY <1>7
<1>9. 2 * (x * total - 1000 * correct) \in -total..total
  BY ONLY <1>4, <1>6
<1>10. x = Tenths(correct, total)
  BY <1>3
<1>11. IsShare(x, correct, total)
  BY ONLY <1>9, <1>10 DEF IsShare
<1>12. QED BY ONLY <1>8, <1>11

(* As many of the numbers from 1 to n as of the numbers before them.        *)
LEMMA ShiftCount ==
  ASSUME NEW n \in Nat, NEW X \in SUBSET (1..n), NEW Y, Y = {q \in 0..(n - 1) : q + 1 \in X}
  PROVE  /\ IsFiniteSet(X) /\ IsFiniteSet(Y) /\ Cardinality(X) = Cardinality(Y)
         /\ Cardinality(X) \in 0..n
<1>1. IsFiniteSet(1..n) /\ Cardinality(1..n) = n
  <2>1. 1 \in Int /\ n \in Int
    OBVIOUS
  <2>2. QED BY <2>1, FS_Interval
<1>2. IsFiniteSet(X) /\ Cardinality(X) <= n /\ Cardinality(X) \in Nat
  BY <1>1, FS_Subset, FS_CardinalityType
<1> DEFINE f == [i \in X |-> i - 1]
<1>3. f \in Bijection(X, Y)
  <2>1. \A i \in X : i \in Int /\ 1 <= i /\ i <= n
    OBVIOUS
  <2>2. f \in [X -> Y]
    BY <2>1
  <2>3. \A i, k \in X : f[i] = f[k] => i = k
    BY <2>1
  <2>4. \A q \in Y : \E i \in X : f[i] = q
    <3>1. ASSUME NEW q \in Y PROVE \E i \in X : f[i] = q
      <4>1. q + 1 \in X /\ (q + 1) - 1 = q
        OBVIOUS
      <4>2. QED BY <4>1
    <3>2. QED BY <3>1
  <2> HIDE DEF f
  <2>5. QED BY <2>2, <2>3, <2>4 DEF Bijection, Injection, Surjection, IsInjective
<1>4. IsFiniteSet(Y) /\ Cardinality(X) = Cardinality(Y)
  BY <1>2, <1>3, FS_Bijection DEF ExistsBijection
<1>5. QED BY <1>2, <1>4

-----------------------------------------------------------------------------
(* A set of places of a list that is not empty has a last one. *)
LEMMA NewestExists ==
  ASSUME NEW n \in Nat, NEW T \in SUBSET (1..n), T # {}
  PROVE  \E t \in T : \A k \in T : k <= t
<1> DEFINE Later(t) == {k \in T : k > t}
           D == {L \in SUBSET T : \E t \in T : L = Later(t)}
<1>1. IsFiniteSet(T)
  <2>1. IsFiniteSet(1..n) /\ T \subseteq 1..n
    BY FS_Interval
  <2>2. QED BY <2>1, FS_Subset
<1>2. D \subseteq FiniteSubsetsOf(T) /\ D # {}
  <2>1. D \subseteq FiniteSubsetsOf(T)
    BY <1>1, FS_Subset DEF FiniteSubsetsOf
  <2>2. PICK t \in T : TRUE
    OBVIOUS
  <2>3. Later(t) \in D
    OBVIOUS
  <2>4. QED BY <2>1, <2>3
<1>3. PICK L \in D : \A M \in D : ~(<<M, L>> \in StrictSubsetOrdering(T))
  <2>1. IsWellFoundedOn(StrictSubsetOrdering(T), FiniteSubsetsOf(T))
    BY FS_StrictSubsetOrderingWellFounded
  <2> HIDE DEF D
  <2>2. QED BY <1>2, <2>1, WFMin
<1>4. PICK t \in T : L = Later(t)
  OBVIOUS
<1>5. ASSUME NEW k \in T, k > t PROVE FALSE
  <2>1. k \in Int /\ t \in Int /\ \A i \in T : i \in Int
    OBVIOUS
  <2>2. \A i \in Later(k) : i \in Later(t)
    BY <1>5, <2>1
  <2>3. k \in Later(t) /\ k \notin Later(k)
    BY <1>5, <2>1
  <2>4. Later(k) \in D
    OBVIOUS
  <2>5. Later(k) \in SUBSET T /\ Later(t) \in SUBSET T
    OBVIOUS
  <2>6. <<Later(k), L>> \in StrictSubsetOrdering(T)
    <3> HIDE DEF Later
    <3>1. QED BY <1>4, <2>2, <2>3, <2>5 DEF StrictSubsetOrdering
  <2>7. QED BY <1>3, <2>4, <2>6
<1>6. \A k \in T : k <= t
  <2>1. ASSUME NEW k \in T PROVE k <= t
    <3>1. k \in Int /\ t \in Int
      OBVIOUS
    <3>2. QED BY <1>5, <3>1
  <2>2. QED BY <2>1
<1>7. QED BY <1>6

-----------------------------------------------------------------------------
(* The stored tests are a sequence, of whatever values. *)
StoredIsSeq == \E S : stored \in Seq(S)

(* What the page's own state keeps to: the list read is one of the server's, *)
(* and the mutation observed is a submission.                               *)
PageInOrder ==
  /\ StoredIsSeq
  /\ polled \in 0..Len(stored)
  /\ chosen \in [pdf : Pdfs \cup {NoPdf}, count : Counts]
  /\ DOMAIN submission = {"status", "test", "sent", "graded"}

(* The test of a session was in the list when it began.  While it still is,  *)
(* nothing else is waited for and it is what was asked for; once it has left *)
(* the list it does not come back, whatever is asked for next.              *)
SessionListed ==
  /\ awaiting => request # NoRequest /\ request.order = asked /\ asked # NoOrder
  /\ started => active \in 1..polled
  /\ started /\ active \in List => ~awaiting /\ asked # NoOrder /\ Fits(active, asked)

PInv ==
  /\ PageInOrder
  /\ SessionListed
  /\ ResultIsOfSession

(* The list holds places of stored tests. *)
LEMMA ListStored ==
  ASSUME PageInOrder
  PROVE  polled \in Nat /\ List \subseteq 1..polled /\ List \subseteq DOMAIN stored
<1>1. PICK S : stored \in Seq(S)
  BY DEF PageInOrder, StoredIsSeq
<1>2. Len(stored) \in Nat /\ DOMAIN stored = 1..Len(stored)
  BY <1>1
<1>3. QED BY <1>2 DEF PageInOrder, List

(* find takes a test of those it is given. *)
LEMMA NewestIsOne ==
  ASSUME PageInOrder, NEW T \in SUBSET List, T # {} PROVE Newest(T) \in T
<1>1. \E t \in T : \A k \in T : k <= t
  BY ListStored, NewestExists
<1>2. QED BY <1>1 DEF Newest

(* A test that is stored takes no other's place. *)
LEMMA StoreKeeps ==
  ASSUME PageInOrder, NEW p \in Pdfs, NEW reply \in Replies, StoreTest(p, reply)
  PROVE  /\ StoredIsSeq' /\ polled \in 0..Len(stored')
         /\ \A t \in DOMAIN stored : t \in DOMAIN stored' /\ stored'[t] = stored[t]
<1> DEFINE e == [pdf |-> p, questions |-> tryParseQuestions(reply)]
<1>1. PICK S : stored \in Seq(S)
  BY DEF PageInOrder, StoredIsSeq
<1>2. stored' = Append(stored, e)
  BY DEF StoreTest
<1> HIDE DEF e
<1>3. stored \in Seq(S \cup {e}) /\ e \in S \cup {e}
  BY <1>1
<1>4. /\ stored' \in Seq(S \cup {e}) /\ Len(stored') = Len(stored) + 1 /\ Len(stored) \in Nat
      /\ \A t \in 1..Len(stored) : stored'[t] = stored[t]
      /\ DOMAIN stored = 1..Len(stored) /\ DOMAIN stored' = 1..Len(stored')
  BY <1>2, <1>3
<1>5. StoredIsSeq'
  BY <1>4 DEF StoredIsSeq
<1>6. QED BY <1>4, <1>5 DEF PageInOrder

(* A test that is in the list is the one the page finds. *)
LEMMA ActiveListed ==
  ASSUME PageInOrder PROVE activeTest # NoTest <=> active \in List
<1>1. \A t \in List : t \in Nat
  BY ListStored
<1>2. QED BY <1>1, NoTestAssumption DEF activeTest

(* The test of a session, and of what was submitted in it, is stored. *)
LEMMA SessionStored ==
  ASSUME PInv
  PROVE  /\ started => active \in DOMAIN stored
         /\ submission.status # "idle" => submission.test \in DOMAIN stored
<1>1. 1..polled \subseteq DOMAIN stored
  <2>1. PICK S : stored \in Seq(S)
    BY DEF PInv, PageInOrder, StoredIsSeq
  <2>2. Len(stored) \in Nat /\ DOMAIN stored = 1..Len(stored) /\ polled \in 0..Len(stored)
    BY <2>1 DEF PInv, PageInOrder
  <2>3. QED BY <2>2
<1>2. QED BY <1>1 DEF PInv, SessionListed, ResultIsOfSession

(* What is shown is in the list. *)
LEMMA ListedIsAsked == PInv => SessionIsAsAsked
BY ActiveListed DEF PInv, SessionListed, SessionIsAsAsked, Shown

(* What can be started of the panel's selection is an order. *)
LEMMA StartIsOrder ==
  ASSUME PageInOrder, MayStart
  PROVE  chosen \in Orders /\ chosen # NoOrder
BY NoOrderAssumption DEF PageInOrder, MayStart, Orders

(* The initial state satisfies the invariant. *)
LEMMA PInit == Init => PInv
<1> SUFFICES ASSUME Init PROVE PInv
  OBVIOUS
<1>1. stored \in Seq({}) /\ Len(stored) = 0 /\ polled = 0
  BY DEF Init
<1>2. PageInOrder
  BY <1>1 DEF Init, PageInOrder, StoredIsSeq, NotSubmitted
<1>3. QED BY <1>2 DEF Init, PInv, SessionListed, ResultIsOfSession, NotSubmitted

(* A session begins with a test of the list that fits what was asked for,   *)
(* without a submission, and ends the wait.                                 *)
LEMMA SessionBegins ==
  ASSUME PInv, NEW t \in List, initializeTestSession(t), Fits(t, asked'), asked' # NoOrder,
         UNCHANGED <<stored, polled, chosen>>, ~awaiting'
  PROVE  PInv'
<1>1. PageInOrder'
  BY DEF PInv, PageInOrder, StoredIsSeq, initializeTestSession, NotSubmitted
<1>2. SessionListed'
  BY ListStored DEF PInv, SessionListed, initializeTestSession, Fits, Total, List
<1>3. ResultIsOfSession'
  BY DEF ResultIsOfSession, initializeTestSession, NotSubmitted
<1>4. QED BY <1>1, <1>2, <1>3 DEF PInv

(* Every step keeps the invariant. *)
LEMMA PNext == PInv /\ [Next]_vars => PInv'
<1> SUFFICES ASSUME PInv, [Next]_vars PROVE PInv'
  OBVIOUS
<1>1. ASSUME NEW p \in Pdfs, NEW reply \in Replies, StoreTest(p, reply) PROVE PInv'
  <2>1. /\ StoredIsSeq' /\ polled \in 0..Len(stored')
        /\ \A t \in DOMAIN stored : t \in DOMAIN stored' /\ stored'[t] = stored[t]
    BY <1>1, StoreKeeps DEF PInv
  <2>2. UNCHANGED <<polled, page, session, submission>>
    BY <1>1 DEF StoreTest
  <2>3. List' = List /\ List \subseteq DOMAIN stored
    BY <2>2, ListStored DEF List, PInv
  <2>4. QED BY <2>1, <2>2, <2>3 DEF PInv, PageInOrder, SessionListed, ResultIsOfSession, page,
           session, Fits, Total
<1>2. CASE Poll
  <2>1. UNCHANGED <<stored, page, session, submission>> /\ polled' = Len(stored)
    BY <1>2 DEF Poll
  <2>2. PICK m \in Nat : m = Len(stored) /\ polled \in 0..m
    BY DEF PInv, PageInOrder, StoredIsSeq
  <2>3. PageInOrder'
    BY <2>1, <2>2 DEF PInv, PageInOrder, StoredIsSeq, page
  <2>4. \A t \in 1..polled : t \in 1..polled' /\ (t \in List' => t \in List)
    BY <2>1, <2>2, BoundsAssumption DEF List
  <2>5. SessionListed'
    BY <2>1, <2>4 DEF PInv, SessionListed, page, session, Fits, Total
  <2>6. QED BY <2>1, <2>3, <2>5 DEF PInv, ResultIsOfSession, session
<1>3. ASSUME NEW p \in Pdfs \cup {NoPdf}, NEW n \in Counts, Choose(p, n)
      PROVE  PInv'
  <2>1. /\ chosen' \in [pdf : Pdfs \cup {NoPdf}, count : Counts]
        /\ UNCHANGED <<stored, polled, awaiting, request, asked, session, submission>>
    BY <1>3 DEF Choose
  <2>2. QED BY <2>1 DEF PInv, PageInOrder, StoredIsSeq, SessionListed, ResultIsOfSession, session,
           List, Fits, Total
<1>4. CASE Restart
  <2>1. active \in List /\ Fits(active, asked) /\ asked # NoOrder /\ ~awaiting
    BY <1>4, ActiveListed DEF Restart, PInv, SessionListed
  <2>2. QED BY <1>4, <2>1, SessionBegins DEF Restart, page
<1>5. CASE StartExisting
  <2>1. /\ Newest(Fitting(chosen)) \in List
        /\ Fits(Newest(Fitting(chosen)), chosen)
    BY <1>5, NewestIsOne DEF StartExisting, Fitting, PInv
  <2>2. chosen # NoOrder /\ ~awaiting
    BY <1>5, StartIsOrder DEF StartExisting, MayStart, isBusy, PInv
  <2>3. QED BY <1>5, <2>1, <2>2, SessionBegins DEF StartExisting
<1>6. CASE StartGenerating
  <2>1. /\ request' = [order |-> chosen, existing |-> List] /\ asked' = chosen
        /\ UNCHANGED <<stored, polled, chosen, session, submission>>
    BY <1>6 DEF StartGenerating
  <2>2. request' # NoRequest /\ asked' # NoOrder
    <3>1. chosen \in Orders /\ chosen # NoOrder /\ List \in SUBSET Nat
      BY <1>6, StartIsOrder, ListStored DEF StartGenerating, PInv
    <3>2. request' \in [order : Orders, existing : SUBSET Nat]
      BY <2>1, <3>1
    <3>3. QED BY <2>1, <3>1, <3>2, NoRequestAssumption
  <2>3. started => active \notin List
    BY <1>6, ActiveListed DEF StartGenerating, PInv
  <2>4. SessionListed'
    BY <2>1, <2>2, <2>3 DEF PInv, SessionListed, session, List
  <2>5. QED BY <2>1, <2>4 DEF PInv, PageInOrder, StoredIsSeq, ResultIsOfSession, session
<1>7. CASE GenerateAccepted \/ GenerateRefused \/ TimeoutEffect \/ WaitRunsOut
  <2>1. UNCHANGED <<stored, polled, chosen, session, submission>>
    BY <1>7 DEF GenerateAccepted, GenerateRefused, TimeoutEffect, WaitRunsOut
  <2>2. SessionListed'
    BY <1>7, <2>1 DEF GenerateAccepted, GenerateRefused, TimeoutEffect, WaitRunsOut, GiveUp,
       StopWaiting, PInv, SessionListed, session, List, Fits, Total
  <2>3. QED BY <2>1, <2>2 DEF PInv, PageInOrder, StoredIsSeq, ResultIsOfSession, session
<1>8. CASE MatchEffect
  <2> DEFINE found == Fitting(request.order) \ request.existing
  <2>1. request.order = asked /\ asked # NoOrder
    BY <1>8 DEF MatchEffect, PInv, SessionListed
  <2>2. Newest(found) \in List /\ Fits(Newest(found), asked)
    BY <1>8, <2>1, NewestIsOne DEF MatchEffect, Fitting, PInv
  <2>3. QED BY <1>8, <2>1, <2>2, SessionBegins DEF MatchEffect, StopWaiting
<1>9. CASE \/ \E o \in Picks : SelectOption(o)
           \/ PreviousQuestion \/ NextQuestion \/ Tick \/ RenderSubmission
  BY <1>9 DEF SelectOption, PreviousQuestion, NextQuestion, Move, Tick, RenderSubmission, PInv,
     PageInOrder, StoredIsSeq, SessionListed, ResultIsOfSession, page, session, List, Fits, Total
<1>10. CASE SubmitLast \/ SubmitExpired
  <2>1. started /\ handleSubmit
    BY <1>10 DEF SubmitLast, SubmitExpired, Shown
  <2>2. UNCHANGED <<stored, polled, page, session>>
    BY <2>1 DEF handleSubmit
  <2>3. PageInOrder'
    <3>1. DOMAIN submission' = {"status", "test", "sent", "graded"}
      BY <2>1 DEF handleSubmit
    <3>2. QED BY <2>2, <3>1 DEF PInv, PageInOrder, StoredIsSeq, page
  <2>4. SessionListed'
    BY <2>2 DEF PInv, SessionListed, page, session, List, Fits, Total
  <2>5. ResultIsOfSession'
    BY <2>1, <2>2 DEF handleSubmit, ResultIsOfSession, session
  <2>6. QED BY <2>3, <2>4, <2>5 DEF PInv
<1>11. CASE Graded \/ SubmitFails
  <2>1. /\ isSubmitting /\ UNCHANGED <<stored, polled, page, session>>
        /\ DOMAIN submission' = DOMAIN submission /\ submission'.test = submission.test
    BY <1>11 DEF Graded, SubmitFails, PInv, PageInOrder
  <2>2. QED BY <2>1 DEF isSubmitting, PInv, PageInOrder, StoredIsSeq, SessionListed,
           ResultIsOfSession, page, session, List, Fits, Total
<1>12. CASE UNCHANGED vars
  BY <1>12 DEF vars, page, session, PInv, PageInOrder, StoredIsSeq, SessionListed,
     ResultIsOfSession, List, Fits, Total
<1>13. ASSUME NEW p \in Pdfs \cup {NoPdf}, handleTogglePdf(p) \/ SelectReady(p) PROVE PInv'
  BY <1>3, <1>13 DEF handleTogglePdf, SelectReady, PInv, PageInOrder
<1>14. ASSUME NEW n \in Counts, setQuestionCount(n) PROVE PInv'
  BY <1>3, <1>14 DEF setQuestionCount, PInv, PageInOrder
<1>15. QED
  BY <1>1, <1>2, <1>4, <1>5, <1>6, <1>7, <1>8, <1>9, <1>10, <1>11, <1>12, <1>13, <1>14 DEF Next

-----------------------------------------------------------------------------
(* The invariant holds in every reachable state. *)
THEOREM PSafety == Spec => []PInv
<1>1. QED BY PInit, PNext, PTL DEF Spec

(* However long it was waited for, whatever was stored and however the      *)
(* selection changed meanwhile, the session that is shown is of the PDF and *)
(* the number of questions the user last started one of.                    *)
THEOREM SessionFits == Spec => []SessionIsAsAsked
<1>1. QED BY PSafety, ListedIsAsked, PTL

(* A score or an error that is shown belongs to the session that runs. *)
THEOREM ScoreIsOfSession == Spec => []ResultIsOfSession
<1>1. QED BY PSafety, PTL DEF PInv

-----------------------------------------------------------------------------
(* What a reply is parsed to. *)

(* A record of a list's elements is a list. *)
LEMMA ListIsSeq ==
  ASSUME NEW s, IsList(s) PROVE s \in Seq({s[i] : i \in 1..Len(s)}) /\ DOMAIN s = 1..Len(s)
<1> DEFINE A == {s[i] : i \in 1..Len(s)}
<1>1. PICK n \in Nat : n = Len(s)
  BY DEF IsList
<1>2. s = [i \in 1..n |-> s[i]] /\ \A i \in 1..n : s[i] \in A
  BY <1>1 DEF IsList
<1> HIDE DEF A
<1>3. s \in [1..n -> A]
  BY <1>2
<1>4. s \in Seq(A)
  BY <1>3
<1>5. QED BY <1>1, <1>2, <1>4 DEF A

(* What is not blank of a question's options is again a list. *)
LEMMA NonBlankIsSeq ==
  ASSUME NEW options, IsList(options)
  PROVE  Len(NonBlank(options)) \in Nat /\ DOMAIN NonBlank(options) = 1..Len(NonBlank(options))
<1> DEFINE P == {i \in DOMAIN options : options[i] # Blank}
<1>1. PICK A : options \in Seq(A) /\ DOMAIN options = 1..Len(options)
  BY ListIsSeq
<1>2. P \in SUBSET (1..Len(options)) /\ NonBlank(options) = Collected(options, P)
  BY <1>1 DEF NonBlank
<1> HIDE DEF P
<1>3. Collected(options, P) \in Seq(A)
  BY <1>1, <1>2, CollectedPlaces
<1>4. QED BY <1>2, <1>3

(* The questions taken from a reply are a list, no longer than the reply,   *)
(* and each of them has four options and names one as correct.              *)
LEMMA ParsedQuestions ==
  ASSUME NEW reply, reply = Garbled \/ IsList(reply)
  PROVE  LET q == tryParseQuestions(reply) IN
         /\ \E S : q \in Seq(S)
         /\ Len(q) \in Nat /\ (reply # Garbled => Len(q) <= Len(reply)) /\ (reply = Garbled => q = <<>>)
         /\ \A i \in DOMAIN q : /\ Len(q[i].options) = OptionCount
                                /\ q[i].correctAnswer \in 0..(OptionCount - 1)
<1>1. CASE reply = Garbled
  <2>1. tryParseQuestions(reply) = <<>>
    BY <1>1 DEF tryParseQuestions
  <2>2. <<>> \in Seq({}) /\ Len(<<>>) = 0 /\ DOMAIN <<>> = {}
    OBVIOUS
  <2>3. QED BY <1>1, <2>1, <2>2
<1>2. CASE reply # Garbled
  <2> DEFINE P == {i \in DOMAIN reply : Keeps(reply[i])}
             kept == Collected(reply, P)
             q == [i \in 1..Len(kept) |-> Question(kept[i])]
  <2>1. PICK A : reply \in Seq(A) /\ DOMAIN reply = 1..Len(reply)
    BY <1>2, ListIsSeq
  <2>2. P \in SUBSET (1..Len(reply)) /\ \A i \in P : Keeps(reply[i])
    BY <2>1
  <2>3. tryParseQuestions(reply) = q
    BY <1>2 DEF tryParseQuestions, normalizeQuestions
  <2> HIDE DEF P
  <2>4. /\ kept \in Seq(A) /\ Len(kept) <= Len(reply)
        /\ \A j \in DOMAIN kept : \E i \in P : kept[j] = reply[i]
    BY <2>1, <2>2, CollectedPlaces, CollectedTaken
  <2> HIDE DEF kept
  <2>5. PICK n \in Nat : n = Len(kept) /\ DOMAIN kept = 1..n
    BY <2>4
  <2>6. q \in Seq({Question(kept[i]) : i \in 1..n}) /\ Len(q) = n /\ DOMAIN q = 1..n
    BY <2>5
  <2>7. ASSUME NEW i \in 1..n
        PROVE  Len(q[i].options) = OptionCount /\ q[i].correctAnswer \in 0..(OptionCount - 1)
    <3>1. Keeps(kept[i])
      BY <2>2, <2>4, <2>5
    <3>2. q[i] = Question(kept[i])
      BY <2>5
    <3> HIDE DEF q
    <3>3. q[i].options = NonBlank(kept[i].options) /\ q[i].correctAnswer = Number(kept[i].correctAnswer)
      BY <3>2 DEF Question
    <3>4. QED BY <3>1, <3>3 DEF Keeps
  <2> HIDE DEF q
  <2>8. QED BY <1>2, <2>3, <2>4, <2>5, <2>6, <2>7
<1>3. QED BY <1>1, <1>2

(* Two taken places are not equally many places in. *)
LEMMA RankTells ==
  ASSUME NEW n \in Nat, NEW P \in SUBSET (1..n), NEW h \in P, NEW i \in P,
         Cardinality(Upto(P, h)) = Cardinality(Upto(P, i))
  PROVE  h = i
<1>0. \A k \in P : k \in Int
  OBVIOUS
<1>1. ASSUME NEW a \in P, NEW b \in P, a < b
      PROVE  Cardinality(Upto(P, a)) # Cardinality(Upto(P, b))
  <2>1. IsFiniteSet(1..n) /\ Upto(P, b) \subseteq 1..n
    BY IntervalCount DEF Upto
  <2>2. IsFiniteSet(Upto(P, b))
    BY <2>1, FS_Subset
  <2>5. Upto(P, a) \subseteq Upto(P, b)
    <3>1. ASSUME NEW k \in P, k <= a PROVE k <= b
      <4>1. k \in Int /\ a \in Int /\ b \in Int
        BY <1>0
      <4>2. QED BY <1>1, <3>1, <4>1
    <3>2. QED BY <3>1 DEF Upto
  <2>3. b \in Upto(P, b) /\ b \notin Upto(P, a)
    BY <1>0, <1>1 DEF Upto
  <2>4. QED BY <2>2, <2>3, <2>5, FS_Subset
<1>2. h \in Int /\ i \in Int
  OBVIOUS
<1>3. QED BY <1>1, <1>2

(* An item as the prompt asks for it.                                       *)
AsAsked(item) ==
  /\ item.worded
  /\ Len(item.options) = OptionCount /\ \A k \in DOMAIN item.options : item.options[k] # Blank
  /\ item.correctAnswer \in 0..(OptionCount - 1)

(* A list without a blank is all that is not blank of it. *)
LEMMA NoBlankDropped ==
  ASSUME NEW options, IsList(options), \A k \in DOMAIN options : options[k] # Blank
  PROVE  NonBlank(options) = options
<1>1. PICK A : options \in Seq(A) /\ DOMAIN options = 1..Len(options)
  BY ListIsSeq
<1>2. {k \in DOMAIN options : options[k] # Blank} = 1..Len(options)
  BY <1>1
<1>3. QED BY <1>1, <1>2, CollectedAll DEF NonBlank

(* Nothing that is collected of the options is blank, or not in them. *)
LEMMA NonBlankTaken ==
  ASSUME NEW options, IsList(options), NEW k \in DOMAIN NonBlank(options)
  PROVE  /\ NonBlank(options)[k] # Blank
         /\ \E m \in DOMAIN options : NonBlank(options)[k] = options[m]
<1> DEFINE P == {m \in DOMAIN options : options[m] # Blank}
<1>1. PICK A : options \in Seq(A) /\ DOMAIN options = 1..Len(options)
  BY ListIsSeq
<1>2. /\ P \in SUBSET (1..Len(options)) /\ NonBlank(options) = Collected(options, P)
      /\ \A m \in P : m \in DOMAIN options /\ options[m] # Blank
  BY <1>1 DEF NonBlank
<1> HIDE DEF P
<1>3. PICK m \in P : Collected(options, P)[k] = options[m]
  <2>1. k \in DOMAIN Collected(options, P)
    BY <1>2
  <2>2. options \in Seq(A) /\ P \in SUBSET (1..Len(options))
    BY <1>1, <1>2
  <2>3. \A j \in DOMAIN Collected(options, P) : \E m \in P : Collected(options, P)[j] = options[m]
    BY <2>2, CollectedTaken
  <2>4. QED BY <2>1, <2>3
<1>4. QED BY <1>2, <1>3

(* However long a reply is and whatever else is in it: its questions follow  *)
(* the order of their items, no item becomes two, and every item that is as *)
(* the prompt asks becomes a question with its own options and key.  Of any *)
(* other item that becomes one, the text is there and the options are its   *)
(* own that are not blank; only the key may not be what the AI meant.       *)
THEOREM QuestionsFollowReply ==
  ASSUME NEW items, IsList(items), \A i \in DOMAIN items : IsList(items[i].options)
  PROVE  LET kept == normalizeQuestions(items) IN
         \E from \in [DOMAIN kept -> DOMAIN items] :
           /\ \A j, k \in DOMAIN kept : j < k => from[j] < from[k]
           /\ \A i \in DOMAIN items : AsAsked(items[i]) =>
                \E j \in DOMAIN kept :
                  /\ from[j] = i
                  /\ kept[j].options = items[i].options
                  /\ kept[j].correctAnswer = items[i].correctAnswer
           /\ \A j \in DOMAIN kept :
                /\ items[from[j]].worded
                /\ \A k \in DOMAIN kept[j].options :
                     /\ kept[j].options[k] # Blank
                     /\ \E m \in DOMAIN items[from[j]].options :
                          kept[j].options[k] = items[from[j]].options[m]
<1> DEFINE good == {i \in DOMAIN items : Keeps(items[i])}
           taken == Collected(items, good)
           kept == normalizeQuestions(items)
           rank(i) == Cardinality(Upto(good, i))
<1>1. PICK A : items \in Seq(A) /\ DOMAIN items = 1..Len(items) /\ Len(items) \in Nat
  BY ListIsSeq DEF IsList
<1>2. good \in SUBSET (1..Len(items)) /\ \A i \in good : Keeps(items[i])
  BY <1>1
<1>3. kept = [j \in 1..Len(taken) |-> Question(taken[j])]
  BY DEF normalizeQuestions
<1> HIDE DEF good, kept
<1>4. /\ Len(taken) = Cardinality(good) /\ Len(taken) \in Nat
      /\ \A i \in good : rank(i) \in 1..Cardinality(good) /\ taken[rank(i)] = items[i]
      /\ \A j \in 1..Cardinality(good) : \E i \in good : rank(i) = j
  BY <1>1, <1>2, CollectedPlaces
<1> HIDE DEF taken
<1>5. DOMAIN kept = 1..Cardinality(good)
  BY <1>3, <1>4
<1> DEFINE from == [j \in DOMAIN kept |-> CHOOSE i \in good : rank(i) = j]
<1>6. ASSUME NEW j \in DOMAIN kept PROVE from[j] \in good /\ rank(from[j]) = j
  <2>1. \E i \in good : rank(i) = j
    BY <1>4, <1>5
  <2>2. QED BY <2>1
<1> HIDE DEF from
<1>7. ASSUME NEW h \in good, NEW i \in good, h <= i
      PROVE  rank(h) <= rank(i)
  <2>1. IsFiniteSet(1..Len(items))
    BY <1>1, IntervalCount
  <2>2. Upto(good, h) \subseteq Upto(good, i) /\ Upto(good, i) \subseteq 1..Len(items)
    <3>1. \A k \in good : k \in Int
      BY <1>1, <1>2
    <3>2. ASSUME NEW k \in good, k <= h PROVE k <= i
      <4>1. k \in Int /\ h \in Int /\ i \in Int
        BY <3>1
      <4>2. QED BY <1>7, <3>2, <4>1
    <3>3. QED BY <1>2, <3>2 DEF Upto
  <2>3. IsFiniteSet(Upto(good, i))
    BY <2>1, <2>2, FS_Subset
  <2>4. QED BY <2>2, <2>3, FS_Subset
<1>8. ASSUME NEW i \in good
      PROVE  /\ rank(i) \in DOMAIN kept /\ kept[rank(i)] = Question(items[i])
             /\ from[rank(i)] = i
  <2>1. PICK j \in DOMAIN kept : j = rank(i)
    BY <1>4, <1>5
  <2>2. kept[j] = Question(taken[j]) /\ taken[j] = items[i]
    BY <1>3, <1>4, <1>5, <2>1
  <2>3. from[j] \in good /\ rank(from[j]) = j
    BY <1>6
  <2>4. taken[j] = items[from[j]]
    BY <1>4, <2>3
  <2>5. from[j] = i
    BY <1>1, <1>2, <2>1, <2>3, RankTells
  <2>6. QED BY <2>1, <2>2, <2>5
<1>9. ASSUME NEW j \in DOMAIN kept, NEW k \in DOMAIN kept, j < k
      PROVE  from[j] < from[k]
  <2>1. from[j] \in good /\ from[k] \in good /\ rank(from[j]) = j /\ rank(from[k]) = k
    BY <1>6
  <2>2. from[j] \in Nat /\ from[k] \in Nat
    <3>1. good \subseteq Nat
      BY <1>1, <1>2
    <3>2. QED BY <2>1, <3>1
  <2>5. j \in Nat /\ k \in Nat
    <3>1. PICK m \in Nat : m = Cardinality(good)
      BY <1>4
    <3>2. QED BY <1>5, <3>1
  <2>3. from[k] <= from[j] => k <= j
    BY <1>7, <2>1
  <2>4. QED BY <1>9, <2>2, <2>3, <2>5
<1>10. ASSUME NEW i \in DOMAIN items, AsAsked(items[i])
       PROVE  \E j \in DOMAIN kept :
                /\ from[j] = i
                /\ kept[j].options = items[i].options
                /\ kept[j].correctAnswer = items[i].correctAnswer
  <2>1. NonBlank(items[i].options) = items[i].options
    BY <1>10, NoBlankDropped DEF AsAsked
  <2>2. Number(items[i].correctAnswer) = items[i].correctAnswer
    BY <1>10, KeyAssumption DEF AsAsked, Number
  <2>3. i \in good
    BY <1>10, <2>1, <2>2 DEF good, Keeps, AsAsked
  <2>4. kept[rank(i)] = Question(items[i]) /\ rank(i) \in DOMAIN kept /\ from[rank(i)] = i
    BY <1>8, <2>3
  <2>5. Question(items[i]).options = items[i].options
        /\ Question(items[i]).correctAnswer = items[i].correctAnswer
    BY <2>1, <2>2 DEF Question
  <2>6. QED BY <2>4, <2>5
<1>11. ASSUME NEW j \in DOMAIN kept
       PROVE  /\ items[from[j]].worded
              /\ \A k \in DOMAIN kept[j].options :
                   /\ kept[j].options[k] # Blank
                   /\ \E m \in DOMAIN items[from[j]].options :
                        kept[j].options[k] = items[from[j]].options[m]
  <2>1. PICK i \in good : i = from[j] /\ rank(i) = j
    BY <1>6
  <2>2. Keeps(items[i]) /\ i \in DOMAIN items /\ kept[j] = Question(items[i])
    BY <1>1, <1>2, <1>8, <2>1
  <2>3. kept[j].options = NonBlank(items[i].options) /\ IsList(items[i].options)
    BY <2>2 DEF Question
  <2>4. \A k \in DOMAIN kept[j].options :
          /\ kept[j].options[k] # Blank
          /\ \E m \in DOMAIN items[i].options : kept[j].options[k] = items[i].options[m]
    BY <2>3, NonBlankTaken
  <2>5. QED BY <2>1, <2>2, <2>4 DEF Keeps
<1>12. from \in [DOMAIN kept -> DOMAIN items]
  <2>1. DOMAIN from = DOMAIN kept /\ from = [j \in DOMAIN kept |-> from[j]]
    BY DEF from
  <2>2. \A j \in DOMAIN kept : from[j] \in DOMAIN items
    BY <1>1, <1>2, <1>6
  <2>3. QED BY <2>1, <2>2
<1>13. QED BY <1>9, <1>10, <1>11, <1>12 DEF kept

(* Of a question with four options and a key, the answer key prints what    *)
(* the paper prints of one option: the one that submit counts as right.     *)
LEMMA KeyOfQuestion ==
  ASSUME NEW questions,
         NEW i \in DOMAIN questions, i \in Int,
         DOMAIN questions[i].options = 1..OptionCount,
         questions[i].correctAnswer \in 0..(OptionCount - 1),
         NEW j \in 1..OptionCount
  PROVE  generateMcqTestPdf(questions)[i][j] = generateMcqAnswerKeyPdf(questions)[i]
           <=> IsCorrect(questions, [questionIndex |-> i - 1, selectedOption |-> j - 1])
<1> DEFINE q == questions[i]
<1>1. generateMcqTestPdf(questions)[i][j] = <<letters[j], q.options[j]>>
  <2>1. (j - 1) + 1 = j
    OBVIOUS
  <2>2. generateMcqTestPdf(questions)[i][j] = Printed(q, j - 1)
    BY DEF generateMcqTestPdf
  <2>3. QED BY <2>1, <2>2 DEF Printed
<1>2. PICK k \in 1..OptionCount : k = q.correctAnswer + 1 /\ q.correctAnswer = k - 1
  BY DEF OptionCount
<1>3. generateMcqAnswerKeyPdf(questions)[i] = <<letters[k], q.options[k]>>
  BY <1>2 DEF generateMcqAnswerKeyPdf, Printed
<1>4. letters[j] = letters[k] <=> j = k
  BY DEF letters, OptionCount
<1>5. IsCorrect(questions, [questionIndex |-> i - 1, selectedOption |-> j - 1]) <=> j = k
  <2>1. (i - 1) + 1 = i
    OBVIOUS
  <2>2. IsCorrect(questions, [questionIndex |-> i - 1, selectedOption |-> j - 1])
          <=> j - 1 = q.correctAnswer
    BY <2>1 DEF IsCorrect
  <2>3. QED BY <1>2, <2>2
<1>6. QED BY <1>1, <1>3, <1>4, <1>5

(* Whatever items a reply has, of each question that is taken from it the   *)
(* answer key names, of the options the paper prints, the one that submit   *)
(* counts as right and no other, blank options in the reply or not.         *)
THEOREM KeyIsWhatCounts ==
  ASSUME NEW items, IsList(items), \A m \in DOMAIN items : IsList(items[m].options)
  PROVE  LET questions == normalizeQuestions(items)
             paper == generateMcqTestPdf(questions)
             key == generateMcqAnswerKeyPdf(questions)
         IN \A i \in DOMAIN questions :
              /\ DOMAIN paper[i] = 1..OptionCount
              /\ \A j \in 1..OptionCount :
                   paper[i][j] = key[i]
                     <=> IsCorrect(questions, [questionIndex |-> i - 1, selectedOption |-> j - 1])
<1> DEFINE good == {m \in DOMAIN items : Keeps(items[m])}
           taken == Collected(items, good)
           questions == normalizeQuestions(items)
<1>1. PICK A : items \in Seq(A) /\ DOMAIN items = 1..Len(items)
  BY ListIsSeq
<1>2. good \in SUBSET (1..Len(items))
  BY <1>1
<1>3. questions = [j \in 1..Len(taken) |-> Question(taken[j])]
  BY DEF normalizeQuestions
<1>4. \A m \in good : Keeps(items[m]) /\ IsList(items[m].options)
  OBVIOUS
<1> HIDE DEF good, questions
<1>5. /\ taken \in Seq(A)
      /\ \A j \in DOMAIN taken : \E m \in good : taken[j] = items[m]
  BY <1>1, <1>2, CollectedPlaces, CollectedTaken
<1>6. PICK n \in Nat : n = Len(taken) /\ DOMAIN taken = 1..n
  BY <1>5
<1> HIDE DEF taken
<1>7. SUFFICES ASSUME NEW i \in 1..n
               PROVE  /\ DOMAIN generateMcqTestPdf(questions)[i] = 1..OptionCount
                      /\ \A j \in 1..OptionCount :
                           generateMcqTestPdf(questions)[i][j] = generateMcqAnswerKeyPdf(questions)[i]
                             <=> IsCorrect(questions, [questionIndex |-> i - 1, selectedOption |-> j - 1])
  BY <1>3, <1>6 DEF questions
<1>8. PICK m \in good : taken[i] = items[m]
  BY <1>5, <1>6
<1>9. i \in DOMAIN questions /\ questions[i] = Question(items[m])
  BY <1>3, <1>6, <1>8
<1>10. /\ Len(NonBlank(items[m].options)) = OptionCount
       /\ Number(items[m].correctAnswer) \in 0..(OptionCount - 1)
  BY <1>4 DEF Keeps
<1>11. DOMAIN NonBlank(items[m].options) = 1..OptionCount
  BY <1>4, <1>10, NonBlankIsSeq
<1>12. /\ DOMAIN questions[i].options = 1..OptionCount
       /\ questions[i].correctAnswer \in 0..(OptionCount - 1)
  BY <1>9, <1>10, <1>11 DEF Question
<1>13. DOMAIN generateMcqTestPdf(questions)[i] = 1..OptionCount
  BY <1>9, <1>12 DEF generateMcqTestPdf
<1>14. QED BY <1>9, <1>12, <1>13, KeyOfQuestion

-----------------------------------------------------------------------------
(* What is taken of the chunks, from one to the next.                       *)
LEMMA TakenSteps ==
  ASSUME NEW chunks \in Seq(Nat), NEW maxChars \in Nat
  PROVE  LET taken == Taken(chunks, maxChars) IN
         /\ taken \in [0..Len(chunks) -> 0..maxChars] /\ taken[0] = 0
         /\ \A i \in 1..Len(chunks) :
              taken[i] = taken[i - 1] + Take(maxChars - taken[i - 1], chunks[i])
<1> DEFINE n == Len(chunks)
           V == 0..maxChars
           Body(f) == [i \in 0..n |-> IF i = 0 THEN 0
                                      ELSE f[i - 1] + Take(maxChars - f[i - 1], chunks[i])]
           step == [p \in V \X (1..n) |-> p[1] + Take(maxChars - p[1], chunks[p[2]])]
<1>1. n \in Nat /\ 0 \in V /\ \A i \in 1..n : chunks[i] \in Nat
  OBVIOUS
<1>2. step \in Steps(V, n)
  <2>1. ASSUME NEW v \in V, NEW i \in 1..n PROVE v + Take(maxChars - v, chunks[i]) \in V
    BY <1>1 DEF Take
  <2>2. QED BY <2>1 DEF Steps
<1>3. PICK g : Iterates(g, n, V, 0, step)
  <2> HIDE DEF step, n, V
  <2>1. QED BY <1>1, <1>2, Recursion
<1>4. /\ g \in [0..n -> V] /\ g[0] = 0
      /\ \A i \in 1..n : g[i] = g[i - 1] + Take(maxChars - g[i - 1], chunks[i])
  <2>1. g \in [0..n -> V] /\ g[0] = 0 /\ \A i \in 1..n : g[i] = step[<<g[i - 1], i>>]
    BY <1>3 DEF Iterates
  <2>2. \A i \in 1..n : i - 1 \in 0..n
    BY <1>1
  <2>3. QED BY <2>1, <2>2
<1>5. g = Body(g)
  <2>1. ASSUME NEW i \in 0..n PROVE g[i] = Body(g)[i]
    BY <1>1, <1>4
  <2>2. QED BY <1>4, <2>1
<1>6. PICK f : f = CHOOSE h : h = Body(h)
  OBVIOUS
<1>7. f = Body(f)
  <2> HIDE DEF Body
  <2>1. QED BY <1>5, <1>6
<1>8. Taken(chunks, maxChars) = f
  BY <1>6 DEF Taken
<1>9. f[0] = 0 /\ \A i \in 1..n : f[i] = f[i - 1] + Take(maxChars - f[i - 1], chunks[i])
  <2>1. 0 \in 0..n /\ \A i \in 1..n : i \in 0..n /\ i # 0
    BY <1>1
  <2>2. QED BY <1>7, <2>1
<1>10. \A k \in Nat : k <= n => f[k] \in V
  <2> DEFINE S == {k \in Nat : k <= n => f[k] \in V}
  <2>1. 0 \in S
    BY <1>1, <1>9
  <2>2. ASSUME NEW k \in Nat, k \in S PROVE k + 1 \in S
    <3>1. SUFFICES ASSUME k + 1 <= n PROVE f[k + 1] \in V
      OBVIOUS
    <3>2. f[k] \in V /\ k + 1 \in 1..n /\ (k + 1) - 1 = k
      BY <1>1, <2>2, <3>1
    <3>3. f[k + 1] = f[k] + Take(maxChars - f[k], chunks[k + 1]) /\ chunks[k + 1] \in Nat
      BY <1>1, <1>9, <3>2
    <3>4. QED BY <3>2, <3>3 DEF Take
  <2>3. \A k \in Nat : k \in S
    <3> HIDE DEF S
    <3>1. QED BY <2>1, <2>2, NatSet
  <2>4. QED BY <2>3
<1>11. f \in [0..n -> V]
  <2>1. DOMAIN f = 0..n /\ f = [i \in 0..n |-> f[i]]
    BY <1>7
  <2>2. \A i \in 0..n : f[i] \in V
    BY <1>1, <1>10
  <2> HIDE DEF V
  <2>3. QED BY <2>1, <2>2
<1>12. QED BY <1>8, <1>9, <1>11

(* The context of an AI call: however many chunks there are, no more than   *)
(* the budget is taken of them, all of every chunk when that is less, and   *)
(* what joins the parts is two characters for each part but the first.      *)
THEOREM ContextIsBounded ==
  ASSUME NEW chunks \in Seq(Nat), NEW maxChars \in Nat
  PROVE  LET n == Len(chunks)
             taken == Taken(chunks, maxChars)
         IN /\ taken[n] <= maxChars
            /\ taken[n] < maxChars => \A i \in 1..n : taken[i] = taken[i - 1] + chunks[i]
            /\ ContextLength(chunks, maxChars) <= maxChars + 2 * (IF n = 0 THEN 0 ELSE n - 1)
<1> DEFINE n == Len(chunks)
<1>1. PICK t : t = Taken(chunks, maxChars)
  OBVIOUS
<1>2. /\ t \in [0..n -> 0..maxChars] /\ t[0] = 0
      /\ \A i \in 1..n : t[i] = t[i - 1] + Take(maxChars - t[i - 1], chunks[i])
  BY <1>1, TakenSteps
<1>3. n \in Nat /\ \A i \in 1..n : chunks[i] \in Nat
  OBVIOUS
<1>4. t[n] < maxChars => \A i \in 1..n : t[i] = t[i - 1] + chunks[i]
  <2> DEFINE T == {k \in Nat : k <= n =>
                     (t[k] < maxChars => \A i \in 1..k : t[i] = t[i - 1] + chunks[i])}
  <2>1. 0 \in T
    OBVIOUS
  <2>2. ASSUME NEW k \in Nat, k \in T PROVE k + 1 \in T
    <3>1. SUFFICES ASSUME k + 1 <= n, t[k + 1] < maxChars
                   PROVE  \A i \in 1..(k + 1) : t[i] = t[i - 1] + chunks[i]
      OBVIOUS
    <3>2. k \in 0..n /\ k + 1 \in 1..n /\ (k + 1) - 1 = k
      BY <1>3, <3>1
    <3>3. /\ t[k] \in 0..maxChars /\ chunks[k + 1] \in Nat
          /\ t[k + 1] = t[k] + Take(maxChars - t[k], chunks[k + 1])
      BY <1>2, <1>3, <3>2
    <3>4. t[k] < maxChars /\ t[k + 1] = t[k] + chunks[k + 1]
      BY <3>1, <3>3 DEF Take
    <3>5. \A i \in 1..k : t[i] = t[i - 1] + chunks[i]
      BY <2>2, <3>1, <3>2, <3>4
    <3>6. ASSUME NEW i \in 1..(k + 1) PROVE t[i] = t[i - 1] + chunks[i]
      <4>1. i \in 1..k \/ i = k + 1
        OBVIOUS
      <4>2. QED BY <3>2, <3>4, <3>5, <4>1
    <3>7. QED BY <3>6
  <2>3. \A k \in Nat : k \in T
    <3> HIDE DEF T
    <3>1. QED BY <2>1, <2>2, NatSet
  <2>4. QED BY <1>3, <2>3
<1>5. PICK parts : parts = {i \in 1..n : chunks[i] > 0 /\ t[i - 1] < maxChars}
  OBVIOUS
<1>6. Cardinality(parts) \in Nat /\ Cardinality(parts) <= n
  <2>1. IsFiniteSet(1..n) /\ Cardinality(1..n) = n
    BY <1>3, IntervalCount
  <2>2. IsFiniteSet(parts) /\ Cardinality(parts) <= n
    BY <1>5, <2>1, FS_Subset
  <2>3. QED BY <2>2, FS_CardinalityType
<1>7. PICK m \in 0..n : m = Cardinality(parts) /\ (parts # {} => m >= 1)
  <2>1. IsFiniteSet(parts)
    BY <1>3, <1>5, IntervalCount, FS_Subset
  <2>2. parts # {} => Cardinality(parts) # 0
    BY <2>1, FS_EmptySet
  <2>3. QED BY <1>3, <1>6, <2>2
<1>8. t[n] \in 0..maxChars
  BY <1>2, <1>3
<1>9. ContextLength(chunks, maxChars) = t[n] + 2 * (m - (IF parts = {} THEN 0 ELSE 1))
  BY <1>1, <1>5, <1>7 DEF ContextLength
<1>10. ContextLength(chunks, maxChars) <= maxChars + 2 * (IF n = 0 THEN 0 ELSE n - 1)
  <2>1. parts = {} => m = 0
    BY <1>7, FS_EmptySet
  <2>2. QED BY <1>3, <1>7, <1>8, <1>9, <2>1
<1>11. QED BY <1>1, <1>4, <1>8, <1>10

-----------------------------------------------------------------------------
(* The score of a submission. *)
RightOf(questions, sent, n) == {i \in 1..n : sent[i - 1] = questions[i].correctAnswer}

WrongOf(questions, sent, n) ==
  {i \in (1..n) \ RightOf(questions, sent, n) : sent[i - 1] # Skip}

EntriesOf(sent, n) == [i \in 1..n |-> [questionIndex |-> i - 1, selectedOption |-> sent[i - 1]]]

(* Of a submission with one entry for every question each entry is judged.  *)
LEMMA EntriesJudged ==
  ASSUME NEW n \in Nat, NEW S, NEW questions \in Seq(S), Len(questions) = n, NEW sent
  PROVE  Judged(questions, EntriesOf(sent, n)) = EntriesOf(sent, n)
<1> DEFINE A == {[questionIndex |-> i - 1, selectedOption |-> sent[i - 1]] : i \in 1..n}
           e == EntriesOf(sent, n)
<1>1. e \in Seq(A) /\ Len(e) = n /\ DOMAIN e = 1..n
  <2>1. DOMAIN e = 1..n /\ e = [i \in 1..n |-> e[i]]
    BY DEF EntriesOf
  <2>2. \A i \in 1..n : e[i] \in A
    BY DEF EntriesOf
  <2> HIDE DEF e, A
  <2>3. e \in [1..n -> A]
    BY <2>1, <2>2
  <2>4. QED BY <2>1, <2>3
<1>2. \A i \in 1..n : e[i].questionIndex + 1 = i
  BY DEF EntriesOf
<1> HIDE DEF e
<1>3. {i \in DOMAIN e : e[i].questionIndex + 1 \in 1..Len(questions)} = 1..Len(e)
  BY <1>1, <1>2
<1>4. Judged(questions, e) = Collected(e, 1..Len(e))
  BY <1>3 DEF Judged
<1>5. Judged(questions, e) = e
  BY <1>1, <1>4, CollectedAll
<1>6. QED BY <1>5 DEF e

(* What the score of such a submission is. *)
LEMMA SubmitOfEntries ==
  ASSUME NEW n \in Nat, NEW S, NEW questions \in Seq(S), Len(questions) = n, NEW sent
  PROVE  submit(questions, EntriesOf(sent, n)) =
           [correct   |-> Cardinality(RightOf(questions, sent, n)),
            incorrect |-> Cardinality(WrongOf(questions, sent, n)),
            score     |-> Tenths(Cardinality(RightOf(questions, sent, n)), n),
            results   |-> [i \in 1..n |-> i - 1]]
<1> DEFINE e == EntriesOf(sent, n)
           right == {i \in DOMAIN e : IsCorrect(questions, e[i])}
<1>1. DOMAIN e = 1..n
  BY DEF EntriesOf
<1>2. \A i \in 1..n : e[i].questionIndex = i - 1 /\ e[i].selectedOption = sent[i - 1] /\ (i - 1) + 1 = i
  BY DEF EntriesOf
<1>3. Judged(questions, e) = e
  BY EntriesJudged
<1> HIDE DEF e
<1>4. right = RightOf(questions, sent, n)
  BY <1>1, <1>2 DEF RightOf, IsCorrect
<1>5. Wrong(e, right) = WrongOf(questions, sent, n)
  BY <1>1, <1>2, <1>4 DEF Wrong, WrongOf
<1>6. [i \in DOMAIN e |-> e[i].questionIndex] = [i \in 1..n |-> i - 1]
  BY <1>1, <1>2
<1>7. submit(questions, e) =
        [correct |-> Cardinality(right), incorrect |-> Cardinality(Wrong(e, right)),
         score |-> Tenths(Cardinality(right), Len(questions)),
         results |-> [i \in DOMAIN e |-> e[i].questionIndex]]
  BY <1>3 DEF submit
<1> HIDE DEF right
<1>8. submit(questions, e) =
        [correct   |-> Cardinality(RightOf(questions, sent, n)),
         incorrect |-> Cardinality(WrongOf(questions, sent, n)),
         score     |-> Tenths(Cardinality(RightOf(questions, sent, n)), n),
         results   |-> [i \in 1..n |-> i - 1]]
  BY <1>4, <1>5, <1>6, <1>7
<1>9. QED BY <1>8 DEF e

(* Every question is answered right, answered wrong, or skipped.            *)
LEMMA EveryQuestionCounts ==
  ASSUME NEW n \in Nat, NEW questions, NEW sent,
         \A i \in 1..n : questions[i].correctAnswer # Skip,
         NEW skipped, skipped = {i \in 1..n : sent[i - 1] = Skip}
  PROVE  /\ Cardinality(RightOf(questions, sent, n)) \in 0..n
         /\ Cardinality(WrongOf(questions, sent, n)) \in Nat
         /\ Cardinality(RightOf(questions, sent, n)) + Cardinality(WrongOf(questions, sent, n))
              + Cardinality(skipped) = n
<1> DEFINE R == RightOf(questions, sent, n)
           W == WrongOf(questions, sent, n)
<1>1. R \cup W \cup skipped = 1..n /\ R \cap W = {} /\ (R \cup W) \cap skipped = {}
  BY DEF RightOf, WrongOf
<1> HIDE DEF R, W
<1>2. IsFiniteSet(1..n) /\ Cardinality(1..n) = n
  BY IntervalCount
<1>3. R \in SUBSET (1..n) /\ W \in SUBSET (1..n) /\ skipped \in SUBSET (1..n) /\ (R \cup W) \in SUBSET (1..n)
  BY <1>1
<1>4. /\ IsFiniteSet(R) /\ IsFiniteSet(W) /\ IsFiniteSet(skipped) /\ IsFiniteSet(R \cup W)
      /\ Cardinality(R) <= n
  BY <1>2, <1>3, FS_Subset
<1>5. /\ Cardinality(R) \in Nat /\ Cardinality(W) \in Nat /\ Cardinality(skipped) \in Nat
      /\ Cardinality(R \cup W) \in Nat
  BY <1>4, FS_CardinalityType
<1>6. Cardinality(R \cup W) = Cardinality(R) + Cardinality(W)
  <2>1. Cardinality(R \cap W) = 0
    BY <1>1, FS_EmptySet
  <2>2. Cardinality(R \cup W) = Cardinality(R) + Cardinality(W) - Cardinality(R \cap W)
    BY <1>4, FS_Union
  <2>3. QED BY <1>5, <2>1, <2>2
<1>7. n = Cardinality(R \cup W) + Cardinality(skipped)
  <2>1. Cardinality((R \cup W) \cap skipped) = 0
    BY <1>1, FS_EmptySet
  <2>2. Cardinality((R \cup W) \cup skipped) =
          Cardinality(R \cup W) + Cardinality(skipped) - Cardinality((R \cup W) \cap skipped)
    BY <1>4, FS_Union
  <2>3. Cardinality((R \cup W) \cup skipped) = n
    BY <1>1, <1>2
  <2>4. QED BY <1>5, <2>1, <2>2, <2>3
<1>8. QED BY <1>4, <1>5, <1>6, <1>7 DEF R, W

-----------------------------------------------------------------------------
(* The whole invariant.  A test is a list of questions, and a score that is *)
(* shown is what submit makes of what was sent.                             *)
TestsAreLists == \A t \in DOMAIN stored : \E S : stored[t].questions \in Seq(S)

GradedBySubmit ==
  isSuccess =>
    submission.graded = submit(stored[submission.test].questions, Entries(submission))

FInv == PInv /\ TypeOK /\ QuestionsWellFormed /\ TestsAreLists /\ GradedBySubmit

(* The initial state satisfies it. *)
LEMMA FInit == Init => FInv
<1> SUFFICES ASSUME Init PROVE FInv
  OBVIOUS
<1>1. stored = <<>> /\ Len(stored) = 0 /\ DOMAIN stored = {}
  BY DEF Init
<1>2. Blankly \in [0..(MaxQuestions - 1) -> Picks \cup {Skip}] /\ 0 \in 0..(MaxQuestions - 1)
  BY BoundsAssumption DEF Blankly
<1>3. NotSubmitted \in Submission
  <2>1. NoGrade \in [correct : Nat, incorrect : Nat, score : Nat, results : Seq(Nat)]
    BY DEF NoGrade
  <2> HIDE DEF NoGrade
  <2>2. QED BY <1>2, <2>1 DEF NotSubmitted, Submission
<1>4. TypeOK
  <2>1. /\ Len(stored) \in 0..MaxTests /\ polled \in 0..Len(stored) /\ timer \in 0..MaxQuestions
        /\ index \in 0..(MaxQuestions - 1) /\ failures \in 0..MaxFailures
    BY <1>1, BoundsAssumption DEF Init
  <2>2. submission \in Submission /\ answers \in [0..(MaxQuestions - 1) -> Picks \cup {Skip}]
    BY <1>2, <1>3 DEF Init
  <2>3. QED BY <1>1, <2>1, <2>2 DEF Init, TypeOK
<1>5. QuestionsWellFormed /\ TestsAreLists /\ GradedBySubmit
  BY <1>1 DEF Init, QuestionsWellFormed, TestsAreLists, GradedBySubmit, isSuccess, NotSubmitted
<1>6. QED BY <1>4, <1>5, PInit DEF FInv

(* A stored test is one of the PDFs' and has questions, few enough.         *)
LEMMA StoredTest ==
  ASSUME FInv, NEW t \in DOMAIN stored
  PROVE  /\ t \in 1..MaxTests /\ Total(t) \in 1..MaxQuestions
         /\ \E S : stored[t].questions \in Seq(S)
<1>1. DOMAIN stored = 1..Len(stored)
  BY DEF FInv, PInv, PageInOrder, StoredIsSeq
<1>2. Len(stored) \in 0..MaxTests
  BY DEF FInv, TypeOK
<1>3. QED BY <1>1, <1>2, BoundsAssumption DEF FInv, TypeOK, TestsAreLists

(* The grade of what the page has sent of a stored test is a grade.         *)
LEMMA GradeType ==
  ASSUME FInv, NEW s, s.test \in DOMAIN stored
  PROVE  submit(stored[s.test].questions, Entries(s)) \in
           [correct : Nat, incorrect : Nat, score : Nat, results : Seq(Nat)]
<1>1. PICK n \in Nat \ {0} : n = Total(s.test)
  BY StoredTest, BoundsAssumption
<1>2. PICK S : stored[s.test].questions \in Seq(S)
  BY StoredTest
<1>3. PICK questions \in Seq(S) : questions = stored[s.test].questions
  BY <1>2
<1>4. Len(questions) = n /\ Entries(s) = EntriesOf(s.sent, n)
  BY <1>1, <1>3 DEF Total, Entries, EntriesOf
<1> DEFINE R == RightOf(questions, s.sent, n)
           W == WrongOf(questions, s.sent, n)
<1>5. R \in SUBSET (1..n) /\ W \in SUBSET (1..n)
  BY DEF RightOf, WrongOf
<1> HIDE DEF R, W
<1>6. Cardinality(R) \in 0..n /\ Cardinality(W) \in Nat
  <2>1. IsFiniteSet(1..n) /\ Cardinality(1..n) = n
    BY IntervalCount
  <2>2. /\ IsFiniteSet(R) /\ IsFiniteSet(W) /\ Cardinality(R) <= n
    BY <1>5, <2>1, FS_Subset
  <2>3. Cardinality(R) \in Nat /\ Cardinality(W) \in Nat
    BY <2>2, FS_CardinalityType
  <2>4. QED BY <2>2, <2>3
<1>7. Tenths(Cardinality(R), n) \in Nat
  <2>1. PICK c \in 0..n : c = Cardinality(R)
    BY <1>6
  <2>2. PICK x \in 0..1000 : IsShare(x, c, n)
    BY TenthsRound
  <2>3. x = Tenths(c, n)
    BY <2>2, Zenon DEF IsShare
  <2>4. x \in Nat
    OBVIOUS
  <2>5. QED BY <2>1, <2>3, <2>4, Zenon
<1>8. [i \in 1..n |-> i - 1] \in Seq(Nat)
  OBVIOUS
<1>9. submit(questions, EntriesOf(s.sent, n)) =
        [correct |-> Cardinality(R), incorrect |-> Cardinality(W),
         score |-> Tenths(Cardinality(R), n), results |-> [i \in 1..n |-> i - 1]]
  BY <1>4, SubmitOfEntries DEF R, W
<1>10. QED BY <1>3, <1>4, <1>6, <1>7, <1>8, <1>9

(* A test that is stored comes last, and the others stay as they are.       *)
LEMMA TestStored ==
  ASSUME FInv, NEW p \in Pdfs, NEW reply \in Replies, StoreTest(p, reply)
  PROVE  /\ Len(stored) \in Nat /\ Len(stored') = Len(stored) + 1 /\ Len(stored) < MaxTests
         /\ \A t \in DOMAIN stored' :
              \/ t \in DOMAIN stored /\ stored'[t] = stored[t]
              \/ stored'[t].pdf = p /\ stored'[t].questions = tryParseQuestions(reply)
         /\ \A t \in DOMAIN stored : t \in DOMAIN stored' /\ stored'[t] = stored[t]
<1> DEFINE e == [pdf |-> p, questions |-> tryParseQuestions(reply)]
<1>1. PICK S : stored \in Seq(S)
  BY DEF FInv, PInv, PageInOrder, StoredIsSeq
<1>2. stored' = Append(stored, e) /\ Len(stored) < MaxTests
  BY DEF StoreTest
<1>3. e.pdf = p /\ e.questions = tryParseQuestions(reply)
  OBVIOUS
<1> HIDE DEF e
<1>4. stored \in Seq(S \cup {e}) /\ e \in S \cup {e}
  BY <1>1
<1>5. /\ Len(stored') = Len(stored) + 1 /\ Len(stored) \in Nat
      /\ \A t \in 1..Len(stored) : stored'[t] = stored[t]
      /\ stored'[Len(stored) + 1] = e
      /\ DOMAIN stored = 1..Len(stored) /\ DOMAIN stored' = 1..(Len(stored) + 1)
  BY <1>2, <1>4
<1>6. \A t \in 1..(Len(stored) + 1) : t \in 1..Len(stored) \/ t = Len(stored) + 1
  BY <1>5
<1>7. QED BY <1>2, <1>3, <1>5, <1>6

(* Storing a test keeps the invariant.                                      *)
LEMMA StoreKeepsAll ==
  ASSUME FInv, PInv', NEW p \in Pdfs, NEW reply \in Replies, StoreTest(p, reply)
  PROVE  FInv'
<1> DEFINE q == tryParseQuestions(reply)
<1>1. reply = Garbled \/ (IsList(reply) /\ Len(reply) <= MaxQuestions)
  BY RepliesAssumption
<1>2. /\ \E S : q \in Seq(S)
      /\ Len(q) \in 1..MaxQuestions
      /\ \A i \in DOMAIN q : Len(q[i].options) = OptionCount /\ q[i].correctAnswer \in 0..(OptionCount - 1)
  <2>1. q # <<>>
    BY DEF StoreTest
  <2>2. /\ \E S : q \in Seq(S)
        /\ Len(q) \in Nat /\ reply # Garbled /\ Len(q) <= Len(reply)
        /\ \A i \in DOMAIN q : Len(q[i].options) = OptionCount /\ q[i].correctAnswer \in 0..(OptionCount - 1)
    BY <1>1, <2>1, ParsedQuestions
  <2>3. Len(q) # 0
    BY <2>1, <2>2
  <2>4. Len(reply) \in Nat /\ Len(reply) <= MaxQuestions
    BY <1>1, <2>2 DEF IsList
  <2>5. QED BY <2>2, <2>3, <2>4, BoundsAssumption
<1> HIDE DEF q
<1>3. /\ Len(stored') \in 0..MaxTests
      /\ \A t \in DOMAIN stored' :
           \/ t \in DOMAIN stored /\ stored'[t] = stored[t]
           \/ stored'[t].pdf = p /\ stored'[t].questions = q
      /\ \A t \in DOMAIN stored : t \in DOMAIN stored' /\ stored'[t] = stored[t]
      /\ Len(stored) \in Nat /\ Len(stored') = Len(stored) + 1
  BY TestStored, BoundsAssumption DEF q
<1>4. UNCHANGED <<polled, page, session, submission, seen, failures>>
  BY DEF StoreTest
<1>5. TypeOK'
  <2>1. \A t \in DOMAIN stored' : stored'[t].pdf \in Pdfs /\ Len(stored'[t].questions) \in 1..MaxQuestions
    BY <1>2, <1>3 DEF FInv, TypeOK, Total
  <2>2. polled' \in 0..Len(stored')
    BY <1>3, <1>4 DEF FInv, TypeOK
  <2>3. active' \in DOMAIN stored' \cup {NoTest}
    BY <1>3, <1>4 DEF FInv, TypeOK, session
  <2>4. QED BY <1>3, <1>4, <2>1, <2>2, <2>3 DEF FInv, TypeOK, Total, page, session
<1>6. QuestionsWellFormed'
  BY <1>2, <1>3 DEF FInv, QuestionsWellFormed
<1>7. TestsAreLists'
  BY <1>2, <1>3 DEF FInv, TestsAreLists
<1>8. GradedBySubmit'
  <2>1. SUFFICES ASSUME isSuccess PROVE GradedBySubmit'
    BY <1>4 DEF GradedBySubmit, isSuccess
  <2>2. submission.test \in DOMAIN stored
    BY <2>1, SessionStored DEF FInv, isSuccess
  <2>3. stored'[submission.test] = stored[submission.test]
    BY <1>3, <2>2
  <2>4. Entries(submission)' = Entries(submission)
    BY <1>4, <2>3 DEF Entries, Total
  <2>5. QED BY <1>4, <2>1, <2>3, <2>4 DEF FInv, GradedBySubmit
<1>9. QED BY <1>5, <1>6, <1>7, <1>8 DEF FInv

(* A session that begins keeps the invariant.                               *)
LEMMA SessionKeepsAll ==
  ASSUME FInv, PInv', NEW t \in List, initializeTestSession(t),
         UNCHANGED <<stored, polled, chosen, generating, failures>>, asked' \in Orders \cup {NoOrder},
         UNCHANGED <<awaiting, request, patience>> \/ StopWaiting
  PROVE  FInv'
<1>1. t \in DOMAIN stored /\ Total(t) \in 0..MaxQuestions
  <2>1. t \in DOMAIN stored
    BY ListStored DEF FInv, PInv
  <2>2. QED BY <2>1, StoredTest, BoundsAssumption
<1>2. Blankly \in [0..(MaxQuestions - 1) -> Picks \cup {Skip}] /\ 0 \in 0..(MaxQuestions - 1)
  BY BoundsAssumption DEF Blankly
<1>3. NotSubmitted \in Submission /\ NotSubmitted.status = "idle"
  <2>1. NoGrade \in [correct : Nat, incorrect : Nat, score : Nat, results : Seq(Nat)]
    BY DEF NoGrade
  <2> HIDE DEF NoGrade
  <2>2. QED BY <1>2, <2>1 DEF NotSubmitted, Submission
<1>4. TypeOK'
  <2>1. /\ active' \in DOMAIN stored' \cup {NoTest} /\ started' \in BOOLEAN
        /\ index' \in 0..(MaxQuestions - 1) /\ timer' \in 0..MaxQuestions
        /\ answers' \in [0..(MaxQuestions - 1) -> Picks \cup {Skip}]
        /\ submission' \in Submission /\ seen' \in BOOLEAN
    BY <1>1, <1>2, <1>3 DEF initializeTestSession, Render
  <2>2. /\ request' # NoRequest => request'.order \in Orders /\ request'.existing \subseteq 1..MaxTests
        /\ awaiting' \in BOOLEAN /\ patience' \in BOOLEAN
    BY DEF FInv, TypeOK, StopWaiting
  <2>3. QED BY <2>1, <2>2 DEF FInv, TypeOK, Total
<1>5. QuestionsWellFormed' /\ TestsAreLists'
  BY DEF FInv, QuestionsWellFormed, TestsAreLists
<1>6. GradedBySubmit'
  BY <1>3 DEF GradedBySubmit, isSuccess, initializeTestSession
<1>7. QED BY <1>4, <1>5, <1>6 DEF FInv

(* A step that leaves the tests alone and grades nothing keeps what is      *)
(* known of them.                                                           *)
LEMMA TestsStill ==
  ASSUME FInv, UNCHANGED stored,
         \/ UNCHANGED submission
         \/ submission'.status # "ok"
  PROVE  QuestionsWellFormed' /\ TestsAreLists' /\ GradedBySubmit'
<1>1. QuestionsWellFormed' /\ TestsAreLists'
  BY DEF FInv, QuestionsWellFormed, TestsAreLists
<1>2. GradedBySubmit'
  BY DEF FInv, GradedBySubmit, isSuccess, Entries, Total
<1>3. QED BY <1>1, <1>2

(* Every step keeps the invariant.                                          *)
LEMMA FNext == FInv /\ [Next]_vars => FInv'
<1> SUFFICES ASSUME FInv, [Next]_vars PROVE FInv'
  OBVIOUS
<1>1. PInv'
  BY PNext DEF FInv
<1>2. ASSUME NEW p \in Pdfs, NEW reply \in Replies, StoreTest(p, reply) PROVE FInv'
  BY <1>1, <1>2, StoreKeepsAll
<1>3. CASE Poll
  <2>1. polled' \in 0..Len(stored')
    BY <1>3 DEF Poll, FInv, TypeOK
  <2>2. TypeOK'
    BY <1>3, <2>1 DEF Poll, Render, FInv, TypeOK, Total, page, session
  <2>3. QED BY <1>1, <1>3, <2>2, TestsStill DEF Poll, FInv
<1>4. ASSUME NEW p \in Pdfs \cup {NoPdf}, NEW n \in Counts, Choose(p, n)
      PROVE  FInv'
  <2>1. /\ chosen' \in [pdf : Pdfs \cup {NoPdf}, count : Counts] /\ Render
        /\ UNCHANGED <<stored, polled, awaiting, request, patience, generating, asked, session,
                      submission, failures>>
    BY <1>4 DEF Choose
  <2>2. TypeOK'
    BY <2>1 DEF Render, FInv, TypeOK, Total, session
  <2>3. QED BY <1>1, <2>1, <2>2, TestsStill DEF FInv
<1>5. CASE Restart
  <2>1. active \in List
    BY <1>5, ActiveListed DEF Restart, FInv, PInv
  <2>2. QED BY <1>1, <1>5, <2>1, SessionKeepsAll DEF Restart, page, FInv, TypeOK
<1>6. CASE StartExisting
  <2>1. Newest(Fitting(chosen)) \in List
    BY <1>6, NewestIsOne DEF StartExisting, Fitting, FInv, PInv
  <2>2. chosen \in Orders
    BY <1>6, StartIsOrder DEF StartExisting, FInv, PInv
  <2>3. QED BY <1>1, <1>6, <2>1, <2>2, SessionKeepsAll DEF StartExisting
<1>7. CASE StartGenerating
  <2>1. List \subseteq 1..MaxTests
    BY ListStored, StoredTest DEF FInv, PInv
  <2>2. request'.order \in Orders /\ request'.existing \subseteq 1..MaxTests /\ asked' \in Orders
    BY <1>7, <2>1, StartIsOrder DEF StartGenerating, FInv, PInv
  <2>3. TypeOK'
    BY <1>7, <2>2 DEF StartGenerating, Render, FInv, TypeOK, Total, session
  <2>4. QED BY <1>1, <1>7, <2>3, TestsStill DEF StartGenerating, FInv
<1>8. CASE GenerateAccepted \/ GenerateRefused \/ TimeoutEffect \/ WaitRunsOut
  <2>1. TypeOK'
    BY <1>8 DEF GenerateAccepted, GenerateRefused, TimeoutEffect, WaitRunsOut, GiveUp,
       StopWaiting, Render, FInv, TypeOK, Total, session
  <2>2. QED BY <1>1, <1>8, <2>1, TestsStill DEF GenerateAccepted, GenerateRefused,
           TimeoutEffect, WaitRunsOut, FInv
<1>9. CASE MatchEffect
  <2> DEFINE found == Fitting(request.order) \ request.existing
  <2>1. Newest(found) \in List
    BY <1>9, NewestIsOne DEF MatchEffect, Fitting, FInv, PInv
  <2>2. QED BY <1>1, <1>9, <2>1, SessionKeepsAll DEF MatchEffect, FInv, TypeOK
<1>10. ASSUME NEW o \in Picks, SelectOption(o) PROVE FInv'
  <2>1. answers' \in [0..(MaxQuestions - 1) -> Picks \cup {Skip}]
    BY <1>10 DEF SelectOption, FInv, TypeOK
  <2>2. TypeOK'
    BY <1>10, <2>1 DEF SelectOption, Render, FInv, TypeOK, Total, page
  <2>3. QED BY <1>1, <1>10, <2>2, TestsStill DEF SelectOption, FInv
<1>11. CASE PreviousQuestion \/ NextQuestion
  <2>1. active \in DOMAIN stored
    BY <1>11, ListStored DEF PreviousQuestion, NextQuestion, Shown, activeTest, FInv, PInv
  <2>2. Total(active) \in 1..MaxQuestions /\ index \in 0..(MaxQuestions - 1)
    BY <2>1, StoredTest DEF FInv, TypeOK
  <2>3. index' \in 0..(MaxQuestions - 1)
    BY <1>11, <2>2, BoundsAssumption DEF PreviousQuestion, NextQuestion, Move
  <2>4. UNCHANGED <<stored, polled, page, active, started, answers, timer, submission, failures>> /\ Render
    BY <1>11 DEF PreviousQuestion, NextQuestion, Move
  <2>5. TypeOK'
    BY <2>3, <2>4 DEF Render, FInv, TypeOK, Total, page
  <2>6. QED BY <1>1, <2>4, <2>5, TestsStill DEF FInv
<1>12. CASE Tick \/ RenderSubmission
  <2>1. timer' \in 0..MaxQuestions
    BY <1>12, BoundsAssumption DEF Tick, RenderSubmission, FInv, TypeOK, session
  <2>2. TypeOK'
    BY <1>12, <2>1 DEF Tick, RenderSubmission, Render, isSubmitting, FInv, TypeOK, Total, page, session
  <2>3. QED BY <1>1, <1>12, <2>2, TestsStill DEF Tick, RenderSubmission, FInv
<1>13. CASE SubmitLast \/ SubmitExpired
  <2>1. active \in 1..MaxTests \cup {NoTest} /\ handleSubmit
    BY <1>13, StoredTest DEF SubmitLast, SubmitExpired, FInv, TypeOK
  <2>2. NoGrade \in [correct : Nat, incorrect : Nat, score : Nat, results : Seq(Nat)]
    BY DEF NoGrade
  <2> HIDE DEF NoGrade
  <2>3. submission' \in Submission /\ submission'.status # "ok"
    BY <2>1, <2>2 DEF handleSubmit, Submission, FInv, TypeOK
  <2>4. TypeOK'
    BY <2>1, <2>3 DEF handleSubmit, FInv, TypeOK, Total, page, session
  <2>5. QED BY <1>1, <2>1, <2>3, <2>4, TestsStill DEF handleSubmit, FInv
<1>14. CASE SubmitFails
  <2>1. /\ submission' = [submission EXCEPT !.status = "failed"]
        /\ failures' = failures + 1 /\ failures < MaxFailures
    BY <1>14 DEF SubmitFails
  <2>2. submission' \in Submission /\ submission'.status # "ok"
    BY <2>1 DEF Submission, FInv, TypeOK
  <2>3. failures' \in 0..MaxFailures
    BY <2>1, BoundsAssumption DEF FInv, TypeOK
  <2>4. TypeOK'
    BY <1>14, <2>2, <2>3 DEF SubmitFails, Render, FInv, TypeOK, Total, page, session
  <2>5. QED BY <1>1, <1>14, <2>2, <2>4, TestsStill DEF SubmitFails, FInv
<1>15. CASE Graded
  <2> DEFINE g == submit(stored[submission.test].questions, Entries(submission))
  <2>1. submission.test \in DOMAIN stored
    BY <1>15, SessionStored DEF Graded, isSubmitting, FInv
  <2>2. g \in [correct : Nat, incorrect : Nat, score : Nat, results : Seq(Nat)]
    BY <2>1, GradeType
  <2>3. /\ submission' = [submission EXCEPT !.status = "ok", !.graded = g]
        /\ UNCHANGED <<stored, polled, page, session, failures>> /\ Render
    BY <1>15 DEF Graded
  <2> HIDE DEF g
  <2>4. /\ submission' \in Submission /\ submission'.graded = g
        /\ submission'.test = submission.test /\ submission'.sent = submission.sent
    BY <2>2, <2>3 DEF Submission, FInv, TypeOK
  <2>5. TypeOK'
    BY <2>3, <2>4 DEF Render, FInv, TypeOK, Total, page, session
  <2>6. Entries(submission)' = Entries(submission)
    BY <2>3, <2>4 DEF Entries, Total
  <2>7. GradedBySubmit'
    BY <2>3, <2>4, <2>6 DEF GradedBySubmit, g
  <2>8. QuestionsWellFormed' /\ TestsAreLists'
    BY <2>3 DEF FInv, QuestionsWellFormed, TestsAreLists
  <2>9. QED BY <1>1, <2>5, <2>7, <2>8 DEF FInv
<1>16. CASE UNCHANGED vars
  <2>1. TypeOK'
    BY <1>16 DEF vars, FInv, TypeOK, Total, page, session
  <2>2. QED BY <1>1, <1>16, <2>1, TestsStill DEF vars, FInv
<1>17. ASSUME NEW p \in Pdfs \cup {NoPdf}, handleTogglePdf(p) \/ SelectReady(p) PROVE FInv'
  BY <1>4, <1>17 DEF handleTogglePdf, SelectReady, FInv, TypeOK
<1>18. ASSUME NEW n \in Counts, setQuestionCount(n) PROVE FInv'
  BY <1>4, <1>18 DEF setQuestionCount, FInv, TypeOK
<1>19. QED
  BY <1>2, <1>3, <1>5, <1>6, <1>7, <1>8, <1>9, <1>10, <1>11, <1>12, <1>13, <1>14, <1>15, <1>16,
     <1>17, <1>18 DEF Next

-----------------------------------------------------------------------------
(* Types, well-formed questions, the session asked for and its own result,  *)
(* in every reachable state.                                                *)
THEOREM PageIsSafe == Spec => []IInv
<1>1. FInv => IInv
  BY ListedIsAsked DEF FInv, PInv, IInv
<1>2. QED BY FInit, FNext, <1>1, PTL DEF Spec

(* The invariant gives what the score means. *)
LEMMA ScoreFromInv == FInv => ScoreIsShare
<1> SUFFICES ASSUME FInv, isSuccess PROVE ScoreIsShare
  BY DEF ScoreIsShare
<1>1. submission.test \in DOMAIN stored
  BY SessionStored DEF FInv, isSuccess
<1>2. PICK S : stored[submission.test].questions \in Seq(S)
  BY <1>1, StoredTest
<1>3. PICK questions \in Seq(S) : questions = stored[submission.test].questions
  BY <1>2
<1>4. PICK n \in Nat \ {0} : n = Len(questions)
  BY <1>1, <1>3, StoredTest, BoundsAssumption DEF Total
<1>5. PICK sent : sent = submission.sent
  OBVIOUS
<1>6. Entries(submission) = EntriesOf(sent, n)
  BY <1>3, <1>4, <1>5 DEF Entries, EntriesOf, Total
<1>7. PICK R : R = RightOf(questions, sent, n)
  OBVIOUS
<1>8. PICK W : W = WrongOf(questions, sent, n)
  OBVIOUS
<1>9. PICK K : K = {i \in 1..n : sent[i - 1] = Skip}
  OBVIOUS
<1>10. \A i \in 1..n : questions[i].correctAnswer # Skip
  <2>1. DOMAIN questions = 1..n
    BY <1>3, <1>4
  <2>2. QED BY <1>1, <1>3, <2>1, SkipAssumption DEF FInv, QuestionsWellFormed
<1>11. /\ Cardinality(R) \in 0..n /\ Cardinality(W) \in Nat
       /\ Cardinality(R) + Cardinality(W) + Cardinality(K) = n
  BY <1>7, <1>8, <1>9, <1>10, EveryQuestionCounts
<1>12. PICK c \in 0..n : c = Cardinality(R)
  BY <1>11
<1>13. PICK x \in 0..1000 : IsShare(x, c, n)
  BY TenthsRound
<1>14. PICK k \in 0..n : k = Cardinality(K)
  <2>1. K \in SUBSET (1..n)
    BY <1>9
  <2>2. QED BY <2>1, ShiftCount
<1>15. PICK w \in Nat : w = Cardinality(W)
  BY <1>11
<1>16. submission.graded =
         [correct |-> c, incorrect |-> w, score |-> x, results |-> [i \in 1..n |-> i - 1]]
  <2>1. x = Tenths(c, n)
    BY <1>13 DEF IsShare
  <2>2. submission.graded = submit(questions, EntriesOf(sent, n))
    BY <1>3, <1>6 DEF FInv, GradedBySubmit
  <2>3. submit(questions, EntriesOf(sent, n)) =
          [correct |-> Cardinality(R), incorrect |-> Cardinality(W),
           score |-> Tenths(Cardinality(R), n), results |-> [i \in 1..n |-> i - 1]]
    BY <1>4, <1>7, <1>8, SubmitOfEntries
  <2>4. QED BY <1>12, <1>15, <2>1, <2>2, <2>3, Zenon
<1> DEFINE right == {q \in 0..(n - 1) : sent[q] = questions[q + 1].correctAnswer}
           skipped == {q \in 0..(n - 1) : sent[q] = Skip}
<1>17. c = Cardinality(right)
  <2>1. right = {q \in 0..(n - 1) : q + 1 \in R}
    <3>1. \A q \in 0..(n - 1) : q + 1 \in 1..n /\ (q + 1) - 1 = q
      OBVIOUS
    <3>2. QED BY <1>7, <3>1 DEF RightOf
  <2>2. R \in SUBSET (1..n)
    BY <1>7 DEF RightOf
  <2> HIDE DEF right
  <2>3. QED BY <1>12, <2>1, <2>2, ShiftCount
<1>18. k = Cardinality(skipped)
  <2>1. skipped = {q \in 0..(n - 1) : q + 1 \in K}
    <3>1. \A q \in 0..(n - 1) : q + 1 \in 1..n /\ (q + 1) - 1 = q
      OBVIOUS
    <3>2. QED BY <1>9, <3>1
  <2>2. K \in SUBSET (1..n)
    BY <1>9
  <2> HIDE DEF skipped
  <2>3. QED BY <1>14, <2>1, <2>2, ShiftCount
<1>19. c + w + k = n
  BY <1>11, <1>12, <1>14, <1>15
<1>20. /\ stored[submission.test].questions = questions /\ Len(questions) = n
       /\ submission.sent = sent
  BY <1>3, <1>4, <1>5
<1>21. /\ submission.graded.correct = c /\ submission.graded.incorrect = w
       /\ submission.graded.score = x
       /\ \A q \in 0..(n - 1) : submission.graded.results[q + 1] = q
  BY <1>16
<1>22. /\ submission.graded.correct = Cardinality(right)
       /\ submission.graded.correct + submission.graded.incorrect + Cardinality(skipped) = n
       /\ 2 * (submission.graded.score * n - 1000 * submission.graded.correct) \in -n..n
       /\ submission.graded.score \in 0..1000
  <2> HIDE DEF right, skipped
  <2>1. QED BY <1>13, <1>17, <1>18, <1>19, <1>21 DEF IsShare
<1>23. QED
  <2> DEFINE list == stored[submission.test].questions
             rightHere == {q \in 0..(Len(list) - 1) :
                             submission.sent[q] = list[q + 1].correctAnswer}
             skippedHere == {q \in 0..(Len(list) - 1) : submission.sent[q] = Skip}
  <2>1. list = questions /\ Len(list) = n
    BY <1>20, Zenon
  <2>2. rightHere = right /\ skippedHere = skipped
    BY <1>20
  <2>3. /\ submission.graded.correct = Cardinality(rightHere)
        /\ submission.graded.correct + submission.graded.incorrect +
             Cardinality(skippedHere) = Len(list)
        /\ 2 * (submission.graded.score * Len(list) - 1000 * submission.graded.correct)
             \in -Len(list)..Len(list)
        /\ submission.graded.score \in 0..1000
        /\ \A q \in 0..(Len(list) - 1) : submission.graded.results[q + 1] = q
    <3> HIDE DEF rightHere, skippedHere, right, skipped
    <3>1. QED BY <1>21, <1>22, <2>1, <2>2
  <2>4. QED BY <2>3 DEF ScoreIsShare

(* The score that is shown is the share of questions answered right, to a   *)
(* tenth of a percent and never above 100, and every question counts once.  *)
THEOREM ScoreIsTheShare == Spec => []ScoreIsShare
<1>1. QED BY FInit, FNext, ScoreFromInv, PTL DEF Spec
=============================================================================
