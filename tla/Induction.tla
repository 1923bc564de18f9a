------------------------------ MODULE Induction ------------------------------
(***************************************************************************)
(* Induction over a set of numbers, and what it shows of the folds of the  *)
(* community modules: a fold over a sequence is defined, and passes one    *)
(* element after the other.                                                *)
(***************************************************************************)
EXTENDS Integers, Sequences, FiniteSetsExt, SequencesExt, SequenceTheorems, WellFoundedInduction, TLAPS

LEMMA LeastOfSet ==
    ASSUME NEW T \in SUBSET Nat, T # {}
    PROVE  \E x \in T : \A y \in T : x <= y
<1>1. IsWellFoundedOn(OpToRel(<, Nat), Nat)
  BY NatLessThanWellFounded
<1>2. PICK x \in T : \A y \in T : ~ (<<y, x>> \in OpToRel(<, Nat))
  BY <1>1, WFMin
<1>3. \A y \in T : ~ (y < x)
  BY <1>2 DEF OpToRel
<1> QED
  BY <1>3

LEMMA SetInduction ==
    ASSUME NEW S, 0 \in S, \A n \in Nat : n \in S => n + 1 \in S
    PROVE  \A n \in Nat : n \in S
<1> SUFFICES ASSUME Nat \ S # {} PROVE FALSE
  OBVIOUS
<1>1. PICK x \in Nat \ S : \A y \in Nat \ S : x <= y
  BY LeastOfSet
<1> QED
  BY <1>1

LEMMA InductionUpTo ==
    ASSUME NEW n \in Nat, NEW S, 0 \in S, \A i \in 0 .. n - 1 : i \in S => i + 1 \in S
    PROVE  \A i \in 0 .. n : i \in S
<1> DEFINE T == {i \in Nat : i <= n => i \in S}
<1>1. 0 \in T /\ \A i \in Nat : i \in T => i + 1 \in T
  OBVIOUS
<1> HIDE DEF T
<1>2. \A i \in Nat : i \in T
  BY <1>1, SetInduction
<1> QED
  BY <1>2 DEF T

LEMMA MaxIs ==
    ASSUME NEW S \in SUBSET Int, NEW m \in S, \A x \in S : x <= m
    PROVE  Max(S) = m
<1>1. \A x \in S : (\A y \in S : x >= y) => x = m
  OBVIOUS
<1> QED
  BY <1>1 DEF Max

LEMMA MaxIn ==
    ASSUME NEW n \in Nat, NEW S \in SUBSET (1 .. n), S # {}
    PROVE  Max(S) \in S
<1> DEFINE T == {m \in Nat : \A y \in S : y <= m}
<1>1. T \in SUBSET Nat /\ n \in T
  OBVIOUS
<1>2. PICK m \in T : \A y \in T : m <= y
  BY <1>1, LeastOfSet
<1>3. m \in S
  <2> SUFFICES ASSUME m \notin S PROVE FALSE
    OBVIOUS
  <2>1. PICK y \in S : y <= m
    OBVIOUS
  <2>2. m - 1 \in Nat /\ \A x \in S : x <= m - 1
    BY <2>1
  <2>3. m - 1 \in T
    BY <2>2
  <2> QED
    BY <2>3, <1>2
<1> QED
  BY <1>2, <1>3, MaxIs

LEMMA MinIn ==
    ASSUME NEW n \in Nat, NEW S \in SUBSET (1 .. n), S # {}
    PROVE  Min(S) \in S /\ \A y \in S : Min(S) <= y
<1>1. PICK m \in S : \A y \in S : m <= y
  BY LeastOfSet
<1>2. \A x \in S : (\A y \in S : x <= y) => x = m
  BY <1>1
<1> QED
  BY <1>1, <1>2 DEF Min

IsFold(f, V, q, v0, g) ==
    /\ f \in [SUBSET (1 .. Len(q)) -> V]
    /\ f[{}] = v0
    /\ \A s \in SUBSET (1 .. Len(q)) : s # {} => f[s] = g[f[s \ {Max(s)}]][q[Max(s)]]

LEMMA FoldDefined ==
    \A V, E : \A q \in Seq(E), v0 \in V, g \in [V -> [E -> V]] : \E f : IsFold(f, V, q, v0, g)
<1> TAKE V, E
<1> TAKE q \in Seq(E), v0 \in V, g \in [V -> [E -> V]]
<1> DEFINE n == Len(q)
<1>0. n \in Nat /\ \A i \in 1 .. n : q[i] \in E
  OBVIOUS
<1> HIDE DEF n
<1> DEFINE Eq(f, k) == f = [s \in SUBSET (1 .. k) |->
                        IF s = {} THEN v0 ELSE g[f[s \ {Max(s)}]][q[Max(s)]]]
           Has(k) == \E f \in [SUBSET (1 .. k) -> V] : Eq(f, k)
           Good == {k \in Nat : k <= n => Has(k)}
<1>1. Has(0)
  <2> DEFINE f == [s \in SUBSET (1 .. 0) |-> v0]
  <2>1. f \in [SUBSET (1 .. 0) -> V]
    OBVIOUS
  <2>2. \A s \in SUBSET (1 .. 0) : s = {}
    OBVIOUS
  <2>3. Eq(f, 0)
    BY <2>2
  <2> QED
    BY <2>1, <2>3
<1>2. ASSUME NEW k \in Nat, Has(k), k + 1 <= n PROVE Has(k + 1)
  <2>1. PICK f \in [SUBSET (1 .. k) -> V] : Eq(f, k)
    BY <1>2
  <2> DEFINE h == [s \in SUBSET (1 .. k + 1) |->
                      IF s \in SUBSET (1 .. k) THEN f[s] ELSE g[f[s \ {k + 1}]][q[k + 1]]]
  <2>2. ASSUME NEW s \in SUBSET (1 .. k + 1), s \notin SUBSET (1 .. k)
        PROVE  s \ {k + 1} \in SUBSET (1 .. k) /\ Max(s) = k + 1 /\ s # {}
    <3>1. PICK x \in s : x \notin 1 .. k
      BY <2>2
    <3>2. x = k + 1
      BY <3>1
    <3>3. k + 1 \in s /\ s \in SUBSET Int /\ \A y \in s : y <= k + 1
      BY <3>1, <3>2
    <3>4. Max(s) = k + 1
      BY <3>3, MaxIs
    <3>5. s \ {k + 1} \in SUBSET (1 .. k)
      OBVIOUS
    <3> QED
      BY <3>3, <3>4, <3>5
  <2>3. h \in [SUBSET (1 .. k + 1) -> V]
    <3>1. q[k + 1] \in E
      BY <1>0, <1>2
    <3>2. \A v \in V : g[v][q[k + 1]] \in V
      BY <3>1
    <3>3. ASSUME NEW s \in SUBSET (1 .. k + 1) PROVE h[s] \in V
      <4>1. CASE s \in SUBSET (1 .. k)
        BY <4>1
      <4>2. CASE s \notin SUBSET (1 .. k)
        <5>1. f[s \ {k + 1}] \in V
          BY <4>2, <2>2
        <5> QED
          BY <4>2, <5>1, <3>2
      <4> QED
        BY <4>1, <4>2
    <3> QED
      BY <3>3
  <2>4. ASSUME NEW s \in SUBSET (1 .. k + 1)
        PROVE  h[s] = IF s = {} THEN v0 ELSE g[h[s \ {Max(s)}]][q[Max(s)]]
    <3>1. CASE s \notin SUBSET (1 .. k)
      BY <3>1, <2>2
    <3>2. CASE s \in SUBSET (1 .. k)
      <4>1. h[s] = f[s] /\ h[s \ {Max(s)}] = f[s \ {Max(s)}]
        BY <3>2
      <4>2. f[s] = IF s = {} THEN v0 ELSE g[f[s \ {Max(s)}]][q[Max(s)]]
        BY <2>1, <3>2
      <4> QED
        BY <4>1, <4>2
    <3> QED
      BY <3>1, <3>2
  <2>5. Eq(h, k + 1)
    BY <2>4
  <2> QED
    BY <2>3, <2>5
<1> HIDE DEF Has
<1>3. 0 \in Good /\ \A k \in Nat : k \in Good => k + 1 \in Good
  BY <1>0, <1>1, <1>2
<1> HIDE DEF Good
<1>4. n \in Good
  BY <1>0, <1>3, SetInduction
<1>5. Has(n)
  BY <1>0, <1>4 DEF Good
<1>6. PICK f \in [SUBSET (1 .. n) -> V] : Eq(f, n)
  BY <1>5 DEF Has
<1>7. f[{}] = v0 /\ \A s \in SUBSET (1 .. n) : s # {} => f[s] = g[f[s \ {Max(s)}]][q[Max(s)]]
  BY <1>6
<1>8. IsFold(f, V, q, v0, g)
  BY <1>7 DEF n, IsFold
<1> QED
  BY <1>8

LEMMA FoldPasses ==
    ASSUME NEW n \in Nat, NEW k \in 1 .. n
    PROVE  /\ Max(1 .. k) = k /\ (1 .. k) \ {k} = 1 .. k - 1
           /\ 1 .. k \in SUBSET (1 .. n) /\ 1 .. k # {}
<1>1. 1 .. k \in SUBSET Int /\ k \in 1 .. k /\ \A x \in 1 .. k : x <= k
  OBVIOUS
<1>2. Max(1 .. k) = k
  BY <1>1, MaxIs
<1> QED
  BY <1>2

(* The same of a fold that begins with the last element.                   *)
IsFoldBack(f, V, q, v0, g) ==
    /\ f \in [SUBSET (1 .. Len(q)) -> V]
    /\ f[{}] = v0
    /\ \A s \in SUBSET (1 .. Len(q)) : s # {} => f[s] = g[q[Min(s)]][f[s \ {Min(s)}]]

LEMMA MinIs ==
    ASSUME NEW S \in SUBSET Int, NEW m \in S, \A x \in S : m <= x
    PROVE  Min(S) = m
<1>1. \A x \in S : (\A y \in S : x <= y) => x = m
  OBVIOUS
<1> QED
  BY <1>1 DEF Min

LEMMA FoldBackDefined ==
    \A V, E : \A q \in Seq(E), v0 \in V, g \in [E -> [V -> V]] :
        \E f : IsFoldBack(f, V, q, v0, g)
<1> TAKE V, E
<1> TAKE q \in Seq(E), v0 \in V, g \in [E -> [V -> V]]
<1> DEFINE n == Len(q)
<1>0. n \in Nat /\ \A i \in 1 .. n : q[i] \in E
  OBVIOUS
<1> HIDE DEF n
<1> DEFINE Eq(f, k) == f = [s \in SUBSET (n - k + 1 .. n) |->
                        IF s = {} THEN v0 ELSE g[q[Min(s)]][f[s \ {Min(s)}]]]
           Has(k) == \E f \in [SUBSET (n - k + 1 .. n) -> V] : Eq(f, k)
           Good == {k \in Nat : k <= n => Has(k)}
<1>1. Has(0)
  <2> DEFINE f == [s \in SUBSET (n - 0 + 1 .. n) |-> v0]
  <2>1. f \in [SUBSET (n - 0 + 1 .. n) -> V]
    OBVIOUS
  <2>2. \A s \in SUBSET (n - 0 + 1 .. n) : s = {}
    BY <1>0
  <2>3. Eq(f, 0)
    BY <2>2
  <2> QED
    BY <2>1, <2>3
<1>2. ASSUME NEW k \in Nat, Has(k), k + 1 <= n PROVE Has(k + 1)
  <2> DEFINE i == n - k
             R == i + 1 .. n
  <2>0. i \in 1 .. n /\ n - k + 1 = i + 1 /\ n - (k + 1) + 1 = i
    BY <1>0, <1>2
  <2>1. PICK f \in [SUBSET R -> V] : Eq(f, k)
    BY <1>2, <2>0
  <2>1a. f = [s \in SUBSET R |-> IF s = {} THEN v0 ELSE g[q[Min(s)]][f[s \ {Min(s)}]]]
    BY <2>0, <2>1
  <2> HIDE DEF i
  <2> DEFINE h == [s \in SUBSET (i .. n) |->
                      IF s \in SUBSET R THEN f[s] ELSE g[q[i]][f[s \ {i}]]]
  <2>2. ASSUME NEW s \in SUBSET (i .. n), s \notin SUBSET R
        PROVE  s \ {i} \in SUBSET R /\ Min(s) = i /\ s # {}
    <3>1. PICK x \in s : x \notin R
      BY <2>2
    <3>2. x = i
      BY <1>0, <2>0, <3>1
    <3>3. i \in s /\ s \in SUBSET Int /\ \A y \in s : i <= y
      BY <1>0, <2>0, <3>1, <3>2
    <3>4. Min(s) = i
      BY <3>3, MinIs
    <3>5. s \ {i} \in SUBSET R
      BY <1>0, <2>0
    <3> QED
      BY <3>3, <3>4, <3>5
  <2>3. h \in [SUBSET (i .. n) -> V]
    <3>1. q[i] \in E
      BY <1>0, <2>0
    <3>2. \A v \in V : g[q[i]][v] \in V
      BY <3>1
    <3>3. ASSUME NEW s \in SUBSET (i .. n) PROVE h[s] \in V
      <4>1. CASE s \in SUBSET R
        BY <4>1
      <4>2. CASE s \notin SUBSET R
        <5>1. f[s \ {i}] \in V
          BY <4>2, <2>2
        <5> QED
          BY <4>2, <5>1, <3>2
      <4> QED
        BY <4>1, <4>2
    <3> QED
      BY <3>3
  <2>4. ASSUME NEW s \in SUBSET (i .. n)
        PROVE  h[s] = IF s = {} THEN v0 ELSE g[q[Min(s)]][h[s \ {Min(s)}]]
    <3>1. CASE s \notin SUBSET R
      <4>1. s \ {i} \in SUBSET R /\ Min(s) = i /\ s # {}
        BY <2>2, <3>1
      <4>2. s \ {i} \in SUBSET (i .. n)
        OBVIOUS
      <4>3. h[s] = g[q[i]][f[s \ {i}]] /\ h[s \ {i}] = f[s \ {i}]
        BY <3>1, <4>1, <4>2
      <4> QED
        BY <4>1, <4>3
    <3>2. CASE s \in SUBSET R
      <4>1. h[s] = f[s] /\ h[s \ {Min(s)}] = f[s \ {Min(s)}]
        BY <3>2
      <4>2. f[s] = IF s = {} THEN v0 ELSE g[q[Min(s)]][f[s \ {Min(s)}]]
        BY <2>1a, <3>2, Zenon
      <4> QED
        BY <4>1, <4>2
    <3> QED
      BY <3>1, <3>2
  <2>5. h = [s \in SUBSET (i .. n) |-> IF s = {} THEN v0 ELSE g[q[Min(s)]][h[s \ {Min(s)}]]]
    BY <2>4
  <2>6. Eq(h, k + 1) /\ h \in [SUBSET (n - (k + 1) + 1 .. n) -> V]
    BY <2>0, <2>3, <2>5
  <2> QED
    BY <2>6
<1> HIDE DEF Has
<1>3. 0 \in Good /\ \A k \in Nat : k \in Good => k + 1 \in Good
  BY <1>0, <1>1, <1>2
<1> HIDE DEF Good
<1>4. n \in Good
  BY <1>0, <1>3, SetInduction
<1>5. Has(n)
  BY <1>0, <1>4 DEF Good
<1>6. PICK f \in [SUBSET (n - n + 1 .. n) -> V] : Eq(f, n)
  BY <1>5 DEF Has
<1>7. n - n + 1 = 1
  BY <1>0
<1>8. /\ f \in [SUBSET (1 .. n) -> V] /\ f[{}] = v0
      /\ \A s \in SUBSET (1 .. n) : s # {} => f[s] = g[q[Min(s)]][f[s \ {Min(s)}]]
  BY <1>6, <1>7
<1>9. IsFoldBack(f, V, q, v0, g)
  BY <1>8 DEF n, IsFoldBack
<1> QED
  BY <1>9

LEMMA FoldPassesBack ==
    ASSUME NEW n \in Nat, NEW k \in 1 .. n
    PROVE  /\ Min(k .. n) = k /\ (k .. n) \ {k} = k + 1 .. n
           /\ k .. n \in SUBSET (1 .. n) /\ k .. n # {}
<1>1. k .. n \in SUBSET Int /\ k \in k .. n /\ \A x \in k .. n : k <= x
  OBVIOUS
<1>2. Min(k .. n) = k
  BY <1>1, MinIs
<1> QED
  BY <1>2

-----------------------------------------------------------------------------
(* A sequence of numbers in which each is less than the next rises.        *)
LEMMA Rising ==
    ASSUME NEW n \in Nat, NEW a \in [1 .. n -> Int], \A i \in 1 .. n - 1 : a[i] < a[i + 1],
           NEW i \in 1 .. n, NEW j \in 1 .. n, i < j
    PROVE  a[i] < a[j]
<1> DEFINE S == {k \in Nat : i + k + 1 <= n => a[i] < a[i + k + 1]}
<1>1. 0 \in S
  OBVIOUS
<1>2. ASSUME NEW k \in Nat, k \in S PROVE k + 1 \in S
  <2>1. SUFFICES ASSUME i + k + 2 <= n PROVE a[i] < a[i + k + 2]
    OBVIOUS
  <2>2. a[i] < a[i + k + 1]
    BY <1>2, <2>1
  <2>3. i + k + 1 \in 1 .. n - 1 /\ (i + k + 1) + 1 = i + k + 2 /\ i + k + 2 \in 1 .. n
    BY <2>1
  <2>4. a[i + k + 1] < a[i + k + 2]
    BY <2>3
  <2>5. a[i] \in Int /\ a[i + k + 1] \in Int /\ a[i + k + 2] \in Int
    BY <2>3
  <2> QED
    BY <2>2, <2>4, <2>5
<1> HIDE DEF S
<1>3. j - i - 1 \in S /\ j - i - 1 \in Nat
  <2>1. j - i - 1 \in Nat
    OBVIOUS
  <2>2. \A k \in Nat : k \in S
    BY <1>1, <1>2, SetInduction
  <2> QED
    BY <2>1, <2>2
<1> QED
  BY <1>3 DEF S

(* A function that applies another to its value before is defined.         *)
AreRounds(f, V, n, v0, g) ==
    f \in [0 .. n -> V] /\ f[0] = v0 /\ \A k \in 1 .. n : f[k] = g[f[k - 1]]

LEMMA RoundsDefined ==
    \A V : \A v0 \in V, g \in [V -> V], n \in Nat : \E f : AreRounds(f, V, n, v0, g)
<1> TAKE V
<1> TAKE v0 \in V, g \in [V -> V], n \in Nat
<1> DEFINE Eq(f, m) == f = [k \in 0 .. m |-> IF k = 0 THEN v0 ELSE g[f[k - 1]]]
           Has(m) == \E f \in [0 .. m -> V] : Eq(f, m)
           S == {m \in Nat : Has(m)}
<1>1. Has(0)
  <2> DEFINE f == [k \in 0 .. 0 |-> v0]
  <2>1. f \in [0 .. 0 -> V] /\ Eq(f, 0)
    OBVIOUS
  <2> QED
    BY <2>1
<1>2. ASSUME NEW m \in Nat, Has(m) PROVE Has(m + 1)
  <2>1. PICK f \in [0 .. m -> V] : Eq(f, m)
    BY <1>2
  <2> DEFINE h == [k \in 0 .. m + 1 |-> IF k = m + 1 THEN g[f[m]] ELSE f[k]]
  <2>2. h \in [0 .. m + 1 -> V]
    <3>1. f[m] \in V /\ g[f[m]] \in V
      OBVIOUS
    <3>2. \A k \in 0 .. m + 1 : k # m + 1 => k \in 0 .. m
      OBVIOUS
    <3> QED
      BY <3>1, <3>2
  <2>3. ASSUME NEW k \in 0 .. m + 1
        PROVE  h[k] = IF k = 0 THEN v0 ELSE g[h[k - 1]]
    <3>1. CASE k = m + 1
      BY <3>1
    <3>2. CASE k # m + 1
      <4>1. k \in 0 .. m /\ h[k] = f[k] /\ (k # 0 => h[k - 1] = f[k - 1])
        BY <3>2
      <4>2. f[k] = IF k = 0 THEN v0 ELSE g[f[k - 1]]
        BY <2>1, <4>1
      <4> QED
        BY <4>1, <4>2
    <3> QED
      BY <3>1, <3>2
  <2>4. Eq(h, m + 1)
    BY <2>3
  <2> QED
    BY <2>2, <2>4
<1> HIDE DEF Has
<1>3. 0 \in S /\ \A m \in Nat : m \in S => m + 1 \in S
  BY <1>1, <1>2
<1> HIDE DEF S
<1>4. n \in S
  BY <1>3, SetInduction
<1>5. PICK f \in [0 .. n -> V] : Eq(f, n)
  BY <1>4 DEF S, Has
<1>6. f[0] = v0 /\ \A k \in 1 .. n : f[k] = g[f[k - 1]]
  BY <1>5
<1> QED
  BY <1>6 DEF AreRounds

(* A loop that goes on from n to step[n] until it comes into stop, and then *)
(* returns out: as a recursive function of the place where it begins.  The  *)
(* places it can come to from n are those in every set that holds n and is  *)
(* closed under the step, and nothing says that there are finitely many.    *)
IsLoopTo(f, A, stop, out, step) ==
    f = [n \in A |-> IF n \in stop THEN out[n] ELSE f[step[n]]]

LEMMA LoopDefined ==
    \A A : \A stop : \A out : \A step \in [A -> A] : \E f : IsLoopTo(f, A, stop, out, step)
<1> TAKE A
<1> TAKE stop
<1> TAKE out
<1> TAKE step \in [A -> A]
<1> DEFINE Closed(S) == \A x \in S : x \in stop \/ step[x] \in S
           From(n) == {x \in A : \A S \in SUBSET A : n \in S /\ Closed(S) => x \in S}
           Ends(n) == {x \in From(n) : x \in stop}
           f == [n \in A |-> out[CHOOSE x \in Ends(n) : TRUE]]
<1>1. \A n \in A : step[n] \in A
  OBVIOUS
<1>2. \A n \in A : n \in stop => Closed({n})
  OBVIOUS
<1>3. ASSUME NEW n \in A, n \in stop PROVE Ends(n) = {n}
  <2>1. n \in From(n)
    OBVIOUS
  <2>2. From(n) \subseteq {n}
    <3> DEFINE T == {n}
    <3>1. n \in T /\ T \in SUBSET A /\ Closed(T)
      BY <1>2, <1>3
    <3> HIDE DEF T, Closed
    <3>2. From(n) \subseteq T
      BY <3>1
    <3> QED
      BY <3>2 DEF T
  <2> HIDE DEF From
  <2> QED
    BY <2>1, <2>2, <1>3
<1>4. ASSUME NEW n \in A, n \notin stop PROVE Ends(n) = Ends(step[n])
  <2> DEFINE m == step[n]
  <2>1. m \in A
    BY <1>1
  <2>2. From(m) \subseteq From(n)
    BY <1>4
  <2> DEFINE T == {n} \cup From(m)
  <2>3. Closed(T)
    <3>1. ASSUME NEW x \in From(m), x \notin stop PROVE step[x] \in From(m)
      BY <1>1, <3>1
    <3>2. m \in From(m)
      BY <2>1
    <3> HIDE DEF From
    <3> QED
      BY <3>1, <3>2
  <2>4. n \in T /\ T \in SUBSET A
    OBVIOUS
  <2> HIDE DEF T, Closed
  <2>5. From(n) \subseteq T
    BY <2>3, <2>4
  <2> HIDE DEF From
  <2> QED
    BY <1>4, <2>2, <2>5 DEF T
<1>5. ASSUME NEW n \in A PROVE f[n] = IF n \in stop THEN out[n] ELSE f[step[n]]
  <2>1. CASE n \in stop
    <3> HIDE DEF Ends
    <3> QED
      BY <1>3, <2>1
  <2>2. CASE n \notin stop
    <3> HIDE DEF Ends
    <3> QED
      BY <1>1, <1>4, <2>2
  <2> QED
    BY <2>1, <2>2
<1>6. f = [n \in A |-> f[n]]
  OBVIOUS
<1> HIDE DEF f
<1>7. IsLoopTo(f, A, stop, out, step)
  BY <1>5, <1>6 DEF IsLoopTo
<1> QED
  BY <1>7

-----------------------------------------------------------------------------
(* What RemoveAt leaves, and where: element j of the result was element    *)
(* Before(i, j), element j of the argument becomes element After(i, j).    *)
Before(i, j) == IF j < i THEN j ELSE j + 1
After(i, j)  == IF j < i THEN j ELSE j - 1

LEMMA RemoveAtIs ==
    ASSUME NEW E, NEW q \in Seq(E), NEW i \in 1 .. Len(q)
    PROVE  /\ RemoveAt(q, i) \in Seq(E)
           /\ Len(RemoveAt(q, i)) = Len(q) - 1
           /\ \A j \in 1 .. Len(q) - 1 : RemoveAt(q, i)[j] = q[Before(i, j)]
<1> DEFINE l == SubSeq(q, 1, i - 1)
           r == SubSeq(q, i + 1, Len(q))
<1>1. l \in Seq(E) /\ Len(l) = i - 1 /\ \A j \in 1 .. i - 1 : l[j] = q[j]
  OBVIOUS
<1>2. r \in Seq(E) /\ Len(r) = Len(q) - i /\ \A j \in 1 .. Len(q) - i : r[j] = q[j + i]
  OBVIOUS
<1>3. RemoveAt(q, i) = l \o r
  BY DEF RemoveAt
<1> HIDE DEF l, r
<1>4. /\ l \o r \in Seq(E) /\ Len(l \o r) = Len(q) - 1
      /\ \A j \in 1 .. Len(q) - 1 : (l \o r)[j] = IF j < i THEN l[j] ELSE r[j - i + 1]
  <2>1. l \o r \in Seq(E) /\ Len(l \o r) = Len(l) + Len(r)
    BY <1>1, <1>2, ConcatProperties
  <2>2. ASSUME NEW j \in 1 .. Len(q) - 1
        PROVE  (l \o r)[j] = IF j <= Len(l) THEN l[j] ELSE r[j - Len(l)]
    <3>1. j \in 1 .. Len(l) + Len(r)
      BY <1>1, <1>2
    <3> QED
      BY <1>1, <1>2, <3>1
  <2>3. ASSUME NEW j \in 1 .. Len(q) - 1
        PROVE  (l \o r)[j] = IF j < i THEN l[j] ELSE r[j - i + 1]
    <3>1. Len(l) = i - 1 /\ i \in Int /\ j \in Int
      BY <1>1
    <3>2. (j <= Len(l) <=> j < i) /\ j - Len(l) = j - i + 1
      BY <3>1
    <3> QED
      BY <2>2, <3>2
  <2> QED
    BY <2>1, <2>3, <1>1, <1>2
<1>5. ASSUME NEW j \in 1 .. Len(q) - 1 PROVE (l \o r)[j] = q[Before(i, j)]
  BY <1>1, <1>2, <1>4 DEF Before
<1> QED
  BY <1>3, <1>4, <1>5

LEMMA Places ==
    ASSUME NEW n \in Nat, NEW i \in 1 .. n
    PROVE  /\ \A j \in 1 .. n - 1 : Before(i, j) \in (1 .. n) \ {i}
           /\ \A j, k \in 1 .. n - 1 : j # k => Before(i, j) # Before(i, k)
           /\ \A j \in (1 .. n) \ {i} : After(i, j) \in 1 .. n - 1 /\ Before(i, After(i, j)) = j
BY DEF Before, After
=============================================================================
