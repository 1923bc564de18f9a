--------------------------- MODULE HashTable_proofs ---------------------------
(***************************************************************************)
(* The table is a table, for any number of buckets, addresses, rows and    *)
(* lines, as long as no bucket is shared in the ways that the code does    *)
(* not survive: a domain that expires with one of the file, or four        *)
(* domains that expire (TLC finds LoadedForEver, and with four domains     *)
(* ChainsIntact, violated then).                                           *)
(*                                                                         *)
(* The chain of a bucket is a sequence of nodes.  What the loops return is *)
(* read off that sequence, and each operation is shown to change the       *)
(* sequence of one bucket: to append a node, or to drop some of them.      *)
(***************************************************************************)
EXTENDS HashTable, HashChain_proofs

-----------------------------------------------------------------------------
(* The nodes of the chain of b in memory mem, of which malloc gave out `got'. *)
ChainOf(mem, got, b, s) ==
    /\ s \in Seq(Nodes) /\ Len(s) >= 1 /\ s[1] = b
    /\ \A i \in 1 .. Len(s) - 1 : mem[s[i]].next = s[i + 1]
    /\ mem[s[Len(s)]].next = Null
    /\ \A i \in 2 .. Len(s) : s[i] \in got
    /\ \A i, j \in 1 .. Len(s) : s[i] = s[j] => i = j

LEMMA TupleIs ==
  ASSUME NEW S, NEW l \in Nat, NEW f \in [1 .. l -> S]
  PROVE  f \in Seq(S) /\ Len(f) = l
OBVIOUS

LEMMA ChainHas ==
  ASSUME NEW mem, NEW got, NEW b, NEW s, ChainOf(mem, got, b, s)
  PROVE  /\ s \in Seq(Nodes) /\ Len(s) \in Nat \ {0} /\ s[1] = b
         /\ \A j \in 1 .. Len(s) : s[j] \in Nodes
         /\ \A j \in 1 .. Len(s) - 1 : mem[s[j]].next = s[j + 1]
         /\ mem[s[Len(s)]].next = Null
         /\ \A j \in 2 .. Len(s) : s[j] \in got
         /\ \A j, h \in 1 .. Len(s) : s[j] = s[h] => j = h
BY DEF ChainOf

LEMMA ChainIs ==
  ASSUME NEW mem, NEW got, NEW b, NEW s, NEW l \in Nat \ {0},
         s \in Seq(Nodes), Len(s) = l, s[1] = b,
         \A j \in 1 .. l - 1 : mem[s[j]].next = s[j + 1],
         mem[s[l]].next = Null,
         \A j \in 2 .. l : s[j] \in got,
         \A j, h \in 1 .. l : s[j] = s[h] => j = h
  PROVE  ChainOf(mem, got, b, s)
BY DEF ChainOf

(* The nodes a lookup can reach are those before the first hole.             *)
Live(mem, b, s, m) ==
    /\ m \in 0 .. Len(s)
    /\ \A i \in 1 .. m : /\ mem[s[i]].key \in Keys /\ mem[s[i]].value \in Rows
                         /\ Hash[mem[s[i]].key] = b
    /\ m < Len(s) => Hole(mem, s[m + 1])

KeyAt(mem, s, i) == mem[s[i]].key

\* A lookup walks along the chain to the first node with the domain
\* (FindNodeByKey).
Finds(mem, s, m, k, n) ==
    \/ \E i \in 1 .. m : /\ n = s[i] /\ KeyAt(mem, s, i) = k
                         /\ \A j \in 1 .. i - 1 : KeyAt(mem, s, j) # k
    \/ n = Null /\ \A i \in 1 .. m : KeyAt(mem, s, i) # k

LEMMA FindAlong ==
  ASSUME NEW mem \in Memory(Keys, Rows), NEW got, NEW b, NEW s, NEW m, NEW k \in Keys,
         ChainOf(mem, got, b, s), Live(mem, b, s, m)
  PROVE  Finds(mem, s, m, k, FindNodeByKey(mem, Text, b, k))
<1>1. PICK f : /\ IsLoop(f, mem, Text, k)
               /\ FindNodeByKey(mem, Text, b, k) = IF f[b] \in Nodes THEN f[b] ELSE Null
  BY FindIsLoop
<1>2. \A n \in Nodes \cup {Null} :
        f[n] = IF n = Null \/ Hole(mem, n) THEN Null
               ELSE IF Text[mem[n].key] = k THEN n
               ELSE f[mem[n].next]
  BY <1>1 DEF IsLoop
<1>3. Null \notin Nodes /\ Null \notin Keys /\ Null \notin Rows
  BY MemoryAssumption, TableAssumption DEF Nodes
<1>4. /\ Len(s) \in Nat \ {0} /\ s[1] = b /\ \A i \in 1 .. Len(s) : s[i] \in Nodes
      /\ \A i \in 1 .. Len(s) - 1 : mem[s[i]].next = s[i + 1]
      /\ mem[s[Len(s)]].next = Null
  BY DEF ChainOf
<1>5. m \in 0 .. Len(s) /\ (m < Len(s) => Hole(mem, s[m + 1]))
  BY DEF Live
<1>6. \A i \in 1 .. m : ~Hole(mem, s[i]) /\ Text[mem[s[i]].key] = KeyAt(mem, s, i)
  BY <1>3 DEF Live, Hole, Text, KeyAt
<1> DEFINE Skips(i) == \A j \in 1 .. i - 1 : KeyAt(mem, s, j) # k
           T == {i \in 0 .. m : Skips(i + 1) => f[b] = IF i < Len(s) THEN f[s[i + 1]] ELSE Null}
<1>7. \A i \in 0 .. m : i \in T
  <2>1. 0 \in T
    BY <1>4, <1>5
  <2>2. ASSUME NEW i \in 0 .. m - 1, i \in T PROVE i + 1 \in T
    <3> SUFFICES ASSUME Skips(i + 2)
                 PROVE  f[b] = IF i + 1 < Len(s) THEN f[s[i + 2]] ELSE Null
      BY <1>5
    <3>1. i + 1 \in 1 .. m /\ i + 1 \in 1 .. Len(s) /\ i < Len(s) /\ Skips(i + 1)
          /\ KeyAt(mem, s, i + 1) # k
      BY <1>4, <1>5
    <3>2. f[b] = f[s[i + 1]]
      BY <2>2, <3>1
    <3>3. f[s[i + 1]] = f[mem[s[i + 1]].next]
      <4>1. s[i + 1] \in Nodes /\ ~Hole(mem, s[i + 1]) /\ Text[mem[s[i + 1]].key] # k
        BY <1>4, <1>6, <3>1
      <4> QED
        BY <1>2, <1>3, <4>1
    <3>4. CASE i + 1 < Len(s)
      <4>1. mem[s[i + 1]].next = s[i + 2]
        BY <1>4, <3>1, <3>4
      <4> QED
        BY <3>2, <3>3, <3>4, <4>1
    <3>5. CASE ~(i + 1 < Len(s))
      <4>1. mem[s[i + 1]].next = Null /\ f[Null] = Null
        BY <1>2, <1>4, <3>1, <3>5
      <4> QED
        BY <3>2, <3>3, <3>5, <4>1
    <3> QED
      BY <3>4, <3>5
  <2> HIDE DEF T
  <2>3. m \in Nat
    BY <1>4, <1>5
  <2> QED
    BY <2>1, <2>2, <2>3, InductionUpTo
<1>8. CASE \A i \in 1 .. m : KeyAt(mem, s, i) # k
  <2>1. f[b] = IF m < Len(s) THEN f[s[m + 1]] ELSE Null
    <3>1. m \in 0 .. m /\ Skips(m + 1)
      BY <1>4, <1>5, <1>8
    <3>2. m \in T
      BY <1>7, <3>1
    <3> QED
      BY <3>1, <3>2
  <2>2. m < Len(s) => f[s[m + 1]] = Null
    BY <1>2, <1>4, <1>5
  <2>3. f[b] = Null
    BY <2>1, <2>2
  <2> QED
    BY <1>1, <1>3, <1>8, <2>3 DEF Finds
<1>9. CASE ~(\A i \in 1 .. m : KeyAt(mem, s, i) # k)
  <2> DEFINE H == {i \in Nat : i \in 1 .. m /\ KeyAt(mem, s, i) = k}
  <2>1. PICK i \in H : \A j \in H : i <= j
    <3>1. H \in SUBSET Nat /\ H # {}
      BY <1>4, <1>5, <1>9
    <3> HIDE DEF H
    <3> QED
      BY <3>1, LeastOfSet
  <2>2. i \in 1 .. m /\ KeyAt(mem, s, i) = k /\ Skips(i)
    BY <1>4, <1>5, <2>1
  <2>3. f[b] = f[s[i]]
    <3>1. i - 1 \in 0 .. m /\ (i - 1) + 1 = i /\ i - 1 < Len(s)
      BY <1>4, <1>5, <2>2
    <3>2. i - 1 \in T
      BY <1>7, <3>1
    <3> QED
      BY <2>2, <3>1, <3>2
  <2>4. f[s[i]] = s[i] /\ s[i] \in Nodes
    <3>1. i \in 1 .. Len(s)
      BY <1>4, <1>5, <2>2
    <3>2. s[i] \in Nodes /\ ~Hole(mem, s[i]) /\ Text[mem[s[i]].key] = k
      BY <1>4, <1>6, <2>2, <3>1
    <3> QED
      BY <1>2, <1>3, <3>2
  <2> QED
    BY <1>1, <2>2, <2>3, <2>4 DEF Finds
<1> QED
  BY <1>8, <1>9

\* The row of a domain, as the chain has it.
Answers(mem, s, m, k, x) ==
    \/ \E i \in 1 .. m : /\ x = mem[s[i]].value /\ KeyAt(mem, s, i) = k
                         /\ \A j \in 1 .. i - 1 : KeyAt(mem, s, j) # k
    \/ x = Null /\ \A i \in 1 .. m : KeyAt(mem, s, i) # k

RowIn(mem, k) == FindValueByKey(mem, Text, Hash[k], k)

LEMMA RowAnswers ==
  ASSUME NEW mem \in Memory(Keys, Rows), NEW got, NEW s, NEW m, NEW k \in Keys,
         ChainOf(mem, got, Hash[k], s), Live(mem, Hash[k], s, m)
  PROVE  Answers(mem, s, m, k, RowIn(mem, k))
<1> DEFINE n == FindNodeByKey(mem, Text, Hash[k], k)
<1>1. Finds(mem, s, m, k, n)
  BY FindAlong
<1>2. RowIn(mem, k) = IF n = Null THEN Null ELSE mem[n].value
  BY DEF RowIn, FindValueByKey
<1> HIDE DEF n
<1>3. ASSUME NEW i \in 1 .. m, n = s[i] PROVE n # Null
  <2>1. m \in 0 .. Len(s) /\ Len(s) \in Nat /\ s \in Seq(Nodes)
    BY DEF ChainOf, Live
  <2>2. s[i] \in Nodes
    BY <2>1
  <2> QED
    BY <1>3, <2>2, MemoryAssumption DEF Nodes
<1> QED
  BY <1>1, <1>2, <1>3 DEF Finds, Answers

LEMMA OneAnswer ==
  ASSUME NEW mem, NEW s, NEW m \in Nat, NEW k, NEW x, NEW y,
         Answers(mem, s, m, k, x), Answers(mem, s, m, k, y)
  PROVE  x = y
<1>1. CASE \A i \in 1 .. m : KeyAt(mem, s, i) # k
  BY <1>1 DEF Answers
<1>2. CASE ~(\A i \in 1 .. m : KeyAt(mem, s, i) # k)
  <2>1. PICK i \in 1 .. m : /\ x = mem[s[i]].value /\ KeyAt(mem, s, i) = k
                            /\ \A j \in 1 .. i - 1 : KeyAt(mem, s, j) # k
    BY <1>2 DEF Answers
  <2>2. PICK j \in 1 .. m : /\ y = mem[s[j]].value /\ KeyAt(mem, s, j) = k
                            /\ \A h \in 1 .. j - 1 : KeyAt(mem, s, h) # k
    BY <1>2 DEF Answers
  <2>3. i = j
    BY <2>1, <2>2
  <2> QED
    BY <2>1, <2>2, <2>3
<1> QED
  BY <1>1, <1>2

\* InsertHashItem finds the last node of the chain, and the one before it if the
\* chain has three nodes with the new one (ChainEnd).
LEMMA EndOfChain ==
  ASSUME NEW mem \in Memory(Keys, Rows), NEW got, NEW b \in Buckets, NEW s,
         ChainOf(mem, got, b, s)
  PROVE  /\ ChainEnd(mem, b)[1] = s[Len(s)]
         /\ ChainEnd(mem, b)[2] = IF Len(s) = 1 THEN Null ELSE s[Len(s) - 1]
<1> DEFINE Eq(f) == f = [n \in Nodes |->
                           LET succ == mem[n].next
                           IN  IF succ = Null THEN <<n, Null>>
                               ELSE IF mem[succ].next = Null THEN <<succ, n>>
                               ELSE f[succ]]
           from == CHOOSE f : Eq(f)
           Next1(n) == mem[n].next
           stop == {n \in Nodes : Next1(n) = Null \/ mem[Next1(n)].next = Null}
           out == [n \in Nodes |-> IF Next1(n) = Null THEN <<n, Null>> ELSE <<Next1(n), n>>]
           step == [n \in Nodes |-> IF Next1(n) = Null THEN n ELSE Next1(n)]
<1>1. step \in [Nodes -> Nodes]
  BY DEF Memory
<1>2. PICK f : IsLoopTo(f, Nodes, stop, out, step)
  <2> HIDE DEF stop, out, step
  <2> QED
    BY <1>1, LoopDefined
<1>3. /\ f = [n \in Nodes |-> f[n]]
      /\ \A n \in Nodes : f[n] = IF n \in stop THEN out[n] ELSE f[step[n]]
  <2> HIDE DEF stop, out, step
  <2> QED
    BY <1>2 DEF IsLoopTo
<1>4. ASSUME NEW n \in Nodes
      PROVE  f[n] = IF Next1(n) = Null THEN <<n, Null>>
                    ELSE IF mem[Next1(n)].next = Null THEN <<Next1(n), n>>
                    ELSE f[Next1(n)]
  BY <1>3
<1>5. Eq(f)
  <2> HIDE DEF stop, out, step
  <2> QED
    BY <1>3, <1>4
<1>6. Eq(from)
  BY <1>5, Zenon
<1>7. \A n \in Nodes : from[n] = IF mem[n].next = Null THEN <<n, Null>>
                                 ELSE IF mem[mem[n].next].next = Null THEN <<mem[n].next, n>>
                                 ELSE from[mem[n].next]
  BY <1>6
<1>8. ChainEnd(mem, b) = IF from[b] \in Nodes \X (Nodes \cup {Null}) THEN from[b] ELSE <<b, Null>>
  BY Zenon DEF ChainEnd
<1> HIDE DEF from, Eq, stop, out, step
<1>9. /\ Len(s) \in Nat \ {0} /\ s[1] = b /\ \A i \in 1 .. Len(s) : s[i] \in Nodes
      /\ \A i \in 1 .. Len(s) - 1 : mem[s[i]].next = s[i + 1]
      /\ mem[s[Len(s)]].next = Null
  BY DEF ChainOf
<1>10. Null \notin Nodes
  BY MemoryAssumption DEF Nodes
<1>11. CASE Len(s) = 1
  <2>1. mem[b].next = Null /\ b \in Nodes
    BY <1>9, <1>11
  <2>2. from[b] = <<b, Null>>
    BY <1>7, <2>1
  <2>3. ChainEnd(mem, b) = <<b, Null>>
    BY <1>8, <2>2
  <2> QED
    BY <1>9, <1>11, <2>3
<1>12. CASE Len(s) # 1
  <2> DEFINE N == Len(s) - 1
             T == {i \in 0 .. N - 1 : from[b] = from[s[i + 1]]}
  <2>1. N \in Nat \ {0} /\ N + 1 = Len(s) /\ N - 1 \in Nat
    <3>1. \A l \in Nat \ {0, 1} : /\ l - 1 \in Nat \ {0} /\ (l - 1) + 1 = l
                                   /\ (l - 1) - 1 \in Nat
      OBVIOUS
    <3>2. Len(s) \in Nat \ {0, 1}
      BY <1>9, <1>12
    <3> QED
      BY <3>1, <3>2
  <2> HIDE DEF N
  <2>2. 0 \in T
    BY <1>9, <2>1
  <2>3. ASSUME NEW i \in 0 .. (N - 1) - 1, i \in T PROVE i + 1 \in T
    <3>1. /\ i + 1 \in 1 .. Len(s) - 1 /\ i + 2 \in 1 .. Len(s) - 1 /\ (i + 1) + 1 = i + 2
          /\ i + 3 \in 1 .. Len(s) /\ (i + 2) + 1 = i + 3 /\ i + 1 \in 0 .. N - 1
      BY <2>1
    <3>2. mem[s[i + 1]].next = s[i + 2] /\ mem[s[i + 2]].next = s[i + 3]
          /\ s[i + 1] \in Nodes /\ s[i + 2] \in Nodes /\ s[i + 3] \in Nodes
      BY <1>9, <3>1
    <3>3. from[s[i + 1]] = from[s[i + 2]]
      BY <1>7, <1>10, <3>2
    <3> QED
      BY <2>3, <3>1, <3>3
  <2> HIDE DEF T
  <2>4. N - 1 \in T
    <3>1. \A i \in 0 .. N - 1 : i \in T
      BY <2>1, <2>2, <2>3, InductionUpTo
    <3> QED
      BY <2>1, <3>1
  <2>5. from[b] = from[s[N]]
    BY <2>1, <2>4 DEF T
  <2>6. s[N] \in Nodes /\ s[N + 1] \in Nodes /\ mem[s[N]].next = s[N + 1]
        /\ mem[s[N + 1]].next = Null
    BY <1>9, <2>1
  <2>7. from[s[N]] = <<s[N + 1], s[N]>>
    BY <1>7, <1>10, <2>6
  <2>8. ChainEnd(mem, b) = <<s[N + 1], s[N]>>
    BY <1>8, <2>5, <2>6, <2>7
  <2> QED
    BY <1>12, <2>1, <2>8
<1> QED
  BY <1>11, <1>12

\* A walk along the chain meets its nodes in order (Visits).
LEMMA WalkIs ==
  ASSUME NEW mem \in Memory(Keys, Rows), NEW got \in SUBSET Addrs, NEW b \in Buckets, NEW s,
         ChainOf(mem, got, b, s), NEW i \in Steps
  PROVE  Visits(mem, b)[i] = IF i < Len(s) THEN s[i + 1] ELSE Null
<1> DEFINE at == Visits(mem, b)
           N == Cardinality(Addrs) + 1
<1>1. b \in Nodes
  BY DEF Nodes
<1>2. /\ at[0] = b
      /\ \A j \in Steps \ {0} : at[j] = IF at[j - 1] = Null THEN Null ELSE mem[at[j - 1]].next
  BY <1>1, VisitsSteps
<1>3. N \in Nat \ {0} /\ Steps = 0 .. N
  BY MemoryAssumption, FS_CardinalityType DEF Steps
<1>4. /\ Len(s) \in Nat \ {0} /\ s[1] = b /\ \A j \in 1 .. Len(s) : s[j] \in Nodes
      /\ \A j \in 1 .. Len(s) - 1 : mem[s[j]].next = s[j + 1]
      /\ mem[s[Len(s)]].next = Null
  BY DEF ChainOf
<1>5. Null \notin Nodes
  BY MemoryAssumption DEF Nodes
<1> HIDE DEF N, at
<1> DEFINE Is(j) == at[j] = IF j < Len(s) THEN s[j + 1] ELSE Null
           T == {j \in 0 .. N : Is(j)}
<1>7. 0 \in T
  BY <1>2, <1>3, <1>4
<1>8. ASSUME NEW j \in 0 .. N - 1, j \in T PROVE j + 1 \in T
  <2>1. j + 1 \in Steps \ {0} /\ (j + 1) - 1 = j /\ j + 1 \in 0 .. N
    BY <1>3
  <2>2. at[j + 1] = IF at[j] = Null THEN Null ELSE mem[at[j]].next
    BY <1>2, <2>1
  <2>3. CASE j + 1 < Len(s)
    <3>1. at[j] = s[j + 1] /\ s[j + 1] \in Nodes /\ mem[s[j + 1]].next = s[j + 2]
      <4>1. j \in Nat /\ j < Len(s) /\ Len(s) \in Nat
        BY <1>3, <1>4, <2>3
      <4>2. j + 1 \in 1 .. Len(s) /\ j + 1 \in 1 .. Len(s) - 1 /\ (j + 1) + 1 = j + 2
        BY <2>3, <4>1
      <4>3. at[j] = s[j + 1]
        BY <1>8, <4>1
      <4> QED
        BY <1>4, <4>2, <4>3
    <3> QED
      BY <1>5, <2>1, <2>2, <2>3, <3>1
  <2>4. CASE j + 1 = Len(s)
    <3>1. at[j] = s[j + 1] /\ s[j + 1] \in Nodes /\ mem[s[j + 1]].next = Null
      BY <1>3, <1>4, <1>8, <2>4
    <3> QED
      BY <1>5, <2>1, <2>2, <2>4, <3>1
  <2>5. CASE j + 1 > Len(s)
    <3>1. at[j] = Null
      BY <1>3, <1>4, <1>8, <2>5
    <3> QED
      BY <1>3, <1>4, <2>1, <2>2, <2>5, <3>1
  <2> QED
    BY <1>3, <1>4, <2>3, <2>4, <2>5
<1> HIDE DEF T
<1>9. \A j \in 0 .. N : j \in T
  BY <1>3, <1>7, <1>8, InductionUpTo
<1> QED
  BY <1>3, <1>9 DEF T, at

\* A chain has an end, and all of its nodes belong to it (ChainsIntact).
LEMMA ChainIntact ==
  ASSUME NEW mem \in Memory(Keys, Rows), NEW got \in SUBSET Addrs, NEW b \in Buckets, NEW s,
         ChainOf(mem, got, b, s)
  PROVE  ~Endless(mem, b) /\ ~Dangling(mem, got, b)
<1> DEFINE at == Visits(mem, b)
           N == Cardinality(Addrs) + 1
<1>1. b \in Nodes
  BY DEF Nodes
<1>2. /\ at[0] = b
      /\ \A i \in Steps \ {0} : at[i] = IF at[i - 1] = Null THEN Null ELSE mem[at[i - 1]].next
  BY <1>1, VisitsSteps
<1>3. N \in Nat \ {0} /\ Steps = 0 .. N /\ IsFiniteSet(Addrs) /\ Cardinality(Addrs) \in Nat
  BY MemoryAssumption, FS_CardinalityType DEF Steps
<1>4. /\ Len(s) \in Nat \ {0} /\ s[1] = b /\ \A i \in 1 .. Len(s) : s[i] \in Nodes
      /\ \A i \in 1 .. Len(s) - 1 : mem[s[i]].next = s[i + 1]
      /\ mem[s[Len(s)]].next = Null /\ \A i \in 2 .. Len(s) : s[i] \in got
      /\ \A i, j \in 1 .. Len(s) : s[i] = s[j] => i = j
  BY DEF ChainOf
<1>5. Null \notin Nodes /\ Buckets \cap Addrs = {}
  BY MemoryAssumption DEF Nodes
<1>6. Len(s) <= N
  <2> DEFINE L == Len(s) - 1
             f == [i \in 1 .. L |-> s[i + 1]]
  <2>1. L \in Nat
    BY <1>4
  <2>2. f \in [1 .. L -> Addrs] /\ \A i, j \in 1 .. L : f[i] = f[j] => i = j
    BY <1>4, <2>1
  <2> HIDE DEF f
  <2>3. IsFiniteSet(1 .. L) /\ Cardinality(1 .. L) = L
    BY <2>1, FS_Interval
  <2>4. f \in Injection(1 .. L, Addrs)
    BY <2>2 DEF Injection, IsInjective
  <2>5. Cardinality(1 .. L) <= Cardinality(Addrs)
    <3> HIDE DEF L
    <3> QED
      BY <1>3, <2>4, FS_Injection
  <2> QED
    BY <1>3, <1>4, <2>3, <2>5
<1> HIDE DEF N, at
<1>9. \A i \in 0 .. N : at[i] = IF i < Len(s) THEN s[i + 1] ELSE Null
  BY <1>3, WalkIs DEF at
<1>10. at[N] = Null
  BY <1>3, <1>4, <1>6, <1>9
<1>11. ~Endless(mem, b)
  BY <1>10 DEF Endless, at, N
<1>12. ASSUME NEW i \in Steps, at[i] \in Addrs \ got PROVE FALSE
  <2>1. at[i] = IF i < Len(s) THEN s[i + 1] ELSE Null
    BY <1>3, <1>9
  <2>2. i < Len(s)
    BY <1>12, <2>1, MemoryAssumption
  <2>3. i # 0
    BY <1>4, <1>5, <1>12, <2>1, <2>2
  <2>4. i + 1 \in 2 .. Len(s)
    BY <1>3, <1>4, <2>2, <2>3
  <2> QED
    BY <1>4, <1>12, <2>1, <2>2, <2>4
<1> QED
  BY <1>11, <1>12 DEF Dangling, at

-----------------------------------------------------------------------------
(* What the writes of InsertHashItem and RemoveHashItemByNode leave in memory. *)
Appended(mem, e, a, k, v, p) ==
    [mem EXCEPT ![e].next = a,
                ![a] = [key |-> k, value |-> v, prev |-> p, next |-> Null]]

AppendedTo(mem, new, e, a, k, v, p) ==
    /\ new[a] = [key |-> k, value |-> v, prev |-> p, next |-> Null]
    /\ new[e].next = a /\ new[e].key = mem[e].key
    /\ new[e].value = mem[e].value /\ new[e].prev = mem[e].prev
    /\ \A x \in Nodes \ {a, e} : new[x] = mem[x]

LEMMA AppendWrites ==
  ASSUME NEW mem \in Memory(Keys, Rows), NEW e \in Nodes, NEW a \in Nodes, a # e,
         NEW k, NEW v, NEW p
  PROVE  AppendedTo(mem, Appended(mem, e, a, k, v, p), e, a, k, v, p)
<1> DEFINE linked == [mem EXCEPT ![e].next = a]
           new == Appended(mem, e, a, k, v, p)
<1>1. /\ DOMAIN linked = Nodes
      /\ linked[e].next = a /\ linked[e].key = mem[e].key
      /\ linked[e].value = mem[e].value /\ linked[e].prev = mem[e].prev
      /\ \A x \in Nodes \ {e} : linked[x] = mem[x]
  BY DEF Memory
<1>2. new = [linked EXCEPT ![a] = [key |-> k, value |-> v, prev |-> p, next |-> Null]]
  BY DEF Appended
<1> HIDE DEF linked, new
<1>3. AppendedTo(mem, new, e, a, k, v, p)
  BY <1>1, <1>2 DEF AppendedTo
<1> QED
  BY <1>3 DEF new

LEMMA BackWrites ==
  ASSUME NEW mem \in Memory(Keys, Rows), NEW q \in Nodes \cup {Null}, NEW p \in Nodes
  PROVE  /\ LinkBack(mem, q, p) \in Memory(Keys, Rows)
         /\ \A x \in Nodes :
              /\ LinkBack(mem, q, p)[x].key = mem[x].key
              /\ LinkBack(mem, q, p)[x].value = mem[x].value
              /\ LinkBack(mem, q, p)[x].next = mem[x].next
              /\ LinkBack(mem, q, p)[x].prev = IF x = q THEN p ELSE mem[x].prev
              /\ x # q => LinkBack(mem, q, p)[x] = mem[x]
<1>1. Null \notin Nodes
  BY MemoryAssumption DEF Nodes
<1>2. CASE q = Null
  BY <1>1, <1>2 DEF LinkBack, Memory
<1>3. CASE q # Null
  <2> DEFINE back == [mem EXCEPT ![q].prev = p]
  <2>1. LinkBack(mem, q, p) = back
    BY <1>3 DEF LinkBack
  <2>2. back \in Memory(Keys, Rows)
    BY DEF Memory
  <2>3. \A x \in Nodes : /\ back[x].key = mem[x].key /\ back[x].value = mem[x].value
                         /\ back[x].next = mem[x].next
                         /\ back[x].prev = IF x = q THEN p ELSE mem[x].prev
                         /\ x # q => back[x] = mem[x]
    BY <1>3 DEF Memory
  <2> HIDE DEF back
  <2> QED
    BY <2>1, <2>2, <2>3
<1> QED
  BY <1>2, <1>3

\* A node with a prev is cut out.
CutOut(mem, new, n) ==
    \A x \in Nodes :
      /\ new[x].key = mem[x].key /\ new[x].value = mem[x].value
      /\ new[x].next = IF x = mem[n].prev THEN mem[n].next ELSE mem[x].next
      /\ new[x].prev = IF x = mem[n].next THEN mem[n].prev ELSE mem[x].prev
      /\ x \notin {mem[n].prev, mem[n].next} => new[x] = mem[x]

LEMMA CutWrites ==
  ASSUME NEW mem \in Memory(Keys, Rows), NEW got, NEW n \in Nodes, mem[n].prev # Null
  PROVE  /\ CutOut(mem, RemoveHashItemByNode(mem, got, n).node, n)
         /\ RemoveHashItemByNode(mem, got, n).alloc = got \ {n}
<1> DEFINE p == mem[n].prev
           q == mem[n].next
           cut == [mem EXCEPT ![p].next = q]
<1>1. p \in Nodes /\ q \in Nodes \cup {Null}
  BY DEF Memory
<1>2. RemoveHashItemByNode(mem, got, n) = [node |-> LinkBack(cut, q, p), alloc |-> got \ {n}]
  BY DEF RemoveHashItemByNode
<1>3. cut \in Memory(Keys, Rows)
  BY <1>1 DEF Memory
<1>4. \A x \in Nodes : /\ cut[x].key = mem[x].key /\ cut[x].value = mem[x].value
                       /\ cut[x].prev = mem[x].prev
                       /\ cut[x].next = IF x = p THEN q ELSE mem[x].next
                       /\ x # p => cut[x] = mem[x]
  BY <1>1 DEF Memory
<1> HIDE DEF cut
<1> DEFINE new == LinkBack(cut, q, p)
<1>5. /\ new \in Memory(Keys, Rows)
      /\ \A x \in Nodes : /\ new[x].key = cut[x].key /\ new[x].value = cut[x].value
                          /\ new[x].next = cut[x].next
                          /\ new[x].prev = IF x = q THEN p ELSE cut[x].prev
                          /\ x # q => new[x] = cut[x]
  <2> HIDE DEF p, q
  <2> QED
    BY <1>1, <1>3, BackWrites, SMTT(30)
<1> HIDE DEF new
<1>6. CutOut(mem, new, n)
  BY <1>4, <1>5 DEF CutOut
<1> QED
  BY <1>2, <1>6 DEF new

\* A node without one takes over its successor.
TakesOver(mem, new, n) ==
    \A x \in Nodes :
      /\ new[x].key = IF x = n THEN mem[mem[n].next].key ELSE mem[x].key
      /\ new[x].value = IF x = n THEN mem[mem[n].next].value ELSE mem[x].value
      /\ new[x].next = IF x = n THEN mem[mem[n].next].next ELSE mem[x].next
      /\ new[x].prev = IF x = mem[mem[n].next].next THEN n ELSE mem[x].prev
      /\ x \notin {n, mem[mem[n].next].next} => new[x] = mem[x]

LEMMA TakeWrites ==
  ASSUME NEW mem \in Memory(Keys, Rows), NEW got, NEW n \in Nodes,
         mem[n].prev = Null, mem[n].next # Null
  PROVE  /\ TakesOver(mem, RemoveHashItemByNode(mem, got, n).node, n)
         /\ RemoveHashItemByNode(mem, got, n).alloc = got \ {mem[n].next}
<1> DEFINE q == mem[n].next
           k == mem[q].key
           v == mem[q].value
           t == mem[q].next
           back == LinkBack(mem, t, n)
           new == [back EXCEPT ![n].key = k, ![n].value = v, ![n].next = t]
<1>1. q \in Nodes /\ t \in Nodes \cup {Null}
  BY DEF Memory
<1>2. RemoveHashItemByNode(mem, got, n) = [node |-> new, alloc |-> got \ {q}]
  BY DEF RemoveHashItemByNode
<1>3. /\ back \in Memory(Keys, Rows)
      /\ \A x \in Nodes : /\ back[x].key = mem[x].key /\ back[x].value = mem[x].value
                          /\ back[x].next = mem[x].next
                          /\ back[x].prev = IF x = t THEN n ELSE mem[x].prev
                          /\ x # t => back[x] = mem[x]
  <2> HIDE DEF q, t
  <2> QED
    BY <1>1, BackWrites
<1> HIDE DEF back, q, k, v, t
<1> DEFINE keyed == [back EXCEPT ![n].key = k]
           valued == [keyed EXCEPT ![n].value = v]
<1>4. /\ DOMAIN keyed = Nodes /\ DOMAIN keyed[n] = {"key", "value", "prev", "next"}
      /\ keyed[n].key = k /\ keyed[n].prev = back[n].prev
      /\ \A x \in Nodes \ {n} : keyed[x] = back[x]
  BY <1>3 DEF Memory
<1> HIDE DEF keyed
<1>5. /\ DOMAIN valued = Nodes /\ DOMAIN valued[n] = {"key", "value", "prev", "next"}
      /\ valued[n].key = k /\ valued[n].value = v /\ valued[n].prev = back[n].prev
      /\ \A x \in Nodes \ {n} : valued[x] = back[x]
  BY <1>4
<1>6. new = [valued EXCEPT ![n].next = t]
  BY DEF keyed
<1> HIDE DEF valued, new
<1>7. /\ new[n].key = k /\ new[n].value = v /\ new[n].next = t /\ new[n].prev = back[n].prev
      /\ \A x \in Nodes \ {n} : new[x] = back[x]
  BY <1>5, <1>6
<1>8. TakesOver(mem, new, n)
  BY <1>3, <1>7 DEF TakesOver, q, k, v, t
<1> QED
  BY <1>2, <1>8 DEF q

\* A node without either becomes a hole.
Empties(mem, new, n) ==
    \A x \in Nodes :
      /\ new[x].next = mem[x].next /\ new[x].prev = mem[x].prev
      /\ x = n => new[x].key = Null
      /\ x # n => new[x] = mem[x]

LEMMA EmptyWrites ==
  ASSUME NEW mem \in Memory(Keys, Rows), NEW got, NEW n \in Nodes,
         mem[n].prev = Null, mem[n].next = Null
  PROVE  /\ Empties(mem, RemoveHashItemByNode(mem, got, n).node, n)
         /\ RemoveHashItemByNode(mem, got, n).alloc = got
<1> DEFINE keyed == [mem EXCEPT ![n].key = Null]
           new == [keyed EXCEPT ![n].value = Null]
<1>1. RemoveHashItemByNode(mem, got, n) = [node |-> new, alloc |-> got]
  BY DEF RemoveHashItemByNode
<1>2. /\ keyed \in Memory(Keys, Rows)
      /\ keyed[n].key = Null /\ keyed[n].next = mem[n].next /\ keyed[n].prev = mem[n].prev
      /\ \A x \in Nodes \ {n} : keyed[x] = mem[x]
  BY DEF Memory
<1> HIDE DEF keyed
<1>3. /\ new[n].key = Null /\ new[n].next = keyed[n].next /\ new[n].prev = keyed[n].prev
      /\ \A x \in Nodes \ {n} : new[x] = keyed[x]
  BY <1>2 DEF Memory
<1> HIDE DEF new
<1>4. Empties(mem, new, n)
  BY <1>2, <1>3 DEF Empties
<1> QED
  BY <1>1, <1>4

-----------------------------------------------------------------------------
(* The buckets of the file only grow, and keep every domain.  A bucket whose  *)
(* domains expire has at most three of them.  InsertHashItem gives a node the *)
(* last but one as its prev: none to the second node, the head to the third,  *)
(* and only to the fourth a node that may be freed before it.  So with three  *)
(* domains no removal ever writes through a stale prev.                       *)
FileBuckets == {Hash[File[i]] : i \in StaticRows}

KeptBucket(mem, s, m) ==
    /\ m = Len(s) \/ (m = 0 /\ Len(s) = 1)
    /\ \A i \in 1 .. m : mem[s[i]].value \in StaticRows

SharedBucket(mem, b, s, m) ==
    /\ m <= 3
    /\ \A i, j \in 1 .. m : KeyAt(mem, s, i) = KeyAt(mem, s, j) => i = j
    /\ mem[b].prev = Null
    /\ \A i \in 2 .. m : mem[s[i]].prev \in {Null, b}

\* Behind the hole, too, a bucket has no domain of another one.
Homed(mem, b, s) ==
    \A i \in 1 .. Len(s) : KeyAt(mem, s, i) = Null \/ Hash[KeyAt(mem, s, i)] = b

BucketOK(mem, got, b, s, m) ==
    /\ ChainOf(mem, got, b, s) /\ Live(mem, b, s, m) /\ Homed(mem, b, s)
    /\ b \in FileBuckets => KeptBucket(mem, s, m)
    /\ b \notin FileBuckets => SharedBucket(mem, b, s, m)

\* A step on one chain touches its own nodes and fresh ones only.
Within(mem, got, s, new, kept, t) ==
    /\ \A x \in Nodes : (\E i \in 1 .. Len(s) : x = s[i]) \/ x \in Addrs \ got \/ new[x] = mem[x]
    /\ \A j \in 1 .. Len(t) : (\E i \in 1 .. Len(s) : t[j] = s[i]) \/ t[j] \in Addrs \ got
    /\ \A x \in got : (\E i \in 1 .. Len(s) : x = s[i]) \/ x \in kept

\* What it does to the rows of the domains.
SameRows(mem, s, m, new, t, w) ==
    \A j, x : Answers(mem, s, m, j, x) => Answers(new, t, w, j, x)

Learns(mem, s, m, new, t, w, k, v) ==
    \A j, x : Answers(mem, s, m, j, x) =>
                Answers(new, t, w, j, IF j = k /\ x = Null THEN v ELSE x)

Fewer(mem, s, m, new, t, w, k) ==
    \A j \in 1 .. w : \E i \in 1 .. m :
        /\ KeyAt(new, t, j) = KeyAt(mem, s, i) /\ new[t[j]].value = mem[s[i]].value
        /\ KeyAt(mem, s, i) # k

\* At most three domains share a bucket with one that expires.
AtMostThree ==
    \A b \in Buckets \ FileBuckets :
        \E x, y, z : \A k \in Keys : Hash[k] = b => k \in {x, y, z}

LEMMA SameAnswers ==
  ASSUME NEW mem, NEW s, NEW m \in Nat, NEW new, NEW t,
         \A i \in 1 .. m : KeyAt(new, t, i) = KeyAt(mem, s, i) /\ new[t[i]].value = mem[s[i]].value
  PROVE  SameRows(mem, s, m, new, t, m)
<1> SUFFICES ASSUME NEW j, NEW x, Answers(mem, s, m, j, x) PROVE Answers(new, t, m, j, x)
  BY DEF SameRows
<1>1. \A i \in 1 .. m : \A h \in 1 .. i - 1 : h \in 1 .. m
  OBVIOUS
<1> QED
  BY <1>1 DEF Answers

LEMMA MoreAnswers ==
  ASSUME NEW mem, NEW s, NEW m \in Nat, NEW new, NEW t, NEW k, NEW v, v # Null,
         \A i \in 1 .. m : KeyAt(new, t, i) = KeyAt(mem, s, i) /\ new[t[i]].value = mem[s[i]].value,
         \A i \in 1 .. m : mem[s[i]].value # Null,
         KeyAt(new, t, m + 1) = k, new[t[m + 1]].value = v
  PROVE  Learns(mem, s, m, new, t, m + 1, k, v)
<1> SUFFICES ASSUME NEW j, NEW x, Answers(mem, s, m, j, x)
             PROVE  Answers(new, t, m + 1, j, IF j = k /\ x = Null THEN v ELSE x)
  BY DEF Learns
<1>1. CASE \E i \in 1 .. m : /\ x = mem[s[i]].value /\ KeyAt(mem, s, i) = j
                             /\ \A h \in 1 .. i - 1 : KeyAt(mem, s, h) # j
  <2>1. PICK i \in 1 .. m : /\ x = mem[s[i]].value /\ KeyAt(mem, s, i) = j
                            /\ \A h \in 1 .. i - 1 : KeyAt(mem, s, h) # j
    BY <1>1
  <2>2. x # Null /\ i \in 1 .. m + 1 /\ \A h \in 1 .. i - 1 : h \in 1 .. m
    BY <2>1
  <2>3. x = new[t[i]].value /\ KeyAt(new, t, i) = j /\ \A h \in 1 .. i - 1 : KeyAt(new, t, h) # j
    BY <2>1, <2>2
  <2> QED
    BY <2>2, <2>3 DEF Answers
<1>2. CASE x = Null /\ \A i \in 1 .. m : KeyAt(mem, s, i) # j
  <2>1. \A i \in 1 .. m : KeyAt(new, t, i) # j
    BY <1>2
  <2>2. \A i \in 1 .. m + 1 : i \in 1 .. m \/ i = m + 1
    OBVIOUS
  <2>3. CASE j = k
    <3>1. m + 1 \in 1 .. m + 1 /\ \A h \in 1 .. (m + 1) - 1 : h \in 1 .. m
      OBVIOUS
    <3> QED
      BY <1>2, <2>1, <2>3, <3>1 DEF Answers
  <2>4. CASE j # k
    <3>1. \A i \in 1 .. m + 1 : KeyAt(new, t, i) # j
      BY <2>1, <2>2, <2>4
    <3> QED
      BY <1>2, <2>4, <3>1 DEF Answers
  <2> QED
    BY <2>3, <2>4
<1> QED
  BY <1>1, <1>2 DEF Answers

\* A domain that has no row is not in the nodes a lookup reaches.
LEMMA Absent ==
  ASSUME NEW mem \in Memory(Keys, Rows), NEW got, NEW s, NEW m, NEW k \in Keys,
         ChainOf(mem, got, Hash[k], s), Live(mem, Hash[k], s, m), RowIn(mem, k) = Null
  PROVE  \A i \in 1 .. m : KeyAt(mem, s, i) # k
<1>1. Answers(mem, s, m, k, Null)
  BY RowAnswers
<1>2. \A i \in 1 .. m : mem[s[i]].value # Null
  BY TableAssumption DEF Live
<1> QED
  BY <1>1, <1>2 DEF Answers

LEMMA InsertKeeps ==
  ASSUME AtMostThree,
         NEW mem \in Memory(Keys, Rows), NEW got \in SUBSET Addrs,
         NEW k \in Keys, NEW v \in Rows, NEW s, NEW m,
         BucketOK(mem, got, Hash[k], s, m),
         Hash[k] \in FileBuckets => v \in StaticRows /\ got # Addrs,
         Hash[k] \notin FileBuckets => RowIn(mem, k) = Null,
         NEW r \in InsertHashItem(mem, got, Hash[k], k, v)
  PROVE  \E t, w :
           /\ BucketOK(r.node, r.alloc, Hash[k], t, w)
           /\ Within(mem, got, s, r.node, r.alloc, t)
           /\ \/ Learns(mem, s, m, r.node, t, w, k, v)
              \/ /\ Hash[k] \notin FileBuckets
                 /\ SameRows(mem, s, m, r.node, t, w)
<1> DEFINE b == Hash[k]
<1>1. /\ b \in Buckets /\ b \in Nodes /\ b \notin Addrs /\ Null \notin Nodes
      /\ k # Null /\ v # Null /\ Null \notin Keys /\ Null \notin Rows
  BY MemoryAssumption, TableAssumption DEF Nodes
<1>2. ChainOf(mem, got, b, s) /\ Live(mem, b, s, m)
  BY DEF BucketOK
<1>3. /\ s \in Seq(Nodes) /\ Len(s) \in Nat \ {0} /\ s[1] = b
      /\ \A i \in 1 .. Len(s) : s[i] \in Nodes
      /\ \A i \in 1 .. Len(s) - 1 : mem[s[i]].next = s[i + 1]
      /\ mem[s[Len(s)]].next = Null
      /\ \A i \in 2 .. Len(s) : s[i] \in got
      /\ \A i, j \in 1 .. Len(s) : s[i] = s[j] => i = j
  BY <1>2 DEF ChainOf
<1>4. /\ m \in 0 .. Len(s) /\ m \in Nat
      /\ \A i \in 1 .. m : /\ mem[s[i]].key \in Keys /\ mem[s[i]].value \in Rows
                           /\ Hash[mem[s[i]].key] = b /\ ~Hole(mem, s[i])
      /\ m < Len(s) => Hole(mem, s[m + 1])
  BY <1>1, <1>2 DEF Live, Hole
<1>5. Hole(mem, b) <=> m = 0
  <2>1. m = 0 => Hole(mem, s[1])
    BY <1>3, <1>4
  <2>2. m # 0 => 1 \in 1 .. m
    BY <1>4
  <2> QED
    BY <1>3, <1>4, <2>1, <2>2
<1> HIDE DEF b
<1>6. CASE Hole(mem, b)
  <2> DEFINE t == <<b>>
  <2>1. r = [node  |-> [mem EXCEPT ![b] = [key |-> k, value |-> v, prev |-> Null, next |-> Null]],
             alloc |-> got]
    BY <1>6 DEF InsertHashItem, b
  <2>2. /\ r.alloc = got
        /\ r.node[b] = [key |-> k, value |-> v, prev |-> Null, next |-> Null]
        /\ \A x \in Nodes \ {b} : r.node[x] = mem[x]
    BY <1>1, <2>1 DEF Memory
  <2>3. m = 0
    BY <1>5, <1>6
  <2>4. t \in Seq(Nodes) /\ Len(t) = 1 /\ t[1] = b
    BY <1>1
  <2> HIDE DEF t
  <2>5. ChainOf(r.node, r.alloc, b, t)
    BY <2>2, <2>4 DEF ChainOf
  <2>6. Live(r.node, b, t, 1)
    BY <2>2, <2>4 DEF Live, b
  <2>7. b \in FileBuckets => KeptBucket(r.node, t, 1)
    BY <2>2, <2>4 DEF KeptBucket, b
  <2>8. SharedBucket(r.node, b, t, 1)
    BY <2>2, <2>4 DEF SharedBucket
  <2>9. Within(mem, got, s, r.node, r.alloc, t)
    <3>1. 1 \in 1 .. Len(s) /\ b = s[1]
      BY <1>3
    <3>2. \A x \in Nodes : (\E i \in 1 .. Len(s) : x = s[i]) \/ r.node[x] = mem[x]
      BY <2>2, <3>1
    <3>3. \A j \in 1 .. Len(t) : \E i \in 1 .. Len(s) : t[j] = s[i]
      BY <2>4, <3>1
    <3> QED
      BY <2>2, <3>2, <3>3 DEF Within
  <2>10. Learns(mem, s, m, r.node, t, 1, k, v)
    <3>1. KeyAt(r.node, t, 0 + 1) = k /\ r.node[t[0 + 1]].value = v
      BY <2>2, <2>4 DEF KeyAt
    <3>2. Learns(mem, s, 0, r.node, t, 0 + 1, k, v)
      <4>1. \A i \in 1 .. 0 : FALSE
        OBVIOUS
      <4> QED
        BY <1>1, <3>1, <4>1, MoreAnswers
    <3> QED
      BY <2>3, <3>2
  <2>11. Homed(r.node, b, t)
    BY <2>2, <2>4 DEF Homed, KeyAt, b
  <2> QED
    BY <2>5, <2>6, <2>7, <2>8, <2>9, <2>10, <2>11 DEF BucketOK, b
<1>7. CASE ~Hole(mem, b)
  <2>1. m >= 1
    BY <1>4, <1>5, <1>7
  <2> DEFINE e == s[Len(s)]
             p == IF Len(s) = 1 THEN Null ELSE s[Len(s) - 1]
  <2>2. ChainEnd(mem, b)[1] = e /\ ChainEnd(mem, b)[2] = p
    BY <1>1, <1>2, EndOfChain
  <2> HIDE DEF e, p
  <2>3. \/ r = [node |-> mem, alloc |-> got] /\ got = Addrs
        \/ \E a \in Addrs \ got :
             r = [node  |-> [mem EXCEPT ![e].next = a,
                                        ![a] = [key |-> k, value |-> v,
                                                prev |-> p, next |-> Null]],
                  alloc |-> got \cup {a}]
    BY <1>7, <2>2, Zenon DEF InsertHashItem, b
  <2>4. CASE r = [node |-> mem, alloc |-> got] /\ got = Addrs
    <3>1. r.node = mem /\ r.alloc = got /\ b \notin FileBuckets
      BY <2>4 DEF b
    <3>2. BucketOK(r.node, r.alloc, b, s, m)
      BY <3>1 DEF b
    <3>3. Within(mem, got, s, r.node, r.alloc, s)
      BY <3>1 DEF Within
    <3>4. SameRows(mem, s, m, r.node, s, m)
      BY <3>1 DEF SameRows
    <3> QED
      BY <2>1, <3>1, <3>2, <3>3, <3>4 DEF b
  <2>5. ASSUME NEW a \in Addrs \ got,
               r = [node  |-> [mem EXCEPT ![e].next = a,
                                          ![a] = [key |-> k, value |-> v,
                                                  prev |-> p, next |-> Null]],
                    alloc |-> got \cup {a}]
        PROVE  \E t, w :
                 /\ BucketOK(r.node, r.alloc, b, t, w)
                 /\ Within(mem, got, s, r.node, r.alloc, t)
                 /\ \/ Learns(mem, s, m, r.node, t, w, k, v)
                    \/ /\ b \notin FileBuckets
                       /\ SameRows(mem, s, m, r.node, t, w)
    <3> DEFINE t == Append(s, a)
               new == r.node
               n == Len(s)
    <3>1. n \in Nat \ {0} /\ e \in Nodes /\ a \in Nodes /\ e = s[n] /\ n \in 1 .. n
      BY <1>3 DEF e, Nodes
    <3>2. \A i \in 1 .. n : s[i] # a
      <4>1. \A i \in 1 .. n : i = 1 \/ i \in 2 .. n
        BY <3>1
      <4> QED
        BY <1>1, <1>3, <4>1
    <3>3. a # e
      BY <3>1, <3>2
    <3>4. /\ new[a] = [key |-> k, value |-> v, prev |-> p, next |-> Null]
          /\ new[e].next = a /\ new[e].key = mem[e].key
          /\ new[e].value = mem[e].value /\ new[e].prev = mem[e].prev
          /\ \A x \in Nodes \ {a, e} : new[x] = mem[x]
      <4>1. new = Appended(mem, e, a, k, v, p)
        BY <2>5 DEF Appended
      <4> HIDE DEF new
      <4>2. AppendedTo(mem, new, e, a, k, v, p)
        BY <3>1, <3>3, <4>1, AppendWrites
      <4> QED
        BY <4>2 DEF AppendedTo
    <3>5. r.alloc = got \cup {a}
      BY <2>5
    <3>6. t \in Seq(Nodes) /\ Len(t) = n + 1 /\ t[n + 1] = a /\ \A i \in 1 .. n : t[i] = s[i]
      BY <1>3, <3>1
    <3> HIDE DEF t, new
    <3>7. \A i \in 1 .. n : /\ new[t[i]].key = mem[s[i]].key /\ new[t[i]].value = mem[s[i]].value
                            /\ new[t[i]].prev = mem[s[i]].prev
                            /\ i < n => new[t[i]].next = mem[s[i]].next
      <4> TAKE i \in 1 .. n
      <4>1. t[i] = s[i] /\ s[i] \in Nodes /\ s[i] # a
        BY <1>3, <3>2, <3>6
      <4>2. CASE i = n
        BY <3>1, <3>4, <4>1, <4>2
      <4>3. CASE i # n
        <5>1. s[i] # e
          BY <1>3, <3>1, <4>3
        <5>2. new[s[i]] = mem[s[i]]
          BY <3>4, <4>1, <5>1
        <5> QED
          BY <4>1, <5>2
      <4> QED
        BY <4>2, <4>3
    <3> HIDE DEF n
    <3>8. ChainOf(new, r.alloc, b, t)
      <4>1. \A i \in 1 .. n : new[t[i]].next = t[i + 1]
        <5> TAKE i \in 1 .. n
        <5>1. CASE i = n
          BY <3>1, <3>4, <3>6, <5>1
        <5>2. CASE i # n
          <6>1. i < n /\ i \in 1 .. Len(s) - 1 /\ i + 1 \in 1 .. n
            BY <3>1, <5>2 DEF n
          <6> QED
            BY <1>3, <3>6, <3>7, <6>1
        <5> QED
          BY <5>1, <5>2
      <4>2. new[t[n + 1]].next = Null
        BY <3>4, <3>6
      <4>3. \A i \in 2 .. n + 1 : t[i] \in r.alloc
        <5> TAKE i \in 2 .. n + 1
        <5>1. i = n + 1 \/ i \in 2 .. n
          BY <3>1
        <5> QED
          BY <1>3, <3>1, <3>5, <3>6, <5>1 DEF n
      <4>4. \A i, j \in 1 .. n + 1 : t[i] = t[j] => i = j
        <5>1. \A i \in 1 .. n + 1 : i = n + 1 \/ i \in 1 .. n
          BY <3>1
        <5>2. \A i, j \in 1 .. n : s[i] = s[j] => i = j
          BY <1>3 DEF n
        <5> QED
          BY <3>2, <3>6, <5>1, <5>2
      <4>5. t[1] = b /\ Len(t) >= 1 /\ (n + 1) - 1 = n
        BY <1>3, <3>1, <3>6
      <4> QED
        BY <3>6, <4>1, <4>2, <4>3, <4>4, <4>5 DEF ChainOf
    <3>9. Within(mem, got, s, new, r.alloc, t)
      <4>1. \A x \in Nodes : x = e \/ x \in Addrs \ got \/ new[x] = mem[x]
        BY <3>4
      <4>2. \A j \in 1 .. n + 1 : j \in 1 .. n \/ t[j] \in Addrs \ got
        BY <3>1, <3>6
      <4> QED
        BY <3>1, <3>5, <3>6, <4>1, <4>2 DEF Within, n
    <3>10. m \in 0 .. n /\ \A i \in 1 .. m : i \in 1 .. n
      BY <1>4, <3>1 DEF n
    <3>13. Homed(new, b, t)
      <4> SUFFICES ASSUME NEW i \in 1 .. n + 1
                   PROVE  KeyAt(new, t, i) = Null \/ Hash[KeyAt(new, t, i)] = b
        BY <3>6 DEF Homed
      <4>1. CASE i = n + 1
        BY <3>4, <3>6, <4>1 DEF KeyAt, b
      <4>2. CASE i \in 1 .. n
        <5>1. KeyAt(mem, s, i) = Null \/ Hash[KeyAt(mem, s, i)] = b
          BY <4>2 DEF BucketOK, Homed, b, n
        <5> QED
          BY <3>7, <4>2, <5>1 DEF KeyAt
      <4> QED
        BY <3>1, <4>1, <4>2
    <3>11. CASE m < n
      <4>1. b \notin FileBuckets
        BY <2>1, <3>1, <3>11 DEF BucketOK, KeptBucket, b, n
      <4>2. m + 1 \in 1 .. n /\ m \in 0 .. Len(t) /\ m < Len(t)
        BY <1>4, <3>1, <3>6, <3>11
      <4>3. Hole(new, t[m + 1])
        BY <1>4, <3>7, <3>11, <4>2 DEF Hole, n
      <4>4. Live(new, b, t, m)
        BY <1>4, <3>7, <3>10, <4>2, <4>3 DEF Live
      <4>5. SharedBucket(mem, b, s, m)
        BY <4>1 DEF BucketOK, b
      <4>6. SharedBucket(new, b, t, m)
        <5>1. new[b].prev = mem[b].prev
          <6>1. 1 \in 1 .. n /\ t[1] = b /\ s[1] = b
            BY <1>3, <3>1, <3>6
          <6> QED
            BY <3>7, <6>1
        <5>2. \A i \in 2 .. m : i \in 1 .. n
          BY <3>1, <3>10
        <5> QED
          BY <3>7, <3>10, <4>5, <5>1, <5>2 DEF SharedBucket, KeyAt
      <4>7. SameRows(mem, s, m, new, t, m)
        BY <1>4, <3>7, <3>10, SameAnswers DEF KeyAt
      <4> QED
        BY <2>1, <3>8, <3>9, <3>13, <4>1, <4>4, <4>6, <4>7 DEF BucketOK, new
    <3>12. CASE m = n
      <4>1. m + 1 = Len(t) /\ m + 1 \in 0 .. Len(t) /\ t[m + 1] = a
            /\ \A i \in 1 .. m + 1 : i = m + 1 \/ i \in 1 .. m
        BY <1>4, <3>6, <3>12
      <4>2. Live(new, b, t, m + 1)
        BY <1>4, <3>4, <3>7, <3>10, <4>1 DEF Live, b
      <4>3. b \in FileBuckets => KeptBucket(new, t, m + 1)
        <5> SUFFICES ASSUME b \in FileBuckets PROVE KeptBucket(new, t, m + 1)
          OBVIOUS
        <5>1. \A i \in 1 .. m : mem[s[i]].value \in StaticRows
          BY DEF BucketOK, KeptBucket, b
        <5>2. v \in StaticRows
          BY DEF b
        <5> QED
          BY <3>4, <3>7, <3>10, <4>1, <5>1, <5>2 DEF KeptBucket
      <4>4. b \notin FileBuckets => SharedBucket(new, b, t, m + 1)
        <5> SUFFICES ASSUME b \notin FileBuckets PROVE SharedBucket(new, b, t, m + 1)
          OBVIOUS
        <5>1. SharedBucket(mem, b, s, m)
          BY DEF BucketOK, b
        <5>2. \A i \in 1 .. m : KeyAt(mem, s, i) # k
          BY <1>2, Absent DEF b
        <5>3. \A i, j \in 1 .. m + 1 : KeyAt(new, t, i) = KeyAt(new, t, j) => i = j
          <6>1. KeyAt(new, t, m + 1) = k
            BY <3>4, <4>1 DEF KeyAt
          <6>2. \A i \in 1 .. m : KeyAt(new, t, i) = KeyAt(mem, s, i)
            BY <3>7, <3>10 DEF KeyAt
          <6>3. \A i, j \in 1 .. m : KeyAt(mem, s, i) = KeyAt(mem, s, j) => i = j
            BY <5>1 DEF SharedBucket
          <6> QED
            BY <4>1, <5>2, <6>1, <6>2, <6>3
        <5>4. m <= 2
          <6> SUFFICES ASSUME m > 2 PROVE FALSE
            BY <1>4
          <6>1. m = 3
            BY <1>4, <5>1 DEF SharedBucket
          <6>2. PICK x, y, z : \A h \in Keys : Hash[h] = b => h \in {x, y, z}
            BY <1>1 DEF AtMostThree
          <6>3. \A i \in 1 .. 3 : KeyAt(mem, s, i) \in {x, y, z} /\ KeyAt(mem, s, i) # k
            BY <1>4, <5>2, <6>1, <6>2 DEF KeyAt
          <6>4. k \in {x, y, z}
            BY <6>2 DEF b
          <6>5. /\ KeyAt(mem, s, 1) # KeyAt(mem, s, 2) /\ KeyAt(mem, s, 1) # KeyAt(mem, s, 3)
                /\ KeyAt(mem, s, 2) # KeyAt(mem, s, 3)
            BY <5>1, <6>1 DEF SharedBucket
          <6>6. 1 \in 1 .. 3 /\ 2 \in 1 .. 3 /\ 3 \in 1 .. 3
            OBVIOUS
          <6> QED
            BY <6>3, <6>4, <6>5, <6>6
        <5>5. p \in {Null, b}
          BY <1>3, <1>4, <3>1, <3>12, <5>4 DEF p, n
        <5>6. new[b].prev = Null
          <6>1. 1 \in 1 .. n /\ t[1] = b /\ s[1] = b
            BY <1>3, <3>1, <3>6
          <6> QED
            BY <3>7, <5>1, <6>1 DEF SharedBucket
        <5>7. \A i \in 2 .. m + 1 : new[t[i]].prev \in {Null, b}
          <6> TAKE i \in 2 .. m + 1
          <6>1. i = m + 1 \/ (i \in 2 .. m /\ i \in 1 .. n)
            BY <1>4, <3>1, <3>12
          <6> QED
            BY <3>4, <3>7, <4>1, <5>1, <5>5, <6>1 DEF SharedBucket
        <5> QED
          BY <1>4, <5>3, <5>4, <5>6, <5>7 DEF SharedBucket
      <4>5. Learns(mem, s, m, new, t, m + 1, k, v)
        <5>1. KeyAt(new, t, m + 1) = k /\ new[t[m + 1]].value = v
          BY <3>4, <4>1 DEF KeyAt
        <5>2. \A i \in 1 .. m : /\ KeyAt(new, t, i) = KeyAt(mem, s, i)
                                /\ new[t[i]].value = mem[s[i]].value
          BY <3>7, <3>10 DEF KeyAt
        <5>3. \A i \in 1 .. m : mem[s[i]].value # Null
          BY <1>1, <1>4
        <5> QED
          BY <1>1, <1>4, <5>1, <5>2, <5>3, MoreAnswers
      <4> QED
        BY <3>8, <3>9, <3>13, <4>2, <4>3, <4>4, <4>5 DEF BucketOK, new
    <3> QED
      BY <3>1, <3>10, <3>11, <3>12
  <2> QED
    BY <2>3, <2>4, <2>5 DEF b
<1> QED
  BY <1>6, <1>7

-----------------------------------------------------------------------------
\* Cutting out a node that has the head as its prev drops the nodes between, too.
LEMMA CutKeeps ==
  ASSUME NEW mem \in Memory(Keys, Rows), NEW got \in SUBSET Addrs,
         NEW b \in Buckets \ FileBuckets, NEW s, NEW m, BucketOK(mem, got, b, s, m),
         NEW i \in 1 .. m,
         NEW new, CutOut(mem, new, s[i]), mem[s[i]].prev # Null
  PROVE  \E t, w :
           /\ BucketOK(new, got \ {s[i]}, b, t, w)
           /\ Within(mem, got, s, new, got \ {s[i]}, t)
           /\ Fewer(mem, s, m, new, t, w, KeyAt(mem, s, i))
<1> DEFINE n == Len(s)
<1>1. /\ b \in Nodes /\ b \notin Addrs /\ Null \notin Nodes /\ Null \notin Keys /\ Null \notin Rows
  BY MemoryAssumption, TableAssumption DEF Nodes
<1>2. ChainOf(mem, got, b, s) /\ Live(mem, b, s, m) /\ SharedBucket(mem, b, s, m)
  BY DEF BucketOK
<1>3. /\ s \in Seq(Nodes) /\ n \in Nat \ {0} /\ s[1] = b
      /\ \A j \in 1 .. n : s[j] \in Nodes
      /\ \A j \in 1 .. n - 1 : mem[s[j]].next = s[j + 1]
      /\ mem[s[n]].next = Null
      /\ \A j \in 2 .. n : s[j] \in got
      /\ \A j, h \in 1 .. n : s[j] = s[h] => j = h
  BY <1>2, ChainHas
<1>4. /\ m \in 0 .. n /\ m \in Nat
      /\ \A j \in 1 .. m : /\ mem[s[j]].key \in Keys /\ mem[s[j]].value \in Rows
                           /\ Hash[mem[s[j]].key] = b
      /\ m < n => Hole(mem, s[m + 1])
  BY <1>2 DEF Live
<1>5. /\ m <= 3 /\ mem[b].prev = Null
      /\ \A j, h \in 1 .. m : mem[s[j]].key = mem[s[h]].key => j = h
      /\ \A j \in 2 .. m : mem[s[j]].prev \in {Null, b}
  BY <1>2 DEF SharedBucket, KeyAt
<1> HIDE DEF n
<1>6. i \in 1 .. n /\ i \in Nat \ {0}
  BY <1>3, <1>4
<1>7. i # 1 /\ mem[s[i]].prev = b
  BY <1>3, <1>4, <1>5, <1>6
<1> DEFINE q == mem[s[i]].next
           l == n - i + 1
           At(j) == IF j = 1 THEN 1 ELSE i + j - 1
           t == [j \in 1 .. l |-> s[At(j)]]
           w == m - i + 1
<1>20. /\ n \in Nat \ {0} /\ m \in Nat /\ m <= n /\ m <= 3
       /\ i \in Nat \ {0} /\ i # 1 /\ i <= m /\ i \in 1 .. m
  BY <1>3, <1>4, <1>5, <1>6, <1>7
<1>8. /\ l \in Nat \ {0} /\ w \in 1 .. l /\ w <= 2 /\ At(1) = 1 /\ At(l) \in {1, n}
      /\ \A j \in 1 .. l : At(j) \in 1 .. n /\ At(j) # i
      /\ \A j \in 2 .. l : At(j) \in 2 .. n /\ At(j) > i
      /\ \A j \in 1 .. w : At(j) \in 1 .. m
      /\ \A j \in 2 .. w : At(j) \in 2 .. m
      /\ \A j, h \in 1 .. l : At(j) = At(h) => j = h
      /\ \A j \in 2 .. l - 1 : At(j + 1) = At(j) + 1 /\ At(j) \in 1 .. n - 1
      /\ (w < l <=> m < n) /\ (w < l => At(w + 1) = m + 1 /\ w + 1 \in 1 .. l)
      /\ l > 1 => At(2) = i + 1 /\ i \in 1 .. n - 1
      /\ l = 1 => i = n
  BY <1>20
<1> HIDE DEF l, w, At
<1>9. t \in Seq(Nodes) /\ Len(t) = l /\ \A j \in 1 .. l : t[j] = s[At(j)]
  <2>1. \A j \in 1 .. l : s[At(j)] \in Nodes
    BY <1>3, <1>8
  <2>2. t \in [1 .. l -> Nodes] /\ \A j \in 1 .. l : t[j] = s[At(j)]
    BY <2>1
  <2> HIDE DEF t
  <2> QED
    BY <1>8, <2>2, TupleIs
<1> HIDE DEF t
<1>10. /\ \A x \in Nodes : new[x].key = mem[x].key /\ new[x].value = mem[x].value
       /\ \A x \in Nodes : new[x].next = IF x = b THEN q ELSE mem[x].next
       /\ \A x \in Nodes : new[x].prev = IF x = q THEN b ELSE mem[x].prev
       /\ \A x \in Nodes \ {b, q} : new[x] = mem[x]
  BY <1>7 DEF CutOut
<1>11. q = IF l = 1 THEN Null ELSE s[At(2)]
  BY <1>3, <1>8
<1> HIDE DEF q
<1>12. t[1] = b /\ q # b
  <2>1. t[1] = b
    BY <1>3, <1>8, <1>9
  <2>2. l # 1 => 2 \in 1 .. l /\ 1 \in 1 .. n /\ At(2) \in 1 .. n /\ At(2) # 1
    BY <1>8
  <2> QED
    BY <1>1, <1>3, <1>11, <2>1, <2>2
<1>13. ChainOf(new, got \ {s[i]}, b, t)
  <2>1. \A j \in 1 .. l - 1 : new[t[j]].next = t[j + 1]
    <3> TAKE j \in 1 .. l - 1
    <3>1. j \in 1 .. l /\ j + 1 \in 1 .. l /\ l # 1
      BY <1>8
    <3>2. CASE j = 1
      BY <1>1, <1>9, <1>10, <1>11, <1>12, <3>1, <3>2
    <3>3. CASE j # 1
      <4>1. j \in 2 .. l - 1 /\ At(j) \in 1 .. n /\ At(j) # 1 /\ 1 \in 1 .. n
        BY <1>8, <3>1, <3>3
      <4>2. t[j] # b /\ t[j] \in Nodes
        BY <1>3, <1>9, <3>1, <4>1
      <4>3. mem[t[j]].next = s[At(j) + 1]
        BY <1>3, <1>8, <1>9, <3>1, <4>1
      <4>4. j + 1 \in 1 .. l /\ t[j + 1] = s[At(j) + 1]
        <5>1. j + 1 \in 1 .. l /\ At(j + 1) = At(j) + 1
          BY <1>8, <4>1
        <5> QED
          BY <1>9, <5>1
      <4> QED
        BY <1>10, <4>2, <4>3, <4>4
    <3> QED
      BY <3>2, <3>3
  <2>2. new[t[l]].next = Null
    <3>1. CASE l = 1
      BY <1>1, <1>10, <1>11, <1>12, <3>1
    <3>2. CASE l # 1
      <4>1. l \in 1 .. l /\ l \in 2 .. l /\ At(l) = n /\ n # 1 /\ 1 \in 1 .. n /\ n \in 1 .. n
        BY <1>3, <1>8, <3>2
      <4>2. t[l] = s[n] /\ t[l] # b /\ t[l] \in Nodes
        BY <1>3, <1>9, <4>1
      <4> QED
        BY <1>3, <1>10, <4>2
    <3> QED
      BY <3>1, <3>2
  <2>3. \A j \in 2 .. l : t[j] \in got \ {s[i]}
    <3> TAKE j \in 2 .. l
    <3>1. j \in 1 .. l /\ At(j) \in 2 .. n /\ At(j) \in 1 .. n /\ At(j) # i
      BY <1>8
    <3> QED
      BY <1>3, <1>6, <1>9, <3>1
  <2>4. \A j, h \in 1 .. l : t[j] = t[h] => j = h
    <3> TAKE j, h \in 1 .. l
    <3>1. t[j] = s[At(j)] /\ t[h] = s[At(h)] /\ At(j) \in 1 .. n /\ At(h) \in 1 .. n
      BY <1>8, <1>9
    <3>2. s[At(j)] = s[At(h)] => At(j) = At(h)
      BY <1>3, <3>1
    <3> QED
      BY <1>8, <3>1, <3>2
  <2>5. l \in Nat \ {0}
    BY <1>8
  <2> QED
    BY <1>9, <1>12, <2>1, <2>2, <2>3, <2>4, <2>5, ChainIs
<1>14. \A j \in 1 .. w : /\ j \in 1 .. l /\ t[j] \in Nodes /\ t[j] = s[At(j)]
                         /\ new[t[j]].key = mem[s[At(j)]].key
                         /\ new[t[j]].value = mem[s[At(j)]].value
  BY <1>3, <1>8, <1>9, <1>10
<1>15. Live(new, b, t, w)
  <2>1. w < l => Hole(new, t[w + 1])
    <3> SUFFICES ASSUME w < l PROVE Hole(new, t[w + 1])
      OBVIOUS
    <3>1. At(w + 1) = m + 1 /\ w + 1 \in 1 .. l /\ m + 1 \in 1 .. n /\ Hole(mem, s[m + 1])
      BY <1>4, <1>8, <1>20
    <3>2. t[w + 1] = s[m + 1] /\ s[m + 1] \in Nodes
      BY <1>3, <1>9, <3>1
    <3> QED
      BY <1>10, <3>1, <3>2 DEF Hole
  <2>2. \A j \in 1 .. w : /\ new[t[j]].key \in Keys /\ new[t[j]].value \in Rows
                          /\ Hash[new[t[j]].key] = b
    BY <1>4, <1>8, <1>14
  <2>3. w \in 0 .. Len(t)
    BY <1>8, <1>9
  <2> QED
    BY <1>9, <2>1, <2>2, <2>3 DEF Live
<1>16. SharedBucket(new, b, t, w)
  <2>1. new[b].prev = Null
    BY <1>1, <1>5, <1>10, <1>12
  <2>2. \A j \in 2 .. w : new[t[j]].prev \in {Null, b}
    <3> TAKE j \in 2 .. w
    <3>1. j \in 1 .. w /\ At(j) \in 2 .. m
      BY <1>8
    <3>2. mem[s[At(j)]].prev \in {Null, b}
      BY <1>5, <3>1
    <3> QED
      BY <1>10, <1>14, <3>1, <3>2
  <2>3. \A j, h \in 1 .. w : KeyAt(new, t, j) = KeyAt(new, t, h) => j = h
    <3> TAKE j, h \in 1 .. w
    <3>1. At(j) \in 1 .. m /\ At(h) \in 1 .. m /\ j \in 1 .. l /\ h \in 1 .. l
      BY <1>8, <1>14
    <3> QED
      BY <1>5, <1>8, <1>14, <3>1 DEF KeyAt
  <2>4. w <= 3
    BY <1>8
  <2> QED
    BY <2>1, <2>2, <2>3, <2>4 DEF SharedBucket
<1>17. Within(mem, got, s, new, got \ {s[i]}, t)
  <2>1. q = Null \/ \E j \in 1 .. n : q = s[j]
    <3>1. l # 1 => 2 \in 1 .. l
      BY <1>8
    <3> QED
      BY <1>8, <1>11, <3>1
  <2>2. \E j \in 1 .. n : b = s[j]
    <3>1. 1 \in 1 .. n
      BY <1>3
    <3> QED
      BY <1>3, <3>1
  <2>3. \A x \in Nodes : (\E j \in 1 .. n : x = s[j]) \/ new[x] = mem[x]
    BY <1>1, <1>10, <2>1, <2>2
  <2>4. \A j \in 1 .. l : \E h \in 1 .. n : t[j] = s[h]
    BY <1>8, <1>9
  <2>5. \A x \in got : (\E j \in 1 .. n : x = s[j]) \/ x \in got \ {s[i]}
    BY <1>6
  <2> QED
    BY <1>9, <2>3, <2>4, <2>5 DEF Within, n
<1>18. Fewer(mem, s, m, new, t, w, KeyAt(mem, s, i))
  <2> SUFFICES ASSUME NEW j \in 1 .. w
               PROVE  \E h \in 1 .. m : /\ KeyAt(new, t, j) = KeyAt(mem, s, h)
                                        /\ new[t[j]].value = mem[s[h]].value
                                        /\ KeyAt(mem, s, h) # KeyAt(mem, s, i)
    BY DEF Fewer
  <2>1. At(j) \in 1 .. m /\ At(j) # i
    BY <1>8, <1>14
  <2>2. mem[s[At(j)]].key # mem[s[i]].key
    BY <1>5, <2>1
  <2> QED
    BY <1>14, <2>1, <2>2 DEF KeyAt
<1>19. Homed(new, b, t)
  <2> SUFFICES ASSUME NEW j \in 1 .. l
               PROVE  KeyAt(new, t, j) = Null \/ Hash[KeyAt(new, t, j)] = b
    BY <1>9 DEF Homed
  <2>1. At(j) \in 1 .. n /\ t[j] = s[At(j)] /\ s[At(j)] \in Nodes
    BY <1>3, <1>8, <1>9
  <2>2. KeyAt(mem, s, At(j)) = Null \/ Hash[KeyAt(mem, s, At(j))] = b
    BY <2>1 DEF BucketOK, Homed, n
  <2> QED
    BY <1>10, <2>1, <2>2 DEF KeyAt
<1> QED
  BY <1>13, <1>15, <1>16, <1>17, <1>18, <1>19 DEF BucketOK

\* A node that takes over its successor drops that node of the chain.  Only the
\* head can do so with two nodes behind it that lookups reach.
LEMMA TakeKeeps ==
  ASSUME NEW mem \in Memory(Keys, Rows), NEW got \in SUBSET Addrs,
         NEW b \in Buckets \ FileBuckets, NEW s, NEW m, BucketOK(mem, got, b, s, m),
         NEW i \in 1 .. m,
         NEW new, TakesOver(mem, new, s[i]), mem[s[i]].prev = Null, mem[s[i]].next # Null
  PROVE  \E t, w :
           /\ BucketOK(new, got \ {mem[s[i]].next}, b, t, w)
           /\ Within(mem, got, s, new, got \ {mem[s[i]].next}, t)
           /\ Fewer(mem, s, m, new, t, w, KeyAt(mem, s, i))
<1> DEFINE n == Len(s)
<1>1. /\ b \in Nodes /\ b \notin Addrs /\ Null \notin Nodes /\ Null \notin Keys /\ Null \notin Rows
  BY MemoryAssumption, TableAssumption DEF Nodes
<1>2. ChainOf(mem, got, b, s) /\ Live(mem, b, s, m) /\ SharedBucket(mem, b, s, m)
  BY DEF BucketOK
<1>3. /\ s \in Seq(Nodes) /\ n \in Nat \ {0} /\ s[1] = b
      /\ \A j \in 1 .. n : s[j] \in Nodes
      /\ \A j \in 1 .. n - 1 : mem[s[j]].next = s[j + 1]
      /\ mem[s[n]].next = Null
      /\ \A j \in 2 .. n : s[j] \in got
      /\ \A j, h \in 1 .. n : s[j] = s[h] => j = h
  BY <1>2, ChainHas
<1>4. /\ m \in 0 .. n /\ m \in Nat
      /\ \A j \in 1 .. m : /\ mem[s[j]].key \in Keys /\ mem[s[j]].value \in Rows
                           /\ Hash[mem[s[j]].key] = b
      /\ m < n => Hole(mem, s[m + 1])
  BY <1>2 DEF Live
<1>5. /\ m <= 3 /\ mem[b].prev = Null
      /\ \A j, h \in 1 .. m : mem[s[j]].key = mem[s[h]].key => j = h
      /\ \A j \in 2 .. m : mem[s[j]].prev \in {Null, b}
  BY <1>2 DEF SharedBucket, KeyAt
<1> HIDE DEF n
<1>6. i \in 1 .. n /\ i \in Nat \ {0}
  BY <1>3, <1>4
<1>7. i < n /\ i \in 1 .. n - 1 /\ i + 1 \in 2 .. n /\ i + 1 \in 1 .. n /\ n - 1 \in Nat \ {0}
      /\ mem[s[i]].next = s[i + 1]
  BY <1>3, <1>6
<1> DEFINE q == s[i + 1]
           u == IF i + 1 = n THEN Null ELSE s[i + 2]
           l == n - 1
           At(j) == IF j <= i THEN j ELSE j + 1
           From(j) == IF j < i THEN j ELSE j + 1
           t == [j \in 1 .. l |-> s[At(j)]]
           w == m - 1
<1>30. /\ n \in Nat \ {0} /\ m \in Nat /\ m <= n /\ m <= 3
       /\ i \in Nat \ {0} /\ i < n /\ i <= m /\ i \in 1 .. m
  BY <1>3, <1>4, <1>5, <1>6, <1>7
<1>8. /\ l \in Nat \ {0} /\ w \in 0 .. l /\ w <= 2 /\ At(1) = 1
      /\ i + 1 # n => i + 2 \in 2 .. n /\ i + 2 \in 1 .. n /\ i + 1 \in 1 .. n - 1
      /\ \A j \in 1 .. l : At(j) \in 1 .. n /\ At(j) # i + 1 /\ From(j) \in 1 .. n
      /\ \A j \in 2 .. l : At(j) \in 2 .. n
      /\ \A j \in 1 .. w : At(j) \in 1 .. n /\ From(j) \in 1 .. m /\ From(j) # i
      /\ \A j \in 1 .. l : At(j) = i <=> j = i
      /\ \A j \in 1 .. l : j # i => From(j) = At(j)
      /\ From(i) = i + 1
      /\ \A j, h \in 1 .. l : At(j) = At(h) => j = h
      /\ \A j, h \in 1 .. l : From(j) = From(h) => j = h
      /\ (w < l <=> m < n) /\ (w < l => w + 1 = m /\ w + 1 \in 1 .. l /\ From(w + 1) = m + 1)
  BY <1>30
<1>9. mem[q].next = u /\ (u = Null \/ (u \in Nodes /\ i + 1 # n /\ u = s[i + 2]))
  <2>1. CASE i + 1 = n
    BY <1>3, <2>1
  <2>2. CASE i + 1 # n
    <3>1. i + 1 \in 1 .. n - 1 /\ i + 2 \in 1 .. n /\ (i + 1) + 1 = i + 2
      BY <1>6, <1>7, <1>8, <2>2
    <3>2. mem[s[i + 1]].next = s[(i + 1) + 1] /\ s[i + 2] \in Nodes
      BY <1>3, <3>1
    <3> QED
      BY <2>2, <3>1, <3>2
  <2> QED
    BY <2>1, <2>2
<1>10. u = Null \/ (u \in Nodes /\ i + 1 # n /\ u = s[i + 2])
  BY <1>9
<1>11. /\ \A j \in 1 .. l - 1 : j < i => At(j + 1) = At(j) + 1 /\ At(j) \in 1 .. n - 1
       /\ \A j \in 1 .. l - 1 : j = i => At(j + 1) = i + 2 /\ i + 1 # n
       /\ \A j \in 1 .. l - 1 : j > i => At(j + 1) = At(j) + 1 /\ At(j) \in 1 .. n - 1
       /\ \A j \in 1 .. l - 1 : j \in 1 .. l /\ j + 1 \in 1 .. l
       /\ l = i => i + 1 = n
       /\ l # i => At(l) = n
       /\ l \in 1 .. l
       /\ \A j \in 2 .. w : j <= i => j \in 2 .. m
       /\ \A j \in 2 .. w : j > i => i = 1 /\ j + 1 \in 2 .. m
       /\ \A j \in 2 .. w : j \in 1 .. l
       /\ \A j \in 1 .. w : j \in 1 .. l
  BY <1>30
<1> HIDE DEF q, u, l, w, At, From
<1>12. t \in Seq(Nodes) /\ Len(t) = l /\ \A j \in 1 .. l : t[j] = s[At(j)]
  <2>1. \A j \in 1 .. l : s[At(j)] \in Nodes
    BY <1>3, <1>8
  <2>2. t \in [1 .. l -> Nodes] /\ \A j \in 1 .. l : t[j] = s[At(j)]
    BY <2>1
  <2> HIDE DEF t
  <2> QED
    BY <1>8, <2>2, TupleIs
<1> HIDE DEF t
<1>13. /\ \A x \in Nodes : new[x].key = IF x = s[i] THEN mem[q].key ELSE mem[x].key
       /\ \A x \in Nodes : new[x].value = IF x = s[i] THEN mem[q].value ELSE mem[x].value
       /\ \A x \in Nodes : new[x].next = IF x = s[i] THEN u ELSE mem[x].next
       /\ \A x \in Nodes : new[x].prev = IF x = u THEN s[i] ELSE mem[x].prev
       /\ \A x \in Nodes \ {s[i], u} : new[x] = mem[x]
  <2>1. q = mem[s[i]].next
    BY <1>7 DEF q
  <2> QED
    BY <1>9, <2>1 DEF TakesOver
<1>14. \A j \in 1 .. l : /\ t[j] \in Nodes /\ (t[j] = s[i] <=> j = i)
                         /\ new[t[j]].key = mem[s[From(j)]].key
                         /\ new[t[j]].value = mem[s[From(j)]].value
  <2> TAKE j \in 1 .. l
  <2>1. t[j] = s[At(j)] /\ At(j) \in 1 .. n
    BY <1>8, <1>12
  <2>2. t[j] \in Nodes /\ (t[j] = s[i] <=> j = i)
    BY <1>3, <1>6, <1>8, <2>1
  <2>3. CASE j = i
    <3>1. s[From(j)] = q
      BY <1>8, <2>3 DEF q
    <3> QED
      BY <1>13, <2>2, <2>3, <3>1
  <2>4. CASE j # i
    <3>1. s[From(j)] = t[j]
      BY <1>8, <2>1, <2>4
    <3> QED
      BY <1>13, <2>2, <2>4, <3>1
  <2> QED
    BY <2>2, <2>3, <2>4
<1>15. t[1] = b /\ u # b
  <2>1. 1 \in 1 .. l /\ 1 \in 1 .. n
    BY <1>3, <1>8
  <2>2. i + 2 # 1
    BY <1>6
  <2>3. t[1] = b
    BY <1>3, <1>8, <1>12, <2>1
  <2>4. u = s[i + 2] /\ i + 1 # n => u # b
    <3> HIDE DEF u
    <3>1. i + 1 # n => i + 2 \in 1 .. n
      BY <1>8
    <3> QED
      BY <1>3, <2>1, <2>2, <3>1
  <2> QED
    BY <1>1, <1>10, <2>3, <2>4
<1>16. ChainOf(new, got \ {q}, b, t)
  <2>1. \A j \in 1 .. l - 1 : new[t[j]].next = t[j + 1]
    <3> TAKE j \in 1 .. l - 1
    <3>1. j \in 1 .. l /\ j + 1 \in 1 .. l
      BY <1>11
    <3>2. CASE j = i
      BY <1>12, <1>11, <1>13, <1>14, <3>1, <3>2 DEF u
    <3>3. CASE j # i
      <4>1. At(j + 1) = At(j) + 1 /\ At(j) \in 1 .. n - 1
        BY <1>6, <1>8, <1>11, <3>3
      <4>2. t[j] # s[i] /\ t[j] \in Nodes
        BY <1>14, <3>1, <3>3
      <4>3. mem[t[j]].next = t[j + 1]
        BY <1>3, <1>12, <3>1, <4>1, ZenonT(30)
      <4> QED
        BY <1>13, <4>2, <4>3
    <3> QED
      BY <3>2, <3>3
  <2>2. new[t[l]].next = Null
    <3>1. CASE l = i
      BY <1>11, <1>13, <1>14, <3>1 DEF u
    <3>2. CASE l # i
      <4>1. t[l] = s[n] /\ t[l] # s[i] /\ t[l] \in Nodes
        BY <1>12, <1>11, <1>14, <3>2
      <4> QED
        BY <1>3, <1>13, <4>1
    <3> QED
      BY <3>1, <3>2
  <2>3. \A j \in 2 .. l : t[j] \in got \ {q}
    <3> TAKE j \in 2 .. l
    <3>1. j \in 1 .. l /\ At(j) \in 2 .. n /\ At(j) \in 1 .. n /\ At(j) # i + 1
      BY <1>8
    <3> QED
      BY <1>3, <1>7, <1>12, <3>1 DEF q
  <2>4. \A j, h \in 1 .. l : t[j] = t[h] => j = h
    <3> TAKE j, h \in 1 .. l
    <3>1. t[j] = s[At(j)] /\ t[h] = s[At(h)] /\ At(j) \in 1 .. n /\ At(h) \in 1 .. n
      BY <1>8, <1>12
    <3>2. s[At(j)] = s[At(h)] => At(j) = At(h)
      BY <1>3, <3>1
    <3> QED
      BY <1>8, <3>1, <3>2
  <2>5. l \in Nat \ {0}
    BY <1>8
  <2> QED
    BY <1>12, <1>15, <2>1, <2>2, <2>3, <2>4, <2>5, ChainIs
<1>17. Live(new, b, t, w)
  <2>1. w < l => Hole(new, t[w + 1])
    BY <1>4, <1>8, <1>14 DEF Hole
  <2>2. \A j \in 1 .. w : /\ new[t[j]].key \in Keys /\ new[t[j]].value \in Rows
                          /\ Hash[new[t[j]].key] = b
    BY <1>4, <1>8, <1>11, <1>14
  <2>3. w \in 0 .. Len(t)
    BY <1>8, <1>12
  <2> QED
    BY <1>12, <2>1, <2>2, <2>3 DEF Live
<1>18. SharedBucket(new, b, t, w)
  <2>1. new[b].prev = Null
    BY <1>1, <1>5, <1>13, <1>15
  <2>2. \A j \in 2 .. w : new[t[j]].prev \in {Null, b}
    <3> TAKE j \in 2 .. w
    <3>1. j \in 1 .. l /\ t[j] = s[At(j)] /\ t[j] \in Nodes
      BY <1>12, <1>11, <1>14
    <3>2. CASE j <= i
      <4>1. At(j) = j /\ j \in 2 .. m
        BY <1>11, <3>2 DEF At
      <4>2. mem[t[j]].prev \in {Null, b}
        BY <1>5, <3>1, <4>1
      <4>3. t[j] # u
        <5>1. j \in 1 .. n /\ (i + 1 # n => i + 2 \in 1 .. n /\ i + 2 # j)
          BY <1>4, <1>6, <1>8, <3>2, <4>1
        <5> QED
          BY <1>1, <1>3, <1>10, <3>1, <4>1, <5>1
      <4> QED
        BY <1>13, <3>1, <4>2, <4>3
    <3>3. CASE ~(j <= i)
      <4>1. i = 1 /\ At(j) = j + 1 /\ j + 1 \in 2 .. m
        BY <1>6, <1>11, <3>3 DEF At
      <4>2. mem[t[j]].prev \in {Null, b} /\ s[i] = b
        BY <1>3, <1>5, <3>1, <4>1
      <4> QED
        BY <1>13, <3>1, <4>2
    <3> QED
      BY <3>2, <3>3
  <2>3. \A j, h \in 1 .. w : KeyAt(new, t, j) = KeyAt(new, t, h) => j = h
    <3> TAKE j, h \in 1 .. w
    <3>1. From(j) \in 1 .. m /\ From(h) \in 1 .. m /\ j \in 1 .. l /\ h \in 1 .. l
      BY <1>8, <1>11
    <3> QED
      BY <1>5, <1>8, <1>14, <3>1 DEF KeyAt
  <2>4. w <= 3
    BY <1>8
  <2> QED
    BY <2>1, <2>2, <2>3, <2>4 DEF SharedBucket
<1>19. Within(mem, got, s, new, got \ {q}, t)
  <2>1. u = Null \/ \E j \in 1 .. n : u = s[j]
    BY <1>8, <1>10
  <2>2. \A x \in Nodes : (\E j \in 1 .. n : x = s[j]) \/ new[x] = mem[x]
    BY <1>1, <1>6, <1>13, <2>1
  <2>3. \A j \in 1 .. l : \E h \in 1 .. n : t[j] = s[h]
    BY <1>8, <1>12
  <2>4. \A x \in got : (\E j \in 1 .. n : x = s[j]) \/ x \in got \ {q}
    BY <1>7 DEF q
  <2> QED
    BY <1>12, <2>2, <2>3, <2>4 DEF Within, n
<1>20. Fewer(mem, s, m, new, t, w, KeyAt(mem, s, i))
  <2> SUFFICES ASSUME NEW j \in 1 .. w
               PROVE  \E h \in 1 .. m : /\ KeyAt(new, t, j) = KeyAt(mem, s, h)
                                        /\ new[t[j]].value = mem[s[h]].value
                                        /\ KeyAt(mem, s, h) # KeyAt(mem, s, i)
    BY DEF Fewer
  <2>1. From(j) \in 1 .. m /\ From(j) # i /\ j \in 1 .. l
    BY <1>8, <1>11
  <2>2. mem[s[From(j)]].key # mem[s[i]].key
    BY <1>5, <2>1
  <2> QED
    BY <1>14, <2>1, <2>2 DEF KeyAt
<1>21. q = mem[s[i]].next
  BY <1>7 DEF q
<1>22. Homed(new, b, t)
  <2> SUFFICES ASSUME NEW j \in 1 .. l
               PROVE  KeyAt(new, t, j) = Null \/ Hash[KeyAt(new, t, j)] = b
    BY <1>12 DEF Homed
  <2>1. From(j) \in 1 .. n /\ KeyAt(new, t, j) = KeyAt(mem, s, From(j))
    BY <1>8, <1>14 DEF KeyAt
  <2>2. KeyAt(mem, s, From(j)) = Null \/ Hash[KeyAt(mem, s, From(j))] = b
    BY <2>1 DEF BucketOK, Homed, n
  <2> QED
    BY <2>1, <2>2
<1> QED
  BY <1>16, <1>17, <1>18, <1>19, <1>20, <1>21, <1>22 DEF BucketOK

\* The last node, without a prev, becomes a hole.
LEMMA EmptyKeeps ==
  ASSUME NEW mem \in Memory(Keys, Rows), NEW got \in SUBSET Addrs,
         NEW b \in Buckets \ FileBuckets, NEW s, NEW m, BucketOK(mem, got, b, s, m),
         NEW i \in 1 .. m,
         NEW new, Empties(mem, new, s[i]), mem[s[i]].prev = Null, mem[s[i]].next = Null
  PROVE  \E t, w :
           /\ BucketOK(new, got, b, t, w)
           /\ Within(mem, got, s, new, got, t)
           /\ Fewer(mem, s, m, new, t, w, KeyAt(mem, s, i))
<1> DEFINE n == Len(s)
<1>1. /\ b \in Nodes /\ b \notin Addrs /\ Null \notin Nodes /\ Null \notin Keys /\ Null \notin Rows
  BY MemoryAssumption, TableAssumption DEF Nodes
<1>2. ChainOf(mem, got, b, s) /\ Live(mem, b, s, m) /\ SharedBucket(mem, b, s, m)
  BY DEF BucketOK
<1>3. /\ s \in Seq(Nodes) /\ n \in Nat \ {0} /\ s[1] = b
      /\ \A j \in 1 .. n : s[j] \in Nodes
      /\ \A j \in 1 .. n - 1 : mem[s[j]].next = s[j + 1]
      /\ mem[s[n]].next = Null
      /\ \A j \in 2 .. n : s[j] \in got
      /\ \A j, h \in 1 .. n : s[j] = s[h] => j = h
  BY <1>2, ChainHas
<1>4. /\ m \in 0 .. n /\ m \in Nat
      /\ \A j \in 1 .. m : /\ mem[s[j]].key \in Keys /\ mem[s[j]].value \in Rows
                           /\ Hash[mem[s[j]].key] = b
      /\ m < n => Hole(mem, s[m + 1])
  BY <1>2 DEF Live
<1>5. /\ m <= 3 /\ mem[b].prev = Null
      /\ \A j, h \in 1 .. m : mem[s[j]].key = mem[s[h]].key => j = h
      /\ \A j \in 2 .. m : mem[s[j]].prev \in {Null, b}
  BY <1>2 DEF SharedBucket, KeyAt
<1> HIDE DEF n
<1>6. i \in 1 .. n /\ i \in Nat \ {0}
  BY <1>3, <1>4
<1>7. i = n /\ m = n
  <2>1. i < n => i \in 1 .. n - 1 /\ i + 1 \in 1 .. n
    BY <1>3, <1>6
  <2> QED
    BY <1>1, <1>3, <1>4, <1>6, <2>1
<1>8. /\ \A x \in Nodes : new[x].next = mem[x].next /\ new[x].prev = mem[x].prev
      /\ new[s[n]].key = Null
      /\ \A x \in Nodes \ {s[n]} : new[x] = mem[x]
  BY <1>3, <1>6, <1>7 DEF Empties
<1> DEFINE w == n - 1
<1>9. /\ w \in 0 .. n /\ w < n /\ w + 1 = n /\ w <= 2 /\ n \in 1 .. n
      /\ \A j \in 1 .. w : j \in 1 .. n /\ j \in 1 .. m /\ j # n
      /\ \A j \in 2 .. w : j \in 1 .. n /\ j \in 2 .. m
      /\ \A j \in 1 .. n - 1 : j \in 1 .. n
  BY <1>3, <1>5, <1>7
<1> HIDE DEF w
<1>10. \A j \in 1 .. w : s[j] \in Nodes /\ new[s[j]] = mem[s[j]]
  BY <1>3, <1>8, <1>9
<1>11. ChainOf(new, got, b, s)
  BY <1>2, <1>3, <1>8, <1>9 DEF ChainOf, n
<1>12. Live(new, b, s, w)
  BY <1>4, <1>8, <1>9, <1>10 DEF Live, Hole, n
<1>13. SharedBucket(new, b, s, w)
  <2>1. new[b].prev = Null
    BY <1>1, <1>5, <1>8
  <2>2. \A j \in 2 .. w : new[s[j]].prev \in {Null, b}
    BY <1>3, <1>5, <1>8, <1>9
  <2>3. \A j, h \in 1 .. w : KeyAt(new, s, j) = KeyAt(new, s, h) => j = h
    BY <1>5, <1>9, <1>10 DEF KeyAt
  <2> QED
    BY <1>9, <2>1, <2>2, <2>3 DEF SharedBucket
<1>14. Within(mem, got, s, new, got, s)
  BY <1>8, <1>9 DEF Within, n
<1>15. Fewer(mem, s, m, new, s, w, KeyAt(mem, s, i))
  <2> SUFFICES ASSUME NEW j \in 1 .. w
               PROVE  \E h \in 1 .. m : /\ KeyAt(new, s, j) = KeyAt(mem, s, h)
                                        /\ new[s[j]].value = mem[s[h]].value
                                        /\ KeyAt(mem, s, h) # KeyAt(mem, s, i)
    BY DEF Fewer
  <2>1. j \in 1 .. m /\ j # i
    BY <1>7, <1>9
  <2>2. mem[s[j]].key # mem[s[i]].key
    BY <1>5, <2>1
  <2> QED
    BY <1>10, <2>1, <2>2 DEF KeyAt
<1>16. Homed(new, b, s)
  <2> SUFFICES ASSUME NEW j \in 1 .. n
               PROVE  KeyAt(new, s, j) = Null \/ Hash[KeyAt(new, s, j)] = b
    BY DEF Homed, n
  <2>1. KeyAt(mem, s, j) = Null \/ Hash[KeyAt(mem, s, j)] = b
    BY DEF BucketOK, Homed, n
  <2>2. s[j] \in Nodes
    BY <1>3
  <2> QED
    BY <1>8, <2>1, <2>2 DEF KeyAt
<1> QED
  BY <1>11, <1>12, <1>13, <1>14, <1>15, <1>16 DEF BucketOK

LEMMA RemoveKeeps ==
  ASSUME NEW mem \in Memory(Keys, Rows), NEW got \in SUBSET Addrs, NEW k \in Keys,
         Hash[k] \notin FileBuckets, NEW s, NEW m, BucketOK(mem, got, Hash[k], s, m),
         NEW n, n = FindNodeByKey(mem, Text, Hash[k], k), n # Null,
         NEW r, r = RemoveHashItemByNode(mem, got, n)
  PROVE  \E t, w :
           /\ BucketOK(r.node, r.alloc, Hash[k], t, w)
           /\ Within(mem, got, s, r.node, r.alloc, t)
           /\ Fewer(mem, s, m, r.node, t, w, k)
<1> DEFINE b == Hash[k]
<1>1. b \in Buckets \ FileBuckets
  BY TableAssumption
<1>2. Finds(mem, s, m, k, n)
  BY FindAlong DEF BucketOK
<1>3. PICK i \in 1 .. m : n = s[i] /\ KeyAt(mem, s, i) = k
  BY <1>2 DEF Finds
<1>4. n \in Nodes
  <2>1. i \in 1 .. Len(s) /\ s \in Seq(Nodes)
    BY DEF BucketOK, ChainOf, Live
  <2> QED
    BY <1>3, <2>1
<1> HIDE DEF b
<1>5. BucketOK(mem, got, b, s, m)
  BY DEF b
<1>6. CASE mem[n].prev # Null
  <2>1. CutOut(mem, r.node, n) /\ r.alloc = got \ {n}
    BY <1>4, <1>6, CutWrites
  <2> QED
    <3>1. /\ CutOut(mem, r.node, s[i]) /\ r.alloc = got \ {s[i]}
          /\ mem[s[i]].prev # Null
      BY <1>3, <1>6, <2>1
    <3> DEFINE new == r.node
    <3> HIDE DEF new
    <3>2. CutOut(mem, new, s[i])
      BY <3>1 DEF new
    <3>3. \E t, w :
            /\ BucketOK(new, got \ {s[i]}, b, t, w)
            /\ Within(mem, got, s, new, got \ {s[i]}, t)
            /\ Fewer(mem, s, m, new, t, w, KeyAt(mem, s, i))
      BY <1>1, <1>5, <3>1, <3>2, CutKeeps
    <3> QED
      BY <1>3, <3>1, <3>3 DEF b, new
<1>7. CASE mem[n].prev = Null /\ mem[n].next # Null
  <2>1. TakesOver(mem, r.node, n) /\ r.alloc = got \ {mem[n].next}
    BY <1>4, <1>7, TakeWrites
  <2> QED
    <3>1. /\ TakesOver(mem, r.node, s[i]) /\ r.alloc = got \ {mem[s[i]].next}
          /\ mem[s[i]].prev = Null /\ mem[s[i]].next # Null
      BY <1>3, <1>7, <2>1
    <3> DEFINE new == r.node
    <3> HIDE DEF new
    <3>2. TakesOver(mem, new, s[i])
      BY <3>1 DEF new
    <3>3. \E t, w :
            /\ BucketOK(new, got \ {mem[s[i]].next}, b, t, w)
            /\ Within(mem, got, s, new, got \ {mem[s[i]].next}, t)
            /\ Fewer(mem, s, m, new, t, w, KeyAt(mem, s, i))
      BY <1>1, <1>5, <3>1, <3>2, TakeKeeps
    <3> QED
      BY <1>3, <3>1, <3>3 DEF b, new
<1>8. CASE mem[n].prev = Null /\ mem[n].next = Null
  <2>1. Empties(mem, r.node, n) /\ r.alloc = got
    BY <1>4, <1>8, EmptyWrites
  <2> QED
    <3>1. /\ Empties(mem, r.node, s[i]) /\ r.alloc = got
          /\ mem[s[i]].prev = Null /\ mem[s[i]].next = Null
      BY <1>3, <1>8, <2>1
    <3> DEFINE new == r.node
    <3> HIDE DEF new
    <3>2. Empties(mem, new, s[i])
      BY <3>1 DEF new
    <3>3. \E t, w :
            /\ BucketOK(new, got, b, t, w)
            /\ Within(mem, got, s, new, got, t)
            /\ Fewer(mem, s, m, new, t, w, KeyAt(mem, s, i))
      BY <1>1, <1>5, <3>1, <3>2, EmptyKeeps
    <3> QED
      BY <1>3, <3>1, <3>3 DEF b, new
<1> QED
  BY <1>6, <1>7, <1>8

-----------------------------------------------------------------------------
(* All buckets together: no node is on two chains.                           *)
Apart(c) ==
    \A a, b \in Buckets : \A i \in 1 .. Len(c[a]), j \in 1 .. Len(c[b]) :
        c[a][i] = c[b][j] => a = b

Chained(mem, got, c, m) ==
    /\ c \in [Buckets -> Seq(Nodes)] /\ m \in [Buckets -> Nat] /\ Apart(c)
    /\ \A b \in Buckets : BucketOK(mem, got, b, c[b], m[b])

Held(mem, got) == \E c, m : Chained(mem, got, c, m)

\* A step on the chain of one bucket is none on the others.
LEMMA OthersKeep ==
  ASSUME NEW mem, NEW got \in SUBSET Addrs, NEW c, NEW m, Chained(mem, got, c, m),
         NEW b \in Buckets, NEW new, NEW kept, NEW t, NEW w,
         BucketOK(new, kept, b, t, w), Within(mem, got, c[b], new, kept, t)
  PROVE  /\ Chained(new, kept, [c EXCEPT ![b] = t], [m EXCEPT ![b] = w])
         /\ \A a \in Buckets \ {b} : SameRows(mem, c[a], m[a], new, c[a], m[a])
<1>1. /\ c \in [Buckets -> Seq(Nodes)] /\ m \in [Buckets -> Nat] /\ Apart(c)
      /\ \A a \in Buckets : BucketOK(mem, got, a, c[a], m[a])
  BY DEF Chained
<1>2. t \in Seq(Nodes) /\ w \in Nat
  BY ChainHas DEF BucketOK, Live
<1>3. Buckets \cap Addrs = {}
  BY MemoryAssumption
<1>4. ASSUME NEW a \in Buckets \ {b}
      PROVE  /\ ChainOf(mem, got, a, c[a]) /\ Live(mem, a, c[a], m[a])
             /\ \A i \in 1 .. Len(c[a]) : new[c[a][i]] = mem[c[a][i]]
             /\ \A i \in 1 .. Len(c[a]) : c[a][i] \notin Addrs \ got
             /\ \A i \in 2 .. Len(c[a]) : c[a][i] \in kept
  <2> DEFINE s == c[a]
  <2>1. ChainOf(mem, got, a, s) /\ Live(mem, a, s, m[a])
    BY <1>1 DEF BucketOK
  <2>2. /\ Len(s) \in Nat \ {0} /\ s[1] = a /\ \A i \in 1 .. Len(s) : s[i] \in Nodes
        /\ \A i \in 2 .. Len(s) : s[i] \in got
    BY <2>1, ChainHas
  <2>3. \A i \in 1 .. Len(s), j \in 1 .. Len(c[b]) : s[i] # c[b][j]
    BY <1>1 DEF Apart
  <2> HIDE DEF s
  <2>4. \A i \in 1 .. Len(s) : s[i] \notin Addrs \ got
    <3>1. \A i \in 1 .. Len(s) : i = 1 \/ i \in 2 .. Len(s)
      BY <2>2
    <3> QED
      BY <1>3, <2>2, <3>1
  <2>5. \A i \in 1 .. Len(s) : new[s[i]] = mem[s[i]]
    BY <2>2, <2>3, <2>4 DEF Within
  <2>6. \A i \in 2 .. Len(s) : s[i] \in kept
    <3>1. \A i \in 2 .. Len(s) : i \in 1 .. Len(s)
      BY <2>2
    <3> QED
      BY <2>2, <2>3, <3>1 DEF Within
  <2> QED
    BY <2>1, <2>4, <2>5, <2>6 DEF s
<1>5. ASSUME NEW a \in Buckets \ {b} PROVE BucketOK(new, kept, a, c[a], m[a])
  <2> DEFINE s == c[a]
             l == m[a]
  <2>1. /\ ChainOf(mem, got, a, s) /\ Live(mem, a, s, l)
        /\ \A i \in 1 .. Len(s) : new[s[i]] = mem[s[i]]
        /\ \A i \in 2 .. Len(s) : s[i] \in kept
        /\ BucketOK(mem, got, a, s, l)
    BY <1>1, <1>4
  <2> HIDE DEF s, l
  <2>2. /\ Len(s) \in Nat \ {0} /\ s[1] = a /\ l \in 0 .. Len(s)
        /\ \A i \in 1 .. Len(s) - 1 : i \in 1 .. Len(s)
        /\ \A i \in 1 .. l : i \in 1 .. Len(s)
        /\ \A i \in 2 .. l : i \in 1 .. Len(s)
        /\ 1 \in 1 .. Len(s) /\ Len(s) \in 1 .. Len(s)
        /\ l < Len(s) => l + 1 \in 1 .. Len(s)
    BY <2>1, ChainHas DEF Live
  <2>3. ChainOf(new, kept, a, s)
    BY <2>1, <2>2 DEF ChainOf
  <2>4. Live(new, a, s, l)
    BY <2>1, <2>2 DEF Live, Hole
  <2>5. a \in FileBuckets => KeptBucket(new, s, l)
    BY <2>1, <2>2 DEF BucketOK, KeptBucket
  <2>6. a \notin FileBuckets => SharedBucket(new, a, s, l)
    <3> SUFFICES ASSUME a \notin FileBuckets PROVE SharedBucket(new, a, s, l)
      OBVIOUS
    <3>1. SharedBucket(mem, a, s, l)
      BY <2>1 DEF BucketOK
    <3>2. new[a] = mem[a]
      BY <2>1, <2>2
    <3> QED
      BY <2>1, <2>2, <3>1, <3>2 DEF SharedBucket, KeyAt
  <2>7. Homed(new, a, s)
    BY <2>1 DEF BucketOK, Homed, KeyAt
  <2> QED
    BY <2>3, <2>4, <2>5, <2>6, <2>7 DEF BucketOK, s, l
<1>6. ASSUME NEW a \in Buckets \ {b} PROVE SameRows(mem, c[a], m[a], new, c[a], m[a])
  <2> DEFINE s == c[a]
             l == m[a]
  <2>1. \A i \in 1 .. Len(s) : new[s[i]] = mem[s[i]]
    BY <1>4
  <2>2. l \in Nat /\ \A i \in 1 .. l : i \in 1 .. Len(s)
    <3>1. Live(mem, a, s, l) /\ ChainOf(mem, got, a, s)
      BY <1>4
    <3> HIDE DEF s, l
    <3> QED
      BY <3>1, ChainHas DEF Live
  <2> HIDE DEF s, l
  <2>3. SameRows(mem, s, l, new, s, l)
    BY <2>1, <2>2, SameAnswers DEF KeyAt
  <2> QED
    BY <2>3 DEF s, l
<1> DEFINE d == [c EXCEPT ![b] = t]
           e == [m EXCEPT ![b] = w]
<1>7. d \in [Buckets -> Seq(Nodes)] /\ e \in [Buckets -> Nat]
      /\ d[b] = t /\ e[b] = w /\ \A a \in Buckets \ {b} : d[a] = c[a] /\ e[a] = m[a]
  BY <1>1, <1>2
<1> HIDE DEF d, e
<1>8. \A a \in Buckets : BucketOK(new, kept, a, d[a], e[a])
  BY <1>5, <1>7
<1>9. Apart(d)
  <2>1. ASSUME NEW a \in Buckets \ {b}, NEW i \in 1 .. Len(c[a]), NEW j \in 1 .. Len(t)
        PROVE  c[a][i] # t[j]
    <3>1. (\E h \in 1 .. Len(c[b]) : t[j] = c[b][h]) \/ t[j] \in Addrs \ got
      BY DEF Within
    <3>2. \A h \in 1 .. Len(c[b]) : c[a][i] # c[b][h]
      BY <1>1 DEF Apart
    <3> QED
      BY <1>4, <3>1, <3>2
  <2>2. ASSUME NEW x \in Buckets, NEW y \in Buckets, NEW i \in 1 .. Len(d[x]),
               NEW j \in 1 .. Len(d[y]), d[x][i] = d[y][j]
        PROVE  x = y
    <3>1. CASE x # b /\ y # b
      BY <1>1, <1>7, <2>2, <3>1 DEF Apart
    <3>2. CASE x = b /\ y # b
      BY <1>7, <2>1, <2>2, <3>2
    <3>3. CASE x # b /\ y = b
      BY <1>7, <2>1, <2>2, <3>3
    <3> QED
      BY <3>1, <3>2, <3>3
  <2> QED
    BY <2>2 DEF Apart
<1>10. Chained(new, kept, d, e)
  BY <1>7, <1>8, <1>9 DEF Chained
<1> QED
  BY <1>6, <1>10 DEF d, e

\* What a lookup returns is what the chain of its bucket says, once for every domain.
LEMMA RowIs ==
  ASSUME NEW mem \in Memory(Keys, Rows), NEW got, NEW c, NEW m, Chained(mem, got, c, m),
         NEW k \in Keys
  PROVE  /\ Hash[k] \in Buckets /\ m[Hash[k]] \in Nat
         /\ Answers(mem, c[Hash[k]], m[Hash[k]], k, RowIn(mem, k))
         /\ \A x : Answers(mem, c[Hash[k]], m[Hash[k]], k, x) => x = RowIn(mem, k)
         /\ RowIn(mem, k) \in Rows \cup {Null}
<1> DEFINE b == Hash[k]
           s == c[b]
           l == m[b]
<1>1. b \in Buckets
  BY TableAssumption
<1>2. BucketOK(mem, got, b, s, l) /\ l \in Nat
  BY <1>1 DEF Chained
<1>3. ChainOf(mem, got, b, s) /\ Live(mem, b, s, l)
  BY <1>2 DEF BucketOK
<1> HIDE DEF s, l
<1>4. Answers(mem, s, l, k, RowIn(mem, k))
  BY <1>3, RowAnswers
<1>5. \A x : Answers(mem, s, l, k, x) => x = RowIn(mem, k)
  BY <1>2, <1>4, OneAnswer
<1>6. RowIn(mem, k) \in Rows \cup {Null}
  BY <1>3, <1>4 DEF Answers, Live
<1> QED
  BY <1>1, <1>2, <1>4, <1>5, <1>6 DEF s, l

LEMMA RowOnly ==
  ASSUME NEW mem \in Memory(Keys, Rows), NEW got, NEW c, NEW m, Chained(mem, got, c, m),
         NEW k \in Keys, NEW x, Answers(mem, c[Hash[k]], m[Hash[k]], k, x)
  PROVE  x = RowIn(mem, k)
BY RowIs

\* What a step on the bucket b does to the rows of all domains.
LEMMA RowsElsewhere ==
  ASSUME NEW mem \in Memory(Keys, Rows), NEW got \in SUBSET Addrs, NEW c, NEW m,
         Chained(mem, got, c, m), NEW b \in Buckets,
         NEW new \in Memory(Keys, Rows), NEW kept, NEW d, NEW e, Chained(new, kept, d, e),
         \A a \in Buckets \ {b} : /\ d[a] = c[a] /\ e[a] = m[a]
                                  /\ SameRows(mem, c[a], m[a], new, c[a], m[a])
  PROVE  \A j \in Keys : Hash[j] # b => RowIn(new, j) = RowIn(mem, j)
<1> TAKE j \in Keys
<1> SUFFICES ASSUME Hash[j] # b PROVE RowIn(new, j) = RowIn(mem, j)
  OBVIOUS
<1>1. /\ Hash[j] \in Buckets
      /\ Answers(mem, c[Hash[j]], m[Hash[j]], j, RowIn(mem, j))
  BY RowIs
<1>2. Answers(new, d[Hash[j]], e[Hash[j]], j, RowIn(mem, j))
  BY <1>1 DEF SameRows
<1> QED
  BY <1>2, RowOnly

LEMMA InsertStep ==
  ASSUME AtMostThree,
         NEW mem \in Memory(Keys, Rows), NEW got \in SUBSET Addrs, Held(mem, got),
         NEW k \in Keys, NEW v \in Rows,
         Hash[k] \in FileBuckets => v \in StaticRows /\ got # Addrs,
         Hash[k] \notin FileBuckets => RowIn(mem, k) = Null,
         NEW r \in InsertHashItem(mem, got, Hash[k], k, v)
  PROVE  /\ Held(r.node, r.alloc)
         /\ \/ \A j \in Keys : RowIn(r.node, j) = IF j = k /\ RowIn(mem, k) = Null
                                                  THEN v ELSE RowIn(mem, j)
            \/ /\ Hash[k] \notin FileBuckets
               /\ \A j \in Keys : RowIn(r.node, j) = RowIn(mem, j)
<1> DEFINE b == Hash[k]
           new == r.node
<1>1. PICK c, m : Chained(mem, got, c, m)
  BY DEF Held
<1>2. b \in Buckets /\ BucketOK(mem, got, b, c[b], m[b]) /\ m[b] \in Nat
  BY <1>1, TableAssumption DEF Chained
<1>3. PICK t, w :
        /\ BucketOK(new, r.alloc, b, t, w)
        /\ Within(mem, got, c[b], new, r.alloc, t)
        /\ \/ Learns(mem, c[b], m[b], new, t, w, k, v)
           \/ /\ Hash[k] \notin FileBuckets
              /\ SameRows(mem, c[b], m[b], new, t, w)
  BY <1>2, InsertKeeps
<1> DEFINE d == [c EXCEPT ![b] = t]
           e == [m EXCEPT ![b] = w]
<1>4. new \in Memory(Keys, Rows)
  BY InsertType
<1> HIDE DEF new
<1>5. /\ Chained(new, r.alloc, d, e)
      /\ \A a \in Buckets \ {b} : SameRows(mem, c[a], m[a], new, c[a], m[a])
  BY <1>1, <1>2, <1>3, OthersKeep
<1>6. /\ d[b] = t /\ e[b] = w
      /\ \A a \in Buckets \ {b} : d[a] = c[a] /\ e[a] = m[a]
  BY <1>1, <1>2 DEF Chained
<1> HIDE DEF d, e
<1>7. \A j \in Keys : Hash[j] # b => RowIn(new, j) = RowIn(mem, j)
  BY <1>1, <1>2, <1>4, <1>5, <1>6, RowsElsewhere
<1>8. \A j \in Keys : Hash[j] = b =>
        /\ Answers(mem, c[b], m[b], j, RowIn(mem, j))
        /\ \A x : Answers(new, t, w, j, x) => x = RowIn(new, j)
  <2> SUFFICES ASSUME NEW j \in Keys, Hash[j] = b
               PROVE  /\ Answers(mem, c[b], m[b], j, RowIn(mem, j))
                      /\ \A x : Answers(new, t, w, j, x) => x = RowIn(new, j)
    OBVIOUS
  <2> HIDE DEF b
  <2>1. Answers(mem, c[b], m[b], j, RowIn(mem, j))
    BY <1>1, RowIs
  <2>2. ASSUME NEW x, Answers(new, t, w, j, x) PROVE x = RowIn(new, j)
    <3>1. Answers(new, d[Hash[j]], e[Hash[j]], j, x)
      BY <1>6, <2>2
    <3> QED
      BY <1>4, <1>5, <3>1, RowOnly
  <2> QED
    BY <2>1, <2>2
<1>9. Held(new, r.alloc)
  BY <1>5 DEF Held
<1>10. CASE Learns(mem, c[b], m[b], new, t, w, k, v)
  <2>1. ASSUME NEW j \in Keys
        PROVE  RowIn(new, j) = IF j = k /\ RowIn(mem, k) = Null THEN v ELSE RowIn(mem, j)
    <3>1. CASE Hash[j] = b
      <4>1. Answers(new, t, w, j, IF j = k /\ RowIn(mem, j) = Null THEN v ELSE RowIn(mem, j))
        BY <1>8, <1>10, <3>1 DEF Learns
      <4> QED
        BY <1>8, <3>1, <4>1
    <3>2. CASE Hash[j] # b
      BY <1>7, <3>2
    <3> QED
      BY <3>1, <3>2
  <2> QED
    BY <1>9, <2>1 DEF new
<1>11. CASE /\ Hash[k] \notin FileBuckets
            /\ SameRows(mem, c[b], m[b], new, t, w)
  <2>1. ASSUME NEW j \in Keys PROVE RowIn(new, j) = RowIn(mem, j)
    <3>1. CASE Hash[j] = b
      BY <1>8, <1>11, <3>1 DEF SameRows
    <3>2. CASE Hash[j] # b
      BY <1>7, <3>2
    <3> QED
      BY <3>1, <3>2
  <2> QED
    BY <1>9, <1>11, <2>1 DEF new
<1> QED
  BY <1>3, <1>10, <1>11

LEMMA RemoveStep ==
  ASSUME NEW mem \in Memory(Keys, Rows), NEW got \in SUBSET Addrs, Held(mem, got),
         NEW k \in Keys, Hash[k] \notin FileBuckets,
         NEW n, n = FindNodeByKey(mem, Text, Hash[k], k), n # Null,
         NEW r, r = RemoveHashItemByNode(mem, got, n)
  PROVE  /\ Held(r.node, r.alloc)
         /\ RowIn(r.node, k) = Null
         /\ \A j \in Keys : RowIn(r.node, j) \in {RowIn(mem, j), Null}
         /\ \A j \in Keys : Hash[j] # Hash[k] => RowIn(r.node, j) = RowIn(mem, j)
<1> DEFINE b == Hash[k]
           new == r.node
<1>1. PICK c, m : Chained(mem, got, c, m)
  BY DEF Held
<1>2. b \in Buckets /\ BucketOK(mem, got, b, c[b], m[b]) /\ m[b] \in Nat
  BY <1>1, TableAssumption DEF Chained
<1>3. PICK t, w :
        /\ BucketOK(new, r.alloc, b, t, w)
        /\ Within(mem, got, c[b], new, r.alloc, t)
        /\ Fewer(mem, c[b], m[b], new, t, w, k)
  BY <1>2, RemoveKeeps
<1> DEFINE d == [c EXCEPT ![b] = t]
           e == [m EXCEPT ![b] = w]
<1>4. new \in Memory(Keys, Rows)
  <2>1. n \in Nodes
    BY FindType
  <2> QED
    BY <2>1, RemoveType
<1> HIDE DEF new
<1>5. /\ Chained(new, r.alloc, d, e)
      /\ \A a \in Buckets \ {b} : SameRows(mem, c[a], m[a], new, c[a], m[a])
  BY <1>1, <1>2, <1>3, OthersKeep
<1>6. /\ d[b] = t /\ e[b] = w
      /\ \A a \in Buckets \ {b} : d[a] = c[a] /\ e[a] = m[a]
  BY <1>1, <1>2 DEF Chained
<1> HIDE DEF d, e
<1>7. \A j \in Keys : Hash[j] # b => RowIn(new, j) = RowIn(mem, j)
  BY <1>1, <1>2, <1>4, <1>5, <1>6, RowsElsewhere
<1>8. \A j \in Keys : Hash[j] = b =>
        /\ \A x : Answers(mem, c[b], m[b], j, x) => x = RowIn(mem, j)
        /\ Answers(new, t, w, j, RowIn(new, j))
  BY <1>1, <1>4, <1>5, <1>6, RowIs
<1>9. Held(new, r.alloc)
  BY <1>5 DEF Held
<1>10. ASSUME NEW j \in Keys, Hash[j] = b, RowIn(new, j) # Null
       PROVE  j # k /\ RowIn(new, j) = RowIn(mem, j)
  <2>1. PICK i \in 1 .. w : RowIn(new, j) = new[t[i]].value /\ KeyAt(new, t, i) = j
    BY <1>8, <1>10 DEF Answers
  <2>2. PICK h \in 1 .. m[b] : /\ KeyAt(mem, c[b], h) = j /\ mem[c[b][h]].value = RowIn(new, j)
                               /\ j # k
    BY <1>3, <2>1 DEF Fewer
  <2>3. \A l \in 1 .. h - 1 : KeyAt(mem, c[b], l) # j
    <3>1. SharedBucket(mem, b, c[b], m[b])
      BY <1>2 DEF BucketOK
    <3>2. \A l \in 1 .. h - 1 : l \in 1 .. m[b] /\ l # h
      BY <1>2
    <3> QED
      BY <2>2, <3>1, <3>2 DEF SharedBucket
  <2>4. Answers(mem, c[b], m[b], j, RowIn(new, j))
    BY <2>2, <2>3 DEF Answers
  <2> QED
    BY <1>8, <1>10, <2>2, <2>4
<1>11. RowIn(new, k) = Null /\ \A j \in Keys : RowIn(new, j) \in {RowIn(mem, j), Null}
  BY <1>7, <1>10
<1> QED
  BY <1>7, <1>9, <1>11 DEF new

\* A bucket of the file holds rows of the file.
LEMMA FileRow ==
  ASSUME NEW mem \in Memory(Keys, Rows), NEW got, Held(mem, got),
         NEW k \in Keys, Hash[k] \in FileBuckets
  PROVE  RowIn(mem, k) \in StaticRows \cup {Null}
<1>1. PICK c, m : Chained(mem, got, c, m)
  BY DEF Held
<1> DEFINE b == Hash[k]
<1>2. b \in Buckets /\ Answers(mem, c[b], m[b], k, RowIn(mem, k))
  BY <1>1, RowIs
<1>3. KeptBucket(mem, c[b], m[b])
  BY <1>1, <1>2 DEF Chained, BucketOK
<1> QED
  BY <1>2, <1>3 DEF Answers, KeptBucket

LEMMA RowType ==
  ASSUME NEW mem \in Memory(Keys, Rows), NEW got, Held(mem, got), NEW k \in Keys
  PROVE  RowIn(mem, k) \in Rows \cup {Null}
BY RowIs DEF Held
\* Every chain ends, in memory that malloc gave out, and its nodes have domains of
\* its bucket.
LEMMA HeldIntact ==
  ASSUME NEW mem \in Memory(Keys, Rows), NEW got \in SUBSET Addrs, Held(mem, got),
         NEW b \in Buckets
  PROVE  ~Endless(mem, b) /\ ~Dangling(mem, got, b)
<1>1. PICK c, m : Chained(mem, got, c, m)
  BY DEF Held
<1>2. ChainOf(mem, got, b, c[b])
  BY <1>1 DEF Chained, BucketOK
<1> QED
  BY <1>2, ChainIntact

LEMMA HeldHomed ==
  ASSUME NEW mem \in Memory(Keys, Rows), NEW got \in SUBSET Addrs, Held(mem, got),
         NEW b \in Buckets, NEW i \in Steps, NEW n, n = Visits(mem, b)[i], n # Null
  PROVE  n \in Nodes /\ (mem[n].key = Null \/ Hash[mem[n].key] = b)
<1>1. PICK c, m : Chained(mem, got, c, m)
  BY DEF Held
<1> DEFINE s == c[b]
<1>2. ChainOf(mem, got, b, s) /\ Homed(mem, b, s)
  BY <1>1 DEF Chained, BucketOK
<1> HIDE DEF s
<1>3. i < Len(s) /\ n = s[i + 1]
  BY <1>2, WalkIs
<1>4. Len(s) \in Nat /\ i \in Nat /\ \A j \in 1 .. Len(s) : s[j] \in Nodes
  BY <1>2, ChainHas, FS_CardinalityType, MemoryAssumption DEF Steps
<1>5. i + 1 \in 1 .. Len(s)
  BY <1>3, <1>4
<1> QED
  BY <1>2, <1>3, <1>4, <1>5 DEF Homed, KeyAt
-----------------------------------------------------------------------------
\* No domain that expires shares a bucket with a domain of the file.
FileApart == \A k \in Keys : Hash[k] \in FileBuckets => \E i \in StaticRows : File[i] = k

\* No two domains that expire share a bucket.
Alone == \A j, k \in Keys : Hash[j] = Hash[k] /\ Hash[j] \notin FileBuckets => j = k

\* The domains of the lines read so far stay in the table.
IInv ==
    /\ TypeOK
    /\ Held(node, alloc)
    /\ \A i \in 1 .. line : RowIn(node, File[i]) # Null

LEMMA TypeNow ==
  ASSUME TypeOK
  PROVE  /\ node \in Memory(Keys, Rows) /\ alloc \in SUBSET Addrs /\ line \in 0 .. Len(File)
         /\ Len(File) \in Nat /\ \A i \in StaticRows : File[i] \in Keys /\ Hash[File[i]] \in FileBuckets
<1>1. File \in Seq(Keys)
  BY TableAssumption
<1> QED
  BY <1>1 DEF TypeOK, Memory, StaticRows, FileBuckets

LEMMA TypeNext ==
  ASSUME node' \in Memory(Keys, Rows), alloc' \in SUBSET Addrs, line' \in 0 .. Len(File)
  PROVE  TypeOK'
BY DEF TypeOK, Memory

\* The cleared table holds nothing (NewHashTable).
LEMMA NewHeld == Held(NewHashTable, {}) /\ \A k \in Keys : RowIn(NewHashTable, k) = Null
<1> DEFINE mem == NewHashTable
           c == [b \in Buckets |-> <<b>>]
           m == [b \in Buckets |-> 0]
<1>1. mem \in Memory(Keys, Rows)
  BY NewType
<1>2. \A n \in Nodes : mem[n] = [key |-> Null, value |-> Null, prev |-> Null, next |-> Null]
  BY DEF NewHashTable, ClearedNode
<1> HIDE DEF mem
<1>4. ASSUME NEW b \in Buckets PROVE BucketOK(mem, {}, b, <<b>>, 0)
  <2> DEFINE s == <<b>>
  <2>1. s \in Seq(Nodes) /\ Len(s) = 1 /\ s[1] = b /\ b \in Nodes
    BY DEF Nodes
  <2>2. mem[b] = [key |-> Null, value |-> Null, prev |-> Null, next |-> Null]
    BY <1>2, <2>1
  <2> HIDE DEF s
  <2>3. ChainOf(mem, {}, b, s)
    BY <2>1, <2>2 DEF ChainOf
  <2>4. Live(mem, b, s, 0)
    BY <2>1, <2>2 DEF Live, Hole
  <2>5. KeptBucket(mem, s, 0)
    BY <2>1 DEF KeptBucket
  <2>6. SharedBucket(mem, b, s, 0)
    BY <2>2 DEF SharedBucket
  <2>7. Homed(mem, b, s)
    BY <2>1, <2>2 DEF Homed, KeyAt
  <2> QED
    BY <2>3, <2>4, <2>5, <2>6, <2>7 DEF BucketOK, s
<1>5. Chained(mem, {}, c, m)
  <2>1. c \in [Buckets -> Seq(Nodes)] /\ m \in [Buckets -> Nat]
    <3>1. \A b \in Buckets : <<b>> \in Seq(Nodes)
      BY DEF Nodes
    <3> QED
      BY <3>1
  <2>2. Apart(c)
    <3>1. \A b \in Buckets : Len(c[b]) = 1 /\ c[b][1] = b
      OBVIOUS
    <3> HIDE DEF c
    <3>2. \A b \in Buckets : \A i \in 1 .. Len(c[b]) : c[b][i] = b
      BY <3>1
    <3> QED
      BY <3>2 DEF Apart
  <2>3. \A b \in Buckets : BucketOK(mem, {}, b, c[b], m[b])
    BY <1>4
  <2> HIDE DEF c, m
  <2> QED
    BY <2>1, <2>2, <2>3 DEF Chained
<1>6. \A k \in Keys : RowIn(mem, k) = Null
  <2> TAKE k \in Keys
  <2>1. Answers(mem, c[Hash[k]], m[Hash[k]], k, RowIn(mem, k)) /\ Hash[k] \in Buckets
    <3> HIDE DEF c, m
    <3> QED
      BY <1>1, <1>5, RowIs
  <2>2. m[Hash[k]] = 0
    BY <2>1
  <2> HIDE DEF m, c
  <2> QED
    BY <2>1, <2>2 DEF Answers
<1>7. Held(mem, {})
  <2> HIDE DEF c, m
  <2> QED
    BY <1>5 DEF Held
<1> QED
  BY <1>6, <1>7 DEF mem

\* The first lookups find nothing.
LEMMA InitKeeps ==
  ASSUME Init
  PROVE  IInv /\ \A k \in Keys : RowIn(node, k) = Null
<1>1. node = NewHashTable /\ alloc = {} /\ line = 0
  BY DEF Init
<1>2. node \in Memory(Keys, Rows) /\ Len(File) \in Nat
  BY <1>1, NewType, TableAssumption
<1>3. TypeOK
  BY <1>1, <1>2 DEF TypeOK, Memory
<1> QED
  BY <1>1, <1>3, NewHeld DEF IInv

\* What a step may do to the rows: one more, one less and perhaps others of its
\* bucket, or nothing.
Learnt(k, v) ==
    \A j \in Keys : RowIn(node', j) = IF j = k /\ RowIn(node, k) = Null THEN v ELSE RowIn(node, j)

Lost(k) ==
    /\ Hash[k] \notin FileBuckets
    /\ RowIn(node, k) # Null /\ RowIn(node', k) = Null
    /\ \A j \in Keys : RowIn(node', j) \in {RowIn(node, j), Null}
    /\ \A j \in Keys : Hash[j] # Hash[k] => RowIn(node', j) = RowIn(node, j)

RowStep ==
    \/ \A j \in Keys : RowIn(node', j) = RowIn(node, j)
    \/ \E k \in Keys : Lost(k) \/ \E v \in Rows : Learnt(k, v)

LEMMA LoadKeeps ==
  ASSUME AtMostThree, IInv, LoadRow
  PROVE  IInv' /\ RowStep
<1> DEFINE v == line + 1
           k == File[v]
<1>1. /\ node \in Memory(Keys, Rows) /\ alloc \in SUBSET Addrs /\ line \in 0 .. Len(File)
      /\ Len(File) \in Nat /\ \A i \in StaticRows : File[i] \in Keys /\ Hash[File[i]] \in FileBuckets
  BY TypeNow DEF IInv
<1>2. line < Len(File) /\ alloc # Addrs /\ line' = v
  BY DEF LoadRow
<1>3. v \in StaticRows /\ v \in Rows /\ v \in 0 .. Len(File)
  BY <1>1, <1>2 DEF StaticRows, Rows
<1>4. k \in Keys /\ Hash[k] \in FileBuckets
  BY <1>1, <1>3
<1>5. PICK r \in InsertHashItem(node, alloc, Hash[k], k, v) : node' = r.node /\ alloc' = r.alloc
  BY DEF LoadRow, Insert
<1>6. TypeOK'
  <2>1. node' \in Memory(Keys, Rows) /\ alloc' \in SUBSET Addrs
    <3> HIDE DEF k, v
    <3> QED
      BY <1>1, <1>3, <1>4, <1>5, InsertType
  <2> QED
    BY <1>2, <1>3, <2>1, TypeNext
<1> HIDE DEF k, v
<1>7. Held(node', alloc') /\ Learnt(k, v)
  <2>1. Held(node, alloc)
    BY DEF IInv
  <2>2. /\ Held(r.node, r.alloc)
        /\ \A j \in Keys : RowIn(r.node, j) = IF j = k /\ RowIn(node, k) = Null
                                              THEN v ELSE RowIn(node, j)
    BY <1>1, <1>2, <1>3, <1>4, <2>1, InsertStep
  <2> QED
    BY <1>5, <2>2 DEF Learnt
<1>8. \A i \in 1 .. line' : RowIn(node', File[i]) # Null
  <2> SUFFICES ASSUME NEW i \in 1 .. v PROVE RowIn(node', File[i]) # Null
    BY <1>2
  <2>1. File[i] \in Keys /\ (i = v \/ i \in 1 .. line) /\ v # Null
    <3>1. i \in StaticRows /\ (i = v \/ i \in 1 .. line)
      BY <1>1, <1>3 DEF StaticRows, v
    <3> QED
      BY <1>1, <1>3, <3>1, TableAssumption
  <2>2. i \in 1 .. line => RowIn(node, File[i]) # Null
    BY DEF IInv
  <2> QED
    BY <1>7, <2>1, <2>2 DEF Learnt, k
<1> QED
  BY <1>3, <1>4, <1>6, <1>7, <1>8 DEF IInv, RowStep

LEMMA CacheKeeps ==
  ASSUME AtMostThree, FileApart, IInv, NEW k \in Keys, NEW v \in FreshRows, CacheRow(k, v)
  PROVE  IInv' /\ RowStep
<1>1. /\ node \in Memory(Keys, Rows) /\ alloc \in SUBSET Addrs /\ line \in 0 .. Len(File)
      /\ Len(File) \in Nat /\ \A i \in StaticRows : File[i] \in Keys /\ Hash[File[i]] \in FileBuckets
  BY TypeNow DEF IInv
<1>2. line = Len(File) /\ RowIn(node, k) = Null /\ line' = line
  BY DEF CacheRow, Serving, Find, RowIn, FindValueByKey
<1>3. v \in Rows /\ v # Null
  BY TableAssumption DEF Rows
<1>4. Hash[k] \notin FileBuckets
  <2> SUFFICES ASSUME Hash[k] \in FileBuckets PROVE FALSE
    OBVIOUS
  <2>1. PICK i \in StaticRows : File[i] = k
    BY DEF FileApart
  <2>2. i \in 1 .. line
    BY <1>2 DEF StaticRows
  <2> QED
    BY <1>2, <2>1, <2>2 DEF IInv
<1>5. PICK r \in InsertHashItem(node, alloc, Hash[k], k, v) : node' = r.node /\ alloc' = r.alloc
  BY DEF CacheRow, Insert
<1>6. TypeOK'
  <2>1. node' \in Memory(Keys, Rows) /\ alloc' \in SUBSET Addrs
    BY <1>1, <1>3, <1>5, InsertType
  <2> QED
    BY <1>1, <1>2, <2>1, TypeNext
<1>7. /\ Held(node', alloc')
      /\ Learnt(k, v) \/ \A j \in Keys : RowIn(node', j) = RowIn(node, j)
  <2>1. Held(node, alloc)
    BY DEF IInv
  <2>2. /\ Held(r.node, r.alloc)
        /\ \/ \A j \in Keys : RowIn(r.node, j) = IF j = k /\ RowIn(node, k) = Null
                                                 THEN v ELSE RowIn(node, j)
           \/ \A j \in Keys : RowIn(r.node, j) = RowIn(node, j)
    BY <1>1, <1>2, <1>3, <1>4, <2>1, InsertStep
  <2> QED
    BY <1>5, <2>2 DEF Learnt
<1>8. \A i \in 1 .. line' : RowIn(node', File[i]) # Null
  <2> SUFFICES ASSUME NEW i \in 1 .. line PROVE RowIn(node', File[i]) # Null
    BY <1>2
  <2>1. File[i] \in Keys
    BY <1>1, <1>2 DEF StaticRows
  <2>2. RowIn(node, File[i]) # Null
    BY DEF IInv
  <2> QED
    BY <1>3, <1>7, <2>1, <2>2 DEF Learnt
<1> QED
  BY <1>3, <1>6, <1>7, <1>8 DEF IInv, RowStep

LEMMA ExpireKeeps ==
  ASSUME IInv, NEW k \in Keys, ExpireRow(k)
  PROVE  IInv' /\ RowStep
<1>1. /\ node \in Memory(Keys, Rows) /\ alloc \in SUBSET Addrs /\ line \in 0 .. Len(File)
      /\ Len(File) \in Nat /\ \A i \in StaticRows : File[i] \in Keys /\ Hash[File[i]] \in FileBuckets
  BY TypeNow DEF IInv
<1> DEFINE n == FindNodeByKey(node, Text, Hash[k], k)
           r == RemoveHashItemByNode(node, alloc, n)
<1>2. /\ line = Len(File) /\ line' = line
      /\ RowIn(node, k) \in FreshRows /\ node' = r.node /\ alloc' = r.alloc
  BY DEF ExpireRow, Serving, Find, Lookup, RowIn
<1>3. RowIn(node, k) # Null /\ RowIn(node, k) \notin StaticRows
  BY <1>2, TableAssumption DEF Rows
<1>4. Held(node, alloc)
  BY DEF IInv
<1>5. Hash[k] \notin FileBuckets
  BY <1>1, <1>3, <1>4, FileRow
<1>6. n # Null /\ n \in Nodes
  <2>1. n = Null => RowIn(node, k) = Null
    BY DEF RowIn, FindValueByKey
  <2> QED
    BY <1>3, <2>1, FindType
<1> HIDE DEF n
<1>7. TypeOK'
  <2>1. r.node \in Memory(Keys, Rows) /\ r.alloc \in SUBSET Addrs
    BY <1>1, <1>6, RemoveType
  <2> HIDE DEF r
  <2> QED
    BY <1>1, <1>2, <2>1, TypeNext
<1> DEFINE q == r
<1>8. q = RemoveHashItemByNode(node, alloc, n) /\ node' = q.node /\ alloc' = q.alloc
  BY <1>2
<1> HIDE DEF r, q
<1>9. /\ Held(q.node, q.alloc) /\ RowIn(q.node, k) = Null
      /\ \A j \in Keys : RowIn(q.node, j) \in {RowIn(node, j), Null}
      /\ \A j \in Keys : Hash[j] # Hash[k] => RowIn(q.node, j) = RowIn(node, j)
  BY <1>1, <1>4, <1>5, <1>6, <1>8, RemoveStep DEF n
<1>10. Held(node', alloc') /\ Lost(k)
  BY <1>3, <1>5, <1>8, <1>9 DEF Lost
<1>11. \A i \in 1 .. line' : RowIn(node', File[i]) # Null
  <2> SUFFICES ASSUME NEW i \in 1 .. line PROVE RowIn(node', File[i]) # Null
    BY <1>2
  <2>1. File[i] \in Keys /\ Hash[File[i]] # Hash[k]
    BY <1>1, <1>2, <1>5 DEF StaticRows
  <2>2. RowIn(node, File[i]) # Null
    BY DEF IInv
  <2> QED
    BY <1>10, <2>1, <2>2 DEF Lost
<1> QED
  BY <1>7, <1>10, <1>11 DEF IInv, RowStep

LEMMA NextKeeps ==
  ASSUME AtMostThree, FileApart, IInv, [Next]_vars
  PROVE  IInv' /\ RowStep
<1>1. CASE UNCHANGED vars
  <2>1. node' = node /\ alloc' = alloc /\ line' = line
    BY <1>1 DEF vars
  <2> QED
    BY <2>1 DEF IInv, TypeOK, RowStep
<1>2. CASE Next
  BY <1>2, LoadKeeps, CacheKeeps, ExpireKeeps DEF Next
<1> QED
  BY <1>1, <1>2

LEMMA IntactFollows ==
  ASSUME IInv
  PROVE  ChainsIntact
BY TypeNow, HeldIntact DEF IInv, ChainsIntact

LEMMA LoadedFollows ==
  ASSUME IInv
  PROVE  LoadedForEver
<1> SUFFICES ASSUME line = Len(File), NEW i \in StaticRows PROVE RowIn(node, File[i]) \in StaticRows
  BY DEF LoadedForEver, Serving, Lookup, RowIn
<1>1. /\ node \in Memory(Keys, Rows) /\ File[i] \in Keys /\ Hash[File[i]] \in FileBuckets
  BY TypeNow DEF IInv
<1>2. RowIn(node, File[i]) \in StaticRows \cup {Null}
  BY <1>1, FileRow DEF IInv
<1>3. RowIn(node, File[i]) # Null
  BY DEF IInv, StaticRows
<1> QED
  BY <1>2, <1>3

\* A step on the table is a step of the map that may forget.
LEMMA LossyStep ==
  ASSUME IInv, IInv', RowStep
  PROVE  [Domains!LossyNext]_[k \in Keys |-> Lookup(k)]
<1> DEFINE f == [k \in Keys |-> RowIn(node, k)]
           g == [k \in Keys |-> RowIn(node', k)]
<1>1. f = [k \in Keys |-> Lookup(k)] /\ g = [k \in Keys |-> Lookup(k)]'
  BY DEF Lookup, RowIn
<1>2. g \in [Keys -> Rows \cup {Null}]
  <2>1. node' \in Memory(Keys, Rows) /\ Held(node', alloc')
    BY DEF IInv, TypeOK, Memory
  <2>2. \A k \in Keys : RowIn(node', k) \in Rows \cup {Null}
    BY <2>1, RowType
  <2> QED
    BY <2>2
<1>3. \A k \in Keys : f[k] = RowIn(node, k) /\ g[k] = RowIn(node', k)
  OBVIOUS
<1>4. DOMAIN f = Keys /\ DOMAIN g = Keys /\ f = [k \in Keys |-> f[k]] /\ g = [k \in Keys |-> g[k]]
  OBVIOUS
<1> HIDE DEF f, g
<1>5. CASE \A j \in Keys : RowIn(node', j) = RowIn(node, j)
  <2>1. g = f
    BY <1>3, <1>4, <1>5
  <2> QED
    BY <1>1, <2>1
<1>6. ASSUME NEW k \in Keys, Lost(k) PROVE Domains!LossyNext
  <2>1. f[k] # Null /\ g[k] = Null /\ \A j \in Keys \ {k} : g[j] \in {f[j], Null}
    BY <1>3, <1>6 DEF Lost
  <2>2. Domains!OthersMayVanish(k)
    BY <1>1, <2>1 DEF Domains!OthersMayVanish
  <2>3. Domains!LossyDrop(k)
    BY <1>1, <2>1, <2>2 DEF Domains!LossyDrop
  <2> QED
    BY <1>1, <1>2, <2>3 DEF Domains!LossyNext
<1>7. ASSUME NEW k \in Keys, NEW v \in Rows, Learnt(k, v) PROVE Domains!LossyNext
  <2>1. \A j \in Keys : g[j] = IF j = k /\ f[k] = Null THEN v ELSE f[j]
    BY <1>3, <1>7 DEF Learnt
  <2>2. g = [f EXCEPT ![k] = IF @ = Null THEN v ELSE @]
    BY <1>4, <2>1
  <2>3. Domains!Load(k, v)
    BY <1>1, <2>2 DEF Domains!Load
  <2> QED
    BY <1>1, <1>2, <2>3 DEF Domains!LossyNext
<1> QED
  BY <1>5, <1>6, <1>7 DEF RowStep

\* While every domain that expires is alone in its bucket it forgets no other.
LEMMA ExactStep ==
  ASSUME Alone, RowStep
  PROVE  [Domains!ExactNext]_[k \in Keys |-> Lookup(k)]
<1> DEFINE f == [k \in Keys |-> RowIn(node, k)]
           g == [k \in Keys |-> RowIn(node', k)]
<1>1. f = [k \in Keys |-> Lookup(k)] /\ g = [k \in Keys |-> Lookup(k)]'
  BY DEF Lookup, RowIn
<1>2. \A k \in Keys : f[k] = RowIn(node, k) /\ g[k] = RowIn(node', k)
  OBVIOUS
<1>3. DOMAIN f = Keys /\ DOMAIN g = Keys /\ f = [k \in Keys |-> f[k]] /\ g = [k \in Keys |-> g[k]]
  OBVIOUS
<1> HIDE DEF f, g
<1>4. CASE \A j \in Keys : RowIn(node', j) = RowIn(node, j)
  <2>1. g = f
    BY <1>2, <1>3, <1>4
  <2> QED
    BY <1>1, <2>1
<1>5. ASSUME NEW k \in Keys, Lost(k) PROVE Domains!ExactNext
  <2>1. f[k] # Null /\ g[k] = Null
    BY <1>2, <1>5 DEF Lost
  <2>2. \A j \in Keys \ {k} : g[j] = f[j]
    <3> TAKE j \in Keys \ {k}
    <3>1. Hash[j] # Hash[k]
      BY <1>5 DEF Alone, Lost
    <3> QED
      BY <1>2, <1>5, <3>1 DEF Lost
  <2>3. g = [f EXCEPT ![k] = Null]
    BY <1>3, <2>1, <2>2
  <2>4. Domains!Drop(k)
    BY <1>1, <2>1, <2>3 DEF Domains!Drop
  <2> QED
    BY <2>4 DEF Domains!ExactNext
<1>6. ASSUME NEW k \in Keys, NEW v \in Rows, Learnt(k, v) PROVE Domains!ExactNext
  <2>1. \A j \in Keys : g[j] = IF j = k /\ f[k] = Null THEN v ELSE f[j]
    BY <1>2, <1>6 DEF Learnt
  <2>2. g = [f EXCEPT ![k] = IF @ = Null THEN v ELSE @]
    BY <1>3, <2>1
  <2>3. Domains!Load(k, v)
    BY <1>1, <2>2 DEF Domains!Load
  <2> QED
    BY <2>3 DEF Domains!ExactNext
<1> QED
  BY <1>4, <1>5, <1>6 DEF RowStep

LEMMA MapInit ==
  ASSUME Init
  PROVE  Domains!Init
<1>1. \A k \in Keys : RowIn(node, k) = Null
  BY InitKeeps
<1> QED
  BY <1>1 DEF Domains!Init, Lookup, RowIn

LEMMA AloneIsFew ==
  ASSUME Alone
  PROVE  AtMostThree
<1> SUFFICES ASSUME NEW b \in Buckets \ FileBuckets
             PROVE  \E x, y, z : \A k \in Keys : Hash[k] = b => k \in {x, y, z}
  BY DEF AtMostThree
<1>1. CASE \E x \in Keys : Hash[x] = b
  <2>1. PICK x \in Keys : Hash[x] = b
    BY <1>1
  <2>2. \A k \in Keys : Hash[k] = b => k \in {x, x, x}
    BY <2>1 DEF Alone
  <2> QED
    BY <2>2
<1>2. CASE ~\E x \in Keys : Hash[x] = b
  BY <1>2
<1> QED
  BY <1>1, <1>2
-----------------------------------------------------------------------------
\* Whatever shares a bucket, and also when a chain is broken: every field of every
\* node and the bookkeeping of malloc keep their types.
THEOREM TableTypes == Spec => []TypeOK
<1>1. Init => TypeOK
  BY InitKeeps DEF IInv
<1>2. TypeOK /\ [Next]_vars => TypeOK'
  <2> SUFFICES ASSUME TypeOK, [Next]_vars PROVE TypeOK'
    OBVIOUS
  <2>1. /\ node \in Memory(Keys, Rows) /\ alloc \in SUBSET Addrs /\ line \in 0 .. Len(File)
        /\ Len(File) \in Nat /\ \A i \in StaticRows : File[i] \in Keys
    BY TypeNow
  <2>2. ASSUME NEW k \in Keys, NEW v \in Rows, Insert(k, v)
        PROVE  node' \in Memory(Keys, Rows) /\ alloc' \in SUBSET Addrs
    <3>1. PICK r \in InsertHashItem(node, alloc, Hash[k], k, v) : node' = r.node /\ alloc' = r.alloc
      BY <2>2 DEF Insert
    <3> QED
      BY <2>1, <3>1, InsertType
  <2>3. CASE LoadRow
    <3>1. line + 1 \in StaticRows /\ line + 1 \in Rows /\ line + 1 \in 0 .. Len(File)
          /\ line' = line + 1
      BY <2>1, <2>3 DEF LoadRow, StaticRows, Rows
    <3>2. Insert(File[line + 1], line + 1)
      BY <2>3 DEF LoadRow
    <3> QED
      BY <2>1, <2>2, <3>1, <3>2, TypeNext
  <2>4. ASSUME NEW k \in Keys, NEW v \in FreshRows, CacheRow(k, v) PROVE TypeOK'
    <3>1. Insert(k, v) /\ line' = line /\ v \in Rows
      BY <2>4 DEF CacheRow, Rows
    <3> QED
      BY <2>1, <2>2, <3>1, TypeNext
  <2>5. ASSUME NEW k \in Keys, ExpireRow(k) PROVE TypeOK'
    <3> DEFINE n == Find(k)
               r == RemoveHashItemByNode(node, alloc, n)
    <3>1. Lookup(k) \in FreshRows /\ node' = r.node /\ alloc' = r.alloc /\ line' = line
      BY <2>5 DEF ExpireRow
    <3>2. n \in Nodes
      <4>1. Null \notin FreshRows
        BY TableAssumption DEF Rows
      <4> QED
        BY <3>1, <4>1, FindType DEF Lookup, Find, FindValueByKey
    <3> HIDE DEF n
    <3>3. r.node \in Memory(Keys, Rows) /\ r.alloc \in SUBSET Addrs
      BY <2>1, <3>2, RemoveType
    <3> HIDE DEF r
    <3> QED
      BY <2>1, <3>1, <3>3, TypeNext
  <2>6. CASE UNCHANGED vars
    BY <2>6 DEF vars, TypeOK
  <2> QED
    BY <2>3, <2>4, <2>5, <2>6 DEF Next
<1> QED
  BY <1>1, <1>2, PTL DEF Spec

\* As long as at most three domains that expire share a bucket, and none of them one
\* with a domain of the file, the table stays a table: the inductive invariant.
THEOREM TableInvariant ==
  ASSUME FileApart, AtMostThree
  PROVE  Spec => []IInv
<1>1. Init => IInv
  BY InitKeeps
<1>2. IInv /\ [Next]_vars => IInv'
  BY NextKeeps
<1> QED
  BY <1>1, <1>2, PTL DEF Spec

\* Then every loop over a chain ends, and reads no memory that was freed, although
\* InsertHashItem sets the wrong prev.
THEOREM ChainsStayIntact ==
  ASSUME FileApart, AtMostThree
  PROVE  Spec => []ChainsIntact
BY TableInvariant, IntactFollows, PTL

\* Then the domains of dns_table.txt are found for ever, however many of them share
\* a bucket and however often a line is repeated.
THEOREM LoadedStay ==
  ASSUME FileApart, AtMostThree
  PROVE  Spec => []LoadedForEver
BY TableInvariant, LoadedFollows, PTL

\* Then a lookup returns the row of the last insertion of its domain or nothing:
\* the table implements the map that may forget.
THEOREM TableIsLossyMap ==
  ASSUME FileApart, AtMostThree
  PROVE  Spec => LossyMap
<1>1. Init => Domains!Init
  BY MapInit
<1>2. IInv /\ [Next]_vars => IInv' /\ [Domains!LossyNext]_[k \in Keys |-> Lookup(k)]
  BY NextKeeps, LossyStep
<1>3. Spec => []IInv
  BY TableInvariant
<1> QED
  BY <1>1, <1>2, <1>3, PTL DEF Spec, LossyMap, Domains!LossySpec

\* While no two domains that expire share a bucket the table implements the map
\* itself, and forgets a domain only when it is removed.
THEOREM TableIsMap ==
  ASSUME FileApart, Alone
  PROVE  Spec => ExactMap
<1>1. Init => Domains!Init
  BY MapInit
<1>2. IInv /\ [Next]_vars => IInv' /\ [Domains!ExactNext]_[k \in Keys |-> Lookup(k)]
  BY NextKeeps, ExactStep, AloneIsFew
<1>3. Spec => []IInv
  BY TableInvariant, AloneIsFew
<1> QED
  BY <1>1, <1>2, <1>3, PTL DEF Spec, ExactMap, Domains!ExactSpec
=============================================================================
