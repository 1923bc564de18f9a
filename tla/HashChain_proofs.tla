--------------------------- MODULE HashChain_proofs ---------------------------
(* What the operators of HashChain return, whatever the chains look like.      *)
EXTENDS HashChain, Induction, FiniteSetTheorems

\* Memory whose nodes hold keys from K and values from V.
Memory(K, V) == [Nodes -> [key  : K \cup {Null}, value : V \cup {Null},
                           prev : Nodes \cup {Null}, next : Nodes \cup {Null}]]

\* A lookup returns a node or NULL (FindNodeByKey).
LEMMA FindType ==
  ASSUME NEW node, NEW text, NEW b, NEW url
  PROVE  FindNodeByKey(node, text, b, url) \in Nodes \cup {Null}
BY DEF FindNodeByKey

\* The cleared table is well formed (NewHashTable).
LEMMA NewType ==
  ASSUME NEW K, NEW V
  PROVE  NewHashTable \in Memory(K, V)
BY DEF NewHashTable, ClearedNode, Memory

\* Every result of an insertion is well formed and names known addresses, also when
\* the chain is broken (InsertHashItem).
LEMMA InsertType ==
  ASSUME NEW K, NEW V, NEW node \in Memory(K, V), NEW alloc \in SUBSET Addrs,
         NEW b, NEW key \in K, NEW value \in V,
         NEW r \in InsertHashItem(node, alloc, b, key, value)
  PROVE  r.node \in Memory(K, V) /\ r.alloc \in SUBSET Addrs
<1>1. CASE Hole(node, b)
  <2>1. r = [node  |-> [node EXCEPT ![b] = [key |-> key, value |-> value,
                                            prev |-> Null, next |-> Null]],
             alloc |-> alloc]
    BY <1>1 DEF InsertHashItem
  <2>2. QED
    BY <2>1 DEF Memory
<1>2. CASE ~Hole(node, b)
  <2>1. ASSUME NEW a \in Addrs \ alloc,
               r = [node  |-> [node EXCEPT ![ChainEnd(node, b)[1]].next = a,
                                  ![a] = [key |-> key, value |-> value,
                                          prev |-> ChainEnd(node, b)[2], next |-> Null]],
                    alloc |-> alloc \cup {a}]
        PROVE  r.node \in Memory(K, V) /\ r.alloc \in SUBSET Addrs
    <3>1. ChainEnd(node, b)[2] \in Nodes \cup {Null}
      BY DEF ChainEnd
    <3> DEFINE e == ChainEnd(node, b)[1]
               p == ChainEnd(node, b)[2]
    <3> HIDE DEF e, p
    <3>2. a \in Nodes
      BY DEF Nodes
    <3>3. [node EXCEPT ![e].next = a] \in Memory(K, V)
      BY <3>2 DEF Memory
    <3>4. [[node EXCEPT ![e].next = a]
             EXCEPT ![a] = [key |-> key, value |-> value, prev |-> p, next |-> Null]]
          \in Memory(K, V)
      BY <3>1, <3>3 DEF Memory, p
    <3>5. QED
      BY <2>1, <3>4 DEF e, p
  <2>2. CASE r = [node |-> node, alloc |-> alloc]
    BY <2>2
  <2>3. QED
    BY <1>2, <2>1, <2>2 DEF InsertHashItem
<1>3. QED
  BY <1>1, <1>2

\* Removing a node leaves the memory well formed (RemoveHashItemByNode).
LEMMA RemoveType ==
  ASSUME NEW K, NEW V, NEW node \in Memory(K, V), NEW alloc \in SUBSET Addrs,
         NEW n \in Nodes
  PROVE  /\ RemoveHashItemByNode(node, alloc, n).node \in Memory(K, V)
         /\ RemoveHashItemByNode(node, alloc, n).alloc \in SUBSET Addrs
<1> DEFINE succ == node[n].next
           prev == node[n].prev
<1>1. succ \in Nodes \cup {Null} /\ prev \in Nodes \cup {Null}
  BY DEF Memory
<1>2. ASSUME NEW mem \in Memory(K, V), NEW s, NEW p \in Nodes
      PROVE  LinkBack(mem, s, p) \in Memory(K, V)
  BY DEF LinkBack, Memory
<1>3. CASE prev # Null
  <2>1. [node EXCEPT ![prev].next = succ] \in Memory(K, V)
    BY <1>1 DEF Memory
  <2>2. LinkBack([node EXCEPT ![prev].next = succ], succ, prev) \in Memory(K, V)
    BY <1>1, <1>2, <1>3, <2>1
  <2>3. QED
    BY <1>3, <2>2 DEF RemoveHashItemByNode
<1>4. CASE prev = Null /\ succ # Null
  <2> DEFINE back == LinkBack(node, node[succ].next, n)
  <2>1. back \in Memory(K, V)
    BY <1>2
  <2>2. /\ node[succ].key \in K \cup {Null}
        /\ node[succ].value \in V \cup {Null}
        /\ node[succ].next \in Nodes \cup {Null}
    BY <1>1, <1>4 DEF Memory
  <2> HIDE DEF back
  <2>3. [back EXCEPT ![n].key = node[succ].key, ![n].value = node[succ].value,
                     ![n].next = node[succ].next] \in Memory(K, V)
    <3>1. [back EXCEPT ![n].key = node[succ].key] \in Memory(K, V)
      BY <2>1, <2>2 DEF Memory
    <3> DEFINE keyed == [back EXCEPT ![n].key = node[succ].key]
    <3> HIDE DEF keyed
    <3>2. [keyed EXCEPT ![n].value = node[succ].value] \in Memory(K, V)
      BY <3>1, <2>2, ZenonT(30) DEF Memory, keyed
    <3> DEFINE valued == [keyed EXCEPT ![n].value = node[succ].value]
    <3> HIDE DEF valued
    <3>3. [valued EXCEPT ![n].next = node[succ].next] \in Memory(K, V)
      BY <3>2, <2>2, ZenonT(30) DEF Memory, valued
    <3>4. QED
      BY <3>3 DEF valued, keyed
  <2>4. QED
    BY <1>4, <2>3 DEF RemoveHashItemByNode, back
<1>5. CASE prev = Null /\ succ = Null
  <2> DEFINE keyed == [node EXCEPT ![n].key = Null]
             emptied == [keyed EXCEPT ![n].value = Null]
  <2>1. keyed \in Memory(K, V)
    BY DEF Memory
  <2> HIDE DEF keyed
  <2>2. emptied \in Memory(K, V)
    BY <2>1 DEF Memory
  <2>3. RemoveHashItemByNode(node, alloc, n) = [node |-> emptied, alloc |-> alloc]
    BY <1>5 DEF RemoveHashItemByNode, keyed
  <2> HIDE DEF emptied
  <2>4. QED
    BY <2>2, <2>3
<1>6. QED
  BY <1>3, <1>4, <1>5
-----------------------------------------------------------------------------
(***************************************************************************)
(* What a lookup finds.  The loop is a recursive function over the nodes,  *)
(* and nothing says that chains end, so it has first to be shown that      *)
(* there is such a function (LoopDefined).                                 *)
(***************************************************************************)
IsLoop(f, node, text, url) ==
    f = [n \in Nodes \cup {Null} |->
           IF n = Null \/ Hole(node, n) THEN Null
           ELSE IF text[node[n].key] = url THEN n
           ELSE f[node[n].next]]

LEMMA LoopExists ==
  ASSUME NEW K, NEW V, NEW node \in Memory(K, V), NEW text, NEW url
  PROVE  \E f : IsLoop(f, node, text, url)
<1> DEFINE All == Nodes \cup {Null}
           stop == {n \in All : n = Null \/ Hole(node, n) \/ text[node[n].key] = url}
           out == [n \in All |-> IF n = Null \/ Hole(node, n) THEN Null ELSE n]
           step == [n \in All |-> IF n = Null THEN Null ELSE node[n].next]
<1>1. step \in [All -> All]
  BY DEF Memory
<1>2. PICK f : IsLoopTo(f, All, stop, out, step)
  <2> HIDE DEF All, stop, out, step
  <2> QED
    BY <1>1, LoopDefined
<1>3. /\ f = [n \in All |-> f[n]]
      /\ \A n \in All : f[n] = IF n \in stop THEN out[n] ELSE f[step[n]]
  <2> HIDE DEF All, stop, out, step
  <2> QED
    BY <1>2 DEF IsLoopTo
<1>4. ASSUME NEW n \in All
      PROVE  f[n] = IF n = Null \/ Hole(node, n) THEN Null
                    ELSE IF text[node[n].key] = url THEN n
                    ELSE f[node[n].next]
  BY <1>3
<1> HIDE DEF stop, out, step
<1> QED
  BY <1>3, <1>4 DEF IsLoop

LEMMA FindIsLoop ==
  ASSUME NEW K, NEW V, NEW node \in Memory(K, V), NEW text, NEW url
  PROVE  \E f : /\ IsLoop(f, node, text, url)
                /\ \A b : FindNodeByKey(node, text, b, url)
                            = IF f[b] \in Nodes THEN f[b] ELSE Null
<1> DEFINE Eq(f) == f = [n \in Nodes \cup {Null} |->
                           IF n = Null \/ Hole(node, n) THEN Null
                           ELSE IF text[node[n].key] = url THEN n
                           ELSE f[node[n].next]]
           from == CHOOSE f : Eq(f)
<1>1. \E f : Eq(f)
  <2>1. PICK f : IsLoop(f, node, text, url)
    BY LoopExists
  <2>2. Eq(f)
    BY <2>1 DEF IsLoop
  <2> HIDE DEF Eq
  <2> QED
    BY <2>2
<1>2. Eq(from)
  BY <1>1, Zenon
<1>3. \A b : FindNodeByKey(node, text, b, url) = IF from[b] \in Nodes THEN from[b] ELSE Null
  BY Zenon DEF FindNodeByKey
<1>4. IsLoop(from, node, text, url)
  BY <1>2 DEF IsLoop
<1> HIDE DEF from
<1> QED
  BY <1>3, <1>4

\* Step by step, the nodes of a chain (Visits).
LEMMA VisitsSteps ==
  ASSUME NEW K, NEW V, NEW node \in Memory(K, V), NEW b \in Nodes
  PROVE  /\ Visits(node, b)[0] = b
         /\ \A i \in Steps : Visits(node, b)[i] \in Nodes \cup {Null}
         /\ \A i \in Steps \ {0} :
              Visits(node, b)[i] = IF Visits(node, b)[i - 1] = Null THEN Null
                                   ELSE node[Visits(node, b)[i - 1]].next
<1> DEFINE All == Nodes \cup {Null}
           N == Cardinality(Addrs) + 1
           g == [x \in All |-> IF x = Null THEN Null ELSE node[x].next]
           Eq(f) == f = [i \in Steps |->
                           IF i = 0 THEN b
                           ELSE IF f[i - 1] = Null THEN Null ELSE node[f[i - 1]].next]
           at == CHOOSE f : Eq(f)
<1>1. N \in Nat /\ Steps = 0 .. N
  BY MemoryAssumption, FS_CardinalityType DEF Steps
<1>2. b \in All /\ g \in [All -> All]
  BY DEF Memory
<1>3. Visits(node, b) = at
  BY Zenon DEF Visits
<1> HIDE DEF N
<1>4. PICK f : AreRounds(f, All, N, b, g)
  <2> HIDE DEF All, g
  <2> QED
    BY <1>1, <1>2, RoundsDefined
<1>5. /\ f \in [0 .. N -> All] /\ f[0] = b
      /\ \A i \in 1 .. N : f[i] = g[f[i - 1]]
  BY <1>4 DEF AreRounds
<1>6. Eq(f)
  <2>1. ASSUME NEW i \in Steps, i # 0
        PROVE  f[i] = IF f[i - 1] = Null THEN Null ELSE node[f[i - 1]].next
    <3>1. i \in 1 .. N /\ i - 1 \in 0 .. N
      BY <1>1, <2>1
    <3>2. f[i] = g[f[i - 1]] /\ f[i - 1] \in All
      BY <1>5, <3>1
    <3> QED
      BY <3>2
  <2> QED
    BY <1>1, <1>5, <2>1
<1>7. Eq(at)
  BY <1>6, Zenon
<1> HIDE DEF at
<1>8. /\ at[0] = b
      /\ \A i \in Steps \ {0} : at[i] = IF at[i - 1] = Null THEN Null ELSE node[at[i - 1]].next
  BY <1>1, <1>7
<1> DEFINE S == {i \in 0 .. N : at[i] \in All}
<1>9. 0 \in S
  BY <1>1, <1>8
<1>10. ASSUME NEW i \in 0 .. N - 1, i \in S PROVE i + 1 \in S
  <2>1. i + 1 \in Steps \ {0} /\ (i + 1) - 1 = i /\ i + 1 \in 0 .. N
    BY <1>1
  <2>2. at[i + 1] = g[at[i]]
    BY <1>8, <1>10, <2>1
  <2> QED
    BY <1>2, <1>10, <2>1, <2>2
<1> HIDE DEF S
<1>11. \A i \in 0 .. N : i \in S
  BY <1>1, <1>9, <1>10, InductionUpTo
<1>12. \A i \in Steps : at[i] \in All
  BY <1>1, <1>11 DEF S
<1> QED
  BY <1>3, <1>8, <1>12

\* On a chain that ends, the node a lookup returns has a key, and the key reads as
\* the name that was looked for (FindNodeByKey).
LEMMA FoundHasKey ==
  ASSUME NEW K, NEW V, NEW node \in Memory(K, V), NEW text, NEW url, NEW b \in Nodes,
         ~Endless(node, b), FindNodeByKey(node, text, b, url) # Null
  PROVE  LET n == FindNodeByKey(node, text, b, url)
         IN  n \in Nodes /\ ~Hole(node, n) /\ text[node[n].key] = url
<1> DEFINE N == Cardinality(Addrs) + 1
           at == Visits(node, b)
           Good(x) == x \in Nodes => ~Hole(node, x) /\ text[node[x].key] = url
<1>1. N \in Nat /\ Steps = 0 .. N
  BY MemoryAssumption, FS_CardinalityType DEF Steps
<1>2. PICK f : /\ IsLoop(f, node, text, url)
               /\ FindNodeByKey(node, text, b, url) = IF f[b] \in Nodes THEN f[b] ELSE Null
  BY FindIsLoop
<1>3. /\ at[0] = b /\ at[N] = Null
      /\ \A i \in Steps : at[i] \in Nodes \cup {Null}
      /\ \A i \in Steps \ {0} : at[i] = IF at[i - 1] = Null THEN Null ELSE node[at[i - 1]].next
  BY VisitsSteps DEF Endless
<1> HIDE DEF N, at
<1>4. \A n \in Nodes \cup {Null} :
        f[n] = IF n = Null \/ Hole(node, n) THEN Null
               ELSE IF text[node[n].key] = url THEN n
               ELSE f[node[n].next]
  BY <1>2 DEF IsLoop
<1>5. Null \notin Nodes
  BY MemoryAssumption DEF Nodes
<1> DEFINE S == {i \in 0 .. N : Good(f[at[N - i]])}
<1>6. 0 \in S
  BY <1>1, <1>3, <1>4, <1>5
<1>7. ASSUME NEW i \in 0 .. N - 1, i \in S PROVE i + 1 \in S
  <2> DEFINE j == N - (i + 1)
  <2>1. j \in Steps /\ j + 1 \in Steps \ {0} /\ (j + 1) - 1 = j /\ N - i = j + 1
        /\ i + 1 \in 0 .. N
    BY <1>1
  <2>2. Good(f[at[j + 1]])
    BY <1>7, <2>1
  <2> HIDE DEF j
  <2>3. at[j] \in Nodes \cup {Null}
        /\ at[j + 1] = IF at[j] = Null THEN Null ELSE node[at[j]].next
    BY <1>3, <2>1
  <2>4. Good(f[at[j]])
    <3>1. CASE at[j] = Null \/ Hole(node, at[j])
      BY <1>4, <1>5, <2>3, <3>1
    <3>2. CASE ~(at[j] = Null \/ Hole(node, at[j])) /\ text[node[at[j]].key] = url
      BY <1>4, <2>3, <3>2
    <3>3. CASE ~(at[j] = Null \/ Hole(node, at[j])) /\ text[node[at[j]].key] # url
      <4>1. f[at[j]] = f[at[j + 1]]
        BY <1>4, <2>3, <3>3
      <4> HIDE DEF Good
      <4> QED
        BY <2>2, <4>1
    <3> QED
      BY <3>1, <3>2, <3>3
  <2> HIDE DEF Good
  <2> QED
    BY <2>1, <2>4 DEF j
<1> HIDE DEF S
<1>8. \A i \in 0 .. N : i \in S
  BY <1>1, <1>6, <1>7, InductionUpTo
<1>9. Good(f[b])
  BY <1>1, <1>3, <1>8 DEF S
<1> QED
  BY <1>2, <1>9

\* A lookup looks at the head first.
LEMMA HeadFound ==
  ASSUME NEW K, NEW V, NEW node \in Memory(K, V), NEW text, NEW url, NEW b \in Buckets,
         ~Hole(node, b), text[node[b].key] = url
  PROVE  FindNodeByKey(node, text, b, url) = b
<1>1. PICK f : /\ IsLoop(f, node, text, url)
               /\ FindNodeByKey(node, text, b, url) = IF f[b] \in Nodes THEN f[b] ELSE Null
  BY FindIsLoop
<1>2. b \in Nodes /\ b # Null
  BY MemoryAssumption DEF Nodes
<1> QED
  BY <1>1, <1>2 DEF IsLoop
-----------------------------------------------------------------------------
\* Key and value stay together.
Paired(mem, n, key, value) == mem[n].key = key /\ mem[n].value = value

\* An insertion gives them to a new node or to the head, if that is a hole, and
\* leaves them alone everywhere else (InsertHashItem).
LEMMA InsertPairs ==
  ASSUME NEW K, NEW V, NEW node \in Memory(K, V), NEW alloc \in SUBSET Addrs,
         NEW b, NEW key \in K, NEW value \in V,
         NEW r \in InsertHashItem(node, alloc, b, key, value), NEW n \in Nodes
  PROVE  \/ Paired(r.node, n, node[n].key, node[n].value)
         \/ /\ Paired(r.node, n, key, value)
            /\ (n \in Addrs \/ (n = b /\ Hole(node, b)))
<1>1. CASE Hole(node, b)
  <2>1. r.node = [node EXCEPT ![b] = [key |-> key, value |-> value,
                                      prev |-> Null, next |-> Null]]
    BY <1>1 DEF InsertHashItem
  <2> QED
    BY <1>1, <2>1 DEF Memory, Paired
<1>2. CASE ~Hole(node, b)
  <2> DEFINE e == ChainEnd(node, b)[1]
             p == ChainEnd(node, b)[2]
  <2>1. ASSUME NEW a \in Addrs \ alloc,
               r.node = [node EXCEPT ![e].next = a,
                                     ![a] = [key |-> key, value |-> value,
                                             prev |-> p, next |-> Null]]
        PROVE  \/ Paired(r.node, n, node[n].key, node[n].value)
               \/ (Paired(r.node, n, key, value) /\ n \in Addrs)
    <3> HIDE DEF e, p
    <3> DEFINE linked == [node EXCEPT ![e].next = a]
    <3>1. linked \in [Nodes -> [key : K \cup {Null}, value : V \cup {Null},
                                prev : Nodes \cup {Null}, next : Nodes \cup {Null}]]
      BY DEF Memory, Nodes
    <3>2. Paired(linked, n, node[n].key, node[n].value)
      BY DEF Memory, Paired
    <3>3. r.node = [linked EXCEPT ![a] = [key |-> key, value |-> value,
                                          prev |-> p, next |-> Null]]
      BY <2>1
    <3> HIDE DEF linked
    <3>4. CASE n = a
      BY <3>1, <3>3, <3>4 DEF Paired
    <3>5. CASE n # a
      BY <3>1, <3>2, <3>3, <3>5 DEF Paired
    <3> QED
      BY <3>4, <3>5
  <2>2. CASE r = [node |-> node, alloc |-> alloc]
    BY <2>2 DEF Paired
  <2>3. \/ r = [node |-> node, alloc |-> alloc]
        \/ \E a \in Addrs \ alloc :
             r.node = [node EXCEPT ![e].next = a,
                                   ![a] = [key |-> key, value |-> value,
                                           prev |-> p, next |-> Null]]
    <3>1. \/ r = [node |-> node, alloc |-> alloc]
          \/ \E a \in Addrs \ alloc :
               r = [node  |-> [node EXCEPT ![e].next = a,
                                           ![a] = [key |-> key, value |-> value,
                                                   prev |-> p, next |-> Null]],
                    alloc |-> alloc \cup {a}]
      BY <1>2, Zenon DEF InsertHashItem
    <3> DEFINE M(a) == [node EXCEPT ![e].next = a,
                                    ![a] = [key |-> key, value |-> value,
                                            prev |-> p, next |-> Null]]
    <3>2. \/ r = [node |-> node, alloc |-> alloc]
          \/ \E a \in Addrs \ alloc : r = [node |-> M(a), alloc |-> alloc \cup {a}]
      BY <3>1, Zenon
    <3> HIDE DEF M
    <3>3. r = [node |-> node, alloc |-> alloc] \/ \E a \in Addrs \ alloc : r.node = M(a)
      BY <3>2
    <3> QED
      BY <3>3, Zenon DEF M
  <2> QED
    BY <2>1, <2>2, <2>3
<1> QED
  BY <1>1, <1>2

\* A removal empties the node or gives it the key and the value of another one, and
\* leaves them alone everywhere else (RemoveHashItemByNode).
Moved(node, mem, n, x) ==
    \/ Paired(mem, x, node[x].key, node[x].value)
    \/ x = n /\ Hole(mem, x)
    \/ x = n /\ \E y \in Nodes : Paired(mem, x, node[y].key, node[y].value)

LEMMA RemovePairs ==
  ASSUME NEW K, NEW V, NEW node \in Memory(K, V), NEW alloc,
         NEW n \in Nodes, NEW x \in Nodes
  PROVE  Moved(node, RemoveHashItemByNode(node, alloc, n).node, n, x)
<1> DEFINE succ == node[n].next
           prev == node[n].prev
           mem == RemoveHashItemByNode(node, alloc, n).node
<1> SUFFICES Moved(node, mem, n, x)
  OBVIOUS
<1>1. succ \in Nodes \cup {Null} /\ prev \in Nodes \cup {Null}
  BY DEF Memory
<1>2. ASSUME NEW m \in Memory(K, V), NEW s, NEW p \in Nodes
      PROVE  /\ LinkBack(m, s, p) \in Memory(K, V)
             /\ \A y \in Nodes : Paired(LinkBack(m, s, p), y, m[y].key, m[y].value)
  BY DEF LinkBack, Memory, Paired
<1>3. CASE prev # Null
  <2> DEFINE cut == [node EXCEPT ![prev].next = succ]
  <2>1. cut \in Memory(K, V)
    BY <1>1 DEF Memory
  <2>2. Paired(cut, x, node[x].key, node[x].value)
    BY DEF Memory, Paired
  <2>3. mem = LinkBack(cut, succ, prev)
    BY <1>3 DEF RemoveHashItemByNode
  <2>4. Paired(mem, x, cut[x].key, cut[x].value)
    <3> HIDE DEF cut, mem, succ, prev
    <3> QED
      BY <1>1, <1>2, <1>3, <2>1, <2>3
  <2> HIDE DEF cut, mem
  <2> QED
    BY <2>2, <2>4 DEF Moved, Paired
<1>4. CASE prev = Null /\ succ # Null
  <2> DEFINE back == LinkBack(node, node[succ].next, n)
  <2>1. back \in Memory(K, V) /\ \A y \in Nodes : Paired(back, y, node[y].key, node[y].value)
    BY <1>2
  <2>2. mem = [back EXCEPT ![n].key = node[succ].key, ![n].value = node[succ].value,
                           ![n].next = node[succ].next]
    BY <1>4 DEF RemoveHashItemByNode
  <2> HIDE DEF back, mem
  <2> DEFINE k == node[succ].key
             v == node[succ].value
             t == node[succ].next
             keyed == [back EXCEPT ![n].key = k]
             valued == [keyed EXCEPT ![n].value = v]
  <2> HIDE DEF k, v, t
  <2>3. /\ DOMAIN keyed = Nodes /\ keyed[n].key = k
        /\ keyed[n] = [back[n] EXCEPT !.key = k]
        /\ \A y \in Nodes \ {n} : keyed[y] = back[y]
    BY <2>1 DEF Memory
  <2>4. DOMAIN keyed[n] = {"key", "value", "prev", "next"}
    BY <2>1, <2>3 DEF Memory
  <2> HIDE DEF keyed
  <2>5. /\ DOMAIN valued = Nodes /\ valued[n].key = k /\ valued[n].value = v
        /\ DOMAIN valued[n] = {"key", "value", "prev", "next"}
        /\ \A y \in Nodes \ {n} : valued[y] = back[y]
    BY <2>3, <2>4
  <2>6. mem = [valued EXCEPT ![n].next = t]
    BY <2>2 DEF keyed, k, v, t
  <2> HIDE DEF valued
  <2>7. mem[n].key = k /\ mem[n].value = v /\ \A y \in Nodes \ {n} : mem[y] = back[y]
    BY <2>5, <2>6
  <2>8. CASE x = n
    BY <1>1, <1>4, <2>7, <2>8 DEF Moved, Paired, k, v
  <2>9. CASE x # n
    BY <2>1, <2>7, <2>9 DEF Moved, Paired
  <2> QED
    BY <2>8, <2>9
<1>5. CASE prev = Null /\ succ = Null
  <2>1. mem = [node EXCEPT ![n].key = Null, ![n].value = Null]
    BY <1>5 DEF RemoveHashItemByNode
  <2>2. x # n => mem[x] = node[x]
    BY <2>1 DEF Memory
  <2>3. mem[n].key = Null \/ mem[n].value = Null
    BY <2>1 DEF Memory
  <2> HIDE DEF mem
  <2> QED
    BY <2>2, <2>3 DEF Moved, Paired, Hole
<1> QED
  BY <1>3, <1>4, <1>5
=============================================================================
