------------------------------ MODULE HashChain ------------------------------
(***************************************************************************)
(* The chained hash table of the DNS relay, hash_table/hash_table.c, as    *)
(* operators on its memory.                                                *)
(*                                                                         *)
(* The C table is an array of head nodes; further nodes of a bucket are    *)
(* malloc'ed.  A node holds two borrowed pointers (key and value) and the  *)
(* links prev and next.  Here the memory is a function from nodes to       *)
(* records, a head is named by its bucket, a chained node by its address,  *)
(* and `alloc' is the set of addresses malloc has handed out and free has  *)
(* not taken back.  Free does not erase: a freed node keeps its contents   *)
(* until malloc hands the address out again.                               *)
(*                                                                         *)
(* A key is a pointer: what strcmp reads through it is text[key], so a key *)
(* changes under the table when its owner rewrites the buffer.             *)
(***************************************************************************)
EXTENDS Naturals, FiniteSets

CONSTANTS
    Buckets,   \* the heads: indices of HashTable.data
    Addrs,     \* the addresses malloc can return
    Null       \* the NULL pointer

ASSUME MemoryAssumption ==
    /\ IsFiniteSet(Addrs)
    /\ Buckets # {}
    /\ Buckets \cap Addrs = {}
    /\ Null \notin Buckets \cup Addrs

Nodes == Buckets \cup Addrs

\* What calloc-like initialisation leaves in a node.
ClearedNode == [key |-> Null, value |-> Null, prev |-> Null, next |-> Null]

\* A node without key or value is a hole: FindNodeByKey stops there.
Hole(node, n) == node[n].key = Null \/ node[n].value = Null

NewHashTable == [n \in Nodes |-> ClearedNode]
-----------------------------------------------------------------------------
\* The loops follow `next' from node to node; on a chain that ends, each returns
\* a node or NULL, which the IF in the last line repeats for the provers.

\* FindNodeByKey: the first node of the chain of b whose key reads as `url',
\* unless the loop meets a hole or the end of the chain first.
FindNodeByKey(node, text, b, url) ==
    LET from[n \in Nodes \cup {Null}] ==
          IF n = Null \/ Hole(node, n) THEN Null
          ELSE IF text[node[n].key] = url THEN n
          ELSE from[node[n].next]
    IN  IF from[b] \in Nodes THEN from[b] ELSE Null

FindValueByKey(node, text, b, url) ==
    LET n == FindNodeByKey(node, text, b, url)
    IN  IF n = Null THEN Null ELSE node[n].value

\* The loop of InsertHashItem: <<last node, node passed before it>>; `prev' is
\* still NULL when the loop body never ran.
ChainEnd(node, b) ==
    LET from[n \in Nodes] ==
          LET succ == node[n].next
          IN  IF succ = Null THEN <<n, Null>>
              ELSE IF node[succ].next = Null THEN <<succ, n>>
              ELSE from[succ]
    IN  IF from[b] \in Nodes \X (Nodes \cup {Null}) THEN from[b] ELSE <<b, Null>>

\* The nodes a walk from head b visits: Visits(node, b)[i] after i steps.  A
\* chain that ends has at most Cardinality(Addrs) + 1 nodes.
Steps == 0 .. Cardinality(Addrs) + 1

Visits(node, b) ==
    LET at[i \in Steps] ==
          IF i = 0 THEN b
          ELSE IF at[i - 1] = Null THEN Null ELSE node[at[i - 1]].next
    IN  at

\* The chain closes on itself: a loop over all of it does not return.
Endless(node, b) == Visits(node, b)[Cardinality(Addrs) + 1] # Null

\* A loop over the chain reads memory that was freed.
Dangling(node, alloc, b) ==
    \E i \in Steps : Visits(node, b)[i] \in Addrs \ alloc
-----------------------------------------------------------------------------
\* Mutant: key and value change places in an empty head.
MutInsertSwapped(node, alloc, b, key, value) ==
    {[node  |-> [node EXCEPT ![b] = [key |-> value, value |-> key,
                                     prev |-> Null, next |-> Null]],
      alloc |-> alloc]}

\* InsertHashItem: the possible results, one for every address malloc may
\* return, and an unchanged table when malloc has none left.
InsertHashItem(node, alloc, b, key, value) ==
    IF Hole(node, b)
    THEN {[node  |-> [node EXCEPT ![b] = [key |-> key, value |-> value,
                                          prev |-> Null, next |-> Null]],
           alloc |-> alloc]}
    ELSE {[node  |-> [node EXCEPT ![ChainEnd(node, b)[1]].next = a,
                                  ![a] = [key |-> key, value |-> value,
                                          prev |-> ChainEnd(node, b)[2], next |-> Null]],
           alloc |-> alloc \cup {a}] : a \in Addrs \ alloc}
         \cup {r \in {[node |-> node, alloc |-> alloc]} : alloc = Addrs}

\* RemoveHashItemByNode: a node without prev takes over its successor (or
\* becomes a hole), any other is cut out between prev and next and freed.
\* LinkBack writes through the `prev' of the successor, when there is one.
LinkBack(node, succ, p) ==
    IF succ = Null THEN node ELSE [node EXCEPT ![succ].prev = p]

\* Mutant: a node that takes over its successor keeps its own value.
MutRemoveKeepsValue(node, alloc, n) ==
    LET succ == node[n].next
    IN  IF succ = Null
        THEN [node  |-> [node EXCEPT ![n].key = Null, ![n].value = Null],
              alloc |-> alloc]
        ELSE [node  |-> [node EXCEPT ![n].key  = node[succ].key,
                                     ![n].next = node[succ].next],
              alloc |-> alloc \ {succ}]

\* Mutant: the freed successor stays linked.
MutRemoveKeepsLink(node, alloc, n) ==
    LET succ == node[n].next
    IN  IF succ = Null
        THEN [node  |-> [node EXCEPT ![n].key = Null, ![n].value = Null],
              alloc |-> alloc]
        ELSE [node  |-> [node EXCEPT ![n].key   = node[succ].key,
                                     ![n].value = node[succ].value],
              alloc |-> alloc \ {succ}]

RemoveHashItemByNode(node, alloc, n) ==
    LET succ == node[n].next
        prev == node[n].prev
    IN  IF prev # Null
        THEN [node  |-> LinkBack([node EXCEPT ![prev].next = succ], succ, prev),
              alloc |-> alloc \ {n}]
        ELSE IF succ # Null
        THEN [node  |-> [LinkBack(node, node[succ].next, n)
                           EXCEPT ![n].key   = node[succ].key,
                                  ![n].value = node[succ].value,
                                  ![n].next  = node[succ].next],
              alloc |-> alloc \ {succ}]
        ELSE [node  |-> [node EXCEPT ![n].key = Null, ![n].value = Null],
              alloc |-> alloc]
=============================================================================
