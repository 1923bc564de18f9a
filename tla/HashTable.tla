------------------------------ MODULE HashTable ------------------------------
(***************************************************************************)
(* The life of the relay's hash table, as main.c drives it:                *)
(*   - loadDNSTableData inserts every line of dns_table.txt, before the    *)
(*     event loop starts; those rows never expire;                         *)
(*   - onReadResponse inserts a domain that a lookup does not find;        *)
(*   - onReadRequest removes the node of a domain whose TTL is over.       *)
(*                                                                         *)
(* Here a key is the domain name itself (module DnsRelay adds that the     *)
(* table borrows its keys from buffers that change).                       *)
(***************************************************************************)
EXTENDS HashChain, Sequences

CONSTANTS
    Keys,       \* domain names
    File,       \* the domains of dns_table.txt, line by line
    FreshRows,  \* rows of dnsTable that cached domains use
    Hash        \* ELFHash(key) % size

StaticRows == 1 .. Len(File)   \* line i is read into dnsTable[i]
Rows == StaticRows \cup FreshRows

ASSUME TableAssumption ==
    /\ File \in Seq(Keys)
    /\ StaticRows \cap FreshRows = {}
    /\ Null \notin Keys \cup Rows
    /\ Hash \in [Keys -> Buckets]

VARIABLES
    node,   \* contents of the memory
    alloc,  \* addresses malloc'ed and not freed
    line    \* lines of the file read so far

vars == <<node, alloc, line>>

Text == [k \in Keys |-> k]

Find(k) == FindNodeByKey(node, Text, Hash[k], k)

Lookup(k) == FindValueByKey(node, Text, Hash[k], k)

TypeOK ==
    /\ node \in [Nodes -> [key   : Keys \cup {Null}, value : Rows \cup {Null},
                           prev  : Nodes \cup {Null}, next : Nodes \cup {Null}]]
    /\ alloc \in SUBSET Addrs
    /\ line \in 0 .. Len(File)

Init ==
    /\ node = NewHashTable
    /\ alloc = {}
    /\ line = 0
-----------------------------------------------------------------------------
Insert(k, v) ==
    \E r \in InsertHashItem(node, alloc, Hash[k], k, v) :
      /\ node' = r.node
      /\ alloc' = r.alloc

\* The next line of dns_table.txt; nothing checks that its domain is new.  The
\* file fits in memory.
LoadRow ==
    /\ line < Len(File)
    /\ alloc # Addrs
    /\ Insert(File[line + 1], line + 1)
    /\ line' = line + 1

Serving == line = Len(File)

\* An A record arrives for a domain that is not in the table.  On a chain that
\* closed on itself the loops do not return: no step.
CacheRow(k, v) ==
    /\ Serving
    /\ ~Endless(node, Hash[k])
    /\ Find(k) = Null
    /\ Insert(k, v)
    /\ UNCHANGED line

\* A query finds the domain, but its TTL is over.
ExpireRow(k) ==
    /\ Serving
    /\ ~Endless(node, Hash[k])
    /\ Lookup(k) \in FreshRows
    /\ LET r == RemoveHashItemByNode(node, alloc, Find(k))
       IN  node' = r.node /\ alloc' = r.alloc
    /\ UNCHANGED line

Next ==
    \/ LoadRow
    \/ \E k \in Keys : ExpireRow(k) \/ \E v \in FreshRows : CacheRow(k, v)

Spec == Init /\ [][Next]_vars
-----------------------------------------------------------------------------
\* The table as its users see it: what a lookup of each domain returns.
Domains == INSTANCE DomainMap WITH
              Values <- Rows, None <- Null, map <- [k \in Keys |-> Lookup(k)]

\* While no two domains that expire share a bucket, the chains behave exactly
\* like a map, whatever the file puts into one bucket (InsertHashItem,
\* FindNodeByKey, RemoveHashItemByNode).
ExactMap == Domains!ExactSpec

\* Up to three domains of a bucket may expire: a lookup still returns the row
\* of the last insertion of that domain or misses, never another domain's row or
\* one that was removed (RemoveHashItemByNode loses domains, but mixes none up).
LossyMap == Domains!LossySpec

\* No loop along `next' can reach a node that RemoveHashItemByNode freed, and
\* every loop ends.
ChainsIntact ==
    \A b \in Buckets : ~Endless(node, b) /\ ~Dangling(node, alloc, b)

\* main.c:722 says the domains read from the file are resolved for ever: no
\* insertion or removal of another domain may hide one.
LoadedForEver ==
    Serving => \A i \in StaticRows : Lookup(File[i]) \in StaticRows
=============================================================================
