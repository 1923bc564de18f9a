----------------------------- MODULE MCHashTable -----------------------------
(* Instances of HashTable: which domains share a bucket decides everything.  *)
EXTENDS HashTable, TLC

CONSTANTS k1, k2, k3, k4, b1, b2, a1, a2, a3, r2, r3

\* Three domains that are cached and expire share a bucket, as 30 of the 206
\* domains of dns_table.txt do; the file's domain is alone in another.
OneLine == <<k4>>
FileApartBuckets == [k \in Keys |-> IF k = k4 THEN b2 ELSE b1]

\* Everything in one bucket.
TwoLines == <<k1, k2>>
OneBucket == [k \in Keys |-> b1]

AddrRowSymmetry == Permutations(Addrs) \cup Permutations(FreshRows)
=============================================================================
