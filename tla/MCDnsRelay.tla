------------------------------ MODULE MCDnsRelay ------------------------------
(* Instances of DnsRelay.                                                      *)
EXTENDS DnsRelay, TLC

CONSTANTS c1, c2, u1, u2, u3, ptr, b1, b2, b3, a1, a2, a3

\* u1 is blocked by the file and alone in its bucket.
BlockedAlone == [u \in Urls |-> IF u = u1 THEN b1 ELSE b2]
OneBucket == [u \in Urls |-> b1]

OneLine == <<[domain |-> u1, data |-> Blocked]>>
NoFile == << >>

ClientSymmetry == Permutations(Clients)
=============================================================================
