------------------------------ MODULE DomainMap ------------------------------
(***************************************************************************)
(* What the users of the hash table in main.c expect of it: a map from     *)
(* domain names to rows.  loadDNSTableData fills it (the first of two      *)
(* lines with one domain wins), onReadResponse adds a domain that is not   *)
(* in it, onReadRequest drops a domain whose TTL is over.                  *)
(*                                                                         *)
(* ExactSpec is that map.  LossySpec lets a step forget other domains too, *)
(* as a cache may, but never alters, invents or revives an entry.          *)
(***************************************************************************)
CONSTANTS Keys, Values, None

VARIABLE map

TypeOK == map \in [Keys -> Values \cup {None}]

Init == map = [k \in Keys |-> None]

Load(k, v) == map' = [map EXCEPT ![k] = IF @ = None THEN v ELSE @]

Put(k, v) == map[k] = None /\ map' = [map EXCEPT ![k] = v]

Drop(k) == map[k] # None /\ map' = [map EXCEPT ![k] = None]

ExactNext == \E k \in Keys : Drop(k) \/ \E v \in Values : Load(k, v) \/ Put(k, v)

ExactSpec == Init /\ [][ExactNext]_map
-----------------------------------------------------------------------------
\* Every domain but k keeps its row or is forgotten.
OthersMayVanish(k) == \A j \in Keys \ {k} : map'[j] \in {map[j], None}

LossyPut(k, v) == map[k] = None /\ map'[k] \in {v, None} /\ OthersMayVanish(k)

LossyDrop(k) == map[k] # None /\ map'[k] = None /\ OthersMayVanish(k)

LossyNext == /\ map' \in [Keys -> Values \cup {None}]
             /\ \E k \in Keys :
                  LossyDrop(k) \/ \E v \in Values : Load(k, v) \/ LossyPut(k, v)

LossySpec == Init /\ [][LossyNext]_map
=============================================================================
