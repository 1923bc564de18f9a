--------------------------- MODULE DnsRelay_proofs ---------------------------
(***************************************************************************)
(* DnsRelay for every number of clients, domains, rows and seconds:        *)
(*   TypeCorrect     the state keeps its types, whatever the chains and    *)
(*                   the network do;                                       *)
(*   AskerServed,    at the clients' rate and within a month, answers go   *)
(*   AnswersInTime   to the client that asked, and in time;                *)
(*   AddressesRight, in the first lap of the rings, keys, rows and answers *)
(*   KeysReadAsRows  belong to the domain they are for;                    *)
(*   FirstDomainsObeyed, BlockedForGood  as long, the domains of the file  *)
(*                   that are the first of their bucket obey the file;     *)
(*   NodesInTheirBuckets, LoopsReturn, FileObeyed  as long, and while no   *)
(*                   bucket is shared in the ways that the chains do not   *)
(*                   survive, every node is found under its own domain,    *)
(*                   no loop hangs and every line of the file is obeyed.   *)
(***************************************************************************)
EXTENDS DnsRelay, HashChain_proofs, SequenceTheorems

USE RelayAssumption

LEMMA NextIndex ==
  ASSUME NEW n \in Nat \ {0}, NEW i \in 0 .. n - 1
  PROVE  (i + 1) % n \in 0 .. n - 1
OBVIOUS

LEMMA ClockNat == ASSUME now \in Nat PROVE ToSecond \in Nat
BY DEF ToSecond

LEMMA FileType ==
  ASSUME NEW i \in 1 .. Len(File)
  PROVE  File[i].domain \in Urls /\ File[i].data \in Urls \cup {Blocked}
<1> DEFINE Lines == [domain : Urls, data : Urls \cup {Blocked}]
<1>1. File \in Seq(Lines)
  OBVIOUS
<1> HIDE DEF Lines
<1>2. File[i] \in Lines
  BY <1>1, ElementOfSeq
<1>3. QED
  BY <1>2 DEF Lines

\* The part of TypeOK that the tables make up.
TablesOK(ids, count, rows, rowCount, mem, used) ==
    /\ ids \in [IdRow -> [prevID : ClientIds \cup {Null}, client : Clients \cup {Null},
                          url : Urls \cup {Null}, joinTime : Nat]]
    /\ count \in IdRow
    /\ rows \in [DnsRow -> [domain : Urls \cup {Null}, TTL : Nat,
                            data : Urls \cup {Blocked, Null}]]
    /\ rowCount \in DnsRow
    /\ mem \in Memory(KeyRefs, DnsRow)
    /\ used \in SUBSET Addrs

LEMMA TypeSplit ==
  TypeOK <=> /\ TablesOK(idTable, idRowCount, dnsTable, dnsRowCount, node, alloc)
             /\ now \in Nat
             /\ line \in 0 .. Len(File)
             /\ open \in SUBSET {"local", "server"}
             /\ net \in SUBSET Packet
             /\ reply \in Reply \cup {Null}
BY DEF TypeOK, TablesOK, Memory

\* GetNewID writes one row of idTable and moves on to the next.
LEMMA GetNewIDType ==
  ASSUME TypeOK, NEW c \in Clients, NEW q \in ClientIds, NEW u \in Urls,
         GetNewID(c, q, u)
  PROVE  /\ idTable' \in [IdRow -> [prevID : ClientIds \cup {Null},
                            client : Clients \cup {Null}, url : Urls \cup {Null},
                            joinTime : Nat]]
         /\ idRowCount' \in IdRow
<1>1. idRowCount' \in IdRow
  BY NextIndex DEF GetNewID, TypeOK, IdRow
<1>2. [prevID |-> q, client |-> c, url |-> u, joinTime |-> ToSecond] \in
        [prevID : ClientIds \cup {Null}, client : Clients \cup {Null},
         url : Urls \cup {Null}, joinTime : Nat]
  BY ClockNat DEF TypeOK
<1>3. QED
  BY <1>1, <1>2 DEF GetNewID, TypeOK

\* Storing one A record keeps a quadruple of tables well typed.
StoreOK(s) == /\ s.rows \in [DnsRow -> [domain : Urls \cup {Null}, TTL : Nat,
                                        data : Urls \cup {Blocked, Null}]]
              /\ s.count \in DnsRow
              /\ s.node \in Memory(KeyRefs, DnsRow)
              /\ s.alloc \in SUBSET Addrs

LEMMA StoreRecordType ==
  ASSUME TypeOK, NEW s, StoreOK(s), NEW i \in IdRow, NEW data \in Urls, NEW ttl \in TTLs,
         NEW t \in StoreRecord(s, i, data, ttl)
  PROVE  StoreOK(t)
<1> DEFINE u == idTable[i].url
<1>1. u \in Urls \cup {Null}
  BY DEF TypeOK
<1>2. CASE t = s
  BY <1>2
<1>3. CASE t # s
  <2>1. PICK r \in InsertHashItem(s.node, s.alloc, Hash[u], <<"idTable", i>>, s.count) :
          t = [rows  |-> [s.rows EXCEPT ![s.count] =
                            [domain |-> u, data |-> data, TTL |-> ToSecond + ttl]],
               count |-> (s.count + 1) % DnsRows,
               node  |-> r.node,
               alloc |-> r.alloc]
    BY <1>3 DEF StoreRecord
  <2>2. <<"idTable", i>> \in KeyRefs
    BY DEF KeyRefs
  <2>3. r.node \in Memory(KeyRefs, DnsRow) /\ r.alloc \in SUBSET Addrs
    <3>1. /\ s.node \in Memory(KeyRefs, DnsRow)
          /\ s.alloc \in SUBSET Addrs
          /\ s.count \in DnsRow
      BY DEF StoreOK
    <3> DEFINE b == Hash[u]
               key == <<"idTable", i>>
               mem == s.node
               used == s.alloc
               row == s.count
    <3>2. r \in InsertHashItem(mem, used, b, key, row)
      OBVIOUS
    <3> HIDE DEF b, key, mem, used, row
    <3>3. QED
      BY <2>2, <3>1, <3>2, InsertType, ZenonT(30) DEF mem, used, row, key
  <2>4. [domain |-> u, data |-> data, TTL |-> ToSecond + ttl] \in
          [domain : Urls \cup {Null}, TTL : Nat, data : Urls \cup {Blocked, Null}]
    BY <1>1, ClockNat DEF TypeOK
  <2>5. (s.count + 1) % DnsRows \in DnsRow
    BY NextIndex DEF StoreOK, DnsRow
  <2>6. QED
    BY <2>1, <2>3, <2>4, <2>5 DEF StoreOK
<1>4. QED
  BY <1>2, <1>3

LEMMA StoreRecordsType ==
  ASSUME TypeOK, NEW n \in 0 .. 2, NEW i \in IdRow, NEW data \in Urls, NEW ttl \in TTLs,
         NEW t \in StoreRecords(n, i, data, ttl)
  PROVE  StoreOK(t)
<1> DEFINE before == {[rows |-> dnsTable, count |-> dnsRowCount, node |-> node,
                       alloc |-> alloc]}
           after(S) == UNION {StoreRecord(s, i, data, ttl) : s \in S}
<1>1. \A s \in before : StoreOK(s)
  BY TypeSplit DEF StoreOK, TablesOK
<1>2. \A s \in after(before) : StoreOK(s)
  BY <1>1, StoreRecordType
<1>3. \A s \in after(after(before)) : StoreOK(s)
  BY <1>2, StoreRecordType
<1>4. t \in before \/ t \in after(before) \/ t \in after(after(before))
  BY DEF StoreRecords
<1>5. QED
  BY <1>1, <1>2, <1>3, <1>4
-----------------------------------------------------------------------------
LEMMA TypeInit == Init => TypeOK
<1> SUFFICES ASSUME Init PROVE TypeOK
  OBVIOUS
<1>1. node \in Memory(KeyRefs, DnsRow)
  BY NewType DEF Init
<1>2. 0 \in IdRow /\ 0 \in DnsRow /\ 0 \in 0 .. Len(File)
  BY DEF IdRow, DnsRow
<1>3. QED
  BY <1>1, <1>2, TypeSplit DEF Init, TablesOK

LEMMA TypeLoad == TypeOK /\ LoadRow => TypeOK'
<1> SUFFICES ASSUME TypeOK, LoadRow PROVE TypeOK'
  OBVIOUS
<1>1. /\ line' \in 1 .. Len(File)
      /\ line' \in DnsRow
  BY DEF TypeOK, LoadRow, DnsRow
<1>2. /\ File[line'].domain \in Urls
      /\ File[line'].data \in Urls \cup {Blocked}
  BY <1>1, FileType
<1>3. StaticTTL \in Nat
  BY DEF StaticTTL
<1>4. dnsTable' \in [DnsRow -> [domain : Urls \cup {Null}, TTL : Nat,
                                data : Urls \cup {Blocked, Null}]]
  BY <1>2, <1>3 DEF TypeOK, LoadRow
<1>5. <<"dnsTable", dnsRowCount>> \in KeyRefs /\ dnsRowCount \in DnsRow
  BY DEF KeyRefs, TypeOK
<1>6. node' \in Memory(KeyRefs, DnsRow) /\ alloc' \in SUBSET Addrs
  <2>1. node \in Memory(KeyRefs, DnsRow) /\ alloc \in SUBSET Addrs
    BY TypeSplit DEF TablesOK
  <2>2. PICK r \in InsertHashItem(node, alloc, Hash[File[line'].domain],
                                 <<"dnsTable", dnsRowCount>>, dnsRowCount) :
          node' = r.node /\ alloc' = r.alloc
    BY DEF LoadRow
  <2>3. r.node \in Memory(KeyRefs, DnsRow) /\ r.alloc \in SUBSET Addrs
    BY <1>5, <2>1, InsertType
  <2>4. QED
    BY <2>2, <2>3
<1>7. QED
  BY <1>1, <1>4, <1>6, TypeSplit DEF LoadRow, TablesOK, TypeOK, Memory

\* A request that the relay answers itself changes idTable and sends a reply.
LEMMA TypeAnswered ==
  ASSUME TypeOK, NEW c \in Clients, NEW q \in ClientIds, NEW u \in Urls,
         NEW data \in Urls \cup {Blocked, Null},
         GetNewID(c, q, u), reply' = Answer(c, q, u, data),
         UNCHANGED <<now, dnsTable, dnsRowCount, node, alloc, line, open, net>>
  PROVE  TypeOK'
<1>1. reply' \in Reply
  <2>1. now \in Nat
    BY DEF TypeOK
  <2>2. QED
    BY <2>1 DEF Answer, Reply
<1>2. QED
  BY <1>1, GetNewIDType DEF TypeOK

LEMMA TypeHit ==
  ASSUME TypeOK, NEW c \in Clients, NEW q \in ClientIds, NEW u \in Urls,
         CacheHit(c, q, u)
  PROVE  TypeOK'
<1>1. Result(u) \in DnsRow
  <2>1. FindNode(u) \in Nodes
    BY FindType DEF CacheHit, Result, FindNode
  <2>2. QED
    BY <2>1 DEF TypeOK, CacheHit, Result
<1>2. dnsTable[Result(u)].data \in Urls \cup {Blocked, Null}
  BY <1>1 DEF TypeOK
<1>3. QED
  BY <1>2, TypeAnswered DEF CacheHit

LEMMA TypeForward ==
  ASSUME TypeOK, NEW c \in Clients, NEW q \in ClientIds, NEW u \in Urls,
         Forward(c, q, u)
  PROVE  TypeOK'
<1>1. node' \in Memory(KeyRefs, DnsRow) /\ alloc' \in SUBSET Addrs
  <2>1. node \in Memory(KeyRefs, DnsRow) /\ alloc \in SUBSET Addrs
    BY TypeSplit DEF TablesOK
  <2>2. CASE Result(u) = Null
    BY <2>1, <2>2 DEF Forward
  <2>3. CASE Result(u) # Null
    <3>1. FindNode(u) \in Nodes
      BY <2>3, FindType DEF Result, FindNode
    <3> DEFINE r == RemoveHashItemByNode(node, alloc, FindNode(u))
    <3>2. node' = r.node /\ alloc' = r.alloc
      BY <2>3 DEF Forward
    <3>3. r.node \in Memory(KeyRefs, DnsRow) /\ r.alloc \in SUBSET Addrs
      BY <2>1, <3>1, RemoveType
    <3>4. QED
      BY <3>2, <3>3
  <2>4. QED
    BY <2>2, <2>3
<1>2. net' \in SUBSET Packet
  BY DEF Forward, TypeOK, Packet
<1>3. reply' = Null /\ UNCHANGED <<now, dnsTable, dnsRowCount, line, open>>
  BY DEF Forward
<1>4. GetNewID(c, q, u)
  BY DEF Forward
<1>5. QED
  BY <1>1, <1>2, <1>3, <1>4, GetNewIDType DEF TypeOK, Memory

LEMMA TypePass ==
  ASSUME TypeOK, NEW m \in net, NEW n \in 0 .. 2, NEW ttl \in TTLs,
         PassAnswer(m, n, ttl)
  PROVE  TypeOK'
<1>1. /\ m.row \in IdRow /\ m.url \in Urls /\ m.client \in Clients
      /\ m.id \in ClientIds /\ m.sent \in Nat
  BY DEF TypeOK, Packet
<1>2. PICK s \in StoreRecords(n, m.row, m.url, ttl) :
        /\ dnsTable' = s.rows
        /\ dnsRowCount' = s.count
        /\ node' = s.node
        /\ alloc' = s.alloc
  BY DEF PassAnswer
<1>3. StoreOK(s)
  BY <1>1, <1>2, StoreRecordsType
<1>4. reply' \in Reply \cup {Null}
  BY <1>1 DEF PassAnswer, Reply, TypeOK
<1>5. net' \in SUBSET Packet
  BY DEF PassAnswer, Received, TypeOK
<1>6. UNCHANGED <<now, idTable, idRowCount, line, open>>
  BY DEF PassAnswer
<1>7. QED
  BY <1>2, <1>3, <1>4, <1>5, <1>6 DEF StoreOK, TypeOK, Memory

LEMMA TypeNext == TypeOK /\ [Next]_vars => TypeOK'
<1> SUFFICES ASSUME TypeOK, [Next]_vars PROVE TypeOK'
  OBVIOUS
<1>1. CASE LoadRow
  BY <1>1, TypeLoad
<1>2. ASSUME NEW c \in Clients, NEW q \in ClientIds, NEW u \in Urls, PtrRequest(c, q, u)
      PROVE  TypeOK'
  BY <1>2, TypeAnswered DEF PtrRequest
<1>3. ASSUME NEW c \in Clients, NEW q \in ClientIds, NEW u \in Urls, CacheHit(c, q, u)
      PROVE  TypeOK'
  BY <1>3, TypeHit
<1>4. ASSUME NEW c \in Clients, NEW q \in ClientIds, NEW u \in Urls, Forward(c, q, u)
      PROVE  TypeOK'
  BY <1>4, TypeForward
<1>5. ASSUME NEW m \in net, DropLate(m) PROVE TypeOK'
  BY <1>5 DEF DropLate, Received, tables, TypeOK
<1>6. ASSUME NEW m \in net, NEW n \in 0 .. 2, NEW ttl \in TTLs, PassAnswer(m, n, ttl)
      PROVE  TypeOK'
  BY <1>6, TypePass
<1>7. ASSUME NEW socket \in open, ReadError(socket) PROVE TypeOK'
  BY <1>7 DEF ReadError, tables, TypeOK
<1>8. CASE Tick
  BY <1>8 DEF Tick, tables, TypeOK
<1>9. CASE UNCHANGED vars
  BY <1>9 DEF vars, tables, TypeOK
<1>10. QED
  BY <1>1, <1>2, <1>3, <1>4, <1>5, <1>6, <1>7, <1>8, <1>9 DEF Next

\* Types are kept for every table size, rate, clock and chain (main.c).
THEOREM TypeCorrect == Spec => []TypeOK
BY TypeInit, TypeNext, PTL DEF Spec
-----------------------------------------------------------------------------
(***************************************************************************)
(* Why answers reach their askers although a packet only names a row.      *)
(* AnswerReachesAsker is not inductive: nothing in it says whose row a     *)
(* packet names.  RowsOwned does: while a packet lives, its row still      *)
(* holds the request that sent it, because a row rests for Lifetime before *)
(* it is taken again and no packet is older than that.  Both clocks must   *)
(* agree for that: ToSecond is now, as the relay runs within one month.    *)
(***************************************************************************)
WithinMonth == MaxTime < Month

RowsOwned ==
    \A m \in net : /\ idTable[m.row] = [prevID |-> m.id, client |-> m.client,
                                       url |-> m.url, joinTime |-> m.sent]
                   /\ m.sent <= now
                   /\ now - m.sent <= Lifetime

RoutingInv == /\ TypeOK
              /\ now <= MaxTime
              /\ RowsOwned
              /\ AnswerReachesAsker
              /\ NoLateAnswer

LEMMA ClockIsNow ==
  ASSUME WithinMonth, now \in Nat, now <= MaxTime
  PROVE  ToSecond = now
BY DEF WithinMonth, ToSecond

LEMMA RoutingInit == Init => RoutingInv
<1> SUFFICES ASSUME Init PROVE RoutingInv
  OBVIOUS
<1>1. TypeOK
  BY TypeInit
<1>2. QED
  BY <1>1 DEF Init, RoutingInv, RowsOwned, AnswerReachesAsker, NoLateAnswer

LEMMA OwnedFields ==
  ASSUME RoutingInv, NEW m \in net
  PROVE  /\ idTable[m.row].client = m.client
         /\ idTable[m.row].prevID = m.id
         /\ idTable[m.row].url = m.url
         /\ idTable[m.row].joinTime = m.sent
<1>1. idTable[m.row] = [prevID |-> m.id, client |-> m.client,
                        url |-> m.url, joinTime |-> m.sent]
  BY DEF RoutingInv, RowsOwned
<1>2. QED
  BY <1>1

\* A new request takes a row that no living packet names.
LEMMA TakenRowIsFree ==
  ASSUME WithinMonth, RateLimited, RoutingInv, RequestRead, NEW m \in net
  PROVE  m.row # idRowCount
<1> SUFFICES ASSUME m.row = idRowCount PROVE FALSE
  OBVIOUS
<1>1. /\ m.row \in IdRow /\ m.url \in Urls /\ m.sent \in Nat /\ now \in Nat
  BY DEF RoutingInv, TypeOK, Packet
<1>2. idTable[m.row].url = m.url /\ idTable[m.row].joinTime = m.sent
  BY OwnedFields
<1>3. now - m.sent <= Lifetime
  BY DEF RoutingInv, RowsOwned
<1>4. m.url # Null
  BY <1>1
<1>5. QED
  BY <1>1, <1>2, <1>3, <1>4 DEF RequestRead, RowRested

\* So GetNewID leaves the rows of living packets alone.
LEMMA RequestKeepsRows ==
  ASSUME WithinMonth, RateLimited, RoutingInv, RequestRead,
         NEW c \in Clients, NEW q \in ClientIds, NEW u \in Urls, GetNewID(c, q, u),
         now' = now, NEW m \in net
  PROVE  /\ idTable'[m.row] = [prevID |-> m.id, client |-> m.client,
                               url |-> m.url, joinTime |-> m.sent]
         /\ m.sent <= now'
         /\ now' - m.sent <= Lifetime
<1>1. m.row # idRowCount
  BY TakenRowIsFree
<1>2. idTable'[m.row] = idTable[m.row]
  BY <1>1 DEF GetNewID, RoutingInv, TypeOK
<1>3. QED
  BY <1>2 DEF RoutingInv, RowsOwned

\* A request the relay answers itself.
LEMMA RoutingAnswered ==
  ASSUME WithinMonth, RateLimited, RoutingInv, RequestRead, TypeOK',
         NEW c \in Clients, NEW q \in ClientIds, NEW u \in Urls, NEW data,
         GetNewID(c, q, u), reply' = Answer(c, q, u, data), UNCHANGED <<now, net>>
  PROVE  RoutingInv'
<1>1. RowsOwned'
  BY RequestKeepsRows DEF RowsOwned
<1>2. AnswerReachesAsker'
  BY DEF AnswerReachesAsker, Answer
<1>3. NoLateAnswer'
  BY DEF NoLateAnswer, Answer, RoutingInv, TypeOK
<1>4. QED
  BY <1>1, <1>2, <1>3 DEF RoutingInv

LEMMA RoutingForward ==
  ASSUME WithinMonth, RateLimited, RoutingInv, TypeOK',
         NEW c \in Clients, NEW q \in ClientIds, NEW u \in Urls, Forward(c, q, u)
  PROVE  RoutingInv'
<1>1. RequestRead /\ GetNewID(c, q, u) /\ now' = now /\ reply' = Null
  BY DEF Forward
<1>2. ASSUME NEW m \in net'
      PROVE  /\ idTable'[m.row] = [prevID |-> m.id, client |-> m.client,
                                   url |-> m.url, joinTime |-> m.sent]
             /\ m.sent <= now'
             /\ now' - m.sent <= Lifetime
  <2>1. CASE m \in net
    BY <1>1, <2>1, RequestKeepsRows
  <2>2. CASE m = [row |-> idRowCount, url |-> u, client |-> c, id |-> q, sent |-> now]
    <3>1. ToSecond = now
      BY ClockIsNow DEF RoutingInv, TypeOK
    <3>2. idTable'[idRowCount] = [prevID |-> q, client |-> c, url |-> u, joinTime |-> now]
      BY <1>1, <3>1 DEF GetNewID, RoutingInv, TypeOK
    <3>3. QED
      BY <1>1, <2>2, <3>2 DEF RoutingInv, TypeOK
  <2>3. QED
    BY <2>1, <2>2 DEF Forward
<1>3. QED
  BY <1>1, <1>2 DEF RoutingInv, RowsOwned, AnswerReachesAsker, NoLateAnswer

LEMMA RoutingPass ==
  ASSUME WithinMonth, RoutingInv, TypeOK',
         NEW m \in net, NEW n \in 0 .. 2, NEW ttl \in TTLs, PassAnswer(m, n, ttl)
  PROVE  RoutingInv'
<1>1. net' \subseteq net /\ UNCHANGED <<now, idTable>>
  BY DEF PassAnswer, Received
<1>2. RowsOwned'
  BY <1>1 DEF RoutingInv, RowsOwned
<1>3. /\ idTable[m.row].client = m.client
      /\ idTable[m.row].prevID = m.id
      /\ idTable[m.row].joinTime = m.sent
      /\ m.sent \in Nat /\ now \in Nat
  BY OwnedFields DEF RoutingInv, TypeOK, Packet
<1>4. AnswerReachesAsker'
  BY <1>3 DEF PassAnswer, AnswerReachesAsker
<1>5. now - m.sent <= TimeLimit
  <2>1. ToSecond = now
    BY ClockIsNow DEF RoutingInv, TypeOK
  <2>2. QED
    BY <1>3, <2>1 DEF PassAnswer, Late
<1>6. NoLateAnswer'
  BY <1>1, <1>5 DEF PassAnswer, NoLateAnswer
<1>7. QED
  BY <1>1, <1>2, <1>4, <1>6 DEF RoutingInv

LEMMA RoutingNext ==
  ASSUME WithinMonth, RateLimited
  PROVE  RoutingInv /\ [Next]_vars => RoutingInv'
<1> SUFFICES ASSUME RoutingInv, [Next]_vars PROVE RoutingInv'
  OBVIOUS
<1>t. TypeOK'
  BY TypeNext DEF RoutingInv
<1>1. CASE LoadRow
  BY <1>t, <1>1 DEF LoadRow, RoutingInv, RowsOwned, AnswerReachesAsker, NoLateAnswer
<1>2. ASSUME NEW c \in Clients, NEW q \in ClientIds, NEW u \in Urls, PtrRequest(c, q, u)
      PROVE  RoutingInv'
  BY <1>t, <1>2, RoutingAnswered DEF PtrRequest
<1>3. ASSUME NEW c \in Clients, NEW q \in ClientIds, NEW u \in Urls, CacheHit(c, q, u)
      PROVE  RoutingInv'
  BY <1>t, <1>3, RoutingAnswered DEF CacheHit
<1>4. ASSUME NEW c \in Clients, NEW q \in ClientIds, NEW u \in Urls, Forward(c, q, u)
      PROVE  RoutingInv'
  BY <1>t, <1>4, RoutingForward
<1>5. ASSUME NEW m \in net, DropLate(m) PROVE RoutingInv'
  BY <1>t, <1>5 DEF DropLate, Received, tables, RoutingInv, RowsOwned,
                    AnswerReachesAsker, NoLateAnswer
<1>6. ASSUME NEW m \in net, NEW n \in 0 .. 2, NEW ttl \in TTLs, PassAnswer(m, n, ttl)
      PROVE  RoutingInv'
  BY <1>t, <1>6, RoutingPass
<1>7. ASSUME NEW socket \in open, ReadError(socket) PROVE RoutingInv'
  BY <1>t, <1>7 DEF ReadError, tables, RoutingInv, RowsOwned, AnswerReachesAsker, NoLateAnswer
<1>8. CASE Tick
  <2>1. now' = now + 1 /\ now' <= MaxTime /\ reply' = Null /\ idTable' = idTable
    BY <1>8 DEF Tick, tables, RoutingInv, TypeOK
  <2>2. RowsOwned'
    <3>1. ASSUME NEW m \in net'
          PROVE  /\ idTable'[m.row] = [prevID |-> m.id, client |-> m.client,
                                       url |-> m.url, joinTime |-> m.sent]
                 /\ m.sent <= now'
                 /\ now' - m.sent <= Lifetime
      <4>1. m \in net /\ now + 1 - m.sent <= Lifetime
        BY <1>8 DEF Tick
      <4>2. m.sent \in Nat /\ now \in Nat /\ m.sent <= now
        BY <4>1 DEF RoutingInv, RowsOwned, TypeOK, Packet
      <4>3. idTable[m.row] = [prevID |-> m.id, client |-> m.client,
                              url |-> m.url, joinTime |-> m.sent]
        BY <4>1 DEF RoutingInv, RowsOwned
      <4>4. QED
        BY <2>1, <4>1, <4>2, <4>3
    <3>2. QED
      BY <3>1 DEF RowsOwned
  <2>3. QED
    BY <1>t, <2>1, <2>2 DEF RoutingInv, AnswerReachesAsker, NoLateAnswer
<1>9. CASE UNCHANGED vars
  BY <1>t, <1>9 DEF vars, tables, RoutingInv, RowsOwned, AnswerReachesAsker, NoLateAnswer
<1>10. QED
  BY <1>1, <1>2, <1>3, <1>4, <1>5, <1>6, <1>7, <1>8, <1>9 DEF Next

LEMMA Routing ==
  ASSUME WithinMonth, RateLimited
  PROVE  Spec => []RoutingInv
BY RoutingInit, RoutingNext, PTL DEF Spec

\* At the clients' rate and within a month, whatever rows are reused and however
\* answers are delayed, duplicated or reordered, each goes to the client that asked.
THEOREM AskerServed ==
  ASSUME WithinMonth, RateLimited
  PROVE  Spec => []AnswerReachesAsker
<1>1. RoutingInv => AnswerReachesAsker
  BY DEF RoutingInv
<1>2. QED
  BY <1>1, Routing, PTL

\* Under the same assumptions no answer goes out after the time limit.
THEOREM AnswersInTime ==
  ASSUME WithinMonth, RateLimited
  PROVE  Spec => []NoLateAnswer
<1>1. RoutingInv => NoLateAnswer
  BY DEF RoutingInv
<1>2. QED
  BY <1>1, Routing, PTL
-----------------------------------------------------------------------------
(***************************************************************************)
(* Why the address of an answer belongs to the domain in its question.     *)
(* RightAddress says nothing of the tables; what is kept there is that the *)
(* key of every node, the row it points to and the address in that row all *)
(* belong to one domain.  Chains can be in any disorder for that: it holds *)
(* of the nodes that no chain leads to as well.  It needs the rows that    *)
(* nodes and packets name to be older than the next row of their ring, so  *)
(* that no request and no insertion rewrites them: OneLap.                 *)
(***************************************************************************)
\* The row a key points into has been written.
Settled(key, ids, rows) == IF key[1] = "idTable" THEN key[2] < ids ELSE key[2] < rows

\* A key and a row of dnsTable name one domain; t is [ids, taken, rows, count].
Names(t, key, value) ==
    /\ key \in KeyRefs /\ Settled(key, t.taken, t.count)
    /\ value \in DnsRow /\ value < t.count
    /\ Text(t.ids, t.rows)[key] = t.rows[value].domain

RowRight(row) == row.data \in {row.domain} \cup FileSays(row.domain)

Agree(t, mem) ==
    /\ \A n \in Nodes : ~Hole(mem, n) => Names(t, mem[n].key, mem[n].value)
    /\ \A j \in DnsRow : j < t.count => RowRight(t.rows[j])

Rings == [ids |-> idTable, taken |-> idRowCount, rows |-> dnsTable, count |-> dnsRowCount]

PacketsKept == \A m \in net : m.row < idRowCount /\ idTable[m.row].url = m.url

Loading == line < Len(File) => dnsRowCount = line /\ net = {}

AddressInv == TypeOK /\ Agree(Rings, node) /\ PacketsKept /\ Loading /\ RightAddress

\* The rings are typed as TypeOK says.
RingsOK(t) ==
    /\ t.ids \in [IdRow -> [prevID : ClientIds \cup {Null}, client : Clients \cup {Null},
                            url : Urls \cup {Null}, joinTime : Nat]]
    /\ t.taken \in IdRow
    /\ t.rows \in [DnsRow -> [domain : Urls \cup {Null}, TTL : Nat,
                              data : Urls \cup {Blocked, Null}]]
    /\ t.count \in DnsRow

LEMMA TextIs ==
  ASSUME NEW ids, NEW rows
  PROVE  /\ \A i \in IdRow : Text(ids, rows)[<<"idTable", i>>] = ids[i].url
         /\ \A j \in DnsRow : Text(ids, rows)[<<"dnsTable", j>>] = rows[j].domain
<1>1. ASSUME NEW i \in IdRow PROVE Text(ids, rows)[<<"idTable", i>>] = ids[i].url
  <2>1. <<"idTable", i>> \in KeyRefs
    BY DEF KeyRefs
  <2> QED
    BY <2>1 DEF Text
<1>2. ASSUME NEW j \in DnsRow PROVE Text(ids, rows)[<<"dnsTable", j>>] = rows[j].domain
  <2>1. <<"dnsTable", j>> \in KeyRefs
    BY DEF KeyRefs
  <2> QED
    BY <2>1 DEF Text
<1> QED
  BY <1>1, <1>2

LEMMA KeyIs ==
  ASSUME NEW key \in KeyRefs
  PROVE  \/ \E i \in IdRow : key = <<"idTable", i>>
         \/ \E j \in DnsRow : key = <<"dnsTable", j>>
BY DEF KeyRefs

\* What a node names it still names when rows that are not written yet change and
\* the rings go on.
LEMMA NamesLast ==
  ASSUME NEW t, RingsOK(t), NEW u, RingsOK(u), t.taken <= u.taken, t.count <= u.count,
         \A i \in IdRow : i < t.taken => u.ids[i].url = t.ids[i].url,
         \A j \in DnsRow : j < t.count => u.rows[j] = t.rows[j],
         NEW key, NEW value, Names(t, key, value)
  PROVE  Names(u, key, value)
<1>1. key \in KeyRefs /\ value \in DnsRow /\ value < t.count
      /\ Settled(key, t.taken, t.count) /\ Text(t.ids, t.rows)[key] = t.rows[value].domain
  BY DEF Names
<1>2. /\ t.taken \in Int /\ t.count \in Int /\ u.taken \in Int /\ u.count \in Int
      /\ IdRow \subseteq Int /\ DnsRow \subseteq Int
  BY SMTT(20) DEF RingsOK, IdRow, DnsRow
<1>3. u.rows[value] = t.rows[value] /\ value < u.count
  BY <1>1, <1>2
<1>4. CASE \E i \in IdRow : key = <<"idTable", i>>
  <2>1. PICK i \in IdRow : key = <<"idTable", i>>
    BY <1>4
  <2>2. i < t.taken
    BY <1>1, <2>1 DEF Settled
  <2>3. Text(u.ids, u.rows)[key] = Text(t.ids, t.rows)[key]
    BY <2>1, <2>2, TextIs
  <2>4. Settled(key, u.taken, u.count)
    BY <1>2, <2>1, <2>2 DEF Settled
  <2> QED
    BY <1>1, <1>3, <2>3, <2>4 DEF Names
<1>5. CASE \E j \in DnsRow : key = <<"dnsTable", j>>
  <2>1. PICK j \in DnsRow : key = <<"dnsTable", j>>
    BY <1>5
  <2>2. j < t.count
    BY <1>1, <2>1 DEF Settled
  <2>3. Text(u.ids, u.rows)[key] = Text(t.ids, t.rows)[key]
    BY <2>1, <2>2, TextIs
  <2>4. Settled(key, u.taken, u.count)
    BY <1>2, <2>1, <2>2 DEF Settled
  <2> QED
    BY <1>1, <1>3, <2>3, <2>4 DEF Names
<1> QED
  BY <1>1, <1>4, <1>5, KeyIs

\* A row is written at the end of its ring, and a node may be given it.
LEMMA RowAgrees ==
  ASSUME NEW t, RingsOK(t), NEW u, RingsOK(u), NEW mem, NEW next,
         Agree(t, mem), u.ids = t.ids, u.taken = t.taken, u.count = t.count + 1,
         NEW row, u.rows = [t.rows EXCEPT ![t.count] = row], RowRight(row),
         NEW key \in KeyRefs, Settled(key, u.taken, u.count),
         Text(u.ids, u.rows)[key] = row.domain,
         \A n \in Nodes : \/ Paired(next, n, mem[n].key, mem[n].value)
                          \/ Paired(next, n, key, t.count)
  PROVE  Agree(u, next)
<1>1. /\ t.taken \in Nat /\ t.count \in DnsRow /\ DnsRow \subseteq Int /\ t.count \in Int
      /\ DOMAIN t.rows = DnsRow
  BY DEF RingsOK, IdRow, DnsRow
<1>2. /\ u.rows[t.count] = row
      /\ \A j \in DnsRow : j < t.count => u.rows[j] = t.rows[j]
  BY <1>1
<1>3. Names(u, key, t.count)
  BY <1>1, <1>2 DEF Names
<1>4. ASSUME NEW n \in Nodes, ~Hole(next, n) PROVE Names(u, next[n].key, next[n].value)
  <2>1. CASE Paired(next, n, key, t.count)
    BY <1>3, <2>1 DEF Paired
  <2>2. CASE Paired(next, n, mem[n].key, mem[n].value)
    <3>1. ~Hole(mem, n)
      BY <1>4, <2>2 DEF Paired, Hole
    <3>2. Names(t, mem[n].key, mem[n].value)
      BY <3>1 DEF Agree
    <3>3. t.taken <= u.taken /\ t.count <= u.count
      BY <1>1
    <3>4. Names(u, mem[n].key, mem[n].value)
      BY <1>2, <3>2, <3>3, NamesLast
    <3> QED
      BY <2>2, <3>4 DEF Paired
  <2> QED
    BY <2>1, <2>2
<1>5. ASSUME NEW j \in DnsRow, j < u.count PROVE RowRight(u.rows[j])
  <2>1. j < t.count \/ j = t.count
    BY <1>1, <1>5
  <2> QED
    BY <1>2, <2>1 DEF Agree
<1> QED
  BY <1>4, <1>5 DEF Agree

LEMMA NextIs ==
  ASSUME NEW n \in Nat \ {0}, NEW i \in 0 .. n - 1
  PROVE  /\ i + 1 < n => (i + 1) % n = i + 1
         /\ i + 1 = n => (i + 1) % n = 0
OBVIOUS

\* Two steps round a ring that do not end before their start have not gone round.
LEMMA NoWrap ==
  ASSUME NEW c \in 0 .. DnsRows - 1, NEW s \in {c, (c + 1) % DnsRows},
         NEW t \in {s, (s + 1) % DnsRows}, t >= c, DnsRows > 2
  PROVE  /\ s \in 0 .. DnsRows - 1 /\ s >= c
         /\ s # c => c + 1 < DnsRows
         /\ t # s => s + 1 < DnsRows
<1>1. c + 1 < DnsRows \/ c + 1 = DnsRows
  OBVIOUS
<1>2. s # c => c + 1 < DnsRows
  <2> SUFFICES ASSUME s # c, c + 1 = DnsRows PROVE FALSE
    BY <1>1
  <2>1. s = 0
    BY NextIs
  <2>2. t = 0 \/ t = 1
    <3>1. 1 % DnsRows = 1
      BY <2>1, NextIs
    <3> QED
      BY <2>1, <3>1
  <2> QED
    BY <2>2
<1>3. s \in {c, c + 1} /\ s \in 0 .. DnsRows - 1
  BY <1>1, <1>2, NextIs
<1>4. t # s => s + 1 < DnsRows
  <2> SUFFICES ASSUME t # s, s + 1 = DnsRows PROVE FALSE
    BY <1>3
  <2>1. t = 0
    BY <1>3, NextIs
  <2> QED
    BY <1>3, <2>1
<1> QED
  BY <1>2, <1>3, <1>4

RingsOf(s) == [ids |-> idTable, taken |-> idRowCount, rows |-> s.rows, count |-> s.count]

\* Storing one A record of an answer, unless dnsTable wraps.
LEMMA StoreAgrees ==
  ASSUME TypeOK, NEW s, StoreOK(s), NEW i \in IdRow, i < idRowCount,
         NEW data \in Urls, data = idTable[i].url, NEW ttl \in TTLs,
         NEW t \in StoreRecord(s, i, data, ttl), Agree(RingsOf(s), s.node),
         t.count # s.count => s.count + 1 < DnsRows, DnsRows > 2
  PROVE  Agree(RingsOf(t), t.node)
<1> DEFINE u == idTable[i].url
           key == <<"idTable", i>>
           row == [domain |-> u, data |-> data, TTL |-> ToSecond + ttl]
<1>1. CASE t = s
  BY <1>1
<1>2. CASE t # s
  <2>1. PICK r \in InsertHashItem(s.node, s.alloc, Hash[u], key, s.count) :
          t = [rows |-> [s.rows EXCEPT ![s.count] = row], count |-> (s.count + 1) % DnsRows,
               node |-> r.node, alloc |-> r.alloc]
    BY <1>2 DEF StoreRecord
  <2>2. /\ s.node \in Memory(KeyRefs, DnsRow) /\ s.alloc \in SUBSET Addrs
        /\ s.count \in DnsRow /\ key \in KeyRefs
    BY DEF StoreOK, KeyRefs
  <2>3. s.count \in Nat /\ s.count + 1 <= DnsRows
    BY <2>2 DEF DnsRow
  <2>4. t.count = s.count + 1
    <3>1. t.count = (s.count + 1) % DnsRows
      BY <2>1
    <3>2. CASE s.count + 1 = DnsRows
      <4>1. t.count = 0
        BY <3>1, <3>2
      <4> QED
        BY <3>2, <4>1
    <3>3. CASE s.count + 1 < DnsRows
      <4>1. s.count \in 0 .. DnsRows - 1
        BY <2>3, <3>3
      <4>2. (s.count + 1) % DnsRows = s.count + 1
        BY <3>3, <4>1, NextIs
      <4> QED
        BY <3>1, <4>2
    <3> QED
      BY <2>3, <3>2, <3>3
  <2>5. RingsOK(RingsOf(s)) /\ RingsOK(RingsOf(t))
    <3>1. StoreOK(t)
      BY StoreRecordType
    <3> QED
      BY <3>1 DEF RingsOK, RingsOf, StoreOK, TypeOK
  <2>6. ASSUME NEW n \in Nodes
        PROVE  \/ Paired(t.node, n, s.node[n].key, s.node[n].value)
               \/ Paired(t.node, n, key, s.count)
    <3> DEFINE b == Hash[u]
               mem == s.node
               used == s.alloc
               c == s.count
    <3>1. r \in InsertHashItem(mem, used, b, key, c) /\ t.node = r.node
      BY <2>1
    <3>2. mem \in Memory(KeyRefs, DnsRow) /\ used \in SUBSET Addrs /\ c \in DnsRow
          /\ key \in KeyRefs
      BY <2>2
    <3> HIDE DEF b, mem, used, c, key
    <3>3. \/ Paired(r.node, n, mem[n].key, mem[n].value)
          \/ Paired(r.node, n, key, c)
      BY <3>1, <3>2, InsertPairs
    <3> QED
      BY <3>1, <3>3 DEF mem, c
  <2>7. Text(idTable, t.rows)[key] = row.domain
    BY TextIs
  <2>8. RowRight(row)
    BY DEF RowRight
  <2>9. Settled(key, idRowCount, t.count)
    BY DEF Settled
  <2>10. t.rows = [s.rows EXCEPT ![s.count] = row]
    BY <2>1
  <2> DEFINE old == RingsOf(s)
             new == RingsOf(t)
  <2>11. /\ old.ids = idTable /\ old.taken = idRowCount /\ old.rows = s.rows
         /\ old.count = s.count
         /\ new.ids = idTable /\ new.taken = idRowCount /\ new.rows = t.rows
         /\ new.count = t.count
    BY DEF RingsOf
  <2> HIDE DEF old, new, row, key
  <2>12. Agree(new, t.node)
    <3>1. RingsOK(old) /\ RingsOK(new) /\ Agree(old, s.node)
      BY <2>5 DEF old, new
    <3>2. /\ new.ids = old.ids /\ new.taken = old.taken /\ new.count = old.count + 1
          /\ new.rows = [old.rows EXCEPT ![old.count] = row]
          /\ Settled(key, new.taken, new.count) /\ Text(new.ids, new.rows)[key] = row.domain
      BY <2>4, <2>7, <2>9, <2>10, <2>11
    <3>3. \A n \in Nodes : \/ Paired(t.node, n, s.node[n].key, s.node[n].value)
                           \/ Paired(t.node, n, key, old.count)
      BY <2>6, <2>11
    <3> QED
      BY <2>2, <2>8, <3>1, <3>2, <3>3, RowAgrees
  <2> QED
    BY <2>12 DEF new
<1> QED
  BY <1>1, <1>2

LEMMA StoreCounts ==
  ASSUME TypeOK, NEW s, StoreOK(s), NEW i \in IdRow, NEW data \in Urls, NEW ttl \in TTLs,
         NEW t \in StoreRecord(s, i, data, ttl)
  PROVE  /\ StoreOK(t)
         /\ t.count \in {s.count, (s.count + 1) % DnsRows}
BY StoreRecordType DEF StoreRecord

\* All records of an answer: up to the end of the ring none of them wraps it.
LEMMA AnswerAgrees ==
  ASSUME TypeOK, NEW n \in 0 .. 2, NEW i \in IdRow, i < idRowCount,
         NEW data \in Urls, data = idTable[i].url, NEW ttl \in TTLs,
         NEW t \in StoreRecords(n, i, data, ttl), Agree(Rings, node),
         t.count >= dnsRowCount, DnsRows > 2
  PROVE  Agree(RingsOf(t), t.node)
<1> DEFINE s0 == [rows |-> dnsTable, count |-> dnsRowCount, node |-> node, alloc |-> alloc]
           after(S) == UNION {StoreRecord(s, i, data, ttl) : s \in S}
<1>1. StoreOK(s0) /\ Agree(RingsOf(s0), s0.node) /\ s0.count = dnsRowCount
  BY TypeSplit DEF StoreOK, TablesOK, RingsOf, Rings
<1>2. \/ t = s0 \/ t \in StoreRecord(s0, i, data, ttl)
      \/ \E s \in StoreRecord(s0, i, data, ttl) : t \in StoreRecord(s, i, data, ttl)
  <2>1. t \in {s0} \/ t \in after({s0}) \/ t \in after(after({s0}))
    BY DEF StoreRecords
  <2> HIDE DEF s0
  <2> QED
    BY <2>1
<1> HIDE DEF s0
<1>3. dnsRowCount \in 0 .. DnsRows - 1
  BY DEF TypeOK, DnsRow
<1>4. CASE t \in StoreRecord(s0, i, data, ttl)
  <2>1. t.count \in {dnsRowCount, (dnsRowCount + 1) % DnsRows}
    BY <1>1, <1>4, StoreCounts
  <2>2. dnsRowCount + 1 = DnsRows => (dnsRowCount + 1) % DnsRows = 0
    BY <1>3
  <2>3. t.count # dnsRowCount => dnsRowCount + 1 < DnsRows
    BY <1>3, <2>1, <2>2
  <2> QED
    BY <1>1, <1>4, <2>3, StoreAgrees
<1>5. ASSUME NEW s \in StoreRecord(s0, i, data, ttl), t \in StoreRecord(s, i, data, ttl)
      PROVE  Agree(RingsOf(t), t.node)
  <2>1. StoreOK(s) /\ s.count \in {dnsRowCount, (dnsRowCount + 1) % DnsRows}
    BY <1>1, StoreCounts
  <2>2. t.count \in {s.count, (s.count + 1) % DnsRows}
    BY <1>5, <2>1, StoreCounts
  <2>3. /\ s.count # dnsRowCount => dnsRowCount + 1 < DnsRows
        /\ t.count # s.count => s.count + 1 < DnsRows
    BY <1>3, <2>1, <2>2, NoWrap
  <2>8. Agree(RingsOf(s), s.node)
    BY <1>1, <2>3, StoreAgrees
  <2> QED
    BY <1>5, <2>1, <2>3, <2>8, StoreAgrees
<1> QED
  BY <1>1, <1>2, <1>4, <1>5
-----------------------------------------------------------------------------
\* A request takes a row of idTable that neither a node nor a packet names.
LEMMA TakesNext ==
  ASSUME TypeOK, OneLap, NEW c \in Clients, NEW q \in ClientIds, NEW u \in Urls,
         GetNewID(c, q, u)
  PROVE  /\ idRowCount' = idRowCount + 1 /\ idRowCount \in Nat
         /\ \A i \in IdRow : i < idRowCount => idTable'[i] = idTable[i]
         /\ idTable'[idRowCount].url = u
<1>1. idRowCount \in 0 .. IdRows - 1 /\ idRowCount + 1 < IdRows
  BY DEF TypeOK, IdRow, GetNewID
<1>2. idRowCount' = idRowCount + 1
  BY <1>1, NextIs DEF GetNewID
<1> QED
  BY <1>1, <1>2 DEF GetNewID, TypeOK, IdRow

LEMMA RequestAgrees ==
  ASSUME TypeOK, TypeOK', OneLap, NEW c \in Clients, NEW q \in ClientIds, NEW u \in Urls,
         GetNewID(c, q, u), UNCHANGED <<dnsTable, dnsRowCount>>,
         NEW mem, Agree(Rings, mem)
  PROVE  Agree(Rings', mem)
<1> DEFINE t == Rings
           v == Rings'
<1>1. RingsOK(t) /\ RingsOK(v)
  BY DEF Rings, RingsOK, TypeOK
<1>2. /\ t.taken <= v.taken /\ t.count <= v.count /\ t.count = v.count
      /\ \A i \in IdRow : i < t.taken => v.ids[i].url = t.ids[i].url
      /\ \A j \in DnsRow : v.rows[j] = t.rows[j]
  <2>1. dnsRowCount \in Int
    BY DEF TypeOK, DnsRow
  <2> QED
    BY <2>1, TakesNext DEF Rings
<1> HIDE DEF t, v
<1>3. \A n \in Nodes : ~Hole(mem, n) => Names(v, mem[n].key, mem[n].value)
  BY <1>1, <1>2, NamesLast DEF Agree, t
<1>4. \A j \in DnsRow : j < v.count => RowRight(v.rows[j])
  BY <1>2 DEF Agree, t
<1> QED
  BY <1>3, <1>4 DEF Agree, v

LEMMA RequestKeeps ==
  ASSUME TypeOK, OneLap, PacketsKept, NEW c \in Clients, NEW q \in ClientIds,
         NEW u \in Urls, GetNewID(c, q, u), NEW m \in net
  PROVE  m.row < idRowCount' /\ idTable'[m.row].url = m.url
<1>1. m.row \in IdRow /\ m.row < idRowCount /\ idTable[m.row].url = m.url /\ m.row \in Int
  BY DEF TypeOK, Packet, PacketsKept, IdRow
<1> QED
  BY <1>1, TakesNext

\* Removing a node leaves no node with a key and a row that were not together before.
LEMMA RemoveAgrees ==
  ASSUME TypeOK, NEW t, Agree(t, node), NEW n \in Nodes
  PROVE  Agree(t, RemoveHashItemByNode(node, alloc, n).node)
<1> DEFINE mem == RemoveHashItemByNode(node, alloc, n).node
<1>1. node \in Memory(KeyRefs, DnsRow)
  BY TypeSplit DEF TablesOK
<1>2. \A x \in Nodes : Moved(node, mem, n, x)
  BY <1>1, RemovePairs
<1> HIDE DEF mem
<1>3. ASSUME NEW x \in Nodes, ~Hole(mem, x) PROVE Names(t, mem[x].key, mem[x].value)
  <2>1. PICK y \in Nodes : Paired(mem, x, node[y].key, node[y].value)
    BY <1>2, <1>3 DEF Moved
  <2>2. ~Hole(node, y)
    BY <1>3, <2>1 DEF Hole, Paired
  <2> QED
    BY <2>1, <2>2 DEF Agree, Paired
<1> QED
  BY <1>3 DEF Agree, mem

\* The row a lookup ends at is the domain's.
LEMMA ResultIsRight ==
  ASSUME TypeOK, Agree(Rings, node), NEW u \in Urls, ~Endless(node, Hash[u]),
         Result(u) # Null
  PROVE  /\ FindNode(u) \in Nodes /\ ~Hole(node, FindNode(u))
         /\ Text(idTable, dnsTable)[node[FindNode(u)].key] = u
         /\ dnsTable[Result(u)].domain = u
         /\ dnsTable[Result(u)].data \in {u} \cup FileSays(u)
<1> DEFINE n == FindNode(u)
<1>1. node \in Memory(KeyRefs, DnsRow)
  BY TypeSplit DEF TablesOK
<1>2. Hash[u] \in Nodes
  BY DEF Nodes
<1>3. n # Null
  BY DEF Result
<1>4. n \in Nodes /\ ~Hole(node, n) /\ Text(idTable, dnsTable)[node[n].key] = u
  BY <1>1, <1>2, <1>3, FoundHasKey DEF FindNode
<1> HIDE DEF n
<1>5. Names(Rings, node[n].key, node[n].value)
  BY <1>4 DEF Agree
<1>6. /\ node[n].value \in DnsRow /\ node[n].value < dnsRowCount
      /\ dnsTable[node[n].value].domain = u
  BY <1>4, <1>5 DEF Names, Rings
<1>7. RowRight(dnsTable[node[n].value])
  BY <1>6 DEF Agree, Rings
<1>8. Result(u) = node[n].value
  BY <1>3 DEF Result, n
<1> QED
  BY <1>4, <1>6, <1>7, <1>8 DEF RowRight, n
-----------------------------------------------------------------------------
LEMMA AddressInit == Init => AddressInv
<1> SUFFICES ASSUME Init PROVE AddressInv
  OBVIOUS
<1>1. TypeOK
  BY TypeInit
<1>2. \A n \in Nodes : Hole(node, n)
  BY DEF Init, NewHashTable, ClearedNode, Hole
<1>3. \A j \in DnsRow : ~(j < dnsRowCount)
  BY DEF Init, DnsRow
<1>4. Agree(Rings, node)
  BY <1>2, <1>3 DEF Agree, Rings
<1> QED
  BY <1>1, <1>4 DEF AddressInv, PacketsKept, Loading, RightAddress, Init

LEMMA AddressLoad == AddressInv /\ LoadRow /\ TypeOK' => AddressInv'
<1> SUFFICES ASSUME AddressInv, LoadRow, TypeOK' PROVE AddressInv'
  OBVIOUS
<1> DEFINE key == <<"dnsTable", dnsRowCount>>
           row == [domain |-> File[line'].domain, data |-> File[line'].data,
                   TTL |-> StaticTTL]
<1>1. TypeOK /\ line < Len(File) /\ line' = line + 1 /\ dnsRowCount = line /\ net = {}
      /\ dnsRowCount' = dnsRowCount + 1 /\ line' \in DOMAIN File
  BY DEF AddressInv, Loading, LoadRow, TypeOK
<1>2. /\ node \in Memory(KeyRefs, DnsRow) /\ alloc \in SUBSET Addrs
      /\ dnsRowCount \in DnsRow /\ dnsRowCount \in Int /\ key \in KeyRefs
  <2>1. dnsRowCount \in DnsRow
    BY <1>1 DEF TypeOK
  <2>2. dnsRowCount \in Int /\ key \in KeyRefs
    BY <2>1 DEF DnsRow, KeyRefs
  <2>3. node \in Memory(KeyRefs, DnsRow) /\ alloc \in SUBSET Addrs
    BY <1>1, TypeSplit DEF TablesOK
  <2> QED
    BY <2>1, <2>2, <2>3
<1>3. PICK r \in InsertHashItem(node, alloc, Hash[File[line'].domain], key, dnsRowCount) :
        node' = r.node
  BY DEF LoadRow
<1>4. \A n \in Nodes : \/ Paired(node', n, node[n].key, node[n].value)
                       \/ Paired(node', n, key, dnsRowCount)
  <2> HIDE DEF key
  <2> QED
    BY <1>2, <1>3, InsertPairs
<1>5. dnsTable' = [dnsTable EXCEPT ![dnsRowCount] = row] /\ idTable' = idTable
      /\ idRowCount' = idRowCount
  BY DEF LoadRow
<1>6. RowRight(row)
  BY <1>1 DEF RowRight, FileSays
<1>7. Text(idTable', dnsTable')[key] = row.domain
  <2>1. dnsTable'[dnsRowCount] = row
    BY <1>1, <1>2, <1>5 DEF TypeOK
  <2> HIDE DEF row
  <2> QED
    BY <1>2, <2>1, TextIs
<1>8. Settled(key, idRowCount', dnsRowCount')
  BY <1>1, <1>2 DEF Settled
<1> DEFINE t == Rings
           v == Rings'
<1>9. RingsOK(t) /\ RingsOK(v) /\ Agree(t, node)
  BY <1>1 DEF Rings, RingsOK, TypeOK, AddressInv
<1>10. /\ v.ids = t.ids /\ v.taken = t.taken /\ v.count = t.count + 1
       /\ v.rows = [t.rows EXCEPT ![t.count] = row] /\ t.count = dnsRowCount
       /\ v.ids = idTable' /\ v.rows = dnsTable' /\ v.taken = idRowCount'
       /\ v.count = dnsRowCount'
  BY <1>1, <1>5 DEF Rings
<1> HIDE DEF t, v, key, row
<1>11. Agree(v, node')
  <2>1. \A n \in Nodes : \/ Paired(node', n, node[n].key, node[n].value)
                         \/ Paired(node', n, key, t.count)
    BY <1>4, <1>10
  <2>2. Settled(key, v.taken, v.count) /\ Text(v.ids, v.rows)[key] = row.domain
    BY <1>7, <1>8, <1>10
  <2> QED
    BY <1>2, <1>6, <1>9, <1>10, <2>1, <2>2, RowAgrees
<1>12. net' = {} /\ reply' = reply /\ dnsRowCount' = line'
  BY <1>1 DEF LoadRow
<1> QED
  BY <1>11, <1>12 DEF AddressInv, PacketsKept, Loading, RightAddress, v

\* A request that the relay answers itself.
LEMMA AddressAnswered ==
  ASSUME AddressInv, OneLap, TypeOK', NEW c \in Clients, NEW q \in ClientIds,
         NEW u \in Urls, NEW data \in {u} \cup FileSays(u), Serving,
         GetNewID(c, q, u), reply' = Answer(c, q, u, data),
         UNCHANGED <<dnsTable, dnsRowCount, node, line, net>>
  PROVE  AddressInv'
<1>1. TypeOK /\ PacketsKept /\ Agree(Rings, node)
  BY DEF AddressInv
<1>2. Agree(Rings', node')
  BY <1>1, RequestAgrees
<1>3. PacketsKept'
  BY <1>1, RequestKeeps DEF PacketsKept
<1>4. Loading'
  BY DEF Serving, Loading
<1>5. RightAddress'
  <2>1. FileSays(u)' = FileSays(u)
    OBVIOUS
  <2> QED
    BY DEF RightAddress, Answer
<1> QED
  BY <1>2, <1>3, <1>4, <1>5 DEF AddressInv

LEMMA AddressForward ==
  ASSUME AddressInv, OneLap, TypeOK', NEW c \in Clients, NEW q \in ClientIds,
         NEW u \in Urls, Forward(c, q, u)
  PROVE  AddressInv'
<1>1. TypeOK /\ PacketsKept /\ Agree(Rings, node)
  BY DEF AddressInv
<1>2. /\ GetNewID(c, q, u) /\ reply' = Null /\ UNCHANGED <<dnsTable, dnsRowCount, line>>
      /\ Serving
      /\ net' \subseteq net \cup {[row |-> idRowCount, url |-> u, client |-> c, id |-> q,
                                   sent |-> now]}
  BY DEF Forward, RequestRead
<1>3. Agree(Rings, node')
  <2>1. CASE Result(u) = Null
    BY <1>1, <2>1 DEF Forward
  <2>2. CASE Result(u) # Null
    <3>1. FindNode(u) \in Nodes
      BY <1>1, <2>2, ResultIsRight DEF Forward
    <3>2. node' = RemoveHashItemByNode(node, alloc, FindNode(u)).node
      BY <2>2 DEF Forward
    <3> QED
      BY <1>1, <3>1, <3>2, RemoveAgrees
  <2> QED
    BY <2>1, <2>2
<1>4. Agree(Rings', node')
  BY <1>1, <1>2, <1>3, RequestAgrees
<1>5. PacketsKept'
  <2>1. ASSUME NEW m \in net' PROVE m.row < idRowCount' /\ idTable'[m.row].url = m.url
    <3>1. CASE m \in net
      BY <1>1, <1>2, <3>1, RequestKeeps
    <3>2. CASE m = [row |-> idRowCount, url |-> u, client |-> c, id |-> q, sent |-> now]
      <4>1. m.row = idRowCount /\ m.url = u
        BY <3>2
      <4> QED
        BY <1>1, <1>2, <4>1, TakesNext
    <3> QED
      BY <1>2, <3>1, <3>2
  <2> QED
    BY <2>1 DEF PacketsKept
<1>6. Loading' /\ RightAddress'
  BY <1>2 DEF Loading, RightAddress, Serving
<1> QED
  BY <1>4, <1>5, <1>6 DEF AddressInv

LEMMA AddressPass ==
  ASSUME AddressInv, OneLap, DnsRows > 2, TypeOK', NEW m \in net, NEW n \in 0 .. 2,
         NEW ttl \in TTLs, PassAnswer(m, n, ttl)
  PROVE  AddressInv'
<1>1. /\ TypeOK /\ Agree(Rings, node) /\ m.row \in IdRow /\ m.row < idRowCount
      /\ m.url \in Urls /\ m.url = idTable[m.row].url
  BY DEF AddressInv, PacketsKept, TypeOK, Packet
<1>2. PICK s \in StoreRecords(n, m.row, m.url, ttl) :
        /\ dnsTable' = s.rows /\ dnsRowCount' = s.count /\ node' = s.node
        /\ s.count >= dnsRowCount
  BY DEF PassAnswer
<1>3. Agree(RingsOf(s), s.node)
  BY <1>1, <1>2, AnswerAgrees
<1>4. net' \subseteq net /\ UNCHANGED <<idTable, idRowCount, line>>
  BY DEF PassAnswer, Received
<1>5. RingsOf(s) = Rings'
  BY <1>2, <1>4 DEF RingsOf, Rings
<1>6. PacketsKept'
  BY <1>4 DEF AddressInv, PacketsKept
<1>7. Loading'
  BY <1>4 DEF AddressInv, Loading
<1>8. RightAddress'
  BY DEF PassAnswer, RightAddress
<1> QED
  BY <1>2, <1>3, <1>5, <1>6, <1>7, <1>8 DEF AddressInv

LEMMA AddressNext ==
  ASSUME OneLap, DnsRows > 2
  PROVE  AddressInv /\ [Next]_vars => AddressInv'
<1> SUFFICES ASSUME AddressInv, [Next]_vars PROVE AddressInv'
  OBVIOUS
<1>t. TypeOK'
  BY TypeNext DEF AddressInv
<1>1. CASE LoadRow
  BY <1>t, <1>1, AddressLoad
<1>2. ASSUME NEW c \in Clients, NEW q \in ClientIds, NEW u \in Urls, PtrRequest(c, q, u)
      PROVE  AddressInv'
  BY <1>t, <1>2, AddressAnswered DEF PtrRequest, RequestRead
<1>3. ASSUME NEW c \in Clients, NEW q \in ClientIds, NEW u \in Urls, CacheHit(c, q, u)
      PROVE  AddressInv'
  <2>1. dnsTable[Result(u)].data \in {u} \cup FileSays(u)
    BY <1>3, ResultIsRight DEF CacheHit, AddressInv
  <2> QED
    BY <1>t, <1>3, <2>1, AddressAnswered DEF CacheHit, RequestRead
<1>4. ASSUME NEW c \in Clients, NEW q \in ClientIds, NEW u \in Urls, Forward(c, q, u)
      PROVE  AddressInv'
  BY <1>t, <1>4, AddressForward
<1>5. ASSUME reply' \in {Null, reply}, net' \subseteq net, UNCHANGED <<tables, line>>
      PROVE  AddressInv'
  <2>1. Agree(Rings, node)'
    BY <1>5 DEF AddressInv, Rings, tables
  <2>2. PacketsKept' /\ Loading' /\ RightAddress'
    BY <1>5 DEF AddressInv, PacketsKept, Loading, RightAddress, tables
  <2> QED
    BY <1>t, <2>1, <2>2 DEF AddressInv
<1>6. ASSUME NEW m \in net, DropLate(m) PROVE AddressInv'
  BY <1>5, <1>6 DEF DropLate, Received
<1>7. ASSUME NEW m \in net, NEW n \in 0 .. 2, NEW ttl \in TTLs, PassAnswer(m, n, ttl)
      PROVE  AddressInv'
  BY <1>t, <1>7, AddressPass
<1>8. ASSUME NEW socket \in open, ReadError(socket) PROVE AddressInv'
  BY <1>5, <1>8 DEF ReadError
<1>9. CASE Tick
  BY <1>5, <1>9 DEF Tick
<1>10. CASE UNCHANGED vars
  BY <1>5, <1>10 DEF vars
<1> QED
  BY <1>1, <1>2, <1>3, <1>4, <1>6, <1>7, <1>8, <1>9, <1>10 DEF Next

LEMMA Addresses ==
  ASSUME OneLap, DnsRows > 2
  PROVE  Spec => []AddressInv
BY AddressInit, AddressNext, PTL DEF Spec

\* Up to the end of the first lap of the rings, whatever chains and network do, the
\* address a client gets belongs to the domain it asked for (onReadRequest,
\* onReadResponse).
THEOREM AddressesRight ==
  ASSUME OneLap, DnsRows > 2
  PROVE  Spec => []RightAddress
<1>1. AddressInv => RightAddress
  BY DEF AddressInv
<1> QED
  BY <1>1, Addresses, PTL

\* In the same lap every node's key reads as the domain of the row the node points
\* to, of nodes that no chain leads to as well (InsertHashItem, RemoveHashItemByNode).
THEOREM KeysReadAsRows ==
  ASSUME OneLap, DnsRows > 2
  PROVE  Spec => [](\A n \in Nodes : ~Hole(node, n) =>
                      Text(idTable, dnsTable)[node[n].key] = dnsTable[node[n].value].domain)
<1>1. AddressInv => \A n \in Nodes : ~Hole(node, n) =>
                      Text(idTable, dnsTable)[node[n].key] = dnsTable[node[n].value].domain
  BY DEF AddressInv, Agree, Names, Rings
<1> QED
  BY <1>1, Addresses, PTL
-----------------------------------------------------------------------------
(***************************************************************************)
(* Why a domain of the file is not resolved elsewhere.  A removal may cut  *)
(* any node out of a chain but the head, so the file is only sure to be    *)
(* obeyed for a domain that is the first of its bucket in the file: its    *)
(* node is the head, a lookup finds it there, its row never expires, and   *)
(* so it is never removed.  A domain that is asked for as an address (PTR) *)
(* is not looked up.                                                       *)
(***************************************************************************)
FirstOfBucket(i) == \A j \in 1 .. i - 1 : Hash[File[j].domain] # Hash[File[i].domain]

FirstLines == {i \in 1 .. Len(File) : FirstOfBucket(i)}

\* Line i of the file is in the head of its bucket.
AtHead(rows, mem, i) ==
    /\ Paired(mem, Hash[File[i].domain], <<"dnsTable", i - 1>>, i - 1)
    /\ rows[i - 1] = [domain |-> File[i].domain, data |-> File[i].data, TTL |-> StaticTTL]

\* No line that was read belongs to the bucket.
NoLineYet(b, lines) == \A j \in 1 .. lines : Hash[File[j].domain] # b

FileKept ==
    /\ line <= dnsRowCount
    /\ \A i \in FirstLines : i <= line => AtHead(dnsTable, node, i)
    /\ line < Len(File) => \A b \in Buckets : NoLineYet(b, line) => Hole(node, b)
    /\ \A m \in net, i \in FirstLines : m.url # File[i].domain

FirstObeyed ==
    reply # Null => \A i \in FirstLines : File[i].domain = reply.url =>
                      reply.url \in PtrUrls \/ reply.data \in FileSays(reply.url)

FileInv == AddressInv /\ FileKept /\ FirstObeyed

LEMMA LineFields ==
  ASSUME NEW i \in FirstLines
  PROVE  /\ i \in 1 .. Len(File) /\ i \in Int /\ 1 <= i /\ i <= Len(File)
         /\ i - 1 \in DnsRow /\ i - 1 # Null
         /\ File[i].domain \in Urls /\ Hash[File[i].domain] \in Buckets
         /\ <<"dnsTable", i - 1>> \in KeyRefs /\ <<"dnsTable", i - 1>> # Null
         /\ File[i].data \in FileSays(File[i].domain)
<1>1. i \in 1 .. Len(File) /\ Len(File) < DnsRows /\ Len(File) \in Nat
  BY DEF FirstLines
<1>2. i - 1 \in DnsRow
  BY <1>1 DEF DnsRow
<1>3. File[i].domain \in Urls
  BY <1>1, FileType
<1>4. <<"dnsTable", i - 1>> \in KeyRefs
  BY <1>2 DEF KeyRefs
<1>5. DOMAIN File = 1 .. Len(File)
  OBVIOUS
<1>6. File[i].data \in FileSays(File[i].domain)
  BY <1>1, <1>5 DEF FileSays
<1> QED
  BY <1>1, <1>2, <1>3, <1>4, <1>6, NullAssumption

\* A first line in the head of its bucket is found there, and never expires.
LEMMA HeadHeld ==
  ASSUME TypeOK, NEW i \in FirstLines, AtHead(dnsTable, node, i)
  PROVE  LET u == File[i].domain
         IN  /\ ~Hole(node, Hash[u]) /\ node[Hash[u]].value = i - 1
             /\ FindNode(u) = Hash[u] /\ Result(u) = i - 1 /\ Result(u) # Null
             /\ dnsTable[i - 1].data = File[i].data
             /\ Fresh(i - 1)
<1> DEFINE u == File[i].domain
           b == Hash[u]
<1>1. /\ node \in Memory(KeyRefs, DnsRow) /\ b \in Buckets /\ i - 1 \in DnsRow
      /\ <<"dnsTable", i - 1>> # Null
  BY LineFields, TypeSplit DEF TablesOK
<1>2. node[b].key = <<"dnsTable", i - 1>> /\ node[b].value = i - 1
      /\ dnsTable[i - 1] = [domain |-> u, data |-> File[i].data, TTL |-> StaticTTL]
  BY DEF AtHead, Paired
<1>3. i - 1 # Null
  BY LineFields
<1>4. ~Hole(node, b)
  BY <1>1, <1>2, <1>3 DEF Hole
<1>5. Text(idTable, dnsTable)[node[b].key] = u
  <2>1. Text(idTable, dnsTable)[<<"dnsTable", i - 1>>] = dnsTable[i - 1].domain
    BY <1>1, TextIs
  <2> QED
    BY <1>2, <2>1
<1>6. FindNode(u) = b
  BY <1>1, <1>4, <1>5, HeadFound DEF FindNode
<1>7. Result(u) = i - 1
  <2>1. b # Null
    BY <1>1, MemoryAssumption
  <2> QED
    BY <1>2, <1>6, <2>1 DEF Result
<1>8. Fresh(i - 1)
  <2>1. ToSecond \in 0 .. Month - 1
    BY DEF ToSecond, TypeOK
  <2> QED
    BY <1>2, <2>1 DEF Fresh, StaticTTL
<1> QED
  BY <1>2, <1>3, <1>4, <1>6, <1>7, <1>8

\* An insertion leaves a head alone that is taken.
LEMMA InsertKeepsHead ==
  ASSUME NEW mem \in Memory(KeyRefs, DnsRow), NEW used \in SUBSET Addrs, NEW b,
         NEW key \in KeyRefs, NEW value \in DnsRow,
         NEW r \in InsertHashItem(mem, used, b, key, value), NEW h \in Buckets,
         ~Hole(mem, h) \/ h # b
  PROVE  Paired(r.node, h, mem[h].key, mem[h].value)
<1>1. h \in Nodes /\ h \notin Addrs
  BY MemoryAssumption DEF Nodes
<1>2. \/ Paired(r.node, h, mem[h].key, mem[h].value)
      \/ (Paired(r.node, h, key, value) /\ (h \in Addrs \/ (h = b /\ Hole(mem, b))))
  BY <1>1, InsertPairs
<1> QED
  BY <1>1, <1>2

LEMMA StoreKeepsHead ==
  ASSUME TypeOK, NEW s, StoreOK(s), NEW k \in IdRow, NEW data \in Urls, NEW ttl \in TTLs,
         NEW t \in StoreRecord(s, k, data, ttl), NEW i \in FirstLines, i <= s.count,
         AtHead(s.rows, s.node, i)
  PROVE  AtHead(t.rows, t.node, i)
<1> DEFINE u == idTable[k].url
           key == <<"idTable", k>>
           row == [domain |-> u, data |-> data, TTL |-> ToSecond + ttl]
           h == Hash[File[i].domain]
<1>1. CASE t = s
  BY <1>1
<1>2. CASE t # s
  <2>1. PICK r \in InsertHashItem(s.node, s.alloc, Hash[u], key, s.count) :
          t = [rows |-> [s.rows EXCEPT ![s.count] = row], count |-> (s.count + 1) % DnsRows,
               node |-> r.node, alloc |-> r.alloc]
    BY <1>2 DEF StoreRecord
  <2>2. /\ s.node \in Memory(KeyRefs, DnsRow) /\ s.alloc \in SUBSET Addrs
        /\ s.count \in DnsRow /\ key \in KeyRefs /\ DOMAIN s.rows = DnsRow
    BY DEF StoreOK, KeyRefs
  <2>3. /\ h \in Buckets /\ i - 1 \in DnsRow /\ i - 1 # Null
        /\ <<"dnsTable", i - 1>> # Null /\ i \in Int
    BY LineFields
  <2>4. ~Hole(s.node, h)
    BY <2>3 DEF AtHead, Paired, Hole
  <2>5. Paired(t.node, h, s.node[h].key, s.node[h].value)
    <3> DEFINE b == Hash[u]
               mem == s.node
               used == s.alloc
               c == s.count
    <3>1. r \in InsertHashItem(mem, used, b, key, c) /\ t.node = r.node
      BY <2>1
    <3>2. mem \in Memory(KeyRefs, DnsRow) /\ used \in SUBSET Addrs /\ c \in DnsRow
          /\ key \in KeyRefs /\ h \in Buckets /\ ~Hole(mem, h)
      BY <2>2, <2>3, <2>4
    <3> HIDE DEF b, mem, used, c, key, h
    <3>3. Paired(r.node, h, mem[h].key, mem[h].value)
      BY <3>1, <3>2, InsertKeepsHead
    <3> QED
      BY <3>1, <3>3 DEF mem
  <2>6. t.rows[i - 1] = s.rows[i - 1]
    <3>1. i - 1 # s.count
      BY <2>2, <2>3 DEF DnsRow
    <3>2. t.rows = [s.rows EXCEPT ![s.count] = row]
      BY <2>1
    <3> HIDE DEF row
    <3> QED
      BY <2>2, <2>3, <3>1, <3>2
  <2> HIDE DEF h
  <2> QED
    BY <2>5, <2>6 DEF AtHead, Paired, h
<1> QED
  BY <1>1, <1>2

LEMMA AnswerKeepsHead ==
  ASSUME TypeOK, NEW n \in 0 .. 2, NEW k \in IdRow, NEW data \in Urls, NEW ttl \in TTLs,
         NEW t \in StoreRecords(n, k, data, ttl), t.count >= dnsRowCount, DnsRows > 2,
         NEW i \in FirstLines, i <= dnsRowCount, AtHead(dnsTable, node, i)
  PROVE  AtHead(t.rows, t.node, i)
<1> DEFINE s0 == [rows |-> dnsTable, count |-> dnsRowCount, node |-> node, alloc |-> alloc]
           after(S) == UNION {StoreRecord(s, k, data, ttl) : s \in S}
<1>1. StoreOK(s0) /\ s0.count = dnsRowCount /\ AtHead(s0.rows, s0.node, i)
  BY TypeSplit DEF StoreOK, TablesOK
<1>2. \/ t = s0 \/ t \in StoreRecord(s0, k, data, ttl)
      \/ \E s \in StoreRecord(s0, k, data, ttl) : t \in StoreRecord(s, k, data, ttl)
  <2>1. t \in {s0} \/ t \in after({s0}) \/ t \in after(after({s0}))
    BY DEF StoreRecords
  <2> HIDE DEF s0
  <2> QED
    BY <2>1
<1> HIDE DEF s0
<1>3. dnsRowCount \in 0 .. DnsRows - 1 /\ i \in Int
  <2>1. dnsRowCount \in 0 .. DnsRows - 1
    BY DEF TypeOK, DnsRow
  <2> QED
    BY <2>1, LineFields
<1>4. \A s \in StoreRecord(s0, k, data, ttl) : AtHead(s.rows, s.node, i)
  BY <1>1, StoreKeepsHead
<1>5. ASSUME NEW s \in StoreRecord(s0, k, data, ttl), t \in StoreRecord(s, k, data, ttl)
      PROVE  AtHead(t.rows, t.node, i)
  <2>1. StoreOK(s) /\ s.count \in {dnsRowCount, (dnsRowCount + 1) % DnsRows}
    BY <1>1, StoreCounts
  <2>2. t.count \in {s.count, (s.count + 1) % DnsRows}
    BY <1>5, <2>1, StoreCounts
  <2>3. s.count >= dnsRowCount /\ s.count \in 0 .. DnsRows - 1
    BY <1>3, <2>1, <2>2, NoWrap
  <2>4. i <= s.count
    BY <1>3, <2>3
  <2> QED
    BY <1>4, <1>5, <2>1, <2>4, StoreKeepsHead
<1> QED
  BY <1>1, <1>2, <1>4, <1>5
-----------------------------------------------------------------------------
LEMMA FileInit == Init => FileInv
<1> SUFFICES ASSUME Init PROVE FileInv
  OBVIOUS
<1>1. AddressInv
  BY AddressInit
<1>2. \A n \in Buckets : Hole(node, n)
  BY DEF Init, NewHashTable, ClearedNode, Hole, Nodes
<1>3. line = 0 /\ dnsRowCount = 0 /\ net = {} /\ reply = Null
  BY DEF Init
<1>4. ASSUME NEW i \in FirstLines PROVE ~(i <= line)
  <2>1. i \in Int /\ 1 <= i
    BY LineFields
  <2> QED
    BY <1>3, <2>1
<1> QED
  BY <1>1, <1>2, <1>3, <1>4 DEF FileInv, FileKept, FirstObeyed

LEMMA FileLoad ==
  ASSUME FileInv, LoadRow, AddressInv'
  PROVE  FileInv'
<1> DEFINE key == <<"dnsTable", dnsRowCount>>
           row == [domain |-> File[line'].domain, data |-> File[line'].data,
                   TTL |-> StaticTTL]
           b == Hash[File[line'].domain]
<1>1. /\ TypeOK /\ line < Len(File) /\ line' = line + 1 /\ dnsRowCount = line /\ net = {}
      /\ net' = {} /\ reply' = reply /\ dnsRowCount' = line' /\ line \in Nat
      /\ line' \in 1 .. Len(File) /\ dnsTable' = [dnsTable EXCEPT ![dnsRowCount] = row]
  BY DEF FileInv, AddressInv, Loading, LoadRow, TypeOK
<1>2. /\ node \in Memory(KeyRefs, DnsRow) /\ alloc \in SUBSET Addrs
      /\ dnsRowCount \in DnsRow /\ key \in KeyRefs
  <2>1. dnsRowCount \in DnsRow
    BY <1>1 DEF TypeOK
  <2>2. node \in Memory(KeyRefs, DnsRow) /\ alloc \in SUBSET Addrs
    BY <1>1, TypeSplit DEF TablesOK
  <2> QED
    BY <2>1, <2>2 DEF KeyRefs
<1>3. PICK r \in InsertHashItem(node, alloc, b, key, dnsRowCount) : node' = r.node
  BY DEF LoadRow
<1>4. DOMAIN dnsTable = DnsRow
  BY <1>1 DEF TypeOK
<1>5. ASSUME NEW h \in Buckets, ~Hole(node, h) \/ h # b
      PROVE  Paired(node', h, node[h].key, node[h].value)
  <2> HIDE DEF b, key
  <2> QED
    BY <1>2, <1>3, <1>5, InsertKeepsHead
<1>6. ASSUME NEW i \in FirstLines, i <= line' PROVE AtHead(dnsTable', node', i)
  <2> DEFINE h == Hash[File[i].domain]
  <2>1. /\ i \in 1 .. Len(File) /\ i \in Int /\ i - 1 \in DnsRow /\ h \in Buckets
        /\ i - 1 # Null /\ <<"dnsTable", i - 1>> # Null
    BY LineFields
  <2>2. CASE i <= line
    <3>1. AtHead(dnsTable, node, i)
      BY <2>2 DEF FileInv, FileKept
    <3>2. ~Hole(node, h)
      BY <2>1, <3>1 DEF AtHead, Paired, Hole
    <3>3. Paired(node', h, node[h].key, node[h].value)
      BY <1>5, <2>1, <3>2
    <3>4. dnsTable'[i - 1] = dnsTable[i - 1]
      <4>1. i - 1 # dnsRowCount
        BY <1>1, <2>1, <2>2
      <4> HIDE DEF row
      <4> QED
        BY <1>1, <1>4, <2>1, <4>1
    <3> HIDE DEF h
    <3> QED
      BY <3>1, <3>3, <3>4 DEF AtHead, Paired, h
  <2>3. CASE i = line'
    <3>1. h = b /\ i - 1 = dnsRowCount /\ row = [domain |-> File[i].domain,
                                                 data |-> File[i].data, TTL |-> StaticTTL]
      BY <1>1, <2>3
    <3>2. NoLineYet(h, line)
      BY <1>1, <2>3 DEF FirstLines, FirstOfBucket, NoLineYet
    <3>3. Hole(node, h)
      BY <1>1, <2>1, <3>2 DEF FileInv, FileKept
    <3>4. node' = [node EXCEPT ![h] = [key |-> key, value |-> dnsRowCount,
                                       prev |-> Null, next |-> Null]]
      BY <1>3, <3>1, <3>3 DEF InsertHashItem
    <3>5. h \in DOMAIN node
      BY <1>2, <2>1 DEF Memory, Nodes
    <3>6. Paired(node', h, <<"dnsTable", i - 1>>, i - 1)
      <4> HIDE DEF h
      <4> QED
        BY <3>1, <3>4, <3>5 DEF Paired
    <3>7. dnsTable'[i - 1] = row
      <4> HIDE DEF row
      <4> QED
        BY <1>1, <1>2, <1>4, <3>1
    <3> HIDE DEF row
    <3> QED
      BY <3>1, <3>6, <3>7 DEF AtHead
  <2> QED
    BY <1>1, <1>6, <2>1, <2>2, <2>3
<1>7. ASSUME NEW h \in Buckets, NoLineYet(h, line') PROVE Hole(node', h)
  <2>1. NoLineYet(h, line) /\ h # b
    BY <1>1, <1>7 DEF NoLineYet
  <2>2. Hole(node, h)
    BY <1>1, <2>1 DEF FileInv, FileKept
  <2>3. Paired(node', h, node[h].key, node[h].value)
    BY <1>5, <2>1
  <2> QED
    BY <2>2, <2>3 DEF Hole, Paired
<1>8. FileKept'
  <2>1. line' <= dnsRowCount'
    BY <1>1
  <2> HIDE DEF key, row, b
  <2> QED
    BY <1>1, <1>6, <1>7, <2>1 DEF FileKept
<1>9. FirstObeyed'
  BY <1>1 DEF FileInv, FirstObeyed
<1> QED
  BY <1>8, <1>9 DEF FileInv

\* A request keeps the heads as long as it removes no head of a first line.
LEMMA FileServed ==
  ASSUME FileInv, Serving, AddressInv', UNCHANGED <<dnsTable, dnsRowCount, line>>,
         \A i \in FirstLines : Paired(node', Hash[File[i].domain],
                                      node[Hash[File[i].domain]].key,
                                      node[Hash[File[i].domain]].value),
         \A m \in net', i \in FirstLines : m.url # File[i].domain,
         FirstObeyed'
  PROVE  FileInv'
<1>1. \A i \in FirstLines : i <= line' => AtHead(dnsTable', node', i)
  BY DEF FileInv, FileKept, AtHead, Paired
<1>2. ~(line' < Len(File))
  BY DEF Serving
<1>3. line' <= dnsRowCount'
  BY DEF FileInv, FileKept
<1> QED
  BY <1>1, <1>2, <1>3 DEF FileInv, FileKept

\* While the relay serves, every first line is held by its head.
LEMMA FileHeld ==
  ASSUME FileInv, Serving, NEW i \in FirstLines
  PROVE  TypeOK /\ AtHead(dnsTable, node, i)
<1>1. i <= line /\ TypeOK
  <2>1. i <= Len(File)
    BY LineFields
  <2> QED
    BY <2>1 DEF Serving, FileInv, AddressInv
<1> QED
  BY <1>1 DEF FileInv, FileKept

LEMMA FileForward ==
  ASSUME FileInv, NEW c \in Clients, NEW q \in ClientIds, NEW u \in Urls,
         Forward(c, q, u), AddressInv'
  PROVE  FileInv'
<1>1. /\ Serving /\ reply' = Null /\ UNCHANGED <<dnsTable, dnsRowCount, line>>
      /\ net' \subseteq net \cup {[row |-> idRowCount, url |-> u, client |-> c, id |-> q,
                                   sent |-> now]}
  BY DEF Forward, RequestRead
<1>2. TypeOK /\ Agree(Rings, node) /\ node \in Memory(KeyRefs, DnsRow)
  BY TypeSplit DEF FileInv, AddressInv, TablesOK
<1>3. \A i \in FirstLines : u # File[i].domain
  <2> SUFFICES ASSUME NEW i \in FirstLines, u = File[i].domain PROVE FALSE
    OBVIOUS
  <2>1. Result(u) = i - 1 /\ Result(u) # Null /\ Fresh(i - 1)
    BY <1>1, FileHeld, HeadHeld
  <2> QED
    BY <2>1 DEF Forward
<1>4. ASSUME NEW i \in FirstLines
      PROVE  Paired(node', Hash[File[i].domain], node[Hash[File[i].domain]].key,
                    node[Hash[File[i].domain]].value)
  <2> DEFINE h == Hash[File[i].domain]
  <2>1. CASE Result(u) = Null
    BY <2>1 DEF Forward, Paired
  <2>2. CASE Result(u) # Null
    <3> DEFINE n == FindNode(u)
    <3>1. n \in Nodes /\ ~Fresh(Result(u))
          /\ node' = RemoveHashItemByNode(node, alloc, n).node
      BY <1>2, <2>2, ResultIsRight DEF Forward
    <3>2. h \in Nodes /\ node[h].value = i - 1 /\ Fresh(i - 1)
      BY <1>1, FileHeld, HeadHeld, LineFields DEF Nodes
    <3>3. Result(u) = node[n].value
      BY <2>2 DEF Result
    <3>4. n # h
      BY <3>1, <3>2, <3>3
    <3>5. Moved(node, node', n, h)
      BY <1>2, <3>1, <3>2, RemovePairs
    <3> QED
      BY <3>4, <3>5 DEF Moved
  <2> QED
    BY <2>1, <2>2
<1>5. \A m \in net', i \in FirstLines : m.url # File[i].domain
  <2>1. \A m \in net, i \in FirstLines : m.url # File[i].domain
    BY DEF FileInv, FileKept
  <2> QED
    BY <1>1, <1>3, <2>1
<1>6. FirstObeyed'
  BY <1>1 DEF FirstObeyed
<1> QED
  BY <1>1, <1>4, <1>5, <1>6, FileServed

LEMMA FileAnswered ==
  ASSUME FileInv, NEW c \in Clients, NEW q \in ClientIds, NEW u \in Urls,
         PtrRequest(c, q, u) \/ CacheHit(c, q, u), AddressInv'
  PROVE  FileInv'
<1>1. /\ Serving /\ UNCHANGED <<dnsTable, dnsRowCount, line, node, net>>
  BY DEF PtrRequest, CacheHit, RequestRead
<1>2. FirstObeyed'
  <2>1. CASE PtrRequest(c, q, u)
    BY <2>1 DEF PtrRequest, Answer, FirstObeyed
  <2>2. CASE CacheHit(c, q, u)
    <3>1. ASSUME NEW i \in FirstLines, File[i].domain = u
          PROVE  dnsTable[Result(u)].data \in FileSays(u)
      <4>1. Result(u) = i - 1 /\ dnsTable[i - 1].data = File[i].data
        BY <1>1, <3>1, FileHeld, HeadHeld
      <4> QED
        BY <3>1, <4>1, LineFields
    <3>2. reply' = Answer(c, q, u, dnsTable[Result(u)].data)
      BY <2>2 DEF CacheHit
    <3>3. reply'.url = u /\ reply'.data = dnsTable[Result(u)].data
      BY <3>2 DEF Answer
    <3> QED
      BY <3>1, <3>3 DEF FirstObeyed, FileSays
  <2> QED
    BY <2>1, <2>2
<1>3. \A m \in net', i \in FirstLines : m.url # File[i].domain
  BY <1>1 DEF FileInv, FileKept
<1>4. \A i \in FirstLines : Paired(node', Hash[File[i].domain],
                                   node[Hash[File[i].domain]].key,
                                   node[Hash[File[i].domain]].value)
  BY <1>1 DEF Paired
<1> QED
  BY <1>1, <1>2, <1>3, <1>4, FileServed

LEMMA FilePass ==
  ASSUME FileInv, OneLap, DnsRows > 2, NEW m \in net, NEW n \in 0 .. 2, NEW ttl \in TTLs,
         PassAnswer(m, n, ttl), AddressInv'
  PROVE  FileInv'
<1>1. /\ TypeOK /\ m.row \in IdRow /\ m.url \in Urls /\ line \in Nat /\ dnsRowCount \in Nat
      /\ Serving
  <2>1. TypeOK /\ ~(line < Len(File))
    BY DEF FileInv, AddressInv, Loading
  <2>2. line \in 0 .. Len(File) /\ Len(File) \in Nat
    BY <2>1 DEF TypeOK
  <2>3. Serving
    BY <2>1, <2>2 DEF Serving
  <2>4. m.row \in IdRow /\ m.url \in Urls
    BY <2>1 DEF TypeOK, Packet
  <2>5. dnsRowCount \in Nat
    BY <2>1 DEF TypeOK, DnsRow
  <2> QED
    BY <2>1, <2>2, <2>3, <2>4, <2>5
<1>2. PICK s \in StoreRecords(n, m.row, m.url, ttl) :
        /\ dnsTable' = s.rows /\ dnsRowCount' = s.count /\ node' = s.node
        /\ s.count >= dnsRowCount
  BY DEF PassAnswer
<1>3. net' \subseteq net /\ line' = line
  BY DEF PassAnswer, Received
<1>4. ASSUME NEW i \in FirstLines PROVE AtHead(dnsTable', node', i)
  <2>1. i <= dnsRowCount
    <3>1. i \in Int /\ i <= Len(File)
      BY LineFields
    <3>2. Len(File) <= dnsRowCount
      BY <1>1 DEF Serving, FileInv, FileKept
    <3> QED
      BY <1>1, <3>1, <3>2 DEF Serving
  <2> QED
    BY <1>1, <1>2, <2>1, FileHeld, AnswerKeepsHead
<1>5. line' <= dnsRowCount'
  <2>1. s.count \in Int
    BY <1>1, <1>2, StoreRecordsType DEF StoreOK, DnsRow
  <2> QED
    BY <1>1, <1>2, <1>3, <2>1 DEF FileInv, FileKept
<1>6. FileKept'
  BY <1>1, <1>3, <1>4, <1>5 DEF FileInv, FileKept, Serving
<1>7. FirstObeyed'
  <2>1. \A i \in FirstLines : m.url # File[i].domain
    BY DEF FileInv, FileKept
  <2>2. reply' # Null => reply'.url = m.url
    BY DEF PassAnswer
  <2> QED
    BY <2>1, <2>2 DEF FirstObeyed
<1> QED
  BY <1>6, <1>7 DEF FileInv

LEMMA FileNext ==
  ASSUME OneLap, DnsRows > 2
  PROVE  FileInv /\ [Next]_vars => FileInv'
<1> SUFFICES ASSUME FileInv, [Next]_vars PROVE FileInv'
  OBVIOUS
<1>t. AddressInv'
  BY AddressNext DEF FileInv
<1>1. CASE LoadRow
  BY <1>t, <1>1, FileLoad
<1>2. ASSUME NEW c \in Clients, NEW q \in ClientIds, NEW u \in Urls,
             PtrRequest(c, q, u) \/ CacheHit(c, q, u)
      PROVE  FileInv'
  BY <1>t, <1>2, FileAnswered
<1>3. ASSUME NEW c \in Clients, NEW q \in ClientIds, NEW u \in Urls, Forward(c, q, u)
      PROVE  FileInv'
  BY <1>t, <1>3, FileForward
<1>4. ASSUME NEW m \in net, NEW n \in 0 .. 2, NEW ttl \in TTLs, PassAnswer(m, n, ttl)
      PROVE  FileInv'
  BY <1>t, <1>4, FilePass
<1>5. ASSUME reply' \in {Null, reply}, net' \subseteq net, UNCHANGED <<tables, line>>
      PROVE  FileInv'
  BY <1>t, <1>5 DEF FileInv, FileKept, FirstObeyed, tables
<1>6. ASSUME NEW m \in net, DropLate(m) PROVE FileInv'
  BY <1>5, <1>6 DEF DropLate, Received
<1>7. ASSUME NEW socket \in open, ReadError(socket) PROVE FileInv'
  BY <1>5, <1>7 DEF ReadError
<1>8. CASE Tick
  BY <1>5, <1>8 DEF Tick
<1>9. CASE UNCHANGED vars
  BY <1>5, <1>9 DEF vars
<1> QED
  BY <1>1, <1>2, <1>3, <1>4, <1>6, <1>7, <1>8, <1>9 DEF Next

\* Up to the end of the first lap of the rings, a domain that is the first of its
\* bucket in the file is answered as the file says, whatever the network answers.
THEOREM FirstDomainsObeyed ==
  ASSUME OneLap, DnsRows > 2
  PROVE  Spec => []FirstObeyed
<1>1. Init => FileInv
  BY FileInit
<1>2. FileInv /\ [Next]_vars => FileInv'
  BY FileNext
<1>3. FileInv => FirstObeyed
  BY DEF FileInv
<1> QED
  BY <1>1, <1>2, <1>3, PTL DEF Spec

\* So no domain of the file is resolved elsewhere, if each is the first of its
\* bucket and none is asked for with type PTR.
THEOREM BlockedForGood ==
  ASSUME OneLap, DnsRows > 2,
         \A i \in 1 .. Len(File) : \E j \in FirstLines : File[j].domain = File[i].domain,
         \A i \in 1 .. Len(File) : File[i].domain \notin PtrUrls
  PROVE  Spec => []BlockedStaysBlocked
<1>1. DOMAIN File = 1 .. Len(File)
  OBVIOUS
<1>2. FirstObeyed => BlockedStaysBlocked
  <2> SUFFICES ASSUME FirstObeyed, reply # Null, FileSays(reply.url) # {}
               PROVE  reply.data \in FileSays(reply.url)
    BY DEF BlockedStaysBlocked
  <2>1. PICK i \in 1 .. Len(File) : File[i].domain = reply.url
    BY <1>1 DEF FileSays
  <2>2. PICK j \in FirstLines : File[j].domain = reply.url
    BY <2>1
  <2>3. reply.url \notin PtrUrls
    BY <2>1
  <2> QED
    BY <2>2, <2>3 DEF FirstObeyed
<1> QED
  BY <1>2, FirstDomainsObeyed, PTL
-----------------------------------------------------------------------------
(***************************************************************************)
(* Why a node is in the bucket of its domain, and the file is obeyed.      *)
(* Read through its keys, the memory of the relay is memory of module      *)
(* HashTable, where a key is the domain itself and a row is the line of    *)
(* the file that it was read from, or 0.  There the chains are known to    *)
(* keep their shape, and to keep the domains of the file, as long as the   *)
(* file shares no bucket with other domains (Table!FileApart), no other    *)
(* bucket has more than three (Table!AtMostThree) and the file fits in     *)
(* memory.                                                                 *)
(***************************************************************************)
LineDomains == [i \in 1 .. Len(File) |-> File[i].domain]

\* The line that a row holds in the first lap, 0 if it holds an answer.
Origin(row) == IF row < Len(File) THEN row + 1 ELSE 0
Origins == 0 .. Len(File)

Table == INSTANCE HashTable_proofs WITH
           Keys <- Urls, File <- LineDomains, FreshRows <- {0}

FileFits == Len(File) <= Cardinality(Addrs)

LEMMA LinesAre ==
  /\ LineDomains \in Seq(Urls) /\ Len(LineDomains) = Len(File) /\ Len(File) \in Nat
  /\ \A i \in 1 .. Len(File) : LineDomains[i] = File[i].domain
<1>1. Len(File) \in Nat
  OBVIOUS
<1>2. \A i \in 1 .. Len(File) : File[i].domain \in Urls
  BY FileType
<1>3. LineDomains \in [1 .. Len(File) -> Urls]
  BY <1>2 DEF LineDomains
<1> HIDE DEF LineDomains
<1>4. LineDomains \in Seq(Urls)
  BY <1>1, <1>3, SeqDef
<1>5. Len(LineDomains) = Len(File)
  BY <1>1, <1>3, <1>4, LenProperties
<1> QED
  BY <1>1, <1>4, <1>5 DEF LineDomains

LEMMA OriginIs ==
  ASSUME NEW row \in DnsRow
  PROVE  /\ Origin(row) \in Origins /\ Origin(row) # Null
         /\ row < Len(File) <=> Origin(row) \in 1 .. Len(File)
<1>1. Origin(row) \in Origins /\ (row < Len(File) <=> Origin(row) \in 1 .. Len(File))
  BY LinesAre DEF Origin, Origins, DnsRow
<1>2. Origins \subseteq DnsRow
  BY LinesAre DEF Origins, DnsRow
<1> QED
  BY <1>1, <1>2, NullAssumption

LEMMA TableAssumptions == Table!MemoryAssumption /\ Table!TableAssumption
<1>1. Table!MemoryAssumption
  BY MemoryAssumption DEF Table!MemoryAssumption, Table!IsFiniteSet, IsFiniteSet
<1>2. Table!StaticRows = 1 .. Len(File)
  BY LinesAre DEF Table!StaticRows
<1>3. Origins \subseteq DnsRow /\ Table!Rows = Origins
  BY <1>2, LinesAre DEF Origins, DnsRow, Table!Rows
<1>4. Null \notin Urls \cup Table!Rows
  BY <1>3, NullAssumption
<1>5. Table!StaticRows \cap {0} = {}
  BY <1>2, LinesAre
<1> QED
  BY <1>1, <1>4, <1>5, LinesAre DEF Table!TableAssumption

LEMMA TableIs ==
  /\ Table!StaticRows = 1 .. Len(File)
  /\ Table!Rows = Origins
  /\ Table!Memory(Urls, Table!Rows) = Memory(Urls, Origins)
  /\ Table!FileBuckets = {Hash[File[i].domain] : i \in 1 .. Len(File)}
<1>1. Table!StaticRows = 1 .. Len(File)
  BY LinesAre DEF Table!StaticRows
<1>2. Table!Rows = Origins
  BY <1>1, LinesAre DEF Origins, Table!Rows
<1>3. Table!Memory(Urls, Table!Rows) = Memory(Urls, Origins)
  BY <1>2 DEF Table!Memory, Memory, Table!Nodes, Nodes
<1>4. Table!FileBuckets = {Hash[File[i].domain] : i \in 1 .. Len(File)}
  BY <1>1, LinesAre DEF Table!FileBuckets
<1> QED
  BY <1>1, <1>2, <1>3, <1>4

\* The operators are the same ones.
LEMMA TableOps ==
  /\ \A mem, got, b, k, v :
       Table!InsertHashItem(mem, got, b, k, v) = InsertHashItem(mem, got, b, k, v)
  /\ \A mem, got, n : Table!RemoveHashItemByNode(mem, got, n) = RemoveHashItemByNode(mem, got, n)
  /\ \A mem, text, b, k : Table!FindNodeByKey(mem, text, b, k) = FindNodeByKey(mem, text, b, k)
  /\ \A mem, b : Table!Visits(mem, b) = Visits(mem, b)
  /\ Table!Steps = Steps /\ Table!Nodes = Nodes
  /\ Table!NewHashTable = NewHashTable
<1>1. \A mem, got, b, k, v :
       Table!InsertHashItem(mem, got, b, k, v) = InsertHashItem(mem, got, b, k, v)
  BY DEF Table!InsertHashItem, InsertHashItem, Table!ChainEnd, ChainEnd, Table!Hole, Hole,
         Table!Nodes, Nodes
<1>2. \A mem, got, n : Table!RemoveHashItemByNode(mem, got, n) = RemoveHashItemByNode(mem, got, n)
  BY DEF Table!RemoveHashItemByNode, RemoveHashItemByNode, Table!LinkBack, LinkBack
<1>3. \A mem, text, b, k : Table!FindNodeByKey(mem, text, b, k) = FindNodeByKey(mem, text, b, k)
  BY DEF Table!FindNodeByKey, FindNodeByKey, Table!Hole, Hole, Table!Nodes, Nodes
<1>4. Table!Steps = Steps /\ \A mem, b : Table!Visits(mem, b) = Visits(mem, b)
  BY DEF Table!Visits, Visits, Table!Steps, Steps, Table!Cardinality, Cardinality
<1>5. Table!Nodes = Nodes /\ Table!NewHashTable = NewHashTable
  BY DEF Table!NewHashTable, NewHashTable, Table!ClearedNode, ClearedNode, Table!Nodes, Nodes
<1> QED
  BY <1>1, <1>2, <1>3, <1>4, <1>5

\* A node, read: its key as the domain the key spells, its row as the line of the
\* file, a hole as nothing.
Filled(k, v, p, q) == [key |-> k, value |-> v, prev |-> p, next |-> q]

KeyRead(text, k, v) == IF k = Null \/ v = Null THEN Null ELSE text[k]
ValueRead(k, v) == IF k = Null \/ v = Null THEN Null ELSE Origin(v)

ReadNode(text, x) ==
    Filled(KeyRead(text, x.key, x.value), ValueRead(x.key, x.value), x.prev, x.next)

ReadAs(text, mem) == [n \in Nodes |-> ReadNode(text, mem[n])]

\* The keys of the nodes that are not holes spell domains.
Spells(text, mem) == \A n \in Nodes : ~Hole(mem, n) => text[mem[n].key] \in Urls

LEMMA ReadType ==
  ASSUME NEW mem \in Memory(KeyRefs, DnsRow), NEW text, Spells(text, mem)
  PROVE  /\ ReadAs(text, mem) \in Memory(Urls, Origins)
         /\ \A n \in Nodes :
              /\ Hole(ReadAs(text, mem), n) <=> Hole(mem, n)
              /\ ~Hole(mem, n) => /\ ReadAs(text, mem)[n].key = text[mem[n].key]
                                  /\ ReadAs(text, mem)[n].value = Origin(mem[n].value)
              /\ ReadAs(text, mem)[n].next = mem[n].next
              /\ ReadAs(text, mem)[n].prev = mem[n].prev
<1>1. Null \notin Urls /\ \A row \in DnsRow : Origin(row) \in Origins /\ Origin(row) # Null
  BY NullAssumption, OriginIs
<1>2. ASSUME NEW n \in Nodes
      PROVE  /\ ReadNode(text, mem[n]) \in [key  : Urls \cup {Null}, value : Origins \cup {Null},
                                            prev : Nodes \cup {Null}, next : Nodes \cup {Null}]
             /\ ReadNode(text, mem[n]).key = Null <=> Hole(mem, n)
             /\ ReadNode(text, mem[n]).value = Null <=> Hole(mem, n)
             /\ ~Hole(mem, n) => /\ ReadNode(text, mem[n]).key = text[mem[n].key]
                                 /\ ReadNode(text, mem[n]).value = Origin(mem[n].value)
             /\ ReadNode(text, mem[n]).next = mem[n].next
             /\ ReadNode(text, mem[n]).prev = mem[n].prev
  <2>1. mem[n] \in [key  : KeyRefs \cup {Null}, value : DnsRow \cup {Null},
                    prev : Nodes \cup {Null}, next : Nodes \cup {Null}]
    BY DEF Memory
  <2>2. CASE Hole(mem, n)
    BY <2>1, <2>2 DEF ReadNode, Hole, Filled, KeyRead, ValueRead
  <2>3. CASE ~Hole(mem, n)
    <3>1. text[mem[n].key] \in Urls /\ mem[n].key # Null /\ mem[n].value # Null
      BY <2>3 DEF Spells, Hole
    <3>2. mem[n].value \in DnsRow
      BY <2>1, <3>1
    <3> QED
      BY <1>1, <2>1, <2>3, <3>1, <3>2 DEF ReadNode, Filled, KeyRead, ValueRead
  <2> QED
    BY <2>2, <2>3
<1> QED
  BY <1>2 DEF ReadAs, Memory, Hole

\* The loops see the same chain.
LEMMA SameFind ==
  ASSUME NEW mem \in Memory(KeyRefs, DnsRow), NEW text, Spells(text, mem),
         NEW b, NEW u \in Urls
  PROVE  FindNodeByKey(ReadAs(text, mem), Table!Text, b, u) = FindNodeByKey(mem, text, b, u)
<1> DEFINE new == ReadAs(text, mem)
           All == Nodes \cup {Null}
           Eq(f) == f = [n \in All |->
                           IF n = Null \/ Hole(mem, n) THEN Null
                           ELSE IF text[mem[n].key] = u THEN n
                           ELSE f[mem[n].next]]
           EqNew(f) == f = [n \in All |->
                              IF n = Null \/ Hole(new, n) THEN Null
                              ELSE IF Table!Text[new[n].key] = u THEN n
                              ELSE f[new[n].next]]
<1>1. \A n \in Nodes : /\ Hole(new, n) <=> Hole(mem, n)
                       /\ ~Hole(mem, n) => Table!Text[new[n].key] = text[mem[n].key]
                       /\ new[n].next = mem[n].next
  <2>1. \A n \in Nodes : /\ Hole(new, n) <=> Hole(mem, n)
                         /\ ~Hole(mem, n) => new[n].key = text[mem[n].key]
                         /\ new[n].next = mem[n].next
    BY ReadType
  <2>2. \A v \in Urls : Table!Text[v] = v
    BY DEF Table!Text
  <2> HIDE DEF new
  <2> QED
    BY <2>1, <2>2 DEF Spells
<1> HIDE DEF new
<1>2. ASSUME NEW f PROVE Eq(f) <=> EqNew(f)
  <2> DEFINE h(n) == IF n = Null \/ Hole(mem, n) THEN Null
                     ELSE IF text[mem[n].key] = u THEN n
                     ELSE f[mem[n].next]
             hNew(n) == IF n = Null \/ Hole(new, n) THEN Null
                        ELSE IF Table!Text[new[n].key] = u THEN n
                        ELSE f[new[n].next]
  <2>1. \A n \in All : h(n) = hNew(n)
    BY <1>1
  <2> HIDE DEF h, hNew, All
  <2>2. [n \in All |-> h(n)] = [n \in All |-> hNew(n)]
    BY <2>1
  <2> QED
    BY <2>2 DEF h, hNew
<1>3. (CHOOSE f : Eq(f)) = (CHOOSE f : EqNew(f))
  <2> HIDE DEF Eq, EqNew
  <2> QED
    BY <1>2
<1>4. /\ FindNodeByKey(mem, text, b, u)
         = IF (CHOOSE f : Eq(f))[b] \in Nodes THEN (CHOOSE f : Eq(f))[b] ELSE Null
      /\ FindNodeByKey(new, Table!Text, b, u)
         = IF (CHOOSE f : EqNew(f))[b] \in Nodes THEN (CHOOSE f : EqNew(f))[b] ELSE Null
  BY Zenon DEF FindNodeByKey
<1> QED
  <2> HIDE DEF Eq, EqNew
  <2> QED
    BY <1>3, <1>4 DEF new

LEMMA SameEnd ==
  ASSUME NEW mem \in Memory(KeyRefs, DnsRow), NEW text, Spells(text, mem), NEW b
  PROVE  ChainEnd(ReadAs(text, mem), b) = ChainEnd(mem, b)
<1> DEFINE new == ReadAs(text, mem)
           Eq(f, x) == f = [n \in Nodes |->
                              LET succ == x[n].next
                              IN  IF succ = Null THEN <<n, Null>>
                                  ELSE IF x[succ].next = Null THEN <<succ, n>>
                                  ELSE f[succ]]
<1>1. \A n \in Nodes : new[n].next = mem[n].next /\ mem[n].next \in Nodes \cup {Null}
  BY ReadType DEF Memory
<1> HIDE DEF new
<1>2. ASSUME NEW f PROVE Eq(f, mem) <=> Eq(f, new)
  <2> DEFINE h(n, x) == LET succ == x[n].next
                        IN  IF succ = Null THEN <<n, Null>>
                            ELSE IF x[succ].next = Null THEN <<succ, n>>
                            ELSE f[succ]
  <2>1. \A n \in Nodes : h(n, mem) = h(n, new)
    BY <1>1
  <2> HIDE DEF h
  <2>2. [n \in Nodes |-> h(n, mem)] = [n \in Nodes |-> h(n, new)]
    BY <2>1
  <2> QED
    BY <2>2 DEF h
<1>3. (CHOOSE f : Eq(f, mem)) = (CHOOSE f : Eq(f, new))
  <2> HIDE DEF Eq
  <2> QED
    BY <1>2
<1>4. \A x : ChainEnd(x, b) = IF (CHOOSE f : Eq(f, x))[b] \in Nodes \X (Nodes \cup {Null})
                              THEN (CHOOSE f : Eq(f, x))[b] ELSE <<b, Null>>
  BY Zenon DEF ChainEnd
<1> QED
  <2> HIDE DEF Eq
  <2> QED
    BY <1>3, <1>4 DEF new

LEMMA SameVisits ==
  ASSUME NEW mem \in Memory(KeyRefs, DnsRow), NEW text, Spells(text, mem),
         NEW b \in Buckets, NEW i \in Steps
  PROVE  Visits(ReadAs(text, mem), b)[i] = Visits(mem, b)[i]
<1> DEFINE new == ReadAs(text, mem)
           N == Cardinality(Addrs) + 1
           at == Visits(mem, b)
           atNew == Visits(new, b)
           S == {j \in 0 .. N : atNew[j] = at[j]}
<1>1. N \in Nat /\ Steps = 0 .. N
  BY MemoryAssumption, FS_CardinalityType DEF Steps
<1>2. b \in Nodes
  BY DEF Nodes
<1>3. new \in Memory(Urls, Origins) /\ \A n \in Nodes : new[n].next = mem[n].next
  BY ReadType
<1> HIDE DEF new
<1>4. /\ at[0] = b /\ \A j \in Steps : at[j] \in Nodes \cup {Null}
      /\ \A j \in Steps \ {0} : at[j] = IF at[j - 1] = Null THEN Null ELSE mem[at[j - 1]].next
  BY <1>2, VisitsSteps
<1>5. /\ atNew[0] = b
      /\ \A j \in Steps \ {0} : atNew[j] = IF atNew[j - 1] = Null THEN Null
                                           ELSE new[atNew[j - 1]].next
  BY <1>2, <1>3, VisitsSteps
<1> HIDE DEF N, at, atNew
<1>6. 0 \in S
  BY <1>1, <1>4, <1>5
<1>7. ASSUME NEW j \in 0 .. N - 1, j \in S PROVE j + 1 \in S
  <2>1. j + 1 \in Steps \ {0} /\ (j + 1) - 1 = j /\ j + 1 \in 0 .. N /\ j \in Steps
    BY <1>1
  <2>2. at[j + 1] = IF at[j] = Null THEN Null ELSE mem[at[j]].next
    BY <1>4, <2>1
  <2>3. atNew[j + 1] = IF atNew[j] = Null THEN Null ELSE new[atNew[j]].next
    BY <1>5, <2>1
  <2> QED
    BY <1>3, <1>4, <1>7, <2>1, <2>2, <2>3
<1> HIDE DEF S
<1>8. \A j \in 0 .. N : j \in S
  BY <1>1, <1>6, <1>7, InductionUpTo
<1> QED
  BY <1>1, <1>8 DEF S, at, atNew, new

\* The writes of the table, read, are writes to the memory as it is read.
Cell == [key  : KeyRefs \cup {Null}, value : DnsRow \cup {Null},
         prev : Nodes \cup {Null}, next : Nodes \cup {Null}]

Rewritten(mem, n, x) == [mem EXCEPT ![n] = x]
Relinked(mem, n, q) == [mem EXCEPT ![n].next = q]

LEMMA ReadWrite ==
  ASSUME NEW mem, DOMAIN mem = Nodes, NEW text, NEW n \in Nodes, NEW x
  PROVE  ReadAs(text, Rewritten(mem, n, x)) = Rewritten(ReadAs(text, mem), n, ReadNode(text, x))
BY DEF ReadAs, Rewritten

WithNext(x, q) == [x EXCEPT !.next = q]
WithPrev(x, p) == [x EXCEPT !.prev = p]
Emptied(x) == [x EXCEPT !.key = Null, !.value = Null]
Taking(x, k, v, q) == [x EXCEPT !.key = k, !.value = v, !.next = q]

LEMMA NextOf ==
  ASSUME NEW a, NEW b, NEW c, NEW d, NEW q
  PROVE  WithNext(Filled(a, b, c, d), q) = Filled(a, b, c, q)
BY DEF Filled, WithNext

LEMMA PrevOf ==
  ASSUME NEW a, NEW b, NEW c, NEW d, NEW q
  PROVE  WithPrev(Filled(a, b, c, d), q) = Filled(a, b, q, d)
BY DEF Filled, WithPrev

LEMMA EmptiedOf ==
  ASSUME NEW a, NEW b, NEW c, NEW d
  PROVE  Emptied(Filled(a, b, c, d)) = Filled(Null, Null, c, d)
<1>1. ASSUME NEW x, NEW y
      PROVE  [[Filled(a, b, c, d) EXCEPT !.key = x] EXCEPT !.value = y] = Filled(x, y, c, d)
  <2>1. [Filled(a, b, c, d) EXCEPT !.key = x] = Filled(x, b, c, d)
    BY DEF Filled
  <2>2. [Filled(x, b, c, d) EXCEPT !.value = y] = Filled(x, y, c, d)
    BY DEF Filled
  <2> QED
    BY <2>1, <2>2
<1> QED
  BY <1>1 DEF Emptied

LEMMA TakingOf ==
  ASSUME NEW a, NEW b, NEW c, NEW d, NEW k, NEW v, NEW q
  PROVE  Taking(Filled(a, b, c, d), k, v, q) = Filled(k, v, c, q)
<1>1. ASSUME NEW x, NEW y
      PROVE  [[Filled(a, b, c, d) EXCEPT !.key = x] EXCEPT !.value = y] = Filled(x, y, c, d)
  <2>1. [Filled(a, b, c, d) EXCEPT !.key = x] = Filled(x, b, c, d)
    BY DEF Filled
  <2>2. [Filled(x, b, c, d) EXCEPT !.value = y] = Filled(x, y, c, d)
    BY DEF Filled
  <2> QED
    BY <2>1, <2>2
<1>2. Taking(Filled(a, b, c, d), k, v, q) = WithNext(Filled(k, v, c, d), q)
  BY <1>1 DEF Taking, WithNext
<1> QED
  BY <1>2, NextOf

LEMMA CellIs ==
  ASSUME NEW x \in Cell
  PROVE  x = Filled(x.key, x.value, x.prev, x.next)
BY DEF Cell, Filled

LEMMA ReadIs ==
  ASSUME NEW text, NEW k, NEW v, NEW p, NEW q
  PROVE  ReadNode(text, Filled(k, v, p, q)) = Filled(KeyRead(text, k, v), ValueRead(k, v), p, q)
BY DEF ReadNode, Filled

LEMMA ReadFields ==
  ASSUME NEW x \in Cell, NEW y \in Cell, NEW text, NEW q
  PROVE  /\ ReadNode(text, WithNext(x, q)) = WithNext(ReadNode(text, x), q)
         /\ ReadNode(text, WithPrev(x, q)) = WithPrev(ReadNode(text, x), q)
         /\ ReadNode(text, Emptied(x)) = Emptied(ReadNode(text, x))
         /\ ReadNode(text, Taking(x, y.key, y.value, q))
            = Taking(ReadNode(text, x), ReadNode(text, y).key, ReadNode(text, y).value, q)
<1> DEFINE k == x.key
           v == x.value
           p == x.prev
           n == x.next
           j == y.key
           w == y.value
<1>1. x = Filled(k, v, p, n) /\ y = Filled(j, w, y.prev, y.next)
  BY CellIs
<1>2. ReadNode(text, y).key = KeyRead(text, j, w) /\ ReadNode(text, y).value = ValueRead(j, w)
  BY DEF ReadNode, Filled
<1>3. KeyRead(text, Null, Null) = Null /\ ValueRead(Null, Null) = Null
  BY DEF KeyRead, ValueRead
<1> HIDE DEF k, v, p, n, j, w
<1>8. ReadNode(text, x) = Filled(KeyRead(text, k, v), ValueRead(k, v), p, n)
  BY <1>1, ReadIs
<1>4. ReadNode(text, WithNext(x, q)) = WithNext(ReadNode(text, x), q)
  <2>1. WithNext(x, q) = Filled(k, v, p, q)
    BY <1>1, NextOf
  <2>2. ReadNode(text, Filled(k, v, p, q)) = Filled(KeyRead(text, k, v), ValueRead(k, v), p, q)
    BY ReadIs
  <2>3. WithNext(Filled(KeyRead(text, k, v), ValueRead(k, v), p, n), q)
        = Filled(KeyRead(text, k, v), ValueRead(k, v), p, q)
    BY NextOf
  <2> QED
    BY <1>8, <2>1, <2>2, <2>3
<1>5. ReadNode(text, WithPrev(x, q)) = WithPrev(ReadNode(text, x), q)
  <2>1. WithPrev(x, q) = Filled(k, v, q, n)
    BY <1>1, PrevOf
  <2>2. ReadNode(text, Filled(k, v, q, n)) = Filled(KeyRead(text, k, v), ValueRead(k, v), q, n)
    BY ReadIs
  <2>3. WithPrev(Filled(KeyRead(text, k, v), ValueRead(k, v), p, n), q)
        = Filled(KeyRead(text, k, v), ValueRead(k, v), q, n)
    BY PrevOf
  <2> QED
    BY <1>8, <2>1, <2>2, <2>3
<1>6. ReadNode(text, Emptied(x)) = Emptied(ReadNode(text, x))
  <2>1. Emptied(x) = Filled(Null, Null, p, n)
    BY <1>1, EmptiedOf
  <2>2. ReadNode(text, Filled(Null, Null, p, n)) = Filled(Null, Null, p, n)
    BY <1>3, ReadIs
  <2>3. Emptied(Filled(KeyRead(text, k, v), ValueRead(k, v), p, n)) = Filled(Null, Null, p, n)
    BY EmptiedOf
  <2> QED
    BY <1>8, <2>1, <2>2, <2>3
<1>7. ReadNode(text, Taking(x, j, w, q))
      = Taking(ReadNode(text, x), KeyRead(text, j, w), ValueRead(j, w), q)
  BY <1>1, TakingOf, ReadIs
<1> QED
  BY <1>2, <1>4, <1>5, <1>6, <1>7 DEF j, w

LEMMA CellOf ==
  ASSUME NEW mem \in Memory(KeyRefs, DnsRow), NEW text
  PROVE  /\ DOMAIN mem = Nodes /\ DOMAIN ReadAs(text, mem) = Nodes
         /\ \A n \in Nodes : mem[n] \in Cell /\ ReadAs(text, mem)[n] = ReadNode(text, mem[n])
BY DEF Memory, ReadAs, Cell

LEMMA ReadNext ==
  ASSUME NEW mem \in Memory(KeyRefs, DnsRow), NEW text, NEW n \in Nodes,
         NEW q \in Nodes \cup {Null}
  PROVE  /\ ReadAs(text, Relinked(mem, n, q)) = Relinked(ReadAs(text, mem), n, q)
         /\ Relinked(mem, n, q) \in Memory(KeyRefs, DnsRow)
<1> DEFINE x == WithNext(mem[n], q)
           new == ReadAs(text, mem)
<1>1. DOMAIN mem = Nodes /\ mem[n] \in Cell /\ new[n] = ReadNode(text, mem[n]) /\ DOMAIN new = Nodes
  BY CellOf
<1>2. Relinked(mem, n, q) = Rewritten(mem, n, x)
  BY DEF Relinked, Rewritten, WithNext
<1>3. ReadNode(text, x) = WithNext(new[n], q)
  BY <1>1, ReadFields
<1> HIDE DEF x, new
<1>5. Relinked(new, n, q) = Rewritten(new, n, ReadNode(text, x))
  BY <1>1, <1>3 DEF Relinked, Rewritten, WithNext
<1>6. ReadAs(text, Relinked(mem, n, q)) = Relinked(new, n, q)
  BY <1>1, <1>2, <1>5, ReadWrite DEF new
<1>7. Relinked(mem, n, q) \in Memory(KeyRefs, DnsRow)
  BY DEF Memory, Relinked
<1> QED
  BY <1>6, <1>7 DEF new

LEMMA ReadBack ==
  ASSUME NEW mem \in Memory(KeyRefs, DnsRow), NEW text, NEW n \in Nodes \cup {Null},
         NEW p \in Nodes
  PROVE  /\ ReadAs(text, LinkBack(mem, n, p)) = LinkBack(ReadAs(text, mem), n, p)
         /\ LinkBack(mem, n, p) \in Memory(KeyRefs, DnsRow)
<1>1. CASE n = Null
  BY <1>1 DEF LinkBack
<1>2. CASE n # Null
  <2> DEFINE x == WithPrev(mem[n], p)
             new == ReadAs(text, mem)
  <2>1. /\ DOMAIN mem = Nodes /\ n \in Nodes /\ mem[n] \in Cell
        /\ new[n] = ReadNode(text, mem[n]) /\ DOMAIN new = Nodes
    BY <1>2, CellOf
  <2>2. LinkBack(mem, n, p) = Rewritten(mem, n, x)
    BY <1>2 DEF LinkBack, Rewritten, WithPrev
  <2>3. ReadNode(text, x) = WithPrev(new[n], p)
    BY <2>1, ReadFields
  <2> HIDE DEF x, new
  <2>5. LinkBack(new, n, p) = Rewritten(new, n, ReadNode(text, x))
    BY <1>2, <2>1, <2>3 DEF LinkBack, Rewritten, WithPrev
  <2>6. ReadAs(text, LinkBack(mem, n, p)) = LinkBack(new, n, p)
    BY <2>1, <2>2, <2>5, ReadWrite DEF new
  <2>7. LinkBack(mem, n, p) \in Memory(KeyRefs, DnsRow)
    BY <1>2, <2>1 DEF Memory, LinkBack
  <2> QED
    BY <2>6, <2>7 DEF new
<1> QED
  BY <1>1, <1>2

LEMMA ReadsBack ==
  ASSUME NEW mem \in Memory(KeyRefs, DnsRow), NEW text, NEW n \in Nodes \cup {Null},
         NEW p \in Nodes
  PROVE  ReadAs(text, LinkBack(mem, n, p)) = LinkBack(ReadAs(text, mem), n, p)
BY ReadBack

\* An insertion, read, is the insertion of the domain (InsertHashItem).
Mirrored(text, mem, got, b, u, value, r) ==
    \E q \in InsertHashItem(ReadAs(text, mem), got, b, u, Origin(value)) :
      q.node = ReadAs(text, r.node) /\ q.alloc = r.alloc

LEMMA InsertReads ==
  ASSUME NEW mem \in Memory(KeyRefs, DnsRow), NEW got \in SUBSET Addrs, NEW text,
         Spells(text, mem), NEW b \in Buckets, NEW key \in KeyRefs, NEW value \in DnsRow,
         NEW u \in Urls, text[key] = u, NEW r \in InsertHashItem(mem, got, b, key, value)
  PROVE  Mirrored(text, mem, got, b, u, value, r)
<1> SUFFICES \E q \in InsertHashItem(ReadAs(text, mem), got, b, u, Origin(value)) :
               q.node = ReadAs(text, r.node) /\ q.alloc = r.alloc
  BY DEF Mirrored
<1> DEFINE new == ReadAs(text, mem)
           o == Origin(value)
<1>1. /\ DOMAIN mem = Nodes /\ b \in Nodes /\ key # Null /\ value # Null
  BY NullAssumption DEF Memory, Nodes
<1>2. Hole(new, b) <=> Hole(mem, b)
  BY <1>1, ReadType
<1>3. \A p, q : ReadNode(text, [key |-> key, value |-> value, prev |-> p, next |-> q])
                = [key |-> u, value |-> o, prev |-> p, next |-> q]
  BY <1>1 DEF ReadNode, Filled, KeyRead, ValueRead
<1>4. CASE Hole(mem, b)
  <2> DEFINE x == [key |-> key, value |-> value, prev |-> Null, next |-> Null]
             y == [key |-> u, value |-> o, prev |-> Null, next |-> Null]
             q == [node |-> [new EXCEPT ![b] = y], alloc |-> got]
  <2>1. r = [node |-> [mem EXCEPT ![b] = x], alloc |-> got]
    BY <1>4 DEF InsertHashItem
  <2>2. q \in InsertHashItem(new, got, b, u, o)
    BY <1>2, <1>4 DEF InsertHashItem
  <2>3. ReadNode(text, x) = y
    BY <1>3
  <2> HIDE DEF x, y, new
  <2>4. ReadAs(text, Rewritten(mem, b, x)) = Rewritten(new, b, y)
    BY <1>1, <2>3, ReadWrite DEF new
  <2>5. q.node = ReadAs(text, r.node) /\ q.alloc = r.alloc
    BY <2>1, <2>4 DEF Rewritten
  <2> QED
    BY <2>2, <2>5 DEF new
<1>5. CASE ~Hole(mem, b)
  <2> DEFINE e == ChainEnd(mem, b)[1]
             p == ChainEnd(mem, b)[2]
             x == [key |-> key, value |-> value, prev |-> p, next |-> Null]
             y == [key |-> u, value |-> o, prev |-> p, next |-> Null]
             At(a) == [mem EXCEPT ![e].next = a, ![a] = x]
             AtNew(a) == [new EXCEPT ![e].next = a, ![a] = y]
  <2>1. ChainEnd(new, b) = ChainEnd(mem, b)
    BY SameEnd
  <2>2. e \in Nodes
    BY <1>1 DEF ChainEnd
  <2>3. \/ r = [node |-> mem, alloc |-> got] /\ got = Addrs
        \/ \E a \in Addrs \ got : r = [node |-> At(a), alloc |-> got \cup {a}]
    BY <1>5, Zenon DEF InsertHashItem
  <2>4. /\ \A a \in Addrs \ got : [node |-> AtNew(a), alloc |-> got \cup {a}]
                                    \in InsertHashItem(new, got, b, u, o)
        /\ got = Addrs => [node |-> new, alloc |-> got] \in InsertHashItem(new, got, b, u, o)
    <3>1. ~Hole(new, b)
      BY <1>2, <1>5
    <3> HIDE DEF new
    <3> QED
      BY <2>1, <3>1, Zenon DEF InsertHashItem
  <2>5. ASSUME NEW a \in Addrs \ got PROVE ReadAs(text, At(a)) = AtNew(a)
    <3> DEFINE linked == Relinked(mem, e, a)
    <3>1. a \in Nodes
      BY DEF Nodes
    <3>2. linked \in Memory(KeyRefs, DnsRow) /\ ReadAs(text, linked) = Relinked(new, e, a)
      <4> HIDE DEF e
      <4> QED
        BY <2>2, <3>1, ReadNext
    <3>3. At(a) = Rewritten(linked, a, x) /\ AtNew(a) = Rewritten(Relinked(new, e, a), a, y)
      BY DEF Rewritten, Relinked
    <3>4. ReadNode(text, x) = y
      BY <1>3
    <3> HIDE DEF linked, x, y, At, AtNew, new, e
    <3>5. DOMAIN linked = Nodes
      BY <3>2 DEF Memory
    <3>6. ReadAs(text, Rewritten(linked, a, x)) = Rewritten(ReadAs(text, linked), a, y)
      BY <3>1, <3>4, <3>5, ReadWrite
    <3> QED
      BY <3>2, <3>3, <3>6
  <2> HIDE DEF At, AtNew, new
  <2>6. CASE r = [node |-> mem, alloc |-> got] /\ got = Addrs
    BY <2>4, <2>6 DEF new
  <2>7. ASSUME NEW a \in Addrs \ got, r = [node |-> At(a), alloc |-> got \cup {a}]
        PROVE  \E q \in InsertHashItem(new, got, b, u, o) :
                 q.node = ReadAs(text, r.node) /\ q.alloc = r.alloc
    <3> DEFINE q == [node |-> AtNew(a), alloc |-> got \cup {a}]
    <3>1. q \in InsertHashItem(new, got, b, u, o)
      BY <2>4
    <3>2. q.node = ReadAs(text, r.node) /\ q.alloc = r.alloc
      BY <2>5, <2>7
    <3> QED
      BY <3>1, <3>2
  <2> QED
    BY <2>3, <2>6, <2>7 DEF new
<1> QED
  BY <1>4, <1>5

\* So is a removal (RemoveHashItemByNode).
LEMMA RemoveReads ==
  ASSUME NEW mem \in Memory(KeyRefs, DnsRow), NEW got \in SUBSET Addrs, NEW text,
         Spells(text, mem), NEW n \in Nodes
  PROVE  LET r == RemoveHashItemByNode(mem, got, n)
             q == RemoveHashItemByNode(ReadAs(text, mem), got, n)
         IN  q.node = ReadAs(text, r.node) /\ q.alloc = r.alloc
<1> DEFINE new == ReadAs(text, mem)
           r == RemoveHashItemByNode(mem, got, n)
           z == RemoveHashItemByNode(new, got, n)
           succ == mem[n].next
           prev == mem[n].prev
<1>1. /\ new[n].next = succ /\ new[n].prev = prev
      /\ succ \in Nodes \cup {Null} /\ prev \in Nodes \cup {Null}
      /\ succ # Null => new[succ].next = mem[succ].next
      /\ succ # Null => mem[succ].next \in Nodes \cup {Null}
  BY ReadType DEF Memory
<1>2. /\ DOMAIN mem = Nodes /\ DOMAIN new = Nodes
      /\ \A x \in Nodes : mem[x] \in Cell /\ new[x] = ReadNode(text, mem[x])
  BY CellOf
<1>4. CASE prev # Null
  <2> DEFINE cut == Relinked(mem, prev, succ)
  <2>1. r = [node |-> LinkBack(cut, succ, prev), alloc |-> got \ {n}]
    BY <1>4 DEF RemoveHashItemByNode, Relinked
  <2>2. z = [node |-> LinkBack(Relinked(new, prev, succ), succ, prev), alloc |-> got \ {n}]
    <3> HIDE DEF new
    <3> QED
      BY <1>1, <1>4 DEF RemoveHashItemByNode, Relinked
  <2> HIDE DEF succ, prev, r, z
  <2>3. cut \in Memory(KeyRefs, DnsRow) /\ ReadAs(text, cut) = Relinked(new, prev, succ)
    BY <1>1, <1>4, ReadNext
  <2> HIDE DEF cut, new
  <2>6. succ \in Nodes \cup {Null} /\ prev \in Nodes
    BY <1>1, <1>4
  <2>4. ReadAs(text, LinkBack(cut, succ, prev)) = LinkBack(ReadAs(text, cut), succ, prev)
    <3> HIDE DEF succ, prev
    <3> QED
      BY <2>3, <2>6, ReadsBack
  <2>5. z.node = ReadAs(text, r.node) /\ z.alloc = r.alloc
    BY <2>1, <2>2, <2>3, <2>4
  <2> QED
    BY <2>5 DEF new, r, z
<1>5. CASE prev = Null /\ succ # Null
  <2> DEFINE t == mem[succ].next
             back == LinkBack(mem, t, n)
             x == Taking(back[n], mem[succ].key, mem[succ].value, t)
             backNew == LinkBack(new, t, n)
             y == Taking(backNew[n], new[succ].key, new[succ].value, t)
  <2>1. r = [node |-> [back EXCEPT ![n].key = mem[succ].key, ![n].value = mem[succ].value,
                                   ![n].next = t],
             alloc |-> got \ {succ}]
    BY <1>5 DEF RemoveHashItemByNode
  <2>2. z = [node |-> [backNew EXCEPT ![n].key = new[succ].key, ![n].value = new[succ].value,
                                      ![n].next = t],
             alloc |-> got \ {succ}]
    <3> HIDE DEF new
    <3> QED
      BY <1>1, <1>5 DEF RemoveHashItemByNode
  <2> HIDE DEF succ, new
  <2>3. t \in Nodes \cup {Null}
    BY <1>1, <1>5
  <2>4. back \in Memory(KeyRefs, DnsRow) /\ ReadAs(text, back) = backNew
    <3> HIDE DEF t
    <3> QED
      BY <2>3, ReadBack DEF new
  <2>5. /\ DOMAIN back = Nodes /\ back[n] \in Cell
        /\ DOMAIN backNew = Nodes /\ backNew[n] = ReadNode(text, back[n])
    <3> HIDE DEF back, backNew
    <3> QED
      BY <2>4, CellOf
  <2>6. succ \in Nodes /\ new[succ] = ReadNode(text, mem[succ]) /\ mem[succ] \in Cell
    BY <1>1, <1>2, <1>5
  <2>7. r.node = Rewritten(back, n, x) /\ z.node = Rewritten(backNew, n, y)
    <3> HIDE DEF r, z, back, backNew, t
    <3> QED
      BY <2>1, <2>2, <2>5 DEF Rewritten, Taking
  <2>8. r.alloc = z.alloc
    <3> HIDE DEF r, z
    <3> QED
      BY <2>1, <2>2
  <2> HIDE DEF back, backNew, t
  <2>9. ReadNode(text, x) = y
    BY <2>5, <2>6, ReadFields
  <2> HIDE DEF x, y, r, z
  <2>10. ReadAs(text, r.node) = z.node
    BY <2>4, <2>5, <2>7, <2>9, ReadWrite
  <2> QED
    BY <2>8, <2>10 DEF r, z, new
<1>6. CASE prev = Null /\ succ = Null
  <2> DEFINE x == Emptied(mem[n])
             y == Emptied(new[n])
  <2>1. r = [node |-> [mem EXCEPT ![n].key = Null, ![n].value = Null], alloc |-> got]
    BY <1>6 DEF RemoveHashItemByNode
  <2>2. z = [node |-> [new EXCEPT ![n].key = Null, ![n].value = Null], alloc |-> got]
    <3> HIDE DEF new
    <3> QED
      BY <1>1, <1>6 DEF RemoveHashItemByNode
  <2> HIDE DEF new
  <2>4. ReadNode(text, x) = y
    BY <1>2, ReadFields
  <2>5. r.node = Rewritten(mem, n, x) /\ z.node = Rewritten(new, n, y) /\ r.alloc = z.alloc
    <3> HIDE DEF r, z
    <3> QED
      BY <1>2, <2>1, <2>2 DEF Rewritten, Emptied
  <2> HIDE DEF x, y, r, z
  <2>6. ReadAs(text, r.node) = z.node
    BY <1>2, <2>4, <2>5, ReadWrite DEF new
  <2> QED
    BY <2>5, <2>6 DEF r, z, new
<1> QED
  BY <1>1, <1>4, <1>5, <1>6

\* What is read stays the same while the rows that nodes name stay as they are.
Extends(t, u) ==
    /\ RingsOK(t) /\ RingsOK(u) /\ t.taken <= u.taken /\ t.count <= u.count
    /\ \A i \in IdRow : i < t.taken => u.ids[i].url = t.ids[i].url
    /\ \A j \in DnsRow : j < t.count => u.rows[j] = t.rows[j]

\* The rows that were written have domains.
Written(rows, count) == \A j \in DnsRow : j < count => rows[j].domain \in Urls

\* The memory as the rings let it be read.
MemoryOf(t, mem) == ReadAs(Text(t.ids, t.rows), mem)

LEMMA SpellsDomains ==
  ASSUME NEW t, NEW mem, Agree(t, mem), Written(t.rows, t.count)
  PROVE  Spells(Text(t.ids, t.rows), mem)
BY DEF Agree, Written, Names, Spells

LEMMA ReadsTheSame ==
  ASSUME NEW t, NEW u, Extends(t, u), NEW mem, Agree(t, mem)
  PROVE  MemoryOf(u, mem) = MemoryOf(t, mem)
<1> DEFINE old == Text(t.ids, t.rows)
           new == Text(u.ids, u.rows)
<1>1. ASSUME NEW n \in Nodes PROVE ReadNode(new, mem[n]) = ReadNode(old, mem[n])
  <2>1. CASE Hole(mem, n)
    BY <2>1 DEF Hole, ReadNode, KeyRead
  <2>2. CASE ~Hole(mem, n)
    <3> DEFINE key == mem[n].key
               value == mem[n].value
    <3>1. Names(t, key, value)
      BY <2>2 DEF Agree
    <3> HIDE DEF key, value
    <3>2. Names(u, key, value)
      BY <3>1, NamesLast DEF Extends
    <3>3. u.rows[value] = t.rows[value]
      BY <3>1 DEF Names, Extends
    <3>4. new[key] = old[key]
      BY <3>1, <3>2, <3>3 DEF Names
    <3> HIDE DEF new, old
    <3> QED
      BY <3>4 DEF ReadNode, KeyRead, key, value
  <2> QED
    BY <2>1, <2>2
<1> HIDE DEF new, old
<1> QED
  <2>1. ReadAs(new, mem) = ReadAs(old, mem)
    BY <1>1 DEF ReadAs
  <2> QED
    BY <2>1 DEF MemoryOf, new, old

LEMMA SpellsLater ==
  ASSUME NEW t, NEW u, Extends(t, u), NEW mem, Agree(t, mem), Written(t.rows, t.count)
  PROVE  Spells(Text(u.ids, u.rows), mem)
<1> SUFFICES ASSUME NEW n \in Nodes, ~Hole(mem, n)
             PROVE  Text(u.ids, u.rows)[mem[n].key] \in Urls
  BY DEF Spells
<1> DEFINE key == mem[n].key
           value == mem[n].value
<1>1. Names(t, key, value)
  BY DEF Agree
<1> HIDE DEF key, value
<1>2. Names(u, key, value)
  BY <1>1, NamesLast DEF Extends
<1>3. u.rows[value] = t.rows[value] /\ t.rows[value].domain \in Urls
  BY <1>1 DEF Names, Extends, Written
<1> QED
  BY <1>2, <1>3 DEF Names, key

\* The domains that a lookup in the memory, as it is read, finds.
FoundIn(t, mem) == {u \in Urls : Table!RowIn(MemoryOf(t, mem), u) # Null}

InFile(u) == \E i \in 1 .. Len(File) : File[i].domain = u

LEMMA InFileIs ==
  ASSUME NEW u \in Urls
  PROVE  /\ InFile(u) => Hash[u] \in Table!FileBuckets
         /\ Table!FileApart /\ Hash[u] \in Table!FileBuckets => InFile(u)
         /\ InFile(u) <=> FileSays(u) # {}
<1>1. InFile(u) => Hash[u] \in Table!FileBuckets
  BY TableIs DEF InFile
<1>2. Table!FileApart /\ Hash[u] \in Table!FileBuckets => InFile(u)
  BY TableIs, LinesAre DEF InFile, Table!FileApart
<1>3. DOMAIN File = 1 .. Len(File)
  OBVIOUS
<1>4. InFile(u) <=> FileSays(u) # {}
  <2> DEFINE L == {i \in DOMAIN File : File[i].domain = u}
  <2>1. InFile(u) <=> L # {}
    BY <1>3 DEF InFile
  <2>2. FileSays(u) = {File[i].data : i \in L}
    BY DEF FileSays
  <2> HIDE DEF L
  <2> QED
    BY <2>1, <2>2
<1> QED
  BY <1>1, <1>2, <1>4

\* A line of the file, or a domain that no lookup finds, is put into its bucket.
LEMMA HoldsInserted ==
  ASSUME Table!AtMostThree, NEW t, NEW u, Extends(t, u),
         NEW mem \in Memory(KeyRefs, DnsRow), NEW got \in SUBSET Addrs,
         Agree(t, mem), Written(t.rows, t.count), Table!Held(MemoryOf(t, mem), got),
         NEW url \in Urls, NEW key \in KeyRefs, NEW value \in DnsRow,
         Text(u.ids, u.rows)[key] = url,
         Hash[url] \in Table!FileBuckets => value < Len(File) /\ got # Addrs,
         Hash[url] \notin Table!FileBuckets =>
           FindNodeByKey(mem, Text(t.ids, t.rows), Hash[url], url) = Null,
         NEW r \in InsertHashItem(mem, got, Hash[url], key, value)
  PROVE  /\ Table!Held(MemoryOf(u, r.node), r.alloc)
         /\ FoundIn(t, mem) \subseteq FoundIn(u, r.node)
         /\ Hash[url] \in Table!FileBuckets => url \in FoundIn(u, r.node)
<1> DEFINE text == Text(u.ids, u.rows)
           new == MemoryOf(u, mem)
           b == Hash[url]
           o == Origin(value)
<1>1. new = MemoryOf(t, mem) /\ Table!Held(new, got)
  BY ReadsTheSame
<1>2. Spells(text, mem) /\ Spells(Text(t.ids, t.rows), mem)
  BY SpellsDomains, SpellsLater
<1>3. new \in Memory(Urls, Origins)
  BY <1>2, ReadType DEF MemoryOf
<1>4. b \notin Table!FileBuckets => FindNodeByKey(new, Table!Text, b, url) = Null
  <2>1. FindNodeByKey(MemoryOf(t, mem), Table!Text, b, url)
        = FindNodeByKey(mem, Text(t.ids, t.rows), b, url)
    BY <1>2, SameFind DEF MemoryOf
  <2> QED
    BY <1>1, <2>1
<1>5. b \in Buckets
  BY DEF RelayAssumption
<1>9. b \in Table!FileBuckets => o \in Table!StaticRows /\ got # Addrs
  BY OriginIs, TableIs
<1>10. o \in Origins /\ o # Null
  BY OriginIs
<1> HIDE DEF text, b, o
<1>6. PICK q \in InsertHashItem(new, got, b, url, o) :
        q.node = ReadAs(text, r.node) /\ q.alloc = r.alloc
  <2>1. r \in InsertHashItem(mem, got, b, key, value) /\ text[key] = url
    BY DEF text, b
  <2>2. Mirrored(text, mem, got, b, url, value, r)
    BY <1>2, <1>5, <2>1, InsertReads
  <2>3. new = ReadAs(text, mem)
    BY DEF MemoryOf, text
  <2> QED
    BY <2>2, <2>3 DEF Mirrored, o
<1> HIDE DEF new
<1>7. b \notin Table!FileBuckets => Table!RowIn(new, url) = Null
  <2>1. b \notin Table!FileBuckets => Table!FindNodeByKey(new, Table!Text, b, url) = Null
    BY <1>4, TableOps
  <2> QED
    BY <2>1 DEF Table!RowIn, Table!FindValueByKey, b
<1>8. /\ Table!Held(q.node, q.alloc)
      /\ \/ \A j \in Urls : Table!RowIn(q.node, j) = IF j = url /\ Table!RowIn(new, url) = Null
                                                     THEN o ELSE Table!RowIn(new, j)
         \/ /\ b \notin Table!FileBuckets
            /\ \A j \in Urls : Table!RowIn(q.node, j) = Table!RowIn(new, j)
  <2>1. q \in Table!InsertHashItem(new, got, b, url, o)
    BY <1>6, TableOps
  <2>2. new \in Table!Memory(Urls, Table!Rows) /\ o \in Table!Rows
    BY <1>3, <1>10, TableIs
  <2> QED
    BY <1>1, <1>7, <1>9, <2>1, <2>2, Table!InsertStep, TableAssumptions
       DEF b, Table!MemoryAssumption, Table!TableAssumption
<1>11. q.node = MemoryOf(u, r.node)
  BY <1>6 DEF MemoryOf, text
<1>12. \A j \in Urls : Table!RowIn(new, j) # Null => Table!RowIn(q.node, j) # Null
  BY <1>8, <1>10
<1>13. b \in Table!FileBuckets => Table!RowIn(q.node, url) # Null
  BY <1>8, <1>10
<1> QED
  BY <1>1, <1>6, <1>8, <1>11, <1>12, <1>13 DEF FoundIn, b

\* A domain of no line that a lookup finds is taken out.
LEMMA HoldsRemoved ==
  ASSUME NEW t, NEW mem \in Memory(KeyRefs, DnsRow), NEW got \in SUBSET Addrs,
         Agree(t, mem), Written(t.rows, t.count), Table!Held(MemoryOf(t, mem), got),
         NEW url \in Urls, Hash[url] \notin Table!FileBuckets, NEW n \in Nodes,
         n = FindNodeByKey(mem, Text(t.ids, t.rows), Hash[url], url),
         NEW r, r = RemoveHashItemByNode(mem, got, n)
  PROVE  /\ Table!Held(MemoryOf(t, r.node), r.alloc)
         /\ \A v \in FoundIn(t, mem) : Hash[v] # Hash[url] => v \in FoundIn(t, r.node)
<1> DEFINE text == Text(t.ids, t.rows)
           new == ReadAs(text, mem)
           q == RemoveHashItemByNode(new, got, n)
<1>1. Spells(text, mem)
  BY SpellsDomains
<1>2. new \in Memory(Urls, Origins)
  BY <1>1, ReadType
<1> HIDE DEF text
<1>3. q.node = ReadAs(text, r.node) /\ q.alloc = r.alloc
  BY <1>1, RemoveReads
<1>4. n = FindNodeByKey(new, Table!Text, Hash[url], url)
  BY <1>1, SameFind DEF text
<1>5. n # Null
  BY NullAssumption, MemoryAssumption DEF Nodes
<1>6. Table!Held(new, got)
  BY DEF MemoryOf, text
<1> HIDE DEF new, q
<1>7. /\ Table!Held(q.node, q.alloc)
      /\ \A j \in Urls : Hash[j] # Hash[url] => Table!RowIn(q.node, j) = Table!RowIn(new, j)
  <2>1. q = Table!RemoveHashItemByNode(new, got, n)
        /\ n = Table!FindNodeByKey(new, Table!Text, Hash[url], url)
    BY <1>4, TableOps DEF q
  <2>2. new \in Table!Memory(Urls, Table!Rows)
    BY <1>2, TableIs
  <2> QED
    BY <1>5, <1>6, <2>1, <2>2, Table!RemoveStep, TableAssumptions
       DEF Table!MemoryAssumption, Table!TableAssumption
<1>8. q.node = MemoryOf(t, r.node) /\ new = MemoryOf(t, mem)
  BY <1>3 DEF MemoryOf, text, new
<1> QED
  BY <1>3, <1>7, <1>8 DEF FoundIn

\* A domain that is found in a bucket of the file has the row of a line.
LEMMA HoldsLine ==
  ASSUME NEW t, NEW mem \in Memory(KeyRefs, DnsRow), NEW got \in SUBSET Addrs,
         Agree(t, mem), Written(t.rows, t.count), Table!Held(MemoryOf(t, mem), got),
         NEW url \in FoundIn(t, mem), Hash[url] \in Table!FileBuckets,
         NEW n, n = FindNodeByKey(mem, Text(t.ids, t.rows), Hash[url], url)
  PROVE  n \in Nodes /\ n # Null /\ mem[n].value \in DnsRow /\ mem[n].value < Len(File)
<1> DEFINE text == Text(t.ids, t.rows)
           new == ReadAs(text, mem)
<1>1. Spells(text, mem) /\ url \in Urls
  BY SpellsDomains DEF FoundIn
<1>2. new \in Memory(Urls, Origins)
  BY <1>1, ReadType
<1>3. Table!Held(new, got) /\ Table!RowIn(new, url) # Null
  BY DEF MemoryOf, text, FoundIn
<1> HIDE DEF text
<1>4. n = FindNodeByKey(new, Table!Text, Hash[url], url)
  BY <1>1, SameFind DEF text
<1> HIDE DEF new
<1>5. n # Null /\ Table!RowIn(new, url) = new[n].value
  <2>1. n = Table!FindNodeByKey(new, Table!Text, Hash[url], url)
    BY <1>4, TableOps
  <2> QED
    BY <1>3, <2>1 DEF Table!RowIn, Table!FindValueByKey
<1>6. n \in Nodes
  BY <1>5 DEF FindNodeByKey
<1>7. new[n].value \in 1 .. Len(File)
  <2>1. new \in Table!Memory(Urls, Table!Rows)
    BY <1>2, TableIs
  <2>2. Table!RowIn(new, url) \in Table!StaticRows \cup {Null}
    BY <1>1, <1>3, <2>1, Table!FileRow, TableAssumptions
       DEF Table!MemoryAssumption, Table!TableAssumption
  <2> QED
    BY <1>3, <1>5, <2>2, TableIs
<1>8. ~Hole(mem, n)
  <2>1. Hole(mem, n) => new[n].value = Null
    BY <1>6 DEF new, ReadAs, ReadNode, Filled, ValueRead, Hole
  <2> QED
    BY <1>3, <1>5, <2>1
<1>9. new[n].value = Origin(mem[n].value)
  BY <1>1, <1>6, <1>8, ReadType DEF new
<1>10. mem[n].value \in DnsRow
  BY <1>6, <1>8 DEF Memory, Hole
<1> QED
  BY <1>5, <1>6, <1>7, <1>9, <1>10, OriginIs

\* While the memory of the table is held, every loop ends, on nodes not freed.
LEMMA HoldsIntact ==
  ASSUME NEW t, NEW mem \in Memory(KeyRefs, DnsRow), NEW got \in SUBSET Addrs,
         Agree(t, mem), Written(t.rows, t.count), Table!Held(MemoryOf(t, mem), got),
         NEW b \in Buckets
  PROVE  ~Endless(mem, b) /\ ~Dangling(mem, got, b)
<1> DEFINE text == Text(t.ids, t.rows)
           new == ReadAs(text, mem)
<1>1. Spells(text, mem)
  BY SpellsDomains
<1>2. new \in Memory(Urls, Origins)
  BY <1>1, ReadType
<1>3. \A i \in Steps : Visits(new, b)[i] = Visits(mem, b)[i]
  BY <1>1, SameVisits
<1>4. Table!Held(new, got) /\ new \in Table!Memory(Urls, Table!Rows)
  BY <1>2, TableIs DEF MemoryOf
<1> HIDE DEF new
<1>5. ~Table!Endless(new, b) /\ ~Table!Dangling(new, got, b)
  BY <1>4, Table!HeldIntact, TableAssumptions DEF Table!MemoryAssumption, Table!TableAssumption
<1>6. /\ Table!Endless(new, b) <=> Endless(new, b)
      /\ Table!Dangling(new, got, b) <=> Dangling(new, got, b)
  BY TableOps DEF Table!Endless, Endless, Table!Dangling, Dangling, Table!Cardinality, Cardinality
<1>7. Cardinality(Addrs) + 1 \in Steps
  BY MemoryAssumption, FS_CardinalityType DEF Steps
<1> QED
  BY <1>3, <1>5, <1>6, <1>7 DEF Endless, Dangling

\* A node is in the bucket of the domain its key spells.
LEMMA HoldsHomed ==
  ASSUME NEW t, NEW mem \in Memory(KeyRefs, DnsRow), NEW got \in SUBSET Addrs,
         Agree(t, mem), Written(t.rows, t.count), Table!Held(MemoryOf(t, mem), got),
         NEW b \in Buckets, NEW i \in Steps, NEW n, n = Visits(mem, b)[i], n # Null,
         ~Hole(mem, n)
  PROVE  n \in Nodes /\ Hash[Text(t.ids, t.rows)[mem[n].key]] = b
<1> DEFINE text == Text(t.ids, t.rows)
           new == ReadAs(text, mem)
<1>1. Spells(text, mem)
  BY SpellsDomains
<1>2. new \in Memory(Urls, Origins)
  BY <1>1, ReadType
<1>3. Visits(new, b)[i] = n
  BY <1>1, SameVisits
<1>4. Table!Held(new, got) /\ new \in Table!Memory(Urls, Table!Rows)
  BY <1>2, TableIs DEF MemoryOf
<1> HIDE DEF new, text
<1>5. n \in Table!Nodes /\ (new[n].key = Null \/ Hash[new[n].key] = b)
  <2>1. i \in Table!Steps /\ n = Table!Visits(new, b)[i]
    BY <1>3, TableOps
  <2> QED
    BY <1>4, <2>1, Table!HeldHomed, TableAssumptions
       DEF Table!MemoryAssumption, Table!TableAssumption
<1>6. n \in Nodes
  BY <1>5, TableOps
<1>7. new[n].key = text[mem[n].key] /\ text[mem[n].key] \in Urls
  BY <1>1, <1>6, ReadType DEF Spells, new
<1>8. Null \notin Urls
  BY NullAssumption
<1> QED
  BY <1>5, <1>6, <1>7, <1>8 DEF text

-----------------------------------------------------------------------------
\* Line i of the file is in row i - 1.
LineKept(rows, i) ==
    rows[i - 1] = [domain |-> File[i].domain, data |-> File[i].data, TTL |-> StaticTTL]

\* What a lookup of a domain of the file ends at does not depend on the network.
Obeyed == reply # Null /\ FileSays(reply.url) # {} =>
            reply.url \in PtrUrls \/ reply.data \in FileSays(reply.url)

TableInv ==
    /\ AddressInv
    /\ Written(dnsTable, dnsRowCount)
    /\ Table!Held(MemoryOf(Rings, node), alloc)
    /\ line <= dnsRowCount
    /\ \A i \in 1 .. line : LineKept(dnsTable, i) /\ File[i].domain \in FoundIn(Rings, node)
    /\ line < Len(File) => Cardinality(alloc) <= line
    /\ \A m \in net : ~InFile(m.url)
    /\ Obeyed

LEMMA TableInvGives ==
  ASSUME TableInv
  PROVE  /\ TypeOK /\ Rings.ids = idTable /\ Rings.taken = idRowCount
         /\ Rings.rows = dnsTable /\ Rings.count = dnsRowCount
         /\ node \in Memory(KeyRefs, DnsRow) /\ alloc \in SUBSET Addrs
         /\ line \in 0 .. Len(File) /\ Len(File) \in Nat
         /\ Agree(Rings, node) /\ Written(Rings.rows, Rings.count)
         /\ Table!Held(MemoryOf(Rings, node), alloc)
BY TypeSplit DEF TableInv, AddressInv, TablesOK, Rings

LEMMA TableInit == Init => TableInv
<1> SUFFICES ASSUME Init PROVE TableInv
  OBVIOUS
<1>1. AddressInv
  BY AddressInit
<1>2. node = NewHashTable /\ alloc = {} /\ dnsRowCount = 0 /\ line = 0 /\ net = {}
      /\ reply = Null
  BY DEF Init
<1>3. \A j \in DnsRow : ~(j < 0)
  BY DEF DnsRow
<1>4. Written(dnsTable, dnsRowCount) /\ 1 .. line = {} /\ line <= dnsRowCount
  BY <1>2, <1>3 DEF Written
<1>5. ASSUME NEW text PROVE ReadAs(text, NewHashTable) = NewHashTable
  <2>1. ReadNode(text, ClearedNode) = ClearedNode
    BY DEF ReadNode, ClearedNode, Filled, KeyRead, ValueRead
  <2> QED
    BY <2>1 DEF ReadAs, NewHashTable
<1>6. Table!Held(NewHashTable, {})
  BY Table!NewHeld, TableOps, TableAssumptions DEF Table!MemoryAssumption, Table!TableAssumption
<1>7. Cardinality(alloc) <= line
  BY <1>2, FS_EmptySet
<1>8. Table!Held(MemoryOf(Rings, node), alloc)
  BY <1>2, <1>5, <1>6 DEF MemoryOf
<1> QED
  BY <1>1, <1>2, <1>4, <1>7, <1>8 DEF TableInv, Obeyed

\* While the relay serves, a domain of the file is found, unexpired, as the file
\* gives it.
LEMMA FileServes ==
  ASSUME TableInv, Serving, NEW u \in Urls, InFile(u)
  PROVE  /\ Result(u) # Null /\ Fresh(Result(u))
         /\ dnsTable[Result(u)].data \in FileSays(u)
<1> DEFINE n == FindNode(u)
           v == node[n].value
<1>1. u \in FoundIn(Rings, node) /\ Hash[u] \in Table!FileBuckets /\ line = Len(File)
  BY InFileIs DEF TableInv, InFile, Serving
<1>2. n = FindNodeByKey(node, Text(Rings.ids, Rings.rows), Hash[u], u)
  BY DEF FindNode, Rings
<1> HIDE DEF n
<1>3. n # Null /\ v \in DnsRow /\ v < Len(File)
  BY <1>1, <1>2, TableInvGives, HoldsLine
<1>4. Result(u) = v
  BY <1>3 DEF Result, n
<1> HIDE DEF v
<1>5. v + 1 \in 1 .. line /\ (v + 1) - 1 = v
  BY <1>1, <1>3, LinesAre DEF DnsRow
<1>6. dnsTable[v] = [domain |-> File[v + 1].domain, data |-> File[v + 1].data,
                     TTL |-> StaticTTL]
  BY <1>5 DEF TableInv, LineKept
<1>7. dnsTable[v].domain = u
  <2>1. Hash[u] \in Buckets /\ TypeOK /\ Agree(Rings, node)
    BY TableInvGives
  <2>2. ~Endless(node, Hash[u])
    BY <2>1, TableInvGives, HoldsIntact
  <2>3. Result(u) # Null
    BY <1>3, <1>4, NullAssumption
  <2> QED
    BY <1>4, <2>1, <2>2, <2>3, ResultIsRight
<1>8. Fresh(v)
  <2>1. ToSecond \in 0 .. Month - 1
    BY TableInvGives DEF ToSecond, TypeOK
  <2> QED
    BY <1>6, <2>1 DEF Fresh, StaticTTL
<1>9. dnsTable[v].data \in FileSays(u)
  <2>1. v + 1 \in DOMAIN File /\ File[v + 1].domain = u
    BY <1>1, <1>5, <1>6, <1>7
  <2> QED
    BY <1>6, <2>1 DEF FileSays
<1> QED
  BY <1>3, <1>4, <1>8, <1>9, NullAssumption

LEMMA InsertAllocs ==
  ASSUME NEW mem, NEW got, NEW b, NEW key, NEW value,
         NEW r \in InsertHashItem(mem, got, b, key, value)
  PROVE  r.alloc = got \/ \E a \in Addrs \ got : r.alloc = got \cup {a}
<1>1. CASE Hole(mem, b)
  BY <1>1 DEF InsertHashItem
<1>2. CASE ~Hole(mem, b)
  <2> DEFINE At(a) == [mem EXCEPT ![ChainEnd(mem, b)[1]].next = a,
                                  ![a] = [key |-> key, value |-> value,
                                          prev |-> ChainEnd(mem, b)[2], next |-> Null]]
  <2>1. \/ r = [node |-> mem, alloc |-> got]
        \/ \E a \in Addrs \ got : r = [node |-> At(a), alloc |-> got \cup {a}]
    BY <1>2, Zenon DEF InsertHashItem
  <2> HIDE DEF At
  <2> QED
    BY <2>1
<1> QED
  BY <1>1, <1>2

LEMMA TableLoad ==
  ASSUME Table!AtMostThree, FileFits, TableInv, LoadRow, AddressInv'
  PROVE  TableInv'
<1> DEFINE d == File[line'].domain
           key == <<"dnsTable", dnsRowCount>>
           row == [domain |-> d, data |-> File[line'].data, TTL |-> StaticTTL]
           t == Rings
           u == Rings'
<1>1. /\ TypeOK /\ TypeOK' /\ line < Len(File) /\ line' = line + 1 /\ dnsRowCount = line
      /\ dnsRowCount' = dnsRowCount + 1 /\ line' \in 1 .. Len(File) /\ line \in Nat
      /\ net' = {} /\ reply' = reply /\ Obeyed /\ Written(dnsTable, dnsRowCount)
      /\ Cardinality(alloc) <= line
  BY DEF TableInv, AddressInv, Loading, LoadRow, TypeOK
<1>2. /\ node \in Memory(KeyRefs, DnsRow) /\ alloc \in SUBSET Addrs
      /\ dnsRowCount \in DnsRow /\ key \in KeyRefs /\ DOMAIN dnsTable = DnsRow
      /\ Agree(t, node) /\ Written(t.rows, t.count) /\ Table!Held(MemoryOf(t, node), alloc)
  <2>1. dnsRowCount \in DnsRow /\ DOMAIN dnsTable = DnsRow
    BY <1>1 DEF TypeOK
  <2>2. key \in KeyRefs
    BY <2>1 DEF KeyRefs
  <2> QED
    BY <2>1, <2>2, TableInvGives
<1>3. /\ t.ids = idTable /\ t.taken = idRowCount /\ t.rows = dnsTable /\ t.count = dnsRowCount
      /\ u.ids = idTable /\ u.taken = idRowCount /\ u.rows = dnsTable'
      /\ u.count = dnsRowCount + 1
  BY <1>1 DEF Rings, LoadRow
<1>4. d \in Urls /\ Hash[d] \in Table!FileBuckets
  <2>1. d \in Urls /\ InFile(d)
    BY <1>1, FileType DEF InFile
  <2> HIDE DEF d
  <2> QED
    BY <2>1, InFileIs
<1>5. /\ dnsTable'[dnsRowCount] = row
      /\ \A j \in DnsRow : j < dnsRowCount => dnsTable'[j] = dnsTable[j]
  BY <1>1, <1>2 DEF LoadRow
<1>6. PICK r \in InsertHashItem(node, alloc, Hash[d], key, dnsRowCount) :
        node' = r.node /\ alloc' = r.alloc
  BY DEF LoadRow
<1>7. RingsOK(t) /\ RingsOK(u)
  BY <1>1 DEF Rings, RingsOK, TypeOK
<1>8. row.domain = d
  OBVIOUS
<1> HIDE DEF t, u, key, d, row
<1>9. Extends(t, u)
  <2>1. idRowCount \in Int /\ dnsRowCount \in Int
    BY <1>1, <1>2 DEF TypeOK, IdRow, DnsRow
  <2> QED
    BY <1>3, <1>5, <1>7, <2>1 DEF Extends
<1>10. Text(u.ids, u.rows)[key] = d
  BY <1>2, <1>3, <1>5, <1>8, TextIs DEF key
<1>11. IsFiniteSet(alloc) /\ alloc # Addrs
  <2>1. IsFiniteSet(alloc)
    BY <1>2, MemoryAssumption, FS_Subset
  <2>2. Cardinality(alloc) \in Nat
    BY <2>1, FS_CardinalityType
  <2> QED
    BY <1>1, <2>1, <2>2, LinesAre DEF FileFits
<1>12. /\ Table!Held(MemoryOf(u, r.node), r.alloc)
       /\ FoundIn(t, node) \subseteq FoundIn(u, r.node) /\ d \in FoundIn(u, r.node)
  BY <1>1, <1>2, <1>4, <1>6, <1>9, <1>10, <1>11, HoldsInserted
<1>13. Written(dnsTable', dnsRowCount')
  <2>1. ASSUME NEW j \in DnsRow, j < dnsRowCount' PROVE dnsTable'[j].domain \in Urls
    <3>1. j < dnsRowCount \/ j = dnsRowCount
      BY <1>1, <1>2, <2>1 DEF DnsRow
    <3> QED
      BY <1>1, <1>4, <1>5, <1>8, <3>1 DEF Written
  <2> QED
    BY <2>1 DEF Written
<1>14. ASSUME NEW i \in 1 .. line'
       PROVE  LineKept(dnsTable', i) /\ File[i].domain \in FoundIn(u, node')
  <2>1. i \in 1 .. line \/ i = line'
    BY <1>1
  <2>2. CASE i \in 1 .. line
    <3>1. LineKept(dnsTable, i) /\ File[i].domain \in FoundIn(t, node)
      BY <2>2 DEF TableInv, t
    <3>2. i - 1 \in DnsRow /\ i - 1 < dnsRowCount
      BY <1>1, <1>2, <2>2 DEF DnsRow
    <3> QED
      BY <1>5, <1>6, <1>12, <3>1, <3>2 DEF LineKept
  <2>3. CASE i = line'
    <3>1. i - 1 = dnsRowCount
      BY <1>1, <2>3
    <3> QED
      BY <1>5, <1>6, <1>12, <2>3, <3>1 DEF LineKept, row, d
  <2> QED
    BY <2>1, <2>2, <2>3
<1>15. Cardinality(alloc') <= line'
  <2>1. Cardinality(alloc) \in Nat
    BY <1>11, FS_CardinalityType
  <2>2. CASE alloc' = alloc
    BY <1>1, <2>1, <2>2
  <2>3. ASSUME NEW a \in Addrs \ alloc, alloc' = alloc \cup {a} PROVE Cardinality(alloc') <= line'
    <3>1. Cardinality(alloc \cup {a}) = Cardinality(alloc) + 1
      BY <1>11, FS_AddElement
    <3> QED
      BY <1>1, <2>1, <2>3, <3>1
  <2> QED
    BY <1>6, <2>2, <2>3, InsertAllocs
<1>16. line' <= dnsRowCount' /\ Obeyed' /\ \A m \in net' : ~InFile(m.url)
  <2>1. line' <= dnsRowCount' /\ \A m \in net' : ~InFile(m.url)
    BY <1>1
  <2>2. Obeyed'
    BY <1>1 DEF Obeyed, FileSays
  <2> QED
    BY <2>1, <2>2
<1> QED
  BY <1>6, <1>12, <1>13, <1>14, <1>15, <1>16 DEF TableInv, u, LineKept, FoundIn, InFile

\* A request rewrites no row that a node names.
LEMMA TableRequest ==
  ASSUME OneLap, TableInv, TypeOK', AddressInv', NEW c \in Clients, NEW q \in ClientIds,
         NEW u \in Urls, GetNewID(c, q, u), UNCHANGED <<dnsTable, dnsRowCount, line>>, Serving,
         Agree(Rings, node'), Table!Held(MemoryOf(Rings, node'), alloc'),
         \A i \in 1 .. line : File[i].domain \in FoundIn(Rings, node'),
         \A m \in net' : ~InFile(m.url), Obeyed'
  PROVE  TableInv'
<1> DEFINE t == Rings
           v == Rings'
<1>1. RingsOK(t) /\ RingsOK(v) /\ TypeOK
  BY TableInvGives DEF Rings, RingsOK, TypeOK
<1>2. /\ t.taken <= v.taken /\ t.count <= v.count
      /\ \A i \in IdRow : i < t.taken => v.ids[i].url = t.ids[i].url
      /\ \A j \in DnsRow : v.rows[j] = t.rows[j]
  <2>1. dnsRowCount \in Int
    BY <1>1 DEF TypeOK, DnsRow
  <2> QED
    BY <1>1, <2>1, TakesNext DEF Rings
<1> HIDE DEF t, v
<1>3. Extends(t, v)
  BY <1>1, <1>2 DEF Extends
<1>4. MemoryOf(v, node') = MemoryOf(t, node')
  BY <1>3, ReadsTheSame DEF t
<1>5. Table!Held(MemoryOf(v, node'), alloc')
  BY <1>4 DEF t
<1>6. ~(line' < Len(File))
  <2>1. line' = Len(File) /\ Len(File) \in Nat
    BY DEF Serving
  <2> QED
    BY <2>1
<1>7. FoundIn(v, node') = FoundIn(t, node')
  BY <1>4 DEF FoundIn
<1>8. Written(dnsTable, dnsRowCount) /\ line <= dnsRowCount
      /\ \A i \in 1 .. line : LineKept(dnsTable, i)
  BY DEF TableInv
<1>9. \A i \in 1 .. line : File[i].domain \in FoundIn(v, node')
  BY <1>7 DEF t
<1> QED
  BY <1>5, <1>6, <1>8, <1>9 DEF TableInv, v, LineKept, FoundIn, InFile

\* A request that the relay answers itself.
LEMMA TableAnswered ==
  ASSUME OneLap, TableInv, TypeOK', AddressInv', NEW c \in Clients, NEW q \in ClientIds,
         NEW u \in Urls, PtrRequest(c, q, u) \/ CacheHit(c, q, u)
  PROVE  TableInv'
<1>1. /\ GetNewID(c, q, u) /\ Serving
      /\ UNCHANGED <<dnsTable, dnsRowCount, line, node, alloc, net>>
  BY DEF PtrRequest, CacheHit, RequestRead
<1>2. /\ Agree(Rings, node') /\ Table!Held(MemoryOf(Rings, node'), alloc')
      /\ \A i \in 1 .. line : File[i].domain \in FoundIn(Rings, node')
      /\ \A m \in net' : ~InFile(m.url)
  BY <1>1, TableInvGives DEF TableInv
<1>3. Obeyed'
  <2>1. CASE PtrRequest(c, q, u)
    BY <2>1 DEF PtrRequest, Answer, Obeyed
  <2>2. CASE CacheHit(c, q, u)
    <3>1. reply'.url = u /\ reply'.data = dnsTable[Result(u)].data
      BY <2>2 DEF CacheHit, Answer
    <3>2. FileSays(u) # {} => dnsTable[Result(u)].data \in FileSays(u)
      BY <1>1, InFileIs, FileServes
    <3> QED
      BY <3>1, <3>2 DEF Obeyed, FileSays
  <2> QED
    BY <2>1, <2>2
<1> QED
  BY <1>1, <1>2, <1>3, TableRequest

LEMMA TableForward ==
  ASSUME OneLap, Table!FileApart, TableInv, TypeOK', AddressInv', NEW c \in Clients,
         NEW q \in ClientIds, NEW u \in Urls, Forward(c, q, u)
  PROVE  TableInv'
<1> DEFINE t == Rings
<1>1. /\ TypeOK /\ Agree(t, node) /\ Written(t.rows, t.count)
      /\ Table!Held(MemoryOf(t, node), alloc) /\ node \in Memory(KeyRefs, DnsRow)
      /\ alloc \in SUBSET Addrs /\ line \in 0 .. Len(File)
  BY TableInvGives
<1>2. /\ GetNewID(c, q, u) /\ UNCHANGED <<dnsTable, dnsRowCount, line>> /\ Serving
      /\ reply' = Null
      /\ net' \subseteq net \cup {[row |-> idRowCount, url |-> u, client |-> c, id |-> q,
                                   sent |-> now]}
  BY DEF Forward, RequestRead
<1>3. ~InFile(u) /\ Hash[u] \notin Table!FileBuckets
  <2>1. ~InFile(u)
    BY <1>2, FileServes DEF Forward
  <2> QED
    BY <2>1, InFileIs
<1>4. /\ Agree(t, node') /\ Table!Held(MemoryOf(t, node'), alloc')
      /\ \A i \in 1 .. line : File[i].domain \in FoundIn(t, node')
  <2>1. CASE Result(u) = Null
    BY <1>1, <2>1 DEF Forward, TableInv
  <2>2. CASE Result(u) # Null
    <3> DEFINE n == FindNode(u)
               r == RemoveHashItemByNode(node, alloc, n)
    <3>1. n \in Nodes
      BY <1>1, <2>2, ResultIsRight DEF Forward
    <3>2. node' = r.node /\ alloc' = r.alloc
      BY <2>2 DEF Forward
    <3>3. n = FindNodeByKey(node, Text(t.ids, t.rows), Hash[u], u)
      BY DEF FindNode, Rings
    <3>4. Agree(t, r.node)
      BY <1>1, <3>1, RemoveAgrees
    <3>5. \A i \in 1 .. line : /\ File[i].domain \in FoundIn(t, node)
                               /\ Hash[File[i].domain] # Hash[u]
      <4>1. ASSUME NEW i \in 1 .. line PROVE Hash[File[i].domain] # Hash[u]
        <5>1. i \in 1 .. Len(File)
          BY <1>1, LinesAre
        <5> QED
          BY <1>3, <5>1, TableIs
      <4> QED
        BY <4>1 DEF TableInv
    <3> HIDE DEF n, t
    <3>6. /\ Table!Held(MemoryOf(t, r.node), r.alloc)
          /\ \A v \in FoundIn(t, node) : Hash[v] # Hash[u] => v \in FoundIn(t, r.node)
      BY <1>1, <1>3, <3>1, <3>3, HoldsRemoved
    <3> QED
      BY <3>2, <3>4, <3>5, <3>6
  <2> QED
    BY <2>1, <2>2
<1>5. \A m \in net' : ~InFile(m.url)
  <2>1. \A m \in net : ~InFile(m.url)
    BY DEF TableInv
  <2> QED
    BY <1>2, <1>3, <2>1
<1>6. Obeyed'
  BY <1>2 DEF Obeyed
<1> QED
  BY <1>2, <1>4, <1>5, <1>6, TableRequest DEF t

\* Storing records, up to the end of the ring: s is [rows, count, node, alloc].
Stored(s) ==
    /\ StoreOK(s) /\ Agree(RingsOf(s), s.node) /\ Written(s.rows, s.count)
    /\ Table!Held(MemoryOf(RingsOf(s), s.node), s.alloc)
    /\ line <= s.count
    /\ \A i \in 1 .. line : /\ LineKept(s.rows, i)
                            /\ File[i].domain \in FoundIn(RingsOf(s), s.node)

\* One record of an answer: for a domain that is in the table there is nothing to do.
LEMMA StoreHolds ==
  ASSUME Table!AtMostThree, Table!FileApart, TypeOK, NEW s, Stored(s), NEW i \in IdRow,
         i < idRowCount, NEW data \in Urls, data = idTable[i].url, ~InFile(data),
         NEW ttl \in TTLs, NEW x \in StoreRecord(s, i, data, ttl),
         x.count # s.count => s.count + 1 < DnsRows, DnsRows > 2
  PROVE  Stored(x)
<1> DEFINE url == idTable[i].url
           key == <<"idTable", i>>
           row == [domain |-> url, data |-> data, TTL |-> ToSecond + ttl]
           t == RingsOf(s)
           u == RingsOf(x)
           b == Hash[url]
<1>1. CASE x = s
  BY <1>1
<1>2. CASE x # s
  <2>1. PICK r \in InsertHashItem(s.node, s.alloc, b, key, s.count) :
          x = [rows |-> [s.rows EXCEPT ![s.count] = row], count |-> (s.count + 1) % DnsRows,
               node |-> r.node, alloc |-> r.alloc]
    BY <1>2 DEF StoreRecord
  <2>2. FindNodeByKey(s.node, Text(idTable, s.rows), b, url) = Null
    BY <1>2 DEF StoreRecord
  <2>3. /\ s.node \in Memory(KeyRefs, DnsRow) /\ s.alloc \in SUBSET Addrs
        /\ s.count \in DnsRow /\ key \in KeyRefs /\ DOMAIN s.rows = DnsRow
    BY DEF Stored, StoreOK, KeyRefs
  <2>4. s.count \in Nat /\ s.count + 1 <= DnsRows
    BY <2>3 DEF DnsRow
  <2>5. x.count = s.count + 1
    <3>1. x.count = (s.count + 1) % DnsRows
      BY <2>1
    <3>2. CASE s.count + 1 = DnsRows
      <4>1. x.count = 0
        BY <3>1, <3>2
      <4> QED
        BY <3>2, <4>1
    <3>3. CASE s.count + 1 < DnsRows
      <4>1. s.count \in 0 .. DnsRows - 1
        BY <2>4, <3>3
      <4>2. (s.count + 1) % DnsRows = s.count + 1
        BY <3>3, <4>1, NextIs
      <4> QED
        BY <3>1, <4>2
    <3> QED
      BY <2>4, <3>2, <3>3
  <2>6. /\ x.rows[s.count].domain = url
        /\ \A j \in DnsRow : j < s.count => x.rows[j] = s.rows[j]
    <3>1. x.rows = [s.rows EXCEPT ![s.count] = row]
      BY <2>1
    <3>2. row.domain = url
      OBVIOUS
    <3> HIDE DEF row
    <3> QED
      BY <2>3, <2>4, <3>1, <3>2
  <2>7. RingsOK(t) /\ RingsOK(u) /\ StoreOK(x) /\ Agree(u, x.node)
    <3>1. StoreOK(s) /\ Agree(RingsOf(s), s.node)
      BY DEF Stored
    <3>2. StoreOK(x)
      BY <3>1, StoreRecordType
    <3>3. Agree(RingsOf(x), x.node)
      BY <3>1, StoreAgrees
    <3> QED
      BY <3>1, <3>2, <3>3 DEF RingsOK, RingsOf, StoreOK, TypeOK
  <2>8. /\ t.ids = idTable /\ t.taken = idRowCount /\ t.rows = s.rows /\ t.count = s.count
        /\ u.ids = idTable /\ u.taken = idRowCount /\ u.rows = x.rows /\ u.count = x.count
    BY DEF RingsOf
  <2>9. idRowCount \in Int /\ line \in Int
    BY DEF TypeOK, IdRow
  <2>10. /\ Agree(t, s.node) /\ Written(s.rows, s.count)
         /\ Table!Held(MemoryOf(t, s.node), s.alloc) /\ url \in Urls
    BY DEF Stored
  <2>11. Text(u.ids, u.rows)[key] = url
    BY <2>8, TextIs
  <2>12. r.node = x.node /\ r.alloc = x.alloc
    BY <2>1
  <2>13. b \notin Table!FileBuckets
    BY <2>10, InFileIs
  <2>14. /\ line <= s.count
         /\ \A h \in 1 .. line : LineKept(s.rows, h) /\ File[h].domain \in FoundIn(t, s.node)
    BY DEF Stored
  <2> HIDE DEF t, u, key, row, url
  <2>15. Extends(t, u)
    BY <2>4, <2>5, <2>6, <2>7, <2>8, <2>9 DEF Extends
  <2>16. Table!Held(MemoryOf(u, r.node), r.alloc) /\ FoundIn(t, s.node) \subseteq FoundIn(u, r.node)
    <3> DEFINE mem == s.node
               got == s.alloc
               value == s.count
    <3>1. Written(t.rows, t.count)
      BY <2>8, <2>10
    <3>2. FindNodeByKey(mem, Text(t.ids, t.rows), Hash[url], url) = Null
      BY <2>2, <2>8
    <3>3. r \in InsertHashItem(mem, got, Hash[url], key, value) /\ value \in DnsRow
          /\ mem \in Memory(KeyRefs, DnsRow) /\ got \in SUBSET Addrs
      BY <2>3
    <3>4. Agree(t, mem) /\ Table!Held(MemoryOf(t, mem), got)
      BY <2>10
    <3> HIDE DEF mem, got, value
    <3>5. Table!Held(MemoryOf(u, r.node), r.alloc) /\ FoundIn(t, mem) \subseteq FoundIn(u, r.node)
      BY <2>3, <2>10, <2>11, <2>13, <2>15, <3>1, <3>2, <3>3, <3>4, HoldsInserted
    <3> QED
      BY <3>5 DEF mem
  <2>17. Written(x.rows, x.count)
    <3>1. ASSUME NEW j \in DnsRow, j < x.count PROVE x.rows[j].domain \in Urls
      <4>1. j < s.count \/ j = s.count
        BY <2>4, <2>5, <3>1 DEF DnsRow
      <4> QED
        BY <2>6, <2>10, <4>1 DEF Written
    <3> QED
      BY <3>1 DEF Written
  <2>18. line <= x.count
    BY <2>4, <2>5, <2>9, <2>14
  <2>19. ASSUME NEW h \in 1 .. line
         PROVE  LineKept(x.rows, h) /\ File[h].domain \in FoundIn(u, x.node)
    <3>1. h - 1 \in DnsRow /\ h - 1 < s.count
      BY <2>3, <2>4, <2>9, <2>14 DEF DnsRow
    <3>2. LineKept(x.rows, h)
      BY <2>6, <2>14, <3>1 DEF LineKept
    <3> QED
      BY <2>12, <2>14, <2>16, <3>2
  <2> QED
    BY <2>7, <2>12, <2>16, <2>17, <2>18, <2>19 DEF Stored, u
<1> QED
  BY <1>1, <1>2

\* All records of an answer: up to the end of the ring none of them wraps it.
LEMMA AnswerHolds ==
  ASSUME Table!AtMostThree, Table!FileApart, TableInv, NEW n \in 0 .. 2, NEW i \in IdRow,
         i < idRowCount, NEW data \in Urls, data = idTable[i].url, ~InFile(data),
         NEW ttl \in TTLs, NEW x \in StoreRecords(n, i, data, ttl),
         x.count >= dnsRowCount, DnsRows > 2
  PROVE  Stored(x)
<1> DEFINE s0 == [rows |-> dnsTable, count |-> dnsRowCount, node |-> node, alloc |-> alloc]
           after(S) == UNION {StoreRecord(s, i, data, ttl) : s \in S}
<1>0. TypeOK
  BY DEF TableInv, AddressInv
<1>1. Stored(s0) /\ s0.count = dnsRowCount
  <2>1. RingsOf(s0) = Rings
    BY DEF RingsOf, Rings
  <2>2. StoreOK(s0)
    BY <1>0, TypeSplit DEF StoreOK, TablesOK
  <2>3. Agree(RingsOf(s0), node) /\ Table!Held(MemoryOf(RingsOf(s0), node), alloc)
    BY <2>1 DEF TableInv, AddressInv
  <2>4. \A h \in 1 .. line : /\ LineKept(dnsTable, h)
                            /\ File[h].domain \in FoundIn(RingsOf(s0), node)
    BY <2>1 DEF TableInv
  <2>5. Written(dnsTable, dnsRowCount) /\ line <= dnsRowCount
    BY DEF TableInv
  <2>6. s0.rows = dnsTable /\ s0.count = dnsRowCount /\ s0.node = node /\ s0.alloc = alloc
    OBVIOUS
  <2> HIDE DEF s0
  <2> QED
    BY <2>2, <2>3, <2>4, <2>5, <2>6 DEF Stored
<1>2. \/ x = s0 \/ x \in StoreRecord(s0, i, data, ttl)
      \/ \E s \in StoreRecord(s0, i, data, ttl) : x \in StoreRecord(s, i, data, ttl)
  <2>1. x \in {s0} \/ x \in after({s0}) \/ x \in after(after({s0}))
    BY DEF StoreRecords
  <2> HIDE DEF s0
  <2> QED
    BY <2>1
<1> HIDE DEF s0
<1>3. dnsRowCount \in 0 .. DnsRows - 1
  BY <1>0 DEF TypeOK, DnsRow
<1>4. ASSUME NEW s, Stored(s), NEW z \in StoreRecord(s, i, data, ttl),
             z.count # s.count => s.count + 1 < DnsRows
      PROVE  Stored(z)
  BY <1>0, <1>4, StoreHolds
<1>5. ASSUME NEW s, Stored(s), NEW z \in StoreRecord(s, i, data, ttl)
      PROVE  z.count \in {s.count, (s.count + 1) % DnsRows} /\ StoreOK(z)
  <2>1. StoreOK(s)
    BY <1>5 DEF Stored
  <2> QED
    BY <1>0, <1>5, <2>1, StoreCounts
<1>6. CASE x \in StoreRecord(s0, i, data, ttl)
  <2>1. x.count \in {dnsRowCount, (dnsRowCount + 1) % DnsRows}
    BY <1>1, <1>5, <1>6
  <2>2. dnsRowCount + 1 = DnsRows => (dnsRowCount + 1) % DnsRows = 0
    BY <1>3
  <2>3. x.count # dnsRowCount => dnsRowCount + 1 < DnsRows
    BY <1>3, <2>1, <2>2
  <2> QED
    BY <1>1, <1>4, <1>6, <2>3
<1>7. ASSUME NEW s \in StoreRecord(s0, i, data, ttl), x \in StoreRecord(s, i, data, ttl)
      PROVE  Stored(x)
  <2>1. s.count \in {dnsRowCount, (dnsRowCount + 1) % DnsRows} /\ StoreOK(s)
    BY <1>1, <1>5
  <2>2. x.count \in {s.count, (s.count + 1) % DnsRows}
    BY <1>0, <1>7, <2>1, StoreCounts
  <2>3. /\ s.count # dnsRowCount => dnsRowCount + 1 < DnsRows
        /\ x.count # s.count => s.count + 1 < DnsRows
    BY <1>3, <2>1, <2>2, NoWrap
  <2>4. Stored(s)
    BY <1>1, <1>4, <2>3
  <2> QED
    BY <1>4, <1>7, <2>3, <2>4
<1> QED
  BY <1>1, <1>2, <1>6, <1>7

LEMMA TablePass ==
  ASSUME Table!AtMostThree, Table!FileApart, DnsRows > 2, OneLap, TableInv, AddressInv',
         NEW m \in net, NEW n \in 0 .. 2, NEW ttl \in TTLs, PassAnswer(m, n, ttl)
  PROVE  TableInv'
<1>1. /\ m.row \in IdRow /\ m.row < idRowCount
      /\ m.url \in Urls /\ m.url = idTable[m.row].url /\ ~InFile(m.url)
  BY DEF TableInv, AddressInv, PacketsKept, TypeOK, Packet
<1>2. PICK s \in StoreRecords(n, m.row, m.url, ttl) :
        /\ dnsTable' = s.rows /\ dnsRowCount' = s.count /\ node' = s.node /\ alloc' = s.alloc
        /\ s.count >= dnsRowCount
  BY DEF PassAnswer
<1>3. Stored(s)
  BY <1>1, <1>2, AnswerHolds
<1>4. net # {} /\ net' \subseteq net /\ UNCHANGED <<idTable, idRowCount, line>>
      /\ (reply' # Null => reply'.url = m.url)
  BY DEF PassAnswer, Received
<1>5. RingsOf(s) = Rings'
  BY <1>2, <1>4 DEF RingsOf, Rings
<1>6. ~(line' < Len(File))
  BY <1>4 DEF TableInv, AddressInv, Loading
<1>7. Obeyed'
  <2>1. FileSays(m.url) = {}
    BY <1>1, InFileIs
  <2> QED
    BY <1>4, <2>1 DEF Obeyed, FileSays
<1>8. \A v \in net' : ~InFile(v.url)
  BY <1>4 DEF TableInv
<1>9. /\ Written(dnsTable', dnsRowCount') /\ line' <= dnsRowCount'
      /\ Table!Held(MemoryOf(Rings', node'), alloc')
      /\ \A i \in 1 .. line' : LineKept(dnsTable', i) /\ File[i].domain \in FoundIn(Rings', node')
  BY <1>2, <1>3, <1>4, <1>5 DEF Stored
<1> QED
  BY <1>6, <1>7, <1>8, <1>9 DEF TableInv, LineKept, FoundIn, InFile

LEMMA TableNext ==
  ASSUME OneLap, DnsRows > 2, Table!FileApart, Table!AtMostThree, FileFits
  PROVE  TableInv /\ [Next]_vars => TableInv'
<1> SUFFICES ASSUME TableInv, [Next]_vars PROVE TableInv'
  OBVIOUS
<1>t. TypeOK /\ TypeOK' /\ AddressInv'
  BY TypeNext, AddressNext DEF TableInv, AddressInv
<1>1. CASE LoadRow
  BY <1>t, <1>1, TableLoad
<1>2. ASSUME NEW c \in Clients, NEW q \in ClientIds, NEW u \in Urls,
             PtrRequest(c, q, u) \/ CacheHit(c, q, u)
      PROVE  TableInv'
  BY <1>t, <1>2, TableAnswered
<1>3. ASSUME NEW c \in Clients, NEW q \in ClientIds, NEW u \in Urls, Forward(c, q, u)
      PROVE  TableInv'
  BY <1>t, <1>3, TableForward
<1>4. ASSUME NEW m \in net, NEW n \in 0 .. 2, NEW ttl \in TTLs, PassAnswer(m, n, ttl)
      PROVE  TableInv'
  BY <1>t, <1>4, TablePass
<1>5. ASSUME reply' \in {Null, reply}, net' \subseteq net, UNCHANGED <<tables, line>>
      PROVE  TableInv'
  <2>1. /\ Rings' = Rings /\ node' = node /\ alloc' = alloc /\ dnsTable' = dnsTable
        /\ dnsRowCount' = dnsRowCount /\ line' = line
    BY <1>5 DEF Rings, tables
  <2>2. Obeyed' /\ \A m \in net' : ~InFile(m.url)
    BY <1>5 DEF TableInv, Obeyed, FileSays
  <2> QED
    BY <1>t, <2>1, <2>2 DEF TableInv, LineKept, FoundIn, InFile
<1>6. ASSUME NEW m \in net, DropLate(m) PROVE TableInv'
  BY <1>5, <1>6 DEF DropLate, Received
<1>7. ASSUME NEW socket \in open, ReadError(socket) PROVE TableInv'
  BY <1>5, <1>7 DEF ReadError
<1>8. CASE Tick
  BY <1>5, <1>8 DEF Tick
<1>9. CASE UNCHANGED vars
  BY <1>5, <1>9 DEF vars
<1> QED
  BY <1>1, <1>2, <1>3, <1>4, <1>6, <1>7, <1>8, <1>9 DEF Next

LEMMA TableHolds ==
  ASSUME OneLap, DnsRows > 2, Table!FileApart, Table!AtMostThree, FileFits
  PROVE  Spec => []TableInv
BY TableInit, TableNext, PTL DEF Spec

\* In the first lap, while the file shares no bucket with other domains and no other
\* bucket has more than three, every node on a chain is in the bucket of the domain its
\* key spells, which is the domain of its row (InsertHashItem in onReadResponse and
\* loadDNSTableData).
THEOREM NodesInTheirBuckets ==
  ASSUME OneLap, DnsRows > 2, Table!FileApart, Table!AtMostThree, FileFits
  PROVE  Spec => []KeysMatchRows
<1>1. TableInv => KeysMatchRows
  <2> SUFFICES ASSUME TableInv, NEW b \in Buckets, NEW i \in Steps, NEW n,
                      n = Visits(node, b)[i], n # Null, ~Hole(node, n)
               PROVE  LET u == Text(idTable, dnsTable)[node[n].key]
                      IN  Hash[u] = b /\ dnsTable[node[n].value].domain = u
    BY DEF KeysMatchRows
  <2>1. n \in Nodes /\ Hash[Text(idTable, dnsTable)[node[n].key]] = b
    BY TableInvGives, HoldsHomed
  <2>2. Names(Rings, node[n].key, node[n].value)
    BY <2>1, TableInvGives DEF Agree
  <2> QED
    BY <2>1, <2>2 DEF Names, Rings
<1> QED
  BY <1>1, TableHolds, PTL

\* Then no loop over a chain runs for ever or into a node that was freed, and no
\* handler hangs (FindNodeByKey, InsertHashItem, RemoveHashItemByNode).
THEOREM LoopsReturn ==
  ASSUME OneLap, DnsRows > 2, Table!FileApart, Table!AtMostThree, FileFits
  PROVE  Spec => [](\A b \in Buckets : ~Endless(node, b) /\ ~Dangling(node, alloc, b))
<1>1. TableInv => \A b \in Buckets : ~Endless(node, b) /\ ~Dangling(node, alloc, b)
  BY TableInvGives, HoldsIntact
<1> QED
  BY <1>1, TableHolds, PTL

\* Then no domain of the file is resolved elsewhere, wherever it is in its bucket, if
\* none is asked for with type PTR (main.c:722).
THEOREM FileObeyed ==
  ASSUME OneLap, DnsRows > 2, Table!FileApart, Table!AtMostThree, FileFits,
         \A i \in 1 .. Len(File) : File[i].domain \notin PtrUrls
  PROVE  Spec => []BlockedStaysBlocked
<1>1. TableInv => BlockedStaysBlocked
  <2> SUFFICES ASSUME TableInv, reply # Null, FileSays(reply.url) # {}
               PROVE  reply.data \in FileSays(reply.url)
    BY DEF BlockedStaysBlocked
  <2>1. reply.url \in Urls
    BY TableInvGives DEF TypeOK, Reply
  <2>2. InFile(reply.url)
    BY <2>1, InFileIs
  <2>3. reply.url \notin PtrUrls
    BY <2>2 DEF InFile
  <2> QED
    BY <2>3 DEF TableInv, Obeyed
<1> QED
  BY <1>1, TableHolds, PTL
=============================================================================
