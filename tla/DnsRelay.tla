------------------------------- MODULE DnsRelay -------------------------------
(***************************************************************************)
(* The DNS relay, main.c: one event loop, two UDP sockets.                 *)
(*                                                                         *)
(* onReadRequest answers a client from the hash table or passes the query  *)
(* on to the external server under an id of its own, the index of a row of *)
(* idTable that remembers the client.  onReadResponse finds the row by     *)
(* that id, stores the address it reads and passes the answer back.        *)
(*                                                                         *)
(* Both tables are rings: rows are taken in turn and overwritten after     *)
(* MAX_AMOUNT requests (idTable) or insertions (dnsTable).  The hash table *)
(* owns nothing: a node's key points into idTable[i].url or                *)
(* dnsTable[j].Domain, and its value is a row of dnsTable.                 *)
(*                                                                         *)
(* A packet can be lost, duplicated, delayed and reordered on its way to   *)
(* the server and back, but lives at most Lifetime seconds.  An address is *)
(* represented by the domain it belongs to.                                *)
(***************************************************************************)
EXTENDS HashChain, Sequences, Integers

CONSTANTS
    Clients,
    ClientIds,    \* transaction ids the clients choose
    Urls,         \* domain names
    PtrUrls,      \* those of them that spell an address (asked with type PTR)
    Blocked,      \* the address 0.0.0.0
    File,         \* dns_table.txt: sequence of [domain, data]
    Hash,         \* ELFHash(url) % size
    IdRows,       \* rows of idTable   (MAX_AMOUNT)
    DnsRows,      \* rows of dnsTable  (MAX_AMOUNT)
    TTLs,         \* time-to-live of the answers
    TimeLimit,    \* seconds after which an answer is late (2)
    Month,        \* seconds until ToSecond starts again
    Lifetime,     \* no packet and no answer is older than this
    RateLimited,  \* TRUE: clients do not go round idTable within Lifetime
    OneLap,       \* TRUE: only the first lap of both rings (bound)
    MaxTime       \* bound on the clock

IdRow  == 0 .. IdRows - 1
DnsRow == 0 .. DnsRows - 1

\* Mutant: the lines of the file expire like an answer with a ttl of one second.
MutShortStaticTTL == 1

\* 0x3F3F3F3F, later than anything ToSecond returns.
StaticTTL == Month + MaxTime + 1

ASSUME RelayAssumption ==
    /\ IdRows \in Nat \ {0} /\ DnsRows \in Nat \ {0}
    /\ TTLs \subseteq Nat
    /\ TimeLimit \in Nat /\ Lifetime \in Nat /\ MaxTime \in Nat
    /\ Month \in Nat \ {0}
    /\ RateLimited \in BOOLEAN /\ OneLap \in BOOLEAN
    /\ PtrUrls \subseteq Urls
    /\ Hash \in [Urls -> Buckets]
    /\ File \in Seq([domain : Urls, data : Urls \cup {Blocked}])
    /\ Len(File) < DnsRows
    /\ Null \notin Clients \cup ClientIds \cup Urls \cup {Blocked}

VARIABLES
    now,          \* seconds since the relay started
    idTable,      \* TransIDRow: prevID, client, url, joinTime
    idRowCount,   \* next row of idTable
    dnsTable,     \* TransDNSRow: Domain, Data, TTL
    dnsRowCount,  \* next row of dnsTable
    node, alloc,  \* dnsHashTable
    line,         \* lines of dns_table.txt read so far
    open,         \* the sockets uv_close was not called on
    net,          \* queries on their way to the server, or answers on their way back
    reply         \* the packet this step sends to a client, or Null

tables == <<idTable, idRowCount, dnsTable, dnsRowCount, node, alloc>>
vars == <<now, tables, line, open, net, reply>>

\* What a key pointer reads.
KeyRefs == ({"idTable"} \X IdRow) \cup ({"dnsTable"} \X DnsRow)

\* NULL is neither an index nor a place in a table.
ASSUME NullAssumption == Null \notin KeyRefs \cup DnsRow

Text(ids, rows) ==
    [p \in KeyRefs |-> IF p[1] = "idTable" THEN ids[p[2]].url ELSE rows[p[2]].domain]

\* `url' was asked by `client' under `id' at time `sent'; the relay put it on the
\* wire under `row'.  Only url and row are in the packet, the rest is history.
Packet == [row : IdRow, url : Urls, client : Clients, id : ClientIds, sent : Nat]

\* A packet to a client: the question it repeats, the address it carries, and the
\* question that made it, which is history.
Reply == [to : Clients \cup {Null}, id : ClientIds \cup {Null}, url : Urls,
          data : Urls \cup {Blocked, Null},
          cause : [client : Clients, id : ClientIds, url : Urls, sent : Nat]]

TypeOK ==
    /\ now \in Nat
    /\ idTable \in [IdRow -> [prevID : ClientIds \cup {Null}, client : Clients \cup {Null},
                              url : Urls \cup {Null}, joinTime : Nat]]
    /\ idRowCount \in IdRow
    /\ dnsTable \in [DnsRow -> [domain : Urls \cup {Null}, TTL : Nat,
                                data : Urls \cup {Blocked, Null}]]
    /\ dnsRowCount \in DnsRow
    /\ node \in [Nodes -> [key : KeyRefs \cup {Null}, value : DnsRow \cup {Null},
                           prev : Nodes \cup {Null}, next : Nodes \cup {Null}]]
    /\ alloc \in SUBSET Addrs
    /\ line \in 0 .. Len(File)
    /\ open \in SUBSET {"local", "server"}
    /\ net \in SUBSET Packet
    /\ reply \in Reply \cup {Null}
-----------------------------------------------------------------------------
Init ==
    /\ now = 0
    /\ idTable = [i \in IdRow |-> [prevID |-> Null, client |-> Null, url |-> Null,
                                   joinTime |-> 0]]
    /\ idRowCount = 0
    /\ dnsTable = [j \in DnsRow |-> [domain |-> Null, data |-> Null, TTL |-> 0]]
    /\ dnsRowCount = 0
    /\ node = NewHashTable
    /\ alloc = {}
    /\ line = 0
    /\ open = {"local", "server"}
    /\ net = {}
    /\ reply = Null
-----------------------------------------------------------------------------
\* loadDNSTableData, one line: dnsRowCount is the line, it does not wrap here.
\* The sockets are only read when all lines are.
LoadRow ==
    /\ line < Len(File)
    /\ line' = line + 1
    /\ dnsTable' = [dnsTable EXCEPT ![dnsRowCount] =
                      [domain |-> File[line'].domain, data |-> File[line'].data,
                       TTL |-> StaticTTL]]
    /\ \E r \in InsertHashItem(node, alloc, Hash[File[line'].domain],
                               <<"dnsTable", dnsRowCount>>, dnsRowCount) :
         node' = r.node /\ alloc' = r.alloc
    /\ dnsRowCount' = line'
    /\ UNCHANGED <<now, idTable, idRowCount, open, net, reply>>

Serving == line = Len(File)
-----------------------------------------------------------------------------
\* ToSecond(SyncTime()): day of the month, hours, minutes and seconds.
ToSecond == now % Month

\* Mutant: the counter is not wrapped.
MutGetNewIDRunsOn(c, q, u) ==
    /\ OneLap => idRowCount + 1 < IdRows
    /\ idTable' = [idTable EXCEPT ![idRowCount] =
                     [prevID |-> q, client |-> c, url |-> u, joinTime |-> ToSecond]]
    /\ idRowCount' = idRowCount + 1

\* Mutant: a row that was taken before keeps its client.
MutGetNewIDKeepsClient(c, q, u) ==
    /\ OneLap => idRowCount + 1 < IdRows
    /\ idTable' = [idTable EXCEPT ![idRowCount] =
                     [prevID |-> q, client |-> IF @.client = Null THEN c ELSE @.client,
                      url |-> u, joinTime |-> ToSecond]]
    /\ idRowCount' = (idRowCount + 1) % IdRows

\* GetNewID: the next row of idTable takes the request, whoever held it.
GetNewID(c, q, u) ==
    /\ OneLap => idRowCount + 1 < IdRows
    /\ idTable' = [idTable EXCEPT ![idRowCount] =
                     [prevID |-> q, client |-> c, url |-> u, joinTime |-> ToSecond]]
    /\ idRowCount' = (idRowCount + 1) % IdRows

\* A request can be read.  At the clients' rate (bound: RateLimited) the row it
\* takes has rested for Lifetime.
RowRested ==
    \/ idTable[idRowCount].url = Null
    \/ now - idTable[idRowCount].joinTime > Lifetime

RequestRead == Serving /\ "local" \in open /\ (RateLimited => RowRested)

Answer(c, q, u, data) ==
    [to |-> c, id |-> q, url |-> u, data |-> data,
     cause |-> [client |-> c, id |-> q, url |-> u, sent |-> now]]

FindNode(u) == FindNodeByKey(node, Text(idTable, dnsTable), Hash[u], u)

\* `result': the row of dnsTable a lookup ends at.
Result(u) == IF FindNode(u) = Null THEN Null ELSE node[FindNode(u)].value

Fresh(row) == dnsTable[row].TTL > ToSecond

\* onReadRequest, type PTR: the address is spelt in the question.
PtrRequest(c, q, u) ==
    /\ RequestRead
    /\ u \in PtrUrls
    /\ GetNewID(c, q, u)
    /\ reply' = Answer(c, q, u, u)
    /\ UNCHANGED <<now, dnsTable, dnsRowCount, node, alloc, line, open, net>>

\* onReadRequest, any other type, when the table has an unexpired row.
CacheHit(c, q, u) ==
    /\ RequestRead
    /\ u \notin PtrUrls
    /\ ~Endless(node, Hash[u])
    /\ Result(u) # Null
    /\ Fresh(Result(u))
    /\ GetNewID(c, q, u)
    /\ reply' = Answer(c, q, u, dnsTable[Result(u)].data)
    /\ UNCHANGED <<now, dnsTable, dnsRowCount, node, alloc, line, open, net>>

\* onReadRequest, when the table has no row or an expired one, which it drops.
Forward(c, q, u) ==
    /\ RequestRead
    /\ u \notin PtrUrls
    /\ ~Endless(node, Hash[u])
    /\ IF Result(u) = Null THEN UNCHANGED <<node, alloc>>
       ELSE /\ ~Fresh(Result(u))
            /\ LET r == RemoveHashItemByNode(node, alloc, FindNode(u))
               IN  node' = r.node /\ alloc' = r.alloc
    /\ GetNewID(c, q, u)
    /\ net' = net \cup {m \in {[row |-> idRowCount, url |-> u, client |-> c, id |-> q,
                                sent |-> now]} : "server" \in open}
    /\ reply' = Null
    /\ UNCHANGED <<now, dnsTable, dnsRowCount, line, open>>
-----------------------------------------------------------------------------
\* Mutant: the node is given the row after the one that was written.
MutStoreNextRow(s, i, data, ttl) ==
    LET u == idTable[i].url
        succ == (s.count + 1) % DnsRows
    IN  IF FindNodeByKey(s.node, Text(idTable, s.rows), Hash[u], u) # Null THEN {s}
        ELSE {[rows  |-> [s.rows EXCEPT ![s.count] =
                            [domain |-> u, data |-> data, TTL |-> ToSecond + ttl]],
               count |-> succ,
               node  |-> r.node,
               alloc |-> r.alloc] :
              r \in InsertHashItem(s.node, s.alloc, Hash[u], <<"idTable", i>>, succ)}

\* An A record of an answer to row i: when its domain is not in the table, the
\* next row of dnsTable and a node for it.  s is [rows, count, node, alloc].
StoreRecord(s, i, data, ttl) ==
    LET u == idTable[i].url
    IN  IF FindNodeByKey(s.node, Text(idTable, s.rows), Hash[u], u) # Null THEN {s}
        ELSE {[rows  |-> [s.rows EXCEPT ![s.count] =
                            [domain |-> u, data |-> data, TTL |-> ToSecond + ttl]],
               count |-> (s.count + 1) % DnsRows,
               node  |-> r.node,
               alloc |-> r.alloc] :
              r \in InsertHashItem(s.node, s.alloc, Hash[u], <<"idTable", i>>, s.count)}

\* The results of storing n A records.
StoreRecords(n, i, data, ttl) ==
    LET before == {[rows |-> dnsTable, count |-> dnsRowCount, node |-> node, alloc |-> alloc]}
        after(S) == UNION {StoreRecord(s, i, data, ttl) : s \in S}
    IN  CASE n = 0 -> before
          [] n = 1 -> after(before)
          [] OTHER -> after(after(before))

\* Mutant: off by one second.
MutLateByOne(m) == ToSecond - idTable[m.row].joinTime > TimeLimit + 1

Late(m) == ToSecond - idTable[m.row].joinTime > TimeLimit

\* A packet that was read may still have a duplicate under way.
Received(m) == net' \in {net, net \ {m}}

\* onReadResponse: an answer that comes too late is dropped.
DropLate(m) ==
    /\ "server" \in open
    /\ Late(m)
    /\ Received(m)
    /\ reply' = Null
    /\ UNCHANGED <<now, tables, line, open>>

\* onReadResponse: n A records with one ttl; what answers m.url belongs to m.url.
PassAnswer(m, n, ttl) ==
    /\ "server" \in open
    /\ ~Late(m)
    /\ ~Endless(node, Hash[idTable[m.row].url])
    /\ \E s \in StoreRecords(n, m.row, m.url, ttl) :
         /\ dnsTable' = s.rows
         /\ dnsRowCount' = s.count
         /\ OneLap => s.count >= dnsRowCount
         /\ node' = s.node
         /\ alloc' = s.alloc
    /\ Received(m)
    /\ reply' = IF "local" \notin open THEN Null
                ELSE [to |-> idTable[m.row].client, id |-> idTable[m.row].prevID,
                      url |-> m.url, data |-> m.url,
                      cause |-> [client |-> m.client, id |-> m.id, url |-> m.url,
                                 sent |-> m.sent]]
    /\ UNCHANGED <<now, idTable, idRowCount, line, open>>

\* Either handler, nread < 0: the socket is closed and never opened again.
ReadError(socket) ==
    /\ open' = open \ {socket}
    /\ reply' = Null
    /\ UNCHANGED <<now, tables, line, net>>

\* A packet that nobody reads within its lifetime is lost.
Tick ==
    /\ now < MaxTime
    /\ now' = now + 1
    /\ net' = {m \in net : now + 1 - m.sent <= Lifetime}
    /\ reply' = Null
    /\ UNCHANGED <<tables, line, open>>

Next ==
    \/ LoadRow
    \/ \E c \in Clients, q \in ClientIds, u \in Urls :
         PtrRequest(c, q, u) \/ CacheHit(c, q, u) \/ Forward(c, q, u)
    \/ \E m \in net :
         \/ DropLate(m)
         \/ \E n \in 0 .. 2, ttl \in TTLs : PassAnswer(m, n, ttl)
    \/ \E socket \in open : ReadError(socket)
    \/ Tick

Spec == Init /\ [][Next]_vars
-----------------------------------------------------------------------------
\* Every packet a client gets answers, under the client's own id, the question
\* that client asked, although rows are reused, answers overtake each other and
\* the server's answers only name a row (GetNewID, onReadResponse).
AnswerReachesAsker ==
    reply # Null => /\ reply.to = reply.cause.client
                    /\ reply.id = reply.cause.id

\* No answer goes out more than TimeLimit seconds after its question came in
\* (README.md section 1.6), although only the row's joinTime is compared.
NoLateAnswer == reply # Null => now - reply.cause.sent <= TimeLimit

\* Every address a client gets belongs to the domain it asked for, unless the
\* file gives the domain another one (README.md:215).
FileSays(u) == {File[i].data : i \in {j \in DOMAIN File : File[j].domain = u}}

RightAddress == reply # Null => reply.data \in {reply.url} \cup FileSays(reply.url)

\* A domain the file blocks never resolves: not from the cache, not from the
\* external server (README.md:231, main.c:722).
BlockedStaysBlocked ==
    reply # Null /\ FileSays(reply.url) # {} => reply.data \in FileSays(reply.url)

\* The key a node borrows and the row it points to name one domain, the one whose
\* bucket the node is in (InsertHashItem in onReadResponse and loadDNSTableData).
KeysMatchRows ==
    \A b \in Buckets, i \in Steps :
      LET n == Visits(node, b)[i]
      IN  n # Null /\ ~Hole(node, n) =>
            LET u == Text(idTable, dnsTable)[node[n].key]
            IN  Hash[u] = b /\ dnsTable[node[n].value].domain = u
=============================================================================
