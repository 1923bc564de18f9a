------------------------------ MODULE Framing ------------------------------
(***************************************************************************)
(* How messages become bytes and bytes messages again, on both sides of    *)
(* the Pokemon game: the two classes NetworkHelper and the macros          *)
(* PROC_PROTODATA.  A message is its length, and then as many bytes.  TCP  *)
(* hands on the bytes in pieces cut anywhere, and may break; the client    *)
(* connects again.  What is read beside the beginning of a message is any  *)
(* number.                                                                 *)
(***************************************************************************)
EXTENDS Integers, SequencesExt
CONSTANTS
    Header,         \* bytes of a length; the type of a message takes as many
    Bodies,         \* lengths of the messages, type and content
    Stray,          \* numbers that may be read where no length is
    \* bounds
    MaxLinks,       \* connections of a run
    MaxSent         \* messages of a run

ASSUME FramingAssumption ==
    /\ Header \in Nat \ {0} /\ Stray \subseteq Nat
    /\ Bodies \subseteq Nat /\ \A n \in Bodies : n >= Header
    /\ MaxLinks \in Nat /\ MaxSent \in Nat

Links == 1 .. MaxLinks

VARIABLES
    state,          \* of the client's socket
    link,           \* the connection of the client's socket, or 0
    links,          \* connections so far
    m_status,       \* the client believes that it is connected
    reader,         \* the client: bytes available, and the static variables
    toClient,       \* per connection: bytes on their way
    toServer,
    accepted,       \* connections the server has accepted so far
    m_clients,      \* those it still has
    arrived,        \* the server: bytes available, per connection
    sent, got,      \* per connection: messages to the client, what it makes of them
    said, heard,    \* the same to the server
    stale,          \* connections begun with a length of the one before
    cut             \* connections of which a piece ended within a message
down == <<toClient, sent, got>>
up == <<toServer, accepted, m_clients, arrived, said, heard, cut>>
socket == <<state, link, links, m_status, stale>>
vars == <<socket, reader, down, up>>

Init ==
    /\ state = "connecting" /\ link = 0 /\ links = 0 /\ m_status = FALSE
    /\ reader = [buf |-> <<>>, flag |-> TRUE, length |-> 0]
    /\ toClient = [c \in Links |-> <<>>] /\ toServer = toClient
    /\ accepted = 0 /\ m_clients = {} /\ arrived = toClient
    /\ sent = [c \in Links |-> 0] /\ got = toClient
    /\ said = sent /\ heard = got
    /\ stale = {} /\ cut = {}

-----------------------------------------------------------------------------
Messages == FoldLeft(+, 0, sent \o said)

(* PROC_PROTODATA: a byte is known by its message, its place, and the      *)
(* length the message announces.                                           *)
\* Mutant: the type is left out of the length.
FrameTypeless(k, size) ==
    [i \in 1 .. Header + size |-> [msg |-> k, at |-> i, announced |-> size - Header, size |-> size]]
Frame(k, size) ==
    [i \in 1 .. Header + size |-> [msg |-> k, at |-> i, announced |-> size, size |-> size]]

\* The numbers that Header bytes may come to.
Number(bytes) ==
    IF bytes[1].at = 1 THEN {bytes[1].announced} ELSE Stray
\* The message whose body these bytes are; 0 if they are no body.
Message(bytes) ==
    IF bytes # <<>> /\ bytes[1].at = Header + 1 /\ Len(bytes) = bytes[1].size
    THEN bytes[1].msg ELSE 0
Ahead(n, bytes) == SubSeq(bytes, 1, IF n <= Len(bytes) THEN n ELSE Len(bytes))
Behind(n, bytes) == SubSeq(bytes, n + 1, Len(bytes))

(* readyRead of the client: flag says that the next bytes are a length;    *)
(* with a length that has not all its bytes yet it waits.                  *)
\* Mutant: it does not wait.
ClientRoundHasty(r) ==
    IF Len(r.buf) < Header THEN {r}
    ELSE LET take(n) == [r EXCEPT !.buf = Behind(Header + n, @), !.length = n,
                                  !.got = Append(@, Message(Ahead(n, Behind(Header, r.buf))))]
         IN  {take(n) : n \in Number(Ahead(Header, r.buf))}
ClientRound(r) ==
    LET lengths == IF r.flag
                   THEN {[r EXCEPT !.buf = Behind(Header, @), !.length = n] :
                            n \in Number(Ahead(Header, r.buf))}
                   ELSE {r}
        body(s) ==
            CASE s.length <= 0 -> [s EXCEPT !.buf = <<>>, !.flag = TRUE]
              [] s.length \in 1 .. Len(s.buf) ->
                    [s EXCEPT !.buf = Behind(s.length, @), !.flag = TRUE,
                              !.got = Append(@, Message(Ahead(s.length, s.buf)))]
              [] OTHER -> [s EXCEPT !.flag = FALSE]
    IN  IF Len(r.buf) < Header THEN {r} ELSE {body(s) : s \in lengths}

\* Each time round a byte is taken at least, or nothing changes any more.
Times(r) == [i \in 1 .. Len(r.buf) + 1 |-> i]
\* Mutant: once, for as long as there is something available.
ClientLoopOnce(r) == ClientRound(r)
ClientLoop(r) == FoldLeft(LAMBDA rs, i : UNION {ClientRound(s) : s \in rs}, {r}, Times(r))

(* slotReadClient of the server: it takes what there is.                   *)
ServerRound(r) ==
    IF Len(r.buf) < Header THEN {r}
    ELSE {[buf |-> Behind(Header + n, r.buf),
           got |-> Append(r.got, Message(Ahead(n, Behind(Header, r.buf))))] :
              n \in Number(Ahead(Header, r.buf))}
\* Mutant: once, for as long as there is something available.
ServerLoopOnce(r) == ServerRound(r)
ServerLoop(r) == FoldLeft(LAMBDA rs, i : UNION {ServerRound(s) : s \in rs}, {r}, Times(r))

-----------------------------------------------------------------------------
(* The client's socket.  checkAndReconnect, every ten seconds, begins a    *)
(* connection and forgets what was available; one that is still being made *)
(* it lets be.  An attempt may stay without an answer.                     *)
checkAndReconnect ==
    /\ state = "unconnected"
    /\ state' = "connecting"
    /\ reader' = [reader EXCEPT !.buf = <<>>]
    /\ UNCHANGED <<link, links, m_status, stale, down, up>>

Unanswered ==
    /\ state = "connecting" /\ state' = "silent"
    /\ UNCHANGED <<link, links, m_status, stale, reader, down, up>>

\* Mutant: the attempt is not given up.
connectionTimeoutMild ==
    /\ state \in {"connecting", "silent"} /\ state' = state
    /\ UNCHANGED <<link, links, m_status, stale, reader, down, up>>
(* Three seconds after an attempt, or as soon as it is refused.            *)
connectionTimeout ==
    /\ state \in {"connecting", "silent"} /\ state' = "unconnected"
    /\ UNCHANGED <<link, links, m_status, stale, reader, down, up>>

connected ==
    /\ state = "connecting" /\ links < MaxLinks
    /\ state' = "connected" /\ m_status' = TRUE
    /\ links' = links + 1 /\ link' = links'
    /\ stale' = IF reader.flag THEN stale ELSE stale \cup {links'}
    /\ UNCHANGED <<reader, down, up>>

\* Mutant: the client goes on believing that it is connected.
closeConnectionSilent ==
    /\ state = "connected" /\ links < MaxLinks
    /\ state' = "unconnected" /\ link' = 0
    /\ toClient' = [toClient EXCEPT ![link] = <<>>]
    /\ \E n \in 0 .. Len(toServer[link]) :
        toServer' = [toServer EXCEPT ![link] = Ahead(n, @)]
    /\ UNCHANGED <<links, m_status, stale, reader, sent, got, accepted, m_clients, arrived,
                   said, heard, cut>>
(* The connection breaks: what is on its way to the client is lost, and    *)
(* some of what is on its way to the server.  flag and length stay.        *)
closeConnection ==
    /\ state = "connected" /\ links < MaxLinks
    /\ state' = "unconnected" /\ m_status' = FALSE /\ link' = 0
    /\ toClient' = [toClient EXCEPT ![link] = <<>>]
    /\ \E n \in 0 .. Len(toServer[link]) :
        toServer' = [toServer EXCEPT ![link] = Ahead(n, @)]
    /\ UNCHANGED <<links, stale, reader, sent, got, accepted, m_clients, arrived,
                   said, heard, cut>>

readyRead ==
    /\ state = "connected"
    /\ \E n \in 1 .. Len(toClient[link]) :
        LET r == [buf |-> reader.buf \o Ahead(n, toClient[link]), flag |-> reader.flag,
                  length |-> reader.length, got |-> got[link]]
        IN  \E s \in ClientLoop(r) :
            /\ reader' = [buf |-> s.buf, flag |-> s.flag, length |-> s.length]
            /\ got' = [got EXCEPT ![link] = s.got]
            /\ toClient' = [toClient EXCEPT ![link] = Behind(n, @)]
    /\ UNCHANGED <<socket, sent, up>>

(* PROC_PROTODATA of the client, behind CHECK_SOCKET_STATUS.               *)
sendToServer(size) ==
    /\ m_status /\ Messages < MaxSent
    /\ said' = [said EXCEPT ![link] = @ + 1]
    /\ toServer' = [toServer EXCEPT ![link] = @ \o Frame(said'[link], size)]
    /\ UNCHANGED <<socket, reader, down, accepted, m_clients, arrived, heard, cut>>

-----------------------------------------------------------------------------
(* The server.                                                             *)
slotNewConnection ==
    /\ accepted < links
    /\ accepted' = accepted + 1 /\ m_clients' = m_clients \cup {accepted'}
    /\ UNCHANGED <<socket, reader, down, toServer, arrived, said, heard, cut>>

slotReadClient(c) ==
    /\ c \in m_clients
    /\ \E n \in 1 .. Len(toServer[c]) :
        LET last == toServer[c][n]
            r == [buf |-> arrived[c] \o Ahead(n, toServer[c]), got |-> <<>>]
        IN  /\ \E s \in ServerLoop(r) :
                /\ arrived' = [arrived EXCEPT ![c] = s.buf]
                /\ heard' = [heard EXCEPT ![c] = @ \o s.got]
            /\ toServer' = [toServer EXCEPT ![c] = Behind(n, @)]
            /\ cut' = IF last.at \in Header .. Header + last.size - 1
                      THEN cut \cup {c} ELSE cut
    /\ UNCHANGED <<socket, reader, down, accepted, m_clients, said>>

slotGotDisconnection(c) ==
    /\ c \in m_clients /\ c # link
    /\ m_clients' = m_clients \ {c}
    /\ toServer' = [toServer EXCEPT ![c] = <<>>] /\ arrived' = [arrived EXCEPT ![c] = <<>>]
    /\ UNCHANGED <<socket, reader, down, accepted, said, heard, cut>>

sendToClient(size) ==
    /\ link \in m_clients /\ Messages < MaxSent
    /\ sent' = [sent EXCEPT ![link] = @ + 1]
    /\ toClient' = [toClient EXCEPT ![link] = @ \o Frame(sent'[link], size)]
    /\ UNCHANGED <<socket, reader, got, up>>

Next ==
    \/ checkAndReconnect \/ Unanswered \/ connectionTimeout \/ connected
    \/ closeConnection \/ readyRead \/ slotNewConnection
    \/ \E size \in Bodies : sendToServer(size) \/ sendToClient(size)
    \/ \E c \in Links : slotReadClient(c) \/ slotGotDisconnection(c)

(* The timers run, the event loops take what has come, TCP delivers while  *)
(* it holds, and of attempts without end one is answered.  Nobody has to   *)
(* send, and no connection has to break.                                   *)
Spec ==
    /\ Init /\ [][Next]_vars
    /\ WF_vars(checkAndReconnect) /\ WF_vars(connectionTimeout) /\ SF_vars(connected)
    /\ WF_vars(readyRead) /\ WF_vars(slotNewConnection)
    /\ \A c \in Links : WF_vars(slotReadClient(c))

-----------------------------------------------------------------------------
\* Every variable keeps its type, and m_status tells what the socket is.
TypeOK ==
    /\ state \in {"unconnected", "connecting", "silent", "connected"}
    /\ m_status = (state = "connected") /\ m_status = (link # 0)
    /\ link \in {0, links} /\ links \in 0 .. MaxLinks /\ accepted \in 0 .. links
    /\ m_clients \subseteq 1 .. accepted
    /\ reader.flag \in BOOLEAN /\ reader.length \in Nat
    /\ \A c \in Links : sent[c] \in 0 .. MaxSent /\ said[c] \in 0 .. MaxSent
    /\ stale \subseteq Links /\ cut \subseteq Links

\* However TCP cuts the bytes, the client hands on every message of a
\* connection whole, once and in order, unless the connection before broke
\* within a message (NetworkHelper.cpp:102 of the client).
Down == INSTANCE Channel WITH spoiled <- stale
ClientReadsMessages == Down!Spec

\* The server does so only while no piece ends within the body of a
\* message; a length that comes in pieces it waits for
\* (NetworkHelper.cpp:68 of the server).
Up == INSTANCE Channel WITH sent <- said, got <- heard, spoiled <- cut
ServerReadsMessages == Up!Spec

\* The messages to the client do arrive, unless the connection breaks or
\* was begun with a length of the one before.
ClientReceives ==
    []<>(link = 0 \/ link \in stale \/ Len(got[link]) = sent[link])

\* The messages to the server do arrive, unless the connection breaks or a
\* piece ends within the body of a message.
ServerHears ==
    []<>(link = 0 \/ link \in cut \/ Len(heard[link]) = said[link])

\* The client comes to be connected again after every break, and from an
\* attempt that nobody answers: timer and timeout together see to it.
Reconnects == []<>m_status
=============================================================================
