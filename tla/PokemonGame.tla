--------------------------- MODULE PokemonGame ---------------------------
(***************************************************************************)
(* The clients of the Pokemon game around ServerBackend: what the pages of *)
(* the interface (LoginPage, MainPage, BattlePage) let a player do, and    *)
(* what they do with the messages of the server.                           *)
(*                                                                         *)
(* A request takes effect when it is sent, an answer waits in out[c] until *)
(* the client reads it: as a connection keeps the order both ways, every   *)
(* delay of a request is a delay of the player.                            *)
(***************************************************************************)
EXTENDS ServerBackend

CONSTANTS Leaves        \* what players may be doing when they leave

(* They fight, wait for the start of a battle, or do neither. *)
Doings == {"fighting", "waiting", "free"}

ASSUME GameAssumption == Sockets = Names /\ Leaves \subseteq Doings

VARIABLES server, client

vars == <<server, client>>

(* A client is started on the connection of the same name, and its player  *)
(* has the account of that name.                                           *)
Pages  == {"login", "main", "battle"}
Client == [page    : Pages,
           session : BOOLEAN,                \* logged in over this connection
           waiting : BOOLEAN,                \* behind the modal LoadingPopup
           popup   : Names \cup {Null},      \* invitePopup.fromUser, while shown
           isA     : {0, 1}]                 \* of the battle page, 1 without one
Closed == [page |-> "login", session |-> FALSE, waiting |-> FALSE,
           popup |-> Null, isA |-> 1]

Init == /\ server = Idle
        /\ client = [c \in Sockets |-> Closed]

inbox(c) == server.out[c]
On(c, page) == server.up /\ client[c].page = page /\ ~client[c].waiting

-----------------------------------------------------------------------------
(* The requests of a player. *)

Login(c) ==
    /\ On(c, "login") /\ ~client[c].session
    /\ \E p \in Ptrs \ Online(server), g \in Garbage :
          server' = UserLogin(server, c, c, p, g)
    /\ client' = [client EXCEPT ![c].waiting = TRUE, ![c].session = TRUE]

(* "等待建立对战...": no timeout, ended by the answer only. *)
InviteTo(c, dest) ==
    /\ On(c, "main") /\ client[c].popup = Null
    /\ server' = BattleInvite(server, c, c, dest)
    /\ client' = [client EXCEPT ![c].waiting = TRUE]

Accept(c) ==
    /\ On(c, "main") /\ client[c].popup # Null
    /\ server' = HandleBattleInviteResponse(server, client[c].popup, c, TRUE)
    /\ client' = [client EXCEPT ![c].waiting = TRUE, ![c].popup = Null]

Refuse(c) ==
    /\ On(c, "main") /\ client[c].popup # Null
    /\ server' = HandleBattleInviteResponse(server, client[c].popup, c, FALSE)
    /\ client' = [client EXCEPT ![c].popup = Null]

(* "等待对方操作...": ended by the first attack of the turn.  Bound: a player *)
(* looks at the whole turn before he acts again, or the attacks he has not *)
(* looked at would grow without limit.                                     *)
TurnRead(c) == TurnInfo \notin ToSet(inbox(c))
Act(c) ==
    /\ On(c, "battle") /\ TurnRead(c)
    /\ \E o \in Outcome : server' = HandleBattleOperation(server, c, client[c].isA, o)
    /\ client' = [client EXCEPT ![c].waiting = TRUE]

GiveUp(c) ==
    /\ On(c, "battle")
    /\ server' = BattleGiveUp(server, c)
    /\ client' = [client EXCEPT ![c].page = "main", ![c].isA = 1]

-----------------------------------------------------------------------------
(* The messages of the server.  A finished battle is left with the click   *)
(* on the result; a message of a battle that was left is ignored.          *)
Read(k, m) ==
    CASE m.type = "Login"   -> [k EXCEPT !.waiting = FALSE, !.page = IF m.ok THEN "main" ELSE @]
      [] m.type = "Start"   -> [k EXCEPT !.waiting = FALSE, !.page = "battle", !.isA = m.isA]
      [] m.type = "NoStart" -> [k EXCEPT !.waiting = FALSE]
      [] m.type = "Invite"  -> [k EXCEPT !.popup = m.from]
      [] m.type = "Turn"    -> IF k.page = "battle" THEN [k EXCEPT !.waiting = FALSE] ELSE k
      [] m.type = "Finish"  -> IF k.page = "battle"
                                 THEN [k EXCEPT !.waiting = FALSE, !.page = "main", !.isA = 1]
                                 ELSE k

Receive(c) ==
    /\ server.up /\ inbox(c) # <<>>
    /\ client' = [client EXCEPT ![c] = Read(@, Head(inbox(c)))]
    /\ server' = [server EXCEPT !.out[c] = Tail(@)]

-----------------------------------------------------------------------------
(* The end of a connection.                                                *)
Doing(k) == IF k.page = "battle" THEN "fighting"
            ELSE IF k.page = "main" /\ k.waiting THEN "waiting" ELSE "free"

Disconnect(c) ==
    /\ server.up /\ client[c].session
    /\ Doing(client[c]) \in Leaves
    /\ server' = [UserDisconnected(server, c) EXCEPT !.out[c] = <<>>]

(* The player closes the program; he may start it again. *)
Leave(c) == /\ Disconnect(c)
            /\ client' = [client EXCEPT ![c] = Closed]

(* The connection breaks.  The client connects again (checkAndReconnect)   *)
(* but does not log in again and stays on its page.                        *)
ConnectionLost(c) == /\ Disconnect(c)
                     /\ client' = [client EXCEPT ![c].session = FALSE]

(* Closing a program whose session was lost. *)
CloseAfterLoss(c) ==
    /\ server.up /\ ~client[c].session /\ client[c] # Closed
    /\ client' = [client EXCEPT ![c] = Closed]
    /\ server' = [server EXCEPT !.out[c] = <<>>]

Next == \E c \in Sockets :
            \/ Login(c) \/ Accept(c) \/ Refuse(c) \/ Act(c) \/ GiveUp(c) \/ Receive(c)
            \/ \E dest \in Names \cup {Server} : InviteTo(c, dest)
            \/ Leave(c) \/ ConnectionLost(c) \/ CloseAfterLoss(c)

Spec == Init /\ [][Next]_vars

-----------------------------------------------------------------------------
(* Properties. *)

(* Every value has its type; a connection has at most one User, the list   *)
(* no address twice.                                                       *)
TypeOK ==
    /\ client \in [Sockets -> Client]
    /\ DOMAIN server = {"heap", "userList", "battles", "out", "up"}
    /\ server.heap \in [Ptrs -> User]
    /\ server.userList \in Seq(Ptrs)
    /\ server.battles \in Seq(Battle)
    /\ DOMAIN server.out = Sockets
    /\ \A c \in Sockets : server.out[c] \in Seq(Message)
    /\ server.up \in BOOLEAN
    /\ \A i, j \in 1 .. Len(server.userList) : i # j =>
          /\ server.userList[i] # server.userList[j]
          /\ server.heap[server.userList[i]].sock # server.heap[server.userList[j]].sock

(* The battles of somebody. *)
Own(s, c) == {i \in 1 .. Len(s.battles) : Fights(s, s.battles[i], c)}

(* Nobody fights two battles: as long as nobody leaves while an invitation *)
(* of his is open, no sequence of invitations, answers, give-ups, logins   *)
(* and lost connections, however the messages are delayed, puts a name     *)
(* into two entries of m_battleFieldList.  The answer to an invitation     *)
(* (ServerBackend.cpp:876) does not look whether the two are still free.   *)
OneBattle == \A c \in Sockets : Cardinality(Own(server, c)) <= 1

(* A battle begins between users that are free, whoever is found fighting  *)
(* is not invited (ServerBackend.cpp:810).  False when players leave with  *)
(* an invitation open: its answer begins a battle whatever the two have    *)
(* done since (ServerBackend.cpp:876).                                     *)
BeginsFree ==
    [][Len(server'.battles) > Len(server.battles) =>
          LET b == Last(server'.battles)
          IN  \A p \in {b.a, b.b} \ {Null} : server.heap[p].status # "BATTLING"]_vars

(* The battles point at users that are online and marked BATTLING: nobody  *)
(* in a battle can be invited, and nobody whose client shows no battle     *)
(* leaves one behind that points at him.                                   *)
BattlesHaveUsers ==
    server.up => \A b \in ToSet(server.battles) : \A p \in {b.a, b.b} \ {Null} :
        /\ p \in Online(server)
        /\ server.heap[p].status = "BATTLING"

(* Whoever is marked BATTLING has a battle, so that nobody is shut out of  *)
(* all battles to come: of the handlers that end one, each has to set both *)
(* users free.                                                             *)
FreeMayFight ==
    server.up => \A p \in Online(server) :
        server.heap[p].status = "BATTLING" =>
            \E b \in ToSet(server.battles) : p \in {b.a, b.b}

(* Server and clients agree: when a client that is logged in has read all  *)
(* that is under way to it, it shows the battle page exactly if the server *)
(* has a battle for its user, and plays the side the server has it on.     *)
View(c) == FoldLeft(Read, client[c], inbox(c))
ViewsAgree ==
    server.up => \A c \in Sockets : client[c].session =>
        /\ View(c).page = "battle" <=> Own(server, c) # {}
        /\ \A i \in Own(server, c) :
              View(c).isA = IF Name(server, server.battles[i].a) = c THEN 1 ELSE 0

(* The battles of the server, seen as everybody's opponent, behave as the  *)
(* lobby promises.                                                         *)
Opponent(n) ==
    LET mine == {b \in ToSet(server.battles) : Fights(server, b, n)}
        p    == OtherSide(server, CHOOSE b \in mine : TRUE, n)
    IN  IF mine = {} THEN Null ELSE IF p = Null THEN Server ELSE Name(server, p)
lobby == INSTANCE Lobby WITH Nobody <- Null, opponent <- [n \in Names |-> Opponent(n)]
LobbySpec == lobby!Spec

(* The comment at ServerBackend.cpp:532: when a user in a battle leaves,   *)
(* the opponent is told he won.  So a client that plays userB, hence a     *)
(* battle against another player, has read or will read that it is over,   *)
(* unless the battle is there and both its players are.                    *)
OpponentIsTold ==
    server.up => \A c \in Sockets :
        (client[c].session /\ View(c).page = "battle" /\ View(c).isA = 0) =>
            \E b \in ToSet(server.battles) :
                /\ Fights(server, b, c)
                /\ {b.a, b.b} \subseteq Online(server)

(* README of the game: a user that is logged in can fight the server.  As  *)
(* the comment at ServerBackend.cpp:1077 says, userB of such a battle is a *)
(* null pointer; no message of another player may make the server use it.  *)
ServerSurvives == server.up
=============================================================================
