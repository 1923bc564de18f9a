------------------------- MODULE PokemonGame_proofs -------------------------
(***************************************************************************)
(* The server and its clients keep what PokemonGame states of them, for any*)
(* number of players and addresses and for queues of any length.           *)
(*                                                                         *)
(* The invariant IInv says of the server alone (ServerOK) that the users   *)
(* of the list have names of their own and that the battles have users of  *)
(* their own, who are online and marked BATTLING; and of every client what *)
(* it will have seen once it has read what is under way to it (ClientsOK): *)
(* the page it will be on is the one the server has it on, at most one     *)
(* answer is under way, to somebody who waits for it on the right page,    *)
(* and an invitation is open only while the one who sent it waits.  The    *)
(* last is what makes an acceptance safe: HandleBattleInviteResponse does  *)
(* not look whether the two are still free.                                *)
(*                                                                         *)
(* A handler is an operator from one state of the server to the next, so   *)
(* most lemmas are about a state s and the one a handler makes of it.      *)
(* Operators such as Online(s) or Queue(s, c) stay closed in the proofs    *)
(* wherever they can: the provers match on them.                           *)
(***************************************************************************)
EXTENDS PokemonGame, Induction, FiniteSetTheorems

-----------------------------------------------------------------------------
(* The server: types, users and battles. *)

Battles(s) == ToSet(s.battles)
Users(b)   == {b.a, b.b} \ {Null}
Queue(s, c) == s.out[c]
LoggedIn(s, c) == \E p \in Online(s) : Name(s, p) = c

ServerType(s) ==
    s \in [heap : [Ptrs -> User], userList : Seq(Ptrs), battles : Seq(Battle),
           out : [Sockets -> Seq(Message)], up : BOOLEAN]
UsersOK(s) ==
    /\ \A p \in Online(s) : Name(s, p) \in Names /\ s.heap[p].sock = Name(s, p)
    /\ \A i, j \in 1 .. Len(s.userList) :
          i # j => /\ s.userList[i] # s.userList[j]
                   /\ Name(s, s.userList[i]) # Name(s, s.userList[j])
InBattle(s, p) == \E i \in 1 .. Len(s.battles) : p \in Users(s.battles[i])
MarkedOK(s) == "BATTLING" \notin Garbage =>
    \A p \in Online(s) : s.heap[p].status = "BATTLING" => InBattle(s, p)
BattlesOK(s) ==
    /\ MarkedOK(s)
    /\ \A i \in 1 .. Len(s.battles) :
          /\ s.battles[i].a # s.battles[i].b
          /\ \A p \in Users(s.battles[i]) : p \in Online(s) /\ s.heap[p].status = "BATTLING"
    /\ \A i, j \in 1 .. Len(s.battles) :
          i # j => Users(s.battles[i]) \cap Users(s.battles[j]) = {}
ServerOK(s) == ServerType(s) /\ UsersOK(s) /\ BattlesOK(s)

(* Player c has side x of battle b, against v. *)
FightIn(s, b, c, x, v) ==
    IF x = 1 THEN Name(s, b.a) = c /\ v = IF b.b = Null THEN Server ELSE Name(s, b.b)
             ELSE b.b # Null /\ Name(s, b.b) = c /\ v = Name(s, b.a)
Fight(s, c, x, v) == \E i \in 1 .. Len(s.battles) : FightIn(s, s.battles[i], c, x, v)
Plays(s, c, x) == \E v \in Names \cup {Server} : Fight(s, c, x, v)
Fighting(s, c) == Plays(s, c, 1) \/ Plays(s, c, 0)

(* Battle i is the one of n, seen from his side. *)
FightsAt(s, i, n) == Fights(s, s.battles[i], n)
SideAt(s, i, n)   == ThisSide(s, s.battles[i], n)
OtherAt(s, i, n)  == OtherSide(s, s.battles[i], n)

-----------------------------------------------------------------------------
(* The clients: h is the record of one, q what is under way to it. *)

ViewOf(h, q) == FoldLeft(Read, h, q)

Answers == {"Login", "Start", "NoStart"}
NoAnswer(q) == \A i \in 1 .. Len(q) : q[i].type \notin Answers

(* At most one answer is under way, to somebody who waits for it. *)
AnswerAt(h, q) == \A i \in 1 .. Len(q) : q[i].type \in Answers =>
    /\ h.waiting
    /\ h.page = IF q[i].type = "Login" THEN "login" ELSE "main"
    /\ q[i].type = "Login" => q[i].ok
    /\ \A j \in 1 .. Len(q) : q[j].type \in Answers => i = j

(* What the client will see is what the server has. *)
ViewAt(s, c, v) ==
    /\ v.page = "battle" <=> Plays(s, c, 1) \/ Plays(s, c, 0)
    /\ Plays(s, c, 1) => v.isA = 1
    /\ Plays(s, c, 0) => v.isA = 0
ClientAt(s, c, h, q) ==
    /\ h.session <=> LoggedIn(s, c)
    /\ ~h.session => q = <<>>
    /\ AnswerAt(h, q)
    /\ h.session => ViewAt(s, c, ViewOf(h, q))

(* An invitation of n is message i of q, or shown (i = 0).  It is the only *)
(* one of n, and n waits for the answer to it.                             *)
Holds(h, q, i, n) == \/ i = 0 /\ h.popup = n
                     \/ i \in 1 .. Len(q) /\ q[i] = Invite(n)
Asks(h, q) == h.session /\ h.waiting /\ h.page = "main" /\ NoAnswer(q)
InvitesOK(s, k) == \A n \in Names, c, d \in Sockets :
    \A i \in 0 .. Len(Queue(s, c)), j \in 0 .. Len(Queue(s, d)) :
        Holds(k[c], Queue(s, c), i, n) =>
           /\ Asks(k[n], Queue(s, n))
           /\ Holds(k[d], Queue(s, d), j, n) => c = d /\ i = j
ClientsOK(s, k) == /\ \A c \in Sockets : ClientAt(s, c, k[c], Queue(s, c))
                   /\ InvitesOK(s, k)

(* The inductive invariant.  A server that was brought down by a null      *)
(* pointer says nothing any more.                                          *)
IInv == /\ client \in [Sockets -> Client]
        /\ ServerOK(server)
        /\ server.up => ClientsOK(server, client)

-----------------------------------------------------------------------------
(* Steps: what a handler may do to the users, the battles and the clients. *)

SameUsers(s, t) ==
    /\ t.userList = s.userList
    /\ \A p \in Ptrs : t.heap[p].name = s.heap[p].name /\ t.heap[p].sock = s.heap[p].sock

(* Battle i is gone, its users are free, and no others were touched. *)
Ends(s, t, i) ==
    /\ SameUsers(s, t)
    /\ t.battles = RemoveAt(s.battles, i)
    /\ \A p \in Ptrs \ Users(s.battles[i]) : t.heap[p].status = s.heap[p].status
    /\ \A p \in Users(s.battles[i]) : t.heap[p].status = "IDLE"

(* On the way there: the users in I are set free, those in T are told. *)
Ending(s, r, I, T) ==
    /\ ServerType(r) /\ SameUsers(s, r) /\ r.battles = s.battles /\ r.up = s.up
    /\ \A p \in Ptrs : r.heap[p].status = IF p \in I THEN "IDLE" ELSE s.heap[p].status
    /\ \A c \in Sockets :
          Queue(r, c) = IF c \in T THEN Append(Queue(s, c), Finish) ELSE Queue(s, c)

Alike(s, t, c) == /\ LoggedIn(t, c) <=> LoggedIn(s, c)
                  /\ \A x \in {0, 1} : Plays(t, c, x) <=> Plays(s, c, x)

(* The steps of the lobby, seen in the list of battles. *)
SameFights(s, t) == \A c \in Names, x \in {0, 1}, v \in Names \cup {Server} :
    Fight(t, c, x, v) <=> Fight(s, c, x, v)
Began(s, t, a, b) == /\ ~Fighting(s, a) /\ (b \in Names => ~Fighting(s, b))
    /\ \A c \in Names, x \in {0, 1}, v \in Names \cup {Server} :
          (Fight(t, c, x, v) <=> \/ Fight(s, c, x, v)
                                 \/ c = a /\ x = 1 /\ v = b
                                 \/ c = b /\ x = 0 /\ v = a)
Ended(s, t, a) == /\ Fighting(s, a)
    /\ \A c \in Names, x \in {0, 1}, v \in Names \cup {Server} :
          Fight(t, c, x, v) <=> Fight(s, c, x, v) /\ c # a /\ v # a
LobbyStep(s, t) ==
    \/ SameFights(s, t)
    \/ \E a \in Names : \E b \in (Names \cup {Server}) \ {a} : Began(s, t, a, b)
    \/ \E a \in Names : Ended(s, t, a)

(* Clients that were right stay right; a step that changes no battle; a    *)
(* step that keeps the invariant.                                          *)
Keeps(s, t) == \A k \in [Sockets -> Client] : ClientsOK(s, k) => ClientsOK(t, k)
Quiet(s, t) ==
    /\ ServerOK(t) /\ t.heap = s.heap /\ t.userList = s.userList /\ t.up = s.up
    /\ Len(t.battles) = Len(s.battles)
    /\ \A i \in 1 .. Len(s.battles) :
          t.battles[i].a = s.battles[i].a /\ t.battles[i].b = s.battles[i].b
    /\ Keeps(s, t)
Fine(s, t) == ServerOK(t) /\ (t.up => s.up /\ Keeps(s, t)) /\ LobbyStep(s, t)

-----------------------------------------------------------------------------
(* What a client sees in the end: the fold of Read over its queue. *)

(* The messages, by type. *)
LEMMA MessageKinds ==
    ASSUME NEW m \in Message
    PROVE  \/ m.type = "Login" /\ m.ok \in BOOLEAN
           \/ m.type = "Start" /\ m.isA \in {0, 1}
           \/ m.type = "Invite" /\ m.from \in Names
           \/ m.type \in {"NoStart", "Turn", "Finish"}
BY DEF Message, LoginAnswer, Start, NoStart, Invite, TurnInfo, Finish

(* A client that reads a message is a client. *)
LEMMA ReadType ==
    ASSUME NEW k \in Client, NEW m \in Message
    PROVE  Read(k, m) \in Client
<1>1. CASE m.type = "Login" /\ m.ok \in BOOLEAN
  BY <1>1 DEF Client, Pages, Read
<1>2. CASE m.type = "Start" /\ m.isA \in {0, 1}
  BY <1>2 DEF Client, Pages, Read
<1>3. CASE m.type = "Invite" /\ m.from \in Names
  BY <1>3 DEF Client, Pages, Read
<1>4. CASE m.type \in {"NoStart", "Turn", "Finish"}
  BY <1>4 DEF Client, Pages, Read
<1> QED
  BY <1>1, <1>2, <1>3, <1>4, MessageKinds

(* v passes from k through q, message by message. *)
Path(v, k, q) == /\ v \in [0 .. Len(q) -> Client]
                 /\ v[0] = k
                 /\ \A i \in 1 .. Len(q) : v[i] = Read(v[i - 1], q[i])

(* The fold passes through the queue from its front. *)
LEMMA ReadAll ==
    ASSUME NEW k \in Client, NEW q \in Seq(Message)
    PROVE  \E v : Path(v, k, q) /\ ViewOf(k, q) = v[Len(q)]
<1> DEFINE n == Len(q)
           g == [c \in Client |-> [m \in Message |-> Read(c, m)]]
           Eq(it) == it = [s \in SUBSET (1 .. n) |->
                              IF s = {} THEN k ELSE Read(it[s \ {Max(s)}], q[Max(s)])]
           it0 == CHOOSE it : Eq(it)
<1>1. g \in [Client -> [Message -> Client]] /\ n \in Nat /\ \A i \in 1 .. n : q[i] \in Message
  BY ReadType
<1>2. FoldLeft(Read, k, q) = it0[1 .. n]
  <2>1. DOMAIN q = 1 .. n
    OBVIOUS
  <2> QED
    BY <2>1, Zenon DEF FoldLeft, MapThenFoldSet
<1> HIDE DEF g
<1>3. PICK f : IsFold(f, Client, q, k, g)
  BY <1>1, FoldDefined
<1> HIDE DEF n
<1>3a. /\ f \in [SUBSET (1 .. n) -> Client]
      /\ f[{}] = k
      /\ \A s \in SUBSET (1 .. n) : s # {} => f[s] = g[f[s \ {Max(s)}]][q[Max(s)]]
  BY <1>3 DEF n, IsFold
<1>4. ASSUME NEW s \in SUBSET (1 .. n), s # {}
      PROVE  Max(s) \in s /\ s \ {Max(s)} \in SUBSET (1 .. n)
  BY <1>4, <1>1, MaxIn
<1>5. Eq(f)
  <2>1. ASSUME NEW s \in SUBSET (1 .. n), s # {}
        PROVE  g[f[s \ {Max(s)}]][q[Max(s)]] = Read(f[s \ {Max(s)}], q[Max(s)])
    BY <2>1, <1>4, <1>1, <1>3a DEF g
  <2> QED
    BY <1>3a, <2>1
<1>6. Eq(it0)
  BY <1>5, Zenon
<1> HIDE DEF it0
<1> DEFINE v == [i \in 0 .. n |-> it0[1 .. i]]
<1>7. v[0] = k
  <2>1. 1 .. 0 = {}
    OBVIOUS
  <2>2. {} \in SUBSET (1 .. n)
    OBVIOUS
  <2> QED
   BY <1>6, <1>1, <2>1, <2>2
<1>8. ASSUME NEW i \in 1 .. n PROVE v[i] = Read(v[i - 1], q[i])
  <2>1. /\ Max(1 .. i) = i /\ (1 .. i) \ {i} = 1 .. i - 1
        /\ 1 .. i \in SUBSET (1 .. n) /\ 1 .. i # {}
    BY <1>1, FoldPasses
  <2>2. it0[1 .. i] = Read(it0[1 .. i - 1], q[i])
    BY <1>6, <2>1
  <2> QED
    BY <2>2, <1>1
<1>9. v \in [0 .. n -> Client]
  <2> HIDE DEF v
  <2> DEFINE Good == {i \in 0 .. n : v[i] \in Client}
  <2>1. ASSUME NEW i \in 0 .. n - 1, i \in Good PROVE v[i + 1] \in Client
    <3>1. v[i] \in Client /\ q[i + 1] \in Message /\ v[i + 1] = Read(v[i], q[i + 1])
      BY <2>1, <1>8, <1>1
    <3> QED
      BY <3>1, ReadType
  <2>2. 0 \in Good /\ \A i \in 0 .. n - 1 : i \in Good => i + 1 \in Good
    BY <1>1, <1>7, <2>1
  <2> HIDE DEF Good
  <2>3. \A i \in 0 .. n : i \in Good
    BY <1>1, <2>2, InductionUpTo
  <2>4. \A i \in 0 .. n : v[i] \in Client
    BY <2>3 DEF Good
  <2>5. v = [i \in 0 .. n |-> v[i]]
    BY DEF v
  <2> QED
    BY <2>4, <2>5
<1>10. v[n] = it0[1 .. n]
  BY <1>1
<1> HIDE DEF v
<1> QED
  BY <1>2, <1>7, <1>8, <1>9, <1>10 DEF n, Path, ViewOf

(* Whatever passes through the queue ends where the fold does. *)
LEMMA ViewIs ==
    ASSUME NEW k \in Client, NEW q \in Seq(Message), NEW w, Path(w, k, q)
    PROVE  ViewOf(k, q) = w[Len(q)] /\ ViewOf(k, q) \in Client
<1> DEFINE n == Len(q)
<1>1. PICK v : Path(v, k, q) /\ ViewOf(k, q) = v[Len(q)]
  BY ReadAll
<1> DEFINE Good == {i \in 0 .. n : v[i] = w[i]}
<1>2. n \in Nat
  OBVIOUS
<1>3. 0 \in Good /\ \A i \in 0 .. n - 1 : i \in Good => i + 1 \in Good
  BY <1>1, <1>2 DEF Path
<1> HIDE DEF Good
<1>4. \A i \in 0 .. n : i \in Good
  BY <1>2, <1>3, InductionUpTo
<1>5. v[n] = w[n] /\ w[n] \in Client
  BY <1>2, <1>4 DEF Good, Path
<1> QED
  BY <1>1, <1>5

(* Nothing under way, nothing to see. *)
LEMMA ViewNil == ASSUME NEW k \in Client PROVE ViewOf(k, <<>>) = k
<1> DEFINE q == <<>>
<1>1. PICK v : Path(v, k, q) /\ ViewOf(k, q) = v[Len(q)]
  <2>1. q \in Seq(Message)
    OBVIOUS
  <2> HIDE DEF q
  <2> QED
    BY <2>1, ReadAll
<1>2. Len(q) = 0
  OBVIOUS
<1> QED
  BY <1>1, <1>2 DEF Path

(* A message sent is read last. *)
LEMMA ViewAppend ==
    ASSUME NEW k \in Client, NEW q \in Seq(Message), NEW m \in Message
    PROVE  /\ ViewOf(k, Append(q, m)) = Read(ViewOf(k, q), m)
           /\ ViewOf(k, q) \in Client
<1> DEFINE n == Len(q)
           r == Append(q, m)
<1>1. n \in Nat /\ r \in Seq(Message) /\ Len(r) = n + 1 /\ r[n + 1] = m
      /\ \A i \in 1 .. n : r[i] = q[i]
  OBVIOUS
<1>2. PICK v : Path(v, k, q) /\ ViewOf(k, q) = v[n]
  BY ReadAll
<1>3. v[n] \in Client
  BY <1>1, <1>2 DEF Path
<1> DEFINE w == [i \in 0 .. n + 1 |-> IF i = n + 1 THEN Read(v[n], m) ELSE v[i]]
<1>4. w \in [0 .. n + 1 -> Client] /\ w[0] = k
  BY <1>1, <1>2, <1>3, ReadType DEF Path
<1>5. ASSUME NEW i \in 1 .. n + 1 PROVE w[i] = Read(w[i - 1], r[i])
  <2>1. CASE i = n + 1
    BY <2>1, <1>1
  <2>2. CASE i # n + 1
    <3>1. i \in 1 .. n /\ i - 1 \in 0 .. n /\ i - 1 # n + 1
      BY <2>2, <1>1
    <3>2. w[i] = v[i] /\ w[i - 1] = v[i - 1] /\ r[i] = q[i] /\ v[i] = Read(v[i - 1], q[i])
      BY <3>1, <1>1, <1>2 DEF Path
    <3> QED
      BY <3>2
  <2> QED
    BY <2>1, <2>2
<1>6. w[n + 1] = Read(v[n], m)
  BY <1>1
<1> HIDE DEF w, r
<1>7. Path(w, k, r)
  BY <1>1, <1>4, <1>5 DEF Path
<1>8. ViewOf(k, r) = w[Len(r)]
  BY <1>1, <1>7, ViewIs
<1> QED
  BY <1>1, <1>2, <1>3, <1>6, <1>8 DEF r

(* The message read next was the first. *)
LEMMA ViewHead ==
    ASSUME NEW k \in Client, NEW q \in Seq(Message), q # <<>>
    PROVE  ViewOf(Read(k, Head(q)), Tail(q)) = ViewOf(k, q)
<1> DEFINE n == Len(q)
           r == Tail(q)
           h == Read(k, Head(q))
<1>1. n \in Nat \ {0} /\ r \in Seq(Message) /\ Len(r) = n - 1 /\ Head(q) = q[1]
      /\ Head(q) \in Message /\ \A i \in 1 .. n - 1 : r[i] = q[i + 1]
  OBVIOUS
<1>2. PICK v : Path(v, k, q) /\ ViewOf(k, q) = v[n]
  BY ReadAll
<1> DEFINE w == [i \in 0 .. n - 1 |-> v[i + 1]]
<1>3. h \in Client
  BY <1>1, ReadType
<1>4. w \in [0 .. n - 1 -> Client] /\ w[0] = h
  BY <1>1, <1>2 DEF Path
<1>5. ASSUME NEW i \in 1 .. n - 1 PROVE w[i] = Read(w[i - 1], r[i])
  <2>1. i + 1 \in 1 .. n /\ w[i] = v[i + 1] /\ w[i - 1] = v[i + 1 - 1]
    BY <1>1
  <2> QED
    BY <2>1, <1>1, <1>2 DEF Path
<1>6. w[n - 1] = v[n]
  BY <1>1
<1> HIDE DEF w, r, h
<1>7. Path(w, h, r)
  BY <1>1, <1>4, <1>5 DEF Path
<1>8. ViewOf(h, r) = w[Len(r)]
  BY <1>1, <1>3, <1>7, ViewIs
<1> QED
  BY <1>1, <1>2, <1>6, <1>8 DEF r, h

(* What a client sees in the end depends on its page and side only. *)
LEMMA ViewSame ==
    ASSUME NEW k \in Client, NEW h \in Client, NEW q \in Seq(Message),
           h.page = k.page, h.isA = k.isA
    PROVE  ViewOf(h, q).page = ViewOf(k, q).page /\ ViewOf(h, q).isA = ViewOf(k, q).isA
<1> DEFINE n == Len(q)
<1>1. n \in Nat /\ \A i \in 1 .. n : q[i] \in Message
  OBVIOUS
<1>2. PICK v : Path(v, k, q) /\ ViewOf(k, q) = v[n]
  BY ReadAll
<1>3. PICK w : Path(w, h, q) /\ ViewOf(h, q) = w[n]
  BY ReadAll
<1> DEFINE Good == {i \in 0 .. n : v[i].page = w[i].page /\ v[i].isA = w[i].isA}
<1>4. ASSUME NEW c \in Client, NEW d \in Client, NEW m \in Message,
             c.page = d.page, c.isA = d.isA
      PROVE  Read(c, m).page = Read(d, m).page /\ Read(c, m).isA = Read(d, m).isA
  BY <1>4, MessageKinds DEF Read, Client
<1>5. ASSUME NEW i \in 0 .. n - 1, i \in Good PROVE i + 1 \in Good
  <2>1. i + 1 \in 1 .. n /\ i + 1 - 1 = i
    BY <1>1
  <2>2. /\ v[i + 1] = Read(v[i], q[i + 1]) /\ w[i + 1] = Read(w[i], q[i + 1])
        /\ v[i] \in Client /\ w[i] \in Client /\ q[i + 1] \in Message
    BY <2>1, <1>1, <1>2, <1>3 DEF Path
  <2> QED
    BY <2>1, <2>2, <1>4, <1>5
<1>6. 0 \in Good
  BY <1>1, <1>2, <1>3 DEF Path
<1> HIDE DEF Good
<1>7. \A i \in 0 .. n - 1 : i \in Good => i + 1 \in Good
  BY <1>5
<1>8. \A i \in 0 .. n : i \in Good
  BY <1>1, <1>6, <1>7, InductionUpTo
<1> QED
  BY <1>1, <1>2, <1>3, <1>8 DEF Good

(* Nothing but Start leads from the main page to a battle. *)
LEMMA ViewIdle ==
    ASSUME NEW k \in Client, NEW q \in Seq(Message), k.page = "main",
           \A i \in 1 .. Len(q) : q[i].type \notin {"Login", "Start"}
    PROVE  ViewOf(k, q).page = "main"
<1> DEFINE n == Len(q)
<1>1. n \in Nat /\ \A i \in 1 .. n : q[i] \in Message
  OBVIOUS
<1>2. PICK v : Path(v, k, q) /\ ViewOf(k, q) = v[n]
  BY ReadAll
<1> DEFINE Good == {i \in 0 .. n : v[i].page = "main"}
<1>3. ASSUME NEW c \in Client, NEW m \in Message, c.page = "main", m.type \notin {"Login", "Start"}
      PROVE  Read(c, m).page = "main"
  BY <1>3, MessageKinds DEF Read, Client
<1>4. ASSUME NEW i \in 0 .. n - 1, i \in Good PROVE i + 1 \in Good
  <2>1. i + 1 \in 1 .. n /\ i + 1 - 1 = i
    BY <1>1
  <2>2. /\ v[i + 1] = Read(v[i], q[i + 1])
        /\ v[i] \in Client /\ q[i + 1] \in Message /\ q[i + 1].type \notin {"Login", "Start"}
    BY <2>1, <1>1, <1>2 DEF Path
  <2> QED
    BY <2>1, <2>2, <1>3, <1>4
<1>5. 0 \in Good
  BY <1>1, <1>2 DEF Path
<1> HIDE DEF Good
<1>6. \A i \in 0 .. n - 1 : i \in Good => i + 1 \in Good
  BY <1>4
<1>7. \A i \in 0 .. n : i \in Good
  BY <1>1, <1>5, <1>6, InductionUpTo
<1> QED
  BY <1>1, <1>2, <1>7 DEF Good

(* Nor from any other page. *)
LEMMA ViewStays ==
    ASSUME NEW k \in Client, NEW q \in Seq(Message), k.page # "battle",
           \A i \in 1 .. Len(q) : q[i].type \notin {"Start"}
    PROVE  ViewOf(k, q).page # "battle"
<1> DEFINE n == Len(q)
<1>1. n \in Nat /\ \A i \in 1 .. n : q[i] \in Message
  OBVIOUS
<1>2. PICK v : Path(v, k, q) /\ ViewOf(k, q) = v[n]
  BY ReadAll
<1> DEFINE Good == {i \in 0 .. n : v[i].page # "battle"}
<1>3. ASSUME NEW c \in Client, NEW m \in Message, c.page # "battle", m.type \notin {"Start"}
      PROVE  Read(c, m).page # "battle"
  BY <1>3, MessageKinds DEF Read, Client
<1>4. ASSUME NEW i \in 0 .. n - 1, i \in Good PROVE i + 1 \in Good
  <2>1. i + 1 \in 1 .. n /\ i + 1 - 1 = i
    BY <1>1
  <2>2. /\ v[i + 1] = Read(v[i], q[i + 1])
        /\ v[i] \in Client /\ q[i + 1] \in Message /\ q[i + 1].type \notin {"Start"}
    BY <2>1, <1>1, <1>2 DEF Path
  <2> QED
    BY <2>1, <2>2, <1>3, <1>4
<1>5. 0 \in Good
  BY <1>1, <1>2 DEF Path
<1> HIDE DEF Good
<1>6. \A i \in 0 .. n - 1 : i \in Good => i + 1 \in Good
  BY <1>4
<1>7. \A i \in 0 .. n : i \in Good
  BY <1>1, <1>5, <1>6, InductionUpTo
<1> QED
  BY <1>1, <1>2, <1>7 DEF Good

-----------------------------------------------------------------------------
(* Users, battles and fights of a server that is all right. *)

(* A name is that of one user. *)
LEMMA OneUser ==
    ASSUME NEW s, ServerOK(s), NEW p \in Online(s), NEW q \in Online(s), Name(s, p) = Name(s, q)
    PROVE  p = q
<1>1. s.userList \in Seq(Ptrs)
  BY DEF ServerOK, ServerType
<1>2. PICK i \in 1 .. Len(s.userList) : s.userList[i] = p
  BY <1>1 DEF Online, ToSet
<1>3. PICK j \in 1 .. Len(s.userList) : s.userList[j] = q
  BY <1>1 DEF Online, ToSet
<1> QED
  BY <1>2, <1>3 DEF ServerOK, UsersOK

(* The users online are those of the list. *)
LEMMA OnlineIs ==
    ASSUME NEW s, ServerType(s)
    PROVE  /\ Online(s) = {s.userList[i] : i \in 1 .. Len(s.userList)}
           /\ Online(s) \subseteq Ptrs /\ Len(s.userList) \in Nat
<1>1. s.userList \in Seq(Ptrs)
  BY DEF ServerType
<1> QED
  BY <1>1 DEF Online, ToSet

(* The search from the front finds the user of a name, if there is one. *)
LEMMA FirstUserIs ==
    ASSUME NEW s, ServerOK(s), NEW n
    PROVE  IF \E p \in Online(s) : Name(s, p) = n
             THEN FirstUser(s, n) \in Online(s) /\ Name(s, FirstUser(s, n)) = n
             ELSE FirstUser(s, n) = Null
<1> DEFINE I == {i \in 1 .. Len(s.userList) : Name(s, s.userList[i]) = n}
           k == IF I # {} THEN Min(I) ELSE 0
<1>1. FirstUser(s, n) = UserAt(s, k)
  BY DEF FirstUser, SelectInSeq
<1>2. /\ Len(s.userList) \in Nat /\ I \in SUBSET (1 .. Len(s.userList))
      /\ Online(s) = {s.userList[i] : i \in 1 .. Len(s.userList)}
  BY OnlineIs DEF ServerOK
<1>3. CASE I = {}
  BY <1>1, <1>2, <1>3 DEF UserAt
<1>4. CASE I # {}
  <2>1. Min(I) \in I
    BY <1>2, <1>4, MinIn
  <2>2. FirstUser(s, n) = s.userList[Min(I)]
    BY <1>1, <1>4, <2>1 DEF UserAt
  <2> QED
    BY <1>2, <2>1, <2>2
<1> QED
  BY <1>3, <1>4

(* So does the search from the back. *)
LEMMA LastUserIs ==
    ASSUME NEW s, ServerOK(s), NEW n
    PROVE  IF \E p \in Online(s) : Name(s, p) = n
             THEN LastUser(s, n) \in Online(s) /\ Name(s, LastUser(s, n)) = n
             ELSE LastUser(s, n) = Null
<1> DEFINE I == {i \in 1 .. Len(s.userList) : Name(s, s.userList[i]) = n}
           k == IF I # {} THEN Max(I) ELSE 0
<1>1. LastUser(s, n) = UserAt(s, k)
  BY DEF LastUser, SelectLastInSeq
<1>2. /\ Len(s.userList) \in Nat /\ I \in SUBSET (1 .. Len(s.userList))
      /\ Online(s) = {s.userList[i] : i \in 1 .. Len(s.userList)}
  BY OnlineIs DEF ServerOK
<1>3. CASE I = {}
  BY <1>1, <1>2, <1>3 DEF UserAt
<1>4. CASE I # {}
  <2>1. Max(I) \in I
    BY <1>2, <1>4, MaxIn
  <2>2. LastUser(s, n) = s.userList[Max(I)]
    BY <1>1, <1>4, <2>1 DEF UserAt
  <2> QED
    BY <1>2, <2>1, <2>2
<1> QED
  BY <1>3, <1>4

(* The state of the server is its five fields. *)
LEMMA FieldsOf ==
    ASSUME NEW s, ServerType(s)
    PROVE  /\ s.heap \in [Ptrs -> User] /\ s.userList \in Seq(Ptrs) /\ s.battles \in Seq(Battle)
           /\ s.out \in [Sockets -> Seq(Message)] /\ s.up \in BOOLEAN
           /\ DOMAIN s = {"heap", "userList", "battles", "out", "up"}
           /\ s = [heap |-> s.heap, userList |-> s.userList, battles |-> s.battles,
                   out |-> s.out, up |-> s.up]
BY DEF ServerType

(* A battle has a user on side A and a user or nobody on side B. *)
LEMMA BattleIs ==
    ASSUME NEW s, ServerType(s), NEW i \in 1 .. Len(s.battles)
    PROVE  /\ s.battles[i] \in Battle /\ s.battles[i].a \in Ptrs /\ s.battles[i].b \in Ptrs \cup {Null}
           /\ Users(s.battles[i]) \subseteq Ptrs /\ s.battles[i].a \in Users(s.battles[i])
           /\ s.battles[i].b # Null => s.battles[i].b \in Users(s.battles[i])
<1>1. s.battles[i] \in Battle
  BY FieldsOf
<1> QED
  BY <1>1, ServerAssumption DEF Battle, Users

(* Who fights whom depends on users and sides only. *)
LEMMA SameServer ==
    ASSUME NEW s, NEW t, ServerOK(s), ServerType(t),
           t.heap = s.heap, t.userList = s.userList, Len(t.battles) = Len(s.battles),
           \A i \in 1 .. Len(s.battles) :
               t.battles[i].a = s.battles[i].a /\ t.battles[i].b = s.battles[i].b
    PROVE  ServerOK(t) /\ \A c, x, v : Fight(t, c, x, v) <=> Fight(s, c, x, v)
<1>1. Online(t) = Online(s) /\ \A p : Name(t, p) = Name(s, p)
  BY DEF Online, Name
<1>2. UsersOK(t)
  BY <1>1 DEF ServerOK, UsersOK
<1>3. BattlesOK(t)
  <2>1. \A i \in 1 .. Len(s.battles) : Users(t.battles[i]) = Users(s.battles[i])
    BY DEF Users
  <2>2. \A p : InBattle(t, p) <=> InBattle(s, p)
    BY <2>1 DEF InBattle
  <2> QED
    BY <1>1, <2>1, <2>2 DEF ServerOK, BattlesOK, MarkedOK
<1>4. \A c, x, v : Fight(t, c, x, v) <=> Fight(s, c, x, v)
  BY <1>1 DEF Fight, FightIn
<1> QED
  BY <1>2, <1>3, <1>4 DEF ServerOK

(* The same users have the same names, and a battle is the same fight. *)
LEMMA SameNames ==
    ASSUME NEW s, NEW t, ServerOK(s), ServerType(t), SameUsers(s, t)
    PROVE  /\ Online(t) = Online(s) /\ UsersOK(t)
           /\ \A p \in Ptrs : Name(t, p) = Name(s, p)
           /\ \A b \in Battle : \A c, x, v : FightIn(t, b, c, x, v) <=> FightIn(s, b, c, x, v)
<1>1. Online(t) = Online(s) /\ \A p \in Ptrs : Name(t, p) = Name(s, p)
  BY DEF Online, Name, SameUsers
<1>2. Online(s) \subseteq Ptrs /\ \A i \in 1 .. Len(s.userList) : s.userList[i] \in Ptrs
  BY FieldsOf, OnlineIs DEF ServerOK
<1>3. UsersOK(t)
  BY <1>1, <1>2 DEF ServerOK, UsersOK, SameUsers
<1>4. \A b \in Battle : b.a \in Ptrs /\ (b.b # Null => b.b \in Ptrs)
  BY DEF Battle
<1>5. \A b \in Battle : \A c, x, v : FightIn(t, b, c, x, v) <=> FightIn(s, b, c, x, v)
  BY <1>1, <1>4 DEF FightIn
<1> QED
  BY <1>1, <1>3, <1>5

(* A name is in one battle, as one of its users. *)
LEMMA OneFight ==
    ASSUME NEW s, ServerOK(s), NEW i \in 1 .. Len(s.battles), NEW j \in 1 .. Len(s.battles),
           NEW p \in Users(s.battles[i]), NEW q \in Users(s.battles[j]), Name(s, p) = Name(s, q)
    PROVE  i = j /\ p = q
<1>1. p \in Online(s) /\ q \in Online(s)
  BY DEF ServerOK, BattlesOK
<1>2. p = q
  BY <1>1, OneUser
<1> QED
  BY <1>2 DEF ServerOK, BattlesOK

(* The set of battles is that of the entries of the list. *)
LEMMA BattlesAre ==
    ASSUME NEW s, ServerType(s)
    PROVE  /\ Len(s.battles) \in Nat /\ \A i \in 1 .. Len(s.battles) : s.battles[i] \in Battles(s)
           /\ \A b \in Battles(s) : \E i \in 1 .. Len(s.battles) : b = s.battles[i]
<1>1. s.battles \in Seq(Battle)
  BY FieldsOf
<1> QED
  BY <1>1 DEF Battles, ToSet

(* A fight is one of a player against another player or the server. *)
LEMMA FightIs ==
    ASSUME NEW s, ServerOK(s), NEW b \in Battles(s),
           NEW c, NEW x, NEW v, FightIn(s, b, c, x, v)
    PROVE  /\ c \in Names /\ v \in Names \cup {Server} /\ v # c
           /\ \E p \in Users(b) : Name(s, p) = c
<1>1. ServerType(s)
  BY DEF ServerOK
<1>0. PICK i \in 1 .. Len(s.battles) : b = s.battles[i]
  BY <1>1, BattlesAre
<1>2. /\ b.a \in Users(b) /\ (b.b # Null => b.b \in Users(b)) /\ b.a # b.b
      /\ \A p \in Users(b) : p \in Online(s) /\ Name(s, p) \in Names
  BY <1>1, <1>0, BattleIs DEF ServerOK, BattlesOK, UsersOK
<1>3. b.b # Null => Name(s, b.a) # Name(s, b.b)
  BY <1>2, OneUser
<1> QED
  BY <1>2, <1>3, ServerAssumption DEF FightIn

(* A battle that ends takes the fights of its users with it, and no        *)
(* others.                                                                 *)
LEMMA EndOK ==
    ASSUME NEW s, NEW t, ServerOK(s), ServerType(t), NEW i \in 1 .. Len(s.battles), Ends(s, t, i)
    PROVE  /\ ServerOK(t)
           /\ \A c, x, v : Fight(t, c, x, v) <=>
                 Fight(s, c, x, v) /\ \A p \in Users(s.battles[i]) : Name(s, p) # c
<1> DEFINE n == Len(s.battles)
<1>1. /\ s.battles \in Seq(Battle) /\ t.battles \in Seq(Battle) /\ n \in Nat
      /\ Len(t.battles) = n - 1
      /\ \A j \in 1 .. n - 1 : t.battles[j] = s.battles[Before(i, j)]
  BY FieldsOf, RemoveAtIs DEF ServerOK, Ends
<1>2. /\ \A j \in 1 .. n - 1 : Before(i, j) \in (1 .. n) \ {i}
      /\ \A j, k \in 1 .. n - 1 : j # k => Before(i, j) # Before(i, k)
      /\ \A j \in (1 .. n) \ {i} : After(i, j) \in 1 .. n - 1 /\ Before(i, After(i, j)) = j
  BY <1>1, Places
<1>3. /\ Online(t) = Online(s) /\ UsersOK(t)
      /\ \A p \in Ptrs : Name(t, p) = Name(s, p)
      /\ \A b \in Battle : \A c, x, v : FightIn(t, b, c, x, v) <=> FightIn(s, b, c, x, v)
  BY SameNames DEF Ends
<1>4. ASSUME NEW j \in 1 .. n - 1, NEW p \in Users(t.battles[j])
      PROVE  p \in Online(t) /\ t.heap[p].status = "BATTLING"
  <2>1. Before(i, j) \in 1 .. n /\ Before(i, j) # i /\ p \in Users(s.battles[Before(i, j)])
    BY <1>1, <1>2
  <2>2. p \in Online(s) /\ s.heap[p].status = "BATTLING" /\ p \notin Users(s.battles[i])
    BY <2>1 DEF ServerOK, BattlesOK
  <2>3. p \in Ptrs
    BY <2>2, OnlineIs DEF ServerOK
  <2> QED
    BY <2>2, <2>3, <1>3 DEF Ends
<1>5. \A j \in 1 .. n - 1 : t.battles[j].a # t.battles[j].b
  BY <1>1, <1>2, ZenonT(30) DEF ServerOK, BattlesOK
<1>6. ASSUME NEW j \in 1 .. n - 1, NEW k \in 1 .. n - 1, j # k
      PROVE  Users(t.battles[j]) \cap Users(t.battles[k]) = {}
  <2>1. Before(i, j) \in 1 .. n /\ Before(i, k) \in 1 .. n /\ Before(i, j) # Before(i, k)
    BY <1>2, <1>6
  <2>2. Users(s.battles[Before(i, j)]) \cap Users(s.battles[Before(i, k)]) = {}
    BY <2>1 DEF ServerOK, BattlesOK
  <2> QED
    BY <2>2, <1>1
<1>7. ServerOK(t)
  <2>1. ASSUME "BATTLING" \notin Garbage, NEW p \in Online(t), t.heap[p].status = "BATTLING"
        PROVE  InBattle(t, p)
    <3>1. p \in Online(s) /\ p \in Ptrs
      BY <1>3, <2>1, OnlineIs DEF ServerOK
    <3>2. p \notin Users(s.battles[i]) /\ s.heap[p].status = "BATTLING"
      BY <2>1, <3>1 DEF Ends
    <3>3. PICK j \in 1 .. n : p \in Users(s.battles[j])
      BY <2>1, <3>1, <3>2 DEF ServerOK, BattlesOK, MarkedOK, InBattle
    <3>4. After(i, j) \in 1 .. n - 1 /\ Before(i, After(i, j)) = j
      BY <1>2, <3>2, <3>3
    <3> QED
      BY <1>1, <3>3, <3>4 DEF InBattle
  <2>2. MarkedOK(t)
    BY <2>1 DEF MarkedOK
  <2> QED
    BY <1>1, <1>3, <1>4, <1>5, <1>6, <2>2 DEF ServerOK, BattlesOK
<1>8. ASSUME NEW c, NEW x, NEW v, Fight(t, c, x, v)
      PROVE  Fight(s, c, x, v) /\ \A p \in Users(s.battles[i]) : Name(s, p) # c
  <2>1. PICK j \in 1 .. n - 1 : FightIn(t, t.battles[j], c, x, v)
    BY <1>1, <1>8 DEF Fight
  <2>2. Before(i, j) \in 1 .. n /\ Before(i, j) # i /\ t.battles[j] = s.battles[Before(i, j)]
        /\ t.battles[j] \in Battle
    BY <1>1, <1>2
  <2>3. FightIn(s, s.battles[Before(i, j)], c, x, v)
    BY <2>1, <2>2, <1>3
  <2>4. PICK p \in Users(s.battles[Before(i, j)]) : Name(s, p) = c
    <3> DEFINE b == s.battles[Before(i, j)]
    <3>1. b \in Battles(s) /\ FightIn(s, b, c, x, v)
      BY <2>2, <2>3, BattlesAre DEF ServerOK
    <3> HIDE DEF b
    <3>2. \E p \in Users(b) : Name(s, p) = c
      BY <3>1, FightIs
    <3> QED
      BY <3>2 DEF b
  <2>5. \A q \in Users(s.battles[i]) : Name(s, q) # c
    BY <2>2, <2>4, OneFight
  <2> QED
    BY <2>2, <2>3, <2>5 DEF Fight
<1>9. ASSUME NEW c, NEW x, NEW v, Fight(s, c, x, v), \A p \in Users(s.battles[i]) : Name(s, p) # c
      PROVE  Fight(t, c, x, v)
  <2>1. PICK j \in 1 .. n : FightIn(s, s.battles[j], c, x, v)
    BY <1>9 DEF Fight
  <2>2. j # i
    <3> DEFINE b == s.battles[j]
    <3>1. b \in Battles(s) /\ FightIn(s, b, c, x, v)
      BY <2>1, BattlesAre DEF ServerOK
    <3> HIDE DEF b
    <3>2. \E p \in Users(b) : Name(s, p) = c
      BY <3>1, FightIs
    <3> QED
      BY <3>2, <1>9 DEF b
  <2>3. After(i, j) \in 1 .. n - 1 /\ t.battles[After(i, j)] = s.battles[j] /\ s.battles[j] \in Battle
    <3>1. After(i, j) \in 1 .. n - 1 /\ Before(i, After(i, j)) = j
      BY <2>2, <1>2
    <3> QED
      BY <3>1, <1>1
  <2> QED
    BY <2>1, <2>3, <1>1, <1>3 DEF Fight
<1> QED
  BY <1>7, <1>8, <1>9

(* What StartBattle changes. *)
LEMMA StartIs ==
    ASSUME NEW s, ServerType(s), NEW a \in Ptrs, NEW b \in Ptrs \cup {Null}
    PROVE  LET t == StartBattle(s, a, b)
           IN  /\ ServerType(t) /\ SameUsers(s, t) /\ t.out = s.out /\ t.up = s.up
               /\ t.battles = Append(s.battles, [a |-> a, b |-> b, acted |-> {}])
               /\ \A p \in Ptrs : t.heap[p].status =
                                   IF p \in {a, b} THEN "BATTLING" ELSE s.heap[p].status
<1> DEFINE t == StartBattle(s, a, b)
           w == [a |-> a, b |-> b, acted |-> {}]
           h == [p \in Ptrs |-> IF p \in {a, b} THEN [s.heap[p] EXCEPT !.status = "BATTLING"]
                                                 ELSE s.heap[p]]
<1>1. w \in Battle
  BY DEF Battle
<1>2. h \in [Ptrs -> User]
  <2>1. ASSUME NEW p \in Ptrs PROVE h[p] \in User
    <3>1. s.heap[p] \in User
      BY FieldsOf
    <3> QED
      BY <3>1 DEF User, Status
  <2> QED
    BY <2>1
<1>3. \A p \in Ptrs : /\ h[p].name = s.heap[p].name /\ h[p].sock = s.heap[p].sock
                      /\ h[p].status = IF p \in {a, b} THEN "BATTLING" ELSE s.heap[p].status
  BY FieldsOf DEF User
<1>4. t = [s EXCEPT !.battles = Append(s.battles, w), !.heap = h]
  BY FieldsOf DEF StartBattle
<1> HIDE DEF t, w, h
<1>5. t = [heap |-> h, userList |-> s.userList, battles |-> Append(s.battles, w), out |-> s.out, up |-> s.up]
  BY <1>4, FieldsOf
<1>6. ServerType(t)
  BY <1>1, <1>2, <1>5, FieldsOf DEF ServerType
<1>7. SameUsers(s, t)
  BY <1>3, <1>5 DEF SameUsers
<1> QED
  BY <1>3, <1>5, <1>6, <1>7 DEF t, w

(* A battle that begins between users in no battle adds its fights. *)
LEMMA StartOK ==
    ASSUME NEW s, ServerOK(s), NEW a \in Online(s), NEW b \in Online(s) \cup {Null}, a # b,
           \A i \in 1 .. Len(s.battles) : a \notin Users(s.battles[i]) /\ b \notin Users(s.battles[i])
    PROVE  LET t == StartBattle(s, a, b)
           IN  /\ ServerOK(t)
               /\ \A c, x, v : Fight(t, c, x, v) <=>
                     \/ Fight(s, c, x, v)
                     \/ FightIn(s, [a |-> a, b |-> b, acted |-> {}], c, x, v)
<1> DEFINE t == StartBattle(s, a, b)
           w == [a |-> a, b |-> b, acted |-> {}]
           n == Len(s.battles)
<1>1. ServerType(s) /\ Online(s) \subseteq Ptrs /\ a \in Ptrs /\ b \in Ptrs \cup {Null}
  BY OnlineIs DEF ServerOK
<1>2. /\ ServerType(t) /\ SameUsers(s, t)
      /\ t.battles = Append(s.battles, w)
      /\ \A p \in Ptrs : t.heap[p].status = IF p \in {a, b} THEN "BATTLING" ELSE s.heap[p].status
  BY <1>1, StartIs
<1>3. w \in Battle /\ w.a = a /\ w.b = b /\ Users(w) = {a, b} \ {Null}
  BY <1>1 DEF Battle, Users
<1> HIDE DEF t, w
<1>4. /\ n \in Nat /\ Len(t.battles) = n + 1 /\ t.battles[n + 1] = w
      /\ \A i \in 1 .. n : t.battles[i] = s.battles[i] /\ s.battles[i] \in Battle
  BY <1>1, <1>2, <1>3, FieldsOf
<1>5. /\ Online(t) = Online(s) /\ UsersOK(t)
      /\ \A p \in Ptrs : Name(t, p) = Name(s, p)
      /\ \A d \in Battle : \A c, x, v : FightIn(t, d, c, x, v) <=> FightIn(s, d, c, x, v)
  BY <1>2, SameNames
<1>6. ASSUME NEW i \in 1 .. n + 1 PROVE t.battles[i].a # t.battles[i].b
  <2>1. CASE i = n + 1
    BY <2>1, <1>3, <1>4
  <2>2. CASE i # n + 1
    BY <2>2, <1>4 DEF ServerOK, BattlesOK
  <2> QED
    BY <2>1, <2>2
<1>7. ASSUME NEW i \in 1 .. n + 1, NEW p \in Users(t.battles[i])
      PROVE  p \in Online(t) /\ t.heap[p].status = "BATTLING"
  <2>1. CASE i = n + 1
    <3>1. p \in {a, b} /\ p \in Ptrs /\ p \in Online(s)
      BY <2>1, <1>1, <1>3, <1>4
    <3> QED
      BY <3>1, <1>2, <1>5
  <2>2. CASE i # n + 1
    <3>1. p \in Online(s) /\ s.heap[p].status = "BATTLING"
      BY <2>2, <1>4 DEF ServerOK, BattlesOK
    <3> QED
      BY <3>1, <1>1, <1>2, <1>5
  <2> QED
    BY <2>1, <2>2
<1>8. ASSUME NEW i \in 1 .. n + 1, NEW j \in 1 .. n + 1, i # j
      PROVE  Users(t.battles[i]) \cap Users(t.battles[j]) = {}
  <2>1. CASE i # n + 1 /\ j # n + 1
    <3>1. i \in 1 .. n /\ j \in 1 .. n
      BY <2>1, <1>4
    <3>2. Users(s.battles[i]) \cap Users(s.battles[j]) = {}
      BY <3>1, <1>8 DEF ServerOK, BattlesOK
    <3> QED
      BY <3>1, <3>2, <1>4
  <2>2. CASE i = n + 1
    BY <2>2, <1>3, <1>4, <1>8
  <2>3. CASE j = n + 1
    BY <2>3, <1>3, <1>4, <1>8
  <2> QED
    BY <2>1, <2>2, <2>3
<1>9. ServerOK(t)
  <2>1. ASSUME "BATTLING" \notin Garbage, NEW p \in Online(t), t.heap[p].status = "BATTLING"
        PROVE  InBattle(t, p)
    <3>1. p \in Online(s) /\ p \in Ptrs /\ p # Null
      BY <1>1, <1>5, <2>1, ServerAssumption
    <3>2. CASE p \in {a, b}
      <4>1. p \in Users(t.battles[n + 1]) /\ n + 1 \in 1 .. n + 1
        BY <1>3, <1>4, <3>1, <3>2
      <4> QED
        BY <1>4, <4>1 DEF InBattle
    <3>3. CASE p \notin {a, b}
      <4>1. PICK j \in 1 .. n : p \in Users(s.battles[j])
        BY <1>2, <2>1, <3>1, <3>3 DEF ServerOK, BattlesOK, MarkedOK, InBattle
      <4>2. j \in 1 .. n + 1 /\ t.battles[j] = s.battles[j]
        BY <1>4
      <4> QED
        BY <1>4, <4>1, <4>2 DEF InBattle
    <3> QED
      BY <3>2, <3>3
  <2>2. MarkedOK(t)
    BY <2>1 DEF MarkedOK
  <2> QED
    BY <1>2, <1>4, <1>5, <1>6, <1>7, <1>8, <2>2 DEF ServerOK, BattlesOK
<1>10. ASSUME NEW c, NEW x, NEW v
       PROVE  Fight(t, c, x, v) <=> Fight(s, c, x, v) \/ FightIn(s, w, c, x, v)
  <2>1. Fight(t, c, x, v) <=> \E i \in 1 .. n + 1 : FightIn(s, t.battles[i], c, x, v)
    BY <1>3, <1>4, <1>5, SMTT(20) DEF Fight
  <2>2. n + 1 \in 1 .. n + 1 /\ \A i \in 1 .. n + 1 : i \in 1 .. n \/ i = n + 1
    BY <1>4
  <2>3. \A i \in 1 .. n : i \in 1 .. n + 1
    BY <1>4
  <2> QED
    BY <2>1, <2>2, <2>3, <1>4 DEF Fight
<1> QED
  BY <1>9, <1>10 DEF t, w

(* A message to a user goes to the connection of his name. *)
LEMMA SendIs ==
    ASSUME NEW s, ServerOK(s), NEW p \in Online(s), NEW m \in Message
    PROVE  Name(s, p) \in Names /\ p \in Ptrs /\ Send(s, p, m) = Reply(s, Name(s, p), m)
BY OnlineIs DEF ServerOK, UsersOK, Send

-----------------------------------------------------------------------------
(* Answers and invitations in a queue. *)

(* A queue with a message behind it. *)
LEMMA AppendIs ==
    ASSUME NEW q \in Seq(Message), NEW m \in Message
    PROVE  /\ Append(q, m) \in Seq(Message) /\ Len(q) \in Nat /\ Len(Append(q, m)) = Len(q) + 1
           /\ \A i \in 1 .. Len(q) : Append(q, m)[i] = q[i]
           /\ Append(q, m)[Len(q) + 1] = m
OBVIOUS

(* What is no answer does not disturb answers. *)
LEMMA AnswerAppend ==
    ASSUME NEW h \in Client, NEW q \in Seq(Message), NEW m \in Message, m.type \notin Answers
    PROVE  /\ AnswerAt(h, q) => AnswerAt(h, Append(q, m))
           /\ NoAnswer(q) => NoAnswer(Append(q, m))
<1> DEFINE r == Append(q, m)
           n == Len(q)
<1>1. n \in Nat /\ Len(r) = n + 1 /\ r[n + 1] = m /\ \A i \in 1 .. n : r[i] = q[i]
  BY AppendIs
<1> HIDE DEF r, n
<1>2. \A i \in 1 .. n + 1 : r[i].type \in Answers => i \in 1 .. n /\ r[i] = q[i]
  BY <1>1
<1>3. ASSUME AnswerAt(h, q) PROVE AnswerAt(h, r)
  BY <1>1, <1>2, <1>3 DEF AnswerAt, n
<1>4. ASSUME NoAnswer(q) PROVE NoAnswer(r)
  BY <1>1, <1>2, <1>4 DEF NoAnswer, n
<1> QED
  BY <1>3, <1>4 DEF r

(* The first answer to somebody who waits for it. *)
LEMMA AnswerFirst ==
    ASSUME NEW h \in Client, NEW q \in Seq(Message), NEW m \in Message, NoAnswer(q), h.waiting,
           h.page = IF m.type = "Login" THEN "login" ELSE "main", m.type = "Login" => m.ok
    PROVE  AnswerAt(h, Append(q, m))
<1> DEFINE r == Append(q, m)
           n == Len(q)
<1>1. n \in Nat /\ Len(r) = n + 1 /\ r[n + 1] = m /\ \A i \in 1 .. n : r[i] = q[i]
  BY AppendIs
<1> HIDE DEF r, n
<1>2. \A i \in 1 .. n + 1 : r[i].type \in Answers => i = n + 1
  BY <1>1 DEF NoAnswer, n
<1> QED
  BY <1>1, <1>2 DEF AnswerAt, r

(* Who does not wait, or fights, has no answer under way. *)
LEMMA AnswerNone ==
    ASSUME NEW h, NEW q
    PROVE  /\ NoAnswer(q) => AnswerAt(h, q)
           /\ AnswerAt(h, q) /\ ~h.waiting => NoAnswer(q)
           /\ AnswerAt(h, q) /\ h.page = "battle" => NoAnswer(q)
BY DEF NoAnswer, AnswerAt

(* No answer in an empty queue. *)
LEMMA AnswerEmpty == ASSUME NEW h PROVE NoAnswer(<<>>) /\ AnswerAt(h, <<>>)
BY DEF NoAnswer, AnswerAt

(* A queue without its first message. *)
LEMMA TailIs ==
    ASSUME NEW q \in Seq(Message), q # <<>>
    PROVE  /\ Tail(q) \in Seq(Message) /\ Len(q) \in Nat \ {0} /\ Len(Tail(q)) = Len(q) - 1
           /\ Head(q) = q[1] /\ Head(q) \in Message
           /\ \A i \in 1 .. Len(q) - 1 : Tail(q)[i] = q[i + 1]
OBVIOUS

(* An answer read leaves none behind it. *)
LEMMA AnswerRead ==
    ASSUME NEW h \in Client, NEW q \in Seq(Message), q # <<>>, AnswerAt(h, q)
    PROVE  AnswerAt(Read(h, Head(q)), Tail(q))
<1> DEFINE m == Head(q)
           r == Tail(q)
           n == Len(q)
<1>1. n \in Nat \ {0} /\ Len(r) = n - 1 /\ m = q[1] /\ m \in Message
      /\ \A i \in 1 .. n - 1 : r[i] = q[i + 1]
  BY TailIs
<1> HIDE DEF r, n, m
<1>2. CASE m.type \in Answers
  <2>1. ASSUME NEW i \in 1 .. n - 1, r[i].type \in Answers PROVE FALSE
    <3>1. 1 \in 1 .. n /\ i + 1 \in 1 .. n /\ i + 1 # 1 /\ q[i + 1].type \in Answers /\ q[1].type \in Answers
      BY <1>1, <1>2, <2>1
    <3> QED
      BY <3>1 DEF AnswerAt, n
  <2>2. NoAnswer(r)
    BY <2>1, <1>1 DEF NoAnswer
  <2> QED
    BY <2>2, AnswerNone DEF r, m
<1>3. CASE m.type \notin Answers
  <2>1. ASSUME NEW i \in 1 .. n - 1, r[i].type \in Answers
        PROVE  /\ h.waiting
               /\ h.page = IF r[i].type = "Login" THEN "login" ELSE "main"
               /\ r[i].type = "Login" => r[i].ok
               /\ \A j \in 1 .. n - 1 : r[j].type \in Answers => i = j
    <3>1. i + 1 \in 1 .. n /\ q[i + 1] = r[i]
      BY <1>1
    <3>2. /\ h.waiting
          /\ h.page = IF r[i].type = "Login" THEN "login" ELSE "main"
          /\ r[i].type = "Login" => r[i].ok
          /\ \A j \in 1 .. n : q[j].type \in Answers => i + 1 = j
      BY <3>1, <2>1 DEF AnswerAt, n
    <3>3. ASSUME NEW j \in 1 .. n - 1, r[j].type \in Answers PROVE i = j
      <4>1. j + 1 \in 1 .. n /\ q[j + 1] = r[j]
        BY <1>1
      <4>2. i + 1 = j + 1
        BY <4>1, <3>2, <3>3
      <4> QED
        BY <4>2
    <3> QED
      BY <3>2, <3>3
  <2>2. h.page # "battle" => Read(h, m).waiting = h.waiting /\ Read(h, m).page = h.page
    BY <1>1, <1>3, MessageKinds DEF Read, Client, Answers
  <2>3. ASSUME NEW i \in 1 .. n - 1, r[i].type \in Answers
        PROVE  Read(h, m).waiting = h.waiting /\ Read(h, m).page = h.page
    BY <2>1, <2>2, <2>3
  <2>4. AnswerAt(Read(h, m), r)
    BY <1>1, <2>1, <2>3 DEF AnswerAt
  <2> QED
    BY <2>4 DEF r, m
<1> QED
  BY <1>2, <1>3

(* Where the invitations of n are after a message was sent or read. *)
LEMMA HoldsAppend ==
    ASSUME NEW h, NEW q \in Seq(Message), NEW m \in Message, NEW n, NEW i,
           Holds(h, Append(q, m), i, n)
    PROVE  \/ Holds(h, q, i, n)
           \/ m = Invite(n) /\ i = Len(q) + 1
BY AppendIs DEF Holds

(* Where the invitations of n were before a message was read. *)
LEMMA HoldsRead ==
    ASSUME NEW h \in Client, NEW q \in Seq(Message), q # <<>>, NEW n \in Names, NEW i,
           Holds(Read(h, Head(q)), Tail(q), i, n)
    PROVE  Holds(h, q, IF i = 0 /\ Head(q).type # "Invite" THEN 0 ELSE i + 1, n)
<1>1. CASE i = 0
  <2>1. Read(h, Head(q)).popup = n
    BY <1>1 DEF Holds
  <2>2. CASE Head(q).type # "Invite"
    <3>1. h.popup = n
      BY <2>1, <2>2, TailIs, MessageKinds DEF Read, Client
    <3> QED
      BY <1>1, <2>2, <3>1 DEF Holds
  <2>3. CASE Head(q).type = "Invite"
    <3>1. Head(q) = Invite(n)
      BY <2>1, <2>3, TailIs DEF Read, Client, Message, Invite, LoginAnswer, Start, NoStart, TurnInfo, Finish
    <3> QED
      BY <1>1, <2>3, <3>1, TailIs DEF Holds
  <2> QED
    BY <2>2, <2>3
<1>2. CASE i # 0
  <2>1. i \in 1 .. Len(q) - 1 /\ Tail(q)[i] = Invite(n)
    BY <1>2, TailIs DEF Holds
  <2>2. i + 1 \in 1 .. Len(q) /\ q[i + 1] = Invite(n)
    BY <2>1, TailIs
  <2> QED
    BY <1>2, <2>2 DEF Holds
<1> QED
  BY <1>1, <1>2

-----------------------------------------------------------------------------
(* A client, when something is told to it or its player acts. *)

(* The messages have the types and fields they are made with. *)
LEMMA Kinds ==
    /\ TurnInfo \in Message /\ TurnInfo.type = "Turn"
    /\ Finish \in Message /\ Finish.type = "Finish"
    /\ NoStart \in Message /\ NoStart.type = "NoStart"
    /\ \A i \in {0, 1} : Start(i) \in Message /\ Start(i).type = "Start" /\ Start(i).isA = i
    /\ \A n \in Names : Invite(n) \in Message /\ Invite(n).type = "Invite" /\ Invite(n).from = n
    /\ \A ok \in BOOLEAN : LoginAnswer(ok) \in Message /\ LoginAnswer(ok).type = "Login"
                           /\ LoginAnswer(ok).ok = ok
    /\ \A n, m : Invite(n) = Invite(m) => n = m
<1>1. \A n, m : Invite(n) = Invite(m) => n = m
  <2> SUFFICES ASSUME NEW n, NEW m, Invite(n) = Invite(m) PROVE n = m
    OBVIOUS
  <2>1. Invite(n).from = n /\ Invite(m).from = m
    BY DEF Invite
  <2> QED
    BY <2>1
<1> QED
  BY <1>1 DEF Message, TurnInfo, Finish, NoStart, Start, Invite, LoginAnswer

(* A step that leaves the user and his battles alone leaves the client     *)
(* right.                                                                  *)
LEMMA ClientSame ==
    ASSUME NEW s, NEW t, NEW c, NEW h, NEW q, Alike(s, t, c), ClientAt(s, c, h, q)
    PROVE  ClientAt(t, c, h, q)
<1>1. \A v : ViewAt(s, c, v) => ViewAt(t, c, v)
  BY DEF Alike, ViewAt
<1> QED
  BY <1>1 DEF Alike, ClientAt

(* A message that shows no other page. *)
LEMMA ClientTold ==
    ASSUME NEW s, NEW t, NEW c, NEW h \in Client, NEW q \in Seq(Message), NEW m \in Message,
           Alike(s, t, c), ClientAt(s, c, h, q), h.session,
           m.type \in {"Turn", "Invite", "NoStart"}, AnswerAt(h, Append(q, m))
    PROVE  ClientAt(t, c, h, Append(q, m))
<1> DEFINE v == ViewOf(h, q)
           w == ViewOf(h, Append(q, m))
<1>1. w = Read(v, m) /\ v \in Client
  BY ViewAppend
<1> HIDE DEF v, w
<1>2. w.page = v.page /\ w.isA = v.isA
  BY <1>1 DEF Read, Client
<1>3. ViewAt(s, c, v) => ViewAt(t, c, w)
  BY <1>2 DEF Alike, ViewAt
<1>4. ViewAt(s, c, v)
  BY DEF ClientAt, v
<1> QED
  BY <1>3, <1>4 DEF Alike, ClientAt, w

(* The end of a battle is told. *)
LEMMA ClientFinish ==
    ASSUME NEW s, NEW t, NEW c, NEW h \in Client, NEW q \in Seq(Message),
           LoggedIn(t, c) <=> LoggedIn(s, c), \A x \in {0, 1} : ~Plays(t, c, x),
           ClientAt(s, c, h, q), h.session
    PROVE  ClientAt(t, c, h, Append(q, Finish))
<1> DEFINE v == ViewOf(h, q)
           w == ViewOf(h, Append(q, Finish))
<1>1. w = Read(v, Finish) /\ v \in Client
  BY ViewAppend, Kinds
<1> HIDE DEF v, w
<1>2. w.page # "battle"
  BY <1>1, Kinds DEF Read, Client
<1>3. ViewAt(t, c, w)
  BY <1>2 DEF ViewAt
<1>4. AnswerAt(h, Append(q, Finish))
  BY AnswerAppend, Kinds DEF ClientAt, Answers
<1> QED
  BY <1>3, <1>4 DEF ClientAt, w

(* The beginning of a battle is told. *)
LEMMA ClientStart ==
    ASSUME NEW s, NEW t, NEW c, NEW h \in Client, NEW g \in Client, NEW q \in Seq(Message),
           NEW i \in {0, 1},
           LoggedIn(t, c) <=> LoggedIn(s, c), Plays(t, c, i), ~Plays(t, c, 1 - i),
           ClientAt(s, c, h, q), h.session, g.session,
           g.page = "main", g.waiting, NoAnswer(q)
    PROVE  ClientAt(t, c, g, Append(q, Start(i)))
<1> DEFINE v == ViewOf(g, q)
           w == ViewOf(g, Append(q, Start(i)))
<1>1. w = Read(v, Start(i)) /\ v \in Client
  BY ViewAppend, Kinds
<1> HIDE DEF v, w
<1>2. w.page = "battle" /\ w.isA = i
  BY <1>1, Kinds DEF Read, Client
<1>3. ViewAt(t, c, w)
  BY <1>2 DEF ViewAt
<1>4. AnswerAt(g, Append(q, Start(i)))
  BY AnswerFirst, Kinds
<1> QED
  BY <1>3, <1>4 DEF ClientAt, w

(* A player does something that keeps his page. *)
LEMMA ClientActs ==
    ASSUME NEW s, NEW t, NEW c, NEW h \in Client, NEW g \in Client, NEW q \in Seq(Message),
           Alike(s, t, c), ClientAt(s, c, h, q), NoAnswer(q),
           g.page = h.page, g.isA = h.isA, g.session = h.session
    PROVE  ClientAt(t, c, g, q)
<1> DEFINE v == ViewOf(h, q)
           w == ViewOf(g, q)
<1>1. w.page = v.page /\ w.isA = v.isA
  BY ViewSame
<1> HIDE DEF v, w
<1>2. ViewAt(s, c, v) => ViewAt(t, c, w)
  BY <1>1 DEF Alike, ViewAt
<1>3. AnswerAt(g, q)
  BY AnswerNone
<1> QED
  BY <1>2, <1>3 DEF Alike, ClientAt, v, w

(* Reading a message changes nothing of what the client sees in the end. *)
LEMMA ClientReads ==
    ASSUME NEW s, NEW t, NEW c, NEW h \in Client, NEW q \in Seq(Message), q # <<>>,
           Alike(s, t, c), ClientAt(s, c, h, q)
    PROVE  ClientAt(t, c, Read(h, Head(q)), Tail(q))
<1>1. Read(h, Head(q)).session = h.session
  BY TailIs, MessageKinds DEF Read, Client
<1>2. h.session
  BY DEF ClientAt
<1>3. ViewOf(Read(h, Head(q)), Tail(q)) = ViewOf(h, q)
  BY ViewHead
<1>4. AnswerAt(Read(h, Head(q)), Tail(q))
  BY AnswerRead DEF ClientAt
<1>5. \A v : ViewAt(s, c, v) => ViewAt(t, c, v)
  BY DEF Alike, ViewAt
<1> QED
  BY <1>1, <1>2, <1>3, <1>4, <1>5 DEF Alike, ClientAt

(* On the main page and without an answer under way: no battle. *)
LEMMA ClientFree ==
    ASSUME NEW s, NEW c, NEW h \in Client, NEW q \in Seq(Message),
           ClientAt(s, c, h, q), h.session, h.page = "main", NoAnswer(q)
    PROVE  \A x \in {0, 1} : ~Plays(s, c, x)
<1>1. ViewOf(h, q).page = "main"
  BY ViewIdle DEF NoAnswer, Answers
<1> QED
  BY <1>1 DEF ClientAt, ViewAt

(* A client without a session. *)
LEMMA ClientAway ==
    ASSUME NEW t, NEW c, NEW g, ~g.session, ~LoggedIn(t, c)
    PROVE  ClientAt(t, c, g, <<>>)
BY AnswerEmpty DEF ClientAt

(* An invitation is shown or in the queue. *)
LEMMA HoldsRange ==
    ASSUME NEW h, NEW q \in Seq(Message), NEW i, NEW n, Holds(h, q, i, n)
    PROVE  i \in 0 .. Len(q)
BY DEF Holds

(* Who sent an invitation that is open waits for the answer, and it is his *)
(* only one.                                                               *)
LEMMA InvitesAre ==
    ASSUME NEW s, NEW k, ServerType(s), InvitesOK(s, k),
           NEW n \in Names, NEW c \in Sockets, NEW d \in Sockets, NEW i, NEW j,
           Holds(k[c], Queue(s, c), i, n)
    PROVE  /\ Asks(k[n], Queue(s, n))
           /\ Holds(k[d], Queue(s, d), j, n) => c = d /\ i = j
<1>1. Queue(s, c) \in Seq(Message) /\ Queue(s, d) \in Seq(Message)
  BY FieldsOf DEF Queue
<1>2. i \in 0 .. Len(Queue(s, c))
  BY <1>1, HoldsRange
<1>3. Holds(k[d], Queue(s, d), j, n) => j \in 0 .. Len(Queue(s, d))
  BY <1>1, HoldsRange
<1>4. 0 \in 0 .. Len(Queue(s, d))
  BY <1>1
<1> QED
  BY <1>2, <1>3, <1>4 DEF InvitesOK

(* Invitations stay right when none is added and those who asked still     *)
(* wait.                                                                   *)
LEMMA InvitesKept ==
    ASSUME NEW s, NEW t, NEW k, NEW h, ServerType(s), InvitesOK(s, k),
           \A n \in Names, c \in Sockets : \A i : Holds(h[c], Queue(t, c), i, n) =>
               Holds(k[c], Queue(s, c), i, n) /\ Asks(h[n], Queue(t, n))
    PROVE  InvitesOK(t, h)
<1> SUFFICES ASSUME NEW n \in Names, NEW c \in Sockets, NEW d \in Sockets,
                    NEW i \in 0 .. Len(Queue(t, c)), NEW j \in 0 .. Len(Queue(t, d)),
                    Holds(h[c], Queue(t, c), i, n)
             PROVE  /\ Asks(h[n], Queue(t, n))
                    /\ Holds(h[d], Queue(t, d), j, n) => c = d /\ i = j
  BY DEF InvitesOK
<1>1. Holds(k[c], Queue(s, c), i, n) /\ Asks(h[n], Queue(t, n))
  OBVIOUS
<1>2. Holds(h[d], Queue(t, d), j, n) => Holds(k[d], Queue(s, d), j, n)
  OBVIOUS
<1> QED
  BY <1>1, <1>2, InvitesAre

-----------------------------------------------------------------------------
(* Single changes of the server, and the end of a battle as a sequence of them. *)

(* Writing one field. *)
LEMMA SetHeap ==
    ASSUME NEW s, ServerType(s), NEW h \in [Ptrs -> User]
    PROVE  LET t == [s EXCEPT !.heap = h]
           IN  /\ ServerType(t) /\ t.heap = h /\ t.userList = s.userList /\ t.battles = s.battles
               /\ t.out = s.out /\ t.up = s.up
<1> DEFINE t == [s EXCEPT !.heap = h]
<1>1. t = [heap |-> h, userList |-> s.userList, battles |-> s.battles, out |-> s.out, up |-> s.up]
  BY FieldsOf
<1> HIDE DEF t
<1> QED
  BY <1>1, FieldsOf DEF ServerType, t

(* Writing the battles. *)
LEMMA SetBattles ==
    ASSUME NEW s, ServerType(s), NEW b \in Seq(Battle)
    PROVE  LET t == [s EXCEPT !.battles = b]
           IN  /\ ServerType(t) /\ t.heap = s.heap /\ t.userList = s.userList /\ t.battles = b
               /\ t.out = s.out /\ t.up = s.up
<1> DEFINE t == [s EXCEPT !.battles = b]
<1>1. t = [heap |-> s.heap, userList |-> s.userList, battles |-> b, out |-> s.out, up |-> s.up]
  BY FieldsOf
<1> HIDE DEF t
<1> QED
  BY <1>1, FieldsOf DEF ServerType, t

(* Writing the queues. *)
LEMMA SetOut ==
    ASSUME NEW s, ServerType(s), NEW o \in [Sockets -> Seq(Message)]
    PROVE  LET t == [s EXCEPT !.out = o]
           IN  /\ ServerType(t) /\ t.heap = s.heap /\ t.userList = s.userList
               /\ t.battles = s.battles /\ t.out = o /\ t.up = s.up
<1> DEFINE t == [s EXCEPT !.out = o]
<1>1. t = [heap |-> s.heap, userList |-> s.userList, battles |-> s.battles, out |-> o, up |-> s.up]
  <2>1. DOMAIN s = {"heap", "userList", "battles", "out", "up"}
    BY FieldsOf
  <2> QED
    BY <2>1
<1> HIDE DEF t
<1> QED
  BY <1>1, FieldsOf DEF ServerType, t

(* Writing whether the server is up. *)
LEMMA SetUp ==
    ASSUME NEW s, ServerType(s), NEW w \in BOOLEAN
    PROVE  LET t == [s EXCEPT !.up = w]
           IN  /\ ServerType(t) /\ t.heap = s.heap /\ t.userList = s.userList
               /\ t.battles = s.battles /\ t.out = s.out /\ t.up = w
<1> DEFINE t == [s EXCEPT !.up = w]
<1>1. t = [heap |-> s.heap, userList |-> s.userList, battles |-> s.battles, out |-> s.out, up |-> w]
  <2>1. DOMAIN s = {"heap", "userList", "battles", "out", "up"}
    BY FieldsOf
  <2> QED
    BY <2>1
<1> HIDE DEF t
<1> QED
  BY <1>1, FieldsOf DEF ServerType, t

(* A crash changes nothing but that. *)
LEMMA CrashIs ==
    ASSUME NEW s, ServerType(s)
    PROVE  /\ ServerType(Crash(s)) /\ Crash(s).heap = s.heap /\ Crash(s).userList = s.userList
           /\ Crash(s).battles = s.battles /\ Crash(s).out = s.out /\ ~Crash(s).up
BY SetUp DEF Crash

(* A queue is a sequence of messages. *)
LEMMA QueueType ==
    ASSUME NEW s, ServerType(s), NEW c \in Sockets
    PROVE  Queue(s, c) \in Seq(Message)
BY FieldsOf DEF Queue

(* What Reply changes. *)
LEMMA ReplyFields ==
    ASSUME NEW s, ServerType(s), NEW c \in Sockets, NEW m \in Message
    PROVE  LET t == Reply(s, c, m)
           IN  /\ ServerType(t) /\ t.heap = s.heap /\ t.userList = s.userList
               /\ t.battles = s.battles /\ t.up = s.up
               /\ \A d \in Sockets :
                     Queue(t, d) = IF d = c THEN Append(Queue(s, d), m) ELSE Queue(s, d)
<1> DEFINE o == [s.out EXCEPT ![c] = Append(@, m)]
           t == [s EXCEPT !.out = o]
<1>1. o \in [Sockets -> Seq(Message)]
      /\ \A d \in Sockets : o[d] = IF d = c THEN Append(s.out[d], m) ELSE s.out[d]
  BY FieldsOf
<1>2. Reply(s, c, m) = t
  BY FieldsOf DEF Reply
<1> HIDE DEF o
<1>3. /\ ServerType(t) /\ t.heap = s.heap /\ t.userList = s.userList
      /\ t.battles = s.battles /\ t.out = o /\ t.up = s.up
  BY <1>1, SetOut
<1> HIDE DEF t
<1>4. \A d \in Sockets : Queue(t, d) = IF d = c THEN Append(Queue(s, d), m) ELSE Queue(s, d)
  BY <1>1, <1>3 DEF Queue
<1> QED
  BY <1>2, <1>3, <1>4

(* Before anything was done. *)
LEMMA EndingNone ==
    ASSUME NEW s, ServerType(s) PROVE Ending(s, s, {}, {})
BY DEF Ending, SameUsers

(* A user is set free. *)
LEMMA SetIdleEnds ==
    ASSUME NEW s, NEW r, NEW I, NEW T, Ending(s, r, I, T), NEW p \in Ptrs
    PROVE  Ending(s, SetIdle(r, p), I \cup {p}, T)
<1> DEFINE h == [r.heap EXCEPT ![p].status = "IDLE"]
           t == [r EXCEPT !.heap = h]
<1>1. ServerType(r) /\ p # Null
  BY ServerAssumption DEF Ending
<1>2. r.heap \in [Ptrs -> User]
  BY <1>1, FieldsOf
<1>3. /\ h \in [Ptrs -> User]
      /\ \A u \in Ptrs : /\ h[u].name = r.heap[u].name /\ h[u].sock = r.heap[u].sock
                         /\ h[u].status = IF u = p THEN "IDLE" ELSE r.heap[u].status
  BY <1>2 DEF User, Status
<1>4. SetIdle(r, p) = t
  BY <1>1, FieldsOf DEF SetIdle
<1> HIDE DEF h
<1>5. /\ ServerType(t) /\ t.heap = h /\ t.userList = r.userList /\ t.battles = r.battles
      /\ t.out = r.out /\ t.up = r.up
  BY <1>1, <1>3, SetHeap
<1> HIDE DEF t
<1>6. SameUsers(s, t)
  BY <1>3, <1>5 DEF Ending, SameUsers
<1>7. Ending(s, t, I \cup {p}, T)
  BY <1>3, <1>5, <1>6 DEF Ending, Queue
<1> QED
  BY <1>4, <1>7

(* A user is set free and told. *)
LEMMA ReleaseEnds ==
    ASSUME NEW s, ServerOK(s), NEW r, NEW I, NEW T, Ending(s, r, I, T),
           NEW p \in Online(s), Name(s, p) \notin T
    PROVE  Ending(s, Release(r, p), I \cup {p}, T \cup {Name(s, p)})
<1> DEFINE u == SetIdle(r, p)
           n == Name(s, p)
           t == Reply(u, n, Finish)
<1>1. p \in Ptrs /\ n \in Names /\ n \in Sockets /\ p # Null /\ s.heap[p].sock = n
  BY OnlineIs, ServerAssumption, GameAssumption DEF ServerOK, UsersOK
<1>2. Ending(s, u, I \cup {p}, T)
  BY <1>1, SetIdleEnds
<1> HIDE DEF u
<1>3. p \in Online(u) /\ u.heap[p].sock = n
  BY <1>1, <1>2 DEF Ending, SameUsers, Online
<1>4. Release(r, p) = t
  BY <1>1, <1>3 DEF Release, Tell, Send, u
<1>5. /\ ServerType(t) /\ t.heap = u.heap /\ t.userList = u.userList
      /\ t.battles = u.battles /\ t.up = u.up
      /\ \A d \in Sockets : Queue(t, d) = IF d = n THEN Append(Queue(u, d), Finish) ELSE Queue(u, d)
  <2>1. ServerType(u) /\ n \in Sockets /\ Finish \in Message
    BY <1>1, <1>2, Kinds DEF Ending
  <2> HIDE DEF n
  <2> QED
    BY <2>1, ReplyFields
<1> HIDE DEF t, n
<1>6. SameUsers(s, t)
  BY <1>2, <1>5 DEF Ending, SameUsers
<1>7. \A d \in Sockets :
         Queue(t, d) = IF d \in T \cup {n} THEN Append(Queue(s, d), Finish) ELSE Queue(s, d)
  BY <1>2, <1>5 DEF Ending, n
<1>8. Ending(s, t, I \cup {p}, T \cup {n})
  BY <1>2, <1>5, <1>6, <1>7 DEF Ending
<1> QED
  BY <1>4, <1>8 DEF n

(* t is s without battle i, and the clients in T are told. *)
Dropped(s, t, i, T) ==
    /\ ServerOK(t) /\ Ends(s, t, i) /\ t.up = s.up
    /\ \A d \in Sockets :
          Queue(t, d) = IF d \in T THEN Append(Queue(s, d), Finish) ELSE Queue(s, d)

(* The battle itself is removed. *)
LEMMA DropEnds ==
    ASSUME NEW s, ServerOK(s), NEW i \in 1 .. Len(s.battles), NEW r, NEW T,
           Ending(s, r, Users(s.battles[i]), T), NEW t, t = Drop(r, i)
    PROVE  Dropped(s, t, i, T)
<1> DEFINE b == RemoveAt(s.battles, i)
<1>1. ServerType(s) /\ ServerType(r) /\ r.battles = s.battles
  BY DEF ServerOK, Ending
<1>2. b \in Seq(Battle)
  BY <1>1, FieldsOf, RemoveAtIs
<1>3. t = [r EXCEPT !.battles = b]
  BY <1>1, FieldsOf DEF Drop
<1> HIDE DEF b
<1>4. /\ ServerType(t) /\ t.heap = r.heap /\ t.userList = r.userList /\ t.battles = b
      /\ t.out = r.out /\ t.up = r.up
  BY <1>1, <1>2, <1>3, SetBattles
<1>5. SameUsers(s, t)
  BY <1>4 DEF Ending, SameUsers
<1>6. /\ \A p \in Ptrs \ Users(s.battles[i]) : t.heap[p].status = s.heap[p].status
      /\ \A p \in Users(s.battles[i]) : t.heap[p].status = "IDLE"
  <2>1. Users(s.battles[i]) \subseteq Ptrs
    BY <1>1, BattleIs DEF Users
  <2> QED
    BY <1>4, <2>1 DEF Ending
<1>7. Ends(s, t, i)
  BY <1>4, <1>5, <1>6 DEF Ends, b
<1>8. ServerOK(t)
  BY <1>4, <1>7, EndOK
<1>9. \A d \in Sockets : Queue(t, d) = IF d \in T THEN Append(Queue(s, d), Finish) ELSE Queue(s, d)
  BY <1>4 DEF Ending, Queue
<1> QED
  BY <1>4, <1>7, <1>8, <1>9 DEF Ending, Dropped

-----------------------------------------------------------------------------
(* Quiet steps: messages of a turn. *)

(* The same names in the same fights are alike for every client. *)
LEMMA AlikeIs ==
    ASSUME NEW s, NEW t, Online(t) = Online(s), \A p \in Online(s) : Name(t, p) = Name(s, p),
           \A c, x, v : Fight(t, c, x, v) <=> Fight(s, c, x, v)
    PROVE  /\ \A c : Alike(s, t, c)
           /\ SameFights(s, t)
BY DEF Alike, LoggedIn, Plays, SameFights

(* A quiet step leaves users and fights alone. *)
LEMMA QuietSame ==
    ASSUME NEW s, NEW t, ServerOK(s), Quiet(s, t)
    PROVE  /\ \A c, x, v : Fight(t, c, x, v) <=> Fight(s, c, x, v)
           /\ \A c : Alike(s, t, c)
           /\ SameFights(s, t)
           /\ Online(t) = Online(s) /\ \A p : Name(t, p) = Name(s, p)
<1>1. ServerType(t)
  BY DEF Quiet, ServerOK
<1>2. \A c, x, v : Fight(t, c, x, v) <=> Fight(s, c, x, v)
  BY <1>1, SameServer DEF Quiet
<1>3. Online(t) = Online(s) /\ \A p : Name(t, p) = Name(s, p)
  BY DEF Quiet, Online, Name
<1> QED
  BY <1>2, <1>3, AlikeIs

(* Two quiet steps are one. *)
LEMMA QuietTwice ==
    ASSUME NEW s, NEW t, NEW u, Quiet(s, t), Quiet(t, u)
    PROVE  Quiet(s, u)
<1>1. Keeps(s, u)
  BY DEF Quiet, Keeps
<1> QED
  BY <1>1 DEF Quiet

(* No step is a quiet step. *)
LEMMA QuietSelf == ASSUME NEW s, ServerOK(s) PROVE Quiet(s, s)
BY DEF Quiet, Keeps

(* Who waits for an answer still does when something else is sent to him. *)
LEMMA AsksKept ==
    ASSUME NEW h \in Client, NEW q \in Seq(Message), NEW m \in Message, m.type \notin Answers, Asks(h, q)
    PROVE  Asks(h, Append(q, m))
BY AnswerAppend DEF Asks

(* The messages of a turn are quiet: to a user, *)
LEMMA TurnTold ==
    ASSUME NEW s, ServerOK(s), NEW p \in Online(s)
    PROVE  Quiet(s, Send(s, p, TurnInfo))
<1> DEFINE n == Name(s, p)
           t == Reply(s, n, TurnInfo)
<1>1. ServerType(s) /\ n \in Names /\ n \in Sockets /\ LoggedIn(s, n)
  BY GameAssumption DEF ServerOK, UsersOK, LoggedIn
<1>2. Send(s, p, TurnInfo) = t
  BY SendIs, Kinds
<1>3. TurnInfo \in Message /\ TurnInfo.type \notin Answers
      /\ TurnInfo.type \in {"Turn", "Invite", "NoStart"} /\ \A a \in Names : TurnInfo # Invite(a)
  BY Kinds DEF Answers
<1> HIDE DEF n
<1>4. /\ ServerType(t) /\ t.heap = s.heap /\ t.userList = s.userList
      /\ t.battles = s.battles /\ t.up = s.up
      /\ \A d \in Sockets :
            Queue(t, d) = IF d = n THEN Append(Queue(s, d), TurnInfo) ELSE Queue(s, d)
  BY <1>1, <1>3, ReplyFields
<1> HIDE DEF t
<1>5. ServerOK(t) /\ \A c, x, v : Fight(t, c, x, v) <=> Fight(s, c, x, v)
  BY <1>4, SameServer
<1>6. \A c : Alike(s, t, c)
  <2>1. Online(t) = Online(s) /\ \A q : Name(t, q) = Name(s, q)
    BY <1>4 DEF Online, Name
  <2> QED
    BY <1>5, <2>1, AlikeIs
<1>7. ASSUME NEW k \in [Sockets -> Client], ClientsOK(s, k) PROVE ClientsOK(t, k)
  <2>1. ASSUME NEW c \in Sockets PROVE ClientAt(t, c, k[c], Queue(t, c))
    <3>1. k[c] \in Client /\ Queue(s, c) \in Seq(Message) /\ ClientAt(s, c, k[c], Queue(s, c)) /\ Alike(s, t, c)
      BY <1>1, <1>6, <1>7, QueueType DEF ClientsOK
    <3>2. CASE c # n
      BY <3>1, <3>2, <1>4, ClientSame
    <3>3. CASE c = n
      <4>1. k[c].session
        BY <1>1, <3>1, <3>3 DEF ClientAt
      <4>2. AnswerAt(k[c], Append(Queue(s, c), TurnInfo))
        BY <3>1, <1>3, AnswerAppend DEF ClientAt
      <4>3. ClientAt(t, c, k[c], Append(Queue(s, c), TurnInfo))
        BY <3>1, <4>1, <4>2, <1>3, ClientTold
      <4> QED
        BY <3>3, <4>3, <1>4
    <3> QED
      BY <3>2, <3>3
  <2>2. ASSUME NEW a \in Names, NEW c \in Sockets, NEW i, Holds(k[c], Queue(t, c), i, a)
        PROVE  Holds(k[c], Queue(s, c), i, a) /\ Asks(k[a], Queue(t, a))
    <3>1. Holds(k[c], Queue(s, c), i, a)
      <4>1. CASE c # n
        BY <4>1, <2>2, <1>4
      <4>2. CASE c = n
        <5>1. Holds(k[c], Append(Queue(s, c), TurnInfo), i, a)
          BY <4>2, <2>2, <1>4
        <5> QED
          BY <5>1, <1>1, <1>3, HoldsAppend, QueueType
      <4> QED
        BY <4>1, <4>2
    <3>2. Asks(k[a], Queue(s, a)) /\ a \in Sockets
      BY <3>1, <1>1, <1>7, InvitesAre, GameAssumption DEF ClientsOK
    <3>3. Asks(k[a], Queue(t, a))
      BY <3>2, <1>1, <1>3, <1>4, AsksKept, QueueType
    <3> QED
      BY <3>1, <3>3
  <2>3. InvitesOK(t, k)
    BY <1>1, <1>7, <2>2, InvitesKept DEF ClientsOK
  <2> QED
    BY <2>1, <2>3 DEF ClientsOK
<1>8. Quiet(s, t)
  BY <1>4, <1>5, <1>7 DEF Quiet, Keeps
<1> QED
  BY <1>2, <1>8

(* to a side of a battle, which may be nobody, *)
LEMMA TurnTell ==
    ASSUME NEW s, ServerOK(s), NEW p, p = Null \/ p \in Online(s)
    PROVE  Quiet(s, Tell(s, p, TurnInfo))
BY TurnTold, QuietSelf DEF Tell

(* and the users of a battle are there: *)
LEMMA UsersOnline ==
    ASSUME NEW s, ServerOK(s), NEW i \in 1 .. Len(s.battles)
    PROVE  LET b == s.battles[i]
           IN  /\ b \in Battle /\ b.a \in Online(s) /\ (b.b = Null \/ b.b \in Online(s))
               /\ b.a # b.b /\ b.a # Null /\ b.a \in Ptrs
               /\ Users(b) = IF b.b = Null THEN {b.a} ELSE {b.a, b.b}
               /\ b.a \in Users(b) /\ (b.b # Null => b.b \in Users(b))
<1> DEFINE b == s.battles[i]
<1>1. b \in Battle /\ b.a \in Ptrs /\ b.b \in Ptrs \cup {Null} /\ b.a \in Users(b) /\ (b.b # Null => b.b \in Users(b))
  BY BattleIs DEF ServerOK
<1>2. b.a # b.b /\ \A p \in Users(b) : p \in Online(s)
  BY DEF ServerOK, BattlesOK
<1>3. b.a # Null
  BY <1>1, ServerAssumption
<1>4. Users(b) = IF b.b = Null THEN {b.a} ELSE {b.a, b.b}
  BY <1>3 DEF Users
<1> QED
  BY <1>1, <1>2, <1>3, <1>4

(* an attack is quiet. *)
LEMMA AttackQuiet ==
    ASSUME NEW s, ServerOK(s), NEW t, Quiet(s, t), NEW i \in 1 .. Len(s.battles)
    PROVE  Quiet(s, Attack(t, s.battles[i]))
<1> DEFINE b == s.battles[i]
           u == Tell(t, b.a, TurnInfo)
           w == Tell(u, b.b, TurnInfo)
<1>1. b.a \in Online(s) /\ (b.b = Null \/ b.b \in Online(s))
  BY UsersOnline
<1> HIDE DEF b
<1>2. ServerOK(t) /\ Online(t) = Online(s)
  BY QuietSame DEF Quiet
<1>3. Quiet(t, u)
  BY <1>1, <1>2, TurnTell
<1> HIDE DEF u
<1>4. ServerOK(u) /\ Online(u) = Online(s)
  BY <1>2, <1>3, QuietSame DEF Quiet
<1>5. Quiet(u, w)
  BY <1>1, <1>4, TurnTell
<1> HIDE DEF w
<1>6. Quiet(s, w)
  BY <1>3, <1>5, QuietTwice
<1>7. Attack(t, b) = w
  BY DEF Attack, w, u
<1> QED
  BY <1>6, <1>7 DEF b

-----------------------------------------------------------------------------
(* The end of a battle, for the lobby and the clients. *)

(* The same queues and fights keep the clients right. *)
LEMMA SameQueues ==
    ASSUME NEW s, NEW t, ServerType(s), ServerType(t), \A c \in Sockets : Alike(s, t, c),
           \A c \in Sockets : Queue(t, c) = Queue(s, c)
    PROVE  Keeps(s, t)
<1> SUFFICES ASSUME NEW k \in [Sockets -> Client], ClientsOK(s, k) PROVE ClientsOK(t, k)
  BY DEF Keeps
<1>1. \A c \in Sockets : ClientAt(t, c, k[c], Queue(t, c))
  BY ClientSame DEF ClientsOK
<1>2. \A n \in Names : n \in Sockets
  BY GameAssumption
<1>3. InvitesOK(t, k)
  BY <1>2 DEF ClientsOK, InvitesOK
<1> QED
  BY <1>1, <1>3 DEF ClientsOK

(* A fight is in a battle of those who fight. *)
LEMMA FightUsers ==
    ASSUME NEW s, ServerOK(s), NEW c, NEW x, NEW v, Fight(s, c, x, v)
    PROVE  \E i \in 1 .. Len(s.battles) :
              /\ FightIn(s, s.battles[i], c, x, v)
              /\ \E p \in Users(s.battles[i]) : Name(s, p) = c
              /\ v = Server \/ \E p \in Users(s.battles[i]) : Name(s, p) = v
<1>1. PICK i \in 1 .. Len(s.battles) : FightIn(s, s.battles[i], c, x, v)
  BY DEF Fight
<1> DEFINE b == s.battles[i]
<1>2. b.a \in Users(b) /\ (b.b # Null => b.b \in Users(b))
  BY UsersOnline
<1>3. \E p \in Users(b) : Name(s, p) = c
  BY <1>1, <1>2 DEF FightIn
<1>4. v = Server \/ \E p \in Users(b) : Name(s, p) = v
  BY <1>1, <1>2 DEF FightIn
<1> QED
  BY <1>1, <1>3, <1>4

(* The end of a battle is the end of a fight of the lobby. *)
LEMMA EndLobby ==
    ASSUME NEW s, NEW t, ServerOK(s), NEW i \in 1 .. Len(s.battles),
           \A c, x, v : Fight(t, c, x, v) <=>
                 Fight(s, c, x, v) /\ \A p \in Users(s.battles[i]) : Name(s, p) # c
    PROVE  LobbyStep(s, t)
<1> DEFINE b == s.battles[i]
           a == Name(s, b.a)
<1>1. /\ b.a \in Users(b) /\ Users(b) = IF b.b = Null THEN {b.a} ELSE {b.a, b.b}
      /\ b.a \in Online(s) /\ (b.b = Null \/ b.b \in Online(s))
  BY UsersOnline
<1>2. a \in Names /\ (b.b # Null => Name(s, b.b) \in Names) /\ a # Server
  BY <1>1, ServerAssumption DEF ServerOK, UsersOK
<1>3. Fighting(s, a)
  <2> DEFINE v == IF b.b = Null THEN Server ELSE Name(s, b.b)
  <2>1. FightIn(s, b, a, 1, v) /\ v \in Names \cup {Server}
    BY <1>2 DEF FightIn
  <2>2. Fight(s, a, 1, v)
    BY <2>1 DEF Fight
  <2> QED
    BY <2>1, <2>2 DEF Fighting, Plays
<1>4. ASSUME NEW c \in Names, NEW x \in {0, 1}, NEW v \in Names \cup {Server}, Fight(s, c, x, v)
      PROVE  (\A p \in Users(b) : Name(s, p) # c) <=> c # a /\ v # a
  <2>1. PICK j \in 1 .. Len(s.battles) :
              /\ FightIn(s, s.battles[j], c, x, v)
              /\ \E p \in Users(s.battles[j]) : Name(s, p) = c
              /\ v = Server \/ \E p \in Users(s.battles[j]) : Name(s, p) = v
    BY <1>4, FightUsers
  <2>2. PICK p \in Users(s.battles[j]) : Name(s, p) = c
    BY <2>1
  <2>3. ASSUME \A u \in Users(b) : Name(s, u) # c PROVE c # a /\ v # a
    <3>1. c # a
      BY <1>1, <2>3
    <3>2. ASSUME v = a PROVE FALSE
      <4>1. PICK q \in Users(s.battles[j]) : Name(s, q) = a
        BY <2>1, <3>2, <1>2
      <4>2. j = i
        BY <4>1, <1>1, OneFight
      <4> QED
        BY <4>2, <2>2, <2>3
    <3> QED
      BY <3>1, <3>2
  <2>4. ASSUME c # a, v # a, NEW u \in Users(b), Name(s, u) = c PROVE FALSE
    <3>1. i = j
      BY <2>2, <2>4, OneFight
    <3>2. FightIn(s, b, c, x, v)
      BY <3>1, <2>1
    <3> QED
      BY <3>2, <2>4 DEF FightIn
  <2> QED
    BY <2>3, <2>4
<1>5. Ended(s, t, a)
  BY <1>3, <1>4 DEF Ended
<1> QED
  BY <1>2, <1>5 DEF LobbyStep

(* A user of a battle is logged in and fights. *)
LEMMA OneSide ==
    ASSUME NEW s, ServerOK(s), NEW i \in 1 .. Len(s.battles), NEW p \in Users(s.battles[i]),
           NEW c, Name(s, p) = c
    PROVE  LoggedIn(s, c) /\ c \in Names /\ Fighting(s, c)
<1> DEFINE b == s.battles[i]
           v == IF b.b = Null THEN Server ELSE Name(s, b.b)
<1>1. /\ Users(b) = IF b.b = Null THEN {b.a} ELSE {b.a, b.b}
      /\ b.a \in Online(s) /\ (b.b = Null \/ b.b \in Online(s))
  BY UsersOnline
<1>2. Name(s, b.a) \in Names /\ (b.b # Null => Name(s, b.b) \in Names)
  BY <1>1 DEF ServerOK, UsersOK
<1>3. LoggedIn(s, c) /\ c \in Names
  BY <1>1, <1>2 DEF LoggedIn
<1>4. CASE p = b.a
  <2>1. FightIn(s, b, c, 1, v) /\ v \in Names \cup {Server}
    BY <1>2, <1>4 DEF FightIn
  <2> QED
    BY <2>1, <1>3 DEF Fight, Fighting, Plays
<1>5. CASE p # b.a
  <2>1. FightIn(s, b, c, 0, Name(s, b.a)) /\ Name(s, b.a) \in Names
    BY <1>1, <1>2, <1>5 DEF FightIn
  <2> QED
    BY <2>1, <1>3 DEF Fight, Fighting, Plays
<1> QED
  BY <1>4, <1>5

(* What the end of battle i is for the clients of its players and for the others. *)
LEMMA EndAt ==
    ASSUME NEW s, NEW t, ServerOK(s), ServerOK(t), NEW i \in 1 .. Len(s.battles), Ends(s, t, i), NEW c
    PROVE  /\ LoggedIn(t, c) <=> LoggedIn(s, c)
           /\ (\E p \in Users(s.battles[i]) : Name(s, p) = c) => \A x \in {0, 1} : ~Plays(t, c, x)
           /\ (\A p \in Users(s.battles[i]) : Name(s, p) # c) => Alike(s, t, c)
<1>1. \A d, x, v : Fight(t, d, x, v) <=>
                 Fight(s, d, x, v) /\ \A p \in Users(s.battles[i]) : Name(s, p) # d
  BY EndOK DEF ServerOK
<1>2. Online(t) = Online(s) /\ \A p \in Online(s) : Name(t, p) = Name(s, p)
  BY SameNames, OnlineIs DEF ServerOK, Ends
<1>3. LoggedIn(t, c) <=> LoggedIn(s, c)
  BY <1>2 DEF LoggedIn
<1> QED
  BY <1>1, <1>3 DEF Plays, Alike

(* Finish does not disturb invitations. *)
LEMMA FinishInvites ==
    ASSUME NEW s, NEW t, ServerType(s), NEW k \in [Sockets -> Client], InvitesOK(s, k),
           \A c \in Sockets : Queue(t, c) \in {Queue(s, c), Append(Queue(s, c), Finish)}
    PROVE  InvitesOK(t, k)
<1>1. Finish \in Message /\ Finish.type \notin Answers /\ \A a \in Names : Finish # Invite(a)
  BY Kinds DEF Answers
<1>2. ASSUME NEW a \in Names, NEW c \in Sockets, NEW i, Holds(k[c], Queue(t, c), i, a)
      PROVE  Holds(k[c], Queue(s, c), i, a) /\ Asks(k[a], Queue(t, a))
  <2>1. Holds(k[c], Queue(s, c), i, a)
    <3>1. CASE Queue(t, c) = Queue(s, c)
      BY <3>1, <1>2
    <3>2. CASE Queue(t, c) = Append(Queue(s, c), Finish)
      BY <3>2, <1>1, <1>2, HoldsAppend, QueueType
    <3> QED
      BY <3>1, <3>2
  <2>2. Asks(k[a], Queue(s, a)) /\ a \in Sockets
    BY <2>1, InvitesAre, GameAssumption
  <2>3. Asks(k[a], Queue(t, a))
    <3>1. CASE Queue(t, a) = Queue(s, a)
      BY <3>1, <2>2
    <3>2. CASE Queue(t, a) = Append(Queue(s, a), Finish)
      BY <3>2, <1>1, <2>2, AsksKept, QueueType
    <3> QED
      BY <3>1, <3>2, <2>2
  <2> QED
    BY <2>1, <2>3
<1> QED
  BY <1>2, InvitesKept

(* A battle that ends, told to both sides, keeps the clients right. *)
LEMMA EndKeeps ==
    ASSUME NEW s, NEW t, ServerOK(s), ServerOK(t), NEW i \in 1 .. Len(s.battles), Ends(s, t, i),
           \A c \in Sockets : Queue(t, c) = IF \E p \in Users(s.battles[i]) : Name(s, p) = c
                                              THEN Append(Queue(s, c), Finish) ELSE Queue(s, c)
    PROVE  Keeps(s, t)
<1> SUFFICES ASSUME NEW k \in [Sockets -> Client], ClientsOK(s, k) PROVE ClientsOK(t, k)
  BY DEF Keeps
<1>0. ServerType(s)
  BY DEF ServerOK
<1>1. ASSUME NEW c \in Sockets PROVE ClientAt(t, c, k[c], Queue(t, c))
  <2>1. k[c] \in Client /\ Queue(s, c) \in Seq(Message) /\ ClientAt(s, c, k[c], Queue(s, c))
    BY <1>0, QueueType DEF ClientsOK
  <2>2. CASE \E p \in Users(s.battles[i]) : Name(s, p) = c
    <3>1. LoggedIn(s, c)
      BY <2>2, OneSide
    <3>2. k[c].session
      BY <2>1, <3>1 DEF ClientAt
    <3>3. ClientAt(t, c, k[c], Append(Queue(s, c), Finish))
      <4>1. /\ LoggedIn(t, c) <=> LoggedIn(s, c)
            /\ \A x \in {0, 1} : ~Plays(t, c, x)
        BY <2>2, EndAt
      <4> QED
        BY <2>1, <3>2, <4>1, ClientFinish
    <3> QED
      BY <2>2, <3>3
  <2>3. CASE \A p \in Users(s.battles[i]) : Name(s, p) # c
    <3>1. Alike(s, t, c)
      BY <2>3, EndAt
    <3>2. Queue(t, c) = Queue(s, c)
      BY <2>3
    <3> QED
      BY <2>1, <3>1, <3>2, ClientSame
  <2> QED
    BY <2>2, <2>3
<1>2. InvitesOK(t, k)
  BY <1>0, FinishInvites DEF ClientsOK
<1> QED
  BY <1>1, <1>2 DEF ClientsOK

-----------------------------------------------------------------------------
(* slotGetBattleResult and setAction. *)

(* What slotGetBattleResult keeps. *)
LEMMA FinishIs ==
    ASSUME NEW s, ServerOK(s), NEW i \in 1 .. Len(s.battles)
    PROVE  LET t == slotGetBattleResult(s, i)
           IN  /\ ServerOK(t) /\ Ends(s, t, i) /\ t.up = s.up
               /\ Keeps(s, t) /\ LobbyStep(s, t)
<1> DEFINE b == s.battles[i]
           u == Release(s, b.b)
           r == Release(u, b.a)
           t == Drop(r, i)
           T == {Name(s, p) : p \in Users(b)}
<1>1. /\ b \in Battle /\ b.a \in Online(s) /\ (b.b = Null \/ b.b \in Online(s))
      /\ b.a # b.b /\ b.a # Null /\ b.a \in Ptrs
      /\ Users(b) = IF b.b = Null THEN {b.a} ELSE {b.a, b.b}
  BY UsersOnline
<1>2. t = slotGetBattleResult(s, i)
  BY DEF slotGetBattleResult
<1>3. Ending(s, s, {}, {})
  BY EndingNone DEF ServerOK
<1>4. \E I, S : Ending(s, r, I, S) /\ I = Users(b) /\ S = T
  <2> HIDE DEF b
  <2>1. CASE b.b = Null
    <3>1. u = s
      BY <2>1 DEF Release, Tell, SetIdle
    <3>2. Ending(s, r, {} \cup {b.a}, {} \cup {Name(s, b.a)})
      BY <1>1, <1>3, <3>1, ReleaseEnds
    <3>3. {} \cup {b.a} = Users(b) /\ {} \cup {Name(s, b.a)} = T
      BY <2>1, <1>1
    <3> QED
      BY <3>2, <3>3
  <2>2. CASE b.b # Null
    <3> DEFINE I == {} \cup {b.b}
               S == {} \cup {Name(s, b.b)}
    <3>1. Ending(s, u, I, S)
      BY <2>2, <1>1, <1>3, ReleaseEnds
    <3>2. Name(s, b.a) \notin S
      BY <2>2, <1>1, OneUser
    <3>3. Ending(s, r, I \cup {b.a}, S \cup {Name(s, b.a)})
      <4> HIDE DEF I, S, u
      <4> QED
        BY <1>1, <3>1, <3>2, ReleaseEnds
    <3>4. I \cup {b.a} = Users(b) /\ S \cup {Name(s, b.a)} = T
      BY <2>2, <1>1
    <3> QED
      BY <3>3, <3>4
  <2> QED
    BY <2>1, <2>2
<1>5. PICK I, S : Ending(s, r, I, S) /\ I = Users(b) /\ S = T
  BY <1>4
<1> HIDE DEF r
<1>6. /\ ServerOK(t) /\ Ends(s, t, i) /\ t.up = s.up
      /\ \A d \in Sockets : Queue(t, d) = IF d \in S THEN Append(Queue(s, d), Finish) ELSE Queue(s, d)
  <2>1. Ending(s, r, Users(s.battles[i]), S)
    BY <1>5
  <2>2. t = Drop(r, i)
    OBVIOUS
  <2> HIDE DEF t
  <2>3. Dropped(s, t, i, S)
    BY <2>1, <2>2, DropEnds
  <2> QED
    BY <2>3 DEF Dropped
<1> HIDE DEF t
<1>7. \A d \in Sockets : Queue(t, d) = IF \E p \in Users(b) : Name(s, p) = d
                                        THEN Append(Queue(s, d), Finish) ELSE Queue(s, d)
  BY <1>5, <1>6
<1>8. Keeps(s, t)
  BY <1>6, <1>7, EndKeeps
<1>9. LobbyStep(s, t)
  <2>1. \A c, x, v : Fight(t, c, x, v) <=>
                 Fight(s, c, x, v) /\ \A p \in Users(b) : Name(s, p) # c
    BY <1>6, EndOK DEF ServerOK
  <2> QED
    BY <2>1, EndLobby
<1> QED
  BY <1>2, <1>6, <1>8, <1>9

(* To note who has acted is quiet. *)
LEMMA ActedQuiet ==
    ASSUME NEW s, ServerOK(s), NEW i \in 1 .. Len(s.battles), NEW A \in SUBSET {0, 1}
    PROVE  LET t == [s EXCEPT !.battles[i].acted = A]
           IN  Quiet(s, t) /\ t.battles[i].acted = A
<1> DEFINE w == [s.battles EXCEPT ![i].acted = A]
           t == [s EXCEPT !.battles = w]
<1>1. ServerType(s) /\ s.battles \in Seq(Battle)
  BY FieldsOf DEF ServerOK
<1>2. \A b \in Battle : /\ [b EXCEPT !.acted = A] \in Battle
                        /\ [b EXCEPT !.acted = A].a = b.a /\ [b EXCEPT !.acted = A].b = b.b
                        /\ [b EXCEPT !.acted = A].acted = A
  BY DEF Battle
<1>3. /\ w \in Seq(Battle) /\ Len(w) = Len(s.battles) /\ w[i].acted = A
      /\ \A j \in 1 .. Len(s.battles) : w[j].a = s.battles[j].a /\ w[j].b = s.battles[j].b
  <2>1. w = [j \in 1 .. Len(s.battles) |-> IF j = i THEN [s.battles[j] EXCEPT !.acted = A] ELSE s.battles[j]]
    BY <1>1
  <2>2. \A j \in 1 .. Len(s.battles) : s.battles[j] \in Battle
    BY <1>1
  <2> HIDE DEF w
  <2>3. \A j \in 1 .. Len(s.battles) :
           w[j] \in Battle /\ w[j].a = s.battles[j].a /\ w[j].b = s.battles[j].b
    BY <2>1, <2>2, <1>2
  <2>4. w[i].acted = A
    BY <2>1, <2>2, <1>2
  <2>5. w \in Seq(Battle) /\ Len(w) = Len(s.battles)
    BY <2>1, <2>3, <1>1, SMTT(20)
  <2> QED
    BY <2>3, <2>4, <2>5
<1>4. [s EXCEPT !.battles[i].acted = A] = t
  BY <1>1, FieldsOf
<1> HIDE DEF w
<1>5. /\ ServerType(t) /\ t.heap = s.heap /\ t.userList = s.userList /\ t.battles = w
      /\ t.out = s.out /\ t.up = s.up
  BY <1>1, <1>3, SetBattles
<1> HIDE DEF t
<1>6. ServerOK(t) /\ \A c, x, v : Fight(t, c, x, v) <=> Fight(s, c, x, v)
  BY <1>3, <1>5, SameServer
<1>7. \A c : Alike(s, t, c)
  <2>1. Online(t) = Online(s) /\ \A p : Name(t, p) = Name(s, p)
    BY <1>5 DEF Online, Name
  <2> QED
    BY <1>6, <2>1, AlikeIs
<1>8. Keeps(s, t)
  BY <1>1, <1>5, <1>7, SameQueues DEF Queue
<1>9. Quiet(s, t) /\ t.battles[i].acted = A
  BY <1>3, <1>5, <1>6, <1>8 DEF Quiet
<1> QED
  BY <1>4, <1>9

(* A quiet step is fine. *)
LEMMA FineQuiet ==
    ASSUME NEW s, NEW t, ServerOK(s), Quiet(s, t)
    PROVE  Fine(s, t)
BY QuietSame DEF Fine, Quiet, LobbyStep

(* A step of the lobby after one that changes no fight. *)
LEMMA LobbyAfterQuiet ==
    ASSUME NEW s, NEW u, NEW t, SameFights(s, u), LobbyStep(u, t)
    PROVE  LobbyStep(s, t)
<1>1. \A c \in Names : Fighting(u, c) <=> Fighting(s, c)
  BY DEF SameFights, Fighting, Plays
<1>2. CASE SameFights(u, t)
  BY <1>2 DEF SameFights, LobbyStep
<1>3. ASSUME NEW a \in Names, NEW b \in (Names \cup {Server}) \ {a}, Began(u, t, a, b)
      PROVE  Began(s, t, a, b)
  <2>1. ~Fighting(s, a) /\ (b \in Names => ~Fighting(s, b))
    BY <1>1, <1>3 DEF Began
  <2> QED
    BY <2>1, <1>3 DEF SameFights, Began
<1>4. ASSUME NEW a \in Names, Ended(u, t, a) PROVE Ended(s, t, a)
  BY <1>1, <1>4 DEF SameFights, Ended
<1> QED
  BY <1>2, <1>3, <1>4 DEF LobbyStep

(* Behind the battle of n in the list there is no other of his, whether or *)
(* not it was removed.                                                     *)
LEMMA NoLater ==
    ASSUME NEW s, NEW u, NEW r, ServerOK(s), Quiet(s, u), NEW i \in 1 .. Len(s.battles),
           \/ r = u
           \/ ServerOK(r) /\ Ends(u, r, i),
           NEW p \in Users(s.battles[i]), NEW n, Name(s, p) = n,
           NEW m \in 1 .. Len(r.battles), m > i, NEW q \in Users(r.battles[m])
    PROVE  Name(r, q) # n
<1>1. /\ ServerOK(u) /\ i \in 1 .. Len(u.battles)
      /\ Users(u.battles[i]) = Users(s.battles[i]) /\ Name(u, p) = n
  BY QuietSame DEF Quiet, Users
<1>2. CASE r = u
  <2>1. i \in 1 .. Len(u.battles) /\ p \in Users(u.battles[i]) /\ m # i
    BY <1>1
  <2> QED
    BY <1>1, <1>2, <2>1, OneFight
<1>3. CASE ServerOK(r) /\ Ends(u, r, i)
  <2>1. \A x \in {0, 1} : ~Plays(r, n, x)
    BY <1>1, <1>3, EndAt
  <2> QED
    BY <1>3, <2>1, OneSide DEF Fighting
<1> QED
  BY <1>2, <1>3

(* What setAction keeps, the turn it may play included. *)
LEMMA SetActionIs ==
    ASSUME NEW s, ServerOK(s), NEW i \in 1 .. Len(s.battles), NEW sides \in SUBSET {0, 1},
           NEW o \in Outcome
    PROVE  LET r == setAction(s, i, sides, o)
           IN  /\ Fine(s, r) /\ ServerOK(r) /\ r.up = s.up
               /\ \A p \in Users(s.battles[i]) : \A m \in 1 .. Len(r.battles) : m > i =>
                     \A q \in Users(r.battles[m]) : Name(r, q) # Name(s, p)
<1> DEFINE A == s.battles[i].acted \cup sides
           t == [s EXCEPT !.battles[i].acted = A]
           r == setAction(s, i, sides, o)
<1>1. A \in SUBSET {0, 1} /\ ServerType(s)
  <2>1. s.battles[i] \in Battle
    BY BattleIs DEF ServerOK
  <2> QED
    BY <2>1 DEF Battle, ServerOK
<1>2. r = IF t.battles[i].acted = {0, 1} THEN Turn(t, i, o) ELSE t
  BY DEF setAction
<1> HIDE DEF A
<1>3. Quiet(s, t)
  BY <1>1, ActedQuiet
<1> HIDE DEF t, r
<1>4. ServerOK(t) /\ i \in 1 .. Len(t.battles)
  BY <1>3 DEF Quiet
<1> DEFINE b == t.battles[i]
           u == IF o.hits = 1 THEN Attack(t, b) ELSE Attack(Attack(t, b), b)
<1>5. Quiet(t, u)
  <2>1. Quiet(t, Attack(t, b))
    BY <1>4, QuietSelf, AttackQuiet
  <2>2. Quiet(t, Attack(Attack(t, b), b))
    BY <1>4, <2>1, AttackQuiet
  <2> QED
    BY <2>1, <2>2
<1>6. Turn(t, i, o) = IF o.finished THEN slotGetBattleResult(u, i)
                                    ELSE [u EXCEPT !.battles[i].acted = {}]
  BY DEF Turn
<1> HIDE DEF u
<1>7. Quiet(s, u) /\ ServerOK(u) /\ i \in 1 .. Len(u.battles)
  BY <1>3, <1>4, <1>5, QuietTwice DEF Quiet
<1>8. CASE ~(t.battles[i].acted = {0, 1} /\ o.finished)
  <2>1. Quiet(s, r)
    <3>1. CASE t.battles[i].acted # {0, 1}
      BY <3>1, <1>2, <1>3
    <3>2. CASE t.battles[i].acted = {0, 1}
      <4>1. r = [u EXCEPT !.battles[i].acted = {}]
        BY <3>2, <1>2, <1>6, <1>8
      <4>2. Quiet(u, [u EXCEPT !.battles[i].acted = {}])
        BY <1>7, ActedQuiet
      <4>3. Quiet(u, r)
        BY <4>1, <4>2
      <4> QED
        BY <1>7, <4>3, QuietTwice
    <3> QED
      BY <3>1, <3>2
  <2>2. Fine(s, r) /\ ServerOK(r) /\ r.up = s.up
    BY <2>1, FineQuiet DEF Quiet
  <2>3. \A p \in Users(s.battles[i]) : \A m \in 1 .. Len(r.battles) : m > i =>
                     \A q \in Users(r.battles[m]) : Name(r, q) # Name(s, p)
    BY <2>1, NoLater
  <2> QED
    BY <2>2, <2>3 DEF r
<1>9. CASE t.battles[i].acted = {0, 1} /\ o.finished
  <2>1. r = slotGetBattleResult(u, i)
    BY <1>2, <1>6, <1>9
  <2>2. /\ ServerOK(r) /\ Ends(u, r, i) /\ r.up = u.up
        /\ Keeps(u, r) /\ LobbyStep(u, r)
    BY <1>7, <2>1, FinishIs
  <2>3. LobbyStep(s, r)
    BY <1>7, <2>2, QuietSame, LobbyAfterQuiet
  <2>4. r.up = s.up /\ Keeps(s, r)
    BY <1>7, <2>2 DEF Quiet, Keeps
  <2>5. Fine(s, r)
    BY <2>2, <2>3, <2>4 DEF Fine
  <2>6. \A p \in Users(s.battles[i]) : \A m \in 1 .. Len(r.battles) : m > i =>
                     \A q \in Users(r.battles[m]) : Name(r, q) # Name(s, p)
    BY <1>7, <2>2, NoLater
  <2> QED
    BY <2>2, <2>4, <2>5, <2>6 DEF r
<1> QED
  BY <1>8, <1>9

-----------------------------------------------------------------------------
(* HandleBattleOperation: its loop over the battles. *)

(* A step of the lobby before one that changes no fight. *)
LEMMA LobbyBeforeQuiet ==
    ASSUME NEW s, NEW t, NEW u, SameFights(t, u), LobbyStep(s, t)
    PROVE  LobbyStep(s, u)
<1>1. CASE SameFights(s, t)
  BY <1>1 DEF SameFights, LobbyStep
<1>2. ASSUME NEW a \in Names, NEW b \in (Names \cup {Server}) \ {a}, Began(s, t, a, b)
      PROVE  Began(s, u, a, b)
  BY <1>2 DEF SameFights, Began
<1>3. ASSUME NEW a \in Names, Ended(s, t, a) PROVE Ended(s, u, a)
  BY <1>3 DEF SameFights, Ended
<1> QED
  BY <1>1, <1>2, <1>3 DEF LobbyStep

(* A crash after a fine step is fine. *)
LEMMA FineCrash ==
    ASSUME NEW s, NEW t, Fine(s, t)
    PROVE  Fine(s, Crash(t))
<1> DEFINE u == Crash(t)
<1>1. ServerOK(t) /\ ServerType(t)
  BY DEF Fine, ServerOK
<1>2. ServerType(u) /\ u.heap = t.heap /\ u.userList = t.userList /\ u.battles = t.battles /\ ~u.up
  BY <1>1, CrashIs
<1> HIDE DEF u
<1>3. ServerOK(u) /\ \A c, x, v : Fight(u, c, x, v) <=> Fight(t, c, x, v)
  BY <1>1, <1>2, SameServer
<1>4. SameFights(t, u)
  BY <1>3 DEF SameFights
<1>5. LobbyStep(s, u)
  BY <1>4, LobbyBeforeQuiet DEF Fine
<1>6. Fine(s, u)
  BY <1>2, <1>3, <1>5 DEF Fine
<1> QED
  BY <1>6 DEF u

(* No step is fine. *)
LEMMA FineSelf == ASSUME NEW s, ServerOK(s) PROVE Fine(s, s)
BY QuietSelf, FineQuiet

(* The states a pass of HandleBattleOperation can be in: nothing has       *)
(* happened, or battle j, which is behind, was the one of the player.      *)
Matches(s, j, n, isA) ==
    LET b == s.battles[j]
    IN  IF isA = 1 THEN Name(s, b.a) = n ELSE b.b # Null /\ Name(s, b.b) = n
Acted(s, j, isA, o) ==
    LET b == s.battles[j]
    IN  setAction(s, j, IF isA = 1 THEN IF b.b = Null THEN {0, 1} ELSE {0} ELSE {1}, o)
Results(s, isA, o) ==
    {s, Crash(s)} \cup {Acted(s, j, isA, o) : j \in 1 .. Len(s.battles)}
                  \cup {Crash(Acted(s, j, isA, o)) : j \in 1 .. Len(s.battles)}
Reached(l, s, n, isA, o) ==
    \/ l.s = s
    \/ l.s = Crash(s)
    \/ \E j \in 1 .. Len(s.battles) :
          /\ j < l.i /\ Matches(s, j, n, isA)
          /\ l.s = Acted(s, j, isA, o) \/ l.s = Crash(Acted(s, j, isA, o))
Passes(s, n, isA, o) ==
    {l \in [s : Results(s, isA, o), i : Nat \ {0}] : Reached(l, s, n, isA, o)}

(* A pass of the loop leads from one of these states to one of them. *)
LEMMA PassStays ==
    ASSUME NEW s, ServerOK(s), NEW n, NEW isA \in {0, 1}, NEW o \in Outcome,
           NEW l \in Passes(s, n, isA, o)
    PROVE  OperationPass(l, n, isA, o) \in Passes(s, n, isA, o)
<1> DEFINE V == Passes(s, n, isA, o)
           R == Results(s, isA, o)
           x == l.s
           i == l.i
           b == x.battles[i]
<1>1. l \in [s : R, i : Nat \ {0}] /\ x \in R /\ i \in Nat \ {0} /\ Reached(l, s, n, isA, o)
  BY DEF Passes
<1>2. ServerType(s) /\ Len(s.battles) \in Nat
  BY BattlesAre DEF ServerOK
<1>3. ASSUME NEW y \in R, y = s \/ y = Crash(s) PROVE [s |-> y, i |-> i + 1] \in V
  <2> DEFINE h == [s |-> y, i |-> i + 1]
  <2>1. h \in [s : R, i : Nat \ {0}] /\ h.s = y
    BY <1>1
  <2>2. Reached(h, s, n, isA, o)
    BY <1>3, <2>1 DEF Reached
  <2> QED
    BY <2>1, <2>2 DEF Passes
<1>4. ASSUME NEW y \in R, NEW j \in 1 .. Len(s.battles), j < i + 1, Matches(s, j, n, isA),
             y = Acted(s, j, isA, o) \/ y = Crash(Acted(s, j, isA, o))
      PROVE  [s |-> y, i |-> i + 1] \in V
  <2> DEFINE h == [s |-> y, i |-> i + 1]
  <2>1. h \in [s : R, i : Nat \ {0}] /\ h.s = y /\ h.i = i + 1
    BY <1>1
  <2> HIDE DEF h
  <2>2. Reached(h, s, n, isA, o)
    BY <1>4, <2>1 DEF Reached
  <2> QED
    BY <2>1, <2>2 DEF Passes, h
<1>5. CASE ~x.up \/ i > Len(x.battles)
  BY <1>5 DEF OperationPass
<1>6. CASE ~(~x.up \/ i > Len(x.battles))
  <2> DEFINE r == OperationPass(l, n, isA, o)
             sides == IF isA = 1 THEN IF b.b = Null THEN {0, 1} ELSE {0} ELSE {1}
             M == IF isA = 1 THEN Name(x, b.a) = n ELSE b.b # Null /\ Name(x, b.b) = n
  <2>1. \/ r = [s |-> setAction(x, i, sides, o), i |-> i + 1] /\ M
        \/ r = [s |-> x, i |-> i + 1] /\ ~M
        \/ r = [s |-> Crash(x), i |-> i + 1] /\ ~M
    BY <1>6 DEF OperationPass
  <2>2. CASE x = s
    <3>1. i \in 1 .. Len(s.battles)
      BY <1>1, <1>2, <1>6, <2>2
    <3>2. setAction(x, i, sides, o) = Acted(s, i, isA, o) /\ (M <=> Matches(s, i, n, isA))
      BY <2>2 DEF Acted, Matches
    <3>3. Acted(s, i, isA, o) \in R /\ s \in R /\ Crash(s) \in R
      BY <3>1 DEF Results
    <3> HIDE DEF V, R, M, sides, r, b
    <3>4. CASE r = [s |-> setAction(x, i, sides, o), i |-> i + 1] /\ M
      <4>1. i < i + 1
        BY <1>1
      <4>2. [s |-> Acted(s, i, isA, o), i |-> i + 1] \in V
        BY <3>1, <3>2, <3>3, <3>4, <4>1, <1>4
      <4> QED
        BY <3>2, <3>4, <4>2 DEF r, V
    <3>5. CASE r = [s |-> x, i |-> i + 1]
      <4>1. [s |-> s, i |-> i + 1] \in V
        BY <3>3, <1>3
      <4> QED
        BY <2>2, <3>5, <4>1 DEF r, V
    <3>6. CASE r = [s |-> Crash(x), i |-> i + 1]
      <4>1. [s |-> Crash(s), i |-> i + 1] \in V
        BY <3>3, <1>3
      <4> QED
        BY <2>2, <3>6, <4>1 DEF r, V
    <3> QED
      BY <2>1, <3>4, <3>5, <3>6
  <2>3. ASSUME NEW j \in 1 .. Len(s.battles), j < i, Matches(s, j, n, isA), x = Acted(s, j, isA, o)
        PROVE  r \in V
    <3>1. /\ ServerOK(x)
          /\ \A p \in Users(s.battles[j]) : \A m \in 1 .. Len(x.battles) : m > j =>
                     \A q \in Users(x.battles[m]) : Name(x, q) # Name(s, p)
      <4> DEFINE z == IF isA = 1 THEN IF s.battles[j].b = Null THEN {0, 1} ELSE {0} ELSE {1}
      <4> DEFINE y == setAction(s, j, z, o)
      <4>1. z \in SUBSET {0, 1} /\ x = y
        BY <2>3 DEF Acted
      <4> HIDE DEF z, x
      <4>2. /\ ServerOK(y)
            /\ \A p \in Users(s.battles[j]) : \A m \in 1 .. Len(y.battles) : m > j =>
                     \A q \in Users(y.battles[m]) : Name(y, q) # Name(s, p)
        BY <4>1, SetActionIs
      <4> HIDE DEF y
      <4> QED
        BY <4>1, <4>2
    <3>2. PICK p \in Users(s.battles[j]) : Name(s, p) = n
      <4>1. /\ s.battles[j].a \in Users(s.battles[j])
            /\ s.battles[j].b # Null => s.battles[j].b \in Users(s.battles[j])
        BY UsersOnline
      <4> QED
        BY <4>1, <2>3 DEF Matches
    <3>3. i \in 1 .. Len(x.battles) /\ i > j
      <4>1. Len(x.battles) \in Nat
        BY <3>1, BattlesAre DEF ServerOK
      <4> QED
        BY <1>1, <1>6, <2>3, <4>1
    <3>4. \A q \in Users(b) : Name(x, q) # n
      BY <3>1, <3>2, <3>3
    <3>5. b.a \in Users(b) /\ (b.b # Null => b.b \in Users(b))
      BY <3>1, <3>3, UsersOnline
    <3>6. ~M
      BY <3>4, <3>5
    <3>7. x \in R /\ Crash(x) \in R
      BY <2>3 DEF Results
    <3>8. j < i + 1
      BY <1>1, <2>3
    <3> HIDE DEF V, R, M, sides, r, b, x
    <3>9. CASE r = [s |-> x, i |-> i + 1]
      <4>1. [s |-> x, i |-> i + 1] \in V
        BY <2>3, <3>7, <3>8, <1>4
      <4> QED
        BY <3>9, <4>1 DEF r, V
    <3>10. CASE r = [s |-> Crash(x), i |-> i + 1]
      <4>1. [s |-> Crash(x), i |-> i + 1] \in V
        BY <2>3, <3>7, <3>8, <1>4
      <4> QED
        BY <3>10, <4>1 DEF r, V
    <3> QED
      BY <2>1, <3>6, <3>9, <3>10
  <2>5. x # Crash(s)
    BY <1>2, <1>6, CrashIs
  <2>6. ASSUME NEW j \in 1 .. Len(s.battles) PROVE x # Crash(Acted(s, j, isA, o))
    <3> DEFINE z == IF isA = 1 THEN IF s.battles[j].b = Null THEN {0, 1} ELSE {0} ELSE {1}
    <3>1. z \in SUBSET {0, 1} /\ Acted(s, j, isA, o) = setAction(s, j, z, o)
      BY DEF Acted
    <3> HIDE DEF z
    <3>2. ServerType(Acted(s, j, isA, o))
      BY <3>1, SetActionIs DEF ServerOK
    <3> QED
      BY <3>2, <1>6, CrashIs
  <2> HIDE DEF r, V, R, b
  <2> QED
    BY <1>1, <2>2, <2>3, <2>5, <2>6 DEF Reached, r, V
<1> QED
  BY <1>5, <1>6

(* So the whole loop ends in one: the fold, by FoldDefined and induction. *)
LEMMA OperationIs ==
    ASSUME NEW s, ServerOK(s), NEW n, NEW isA \in {0, 1}, NEW o \in Outcome
    PROVE  HandleBattleOperation(s, n, isA, o) \in Results(s, isA, o)
<1> DEFINE V == Passes(s, n, isA, o)
           z == Len(s.battles)
           q == [k \in 1 .. z |-> k]
           l0 == [s |-> s, i |-> 1]
           P(l) == OperationPass(l, n, isA, o)
           g == [l \in V |-> [k \in Nat |-> P(l)]]
           Eq(it) == it = [S \in SUBSET (1 .. z) |->
                              IF S = {} THEN l0 ELSE P(it[S \ {Max(S)}])]
           it0 == CHOOSE it : Eq(it)
<1>1. z \in Nat
  BY BattlesAre DEF ServerOK
<1>2. q \in Seq(Nat) /\ Len(q) = z /\ DOMAIN q = 1 .. z /\ \A k \in 1 .. z : q[k] \in Nat
  <2> HIDE DEF z
  <2> QED
    BY <1>1
<1>3. l0 \in V
  <2>1. s \in Results(s, isA, o)
    BY DEF Results
  <2>2. l0 \in [s : Results(s, isA, o), i : Nat \ {0}] /\ l0.s = s
    BY <2>1
  <2>3. Reached(l0, s, n, isA, o)
    BY <2>2 DEF Reached
  <2> QED
    BY <2>2, <2>3 DEF Passes
<1>4. \A l \in V : P(l) \in V
  BY PassStays
<1>5. HandleBattleOperation(s, n, isA, o) = it0[1 .. z].s
  <2>1. DOMAIN q = 1 .. z
    BY <1>2
  <2> QED
    BY <2>1, Zenon DEF HandleBattleOperation, FoldLeft, MapThenFoldSet
<1> HIDE DEF V, l0, P, q
<1>6. g \in [V -> [Nat -> V]]
  BY <1>4
<1> HIDE DEF g
<1>7. PICK f : IsFold(f, V, q, l0, g)
  BY <1>2, <1>3, <1>6, FoldDefined
<1> HIDE DEF z
<1>8. /\ f \in [SUBSET (1 .. z) -> V]
      /\ f[{}] = l0
      /\ \A S \in SUBSET (1 .. z) : S # {} => f[S] = g[f[S \ {Max(S)}]][q[Max(S)]]
  BY <1>2, <1>7 DEF IsFold
<1>9. ASSUME NEW S \in SUBSET (1 .. z), S # {}
      PROVE  Max(S) \in S /\ S \ {Max(S)} \in SUBSET (1 .. z)
  BY <1>9, <1>1, MaxIn
<1>10. Eq(f)
  <2>1. ASSUME NEW S \in SUBSET (1 .. z), S # {}
        PROVE  g[f[S \ {Max(S)}]][q[Max(S)]] = P(f[S \ {Max(S)}])
    BY <2>1, <1>9, <1>2, <1>8 DEF g
  <2> QED
    BY <1>8, <2>1
<1>11. Eq(it0)
  BY <1>10, Zenon
<1> HIDE DEF it0
<1> DEFINE Good == {k \in 0 .. z : it0[1 .. k] \in V}
<1>12. 0 \in Good
  <2>1. 1 .. 0 = {} /\ {} \in SUBSET (1 .. z)
    OBVIOUS
  <2> QED
    BY <2>1, <1>1, <1>3, <1>11
<1>13. ASSUME NEW k \in 0 .. z - 1, k \in Good PROVE k + 1 \in Good
  <2> DEFINE i == k + 1
  <2>1. i \in 1 .. z /\ i - 1 = k
    BY <1>1
  <2>2. /\ Max(1 .. i) = i /\ (1 .. i) \ {i} = 1 .. i - 1
        /\ 1 .. i \in SUBSET (1 .. z) /\ 1 .. i # {}
    BY <1>1, <2>1, FoldPasses
  <2> HIDE DEF i
  <2>3. it0[1 .. i] = P(it0[1 .. k])
    BY <1>11, <2>1, <2>2
  <2>4. it0[1 .. i] \in V
    BY <1>4, <1>13, <2>3
  <2> QED
    BY <2>1, <2>4 DEF i
<1> HIDE DEF Good
<1>14. \A k \in 0 .. z : k \in Good
  BY <1>1, <1>12, <1>13, InductionUpTo
<1>15. it0[1 .. z] \in V
  BY <1>1, <1>14 DEF Good
<1> QED
  BY <1>5, <1>15 DEF V, Passes

(* What HandleBattleOperation keeps, wherever the loop skips or crashes. *)
LEMMA OperationFine ==
    ASSUME NEW s, ServerOK(s), NEW n, NEW isA \in {0, 1}, NEW o \in Outcome
    PROVE  Fine(s, HandleBattleOperation(s, n, isA, o))
<1> DEFINE t == HandleBattleOperation(s, n, isA, o)
<1>1. Fine(s, s) /\ Fine(s, Crash(s))
  BY FineSelf, FineCrash
<1>2. ASSUME NEW j \in 1 .. Len(s.battles)
      PROVE  Fine(s, Acted(s, j, isA, o)) /\ Fine(s, Crash(Acted(s, j, isA, o)))
  <2> DEFINE z == IF isA = 1 THEN IF s.battles[j].b = Null THEN {0, 1} ELSE {0} ELSE {1}
             y == setAction(s, j, z, o)
  <2>1. z \in SUBSET {0, 1} /\ Acted(s, j, isA, o) = y
    BY DEF Acted
  <2> HIDE DEF z
  <2>2. Fine(s, y)
    BY <2>1, SetActionIs
  <2> HIDE DEF y
  <2> QED
    BY <2>1, <2>2, FineCrash
<1>3. t \in Results(s, isA, o)
  BY OperationIs
<1> HIDE DEF t
<1>4. Fine(s, t)
  BY <1>1, <1>2, <1>3 DEF Results
<1> QED
  BY <1>4 DEF t

-----------------------------------------------------------------------------
(* Act: the search for a battle, and what one player does. *)

(* What one client does changes its own record only. *)
LEMMA OneClient ==
    ASSUME NEW k \in [Sockets -> Client], NEW c \in Sockets, NEW g \in Client
    PROVE  LET h == [k EXCEPT ![c] = g]
           IN  /\ h \in [Sockets -> Client] /\ h[c] = g
               /\ \A d \in Sockets : d # c => h[d] = k[d]
OBVIOUS

(* Invitations stay right when one client changes and shows no new one. *)
LEMMA InvitesOneClient ==
    ASSUME NEW t, ServerType(t), NEW k, NEW h, NEW c \in Sockets, InvitesOK(t, k),
           \A d \in Sockets : d # c => h[d] = k[d],
           \A n \in Names : h[c].popup = n => k[c].popup = n,
           Asks(k[c], Queue(t, c)) => Asks(h[c], Queue(t, c))
    PROVE  InvitesOK(t, h)
<1>1. ASSUME NEW n \in Names, NEW d \in Sockets, NEW i, Holds(h[d], Queue(t, d), i, n)
      PROVE  Holds(k[d], Queue(t, d), i, n) /\ Asks(h[n], Queue(t, n))
  <2>1. Holds(k[d], Queue(t, d), i, n)
    BY <1>1 DEF Holds
  <2>2. Asks(k[n], Queue(t, n))
    BY <2>1, InvitesAre
  <2>3. n \in Sockets
    BY GameAssumption
  <2> QED
    BY <2>1, <2>2, <2>3
<1> QED
  BY <1>1, InvitesKept

(* The search of BattleGiveUp and UserDisconnected ends at a battle it     *)
(* stops at, or finds none.                                                *)
LEMMA SearchIs ==
    ASSUME NEW s, ServerType(s), NEW at
    PROVE  LET i == SearchStop(s, at)
           IN  \/ i = 0 /\ \A j \in 1 .. Len(s.battles) : ~Fights(s, s.battles[j], at[j])
               \/ i \in 1 .. Len(s.battles)
                  /\ (Fights(s, s.battles[i], at[i]) \/ Fails(s, s.battles[i], at[i]))
<1> DEFINE z == Len(s.battles)
           q == [j \in 1 .. z |-> j]
           T(i) == Fights(s, s.battles[i], at[i]) \/ Fails(s, s.battles[i], at[i])
           I == {i \in 1 .. Len(q) : T(q[i])}
           k == IF I # {} THEN Min(I) ELSE 0
<1>1. z \in Nat
  BY BattlesAre
<1>2. SearchStop(s, at) = k
  BY Zenon DEF SearchStop, SelectInSeq
<1> HIDE DEF z, T
<1>3. Len(q) = z /\ \A i \in 1 .. z : q[i] = i
  BY <1>1
<1> HIDE DEF q
<1>4. I \in SUBSET (1 .. z) /\ I = {i \in 1 .. z : T(i)}
  BY <1>3
<1>5. CASE I = {}
  BY <1>2, <1>4, <1>5 DEF z, T
<1>6. CASE I # {}
  <2>1. k \in I
    BY <1>1, <1>4, <1>6, MinIn
  <2> QED
    BY <1>2, <1>4, <2>1 DEF z, T
<1> QED
  BY <1>5, <1>6

(* Who has no battle to be found in the list plays nowhere. *)
LEMMA NobodyFound ==
    ASSUME NEW s, NEW n, \A j \in 1 .. Len(s.battles) : ~Fights(s, s.battles[j], n)
    PROVE  \A x \in {0, 1} : ~Plays(s, n, x)
BY DEF Plays, Fight, FightIn, Fights

(* Both sides of the battle of n: his user and, if there is one, the       *)
(* other.                                                                  *)
LEMMA FightsUser ==
    ASSUME NEW s, ServerOK(s), NEW i \in 1 .. Len(s.battles), NEW n, FightsAt(s, i, n)
    PROVE  LET b == s.battles[i]
               u == SideAt(s, i, n)
               v == OtherAt(s, i, n)
           IN  /\ u \in Users(b) /\ Name(s, u) = n /\ u \in Online(s) /\ u \in Ptrs
               /\ v = Null \/ (v \in Users(b) /\ v \in Online(s) /\ v \in Ptrs /\ v # u /\ Name(s, v) # n)
               /\ Users(b) = {u, v} \ {Null}
<1> DEFINE b == s.battles[i]
<1>1. /\ b.a \in Online(s) /\ (b.b = Null \/ b.b \in Online(s)) /\ b.a # b.b /\ b.a # Null
      /\ Users(b) = IF b.b = Null THEN {b.a} ELSE {b.a, b.b}
  BY UsersOnline
<1>2. Online(s) \subseteq Ptrs
  BY OnlineIs DEF ServerOK
<1>3. b.b # Null => Name(s, b.a) # Name(s, b.b)
  BY <1>1, OneUser
<1> HIDE DEF b
<1> QED
  BY <1>1, <1>2, <1>3 DEF FightsAt, SideAt, OtherAt, Fights, ThisSide, OtherSide, b

(* A player that shows the main page and gets no answer has no battle. *)
LEMMA ClientQuits ==
    ASSUME NEW s, NEW t, NEW c, NEW h \in Client, NEW g \in Client, NEW q \in Seq(Message),
           LoggedIn(t, c) <=> LoggedIn(s, c), \A x \in {0, 1} : ~Plays(t, c, x),
           ClientAt(s, c, h, q), NoAnswer(q), g.page = "main", g.session = h.session
    PROVE  ClientAt(t, c, g, q)
<1>1. ViewOf(g, q).page = "main"
  BY ViewIdle DEF NoAnswer, Answers
<1>2. ViewAt(t, c, ViewOf(g, q))
  BY <1>1 DEF ViewAt
<1>3. AnswerAt(g, q)
  BY AnswerNone
<1> QED
  BY <1>2, <1>3 DEF ClientAt

(* An action of a battle keeps the invariant. *)
LEMMA ActKeeps ==
    ASSUME NEW c \in Sockets, IInv, Act(c)
    PROVE  IInv' /\ LobbyStep(server, server')
<1>1. client \in [Sockets -> Client] /\ ServerOK(server) /\ ClientsOK(server, client)
  BY DEF IInv, Act, On
<1>2. PICK o \in Outcome : server' = HandleBattleOperation(server, c, client[c].isA, o)
  BY DEF Act
<1>3. client[c] \in Client /\ client[c].isA \in {0, 1} /\ client[c].page = "battle"
  BY <1>1 DEF Client, Act, On
<1>4. Fine(server, server')
  BY <1>1, <1>2, <1>3, OperationFine
<1> DEFINE g == [client[c] EXCEPT !.waiting = TRUE]
<1>5. client' = [client EXCEPT ![c] = g]
  BY <1>1 DEF Act
<1>6. g \in Client /\ g.page = "battle" /\ g.isA = client[c].isA /\ g.session = client[c].session
      /\ g.popup = client[c].popup
  BY <1>3 DEF Client
<1> HIDE DEF g
<1>7. /\ client' \in [Sockets -> Client] /\ client'[c] = g
      /\ \A d \in Sockets : d # c => client'[d] = client[d]
  BY <1>1, <1>5, <1>6, OneClient
<1>8. ASSUME server'.up PROVE ClientsOK(server', client')
  <2>1. ClientsOK(server', client) /\ ServerType(server')
    BY <1>1, <1>4, <1>8 DEF Fine, Keeps, ServerOK
  <2>2. ClientAt(server', c, g, Queue(server', c))
    <3>1. ClientAt(server', c, client[c], Queue(server', c)) /\ Queue(server', c) \in Seq(Message)
      BY <2>1, QueueType DEF ClientsOK
    <3>2. NoAnswer(Queue(server', c)) /\ Alike(server', server', c)
      BY <3>1, <1>3, AnswerNone DEF ClientAt, Alike
    <3> QED
      BY <3>1, <3>2, <1>3, <1>6, ClientActs
  <2>3. \A d \in Sockets : ClientAt(server', d, client'[d], Queue(server', d))
    BY <1>7, <2>1, <2>2 DEF ClientsOK
  <2>4. InvitesOK(server', client')
    <3>1. ~Asks(client[c], Queue(server', c))
      BY <1>3 DEF Asks
    <3> QED
      BY <3>1, <1>6, <1>7, <2>1, InvitesOneClient DEF ClientsOK
  <2> QED
    BY <2>3, <2>4 DEF ClientsOK
<1> QED
  BY <1>4, <1>7, <1>8 DEF IInv, Fine

-----------------------------------------------------------------------------
(* GiveUp. *)

(* The battle of a player is removed and the other side is told. *)
LEMMA LeftIs ==
    ASSUME NEW s, ServerOK(s), NEW i \in 1 .. Len(s.battles), NEW n, FightsAt(s, i, n),
           NEW r, r = SetIdle(s, SideAt(s, i, n))
    PROVE  LET v == OtherAt(s, i, n)
               t == Drop(Release(r, v), i)
           IN  /\ ServerOK(t) /\ Ends(s, t, i) /\ t.up = s.up /\ LobbyStep(s, t)
               /\ \A d \in Sockets :
                     Queue(t, d) = IF d # n /\ \E p \in Users(s.battles[i]) : Name(s, p) = d
                                     THEN Append(Queue(s, d), Finish) ELSE Queue(s, d)
<1> DEFINE b == s.battles[i]
           u == SideAt(s, i, n)
           v == OtherAt(s, i, n)
           f == Release(r, v)
           t == Drop(f, i)
           T == {Name(s, p) : p \in {v} \ {Null}}
<1>1. /\ u \in Users(b) /\ Name(s, u) = n /\ u \in Ptrs
      /\ v = Null \/ (v \in Users(b) /\ v \in Online(s) /\ v # u /\ Name(s, v) # n)
      /\ Users(b) = {u, v} \ {Null} /\ u # Null /\ (v # Null => v \in Ptrs)
  <2>1. /\ u \in Users(b) /\ Name(s, u) = n /\ u \in Online(s) /\ u \in Ptrs
        /\ v = Null \/ (v \in Users(b) /\ v \in Online(s) /\ v \in Ptrs /\ v # u /\ Name(s, v) # n)
        /\ Users(b) = {u, v} \ {Null}
    BY FightsUser, ZenonT(30)
  <2> HIDE DEF u, v, b
  <2>2. Null \notin Ptrs
    BY ServerAssumption
  <2> QED
    BY <2>1, <2>2
<1> HIDE DEF u, v, b
<1> DEFINE I == {} \cup {u}
<1>3. Ending(s, r, I, {})
  <2>1. Ending(s, s, {}, {})
    BY EndingNone DEF ServerOK
  <2>2. Ending(s, SetIdle(s, u), {} \cup {u}, {})
    BY <1>1, <2>1, SetIdleEnds
  <2> QED
    BY <2>2 DEF u
<1>4. \E J : Ending(s, f, J, T) /\ J = Users(b)
  <2>1. CASE v = Null
    <3>1. f = r
      BY <2>1 DEF Release, Tell, SetIdle
    <3>2. T = {}
      BY <2>1
    <3>3. I = Users(b)
      BY <2>1, <1>1
    <3> QED
      BY <3>1, <3>2, <3>3, <1>3
  <2>2. CASE v # Null
    <3> DEFINE J == I \cup {v}
               S == {} \cup {Name(s, v)}
    <3>1. Ending(s, f, J, S)
      <4> HIDE DEF I
      <4> QED
        BY <2>2, <1>1, <1>3, ReleaseEnds
    <3>2. J = Users(b) /\ S = T
      BY <2>2, <1>1
    <3> QED
      BY <3>1, <3>2
  <2> QED
    BY <2>1, <2>2
<1>5. PICK J : Ending(s, f, J, T) /\ J = Users(b)
  BY <1>4
<1> DEFINE S == T
<1>6. \A d : d \in S <=> d # n /\ \E p \in Users(b) : Name(s, p) = d
  BY <1>1
<1> HIDE DEF f, S
<1>7. /\ ServerOK(t) /\ Ends(s, t, i) /\ t.up = s.up
      /\ \A d \in Sockets : Queue(t, d) = IF d \in S THEN Append(Queue(s, d), Finish) ELSE Queue(s, d)
  <2>1. Ending(s, f, Users(s.battles[i]), S)
    BY <1>5 DEF b, S
  <2>2. t = Drop(f, i)
    OBVIOUS
  <2> HIDE DEF t
  <2>3. Dropped(s, t, i, S)
    BY <2>1, <2>2, DropEnds
  <2> QED
    BY <2>3 DEF Dropped
<1> HIDE DEF t
<1>8. LobbyStep(s, t)
  <2>1. \A c, x, w : Fight(t, c, x, w) <=>
                 Fight(s, c, x, w) /\ \A p \in Users(s.battles[i]) : Name(s, p) # c
    BY <1>7, EndOK DEF ServerOK
  <2> QED
    BY <2>1, EndLobby
<1> QED
  BY <1>6, <1>7, <1>8 DEF t, f, v, b, u

(* What the clients know when a battle was left by n. *)
LEMMA LeftClients ==
    ASSUME NEW s, NEW t, ServerOK(s), ServerOK(t), NEW i \in 1 .. Len(s.battles), Ends(s, t, i),
           NEW n, FightsAt(s, i, n),
           \A c \in Sockets : Queue(t, c) = IF c # n /\ \E p \in Users(s.battles[i]) : Name(s, p) = c
                                              THEN Append(Queue(s, c), Finish) ELSE Queue(s, c),
           NEW k \in [Sockets -> Client], ClientsOK(s, k)
    PROVE  /\ \A c \in Sockets : c # n => ClientAt(t, c, k[c], Queue(t, c))
           /\ InvitesOK(t, k)
<1>0. ServerType(s)
  BY DEF ServerOK
<1>1. ASSUME NEW c \in Sockets, c # n PROVE ClientAt(t, c, k[c], Queue(t, c))
  <2>1. k[c] \in Client /\ Queue(s, c) \in Seq(Message) /\ ClientAt(s, c, k[c], Queue(s, c))
    BY <1>0, QueueType DEF ClientsOK
  <2>2. CASE \E p \in Users(s.battles[i]) : Name(s, p) = c
    <3>1. LoggedIn(s, c)
      BY <2>2, OneSide
    <3>2. k[c].session
      BY <2>1, <3>1 DEF ClientAt
    <3>3. ClientAt(t, c, k[c], Append(Queue(s, c), Finish))
      <4>1. /\ LoggedIn(t, c) <=> LoggedIn(s, c)
            /\ \A x \in {0, 1} : ~Plays(t, c, x)
        BY <2>2, EndAt
      <4> QED
        BY <2>1, <3>2, <4>1, ClientFinish
    <3> QED
      BY <2>2, <3>3, <1>1
  <2>3. CASE \A p \in Users(s.battles[i]) : Name(s, p) # c
    <3>1. Alike(s, t, c)
      BY <2>3, EndAt
    <3>2. Queue(t, c) = Queue(s, c)
      BY <2>3
    <3> QED
      BY <2>1, <3>1, <3>2, ClientSame
  <2> QED
    BY <2>2, <2>3
<1>2. InvitesOK(t, k)
  BY <1>0, FinishInvites DEF ClientsOK
<1> QED
  BY <1>1, <1>2

(* Giving up keeps it. *)
LEMMA GiveUpKeeps ==
    ASSUME NEW c \in Sockets, IInv, GiveUp(c)
    PROVE  IInv' /\ LobbyStep(server, server')
<1> DEFINE g == [client[c] EXCEPT !.page = "main", !.isA = 1]
           at == [j \in 1 .. Len(server.battles) |-> c]
           i == SearchStop(server, at)
           b == server.battles[i]
<1>1. client \in [Sockets -> Client] /\ ServerOK(server) /\ ClientsOK(server, client)
      /\ ServerType(server)
  BY DEF IInv, GiveUp, On, ServerOK
<1>2. client[c] \in Client /\ client[c].page = "battle"
  BY <1>1 DEF GiveUp, On
<1>3. client' = [client EXCEPT ![c] = g]
  BY <1>1 DEF GiveUp
<1>4. g \in Client /\ g.page = "main" /\ g.session = client[c].session /\ g.popup = client[c].popup
  BY <1>2 DEF Client, Pages
<1> HIDE DEF g
<1>5. /\ client' \in [Sockets -> Client] /\ client'[c] = g
      /\ \A d \in Sockets : d # c => client'[d] = client[d]
  BY <1>1, <1>3, <1>4, OneClient
<1>6. server' = IF i = 0 THEN server
                ELSE IF Fails(server, b, c) THEN Crash(server)
                ELSE Drop(Release(SetIdle(server, ThisSide(server, b, c)),
                                  OtherSide(server, b, c)), i)
  BY DEF GiveUp, BattleGiveUp
<1>7. \A j \in 1 .. Len(server.battles) : at[j] = c
  OBVIOUS
<1>8. \/ i = 0 /\ \A j \in 1 .. Len(server.battles) : ~Fights(server, server.battles[j], at[j])
      \/ i \in 1 .. Len(server.battles) /\ (Fights(server, b, at[i]) \/ Fails(server, b, at[i]))
  BY <1>1, SearchIs
<1>9. ~Asks(client[c], Queue(server', c))
  BY <1>2 DEF Asks
<1> HIDE DEF i, at
<1>10. ClientAt(server, c, client[c], Queue(server, c)) /\ Queue(server, c) \in Seq(Message)
  BY <1>1, QueueType DEF ClientsOK
<1>11. NoAnswer(Queue(server, c))
  BY <1>10, <1>2, AnswerNone DEF ClientAt
<1>12. CASE i = 0
  <2>1. server' = server /\ i \notin 1 .. Len(server.battles)
    BY <1>6, <1>12
  <2>2. \A x \in {0, 1} : ~Plays(server, c, x)
    BY <1>7, <1>8, <2>1, NobodyFound
  <2>3. ClientAt(server, c, g, Queue(server, c))
    BY <1>2, <1>4, <1>10, <1>11, <2>2, ClientQuits
  <2>4. \A d \in Sockets : ClientAt(server', d, client'[d], Queue(server', d))
    BY <1>1, <1>5, <2>1, <2>3 DEF ClientsOK
  <2>5. InvitesOK(server', client')
    BY <1>1, <1>4, <1>5, <1>9, <2>1, InvitesOneClient DEF ClientsOK
  <2>6. Fine(server, server')
    BY <1>1, <2>1, FineSelf
  <2> QED
    BY <1>5, <2>4, <2>5, <2>6 DEF IInv, ClientsOK, Fine
<1>13. CASE i # 0 /\ Fails(server, b, c)
  <2>1. server' = Crash(server) /\ ~Crash(server).up
    BY <1>1, <1>6, <1>13, CrashIs
  <2>2. Fine(server, server')
    BY <1>1, <2>1, FineSelf, FineCrash
  <2> QED
    BY <1>5, <2>1, <2>2 DEF IInv, Fine
<1>14. CASE i # 0 /\ ~Fails(server, b, c)
  <2>0. i \in 1 .. Len(server.battles)
    BY <1>8, <1>14
  <2>9. ASSUME NEW w \in 1 .. Len(server.battles), w = i PROVE IInv' /\ LobbyStep(server, server')
    <3>1. FightsAt(server, w, c)
      BY <1>7, <1>8, <1>14, <2>9 DEF FightsAt
    <3> DEFINE r == SetIdle(server, SideAt(server, w, c))
               v == OtherAt(server, w, c)
               t == Drop(Release(r, v), w)
    <3>2. server' = t
      BY <1>6, <1>14, <2>9 DEF SideAt, OtherAt
    <3>10. r = SetIdle(server, SideAt(server, w, c))
      OBVIOUS
    <3> HIDE DEF r
    <3>3. /\ ServerOK(t) /\ Ends(server, t, w) /\ t.up = server.up /\ LobbyStep(server, t)
          /\ \A d \in Sockets :
                Queue(t, d) = IF d # c /\ \E p \in Users(server.battles[w]) : Name(server, p) = d
                                THEN Append(Queue(server, d), Finish) ELSE Queue(server, d)
      BY <1>1, <3>10, <3>1, LeftIs
    <3> HIDE DEF t
    <3>4. /\ \A d \in Sockets : d # c => ClientAt(t, d, client[d], Queue(t, d))
          /\ InvitesOK(t, client)
      <4>1. ServerOK(server) /\ ServerOK(t) /\ ClientsOK(server, client) /\ client \in [Sockets -> Client]
            /\ Ends(server, t, w)
        BY <1>1, <3>3
      <4> QED
        BY <4>1, <3>1, <3>3, LeftClients
    <3>5. ClientAt(t, c, g, Queue(t, c))
      <4>1. SideAt(server, w, c) \in Users(server.battles[w])
            /\ Name(server, SideAt(server, w, c)) = c
        BY <1>1, <3>1, FightsUser
      <4>2. /\ LoggedIn(t, c) <=> LoggedIn(server, c)
            /\ \A x \in {0, 1} : ~Plays(t, c, x)
        BY <1>1, <3>1, <3>3, <4>1, EndAt
      <4>3. Queue(t, c) = Queue(server, c)
        BY <3>3
      <4> QED
        BY <1>2, <1>4, <1>10, <1>11, <4>2, <4>3, ClientQuits
    <3>6. InvitesOK(t, client')
      BY <1>4, <1>5, <1>9, <3>2, <3>3, <3>4, InvitesOneClient DEF ServerOK
    <3>7. \A d \in Sockets : ClientAt(t, d, client'[d], Queue(t, d))
      BY <1>5, <3>4, <3>5
    <3> QED
      BY <1>5, <3>2, <3>3, <3>6, <3>7 DEF IInv, ClientsOK
  <2> QED
    BY <2>0, <2>9
<1> QED
  BY <1>12, <1>13, <1>14

-----------------------------------------------------------------------------
(* Leave, ConnectionLost, CloseAfterLoss. *)

(* User k of the list. *)
UserIn(s, k) == s.userList[k]

(* The entry of a connection is the one of its name. *)
LEMMA UserOfIs ==
    ASSUME NEW s, ServerOK(s), NEW c, LoggedIn(s, c)
    PROVE  UserOf(s, c) \in 1 .. Len(s.userList) /\ Name(s, UserIn(s, UserOf(s, c))) = c
<1> DEFINE I == {i \in 1 .. Len(s.userList) : s.heap[s.userList[i]].sock = c}
           k == IF I # {} THEN Min(I) ELSE 0
<1>1. UserOf(s, c) = k
  BY DEF UserOf, SelectInSeq
<1>2. /\ Len(s.userList) \in Nat /\ I \in SUBSET (1 .. Len(s.userList))
      /\ Online(s) = {s.userList[i] : i \in 1 .. Len(s.userList)}
  BY OnlineIs DEF ServerOK
<1>3. \A p \in Online(s) : s.heap[p].sock = Name(s, p)
  BY DEF ServerOK, UsersOK
<1>4. I # {}
  BY <1>2, <1>3 DEF LoggedIn
<1>5. k \in I
  BY <1>2, <1>4, MinIn
<1>6. Name(s, s.userList[k]) = c
  BY <1>2, <1>3, <1>5
<1> QED
  BY <1>1, <1>2, <1>5, <1>6 DEF UserIn

(* The state after user k of the list was removed, whose memory nothing    *)
(* points at.                                                              *)
Removed(s, k) == [s EXCEPT !.userList = RemoveAt(s.userList, k), !.heap[UserIn(s, k)] = Unused]

(* What removing a user who fights nobody keeps. *)
LEMMA RemovedIs ==
    ASSUME NEW s, ServerOK(s), NEW k \in 1 .. Len(s.userList),
           \A j \in 1 .. Len(s.battles) : UserIn(s, k) \notin Users(s.battles[j])
    PROVE  LET t == Removed(s, k)
           IN  /\ ServerOK(t) /\ t.up = s.up /\ \A d \in Sockets : Queue(t, d) = Queue(s, d)
               /\ \A c, x, v : Fight(t, c, x, v) <=> Fight(s, c, x, v)
               /\ \A c : LoggedIn(t, c) <=> LoggedIn(s, c) /\ c # Name(s, UserIn(s, k))
<1> DEFINE p == UserIn(s, k)
           h == [s.heap EXCEPT ![p] = Unused]
           l == RemoveAt(s.userList, k)
           n == Len(s.userList)
           t == Removed(s, k)
<1>1. ServerType(s) /\ s.userList \in Seq(Ptrs) /\ s.heap \in [Ptrs -> User] /\ n \in Nat
  BY FieldsOf DEF ServerOK
<1>2. p \in Ptrs /\ p = s.userList[k]
  BY <1>1 DEF UserIn
<1>3. h \in [Ptrs -> User] /\ \A q \in Ptrs : q # p => h[q] = s.heap[q]
  <2>1. Unused \in User
    BY DEF Unused, User, Status
  <2> QED
    BY <1>1, <2>1
<1>4. /\ l \in Seq(Ptrs) /\ Len(l) = n - 1 /\ \A j \in 1 .. n - 1 : l[j] = s.userList[Before(k, j)]
      /\ \A j \in 1 .. n - 1 : Before(k, j) \in (1 .. n) \ {k}
      /\ \A i, j \in 1 .. n - 1 : i # j => Before(k, i) # Before(k, j)
      /\ \A j \in (1 .. n) \ {k} : After(k, j) \in 1 .. n - 1 /\ Before(k, After(k, j)) = j
  <2>1. l \in Seq(Ptrs) /\ Len(l) = n - 1 /\ \A j \in 1 .. n - 1 : l[j] = s.userList[Before(k, j)]
    BY <1>1, RemoveAtIs
  <2>2. k \in 1 .. n
    OBVIOUS
  <2> HIDE DEF n, l
  <2> QED
    BY <1>1, <2>1, <2>2, Places
<1>5. t = [heap |-> h, userList |-> l, battles |-> s.battles, out |-> s.out, up |-> s.up]
  <2>1. DOMAIN s = {"heap", "userList", "battles", "out", "up"}
    BY <1>1, FieldsOf
  <2>2. t = [s EXCEPT !.userList = l, !.heap = h]
    BY <2>1 DEF Removed
  <2> HIDE DEF t, h, l
  <2> QED
    BY <2>1, <2>2
<1> HIDE DEF t, h, l
<1>6. /\ ServerType(t) /\ t.heap = h /\ t.userList = l /\ t.battles = s.battles /\ t.out = s.out
      /\ t.up = s.up
  BY <1>1, <1>3, <1>4, <1>5, FieldsOf DEF ServerType
<1>7. Online(s) = {s.userList[i] : i \in 1 .. n} /\ Online(t) = {l[i] : i \in 1 .. n - 1}
      /\ Online(s) \subseteq Ptrs
  <2>1. Online(s) = {s.userList[i] : i \in 1 .. n} /\ Online(s) \subseteq Ptrs
    BY <1>1, OnlineIs
  <2>2. Online(t) = {t.userList[i] : i \in 1 .. Len(t.userList)}
    BY <1>6, OnlineIs
  <2> HIDE DEF n
  <2> QED
    BY <1>4, <1>6, <2>1, <2>2
<1>8. \A i \in 1 .. n : i # k => s.userList[i] # p
  BY <1>2 DEF ServerOK, UsersOK
<1>9. Online(t) = Online(s) \ {p}
  <2>1. ASSUME NEW q \in Online(t) PROVE q \in Online(s) \ {p}
    <3>1. PICK i \in 1 .. n - 1 : q = l[i]
      BY <1>7
    <3>2. q = s.userList[Before(k, i)] /\ Before(k, i) \in 1 .. n /\ Before(k, i) # k
      BY <1>4, <3>1
    <3> QED
      BY <1>7, <1>8, <3>2
  <2>2. ASSUME NEW q \in Online(s) \ {p} PROVE q \in Online(t)
    <3>1. PICK i \in 1 .. n : s.userList[i] = q /\ i # k
      BY <1>2, <1>7
    <3>2. l[After(k, i)] = q /\ After(k, i) \in 1 .. n - 1
      BY <1>4, <3>1
    <3> QED
      BY <1>7, <3>2
  <2> QED
    BY <2>1, <2>2
<1>10. \A q \in Ptrs : q # p => Name(t, q) = Name(s, q) /\ t.heap[q] = s.heap[q]
  BY <1>3, <1>6 DEF Name
<1>11. \A q \in Online(t) : q \in Online(s) /\ q # p /\ q \in Ptrs
  BY <1>7, <1>9
<1>12. UsersOK(t)
  <2>1. ASSUME NEW q \in Online(t) PROVE Name(t, q) \in Names /\ t.heap[q].sock = Name(t, q)
    BY <1>10, <1>11 DEF ServerOK, UsersOK
  <2>2. ASSUME NEW i \in 1 .. n - 1, NEW j \in 1 .. n - 1, i # j
        PROVE  l[i] # l[j] /\ Name(t, l[i]) # Name(t, l[j])
    <3>1. s.userList[Before(k, i)] # s.userList[Before(k, j)]
          /\ Name(s, s.userList[Before(k, i)]) # Name(s, s.userList[Before(k, j)])
      BY <1>4, <2>2 DEF ServerOK, UsersOK
    <3>2. l[i] \in Online(t) /\ l[j] \in Online(t)
      BY <1>7
    <3> QED
      BY <1>4, <1>10, <1>11, <3>1, <3>2
  <2> QED
    BY <1>4, <1>6, <2>1, <2>2 DEF UsersOK
<1>13. ASSUME NEW j \in 1 .. Len(s.battles), NEW q \in Users(s.battles[j])
       PROVE  q # p /\ q \in Online(s) /\ q \in Online(t) /\ q \in Ptrs
              /\ s.heap[q].status = "BATTLING"
  BY <1>7, <1>9 DEF ServerOK, BattlesOK
<1>14. BattlesOK(t)
  <2>1. MarkedOK(t)
    BY <1>6, <1>10, <1>11 DEF ServerOK, BattlesOK, MarkedOK, InBattle
  <2> QED
    BY <1>6, <1>10, <1>13, <2>1 DEF ServerOK, BattlesOK
<1>15. ASSUME NEW c, NEW x, NEW v PROVE Fight(t, c, x, v) <=> Fight(s, c, x, v)
  <2>1. ASSUME NEW j \in 1 .. Len(s.battles)
        PROVE  FightIn(t, s.battles[j], c, x, v) <=> FightIn(s, s.battles[j], c, x, v)
    <3>1. /\ s.battles[j].a \in Users(s.battles[j])
          /\ s.battles[j].b # Null => s.battles[j].b \in Users(s.battles[j])
      BY UsersOnline
    <3>2. /\ Name(t, s.battles[j].a) = Name(s, s.battles[j].a)
          /\ s.battles[j].b # Null => Name(t, s.battles[j].b) = Name(s, s.battles[j].b)
      BY <1>10, <1>13, <3>1
    <3> QED
      BY <3>2 DEF FightIn
  <2> QED
    BY <1>6, <2>1 DEF Fight
<1>16. ASSUME NEW c PROVE LoggedIn(t, c) <=> LoggedIn(s, c) /\ c # Name(s, p)
  <2>1. p \in Online(s)
    BY <1>2, <1>7
  <2>2. \A q \in Online(s) : Name(s, q) = Name(s, p) => q = p
    BY <2>1, OneUser
  <2> QED
    BY <1>7, <1>9, <1>10, <2>1, <2>2 DEF LoggedIn
<1>17. \A d \in Sockets : Queue(t, d) = Queue(s, d)
  BY <1>6 DEF Queue
<1>18. ServerOK(t)
  BY <1>6, <1>12, <1>14 DEF ServerOK
<1> HIDE DEF p
<1> QED
  BY <1>6, <1>15, <1>16, <1>17, <1>18 DEF t, p

(* A user who is not marked BATTLING, or plays no side, is in no battle. *)
LEMMA FreeUser ==
    ASSUME NEW s, ServerOK(s), NEW p \in Online(s),
           s.heap[p].status # "BATTLING" \/ \A x \in {0, 1} : ~Plays(s, Name(s, p), x)
    PROVE  \A i \in 1 .. Len(s.battles) : p \notin Users(s.battles[i])
<1> SUFFICES ASSUME NEW i \in 1 .. Len(s.battles), p \in Users(s.battles[i]) PROVE FALSE
  OBVIOUS
<1>1. s.heap[p].status = "BATTLING"
  BY DEF ServerOK, BattlesOK
<1>2. Fighting(s, Name(s, p))
  BY OneSide
<1> QED
  BY <1>1, <1>2 DEF Fighting

(* What the proofs ask of the players: nobody leaves who fights or waits   *)
(* for a battle to begin, and nobody leaves at all where the status of a   *)
(* new User may read as BATTLING.                                          *)
Patient == Leaves \subseteq {"free"} /\ ("BATTLING" \in Garbage => Leaves = {})

(* Who neither fights nor waits is in no battle: he sees none, and nothing *)
(* that would begin one is under way to him.                               *)
LEMMA FreeFightsNot ==
    ASSUME NEW s, ServerOK(s), NEW c \in Sockets, NEW K \in [Sockets -> Client], ClientsOK(s, K),
           K[c].session, Doing(K[c]) = "free"
    PROVE  \A x \in {0, 1} : ~Plays(s, c, x)
<1> DEFINE h == K[c]
           q == Queue(s, c)
<1>1. /\ h \in Client /\ q \in Seq(Message)
      /\ AnswerAt(h, q) /\ ViewAt(s, c, ViewOf(h, q))
      /\ h.page # "battle" /\ ~(h.page = "main" /\ h.waiting)
  BY QueueType DEF ServerOK, ClientsOK, ClientAt, Doing
<1> HIDE DEF h, q
<1>2. \A i \in 1 .. Len(q) : q[i].type # "Start"
  BY <1>1 DEF AnswerAt, Answers
<1>3. ViewOf(h, q).page # "battle"
  BY <1>1, <1>2, ViewStays
<1> QED
  BY <1>1, <1>3 DEF ViewAt

(* So his disconnection removes his User, and nothing else. *)
LEMMA FreeRemoved ==
    ASSUME NEW s, ServerOK(s), NEW c \in Sockets, LoggedIn(s, c), "BATTLING" \notin Garbage,
           \A x \in {0, 1} : ~Plays(s, c, x)
    PROVE  LET k == UserOf(s, c)
           IN  /\ k \in 1 .. Len(s.userList) /\ Name(s, UserIn(s, k)) = c
               /\ \A j \in 1 .. Len(s.battles) : UserIn(s, k) \notin Users(s.battles[j])
               /\ UserDisconnected(s, c) = Removed(s, k)
<1> DEFINE k == UserOf(s, c)
           p == UserIn(s, k)
<1>1. k \in 1 .. Len(s.userList) /\ Name(s, p) = c
  BY UserOfIs
<1>2. ServerType(s) /\ p \in Online(s) /\ p # Null
  <2>1. ServerType(s)
    BY DEF ServerOK
  <2>2. p \in Ptrs /\ p \in Online(s)
    BY <1>1, <2>1, OnlineIs, FieldsOf DEF UserIn
  <2> QED
    BY <2>1, <2>2, ServerAssumption
<1>3. k # 0 /\ p = s.userList[k]
  BY <1>1 DEF UserIn
<1>4. UserDisconnected(s, c) =
        LET t == IF s.heap[p].status = "BATTLING" THEN LeaveBattle(s) ELSE s
        IN  [t EXCEPT !.userList = RemoveAt(t.userList, k), !.heap[p] = Freed(t, p)]
  BY <1>3 DEF UserDisconnected
<1> HIDE DEF k, p
<1>5. \A j \in 1 .. Len(s.battles) : p \notin Users(s.battles[j])
  BY <1>1, <1>2, FreeUser
<1>6. s.heap[p].status # "BATTLING"
  BY <1>2, <1>5 DEF ServerOK, BattlesOK, MarkedOK, InBattle
<1>7. Freed(s, p) = Unused
  <2>1. \A b \in Battles(s) : p \notin {b.a, b.b}
    BY <1>2, <1>5, BattlesAre DEF Users
  <2> QED
    BY <2>1 DEF Freed, Battles
<1>8. UserDisconnected(s, c) = Removed(s, k)
  BY <1>4, <1>6, <1>7 DEF Removed, p
<1> QED
  BY <1>1, <1>5, <1>8 DEF p, k

(* The User of c is removed, its connection with what was under way to it. *)
LEMMA GoneKeeps ==
    ASSUME NEW s, ServerOK(s), NEW c \in Sockets, NEW K \in [Sockets -> Client],
           ClientsOK(s, K), K[c].session, Doing(K[c]) = "free", "BATTLING" \notin Garbage,
           NEW h \in [Sockets -> Client], ~h[c].session,
           \A d \in Sockets : d # c => h[d] = K[d],
           \A n \in Names : h[c].popup = n => K[c].popup = n
    PROVE  LET v == [UserDisconnected(s, c) EXCEPT !.out[c] = <<>>]
           IN  ServerOK(v) /\ LobbyStep(s, v) /\ ClientsOK(v, h)
<1>1. LoggedIn(s, c)
  BY DEF ClientsOK, ClientAt
<1>2. \A x \in {0, 1} : ~Plays(s, c, x)
  BY FreeFightsNot
<1>3. PICK k \in 1 .. Len(s.userList) :
         /\ Name(s, UserIn(s, k)) = c /\ UserDisconnected(s, c) = Removed(s, k)
         /\ \A j \in 1 .. Len(s.battles) : UserIn(s, k) \notin Users(s.battles[j])
  BY <1>1, <1>2, FreeRemoved
<1> DEFINE u == Removed(s, k)
           o == [u.out EXCEPT ![c] = <<>>]
           v == [u EXCEPT !.out = o]
<1>4. /\ ServerOK(u) /\ \A d \in Sockets : Queue(u, d) = Queue(s, d)
      /\ \A d, x, w : Fight(u, d, x, w) <=> Fight(s, d, x, w)
      /\ \A d : LoggedIn(u, d) <=> LoggedIn(s, d) /\ d # c
  BY <1>3, RemovedIs
<1>5. [UserDisconnected(s, c) EXCEPT !.out[c] = <<>>] = v
  BY <1>3
<1> HIDE DEF u
<1>6. ServerType(u) /\ o \in [Sockets -> Seq(Message)]
      /\ \A d \in Sockets : o[d] = IF d = c THEN <<>> ELSE u.out[d]
  BY <1>4, FieldsOf DEF ServerOK
<1> HIDE DEF o
<1>7. /\ ServerType(v) /\ v.heap = u.heap /\ v.userList = u.userList /\ v.battles = u.battles
      /\ v.out = o
  BY <1>6, SetOut
<1> HIDE DEF v
<1>8. ServerOK(v) /\ \A d, x, w : Fight(v, d, x, w) <=> Fight(u, d, x, w)
  BY <1>4, <1>7, SameServer
<1>9. /\ \A d, x, w : Fight(v, d, x, w) <=> Fight(s, d, x, w)
      /\ \A d : LoggedIn(v, d) <=> LoggedIn(s, d) /\ d # c
      /\ \A d \in Sockets : Queue(v, d) = IF d = c THEN <<>> ELSE Queue(s, d)
  <2>1. \A d : LoggedIn(v, d) <=> LoggedIn(u, d)
    BY <1>7 DEF LoggedIn, Online, Name
  <2>2. \A d \in Sockets : Queue(v, d) = IF d = c THEN <<>> ELSE Queue(u, d)
    BY <1>6, <1>7 DEF Queue
  <2> QED
    BY <1>4, <1>8, <2>1, <2>2
<1>10. LobbyStep(s, v)
  BY <1>9 DEF SameFights, LobbyStep
<1>11. ASSUME NEW d \in Sockets PROVE ClientAt(v, d, h[d], Queue(v, d))
  <2>1. CASE d = c
    BY <2>1, <1>9, ClientAway
  <2>2. CASE d # c
    <3>1. Alike(s, v, d)
      BY <1>9, <2>2 DEF Alike, Plays
    <3>2. ClientAt(s, d, K[d], Queue(s, d))
      BY DEF ClientsOK
    <3> QED
      BY <1>9, <2>2, <3>1, <3>2, ClientSame
  <2> QED
    BY <2>1, <2>2
<1>12. ~Asks(K[c], Queue(s, c))
  BY DEF Asks, Doing
<1>13. ASSUME NEW n \in Names, NEW d \in Sockets, NEW i, Holds(h[d], Queue(v, d), i, n)
       PROVE  Holds(K[d], Queue(s, d), i, n) /\ Asks(h[n], Queue(v, n))
  <2>1. Holds(K[d], Queue(s, d), i, n)
    <3>1. CASE d = c
      <4>1. Len(<<>>) = 0
        OBVIOUS
      <4> QED
        BY <1>9, <1>13, <3>1, <4>1 DEF Holds
    <3>2. CASE d # c
      BY <1>9, <1>13, <3>2
    <3> QED
      BY <3>1, <3>2
  <2>2. Asks(K[n], Queue(s, n))
    BY <2>1, InvitesAre DEF ServerOK, ClientsOK
  <2>3. n # c /\ n \in Sockets
    BY <1>12, <2>2, GameAssumption
  <2> QED
    BY <1>9, <2>1, <2>2, <2>3
<1>14. InvitesOK(v, h)
  BY <1>13, InvitesKept DEF ServerOK, ClientsOK
<1>15. ClientsOK(v, h)
  BY <1>11, <1>14 DEF ClientsOK
<1> QED
  BY <1>5, <1>8, <1>10, <1>15

(* The end of a connection keeps the invariant, where players are patient. *)
LEMMA DisconnectKeeps ==
    ASSUME NEW c \in Sockets, IInv, Patient, Leave(c) \/ ConnectionLost(c)
    PROVE  IInv' /\ LobbyStep(server, server')
<1>1. client \in [Sockets -> Client] /\ ServerOK(server) /\ ClientsOK(server, client) /\ server.up
      /\ client[c].session /\ client[c] \in Client
  BY DEF IInv, Leave, ConnectionLost, Disconnect
<1>2. Doing(client[c]) = "free" /\ "BATTLING" \notin Garbage
  BY DEF Leave, ConnectionLost, Disconnect, Patient
<1>3. /\ client' \in [Sockets -> Client] /\ ~client'[c].session
      /\ \A d \in Sockets : d # c => client'[d] = client[d]
      /\ \A n \in Names : client'[c].popup = n => client[c].popup = n
  <2>1. CASE Leave(c)
    <3>1. Closed \in Client /\ ~Closed.session /\ \A n \in Names : Closed.popup # n
      BY ServerAssumption DEF Closed, Client, Pages
    <3>2. client' = [client EXCEPT ![c] = Closed]
      BY <2>1 DEF Leave
    <3> QED
      BY <1>1, <3>1, <3>2, OneClient
  <2>2. CASE ConnectionLost(c)
    <3> DEFINE g == [client[c] EXCEPT !.session = FALSE]
    <3>1. g \in Client /\ ~g.session /\ g.popup = client[c].popup
      BY <1>1 DEF Client
    <3>2. client' = [client EXCEPT ![c] = g]
      BY <1>1, <2>2 DEF ConnectionLost
    <3> HIDE DEF g
    <3> QED
      BY <1>1, <3>1, <3>2, OneClient
  <2> QED
    BY <2>1, <2>2
<1>4. server' = [UserDisconnected(server, c) EXCEPT !.out[c] = <<>>]
  BY DEF Leave, ConnectionLost, Disconnect
<1>5. ServerOK(server') /\ LobbyStep(server, server') /\ ClientsOK(server', client')
  BY <1>1, <1>2, <1>3, <1>4, GoneKeeps
<1> QED
  BY <1>3, <1>5 DEF IInv

(* Closing a program without a session keeps it. *)
LEMMA CloseKeeps ==
    ASSUME NEW c \in Sockets, IInv, CloseAfterLoss(c)
    PROVE  IInv' /\ LobbyStep(server, server')
<1> DEFINE o == [server.out EXCEPT ![c] = <<>>]
           v == [server EXCEPT !.out = o]
<1>1. client \in [Sockets -> Client] /\ ServerOK(server) /\ ClientsOK(server, client)
      /\ ~client[c].session /\ ServerType(server)
  BY DEF IInv, CloseAfterLoss, ServerOK
<1>2. Closed \in Client /\ ~Closed.session /\ \A n \in Names : Closed.popup # n
  BY ServerAssumption DEF Closed, Client, Pages
<1>3. client' = [client EXCEPT ![c] = Closed]
  BY DEF CloseAfterLoss
<1>4. /\ client' \in [Sockets -> Client] /\ client'[c] = Closed
      /\ \A d \in Sockets : d # c => client'[d] = client[d]
  BY <1>1, <1>2, <1>3, OneClient
<1>5. server' = v
  BY DEF CloseAfterLoss
<1>6. o \in [Sockets -> Seq(Message)] /\ \A d \in Sockets : o[d] = IF d = c THEN <<>> ELSE server.out[d]
  BY <1>1, FieldsOf
<1> HIDE DEF o
<1>7. /\ ServerType(v) /\ v.heap = server.heap /\ v.userList = server.userList
      /\ v.battles = server.battles /\ v.out = o /\ v.up = server.up
  BY <1>1, <1>6, SetOut
<1> HIDE DEF v
<1>8. ServerOK(v) /\ \A d, x, w : Fight(v, d, x, w) <=> Fight(server, d, x, w)
  BY <1>1, <1>7, SameServer
<1>9. Queue(server, c) = <<>>
  BY <1>1 DEF ClientsOK, ClientAt
<1>10. /\ \A d \in Sockets : Queue(v, d) = Queue(server, d)
       /\ \A d : Alike(server, v, d)
  BY <1>6, <1>7, <1>8, <1>9 DEF Queue, Alike, LoggedIn, Online, Name, Plays
<1>11. ASSUME NEW d \in Sockets PROVE ClientAt(v, d, client'[d], Queue(v, d))
  <2>1. CASE d = c
    <3>1. ~LoggedIn(v, c)
      BY <1>1, <1>10 DEF ClientsOK, ClientAt, Alike
    <3> QED
      BY <1>2, <1>4, <1>9, <1>10, <2>1, <3>1, ClientAway
  <2>2. CASE d # c
    BY <1>1, <1>4, <1>10, <2>2, ClientSame DEF ClientsOK
  <2> QED
    BY <2>1, <2>2
<1>12. InvitesOK(v, client)
  <2>1. Keeps(server, v)
    BY <1>1, <1>7, <1>10, SameQueues
  <2> QED
    BY <1>1, <2>1 DEF ClientsOK, Keeps
<1>13. ~Asks(client[c], Queue(v, c))
  BY <1>1 DEF Asks
<1>14. InvitesOK(v, client')
  BY <1>2, <1>4, <1>7, <1>12, <1>13, InvitesOneClient
<1>15. SameFights(server, v)
  BY <1>8 DEF SameFights
<1> QED
  BY <1>4, <1>5, <1>8, <1>11, <1>14, <1>15 DEF IInv, ClientsOK, LobbyStep

-----------------------------------------------------------------------------
(* Login. *)

(* The state with the new user. *)
Added(s, p, c, g) == [s EXCEPT !.heap[p] = [name |-> c, sock |-> c, status |-> g],
                               !.userList = Append(@, p)]

(* What adding a user keeps. *)
LEMMA AddedIs ==
    ASSUME NEW s, ServerOK(s), NEW c \in Sockets, ~LoggedIn(s, c), NEW p \in Ptrs \ Online(s),
           NEW g \in Garbage
    PROVE  LET t == Added(s, p, c, g)
           IN  /\ ServerOK(t) /\ t.up = s.up /\ \A d \in Sockets : Queue(t, d) = Queue(s, d)
               /\ \A d, x, v : Fight(t, d, x, v) <=> Fight(s, d, x, v)
               /\ \A d : LoggedIn(t, d) <=> LoggedIn(s, d) \/ d = c
<1> DEFINE w == [name |-> c, sock |-> c, status |-> g]
           h == [s.heap EXCEPT ![p] = w]
           l == Append(s.userList, p)
           n == Len(s.userList)
           t == Added(s, p, c, g)
<1>1. ServerType(s) /\ s.userList \in Seq(Ptrs) /\ s.heap \in [Ptrs -> User] /\ n \in Nat
  BY FieldsOf DEF ServerOK
<1>2. c \in Names
  BY GameAssumption
<1>3. /\ h \in [Ptrs -> User] /\ \A q \in Ptrs : q # p => h[q] = s.heap[q]
      /\ h[p].name = c /\ h[p].sock = c /\ h[p].status = g
  <2>1. g \in Status
    BY ServerAssumption
  <2>2. w \in User /\ w.name = c /\ w.sock = c /\ w.status = g
    BY <1>2, <2>1 DEF User
  <2> HIDE DEF w
  <2> QED
    BY <1>1, <2>2
<1>4. /\ l \in Seq(Ptrs) /\ Len(l) = n + 1 /\ \A j \in 1 .. n : l[j] = s.userList[j]
      /\ l[n + 1] = p
  BY <1>1
<1>5. t = [heap |-> h, userList |-> l, battles |-> s.battles, out |-> s.out, up |-> s.up]
  <2>1. DOMAIN s = {"heap", "userList", "battles", "out", "up"}
    BY <1>1, FieldsOf
  <2>2. t = [s EXCEPT !.heap = h, !.userList = l]
    BY <2>1 DEF Added
  <2> HIDE DEF t, h, l
  <2> QED
    BY <2>1, <2>2
<1> HIDE DEF t, h, l
<1>6. /\ ServerType(t) /\ t.heap = h /\ t.userList = l /\ t.battles = s.battles /\ t.out = s.out
      /\ t.up = s.up
  BY <1>1, <1>3, <1>4, <1>5, FieldsOf DEF ServerType
<1>7. /\ Online(s) = {s.userList[i] : i \in 1 .. n} /\ Online(s) \subseteq Ptrs
      /\ Online(t) = {l[i] : i \in 1 .. n + 1}
  <2>1. Online(s) = {s.userList[i] : i \in 1 .. n} /\ Online(s) \subseteq Ptrs
    BY <1>1, OnlineIs
  <2>2. Online(t) = {t.userList[i] : i \in 1 .. Len(t.userList)}
    BY <1>6, OnlineIs
  <2> HIDE DEF n
  <2> QED
    BY <1>4, <1>6, <2>1, <2>2
<1> HIDE DEF n
<1>8. Online(t) = Online(s) \cup {p}
  <2>1. ASSUME NEW q \in Online(t) PROVE q \in Online(s) \cup {p}
    <3>1. PICK i \in 1 .. n + 1 : q = l[i]
      BY <1>7
    <3>2. i \in 1 .. n \/ i = n + 1
      BY <1>1
    <3> QED
      BY <1>4, <1>7, <3>1, <3>2
  <2>2. ASSUME NEW q \in Online(s) PROVE q \in Online(t)
    <3>1. PICK i \in 1 .. n : q = s.userList[i]
      BY <1>7
    <3>2. i \in 1 .. n + 1 /\ l[i] = q
      BY <1>1, <1>4, <3>1
    <3> QED
      BY <1>7, <3>2
  <2>3. n + 1 \in 1 .. n + 1
    BY <1>1
  <2> QED
    BY <1>4, <1>7, <2>1, <2>2, <2>3
<1>9. /\ \A q \in Online(s) : q # p /\ q \in Ptrs /\ Name(t, q) = Name(s, q) /\ t.heap[q] = s.heap[q]
      /\ Name(t, p) = c /\ t.heap[p].sock = c /\ t.heap[p].status = g
  BY <1>3, <1>6, <1>7 DEF Name
<1>10. \A q \in Online(s) : Name(s, q) # c
  BY DEF LoggedIn
<1>11. UsersOK(t)
  <2>1. ASSUME NEW q \in Online(t) PROVE Name(t, q) \in Names /\ t.heap[q].sock = Name(t, q)
    BY <1>2, <1>8, <1>9 DEF ServerOK, UsersOK
  <2>2. ASSUME NEW i \in 1 .. n + 1, NEW j \in 1 .. n + 1, i # j
        PROVE  l[i] # l[j] /\ Name(t, l[i]) # Name(t, l[j])
    <3>1. \A k \in 1 .. n : l[k] = s.userList[k] /\ l[k] \in Online(s)
      BY <1>4, <1>7
    <3>2. CASE i \in 1 .. n /\ j \in 1 .. n
      <4>1. s.userList[i] # s.userList[j] /\ Name(s, s.userList[i]) # Name(s, s.userList[j])
        BY <2>2, <3>2 DEF ServerOK, UsersOK, n
      <4> QED
        BY <1>9, <3>1, <3>2, <4>1
    <3>3. CASE i = n + 1 /\ j \in 1 .. n
      BY <1>4, <1>9, <1>10, <3>1, <3>3
    <3>4. CASE j = n + 1 /\ i \in 1 .. n
      BY <1>4, <1>9, <1>10, <3>1, <3>4
    <3> QED
      BY <1>1, <2>2, <3>2, <3>3, <3>4
  <2> QED
    BY <1>4, <1>6, <2>1, <2>2 DEF UsersOK
<1>13. ASSUME NEW j \in 1 .. Len(s.battles), NEW q \in Users(s.battles[j])
       PROVE  q \in Online(s) /\ q \in Online(t) /\ s.heap[q].status = "BATTLING"
  BY <1>8 DEF ServerOK, BattlesOK
<1>14. BattlesOK(t)
  <2>1. MarkedOK(t)
    BY <1>6, <1>8, <1>9 DEF ServerOK, BattlesOK, MarkedOK, InBattle
  <2> QED
    BY <1>6, <1>9, <1>13, <2>1 DEF ServerOK, BattlesOK
<1>15. ASSUME NEW d, NEW x, NEW v PROVE Fight(t, d, x, v) <=> Fight(s, d, x, v)
  <2>1. ASSUME NEW j \in 1 .. Len(s.battles)
        PROVE  FightIn(t, s.battles[j], d, x, v) <=> FightIn(s, s.battles[j], d, x, v)
    <3>1. /\ s.battles[j].a \in Users(s.battles[j])
          /\ s.battles[j].b # Null => s.battles[j].b \in Users(s.battles[j])
      BY UsersOnline
    <3>2. /\ Name(t, s.battles[j].a) = Name(s, s.battles[j].a)
          /\ s.battles[j].b # Null => Name(t, s.battles[j].b) = Name(s, s.battles[j].b)
      BY <1>9, <1>13, <3>1
    <3> QED
      BY <3>2 DEF FightIn
  <2> QED
    BY <1>6, <2>1 DEF Fight
<1>16. ASSUME NEW d PROVE LoggedIn(t, d) <=> LoggedIn(s, d) \/ d = c
  BY <1>8, <1>9 DEF LoggedIn
<1>17. \A d \in Sockets : Queue(t, d) = Queue(s, d)
  BY <1>6 DEF Queue
<1>18. ServerOK(t)
  BY <1>6, <1>11, <1>14 DEF ServerOK
<1> QED
  BY <1>6, <1>15, <1>16, <1>17, <1>18 DEF t

(* What UserLogin keeps: the player is new, so the answer is yes. *)
LEMMA LoginIs ==
    ASSUME NEW s, ServerOK(s), NEW c \in Sockets, NEW p \in Ptrs \ Online(s), NEW g \in Garbage,
           NEW K \in [Sockets -> Client], ClientsOK(s, K), ~K[c].session, K[c].page = "login",
           NEW h \in [Sockets -> Client], h[c] = [K[c] EXCEPT !.waiting = TRUE, !.session = TRUE],
           \A d \in Sockets : d # c => h[d] = K[d]
    PROVE  LET v == UserLogin(s, c, c, p, g)
           IN  ServerOK(v) /\ LobbyStep(s, v) /\ ClientsOK(v, h)
<1> DEFINE u == Added(s, p, c, g)
           m == LoginAnswer(TRUE)
           v == Reply(u, c, m)
           f == h[c]
<1>1. ~LoggedIn(s, c) /\ Queue(s, c) = <<>> /\ ServerType(s)
  BY DEF ClientsOK, ClientAt, ServerOK
<1>2. UserLogin(s, c, c, p, g) = v
  <2>1. ~(\E q \in Online(s) : Name(s, q) = c)
    BY <1>1 DEF LoggedIn
  <2> QED
    BY <2>1 DEF UserLogin, Added
<1>3. /\ ServerOK(u) /\ \A d \in Sockets : Queue(u, d) = Queue(s, d)
      /\ \A d, x, w : Fight(u, d, x, w) <=> Fight(s, d, x, w)
      /\ \A d : LoggedIn(u, d) <=> LoggedIn(s, d) \/ d = c
  BY <1>1, AddedIs
<1>4. m \in Message /\ m.type = "Login" /\ m.ok
  BY Kinds
<1>5. f \in Client /\ f.session /\ f.waiting /\ f.page = "login" /\ f.popup = K[c].popup
  <2>1. K[c] \in Client
    OBVIOUS
  <2> QED
    BY <2>1 DEF Client
<1> HIDE DEF u, m, f
<1>6. /\ ServerType(v) /\ v.heap = u.heap /\ v.userList = u.userList /\ v.battles = u.battles
      /\ \A d \in Sockets : Queue(v, d) = IF d = c THEN Append(Queue(u, d), m) ELSE Queue(u, d)
  BY <1>3, <1>4, ReplyFields DEF ServerOK
<1> HIDE DEF v
<1>7. ServerOK(v) /\ \A d, x, w : Fight(v, d, x, w) <=> Fight(s, d, x, w)
  BY <1>3, <1>6, SameServer
<1>8. \A d : LoggedIn(v, d) <=> LoggedIn(s, d) \/ d = c
  BY <1>3, <1>6, SMTT(20) DEF LoggedIn, Online, Name
<1>9. \A x \in {0, 1} : ~Plays(v, c, x)
  <2>1. ASSUME NEW x, NEW w, Fight(s, c, x, w) PROVE FALSE
    <3>1. PICK i \in 1 .. Len(s.battles) : \E q \in Users(s.battles[i]) : Name(s, q) = c
      BY <2>1, FightUsers
    <3> QED
      BY <1>1, <3>1, OneSide
  <2> QED
    BY <1>7, <2>1 DEF Plays
<1>10. ClientAt(v, c, f, Append(<<>>, m))
  <2>1. <<>> \in Seq(Message)
    OBVIOUS
  <2>2. ViewOf(f, Append(<<>>, m)) = Read(f, m)
    <3> DEFINE q == <<>>
    <3>1. q \in Seq(Message)
      OBVIOUS
    <3>2. ViewOf(f, q) = f
      BY <1>5, ViewNil
    <3> HIDE DEF q
    <3>3. ViewOf(f, Append(q, m)) = Read(ViewOf(f, q), m)
      BY <1>4, <1>5, <3>1, ViewAppend
    <3>4. ViewOf(f, Append(q, m)) = Read(f, m)
      BY <3>2, <3>3
    <3> QED
      BY <3>4 DEF q
  <2>3. Read(f, m).page = "main"
    BY <1>4, <1>5 DEF Read, Client
  <2>4. ViewAt(v, c, Read(f, m))
    BY <1>9, <2>3 DEF ViewAt
  <2>5. AnswerAt(f, Append(<<>>, m))
    <3> DEFINE q == <<>>
    <3>1. q \in Seq(Message) /\ NoAnswer(q)
      BY AnswerEmpty
    <3> HIDE DEF q
    <3>2. AnswerAt(f, Append(q, m))
      BY <1>4, <1>5, <3>1, AnswerFirst
    <3> QED
      BY <3>2 DEF q
  <2> QED
    BY <1>5, <1>8, <2>2, <2>4, <2>5 DEF ClientAt
<1>11. ASSUME NEW d \in Sockets PROVE ClientAt(v, d, h[d], Queue(v, d))
  <2>1. CASE d = c
    BY <1>1, <1>3, <1>6, <1>10, <2>1 DEF f
  <2>2. CASE d # c
    <3>1. Alike(s, v, d)
      BY <1>7, <1>8, <2>2 DEF Alike, Plays
    <3>2. Queue(v, d) = Queue(s, d) /\ h[d] = K[d] /\ ClientAt(s, d, K[d], Queue(s, d))
      BY <1>3, <1>6, <2>2 DEF ClientsOK
    <3> QED
      BY <3>1, <3>2, ClientSame
  <2> QED
    BY <2>1, <2>2
<1>12. ASSUME NEW n \in Names, NEW d \in Sockets, NEW i, Holds(h[d], Queue(v, d), i, n)
       PROVE  Holds(K[d], Queue(s, d), i, n) /\ Asks(h[n], Queue(v, n))
  <2>1. Holds(K[d], Queue(s, d), i, n)
    <3>1. CASE d = c
      <4>1. m # Invite(n)
        BY <1>4, Kinds
      <4>2. Holds(K[d], Append(Queue(s, d), m), i, n)
        BY <1>3, <1>5, <1>6, <1>12, <3>1 DEF Holds, f
      <4>3. Queue(s, d) \in Seq(Message)
        BY <1>1, QueueType
      <4> QED
        BY <1>4, <4>1, <4>2, <4>3, HoldsAppend
    <3>2. CASE d # c
      BY <1>3, <1>6, <1>12, <3>2
    <3> QED
      BY <3>1, <3>2
  <2>2. Asks(K[n], Queue(s, n))
    BY <1>1, <2>1, InvitesAre DEF ClientsOK
  <2>3. n # c /\ n \in Sockets
    BY <2>2, GameAssumption DEF Asks
  <2> QED
    BY <1>3, <1>6, <2>1, <2>2, <2>3
<1>13. InvitesOK(v, h)
  BY <1>1, <1>12, InvitesKept DEF ClientsOK
<1>14. ClientsOK(v, h)
  BY <1>11, <1>13 DEF ClientsOK
<1>15. SameFights(s, v)
  BY <1>7 DEF SameFights
<1> QED
  BY <1>2, <1>7, <1>14, <1>15 DEF LobbyStep

(* A login keeps the invariant. *)
LEMMA LoginKeeps ==
    ASSUME NEW c \in Sockets, IInv, Login(c)
    PROVE  IInv' /\ LobbyStep(server, server')
<1> DEFINE f == [client[c] EXCEPT !.waiting = TRUE, !.session = TRUE]
<1>1. client \in [Sockets -> Client] /\ ServerOK(server) /\ ClientsOK(server, client)
      /\ client[c] \in Client /\ ~client[c].session /\ client[c].page = "login"
  BY DEF IInv, Login, On
<1>2. f \in Client
  BY <1>1 DEF Client
<1>3. client' = [client EXCEPT ![c] = f]
  BY <1>1 DEF Login
<1>4. /\ client' \in [Sockets -> Client] /\ client'[c] = f
      /\ \A d \in Sockets : d # c => client'[d] = client[d]
  <2> HIDE DEF f
  <2> QED
    BY <1>1, <1>2, <1>3, OneClient
<1>5. PICK p \in Ptrs \ Online(server), g \in Garbage : server' = UserLogin(server, c, c, p, g)
  BY DEF Login
<1>6. ServerOK(server') /\ LobbyStep(server, server') /\ ClientsOK(server', client')
  BY <1>1, <1>4, <1>5, LoginIs
<1> QED
  BY <1>4, <1>6 DEF IInv

-----------------------------------------------------------------------------
(* Receive. *)

(* Who waits for an answer still does after reading something else. *)
LEMMA AsksRead ==
    ASSUME NEW h \in Client, NEW q \in Seq(Message), q # <<>>, Asks(h, q)
    PROVE  Asks(Read(h, Head(q)), Tail(q))
<1> DEFINE m == Head(q)
           r == Tail(q)
           n == Len(q)
<1>1. n \in Nat \ {0} /\ Len(r) = n - 1 /\ m = q[1] /\ m \in Message
      /\ \A i \in 1 .. n - 1 : r[i] = q[i + 1]
  BY TailIs
<1> HIDE DEF r, m, n
<1>2. \A i \in 1 .. n : q[i].type \notin Answers
  BY DEF Asks, NoAnswer, n
<1>3. m.type \notin Answers
  BY <1>1, <1>2
<1>4. NoAnswer(r)
  BY <1>1, <1>2 DEF NoAnswer
<1>5. Read(h, m).session = h.session /\ Read(h, m).waiting = h.waiting /\ Read(h, m).page = h.page
  BY <1>1, <1>3, MessageKinds DEF Read, Client, Asks, Answers
<1> QED
  BY <1>4, <1>5 DEF Asks, m, r

(* What reading a message keeps. *)
LEMMA ReceiveIs ==
    ASSUME NEW s, ServerOK(s), NEW c \in Sockets, Queue(s, c) # <<>>,
           NEW K \in [Sockets -> Client], ClientsOK(s, K),
           NEW h \in [Sockets -> Client], h[c] = Read(K[c], Head(Queue(s, c))),
           \A d \in Sockets : d # c => h[d] = K[d]
    PROVE  LET v == [s EXCEPT !.out[c] = Tail(@)]
           IN  ServerOK(v) /\ LobbyStep(s, v) /\ ClientsOK(v, h)
<1> DEFINE o == [s.out EXCEPT ![c] = Tail(@)]
           v == [s EXCEPT !.out = o]
           q == Queue(s, c)
<1>1. ServerType(s) /\ q \in Seq(Message) /\ q = s.out[c] /\ K[c] \in Client
  BY QueueType DEF ServerOK, Queue
<1>2. v = [s EXCEPT !.out[c] = Tail(@)]
  OBVIOUS
<1>3. o \in [Sockets -> Seq(Message)] /\ \A d \in Sockets : o[d] = IF d = c THEN Tail(q) ELSE s.out[d]
  <2>1. Tail(q) \in Seq(Message) /\ s.out \in [Sockets -> Seq(Message)]
    BY <1>1, TailIs, FieldsOf
  <2>2. o = [s.out EXCEPT ![c] = Tail(q)]
    BY <1>1
  <2> HIDE DEF q, o
  <2> QED
    BY <2>1, <2>2
<1> HIDE DEF o
<1>4. /\ ServerType(v) /\ v.heap = s.heap /\ v.userList = s.userList /\ v.battles = s.battles
      /\ v.out = o /\ v.up = s.up
  BY <1>1, <1>3, SetOut
<1> HIDE DEF v
<1>5. ServerOK(v) /\ \A d, x, w : Fight(v, d, x, w) <=> Fight(s, d, x, w)
  BY <1>1, <1>4, SameServer
<1>6. /\ \A d \in Sockets : Queue(v, d) = IF d = c THEN Tail(q) ELSE Queue(s, d)
      /\ \A d : Alike(s, v, d)
  BY <1>3, <1>4, <1>5 DEF Queue, Alike, LoggedIn, Online, Name, Plays
<1> HIDE DEF q
<1>7. ASSUME NEW d \in Sockets PROVE ClientAt(v, d, h[d], Queue(v, d))
  <2>0. ClientAt(s, d, K[d], Queue(s, d))
    BY DEF ClientsOK
  <2>1. CASE d = c
    <3>1. ClientAt(s, c, K[c], q) /\ q # <<>> /\ h[c] = Read(K[c], Head(q))
      BY <2>0, <2>1 DEF q
    <3>2. ClientAt(v, c, Read(K[c], Head(q)), Tail(q))
      BY <1>1, <1>6, <3>1, ClientReads
    <3> QED
      BY <1>6, <2>1, <3>1, <3>2
  <2>2. CASE d # c
    BY <1>6, <2>0, <2>2, ClientSame
  <2> QED
    BY <2>1, <2>2
<1> DEFINE M(d, i) == IF d # c \/ (i = 0 /\ Head(q).type # "Invite") THEN i ELSE i + 1
<1>8. ASSUME NEW n \in Names, NEW d \in Sockets, NEW i, Holds(h[d], Queue(v, d), i, n)
      PROVE  Holds(K[d], Queue(s, d), M(d, i), n)
  <2>1. CASE d = c
    <3>1. q # <<>> /\ h[c] = Read(K[c], Head(q)) /\ q = Queue(s, d)
      BY <2>1 DEF q
    <3>2. Holds(Read(K[c], Head(q)), Tail(q), i, n)
      BY <1>6, <1>8, <2>1, <3>1
    <3>3. Holds(K[c], q, IF i = 0 /\ Head(q).type # "Invite" THEN 0 ELSE i + 1, n)
      BY <1>1, <3>1, <3>2, HoldsRead
    <3>4. (IF i = 0 /\ Head(q).type # "Invite" THEN 0 ELSE i + 1) = M(d, i)
      BY <2>1
    <3> QED
      BY <2>1, <3>1, <3>3, <3>4
  <2>2. CASE d # c
    BY <1>6, <1>8, <2>2
  <2> QED
    BY <2>1, <2>2
<1>9. ASSUME NEW n \in Names, NEW d \in Sockets, NEW e \in Sockets,
             NEW i \in 0 .. Len(Queue(v, d)), NEW j \in 0 .. Len(Queue(v, e)),
             Holds(h[d], Queue(v, d), i, n)
      PROVE  /\ Asks(h[n], Queue(v, n))
             /\ Holds(h[e], Queue(v, e), j, n) => d = e /\ i = j
  <2>1. Holds(K[d], Queue(s, d), M(d, i), n)
    BY <1>8, <1>9
  <2>2. Holds(h[e], Queue(v, e), j, n) => Holds(K[e], Queue(s, e), M(e, j), n)
    BY <1>8
  <2>3. M(d, i) = M(e, j) /\ d = e => i = j
    OBVIOUS
  <2> DEFINE x == M(d, i)
             y == M(e, j)
  <2>4. Holds(K[d], Queue(s, d), x, n) /\ (Holds(h[e], Queue(v, e), j, n) => Holds(K[e], Queue(s, e), y, n))
        /\ (x = y /\ d = e => i = j)
    BY <2>1, <2>2, <2>3
  <2> HIDE DEF x, y, M
  <2>5. Asks(K[n], Queue(s, n))
    BY <1>1, <2>4, InvitesAre DEF ClientsOK
  <2>6. Asks(h[n], Queue(v, n))
    <3>0. n \in Sockets
      BY GameAssumption
    <3>1. CASE n = c
      <4>1. q # <<>> /\ h[c] = Read(K[c], Head(q)) /\ Asks(K[c], q)
        BY <2>5, <3>1 DEF q
      <4>2. Asks(Read(K[c], Head(q)), Tail(q))
        BY <1>1, <4>1, AsksRead
      <4> QED
        BY <1>6, <3>1, <4>1, <4>2
    <3>2. CASE n # c
      BY <1>6, <2>5, <3>0, <3>2
    <3> QED
      BY <3>1, <3>2
  <2>7. ASSUME Holds(h[e], Queue(v, e), j, n) PROVE d = e /\ x = y
    <3>1. Holds(K[d], Queue(s, d), x, n) /\ Holds(K[e], Queue(s, e), y, n) /\ InvitesOK(s, K)
      BY <2>4, <2>7 DEF ClientsOK
    <3> QED
      BY <1>1, <3>1, InvitesAre
  <2> QED
    BY <2>4, <2>6, <2>7
<1>10. InvitesOK(v, h)
  BY <1>9 DEF InvitesOK
<1>11. ClientsOK(v, h)
  BY <1>7, <1>10 DEF ClientsOK
<1>12. SameFights(s, v)
  BY <1>5 DEF SameFights
<1> QED
  BY <1>2, <1>5, <1>11, <1>12 DEF LobbyStep

(* Reading a message keeps the invariant. *)
LEMMA ReceiveKeeps ==
    ASSUME NEW c \in Sockets, IInv, Receive(c)
    PROVE  IInv' /\ LobbyStep(server, server')
<1> DEFINE g == Read(client[c], Head(Queue(server, c)))
<1>1. client \in [Sockets -> Client] /\ ServerOK(server) /\ ClientsOK(server, client)
      /\ client[c] \in Client /\ ServerType(server)
  BY DEF IInv, Receive, ServerOK
<1>2. Queue(server, c) # <<>> /\ Queue(server, c) \in Seq(Message)
  BY <1>1, QueueType DEF Receive, inbox, Queue
<1>3. g \in Client
  <2> DEFINE q == Queue(server, c)
  <2>1. q # <<>> /\ q \in Seq(Message)
    BY <1>2
  <2> HIDE DEF q
  <2>2. Head(q) \in Message
    BY <2>1, TailIs
  <2>3. Read(client[c], Head(q)) \in Client
    BY <1>1, <2>2, ReadType
  <2> QED
    BY <2>3 DEF q
<1>4. client' = [client EXCEPT ![c] = g]
  BY <1>1 DEF Receive, inbox, Queue
<1>5. /\ client' \in [Sockets -> Client] /\ client'[c] = g
      /\ \A d \in Sockets : d # c => client'[d] = client[d]
  <2> HIDE DEF g
  <2> QED
    BY <1>1, <1>3, <1>4, OneClient
<1>6. server' = [server EXCEPT !.out[c] = Tail(@)]
  BY DEF Receive
<1>7. ServerOK(server') /\ LobbyStep(server, server') /\ ClientsOK(server', client')
  BY <1>1, <1>2, <1>5, <1>6, ReceiveIs
<1> QED
  BY <1>5, <1>7 DEF IInv

-----------------------------------------------------------------------------
(* InviteTo: a battle begins, an invitation is passed on or refused. *)

(* A battle begins, for those that are free. *)
LEMMA BeginIs ==
    ASSUME NEW s, ServerOK(s), NEW a \in Online(s), NEW b \in Online(s) \cup {Null}, a # b,
           \A x \in {0, 1} : ~Plays(s, Name(s, a), x),
           b # Null => \A x \in {0, 1} : ~Plays(s, Name(s, b), x)
    PROVE  LET t == StartBattle(s, a, b)
           IN  /\ ServerOK(t) /\ t.up = s.up /\ t.userList = s.userList
               /\ \A p \in Ptrs : t.heap[p].name = s.heap[p].name /\ t.heap[p].sock = s.heap[p].sock
               /\ \A c \in Sockets : Queue(t, c) = Queue(s, c)
               /\ \A c : LoggedIn(t, c) <=> LoggedIn(s, c)
               /\ \A c, x, v : Fight(t, c, x, v) <=>
                     \/ Fight(s, c, x, v)
                     \/ x = 1 /\ c = Name(s, a) /\ v = IF b = Null THEN Server ELSE Name(s, b)
                     \/ x # 1 /\ b # Null /\ c = Name(s, b) /\ v = Name(s, a)
<1> DEFINE t == StartBattle(s, a, b)
           w == [a |-> a, b |-> b, acted |-> {}]
<1>1. ServerType(s) /\ Online(s) \subseteq Ptrs
  BY OnlineIs DEF ServerOK
<1>2. \A i \in 1 .. Len(s.battles) : a \notin Users(s.battles[i]) /\ b \notin Users(s.battles[i])
  <2>1. \A i \in 1 .. Len(s.battles) : a \notin Users(s.battles[i])
    BY FreeUser
  <2>2. b # Null => \A i \in 1 .. Len(s.battles) : b \notin Users(s.battles[i])
    BY FreeUser
  <2>3. b = Null => \A i \in 1 .. Len(s.battles) : b \notin Users(s.battles[i])
    BY DEF Users
  <2> QED
    BY <2>1, <2>2, <2>3
<1>3. /\ ServerType(t) /\ SameUsers(s, t) /\ t.out = s.out /\ t.up = s.up
  <2>1. a \in Ptrs /\ b \in Ptrs \cup {Null}
    BY <1>1
  <2> QED
    BY <1>1, <2>1, StartIs
<1>4. /\ ServerOK(t)
      /\ \A c, x, v : Fight(t, c, x, v) <=> Fight(s, c, x, v) \/ FightIn(s, w, c, x, v)
  BY <1>2, StartOK
<1>5. w.a = a /\ w.b = b
  OBVIOUS
<1> HIDE DEF t, w
<1>6. \A c, x, v : FightIn(s, w, c, x, v) <=>
          \/ x = 1 /\ c = Name(s, a) /\ v = IF b = Null THEN Server ELSE Name(s, b)
          \/ x # 1 /\ b # Null /\ c = Name(s, b) /\ v = Name(s, a)
  BY <1>5 DEF FightIn
<1>7. \A c : LoggedIn(t, c) <=> LoggedIn(s, c)
  <2>1. Online(t) = Online(s) /\ \A p \in Online(s) : Name(t, p) = Name(s, p)
    BY <1>1, <1>3, SameNames
  <2> QED
    BY <2>1 DEF LoggedIn
<1> QED
  BY <1>3, <1>4, <1>6, <1>7 DEF t, SameUsers, Queue

(* A message to one client. *)
LEMMA ToldIs ==
    ASSUME NEW s, ServerOK(s), NEW c \in Sockets, NEW m \in Message
    PROVE  LET t == Reply(s, c, m)
           IN  /\ ServerOK(t) /\ t.up = s.up /\ t.heap = s.heap /\ t.userList = s.userList
               /\ \A d \in Sockets : Queue(t, d) = IF d = c THEN Append(Queue(s, d), m) ELSE Queue(s, d)
               /\ \A d : LoggedIn(t, d) <=> LoggedIn(s, d)
               /\ \A d : Alike(s, t, d)
               /\ \A d, x, v : Fight(t, d, x, v) <=> Fight(s, d, x, v)
<1> DEFINE t == Reply(s, c, m)
<1>1. /\ ServerType(t) /\ t.heap = s.heap /\ t.userList = s.userList
      /\ t.battles = s.battles /\ t.up = s.up
      /\ \A d \in Sockets : Queue(t, d) = IF d = c THEN Append(Queue(s, d), m) ELSE Queue(s, d)
  BY ReplyFields DEF ServerOK
<1> HIDE DEF t
<1>2. ServerOK(t) /\ \A d, x, v : Fight(t, d, x, v) <=> Fight(s, d, x, v)
  BY <1>1, SameServer
<1>3. \A d : LoggedIn(t, d) <=> LoggedIn(s, d)
  BY <1>1 DEF LoggedIn, Online, Name
<1>4. \A d : Alike(s, t, d)
  BY <1>2, <1>3 DEF Alike, Plays
<1> QED
  BY <1>1, <1>2, <1>3, <1>4 DEF t

(* Invitations stay what they are when the only clients with new messages, *)
(* which are no invitations, are some that ask for nothing.                *)
Settled(s, K, t, h, D) ==
    /\ ServerType(s) /\ InvitesOK(s, K)
    /\ \A d \in Sockets : d \notin D => Queue(t, d) = Queue(s, d) /\ h[d] = K[d]
    /\ \A d \in D : \A n \in Names : h[d].popup = n => K[d].popup = n
    /\ \A d \in D : \/ Queue(t, d) = Queue(s, d)
                     \/ \E m \in Message : m.type # "Invite" /\ Queue(t, d) = Append(Queue(s, d), m)
    /\ \A n \in D : \A d \in Sockets : \A i :
           Holds(K[d], Queue(s, d), i, n) => ~Holds(h[d], Queue(t, d), i, n)

(* Then the invitations stay right. *)
LEMMA InvitesSettled ==
    ASSUME NEW s, NEW K, NEW t, NEW h, NEW D, Settled(s, K, t, h, D)
    PROVE  InvitesOK(t, h)
<1>0. ServerType(s) /\ InvitesOK(s, K)
  BY DEF Settled
<1>1. ASSUME NEW n \in Names, NEW d \in Sockets, NEW i, Holds(h[d], Queue(t, d), i, n)
      PROVE  Holds(K[d], Queue(s, d), i, n) /\ Asks(h[n], Queue(t, n))
  <2>1. Holds(K[d], Queue(s, d), i, n)
    <3>1. CASE d \notin D
      BY <1>1, <3>1 DEF Settled
    <3>2. CASE d \in D
      <4>1. Holds(K[d], Queue(t, d), i, n)
        BY <1>1, <3>2 DEF Holds, Settled
      <4>2. CASE Queue(t, d) = Queue(s, d)
        BY <4>1, <4>2
      <4>3. ASSUME NEW m \in Message, m.type # "Invite", Queue(t, d) = Append(Queue(s, d), m)
            PROVE  Holds(K[d], Queue(s, d), i, n)
        <5>1. m # Invite(n) /\ Queue(s, d) \in Seq(Message)
          BY <1>0, <4>3, Kinds, QueueType
        <5> QED
          BY <4>1, <4>3, <5>1, HoldsAppend
      <4> QED
        BY <3>2, <4>2, <4>3 DEF Settled
    <3> QED
      BY <3>1, <3>2
  <2>2. Asks(K[n], Queue(s, n))
    BY <1>0, <2>1, InvitesAre
  <2>3. n \notin D /\ n \in Sockets
    BY <1>1, <2>1, GameAssumption DEF Settled
  <2> QED
    BY <2>1, <2>2, <2>3 DEF Settled
<1> QED
  BY <1>0, <1>1, InvitesKept

(* The state of the one who invites.                                       *)
Inviting(s, c, K, h) ==
    /\ ServerOK(s) /\ ClientsOK(s, K) /\ K \in [Sockets -> Client] /\ h \in [Sockets -> Client]
    /\ K[c].page = "main" /\ ~K[c].waiting /\ K[c].popup = Null
    /\ h[c] = [K[c] EXCEPT !.waiting = TRUE]
    /\ \A d \in Sockets : d # c => h[d] = K[d]

(* What is known of the one who invites: he has no invitation open. *)
LEMMA InvitingIs ==
    ASSUME NEW s, NEW c \in Sockets, NEW K, NEW h, Inviting(s, c, K, h)
    PROVE  /\ ServerType(s) /\ K[c] \in Client /\ h[c] \in Client /\ h[c].page = "main" /\ h[c].waiting
           /\ h[c].popup = Null /\ h[c].session = K[c].session /\ h[c].isA = K[c].isA
           /\ Queue(s, c) \in Seq(Message) /\ NoAnswer(Queue(s, c))
           /\ ClientAt(s, c, K[c], Queue(s, c)) /\ ClientAt(s, c, h[c], Queue(s, c))
           /\ \A d \in Sockets : \A i : ~Holds(K[d], Queue(s, d), i, c)
           /\ K[c].session <=> LoggedIn(s, c)
<1>1. ServerType(s) /\ K[c] \in Client /\ Queue(s, c) \in Seq(Message) /\ InvitesOK(s, K)
      /\ ClientAt(s, c, K[c], Queue(s, c))
  BY QueueType DEF Inviting, ServerOK, ClientsOK
<1>2. NoAnswer(Queue(s, c))
  BY <1>1, AnswerNone DEF ClientAt, Inviting
<1>3. /\ h[c] \in Client /\ h[c].page = "main" /\ h[c].waiting
      /\ h[c].popup = Null /\ h[c].session = K[c].session /\ h[c].isA = K[c].isA
      /\ K[c].page = "main"
  BY <1>1 DEF Inviting, Client
<1>4. Alike(s, s, c)
  BY DEF Alike
<1>5. ClientAt(s, c, h[c], Queue(s, c))
  BY <1>1, <1>2, <1>3, <1>4, ClientActs
<1>6. ASSUME NEW d \in Sockets, NEW i, Holds(K[d], Queue(s, d), i, c) PROVE FALSE
  <2>1. c \in Names
    BY GameAssumption
  <2>2. Asks(K[c], Queue(s, c))
    BY <1>1, <1>6, <2>1, InvitesAre
  <2> QED
    BY <2>2 DEF Asks, Inviting
<1> QED
  BY <1>1, <1>2, <1>3, <1>5, <1>6 DEF ClientAt

(* The server ignores the invitation, *)
LEMMA InviteNothing ==
    ASSUME NEW s, NEW c \in Sockets, NEW K, NEW h, Inviting(s, c, K, h)
    PROVE  LobbyStep(s, s) /\ ClientsOK(s, h)
<1>1. ServerOK(s) /\ ServerType(s) /\ InvitesOK(s, K)
  BY DEF Inviting, ClientsOK, ServerOK
<1>2. LobbyStep(s, s)
  BY <1>1, FineSelf DEF Fine
<1>3. \A d \in Sockets : ClientAt(s, d, h[d], Queue(s, d))
  BY InvitingIs DEF Inviting, ClientsOK
<1>4. \A n \in Names : h[c].popup # n
  BY InvitingIs, ServerAssumption
<1>5. ~Asks(K[c], Queue(s, c)) /\ \A d \in Sockets : d # c => h[d] = K[d]
  BY DEF Asks, Inviting
<1>6. InvitesOK(s, h)
  BY <1>1, <1>4, <1>5, InvitesOneClient
<1> QED
  BY <1>2, <1>3, <1>6 DEF ClientsOK

(* refuses it, *)
LEMMA InviteRefused ==
    ASSUME NEW s, NEW c \in Sockets, NEW K, NEW h, Inviting(s, c, K, h), LoggedIn(s, c)
    PROVE  LET t == Reply(s, c, NoStart) IN ServerOK(t) /\ LobbyStep(s, t) /\ ClientsOK(t, h)
<1> DEFINE t == Reply(s, c, NoStart)
<1>1. ServerOK(s) /\ ServerType(s) /\ InvitesOK(s, K) /\ NoStart \in Message /\ NoStart.type = "NoStart"
  BY Kinds DEF Inviting, ClientsOK, ServerOK
<1>2. /\ ServerOK(t)
      /\ \A d \in Sockets : Queue(t, d) = IF d = c THEN Append(Queue(s, d), NoStart) ELSE Queue(s, d)
      /\ \A d : Alike(s, t, d)
      /\ \A d, x, v : Fight(t, d, x, v) <=> Fight(s, d, x, v)
  BY <1>1, ToldIs
<1> HIDE DEF t
<1>3. ClientAt(t, c, h[c], Append(Queue(s, c), NoStart))
  <2>1. /\ h[c] \in Client /\ h[c].session /\ h[c].waiting /\ h[c].page = "main"
        /\ Queue(s, c) \in Seq(Message) /\ NoAnswer(Queue(s, c)) /\ ClientAt(s, c, h[c], Queue(s, c))
    BY InvitingIs
  <2>2. AnswerAt(h[c], Append(Queue(s, c), NoStart))
    BY <1>1, <2>1, AnswerFirst
  <2> QED
    BY <1>1, <1>2, <2>1, <2>2, ClientTold
<1>4. ASSUME NEW d \in Sockets PROVE ClientAt(t, d, h[d], Queue(t, d))
  <2>1. CASE d = c
    BY <1>2, <1>3, <2>1
  <2>2. CASE d # c
    <3>1. h[d] = K[d] /\ Queue(t, d) = Queue(s, d) /\ ClientAt(s, d, K[d], Queue(s, d))
      BY <1>2, <2>2 DEF Inviting, ClientsOK
    <3> QED
      BY <1>2, <3>1, ClientSame
  <2> QED
    BY <2>1, <2>2
<1>5. Settled(s, K, t, h, {c})
  <2>1. \A d \in Sockets : d \notin {c} => Queue(t, d) = Queue(s, d) /\ h[d] = K[d]
    BY <1>2 DEF Inviting
  <2>2. h[c].popup = Null /\ K[c].popup = Null
    BY InvitingIs DEF Inviting
  <2>3. \A d \in Sockets : \A i : ~Holds(K[d], Queue(s, d), i, c)
    BY InvitingIs
  <2> QED
    BY <1>1, <1>2, <2>1, <2>2, <2>3 DEF Settled
<1>6. InvitesOK(t, h)
  BY <1>5, InvitesSettled
<1> QED
  BY <1>2, <1>4, <1>6 DEF ClientsOK, LobbyStep, SameFights, t

(* starts the battle against itself, *)
LEMMA InviteStart ==
    ASSUME NEW s, NEW c \in Sockets, NEW K, NEW h, Inviting(s, c, K, h),
           NEW a \in Online(s), Name(s, a) = c
    PROVE  LET t == Reply(StartBattle(s, a, Null), c, Start(1))
           IN  ServerOK(t) /\ LobbyStep(s, t) /\ ClientsOK(t, h)
<1> DEFINE u == StartBattle(s, a, Null)
           m == Start(1)
           t == Reply(u, c, m)
<1>1. ServerOK(s) /\ ServerType(s) /\ InvitesOK(s, K) /\ m \in Message /\ m.type = "Start" /\ m.isA = 1
  BY Kinds DEF Inviting, ClientsOK, ServerOK
<1>2. /\ h[c] \in Client /\ h[c].session /\ h[c].waiting /\ h[c].page = "main" /\ K[c] \in Client
      /\ K[c].session /\ K[c].page = "main"
      /\ Queue(s, c) \in Seq(Message) /\ NoAnswer(Queue(s, c)) /\ ClientAt(s, c, K[c], Queue(s, c))
      /\ ClientAt(s, c, h[c], Queue(s, c))
  <2>1. LoggedIn(s, c)
    BY DEF LoggedIn
  <2>2. /\ h[c] \in Client /\ h[c].session = K[c].session /\ h[c].waiting /\ h[c].page = "main"
        /\ K[c] \in Client /\ (K[c].session <=> LoggedIn(s, c))
        /\ Queue(s, c) \in Seq(Message) /\ NoAnswer(Queue(s, c)) /\ ClientAt(s, c, K[c], Queue(s, c))
        /\ ClientAt(s, c, h[c], Queue(s, c))
    BY InvitingIs
  <2>3. K[c].page = "main"
    BY DEF Inviting
  <2> QED
    BY <2>1, <2>2, <2>3
<1>3. \A x \in {0, 1} : ~Plays(s, c, x)
  BY <1>2, ClientFree
<1>4. a # Null
  BY <1>1, OnlineIs, ServerAssumption
<1>5. /\ ServerOK(u) /\ \A d \in Sockets : Queue(u, d) = Queue(s, d)
      /\ \A d : LoggedIn(u, d) <=> LoggedIn(s, d)
      /\ \A d, x, v : Fight(u, d, x, v) <=> Fight(s, d, x, v) \/ (x = 1 /\ d = c /\ v = Server)
  <2> DEFINE b == Null
  <2>1. b \in Online(s) \cup {Null} /\ a # b /\ (b # Null => \A x \in {0, 1} : ~Plays(s, Name(s, b), x))
        /\ \A x \in {0, 1} : ~Plays(s, Name(s, a), x)
    BY <1>3, <1>4
  <2>2. LET y == StartBattle(s, a, b)
        IN /\ ServerOK(y) /\ \A d \in Sockets : Queue(y, d) = Queue(s, d)
           /\ \A d : LoggedIn(y, d) <=> LoggedIn(s, d)
           /\ \A d, x, v : Fight(y, d, x, v) <=>
                     \/ Fight(s, d, x, v)
                     \/ x = 1 /\ d = Name(s, a) /\ v = IF b = Null THEN Server ELSE Name(s, b)
                     \/ x # 1 /\ b # Null /\ d = Name(s, b) /\ v = Name(s, a)
    <3> HIDE DEF b
    <3> QED
      BY <1>1, <2>1, BeginIs
  <2> HIDE DEF u
  <2> QED
    BY <2>2 DEF u
<1> HIDE DEF u, m
<1>6. /\ ServerOK(t)
      /\ \A d \in Sockets : Queue(t, d) = IF d = c THEN Append(Queue(u, d), m) ELSE Queue(u, d)
      /\ \A d : LoggedIn(t, d) <=> LoggedIn(u, d)
      /\ \A d, x, v : Fight(t, d, x, v) <=> Fight(u, d, x, v)
  BY <1>1, <1>5, ToldIs
<1> HIDE DEF t
<1>7. /\ \A d \in Sockets : Queue(t, d) = IF d = c THEN Append(Queue(s, d), m) ELSE Queue(s, d)
      /\ \A d : LoggedIn(t, d) <=> LoggedIn(s, d)
      /\ \A d, x, v : Fight(t, d, x, v) <=> Fight(s, d, x, v) \/ (x = 1 /\ d = c /\ v = Server)
  BY <1>5, <1>6
<1>8. Plays(t, c, 1) /\ ~Plays(t, c, 0)
  BY <1>3, <1>7 DEF Plays
<1>9. ClientAt(t, c, h[c], Append(Queue(s, c), m))
  <2>1. LoggedIn(t, c) <=> LoggedIn(s, c)
    BY <1>7
  <2>2. ~Plays(t, c, 1 - 1) /\ 1 \in {0, 1}
    BY <1>8
  <2> QED
    BY <1>2, <1>8, <2>1, <2>2, ClientStart DEF m
<1>10. ASSUME NEW d \in Sockets PROVE ClientAt(t, d, h[d], Queue(t, d))
  <2>1. CASE d = c
    BY <1>7, <1>9, <2>1
  <2>2. CASE d # c
    <3>1. h[d] = K[d] /\ Queue(t, d) = Queue(s, d) /\ ClientAt(s, d, K[d], Queue(s, d))
      BY <1>7, <2>2 DEF Inviting, ClientsOK
    <3>2. Alike(s, t, d)
      BY <1>7, <2>2 DEF Alike, Plays
    <3> QED
      BY <3>1, <3>2, ClientSame
  <2> QED
    BY <2>1, <2>2
<1>11. Settled(s, K, t, h, {c})
  <2>1. \A d \in Sockets : d \notin {c} => Queue(t, d) = Queue(s, d) /\ h[d] = K[d]
    BY <1>7 DEF Inviting
  <2>2. h[c].popup = Null /\ K[c].popup = Null
    BY InvitingIs DEF Inviting
  <2>3. \A d \in Sockets : \A i : ~Holds(K[d], Queue(s, d), i, c)
    BY InvitingIs
  <2> QED
    BY <1>1, <1>7, <2>1, <2>2, <2>3 DEF Settled
<1>12. InvitesOK(t, h)
  BY <1>11, InvitesSettled
<1>13. LobbyStep(s, t)
  <2>1. c \in Names /\ Server \in (Names \cup {Server}) \ {c} /\ Server \notin Names
    BY GameAssumption, ServerAssumption
  <2>2. ~Fighting(s, c)
    BY <1>3 DEF Fighting
  <2>3. Began(s, t, c, Server)
    <3>1. ASSUME NEW d \in Names, NEW x \in {0, 1}, NEW v \in Names \cup {Server}
          PROVE  (Fight(t, d, x, v) <=> (Fight(s, d, x, v) \/ (d = c /\ x = 1 /\ v = Server)
                                              \/ (d = Server /\ x = 0 /\ v = c)))
      BY <1>7, <2>1
    <3>2. Server \in Names => ~Fighting(s, Server)
      BY <2>1
    <3>3. \A d \in Names, x \in {0, 1}, v \in Names \cup {Server} :
             (Fight(t, d, x, v) <=> (Fight(s, d, x, v) \/ (d = c /\ x = 1 /\ v = Server)
                                              \/ (d = Server /\ x = 0 /\ v = c)))
      BY <3>1
    <3> QED
      BY <2>2, <3>2, <3>3 DEF Began
  <2> QED
    BY <2>1, <2>3 DEF LobbyStep
<1> QED
  BY <1>6, <1>10, <1>12, <1>13 DEF ClientsOK, t, u, m

(* or passes the invitation on. *)
LEMMA InvitePassed ==
    ASSUME NEW s, NEW c \in Sockets, NEW K, NEW h, Inviting(s, c, K, h), LoggedIn(s, c),
           NEW e \in Names, LoggedIn(s, e)
    PROVE  LET t == Reply(s, e, Invite(c))
           IN  ServerOK(t) /\ LobbyStep(s, t) /\ ClientsOK(t, h)
<1> DEFINE m == Invite(c)
           t == Reply(s, e, m)
<1>1. ServerOK(s) /\ ServerType(s) /\ InvitesOK(s, K) /\ m \in Message /\ m.type = "Invite"
      /\ e \in Sockets /\ c \in Names /\ m.type \notin Answers /\ \A n : m = Invite(n) => n = c
  BY Kinds, GameAssumption DEF Inviting, ClientsOK, ServerOK, Answers
<1> HIDE DEF m
<1>2. /\ ServerOK(t)
      /\ \A d \in Sockets : Queue(t, d) = IF d = e THEN Append(Queue(s, d), m) ELSE Queue(s, d)
      /\ \A d : Alike(s, t, d)
      /\ \A d, x, v : Fight(t, d, x, v) <=> Fight(s, d, x, v)
  BY <1>1, ToldIs
<1> HIDE DEF t
<1>3. ASSUME NEW d \in Sockets
      PROVE  /\ h[d] \in Client /\ Queue(s, d) \in Seq(Message) /\ ClientAt(s, d, h[d], Queue(s, d))
             /\ h[d].popup = K[d].popup
             /\ h[d].session = K[d].session /\ (d # c => h[d] = K[d])
  <2>1. CASE d = c
    BY <2>1, InvitingIs DEF Inviting
  <2>2. CASE d # c
    BY <1>1, <2>2, QueueType DEF Inviting, ClientsOK
  <2> QED
    BY <2>1, <2>2
<1>4. ASSUME NEW d \in Sockets PROVE ClientAt(t, d, h[d], Queue(t, d))
  <2>1. CASE d = e
    <3>1. h[d].session
      BY <1>3, <2>1 DEF ClientAt
    <3>2. AnswerAt(h[d], Append(Queue(s, d), m))
      BY <1>1, <1>3, AnswerAppend DEF ClientAt
    <3>3. ClientAt(t, d, h[d], Append(Queue(s, d), m))
      BY <1>1, <1>2, <1>3, <3>1, <3>2, ClientTold
    <3> QED
      BY <1>2, <2>1, <3>3
  <2>2. CASE d # e
    BY <1>2, <1>3, <2>2, ClientSame
  <2> QED
    BY <2>1, <2>2
<1>5. \A d \in Sockets : \A i : ~Holds(K[d], Queue(s, d), i, c)
  BY InvitingIs
<1>6. ASSUME NEW n \in Names, NEW d \in Sockets, NEW i \in Nat, Holds(h[d], Queue(t, d), i, n)
      PROVE  \/ Holds(K[d], Queue(s, d), i, n)
             \/ n = c /\ d = e /\ i = Len(Queue(s, e)) + 1
  <2>1. Holds(K[d], Queue(t, d), i, n)
    BY <1>3, <1>6 DEF Holds
  <2>2. CASE d = e
    <3>1. Holds(K[d], Append(Queue(s, d), m), i, n)
      BY <1>2, <2>1, <2>2
    <3>2. Holds(K[d], Queue(s, d), i, n) \/ (m = Invite(n) /\ i = Len(Queue(s, d)) + 1)
      BY <1>1, <1>3, <3>1, HoldsAppend
    <3> QED
      BY <1>1, <2>2, <3>2
  <2>3. CASE d # e
    BY <1>2, <2>1, <2>3
  <2> QED
    BY <2>2, <2>3
<1>7. ASSUME NEW n \in Names, Asks(h[n], Queue(s, n)) PROVE Asks(h[n], Queue(t, n))
  <2>1. n \in Sockets
    BY GameAssumption
  <2>2. h[n] \in Client /\ Queue(s, n) \in Seq(Message)
    BY <1>3, <2>1
  <2>3. Asks(h[n], Append(Queue(s, n), m))
    BY <1>1, <1>7, <2>2, AsksKept
  <2> QED
    BY <1>2, <1>7, <2>1, <2>3
<1>8. ASSUME NEW n \in Names, NEW d \in Sockets, NEW f \in Sockets,
             NEW i \in 0 .. Len(Queue(t, d)), NEW j \in 0 .. Len(Queue(t, f)),
             Holds(h[d], Queue(t, d), i, n)
      PROVE  /\ Asks(h[n], Queue(t, n))
             /\ Holds(h[f], Queue(t, f), j, n) => d = f /\ i = j
  <2>1. CASE n = c
    <3>1. d = e /\ i = Len(Queue(s, e)) + 1
      <4>1. ~Holds(K[d], Queue(s, d), i, n)
        BY <1>5, <2>1
      <4> QED
        BY <1>6, <1>8, <4>1
    <3>2. ASSUME Holds(h[f], Queue(t, f), j, n) PROVE f = e /\ j = Len(Queue(s, e)) + 1
      <4>1. ~Holds(K[f], Queue(s, f), j, n)
        BY <1>5, <2>1
      <4> QED
        BY <1>6, <3>2, <4>1
    <3>3. Asks(h[c], Queue(s, c))
      BY InvitingIs DEF Asks
    <3> QED
      BY <1>7, <2>1, <3>1, <3>2, <3>3
  <2>2. CASE n # c
    <3>1. Holds(K[d], Queue(s, d), i, n)
      BY <1>6, <1>8, <2>2
    <3>2. Asks(K[n], Queue(s, n))
      BY <1>1, <3>1, InvitesAre
    <3>3. h[n] = K[n]
      BY <1>3, <2>2, GameAssumption
    <3>4. Asks(h[n], Queue(t, n))
      BY <1>7, <3>2, <3>3
    <3>5. ASSUME Holds(h[f], Queue(t, f), j, n) PROVE d = f /\ i = j
      <4>1. Holds(K[f], Queue(s, f), j, n)
        BY <1>6, <2>2, <3>5
      <4> QED
        BY <1>1, <3>1, <4>1, InvitesAre
    <3> QED
      BY <3>4, <3>5
  <2> QED
    BY <2>1, <2>2
<1>9. InvitesOK(t, h)
  BY <1>8 DEF InvitesOK
<1> QED
  BY <1>2, <1>4, <1>9 DEF ClientsOK, LobbyStep, SameFights, t, m

(* An invitation keeps the invariant. *)
LEMMA InviteKeeps ==
    ASSUME NEW c \in Sockets, NEW dest \in Names \cup {Server}, IInv, InviteTo(c, dest)
    PROVE  IInv' /\ LobbyStep(server, server')
<1> DEFINE f == [client[c] EXCEPT !.waiting = TRUE]
           a == FirstUser(server, c)
           b == FirstUser(server, dest)
<1>1. client \in [Sockets -> Client] /\ ServerOK(server) /\ ClientsOK(server, client)
      /\ client[c] \in Client
  BY DEF IInv, InviteTo, On
<1>2. f \in Client
  BY <1>1 DEF Client
<1>3. client' = [client EXCEPT ![c] = f]
  BY <1>1 DEF InviteTo
<1>4. /\ client' \in [Sockets -> Client] /\ client'[c] = f
      /\ \A d \in Sockets : d # c => client'[d] = client[d]
  <2> HIDE DEF f
  <2> QED
    BY <1>1, <1>2, <1>3, OneClient
<1>5. Inviting(server, c, client, client')
  BY <1>1, <1>4 DEF Inviting, InviteTo, On
<1>6. /\ a = Null \/ (a \in Online(server) /\ Name(server, a) = c)
      /\ b = Null \/ (b \in Online(server) /\ Name(server, b) = dest)
  <2>1. a = Null \/ (a \in Online(server) /\ Name(server, a) = c)
    BY <1>1, FirstUserIs
  <2>2. b = Null \/ (b \in Online(server) /\ Name(server, b) = dest)
    BY <1>1, FirstUserIs
  <2> QED
    BY <2>1, <2>2
<1>7. server' = BattleInvite(server, c, c, dest)
  BY DEF InviteTo
<1> HIDE DEF a, b
<1>8. \/ server' = server
      \/ a # Null /\ server' = Reply(StartBattle(server, a, Null), c, Start(1))
      \/ a # Null /\ b # Null /\ dest # Server /\ server' = Send(server, b, Invite(c))
      \/ a # Null /\ server' = Reply(server, c, NoStart)
  BY <1>7 DEF BattleInvite, MayFight, a, b
<1>9. CASE server' = server
  BY <1>1, <1>4, <1>5, <1>9, InviteNothing DEF IInv
<1>10. CASE a # Null /\ server' = Reply(StartBattle(server, a, Null), c, Start(1))
  <2>1. ServerOK(server') /\ LobbyStep(server, server') /\ ClientsOK(server', client')
    BY <1>5, <1>6, <1>10, InviteStart
  <2> QED
    BY <1>4, <2>1 DEF IInv
<1>11. CASE a # Null /\ b # Null /\ dest # Server /\ server' = Send(server, b, Invite(c))
  <2>1. Invite(c) \in Message
    BY Kinds, GameAssumption
  <2>2. dest \in Names /\ server' = Reply(server, dest, Invite(c))
    BY <1>1, <1>6, <1>11, <2>1, SendIs
  <2>3. LoggedIn(server, c) /\ LoggedIn(server, dest)
    BY <1>6, <1>11 DEF LoggedIn
  <2>4. ServerOK(server') /\ LobbyStep(server, server') /\ ClientsOK(server', client')
    BY <1>5, <2>2, <2>3, InvitePassed
  <2> QED
    BY <1>4, <2>4 DEF IInv
<1>12. CASE a # Null /\ server' = Reply(server, c, NoStart)
  <2>1. LoggedIn(server, c)
    BY <1>6, <1>12 DEF LoggedIn
  <2>2. ServerOK(server') /\ LobbyStep(server, server') /\ ClientsOK(server', client')
    BY <1>5, <1>12, <2>1, InviteRefused
  <2> QED
    BY <1>4, <2>2 DEF IInv
<1> QED
  BY <1>8, <1>9, <1>10, <1>11, <1>12

-----------------------------------------------------------------------------
(* Accept and Refuse. *)

(* The state of the one who answers the invitation of n.                   *)
Answering(s, c, n, K, h) ==
    /\ ServerOK(s) /\ ClientsOK(s, K) /\ K \in [Sockets -> Client] /\ h \in [Sockets -> Client]
    /\ K[c].page = "main" /\ ~K[c].waiting /\ K[c].popup = n /\ n \in Names
    /\ h[c].page = "main" /\ h[c].popup = Null
    /\ h[c].session = K[c].session /\ h[c].isA = K[c].isA
    /\ \A d \in Sockets : d # c => h[d] = K[d]

(* What is known of the one who answers: the invitation is the only one of *)
(* n, who still waits, and none of his own is open.                        *)
LEMMA AnsweringIs ==
    ASSUME NEW s, NEW c \in Sockets, NEW n, NEW K, NEW h, Answering(s, c, n, K, h)
    PROVE  /\ ServerType(s) /\ K[c] \in Client /\ h[c] \in Client
           /\ Queue(s, c) \in Seq(Message) /\ NoAnswer(Queue(s, c))
           /\ ClientAt(s, c, K[c], Queue(s, c)) /\ ClientAt(s, c, h[c], Queue(s, c))
           /\ K[c].session <=> LoggedIn(s, c)
           /\ n \in Sockets /\ n # c /\ K[n] \in Client /\ h[n] = K[n] /\ Asks(K[n], Queue(s, n))
           /\ Queue(s, n) \in Seq(Message) /\ ClientAt(s, n, K[n], Queue(s, n)) /\ LoggedIn(s, n)
           /\ \A d \in Sockets : \A i : ~Holds(K[d], Queue(s, d), i, c)
           /\ \A d \in Sockets : \A i : Holds(K[d], Queue(s, d), i, n) => d = c /\ i = 0
<1>1. ServerType(s) /\ K[c] \in Client /\ h[c] \in Client /\ Queue(s, c) \in Seq(Message)
      /\ InvitesOK(s, K) /\ ClientAt(s, c, K[c], Queue(s, c))
  BY QueueType DEF Answering, ServerOK, ClientsOK
<1>2. NoAnswer(Queue(s, c))
  BY <1>1, AnswerNone DEF ClientAt, Answering
<1>3. ClientAt(s, c, h[c], Queue(s, c))
  <2>1. Alike(s, s, c)
    BY DEF Alike
  <2>2. h[c].page = K[c].page /\ h[c].isA = K[c].isA /\ h[c].session = K[c].session
    BY DEF Answering
  <2> QED
    BY <1>1, <1>2, <2>1, <2>2, ClientActs
<1>4. Holds(K[c], Queue(s, c), 0, n) /\ n \in Names
  BY DEF Holds, Answering
<1>5. Asks(K[n], Queue(s, n))
  BY <1>1, <1>4, InvitesAre
<1>6. n \in Sockets /\ n # c
  BY <1>4, <1>5, GameAssumption DEF Asks, Answering
<1>7. K[n] \in Client /\ h[n] = K[n] /\ Queue(s, n) \in Seq(Message)
      /\ ClientAt(s, n, K[n], Queue(s, n))
  BY <1>1, <1>6, QueueType DEF Answering, ClientsOK
<1>8. LoggedIn(s, n)
  BY <1>5, <1>7 DEF Asks, ClientAt
<1>9. ASSUME NEW d \in Sockets, NEW i, Holds(K[d], Queue(s, d), i, c) PROVE FALSE
  <2>1. c \in Names
    BY GameAssumption
  <2>2. Asks(K[c], Queue(s, c))
    BY <1>1, <1>9, <2>1, InvitesAre
  <2> QED
    BY <2>2 DEF Asks, Answering
<1>10. ASSUME NEW d \in Sockets, NEW i, Holds(K[d], Queue(s, d), i, n) PROVE d = c /\ i = 0
  BY <1>1, <1>4, <1>10, InvitesAre
<1> QED
  BY <1>1, <1>2, <1>3, <1>5, <1>6, <1>7, <1>8, <1>9, <1>10 DEF ClientAt

(* Then the invitations stay right. *)
LEMMA AnsweredInvites ==
    ASSUME NEW s, NEW c \in Sockets, NEW n, NEW K, NEW h, Answering(s, c, n, K, h), NEW t,
           \A d \in Sockets : \/ Queue(t, d) = Queue(s, d)
                              \/ /\ d \in {c, n}
                                 /\ \E m \in Message : m.type # "Invite" /\ Queue(t, d) = Append(Queue(s, d), m)
    PROVE  InvitesOK(t, h)
<1>1. /\ ServerType(s) /\ n \in Sockets /\ n # c /\ h[n] = K[n]
      /\ \A d \in Sockets : \A i : ~Holds(K[d], Queue(s, d), i, c)
      /\ \A d \in Sockets : \A i : Holds(K[d], Queue(s, d), i, n) => d = c /\ i = 0
  <2>1. /\ ServerType(s) /\ n \in Sockets /\ n # c /\ h[n] = K[n]
    BY AnsweringIs
  <2>2. \A d \in Sockets : \A i : ~Holds(K[d], Queue(s, d), i, c)
    BY AnsweringIs
  <2>3. \A d \in Sockets : \A i : Holds(K[d], Queue(s, d), i, n) => d = c /\ i = 0
    <3> SUFFICES ASSUME NEW d \in Sockets, NEW i, Holds(K[d], Queue(s, d), i, n)
                 PROVE  d = c /\ i = 0
      OBVIOUS
    <3>1. InvitesOK(s, K) /\ ServerType(s) /\ n \in Names /\ Holds(K[c], Queue(s, c), 0, n)
      BY <2>1 DEF Answering, ClientsOK, Holds
    <3> QED
      BY <3>1, InvitesAre
  <2> QED
    BY <2>1, <2>2, <2>3
<1>2. InvitesOK(s, K) /\ h[c].popup = Null /\ n \in Names /\ \A d \in Sockets : d # c => h[d] = K[d]
  BY DEF Answering, ClientsOK
<1>3. \A m \in Names : h[c].popup # m
  BY <1>2, ServerAssumption
<1>4. ~Holds(h[c], Queue(t, c), 0, n)
  BY <1>2, <1>3 DEF Holds
<1>5. \A m \in {c, n} : \A d \in Sockets : \A i :
          Holds(K[d], Queue(s, d), i, m) => ~Holds(h[d], Queue(t, d), i, m)
  BY <1>1, <1>4
<1>6. \A d \in {c, n} : \A m \in Names : h[d].popup = m => K[d].popup = m
  BY <1>1, <1>3
<1>7. Settled(s, K, t, h, {c, n})
  BY <1>1, <1>2, <1>5, <1>6 DEF Settled
<1> QED
  BY <1>7, InvitesSettled

(* The player who answers is no longer known to the server.                *)
LEMMA AnswerNothing ==
    ASSUME NEW s, NEW c \in Sockets, NEW n, NEW K, NEW h, Answering(s, c, n, K, h)
    PROVE  LobbyStep(s, s) /\ ClientsOK(s, h)
<1>1. LobbyStep(s, s)
  BY FineSelf DEF Fine, Answering
<1>2. \A d \in Sockets : ClientAt(s, d, h[d], Queue(s, d))
  BY AnsweringIs DEF Answering, ClientsOK
<1>3. InvitesOK(s, h)
  BY AnsweredInvites
<1> QED
  BY <1>1, <1>2, <1>3 DEF ClientsOK

(* He refuses: the other is told. *)
LEMMA AnswerRefused ==
    ASSUME NEW s, NEW c \in Sockets, NEW n, NEW K, NEW h, Answering(s, c, n, K, h)
    PROVE  LET t == Reply(s, n, NoStart) IN ServerOK(t) /\ LobbyStep(s, t) /\ ClientsOK(t, h)
<1> DEFINE m == NoStart
           t == Reply(s, n, m)
<1>1. /\ m \in Message /\ m.type = "NoStart" /\ ServerOK(s)
  BY Kinds DEF Answering
<1>2. /\ ServerType(s) /\ h[c] \in Client /\ ClientAt(s, c, h[c], Queue(s, c))
      /\ n \in Sockets /\ n # c /\ K[n] \in Client /\ h[n] = K[n] /\ Asks(K[n], Queue(s, n))
      /\ Queue(s, n) \in Seq(Message) /\ ClientAt(s, n, K[n], Queue(s, n))
  BY AnsweringIs
<1> HIDE DEF m
<1>3. /\ ServerOK(t)
      /\ \A d \in Sockets : Queue(t, d) = IF d = n THEN Append(Queue(s, d), m) ELSE Queue(s, d)
      /\ \A d : Alike(s, t, d)
      /\ \A d, x, v : Fight(t, d, x, v) <=> Fight(s, d, x, v)
  BY <1>1, <1>2, ToldIs
<1> HIDE DEF t
<1>4. ClientAt(t, n, K[n], Append(Queue(s, n), m))
  <2>1. /\ K[n].session /\ K[n].waiting /\ K[n].page = "main" /\ NoAnswer(Queue(s, n))
    BY <1>2 DEF Asks
  <2>2. AnswerAt(K[n], Append(Queue(s, n), m))
    BY <1>1, <1>2, <2>1, AnswerFirst
  <2> QED
    BY <1>1, <1>2, <1>3, <2>1, <2>2, ClientTold
<1>5. ASSUME NEW d \in Sockets PROVE ClientAt(t, d, h[d], Queue(t, d))
  <2>1. CASE d = n
    BY <1>2, <1>3, <1>4, <2>1
  <2>2. CASE d # n
    <3>1. ClientAt(s, d, h[d], Queue(s, d))
      BY <1>2 DEF Answering, ClientsOK
    <3> QED
      BY <1>3, <2>2, <3>1, ClientSame
  <2> QED
    BY <2>1, <2>2
<1>6. InvitesOK(t, h)
  <2>1. \A d \in Sockets : \/ Queue(t, d) = Queue(s, d)
                           \/ /\ d \in {c, n}
                              /\ \E k \in Message : k.type # "Invite" /\ Queue(t, d) = Append(Queue(s, d), k)
    BY <1>1, <1>3
  <2> QED
    BY <2>1, AnsweredInvites
<1> QED
  BY <1>3, <1>5, <1>6 DEF ClientsOK, LobbyStep, SameFights, t, m

(* Both sides of an accepted invitation.                                   *)
LEMMA AnswerStart ==
    ASSUME NEW s, NEW c \in Sockets, NEW n, NEW K, NEW h, Answering(s, c, n, K, h), h[c].waiting,
           NEW a \in Online(s), NEW b \in Online(s), Name(s, a) = n, Name(s, b) = c
    PROVE  LET t == Send(Send(StartBattle(s, a, b), a, Start(1)), b, Start(0))
           IN  ServerOK(t) /\ LobbyStep(s, t) /\ ClientsOK(t, h)
<1> DEFINE u == StartBattle(s, a, b)
           m1 == Start(1)
           m0 == Start(0)
           w == Reply(u, n, m1)
           t == Reply(w, c, m0)
<1>1. /\ m1 \in Message /\ m1.type = "Start" /\ m0 \in Message /\ m0.type = "Start" /\ ServerOK(s)
  BY Kinds DEF Answering
<1>2. /\ ServerType(s) /\ h[c] \in Client /\ K[c] \in Client
      /\ ClientAt(s, c, K[c], Queue(s, c)) /\ ClientAt(s, c, h[c], Queue(s, c))
      /\ Queue(s, c) \in Seq(Message) /\ NoAnswer(Queue(s, c))
      /\ n \in Sockets /\ n # c /\ K[n] \in Client /\ h[n] = K[n] /\ Asks(K[n], Queue(s, n))
      /\ Queue(s, n) \in Seq(Message) /\ ClientAt(s, n, K[n], Queue(s, n))
  BY AnsweringIs
<1>3. /\ K[n].session /\ K[n].waiting /\ K[n].page = "main" /\ NoAnswer(Queue(s, n))
  BY <1>2 DEF Asks
<1>4. h[c].session /\ K[c].session /\ K[c].page = "main" /\ h[c].page = "main" /\ n \in Names /\ c \in Names
  <2>1. LoggedIn(s, c)
    BY DEF LoggedIn
  <2>2. K[c].session
    BY <1>2, <2>1 DEF ClientAt
  <2> QED
    BY <2>2, GameAssumption DEF Answering
<1>5. \A x \in {0, 1} : ~Plays(s, c, x) /\ ~Plays(s, n, x)
  <2>1. \A x \in {0, 1} : ~Plays(s, c, x)
    BY <1>2, <1>4, ClientFree
  <2>2. \A x \in {0, 1} : ~Plays(s, n, x)
    BY <1>2, <1>3, ClientFree
  <2> QED
    BY <2>1, <2>2
<1>6. a # b /\ b # Null /\ b \in Online(s) \cup {Null} /\ a \in Ptrs /\ b \in Ptrs
  BY <1>2, OnlineIs, ServerAssumption
<1>7. /\ ServerOK(u) /\ u.userList = s.userList
      /\ \A p \in Ptrs : u.heap[p].name = s.heap[p].name /\ u.heap[p].sock = s.heap[p].sock
      /\ \A d \in Sockets : Queue(u, d) = Queue(s, d)
      /\ \A d : LoggedIn(u, d) <=> LoggedIn(s, d)
      /\ \A d, x, v : Fight(u, d, x, v) <=>
                     \/ Fight(s, d, x, v)
                     \/ x = 1 /\ d = Name(s, a) /\ v = IF b = Null THEN Server ELSE Name(s, b)
                     \/ x # 1 /\ b # Null /\ d = Name(s, b) /\ v = Name(s, a)
  BY <1>1, <1>5, <1>6, BeginIs
<1>8. /\ a \in Online(u) /\ b \in Online(u) /\ Name(u, a) = n /\ Name(u, b) = c
  BY <1>6, <1>7 DEF Online, Name
<1> HIDE DEF u, m1, m0
<1>9. Send(u, a, m1) = w
  BY <1>1, <1>7, <1>8, SendIs
<1>10. /\ ServerOK(w) /\ w.heap = u.heap /\ w.userList = u.userList
       /\ \A d \in Sockets : Queue(w, d) = IF d = n THEN Append(Queue(u, d), m1) ELSE Queue(u, d)
       /\ \A d : LoggedIn(w, d) <=> LoggedIn(u, d)
       /\ \A d, x, v : Fight(w, d, x, v) <=> Fight(u, d, x, v)
  BY <1>1, <1>2, <1>7, ToldIs
<1> HIDE DEF w
<1>11. b \in Online(w) /\ Name(w, b) = c
  BY <1>8, <1>10 DEF Online, Name
<1>12. Send(w, b, m0) = t
  BY <1>1, <1>10, <1>11, SendIs
<1>13. /\ ServerOK(t)
       /\ \A d \in Sockets : Queue(t, d) = IF d = c THEN Append(Queue(w, d), m0) ELSE Queue(w, d)
       /\ \A d : LoggedIn(t, d) <=> LoggedIn(w, d)
       /\ \A d, x, v : Fight(t, d, x, v) <=> Fight(w, d, x, v)
  BY <1>1, <1>10, ToldIs
<1> HIDE DEF t
<1>14. /\ Queue(t, c) = Append(Queue(s, c), m0) /\ Queue(t, n) = Append(Queue(s, n), m1)
       /\ \A d \in Sockets : d # c /\ d # n => Queue(t, d) = Queue(s, d)
       /\ \A d : LoggedIn(t, d) <=> LoggedIn(s, d)
       /\ \A d, x, v : Fight(t, d, x, v) <=>
             (Fight(s, d, x, v) \/ (x = 1 /\ d = n /\ v = c) \/ (x # 1 /\ d = c /\ v = n))
  BY <1>2, <1>6, <1>7, <1>10, <1>13
<1>15. Plays(t, n, 1) /\ ~Plays(t, n, 0) /\ Plays(t, c, 0) /\ ~Plays(t, c, 1)
  BY <1>2, <1>4, <1>5, <1>14 DEF Plays
<1>16. ClientAt(t, n, K[n], Append(Queue(s, n), m1))
  <2>1. LoggedIn(t, n) <=> LoggedIn(s, n)
    BY <1>14
  <2>2. ~Plays(t, n, 1 - 1) /\ 1 \in {0, 1} /\ Plays(t, n, 1)
    BY <1>15
  <2> QED
    BY <1>2, <1>3, <2>1, <2>2, ClientStart DEF m1
<1>17. ClientAt(t, c, h[c], Append(Queue(s, c), m0))
  <2>1. LoggedIn(t, c) <=> LoggedIn(s, c)
    BY <1>14
  <2>2. ~Plays(t, c, 1 - 0) /\ 0 \in {0, 1} /\ Plays(t, c, 0)
    BY <1>15
  <2> QED
    BY <1>2, <1>4, <2>1, <2>2, ClientStart DEF m0
<1>18. ASSUME NEW d \in Sockets PROVE ClientAt(t, d, h[d], Queue(t, d))
  <2>1. CASE d = n
    BY <1>2, <1>14, <1>16, <2>1
  <2>2. CASE d = c
    BY <1>14, <1>17, <2>2
  <2>3. CASE d # n /\ d # c
    <3>1. ClientAt(s, d, h[d], Queue(s, d))
      BY <2>3 DEF Answering, ClientsOK
    <3>2. Alike(s, t, d)
      BY <1>14, <2>3 DEF Alike, Plays
    <3> QED
      BY <1>14, <2>3, <3>1, <3>2, ClientSame
  <2> QED
    BY <2>1, <2>2, <2>3
<1>19. InvitesOK(t, h)
  <2>1. \A d \in Sockets : \/ Queue(t, d) = Queue(s, d)
                           \/ /\ d \in {c, n}
                              /\ \E k \in Message : k.type # "Invite" /\ Queue(t, d) = Append(Queue(s, d), k)
    BY <1>1, <1>14
  <2> QED
    BY <2>1, AnsweredInvites
<1>20. LobbyStep(s, t)
  <2>1. ~Fighting(s, n) /\ ~Fighting(s, c)
    BY <1>5 DEF Fighting
  <2>2. \A d \in Names, x \in {0, 1}, v \in Names \cup {Server} :
            (Fight(t, d, x, v) <=> (Fight(s, d, x, v) \/ (d = n /\ x = 1 /\ v = c)
                                                      \/ (d = c /\ x = 0 /\ v = n)))
    BY <1>14
  <2>3. Began(s, t, n, c)
    BY <2>1, <2>2 DEF Began
  <2>4. c \in (Names \cup {Server}) \ {n} /\ n \in Names
    BY <1>2, <1>4
  <2> QED
    BY <2>3, <2>4 DEF LobbyStep
<1> QED
  BY <1>9, <1>12, <1>13, <1>18, <1>19, <1>20 DEF ClientsOK, t, w, u, m1, m0

(* The answer to an invitation keeps the invariant. *)
LEMMA ResponseKeeps ==
    ASSUME NEW c \in Sockets, NEW n, NEW accepted \in BOOLEAN, NEW f \in Client, IInv,
           On(c, "main"), client[c].popup = n, n # Null,
           f.page = "main", f.popup = Null, accepted => f.waiting,
           f.session = client[c].session, f.isA = client[c].isA,
           server' = HandleBattleInviteResponse(server, n, c, accepted),
           client' = [client EXCEPT ![c] = f]
    PROVE  IInv' /\ LobbyStep(server, server')
<1> DEFINE a == LastUser(server, n)
           b == LastUser(server, c)
<1>1. client \in [Sockets -> Client] /\ ServerOK(server) /\ ClientsOK(server, client)
      /\ client[c] \in Client /\ client[c].page = "main" /\ ~client[c].waiting
  BY DEF IInv, On
<1>2. n \in Names
  BY <1>1 DEF Client
<1>3. /\ client' \in [Sockets -> Client] /\ client'[c] = f
      /\ \A d \in Sockets : d # c => client'[d] = client[d]
  BY <1>1, OneClient
<1>4. Answering(server, c, n, client, client')
  BY <1>1, <1>2, <1>3 DEF Answering
<1>5. n # c
  BY <1>4, AnsweringIs
<1>6. /\ a = Null \/ (a \in Online(server) /\ Name(server, a) = n)
      /\ b = Null \/ (b \in Online(server) /\ Name(server, b) = c)
  <2>1. a = Null \/ (a \in Online(server) /\ Name(server, a) = n)
    BY <1>1, LastUserIs
  <2>2. b = Null \/ (b \in Online(server) /\ Name(server, b) = c)
    BY <1>1, LastUserIs
  <2> QED
    BY <2>1, <2>2
<1> HIDE DEF a, b
<1>7. \/ server' = server
      \/ a # Null /\ b # Null /\ ~accepted /\ server' = Send(server, a, NoStart)
      \/ /\ a # Null /\ b # Null /\ accepted
         /\ server' = Send(Send(StartBattle(server, a, b), a, Start(1)), b, Start(0))
  BY <1>5 DEF HandleBattleInviteResponse, a, b
<1>8. ServerOK(server') /\ LobbyStep(server, server') /\ ClientsOK(server', client')
  <2>1. CASE server' = server
    BY <1>1, <1>4, <2>1, AnswerNothing
  <2>2. CASE a # Null /\ b # Null /\ ~accepted /\ server' = Send(server, a, NoStart)
    <3>1. NoStart \in Message
      BY Kinds
    <3>2. server' = Reply(server, n, NoStart)
      BY <1>1, <1>6, <2>2, <3>1, SendIs
    <3> QED
      BY <1>4, <3>2, AnswerRefused
  <2>3. CASE /\ a # Null /\ b # Null /\ accepted
             /\ server' = Send(Send(StartBattle(server, a, b), a, Start(1)), b, Start(0))
    <3>1. client'[c].waiting
      BY <1>3, <2>3
    <3> QED
      BY <1>4, <1>6, <2>3, <3>1, AnswerStart, ZenonT(30)
  <2> QED
    BY <1>7, <2>1, <2>2, <2>3
<1> QED
  BY <1>3, <1>8 DEF IInv

(* The answer is yes. *)
LEMMA AcceptKeeps ==
    ASSUME NEW c \in Sockets, IInv, Accept(c)
    PROVE  IInv' /\ LobbyStep(server, server')
<1> DEFINE f == [client[c] EXCEPT !.waiting = TRUE, !.popup = Null]
<1>1. client[c] \in Client /\ client \in [Sockets -> Client]
  BY DEF IInv
<1>2. /\ f \in Client /\ f.page = client[c].page /\ f.popup = Null /\ f.waiting
      /\ f.session = client[c].session /\ f.isA = client[c].isA
  BY <1>1 DEF Client
<1>3. client' = [client EXCEPT ![c] = f]
  BY <1>1 DEF Accept
<1>4. /\ On(c, "main") /\ client[c].popup # Null /\ client[c].page = "main"
      /\ server' = HandleBattleInviteResponse(server, client[c].popup, c, TRUE)
  BY DEF Accept, On
<1> HIDE DEF f
<1> QED
  BY <1>2, <1>3, <1>4, ResponseKeeps

(* The answer is no. *)
LEMMA RefuseKeeps ==
    ASSUME NEW c \in Sockets, IInv, Refuse(c)
    PROVE  IInv' /\ LobbyStep(server, server')
<1> DEFINE f == [client[c] EXCEPT !.popup = Null]
<1>1. client[c] \in Client /\ client \in [Sockets -> Client]
  BY DEF IInv
<1>2. /\ f \in Client /\ f.page = client[c].page /\ f.popup = Null
      /\ f.session = client[c].session /\ f.isA = client[c].isA
  BY <1>1 DEF Client
<1>3. client' = [client EXCEPT ![c] = f]
  BY <1>1 DEF Refuse
<1>4. /\ On(c, "main") /\ client[c].popup # Null /\ client[c].page = "main"
      /\ server' = HandleBattleInviteResponse(server, client[c].popup, c, FALSE)
  BY DEF Refuse, On
<1> HIDE DEF f
<1> QED
  BY <1>2, <1>3, <1>4, ResponseKeeps

-----------------------------------------------------------------------------
(* The invariant and what follows from it. *)

(* The invariant holds at the beginning. *)
LEMMA InitOK == Init => IInv
<1> SUFFICES ASSUME Init PROVE IInv
  OBVIOUS
<1>1. Closed \in Client
  BY DEF Closed, Client, Pages
<1>2. client \in [Sockets -> Client] /\ \A c \in Sockets : client[c] = Closed
  BY <1>1 DEF Init
<1>3. /\ server.heap \in [Ptrs -> User] /\ server.userList = <<>> /\ server.battles = <<>>
      /\ server.out = [c \in Sockets |-> <<>>] /\ server.up = TRUE
      /\ server = [heap |-> server.heap, userList |-> server.userList,
                   battles |-> server.battles, out |-> server.out, up |-> server.up]
  <2>1. Unused \in User
    BY DEF Unused, User, Status
  <2>2. server = [heap |-> [p \in Ptrs |-> Unused], userList |-> <<>>, battles |-> <<>>,
                  out |-> [c \in Sockets |-> <<>>], up |-> TRUE]
    BY DEF Init, Idle
  <2> QED
    BY <2>1, <2>2
<1>4. server.out \in [Sockets -> Seq(Message)] /\ \A c \in Sockets : Queue(server, c) = <<>>
  BY <1>3 DEF Queue
<1>5. ServerType(server)
  <2> DEFINE nil == <<>>
  <2>1. nil \in Seq(Ptrs) /\ nil \in Seq(Battle)
    OBVIOUS
  <2>2. server.userList = nil /\ server.battles = nil
    BY <1>3
  <2> HIDE DEF nil
  <2>3. server.userList \in Seq(Ptrs) /\ server.battles \in Seq(Battle) /\ server.up \in BOOLEAN
    BY <1>3, <2>1, <2>2, Zenon
  <2> QED
    BY <1>3, <1>4, <2>3, Zenon DEF ServerType
<1>6. Online(server) = {} /\ Len(server.userList) = 0 /\ Len(server.battles) = 0
  BY <1>3, <1>5, OnlineIs
<1>7. ServerOK(server)
  BY <1>5, <1>6 DEF ServerOK, UsersOK, BattlesOK, MarkedOK
<1>8. ASSUME NEW c \in Sockets PROVE ClientAt(server, c, client[c], Queue(server, c))
  <2>1. ~client[c].session
    BY <1>2 DEF Closed
  <2>2. ~LoggedIn(server, c)
    BY <1>6 DEF LoggedIn
  <2> QED
    BY <1>4, <2>1, <2>2, ClientAway
<1>9. ASSUME NEW n \in Names, NEW c \in Sockets, NEW i PROVE ~Holds(client[c], <<>>, i, n)
  BY <1>2, ServerAssumption DEF Holds, Closed
<1>10. InvitesOK(server, client)
  BY <1>4, <1>9, ZenonT(30) DEF InvitesOK
<1> QED
  BY <1>2, <1>7, <1>8, <1>10 DEF IInv, ClientsOK

(* Every step keeps the invariant and is a step of the lobby. *)
LEMMA NextKeeps ==
    ASSUME Patient, IInv, [Next]_vars
    PROVE  IInv' /\ LobbyStep(server, server')
<1>1. ASSUME NEW c \in Sockets, Login(c) PROVE IInv' /\ LobbyStep(server, server')
  BY <1>1, LoginKeeps
<1>2. ASSUME NEW c \in Sockets, Accept(c) PROVE IInv' /\ LobbyStep(server, server')
  BY <1>2, AcceptKeeps
<1>3. ASSUME NEW c \in Sockets, Refuse(c) PROVE IInv' /\ LobbyStep(server, server')
  BY <1>3, RefuseKeeps
<1>4. ASSUME NEW c \in Sockets, Act(c) PROVE IInv' /\ LobbyStep(server, server')
  BY <1>4, ActKeeps
<1>5. ASSUME NEW c \in Sockets, GiveUp(c) PROVE IInv' /\ LobbyStep(server, server')
  BY <1>5, GiveUpKeeps
<1>6. ASSUME NEW c \in Sockets, Receive(c) PROVE IInv' /\ LobbyStep(server, server')
  BY <1>6, ReceiveKeeps
<1>7. ASSUME NEW c \in Sockets, NEW dest \in Names \cup {Server}, InviteTo(c, dest)
      PROVE  IInv' /\ LobbyStep(server, server')
  BY <1>7, InviteKeeps
<1>8. ASSUME NEW c \in Sockets, Leave(c) \/ ConnectionLost(c) PROVE IInv' /\ LobbyStep(server, server')
  BY <1>8, DisconnectKeeps
<1>9. ASSUME NEW c \in Sockets, CloseAfterLoss(c) PROVE IInv' /\ LobbyStep(server, server')
  BY <1>9, CloseKeeps
<1>10. ASSUME UNCHANGED vars PROVE IInv' /\ LobbyStep(server, server')
  <2>1. server' = server /\ client' = client
    BY <1>10 DEF vars
  <2>2. IInv'
    BY <2>1 DEF IInv
  <2>3. LobbyStep(server, server')
    BY <2>1, FineSelf DEF IInv, Fine
  <2> QED
    BY <2>2, <2>3
<1> QED
  BY <1>1, <1>2, <1>3, <1>4, <1>5, <1>6, <1>7, <1>8, <1>9, <1>10 DEF Next

(* The types follow. *)
LEMMA TypeFollows == ASSUME IInv PROVE TypeOK
<1>1. client \in [Sockets -> Client] /\ ServerType(server) /\ UsersOK(server)
  BY DEF IInv, ServerOK
<1>2. /\ DOMAIN server = {"heap", "userList", "battles", "out", "up"}
      /\ server.heap \in [Ptrs -> User] /\ server.userList \in Seq(Ptrs)
      /\ server.battles \in Seq(Battle) /\ server.out \in [Sockets -> Seq(Message)]
      /\ server.up \in BOOLEAN
  BY <1>1 DEF ServerType
<1>3. DOMAIN server.out = Sockets /\ \A c \in Sockets : server.out[c] \in Seq(Message)
  BY <1>2
<1>4. ASSUME NEW i \in 1 .. Len(server.userList), NEW j \in 1 .. Len(server.userList), i # j
      PROVE  /\ server.userList[i] # server.userList[j]
             /\ server.heap[server.userList[i]].sock # server.heap[server.userList[j]].sock
  <2>1. /\ server.userList[i] # server.userList[j]
        /\ Name(server, server.userList[i]) # Name(server, server.userList[j])
    BY <1>1, <1>4 DEF UsersOK
  <2>2. server.userList[i] \in Online(server) /\ server.userList[j] \in Online(server)
    BY <1>1, OnlineIs
  <2> QED
    BY <1>1, <2>1, <2>2 DEF UsersOK
<1> QED
  BY <1>1, <1>2, <1>3, <1>4 DEF TypeOK

(* A player has one battle at most, and its fight is his only one. *)
LEMMA OwnIs ==
    ASSUME NEW s, ServerOK(s), NEW n \in Names, NEW i \in Own(s, n)
    PROVE  /\ i \in 1 .. Len(s.battles) /\ Own(s, n) = {i} /\ FightsAt(s, i, n)
           /\ \A x \in {0, 1} : \A v : Fight(s, n, x, v) <=> FightIn(s, s.battles[i], n, x, v)
<1>1. i \in 1 .. Len(s.battles) /\ FightsAt(s, i, n)
  BY DEF Own, FightsAt
<1>2. ASSUME NEW j \in 1 .. Len(s.battles), FightsAt(s, j, n) PROVE i = j
  <2>1. PICK p \in Users(s.battles[i]) : Name(s, p) = n
    BY <1>1, FightsUser
  <2>2. PICK q \in Users(s.battles[j]) : Name(s, q) = n
    BY <1>2, FightsUser
  <2> QED
    BY <1>1, <2>1, <2>2, OneFight
<1>3. Own(s, n) = {i}
  BY <1>1, <1>2 DEF Own, FightsAt
<1>4. ASSUME NEW x \in {0, 1}, NEW v, Fight(s, n, x, v) PROVE FightIn(s, s.battles[i], n, x, v)
  <2>1. PICK j \in 1 .. Len(s.battles) : FightIn(s, s.battles[j], n, x, v)
    BY <1>4 DEF Fight
  <2>2. FightsAt(s, j, n)
    BY <2>1 DEF FightIn, FightsAt, Fights
  <2> QED
    BY <1>2, <2>1, <2>2
<1>5. ASSUME NEW x \in {0, 1}, NEW v, FightIn(s, s.battles[i], n, x, v) PROVE Fight(s, n, x, v)
  BY <1>1, <1>5 DEF Fight
<1> QED
  BY <1>1, <1>3, <1>4, <1>5

(* OneBattle follows. *)
LEMMA OneFollows == ASSUME IInv PROVE OneBattle
<1> SUFFICES ASSUME NEW c \in Sockets PROVE Cardinality(Own(server, c)) <= 1
  BY DEF OneBattle
<1>1. CASE Own(server, c) = {}
  BY <1>1, FS_EmptySet
<1>2. CASE Own(server, c) # {}
  <2>1. PICK i \in Own(server, c) : TRUE
    BY <1>2
  <2>2. Own(server, c) = {i}
    BY <2>1, GameAssumption, OwnIs DEF IInv
  <2>3. Cardinality({i}) = 1
    BY FS_Singleton
  <2> QED
    BY <2>2, <2>3
<1> QED
  BY <1>1, <1>2

(* BattlesHaveUsers follows. *)
LEMMA UsersFollow == ASSUME IInv PROVE BattlesHaveUsers
<1> SUFFICES ASSUME NEW b \in ToSet(server.battles), NEW p \in {b.a, b.b} \ {Null}
             PROVE  p \in Online(server) /\ server.heap[p].status = "BATTLING"
  BY DEF BattlesHaveUsers
<1>1. ServerType(server) /\ BattlesOK(server)
  BY DEF IInv, ServerOK
<1>2. PICK i \in 1 .. Len(server.battles) : b = server.battles[i]
  BY <1>1, BattlesAre DEF Battles
<1>3. p \in Users(server.battles[i])
  BY <1>2 DEF Users
<1> QED
  BY <1>1, <1>3 DEF BattlesOK

(* FreeMayFight follows. *)
LEMMA FreeFollows == ASSUME "BATTLING" \notin Garbage, IInv PROVE FreeMayFight
<1> SUFFICES ASSUME NEW p \in Online(server), server.heap[p].status = "BATTLING"
             PROVE  \E b \in ToSet(server.battles) : p \in {b.a, b.b}
  BY DEF FreeMayFight
<1>1. ServerType(server) /\ MarkedOK(server)
  BY DEF IInv, ServerOK, BattlesOK
<1>2. PICK i \in 1 .. Len(server.battles) : p \in Users(server.battles[i])
  BY <1>1 DEF MarkedOK, InBattle
<1>3. server.battles[i] \in Battles(server)
  BY <1>1, BattlesAre
<1> QED
  BY <1>2, <1>3 DEF Users, Battles

-----------------------------------------------------------------------------
(* ViewsAgree, and the opponent of a player. *)

(* The opponent of n, as Opponent finds him, in any state of the server.   *)
OpponentIn(s, n) ==
    LET mine == {b \in ToSet(s.battles) : Fights(s, b, n)}
        p    == OtherSide(s, CHOOSE b \in mine : TRUE, n)
    IN  IF mine = {} THEN Null ELSE IF p = Null THEN Server ELSE Name(s, p)
(* Who is on a side. *)
NameOf(s, p) == IF p = Null THEN Server ELSE Name(s, p)

(* Who fights has one opponent, on one side.                               *)
LEMMA SideIs ==
    ASSUME NEW s, ServerOK(s), NEW n \in Names, NEW i \in Own(s, n)
    PROVE  LET b == s.battles[i]
               x == IF Name(s, b.a) = n THEN 1 ELSE 0
               w == NameOf(s, OtherAt(s, i, n))
           IN  /\ w \in Names \cup {Server}
               /\ \A y \in {0, 1} : \A v : Fight(s, n, y, v) <=> y = x /\ v = w
<1> DEFINE b == s.battles[i]
           x == IF Name(s, b.a) = n THEN 1 ELSE 0
           w == NameOf(s, OtherAt(s, i, n))
<1>1. /\ i \in 1 .. Len(s.battles) /\ FightsAt(s, i, n) /\ ServerType(s) /\ UsersOK(s)
      /\ \A y \in {0, 1} : \A v : Fight(s, n, y, v) <=> FightIn(s, s.battles[i], n, y, v)
  BY OwnIs DEF ServerOK
<1>2. OtherAt(s, i, n) = Null \/ OtherAt(s, i, n) \in Online(s)
  BY <1>1, FightsUser
<1>3. w \in Names \cup {Server}
  BY <1>1, <1>2 DEF UsersOK, NameOf
<1>4. b.a # b.b /\ b.a \in Online(s) /\ (b.b # Null => b.b \in Online(s)) /\ b.a # Null
  BY <1>1, BattleIs, ServerAssumption DEF ServerOK, BattlesOK
<1>5. b.b # Null => Name(s, b.a) # Name(s, b.b)
  BY <1>4, OneUser
<1>6. ASSUME NEW y \in {0, 1}, NEW v PROVE FightIn(s, b, n, y, v) <=> y = x /\ v = w
  <2>1. CASE Name(s, b.a) = n
    <3>1. OtherAt(s, i, n) = b.b /\ x = 1 /\ w = IF b.b = Null THEN Server ELSE Name(s, b.b)
      BY <2>1 DEF OtherAt, OtherSide, NameOf
    <3> HIDE DEF w, x
    <3> QED
      BY <2>1, <3>1, <1>5 DEF FightIn
  <2>2. CASE Name(s, b.a) # n
    <3>1. OtherAt(s, i, n) = b.a /\ x = 0 /\ w = Name(s, b.a)
      BY <2>2, <1>4 DEF OtherAt, OtherSide, NameOf
    <3>2. b.b # Null /\ Name(s, b.b) = n
      BY <1>1, <2>2 DEF FightsAt, Fights
    <3> HIDE DEF w, x
    <3> QED
      BY <2>2, <3>1, <3>2 DEF FightIn
  <2> QED
    BY <2>1, <2>2
<1> HIDE DEF w, x
<1>7. \A y \in {0, 1} : \A v : Fight(s, n, y, v) <=> y = x /\ v = w
  BY <1>1, <1>6
<1> QED
  BY <1>3, <1>7 DEF w, x

(* Who has no battle has no side. *)
LEMMA NoSide ==
    ASSUME NEW s, ServerOK(s), NEW n, Own(s, n) = {}, NEW x, NEW v
    PROVE  ~Fight(s, n, x, v)
BY DEF Own, Fight, FightIn, Fights

(* ViewsAgree follows. *)
LEMMA ViewsFollow == ASSUME IInv PROVE ViewsAgree
<1> SUFFICES ASSUME server.up, NEW c \in Sockets, client[c].session
             PROVE  /\ View(c).page = "battle" <=> Own(server, c) # {}
                    /\ \A i \in Own(server, c) :
                          View(c).isA = IF Name(server, server.battles[i].a) = c THEN 1 ELSE 0
  BY DEF ViewsAgree
<1>1. View(c) = ViewOf(client[c], Queue(server, c))
  BY DEF View, ViewOf, inbox, Queue
<1>2. ViewAt(server, c, View(c)) /\ ServerOK(server) /\ c \in Names
  BY <1>1, GameAssumption DEF IInv, ClientsOK, ClientAt
<1> HIDE DEF View
<1>3. CASE Own(server, c) = {}
  <2>1. ~Plays(server, c, 1) /\ ~Plays(server, c, 0)
    BY <1>2, <1>3, NoSide DEF Plays
  <2> QED
    BY <1>2, <1>3, <2>1 DEF ViewAt
<1>4. ASSUME NEW i \in Own(server, c)
      PROVE  /\ View(c).page = "battle"
             /\ View(c).isA = IF Name(server, server.battles[i].a) = c THEN 1 ELSE 0
  <2> DEFINE x == IF Name(server, server.battles[i].a) = c THEN 1 ELSE 0
  <2>1. PICK w \in Names \cup {Server} :
           \A y \in {0, 1} : \A v : Fight(server, c, y, v) <=> y = x /\ v = w
    BY <1>2, SideIs
  <2>2. x \in {0, 1}
    OBVIOUS
  <2> HIDE DEF x
  <2>3. Plays(server, c, x)
    BY <2>1, <2>2 DEF Plays
  <2>4. View(c).page = "battle" /\ View(c).isA = x
    BY <1>2, <2>2, <2>3 DEF ViewAt
  <2> QED
    BY <2>4 DEF x
<1> QED
  BY <1>3, <1>4

(* The opponent of a player is the one he has a fight against. *)
LEMMA OpponentIs ==
    ASSUME NEW s, ServerOK(s), NEW n \in Names
    PROVE  /\ OpponentIn(s, n) \in Names \cup {Server, Null}
           /\ \A v \in Names \cup {Server} :
                 OpponentIn(s, n) = v <=> \E x \in {0, 1} : Fight(s, n, x, v)
<1> DEFINE mine == {b \in Battles(s) : Fights(s, b, n)}
<1>1. ServerType(s) /\ Null \notin Names \cup {Server}
  BY ServerAssumption DEF ServerOK
<1>2. CASE Own(s, n) = {}
  <2>1. mine = {}
    BY <1>1, <1>2, BattlesAre DEF Own
  <2>2. OpponentIn(s, n) = Null
    BY <2>1 DEF OpponentIn, Battles
  <2> QED
    BY <1>1, <1>2, <2>2, NoSide
<1>3. ASSUME NEW i \in Own(s, n)
      PROVE  OpponentIn(s, n) \in Names \cup {Server}
             /\ \A v \in Names \cup {Server} :
                 OpponentIn(s, n) = v <=> \E x \in {0, 1} : Fight(s, n, x, v)
  <2> DEFINE w == NameOf(s, OtherAt(s, i, n))
             x == IF Name(s, s.battles[i].a) = n THEN 1 ELSE 0
  <2>1. Own(s, n) = {i} /\ i \in 1 .. Len(s.battles) /\ FightsAt(s, i, n)
    BY OwnIs
  <2>2. mine = {s.battles[i]}
    <3>1. ASSUME NEW b \in mine PROVE b = s.battles[i]
      <4>1. PICK j \in 1 .. Len(s.battles) : b = s.battles[j]
        BY <1>1, BattlesAre
      <4>2. j \in Own(s, n)
        BY <4>1 DEF Own
      <4> QED
        BY <2>1, <4>1, <4>2
    <3>2. s.battles[i] \in mine
      BY <1>1, <2>1, BattlesAre DEF FightsAt
    <3> QED
      BY <3>1, <3>2
  <2>3. (CHOOSE b \in mine : TRUE) = s.battles[i]
    <3> HIDE DEF mine
    <3> QED
      BY <2>2
  <2>4. OpponentIn(s, n) = w
    BY <2>2, <2>3 DEF OpponentIn, Battles, OtherAt, NameOf
  <2>5. w \in Names \cup {Server} /\ \A y \in {0, 1} : \A v : Fight(s, n, y, v) <=> y = x /\ v = w
    BY SideIs
  <2>6. x \in {0, 1}
    OBVIOUS
  <2> HIDE DEF x, w
  <2> QED
    BY <2>4, <2>5, <2>6
<1> QED
  BY <1>2, <1>3

-----------------------------------------------------------------------------
(* The refinement of Lobby, and the theorems. *)

(* A step of the battles of the server, seen as everybody's opponent.      *)
OpponentsIn(s) == [n \in Names |-> OpponentIn(s, n)]
LobbyNext(o, q) ==
    \/ q = o
    \/ \E a \in Names : \E b \in Names \ {a} :
          o[a] = Null /\ o[b] = Null /\ q = [o EXCEPT ![a] = b, ![b] = a]
    \/ \E a \in Names : o[a] = Null /\ q = [o EXCEPT ![a] = Server]
    \/ \E a \in Names : /\ o[a] # Null
                        /\ q = [n \in Names |-> IF n = a \/ o[n] = a THEN Null ELSE o[n]]

(* So is everybody's. *)
LEMMA OpponentsAre ==
    ASSUME NEW s, ServerOK(s)
    PROVE  LET o == OpponentsIn(s)
           IN  /\ o \in [Names -> Names \cup {Server, Null}]
               /\ \A n \in Names, v \in Names \cup {Server} :
                     o[n] = v <=> (Fight(s, n, 0, v) \/ Fight(s, n, 1, v))
               /\ \A n \in Names : o[n] # Null <=> Fighting(s, n)
<1> DEFINE o == OpponentsIn(s)
<1>1. o \in [Names -> Names \cup {Server, Null}]
  BY OpponentIs DEF OpponentsIn
<1>2. ASSUME NEW n \in Names, NEW v \in Names \cup {Server}
      PROVE  o[n] = v <=> (Fight(s, n, 0, v) \/ Fight(s, n, 1, v))
  <2>1. o[n] = OpponentIn(s, n)
    BY DEF OpponentsIn
  <2> QED
    BY <2>1, OpponentIs
<1> HIDE DEF o
<1>3. ASSUME NEW n \in Names PROVE o[n] # Null <=> Fighting(s, n)
  BY <1>1, <1>2, ServerAssumption DEF Fighting, Plays
<1> QED
  BY <1>1, <1>2, <1>3 DEF o

(* A step of the lobby among the fights is one among the opponents. *)
LEMMA LobbyFollows ==
    ASSUME NEW s, NEW t, ServerOK(s), ServerOK(t), LobbyStep(s, t)
    PROVE  LobbyNext(OpponentsIn(s), OpponentsIn(t))
<1> DEFINE o == OpponentsIn(s)
           q == OpponentsIn(t)
<1>1. /\ o \in [Names -> Names \cup {Server, Null}]
      /\ \A n \in Names, v \in Names \cup {Server} :
            o[n] = v <=> (Fight(s, n, 0, v) \/ Fight(s, n, 1, v))
      /\ \A n \in Names : o[n] # Null <=> Fighting(s, n)
  BY OpponentsAre
<1>2. /\ q \in [Names -> Names \cup {Server, Null}]
      /\ \A n \in Names, v \in Names \cup {Server} :
            q[n] = v <=> (Fight(t, n, 0, v) \/ Fight(t, n, 1, v))
      /\ \A n \in Names : q[n] # Null <=> Fighting(t, n)
  BY OpponentsAre
<1>3. Server \notin Names /\ Null \notin Names \cup {Server}
  BY ServerAssumption
<1> HIDE DEF o, q
<1>4. CASE SameFights(s, t)
  <2>1. \A n \in Names, v \in Names \cup {Server} : q[n] = v <=> o[n] = v
    BY <1>1, <1>2, <1>4 DEF SameFights
  <2>2. \A n \in Names : q[n] = o[n]
    BY <1>1, <1>2, <2>1
  <2>3. q = o
    BY <1>1, <1>2, <2>2
  <2> QED
    BY <2>3 DEF LobbyNext, o, q
<1>5. ASSUME NEW a \in Names, NEW b \in (Names \cup {Server}) \ {a}, Began(s, t, a, b)
      PROVE  LobbyNext(o, q)
  <2>1. \A n \in Names, v \in Names \cup {Server} :
           q[n] = v <=> (o[n] = v \/ (n = a /\ v = b) \/ (n = b /\ v = a))
    BY <1>1, <1>2, <1>5 DEF Began
  <2>2. o[a] = Null /\ (b \in Names => o[b] = Null)
    BY <1>1, <1>5 DEF Began
  <2>3. ASSUME NEW n \in Names PROVE q[n] = IF n = a THEN b ELSE IF n = b THEN a ELSE o[n]
    BY <1>1, <1>2, <2>1
  <2>4. CASE b \in Names
    <3>1. q = [o EXCEPT ![a] = b, ![b] = a]
      BY <1>1, <1>2, <2>3, <2>4
    <3> QED
      BY <2>2, <2>4, <3>1 DEF LobbyNext
  <2>5. CASE b = Server
    <3>1. q = [o EXCEPT ![a] = Server]
      BY <1>1, <1>2, <1>3, <2>3, <2>5
    <3> QED
      BY <2>2, <3>1 DEF LobbyNext
  <2> QED
    BY <2>4, <2>5
<1>6. ASSUME NEW a \in Names, Ended(s, t, a) PROVE LobbyNext(o, q)
  <2>1. \A n \in Names, v \in Names \cup {Server} : q[n] = v <=> (o[n] = v /\ n # a /\ v # a)
    BY <1>1, <1>2, <1>6 DEF Ended
  <2>2. o[a] # Null
    BY <1>1, <1>6 DEF Ended
  <2>3. ASSUME NEW n \in Names PROVE q[n] = IF n = a \/ o[n] = a THEN Null ELSE o[n]
    BY <1>1, <1>2, <2>1
  <2>4. q = [n \in Names |-> IF n = a \/ o[n] = a THEN Null ELSE o[n]]
    BY <1>2, <2>3
  <2> QED
    BY <2>2, <2>4 DEF LobbyNext
<1> QED
  BY <1>4, <1>5, <1>6 DEF LobbyStep, o, q

(* At the beginning everybody is free. *)
LEMMA LobbyInit == Init => lobby!Init
<1> SUFFICES ASSUME Init PROVE lobby!Init
  OBVIOUS
<1>1. ASSUME NEW n \in Names PROVE Opponent(n) = Null
  <2>1. ToSet(server.battles) = {}
    <3>1. server.battles = <<>>
      BY DEF Init, Idle
    <3> QED
      BY <3>1 DEF ToSet
  <2> QED
    BY <2>1 DEF Opponent
<1> QED
  BY <1>1 DEF lobby!Init

(* The opponents before a step, *)
LEMMA LobbyNow == OpponentsIn(server) = [n \in Names |-> Opponent(n)]
BY DEF OpponentsIn, OpponentIn, Opponent

(* and after it. *)
LEMMA LobbyLater == OpponentsIn(server') = [n \in Names |-> Opponent(n)]'
BY DEF OpponentsIn, OpponentIn, Opponent

(* A step that keeps the promise of the lobby. *)
LEMMA LobbyKept ==
    ASSUME ServerOK(server), ServerOK(server'), LobbyStep(server, server')
    PROVE  [lobby!Next]_[n \in Names |-> Opponent(n)]
<1> DEFINE o == OpponentsIn(server)
           q == OpponentsIn(server')
<1>1. LobbyNext(o, q)
  BY LobbyFollows
<1>2. o = [n \in Names |-> Opponent(n)] /\ q = [n \in Names |-> Opponent(n)]'
  BY LobbyNow, LobbyLater
<1> HIDE DEF o, q
<1>3. CASE q = o
  BY <1>2, <1>3
<1>4. ASSUME NEW a \in Names, NEW b \in Names \ {a}, o[a] = Null, o[b] = Null,
             q = [o EXCEPT ![a] = b, ![b] = a]
      PROVE  lobby!Next
  BY <1>2, <1>4 DEF lobby!Next, lobby!Begin, lobby!Free
<1>5. ASSUME NEW a \in Names, o[a] = Null, q = [o EXCEPT ![a] = Server] PROVE lobby!Next
  BY <1>2, <1>5 DEF lobby!Next, lobby!BeginServer, lobby!Free
<1>6. ASSUME NEW a \in Names, o[a] # Null,
             q = [n \in Names |-> IF n = a \/ o[n] = a THEN Null ELSE o[n]]
      PROVE  lobby!Next
  <2>1. lobby!End(a)
    BY <1>2, <1>6 DEF lobby!End, lobby!Free
  <2> QED
    BY <2>1 DEF lobby!Next
<1> QED
  BY <1>1, <1>3, <1>4, <1>5, <1>6 DEF LobbyNext

(* IInv is an invariant, for any number of players that are patient.  That *)
(* is needed: where somebody leaves who waits, TLC finds a second battle   *)
(* (PokemonGame_twice.cfg); where somebody leaves who fights, a battle     *)
(* whose player is gone (PokemonGame_leave.cfg).                           *)
THEOREM ServerInvariant ==
    ASSUME Patient
    PROVE  Spec => []IInv
<1>1. Init => IInv
  BY InitOK
<1>2. IInv /\ [Next]_vars => IInv'
  BY NextKeeps
<1> QED
  BY <1>1, <1>2, PTL DEF Spec

(* Every value has its type, no User is in the list twice and no           *)
(* connection has two of them.                                             *)
THEOREM ServerTypes ==
    ASSUME Patient
    PROVE  Spec => []TypeOK
BY ServerInvariant, TypeFollows, PTL

(* Patient players never fight two battles, although the answer to an      *)
(* invitation (HandleBattleInviteResponse) is not checked: an invitation   *)
(* is open only while its sender waits for it.                             *)
THEOREM OneBattleEach ==
    ASSUME Patient
    PROVE  Spec => []OneBattle
BY ServerInvariant, OneFollows, PTL

(* Among patient players no battle points at a User that is gone or that   *)
(* is not marked BATTLING, although connections of players who do not      *)
(* fight end at any time.                                                  *)
THEOREM BattleUsersOnline ==
    ASSUME Patient
    PROVE  Spec => []BattlesHaveUsers
BY ServerInvariant, UsersFollow, PTL

(* Nobody stays marked BATTLING without a battle, unless the copy of his   *)
(* User has left him marked.                                               *)
THEOREM FreeCanFight ==
    ASSUME Patient, "BATTLING" \notin Garbage
    PROVE  Spec => []FreeMayFight
BY ServerInvariant, FreeFollows, PTL

(* Every client will be on the page, and on the side, that the server has  *)
(* it on, once it has read what is under way to it.                        *)
THEOREM ClientsAgree ==
    ASSUME Patient
    PROVE  Spec => []ViewsAgree
BY ServerInvariant, ViewsFollow, PTL

(* The server keeps the promise of the lobby: seen as everybody's opponent,*)
(* the initial state is its initial state and every step one of its steps  *)
(* or none.                                                                *)
THEOREM ServerKeepsPromise ==
    ASSUME Patient
    PROVE  Spec => LobbySpec
<1>1. Init => lobby!Init
  BY LobbyInit
<1>2. IInv /\ [Next]_vars => IInv' /\ [lobby!Next]_[n \in Names |-> Opponent(n)]
  BY NextKeeps, LobbyKept DEF IInv
<1>3. Spec => []IInv
  BY ServerInvariant
<1> QED
  BY <1>1, <1>2, <1>3, PTL DEF Spec, LobbySpec, lobby!Spec

(* Mutual is inductive together with the type: Begin links two free        *)
(* players, so neither was anybody's opponent before (an opponent of a     *)
(* free player would, by Mutual, not be free), and End frees both sides.   *)
MutualMap(o) ==
    /\ o \in [Names -> Names \cup {Server, Null}]
    /\ \A x, y \in Names : o[x] = y => x # y /\ o[y] = x

LEMMA MutualKept ==
    ASSUME NEW o, NEW q, MutualMap(o), LobbyNext(o, q)
    PROVE  MutualMap(q)
<1>1. Server \notin Names /\ Null \notin Names \cup {Server}
  BY ServerAssumption
<1>2. CASE q = o
  BY <1>2
<1>3. ASSUME NEW a \in Names, NEW b \in Names \ {a}, o[a] = Null, o[b] = Null,
             q = [o EXCEPT ![a] = b, ![b] = a]
      PROVE  MutualMap(q)
  <2>1. ASSUME NEW x \in Names, NEW y \in Names, q[x] = y
        PROVE  x # y /\ q[y] = x
    <3>1. CASE x \in {a, b}
      BY <1>1, <1>3, <2>1, <3>1 DEF MutualMap
    <3>2. CASE x \notin {a, b}
      <4>1. o[x] = y /\ x # y /\ o[y] = x
        BY <1>3, <2>1, <3>2 DEF MutualMap
      <4>2. y \notin {a, b}
        BY <1>1, <1>3, <4>1
      <4> QED
        BY <1>3, <4>1, <4>2 DEF MutualMap
    <3> QED
      BY <3>1, <3>2
  <2> QED
    BY <1>3, <2>1 DEF MutualMap
<1>4. ASSUME NEW a \in Names, o[a] = Null, q = [o EXCEPT ![a] = Server]
      PROVE  MutualMap(q)
  <2>1. ASSUME NEW x \in Names, NEW y \in Names, q[x] = y
        PROVE  x # y /\ q[y] = x
    <3>1. x # a /\ o[x] = y
      BY <1>1, <1>4, <2>1 DEF MutualMap
    <3>2. x # y /\ o[y] = x
      BY <3>1 DEF MutualMap
    <3>3. y # a
      BY <1>1, <1>4, <3>2
    <3> QED
      BY <1>4, <3>1, <3>2, <3>3 DEF MutualMap
  <2> QED
    BY <1>4, <2>1 DEF MutualMap
<1>5. ASSUME NEW a \in Names, o[a] # Null,
             q = [n \in Names |-> IF n = a \/ o[n] = a THEN Null ELSE o[n]]
      PROVE  MutualMap(q)
  <2>1. ASSUME NEW x \in Names, NEW y \in Names, q[x] = y
        PROVE  x # y /\ q[y] = x
    <3>1. x # a /\ o[x] # a /\ o[x] = y
      BY <1>1, <1>5, <2>1
    <3>2. x # y /\ o[y] = x
      BY <3>1 DEF MutualMap
    <3> QED
      BY <1>5, <3>1, <3>2
  <2> QED
    BY <1>5, <2>1 DEF MutualMap
<1> QED
  BY <1>2, <1>3, <1>4, <1>5 DEF LobbyNext

LEMMA LobbyIsNext ==
    ASSUME [lobby!Next]_[n \in Names |-> Opponent(n)]
    PROVE  LobbyNext(OpponentsIn(server), OpponentsIn(server'))
<1> DEFINE o == OpponentsIn(server)
           q == OpponentsIn(server')
<1>1. o = [n \in Names |-> Opponent(n)] /\ q = [n \in Names |-> Opponent(n)]'
  BY LobbyNow, LobbyLater
<1> HIDE DEF o, q
<1>2. CASE q = o
  BY <1>2 DEF LobbyNext, o, q
<1>3. CASE lobby!Next
  <2>1. \E a \in Names :
           \/ \E b \in Names \ {a} : /\ o[a] = Null /\ o[b] = Null
                                     /\ q = [o EXCEPT ![a] = b, ![b] = a]
           \/ o[a] = Null /\ q = [o EXCEPT ![a] = Server]
           \/ o[a] # Null /\ q = [n \in Names |-> IF n = a \/ o[n] = a THEN Null ELSE o[n]]
    BY <1>1, <1>3 DEF lobby!Next, lobby!Begin, lobby!BeginServer, lobby!End, lobby!Free
  <2> QED
    BY <2>1 DEF LobbyNext, o, q
<1> QED
  BY <1>1, <1>2, <1>3

(* What the promise of the lobby means, for any number of players: a fight *)
(* is a fight for both sides.                                              *)
LEMMA LobbyIsMutual == LobbySpec => []lobby!Mutual
<1> DEFINE I == MutualMap(OpponentsIn(server))
<1>1. lobby!Init => I
  <2> SUFFICES ASSUME lobby!Init PROVE I
    OBVIOUS
  <2> DEFINE o == OpponentsIn(server)
  <2>1. o = [n \in Names |-> Opponent(n)]
    BY LobbyNow
  <2> HIDE DEF o
  <2>2. o = [n \in Names |-> Null]
    BY <2>1 DEF lobby!Init
  <2>3. MutualMap(o)
    BY <2>2, ServerAssumption DEF MutualMap
  <2> QED
    BY <2>3 DEF o
<1>2. I /\ [lobby!Next]_[n \in Names |-> Opponent(n)] => I'
  BY MutualKept, LobbyIsNext
<1>3. I => lobby!Mutual
  BY LobbyNow DEF MutualMap, lobby!Mutual
<1> QED
  BY <1>1, <1>2, <1>3, PTL DEF LobbySpec, lobby!Spec

(* So, whatever patient players do: nobody is left in a fight that the     *)
(* other side has left, and nobody is drawn into a second one.             *)
THEOREM FightsAreMutual ==
    ASSUME Patient
    PROVE  Spec => []lobby!Mutual
BY ServerKeepsPromise, LobbyIsMutual, PTL
=============================================================================
