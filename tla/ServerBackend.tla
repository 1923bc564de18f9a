-------------------------- MODULE ServerBackend --------------------------
(***************************************************************************)
(* The Pokemon server (ServerBackend.cpp, User.cpp): the users that are    *)
(* logged in, the battles that run, and the handlers of the messages.      *)
(* Every handler runs to its end on the only thread of the server, so it   *)
(* is an operator from the state of the server to the next one.            *)
(*                                                                         *)
(* The server keeps a list of User objects and a list of battles; a battle *)
(* points at its two users.  userB is a null pointer when the opponent is  *)
(* the server itself.  All messages name a user and are looked up by name. *)
(***************************************************************************)
EXTENDS Naturals, FiniteSets, SequencesExt

CONSTANTS Sockets,      \* connections of clients
          Names,        \* accounts
          Server,       \* the account name "_server"
          Ptrs,         \* addresses of User objects
          Null,         \* the null pointer; also "no name"
          Garbage       \* what the status of a copied User may read as

Status == {"IDLE", "BATTLING"}

ASSUME ServerAssumption ==
    /\ Server \notin Names
    /\ Null \notin Names \cup {Server} \cup Ptrs \cup Sockets
    /\ Garbage # {} /\ Garbage \subseteq Status

(* The messages to a client, as far as the interface tells them apart. *)
LoginAnswer(ok) == [type |-> "Login", ok |-> ok]
Start(isA)      == [type |-> "Start", isA |-> isA]
NoStart         == [type |-> "NoStart"]
Invite(from)    == [type |-> "Invite", from |-> from]
TurnInfo        == [type |-> "Turn"]
Finish          == [type |-> "Finish"]
Message == {LoginAnswer(ok) : ok \in BOOLEAN} \cup {Start(i) : i \in {0, 1}}
             \cup {NoStart, TurnInfo, Finish} \cup {Invite(n) : n \in Names}

User   == [name : Names \cup {Null}, sock : Sockets \cup {Null}, status : Status]
Battle == [a : Ptrs, b : Ptrs \cup {Null}, acted : SUBSET {0, 1}]

Unused == [name |-> Null, sock |-> Null, status |-> "IDLE"]
Idle == [heap     |-> [p \in Ptrs |-> Unused],
         userList |-> <<>>,
         battles  |-> <<>>,
         out      |-> [c \in Sockets |-> <<>>],
         up       |-> TRUE]

-----------------------------------------------------------------------------
(* Helpers.  A User that left is freed but not erased: a battle that still *)
(* points at it reads the old name, or whoever got the memory since then.  *)

Name(s, p)  == s.heap[p].name
Online(s)   == ToSet(s.userList)
Reply(s, c, m) == [s EXCEPT !.out[c] = Append(@, m)]
Send(s, p, m)  == IF p \in Online(s) THEN Reply(s, s.heap[p].sock, m) ELSE s

(* Tell a user of a battle something; the server's own side is not told. *)
Tell(s, p, m) == IF p = Null THEN s ELSE Send(s, p, m)
SetIdle(s, p) == IF p = Null THEN s ELSE [s EXCEPT !.heap[p].status = "IDLE"]
Release(s, p) == Tell(SetIdle(s, p), p, Finish)
Drop(s, i)    == [s EXCEPT !.battles = RemoveAt(@, i)]
Crash(s)      == [s EXCEPT !.up = FALSE]

UserAt(s, i) == IF i = 0 THEN Null ELSE s.userList[i]
FirstUser(s, n) == UserAt(s, SelectInSeq(s.userList, LAMBDA p : Name(s, p) = n))
LastUser(s, n)  == UserAt(s, SelectLastInSeq(s.userList, LAMBDA p : Name(s, p) = n))
UserOf(s, c)    == SelectInSeq(s.userList, LAMBDA p : s.heap[p].sock = c)

MayFight(s, p) == p # Null /\ s.heap[p].status # "BATTLING"

MutStartMarksA(s, a, b) ==
    [s EXCEPT !.battles = Append(@, [a |-> a, b |-> b, acted |-> {}]),
              !.heap[a].status = "BATTLING"]
StartBattle(s, a, b) ==
    [s EXCEPT !.battles = Append(@, [a |-> a, b |-> b, acted |-> {}]),
              !.heap = [p \in Ptrs |-> IF p \in {a, b}
                                         THEN [@[p] EXCEPT !.status = "BATTLING"]
                                         ELSE @[p]]]

(* What is left at the address of a User that is deleted: what was there,  *)
(* if a battle can still read it.                                          *)
Freed(s, p) == IF \E b \in ToSet(s.battles) : p \in {b.a, b.b} THEN s.heap[p] ELSE Unused

-----------------------------------------------------------------------------
(* UserLogin, right password.  The User is pushed to the list even when    *)
(* the answer refuses the login.  The list keeps a copy, whose copy        *)
(* constructor forgets m_status.  p is the memory the copy gets.           *)
UserLogin(s, c, n, p, status) ==
    LET known == \E q \in Online(s) : Name(s, q) = n
    IN  Reply([s EXCEPT !.heap[p] = [name |-> n, sock |-> c, status |-> status],
                        !.userList = Append(@, p)],
              c, LoginAnswer(~known))

(* BattleInvite: a battle against the server starts at once, an invitation *)
(* is passed on.  An unknown or fighting sender gets no answer at all.     *)
BattleInvite(s, c, from, dest) ==
    LET a == FirstUser(s, from)
        b == FirstUser(s, dest)
    IN  CASE ~MayFight(s, a)                       -> s
          [] MayFight(s, a) /\ dest = Server       -> Reply(StartBattle(s, a, Null), c, Start(1))
          [] MayFight(s, a) /\ dest # Server /\ MayFight(s, b)
                                                   -> Send(s, b, Invite(from))
          [] OTHER                                 -> Reply(s, c, NoStart)

(* HandleBattleInviteResponse: the answer of userB to the invitation of    *)
(* userA.  Nobody checks that A or B is still free.                        *)
MutAcceptAlways(s, nameA, nameB, accepted) ==
    LET a == LastUser(s, nameA)
        b == IF nameA = nameB THEN Null ELSE LastUser(s, nameB)
    IN  IF a = Null \/ b = Null THEN s
        ELSE Send(Send(StartBattle(s, a, b), a, Start(1)), b, Start(0))

HandleBattleInviteResponse(s, nameA, nameB, accepted) ==
    LET a == LastUser(s, nameA)
        b == IF nameA = nameB THEN Null ELSE LastUser(s, nameB)
    IN  IF a = Null \/ b = Null THEN s
        ELSE IF ~accepted THEN Send(s, a, NoStart)
        ELSE Send(Send(StartBattle(s, a, b), a, Start(1)), b, Start(0))

-----------------------------------------------------------------------------
(* A turn of battle i (BattleField::turn, abstracted to its outcome): one  *)
(* or two attacks are shown to both sides; when a side has no hp left,     *)
(* slotGetBattleResult frees both users and deletes the battle.            *)
Outcome == [hits : {2}, finished : {FALSE}] \cup [hits : {1, 2}, finished : {TRUE}]

Attack(s, b) == Tell(Tell(s, b.a, TurnInfo), b.b, TurnInfo)
slotGetBattleResult(s, i) ==
    LET b == s.battles[i] IN Drop(Release(Release(s, b.b), b.a), i)
Turn(s, i, o) ==
    LET b == s.battles[i]
        t == IF o.hits = 1 THEN Attack(s, b) ELSE Attack(Attack(s, b), b)
    IN  IF o.finished THEN slotGetBattleResult(t, i)
        ELSE [t EXCEPT !.battles[i].acted = {}]

(* setAction: the turn is played when both sides have acted. *)
setAction(s, i, sides, o) ==
    LET t == [s EXCEPT !.battles[i].acted = @ \cup sides]
    IN  IF t.battles[i].acted = {0, 1} THEN Turn(t, i, o) ELSE t

(* One pass of the loop of HandleBattleOperation, for battle number l.i.   *)
(* A battle that ends is removed while the loop runs, so the one behind it *)
(* is skipped.  For an action of a userB the loop calls get_name() on the  *)
(* userB of every battle before his, also where that is null.              *)
OperationPass(l, n, isA, o) ==
    LET s == l.s
        b == s.battles[l.i]
        next(t) == [s |-> t, i |-> l.i + 1]
    IN  IF ~s.up \/ l.i > Len(s.battles) THEN l
        ELSE IF isA = 1
               THEN IF Name(s, b.a) = n
                      THEN next(setAction(s, l.i, IF b.b = Null THEN {0, 1} ELSE {0}, o))
                      ELSE next(s)
        ELSE IF b.b = Null THEN next(Crash(s))
        ELSE IF Name(s, b.b) = n THEN next(setAction(s, l.i, {1}, o)) ELSE next(s)

HandleBattleOperation(s, n, isA, o) ==
    FoldLeft(LAMBDA l, k : OperationPass(l, n, isA, o),
             [s |-> s, i |-> 1], [k \in 1 .. Len(s.battles) |-> k]).s

-----------------------------------------------------------------------------
(* The search of BattleGiveUp and UserDisconnected for the battle of a     *)
(* user: nameAt[i] is compared with the names of both sides of battle i.   *)
Fights(s, b, n) == Name(s, b.a) = n \/ (b.b # Null /\ Name(s, b.b) = n)
Fails(s, b, n)  == n = Null \/ (Name(s, b.a) # n /\ b.b = Null)
SearchStop(s, nameAt) ==
    SelectInSeq([i \in 1 .. Len(s.battles) |-> i],
                LAMBDA i : Fights(s, s.battles[i], nameAt[i]) \/ Fails(s, s.battles[i], nameAt[i]))
OtherSide(s, b, n) == IF Name(s, b.a) = n THEN b.b ELSE b.a
ThisSide(s, b, n)  == IF Name(s, b.a) = n THEN b.a ELSE b.b

MutGiveUpSilently(s, n) ==
    LET i == SearchStop(s, [j \in 1 .. Len(s.battles) |-> n])
        b == s.battles[i]
    IN  IF i = 0 THEN s
        ELSE IF Fails(s, b, n) THEN Crash(s)
        ELSE Drop(SetIdle(SetIdle(s, ThisSide(s, b, n)), OtherSide(s, b, n)), i)
MutGiveUpKeepsBattle(s, n) ==
    LET i == SearchStop(s, [j \in 1 .. Len(s.battles) |-> n])
        b == s.battles[i]
    IN  IF i = 0 THEN s
        ELSE IF Fails(s, b, n) THEN Crash(s)
        ELSE Release(SetIdle(s, ThisSide(s, b, n)), OtherSide(s, b, n))
MutGiveUpBusy(s, n) ==
    LET i == SearchStop(s, [j \in 1 .. Len(s.battles) |-> n])
        b == s.battles[i]
    IN  IF i = 0 THEN s
        ELSE IF Fails(s, b, n) THEN Crash(s)
        ELSE Drop(Release(s, OtherSide(s, b, n)), i)

BattleGiveUp(s, n) ==
    LET i == SearchStop(s, [j \in 1 .. Len(s.battles) |-> n])
        b == s.battles[i]
    IN  IF i = 0 THEN s
        ELSE IF Fails(s, b, n) THEN Crash(s)
        ELSE Drop(Release(SetIdle(s, ThisSide(s, b, n)), OtherSide(s, b, n)), i)

(* The loop over the battles in UserDisconnected reuses the name i of the  *)
(* loop around it: battle i is compared with user i of the list, not with  *)
(* the user that left.                                                     *)
ComparedName(s, i) == IF i <= Len(s.userList) THEN Name(s, s.userList[i]) ELSE Null
LeaveBattle(s) ==
    LET i == SearchStop(s, [j \in 1 .. Len(s.battles) |-> ComparedName(s, j)])
        b == s.battles[i]
        n == ComparedName(s, i)
    IN  IF i = 0 THEN s
        ELSE IF n = Null \/ ~Fights(s, b, n) THEN Crash(s)
        ELSE Drop(Release(s, OtherSide(s, b, n)), i)

MutDisconnectKeepsUser(s, c) ==
    LET k == UserOf(s, c)
    IN  IF k = 0 THEN s
        ELSE IF s.heap[s.userList[k]].status = "BATTLING" THEN LeaveBattle(s) ELSE s
(* With one entry per connection the loop over the users removes one.      *)
UserDisconnected(s, c) ==
    LET k == UserOf(s, c)
        p == s.userList[k]
        t == IF s.heap[p].status = "BATTLING" THEN LeaveBattle(s) ELSE s
    IN  IF k = 0 THEN s
        ELSE [t EXCEPT !.userList = RemoveAt(@, k), !.heap[p] = Freed(t, p)]
=============================================================================
