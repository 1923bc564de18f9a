------------------------------- MODULE Lobby -------------------------------
(***************************************************************************)
(* What the Pokemon server promises: everybody fights at most one opponent,*)
(* a fight between two players is a fight for both of them, it begins only *)
(* between players that are free and ends for both of them at once.        *)
(***************************************************************************)
CONSTANTS Names, Server, Nobody
VARIABLE opponent       \* the opponent of each player

Free(n) == opponent[n] = Nobody

Init == opponent = [n \in Names |-> Nobody]

Begin(a, b) ==
    /\ Free(a) /\ Free(b)
    /\ opponent' = [opponent EXCEPT ![a] = b, ![b] = a]
BeginServer(a) ==
    /\ Free(a)
    /\ opponent' = [opponent EXCEPT ![a] = Server]
End(a) ==
    /\ ~Free(a)
    /\ opponent' = [n \in Names |-> IF n = a \/ opponent[n] = a THEN Nobody ELSE opponent[n]]

Next == \E a \in Names :
            \/ \E b \in Names \ {a} : Begin(a, b)
            \/ BeginServer(a)
            \/ End(a)

Spec == Init /\ [][Next]_opponent

-----------------------------------------------------------------------------
TypeOK == opponent \in [Names -> Names \cup {Server, Nobody}]

(* A fight is a fight for both: whoever has a player as his opponent is    *)
(* that player's opponent, and nobody is his own.                          *)
Mutual == \A a, b \in Names : opponent[a] = b => a # b /\ opponent[b] = a
=============================================================================
