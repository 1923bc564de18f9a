------------------------------ MODULE Channel ------------------------------
(***************************************************************************)
(* What one side of a connection is promised: the messages of the other    *)
(* side, whole, once each and in their order, until the connection is      *)
(* spoiled.  Nothing is promised of a spoiled connection.  The models of   *)
(* the game (ServerBackend, PokemonGame) take this for granted.            *)
(***************************************************************************)
EXTENDS Naturals, Sequences
CONSTANT Links          \* connections
VARIABLES sent,         \* per connection: messages sent, numbered 1, 2, ...
          got,          \* per connection: what was handed on, in order
          spoiled       \* connections of which nothing is promised

Init ==
    /\ sent = [c \in Links |-> 0]
    /\ got = [c \in Links |-> <<>>]
    /\ spoiled = {}

Send(c) ==
    /\ sent' = [sent EXCEPT ![c] = @ + 1]
    /\ UNCHANGED <<got, spoiled>>

\* One or several of the next messages are handed on.
Deliver(c) ==
    /\ c \notin spoiled
    /\ \E n \in 1 .. sent[c] - Len(got[c]) :
        got' = [got EXCEPT ![c] = @ \o [i \in 1 .. n |-> Len(@) + i]]
    /\ UNCHANGED <<sent, spoiled>>

Spoil(c) ==
    /\ spoiled' = spoiled \cup {c}
    /\ \A d \in Links \ {c} : got'[d] = got[d]
    /\ UNCHANGED sent

Next == \E c \in Links : Send(c) \/ Deliver(c) \/ Spoil(c)
Spec == Init /\ [][Next]_<<sent, got, spoiled>>
=============================================================================
