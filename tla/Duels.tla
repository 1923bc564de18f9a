-------------------------------- MODULE Duels --------------------------------
(***************************************************************************)
(* What a duel costs (slotGetBattleResult, TransferPokemon, User.cpp): the *)
(* loser has to give the winner one of up to three Pokemon the server      *)
(* picks for him.  The tables of the data base hold who owns what; each    *)
(* session keeps a list of its own, to which every duel appends.  The      *)
(* battles are those of BattleField; the Pokemon that fight are the first  *)
(* of their owners.  A invites, B answers and chooses his Pokemon from     *)
(* what his client last got to show.                                       *)
(***************************************************************************)
EXTENDS BattleField

\* Signing up gives everybody Pokemon to begin with.
ASSUME DuelAssumption == \A m \in Matches : m.owned \in [Sides -> Nat \ {0}]

VARIABLES
    up,             \* the server has not followed a null pointer
    invitation,     \* of A: none, chosen, or forgotten with the User that sent it
    shown,          \* pkmDataModel_t of B's client: his Pokemon, as he last asked
    tables,         \* user_<name>: which Pokemon has which PKM_ID
    nextId,         \* AUTO_INCREMENT of each table
    list,           \* m_pokemonList of each session
    offer,          \* ids the loser is asked to choose from, on his screen
    made,           \* all Pokemon there ever were (history)
    given           \* who has given one away since he logged in (history)
owners == <<tables, nextId, made>>
duel == <<up, invitation, shown, owners, list, offer, given>>

\* The rows come in an order the query does not state.
Ids(table) == SetToSeq(DOMAIN table)
UpdateUserInfo(u) == list[u] \o Ids(tables[u])

\* A Pokemon is known by the first row it had.
DuelInit ==
    /\ Init
    /\ up = TRUE /\ invitation = "none"
    /\ tables = [u \in Sides |-> [id \in 1 .. match.owned[u] |-> <<u, id>>]]
    /\ nextId = [u \in Sides |-> match.owned[u] + 1]
    /\ shown = DOMAIN tables["B"]
    /\ list = [u \in Sides |-> IF u \in match.users THEN Ids(tables[u]) ELSE <<>>]
    /\ offer = [u \in Sides |-> {}]
    /\ made = UNION {{tables[u][id] : id \in DOMAIN tables[u]} : u \in Sides}
    /\ given = {}

-----------------------------------------------------------------------------
Insert(table, id, pkm) == [i \in DOMAIN table \cup {id} |-> IF i = id THEN pkm ELSE table[i]]

(* The end of a duel.  The lists of both users grow by what they own now.  *)
(* A user who lost is offered three places of his list; an id he does not  *)
(* own any more makes no Pokemon, and its description is set all the same. *)
(* The server gives the winner a copy of the Pokemon that fought.          *)
Offered(ids) ==
    LET places == {p \in SUBSET DOMAIN ids : Cardinality(p) = AtMost(3, Len(ids))}
    IN  {{ids[i] : i \in p} : p \in places}
DuelLost(l) ==
    /\ list' = [u \in Sides |-> IF u \in match.users THEN UpdateUserInfo(u) ELSE <<>>]
    /\ \E ids \in Offered(list'[l]) :
        IF ids \subseteq DOMAIN tables[l]
        THEN offer' = [offer EXCEPT ![l] = ids] /\ up' = up
        ELSE up' = FALSE /\ offer' = offer
    /\ UNCHANGED <<invitation, shown, owners, given>>
DuelWon(w) ==
    /\ list' = [list EXCEPT ![w] = UpdateUserInfo(w)]
    /\ tables' = [tables EXCEPT ![w] = Insert(@, nextId[w], <<w, nextId[w]>>)]
    /\ nextId' = [nextId EXCEPT ![w] = @ + 1]
    /\ made' = made \cup {<<w, nextId[w]>>}
    /\ UNCHANGED <<up, invitation, shown, offer, given>>
BattleEnded(w) ==
    IF Other(w) \in match.users THEN DuelLost(Other(w)) ELSE DuelWon(w)

(* HandleBattleInviteResponse, or BattleInvite for a battle against the    *)
(* server, where A has just fetched his list.  An id that is not in the    *)
(* table makes no Pokemon, and its description is set all the same.  Which *)
(* Pokemon A chose is kept in his User: if A has logged in since, it is    *)
(* whatever was in the memory of the new one.                              *)
Answered ==
    /\ invitation # "none" /\ 1 \in shown
    /\ \/ 1 \in DOMAIN tables["B"] /\ up' = up /\ invitation' = "none"
       \/ /\ 1 \notin DOMAIN tables["B"] \/ invitation = "forgotten"
          /\ up' = FALSE /\ invitation' = invitation
Begin ==
    /\ \A u \in Sides : offer[u] = {}
    /\ IF match.users = Sides THEN Answered
       ELSE 1 \in DOMAIN tables["A"] /\ UNCHANGED <<up, invitation>>
    /\ UNCHANGED <<shown, owners, list, offer, given>>

(* The battles: a duel ends with the above.                                *)
Duel ==
    /\ up /\ Next
    /\ CASE Over(battle') /\ match.mode = "DUEL" -> BattleEnded(battle'.winner)
         [] Over(battle) /\ ~Over(battle') -> Begin
         [] OTHER -> UNCHANGED duel

(* A chooses from a list he has just fetched, and invites B to the next    *)
(* battle; B may refuse.                                                   *)
BattleInvite ==
    /\ up /\ match.users = Sides /\ Over(battle) /\ battles < MaxBattles
    /\ offer["A"] = {} /\ 1 \in DOMAIN tables["A"]
    /\ invitation' = "chosen"
    /\ UNCHANGED <<up, shown, owners, list, offer, given, vars>>
Refuse ==
    /\ up /\ invitation # "none" /\ offer["B"] = {}
    /\ invitation' = "none"
    /\ UNCHANGED <<up, shown, owners, list, offer, given, vars>>
(* refreshBtn: B asks for his Pokemon, who is on the main page again.      *)
RefreshList ==
    /\ up /\ "B" \in match.users /\ Over(battle) /\ offer["B"] = {}
    /\ shown' = DOMAIN tables["B"]
    /\ UNCHANGED <<up, invitation, owners, list, offer, given, vars>>

\* Mutants: the row of the loser is not deleted; nobody is given a new one.
TransferKept(from, dest, id) ==
    [tables EXCEPT ![dest] = Insert(@, nextId[dest], tables[from][id])]
TransferHard(from, dest, id) ==
    [tables EXCEPT ![dest] = Insert(@, nextId[dest], tables[from][id]),
                   ![from] = [i \in DOMAIN @ \ {id} |-> @[i]]]
(* transferPokemon: the row is copied to the winner, with an id of his     *)
(* own, and deleted; whoever has none left is given a new one.             *)
Transfer(from, dest, id) ==
    [tables EXCEPT ![dest] = Insert(@, nextId[dest], tables[from][id]),
                   ![from] = IF DOMAIN @ = {id} THEN Insert(<<>>, nextId[from], <<from, nextId[from]>>)
                             ELSE [i \in DOMAIN @ \ {id} |-> @[i]]]
TransferPokemon(l) ==
    /\ up
    /\ \E id \in offer[l] :
            LET bare == DOMAIN tables[l] = {id}
            IN  /\ tables' = Transfer(l, Other(l), id)
                /\ nextId' = [nextId EXCEPT ![Other(l)] = @ + 1, ![l] = IF bare THEN @ + 1 ELSE @]
                /\ made' = IF bare THEN made \cup {<<l, nextId[l]>>} ELSE made
                /\ offer' = [offer EXCEPT ![l] = {}]
                /\ given' = given \cup {l}
                /\ UNCHANGED <<up, invitation, shown, list, vars>>

\* What becomes of the invitation when u logs in again.
Unanswered(u) == IF u = "A" /\ invitation # "none" THEN "forgotten" ELSE "none"
\* Mutant: the list of the session before is appended to.
LoginAppends(u) ==
    /\ up /\ u \in match.users /\ Over(battle)
    /\ list' = [list EXCEPT ![u] = UpdateUserInfo(u)]
    /\ offer' = [offer EXCEPT ![u] = {}]
    /\ given' = given \ {u}
    /\ shown' = IF u = "B" THEN DOMAIN tables["B"] ELSE shown
    /\ invitation' = Unanswered(u)
    /\ UNCHANGED <<up, owners, vars>>
(* A user leaves and logs in again: a new User with a list of its own, and *)
(* a client that has just fetched his Pokemon.  A choice left open is      *)
(* forgotten, and so is the invitation B had; that of A is not.            *)
Login(u) ==
    /\ up /\ u \in match.users /\ Over(battle)
    /\ list' = [list EXCEPT ![u] = Ids(tables[u])]
    /\ offer' = [offer EXCEPT ![u] = {}]
    /\ given' = given \ {u}
    /\ shown' = IF u = "B" THEN DOMAIN tables["B"] ELSE shown
    /\ invitation' = Unanswered(u)
    /\ UNCHANGED <<up, owners, vars>>

DuelNext ==
    \/ Duel \/ BattleInvite \/ Refuse \/ RefreshList
    \/ \E u \in Sides : TransferPokemon(u) \/ Login(u)

DuelSpec == DuelInit /\ [][DuelNext]_<<vars, duel>>

-----------------------------------------------------------------------------
\* Duels give Pokemon to others, they neither lose nor double one: of every
\* Pokemon there ever was there is one row in one table, whatever the order
\* of duels, choices and logins (transferPokemon, ServerBackend.cpp:110).
PokemonKept ==
    \A p \in made :
        Cardinality({r \in Sides \X (1 .. nextId["A"] + nextId["B"]) :
                        r[2] \in DOMAIN tables[r[1]] /\ tables[r[1]][r[2]] = p}) = 1

\* However many duels somebody loses, he has a Pokemon to log in and to
\* fight with (User.cpp:18 takes the first for granted).
NobodyWithout == \A u \in Sides : tables[u] # <<>>

\* What brings the server down is an id kept longer than what it names, in
\* one of three ways: the loser of a duel has given a Pokemon away since he
\* logged in, so that the list of his session is out of date (User.cpp:58,
\* PokemonFactory.h:99); B has, and chooses from what his client still
\* shows (ServerBackend.cpp:878, MainPage.qml:245); or A left while his
\* invitation was open and logged in again (ServerBackend.cpp:877,
\* User.cpp:30).  Nobody else's defeat or answer, no victory and no number
\* of duels does the server harm, and a new login makes up for the first
\* two.
FallsOnlyByStaleId ==
    up \/ IF Over(battle) THEN Other(battle.winner) \in given
          ELSE "B" \in given \/ invitation = "forgotten"
=============================================================================
