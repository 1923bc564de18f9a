---------------------------- MODULE BattleField ----------------------------
(***************************************************************************)
(* The battles of two players, one after the other: the turns of the       *)
(* server (BattleField.cpp), the hit points that each player's client      *)
(* shows (BattlePage.qml), and the experience the winner's Pokemon gets.   *)
(* Each player chooses when he likes; the turn is worked out when both     *)
(* have.                                                                   *)
(***************************************************************************)
EXTENDS Pokemons, SequencesExt
CONSTANTS
    Matches,        \* who may fight: each side's species, row and skills; the users
    \* bounds
    MaxTurns,       \* turns of a battle
    MaxBattles      \* battles of a run

Sides == {"A", "B"}
Other(s) == IF s = "A" THEN "B" ELSE "A"
Nobody == "nobody"

\* What the tables hold: strengths that begin at 6 and 12 and only grow, and
\* experience that does not pay for the next level.
Stats == {"ATK", "DEF", "HP", "SPD"}
Settled(row) == row.level < MAX_LEVEL => row.exp < LEVEL_UP_EXP[row.level]
Rows == [level : 1 .. MAX_LEVEL, exp : Nat, prop : [Stats -> Nat]]
Kind(pkm) ==
    /\ pkm.type \in {HIGH_ATTACK, HIGH_HITPOINT, HIGH_DEFENSE, HIGH_SPEED}
    /\ pkm.attr \in {FIRE, WATER, GRASS} /\ pkm.inc \in [Stats -> Nat]
    /\ pkm.row \in Rows /\ pkm.row.prop["HP"] > 0 /\ Settled(pkm.row)
    /\ "" \notin pkm.skills
ASSUME BattleAssumption ==
    /\ MaxTurns \in Nat /\ MaxBattles \in Nat \ {0}
    /\ \A m \in Matches : m.users \subseteq Sides /\ \A s \in Sides : Kind(m[s])

VARIABLES
    match,          \* the Pokemon that fight, from Matches
    rows,           \* what the data base holds of them
    battle,         \* the BattleField
    turns, battles, \* so far
    gained          \* experience each side was ever given (history)
vars == <<match, rows, battle, turns, battles, gained>>

(* A battle holds a Pokemon with its list of buffs for each side, what     *)
(* each side will do, the winner, and the hit points on both screens.  A   *)
(* buff remembers for how many turns it was given and at how many ends of  *)
(* turn it was at work; gone are the ones that ended.                      *)
Fighter(m, row) ==
    LET props == [q \in Stats \ {"HP"} |-> row.prop[q]]
    IN  [level |-> row.level, type |-> m.type, attr |-> m.attr,
         HP |-> row.prop["HP"], curHP |-> row.prop["HP"],
         base |-> props, cur |-> props, buffs |-> <<>>, gone |-> {}]
NewBattle(stored) ==
    [pkm |-> [s \in Sides |-> Fighter(match[s], stored[s])],
     action |-> [s \in Sides |-> ""],
     winner |-> Nobody,
     screen |-> [s \in Sides |-> [my |-> stored[s].prop["HP"],
                                  ta |-> stored[Other(s)].prop["HP"]]]]

Init ==
    /\ match \in Matches
    /\ rows = [s \in Sides |-> match[s].row]
    /\ battle = NewBattle(rows)
    /\ turns = 0 /\ battles = 1
    /\ gained = [s \in Sides |-> 0]

-----------------------------------------------------------------------------
(* handleResult: both sides get their buff, also when there is none; the   *)
(* buffs of the other side dampen the hit, one's own buffs strengthen it   *)
(* or prevent it.                                                          *)
Push(pkm, buff) ==
    [pkm EXCEPT !.buffs = Append(@, [id |-> buff.buffId, left |-> buff.turnCnt,
                                     given |-> buff.turnCnt, felt |-> 0])]
Dampen(hp, buff) ==
    CASE buff.id = DAMAGE_HALF -> hp \div 2
      [] buff.id = DAMAGE_INVALID -> 0
      [] OTHER -> hp
Strengthen(hp, buff) ==
    CASE buff.id = SKILL_DAMAGE_UP -> (hp * 12) \div 10
      [] buff.id = SKILL_DAMAGE_DOUBLE -> hp * 2
      [] OTHER -> hp
Unable(pkm) ==
    \E i \in DOMAIN pkm.buffs : pkm.buffs[i].id \in {SLIENT, PALSYING, SLEEPING}

HandleResult(b, from, r) ==
    LET dest == Other(from)
        user == Scaled(Push(b.pkm[from], r.selfBuf), r.selfBuf.buffId)
        target == Scaled(Push(b.pkm[dest], r.destBuf), r.destBuf.buffId)
        hit == FoldLeft(Strengthen, FoldLeft(Dampen, r.destDeltaHp, target.buffs), user.buffs)
    IN  [battle |-> [b EXCEPT !.pkm[from] = user, !.pkm[dest] = target],
         result |-> IF Unable(user) THEN AttackResult ELSE [r EXCEPT !.destDeltaHp = hit]]

\* Mutant: both players get the same message.
TurnInfoSame(screen, from, r) ==
    LET told == [my |-> r.selfDeltaHp, ta |-> r.destDeltaHp]
    IN  [s \in Sides |-> [my |-> screen[s].my - told.my, ta |-> screen[s].ta - told.ta]]

(* slotGetTurnInfo: what the striker calls self the other calls dest.      *)
TurnInfo(screen, from, r) ==
    [screen EXCEPT ![from] = [my |-> @.my - r.selfDeltaHp, ta |-> @.ta - r.destDeltaHp],
                   ![Other(from)] = [my |-> @.my - r.destDeltaHp, ta |-> @.ta - r.selfDeltaHp]]

AtMost(hp, most) == IF hp <= most THEN hp ELSE most
Hurt(pkm, delta) == [pkm EXCEPT !.curHP = AtMost(@ - delta, pkm.HP)]

checkBattleIsFinished(b) ==
    CASE b.pkm["A"].curHP <= 0 -> [b EXCEPT !.winner = "B"]
      [] b.pkm["A"].curHP > 0 /\ b.pkm["B"].curHP <= 0 -> [b EXCEPT !.winner = "A"]
      [] OTHER -> b
Over(b) == b.winner # Nobody

Strike(b, from) ==
    LET outcome(r) ==
            LET h == HandleResult(b, from, r)
            IN  checkBattleIsFinished(
                    [h.battle EXCEPT
                        !.pkm[from] = Hurt(@, h.result.selfDeltaHp),
                        !.pkm[Other(from)] = Hurt(@, h.result.destDeltaHp),
                        !.screen = TurnInfo(@, from, h.result)])
    IN  {outcome(r) : r \in Attack(b.pkm[from], b.pkm[Other(from)], b.action[from])}

-----------------------------------------------------------------------------
(* queryBuffList: the properties are restored, then each buff takes effect *)
(* and counts down, from the last to the first.  Whenever one ends and is  *)
(* removed, the index goes down twice and the buff before it is left out:  *)
(* it does not count down, and a property it changes is the Pokemon's own  *)
(* until the next end of turn.  Some effects need no visit: a strike is    *)
(* dampened, strengthened or prevented by what is on the list.             *)
Lasting == {DAMAGE_HALF, DAMAGE_INVALID, SKILL_DAMAGE_UP, SKILL_DAMAGE_DOUBLE,
           SLIENT, SLEEPING, PALSYING}
\* Mutant: a buff of one turn more ends already.
EndsSoon(buff) == buff.left <= 2
Ends(buff) == buff.left <= 1
Visited(buffs) ==
    LET n == Len(buffs)
        visit[i \in 1 .. n + 1] == i <= n /\ (i = n \/ ~visit[i + 1] \/ ~Ends(buffs[i + 1]))
    IN  {i \in 1 .. n : visit[i]}
Effect(pkm, id) ==
    CASE id = POISONING -> [pkm EXCEPT !.curHP = @ - (pkm.HP * 15) \div 100]
      [] id = REVIVE -> [pkm EXCEPT !.curHP = AtMost((pkm.HP * 15) \div 100 + @, pkm.HP)]
      [] OTHER -> Scaled(pkm, id)

handleBuffList(pkm) ==
    LET fresh == [pkm EXCEPT !.cur = pkm.base, !.buffs = <<>>]
        visited == Visited(pkm.buffs)
        older(i) == [pkm.buffs[i] EXCEPT
                        !.felt = IF i \in visited \/ pkm.buffs[i].id \in Lasting THEN @ + 1 ELSE @,
                        !.left = IF i \in visited THEN @ - 1 ELSE @]
        \* p: what the buffs behind the i-th have left of the Pokemon
        handle(i, p) ==
            LET q == IF i \in visited THEN Effect(p, pkm.buffs[i].id) ELSE p
            IN  IF i \in visited /\ Ends(pkm.buffs[i])
                THEN [q EXCEPT !.gone = @ \cup {older(i)}]
                ELSE [q EXCEPT !.buffs = <<older(i)>> \o @]
    IN  FoldRight(handle, [i \in DOMAIN pkm.buffs |-> i], fresh)

queryBuffList(b) == [b EXCEPT !.pkm = [s \in Sides |-> handleBuffList(b.pkm[s])]]

(* The faster strikes first; with equal speeds it is A if the speed is     *)
(* even.                                                                   *)
First(b) ==
    LET a == b.pkm["A"].cur["SPD"]
        c == b.pkm["B"].cur["SPD"]
    IN  IF a > c \/ (a = c /\ a % 2 = 0) THEN "A" ELSE "B"

\* Mutant: nobody looks whether the poison took the last hit point.
turnUnchecked(b) ==
    LET one == Strike(b, First(b))
        two == UNION {IF Over(o) THEN {o} ELSE Strike(o, Other(First(b))) : o \in one}
    IN  {IF Over(o) THEN o
         ELSE queryBuffList([o EXCEPT !.action = [s \in Sides |-> ""]]) : o \in two}
turn(b) ==
    LET one == Strike(b, First(b))
        two == UNION {IF Over(o) THEN {o} ELSE Strike(o, Other(First(b))) : o \in one}
        ended(o) == checkBattleIsFinished(
                        queryBuffList([o EXCEPT !.action = [s \in Sides |-> ""]]))
    IN  {IF Over(o) THEN o ELSE ended(o) : o \in two}

-----------------------------------------------------------------------------
(* slotGetBattleResult: the winner's Pokemon gains half again the level of *)
(* the loser's, and its row is saved.  A battle against the server has no  *)
(* user B, who could win.                                                  *)
slotGetBattleResult(b) ==
    LET w == b.winner
        exp == (3 * b.pkm[Other(w)].level) \div 2
    IN  IF Over(b) /\ w \in match.users
        THEN /\ \E row \in Gain(rows[w], exp, match[w].inc, match[w].type) :
                    rows' = [rows EXCEPT ![w] = row]
             /\ gained' = [gained EXCEPT ![w] = @ + exp]
        ELSE UNCHANGED <<rows, gained>>

Play(b) ==
    IF \A s \in Sides : b.action[s] # ""
    THEN /\ turns' = turns + 1
         /\ \E o \in turn(b) : battle' = o /\ slotGetBattleResult(o)
    ELSE battle' = b /\ UNCHANGED <<rows, turns, gained>>

(* HandleBattleOperation: a player chooses, or chooses again while the     *)
(* other has not; the server chooses for the user B that is not there.     *)
SetAction(s, skill) ==
    /\ ~Over(battle) /\ turns < MaxTurns
    /\ s \in match.users /\ skill \in match[s].skills
    /\ LET b == [battle EXCEPT !.action[s] = skill]
       IN  IF "B" \in match.users
           THEN Play(b)
           ELSE \E any \in match["B"].skills : Play([b EXCEPT !.action["B"] = any])
    /\ UNCHANGED <<match, battles>>

(* The same Pokemon meet again: a new battle, with what was stored.        *)
StartBattle ==
    /\ Over(battle) /\ battles < MaxBattles
    /\ battle' = NewBattle(rows)
    /\ battles' = battles + 1 /\ turns' = 0
    /\ UNCHANGED <<match, rows, gained>>

Next ==
    \/ \E s \in Sides : \E skill \in match[s].skills : SetAction(s, skill)
    \/ StartBattle

Spec == Init /\ [][Next]_vars

-----------------------------------------------------------------------------
Props == Stats \ {"HP"}
Buffs == [id : 0 .. PALSYING, left : Int, given : Nat, felt : Nat]
\* Every variable keeps its type.
TypeOK ==
    /\ match \in Matches
    /\ \A s \in Sides :
        LET p == battle.pkm[s]
        IN  /\ rows[s].level \in 1 .. MAX_LEVEL /\ rows[s].exp \in Nat
            /\ p.curHP \in Int /\ p.cur \in [Props -> Nat] /\ p.base \in [Props -> Nat]
            /\ p.buffs \in Seq(Buffs) /\ p.gone \subseteq Buffs
            /\ battle.action[s] \in match[s].skills \cup {""}
            /\ battle.screen[s] \in [my : Int, ta : Int]
            /\ gained[s] \in Nat
    /\ battle.winner \in Sides \cup {Nobody}
    /\ turns \in 0 .. MaxTurns /\ battles \in 1 .. MaxBattles

\* The battle ends with the strike, the recoil or the poison that takes the
\* last hit point of a Pokemon, not a turn later, and never otherwise; and
\* when A wins, A stands (BattleField.cpp:101, called after each strike and
\* after the buffs).  B may win fallen, when both fall by the same strike.
WinnerStands ==
    /\ Over(battle) <=> \E s \in Sides : battle.pkm[s].curHP <= 0
    /\ battle.winner = "A" => battle.pkm["A"].curHP > 0

\* The two screens show the same, and neither shows a Pokemon weaker than
\* it is: the client subtracts what the server tells, which leaves out
\* poison and healing beyond the limit (ServerBackend.cpp:979,
\* BattlePage.qml:111).
ScreensAgree ==
    \A s \in Sides :
        /\ battle.screen[s].my = battle.screen[Other(s)].ta
        /\ battle.screen[s].my >= battle.pkm[s].curHP

\* No effect is taken off the list before it was at work at as many ends of
\* turn as it was given for, although the loop that counts down removes
\* buffs from the list it goes through (BattleField.cpp:307).  An end of
\* turn at which the loop left a strength effect out, so that it is off in
\* the turn that follows, does not count (BattleField.cpp:214-220).
EffectsNotEarly ==
    \A s \in Sides : \A buff \in battle.pkm[s].gone : buff.felt >= buff.given

\* what the levels below the n-th cost
Cost[n \in 1 .. MAX_LEVEL] == IF n = 1 THEN 0 ELSE Cost[n - 1] + LEVEL_UP_EXP[n - 1]

\* Over all battles, what a Pokemon was ever given is what its levels cost
\* and what it still has, it is at the level it can pay for, and its
\* strength is that of its level (PokemonBase.cpp:80).
ExperienceKept ==
    \A s \in Sides :
        LET old == match[s].row
            new == rows[s]
        IN  /\ Cost[new.level] + new.exp = Cost[old.level] + old.exp + gained[s]
            /\ Settled(new)
            /\ \A q \in DOMAIN new.prop :
                LET up == (new.level - old.level) * match[s].inc[q]
                IN  new.prop[q] - old.prop[q] - up \in
                        0 .. (IF q = Strong(match[s].type) THEN new.level - old.level ELSE 0)
=============================================================================
