------------------------------ MODULE Pokemons ------------------------------
(***************************************************************************)
(* A Pokemon of the server (PokemonBase.cpp, VariousPokemon.cpp): what the *)
(* skills do (PokemonSkill.cpp), what its type adds to an attack, and how  *)
(* it grows.  Chance is a choice: an operator that throws dice returns the *)
(* set of what may come out.                                               *)
(***************************************************************************)
EXTENDS Integers, Sequences, FiniteSets
CONSTANTS
    BeyondInt       \* what the build makes of an infinite double converted to int
ASSUME DamageAssumption == BeyondInt \in Int

(* PokemonType, PokemonAttribute, BuffType *)
HIGH_ATTACK == 0
HIGH_HITPOINT == 1
HIGH_DEFENSE == 2
HIGH_SPEED == 3

FIRE == 0
WATER == 1
GRASS == 2

ATK_UP_L == 3
DEF_UP_L == 6
SPD_UP_S == 7
SPD_UP_L == 9
ATK_DOWN_S == 10
ATK_DOWN_L == 12
DEF_DOWN_S == 13
DEF_DOWN_M == 14
SPD_DOWN_S == 16
SPD_DOWN_M == 17
REVIVE == 19
POISONING == 20
DAMAGE_HALF == 21
DAMAGE_INVALID == 22
SKILL_DAMAGE_UP == 23
SKILL_DAMAGE_DOUBLE == 24
SLIENT == 25
SLEEPING == 26
PALSYING == 27

Buff(id, turns) == [buffId |-> id, turnCnt |-> turns]
NoBuff == Buff(0, 0)
AttackResult == [selfBuf |-> NoBuff, destBuf |-> NoBuff, selfDeltaHp |-> 0, destDeltaHp |-> 0]

-----------------------------------------------------------------------------
(* The effect of a buff on a property.  Ids 1 to 18 are ATK, DEF and SPD,  *)
(* three sizes up and then the same down.                                  *)
Property(id) == <<"ATK", "DEF", "SPD">>[(((id - 1) \div 3) % 3) + 1]
Tenths(id) == (IF id <= 9 THEN <<11, 12, 13>> ELSE <<9, 8, 7>>)[((id - 1) % 3) + 1]
Scaled(pkm, id) ==
    IF id \in 1 .. 18
    THEN [pkm EXCEPT !.cur[Property(id)] = (@ * Tenths(id)) \div 10]
    ELSE pkm

(* DAMAGE: for the values of the instances the formula in doubles comes to *)
(* the same.  A defence of 0 makes the double infinite (or no number).     *)
calDamage(user, dest, power) ==
    IF dest.cur["DEF"] = 0 THEN BeyondInt
    ELSE ((user.level + 10) * user.cur["ATK"] * power) \div (250 * dest.cur["DEF"]) + 1

Hit(user, dest, power) == [AttackResult EXCEPT !.destDeltaHp = calDamage(user, dest, power)]
Times(r, tenths) == [r EXCEPT !.destDeltaHp = (@ * tenths) \div 10]
ForSelf(r, id, turns) == [r EXCEPT !.selfBuf = Buff(id, turns)]
ForDest(r, id, turns) == [r EXCEPT !.destBuf = Buff(id, turns)]
Perhaps(r, id, turns) == {r, ForDest(r, id, turns)}
Recoil(r, hundredths) == [r EXCEPT !.selfDeltaHp = (r.destDeltaHp * hundredths) \div 100]
Drain(r) == [r EXCEPT !.selfDeltaHp = -(r.destDeltaHp \div 2)]

(* The skills.  useSkillByName of a name that is not registered does       *)
(* nothing.                                                                *)
Skill(name, user, dest) ==
    LET hit(power) == Hit(user, dest, power)
        more(r, power) == [r EXCEPT !.destDeltaHp = @ + calDamage(user, dest, power)]
        apple == Times(hit(80), CASE dest.attr = FIRE -> 12 [] dest.attr = GRASS -> 8
                                  [] OTHER -> 10)
        liquid == Times(hit(90), IF dest.attr = FIRE THEN 13 ELSE 10)
        storm == Times(hit(130), IF dest.attr = WATER THEN 12 ELSE 10)
        once == hit(75)
        rage == {once, more(once, 65), more(more(once, 65), 50)}
    IN  CASE name = "Agility" -> {ForSelf(AttackResult, SPD_UP_L, 3)}
          [] name = "AppleAcid" -> Perhaps(apple, DEF_DOWN_M, 2)
          [] name = "BodySlam" -> Perhaps(hit(85), PALSYING, 2)
          [] name = "BulletSeed" -> {[AttackResult EXCEPT !.destDeltaHp =
                                        n * calDamage(user, dest, 25)] : n \in 2 .. 4}
          [] name = "Counter" -> {[AttackResult EXCEPT !.destDeltaHp =
                (calDamage(user, dest, 65) * (2 * user.HP - user.curHP)) \div user.HP]}
          [] name = "DoubleEdge" -> {Recoil(hit(120), 40)}
          [] name = "FireBlast" -> Perhaps(hit(110), POISONING, 3)
          [] name = "FlameCharge" -> {ForDest(hit(50), SPD_UP_L, 2)}
          [] name = "FlareBlitz" -> Perhaps(Recoil(hit(110), 45), POISONING, 3)
          [] name = "GrassyTerrain" ->
                {[ForDest(ForSelf(AttackResult, SKILL_DAMAGE_UP, 63), ATK_DOWN_S, 1)
                    EXCEPT !.selfDeltaHp = -((user.HP * 2) \div 10)]}
          [] name = "DragonPulse" -> {hit(85)}
          [] name = "KarateChop" -> {hit(75)}
          [] name = "MegaPunch" -> {hit(110)}
          [] name = "Pound" -> {hit(70)}
          [] name = "IcyWind" -> {ForDest(hit(75), SPD_DOWN_M, 3)}
          [] name = "LeafStorm" -> {ForSelf(storm, ATK_DOWN_L, 2)}
          [] name = "LeechLife" -> {Drain(hit(75))}
          [] name = "MegaDrain" -> {Drain(hit(85))}
          [] name = "Liquidation" -> Perhaps(liquid, DEF_DOWN_M, 3)
          [] name = "MaxSteelspike" -> {ForSelf(hit(100), DEF_UP_L, 2)}
          [] name = "Outrage" -> {ForSelf(r, SLEEPING, 2) : r \in rage}
          [] name = "PoisonSting" -> {ForDest(hit(50), POISONING, 5)}
          [] name = "Psybeam" -> Perhaps(hit(40), PALSYING, 3)
          [] name = "QuickAttack" -> {ForSelf(hit(70), SPD_UP_L, 2)}
          [] name = "QuickGuard" -> {IF dest.cur["SPD"] > user.cur["SPD"]
                                     THEN ForSelf(AttackResult, DAMAGE_INVALID, 2)
                                     ELSE AttackResult}
          [] name = "Reflect" -> {ForSelf(AttackResult, DAMAGE_HALF, 3)}
          [] name = "SandAttack" -> {ForDest(hit(60), SPD_DOWN_M, 3)}
          [] name = "SolarBlade" -> {ForSelf(AttackResult, SKILL_DAMAGE_DOUBLE, 2)}
          [] name = "Supersonic" -> Perhaps(hit(40), SLEEPING, 2)
          [] name = "SurgingStrikes" -> {[once EXCEPT !.destDeltaHp = 2 * @]}
          [] name = "SwordsDance" -> {ForSelf(AttackResult, ATK_UP_L, 3)}
          [] OTHER -> {AttackResult}

(* What the type of the user may add.  A Pokemon of many hit points may    *)
(* turn a buff into the next one, also an ATK_UP_L into a DEF_UP_S.        *)
TypeBonus(r, type) ==
    CASE type = HIGH_ATTACK -> Times(r, 12)
      [] type = HIGH_HITPOINT /\ r.selfBuf.buffId \in {1, 3, 4, 6, 7, 9} ->
            [r EXCEPT !.selfBuf = Buff(@.buffId + 1, @.turnCnt + 1)]
      [] type = HIGH_SPEED /\ r.selfBuf.buffId = 0 -> ForSelf(r, DAMAGE_HALF, 1)
      [] OTHER -> r
Attack(user, dest, name) ==
    UNION { {r, TypeBonus(r, user.type)} \cup
            IF user.type = HIGH_DEFENSE /\ r.destBuf.buffId = 0
            THEN {ForDest(r, id, 1) : id \in {POISONING, SPD_DOWN_S, DEF_DOWN_S, ATK_DOWN_S}}
            ELSE {} : r \in Skill(name, user, dest) }

-----------------------------------------------------------------------------
(* Growth.  What is stored of a Pokemon: its level, its experience and its *)
(* four properties.                                                        *)
MAX_LEVEL == 15
LEVEL_UP_EXP == <<1, 2, 3, 5, 7, 11, 17, 25, 31, 39, 48, 61, 76, 83>>

(* levelUp: the growth of the species, and perhaps one point more of the   *)
(* property the type is known for.                                         *)
Strong(type) == <<"ATK", "HP", "DEF", "SPD">>[type + 1]
LevelUps(row, inc, type) ==
    LET grown == [row EXCEPT !.prop = [q \in DOMAIN @ |-> @[q] + inc[q]]]
    IN  {grown, [grown EXCEPT !.prop[Strong(type)] = @ + 1]}

\* Mutant: one level at most.
GainOnce(row, exp, inc, type) ==
    LET r == [row EXCEPT !.exp = @ + exp]
    IN  IF r.level < MAX_LEVEL /\ r.exp >= LEVEL_UP_EXP[r.level]
        THEN {[g EXCEPT !.exp = @ - LEVEL_UP_EXP[r.level], !.level = @ + 1] :
                g \in LevelUps(r, inc, type)}
        ELSE {r}
\* Mutant: the level goes up before it is paid for, at the price of the next.
GainDear(row, exp, inc, type) ==
    LET r == [row EXCEPT !.exp = @ + exp]
        next == IF r.level + 1 < MAX_LEVEL THEN r.level + 1 ELSE r.level
    IN  IF r.level < MAX_LEVEL /\ r.exp >= LEVEL_UP_EXP[r.level]
        THEN {[g EXCEPT !.exp = @ - LEVEL_UP_EXP[next], !.level = @ + 1] :
                g \in LevelUps(r, inc, type)}
        ELSE {r}
(* gainExperience: as many levels as the experience pays for.              *)
Gain(row, exp, inc, type) ==
    LET rows[n \in 0 .. MAX_LEVEL] ==
            IF n = 0 THEN {[row EXCEPT !.exp = @ + exp]}
            ELSE UNION { IF r.level < MAX_LEVEL /\ r.exp >= LEVEL_UP_EXP[r.level]
                         THEN {[g EXCEPT !.exp = @ - LEVEL_UP_EXP[r.level], !.level = @ + 1] :
                                   g \in LevelUps(r, inc, type)}
                         ELSE {r} : r \in rows[n - 1] }
    IN  IF exp <= 0 THEN {row} ELSE rows[MAX_LEVEL]
=============================================================================
