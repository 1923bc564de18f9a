-------------------------- MODULE BattleField_proofs --------------------------
(***************************************************************************)
(* What holds of every battle, whatever the Pokemon, the choices of the    *)
(* players, the dice and the number of turns and battles: it ends when a   *)
(* Pokemon falls and never otherwise, both screens show the same, no       *)
(* effect goes before it was at work for as long as it was given for, and  *)
(* no experience is lost or made.  And what holds of the tables however    *)
(* many duels there are, whoever wins them and whatever is chosen: every   *)
(* Pokemon there ever was is in one row of one table, nobody is left       *)
(* without one, and only ids kept too long bring the server down.          *)
(***************************************************************************)
EXTENDS Duels, Induction, FiniteSetTheorems

-----------------------------------------------------------------------------
(* Types.  A skill gives none of the buffs that heal (REVIVE).             *)
Given == 0 .. PALSYING \ {REVIVE}
BuffInfo == [buffId : Given, turnCnt : Nat]
Outcome == [selfBuf : BuffInfo, destBuf : BuffInfo, selfDeltaHp : Int, destDeltaHp : Int]
OnPkm == [id : Given, left : Int, given : Nat, felt : Nat]
Held == {b \in OnPkm : b.given <= b.left + b.felt}
Gone == {b \in OnPkm : b.given <= b.felt}
Fighters ==
    [level : 1 .. MAX_LEVEL, type : 0 .. 3, attr : 0 .. 2, HP : Nat \ {0}, curHP : Int,
     base : [Props -> Nat], cur : [Props -> Nat], buffs : Seq(Held), gone : SUBSET Gone]
Screens == [my : Int, ta : Int]

LEMMA Names ==
    /\ ATK_UP_L \in Given /\ DEF_UP_L \in Given /\ SPD_UP_S \in Given /\ SPD_UP_L \in Given
    /\ ATK_DOWN_S \in Given /\ ATK_DOWN_L \in Given /\ DEF_DOWN_S \in Given
    /\ DEF_DOWN_M \in Given /\ SPD_DOWN_S \in Given /\ SPD_DOWN_M \in Given
    /\ POISONING \in Given /\ DAMAGE_HALF \in Given /\ DAMAGE_INVALID \in Given
    /\ SKILL_DAMAGE_UP \in Given /\ SKILL_DAMAGE_DOUBLE \in Given /\ SLEEPING \in Given
    /\ PALSYING \in Given
BY DEF Given, ATK_UP_L, DEF_UP_L, SPD_UP_S, SPD_UP_L, ATK_DOWN_S, ATK_DOWN_L, DEF_DOWN_S,
       DEF_DOWN_M, SPD_DOWN_S, SPD_DOWN_M, REVIVE, POISONING, DAMAGE_HALF, DAMAGE_INVALID,
       SKILL_DAMAGE_UP, SKILL_DAMAGE_DOUBLE, SLEEPING, PALSYING

LEMMA StatsAre ==
    /\ Props = {"ATK", "DEF", "SPD"} /\ "ATK" \in Props /\ "DEF" \in Props /\ "SPD" \in Props
    /\ Props \subseteq Stats /\ "HP" \in Stats
BY DEF Props, Stats

LEMMA BuffTyped == ASSUME NEW id \in Given, NEW n \in Nat PROVE Buff(id, n) \in BuffInfo
BY DEF Buff, BuffInfo

LEMMA NothingDone == AttackResult \in Outcome
<1>1. 0 \in Given
  BY DEF Given, REVIVE, PALSYING
<1>2. NoBuff \in BuffInfo
  BY <1>1, BuffTyped DEF NoBuff
<1> QED
  BY <1>2 DEF AttackResult, Outcome

LEMMA FighterIs ==
    ASSUME NEW p \in Fighters
    PROVE  /\ p.level \in 1 .. MAX_LEVEL /\ p.level \in Nat
           /\ p.type \in 0 .. 3 /\ p.attr \in 0 .. 2 /\ p.HP \in Nat \ {0} /\ p.curHP \in Int
           /\ p.base \in [Props -> Nat] /\ p.cur \in [Props -> Nat]
           /\ p.cur["ATK"] \in Nat /\ p.cur["DEF"] \in Nat /\ p.cur["SPD"] \in Nat
           /\ p.buffs \in Seq(Held) /\ p.gone \in SUBSET Gone
           /\ p = [level |-> p.level, type |-> p.type, attr |-> p.attr, HP |-> p.HP,
                   curHP |-> p.curHP, base |-> p.base, cur |-> p.cur, buffs |-> p.buffs,
                   gone |-> p.gone]
<1>1. /\ p.level \in 1 .. MAX_LEVEL
      /\ p.type \in 0 .. 3 /\ p.attr \in 0 .. 2 /\ p.HP \in Nat \ {0} /\ p.curHP \in Int
      /\ p.base \in [Props -> Nat] /\ p.cur \in [Props -> Nat]
      /\ p.buffs \in Seq(Held) /\ p.gone \in SUBSET Gone
      /\ p = [level |-> p.level, type |-> p.type, attr |-> p.attr, HP |-> p.HP,
              curHP |-> p.curHP, base |-> p.base, cur |-> p.cur, buffs |-> p.buffs,
              gone |-> p.gone]
  BY DEF Fighters
<1>2. p.level \in Nat
  BY <1>1 DEF MAX_LEVEL
<1>3. p.cur["ATK"] \in Nat /\ p.cur["DEF"] \in Nat /\ p.cur["SPD"] \in Nat
  BY <1>1, StatsAre
<1> QED
  BY <1>1, <1>2, <1>3

LEMMA Damage ==
    ASSUME NEW user \in Fighters, NEW dest \in Fighters, NEW power \in Nat
    PROVE  calDamage(user, dest, power) \in Int
<1> DEFINE a == user.cur["ATK"]
           d == dest.cur["DEF"]
           l == user.level + 10
<1>1. a \in Nat /\ d \in Nat /\ l \in Nat
  BY FighterIs
<1> HIDE DEF a, d, l
<1>2. l * a \in Nat
  BY <1>1
<1> DEFINE x == l * a
<1>3. x * power \in Nat
  BY <1>2
<1> DEFINE y == x * power
<1>4. ASSUME d # 0 PROVE y \div (250 * d) \in Int
  <2>1. 250 * d \in Nat \ {0}
    BY <1>1, <1>4
  <2> DEFINE z == 250 * d
  <2> HIDE DEF x, y, z
  <2>2. y \div z \in Int
    BY <1>3, <2>1 DEF y, z
  <2> QED
    BY <2>2 DEF z
<1>5. calDamage(user, dest, power) = IF d = 0 THEN BeyondInt ELSE y \div (250 * d) + 1
  BY DEF calDamage, a, d, l
<1> HIDE DEF y
<1>6. BeyondInt \in Int
  BY DamageAssumption
<1> QED
  BY <1>4, <1>5, <1>6

-----------------------------------------------------------------------------
(* The skills.                                                             *)
LEMMA Combined ==
    ASSUME NEW r \in Outcome, NEW id \in Given, NEW n \in Nat
    PROVE  /\ Times(r, n) \in Outcome /\ ForSelf(r, id, n) \in Outcome
           /\ ForDest(r, id, n) \in Outcome /\ Perhaps(r, id, n) \subseteq Outcome
           /\ Recoil(r, n) \in Outcome /\ Drain(r) \in Outcome
           /\ [r EXCEPT !.destDeltaHp = 2 * @] \in Outcome
<1> DEFINE d == r.destDeltaHp
           b == Buff(id, n)
<1>1. d \in Int /\ b \in BuffInfo
  BY BuffTyped DEF Outcome
<1>2. d * n \in Int
  BY <1>1
<1> DEFINE y == d * n
<1>2a. 2 * d \in Int /\ d \div 2 \in Int
  BY <1>1
<1> HIDE DEF y
<1>3. y \div 10 \in Int /\ y \div 100 \in Int
  BY <1>2 DEF y
<1>4. -(d \div 2) \in Int
  BY <1>2a
<1>5. Times(r, n) \in Outcome
  BY <1>3 DEF Times, Outcome, y
<1>6. ForSelf(r, id, n) \in Outcome
  <2> HIDE DEF b
  <2> QED
    BY <1>1 DEF ForSelf, Outcome, b
<1>7. ForDest(r, id, n) \in Outcome
  BY <1>1 DEF ForDest, Outcome
<1>8. Recoil(r, n) \in Outcome
  BY <1>3 DEF Recoil, Outcome, y
<1>9. Drain(r) \in Outcome
  BY <1>4 DEF Drain, Outcome
<1>10. [r EXCEPT !.destDeltaHp = 2 * @] \in Outcome
  BY <1>2a DEF Outcome
<1> QED
  BY <1>5, <1>6, <1>7, <1>8, <1>9, <1>10 DEF Perhaps

LEMMA HitIs ==
    ASSUME NEW user \in Fighters, NEW dest \in Fighters, NEW power \in Nat
    PROVE  /\ Hit(user, dest, power) \in Outcome
           /\ \A r \in Outcome :
                [r EXCEPT !.destDeltaHp = @ + calDamage(user, dest, power)] \in Outcome
           /\ \A n \in Nat :
                [AttackResult EXCEPT !.destDeltaHp = n * calDamage(user, dest, power)] \in Outcome
<1> DEFINE c == calDamage(user, dest, power)
<1>1. c \in Int
  BY Damage
<1> HIDE DEF c
<1>2. ASSUME NEW r \in Outcome, NEW x \in Int PROVE [r EXCEPT !.destDeltaHp = x] \in Outcome
  BY DEF Outcome
<1>3. \A n \in Nat : n * c \in Int
  BY <1>1
<1>4. \A r \in Outcome : r.destDeltaHp + c \in Int
  BY <1>1 DEF Outcome
<1> QED
  BY <1>1, <1>2, <1>3, <1>4, NothingDone DEF Hit, c

LEMMA SkillIs ==
    ASSUME NEW name, NEW user \in Fighters, NEW dest \in Fighters
    PROVE  Skill(name, user, dest) \subseteq Outcome
<1> DEFINE hit(power) == Hit(user, dest, power)
           more(r, power) == [r EXCEPT !.destDeltaHp = @ + calDamage(user, dest, power)]
           apple == Times(hit(80), CASE dest.attr = FIRE -> 12 [] dest.attr = GRASS -> 8
                                     [] OTHER -> 10)
           liquid == Times(hit(90), IF dest.attr = FIRE THEN 13 ELSE 10)
           storm == Times(hit(130), IF dest.attr = WATER THEN 12 ELSE 10)
           once == hit(75)
           rage == {once, more(once, 65), more(more(once, 65), 50)}
           counter == [AttackResult EXCEPT !.destDeltaHp =
                (calDamage(user, dest, 65) * (2 * user.HP - user.curHP)) \div user.HP]
           twice == [once EXCEPT !.destDeltaHp = 2 * @]
           seeds(n) == [AttackResult EXCEPT !.destDeltaHp = n * calDamage(user, dest, 25)]
           grassy == [ForDest(ForSelf(AttackResult, SKILL_DAMAGE_UP, 63), ATK_DOWN_S, 1)
                    EXCEPT !.selfDeltaHp = -((user.HP * 2) \div 10)]
<1>1. \A power \in Nat : hit(power) \in Outcome
  BY HitIs
<1>2. \A r \in Outcome, power \in Nat : more(r, power) \in Outcome
  BY HitIs
<1>3. apple \in Outcome /\ liquid \in Outcome /\ storm \in Outcome /\ once \in Outcome
  <2>1. \A r \in Outcome, n \in Nat : Times(r, n) \in Outcome
    BY Names, Combined
  <2>2. hit(80) \in Outcome /\ hit(90) \in Outcome /\ hit(130) \in Outcome /\ once \in Outcome
    BY <1>1
  <2> HIDE DEF hit, once
  <2> QED
    BY <2>1, <2>2
<1>4. rage \subseteq Outcome
  <2>1. once \in Outcome
    BY <1>3
  <2>2. more(once, 65) \in Outcome
    BY <1>2, <2>1
  <2>3. more(more(once, 65), 50) \in Outcome
    BY <1>2, <2>2
  <2> HIDE DEF more, once
  <2> QED
    BY <2>1, <2>2, <2>3
<1>5. counter \in Outcome
  <2> DEFINE c == calDamage(user, dest, 65)
             s == 2 * user.HP - user.curHP
  <2>1. c \in Int /\ s \in Int /\ user.HP \in Nat \ {0}
    <3>1. user.HP \in Nat \ {0} /\ user.curHP \in Int
      BY FighterIs
    <3>2. c \in Int
      BY Damage
    <3> QED
      BY <3>1, <3>2
  <2> HIDE DEF c, s
  <2>2. c * s \in Int
    BY <2>1
  <2> DEFINE x == c * s
             h == user.HP
  <2> HIDE DEF x, h
  <2>3. x \div h \in Int
    BY <2>1, <2>2 DEF x, h
  <2>4. counter = [AttackResult EXCEPT !.destDeltaHp = x \div h]
    BY DEF x, h, c, s
  <2> HIDE DEF counter
  <2> QED
    BY <2>3, <2>4, NothingDone DEF Outcome
<1>6. grassy \in Outcome
  <2>1. ForDest(ForSelf(AttackResult, SKILL_DAMAGE_UP, 63), ATK_DOWN_S, 1) \in Outcome
    BY NothingDone, Names, Combined
  <2>2. -((user.HP * 2) \div 10) \in Int
    BY FighterIs
  <2> QED
    BY <2>1, <2>2 DEF Outcome
<1>7. \A r \in Outcome, n \in Nat, id \in Given :
            /\ ForSelf(r, id, n) \in Outcome /\ ForDest(r, id, n) \in Outcome
            /\ Perhaps(r, id, n) \subseteq Outcome /\ Recoil(r, n) \in Outcome
  BY Combined
<1>7a. \A r \in Outcome, n \in Nat, id \in Given : ForSelf(r, id, n) \in Outcome
  BY <1>7
<1>7b. \A r \in Outcome, n \in Nat, id \in Given : ForDest(r, id, n) \in Outcome
  BY <1>7
<1>7c. \A r \in Outcome, n \in Nat, id \in Given : Perhaps(r, id, n) \subseteq Outcome
  BY <1>7
<1>7d. \A r \in Outcome, n \in Nat : Recoil(r, n) \in Outcome
  BY <1>7, Names
<1>8. \A r \in Outcome : Drain(r) \in Outcome
  BY Names, Combined
<1>9. twice \in Outcome /\ \A n \in 2 .. 4 : seeds(n) \in Outcome
  <2>1. \A n \in 2 .. 4 : n \in Nat
    OBVIOUS
  <2>2. \A n \in 2 .. 4 : seeds(n) \in Outcome
    BY <2>1, HitIs
  <2>3. 1 \in Nat /\ ATK_UP_L \in Given
    BY Names
  <2>4. twice \in Outcome
    <3> HIDE DEF once
    <3> QED
      BY <1>3, <2>3, Combined
  <2> QED
    BY <2>2, <2>4
<1> DEFINE o == Skill(name, user, dest)
<1>10. /\ name = "Agility" => o = {ForSelf(AttackResult, SPD_UP_L, 3)}
       /\ name = "AppleAcid" => o = Perhaps(apple, DEF_DOWN_M, 2)
       /\ name = "BodySlam" => o = Perhaps(hit(85), PALSYING, 2)
       /\ name = "BulletSeed" => o = {seeds(n) : n \in 2 .. 4}
  BY ZenonT(40) DEF Skill
<1>11. /\ name = "Counter" => o = {counter}
       /\ name = "DoubleEdge" => o = {Recoil(hit(120), 40)}
       /\ name = "FireBlast" => o = Perhaps(hit(110), POISONING, 3)
       /\ name = "FlameCharge" => o = {ForDest(hit(50), SPD_UP_L, 2)}
  BY ZenonT(40) DEF Skill
<1>12. /\ name = "FlareBlitz" => o = Perhaps(Recoil(hit(110), 45), POISONING, 3)
       /\ name = "GrassyTerrain" => o = {grassy}
       /\ name = "DragonPulse" => o = {hit(85)}
       /\ name = "KarateChop" => o = {hit(75)}
  BY ZenonT(40) DEF Skill
<1>13. /\ name = "MegaPunch" => o = {hit(110)}
       /\ name = "Pound" => o = {hit(70)}
       /\ name = "IcyWind" => o = {ForDest(hit(75), SPD_DOWN_M, 3)}
       /\ name = "LeafStorm" => o = {ForSelf(storm, ATK_DOWN_L, 2)}
  BY ZenonT(40) DEF Skill
<1>14. /\ name = "LeechLife" => o = {Drain(hit(75))}
       /\ name = "MegaDrain" => o = {Drain(hit(85))}
       /\ name = "Liquidation" => o = Perhaps(liquid, DEF_DOWN_M, 3)
       /\ name = "MaxSteelspike" => o = {ForSelf(hit(100), DEF_UP_L, 2)}
  BY ZenonT(40) DEF Skill
<1>15. /\ name = "Outrage" => o = {ForSelf(r, SLEEPING, 2) : r \in rage}
       /\ name = "PoisonSting" => o = {ForDest(hit(50), POISONING, 5)}
       /\ name = "Psybeam" => o = Perhaps(hit(40), PALSYING, 3)
       /\ name = "QuickAttack" => o = {ForSelf(hit(70), SPD_UP_L, 2)}
  BY ZenonT(40) DEF Skill
<1>16. /\ name = "QuickGuard" => o = {IF dest.cur["SPD"] > user.cur["SPD"]
              THEN ForSelf(AttackResult, DAMAGE_INVALID, 2) ELSE AttackResult}
       /\ name = "Reflect" => o = {ForSelf(AttackResult, DAMAGE_HALF, 3)}
       /\ name = "SandAttack" => o = {ForDest(hit(60), SPD_DOWN_M, 3)}
       /\ name = "SolarBlade" => o = {ForSelf(AttackResult, SKILL_DAMAGE_DOUBLE, 2)}
  BY ZenonT(40) DEF Skill
<1>17. /\ name = "Supersonic" => o = Perhaps(hit(40), SLEEPING, 2)
       /\ name = "SurgingStrikes" => o = {twice}
       /\ name = "SwordsDance" => o = {ForSelf(AttackResult, ATK_UP_L, 3)}
  BY ZenonT(40) DEF Skill
<1>18. name \notin {"Agility", "AppleAcid", "BodySlam", "BulletSeed", "Counter", "DoubleEdge",
                   "FireBlast", "FlameCharge", "FlareBlitz", "GrassyTerrain", "DragonPulse", "KarateChop",
                   "MegaPunch", "Pound", "IcyWind", "LeafStorm", "LeechLife", "MegaDrain",
                   "Liquidation", "MaxSteelspike", "Outrage", "PoisonSting", "Psybeam", "QuickAttack",
                   "QuickGuard", "Reflect", "SandAttack", "SolarBlade", "Supersonic", "SurgingStrikes",
                   "SwordsDance"}
        => o = {AttackResult}
  BY ZenonT(40) DEF Skill
<1> HIDE DEF hit, more, apple, liquid, storm, once, rage, counter, twice, seeds, grassy, o
<1>19. ASSUME name = "Agility" PROVE o \subseteq Outcome
  <2>1. o = {ForSelf(AttackResult, SPD_UP_L, 3)}
    BY <1>19, <1>10
  <2> QED
    BY <2>1, <1>7a, Names, NothingDone
<1>20. ASSUME name = "QuickGuard" PROVE o \subseteq Outcome
  <2>1. o = {IF dest.cur["SPD"] > user.cur["SPD"]
              THEN ForSelf(AttackResult, DAMAGE_INVALID, 2) ELSE AttackResult}
    BY <1>20, <1>16
  <2> QED
    BY <2>1, <1>7a, Names, NothingDone
<1>21. ASSUME name = "Reflect" PROVE o \subseteq Outcome
  <2>1. o = {ForSelf(AttackResult, DAMAGE_HALF, 3)}
    BY <1>21, <1>16
  <2> QED
    BY <2>1, <1>7a, Names, NothingDone
<1>22. ASSUME name = "SolarBlade" PROVE o \subseteq Outcome
  <2>1. o = {ForSelf(AttackResult, SKILL_DAMAGE_DOUBLE, 2)}
    BY <1>22, <1>16
  <2> QED
    BY <2>1, <1>7a, Names, NothingDone
<1>23. ASSUME name = "SwordsDance" PROVE o \subseteq Outcome
  <2>1. o = {ForSelf(AttackResult, ATK_UP_L, 3)}
    BY <1>23, <1>17
  <2> QED
    BY <2>1, <1>7a, Names, NothingDone
<1>24. ASSUME name = "AppleAcid" PROVE o \subseteq Outcome
  <2>1. o = Perhaps(apple, DEF_DOWN_M, 2)
    BY <1>24, <1>10
  <2> QED
    BY <2>1, <1>3, <1>7c, Names
<1>25. ASSUME name = "Liquidation" PROVE o \subseteq Outcome
  <2>1. o = Perhaps(liquid, DEF_DOWN_M, 3)
    BY <1>25, <1>14
  <2> QED
    BY <2>1, <1>3, <1>7c, Names
<1>26. ASSUME name = "BodySlam" PROVE o \subseteq Outcome
  <2>1. o = Perhaps(hit(85), PALSYING, 2)
    BY <1>26, <1>10
  <2> QED
    BY <2>1, <1>1, <1>7c, Names
<1>27. ASSUME name = "FireBlast" PROVE o \subseteq Outcome
  <2>1. o = Perhaps(hit(110), POISONING, 3)
    BY <1>27, <1>11
  <2> QED
    BY <2>1, <1>1, <1>7c, Names
<1>28. ASSUME name = "Psybeam" PROVE o \subseteq Outcome
  <2>1. o = Perhaps(hit(40), PALSYING, 3)
    BY <1>28, <1>15
  <2> QED
    BY <2>1, <1>1, <1>7c, Names
<1>29. ASSUME name = "Supersonic" PROVE o \subseteq Outcome
  <2>1. o = Perhaps(hit(40), SLEEPING, 2)
    BY <1>29, <1>17
  <2> QED
    BY <2>1, <1>1, <1>7c, Names
<1>30. ASSUME name = "BulletSeed" PROVE o \subseteq Outcome
  <2>1. o = {seeds(n) : n \in 2 .. 4}
    BY <1>30, <1>10
  <2> QED
    BY <2>1, <1>9
<1>31. ASSUME name = "SurgingStrikes" PROVE o \subseteq Outcome
  <2>1. o = {twice}
    BY <1>31, <1>17
  <2> QED
    BY <2>1, <1>9
<1>32. ASSUME name = "Counter" PROVE o \subseteq Outcome
  <2>1. o = {counter}
    BY <1>32, <1>11
  <2> QED
    BY <2>1, <1>5
<1>33. ASSUME name = "DoubleEdge" PROVE o \subseteq Outcome
  <2>1. o = {Recoil(hit(120), 40)}
    BY <1>33, <1>11
  <2> QED
    BY <2>1, <1>1, <1>7d
<1>34. ASSUME name = "FlameCharge" PROVE o \subseteq Outcome
  <2>1. o = {ForDest(hit(50), SPD_UP_L, 2)}
    BY <1>34, <1>11
  <2> QED
    BY <2>1, <1>1, <1>7b, Names
<1>35. ASSUME name = "IcyWind" PROVE o \subseteq Outcome
  <2>1. o = {ForDest(hit(75), SPD_DOWN_M, 3)}
    BY <1>35, <1>13
  <2> QED
    BY <2>1, <1>1, <1>7b, Names
<1>36. ASSUME name = "PoisonSting" PROVE o \subseteq Outcome
  <2>1. o = {ForDest(hit(50), POISONING, 5)}
    BY <1>36, <1>15
  <2> QED
    BY <2>1, <1>1, <1>7b, Names
<1>37. ASSUME name = "SandAttack" PROVE o \subseteq Outcome
  <2>1. o = {ForDest(hit(60), SPD_DOWN_M, 3)}
    BY <1>37, <1>16
  <2> QED
    BY <2>1, <1>1, <1>7b, Names
<1>38. ASSUME name = "FlareBlitz" PROVE o \subseteq Outcome
  <2>1. o = Perhaps(Recoil(hit(110), 45), POISONING, 3)
    BY <1>38, <1>12
  <2> QED
    BY <2>1, <1>1, <1>7c, <1>7d, Names
<1>39. ASSUME name = "GrassyTerrain" PROVE o \subseteq Outcome
  <2>1. o = {grassy}
    BY <1>39, <1>12
  <2> QED
    BY <2>1, <1>6
<1>40. ASSUME name = "DragonPulse" PROVE o \subseteq Outcome
  <2>1. o = {hit(85)}
    BY <1>40, <1>12
  <2> QED
    BY <2>1, <1>1
<1>41. ASSUME name = "KarateChop" PROVE o \subseteq Outcome
  <2>1. o = {hit(75)}
    BY <1>41, <1>12
  <2> QED
    BY <2>1, <1>1
<1>42. ASSUME name = "MegaPunch" PROVE o \subseteq Outcome
  <2>1. o = {hit(110)}
    BY <1>42, <1>13
  <2> QED
    BY <2>1, <1>1
<1>43. ASSUME name = "Pound" PROVE o \subseteq Outcome
  <2>1. o = {hit(70)}
    BY <1>43, <1>13
  <2> QED
    BY <2>1, <1>1
<1>44. ASSUME name = "LeafStorm" PROVE o \subseteq Outcome
  <2>1. o = {ForSelf(storm, ATK_DOWN_L, 2)}
    BY <1>44, <1>13
  <2> QED
    BY <2>1, <1>3, <1>7a, Names
<1>45. ASSUME name = "LeechLife" PROVE o \subseteq Outcome
  <2>1. o = {Drain(hit(75))}
    BY <1>45, <1>14
  <2> QED
    BY <2>1, <1>1, <1>8
<1>46. ASSUME name = "MegaDrain" PROVE o \subseteq Outcome
  <2>1. o = {Drain(hit(85))}
    BY <1>46, <1>14
  <2> QED
    BY <2>1, <1>1, <1>8
<1>47. ASSUME name = "MaxSteelspike" PROVE o \subseteq Outcome
  <2>1. o = {ForSelf(hit(100), DEF_UP_L, 2)}
    BY <1>47, <1>14
  <2> QED
    BY <2>1, <1>1, <1>7a, Names
<1>48. ASSUME name = "QuickAttack" PROVE o \subseteq Outcome
  <2>1. o = {ForSelf(hit(70), SPD_UP_L, 2)}
    BY <1>48, <1>15
  <2> QED
    BY <2>1, <1>1, <1>7a, Names
<1>49. ASSUME name = "Outrage" PROVE o \subseteq Outcome
  <2>1. o = {ForSelf(r, SLEEPING, 2) : r \in rage}
    BY <1>49, <1>15
  <2> QED
    BY <2>1, <1>4, <1>7a, Names
<1> QED
  BY <1>18, <1>19, <1>20, <1>21, <1>22, <1>23, <1>24, <1>25, <1>26, <1>27, <1>28, <1>29, <1>30, <1>31, <1>32, <1>33, <1>34, <1>35, <1>36, <1>37, <1>38, <1>39, <1>40, <1>41, <1>42, <1>43, <1>44, <1>45, <1>46, <1>47, <1>48, <1>49, NothingDone DEF o

LEMMA AttackIs ==
    ASSUME NEW name, NEW user \in Fighters, NEW dest \in Fighters
    PROVE  Attack(user, dest, name) \subseteq Outcome
<1>1. ASSUME NEW r \in Outcome PROVE TypeBonus(r, user.type) \in Outcome
  <2>1. /\ Times(r, 12) \in Outcome /\ ForSelf(r, DAMAGE_HALF, 1) \in Outcome
    BY Names, Combined
  <2>2. ASSUME r.selfBuf.buffId \in {1, 3, 4, 6, 7, 9}
        PROVE  [r EXCEPT !.selfBuf = Buff(@.buffId + 1, @.turnCnt + 1)] \in Outcome
    <3> DEFINE b == r.selfBuf
    <3>1. b \in BuffInfo
      BY DEF Outcome
    <3>2. b.buffId \in {1, 3, 4, 6, 7, 9} /\ b.turnCnt \in Nat
      BY <2>2, <3>1 DEF BuffInfo
    <3>3. b.buffId + 1 \in Given /\ b.turnCnt + 1 \in Nat
      BY <3>2 DEF Given, PALSYING, REVIVE
    <3> HIDE DEF b
    <3>4. Buff(b.buffId + 1, b.turnCnt + 1) \in BuffInfo
      BY <3>3, BuffTyped
    <3> QED
      BY <3>4 DEF Outcome, b
  <2>3. TypeBonus(r, user.type) \in
            {Times(r, 12), r, ForSelf(r, DAMAGE_HALF, 1)}
            \cup (IF r.selfBuf.buffId \in {1, 3, 4, 6, 7, 9}
                  THEN {[r EXCEPT !.selfBuf = Buff(@.buffId + 1, @.turnCnt + 1)]} ELSE {})
    BY DEF TypeBonus
  <2> QED
    BY <2>1, <2>2, <2>3
<1>2. ASSUME NEW r \in Outcome, NEW id \in {POISONING, SPD_DOWN_S, DEF_DOWN_S, ATK_DOWN_S}
      PROVE  ForDest(r, id, 1) \in Outcome
  BY Names, Combined
<1>3. \A r \in Skill(name, user, dest) : r \in Outcome
  BY SkillIs
<1> QED
  BY <1>1, <1>2, <1>3 DEF Attack

-----------------------------------------------------------------------------
(* The effects of buffs.                                                   *)
LEMMA ScaledIs ==
    ASSUME NEW p \in Fighters, NEW id \in Nat
    PROVE  \E c \in [Props -> Nat] : Scaled(p, id) = [p EXCEPT !.cur = c]
<1>1. CASE id \in 1 .. 18
  <2> DEFINE x == Property(id)
             t == Tenths(id)
             c == [p.cur EXCEPT ![x] = (@ * t) \div 10]
  <2>1. x \in Props /\ t \in Nat
    <3>1. ((id - 1) \div 3) % 3 \in 0 .. 2 /\ (id - 1) % 3 \in 0 .. 2
      BY <1>1
    <3> DEFINE i == (((id - 1) \div 3) % 3) + 1
               j == ((id - 1) % 3) + 1
    <3>2. i \in 1 .. 3 /\ j \in 1 .. 3
      BY <3>1
    <3> HIDE DEF i, j
    <3>3. <<"ATK", "DEF", "SPD">>[i] \in Props
      BY <3>2, StatsAre
    <3>4. (IF id <= 9 THEN <<11, 12, 13>> ELSE <<9, 8, 7>>)[j] \in Nat
      BY <3>2
    <3> QED
      BY <3>3, <3>4 DEF Property, Tenths, i, j
  <2> HIDE DEF x, t
  <2>2. p.cur \in [Props -> Nat]
    BY FighterIs
  <2>3. p.cur[x] * t \in Nat
    BY <2>1, <2>2
  <2> DEFINE y == p.cur[x] * t
  <2> HIDE DEF y
  <2>4. y \div 10 \in Nat
    BY <2>3 DEF y
  <2>5. c = [p.cur EXCEPT ![x] = y \div 10]
    BY DEF y
  <2> HIDE DEF c
  <2>6. c \in [Props -> Nat]
    BY <2>2, <2>4, <2>5
  <2>7. Scaled(p, id) = [p EXCEPT !.cur = c]
    BY <1>1 DEF Scaled, c, x, t
  <2> QED
    BY <2>6, <2>7
<1>2. CASE id \notin 1 .. 18
  <2>1. Scaled(p, id) = [p EXCEPT !.cur = p.cur]
    BY <1>2, FighterIs DEF Scaled
  <2> QED
    BY <2>1, FighterIs
<1> QED
  BY <1>1, <1>2

LEMMA PushIs ==
    ASSUME NEW p \in Fighters, NEW buff \in BuffInfo
    PROVE  \E q \in Seq(Held) : Push(p, buff) = [p EXCEPT !.buffs = q]
<1> DEFINE b == [id |-> buff.buffId, left |-> buff.turnCnt, given |-> buff.turnCnt, felt |-> 0]
<1>1. b \in Held
  BY DEF BuffInfo, Held, OnPkm
<1>2. p.buffs \in Seq(Held)
  BY FighterIs
<1> HIDE DEF b
<1>3. Append(p.buffs, b) \in Seq(Held)
  BY <1>1, <1>2, AppendProperties
<1> QED
  BY <1>3 DEF Push, b

(* Where a fold of numbers stays, the buffs of a Pokemon weigh on a hit.   *)
LEMMA HitWeighed ==
    ASSUME NEW hp \in Int, NEW q \in Seq(Held)
    PROVE  FoldLeft(Dampen, hp, q) \in Int /\ FoldLeft(Strengthen, hp, q) \in Int
<1> DEFINE n == Len(q)
           P(v, i) == Dampen(v, i)
           R(v, i) == Strengthen(v, i)
           d == [v \in Int |-> [b \in Held |-> P(v, b)]]
           u == [v \in Int |-> [b \in Held |-> R(v, b)]]
           EqD(it) == it = [S \in SUBSET (1 .. n) |->
                              IF S = {} THEN hp ELSE P(it[S \ {Max(S)}], q[Max(S)])]
           EqU(it) == it = [S \in SUBSET (1 .. n) |->
                              IF S = {} THEN hp ELSE R(it[S \ {Max(S)}], q[Max(S)])]
           itD == CHOOSE it : EqD(it)
           itU == CHOOSE it : EqU(it)
<1>1. n \in Nat /\ DOMAIN q = 1 .. n /\ \A i \in 1 .. n : q[i] \in Held
  OBVIOUS
<1>2. FoldLeft(Dampen, hp, q) = itD[1 .. n] /\ FoldLeft(Strengthen, hp, q) = itU[1 .. n]
  <2> HIDE DEF n
  <2>1. FoldLeft(Dampen, hp, q) = itD[1 .. n]
    BY <1>1, Zenon DEF FoldLeft, MapThenFoldSet
  <2>2. FoldLeft(Strengthen, hp, q) = itU[1 .. n]
    BY <1>1, Zenon DEF FoldLeft, MapThenFoldSet
  <2> QED
    BY <2>1, <2>2
<1>3. ASSUME NEW v \in Int, NEW b \in Held PROVE P(v, b) \in Int /\ R(v, b) \in Int
  BY DEF Dampen, Strengthen
<1> HIDE DEF n, P, R
<1>4. d \in [Int -> [Held -> Int]] /\ u \in [Int -> [Held -> Int]]
  BY <1>3
<1>5. \A v \in Int, b \in Held : d[v][b] = P(v, b) /\ u[v][b] = R(v, b)
  OBVIOUS
<1> HIDE DEF d, u
<1>6. \A S \in SUBSET (1 .. n) : S # {} => Max(S) \in 1 .. n /\ S \ {Max(S)} \in SUBSET (1 .. n)
  BY <1>1, MaxIn
<1>7. EqD(itD)
  <2>1. PICK f : IsFold(f, Int, q, hp, d)
    BY <1>4, FoldDefined
  <2>2. /\ f \in [SUBSET (1 .. n) -> Int] /\ f[{}] = hp
        /\ \A S \in SUBSET (1 .. n) : S # {} => f[S] = d[f[S \ {Max(S)}]][q[Max(S)]]
    BY <2>1 DEF IsFold, n
  <2>3. \A S \in SUBSET (1 .. n) : S # {} => f[S] = P(f[S \ {Max(S)}], q[Max(S)])
    BY <1>1, <1>5, <1>6, <2>2
  <2>4. EqD(f)
    BY <2>2, <2>3
  <2> QED
    BY <2>4, Zenon
<1>8. EqU(itU)
  <2>1. PICK f : IsFold(f, Int, q, hp, u)
    BY <1>4, FoldDefined
  <2>2. /\ f \in [SUBSET (1 .. n) -> Int] /\ f[{}] = hp
        /\ \A S \in SUBSET (1 .. n) : S # {} => f[S] = u[f[S \ {Max(S)}]][q[Max(S)]]
    BY <2>1 DEF IsFold, n
  <2>3. \A S \in SUBSET (1 .. n) : S # {} => f[S] = R(f[S \ {Max(S)}], q[Max(S)])
    BY <1>1, <1>5, <1>6, <2>2
  <2>4. EqU(f)
    BY <2>2, <2>3
  <2> QED
    BY <2>4, Zenon
<1> HIDE DEF itD, itU
<1> DEFINE Good == {k \in 0 .. n : itD[1 .. k] \in Int /\ itU[1 .. k] \in Int}
<1>9. 0 \in Good
  <2>1. 1 .. 0 = {} /\ {} \in SUBSET (1 .. n) /\ 0 \in 0 .. n
    BY <1>1
  <2>2. itD[{}] = hp /\ itU[{}] = hp
    BY <1>7, <1>8, <2>1
  <2> QED
    BY <2>1, <2>2
<1>10. ASSUME NEW k \in 0 .. n - 1, k \in Good PROVE k + 1 \in Good
  <2> DEFINE i == k + 1
  <2>1. i \in 1 .. n /\ i \in 0 .. n /\ i - 1 = k
    BY <1>1
  <2> HIDE DEF i
  <2>2. /\ Max(1 .. i) = i /\ (1 .. i) \ {i} = 1 .. k
        /\ 1 .. i \in SUBSET (1 .. n) /\ 1 .. i # {}
    BY <1>1, <2>1, FoldPasses
  <2>3. itD[1 .. i] = P(itD[1 .. k], q[i]) /\ itU[1 .. i] = R(itU[1 .. k], q[i])
    BY <1>7, <1>8, <2>2
  <2>4. itD[1 .. k] \in Int /\ itU[1 .. k] \in Int
    BY <1>10
  <2>5. itD[1 .. i] \in Int /\ itU[1 .. i] \in Int
    BY <1>1, <1>3, <2>1, <2>3, <2>4
  <2> QED
    BY <2>1, <2>5 DEF i
<1> HIDE DEF Good
<1>11. n \in Good
  BY <1>1, <1>9, <1>10, InductionUpTo
<1> QED
  BY <1>2, <1>11 DEF Good

LEMMA FighterChanged ==
    ASSUME NEW p \in Fighters
    PROVE  /\ \A c \in [Props -> Nat] :
                LET q == [p EXCEPT !.cur = c]
                IN  q \in Fighters /\ q.curHP = p.curHP /\ q.HP = p.HP
           /\ \A l \in Seq(Held) :
                LET q == [p EXCEPT !.buffs = l]
                IN  q \in Fighters /\ q.curHP = p.curHP /\ q.HP = p.HP
           /\ \A x \in Int :
                LET q == [p EXCEPT !.curHP = x]
                IN  q \in Fighters /\ q.curHP = x /\ q.HP = p.HP
           /\ \A g \in SUBSET Gone :
                LET q == [p EXCEPT !.gone = g]
                IN  q \in Fighters /\ q.curHP = p.curHP /\ q.HP = p.HP
BY DEF Fighters

-----------------------------------------------------------------------------
(* A strike.                                                               *)
Fights(C) ==
    [pkm : [Sides -> Fighters], action : C, winner : Sides \cup {Nobody},
     screen : [Sides -> Screens]]
Together(b) ==
    \A s \in Sides :
        /\ b.screen[s].my = b.screen[Other(s)].ta
        /\ b.screen[s].my >= b.pkm[s].curHP
Decided(b) ==
    /\ Over(b) <=> \E s \in Sides : b.pkm[s].curHP <= 0
    /\ b.winner = "A" => b.pkm["A"].curHP > 0

LEMMA TwoSides ==
    /\ "A" \in Sides /\ "B" \in Sides /\ "A" # "B" /\ Nobody \notin Sides
    /\ \A s \in Sides : /\ Other(s) \in Sides /\ Other(s) # s /\ Other(Other(s)) = s
                        /\ \A t \in Sides : t = s \/ t = Other(s)
BY DEF Sides, Other, Nobody

LEMMA FightIs ==
    ASSUME NEW C, NEW b \in Fights(C)
    PROVE  /\ b.pkm \in [Sides -> Fighters] /\ b.action \in C
           /\ b.winner \in Sides \cup {Nobody} /\ b.screen \in [Sides -> Screens]
           /\ \A s \in Sides : /\ b.pkm[s] \in Fighters /\ b.pkm[s].curHP \in Int
                               /\ b.screen[s].my \in Int /\ b.screen[s].ta \in Int
           /\ b = [pkm |-> b.pkm, action |-> b.action, winner |-> b.winner, screen |-> b.screen]
<1>1. /\ b.pkm \in [Sides -> Fighters] /\ b.action \in C
      /\ b.winner \in Sides \cup {Nobody} /\ b.screen \in [Sides -> Screens]
      /\ b = [pkm |-> b.pkm, action |-> b.action, winner |-> b.winner, screen |-> b.screen]
  BY DEF Fights
<1>2. ASSUME NEW s \in Sides
      PROVE  /\ b.pkm[s] \in Fighters /\ b.pkm[s].curHP \in Int
             /\ b.screen[s].my \in Int /\ b.screen[s].ta \in Int
  <2>1. b.pkm[s] \in Fighters /\ b.screen[s] \in Screens
    BY <1>1
  <2> QED
    BY <2>1, FighterIs DEF Screens
<1> QED
  BY <1>1, <1>2

LEMMA FightChanged ==
    ASSUME NEW C, NEW b \in Fights(C)
    PROVE  /\ \A p \in [Sides -> Fighters] :
                LET c == [b EXCEPT !.pkm = p]
                IN  /\ c \in Fights(C) /\ c.pkm = p /\ c.action = b.action
                    /\ c.winner = b.winner /\ c.screen = b.screen
           /\ \A a \in C :
                LET c == [b EXCEPT !.action = a]
                IN  /\ c \in Fights(C) /\ c.pkm = b.pkm /\ c.action = a
                    /\ c.winner = b.winner /\ c.screen = b.screen
           /\ \A sc \in [Sides -> Screens] :
                LET c == [b EXCEPT !.screen = sc]
                IN  /\ c \in Fights(C) /\ c.pkm = b.pkm /\ c.action = b.action
                    /\ c.winner = b.winner /\ c.screen = sc
BY DEF Fights

LEMMA CheckDecides ==
    ASSUME NEW C, NEW b \in Fights(C), ~Over(b)
    PROVE  LET o == checkBattleIsFinished(b)
           IN  /\ o \in Fights(C) /\ Decided(o)
               /\ o.pkm = b.pkm /\ o.action = b.action /\ o.screen = b.screen
<1> DEFINE o == checkBattleIsFinished(b)
<1>1. b.pkm["A"].curHP \in Int /\ b.pkm["B"].curHP \in Int
  BY FightIs, TwoSides
<1>2. ASSUME NEW w \in Sides
      PROVE  LET c == [b EXCEPT !.winner = w]
             IN  /\ c \in Fights(C) /\ c.winner = w
                 /\ c.pkm = b.pkm /\ c.action = b.action /\ c.screen = b.screen
  BY DEF Fights
<1>3. CASE b.pkm["A"].curHP <= 0
  <2>0. ~(b.pkm["A"].curHP > 0)
    BY <1>1, <1>3
  <2>1. o = [b EXCEPT !.winner = "B"]
    BY <1>3, <2>0 DEF checkBattleIsFinished
  <2> HIDE DEF o
  <2>2. /\ o \in Fights(C) /\ o.winner = "B"
        /\ o.pkm = b.pkm /\ o.action = b.action /\ o.screen = b.screen
    BY <1>2, <2>1, TwoSides
  <2>3. Decided(o)
    BY <1>3, <2>2, TwoSides DEF Decided, Over
  <2> QED
    BY <2>2, <2>3 DEF o
<1>4. CASE ~(b.pkm["A"].curHP <= 0) /\ b.pkm["B"].curHP <= 0
  <2>0. b.pkm["A"].curHP > 0
    BY <1>1, <1>4
  <2>1. o = [b EXCEPT !.winner = "A"]
    BY <1>4, <2>0 DEF checkBattleIsFinished
  <2> HIDE DEF o
  <2>2. /\ o \in Fights(C) /\ o.winner = "A"
        /\ o.pkm = b.pkm /\ o.action = b.action /\ o.screen = b.screen
    BY <1>2, <2>1, TwoSides
  <2>3. Decided(o)
    BY <1>4, <2>0, <2>2, TwoSides DEF Decided, Over
  <2> QED
    BY <2>2, <2>3 DEF o
<1>5. CASE ~(b.pkm["A"].curHP <= 0) /\ ~(b.pkm["B"].curHP <= 0)
  <2>1. o = b
    BY <1>5 DEF checkBattleIsFinished
  <2> HIDE DEF o
  <2>2. Decided(b)
    BY <1>5, TwoSides DEF Decided, Over, Sides
  <2> QED
    BY <2>1, <2>2 DEF o
<1> QED
  BY <1>3, <1>4, <1>5

Handled(b, h) ==
    /\ h.result \in Outcome
    /\ \E p \in [Sides -> Fighters] :
            /\ h.battle = [pkm |-> p, action |-> b.action, winner |-> b.winner, screen |-> b.screen]
            /\ \A s \in Sides : p[s].curHP = b.pkm[s].curHP /\ p[s].HP = b.pkm[s].HP

LEMMA HandleIs ==
    ASSUME NEW C, NEW b \in Fights(C), NEW from \in Sides, NEW r \in Outcome
    PROVE  Handled(b, HandleResult(b, from, r))
<1> DEFINE dest == Other(from)
           user == Scaled(Push(b.pkm[from], r.selfBuf), r.selfBuf.buffId)
           target == Scaled(Push(b.pkm[dest], r.destBuf), r.destBuf.buffId)
           hit == FoldLeft(Strengthen, FoldLeft(Dampen, r.destDeltaHp, target.buffs), user.buffs)
           p == [[b.pkm EXCEPT ![from] = user] EXCEPT ![dest] = target]
<1>1. /\ r.selfBuf \in BuffInfo /\ r.destBuf \in BuffInfo
      /\ r.selfBuf.buffId \in Nat /\ r.destBuf.buffId \in Nat
      /\ r.selfDeltaHp \in Int /\ r.destDeltaHp \in Int
  BY DEF Outcome, BuffInfo, Given, PALSYING
<1>2. ASSUME NEW f \in Fighters, NEW buff \in BuffInfo
      PROVE  LET g == Scaled(Push(f, buff), buff.buffId)
             IN  g \in Fighters /\ g.curHP = f.curHP /\ g.HP = f.HP
  <2>1. buff.buffId \in Nat
    BY DEF BuffInfo, Given, PALSYING
  <2> DEFINE h == Push(f, buff)
  <2>2. h \in Fighters /\ h.curHP = f.curHP /\ h.HP = f.HP
    <3>1. PICK q \in Seq(Held) : h = [f EXCEPT !.buffs = q]
      BY PushIs
    <3> HIDE DEF h
    <3> QED
      BY <3>1, FighterChanged
  <2> HIDE DEF h
  <2>3. PICK c \in [Props -> Nat] : Scaled(h, buff.buffId) = [h EXCEPT !.cur = c]
    BY <2>1, <2>2, ScaledIs
  <2> DEFINE g == Scaled(h, buff.buffId)
  <2> HIDE DEF g
  <2>4. g = [h EXCEPT !.cur = c]
    BY <2>3 DEF g
  <2>5. g \in Fighters /\ g.curHP = f.curHP /\ g.HP = f.HP
    BY <2>2, <2>4, FighterChanged
  <2> QED
    BY <2>5 DEF g, h
<1>3. /\ b.pkm \in [Sides -> Fighters] /\ dest \in Sides /\ dest # from
      /\ b.pkm[from] \in Fighters /\ b.pkm[dest] \in Fighters
  BY FightIs, TwoSides
<1>4. /\ user \in Fighters /\ user.curHP = b.pkm[from].curHP /\ user.HP = b.pkm[from].HP
      /\ target \in Fighters /\ target.curHP = b.pkm[dest].curHP /\ target.HP = b.pkm[dest].HP
  BY <1>1, <1>2, <1>3
<1>5. hit \in Int
  <2>1. user.buffs \in Seq(Held) /\ target.buffs \in Seq(Held)
    BY <1>4, FighterIs
  <2> HIDE DEF user, target
  <2> QED
    BY <1>1, <2>1, HitWeighed
<1>6. /\ HandleResult(b, from, r).battle = [b EXCEPT !.pkm = p]
      /\ HandleResult(b, from, r).result \in {AttackResult, [r EXCEPT !.destDeltaHp = hit]}
  BY DEF HandleResult
<1> HIDE DEF user, target, hit, dest
<1>7. /\ p \in [Sides -> Fighters]
      /\ \A s \in Sides : p[s].curHP = b.pkm[s].curHP /\ p[s].HP = b.pkm[s].HP
  BY <1>3, <1>4
<1>8. [r EXCEPT !.destDeltaHp = hit] \in Outcome
  BY <1>5 DEF Outcome
<1> HIDE DEF p
<1>9. [b EXCEPT !.pkm = p]
        = [pkm |-> p, action |-> b.action, winner |-> b.winner, screen |-> b.screen]
  BY FightIs
<1> QED
  BY <1>6, <1>7, <1>8, <1>9, NothingDone DEF Handled

LEMMA StrikeIs ==
    ASSUME NEW C, NEW b \in Fights(C), ~Over(b), Together(b), NEW from \in Sides,
           NEW o \in Strike(b, from)
    PROVE  o \in Fights(C) /\ Together(o) /\ Decided(o) /\ o.action = b.action
<1> DEFINE dest == Other(from)
<1>1. PICK r \in Attack(b.pkm[from], b.pkm[dest], b.action[from]) :
        o = checkBattleIsFinished(
                [HandleResult(b, from, r).battle EXCEPT
                    !.pkm[from] = Hurt(@, HandleResult(b, from, r).result.selfDeltaHp),
                    !.pkm[dest] = Hurt(@, HandleResult(b, from, r).result.destDeltaHp),
                    !.screen = TurnInfo(@, from, HandleResult(b, from, r).result)])
  BY DEF Strike
<1>2. r \in Outcome
  BY FightIs, TwoSides, AttackIs
<1> DEFINE x == HandleResult(b, from, r).result.selfDeltaHp
           y == HandleResult(b, from, r).result.destDeltaHp
           sc == TurnInfo(b.screen, from, HandleResult(b, from, r).result)
           h == HandleResult(b, from, r).battle
<1>2a. Handled(b, HandleResult(b, from, r))
  BY <1>2, HandleIs
<1>3. x \in Int /\ y \in Int
  BY <1>2a DEF Outcome, Handled
<1>4. PICK p \in [Sides -> Fighters] :
        /\ h = [pkm |-> p, action |-> b.action, winner |-> b.winner, screen |-> b.screen]
        /\ \A s \in Sides : p[s].curHP = b.pkm[s].curHP /\ p[s].HP = b.pkm[s].HP
  BY <1>2a DEF Handled
<1>5. dest \in Sides /\ dest # from /\ \A s \in Sides : s = from \/ s = dest
  BY TwoSides
<1> DEFINE p1 == [p EXCEPT ![from] = Hurt(@, x)]
           p2 == [p1 EXCEPT ![dest] = Hurt(@, y)]
           c == [pkm |-> p2, action |-> b.action, winner |-> b.winner, screen |-> sc]
<1>6. ASSUME NEW f \in Fighters, NEW d \in Int
      PROVE  Hurt(f, d) \in Fighters /\ Hurt(f, d).curHP <= f.curHP - d
  <2>1. f.curHP \in Int /\ f.HP \in Nat
    BY FighterIs
  <2>2. AtMost(f.curHP - d, f.HP) \in Int /\ AtMost(f.curHP - d, f.HP) <= f.curHP - d
    BY <2>1 DEF AtMost
  <2> QED
    BY <2>2, FighterChanged DEF Hurt
<1>7. /\ p2 \in [Sides -> Fighters]
      /\ p2[from].curHP <= b.pkm[from].curHP - x
      /\ p2[dest].curHP <= b.pkm[dest].curHP - y
  <2>1. p[from] \in Fighters /\ p[dest] \in Fighters
    BY <1>5
  <2>2. /\ Hurt(p[from], x) \in Fighters /\ Hurt(p[from], x).curHP <= b.pkm[from].curHP - x
        /\ Hurt(p[dest], y) \in Fighters /\ Hurt(p[dest], y).curHP <= b.pkm[dest].curHP - y
    BY <1>3, <1>4, <1>5, <1>6, <2>1
  <2> HIDE DEF x, y, dest
  <2>3. /\ p2 \in [Sides -> Fighters] /\ p2[from] = Hurt(p[from], x) /\ p2[dest] = Hurt(p[dest], y)
    BY <1>5, <2>2
  <2> HIDE DEF p2
  <2> QED
    BY <2>2, <2>3
<1>8. /\ sc \in [Sides -> Screens]
      /\ sc[from].my = b.screen[from].my - x /\ sc[from].ta = b.screen[from].ta - y
      /\ sc[dest].my = b.screen[dest].my - y /\ sc[dest].ta = b.screen[dest].ta - x
  <2>1. b.screen \in [Sides -> Screens]
    BY FightIs
  <2> DEFINE s1 == [my |-> b.screen[from].my - x, ta |-> b.screen[from].ta - y]
             s2 == [my |-> b.screen[dest].my - y, ta |-> b.screen[dest].ta - x]
  <2>2. s1 \in Screens /\ s2 \in Screens
    BY <1>3, <1>5, FightIs DEF Screens
  <2>3. sc = [[b.screen EXCEPT ![from] = s1] EXCEPT ![dest] = s2]
    BY <2>1, <1>5 DEF TurnInfo
  <2>4. /\ s1.my = b.screen[from].my - x /\ s1.ta = b.screen[from].ta - y
        /\ s2.my = b.screen[dest].my - y /\ s2.ta = b.screen[dest].ta - x
    OBVIOUS
  <2> HIDE DEF s1, s2, sc, x, y, dest
  <2> QED
    BY <1>5, <2>1, <2>2, <2>3, <2>4
<1>9. o = checkBattleIsFinished(c)
  <2>1. o = checkBattleIsFinished(
                [h EXCEPT !.pkm[from] = Hurt(h.pkm[from], x), !.pkm[dest] = Hurt(h.pkm[dest], y),
                          !.screen = TurnInfo(h.screen, from, HandleResult(b, from, r).result)])
    BY <1>1
  <2> DEFINE u == Hurt(p[from], x)
             v == Hurt(p[dest], y)
  <2>2. /\ h.pkm = p /\ h.screen = b.screen /\ p1 = [p EXCEPT ![from] = u]
        /\ p2 = [p1 EXCEPT ![dest] = v]
    BY <1>4, <1>5
  <2> HIDE DEF h, u, v, p1, p2, sc
  <2>3. o = checkBattleIsFinished([h EXCEPT !.pkm[from] = u, !.pkm[dest] = v, !.screen = sc])
    BY <2>1, <2>2 DEF u, v, sc
  <2>4. ASSUME NEW g, g = [pkm |-> p, action |-> b.action, winner |-> b.winner,
                           screen |-> b.screen]
        PROVE  [g EXCEPT !.pkm[from] = u, !.pkm[dest] = v, !.screen = sc] = c
    <3>1. [g EXCEPT !.pkm[from] = u, !.pkm[dest] = v, !.screen = sc]
            = [[[g EXCEPT !.pkm = [g.pkm EXCEPT ![from] = u]]
                    EXCEPT !.pkm = [[g.pkm EXCEPT ![from] = u] EXCEPT ![dest] = v]]
                    EXCEPT !.screen = sc]
      BY <2>4
    <3>2. g.pkm = p /\ [g.pkm EXCEPT ![from] = u] = p1
      BY <2>2, <2>4
    <3>3. [[g.pkm EXCEPT ![from] = u] EXCEPT ![dest] = v] = p2
      BY <2>2, <3>2
    <3> DEFINE g1 == [g EXCEPT !.pkm = p1]
               g2 == [g1 EXCEPT !.pkm = p2]
               g3 == [g2 EXCEPT !.screen = sc]
    <3>4. g1 = [pkm |-> p1, action |-> b.action, winner |-> b.winner, screen |-> b.screen]
      BY <2>4
    <3> HIDE DEF g1
    <3>5. g2 = [pkm |-> p2, action |-> b.action, winner |-> b.winner, screen |-> b.screen]
      BY <3>4
    <3> HIDE DEF g2
    <3>6. g3 = c
      BY <3>5
    <3> HIDE DEF g3
    <3>7. [g EXCEPT !.pkm[from] = u, !.pkm[dest] = v, !.screen = sc] = g3
      BY <3>1, <3>2, <3>3 DEF g1, g2, g3
    <3> QED
      BY <3>6, <3>7
  <2> QED
    BY <1>4, <2>3, <2>4
<1>10. /\ c \in Fights(C) /\ c.pkm = p2 /\ c.screen = sc /\ c.action = b.action
       /\ c.winner = b.winner
  <2> HIDE DEF p2, sc
  <2>1. b.action \in C /\ b.winner \in Sides \cup {Nobody}
    BY FightIs
  <2> QED
    BY <1>7, <1>8, <2>1 DEF Fights
<1> HIDE DEF c, p2, sc, x, y, dest, h
<1>11. Together(c)
  <2>1. /\ \A s \in Sides : /\ b.screen[s].my = b.screen[Other(s)].ta
                            /\ b.screen[s].my >= b.pkm[s].curHP
                            /\ b.screen[s].my \in Int /\ b.pkm[s].curHP \in Int
    BY FightIs DEF Together
  <2>2. /\ b.screen[from].my = b.screen[dest].ta /\ b.screen[dest].my = b.screen[from].ta
        /\ b.screen[from].my >= b.pkm[from].curHP /\ b.screen[dest].my >= b.pkm[dest].curHP
    BY <1>5, <2>1, TwoSides DEF dest
  <2>3. p2[from].curHP \in Int /\ p2[dest].curHP \in Int
    BY <1>5, <1>7, FighterIs
  <2>4. /\ sc[from].my = sc[dest].ta /\ sc[dest].my = sc[from].ta
        /\ sc[from].my >= p2[from].curHP /\ sc[dest].my >= p2[dest].curHP
    BY <1>3, <1>5, <1>7, <1>8, <2>1, <2>2, <2>3
  <2> QED
    BY <1>5, <1>10, <2>4, TwoSides DEF Together, dest
<1>12. ~Over(c)
  BY <1>10 DEF Over
<1>13. Together(o)
  BY <1>9, <1>10, <1>11, <1>12, CheckDecides DEF Together
<1> QED
  BY <1>9, <1>10, <1>12, <1>13, CheckDecides

-----------------------------------------------------------------------------
(* The end of a turn: a buff stays with the turns it still has to last, or *)
(* goes when those it was given for have passed; nobody is healed.         *)
LEMMA BuffAges ==
    ASSUME NEW buff \in Held, NEW went \in BOOLEAN, NEW lies \in BOOLEAN,
           NEW b, b = [buff EXCEPT !.felt = IF went \/ lies THEN @ + 1 ELSE @,
                                   !.left = IF went THEN @ - 1 ELSE @]
    PROVE  b \in Held /\ (went /\ Ends(buff) => b \in Gone)
<1>1. buff \in OnPkm /\ buff.given <= buff.left + buff.felt
  BY DEF Held
<1>2. buff.left \in Int /\ buff.given \in Nat /\ buff.felt \in Nat /\ buff.id \in Given
  BY <1>1 DEF OnPkm
<1> DEFINE l == IF went THEN buff.left - 1 ELSE buff.left
           a == IF went \/ lies THEN buff.felt + 1 ELSE buff.felt
<1>3. b = [id |-> buff.id, left |-> l, given |-> buff.given, felt |-> a]
  BY <1>1 DEF OnPkm
<1>4. l \in Int /\ a \in Nat /\ buff.given <= l + a
  BY <1>1, <1>2
<1>5. went /\ Ends(buff) => l <= 0
  BY <1>2 DEF Ends
<1> HIDE DEF l, a
<1>6. b.given = buff.given /\ b.left = l /\ b.felt = a
  BY ONLY <1>3
<1>7. b \in OnPkm
  BY <1>2, <1>3, <1>4 DEF OnPkm
<1>8. b \in Held
  BY <1>4, <1>6, <1>7 DEF Held
<1>9. ASSUME went, Ends(buff) PROVE b \in Gone
  <2>1. buff.given <= a
    BY <1>2, <1>4, <1>5, <1>9
  <2> QED
    BY <2>1, <1>6, <1>7 DEF Gone
<1> QED
  BY <1>8, <1>9

LEMMA EffectIs ==
    ASSUME NEW p \in Fighters, NEW id \in Given
    PROVE  Effect(p, id) \in Fighters /\ Effect(p, id).curHP <= p.curHP
<1>1. p.HP \in Nat /\ p.curHP \in Int /\ id \in Nat /\ id # REVIVE
  <2>1. p.HP \in Nat /\ p.curHP \in Int
    BY FighterIs
  <2>2. id \in Nat /\ id # REVIVE
    BY DEF Given, PALSYING
  <2> QED
    BY <2>1, <2>2
<1>2. CASE id = POISONING
  <2> DEFINE x == p.curHP - (p.HP * 15) \div 100
  <2>1. x \in Int /\ x <= p.curHP
    BY <1>1
  <2>2. Effect(p, id) = [p EXCEPT !.curHP = x]
    BY <1>2 DEF Effect, POISONING, REVIVE
  <2> HIDE DEF x
  <2> QED
    BY <2>1, <2>2, FighterChanged
<1>3. CASE id # POISONING
  <2>1. Effect(p, id) = Scaled(p, id)
    BY <1>1, <1>3 DEF Effect
  <2>2. PICK c \in [Props -> Nat] : Scaled(p, id) = [p EXCEPT !.cur = c]
    BY <1>1, ScaledIs
  <2> QED
    BY <1>1, <2>1, <2>2, FighterChanged
<1> QED
  BY <1>2, <1>3

LEMMA BuffsHandled ==
    ASSUME NEW pkm \in Fighters
    PROVE  handleBuffList(pkm) \in Fighters /\ handleBuffList(pkm).curHP <= pkm.curHP
<1> DEFINE fresh == [pkm EXCEPT !.cur = pkm.base, !.buffs = <<>>]
           visited == Visited(pkm.buffs)
           older(i) == [pkm.buffs[i] EXCEPT
                           !.felt = IF i \in visited \/ pkm.buffs[i].id \in Lasting
                                    THEN @ + 1 ELSE @,
                           !.left = IF i \in visited THEN @ - 1 ELSE @]
           handle(i, p) ==
               LET q == IF i \in visited THEN Effect(p, pkm.buffs[i].id) ELSE p
               IN  IF i \in visited /\ Ends(pkm.buffs[i])
                   THEN [q EXCEPT !.gone = @ \cup {older(i)}]
                   ELSE [q EXCEPT !.buffs = <<older(i)>> \o @]
           V == {p \in Fighters : p.curHP <= pkm.curHP}
           n == Len(pkm.buffs)
           ids == [i \in DOMAIN pkm.buffs |-> i]
           g == [i \in 1 .. n |-> [p \in V |-> handle(i, p)]]
           Eq(it) == it = [S \in SUBSET (1 .. n) |->
                              IF S = {} THEN fresh ELSE handle(ids[Min(S)], it[S \ {Min(S)}])]
           iter == CHOOSE it : Eq(it)
<1>1. /\ n \in Nat /\ DOMAIN pkm.buffs = 1 .. n /\ \A i \in 1 .. n : pkm.buffs[i] \in Held
      /\ pkm.curHP \in Int
  <2>1. pkm.buffs \in Seq(Held) /\ pkm.curHP \in Int
    BY FighterIs
  <2> QED
    BY <2>1
<1>2. handleBuffList(pkm) = FoldRight(handle, ids, fresh)
  BY DEF handleBuffList
<1>3. ids = [i \in 1 .. n |-> i] /\ ids \in Seq(1 .. n) /\ Len(ids) = n /\ DOMAIN ids = 1 .. n
  BY <1>1
<1> HIDE DEF n, ids, visited
<1>4. FoldRight(handle, ids, fresh) = iter[1 .. n]
  <2> HIDE DEF older, fresh
  <2> QED
    BY <1>3, Zenon DEF FoldRight, MapThenFoldSet
<1>5. fresh \in V
  <2>1. pkm.base \in [Props -> Nat] /\ <<>> \in Seq(Held)
    BY FighterIs
  <2> DEFINE f == [pkm EXCEPT !.cur = pkm.base]
  <2>2. f \in Fighters /\ f.curHP = pkm.curHP
    BY <2>1, FighterChanged
  <2>3. fresh = [f EXCEPT !.buffs = <<>>]
    OBVIOUS
  <2> HIDE DEF f, fresh
  <2>4. fresh \in Fighters /\ fresh.curHP = pkm.curHP
    BY <2>1, <2>2, <2>3, FighterChanged
  <2> QED
    BY <1>1, <2>4
<1>6. ASSUME NEW i \in 1 .. n, NEW p \in V PROVE handle(i, p) \in V
  <2> DEFINE q == IF i \in visited THEN Effect(p, pkm.buffs[i].id) ELSE p
             b == older(i)
             went == i \in visited
  <2>1. pkm.buffs[i] \in Held /\ pkm.buffs[i].id \in Given /\ p \in Fighters /\ p.curHP <= pkm.curHP
    BY <1>1 DEF Held, OnPkm
  <2>2. q \in Fighters /\ q.curHP <= p.curHP
    <3>1. p.curHP \in Int
      BY <2>1, FighterIs
    <3> QED
      BY <2>1, <3>1, EffectIs
  <2>3. q.curHP <= pkm.curHP /\ q.curHP \in Int
    <3>1. p.curHP \in Int /\ q.curHP \in Int
      BY <2>1, <2>2, FighterIs
    <3> HIDE DEF q
    <3> QED
      BY <1>1, <2>1, <2>2, <3>1
  <2>4. b \in Held /\ (went /\ Ends(pkm.buffs[i]) => b \in Gone)
    <3> DEFINE lies == pkm.buffs[i].id \in Lasting
    <3>1. went \in BOOLEAN /\ lies \in BOOLEAN
      OBVIOUS
    <3>2. b = [pkm.buffs[i] EXCEPT !.felt = IF went \/ lies THEN @ + 1 ELSE @,
                                   !.left = IF went THEN @ - 1 ELSE @]
      OBVIOUS
    <3> HIDE DEF b, went, lies
    <3> QED
      BY <2>1, <3>1, <3>2, BuffAges
  <2>5. handle(i, p) = IF went /\ Ends(pkm.buffs[i]) THEN [q EXCEPT !.gone = q.gone \cup {b}]
                       ELSE [q EXCEPT !.buffs = <<b>> \o q.buffs]
    OBVIOUS
  <2> HIDE DEF handle, q, b, went
  <2>6. q.buffs \in Seq(Held) /\ q.gone \in SUBSET Gone
    BY <2>2, FighterIs
  <2>7. CASE went /\ Ends(pkm.buffs[i])
    <3>1. q.gone \cup {b} \in SUBSET Gone
      BY <2>4, <2>6, <2>7
    <3> DEFINE h == [q EXCEPT !.gone = q.gone \cup {b}]
    <3>2. h \in Fighters /\ h.curHP = q.curHP
      BY <2>2, <3>1, FighterChanged
    <3>3. handle(i, p) = h
      BY <2>5, <2>7
    <3> HIDE DEF h
    <3> QED
      BY <2>3, <3>2, <3>3
  <2>8. CASE ~(went /\ Ends(pkm.buffs[i]))
    <3>1. <<b>> \in Seq(Held)
      BY <2>4
    <3>2. <<b>> \o q.buffs \in Seq(Held)
      BY <2>6, <3>1, ConcatProperties
    <3> DEFINE h == [q EXCEPT !.buffs = <<b>> \o q.buffs]
    <3>3. h \in Fighters /\ h.curHP = q.curHP
      BY <2>2, <3>2, FighterChanged
    <3>4. handle(i, p) = h
      BY <2>5, <2>8
    <3> HIDE DEF h
    <3> QED
      BY <2>3, <3>3, <3>4
  <2> QED
    BY <2>7, <2>8
<1> HIDE DEF handle, fresh, V
<1>7. g \in [1 .. n -> [V -> V]]
  BY <1>6
<1>8. \A i \in 1 .. n, p \in V : g[i][p] = handle(i, p)
  OBVIOUS
<1> HIDE DEF g
<1>9. Eq(iter)
  <2>1. PICK f : IsFoldBack(f, V, ids, fresh, g)
    BY <1>3, <1>5, <1>7, FoldBackDefined
  <2>2. /\ f \in [SUBSET (1 .. n) -> V] /\ f[{}] = fresh
        /\ \A S \in SUBSET (1 .. n) : S # {} => f[S] = g[ids[Min(S)]][f[S \ {Min(S)}]]
    BY <1>3, <2>1 DEF IsFoldBack
  <2>3. ASSUME NEW S \in SUBSET (1 .. n), S # {}
        PROVE  f[S] = handle(ids[Min(S)], f[S \ {Min(S)}])
    <3>1. Min(S) \in 1 .. n /\ S \ {Min(S)} \in SUBSET (1 .. n)
      BY <1>1, <2>3, MinIn
    <3>2. ids[Min(S)] \in 1 .. n /\ f[S \ {Min(S)}] \in V
      BY <1>3, <2>2, <3>1
    <3> QED
      BY <1>8, <2>2, <2>3, <3>2
  <2>4. Eq(f)
    BY <2>2, <2>3
  <2> QED
    BY <2>4, Zenon
<1> HIDE DEF iter
<1> DEFINE Good == {k \in 0 .. n : iter[n - k + 1 .. n] \in V}
<1>10. 0 \in Good
  <2>1. n - 0 + 1 .. n = {} /\ {} \in SUBSET (1 .. n) /\ 0 \in 0 .. n
    BY <1>1
  <2>2. iter[{}] = fresh
    BY <1>9, <2>1
  <2> QED
    BY <1>5, <2>1, <2>2
<1>11. ASSUME NEW k \in 0 .. n - 1, k \in Good PROVE k + 1 \in Good
  <2> DEFINE i == n - k
  <2>1. i \in 1 .. n /\ k + 1 \in 0 .. n /\ n - k + 1 = i + 1 /\ n - (k + 1) + 1 = i
    BY <1>1
  <2> HIDE DEF i
  <2>2. /\ Min(i .. n) = i /\ (i .. n) \ {i} = i + 1 .. n
        /\ i .. n \in SUBSET (1 .. n) /\ i .. n # {}
    BY <1>1, <2>1, FoldPassesBack
  <2>3. iter[i .. n] = handle(ids[i], iter[i + 1 .. n])
    BY <1>9, <2>2
  <2>4. iter[i + 1 .. n] \in V /\ ids[i] = i
    BY <1>3, <1>11, <2>1
  <2>5. iter[i .. n] \in V
    BY <1>6, <2>1, <2>3, <2>4
  <2> QED
    BY <2>1, <2>5
<1> HIDE DEF Good
<1>12. n \in Good
  <2>1. n \in Nat
    BY <1>1
  <2>2. \A k \in 0 .. n - 1 : k \in Good => k + 1 \in Good
    BY <1>11
  <2> QED
    BY <1>10, <2>1, <2>2, InductionUpTo
<1>13. iter[1 .. n] \in V
  <2>1. n - n + 1 = 1
    BY <1>1
  <2> QED
    BY <1>12, <2>1 DEF Good
<1> QED
  BY <1>2, <1>4, <1>13 DEF V

-----------------------------------------------------------------------------
(* A turn.                                                                 *)
Idle == [s \in Sides |-> ""]

LEMMA BuffsOfBoth ==
    ASSUME NEW C, NEW b \in Fights(C), Together(b)
    PROVE  LET c == queryBuffList(b)
           IN  /\ c \in Fights(C) /\ Together(c)
               /\ c.winner = b.winner /\ c.action = b.action
<1> DEFINE p == [s \in Sides |-> handleBuffList(b.pkm[s])]
           c == queryBuffList(b)
<1>1. p \in [Sides -> Fighters] /\ \A s \in Sides : p[s].curHP <= b.pkm[s].curHP
  <2>1. ASSUME NEW s \in Sides
        PROVE  handleBuffList(b.pkm[s]) \in Fighters
               /\ handleBuffList(b.pkm[s]).curHP <= b.pkm[s].curHP
    <3>1. b.pkm[s] \in Fighters
      BY FightIs
    <3> QED
      BY <3>1, BuffsHandled
  <2> QED
    BY <2>1
<1>2. c = [b EXCEPT !.pkm = p]
  BY DEF queryBuffList
<1> HIDE DEF p, c
<1>3. /\ c \in Fights(C) /\ c.pkm = p /\ c.action = b.action
      /\ c.winner = b.winner /\ c.screen = b.screen
  BY <1>1, <1>2, FightChanged
<1>4. ASSUME NEW s \in Sides
      PROVE  /\ c.screen[s].my = c.screen[Other(s)].ta
             /\ c.screen[s].my >= c.pkm[s].curHP
  <2>1. b.screen[s].my = b.screen[Other(s)].ta /\ b.screen[s].my >= b.pkm[s].curHP
    BY DEF Together
  <2>2. /\ b.screen[s].my \in Int /\ b.pkm[s].curHP \in Int /\ p[s].curHP \in Int
        /\ p[s].curHP <= b.pkm[s].curHP
    <3>1. p[s] \in Fighters
      BY <1>1
    <3> QED
      BY <1>1, <3>1, FightIs, FighterIs
  <2>3. b.screen[s].my >= p[s].curHP
    BY <2>1, <2>2
  <2> QED
    BY <1>3, <2>1, <2>3
<1>5. Together(c)
  BY <1>4 DEF Together
<1> QED
  BY <1>3, <1>5 DEF c

LEMMA FirstIs == ASSUME NEW b PROVE First(b) \in Sides
BY TwoSides DEF First

Fine(C, a, o) == o \in Fights(C) /\ Together(o) /\ Decided(o) /\ o.action \in {a, Idle}

LEMMA TurnIs ==
    ASSUME NEW C, NEW b \in Fights(C), ~Over(b), Together(b), Idle \in C, NEW o \in turn(b)
    PROVE  Fine(C, b.action, o)
<1> DEFINE one == Strike(b, First(b))
           second == Other(First(b))
           two == UNION {IF Over(u) THEN {u} ELSE Strike(u, second) : u \in one}
           rest(u) == queryBuffList([u EXCEPT !.action = Idle])
           ended(u) == checkBattleIsFinished(rest(u))
           Struck(u) == /\ u \in Fights(C) /\ Together(u) /\ Decided(u)
                        /\ u.action = b.action
<1>1. First(b) \in Sides /\ second \in Sides
  BY FirstIs, TwoSides
<1>2. \A u \in one : Struck(u)
  BY <1>1, StrikeIs
<1> HIDE DEF one, second
<1>3. \A u \in two : Struck(u)
  <2>1. ASSUME NEW u \in one, ~Over(u), NEW v \in Strike(u, second) PROVE Struck(v)
    <3>1. u \in Fights(C) /\ Together(u) /\ u.action = b.action
      BY <1>2
    <3>2. v \in Fights(C) /\ Together(v) /\ Decided(v) /\ v.action = u.action
      BY <1>1, <2>1, <3>1, StrikeIs
    <3> QED
      BY <3>1, <3>2
  <2> HIDE DEF Struck
  <2> QED
    BY <1>2, <2>1
<1>4. turn(b) = {IF Over(u) THEN u ELSE ended(u) : u \in two}
  BY DEF turn, one, second, Idle
<1> HIDE DEF two, ended
<1>5. PICK u \in two : o = IF Over(u) THEN u ELSE ended(u)
  BY <1>4
<1>6. Struck(u)
  BY <1>3
<1>7. CASE Over(u)
  BY <1>5, <1>6, <1>7 DEF Fine
<1>8. CASE ~Over(u)
  <2> DEFINE i == [u EXCEPT !.action = Idle]
             c == queryBuffList(i)
  <2>1. i \in Fights(C) /\ i.pkm = u.pkm /\ i.action = Idle /\ i.winner = u.winner
        /\ i.screen = u.screen
    BY <1>6, FightChanged
  <2> HIDE DEF i
  <2>2. Together(i)
    BY <1>6, <2>1 DEF Together
  <2>3. /\ c \in Fights(C) /\ Together(c) /\ c.winner = u.winner /\ c.action = Idle
    BY <2>1, <2>2, BuffsOfBoth
  <2>4. ended(u) = checkBattleIsFinished(c)
    BY DEF ended, i
  <2> HIDE DEF c
  <2> DEFINE e == checkBattleIsFinished(c)
  <2>5. ~Over(c)
    BY <1>8, <2>3 DEF Over
  <2>6. /\ e \in Fights(C) /\ Decided(e) /\ e.pkm = c.pkm /\ e.action = c.action
        /\ e.screen = c.screen
    BY <2>3, <2>5, CheckDecides
  <2> HIDE DEF e
  <2>7. Together(e)
    BY <2>3, <2>6 DEF Together
  <2>8. o = e
    BY <1>5, <1>8, <2>4 DEF e
  <2> QED
    BY <2>3, <2>6, <2>7, <2>8 DEF Fine
<1> QED
  BY <1>7, <1>8

-----------------------------------------------------------------------------
(* Growth.                                                                 *)
LEMMA Prices ==
    /\ MAX_LEVEL = 15
    /\ \A n \in 1 .. MAX_LEVEL - 1 : n + 1 \in 1 .. MAX_LEVEL /\ LEVEL_UP_EXP[n] \in Nat
BY DEF MAX_LEVEL, LEVEL_UP_EXP

LEMMA CostIs ==
    /\ \A n \in 1 .. MAX_LEVEL : Cost[n] \in Nat
    /\ \A n \in 1 .. MAX_LEVEL - 1 : Cost[n + 1] = Cost[n] + LEVEL_UP_EXP[n]
<1> DEFINE Eq(f) == f = [n \in 1 .. MAX_LEVEL |->
                            IF n = 1 THEN 0 ELSE f[n - 1] + LEVEL_UP_EXP[n - 1]]
           sum == <<0, 1, 3, 6, 11, 18, 29, 46, 71, 102, 141, 189, 250, 326, 409>>
           f == [n \in 1 .. MAX_LEVEL |-> sum[n]]
<1>1. /\ sum[1] = 0 /\ sum[2] = 1 /\ sum[3] = 3 /\ sum[4] = 6 /\ sum[5] = 11 /\ sum[6] = 18
      /\ sum[7] = 29 /\ sum[8] = 46 /\ sum[9] = 71 /\ sum[10] = 102 /\ sum[11] = 141
      /\ sum[12] = 189 /\ sum[13] = 250 /\ sum[14] = 326 /\ sum[15] = 409
  OBVIOUS
<1> HIDE DEF sum
<1>2. /\ LEVEL_UP_EXP[1] = 1 /\ LEVEL_UP_EXP[2] = 2 /\ LEVEL_UP_EXP[3] = 3
      /\ LEVEL_UP_EXP[4] = 5 /\ LEVEL_UP_EXP[5] = 7 /\ LEVEL_UP_EXP[6] = 11
      /\ LEVEL_UP_EXP[7] = 17 /\ LEVEL_UP_EXP[8] = 25 /\ LEVEL_UP_EXP[9] = 31
      /\ LEVEL_UP_EXP[10] = 39 /\ LEVEL_UP_EXP[11] = 48 /\ LEVEL_UP_EXP[12] = 61
      /\ LEVEL_UP_EXP[13] = 76 /\ LEVEL_UP_EXP[14] = 83
  BY DEF LEVEL_UP_EXP
<1>3. ASSUME NEW n \in 2 .. 15 PROVE sum[n] = sum[n - 1] + LEVEL_UP_EXP[n - 1]
  <2>1. n \in {2, 3, 4, 5, 6, 7, 8} \/ n \in {9, 10, 11, 12, 13, 14, 15}
    OBVIOUS
  <2>2. CASE n \in {2, 3, 4, 5, 6, 7, 8}
    BY <1>1, <1>2, <2>2
  <2>3. CASE n \in {9, 10, 11, 12, 13, 14, 15}
    BY <1>1, <1>2, <2>3
  <2> QED
    BY <2>1, <2>2, <2>3
<1>4. Eq(f)
  <2>1. ASSUME NEW n \in 1 .. MAX_LEVEL
        PROVE  sum[n] = IF n = 1 THEN 0 ELSE f[n - 1] + LEVEL_UP_EXP[n - 1]
    <3>1. CASE n = 1
      BY <1>1, <3>1
    <3>2. CASE n # 1
      <4>1. n \in 2 .. 15 /\ n - 1 \in 1 .. MAX_LEVEL
        BY <3>2, Prices
      <4> QED
        BY <1>3, <3>2, <4>1
    <3> QED
      BY <3>1, <3>2
  <2> QED
    BY <2>1
<1>5. Eq(Cost)
  <2> HIDE DEF f
  <2> QED
    BY <1>4, Zenon DEF Cost
<1>6. Cost[1] = 0 /\ \A n \in 2 .. MAX_LEVEL : Cost[n] = Cost[n - 1] + LEVEL_UP_EXP[n - 1]
  BY <1>5, Prices
<1>7. ASSUME NEW n \in 1 .. MAX_LEVEL - 1 PROVE Cost[n + 1] = Cost[n] + LEVEL_UP_EXP[n]
  <2>1. n + 1 \in 2 .. MAX_LEVEL /\ (n + 1) - 1 = n
    BY Prices
  <2> QED
    BY <1>6, <2>1
<1> DEFINE Good == {k \in 0 .. 14 : Cost[k + 1] \in Nat}
<1>8. 0 \in Good
  BY <1>6
<1>9. ASSUME NEW k \in 0 .. 14 - 1, k \in Good PROVE k + 1 \in Good
  <2> DEFINE n == k + 1
  <2>1. n \in 1 .. MAX_LEVEL - 1 /\ n \in 0 .. 14 /\ LEVEL_UP_EXP[n] \in Nat
    BY Prices
  <2> HIDE DEF n
  <2>2. Cost[n + 1] = Cost[n] + LEVEL_UP_EXP[n] /\ Cost[n] \in Nat
    BY <1>7, <1>9, <2>1 DEF n
  <2> QED
    BY <2>1, <2>2 DEF n
<1> HIDE DEF Good
<1>10. \A k \in 0 .. 14 : k \in Good
  BY <1>8, <1>9, InductionUpTo
<1>11. ASSUME NEW n \in 1 .. MAX_LEVEL PROVE Cost[n] \in Nat
  <2>1. n - 1 \in 0 .. 14 /\ (n - 1) + 1 = n
    BY Prices
  <2>2. n - 1 \in Good
    BY <1>10, <2>1
  <2> QED
    BY <2>1, <2>2 DEF Good
<1> QED
  BY <1>7, <1>11

(* What a row became that was given so much experience.                    *)
Bonus(type, q, levels) == IF q = Strong(type) THEN levels ELSE 0
Grown(old, row, had, inc, type) ==
    /\ row \in Rows /\ row.level >= old.level
    /\ Cost[row.level] + row.exp = Cost[old.level] + old.exp + had
    /\ \A q \in Stats :
        /\ row.prop[q] >= old.prop[q]
        /\ row.prop[q] - old.prop[q] - (row.level - old.level) * inc[q]
                \in 0 .. Bonus(type, q, row.level - old.level)

LEMMA RowIs ==
    ASSUME NEW row \in Rows
    PROVE  /\ row.level \in 1 .. MAX_LEVEL /\ row.level \in Nat /\ row.exp \in Nat
           /\ row.prop \in [Stats -> Nat] /\ DOMAIN row.prop = Stats
           /\ \A q \in Stats : row.prop[q] \in Nat
           /\ row = [level |-> row.level, exp |-> row.exp, prop |-> row.prop]
<1>1. /\ row.level \in 1 .. MAX_LEVEL /\ row.exp \in Nat
      /\ row.prop \in [Stats -> Nat] /\ DOMAIN row.prop = Stats
      /\ row = [level |-> row.level, exp |-> row.exp, prop |-> row.prop]
  BY DEF Rows
<1>2. row.level \in Nat
  BY <1>1 DEF MAX_LEVEL
<1> QED
  BY <1>1, <1>2

LEMMA StrongIs == ASSUME NEW type \in 0 .. 3 PROVE Strong(type) \in Stats
<1>1. type + 1 \in 1 .. 4
  OBVIOUS
<1> DEFINE i == type + 1
<1> HIDE DEF i
<1>2. <<"ATK", "HP", "DEF", "SPD">>[i] \in Stats
  BY <1>1 DEF i, Stats
<1> QED
  BY <1>2 DEF Strong, i

LEMMA OneMore ==
    ASSUME NEW d \in Nat, NEW i \in Nat
    PROVE  (d + 1) * i = d * i + i /\ d * i \in Nat
OBVIOUS

LEMMA LevelUpsAre ==
    ASSUME NEW row \in Rows, NEW inc \in [Stats -> Nat], NEW type \in 0 .. 3,
           NEW g \in LevelUps(row, inc, type)
    PROVE  /\ g \in Rows /\ g.level = row.level /\ g.exp = row.exp
           /\ \A q \in Stats : g.prop[q] - row.prop[q] - inc[q] \in 0 .. Bonus(type, q, 1)
<1> DEFINE p == [q \in Stats |-> row.prop[q] + inc[q]]
           s == Strong(type)
           p2 == [p EXCEPT ![s] = p[s] + 1]
<1>1. row.prop \in [Stats -> Nat] /\ DOMAIN row.prop = Stats /\ s \in Stats
  BY RowIs, StrongIs
<1>2. p \in [Stats -> Nat] /\ p2 \in [Stats -> Nat]
  BY <1>1
<1> DEFINE grown == [row EXCEPT !.prop = p]
           stronger == [grown EXCEPT !.prop = p2]
<1>3. g \in {[row EXCEPT !.prop = [q \in DOMAIN row.prop |-> row.prop[q] + inc[q]]],
             [[row EXCEPT !.prop = [q \in DOMAIN row.prop |-> row.prop[q] + inc[q]]]
                EXCEPT !.prop[s] = @ + 1]}
  BY DEF LevelUps
<1>4. [q \in DOMAIN row.prop |-> row.prop[q] + inc[q]] = p
  BY <1>1
<1>5. grown \in Rows /\ grown.level = row.level /\ grown.exp = row.exp /\ grown.prop = p
  <2> HIDE DEF p
  <2> QED
    BY <1>2 DEF Rows
<1>6. [grown EXCEPT !.prop[s] = @ + 1] = stronger
  <2> HIDE DEF grown, p
  <2> QED
    BY <1>5
<1>7. g \in {grown, stronger}
  BY <1>3, <1>4, <1>6
<1> HIDE DEF grown
<1>8. /\ stronger \in Rows /\ stronger.level = row.level /\ stronger.exp = row.exp
      /\ stronger.prop = p2
  <2> HIDE DEF p2
  <2> QED
    BY <1>2, <1>5 DEF Rows
<1> HIDE DEF stronger
<1>9. ASSUME NEW q \in Stats
      PROVE  /\ p[q] - row.prop[q] - inc[q] \in 0 .. Bonus(type, q, 1)
             /\ p2[q] - row.prop[q] - inc[q] \in 0 .. Bonus(type, q, 1)
  <2>1. row.prop[q] \in Nat /\ inc[q] \in Nat /\ p[q] = row.prop[q] + inc[q]
    BY <1>1
  <2>2. p2[q] = IF q = s THEN p[q] + 1 ELSE p[q]
    BY <1>2
  <2>3. Bonus(type, q, 1) = IF q = s THEN 1 ELSE 0
    BY DEF Bonus
  <2> HIDE DEF p, p2, s
  <2> QED
    BY <2>1, <2>2, <2>3
<1> HIDE DEF p, p2
<1> QED
  BY <1>5, <1>7, <1>8, <1>9

CanPay(row) == row.level < MAX_LEVEL /\ row.exp >= LEVEL_UP_EXP[row.level]
Paid(row, g, n) == n = [g EXCEPT !.exp = @ - LEVEL_UP_EXP[row.level], !.level = @ + 1]

LEMMA LevelPaid ==
    ASSUME NEW old \in Rows, NEW r, NEW had \in Nat, NEW inc \in [Stats -> Nat],
           NEW type \in 0 .. 3, Grown(old, r, had, inc, type),
           CanPay(r), NEW g \in LevelUps(r, inc, type), NEW n, Paid(r, g, n)
    PROVE  Grown(old, n, had, inc, type) /\ n.level = r.level + 1
<1>1. r \in Rows
  BY DEF Grown
<1>2. /\ r.level \in 1 .. MAX_LEVEL - 1 /\ r.level \in Nat /\ r.exp \in Nat
      /\ r.level + 1 \in 1 .. MAX_LEVEL
      /\ old.level \in 1 .. MAX_LEVEL /\ old.level \in Nat /\ old.exp \in Nat
  BY <1>1, RowIs, Prices DEF CanPay
<1>3. /\ g \in Rows /\ g.level = r.level /\ g.exp = r.exp
      /\ \A q \in Stats : g.prop[q] - r.prop[q] - inc[q] \in 0 .. Bonus(type, q, 1)
  BY <1>1, LevelUpsAre
<1> DEFINE price == LEVEL_UP_EXP[r.level]
           l == r.level + 1
           e == r.exp - price
<1>4. price \in Nat /\ Cost[l] = Cost[r.level] + price
      /\ Cost[r.level] \in Nat /\ Cost[old.level] \in Nat
  BY <1>2, Prices, CostIs
<1>4a. r.exp >= price
  BY DEF CanPay
<1>5. l \in 1 .. MAX_LEVEL /\ l \in Nat /\ e \in Nat /\ l = r.level + 1
  BY <1>2, <1>4, <1>4a
<1>6. n = [level |-> l, exp |-> e, prop |-> g.prop]
  <2>1. g = [level |-> r.level, exp |-> r.exp, prop |-> g.prop]
    BY <1>3, RowIs
  <2> HIDE DEF l, e
  <2>2. n = [g EXCEPT !.exp = e, !.level = l]
    BY <1>3 DEF e, l, Paid
  <2> QED
    BY ONLY <2>1, <2>2
<1>7. n.level = l /\ n.exp = e /\ n.prop = g.prop
  BY ONLY <1>6
<1>8. n \in Rows
  <2> HIDE DEF l, e
  <2>1. g.prop \in [Stats -> Nat]
    BY <1>3, RowIs
  <2>2. [level |-> l, exp |-> e, prop |-> g.prop] \in Rows
    BY ONLY <1>5, <2>1 DEF Rows
  <2> QED
    BY <1>6, <2>2
<1>9. Cost[l] + e = Cost[old.level] + old.exp + had
  <2>1. Cost[r.level] + r.exp = Cost[old.level] + old.exp + had
    BY DEF Grown
  <2> QED
    BY <1>2, <1>4, <2>1
<1>10. r.level >= old.level
  BY DEF Grown
<1>11. ASSUME NEW q \in Stats
       PROVE  /\ g.prop[q] >= old.prop[q]
              /\ g.prop[q] - old.prop[q] - (l - old.level) * inc[q]
                    \in 0 .. Bonus(type, q, l - old.level)
  <2> DEFINE d == r.level - old.level
             x == d * inc[q]
             y == (d + 1) * inc[q]
             i == inc[q]
             s == q = Strong(type)
             go == g.prop[q]
             ro == r.prop[q]
             oo == old.prop[q]
  <2>1. d \in Nat /\ i \in Nat /\ d + 1 = l - old.level
    BY <1>2, <1>10
  <2>2. y = x + i /\ x \in Nat
    BY <2>1, OneMore
  <2>3. go \in Nat /\ ro \in Nat /\ oo \in Nat
    BY <1>1, <1>3, RowIs
  <2>4. ro >= oo /\ ro - oo - x \in 0 .. (IF s THEN d ELSE 0)
    BY DEF Grown, Bonus
  <2>5. go - ro - i \in 0 .. (IF s THEN 1 ELSE 0)
    BY <1>3 DEF Bonus
  <2>6. Bonus(type, q, l - old.level) = IF s THEN d + 1 ELSE 0
    BY <2>1 DEF Bonus
  <2>7. (l - old.level) * inc[q] = y
    BY <2>1
  <2> HIDE DEF x, y, go, ro, oo, d, i, s, l
  <2>8. go >= oo
    BY <2>1, <2>3, <2>4, <2>5
  <2>9. go - oo - y \in 0 .. (IF s THEN d + 1 ELSE 0)
    <3>1. CASE s
      <4>1. ro - oo - x >= 0 /\ ro - oo - x <= d /\ go - ro - i >= 0 /\ go - ro - i <= 1
        BY <2>1, <2>2, <2>3, <2>4, <2>5, <3>1
      <4>2. go - oo - y = (ro - oo - x) + (go - ro - i)
        BY <2>1, <2>2, <2>3
      <4> QED
        BY <2>1, <2>2, <2>3, <3>1, <4>1, <4>2
    <3>2. CASE ~s
      <4>1. ro - oo - x = 0 /\ go - ro - i = 0
        BY <2>1, <2>2, <2>3, <2>4, <2>5, <3>2
      <4>2. go - oo - y = (ro - oo - x) + (go - ro - i)
        BY <2>1, <2>2, <2>3
      <4>3. go - oo - y = 0
        BY <4>1, <4>2
      <4> QED
        BY <3>2, <4>3
    <3> QED
      BY <3>1, <3>2
  <2> QED
    BY <2>6, <2>7, <2>8, <2>9 DEF go, oo
<1> HIDE DEF l, e, price
<1>12. l >= old.level
  BY <1>2, <1>5, <1>10
<1>13. Grown(old, n, had, inc, type)
  BY <1>7, <1>8, <1>9, <1>11, <1>12 DEF Grown
<1> QED
  BY <1>5, <1>7, <1>13

LEMMA MoreExperience ==
    ASSUME NEW old \in Rows, NEW r, NEW had \in Nat, NEW inc \in [Stats -> Nat],
           NEW type \in 0 .. 3, Grown(old, r, had, inc, type), NEW exp \in Nat
    PROVE  Grown(old, [r EXCEPT !.exp = @ + exp], had + exp, inc, type)
<1> DEFINE e == r.exp + exp
           n == [r EXCEPT !.exp = @ + exp]
<1>1. r \in Rows /\ Cost[r.level] + r.exp = Cost[old.level] + old.exp + had
  BY DEF Grown
<1>2. /\ r.exp \in Nat /\ old.exp \in Nat /\ Cost[r.level] \in Nat /\ Cost[old.level] \in Nat
  BY <1>1, RowIs, CostIs
<1>3. e \in Nat /\ Cost[r.level] + e = Cost[old.level] + old.exp + (had + exp)
  BY <1>1, <1>2
<1>4. n = [r EXCEPT !.exp = e]
  OBVIOUS
<1> HIDE DEF e, n
<1>5. n \in Rows /\ n.level = r.level /\ n.exp = e /\ n.prop = r.prop
  BY <1>1, <1>3, <1>4 DEF Rows
<1> QED
  BY <1>3, <1>5 DEF Grown, n

LEMMA GainIs ==
    ASSUME NEW old \in Rows, NEW row, NEW had \in Nat, NEW inc \in [Stats -> Nat],
           NEW type \in 0 .. 3, Grown(old, row, had, inc, type), Settled(row),
           NEW exp \in Nat, NEW new \in Gain(row, exp, inc, type)
    PROVE  Grown(old, new, had + exp, inc, type) /\ Settled(new)
<1> DEFINE total == had + exp
<1>0. total \in Nat
  OBVIOUS
<1>0a. ASSUME NEW r, Grown(old, r, had + exp, inc, type),
              r.level < MAX_LEVEL, r.exp >= LEVEL_UP_EXP[r.level],
              NEW g \in LevelUps(r, inc, type)
       PROVE  LET n == [g EXCEPT !.exp = @ - LEVEL_UP_EXP[r.level], !.level = @ + 1]
              IN  Grown(old, n, had + exp, inc, type) /\ n.level = r.level + 1
  <2> DEFINE n == [g EXCEPT !.exp = @ - LEVEL_UP_EXP[r.level], !.level = @ + 1]
  <2>1. CanPay(r) /\ Paid(r, g, n)
    BY <1>0a DEF CanPay, Paid
  <2> HIDE DEF n, total
  <2>2. Grown(old, r, total, inc, type)
    BY <1>0a DEF total
  <2>3. Grown(old, n, total, inc, type) /\ n.level = r.level + 1
    BY <1>0, <1>0a, <2>1, <2>2, LevelPaid
  <2> QED
    BY <2>3 DEF n, total
<1> HIDE DEF total
<1> DEFINE W == {r \in Rows : Grown(old, r, had + exp, inc, type)}
           paid(g, r) == [g EXCEPT !.exp = @ - LEVEL_UP_EXP[r.level], !.level = @ + 1]
           next(r) == IF r.level < MAX_LEVEL /\ r.exp >= LEVEL_UP_EXP[r.level]
                      THEN {paid(g, r) : g \in LevelUps(r, inc, type)} ELSE {r}
           step(S) == UNION {next(r) : r \in S}
           start == {[row EXCEPT !.exp = @ + exp]}
           Eq(f) == f = [n \in 0 .. MAX_LEVEL |-> IF n = 0 THEN start ELSE step(f[n - 1])]
           grow == CHOOSE f : Eq(f)
           Price(r) == LEVEL_UP_EXP[r.level]
<1>1. Gain(row, exp, inc, type) = IF exp <= 0 THEN {row} ELSE grow[MAX_LEVEL]
  BY Zenon DEF Gain
<1>2. start \subseteq W
  <2> DEFINE n == [row EXCEPT !.exp = @ + exp]
  <2>1. Grown(old, n, had + exp, inc, type)
    BY MoreExperience
  <2> HIDE DEF n
  <2>2. n \in Rows
    BY <2>1 DEF Grown
  <2> QED
    BY <2>1, <2>2 DEF n
<1>3. ASSUME NEW r \in W
      PROVE  /\ next(r) \subseteq W /\ (Settled(r) => next(r) = {r})
             /\ ~Settled(r) => \A n \in next(r) : n.level = r.level + 1
  <2>1. /\ r \in Rows /\ Grown(old, r, had + exp, inc, type) /\ had + exp \in Nat
        /\ r.level \in 1 .. MAX_LEVEL /\ r.level \in Nat /\ r.exp \in Nat
    BY RowIs
  <2>2. CASE r.level < MAX_LEVEL /\ r.exp >= LEVEL_UP_EXP[r.level]
    <3>1. next(r) = {paid(g, r) : g \in LevelUps(r, inc, type)}
      BY <2>2
    <3>2. ASSUME NEW g \in LevelUps(r, inc, type)
          PROVE  paid(g, r) \in W /\ paid(g, r).level = r.level + 1
      <4> DEFINE n == paid(g, r)
      <4>2. Grown(old, n, had + exp, inc, type) /\ n.level = r.level + 1
        BY <1>0a, <2>1, <2>2
      <4> HIDE DEF n
      <4>3. n \in Rows
        BY <4>2 DEF Grown
      <4> QED
        BY <4>2, <4>3 DEF n
    <3>3. ~Settled(r)
      <4>1. LEVEL_UP_EXP[r.level] \in Nat
        BY <2>1, <2>2, Prices
      <4> QED
        BY <2>1, <2>2, <4>1 DEF Settled
    <3> HIDE DEF paid, next, W
    <3> QED
      BY <3>1, <3>2, <3>3
  <2>3. CASE ~(r.level < MAX_LEVEL /\ r.exp >= LEVEL_UP_EXP[r.level])
    <3>1. next(r) = {r}
      BY <2>3
    <3>2. Settled(r)
      <4>1. r.level < MAX_LEVEL => LEVEL_UP_EXP[r.level] \in Nat
        BY <2>1, Prices
      <4> QED
        BY <2>1, <2>3, <4>1 DEF Settled
    <3> HIDE DEF next
    <3> QED
      BY <3>1, <3>2
  <2> QED
    BY <2>2, <2>3
<1> HIDE DEF next, start, W
<1> DEFINE V == SUBSET W
           h == [S \in V |-> step(S)]
<1>4. ASSUME NEW S \in V PROVE step(S) \in V
  BY <1>3
<1>5. h \in [V -> V] /\ \A S \in V : h[S] = step(S)
  <2> HIDE DEF step, V
  <2> QED
    BY <1>4
<1> HIDE DEF h, step
<1>6. Eq(grow)
  <2>1. start \in V /\ MAX_LEVEL \in Nat
    BY <1>2, Prices
  <2> HIDE DEF V
  <2>2. PICK f : AreRounds(f, V, MAX_LEVEL, start, h)
    BY <1>5, <2>1, RoundsDefined
  <2>3. /\ f \in [0 .. MAX_LEVEL -> V] /\ f[0] = start
        /\ \A k \in 1 .. MAX_LEVEL : f[k] = h[f[k - 1]]
    BY <2>2 DEF AreRounds
  <2>4. ASSUME NEW k \in 1 .. MAX_LEVEL PROVE f[k] = step(f[k - 1])
    <3>1. k - 1 \in 0 .. MAX_LEVEL
      BY <2>1
    <3> QED
      BY <1>5, <2>3, <3>1
  <2>5. ASSUME NEW k \in 0 .. MAX_LEVEL
        PROVE  f[k] = IF k = 0 THEN start ELSE step(f[k - 1])
    <3>1. CASE k = 0
      BY <2>3, <3>1
    <3>2. CASE k # 0
      <4>1. k \in 1 .. MAX_LEVEL
        BY <2>1, <3>2
      <4> QED
        BY <2>4, <3>2, <4>1
    <3> QED
      BY <3>1, <3>2
  <2>6. Eq(f)
    BY <2>3, <2>5
  <2> QED
    BY <2>6, Zenon
<1> HIDE DEF grow, V
<1> DEFINE Good == {k \in 0 .. MAX_LEVEL :
                        /\ grow[k] \subseteq W
                        /\ \A r \in grow[k] : Settled(r) \/ r.level >= 1 + k}
<1>7. 0 \in Good
  <2>1. grow[0] = start /\ 0 \in 0 .. MAX_LEVEL
    BY <1>6, Prices
  <2>2. ASSUME NEW r \in start PROVE r.level >= 1 + 0
    <3>1. r \in W
      BY <1>2
    <3>2. r \in Rows
      BY <3>1 DEF W
    <3> QED
      BY <3>2, RowIs
  <2> QED
    BY <1>2, <2>1, <2>2
<1>8. ASSUME NEW k \in 0 .. MAX_LEVEL - 1, k \in Good PROVE k + 1 \in Good
  <2>1. k + 1 \in 0 .. MAX_LEVEL /\ (k + 1) - 1 = k /\ k + 1 # 0 /\ k \in Nat
    BY Prices
  <2>2. grow[k + 1] = step(grow[k])
    BY <1>6, <2>1
  <2>3. ASSUME NEW n \in grow[k + 1]
        PROVE  n \in W /\ (Settled(n) \/ n.level >= 1 + (k + 1))
    <3>1. PICK r \in grow[k] : n \in next(r)
      BY <2>2 DEF step
    <3>2. r \in W /\ (Settled(r) \/ r.level >= 1 + k)
      BY <1>8
    <3>3. n \in W
      BY <1>3, <3>1, <3>2
    <3>4. CASE Settled(r)
      BY <1>3, <3>1, <3>2, <3>3, <3>4
    <3>5. CASE ~Settled(r)
      <4>1. n.level = r.level + 1 /\ r.level >= 1 + k
        BY <1>3, <3>1, <3>2, <3>5
      <4>2. r.level \in Nat
        <5>1. r \in Rows
          BY <3>2 DEF W
        <5> QED
          BY <5>1, RowIs
      <4> QED
        BY <2>1, <3>3, <4>1, <4>2
    <3> QED
      BY <3>4, <3>5
  <2> QED
    BY <2>1, <2>3
<1> HIDE DEF Good
<1>9. MAX_LEVEL \in Good
  <2>1. MAX_LEVEL \in Nat
    BY Prices
  <2>2. \A k \in 0 .. MAX_LEVEL - 1 : k \in Good => k + 1 \in Good
    BY <1>8
  <2>3. MAX_LEVEL \in 0 .. MAX_LEVEL
    BY <2>1
  <2> QED
    BY <1>7, <2>1, <2>2, <2>3, InductionUpTo
<1>10. CASE exp <= 0
  <2>1. exp = 0 /\ had + exp = had
    BY <1>10
  <2>2. new = row
    BY <1>1, <1>10
  <2> QED
    BY <2>1, <2>2
<1>11. CASE ~(exp <= 0)
  <2>1. new \in grow[MAX_LEVEL]
    BY <1>1, <1>11
  <2>2. new \in W /\ (Settled(new) \/ new.level >= 1 + MAX_LEVEL)
    BY <1>9, <2>1 DEF Good
  <2>3. Grown(old, new, had + exp, inc, type) /\ new \in Rows
    BY <2>2 DEF W
  <2>4. new.level \in 1 .. MAX_LEVEL
    BY <2>3, RowIs
  <2> QED
    BY <2>2, <2>3, <2>4, Prices
<1> QED
  BY <1>10, <1>11

-----------------------------------------------------------------------------
(* The invariant.                                                          *)
Moves(m) ==
    {a \in [Sides -> (UNION {m[s].skills : s \in Sides}) \cup {""}] :
        \A s \in Sides : a[s] \in m[s].skills \cup {""}}
Owned(m, table, got) ==
    /\ table \in [Sides -> Rows] /\ got \in [Sides -> Nat]
    /\ \A s \in Sides : /\ Grown(m[s].row, table[s], got[s], m[s].inc, m[s].type)
                        /\ Settled(table[s])
Sound(m, b) == b \in Fights(Moves(m)) /\ Together(b) /\ Decided(b)
IInv ==
    /\ match \in Matches
    /\ Owned(match, rows, gained)
    /\ Sound(match, battle)
    /\ turns \in 0 .. MaxTurns /\ battles \in 1 .. MaxBattles

LEMMA MovesAre ==
    ASSUME NEW m
    PROVE  /\ Idle \in Moves(m)
           /\ \A a \in Moves(m), s \in Sides : \A k \in m[s].skills :
                [a EXCEPT ![s] = k] \in Moves(m)
           /\ \A a \in Moves(m), s \in Sides : a[s] \in m[s].skills \cup {""}
<1>1. Idle \in Moves(m)
  <2> DEFINE all == (UNION {m[t].skills : t \in Sides}) \cup {""}
  <2>1. Moves(m) = {x \in [Sides -> all] : \A t \in Sides : x[t] \in m[t].skills \cup {""}}
    BY DEF Moves
  <2>2. "" \in all
    OBVIOUS
  <2> HIDE DEF all
  <2>3. Idle \in [Sides -> all] /\ \A t \in Sides : Idle[t] = ""
    BY <2>2 DEF Idle
  <2> QED
    BY <2>1, <2>3
<1>2. ASSUME NEW a \in Moves(m), NEW s \in Sides, NEW k \in m[s].skills
      PROVE  [a EXCEPT ![s] = k] \in Moves(m)
  <2> DEFINE all == (UNION {m[t].skills : t \in Sides}) \cup {""}
             c == [a EXCEPT ![s] = k]
  <2>1. a \in [Sides -> all] /\ \A t \in Sides : a[t] \in m[t].skills \cup {""}
    BY DEF Moves
  <2>2. k \in all
    OBVIOUS
  <2>3. Moves(m) = {x \in [Sides -> all] : \A t \in Sides : x[t] \in m[t].skills \cup {""}}
    BY DEF Moves
  <2> HIDE DEF all
  <2>4. c \in [Sides -> all]
    BY <2>1, <2>2
  <2>5. \A t \in Sides : c[t] \in m[t].skills \cup {""}
    BY <2>1
  <2> QED
    BY <2>3, <2>4, <2>5
<1>3. \A a \in Moves(m), s \in Sides : a[s] \in m[s].skills \cup {""}
  BY DEF Moves
<1> QED
  BY <1>1, <1>2, <1>3

LEMMA KindIs ==
    ASSUME NEW m \in Matches, NEW s \in Sides
    PROVE  /\ m[s].type \in 0 .. 3 /\ m[s].attr \in 0 .. 2 /\ m[s].inc \in [Stats -> Nat]
           /\ m[s].row \in Rows /\ m[s].row.prop["HP"] > 0 /\ Settled(m[s].row)
           /\ "" \notin m[s].skills
<1> DEFINE k == m[s]
<1>1. Kind(k)
  BY BattleAssumption
<1> HIDE DEF k
<1>2. k.type \in {0, 1, 2, 3} /\ k.attr \in {0, 1, 2}
  BY <1>1 DEF Kind, HIGH_ATTACK, HIGH_HITPOINT, HIGH_DEFENSE, HIGH_SPEED, FIRE, WATER, GRASS
<1>3. /\ k.inc \in [Stats -> Nat] /\ k.row \in Rows /\ k.row.prop["HP"] > 0
      /\ Settled(k.row) /\ "" \notin k.skills
  BY <1>1 DEF Kind
<1>4. k.type \in 0 .. 3 /\ k.attr \in 0 .. 2
  BY <1>2
<1> QED
  BY <1>3, <1>4 DEF k

LEMMA GrownAtFirst ==
    ASSUME NEW row \in Rows, NEW inc \in [Stats -> Nat], NEW type
    PROVE  Grown(row, row, 0, inc, type)
<1>1. row.level \in Nat /\ row.exp \in Nat /\ Cost[row.level] \in Nat
      /\ \A q \in Stats : row.prop[q] \in Nat /\ inc[q] \in Nat
  BY RowIs, CostIs
<1>2. ASSUME NEW q \in Stats
      PROVE  row.prop[q] - row.prop[q] - (row.level - row.level) * inc[q]
                \in 0 .. Bonus(type, q, row.level - row.level)
  <2>1. row.level - row.level = 0
    BY <1>1
  <2>2. row.prop[q] - row.prop[q] - 0 * inc[q] = 0
    BY <1>1
  <2>3. Bonus(type, q, 0) = 0
    BY DEF Bonus
  <2> QED
    BY <2>1, <2>2, <2>3
<1> QED
  BY <1>1, <1>2 DEF Grown

LEMMA NewFighter ==
    ASSUME NEW m \in Matches, NEW s \in Sides, NEW row \in Rows, row.prop["HP"] > 0
    PROVE  /\ Fighter(m[s], row) \in Fighters
           /\ Fighter(m[s], row).curHP = row.prop["HP"]
<1> DEFINE props == [q \in Stats \ {"HP"} |-> row.prop[q]]
           f == [level |-> row.level, type |-> m[s].type, attr |-> m[s].attr,
                 HP |-> row.prop["HP"], curHP |-> row.prop["HP"],
                 base |-> props, cur |-> props, buffs |-> <<>>, gone |-> {}]
<1>1. props \in [Props -> Nat]
  <2>1. \A q \in Stats : row.prop[q] \in Nat
    BY RowIs
  <2> QED
    BY <2>1 DEF Props
<1>2. /\ row.level \in 1 .. MAX_LEVEL /\ m[s].type \in 0 .. 3 /\ m[s].attr \in 0 .. 2
      /\ row.prop["HP"] \in Nat \ {0} /\ row.prop["HP"] \in Int
      /\ <<>> \in Seq(Held) /\ {} \in SUBSET Gone
  <2>1. row.prop["HP"] \in Nat /\ row.level \in 1 .. MAX_LEVEL
    BY RowIs, StatsAre
  <2>2. row.prop["HP"] \in Nat \ {0} /\ row.prop["HP"] \in Int
    BY <2>1
  <2>3. m[s].type \in 0 .. 3 /\ m[s].attr \in 0 .. 2
    BY KindIs
  <2>4. <<>> \in Seq(Held) /\ {} \in SUBSET Gone
    OBVIOUS
  <2> QED
    BY <2>1, <2>2, <2>3, <2>4
<1>3. Fighter(m[s], row) = f
  BY DEF Fighter
<1> HIDE DEF props
<1>4. f \in Fighters
  BY <1>1, <1>2 DEF Fighters
<1> QED
  BY <1>3, <1>4

LEMMA BattleBegins ==
    ASSUME match \in Matches, NEW got, NEW table, Owned(match, table, got)
    PROVE  Sound(match, NewBattle(table))
<1> DEFINE hp(s) == table[s].prop["HP"]
           p == [s \in Sides |-> Fighter(match[s], table[s])]
           sc == [s \in Sides |-> [my |-> hp(s), ta |-> hp(Other(s))]]
           b == [pkm |-> p, action |-> Idle, winner |-> Nobody, screen |-> sc]
<1>1. b = NewBattle(table)
  BY DEF NewBattle, Idle
<1>2. ASSUME NEW s \in Sides PROVE table[s] \in Rows /\ hp(s) \in Nat /\ hp(s) > 0
  <2>1. table[s] \in Rows /\ Grown(match[s].row, table[s], got[s], match[s].inc, match[s].type)
    BY DEF Owned
  <2>2. match[s].row \in Rows /\ match[s].row.prop["HP"] > 0
    BY KindIs
  <2>3. table[s].prop["HP"] >= match[s].row.prop["HP"]
    BY <2>1, StatsAre DEF Grown
  <2>4. table[s].prop["HP"] \in Nat /\ match[s].row.prop["HP"] \in Nat
    BY <2>1, <2>2, RowIs, StatsAre
  <2> QED
    BY <2>1, <2>2, <2>3, <2>4
<1>3. p \in [Sides -> Fighters] /\ \A s \in Sides : p[s].curHP = hp(s)
  <2>1. ASSUME NEW s \in Sides
        PROVE  /\ Fighter(match[s], table[s]) \in Fighters
               /\ Fighter(match[s], table[s]).curHP = hp(s)
    BY <1>2, NewFighter
  <2> QED
    BY <2>1
<1> HIDE DEF p
<1>4. sc \in [Sides -> Screens] /\ \A s \in Sides : sc[s].my = hp(s) /\ sc[s].ta = hp(Other(s))
  <2> HIDE DEF hp
  <2>1. \A s \in Sides : hp(s) \in Int /\ hp(Other(s)) \in Int
    BY <1>2, TwoSides
  <2> QED
    BY <2>1 DEF Screens
<1> HIDE DEF sc, hp
<1>5. b \in Fights(Moves(match))
  BY <1>3, <1>4, MovesAre DEF Fights
<1>6. b.pkm = p /\ b.screen = sc /\ b.winner = Nobody
  OBVIOUS
<1> HIDE DEF b
<1>7. Together(b)
  <2>1. ASSUME NEW s \in Sides
        PROVE  b.screen[s].my = b.screen[Other(s)].ta /\ b.screen[s].my >= b.pkm[s].curHP
    BY <1>2, <1>3, <1>4, <1>6, TwoSides
  <2> QED
    BY <2>1 DEF Together
<1>8. Decided(b)
  <2>1. \A s \in Sides : ~(b.pkm[s].curHP <= 0)
    BY <1>2, <1>3, <1>6
  <2> QED
    BY <1>6, <2>1 DEF Decided, Over, Nobody
<1> QED
  BY <1>1, <1>5, <1>7, <1>8 DEF Sound

LEMMA InitIInv == Init => IInv
<1> SUFFICES ASSUME Init PROVE IInv
  OBVIOUS
<1>1. /\ match \in Matches /\ rows = [s \in Sides |-> match[s].row]
      /\ battle = NewBattle(rows) /\ turns = 0 /\ battles = 1
      /\ gained = [s \in Sides |-> 0]
  BY DEF Init
<1>2. Owned(match, rows, gained)
  <2>1. ASSUME NEW s \in Sides
        PROVE  /\ match[s].row \in Rows /\ Settled(match[s].row)
               /\ Grown(match[s].row, match[s].row, 0, match[s].inc, match[s].type)
    BY <1>1, KindIs, GrownAtFirst
  <2> QED
    BY <1>1, <2>1 DEF Owned
<1>3. Sound(match, battle)
  BY <1>1, <1>2, BattleBegins
<1>4. turns \in 0 .. MaxTurns /\ battles \in 1 .. MaxBattles
  BY <1>1, BattleAssumption
<1> QED
  BY <1>1, <1>2, <1>3, <1>4 DEF IInv

(* The result of a battle is stored, a choice is made, a battle begins.    *)
LEMMA ResultStored ==
    ASSUME IInv, NEW o, Sound(match, o), slotGetBattleResult(o)
    PROVE  Owned(match, rows', gained')
<1> DEFINE w == o.winner
           exp == (3 * o.pkm[Other(w)].level) \div 2
<1>1. match \in Matches /\ Owned(match, rows, gained)
  BY DEF IInv
<1>2. CASE Over(o) /\ w \in match.users
  <2>1. w \in Sides
    <3>1. w \in Sides \cup {Nobody} /\ w # Nobody
      BY <1>2, FightIs DEF Sound, Over
    <3> QED
      BY <3>1
  <2>2. exp \in Nat
    <3> DEFINE l == o.pkm[Other(w)].level
    <3>1. l \in Nat
      <4>1. o.pkm[Other(w)] \in Fighters
        BY <2>1, TwoSides, FightIs DEF Sound
      <4> QED
        BY <4>1, FighterIs
    <3> HIDE DEF l
    <3>2. (3 * l) \div 2 \in Nat
      BY <3>1
    <3> QED
      BY <3>2 DEF l
  <2>3. PICK row \in Gain(rows[w], exp, match[w].inc, match[w].type) :
            rows' = [rows EXCEPT ![w] = row] /\ gained' = [gained EXCEPT ![w] = @ + exp]
    BY <1>2 DEF slotGetBattleResult
  <2> HIDE DEF w, exp
  <2>4. /\ rows \in [Sides -> Rows] /\ gained \in [Sides -> Nat]
        /\ \A s \in Sides :
            /\ Grown(match[s].row, rows[s], gained[s], match[s].inc, match[s].type)
            /\ Settled(rows[s])
    BY <1>1 DEF Owned
  <2>5. match[w].row \in Rows /\ match[w].inc \in [Stats -> Nat] /\ match[w].type \in 0 .. 3
    BY <1>1, <2>1, KindIs
  <2>6. /\ Grown(match[w].row, row, gained[w] + exp, match[w].inc, match[w].type)
        /\ Settled(row)
    <3>1. /\ gained[w] \in Nat /\ Settled(rows[w])
          /\ Grown(match[w].row, rows[w], gained[w], match[w].inc, match[w].type)
      BY <2>1, <2>4
    <3> QED
      BY <2>2, <2>3, <2>5, <3>1, GainIs
  <2>7. row \in Rows
    BY <2>6 DEF Grown
  <2>8. /\ rows' \in [Sides -> Rows] /\ gained' \in [Sides -> Nat]
        /\ rows'[w] = row /\ gained'[w] = gained[w] + exp
        /\ \A s \in Sides : s # w => rows'[s] = rows[s] /\ gained'[s] = gained[s]
    BY <2>1, <2>2, <2>3, <2>4, <2>7
  <2>9. ASSUME NEW s \in Sides
        PROVE  /\ Grown(match[s].row, rows'[s], gained'[s], match[s].inc, match[s].type)
               /\ Settled(rows'[s])
    BY <2>4, <2>6, <2>8
  <2> QED
    BY <2>8, <2>9 DEF Owned
<1>3. CASE ~(Over(o) /\ w \in match.users)
  <2>1. rows' = rows /\ gained' = gained
    BY <1>3 DEF slotGetBattleResult
  <2> QED
    BY <1>1, <2>1
<1> QED
  BY <1>2, <1>3

LEMMA Played ==
    ASSUME IInv, turns < MaxTurns, ~Over(battle), NEW b,
           NEW a \in Moves(match), b = [battle EXCEPT !.action = a], Play(b)
    PROVE  Owned(match, rows', gained') /\ Sound(match, battle') /\ turns' \in 0 .. MaxTurns
<1>1. /\ match \in Matches /\ Owned(match, rows, gained) /\ turns \in 0 .. MaxTurns
      /\ battle \in Fights(Moves(match)) /\ Together(battle) /\ Decided(battle)
  BY DEF IInv, Sound
<1>2. /\ b \in Fights(Moves(match)) /\ b.pkm = battle.pkm /\ b.winner = battle.winner
      /\ b.screen = battle.screen /\ b.action = a
  BY <1>1, FightChanged
<1>3. Together(b) /\ Decided(b) /\ ~Over(b)
  BY <1>1, <1>2 DEF Together, Decided, Over
<1>4. CASE \A s \in Sides : b.action[s] # ""
  <2>1. PICK o \in turn(b) : battle' = o /\ slotGetBattleResult(o) /\ turns' = turns + 1
    BY <1>4 DEF Play
  <2>2. Fine(Moves(match), b.action, o)
    BY <1>2, <1>3, MovesAre, TurnIs
  <2>3. Sound(match, o)
    BY <2>2 DEF Fine, Sound
  <2>4. turns' \in 0 .. MaxTurns
    BY <1>1, <2>1, BattleAssumption
  <2>5. Owned(match, rows', gained')
    BY <2>1, <2>3, ResultStored
  <2> QED
    BY <2>1, <2>3, <2>4, <2>5
<1>5. CASE ~(\A s \in Sides : b.action[s] # "")
  <2>1. battle' = b /\ rows' = rows /\ turns' = turns /\ gained' = gained
    BY <1>5 DEF Play
  <2> QED
    BY <1>1, <1>2, <1>3, <2>1 DEF Sound
<1> QED
  BY <1>4, <1>5

LEMMA ActionChosen ==
    ASSUME IInv, NEW s \in Sides, NEW skill, SetAction(s, skill)
    PROVE  IInv'
<1>1. /\ ~Over(battle) /\ turns < MaxTurns /\ skill \in match[s].skills
      /\ match' = match /\ battles' = battles
  BY DEF SetAction
<1>2. /\ match \in Matches /\ battle \in Fights(Moves(match)) /\ battles \in 1 .. MaxBattles
  BY DEF IInv, Sound
<1> DEFINE a == [battle.action EXCEPT ![s] = skill]
           b == [battle EXCEPT !.action = a]
<1>3. battle.action \in Moves(match) /\ a \in Moves(match)
  BY <1>1, <1>2, FightIs, MovesAre
<1>4. \E c \in Moves(match) : Play([battle EXCEPT !.action = c])
  <2>1. CASE "B" \in match.users
    <3>1. Play(b)
      BY <2>1 DEF SetAction
    <3> QED
      BY <1>3, <3>1
  <2>2. CASE "B" \notin match.users
    <3>1. PICK any \in match["B"].skills : Play([b EXCEPT !.action["B"] = any])
      BY <2>2 DEF SetAction
    <3> DEFINE c == [a EXCEPT !["B"] = any]
    <3>2. c \in Moves(match)
      BY <1>3, MovesAre, TwoSides
    <3>3. [b EXCEPT !.action["B"] = any] = [battle EXCEPT !.action = c]
      <4>1. battle = [pkm |-> battle.pkm, action |-> battle.action, winner |-> battle.winner,
                      screen |-> battle.screen]
        BY <1>2, FightIs
      <4> HIDE DEF a
      <4>2. b = [pkm |-> battle.pkm, action |-> a, winner |-> battle.winner,
                 screen |-> battle.screen]
        BY <4>1
      <4> HIDE DEF b
      <4>3. [b EXCEPT !.action["B"] = any]
                = [pkm |-> battle.pkm, action |-> c, winner |-> battle.winner,
                   screen |-> battle.screen]
        BY <4>2
      <4>4. [battle EXCEPT !.action = c]
                = [pkm |-> battle.pkm, action |-> c, winner |-> battle.winner,
                   screen |-> battle.screen]
        BY <4>1
      <4> QED
        BY <4>3, <4>4
    <3> HIDE DEF c
    <3> QED
      BY <3>1, <3>2, <3>3
  <2> QED
    BY <2>1, <2>2
<1>5. PICK c \in Moves(match) : Play([battle EXCEPT !.action = c])
  BY <1>4
<1> DEFINE e == [battle EXCEPT !.action = c]
<1>6. e = [battle EXCEPT !.action = c] /\ Play(e)
  BY <1>5
<1> HIDE DEF e
<1>7. Owned(match, rows', gained') /\ Sound(match, battle') /\ turns' \in 0 .. MaxTurns
  BY <1>1, <1>6, Played
<1> QED
  BY <1>1, <1>2, <1>7 DEF IInv

LEMMA BattleStarted == IInv /\ StartBattle => IInv'
<1> SUFFICES ASSUME IInv, StartBattle PROVE IInv'
  OBVIOUS
<1>1. /\ match' = match /\ rows' = rows /\ gained' = gained /\ turns' = 0
      /\ battles' = battles + 1 /\ battles < MaxBattles /\ battle' = NewBattle(rows)
  BY DEF StartBattle
<1>2. match \in Matches /\ Owned(match, rows, gained) /\ battles \in 1 .. MaxBattles
  BY DEF IInv
<1>3. Sound(match, NewBattle(rows))
  BY <1>2, BattleBegins
<1>4. battles' \in 1 .. MaxBattles /\ turns' \in 0 .. MaxTurns
  BY <1>1, <1>2, BattleAssumption
<1> QED
  BY <1>1, <1>2, <1>3, <1>4 DEF IInv

LEMMA StepIInv == IInv /\ [Next]_vars => IInv'
<1> SUFFICES ASSUME IInv, [Next]_vars PROVE IInv'
  OBVIOUS
<1>1. CASE \E s \in Sides : \E skill \in match[s].skills : SetAction(s, skill)
  BY <1>1, ActionChosen
<1>2. CASE StartBattle
  BY <1>2, BattleStarted
<1>3. CASE UNCHANGED vars
  <2>1. /\ match' = match /\ rows' = rows /\ battle' = battle /\ turns' = turns
        /\ battles' = battles /\ gained' = gained
    BY <1>3 DEF vars
  <2> QED
    BY <2>1 DEF IInv
<1> QED
  BY <1>1, <1>2, <1>3 DEF Next

-----------------------------------------------------------------------------
(* What it implies.                                                        *)
LEMMA ImpliesTypes == IInv => TypeOK
<1> SUFFICES ASSUME IInv PROVE TypeOK
  OBVIOUS
<1>1. /\ match \in Matches /\ turns \in 0 .. MaxTurns /\ battles \in 1 .. MaxBattles
      /\ battle \in Fights(Moves(match)) /\ Owned(match, rows, gained)
  BY DEF IInv, Sound
<1>2. battle.winner \in Sides \cup {Nobody} /\ battle.action \in Moves(match)
  BY <1>1, FightIs
<1>3. Held \subseteq Buffs /\ Gone \subseteq Buffs
  BY DEF Held, Gone, OnPkm, Buffs, Given
<1>4. ASSUME NEW q \in Seq(Held) PROVE q \in Seq(Buffs)
  <2>1. Len(q) \in Nat /\ q \in [1 .. Len(q) -> Held]
    OBVIOUS
  <2>2. q \in [1 .. Len(q) -> Buffs]
    BY <1>3, <2>1
  <2> QED
    BY <2>1, <2>2, SeqDef
<1>5. ASSUME NEW s \in Sides
      PROVE  LET p == battle.pkm[s]
             IN  /\ rows[s].level \in 1 .. MAX_LEVEL /\ rows[s].exp \in Nat
                 /\ p.curHP \in Int /\ p.cur \in [Props -> Nat] /\ p.base \in [Props -> Nat]
                 /\ p.buffs \in Seq(Buffs) /\ p.gone \subseteq Buffs
                 /\ battle.action[s] \in match[s].skills \cup {""}
                 /\ battle.screen[s] \in [my : Int, ta : Int]
                 /\ gained[s] \in Nat
  <2> DEFINE p == battle.pkm[s]
  <2>1. p \in Fighters /\ battle.screen[s] \in Screens
    BY <1>1, FightIs
  <2>2. rows[s] \in Rows /\ gained[s] \in Nat
    BY <1>1 DEF Owned
  <2>3. rows[s].level \in 1 .. MAX_LEVEL /\ rows[s].exp \in Nat
    BY <2>2, RowIs
  <2>4. battle.action[s] \in match[s].skills \cup {""}
    BY <1>2, MovesAre
  <2> HIDE DEF p
  <2>5. /\ p.curHP \in Int /\ p.cur \in [Props -> Nat] /\ p.base \in [Props -> Nat]
        /\ p.buffs \in Seq(Held) /\ p.gone \in SUBSET Gone
    BY <2>1, FighterIs
  <2>6. p.buffs \in Seq(Buffs) /\ p.gone \subseteq Buffs
    BY <1>3, <1>4, <2>5
  <2> QED
    BY <2>1, <2>2, <2>3, <2>4, <2>5, <2>6 DEF p, Screens
<1> QED
  BY <1>1, <1>2, <1>5 DEF TypeOK

LEMMA ImpliesEffects == IInv => EffectsNotEarly
<1> SUFFICES ASSUME IInv, NEW s \in Sides, NEW buff \in battle.pkm[s].gone
             PROVE  buff.felt >= buff.given
  BY DEF EffectsNotEarly
<1>1. battle.pkm[s] \in Fighters
  BY FightIs DEF IInv, Sound
<1>2. buff \in Gone
  BY <1>1, FighterIs
<1>3. buff.given <= buff.felt /\ buff.given \in Nat /\ buff.felt \in Nat
  BY <1>2 DEF Gone, OnPkm
<1> QED
  BY <1>3

LEMMA ImpliesExperience == IInv => ExperienceKept
<1> SUFFICES ASSUME IInv PROVE ExperienceKept
  OBVIOUS
<1>1. match \in Matches /\ Owned(match, rows, gained)
  BY DEF IInv
<1>2. ASSUME NEW s \in Sides
      PROVE  LET old == match[s].row
                 new == rows[s]
             IN  /\ Cost[new.level] + new.exp = Cost[old.level] + old.exp + gained[s]
                 /\ Settled(new)
                 /\ \A q \in DOMAIN new.prop :
                     LET more == (new.level - old.level) * match[s].inc[q]
                     IN  new.prop[q] - old.prop[q] - more \in
                             0 .. (IF q = Strong(match[s].type) THEN new.level - old.level ELSE 0)
  <2> DEFINE new == rows[s]
             old == match[s].row
  <2>1. /\ Grown(old, new, gained[s], match[s].inc, match[s].type) /\ Settled(new)
        /\ new \in Rows
    BY <1>1 DEF Owned
  <2>2. DOMAIN new.prop = Stats
    BY <2>1, RowIs
  <2> HIDE DEF new, old
  <2>3. Cost[new.level] + new.exp = Cost[old.level] + old.exp + gained[s]
    BY <2>1 DEF Grown
  <2>4. ASSUME NEW q \in Stats
        PROVE  new.prop[q] - old.prop[q] - (new.level - old.level) * match[s].inc[q] \in
                    0 .. (IF q = Strong(match[s].type) THEN new.level - old.level ELSE 0)
    BY <2>1 DEF Grown, Bonus
  <2> QED
    BY <2>1, <2>2, <2>3, <2>4 DEF new, old
<1> QED
  BY <1>2 DEF ExperienceKept

-----------------------------------------------------------------------------
LEMMA Always == Spec => []IInv
<1>1. Init => IInv
  BY InitIInv
<1>2. IInv /\ [Next]_vars => IInv'
  BY StepIInv
<1> QED
  BY <1>1, <1>2, PTL DEF Spec

\* In every battle, whatever the players choose and the dice show, all
\* variables keep their types.
THEOREM BattleTypes == Spec => []TypeOK
<1>1. IInv => TypeOK
  BY ImpliesTypes
<1> QED
  BY <1>1, Always, PTL

\* A battle is decided by the step that takes a Pokemon's last hit point and
\* by no other; when A wins, A stands (BattleField.cpp:101).
THEOREM WinnerKnown == Spec => []WinnerStands
<1>1. IInv => WinnerStands
  BY DEF IInv, Sound, Decided, WinnerStands
<1> QED
  BY <1>1, Always, PTL

\* After any number of turns both players see the same hit points, and never
\* fewer than there are (ServerBackend.cpp:979, BattlePage.qml:111).
THEOREM ScreensTogether == Spec => []ScreensAgree
<1>1. IInv => ScreensAgree
  BY DEF IInv, Sound, Together, ScreensAgree
<1> QED
  BY <1>1, Always, PTL

\* No list of buffs, however long, loses one of them before it was at work
\* at as many ends of turn as it was given for; one the loop leaves out is
\* not at work and does not count down (BattleField.cpp:307).
THEOREM EffectsLast == Spec => []EffectsNotEarly
<1>1. IInv => EffectsNotEarly
  BY ImpliesEffects
<1> QED
  BY <1>1, Always, PTL

\* Over any number of battles what a Pokemon was given is what its levels
\* cost and what it still has (PokemonBase.cpp:80).
THEOREM NothingLost == Spec => []ExperienceKept
<1>1. IInv => ExperienceKept
  BY ImpliesExperience
<1> QED
  BY <1>1, Always, PTL

-----------------------------------------------------------------------------
(* Duels.                                                                  *)
LEMMA Sided == \A s \in Sides : Other(s) \in Sides /\ Other(s) # s
BY DEF Sides, Other

-----------------------------------------------------------------------------
(* The battles: all that matters here is that a battle is a record with    *)
(* these fields, won by somebody who fights.                               *)
Record(p, a, w, s) == [pkm |-> p, action |-> a, winner |-> w, screen |-> s]
IsBattle(b) == \E p, a, s : \E w \in Sides \cup {Nobody} : b = Record(p, a, w, s)

LEMMA Fields ==
    ASSUME NEW b, IsBattle(b)
    PROVE  \E p, a, s : \E w \in Sides \cup {Nobody} :
                b = [pkm |-> p, action |-> a, winner |-> w, screen |-> s]
BY DEF IsBattle, Record

LEMMA ChangeKeepsBattle ==
    ASSUME NEW b, IsBattle(b), NEW v
    PROVE  /\ v \in Sides => IsBattle([b EXCEPT !.winner = v])
           /\ IsBattle([b EXCEPT !.pkm = v])
           /\ IsBattle([b EXCEPT !.action = v])
           /\ IsBattle([b EXCEPT !.screen = v])
<1>1. PICK p, a, s : \E w \in Sides \cup {Nobody} :
                b = [pkm |-> p, action |-> a, winner |-> w, screen |-> s]
  BY Fields
<1>2. PICK w \in Sides \cup {Nobody} :
                b = [pkm |-> p, action |-> a, winner |-> w, screen |-> s]
  BY <1>1
<1>3. /\ [b EXCEPT !.winner = v] = Record(p, a, v, s)
      /\ [b EXCEPT !.pkm = v] = Record(v, a, w, s)
      /\ [b EXCEPT !.action = v] = Record(p, v, w, s)
      /\ [b EXCEPT !.screen = v] = Record(p, a, w, v)
  BY <1>2 DEF Record
<1> QED
  BY <1>3 DEF IsBattle

LEMMA WinnerIs ==
    ASSUME NEW b, IsBattle(b), Over(b)
    PROVE  b.winner \in Sides
<1>1. \E p, a, s : \E w \in Sides \cup {Nobody} :
            b = [pkm |-> p, action |-> a, winner |-> w, screen |-> s]
  BY Fields
<1> QED
  BY <1>1 DEF Over

LEMMA CheckKeepsBattle ==
    ASSUME NEW b, IsBattle(b)
    PROVE  IsBattle(checkBattleIsFinished(b))
<1>1. "A" \in Sides /\ "B" \in Sides
  BY DEF Sides
<1>2. checkBattleIsFinished(b) \in {b, [b EXCEPT !.winner = "A"], [b EXCEPT !.winner = "B"]}
  BY DEF checkBattleIsFinished
<1>3. IsBattle([b EXCEPT !.winner = "A"]) /\ IsBattle([b EXCEPT !.winner = "B"])
  BY <1>1, ChangeKeepsBattle
<1> QED
  BY <1>2, <1>3

LEMMA StrikeKeepsBattle ==
    ASSUME NEW b, IsBattle(b), NEW from, NEW o \in Strike(b, from)
    PROVE  IsBattle(o)
<1>1. PICK p, a, s : \E w \in Sides \cup {Nobody} :
                b = [pkm |-> p, action |-> a, winner |-> w, screen |-> s]
  BY Fields
<1>2. PICK w \in Sides \cup {Nobody} :
                b = [pkm |-> p, action |-> a, winner |-> w, screen |-> s]
  BY <1>1
<1>3. PICK r : o = checkBattleIsFinished(
                    [HandleResult(b, from, r).battle EXCEPT
                        !.pkm[from] = Hurt(@, HandleResult(b, from, r).result.selfDeltaHp),
                        !.pkm[Other(from)] = Hurt(@, HandleResult(b, from, r).result.destDeltaHp),
                        !.screen = TurnInfo(@, from, HandleResult(b, from, r).result)])
  BY DEF Strike
<1>4. PICK q : HandleResult(b, from, r).battle
                = [pkm |-> q, action |-> a, winner |-> w, screen |-> s]
  BY <1>2 DEF HandleResult
<1>5. ASSUME NEW h, h = [pkm |-> q, action |-> a, winner |-> w, screen |-> s],
             NEW to, NEW x, NEW y, NEW z
      PROVE  IsBattle([h EXCEPT !.pkm[from] = x, !.pkm[to] = y, !.screen = z])
  <2> DEFINE h1 == [h EXCEPT !.pkm = [h.pkm EXCEPT ![from] = x]]
             h2 == [h1 EXCEPT !.pkm = [h1.pkm EXCEPT ![to] = y]]
  <2>1. [h EXCEPT !.pkm[from] = x, !.pkm[to] = y, !.screen = z] = [h2 EXCEPT !.screen = z]
    OBVIOUS
  <2>2. IsBattle(h)
    BY <1>5 DEF IsBattle, Record
  <2>3. IsBattle(h1)
    BY <2>2, ChangeKeepsBattle
  <2>4. IsBattle(h2)
    BY <2>3, ChangeKeepsBattle
  <2> QED
    BY <2>1, <2>4, ChangeKeepsBattle
<1>6. IsBattle([HandleResult(b, from, r).battle EXCEPT
                    !.pkm[from] = Hurt(@, HandleResult(b, from, r).result.selfDeltaHp),
                    !.pkm[Other(from)] = Hurt(@, HandleResult(b, from, r).result.destDeltaHp),
                    !.screen = TurnInfo(@, from, HandleResult(b, from, r).result)])
  BY <1>4, <1>5
<1> QED
  BY <1>3, <1>6, CheckKeepsBattle

LEMMA TurnKeepsBattle ==
    ASSUME NEW b, IsBattle(b), NEW o \in turn(b)
    PROVE  IsBattle(o)
<1> DEFINE one == Strike(b, First(b))
           two == UNION {IF Over(c) THEN {c} ELSE Strike(c, Other(First(b))) : c \in one}
           rest(c) == queryBuffList([c EXCEPT !.action = [s \in Sides |-> ""]])
<1>1. \A c \in one : IsBattle(c)
  BY StrikeKeepsBattle
<1>2. ASSUME NEW c \in two
      PROVE  IsBattle(c)
  <2>1. PICK d \in one : c \in IF Over(d) THEN {d} ELSE Strike(d, Other(First(b)))
    OBVIOUS
  <2> QED
    BY <1>1, <2>1, StrikeKeepsBattle
<1>3. PICK c \in two : o = IF Over(c) THEN c ELSE checkBattleIsFinished(rest(c))
  BY DEF turn
<1>4. IsBattle(rest(c))
  <2>1. \A d : IsBattle(d) => IsBattle(queryBuffList(d))
    BY ChangeKeepsBattle DEF queryBuffList
  <2>2. IsBattle([c EXCEPT !.action = [s \in Sides |-> ""]])
    BY <1>2, ChangeKeepsBattle
  <2> QED
    BY <2>1, <2>2
<1> HIDE DEF one, two, rest
<1> QED
  BY <1>2, <1>3, <1>4, CheckKeepsBattle

LEMMA NextKeepsBattle ==
    ASSUME IsBattle(battle), Next
    PROVE  IsBattle(battle') /\ match' = match
<1>1. CASE StartBattle
  <2>1. \A rs : IsBattle(NewBattle(rs))
    BY DEF NewBattle, IsBattle, Record
  <2> QED
    BY <1>1, <2>1 DEF StartBattle
<1>2. ASSUME NEW s \in Sides, NEW skill, SetAction(s, skill)
      PROVE  IsBattle(battle') /\ match' = match
  <2>1. ASSUME NEW b, IsBattle(b), NEW x, NEW v
        PROVE  IsBattle([b EXCEPT !.action[x] = v])
    <3>1. [b EXCEPT !.action[x] = v] = [b EXCEPT !.action = [b.action EXCEPT ![x] = v]]
      OBVIOUS
    <3> QED
      BY <2>1, <3>1, ChangeKeepsBattle
  <2>2. \A b : IsBattle(b) /\ Play(b) => IsBattle(battle')
    BY TurnKeepsBattle DEF Play
  <2> QED
    BY <1>2, <2>1, <2>2 DEF SetAction
<1> QED
  BY <1>1, <1>2 DEF Next

-----------------------------------------------------------------------------
(* The inductive invariant.  PokemonKept alone is not enough: that a row   *)
(* given a number of its own overwrites none takes that all numbers are    *)
(* below the next one, that a Pokemon made anew is no other's takes the    *)
(* same of the names, and that the row to be given away is there takes     *)
(* that what is offered is owned.                                          *)
Typed ==
    /\ match \in Matches /\ IsBattle(battle)
    /\ tables = [u \in Sides |-> tables[u]]
    /\ nextId \in [Sides -> Nat \ {0}]
    /\ offer = [u \in Sides |-> offer[u]]
Numbered ==
    \A u \in Sides :
        /\ DOMAIN tables[u] \subseteq 1 .. nextId[u] - 1
        /\ offer[u] \subseteq DOMAIN tables[u]
        /\ DOMAIN tables[u] # {}
Fresh == \A u \in Sides : \A n \in Nat : n >= nextId[u] => <<u, n>> \notin made
Listed == \A u \in Sides : \A i \in DOMAIN tables[u] : tables[u][i] \in made
OneRow ==
    \A u, v \in Sides : \A i \in DOMAIN tables[u], j \in DOMAIN tables[v] :
        tables[u][i] = tables[v][j] => u = v /\ i = j
SomeRow == \A p \in made : \E u \in Sides : \E i \in DOMAIN tables[u] : tables[u][i] = p
Accounted == Typed /\ Numbered /\ Fresh /\ Listed /\ OneRow /\ SomeRow

LEMMA InitAccounted == DuelInit => Accounted
<1> SUFFICES ASSUME DuelInit PROVE Accounted
  OBVIOUS
<1> DEFINE owned(u) == match.owned[u]
<1>0. match \in Matches /\ match.owned \in [Sides -> Nat \ {0}]
  BY DuelAssumption DEF DuelInit, Init
<1>1. /\ tables = [u \in Sides |-> [i \in 1 .. owned(u) |-> <<u, i>>]]
      /\ nextId = [u \in Sides |-> owned(u) + 1]
      /\ offer = [u \in Sides |-> {}]
  BY DEF DuelInit
<1>2. \A u \in Sides : owned(u) \in Nat \ {0}
  BY <1>0
<1>3. \A p : p \in made <=> \E u \in Sides : \E i \in 1 .. owned(u) : p = <<u, i>>
  <2>1. made = UNION {{tables[u][i] : i \in DOMAIN tables[u]} : u \in Sides}
    BY DEF DuelInit
  <2> DEFINE pkms(u) == {tables[u][i] : i \in DOMAIN tables[u]}
  <2>2. \A u \in Sides : \A p : p \in pkms(u) <=> \E i \in 1 .. owned(u) : p = <<u, i>>
    BY <1>1, Zenon
  <2>3. made = UNION {pkms(u) : u \in Sides}
    BY <2>1
  <2> HIDE DEF pkms
  <2>4. \A p : p \in made <=> \E u \in Sides : p \in pkms(u)
    BY <2>3
  <2> QED
    BY <2>2, <2>4, Zenon
<1> HIDE DEF owned
<1>4. Typed
  <2>1. IsBattle(battle)
    BY DEF DuelInit, Init, NewBattle, IsBattle, Record
  <2> QED
    BY <1>0, <1>1, <1>2, <2>1 DEF Typed
<1>5. Numbered
  BY <1>1, <1>2 DEF Numbered
<1>6. Fresh
  <2>1. SUFFICES ASSUME NEW u \in Sides, NEW n \in Nat, n >= nextId[u], <<u, n>> \in made
                 PROVE  FALSE
    BY DEF Fresh
  <2>2. PICK v \in Sides : \E i \in 1 .. owned(v) : <<u, n>> = <<v, i>>
    BY <1>3, <2>1, Zenon
  <2>3. n \in 1 .. owned(u)
    BY <2>2
  <2> QED
    BY <1>1, <1>2, <2>1, <2>3
<1>7. Listed /\ OneRow /\ SomeRow
  <2>1. Listed
    BY <1>1, <1>3, Zenon DEF Listed
  <2>2. OneRow
    BY <1>1 DEF OneRow
  <2>3. SomeRow
    BY <1>1, <1>3, Zenon DEF SomeRow
  <2> QED
    BY <2>1, <2>2, <2>3
<1> QED
  BY <1>4, <1>5, <1>6, <1>7 DEF Accounted

-----------------------------------------------------------------------------
(* What is done to the tables: somebody is given a new Pokemon, or a row   *)
(* goes from one table to the other.                                       *)
LEMMA GivenNew ==
    ASSUME Accounted, NEW w \in Sides,
           tables' = [tables EXCEPT ![w] = Insert(@, nextId[w], <<w, nextId[w]>>)],
           nextId' = [nextId EXCEPT ![w] = @ + 1],
           made' = made \cup {<<w, nextId[w]>>},
           offer' = offer, IsBattle(battle'), match' = match
    PROVE  Accounted'
<1> DEFINE id == nextId[w]
           pkm == <<w, nextId[w]>>
<1>1. /\ id \in Nat \ {0} /\ id \notin DOMAIN tables[w]
      /\ pkm \notin made
  BY DEF Accounted, Typed, Numbered, Fresh
<1>2. /\ DOMAIN tables'[w] = DOMAIN tables[w] \cup {id}
      /\ tables'[w][id] = pkm
      /\ \A i \in DOMAIN tables[w] : tables'[w][i] = tables[w][i]
      /\ \A u \in Sides : u # w => tables'[u] = tables[u]
  BY <1>1 DEF Accounted, Typed, Insert
<1>3. Typed'
  BY DEF Accounted, Typed
<1>4. Numbered'
  <2>1. nextId \in [Sides -> Nat \ {0}] /\ Numbered
    BY DEF Accounted, Typed
  <2>2. ASSUME NEW u \in Sides, u # w
        PROVE  tables'[u] = tables[u] /\ nextId'[u] = nextId[u]
    BY <1>2, <2>1, <2>2
  <2>3. nextId'[w] = id + 1 /\ id \in Nat
    BY <2>1
  <2>4. DOMAIN tables'[w] \subseteq 1 .. nextId'[w] - 1
    BY <1>2, <2>1, <2>3 DEF Numbered
  <2> QED
    BY <1>2, <2>1, <2>2, <2>4 DEF Numbered
<1>5. Fresh'
  <2>1. SUFFICES ASSUME NEW u \in Sides, NEW n \in Nat, n >= nextId'[u], <<u, n>> \in made'
                 PROVE  FALSE
    BY DEF Fresh
  <2>2. n >= nextId[u] /\ (u = w => n # id)
    BY <2>1 DEF Accounted, Typed
  <2>3. <<u, n>> # pkm
    BY <2>2
  <2> QED
    BY <2>1, <2>2, <2>3 DEF Accounted, Fresh
<1> HIDE DEF id, pkm
<1>6. made' = made \cup {pkm}
  BY DEF pkm
<1>7. Listed'
  BY <1>2, <1>6 DEF Accounted, Listed
<1>8. OneRow'
  BY <1>1, <1>2 DEF Accounted, OneRow, Listed
<1>9. SomeRow'
  BY <1>2, <1>6 DEF Accounted, SomeRow
<1> QED
  BY <1>3, <1>4, <1>5, <1>7, <1>8, <1>9 DEF Accounted

LEMMA GivenAway ==
    ASSUME Accounted, NEW l \in Sides, TransferPokemon(l)
    PROVE  Accounted'
<1> DEFINE d == Other(l)
           low == nextId[d]
           new == <<l, nextId[l]>>
<1>1. /\ d \in Sides /\ d # l /\ \A u \in Sides : u \in {l, d}
      /\ low \in Nat /\ low \notin DOMAIN tables[d]
      /\ new \notin made
      /\ nextId[l] \in Nat \ {0}
  <2>1. d \in Sides /\ d # l /\ \A u \in Sides : u \in {l, d}
    BY DEF Sides, Other
  <2> QED
    BY <2>1 DEF Accounted, Typed, Numbered, Fresh
<1>2. PICK id \in offer[l] :
        /\ tables' = Transfer(l, d, id)
        /\ nextId' = [nextId EXCEPT ![d] = @ + 1,
                                    ![l] = IF DOMAIN tables[l] = {id} THEN @ + 1 ELSE @]
        /\ made' = IF DOMAIN tables[l] = {id} THEN made \cup {new} ELSE made
        /\ offer' = [offer EXCEPT ![l] = {}]
        /\ UNCHANGED <<match, battle>>
  BY DEF TransferPokemon, vars
<1> DEFINE bare == DOMAIN tables[l] = {id}
           pkm == tables[l][id]
<1>3. id \in DOMAIN tables[l]
  BY DEF Accounted, Numbered
<1>4. /\ DOMAIN tables'[d] = DOMAIN tables[d] \cup {low}
      /\ tables'[d][low] = pkm
      /\ \A i \in DOMAIN tables[d] : tables'[d][i] = tables[d][i]
  BY <1>1, <1>2 DEF Accounted, Typed, Transfer, Insert
<1>5. ASSUME ~bare
      PROVE  /\ DOMAIN tables'[l] = DOMAIN tables[l] \ {id}
             /\ \A i \in DOMAIN tables'[l] : tables'[l][i] = tables[l][i]
  BY <1>1, <1>2, <1>5 DEF Accounted, Typed, Transfer
<1>6. ASSUME bare
      PROVE  DOMAIN tables'[l] = {nextId[l]} /\ tables'[l][nextId[l]] = new
  <2>1. tables'[l] = Insert(<<>>, nextId[l], new)
    BY <1>1, <1>2, <1>6 DEF Accounted, Typed, Transfer
  <2> QED
    BY <2>1 DEF Insert
<1>7. nextId'[d] = low + 1 /\ nextId'[l] = IF bare THEN nextId[l] + 1 ELSE nextId[l]
  BY <1>1, <1>2 DEF Accounted, Typed
<1>8. Typed'
  <2>1. nextId \in [Sides -> Nat \ {0}]
    BY DEF Accounted, Typed
  <2>2. nextId' \in [Sides -> Nat \ {0}]
    BY <1>1, <1>2, <2>1
  <2>3. tables' = [u \in Sides |-> tables'[u]] /\ offer' = [u \in Sides |-> offer'[u]]
    BY <1>2 DEF Accounted, Typed, Transfer
  <2>4. match' \in Matches /\ IsBattle(battle')
    BY <1>2 DEF Accounted, Typed
  <2> QED
    BY <2>2, <2>3, <2>4 DEF Typed
<1> HIDE DEF low, new, pkm
<1>9. Numbered'
  <2>1. offer'[l] = {} /\ offer'[d] = offer[d]
    BY <1>1, <1>2 DEF Accounted, Typed
  <2>2. /\ DOMAIN tables'[d] \subseteq 1 .. nextId'[d] - 1
        /\ offer'[d] \subseteq DOMAIN tables'[d]
        /\ DOMAIN tables'[d] # {}
    <3>1. DOMAIN tables[d] \subseteq 1 .. low - 1 /\ offer[d] \subseteq DOMAIN tables[d]
      BY <1>1 DEF Accounted, Numbered, low
    <3>2. low \in 1 .. low
      BY <1>1 DEF Accounted, Typed, low
    <3> QED
      BY <1>1, <1>4, <1>7, <2>1, <3>1, <3>2
  <2>3. CASE bare
    BY <1>1, <1>6, <1>7, <2>1, <2>2, <2>3 DEF Numbered
  <2>4. CASE ~bare
    <3>1. DOMAIN tables[l] \subseteq 1 .. nextId[l] - 1
      BY <1>1 DEF Accounted, Numbered
    <3>2. DOMAIN tables'[l] # {}
      BY <1>3, <1>5, <2>4
    <3> QED
      BY <1>1, <1>5, <1>7, <2>1, <2>2, <2>4, <3>1, <3>2 DEF Numbered
  <2> QED
    BY <2>3, <2>4
<1>10. Fresh'
  <2>1. SUFFICES ASSUME NEW u \in Sides, NEW n \in Nat, n >= nextId'[u], <<u, n>> \in made'
                 PROVE  FALSE
    BY DEF Fresh
  <2>2. n >= nextId[u]
    BY <1>1, <1>7, <2>1 DEF low
  <2>3. CASE bare /\ u = l
    BY <1>1, <1>2, <1>7, <2>1, <2>2, <2>3 DEF Accounted, Fresh, new
  <2>4. CASE ~(bare /\ u = l)
    BY <1>1, <1>2, <2>1, <2>2, <2>4 DEF Accounted, Fresh, new
  <2> QED
    BY <2>3, <2>4
<1>11. pkm \in made
  BY <1>3 DEF Accounted, Listed, pkm
<1>12. CASE bare
  <2>1. made' = made \cup {new}
    BY <1>2, <1>12
  <2>2. Listed'
    BY <1>1, <1>4, <1>6, <1>11, <1>12, <2>1 DEF Accounted, Listed
  <2>3. OneRow'
    BY <1>1, <1>3, <1>4, <1>6, <1>11, <1>12 DEF Accounted, OneRow, Listed, pkm
  <2>4. SomeRow'
    BY <1>1, <1>4, <1>6, <1>12, <2>1 DEF Accounted, SomeRow, pkm
  <2> QED
    BY <1>8, <1>9, <1>10, <2>2, <2>3, <2>4 DEF Accounted
<1>13. CASE ~bare
  <2>1. made' = made
    BY <1>2, <1>13
  <2>2. Listed'
    BY <1>1, <1>4, <1>5, <1>11, <1>13, <2>1 DEF Accounted, Listed
  <2>3. OneRow'
    BY <1>1, <1>3, <1>4, <1>5, <1>13 DEF Accounted, OneRow, pkm
  <2>4. SomeRow'
    BY <1>1, <1>4, <1>5, <1>13, <2>1 DEF Accounted, SomeRow, pkm
  <2> QED
    BY <1>8, <1>9, <1>10, <2>2, <2>3, <2>4 DEF Accounted
<1> QED
  BY <1>12, <1>13

(* A duel that is lost changes nothing but lists and offers; what is       *)
(* offered is owned, or the server is gone.                                *)
LEMMA OfferedIsOwned ==
    ASSUME Accounted, NEW l \in Sides, DuelLost(l), IsBattle(battle'), match' = match
    PROVE  Accounted'
<1>1. /\ UNCHANGED owners
      /\ \/ offer' = offer
         \/ \E ids : ids \subseteq DOMAIN tables[l] /\ offer' = [offer EXCEPT ![l] = ids]
  BY DEF DuelLost
<1>2. Typed'
  BY <1>1 DEF Accounted, Typed, owners
<1>3. Numbered'
  BY <1>1 DEF Accounted, Typed, Numbered, owners
<1> QED
  BY <1>1, <1>2, <1>3 DEF Accounted, Fresh, Listed, OneRow, SomeRow, owners

LEMMA NothingChanges ==
    ASSUME Accounted, UNCHANGED <<tables, nextId, made, offer>>, IsBattle(battle'), match' = match
    PROVE  Accounted'
BY DEF Accounted, Typed, Numbered, Fresh, Listed, OneRow, SomeRow

LEMMA StepAccounted == Accounted /\ [DuelNext]_<<vars, duel>> => Accounted'
<1> SUFFICES ASSUME Accounted, [DuelNext]_<<vars, duel>>
             PROVE  Accounted'
  OBVIOUS
<1>0. IsBattle(battle)
  BY DEF Accounted, Typed
<1>1. CASE Duel
  <2>1. IsBattle(battle') /\ match' = match
    BY <1>0, <1>1, NextKeepsBattle DEF Duel
  <2>2. CASE Over(battle') /\ match.mode = "DUEL"
    <3>1. BattleEnded(battle'.winner)
      BY <1>1, <2>2 DEF Duel
    <3>2. battle'.winner \in Sides
      BY <2>1, <2>2, WinnerIs
    <3>3. Other(battle'.winner) \in Sides
      BY <3>2, Sided
    <3>4. CASE DuelLost(Other(battle'.winner))
      BY <2>1, <3>3, <3>4, OfferedIsOwned
    <3>5. CASE DuelWon(battle'.winner)
      BY <2>1, <3>2, <3>5, GivenNew DEF DuelWon
    <3> QED
      BY <3>1, <3>4, <3>5 DEF BattleEnded
  <2>3. CASE ~(Over(battle') /\ match.mode = "DUEL")
    <3>1. UNCHANGED duel \/ Begin
      BY <1>1, <2>3 DEF Duel
    <3>2. UNCHANGED <<tables, nextId, made, offer>>
      BY <3>1 DEF Begin, duel, owners
    <3> QED
      BY <2>1, <3>2, NothingChanges
  <2> QED
    BY <2>2, <2>3
<1>2. ASSUME NEW l \in Sides, TransferPokemon(l)
      PROVE  Accounted'
  BY <1>2, GivenAway
<1>3. ASSUME NEW u \in Sides, Login(u)
      PROVE  Accounted'
  <2>1. UNCHANGED <<tables, nextId, made, match, battle>> /\ offer' = [offer EXCEPT ![u] = {}]
    BY <1>3 DEF Login, owners, vars
  <2>2. Typed'
    BY <2>1 DEF Accounted, Typed
  <2>3. Numbered'
    BY <2>1 DEF Accounted, Typed, Numbered
  <2> QED
    BY <2>1, <2>2, <2>3 DEF Accounted, Fresh, Listed, OneRow, SomeRow
<1>4. CASE BattleInvite \/ Refuse \/ RefreshList
  <2>1. UNCHANGED <<tables, nextId, made, offer, match, battle>>
    BY <1>4 DEF BattleInvite, Refuse, RefreshList, owners, vars
  <2> QED
    BY <1>0, <2>1, NothingChanges
<1>5. CASE UNCHANGED <<vars, duel>>
  BY <1>0, <1>5, NothingChanges DEF vars, duel, owners
<1> QED
  BY <1>1, <1>2, <1>3, <1>4, <1>5 DEF DuelNext

\* From the first login on, every Pokemon has its row, every row a number
\* below the next one of its table, and what is offered is owned.
THEOREM AlwaysAccounted == DuelSpec => []Accounted
<1> QED
  BY InitAccounted, StepAccounted, PTL DEF DuelSpec

-----------------------------------------------------------------------------
\* transferPokemon (ServerBackend.cpp:110) gives whoever gave his last
\* Pokemon a new one: nobody is ever without.
THEOREM NeverWithout == DuelSpec => []NobodyWithout
<1>1. Accounted => NobodyWithout
  BY DEF Accounted, Numbered, NobodyWithout
<1> QED
  BY <1>1, AlwaysAccounted, PTL

\* A Pokemon is in one row of one table, whatever the order of duels,
\* choices and logins (ServerBackend.cpp:110): none is lost, none doubled.
THEOREM AlwaysKept == DuelSpec => []PokemonKept
<1>1. ASSUME Accounted, NEW p \in made
      PROVE  Cardinality({r \in Sides \X (1 .. nextId["A"] + nextId["B"]) :
                        r[2] \in DOMAIN tables[r[1]] /\ tables[r[1]][r[2]] = p}) = 1
  <2> DEFINE found == {r \in Sides \X (1 .. nextId["A"] + nextId["B"]) :
                        r[2] \in DOMAIN tables[r[1]] /\ tables[r[1]][r[2]] = p}
  <2>1. PICK u \in Sides : \E i \in DOMAIN tables[u] : tables[u][i] = p
    BY <1>1 DEF Accounted, SomeRow
  <2>2. PICK i \in DOMAIN tables[u] : tables[u][i] = p
    BY <2>1
  <2>3. i \in 1 .. nextId["A"] + nextId["B"]
    <3>1. nextId["A"] \in Nat /\ nextId["B"] \in Nat
      BY <1>1 DEF Accounted, Typed, Sides
    <3>2. i \in 1 .. nextId[u] - 1 /\ u \in {"A", "B"}
      BY <1>1, <2>2 DEF Accounted, Numbered, Sides
    <3> QED
      BY <3>1, <3>2
  <2>4. <<u, i>> \in found
    BY <2>2, <2>3
  <2>5. ASSUME NEW r \in found
        PROVE  r = <<u, i>>
    <3>1. /\ r = <<r[1], r[2]>> /\ r[1] \in Sides
          /\ r[2] \in DOMAIN tables[r[1]] /\ tables[r[1]][r[2]] = p
      BY <2>5
    <3>2. r[1] = u /\ r[2] = i
      BY <1>1, <2>2, <3>1 DEF Accounted, OneRow
    <3> QED
      BY <3>1, <3>2
  <2>6. found = {<<u, i>>}
    BY <2>4, <2>5
  <2> QED
    BY <2>6, FS_Singleton
<1>2. Accounted => PokemonKept
  BY <1>1 DEF PokemonKept
<1> QED
  BY <1>2, AlwaysAccounted, PTL

-----------------------------------------------------------------------------
(* Who falls.  The list of a session holds ids of Pokemon its user owns,   *)
(* as long as he gave none away: a new Pokemon takes none of them away,    *)
(* and what a duel appends are ids of rows.  The same is true of what B's  *)
(* client shows.                                                           *)
UpToDate ==
    /\ list = [u \in Sides |-> list[u]] /\ \A u \in Sides : list[u] \in Seq(Nat)
    /\ \A u \in Sides \ given : \A i \in DOMAIN list[u] : list[u][i] \in DOMAIN tables[u]
    /\ "B" \notin given => shown \subseteq DOMAIN tables["B"]

LEMMA IdsAreRows ==
    ASSUME NEW table, NEW n \in Nat, DOMAIN table \subseteq 1 .. n
    PROVE  /\ Ids(table) \in Seq(Nat)
           /\ \A i \in DOMAIN Ids(table) : Ids(table)[i] \in DOMAIN table
<1> DEFINE S == DOMAIN table
<1>1. IsFiniteSet(S) /\ S \subseteq Nat
  <2>1. IsFiniteSet(1 .. n)
    BY FS_Interval
  <2> QED
    BY <2>1, FS_Subset
<1> HIDE DEF S
<1>2. Cardinality(S) \in Nat /\ ExistsBijection(1 .. Cardinality(S), S)
  BY <1>1, FS_CardinalityType
<1>3. PICK f \in [1 .. Cardinality(S) -> S] : IsInjective(f)
  BY <1>2 DEF ExistsBijection, Bijection, Injection
<1>4. SetToSeq(S) \in [1 .. Cardinality(S) -> S]
  BY <1>3 DEF SetToSeq
<1>5. SetToSeq(S) \in Seq(Nat) /\ \A i \in DOMAIN SetToSeq(S) : SetToSeq(S)[i] \in S
  <2> DEFINE q == SetToSeq(S)
             c == Cardinality(S)
  <2>1. q \in [1 .. c -> S] /\ c \in Nat /\ S \subseteq Nat
    BY <1>1, <1>2, <1>4
  <2> HIDE DEF q, c
  <2>2. DOMAIN q = 1 .. c /\ (\A i \in 1 .. c : q[i] \in S) /\ q \in [1 .. c -> Nat]
    BY <2>1
  <2>3. q \in Seq(Nat)
    BY <2>1, <2>2
  <2> QED
    BY <2>2, <2>3 DEF q
<1> QED
  BY <1>5 DEF Ids, S

LEMMA UpdatedIsOwned ==
    ASSUME Accounted, UpToDate, NEW u \in Sides
    PROVE  /\ UpdateUserInfo(u) \in Seq(Nat) /\ Ids(tables[u]) \in Seq(Nat)
           /\ \A i \in DOMAIN Ids(tables[u]) : Ids(tables[u])[i] \in DOMAIN tables[u]
           /\ u \notin given =>
                \A i \in DOMAIN UpdateUserInfo(u) : UpdateUserInfo(u)[i] \in DOMAIN tables[u]
<1>1. DOMAIN tables[u] \subseteq 1 .. nextId[u] - 1 /\ nextId[u] - 1 \in Nat
  BY DEF Accounted, Typed, Numbered
<1> DEFINE l == list[u]
           r == Ids(tables[u])
           T == DOMAIN tables[u]
<1>2. r \in Seq(Nat) /\ \A i \in DOMAIN r : r[i] \in T
  BY <1>1, IdsAreRows
<1>3. l \in Seq(Nat) /\ (u \notin given => \A i \in DOMAIN l : l[i] \in T)
  BY DEF UpToDate
<1> HIDE DEF l, r, T
<1>4. /\ l \o r \in Seq(Nat) /\ DOMAIN (l \o r) = 1 .. Len(l) + Len(r)
      /\ \A i \in 1 .. Len(l) + Len(r) :
            (l \o r)[i] = IF i <= Len(l) THEN l[i] ELSE r[i - Len(l)]
  BY <1>2, <1>3
<1>5. ASSUME NEW i \in DOMAIN (l \o r), u \notin given PROVE (l \o r)[i] \in T
  <2>1. i \in 1 .. Len(l) + Len(r) /\ Len(l) \in Nat /\ Len(r) \in Nat
        /\ DOMAIN l = 1 .. Len(l) /\ DOMAIN r = 1 .. Len(r)
    BY <1>2, <1>3, <1>4
  <2>2. CASE i <= Len(l)
    BY <1>3, <1>4, <1>5, <2>1, <2>2
  <2>3. CASE ~(i <= Len(l))
    <3>1. i - Len(l) \in DOMAIN r
      BY <2>1, <2>3
    <3> QED
      BY <1>2, <1>4, <2>1, <2>3, <3>1
  <2> QED
    BY <2>2, <2>3
<1>6. UpdateUserInfo(u) = l \o r
  BY DEF UpdateUserInfo, l, r
<1> QED
  BY <1>2, <1>4, <1>5, <1>6 DEF r, T

Falls == FallsOnlyByStaleId /\ UpToDate

LEMMA InitFalls == DuelInit => Falls
<1> SUFFICES ASSUME DuelInit PROVE Falls
  OBVIOUS
<1>1. up = TRUE /\ given = {} /\ shown = DOMAIN tables["B"]
  BY DEF DuelInit
<1>2. ASSUME NEW u \in Sides
      PROVE  /\ list[u] \in Seq(Nat)
             /\ \A i \in DOMAIN list[u] : list[u][i] \in DOMAIN tables[u]
  <2>1. list[u] = IF u \in match.users THEN Ids(tables[u]) ELSE <<>>
    BY DEF DuelInit
  <2>2. DOMAIN tables[u] \subseteq 1 .. nextId[u] - 1 /\ nextId[u] - 1 \in Nat
    BY InitAccounted DEF Accounted, Typed, Numbered
  <2>3. /\ Ids(tables[u]) \in Seq(Nat)
        /\ \A i \in DOMAIN Ids(tables[u]) : Ids(tables[u])[i] \in DOMAIN tables[u]
    BY <2>2, IdsAreRows
  <2>4. <<>> \in Seq(Nat) /\ \A i \in DOMAIN <<>> : FALSE
    OBVIOUS
  <2> QED
    BY <2>1, <2>3, <2>4
<1>3. list = [u \in Sides |-> list[u]]
  BY DEF DuelInit
<1> QED
  BY <1>1, <1>2, <1>3 DEF Falls, FallsOnlyByStaleId, UpToDate

LEMMA StepFalls == Accounted /\ Falls /\ [DuelNext]_<<vars, duel>> => Falls'
<1> SUFFICES ASSUME Accounted, Falls, [DuelNext]_<<vars, duel>>
             PROVE  Falls'
  OBVIOUS
<1>0. UpToDate /\ FallsOnlyByStaleId
  BY DEF Falls
<1>1. CASE UNCHANGED <<vars, duel>>
  BY <1>0, <1>1 DEF Falls, FallsOnlyByStaleId, UpToDate, vars, duel, owners
<1>2. ASSUME NEW l \in Sides, TransferPokemon(l)
      PROVE  Falls'
  <2>1. up' = up /\ up /\ list' = list /\ given' = given \cup {l} /\ shown' = shown
    BY <1>2 DEF TransferPokemon
  <2>2. ASSUME NEW u \in Sides, u \notin given'
        PROVE  DOMAIN tables[u] \subseteq DOMAIN tables'[u]
    <3>1. PICK id \in offer[l] : tables' = Transfer(l, Other(l), id)
      BY <1>2 DEF TransferPokemon
    <3>2. u = Other(l) /\ Other(l) # l /\ Other(l) \in Sides
      BY <2>1, <2>2 DEF Sides, Other
    <3>3. tables'[u] = Insert(tables[u], nextId[u], tables[l][id])
      BY <3>1, <3>2 DEF Transfer, Accounted, Typed
    <3> QED
      BY <3>3 DEF Insert
  <2>3. ASSUME NEW u \in Sides, u \notin given', NEW i \in DOMAIN list[u]
        PROVE  list[u][i] \in DOMAIN tables'[u]
    BY <1>0, <2>1, <2>2, <2>3 DEF UpToDate
  <2>4. "B" \notin given' => shown \subseteq DOMAIN tables'["B"]
    BY <1>0, <2>1, <2>2 DEF UpToDate, Sides
  <2>5. UpToDate'
    BY <1>0, <2>1, <2>3, <2>4 DEF UpToDate
  <2> QED
    BY <2>1, <2>5 DEF Falls, FallsOnlyByStaleId
<1>3. ASSUME NEW u \in Sides, Login(u)
      PROVE  Falls'
  <2>1. /\ up' = up /\ up /\ tables' = tables /\ given' = given \ {u}
        /\ list' = [list EXCEPT ![u] = Ids(tables[u])]
        /\ shown' = IF u = "B" THEN DOMAIN tables["B"] ELSE shown
    BY <1>3 DEF Login, owners
  <2>2. /\ Ids(tables[u]) \in Seq(Nat)
        /\ \A i \in DOMAIN Ids(tables[u]) : Ids(tables[u])[i] \in DOMAIN tables[u]
    BY <1>0, UpdatedIsOwned
  <2>3. /\ list'[u] = Ids(tables[u]) /\ \A v \in Sides : v # u => list'[v] = list[v]
        /\ list' = [v \in Sides |-> list'[v]]
    BY <1>0, <2>1 DEF UpToDate
  <2>4. UpToDate'
    BY <1>0, <2>1, <2>2, <2>3 DEF UpToDate
  <2> QED
    BY <2>1, <2>4 DEF Falls, FallsOnlyByStaleId
<1>4. CASE Duel
  <2>0. up /\ IsBattle(battle') /\ match' = match
    BY <1>4, NextKeepsBattle DEF Duel, Accounted, Typed
  <2>1. CASE ~(Over(battle') /\ match.mode = "DUEL")
    <3>1. UNCHANGED duel \/ (Begin /\ ~Over(battle'))
      BY <1>4, <2>1 DEF Duel
    <3>2. CASE UNCHANGED duel
      BY <1>0, <2>0, <3>2 DEF duel, owners, Falls, FallsOnlyByStaleId, UpToDate
    <3>3. CASE Begin /\ ~Over(battle')
      <4>1. tables' = tables /\ list' = list /\ given' = given /\ shown' = shown
        BY <3>3 DEF Begin, owners
      <4>2. UpToDate'
        BY <1>0, <4>1 DEF UpToDate
      <4>3. up' \/ "B" \in given' \/ invitation' = "forgotten"
        <5>1. CASE up' = up
          BY <2>0, <5>1
        <5>2. CASE /\ 1 \in shown
                   /\ 1 \notin DOMAIN tables["B"] \/ invitation = "forgotten"
                   /\ invitation' = invitation
          BY <1>0, <4>1, <5>2 DEF UpToDate
        <5> QED
          BY <3>3, <5>1, <5>2 DEF Begin, Answered
      <4> QED
        BY <3>3, <4>2, <4>3 DEF Falls, FallsOnlyByStaleId
    <3> QED
      BY <3>1, <3>2, <3>3
  <2>2. CASE Over(battle') /\ match.mode = "DUEL"
    <3> DEFINE w == battle'.winner
               l == Other(w)
    <3>1. w \in Sides /\ l \in Sides /\ BattleEnded(w)
      BY <1>4, <2>0, <2>2, WinnerIs, Sided DEF Duel
    <3>2. CASE DuelWon(w)
      <4> HIDE DEF w
      <4>1. /\ up' = up /\ given' = given /\ shown' = shown
            /\ list' = [list EXCEPT ![w] = UpdateUserInfo(w)]
            /\ tables' = [tables EXCEPT ![w] = Insert(@, nextId[w], <<w, nextId[w]>>)]
        BY <3>2 DEF DuelWon
      <4>2. \A u \in Sides : DOMAIN tables[u] \subseteq DOMAIN tables'[u]
        BY <3>1, <4>1 DEF Insert, Accounted, Typed
      <4>3. /\ list'[w] = UpdateUserInfo(w)
            /\ \A v \in Sides : v # w => list'[v] = list[v]
            /\ list' = [v \in Sides |-> list'[v]]
        BY <1>0, <3>1, <4>1 DEF UpToDate
      <4>4. "B" \notin given' => shown' \subseteq DOMAIN tables'["B"]
        BY <1>0, <4>1, <4>2 DEF UpToDate, Sides
      <4>5. UpToDate'
        BY <1>0, <3>1, <4>1, <4>2, <4>3, <4>4, UpdatedIsOwned DEF UpToDate
      <4> QED
        BY <2>0, <4>1, <4>5 DEF Falls, FallsOnlyByStaleId
    <3>3. CASE l \in match.users /\ DuelLost(l)
      <4> HIDE DEF w, l
      <4>1. /\ given' = given /\ tables' = tables /\ shown' = shown
            /\ list' = [u \in Sides |-> IF u \in match.users THEN UpdateUserInfo(u) ELSE <<>>]
        BY <3>3 DEF DuelLost, owners
      <4>2. ASSUME NEW u \in Sides
            PROVE  /\ list'[u] \in Seq(Nat)
                   /\ u \notin given => \A i \in DOMAIN list'[u] : list'[u][i] \in DOMAIN tables[u]
        <5>1. CASE u \in match.users
          BY <1>0, <4>1, <5>1, UpdatedIsOwned
        <5>2. CASE u \notin match.users
          <6>1. list'[u] = <<>>
            BY <4>1, <5>2
          <6>2. <<>> \in Seq(Nat) /\ \A i \in DOMAIN <<>> : FALSE
            OBVIOUS
          <6> QED
            BY <6>1, <6>2
        <5> QED
          BY <5>1, <5>2
      <4>3. UpToDate'
        BY <1>0, <4>1, <4>2 DEF UpToDate
      <4>4. ASSUME l \notin given PROVE up'
        <5>1. PICK ids \in Offered(list'[l]) : ids \subseteq DOMAIN tables[l] => up' = up
          BY <3>3 DEF DuelLost
        <5>2. PICK p \in SUBSET DOMAIN list'[l] : ids = {list'[l][i] : i \in p}
          BY <5>1 DEF Offered
        <5>3. ids \subseteq DOMAIN tables[l]
          BY <3>1, <4>2, <4>4, <5>2
        <5> QED
          BY <2>0, <5>1, <5>3
      <4>5. up' \/ l \in given'
        BY <4>1, <4>4
      <4> QED
        BY <2>2, <4>3, <4>5 DEF Falls, FallsOnlyByStaleId, l, w
    <3> QED
      BY <3>1, <3>2, <3>3, Sided DEF BattleEnded, Sides, Other
  <2> QED
    BY <2>1, <2>2
<1>5. CASE BattleInvite \/ Refuse \/ RefreshList
  <2>1. /\ up /\ up' = up /\ tables' = tables /\ list' = list /\ given' = given
        /\ shown' = shown \/ shown' = DOMAIN tables["B"]
    BY <1>5 DEF BattleInvite, Refuse, RefreshList, owners
  <2>2. UpToDate'
    BY <1>0, <2>1 DEF UpToDate
  <2> QED
    BY <2>1, <2>2 DEF Falls, FallsOnlyByStaleId
<1> QED
  BY <1>1, <1>2, <1>3, <1>4, <1>5 DEF DuelNext

\* Whatever happens in whatever order, the server follows a null pointer
\* only for an id kept too long: at the defeat of somebody who gave a
\* Pokemon away since he logged in (User.cpp:58, PokemonFactory.h:99), at
\* the answer of somebody who did (ServerBackend.cpp:878), or when whoever
\* invited has logged in again in between (ServerBackend.cpp:877).
THEOREM OnlyStaleIdsFall == DuelSpec => []FallsOnlyByStaleId
<1>1. Accounted /\ Falls /\ [DuelNext]_<<vars, duel>> => (Accounted /\ Falls)'
  BY StepAccounted, StepFalls
<1>2. Accounted /\ Falls => FallsOnlyByStaleId
  BY DEF Falls
<1> QED
  BY InitAccounted, InitFalls, <1>1, <1>2, PTL DEF DuelSpec

-----------------------------------------------------------------------------
\* However duels and choices come between them, the battles are those of
\* BattleField: what BattleField_proofs shows of its Spec holds of duels.
THEOREM DuelsAreBattles == DuelSpec => Spec
<1>1. DuelInit => Init
  BY DEF DuelInit
<1>2. [DuelNext]_<<vars, duel>> => [Next]_vars
  <2>1. Duel => Next
    BY DEF Duel
  <2>2. ASSUME NEW u \in Sides, TransferPokemon(u) PROVE vars' = vars
    BY <2>2 DEF TransferPokemon
  <2>3. ASSUME NEW u \in Sides, Login(u) PROVE vars' = vars
    BY <2>3 DEF Login
  <2>4. BattleInvite \/ Refuse \/ RefreshList => vars' = vars
    BY DEF BattleInvite, Refuse, RefreshList
  <2>5. <<vars, duel>>' = <<vars, duel>> => vars' = vars
    OBVIOUS
  <2> QED
    BY <2>1, <2>2, <2>3, <2>4, <2>5 DEF DuelNext
<1> QED
  BY <1>1, <1>2, PTL DEF DuelSpec, Spec
===============================================================================
