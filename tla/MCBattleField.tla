--------------------------- MODULE MCBattleField ---------------------------
(***************************************************************************)
(* Small instances of Duels and its battles: Pokemon of the data base      *)
(* (pokemon.sql), each trying one or two of its four skills, some as they  *)
(* are given to a new user and some grown.                                 *)
(***************************************************************************)
EXTENDS Duels

\* the outcome on x86
MCBeyondInt == -2147483647 - 1

Combo(atk, def, hp, spd) == "ATK" :> atk @@ "DEF" :> def @@ "HP" :> hp @@ "SPD" :> spd
Young(type, attr, inc, skills) ==
    [type |-> type, attr |-> attr, inc |-> inc, skills |-> skills,
     row |-> [level |-> 1, exp |-> 0, prop |-> Combo(6, 6, 12, 6)]]
\* without one of the points that luck may add
Grown(pkm, level, exp) ==
    [pkm EXCEPT !.row = [level |-> level, exp |-> exp,
                         prop |-> [q \in DOMAIN pkm.inc |->
                                    pkm.row.prop[q] + (level - 1) * pkm.inc[q]]]]

Feraligatr == Young(HIGH_ATTACK, WATER, Combo(3, 1, 4, 2), {"Liquidation", "Outrage"})
Quagsire == Young(HIGH_HITPOINT, WATER, Combo(2, 2, 5, 3), {"AppleAcid", "MaxSteelspike"})
Sceptile == Young(HIGH_DEFENSE, GRASS, Combo(1, 3, 4, 2), {"QuickGuard"})
Torracat(skills) == Young(HIGH_ATTACK, FIRE, Combo(3, 1, 3, 3), skills)
Rillaboom == Young(HIGH_HITPOINT, GRASS, Combo(3, 2, 5, 2), {"GrassyTerrain", "BulletSeed"})
Cinderace == Young(HIGH_SPEED, FIRE, Combo(2, 2, 3, 4), {"QuickAttack", "FireBlast"})

Fight(a, b, users) ==
    [A |-> a, B |-> b, users |-> users, mode |-> "EXP", owned |-> [s \in Sides |-> 1]]
\* A owns two Pokemon, B one
Duelling(fight) == [fight EXCEPT !.mode = "DUEL", !.owned["A"] = 2]
Burning(skills, exp) == Grown(Torracat(skills), 14, exp)
MCMatches == {
    Fight(Feraligatr, Quagsire, Sides),
    Fight(Cinderace, Sceptile, {"A"}),
    Fight(Grown(Torracat({"SwordsDance", "FlareBlitz"}), 3, 2), Rillaboom, Sides),
    Duelling(Fight(Burning({"FlareBlitz"}, 60), Burning({"FlareBlitz", "SwordsDance"}, 82), Sides)),
    Duelling(Fight(Burning({"FlareBlitz"}, 82), Burning({"FlareBlitz", "SwordsDance"}, 60), {"A"}))}
=============================================================================
