---------------------------- MODULE RouteSearch ----------------------------
(***************************************************************************)
(* runWithAlgorithmDij (AlgorithmHelper.cpp) as functions: the search for  *)
(* a route, the route found, and the tasks it gives the traveller.         *)
(*                                                                         *)
(* Times are minutes from the midnight before the query.  A timetable      *)
(* gives each city its departures in the order of the file; a departure    *)
(* says at which minute of the day it leaves, how long it takes, by which  *)
(* vehicle and where to.                                                   *)
(***************************************************************************)
EXTENDS Integers, Sequences, FiniteSets, SequencesExt
CONSTANTS
    Cities,     \* number of cities; their ids are 1 .. Cities
    Day,        \* minutes of a day (1440 in the code)
    Hour,       \* minutes of an hour (60)
    Factor      \* risk of each city in tenths (2, 5 or 9)

ASSUME TravelAssumption ==
    /\ Cities \in Nat \ {0} /\ Day \in Nat \ {0} /\ Hour \in Nat \ {0}
    /\ Factor \in [1 .. Cities -> Nat]

City == 1 .. Cities
INF == 1061109567                       \* 0x3F3F3F3F
RISK == <<9, 5, 2>>                     \* airplane, train, car
None == 0                               \* prev[c] = -1
Departure == [type : 1 .. 3, dest : City, start : 0 .. Day - 1, cost : Nat \ {0}]
Behavior == {"Waiting", "Traveling", "Arrive"}

(* Mutant: a departure that is gone today is not looked for tomorrow.      *)
RealStartTimeToday(route, at) == route.start

(* The first departure of a route at or after a minute.                    *)
RealStartTime(route, at) ==
    IF route.start >= at THEN route.start ELSE at + ((route.start - at) % Day)

(* Risks are truncated to integers.  A factor of 0.9 is a float a little   *)
(* below 0.9, so that a sum that should be whole falls short of it.  From  *)
(* the first city a ride counts whole hours only, later any minute counts. *)
Shortfall(city, wait) == IF Factor[city] = 9 /\ wait > 0 THEN 1 ELSE 0
FirstRisk(city, wait, route) ==
    (wait * Factor[city] - Shortfall(city, wait)
        + 10 * Hour * (route.cost \div Hour) * RISK[route.type]) \div (10 * Hour)
LaterRisk(city, wait, route) ==
    (wait * Factor[city] - Shortfall(city, wait)
        + 10 * route.cost * RISK[route.type]) \div (10 * Hour)

-----------------------------------------------------------------------------
(* The state of the search: cities taken, the risk of each city's last     *)
(* ride, the city and the departure it is reached from, and when.          *)
Blank(from) ==
    [visit |-> {from}, risks |-> [c \in City |-> IF c = from THEN 0 ELSE INF],
     prev |-> [c \in City |-> None], via |-> [c \in City |-> None],
     arrive |-> [c \in City |-> 0], done |-> FALSE]

(* Mutant: the limit is tested for the last ride alone.                    *)
OfferRideOnly(s, table, city, i, at, startT, limit, risk) ==
    LET route == table[city][i]
        wait == RealStartTime(route, at) - at
    IN  IF wait + route.cost <= limit /\ risk < s.risks[route.dest]
        THEN [s EXCEPT !.risks[route.dest] = risk, !.prev[route.dest] = city,
                       !.via[route.dest] = i,
                       !.arrive[route.dest] = at + wait + route.cost]
        ELSE s

(* Departure i of a city, for somebody who is there at a minute.           *)
Offer(s, table, city, i, at, startT, limit, risk) ==
    LET route == table[city][i]
        wait == RealStartTime(route, at) - at
    IN  IF wait + at + route.cost - startT <= limit /\ risk < s.risks[route.dest]
        THEN [s EXCEPT !.risks[route.dest] = risk, !.prev[route.dest] = city,
                       !.via[route.dest] = i,
                       !.arrive[route.dest] = at + wait + route.cost]
        ELSE s

FromStart(table, from, startT, limit) ==
    LET try(s, i) ==
            LET route == table[from][i]
                wait == RealStartTime(route, startT) - startT
            IN  Offer(s, table, from, i, startT, startT, limit, FirstRisk(from, wait, route))
    IN  FoldLeftDomain(try, Blank(from), table[from])

FromCity(s, table, city, startT, limit) ==
    LET at == s.arrive[city]
        try(t, i) ==
            LET route == table[city][i]
                wait == RealStartTime(route, at) - at
            IN  IF route.dest \in t.visit THEN t
                ELSE Offer(t, table, city, i, at, startT, limit, LaterRisk(city, wait, route))
    IN  FoldLeftDomain(try, s, table[city])

(* Mutant: the search ends before the destination is marked as taken.      *)
ExpandUnmarked(s, table, dest, startT, limit) ==
    LET open == {c \in City \ s.visit : s.risks[c] < INF}
        best == {c \in open : \A d \in open : s.risks[c] <= s.risks[d]}
        cur == CHOOSE c \in best : \A d \in best : c <= d
        taken == [s EXCEPT !.visit = @ \cup {cur}]
    IN  CASE s.done \/ open = {} \/ cur = dest -> [s EXCEPT !.done = TRUE]
          [] OTHER -> FromCity(taken, table, cur, startT, limit)

(* One round: the city of least risk is taken, the first of several.       *)
Expand(s, table, dest, startT, limit) ==
    LET open == {c \in City \ s.visit : s.risks[c] < INF}
        best == {c \in open : \A d \in open : s.risks[c] <= s.risks[d]}
        cur == CHOOSE c \in best : \A d \in best : c <= d
        taken == [s EXCEPT !.visit = @ \cup {cur}]
    IN  CASE s.done \/ open = {} -> [s EXCEPT !.done = TRUE]
          [] ~s.done /\ open # {} /\ cur = dest -> [taken EXCEPT !.done = TRUE]
          [] OTHER -> FromCity(taken, table, cur, startT, limit)

Search(table, from, dest, startT, limit) ==
    LET round[n \in 0 .. Cities] ==
            IF n = 0 THEN FromStart(table, from, startT, limit)
                     ELSE Expand(round[n - 1], table, dest, startT, limit)
    IN  round[Cities]

(* The rides of the route found, or no ride if there is none.              *)
Rides(s, table, dest) ==
    LET pass[n \in 0 .. Cities] ==
            IF n = 0 THEN <<dest>>
            ELSE LET p == pass[n - 1]
                 IN  IF s.prev[Head(p)] = None THEN p ELSE <<s.prev[Head(p)]>> \o p
        cities == pass[Cities]
        ride(i) == LET c == cities[i]  d == cities[i + 1]
                   IN  [from |-> c, dest |-> d,
                        depart |-> s.arrive[d] - table[c][s.via[d]].cost,
                        arrive |-> s.arrive[d]]
    IN  IF dest \notin s.visit THEN <<>>
        ELSE [i \in 1 .. Len(cities) - 1 |-> ride(i)]

(* The tasks of a traveller who sets off: wait, ride, arrive.              *)
Task(at, till, kind, from, dest) ==
    [start |-> at, end |-> till, kind |-> kind, from |-> from, dest |-> dest]
(* Mutant: each wait begins when the journey begins.                       *)
TasksOfOneStart(rides, startT) ==
    FlattenSeq([i \in 1 .. Len(rides) |->
        LET r == rides[i]
        IN  <<Task(startT, r.depart, "Waiting", r.from, r.from),
              Task(r.depart, r.arrive, "Traveling", r.from, r.dest),
              Task(r.arrive, r.arrive, "Arrive", r.dest, r.dest)>>])

TasksOf(rides, startT) ==
    LET there(i) == IF i = 1 THEN startT ELSE rides[i - 1].arrive
        three(i, r) == <<Task(there(i), r.depart, "Waiting", r.from, r.from),
                         Task(r.depart, r.arrive, "Traveling", r.from, r.dest),
                         Task(r.arrive, r.arrive, "Arrive", r.dest, r.dest)>>
        ride(k) == (k + 2) \div 3
    IN  [k \in 1 .. 3 * Len(rides) |-> three(ride(k), rides[ride(k)])[((k + 2) % 3) + 1]]

-----------------------------------------------------------------------------
(* Reference: the cities that can be reached by any departures.            *)
Reachable(table, from) ==
    LET r[n \in 0 .. Cities] ==
            IF n = 0 THEN {from}
            ELSE r[n - 1] \cup {d \in City : \E c \in r[n - 1] :
                                    \E i \in DOMAIN table[c] : table[c][i].dest = d}
    IN  r[Cities]
=============================================================================
