------------------------ MODULE TravelEmulator_proofs ------------------------
(***************************************************************************)
(* An undisturbed traveller misses no task and his clock keeps to the time *)
(* shown, he never leaves his route, every route found can be taken and    *)
(* keeps the limit, and without a limit one is found if there is any: for  *)
(* any length of a day, any step of the clocks, any timetable and journey. *)
(***************************************************************************)
EXTENDS TravelEmulator, Induction, FiniteSetTheorems, TLAPS

(* No multiple of T but 0 is smaller than T.                               *)
LEMMA Multiple ==
    ASSUME NEW T \in Nat \ {0}, NEW k \in Int, 0 - T < k * T, k * T < T
    PROVE  k = 0
<1>1. k >= 1 => k * T >= T
  OBVIOUS
<1>2. k <= -1 => k * T <= 0 - T
  OBVIOUS
<1> QED
  BY <1>1, <1>2

(* Whole days do not count.                                                *)
LEMMA WholeDays ==
    ASSUME NEW T \in Nat \ {0}, NEW a \in Int, NEW k \in Int
    PROVE  (a + k * T) % T = a % T /\ a % T \in 0 .. T - 1
<1> DEFINE b == a + k * T
           l == (a \div T) + k - (b \div T)
<1>1. /\ a % T \in 0 .. T - 1 /\ a \div T \in Int /\ a = T * (a \div T) + (a % T)
  OBVIOUS
<1>2. b \in Int
  OBVIOUS
<1> HIDE DEF b
<1>3. /\ b % T \in 0 .. T - 1 /\ b \div T \in Int /\ b = T * (b \div T) + (b % T)
  BY <1>2
<1>4. l \in Int /\ l * T = (b % T) - (a % T)
  BY <1>1, <1>3 DEF b
<1> HIDE DEF l
<1>5. l = 0
  <2>1. b % T \in 0 .. T - 1 /\ a % T \in 0 .. T - 1
    BY <1>1, <1>3
  <2>2. 0 - T < (b % T) - (a % T) /\ (b % T) - (a % T) < T
    BY <2>1
  <2> QED
    BY <1>4, <2>2, Multiple
<1> QED
  BY <1>1, <1>3, <1>4, <1>5 DEF b

-----------------------------------------------------------------------------
(* What the search knows.  A city that a ride was found to hangs on a city *)
(* that is taken, by a departure of the timetable that leaves when one can *)
(* be there, or on a later day at the same minute, and arrives within the  *)
(* limit.                                                                  *)
SearchState == [visit : SUBSET City, risks : [City -> Nat], prev : [City -> 0 .. Cities],
                via : [City -> Nat], arrive : [City -> Nat], done : BOOLEAN]
At(s, from, startT, c) == IF c = from THEN startT ELSE s.arrive[c]
Departs(s, map, c, p, i) ==
    /\ i \in 1 .. Len(map[p])
    /\ map[p][i].dest = c
    /\ (s.arrive[c] - map[p][i].cost) % Day = map[p][i].start
Hangs(s, map, from, startT, limit, c) ==
    /\ c # from /\ s.prev[c] \in s.visit
    /\ Departs(s, map, c, s.prev[c], s.via[c])
    /\ At(s, from, startT, s.prev[c]) <= s.arrive[c] - map[s.prev[c]][s.via[c]].cost
    /\ startT < s.arrive[c] /\ s.arrive[c] <= startT + limit
Knows(s, map, from, startT, limit) ==
    /\ s \in SearchState
    /\ from \in s.visit /\ s.risks[from] = 0 /\ s.prev[from] = None
    /\ \A c \in City : s.prev[c] # None => Hangs(s, map, from, startT, limit, c)
    /\ \A c \in City \ {from} : c \in s.visit \/ s.risks[c] < INF => s.prev[c] # None
Timetable == [City -> Seq(Departure)]

LEMMA DepartureIs ==
    ASSUME NEW map \in Timetable, NEW c \in City, NEW i \in 1 .. Len(map[c])
    PROVE  /\ map[c][i] \in Departure /\ map[c][i].dest \in City
           /\ map[c][i].start \in 0 .. Day - 1 /\ map[c][i].start \in Nat
           /\ map[c][i].cost \in Nat \ {0} /\ map[c][i].type \in 1 .. 3
<1>1. map[c] \in Seq(Departure)
  BY DEF Timetable
<1>2. map[c][i] \in Departure
  BY <1>1, ElementOfSeq
<1> QED
  BY <1>2, TravelAssumption DEF Departure

(* A departure leaves when it is waited for, at its minute of the day.     *)
LEMMA RealStart ==
    ASSUME NEW r \in Departure, NEW at \in Nat
    PROVE  /\ RealStartTime(r, at) \in Nat /\ at <= RealStartTime(r, at)
           /\ RealStartTime(r, at) % Day = r.start
<1>1. r.start \in 0 .. Day - 1 /\ Day \in Nat \ {0}
  BY TravelAssumption DEF Departure
<1>2. CASE r.start >= at
  BY <1>1, <1>2 DEF RealStartTime
<1>3. CASE ~(r.start >= at)
  <2> DEFINE x == r.start - at
             q == x \div Day
             k == 0 - q
  <2>1. /\ x \in Int /\ q \in Int /\ k \in Int
        /\ x % Day \in 0 .. Day - 1 /\ x = Day * q + (x % Day)
    BY <1>1
  <2>2. at + (x % Day) = r.start + k * Day
    <3>1. x = r.start - at /\ k = 0 - q
      OBVIOUS
    <3> HIDE DEF x, q, k
    <3>2. k * Day = 0 - Day * q /\ Day * q \in Int
      BY <1>1, <2>1, <3>1
    <3> DEFINE m == x % Day
               z == Day * q
    <3>3. m \in Int /\ z \in Int /\ x = z + m /\ k * Day = 0 - z /\ r.start \in Int
      BY <1>1, <2>1, <3>2
    <3> HIDE DEF m, z
    <3>4. at + m = r.start + k * Day
      BY <3>1, <3>3
    <3> QED
      BY <3>4 DEF m
  <2>3. RealStartTime(r, at) = at + (x % Day)
    BY <1>3 DEF RealStartTime
  <2> HIDE DEF x, k
  <2>4. (r.start + k * Day) % Day = r.start % Day
    <3>1. r.start \in Int /\ Day \in Nat \ {0}
      BY <1>1
    <3> QED
      BY <2>1, <3>1, WholeDays, Zenon
  <2>5. r.start % Day = r.start
    BY <1>1
  <2> QED
    <3>1. at <= at + (x % Day) /\ at + (x % Day) \in Nat
      BY <1>1, <2>1
    <3> QED
      BY <2>2, <2>3, <2>4, <2>5, <3>1
<1> QED
  BY <1>2, <1>3

LEMMA RisksAre ==
    ASSUME NEW c \in City, NEW wait \in Nat, NEW r \in Departure
    PROVE  FirstRisk(c, wait, r) \in Nat /\ LaterRisk(c, wait, r) \in Nat
<1>1. /\ Factor[c] \in Nat /\ Hour \in Nat \ {0} /\ r.cost \in Nat /\ r.type \in 1 .. 3
      /\ r.cost \div Hour \in Nat
  <2>1. Factor[c] \in Nat /\ Hour \in Nat \ {0}
    BY TravelAssumption DEF City
  <2>2. r.cost \in Nat /\ r.type \in 1 .. 3
    BY DEF Departure
  <2> QED
    BY <2>1, <2>2
<1>2. RISK[r.type] \in Nat
  BY <1>1 DEF RISK
<1>3. wait * Factor[c] - Shortfall(c, wait) \in Nat
  <2>1. CASE Factor[c] = 9 /\ wait > 0
    BY <2>1 DEF Shortfall
  <2>2. CASE ~(Factor[c] = 9 /\ wait > 0)
    BY <1>1, <2>2 DEF Shortfall
  <2> QED
    BY <2>1, <2>2
<1>4. 10 * Hour \in Nat \ {0}
  BY <1>1
<1>5. ASSUME NEW a \in Nat, NEW b \in Nat PROVE (a + b) \div (10 * Hour) \in Nat
  BY <1>4
<1>6. 10 * Hour * (r.cost \div Hour) * RISK[r.type] \in Nat /\ 10 * r.cost * RISK[r.type] \in Nat
  BY <1>1, <1>2
<1>7. FirstRisk(c, wait, r) \in Nat
  BY <1>3, <1>5, <1>6 DEF FirstRisk
<1>8. LaterRisk(c, wait, r) \in Nat
  BY <1>3, <1>5, <1>6 DEF LaterRisk
<1> QED
  BY <1>7, <1>8

(* What the search knows stays so when a departure from a city that is     *)
(* taken is offered to one that is not.                                    *)
LEMMA OfferKnows ==
    ASSUME NEW map \in Timetable, NEW from \in City, NEW startT \in Nat, NEW limit \in Nat,
           NEW s, Knows(s, map, from, startT, limit),
           NEW city \in s.visit, NEW i \in 1 .. Len(map[city]), NEW risk \in Nat,
           city # from => s.prev[city] # None,
           map[city][i].dest \in s.visit => map[city][i].dest = from
    PROVE  LET t == Offer(s, map, city, i, At(s, from, startT, city), startT, limit, risk)
           IN  /\ Knows(t, map, from, startT, limit)
               /\ t.visit = s.visit /\ \A c \in s.visit : t.arrive[c] = s.arrive[c]
<1> DEFINE at == At(s, from, startT, city)
           route == map[city][i]
           d == route.dest
           wait == RealStartTime(route, at) - at
           t == [s EXCEPT !.risks[d] = risk, !.prev[d] = city, !.via[d] = i,
                          !.arrive[d] = at + wait + route.cost]
           o == Offer(s, map, city, i, at, startT, limit, risk)
<1>1. /\ s \in SearchState /\ from \in s.visit /\ s.risks[from] = 0 /\ s.prev[from] = None
      /\ s.visit \in SUBSET City /\ city \in City
      /\ \A c \in City : s.prev[c] # None => Hangs(s, map, from, startT, limit, c)
      /\ \A c \in City \ {from} : c \in s.visit \/ s.risks[c] < INF => s.prev[c] # None
  BY DEF Knows, SearchState
<1>2. /\ route \in Departure /\ d \in City /\ route.cost \in Nat \ {0}
      /\ route.start \in 0 .. Day - 1
  BY <1>1, DepartureIs
<1>3. at \in Nat /\ startT <= at
  <2>1. CASE city = from
    BY <2>1 DEF At
  <2>2. CASE city # from
    <3>1. startT < s.arrive[city] /\ s.arrive[city] \in Nat
      BY <1>1, <2>2 DEF Hangs, SearchState
    <3> QED
      BY <2>2, <3>1 DEF At
  <2> QED
    BY <2>1, <2>2
<1>4. /\ wait \in Nat /\ at + wait \in Nat /\ (at + wait) % Day = route.start
      /\ at + wait = RealStartTime(route, at)
  <2> HIDE DEF at, route
  <2>1. /\ RealStartTime(route, at) \in Nat /\ at <= RealStartTime(route, at)
        /\ RealStartTime(route, at) % Day = route.start
    BY <1>2, <1>3, RealStart
  <2>2. at + wait = RealStartTime(route, at) /\ wait \in Nat
    BY <1>3, <2>1
  <2> QED
    BY <1>3, <2>1, <2>2
<1>5. o = IF wait + at + route.cost - startT <= limit /\ risk < s.risks[d] THEN t ELSE s
  BY DEF Offer
<1>6. CASE ~(wait + at + route.cost - startT <= limit /\ risk < s.risks[d])
  <2>1. o = s
    BY <1>5, <1>6
  <2> HIDE DEF o
  <2> QED
    BY <2>1 DEF o
<1>7. CASE wait + at + route.cost - startT <= limit /\ risk < s.risks[d]
  <2>1. d # from /\ d \notin s.visit
    BY <1>1, <1>7
  <2>2. /\ s.risks[d] \in Nat /\ risk < s.risks[d]
        /\ at + wait + route.cost <= startT + limit /\ startT < at + wait + route.cost
    <3> HIDE DEF d
    <3>1. s.risks[d] \in Nat
      BY <1>1, <1>2 DEF SearchState
    <3> DEFINE cost == route.cost
    <3>2. cost \in Nat \ {0} /\ wait + at + cost - startT <= limit
      BY <1>2, <1>7
    <3> HIDE DEF at, wait, cost
    <3>3. at + wait + cost <= startT + limit /\ startT < at + wait + cost
      BY <1>3, <1>4, <3>2, SMTT(30)
    <3> QED
      BY <1>7, <3>1, <3>3 DEF cost
  <2> DEFINE a == at + wait + route.cost
  <2>3. a \in Nat /\ a - route.cost = at + wait /\ at <= a - route.cost
    <3> HIDE DEF at, wait, route
    <3> QED
      BY <1>2, <1>3, <1>4
  <2>4. i \in Nat /\ city \in 0 .. Cities /\ city # None /\ city # d
    BY <1>1, <2>1 DEF City, None
  <2>5. /\ t \in SearchState /\ t.visit = s.visit
        /\ t.risks = [s.risks EXCEPT ![d] = risk] /\ t.prev = [s.prev EXCEPT ![d] = city]
        /\ t.via = [s.via EXCEPT ![d] = i] /\ t.arrive = [s.arrive EXCEPT ![d] = a]
    <3>1. /\ s.visit \in SUBSET City /\ s.risks \in [City -> Nat]
          /\ s.prev \in [City -> 0 .. Cities] /\ s.via \in [City -> Nat]
          /\ s.arrive \in [City -> Nat] /\ s.done \in BOOLEAN
      BY <1>1 DEF SearchState
    <3> HIDE DEF a, d
    <3>2. t = [s EXCEPT !.risks = [@ EXCEPT ![d] = risk], !.prev = [@ EXCEPT ![d] = city],
                        !.via = [@ EXCEPT ![d] = i], !.arrive = [@ EXCEPT ![d] = a]]
      BY DEF a, d
    <3> HIDE DEF t
    <3>3. /\ t.visit = s.visit /\ t.done = s.done
          /\ t.risks = [s.risks EXCEPT ![d] = risk] /\ t.prev = [s.prev EXCEPT ![d] = city]
          /\ t.via = [s.via EXCEPT ![d] = i] /\ t.arrive = [s.arrive EXCEPT ![d] = a]
          /\ t = [visit |-> t.visit, risks |-> t.risks, prev |-> t.prev, via |-> t.via,
                  arrive |-> t.arrive, done |-> t.done]
      BY <1>1, <3>2 DEF SearchState
    <3>4. \A f \in [City -> Nat], x \in Nat : [f EXCEPT ![d] = x] \in [City -> Nat]
      OBVIOUS
    <3>5. t.risks \in [City -> Nat] /\ t.via \in [City -> Nat] /\ t.arrive \in [City -> Nat]
      <4>1. a \in Nat
        BY <2>3
      <4>2. [s.risks EXCEPT ![d] = risk] \in [City -> Nat]
        BY <3>1, <3>4
      <4>3. [s.via EXCEPT ![d] = i] \in [City -> Nat]
        BY <2>4, <3>1, <3>4
      <4>4. [s.arrive EXCEPT ![d] = a] \in [City -> Nat]
        BY <4>1, <3>1, <3>4
      <4> QED
        BY <3>3, <4>2, <4>3, <4>4, Zenon
    <3>6. t.prev \in [City -> 0 .. Cities]
      BY <2>4, <3>1, <3>3, ZenonT(30)
    <3> QED
      BY <3>1, <3>3, <3>5, <3>6 DEF SearchState
  <2> HIDE DEF t
  <2>6. \A c \in City \ {d} : /\ t.risks[c] = s.risks[c] /\ t.prev[c] = s.prev[c]
                              /\ t.via[c] = s.via[c] /\ t.arrive[c] = s.arrive[c]
    <3> HIDE DEF a, d
    <3>1. /\ s.risks \in [City -> Nat] /\ s.prev \in [City -> 0 .. Cities]
          /\ s.via \in [City -> Nat] /\ s.arrive \in [City -> Nat]
      BY <1>1 DEF SearchState
    <3> QED
      BY <2>5, <3>1
  <2>7. t.risks[d] = risk /\ t.prev[d] = city /\ t.via[d] = i /\ t.arrive[d] = a
    <3> HIDE DEF a, d
    <3>1. /\ s.risks \in [City -> Nat] /\ s.prev \in [City -> 0 .. Cities]
          /\ s.via \in [City -> Nat] /\ s.arrive \in [City -> Nat]
      BY <1>1 DEF SearchState
    <3> QED
      BY <1>2, <2>5, <3>1
  <2>8. At(t, from, startT, city) = at
    BY <1>1, <2>4, <2>6 DEF At
  <2>9. Hangs(t, map, from, startT, limit, d)
    <3>1. a - route.cost = at + wait /\ (a - route.cost) % Day = route.start
      BY <1>4, <2>3
    <3>2. Departs(t, map, d, city, i)
      BY <2>7, <3>1 DEF Departs
    <3>3. At(t, from, startT, city) <= a - route.cost
      BY <2>3, <2>8
    <3> HIDE DEF a, d, at, wait, route
    <3> QED
      BY <2>1, <2>2, <2>5, <2>7, <3>2, <3>3 DEF Hangs, a, route
  <2>10. ASSUME NEW c \in City \ {d}, t.prev[c] # None
         PROVE  Hangs(t, map, from, startT, limit, c)
    <3>1. Hangs(s, map, from, startT, limit, c)
      BY <1>1, <2>6, <2>10
    <3>2. s.prev[c] \in City \ {d}
      BY <1>1, <2>1, <3>1 DEF Hangs
    <3>3. At(t, from, startT, s.prev[c]) = At(s, from, startT, s.prev[c])
      BY <2>6, <3>2 DEF At
    <3>4. /\ t.prev[c] = s.prev[c] /\ t.via[c] = s.via[c] /\ t.arrive[c] = s.arrive[c]
          /\ t.visit = s.visit
      BY <2>5, <2>6
    <3> QED
      BY <3>1, <3>3, <3>4 DEF Hangs, Departs
  <2>11. Knows(t, map, from, startT, limit)
    <3>1. t.risks[from] = 0 /\ t.prev[from] = None /\ from \in t.visit
      BY <1>1, <2>1, <2>5, <2>6
    <3>2. \A c \in City : t.prev[c] # None => Hangs(t, map, from, startT, limit, c)
      BY <2>9, <2>10
    <3>3. \A c \in City \ {from} : c \in t.visit \/ t.risks[c] < INF => t.prev[c] # None
      BY <1>1, <2>4, <2>5, <2>6, <2>7
    <3> QED
      BY <2>5, <3>1, <3>2, <3>3 DEF Knows
  <2>12. \A c \in s.visit : t.arrive[c] = s.arrive[c]
    BY <1>1, <2>1, <2>6
  <2>13. o = t
    BY <1>5, <1>7
  <2> HIDE DEF o
  <2> QED
    BY <2>5, <2>11, <2>12, <2>13 DEF o
<1> QED
  BY <1>6, <1>7

(* Before the first departure is looked at.                                *)
LEMMA BlankKnows ==
    ASSUME NEW map, NEW from \in City, NEW startT \in Nat, NEW limit \in Nat
    PROVE  Knows(Blank(from), map, from, startT, limit) /\ Blank(from).visit = {from}
<1> DEFINE s == Blank(from)
<1>1. INF \in Nat /\ None \in 0 .. Cities /\ 0 \in Nat /\ None \in Nat
  BY TravelAssumption DEF INF, None
<1>2. [c \in City |-> IF c = from THEN 0 ELSE INF] \in [City -> Nat]
  BY <1>1
<1>3. /\ s \in SearchState /\ s.visit = {from}
      /\ \A c \in City : s.prev[c] = None /\ s.risks[c] = IF c = from THEN 0 ELSE INF
  <2>1. [c \in City |-> None] \in [City -> 0 .. Cities] /\ [c \in City |-> None] \in [City -> Nat]
        /\ [c \in City |-> 0] \in [City -> Nat]
    BY <1>1
  <2> QED
    BY <1>2, <2>1 DEF Blank, SearchState
<1>4. ~(INF < INF)
  BY <1>1
<1> HIDE DEF s
<1>5. \A c \in City \ {from} : ~(c \in s.visit \/ s.risks[c] < INF)
  BY <1>3, <1>4
<1>6. Knows(s, map, from, startT, limit)
  BY <1>3, <1>5 DEF Knows
<1> QED
  BY <1>3, <1>6 DEF s

(* The first loop as a function of the departures it has looked at.        *)
ArePasses(h, map, from, startT, limit) ==
    /\ h[0] = Blank(from)
    /\ h[Len(map[from])] = FromStart(map, from, startT, limit)
    /\ \A k \in 0 .. Len(map[from]) :
            Knows(h[k], map, from, startT, limit) /\ h[k].visit = {from}
    /\ \A k \in 1 .. Len(map[from]) :
            h[k] = Offer(h[k - 1], map, from, k, startT, startT, limit,
                         FirstRisk(from, RealStartTime(map[from][k], startT) - startT,
                                   map[from][k]))

LEMMA FromStartPasses ==
    ASSUME NEW map \in Timetable, NEW from \in City, NEW startT \in Nat, NEW limit \in Nat
    PROVE  \E h : ArePasses(h, map, from, startT, limit)
<1> DEFINE V == {s \in SearchState : Knows(s, map, from, startT, limit) /\ s.visit = {from}}
           n == Len(map[from])
           q == [i \in DOMAIN map[from] |-> i]
           v0 == Blank(from)
           wait(i) == RealStartTime(map[from][i], startT) - startT
           P(s, i) == Offer(s, map, from, i, startT, startT, limit,
                            FirstRisk(from, wait(i), map[from][i]))
           g == [s \in V |-> [i \in 1 .. n |-> P(s, i)]]
           Eq(it) == it = [S \in SUBSET (1 .. n) |->
                              IF S = {} THEN v0 ELSE P(it[S \ {Max(S)}], q[Max(S)])]
           it0 == CHOOSE it : Eq(it)
<1>1. n \in Nat /\ DOMAIN map[from] = 1 .. n
  BY DEF Timetable
<1>2. q \in Seq(1 .. n) /\ Len(q) = n /\ DOMAIN q = 1 .. n /\ \A i \in 1 .. n : q[i] = i
  <2> HIDE DEF n
  <2>1. q = [i \in 1 .. n |-> i]
    BY <1>1
  <2> QED
    BY <1>1, <2>1
<1>3. v0 \in V
  BY BlankKnows DEF Knows
<1>4. ASSUME NEW s \in V, NEW i \in 1 .. n PROVE P(s, i) \in V
  <2>1. Knows(s, map, from, startT, limit) /\ s.visit = {from}
    OBVIOUS
  <2>2. FirstRisk(from, wait(i), map[from][i]) \in Nat
    <3>1. map[from][i] \in Departure
      BY DepartureIs
    <3>2. wait(i) \in Nat
      <4> DEFINE r == map[from][i]
      <4> HIDE DEF r
      <4>1. RealStartTime(r, startT) \in Nat /\ startT <= RealStartTime(r, startT)
        BY <3>1, RealStart DEF r
      <4>2. RealStartTime(r, startT) - startT \in Nat
        BY <4>1
      <4> QED
        BY <4>2 DEF r
    <3> HIDE DEF wait
    <3> QED
      BY <3>1, <3>2, RisksAre
  <2> DEFINE risk == FirstRisk(from, wait(i), map[from][i])
  <2> HIDE DEF risk
  <2>3. risk \in Nat /\ At(s, from, startT, from) = startT
    BY <2>2 DEF risk, At
  <2>4. from \in s.visit /\ (map[from][i].dest \in s.visit => map[from][i].dest = from)
    BY <2>1
  <2> DEFINE t == Offer(s, map, from, i, At(s, from, startT, from), startT, limit, risk)
  <2>5. Knows(t, map, from, startT, limit) /\ t.visit = s.visit
    <3> HIDE DEF V, wait, P, q, v0, g
    <3> QED
      BY <2>1, <2>3, <2>4, OfferKnows
  <2>6. t = P(s, i)
    BY <2>3 DEF risk
  <2> HIDE DEF t, P
  <2> QED
    BY <2>1, <2>5, <2>6 DEF Knows
<1>5. FromStart(map, from, startT, limit) = it0[1 .. n]
  BY <1>2, Zenon DEF FromStart, FoldLeftDomain, FoldLeft, MapThenFoldSet
<1> HIDE DEF V, v0, P, q, n
<1>6. g \in [V -> [1 .. n -> V]]
  BY <1>4
<1>6a. \A t \in V, i \in 1 .. n : g[t][i] = P(t, i)
  OBVIOUS
<1> HIDE DEF g
<1>7. PICK f : IsFold(f, V, q, v0, g)
  BY <1>2, <1>3, <1>6, FoldDefined
<1>8. /\ f \in [SUBSET (1 .. n) -> V] /\ f[{}] = v0
      /\ \A S \in SUBSET (1 .. n) : S # {} => f[S] = g[f[S \ {Max(S)}]][q[Max(S)]]
  BY <1>2, <1>7 DEF IsFold
<1>9. ASSUME NEW S \in SUBSET (1 .. n), S # {}
      PROVE  Max(S) \in 1 .. n /\ S \ {Max(S)} \in SUBSET (1 .. n)
  BY <1>9, <1>1, MaxIn
<1>10. Eq(f)
  <2>1. ASSUME NEW S \in SUBSET (1 .. n), S # {}
        PROVE  g[f[S \ {Max(S)}]][q[Max(S)]] = P(f[S \ {Max(S)}], q[Max(S)])
    <3>1. /\ Max(S) \in 1 .. n /\ q[Max(S)] = Max(S)
          /\ S \ {Max(S)} \in SUBSET (1 .. n)
      BY <2>1, <1>9, <1>2
    <3>2. f[S \ {Max(S)}] \in V
      BY <3>1, <1>8
    <3> QED
      BY <3>1, <3>2, <1>6a
  <2> QED
    BY <1>8, <2>1
<1>11. Eq(it0)
  BY <1>10, Zenon
<1> HIDE DEF it0
<1> DEFINE Good == {k \in 0 .. n : it0[1 .. k] \in V}
<1>12. 0 \in Good
  <2>1. 1 .. 0 = {} /\ {} \in SUBSET (1 .. n)
    OBVIOUS
  <2> QED
    BY <2>1, <1>1, <1>3, <1>11
<1>13. ASSUME NEW i \in 1 .. n PROVE it0[1 .. i] = P(it0[1 .. i - 1], i)
  <2>1. /\ Max(1 .. i) = i /\ (1 .. i) \ {i} = 1 .. i - 1
        /\ 1 .. i \in SUBSET (1 .. n) /\ 1 .. i # {}
    BY <1>1, FoldPasses
  <2>2. it0[1 .. i] = P(it0[(1 .. i) \ {Max(1 .. i)}], q[Max(1 .. i)])
    BY <1>11, <2>1
  <2>3. (1 .. i) \ {Max(1 .. i)} = 1 .. i - 1 /\ q[Max(1 .. i)] = i
    BY <1>2, <2>1
  <2> QED
    BY <2>2, <2>3
<1>13a. ASSUME NEW k \in 0 .. n - 1, k \in Good PROVE k + 1 \in Good
  <2>1. k + 1 \in 1 .. n /\ (k + 1) - 1 = k /\ k + 1 \in 0 .. n
    BY <1>1
  <2>2. it0[1 .. k + 1] = P(it0[1 .. k], k + 1)
    BY <1>13, <2>1
  <2>3. it0[1 .. k + 1] \in V
    BY <1>4, <1>13a, <2>1, <2>2
  <2> QED
    BY <2>1, <2>3
<1> HIDE DEF Good
<1>14. \A k \in 0 .. n : k \in Good
  BY <1>1, <1>12, <1>13a, InductionUpTo
<1> DEFINE h == [k \in 0 .. n |-> it0[1 .. k]]
<1>15. \A k \in 0 .. n : h[k] = it0[1 .. k] /\ h[k] \in V
  BY <1>14 DEF Good
<1>16. h[0] = v0 /\ h[n] = it0[1 .. n]
  <2>1. 1 .. 0 = {} /\ {} \in SUBSET (1 .. n) /\ 0 \in 0 .. n /\ n \in 0 .. n
    BY <1>1
  <2>2. it0[{}] = v0
    BY <1>11, <2>1
  <2> QED
    BY <1>15, <2>1, <2>2
<1>17. ASSUME NEW k \in 1 .. n PROVE h[k] = P(h[k - 1], k)
  <2>1. k \in 0 .. n /\ k - 1 \in 0 .. n
    BY <1>1
  <2> QED
    BY <1>13, <1>15, <2>1
<1> HIDE DEF h, it0
<1>18. \A k \in 0 .. n : Knows(h[k], map, from, startT, limit) /\ h[k].visit = {from}
  BY <1>15 DEF V
<1>19. ArePasses(h, map, from, startT, limit)
  BY <1>5, <1>16, <1>17, <1>18 DEF n, v0, P, ArePasses
<1> QED
  BY <1>19

LEMMA FromStartKnows ==
    ASSUME NEW map \in Timetable, NEW from \in City, NEW startT \in Nat, NEW limit \in Nat
    PROVE  Knows(FromStart(map, from, startT, limit), map, from, startT, limit)
<1> DEFINE n == Len(map[from])
<1>1. n \in 0 .. n
  BY DEF Timetable
<1>2. \E h : /\ h[n] = FromStart(map, from, startT, limit)
             /\ \A k \in 0 .. n : Knows(h[k], map, from, startT, limit)
  BY FromStartPasses DEF ArePasses
<1> QED
  BY <1>1, <1>2

AreCityPasses(h, s, map, city, from, startT, limit) ==
    /\ h[0] = s
    /\ h[Len(map[city])] = FromCity(s, map, city, startT, limit)
    /\ \A k \in 0 .. Len(map[city]) :
            /\ Knows(h[k], map, from, startT, limit)
            /\ h[k].visit = s.visit /\ h[k].arrive[city] = s.arrive[city]
    /\ \A k \in 1 .. Len(map[city]) :
            h[k] = IF map[city][k].dest \in h[k - 1].visit THEN h[k - 1]
                   ELSE Offer(h[k - 1], map, city, k, s.arrive[city], startT, limit,
                              LaterRisk(city,
                                RealStartTime(map[city][k], s.arrive[city])
                                    - s.arrive[city], map[city][k]))

LEMMA FromCityPasses ==
    ASSUME NEW map \in Timetable, NEW from \in City, NEW startT \in Nat, NEW limit \in Nat,
           NEW s, Knows(s, map, from, startT, limit), NEW city \in s.visit, city # from
    PROVE  \E h : AreCityPasses(h, s, map, city, from, startT, limit)
<1> DEFINE at == s.arrive[city]
           V == {t \in SearchState : /\ Knows(t, map, from, startT, limit)
                                     /\ t.visit = s.visit /\ t.arrive[city] = at}
           n == Len(map[city])
           q == [i \in DOMAIN map[city] |-> i]
           wait(i) == RealStartTime(map[city][i], at) - at
           P(t, i) == IF map[city][i].dest \in t.visit THEN t
                      ELSE Offer(t, map, city, i, at, startT, limit,
                                 LaterRisk(city, wait(i), map[city][i]))
           g == [t \in V |-> [i \in 1 .. n |-> P(t, i)]]
           Eq(it) == it = [S \in SUBSET (1 .. n) |->
                              IF S = {} THEN s ELSE P(it[S \ {Max(S)}], q[Max(S)])]
           it0 == CHOOSE it : Eq(it)
<1>0. city \in City
  BY DEF Knows, SearchState
<1>1. n \in Nat /\ DOMAIN map[city] = 1 .. n
  BY <1>0 DEF Timetable
<1>2. q \in Seq(1 .. n) /\ Len(q) = n /\ DOMAIN q = 1 .. n /\ \A i \in 1 .. n : q[i] = i
  <2> HIDE DEF n
  <2>1. q = [i \in 1 .. n |-> i]
    BY <1>1
  <2> QED
    BY <1>1, <2>1
<1>3. s \in V
  BY DEF Knows
<1>4. ASSUME NEW t \in V, NEW i \in 1 .. n PROVE P(t, i) \in V
  <2>1. Knows(t, map, from, startT, limit) /\ t.visit = s.visit /\ t.arrive[city] = at
    OBVIOUS
  <2>2. CASE map[city][i].dest \in t.visit
    BY <2>2
  <2>3. CASE map[city][i].dest \notin t.visit
    <3>1. at \in Nat
      BY <1>0 DEF Knows, SearchState
    <3>2. LaterRisk(city, wait(i), map[city][i]) \in Nat
      <4> DEFINE r == map[city][i]
      <4>1. r \in Departure
        BY <1>0, DepartureIs
      <4> HIDE DEF r, at
      <4>2. RealStartTime(r, at) \in Nat /\ at <= RealStartTime(r, at)
        BY <3>1, <4>1, RealStart
      <4>3. wait(i) \in Nat
        BY <3>1, <4>2 DEF r
      <4> HIDE DEF wait
      <4>4. LaterRisk(city, wait(i), r) \in Nat
        BY <1>0, <4>1, <4>3, RisksAre
      <4> QED
        BY <4>4 DEF r
    <3> DEFINE risk == LaterRisk(city, wait(i), map[city][i])
    <3>3. risk \in Nat /\ At(t, from, startT, city) = at
      BY <2>1, <3>2 DEF At
    <3> HIDE DEF risk
    <3> DEFINE o == Offer(t, map, city, i, At(t, from, startT, city), startT, limit, risk)
    <3>4. /\ Knows(o, map, from, startT, limit) /\ o.visit = t.visit
          /\ \A c \in t.visit : o.arrive[c] = t.arrive[c]
      <4>1. city \in t.visit /\ (city # from => t.prev[city] # None)
        BY <1>0, <2>1 DEF Knows
      <4> HIDE DEF V, wait, P, q, g, at
      <4> QED
        BY <2>1, <2>3, <3>3, <4>1, OfferKnows
    <3>5. o = P(t, i)
      BY <2>3, <3>3 DEF risk
    <3> HIDE DEF o, P
    <3> QED
      BY <2>1, <3>4, <3>5 DEF Knows
  <2> QED
    BY <2>2, <2>3
<1>5. FromCity(s, map, city, startT, limit) = it0[1 .. n]
  BY <1>2, Zenon DEF FromCity, FoldLeftDomain, FoldLeft, MapThenFoldSet
<1> HIDE DEF V, P, q, n
<1>6. g \in [V -> [1 .. n -> V]]
  BY <1>4
<1>6a. \A t \in V, i \in 1 .. n : g[t][i] = P(t, i)
  OBVIOUS
<1> HIDE DEF g
<1>7. PICK f : IsFold(f, V, q, s, g)
  BY <1>2, <1>3, <1>6, FoldDefined
<1>8. /\ f \in [SUBSET (1 .. n) -> V] /\ f[{}] = s
      /\ \A S \in SUBSET (1 .. n) : S # {} => f[S] = g[f[S \ {Max(S)}]][q[Max(S)]]
  BY <1>2, <1>7 DEF IsFold
<1>9. ASSUME NEW S \in SUBSET (1 .. n), S # {}
      PROVE  Max(S) \in 1 .. n /\ S \ {Max(S)} \in SUBSET (1 .. n)
  BY <1>9, <1>1, MaxIn
<1>10. Eq(f)
  <2>1. ASSUME NEW S \in SUBSET (1 .. n), S # {}
        PROVE  g[f[S \ {Max(S)}]][q[Max(S)]] = P(f[S \ {Max(S)}], q[Max(S)])
    <3>1. /\ Max(S) \in 1 .. n /\ q[Max(S)] = Max(S)
          /\ S \ {Max(S)} \in SUBSET (1 .. n)
      BY <2>1, <1>9, <1>2
    <3>2. f[S \ {Max(S)}] \in V
      BY <3>1, <1>8
    <3> QED
      BY <3>1, <3>2, <1>6a
  <2> QED
    BY <1>8, <2>1
<1>11. Eq(it0)
  BY <1>10, Zenon
<1> HIDE DEF it0
<1> DEFINE Good == {k \in 0 .. n : it0[1 .. k] \in V}
<1>12. 0 \in Good
  <2>1. 1 .. 0 = {} /\ {} \in SUBSET (1 .. n)
    OBVIOUS
  <2> QED
    BY <2>1, <1>1, <1>3, <1>11
<1>13. ASSUME NEW i \in 1 .. n PROVE it0[1 .. i] = P(it0[1 .. i - 1], i)
  <2>1. /\ Max(1 .. i) = i /\ (1 .. i) \ {i} = 1 .. i - 1
        /\ 1 .. i \in SUBSET (1 .. n) /\ 1 .. i # {}
    BY <1>1, FoldPasses
  <2>2. it0[1 .. i] = P(it0[(1 .. i) \ {Max(1 .. i)}], q[Max(1 .. i)])
    BY <1>11, <2>1
  <2>3. (1 .. i) \ {Max(1 .. i)} = 1 .. i - 1 /\ q[Max(1 .. i)] = i
    BY <1>2, <2>1
  <2> QED
    BY <2>2, <2>3
<1>13a. ASSUME NEW k \in 0 .. n - 1, k \in Good PROVE k + 1 \in Good
  <2>1. k + 1 \in 1 .. n /\ (k + 1) - 1 = k /\ k + 1 \in 0 .. n
    BY <1>1
  <2>2. it0[1 .. k + 1] = P(it0[1 .. k], k + 1)
    BY <1>13, <2>1
  <2>3. it0[1 .. k + 1] \in V
    BY <1>4, <1>13a, <2>1, <2>2
  <2> QED
    BY <2>1, <2>3
<1> HIDE DEF Good
<1>14. \A k \in 0 .. n : k \in Good
  BY <1>1, <1>12, <1>13a, InductionUpTo
<1> DEFINE h == [k \in 0 .. n |-> it0[1 .. k]]
<1>15. \A k \in 0 .. n : h[k] = it0[1 .. k] /\ h[k] \in V
  BY <1>14 DEF Good
<1>16. h[0] = s /\ h[n] = it0[1 .. n]
  <2>1. 1 .. 0 = {} /\ {} \in SUBSET (1 .. n) /\ 0 \in 0 .. n /\ n \in 0 .. n
    BY <1>1
  <2>2. it0[{}] = s
    BY <1>11, <2>1
  <2> QED
    BY <1>15, <2>1, <2>2
<1>17. ASSUME NEW k \in 1 .. n PROVE h[k] = P(h[k - 1], k)
  <2>1. k \in 0 .. n /\ k - 1 \in 0 .. n
    BY <1>1
  <2> QED
    BY <1>13, <1>15, <2>1
<1> HIDE DEF h, it0
<1>18. \A k \in 0 .. n : /\ Knows(h[k], map, from, startT, limit)
                          /\ h[k].visit = s.visit /\ h[k].arrive[city] = at
  BY <1>15 DEF V
<1>19. AreCityPasses(h, s, map, city, from, startT, limit)
  BY <1>5, <1>16, <1>17, <1>18 DEF n, P, AreCityPasses
<1> QED
  BY <1>19

LEMMA FromCityKnows ==
    ASSUME NEW map \in Timetable, NEW from \in City, NEW startT \in Nat, NEW limit \in Nat,
           NEW s, Knows(s, map, from, startT, limit), NEW city \in s.visit, city # from
    PROVE  Knows(FromCity(s, map, city, startT, limit), map, from, startT, limit)
<1> DEFINE n == Len(map[city])
<1>1. n \in 0 .. n
  BY DEF Timetable, Knows, SearchState
<1>2. \E h : /\ h[n] = FromCity(s, map, city, startT, limit)
             /\ \A k \in 0 .. n : Knows(h[k], map, from, startT, limit)
  BY FromCityPasses DEF AreCityPasses
<1> QED
  BY <1>1, <1>2

LEMMA DoneKnows ==
    ASSUME NEW map, NEW from, NEW startT, NEW limit,
           NEW s, Knows(s, map, from, startT, limit)
    PROVE  Knows([s EXCEPT !.done = TRUE], map, from, startT, limit)
<1> DEFINE t == [s EXCEPT !.done = TRUE]
<1>1. /\ t \in SearchState /\ t.visit = s.visit /\ t.risks = s.risks /\ t.prev = s.prev
      /\ t.via = s.via /\ t.arrive = s.arrive
  BY DEF Knows, SearchState
<1> HIDE DEF t
<1>2. Knows(t, map, from, startT, limit)
  BY <1>1 DEF Knows, Hangs, Departs, At
<1> QED
  BY <1>2 DEF t

(* A city of the least risk can be taken.                                  *)
Open(s) == {c \in City \ s.visit : s.risks[c] < INF}
Taken(s, c) == [s EXCEPT !.visit = @ \cup {c}]

LEMMA TakenKnows ==
    ASSUME NEW map, NEW from, NEW startT, NEW limit,
           NEW s, Knows(s, map, from, startT, limit), NEW c \in Open(s)
    PROVE  /\ Knows(Taken(s, c), map, from, startT, limit) /\ c # from
           /\ c \in Taken(s, c).visit /\ Taken(s, c).visit = s.visit \cup {c}
           /\ Taken(s, c).risks = s.risks /\ Taken(s, c).prev = s.prev
           /\ Taken(s, c).arrive = s.arrive /\ Taken(s, c).done = s.done
<1> DEFINE t == Taken(s, c)
<1>1. c \in City \ s.visit /\ s.risks[c] < INF /\ c # from
  BY DEF Open, Knows
<1>2. /\ t \in SearchState /\ t.visit = s.visit \cup {c} /\ t.risks = s.risks
      /\ t.prev = s.prev /\ t.via = s.via /\ t.arrive = s.arrive /\ t.done = s.done
  BY <1>1 DEF Taken, Knows, SearchState
<1> HIDE DEF t
<1>3. Knows(t, map, from, startT, limit)
  BY <1>1, <1>2, SMTT(30) DEF Knows, Hangs, Departs, At
<1> QED
  BY <1>1, <1>2, <1>3 DEF t

LEMMA ExpandIs ==
    ASSUME NEW map, NEW from, NEW dest, NEW startT, NEW limit,
           NEW s, Knows(s, map, from, startT, limit)
    PROVE  LET r == Expand(s, map, dest, startT, limit)
           IN  \/ (s.done \/ Open(s) = {}) /\ r = [s EXCEPT !.done = TRUE]
               \/ \E c \in Open(s) :
                    /\ ~s.done
                    /\ \/ c = dest /\ r = [Taken(s, c) EXCEPT !.done = TRUE]
                       \/ r = FromCity(Taken(s, c), map, c, startT, limit)
<1> DEFINE open == Open(s)
           best == {c \in open : \A d \in open : s.risks[c] <= s.risks[d]}
           cur == CHOOSE c \in best : \A d \in best : c <= d
           r == Expand(s, map, dest, startT, limit)
<1>1. s \in SearchState /\ s.risks \in [City -> Nat]
  BY DEF Knows, SearchState
<1>3. ASSUME open # {} PROVE cur \in open
  <2>1. open \in SUBSET City /\ \A c \in open : s.risks[c] \in Nat
    BY <1>1 DEF Open
  <2> HIDE DEF open
  <2> DEFINE T == {s.risks[c] : c \in open}
  <2>2. T \in SUBSET Nat /\ T # {}
    BY <1>3, <2>1
  <2> HIDE DEF T
  <2>3. PICK x \in T : \A y \in T : x <= y
    BY <2>2, LeastOfSet
  <2>4. PICK c \in open : x = s.risks[c]
    BY <2>3 DEF T
  <2>5. c \in best
    BY <2>3, <2>4 DEF T
  <2>6. best \in SUBSET Nat /\ best # {}
    <3>1. City \in SUBSET Nat
      BY TravelAssumption DEF City
    <3>2. best \in SUBSET open
      OBVIOUS
    <3> HIDE DEF best
    <3> QED
      BY <2>1, <2>5, <3>1, <3>2
  <2> HIDE DEF best
  <2>7. \E b \in best : \A d \in best : b <= d
    BY <2>6, LeastOfSet
  <2>8. cur \in best
    BY <2>7
  <2> QED
    BY <2>8 DEF best
<1>4. r = CASE s.done \/ open = {} -> [s EXCEPT !.done = TRUE]
            [] ~s.done /\ open # {} /\ cur = dest -> [Taken(s, cur) EXCEPT !.done = TRUE]
            [] OTHER -> FromCity(Taken(s, cur), map, cur, startT, limit)
  BY DEF Expand, Open, Taken
<1> HIDE DEF open, cur, r
<1>5. s.done \in BOOLEAN
  BY <1>1 DEF SearchState
<1>6. CASE s.done \/ open = {}
  <2>1. r = [s EXCEPT !.done = TRUE]
    BY <1>4, <1>6, Zenon
  <2> QED
    BY <1>6, <2>1 DEF open, r
<1>7. CASE ~s.done /\ open # {} /\ cur = dest
  <2>1. r = [Taken(s, cur) EXCEPT !.done = TRUE]
    BY <1>4, <1>7, Zenon
  <2> QED
    BY <1>3, <1>7, <2>1 DEF open, r
<1>8. CASE ~s.done /\ open # {} /\ cur # dest
  <2>1. r = FromCity(Taken(s, cur), map, cur, startT, limit)
    BY <1>4, <1>8, Zenon
  <2> QED
    BY <1>3, <1>8, <2>1 DEF open, r
<1> QED
  BY <1>5, <1>6, <1>7, <1>8

LEMMA ExpandKnows ==
    ASSUME NEW map \in Timetable, NEW from \in City, NEW dest, NEW startT \in Nat,
           NEW limit \in Nat, NEW s, Knows(s, map, from, startT, limit)
    PROVE  Knows(Expand(s, map, dest, startT, limit), map, from, startT, limit)
<1> DEFINE r == Expand(s, map, dest, startT, limit)
           K(t) == Knows(t, map, from, startT, limit)
<1>1. K([s EXCEPT !.done = TRUE])
  BY DoneKnows
<1>2. ASSUME NEW c \in Open(s)
      PROVE  K([Taken(s, c) EXCEPT !.done = TRUE])
             /\ K(FromCity(Taken(s, c), map, c, startT, limit))
  <2>1. K(Taken(s, c)) /\ c # from /\ c \in Taken(s, c).visit
    BY TakenKnows
  <2>2. K([Taken(s, c) EXCEPT !.done = TRUE])
    BY <2>1, DoneKnows
  <2>3. K(FromCity(Taken(s, c), map, c, startT, limit))
    BY <2>1, FromCityKnows
  <2> QED
    BY <2>2, <2>3
<1>3. \/ r = [s EXCEPT !.done = TRUE]
      \/ \E c \in Open(s) : \/ r = [Taken(s, c) EXCEPT !.done = TRUE]
                            \/ r = FromCity(Taken(s, c), map, c, startT, limit)
  BY ExpandIs
<1> HIDE DEF r, K
<1>4. K(r)
  BY <1>1, <1>2, <1>3
<1> QED
  BY <1>4 DEF K, r

(* The second loop as a function of its rounds.                            *)
LEMMA SearchPasses ==
    ASSUME NEW map \in Timetable, NEW from \in City, NEW dest, NEW startT \in Nat,
           NEW limit \in Nat
    PROVE  \E h :
            /\ h[0] = FromStart(map, from, startT, limit)
            /\ h[Cities] = Search(map, from, dest, startT, limit)
            /\ \A n \in 0 .. Cities : Knows(h[n], map, from, startT, limit)
            /\ \A n \in 1 .. Cities : h[n] = Expand(h[n - 1], map, dest, startT, limit)
<1> DEFINE V == {s \in SearchState : Knows(s, map, from, startT, limit)}
           v0 == FromStart(map, from, startT, limit)
           E(s) == Expand(s, map, dest, startT, limit)
           g == [s \in V |-> E(s)]
           Eq(f) == f = [n \in 0 .. Cities |-> IF n = 0 THEN v0 ELSE E(f[n - 1])]
           round == CHOOSE f : Eq(f)
<1>1. Search(map, from, dest, startT, limit) = round[Cities]
  BY Zenon DEF Search
<1>2. v0 \in V
  <2>1. Knows(v0, map, from, startT, limit)
    BY FromStartKnows
  <2> HIDE DEF v0
  <2>2. v0 \in SearchState
    BY <2>1 DEF Knows
  <2> QED
    BY <2>1, <2>2
<1>3. \A s \in V : E(s) \in V
  <2>1. ASSUME NEW s \in V PROVE Knows(E(s), map, from, startT, limit)
    BY ExpandKnows
  <2> HIDE DEF E
  <2> QED
    BY <2>1 DEF Knows
<1>4. Cities \in Nat
  BY TravelAssumption
<1> HIDE DEF V, v0, E
<1>5. g \in [V -> V]
  BY <1>3
<1> HIDE DEF g
<1>6. PICK f : AreRounds(f, V, Cities, v0, g)
  BY <1>2, <1>4, <1>5, RoundsDefined
<1>6a. /\ f \in [0 .. Cities -> V] /\ f[0] = v0
       /\ \A n \in 1 .. Cities : f[n] = g[f[n - 1]]
  BY <1>6 DEF AreRounds
<1>7. Eq(f)
  <2>1. ASSUME NEW n \in 0 .. Cities, n # 0 PROVE f[n] = E(f[n - 1])
    <3>1. n - 1 \in 0 .. Cities /\ n \in 1 .. Cities
      BY <1>4, <2>1
    <3> QED
      BY <1>6a, <3>1 DEF g
  <2> QED
    BY <1>6a, <2>1
<1>8. Eq(round)
  BY <1>7, Zenon
<1> HIDE DEF round
<1> DEFINE S == {n \in 0 .. Cities : round[n] \in V}
<1>9. 0 \in S
  BY <1>2, <1>4, <1>8
<1>10. ASSUME NEW n \in 0 .. Cities - 1, n \in S PROVE n + 1 \in S
  <2>1. n + 1 \in 0 .. Cities /\ n + 1 # 0 /\ (n + 1) - 1 = n
    BY <1>4
  <2>2. round[n + 1] = E(round[n])
    BY <1>8, <2>1
  <2>3. round[n + 1] \in V
    BY <1>3, <1>10, <2>2
  <2> QED
    BY <2>1, <2>3
<1> HIDE DEF S
<1>11. \A n \in 0 .. Cities : n \in S
  BY <1>4, <1>9, <1>10, InductionUpTo
<1>12. ASSUME NEW n \in 1 .. Cities PROVE round[n] = E(round[n - 1])
  <2>1. n \in 0 .. Cities /\ n # 0
    BY <1>4
  <2> QED
    BY <1>8, <2>1
<1>13. round[0] = v0
  BY <1>4, <1>8
<1>14. \A n \in 0 .. Cities : Knows(round[n], map, from, startT, limit)
  BY <1>11 DEF S, V
<1> QED
  BY <1>1, <1>12, <1>13, <1>14 DEF v0, E

LEMMA SearchKnows ==
    ASSUME NEW map \in Timetable, NEW from \in City, NEW dest, NEW startT \in Nat,
           NEW limit \in Nat
    PROVE  Knows(Search(map, from, dest, startT, limit), map, from, startT, limit)
<1>1. Cities \in 0 .. Cities
  BY TravelAssumption
<1> QED
  BY <1>1, SearchPasses

-----------------------------------------------------------------------------
(* The way back from the destination.  As long as it has not come to the   *)
(* start it gets longer by a city with each pass, and no city is on it     *)
(* twice, since one is there earlier and earlier.                          *)
Leads(p, s, dest) ==
    /\ p \in Seq(City) /\ Len(p) >= 1 /\ p[Len(p)] = dest
    /\ \A i \in 1 .. Len(p) : p[i] \in s.visit
    /\ \A i \in 1 .. Len(p) - 1 : s.prev[p[i + 1]] # None /\ p[i] = s.prev[p[i + 1]]
Back(s, p) == IF s.prev[Head(p)] = None THEN p ELSE <<s.prev[Head(p)]>> \o p

LEMMA BackLeads ==
    ASSUME NEW map, NEW from, NEW startT, NEW limit, NEW s,
           Knows(s, map, from, startT, limit), NEW dest, NEW p, Leads(p, s, dest)
    PROVE  /\ Leads(Back(s, p), s, dest)
           /\ s.prev[Head(p)] = None => Back(s, p) = p
           /\ s.prev[Head(p)] # None => Len(Back(s, p)) = Len(p) + 1
<1>1. /\ p \in Seq(City) /\ Len(p) \in Nat \ {0} /\ Head(p) = p[1] /\ p[1] \in City
      /\ p[Len(p)] = dest
      /\ \A i \in 1 .. Len(p) : p[i] \in s.visit /\ p[i] \in City
      /\ \A i \in 1 .. Len(p) - 1 : s.prev[p[i + 1]] # None /\ p[i] = s.prev[p[i + 1]]
  BY DEF Leads
<1>2. CASE s.prev[Head(p)] = None
  BY <1>2 DEF Back
<1>3. CASE s.prev[Head(p)] # None
  <2> DEFINE x == s.prev[Head(p)]
             u == <<x>>
             r == u \o p
  <2>1. x \in s.visit /\ x \in City
    <3>1. Hangs(s, map, from, startT, limit, p[1])
      BY <1>1, <1>3 DEF Knows
    <3>2. s.visit \in SUBSET City
      BY DEF Knows, SearchState
    <3> QED
      BY <1>1, <3>1, <3>2 DEF Hangs
  <2>2. Back(s, p) = r
    BY <1>3 DEF Back
  <2> HIDE DEF x
  <2>3. u \in Seq(City) /\ Len(u) = 1 /\ u[1] = x
    BY <2>1
  <2> HIDE DEF u
  <2>4. /\ r \in Seq(City) /\ Len(r) = Len(p) + 1
        /\ \A i \in 1 .. Len(p) + 1 : r[i] = IF i <= 1 THEN u[i] ELSE p[i - 1]
    <3>1. /\ r \in Seq(City) /\ Len(r) = Len(u) + Len(p)
          /\ \A i \in 1 .. Len(u) + Len(p) :
                r[i] = IF i <= Len(u) THEN u[i] ELSE p[i - Len(u)]
      BY <1>1, <2>3, ConcatProperties, ZenonT(30)
    <3> HIDE DEF r
    <3>2. 1 + Len(p) = Len(p) + 1
      BY <1>1
    <3> QED
      BY <2>3, <3>1, <3>2
  <2> HIDE DEF r
  <2>5. r[1] = x /\ \A i \in 2 .. Len(p) + 1 : r[i] = p[i - 1]
    BY <1>1, <2>3, <2>4
  <2>6. ASSUME NEW i \in 1 .. Len(r) PROVE r[i] \in s.visit
    <3>1. CASE i = 1
      BY <2>1, <2>5, <3>1
    <3>2. CASE i # 1
      <4>1. i - 1 \in 1 .. Len(p) /\ r[i] = p[i - 1]
        BY <1>1, <2>4, <2>5, <3>2
      <4> QED
        BY <1>1, <4>1
    <3> QED
      BY <3>1, <3>2
  <2>7. ASSUME NEW i \in 1 .. Len(r) - 1
        PROVE  s.prev[r[i + 1]] # None /\ r[i] = s.prev[r[i + 1]]
    <3>1. r[i + 1] = p[i] /\ i \in 1 .. Len(p)
      BY <1>1, <2>4, <2>5
    <3>2. CASE i = 1
      BY <1>1, <1>3, <2>5, <3>1, <3>2 DEF x
    <3>3. CASE i # 1
      <4>1. r[i] = p[i - 1] /\ i - 1 \in 1 .. Len(p) - 1 /\ (i - 1) + 1 = i
        BY <1>1, <2>4, <2>5, <3>1, <3>3
      <4> QED
        BY <1>1, <3>1, <4>1
    <3> QED
      BY <3>2, <3>3
  <2>8. r[Len(r)] = dest /\ Len(r) >= 1
    BY <1>1, <2>4, <2>5
  <2>9. Leads(r, s, dest)
    BY <2>4, <2>6, <2>7, <2>8 DEF Leads
  <2> QED
    BY <1>3, <2>2, <2>4, <2>9
<1> QED
  BY <1>2, <1>3

(* One is there later and later.                                           *)
LEMMA LeadsRises ==
    ASSUME NEW map \in Timetable, NEW from \in City, NEW startT \in Nat, NEW limit \in Nat,
           NEW s, Knows(s, map, from, startT, limit), NEW dest, NEW p, Leads(p, s, dest)
    PROVE  /\ \A i \in 1 .. Len(p) : At(s, from, startT, p[i]) \in Nat
                                     /\ startT <= At(s, from, startT, p[i])
           /\ \A i \in 1 .. Len(p) - 1 :
                /\ p[i + 1] # from /\ Departs(s, map, p[i + 1], p[i], s.via[p[i + 1]])
                /\ At(s, from, startT, p[i + 1]) = s.arrive[p[i + 1]]
                /\ At(s, from, startT, p[i])
                        <= s.arrive[p[i + 1]] - map[p[i]][s.via[p[i + 1]]].cost
                /\ map[p[i]][s.via[p[i + 1]]].cost \in Nat \ {0}
           /\ \A i, j \in 1 .. Len(p) :
                i < j => At(s, from, startT, p[i]) < At(s, from, startT, p[j])
<1> DEFINE at(c) == At(s, from, startT, c)
           cost(i) == map[p[i]][s.via[p[i + 1]]].cost
<1>1. /\ p \in Seq(City) /\ Len(p) \in Nat \ {0}
      /\ \A i \in 1 .. Len(p) : p[i] \in s.visit /\ p[i] \in City
      /\ \A i \in 1 .. Len(p) - 1 : s.prev[p[i + 1]] # None /\ p[i] = s.prev[p[i + 1]]
  BY DEF Leads
<1>2. ASSUME NEW i \in 1 .. Len(p) PROVE at(p[i]) \in Nat /\ startT <= at(p[i])
  <2>1. CASE p[i] = from
    BY <2>1 DEF At
  <2>2. CASE p[i] # from
    <3>1. s.prev[p[i]] # None
      BY <1>1, <2>2 DEF Knows
    <3>2. Hangs(s, map, from, startT, limit, p[i])
      BY <1>1, <3>1 DEF Knows
    <3>3. s.arrive[p[i]] \in Nat
      BY <1>1 DEF Knows, SearchState
    <3> QED
      BY <2>2, <3>2, <3>3 DEF Hangs, At
  <2> QED
    BY <2>1, <2>2
<1>3. ASSUME NEW i \in 1 .. Len(p) - 1
      PROVE  /\ p[i + 1] # from /\ Departs(s, map, p[i + 1], p[i], s.via[p[i + 1]])
             /\ at(p[i + 1]) = s.arrive[p[i + 1]]
             /\ at(p[i]) <= s.arrive[p[i + 1]] - cost(i) /\ cost(i) \in Nat \ {0}
  <2>1. i + 1 \in 1 .. Len(p) /\ p[i + 1] \in City /\ p[i] \in City
    BY <1>1
  <2>2. Hangs(s, map, from, startT, limit, p[i + 1]) /\ p[i] = s.prev[p[i + 1]]
    BY <1>1, <2>1 DEF Knows
  <2>3. /\ p[i + 1] # from /\ Departs(s, map, p[i + 1], p[i], s.via[p[i + 1]])
        /\ at(p[i]) <= s.arrive[p[i + 1]] - cost(i)
    BY <2>2 DEF Hangs
  <2>4. cost(i) \in Nat \ {0}
    BY <2>1, <2>3, DepartureIs DEF Departs
  <2> QED
    BY <2>3, <2>4 DEF At
<1>4. ASSUME NEW i \in 1 .. Len(p) - 1 PROVE at(p[i]) < at(p[i + 1])
  <2>1. i \in 1 .. Len(p) /\ i + 1 \in 1 .. Len(p)
    BY <1>1
  <2>2. at(p[i]) \in Nat /\ at(p[i + 1]) \in Nat
    BY <1>2, <2>1
  <2>3. at(p[i]) <= at(p[i + 1]) - cost(i) /\ cost(i) \in Nat \ {0}
    BY <1>3
  <2> HIDE DEF at, cost
  <2> QED
    BY <2>2, <2>3
<1> DEFINE a == [i \in 1 .. Len(p) |-> at(p[i])]
<1>5. a \in [1 .. Len(p) -> Int] /\ \A i \in 1 .. Len(p) : a[i] = at(p[i])
  BY <1>2
<1>6. \A i \in 1 .. Len(p) - 1 : a[i] < a[i + 1]
  <2>1. \A i \in 1 .. Len(p) - 1 : i \in 1 .. Len(p) /\ i + 1 \in 1 .. Len(p)
    BY <1>1
  <2> HIDE DEF a, at
  <2> QED
    BY <1>4, <1>5, <2>1
<1> HIDE DEF a, at, cost
<1>7. ASSUME NEW i \in 1 .. Len(p), NEW j \in 1 .. Len(p), i < j PROVE at(p[i]) < at(p[j])
  <2>1. a[i] < a[j]
    BY <1>1, <1>5, <1>6, <1>7, Rising
  <2> QED
    BY <1>5, <2>1
<1> QED
  BY <1>2, <1>3, <1>7 DEF at, cost

(* So a way is no longer than there are cities.                            *)
LEMMA LeadsIsShort ==
    ASSUME NEW map \in Timetable, NEW from \in City, NEW startT \in Nat, NEW limit \in Nat,
           NEW s, Knows(s, map, from, startT, limit), NEW dest, NEW p, Leads(p, s, dest)
    PROVE  Len(p) <= Cities
<1>1. p \in Seq(City) /\ Len(p) \in Nat \ {0} /\ Cities \in Nat
  BY TravelAssumption DEF Leads
<1>2. SUFFICES ASSUME Len(p) > Cities PROVE FALSE
  BY <1>1
<1>3. /\ IsFiniteSet(1 .. Len(p)) /\ Cardinality(1 .. Len(p)) = Len(p)
      /\ IsFiniteSet(City) /\ Cardinality(City) = Cities
  <2>1. Len(p) \in Int /\ Cities \in Int /\ 1 \in Int /\ Len(p) >= 1
    BY <1>1
  <2>2. /\ IsFiniteSet(1 .. Len(p))
        /\ Cardinality(1 .. Len(p)) = IF 1 > Len(p) THEN 0 ELSE Len(p) - 1 + 1
    BY <2>1, FS_Interval
  <2>3. /\ IsFiniteSet(1 .. Cities)
        /\ Cardinality(1 .. Cities) = IF 1 > Cities THEN 0 ELSE Cities - 1 + 1
    BY <2>1, FS_Interval
  <2> QED
    BY <1>1, <2>2, <2>3 DEF City
<1>4. p \in [1 .. Len(p) -> City]
  BY <1>1
<1>5. PICK i, j \in 1 .. Len(p) : i # j /\ p[i] = p[j]
  BY <1>2, <1>3, <1>4, FS_PigeonHole
<1>6. /\ \A k \in 1 .. Len(p) : At(s, from, startT, p[k]) \in Nat
      /\ \A k, l \in 1 .. Len(p) :
            k < l => At(s, from, startT, p[k]) < At(s, from, startT, p[l])
  BY LeadsRises
<1>7. i < j \/ j < i
  BY <1>1, <1>5
<1> QED
  BY <1>5, <1>6, <1>7

RidesOn(p, s, map) ==
    [i \in 1 .. Len(p) - 1 |->
        [from |-> p[i], dest |-> p[i + 1],
         depart |-> s.arrive[p[i + 1]] - map[p[i]][s.via[p[i + 1]]].cost,
         arrive |-> s.arrive[p[i + 1]]]]

LEMMA RidesAre ==
    ASSUME NEW map \in Timetable, NEW from \in City, NEW startT \in Nat, NEW limit \in Nat,
           NEW s, Knows(s, map, from, startT, limit), NEW dest \in s.visit
    PROVE  \E p : /\ Leads(p, s, dest) /\ p[1] = from
                  /\ Rides(s, map, dest) = RidesOn(p, s, map)
<1> DEFINE V == {p \in Seq(City) : Leads(p, s, dest)}
           v0 == <<dest>>
           B(p) == Back(s, p)
           g == [p \in V |-> B(p)]
           Eq(f) == f = [n \in 0 .. Cities |-> IF n = 0 THEN v0 ELSE B(f[n - 1])]
           pass == CHOOSE f : Eq(f)
           cities == pass[Cities]
<1>1. Cities \in Nat /\ dest \in City
  BY TravelAssumption DEF Knows, SearchState
<1>2. v0 \in V
  <2>1. v0 \in Seq(City) /\ Len(v0) = 1 /\ v0[1] = dest
    BY <1>1
  <2> HIDE DEF v0
  <2>2. Leads(v0, s, dest)
    BY <2>1 DEF Leads
  <2> QED
    BY <2>1, <2>2
<1>3. \A p \in V : B(p) \in V
  <2>1. ASSUME NEW p \in V PROVE Leads(B(p), s, dest)
    BY BackLeads
  <2> HIDE DEF B
  <2> QED
    BY <2>1 DEF Leads
<1>4. Rides(s, map, dest)
        = [i \in 1 .. Len(cities) - 1 |->
             LET c == cities[i]
                 d == cities[i + 1]
             IN  [from |-> c, dest |-> d, depart |-> s.arrive[d] - map[c][s.via[d]].cost,
                  arrive |-> s.arrive[d]]]
  BY Zenon DEF Rides, Back
<1>5. Rides(s, map, dest) = RidesOn(cities, s, map)
  <2> HIDE DEF cities
  <2> QED
    BY <1>4 DEF RidesOn
<1>6. Len(v0) = 1
  OBVIOUS
<1> HIDE DEF V, v0, B
<1>7. g \in [V -> V]
  BY <1>3
<1> HIDE DEF g
<1>8. PICK f : AreRounds(f, V, Cities, v0, g)
  BY <1>1, <1>2, <1>7, RoundsDefined
<1>8a. /\ f \in [0 .. Cities -> V] /\ f[0] = v0
       /\ \A n \in 1 .. Cities : f[n] = g[f[n - 1]]
  BY <1>8 DEF AreRounds
<1>9. Eq(f)
  <2>1. ASSUME NEW n \in 0 .. Cities, n # 0 PROVE f[n] = B(f[n - 1])
    <3>1. n - 1 \in 0 .. Cities /\ n \in 1 .. Cities
      BY <1>1, <2>1
    <3> QED
      BY <1>8a, <3>1 DEF g
  <2> QED
    BY <1>8a, <2>1
<1>10. Eq(pass)
  BY <1>9, Zenon
<1> HIDE DEF pass
<1> DEFINE Stops(p) == s.prev[Head(p)] = None
           S == {n \in 0 .. Cities : pass[n] \in V /\ (Stops(pass[n]) \/ Len(pass[n]) = n + 1)}
<1>11. 0 \in S
  <2>1. pass[0] = v0
    BY <1>1, <1>10
  <2> QED
    BY <1>1, <1>2, <1>6, <2>1
<1>12. ASSUME NEW n \in 0 .. Cities - 1, n \in S PROVE n + 1 \in S
  <2>1. n + 1 \in 0 .. Cities /\ n + 1 # 0 /\ (n + 1) - 1 = n
    BY <1>1
  <2>2. pass[n + 1] = B(pass[n])
    BY <1>10, <2>1
  <2> DEFINE p == pass[n]
  <2>3. p \in V /\ (Stops(p) \/ Len(p) = n + 1) /\ B(p) \in V
    BY <1>3, <1>12
  <2> HIDE DEF p
  <2>4. /\ Stops(p) => B(p) = p
        /\ ~Stops(p) => Len(B(p)) = Len(p) + 1
    BY <2>3, BackLeads DEF V, B
  <2> HIDE DEF Stops
  <2>5. Stops(B(p)) \/ Len(B(p)) = n + 1 + 1
    BY <2>3, <2>4
  <2> QED
    BY <2>1, <2>2, <2>3, <2>5 DEF p
<1> HIDE DEF S
<1>13. \A n \in 0 .. Cities : n \in S
  BY <1>1, <1>11, <1>12, InductionUpTo
<1>14. cities \in V /\ (Stops(cities) \/ Len(cities) = Cities + 1)
  BY <1>1, <1>13 DEF S
<1> HIDE DEF cities
<1>15. Leads(cities, s, dest)
  BY <1>14 DEF V
<1>16. Stops(cities)
  <2>1. Len(cities) <= Cities
    BY <1>15, LeadsIsShort
  <2> QED
    BY <1>1, <1>14, <2>1
<1>17. cities[1] = from
  <2>1. Head(cities) = cities[1] /\ cities[1] \in s.visit /\ cities[1] \in City
    BY <1>15 DEF Leads
  <2> QED
    BY <1>16, <2>1 DEF Knows
<1> QED
  BY <1>5, <1>15, <1>17

(* What is to be known of the rides found: they follow one another in time *)
(* and place from the start to the destination, each is a departure of the *)
(* timetable, and the last arrives within the limit.                       *)
Ride == [from : City, dest : City, depart : Nat, arrive : Nat]
InOrder(rides, startT) ==
    /\ rides \in Seq(Ride)
    /\ \A i \in 1 .. Len(rides) :
            startT <= rides[i].depart /\ rides[i].depart <= rides[i].arrive
    /\ \A i, j \in 1 .. Len(rides) : i < j => rides[i].arrive <= rides[j].depart
    /\ \A i \in 1 .. Len(rides) - 1 : rides[i].dest = rides[i + 1].from
Scheduled(rides, map) ==
    \A i \in 1 .. Len(rides) : \E k \in 1 .. Len(map[rides[i].from]) :
        LET d == map[rides[i].from][k]
        IN  /\ d.dest = rides[i].dest /\ d.start = rides[i].depart % Day
            /\ d.cost = rides[i].arrive - rides[i].depart
FromTo(rides, from, dest, startT, limit) ==
    rides # <<>> => /\ rides[1].from = from /\ rides[Len(rides)].dest = dest
                    /\ rides[Len(rides)].arrive - startT <= limit

LEMMA RouteSound ==
    ASSUME NEW map \in Timetable, NEW from \in City, NEW dest \in City, NEW startT \in Nat,
           NEW limit \in Nat
    PROVE  LET r == Rides(Search(map, from, dest, startT, limit), map, dest)
           IN  /\ InOrder(r, startT) /\ Scheduled(r, map)
               /\ FromTo(r, from, dest, startT, limit)
<1> DEFINE s == Search(map, from, dest, startT, limit)
           r == Rides(s, map, dest)
           at(c) == At(s, from, startT, c)
<1>1. Knows(s, map, from, startT, limit)
  BY SearchKnows
<1> HIDE DEF s
<1>2. CASE dest \notin s.visit
  <2>1. r = <<>>
    BY <1>2 DEF Rides
  <2>2. r \in Seq(Ride) /\ Len(r) = 0
    BY <2>1, EmptySeq
  <2> HIDE DEF r
  <2>3. InOrder(r, startT) /\ Scheduled(r, map)
    BY <2>2 DEF InOrder, Scheduled
  <2>4. FromTo(r, from, dest, startT, limit)
    BY <2>1 DEF FromTo
  <2> QED
    BY <2>3, <2>4 DEF r, s
<1>3. CASE dest \in s.visit
  <2>1. PICK p : Leads(p, s, dest) /\ p[1] = from /\ r = RidesOn(p, s, map)
    BY <1>1, <1>3, RidesAre
  <2> DEFINE n == Len(p) - 1
             cost(i) == map[p[i]][s.via[p[i + 1]]].cost
  <2>2. /\ p \in Seq(City) /\ n \in Nat /\ p[n + 1] = dest
        /\ \A i \in 1 .. n : /\ i \in 1 .. Len(p) /\ i + 1 \in 1 .. Len(p)
                             /\ p[i] \in City /\ p[i + 1] \in City
        /\ \A i \in 1 .. n : s.prev[p[i + 1]] # None
    <3>1. /\ p \in Seq(City) /\ Len(p) \in Nat /\ Len(p) >= 1 /\ p[Len(p)] = dest
          /\ \A i \in 1 .. n : s.prev[p[i + 1]] # None
      <4>1. /\ p \in Seq(City) /\ Len(p) >= 1 /\ p[Len(p)] = dest
            /\ \A i \in 1 .. Len(p) - 1 : s.prev[p[i + 1]] # None
        BY <2>1, Zenon DEF Leads
      <4> QED
        BY <4>1, LenProperties
    <3>2. n \in Nat /\ n + 1 = Len(p)
      BY <3>1
    <3>3. \A i \in 1 .. n : i \in 1 .. Len(p) /\ i + 1 \in 1 .. Len(p)
      BY <3>1
    <3> HIDE DEF n
    <3> QED
      BY <3>1, <3>2, <3>3
  <2>3. \A i \in 1 .. n :
            /\ Departs(s, map, p[i + 1], p[i], s.via[p[i + 1]])
            /\ at(p[i + 1]) = s.arrive[p[i + 1]]
            /\ at(p[i]) <= s.arrive[p[i + 1]] - cost(i)
            /\ cost(i) \in Nat \ {0}
            /\ at(p[i]) \in Nat /\ startT <= at(p[i]) /\ at(p[i + 1]) \in Nat
    BY <1>1, <2>1, <2>2, LeadsRises, SMTT(30)
  <2>4. \A i, j \in 1 .. Len(p) : i < j => at(p[i]) < at(p[j])
    BY <1>1, <2>1, LeadsRises
  <2> HIDE DEF r
  <2>5. Len(r) = n /\ DOMAIN r = 1 .. n
    BY <2>1, <2>2 DEF RidesOn
  <2>6. \A i \in 1 .. n :
            /\ r[i] = [from |-> p[i], dest |-> p[i + 1],
                       depart |-> s.arrive[p[i + 1]] - cost(i), arrive |-> s.arrive[p[i + 1]]]
            /\ r[i].from = p[i] /\ r[i].dest = p[i + 1]
            /\ r[i].depart = s.arrive[p[i + 1]] - cost(i) /\ r[i].arrive = s.arrive[p[i + 1]]
    <3> HIDE DEF n
    <3> QED
      BY <2>1 DEF RidesOn, n
  <2> HIDE DEF at, cost, n
  <2>7. ASSUME NEW i \in 1 .. n
        PROVE  /\ r[i] \in Ride /\ startT <= r[i].depart /\ r[i].depart <= r[i].arrive
               /\ at(p[i]) <= r[i].depart /\ r[i].arrive = at(p[i + 1])
               /\ r[i].depart \in Nat /\ r[i].arrive \in Nat
    <3>1. /\ r[i].depart = s.arrive[p[i + 1]] - cost(i) /\ r[i].arrive = s.arrive[p[i + 1]]
          /\ p[i] \in City /\ p[i + 1] \in City
      BY <2>2, <2>6
    <3>2. /\ at(p[i + 1]) = s.arrive[p[i + 1]] /\ at(p[i]) <= s.arrive[p[i + 1]] - cost(i)
          /\ cost(i) \in Nat \ {0} /\ at(p[i]) \in Nat /\ startT <= at(p[i])
          /\ at(p[i + 1]) \in Nat
      BY <2>3
    <3>3. /\ r[i].depart \in Nat /\ r[i].arrive \in Nat /\ at(p[i]) <= r[i].depart
          /\ startT <= r[i].depart /\ r[i].depart <= r[i].arrive /\ r[i].arrive = at(p[i + 1])
      BY <3>1, <3>2
    <3>4. r[i] = [from |-> p[i], dest |-> p[i + 1], depart |-> r[i].depart,
                  arrive |-> r[i].arrive]
      BY <2>6
    <3>5. r[i] \in Ride
      BY <3>1, <3>3, <3>4 DEF Ride
    <3> QED
      BY <3>3, <3>5
  <2>8. r \in Seq(Ride)
    <3>1. r = [i \in 1 .. n |-> r[i]]
      BY <2>1 DEF RidesOn, n
    <3> QED
      BY <2>2, <2>7, <3>1, SMTT(30)
  <2>9. ASSUME NEW i \in 1 .. n, NEW j \in 1 .. n, i < j
        PROVE  r[i].arrive <= r[j].depart
    <3>1. i + 1 \in 1 .. Len(p) /\ j \in 1 .. Len(p)
      BY <2>2
    <3>2. at(p[i + 1]) \in Nat /\ at(p[j]) \in Nat
      BY <2>3
    <3>3. at(p[i + 1]) <= at(p[j])
      <4>1. CASE i + 1 = j
        BY <3>2, <4>1
      <4>2. CASE i + 1 < j
        BY <2>4, <3>1, <3>2, <4>2
      <4> QED
        BY <2>2, <2>9, <4>1, <4>2
    <3> QED
      BY <2>7, <3>2, <3>3
  <2>10. \A i \in 1 .. n - 1 : r[i].dest = r[i + 1].from
    <3>1. \A i \in 1 .. n - 1 : i \in 1 .. n /\ i + 1 \in 1 .. n
      BY <2>2
    <3> QED
      BY <2>6, <3>1
  <2>11. InOrder(r, startT)
    BY <2>5, <2>7, <2>8, <2>9, <2>10 DEF InOrder
  <2>12. Scheduled(r, map)
    <3>1. ASSUME NEW i \in 1 .. n
          PROVE  \E k \in 1 .. Len(map[r[i].from]) :
                    /\ map[r[i].from][k].dest = r[i].dest
                    /\ map[r[i].from][k].start = r[i].depart % Day
                    /\ map[r[i].from][k].cost = r[i].arrive - r[i].depart
      <4> DEFINE k == s.via[p[i + 1]]
      <4>1. /\ k \in 1 .. Len(map[p[i]]) /\ map[p[i]][k].dest = p[i + 1]
            /\ (s.arrive[p[i + 1]] - map[p[i]][k].cost) % Day = map[p[i]][k].start
        BY <2>3 DEF Departs
      <4>2. map[p[i]][k].cost = cost(i)
        BY DEF cost
      <4>3. cost(i) \in Nat /\ s.arrive[p[i + 1]] \in Nat
        BY <2>3
      <4>4. s.arrive[p[i + 1]] - (s.arrive[p[i + 1]] - cost(i)) = cost(i)
        BY <4>3
      <4>5. /\ map[p[i]][k].start = r[i].depart % Day
            /\ map[p[i]][k].cost = r[i].arrive - r[i].depart
            /\ r[i].from = p[i] /\ r[i].dest = p[i + 1]
        BY <2>6, <4>1, <4>2, <4>4
      <4> HIDE DEF k
      <4> QED
        BY <4>1, <4>5
    <3> QED
      BY <2>5, <3>1 DEF Scheduled
  <2>13. FromTo(r, from, dest, startT, limit)
    <3>1. SUFFICES ASSUME r # <<>>
                   PROVE  /\ r[1].from = from /\ r[n].dest = dest
                          /\ r[n].arrive - startT <= limit
      BY <2>5 DEF FromTo
    <3>2. n \in 1 .. n /\ 1 \in 1 .. n
      <4>1. n # 0
        BY <2>5, <2>8, <3>1, EmptySeq
      <4> QED
        BY <2>2, <4>1
    <3>3. s.prev[p[n + 1]] # None /\ p[n + 1] \in City
      BY <2>2, <3>2
    <3>4. s.arrive[p[n + 1]] <= startT + limit
      BY <1>1, <3>3 DEF Knows, Hangs
    <3>5. r[n].arrive = s.arrive[p[n + 1]] /\ r[n].arrive \in Nat
      BY <2>6, <2>7, <3>2
    <3>6. r[n].arrive - startT <= limit
      BY <3>4, <3>5
    <3> QED
      BY <2>1, <2>2, <2>6, <3>2, <3>6
  <2> QED
    BY <2>11, <2>12, <2>13 DEF r, s
<1> QED
  BY <1>2, <1>3

-----------------------------------------------------------------------------
(* Without a limit the search comes to every city that can be reached.     *)
(* No ride is so risky or so long that it is refused (Low), and one is at  *)
(* a city no later than INF lets it be (Soon).                             *)
Margin == INF \div Cities
Low(map) == \A c \in City : \A i \in 1 .. Len(map[c]) :
    /\ Day * Factor[c] + 90 * map[c][i].cost < INF
    /\ Cities * (Day + map[c][i].cost) <= INF
Soon(s, startT, n) == \A c \in City : s.prev[c] # None => s.arrive[c] <= startT + n * Margin
Offered(s, map, c, k) ==
    \A i \in 1 .. k : map[c][i].dest \in s.visit \/ s.risks[map[c][i].dest] < INF
Closed(C, map) == \A c \in C : \A i \in 1 .. Len(map[c]) : map[c][i].dest \in C

LEMMA Quotient ==
    ASSUME NEW n \in Nat \ {0}, NEW m \in Nat
    PROVE  /\ m \div n \in Nat /\ n * (m \div n) <= m
           /\ \A x \in Nat : n * x <= m => x <= m \div n
<1> DEFINE q == m \div n
           r == m % n
<1>1. q \in Nat /\ r \in 0 .. n - 1 /\ m = n * q + r
  OBVIOUS
<1> HIDE DEF q, r
<1>2. n * q \in Nat /\ n * q <= m /\ m < n * q + n
  BY <1>1
<1>3. ASSUME NEW x \in Nat, n * x <= m, x > q PROVE FALSE
  <2>1. x >= q + 1
    BY <1>1, <1>3
  <2>2. n * x >= n * (q + 1) /\ n * (q + 1) = n * q + n /\ n * x \in Nat
    BY <1>1, <2>1
  <2> QED
    BY <1>2, <1>3, <2>2
<1>4. \A x \in Nat : n * x <= m => x <= q
  BY <1>1, <1>3
<1> QED
  BY <1>1, <1>2, <1>4 DEF q

LEMMA MarginIs ==
    /\ Margin \in Nat
    /\ \A n \in 0 .. Cities : n * Margin \in Nat /\ n * Margin <= INF
<1>1. Cities \in Nat \ {0} /\ INF \in Nat
  BY TravelAssumption DEF INF
<1>2. Margin \in Nat /\ Cities * Margin <= INF
  BY <1>1, Quotient DEF Margin
<1>3. ASSUME NEW n \in 0 .. Cities PROVE n * Margin \in Nat /\ n * Margin <= INF
  <2>1. n * Margin <= Cities * Margin /\ n * Margin \in Nat /\ Cities * Margin \in Nat
    BY <1>1, <1>2
  <2> QED
    BY <1>1, <1>2, <2>1
<1> QED
  BY <1>2, <1>3

(* What a ride costs of risk and time.                                     *)
LEMMA RideLow ==
    ASSUME NEW map \in Timetable, Low(map), NEW c \in City, NEW i \in 1 .. Len(map[c]),
           NEW at \in Nat
    PROVE  LET wait == RealStartTime(map[c][i], at) - at
           IN  /\ wait \in Nat /\ wait + map[c][i].cost <= Margin
               /\ FirstRisk(c, wait, map[c][i]) \in Nat /\ FirstRisk(c, wait, map[c][i]) < INF
               /\ LaterRisk(c, wait, map[c][i]) \in Nat /\ LaterRisk(c, wait, map[c][i]) < INF
<1> DEFINE r == map[c][i]
           wait == RealStartTime(r, at) - at
           cost == r.cost
           f == Factor[c]
           short == Shortfall(c, wait)
           risk == RISK[r.type]
<1>1. r \in Departure /\ cost \in Nat /\ r.type \in 1 .. 3 /\ r.start \in 0 .. Day - 1
  BY DepartureIs
<1>2. Day \in Nat \ {0} /\ Hour \in Nat \ {0} /\ f \in Nat /\ Cities \in Nat \ {0} /\ INF \in Nat
  BY TravelAssumption DEF City, INF
<1>3. Day * f + 90 * cost < INF /\ Cities * (Day + cost) <= INF
  BY DEF Low
<1> HIDE DEF r
<1>4. RealStartTime(r, at) \in Nat /\ at <= RealStartTime(r, at)
  BY <1>1, RealStart
<1>5. RealStartTime(r, at) <= at + Day - 1
  <2>1. r.start \in Int /\ at \in Int /\ (r.start - at) % Day \in 0 .. Day - 1
    BY <1>1, <1>2
  <2>2. CASE r.start >= at
    BY <1>1, <1>2, <2>2 DEF RealStartTime
  <2>3. CASE ~(r.start >= at)
    <3>1. RealStartTime(r, at) = at + ((r.start - at) % Day)
      BY <2>3 DEF RealStartTime
    <3> DEFINE x == (r.start - at) % Day
    <3> HIDE DEF x
    <3> QED
      BY <1>2, <2>1, <3>1 DEF x
  <2> QED
    BY <2>2, <2>3
<1>6. FirstRisk(c, wait, r) \in Nat /\ LaterRisk(c, wait, r) \in Nat /\ wait \in Nat /\ wait <= Day
  <2> DEFINE z == RealStartTime(r, at)
  <2>1. z \in Nat /\ at <= z /\ z <= at + Day - 1 /\ wait = z - at
    BY <1>4, <1>5
  <2> HIDE DEF z, wait
  <2>2. wait \in Nat /\ wait <= Day
    BY <1>2, <2>1
  <2> QED
    BY <1>1, <2>2, RisksAre
<1>7. wait + cost <= Margin
  <2> HIDE DEF wait, cost
  <2>1. Day + cost <= Margin
    <3> DEFINE x == Day + cost
    <3>1. x \in Nat /\ Cities * x <= INF
      BY <1>1, <1>2, <1>3
    <3> HIDE DEF x
    <3>2. x <= INF \div Cities
      BY <1>2, <3>1, Quotient
    <3> QED
      BY <3>2 DEF x, Margin
  <2>2. Margin \in Nat
    BY MarginIs
  <2> QED
    BY <1>1, <1>2, <1>6, <2>1, <2>2
<1>8. risk \in 0 .. 9 /\ short \in 0 .. 1
  BY <1>1 DEF RISK, Shortfall
<1>9. FirstRisk(c, wait, r) = (wait * f - short + 10 * Hour * (cost \div Hour) * risk)
                                  \div (10 * Hour)
  BY DEF FirstRisk
<1>10. LaterRisk(c, wait, r) = (wait * f - short + 10 * cost * risk) \div (10 * Hour)
  BY DEF LaterRisk
<1> HIDE DEF wait, cost, f, short, risk
<1>11. wait * f <= Day * f /\ wait * f \in Nat /\ Day * f \in Nat
  BY <1>2, <1>6
<1> DEFINE hours == cost \div Hour
<1>12. Hour * hours \in Nat /\ Hour * hours <= cost /\ hours \in Nat
  BY <1>1, <1>2, Quotient
<1> HIDE DEF hours
<1>13. ASSUME NEW x \in Nat, x <= cost
       PROVE  10 * x * risk \in Nat /\ 10 * x * risk <= 90 * cost
  <2>1. x * risk <= x * 9 /\ x * risk \in Nat
    BY <1>8
  <2>2. 10 * x * risk = 10 * (x * risk)
    BY <1>8
  <2> QED
    BY <1>1, <1>13, <2>1, <2>2
<1>14. ASSUME NEW y \in Nat, y <= 90 * cost, (wait * f - short + y) \div (10 * Hour) \in Nat
       PROVE  (wait * f - short + y) \div (10 * Hour) < INF
  <2> DEFINE z == wait * f - short + y
             t == 10 * Hour
             d == z \div t
  <2> DEFINE v == wait * f
             u == Day * f
  <2>0. v \in Nat /\ u \in Nat /\ v <= u /\ u + 90 * cost < INF
    BY <1>3, <1>11
  <2> HIDE DEF u, v
  <2>1. z \in Int /\ z < INF
    <3>1. v - short + y \in Int /\ v - short + y < INF
      BY <1>1, <1>2, <1>8, <1>14, <2>0
    <3> QED
      BY <3>1 DEF v
  <2>2. t \in Nat \ {0}
    BY <1>2
  <2> HIDE DEF z, t
  <2>3. z = t * d + (z % t) /\ z % t \in 0 .. t - 1 /\ d \in Int
    BY <2>1, <2>2
  <2>4. d \in Nat
    BY <1>14 DEF z, t
  <2> HIDE DEF d
  <2>5. t * d >= d
    BY <2>2, <2>4
  <2>6. d < INF
    BY <1>2, <2>1, <2>2, <2>3, <2>4, <2>5
  <2> QED
    BY <2>6 DEF d, z, t
<1>15. FirstRisk(c, wait, r) < INF
  <2> DEFINE x == Hour * hours
             y == 10 * x * risk
  <2>1. x \in Nat /\ x <= cost
    BY <1>12
  <2>2. 10 * Hour * hours * risk = y
    BY <1>2, <1>8, <1>12
  <2> HIDE DEF x
  <2>3. y \in Nat /\ y <= 90 * cost
    BY <1>13, <2>1
  <2> HIDE DEF y
  <2>4. FirstRisk(c, wait, r) = (wait * f - short + y) \div (10 * Hour)
    BY <1>9, <2>2 DEF hours
  <2> QED
    BY <1>6, <1>14, <2>3, <2>4
<1>16. LaterRisk(c, wait, r) < INF
  <2> DEFINE y == 10 * cost * risk
  <2>1. y \in Nat /\ y <= 90 * cost
    BY <1>1, <1>13
  <2> HIDE DEF y
  <2>2. LaterRisk(c, wait, r) = (wait * f - short + y) \div (10 * Hour)
    BY <1>10 DEF y
  <2> QED
    BY <1>6, <1>14, <2>1, <2>2
<1> QED
  BY <1>6, <1>7, <1>15, <1>16 DEF wait, r, cost

(* A departure that is offered leaves its city open or taken, and delays   *)
(* no other city.                                                          *)
LEMMA OfferReaches ==
    ASSUME NEW map \in Timetable, Low(map), NEW startT \in Nat, NEW s \in SearchState,
           NEW city \in City, NEW i \in 1 .. Len(map[city]), NEW at \in Nat,
           NEW n \in Nat, n + 1 <= Cities, startT <= at, at <= startT + n * Margin,
           Soon(s, startT, n + 1), NEW risk \in Nat, risk < INF
    PROVE  LET t == Offer(s, map, city, i, at, startT, INF, risk)
           IN  /\ t.done = s.done /\ t.risks[map[city][i].dest] < INF
               /\ \A c \in City : t.risks[c] <= s.risks[c]
               /\ Soon(t, startT, n + 1)
<1> DEFINE route == map[city][i]
           d == route.dest
           cost == route.cost
           wait == RealStartTime(route, at) - at
           a == at + wait + cost
           t == [s EXCEPT !.risks[d] = risk, !.prev[d] = city, !.via[d] = i, !.arrive[d] = a]
           o == Offer(s, map, city, i, at, startT, INF, risk)
<1>1. d \in City /\ cost \in Nat
  BY DepartureIs
<1>2. wait \in Nat /\ wait + cost <= Margin
  BY RideLow
<1>3. o = IF wait + at + cost - startT <= INF /\ risk < s.risks[d] THEN t ELSE s
  BY DEF Offer
<1>4. s.risks \in [City -> Nat] /\ INF \in Nat /\ s.prev \in [City -> 0 .. Cities]
      /\ s.arrive \in [City -> Nat]
  BY DEF SearchState, INF
<1> HIDE DEF route, d, cost, wait
<1>5. a <= startT + (n + 1) * Margin /\ wait + at + cost - startT <= INF /\ a \in Nat
  <2> DEFINE x == n * Margin
             y == (n + 1) * Margin
  <2>1. y \in Nat /\ y <= INF /\ Margin \in Nat
    <3>1. n + 1 \in 0 .. Cities
      BY TravelAssumption
    <3> QED
      BY <3>1, MarginIs
  <2>2. x \in Nat /\ y = x + Margin
    BY <2>1
  <2> HIDE DEF x, y
  <2>3. at <= startT + x
    BY DEF x
  <2>4. a <= startT + y /\ wait + at + cost - startT <= INF /\ a \in Nat
    BY <1>1, <1>2, <1>4, <2>1, <2>2, <2>3
  <2> QED
    BY <2>4 DEF y
<1> HIDE DEF a
<1>6. CASE risk < s.risks[d]
  <2>1. o = t
    BY <1>3, <1>5, <1>6
  <2>2. /\ t.done = s.done /\ t.risks = [s.risks EXCEPT ![d] = risk]
        /\ t.prev = [s.prev EXCEPT ![d] = city] /\ t.arrive = [s.arrive EXCEPT ![d] = a]
    BY DEF SearchState
  <2> HIDE DEF t, o
  <2>3. o.risks[d] < INF /\ \A c \in City : o.risks[c] <= s.risks[c]
    <3>1. o.risks[d] = risk /\ \A c \in City \ {d} : o.risks[c] = s.risks[c]
      BY <1>1, <1>4, <2>1, <2>2
    <3>2. \A c \in City : s.risks[c] \in Nat
      BY <1>4
    <3> QED
      BY <1>1, <1>6, <3>1, <3>2
  <2>4. ASSUME NEW c \in City, o.prev[c] # None PROVE o.arrive[c] <= startT + (n + 1) * Margin
    <3>1. CASE c = d
      BY <1>1, <1>4, <1>5, <2>1, <2>2, <3>1
    <3>2. CASE c # d
      <4>1. s.prev[c] # None /\ o.arrive[c] = s.arrive[c]
        BY <1>1, <1>4, <2>1, <2>2, <2>4, <3>2
      <4> QED
        BY <4>1 DEF Soon
    <3> QED
      BY <3>1, <3>2
  <2>5. Soon(o, startT, n + 1)
    BY <2>4 DEF Soon
  <2> QED
    BY <2>1, <2>2, <2>3, <2>5 DEF o, d, route
<1>7. CASE ~(risk < s.risks[d])
  <2>1. o = s
    BY <1>3, <1>7
  <2>2. s.risks[d] < INF /\ \A c \in City : s.risks[c] <= s.risks[c]
    BY <1>1, <1>4, <1>7
  <2> QED
    BY <2>1, <2>2 DEF o, d, route
<1> QED
  BY <1>6, <1>7

LEMMA FromStartReaches ==
    ASSUME NEW map \in Timetable, Low(map), NEW from \in City, NEW startT \in Nat
    PROVE  LET t == FromStart(map, from, startT, INF)
           IN  /\ t.visit = {from} /\ ~t.done /\ Soon(t, startT, 1)
               /\ Offered(t, map, from, Len(map[from]))
<1> DEFINE n == Len(map[from])
           wait(k) == RealStartTime(map[from][k], startT) - startT
           risk(k) == FirstRisk(from, wait(k), map[from][k])
           K(t) == Knows(t, map, from, startT, INF)
           Good(t, k) == ~t.done /\ Soon(t, startT, 1) /\ Offered(t, map, from, k)
<1>1. n \in Nat /\ INF \in Nat
  BY DEF Timetable, INF
<1>2. PICK h :
            /\ h[0] = Blank(from) /\ h[n] = FromStart(map, from, startT, INF)
            /\ \A k \in 0 .. n : K(h[k]) /\ h[k].visit = {from}
            /\ \A k \in 1 .. n :
                    h[k] = Offer(h[k - 1], map, from, k, startT, startT, INF, risk(k))
  <2>1. PICK h : ArePasses(h, map, from, startT, INF)
    BY <1>1, FromStartPasses
  <2> QED
    BY <2>1 DEF ArePasses
<1>3. ASSUME NEW k \in 1 .. n PROVE risk(k) \in Nat /\ risk(k) < INF
  BY RideLow
<1> HIDE DEF risk
<1> DEFINE S == {k \in 0 .. n : Good(h[k], k)}
<1>4. 0 \in S
  <2>1. ~h[0].done /\ \A c \in City : h[0].prev[c] = None
    BY <1>2 DEF Blank
  <2>2. Soon(h[0], startT, 1) /\ Offered(h[0], map, from, 0)
    BY <2>1 DEF Soon, Offered
  <2> QED
    BY <1>1, <2>1, <2>2
<1>5. ASSUME NEW k \in 0 .. n - 1, k \in S PROVE k + 1 \in S
  <2> DEFINE i == k + 1
             s == h[k]
             t == h[i]
  <2>1. i \in 1 .. n /\ i \in 0 .. n /\ k \in 0 .. n /\ i - 1 = k
    BY <1>1
  <2>2. t = Offer(s, map, from, i, startT, startT, INF, risk(i))
    BY <1>2, <2>1
  <2>3. K(s) /\ K(t) /\ s.visit = {from} /\ t.visit = {from}
    BY <1>2, <2>1
  <2>4. s \in SearchState /\ t \in SearchState
    BY <2>3 DEF Knows
  <2>5. ~s.done /\ Soon(s, startT, 1) /\ Offered(s, map, from, k)
    BY <1>5
  <2> HIDE DEF i, s, t, K, n, wait
  <2>6. /\ t.done = s.done /\ t.risks[map[from][i].dest] < INF
        /\ \A c \in City : t.risks[c] <= s.risks[c]
        /\ Soon(t, startT, 1)
    <3>1. 0 \in Nat /\ 0 + 1 = 1 /\ 1 <= Cities /\ startT <= startT
          /\ startT <= startT + 0 * Margin
      BY TravelAssumption, MarginIs
    <3>2. i \in 1 .. Len(map[from]) /\ risk(i) \in Nat /\ risk(i) < INF
      BY <1>3, <2>1 DEF n
    <3> DEFINE o == Offer(s, map, from, i, startT, startT, INF, risk(i))
               m == 0
    <3>3. /\ m \in Nat /\ m + 1 <= Cities /\ startT <= startT + m * Margin
          /\ Soon(s, startT, m + 1) /\ m + 1 = 1
      BY <2>5, <3>1
    <3> HIDE DEF m
    <3>4. /\ o.done = s.done /\ o.risks[map[from][i].dest] < INF
          /\ \A c \in City : o.risks[c] <= s.risks[c]
          /\ Soon(o, startT, m + 1)
      BY <2>4, <3>1, <3>2, <3>3, OfferReaches
    <3> HIDE DEF o
    <3> QED
      BY <2>2, <3>3, <3>4 DEF o
  <2>7. ASSUME NEW j \in 1 .. i
        PROVE  map[from][j].dest \in t.visit \/ t.risks[map[from][j].dest] < INF
    <3>1. CASE j = i
      BY <2>6, <3>1
    <3>2. CASE j # i
      <4>1. j \in 1 .. k /\ j \in 1 .. Len(map[from])
        BY <1>1, <2>1, <3>2 DEF n
      <4> DEFINE d == map[from][j].dest
      <4>2. d \in City
        BY <4>1, DepartureIs
      <4>3. d \in s.visit \/ s.risks[d] < INF
        BY <2>5, <4>1 DEF Offered
      <4> HIDE DEF d
      <4>4. t.risks[d] <= s.risks[d] /\ t.risks[d] \in Nat /\ s.risks[d] \in Nat
        BY <2>4, <2>6, <4>2 DEF SearchState
      <4>5. d \in t.visit \/ t.risks[d] < INF
        BY <1>1, <2>3, <4>3, <4>4
      <4> QED
        BY <4>5 DEF d
    <3> QED
      BY <3>1, <3>2
  <2>8. Good(t, i)
    BY <2>5, <2>6, <2>7 DEF Offered
  <2> QED
    BY <2>1, <2>8 DEF t, i
<1> HIDE DEF S
<1>6. \A k \in 0 .. n : k \in S
  BY <1>1, <1>4, <1>5, InductionUpTo
<1>7. Good(h[n], n) /\ h[n].visit = {from}
  <2>1. n \in 0 .. n
    BY <1>1
  <2> QED
    BY <1>2, <1>6, <2>1 DEF S
<1> QED
  BY <1>2, <1>7

LEMMA FromCityReaches ==
    ASSUME NEW map \in Timetable, Low(map), NEW from \in City, NEW startT \in Nat,
           NEW s, Knows(s, map, from, startT, INF), NEW city \in s.visit, city # from,
           NEW m \in Nat, m + 1 <= Cities, s.arrive[city] <= startT + m * Margin,
           Soon(s, startT, m + 1)
    PROVE  LET t == FromCity(s, map, city, startT, INF)
           IN  /\ t.visit = s.visit /\ t.done = s.done /\ Soon(t, startT, m + 1)
               /\ \A c \in City : t.risks[c] <= s.risks[c]
               /\ Offered(t, map, city, Len(map[city]))
<1> DEFINE n == Len(map[city])
           at == s.arrive[city]
           wait(k) == RealStartTime(map[city][k], at) - at
           risk(k) == LaterRisk(city, wait(k), map[city][k])
           K(t) == Knows(t, map, from, startT, INF)
           Good(t, k) == /\ t.done = s.done /\ Soon(t, startT, m + 1)
                         /\ \A c \in City : t.risks[c] <= s.risks[c]
                         /\ Offered(t, map, city, k)
<1>0. city \in City /\ s \in SearchState /\ at \in Nat /\ startT <= at
  <2>1. city \in City /\ s \in SearchState
    BY DEF Knows, SearchState
  <2>2. at \in Nat
    BY <2>1 DEF SearchState
  <2>3. Hangs(s, map, from, startT, INF, city)
    BY <2>1 DEF Knows
  <2> QED
    BY <2>1, <2>2, <2>3 DEF Hangs
<1>1. n \in Nat /\ INF \in Nat
  BY <1>0 DEF Timetable, INF
<1>2. PICK h :
            /\ h[0] = s /\ h[n] = FromCity(s, map, city, startT, INF)
            /\ \A k \in 0 .. n : K(h[k]) /\ h[k].visit = s.visit
            /\ \A k \in 1 .. n :
                    h[k] = IF map[city][k].dest \in h[k - 1].visit THEN h[k - 1]
                           ELSE Offer(h[k - 1], map, city, k, at, startT, INF, risk(k))
  <2>1. PICK h : AreCityPasses(h, s, map, city, from, startT, INF)
    BY <1>1, FromCityPasses
  <2> QED
    BY <2>1 DEF AreCityPasses
<1>3. ASSUME NEW k \in 1 .. n PROVE risk(k) \in Nat /\ risk(k) < INF
  BY <1>0, RideLow
<1> HIDE DEF risk
<1> DEFINE S == {k \in 0 .. n : Good(h[k], k)}
<1>4. 0 \in S
  <2>1. s.risks \in [City -> Nat]
    BY <1>0 DEF SearchState
  <2>2. \A c \in City : s.risks[c] <= s.risks[c]
    BY <2>1
  <2>3. Offered(s, map, city, 0)
    BY DEF Offered
  <2> QED
    BY <1>1, <1>2, <2>2, <2>3
<1>5. ASSUME NEW k \in 0 .. n - 1, k \in S PROVE k + 1 \in S
  <2> DEFINE i == k + 1
             u == h[k]
             t == h[i]
  <2>1. i \in 1 .. n /\ i \in 0 .. n /\ k \in 0 .. n /\ i - 1 = k
    BY <1>1
  <2>2. t = IF map[city][i].dest \in u.visit THEN u
            ELSE Offer(u, map, city, i, at, startT, INF, risk(i))
    BY <1>2, <2>1
  <2>3. K(u) /\ K(t) /\ u.visit = s.visit /\ t.visit = s.visit
    BY <1>2, <2>1
  <2>4. u \in SearchState /\ t \in SearchState
    BY <2>3 DEF Knows
  <2>5. /\ u.done = s.done /\ Soon(u, startT, m + 1) /\ Offered(u, map, city, k)
        /\ \A c \in City : u.risks[c] <= s.risks[c]
    BY <1>5
  <2>5a. i \in 1 .. Len(map[city]) /\ map[city][i].dest \in City
    BY <1>0, <2>1, DepartureIs
  <2> HIDE DEF i, u, t, K, n, wait
  <2>6. /\ t.done = u.done /\ Soon(t, startT, m + 1)
        /\ map[city][i].dest \in t.visit \/ t.risks[map[city][i].dest] < INF
        /\ \A c \in City : t.risks[c] <= u.risks[c]
    <3>1. CASE map[city][i].dest \in u.visit
      <4>1. \A c \in City : u.risks[c] \in Nat
        BY <2>4 DEF SearchState
      <4> QED
        BY <2>2, <2>5, <3>1, <4>1
    <3>2. CASE map[city][i].dest \notin u.visit
      <4>1. risk(i) \in Nat /\ risk(i) < INF
        BY <1>3, <2>1
      <4>2. t = Offer(u, map, city, i, at, startT, INF, risk(i))
        BY <2>2, <3>2
      <4> HIDE DEF at
      <4>3. at <= startT + m * Margin
        BY DEF at
      <4> DEFINE o == Offer(u, map, city, i, at, startT, INF, risk(i))
      <4>4. /\ o.done = u.done /\ o.risks[map[city][i].dest] < INF
            /\ \A c \in City : o.risks[c] <= u.risks[c]
            /\ Soon(o, startT, m + 1)
        BY <1>0, <2>4, <2>5, <2>5a, <4>1, <4>3, OfferReaches
      <4> HIDE DEF o
      <4> QED
        BY <4>2, <4>4 DEF o
    <3> QED
      BY <3>1, <3>2
  <2>7. ASSUME NEW j \in 1 .. i
        PROVE  map[city][j].dest \in t.visit \/ t.risks[map[city][j].dest] < INF
    <3>1. CASE j = i
      BY <2>6, <3>1
    <3>2. CASE j # i
      <4>1. j \in 1 .. k /\ j \in 1 .. Len(map[city])
        BY <1>1, <2>1, <3>2 DEF n
      <4> DEFINE d == map[city][j].dest
      <4>2. d \in City
        BY <1>0, <4>1, DepartureIs
      <4>3. d \in u.visit \/ u.risks[d] < INF
        BY <2>5, <4>1 DEF Offered
      <4> HIDE DEF d
      <4>4. t.risks[d] <= u.risks[d] /\ t.risks[d] \in Nat /\ u.risks[d] \in Nat
        BY <2>4, <2>6, <4>2 DEF SearchState
      <4>5. d \in t.visit \/ t.risks[d] < INF
        BY <1>1, <2>3, <4>3, <4>4
      <4> QED
        BY <4>5 DEF d
    <3> QED
      BY <3>1, <3>2
  <2>8. ASSUME NEW c \in City PROVE t.risks[c] <= s.risks[c]
    <3>1. t.risks[c] \in Nat /\ u.risks[c] \in Nat /\ s.risks[c] \in Nat
      BY <1>0, <2>4 DEF SearchState
    <3>2. t.risks[c] <= u.risks[c] /\ u.risks[c] <= s.risks[c]
      BY <2>5, <2>6
    <3> QED
      BY <3>1, <3>2
  <2>9. Good(t, i)
    BY <2>5, <2>6, <2>7, <2>8 DEF Offered
  <2> QED
    BY <2>1, <2>9 DEF t, i
<1> HIDE DEF S
<1>6. \A k \in 0 .. n : k \in S
  BY <1>1, <1>4, <1>5, InductionUpTo
<1>7. Good(h[n], n) /\ h[n].visit = s.visit
  <2>1. n \in 0 .. n
    BY <1>1
  <2> QED
    BY <1>2, <1>6, <2>1 DEF S
<1> QED
  BY <1>2, <1>7

(* A round takes one more city, or the search is over: the destination is  *)
(* taken, or no departure leads out of the cities that are.                *)
Sought(s, map, startT, dest, n) ==
    IF s.done THEN dest \in s.visit \/ Closed(s.visit, map)
    ELSE /\ Cardinality(s.visit) = n + 1 /\ Soon(s, startT, n + 1)
         /\ \A c \in s.visit : Offered(s, map, c, Len(map[c]))

LEMMA CitiesFinite ==
    /\ Cities \in Nat \ {0} /\ IsFiniteSet(City) /\ Cardinality(City) = Cities
    /\ \A C \in SUBSET City : /\ IsFiniteSet(C) /\ Cardinality(C) \in Nat
                              /\ Cardinality(C) <= Cities
<1>1. Cities \in Nat \ {0} /\ Cities \in Int /\ 1 \in Int
  BY TravelAssumption
<1>2. /\ IsFiniteSet(1 .. Cities)
      /\ Cardinality(1 .. Cities) = IF 1 > Cities THEN 0 ELSE Cities - 1 + 1
  BY <1>1, FS_Interval
<1>3. IsFiniteSet(City) /\ Cardinality(City) = Cities
  BY <1>1, <1>2 DEF City
<1>4. ASSUME NEW C \in SUBSET City
      PROVE  IsFiniteSet(C) /\ Cardinality(C) \in Nat /\ Cardinality(C) <= Cities
  <2>1. IsFiniteSet(C) /\ Cardinality(C) <= Cardinality(City)
    BY <1>3, FS_Subset
  <2> QED
    BY <1>3, <2>1, FS_CardinalityType
<1> QED
  BY <1>1, <1>3, <1>4

LEMMA ExpandReaches ==
    ASSUME NEW map \in Timetable, Low(map), NEW from \in City, NEW dest, NEW startT \in Nat,
           NEW s, Knows(s, map, from, startT, INF),
           NEW n \in Nat, Sought(s, map, startT, dest, n)
    PROVE  Sought(Expand(s, map, dest, startT, INF), map, startT, dest, n + 1)
<1> DEFINE r == Expand(s, map, dest, startT, INF)
           Q(t) == Sought(t, map, startT, dest, n + 1)
<1>1. s \in SearchState /\ s.visit \in SUBSET City /\ s.risks \in [City -> Nat] /\ INF \in Nat
  BY DEF Knows, SearchState, INF
<1>2. \/ (s.done \/ Open(s) = {}) /\ r = [s EXCEPT !.done = TRUE]
      \/ \E c \in Open(s) : /\ ~s.done
                            /\ \/ c = dest /\ r = [Taken(s, c) EXCEPT !.done = TRUE]
                               \/ r = FromCity(Taken(s, c), map, c, startT, INF)
  BY <1>1, ExpandIs
<1> HIDE DEF r
<1>3. ASSUME s.done \/ Open(s) = {}, r = [s EXCEPT !.done = TRUE]
      PROVE  Q(r)
  <2>1. r.visit = s.visit /\ r.done
    BY <1>1, <1>3 DEF SearchState
  <2>2. dest \in s.visit \/ Closed(s.visit, map)
    <3>1. CASE s.done
      BY <3>1 DEF Sought
    <3>2. CASE ~s.done
      <4>1. ASSUME NEW c \in s.visit, NEW i \in 1 .. Len(map[c]) PROVE map[c][i].dest \in s.visit
        <5>1. c \in City /\ map[c][i].dest \in City
          BY <1>1, DepartureIs
        <5>2. map[c][i].dest \in s.visit \/ s.risks[map[c][i].dest] < INF
          BY <3>2 DEF Sought, Offered
        <5> QED
          BY <1>3, <3>2, <5>1, <5>2 DEF Open
      <4> QED
        BY <4>1 DEF Closed
    <3> QED
      BY <3>1, <3>2
  <2> QED
    BY <2>1, <2>2 DEF Sought
<1>4. ASSUME NEW c \in Open(s), ~s.done,
             \/ c = dest /\ r = [Taken(s, c) EXCEPT !.done = TRUE]
             \/ r = FromCity(Taken(s, c), map, c, startT, INF)
      PROVE  Q(r)
  <2> DEFINE t == Taken(s, c)
  <2>1. /\ Knows(t, map, from, startT, INF) /\ c # from /\ c \in t.visit
        /\ t.visit = s.visit \cup {c} /\ t.risks = s.risks /\ t.prev = s.prev
        /\ t.arrive = s.arrive /\ t.done = s.done
    BY <1>1, TakenKnows
  <2>2. c \in City /\ c \notin s.visit /\ s.risks[c] < INF
    BY DEF Open
  <2>3. /\ Cardinality(s.visit) = n + 1 /\ Soon(s, startT, n + 1)
        /\ \A b \in s.visit : Offered(s, map, b, Len(map[b]))
    BY <1>4 DEF Sought
  <2> HIDE DEF t
  <2>4. CASE c = dest /\ r = [t EXCEPT !.done = TRUE]
    <3>1. t \in SearchState
      BY <2>1 DEF Knows
    <3>2. r.visit = t.visit /\ r.done
      BY <2>4, <3>1 DEF SearchState
    <3> QED
      BY <2>1, <2>4, <3>2 DEF Sought
  <2>5. CASE r = FromCity(t, map, c, startT, INF)
    <3>1. Cardinality(t.visit) = n + 1 + 1 /\ n + 1 + 1 <= Cities
      <4>1. IsFiniteSet(s.visit)
        BY <1>1, CitiesFinite
      <4>2. Cardinality(s.visit \cup {c}) = Cardinality(s.visit) + 1
        BY <2>2, <4>1, FS_AddElement
      <4>3. s.visit \cup {c} \in SUBSET City
        BY <1>1, <2>2
      <4>4. Cardinality(s.visit \cup {c}) <= Cities
        BY <4>3, CitiesFinite
      <4> QED
        BY <2>1, <2>3, <4>2, <4>4
    <3>2. t.arrive[c] <= startT + (n + 1) * Margin
      <4>1. s.prev[c] # None
        BY <2>1, <2>2 DEF Knows
      <4> QED
        BY <2>1, <2>2, <2>3, <4>1 DEF Soon
    <3>3. Soon(t, startT, n + 1 + 1)
      <4>1. ASSUME NEW b \in City, t.prev[b] # None
            PROVE  t.arrive[b] <= startT + (n + 1 + 1) * Margin
        <5>1. s.arrive[b] <= startT + (n + 1) * Margin /\ s.arrive[b] \in Nat
          BY <1>1, <2>1, <2>3, <4>1 DEF Soon, SearchState
        <5>2. (n + 1 + 1) * Margin = (n + 1) * Margin + Margin
              /\ (n + 1) * Margin \in Nat /\ Margin \in Nat
          BY MarginIs
        <5> QED
          BY <2>1, <5>1, <5>2
      <4> QED
        BY <4>1 DEF Soon
    <3>4. /\ r.visit = t.visit /\ r.done = t.done /\ Soon(r, startT, n + 1 + 1)
          /\ \A b \in City : r.risks[b] <= t.risks[b]
          /\ Offered(r, map, c, Len(map[c]))
      <4>1. n + 1 \in Nat
        OBVIOUS
      <4> QED
        BY <2>1, <2>5, <3>1, <3>2, <3>3, <4>1, FromCityReaches
    <3>5. r \in SearchState
      <4>1. Knows(r, map, from, startT, INF)
        BY <1>1, <2>1, <2>5, FromCityKnows
      <4> QED
        BY <4>1 DEF Knows
    <3>6. ASSUME NEW b \in r.visit PROVE Offered(r, map, b, Len(map[b]))
      <4>1. CASE b = c
        BY <3>4, <4>1
      <4>2. CASE b # c
        <5>1. b \in s.visit /\ b \in City
          BY <1>1, <2>1, <3>4, <4>2
        <5>2. ASSUME NEW i \in 1 .. Len(map[b])
              PROVE  map[b][i].dest \in r.visit \/ r.risks[map[b][i].dest] < INF
          <6> DEFINE d == map[b][i].dest
          <6>1. d \in City
            BY <5>1, DepartureIs
          <6>2. d \in s.visit \/ s.risks[d] < INF
            BY <2>3, <5>1 DEF Offered
          <6> HIDE DEF d
          <6>3. r.risks[d] <= s.risks[d] /\ r.risks[d] \in Nat /\ s.risks[d] \in Nat
            BY <1>1, <2>1, <3>4, <3>5, <6>1 DEF SearchState
          <6>4. d \in r.visit \/ r.risks[d] < INF
            BY <1>1, <2>1, <3>4, <6>2, <6>3
          <6> QED
            BY <6>4 DEF d
        <5> QED
          BY <5>2 DEF Offered
      <4> QED
        BY <4>1, <4>2
    <3>7. ~r.done /\ Cardinality(r.visit) = n + 1 + 1
      BY <1>4, <2>1, <3>1, <3>4
    <3> QED
      BY <3>4, <3>6, <3>7 DEF Sought
  <2> HIDE DEF Q
  <2> QED
    BY <1>4, <2>4, <2>5 DEF t
<1> HIDE DEF Q
<1>5. Q(r)
  BY <1>2, <1>3, <1>4
<1>6. Q(Expand(s, map, dest, startT, INF))
  BY <1>5 DEF r
<1> QED
  BY <1>6 DEF Q

LEMMA SearchReaches ==
    ASSUME NEW map \in Timetable, Low(map), NEW from \in City, NEW dest, NEW startT \in Nat
    PROVE  LET s == Search(map, from, dest, startT, INF)
           IN  dest \in s.visit \/ Closed(s.visit, map)
<1>1. Cities \in Nat \ {0} /\ INF \in Nat
  BY TravelAssumption DEF INF
<1>2. PICK h :
            /\ h[0] = FromStart(map, from, startT, INF)
            /\ h[Cities] = Search(map, from, dest, startT, INF)
            /\ \A n \in 0 .. Cities : Knows(h[n], map, from, startT, INF)
            /\ \A n \in 1 .. Cities : h[n] = Expand(h[n - 1], map, dest, startT, INF)
  BY <1>1, SearchPasses
<1> DEFINE S == {n \in 0 .. Cities : Sought(h[n], map, startT, dest, n)}
<1>3. 0 \in S
  <2> DEFINE t == h[0]
  <2>1. /\ t.visit = {from} /\ ~t.done /\ Soon(t, startT, 1)
        /\ Offered(t, map, from, Len(map[from]))
    BY <1>2, FromStartReaches
  <2> HIDE DEF t
  <2>2. Cardinality({from}) = 1 /\ 0 + 1 = 1
    BY FS_Singleton
  <2>3. \A c \in t.visit : Offered(t, map, c, Len(map[c]))
    BY <2>1
  <2>4. Sought(t, map, startT, dest, 0)
    BY <2>1, <2>2, <2>3 DEF Sought
  <2> QED
    BY <1>1, <2>4 DEF t
<1>4. ASSUME NEW n \in 0 .. Cities - 1, n \in S PROVE n + 1 \in S
  <2>1. n + 1 \in 1 .. Cities /\ n + 1 \in 0 .. Cities /\ n \in 0 .. Cities /\ n \in Nat
        /\ (n + 1) - 1 = n
    BY <1>1
  <2>2. h[n + 1] = Expand(h[n], map, dest, startT, INF)
    BY <1>2, <2>1
  <2>3. Knows(h[n], map, from, startT, INF) /\ Sought(h[n], map, startT, dest, n)
    BY <1>2, <1>4, <2>1
  <2>4. Sought(h[n + 1], map, startT, dest, n + 1)
    BY <2>1, <2>2, <2>3, ExpandReaches
  <2> QED
    BY <2>1, <2>4
<1> HIDE DEF S
<1>5. \A n \in 0 .. Cities : n \in S
  BY <1>1, <1>3, <1>4, InductionUpTo
<1> DEFINE t == h[Cities]
<1>6. Sought(t, map, startT, dest, Cities) /\ Knows(t, map, from, startT, INF)
  <2>1. Cities \in 0 .. Cities
    BY <1>1
  <2> QED
    BY <1>2, <1>5, <2>1 DEF S
<1> HIDE DEF t
<1>7. t.visit \in SUBSET City
  BY <1>6 DEF Knows, SearchState
<1>8. Cardinality(t.visit) # Cities + 1
  BY <1>7, CitiesFinite
<1>9. dest \in t.visit \/ Closed(t.visit, map)
  BY <1>6, <1>8 DEF Sought
<1> QED
  BY <1>2, <1>9 DEF t

(* What can be reached: no more than any set of cities that holds the      *)
(* first and that no departure leaves; at least the end of every way.      *)
LEMMA ReachableIs ==
    ASSUME NEW map \in Timetable, NEW from \in City
    PROVE  /\ \A C \in SUBSET City : from \in C /\ Closed(C, map) => Reachable(map, from) \subseteq C
           /\ \A p \in Seq(City) :
                /\ Len(p) \in 1 .. Cities /\ p[1] = from
                /\ \A i \in 1 .. Len(p) - 1 :
                        \E k \in 1 .. Len(map[p[i]]) : map[p[i]][k].dest = p[i + 1]
                => p[Len(p)] \in Reachable(map, from)
<1> DEFINE V == SUBSET City
           Next1(C) == C \cup {d \in City : \E c \in C : \E i \in DOMAIN map[c] : map[c][i].dest = d}
           g == [C \in V |-> Next1(C)]
           Eq(f) == f = [n \in 0 .. Cities |-> IF n = 0 THEN {from} ELSE Next1(f[n - 1])]
           r == CHOOSE f : Eq(f)
<1>1. Cities \in Nat \ {0}
  BY TravelAssumption
<1>2. Reachable(map, from) = r[Cities]
  BY Zenon DEF Reachable
<1>3. {from} \in V /\ \A C \in V : Next1(C) \in V
  OBVIOUS
<1>4. \A c \in City : DOMAIN map[c] = 1 .. Len(map[c])
  BY DEF Timetable
<1>5. ASSUME NEW C \in V, NEW c \in C, NEW i \in 1 .. Len(map[c])
      PROVE  map[c][i].dest \in Next1(C)
  <2>1. c \in City /\ map[c][i].dest \in City
    BY DepartureIs
  <2> QED
    BY <1>4, <2>1
<1>6. ASSUME NEW C \in V, Closed(C, map) PROVE \A B \in V : B \subseteq C => Next1(B) \subseteq C
  BY <1>4, <1>6 DEF Closed
<1>7. \A C \in V : C \subseteq Next1(C)
  OBVIOUS
<1> HIDE DEF Next1, V
<1>8. g \in [V -> V]
  BY <1>3
<1>8a. \A C \in V : g[C] = Next1(C)
  OBVIOUS
<1> HIDE DEF g
<1>9. PICK f : AreRounds(f, V, Cities, {from}, g)
  BY <1>1, <1>3, <1>8, RoundsDefined
<1>10. /\ f \in [0 .. Cities -> V] /\ f[0] = {from}
       /\ \A n \in 1 .. Cities : f[n] = Next1(f[n - 1])
  <2>1. /\ f \in [0 .. Cities -> V] /\ f[0] = {from}
        /\ \A n \in 1 .. Cities : f[n] = g[f[n - 1]]
    BY <1>9 DEF AreRounds
  <2>2. ASSUME NEW n \in 1 .. Cities PROVE f[n] = Next1(f[n - 1])
    <3>1. n - 1 \in 0 .. Cities
      BY <1>1
    <3> QED
      BY <1>8a, <2>1, <3>1
  <2> QED
    BY <2>1, <2>2
<1>11. Eq(f)
  <2>1. ASSUME NEW n \in 0 .. Cities PROVE f[n] = IF n = 0 THEN {from} ELSE Next1(f[n - 1])
    <3>1. n # 0 => n \in 1 .. Cities
      BY <1>1
    <3> QED
      BY <1>10, <3>1
  <2> QED
    BY <1>10, <2>1
<1>12. Eq(r)
  BY <1>11, Zenon
<1>13. r[0] = {from} /\ \A n \in 0 .. Cities - 1 : r[n + 1] = Next1(r[n])
  <2>1. \A n \in 0 .. Cities - 1 : n + 1 \in 0 .. Cities /\ n + 1 # 0 /\ (n + 1) - 1 = n
    BY <1>1
  <2>2. 0 \in 0 .. Cities
    BY <1>1
  <2> QED
    BY <1>12, <2>1, <2>2
<1> HIDE DEF r
<1> DEFINE A == {n \in 0 .. Cities : r[n] \in V}
<1>14. \A n \in 0 .. Cities : n \in A
  <2>1. 0 \in A
    BY <1>1, <1>3, <1>13
  <2>2. ASSUME NEW n \in 0 .. Cities - 1, n \in A PROVE n + 1 \in A
    <3>1. n + 1 \in 0 .. Cities
      BY <1>1
    <3> QED
      BY <1>3, <1>13, <2>2, <3>1
  <2> HIDE DEF A
  <2> QED
    BY <1>1, <2>1, <2>2, InductionUpTo
<1>15. ASSUME NEW C \in SUBSET City, from \in C, Closed(C, map)
       PROVE  Reachable(map, from) \subseteq C
  <2> DEFINE B == {n \in 0 .. Cities : r[n] \subseteq C}
  <2>1. 0 \in B
    BY <1>1, <1>13, <1>15
  <2>2. ASSUME NEW n \in 0 .. Cities - 1, n \in B PROVE n + 1 \in B
    <3>1. n + 1 \in 0 .. Cities /\ n \in 0 .. Cities
      BY <1>1
    <3>2. r[n] \in V /\ C \in V
      BY <1>14, <3>1 DEF V
    <3>3. Next1(r[n]) \subseteq C
      BY <1>6, <1>15, <2>2, <3>2
    <3> QED
      BY <1>13, <3>1, <3>3
  <2> HIDE DEF B
  <2>3. \A n \in 0 .. Cities : n \in B
    BY <1>1, <2>1, <2>2, InductionUpTo
  <2>4. Cities \in 0 .. Cities
    BY <1>1
  <2> QED
    BY <1>2, <2>3, <2>4 DEF B
<1>16. ASSUME NEW p \in Seq(City), Len(p) \in 1 .. Cities, p[1] = from,
              \A i \in 1 .. Len(p) - 1 :
                    \E k \in 1 .. Len(map[p[i]]) : map[p[i]][k].dest = p[i + 1]
       PROVE  p[Len(p)] \in Reachable(map, from)
  <2> DEFINE x(n) == IF n + 1 <= Len(p) THEN p[n + 1] ELSE p[Len(p)]
             B == {n \in 0 .. Cities : x(n) \in r[n]}
  <2>1. 0 \in B
    BY <1>1, <1>13, <1>16
  <2>2. ASSUME NEW n \in 0 .. Cities - 1, n \in B PROVE n + 1 \in B
    <3>1. n + 1 \in 0 .. Cities /\ n \in 0 .. Cities /\ n \in Nat
      BY <1>1
    <3>2. r[n] \in V /\ x(n) \in r[n]
      BY <1>14, <2>2, <3>1
    <3>3. CASE n + 2 <= Len(p)
      <4>1. n + 1 \in 1 .. Len(p) - 1 /\ x(n) = p[n + 1] /\ x(n + 1) = p[n + 1 + 1]
        BY <3>1, <3>3
      <4>2. PICK k \in 1 .. Len(map[p[n + 1]]) : map[p[n + 1]][k].dest = p[n + 1 + 1]
        BY <1>16, <4>1
      <4>3. p[n + 1 + 1] \in Next1(r[n])
        BY <1>5, <3>2, <4>1, <4>2
      <4> QED
        BY <1>13, <3>1, <4>1, <4>3
    <3>4. CASE ~(n + 2 <= Len(p))
      <4>1. x(n + 1) = x(n)
        BY <1>16, <3>1, <3>4
      <4>2. x(n) \in Next1(r[n])
        BY <1>7, <3>2
      <4> QED
        BY <1>13, <3>1, <4>1, <4>2
    <3> QED
      BY <3>3, <3>4
  <2> HIDE DEF B, x
  <2>3. \A n \in 0 .. Cities : n \in B
    BY <1>1, <2>1, <2>2, InductionUpTo
  <2>4. Cities \in B /\ x(Cities) = p[Len(p)]
    <3>1. Cities \in 0 .. Cities /\ ~(Cities + 1 <= Len(p))
      BY <1>1, <1>16
    <3> QED
      BY <2>3, <3>1 DEF x
  <2> QED
    BY <1>2, <2>4 DEF B
<1> QED
  BY <1>15, <1>16

LEMMA RouteFound ==
    ASSUME NEW map \in Timetable, Low(map), NEW from \in City, NEW dest \in City, from # dest,
           NEW startT \in Nat
    PROVE  Rides(Search(map, from, dest, startT, INF), map, dest) = <<>>
                <=> dest \notin Reachable(map, from)
<1> DEFINE s == Search(map, from, dest, startT, INF)
<1>1. INF \in Nat
  BY DEF INF
<1>2. Knows(s, map, from, startT, INF)
  BY <1>1, SearchKnows
<1>3. dest \in s.visit \/ Closed(s.visit, map)
  BY SearchReaches
<1> HIDE DEF s
<1>4. CASE dest \notin s.visit
  <2>1. Rides(s, map, dest) = <<>>
    BY <1>4 DEF Rides
  <2>2. s.visit \in SUBSET City /\ from \in s.visit
    BY <1>2 DEF Knows, SearchState
  <2>3. Reachable(map, from) \subseteq s.visit
    BY <1>3, <1>4, <2>2, ReachableIs
  <2> QED
    BY <1>4, <2>1, <2>3 DEF s
<1>5. CASE dest \in s.visit
  <2>1. PICK p : Leads(p, s, dest) /\ p[1] = from /\ Rides(s, map, dest) = RidesOn(p, s, map)
    BY <1>1, <1>2, <1>5, RidesAre
  <2>2. p \in Seq(City) /\ Len(p) \in Nat \ {0} /\ p[Len(p)] = dest
    BY <2>1 DEF Leads
  <2>3. Len(p) <= Cities
    BY <1>1, <1>2, <2>1, LeadsIsShort
  <2>4. \A i \in 1 .. Len(p) - 1 : Departs(s, map, p[i + 1], p[i], s.via[p[i + 1]])
    BY <1>1, <1>2, <2>1, LeadsRises
  <2>5. \A i \in 1 .. Len(p) - 1 :
            \E k \in 1 .. Len(map[p[i]]) : map[p[i]][k].dest = p[i + 1]
    BY <2>4 DEF Departs
  <2>6. Len(p) \in 1 .. Cities
    BY <2>2, <2>3, CitiesFinite
  <2>7. dest \in Reachable(map, from)
    BY <2>1, <2>2, <2>5, <2>6, ReachableIs
  <2>8. Rides(s, map, dest) # <<>>
    <3>1. Len(p) # 1
      BY <2>1, <2>2
    <3> DEFINE m == Len(p) - 1
               q == RidesOn(p, s, map)
    <3>2. m \in Nat /\ m # 0
      BY <2>2, <3>1
    <3> HIDE DEF m
    <3>3. Len(q) = m
      BY <3>2 DEF RidesOn, m
    <3> HIDE DEF q
    <3>4. q # <<>>
      BY <3>2, <3>3
    <3> QED
      BY <2>1, <3>4 DEF q
  <2> QED
    BY <2>7, <2>8 DEF s
<1> QED
  BY <1>4, <1>5

-----------------------------------------------------------------------------
(* Minutes.                                                                *)
LEMMA MinuteBounds ==
    ASSUME NEW t \in Nat
    PROVE  /\ MinuteOf(t) \in Nat
           /\ Minute * MinuteOf(t) <= t /\ t < Minute * MinuteOf(t) + Minute
BY EmulatorAssumption DEF MinuteOf

LEMMA TimesGrows ==
    ASSUME NEW a \in Nat, NEW b \in Nat, a <= b
    PROVE  Minute * a <= Minute * b /\ Minute * a \in Nat
BY EmulatorAssumption

LEMMA NextMinute ==
    ASSUME NEW t \in Nat, NEW s \in Nat, s <= t + Step
    PROVE  MinuteOf(s) <= MinuteOf(t) + 1
<1> DEFINE m == MinuteOf(t)
           n == MinuteOf(s)
<1>1. m \in Nat /\ t < Minute * m + Minute /\ n \in Nat /\ Minute * n <= s
  BY MinuteBounds
<1>2. Minute \in Nat /\ Step <= Minute /\ Step \in Nat
  BY EmulatorAssumption
<1>3. SUFFICES ASSUME n >= m + 2 PROVE FALSE
  BY <1>1
<1> HIDE DEF m, n
<1>4. Minute * (m + 2) <= Minute * n
  BY <1>1, <1>3, TimesGrows
<1>5. Minute * (m + 2) = Minute * m + Minute + Minute /\ Minute * m \in Nat
  BY <1>1, <1>2
<1>6. Minute * n \in Nat
  BY <1>1, <1>2
<1> QED
  BY <1>1, <1>2, <1>4, <1>5, <1>6

LEMMA WholeMinute ==
    ASSUME NEW n \in Nat
    PROVE  n * Minute \in Nat /\ MinuteOf(n * Minute) = n
BY EmulatorAssumption DEF MinuteOf

LEMMA MinuteOfDay ==
    ASSUME NEW t \in 0 .. Time - 1
    PROVE  MinuteOf(t) \in 0 .. Day - 1
<1> DEFINE m == MinuteOf(t)
<1>1. Day \in Nat \ {0} /\ Minute \in Nat \ {0} /\ Time \in Nat
  BY TravelAssumption, EmulatorAssumption DEF Time
<1>2. m \in Nat /\ Minute * m <= t
  BY <1>1, MinuteBounds
<1>3. SUFFICES ASSUME m >= Day PROVE FALSE
  BY <1>1, <1>2
<1> HIDE DEF m
<1>4. Minute * Day <= Minute * m /\ Minute * m \in Nat
  BY <1>1, <1>2, <1>3, TimesGrows
<1>5. Minute * Day = Time
  BY <1>1 DEF Time
<1> QED
  BY <1>1, <1>2, <1>4, <1>5

-----------------------------------------------------------------------------
(* The tasks of a journey, and what becomes of a queue of tasks.           *)
Tasks == [start : Nat, end : Nat, kind : Behavior, from : City, dest : City]
Sorted(q) == \A i, j \in 1 .. Len(q) : i <= j => q[i].start <= q[j].start
Connected(q) ==
    q # <<>> =>
        /\ q[Len(q)].kind = "Arrive"
        /\ \A i \in 1 .. Len(q) - 1 : q[i].dest = q[i + 1].from /\ q[i].end = q[i + 1].start

LEMMA TasksSound ==
    ASSUME NEW startT \in Nat, NEW rides, InOrder(rides, startT)
    PROVE  LET q == TasksOf(rides, startT)
           IN  /\ q \in Seq(Tasks) /\ Sorted(q) /\ Connected(q)
               /\ \A i \in 1 .. Len(q) : startT <= q[i].start
<1> DEFINE there(i) == IF i = 1 THEN startT ELSE rides[i - 1].arrive
           three(i, r) == <<Task(there(i), r.depart, "Waiting", r.from, r.from),
                            Task(r.depart, r.arrive, "Traveling", r.from, r.dest),
                            Task(r.arrive, r.arrive, "Arrive", r.dest, r.dest)>>
           ride(k) == (k + 2) \div 3
           n == Len(rides)
           task(k) == three(ride(k), rides[ride(k)])[((k + 2) % 3) + 1]
           q == [k \in 1 .. 3 * n |-> task(k)]
<1>1. TasksOf(rides, startT) = q
  BY DEF TasksOf
<1>2. /\ n \in Nat
      /\ \A i \in 1 .. n : /\ rides[i] \in Ride
                           /\ startT <= rides[i].depart /\ rides[i].depart <= rides[i].arrive
      /\ \A i, j \in 1 .. n : i < j => rides[i].arrive <= rides[j].depart
      /\ \A i \in 1 .. n - 1 : rides[i].dest = rides[i + 1].from
  BY DEF InOrder
<1>3. \A i \in 1 .. n : /\ rides[i].from \in City /\ rides[i].dest \in City
                        /\ rides[i].depart \in Nat /\ rides[i].arrive \in Nat
  BY <1>2 DEF Ride
<1>4. \A i \in 1 .. n : there(i) \in Nat /\ startT <= there(i) /\ there(i) <= rides[i].depart
  <2>1. ASSUME NEW i \in 1 .. n, i # 1
        PROVE  there(i) \in Nat /\ startT <= there(i) /\ there(i) <= rides[i].depart
    <3>1. i - 1 \in 1 .. n /\ i - 1 < i
      BY <1>2, <2>1
    <3>2. rides[i - 1].arrive <= rides[i].depart
      BY <1>2, <3>1
    <3>3. startT <= rides[i - 1].arrive /\ rides[i - 1].arrive \in Nat
      BY <1>2, <1>3, <3>1
    <3> QED
      BY <2>1, <3>2, <3>3
  <2> QED
    BY <1>2, <2>1
<1>5. ASSUME NEW k \in 1 .. 3 * n
      PROVE  LET i == ride(k)
             IN  /\ i \in 1 .. n
                 /\ k = 3 * i - 2 => task(k) = Task(there(i), rides[i].depart, "Waiting",
                                                    rides[i].from, rides[i].from)
                 /\ k = 3 * i - 1 => task(k) = Task(rides[i].depart, rides[i].arrive,
                                                    "Traveling", rides[i].from, rides[i].dest)
                 /\ k = 3 * i => task(k) = Task(rides[i].arrive, rides[i].arrive, "Arrive",
                                                rides[i].dest, rides[i].dest)
                 /\ k \in {3 * i - 2, 3 * i - 1, 3 * i}
  <2>1. ride(k) \in 1 .. n /\ k \in {3 * ride(k) - 2, 3 * ride(k) - 1, 3 * ride(k)}
    BY <1>2
  <2>2. /\ k = 3 * ride(k) - 2 => (k + 2) % 3 = 0
        /\ k = 3 * ride(k) - 1 => (k + 2) % 3 = 1
        /\ k = 3 * ride(k) => (k + 2) % 3 = 2
    BY <1>2
  <2> QED
    BY <2>1, <2>2
<1> HIDE DEF task, three
<1>6. ASSUME NEW k \in 1 .. 3 * n
      PROVE  /\ task(k) \in Tasks
             /\ there(ride(k)) <= task(k).start /\ task(k).start <= rides[ride(k)].arrive
             /\ k = 3 * ride(k) - 2 => task(k).start = there(ride(k))
             /\ k = 3 * ride(k) - 1 => task(k).start = rides[ride(k)].depart
             /\ k = 3 * ride(k) => task(k).start = rides[ride(k)].arrive
  <2> DEFINE i == ride(k)
  <2>1. /\ i \in 1 .. n
        /\ k = 3 * i - 2 => task(k) = Task(there(i), rides[i].depart, "Waiting",
                                           rides[i].from, rides[i].from)
        /\ k = 3 * i - 1 => task(k) = Task(rides[i].depart, rides[i].arrive,
                                           "Traveling", rides[i].from, rides[i].dest)
        /\ k = 3 * i => task(k) = Task(rides[i].arrive, rides[i].arrive, "Arrive",
                                       rides[i].dest, rides[i].dest)
        /\ k \in {3 * i - 2, 3 * i - 1, 3 * i}
    BY <1>5
  <2>2. /\ there(i) \in Nat /\ there(i) <= rides[i].depart
        /\ rides[i].depart <= rides[i].arrive /\ there(i) <= rides[i].arrive
        /\ rides[i].from \in City /\ rides[i].dest \in City
        /\ rides[i].depart \in Nat /\ rides[i].arrive \in Nat
    BY <1>2, <1>3, <1>4, <2>1
  <2> HIDE DEF there, i
  <2>3. CASE k = 3 * i - 2
    <3>1. i \in Int
      BY <2>1
    <3>2. task(k) = Task(there(i), rides[i].depart, "Waiting", rides[i].from, rides[i].from)
      BY <2>1, <2>3
    <3>3. k # 3 * i - 1 /\ k # 3 * i
      BY <2>3, <3>1
    <3> HIDE DEF ride
    <3> QED
      BY <2>2, <2>3, <3>2, <3>3 DEF Tasks, Task, Behavior, i
  <2>4. CASE k = 3 * i - 1
    <3>1. i \in Int
      BY <2>1
    <3>2. task(k) = Task(rides[i].depart, rides[i].arrive, "Traveling",
                         rides[i].from, rides[i].dest)
      BY <2>1, <2>4
    <3>3. k # 3 * i - 2 /\ k # 3 * i
      BY <2>4, <3>1
    <3> HIDE DEF ride
    <3> QED
      BY <2>2, <2>4, <3>2, <3>3 DEF Tasks, Task, Behavior, i
  <2>5. CASE k = 3 * i
    <3>1. i \in Int
      BY <2>1
    <3>2. task(k) = Task(rides[i].arrive, rides[i].arrive, "Arrive",
                         rides[i].dest, rides[i].dest)
      BY <2>1, <2>5
    <3>3. k # 3 * i - 2 /\ k # 3 * i - 1
      BY <2>5, <3>1
    <3> HIDE DEF ride
    <3> QED
      BY <2>2, <2>5, <3>2, <3>3 DEF Tasks, Task, Behavior, i
  <2> QED
    BY <2>1, <2>3, <2>4, <2>5
<1>7. /\ q \in Seq(Tasks) /\ Len(q) = 3 * n
      /\ \A k \in 1 .. Len(q) : q[k] = task(k)
  BY <1>2, <1>6
<1>8. ASSUME NEW k \in 1 .. 3 * n, NEW l \in 1 .. 3 * n, k <= l
      PROVE  task(k).start <= task(l).start
  <2> DEFINE i == ride(k)
             j == ride(l)
  <2>1. /\ i \in 1 .. n /\ k \in {3 * i - 2, 3 * i - 1, 3 * i}
        /\ j \in 1 .. n /\ l \in {3 * j - 2, 3 * j - 1, 3 * j}
    BY <1>5
  <2>2. /\ task(k).start \in Nat /\ task(k).start <= rides[i].arrive
        /\ task(l).start \in Nat /\ there(j) <= task(l).start
    BY <1>6 DEF Tasks
  <2>3. /\ there(i) \in Nat /\ there(i) <= rides[i].depart
        /\ rides[i].depart <= rides[i].arrive
        /\ rides[i].depart \in Nat /\ rides[i].arrive \in Nat
    BY <1>2, <1>3, <1>4, <2>1
  <2>4. CASE i < j
    <3>1. j - 1 \in 1 .. n /\ there(j) = rides[j - 1].arrive
      BY <1>2, <2>1, <2>4, SMTT(30)
    <3>2. rides[i].arrive <= rides[j - 1].arrive
      <4>1. CASE i = j - 1
        BY <2>3, <4>1
      <4>2. CASE i < j - 1
        <5>1. rides[i].arrive <= rides[j - 1].depart
          BY <1>2, <2>1, <3>1, <4>2
        <5>2. /\ rides[j - 1].depart <= rides[j - 1].arrive
              /\ rides[j - 1].depart \in Nat /\ rides[j - 1].arrive \in Nat
          BY <1>2, <1>3, <3>1
        <5> QED
          BY <2>3, <5>1, <5>2
      <4> QED
        BY <2>1, <2>4, <4>1, <4>2, SMTT(30)
    <3>3. rides[j - 1].arrive \in Nat
      BY <1>3, <3>1
    <3> HIDE DEF i, j, there
    <3> QED
      BY <2>2, <2>3, <3>1, <3>2, <3>3, SMTT(30)
  <2>5. CASE i = j
    <3>1. /\ k = 3 * i - 2 => task(k).start = there(i)
          /\ k = 3 * i - 1 => task(k).start = rides[i].depart
          /\ k = 3 * i => task(k).start = rides[i].arrive
          /\ l = 3 * i - 2 => task(l).start = there(i)
          /\ l = 3 * i - 1 => task(l).start = rides[i].depart
          /\ l = 3 * i => task(l).start = rides[i].arrive
      BY <1>6, <2>5
    <3> HIDE DEF i, j, there
    <3> QED
      BY <1>8, <2>1, <2>3, <2>5, <3>1
  <2>6. i <= j
    BY <1>2, <1>8
  <2> QED
    BY <2>1, <2>4, <2>5, <2>6
<1>9. ASSUME NEW k \in 1 .. 3 * n - 1
      PROVE  task(k).dest = task(k + 1).from /\ task(k).end = task(k + 1).start
  <2> DEFINE i == ride(k)
             j == ride(k + 1)
  <2>1. k \in 1 .. 3 * n /\ k + 1 \in 1 .. 3 * n
    BY <1>2
  <2>2. /\ i \in 1 .. n
        /\ k = 3 * i - 2 => task(k) = Task(there(i), rides[i].depart, "Waiting",
                                           rides[i].from, rides[i].from)
        /\ k = 3 * i - 1 => task(k) = Task(rides[i].depart, rides[i].arrive,
                                           "Traveling", rides[i].from, rides[i].dest)
        /\ k = 3 * i => task(k) = Task(rides[i].arrive, rides[i].arrive, "Arrive",
                                       rides[i].dest, rides[i].dest)
        /\ k \in {3 * i - 2, 3 * i - 1, 3 * i}
    BY <1>5, <2>1
  <2>3. /\ j \in 1 .. n
        /\ k + 1 = 3 * j - 2 => task(k + 1) = Task(there(j), rides[j].depart, "Waiting",
                                                   rides[j].from, rides[j].from)
        /\ k + 1 = 3 * j - 1 => task(k + 1) = Task(rides[j].depart, rides[j].arrive,
                                                   "Traveling", rides[j].from, rides[j].dest)
        /\ k + 1 = 3 * j => task(k + 1) = Task(rides[j].arrive, rides[j].arrive, "Arrive",
                                               rides[j].dest, rides[j].dest)
    BY <1>5, <2>1
  <2>4. /\ k = 3 * i - 2 => j = i /\ k + 1 = 3 * j - 1
        /\ k = 3 * i - 1 => j = i /\ k + 1 = 3 * j
        /\ k = 3 * i => j = i + 1 /\ k + 1 = 3 * j - 2
    BY <2>1
  <2>5. CASE k = 3 * i
    <3>1. j - 1 = i /\ j # 1 /\ i \in 1 .. n - 1
      BY <1>2, <2>2, <2>3, <2>4, <2>5
    <3>2. there(j) = rides[i].arrive /\ rides[i].dest = rides[j].from
      BY <1>2, <2>4, <2>5, <3>1
    <3> HIDE DEF i, j, there
    <3> QED
      BY <2>2, <2>3, <2>4, <2>5, <3>2 DEF Task
  <2>6. CASE k # 3 * i
    <3> HIDE DEF i, j, there
    <3> QED
      BY <2>2, <2>3, <2>4, <2>6 DEF Task
  <2> QED
    BY <2>5, <2>6
<1>10. n # 0 => task(3 * n).kind = "Arrive"
  <2>1. SUFFICES ASSUME n # 0 PROVE task(3 * n).kind = "Arrive"
    OBVIOUS
  <2>2. 3 * n \in 1 .. 3 * n /\ ride(3 * n) = n
    BY <1>2, <2>1
  <2>3. task(3 * n) = Task(rides[n].arrive, rides[n].arrive, "Arrive",
                           rides[n].dest, rides[n].dest)
    BY <1>5, <2>2
  <2> QED
    BY <2>3 DEF Task
<1> HIDE DEF q
<1>11. Sorted(q)
  BY <1>7, <1>8 DEF Sorted
<1>12. Connected(q)
  <2>1. q # <<>> => n # 0
    BY <1>2, <1>7
  <2>2. \A i \in 1 .. Len(q) - 1 : i \in 1 .. Len(q) /\ i + 1 \in 1 .. Len(q)
    BY <1>2, <1>7
  <2>3. q # <<>> => Len(q) \in 1 .. Len(q)
    BY <1>2, <1>7, <2>1
  <2> QED
    BY <1>7, <1>9, <1>10, <2>1, <2>2, <2>3 DEF Connected
<1>13. \A k \in 1 .. Len(q) : startT <= q[k].start
  <2>1. ASSUME NEW k \in 1 .. 3 * n
        PROVE  startT <= task(k).start
    <3>1. ride(k) \in 1 .. n
      BY <1>5
    <3>2. startT <= there(ride(k)) /\ there(ride(k)) \in Nat
      BY <1>4, <3>1
    <3>3. there(ride(k)) <= task(k).start /\ task(k).start \in Nat
      BY <1>6 DEF Tasks
    <3> HIDE DEF there, ride
    <3> QED
      BY <3>2, <3>3
  <2> QED
    BY <1>7, <2>1
<1> QED
  BY <1>1, <1>7, <1>11, <1>12, <1>13

-----------------------------------------------------------------------------
(* The readings of the time shown.  An hour and a minute of two times make *)
(* some minute of the day, those of one time the minute it is in.          *)
LEMMA TornDay ==
    ASSUME NEW a \in 0 .. Time - 1, NEW b \in 0 .. Time - 1
    PROVE  Torn(a, b) \subseteq 0 .. Day - 1
<1>1. ASSUME NEW m \in 0 .. Day - 1, NEW n \in 0 .. Day - 1
      PROVE  Hour * (m \div Hour) + (n % Hour) \in 0 .. Day - 1
  <2> DEFINE h == m \div Hour
             d == Day \div Hour
             r == n % Hour
  <2>1. Hour \in Nat \ {0} /\ Day \in Nat
    BY TravelAssumption
  <2>2. m = Hour * h + (m % Hour) /\ m % Hour \in 0 .. Hour - 1 /\ h \in Int
    BY <2>1
  <2>3. Day = Hour * d /\ d \in Int
    <3>1. Day = Hour * d + (Day % Hour) /\ d \in Int
      BY <2>1
    <3> HIDE DEF d
    <3> QED
      BY <2>1, <3>1, EmulatorAssumption
  <2>4. r \in 0 .. Hour - 1
    BY <2>1
  <2> HIDE DEF h, d, r
  <2>5. h >= 0 /\ h <= d - 1
    <3>1. h <= -1 => Hour * h <= 0 - Hour
      BY <2>1, <2>2
    <3>2. h >= d => Hour * h >= Hour * d
      BY <2>1, <2>2, <2>3
    <3>3. Hour * h \in Int
      BY <2>1, <2>2
    <3> QED
      BY <2>1, <2>2, <2>3, <3>1, <3>2, <3>3
  <2>6. Hour * h >= 0 /\ Hour * h <= Hour * d - Hour /\ Hour * h \in Int
    BY <2>1, <2>2, <2>3, <2>5
  <2> QED
    BY <2>1, <2>3, <2>4, <2>6 DEF h, r
<1>2. MinuteOf(a) \in 0 .. Day - 1 /\ MinuteOf(b) \in 0 .. Day - 1
  BY MinuteOfDay
<1> QED
  BY <1>1, <1>2 DEF Torn, Whole, HourOf

LEMMA TornWhole ==
    ASSUME NEW a \in 0 .. Time - 1
    PROVE  Torn(a, a) = {MinuteOf(a)}
<1>1. MinuteOf(a) \in Int /\ Hour \in Nat \ {0}
  BY MinuteOfDay, TravelAssumption
<1>2. ASSUME NEW m \in Int
      PROVE  Hour * (m \div Hour) + (m % Hour) = m
  BY <1>1
<1> QED
  BY <1>1, <1>2 DEF Torn, Whole, HourOf

-----------------------------------------------------------------------------
(* The inductive invariant.  Rest is what is left of the journey, the part *)
(* that the interface has still to push included.  OnTime says of all of   *)
(* it what NotMissed says of the first task, and that the worker, about to *)
(* move the clock, has begun all tasks of the minute and read the clock    *)
(* that is still the traveller's.  Fresh is about a query that sets off,   *)
(* until its first task is pushed: with no step of the time shown in it,   *)
(* the readings are of one time, and the clock set is the minute of it.    *)
Rest == tasks \o adding
Setting ==
    \/ query.setoff /\ query.stage \in {"set", "read"}
    \/ tasks = <<>> /\ adding # <<>>
QueryType == [stage : {"none", "started", "set", "read"}, setoff : BOOLEAN,
              first : {NoTime} \cup 0 .. Time - 1]
Asking ==
    /\ query \in QueryType
    /\ query.stage = "none" => ~query.setoff
    /\ query.stage \in {"started", "read"} => query.first \in 0 .. Time - 1
    /\ query.stage # "none" => adding = <<>>
    /\ query.setoff => tasks = <<>>
Typed ==
    /\ tasks \in Seq(Tasks) /\ adding \in Seq(Tasks)
    /\ clock \in Nat /\ sysTime \in 0 .. Time - 1
    /\ pc = "moving" => seen \in Nat
    /\ disturbed \in BOOLEAN /\ table \in Timetables
    /\ Asking
OnTime ==
    ~disturbed =>
        /\ \A i \in 1 .. Len(Rest) : MinuteOf(clock) <= Rest[i].start
        /\ pc = "moving" /\ Rest # <<>> =>
            seen = clock /\ \A i \in 1 .. Len(Rest) : MinuteOf(clock) < Rest[i].start
Fresh ==
    ~disturbed =>
        /\ query.setoff /\ query.stage \in {"started", "read"} => query.first = sysTime
        /\ Setting => clock = MinuteOf(sysTime) * Minute /\ pc # "moving"
Journey == Typed /\ Sorted(Rest) /\ Connected(Rest) /\ OnTime /\ Fresh

LEMMA RestType ==
    ASSUME Typed
    PROVE  /\ Rest \in Seq(Tasks) /\ Len(Rest) = Len(tasks) + Len(adding)
           /\ Len(Rest) \in Nat /\ Len(tasks) \in Nat
           /\ \A i \in 1 .. Len(Rest) : /\ Rest[i].start \in Nat
                                        /\ Rest[i] = IF i <= Len(tasks) THEN tasks[i]
                                                     ELSE adding[i - Len(tasks)]
<1>1. /\ Rest \in Seq(Tasks)
      /\ Len(Rest) = Len(tasks) + Len(adding)
      /\ \A i \in 1 .. Len(Rest) : Rest[i] = IF i <= Len(tasks) THEN tasks[i]
                                             ELSE adding[i - Len(tasks)]
  BY ConcatProperties DEF Typed, Rest
<1>2. \A i \in 1 .. Len(Rest) : Rest[i] \in Tasks
  BY <1>1, ElementOfSeq
<1> QED
  BY <1>1, <1>2, LenProperties DEF Typed, Tasks

LEMMA InitJourney == Init => Journey
<1> SUFFICES ASSUME Init PROVE Journey
  OBVIOUS
<1>1. Typed
  <2>1. sysTime \in 0 .. Time - 1
    BY EmulatorAssumption DEF Init, Time
  <2>2. tasks \in Seq(Tasks) /\ adding \in Seq(Tasks)
    BY EmptySeq DEF Init
  <2>3. clock \in Nat /\ pc # "moving" /\ disturbed \in BOOLEAN /\ table \in Timetables
    BY DEF Init
  <2>4. Asking
    BY DEF Init, NoQuery, Asking, QueryType
  <2> QED
    BY <2>1, <2>2, <2>3, <2>4 DEF Typed
<1>2. Rest = <<>>
  BY DEF Init, Rest
<1>3. Fresh
  BY DEF Init, NoQuery, Fresh, Setting
<1> QED
  BY <1>1, <1>2, <1>3 DEF Init, Journey, Sorted, Connected, OnTime

(* Whatever leaves the journey, the clock and the worker alone.            *)
LEMMA SameJourney ==
    ASSUME Journey, UNCHANGED <<table, tasks, adding, clock, sysTime, seen, query>>,
           pc' = "moving" => pc = "moving",
           disturbed' \in BOOLEAN, disturbed => disturbed'
    PROVE  Journey'
<1>1. Typed' /\ Sorted(Rest') /\ Connected(Rest') /\ OnTime'
  BY DEF Journey, Typed, Asking, QueryType, Time, Sorted, Connected, OnTime, Rest
<1>2. Fresh'
  BY DEF Journey, Fresh, Setting
<1> QED
  BY <1>1, <1>2 DEF Journey

LEMMA AddTaskJourney ==
    ASSUME Journey, AddTask
    PROVE  Journey'
<1>1. /\ tasks \in Seq(Tasks) /\ adding \in Seq(Tasks) /\ adding # <<>>
      /\ tasks' = Append(tasks, Head(adding)) /\ adding' = Tail(adding)
  BY DEF AddTask, Journey, Typed
<1>2. Head(adding) \in Tasks /\ tasks' \in Seq(Tasks) /\ adding' \in Seq(Tasks)
  BY <1>1, HeadTailProperties, AppendProperties
<1>3. Rest' = Rest
  <2>1. adding = <<Head(adding)>> \o Tail(adding)
    BY <1>1
  <2>2. tasks' = tasks \o <<Head(adding)>>
    BY <1>1, <1>2, AppendIsConcat
  <2>3. <<Head(adding)>> \in Seq(Tasks)
    BY <1>2
  <2>4. (tasks \o <<Head(adding)>>) \o Tail(adding) = tasks \o (<<Head(adding)>> \o Tail(adding))
    BY <1>1, <1>2, <2>3, ConcatAssociative, SMTT(30)
  <2> QED
    BY <1>1, <2>1, <2>2, <2>4 DEF Rest
<1>4. UNCHANGED <<table, clock, sysTime, pc, seen, disturbed, query>>
  BY DEF AddTask, worker, search
<1>5. query.stage = "none" /\ ~query.setoff
  BY <1>1 DEF Journey, Typed, Asking
<1>6. Asking'
  BY <1>4, <1>5 DEF Journey, Typed, Asking
<1>7. tasks' # <<>>
  BY <1>1, <1>2, AppendProperties, EmptySeq
<1>8. Fresh'
  BY <1>4, <1>5, <1>7 DEF Fresh, Setting
<1> QED
  BY <1>2, <1>3, <1>4, <1>6, <1>8 DEF Journey, Typed, Sorted, Connected, OnTime

(* A route is asked for from now on, or for the next day.                  *)
LEMMA TripIs ==
    ASSUME NEW trip \in Trips \cup Questions, NEW now \in 0 .. Day - 1
    PROVE  /\ trip[1] \in City /\ trip[2] \in City /\ trip[4] \in Nat
           /\ StartOf(trip, now) \in Nat /\ now <= StartOf(trip, now)
<1>1. trip \in City \X City \X (0 .. Day - 1) \X Nat
  BY EmulatorAssumption
<1>2. trip[1] \in City /\ trip[2] \in City /\ trip[3] \in 0 .. Day - 1 /\ trip[4] \in Nat
  BY <1>1
<1> QED
  BY <1>2, TravelAssumption, SMTT(30) DEF StartOf

LEMMA FoundSound ==
    ASSUME NEW t \in Timetables, NEW trip \in Trips \cup Questions, NEW startT \in Nat
    PROVE  LET r == RidesOf(t, trip, startT)
           IN  /\ InOrder(r, startT) /\ Scheduled(r, t)
               /\ FromTo(r, trip[1], trip[2], startT, trip[4])
<1>1. t \in Timetable
  BY EmulatorAssumption DEF Timetable
<1>2. trip[1] \in City /\ trip[2] \in City /\ trip[4] \in Nat
  <2>1. trip \in City \X City \X (0 .. Day - 1) \X Nat
    BY EmulatorAssumption
  <2> QED
    BY <2>1
<1> QED
  BY <1>1, <1>2, RouteSound DEF RidesOf

LEMMA StartQueryJourney ==
    ASSUME Journey, NEW setoff \in BOOLEAN, StartQuery(setoff)
    PROVE  Journey'
<1>1. /\ UNCHANGED <<table, sysTime, pc, seen, tasks, adding, clock>>
      /\ query' = [stage |-> "started", setoff |-> setoff, first |-> sysTime]
      /\ adding = <<>> /\ (setoff => tasks = <<>>)
  BY DEF StartQuery, worker, Idle
<1>2. disturbed' = (~setoff /\ disturbed)
  BY DEF StartQuery
<1>3. sysTime \in 0 .. Time - 1 /\ disturbed' \in BOOLEAN
  BY <1>2, Zenon DEF Journey, Typed
<1>4. /\ query'.stage = "started" /\ query'.setoff = setoff /\ query'.first = sysTime
      /\ query' \in QueryType
  BY <1>1, <1>3 DEF QueryType
<1>5. Asking'
  BY <1>1, <1>3, <1>4 DEF Asking
<1>6. Typed'
  BY <1>1, <1>3, <1>5 DEF Journey, Typed
<1>7. Rest' = Rest /\ (setoff => Rest = <<>>)
  BY <1>1 DEF Rest
<1>8. ~setoff => disturbed' = disturbed
  BY <1>2, Zenon DEF Journey, Typed
<1>9. OnTime'
  <2>1. CASE setoff
    BY <1>7, <2>1 DEF OnTime
  <2>2. CASE ~setoff
    BY <1>1, <1>7, <1>8, <2>2 DEF Journey, OnTime
  <2> QED
    BY <2>1, <2>2
<1>10. Fresh'
  BY <1>1, <1>4 DEF Fresh, Setting
<1> QED
  BY <1>6, <1>7, <1>9, <1>10 DEF Journey

(* The clock is set: to the minute shown, if the two readings agree.       *)
LEMMA ClockSet ==
    ASSUME Journey, SetClock
    PROVE  \E minute \in 0 .. Day - 1 :
                /\ clock' = minute * Minute
                /\ query.first = sysTime => minute = MinuteOf(sysTime)
<1>1. query.first \in 0 .. Time - 1 /\ sysTime \in 0 .. Time - 1
  BY DEF SetClock, Journey, Typed, Asking
<1>2. PICK minute \in Torn(query.first, sysTime) : clock' = minute * Minute
  BY DEF SetClock, SetSysTime
<1>3. minute \in 0 .. Day - 1
  BY <1>1, <1>2, TornDay
<1>4. query.first = sysTime => minute = MinuteOf(sysTime)
  BY <1>1, <1>2, TornWhole
<1> QED
  BY <1>2, <1>3, <1>4

LEMMA SetClockJourney ==
    ASSUME Journey, SetClock
    PROVE  Journey'
<1>1. /\ UNCHANGED <<table, sysTime, pc, seen, tasks, adding>>
      /\ query.stage = "started"
      /\ query' = [query EXCEPT !.stage = "set", !.first = NoTime]
  BY DEF SetClock, worker
<1>2. disturbed' = (disturbed \/ tasks # <<>> \/ pc = "moving")
  BY DEF SetClock
<1>3. disturbed' \in BOOLEAN /\ (~disturbed' => ~disturbed /\ tasks = <<>> /\ pc # "moving")
  BY <1>2, Zenon
<1>4. /\ query'.stage = "set" /\ query'.setoff = query.setoff /\ query'.first = NoTime
      /\ query' \in QueryType
  BY <1>1 DEF Journey, Typed, Asking, QueryType
<1>5. adding = <<>>
  BY <1>1 DEF Journey, Typed, Asking
<1>6. Asking'
  BY <1>1, <1>4, <1>5 DEF Journey, Typed, Asking
<1>7. PICK minute \in 0 .. Day - 1 :
            /\ clock' = minute * Minute
            /\ query.first = sysTime => minute = MinuteOf(sysTime)
  BY ClockSet
<1>8. clock' \in Nat
  BY <1>7, TravelAssumption, EmulatorAssumption
<1>9. Typed'
  BY <1>1, <1>3, <1>6, <1>8 DEF Journey, Typed
<1>10. Rest' = Rest /\ (~disturbed' => Rest = <<>>)
  BY <1>1, <1>3, <1>5 DEF Rest
<1>11. OnTime'
  BY <1>10 DEF OnTime
<1>12. Fresh'
  <2>1. ~disturbed' /\ query.setoff => query.first = sysTime
    BY <1>1, <1>3 DEF Journey, Fresh
  <2> QED
    BY <1>1, <1>3, <1>4, <1>5, <1>7, <2>1 DEF Fresh, Setting
<1> QED
  BY <1>9, <1>10, <1>11, <1>12 DEF Journey

LEMMA ReadTimeJourney ==
    ASSUME Journey, ReadTime
    PROVE  Journey'
<1>1. /\ UNCHANGED <<table, sysTime, pc, seen, tasks, adding, clock, disturbed>>
      /\ query.stage = "set"
      /\ query' = [query EXCEPT !.stage = "read", !.first = sysTime]
  BY DEF ReadTime, worker
<1>2. sysTime \in 0 .. Time - 1
  BY DEF Journey, Typed
<1>3. /\ query'.stage = "read" /\ query'.setoff = query.setoff /\ query'.first = sysTime
      /\ query' \in QueryType
  BY <1>1, <1>2 DEF Journey, Typed, Asking, QueryType
<1>4. Asking'
  BY <1>1, <1>2, <1>3 DEF Journey, Typed, Asking
<1>5. Typed'
  BY <1>1, <1>4 DEF Journey, Typed
<1>6. Rest' = Rest
  BY <1>1 DEF Rest
<1>7. Fresh'
  BY <1>1, <1>3 DEF Journey, Fresh, Setting
<1> QED
  BY <1>1, <1>5, <1>6, <1>7 DEF Journey, OnTime

(* The search: with which route, from which minute, and what it gives.     *)
LEMMA RouteChosen ==
    ASSUME Journey, FindRoute
    PROVE  \E trip \in Routes(query.setoff), now \in 0 .. Day - 1 :
            LET startT == StartOf(trip, now)
                found == RidesOf(table, trip, startT)
            IN  /\ query.first = sysTime => now = MinuteOf(sysTime)
                /\ \/ answer' = NoAnswer
                   \/ answer' = [from |-> trip[1], dest |-> trip[2], start |-> startT,
                                 limit |-> trip[4], rides |-> found]
                /\ adding' = IF query.setoff THEN TasksOf(found, startT) ELSE <<>>
<1>1. query.first \in 0 .. Time - 1 /\ sysTime \in 0 .. Time - 1
  BY DEF FindRoute, QueryOver, Journey, Typed, Asking
<1>2. /\ Torn(query.first, sysTime) \subseteq 0 .. Day - 1
      /\ query.first = sysTime => Torn(query.first, sysTime) = {MinuteOf(sysTime)}
  BY <1>1, TornDay, TornWhole
<1> QED
  BY <1>2 DEF FindRoute

LEMMA RoutesAre ==
    ASSUME NEW setoff \in BOOLEAN, NEW trip \in Routes(setoff)
    PROVE  trip \in Trips \cup Questions /\ trip[1] # trip[2] /\ (setoff => trip \in Trips)
BY DEF Routes

LEMMA FindRouteJourney ==
    ASSUME Journey, FindRoute
    PROVE  Journey'
<1>0. query.setoff \in BOOLEAN
  BY DEF Journey, Typed, Asking, QueryType
<1>1. PICK trip \in Routes(query.setoff), now \in 0 .. Day - 1 :
            /\ query.first = sysTime => now = MinuteOf(sysTime)
            /\ adding' = IF query.setoff
                         THEN TasksOf(RidesOf(table, trip, StartOf(trip, now)), StartOf(trip, now))
                         ELSE <<>>
  BY RouteChosen
<1>2. /\ UNCHANGED <<table, sysTime, pc, seen, tasks, clock, disturbed>>
      /\ query.stage = "read" /\ query' = NoQuery
  BY DEF FindRoute, QueryOver, worker
<1>3. adding = <<>>
  BY <1>2 DEF Journey, Typed, Asking
<1>4. Asking'
  BY <1>2 DEF Asking, NoQuery, QueryType
<1>5. CASE query.setoff
  <2> DEFINE startT == StartOf(trip, now)
             found == RidesOf(table, trip, startT)
  <2>1. tasks = <<>> /\ adding' = TasksOf(found, startT)
    BY <1>1, <1>5 DEF Journey, Typed, Asking
  <2>2. trip \in Trips \cup Questions
    BY <1>0, <1>5, RoutesAre
  <2>3. startT \in Nat /\ now <= startT
    BY <2>2, TripIs
  <2>4. InOrder(found, startT)
    <3>1. table \in Timetables
      BY DEF Journey, Typed
    <3> HIDE DEF startT
    <3> QED
      BY <2>2, <2>3, <3>1, FoundSound
  <2> HIDE DEF startT, found
  <2>5. /\ adding' \in Seq(Tasks) /\ Sorted(adding') /\ Connected(adding')
        /\ \A i \in 1 .. Len(adding') : startT <= adding'[i].start
    BY <2>1, <2>3, <2>4, TasksSound
  <2>6. Rest' = adding'
    BY <1>2, <2>1, <2>5, ConcatEmptySeq DEF Rest
  <2>7. Typed'
    BY <1>2, <1>4, <2>5 DEF Journey, Typed
  <2>8. ~disturbed => /\ now = MinuteOf(sysTime)
                      /\ clock = MinuteOf(sysTime) * Minute /\ pc # "moving"
    BY <1>1, <1>2, <1>5 DEF Journey, Fresh, Setting
  <2>9. OnTime'
    <3>1. ASSUME NEW i \in 1 .. Len(adding')
          PROVE  adding'[i].start \in Nat
      <4>1. adding'[i] \in Tasks
        BY <2>5, <3>1, ElementOfSeq
      <4> QED
        BY <4>1 DEF Tasks
    <3>2. ~disturbed => MinuteOf(clock) = now
      <4>1. now \in Nat
        BY TravelAssumption
      <4>2. MinuteOf(now * Minute) = now
        BY <4>1, WholeMinute
      <4> QED
        BY <2>8, <4>2
    <3>3. ASSUME ~disturbed, NEW i \in 1 .. Len(adding')
          PROVE  MinuteOf(clock) <= adding'[i].start
      <4>1. startT <= adding'[i].start /\ adding'[i].start \in Nat /\ MinuteOf(clock) = now
        BY <2>5, <3>1, <3>2, <3>3
      <4> QED
        BY <2>3, <4>1
    <3> QED
      BY <1>2, <2>6, <2>8, <3>3 DEF OnTime
  <2>10. Fresh'
    BY <1>2, <2>8 DEF Fresh, NoQuery, Setting
  <2> QED
    BY <2>5, <2>6, <2>7, <2>9, <2>10 DEF Journey
<1>6. CASE ~query.setoff
  <2>1. adding' = <<>>
    BY <1>1, <1>6
  <2>2. Rest' = Rest
    BY <1>2, <1>3, <2>1 DEF Rest
  <2>3. Typed'
    BY <1>2, <1>3, <1>4, <2>1 DEF Journey, Typed
  <2>4. Fresh'
    BY <1>2, <2>1 DEF Fresh, NoQuery, Setting
  <2> QED
    BY <1>2, <2>2, <2>3, <2>4 DEF Journey, OnTime
<1> QED
  BY <1>5, <1>6

LEMMA ShownType ==
    ASSUME sysTime \in 0 .. Time - 1, ShowTime
    PROVE  sysTime' \in 0 .. Time - 1
<1>1. Time \in Nat \ {0}
  BY TravelAssumption, EmulatorAssumption DEF Time
<1>2. ShowStep \in Nat /\ sysTime' = (sysTime + ShowStep) % Time
  BY EmulatorAssumption DEF ShowTime
<1> QED
  BY <1>1, <1>2

LEMMA ShowTimeJourney ==
    ASSUME Journey, ShowTime
    PROVE  Journey'
<1>1. UNCHANGED <<table, clock, tasks, adding, seen, pc, query>>
  BY DEF ShowTime, search
<1>2. disturbed' = (disturbed \/ query # NoQuery \/ (adding # <<>> /\ tasks = <<>>))
  BY DEF ShowTime
<1>3. disturbed' \in BOOLEAN /\ (disturbed => disturbed')
  BY <1>2, Zenon
<1>4. ~disturbed' => query = NoQuery /\ ~(adding # <<>> /\ tasks = <<>>)
  BY <1>2, Zenon
<1>5. sysTime' \in 0 .. Time - 1
  BY ShownType DEF Journey, Typed
<1>6. Rest' = Rest
  BY <1>1 DEF Rest
<1>7. Typed'
  BY <1>1, <1>3, <1>5 DEF Journey, Typed, Asking
<1>8. Fresh'
  BY <1>1, <1>4 DEF Fresh, Setting, NoQuery
<1> QED
  BY <1>1, <1>3, <1>6, <1>7, <1>8 DEF Journey, OnTime

(* What is left of a queue when its first n tasks are gone.                *)
LEMMA LaterTasks ==
    ASSUME NEW q \in Seq(Tasks), NEW r \in Seq(Tasks), NEW n \in 0 .. Len(q),
           Len(r) = Len(q) - n, \A i \in 1 .. Len(r) : r[i] = q[n + i]
    PROVE  (Sorted(q) => Sorted(r)) /\ (Connected(q) => Connected(r))
<1>1. Len(q) \in Nat /\ Len(r) \in Nat
  BY LenProperties
<1>2. Sorted(q) => Sorted(r)
  BY <1>1 DEF Sorted
<1>3. Connected(q) => Connected(r)
  <2>1. SUFFICES ASSUME Connected(q), r # <<>> PROVE Connected(r)
    BY DEF Connected
  <2>2. Len(r) \in 1 .. Len(r) /\ q # <<>>
    BY <1>1, <2>1, EmptySeq
  <2>3. r[Len(r)] = q[Len(q)]
    BY <1>1, <2>2
  <2>4. ASSUME NEW i \in 1 .. Len(r) - 1
        PROVE  r[i].dest = r[i + 1].from /\ r[i].end = r[i + 1].start
    <3>1. r[i] = q[n + i] /\ r[i + 1] = q[n + i + 1] /\ n + i \in 1 .. Len(q) - 1
      BY <1>1, <2>4
    <3> QED
      BY <2>1, <2>2, <3>1 DEF Connected
  <2> QED
    BY <2>1, <2>2, <2>3, <2>4 DEF Connected
<1> QED
  BY <1>2, <1>3

LEMMA ConcatLater ==
    ASSUME NEW t \in Seq(Tasks), NEW u \in Seq(Tasks), NEW a \in Seq(Tasks),
           NEW n \in 0 .. Len(t),
           Len(u) = Len(t) - n, \A i \in 1 .. Len(u) : u[i] = t[n + i]
    PROVE  /\ u \o a \in Seq(Tasks) /\ Len(u \o a) = Len(t \o a) - n
           /\ \A i \in 1 .. Len(u \o a) : (u \o a)[i] = (t \o a)[n + i]
<1>1. Len(t) \in Nat /\ Len(u) \in Nat /\ Len(a) \in Nat
  BY LenProperties
<1>2. /\ u \o a \in Seq(Tasks) /\ Len(u \o a) = Len(u) + Len(a)
      /\ \A i \in 1 .. Len(u) + Len(a) :
            (u \o a)[i] = IF i <= Len(u) THEN u[i] ELSE a[i - Len(u)]
  BY ConcatProperties
<1>3. /\ Len(t \o a) = Len(t) + Len(a)
      /\ \A i \in 1 .. Len(t) + Len(a) :
            (t \o a)[i] = IF i <= Len(t) THEN t[i] ELSE a[i - Len(t)]
  BY ConcatProperties
<1>4. ASSUME NEW i \in 1 .. Len(u) + Len(a)
      PROVE  (u \o a)[i] = (t \o a)[n + i]
  <2>1. n + i \in 1 .. Len(t) + Len(a) /\ i - Len(u) = (n + i) - Len(t)
    BY <1>1
  <2>2. CASE i <= Len(u)
    BY <1>1, <1>2, <1>3, <2>1, <2>2
  <2>3. CASE ~(i <= Len(u))
    <3>1. ~(n + i <= Len(t))
      BY <1>1, <2>3
    <3> QED
      BY <1>2, <1>3, <2>1, <2>3, <3>1
  <2> QED
    BY <2>2, <2>3
<1> QED
  BY <1>1, <1>2, <1>3, <1>4, SMTT(30)

LEMMA UpdateStatusJourney ==
    ASSUME Journey, UpdateStatus
    PROVE  Journey'
<1>1. PICK n \in 0 .. Len(tasks) : Due(n) /\ tasks' = SubSeq(tasks, n + 1, Len(tasks))
  BY DEF UpdateStatus
<1>2. /\ UNCHANGED <<table, clock, adding, sysTime, query>>
      /\ pc' = "moving" /\ seen' = clock /\ tasks # <<>>
      /\ disturbed' = (disturbed \/ (tasks' = <<>> /\ adding # <<>>))
  BY DEF UpdateStatus, search
<1>3. /\ tasks \in Seq(Tasks) /\ adding \in Seq(Tasks)
      /\ Len(tasks) \in Nat /\ Len(adding) \in Nat
  BY LenProperties DEF Journey, Typed
<1>4. /\ tasks' \in Seq(Tasks) /\ Len(tasks') = Len(tasks) - n
      /\ \A i \in 1 .. Len(tasks') : tasks'[i] = tasks[n + i]
  <2>1. \A i \in n + 1 .. Len(tasks) : tasks[i] \in Tasks
    BY <1>3, ElementOfSeq
  <2> QED
    BY <1>1, <1>3, <2>1, SubSeqProperties
<1>5. Typed' /\ Fresh'
  <2>1. ~query.setoff
    BY <1>2 DEF Journey, Typed, Asking
  <2>2. Asking'
    BY <1>2, <2>1 DEF Journey, Typed, Asking
  <2>3. ~disturbed' => ~(tasks' = <<>> /\ adding # <<>>)
    BY <1>2, Zenon
  <2>4. disturbed' \in BOOLEAN
    BY <1>2, Zenon
  <2>5. Fresh'
    BY <1>2, <2>1, <2>3 DEF Fresh, Setting
  <2>6. Typed'
    BY <1>2, <1>4, <2>2, <2>4 DEF Journey, Typed
  <2> QED
    BY <2>5, <2>6
<1>6. /\ Rest' \in Seq(Tasks) /\ Len(Rest') = Len(Rest) - n
      /\ \A i \in 1 .. Len(Rest') : Rest'[i] = Rest[n + i]
  <2>1. Rest' = tasks' \o adding
    BY <1>2 DEF Rest
  <2>2. Rest = tasks \o adding
    BY DEF Rest
  <2>3. ASSUME NEW u \in Seq(Tasks), u = tasks'
        PROVE  /\ u \o adding \in Seq(Tasks) /\ Len(u \o adding) = Len(Rest) - n
               /\ \A i \in 1 .. Len(u \o adding) : (u \o adding)[i] = Rest[n + i]
    <3>1. Len(u) = Len(tasks) - n /\ \A i \in 1 .. Len(u) : u[i] = tasks[n + i]
      BY <1>4, <2>3
    <3>2. /\ u \o adding \in Seq(Tasks) /\ Len(u \o adding) = Len(tasks \o adding) - n
          /\ \A i \in 1 .. Len(u \o adding) : (u \o adding)[i] = (tasks \o adding)[n + i]
      BY <1>3, <3>1, ConcatLater, ZenonT(30)
    <3> QED
      BY <2>2, <3>2
  <2> QED
    BY <1>4, <2>1, <2>3
<1>7. n \in 0 .. Len(Rest) /\ Rest \in Seq(Tasks)
  BY <1>3, RestType DEF Journey
<1>8. Sorted(Rest') /\ Connected(Rest')
  BY <1>6, <1>7, LaterTasks DEF Journey
<1>9. OnTime'
  <2>1. SUFFICES ASSUME ~disturbed'
                 PROVE  \A i \in 1 .. Len(Rest') : MinuteOf(clock) < Rest'[i].start
    <3>1. MinuteOf(clock) \in Nat
      BY MinuteBounds DEF Journey, Typed
    <3>2. ASSUME NEW i \in 1 .. Len(Rest')
          PROVE  Rest'[i].start \in Nat
      <4>1. Rest'[i] \in Tasks
        BY <1>6, <3>2, ElementOfSeq
      <4> QED
        BY <4>1 DEF Tasks
    <3> QED
      BY <1>2, <2>1, <3>1, <3>2 DEF OnTime
  <2>2. ~disturbed /\ (tasks' = <<>> => adding = <<>>)
    BY <1>2, <2>1, Zenon
  <2>3. \A i \in 1 .. Len(Rest) : MinuteOf(clock) <= Rest[i].start
    BY <2>2 DEF Journey, OnTime
  <2>4. CASE tasks' = <<>>
    <3>1. Len(Rest') = 0
      BY <1>2, <2>2, <2>4 DEF Rest
    <3> QED
      BY <3>1
  <2>5. CASE tasks' # <<>>
    <3>1. Len(tasks') \in Nat \ {0} /\ n < Len(tasks)
      BY <1>1, <1>3, <1>4, <2>5, EmptySeq
    <3>2. tasks[n + 1].start # MinuteOf(clock)
      BY <1>1, <3>1 DEF Due
    <3>3. 1 \in 1 .. Len(Rest') /\ n + 1 \in 1 .. Len(Rest) /\ Rest[n + 1] = tasks[n + 1]
      BY <1>1, <1>3, <1>6, <3>1, RestType DEF Journey
    <3>4. Rest'[1] = Rest[n + 1] /\ Rest[n + 1].start \in Nat
      BY <1>6, <3>3, RestType DEF Journey
    <3>5. MinuteOf(clock) < Rest'[1].start
      <4>1. MinuteOf(clock) \in Nat
        BY MinuteBounds DEF Journey, Typed
      <4>2. MinuteOf(clock) <= Rest[n + 1].start /\ Rest[n + 1].start # MinuteOf(clock)
        BY <2>3, <3>2, <3>3
      <4> QED
        BY <3>4, <4>1, <4>2
    <3>6. ASSUME NEW i \in 1 .. Len(Rest')
          PROVE  MinuteOf(clock) < Rest'[i].start
      <4>1. Rest'[1].start <= Rest'[i].start
        BY <1>8, <3>3, <3>6 DEF Sorted
      <4>2. Rest'[i] \in Tasks /\ Rest'[1] \in Tasks
        BY <1>6, <3>3, <3>6, ElementOfSeq
      <4>3. MinuteOf(clock) \in Nat
        BY MinuteBounds DEF Journey, Typed
      <4> QED
        BY <3>5, <4>1, <4>2, <4>3 DEF Tasks
    <3> QED
      BY <3>6
  <2> QED
    BY <2>4, <2>5
<1> QED
  BY <1>5, <1>8, <1>9 DEF Journey

LEMMA MoveClockJourney ==
    ASSUME Journey, MoveClock
    PROVE  Journey'
<1>1. PICK t \in {clock, seen} : clock' = IF t + Step <= MaxClock THEN t + Step ELSE MaxClock
  BY DEF MoveClock
<1>2. /\ UNCHANGED <<table, sysTime, tasks, adding, disturbed, query>>
      /\ pc = "moving" /\ pc' = "between"
  BY DEF MoveClock, search
<1>3. t \in Nat /\ clock \in Nat
  BY <1>2 DEF Journey, Typed
<1>4. clock' \in Nat /\ clock' <= t + Step
  BY <1>1, <1>3, EmulatorAssumption
<1>5. Rest' = Rest
  BY <1>2 DEF Rest
<1>6. Typed' /\ Fresh'
  <2>1. Asking'
    BY <1>2 DEF Journey, Typed, Asking
  <2>2. Fresh'
    BY <1>2 DEF Journey, Fresh, Setting
  <2> QED
    BY <1>2, <1>4, <2>1, <2>2 DEF Journey, Typed
<1>7. OnTime'
  <2>1. SUFFICES ASSUME ~disturbed, NEW i \in 1 .. Len(Rest)
                 PROVE  MinuteOf(clock') <= Rest[i].start
    BY <1>2, <1>5 DEF OnTime
  <2>2. t = clock /\ MinuteOf(clock) < Rest[i].start
    <3>1. Rest # <<>>
      BY <2>1
    <3> QED
      BY <1>1, <1>2, <2>1, <3>1 DEF Journey, OnTime
  <2>3. MinuteOf(clock') <= MinuteOf(clock) + 1
    BY <1>3, <1>4, <2>2, NextMinute
  <2>4. MinuteOf(clock) \in Nat /\ MinuteOf(clock') \in Nat /\ Rest[i].start \in Nat
    BY <1>3, <1>4, MinuteBounds, RestType DEF Journey
  <2> QED
    BY <2>2, <2>3, <2>4
<1> QED
  BY <1>5, <1>6, <1>7 DEF Journey, Sorted, Connected

LEMMA StepJourney == Journey /\ [Next]_vars => Journey'
<1> SUFFICES ASSUME Journey, [Next]_vars PROVE Journey'
  OBVIOUS
<1>0. disturbed \in BOOLEAN
  BY DEF Journey, Typed
<1>1. CASE MoveDrawer \/ DrawerOpened \/ DrawerClosed
  BY <1>0, <1>1, SameJourney DEF MoveDrawer, DrawerOpened, DrawerClosed, worker, search
<1>2. ASSUME NEW setoff \in BOOLEAN, StartQuery(setoff)
      PROVE  Journey'
  BY <1>2, StartQueryJourney
<1>3. CASE SetClock \/ ReadTime \/ FindRoute
  BY <1>3, SetClockJourney, ReadTimeJourney, FindRouteJourney
<1>4. CASE AddTask
  BY <1>4, AddTaskJourney
<1>5. CASE CloseWindow \/ Destroy
  BY <1>0, <1>5, SameJourney DEF CloseWindow, Destroy, worker, search
<1>6. CASE WaitPaused \/ Enter \/ IdleRound
  BY <1>0, <1>6, SameJourney DEF WaitPaused, Enter, IdleRound, search
<1>7. CASE ShowTime
  BY <1>7, ShowTimeJourney
<1>8. CASE UpdateStatus
  BY <1>8, UpdateStatusJourney
<1>9. CASE MoveClock
  BY <1>9, MoveClockJourney
<1>10. CASE WriteLog
  BY <1>0, <1>10, SameJourney DEF WriteLog, worker, search
<1>11. CASE UNCHANGED vars
  BY <1>0, <1>11, SameJourney DEF vars, worker, search
<1> QED
  BY <1>1, <1>2, <1>3, <1>4, <1>5, <1>6, <1>7, <1>8, <1>9, <1>10, <1>11 DEF Next

\* What is left of a journey is in order and connected; and still to come as
\* long as it is undisturbed, the query that set off included.
THEOREM JourneySound == Spec => []Journey
<1>1. Journey /\ [Next]_vars => Journey'
  BY StepJourney
<1> QED
  BY <1>1, InitJourney, PTL DEF Spec

-----------------------------------------------------------------------------
\* updateStatus (Customer.cpp:14) begins a task only in its very minute.  When
\* no step of the time shown fell into the query that set him off (one may:
\* a round that has begun steps it although the pause was set) and nothing is asked on the way, the traveller never
\* passes the minute of his next task, wherever else the threads take turns.
THEOREM NeverMissed == Spec => []NotMissed
<1>1. ASSUME Journey, tasks # <<>>, ~disturbed
      PROVE  MinuteOf(clock) <= Head(tasks).start
  <2>1. tasks \in Seq(Tasks) /\ Len(tasks) \in Nat \ {0} /\ Len(adding) \in Nat
    BY <1>1, EmptySeq, LenProperties DEF Journey, Typed
  <2>2. 1 \in 1 .. Len(Rest) /\ Rest[1] = tasks[1]
    BY <1>1, <2>1, RestType DEF Journey
  <2> QED
    BY <1>1, <2>1, <2>2 DEF Journey, OnTime
<1>2. Journey => NotMissed
  BY <1>1 DEF NotMissed
<1> QED
  BY <1>2, JourneySound, PTL

\* Whatever is asked on the way and whenever the worker is paused: the tasks
\* that are left take the traveller from where he is to his destination.
THEOREM NeverOffRoute == Spec => []StaysOnRoute
<1>1. Journey => StaysOnRoute
  BY DEF Journey, Connected, Rest, StaysOnRoute
<1> QED
  BY <1>1, JourneySound, PTL

(* How far the time shown may be ahead, given how long ago it moved.       *)
LEMMA AheadBounds ==
    ASSUME NEW T \in Nat \ {0}, NEW S \in Nat, NEW B \in Nat,
           NEW a \in Int, NEW k \in Int, NEW d \in 0 - S .. B - 1, a = d + k * T
    PROVE  a % T < B \/ T - (a % T) <= S
<1>1. d \in Int /\ a % T = d % T /\ a % T \in 0 .. T - 1
  <2>1. d \in Int
    OBVIOUS
  <2>2. (d + k * T) % T = d % T /\ d % T \in 0 .. T - 1
    BY <2>1, WholeDays, Zenon
  <2> QED
    BY <2>1, <2>2
<1>2. d % T < B \/ T - (d % T) <= S
  <2>1. CASE d >= 0
    <3>1. d % T <= d
      BY <2>1
    <3>2. d % T \in 0 .. T - 1
      BY <1>1
    <3> QED
      BY <2>1, <3>1, <3>2
  <2>2. CASE d < 0 /\ 0 - T <= d
    <3>1. (d + 1 * T) % T = d % T
      <4>1. d \in Int /\ 1 \in Int
        BY <1>1
      <4> QED
        BY <4>1, WholeDays, Zenon
    <3>2. d + T \in Nat /\ d + 1 * T = d + T
      BY <2>2
    <3>3. d = 0 - T \/ (d + T) % T = d + T
      BY <2>2
    <3>4. d = 0 - T => T <= S
      BY <2>2
    <3>5. d % T \in 0 .. T - 1
      BY <1>1
    <3> QED
      BY <2>2, <3>1, <3>2, <3>3, <3>4, <3>5
  <2>3. CASE d < 0 - T
    <3>1. T <= S /\ d % T \in 0 .. T - 1
      BY <1>1, <2>3
    <3> QED
      BY <3>1
  <2> QED
    BY <2>1, <2>2, <2>3
<1> QED
  BY <1>1, <1>2

-----------------------------------------------------------------------------
(* The inductive invariant of the two clocks.  The time shown stands still *)
(* while ten counts the rounds in which the traveller's clock goes on: with *)
(* these rounds added it is, but for whole days, as far ahead of the       *)
(* traveller as when he set off.  A worker about to move the clock has     *)
(* already made the step of the time shown that was due.                   *)
Near(x) == \E k \in Int : x + k * Time \in 0 .. ShowStep + Minute - 1
Clocks ==
    /\ ten \in 0 .. Passes
    /\ pc = "moving" => ten < Passes
    /\ Rest # <<>> /\ ~disturbed /\ clock < MaxClock => Near(sysTime - clock + ten * Step)

LEMMA Units ==
    /\ Time \in Nat \ {0} /\ Minute \in Nat \ {0} /\ Step \in Nat \ {0} /\ ShowStep \in Nat
    /\ Passes \in Nat \ {0} /\ ShowStep = Passes * Step /\ MaxClock \in Nat
BY TravelAssumption, EmulatorAssumption DEF Time

LEMMA RoundsOfStep ==
    ASSUME NEW n \in 0 .. Passes
    PROVE  n * Step \in 0 .. ShowStep /\ (n + 1) * Step = n * Step + Step
<1>1. n * Step \in Nat /\ (Passes - n) * Step \in Nat
  BY Units
<1>2. Passes * Step = n * Step + (Passes - n) * Step
  BY Units
<1> QED
  BY <1>1, <1>2, Units

(* Whatever leaves both clocks alone and sets nobody off.                  *)
LEMMA SameClocks ==
    ASSUME Clocks, UNCHANGED <<tasks, adding, clock, sysTime, ten>>,
           pc' = "moving" => pc = "moving", disturbed => disturbed', disturbed' \in BOOLEAN
    PROVE  Clocks'
BY DEF Clocks, Rest

(* The step of the time shown: the count of rounds goes into it.           *)
LEMMA ShowTimeClocks ==
    ASSUME Journey, Clocks, ShowTime
    PROVE  Clocks'
<1>1. /\ UNCHANGED <<tasks, adding, clock, pc>> /\ pc = "round" /\ ten = Passes /\ ten' = 0
      /\ sysTime' = (sysTime + ShowStep) % Time
  BY DEF ShowTime
<1>2. disturbed => disturbed'
  BY Zenon DEF ShowTime
<1>3. ten' \in 0 .. Passes
  BY <1>1, Units
<1>4. ASSUME Rest # <<>>, ~disturbed', clock < MaxClock
      PROVE  Near(sysTime' - clock + ten' * Step)
  <2> DEFINE q == (sysTime + ShowStep) \div Time
  <2>1. clock \in Int /\ sysTime \in Int
    BY DEF Journey, Typed
  <2>2. q \in Int /\ sysTime' = sysTime + ShowStep - q * Time /\ sysTime' \in Int
    BY <1>1, <2>1, Units
  <2>3. PICK k \in Int : sysTime - clock + ten * Step + k * Time \in 0 .. ShowStep + Minute - 1
    BY <1>2, <1>4 DEF Clocks, Near
  <2> HIDE DEF q
  <2>4. ten' * Step = 0 /\ ten * Step = ShowStep
    BY <1>1, Units
  <2>5. k + q \in Int /\ (k + q) * Time = k * Time + q * Time
    BY <2>2, Units
  <2>6. k * Time \in Int /\ q * Time \in Int
    BY <2>2, Units
  <2>7. sysTime' - clock + 0 + (k + q) * Time = sysTime - clock + ShowStep + k * Time
    BY <2>1, <2>2, <2>5, <2>6, Units
  <2> QED
    BY <2>3, <2>4, <2>5, <2>7 DEF Near
<1>5. Rest' = Rest
  BY <1>1 DEF Rest
<1> QED
  BY <1>1, <1>3, <1>4, <1>5 DEF Clocks

(* A clock that was set to the minute shown is near, in whatever round.    *)
LEMMA SetNear ==
    ASSUME Journey, clock = MinuteOf(sysTime) * Minute, NEW n \in 0 .. Passes
    PROVE  Near(sysTime - clock + n * Step)
<1> DEFINE m == MinuteOf(sysTime)
<1>1. sysTime \in Nat
  BY DEF Journey, Typed
<1>2. m \in Nat /\ Minute * m <= sysTime /\ sysTime < Minute * m + Minute
  BY <1>1, MinuteBounds
<1>3. clock = m * Minute
  OBVIOUS
<1> HIDE DEF m
<1>4. clock \in Nat /\ sysTime - clock \in 0 .. Minute - 1
  BY <1>1, <1>2, <1>3, Units
<1>5. n * Step \in 0 .. ShowStep
  BY RoundsOfStep
<1>6. sysTime - clock + n * Step + 0 * Time \in 0 .. ShowStep + Minute - 1
  BY <1>1, <1>4, <1>5, Units
<1> QED
  BY <1>6 DEF Near

LEMMA StartQueryClocks ==
    ASSUME Journey, Clocks, NEW setoff \in BOOLEAN, StartQuery(setoff)
    PROVE  Clocks'
<1>1. /\ UNCHANGED <<sysTime, ten, pc, tasks, adding, clock>>
      /\ adding = <<>> /\ (setoff => tasks = <<>>)
  BY DEF StartQuery, worker, Idle
<1>2. disturbed' = (~setoff /\ disturbed) /\ disturbed \in BOOLEAN
  BY DEF StartQuery, Journey, Typed
<1>3. CASE setoff
  <2>1. Rest' = <<>>
    BY <1>1, <1>3 DEF Rest
  <2> QED
    BY <1>1, <2>1 DEF Clocks
<1>4. CASE ~setoff
  <2>1. disturbed' = disturbed
    BY <1>2, <1>4, Zenon
  <2> QED
    BY <1>1, <1>2, <2>1, SameClocks
<1> QED
  BY <1>3, <1>4

LEMMA SetClockClocks ==
    ASSUME Journey, Clocks, SetClock
    PROVE  Clocks'
<1>1. UNCHANGED <<sysTime, ten, pc, tasks, adding>> /\ query.stage = "started"
  BY DEF SetClock, worker
<1>2. tasks # <<>> => disturbed'
  BY Zenon DEF SetClock
<1>3. adding = <<>>
  BY <1>1 DEF Journey, Typed, Asking
<1>4. tasks = <<>> => Rest' = <<>>
  BY <1>1, <1>3 DEF Rest
<1> QED
  BY <1>1, <1>2, <1>4 DEF Clocks

LEMMA FindRouteClocks ==
    ASSUME Journey, Clocks, FindRoute
    PROVE  Clocks'
<1>1. /\ UNCHANGED <<sysTime, ten, pc, tasks, clock, disturbed>>
      /\ query.stage = "read"
  BY DEF FindRoute, QueryOver, worker
<1>2. CASE query.setoff
  <2>1. ASSUME ~disturbed PROVE Near(sysTime - clock + ten * Step)
    <3>1. clock = MinuteOf(sysTime) * Minute
      BY <1>1, <1>2, <2>1 DEF Journey, Fresh, Setting
    <3>2. ten \in 0 .. Passes
      BY DEF Clocks
    <3> QED
      BY <3>1, <3>2, SetNear
  <2> QED
    BY <1>1, <2>1 DEF Clocks
<1>3. CASE ~query.setoff
  <2>1. adding' = <<>> /\ adding = <<>>
    BY <1>1, <1>3 DEF FindRoute, Journey, Typed, Asking
  <2> QED
    BY <1>1, <2>1, SameClocks DEF Journey, Typed
<1> QED
  BY <1>2, <1>3

(* An idle round before the first task is there counts for the time shown  *)
(* alone, but the clock was set no longer ago than its last step.          *)
LEMMA IdleRoundClocks ==
    ASSUME Journey, Clocks, IdleRound
    PROVE  Clocks'
<1>1. /\ UNCHANGED <<tasks, adding, clock, sysTime, disturbed>> /\ tasks = <<>>
      /\ pc' = "between" /\ ten' = ten + 1 /\ ten # Passes
  BY DEF IdleRound, InRound
<1>2. ten' \in 0 .. Passes
  BY <1>1, Units DEF Clocks
<1>3. CASE adding = <<>>
  <2>1. Rest' = <<>>
    BY <1>1, <1>3 DEF Rest
  <2> QED
    BY <1>1, <1>2, <2>1 DEF Clocks
<1>4. CASE adding # <<>>
  <2>1. ASSUME ~disturbed PROVE Near(sysTime - clock + ten' * Step)
    <3>1. clock = MinuteOf(sysTime) * Minute
      BY <1>1, <1>4, <2>1 DEF Journey, Fresh, Setting
    <3> QED
      BY <1>2, <3>1, SetNear
  <2> QED
    BY <1>1, <1>2, <2>1 DEF Clocks
<1> QED
  BY <1>3, <1>4

LEMMA UpdateStatusClocks ==
    ASSUME Journey, Clocks, UpdateStatus
    PROVE  Clocks'
<1>1. /\ UNCHANGED <<sysTime, ten, clock>> /\ pc' = "moving" /\ ten # Passes
      /\ tasks # <<>>
  BY DEF UpdateStatus, InRound
<1>2. disturbed => disturbed'
  BY Zenon DEF UpdateStatus
<1>3. Rest # <<>>
  <2>1. tasks \in Seq(Tasks) /\ adding \in Seq(Tasks)
    BY DEF Journey, Typed
  <2>2. Len(tasks) \in Nat \ {0} /\ Len(adding) \in Nat
    BY <1>1, <2>1, EmptySeq, LenProperties
  <2>3. Len(Rest) = Len(tasks) + Len(adding)
    BY RestType DEF Journey
  <2> QED
    BY <2>2, <2>3
<1>4. ten \in 0 .. Passes /\ ten < Passes
  BY <1>1, Units DEF Clocks
<1> QED
  BY <1>1, <1>2, <1>3, <1>4 DEF Clocks

LEMMA MoveClockClocks ==
    ASSUME Journey, Clocks, MoveClock
    PROVE  Clocks'
<1>1. /\ UNCHANGED <<sysTime, tasks, adding, disturbed>>
      /\ pc = "moving" /\ pc' = "between" /\ ten' = ten + 1 /\ Rest' = Rest
  BY DEF MoveClock, Rest
<1>2. PICK t \in {clock, seen} : clock' = IF t + Step <= MaxClock THEN t + Step ELSE MaxClock
  BY DEF MoveClock
<1>3. ten \in 0 .. Passes - 1 /\ ten' \in 0 .. Passes
  BY <1>1, Units DEF Clocks
<1>4. ASSUME Rest # <<>>, ~disturbed, clock' < MaxClock
      PROVE  Near(sysTime - clock' + ten' * Step)
  <2>1. t = clock /\ clock \in Nat /\ sysTime \in Int
    BY <1>1, <1>2, <1>4 DEF Journey, Typed, OnTime
  <2>2. clock' = clock + Step /\ clock < MaxClock
    BY <1>2, <1>4, <2>1, Units
  <2>3. ten' * Step = ten * Step + Step /\ ten * Step \in Int
    <3>1. ten \in 0 .. Passes
      BY DEF Clocks
    <3> QED
      BY <1>1, <3>1, RoundsOfStep
  <2>4. sysTime - clock' + ten' * Step = sysTime - clock + ten * Step
    BY <2>1, <2>2, <2>3, Units
  <2> QED
    BY <1>4, <2>2, <2>4 DEF Clocks
<1> QED
  BY <1>1, <1>3, <1>4 DEF Clocks

LEMMA AddTaskClocks ==
    ASSUME Journey, Clocks, AddTask
    PROVE  Clocks'
<1>1. UNCHANGED <<sysTime, ten, pc, clock, disturbed>>
  BY DEF AddTask, worker
<1>2. Rest # <<>>
  <2>1. tasks \in Seq(Tasks) /\ adding \in Seq(Tasks) /\ adding # <<>>
    BY DEF AddTask, Journey, Typed
  <2>2. Len(adding) \in Nat \ {0} /\ Len(tasks) \in Nat
    BY <2>1, EmptySeq, LenProperties
  <2>3. Len(Rest) = Len(tasks) + Len(adding)
    BY RestType DEF Journey
  <2> QED
    BY <2>2, <2>3
<1> QED
  BY <1>1, <1>2 DEF Clocks

LEMMA StepClocks == Journey /\ Clocks /\ [Next]_vars => Clocks'
<1> SUFFICES ASSUME Journey, Clocks, [Next]_vars PROVE Clocks'
  OBVIOUS
<1>0. disturbed \in BOOLEAN
  BY DEF Journey, Typed
<1>1. CASE MoveDrawer \/ DrawerOpened \/ DrawerClosed
  BY <1>0, <1>1, SameClocks DEF MoveDrawer, DrawerOpened, DrawerClosed, worker
<1>2. ASSUME NEW setoff \in BOOLEAN, StartQuery(setoff)
      PROVE  Clocks'
  BY <1>2, StartQueryClocks
<1>3. CASE SetClock \/ FindRoute
  BY <1>3, SetClockClocks, FindRouteClocks
<1>4. CASE AddTask
  BY <1>4, AddTaskClocks
<1>5. CASE CloseWindow \/ Destroy \/ ReadTime
  BY <1>0, <1>5, SameClocks DEF CloseWindow, Destroy, ReadTime, worker
<1>6. CASE WaitPaused \/ Enter
  BY <1>0, <1>6, SameClocks DEF WaitPaused, Enter
<1>7. CASE ShowTime
  BY <1>7, ShowTimeClocks
<1>8. CASE IdleRound
  BY <1>8, IdleRoundClocks
<1>9. CASE UpdateStatus
  BY <1>9, UpdateStatusClocks
<1>10. CASE MoveClock
  BY <1>10, MoveClockClocks
<1>11. CASE WriteLog
  BY <1>0, <1>11, SameClocks DEF WriteLog, worker
<1>12. CASE UNCHANGED vars
  BY <1>0, <1>12, SameClocks DEF vars, worker
<1> QED
  BY <1>1, <1>2, <1>3, <1>4, <1>5, <1>6, <1>7, <1>8, <1>9, <1>10, <1>11, <1>12 DEF Next

LEMMA NearAgrees ==
    ASSUME Journey, Clocks
    PROVE  ClocksAgree
<1> SUFFICES ASSUME tasks # <<>>, ~disturbed, clock < MaxClock
             PROVE  \/ (sysTime - clock) % Time < ShowStep + Minute
                    \/ Time - ((sysTime - clock) % Time) <= ShowStep
  BY DEF ClocksAgree
<1>1. Rest # <<>>
  <2>1. tasks \in Seq(Tasks) /\ adding \in Seq(Tasks)
    BY DEF Journey, Typed
  <2>2. Len(tasks) \in Nat \ {0} /\ Len(adding) \in Nat
    BY <2>1, EmptySeq, LenProperties
  <2>3. Len(Rest) = Len(tasks) + Len(adding)
    BY RestType DEF Journey
  <2> QED
    BY <2>2, <2>3
<1>2. PICK k \in Int : sysTime - clock + ten * Step + k * Time \in 0 .. ShowStep + Minute - 1
  BY <1>1 DEF Clocks, Near
<1>3. sysTime - clock \in Int /\ ten * Step \in 0 .. ShowStep
  BY RoundsOfStep DEF Journey, Typed, Clocks
<1> DEFINE a == sysTime - clock
           d == a + k * Time
           l == 0 - k
<1>4. k * Time \in Int /\ l \in Int /\ l * Time = 0 - k * Time
  BY Units
<1>5. a \in Int /\ d \in 0 - ShowStep .. ShowStep + Minute - 1 /\ a = d + l * Time
  <2>1. ShowStep \in Int /\ Minute \in Int
    BY Units
  <2>2. a + ten * Step + k * Time \in 0 .. ShowStep + Minute - 1
    BY <1>2
  <2> HIDE DEF a
  <2> QED
    BY <1>3, <1>4, <2>1, <2>2 DEF a
<1> HIDE DEF a, d, l
<1>6. ShowStep + Minute \in Nat
  BY Units
<1>7. a % Time < ShowStep + Minute \/ Time - (a % Time) <= ShowStep
  BY <1>4, <1>5, <1>6, Units, AheadBounds
<1> QED
  BY <1>7 DEF a

\* The traveller has a clock of his own, moved by another count of the same
\* rounds than the time shown (mainLoop, BackendBase.cpp:132).  Set by two
\* readings of one time, and left alone on the way, it stays near the time
\* shown over any number of pauses, days and rounds.
THEOREM ClocksTogether == Spec => []ClocksAgree
<1>1. Init => Clocks
  BY Units DEF Init, Clocks, Rest
<1>2. Journey /\ Clocks => ClocksAgree
  BY NearAgrees
<1> QED
  BY <1>1, <1>2, JourneySound, StepClocks, PTL DEF Spec

-----------------------------------------------------------------------------
(* The answer to the query before.  A query that does not set off is       *)
(* answered by what the search finds in the timetable that was read.       *)
Answered ==
    LET a == answer
    IN  a.rides # <<>> =>
            /\ InOrder(a.rides, a.start) /\ Scheduled(a.rides, table)
            /\ FromTo(a.rides, a.from, a.dest, a.start, a.limit)

LEMMA SameAnswer == UNCHANGED <<table, answer>> /\ Answered => Answered'
BY DEF Answered

LEMMA StepAnswered == Journey /\ Answered /\ [Next]_vars => Answered'
<1> SUFFICES ASSUME Journey, Answered, [Next]_vars PROVE Answered'
  OBVIOUS
<1>1. CASE FindRoute
  <2>1. query.setoff \in BOOLEAN /\ table \in Timetables /\ table' = table
    BY <1>1 DEF FindRoute, Journey, Typed, Asking, QueryType
  <2>2. PICK trip \in Routes(query.setoff), now \in 0 .. Day - 1 :
            \/ answer' = NoAnswer
            \/ answer' = [from |-> trip[1], dest |-> trip[2], start |-> StartOf(trip, now),
                          limit |-> trip[4],
                          rides |-> RidesOf(table, trip, StartOf(trip, now))]
    BY <1>1, RouteChosen
  <2>3. trip \in Trips \cup Questions
    BY <2>1, RoutesAre
  <2> DEFINE startT == StartOf(trip, now)
             found == RidesOf(table, trip, startT)
  <2>4. startT \in Nat
    BY <2>3, TripIs
  <2>5. \/ answer' = NoAnswer
        \/ answer' = [from |-> trip[1], dest |-> trip[2], start |-> startT,
                      limit |-> trip[4], rides |-> found]
    BY <2>2
  <2> HIDE DEF startT
  <2>6. /\ InOrder(found, startT) /\ Scheduled(found, table)
        /\ FromTo(found, trip[1], trip[2], startT, trip[4])
    BY <2>1, <2>3, <2>4, FoundSound
  <2> HIDE DEF found
  <2>7. CASE answer' = NoAnswer
    BY <2>7 DEF NoAnswer, Answered
  <2>8. CASE answer' = [from |-> trip[1], dest |-> trip[2], start |-> startT,
                        limit |-> trip[4], rides |-> found]
    <3>1. /\ answer'.from = trip[1] /\ answer'.dest = trip[2] /\ answer'.start = startT
          /\ answer'.limit = trip[4] /\ answer'.rides = found
      BY <2>8
    <3> QED
      BY <2>1, <2>6, <3>1 DEF Answered
  <2> QED
    BY <2>5, <2>7, <2>8
<1>2. ASSUME NEW setoff \in BOOLEAN, StartQuery(setoff)
      PROVE  Answered'
  BY <1>2, SameAnswer DEF StartQuery
<1>3. CASE MoveDrawer \/ DrawerOpened \/ DrawerClosed \/ SetClock \/ ReadTime \/ AddTask
  BY <1>3, SameAnswer DEF MoveDrawer, DrawerOpened, DrawerClosed, SetClock, ReadTime, AddTask,
                          search
<1>4. CASE CloseWindow \/ Destroy \/ WaitPaused \/ Enter \/ ShowTime
  BY <1>4, SameAnswer DEF CloseWindow, Destroy, WaitPaused, Enter, ShowTime, search
<1>5. CASE IdleRound \/ UpdateStatus \/ MoveClock \/ WriteLog
  BY <1>5, SameAnswer DEF IdleRound, UpdateStatus, MoveClock, WriteLog, search
<1>6. CASE UNCHANGED vars
  BY <1>6, SameAnswer DEF vars, search
<1> QED
  BY <1>1, <1>2, <1>3, <1>4, <1>5, <1>6 DEF Next

LEMMA AnswersSound == Spec => []Answered
<1>1. Init => Answered
  BY DEF Init, NoAnswer, Answered
<1> QED
  BY <1>1, JourneySound, StepAnswered, PTL DEF Spec

\* runWithAlgorithmDij tests the limit for rides from the first city
\* (AlgorithmHelper.cpp:79) and for later ones (:142) in different words: no
\* answer takes longer than its query allows.
THEOREM WithinLimit == Spec => []LimitKept
<1>1. Answered => LimitKept
  BY DEF Answered, FromTo, LimitKept
<1> QED
  BY <1>1, AnswersSound, PTL

\* The way back through prev (AlgorithmHelper.cpp:175) comes to the first city,
\* and the rides along it can be taken one after the other: on any timetable.
THEOREM RidesCanBeTaken == Spec => []RidesConnect
<1>1. ASSUME Answered, Journey PROVE RidesConnect
  <2> DEFINE r == answer.rides
  <2>1. SUFFICES ASSUME r # <<>>
                 PROVE  /\ r[1].from = answer.from /\ r[1].depart >= answer.start
                        /\ r[Len(r)].dest = answer.dest
                        /\ \A i \in 1 .. Len(r) - 1 :
                              r[i + 1].from = r[i].dest /\ r[i + 1].depart >= r[i].arrive
                        /\ \A i \in 1 .. Len(r) : \E k \in DOMAIN table[r[i].from] :
                              LET d == table[r[i].from][k]
                              IN  /\ d.dest = r[i].dest /\ d.start = r[i].depart % Day
                                  /\ d.cost = r[i].arrive - r[i].depart
    BY DEF RidesConnect
  <2> HIDE DEF r
  <2>2. /\ InOrder(r, answer.start) /\ Scheduled(r, table)
        /\ FromTo(r, answer.from, answer.dest, answer.start, answer.limit)
    BY <1>1, <2>1 DEF Answered, r
  <2>3. r \in Seq(Ride) /\ Len(r) \in Nat \ {0}
    BY <2>1, <2>2, EmptySeq, LenProperties DEF InOrder
  <2>4. r[1].from = answer.from /\ r[Len(r)].dest = answer.dest
    BY <2>1, <2>2 DEF FromTo
  <2>5. answer.start <= r[1].depart
    BY <2>2, <2>3 DEF InOrder
  <2>6. ASSUME NEW i \in 1 .. Len(r)
        PROVE  r[i].arrive \in Nat /\ r[i].depart \in Nat /\ r[i].from \in City
    <3>1. r[i] \in Ride
      BY <2>3, ElementOfSeq
    <3> QED
      BY <3>1 DEF Ride
  <2>7. ASSUME NEW i \in 1 .. Len(r) - 1
        PROVE  r[i + 1].from = r[i].dest /\ r[i + 1].depart >= r[i].arrive
    <3>1. i \in 1 .. Len(r) /\ i + 1 \in 1 .. Len(r) /\ i < i + 1
      BY <2>3
    <3>2. r[i].dest = r[i + 1].from /\ r[i].arrive <= r[i + 1].depart
      BY <2>2, <3>1 DEF InOrder
    <3> QED
      BY <2>6, <3>1, <3>2
  <2>8. ASSUME NEW i \in 1 .. Len(r)
        PROVE  \E k \in DOMAIN table[r[i].from] :
                    LET d == table[r[i].from][k]
                    IN  /\ d.dest = r[i].dest /\ d.start = r[i].depart % Day
                        /\ d.cost = r[i].arrive - r[i].depart
    <3>1. DOMAIN table[r[i].from] = 1 .. Len(table[r[i].from])
      <4>1. table[r[i].from] \in Seq(Departure)
        BY <1>1, <2>6, EmulatorAssumption DEF Journey, Typed
      <4> QED
        BY <4>1, LenProperties
    <3> QED
      BY <2>2, <3>1, Zenon DEF Scheduled
  <2>9. r[1].depart >= answer.start
    BY <2>5
  <2> QED
    BY <2>4, <2>7, <2>8, <2>9
<1> QED
  BY <1>1, AnswersSound, JourneySound, PTL

LEMMA StepFound == Journey /\ FoundIfReachable /\ [Next]_vars => FoundIfReachable'
<1> SUFFICES ASSUME Journey, FoundIfReachable, [Next]_vars PROVE FoundIfReachable'
  OBVIOUS
<1>1. CASE FindRoute
  <2>1. query.setoff \in BOOLEAN /\ table \in Timetables /\ table' = table
    BY <1>1 DEF FindRoute, Journey, Typed, Asking, QueryType
  <2>2. PICK trip \in Routes(query.setoff), now \in 0 .. Day - 1 :
            \/ answer' = NoAnswer
            \/ answer' = [from |-> trip[1], dest |-> trip[2], start |-> StartOf(trip, now),
                          limit |-> trip[4],
                          rides |-> RidesOf(table, trip, StartOf(trip, now))]
    BY <1>1, RouteChosen
  <2>3. trip \in Trips \cup Questions /\ trip[1] # trip[2]
    BY <2>1, RoutesAre
  <2> DEFINE startT == StartOf(trip, now)
             found == RidesOf(table, trip, startT)
  <2>4. startT \in Nat /\ trip[1] \in City /\ trip[2] \in City
    BY <2>3, TripIs
  <2>5. table \in Timetable /\ Low(table)
    BY <2>1, EmulatorAssumption, InfinityAssumption DEF Timetable, Low
  <2>6. \/ answer' = NoAnswer
        \/ answer' = [from |-> trip[1], dest |-> trip[2], start |-> startT,
                      limit |-> trip[4], rides |-> found]
    BY <2>2
  <2> HIDE DEF startT
  <2>7. CASE answer' = NoAnswer
    BY <2>7 DEF NoAnswer, FoundIfReachable
  <2>8. CASE answer' = [from |-> trip[1], dest |-> trip[2], start |-> startT,
                        limit |-> trip[4], rides |-> found]
    <3>1. /\ answer'.from = trip[1] /\ answer'.dest = trip[2]
          /\ answer'.limit = trip[4] /\ answer'.rides = found
      BY <2>8
    <3>2. trip[4] = INF => (found = <<>> <=> trip[2] \notin Reachable(table, trip[1]))
      BY <2>3, <2>4, <2>5, RouteFound DEF RidesOf
    <3> QED
      BY <2>1, <3>1, <3>2 DEF FoundIfReachable
  <2> QED
    BY <2>6, <2>7, <2>8
<1>2. UNCHANGED <<table, answer>> => FoundIfReachable'
  BY DEF FoundIfReachable
<1>3. ASSUME NEW setoff \in BOOLEAN, StartQuery(setoff)
      PROVE  FoundIfReachable'
  BY <1>2, <1>3 DEF StartQuery
<1>4. CASE MoveDrawer \/ DrawerOpened \/ DrawerClosed \/ SetClock \/ ReadTime \/ AddTask
  BY <1>2, <1>4 DEF MoveDrawer, DrawerOpened, DrawerClosed, SetClock, ReadTime, AddTask, search
<1>5. CASE CloseWindow \/ Destroy \/ WaitPaused \/ Enter \/ ShowTime
  BY <1>2, <1>5 DEF CloseWindow, Destroy, WaitPaused, Enter, ShowTime, search
<1>6. CASE IdleRound \/ UpdateStatus \/ MoveClock \/ WriteLog
  BY <1>2, <1>6 DEF IdleRound, UpdateStatus, MoveClock, WriteLog, search
<1>7. CASE UNCHANGED vars
  BY <1>2, <1>7 DEF vars, search
<1> QED
  BY <1>1, <1>3, <1>4, <1>5, <1>6, <1>7 DEF Next

\* risks[] keeps the risk of the last ride alone, cut off to an int, and a city
\* is reached anew by every better ride (AlgorithmHelper.cpp:152): even so the
\* search comes to every city that departures lead to, and to no other.
THEOREM FindsAWay == Spec => []FoundIfReachable
<1>1. Init => FoundIfReachable
  BY DEF Init, NoAnswer, FoundIfReachable
<1> QED
  BY <1>1, JourneySound, StepFound, PTL DEF Spec

-----------------------------------------------------------------------------
(* Types.  With what Journey and Clocks say of the variables: no task ends *)
(* before it begins, and the bound of the clock is after all of them.      *)
Bounded == {t \in Tasks : t.start <= t.end /\ t.start < MinuteOf(MaxClock)}
Kinds ==
    /\ tasks \in Seq(Bounded) /\ adding \in Seq(Bounded) /\ log \in Seq(Bounded)
    /\ drawer \in {"hidden", "moving", "open"} /\ pc \in {"between", "waiting", "round", "moving"}
    /\ paused \in BOOLEAN /\ running \in BOOLEAN /\ logging \in BOOLEAN /\ up \in BOOLEAN
    /\ clock \in 0 .. MaxClock /\ seen \in {NoTime} \cup 0 .. MaxClock
    /\ asked \in 0 .. MaxQueries

(* The tasks of a ride begin between the minute one is there and the       *)
(* minute the ride arrives.                                                *)
LEMMA TasksBounded ==
    ASSUME NEW startT \in Nat, NEW rides, InOrder(rides, startT),
           \A i \in 1 .. Len(rides) : rides[i].arrive < MinuteOf(MaxClock)
    PROVE  TasksOf(rides, startT) \in Seq(Bounded)
<1> DEFINE there(i) == IF i = 1 THEN startT ELSE rides[i - 1].arrive
           three(i, r) == <<Task(there(i), r.depart, "Waiting", r.from, r.from),
                            Task(r.depart, r.arrive, "Traveling", r.from, r.dest),
                            Task(r.arrive, r.arrive, "Arrive", r.dest, r.dest)>>
           ride(k) == (k + 2) \div 3
           n == Len(rides)
           task(k) == three(ride(k), rides[ride(k)])[((k + 2) % 3) + 1]
           m == MinuteOf(MaxClock)
<1>1. TasksOf(rides, startT) = [k \in 1 .. 3 * n |-> task(k)]
  BY DEF TasksOf
<1>2. /\ n \in Nat /\ m \in Nat
      /\ \A i \in 1 .. n : /\ rides[i] \in Ride
                           /\ startT <= rides[i].depart /\ rides[i].depart <= rides[i].arrive
      /\ \A i, j \in 1 .. n : i < j => rides[i].arrive <= rides[j].depart
  <2>1. n \in Nat /\ \A i \in 1 .. n : rides[i] \in Ride
    BY ElementOfSeq, LenProperties DEF InOrder
  <2>2. m \in Nat
    BY MinuteBounds, Units
  <2> HIDE DEF m
  <2> QED
    BY <2>1, <2>2 DEF InOrder
<1>3. ASSUME NEW i \in 1 .. n
      PROVE  /\ rides[i].from \in City /\ rides[i].dest \in City
             /\ rides[i].depart \in Nat /\ rides[i].arrive \in Nat
             /\ rides[i].depart <= rides[i].arrive /\ rides[i].arrive < m
             /\ there(i) \in Nat /\ there(i) <= rides[i].depart
  <2>1. /\ rides[i].from \in City /\ rides[i].dest \in City
        /\ rides[i].depart \in Nat /\ rides[i].arrive \in Nat
    BY <1>2 DEF Ride
  <2>2. CASE i = 1
    BY <1>2, <2>1, <2>2
  <2>3. CASE i # 1
    <3>1. i - 1 \in 1 .. n /\ i - 1 < i
      BY <1>2, <2>3
    <3>2. rides[i - 1].arrive <= rides[i].depart
      BY <1>2, <3>1
    <3>3. rides[i - 1].arrive \in Nat
      BY <1>2, <3>1 DEF Ride
    <3> QED
      BY <1>2, <2>1, <2>3, <3>2, <3>3
  <2> QED
    BY <2>2, <2>3
<1>4. ASSUME NEW k \in 1 .. 3 * n PROVE task(k) \in Bounded
  <2> DEFINE i == ride(k)
             r == rides[i]
             z == (k + 2) % 3
  <2>1. i \in 1 .. n /\ z \in 0 .. 2
    <3>1. n \in Nat
      BY <1>2
    <3> HIDE DEF n
    <3> QED
      BY <3>1
  <2>2. /\ r.from \in City /\ r.dest \in City
        /\ r.depart \in Nat /\ r.arrive \in Nat /\ r.depart <= r.arrive /\ r.arrive < m
        /\ there(i) \in Nat /\ there(i) <= r.depart
    BY <1>3, <2>1
  <2>3. task(k) = three(i, r)[z + 1]
    OBVIOUS
  <2> HIDE DEF i, z
  <2>4. \/ task(k) = Task(there(i), r.depart, "Waiting", r.from, r.from)
        \/ task(k) = Task(r.depart, r.arrive, "Traveling", r.from, r.dest)
        \/ task(k) = Task(r.arrive, r.arrive, "Arrive", r.dest, r.dest)
    BY <2>1, <2>3
  <2> HIDE DEF task, r, there, m
  <2>5. ASSUME NEW a \in Nat, NEW b \in Nat, a <= b, a < m, NEW c \in City, NEW d \in City,
               NEW kind \in Behavior
        PROVE  Task(a, b, kind, c, d) \in Bounded
    BY <2>5 DEF Bounded, Tasks, Task, m
  <2>6. {"Waiting", "Traveling", "Arrive"} \subseteq Behavior
    BY DEF Behavior
  <2>7. there(i) < m /\ r.depart < m
    BY <1>2, <2>2
  <2>8. CASE task(k) = Task(there(i), r.depart, "Waiting", r.from, r.from)
    BY <2>2, <2>5, <2>6, <2>7, <2>8
  <2>9. CASE task(k) = Task(r.depart, r.arrive, "Traveling", r.from, r.dest)
    BY <2>2, <2>5, <2>6, <2>7, <2>9
  <2>10. CASE task(k) = Task(r.arrive, r.arrive, "Arrive", r.dest, r.dest)
    BY <2>2, <2>5, <2>6, <2>7, <2>10
  <2> QED
    BY <2>4, <2>8, <2>9, <2>10
<1> HIDE DEF task
<1>5. 3 * n \in Nat
  BY <1>2
<1> QED
  BY <1>1, <1>4, <1>5

LEMMA SetClockKinds ==
    ASSUME Journey, Kinds, SetClock
    PROVE  Kinds'
<1>1. PICK minute \in 0 .. Day - 1 : clock' = minute * Minute
  BY ClockSet
<1>2. clock' \in 0 .. MaxClock
  <2>1. Day \in Nat /\ Minute \in Nat /\ Day * Minute <= MaxClock
    BY TravelAssumption, Units, ClockAssumption
  <2>2. minute * Minute \in Nat /\ minute * Minute <= Day * Minute
    BY <2>1
  <2> QED
    BY <1>1, <2>1, <2>2, Units
<1>3. UNCHANGED <<tasks, adding, log, drawer, pc, paused, running, logging, up, seen, asked>>
  BY DEF SetClock, screen, worker
<1> QED
  BY <1>2, <1>3 DEF Kinds

LEMMA FindRouteKinds ==
    ASSUME Journey, Kinds, FindRoute
    PROVE  Kinds'
<1>1. query.setoff \in BOOLEAN /\ table \in Timetables
  BY DEF Journey, Typed, Asking, QueryType
<1>2. PICK trip \in Routes(query.setoff), now \in 0 .. Day - 1 :
            adding' = IF query.setoff
                      THEN TasksOf(RidesOf(table, trip, StartOf(trip, now)), StartOf(trip, now))
                      ELSE <<>>
  BY RouteChosen
<1>3. adding' \in Seq(Bounded)
  <2>1. CASE query.setoff
    <3> DEFINE startT == StartOf(trip, now)
               found == RidesOf(table, trip, startT)
    <3>1. trip \in Trips /\ adding' = TasksOf(found, startT)
      BY <1>1, <1>2, <2>1, RoutesAre
    <3>2. startT \in Nat
      BY <3>1, TripIs
    <3>3. \A i \in 1 .. Len(found) : found[i].arrive < MinuteOf(MaxClock)
      BY <1>1, <3>1, ClockAssumption DEF MinuteOf
    <3> HIDE DEF startT
    <3>4. InOrder(found, startT)
      BY <1>1, <3>1, <3>2, FoundSound
    <3> HIDE DEF found
    <3> QED
      BY <3>1, <3>2, <3>3, <3>4, TasksBounded
  <2>2. CASE ~query.setoff
    <3>1. adding' = <<>>
      BY <1>2, <2>2
    <3> QED
      BY <3>1, EmptySeq
  <2> QED
    BY <2>1, <2>2
<1>4. UNCHANGED <<tasks, log, drawer, pc, paused, running, logging, up, seen, clock, asked>>
  BY DEF FindRoute, screen, worker
<1> QED
  BY <1>3, <1>4 DEF Kinds

LEMMA UpdateStatusKinds ==
    ASSUME Kinds, UpdateStatus
    PROVE  Kinds'
<1>1. PICK n \in 0 .. Len(tasks) : /\ tasks' = SubSeq(tasks, n + 1, Len(tasks))
                                   /\ log' = log \o SubSeq(tasks, 1, n)
  BY DEF UpdateStatus
<1>2. tasks \in Seq(Bounded) /\ log \in Seq(Bounded) /\ Len(tasks) \in Nat
  BY LenProperties DEF Kinds
<1>3. \A i \in 1 .. Len(tasks) : tasks[i] \in Bounded
  BY <1>2, ElementOfSeq
<1>4. SubSeq(tasks, n + 1, Len(tasks)) \in Seq(Bounded) /\ SubSeq(tasks, 1, n) \in Seq(Bounded)
  BY <1>2, <1>3, SubSeqProperties
<1>5. log \o SubSeq(tasks, 1, n) \in Seq(Bounded)
  BY <1>2, <1>4, ConcatProperties
<1>6. /\ UNCHANGED <<adding, drawer, paused, running, logging, clock, asked>>
      /\ pc' = "moving" /\ seen' = clock /\ up' \in BOOLEAN
  BY DEF UpdateStatus, screen, search
<1> QED
  BY <1>1, <1>4, <1>5, <1>6 DEF Kinds

LEMMA StepKinds == Journey /\ Kinds /\ [Next]_vars => Kinds'
<1> SUFFICES ASSUME Journey, Kinds, [Next]_vars PROVE Kinds'
  OBVIOUS
<1>1. CASE MoveDrawer \/ DrawerOpened \/ DrawerClosed
  BY <1>1 DEF Kinds, MoveDrawer, DrawerOpened, DrawerClosed, worker, search
<1>2. ASSUME NEW setoff \in BOOLEAN, StartQuery(setoff) PROVE Kinds'
  <2>1. asked' \in 0 .. MaxQueries
    BY <1>2, EmulatorAssumption DEF StartQuery, Kinds
  <2> QED
    BY <1>2, <2>1 DEF StartQuery, Kinds, screen, worker
<1>3. CASE SetClock \/ ReadTime \/ FindRoute
  <2>1. CASE ReadTime
    BY <2>1 DEF Kinds, ReadTime, screen, worker
  <2> QED
    BY <1>3, <2>1, SetClockKinds, FindRouteKinds
<1>4. CASE AddTask
  <2>1. /\ tasks \in Seq(Bounded) /\ adding \in Seq(Bounded) /\ adding # <<>>
        /\ tasks' = Append(tasks, Head(adding)) /\ adding' = Tail(adding)
    BY <1>4 DEF AddTask, Kinds
  <2>2. tasks' \in Seq(Bounded) /\ adding' \in Seq(Bounded)
    BY <2>1, HeadTailProperties, AppendProperties
  <2> QED
    BY <1>4, <2>2 DEF Kinds, AddTask, screen, worker, search
<1>5. CASE CloseWindow \/ Destroy
  BY <1>5 DEF Kinds, CloseWindow, Destroy, screen, worker, search
<1>6. CASE WaitPaused \/ Enter
  BY <1>6 DEF Kinds, WaitPaused, Enter, screen, search
<1>7. CASE ShowTime \/ IdleRound
  BY <1>7 DEF Kinds, ShowTime, IdleRound, screen, search
<1>8. CASE UpdateStatus
  BY <1>8, UpdateStatusKinds
<1>9. CASE MoveClock
  <2>1. PICK t \in {clock, seen} : clock' = IF t + Step <= MaxClock THEN t + Step ELSE MaxClock
    BY <1>9 DEF MoveClock
  <2>2. t \in Nat
    BY <1>9, <2>1 DEF MoveClock, Journey, Typed
  <2>3. clock' \in 0 .. MaxClock
    BY <2>1, <2>2, Units
  <2>4. /\ UNCHANGED <<tasks, adding, log, drawer, paused, running, logging, up, asked>>
        /\ pc' = "between" /\ seen' = NoTime
    BY <1>9 DEF MoveClock, screen, search
  <2> QED
    BY <2>3, <2>4 DEF Kinds
<1>10. CASE WriteLog
  <2>1. log \in Seq(Bounded) /\ log # <<>> /\ log' = Tail(log)
    BY <1>10 DEF WriteLog, Kinds
  <2>2. log' \in Seq(Bounded)
    BY <2>1, HeadTailProperties
  <2> QED
    BY <1>10, <2>2 DEF Kinds, WriteLog, screen, worker, search
<1>11. CASE UNCHANGED vars
  BY <1>11 DEF Kinds, vars, screen, worker, search
<1> QED
  BY <1>1, <1>2, <1>3, <1>4, <1>5, <1>6, <1>7, <1>8, <1>9, <1>10, <1>11 DEF Next

\* Whatever is asked and however the threads take turns: the clocks, the count
\* of rounds, the queue and the log stay in their ranges, and no task is of a
\* place that does not exist, or ends before it begins.
THEOREM TypesKept == Spec => []TypeOK
<1>1. Init => Kinds
  <2>1. Init => tasks \in Seq(Bounded) /\ adding \in Seq(Bounded) /\ log \in Seq(Bounded)
    BY EmptySeq DEF Init
  <2>2. 0 \in 0 .. MaxClock /\ 0 \in 0 .. MaxQueries
    BY Units, EmulatorAssumption
  <2> QED
    BY <2>1, <2>2 DEF Init, Kinds
<1>2. Init => Clocks
  BY Units DEF Init, Clocks, Rest
<1>3. ASSUME Journey, Clocks, Kinds PROVE TypeOK
  <2>1. ASSUME NEW q \in {tasks, adding, log}, NEW i \in 1 .. Len(q)
        PROVE  /\ q[i].kind \in Behavior /\ {q[i].from, q[i].dest} \subseteq City
               /\ 0 <= q[i].start /\ q[i].start <= q[i].end
               /\ q[i].start < MinuteOf(MaxClock)
    <3>1. q \in Seq(Bounded)
      BY <1>3, <2>1 DEF Kinds
    <3>2. q[i] \in Bounded
      BY <2>1, <3>1, ElementOfSeq
    <3> QED
      BY <3>2 DEF Bounded, Tasks
  <2>2. {paused, running, logging, up, disturbed} \subseteq BOOLEAN
    <3>1. /\ paused \in BOOLEAN /\ running \in BOOLEAN /\ logging \in BOOLEAN /\ up \in BOOLEAN
          /\ disturbed \in BOOLEAN
      BY <1>3 DEF Kinds, Journey, Typed
    <3> QED
      BY <3>1, Zenon
  <2>3. /\ query.stage \in {"none", "started", "set", "read"}
        /\ query.first \in {NoTime} \cup 0 .. Time - 1 /\ query.setoff \in BOOLEAN
    BY <1>3 DEF Journey, Typed, Asking, QueryType
  <2> QED
    BY <1>3, <2>1, <2>2, <2>3 DEF TypeOK, Kinds, Clocks, Journey, Typed
<1> QED
  BY <1>1, <1>2, <1>3, JourneySound, StepClocks, StepKinds, PTL DEF Spec
==============================================================================
