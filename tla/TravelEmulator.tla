--------------------------- MODULE TravelEmulator ---------------------------
(***************************************************************************)
(* The travel emulator (BackendBase.cpp, Customer.cpp, Logger.cpp): three  *)
(* threads without a lock.  The interface opens and closes the drawer,     *)
(* asks for routes and closes the window; the worker drives the time shown *)
(* and the traveller; the logger writes what happened to the traveller.    *)
(*                                                                         *)
(* There are two clocks.  sysTime, the time of day shown, jumps by         *)
(* ShowStep every Passes rounds of the worker; clock, the traveller's own, *)
(* moves by Step each round in which he has something to do.  Both count   *)
(* the same unit, of which Minute make a minute.                           *)
(***************************************************************************)
EXTENDS RouteSearch
CONSTANTS
    Minute,         \* units of a minute (60 s in the code)
    Step,           \* of the traveller's clock (36 s)
    Passes,         \* rounds for a step of the time shown (10)
    ShowStep,       \* of the time shown (360 s)
    Timetables,     \* the data base is one of these
    StartTimes,     \* times of day at which the program starts
    Trips,          \* the routes to set off on: <<from, dest, start, limit>>
    Questions,      \* the routes to ask for
    \* bounds
    MaxQueries,     \* queries of a run
    MaxClock        \* the traveller's clock stops here, after every task

ASSUME EmulatorAssumption ==
    /\ Minute \in Nat \ {0} /\ Step \in 1 .. Minute /\ Day % Hour = 0
    /\ Passes \in Nat \ {0} /\ ShowStep = Passes * Step
    /\ MaxQueries \in Nat /\ MaxClock \in Nat
    /\ StartTimes \subseteq 0 .. Day * Minute - 1
    /\ Timetables \subseteq [City -> Seq(Departure)]
    /\ Trips \cup Questions \subseteq City \X City \X (0 .. Day - 1) \X Nat

(* INF stands for no way yet and for no limit: no risk of a ride comes to  *)
(* it, and no journey over all the cities lasts as long.                   *)
ASSUME InfinityAssumption ==
    \A t \in Timetables, c \in City : \A i \in 1 .. Len(t[c]) :
        /\ Day * Factor[c] + 90 * t[c][i].cost < INF
        /\ Cities * (Day + t[c][i].cost) <= INF

(* A minute of the day that is over is one of the next day.                *)
StartOf(trip, now) == IF trip[3] < now THEN trip[3] + Day ELSE trip[3]
RidesOf(timetable, trip, startT) ==
    Rides(Search(timetable, trip[1], trip[2], startT, trip[4]), timetable, trip[2])

(* The bound of the clock is after the day and after the rides of every set-off. *)
ASSUME ClockAssumption ==
    /\ Day * Minute <= MaxClock
    /\ \A t \in Timetables, trip \in Trips, now \in 0 .. Day - 1 :
            LET rides == RidesOf(t, trip, StartOf(trip, now))
            IN  \A i \in 1 .. Len(rides) : rides[i].arrive < MaxClock \div Minute

VARIABLES
    table,          \* m_routeMap, read once
    sysTime,        \* m_sysTime of BackendBase, as time of day
    ten,            \* local of mainLoop: rounds since the last step
    drawer,         \* the drawer with the page of queries
    paused,         \* m_mlPaused
    running,        \* m_running
    pc,             \* the worker: between rounds, waiting for the end of the pause,
                    \* past it in a round, or about to move the clock
    seen,           \* the clock as the worker last read it
    clock,          \* m_sysTime of Customer
    tasks,          \* m_taskQueue
    query,          \* slotStartQuery, as far as it has come
    adding,         \* tasks the interface has still to push for a query
    log,            \* m_listLogInfo
    logging,        \* m_bStart
    up,             \* the process has not followed a pointer to nowhere
    \* history
    asked,          \* queries so far
    answer,         \* the route last asked for while the traveller rested
    disturbed       \* a query on his way; a step of the time shown in the query that set
                    \* him off, or his clock set while the worker was moving it; or tasks
                    \* still to push when he was done with the rest
vars == <<table, sysTime, ten, drawer, paused, running, pc, seen, clock, tasks,
          query, adding, log, logging, up, asked, answer, disturbed>>
screen == <<drawer, paused>>
worker == <<ten, sysTime, pc, seen>>
search == <<query, asked, answer>>

NoTime == -1
Time == (Day * Minute)                  \* of a day
MinuteOf(t) == t \div Minute
NoQuery == [stage |-> "none", setoff |-> FALSE, first |-> NoTime]
NoAnswer == [from |-> None, dest |-> None, start |-> 0, limit |-> INF, rides |-> <<>>]

Init ==
    /\ table \in Timetables /\ sysTime \in StartTimes /\ ten = 0
    /\ drawer = "hidden" /\ paused = FALSE /\ running = TRUE
    /\ pc = "between" /\ seen = NoTime
    /\ clock = 0 /\ tasks = <<>> /\ query = NoQuery /\ adding = <<>>
    /\ log = <<>> /\ logging = TRUE /\ up = TRUE
    /\ asked = 0 /\ answer = NoAnswer /\ disturbed = FALSE

-----------------------------------------------------------------------------
(* The interface.  It is busy while it is in slotStartQuery.               *)
Idle == up /\ running /\ query = NoQuery /\ adding = <<>>

(* The drawer begins to move, and is then open or closed: only then does   *)
(* it stop the worker, or let it go on.                                    *)
MoveDrawer ==
    /\ Idle /\ drawer # "moving"
    /\ drawer' = "moving"
    /\ UNCHANGED <<table, paused, running, worker, clock, tasks, adding, log, logging, up,
                   search, disturbed>>
DrawerOpened ==
    /\ Idle /\ drawer = "moving"
    /\ drawer' = "open" /\ paused' = TRUE
    /\ UNCHANGED <<table, running, worker, clock, tasks, adding, log, logging, up,
                   search, disturbed>>
DrawerClosed ==
    /\ Idle /\ drawer = "moving"
    /\ drawer' = "hidden" /\ paused' = FALSE
    /\ UNCHANGED <<table, running, worker, clock, tasks, adding, log, logging, up,
                   search, disturbed>>

(* slotStartQuery reads the hour and the minute of m_sysTime twice, in an  *)
(* order of the compiler's: four readings, between which the worker may    *)
(* step it.  Torn: what an hour and a minute read at a and b make, or b, a.*)
HourOf(t) == MinuteOf(t) \div Hour
Whole(a, b) == Hour * HourOf(a) + (MinuteOf(b) % Hour)
Torn(a, b) == {Whole(a, b), Whole(b, a)}

(* A set-off is refused while the traveller has tasks.  The route asked for *)
(* matters only to the search, so it is chosen there.  The first reading.  *)
Routes(setoff) == {trip \in IF setoff THEN Trips ELSE Questions : trip[1] # trip[2]}
StartQuery(setoff) ==
    /\ Idle /\ drawer # "hidden" /\ asked < MaxQueries
    /\ Routes(setoff) # {}
    /\ setoff => tasks = <<>>
    /\ query' = [stage |-> "started", setoff |-> setoff, first |-> sysTime]
    /\ asked' = asked + 1
    /\ disturbed' = (~setoff /\ disturbed)
    /\ UNCHANGED <<table, screen, running, worker, clock, tasks, adding, log, logging, up,
                   answer>>

(* The second; setSysTime: the traveller's clock is set to the minute      *)
(* shown, also for a query that sets nobody off.                           *)
SetSysTimeNot(first) == {clock}         \* mutant: it is not set
SetSysTime(first) == {minute * Minute : minute \in Torn(first, sysTime)}
SetClock ==
    /\ up /\ query.stage = "started"
    /\ clock' \in SetSysTime(query.first)
    /\ query' = [query EXCEPT !.stage = "set", !.first = NoTime]
    /\ disturbed' = (disturbed \/ tasks # <<>> \/ pc = "moving")
    /\ UNCHANGED <<table, screen, running, worker, tasks, adding, log, logging, up, asked, answer>>

(* The third. *)
ReadTime ==
    /\ up /\ query.stage = "set"
    /\ query' = [query EXCEPT !.stage = "read", !.first = sysTime]
    /\ UNCHANGED <<table, screen, running, worker, clock, tasks, adding, log, logging, up,
                   asked, answer, disturbed>>

(* The last, and the search, with which the query is over.                 *)
QueryOver == up /\ query.stage = "read" /\ query' = NoQuery
FindRoute ==
    /\ QueryOver
    /\ \E trip \in Routes(query.setoff), now \in Torn(query.first, sysTime) :
        LET startT == StartOf(trip, now)
            found == RidesOf(table, trip, startT)
        IN  /\ answer' = IF query.setoff \/ tasks # <<>> THEN NoAnswer
                         ELSE [from |-> trip[1], dest |-> trip[2], start |-> startT,
                               limit |-> trip[4], rides |-> found]
            /\ adding' = IF query.setoff THEN TasksOf(found, startT) ELSE <<>>
    /\ UNCHANGED <<table, screen, running, worker, clock, tasks, log, logging, up, asked,
                   disturbed>>

AddTask ==
    /\ up /\ adding # <<>>
    /\ tasks' = Append(tasks, Head(adding)) /\ adding' = Tail(adding)
    /\ UNCHANGED <<table, screen, running, worker, clock, log, logging, up, search, disturbed>>

(* The window is closed, then the objects behind it are deleted; nothing   *)
(* waits for the worker.  A worker in the middle of a round, which the     *)
(* pause is a part of, is left with a traveller that is gone.              *)
CloseWindow ==
    /\ Idle
    /\ running' = FALSE
    /\ UNCHANGED <<table, screen, worker, clock, tasks, adding, log, logging, up,
                   search, disturbed>>
Destroy ==
    /\ up /\ ~running /\ logging
    /\ logging' = FALSE
    /\ up' = (pc = "between")
    /\ UNCHANGED <<table, screen, running, worker, clock, tasks, adding, log, search, disturbed>>

-----------------------------------------------------------------------------
(* The worker.  It looks at the pause once, at the beginning of a round;   *)
(* what it does then it does also if the pause begins meanwhile.           *)
WaitPaused ==
    /\ up /\ running /\ paused /\ pc = "between"
    /\ pc' = "waiting"
    /\ UNCHANGED <<table, sysTime, ten, seen, screen, running, clock, tasks, adding, log,
                   logging, up, search, disturbed>>
Enter ==
    /\ up
    /\ \/ pc = "between" /\ running /\ ~paused
       \/ pc = "waiting" /\ ~(paused /\ running)
    /\ pc' = "round"
    /\ UNCHANGED <<table, sysTime, ten, seen, screen, running, clock, tasks, adding, log,
                   logging, up, search, disturbed>>

(* Every tenth round begins with a step of the time shown.  One that falls *)
(* into a query is what slotStartQuery does not expect.                    *)
ShowTimeSoon ==                         \* mutant: the count begins with 1
    /\ up /\ pc = "round" /\ ten = Passes
    /\ sysTime' = (sysTime + ShowStep) % Time /\ ten' = 1
    /\ disturbed' = (disturbed \/ query # NoQuery \/ (adding # <<>> /\ tasks = <<>>))
    /\ UNCHANGED <<table, pc, seen, screen, running, clock, tasks, adding, log, logging, up,
                   search>>
ShowTime ==
    /\ up /\ pc = "round" /\ ten = Passes
    /\ sysTime' = (sysTime + ShowStep) % Time /\ ten' = 0
    /\ disturbed' = (disturbed \/ query # NoQuery \/ (adding # <<>> /\ tasks = <<>>))
    /\ UNCHANGED <<table, pc, seen, screen, running, clock, tasks, adding, log, logging, up,
                   search>>

(* updateStatus, up to the end of its while loop: all tasks of this minute *)
(* are begun.  With the last one the loop reads the front of an empty      *)
(* queue, which may be anything.                                           *)
\* Mutant: if for while.
DueOne(n) == n = IF tasks[1].start = MinuteOf(clock) THEN 1 ELSE 0
Due(n) ==
    /\ \A i \in 1 .. n : tasks[i].start = MinuteOf(clock)
    /\ n < Len(tasks) => tasks[n + 1].start # MinuteOf(clock)

InRound == up /\ pc = "round" /\ ten # Passes
IdleRound ==
    /\ InRound /\ tasks = <<>>
    /\ ten' = ten + 1 /\ pc' = "between"
    /\ UNCHANGED <<table, sysTime, screen, running, seen, clock, tasks, adding, log, logging,
                   up, search, disturbed>>
UpdateStatus ==
    /\ InRound /\ tasks # <<>>
    /\ \E n \in 0 .. Len(tasks) :
        /\ Due(n)
        /\ tasks' = SubSeq(tasks, n + 1, Len(tasks))
        /\ log' = log \o SubSeq(tasks, 1, n)
    /\ up' \in IF tasks' = <<>> THEN BOOLEAN ELSE {TRUE}
    /\ pc' = "moving" /\ seen' = clock
    /\ disturbed' = (disturbed \/ (tasks' = <<>> /\ adding # <<>>))
    /\ UNCHANGED <<table, sysTime, ten, screen, running, clock, adding, logging, search>>

(* m_sysTime += 36 is a read and a write: a query that resets the clock    *)
(* between them may be lost.                                               *)
MoveClockShown ==                       \* mutant: by the step of the time shown
    /\ up /\ pc = "moving"
    /\ clock' = IF clock + ShowStep <= MaxClock THEN clock + ShowStep ELSE MaxClock
    /\ pc' = "between" /\ seen' = NoTime /\ ten' = ten + 1
    /\ UNCHANGED <<table, sysTime, screen, running, tasks, adding, log, logging, up,
                   search, disturbed>>
MoveClock ==
    /\ up /\ pc = "moving"
    /\ \E t \in {clock, seen} : clock' = IF t + Step <= MaxClock THEN t + Step ELSE MaxClock
    /\ pc' = "between" /\ seen' = NoTime /\ ten' = ten + 1
    /\ UNCHANGED <<table, sysTime, screen, running, tasks, adding, log, logging, up,
                   search, disturbed>>

(* The logger takes the first entry.  An entry whose statement fails is    *)
(* gone as well.                                                           *)
WriteLogLater ==                        \* mutant: the last entry stays
    /\ up /\ logging /\ Len(log) > 1
    /\ log' = Tail(log)
    /\ UNCHANGED <<table, screen, running, worker, clock, tasks, adding, logging, up,
                   search, disturbed>>
WriteLog ==
    /\ up /\ logging /\ log # <<>>
    /\ log' = Tail(log)
    /\ UNCHANGED <<table, screen, running, worker, clock, tasks, adding, logging, up,
                   search, disturbed>>

Next ==
    \/ MoveDrawer \/ DrawerOpened \/ DrawerClosed
    \/ \E setoff \in BOOLEAN : StartQuery(setoff)
    \/ SetClock \/ ReadTime \/ FindRoute
    \/ AddTask \/ CloseWindow \/ Destroy
    \/ WaitPaused \/ Enter \/ ShowTime \/ IdleRound \/ UpdateStatus \/ MoveClock
    \/ WriteLog

(* The threads run; the user does what he likes.  FindRoute is named by    *)
(* what it does to the query: no other action does that.                   *)
Fairness ==
    /\ WF_query(SetClock \/ ReadTime \/ QueryOver)
    /\ WF_vars(AddTask)
    /\ WF_vars(Enter \/ ShowTime \/ IdleRound \/ UpdateStatus \/ MoveClock)
    /\ WF_vars(WriteLog)
Spec == Init /\ [][Next]_vars /\ Fairness

-----------------------------------------------------------------------------
(* Every variable keeps its type: the tasks are of places and kinds there  *)
(* are, none ends before it begins, and the bound of the clock is after    *)
(* every one of them.                                                      *)
TypeOK ==
    /\ table \in Timetables
    /\ sysTime \in 0 .. Time - 1 /\ ten \in 0 .. Passes
    /\ drawer \in {"hidden", "moving", "open"}
    /\ {paused, running, logging, up, disturbed} \subseteq BOOLEAN
    /\ pc \in {"between", "waiting", "round", "moving"} /\ seen \in {NoTime} \cup 0 .. MaxClock
    /\ clock \in 0 .. MaxClock
    /\ \A q \in {tasks, adding, log} : \A i \in 1 .. Len(q) :
            /\ q[i].kind \in Behavior /\ {q[i].from, q[i].dest} \subseteq City
            /\ 0 <= q[i].start /\ q[i].start <= q[i].end
            /\ q[i].start < MinuteOf(MaxClock)
    /\ query.stage \in {"none", "started", "set", "read"}
    /\ query.first \in {NoTime} \cup 0 .. Time - 1 /\ query.setoff \in BOOLEAN
    /\ asked \in 0 .. MaxQueries

(* No answer takes longer than the limit of its query, which the two loops *)
(* of runWithAlgorithmDij test in different words.                         *)
LimitKept ==
    LET r == answer.rides
    IN  r # <<>> => r[Len(r)].arrive - answer.start <= answer.limit

(* The rides of an answer can be taken: they begin at the start and end at *)
(* the destination, each leaves from where and not before the one before   *)
(* it arrived, and each is a departure of the timetable.                   *)
RidesConnect ==
    LET r == answer.rides
    IN  r # <<>> =>
        /\ r[1].from = answer.from /\ r[1].depart >= answer.start
        /\ r[Len(r)].dest = answer.dest
        /\ \A i \in 1 .. Len(r) - 1 :
                r[i + 1].from = r[i].dest /\ r[i + 1].depart >= r[i].arrive
        /\ \A i \in 1 .. Len(r) : \E k \in DOMAIN table[r[i].from] :
                LET d == table[r[i].from][k]
                IN  /\ d.dest = r[i].dest /\ d.start = r[i].depart % Day
                    /\ d.cost = r[i].arrive - r[i].depart

(* Without a limit the search finds a route whenever departures lead to    *)
(* the destination.                                                        *)
FoundIfReachable ==
    answer.limit = INF /\ answer.from # None =>
        (answer.rides = <<>> <=> answer.dest \notin Reachable(table, answer.from))

(* A task is begun in the very minute it is for, or never.  The traveller  *)
(* misses none as long as no query is made on his way; the time shown is   *)
(* not stepped in the course of the query that sets him off, and the       *)
(* worker is not moving his clock when it is set; and the tasks of one     *)
(* minute are pushed before he comes to the first of them.                 *)
NotMissed ==
    tasks # <<>> /\ ~disturbed => MinuteOf(clock) <= Head(tasks).start

(* The traveller's own clock follows the time shown: on a way that is not  *)
(* disturbed, as for NotMissed, they differ, over any number of rounds,    *)
(* pauses and midnights, by less than a step of the time shown and a      *)
(* minute.                                                                 *)
ClocksAgree ==
    tasks # <<>> /\ ~disturbed /\ clock < MaxClock =>
        LET ahead == (sysTime - clock) % Time
        IN  ahead < ShowStep + Minute \/ Time - ahead <= ShowStep

(* The tasks that are left are the rest of the last set-off's journey:     *)
(* wherever the traveller is, they take him to the destination.            *)
StaysOnRoute ==
    LET rest == tasks \o adding
    IN  rest # <<>> =>
        /\ rest[Len(rest)].kind = "Arrive"
        /\ \A i \in 1 .. Len(rest) - 1 :
                rest[i].dest = rest[i + 1].from /\ rest[i].end = rest[i + 1].start

(* Once the drawer stays closed, a traveller who set off and is not        *)
(* disturbed, as for NotMissed, arrives.                                   *)
Arrives ==
    <>[](~paused) =>
        ((tasks # <<>>) ~> (tasks = <<>> \/ disturbed \/ ~running \/ ~up))

(* Every entry of the log is written, unless the window is closed first.   *)
LogWritten == (log # <<>>) ~> (log = <<>> \/ ~running \/ ~up)
=============================================================================
