------------------------- MODULE MCTravelEmulator -------------------------
(* TravelEmulator for TLC: three cities, days of four minutes.              *)
EXTENDS TravelEmulator

MCFactor == <<9, 5, 2>>
D(type, dest, start, cost) == [type |-> type, dest |-> dest, start |-> start, cost |-> cost]
MCTimetables == {
    \* over city 2 and midnight, with a wait at the start, or later directly;
    \* city 3 leads nowhere
    <<<<D(1, 3, 3, 5), D(2, 2, 3, 1)>>, <<D(3, 3, 2, 2), D(3, 3, 0, 1)>>, <<>>>>,
    \* nobody leaves city 1; a shorter and a safer way to it
    <<<<>>, <<D(3, 1, 2, 4), D(1, 3, 1, 1), D(3, 3, 0, 4)>>, <<D(2, 1, 2, 1), D(3, 2, 3, 1)>>>> }

MCTrips == {<<1, 3, 3, INF>>}
\* the same on the way; of two ways the safer, and the one within a limit
MCQuestions == MCTrips \cup {<<2, 1, 2, INF>>, <<2, 1, 2, 4>>}
=============================================================================
