-------------------------------- MODULE MCClock --------------------------------
(* The clock alone: four microseconds to the millisecond, four milliseconds to the
   second, two ticks to that; sleeps for as long as a tick. *)
EXTENDS OsalClock

MCStarts == {0}
MCSteps == {1, -1}
MCTimes == {8}

Spec == Init /\ [][Next]_clockVars
=============================================================================
