------------------------------ MODULE DayTime ------------------------------
(***************************************************************************)
(* The arithmetic on times of the day that paces the threads               *)
(* (ECU/main/src/datetime.c): seconds since midnight, compared across a    *)
(* midnight by a special case.                                             *)
(***************************************************************************)
EXTENDS Integers

VARIABLE now    \* the clock: seconds since the midnight before the start

DaySeconds == 86400

\* Slip: the day is not taken off.
acquire_time_running(at) == at

\* The time of the day, in seconds, at an instant counted in seconds.
acquire_time(at) == at % DaySeconds

\* Slip: the special case is taken without looking at the interval.
compareTime_no_wait(durabletime, thistime, reportinterval) ==
  \/ durabletime < reportinterval /\ thistime > reportinterval
  \/ durabletime - thistime >= reportinterval

\* Has reportinterval gone by from thistime to durabletime?
compareTime(durabletime, thistime, reportinterval) ==
  IF durabletime < reportinterval /\ thistime > reportinterval
    THEN durabletime + (DaySeconds + 1) - thistime > reportinterval
    ELSE durabletime - thistime >= reportinterval

=============================================================================
