----------------------------- MODULE MainPacing -----------------------------
(***************************************************************************)
(* When the main thread polls the inverters: the loop of main_thread_entry *)
(* (ECU/main/src/main-thread.c), with the reset of the board at 02:00 by   *)
(* the lan8720 thread (applications/threadlist.c).                         *)
(***************************************************************************)
EXTENDS DayTime

CONSTANTS Starts,     \* the times of the day at which the board is started
          Rounds,     \* how long a round may take, in seconds
          Looks       \* how long may pass between two looks at the clock

ASSUME StartsAssumption == Starts \subseteq 0..(DaySeconds - 1)
ASSUME RoundsAssumption == Rounds \subseteq Nat \ {0}
ASSUME LooksAssumption == Looks \subseteq Nat \ {0}

VARIABLES mpc,              \* "test", "round" or "delay"
          thistime,         \* the time of the day the last round began
          durabletime,      \* the time of the day at the last look
          reportinterval,
          began,            \* when the last round began, -1 before the first
          length            \* how long it took

vars == <<now, mpc, thistime, durabletime, reportinterval, began, length>>

Boot == /\ mpc' = "test"
        /\ thistime' = 0 /\ durabletime' = 65535 /\ reportinterval' = 300
        /\ began' = -1 /\ length' = 0

Init == /\ now \in Starts
        /\ mpc = "test"
        /\ thistime = 0 /\ durabletime = 65535 /\ reportinterval = 300
        /\ began = -1 /\ length = 0

\* The end of the minute 02:00 of that day or, after it, of the next.
ResetAt(t) == IF acquire_time(t) < 7260
                THEN t - acquire_time(t) + 7260
                ELSE t - acquire_time(t) + DaySeconds + 7260

\* The minute of the reset comes within the next s seconds.
ResetDue(s) == now + s >= ResetAt(now) - 60

\* The test at the head of the loop: a round begins, or the thread sleeps.
Test ==
  /\ mpc = "test"
  /\ IF compareTime(durabletime, thistime, reportinterval)
       THEN /\ mpc' = "round"
            /\ thistime' = acquire_time(now)
            /\ began' = now
            /\ UNCHANGED length
       ELSE /\ mpc' = "delay"
            /\ UNCHANGED <<thistime, began, length>>
  /\ UNCHANGED <<now, durabletime, reportinterval>>

\* The round: everything from getalldata to process_all.
Round(s) ==
  /\ mpc = "round"
  /\ ~ResetDue(s)
  /\ now' = now + s
  /\ length' = s
  /\ mpc' = "delay"
  /\ UNCHANGED <<thistime, durabletime, reportinterval, began>>

\* Slip: the next multiple of 5 minutes, which moves on with the clock.
Interval_moves(taken) == IF taken < 300 THEN 300 ELSE 300 * (taken \div 300 + 1)

\* The interval chosen for the time taken so far.
Interval(taken) == CASE taken <= 305 -> 300
                     [] taken > 305 /\ taken <= 600 -> 600
                     [] taken > 600 /\ taken <= 900 -> 900
                     [] taken > 900 /\ taken <= 1200 -> 1200
                     [] OTHER -> 1800

\* The end of the loop's body: the clock is looked at again, and the interval
\* follows from the time that has gone by since the round began.
Look(s) ==
  /\ mpc = "delay"
  /\ ~ResetDue(s)
  /\ now' = now + s
  /\ durabletime' = acquire_time(now')
  /\ reportinterval' = Interval(durabletime' - thistime)
  /\ mpc' = "test"
  /\ UNCHANGED <<thistime, began, length>>

\* lan8720_rst_thread_entry resets the board in the minute 02:00.
reboot(s) ==
  /\ mpc # "test"
  /\ ResetDue(s)
  /\ now' = ResetAt(now)
  /\ Boot

Next == \/ Test
        \/ \E s \in Rounds : Round(s)
        \/ \E s \in Looks : Look(s)
        \/ \E s \in Rounds \union Looks : reboot(s)

Spec == Init /\ [][Next]_vars

-----------------------------------------------------------------------------
(* Properties.                                                             *)

\* Every variable has its type; a round begins in the past.
TypeOK == /\ now \in Nat
          /\ mpc \in {"test", "round", "delay"}
          /\ thistime \in 0..(DaySeconds - 1)
          /\ durabletime \in 0..(DaySeconds - 1)
          /\ reportinterval \in {300, 600, 900, 1200, 1800}
          /\ began \in -1..now
          /\ length \in Rounds \union {0}

\* Two rounds begin at least 300 s apart, also over midnight, where the
\* times of the day start again at 0.
RoundsApart ==
  [][mpc = "test" /\ mpc' = "round" /\ began >= 0 => now - began >= 300]_vars

\* "If a polling pass takes less than 5 minutes, wait until 5 minutes before
\* the next; over 5 minutes, wait for 10 minutes ..." (main-thread.c:400): no
\* wait goes beyond the longest interval by more than a look.
WaitEnds == mpc = "test" /\ began >= 0 /\ length <= 1800
            => \E s \in Looks : now - began <= 1800 + s

\* The part of it that holds: the wait ends in time unless the round began
\* before a midnight and the clock was looked at 300 s after it or later.
WaitEndsByDay ==
  mpc = "test" /\ began >= 0 /\ length <= 1800
  => \/ \E s \in Looks : now - began <= 1800 + s
     \/ began \div DaySeconds # now \div DaySeconds /\ durabletime >= 300

=============================================================================
