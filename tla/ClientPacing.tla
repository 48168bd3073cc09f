---------------------------- MODULE ClientPacing ----------------------------
(***************************************************************************)
(* When the upload client works and how long it sleeps: the loop of        *)
(* client_thread_entry (ECU/client/src/client.c) with rt_thread_delay,     *)
(* whose argument is an unsigned 32-bit number of ticks: a negative int is *)
(* a number of ticks from 2^31 on.  The names the main thread has as well   *)
(* (MainPacing) have the thread's before them.                             *)
(***************************************************************************)
EXTENDS DayTime

CONSTANTS ClientStarts,   \* when the thread may start, in seconds
          Works           \* how long an exchange with the EMA may take, in seconds

ASSUME ClientStartsAssumption == ClientStarts \subseteq Nat
ASSUME WorksAssumption == Works \subseteq Nat

TicksPerSecond == 100

VARIABLES cpc,              \* "start", "upload", "delay", "asleep" or "halted"
          client_thistime,  \* the time of the day of the last answer
          lasttime,         \* the time of the day the pass began
          ticks,            \* rt_thread_delay's argument, as an int
          passbegan         \* when the pass began, -1 before the first

client_vars == <<now, cpc, client_thistime, lasttime, ticks, passbegan>>

ClientInit == /\ now \in ClientStarts
              /\ cpc = "start"
              /\ client_thistime = 0 /\ lasttime = 0 /\ ticks = 0
              /\ passbegan = -1

\* A pass begins; in the hours 1 and 2 preprocess and resend_record run
\* first, and take some time.
Begin(s) ==
  /\ cpc = "start"
  /\ s = 0 \/ acquire_time(now) \div 3600 \in {1, 2}
  /\ client_thistime' = acquire_time(now)
  /\ lasttime' = acquire_time(now)
  /\ passbegan' = now
  /\ now' = now + s
  /\ cpc' = "upload"
  /\ UNCHANGED ticks

\* A record is sent and answered.
send_record(s) ==
  /\ cpc = "upload"
  /\ ~compareTime(client_thistime, lasttime, 300)
  /\ now' = now + s
  /\ client_thistime' = acquire_time(now')
  /\ UNCHANGED <<cpc, lasttime, ticks, passbegan>>

\* The loop ends: no record is left, 300 s have gone by, or the exchange
\* failed.  delete_file_resendflag0 follows.
EndUpload(s) ==
  /\ cpc = "upload"
  /\ now' = now + s
  /\ cpc' = "delay"
  /\ UNCHANGED <<client_thistime, lasttime, ticks, passbegan>>

Crossed == client_thistime < 300 /\ lasttime > 300

\* Slip: lasttime and thistime exchanged.
DelayTicks_swapped == (300 + client_thistime - lasttime) * TicksPerSecond

\* Slip: seconds where ticks are wanted.
DelayTicks_seconds == 300 + lasttime - client_thistime

\* The argument of rt_thread_delay as the C expression computes it ...
DelayTicks == IF Crossed
                THEN 300 - ((client_thistime + (DaySeconds + 1)) + lasttime)
                             * TicksPerSecond
                ELSE (300 + lasttime - client_thistime) * TicksPerSecond

\* ... and whether it is called at all.
Delays == IF Crossed THEN client_thistime + (DaySeconds + 1) - lasttime < 300
                     ELSE client_thistime - lasttime < 300

\* RT_ASSERT(timer->init_tick < RT_TICK_MAX / 2), with init_tick the int
\* taken as a 32-bit unsigned number and RT_TICK_MAX = 2^32 - 1.
Accepted == ticks >= 0 /\ ticks < 2147483647

\* The end of the pass.
Delay ==
  /\ cpc = "delay"
  /\ IF Delays THEN cpc' = "asleep" /\ ticks' = DelayTicks
               ELSE cpc' = "start" /\ UNCHANGED ticks
  /\ UNCHANGED <<now, client_thistime, lasttime, passbegan>>

\* rt_timer_start refuses the time: the assertion stops the board.
Halt ==
  /\ cpc = "asleep"
  /\ ~Accepted
  /\ cpc' = "halted"
  /\ UNCHANGED <<now, client_thistime, lasttime, ticks, passbegan>>

\* The delay is over.
Wake ==
  /\ cpc = "asleep"
  /\ Accepted
  /\ now' = now + ticks \div TicksPerSecond
  /\ cpc' = "start"
  /\ ticks' = 0
  /\ UNCHANGED <<client_thistime, lasttime, passbegan>>

\* The watchdog resets the board, at some later time.
Reset(s) ==
  /\ cpc = "halted"
  /\ now' = now + s
  /\ cpc' = "start"
  /\ client_thistime' = 0 /\ lasttime' = 0 /\ ticks' = 0 /\ passbegan' = -1

ClientNext ==
  \/ \E s \in Works \union {0} : Begin(s)
  \/ \E s \in Works : send_record(s) \/ EndUpload(s) \/ Reset(s)
  \/ Delay \/ Halt \/ Wake

ClientSpec == ClientInit /\ [][ClientNext]_client_vars

-----------------------------------------------------------------------------
(* Properties.                                                             *)

\* Every variable has its type.
ClientTypeOK ==
  /\ now \in Nat
  /\ cpc \in {"start", "upload", "delay", "asleep", "halted"}
  /\ client_thistime \in 0..(DaySeconds - 1)
  /\ lasttime \in 0..(DaySeconds - 1)
  /\ ticks \in Int
  /\ passbegan \in -1..now

\* Two passes begin at least 299 s apart, however long the exchanges take
\* and also over midnight (the day has 24*60*60+1 seconds in the code).
PassesApart ==
  [][cpc = "start" /\ cpc' = "upload" /\ passbegan >= 0
       => now - passbegan >= 299]_client_vars

\* A pass that does not go over midnight sleeps for at most 300 s, and long
\* enough for 300 s from its beginning.  (Over midnight the time to sleep gets
\* so long that the timer of the kernel does not accept it, timer.c:318.)
DelayByDay ==
  cpc = "asleep" /\ client_thistime >= lasttime
  => /\ ticks \in 1..(300 * TicksPerSecond)
     /\ passbegan + 300 <= now + ticks \div TicksPerSecond

=============================================================================
