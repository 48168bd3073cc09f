--------------------------- MODULE Pacing_proofs ---------------------------
(* The pacing of the main thread and of the upload client, for every        *)
(* length of the rounds and of the exchanges and however late a thread gets *)
(* to run: what the comparison of two times of the day says about the time  *)
(* that really went by, then the loop of the main thread (MainPacing), then *)
(* the loop of the client (ClientPacing).                                   *)
EXTENDS MainPacing, ClientPacing, TLAPS

\* What a proof needs of the length of the day when it need not know it.
LEMMA DayLength == DaySeconds \in Nat /\ DaySeconds > 65535
BY DEF DaySeconds

\* A time of the day is a number of seconds below a day's, and differs from
\* the instant by whole days (acquire_time).
LEMMA TimeOfDay ==
  ASSUME NEW at \in Nat
  PROVE  /\ acquire_time(at) \in Nat /\ acquire_time(at) < 86400
         /\ acquire_time(at) = at - 86400 * (at \div 86400)
         /\ at \div 86400 \in Nat
<1>1. acquire_time(at) = at % 86400
  BY DEF acquire_time, DaySeconds
<1>2. at % 86400 \in Nat /\ at % 86400 < 86400
  OBVIOUS
<1>3. at % 86400 = at - 86400 * (at \div 86400)
  OBVIOUS
<1>4. at \div 86400 \in Nat
  OBVIOUS
<1> QED
  BY <1>1, <1>2, <1>3, <1>4

\* The number of the day and the time of it.
LEMMA DayAndTime ==
  ASSUME NEW t \in Nat
  PROVE  t \div DaySeconds \in Nat /\ acquire_time(t) \in Nat
<1>1. t \div 86400 \in Nat /\ acquire_time(t) \in Nat
  BY TimeOfDay
<1> QED
  BY <1>1 DEF DaySeconds

\* A time of the day is in the range the variables have.
LEMMA TimeInRange ==
  ASSUME NEW t \in Nat
  PROVE  acquire_time(t) \in 0..(DaySeconds - 1)
<1>1. acquire_time(t) \in Nat /\ acquire_time(t) < 86400
  BY TimeOfDay
<1>2. DaySeconds - 1 = 86399
  BY DEF DaySeconds
<1> QED
  BY <1>1, <1>2

\* compareTime never speaks too early: when it says that the interval has
\* gone by between two instants it has, whatever midnights lie between them.
THEOREM NeverEarly ==
  ASSUME NEW from \in Nat, NEW at \in Nat, from <= at,
         NEW interval \in Nat,
         compareTime(acquire_time(at), acquire_time(from), interval)
  PROVE  at - from >= interval
<1>1. PICK a \in Nat, m \in Nat :
         /\ a = acquire_time(from) /\ m = from \div 86400
         /\ a < 86400 /\ a = from - 86400 * m
  BY TimeOfDay
<1>2. PICK b \in Nat, n \in Nat :
         /\ b = acquire_time(at) /\ n = at \div 86400
         /\ b < 86400 /\ b = at - 86400 * n
  BY TimeOfDay
<1>3. m <= n
  <2>1. from \div 86400 <= at \div 86400
    OBVIOUS
  <2> QED
    BY <2>1, <1>1, <1>2
<1>4. at - from = (b - a) + 86400 * (n - m)
  BY <1>1, <1>2
<1>5. IF b < interval /\ a > interval THEN b + 86401 - a > interval
                                      ELSE b - a >= interval
  <2>1. compareTime(b, a, interval)
    BY <1>1, <1>2
  <2> QED
    BY <2>1 DEF compareTime, DaySeconds
<1>6. CASE n = m
  BY <1>1, <1>2, <1>4, <1>5, <1>6
<1>7. CASE n > m
  <2>1. at - from >= (b - a) + 86400
    BY <1>4, <1>7
  <2> QED
    BY <2>1, <1>1, <1>2, <1>5
<1> QED
  BY <1>3, <1>6, <1>7

-----------------------------------------------------------------------------
(* The main thread.                                                         *)

\* The time of the day kept of the last round is that of its beginning.
ThisIsBegan == began >= 0 => thistime = acquire_time(began)

\* At the test of the loop durabletime is the present time of the day, and
\* the interval is the one chosen for the two.
DurableIsNow == mpc = "test" /\ began >= 0 => durabletime = acquire_time(now)
IntervalOfLook ==
  mpc = "test" /\ began >= 0 => reportinterval = Interval(durabletime - thistime)

\* A round begins when it is tested for.
RoundIsNow == mpc = "round" => now = began

\* The board is reset before a round is older than the next 02:01.
NoResetSince == began >= 0 => now < ResetAt(began)

\* Between a round and the look at the clock WaitEndsByDay holds already.
DelayInTime ==
  mpc = "delay" /\ began >= 0 /\ length <= 1800
  => \/ now - began <= 1800
     \/ began \div DaySeconds # now \div DaySeconds /\ acquire_time(now) >= 300

Inv == /\ TypeOK /\ ThisIsBegan /\ DurableIsNow /\ IntervalOfLook /\ RoundIsNow
       /\ NoResetSince /\ DelayInTime /\ WaitEndsByDay

\* The next 02:01 is yet to come.
LEMMA ResetIsAhead ==
  ASSUME NEW t \in Nat
  PROVE  ResetAt(t) \in Nat /\ t < ResetAt(t)
<1>1. acquire_time(t) \in Nat /\ acquire_time(t) < 86400
      /\ acquire_time(t) = t - 86400 * (t \div 86400) /\ t \div 86400 \in Nat
  BY TimeOfDay
<1> QED
  BY <1>1 DEF ResetAt, DaySeconds

\* Until the next 02:01 the day is the same, or it is the next one and the
\* round began after 02:01.
LEMMA UntilReset ==
  ASSUME NEW t \in Nat, NEW u \in Nat, t <= u, u < ResetAt(t)
  PROVE  \/ /\ u \div DaySeconds = t \div DaySeconds
            /\ u - t = acquire_time(u) - acquire_time(t)
            /\ acquire_time(t) < 7260 => acquire_time(u) < 7260
         \/ /\ u \div DaySeconds = t \div DaySeconds + 1
            /\ u - t = acquire_time(u) + 86400 - acquire_time(t)
            /\ acquire_time(t) >= 7260 /\ acquire_time(u) < 7260
<1>1. PICK a \in Nat, m \in Nat :
         /\ a = acquire_time(t) /\ m = t \div 86400
         /\ a < 86400 /\ a = t - 86400 * m
  BY TimeOfDay
<1>2. PICK b \in Nat, n \in Nat :
         /\ b = acquire_time(u) /\ n = u \div 86400
         /\ b < 86400 /\ b = u - 86400 * n
  BY TimeOfDay
<1>3. u < 86400 * m + 7260 + (IF a < 7260 THEN 0 ELSE 86400)
  BY <1>1 DEF ResetAt, DaySeconds
<1>4. n = m \/ n = m + 1
  <2>1. m <= n
    BY <1>1, <1>2
  <2>2. n < m + 2
    BY <1>1, <1>2, <1>3
  <2> QED
    BY <2>1, <2>2
<1>5. n = m => u - t = b - a /\ (a < 7260 => b < 7260)
  BY <1>1, <1>2, <1>3
<1>6. n = m + 1 => u - t = b + 86400 - a /\ a >= 7260 /\ b < 7260
  BY <1>1, <1>2, <1>3
<1> QED
  BY <1>1, <1>2, <1>4, <1>5, <1>6 DEF DaySeconds

\* A step that is not due for the reset stays before it.
LEMMA NotDue ==
  ASSUME NEW t \in Nat, NEW u \in Nat, NEW w \in Nat,
         t <= u, u < ResetAt(t), u <= w, w < ResetAt(u) - 60
  PROVE  w < ResetAt(t)
<1>1. PICK a \in Nat, m \in Nat :
         /\ a = acquire_time(t) /\ m = t \div 86400
         /\ a < 86400 /\ a = t - 86400 * m
  BY TimeOfDay
<1>2. PICK b \in Nat, n \in Nat :
         /\ b = acquire_time(u) /\ n = u \div 86400
         /\ b < 86400 /\ b = u - 86400 * n
  BY TimeOfDay
<1>3. /\ ResetAt(t) = 86400 * m + 7260 + (IF a < 7260 THEN 0 ELSE 86400)
      /\ ResetAt(u) = 86400 * n + 7260 + (IF b < 7260 THEN 0 ELSE 86400)
  BY <1>1, <1>2 DEF ResetAt, DaySeconds
<1>4. \/ n = m /\ (a < 7260 => b < 7260)
      \/ n = m + 1 /\ a >= 7260 /\ b < 7260
  <2>1. \/ /\ u \div DaySeconds = t \div DaySeconds
           /\ acquire_time(t) < 7260 => acquire_time(u) < 7260
        \/ /\ u \div DaySeconds = t \div DaySeconds + 1
           /\ acquire_time(t) >= 7260 /\ acquire_time(u) < 7260
    BY UntilReset
  <2> QED
    BY <2>1, <1>1, <1>2 DEF DaySeconds
<1> QED
  BY <1>3, <1>4

\* The interval is one of the five.
LEMMA IntervalInRange ==
  ASSUME NEW taken \in Int
  PROVE  Interval(taken) \in {300, 600, 900, 1200, 1800}
BY DEF Interval

\* A look at the clock that finds the interval still running comes within
\* 1800 s of the round, unless the round began on the day before and 300 s
\* of the new day have gone by.
LEMMA StillWaiting ==
  ASSUME NEW t \in Nat, NEW u \in Nat, t <= u, u < ResetAt(t),
         NEW interval \in {300, 600, 900, 1200, 1800},
         ~compareTime(acquire_time(u), acquire_time(t), interval)
  PROVE  \/ u - t <= 1800
         \/ t \div DaySeconds # u \div DaySeconds /\ acquire_time(u) >= 300
<1>1. PICK a \in Nat : a = acquire_time(t) /\ a < 86400
  BY TimeOfDay
<1>2. PICK b \in Nat : b = acquire_time(u) /\ b < 86400
  BY TimeOfDay
<1>3. IF b < interval /\ a > interval THEN ~(b + 86401 - a > interval)
                                      ELSE ~(b - a >= interval)
  <2>1. ~compareTime(b, a, interval)
    BY <1>1, <1>2
  <2> QED
    BY <2>1 DEF compareTime, DaySeconds
<1>4. interval \in Nat /\ 300 <= interval /\ interval <= 1800
  OBVIOUS
<1>5. CASE u \div DaySeconds = t \div DaySeconds
  <2>1. u - t = b - a
    <3>1. u \div DaySeconds \in Nat /\ t \div DaySeconds \in Nat
      BY TimeOfDay DEF DaySeconds
    <3> QED
      BY <3>1, <1>1, <1>2, <1>5, UntilReset
  <2>2. b >= a
    BY <2>1
  <2> QED
    BY <2>1, <2>2, <1>3, <1>4
<1>6. CASE u \div DaySeconds # t \div DaySeconds
  <2>1. u - t = b + 86400 - a /\ a >= 7260
    BY <1>1, <1>2, <1>6, UntilReset
  <2>2. CASE b < 300
    BY <2>1, <2>2, <1>3, <1>4
  <2>3. CASE b >= 300
    BY <2>3, <1>2, <1>6
  <2> QED
    BY <2>2, <2>3
<1> QED
  BY <1>5, <1>6

\* The invariant holds when the board starts.
LEMMA InitInv == Init => Inv
<1> SUFFICES ASSUME Init PROVE Inv
  OBVIOUS
<1>1. now \in Nat
  BY StartsAssumption, DayLength DEF Init
<1>2. began = -1 /\ -1 \in -1..now /\ ~(began >= 0)
  BY <1>1 DEF Init
<1>3. 0 \in 0..(DaySeconds - 1) /\ 65535 \in 0..(DaySeconds - 1)
  BY DayLength
<1> QED
  BY <1>1, <1>2, <1>3
     DEF Init, Inv, TypeOK, ThisIsBegan, DurableIsNow, IntervalOfLook,
         RoundIsNow, NoResetSince, DelayInTime, WaitEndsByDay

\* Every step of the loop, and the reset, keeps the invariant.
LEMMA NextInv == Inv /\ [Next]_vars => Inv'
<1> SUFFICES ASSUME Inv, [Next]_vars PROVE Inv'
  OBVIOUS
<1>t. /\ TypeOK /\ ThisIsBegan /\ DurableIsNow /\ IntervalOfLook /\ RoundIsNow
      /\ NoResetSince /\ DelayInTime /\ WaitEndsByDay
  BY DEF Inv
<1>n. /\ now \in Nat /\ thistime \in 0..(DaySeconds - 1)
      /\ reportinterval \in {300, 600, 900, 1200, 1800}
      /\ began >= 0 => began \in Nat /\ began <= now
  BY <1>t DEF TypeOK
<1>1. CASE Test
  <2>1. now' = now /\ mpc = "test" /\ mpc' \in {"round", "delay"}
        /\ durabletime' = durabletime /\ reportinterval' = reportinterval
        /\ length' = length
    BY <1>1 DEF Test
  <2>2. CASE compareTime(durabletime, thistime, reportinterval)
    <3>1. mpc' = "round" /\ thistime' = acquire_time(now) /\ began' = now
      BY <1>1, <2>2 DEF Test
    <3>2. acquire_time(now) \in 0..(DaySeconds - 1) /\ began' \in -1..now'
      BY <1>n, <2>1, <3>1, TimeInRange
    <3>3. TypeOK'
      BY <1>t, <2>1, <3>1, <3>2 DEF TypeOK
    <3>4. now' < ResetAt(began')
      BY <1>n, <2>1, <3>1, ResetIsAhead
    <3> QED
      BY <2>1, <3>1, <3>3, <3>4
         DEF Inv, ThisIsBegan, DurableIsNow, IntervalOfLook, RoundIsNow,
             NoResetSince, DelayInTime, WaitEndsByDay
  <2>3. CASE ~compareTime(durabletime, thistime, reportinterval)
    <3>1. mpc' = "delay" /\ thistime' = thistime /\ began' = began
      BY <1>1, <2>3 DEF Test
    <3>2. began >= 0 => \/ now - began <= 1800
                        \/ /\ began \div DaySeconds # now \div DaySeconds
                           /\ acquire_time(now) >= 300
      <4> SUFFICES ASSUME began >= 0
                   PROVE  \/ now - began <= 1800
                          \/ /\ began \div DaySeconds # now \div DaySeconds
                             /\ acquire_time(now) >= 300
        OBVIOUS
      <4>1. /\ ~compareTime(acquire_time(now), acquire_time(began), reportinterval)
            /\ now < ResetAt(began)
        BY <1>t, <2>1, <2>3 DEF ThisIsBegan, DurableIsNow, NoResetSince
      <4> QED
        BY <4>1, <1>n, StillWaiting
    <3>3. TypeOK'
      BY <1>t, <2>1, <3>1 DEF TypeOK
    <3> QED
      BY <1>t, <2>1, <3>1, <3>2, <3>3
         DEF Inv, ThisIsBegan, DurableIsNow, IntervalOfLook, RoundIsNow,
             NoResetSince, DelayInTime, WaitEndsByDay
  <2> QED
    BY <2>2, <2>3
<1>2. ASSUME NEW s \in Rounds, Round(s) PROVE Inv'
  <2>1. s \in Nat /\ now' = now + s /\ now' \in Nat /\ mpc = "round"
        /\ mpc' = "delay" /\ length' = s /\ began' = began /\ began = now
        /\ began \in -1..now' /\ began \in Nat
    BY <1>2, <1>t, <1>n, RoundsAssumption DEF Round, RoundIsNow
  <2>2. UNCHANGED <<thistime, durabletime, reportinterval>> /\ ~ResetDue(s)
    BY <1>2 DEF Round
  <2>3. TypeOK'
    BY <1>t, <2>1, <2>2, <1>2 DEF TypeOK
  <2>4. now' < ResetAt(now)
    <3>1. ResetAt(now) \in Nat
      BY <1>n, ResetIsAhead
    <3> QED
      BY <3>1, <2>1, <2>2 DEF ResetDue
  <2>5. now' - began' = s
    BY <2>1
  <2> QED
    BY <1>t, <2>1, <2>2, <2>3, <2>4, <2>5
       DEF Inv, ThisIsBegan, DurableIsNow, IntervalOfLook, RoundIsNow,
           NoResetSince, DelayInTime, WaitEndsByDay
<1>3. ASSUME NEW s \in Looks, Look(s) PROVE Inv'
  <2>1. s \in Nat /\ now' = now + s /\ now' \in Nat /\ mpc = "delay"
        /\ mpc' = "test" /\ ~ResetDue(s)
        /\ UNCHANGED <<thistime, began, length>>
    BY <1>3, <1>n, LooksAssumption DEF Look
  <2>2. acquire_time(now') \in 0..(DaySeconds - 1)
    BY <2>1, TimeInRange
  <2>3. /\ durabletime' = acquire_time(now')
        /\ reportinterval' = Interval(durabletime' - thistime')
    BY <1>3, <2>1 DEF Look
  <2>4. durabletime' - thistime' \in Int
    BY <1>n, <2>1, <2>2, <2>3, DayLength
  <2>5. reportinterval' \in {300, 600, 900, 1200, 1800}
    BY <2>3, <2>4, IntervalInRange
  <2>6. TypeOK'
    BY <1>t, <2>1, <2>2, <2>3, <2>5 DEF TypeOK
  <2>7. began >= 0 => now' < ResetAt(began)
    <3>1. now' < ResetAt(now) - 60
      <4>1. ResetAt(now) \in Nat
        BY <1>n, ResetIsAhead
      <4> QED
        BY <4>1, <2>1 DEF ResetDue
    <3>2. began >= 0 => now < ResetAt(began)
      BY <1>t DEF NoResetSince
    <3>3. now <= now'
      BY <1>n, <2>1
    <3> QED
      BY <1>n, <2>1, <3>1, <3>2, <3>3, NotDue
  <2>8. WaitEndsByDay'
    <3> SUFFICES ASSUME began >= 0, length <= 1800
                 PROVE  \/ \E l \in Looks : now' - began <= 1800 + l
                        \/ began \div DaySeconds # now' \div DaySeconds
                           /\ durabletime' >= 300
      BY <2>1 DEF WaitEndsByDay
    <3>1. CASE now - began <= 1800
      BY <3>1, <1>n, <2>1
    <3>2. CASE began \div DaySeconds # now \div DaySeconds /\ acquire_time(now) >= 300
      <4>1. PICK a \in Nat, m \in Nat :
              /\ a = acquire_time(began) /\ m = began \div DaySeconds
        BY <1>n, DayAndTime
      <4>2. PICK b \in Nat, n \in Nat :
              b = acquire_time(now) /\ n = now \div DaySeconds
        BY <1>n, DayAndTime
      <4>3. PICK c \in Nat, o \in Nat :
              c = acquire_time(now') /\ o = now' \div DaySeconds
        BY <2>1, DayAndTime
      <4>4. now - began = b + 86400 - a /\ n = m + 1
        BY <1>n, <1>t, <3>2, <4>1, <4>2, UntilReset DEF NoResetSince
      <4>5. now' - began = c + 86400 - a /\ o = m + 1
        <5>1. \/ o = m /\ now' - began = c - a
              \/ o = m + 1 /\ now' - began = c + 86400 - a
          BY <1>n, <2>1, <2>7, <4>1, <4>3, UntilReset
        <5>2. c < 86400
          BY <2>1, <4>3, TimeOfDay
        <5>3. now' - began >= now - began
          BY <1>n, <2>1
        <5> QED
          BY <5>1, <5>2, <5>3, <4>4
      <4>6. c >= b
        BY <1>n, <2>1, <4>4, <4>5
      <4> QED
        BY <2>3, <3>2, <4>1, <4>2, <4>3, <4>5, <4>6
    <3> QED
      BY <3>1, <3>2, <1>t, <2>1 DEF DelayInTime
  <2> QED
    BY <1>t, <2>1, <2>3, <2>6, <2>7, <2>8
       DEF Inv, ThisIsBegan, DurableIsNow, IntervalOfLook, RoundIsNow,
           NoResetSince, DelayInTime
<1>4. ASSUME NEW s \in Rounds \union Looks, reboot(s) PROVE Inv'
  <2>1. now' \in Nat
    BY <1>4, <1>n, ResetIsAhead DEF reboot
  <2>2. began' = -1 /\ -1 \in -1..now' /\ ~(began' >= 0)
    BY <1>4, <2>1 DEF reboot, Boot
  <2>3. 0 \in 0..(DaySeconds - 1) /\ 65535 \in 0..(DaySeconds - 1)
    BY DayLength
  <2> QED
    BY <1>4, <2>1, <2>2, <2>3
       DEF reboot, Boot, Inv, TypeOK, ThisIsBegan, DurableIsNow,
           IntervalOfLook, RoundIsNow, NoResetSince, DelayInTime, WaitEndsByDay
<1>5. CASE UNCHANGED vars
  BY <1>5, <1>t
     DEF vars, Inv, TypeOK, ThisIsBegan, DurableIsNow, IntervalOfLook,
         RoundIsNow, NoResetSince, DelayInTime, WaitEndsByDay
<1> QED
  BY <1>1, <1>2, <1>3, <1>4, <1>5 DEF Next

\* The invariant holds in every run.
THEOREM Invariance == Spec => []Inv
<1>1. Init => Inv
  BY InitInv
<1>2. Inv /\ [Next]_vars => Inv'
  BY NextInv
<1> QED
  BY <1>1, <1>2, PTL DEF Spec

\* The variables of the main loop keep their types.
THEOREM TypeCorrect == Spec => []TypeOK
<1>1. Inv => TypeOK
  BY DEF Inv
<1> QED
  BY <1>1, Invariance, PTL

\* A wait for the next round ends in time as long as it does not go over a
\* midnight, whatever boundaries of the intervals the looks miss.
THEOREM WaitsEnd == Spec => []WaitEndsByDay
<1>1. Inv => WaitEndsByDay
  BY DEF Inv
<1> QED
  BY <1>1, Invariance, PTL

\* A round that begins does so 300 s or more after the last one began: what
\* compareTime says of the times of the day is true of the clock.
THEOREM RoundsAreApart == Spec => RoundsApart
<1>1. ASSUME Inv, [Next]_vars
      PROVE  [mpc = "test" /\ mpc' = "round" /\ began >= 0
                => now - began >= 300]_vars
  <2> SUFFICES ASSUME mpc = "test", mpc' = "round", began >= 0
               PROVE  now - began >= 300
    OBVIOUS
  <2> USE DEF Inv, TypeOK
  <2>1. Test
    BY <1>1 DEF Next, Test, Round, Look, reboot, vars
  <2>2. compareTime(durabletime, thistime, reportinterval)
    BY <2>1 DEF Test
  <2>3. durabletime = acquire_time(now) /\ thistime = acquire_time(began)
    BY <1>1 DEF ThisIsBegan, DurableIsNow
  <2>4. now \in Nat /\ began \in Nat /\ began <= now /\ reportinterval \in Nat
        /\ reportinterval >= 300
    BY <1>1
  <2>5. now - began >= reportinterval
    BY <2>2, <2>3, <2>4, NeverEarly
  <2> QED
    BY <2>4, <2>5
<1> QED
  BY <1>1, Invariance, PTL DEF Spec, RoundsApart

-----------------------------------------------------------------------------
(* The upload client.                                                       *)

\* thistime is the time of the day of an instant of the pass, lasttime that
\* of its beginning.
LastIsBegan == passbegan >= 0 => lasttime = acquire_time(passbegan)
ThisIsInPass ==
  passbegan >= 0 /\ cpc # "start" =>
    \E at \in passbegan..now : client_thistime = acquire_time(at)

\* When the thread sleeps it does so because 300 s have not gone by on the
\* clock, and for the ticks the expression gives.
SleepsAsComputed ==
  cpc = "asleep" => ticks = DelayTicks /\ Delays

\* A pass that ended long enough ago lets the next one begin.
StartIsApart == cpc = "start" /\ passbegan >= 0 => now - passbegan >= 299

\* A pass has begun as soon as there is something to wait for.
HasBegun == cpc # "start" => passbegan >= 0

ClientInv == ClientTypeOK /\ LastIsBegan /\ ThisIsInPass /\ SleepsAsComputed
       /\ StartIsApart /\ HasBegun

\* At least the difference of two times of the day goes by between them.
LEMMA ClockRunsOn ==
  ASSUME NEW from \in Nat, NEW at \in Nat, from <= at
  PROVE  at - from >= acquire_time(at) - acquire_time(from)
<1>1. acquire_time(from) = from - 86400 * (from \div 86400)
  BY TimeOfDay
<1>2. acquire_time(at) = at - 86400 * (at \div 86400)
  BY TimeOfDay
<1>3. from \div 86400 <= at \div 86400
  OBVIOUS
<1>4. \A m, n \in Int : m <= n => at - from >= (at - 86400 * n) - (from - 86400 * m)
  OBVIOUS
<1> QED
  BY <1>1, <1>2, <1>3, <1>4

\* If the code does not sleep at the end of a pass, 299 s have gone by.
LEMMA NoDelayIsLate ==
  ASSUME NEW from \in Nat, NEW at \in Nat, from <= at,
         client_thistime = acquire_time(at), lasttime = acquire_time(from), ~Delays
  PROVE  at - from >= 299
<1>1. PICK a \in Nat, b \in Nat, m \in Nat, n \in Nat :
         /\ a = acquire_time(from) /\ m = from \div 86400
         /\ b = acquire_time(at) /\ n = at \div 86400
  BY TimeOfDay
<1>2. a < 86400 /\ b < 86400 /\ a = from - 86400 * m /\ b = at - 86400 * n
  BY <1>1, TimeOfDay
<1>3. m <= n
  <2>1. from \div 86400 <= at \div 86400
    OBVIOUS
  <2> QED
    BY <2>1, <1>1
<1>4. at - from = (b - a) + 86400 * (n - m)
  BY <1>2
<1>5. IF b < 300 /\ a > 300 THEN b + 86401 - a >= 300 ELSE b - a >= 300
  <2>1. IF b < 300 /\ a > 300 THEN ~(b + 86401 - a < 300) ELSE ~(b - a < 300)
    BY <1>1 DEF Delays, Crossed, DaySeconds
  <2> QED
    BY <2>1
<1>6. CASE n = m
  BY <1>2, <1>4, <1>5, <1>6
<1>7. CASE n > m
  <2>1. at - from >= (b - a) + 86400
    BY <1>4, <1>7
  <2> QED
    BY <2>1, <1>2, <1>5
<1> QED
  BY <1>3, <1>6, <1>7

\* If it sleeps, and the timer takes the time, 300 s will have gone by when
\* it wakes.
LEMMA DelayIsLongEnough ==
  ASSUME NEW from \in Nat, NEW at \in Nat, from <= at,
         client_thistime = acquire_time(at), lasttime = acquire_time(from),
         ticks = DelayTicks, Accepted
  PROVE  /\ ticks \in Nat /\ ticks \div TicksPerSecond \in Nat
         /\ (at - from) + ticks \div TicksPerSecond >= 300
<1>1. PICK a \in Nat, b \in Nat, m \in Nat, n \in Nat :
         /\ a = acquire_time(from) /\ m = from \div 86400
         /\ b = acquire_time(at) /\ n = at \div 86400
  BY TimeOfDay
<1>2. a < 86400 /\ b < 86400 /\ a = from - 86400 * m /\ b = at - 86400 * n
  BY <1>1, TimeOfDay
<1>3. m <= n
  <2>1. from \div 86400 <= at \div 86400
    OBVIOUS
  <2> QED
    BY <2>1, <1>1
<1>4. at - from >= b - a
  <2>1. at - from = (b - a) + 86400 * (n - m)
    BY <1>2
  <2> QED
    BY <2>1, <1>3
<1>5. ~Crossed
  <2>1. SUFFICES ASSUME Crossed PROVE FALSE
    OBVIOUS
  <2>2. ticks = 300 - ((b + 86401) + a) * 100
    BY <2>1, <1>1 DEF DelayTicks, DaySeconds, TicksPerSecond
  <2>3. ticks < 0
    BY <2>2
  <2> QED
    BY <2>2, <2>3 DEF Accepted
<1>6. ticks = (300 + a - b) * 100
  BY <1>1, <1>5 DEF DelayTicks, TicksPerSecond
<1>7. ticks \in Nat
  BY <1>6 DEF Accepted
<1>8. ticks \div TicksPerSecond = 300 + a - b
  <2>1. ticks \div 100 = 300 + a - b
    BY <1>6, <1>7
  <2> QED
    BY <2>1 DEF TicksPerSecond
<1>9. ticks \div TicksPerSecond \in Nat
  <2>1. 300 + a - b >= 0
    BY <1>6, <1>7
  <2> QED
    BY <2>1, <1>8
<1> QED
  BY <1>4, <1>7, <1>8, <1>9

\* The invariant holds when the thread starts.
LEMMA ClientInitInv == ClientInit => ClientInv
<1> SUFFICES ASSUME ClientInit PROVE ClientInv
  OBVIOUS
<1>1. now \in Nat
  BY ClientStartsAssumption DEF ClientInit
<1>2. passbegan = -1 /\ -1 \in -1..now /\ ~(passbegan >= 0)
  BY <1>1 DEF ClientInit
<1>3. 0 \in 0..(DaySeconds - 1) /\ 0 \in Int
  BY DayLength
<1> QED
  BY <1>1, <1>2, <1>3
     DEF ClientInit, ClientInv, ClientTypeOK, LastIsBegan, ThisIsInPass, SleepsAsComputed,
         StartIsApart, HasBegun

\* The argument of rt_thread_delay is an integer.
LEMMA TicksInt == ClientTypeOK => DelayTicks \in Int
<1> SUFFICES ASSUME ClientTypeOK PROVE DelayTicks \in Int
  OBVIOUS
<1>1. PICK a \in Nat, b \in Nat : a = lasttime /\ b = client_thistime
  BY DayLength DEF ClientTypeOK
<1>2. DelayTicks = IF Crossed THEN 300 - ((b + (DaySeconds + 1)) + a) * 100
                              ELSE (300 + a - b) * 100
  BY <1>1 DEF DelayTicks, TicksPerSecond
<1> QED
  BY <1>2, DayLength

\* Every step of the thread keeps the invariant.
LEMMA ClientNextInv == ClientInv /\ [ClientNext]_client_vars => ClientInv'
<1> SUFFICES ASSUME ClientInv, [ClientNext]_client_vars PROVE ClientInv'
  OBVIOUS
<1>t. ClientTypeOK
  BY DEF ClientInv
<1>1. ASSUME NEW s \in Works \union {0}, Begin(s) PROVE ClientInv'
  <2>1. s \in Nat /\ now \in Nat /\ now' = now + s /\ now' \in Nat /\ passbegan' = now
        /\ passbegan' \in passbegan'..now' /\ passbegan' \in -1..now'
    BY <1>1, <1>t, WorksAssumption DEF Begin, ClientTypeOK
  <2>2. acquire_time(now) \in 0..(DaySeconds - 1)
    BY <2>1, TimeInRange
  <2>3. ClientTypeOK'
    BY <1>1, <1>t, <2>1, <2>2 DEF Begin, ClientTypeOK
  <2>4. client_thistime' = acquire_time(passbegan') /\ lasttime' = acquire_time(passbegan')
        /\ cpc' = "upload" /\ passbegan' >= 0
    BY <1>1, <2>1 DEF Begin
  <2> QED
    BY <2>1, <2>3, <2>4
       DEF ClientInv, LastIsBegan, ThisIsInPass, SleepsAsComputed, StartIsApart,
           HasBegun
<1>2. ASSUME NEW s \in Works, send_record(s) PROVE ClientInv'
  <2>1. s \in Nat /\ now \in Nat /\ now' = now + s /\ now' \in Nat
        /\ passbegan' = passbegan /\ passbegan >= 0 /\ now' \in passbegan'..now'
        /\ passbegan' \in -1..now'
    BY <1>2, <1>t, WorksAssumption DEF send_record, ClientTypeOK, ClientInv, HasBegun
  <2>2. acquire_time(now') \in 0..(DaySeconds - 1)
    BY <2>1, TimeInRange
  <2>3. ClientTypeOK'
    BY <1>2, <1>t, <2>1, <2>2 DEF send_record, ClientTypeOK
  <2>4. client_thistime' = acquire_time(now') /\ lasttime' = lasttime
        /\ cpc' = "upload"
    BY <1>2 DEF send_record
  <2> QED
    BY <2>1, <2>3, <2>4
       DEF ClientInv, LastIsBegan, ThisIsInPass, SleepsAsComputed, StartIsApart,
           HasBegun
<1>3. ASSUME NEW s \in Works, EndUpload(s) PROVE ClientInv'
  <2>1. s \in Nat /\ now \in Nat /\ now' = now + s /\ now' \in Nat
        /\ passbegan' = passbegan /\ passbegan >= 0 /\ passbegan' \in -1..now'
    BY <1>3, <1>t, WorksAssumption DEF EndUpload, ClientTypeOK, ClientInv, HasBegun
  <2>2. ClientTypeOK'
    BY <1>3, <1>t, <2>1 DEF EndUpload, ClientTypeOK
  <2>3. PICK at \in passbegan..now : client_thistime = acquire_time(at)
    BY <1>3, <2>1 DEF EndUpload, ClientInv, ThisIsInPass
  <2>4. at \in passbegan'..now' /\ client_thistime' = acquire_time(at) /\ cpc' = "delay"
        /\ lasttime' = lasttime
    BY <1>3, <1>t, <2>1, <2>3 DEF EndUpload, ClientTypeOK
  <2> QED
    BY <2>1, <2>2, <2>4
       DEF ClientInv, LastIsBegan, ThisIsInPass, SleepsAsComputed, StartIsApart,
           HasBegun
<1>4. CASE Delay
  <2>1. /\ passbegan \in Nat /\ now \in Nat /\ lasttime = acquire_time(passbegan)
        /\ \E at \in passbegan..now : client_thistime = acquire_time(at)
    BY <1>4, <1>t DEF Delay, ClientTypeOK, ClientInv, HasBegun, LastIsBegan, ThisIsInPass
  <2>2. PICK at \in passbegan..now : client_thistime = acquire_time(at)
    BY <2>1
  <2>3. at \in Nat /\ passbegan <= at /\ at <= now
    BY <2>1, <2>2
  <2>4. ~Delays => now - passbegan >= 299
    <3>1. ~Delays => at - passbegan >= 299
      BY <2>1, <2>2, <2>3, NoDelayIsLate
    <3> QED
      BY <3>1, <2>1, <2>3
  <2>5. ClientTypeOK'
    BY <1>4, <1>t, TicksInt DEF Delay, ClientTypeOK
  <2>6. cpc' = "asleep" => /\ ticks' = DelayTicks
                           /\ DelayTicks' = DelayTicks
                           /\ Delays'
    BY <1>4 DEF Delay, DelayTicks, Crossed, Delays
  <2>7. cpc' \in {"asleep", "start"} /\ (cpc' = "start" => ~Delays)
    BY <1>4 DEF Delay
  <2> QED
    BY <1>4, <2>1, <2>4, <2>5, <2>6, <2>7
       DEF Delay, ClientInv, LastIsBegan, ThisIsInPass, SleepsAsComputed,
           StartIsApart, HasBegun
<1>5. CASE Halt
  BY <1>5 DEF Halt, ClientInv, ClientTypeOK, LastIsBegan, ThisIsInPass, SleepsAsComputed,
              StartIsApart, HasBegun
<1>6. CASE Wake
  <2>1. /\ passbegan \in Nat /\ now \in Nat /\ lasttime = acquire_time(passbegan)
        /\ ticks = DelayTicks /\ Accepted
        /\ \E at \in passbegan..now : client_thistime = acquire_time(at)
    BY <1>6, <1>t DEF Wake, ClientTypeOK, ClientInv, HasBegun, LastIsBegan, ThisIsInPass,
                      SleepsAsComputed
  <2>2. PICK at \in passbegan..now : client_thistime = acquire_time(at)
    BY <2>1
  <2>3. at \in Nat /\ passbegan <= at /\ at <= now
    BY <2>1, <2>2
  <2>4. /\ ticks \div TicksPerSecond \in Nat
        /\ (at - passbegan) + ticks \div TicksPerSecond >= 300
    BY <2>1, <2>2, <2>3, DelayIsLongEnough
  <2>5. now' = now + ticks \div TicksPerSecond /\ passbegan' = passbegan
    BY <1>6 DEF Wake
  <2>6. now' \in Nat /\ passbegan' \in -1..now' /\ now' - passbegan' >= 299
    BY <2>1, <2>3, <2>4, <2>5
  <2> QED
    BY <1>6, <1>t, <2>1, <2>6
       DEF Wake, ClientInv, ClientTypeOK, LastIsBegan, ThisIsInPass, SleepsAsComputed,
           StartIsApart, HasBegun
<1>7. ASSUME NEW s \in Works, Reset(s) PROVE ClientInv'
  <2>1. s \in Nat /\ now \in Nat /\ now' = now + s
    BY <1>7, <1>t, WorksAssumption DEF Reset, ClientTypeOK
  <2>2. now' \in Nat
    BY <2>1
  <2>3. passbegan' = -1 /\ -1 \in -1..now' /\ ~(passbegan' >= 0)
    BY <1>7, <2>2 DEF Reset
  <2>4. 0 \in 0..(DaySeconds - 1) /\ 0 \in Int
    BY DayLength
  <2> QED
    BY <1>7, <2>2, <2>3, <2>4
       DEF Reset, ClientInv, ClientTypeOK, LastIsBegan, ThisIsInPass, SleepsAsComputed,
           StartIsApart, HasBegun
<1>8. CASE UNCHANGED client_vars
  BY <1>8 DEF client_vars, ClientInv, ClientTypeOK, LastIsBegan, ThisIsInPass, SleepsAsComputed,
              StartIsApart, HasBegun, DelayTicks, Crossed,
              Delays
<1> QED
  BY <1>1, <1>2, <1>3, <1>4, <1>5, <1>6, <1>7, <1>8 DEF ClientNext

\* The invariant holds in every run.
THEOREM ClientInvariance == ClientSpec => []ClientInv
<1>1. ClientInit => ClientInv
  BY ClientInitInv
<1>2. ClientInv /\ [ClientNext]_client_vars => ClientInv'
  BY ClientNextInv
<1> QED
  BY <1>1, <1>2, PTL DEF ClientSpec

\* The variables of the client's loop keep their types.
THEOREM ClientTypeCorrect == ClientSpec => []ClientTypeOK
<1>1. ClientInv => ClientTypeOK
  BY DEF ClientInv
<1> QED
  BY <1>1, ClientInvariance, PTL

\* Seconds in ticks.
LEMMA TicksOfSeconds ==
  ASSUME NEW d \in Nat, 1 <= d, d <= 300
  PROVE  /\ (d * TicksPerSecond) \div TicksPerSecond = d
         /\ d * TicksPerSecond \in 1..(300 * TicksPerSecond)
<1>1. (d * TicksPerSecond) \div TicksPerSecond = d
  BY DEF TicksPerSecond
<1>2. /\ d * TicksPerSecond \in Int /\ 300 * TicksPerSecond \in Int
      /\ 1 <= d * TicksPerSecond /\ d * TicksPerSecond <= 300 * TicksPerSecond
  BY DEF TicksPerSecond
<1>3. d * TicksPerSecond \in 1..(300 * TicksPerSecond)
  BY <1>2
<1> QED
  BY <1>1, <1>3

\* A pass that does not go over midnight sleeps for at most 300 s, and until
\* 300 s have gone by since it began: the times of the day give that much.
THEOREM DelayIsByDay == ClientSpec => []DelayByDay
<1>1. ClientInv => DelayByDay
  <2> SUFFICES ASSUME ClientInv, cpc = "asleep", client_thistime >= lasttime
               PROVE  /\ ticks \in 1..(300 * TicksPerSecond)
                      /\ passbegan + 300 <= now + ticks \div TicksPerSecond
    BY DEF DelayByDay
  <2>1. /\ passbegan \in Nat /\ now \in Nat /\ lasttime = acquire_time(passbegan)
        /\ ticks = DelayTicks /\ Delays
        /\ \E at \in passbegan..now : client_thistime = acquire_time(at)
    BY DEF ClientInv, ClientTypeOK, HasBegun, LastIsBegan, ThisIsInPass,
           SleepsAsComputed
  <2>2. PICK at \in passbegan..now : client_thistime = acquire_time(at)
    BY <2>1
  <2>3. at \in Nat /\ passbegan <= at /\ at <= now
    BY <2>1, <2>2
  <2>4. PICK a \in Nat, b \in Nat :
          a = lasttime /\ b = client_thistime /\ at - passbegan >= b - a
    BY <2>1, <2>2, <2>3, TimeOfDay, ClockRunsOn
  <2>5. ~Crossed
    BY <2>4 DEF Crossed
  <2>6. b - a < 300
    BY <2>1, <2>4, <2>5 DEF Delays
  <2>7. PICK d \in Nat : d = 300 + a - b /\ 1 <= d /\ d <= 300
    BY <2>4, <2>6
  <2>8. ticks = d * TicksPerSecond
    <3>1. ticks = (300 + lasttime - client_thistime) * TicksPerSecond
      BY <2>1, <2>5 DEF DelayTicks
    <3>2. d = 300 + lasttime - client_thistime
      BY <2>4, <2>7
    <3> QED
      BY <3>1, <3>2
  <2>9. ticks \div TicksPerSecond = d /\ ticks \in 1..(300 * TicksPerSecond)
    <3>1. /\ (d * TicksPerSecond) \div TicksPerSecond = d
          /\ d * TicksPerSecond \in 1..(300 * TicksPerSecond)
      BY <2>7, TicksOfSeconds
    <3> QED
      BY <3>1, <2>8
  <2>10. passbegan + 300 <= now + d
    BY <2>1, <2>3, <2>4, <2>7
  <2> QED
    BY <2>9, <2>10
<1> QED
  BY <1>1, ClientInvariance, PTL

\* A pass begins 299 s or more after the last one began: also where the
\* expressions go wrong over midnight, they do not make the client hurry.
THEOREM PassesAreApart == ClientSpec => PassesApart
<1>1. ASSUME ClientInv, [ClientNext]_client_vars
      PROVE  [cpc = "start" /\ cpc' = "upload" /\ passbegan >= 0
                => now - passbegan >= 299]_client_vars
  BY <1>1 DEF ClientInv, StartIsApart
<1> QED
  BY <1>1, ClientInvariance, PTL DEF ClientSpec, PassesApart

=============================================================================
