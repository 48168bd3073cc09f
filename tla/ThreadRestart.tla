---------------------------- MODULE ThreadRestart ----------------------------
(***************************************************************************)
(* Threads that are restarted while they use the mutexes of the system     *)
(* (applications/threadlist.c, rtt/src/ipc.c, rtt/src/thread.c and         *)
(* rtt/src/timer.c).                                                       *)
(*                                                                         *)
(* restartThread detaches a static thread wherever it is, initialises the  *)
(* same thread object again and starts it.  The kernel takes the thread    *)
(* off the list it is suspended on, but a mutex knows its owner only by    *)
(* the address of the thread object: it stays with the thread and keeps    *)
(* the count of the takes the old run never gave back.                     *)
(*                                                                         *)
(* The control client asks for a restart by a one-shot timer.  The timers  *)
(* are separate, the type they restart is the one global                   *)
(* threadRestartType.  The ID writer and the phone server restart the main *)
(* thread at once, the ID writer while it holds record_data_lock.          *)
(***************************************************************************)
EXTENDS Naturals, Sequences, FiniteSets

CONSTANTS Thread,     \* the threads that use the mutexes
          Lock,       \* the mutexes
          Uses,       \* Uses[t]: the mutexes the code of thread t takes
          Nest,       \* <<l, m>>: m is taken by code that holds l
          NULL,       \* RT_NULL, no thread and no mutex
          MAIN, CONTROL, IDWRITE,  \* the threads that are restarted or restart
          CLIENT, PHONE,           \* two more, of Thread if they take mutexes
          RECORD,     \* record_data_lock
          Asked,      \* the types mysystem restarts, of a thread or not
          MaxDepth,   \* bound: nested takes of one mutex by one thread
          MaxHold,    \* bound: the hold count of a mutex
          MaxTimers   \* bound: timers running at the same time

ASSUME ThreadAssumption == /\ NULL \notin Thread /\ NULL \notin Lock
                           /\ NULL \notin Asked
                           /\ {MAIN, CONTROL, IDWRITE} \subseteq Thread
                           /\ NULL \notin {CLIENT, PHONE}
ASSUME LockAssumption == /\ RECORD \in Lock
                         /\ Uses \in [Thread -> SUBSET Lock]
                         /\ Nest \subseteq Lock \X Lock
\* The order in which the code nests its mutexes has no circle.
ASSUME NestAssumption ==
  \A L \in SUBSET Lock : L # {} => \E l \in L : \A m \in L : <<l, m>> \notin Nest
ASSUME BoundAssumption == MaxDepth \in Nat /\ MaxHold \in Nat /\ MaxTimers \in Nat

VARIABLES
  owner,    \* owner[l]: the thread that owns mutex l, or NULL
  hold,     \* hold[l]: how often it has taken it, as the mutex counts
  queue,    \* queue[l]: the threads suspended on l, first come first served
  depth,    \* depth[t][l]: how often the present run of t has taken l
  wait,     \* wait[t]: the mutex t is suspended on, or NULL
  timers,   \* the running one-shot timers, in the order of rt_timer_list
  threadRestartType   \* the type every restart timer restarts

locks == <<owner, hold, queue, depth, wait>>
vars == <<owner, hold, queue, depth, wait, timers, threadRestartType>>

\* The types of restarts asked for.
Type == Asked \cup {MAIN, CLIENT}

\* A one-shot timer: what its timeout function does, the time it has left in
\* units of 10 s, and for a restart the type it was asked for.
Timer == [what : {"restart", "reboot"}, left : 0..2,
          asked : Type \cup {NULL}]

\* The type invariant.
TypeOK ==
  /\ owner \in [Lock -> Thread \cup {NULL}]
  /\ hold \in [Lock -> Nat]
  /\ queue \in [Lock -> Seq(Thread)]
  /\ depth \in [Thread -> [Lock -> Nat]]
  /\ wait \in [Thread -> Lock \cup {NULL}]
  /\ timers \in Seq(Timer)
  /\ threadRestartType \in Type \cup {NULL}

Init ==
  /\ owner = [l \in Lock |-> NULL]
  /\ hold = [l \in Lock |-> 0]
  /\ queue = [l \in Lock |-> <<>>]
  /\ depth = [t \in Thread |-> [l \in Lock |-> 0]]
  /\ wait = [t \in Thread |-> NULL]
  /\ timers = <<>>
  /\ threadRestartType = NULL

-----------------------------------------------------------------------------
(***************************************************************************)
(* The mutexes.                                                            *)
(***************************************************************************)
Running(t) == wait[t] = NULL

\* Slip: code takes its mutexes in any order.
WantsInAnyOrder(t, l) == Running(t) /\ l \in Uses[t]

\* The code of t reaches a take of l: it uses l, and l may be taken under
\* every mutex that t holds.
Wants(t, l) ==
  /\ Running(t)
  /\ l \in Uses[t]
  /\ \A m \in Lock : depth[t][m] > 0 => m = l \/ <<m, l>> \in Nest

\* Slip: a take by the owner is not counted.
TakeNowUncounted(t, l) ==
  /\ Wants(t, l)
  /\ owner[l] \in {t, NULL}
  /\ depth[t][l] < MaxDepth /\ hold[l] < MaxHold
  /\ owner' = [owner EXCEPT ![l] = t]
  /\ hold' = [hold EXCEPT ![l] = IF owner[l] = t THEN @ ELSE @ + 1]
  /\ depth' = [depth EXCEPT ![t][l] = @ + 1]
  /\ UNCHANGED <<queue, wait, timers, threadRestartType>>

\* rt_mutex_take by the owner, or of a mutex that is free.
TakeNow(t, l) ==
  /\ Wants(t, l)
  /\ owner[l] \in {t, NULL}
  /\ depth[t][l] < MaxDepth /\ hold[l] < MaxHold
  /\ owner' = [owner EXCEPT ![l] = t]
  /\ hold' = [hold EXCEPT ![l] = @ + 1]
  /\ depth' = [depth EXCEPT ![t][l] = @ + 1]
  /\ UNCHANGED <<queue, wait, timers, threadRestartType>>

\* rt_mutex_take of a mutex another thread owns: the thread is suspended at
\* the end of the list of the mutex, without a time limit.
TakeWait(t, l) ==
  /\ Wants(t, l)
  /\ owner[l] \notin {t, NULL}
  /\ queue' = [queue EXCEPT ![l] = Append(@, t)]
  /\ wait' = [wait EXCEPT ![t] = l]
  /\ UNCHANGED <<owner, hold, depth, timers, threadRestartType>>

\* Slip: a nested release sets the mutex free.
ReleaseAtOnce(t, l) ==
  /\ Running(t)
  /\ depth[t][l] > 0
  /\ owner[l] = t
  /\ hold' = [hold EXCEPT ![l] = 0]
  /\ owner' = [owner EXCEPT ![l] = NULL]
  /\ depth' = [depth EXCEPT ![t][l] = @ - 1]
  /\ UNCHANGED <<queue, wait, timers, threadRestartType>>

\* rt_mutex_release: the last of nested releases hands the mutex to the first
\* thread of the list, or sets it free.
Release(t, l) ==
  /\ Running(t)
  /\ depth[t][l] > 0
  /\ \A m \in Lock : <<l, m>> \in Nest => depth[t][m] = 0
  /\ owner[l] = t
  /\ IF hold[l] > 1
     THEN /\ hold' = [hold EXCEPT ![l] = @ - 1]
          /\ depth' = [depth EXCEPT ![t][l] = @ - 1]
          /\ UNCHANGED <<owner, queue, wait>>
     ELSE IF queue[l] = <<>>
     THEN /\ hold' = [hold EXCEPT ![l] = 0]
          /\ owner' = [owner EXCEPT ![l] = NULL]
          /\ depth' = [depth EXCEPT ![t][l] = @ - 1]
          /\ UNCHANGED <<queue, wait>>
     ELSE LET u == Head(queue[l]) IN
          /\ hold' = [hold EXCEPT ![l] = 1]
          /\ owner' = [owner EXCEPT ![l] = u]
          /\ queue' = [queue EXCEPT ![l] = Tail(@)]
          /\ wait' = [wait EXCEPT ![u] = NULL]
          /\ depth' = [depth EXCEPT ![t][l] = @ - 1, ![u][l] = @ + 1]
  /\ UNCHANGED <<timers, threadRestartType>>

-----------------------------------------------------------------------------
(***************************************************************************)
(* Restarts.                                                               *)
(***************************************************************************)
\* rt_list_remove of the thread that stands at place i of a list.
RemovedAt(q, i) == [j \in 1..(Len(q) - 1) |-> IF j < i THEN q[j] ELSE q[j + 1]]

Without(q, t) ==
  IF \E i \in 1..Len(q) : q[i] = t
  THEN RemovedAt(q, CHOOSE i \in 1..Len(q) : q[i] = t)
  ELSE q

\* rt_thread_detach, rt_thread_init and rt_thread_startup of one thread.  A
\* type without a thread (TYPE_NTP is not built) does nothing.
restartThread(type) ==
  /\ UNCHANGED <<owner, hold>>
  /\ IF type \in Thread
     THEN /\ queue' = [l \in Lock |-> Without(queue[l], type)]
          /\ wait' = [wait EXCEPT ![type] = NULL]
          /\ depth' = [depth EXCEPT ![type] = [l \in Lock |-> 0]]
     ELSE UNCHANGED <<queue, wait, depth>>

\* rt_timer_start: the list is sorted by time, equal times in the order of
\* their start.
Insert(q, tm) ==
  LET p == Cardinality({j \in 1..Len(q) : q[j].left <= tm.left})
  IN  [j \in 1..(Len(q) + 1) |-> IF j <= p THEN q[j]
                                ELSE IF j = p + 1 THEN tm ELSE q[j - 1]]

RestartTimer(type, left) == [what |-> "restart", left |-> left, asked |-> type]
RebootTimer(left) == [what |-> "reboot", left |-> left, asked |-> NULL]

\* The ID writer (commands set_ecu_id, set_time, set_inverter_id and clear,
\* all under record_data_lock) and the phone server (registration of
\* inverters, time, channel) restart the main thread at once.
RestartNow(by) ==
  /\ by \in Thread => Running(by)
  /\ \/ by = IDWRITE /\ depth[by][RECORD] > 0
     \/ by = PHONE /\ (by \in Thread => \A l \in Lock : depth[by][l] = 0)
  /\ restartThread(MAIN)
  /\ UNCHANGED <<timers, threadRestartType>>

\* mysystem("restart ..."): threadRestartTimer(10, type).
AskRestart(type) ==
  /\ Running(CONTROL)
  /\ Len(timers) < MaxTimers
  /\ threadRestartType' = type
  /\ timers' = Insert(timers, RestartTimer(type, 1))
  /\ UNCHANGED locks

\* set_inverter_id (A103): threadRestartTimer(20, TYPE_MAIN), under
\* record_data_lock.
set_inverter_id ==
  /\ Running(CONTROL) /\ depth[CONTROL][RECORD] > 0
  /\ Len(timers) < MaxTimers
  /\ threadRestartType' = MAIN
  /\ timers' = Insert(timers, RestartTimer(MAIN, 2))
  /\ UNCHANGED locks

\* set_comm_config (A107) for the data connection: threadRestartTimer(10,
\* TYPE_CLIENT), then reboot_timer(10); for the control connection only the
\* latter, like mysystem("reboot").
set_comm_config(data) ==
  /\ Running(CONTROL) /\ depth[CONTROL][RECORD] > 0
  /\ Len(timers) + 1 < MaxTimers
  /\ IF data
     THEN /\ threadRestartType' = CLIENT
          /\ timers' = Insert(Insert(timers, RestartTimer(CLIENT, 1)), RebootTimer(1))
     ELSE /\ UNCHANGED threadRestartType
          /\ timers' = Insert(timers, RebootTimer(1))
  /\ UNCHANGED locks

\* Slip: the tick goes on while a timer is due.
TickLate ==
  /\ timers # <<>>
  /\ timers' = [i \in 1..Len(timers) |-> [timers[i] EXCEPT !.left = @ - 1]]
  /\ UNCHANGED <<owner, hold, queue, depth, wait, threadRestartType>>

\* 10 s pass.  rt_timer_check runs in the tick interrupt: no timer stays in
\* the list once its time has come.
Tick ==
  /\ timers # <<>>
  /\ \A i \in 1..Len(timers) : timers[i].left > 0
  /\ timers' = [i \in 1..Len(timers) |-> [timers[i] EXCEPT !.left = @ - 1]]
  /\ UNCHANGED <<owner, hold, queue, depth, wait, threadRestartType>>

\* threadRestartTimeout, from the tick interrupt.
threadRestartTimeout ==
  /\ timers # <<>>
  /\ Head(timers).left = 0 /\ Head(timers).what = "restart"
  /\ timers' = Tail(timers)
  /\ restartThread(threadRestartType)
  /\ UNCHANGED threadRestartType

\* The system starts again: the mutexes are created anew.
Reset ==
  /\ owner' = [l \in Lock |-> NULL]
  /\ hold' = [l \in Lock |-> 0]
  /\ queue' = [l \in Lock |-> <<>>]
  /\ depth' = [t \in Thread |-> [l \in Lock |-> 0]]
  /\ wait' = [t \in Thread |-> NULL]
  /\ timers' = <<>>
  /\ threadRestartType' = NULL

\* reboottimeout.
reboottimeout ==
  /\ timers # <<>>
  /\ Head(timers).left = 0 /\ Head(timers).what = "reboot"
  /\ Reset

\* The timer interrupts the very thread it restarts: _rt_thread_init fills
\* the stack with '#', the frame to return to included.  The processor
\* faults and the watchdog, which the led thread no longer feeds, resets it.
RestartInterrupted ==
  /\ timers # <<>>
  /\ Head(timers).left = 0 /\ Head(timers).what = "restart"
  /\ threadRestartType \in Thread
  /\ Running(threadRestartType)
  /\ Reset

\* The lan8720 thread, which takes no mutex, resets the system at 02:00.
NightlyReset == Reset

Next ==
  \/ \E t \in Thread, l \in Lock : TakeNow(t, l) \/ TakeWait(t, l) \/ Release(t, l)
  \/ \E by \in {IDWRITE, PHONE} : RestartNow(by)
  \/ \E type \in Asked : AskRestart(type)
  \/ set_inverter_id
  \/ \E data \in BOOLEAN : set_comm_config(data)
  \/ Tick
  \/ threadRestartTimeout
  \/ RestartInterrupted
  \/ reboottimeout
  \/ NightlyReset

Spec == Init /\ [][Next]_vars

-----------------------------------------------------------------------------
(***************************************************************************)
(* Properties.                                                             *)
(***************************************************************************)
\* A mutex that counts takes of a run of its owner that is no more.
Leaked(l) == owner[l] # NULL /\ hold[l] > depth[owner[l]][l]

\* Two threads are never inside the code of the same mutex, whichever threads
\* are restarted while they hold it, wait for it or are handed it.
Exclusive ==
  \A l \in Lock : \A t, u \in Thread : depth[t][l] > 0 /\ depth[u][l] > 0 => t = u

\* A mutex that a restart has leaked is never free again, although its owner
\* goes on taking and releasing it: only a reset of the system gives it back.
LeakStays == [][\A l \in Lock : Leaked(l) => Leaked(l)' \/ Reset]_vars

\* Threads wait for each other in a circle only behind a leaked mutex.
NoDeadlock ==
  \A S \in (SUBSET Thread) \ {{}} :
    (\A t \in S : wait[t] # NULL /\ owner[wait[t]] \in S)
      => \E t \in S : Leaked(wait[t])

\* What the comment of set_inverter_id says ("restart the main thread"), and
\* every other request: a restart timer restarts the thread it was started
\* for.
RestartsWhatWasAsked ==
  \A i \in 1..Len(timers) :
    timers[i].what = "restart" => timers[i].asked = threadRestartType
=============================================================================
