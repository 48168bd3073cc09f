------------------------ MODULE ThreadRestart_proofs ------------------------
(***************************************************************************)
(* The mutexes under restarts, for every set of threads and mutexes: they  *)
(* exclude, what a restart leaks stays leaked, and without a leak nobody   *)
(* waits in a circle.                                                      *)
(***************************************************************************)
EXTENDS ThreadRestart, FiniteSetTheorems, TLAPS

\* A run of a thread has taken only what the mutex says is its own, and the
\* mutex counts no less.
Held == \A t \in Thread, l \in Lock :
          depth[t][l] > 0 => owner[l] = t /\ hold[l] >= depth[t][l]

\* A mutex has an owner exactly when it is held.
Counted == \A l \in Lock : owner[l] = NULL <=> hold[l] = 0

\* The list of a mutex names threads that wait for it, each once.
QueuedAt(l) ==
  /\ \A i \in 1..Len(queue[l]) : wait[queue[l][i]] = l
  /\ \A i, j \in 1..Len(queue[l]) : queue[l][i] = queue[l][j] => i = j

Queued == \A l \in Lock : QueuedAt(l)

\* A thread waits for a mutex that may be taken under all that it holds.
WaitOrder == \A t \in Thread, m \in Lock :
               wait[t] # NULL /\ depth[t][m] > 0 => <<m, wait[t]>> \in Nest

\* The inductive invariant.
Inv == TypeOK /\ Held /\ Counted /\ Queued /\ WaitOrder

USE ThreadAssumption

\* The invariant holds when the system starts, and after every reset.
LEMMA InitInv == Init => Inv
  BY DEF Init, Inv, TypeOK, Held, Counted, Queued, QueuedAt, WaitOrder, Timer, Type

LEMMA ResetInv == Reset => Inv'
  BY DEF Reset, Inv, TypeOK, Held, Counted, Queued, QueuedAt, WaitOrder, Timer, Type

LEMMA TakeNowInv ==
  ASSUME Inv, NEW t \in Thread, NEW l \in Lock, TakeNow(t, l)
  PROVE  Inv'
<1> USE DEF Inv, TakeNow
<1>1. TypeOK'
  BY DEF TypeOK
<1>2. \A u \in Thread, m \in Lock :
        depth'[u][m] = IF u = t /\ m = l THEN depth[u][m] + 1 ELSE depth[u][m]
  BY DEF TypeOK
<1>3. Held'
  BY <1>2, SMTT(30) DEF TypeOK, Held, Counted
<1>4. Counted'
  BY DEF TypeOK, Counted
<1>5. Queued'
  BY DEF Queued, QueuedAt
<1>6. WaitOrder'
  BY <1>2 DEF TypeOK, WaitOrder, Wants, Running
<1> QED
  BY <1>1, <1>3, <1>4, <1>5, <1>6

LEMMA TakeWaitInv ==
  ASSUME Inv, NEW t \in Thread, NEW l \in Lock, TakeWait(t, l)
  PROVE  Inv'
<1>0. /\ wait[t] = NULL /\ owner[l] # t
      /\ queue' = [queue EXCEPT ![l] = Append(queue[l], t)]
      /\ wait' = [wait EXCEPT ![t] = l]
      /\ UNCHANGED <<owner, hold, depth, timers, threadRestartType>>
  BY DEF TakeWait, Wants, Running
<1>1. TypeOK /\ Held /\ Counted /\ Queued /\ WaitOrder
  BY DEF Inv
<1>2. \A m \in Lock : depth[t][m] > 0 => m = l \/ <<m, l>> \in Nest
  BY DEF TakeWait, Wants
<1>3. TypeOK'
  BY <1>0, <1>1 DEF TypeOK
<1>4. Held' /\ Counted'
  BY <1>0, <1>1 DEF Held, Counted
<1>5. Queued'
  <2> SUFFICES ASSUME NEW m \in Lock PROVE QueuedAt(m)'
    BY DEF Queued
  <2>1. queue[m] \in Seq(Thread) /\ QueuedAt(m) /\ wait \in [Thread -> Lock \cup {NULL}]
    BY <1>1 DEF TypeOK, Queued
  <2>2. \A i \in 1..Len(queue[m]) : queue[m][i] \in Thread /\ queue[m][i] # t
    BY <1>0, <2>1 DEF QueuedAt
  <2>3. CASE m = l
    <3>1. /\ Len(queue'[m]) = Len(queue[m]) + 1
          /\ \A i \in 1..Len(queue[m]) : queue'[m][i] = queue[m][i]
          /\ queue'[m][Len(queue[m]) + 1] = t
      BY <1>0, <1>1, <2>1, <2>3 DEF TypeOK
    <3> QED
      BY <1>0, <2>1, <2>2, <2>3, <3>1 DEF QueuedAt
  <2>4. CASE m # l
    <3>1. queue'[m] = queue[m]
      BY <1>0, <1>1, <2>4 DEF TypeOK
    <3> QED
      BY <1>0, <2>1, <2>2, <3>1 DEF QueuedAt
  <2> QED
    BY <2>3, <2>4
<1>6. WaitOrder'
  BY <1>0, <1>1, <1>2 DEF TypeOK, WaitOrder, Held
<1> QED
  BY <1>3, <1>4, <1>5, <1>6 DEF Inv

\* Of a release, the nested one, the one that sets the mutex free, and the one
\* that hands it to the first thread of the list.
LEMMA ReleaseInv ==
  ASSUME Inv, NEW t \in Thread, NEW l \in Lock, Release(t, l)
  PROVE  Inv'
<1>0. TypeOK /\ Held /\ Counted /\ Queued /\ WaitOrder
  BY DEF Inv
<1>00. /\ wait[t] = NULL /\ depth[t][l] > 0 /\ owner[l] = t
       /\ UNCHANGED <<timers, threadRestartType>>
  BY DEF Release, Running
<1>01. hold[l] \in Nat /\ depth \in [Thread -> [Lock -> Nat]]
  BY <1>0 DEF TypeOK
<1>1. CASE hold[l] > 1
  <2>1. /\ hold' = [hold EXCEPT ![l] = hold[l] - 1]
        /\ depth' = [depth EXCEPT ![t][l] = depth[t][l] - 1]
        /\ UNCHANGED <<owner, queue, wait>>
    BY <1>1 DEF Release
  <2>2. \A u \in Thread, m \in Lock :
          depth'[u][m] = IF u = t /\ m = l THEN depth[u][m] - 1 ELSE depth[u][m]
    BY <1>01, <2>1
  <2>3. depth' \in [Thread -> [Lock -> Nat]]
    BY <1>00, <1>01, <2>1
  <2>4. TypeOK'
    BY <1>0, <1>00, <1>1, <2>1, <2>3 DEF TypeOK
  <2>5. Held'
    BY <1>0, <1>00, <1>01, <1>1, <2>1, <2>2, SMTT(30) DEF TypeOK, Held
  <2>6. Counted'
    BY <1>0, <1>1, <1>00, <2>1, SMTT(30) DEF TypeOK, Counted
  <2>7. Queued'
    BY <1>0, <2>1 DEF Queued, QueuedAt
  <2>8. WaitOrder'
    BY <1>0, <1>00, <1>01, <2>1, <2>2 DEF WaitOrder
  <2> QED
    BY <2>4, <2>5, <2>6, <2>7, <2>8 DEF Inv
<1>2. CASE ~(hold[l] > 1) /\ queue[l] = <<>>
  <2>1. /\ hold' = [hold EXCEPT ![l] = 0]
        /\ owner' = [owner EXCEPT ![l] = NULL]
        /\ depth' = [depth EXCEPT ![t][l] = depth[t][l] - 1]
        /\ UNCHANGED <<queue, wait>>
    BY <1>2 DEF Release
  <2>2. \A u \in Thread, m \in Lock :
          depth'[u][m] = IF u = t /\ m = l THEN depth[u][m] - 1 ELSE depth[u][m]
    BY <1>01, <2>1
  <2>3. depth' \in [Thread -> [Lock -> Nat]]
    BY <1>00, <1>01, <2>1
  <2>4. TypeOK'
    BY <1>0, <1>00, <2>1, <2>3 DEF TypeOK
  <2>5. Held'
    BY <1>0, <1>00, <1>01, <1>2, <2>1, <2>2, SMTT(30) DEF TypeOK, Held
  <2>6. Counted'
    BY <1>0, <2>1 DEF TypeOK, Counted
  <2>7. Queued'
    BY <1>0, <2>1 DEF Queued, QueuedAt
  <2>8. WaitOrder'
    BY <1>0, <1>00, <1>01, <2>1, <2>2 DEF WaitOrder
  <2> QED
    BY <2>4, <2>5, <2>6, <2>7, <2>8 DEF Inv
<1>3. CASE ~(hold[l] > 1) /\ queue[l] # <<>>
  <2> DEFINE u == Head(queue[l])
  <2>1. /\ hold' = [hold EXCEPT ![l] = 1]
        /\ owner' = [owner EXCEPT ![l] = u]
        /\ queue' = [queue EXCEPT ![l] = Tail(queue[l])]
        /\ wait' = [wait EXCEPT ![u] = NULL]
        /\ depth' = [depth EXCEPT ![t][l] = @ - 1, ![u][l] = @ + 1]
    BY <1>3 DEF Release
  <2>2. queue[l] \in Seq(Thread) /\ QueuedAt(l) /\ Len(queue[l]) > 0
    BY <1>0, <1>3 DEF TypeOK, Queued
  <2>3. u = queue[l][1] /\ u \in Thread /\ wait[u] = l /\ u # t
    BY <1>00, <2>2 DEF QueuedAt
  <2> HIDE DEF u
  <2>4. depth[u][l] = 0 /\ depth[t][l] = 1
    BY <1>0, <1>00, <1>01, <1>3, <2>3 DEF Held
  <2>5. \A v \in Thread, m \in Lock :
          depth'[v][m] = IF m # l THEN depth[v][m]
                         ELSE IF v = t THEN 0 ELSE IF v = u THEN 1 ELSE depth[v][m]
    BY <1>01, <2>1, <2>3, <2>4
  <2>6. depth' \in [Thread -> [Lock -> Nat]]
    <3> DEFINE d == [depth EXCEPT ![t][l] = depth[t][l] - 1]
    <3>1. d \in [Thread -> [Lock -> Nat]]
      BY <1>01, <2>4
    <3>2. d[u][l] = 0 /\ depth' = [d EXCEPT ![u][l] = 1]
      BY <1>01, <2>1, <2>3, <2>4
    <3> HIDE DEF d
    <3> QED
      BY <2>3, <3>1, <3>2
  <2>7. TypeOK'
    <3>1. queue' \in [Lock -> Seq(Thread)]
      BY <1>0, <2>1, <2>2 DEF TypeOK
    <3> QED
      BY <1>0, <1>00, <2>1, <2>3, <2>6, <3>1 DEF TypeOK
  <2>8. Held'
    <3>1. \A m \in Lock : /\ owner'[m] = IF m = l THEN u ELSE owner[m]
                          /\ hold'[m] = IF m = l THEN 1 ELSE hold[m]
      BY <1>0, <2>1 DEF TypeOK
    <3>2. \A v \in Thread : v # t => depth[v][l] = 0
      BY <1>0, <1>00, <1>01 DEF Held
    <3> QED
      BY <1>0, <2>3, <2>5, <3>1, <3>2 DEF Held
  <2>9. Counted'
    BY <1>0, <2>1, <2>3 DEF TypeOK, Counted
  <2>10. Queued'
    <3> SUFFICES ASSUME NEW m \in Lock PROVE QueuedAt(m)'
      BY DEF Queued
    <3>0. queue[m] \in Seq(Thread) /\ QueuedAt(m) /\ wait \in [Thread -> Lock \cup {NULL}]
      BY <1>0 DEF TypeOK, Queued
    <3>1. CASE m = l
      <4>1. /\ Len(queue'[m]) = Len(queue[m]) - 1
            /\ \A i \in 1..Len(queue'[m]) : queue'[m][i] = queue[m][i + 1]
        BY <1>0, <2>1, <2>2, <3>1 DEF TypeOK
      <4>2. \A i \in 1..Len(queue'[m]) : i + 1 \in 1..Len(queue[m]) /\ i + 1 # 1
        BY <2>2, <3>1, <4>1
      <4>3. \A i \in 1..Len(queue'[m]) : queue'[m][i] \in Thread /\ queue'[m][i] # u
        <5> SUFFICES ASSUME NEW i \in 1..Len(queue'[m])
                     PROVE  queue'[m][i] \in Thread /\ queue'[m][i] # u
          OBVIOUS
        <5>1. queue'[m][i] = queue[m][i + 1] /\ i + 1 \in 1..Len(queue[m]) /\ i + 1 # 1
          BY <4>1, <4>2
        <5>2. queue[m][i + 1] \in Thread
          BY <3>0, <5>1
        <5>3. u = queue[m][1] /\ 1 \in 1..Len(queue[m])
          BY <2>2, <2>3, <3>1
        <5>4. queue[m][i + 1] # queue[m][1]
          BY <3>0, <5>1, <5>3 DEF QueuedAt
        <5> QED
          BY <5>1, <5>2, <5>3, <5>4
      <4> QED
        <5>1. \A i \in 1..Len(queue'[m]) : wait'[queue'[m][i]] = m
          BY <2>1, <3>0, <4>1, <4>2, <4>3 DEF QueuedAt
        <5>2. \A i, j \in 1..Len(queue'[m]) : queue'[m][i] = queue'[m][j] => i = j
          <6> SUFFICES ASSUME NEW i \in 1..Len(queue'[m]), NEW j \in 1..Len(queue'[m]),
                              queue'[m][i] = queue'[m][j]
                       PROVE  i = j
            OBVIOUS
          <6>1. i + 1 = j + 1
            BY <3>0, <4>1, <4>2 DEF QueuedAt
          <6>2. Len(queue'[m]) \in Nat
            BY <2>2, <3>1, <4>1
          <6> QED
            BY <6>1, <6>2
        <5> QED
          BY <5>1, <5>2 DEF QueuedAt
    <3>2. CASE m # l
      <4>1. queue'[m] = queue[m]
        BY <1>0, <2>1, <3>2 DEF TypeOK
      <4>2. \A i \in 1..Len(queue[m]) : queue[m][i] \in Thread /\ queue[m][i] # u
        BY <2>3, <3>0, <3>2 DEF QueuedAt
      <4> QED
        BY <2>1, <3>0, <4>1, <4>2 DEF QueuedAt
    <3> QED
      BY <3>1, <3>2
  <2>11. WaitOrder'
    <3>1. \A v \in Thread : wait'[v] = IF v = u THEN NULL ELSE wait[v]
      BY <1>0, <2>1 DEF TypeOK
    <3> QED
      BY <1>0, <1>00, <2>5, <3>1 DEF WaitOrder
  <2> QED
    BY <2>7, <2>8, <2>9, <2>10, <2>11 DEF Inv
<1> QED
  BY <1>1, <1>2, <1>3

-----------------------------------------------------------------------------
(***************************************************************************)
(* Restarts and timers.                                                    *)
(***************************************************************************)
\* Taking a thread off a list leaves the others, in their order.
LEMMA WithoutType ==
  ASSUME NEW q \in Seq(Thread), NEW t \in Thread,
         \A i, j \in 1..Len(q) : q[i] = q[j] => i = j
  PROVE  /\ Without(q, t) \in Seq(Thread)
         /\ \A i \in 1..Len(Without(q, t)) :
              Without(q, t)[i] # t /\ \E k \in 1..Len(q) : Without(q, t)[i] = q[k]
         /\ \A i, j \in 1..Len(Without(q, t)) :
              Without(q, t)[i] = Without(q, t)[j] => i = j
<1>1. CASE \E i \in 1..Len(q) : q[i] = t
  <2> DEFINE k == CHOOSE i \in 1..Len(q) : q[i] = t
             r == RemovedAt(q, k)
  <2>1. k \in 1..Len(q) /\ q[k] = t
    BY <1>1
  <2>2. Without(q, t) = r
    BY <1>1 DEF Without
  <2> HIDE DEF k
  <2>3. r \in Seq(Thread) /\ Len(r) = Len(q) - 1
    BY <2>1 DEF RemovedAt
  <2>4. \A i \in 1..Len(r) : r[i] = IF i < k THEN q[i] ELSE q[i + 1]
    BY <2>3 DEF RemovedAt
  <2> HIDE DEF r
  <2> DEFINE from(i) == IF i < k THEN i ELSE i + 1
  <2>5. Len(q) \in Nat
    OBVIOUS
  <2>6. \A i \in 1..Len(r) : from(i) \in 1..Len(q) /\ from(i) # k /\ r[i] = q[from(i)]
    BY <2>1, <2>3, <2>4, <2>5
  <2>7. \A i, j \in 1..Len(r) : from(i) = from(j) => i = j
    BY <2>1, <2>3, <2>5
  <2> HIDE DEF from
  <2>8. \A i \in 1..Len(r) : r[i] # t /\ \E j \in 1..Len(q) : r[i] = q[j]
    BY <2>1, <2>6
  <2>9. \A i, j \in 1..Len(r) : r[i] = r[j] => i = j
    BY <2>6, <2>7
  <2> QED
    BY <2>2, <2>3, <2>8, <2>9
<1>2. CASE ~ \E i \in 1..Len(q) : q[i] = t
  BY <1>2 DEF Without
<1> QED
  BY <1>1, <1>2

\* A restart keeps the invariant: the mutexes stay with their owners.
LEMMA RestartInv ==
  ASSUME Inv, NEW type, restartThread(type),
         timers' \in Seq(Timer), threadRestartType' \in Type \cup {NULL}
  PROVE  Inv'
<1>0. TypeOK /\ Held /\ Counted /\ Queued /\ WaitOrder /\ UNCHANGED <<owner, hold>>
  BY DEF Inv, restartThread
<1>1. CASE type \in Thread
  <2>1. /\ queue' = [l \in Lock |-> Without(queue[l], type)]
        /\ wait' = [wait EXCEPT ![type] = NULL]
        /\ depth' = [depth EXCEPT ![type] = [l \in Lock |-> 0]]
    BY <1>1 DEF restartThread
  <2>2. ASSUME NEW l \in Lock
        PROVE  /\ queue'[l] \in Seq(Thread)
               /\ \A i \in 1..Len(queue'[l]) :
                    /\ queue'[l][i] # type
                    /\ \E k \in 1..Len(queue[l]) : queue'[l][i] = queue[l][k]
               /\ \A i, j \in 1..Len(queue'[l]) : queue'[l][i] = queue'[l][j] => i = j
    <3>1. queue[l] \in Seq(Thread) /\ QueuedAt(l)
      BY <1>0 DEF TypeOK, Queued
    <3>2. queue'[l] = Without(queue[l], type)
      BY <2>1
    <3>3. \A i, j \in 1..Len(queue[l]) : queue[l][i] = queue[l][j] => i = j
      BY <3>1 DEF QueuedAt
    <3> DEFINE w == Without(queue[l], type)
    <3>4. /\ w \in Seq(Thread)
          /\ \A i \in 1..Len(w) : w[i] # type /\ \E k \in 1..Len(queue[l]) : w[i] = queue[l][k]
          /\ \A i, j \in 1..Len(w) : w[i] = w[j] => i = j
      BY <1>1, <3>1, <3>3, WithoutType
    <3> HIDE DEF w
    <3>5. queue'[l] = w
      BY <3>2 DEF w
    <3> QED
      BY <3>4, <3>5
  <2>3. TypeOK'
    BY <1>0, <1>1, <2>1, <2>2 DEF TypeOK
  <2>4. \A t \in Thread : /\ \A l \in Lock : depth'[t][l] = IF t = type THEN 0 ELSE depth[t][l]
                          /\ wait'[t] = IF t = type THEN NULL ELSE wait[t]
    BY <1>0, <1>1, <2>1 DEF TypeOK
  <2>5. Held' /\ Counted'
    BY <1>0, <2>4 DEF Held, Counted
  <2>6. Queued'
    <3> SUFFICES ASSUME NEW l \in Lock PROVE QueuedAt(l)'
      BY DEF Queued
    <3>1. QueuedAt(l) /\ queue[l] \in Seq(Thread)
      BY <1>0 DEF TypeOK, Queued
    <3>2. \A i \in 1..Len(queue'[l]) : wait'[queue'[l][i]] = l
      <4> SUFFICES ASSUME NEW i \in 1..Len(queue'[l]) PROVE wait'[queue'[l][i]] = l
        OBVIOUS
      <4>1. PICK k \in 1..Len(queue[l]) : queue'[l][i] = queue[l][k]
        BY <2>2
      <4>2. queue[l][k] # type /\ queue[l][k] \in Thread /\ wait[queue[l][k]] = l
        BY <2>2, <3>1, <4>1 DEF QueuedAt
      <4> QED
        BY <2>4, <4>1, <4>2
    <3>3. \A i, j \in 1..Len(queue'[l]) : queue'[l][i] = queue'[l][j] => i = j
      BY <2>2
    <3> QED
      BY <3>2, <3>3 DEF QueuedAt
  <2>7. WaitOrder'
    BY <1>0, <2>4 DEF WaitOrder
  <2> QED
    BY <2>3, <2>5, <2>6, <2>7 DEF Inv
<1>2. CASE type \notin Thread
  <2>1. UNCHANGED <<queue, wait, depth>>
    BY <1>2 DEF restartThread
  <2> QED
    BY <1>0, <2>1 DEF Inv, TypeOK, Held, Counted, Queued, QueuedAt, WaitOrder
<1> QED
  BY <1>1, <1>2

\* A timer goes into the list of timers.
LEMMA InsertType ==
  ASSUME NEW q \in Seq(Timer), NEW tm \in Timer
  PROVE  Insert(q, tm) \in Seq(Timer)
<1> DEFINE C == {j \in 1..Len(q) : q[j].left <= tm.left}
           p == Cardinality(C)
<1>0. Len(q) \in Nat
  OBVIOUS
<1>1. Len(q) \in Nat /\ IsFiniteSet(1..Len(q)) /\ Cardinality(1..Len(q)) = Len(q)
  BY <1>0, FS_Interval, SMTT(30)
<1>2. p \in Nat /\ p <= Len(q)
  BY <1>1, FS_Subset, FS_CardinalityType
<1> HIDE DEF C
<1>3. \A j \in 1..(Len(q) + 1) :
        (IF j <= p THEN q[j] ELSE IF j = p + 1 THEN tm ELSE q[j - 1]) \in Timer
  BY <1>1, <1>2
<1>4. Insert(q, tm) = [j \in 1..(Len(q) + 1) |-> IF j <= p THEN q[j]
                                ELSE IF j = p + 1 THEN tm ELSE q[j - 1]]
  BY DEF Insert, C
<1> QED
  BY <1>1, <1>3, <1>4

LEMMA TimersInv ==
  ASSUME Inv, UNCHANGED locks,
         timers' \in Seq(Timer), threadRestartType' \in Type \cup {NULL}
  PROVE  Inv'
  BY DEF Inv, locks, TypeOK, Held, Counted, Queued, QueuedAt, WaitOrder

\* Every step keeps the invariant.
LEMMA NextInv == Inv /\ [Next]_vars => Inv'
<1> SUFFICES ASSUME Inv, [Next]_vars PROVE Inv'
  OBVIOUS
<1>0. /\ timers \in Seq(Timer) /\ threadRestartType \in Type \cup {NULL}
      /\ \A type \in Type : /\ RestartTimer(type, 1) \in Timer
                            /\ RestartTimer(type, 2) \in Timer
      /\ RebootTimer(1) \in Timer
      /\ MAIN \in Type /\ CLIENT \in Type /\ Asked \subseteq Type
  BY DEF Inv, TypeOK, RestartTimer, RebootTimer, Timer, Type
<1>1. ASSUME NEW t \in Thread, NEW l \in Lock,
             TakeNow(t, l) \/ TakeWait(t, l) \/ Release(t, l)
      PROVE  Inv'
  BY <1>1, TakeNowInv, TakeWaitInv, ReleaseInv
<1>2. ASSUME NEW by, RestartNow(by) PROVE Inv'
  BY <1>0, <1>2, RestartInv DEF RestartNow
<1>3. ASSUME NEW type \in Asked, AskRestart(type) PROVE Inv'
  BY <1>0, <1>3, InsertType, TimersInv DEF AskRestart
<1>4. CASE set_inverter_id
  BY <1>0, <1>4, InsertType, TimersInv DEF set_inverter_id
<1>5. ASSUME NEW data \in BOOLEAN, set_comm_config(data) PROVE Inv'
  <2>1. Insert(timers, RestartTimer(CLIENT, 1)) \in Seq(Timer)
    BY <1>0, InsertType
  <2>2. Insert(Insert(timers, RestartTimer(CLIENT, 1)), RebootTimer(1)) \in Seq(Timer)
    BY <1>0, <2>1, InsertType
  <2>3. Insert(timers, RebootTimer(1)) \in Seq(Timer)
    BY <1>0, InsertType
  <2> QED
    BY <1>0, <1>5, <2>2, <2>3, TimersInv DEF set_comm_config
<1>6. CASE Tick
  <2>1. timers' \in Seq(Timer)
    <3>1. ASSUME NEW i \in 1..Len(timers)
          PROVE  [timers[i] EXCEPT !.left = @ - 1] \in Timer
      <4>1. timers[i] \in Timer /\ timers[i].left > 0
        BY <1>0, <1>6 DEF Tick
      <4>2. timers[i].left - 1 \in 0..2
        BY <4>1 DEF Timer
      <4> QED
        BY <4>1, <4>2 DEF Timer
    <3> QED
      BY <1>0, <1>6, <3>1 DEF Tick
  <2> QED
    BY <1>0, <1>6, <2>1, TimersInv DEF Tick, locks
<1>7. CASE threadRestartTimeout
  BY <1>0, <1>7, RestartInv DEF threadRestartTimeout
<1>8. CASE RestartInterrupted \/ reboottimeout \/ NightlyReset
  BY <1>8, ResetInv DEF RestartInterrupted, reboottimeout, NightlyReset
<1>9. CASE UNCHANGED vars
  BY <1>0, <1>9, TimersInv DEF vars, locks
<1> QED
  BY <1>1, <1>2, <1>3, <1>4, <1>5, <1>6, <1>7, <1>8, <1>9 DEF Next

-----------------------------------------------------------------------------
(***************************************************************************)
(* The theorems.                                                           *)
(***************************************************************************)
LEMMA Invariance == Spec => []Inv
  BY InitInv, NextInv, PTL DEF Spec

\* The variables keep their types.
THEOREM Typing == Spec => []TypeOK
<1>1. Inv => TypeOK
  BY DEF Inv
<1> QED
  BY Invariance, <1>1, PTL

\* Two threads are never inside the code of the same mutex, whatever is
\* restarted.
THEOREM MutualExclusion == Spec => []Exclusive
<1>1. Inv => Exclusive
  BY DEF Inv, Held, Exclusive
<1> QED
  BY Invariance, <1>1, PTL

\* Without a leaked mutex no threads wait for each other in a circle: the
\* mutexes such threads wait for would each have another one of them above
\* it in the order in which the code nests them.
THEOREM DeadlockFreedom == Spec => []NoDeadlock
<1>1. ASSUME Inv PROVE NoDeadlock
  <2>0. TypeOK /\ Held /\ Counted /\ WaitOrder
    BY <1>1 DEF Inv
  <2> SUFFICES ASSUME NEW S \in (SUBSET Thread) \ {{}},
                      \A t \in S : wait[t] # NULL /\ owner[wait[t]] \in S,
                      \A t \in S : ~Leaked(wait[t])
               PROVE  FALSE
    BY DEF NoDeadlock
  <2> DEFINE L == {wait[t] : t \in S}
  <2>1. L \in SUBSET Lock /\ L # {}
    <3>1. \A t \in S : wait[t] \in Lock
      BY <2>0 DEF TypeOK
    <3>2. PICK t \in S : TRUE
      OBVIOUS
    <3> QED
      BY <3>1, <3>2
  <2>2. PICK l \in L : \A m \in L : <<l, m>> \notin Nest
    BY <2>1, NestAssumption
  <2>3. PICK t \in S : l = wait[t]
    BY <2>2
  <2> DEFINE u == owner[l]
  <2>4. u \in S /\ u \in Thread /\ l \in Lock /\ wait[u] \in L /\ wait[u] # NULL
    <3>1. u \in S
      BY <2>3
    <3> QED
      BY <2>1, <2>2, <3>1
  <2>5. depth[u][l] > 0
    <3>1. ~(hold[l] > depth[u][l])
      BY <2>3, <2>4 DEF Leaked
    <3>2. hold[l] \in Nat /\ depth[u][l] \in Nat /\ hold[l] # 0
      BY <2>0, <2>4 DEF TypeOK, Counted
    <3> QED
      BY <3>1, <3>2
  <2>6. <<l, wait[u]>> \in Nest
    BY <2>0, <2>4, <2>5 DEF WaitOrder
  <2> QED
    BY <2>2, <2>4, <2>6
<1> QED
  BY Invariance, <1>1, PTL

\* What one step does to a leaked mutex: nothing but a reset gives it back.
LEMMA LeakStep ==
  ASSUME Inv, [Next]_vars, NEW l \in Lock, Leaked(l)
  PROVE  Leaked(l)' \/ Reset
<1>0. TypeOK /\ Held
  BY DEF Inv
<1>00. owner[l] \in Thread /\ hold[l] > depth[owner[l]][l]
  BY <1>0 DEF TypeOK, Leaked
<1>1. ASSUME NEW t \in Thread, NEW m \in Lock, TakeNow(t, m) PROVE Leaked(l)'
  <2>1. /\ owner' = [owner EXCEPT ![m] = t] /\ hold' = [hold EXCEPT ![m] = hold[m] + 1]
        /\ depth' = [depth EXCEPT ![t][m] = depth[t][m] + 1] /\ owner[m] \in {t, NULL}
    BY <1>1 DEF TakeNow
  <2>2. owner'[l] = owner[l]
    BY <1>0, <1>00, <2>1 DEF TypeOK
  <2>3. \A v \in Thread, k \in Lock :
          depth'[v][k] = IF v = t /\ k = m THEN depth[v][k] + 1 ELSE depth[v][k]
    BY <1>0, <2>1 DEF TypeOK
  <2>4. hold'[l] = IF l = m THEN hold[l] + 1 ELSE hold[l]
    BY <1>0, <2>1 DEF TypeOK
  <2> QED
    BY <1>0, <1>00, <2>1, <2>2, <2>3, <2>4, SMTT(30) DEF Leaked, TypeOK
<1>2. ASSUME NEW t \in Thread, NEW m \in Lock, TakeWait(t, m) PROVE Leaked(l)'
  BY <1>2 DEF TakeWait, Leaked
<1>3. ASSUME NEW t \in Thread, NEW m \in Lock, Release(t, m) PROVE Leaked(l)'
  <2>0. depth[t][m] > 0 /\ owner[m] = t
    BY <1>3 DEF Release
  <2>00. hold \in [Lock -> Nat] /\ depth \in [Thread -> [Lock -> Nat]]
         /\ owner \in [Lock -> Thread \cup {NULL}]
    BY <1>0 DEF TypeOK
  <2>1. CASE m = l
    <3>1. hold[l] > 1
      BY <1>00, <2>0, <2>00, <2>1
    <3>2. /\ hold' = [hold EXCEPT ![l] = hold[l] - 1]
          /\ depth' = [depth EXCEPT ![t][l] = depth[t][l] - 1]
          /\ owner' = owner
      BY <1>3, <2>1, <3>1 DEF Release
    <3>3. hold'[l] = hold[l] - 1 /\ depth'[t][l] = depth[t][l] - 1
      BY <2>00, <3>2
    <3> QED
      BY <1>00, <2>0, <2>00, <2>1, <3>2, <3>3 DEF Leaked
  <2>2. CASE m # l
    <3>1. hold'[l] = hold[l] /\ owner'[l] = owner[l]
      BY <1>3, <2>00, <2>2 DEF Release
    <3>2. \A v \in Thread : depth'[v][l] = depth[v][l]
      <4>1. CASE hold[m] > 1 \/ queue[m] = <<>>
        <5>1. depth' = [depth EXCEPT ![t][m] = depth[t][m] - 1]
          BY <1>3, <4>1 DEF Release
        <5> QED
          BY <2>00, <2>2, <5>1
      <4>2. CASE ~(hold[m] > 1 \/ queue[m] = <<>>)
        <5>1. depth' = [depth EXCEPT ![t][m] = @ - 1, ![Head(queue[m])][m] = @ + 1]
          BY <1>3, <4>2 DEF Release
        <5> QED
          BY <2>00, <2>2, <5>1
      <4> QED
        BY <4>1, <4>2
    <3> QED
      BY <1>00, <3>1, <3>2 DEF Leaked
  <2> QED
    BY <2>1, <2>2
<1>4. ASSUME NEW type, restartThread(type) PROVE Leaked(l)'
  <2>1. \A v \in Thread : depth'[v][l] = depth[v][l] \/ depth'[v][l] = 0
    <3>1. CASE type \in Thread
      <4>1. depth' = [depth EXCEPT ![type] = [k \in Lock |-> 0]]
        BY <1>4, <3>1 DEF restartThread
      <4> QED
        BY <1>0, <4>1 DEF TypeOK
    <3>2. CASE type \notin Thread
      BY <1>4, <3>2 DEF restartThread
    <3> QED
      BY <3>1, <3>2
  <2>2. owner' = owner /\ hold' = hold
    BY <1>4 DEF restartThread
  <2>3. hold[l] \in Nat /\ depth[owner[l]][l] \in Nat
    BY <1>0, <1>00 DEF TypeOK
  <2> QED
    BY <1>00, <2>1, <2>2, <2>3 DEF Leaked
<1>5. ASSUME UNCHANGED locks PROVE Leaked(l)'
  BY <1>5 DEF locks, Leaked
<1>6. ASSUME NEW by, RestartNow(by) PROVE Leaked(l)'
  BY <1>4, <1>6 DEF RestartNow
<1>7. CASE threadRestartTimeout
  BY <1>4, <1>7 DEF threadRestartTimeout
<1>8. ASSUME NEW type, AskRestart(type) PROVE Leaked(l)'
  BY <1>5, <1>8 DEF AskRestart
<1>9. ASSUME NEW data, set_comm_config(data) PROVE Leaked(l)'
  BY <1>5, <1>9 DEF set_comm_config
<1>10. CASE set_inverter_id \/ Tick \/ UNCHANGED vars
  BY <1>5, <1>10 DEF set_inverter_id, Tick, vars, locks
<1>11. CASE RestartInterrupted \/ reboottimeout \/ NightlyReset
  BY <1>11 DEF RestartInterrupted, reboottimeout, NightlyReset
<1> QED
  BY <1>1, <1>2, <1>3, <1>6, <1>7, <1>8, <1>9, <1>10, <1>11 DEF Next

\* A leaked mutex stays leaked until the system is reset.
THEOREM LeaksLast == Spec => LeakStays
<1>1. Inv /\ [Next]_vars => [\A l \in Lock : Leaked(l) => Leaked(l)' \/ Reset]_vars
  BY LeakStep
<1> QED
  BY Invariance, <1>1, PTL DEF Spec, LeakStays
=============================================================================
