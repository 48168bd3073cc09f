------------------------------- MODULE Outbox -------------------------------
(***************************************************************************)
(* What the store-and-forward path of the ECU promises, with no files,     *)
(* flags, sockets or threads: a record that was put into the outbox leaves *)
(* it only once the server holds it, or with its whole day when the oldest *)
(* day is thrown away for space.  Upload.tla implements this module.       *)
(***************************************************************************)
EXTENDS Naturals

CONSTANTS Times,    \* the collection times, which identify the records
          Days,     \* the calendar days
          DayOf     \* the day of a collection time

VARIABLES made,       \* the records produced so far
          queued,     \* the records kept on the device
          delivered   \* the records the server holds

vars == <<made, queued, delivered>>

Init == /\ made = {}
        /\ queued = {}
        /\ delivered = {}

Put(t) == /\ t \in Times \ made
          /\ made' = made \union {t}
          /\ queued' = queued \union {t}
          /\ UNCHANGED delivered

\* The server may store a record that was sent earlier, so only "made" is
\* required: the device may have dropped its own copy in the meantime.
Deliver(t) == /\ t \in made
              /\ delivered' = delivered \union {t}
              /\ UNCHANGED <<made, queued>>

OfDay(d) == {t \in queued : DayOf[t] = d}

\* A day is forgotten when all its queued records are at the server.
Forget(d) == /\ OfDay(d) \subseteq delivered
             /\ queued' = queued \ OfDay(d)
             /\ UNCHANGED <<made, delivered>>

\* Space is short: the oldest day goes, delivered or not.
DropOldest(d) == /\ \A t \in queued : d <= DayOf[t]
                 /\ queued' = queued \ OfDay(d)
                 /\ UNCHANGED <<made, delivered>>

Next == \/ \E t \in Times : Put(t) \/ Deliver(t)
        \/ \E d \in Days : Forget(d) \/ DropOldest(d)

Spec == Init /\ [][Next]_vars
=============================================================================
