------------------------------- MODULE Upload -------------------------------
(***************************************************************************)
(* The store-and-forward path of the collected data.  The main thread      *)
(* appends one record per polling round to /home/record/data/YYYYMMDD.dat  *)
(* (ECU/main/src/file.c); the client thread sends the records to the EMA   *)
(* server and tracks each one with the flag that ends its line             *)
(* (ECU/client/src/client.c, clientSocket.c):                              *)
(*                                                                         *)
(*    "1"  to be sent                                                      *)
(*    "2"  the EMA acknowledged it, but has not listed it as stored        *)
(*    "0"  the EMA listed its time as stored                               *)
(*                                                                         *)
(* A file whose flags are all "0" is unlinked.  A section that runs under  *)
(* record_data_lock is one step, except delete_file_resendflag0, which     *)
(* unlinks file by file and which a reset can cut in the middle.  A reset  *)
(* of the board keeps the files and loses everything else.                 *)
(***************************************************************************)
EXTENDS Naturals, FiniteSets

CONSTANTS Times,    \* the collection times, which identify the records
          Days,     \* the calendar days
          DayOf,    \* the day of a collection time: the name of its file
          Slots     \* positions in the directory /home/record/data

ASSUME TimesAssumption == Times \subseteq Nat \ {0}
ASSUME DaysAssumption == Days \subseteq Nat /\ DayOf \in [Times -> Days]
ASSUME SlotsAssumption == /\ Slots \subseteq Nat \ {0}
                          /\ IsFiniteSet(Slots) /\ IsFiniteSet(Days)
                          /\ Cardinality(Slots) >= Cardinality(Days)

VARIABLES
  \* on the flash
  flag,      \* flag[t]: the flag of record t, "none" when it is on no file
  slot,      \* slot[d]: the directory entry of the file of day d, 0 if none
  \* the threads
  lock,      \* the holder of record_data_lock
  mpc,       \* the main thread's place in its round
  cpc,       \* the client thread's place
  phase,     \* "pre" preprocess, "resend" resend_record, "upload" the loop
  cur,       \* the record being sent (time[]), 0 for the header APS13AAA22
  fresh,     \* no record was answered yet in this pass: thistime = lasttime
  ack,       \* readbuff[0] = '1' in the answer being applied
  todo,      \* the times of that answer not applied yet
  \* the way to the server
  link,      \* how the exchange under way was opened
  req,       \* the request on its way to the server (at most one)
  resp,      \* the answer on the wired connection (at most one)
  sockB,     \* WIFI_RecvSocketBData while WIFI_Recv_SocketB_Event = 1
  healthy,   \* from some point on the network and the server work
  \* the server, and what the properties look back on
  received,  \* the records that reached the EMA
  ema,       \* the records the EMA has in its database
  saved,     \* the records save_record has written so far
  evicted    \* the records optimizeFileSystem has thrown away

disk == <<flag, slot>>
client == <<cpc, phase, cur, fresh, ack, todo>>
net == <<link, req, resp, sockB, healthy>>
server == <<received, ema>>
history == <<saved, evicted>>
vars == <<disk, lock, mpc, client, net, server, history>>

Header == 0
Requests == [rec : Times \union {Header}, via : {"wired", "wifi"}]
Replies == [ack : BOOLEAN, times : SUBSET Times]

Init == /\ flag = [t \in Times |-> "none"]
        /\ slot = [d \in Days |-> 0]
        /\ lock = "free"
        /\ mpc = "optimize"
        /\ cpc = "delay" /\ phase = "upload" /\ cur = Header
        /\ fresh = TRUE /\ ack = FALSE /\ todo = {}
        /\ link = "none" /\ req = {} /\ resp = {} /\ sockB = {}
        /\ healthy = FALSE
        /\ received = {} /\ ema = {}
        /\ saved = {} /\ evicted = {}

-----------------------------------------------------------------------------
(* The record files.                                                       *)

Records(d) == {t \in Times : DayOf[t] = d /\ flag[t] # "none"}
WithFlag(f) == {t \in Times : flag[t] = f}

\* The order in which readdir and fgets meet two records: by directory
\* entry, and within a file in the order they were appended.
Before(t, u) == \/ slot[DayOf[t]] < slot[DayOf[u]]
                \/ DayOf[t] = DayOf[u] /\ t <= u

\* The record search_readflag returns: the first one that carries the flag.
search_readflag(t, f) == /\ t \in WithFlag(f)
                         /\ \A u \in WithFlag(f) : Before(t, u)

\* change_resendflag: the flag is overwritten whatever it was; a time that
\* is on no file changes nothing (the caller's retries find nothing either).
change_resendflag(t, f) ==
  flag' = IF flag[t] = "none" THEN flag ELSE [flag EXCEPT ![t] = f]

\* Slip: a file is looked through for flags '1' only.
AllFlags0_no_2(d) == slot[d] # 0 /\ \A t \in Records(d) : flag[t] # "1"

\* A file delete_file_resendflag0 unlinks.
AllFlags0(d) == slot[d] # 0 /\ \A t \in Records(d) : flag[t] = "0"

\* Slip: the comparison of the dates the wrong way round.
Oldest_reversed(d) == slot[d] # 0 /\ \A e \in Days : slot[e] # 0 => d >= e

\* The file checkOldFile finds: the one of the earliest day.
Oldest(d) == slot[d] # 0 /\ \A e \in Days : slot[e] # 0 => d <= e

unlink(d) == /\ flag' = [t \in Times |-> IF DayOf[t] = d THEN "none"
                                                         ELSE flag[t]]
             /\ slot' = [slot EXCEPT ![d] = 0]

-----------------------------------------------------------------------------
(* The main thread: one round runs optimizeFileSystem and then, when some  *)
(* inverter answered (ecu.count > 0), protocol_APS18, which ends in        *)
(* save_record.                                                            *)

optimizeFileSystem ==
  /\ mpc = "optimize"
  /\ mpc' = "save"
  /\ \/ UNCHANGED <<disk, evicted>>              \* enough free space
     \/ /\ lock = "free"
        /\ \E d \in Days : /\ Oldest(d)
                           /\ unlink(d)
                           /\ evicted' = evicted \union Records(d)
  /\ UNCHANGED <<lock, client, net, server, saved>>

\* Slip: a new file always takes the entry behind the last one.
save_record_at_end ==
  /\ mpc = "save"
  /\ lock = "free"
  /\ \E t \in Times \ saved :
       /\ \A u \in Times \ saved : t <= u
       /\ flag' = [flag EXCEPT ![t] = "1"]
       /\ \E e \in Days : /\ \A x \in Days : slot[x] <= slot[e]
                          /\ slot' = [slot EXCEPT ![DayOf[t]] = slot[e] + 1]
       /\ saved' = saved \union {t}
  /\ mpc' = "optimize"
  /\ UNCHANGED <<lock, client, net, server, evicted>>

\* save_record appends the record of the round with flag '1', creating the
\* file of its day (in any free directory entry) if there is none.
save_record ==
  /\ mpc = "save"
  /\ lock = "free"
  /\ \E t \in Times \ saved :
       /\ \A u \in Times \ saved : t <= u
       /\ flag' = [flag EXCEPT ![t] = "1"]
       /\ IF slot[DayOf[t]] # 0
            THEN UNCHANGED slot
            ELSE \E s \in Slots : /\ \A e \in Days : slot[e] # s
                                  /\ slot' = [slot EXCEPT ![DayOf[t]] = s]
       /\ saved' = saved \union {t}
  /\ mpc' = "optimize"
  /\ UNCHANGED <<lock, client, net, server, evicted>>

\* No inverter answered: the round leaves no record.
NoData == /\ mpc = "save"
          /\ mpc' = "optimize"
          /\ UNCHANGED <<disk, lock, client, net, server, history>>

-----------------------------------------------------------------------------
(* The client thread.                                                      *)

\* Slip: the hours 1 and 2 are never recognised.
client_thread_entry_no_night(night) ==
  /\ cpc = "delay"
  /\ fresh' = TRUE
  /\ cpc' = "search" /\ phase' = "upload"
  /\ UNCHANGED <<disk, lock, mpc, cur, ack, todo, net, server, history>>

\* A pass begins.  In the hours 1 and 2 the records that were acknowledged
\* but not confirmed are dealt with first.
client_thread_entry(night) ==
  /\ cpc = "delay"
  /\ fresh' = TRUE
  /\ IF night THEN cpc' = "detect" /\ phase' = "pre"
              ELSE cpc' = "search" /\ phase' = "upload"
  /\ UNCHANGED <<disk, lock, mpc, cur, ack, todo, net, server, history>>

\* preprocess, first half: nothing to ask when no record has flag '2'.
detection_resendflag2 ==
  /\ cpc = "detect"
  /\ lock = "free"
  /\ IF WithFlag("2") # {}
       THEN cpc' = "send" /\ cur' = Header /\ UNCHANGED phase
       ELSE cpc' = "search" /\ phase' = "resend" /\ UNCHANGED cur
  /\ UNCHANGED <<disk, lock, mpc, fresh, ack, todo, net, server, history>>

\* The head of the loops of resend_record and client_thread_entry.  The
\* upload loop stops when compareTime says that 300 s went by, which it
\* cannot say before a first record was answered (thistime = lasttime).
Search ==
  /\ cpc = "search"
  /\ lock = "free"
  /\ LET want == IF phase = "resend" THEN "2" ELSE "1"
     IN  \/ /\ \E t \in Times : search_readflag(t, want) /\ cur' = t
            /\ cpc' = "send"
         \/ /\ \/ WithFlag(want) = {}
               \/ phase = "upload" /\ ~fresh
            /\ cpc' = "delete"
            /\ UNCHANGED cur
  /\ UNCHANGED <<disk, lock, mpc, phase, fresh, ack, todo, net, server,
                 history>>

\* serverCommunication_Client opens the wired connection, or sends through
\* socket B of the WiFi module when that fails.  WIFI_Recv_SocketB_Event is
\* not cleared before sending.
Send(via) ==
  /\ cpc = "send"
  /\ cpc' = "wait"
  /\ link' = via
  /\ req' = {[rec |-> cur, via |-> via]}
  /\ UNCHANGED <<disk, lock, mpc, phase, cur, fresh, ack, todo, resp, sockB,
                 healthy, server, history>>

\* Where an exchange that returned -1 leads: preprocess's result is not
\* looked at, the two loops break.
AfterFailure == /\ cur' = Header
                /\ IF phase = "pre" THEN cpc' = "search" /\ phase' = "resend"
                                    ELSE cpc' = "delete" /\ UNCHANGED phase

\* No socket, send() = -1, or SendToSocketB = -1.
SendFails ==
  /\ cpc = "send"
  /\ ~healthy
  /\ AfterFailure
  /\ UNCHANGED <<disk, lock, mpc, fresh, ack, todo, net, server,
                 history>>

\* 10 s without a (complete) answer.  The wired connection is closed; on
\* WiFi nothing is cancelled, so the answer may still come in.  Once the
\* network works, only a request that was lost before can time out.
Timeout ==
  /\ cpc = "wait"
  /\ healthy => req = {} /\ resp = {}
  /\ link = "wifi" => sockB = {}
  /\ AfterFailure
  /\ link' = "none"
  /\ resp' = {}
  /\ UNCHANGED <<disk, lock, mpc, fresh, ack, todo, req, sockB, healthy,
                 server, history>>

\* An answer is taken: from the connection, or from socket B, whatever
\* request it belongs to.
Receive(r) ==
  /\ cpc = "wait"
  /\ \/ link = "wired" /\ r \in resp /\ resp' = {} /\ UNCHANGED sockB
     \/ link = "wifi" /\ r \in sockB /\ sockB' = {} /\ UNCHANGED resp
  /\ link' = "none"
  /\ ack' = (r.ack /\ phase # "pre")
  /\ todo' = r.times
  /\ cpc' = IF phase = "pre" THEN "clear" ELSE "update"
  /\ UNCHANGED <<disk, lock, mpc, phase, cur, fresh, req, healthy, server,
                 history>>

\* Slip: the acknowledgement is taken for the confirmation.
update_send_flag_confirms ==
  /\ cpc = "update"
  /\ lock = "free"
  /\ IF ack THEN change_resendflag(cur, "0") ELSE UNCHANGED flag
  /\ cpc' = "clear"
  /\ ack' = FALSE
  /\ UNCHANGED <<slot, lock, mpc, phase, cur, fresh, todo, net, server,
                 history>>

\* send_record: '1' at the head of the answer marks the record just sent.
update_send_flag ==
  /\ cpc = "update"
  /\ lock = "free"
  /\ IF ack THEN change_resendflag(cur, "2") ELSE UNCHANGED flag
  /\ cpc' = "clear"
  /\ ack' = FALSE
  /\ UNCHANGED <<slot, lock, mpc, phase, cur, fresh, todo, net, server,
                 history>>

\* One turn of clear_send_flag's loop over the listed times.
clear_send_flag ==
  /\ cpc = "clear"
  /\ lock = "free"
  /\ \E t \in todo : change_resendflag(t, "0") /\ todo' = todo \ {t}
  /\ UNCHANGED <<slot, lock, mpc, cpc, phase, cur, fresh, ack, net, server,
                 history>>

\* Slip: the record sent is marked '2' after the listed times were cleared.
Answered_marks_last ==
  /\ cpc = "clear"
  /\ todo = {}
  /\ IF phase = "pre" THEN UNCHANGED flag ELSE change_resendflag(cur, "2")
  /\ cpc' = "search"
  /\ phase' = IF phase = "pre" THEN "resend" ELSE phase
  /\ fresh' = (fresh /\ phase # "upload")
  /\ cur' = Header
  /\ UNCHANGED <<slot, lock, mpc, ack, todo, net, server, history>>

\* The answer is dealt with, the buffers are cleared and the loop goes on.
Answered ==
  /\ cpc = "clear"
  /\ todo = {}
  /\ cpc' = "search"
  /\ phase' = IF phase = "pre" THEN "resend" ELSE phase
  /\ fresh' = (fresh /\ phase # "upload")
  /\ cur' = Header
  /\ UNCHANGED <<disk, lock, mpc, ack, todo, net, server, history>>

\* delete_file_resendflag0 takes the lock ...
DeleteBegins ==
  /\ cpc = "delete"
  /\ lock = "free"
  /\ lock' = "client"
  /\ cpc' = "unlink"
  /\ UNCHANGED <<disk, mpc, phase, cur, fresh, ack, todo, net, server,
                 history>>

\* ... unlinks the files that hold only flags '0', one by one ...
delete_file_resendflag0 ==
  /\ cpc = "unlink"
  /\ \E d \in Days : AllFlags0(d) /\ unlink(d)
  /\ UNCHANGED <<lock, mpc, client, net, server, history>>

\* ... and releases it.  After resend_record the upload loop follows,
\* after the upload loop the thread sleeps.
DeleteEnds ==
  /\ cpc = "unlink"
  /\ \A d \in Days : ~AllFlags0(d)
  /\ lock' = "free"
  /\ cpc' = IF phase = "resend" THEN "search" ELSE "delay"
  /\ phase' = "upload"
  /\ UNCHANGED <<disk, mpc, cur, fresh, ack, todo, net, server, history>>

-----------------------------------------------------------------------------
(* The server and the network (external, as client.c uses them).           *)

\* A request reaches the EMA, which may store the record, acknowledge it
\* ('1') and list times of records it has stored.  The answer may be lost;
\* WIFI_GetEvent drops an answer that does not begin with '1', and one that
\* comes in replaces one that nobody fetched.
EmaReceive ==
  \E q \in req :
    /\ req' = {}
    /\ received' = received \union ({q.rec} \ {Header})
    /\ \E new \in SUBSET ({q.rec} \ {Header}), r \in Replies :
         /\ ema' = ema \union new
         /\ r.times \subseteq ema'
         /\ healthy => r = [ack |-> TRUE, times |-> ema']
                       /\ new = {q.rec} \ {Header}
         /\ \/ /\ q.via = "wired" /\ link = "wired"
               /\ resp' = {r} /\ UNCHANGED sockB
            \/ /\ q.via = "wifi" /\ r.ack
               /\ sockB' = {r} /\ UNCHANGED resp
            \/ /\ ~healthy \/ link # q.via
               /\ UNCHANGED <<resp, sockB>>
    /\ UNCHANGED <<disk, lock, mpc, client, link, healthy, history>>

\* A record the EMA received reaches its database later.
EmaStores ==
  /\ \E t \in received \ ema : ema' = ema \union {t}
  /\ UNCHANGED <<disk, lock, mpc, client, net, received, history>>

\* From here on nothing is lost, the server stores and confirms everything
\* it gets, and the board is not reset.
Stabilise == /\ ~healthy
             /\ healthy' = TRUE
             /\ UNCHANGED <<disk, lock, mpc, client, link, req, resp, sockB,
                            server, history>>

\* reboot() at 02:00, on a command or by the watchdog: the files stay.
reboot ==
  /\ ~healthy
  /\ lock' = "free"
  /\ mpc' = "optimize"
  /\ cpc' = "delay" /\ phase' = "upload" /\ cur' = Header
  /\ fresh' = TRUE /\ ack' = FALSE /\ todo' = {}
  /\ link' = "none" /\ resp' = {} /\ sockB' = {}
  /\ UNCHANGED <<disk, req, healthy, server, history>>

-----------------------------------------------------------------------------
Main == optimizeFileSystem \/ save_record \/ NoData

ClientStep == \/ \E night \in BOOLEAN : client_thread_entry(night)
              \/ detection_resendflag2 \/ Search
              \/ \E via \in {"wired", "wifi"} : Send(via)
              \/ SendFails \/ Timeout
              \/ \E r \in resp \union sockB : Receive(r)
              \/ update_send_flag \/ clear_send_flag \/ Answered
              \/ DeleteBegins \/ delete_file_resendflag0 \/ DeleteEnds

Next == \/ Main \/ ClientStep
        \/ EmaReceive \/ EmaStores \/ Stabilise \/ reboot

Spec == Init /\ [][Next]_vars

\* The scheduler runs the client thread whenever it can run, the clock
\* passes the hours 1 and 2 every day, requests arrive, and the network and
\* the server do not fail for ever.
Fairness == /\ WF_vars(ClientStep)
            /\ SF_vars(client_thread_entry(TRUE))
            /\ WF_vars(EmaReceive)
            /\ WF_vars(Stabilise)

FairSpec == Spec /\ Fairness

-----------------------------------------------------------------------------
(* Properties.                                                             *)

Flags == {"none", "1", "2", "0"}
Places == {"delay", "detect", "search", "send", "wait", "update", "clear",
           "delete", "unlink"}

\* Every variable has its type; at most one answer waits on each channel.
TypeOK ==
  /\ flag \in [Times -> Flags]
  /\ slot \in [Days -> Slots \union {0}]
  /\ lock \in {"free", "client"}
  /\ mpc \in {"optimize", "save"}
  /\ cpc \in Places
  /\ phase \in {"pre", "resend", "upload"}
  /\ cur \in Times \union {Header}
  /\ fresh \in BOOLEAN /\ ack \in BOOLEAN
  /\ todo \in SUBSET Times
  /\ link \in {"none", "wired", "wifi"}
  /\ req \in SUBSET Requests
  /\ resp \in SUBSET Replies /\ sockB \in SUBSET Replies
  /\ healthy \in BOOLEAN
  /\ received \in SUBSET Times /\ ema \in SUBSET Times
  /\ saved \in SUBSET Times /\ evicted \in SUBSET Times

\* A record marked '0' is in the EMA's database: the flag that allows a file
\* to be unlinked is only set for what the server listed, also when the
\* answer is a late one that belongs to an earlier request.
ConfirmedIsStored == \A t \in Times : flag[t] = "0" => t \in ema

\* No record disappears: one that save_record wrote and that is on no file
\* any more is stored at the EMA, or was thrown away by optimizeFileSystem.
NothingLost == \A t \in saved : flag[t] = "none" => t \in ema \union evicted

\* The flag of a record only moves forward, 1 -> 2 -> 0, until its file is
\* removed: what was confirmed is never sent again, and what was
\* acknowledged is left to the nightly check.
FlagOrder ==
  [][\A t \in Times : /\ flag[t] = "0" => flag'[t] \in {"0", "none"}
                      /\ flag[t] = "2" => flag'[t] # "1"
                      /\ flag[t] = "none" => flag'[t] \in {"none", "1"}]_vars

\* Every record leaves the device in the end: it is sent, confirmed (by the
\* answer or by the nightly pass) and its file is unlinked.
Drained == \A t \in Times : flag[t] # "none" ~> flag[t] = "none"

\* The upload path implements the outbox: the files are the queue, the
\* EMA's database is what was delivered.
OnFile == {t \in Times : flag[t] # "none"}
O == INSTANCE Outbox WITH made <- saved, queued <- OnFile, delivered <- ema
ImplementsOutbox == O!Spec

=============================================================================
