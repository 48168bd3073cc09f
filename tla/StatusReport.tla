---------------------------- MODULE StatusReport ----------------------------
(***************************************************************************)
(* The reports of abnormal inverter states (message A123).  The main       *)
(* thread appends one status record per round to                           *)
(* /home/record/inversta/YYYYMMDD.dat (save_status); the control client    *)
(* sends the records to the EMA and tracks them with the same flags as the *)
(* upload client (ECU/control_client/src/control_client.c):                *)
(*                                                                         *)
(*    "1"  to be sent                                                      *)
(*    "2"  sent and answered, but not listed as stored                     *)
(*    "0"  the EMA listed its time as stored                               *)
(*                                                                         *)
(* The control client works on the files under record_data_lock, but       *)
(* save_status does not take that lock, and the main thread (priority 24)  *)
(* preempts the control client (26).  So the functions that work on a file *)
(* are two steps here: the file is opened and read, and then it is written *)
(* or unlinked.  A file opened "r+" is written back with the size it had   *)
(* when it was opened: FatFs runs without file sharing control and         *)
(* f_sync stores the size of the handle.                                   *)
(***************************************************************************)
EXTENDS Naturals, FiniteSets

CONSTANTS Times,    \* the times of the rounds that found something to report
          Days,     \* the calendar days
          DayOf,    \* the day of a time: the name of its file
          Slots     \* positions in the directory /home/record/inversta

ASSUME TimesAssumption == Times \subseteq Nat \ {0}
ASSUME DaysAssumption == Days \subseteq Nat \ {0} /\ DayOf \in [Times -> Days]
ASSUME SlotsAssumption == /\ Slots \subseteq Nat \ {0}
                          /\ IsFiniteSet(Slots) /\ IsFiniteSet(Days)
                          /\ Cardinality(Slots) >= Cardinality(Days)

VARIABLES
  \* on the flash
  flag,      \* flag[t]: the flag of record t, "none" when it is on no file
  slot,      \* slot[d]: the directory entry of the file of day d, 0 if none
  \* the control client
  cpc,       \* its place
  job,       \* "check" the inquiry of hour 1, "report" the sending loop
  cur,       \* the record being sent, 0 for the inquiry
  todo,      \* the times of the answer not applied yet
  opened,    \* the day of the file that is open, 0 if none
  size,      \* the records the open file had when it was opened
  ok,        \* flag_failed: some answer came in on WiFi during this loop
  \* the way to the server
  link,      \* "none", "wired", "broken" (wired, but dead) or "wifi"
  req,       \* the request on its way (at most one)
  resp,      \* the answer on the wired connection (at most one)
  event,     \* WIFI_Recv_SocketC_Event
  sockC,     \* WIFI_RecvSocketCData: the last answer, kept after use
  healthy,   \* from some point on the network and the server work
  \* the server, and what the properties look back on
  ema,       \* the records the EMA has stored
  saved,     \* the records save_status has written so far
  raced,     \* of these, the ones written while their file was being worked on
  gone       \* gone[t]: the flag of t when delete_statusflag0 unlinked its
             \* file, "cut" when a stale size was written over it,
             \* "evicted" by optimizeFileSystem, "no" otherwise

disk == <<flag, slot>>
client == <<cpc, job, cur, todo, opened, size, ok>>
net == <<link, req, resp, event, sockC, healthy>>
server == <<ema>>
history == <<saved, raced, gone>>
vars == <<disk, client, net, server, history>>

Inquiry == 0
Requests == [rec : Times \union {Inquiry}, via : {"wired", "wifi"}]
Replies == [good : BOOLEAN, times : SUBSET Times]
Nothing == [good |-> FALSE, times |-> {}]

Init == /\ flag = [t \in Times |-> "none"]
        /\ slot = [d \in Days |-> 0]
        /\ cpc = "loop" /\ job = "report" /\ cur = Inquiry
        /\ todo = {} /\ opened = 0 /\ size = {} /\ ok = FALSE
        /\ link = "none" /\ req = {} /\ resp = {}
        /\ event = FALSE /\ sockC = Nothing /\ healthy = FALSE
        /\ ema = {}
        /\ saved = {} /\ raced = {} /\ gone = [t \in Times |-> "no"]

-----------------------------------------------------------------------------
(* The status files.                                                       *)

Records(d) == {t \in Times : DayOf[t] = d /\ flag[t] # "none"}
WithFlag(f) == {t \in Times : flag[t] = f}

\* The order in which readdir and fgets meet two records.
Before(t, u) == \/ slot[DayOf[t]] < slot[DayOf[u]]
                \/ DayOf[t] = DayOf[u] /\ t <= u
First(t, f) == t \in WithFlag(f) /\ \A u \in WithFlag(f) : Before(t, u)

\* Closing a file opened "r+" after one of its flags was changed: what was
\* appended in between is cut off.
Appended == Records(opened) \ size
Rewrite(t, f) ==
  /\ flag' = [u \in Times |-> IF u \in Appended THEN "none"
                              ELSE IF u = t THEN f ELSE flag[u]]
  /\ gone' = [u \in Times |-> IF u \in Appended THEN "cut" ELSE gone[u]]

Unlink(d, why) ==
  /\ flag' = [t \in Times |-> IF DayOf[t] = d THEN "none" ELSE flag[t]]
  /\ slot' = [slot EXCEPT ![d] = 0]
  /\ gone' = [t \in Times |-> IF t \in Records(d) THEN why[t] ELSE gone[t]]

\* Slip: a new file always takes the entry behind the last one.
save_status_at_end ==
  /\ \E t \in Times \ saved :
       /\ \A u \in Times \ saved : t <= u
       /\ flag' = [flag EXCEPT ![t] = "1"]
       /\ \E e \in Days : /\ \A x \in Days : slot[x] <= slot[e]
                          /\ slot' = [slot EXCEPT ![DayOf[t]] = slot[e] + 1]
       /\ saved' = saved \union {t}
       /\ raced' = IF opened = DayOf[t] THEN raced \union {t} ELSE raced
  /\ UNCHANGED <<client, net, server, gone>>

\* The main thread appends the record of the round with flag '1', creating
\* the file of its day if there is none, whatever the control client does.
save_status ==
  /\ \E t \in Times \ saved :
       /\ \A u \in Times \ saved : t <= u
       /\ flag' = [flag EXCEPT ![t] = "1"]
       /\ IF slot[DayOf[t]] # 0
            THEN UNCHANGED slot
            ELSE \E s \in Slots : /\ \A e \in Days : slot[e] # s
                                  /\ slot' = [slot EXCEPT ![DayOf[t]] = s]
       /\ saved' = saved \union {t}
       /\ raced' = IF opened = DayOf[t] THEN raced \union {t} ELSE raced
  /\ UNCHANGED <<client, net, server, gone>>

\* Below 300 KB of free space the file of the earliest day is unlinked, under
\* record_data_lock.
optimizeFileSystem ==
  /\ opened = 0
  /\ \E d \in Days :
       /\ slot[d] # 0 /\ \A e \in Days : slot[e] # 0 => d <= e
       /\ Unlink(d, [t \in Times |-> "evicted"])
  /\ UNCHANGED <<client, net, server, saved, raced>>

-----------------------------------------------------------------------------
(* The control client's loop.                                              *)

\* Slip: the hour never compares equal.
check_inverter_abnormal_status_sent_never(hour1) ==
  /\ cpc = "loop"
  /\ cpc' = "exist"
  /\ UNCHANGED <<disk, job, cur, todo, opened, size, ok, net, server, history>>

\* In hour 1 the EMA is asked what it stored, when some record has flag '2'.
check_inverter_abnormal_status_sent(hour1) ==
  /\ cpc = "loop"
  /\ IF hour1 /\ WithFlag("2") # {}
       THEN cpc' = "connect" /\ job' = "check"
       ELSE cpc' = "exist" /\ UNCHANGED job
  /\ UNCHANGED <<disk, cur, todo, opened, size, ok, net, server, history>>

\* Without a record to send the rest of the pass does not touch the files.
exist_inverter_abnormal_status ==
  /\ cpc = "exist"
  /\ IF WithFlag("1") # {}
       THEN cpc' = "connect" /\ job' = "report"
       ELSE cpc' = "loop" /\ UNCHANGED job
  /\ UNCHANGED <<disk, cur, todo, opened, size, ok, net, server, history>>

\* client_socket_init, and WiFi when it fails.
client_socket_init(via) ==
  /\ cpc = "connect"
  /\ link' = via
  /\ cur' = Inquiry
  /\ ok' = FALSE
  /\ cpc' = IF job = "check" THEN "send" ELSE "search"
  /\ UNCHANGED <<disk, job, todo, opened, size, req, resp, event, sockC,
                 healthy, server, history>>

\* The head of the sending loop.
search_statusflag ==
  /\ cpc = "search"
  /\ \/ /\ \E t \in Times : First(t, "1") /\ cur' = t
        /\ cpc' = "send"
     \/ /\ WithFlag("1") = {}
        /\ cpc' = "delete"
        /\ UNCHANGED cur
  /\ UNCHANGED <<disk, job, todo, opened, size, ok, net, server, history>>

\* The function returns: the inquiry is followed by the test for records,
\* the report by the next turn of the thread's loop.
Leave == /\ cpc' = IF job = "check" THEN "exist" ELSE "loop"
         /\ cur' = Inquiry
         /\ link' = "none" /\ resp' = {}

\* WIFI_Recv_SocketC_Event is not cleared before sending.
Send ==
  /\ cpc = "send"
  /\ link \in {"wired", "wifi"}
  /\ req' = {[rec |-> cur, via |-> link]}
  /\ cpc' = "wait"
  /\ UNCHANGED <<disk, job, cur, todo, opened, size, ok, link, resp, event,
                 sockC, healthy, server, history>>

\* send_socket on a dead connection: the report goes back to the head of its
\* loop with the same socket, the inquiry does not look at the result.
SendBroken ==
  /\ cpc = "send"
  /\ link = "broken"
  /\ cpc' = IF job = "check" THEN "wait" ELSE "search"
  /\ UNCHANGED <<disk, job, cur, todo, opened, size, ok, net, server, history>>

\* SendToSocketC = -1.
SendToSocketC_fails ==
  /\ cpc = "send"
  /\ link = "wifi"
  /\ ~healthy
  /\ Leave
  /\ UNCHANGED <<disk, job, todo, opened, size, ok, req, event, sockC, healthy,
                 server, history>>

\* What is done with an answer; msg_format_check refuses a bad one.
Take(r) ==
  \/ /\ r.good
     /\ todo' = r.times
     /\ cpc' = IF job = "check" THEN "clear" ELSE "mark"
     /\ resp' = {}
     /\ UNCHANGED <<link, cur>>
  \/ /\ ~r.good /\ job = "report"
     /\ cpc' = "search"
     /\ resp' = {}
     /\ UNCHANGED <<todo, link, cur>>
  \/ /\ ~r.good /\ job = "check"
     /\ Leave
     /\ UNCHANGED todo

\* An answer comes in: on the connection, or with the event of socket C.
Receive ==
  /\ cpc = "wait"
  /\ \/ /\ link = "wired"
        /\ \E r \in resp : Take(r)
        /\ UNCHANGED <<ok, event>>
     \/ /\ link = "wifi" /\ event
        /\ Take(sockC)
        /\ ok' = TRUE /\ event' = FALSE
  /\ UNCHANGED <<disk, job, opened, size, req, sockC, healthy, server, history>>

\* No answer within the time.  On WiFi the loop gives up only as long as no
\* answer came in at all (flag_failed is not reset from one record to the
\* next); after that the data of the last answer is used again.
Timeout ==
  /\ cpc = "wait"
  /\ healthy /\ link # "broken" => req = {} /\ resp = {}
  /\ link = "wifi" => ~event
  /\ IF link = "wifi" /\ ok THEN Take(sockC) ELSE Leave /\ UNCHANGED todo
  /\ UNCHANGED <<disk, job, opened, size, ok, req, event, sockC, healthy,
                 server, history>>

-----------------------------------------------------------------------------
(* The answer is applied.                                                  *)

\* change_statusflag and change_statusflag1, first half: the file with the
\* record is open.
Open(t) ==
  /\ opened = 0
  /\ flag[t] # "none"
  /\ opened' = DayOf[t]
  /\ size' = Records(DayOf[t])
  /\ UNCHANGED <<disk, cpc, job, cur, todo, ok, net, server, history>>

\* Second half: the flag is overwritten and the file closed.
Close(t, f) ==
  /\ opened = DayOf[t]
  /\ Rewrite(t, f)
  /\ opened' = 0
  /\ size' = {}
  /\ UNCHANGED <<slot, job, cur, ok, net, server, saved, raced>>

\* A record on no file: nothing is found to change.
Missing(t) ==
  /\ opened = 0
  /\ flag[t] = "none"
  /\ UNCHANGED <<disk, job, cur, opened, size, ok, net, server, history>>

\* Slip: the record that was sent is taken for stored.
MarkSent_confirms ==
  /\ cpc = "mark"
  /\ \/ Open(cur)
     \/ (Close(cur, "0") \/ Missing(cur)) /\ cpc' = "clear" /\ UNCHANGED todo

\* The record that was sent is marked '2'.
MarkSent ==
  /\ cpc = "mark"
  /\ \/ Open(cur)
     \/ (Close(cur, "2") \/ Missing(cur)) /\ cpc' = "clear" /\ UNCHANGED todo

\* Every time the answer lists is marked '0'.
MarkStored ==
  /\ cpc = "clear"
  /\ \E t \in todo :
       /\ \A u \in todo : t <= u
       /\ \/ Open(t)
          \/ (Close(t, "0") \/ Missing(t)) /\ todo' = todo \ {t} /\ UNCHANGED cpc

\* The end of the answer.  The inquiry goes on with change_statusflag1, the
\* report with the next record; a command A118 in the answer ends the
\* report, and its file failing to open leaves the function at once.
Answered ==
  /\ cpc = "clear"
  /\ todo = {} /\ opened = 0
  /\ \/ /\ cpc' = IF job = "check" THEN "flip" ELSE "search"
        /\ UNCHANGED <<cur, link, resp>>
     \/ /\ job = "report"
        /\ cpc' = "delete"
        /\ UNCHANGED <<cur, link, resp>>
     \/ /\ job = "report" /\ ~healthy
        /\ Leave
  /\ UNCHANGED <<disk, job, todo, opened, size, ok, req, event, sockC, healthy,
                 server, history>>

\* One record with flag '2' is given back its '1': the first one found.
change_statusflag1 ==
  /\ cpc = "flip"
  /\ \/ \E t \in Times :
          /\ First(t, "2")
          /\ \/ Open(t)
             \/ Close(t, "1") /\ cpc' = "delete" /\ UNCHANGED todo
     \/ /\ WithFlag("2") = {} /\ opened = 0
        /\ cpc' = "delete"
        /\ UNCHANGED <<disk, job, cur, todo, opened, size, ok, net, server,
                       history>>

\* Slip: a file is looked through for flags '1' only.
AllFlags0_no_2(d) == slot[d] # 0 /\ \A t \in Records(d) : flag[t] # "1"

\* The files delete_statusflag0 unlinks.
AllFlags0(d) == slot[d] # 0 /\ \A t \in Records(d) : flag[t] = "0"

\* It has read a file to its end and found flags '0' only.
ScanFile ==
  /\ cpc = "delete"
  /\ opened = 0
  /\ \E d \in Days : /\ AllFlags0(d)
                     /\ opened' = d
                     /\ size' = Records(d)
  /\ UNCHANGED <<disk, cpc, job, cur, todo, ok, net, server, history>>

\* The file is unlinked.
UnlinkFile ==
  /\ cpc = "delete"
  /\ opened # 0
  /\ Unlink(opened, flag)
  /\ opened' = 0
  /\ size' = {}
  /\ UNCHANGED <<cpc, job, cur, todo, ok, net, server, saved, raced>>

\* All files were looked through.
DeleteEnds ==
  /\ cpc = "delete"
  /\ opened = 0
  /\ \A d \in Days : ~AllFlags0(d)
  /\ Leave
  /\ UNCHANGED <<disk, job, todo, opened, size, ok, req, event, sockC, healthy,
                 server, history>>

-----------------------------------------------------------------------------
(* The server and the network (external, as control_client.c uses them).   *)

\* A request reaches the EMA, which may store the record and answers with
\* times of records it has stored.  The answer may be lost or damaged.
EmaReceive ==
  \E q \in req :
    /\ req' = {}
    /\ \E new \in SUBSET ({q.rec} \ {Inquiry}), r \in Replies :
         /\ ema' = ema \union new
         /\ r.times \subseteq ema'
         /\ ~r.good => r = Nothing
         /\ healthy => r = [good |-> TRUE, times |-> ema']
                       /\ new = {q.rec} \ {Inquiry}
         /\ \/ /\ q.via = "wired" /\ link = "wired" /\ cpc = "wait"
               /\ resp' = {r} /\ UNCHANGED <<event, sockC>>
            \/ /\ q.via = "wifi"
               /\ event' = TRUE /\ sockC' = r /\ UNCHANGED resp
            \/ /\ ~healthy \/ link # q.via
               /\ UNCHANGED <<resp, event, sockC>>
    /\ UNCHANGED <<disk, client, link, healthy, history>>

\* The server resets the wired connection.
ConnectionBreaks ==
  /\ link = "wired"
  /\ ~healthy
  /\ link' = "broken"
  /\ resp' = {}
  /\ UNCHANGED <<disk, client, req, event, sockC, healthy, server, history>>

\* From here on nothing is lost or reset, and the server stores and confirms
\* everything it gets.
Stabilise == /\ ~healthy
             /\ healthy' = TRUE
             /\ UNCHANGED <<disk, client, link, req, resp, event, sockC, server,
                            history>>

\* A reset of the board: the files stay as they are.
reboot ==
  /\ ~healthy
  /\ cpc' = "loop" /\ job' = "report" /\ cur' = Inquiry
  /\ todo' = {} /\ opened' = 0 /\ size' = {} /\ ok' = FALSE
  /\ link' = "none" /\ resp' = {} /\ event' = FALSE /\ sockC' = Nothing
  /\ UNCHANGED <<disk, req, healthy, server, history>>

-----------------------------------------------------------------------------
Main == save_status \/ optimizeFileSystem

Control == \/ \E hour1 \in BOOLEAN : check_inverter_abnormal_status_sent(hour1)
           \/ exist_inverter_abnormal_status
           \/ \E via \in {"wired", "wifi"} : client_socket_init(via)
           \/ search_statusflag
           \/ Send \/ SendBroken \/ SendToSocketC_fails
           \/ Receive \/ Timeout
           \/ MarkSent \/ MarkStored \/ Answered \/ change_statusflag1
           \/ ScanFile \/ UnlinkFile \/ DeleteEnds

Next == \/ Main \/ Control
        \/ EmaReceive \/ ConnectionBreaks \/ Stabilise \/ reboot

Spec == Init /\ [][Next]_vars

\* The scheduler runs the control client whenever it can run, it meets hour 1
\* again and again, requests arrive, and the network and the server do not
\* fail for ever.
Fairness == /\ WF_vars(Control)
            /\ SF_vars(check_inverter_abnormal_status_sent(TRUE))
            /\ WF_vars(EmaReceive)
            /\ WF_vars(Stabilise)

FairSpec == Spec /\ Fairness

-----------------------------------------------------------------------------
(* Properties.                                                             *)

\* Every variable has its type.
TypeOK ==
  /\ flag \in [Times -> {"none", "1", "2", "0"}]
  /\ slot \in [Days -> Slots \union {0}]
  /\ cpc \in {"loop", "exist", "connect", "search", "send", "wait", "mark",
              "clear", "flip", "delete"}
  /\ job \in {"check", "report"}
  /\ cur \in Times \union {Inquiry}
  /\ todo \in SUBSET Times
  /\ opened \in Days \union {0}
  /\ size \in SUBSET Times
  /\ ok \in BOOLEAN
  /\ link \in {"none", "wired", "broken", "wifi"}
  /\ req \in SUBSET Requests /\ resp \in SUBSET Replies
  /\ event \in BOOLEAN /\ sockC \in Replies /\ healthy \in BOOLEAN
  /\ ema \in SUBSET Times
  /\ saved \in SUBSET Times /\ raced \in SUBSET Times
  /\ gone \in [Times -> {"no", "1", "2", "0", "cut", "evicted"}]

\* A status record marked '0' is stored at the EMA, also when the answer was
\* a late one or the data of an earlier answer was used again.
ConfirmedIsStored == \A t \in Times : flag[t] = "0" => t \in ema

\* A status record that was written and is on no file is stored at the EMA,
\* was thrown away for space, or was appended while the control client was
\* at work on its file: save_status not taking record_data_lock is the only
\* way to lose one.
LostOnlyInRace ==
  \A t \in saved : flag[t] = "none" => \/ t \in ema \union raced
                                       \/ gone[t] = "evicted"

\* Every status record is confirmed in the end (or lost as above), unless
\* the report loop hangs for ever on a connection that was reset: it goes on
\* sending to the dead socket without opening a new one.
Reported ==
  \/ <>[](link = "broken")
  \/ \A t \in Times : flag[t] \in {"1", "2"} ~> flag[t] \in {"0", "none"}

=============================================================================
