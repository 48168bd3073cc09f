--------------------------- MODULE Upload_proofs ---------------------------
(***************************************************************************)
(* The safety of the upload path, for every set of records, days and       *)
(* directory entries: no record is lost before the EMA has stored it, and  *)
(* the path implements the outbox.                                         *)
(***************************************************************************)
EXTENDS Upload, TLAPS

\* What the server says is true of its database, wherever the answer waits:
\* on the connection, in socket B, or half applied.
AnswersAreTrue == /\ todo \subseteq ema
                  /\ \A r \in resp \union sockB : r.times \subseteq ema

\* Only records that were saved are on file, on their way or at the server.
OnlySaved == /\ \A t \in Times : flag[t] # "none" => t \in saved
             /\ cur \in saved \union {Header}
             /\ \A q \in req : q.rec \in saved \union {Header}
             /\ received \subseteq saved
             /\ ema \subseteq saved

\* A record on file has a file.
OnFileHasSlot == \A t \in Times : flag[t] # "none" => slot[DayOf[t]] # 0

\* The record being sent has not been confirmed, whatever main does to the
\* files in the meantime.
SendingIsOpen == cpc \in {"send", "wait", "update"} /\ cur \in Times
                   => flag[cur] # "0"

\* The inductive invariant.
Inv == /\ TypeOK
       /\ ConfirmedIsStored
       /\ NothingLost
       /\ AnswersAreTrue
       /\ OnlySaved
       /\ OnFileHasSlot
       /\ SendingIsOpen

USE TimesAssumption, DaysAssumption

\* The invariant holds when the board starts with empty files.
LEMMA InitInv == Init => Inv
BY DEF Init, Inv, TypeOK, ConfirmedIsStored, NothingLost, AnswersAreTrue,
       OnlySaved, OnFileHasSlot, SendingIsOpen, Flags, Places, Header

\* Removing the file of a day keeps everything but NothingLost, which
\* depends on why the file was removed.
LEMMA UnlinkKeeps ==
  ASSUME Inv, NEW d \in Days, unlink(d)
  PROVE  /\ flag' \in [Times -> Flags]
         /\ slot' \in [Days -> Slots \union {0}]
         /\ \A t \in Times : flag'[t] # "none" =>
              flag'[t] = flag[t] /\ slot'[DayOf[t]] = slot[DayOf[t]]
         /\ \A t \in Times : flag'[t] = "none" /\ flag[t] # "none" =>
              t \in Records(d)
         /\ OnFileHasSlot'
BY DEF Inv, TypeOK, unlink, Flags, Records, OnFileHasSlot

\* One step of any thread, of the server or of the reset keeps Inv.
LEMMA NextInv == Inv /\ [Next]_vars => Inv'
<1> SUFFICES ASSUME Inv, [Next]_vars PROVE Inv'
  OBVIOUS
<1> USE DEF Inv, TypeOK, Flags, Places, Header, Requests, Replies,
            disk, client, net, server, history
<1>1. CASE optimizeFileSystem
  <2>1. CASE UNCHANGED <<disk, evicted>>
    BY <1>1, <2>1 DEF optimizeFileSystem, ConfirmedIsStored, NothingLost,
           AnswersAreTrue, OnlySaved, OnFileHasSlot, SendingIsOpen
  <2>2. CASE \E d \in Days : /\ Oldest(d)
                            /\ unlink(d)
                            /\ evicted' = evicted \union Records(d)
    <3>1. PICK d \in Days : /\ unlink(d)
                            /\ evicted' = evicted \union Records(d)
      BY <2>2
    <3>2. UNCHANGED <<lock, client, net, server, saved>> /\ mpc' = "save"
      BY <1>1 DEF optimizeFileSystem
    <3>3. TypeOK'
      <4>1. evicted' \in SUBSET Times
        BY <3>1 DEF Records
      <4> QED
        BY <3>1, <3>2, <4>1, UnlinkKeeps
    <3>4. NothingLost'
      BY <3>1, <3>2, UnlinkKeeps DEF NothingLost
    <3>5. ConfirmedIsStored' /\ OnlySaved' /\ SendingIsOpen'
      BY <3>1, <3>2, UnlinkKeeps
         DEF ConfirmedIsStored, OnlySaved, SendingIsOpen
    <3> QED
      BY <3>1, <3>2, <3>3, <3>4, <3>5, UnlinkKeeps DEF AnswersAreTrue
  <2> QED
    BY <1>1, <2>1, <2>2 DEF optimizeFileSystem
<1>2. CASE save_record
  <2>1. PICK t \in Times \ saved :
          /\ flag' = [flag EXCEPT ![t] = "1"]
          /\ saved' = saved \union {t}
          /\ IF slot[DayOf[t]] # 0
               THEN UNCHANGED slot
               ELSE \E s \in Slots : slot' = [slot EXCEPT ![DayOf[t]] = s]
    BY <1>2 DEF save_record
  <2>2. /\ mpc' = "optimize"
        /\ UNCHANGED <<lock, client, net, server, evicted>>
    BY <1>2 DEF save_record
  <2>3. DayOf[t] \in Days
    OBVIOUS
  <2>4. /\ slot' \in [Days -> Slots \union {0}]
        /\ slot'[DayOf[t]] # 0
        /\ \A d \in Days \ {DayOf[t]} : slot'[d] = slot[d]
    BY <2>1, <2>3, SlotsAssumption
  <2>5. TypeOK'
    BY <2>1, <2>2, <2>4
  <2>6. OnFileHasSlot'
    BY <2>1, <2>4 DEF OnFileHasSlot
  <2>7. ConfirmedIsStored' /\ NothingLost' /\ OnlySaved' /\ SendingIsOpen'
    BY <2>1, <2>2
       DEF ConfirmedIsStored, NothingLost, OnlySaved, SendingIsOpen
  <2> QED
    BY <2>2, <2>5, <2>6, <2>7 DEF AnswersAreTrue
<1>3. CASE NoData
  BY <1>3 DEF NoData, ConfirmedIsStored, NothingLost, AnswersAreTrue, OnlySaved,
         OnFileHasSlot, SendingIsOpen
<1>4. ASSUME NEW night \in BOOLEAN, client_thread_entry(night) PROVE Inv'
  BY <1>4 DEF client_thread_entry, ConfirmedIsStored, NothingLost, AnswersAreTrue, OnlySaved,
         OnFileHasSlot, SendingIsOpen
<1>5. CASE detection_resendflag2
  BY <1>5 DEF detection_resendflag2, ConfirmedIsStored, NothingLost, AnswersAreTrue, OnlySaved,
         OnFileHasSlot, SendingIsOpen
<1>6. CASE Search
  BY <1>6 DEF Search, search_readflag, WithFlag, ConfirmedIsStored, NothingLost, AnswersAreTrue, OnlySaved,
         OnFileHasSlot, SendingIsOpen
<1>7. ASSUME NEW via \in {"wired", "wifi"}, Send(via) PROVE Inv'
  BY <1>7 DEF Send, ConfirmedIsStored, NothingLost, AnswersAreTrue, OnlySaved,
         OnFileHasSlot, SendingIsOpen
<1>8. CASE SendFails
  BY <1>8 DEF SendFails, AfterFailure, ConfirmedIsStored, NothingLost, AnswersAreTrue, OnlySaved,
         OnFileHasSlot, SendingIsOpen
<1>9. CASE Timeout
  BY <1>9 DEF Timeout, AfterFailure, ConfirmedIsStored, NothingLost, AnswersAreTrue, OnlySaved,
         OnFileHasSlot, SendingIsOpen
<1>10. ASSUME NEW r \in resp \union sockB, Receive(r) PROVE Inv'
  BY <1>10 DEF Receive, ConfirmedIsStored, NothingLost, AnswersAreTrue, OnlySaved,
         OnFileHasSlot, SendingIsOpen
<1>11. CASE update_send_flag
  BY <1>11, ZenonT(30) DEF update_send_flag, change_resendflag, ConfirmedIsStored,
         NothingLost, AnswersAreTrue, OnlySaved,
         OnFileHasSlot, SendingIsOpen
<1>12. CASE clear_send_flag
  BY <1>12 DEF clear_send_flag, change_resendflag, ConfirmedIsStored, NothingLost, AnswersAreTrue, OnlySaved,
         OnFileHasSlot, SendingIsOpen
<1>13. CASE Answered
  BY <1>13 DEF Answered, ConfirmedIsStored, NothingLost, AnswersAreTrue, OnlySaved,
         OnFileHasSlot, SendingIsOpen
<1>14. CASE DeleteBegins
  BY <1>14 DEF DeleteBegins, ConfirmedIsStored, NothingLost, AnswersAreTrue, OnlySaved,
         OnFileHasSlot, SendingIsOpen
<1>15. CASE delete_file_resendflag0
  <2>1. PICK d \in Days : AllFlags0(d) /\ unlink(d)
    BY <1>15 DEF delete_file_resendflag0
  <2>2. UNCHANGED <<lock, mpc, client, net, server, history>>
    BY <1>15 DEF delete_file_resendflag0
  <2>3. Records(d) \subseteq ema
    BY <2>1 DEF AllFlags0, Records, ConfirmedIsStored
  <2>4. NothingLost'
    BY <2>1, <2>2, <2>3, UnlinkKeeps DEF NothingLost
  <2>5. ConfirmedIsStored' /\ OnlySaved' /\ SendingIsOpen'
    BY <2>1, <2>2, UnlinkKeeps
       DEF ConfirmedIsStored, OnlySaved, SendingIsOpen
  <2> QED
    BY <2>1, <2>2, <2>4, <2>5, UnlinkKeeps DEF AnswersAreTrue
<1>16. CASE DeleteEnds
  BY <1>16 DEF DeleteEnds, ConfirmedIsStored, NothingLost, AnswersAreTrue, OnlySaved,
         OnFileHasSlot, SendingIsOpen
<1>17. CASE EmaReceive
  <2>1. PICK q \in req :
          /\ req' = {}
          /\ received' = received \union ({q.rec} \ {Header})
          /\ \E new \in SUBSET ({q.rec} \ {Header}), r \in Replies :
               /\ ema' = ema \union new
               /\ r.times \subseteq ema'
               /\ resp' \in {resp, {r}} /\ sockB' \in {sockB, {r}}
    BY <1>17 DEF EmaReceive
  <2>2. UNCHANGED <<disk, lock, mpc, client, link, healthy, history>>
    BY <1>17 DEF EmaReceive
  <2>3. {q.rec} \ {Header} \subseteq saved
    BY <2>1 DEF OnlySaved
  <2>4. TypeOK'
    <3>1. received' \in SUBSET Times /\ ema' \in SUBSET Times
      BY <2>1, <2>3
    <3>2. /\ req' \in SUBSET Requests
          /\ resp' \in SUBSET Replies /\ sockB' \in SUBSET Replies
      BY <2>1
    <3> QED
      BY <2>2, <3>1, <3>2
  <2>5. AnswersAreTrue'
    BY <2>1, <2>2 DEF AnswersAreTrue
  <2>6. OnlySaved'
    BY <2>1, <2>2, <2>3 DEF OnlySaved
  <2> QED
    BY <2>1, <2>2, <2>4, <2>5, <2>6
       DEF ConfirmedIsStored, NothingLost, OnFileHasSlot, SendingIsOpen
<1>18. CASE EmaStores
  BY <1>18 DEF EmaStores, ConfirmedIsStored, NothingLost, AnswersAreTrue, OnlySaved,
         OnFileHasSlot, SendingIsOpen
<1>19. CASE Stabilise
  BY <1>19 DEF Stabilise, ConfirmedIsStored, NothingLost, AnswersAreTrue, OnlySaved,
         OnFileHasSlot, SendingIsOpen
<1>20. CASE reboot
  BY <1>20 DEF reboot, ConfirmedIsStored, NothingLost, AnswersAreTrue, OnlySaved,
         OnFileHasSlot, SendingIsOpen
<1>21. CASE UNCHANGED vars
  BY <1>21 DEF vars, ConfirmedIsStored, NothingLost, AnswersAreTrue, OnlySaved,
         OnFileHasSlot, SendingIsOpen
<1> QED
  BY <1>1, <1>2, <1>3, <1>4, <1>5, <1>6, <1>7, <1>8, <1>9, <1>10, <1>11,
     <1>12, <1>13, <1>14, <1>15, <1>16, <1>17, <1>18, <1>19, <1>20, <1>21 DEF Next, Main, ClientStep

-----------------------------------------------------------------------------
\* Inv holds in every state the upload path can reach.
THEOREM Invariance == Spec => []Inv
BY InitInv, NextInv, PTL DEF Spec

\* Every variable keeps its type, for every set of records and days.
THEOREM TypeCorrect == Spec => []TypeOK
BY Invariance, PTL DEF Inv

\* Whatever is lost, late or reset, a record is gone from the files only
\* when the EMA has it or when optimizeFileSystem threw its day away.
THEOREM NeverLost == Spec => []NothingLost
BY Invariance, PTL DEF Inv

\* The flag '0', which allows a file to be unlinked, is only ever set on
\* records in the EMA's database.
THEOREM ConfirmedStored == Spec => []ConfirmedIsStored
BY Invariance, PTL DEF Inv

-----------------------------------------------------------------------------
\* The client thread's and the server's steps that touch no file.
NoFileStep == \/ NoData \/ detection_resendflag2 \/ Search
              \/ \E night \in BOOLEAN : client_thread_entry(night)
              \/ \E via \in {"wired", "wifi"} : Send(via)
              \/ SendFails \/ Timeout \/ Answered
              \/ \E r \in resp \union sockB : Receive(r)
              \/ DeleteBegins \/ DeleteEnds \/ Stabilise \/ reboot

\* They leave the files, the database and the history alone.
LEMMA NoFileStepKeeps ==
  ASSUME NoFileStep
  PROVE  UNCHANGED <<disk, ema, saved>>
BY DEF NoFileStep, NoData, detection_resendflag2, Search, Send, SendFails,
       client_thread_entry, Timeout, Answered, Receive, DeleteBegins,
       DeleteEnds, Stabilise, reboot, disk, server, history

\* Every step is one that leaves the files, the server and the history alone,
\* or one of the few that do not.
LEMMA NextCases ==
  ASSUME Next
  PROVE  \/ NoFileStep
         \/ optimizeFileSystem \/ save_record \/ update_send_flag
         \/ clear_send_flag \/ delete_file_resendflag0
         \/ EmaReceive \/ EmaStores
BY DEF Next, Main, ClientStep, NoFileStep

FlagForward(t) == /\ flag[t] = "0" => flag'[t] \in {"0", "none"}
                  /\ flag[t] = "2" => flag'[t] # "1"
                  /\ flag[t] = "none" => flag'[t] \in {"none", "1"}

\* No step moves a flag back.
LEMMA StepMovesForward ==
  ASSUME Inv, Next, NEW t \in Times
  PROVE  FlagForward(t)
<1> USE DEF Inv, TypeOK, Flags
<1>1. CASE UNCHANGED flag
  BY <1>1 DEF FlagForward
<1>2. CASE \E d \in Days : unlink(d)
  BY <1>2 DEF FlagForward, unlink
<1>3. CASE save_record
  BY <1>3 DEF save_record, FlagForward, OnlySaved
<1>4. CASE update_send_flag
  BY <1>4 DEF update_send_flag, change_resendflag, SendingIsOpen, FlagForward
<1>5. CASE clear_send_flag
  BY <1>5 DEF clear_send_flag, change_resendflag, FlagForward
<1> QED
  BY <1>1, <1>2, <1>3, <1>4, <1>5, NextCases, NoFileStepKeeps
     DEF disk, optimizeFileSystem, delete_file_resendflag0, EmaReceive,
         EmaStores

\* A confirmed record is never sent again and an acknowledged one never goes
\* back to '1': the flags follow 1 -> 2 -> 0 in every run.
THEOREM FlagsMoveForward == Spec => FlagOrder
<1>1. Inv /\ [Next]_vars => [\A t \in Times : FlagForward(t)]_vars
  BY StepMovesForward
<1> QED
  BY <1>1, Invariance, PTL DEF Spec, FlagOrder, FlagForward

-----------------------------------------------------------------------------
\* A step of the upload path is a step of the outbox, or none.
LEMMA StepRefines ==
  ASSUME Inv, [Next]_vars
  PROVE  [O!Next]_(O!vars)
<1> USE DEF Inv, TypeOK, Flags, O!vars, O!Next
<1>1. CASE UNCHANGED <<disk, ema, saved>>
  BY <1>1 DEF disk, OnFile
<1>2. CASE optimizeFileSystem
  <2>1. CASE UNCHANGED disk
    BY <1>1, <1>2, <2>1 DEF optimizeFileSystem, server
  <2>2. CASE \E d \in Days : Oldest(d) /\ unlink(d)
    <3>1. PICK d \in Days : Oldest(d) /\ unlink(d)
      BY <2>2
    <3>2. OnFile' = OnFile \ O!OfDay(d)
      BY <3>1 DEF unlink, OnFile, O!OfDay
    <3>3. \A t \in OnFile : d <= DayOf[t]
      BY <3>1 DEF Oldest, OnFile, OnFileHasSlot
    <3> QED
      BY <1>2, <3>2, <3>3 DEF optimizeFileSystem, server, O!DropOldest
  <2> QED
    BY <1>2, <2>1, <2>2 DEF optimizeFileSystem, disk
<1>3. CASE save_record
  <2>1. PICK t \in Times \ saved : /\ flag' = [flag EXCEPT ![t] = "1"]
                                   /\ saved' = saved \union {t}
    BY <1>3 DEF save_record
  <2>2. OnFile' = OnFile \union {t}
    BY <2>1 DEF OnFile
  <2>3. O!Put(t)
    BY <1>3, <2>1, <2>2 DEF save_record, server, O!Put
  <2> QED
    BY <2>3
<1>4. CASE update_send_flag \/ clear_send_flag
  <2>1. OnFile' = OnFile
    BY <1>4 DEF update_send_flag, clear_send_flag, change_resendflag, OnFile
  <2> QED
    BY <1>4, <2>1 DEF update_send_flag, clear_send_flag, server, history
<1>5. CASE delete_file_resendflag0
  <2>1. PICK d \in Days : AllFlags0(d) /\ unlink(d)
    BY <1>5 DEF delete_file_resendflag0
  <2>2. OnFile' = OnFile \ O!OfDay(d)
    BY <2>1 DEF unlink, OnFile, O!OfDay
  <2>3. O!OfDay(d) \subseteq ema
    BY <2>1 DEF AllFlags0, Records, ConfirmedIsStored, OnFile, O!OfDay
  <2>4. O!Forget(d)
    BY <1>5, <2>2, <2>3
       DEF delete_file_resendflag0, server, history, O!Forget
  <2> QED
    BY <2>4
<1>6. CASE EmaReceive
  <2>1. PICK q \in req : \E new \in SUBSET ({q.rec} \ {Header}) :
                          ema' = ema \union new
    BY <1>6 DEF EmaReceive
  <2>2. OnFile' = OnFile /\ saved' = saved
    BY <1>6 DEF EmaReceive, disk, history, OnFile
  <2>3. {q.rec} \ {Header} \subseteq saved
    BY DEF OnlySaved
  <2>4. ema' = ema \/ (q.rec \in saved /\ ema' = ema \union {q.rec})
    BY <2>1, <2>3
  <2> QED
    BY <2>2, <2>4 DEF O!Deliver
<1>7. CASE EmaStores
  BY <1>7 DEF EmaStores, disk, history, OnFile, OnlySaved, O!Deliver
<1>8. CASE UNCHANGED vars
  BY <1>1, <1>8 DEF vars, server, history
<1> QED
  BY <1>1, <1>2, <1>3, <1>4, <1>5, <1>6, <1>7, <1>8, NextCases,
     NoFileStepKeeps

\* The upload path, with its flags, files, lost and late answers and resets,
\* implements the outbox.
THEOREM Refinement == Spec => ImplementsOutbox
<1>1. Init => O!Init
  BY DEF Init, O!Init, OnFile
<1>2. Inv /\ [Next]_vars => [O!Next]_(O!vars)
  BY StepRefines
<1> QED
  BY <1>1, <1>2, Invariance, PTL DEF Spec, ImplementsOutbox, O!Spec
=============================================================================
