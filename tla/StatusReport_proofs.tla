------------------------ MODULE StatusReport_proofs ------------------------
(***************************************************************************)
(* What the reporting of abnormal states guarantees in spite of the race   *)
(* with save_status, for every set of records, days and directory entries: *)
(* a record marked stored is stored, and the race is the only loss.        *)
(***************************************************************************)
EXTENDS StatusReport, TLAPS

\* What the server says is true of its database, wherever the answer is: on
\* the connection, in socket C's buffer (also after it was used), or half
\* applied.
AnswersAreTrue == /\ todo \subseteq ema
                  /\ \A r \in resp : r.times \subseteq ema
                  /\ sockC.times \subseteq ema

\* Only records that were saved are on file, on their way or at the server.
OnlySaved == /\ \A t \in Times : flag[t] # "none" => t \in saved
             /\ \A q \in req : q.rec \in saved \union {Inquiry}
             /\ ema \subseteq saved
             /\ size \subseteq saved

\* The report sends records, and only the report marks what it sent.
CurIsRecord == /\ cpc \in {"send", "wait", "mark"} /\ job = "report" => cur \in saved
               /\ cur \in saved \union {Inquiry}
               /\ cpc = "mark" => job = "report"

\* A file is open only where it is worked on.
OpenPlaces == opened # 0 => cpc \in {"mark", "clear", "flip", "delete"}

\* What the open file has gained since it was opened was appended in a race;
\* of a file that is about to be unlinked the rest is confirmed.
OpenFile == opened # 0 => /\ Appended \subseteq raced
                          /\ cpc = "delete" => \A t \in size : flag[t] = "0"

\* The inductive invariant.
Inv == /\ TypeOK
       /\ ConfirmedIsStored
       /\ LostOnlyInRace
       /\ AnswersAreTrue
       /\ OnlySaved
       /\ CurIsRecord
       /\ OpenPlaces
       /\ OpenFile

USE TimesAssumption, DaysAssumption

\* The invariant holds when the board starts.
LEMMA InitInv == Init => Inv
<1> SUFFICES ASSUME Init PROVE Inv
  OBVIOUS
<1>1. Nothing \in Replies /\ Nothing.times = {}
  BY DEF Nothing, Replies
<1>2. TypeOK
  BY <1>1 DEF Init, TypeOK, Inquiry
<1>3. AnswersAreTrue
  BY <1>1 DEF Init, AnswersAreTrue
<1> QED
  BY <1>2, <1>3
     DEF Init, Inv, ConfirmedIsStored, LostOnlyInRace, OnlySaved, CurIsRecord,
         OpenPlaces, OpenFile, Inquiry

\* A step that leaves the files and the open handle alone keeps what the
\* invariant says of them.
LEMMA QuietStep ==
  ASSUME Inv, UNCHANGED <<flag, slot, opened, size, saved, raced, gone>>,
         ema \subseteq ema',
         cpc' = "delete" => cpc = "delete" \/ opened = 0
  PROVE  /\ ConfirmedIsStored' /\ LostOnlyInRace' /\ OpenFile'
         /\ \A t \in Times : flag'[t] # "none" => t \in saved'
         /\ size' \subseteq saved'
<1>1. ConfirmedIsStored'
  BY DEF Inv, ConfirmedIsStored
<1>2. LostOnlyInRace'
  BY DEF Inv, LostOnlyInRace
<1>3. Appended' = Appended
  BY DEF Appended, Records
<1>4. OpenFile'
  BY <1>3 DEF Inv, OpenFile
<1> QED
  BY <1>1, <1>2, <1>4 DEF Inv, OnlySaved

\* Opening a file: nothing was appended yet.
LEMMA OpenKeeps ==
  ASSUME Inv, NEW t \in Times, Open(t), cpc \in {"mark", "clear", "flip"}
  PROVE  Inv'
<1> USE DEF Inv, Open, disk, net, server, history
<1>1. opened' = DayOf[t] /\ DayOf[t] \in Days /\ size' = Records(DayOf[t])
  OBVIOUS
<1>2. size' \subseteq saved /\ size' \subseteq Times
  BY <1>1 DEF Records, OnlySaved
<1>3. Appended' = {}
  BY <1>1 DEF Appended, Records
<1>4. TypeOK'
  BY <1>1, <1>2 DEF TypeOK
<1>5. OnlySaved'
  BY <1>2 DEF OnlySaved
<1>6. OpenFile' /\ OpenPlaces'
  BY <1>3 DEF OpenFile, OpenPlaces
<1> QED
  BY <1>4, <1>5, <1>6
     DEF ConfirmedIsStored, LostOnlyInRace, AnswersAreTrue, CurIsRecord

\* Closing it after a change: a record is cut off only if it was appended in
\* a race, and the record changed is one that was saved.
LEMMA CloseKeeps ==
  ASSUME Inv, NEW t \in saved, NEW f \in {"0", "1", "2"}, Close(t, f),
         f = "0" => t \in ema, todo' \in SUBSET todo,
         cpc' \in {"clear", "delete"}
  PROVE  Inv'
<1> USE DEF Inv, Close, Rewrite, net, server
<1>1. t \in Times /\ opened = DayOf[t] /\ opened # 0 /\ opened' = 0 /\ size' = {}
  BY DEF TypeOK
<1>2. Appended \subseteq raced /\ Appended \subseteq Times
  BY <1>1 DEF OpenFile, Appended, Records
<1>3. TypeOK'
  BY <1>1 DEF TypeOK
<1>4. ConfirmedIsStored'
  BY DEF ConfirmedIsStored, TypeOK
<1>5. LostOnlyInRace'
  BY <1>1, <1>2 DEF LostOnlyInRace, TypeOK
<1>6. OnlySaved'
  BY <1>1 DEF OnlySaved, TypeOK
<1> QED
  BY <1>1, <1>3, <1>4, <1>5, <1>6
     DEF AnswersAreTrue, CurIsRecord, OpenPlaces, OpenFile

\* A record that is on no file is passed over.
LEMMA MissingKeeps ==
  ASSUME Inv, NEW t, Missing(t), todo' \in SUBSET todo, cpc' = "clear"
  PROVE  Inv'
<1> USE DEF Missing, disk, net, server, history
<1>1. TypeOK'
  BY DEF Inv, TypeOK
<1> QED
  BY <1>1, QuietStep
     DEF Inv, AnswersAreTrue, OnlySaved, CurIsRecord, OpenPlaces

\* Taking an answer, from wherever it comes.
LEMMA TakeKeeps ==
  ASSUME Inv, NEW r \in resp \union {sockC}, Take(r), cpc = "wait",
         ok' \in BOOLEAN, event' \in BOOLEAN,
         UNCHANGED <<disk, job, opened, size, req, sockC, healthy, server, history>>
  PROVE  Inv'
<1> USE DEF disk, server, history, Take, Leave
<1>1. r.times \subseteq ema /\ r.times \subseteq Times
  BY DEF Inv, AnswersAreTrue, TypeOK
<1>2. TypeOK'
  BY <1>1 DEF Inv, TypeOK, Inquiry
<1>3. cpc' # "delete" /\ opened = 0 /\ cur' \in {cur, Inquiry}
      /\ (cpc' = "mark" => job = "report" /\ cur' = cur)
      /\ cpc' \notin {"send", "wait"}
  BY DEF Inv, OpenPlaces, TypeOK
<1>4. AnswersAreTrue'
  BY <1>1 DEF Inv, AnswersAreTrue
<1>5. CurIsRecord'
  BY <1>3 DEF Inv, CurIsRecord
<1> QED
  BY <1>2, <1>3, <1>4, <1>5, QuietStep DEF Inv, OnlySaved, OpenPlaces

\* One step of a thread, of the server or of the reset keeps Inv.
LEMMA NextInv == Inv /\ [Next]_vars => Inv'
<1> SUFFICES ASSUME Inv, [Next]_vars PROVE Inv'
  OBVIOUS
<1> USE DEF disk, client, net, server, history
<1>t. TypeOK
  BY DEF Inv
<1>1. CASE save_status
  <2>1. PICK t \in Times \ saved :
          /\ flag' = [flag EXCEPT ![t] = "1"]
          /\ saved' = saved \union {t}
          /\ raced' = IF opened = DayOf[t] THEN raced \union {t} ELSE raced
          /\ IF slot[DayOf[t]] # 0
               THEN UNCHANGED slot
               ELSE \E s \in Slots : slot' = [slot EXCEPT ![DayOf[t]] = s]
    BY <1>1 DEF save_status
  <2>2. UNCHANGED <<client, net, server, gone>>
    BY <1>1 DEF save_status
  <2>3. slot' \in [Days -> Slots \union {0}]
    BY <1>t, <2>1, SlotsAssumption DEF TypeOK
  <2>4. TypeOK'
    BY <1>t, <2>1, <2>2, <2>3 DEF TypeOK
  <2>5. ConfirmedIsStored' /\ LostOnlyInRace'
    BY <1>t, <2>1, <2>2 DEF Inv, TypeOK, ConfirmedIsStored, LostOnlyInRace
  <2>6. OnlySaved' /\ CurIsRecord'
    BY <1>t, <2>1, <2>2 DEF Inv, TypeOK, OnlySaved, CurIsRecord
  <2>7. OpenFile'
    <3>1. ASSUME NEW u \in Appended'
          PROVE  u \in Appended \/ (u = t /\ opened = DayOf[t])
      <4>1. /\ u \in Times /\ DayOf[u] = opened /\ flag'[u] # "none"
            /\ u \notin size
        BY <3>1, <2>2 DEF Appended, Records
      <4>2. u # t => flag'[u] = flag[u]
        BY <1>t, <2>1, <4>1 DEF TypeOK
      <4> QED
        BY <4>1, <4>2 DEF Appended, Records
    <3>2. \A u \in size : flag'[u] = flag[u]
      BY <1>t, <2>1 DEF Inv, OnlySaved, TypeOK
    <3> QED
      BY <2>1, <2>2, <3>1, <3>2 DEF Inv, OpenFile
  <2> QED
    BY <2>2, <2>4, <2>5, <2>6, <2>7 DEF Inv, AnswersAreTrue, OpenPlaces
<1>2. CASE optimizeFileSystem
  <2>1. PICK d \in Days : Unlink(d, [t \in Times |-> "evicted"])
    BY <1>2 DEF optimizeFileSystem
  <2>2. opened = 0 /\ UNCHANGED <<client, net, server, saved, raced>>
    BY <1>2 DEF optimizeFileSystem
  <2>3. TypeOK'
    BY <1>t, <2>1, <2>2 DEF TypeOK, Unlink
  <2>4. LostOnlyInRace'
    BY <1>t, <2>1, <2>2 DEF Inv, LostOnlyInRace, Unlink, Records, TypeOK
  <2>5. ConfirmedIsStored' /\ OnlySaved'
    BY <1>t, <2>1, <2>2 DEF Inv, ConfirmedIsStored, OnlySaved, Unlink, TypeOK
  <2> QED
    BY <2>2, <2>3, <2>4, <2>5
       DEF Inv, AnswersAreTrue, CurIsRecord, OpenPlaces, OpenFile
<1>3. ASSUME NEW hour1 \in BOOLEAN, check_inverter_abnormal_status_sent(hour1)
      PROVE  Inv'
  <2> USE DEF check_inverter_abnormal_status_sent
  <2>1. TypeOK'
    BY <1>3, <1>t DEF TypeOK
  <2> QED
    BY <1>3, <2>1, QuietStep
       DEF Inv, AnswersAreTrue, OnlySaved, CurIsRecord, OpenPlaces
<1>4. CASE exist_inverter_abnormal_status
  <2> USE DEF exist_inverter_abnormal_status
  <2>1. TypeOK'
    BY <1>4, <1>t DEF TypeOK
  <2> QED
    BY <1>4, <2>1, QuietStep
       DEF Inv, AnswersAreTrue, OnlySaved, CurIsRecord, OpenPlaces
<1>5. ASSUME NEW via \in {"wired", "wifi"}, client_socket_init(via) PROVE Inv'
  <2> USE DEF client_socket_init
  <2>1. TypeOK'
    BY <1>5, <1>t DEF TypeOK
  <2> QED
    BY <1>5, <2>1, QuietStep
       DEF Inv, AnswersAreTrue, OnlySaved, CurIsRecord, OpenPlaces
<1>6. CASE search_statusflag
  <2>1. opened = 0
    BY <1>6 DEF search_statusflag, Inv, OpenPlaces
  <2>2. \/ cur' \in saved /\ cpc' = "send"
        \/ cur' = cur /\ cpc' = "delete"
    BY <1>6 DEF search_statusflag, First, WithFlag, Inv, OnlySaved
  <2>3. UNCHANGED <<disk, job, todo, opened, size, ok, net, server, history>>
    BY <1>6 DEF search_statusflag
  <2>4. TypeOK'
    BY <1>t, <2>2, <2>3 DEF TypeOK
  <2> QED
    BY <2>1, <2>2, <2>3, <2>4, QuietStep
       DEF Inv, AnswersAreTrue, OnlySaved, CurIsRecord, OpenPlaces
<1>7. CASE Send
  <2> USE DEF Send
  <2>1. TypeOK'
    BY <1>7, <1>t DEF TypeOK, Requests
  <2>2. \A q \in req' : q.rec \in saved \union {Inquiry}
    BY <1>7 DEF Inv, CurIsRecord
  <2> QED
    BY <1>7, <2>1, <2>2, QuietStep
       DEF Inv, AnswersAreTrue, OnlySaved, CurIsRecord, OpenPlaces
<1>8. CASE SendBroken
  <2> USE DEF SendBroken
  <2>1. TypeOK'
    BY <1>8, <1>t DEF TypeOK
  <2> QED
    BY <1>8, <2>1, QuietStep
       DEF Inv, AnswersAreTrue, OnlySaved, CurIsRecord, OpenPlaces
<1>9. CASE SendToSocketC_fails
  <2> USE DEF SendToSocketC_fails, Leave
  <2>1. TypeOK'
    BY <1>9, <1>t DEF TypeOK
  <2> QED
    BY <1>9, <2>1, QuietStep
       DEF Inv, AnswersAreTrue, OnlySaved, CurIsRecord, OpenPlaces
<1>10. CASE Receive
  <2>1. PICK r \in resp \union {sockC} : Take(r)
    BY <1>10 DEF Receive
  <2>2. cpc = "wait" /\ ok' \in BOOLEAN /\ event' \in BOOLEAN
        /\ UNCHANGED <<disk, job, opened, size, req, sockC, healthy, server,
                       history>>
    BY <1>10, <1>t DEF Receive, TypeOK
  <2> QED
    BY <2>1, <2>2, TakeKeeps
<1>11. CASE Timeout
  <2>1. cpc = "wait"
        /\ UNCHANGED <<disk, job, opened, size, ok, req, event, sockC, healthy,
                       server, history>>
    BY <1>11 DEF Timeout
  <2>2. CASE Take(sockC)
    BY <1>t, <2>1, <2>2, TakeKeeps DEF TypeOK
  <2>3. CASE Leave /\ UNCHANGED todo
    <3>1. TypeOK'
      BY <1>t, <2>1, <2>3 DEF TypeOK, Leave
    <3> QED
      BY <2>1, <2>3, <3>1, QuietStep
         DEF Leave, Inv, AnswersAreTrue, OnlySaved, CurIsRecord, OpenPlaces
  <2> QED
    BY <1>11, <2>2, <2>3 DEF Timeout
<1>12. CASE MarkSent
  <2>1. cpc = "mark" /\ cur \in saved /\ cur \in Times
    BY <1>12, <1>t DEF MarkSent, Inv, CurIsRecord, TypeOK
  <2>2. CASE Open(cur)
    BY <2>1, <2>2, OpenKeeps
  <2>3. CASE Close(cur, "2") /\ cpc' = "clear" /\ UNCHANGED todo
    <3>1. todo' \in SUBSET todo
      BY <2>3
    <3> QED
      BY <2>1, <2>3, <3>1, CloseKeeps
  <2>4. CASE Missing(cur) /\ cpc' = "clear" /\ UNCHANGED todo
    BY <2>4, MissingKeeps
  <2> QED
    BY <1>12, <2>2, <2>3, <2>4 DEF MarkSent
<1>13. CASE MarkStored
  <2>1. PICK t \in todo :
          \/ Open(t)
          \/ (Close(t, "0") \/ Missing(t)) /\ todo' = todo \ {t} /\ UNCHANGED cpc
    BY <1>13 DEF MarkStored
  <2>2. cpc = "clear" /\ t \in ema /\ t \in saved /\ t \in Times
    BY <1>13, <1>t DEF MarkStored, Inv, AnswersAreTrue, OnlySaved, TypeOK
  <2>3. CASE Open(t)
    BY <2>2, <2>3, OpenKeeps
  <2>4. CASE Close(t, "0") /\ todo' = todo \ {t} /\ UNCHANGED cpc
    <3>1. todo' \in SUBSET todo
      BY <2>4
    <3> QED
      BY <2>2, <2>4, <3>1, CloseKeeps
  <2>5. CASE Missing(t) /\ todo' = todo \ {t} /\ UNCHANGED cpc
    BY <2>2, <2>5, MissingKeeps
  <2> QED
    BY <2>1, <2>3, <2>4, <2>5
<1>14. CASE Answered
  <2> USE DEF Answered, Leave
  <2>1. TypeOK'
    BY <1>14, <1>t DEF TypeOK, Inquiry
  <2> QED
    BY <1>14, <2>1, QuietStep
       DEF Inv, AnswersAreTrue, OnlySaved, CurIsRecord, OpenPlaces
<1>15. CASE change_statusflag1
  <2>1. CASE \E t \in Times : First(t, "2") /\ Open(t)
    BY <1>15, <2>1, OpenKeeps DEF change_statusflag1
  <2>2. CASE \E t \in Times : /\ First(t, "2") /\ Close(t, "1")
                             /\ cpc' = "delete" /\ UNCHANGED todo
    <3>1. PICK t \in Times : /\ First(t, "2") /\ Close(t, "1")
                             /\ cpc' = "delete" /\ UNCHANGED todo
      BY <2>2
    <3>2. t \in saved /\ todo' \in SUBSET todo
      BY <3>1 DEF First, WithFlag, Inv, OnlySaved
    <3> QED
      BY <3>1, <3>2, CloseKeeps
  <2>3. CASE /\ opened = 0 /\ cpc' = "delete"
             /\ UNCHANGED <<disk, job, cur, todo, opened, size, ok, net, server,
                            history>>
    <3>1. TypeOK'
      BY <2>3, <1>t DEF TypeOK
    <3> QED
      BY <2>3, <3>1, QuietStep
         DEF Inv, AnswersAreTrue, OnlySaved, CurIsRecord, OpenPlaces
  <2> QED
    BY <1>15, <2>1, <2>2, <2>3 DEF change_statusflag1
<1>16. CASE ScanFile
  <2>1. PICK d \in Days : AllFlags0(d) /\ opened' = d /\ size' = Records(d)
    BY <1>16 DEF ScanFile
  <2>2. cpc = "delete"
        /\ UNCHANGED <<disk, cpc, job, cur, todo, ok, net, server, history>>
    BY <1>16 DEF ScanFile
  <2>3. size' \subseteq saved /\ size' \subseteq Times /\ Appended' = {}
        /\ \A t \in size' : flag[t] = "0"
    BY <2>1, <2>2 DEF Records, Inv, OnlySaved, Appended, AllFlags0
  <2>4. TypeOK'
    BY <1>t, <2>1, <2>2, <2>3 DEF TypeOK
  <2> QED
    BY <2>2, <2>3, <2>4
       DEF Inv, ConfirmedIsStored, LostOnlyInRace, AnswersAreTrue, OnlySaved,
           CurIsRecord, OpenPlaces, OpenFile
<1>17. CASE UnlinkFile
  <2>1. cpc = "delete" /\ opened # 0 /\ Unlink(opened, flag)
        /\ opened' = 0 /\ size' = {}
        /\ UNCHANGED <<cpc, job, cur, todo, ok, net, server, saved, raced>>
    BY <1>17 DEF UnlinkFile
  <2>2. \A t \in Records(opened) : t \in ema \union raced
    BY <2>1 DEF Inv, OpenFile, Appended, ConfirmedIsStored, Records
  <2>3. TypeOK'
    BY <1>t, <2>1 DEF TypeOK, Unlink, Records
  <2>4. LostOnlyInRace'
    BY <1>t, <2>1, <2>2 DEF Inv, LostOnlyInRace, Unlink, Records, TypeOK
  <2>5. ConfirmedIsStored' /\ OnlySaved'
    BY <1>t, <2>1 DEF Inv, ConfirmedIsStored, OnlySaved, Unlink, TypeOK
  <2> QED
    BY <2>1, <2>3, <2>4, <2>5
       DEF Inv, AnswersAreTrue, CurIsRecord, OpenPlaces, OpenFile
<1>18. CASE DeleteEnds
  <2> USE DEF DeleteEnds, Leave
  <2>1. TypeOK'
    BY <1>18, <1>t DEF TypeOK, Inquiry
  <2> QED
    BY <1>18, <2>1, QuietStep
       DEF Inv, AnswersAreTrue, OnlySaved, CurIsRecord, OpenPlaces
<1>19. CASE EmaReceive
  <2>0. PICK q \in req :
          /\ req' = {}
          /\ \E new \in SUBSET ({q.rec} \ {Inquiry}), r \in Replies :
               /\ ema' = ema \union new
               /\ r.times \subseteq ema'
               /\ resp' \subseteq resp \union {r}
               /\ event' \in BOOLEAN
               /\ sockC' \in {r, sockC}
          /\ UNCHANGED <<disk, client, link, healthy, history>>
    BY <1>19, <1>t, ZenonT(30) DEF EmaReceive, TypeOK
  <2>1. PICK new \in SUBSET ({q.rec} \ {Inquiry}), r \in Replies :
          /\ ema' = ema \union new
          /\ r.times \subseteq ema'
          /\ resp' \subseteq resp \union {r}
          /\ event' \in BOOLEAN
          /\ sockC' \in {r, sockC}
    BY <2>0
  <2>2. /\ req' = {}
        /\ UNCHANGED <<disk, client, link, healthy, history>>
    BY <2>0
  <2>4. \A x \in req : x.rec \in Times \union {Inquiry}
                       /\ x.rec \in saved \union {Inquiry}
    BY <1>t DEF TypeOK, Requests, Inv, OnlySaved
  <2>5a. new \subseteq saved /\ {q.rec} \ {Inquiry} \subseteq saved
         /\ saved \subseteq Times
    BY <1>t, <2>1, <2>4 DEF TypeOK
  <2>5b. ema \subseteq saved
    BY DEF Inv, OnlySaved
  <2>5. /\ ema' \subseteq saved /\ ema' \subseteq Times
        /\ ema \subseteq ema'
    BY <2>1, <2>5a, <2>5b
  <2>6. TypeOK'
    BY <1>t, <2>1, <2>2, <2>5 DEF TypeOK
  <2>7. AnswersAreTrue'
    BY <2>1, <2>2, <2>5 DEF Inv, AnswersAreTrue
  <2> QED
    BY <2>2, <2>5, <2>6, <2>7, QuietStep DEF Inv, OnlySaved, CurIsRecord, OpenPlaces
<1>20. CASE ConnectionBreaks
  <2> USE DEF ConnectionBreaks
  <2>1. TypeOK'
    BY <1>20, <1>t DEF TypeOK
  <2> QED
    BY <1>20, <2>1, QuietStep
       DEF Inv, AnswersAreTrue, OnlySaved, CurIsRecord, OpenPlaces
<1>21. CASE Stabilise
  <2> USE DEF Stabilise
  <2>1. TypeOK'
    BY <1>21, <1>t DEF TypeOK
  <2> QED
    BY <1>21, <2>1, QuietStep
       DEF Inv, AnswersAreTrue, OnlySaved, CurIsRecord, OpenPlaces
<1>22. CASE reboot
  <2>1. Nothing \in Replies /\ Nothing.times = {}
    BY DEF Nothing, Replies
  <2>2. TypeOK'
    BY <1>22, <1>t, <2>1 DEF reboot, TypeOK, Inquiry
  <2>3. AnswersAreTrue'
    BY <1>22, <2>1 DEF reboot, AnswersAreTrue
  <2>4. ConfirmedIsStored' /\ LostOnlyInRace' /\ OnlySaved'
    BY <1>22 DEF reboot, Inv, ConfirmedIsStored, LostOnlyInRace, OnlySaved
  <2> QED
    BY <1>22, <2>2, <2>3, <2>4
       DEF reboot, Inv, CurIsRecord, OpenPlaces, OpenFile
<1>23. CASE UNCHANGED vars
  <2>1. TypeOK'
    BY <1>23, <1>t DEF vars, TypeOK
  <2> QED
    BY <1>23, <2>1, QuietStep
       DEF vars, Inv, AnswersAreTrue, OnlySaved, CurIsRecord, OpenPlaces
<1> QED
  BY <1>1, <1>2, <1>3, <1>4, <1>5, <1>6, <1>7, <1>8, <1>9, <1>10, <1>11, <1>12,
     <1>13, <1>14, <1>15, <1>16, <1>17, <1>18, <1>19, <1>20, <1>21, <1>22, <1>23
     DEF Next, Main, Control

\* The invariant holds in every run.
THEOREM Invariance == Spec => []Inv
<1>1. Init => Inv
  BY InitInv
<1>2. Inv /\ [Next]_vars => Inv'
  BY NextInv
<1> QED
  BY <1>1, <1>2, PTL DEF Spec

\* The variables of the reporting keep their types.
THEOREM TypeCorrect == Spec => []TypeOK
<1>1. Inv => TypeOK
  BY DEF Inv
<1> QED
  BY <1>1, Invariance, PTL

\* A status record marked '0' is stored at the EMA.
THEOREM ConfirmedStored == Spec => []ConfirmedIsStored
<1>1. Inv => ConfirmedIsStored
  BY DEF Inv
<1> QED
  BY <1>1, Invariance, PTL

\* A status record is lost only when it was appended while the control
\* client was at work on its file.
THEOREM OnlyTheRaceLoses == Spec => []LostOnlyInRace
<1>1. Inv => LostOnlyInRace
  BY DEF Inv
<1> QED
  BY <1>1, Invariance, PTL

=============================================================================
