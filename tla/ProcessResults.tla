--------------------------- MODULE ProcessResults ---------------------------
(***************************************************************************)
(* The results of commands.  When the main thread has carried out what the *)
(* EMA ordered, it appends a result to the file of the day in              *)
(* /home/data/proc_res (results of the ECU) or /home/data/iprocres         *)
(* (results of one inverter), with flag '1' (save_process_result,          *)
(* save_inverter_parameters_result in file.c).  The control client sends   *)
(* one directory after the other (response_process_result in               *)
(* control_client.c); there is no answer, a result that could be sent is   *)
(* marked '0'.  It is looked up again for that, by its item (the number of *)
(* the command) and not by its place.                                      *)
(*                                                                         *)
(* As with the status files, the writers do not take record_data_lock and  *)
(* preempt the control client, so what it does with an open file is two    *)
(* steps.                                                                  *)
(***************************************************************************)
EXTENDS Naturals, FiniteSets

CONSTANTS Results,   \* the results, in the order they are saved
          Days,      \* the calendar days
          DirOf,     \* the directory of a result, "ecu" or "inv"
          DayOf,     \* its day
          ItemOf,    \* the item of its command
          LengthOf,  \* the length of its text
          Slots      \* positions in a directory

Dirs == {"ecu", "inv"}
Files == Dirs \X Days
NoFile == <<"none", 0>>

ASSUME ResultsAssumption == Results \subseteq Nat \ {0} /\ Days \subseteq Nat \ {0}
ASSUME OfAssumption == /\ DirOf \in [Results -> Dirs]
                       /\ DayOf \in [Results -> Days]
                       /\ LengthOf \in [Results -> Nat]
                       /\ DOMAIN ItemOf = Results
ASSUME SlotsAssumption == /\ Slots \subseteq Nat \ {0}
                          /\ IsFiniteSet(Slots) /\ IsFiniteSet(Days)
                          /\ Cardinality(Slots) >= Cardinality(Days)

VARIABLES
  \* on the flash
  flag,      \* flag[r]: the flag of result r, "none" when it is on no file
  slot,      \* slot[f]: the directory entry of file f, 0 if none
  \* the control client
  ecu_flag,  \* whether it reports at all, read when the thread starts
  pc,        \* its place
  dir,       \* the directory it is at
  cur,       \* the result it is at, 0 if none
  data,      \* the results of which there is text in the buffer
  opened,    \* the file that is open
  size,      \* the results the open file had when it was opened
  healthy,   \* from some point on the network works
  \* what the properties look back on
  saved,     \* the results that were written
  sent,      \* sent[r]: how often r was sent, 2 stands for more
  failed,    \* the results of this pass that could not be sent
  raced,     \* results written while their file was open
  shadowed,  \* results that were written while one with the same item was
             \* on its way, or there when that one was thrown away
  evicted,   \* results thrown away for space
  cutshort   \* results sent, but not marked when the board was reset

disk == <<flag, slot>>
client == <<ecu_flag, pc, dir, cur, data, opened, size>>
history == <<saved, sent, failed, raced, shadowed, evicted, cutshort>>
vars == <<disk, client, healthy, history>>

FileOf(r) == <<DirOf[r], DayOf[r]>>

Init == /\ flag = [r \in Results |-> "none"]
        /\ slot = [f \in Files |-> 0]
        /\ ecu_flag \in BOOLEAN
        /\ pc = "idle" /\ dir = "ecu" /\ cur = 0
        /\ data = {} /\ opened = NoFile /\ size = {}
        /\ healthy = FALSE
        /\ saved = {} /\ sent = [r \in Results |-> 0] /\ failed = {}
        /\ raced = {} /\ shadowed = {} /\ evicted = {} /\ cutshort = {}

-----------------------------------------------------------------------------
(* The result files.                                                       *)

Records(f) == {r \in Results : FileOf(r) = f /\ flag[r] # "none"}
ToSend(d) == {r \in Results : DirOf[r] = d /\ flag[r] = "1"}

\* The first of some results of one directory, as readdir and fgets meet them.
First(r, S) == /\ r \in S
               /\ \A q \in S : \/ slot[FileOf(r)] < slot[FileOf(q)]
                               \/ DayOf[r] = DayOf[q] /\ r <= q

\* Slip: the new file always goes behind the last one.
PlacedAtEnd(f) ==
  \E g \in Files : /\ \A h \in Files : slot[h] <= slot[g]
                   /\ slot' = [slot EXCEPT ![f] = slot[g] + 1]

\* A file is in its directory, or gets some free entry there.
Placed(f) ==
  IF slot[f] # 0
    THEN UNCHANGED slot
    ELSE \E s \in Slots : /\ \A g \in Files : g[1] = f[1] => slot[g] # s
                          /\ slot' = [slot EXCEPT ![f] = s]

\* Slip: any result with flag '1' matches.
Matching_any == ToSend(dir)

\* What change_pro_result_flag looks for: flag '1' and the item that was sent.
Matching == {r \in ToSend(dir) : ItemOf[r] = ItemOf[cur]}

\* The result at hand was looked up and is not marked yet.
OnItsWay == pc \in {"send", "mark"}

\* save_process_result and save_inverter_parameters_result: the main thread
\* appends the result with flag '1', whatever the control client does.
save_process_result ==
  /\ \E r \in Results \ saved :
       /\ \A q \in Results \ saved : r <= q
       /\ flag' = [flag EXCEPT ![r] = "1"]
       /\ Placed(FileOf(r))
       /\ saved' = saved \union {r}
       /\ raced' = IF opened = FileOf(r) THEN raced \union {r} ELSE raced
       /\ shadowed' = IF /\ OnItsWay
                         /\ dir = DirOf[r] /\ ItemOf[cur] = ItemOf[r]
                        THEN shadowed \union {r} ELSE shadowed
  /\ UNCHANGED <<client, healthy, sent, failed, evicted, cutshort>>

\* The files that go when space is short: the earliest day of each directory.
Earliest == {f \in Files : /\ slot[f] # 0
                           /\ \A g \in Files : /\ g[1] = f[1] /\ slot[g] # 0
                                               => f[2] <= g[2]}
InFiles(F) == {r \in Results : FileOf(r) \in F /\ flag[r] # "none"}

Unlink(F) == /\ flag' = [r \in Results |-> IF FileOf(r) \in F THEN "none"
                                            ELSE flag[r]]
             /\ slot' = [f \in Files |-> IF f \in F THEN 0 ELSE slot[f]]

\* The main thread, under record_data_lock.
optimizeFileSystem ==
  /\ opened = NoFile /\ pc # "delete"
  /\ Earliest # {}
  /\ Unlink(Earliest)
  /\ evicted' = evicted \union InFiles(Earliest)
  /\ shadowed' = IF OnItsWay /\ cur \in InFiles(Earliest)
                   THEN shadowed \union Matching ELSE shadowed
  /\ UNCHANGED <<client, healthy, saved, sent, failed, raced, cutshort>>

-----------------------------------------------------------------------------
(* response_process_result.                                                *)

\* A pass begins with an empty buffer, when the thread's loop comes to it.
Begin ==
  /\ pc = "idle" /\ ecu_flag
  /\ pc' = "search" /\ dir' = "ecu"
  /\ data' = {} /\ failed' = {}
  /\ UNCHANGED <<disk, ecu_flag, cur, opened, size, healthy, saved, sent, raced,
                 shadowed, evicted, cutshort>>

\* search_pro_result_flag and search_inv_pro_result_flag copy the first
\* result with flag '1' over what is in the buffer: of longer text that was
\* there before, the end stays.  Without one the loop over the directory ends.
search_result_flag ==
  /\ pc = "search"
  /\ \/ \E r \in Results :
          /\ First(r, ToSend(dir))
          /\ cur' = r
          /\ data' = {r} \union {q \in data : LengthOf[q] > LengthOf[r]}
          /\ pc' = "send"
     \/ /\ ToSend(dir) = {}
        /\ pc' = "delete"
        /\ UNCHANGED <<cur, data>>
  /\ UNCHANGED <<disk, ecu_flag, dir, opened, size, healthy, history>>

\* Slip: the result is not marked.
Sent_unmarked ==
  /\ pc = "send"
  /\ sent' = [sent EXCEPT ![cur] = IF @ = 0 THEN 1 ELSE 2]
  /\ pc' = "search" /\ cur' = 0 /\ data' = {}
  /\ UNCHANGED <<disk, ecu_flag, dir, opened, size, healthy, saved, failed,
                 raced, shadowed, evicted, cutshort>>

\* The buffer could be sent, wired or by WiFi: there is no answer to wait for.
Sent ==
  /\ pc = "send"
  /\ sent' = [sent EXCEPT ![cur] = IF @ = 0 THEN 1 ELSE 2]
  /\ pc' = "mark"
  /\ UNCHANGED <<disk, ecu_flag, dir, cur, data, opened, size, healthy, saved,
                 failed, raced, shadowed, evicted, cutshort>>

\* It could not be sent: on the wire the loop goes on with the first result
\* there is, WiFi ends it.  Neither clears the buffer.
NotSent(via) ==
  /\ pc = "send" /\ ~healthy
  /\ failed' = failed \union {cur}
  /\ cur' = 0
  /\ pc' = IF via = "wired" THEN "search" ELSE "delete"
  /\ UNCHANGED <<disk, ecu_flag, dir, data, opened, size, healthy, saved, sent,
                 raced, shadowed, evicted, cutshort>>

\* change_pro_result_flag and change_inv_pro_result_flag, first half: the file
\* with the first match is open.
OpenMatch ==
  /\ pc = "mark" /\ opened = NoFile
  /\ \E r \in Results : /\ First(r, Matching)
                        /\ cur' = r
                        /\ opened' = FileOf(r)
                        /\ size' = Records(FileOf(r))
  /\ UNCHANGED <<disk, ecu_flag, pc, dir, data, healthy, history>>

\* Slip: the buffer is not cleared for the next result.
NextResult_dirty == pc' = "search" /\ cur' = 0 /\ UNCHANGED data

\* The buffer is cleared for the next result.
NextResult == pc' = "search" /\ cur' = 0 /\ data' = {}

\* Second half: the flag is overwritten; closing the file cuts off what was
\* appended since it was opened.
WriteFlag ==
  /\ pc = "mark" /\ opened # NoFile
  /\ flag' = [r \in Results |-> IF r \in Records(opened) \ size THEN "none"
                                ELSE IF r = cur THEN "0" ELSE flag[r]]
  /\ opened' = NoFile /\ size' = {}
  /\ NextResult
  /\ UNCHANGED <<slot, ecu_flag, dir, healthy, history>>

\* There is no match any more.
NoMatch ==
  /\ pc = "mark" /\ opened = NoFile
  /\ Matching = {}
  /\ NextResult
  /\ UNCHANGED <<disk, ecu_flag, dir, opened, size, healthy, history>>

\* The files delete_pro_result_flag0 unlinks: no flag but '0'.
AllFlags0(f) == slot[f] # 0 /\ \A r \in Records(f) : flag[r] = "0"

\* It has read such a file to its end.
ScanFile ==
  /\ pc = "delete" /\ opened = NoFile
  /\ \E f \in Files : /\ f[1] = dir /\ AllFlags0(f)
                      /\ opened' = f
                      /\ size' = Records(f)
  /\ UNCHANGED <<disk, ecu_flag, pc, dir, cur, data, healthy, history>>

\* It unlinks the file.
UnlinkFile ==
  /\ pc = "delete" /\ opened # NoFile
  /\ Unlink({opened})
  /\ opened' = NoFile /\ size' = {}
  /\ UNCHANGED <<ecu_flag, pc, dir, cur, data, healthy, history>>

\* Slip: the loop over the results of the inverters never ends.
DeleteEnds_never ==
  /\ pc = "delete" /\ opened = NoFile
  /\ \A f \in Files : f[1] = dir => ~AllFlags0(f)
  /\ dir' = "inv" /\ pc' = "search"
  /\ cur' = 0
  /\ UNCHANGED <<disk, ecu_flag, data, opened, size, healthy, history>>

\* After the results of the ECU come those of the inverters, and then the
\* pass ends.  The buffer is the same.
DeleteEnds ==
  /\ pc = "delete" /\ opened = NoFile
  /\ \A f \in Files : f[1] = dir => ~AllFlags0(f)
  /\ IF dir = "ecu" THEN dir' = "inv" /\ pc' = "search"
                    ELSE pc' = "idle" /\ UNCHANGED dir
  /\ cur' = 0
  /\ UNCHANGED <<disk, ecu_flag, data, opened, size, healthy, history>>

-----------------------------------------------------------------------------
\* A reset of the board: the files stay, ecu_flag.con is read again (the
\* command set_ecu_flag writes the file only).
reboot ==
  /\ ~healthy
  /\ ecu_flag' \in BOOLEAN
  /\ pc' = "idle" /\ dir' = "ecu" /\ cur' = 0
  /\ data' = {} /\ opened' = NoFile /\ size' = {}
  /\ failed' = {}
  /\ cutshort' = IF pc = "mark" THEN cutshort \union {cur} ELSE cutshort
  /\ UNCHANGED <<disk, healthy, saved, sent, raced, shadowed, evicted>>

\* From here on everything can be sent, and there are no resets.
Stabilise == /\ ~healthy
             /\ healthy' = TRUE
             /\ UNCHANGED <<disk, client, history>>

Main == save_process_result \/ optimizeFileSystem

response_process_result ==
  \/ search_result_flag
  \/ Sent \/ \E via \in {"wired", "wifi"} : NotSent(via)
  \/ OpenMatch \/ WriteFlag \/ NoMatch
  \/ ScanFile \/ UnlinkFile \/ DeleteEnds

Next == Main \/ Begin \/ response_process_result \/ reboot \/ Stabilise

Spec == Init /\ [][Next]_vars

\* The scheduler runs the control client, whose loop comes to the results
\* again and again, and the network does not fail for ever.
Fairness == WF_vars(Begin) /\ WF_vars(response_process_result)
            /\ WF_vars(Stabilise)

FairSpec == Spec /\ Fairness

-----------------------------------------------------------------------------
(* Properties.                                                             *)

\* Every variable has its type.
TypeOK ==
  /\ flag \in [Results -> {"none", "1", "0"}]
  /\ slot \in [Files -> Slots \union {0}]
  /\ ecu_flag \in BOOLEAN /\ healthy \in BOOLEAN
  /\ pc \in {"idle", "search", "send", "mark", "delete"}
  /\ dir \in Dirs
  /\ cur \in Results \union {0}
  /\ data \in SUBSET Results /\ size \in SUBSET Results
  /\ opened \in Files \union {NoFile}
  /\ sent \in [Results -> 0..2]
  /\ \A S \in {saved, failed, raced, shadowed, evicted, cutshort} :
       S \subseteq Results

\* A result that was saved is still to be sent or was sent, except for three
\* ways to lose one: space ran out; it was appended while the control client
\* had its file open (the writers take no lock); it was marked in place of
\* one with the same item, because it was appended, or that one was thrown
\* away, between sending and marking (change_pro_result_flag compares nothing
\* but the item).
UnsentOnlyInRace ==
  \A r \in saved : \/ flag[r] = "1" \/ sent[r] > 0
                   \/ r \in raced \union shadowed \union evicted

\* A result is sent again only when the board was reset before it could be
\* marked, or when one with the same item was saved while it was on its way,
\* and got its mark.
ResentOnlyInMixup ==
  \A r \in Results :
    sent[r] = 2 => \/ r \in cutshort
                   \/ \E q \in shadowed : /\ DirOf[q] = DirOf[r]
                                          /\ ItemOf[q] = ItemOf[r]

\* A message has one result in it, except that the end of a longer one may
\* hang on that could not be sent before, in this pass: the text of a result
\* that was sent, or of an earlier pass, never gets into another message.
TailOnlyOfFailed == pc = "send" => data \ {cur} \subseteq failed

\* Every result leaves the state "to be sent" in the end, also when sending
\* fails for a while, unless reporting is switched off.
WorkedOff ==
  \A r \in Results : flag[r] = "1" ~> flag[r] # "1" \/ ~ecu_flag

=============================================================================
