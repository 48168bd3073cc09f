------------------------ MODULE ProcessResults_proofs ------------------------
(* No result is lost, sent twice or mixed with another except in the races  *)
(* the properties name, for every number of results, days, items and        *)
(* directory entries.                                                       *)
EXTENDS ProcessResults, TLAPS

\* Nothing is on a file, on its way or sent that was not saved.
SavedFirst ==
  /\ \A r \in Results : flag[r] # "none" \/ sent[r] > 0 => r \in saved
  /\ size \subseteq saved
  /\ OnItsWay => cur \in saved /\ DirOf[cur] = dir

\* The file of a result has its directory entry.
OnFile == \A r \in Results : flag[r] # "none" => slot[FileOf(r)] # 0

\* What the open file has that it had not when it was opened was appended in
\* a race; a file about to be unlinked had nothing left to send, and the result
\* about to be marked is on a file.
OpenFile ==
  opened # NoFile => /\ pc \in {"mark", "delete"}
                     /\ \A r \in Records(opened) : r \in size \union raced
                     /\ pc = "delete" => \A r \in size : flag[r] = "0"
                     /\ pc = "mark" => flag[cur] # "none"

\* The order in which a directory is read.
Before(q, r) == \/ slot[FileOf(q)] < slot[FileOf(r)]
                \/ DayOf[q] = DayOf[r] /\ q <= r

\* Until its mark is looked for, the result on its way is the first with its
\* item, but for those saved meanwhile or left when it was thrown away.
FirstMatch ==
  OnItsWay /\ opened = NoFile =>
    \A r \in Matching : \/ r = cur
                        \/ r \in shadowed
                        \/ flag[cur] = "1" /\ Before(cur, r)

\* What is marked was sent, or marked in place of what was sent.
MarkIsSent ==
  pc = "mark" => sent[cur] > 0 \/ (opened # NoFile /\ cur \in shadowed)

\* The two ways to have to send a result again.
Excused(r) == \/ r \in cutshort
              \/ \E q \in shadowed : DirOf[q] = DirOf[r] /\ ItemOf[q] = ItemOf[r]

\* Once sent, a result is to be sent again only if excused.
Again ==
  /\ \A r \in Results : sent[r] > 0 /\ flag[r] = "1"
                        => Excused(r) \/ (pc = "mark" /\ cur = r)
  /\ pc = "send" /\ sent[cur] > 0 => Excused(cur)

\* Between two results there is only text in the buffer that failed.
Buffer == pc \in {"search", "delete"} => data \subseteq failed

Inv == /\ TypeOK /\ SavedFirst /\ OnFile /\ OpenFile /\ FirstMatch /\ MarkIsSent
       /\ Again /\ Buffer
       /\ UnsentOnlyInRace /\ ResentOnlyInMixup /\ TailOnlyOfFailed

-----------------------------------------------------------------------------
(* Files and sets.                                                          *)

\* The file of a result is one of the files, in the result's directory.
LEMMA FileOfResult ==
  ASSUME NEW r \in Results
  PROVE  /\ FileOf(r) \in Files /\ FileOf(r) # NoFile
         /\ FileOf(r)[1] = DirOf[r] /\ FileOf(r)[2] = DayOf[r]
<1>1. DirOf[r] \in Dirs /\ DayOf[r] \in Days
  BY OfAssumption
<1>2. "none" \notin Dirs
  BY DEF Dirs
<1> QED
  BY <1>1, <1>2 DEF FileOf, Files, NoFile

\* TypeOK variable by variable.
LEMMA Types ==
  TypeOK <=> /\ flag \in [Results -> {"none", "1", "0"}]
             /\ slot \in [Files -> Slots \union {0}]
             /\ ecu_flag \in BOOLEAN /\ healthy \in BOOLEAN
             /\ pc \in {"idle", "search", "send", "mark", "delete"}
             /\ dir \in Dirs
             /\ cur \in Results \union {0}
             /\ data \subseteq Results /\ size \subseteq Results
             /\ opened \in Files \union {NoFile}
             /\ sent \in [Results -> 0..2]
             /\ saved \subseteq Results /\ failed \subseteq Results
             /\ raced \subseteq Results /\ shadowed \subseteq Results
             /\ evicted \subseteq Results /\ cutshort \subseteq Results
BY DEF TypeOK

\* A file gets an entry and the entries of the others stay.
LEMMA PlacedType ==
  ASSUME NEW f \in Files, slot \in [Files -> Slots \union {0}], Placed(f)
  PROVE  /\ slot' \in [Files -> Slots \union {0}]
         /\ slot'[f] # 0
         /\ \A g \in Files : slot[g] # 0 => slot'[g] = slot[g]
<1>1. CASE slot[f] # 0
  BY <1>1 DEF Placed
<1>2. CASE slot[f] = 0
  <2>1. PICK s \in Slots : slot' = [slot EXCEPT ![f] = s]
    BY <1>2 DEF Placed
  <2>2. s # 0
    BY SlotsAssumption
  <2> QED
    BY <1>2, <2>1, <2>2
<1> QED
  BY <1>1, <1>2

\* Unlinking files takes their results and their entries away.
LEMMA UnlinkType ==
  ASSUME NEW F \in SUBSET Files, Unlink(F),
         flag \in [Results -> {"none", "1", "0"}],
         slot \in [Files -> Slots \union {0}]
  PROVE  /\ flag' \in [Results -> {"none", "1", "0"}]
         /\ slot' \in [Files -> Slots \union {0}]
         /\ \A r \in Results : IF FileOf(r) \in F THEN flag'[r] = "none"
                               ELSE /\ flag'[r] = flag[r]
                                    /\ slot'[FileOf(r)] = slot[FileOf(r)]
<1>1. flag' = [r \in Results |-> IF FileOf(r) \in F THEN "none" ELSE flag[r]]
  BY DEF Unlink
<1>2. slot' = [f \in Files |-> IF f \in F THEN 0 ELSE slot[f]]
  BY DEF Unlink
<1>3. \A r \in Results : FileOf(r) \in Files
  BY FileOfResult
<1> QED
  BY <1>1, <1>2, <1>3

\* Two results of one directory cannot each come before the other.
LEMMA BeforeAntisymmetric ==
  ASSUME NEW q \in Results, NEW r \in Results, DirOf[q] = DirOf[r],
         slot \in [Files -> Slots \union {0}], Before(q, r), Before(r, q)
  PROVE  q = r
<1>1. FileOf(q) \in Files /\ FileOf(r) \in Files
  BY FileOfResult
<1>2. PICK a \in Nat, b \in Nat : a = slot[FileOf(q)] /\ b = slot[FileOf(r)]
  BY <1>1, SlotsAssumption
<1>3. DayOf[q] = DayOf[r] => a = b
  BY <1>2 DEF FileOf
<1>4. q \in Nat /\ r \in Nat
  BY ResultsAssumption
<1>5. a < b \/ (DayOf[q] = DayOf[r] /\ q <= r)
  BY <1>2 DEF Before
<1>6. b < a \/ (DayOf[q] = DayOf[r] /\ r <= q)
  BY <1>2 DEF Before
<1> QED
  BY <1>2, <1>3, <1>4, <1>5, <1>6

\* The invariant holds when the board starts.
LEMMA InitInv == Init => Inv
<1> SUFFICES ASSUME Init PROVE Inv
  OBVIOUS
<1>1. TypeOK
  <2>1. /\ dir \in Dirs /\ sent \in [Results -> 0..2]
        /\ slot \in [Files -> Slots \union {0}]
    BY DEF Init, Dirs
  <2> QED
    BY <2>1, Types DEF Init
<1>2. \A r \in Results : flag[r] = "none" /\ sent[r] = 0
  BY DEF Init
<1> QED
  BY <1>1, <1>2
     DEF Init, Inv, SavedFirst, OnFile, OpenFile, OnItsWay, FirstMatch,
         MarkIsSent, Again, Buffer, UnsentOnlyInRace, ResentOnlyInMixup,
         TailOnlyOfFailed

-----------------------------------------------------------------------------
(* The main thread.                                                         *)

\* Appending a result keeps the invariant.
LEMMA SaveInv == Inv /\ save_process_result => Inv'
<1> SUFFICES ASSUME Inv, save_process_result PROVE Inv'
  OBVIOUS
<1>t. /\ TypeOK /\ SavedFirst /\ OnFile /\ OpenFile /\ FirstMatch /\ MarkIsSent
      /\ Again /\ Buffer
      /\ UnsentOnlyInRace /\ ResentOnlyInMixup /\ TailOnlyOfFailed
  BY DEF Inv
<1>u. UNCHANGED <<ecu_flag, pc, dir, cur, data, opened, size, healthy, sent,
                  failed, evicted, cutshort>>
  BY DEF save_process_result, client
<1>1. PICK r \in Results \ saved :
         /\ flag' = [flag EXCEPT ![r] = "1"]
         /\ Placed(FileOf(r))
         /\ saved' = saved \union {r}
         /\ raced' = IF opened = FileOf(r) THEN raced \union {r} ELSE raced
         /\ shadowed' = IF OnItsWay /\ dir = DirOf[r] /\ ItemOf[cur] = ItemOf[r]
                          THEN shadowed \union {r} ELSE shadowed
  BY DEF save_process_result
<1>2. flag[r] = "none" /\ sent[r] = 0
  <2>1. ~(flag[r] # "none" \/ sent[r] > 0)
    BY <1>1, <1>t DEF SavedFirst
  <2>2. sent[r] \in 0..2
    BY <1>1, <1>t, Types
  <2> QED
    BY <2>1, <2>2
<1>3. flag'[r] = "1" /\ \A q \in Results \ {r} : flag'[q] = flag[q]
  BY <1>1, <1>t, Types
<1>4. FileOf(r) \in Files /\ \A q \in Results : FileOf(q) \in Files
  BY <1>1, FileOfResult
<1>5. /\ slot' \in [Files -> Slots \union {0}]
      /\ slot'[FileOf(r)] # 0
      /\ \A g \in Files : slot[g] # 0 => slot'[g] = slot[g]
  BY <1>1, <1>4, <1>t, PlacedType, Types
<1>6. TypeOK'
  <2>1. /\ flag' \in [Results -> {"none", "1", "0"}]
        /\ saved' \subseteq Results /\ raced' \subseteq Results
        /\ shadowed' \subseteq Results
    BY <1>1, <1>t, Types
  <2> QED
    BY <2>1, <1>5, <1>t, <1>u, Types DEF TypeOK
<1>7. SavedFirst'
  BY <1>1, <1>2, <1>3, <1>t, <1>u DEF SavedFirst, OnItsWay
<1>8. OnFile'
  BY <1>3, <1>4, <1>5, <1>t DEF OnFile
<1>9. OpenFile'
  <2> SUFFICES ASSUME opened # NoFile
               PROVE  /\ pc \in {"mark", "delete"}
                      /\ \A q \in Records(opened)' : q \in size \union raced'
                      /\ pc = "delete" => \A q \in size : flag'[q] = "0"
                      /\ pc = "mark" => flag'[cur] # "none"
    BY <1>u DEF OpenFile
  <2>1. \A q \in Records(opened)' : q = r \/ q \in Records(opened)
    BY <1>3, <1>u DEF Records
  <2>2. r \in Records(opened)' => r \in raced'
    BY <1>1, <1>u DEF Records
  <2>3. r \notin size /\ size \subseteq Results
    BY <1>1, <1>t, Types DEF SavedFirst
  <2>4. raced \subseteq raced'
    BY <1>1
  <2>5. pc = "mark" => cur \in saved /\ cur \in Results
    BY <1>t, Types DEF SavedFirst, OnItsWay
  <2> QED
    BY <2>1, <2>2, <2>3, <2>4, <2>5, <1>1, <1>3, <1>t DEF OpenFile
<1>10. FirstMatch'
  <2> SUFFICES ASSUME OnItsWay, opened = NoFile, NEW q \in Matching'
               PROVE  \/ q = cur \/ q \in shadowed'
                      \/ flag'[cur] = "1" /\ Before(cur, q)'
    BY <1>u DEF FirstMatch, OnItsWay
  <2>1. q \in Results /\ DirOf[q] = dir /\ ItemOf[q] = ItemOf[cur] /\ flag'[q] = "1"
    BY <1>u DEF Matching, ToSend
  <2>2. CASE q = r
    BY <2>1, <2>2, <1>1
  <2>3. CASE q # r
    <3>1. q \in Matching /\ flag[q] = "1"
      BY <2>1, <2>3, <1>3, <1>u DEF Matching, ToSend
    <3>2. CASE q = cur \/ q \in shadowed
      BY <3>2, <1>1
    <3>3. CASE flag[cur] = "1" /\ Before(cur, q)
      <4>1. cur \in Results /\ cur # r
        BY <1>1, <1>t, Types DEF SavedFirst
      <4>2. /\ slot'[FileOf(cur)] = slot[FileOf(cur)]
            /\ slot'[FileOf(q)] = slot[FileOf(q)]
        BY <4>1, <3>1, <3>3, <2>1, <1>4, <1>5, <1>t DEF OnFile
      <4> QED
        BY <3>3, <4>1, <4>2, <1>3, <1>u DEF Before, FileOf
    <3> QED
      BY <3>1, <3>2, <3>3, <1>t DEF FirstMatch
  <2> QED
    BY <2>2, <2>3
<1>11. shadowed \subseteq shadowed'
  BY <1>1
<1>12. MarkIsSent'
  BY <1>11, <1>t, <1>u DEF MarkIsSent
<1>13. Again'
  <2>1. \A q \in Results : Excused(q) => Excused(q)'
    BY <1>11, <1>u DEF Excused
  <2>2. cur = r => ~OnItsWay
    BY <1>1, <1>t DEF SavedFirst
  <2>3. \A q \in Results : sent[q] > 0 /\ flag'[q] = "1"
                           => Excused(q)' \/ (pc = "mark" /\ cur = q)
    BY <2>1, <1>2, <1>3, <1>t DEF Again
  <2>4. pc = "send" => cur \in Results
    BY <1>t, Types DEF SavedFirst, OnItsWay
  <2> QED
    BY <2>1, <2>3, <2>4, <1>t, <1>u DEF Again
<1>14. UnsentOnlyInRace'
  <2>1. raced \subseteq raced'
    BY <1>1
  <2> QED
    BY <2>1, <1>1, <1>3, <1>11, <1>t, <1>u, Types DEF UnsentOnlyInRace
<1>15. ResentOnlyInMixup'
  BY <1>11, <1>t, <1>u DEF ResentOnlyInMixup
<1>16. Buffer' /\ TailOnlyOfFailed'
  BY <1>t, <1>u DEF Buffer, TailOnlyOfFailed
<1> QED
  BY <1>6, <1>7, <1>8, <1>9, <1>10, <1>12, <1>13, <1>14, <1>15, <1>16 DEF Inv

\* Throwing the files of the earliest day away keeps the invariant.
LEMMA OptimizeInv == Inv /\ optimizeFileSystem => Inv'
<1> SUFFICES ASSUME Inv, optimizeFileSystem PROVE Inv'
  OBVIOUS
<1>t. /\ TypeOK /\ SavedFirst /\ OnFile /\ OpenFile /\ FirstMatch /\ MarkIsSent
      /\ Again /\ Buffer
      /\ UnsentOnlyInRace /\ ResentOnlyInMixup /\ TailOnlyOfFailed
  BY DEF Inv
<1>u. /\ UNCHANGED <<ecu_flag, pc, dir, cur, data, opened, size, healthy, saved,
                     sent, failed, raced, cutshort>>
      /\ opened = NoFile
  BY DEF optimizeFileSystem, client
<1> DEFINE F == Earliest
<1>1. /\ F \in SUBSET Files /\ Unlink(F)
      /\ evicted' = evicted \union InFiles(F)
      /\ shadowed' = IF OnItsWay /\ cur \in InFiles(F)
                       THEN shadowed \union Matching ELSE shadowed
  BY DEF optimizeFileSystem, Earliest
<1>2. /\ flag' \in [Results -> {"none", "1", "0"}]
      /\ slot' \in [Files -> Slots \union {0}]
      /\ \A r \in Results : IF FileOf(r) \in F THEN flag'[r] = "none"
                            ELSE /\ flag'[r] = flag[r]
                                 /\ slot'[FileOf(r)] = slot[FileOf(r)]
  <2> HIDE DEF F
  <2> QED
    BY <1>1, <1>t, UnlinkType, Types
<1> HIDE DEF F
<1>3. /\ shadowed \subseteq shadowed' /\ shadowed' \subseteq Results
      /\ evicted \subseteq evicted' /\ evicted' \subseteq Results
  BY <1>1, <1>t, Types DEF InFiles, Matching, ToSend
<1>4. TypeOK'
  BY <1>2, <1>3, <1>t, <1>u, Types DEF TypeOK
<1>5. SavedFirst'
  BY <1>2, <1>t, <1>u DEF SavedFirst, OnItsWay
<1>6. OnFile'
  BY <1>2, <1>t DEF OnFile
<1>7. OpenFile'
  BY <1>u DEF OpenFile
<1>8. FirstMatch'
  <2> SUFFICES ASSUME OnItsWay, NEW q \in Matching'
               PROVE  \/ q = cur \/ q \in shadowed'
                      \/ flag'[cur] = "1" /\ Before(cur, q)'
    BY <1>u DEF FirstMatch, OnItsWay
  <2>1. /\ q \in Results /\ FileOf(q) \notin F /\ q \in Matching
        /\ slot'[FileOf(q)] = slot[FileOf(q)]
    BY <1>2, <1>u DEF Matching, ToSend
  <2>2. CASE q = cur \/ q \in shadowed
    BY <2>2, <1>3
  <2>3. CASE flag[cur] = "1" /\ Before(cur, q)
    <3>1. cur \in Results
      BY <1>t, Types DEF SavedFirst
    <3>2. CASE FileOf(cur) \in F
      <4>1. cur \in InFiles(F)
        BY <3>1, <3>2, <2>3 DEF InFiles
      <4> QED
        BY <4>1, <2>1, <1>1
    <3>3. CASE FileOf(cur) \notin F
      BY <3>1, <3>3, <2>1, <2>3, <1>2, <1>u DEF Before, FileOf
    <3> QED
      BY <3>2, <3>3
  <2> QED
    BY <2>1, <2>2, <2>3, <1>t, <1>u DEF FirstMatch
<1>9. MarkIsSent'
  BY <1>3, <1>t, <1>u DEF MarkIsSent
<1>10. Again'
  <2>1. \A q \in Results : Excused(q) => Excused(q)'
    BY <1>3, <1>u DEF Excused
  <2>2. \A q \in Results : sent[q] > 0 /\ flag'[q] = "1"
                           => Excused(q)' \/ (pc = "mark" /\ cur = q)
    BY <2>1, <1>2, <1>t DEF Again
  <2>3. pc = "send" => cur \in Results
    BY <1>t, Types DEF SavedFirst, OnItsWay
  <2> QED
    BY <2>1, <2>2, <2>3, <1>t, <1>u DEF Again
<1>11. UnsentOnlyInRace'
  <2> SUFFICES ASSUME NEW r \in saved
               PROVE  \/ flag'[r] = "1" \/ sent[r] > 0
                      \/ r \in raced \union shadowed' \union evicted'
    BY <1>u DEF UnsentOnlyInRace
  <2>1. r \in Results
    BY <1>t, Types
  <2>2. CASE flag[r] = "1" /\ FileOf(r) \in F
    BY <2>1, <2>2, <1>1 DEF InFiles
  <2>3. CASE ~(flag[r] = "1" /\ FileOf(r) \in F)
    BY <2>1, <2>3, <1>2, <1>3, <1>t DEF UnsentOnlyInRace
  <2> QED
    BY <2>2, <2>3
<1>12. ResentOnlyInMixup'
  BY <1>3, <1>t, <1>u DEF ResentOnlyInMixup
<1>13. Buffer' /\ TailOnlyOfFailed'
  BY <1>t, <1>u DEF Buffer, TailOnlyOfFailed
<1> QED
  BY <1>4, <1>5, <1>6, <1>7, <1>8, <1>9, <1>10, <1>11, <1>12, <1>13 DEF Inv

-----------------------------------------------------------------------------
(* The control client.                                                      *)

\* A pass that begins keeps the invariant.
LEMMA BeginInv == Inv /\ Begin => Inv'
<1> SUFFICES ASSUME Inv, Begin PROVE Inv'
  OBVIOUS
<1>t. /\ TypeOK /\ SavedFirst /\ OnFile /\ OpenFile /\ FirstMatch /\ MarkIsSent
      /\ Again /\ Buffer
      /\ UnsentOnlyInRace /\ ResentOnlyInMixup /\ TailOnlyOfFailed
  BY DEF Inv
<1>u. /\ UNCHANGED <<flag, slot, ecu_flag, cur, opened, size, healthy, saved,
                     sent, raced, shadowed, evicted, cutshort>>
      /\ pc = "idle" /\ pc' = "search" /\ dir' = "ecu"
      /\ data' = {} /\ failed' = {}
  BY DEF Begin, disk
<1>1. TypeOK'
  <2>1. dir' \in Dirs
    BY <1>u DEF Dirs
  <2> QED
    BY <2>1, <1>t, <1>u, Types DEF TypeOK
<1>2. opened = NoFile
  BY <1>t, <1>u DEF OpenFile
<1>3. SavedFirst' /\ OnFile' /\ OpenFile' /\ FirstMatch' /\ MarkIsSent'
  BY <1>2, <1>t, <1>u
     DEF SavedFirst, OnFile, FileOf, OpenFile, FirstMatch, OnItsWay, MarkIsSent
<1>4. Again' /\ UnsentOnlyInRace' /\ ResentOnlyInMixup'
  BY <1>t, <1>u DEF Again, Excused, UnsentOnlyInRace, ResentOnlyInMixup
<1>5. Buffer' /\ TailOnlyOfFailed'
  BY <1>u DEF Buffer, TailOnlyOfFailed
<1> QED
  BY <1>1, <1>3, <1>4, <1>5 DEF Inv

\* Looking for the next result keeps the invariant.
LEMMA SearchInv == Inv /\ search_result_flag => Inv'
<1> SUFFICES ASSUME Inv, search_result_flag PROVE Inv'
  OBVIOUS
<1>t. /\ TypeOK /\ SavedFirst /\ OnFile /\ OpenFile /\ FirstMatch /\ MarkIsSent
      /\ Again /\ Buffer
      /\ UnsentOnlyInRace /\ ResentOnlyInMixup /\ TailOnlyOfFailed
  BY DEF Inv
<1>u. /\ UNCHANGED <<flag, slot, ecu_flag, dir, opened, size, healthy, saved,
                     sent, failed, raced, shadowed, evicted, cutshort>>
      /\ pc = "search"
  BY DEF search_result_flag, disk, history
<1>o. opened = NoFile
  BY <1>t, <1>u DEF OpenFile
<1>s. /\ OnFile' /\ OpenFile' /\ UnsentOnlyInRace' /\ ResentOnlyInMixup'
      /\ \A q \in Results : Excused(q)' <=> Excused(q)
      /\ \A q \in Results : sent[q] > 0 /\ flag[q] = "1" => Excused(q)
  BY <1>o, <1>t, <1>u
     DEF OnFile, FileOf, OpenFile, UnsentOnlyInRace, ResentOnlyInMixup,
         Again, Excused
<1>1. ASSUME NEW r \in Results, First(r, ToSend(dir)), pc' = "send", cur' = r,
             data' = {r} \union {q \in data : LengthOf[q] > LengthOf[r]}
      PROVE  Inv'
  <2>1. /\ flag[r] = "1" /\ DirOf[r] = dir
        /\ \A q \in ToSend(dir) : Before(r, q)
    BY <1>1 DEF First, ToSend, Before
  <2>2. TypeOK'
    BY <1>1, <1>t, <1>u, Types DEF TypeOK
  <2>3. SavedFirst'
    BY <1>1, <2>1, <1>t, <1>u DEF SavedFirst, OnItsWay
  <2>4. FirstMatch'
    <3> SUFFICES ASSUME NEW q \in Matching' PROVE flag'[r] = "1" /\ Before(r, q)'
      BY <1>1, <1>u DEF FirstMatch
    <3>1. q \in ToSend(dir)
      BY <1>u DEF Matching, ToSend
    <3> QED
      BY <3>1, <2>1, <1>u DEF Before, FileOf
  <2>5. MarkIsSent' /\ Buffer'
    BY <1>1 DEF MarkIsSent, Buffer
  <2>6. Again'
    BY <1>1, <2>1, <1>s, <1>u DEF Again
  <2>7. TailOnlyOfFailed'
    BY <1>1, <1>t, <1>u DEF Buffer, TailOnlyOfFailed
  <2> QED
    BY <2>2, <2>3, <2>4, <2>5, <2>6, <2>7, <1>s DEF Inv
<1>2. CASE pc' = "delete" /\ UNCHANGED <<cur, data>>
  <2>1. TypeOK'
    BY <1>2, <1>t, <1>u, Types DEF TypeOK
  <2>2. SavedFirst' /\ FirstMatch' /\ MarkIsSent' /\ Buffer' /\ TailOnlyOfFailed'
    BY <1>2, <1>t, <1>u
       DEF SavedFirst, FirstMatch, OnItsWay, MarkIsSent, Buffer, TailOnlyOfFailed
  <2>3. Again'
    BY <1>2, <1>s, <1>u DEF Again
  <2> QED
    BY <2>1, <2>2, <2>3, <1>s DEF Inv
<1> QED
  BY <1>1, <1>2 DEF search_result_flag

\* Sending a result keeps the invariant.
LEMMA SentInv == Inv /\ Sent => Inv'
<1> SUFFICES ASSUME Inv, Sent PROVE Inv'
  OBVIOUS
<1>t. /\ TypeOK /\ SavedFirst /\ OnFile /\ OpenFile /\ FirstMatch /\ MarkIsSent
      /\ Again /\ Buffer
      /\ UnsentOnlyInRace /\ ResentOnlyInMixup /\ TailOnlyOfFailed
  BY DEF Inv
<1>u. /\ UNCHANGED <<flag, slot, ecu_flag, dir, cur, data, opened, size, healthy,
                     saved, failed, raced, shadowed, evicted, cutshort>>
      /\ pc = "send" /\ pc' = "mark"
      /\ sent' = [sent EXCEPT ![cur] = IF @ = 0 THEN 1 ELSE 2]
  BY DEF Sent, disk
<1>o. opened = NoFile
  BY <1>t, <1>u DEF OpenFile
<1>1. cur \in Results /\ cur \in saved /\ DirOf[cur] = dir
  BY <1>t, <1>u, Types DEF SavedFirst, OnItsWay
<1>2. /\ sent' \in [Results -> 0..2] /\ sent'[cur] > 0
      /\ sent'[cur] = 2 => sent[cur] > 0
      /\ \A q \in Results \ {cur} : sent'[q] = sent[q]
  <2>1. sent \in [Results -> 0..2]
    BY <1>t, Types
  <2>2. sent[cur] \in 0..2 /\ sent'[cur] = IF sent[cur] = 0 THEN 1 ELSE 2
    BY <2>1, <1>1, <1>u
  <2>3. sent'[cur] \in 1..2 /\ (sent'[cur] = 2 => sent[cur] > 0)
    BY <2>2
  <2> QED
    BY <2>1, <2>3, <1>1, <1>u
<1>3. TypeOK'
  BY <1>2, <1>t, <1>u, Types DEF TypeOK
<1>4. SavedFirst' /\ OnFile' /\ OpenFile'
  BY <1>o, <1>1, <1>2, <1>t, <1>u DEF SavedFirst, OnItsWay, OnFile, FileOf, OpenFile
<1>5. FirstMatch' /\ MarkIsSent' /\ Buffer' /\ TailOnlyOfFailed'
  BY <1>2, <1>t, <1>u
     DEF FirstMatch, OnItsWay, Matching, ToSend, Before, FileOf, MarkIsSent,
         Buffer, TailOnlyOfFailed
<1>6. Again'
  BY <1>1, <1>2, <1>t, <1>u DEF Again, Excused
<1>7. UnsentOnlyInRace'
  BY <1>2, <1>t, <1>u, Types DEF UnsentOnlyInRace
<1>8. ResentOnlyInMixup'
  <2>1. sent[cur] > 0 => Excused(cur)
    BY <1>t, <1>u DEF Again
  <2> QED
    BY <2>1, <1>2, <1>t, <1>u DEF ResentOnlyInMixup, Excused
<1> QED
  BY <1>3, <1>4, <1>5, <1>6, <1>7, <1>8 DEF Inv

\* Failing to send one keeps the invariant.
LEMMA NotSentInv == ASSUME NEW via, Inv, NotSent(via) PROVE Inv'
<1>t. /\ TypeOK /\ SavedFirst /\ OnFile /\ OpenFile /\ FirstMatch /\ MarkIsSent
      /\ Again /\ Buffer
      /\ UnsentOnlyInRace /\ ResentOnlyInMixup /\ TailOnlyOfFailed
  BY DEF Inv
<1>u. /\ UNCHANGED <<flag, slot, ecu_flag, dir, data, opened, size, healthy,
                     saved, sent, raced, shadowed, evicted, cutshort>>
      /\ pc = "send" /\ pc' \in {"search", "delete"} /\ cur' = 0
      /\ failed' = failed \union {cur}
  BY DEF NotSent, disk
<1>o. opened = NoFile
  BY <1>t, <1>u DEF OpenFile
<1>1. cur \in Results
  BY <1>t, <1>u, Types DEF SavedFirst, OnItsWay
<1>2. TypeOK'
  BY <1>1, <1>t, <1>u, Types DEF TypeOK
<1>3. SavedFirst' /\ OnFile' /\ OpenFile' /\ FirstMatch' /\ MarkIsSent'
  BY <1>o, <1>t, <1>u
     DEF SavedFirst, OnItsWay, OnFile, FileOf, OpenFile, FirstMatch, MarkIsSent
<1>4. Again' /\ UnsentOnlyInRace' /\ ResentOnlyInMixup'
  BY <1>t, <1>u DEF Again, Excused, UnsentOnlyInRace, ResentOnlyInMixup
<1>5. Buffer' /\ TailOnlyOfFailed'
  BY <1>t, <1>u DEF Buffer, TailOnlyOfFailed
<1> QED
  BY <1>2, <1>3, <1>4, <1>5 DEF Inv

\* Opening the file with the first match: it is the result that was sent, or
\* one that came in its place.
LEMMA OpenMatchInv == Inv /\ OpenMatch => Inv'
<1> SUFFICES ASSUME Inv, OpenMatch PROVE Inv'
  OBVIOUS
<1>t. /\ TypeOK /\ SavedFirst /\ OnFile /\ OpenFile /\ FirstMatch /\ MarkIsSent
      /\ Again /\ Buffer
      /\ UnsentOnlyInRace /\ ResentOnlyInMixup /\ TailOnlyOfFailed
  BY DEF Inv
<1>u. /\ UNCHANGED <<flag, slot, ecu_flag, pc, dir, data, healthy, saved, sent,
                     failed, raced, shadowed, evicted, cutshort>>
      /\ pc = "mark" /\ opened = NoFile
  BY DEF OpenMatch, disk, history
<1>1. PICK r \in Results : /\ First(r, Matching)
                           /\ cur' = r
                           /\ opened' = FileOf(r)
                           /\ size' = Records(FileOf(r))
  BY DEF OpenMatch
<1>2. /\ opened' \in Files /\ opened' # NoFile
  BY <1>1, FileOfResult
<1>3. /\ r \in Matching /\ flag[r] = "1" /\ DirOf[r] = dir
      /\ ItemOf[r] = ItemOf[cur]
      /\ \A q \in Matching : Before(r, q)
  BY <1>1 DEF First, Matching, ToSend, Before
<1>4. cur \in Results /\ DirOf[cur] = dir
  BY <1>t, <1>u, Types DEF SavedFirst, OnItsWay
<1>5. r = cur \/ r \in shadowed
  <2>1. CASE flag[cur] = "1" /\ Before(cur, r)
    <3>1. cur \in Matching
      BY <2>1, <1>4 DEF Matching, ToSend
    <3>2. Before(r, cur)
      BY <3>1, <1>3
    <3> QED
      BY <2>1, <3>2, <1>3, <1>4, <1>t, BeforeAntisymmetric, Types
  <2> QED
    BY <2>1, <1>3, <1>t, <1>u DEF FirstMatch, OnItsWay
<1>6. TypeOK'
  <2>1. size' \subseteq Results
    BY <1>1 DEF Records
  <2> QED
    BY <2>1, <1>1, <1>2, <1>t, <1>u, Types DEF TypeOK
<1>7. SavedFirst' /\ OnFile'
  BY <1>1, <1>3, <1>t, <1>u DEF SavedFirst, OnItsWay, Records, OnFile, FileOf
<1>8. OpenFile'
  BY <1>1, <1>3, <1>u DEF OpenFile, Records
<1>9. FirstMatch' /\ Buffer' /\ TailOnlyOfFailed'
  BY <1>2, <1>u DEF FirstMatch, Buffer, TailOnlyOfFailed
<1>10. MarkIsSent'
  BY <1>1, <1>2, <1>5, <1>t, <1>u DEF MarkIsSent
<1>11. Again'
  <2>1. r # cur => Excused(cur)
    BY <1>3, <1>4, <1>5 DEF Excused
  <2> QED
    BY <2>1, <1>1, <1>t, <1>u DEF Again, Excused
<1>12. UnsentOnlyInRace' /\ ResentOnlyInMixup'
  BY <1>t, <1>u DEF UnsentOnlyInRace, ResentOnlyInMixup
<1> QED
  BY <1>6, <1>7, <1>8, <1>9, <1>10, <1>11, <1>12 DEF Inv

\* Overwriting the flag keeps the invariant: it cuts off only what was
\* appended in a race, and marks what was sent or came in its place.
LEMMA WriteFlagInv == Inv /\ WriteFlag => Inv'
<1> SUFFICES ASSUME Inv, WriteFlag PROVE Inv'
  OBVIOUS
<1>t. /\ TypeOK /\ SavedFirst /\ OnFile /\ OpenFile /\ FirstMatch /\ MarkIsSent
      /\ Again /\ Buffer
      /\ UnsentOnlyInRace /\ ResentOnlyInMixup /\ TailOnlyOfFailed
  BY DEF Inv
<1>u. /\ UNCHANGED <<slot, ecu_flag, dir, healthy, saved, sent, failed, raced,
                     shadowed, evicted, cutshort>>
      /\ pc = "mark" /\ opened # NoFile /\ opened' = NoFile /\ size' = {}
      /\ pc' = "search" /\ cur' = 0 /\ data' = {}
      /\ flag' = [r \in Results |->
                    IF r \in Records(opened) \ size THEN "none"
                    ELSE IF r = cur THEN "0" ELSE flag[r]]
  BY DEF WriteFlag, NextResult, history
<1>1. cur \in saved /\ cur \in Results
  BY <1>t, <1>u, Types DEF SavedFirst, OnItsWay
<1>2. \A r \in Results : \/ flag'[r] = "none" /\ r \in raced
                         \/ flag'[r] = "0" /\ r = cur
                         \/ flag'[r] = flag[r] /\ r # cur
  BY <1>t, <1>u DEF OpenFile
<1>3. TypeOK'
  <2>1. flag' \in [Results -> {"none", "1", "0"}]
    BY <1>t, <1>u, Types
  <2> QED
    BY <2>1, <1>t, <1>u, Types DEF TypeOK
<1>5. SavedFirst'
  BY <1>1, <1>2, <1>t, <1>u DEF SavedFirst, OnItsWay
<1>6. OnFile'
  <2>1. flag[cur] # "none"
    BY <1>t, <1>u DEF OpenFile
  <2> QED
    BY <2>1, <1>2, <1>t, <1>u DEF OnFile, FileOf
<1>7. /\ OpenFile' /\ FirstMatch' /\ MarkIsSent' /\ Buffer' /\ TailOnlyOfFailed'
  BY <1>u DEF OpenFile, FirstMatch, OnItsWay, MarkIsSent, Buffer, TailOnlyOfFailed
<1>8. Again'
  BY <1>2, <1>t, <1>u DEF Again, Excused
<1>9. UnsentOnlyInRace'
  <2> SUFFICES ASSUME NEW r \in saved
               PROVE  \/ flag'[r] = "1" \/ sent[r] > 0
                      \/ r \in raced \union shadowed \union evicted
    BY <1>u DEF UnsentOnlyInRace
  <2>1. r \in Results
    BY <1>t, Types
  <2>2. r = cur => sent[r] > 0 \/ r \in shadowed
    BY <1>t, <1>u DEF MarkIsSent
  <2> QED
    BY <2>1, <2>2, <1>2, <1>t DEF UnsentOnlyInRace
<1>10. ResentOnlyInMixup'
  BY <1>t, <1>u DEF ResentOnlyInMixup
<1> QED
  BY <1>3, <1>5, <1>6, <1>7, <1>8, <1>9, <1>10 DEF Inv

\* Finding no match any more keeps the invariant.
LEMMA NoMatchInv == Inv /\ NoMatch => Inv'
<1> SUFFICES ASSUME Inv, NoMatch PROVE Inv'
  OBVIOUS
<1>t. /\ TypeOK /\ SavedFirst /\ OnFile /\ OpenFile /\ FirstMatch /\ MarkIsSent
      /\ Again /\ Buffer
      /\ UnsentOnlyInRace /\ ResentOnlyInMixup /\ TailOnlyOfFailed
  BY DEF Inv
<1>u. /\ UNCHANGED <<flag, slot, ecu_flag, dir, opened, size, healthy, saved,
                     sent, failed, raced, shadowed, evicted, cutshort>>
      /\ pc = "mark" /\ opened = NoFile /\ Matching = {}
      /\ pc' = "search" /\ cur' = 0 /\ data' = {}
  BY DEF NoMatch, NextResult, disk, history
<1>1. cur \in Results /\ DirOf[cur] = dir
  BY <1>t, <1>u, Types DEF SavedFirst, OnItsWay
<1>2. flag[cur] # "1"
  BY <1>1, <1>u DEF Matching, ToSend
<1>3. TypeOK'
  BY <1>t, <1>u, Types DEF TypeOK
<1>4. /\ SavedFirst' /\ OnFile' /\ OpenFile' /\ FirstMatch' /\ MarkIsSent'
      /\ Buffer' /\ TailOnlyOfFailed'
  BY <1>t, <1>u
     DEF SavedFirst, OnItsWay, OnFile, FileOf, OpenFile, FirstMatch, MarkIsSent,
         Buffer, TailOnlyOfFailed
<1>5. Again'
  BY <1>2, <1>t, <1>u DEF Again, Excused
<1>6. UnsentOnlyInRace' /\ ResentOnlyInMixup'
  BY <1>t, <1>u DEF UnsentOnlyInRace, ResentOnlyInMixup
<1> QED
  BY <1>3, <1>4, <1>5, <1>6 DEF Inv

\* Reading a file with nothing to send keeps the invariant.
LEMMA ScanFileInv == Inv /\ ScanFile => Inv'
<1> SUFFICES ASSUME Inv, ScanFile PROVE Inv'
  OBVIOUS
<1>t. /\ TypeOK /\ SavedFirst /\ OnFile /\ OpenFile /\ FirstMatch /\ MarkIsSent
      /\ Again /\ Buffer
      /\ UnsentOnlyInRace /\ ResentOnlyInMixup /\ TailOnlyOfFailed
  BY DEF Inv
<1>u. /\ UNCHANGED <<flag, slot, ecu_flag, pc, dir, cur, data, healthy, saved,
                     sent, failed, raced, shadowed, evicted, cutshort>>
      /\ pc = "delete"
  BY DEF ScanFile, disk, history
<1>1. PICK f \in Files : AllFlags0(f) /\ opened' = f /\ size' = Records(f)
  BY DEF ScanFile
<1>2. Records(f) \subseteq Results /\ \A r \in Records(f) : flag[r] = "0"
  BY <1>1 DEF AllFlags0, Records
<1>3. TypeOK'
  BY <1>1, <1>2, <1>t, <1>u, Types DEF TypeOK
<1>4. SavedFirst' /\ OnFile'
  BY <1>1, <1>2, <1>t, <1>u DEF SavedFirst, OnItsWay, OnFile, FileOf
<1>5. OpenFile'
  BY <1>1, <1>2, <1>u DEF OpenFile, Records
<1>6. FirstMatch' /\ MarkIsSent' /\ Buffer' /\ TailOnlyOfFailed'
  BY <1>t, <1>u DEF FirstMatch, OnItsWay, MarkIsSent, Buffer, TailOnlyOfFailed
<1>7. Again' /\ UnsentOnlyInRace' /\ ResentOnlyInMixup'
  BY <1>t, <1>u DEF Again, Excused, UnsentOnlyInRace, ResentOnlyInMixup
<1> QED
  BY <1>3, <1>4, <1>5, <1>6, <1>7 DEF Inv

\* Unlinking it keeps the invariant: what it had when it was read was marked,
\* what came since is in a race.
LEMMA UnlinkFileInv == Inv /\ UnlinkFile => Inv'
<1> SUFFICES ASSUME Inv, UnlinkFile PROVE Inv'
  OBVIOUS
<1>t. /\ TypeOK /\ SavedFirst /\ OnFile /\ OpenFile /\ FirstMatch /\ MarkIsSent
      /\ Again /\ Buffer
      /\ UnsentOnlyInRace /\ ResentOnlyInMixup /\ TailOnlyOfFailed
  BY DEF Inv
<1>u. /\ UNCHANGED <<ecu_flag, pc, dir, cur, data, healthy, saved, sent, failed,
                     raced, shadowed, evicted, cutshort>>
      /\ pc = "delete" /\ opened # NoFile /\ opened' = NoFile /\ size' = {}
      /\ Unlink({opened})
  BY DEF UnlinkFile, history
<1>1. {opened} \in SUBSET Files
  BY <1>t, <1>u, Types
<1>2. /\ flag' \in [Results -> {"none", "1", "0"}]
      /\ slot' \in [Files -> Slots \union {0}]
      /\ \A r \in Results : IF FileOf(r) \in {opened} THEN flag'[r] = "none"
                            ELSE /\ flag'[r] = flag[r]
                                 /\ slot'[FileOf(r)] = slot[FileOf(r)]
  BY <1>1, <1>t, <1>u, UnlinkType, Types
<1>3. TypeOK'
  BY <1>2, <1>t, <1>u, Types DEF TypeOK
<1>4. SavedFirst' /\ OnFile' /\ OpenFile' /\ FirstMatch' /\ MarkIsSent'
  BY <1>2, <1>t, <1>u
     DEF SavedFirst, OnItsWay, OnFile, OpenFile, FirstMatch, MarkIsSent
<1>5. UnsentOnlyInRace'
  <2> SUFFICES ASSUME NEW r \in saved
               PROVE  \/ flag'[r] = "1" \/ sent[r] > 0
                      \/ r \in raced \union shadowed \union evicted
    BY <1>u DEF UnsentOnlyInRace
  <2>1. r \in Results
    BY <1>t, Types
  <2>2. CASE FileOf(r) = opened /\ flag[r] = "1"
    BY <2>1, <2>2, <1>t, <1>u DEF OpenFile, Records
  <2>3. CASE ~(FileOf(r) = opened /\ flag[r] = "1")
    BY <2>1, <2>3, <1>2, <1>t DEF UnsentOnlyInRace
  <2> QED
    BY <2>2, <2>3
<1>6. Again'
  BY <1>2, <1>t, <1>u DEF Again, Excused
<1>7. ResentOnlyInMixup' /\ Buffer' /\ TailOnlyOfFailed'
  BY <1>t, <1>u DEF ResentOnlyInMixup, Buffer, TailOnlyOfFailed
<1> QED
  BY <1>3, <1>4, <1>5, <1>6, <1>7 DEF Inv

\* Going on to the next directory, or ending the pass, keeps the invariant.
LEMMA DeleteEndsInv == Inv /\ DeleteEnds => Inv'
<1> SUFFICES ASSUME Inv, DeleteEnds PROVE Inv'
  OBVIOUS
<1>t. /\ TypeOK /\ SavedFirst /\ OnFile /\ OpenFile /\ FirstMatch /\ MarkIsSent
      /\ Again /\ Buffer
      /\ UnsentOnlyInRace /\ ResentOnlyInMixup /\ TailOnlyOfFailed
  BY DEF Inv
<1>u. /\ UNCHANGED <<flag, slot, ecu_flag, data, opened, size, healthy, saved,
                     sent, failed, raced, shadowed, evicted, cutshort>>
      /\ pc = "delete" /\ opened = NoFile /\ cur' = 0
      /\ pc' \in {"search", "idle"} /\ dir' \in {dir, "inv"}
  BY DEF DeleteEnds, disk, history
<1>1. TypeOK'
  <2>1. dir' \in Dirs
    BY <1>t, <1>u, Types DEF Dirs
  <2> QED
    BY <2>1, <1>t, <1>u, Types DEF TypeOK
<1>2. /\ SavedFirst' /\ OnFile' /\ OpenFile' /\ FirstMatch' /\ MarkIsSent'
      /\ Buffer' /\ TailOnlyOfFailed'
  BY <1>t, <1>u
     DEF SavedFirst, OnItsWay, OnFile, FileOf, OpenFile, FirstMatch, MarkIsSent,
         Buffer, TailOnlyOfFailed
<1>3. Again' /\ UnsentOnlyInRace' /\ ResentOnlyInMixup'
  BY <1>t, <1>u DEF Again, Excused, UnsentOnlyInRace, ResentOnlyInMixup
<1> QED
  BY <1>1, <1>2, <1>3 DEF Inv

\* A reset keeps the invariant: the result on its way to be marked is noted
\* as cut short.
LEMMA RebootInv == Inv /\ reboot => Inv'
<1> SUFFICES ASSUME Inv, reboot PROVE Inv'
  OBVIOUS
<1>t. /\ TypeOK /\ SavedFirst /\ OnFile /\ OpenFile /\ FirstMatch /\ MarkIsSent
      /\ Again /\ Buffer
      /\ UnsentOnlyInRace /\ ResentOnlyInMixup /\ TailOnlyOfFailed
  BY DEF Inv
<1>u. /\ UNCHANGED <<flag, slot, healthy, saved, sent, raced, shadowed, evicted>>
      /\ ecu_flag' \in BOOLEAN
      /\ pc' = "idle" /\ dir' = "ecu" /\ cur' = 0
      /\ data' = {} /\ opened' = NoFile /\ size' = {} /\ failed' = {}
      /\ cutshort' = IF pc = "mark" THEN cutshort \union {cur} ELSE cutshort
  BY DEF reboot, disk
<1>1. pc = "mark" => cur \in Results
  BY <1>t, Types DEF SavedFirst, OnItsWay
<1>2. cutshort \subseteq cutshort' /\ cutshort' \subseteq Results
  BY <1>1, <1>t, <1>u, Types
<1>3. TypeOK'
  <2>1. dir' \in Dirs
    BY <1>u DEF Dirs
  <2> QED
    BY <2>1, <1>2, <1>t, <1>u, Types DEF TypeOK
<1>4. /\ SavedFirst' /\ OnFile' /\ OpenFile' /\ FirstMatch' /\ MarkIsSent'
      /\ Buffer' /\ TailOnlyOfFailed'
  BY <1>t, <1>u
     DEF SavedFirst, OnItsWay, OnFile, FileOf, OpenFile, FirstMatch, MarkIsSent,
         Buffer, TailOnlyOfFailed
<1>5. Again'
  <2>1. \A r \in Results : Excused(r) => Excused(r)'
    BY <1>2, <1>u DEF Excused
  <2>2. \A r \in Results : pc = "mark" /\ cur = r => Excused(r)'
    BY <1>u DEF Excused
  <2>3. \A r \in Results : sent[r] > 0 /\ flag[r] = "1" => Excused(r)'
    BY <2>1, <2>2, <1>t DEF Again
  <2> QED
    BY <2>3, <1>u DEF Again
<1>6. UnsentOnlyInRace' /\ ResentOnlyInMixup'
  BY <1>2, <1>t, <1>u DEF UnsentOnlyInRace, ResentOnlyInMixup
<1> QED
  BY <1>3, <1>4, <1>5, <1>6 DEF Inv

-----------------------------------------------------------------------------
(* The theorems.                                                            *)

\* A step that changes nothing but the network, or nothing, keeps the
\* invariant.
LEMMA QuietInv ==
  Inv /\ healthy' \in BOOLEAN /\ UNCHANGED <<disk, client, history>> => Inv'
<1> SUFFICES ASSUME Inv, healthy' \in BOOLEAN,
                    UNCHANGED <<flag, slot, ecu_flag, pc, dir, cur, data, opened,
                                size, saved, sent, failed, raced, shadowed,
                                evicted, cutshort>>
             PROVE  Inv'
  BY DEF disk, client, history
<1>1. TypeOK'
  BY Types DEF Inv, TypeOK
<1> QED
  BY <1>1
     DEF Inv, SavedFirst, OnItsWay, OnFile, FileOf, OpenFile, Records, FirstMatch,
         Matching, ToSend, Before, MarkIsSent, Again, Excused, Buffer,
         UnsentOnlyInRace, ResentOnlyInMixup, TailOnlyOfFailed

\* Every step keeps the invariant.
LEMMA NextInv == Inv /\ [Next]_vars => Inv'
<1> SUFFICES ASSUME Inv, [Next]_vars PROVE Inv'
  OBVIOUS
<1>1. CASE Main
  BY <1>1, SaveInv, OptimizeInv DEF Main
<1>2. CASE Begin
  BY <1>2, BeginInv
<1>3. CASE response_process_result
  BY <1>3, SearchInv, SentInv, NotSentInv, OpenMatchInv, WriteFlagInv, NoMatchInv,
     ScanFileInv, UnlinkFileInv, DeleteEndsInv
     DEF response_process_result
<1>4. CASE reboot
  BY <1>4, RebootInv
<1>5. CASE Stabilise
  BY <1>5, QuietInv DEF Stabilise
<1>6. CASE UNCHANGED vars
  <2>1. healthy \in BOOLEAN
    BY DEF Inv, TypeOK
  <2> QED
    BY <2>1, <1>6, QuietInv DEF vars
<1> QED
  BY <1>1, <1>2, <1>3, <1>4, <1>5, <1>6 DEF Next

\* The invariant holds in every run.
THEOREM Invariance == Spec => []Inv
<1>1. Init => Inv
  BY InitInv
<1>2. Inv /\ [Next]_vars => Inv'
  BY NextInv
<1> QED
  BY <1>1, <1>2, PTL DEF Spec

\* The variables of the results keep their types.
THEOREM TypeCorrect == Spec => []TypeOK
<1>1. Inv => TypeOK
  BY DEF Inv
<1> QED
  BY <1>1, Invariance, PTL

\* response_process_result leaves a result unsent only when space ran out, the
\* result was appended to a file it had open, or another got its mark.
THEOREM UnsentIsRaced == Spec => []UnsentOnlyInRace
<1>1. Inv => UnsentOnlyInRace
  BY DEF Inv
<1> QED
  BY <1>1, Invariance, PTL

\* It sends a result again only after a reset between sending and marking, or
\* when another with its item got its mark.
THEOREM ResentIsMixedUp == Spec => []ResentOnlyInMixup
<1>1. Inv => ResentOnlyInMixup
  BY DEF Inv
<1> QED
  BY <1>1, Invariance, PTL

\* The buffer that is sent has text of one result only, and of those of this
\* pass that could not be sent.
THEOREM TailIsOfFailed == Spec => []TailOnlyOfFailed
<1>1. Inv => TailOnlyOfFailed
  BY DEF Inv
<1> QED
  BY <1>1, Invariance, PTL

=============================================================================
