-------------------------- MODULE Settings_proofs --------------------------
(***************************************************************************)
(* The hand-over of settings, for every set of inverters and values and    *)
(* any number of commands and resets.                                      *)
(***************************************************************************)
EXTENDS Settings, TLAPS

\* What the main thread has in its hands is a line of the file it works off,
\* with the value of the latest command; when it comes to clear the flag the
\* setting has been sent.
Hand ==
  mpc \in {"send", "clear"} =>
    /\ cur \in Line /\ cur[1] = kind
    /\ val = last[cur]
    /\ mpc = "clear" => kind \in SendFirst /\ fate[cur] # "owed"

\* A pending line has the value of the latest command.
Fresh == \A l \in Line : Pending(l) => file[l] = last[l]

\* A kind that is sent first stays pending until it has been sent; of the
\* others a pending line has not been taken up yet.
Kept ==
  \A l \in Line :
    IF l[1] \in SendFirst THEN fate[l] = "owed" => Pending(l)
                          ELSE Pending(l) => served[l] = 0

\* The inductive invariant.
Inv == TypeOK /\ Hand /\ Fresh /\ NoneForgotten /\ Kept /\ OnceOrNotLost

\* A command names lines that exist.
LEMMA OrderedLines == \A k \in Kind : Ordered(k) \subseteq SUBSET Line
<1> SUFFICES ASSUME NEW k \in Kind, NEW S \in Ordered(k)
             PROVE  S \subseteq Line
  OBVIOUS
<1>1. CASE k \in Single
  BY <1>1 DEF Ordered, Lines
<1>2. CASE k \notin Single
  BY <1>2 DEF Ordered, Kind, Line
<1> QED
  BY <1>1, <1>2

LEMMA PowerFactorLine == <<"propa", PF>> \in Line
  BY DEF Line

LEMMA ValuesAreValues == \A k \in Kind : Values(k) \subseteq AnyValue
  BY DEF Values, AnyValue

LEMMA NoneIsNoValue == NONE \notin AnyValue
  BY NamesAssumption DEF AnyValue

\* Nothing is commanded when the ECU starts for the first time.
LEMMA InitInv == Init => Inv
  BY BoundAssumption DEF Init, Inv, TypeOK, Hand, Fresh, NoneForgotten, Kept,
     OnceOrNotLost, Pending, InHand, Fate

-----------------------------------------------------------------------------
(***************************************************************************)
(* The handlers.                                                           *)
(***************************************************************************)
LEMMA OverwriteInv ==
  ASSUME Inv, NEW k, NEW S \in SUBSET Line, NEW f \in [S -> AnyValue],
         Overwrite(k, f)
  PROVE  Inv'
<1> USE DEF Inv
<1>0. /\ mpc \in {"poll", "enter"} /\ mpc' = mpc
      /\ UNCHANGED <<know, stage, cur, val, tries, resets>>
      /\ commands < MaxCommands /\ commands' = commands + 1
      /\ DOMAIN f = S /\ \A l \in S : f[l] \in AnyValue
  BY DEF Overwrite, Accept, Free, main
<1>1. /\ file' = [l \in Line |-> IF l \in S THEN f[l]
                                 ELSE IF l[1] = k THEN NONE ELSE file[l]]
      /\ fate' = [l \in Line |-> IF l \in S THEN "owed"
                                 ELSE IF l[1] = k /\ Pending(l) THEN "replaced"
                                 ELSE fate[l]]
      /\ last' = [l \in Line |-> IF l \in S THEN f[l] ELSE last[l]]
      /\ served' = [l \in Line |-> IF l \in S THEN 0 ELSE served[l]]
  BY <1>0 DEF Overwrite, Accept
<1>2. TypeOK'
  BY <1>0, <1>1, BoundAssumption DEF TypeOK, Fate
<1>3. Hand'
  BY <1>0 DEF Hand
<1>4. Fresh'
  BY <1>1 DEF Fresh, Pending
<1>5. NoneForgotten'
  BY <1>0, <1>1 DEF NoneForgotten, InHand, Fresh, Pending, TypeOK
<1>6. Kept' /\ OnceOrNotLost'
  BY <1>0, <1>1, NoneIsNoValue DEF Kept, OnceOrNotLost, Pending, TypeOK
<1> QED
  BY <1>2, <1>3, <1>4, <1>5, <1>6

LEMMA InsertInv ==
  ASSUME Inv, NEW S \in SUBSET Line, NEW f \in [S -> AnyValue], Insert(f)
  PROVE  Inv'
<1> USE DEF Inv
<1>0. /\ mpc \in {"poll", "enter"} /\ mpc' = mpc
      /\ UNCHANGED <<know, stage, cur, val, tries, resets>>
      /\ commands < MaxCommands /\ commands' = commands + 1
      /\ DOMAIN f = S /\ \A l \in S : f[l] \in AnyValue
  BY DEF Insert, Accept, Free, main
<1>1. /\ file' = [l \in Line |-> IF l \in S THEN f[l] ELSE file[l]]
      /\ fate' = [l \in Line |-> IF l \in S THEN "owed" ELSE fate[l]]
      /\ last' = [l \in Line |-> IF l \in S THEN f[l] ELSE last[l]]
      /\ served' = [l \in Line |-> IF l \in S THEN 0 ELSE served[l]]
  BY <1>0 DEF Insert, Accept
<1>2. TypeOK'
  BY <1>0, <1>1, BoundAssumption DEF TypeOK, Fate
<1>3. Hand'
  BY <1>0 DEF Hand
<1>4. Fresh'
  BY <1>1 DEF Fresh, Pending
<1>5. NoneForgotten'
  BY <1>0, <1>1 DEF NoneForgotten, InHand
<1>6. Kept' /\ OnceOrNotLost'
  BY <1>0, <1>1, NoneIsNoValue DEF Kept, OnceOrNotLost, Pending, TypeOK
<1> QED
  BY <1>2, <1>3, <1>4, <1>5, <1>6

LEMMA CommandInv == Inv /\ Command => Inv'
<1> SUFFICES ASSUME Inv, Command PROVE Inv'
  OBVIOUS
<1>1. ASSUME NEW k \in Kind \ {"ird"}, NEW S \in Ordered(k),
             NEW f \in [S -> Values(k)], Overwrite(k, f)
      PROVE  Inv'
  <2>1. S \in SUBSET Line /\ f \in [S -> AnyValue]
    BY OrderedLines, ValuesAreValues
  <2> QED
    BY <1>1, <2>1, OverwriteInv
<1>2. ASSUME NEW S \in Ordered("ird") \cup {{<<"propa", PF>>}},
             NEW f \in [S -> Value], Insert(f)
      PROVE  Inv'
  <2>1. "ird" \in Kind
    BY DEF Kind, Single
  <2>2. S \in SUBSET Line /\ f \in [S -> AnyValue]
    BY <2>1, OrderedLines, PowerFactorLine DEF AnyValue
  <2> QED
    BY <1>2, <2>2, InsertInv
<1> QED
  BY <1>1, <1>2 DEF Command

-----------------------------------------------------------------------------
(***************************************************************************)
(* The main thread.                                                        *)
(***************************************************************************)
\* Steps that touch neither a file nor what became of a command, and leave
\* nothing in the hands of the main thread.
LEMMA IdleInv ==
  ASSUME Inv, TypeOK', UNCHANGED <<file, last, fate, served>>,
         mpc \notin {"send", "clear"}, mpc' \notin {"send", "clear"}
  PROVE  Inv'
<1>1. Hand'
  BY DEF Hand
<1>2. Fresh' /\ Kept' /\ OnceOrNotLost'
  BY DEF Inv, Fresh, Kept, OnceOrNotLost, Pending
<1>3. NoneForgotten'
  BY DEF Inv, NoneForgotten, InHand
<1> QED
  BY <1>1, <1>2, <1>3 DEF Inv

LEMMA WalkInv == Inv /\ (process_all \/ Take \/ Leave) => Inv'
<1> SUFFICES ASSUME Inv, process_all \/ Take \/ Leave PROVE Inv'
  OBVIOUS
<1>1. TypeOK' /\ UNCHANGED <<file, last, fate, served>>
  BY DEF Inv, TypeOK, process_all, Take, Leave, ghost
<1>2. mpc \notin {"send", "clear"} /\ mpc' \notin {"send", "clear"}
  BY DEF process_all, Take, Leave
<1> QED
  BY <1>1, <1>2, IdleInv

LEMMA LearnInv ==
  ASSUME Inv, NEW i \in Inverter, Learn(i)
  PROVE  Inv'
<1>1. know' \in [Inverter -> Know]
  <2>1. CASE ~know[i].addr /\ know' = [know EXCEPT ![i].addr = TRUE]
    BY <2>1, ZenonT(30) DEF Inv, TypeOK, Learn, Know
  <2>2. CASE \E m \in {"part", "full"} : know' = [know EXCEPT ![i].model = m]
    BY <2>2 DEF Inv, TypeOK, Learn, Know
  <2> QED
    BY <2>1, <2>2 DEF Learn
<1>2. TypeOK' /\ UNCHANGED <<file, last, fate, served>>
  BY <1>1 DEF Inv, TypeOK, Learn, main, ghost
<1>3. mpc \notin {"send", "clear"} /\ mpc' \notin {"send", "clear"}
  BY DEF Learn, main
<1> QED
  BY <1>2, <1>3, IdleInv

LEMMA SkipInv ==
  ASSUME Inv, NEW l \in Line, Skip(l)
  PROVE  Inv'
<1> USE DEF Inv
<1>1. /\ mpc = "loop" /\ UNCHANGED <<know, mpc, stage, cur, val, tries, last,
                                     served, commands, resets>>
      /\ file' = [file EXCEPT ![l] = NONE]
      /\ fate' = [fate EXCEPT ![l] = "skipped"]
  BY DEF Skip, main, Emptied
<1>2. TypeOK'
  BY <1>1 DEF TypeOK, Fate
<1>3. Hand' /\ Fresh'
  BY <1>1 DEF Hand, Fresh, Pending, TypeOK
<1>4. NoneForgotten'
  BY <1>1 DEF NoneForgotten, InHand, TypeOK
<1>5. Kept' /\ OnceOrNotLost'
  BY <1>1 DEF Kept, OnceOrNotLost, Pending, TypeOK
<1> QED
  BY <1>2, <1>3, <1>4, <1>5

LEMMA PickInv ==
  ASSUME Inv, NEW l \in Line, Pick(l)
  PROVE  Inv'
<1> USE DEF Inv
<1>1. /\ mpc = "loop" /\ Pending(l) /\ l[1] = kind
      /\ mpc' = "send" /\ cur' = l /\ val' = file[l] /\ tries' = 0
      /\ file' = IF l[1] \in SendFirst THEN file ELSE [file EXCEPT ![l] = NONE]
      /\ served' = [served EXCEPT ![l] = @ + 1]
      /\ UNCHANGED <<know, stage, last, fate, commands, resets>>
  BY DEF Pick, Emptied, Lines
<1>2. TypeOK'
  BY <1>1 DEF TypeOK
<1>3. Hand'
  BY <1>1 DEF Hand, Fresh, TypeOK, kind
<1>4. Fresh'
  BY <1>1 DEF Fresh, Pending, TypeOK
<1>5. NoneForgotten'
  <2> SUFFICES ASSUME NEW m \in Line, fate'[m] = "owed"
               PROVE  file'[m] = last'[m] \/ (InHand(m)' /\ val' = last'[m])
    BY DEF NoneForgotten
  <2>1. CASE m = l
    BY <1>1, <2>1 DEF InHand, Fresh
  <2>2. CASE m # l
    BY <1>1, <2>2 DEF NoneForgotten, InHand, TypeOK
  <2> QED
    BY <2>1, <2>2
<1>6. Kept' /\ OnceOrNotLost'
  BY <1>1 DEF Kept, OnceOrNotLost, Pending, TypeOK
<1> QED
  BY <1>2, <1>3, <1>4, <1>5, <1>6

LEMMA SendInv == Inv /\ Send => Inv'
<1> SUFFICES ASSUME Inv, mpc = "send", NEW A \in SUBSET Reachable, Answer(A)
             PROVE  Inv'
  BY DEF Send
<1> USE DEF Inv
<1>1. /\ file' = [l \in Line |-> IF l \in Erased(A) THEN NONE ELSE file[l]]
      /\ UNCHANGED <<know, stage, last, served, commands, resets>>
      /\ tries' \in 0..2
      /\ \/ mpc' = "send" /\ UNCHANGED <<cur, val>>
         \/ mpc' = "clear" /\ kind \in SendFirst /\ UNCHANGED <<cur, val>>
         \/ mpc' = "loop" /\ cur' = NONE /\ val' = NONE
  BY DEF Answer, TypeOK, Attempts
<1>2. PICK x \in {"sent", "skipped"} :
        fate' = [l \in Line |-> IF l \in Erased(A) THEN "erased"
                                ELSE IF l = cur THEN x ELSE fate[l]]
  BY DEF Answer
<1>3. cur \in Line /\ cur[1] = kind /\ val = last[cur]
  BY DEF Hand
<1>4. TypeOK'
  BY <1>1, <1>2, <1>3 DEF TypeOK, Fate
<1>5. Hand'
  BY <1>1, <1>2, <1>3 DEF Hand, kind
<1>6. Fresh'
  BY <1>1 DEF Fresh, Pending
<1>7. NoneForgotten'
  BY <1>1, <1>2 DEF NoneForgotten, InHand
<1>8. Kept' /\ OnceOrNotLost'
  BY <1>1, <1>2 DEF Kept, OnceOrNotLost, Pending
<1> QED
  BY <1>4, <1>5, <1>6, <1>7, <1>8

LEMMA ClearInv == Inv /\ Clear => Inv'
<1> SUFFICES ASSUME Inv, Clear PROVE Inv'
  OBVIOUS
<1> USE DEF Inv
<1>1. /\ mpc = "clear" /\ mpc' = "loop" /\ cur' = NONE /\ val' = NONE
      /\ file' = [file EXCEPT ![cur] = NONE]
      /\ UNCHANGED <<know, stage, tries, last, fate, served, commands, resets>>
  BY DEF Clear, Emptied, ghost
<1>2. cur \in Line /\ fate[cur] # "owed"
  BY <1>1 DEF Hand
<1>3. TypeOK'
  BY <1>1, <1>2 DEF TypeOK
<1>4. Hand' /\ Fresh'
  BY <1>1 DEF Hand, Fresh, Pending, TypeOK
<1>5. NoneForgotten'
  BY <1>1, <1>2 DEF NoneForgotten, InHand, TypeOK
<1>6. Kept' /\ OnceOrNotLost'
  BY <1>1, <1>2 DEF Kept, OnceOrNotLost, Pending, TypeOK
<1> QED
  BY <1>3, <1>4, <1>5, <1>6

\* A reset keeps what is pending in a file that is not torn, and loses what
\* was cleared and not sent.
LEMMA ResetInv ==
  ASSUME Inv, NEW torn, Reset(torn)
  PROVE  Inv'
<1> USE DEF Inv
<1>1. /\ mpc' = "poll" /\ stage' = 1 /\ cur' = NONE /\ val' = NONE /\ tries' = 0
      /\ resets < MaxResets /\ resets' = resets + 1
      /\ UNCHANGED <<last, served, commands>>
      /\ file' = [l \in Line |-> IF l[1] \in torn THEN NONE ELSE file[l]]
      /\ fate' = [l \in Line |-> IF fate[l] # "owed" THEN fate[l]
                                 ELSE IF ~Pending(l) THEN "cut"
                                 ELSE IF l[1] \in torn THEN "torn" ELSE "owed"]
  BY DEF Reset
<1>2. know' \in [Inverter -> Know]
  BY DEF Reset, TypeOK, Know
<1>3. TypeOK'
  BY <1>1, <1>2, BoundAssumption DEF TypeOK, Fate
<1>4. Hand' /\ Fresh'
  BY <1>1 DEF Hand, Fresh, Pending
<1>5. NoneForgotten'
  BY <1>1 DEF NoneForgotten, Fresh, Pending
<1>6. Kept' /\ OnceOrNotLost'
  BY <1>1 DEF Kept, OnceOrNotLost, Pending
<1> QED
  BY <1>3, <1>4, <1>5, <1>6

-----------------------------------------------------------------------------
LEMMA NextInv == Inv /\ [Next]_vars => Inv'
<1> SUFFICES ASSUME Inv, [Next]_vars PROVE Inv'
  OBVIOUS
<1>1. CASE UNCHANGED vars
  BY <1>1 DEF vars, Inv, TypeOK, Hand, Fresh, NoneForgotten, Kept,
     OnceOrNotLost, Pending, InHand, kind
<1>2. CASE Main
  BY <1>2, WalkInv, SkipInv, PickInv, SendInv, ClearInv DEF Main
<1>3. CASE Command
  BY <1>3, CommandInv
<1>4. CASE \E i \in Inverter : Learn(i)
  BY <1>4, LearnInv
<1>5. CASE \E torn \in {{}} \cup {{k} : k \in InRewrite} : Reset(torn)
  BY <1>5, ResetInv
<1> QED
  BY <1>1, <1>2, <1>3, <1>4, <1>5 DEF Next, Spin

LEMMA Invariance == Spec => []Inv
  BY InitInv, NextInv, PTL DEF Spec

\* The files, the state of the main thread and the fates keep their types.
THEOREM Typing == Spec => []TypeOK
<1>1. Inv => TypeOK
  BY DEF Inv
<1> QED
  BY Invariance, <1>1, PTL

\* No command is forgotten: it stays in its file with its value until the main
\* thread has it, whatever else is cleared.
THEOREM NothingForgotten == Spec => []NoneForgotten
<1>1. Inv => NoneForgotten
  BY DEF Inv
<1> QED
  BY Invariance, <1>1, PTL

\* The inverter is sent the latest command, never one read before it.
THEOREM SendsLatest == Spec => []LatestSent
<1>1. Inv => LatestSent
  BY DEF Inv, Hand, LatestSent
<1> QED
  BY Invariance, <1>1, PTL

\* Over resets, a kind that is cleared first is taken up at most once and one
\* that is sent first is not lost in hand.
THEOREM AtMostOrAtLeastOnce == Spec => []OnceOrNotLost
<1>1. Inv => OnceOrNotLost
  BY DEF Inv
<1> QED
  BY Invariance, <1>1, PTL
=============================================================================
