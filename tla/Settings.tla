------------------------------ MODULE Settings ------------------------------
(***************************************************************************)
(* Settings of the inverters, handed over through files.                   *)
(*                                                                         *)
(* The handlers of the control client write what the EMA commands as lines *)
(* of a file per kind of setting.  The main thread works the files off in  *)
(* process_all, before it polls an inverter and at the end of a round: it  *)
(* reads a pending line, sends it and clears it, or clears it first.  Each *)
(* handler and each function of process_all holds record_data_lock, so     *)
(* commands arrive only between two functions.  The files outlive a reset. *)
(*                                                                         *)
(* delete_line writes the lines it keeps to a second file, removes the     *)
(* first and renames the second: a reset in between leaves no file.  Some  *)
(* functions read values back and store them in the line of the inverter,  *)
(* by which they clear a setting that is pending there.                    *)
(*                                                                         *)
(* What is abstracted: a line is pending with its value, or NONE; lines    *)
(* with the flag 0 and the results in them are left out.  The order of the *)
(* lines is left open.  A line of setpropi is one parameter.               *)
(***************************************************************************)
EXTENDS Naturals, Sequences, FiniteSets

CONSTANTS Inverter,     \* the ids the EMA names, in the list or not
          Value,        \* the values of settings
          Hard,         \* of these, a limit of 0 and a voltage parameter
          ASK,          \* the value of a line that has none: clear or read
          ALL,          \* the one line of a file about all inverters
          PF,           \* the line power_factor of setpropa
          NONE,         \* no value, no line
          MaxCommands,  \* bound: commands of the EMA
          MaxResets     \* bound: resets

ASSUME NamesAssumption == /\ ALL \notin Inverter /\ PF \notin Inverter
                          /\ ALL # PF /\ NONE \notin Value /\ NONE # ASK
                          /\ Hard \subseteq Value
ASSUME BoundAssumption == MaxCommands \in Nat /\ MaxResets \in Nat

\* The functions of process_all, by the file each works off.
Stages == <<"power", "getpower", "irdall", "getird", "ird", "onoff", "gfdi",
            "propa", "getprot", "prot">>

Single == {"power", "ird", "onoff", "gfdi", "prot"}
Whole == {"getpower", "irdall", "getird", "propa", "getprot"}
Kind == Single \cup Whole

\* The lines there can be, as <<kind, who>>.
Line == (Single \X Inverter) \cup (Whole \X {ALL}) \cup {<<"propa", PF>>}
Lines(k) == {l \in Line : l[1] = k}

\* The values lines of kind k can have.
Values(k) == IF k \in {"gfdi", "getpower", "getird", "getprot"} THEN {ASK} ELSE Value
AnyValue == Value \cup {ASK}

\* Kinds whose flag is cleared after the setting is sent, not before.
SendFirst == {"getpower", "propa", "getprot", "prot"}

\* What the ECU knows of an inverter: whether it is in the list, whether it
\* has a short address, and its model: not known, a YC600 whose second model
\* number is not known, or known.
Know == {r \in [listed : BOOLEAN, addr : BOOLEAN, model : {"no", "part", "full"}] :
           r.listed \/ (~r.addr /\ r.model = "no")}

\* What became of the latest command for a line.
Fate == {"none", "owed", "sent", "skipped", "replaced", "erased", "cut", "torn"}

VARIABLES
  file,     \* file[l]: the pending value of line l, or NONE
  know,     \* know[i]: what the ECU knows of inverter i
  mpc,      \* where the main thread is
  stage,    \* the function of process_all it runs or runs next
  cur,      \* the line it works on, or NONE
  val,      \* the value it read from that line
  tries,    \* how often it has sent it in this attempt
  last,     \* last[l]: the value of the latest command for l, or NONE
  fate,     \* fate[l]: what became of that command
  served,   \* served[l]: how often the main thread took that command up
  commands, resets   \* counters of the bounds

main == <<mpc, stage, cur, val, tries>>
ghost == <<last, fate, served>>
vars == <<file, know, mpc, stage, cur, val, tries, last, fate, served,
          commands, resets>>

kind == Stages[stage]

\* The type invariant.
TypeOK ==
  /\ file \in [Line -> AnyValue \cup {NONE}]
  /\ know \in [Inverter -> Know]
  /\ mpc \in {"poll", "enter", "loop", "send", "clear"}
  /\ stage \in 1..10
  /\ cur \in Line \cup {NONE}
  /\ val \in AnyValue \cup {NONE}
  /\ tries \in 0..2
  /\ last \in [Line -> AnyValue \cup {NONE}]
  /\ fate \in [Line -> Fate]
  /\ served \in [Line -> Nat]
  /\ commands \in 0..MaxCommands
  /\ resets \in 0..MaxResets

Init ==
  /\ file = [l \in Line |-> NONE]
  /\ know \in [Inverter -> Know]
  /\ mpc = "poll" /\ stage = 1 /\ cur = NONE /\ val = NONE /\ tries = 0
  /\ last = [l \in Line |-> NONE]
  /\ fate = [l \in Line |-> "none"]
  /\ served = [l \in Line |-> 0]
  /\ commands = 0 /\ resets = 0

Pending(l) == file[l] # NONE

\* Slip: a handler does not take record_data_lock.
FreeAlways == TRUE

\* record_data_lock is free: the main thread polls or is between two functions.
Free == mpc \in {"poll", "enter"}

-----------------------------------------------------------------------------
(***************************************************************************)
(* The handlers of the control client.  f gives the lines of the command   *)
(* their values.                                                           *)
(***************************************************************************)
Accept(f) ==
  /\ Free
  /\ commands < MaxCommands
  /\ commands' = commands + 1
  /\ last' = [l \in Line |-> IF l \in DOMAIN f THEN f[l] ELSE last[l]]
  /\ served' = [l \in Line |-> IF l \in DOMAIN f THEN 0 ELSE served[l]]
  /\ UNCHANGED <<know, main, resets>>

\* The file is truncated and written anew: set_inverter_maxpower,
\* set_inverter_onoff, clear_inverter_gfdi, set_inverter_ac_protection_17,
\* set_inverter_ird for all inverters, and the requests to read.
Overwrite(k, f) ==
  /\ Accept(f)
  /\ file' = [l \in Line |-> IF l \in DOMAIN f THEN f[l]
                             ELSE IF l[1] = k THEN NONE ELSE file[l]]
  /\ fate' = [l \in Line |-> IF l \in DOMAIN f THEN "owed"
                             ELSE IF l[1] = k /\ Pending(l) THEN "replaced"
                             ELSE fate[l]]

\* The lines are replaced and the others stay: set_inverter_ird for named
\* inverters and set_all_inverter_power_factor.
Insert(f) ==
  /\ Accept(f)
  /\ file' = [l \in Line |-> IF l \in DOMAIN f THEN f[l] ELSE file[l]]
  /\ fate' = [l \in Line |-> IF l \in DOMAIN f THEN "owed" ELSE fate[l]]

\* The lines of a command of kind k: some inverters, or all.
Ordered(k) == IF k \in Single THEN (SUBSET Lines(k)) \ {{}} ELSE {{<<k, ALL>>}}

Command ==
  \/ \E k \in Kind \ {"ird"} : \E S \in Ordered(k) : \E f \in [S -> Values(k)] :
       Overwrite(k, f)
  \/ \E S \in Ordered("ird") \cup {{<<"propa", PF>>}} : \E f \in [S -> Value] :
       Insert(f)

-----------------------------------------------------------------------------
(***************************************************************************)
(* process_all.                                                            *)
(***************************************************************************)
\* The main thread reaches process_all.
process_all ==
  /\ mpc = "poll"
  /\ mpc' = "enter" /\ stage' = 1
  /\ UNCHANGED <<file, know, cur, val, tries, ghost, commands, resets>>

\* Between two calls it learns the address of an inverter of its list, its
\* model, or the second number of the model.
Learn(i) ==
  /\ mpc = "poll"
  /\ know[i].listed
  /\ \/ ~know[i].addr /\ know' = [know EXCEPT ![i].addr = TRUE]
     \/ /\ know[i].addr /\ know[i].model # "full"
        /\ \E m \in {"part", "full"} \ {know[i].model} :
             know' = [know EXCEPT ![i].model = m]
  /\ UNCHANGED <<file, main, ghost, commands, resets>>

\* A function takes record_data_lock.
Take ==
  /\ mpc = "enter"
  /\ mpc' = "loop"
  /\ UNCHANGED <<file, know, stage, cur, val, tries, ghost, commands, resets>>

\* Slip: process_all ends before the last function.
LeaveEarly ==
  /\ mpc = "loop"
  /\ \A l \in Lines(kind) : ~Pending(l)
  /\ stage' = IF stage = 9 THEN 1 ELSE stage + 1
  /\ mpc' = IF stage = 9 THEN "poll" ELSE IF kind = "propa" THEN "loop" ELSE "enter"
  /\ UNCHANGED <<file, know, cur, val, tries, ghost, commands, resets>>

\* No line is pending: the function releases the lock.  Only
\* set_protection_parameters goes on to the file presdata.con under it.
Leave ==
  /\ mpc = "loop"
  /\ \A l \in Lines(kind) : ~Pending(l)
  /\ stage' = IF stage = 10 THEN 1 ELSE stage + 1
  /\ mpc' = IF stage = 10 THEN "poll" ELSE IF kind = "propa" THEN "loop" ELSE "enter"
  /\ UNCHANGED <<file, know, cur, val, tries, ghost, commands, resets>>

\* The loop reads this line and neither sends nor clears it: a limit for an
\* inverter that is not in the list or a limit of 0; a parameter for an
\* inverter with an address whose model is not known, or a voltage for a
\* YC600 whose second number is not known.
StuckLine(l) ==
  /\ Pending(l)
  /\ \/ l[1] = "power" /\ (~know[l[2]].listed \/ file[l] \in Hard)
     \/ /\ l[1] = "prot" /\ know[l[2]].addr
        /\ \/ know[l[2]].model = "no"
           \/ know[l[2]].model = "part" /\ file[l] \in Hard

\* Whether a line that is not stuck is sent, or cleared only.
Sends(l) ==
  \/ l[1] \in Whole
  \/ l[1] = "power" /\ know[l[2]].model # "no"
  \/ l[1] \in {"ird", "prot"} /\ know[l[2]].addr
  \/ l[1] \in {"onoff", "gfdi"} /\ know[l[2]].listed

\* The loop reads the same line over and over, and holds the lock.
Spin ==
  /\ mpc = "loop"
  /\ \E l \in Lines(kind) : StuckLine(l)
  /\ UNCHANGED vars

\* Slip: delete_line keeps no line.
EmptiedAll(l) == [m \in Line |-> IF m[1] = l[1] THEN NONE ELSE file[m]]

\* delete_line keeps every other line.
Emptied(l) == [file EXCEPT ![l] = NONE]

\* The line is cleared and nothing is sent.
Skip(l) ==
  /\ mpc = "loop" /\ l \in Lines(kind)
  /\ Pending(l) /\ ~StuckLine(l) /\ ~Sends(l)
  /\ file' = Emptied(l)
  /\ fate' = [fate EXCEPT ![l] = "skipped"]
  /\ UNCHANGED <<know, main, last, served, commands, resets>>

\* Slip: the flag of every kind is cleared after the setting is sent.
PickKeeps(l) ==
  /\ mpc = "loop" /\ l \in Lines(kind)
  /\ Pending(l) /\ ~StuckLine(l) /\ Sends(l)
  /\ mpc' = "send" /\ cur' = l /\ val' = file[l] /\ tries' = 0
  /\ served' = [served EXCEPT ![l] = @ + 1]
  /\ UNCHANGED <<file, know, stage, last, fate, commands, resets>>

\* The line is read into memory, and cleared unless its kind is sent first.
Pick(l) ==
  /\ mpc = "loop" /\ l \in Lines(kind)
  /\ Pending(l) /\ ~StuckLine(l) /\ Sends(l)
  /\ mpc' = "send" /\ cur' = l /\ val' = file[l] /\ tries' = 0
  /\ file' = IF kind \in SendFirst THEN file ELSE Emptied(l)
  /\ served' = [served EXCEPT ![l] = @ + 1]
  /\ UNCHANGED <<know, stage, last, fate, commands, resets>>

\* The settings whose lines are rewritten with the flag 0 when the values of
\* all inverters are read back: updatemaxpower, resolve_ird, resolve_ird_DD.
Rewritten(k) == CASE k = "getpower" -> {"power"}
                  [] k \in {"irdall", "getird"} -> {"ird"}
                  [] OTHER -> {}

\* The inverters that may answer: those asked that have an address.
Reachable == {i \in Inverter : know[i].addr /\ cur[2] \in {i, ALL, PF}}

\* Slip: one attempt too many.
AttemptsFour(k) == IF k \in {"power", "onoff"} THEN 4 ELSE 1

\* A limit and a switch are sent until they are answered, at most three times.
Attempts(k) == IF k \in {"power", "onoff"} THEN 3 ELSE 1

Erased(A) == {l \in Line : l[1] \in Rewritten(kind) /\ l[2] \in A /\ Pending(l)}

\* The setting is sent, and the inverters in A answer what is read back.  A
\* broadcast goes out only if the inverters are of one model; which models
\* there are is left open.
Answer(A) ==
  /\ \E goes \in IF kind = "propa" THEN BOOLEAN ELSE {TRUE} :
       fate' = [l \in Line |-> IF l \in Erased(A) THEN "erased"
                               ELSE IF l = cur THEN IF goes THEN "sent" ELSE "skipped"
                               ELSE fate[l]]
  /\ file' = [l \in Line |-> IF l \in Erased(A) THEN NONE ELSE file[l]]
  /\ \/ /\ A = {} /\ tries + 1 < Attempts(kind)
        /\ tries' = tries + 1
        /\ UNCHANGED <<mpc, cur, val>>
     \/ /\ A # {} \/ tries + 1 = Attempts(kind)
        /\ tries' = 0
        /\ \/ kind \in SendFirst /\ mpc' = "clear" /\ UNCHANGED <<cur, val>>
           \/ kind \notin SendFirst /\ mpc' = "loop" /\ cur' = NONE /\ val' = NONE
  /\ UNCHANGED <<know, stage, last, served, commands, resets>>

Send == mpc = "send" /\ \E A \in SUBSET Reachable : Answer(A)

\* The flag is cleared after the setting was sent.
Clear ==
  /\ mpc = "clear"
  /\ mpc' = "loop" /\ cur' = NONE /\ val' = NONE
  /\ file' = Emptied(cur)
  /\ UNCHANGED <<know, stage, tries, ghost, commands, resets>>

-----------------------------------------------------------------------------
\* The files that may be rewritten at this moment: by the function that runs,
\* or by a handler if the lock is free.
InRewrite == IF Free THEN Kind ELSE {kind} \cup Rewritten(kind)

\* A reset.  The files in torn are lost between their removal and the
\* renaming.  The second number of a model is not stored.
Reset(torn) ==
  /\ resets < MaxResets
  /\ resets' = resets + 1
  /\ mpc' = "poll" /\ stage' = 1 /\ cur' = NONE /\ val' = NONE /\ tries' = 0
  /\ file' = [l \in Line |-> IF l[1] \in torn THEN NONE ELSE file[l]]
  /\ fate' = [l \in Line |-> IF fate[l] # "owed" THEN fate[l]
                             ELSE IF ~Pending(l) THEN "cut"
                             ELSE IF l[1] \in torn THEN "torn" ELSE "owed"]
  /\ \E Y \in SUBSET {i \in Inverter : know[i].model = "full"} :
       know' = [i \in Inverter |->
                  IF i \in Y THEN [know[i] EXCEPT !.model = "part"] ELSE know[i]]
  /\ UNCHANGED <<last, served, commands>>

Main ==
  \/ process_all \/ Take \/ Leave \/ Send \/ Clear
  \/ \E l \in Line : Skip(l) \/ Pick(l)

Next ==
  \/ Main \/ Spin
  \/ Command
  \/ \E i \in Inverter : Learn(i)
  \/ \E torn \in {{}} \cup {{k} : k \in InRewrite} : Reset(torn)

Spec == Init /\ [][Next]_vars

\* The main thread goes on as long as it is not in an endless loop.
FairSpec == Spec /\ WF_vars(Main)

-----------------------------------------------------------------------------
(***************************************************************************)
(* Properties.                                                             *)
(***************************************************************************)
InHand(l) == mpc \in {"send", "clear"} /\ cur = l

\* A command that was accepted and has not been sent, skipped, replaced by a
\* later command, erased by values read back or lost in a reset is pending
\* with its value or in the hands of the main thread: clearing one line never
\* takes another line with it.
NoneForgotten ==
  \A l \in Line : fate[l] = "owed" => file[l] = last[l] \/ (InHand(l) /\ val = last[l])

\* What the main thread sends is the latest command for that line, also
\* though it read the line some steps before: no handler gets in between.
LatestSent == mpc = "send" => val = last[cur]

\* A setting whose flag is cleared before it is sent is taken up at most once,
\* whatever resets there are; one that is cleared afterwards is never lost in
\* the hands of the main thread.
OnceOrNotLost ==
  \A l \in Line : IF l[1] \in SendFirst THEN fate[l] # "cut" ELSE served[l] <= 1

Stuck == \E l \in Line : StuckLine(l)

\* Once no more commands arrive every setting is worked off, unless a line the
\* loop cannot clear keeps the main thread and the lock.
WorkedOff == <>[](Stuck \/ \A l \in Line : ~Pending(l))
=============================================================================
