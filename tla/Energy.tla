------------------------------- MODULE Energy -------------------------------
(***************************************************************************)
(* How the energy of the inverters gets into the lifetime energy of the    *)
(* ECU.  An inverter counts, on each of its channels, the energy since it  *)
(* was started, and the seconds in 16 bits.  A round of the main thread    *)
(* takes the difference to the reading before (ECU/main/src/resolve.c,     *)
(* zigbee.c), writes the readings to collect.con and adds the energy of    *)
(* the round to LTPOWER (file.c, main-thread.c).  Both files are truncated *)
(* and written again; a reset of the board may come at any point, and      *)
(* starts from what the files hold.  FAT enters the length of a file when  *)
(* it is closed, so a file that was being written is then empty.  The      *)
(* energies of the system are sums over inverters and channels; here they  *)
(* are kept apart.  The six decimals of collect.con are modelled (Decimal);*)
(* those of LTPOWER lose nothing from 16 kWh on, where a float is coarser. *)
(***************************************************************************)
EXTENDS Integers

CONSTANTS Inverters,
          Models,      \* the models in use: 5 and 6 (YC1000), 7 (YC600)
          Channels,    \* the channels A to D
          Guarded,     \* the channels the YC1000's test for jumps looks at
          TimeWidth,   \* where the inverter's seconds start again: 65536
          JumpTime,    \* 14400 seconds
          JumpGen,     \* 1 kWh
          Wiped,       \* the channels cleared at the start of a round: A, B
          Grain,       \* the last decimal of collect.con, in counts
          MaxUp,       \* bound: how long an inverter runs after a start
          MaxEpoch     \* bound: how often an inverter is started again

ASSUME ModelsAssumption == /\ Models \subseteq {5, 6, 7}
                           /\ Guarded \subseteq Channels /\ Wiped \subseteq Channels
ASSUME WidthAssumption == /\ TimeWidth \in Nat \ {0} /\ Grain \in Nat \ {0}
                          /\ JumpTime \in Nat /\ JumpGen \in Nat
                          /\ MaxUp \in Nat /\ MaxEpoch \in Nat

VARIABLES
  \* the inverters
  model,       \* model[i], from the file id
  gen,         \* gen[i][c]: the energy of channel c since i was started
  up,          \* up[i]: the seconds since i was started
  epoch,       \* how often i was started again
  made,        \* made[i][c]: all the energy it ever produced
  \* the ECU's memory
  mpc,         \* the place of the main thread in its round
  dataflag,    \* i has been read in this round
  pre,         \* pre[i]: the reading before
  cur,         \* curgeneration: the energy of the round
  life,        \* ecu.life_energy
  \* the files
  collect,     \* collect.con, NoReading where it has no line
  ltpower,     \* LTPOWER
  cleared,     \* LTPOWER has been truncated and not been written yet
  \* what the properties look back on
  seen,        \* i has been read at some time
  want,        \* the energy of i between the two readings of this round
  doubt,       \* what stands against the reading of this round
  clean        \* no reading of i was ever in doubt of counting too much

inverter == <<model, gen, up, epoch, made>>
memory == <<mpc, dataflag, pre, cur, life>>
files == <<collect, ltpower, cleared>>
history == <<seen, want, doubt, clean>>
vars == <<inverter, memory, files, history>>

\* The inverters that are resolved as YC600.
YC600 == {i \in Inverters : model[i] = 7}

Zero == [c \in Channels |-> 0]
\* A reading: the counters, and (for the properties) whether they are the
\* inverter's own and not rounded.
NoReading == [gen |-> Zero, up |-> 0, epoch |-> -1, exact |-> TRUE]
Readings == [gen : [Channels -> Nat], up : Nat, epoch : Nat \union {-1},
             exact : BOOLEAN]

Init == /\ model \in [Inverters -> Models]
        /\ gen = [i \in Inverters |-> Zero] /\ made = [i \in Inverters |-> Zero]
        /\ up = [i \in Inverters |-> 0] /\ epoch = [i \in Inverters |-> 0]
        /\ mpc = "query"
        /\ dataflag = [i \in Inverters |-> FALSE]
        /\ pre = [i \in Inverters |-> NoReading]
        /\ cur = [i \in Inverters |-> Zero]
        /\ life = [i \in Inverters |-> Zero]
        /\ collect = [i \in Inverters |-> NoReading]
        /\ ltpower = [i \in Inverters |-> Zero] /\ cleared = FALSE
        /\ seen = [i \in Inverters |-> FALSE]
        /\ want = [i \in Inverters |-> Zero]
        /\ doubt = [i \in Inverters |-> {}]
        /\ clean = [i \in Inverters |-> TRUE]

-----------------------------------------------------------------------------
(* The inverters (external, as resolve.c reads them).                      *)

\* Time goes by, and the channels in S have sun.
Generate(i, S) ==
  /\ up[i] < MaxUp
  /\ up' = [up EXCEPT ![i] = @ + 1]
  /\ gen' = [gen EXCEPT ![i] = [c \in Channels |-> IF c \in S THEN @[c] + 1
                                                              ELSE @[c]]]
  /\ made' = [made EXCEPT ![i] = [c \in Channels |-> IF c \in S THEN @[c] + 1
                                                                ELSE @[c]]]
  /\ UNCHANGED <<model, epoch, memory, files, history>>

\* The inverter is started again, in the morning or after a failure.
Restart(i) ==
  /\ epoch[i] < MaxEpoch
  /\ epoch' = [epoch EXCEPT ![i] = @ + 1]
  /\ gen' = [gen EXCEPT ![i] = Zero]
  /\ up' = [up EXCEPT ![i] = 0]
  /\ UNCHANGED <<model, made, memory, files, history>>

-----------------------------------------------------------------------------
(* A reading.                                                              *)

\* curacctime and preacctime: two bytes.
acctime(u) == u % TimeWidth

Difference(i) == [c \in Channels |-> gen[i][c] - pre[i].gen[c]]

\* Slip: only the time is looked at to see that the inverter was restarted.
resolvedata_600_by_time(i) ==
  IF acctime(up[i]) >= acctime(pre[i].up) THEN Difference(i) ELSE gen[i]

\* Slip: only the counters are looked at.
resolvedata_600_by_gen(i) ==
  IF \A c \in Channels : gen[i][c] >= pre[i].gen[c] THEN Difference(i)
                                                    ELSE gen[i]

\* The energy of the round, YC600.
resolvedata_600(i) ==
  IF /\ \A c \in Channels : gen[i][c] >= pre[i].gen[c]
     /\ acctime(up[i]) >= acctime(pre[i].up)
    THEN Difference(i) ELSE gen[i]

\* YC1000: a reading that jumps is refused ...
Jumps(i) == /\ acctime(up[i]) - acctime(pre[i].up) < JumpTime
            /\ \E c \in Guarded : gen[i][c] - pre[i].gen[c] > JumpGen

\* ... and the comparisons are strict.
resolvedata_1000(i) ==
  IF /\ \A c \in Channels : gen[i][c] > pre[i].gen[c]
     /\ acctime(up[i]) > acctime(pre[i].up)
    THEN Difference(i) ELSE gen[i]

Resolved(i) == IF i \in YC600 THEN resolvedata_600(i) ELSE resolvedata_1000(i)

\* What i has really produced since the reading in pre, as far as its
\* counters still tell.
Produced(i) == IF pre[i].epoch = epoch[i] /\ pre[i].exact
                 THEN Difference(i) ELSE gen[i]

\* What stands against a reading: the one before has been forgotten or was
\* rounded in the file, the seconds have started again, a channel of a YC1000
\* had no sun; these may count too much.  "overtaken" counts too little: the inverter was started again
\* and by now shows more than before.
Doubts(i) ==
  (IF seen[i] /\ pre[i].epoch = -1 THEN {"forgotten"} ELSE {}) \union
  (IF pre[i].epoch = epoch[i] /\ ~pre[i].exact THEN {"rounded"} ELSE {}) \union
  (IF /\ pre[i].epoch = epoch[i]
      /\ acctime(up[i]) < acctime(pre[i].up) THEN {"wrapped"} ELSE {}) \union
  (IF /\ i \notin YC600 /\ pre[i].epoch = epoch[i]
      /\ \/ acctime(up[i]) = acctime(pre[i].up)
         \/ \E c \in Channels : gen[i][c] = pre[i].gen[c]
     THEN {"idle"} ELSE {}) \union
  (IF /\ pre[i].epoch \notin {-1, epoch[i]}
      /\ \A c \in Channels : gen[i][c] >= pre[i].gen[c]
      /\ acctime(up[i]) >= acctime(pre[i].up) THEN {"overtaken"} ELSE {})

\* An inverter that has not been read in this round answers.  An answer that
\* is lost, damaged or refused changes nothing.
zb_query_data(i) ==
  /\ mpc = "query"
  /\ ~dataflag[i]
  /\ i \in YC600 \/ ~Jumps(i)
  /\ dataflag' = [dataflag EXCEPT ![i] = TRUE]
  /\ cur' = [cur EXCEPT ![i] = Resolved(i)]
  /\ pre' = [pre EXCEPT ![i] = [gen |-> gen[i], up |-> up[i],
                                 epoch |-> epoch[i], exact |-> TRUE]]
  /\ seen' = [seen EXCEPT ![i] = TRUE]
  /\ want' = [want EXCEPT ![i] = Produced(i)]
  /\ doubt' = [doubt EXCEPT ![i] = Doubts(i)]
  /\ clean' = [clean EXCEPT ![i] = @ /\ Doubts(i) \subseteq {"overtaken"}]
  /\ UNCHANGED <<inverter, mpc, life, files>>

\* An answer of a YC600 that is neither of the two kinds: it counts as read,
\* and nothing is taken from it.
OtherAnswer(i) ==
  /\ mpc = "query"
  /\ ~dataflag[i]
  /\ i \in YC600
  /\ dataflag' = [dataflag EXCEPT ![i] = TRUE]
  /\ UNCHANGED <<inverter, mpc, pre, cur, life, files, history>>

-----------------------------------------------------------------------------
(* The round.                                                              *)

\* The end of getalldata: update_tmpdb opens collect.con, which truncates it.
getalldata ==
  /\ mpc = "query"
  /\ mpc' = "tmpdb"
  /\ collect' = [i \in Inverters |-> NoReading]
  /\ UNCHANGED <<inverter, dataflag, pre, cur, life, ltpower, cleared, history>>

\* "%lf" and atof: the nearest number with six decimals.
Decimal(g) == ((g + Grain \div 2) \div Grain) * Grain
Line(r) == LET g == [c \in Channels |-> Decimal(r.gen[c])]
           IN  [gen |-> g, up |-> r.up, epoch |-> r.epoch,
                exact |-> r.exact /\ g = r.gen]

\* One line for each inverter that was read in this round.
update_tmpdb ==
  /\ mpc = "tmpdb"
  /\ mpc' = "life"
  /\ collect' = [i \in Inverters |-> IF dataflag[i] THEN Line(pre[i])
                                                       ELSE NoReading]
  /\ UNCHANGED <<inverter, dataflag, pre, cur, life, ltpower, cleared, history>>

\* Slip: the energy of all inverters.
current_energy_of_all(i, c) == cur[i][c]

\* current_energy: of the inverters that were read in this round.
current_energy(i, c) == IF dataflag[i] THEN cur[i][c] ELSE 0

\* The energy of the round is added and LTPOWER is opened, which truncates it.
AddEnergy ==
  /\ mpc = "life"
  /\ mpc' = "ltpower"
  /\ life' = [i \in Inverters |->
               [c \in Channels |-> life[i][c] + current_energy(i, c)]]
  /\ cleared' = TRUE
  /\ UNCHANGED <<inverter, dataflag, pre, cur, collect, ltpower, history>>

\* LTPOWER is written.  The next round begins with the clearing of the
\* inverters' data, which leaves out the channels C and D.
update_life_energy ==
  /\ mpc = "ltpower"
  /\ mpc' = "query"
  /\ ltpower' = life /\ cleared' = FALSE
  /\ dataflag' = [i \in Inverters |-> FALSE]
  /\ cur' = [i \in Inverters |-> [c \in Channels |->
                IF i \in YC600 \/ c \in Wiped THEN 0 ELSE cur[i][c]]]
  /\ want' = [i \in Inverters |-> Zero]
  /\ doubt' = [i \in Inverters |-> {}]
  /\ UNCHANGED <<inverter, pre, life, collect, seen, clean>>

\* What get_lifetime_power reads from the file: an empty one is 0.
get_lifetime_power == IF cleared THEN [i \in Inverters |-> Zero] ELSE ltpower

\* A reset: init_ecu, init_inverter and init_tmpdb.
reboot ==
  /\ mpc' = "query"
  /\ dataflag' = [i \in Inverters |-> FALSE]
  /\ cur' = [i \in Inverters |-> Zero]
  /\ pre' = collect
  /\ life' = get_lifetime_power
  /\ want' = [i \in Inverters |-> Zero]
  /\ doubt' = [i \in Inverters |-> {}]
  /\ UNCHANGED <<inverter, files, seen, clean>>

Next == \/ \E i \in Inverters : \/ \E S \in SUBSET Channels : Generate(i, S)
                                \/ Restart(i)
                                \/ zb_query_data(i) \/ OtherAnswer(i)
        \/ getalldata \/ update_tmpdb \/ AddEnergy \/ update_life_energy
        \/ reboot

Spec == Init /\ [][Next]_vars

-----------------------------------------------------------------------------
(* Properties.                                                             *)

Amounts == [Inverters -> [Channels -> Nat]]

\* Every variable has its type; no energy is negative.
TypeOK == /\ model \in [Inverters -> Models]
          /\ gen \in Amounts /\ made \in Amounts
          /\ up \in [Inverters -> Nat] /\ epoch \in [Inverters -> Nat]
          /\ mpc \in {"query", "tmpdb", "life", "ltpower"}
          /\ dataflag \in [Inverters -> BOOLEAN]
          /\ pre \in [Inverters -> Readings] /\ collect \in [Inverters -> Readings]
          /\ cur \in Amounts /\ life \in Amounts /\ ltpower \in Amounts
          /\ cleared \in BOOLEAN
          /\ seen \in [Inverters -> BOOLEAN] /\ clean \in [Inverters -> BOOLEAN]
          /\ want \in Amounts
          /\ doubt \in [Inverters -> SUBSET {"forgotten", "rounded", "wrapped",
                                             "idle", "overtaken"}]

\* The energy taken for a round is the energy between the two readings,
\* except for the five reasons in Doubts: restarts, resets of the board,
\* refused and lost readings do not make it wrong by themselves.
ExactRound == \A i \in Inverters : dataflag[i] /\ doubt[i] = {}
                                     => cur[i] = want[i]

\* The lifetime energy never exceeds what was produced, as long as no
\* reading was in doubt: wherever a reset cuts the round, no energy is
\* counted twice, since collect.con is written before LTPOWER.
LifeAtMostMade == \A i \in Inverters, c \in Channels :
                    clean[i] => life[i][c] <= made[i][c]

-----------------------------------------------------------------------------
(* The inductive invariant.                                                *)

\* An inverter that has not been read has no energy in this round; only the
\* channels C and D of a YC1000 keep that of an earlier one.
Blank == \A i \in Inverters : ~dataflag[i] => /\ want[i] = Zero
                                              /\ i \in YC600 => cur[i] = Zero

\* A reading b of i: it is not from the future, and its counters are not
\* ahead of the inverter's while this runs on.
Behind(i, b) == /\ b.epoch <= epoch[i]
                /\ b.epoch = -1 => b = NoReading
                /\ b.epoch = epoch[i] /\ b.exact =>
                     \A c \in Channels : b.gen[c] <= gen[i][c]
Readable == \A i \in Inverters : Behind(i, pre[i]) /\ Behind(i, collect[i])

Unseen == \A i \in Inverters : ~seen[i] => pre[i].epoch = -1 /\ collect[i].epoch = -1

\* Before LTPOWER is touched, collect.con holds this round's readings.
Filed == mpc \in {"life", "ltpower"} =>
           collect = [i \in Inverters |-> IF dataflag[i] THEN Line(pre[i])
                                                         ELSE NoReading]

\* What a reading after b would add, and whether it would be without doubt.
Unread(i, c, b) == IF b.epoch = epoch[i] THEN gen[i][c] - b.gen[c] ELSE gen[i][c]
Usable(i, b) == /\ b.epoch = -1 => ~seen[i]
                /\ b.epoch = epoch[i] => b.exact

\* The energy e is covered by what was produced, and so is what a reading
\* after b would add to it.
Covered(i, c, e, b) ==
  clean[i] => /\ e <= made[i][c]
              /\ Usable(i, b) => e + Unread(i, c, b) <= made[i][c]

\* The energy read and not yet added.
Pending(i, c) == IF mpc = "ltpower" THEN 0 ELSE current_energy(i, c)

\* The file is not ahead of the memory.
Stored == \A i \in Inverters, c \in Channels :
            get_lifetime_power[i][c] <= life[i][c]

Balance == \A i \in Inverters, c \in Channels :
             /\ Covered(i, c, life[i][c] + Pending(i, c), pre[i])
             /\ Covered(i, c, get_lifetime_power[i][c], collect[i])

\* The inductive invariant of LifeAtMostMade: at every point the memory and
\* the files can each take the next reading without counting twice.
IInv == /\ TypeOK /\ Blank /\ Readable /\ Unseen /\ Filed /\ Stored
        /\ ExactRound /\ Balance

=============================================================================
