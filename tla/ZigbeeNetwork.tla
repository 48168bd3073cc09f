--------------------------- MODULE ZigbeeNetwork ---------------------------
(***************************************************************************)
(* How the ECU finds its inverters by radio and keeps them.                *)
(*                                                                         *)
(* Every inverter listens on one channel, in one PAN.  The module of the   *)
(* ECU reaches those on its own channel that are in its PAN, and all of    *)
(* the channel when its PAN is 0xFFFF.  The main thread moves the module   *)
(* about: to bind new inverters (bind_inverters.c), to change the channel  *)
(* of the whole plant (channel.c) and, once a day after ten o'clock, to    *)
(* look for inverters that gave no data (get_inverter_shortaddress in      *)
(* zigbee.c).  It has to bring module and inverters home each time, while  *)
(* messages get lost, the phone restarts the thread and the board is       *)
(* reset.                                                                  *)
(*                                                                         *)
(* The list of inverters with their short addresses is the file            *)
(* /home/data/id.  The main thread writes it whole (updateID); the control *)
(* client (command A103), the phone server and the ID writer change it     *)
(* too, and read it back into the array the main thread works on.  A103    *)
(* takes several steps: to add inverters it opens the file, appends to it  *)
(* and gives the order to bind; to delete them it copies the file but for  *)
(* one line, removes it and renames the copy, once for each inverter.      *)
(*                                                                         *)
(* Several tries of one message are one message here, which is lost when   *)
(* all of them are.                                                        *)
(***************************************************************************)
EXTENDS Naturals, FiniteSets

CONSTANTS Inverters,    \* numbers: the order of the array
          New,          \* those of the new kind, moved by orders 11 and 22
          Fresh,        \* those the users have just entered at the start
          Channels,     \* the channels, as numbers
          Chosen,       \* those the users choose
          Default,      \* channel 0x10
          Start,        \* the channel of the plant at the start
          NoDataLimit,  \* no_getdata_num above which an inverter is looked for
          PollLimit,    \* polling_total_times above which the day's search ends
          NoDataMax,    \* where no_getdata_num stops, 254
          PollMax,      \* bound: where polling_total_times stops here
          MaxFaults     \* bound: orders, lost messages, restarts, resets and
                        \* short days

ASSUME InvertersAssumption == /\ IsFiniteSet(Inverters) /\ Inverters \subseteq Nat
                              /\ New \subseteq Inverters /\ Fresh \subseteq Inverters
ASSUME ChannelsAssumption == /\ Channels \subseteq Nat \ {0} /\ IsFiniteSet(Channels)
                             /\ {Default, Start} \cup Chosen \subseteq Channels
ASSUME LimitAssumption == /\ NoDataLimit \in Nat /\ PollLimit \in Nat
                          /\ PollLimit <= NoDataLimit
                          /\ NoDataMax \in Nat /\ NoDataLimit < NoDataMax
                          /\ PollMax \in Nat /\ NoDataLimit < PollMax
                          /\ MaxFaults \in Nat

VARIABLES
  \* the radio
  modpan, modch,  \* PAN and channel of the module
  pan, ch,        \* PAN and channel of every inverter
  staged,         \* inverters of the new kind that got order 11
  \* in RAM
  ecuch,    \* ecu.channel
  list,     \* the inverters in the array
  short,    \* what is known of their short addresses
  bound,    \* those with bindflag 1
  nodata,   \* no_getdata_num
  polls,    \* polling_total_times
  ten,      \* flag_ten_clock_getshortaddr
  \* the main thread
  pc, todo,  \* its place, and the inverters a loop has yet to come to
  chan,      \* the channel on which the inverters are told to change
  \* on the flash
  fids, fshort, fbound,  \* the file id: inverters, short addresses, bindflags
  file,      \* whether it exists, and was written while A103 had it open
  limiteid,  \* limiteid.con is '1': bind
  channel,   \* channel.con, 0 while it is empty
  change,    \* changech.con with old_chan.con and new_chan.con
  \* the others
  late,      \* it is past ten o'clock
  a103,      \* how far the control client is with a command A103
  named,     \* the inverters it has yet to add or to delete, ...
  cids, cshort, cbound,  \* ... and the file id when it was opened, then its
                         \* copy idtmp
  faults,    \* orders, lost messages, restarts, resets and short days so far
  \* what the properties look back on
  wanted,    \* the inverters the users want in the list, ...
  spoilt,    \* ... unless two wrote it at once or one was interrupted for good
  missed,    \* inverters that missed a message to move
  orphaned,  \* inverters left out when the others were moved
  strayed    \* the last order to bring the module home was lost

module == <<modpan, modch>>
place == <<pan, ch>>
stored == <<fshort, cshort>>
addresses == <<short, stored>>
array == <<list, bound, nodata>>
day == <<ecuch, polls, ten>>
main == <<pc, todo, chan>>
ids == <<fids, fbound, file>>
config == <<limiteid, channel, change>>
client == <<a103, named, cids, cbound>>
outside == <<late, client>>
orders == <<wanted, spoilt>>
history == <<orders, missed, orphaned, strayed>>
vars == <<module, place, staged, addresses, array, day, main, ids, config,
          outside, faults, history>>

Pans == {"home", "ffff", "other"}
\* The short address held of an inverter: none, its own, or one it had
\* before it went to another PAN or channel.
Addresses == {"none", "right", "stale"}
NoChange == <<0, 0>>
\* get_channel reads 0 from an empty channel.con; 0 is also "no channel".
Tunings == Channels \cup {0}

Loops == {"chan", "verify", "flat", "ask", "order11", "old"}
Polling == {"init", "read", "round", "polled", "after", "far", "move", "return",
            "find", "found", "nodata", "refreshed"}
Saves == {"bound", "polled", "found", "refreshed"}
Places == Loops \cup Polling \cup
          {"scan", "save", "saving", "unlink", "home", "need", "order22", "back", "bound",
           "done"}

\* The steps of a command A103.
Stages == {"none", "adding", "appended", "reading", "removed", "filed", "cleared",
           "timer"}

NoAddress == [i \in Inverters |-> "none"]

\* The board starts in a plant that works, but for some new inverters that
\* come from the factory.
Init ==
  /\ modpan = "home" /\ modch = Start
  /\ pan = [i \in Inverters |-> IF i \in Fresh THEN "other" ELSE "home"]
  /\ ch = [i \in Inverters |-> IF i \in Fresh THEN Default ELSE Start]
  /\ staged = {}
  /\ ecuch = Start /\ list = {} /\ bound = {}
  /\ short = NoAddress
  /\ nodata = [i \in Inverters |-> 0]
  /\ polls = 0 /\ ten = TRUE
  /\ pc = "init" /\ todo = {} /\ chan = 0
  /\ fids = Inverters /\ fbound = Inverters \ Fresh /\ file = "there"
  /\ fshort = [i \in Inverters |-> IF i \in Fresh THEN "none" ELSE "right"]
  /\ limiteid = (Fresh # {}) /\ channel = Start /\ change = NoChange
  /\ late = FALSE /\ faults = 0
  /\ a103 = "none" /\ named = {}
  /\ cids = {} /\ cshort = NoAddress /\ cbound = {}
  /\ wanted = Inverters /\ spoilt = FALSE
  /\ missed = {} /\ orphaned = {} /\ strayed = FALSE

-----------------------------------------------------------------------------
(* The radio.                                                              *)

Hears(i) == ch[i] = modch /\ modpan \in {"ffff", pan[i]}

\* A step in which something goes wrong, or not.
Fault(b) == IF b THEN faults < MaxFaults /\ faults' = faults + 1
                 ELSE UNCHANGED faults

\* A message to each of S reaches those in G.
Reached(S, G) == LET H == {i \in S : Hears(i)}
                 IN G \subseteq H /\ Fault(G # H)

Outdated(f, S) == [i \in Inverters |-> IF i \in S /\ f[i] = "right" THEN "stale"
                                        ELSE f[i]]

\* The inverters in G go to another PAN and channel, where those in S get
\* another short address.
Moved(G, p, c) ==
  /\ pan' = [i \in Inverters |-> IF i \in G THEN p ELSE pan[i]]
  /\ ch' = [i \in Inverters |-> IF i \in G THEN c ELSE ch[i]]
  /\ \E S \in SUBSET {i \in G : pan[i] # p \/ ch[i] # c} :
       /\ short' = Outdated(short, S)
       /\ fshort' = Outdated(fshort, S)
       /\ cshort' = Outdated(cshort, S)

\* zb_restore_ecu_panid_0xffff: the result is looked at nowhere.  When the
\* command is lost, the messages that follow reach no or the wrong inverters.
zb_restore_ecu_panid_0xffff(c) ==
  \/ /\ Fault(FALSE)
     /\ modpan' = "ffff" /\ modch' = c
     /\ UNCHANGED missed
  \/ /\ Fault(TRUE)
     /\ missed' = Inverters
     /\ UNCHANGED module

\* zb_change_ecu_panid, whose result is not looked at either.
zb_change_ecu_panid(c) ==
  \/ /\ Fault(FALSE)
     /\ modpan' = "home" /\ modch' = c
     /\ strayed' = FALSE
  \/ /\ Fault(TRUE)
     /\ strayed' = TRUE
     /\ UNCHANGED module

\* The short addresses of the inverters in G become known.
Learned(G) == short' =
  [i \in Inverters |-> IF i \in G THEN "right" ELSE short[i]]

Go(p) == pc' = p /\ todo' = IF p \in Loops THEN list ELSE {}

\* A loop over the array that is at inverter i.
At(p, i) == /\ pc = p
            /\ i \in todo /\ \A j \in todo : i <= j
            /\ todo' = todo \ {i}
            /\ UNCHANGED pc

-----------------------------------------------------------------------------
(* The file id.                                                            *)

\* A103 has the file open, ...
Open == a103 \in {"adding", "reading"}

\* ... would leave it as no one wants it, ...
Writing == Open \/ a103 = "removed"

\* ... has changed it, or is about to, and not yet the array.
Changing == Writing \/ a103 \in {"appended", "filed", "cleared"}

\* The inverters that are in the file, or will be when the copy is renamed.
Listed == IF a103 = "removed" /\ file = "gone" THEN cids ELSE fids

\* Those in the file for which A103 has yet to give the order to bind.
Due == IF a103 = "appended" THEN named ELSE {}

\* Another than A103 has written the file.
Overwritten == file' = IF Open THEN "mixed" ELSE "there"

\* History: the list the users want now, unless it is spoilt.
Expect(S, b) == spoilt' = b /\ wanted' = IF b THEN {} ELSE S

\* Slip: inverters without a short address are not written.
updateID_known ==
  /\ fids' = {i \in list : short[i] # "none"}
  /\ fshort' = [i \in Inverters |-> IF i \in list THEN short[i] ELSE "none"]
  /\ fbound' = bound \cap list
  /\ Overwritten

\* updateID writes the array over the file.
updateID ==
  /\ fids' = list
  /\ fshort' = [i \in Inverters |-> IF i \in list THEN short[i] ELSE "none"]
  /\ fbound' = bound \cap list
  /\ Overwritten

\* updateID is interrupted for good: part of the list is on the file.
CutShort(cut) ==
  \E S \in SUBSET list :
    /\ fids' = S
    /\ fshort' = [i \in Inverters |-> IF i \in S THEN short[i] ELSE "none"]
    /\ fbound' = bound \cap S
    /\ Overwritten
    /\ Expect(wanted, spoilt \/ Changing \/ cut \/ S # list)

\* A103 opens the file, and closes it or is done with the copy.
Read == cids' = fids /\ cshort' = fshort /\ cbound' = fbound
Closed == cids' = {} /\ cshort' = NoAddress /\ cbound' = {}

\* What A103 finds in the file it has open: the lines of S, and those of old as
\* they were when it opened the file.  There is nothing old nor lost unless
\* another has written the file since.
Found(S, old) == /\ old \subseteq S \cap cids
                 /\ S \ old \subseteq fids
                 /\ file = "mixed" \/ (S = fids /\ old = {})

FoundShort(S, old) == [i \in Inverters |-> IF i \in old THEN cshort[i]
                                           ELSE IF i \in S THEN fshort[i]
                                           ELSE "none"]
FoundBound(S, old) == (old \cap cbound) \cup ((S \ old) \cap fbound)

\* Inverters that are in the list, or are taken for bound, once more.
Returned(S, old) == (S \ fids) \cup (FoundBound(S, old) \ fbound)

\* get_id_from_file.
get_id_from_file ==
  /\ list' = fids
  /\ short' = fshort
  /\ bound' = fbound

-----------------------------------------------------------------------------
(* The main thread: start and change of the channel.                       *)

init_ecu ==
  /\ pc = "init"
  /\ ecuch' = channel
  /\ polls' = 0 /\ ten' = TRUE
  /\ zb_change_ecu_panid(channel)
  /\ Go("read")
  /\ UNCHANGED <<place, staged, addresses, array, chan, ids, config, outside,
                 orders, missed, orphaned>>

\* Slip: the order to bind is taken away before it is carried out.
init_inverter_early ==
  /\ pc = "read" /\ fids # {}
  /\ get_id_from_file
  /\ nodata' = [i \in Inverters |-> 0]
  /\ todo' = {}
  /\ limiteid' = FALSE
  /\ IF ~limiteid
       THEN pc' = "round" /\ UNCHANGED chan
       ELSE IF change = NoChange
         THEN pc' = "home" /\ UNCHANGED chan
         ELSE /\ pc' = "scan"
              /\ chan' = IF change[1] # 0 THEN change[1]
                         ELSE CHOOSE c \in Channels : \A d \in Channels : c <= d
  /\ UNCHANGED <<module, place, staged, stored, day, ids, channel, change, outside,
                 faults, history>>

\* init_inverter: without inverters it reads the file again, every 20 s.
init_inverter ==
  /\ pc = "read" /\ fids # {}
  /\ get_id_from_file
  /\ nodata' = [i \in Inverters |-> 0]
  /\ todo' = {}
  /\ IF ~limiteid
       THEN pc' = "round" /\ UNCHANGED chan
       ELSE IF change = NoChange
         THEN pc' = "home" /\ UNCHANGED chan
         ELSE /\ pc' = "scan"
              /\ chan' = IF change[1] # 0 THEN change[1]
                         ELSE CHOOSE c \in Channels : \A d \in Channels : c <= d
  /\ UNCHANGED <<module, place, staged, stored, day, ids, config, outside,
                 faults, history>>

\* changeChannelOfInverters puts the module on the old channel ...
ScanChannel ==
  /\ pc = "scan"
  /\ zb_restore_ecu_panid_0xffff(chan)
  /\ Go("chan")
  /\ UNCHANGED <<place, staged, addresses, array, day, chan, ids, config,
                 outside, orders, orphaned, strayed>>

\* ... and tells one inverter after the other to go to the new one, once and
\* without an answer ...
ChangeChannel(i) ==
  /\ At("chan", i)
  /\ \E G \in SUBSET {i} :
       /\ Reached({i}, G)
       /\ Moved(G, "home", change[2])
       /\ missed' = missed \cup {j \in {i} \ G : Hears(j)}
  /\ UNCHANGED <<module, staged, array, day, chan, ids, config, outside,
                 orders, orphaned, strayed>>

\* ... on every channel, if the old one is not known.
NextChannel ==
  /\ pc = "chan" /\ todo = {}
  /\ \/ /\ change[1] = 0
        /\ \E c \in Channels : /\ c > chan
                               /\ \A d \in Channels : d > chan => c <= d
                               /\ chan' = c
        /\ Go("scan")
     \/ /\ change[1] # 0 \/ \A d \in Channels : d <= chan
        /\ chan' = 0
        /\ Go("save")
  /\ UNCHANGED <<module, place, staged, addresses, array, day, ids, config,
                 outside, faults, history>>

\* The rest of process_channel, saveECUChannel: channel.con is emptied ...
EmptyChannel ==
  /\ pc = "save"
  /\ channel' = 0
  /\ limiteid' = TRUE
  /\ Go("saving")
  /\ UNCHANGED <<module, place, staged, addresses, array, day, chan, ids,
                 change, outside, faults, history>>

\* ... and gets the new channel, ...
saveECUChannel ==
  /\ pc = "saving"
  /\ channel' = change[2] /\ ecuch' = change[2]
  /\ orphaned' = orphaned \cup (Inverters \ list)
  /\ Go("unlink")
  /\ UNCHANGED <<module, place, staged, addresses, array, polls, ten, chan,
                 ids, limiteid, change, outside, faults, orders, missed, strayed>>

\* ... and then the order to change it is removed.
UnlinkChange ==
  /\ pc = "unlink"
  /\ change' = NoChange
  /\ Go("home")
  /\ UNCHANGED <<module, place, staged, addresses, array, day, chan, ids,
                 limiteid, channel, outside, faults, history>>

-----------------------------------------------------------------------------
(* The main thread: bind_inverters.                                        *)

BindHome ==
  /\ pc = "home"
  /\ zb_change_ecu_panid(ecuch)
  /\ Go("verify")
  /\ UNCHANGED <<place, staged, addresses, array, day, chan, ids, config,
                 outside, orders, missed, orphaned>>

\* zb_off_report_id_and_bind: an inverter that is not bound and does not
\* answer under its short address loses the address.  One that answers in
\* another PAN, to a module that is astray, keeps it and is not moved.
Verify(i) ==
  /\ At("verify", i)
  /\ \/ i \in bound /\ UNCHANGED <<short, faults, orphaned>>
     \/ /\ i \notin bound
        /\ \E G \in SUBSET {i} :
             /\ Reached({j \in {i} : short[j] = "right"}, G)
             /\ short' = [short EXCEPT ![i] = IF i \in G THEN @ ELSE "none"]
             /\ orphaned' = orphaned \cup {j \in G : pan[j] # "home"}
  /\ UNCHANGED <<module, place, staged, stored, array, day, chan, ids,
                 config, outside, orders, missed, strayed>>

\* If one has none, the module goes to PAN 0xFFFF.
BindNeeded ==
  /\ pc = "verify" /\ todo = {}
  /\ IF \E i \in list : short[i] = "none"
       THEN Go("need") ELSE Go("bound")
  /\ UNCHANGED <<module, place, staged, addresses, array, day, chan, ids,
                 config, outside, faults, history>>

BindFFFF ==
  /\ pc = "need"
  /\ zb_restore_ecu_panid_0xffff(ecuch)
  /\ Go("flat")
  /\ UNCHANGED <<place, staged, addresses, array, day, chan, ids, config,
                 outside, orders, orphaned, strayed>>

Unknown(i) == short[i] = "none" /\ i \notin bound

\* The inverter is put into PAN 0xFFFF ...
Flatten(i) ==
  /\ At("flat", i)
  /\ \E G \in SUBSET {i} : /\ Reached({j \in {i} : Unknown(j)}, G)
                           /\ Moved(G, "ffff", ecuch)
  /\ UNCHANGED <<module, staged, array, day, chan, ids, config, outside,
                 history>>

\* ... and asked for its address: the old kind tells it, the new kind only
\* shows that it is there.
getaddrOldOrNew(i) ==
  /\ At("ask", i)
  /\ \E G \in SUBSET {i} : /\ Reached({j \in {i} : Unknown(j)}, G)
                           /\ Learned(G \ New)
                           /\ bound' = bound \cup (G \cap New)
  /\ UNCHANGED <<module, place, staged, stored, list, nodata, day, chan, ids,
                 config, outside, history>>

\* send11order announces the PAN and channel of the ECU.
send11order(i) ==
  /\ At("order11", i)
  /\ \E G \in SUBSET {i}, A \in SUBSET {i} :
       /\ Reached({j \in {i} \cap New : short[j] = "none"}, G)
       /\ A \subseteq G
       /\ staged' = staged \cup G
       /\ Learned(A)
       /\ missed' = missed \cup {j \in ({i} \cap New) \ G : short[j] = "none" /\ Hears(j)}
  /\ UNCHANGED <<module, place, stored, array, day, chan, ids, config,
                 outside, orders, orphaned, strayed>>

\* The other inverters are moved at once.
MoveOld(i) ==
  /\ At("old", i)
  /\ \E G \in SUBSET {i} :
       /\ Reached({i} \ bound, G)
       /\ Moved(G, "home", ecuch)
       /\ missed' = missed \cup {j \in ({i} \ bound) \ G : Hears(j)}
  /\ UNCHANGED <<module, staged, array, day, chan, ids, config, outside,
                 orders, orphaned, strayed>>

\* send22order: those that got order 11 move.  The bindflags are cleared.
send22order ==
  /\ pc = "order22"
  /\ \E G \in SUBSET staged :
       /\ Reached(staged, G)
       /\ Moved(G, "home", ecuch)
       /\ staged' = staged \ G
       /\ missed' = missed \cup {i \in staged \ G : Hears(i)}
  /\ bound' = bound \ list
  /\ Go("back")
  /\ UNCHANGED <<module, list, nodata, day, chan, ids, config, outside,
                 orders, orphaned, strayed>>

\* The loops follow each other.
NextLoop ==
  /\ pc \in {"flat", "ask", "order11", "old"} /\ todo = {}
  /\ Go(CASE pc = "flat" -> "ask" [] pc = "ask" -> "order11"
          [] pc = "order11" -> "old" [] pc = "old" -> "order22")
  /\ UNCHANGED <<module, place, staged, addresses, array, day, chan, ids,
                 config, outside, faults, history>>

\* The module goes home.
BindBack ==
  /\ pc = "back"
  /\ zb_change_ecu_panid(ecuch)
  /\ Go("bound")
  /\ UNCHANGED <<place, staged, addresses, array, day, chan, ids, config,
                 outside, orders, missed, orphaned>>

\* init_inverter takes the order to bind away when all is done, also the one
\* A103 has just given for the inverters it added to the file.
BindDone ==
  /\ pc = "done"
  /\ limiteid' = FALSE
  /\ orphaned' = orphaned \cup (Listed \ (list \cup Due))
  /\ Go("round")
  /\ UNCHANGED <<module, place, staged, addresses, array, day, chan, ids,
                 channel, change, outside, faults, orders, missed, strayed>>

-----------------------------------------------------------------------------
(* The main thread: a round of polling.                                    *)

\* Slip: the counter does not stop.
NoData_endless(G) ==
  nodata' = [i \in Inverters |-> IF i \in G THEN 0
                                 ELSE IF i \in list THEN nodata[i] + 1
                                 ELSE nodata[i]]

\* Data set no_getdata_num to 0, a round without any counts, up to a limit.
NoData(G) ==
  nodata' = [i \in Inverters |-> IF i \in G THEN 0
                                 ELSE IF i \in list /\ nodata[i] < NoDataMax
                                   THEN nodata[i] + 1
                                 ELSE nodata[i]]

\* getalldata asks the inverters with a short address: those in B answer that
\* they are bound, those in G send data.  The list is saved when something
\* new is known, a bindflag or the model of one that answered.  One that a
\* stray module takes for bound in another PAN will not be moved.
getalldata ==
  /\ pc = "round"
  /\ LET There == {i \in list : short[i] = "right"}
     IN \E B \in SUBSET There, G \in SUBSET There :
          /\ Reached(There, B \cap G)
          /\ \A i \in B \cup G : Hears(i)
          /\ bound' = bound \cup B
          /\ NoData(G)
          /\ LET Home == {i \in G : pan[i] = "home" /\ ch[i] = ecuch}
             IN /\ missed' = missed \ Home
                /\ orphaned' = (orphaned \ Home) \cup {i \in B : pan[i] # "home"}
          /\ \/ ~(B \subseteq bound) /\ Go("polled")
             \/ B \subseteq bound /\ Go("after")
             \/ B \cup G # {} /\ Go("polled")
  /\ polls' = IF polls < PollMax THEN polls + 1 ELSE polls
  /\ UNCHANGED <<module, place, staged, addresses, list, ecuch, ten, chan,
                 ids, config, outside, orders, strayed>>

\* Slip: an inverter whose short address is known is never looked for.
Needy_unknown(i) == i \in list /\ short[i] = "none"

\* An inverter get_inverter_shortaddress looks for.
Needy(i) == i \in list /\ (short[i] = "none" \/ nodata[i] > NoDataLimit)

SearchEnds == ten' = (ten /\ polls <= PollLimit)

\* After ten o'clock get_inverter_shortaddress is called, until there were
\* enough rounds.
AfterRound ==
  /\ pc = "after"
  /\ IF late /\ ten /\ \E i \in Inverters : Needy(i)
       THEN Go("far") /\ UNCHANGED ten
       ELSE /\ Go("nodata")
            /\ IF late /\ ten THEN SearchEnds ELSE UNCHANGED ten
  /\ UNCHANGED <<module, place, staged, addresses, array, ecuch, polls, chan,
                 ids, config, outside, faults, history>>

\* get_inverter_shortaddress: the module goes to PAN 0xFFFF on the default
\* channel, whatever the channel of the ECU, ...
SearchFFFF ==
  /\ pc = "far"
  /\ \/ Fault(FALSE) /\ modpan' = "ffff" /\ modch' = Default
     \/ Fault(TRUE) /\ UNCHANGED module
  /\ Go("move")
  /\ UNCHANGED <<place, staged, addresses, array, day, chan, ids, config,
                 outside, history>>

\* Slip: the module is not brought home again.
SearchMove_stays ==
  /\ pc = "move"
  /\ \E G \in SUBSET {i \in Inverters : Needy(i)} :
       /\ Reached({i \in Inverters : Needy(i)}, G)
       /\ Moved(G, "home", ecuch)
  /\ Go("find")
  /\ UNCHANGED <<module, staged, array, day, chan, ids, config, outside,
                 history>>

\* ... the inverters without data are told to come home, ...
SearchMove ==
  /\ pc = "move"
  /\ \E G \in SUBSET {i \in Inverters : Needy(i)} :
       /\ Reached({i \in Inverters : Needy(i)}, G)
       /\ Moved(G, "home", ecuch)
  /\ Go("return")
  /\ UNCHANGED <<module, staged, array, day, chan, ids, config, outside,
                 history>>

\* ... the module goes there itself ...
SearchReturn ==
  /\ pc = "return"
  /\ zb_change_ecu_panid(ecuch)
  /\ Go("find")
  /\ UNCHANGED <<place, staged, addresses, array, day, chan, ids, config,
                 outside, orders, missed, orphaned>>

\* ... and asks for their addresses; each one that is told is saved.
SearchFind ==
  /\ pc = "find"
  /\ \E G \in SUBSET {i \in Inverters : Needy(i)} :
       /\ Reached({i \in Inverters : Needy(i)}, G)
       /\ Learned(G)
       /\ Go(IF G = {} THEN "nodata" ELSE "found")
  /\ SearchEnds
  /\ UNCHANGED <<module, place, staged, stored, array, ecuch, polls, chan,
                 ids, config, outside, history>>

\* bind_nodata_inverter asks those without data in this round for their
\* addresses.
bind_nodata_inverter ==
  /\ pc = "nodata"
  /\ \E G \in SUBSET {i \in list : nodata[i] > 0} :
       /\ Reached({i \in list : nodata[i] > 0}, G)
       /\ Learned(G)
       /\ Go(IF G = {} THEN "round" ELSE "refreshed")
  /\ UNCHANGED <<module, place, staged, stored, array, day, chan, ids,
                 config, outside, history>>

\* The calls of updateID.
Save ==
  /\ pc \in Saves
  /\ updateID
  /\ Expect(wanted, spoilt \/ Changing)
  /\ Go(CASE pc = "bound" -> "done" [] pc = "polled" -> "after"
          [] pc = "found" -> "nodata" [] pc = "refreshed" -> "round")
  /\ UNCHANGED <<module, place, staged, short, cshort, array, day, chan, config,
                 outside, faults, missed, orphaned, strayed>>

-----------------------------------------------------------------------------
(* The others.                                                             *)

\* The main thread starts again and reads all it works on anew.  In the middle
\* of updateID it leaves the file as it is then.
Restarted == /\ pc' = "init" /\ todo' = {} /\ chan' = 0
             /\ list' = {} /\ bound' = {}
             /\ short' = NoAddress
             /\ nodata' = [i \in Inverters |-> 0]
             /\ polls' = 0 /\ ten' = TRUE
             /\ UNCHANGED ecuch

FileLeft(cut) ==
  \/ UNCHANGED <<ids, fshort>> /\ Expect(wanted, spoilt \/ cut)
  \/ pc \in Saves /\ CutShort(cut)

\* A reset of the board interrupts all.
Reset == /\ a103' = "none" /\ named' = {} /\ Closed
         /\ Restarted
         /\ FileLeft(Writing)
         /\ orphaned' = orphaned \cup Due

Order == Fault(TRUE)

\* A change of the array under the loops of the binding.
LeftOut == orphaned' = IF pc \in Polling THEN orphaned ELSE Inverters

\* set_inverter_id (A103), by the control client, which the main thread
\* preempts.  To add inverters it opens the file, ...
add_id ==
  /\ Order
  /\ a103 = "none" /\ a103' = "adding"
  /\ named' \in SUBSET (Inverters \ fids) \ {{}}
  /\ Expect(wanted \cup named', spoilt)
  /\ Read /\ file' = "there"
  /\ UNCHANGED <<module, place, staged, short, fshort, array, day, main, fids,
                 fbound, config, late, missed, orphaned, strayed>>

\* ... appends them and closes it, which also writes its length, ...
Append ==
  /\ a103 = "adding" /\ a103' = "appended"
  /\ \E S, old \in SUBSET Inverters :
       /\ Found(S, old)
       /\ fids' = S \cup named
       /\ fshort' = FoundShort(S, old) /\ fbound' = FoundBound(S, old)
       /\ orphaned' = orphaned \cup Returned(S, old)
  /\ file' = "there" /\ Closed
  /\ UNCHANGED <<module, place, staged, short, array, day, main, config, late,
                 named, faults, orders, missed, strayed>>

\* ... and gives the order to bind.
OrderToBind ==
  /\ a103 = "appended" /\ a103' = "filed"
  /\ limiteid' = TRUE
  /\ named' = {}
  /\ UNCHANGED <<module, place, staged, addresses, array, day, main, ids,
                 channel, change, late, cids, cbound, faults, history>>

\* To delete inverters it goes through delete_line for each one: it opens the
\* file, ...
delete_id ==
  /\ Order
  /\ a103 = "none" /\ a103' = "reading"
  /\ named' \in SUBSET fids \ {{}}
  /\ Expect(wanted \ named', spoilt)
  /\ Read /\ file' = "there"
  /\ UNCHANGED <<module, place, staged, short, fshort, array, day, main, fids,
                 fbound, config, late, missed, orphaned, strayed>>

\* ... copies the other lines and removes it, ...
RemoveID(i) ==
  /\ a103 = "reading" /\ a103' = "removed"
  /\ i \in named /\ named' = named \ {i}
  /\ \E S, old \in SUBSET Inverters :
       /\ Found(S, old)
       /\ cids' = S \ {i}
       /\ cshort' = [FoundShort(S, old) EXCEPT ![i] = "none"]
       /\ cbound' = FoundBound(S, old) \ {i}
       /\ orphaned' = orphaned \cup Returned(S, old)
  /\ fids' = {} /\ fshort' = NoAddress /\ fbound' = {} /\ file' = "gone"
  /\ UNCHANGED <<module, place, staged, short, array, day, main, config, late,
                 faults, orders, missed, strayed>>

\* ... and renames the copy, which the file system refuses if there is a file
\* again.  Then it opens the file for the next one.
RenameID ==
  /\ a103 = "removed"
  /\ IF file = "gone"
       THEN /\ fids' = cids /\ fshort' = cshort /\ fbound' = cbound
            /\ file' = "there"
       ELSE UNCHANGED <<ids, fshort>>
  /\ IF named = {}
       THEN a103' = "filed" /\ Closed
       ELSE /\ a103' = "reading"
            /\ cids' = fids' /\ cshort' = fshort' /\ cbound' = fbound'
  /\ UNCHANGED <<module, place, staged, short, array, day, main, config,
                 late, named, faults, history>>

\* To delete all it removes the file.
clear_id ==
  /\ Order
  /\ a103 = "none" /\ a103' = "filed"
  /\ fids' = {} /\ fbound' = {} /\ file' = "gone"
  /\ fshort' = NoAddress
  /\ Expect({}, FALSE)
  /\ UNCHANGED <<module, place, staged, short, cshort, array, day, main, config, late,
                 named, cids, cbound, missed, orphaned, strayed>>

\* Then, in init_inverter_A103, it empties the array in use, which ends
\* the loops over it, ...
ClearArray ==
  /\ a103 = "filed" /\ a103' = "cleared"
  /\ list' = {}
  /\ todo' = {}
  /\ nodata' = [i \in Inverters |-> 0]
  /\ LeftOut
  /\ UNCHANGED <<module, place, staged, addresses, bound, day, pc, chan, ids,
                 config, late, named, cids, cbound, faults, orders, missed,
                 strayed>>

\* Slip: the array is not read again.
ReadArray_not ==
  /\ a103 = "cleared" /\ a103' = "timer"
  /\ UNCHANGED <<module, place, staged, addresses, array, day, main, ids,
                 config, late, named, cids, cbound, faults, history>>

\* ... reads it from the file ...
ReadArray ==
  /\ a103 = "cleared" /\ a103' = "timer"
  /\ get_id_from_file
  /\ LeftOut
  /\ UNCHANGED <<module, place, staged, stored, nodata, day, main, ids,
                 config, late, named, cids, cbound, faults, orders, missed,
                 strayed>>

\* ... and has the main thread restarted 20 s later.
RestartMain ==
  /\ a103 = "timer" /\ a103' = "none"
  /\ Restarted
  /\ FileLeft(FALSE)
  /\ UNCHANGED <<module, place, staged, cshort, config, late, named, cids, cbound,
                 faults, missed, orphaned, strayed>>

\* Phone_RegisterID, and insertinverter of the ID writer: a new list.  Both
\* run before the main thread and restart it at once.  A command A103 that is
\* not done with the file goes on with the new one.
Phone_RegisterID ==
  /\ Order
  /\ fids' \in SUBSET Inverters \ {{}}
  /\ fshort' = NoAddress /\ fbound' = {}
  /\ Overwritten
  /\ limiteid' = TRUE
  /\ Expect(fids', Open \/ (a103 = "removed" /\ named # {}))
  /\ Restarted
  /\ UNCHANGED <<module, place, staged, cshort, channel, change, outside, missed,
                 orphaned, strayed>>

\* A reset in the middle of it, which may lose the order to bind.
RegisterCut ==
  /\ Order
  /\ fids' \in SUBSET Inverters
  /\ fshort' = NoAddress /\ fbound' = {} /\ file' = "there"
  /\ limiteid' \in {limiteid, TRUE}
  /\ a103' = "none" /\ named' = {} /\ Closed
  /\ Expect({}, TRUE)
  /\ orphaned' = orphaned \cup (IF limiteid' THEN {} ELSE fids')
  /\ Restarted
  /\ UNCHANGED <<module, place, staged, channel, change, late, missed,
                 strayed>>

\* Phone_SetChannel: from the channel the ECU has told the phone, or from an
\* unknown one.
Phone_SetChannel ==
  /\ Order
  /\ \E c \in {ecuch, 0}, d \in Chosen \ {ecuch} : change' = <<c, d>>
  /\ limiteid' = TRUE
  /\ orphaned' = IF change = NoChange THEN orphaned
                 ELSE orphaned \cup {i \in Inverters : ch[i] # ecuch}
  /\ Restarted
  /\ FileLeft(FALSE)
  /\ UNCHANGED <<module, place, staged, cshort, channel, outside, missed, strayed>>

\* Phone_SetTime and the like restart the main thread, ...
restartThread ==
  /\ Order
  /\ Restarted
  /\ FileLeft(FALSE)
  /\ UNCHANGED <<module, place, staged, cshort, config, outside, missed,
                 orphaned, strayed>>

\* ... the watchdog and other commands reset the board, ...
reboot ==
  /\ Fault(TRUE)
  /\ Reset
  /\ UNCHANGED <<module, place, staged, config, late, missed, strayed>>

\* ... which happens every night, after a day that was long enough for the
\* search or, for once, not.
NightlyReset ==
  /\ late /\ Fault(ten)
  /\ late' = FALSE
  /\ Reset
  /\ UNCHANGED <<module, place, staged, config, missed, strayed>>

\* It strikes ten, which the main thread looks at when a round begins.  The
\* night was long enough for many rounds or, for once, not.
TenOClock ==
  /\ pc = "round" /\ ~late
  /\ late' = TRUE
  /\ Fault(polls <= NoDataLimit)
  /\ UNCHANGED <<module, place, staged, addresses, array, day, main, ids, config,
                 client, history>>

-----------------------------------------------------------------------------
process_channel ==
  \/ ScanChannel \/ (\E i \in Inverters : ChangeChannel(i)) \/ NextChannel
  \/ EmptyChannel \/ saveECUChannel \/ UnlinkChange

bind_inverters ==
  \/ BindHome \/ (\E i \in Inverters : Verify(i)) \/ BindNeeded \/ BindFFFF
  \/ \E i \in Inverters : \/ Flatten(i) \/ getaddrOldOrNew(i)
                          \/ send11order(i) \/ MoveOld(i)
  \/ NextLoop \/ send22order \/ BindBack \/ BindDone

get_inverter_shortaddress ==
  SearchFFFF \/ SearchMove \/ SearchReturn \/ SearchFind

Main == \/ init_ecu \/ init_inverter \/ process_channel \/ bind_inverters
        \/ getalldata \/ AfterRound \/ get_inverter_shortaddress
        \/ bind_nodata_inverter \/ Save

A103 == add_id \/ delete_id \/ clear_id

set_inverter_id ==
  \/ Append \/ OrderToBind
  \/ (\E i \in Inverters : RemoveID(i)) \/ RenameID
  \/ ClearArray \/ ReadArray \/ RestartMain

Next == \/ Main \/ A103 \/ set_inverter_id
        \/ Phone_RegisterID \/ RegisterCut \/ Phone_SetChannel \/ restartThread
        \/ reboot \/ NightlyReset \/ TenOClock

Spec == Init /\ [][Next]_vars

\* The scheduler runs both threads and the clock goes on; strong fairness
\* because the main thread looks at the hour once a round only.
Fairness == /\ WF_vars(Main) /\ WF_vars(set_inverter_id)
            /\ SF_vars(TenOClock) /\ WF_vars(NightlyReset)

FairSpec == Spec /\ Fairness

-----------------------------------------------------------------------------
(* Properties.                                                             *)

\* Every variable has its type; the counters stay within their limits.
TypeOK ==
  /\ modpan \in Pans /\ modch \in Tunings
  /\ pan \in [Inverters -> Pans] /\ ch \in [Inverters -> Channels]
  /\ staged \subseteq New
  /\ ecuch \in Tunings /\ channel \in Tunings
  /\ \A S \in {list, bound, todo, fids, fbound, named, cids, cbound, wanted,
               missed, orphaned} :
       S \subseteq Inverters
  /\ short \in [Inverters -> Addresses]
  /\ fshort \in [Inverters -> Addresses] /\ cshort \in [Inverters -> Addresses]
  /\ nodata \in [Inverters -> 0..NoDataMax]
  /\ polls \in 0..PollMax /\ faults \in 0..MaxFaults
  /\ pc \in Places /\ chan \in Tunings
  /\ change = NoChange \/ change \in Tunings \X Channels
  /\ a103 \in Stages /\ file \in {"there", "mixed", "gone"}
  /\ \A b \in {ten, limiteid, late, spoilt, strayed} : b \in BOOLEAN

\* When the main thread polls, the module is home, wherever the search, the
\* binding and the change of channels have sent it, and whatever interrupted
\* them; only a lost order to bring it home leaves it astray (then no
\* inverter is heard till the next reset: the result is not looked at).
ModuleHome ==
  pc = "round" => \/ modpan = "home" /\ modch = ecuch
                  \/ strayed

\* An inverter that polling does not reach and the daily search neither,
\* because that only goes to the default channel.
Stranded(i) == /\ pc = "round" /\ i \in list /\ ~limiteid /\ i \notin Due
               /\ ~(pan[i] = "home" /\ ch[i] = ecuch)
               /\ ch[i] # Default

\* An inverter is stranded only if it missed a message to move (there is no
\* answer and no second attempt), or was left out: a change of channel was
\* replaced by another before it was over, it was not in the list at the
\* time, a module astray found it in another PAN and took it for bound, it came
\* back with older lines of the file while two wrote that, or a reset took the
\* order to bind that was to follow its registration.  A reset or a restart in
\* the middle of binding or of changing the channel strands none.
StrandedOnlyIfMissed ==
  \A i \in Inverters : Stranded(i) => i \in missed \cup orphaned

\* When A103 is not at it, the file id has the inverters the users entered in
\* the last list of the phone and with the commands A103 since, or none if A103
\* cleared it since, but for two faults the code has: two wrote it at once (an
\* updateID before A103 has read the array again, or a list of the phone while
\* A103 has the file open or has more to delete), or one was interrupted for
\* good (updateID by a restart or a reset, delete_line between the removal and
\* the renaming or between two inverters, add_id before the file is closed, the
\* phone's list by a reset).  There is no other way to lose an inverter.
ListAsOrdered == Writing \/ spoilt \/ fids = wanted

\* The main thread works on the inverters in the file, whoever wrote it, cut it
\* off or wrote over it, except while A103 is changing it.
WorksOnFile == pc \in {"init", "read"} \/ Changing \/ list = fids

\* After finitely many faults and orders there are rounds, again and again, in
\* which every inverter in the file gives data, unless it is stranded: it is
\* found by a new short address, by the binding or by the search of some day.
Served ==
  []<>(\A i \in fids : \/ i \in list /\ nodata[i] = 0 /\ polls > 0
                      \/ Stranded(i))

=============================================================================
