------------------------- MODULE ZigbeeNetwork_proofs -------------------------
(* Module and inverters find home, for every number of inverters, channels  *)
(* and faults, and for every limit of the counters.                         *)
EXTENDS ZigbeeNetwork, WellFoundedInduction, TLAPS

\* What A103 has yet to do makes the file what the users want, or it is spoilt.
Contents ==
  \/ spoilt
  \/ a103 = "adding" /\ file = "there" /\ fids \cup named = wanted
  \/ a103 = "reading" /\ file = "there" /\ fids \ named = wanted
  \/ a103 = "removed" /\ file = "gone" /\ cids \ named = wanted
  \/ a103 = "removed" /\ file # "gone" /\ named = {} /\ fids = wanted
  \/ a103 \notin {"adding", "reading", "removed"} /\ fids = wanted

Filed == /\ WorksOnFile
         /\ Contents
         /\ file = "gone" => fids = {} /\ fbound = {}

\* The places at which the last command to the module was to come home.
HomePlaces == {"read", "verify", "need", "bound", "done", "round", "polled",
               "after", "far", "find", "found", "nodata", "refreshed"}
AtHome == pc \in HomePlaces => strayed \/ (modpan = "home" /\ modch = ecuch)

\* The parts of process_channel and bind_inverters.
ChannelPlaces == {"scan", "chan", "save", "saving", "unlink"}
LiftPlaces == {"flat", "ask", "order11", "old", "order22"}
BindPlaces == {"home", "verify", "need", "back", "bound", "done"} \cup LiftPlaces

\* An order to change the channel goes with one to bind and is carried out
\* first, both stand until they are carried out, and what is in RAM about the
\* channels agrees with the flash, but while channel.con is empty, which is put
\* right before the order is removed.
OrdersStand ==
  /\ ecuch = channel \/ (channel = 0 /\ pc \in {"init", "saving"})
  /\ channel = 0 => change # NoChange
  /\ pc \in {"scan", "chan"} =>
       chan \in Channels /\ (change[1] # 0 => chan = change[1])
  /\ change # NoChange =>
       limiteid /\ pc \in {"init", "read"} \cup ChannelPlaces
  /\ pc \in ChannelPlaces => change # NoChange
  /\ pc \in ChannelPlaces \cup BindPlaces => limiteid
  /\ pc = "unlink" => ecuch = change[2]

Base == TypeOK /\ Filed /\ AtHome /\ OrdersStand

-----------------------------------------------------------------------------
(* The model's operators.                                                   *)

\* TypeOK variable by variable.
LEMMA Types ==
  TypeOK <=> /\ modpan \in Pans /\ modch \in Tunings
             /\ pan \in [Inverters -> Pans] /\ ch \in [Inverters -> Channels]
             /\ staged \subseteq New
             /\ ecuch \in Tunings /\ channel \in Tunings
             /\ list \subseteq Inverters /\ bound \subseteq Inverters
             /\ todo \subseteq Inverters
             /\ fids \subseteq Inverters /\ fbound \subseteq Inverters
             /\ named \subseteq Inverters
             /\ cids \subseteq Inverters /\ cbound \subseteq Inverters
             /\ wanted \subseteq Inverters
             /\ missed \subseteq Inverters /\ orphaned \subseteq Inverters
             /\ short \in [Inverters -> Addresses]
             /\ fshort \in [Inverters -> Addresses]
             /\ cshort \in [Inverters -> Addresses]
             /\ nodata \in [Inverters -> 0..NoDataMax]
             /\ polls \in 0..PollMax /\ faults \in 0..MaxFaults
             /\ pc \in Places /\ chan \in Tunings
             /\ change = NoChange \/ change \in Tunings \X Channels
             /\ a103 \in Stages /\ file \in {"there", "mixed", "gone"}
             /\ ten \in BOOLEAN /\ limiteid \in BOOLEAN /\ late \in BOOLEAN
             /\ spoilt \in BOOLEAN /\ strayed \in BOOLEAN
BY DEF TypeOK

\* A nonempty set of numbers has a least one.
LEMMA Least ==
  ASSUME NEW S \in SUBSET Nat, S # {}
  PROVE  \E c \in S : \A d \in S : c <= d
<1> DEFINE R == {p \in Nat \X Nat : p[1] < p[2]}
<1>1. IsWellFoundedOn(R, Nat)
  BY NatLessThanWellFounded DEF OpToRel
<1> HIDE DEF R
<1>2. PICK c \in S : \A d \in S : ~(<<d, c>> \in R)
  BY <1>1, WFMin
<1>3. \A d \in S : ~(d < c)
  BY <1>2 DEF R
<1> QED
  BY <1>3

\* The faults stay counted.
LEMMA FaultType ==
  ASSUME NEW b, Fault(b), faults \in 0..MaxFaults
  PROVE  faults' \in 0..MaxFaults
BY LimitAssumption DEF Fault

\* Those reached heard the message.
LEMMA ReachedFacts ==
  ASSUME NEW S, NEW G, Reached(S, G), faults \in 0..MaxFaults
  PROVE  /\ G \subseteq S
         /\ \A i \in G : Hears(i)
         /\ faults' \in 0..MaxFaults
BY FaultType DEF Reached

\* In a move no inverter becomes known or unknown, ...
LEMMA MovedFacts ==
  ASSUME TypeOK, NEW G \in SUBSET Inverters, NEW p \in Pans, NEW c \in Channels,
         Moved(G, p, c)
  PROVE  /\ pan' \in [Inverters -> Pans] /\ ch' \in [Inverters -> Channels]
         /\ short' \in [Inverters -> Addresses]
         /\ fshort' \in [Inverters -> Addresses]
         /\ cshort' \in [Inverters -> Addresses]
         /\ \A i \in Inverters : short'[i] = "none" <=> short[i] = "none"
<1>1. PICK S : /\ short' = Outdated(short, S) /\ fshort' = Outdated(fshort, S)
               /\ cshort' = Outdated(cshort, S)
  BY DEF Moved
<1>2. /\ pan' = [i \in Inverters |-> IF i \in G THEN p ELSE pan[i]]
      /\ ch' = [i \in Inverters |-> IF i \in G THEN c ELSE ch[i]]
  BY DEF Moved
<1> QED
  BY <1>1, <1>2, Types DEF Outdated, Addresses

\* ... and those in G change their places.
LEMMA MovedPlaces ==
  ASSUME NEW G \in SUBSET Inverters, NEW p, NEW c, Moved(G, p, c)
  PROVE  /\ \A i \in G : pan'[i] = p /\ ch'[i] = c
         /\ \A i \in Inverters \ G : pan'[i] = pan[i] /\ ch'[i] = ch[i]
BY DEF Moved

\* The commands to the module.
LEMMA ModuleFacts ==
  ASSUME TypeOK, NEW c \in Tunings
  PROVE  /\ zb_change_ecu_panid(c) =>
              /\ modpan' \in Pans /\ modch' \in Tunings
              /\ strayed' \in BOOLEAN /\ faults' \in 0..MaxFaults
              /\ strayed' \/ (modpan' = "home" /\ modch' = c)
         /\ zb_restore_ecu_panid_0xffff(c) =>
              /\ modpan' \in Pans /\ modch' \in Tunings
              /\ missed' \subseteq Inverters /\ faults' \in 0..MaxFaults
              /\ missed \subseteq missed'
              /\ Inverters \subseteq missed' \/ (modpan' = "ffff" /\ modch' = c)
BY FaultType, Types
   DEF zb_change_ecu_panid, zb_restore_ecu_panid_0xffff, Pans, module

\* updateID, whole or cut short, writes a part of the array.
LEMMA FileTypes ==
  ASSUME TypeOK, NEW cut \in BOOLEAN, updateID \/ FileLeft(cut)
  PROVE  /\ fids' \subseteq Inverters /\ fbound' \subseteq Inverters
         /\ fshort' \in [Inverters -> Addresses]
         /\ file' \in {"there", "mixed", "gone"}
         /\ FileLeft(cut) => wanted' \subseteq Inverters /\ spoilt' \in BOOLEAN
<1>1. CASE updateID
  <2>1. file' \in {"there", "mixed", "gone"}
    BY <1>1 DEF updateID, Overwritten
  <2>2. FileLeft(cut) => wanted' \subseteq Inverters /\ spoilt' \in BOOLEAN
    BY Types DEF FileLeft, CutShort, Expect
  <2> QED
    BY <1>1, <2>1, <2>2, Types DEF updateID, Addresses
<1>2. CASE CutShort(cut)
  <2>1. PICK S \in SUBSET list :
          /\ fids' = S
          /\ fshort' = [i \in Inverters |-> IF i \in S THEN short[i] ELSE "none"]
          /\ fbound' = bound \cap S
          /\ Overwritten
          /\ Expect(wanted, spoilt \/ Changing \/ cut \/ S # list)
    BY <1>2 DEF CutShort
  <2> QED
    BY <2>1, Types DEF Addresses, Overwritten, Expect
<1>3. CASE UNCHANGED <<ids, fshort>> /\ Expect(wanted, spoilt \/ cut)
  BY <1>3, Types DEF ids, Expect
<1> QED
  BY <1>1, <1>2, <1>3 DEF FileLeft

\* What A103 takes from the file it has open, it finds in the file or had read.
LEMMA FoundFacts ==
  ASSUME TypeOK, NEW S \in SUBSET Inverters, NEW old \in SUBSET Inverters,
         Found(S, old)
  PROVE  /\ FoundShort(S, old) \in [Inverters -> Addresses]
         /\ FoundBound(S, old) \subseteq S
         /\ S \subseteq fids \cup Returned(S, old)
         /\ FoundBound(S, old) \subseteq fbound \cup Returned(S, old)
         /\ Returned(S, old) \subseteq Inverters
         /\ file = "there" => S = fids
BY Types DEF Found, FoundShort, FoundBound, Returned, Addresses

\* The channel of the ECU is known when there is no order to change it.
LEMMA Tuned ==
  ASSUME Base, change = NoChange
  PROVE  ecuch \in Channels /\ ecuch = channel
BY Types DEF Base, OrdersStand, Tunings

\* The place a step goes to, with the array before it if that is a loop.
LEMMA GoFacts ==
  ASSUME TypeOK, NEW p \in Places, Go(p)
  PROVE  pc' = p /\ pc' \in Places /\ todo' \subseteq Inverters
BY Types DEF Go

\* The loops over the array.
LEMMA AtFacts ==
  ASSUME TypeOK, NEW p, NEW i, At(p, i)
  PROVE  /\ pc = p /\ pc' = p /\ i \in todo /\ todo' = todo \ {i}
         /\ todo' \subseteq Inverters
BY Types DEF At

\* A step of the main thread that leaves array and file alone.
LEMMA FiledStays ==
  ASSUME Filed, UNCHANGED <<list, ids, client, orders>>,
         pc \in {"init", "read"} => pc' \in {"init", "read"}
  PROVE  Filed'
BY DEF Filed, WorksOnFile, Contents, Changing, Writing, Open, ids, client, orders

-----------------------------------------------------------------------------
(* Base is an invariant.                                                    *)

LEMMA BaseInit == Init => Base
<1> SUFFICES ASSUME Init PROVE Base
  OBVIOUS
<1> USE InvertersAssumption, ChannelsAssumption, LimitAssumption DEF Init
<1>1. TypeOK
  <2>1. /\ pan \in [Inverters -> Pans] /\ ch \in [Inverters -> Channels]
        /\ short \in [Inverters -> Addresses]
        /\ fshort \in [Inverters -> Addresses]
        /\ cshort \in [Inverters -> Addresses]
        /\ nodata \in [Inverters -> 0..NoDataMax]
    BY DEF Pans, Addresses, NoAddress
  <2>2. /\ modpan \in Pans /\ modch \in Tunings /\ pc \in Places
        /\ polls \in 0..PollMax /\ faults \in 0..MaxFaults
        /\ ecuch \in Tunings /\ channel \in Tunings /\ chan \in Tunings
        /\ a103 \in Stages /\ file \in {"there", "mixed", "gone"}
    BY DEF Pans, Places, Polling, Tunings, Stages
  <2> QED
    BY <2>1, <2>2, Types
<1>2. Filed
  BY DEF Filed, WorksOnFile, Contents
<1>3. AtHome /\ OrdersStand
  BY DEF AtHome, HomePlaces, OrdersStand, ChannelPlaces, BindPlaces, LiftPlaces
<1> QED
  BY <1>1, <1>2, <1>3 DEF Base

\* The start.
LEMMA BaseStart == Base /\ (init_ecu \/ init_inverter) => Base'
<1> SUFFICES ASSUME Base, init_ecu \/ init_inverter PROVE Base'
  OBVIOUS
<1> USE DEF Base, place, stored, addresses, array, ids, config, client, outside,
            module, day, orders, history
<1> USE DEF AtHome, OrdersStand, HomePlaces, ChannelPlaces, BindPlaces, LiftPlaces
<1>1. CASE init_ecu
  <2>1. /\ pc' = "read" /\ todo' \subseteq Inverters /\ "read" \in Places
    BY <1>1, GoFacts DEF init_ecu, Places, Polling
  <2>2. /\ modpan' \in Pans /\ modch' \in Tunings
        /\ strayed' \in BOOLEAN /\ faults' \in 0..MaxFaults
        /\ strayed' \/ (modpan' = "home" /\ modch' = channel)
    BY <1>1, ModuleFacts, Types DEF init_ecu
  <2>3. TypeOK'
    BY <1>1, <2>1, <2>2, Types, LimitAssumption DEF init_ecu, TypeOK
  <2> QED
    BY <1>1, <2>1, <2>2, <2>3, FiledStays DEF init_ecu
<1>2. CASE init_inverter
  <2> DEFINE least == CHOOSE c \in Channels : \A d \in Channels : c <= d
  <2>1. least \in Channels
    BY Least, ChannelsAssumption
  <2> HIDE DEF least
  <2>2. /\ pc = "read" /\ todo' = {} /\ get_id_from_file
        /\ nodata' = [i \in Inverters |-> 0]
        /\ UNCHANGED <<module, place, staged, stored, day, ids, config, outside,
                       faults, history>>
    BY <1>2 DEF init_inverter
  <2>3. \/ ~limiteid /\ pc' = "round" /\ chan' = chan
        \/ limiteid /\ change = NoChange /\ pc' = "home" /\ chan' = chan
        \/ /\ limiteid /\ change # NoChange /\ pc' = "scan"
           /\ chan' = IF change[1] # 0 THEN change[1] ELSE least
    BY <1>2, Types DEF init_inverter, least
  <2>4. /\ pc' \in Places /\ chan' \in Tunings
        /\ pc' = "scan" =>
             chan' \in Channels /\ (change[1] # 0 => chan' = change[1])
    BY <2>1, <2>3, Types DEF Places, Polling, Tunings
  <2>5. TypeOK'
    BY <2>2, <2>4, Types, LimitAssumption DEF get_id_from_file, TypeOK
  <2>6. Filed'
    BY <2>2 DEF get_id_from_file, Filed, WorksOnFile, Contents, Changing, Writing,
                Open
  <2> QED
    BY <2>2, <2>3, <2>4, <2>5, <2>6
<1> QED
  BY <1>1, <1>2

\* The change of the channel.
LEMMA BaseChannel == Base /\ process_channel => Base'
<1> SUFFICES ASSUME Base, process_channel PROVE Base'
  OBVIOUS
<1> USE DEF Base, place, stored, addresses, array, ids, config, client, outside,
            module, day, orders, history
<1> USE DEF AtHome, OrdersStand, HomePlaces, ChannelPlaces, BindPlaces, LiftPlaces
<1>p. {"scan", "chan", "save", "saving", "unlink", "home"} \subseteq Places
  BY DEF Places, Loops
<1>1. CASE ScanChannel
  <2>1. pc = "scan" /\ pc' = "chan" /\ todo' \subseteq Inverters
    BY <1>1, <1>p, GoFacts DEF ScanChannel
  <2>2. /\ modpan' \in Pans /\ modch' \in Tunings
        /\ missed' \subseteq Inverters /\ faults' \in 0..MaxFaults
    <3>1. chan \in Tunings
      BY Types
    <3> QED
      BY <1>1, <3>1, ModuleFacts DEF ScanChannel
  <2>3. TypeOK'
    BY <1>1, <1>p, <2>1, <2>2, Types DEF ScanChannel, TypeOK
  <2> QED
    BY <1>1, <2>1, <2>3, FiledStays DEF ScanChannel
<1>2. ASSUME NEW i \in Inverters, ChangeChannel(i) PROVE Base'
  <2>1. pc = "chan" /\ pc' = "chan" /\ todo' \subseteq Inverters
    BY <1>2, AtFacts DEF ChangeChannel
  <2>2. PICK G \in SUBSET {i} :
          /\ Reached({i}, G)
          /\ Moved(G, "home", change[2])
          /\ missed' = missed \cup {j \in {i} \ G : Hears(j)}
    BY <1>2 DEF ChangeChannel
  <2>3. change[2] \in Channels
    BY <2>1, Types
  <2>4. /\ pan' \in [Inverters -> Pans] /\ ch' \in [Inverters -> Channels]
        /\ short' \in [Inverters -> Addresses]
        /\ fshort' \in [Inverters -> Addresses]
        /\ cshort' \in [Inverters -> Addresses]
        /\ faults' \in 0..MaxFaults /\ missed' \subseteq Inverters
    <3>1. G \in SUBSET Inverters /\ "home" \in Pans
      BY <2>2 DEF Pans
    <3>2. missed' \subseteq Inverters /\ faults' \in 0..MaxFaults
      BY <2>2, <2>3, ReachedFacts, Types
    <3> QED
      BY <3>1, <3>2, <2>2, <2>3, MovedFacts, Types
  <2>5. TypeOK'
    BY <1>2, <1>p, <2>1, <2>4, Types DEF ChangeChannel, TypeOK
  <2> QED
    BY <1>2, <2>1, <2>5, FiledStays DEF ChangeChannel
<1>3. CASE NextChannel
  <2>1. PICK p \in {"scan", "save"} : Go(p) /\ pc = "chan"
    BY <1>3 DEF NextChannel
  <2>2. pc' = p /\ todo' \subseteq Inverters
    BY <1>p, <2>1, GoFacts
  <2>3. \/ change[1] = 0 /\ chan' \in Channels /\ pc' = "scan"
        \/ chan' = 0 /\ pc' = "save"
    BY <1>3 DEF NextChannel, Go
  <2>4. TypeOK'
    BY <1>3, <1>p, <2>2, <2>3, Types DEF NextChannel, TypeOK, Tunings
  <2> QED
    BY <1>3, <2>1, <2>2, <2>3, <2>4, FiledStays DEF NextChannel
<1>4. CASE EmptyChannel
  <2>1. pc = "save" /\ pc' = "saving" /\ todo' \subseteq Inverters
    BY <1>4, <1>p, GoFacts DEF EmptyChannel
  <2>2. TypeOK'
    BY <1>4, <1>p, <2>1, Types DEF EmptyChannel, TypeOK, Tunings
  <2> QED
    BY <1>4, <2>1, <2>2, FiledStays DEF EmptyChannel
<1>5. CASE saveECUChannel
  <2>1. pc = "saving" /\ pc' = "unlink" /\ todo' \subseteq Inverters
    BY <1>5, <1>p, GoFacts DEF saveECUChannel
  <2>2. change[2] \in Channels /\ orphaned' \subseteq Inverters
    BY <1>5, <2>1, Types DEF saveECUChannel
  <2>3. TypeOK'
    BY <1>5, <1>p, <2>1, <2>2, Types DEF saveECUChannel, TypeOK, Tunings
  <2> QED
    BY <1>5, <2>1, <2>2, <2>3, FiledStays, ChannelsAssumption DEF saveECUChannel
<1>6. CASE UnlinkChange
  <2>1. pc = "unlink" /\ pc' = "home" /\ todo' \subseteq Inverters
    BY <1>6, <1>p, GoFacts DEF UnlinkChange
  <2>2. channel # 0
    BY <1>6, <2>1, Types, ChannelsAssumption DEF UnlinkChange
  <2>3. TypeOK'
    BY <1>6, <1>p, <2>1, Types DEF UnlinkChange, TypeOK
  <2> QED
    BY <1>6, <2>1, <2>2, <2>3, FiledStays DEF UnlinkChange
<1> QED
  BY <1>1, <1>2, <1>3, <1>4, <1>5, <1>6 DEF process_channel

\* The binding.
LEMMA BaseBind == Base /\ bind_inverters => Base'
<1> SUFFICES ASSUME Base, bind_inverters PROVE Base'
  OBVIOUS
<1> USE DEF Base, place, stored, addresses, array, ids, config, client, outside,
            module, day, orders, history
<1> USE DEF AtHome, OrdersStand, HomePlaces, ChannelPlaces, BindPlaces, LiftPlaces
<1>p. BindPlaces \cup {"round"} \subseteq Places
  BY DEF Places, Loops, Polling
<1>1. CASE BindHome
  <2>1. pc = "home" /\ pc' = "verify" /\ todo' \subseteq Inverters
    BY <1>1, <1>p, GoFacts DEF BindHome
  <2>2. /\ modpan' \in Pans /\ modch' \in Tunings
        /\ strayed' \in BOOLEAN /\ faults' \in 0..MaxFaults
        /\ strayed' \/ (modpan' = "home" /\ modch' = ecuch)
    BY <1>1, ModuleFacts, Types DEF BindHome
  <2>3. TypeOK'
    BY <1>1, <1>p, <2>1, <2>2, Types DEF BindHome, TypeOK
  <2> QED
    BY <1>1, <2>1, <2>2, <2>3, FiledStays DEF BindHome
<1>2. ASSUME NEW i \in Inverters, Verify(i) PROVE Base'
  <2>1. pc = "verify" /\ pc' = "verify" /\ todo' \subseteq Inverters
    BY <1>2, AtFacts DEF Verify
  <2>2. /\ short' \in [Inverters -> Addresses] /\ faults' \in 0..MaxFaults
        /\ orphaned' \subseteq Inverters
    <3>1. CASE i \in bound /\ UNCHANGED <<short, faults, orphaned>>
      BY <3>1, Types
    <3>2. ASSUME NEW G \in SUBSET {i},
                 Reached({j \in {i} : short[j] = "right"}, G),
                 short' = [short EXCEPT ![i] = IF i \in G THEN @ ELSE "none"],
                 orphaned' = orphaned \cup {j \in G : pan[j] # "home"}
          PROVE  /\ short' \in [Inverters -> Addresses]
                 /\ faults' \in 0..MaxFaults
                 /\ orphaned' \subseteq Inverters
      BY <3>2, ReachedFacts, Types DEF Addresses
    <3> QED
      BY <1>2, <3>1, <3>2 DEF Verify
  <2>3. TypeOK'
    BY <1>2, <1>p, <2>1, <2>2, Types DEF Verify, TypeOK
  <2> QED
    BY <1>2, <2>1, <2>3, FiledStays DEF Verify
<1>3. CASE BindNeeded
  <2>1. PICK p \in {"need", "bound"} : pc = "verify" /\ Go(p)
    BY <1>3 DEF BindNeeded
  <2>2. pc' = p /\ todo' \subseteq Inverters
    BY <1>p, <2>1, GoFacts
  <2>3. TypeOK'
    BY <1>3, <1>p, <2>2, Types DEF BindNeeded, TypeOK
  <2> QED
    BY <1>3, <2>1, <2>2, <2>3, FiledStays DEF BindNeeded
<1>4. CASE BindFFFF
  <2>1. pc = "need" /\ pc' = "flat" /\ todo' \subseteq Inverters
    BY <1>4, <1>p, GoFacts DEF BindFFFF
  <2>2. /\ modpan' \in Pans /\ modch' \in Tunings
        /\ missed' \subseteq Inverters /\ faults' \in 0..MaxFaults
    BY <1>4, ModuleFacts, Types DEF BindFFFF
  <2>3. TypeOK'
    BY <1>4, <1>p, <2>1, <2>2, Types DEF BindFFFF, TypeOK
  <2> QED
    BY <1>4, <2>1, <2>3, FiledStays DEF BindFFFF
<1>5. ASSUME NEW i \in Inverters, Flatten(i) PROVE Base'
  <2>1. pc = "flat" /\ pc' = "flat" /\ todo' \subseteq Inverters
    BY <1>5, AtFacts DEF Flatten
  <2>2. PICK G \in SUBSET {i} : /\ Reached({j \in {i} : Unknown(j)}, G)
                                /\ Moved(G, "ffff", ecuch)
    BY <1>5 DEF Flatten
  <2>3. /\ pan' \in [Inverters -> Pans] /\ ch' \in [Inverters -> Channels]
        /\ short' \in [Inverters -> Addresses]
        /\ fshort' \in [Inverters -> Addresses]
        /\ cshort' \in [Inverters -> Addresses]
        /\ faults' \in 0..MaxFaults
    <3>1. G \in SUBSET Inverters /\ "ffff" \in Pans
      BY <2>2 DEF Pans
    <3>2. faults' \in 0..MaxFaults
      BY <2>2, ReachedFacts, Types
    <3>3. ecuch \in Channels
      BY <2>1, Tuned
    <3> QED
      BY <3>1, <3>2, <3>3, <2>2, MovedFacts
  <2>4. TypeOK'
    BY <1>5, <1>p, <2>1, <2>3, Types DEF Flatten, TypeOK
  <2> QED
    BY <1>5, <2>1, <2>4, FiledStays DEF Flatten
<1>6. ASSUME NEW i \in Inverters, getaddrOldOrNew(i) PROVE Base'
  <2>1. pc = "ask" /\ pc' = "ask" /\ todo' \subseteq Inverters
    BY <1>6, AtFacts DEF getaddrOldOrNew
  <2>2. PICK G \in SUBSET {i} : /\ Reached({j \in {i} : Unknown(j)}, G)
                                /\ Learned(G \ New)
                                /\ bound' = bound \cup (G \cap New)
    BY <1>6 DEF getaddrOldOrNew
  <2>3. /\ short' \in [Inverters -> Addresses] /\ faults' \in 0..MaxFaults
        /\ bound' \subseteq Inverters
    BY <2>2, ReachedFacts, Types DEF Learned, Addresses
  <2>4. TypeOK'
    BY <1>6, <1>p, <2>1, <2>3, Types DEF getaddrOldOrNew, TypeOK
  <2> QED
    BY <1>6, <2>1, <2>4, FiledStays DEF getaddrOldOrNew
<1>7. ASSUME NEW i \in Inverters, send11order(i) PROVE Base'
  <2>1. pc = "order11" /\ pc' = "order11" /\ todo' \subseteq Inverters
    BY <1>7, AtFacts DEF send11order
  <2>2. PICK G \in SUBSET {i}, A \in SUBSET {i} :
          /\ Reached({j \in {i} \cap New : short[j] = "none"}, G)
          /\ staged' = staged \cup G
          /\ Learned(A)
          /\ missed' = missed \cup
               {j \in ({i} \cap New) \ G : short[j] = "none" /\ Hears(j)}
    BY <1>7 DEF send11order
  <2>3. G \subseteq New /\ faults' \in 0..MaxFaults
    BY <2>2, ReachedFacts, Types
  <2>4. /\ short' \in [Inverters -> Addresses]
        /\ staged' \subseteq New /\ missed' \subseteq Inverters
    BY <2>2, <2>3, Types DEF Learned, Addresses
  <2>5. TypeOK'
    BY <1>7, <1>p, <2>1, <2>3, <2>4, Types DEF send11order, TypeOK
  <2> QED
    BY <1>7, <2>1, <2>5, FiledStays DEF send11order
<1>8. ASSUME NEW i \in Inverters, MoveOld(i) PROVE Base'
  <2>1. pc = "old" /\ pc' = "old" /\ todo' \subseteq Inverters
    BY <1>8, AtFacts DEF MoveOld
  <2>2. PICK G \in SUBSET {i} :
          /\ Reached({i} \ bound, G)
          /\ Moved(G, "home", ecuch)
          /\ missed' = missed \cup {j \in ({i} \ bound) \ G : Hears(j)}
    BY <1>8 DEF MoveOld
  <2>3. /\ pan' \in [Inverters -> Pans] /\ ch' \in [Inverters -> Channels]
        /\ short' \in [Inverters -> Addresses]
        /\ fshort' \in [Inverters -> Addresses]
        /\ cshort' \in [Inverters -> Addresses]
        /\ faults' \in 0..MaxFaults /\ missed' \subseteq Inverters
    <3>1. G \in SUBSET Inverters /\ "home" \in Pans
      BY <2>2 DEF Pans
    <3>2. faults' \in 0..MaxFaults
      BY <2>2, ReachedFacts, Types
    <3>3. missed' \subseteq Inverters
      BY <2>2, Types
    <3>4. ecuch \in Channels
      BY <2>1, Tuned
    <3> QED
      BY <3>1, <3>2, <3>3, <3>4, <2>2, MovedFacts
  <2>4. TypeOK'
    BY <1>8, <1>p, <2>1, <2>3, Types DEF MoveOld, TypeOK
  <2> QED
    BY <1>8, <2>1, <2>4, FiledStays DEF MoveOld
<1>9. CASE NextLoop
  <2>1. /\ pc \in {"flat", "ask", "order11", "old"}
        /\ Go(CASE pc = "flat" -> "ask" [] pc = "ask" -> "order11"
                [] pc = "order11" -> "old" [] pc = "old" -> "order22")
    BY <1>9 DEF NextLoop
  <2>2. pc' \in {"ask", "order11", "old", "order22"} /\ todo' \subseteq Inverters
    BY <2>1, Types DEF Go
  <2>3. TypeOK'
    BY <1>9, <1>p, <2>2, Types DEF NextLoop, TypeOK
  <2> QED
    BY <1>9, <2>1, <2>2, <2>3, FiledStays DEF NextLoop
<1>10. CASE send22order
  <2>1. pc = "order22" /\ pc' = "back" /\ todo' \subseteq Inverters
    BY <1>10, <1>p, GoFacts DEF send22order
  <2>2. PICK G \in SUBSET staged :
          /\ Reached(staged, G)
          /\ Moved(G, "home", ecuch)
          /\ staged' = staged \ G
          /\ missed' = missed \cup {i \in staged \ G : Hears(i)}
    BY <1>10 DEF send22order
  <2>3. staged \subseteq Inverters /\ bound' = bound \ list
    BY <1>10, InvertersAssumption, Types DEF send22order
  <2>4. /\ pan' \in [Inverters -> Pans] /\ ch' \in [Inverters -> Channels]
        /\ short' \in [Inverters -> Addresses]
        /\ fshort' \in [Inverters -> Addresses]
        /\ cshort' \in [Inverters -> Addresses]
        /\ faults' \in 0..MaxFaults /\ missed' \subseteq Inverters
        /\ staged' \subseteq New
    <3>1. G \in SUBSET Inverters /\ "home" \in Pans
      BY <2>2, <2>3 DEF Pans
    <3>2. faults' \in 0..MaxFaults
      BY <2>2, ReachedFacts, Types
    <3>3. missed' \subseteq Inverters /\ staged' \subseteq New
      BY <2>2, <2>3, Types
    <3>4. Moved(G, "home", ecuch) /\ ecuch \in Channels
      BY <2>1, <2>2, Tuned
    <3> QED
      BY <3>1, <3>2, <3>3, <3>4, MovedFacts
  <2>5. TypeOK'
    BY <1>10, <1>p, <2>1, <2>3, <2>4, Types DEF send22order, TypeOK
  <2> QED
    BY <1>10, <2>1, <2>5, FiledStays DEF send22order
<1>11. CASE BindBack
  <2>1. pc = "back" /\ pc' = "bound" /\ todo' \subseteq Inverters
    BY <1>11, <1>p, GoFacts DEF BindBack
  <2>2. /\ modpan' \in Pans /\ modch' \in Tunings
        /\ strayed' \in BOOLEAN /\ faults' \in 0..MaxFaults
        /\ strayed' \/ (modpan' = "home" /\ modch' = ecuch)
    BY <1>11, ModuleFacts, Types DEF BindBack
  <2>3. TypeOK'
    BY <1>11, <1>p, <2>1, <2>2, Types DEF BindBack, TypeOK
  <2> QED
    BY <1>11, <2>1, <2>2, <2>3, FiledStays DEF BindBack
<1>12. CASE BindDone
  <2>1. pc = "done" /\ pc' = "round" /\ todo' \subseteq Inverters
    BY <1>12, <1>p, GoFacts DEF BindDone
  <2>2. orphaned' \subseteq Inverters
    BY <1>12, Types DEF BindDone, Listed, Due
  <2>4. /\ limiteid' = FALSE
        /\ UNCHANGED <<module, place, staged, addresses, array, day, chan,
                       ids, channel, change, outside, faults, orders,
                       missed, strayed>>
    BY <1>12 DEF BindDone
  <2>3. TypeOK'
    <3>1. pc' \in Places
      BY <1>p, <2>1
    <3>2. \A S \in {list', bound', todo', fids', fbound', named', cids', cbound',
                    wanted', missed', orphaned'} : S \subseteq Inverters
      BY <2>1, <2>2, <2>4, Types
    <3>3. limiteid' \in BOOLEAN
      BY <2>4
    <3> QED
      BY <3>1, <3>2, <3>3, <2>4 DEF TypeOK
  <2> QED
    BY <1>12, <2>1, <2>3, FiledStays DEF BindDone
<1> QED
  BY <1>1, <1>2, <1>3, <1>4, <1>5, <1>6, <1>7, <1>8, <1>9, <1>10, <1>11, <1>12
     DEF bind_inverters

\* A round of polling, with the search and the saving of the list.
LEMMA BaseRound ==
  Base /\ (getalldata \/ AfterRound \/ get_inverter_shortaddress
           \/ bind_nodata_inverter \/ Save) => Base'
<1> SUFFICES ASSUME Base, getalldata \/ AfterRound \/ get_inverter_shortaddress
                          \/ bind_nodata_inverter \/ Save
             PROVE  Base'
  OBVIOUS
<1> USE DEF Base, place, stored, addresses, array, ids, config, client, outside,
            module, day, orders, history
<1> USE DEF AtHome, OrdersStand, HomePlaces, ChannelPlaces, BindPlaces, LiftPlaces
<1>p. Polling \cup {"done"} \subseteq Places
  BY DEF Places
<1> USE DEF Polling
<1>1. CASE getalldata
  <2> DEFINE There == {i \in list : short[i] = "right"}
  <2>1. PICK B \in SUBSET There, G \in SUBSET There :
          /\ Reached(There, B \cap G)
          /\ bound' = bound \cup B
          /\ NoData(G)
          /\ missed' \subseteq missed
          /\ orphaned' \subseteq orphaned \cup B
          /\ Go("polled") \/ Go("after")
    BY <1>1 DEF getalldata
  <2>2. pc' \in {"polled", "after"} /\ todo' \subseteq Inverters
    BY <1>p, <2>1, GoFacts
  <2>3. /\ bound' \subseteq Inverters /\ missed' \subseteq Inverters
        /\ orphaned' \subseteq Inverters
    BY <2>1, Types
  <2>4. nodata' \in [Inverters -> 0..NoDataMax]
    BY <2>1, Types, LimitAssumption DEF NoData
  <2>5. polls' \in 0..PollMax
    BY <1>1, Types, LimitAssumption DEF getalldata
  <2>6. faults' \in 0..MaxFaults
    <3> HIDE DEF There
    <3> QED
      BY <2>1, ReachedFacts, Types
  <2>7. TypeOK'
    BY <1>1, <1>p, <2>2, <2>3, <2>4, <2>5, <2>6, Types DEF getalldata, TypeOK
  <2> QED
    BY <1>1, <2>2, <2>7, FiledStays DEF getalldata
<1>2. CASE AfterRound
  <2>1. PICK p \in {"far", "nodata"} : pc = "after" /\ Go(p)
    BY <1>2 DEF AfterRound
  <2>2. pc' = p /\ todo' \subseteq Inverters
    BY <1>p, <2>1, GoFacts
  <2>3. ten' \in BOOLEAN
    BY <1>2, Types DEF AfterRound, SearchEnds
  <2>4. TypeOK'
    BY <1>2, <1>p, <2>2, <2>3, Types DEF AfterRound, TypeOK
  <2> QED
    BY <1>2, <2>1, <2>2, <2>4, FiledStays DEF AfterRound
<1>3. CASE SearchFFFF
  <2>1. pc = "far" /\ pc' = "move" /\ todo' \subseteq Inverters
    BY <1>3, <1>p, GoFacts DEF SearchFFFF
  <2>2. modpan' \in Pans /\ modch' \in Tunings /\ faults' \in 0..MaxFaults
    BY <1>3, FaultType, ChannelsAssumption, Types DEF SearchFFFF, Pans, Tunings
  <2>3. TypeOK'
    BY <1>3, <1>p, <2>1, <2>2, Types DEF SearchFFFF, TypeOK
  <2> QED
    BY <1>3, <2>1, <2>3, FiledStays DEF SearchFFFF
<1>4. CASE SearchMove
  <2>1. pc = "move" /\ pc' = "return" /\ todo' \subseteq Inverters
    BY <1>4, <1>p, GoFacts DEF SearchMove
  <2>2. PICK G \in SUBSET {i \in Inverters : Needy(i)} :
          /\ Reached({i \in Inverters : Needy(i)}, G)
          /\ Moved(G, "home", ecuch)
    BY <1>4 DEF SearchMove
  <2>3. /\ pan' \in [Inverters -> Pans] /\ ch' \in [Inverters -> Channels]
        /\ short' \in [Inverters -> Addresses]
        /\ fshort' \in [Inverters -> Addresses]
        /\ cshort' \in [Inverters -> Addresses]
        /\ faults' \in 0..MaxFaults
    <3>1. G \in SUBSET Inverters /\ "home" \in Pans
      BY <2>2 DEF Pans
    <3>2. faults' \in 0..MaxFaults
      BY <2>2, ReachedFacts, Types
    <3>3. ecuch \in Channels
      BY <2>1, Tuned
    <3> QED
      BY <3>1, <3>2, <3>3, <2>2, MovedFacts
  <2>4. TypeOK'
    BY <1>4, <1>p, <2>1, <2>3, Types DEF SearchMove, TypeOK
  <2> QED
    BY <1>4, <2>1, <2>4, FiledStays DEF SearchMove
<1>5. CASE SearchReturn
  <2>1. pc = "return" /\ pc' = "find" /\ todo' \subseteq Inverters
    BY <1>5, <1>p, GoFacts DEF SearchReturn
  <2>2. /\ modpan' \in Pans /\ modch' \in Tunings
        /\ strayed' \in BOOLEAN /\ faults' \in 0..MaxFaults
        /\ strayed' \/ (modpan' = "home" /\ modch' = ecuch)
    BY <1>5, ModuleFacts, Types DEF SearchReturn
  <2>3. TypeOK'
    BY <1>5, <1>p, <2>1, <2>2, Types DEF SearchReturn, TypeOK
  <2> QED
    BY <1>5, <2>1, <2>2, <2>3, FiledStays DEF SearchReturn
<1>6. CASE SearchFind
  <2>1. PICK G \in SUBSET {i \in Inverters : Needy(i)} :
          /\ Reached({i \in Inverters : Needy(i)}, G)
          /\ Learned(G)
          /\ Go(IF G = {} THEN "nodata" ELSE "found")
    BY <1>6 DEF SearchFind
  <2>2. pc = "find" /\ pc' \in {"nodata", "found"} /\ todo' \subseteq Inverters
    BY <1>6, <2>1, Types DEF SearchFind, Go
  <2>3. /\ short' \in [Inverters -> Addresses] /\ faults' \in 0..MaxFaults
        /\ ten' \in BOOLEAN
    BY <1>6, <2>1, ReachedFacts, Types
       DEF SearchFind, Learned, Addresses, SearchEnds
  <2>4. TypeOK'
    BY <1>6, <1>p, <2>2, <2>3, Types DEF SearchFind, TypeOK
  <2> QED
    BY <1>6, <2>2, <2>4, FiledStays DEF SearchFind
<1>7. CASE bind_nodata_inverter
  <2>1. PICK G \in SUBSET {i \in list : nodata[i] > 0} :
          /\ Reached({i \in list : nodata[i] > 0}, G)
          /\ Learned(G)
          /\ Go(IF G = {} THEN "round" ELSE "refreshed")
    BY <1>7 DEF bind_nodata_inverter
  <2>2. /\ pc = "nodata" /\ pc' \in {"round", "refreshed"}
        /\ todo' \subseteq Inverters
    BY <1>7, <2>1, Types DEF bind_nodata_inverter, Go
  <2>3. short' \in [Inverters -> Addresses] /\ faults' \in 0..MaxFaults
    BY <2>1, ReachedFacts, Types DEF Learned, Addresses
  <2>4. TypeOK'
    BY <1>7, <1>p, <2>2, <2>3, Types DEF bind_nodata_inverter, TypeOK
  <2> QED
    BY <1>7, <2>2, <2>4, FiledStays DEF bind_nodata_inverter
<1>8. CASE Save
  <2>1. /\ pc \in Saves /\ updateID
        /\ Go(CASE pc = "bound" -> "done" [] pc = "polled" -> "after"
                [] pc = "found" -> "nodata" [] pc = "refreshed" -> "round")
    BY <1>8 DEF Save
  <2>2. /\ pc' \in {"done", "after", "nodata", "round"}
        /\ pc' = "done" <=> pc = "bound"
        /\ todo' \subseteq Inverters
    BY <2>1, Types DEF Go, Saves
  <2>3. /\ fids' \subseteq Inverters /\ fbound' \subseteq Inverters
        /\ fshort' \in [Inverters -> Addresses]
        /\ file' \in {"there", "mixed", "gone"}
    BY <2>1, FileTypes
  <2>4. /\ wanted' \subseteq Inverters /\ spoilt' \in BOOLEAN
        /\ spoilt' = (spoilt \/ Changing)
        /\ wanted' = IF spoilt' THEN {} ELSE wanted
    BY <1>8, Types DEF Save, Expect
  <2>5. TypeOK'
    BY <1>8, <1>p, <2>2, <2>3, <2>4, Types DEF Save, TypeOK
  <2>6. Filed'
    <3>1. fids' = list /\ file' # "gone" /\ UNCHANGED <<list, a103>>
      BY <1>8, <2>1 DEF Save, updateID, Overwritten
    <3>2. WorksOnFile'
      BY <3>1 DEF WorksOnFile
    <3>3. ~Changing => wanted = list \/ spoilt
      BY <2>1 DEF Filed, WorksOnFile, Contents, Changing, Writing, Open, Saves
    <3>4. Contents'
      BY <2>4, <3>1, <3>3 DEF Contents, Changing, Writing, Open
    <3> QED
      BY <3>1, <3>2, <3>4 DEF Filed
  <2> QED
    BY <1>8, <2>1, <2>2, <2>5, <2>6 DEF Save, Saves
<1> QED
  BY <1>1, <1>2, <1>3, <1>4, <1>5, <1>6, <1>7, <1>8
     DEF get_inverter_shortaddress

\* The main thread starts again.
LEMMA RestartFacts ==
  ASSUME Restarted
  PROVE  /\ pc' = "init" /\ pc' \in Places /\ todo' = {} /\ chan' = 0
         /\ chan' \in Tunings /\ list' = {} /\ bound' = {}
         /\ short' \in [Inverters -> Addresses]
         /\ nodata' \in [Inverters -> 0..NoDataMax]
         /\ polls' \in 0..PollMax /\ ten' \in BOOLEAN /\ ecuch' = ecuch
BY LimitAssumption
   DEF Restarted, NoAddress, Addresses, Tunings, Places, Polling

\* It leaves the list of the users on the file, or the file is spoilt; a reset
\* does so also when it interrupts A103.
LEMMA FiledLeft ==
  ASSUME Base, NEW cut \in BOOLEAN, FileLeft(cut), pc' = "init",
         \/ UNCHANGED client
         \/ cut = Writing /\ a103' = "none"
  PROVE  Filed'
<1> USE DEF Base, Filed, WorksOnFile, Contents, Changing, Writing, Open, client
<1>1. CASE UNCHANGED <<ids, fshort>> /\ Expect(wanted, spoilt \/ cut)
  BY <1>1 DEF ids, Expect
<1>2. CASE pc \in Saves /\ CutShort(cut)
  <2>1. PICK S \in SUBSET list :
          /\ fids' = S
          /\ file' # "gone"
          /\ spoilt' = (spoilt \/ Changing \/ cut \/ S # list)
          /\ wanted' = IF spoilt' THEN {} ELSE wanted
    BY <1>2 DEF CutShort, Overwritten, Expect
  <2>2. ~spoilt' => list = wanted
    BY <1>2, <2>1 DEF Saves
  <2> QED
    BY <2>1, <2>2
<1> QED
  BY <1>1, <1>2 DEF FileLeft

LEMMA BaseRestart ==
  ASSUME Base, Restarted, NEW cut \in BOOLEAN, FileLeft(cut),
         UNCHANGED <<module, place, staged, config, missed, strayed>>,
         \/ UNCHANGED <<cshort, client>>
         \/ cut = Writing /\ a103' = "none" /\ named' = {} /\ Closed,
         orphaned' \subseteq Inverters,
         faults' \in 0..MaxFaults, late' \in BOOLEAN
  PROVE  Base'
<1> USE DEF Base, place, config, module, client
<1> USE DEF AtHome, OrdersStand, HomePlaces, ChannelPlaces, BindPlaces, LiftPlaces
<1>1. /\ fids' \subseteq Inverters /\ fbound' \subseteq Inverters
      /\ fshort' \in [Inverters -> Addresses]
      /\ file' \in {"there", "mixed", "gone"}
      /\ wanted' \subseteq Inverters /\ spoilt' \in BOOLEAN
  BY FileTypes
<1>2. /\ pc' = "init" /\ pc' \in Places /\ todo' = {} /\ chan' \in Tunings
      /\ list' = {} /\ bound' = {}
      /\ short' \in [Inverters -> Addresses]
      /\ nodata' \in [Inverters -> 0..NoDataMax]
      /\ polls' \in 0..PollMax /\ ten' \in BOOLEAN /\ ecuch' = ecuch
  BY RestartFacts
<1>3. /\ a103' \in Stages /\ named' \subseteq Inverters
      /\ cids' \subseteq Inverters /\ cbound' \subseteq Inverters
      /\ cshort' \in [Inverters -> Addresses]
  BY Types DEF Closed, Stages, NoAddress, Addresses
<1>4. TypeOK'
  BY <1>1, <1>2, <1>3, Types DEF TypeOK
<1>5. Filed'
  BY <1>2, FiledLeft
<1> QED
  BY <1>2, <1>4, <1>5

\* A103 begins.
LEMMA BaseA103 == Base /\ A103 => Base'
<1> SUFFICES ASSUME Base, A103 PROVE Base'
  OBVIOUS
<1> USE DEF Base, place, stored, addresses, array, ids, config, client, outside,
            module, day, main, orders, history
<1>1. /\ a103 = "none" /\ faults' \in 0..MaxFaults
      /\ UNCHANGED <<module, place, staged, short, array, day, main, config, late,
                     missed, orphaned, strayed>>
  BY FaultType, Types DEF A103, add_id, delete_id, clear_id, Order
<1>2. spoilt \/ fids = wanted
  BY <1>1 DEF Filed, Contents
<1>3. AtHome' /\ OrdersStand'
  BY <1>1 DEF AtHome, OrdersStand
<1>4. ASSUME add_id \/ delete_id PROVE Base'
  <2>1. /\ a103' \in {"adding", "reading"}
        /\ named' \subseteq Inverters
        /\ file' = "there"
        /\ UNCHANGED <<fids, fshort, fbound>>
        /\ cids' = fids /\ cshort' = fshort /\ cbound' = fbound
        /\ a103' = "adding" => Expect(wanted \cup named', spoilt)
        /\ a103' = "reading" => Expect(wanted \ named', spoilt)
    BY <1>4, Types DEF add_id, delete_id, Read
  <2>2. TypeOK'
    BY <1>1, <2>1, Types DEF TypeOK, Stages, Expect
  <2>3. Filed'
    BY <1>1, <1>2, <2>1 DEF Filed, Contents, WorksOnFile, Changing, Writing, Open,
                            Expect
  <2> QED
    BY <1>3, <2>2, <2>3
<1>5. CASE clear_id
  <2>1. /\ a103' = "filed" /\ fids' = {} /\ fbound' = {} /\ file' = "gone"
        /\ fshort' \in [Inverters -> Addresses]
        /\ wanted' = {} /\ ~spoilt' /\ spoilt' \in BOOLEAN
        /\ UNCHANGED <<named, cids, cshort, cbound>>
    BY <1>5 DEF clear_id, NoAddress, Addresses, Expect
  <2>2. TypeOK'
    <3>1. {} \subseteq Inverters /\ a103' \in Stages
      BY <2>1 DEF Stages
    <3> QED
      BY <1>1, <2>1, <3>1, Types DEF TypeOK
  <2>3. Filed'
    BY <1>1, <2>1 DEF Filed, Contents, WorksOnFile, Changing
  <2> QED
    BY <1>3, <2>2, <2>3
<1> QED
  BY <1>4, <1>5 DEF A103

\* A103 goes on with the file.
LEMMA BaseFile ==
  Base /\ (Append \/ OrderToBind \/ (\E i \in Inverters : RemoveID(i)) \/ RenameID)
    => Base'
<1> SUFFICES ASSUME Base,
                    \/ Append \/ OrderToBind
                    \/ (\E i \in Inverters : RemoveID(i)) \/ RenameID
             PROVE  Base'
  OBVIOUS
<1> USE DEF Base, place, stored, addresses, array, ids, config, client, outside,
            module, day, main, orders, history
<1>1. CASE Append
  <2>1. PICK S \in SUBSET Inverters, old \in SUBSET Inverters :
          /\ Found(S, old)
          /\ fids' = S \cup named
          /\ fshort' = FoundShort(S, old) /\ fbound' = FoundBound(S, old)
          /\ orphaned' = orphaned \cup Returned(S, old)
    BY <1>1 DEF Append
  <2>2. /\ fshort' \in [Inverters -> Addresses]
        /\ fbound' \subseteq Inverters
        /\ orphaned' \subseteq Inverters
        /\ file = "there" => S = fids
    BY <2>1, FoundFacts, Types
  <2>3. /\ a103 = "adding" /\ a103' = "appended" /\ file' = "there"
        /\ cids' = {} /\ cbound' = {} /\ cshort' \in [Inverters -> Addresses]
        /\ UNCHANGED <<module, place, staged, short, array, day, main, config, late,
                       named, faults, orders, missed, strayed>>
    BY <1>1 DEF Append, Closed, NoAddress, Addresses
  <2>4. TypeOK'
    BY <2>1, <2>2, <2>3, Types DEF TypeOK, Stages
  <2>5. Filed'
    BY <2>1, <2>2, <2>3 DEF Filed, Contents, WorksOnFile, Changing
  <2> QED
    BY <2>3, <2>4, <2>5 DEF AtHome, OrdersStand
<1>2. CASE OrderToBind
  <2>1. TypeOK'
    BY <1>2, Types DEF OrderToBind, TypeOK, Stages
  <2>2. Filed'
    BY <1>2 DEF OrderToBind, Filed, Contents, WorksOnFile, Changing
  <2> QED
    BY <1>2, <2>1, <2>2 DEF OrderToBind, AtHome, OrdersStand
<1>3. ASSUME NEW i \in Inverters, RemoveID(i) PROVE Base'
  <2>1. PICK S \in SUBSET Inverters, old \in SUBSET Inverters :
          /\ Found(S, old)
          /\ cids' = S \ {i}
          /\ cshort' = [FoundShort(S, old) EXCEPT ![i] = "none"]
          /\ cbound' = FoundBound(S, old) \ {i}
          /\ orphaned' = orphaned \cup Returned(S, old)
    BY <1>3 DEF RemoveID
  <2>2. /\ cshort' \in [Inverters -> Addresses]
        /\ cbound' \subseteq Inverters
        /\ orphaned' \subseteq Inverters
        /\ file = "there" => S = fids
    BY <2>1, FoundFacts, Types DEF Addresses
  <2>3. /\ a103 = "reading" /\ a103' = "removed"
        /\ i \in named /\ named' = named \ {i}
        /\ file' = "gone" /\ fids' = {} /\ fbound' = {}
        /\ fshort' \in [Inverters -> Addresses]
        /\ UNCHANGED <<module, place, staged, short, array, day, main, config, late,
                       faults, orders, missed, strayed>>
    BY <1>3 DEF RemoveID, NoAddress, Addresses
  <2>4. TypeOK'
    BY <2>1, <2>2, <2>3, Types DEF TypeOK, Stages
  <2>5. Filed'
    BY <2>1, <2>2, <2>3 DEF Filed, Contents, WorksOnFile, Changing, Writing
  <2> QED
    BY <2>3, <2>4, <2>5 DEF AtHome, OrdersStand
<1>4. CASE RenameID
  <2>1. /\ a103 = "removed"
        /\ \/ file = "gone" /\ file' = "there" /\ fids' = cids /\ fbound' = cbound
              /\ fshort' = cshort
           \/ file # "gone" /\ UNCHANGED <<file, fids, fbound, fshort>>
        /\ UNCHANGED <<module, place, staged, short, array, day, main, config,
                       late, named, faults, history>>
    BY <1>4 DEF RenameID
  <2>2. \/ /\ a103' = "filed" /\ named = {}
           /\ cids' = {} /\ cbound' = {} /\ cshort' \in [Inverters -> Addresses]
        \/ /\ a103' = "reading" /\ named # {}
           /\ cids' = fids' /\ cshort' = fshort' /\ cbound' = fbound'
    BY <1>4 DEF RenameID, Closed, NoAddress, Addresses
  <2>3. /\ fids' \subseteq Inverters /\ fbound' \subseteq Inverters
        /\ fshort' \in [Inverters -> Addresses]
        /\ file' \in {"there", "mixed", "gone"}
    BY <2>1, Types
  <2>4. TypeOK'
    BY <2>1, <2>2, <2>3, Types DEF TypeOK, Stages
  <2>5. Filed'
    BY <2>1, <2>2 DEF Filed, Contents, WorksOnFile, Changing, Writing, Open
  <2> QED
    BY <2>1, <2>4, <2>5 DEF AtHome, OrdersStand
<1> QED
  BY <1>1, <1>2, <1>3, <1>4

\* The rest of A103.
LEMMA BaseArray == Base /\ (ClearArray \/ ReadArray \/ RestartMain) => Base'
<1> SUFFICES ASSUME Base, ClearArray \/ ReadArray \/ RestartMain PROVE Base'
  OBVIOUS
<1> USE DEF Base, place, stored, addresses, array, ids, config, client, outside,
            module, day, main, orders, history
<1>1. CASE ClearArray
  <2>1. nodata' \in [Inverters -> 0..NoDataMax] /\ orphaned' \subseteq Inverters
    BY <1>1, LimitAssumption, Types DEF ClearArray, LeftOut
  <2>2. TypeOK'
    BY <1>1, <2>1, Types DEF ClearArray, TypeOK, Stages
  <2>3. Filed'
    BY <1>1 DEF ClearArray, Filed, Contents, WorksOnFile, Changing
  <2> QED
    BY <1>1, <2>2, <2>3 DEF ClearArray, AtHome, OrdersStand
<1>2. CASE ReadArray
  <2>1. orphaned' \subseteq Inverters
    BY <1>2, Types DEF ReadArray, LeftOut
  <2>2. TypeOK'
    BY <1>2, <2>1, Types DEF ReadArray, get_id_from_file, TypeOK, Stages
  <2>3. Filed'
    BY <1>2 DEF ReadArray, get_id_from_file, Filed, Contents, WorksOnFile
  <2> QED
    BY <1>2, <2>2, <2>3 DEF ReadArray, AtHome, OrdersStand
<1>3. CASE RestartMain
  <2> USE DEF HomePlaces, ChannelPlaces, BindPlaces, LiftPlaces
  <2>1. /\ a103 = "timer" /\ a103' = "none"
        /\ Restarted /\ FileLeft(FALSE)
        /\ UNCHANGED <<module, place, staged, cshort, config, late, named, cids,
                       cbound, faults, missed, orphaned, strayed>>
    BY <1>3 DEF RestartMain
  <2>2. Filed'
    BY <2>1, FiledLeft, RestartFacts DEF Changing, Writing, Open
  <2>3. TypeOK'
    <3>1. /\ fids' \subseteq Inverters /\ fbound' \subseteq Inverters
          /\ fshort' \in [Inverters -> Addresses]
          /\ file' \in {"there", "mixed", "gone"}
          /\ wanted' \subseteq Inverters /\ spoilt' \in BOOLEAN
      BY <2>1, FileTypes
    <3>2. a103' \in Stages
      BY <2>1 DEF Stages
    <3> QED
      BY <2>1, <3>1, <3>2, RestartFacts, Types DEF TypeOK
  <2> QED
    BY <2>1, <2>2, <2>3, RestartFacts DEF AtHome, OrdersStand
<1> QED
  BY <1>1, <1>2, <1>3

\* The phone.
LEMMA BasePhone ==
  Base /\ (Phone_RegisterID \/ RegisterCut \/ Phone_SetChannel \/ restartThread)
    => Base'
<1> SUFFICES ASSUME Base,
                    \/ Phone_RegisterID \/ RegisterCut \/ Phone_SetChannel
                    \/ restartThread
             PROVE  Base'
  OBVIOUS
<1> USE DEF Base, place, stored, ids, config, client, outside, module, orders
<1> USE DEF AtHome, OrdersStand, HomePlaces, ChannelPlaces, BindPlaces, LiftPlaces
<1>1. faults' \in 0..MaxFaults /\ Restarted
  BY FaultType, Types
     DEF Order, Phone_RegisterID, RegisterCut, Phone_SetChannel, restartThread
<1>2. /\ pc' = "init" /\ pc' \in Places /\ todo' = {} /\ chan' \in Tunings
      /\ list' = {} /\ bound' = {}
      /\ short' \in [Inverters -> Addresses]
      /\ nodata' \in [Inverters -> 0..NoDataMax]
      /\ polls' \in 0..PollMax /\ ten' \in BOOLEAN /\ ecuch' = ecuch
  BY <1>1, RestartFacts
<1>3. CASE Phone_RegisterID
  <2>1. /\ fids' \subseteq Inverters /\ fbound' = {}
        /\ fshort' \in [Inverters -> Addresses]
        /\ file' \in {"there", "mixed"} /\ limiteid' = TRUE
        /\ UNCHANGED <<module, place, staged, cshort, channel, change, outside,
                       missed, orphaned, strayed>>
    BY <1>3 DEF Phone_RegisterID, NoAddress, Addresses, Overwritten
  <2>2. /\ spoilt' = (Open \/ (a103 = "removed" /\ named # {}))
        /\ wanted' = IF spoilt' THEN {} ELSE fids'
    BY <1>3 DEF Phone_RegisterID, Expect
  <2>3. wanted' \subseteq Inverters /\ spoilt' \in BOOLEAN
    BY <2>1, <2>2
  <2>4. TypeOK'
    BY <1>1, <1>2, <2>1, <2>3, Types DEF TypeOK
  <2>5. Filed'
    BY <1>2, <2>1, <2>2 DEF Filed, Contents, WorksOnFile, Open
  <2> QED
    BY <1>2, <2>1, <2>4, <2>5
<1>4. CASE RegisterCut
  <2>1. /\ fids' \subseteq Inverters /\ fbound' = {}
        /\ fshort' \in [Inverters -> Addresses]
        /\ file' = "there" /\ limiteid' \in BOOLEAN /\ (limiteid => limiteid')
        /\ a103' = "none" /\ named' = {} /\ cids' = {} /\ cbound' = {}
        /\ cshort' \in [Inverters -> Addresses]
        /\ spoilt' /\ spoilt' \in BOOLEAN /\ wanted' \subseteq Inverters
        /\ orphaned' \subseteq Inverters
        /\ UNCHANGED <<module, place, staged, channel, change, late, missed, strayed>>
    <3>1. limiteid' \in BOOLEAN /\ (limiteid => limiteid')
      <4>1. limiteid' = limiteid \/ limiteid' = TRUE
        BY <1>4 DEF RegisterCut
      <4>2. limiteid \in BOOLEAN
        BY Types
      <4> QED
        BY <4>1, <4>2
    <3>2. fids' \subseteq Inverters /\ orphaned' \subseteq Inverters
      BY <1>4, Types DEF RegisterCut
    <3>3. /\ fshort' \in [Inverters -> Addresses]
          /\ cids' = {} /\ cbound' = {} /\ cshort' \in [Inverters -> Addresses]
      BY <1>4 DEF RegisterCut, Closed, NoAddress, Addresses
    <3>4. spoilt' /\ spoilt' \in BOOLEAN /\ wanted' \subseteq Inverters
      BY <1>4 DEF RegisterCut, Expect
    <3> QED
      BY <1>4, <3>1, <3>2, <3>3, <3>4 DEF RegisterCut
  <2>2. TypeOK'
    <3>1. {} \subseteq Inverters /\ a103' \in Stages
      BY <2>1 DEF Stages
    <3>2. file' \in {"there", "mixed", "gone"}
      BY <2>1
    <3> QED
      BY <1>1, <1>2, <2>1, <3>1, <3>2, Types DEF TypeOK
  <2>3. Filed'
    BY <1>2, <2>1 DEF Filed, Contents, WorksOnFile
  <2> QED
    BY <1>2, <2>1, <2>2, <2>3
<1>5. CASE Phone_SetChannel
  <2>1. PICK c \in {ecuch, 0}, d \in Chosen \ {ecuch} : change' = <<c, d>>
    BY <1>5 DEF Phone_SetChannel
  <2>2. change' \in Tunings \X Channels /\ change' # NoChange
    <3>1. c \in Tunings /\ d \in Channels /\ d # 0
      BY ChannelsAssumption, Types DEF Tunings
    <3> QED
      BY <2>1, <3>1 DEF NoChange
  <2>3. /\ FileLeft(FALSE) /\ limiteid' = TRUE /\ orphaned' \subseteq Inverters
        /\ UNCHANGED <<module, place, staged, cshort, channel, outside, missed,
                       strayed>>
    BY <1>5, Types DEF Phone_SetChannel
  <2>4. TypeOK'
    <3>1. /\ fids' \subseteq Inverters /\ fbound' \subseteq Inverters
          /\ fshort' \in [Inverters -> Addresses]
          /\ file' \in {"there", "mixed", "gone"}
          /\ wanted' \subseteq Inverters /\ spoilt' \in BOOLEAN
      BY <2>3, FileTypes
    <3> QED
      BY <1>1, <1>2, <2>2, <2>3, <3>1, Types DEF TypeOK
  <2>5. Filed'
    BY <1>2, <2>3, FiledLeft
  <2> QED
    BY <1>2, <2>2, <2>3, <2>4, <2>5
<1>6. CASE restartThread
  BY <1>1, <1>6, BaseRestart, Types DEF restartThread
<1> QED
  BY <1>3, <1>4, <1>5, <1>6

\* The resets and the clock.
LEMMA BaseClock == Base /\ (reboot \/ NightlyReset \/ TenOClock) => Base'
<1> SUFFICES ASSUME Base, reboot \/ NightlyReset \/ TenOClock PROVE Base'
  OBVIOUS
<1>1. CASE reboot \/ NightlyReset
  <2>1. /\ Restarted /\ FileLeft(Writing)
        /\ a103' = "none" /\ named' = {} /\ Closed
        /\ UNCHANGED <<module, place, staged, config, missed, strayed>>
    BY <1>1 DEF reboot, NightlyReset, Reset
  <2>2. orphaned' \subseteq Inverters /\ faults' \in 0..MaxFaults
    BY <1>1, FaultType, Types DEF Base, reboot, NightlyReset, Reset, Due
  <2>3. late' \in BOOLEAN /\ Writing \in BOOLEAN
    BY <1>1, Types DEF Base, reboot, NightlyReset, Writing
  <2> QED
    BY <2>1, <2>2, <2>3, BaseRestart
<1>2. CASE TenOClock
  <2> USE DEF Base, place, stored, addresses, array, ids, config, client, outside,
              module, day, main, orders, history
  <2>1. faults' \in 0..MaxFaults
    BY <1>2, FaultType, Types DEF TenOClock
  <2>2. TypeOK'
    BY <1>2, <2>1, Types DEF TenOClock, TypeOK
  <2>3. Filed'
    BY <1>2, FiledStays DEF TenOClock
  <2> QED
    BY <1>2, <2>2, <2>3 DEF TenOClock, AtHome, OrdersStand
<1> QED
  BY <1>1, <1>2

\* Base is inductive.
LEMMA BaseStep == Base /\ [Next]_vars => Base'
<1> SUFFICES ASSUME Base, [Next]_vars PROVE Base'
  OBVIOUS
<1>1. CASE Next
  BY <1>1, BaseStart, BaseChannel, BaseBind, BaseRound, BaseA103, BaseFile,
     BaseArray, BasePhone, BaseClock
     DEF Next, Main, set_inverter_id
<1>2. CASE UNCHANGED vars
  <2> USE DEF vars, module, place, stored, addresses, array, day, main, ids, config,
              client, outside, orders, history
  <2>1. Filed'
    BY <1>2, FiledStays DEF Base
  <2> QED
    BY <1>2, <2>1 DEF Base, TypeOK, AtHome, OrdersStand
<1> QED
  BY <1>1, <1>2

\* Base holds always.
THEOREM BaseInvariance == Spec => []Base
BY BaseInit, BaseStep, PTL DEF Spec

\* Every variable has its type; no_getdata_num and polling_total_times stay
\* within their limits, for all channels and inverters.
THEOREM TypeCorrect == Spec => []TypeOK
<1>1. Base => TypeOK
  BY DEF Base
<1> QED
  BY <1>1, BaseInvariance, PTL

\* The module is home at every round (getalldata), whatever the search, the
\* binding, the change of channels and the restarts did, unless the last command
\* to bring it home was lost.
THEOREM HomeAtRounds == Spec => []ModuleHome
<1>1. Base => ModuleHome
  BY DEF Base, AtHome, HomePlaces, ModuleHome
<1> QED
  BY <1>1, BaseInvariance, PTL

\* The main thread works on the inverters in the file id, whoever wrote it, in
\* whatever step of whatever writer it was interrupted, except while A103 is
\* changing it: neither the restarts, the phone's list nor a file cut off leave
\* it with another list.
THEOREM WorksOnWhatIsFiled == Spec => []WorksOnFile
<1>1. Base => WorksOnFile
  BY DEF Base, Filed
<1> QED
  BY <1>1, BaseInvariance, PTL

\* When A103 is not at it, the file id has the inverters the users entered,
\* unless two wrote it at once or a writer (updateID, delete_line, add_id, the
\* phone's list) was interrupted for good.  In between, what A103 has yet to do
\* makes it so (Contents).
THEOREM OrderedStaysListed == Spec => []ListAsOrdered
<1>1. Base => ListAsOrdered
  BY DEF Base, Filed, Contents, ListAsOrdered, Writing, Open
<1> QED
  BY <1>1, BaseInvariance, PTL

-----------------------------------------------------------------------------
(* Where the inverters are.                                                 *)

\* While the inverters are told to move, the module is where they listen, or
\* the command that sent it there was lost and all of them missed theirs.
OnMission ==
  /\ pc \in LiftPlaces =>
       Inverters \subseteq missed \/ (modpan = "ffff" /\ modch = ecuch)
  /\ pc = "chan" =>
       Inverters \subseteq missed \/ (modpan = "ffff" /\ modch = chan)

\* An inverter that missed no message to move and was not left out.
Free(i) == i \notin missed \cup orphaned

\* It is at home or on the channel of the search; where a change of the channel
\* takes it; in PAN 0xFFFF, from where the binding has to take it home.
Near(i) == ch[i] = Default \/ (pan[i] = "home" /\ ch[i] = ecuch)
Settled(i) == ch[i] = Default \/ (pan[i] = "home" /\ ch[i] = change[2])
Lifted(i) == pan[i] = "ffff" /\ ch[i] = ecuch /\ ~Near(i)

\* Nowhere else is it, and an order to change the channel finds it.
Whereabouts(i) == IF change = NoChange THEN Near(i) \/ Lifted(i)
                  ELSE Settled(i) \/ change[1] \in {0, ch[i]}

\* How far the change of the channel is with an inverter of the array.
Told(i) ==
  /\ i \in list =>
       /\ pc = "scan" => Settled(i) \/ ch[i] >= chan
       /\ pc = "chan" => \/ Settled(i)
                         \/ i \in todo /\ ch[i] >= chan
                         \/ change[1] = 0 /\ ch[i] > chan
       /\ pc \in {"save", "saving"} => Settled(i)
  /\ pc = "unlink" => Near(i)

\* The inverters with a bindflag in the file, or in the copy to be renamed.
Flagged == IF a103 = "removed" /\ file = "gone" THEN cbound ELSE fbound

\* Until the bindflags are cleared, one that has it there has it in RAM.
BoundOnFile(i) ==
  pc \in ChannelPlaces \cup {"home", "verify", "need"} \cup LiftPlaces =>
    (i \in Flagged => i \in bound)

\* One in PAN 0xFFFF is not on the file as bound, and the order to bind stands
\* if it is on the file or in the array, or A103 has yet to give it.
Remembered(i) ==
  Lifted(i) =>
    /\ i \notin Flagged
    /\ i \in Listed \cup list => limiteid \/ i \in Due
    /\ i \in bound => i \in list /\ pc \in LiftPlaces \ {"flat"}

\* How far the binding is with one in PAN 0xFFFF: those found but not told
\* their address are moved by order 22, the others one by one.
Fetched(i) ==
  Lifted(i) /\ i \in list =>
    /\ pc = "verify" => i \in todo \/ short[i] = "none"
    /\ pc \in {"need", "flat"} => short[i] = "none"
    /\ pc = "ask" /\ i \in bound => i \in New /\ short[i] = "none"
    /\ pc = "order11" /\ i \in bound =>
         i \in staged \/ (i \in todo /\ i \in New /\ short[i] = "none")
    /\ pc = "old" => i \in staged \/ (i \in todo /\ i \notin bound)
    /\ pc = "order22" => i \in staged
    /\ pc \notin {"back", "bound", "done"}

\* The loops go over the array.
InArray(i) == i \in todo => i \in list /\ pc \in Loops

Kept(i) == /\ Whereabouts(i) /\ Told(i) /\ BoundOnFile(i) /\ Remembered(i)
           /\ Fetched(i) /\ InArray(i)

Deep == OnMission /\ \A i \in Inverters : Free(i) => Kept(i)

Inv == Base /\ Deep

-----------------------------------------------------------------------------
(* Deep is an invariant.                                                    *)

\* Channels are numbers.
LEMMA ChannelsAreNumbers ==
  ASSUME TypeOK
  PROVE  /\ \A i \in Inverters : ch[i] \in Channels /\ ch[i] \in Nat
         /\ chan \in Nat
         /\ Channels \subseteq Nat \ {0}
<1>1. \A i \in Inverters : ch[i] \in Channels
  BY Types
<1>2. chan \in Channels \cup {0}
  BY Types DEF Tunings
<1>3. Channels \subseteq Nat \ {0}
  BY ChannelsAssumption
<1>4. \A c \in Channels \cup {0} : c \in Nat
  BY <1>3
<1> QED
  BY <1>1, <1>2, <1>3, <1>4

\* The file, and what A103 does with it, stay.
LEMMA SameFile ==
  ASSUME UNCHANGED <<ids, client>>
  PROVE  Listed' = Listed /\ Due' = Due /\ Flagged' = Flagged
BY DEF ids, client, Listed, Due, Flagged

LEMMA DeepInit == Init => Deep
<1> SUFFICES ASSUME Init PROVE Deep
  OBVIOUS
<1>1. OnMission
  BY DEF Init, OnMission, LiftPlaces
<1>2. ASSUME NEW i \in Inverters PROVE Kept(i)
  <2>1. Near(i)
    BY DEF Init, Near
  <2> QED
    BY <2>1 DEF Init, Kept, Whereabouts, Told, BoundOnFile, Remembered, Fetched,
                InArray, Lifted, ChannelPlaces, LiftPlaces
<1> QED
  BY <1>1, <1>2 DEF Deep

\* The start.
LEMMA DeepStart == Inv /\ (init_ecu \/ init_inverter) => Deep'
<1> SUFFICES ASSUME Inv, init_ecu \/ init_inverter PROVE Deep'
  OBVIOUS
<1>i. TypeOK /\ OrdersStand /\ Deep
  BY DEF Inv, Base
<1>n. /\ Channels \subseteq Nat \ {0}
      /\ \A i \in Inverters : ch[i] \in Channels /\ ch[i] \in Nat
  BY <1>i, ChannelsAreNumbers
<1> USE DEF place, stored, addresses, array, config, outside, module, day, history
<1>1. CASE init_ecu
  <2>1. /\ pc = "init" /\ pc' = "read" /\ todo' = {} /\ ecuch' = channel
        /\ UNCHANGED <<pan, ch, list, bound, short, staged, ids, client,
                       limiteid, change, missed, orphaned>>
    BY <1>1 DEF init_ecu, Go, Loops
  <2>2. OnMission'
    BY <2>1 DEF OnMission, LiftPlaces
  <2>3. ASSUME NEW i \in Inverters, Free(i)' PROVE Kept(i)'
    <3>1. Kept(i)
      BY <1>i, <2>1, <2>3 DEF Deep, Free
    <3>2. CASE channel = ecuch
      BY <2>1, <3>1, <3>2, SameFile
         DEF Kept, Whereabouts, Told, BoundOnFile, Remembered, Fetched, InArray,
             Lifted, Near, Settled, ChannelPlaces, LiftPlaces
    <3>3. CASE channel # ecuch
      <4>1. channel = 0 /\ change # NoChange
        BY <1>i, <3>3 DEF OrdersStand
      <4>2. ~Lifted(i)'
        BY <1>n, <2>1, <4>1 DEF Lifted
      <4> QED
        BY <2>1, <3>1, <4>1, <4>2
           DEF Kept, Whereabouts, Told, BoundOnFile, Remembered, Fetched, InArray,
               Settled, ChannelPlaces, LiftPlaces
    <3> QED
      BY <3>2, <3>3
  <2> QED
    BY <2>2, <2>3 DEF Deep
<1>2. CASE init_inverter
  <2> DEFINE least == CHOOSE c \in Channels : \A d \in Channels : c <= d
  <2>1. \A d \in Channels : least <= d
    BY <1>n, Least, ChannelsAssumption
  <2> HIDE DEF least
  <2>2. /\ pc = "read" /\ todo' = {}
        /\ list' = fids /\ bound' = fbound /\ fids # {}
        /\ UNCHANGED <<pan, ch, ecuch, staged, ids, client,
                       limiteid, change, missed, orphaned>>
    BY <1>2 DEF init_inverter, get_id_from_file
  <2>3. \/ pc' = "round" \/ pc' = "home"
        \/ /\ pc' = "scan" /\ change # NoChange
           /\ chan' = IF change[1] # 0 THEN change[1] ELSE least
    BY <1>2 DEF init_inverter, least
  <2>4. OnMission'
    BY <2>2, <2>3 DEF OnMission, LiftPlaces
  <2>5. Listed = fids /\ Flagged = fbound
    BY <2>2 DEF Inv, Base, Filed, Listed, Flagged
  <2>6. ASSUME NEW i \in Inverters, Free(i)' PROVE Kept(i)'
    <3>1. Kept(i)
      BY <1>i, <2>2, <2>6 DEF Deep, Free
    <3>2. Whereabouts(i)' /\ BoundOnFile(i)' /\ Remembered(i)' /\ InArray(i)'
      BY <2>2, <2>5, <3>1, SameFile
         DEF Kept, Whereabouts, BoundOnFile, Remembered, InArray, Lifted, Near,
             Settled
    <3>3. Told(i)'
      <4>1. pc' = "scan" => Settled(i) \/ ch[i] >= chan'
        BY <1>n, <2>1, <2>3, <3>1 DEF Kept, Whereabouts
      <4> QED
        BY <2>2, <2>3, <4>1 DEF Told, Settled
    <3>4. Fetched(i)'
      BY <2>3 DEF Fetched
    <3> QED
      BY <3>2, <3>3, <3>4 DEF Kept
  <2> QED
    BY <2>4, <2>6 DEF Deep
<1> QED
  BY <1>1, <1>2

\* The change of the channel.
LEMMA DeepChannel == Inv /\ process_channel => Deep'
<1> SUFFICES ASSUME Inv, process_channel PROVE Deep'
  OBVIOUS
<1>i. TypeOK /\ OrdersStand /\ Deep
  BY DEF Inv, Base
<1>n. /\ Channels \subseteq Nat \ {0} /\ chan \in Nat
      /\ \A i \in Inverters : ch[i] \in Channels /\ ch[i] \in Nat
  BY <1>i, ChannelsAreNumbers
<1> USE DEF place, stored, addresses, array, config, outside, module, day, history
<1>1. CASE ScanChannel
  <2>1. /\ pc = "scan" /\ pc' = "chan" /\ todo' = list
        /\ UNCHANGED <<pan, ch, ecuch, list, bound, short, staged, ids, client,
                       limiteid, change, chan, orphaned>>
    BY <1>1 DEF ScanChannel, Go, Loops
  <2>2. /\ missed \subseteq missed'
        /\ Inverters \subseteq missed' \/ (modpan' = "ffff" /\ modch' = chan)
    <3>1. chan \in Tunings
      BY <1>i, Types
    <3> QED
      BY <1>1, <1>i, <2>1, <3>1, ModuleFacts DEF ScanChannel
  <2>3. OnMission'
    BY <1>i, <2>1, <2>2
       DEF Deep, OnMission, LiftPlaces
  <2>4. ASSUME NEW i \in Inverters, Free(i)' PROVE Kept(i)'
    <3>1. Kept(i)
      BY <1>i, <2>1, <2>2, <2>4 DEF Deep, Free
    <3>2. /\ Whereabouts(i)' /\ BoundOnFile(i)' /\ Remembered(i)'
          /\ Fetched(i)' /\ InArray(i)'
      BY <2>1, <3>1, SameFile
         DEF Kept, Whereabouts, BoundOnFile, Remembered, Fetched, InArray,
             Lifted, Near, Settled, ChannelPlaces, LiftPlaces, Loops
    <3>3. Told(i)'
      BY <2>1, <3>1 DEF Kept, Told, Settled
    <3> QED
      BY <3>2, <3>3 DEF Kept
  <2> QED
    BY <2>3, <2>4 DEF Deep
<1>2. ASSUME NEW j \in Inverters, ChangeChannel(j) PROVE Deep'
  <2>1. PICK G \in SUBSET {j} :
          /\ Reached({j}, G)
          /\ Moved(G, "home", change[2])
          /\ missed' = missed \cup {k \in {j} \ G : Hears(k)}
    BY <1>2 DEF ChangeChannel
  <2>2. /\ pc = "chan" /\ pc' = "chan" /\ todo' = todo \ {j}
        /\ UNCHANGED <<modpan, modch, ecuch, list, bound, staged, ids, client,
                       limiteid, change, chan, orphaned>>
    BY <1>2 DEF ChangeChannel, At
  <2>3. change[2] \in Channels
    BY <1>i, <2>2, Types DEF OrdersStand, ChannelPlaces
  <2>4. /\ \A i \in G : Hears(i) /\ pan'[i] = "home" /\ ch'[i] = change[2]
        /\ \A i \in Inverters \ G : pan'[i] = pan[i] /\ ch'[i] = ch[i]
    <3>1. G \in SUBSET Inverters /\ "home" \in Pans
      BY DEF Pans
    <3>2. \A i \in G : Hears(i)
      BY <2>1, <1>i, ReachedFacts, Types
    <3>3. /\ \A i \in G : pan'[i] = "home" /\ ch'[i] = change[2]
          /\ \A i \in Inverters \ G : pan'[i] = pan[i] /\ ch'[i] = ch[i]
      BY <2>1, <3>1, MovedPlaces
    <3> QED
      BY <3>2, <3>3
  <2>5. OnMission'
    BY <1>i, <2>1, <2>2
       DEF Deep, OnMission, LiftPlaces
  <2>6. ASSUME NEW i \in Inverters, Free(i)' PROVE Kept(i)'
    <3>1. Kept(i) /\ i \notin missed
      BY <1>i, <2>1, <2>2, <2>6 DEF Deep, Free
    <3>2. InArray(i)' /\ Fetched(i)'
      BY <2>2, <3>1 DEF Kept, InArray, Fetched
    <3>3. CASE i \in G
      <4>1. Settled(i)' /\ ~Lifted(i)'
        BY <2>2, <2>4, <3>3 DEF Settled, Lifted
      <4>2. change # NoChange
        BY <1>i, <2>2 DEF OrdersStand, ChannelPlaces
      <4> QED
        BY <2>2, <3>1, <3>2, <4>1, <4>2, SameFile
           DEF Kept, Whereabouts, Told, BoundOnFile, Remembered
    <3>4. CASE i \notin G
      <4>1. /\ Near(i)' = Near(i) /\ Settled(i)' = Settled(i)
            /\ Lifted(i)' = Lifted(i) /\ ch'[i] = ch[i]
        BY <2>2, <2>4, <3>4 DEF Near, Settled, Lifted
      <4>2. Whereabouts(i)' /\ BoundOnFile(i)' /\ Remembered(i)'
        BY <2>2, <3>1, <4>1, SameFile
           DEF Kept, Whereabouts, BoundOnFile, Remembered
      <4>3. i = j => ~Hears(i)
        BY <2>1, <2>6, <3>4 DEF Free
      <4>4. Told(i)'
        <5>1. CASE Settled(i) \/ i \notin list
          BY <2>2, <4>1, <5>1 DEF Told
        <5>2. CASE ~Settled(i) /\ i \in list
          <6>1. \/ i \in todo /\ ch[i] >= chan
                \/ change[1] = 0 /\ ch[i] > chan
            BY <2>2, <3>1, <5>2 DEF Kept, Told
          <6>2. modpan = "ffff" /\ modch = chan
            BY <1>i, <2>2, <3>1 DEF Deep, OnMission
          <6>3. ch[i] = chan => i # j
            BY <4>3, <6>2 DEF Hears
          <6>4. change[1] # 0 => ch[i] = chan
            BY <1>i, <2>2, <3>1, <5>2
               DEF Kept, Whereabouts, OrdersStand, ChannelPlaces
          <6>5. \/ i \in todo' /\ ch[i] >= chan
                \/ change[1] = 0 /\ ch[i] > chan
            BY <1>n, <2>2, <6>1, <6>3, <6>4
          <6> QED
            BY <2>2, <4>1, <6>5 DEF Told
        <5> QED
          BY <5>1, <5>2
      <4> QED
        BY <3>2, <4>2, <4>4 DEF Kept
    <3> QED
      BY <3>3, <3>4
  <2> QED
    BY <2>5, <2>6 DEF Deep
<1>3. CASE NextChannel
  <2>1. /\ pc = "chan" /\ todo = {} /\ todo' = {} /\ pc' \in {"scan", "save"}
        /\ UNCHANGED <<pan, ch, ecuch, list, bound, short, staged, ids, client,
                       limiteid, change, missed, orphaned>>
    BY <1>3 DEF NextChannel, Go, Loops
  <2>2. \/ /\ pc' = "scan" /\ change[1] = 0 /\ chan' \in Channels
           /\ \A d \in Channels : d > chan => chan' <= d
        \/ /\ pc' = "save"
           /\ change[1] # 0 \/ \A d \in Channels : d <= chan
    BY <1>3 DEF NextChannel, Go
  <2>3. OnMission'
    BY <1>i, <2>1 DEF Deep, OnMission, LiftPlaces
  <2>4. ASSUME NEW i \in Inverters, Free(i)' PROVE Kept(i)'
    <3>1. Kept(i)
      BY <1>i, <2>1, <2>4 DEF Deep, Free
    <3>2. /\ Whereabouts(i)' /\ BoundOnFile(i)' /\ Remembered(i)'
          /\ Fetched(i)' /\ InArray(i)'
      BY <2>1, <3>1, SameFile
         DEF Kept, Whereabouts, BoundOnFile, Remembered, Fetched, InArray,
             Lifted, Near, Settled, ChannelPlaces, LiftPlaces
    <3>3. Told(i)'
      <4>1. i \in list => Settled(i) \/ (change[1] = 0 /\ ch[i] > chan)
        BY <2>1, <3>1 DEF Kept, Told
      <4>2. i \in list => /\ pc' = "scan" => Settled(i) \/ ch[i] >= chan'
                          /\ pc' = "save" => Settled(i)
        BY <1>n, <2>2, <4>1
      <4> QED
        BY <2>1, <4>2 DEF Told, Settled
    <3> QED
      BY <3>2, <3>3 DEF Kept
  <2> QED
    BY <2>3, <2>4 DEF Deep
<1>4. CASE EmptyChannel
  <2>1. /\ pc = "save" /\ pc' = "saving" /\ todo' = {} /\ limiteid' = TRUE
        /\ UNCHANGED <<pan, ch, ecuch, list, bound, short, staged, ids, client,
                       change, missed, orphaned>>
    BY <1>4 DEF EmptyChannel, Go, Loops
  <2>2. OnMission'
    BY <2>1 DEF OnMission, LiftPlaces
  <2>3. ASSUME NEW i \in Inverters, Free(i)' PROVE Kept(i)'
    <3>1. Kept(i)
      BY <1>i, <2>1, <2>3 DEF Deep, Free
    <3> QED
      BY <2>1, <3>1, SameFile
         DEF Kept, Whereabouts, Told, BoundOnFile, Remembered, Fetched, InArray,
             Lifted, Near, Settled, ChannelPlaces, LiftPlaces
  <2> QED
    BY <2>2, <2>3 DEF Deep
<1>5. CASE saveECUChannel
  <2>1. /\ pc = "saving" /\ pc' = "unlink" /\ todo' = {}
        /\ ecuch' = change[2] /\ orphaned' = orphaned \cup (Inverters \ list)
        /\ UNCHANGED <<pan, ch, list, bound, short, staged, ids, client,
                       limiteid, change, missed>>
    BY <1>5 DEF saveECUChannel, Go, Loops
  <2>2. OnMission'
    BY <2>1 DEF OnMission, LiftPlaces
  <2>3. ASSUME NEW i \in Inverters, Free(i)' PROVE Kept(i)'
    <3>1. Kept(i) /\ i \in list
      BY <1>i, <2>1, <2>3 DEF Deep, Free
    <3>2. Settled(i)
      BY <2>1, <3>1 DEF Kept, Told
    <3>3. Near(i)' /\ Settled(i)' /\ ~Lifted(i)'
      BY <2>1, <3>2 DEF Near, Settled, Lifted
    <3> QED
      BY <2>1, <3>1, <3>3, SameFile
         DEF Kept, Whereabouts, Told, BoundOnFile, Remembered, Fetched, InArray,
             ChannelPlaces
  <2> QED
    BY <2>2, <2>3 DEF Deep
<1>6. CASE UnlinkChange
  <2>1. /\ pc = "unlink" /\ pc' = "home" /\ todo' = {} /\ change' = NoChange
        /\ UNCHANGED <<pan, ch, ecuch, list, bound, short, staged, ids, client,
                       limiteid, missed, orphaned>>
    BY <1>6 DEF UnlinkChange, Go, Loops
  <2>2. OnMission'
    BY <1>i, <2>1 DEF Deep, OnMission, LiftPlaces
  <2>3. ASSUME NEW i \in Inverters, Free(i)' PROVE Kept(i)'
    <3>1. Near(i) /\ Kept(i)
      BY <1>i, <2>1, <2>3 DEF Deep, Free, Kept, Told
    <3>2. Near(i)' /\ ~Lifted(i)'
      BY <2>1, <3>1 DEF Near, Lifted
    <3> QED
      BY <2>1, <3>1, <3>2, SameFile
         DEF Kept, Whereabouts, Told, BoundOnFile, Remembered, Fetched, InArray,
             ChannelPlaces
  <2> QED
    BY <2>2, <2>3 DEF Deep
<1> QED
  BY <1>1, <1>2, <1>3, <1>4, <1>5, <1>6 DEF process_channel

\* A step of the main thread between two loops of the binding, that leaves the
\* inverters where they are.
LEMMA DeepBetween ==
  ASSUME Inv, pc \in BindPlaces, pc' \in BindPlaces, change = NoChange,
         todo' = (IF pc' \in Loops THEN list ELSE {}),
         missed \subseteq missed', OnMission',
         UNCHANGED <<pan, ch, ecuch, list, bound, short, staged, ids, client,
                     limiteid, change, orphaned>>,
         pc' \in LiftPlaces \cup {"home", "verify", "need"} =>
           pc \in LiftPlaces \cup {"home", "verify", "need"},
         \A i \in Inverters : Free(i)' /\ Kept(i) =>
           Fetched(i)' /\ (Lifted(i) /\ i \in bound => pc' \in LiftPlaces \ {"flat"})
  PROVE  Deep'
<1>1. ASSUME NEW i \in Inverters, Free(i)' PROVE Kept(i)'
  <2>1. Kept(i)
    BY <1>1 DEF Inv, Deep, Free
  <2>2. Whereabouts(i)' /\ BoundOnFile(i)' /\ Remembered(i)'
    BY <1>1, <2>1, SameFile
       DEF Kept, Whereabouts, BoundOnFile, Remembered, Lifted, Near, Settled,
           BindPlaces, ChannelPlaces, LiftPlaces
  <2>3. Told(i)'
    BY DEF Told, BindPlaces, LiftPlaces
  <2>4. InArray(i)'
    BY DEF InArray
  <2> QED
    BY <1>1, <2>1, <2>2, <2>3, <2>4 DEF Kept
<1> QED
  BY <1>1 DEF Deep

\* The binding between its loops.
LEMMA DeepBindBetween ==
  Inv /\ (BindHome \/ BindNeeded \/ BindFFFF \/ NextLoop \/ BindBack) => Deep'
<1> SUFFICES ASSUME Inv,
                    BindHome \/ BindNeeded \/ BindFFFF \/ NextLoop \/ BindBack
             PROVE  Deep'
  OBVIOUS
<1>i. TypeOK /\ OrdersStand /\ Deep
  BY DEF Inv, Base
<1> USE DEF place, stored, addresses, array, config, outside, module, day, history
<1>1. CASE BindHome
  <2>1. /\ pc = "home" /\ pc' = "verify" /\ todo' = list
        /\ UNCHANGED <<pan, ch, ecuch, list, bound, short, staged, ids, client,
                       limiteid, change, missed, orphaned>>
    BY <1>1 DEF BindHome, Go, Loops
  <2>2. change = NoChange /\ OnMission'
    BY <1>i, <2>1 DEF OrdersStand, ChannelPlaces, OnMission, LiftPlaces
  <2>3. \A i \in Inverters : Kept(i) =>
          Fetched(i)' /\ (Lifted(i) => i \notin bound)
    BY <2>1 DEF Kept, Remembered, Fetched, LiftPlaces
  <2> QED
    BY <2>1, <2>2, <2>3, DeepBetween DEF BindPlaces, LiftPlaces, Loops
<1>2. CASE BindNeeded
  <2>1. /\ pc = "verify" /\ todo = {} /\ todo' = {}
        /\ pc' = IF \E i \in list : short[i] = "none" THEN "need" ELSE "bound"
        /\ UNCHANGED <<pan, ch, ecuch, list, bound, short, staged, ids, client,
                       limiteid, change, missed, orphaned>>
    BY <1>2 DEF BindNeeded, Go, Loops
  <2>2. change = NoChange /\ OnMission'
    BY <1>i, <2>1 DEF OrdersStand, ChannelPlaces, OnMission, LiftPlaces
  <2>3. \A i \in Inverters : Kept(i) =>
          Fetched(i)' /\ (Lifted(i) => i \notin bound)
    <3>1. ASSUME NEW i \in Inverters, Kept(i) PROVE Fetched(i)'
      <4>1. Lifted(i)' => Lifted(i)
        BY <2>1 DEF Lifted, Near
      <4>2. Lifted(i) /\ i \in list => short[i] = "none" /\ pc' = "need"
        BY <2>1, <3>1 DEF Kept, Fetched
      <4> QED
        BY <2>1, <4>1, <4>2 DEF Fetched
    <3>2. ASSUME NEW i \in Inverters, Kept(i), Lifted(i) PROVE i \notin bound
      BY <2>1, <3>2 DEF Kept, Remembered, LiftPlaces
    <3> QED
      BY <3>1, <3>2
  <2> QED
    BY <2>1, <2>2, <2>3, DeepBetween DEF BindPlaces, LiftPlaces, Loops
<1>3. CASE BindFFFF
  <2>1. /\ pc = "need" /\ pc' = "flat" /\ todo' = list
        /\ UNCHANGED <<pan, ch, ecuch, list, bound, short, staged, ids, client,
                       limiteid, change, orphaned>>
    BY <1>3 DEF BindFFFF, Go, Loops
  <2>2. /\ missed \subseteq missed'
        /\ Inverters \subseteq missed' \/ (modpan' = "ffff" /\ modch' = ecuch)
    BY <1>3, <1>i, ModuleFacts, Types DEF BindFFFF
  <2>3. change = NoChange /\ OnMission'
    BY <1>i, <2>1, <2>2 DEF OrdersStand, ChannelPlaces, OnMission, LiftPlaces
  <2>4. \A i \in Inverters : Kept(i) =>
          Fetched(i)' /\ (Lifted(i) => i \notin bound)
    BY <2>1 DEF Kept, Remembered, Fetched, LiftPlaces, Lifted, Near
  <2> QED
    BY <2>1, <2>2, <2>3, <2>4, DeepBetween DEF BindPlaces, LiftPlaces, Loops
<1>4. CASE NextLoop
  <2>1. /\ \/ pc = "flat" /\ pc' = "ask"
           \/ pc = "ask" /\ pc' = "order11"
           \/ pc = "order11" /\ pc' = "old"
           \/ pc = "old" /\ pc' = "order22"
        /\ todo = {} /\ todo' = IF pc' \in Loops THEN list ELSE {}
        /\ UNCHANGED <<modpan, modch, pan, ch, ecuch, list, bound, short, staged,
                       ids, client, limiteid, change, missed, orphaned>>
    <3>1. /\ pc \in {"flat", "ask", "order11", "old"}
          /\ pc' = CASE pc = "flat" -> "ask" [] pc = "ask" -> "order11"
                     [] pc = "order11" -> "old" [] pc = "old" -> "order22"
          /\ todo = {} /\ todo' = IF pc' \in Loops THEN list ELSE {}
      BY <1>4 DEF NextLoop, Go
    <3> QED
      BY <1>4, <3>1 DEF NextLoop
  <2>2. change = NoChange /\ OnMission'
    BY <1>i, <2>1 DEF OrdersStand, ChannelPlaces, Deep, OnMission, LiftPlaces
  <2>3. \A i \in Inverters : Kept(i) => Fetched(i)'
    <3>1. ASSUME NEW i \in Inverters, Kept(i), Lifted(i)', i \in list
          PROVE  Fetched(i)'
      <4>1. Lifted(i)
        BY <2>1, <3>1 DEF Lifted, Near
      <4>2. Remembered(i) /\ Fetched(i)
        BY <3>1 DEF Kept
      <4>3. CASE pc = "flat"
        BY <2>1, <3>1, <4>1, <4>2, <4>3 DEF Fetched, Remembered
      <4>4. CASE pc = "ask"
        BY <2>1, <3>1, <4>1, <4>2, <4>4 DEF Fetched, Loops
      <4>5. CASE pc = "order11"
        BY <2>1, <3>1, <4>1, <4>2, <4>5 DEF Fetched, Loops
      <4>6. CASE pc = "old"
        BY <2>1, <3>1, <4>1, <4>2, <4>6 DEF Fetched
      <4> QED
        BY <2>1, <4>3, <4>4, <4>5, <4>6
    <3> QED
      BY <2>1, <3>1 DEF Fetched
  <2> QED
    BY <2>1, <2>2, <2>3, DeepBetween DEF BindPlaces, LiftPlaces
<1>5. CASE BindBack
  <2>1. /\ pc = "back" /\ pc' = "bound" /\ todo' = {}
        /\ UNCHANGED <<pan, ch, ecuch, list, bound, short, staged, ids, client,
                       limiteid, change, missed, orphaned>>
    BY <1>5 DEF BindBack, Go, Loops
  <2>2. change = NoChange /\ OnMission'
    BY <1>i, <2>1 DEF OrdersStand, ChannelPlaces, OnMission, LiftPlaces
  <2>3. \A i \in Inverters : Kept(i) =>
          Fetched(i)' /\ (Lifted(i) => i \notin bound)
    BY <2>1 DEF Kept, Remembered, Fetched, LiftPlaces, Lifted, Near
  <2> QED
    BY <2>1, <2>2, <2>3, DeepBetween DEF BindPlaces, LiftPlaces, Loops
<1> QED
  BY <1>1, <1>2, <1>3, <1>4, <1>5

\* A step of a loop of the binding concerns the inverter the loop is at.
LEMMA DeepLoop ==
  ASSUME Inv, NEW j \in Inverters, pc \in {"verify", "flat", "ask", "order11", "old"},
         pc' = pc, todo' = todo \ {j},
         UNCHANGED <<modpan, modch, ecuch, list, ids, client, limiteid, change>>,
         bound \subseteq bound', staged \subseteq staged',
         missed \subseteq missed', orphaned \subseteq orphaned',
         \A i \in Inverters \ {j} :
           /\ pan'[i] = pan[i] /\ ch'[i] = ch[i]
           /\ short'[i] = "none" <=> short[i] = "none"
           /\ i \in bound' <=> i \in bound,
         Free(j)' /\ Kept(j) /\ j \in list => Kept(j)',
         j \in todo
  PROVE  Deep'
<1>i. Deep
  BY DEF Inv
<1>1. OnMission'
  BY <1>i DEF Deep, OnMission
<1>2. ASSUME NEW i \in Inverters, Free(i)' PROVE Kept(i)'
  <2>1. Kept(i)
    BY <1>i, <1>2 DEF Deep, Free
  <2>2. CASE i = j
    BY <1>2, <2>1, <2>2 DEF Kept, InArray
  <2>3. CASE i # j
    <3>1. /\ Near(i)' = Near(i) /\ Settled(i)' = Settled(i)
          /\ Lifted(i)' = Lifted(i)
      BY <2>3 DEF Near, Settled, Lifted
    <3>2. Whereabouts(i)' /\ BoundOnFile(i)' /\ Remembered(i)' /\ InArray(i)'
      BY <2>1, <2>3, <3>1, SameFile
         DEF Kept, Whereabouts, BoundOnFile, Remembered, InArray
    <3>3. Told(i)'
      BY DEF Told
    <3>4. Fetched(i)'
      BY <2>1, <2>3, <3>1 DEF Kept, Fetched
    <3> QED
      BY <3>2, <3>3, <3>4 DEF Kept
  <2> QED
    BY <2>2, <2>3
<1> QED
  BY <1>1, <1>2 DEF Deep

\* The loops of the binding.
LEMMA DeepVerify ==
  ASSUME Inv, NEW j \in Inverters, Verify(j)
  PROVE  Deep'
<1> USE DEF place, array, config, module, day, outside
<1>1. /\ pc = "verify" /\ pc' = pc /\ todo' = todo \ {j} /\ j \in todo
      /\ UNCHANGED <<modpan, modch, pan, ch, ecuch, list, bound, staged, ids,
                     client, limiteid, change, missed>>
  BY DEF Verify, At
<1>2. \/ j \in bound /\ UNCHANGED <<short, orphaned>>
      \/ \E G \in SUBSET {j} :
           /\ short' = [short EXCEPT ![j] = IF j \in G THEN @ ELSE "none"]
           /\ orphaned' = orphaned \cup {k \in G : pan[k] # "home"}
  BY DEF Verify
<1>3. TypeOK
  BY DEF Inv, Base
<1>4. /\ orphaned \subseteq orphaned'
      /\ \A i \in Inverters \ {j} : short'[i] = short[i]
  BY <1>2, <1>3, Types
<1>5. ASSUME Free(j)', Kept(j) PROVE Kept(j)'
  <2>1. Lifted(j) => short'[j] = "none"
    <3>1. ASSUME Lifted(j) PROVE j \notin bound /\ pan[j] # "home"
      BY <1>1, <1>5, <3>1 DEF Kept, Remembered, LiftPlaces, Lifted
    <3> QED
      BY <1>2, <1>3, <1>5, <3>1, Types DEF Free
  <2>2. /\ Near(j)' = Near(j) /\ Settled(j)' = Settled(j)
        /\ Lifted(j)' = Lifted(j)
    BY <1>1 DEF Near, Settled, Lifted
  <2>3. /\ Whereabouts(j)' /\ BoundOnFile(j)' /\ Remembered(j)'
        /\ Told(j)' /\ InArray(j)'
    BY <1>1, <1>5, <2>2, SameFile
       DEF Kept, Whereabouts, BoundOnFile, Remembered, Told, InArray
  <2>4. Fetched(j)'
    BY <1>1, <2>1, <2>2 DEF Fetched
  <2> QED
    BY <2>3, <2>4 DEF Kept
<1> QED
  BY <1>1, <1>4, <1>5, DeepLoop

LEMMA DeepFlatten ==
  ASSUME Inv, NEW j \in Inverters, Flatten(j)
  PROVE  Deep'
<1> USE DEF array, config, module, day, history, outside
<1>i. TypeOK /\ OrdersStand
  BY DEF Inv, Base
<1>1. /\ pc = "flat" /\ pc' = pc /\ todo' = todo \ {j} /\ j \in todo
      /\ UNCHANGED <<modpan, modch, ecuch, list, bound, staged, ids,
                     client, limiteid, change, missed, orphaned>>
  BY DEF Flatten, At
<1>2. PICK G \in SUBSET {j} : /\ Reached({k \in {j} : Unknown(k)}, G)
                              /\ Moved(G, "ffff", ecuch)
  BY DEF Flatten
<1>3. /\ \A i \in G : pan'[i] = "ffff" /\ ch'[i] = ecuch
      /\ \A i \in Inverters \ G : pan'[i] = pan[i] /\ ch'[i] = ch[i]
  BY <1>2, MovedPlaces
<1>4. \A i \in Inverters : short'[i] = "none" <=> short[i] = "none"
  <2>1. G \in SUBSET Inverters /\ "ffff" \in Pans
    BY DEF Pans
  <2>2. ecuch \in Channels
    BY <1>i, <1>1, Tuned DEF Inv, OrdersStand, ChannelPlaces
  <2> QED
    BY <1>i, <1>2, <2>1, <2>2, MovedFacts
<1>5. ASSUME Kept(j) PROVE Kept(j)'
  <2>1. Told(j)' /\ InArray(j)'
    BY <1>1, <1>5 DEF Kept, Told, InArray
  <2>2. CASE j \in G
    <3>1. short[j] = "none" /\ j \notin bound
      BY <1>2, <2>2 DEF Reached, Unknown
    <3>2. j \notin Flagged /\ limiteid /\ change = NoChange
      BY <1>i, <1>1, <1>5, <3>1
         DEF Kept, BoundOnFile, OrdersStand, ChannelPlaces, BindPlaces, LiftPlaces
    <3>3. Near(j)' \/ Lifted(j)'
      BY <1>1, <1>3, <2>2 DEF Near, Lifted
    <3> QED
      BY <1>1, <1>4, <2>1, <3>1, <3>2, <3>3, SameFile
         DEF Kept, Whereabouts, BoundOnFile, Remembered, Fetched
  <2>3. CASE j \notin G
    <3>1. /\ Near(j)' = Near(j) /\ Settled(j)' = Settled(j)
          /\ Lifted(j)' = Lifted(j) /\ ch'[j] = ch[j]
      BY <1>1, <1>3, <2>3 DEF Near, Settled, Lifted
    <3> QED
      BY <1>1, <1>4, <1>5, <2>1, <3>1, SameFile
         DEF Kept, Whereabouts, BoundOnFile, Remembered, Fetched
  <2> QED
    BY <2>2, <2>3
<1> QED
  BY <1>1, <1>2, <1>3, <1>4, <1>5, DeepLoop

LEMMA DeepAsk ==
  ASSUME Inv, NEW j \in Inverters, getaddrOldOrNew(j)
  PROVE  Deep'
<1> USE DEF place, config, module, day, history, outside
<1>i. TypeOK
  BY DEF Inv, Base
<1>1. /\ pc = "ask" /\ pc' = pc /\ todo' = todo \ {j} /\ j \in todo
      /\ UNCHANGED <<modpan, modch, pan, ch, ecuch, list, staged, ids,
                     client, limiteid, change, missed, orphaned>>
  BY DEF getaddrOldOrNew, At
<1>2. PICK G \in SUBSET {j} : /\ Reached({k \in {j} : Unknown(k)}, G)
                              /\ Learned(G \ New)
                              /\ bound' = bound \cup (G \cap New)
  BY DEF getaddrOldOrNew
<1>3. \A i \in Inverters : i \notin G \ New => short'[i] = short[i]
  BY <1>2 DEF Learned
<1>4. ASSUME Kept(j), j \in list PROVE Kept(j)'
  <2>1. /\ Near(j)' = Near(j) /\ Settled(j)' = Settled(j)
        /\ Lifted(j)' = Lifted(j)
    BY <1>1 DEF Near, Settled, Lifted
  <2>2. /\ Whereabouts(j)' /\ BoundOnFile(j)' /\ Remembered(j)'
        /\ Told(j)' /\ InArray(j)'
    BY <1>1, <1>2, <1>4, <2>1, SameFile
       DEF Kept, Whereabouts, BoundOnFile, Remembered, Told, InArray, LiftPlaces
  <2>3. j \in bound' /\ j \notin bound => j \in New /\ short'[j] = "none"
    BY <1>2, <1>3 DEF Reached, Unknown
  <2>4. j \in bound /\ Lifted(j) => short'[j] = "none" /\ j \in New
    BY <1>1, <1>2, <1>3, <1>4 DEF Kept, Fetched, Reached, Unknown
  <2>5. Fetched(j)'
    BY <1>1, <2>1, <2>3, <2>4 DEF Fetched
  <2> QED
    BY <2>2, <2>5 DEF Kept
<1> QED
  BY <1>1, <1>2, <1>3, <1>4, DeepLoop

LEMMA DeepOrder11 ==
  ASSUME Inv, NEW j \in Inverters, send11order(j)
  PROVE  Deep'
<1> USE DEF place, array, config, module, day, outside
<1>i. TypeOK /\ OnMission
  BY DEF Inv, Base, Deep
<1>1. /\ pc = "order11" /\ pc' = pc /\ todo' = todo \ {j} /\ j \in todo
      /\ UNCHANGED <<modpan, modch, pan, ch, ecuch, list, bound, ids,
                     client, limiteid, change, orphaned>>
  BY DEF send11order, At
<1>2. PICK G \in SUBSET {j}, A \in SUBSET {j} :
        /\ Reached({k \in {j} \cap New : short[k] = "none"}, G)
        /\ staged' = staged \cup G
        /\ Learned(A)
        /\ missed' = missed \cup
             {k \in ({j} \cap New) \ G : short[k] = "none" /\ Hears(k)}
  BY DEF send11order
<1>3. \A i \in Inverters \ {j} : short'[i] = short[i]
  BY <1>2 DEF Learned
<1>4. ASSUME Free(j)', Kept(j) PROVE Kept(j)'
  <2>1. /\ Near(j)' = Near(j) /\ Settled(j)' = Settled(j)
        /\ Lifted(j)' = Lifted(j)
    BY <1>1 DEF Near, Settled, Lifted
  <2>2. /\ Whereabouts(j)' /\ BoundOnFile(j)' /\ Remembered(j)'
        /\ Told(j)' /\ InArray(j)'
    BY <1>1, <1>4, <2>1, SameFile
       DEF Kept, Whereabouts, BoundOnFile, Remembered, Told, InArray
  <2>3. ASSUME Lifted(j), j \in list, j \in bound, j \notin staged
        PROVE  j \in staged'
    <3>1. j \in New /\ short[j] = "none"
      BY <1>1, <1>4, <2>3 DEF Kept, Fetched
    <3>2. modpan = "ffff" /\ modch = ecuch
      BY <1>i, <1>1, <1>2, <1>4 DEF OnMission, LiftPlaces, Free
    <3>3. Hears(j)
      BY <2>3, <3>2 DEF Hears, Lifted
    <3> QED
      BY <1>2, <1>4, <3>1, <3>3 DEF Free
  <2>4. Fetched(j)'
    BY <1>1, <1>2, <2>1, <2>3 DEF Fetched
  <2> QED
    BY <2>2, <2>4 DEF Kept
<1> QED
  BY <1>1, <1>2, <1>3, <1>4, DeepLoop

LEMMA DeepMoveOld ==
  ASSUME Inv, NEW j \in Inverters, MoveOld(j)
  PROVE  Deep'
<1> USE DEF array, config, module, day, outside
<1>i. TypeOK /\ OrdersStand /\ OnMission
  BY DEF Inv, Base, Deep
<1>1. /\ pc = "old" /\ pc' = pc /\ todo' = todo \ {j} /\ j \in todo
      /\ UNCHANGED <<modpan, modch, ecuch, list, bound, staged, ids,
                     client, limiteid, change, orphaned>>
  BY DEF MoveOld, At
<1>2. PICK G \in SUBSET {j} :
        /\ Reached({j} \ bound, G)
        /\ Moved(G, "home", ecuch)
        /\ missed' = missed \cup {k \in ({j} \ bound) \ G : Hears(k)}
  BY DEF MoveOld
<1>3. /\ \A i \in G : pan'[i] = "home" /\ ch'[i] = ecuch
      /\ \A i \in Inverters \ G : pan'[i] = pan[i] /\ ch'[i] = ch[i]
  BY <1>2, MovedPlaces
<1>4. \A i \in Inverters : short'[i] = "none" <=> short[i] = "none"
  <2>1. G \in SUBSET Inverters /\ "home" \in Pans
    BY DEF Pans
  <2>2. ecuch \in Channels
    BY <1>i, <1>1, Tuned DEF Inv, OrdersStand, ChannelPlaces
  <2> QED
    BY <1>i, <1>2, <2>1, <2>2, MovedFacts
<1>5. ASSUME Free(j)', Kept(j) PROVE Kept(j)'
  <2>1. Told(j)' /\ InArray(j)'
    BY <1>1, <1>5 DEF Kept, Told, InArray
  <2>2. change = NoChange
    BY <1>i, <1>1 DEF OrdersStand, ChannelPlaces
  <2>3. CASE j \in G
    <3>1. Near(j)' /\ ~Lifted(j)'
      BY <1>1, <1>3, <2>3 DEF Near, Lifted
    <3> QED
      BY <1>1, <1>5, <2>1, <2>2, <3>1, SameFile
         DEF Kept, Whereabouts, BoundOnFile, Remembered, Fetched
  <2>4. CASE j \notin G
    <3>1. /\ Near(j)' = Near(j) /\ Settled(j)' = Settled(j)
          /\ Lifted(j)' = Lifted(j) /\ ch'[j] = ch[j]
      BY <1>1, <1>3, <2>4 DEF Near, Settled, Lifted
    <3>2. Whereabouts(j)' /\ BoundOnFile(j)' /\ Remembered(j)'
      BY <1>1, <1>5, <3>1, SameFile DEF Kept, Whereabouts, BoundOnFile, Remembered
    <3>3. ASSUME Lifted(j), j \in list PROVE j \in staged
      <4>1. modpan = "ffff" /\ modch = ecuch
        BY <1>i, <1>1, <1>2, <1>5 DEF OnMission, LiftPlaces, Free
      <4>2. j \in bound
        BY <1>2, <1>5, <2>4, <3>3, <4>1 DEF Free, Hears, Lifted
      <4> QED
        BY <1>1, <1>5, <3>3, <4>2 DEF Kept, Fetched
    <3>4. Fetched(j)'
      BY <1>1, <3>1, <3>3 DEF Fetched
    <3> QED
      BY <2>1, <3>2, <3>4 DEF Kept
  <2> QED
    BY <2>3, <2>4
<1> QED
  BY <1>1, <1>2, <1>3, <1>4, <1>5, DeepLoop

\* Order 22 moves those that got order 11; then none is left in PAN 0xFFFF.
LEMMA DeepOrder22 ==
  ASSUME Inv, send22order
  PROVE  Deep'
<1> USE DEF array, config, module, day, outside
<1>i. TypeOK /\ OrdersStand /\ Deep
  BY DEF Inv, Base
<1>1. /\ pc = "order22" /\ pc' = "back" /\ todo' = {} /\ bound' = bound \ list
      /\ UNCHANGED <<modpan, modch, ecuch, list, ids, client, limiteid, change,
                     orphaned>>
  BY DEF send22order, Go, Loops
<1>2. PICK G \in SUBSET staged :
        /\ Reached(staged, G)
        /\ Moved(G, "home", ecuch)
        /\ missed' = missed \cup {k \in staged \ G : Hears(k)}
  BY DEF send22order
<1>3. /\ \A i \in G : pan'[i] = "home" /\ ch'[i] = ecuch
      /\ \A i \in Inverters \ G : pan'[i] = pan[i] /\ ch'[i] = ch[i]
  <2>1. G \in SUBSET Inverters
    BY <1>i, Types, InvertersAssumption
  <2> QED
    BY <1>2, <2>1, MovedPlaces
<1>4. OnMission' /\ change = NoChange
  BY <1>i, <1>1 DEF OnMission, OrdersStand, LiftPlaces, ChannelPlaces
<1>5. ASSUME NEW i \in Inverters, Free(i)' PROVE Kept(i)'
  <2>1. Kept(i) /\ i \notin missed
    BY <1>i, <1>1, <1>2, <1>5 DEF Deep, Free
  <2>2. Told(i)' /\ InArray(i)'
    BY <1>1 DEF Told, InArray
  <2>3. CASE i \in G
    <3>1. Near(i)' /\ ~Lifted(i)'
      BY <1>1, <1>3, <2>3 DEF Near, Lifted
    <3> QED
      BY <1>1, <1>4, <2>2, <3>1
         DEF Kept, Whereabouts, BoundOnFile, Remembered, Fetched, ChannelPlaces,
             LiftPlaces
  <2>4. CASE i \notin G
    <3>1. /\ Near(i)' = Near(i) /\ Lifted(i)' = Lifted(i)
      BY <1>1, <1>3, <2>4 DEF Near, Lifted
    <3>2. Lifted(i) => i \notin list
      <4>1. modpan = "ffff" /\ modch = ecuch
        BY <1>i, <1>1, <2>1 DEF Deep, OnMission, LiftPlaces
      <4>2. Lifted(i) /\ i \in list => i \in staged /\ Hears(i)
        BY <1>1, <2>1, <4>1 DEF Kept, Fetched, Hears, Lifted
      <4> QED
        BY <1>2, <1>5, <2>4, <4>2 DEF Free
    <3>3. Whereabouts(i)' /\ BoundOnFile(i)' /\ Remembered(i)' /\ Fetched(i)'
      BY <1>1, <1>4, <2>1, <3>1, <3>2, SameFile
         DEF Kept, Whereabouts, BoundOnFile, Remembered, Fetched, ChannelPlaces,
             LiftPlaces
    <3> QED
      BY <2>2, <3>3 DEF Kept
  <2> QED
    BY <2>3, <2>4
<1> QED
  BY <1>4, <1>5 DEF Deep

\* The order to bind is taken away: those in the array are home, those only on
\* the file are noted.
LEMMA DeepDone ==
  ASSUME Inv, BindDone
  PROVE  Deep'
<1> USE DEF array, module, day, place, addresses, outside
<1>i. TypeOK /\ OrdersStand /\ Deep
  BY DEF Inv, Base
<1>1. /\ pc = "done" /\ pc' = "round" /\ todo' = {}
      /\ orphaned' = orphaned \cup (Listed \ (list \cup Due))
      /\ UNCHANGED <<modpan, modch, pan, ch, ecuch, list, bound, short, ids,
                     client, change, missed>>
  BY DEF BindDone, Go, Loops
<1>2. OnMission' /\ change = NoChange
  BY <1>i, <1>1 DEF OnMission, OrdersStand, LiftPlaces, ChannelPlaces
<1>3. ASSUME NEW i \in Inverters, Free(i)' PROVE Kept(i)'
  <2>1. Kept(i) /\ (i \in Listed => i \in list \cup Due)
    BY <1>i, <1>1, <1>3 DEF Deep, Free
  <2>2. Near(i)' = Near(i) /\ Lifted(i)' = Lifted(i)
    BY <1>1 DEF Near, Lifted
  <2>3. Lifted(i) => i \notin list
    BY <1>1, <2>1 DEF Kept, Fetched
  <2> QED
    BY <1>1, <1>2, <2>1, <2>2, <2>3, SameFile
       DEF Kept, Whereabouts, Told, BoundOnFile, Remembered, Fetched, InArray,
           ChannelPlaces, LiftPlaces
<1> QED
  BY <1>2, <1>3 DEF Deep

\* The binding.
LEMMA DeepBind == Inv /\ bind_inverters => Deep'
BY DeepBindBetween, DeepVerify, DeepFlatten, DeepAsk, DeepOrder11, DeepMoveOld,
   DeepOrder22, DeepDone
   DEF bind_inverters

\* What is left to show of a step to the rounds or to a new start.
LEMMA DeepPolling ==
  ASSUME pc' \in Polling,
         \A i \in Inverters : Free(i)' =>
           Whereabouts(i)' /\ Remembered(i)' /\ i \notin todo'
  PROVE  Deep'
<1>1. OnMission'
  BY DEF OnMission, Polling, ChannelPlaces, LiftPlaces
<1>2. \A i \in Inverters : Told(i)' /\ BoundOnFile(i)' /\ Fetched(i)'
  BY DEF Told, BoundOnFile, Fetched, Polling, ChannelPlaces, LiftPlaces
<1> QED
  BY <1>1, <1>2 DEF Deep, Kept, InArray

\* A round of polling and the search.
LEMMA DeepRound ==
  Inv /\ (getalldata \/ AfterRound \/ get_inverter_shortaddress
          \/ bind_nodata_inverter) => Deep'
<1> SUFFICES ASSUME Inv, getalldata \/ AfterRound \/ get_inverter_shortaddress
                           \/ bind_nodata_inverter
             PROVE  Deep'
  OBVIOUS
<1>i. TypeOK /\ OrdersStand /\ Deep
  BY DEF Inv, Base
<1> USE DEF place, stored, addresses, array, config, outside, module, day, history
<1>1. CASE getalldata
  <2> DEFINE There == {i \in list : short[i] = "right"}
  <2>1. PICK B \in SUBSET There, G \in SUBSET There :
          /\ bound' = bound \cup B
          /\ LET Home == {i \in G : pan[i] = "home" /\ ch[i] = ecuch}
             IN /\ missed' = missed \ Home
                /\ orphaned' = (orphaned \ Home) \cup {i \in B : pan[i] # "home"}
          /\ Go("polled") \/ Go("after")
    BY <1>1 DEF getalldata
  <2>2. /\ pc = "round" /\ pc' \in Polling /\ todo' = {}
        /\ UNCHANGED <<pan, ch, ecuch, list, ids, client, limiteid, change>>
    BY <1>1, <2>1 DEF getalldata, Go, Polling, Loops
  <2>3. change = NoChange
    BY <1>i, <2>2 DEF OrdersStand, ChannelPlaces
  <2>4. ASSUME NEW i \in Inverters, Free(i)'
        PROVE  Whereabouts(i)' /\ Remembered(i)'
    <3>1. /\ Near(i)' = Near(i) /\ Lifted(i)' = Lifted(i)
      BY <2>2 DEF Near, Lifted
    <3>2. CASE pan[i] = "home" /\ ch[i] = ecuch
      <4>1. Near(i)' /\ ~Lifted(i)'
        BY <3>1, <3>2 DEF Near, Lifted
      <4> QED
        BY <2>2, <2>3, <4>1, SameFile DEF Whereabouts, Remembered
    <3>3. CASE ~(pan[i] = "home" /\ ch[i] = ecuch)
      <4>1. Kept(i) /\ (Lifted(i) => i \notin B)
        BY <1>i, <2>1, <2>4, <3>3 DEF Deep, Free, Lifted
      <4> QED
        BY <2>1, <2>2, <2>3, <3>1, <4>1, SameFile
           DEF Kept, Whereabouts, Remembered, LiftPlaces
    <3> QED
      BY <3>2, <3>3
  <2> QED
    BY <2>2, <2>4, DeepPolling
<1>2. CASE SearchMove
  <2>1. PICK G \in SUBSET {i \in Inverters : Needy(i)} : Moved(G, "home", ecuch)
    BY <1>2 DEF SearchMove
  <2>2. /\ \A i \in G : pan'[i] = "home" /\ ch'[i] = ecuch
        /\ \A i \in Inverters \ G : pan'[i] = pan[i] /\ ch'[i] = ch[i]
    BY <2>1, MovedPlaces
  <2>3. /\ pc = "move" /\ pc' \in Polling /\ todo' = {}
        /\ UNCHANGED <<ecuch, list, bound, ids, client, limiteid, change, missed,
                       orphaned>>
    BY <1>2 DEF SearchMove, Go, Polling, Loops
  <2>4. change = NoChange
    BY <1>i, <2>3 DEF OrdersStand, ChannelPlaces
  <2>5. ASSUME NEW i \in Inverters, Free(i)'
        PROVE  Whereabouts(i)' /\ Remembered(i)'
    <3>1. CASE i \in G
      <4>1. Near(i)' /\ ~Lifted(i)'
        BY <2>2, <2>3, <3>1 DEF Near, Lifted
      <4> QED
        BY <2>3, <2>4, <4>1, SameFile DEF Whereabouts, Remembered
    <3>2. CASE i \notin G
      <4>1. Near(i)' = Near(i) /\ Lifted(i)' = Lifted(i)
        BY <2>2, <2>3, <3>2 DEF Near, Lifted
      <4>2. Kept(i)
        BY <1>i, <2>3, <2>5 DEF Deep, Free
      <4> QED
        BY <2>3, <2>4, <4>1, <4>2, SameFile
           DEF Kept, Whereabouts, Remembered, LiftPlaces
    <3> QED
      BY <3>1, <3>2
  <2> QED
    BY <2>3, <2>5, DeepPolling
<1>3. CASE AfterRound \/ SearchFFFF \/ SearchReturn \/ SearchFind
             \/ bind_nodata_inverter
  <2>1. /\ pc \in Polling \ {"init", "read"} /\ pc' \in Polling /\ todo' = {}
        /\ UNCHANGED <<pan, ch, ecuch, list, bound, ids, client, limiteid, change,
                       missed, orphaned>>
    <3>1. CASE AfterRound
      BY <3>1 DEF AfterRound, Go, Polling, Loops
    <3>2. CASE SearchFFFF
      BY <3>2 DEF SearchFFFF, Go, Polling, Loops
    <3>3. CASE SearchReturn
      BY <3>3 DEF SearchReturn, Go, Polling, Loops
    <3>4. CASE SearchFind
      BY <3>4 DEF SearchFind, Go, Polling, Loops
    <3>5. CASE bind_nodata_inverter
      BY <3>5 DEF bind_nodata_inverter, Go, Polling, Loops
    <3> QED
      BY <1>3, <3>1, <3>2, <3>3, <3>4, <3>5
  <2>2. change = NoChange
    BY <1>i, <2>1 DEF OrdersStand, ChannelPlaces, Polling
  <2>3. ASSUME NEW i \in Inverters, Free(i)'
        PROVE  Whereabouts(i)' /\ Remembered(i)'
    <3>1. Kept(i)
      BY <1>i, <2>1, <2>3 DEF Deep, Free
    <3>2. Near(i)' = Near(i) /\ Lifted(i)' = Lifted(i)
      BY <2>1 DEF Near, Lifted
    <3> QED
      BY <2>1, <2>2, <3>1, <3>2, SameFile
         DEF Kept, Whereabouts, Remembered, LiftPlaces, Polling
  <2> QED
    BY <2>1, <2>3, DeepPolling
<1> QED
  BY <1>1, <1>2, <1>3 DEF get_inverter_shortaddress

\* The array is written over the file.
LEMMA DeepSave == Inv /\ Save => Deep'
<1> SUFFICES ASSUME Inv, Save PROVE Deep'
  OBVIOUS
<1>i. TypeOK /\ OrdersStand /\ Deep
  BY DEF Inv, Base
<1>1. /\ pc \in Saves
      /\ UNCHANGED <<pan, ch, ecuch, list, bound, limiteid, change, missed, orphaned>>
  BY DEF Save, place, array, day, config
<1>2. Listed' = list /\ Flagged' = bound \cap list /\ Due' = Due
  BY DEF Save, updateID, Overwritten, outside, client, Listed, Flagged, Due
<1>3. /\ \/ pc' = "done" /\ pc = "bound"
         \/ pc' \in Polling \ {"init", "read"} /\ pc # "bound"
      /\ todo' = {}
  <2>1. /\ pc' = CASE pc = "bound" -> "done" [] pc = "polled" -> "after"
                  [] pc = "found" -> "nodata" [] pc = "refreshed" -> "round"
        /\ todo' = IF pc' \in Loops THEN list ELSE {}
    BY DEF Save, Go
  <2> QED
    BY <1>1, <2>1 DEF Saves, Polling, Loops
<1>4. OnMission'
  BY <1>3 DEF OnMission, LiftPlaces, Polling
<1>5. ASSUME NEW i \in Inverters, Free(i)' PROVE Kept(i)'
  <2>1. Kept(i)
    BY <1>i, <1>1, <1>5 DEF Deep, Free
  <2>2. /\ Near(i)' = Near(i) /\ Lifted(i)' = Lifted(i)
        /\ Settled(i)' = Settled(i)
    BY <1>1 DEF Near, Lifted, Settled
  <2>3. Whereabouts(i)' /\ Remembered(i)'
    BY <1>1, <1>2, <2>1, <2>2
       DEF Kept, Whereabouts, Remembered, LiftPlaces, Saves
  <2>4. Told(i)' /\ BoundOnFile(i)' /\ InArray(i)'
    BY <1>3 DEF Told, BoundOnFile, InArray, Polling, ChannelPlaces, LiftPlaces
  <2>5. Fetched(i)'
    BY <1>1, <1>3, <2>1, <2>2 DEF Kept, Fetched, Polling
  <2> QED
    BY <2>3, <2>4, <2>5 DEF Kept
<1> QED
  BY <1>4, <1>5 DEF Deep

\* A restart or a reset leaves no other lines in the file than were in it, or in
\* the copy, or in the array.
LEMMA LeftFacts ==
  ASSUME Base, NEW cut \in BOOLEAN, FileLeft(cut), UNCHANGED client \/ a103' = "none"
  PROVE  /\ Listed' \subseteq Listed \cup list
         /\ \A i \in Flagged' : i \in Flagged \/ (i \in bound /\ pc \in Saves)
         /\ UNCHANGED client => Due' = Due
<1> USE DEF client, Listed, Flagged, Due
<1>1. CASE UNCHANGED <<ids, fshort>>
  BY <1>1 DEF ids, Base, Filed
<1>2. CASE pc \in Saves /\ CutShort(cut)
  <2>1. fids' \subseteq list /\ fbound' \subseteq bound /\ file' # "gone"
    BY <1>2 DEF CutShort, Overwritten
  <2> QED
    BY <1>2, <2>1
<1> QED
  BY <1>1, <1>2 DEF FileLeft

\* A restart in the middle of anything loses no inverter, nor does a reset, but
\* for the order to bind that A103 has yet to give.
LEMMA DeepRestart ==
  ASSUME Inv, Restarted, NEW cut \in BOOLEAN, FileLeft(cut),
         UNCHANGED <<place, config, missed>>, orphaned \subseteq orphaned',
         UNCHANGED client \/ (a103' = "none" /\ Due \subseteq orphaned')
  PROVE  Deep'
<1>i. Deep /\ Base
  BY DEF Inv
<1>1. /\ pc' = "init" /\ todo' = {} /\ list' = {} /\ bound' = {} /\ ecuch' = ecuch
      /\ UNCHANGED <<pan, ch, limiteid, change, missed>>
  BY DEF Restarted, place, config
<1>2. ASSUME NEW i \in Inverters, Free(i)'
      PROVE  Whereabouts(i)' /\ Remembered(i)'
  <2>1. Kept(i) /\ i \notin orphaned'
    BY <1>i, <1>1, <1>2 DEF Deep, Free
  <2>2. /\ Near(i)' = Near(i) /\ Lifted(i)' = Lifted(i)
        /\ Settled(i)' = Settled(i)
    BY <1>1 DEF Near, Lifted, Settled
  <2>3. Lifted(i) => i \notin Flagged'
    BY <1>i, <2>1, LeftFacts DEF Kept, Remembered, Saves, LiftPlaces
  <2>4. Lifted(i) => (i \in Listed' => limiteid \/ i \in Due')
    BY <1>i, <2>1, LeftFacts DEF Kept, Remembered
  <2> QED
    BY <1>1, <2>1, <2>2, <2>3, <2>4 DEF Kept, Whereabouts, Remembered
<1> QED
  BY <1>1, <1>2, DeepPolling DEF Polling

\* A step of A103 on the file: it gives no inverter a bindflag, and none is listed
\* without an order to bind that was not, but for those that are left out.
LEMMA DeepFile ==
  ASSUME Inv,
         UNCHANGED <<module, place, staged, short, list, bound, ecuch, pc, todo,
                     chan, change, missed>>,
         orphaned \subseteq orphaned',
         \A i \in Inverters : Free(i)' =>
           /\ i \in Flagged' => i \in Flagged
           /\ (i \in Listed \cup list => limiteid \/ i \in Due)
                => (i \in Listed' \cup list => limiteid' \/ i \in Due')
  PROVE  Deep'
<1> USE DEF module, place
<1>i. Deep
  BY DEF Inv
<1>1. OnMission'
  BY <1>i DEF Deep, OnMission
<1>2. ASSUME NEW i \in Inverters, Free(i)' PROVE Kept(i)'
  <2>1. Kept(i)
    BY <1>i, <1>2 DEF Deep, Free
  <2>2. /\ Near(i)' = Near(i) /\ Lifted(i)' = Lifted(i)
        /\ Settled(i)' = Settled(i)
    BY DEF Near, Lifted, Settled
  <2>3. Whereabouts(i)' /\ Told(i)' /\ Fetched(i)' /\ InArray(i)'
    BY <2>1, <2>2 DEF Kept, Whereabouts, Told, Fetched, InArray
  <2>4. BoundOnFile(i)'
    BY <1>2, <2>1 DEF Kept, BoundOnFile
  <2>5. Remembered(i)'
    BY <1>2, <2>1, <2>2 DEF Kept, Remembered
  <2> QED
    BY <2>3, <2>4, <2>5 DEF Kept
<1> QED
  BY <1>1, <1>2 DEF Deep

\* A103 begins.
LEMMA DeepBegin == Inv /\ A103 => Deep'
<1> SUFFICES ASSUME Inv, A103 PROVE Deep'
  OBVIOUS
<1>1. /\ a103 = "none" /\ a103' \in {"adding", "reading", "filed"}
      /\ fids' \subseteq fids /\ fbound' \subseteq fbound
      /\ UNCHANGED <<module, place, staged, short, array, day, main, config, missed,
                     orphaned>>
  BY DEF A103, add_id, delete_id, clear_id
<1>2. /\ Flagged' \subseteq Flagged /\ Listed' \subseteq Listed
      /\ Due = {}
  BY <1>1 DEF Flagged, Listed, Due
<1>3. UNCHANGED <<list, bound, ecuch, pc, todo, chan, limiteid, change>>
  BY <1>1 DEF array, day, main, config
<1> QED
  BY <1>1, <1>2, <1>3, DeepFile

\* A103 goes on with the file: lines that come back are left out.
LEMMA DeepChange ==
  Inv /\ (Append \/ OrderToBind \/ (\E i \in Inverters : RemoveID(i)) \/ RenameID)
    => Deep'
<1> SUFFICES ASSUME Inv,
                    \/ Append \/ OrderToBind
                    \/ (\E i \in Inverters : RemoveID(i)) \/ RenameID
             PROVE  Deep'
  OBVIOUS
<1>i. TypeOK
  BY DEF Inv, Base
<1> USE DEF addresses, stored, array, day, main, config, history
<1>1. CASE Append
  <2>1. PICK S \in SUBSET Inverters, old \in SUBSET Inverters :
          /\ Found(S, old)
          /\ fids' = S \cup named
          /\ fbound' = FoundBound(S, old)
          /\ orphaned' = orphaned \cup Returned(S, old)
    BY <1>1 DEF Append
  <2>2. /\ S \subseteq fids \cup Returned(S, old)
        /\ fbound' \subseteq fbound \cup Returned(S, old)
    BY <1>i, <2>1, FoundFacts
  <2>3. a103 = "adding" /\ a103' = "appended" /\ UNCHANGED named
    BY <1>1 DEF Append
  <2>4. /\ Flagged' \subseteq Flagged \cup orphaned'
        /\ Listed' \subseteq Listed \cup Due' \cup orphaned'
        /\ Due = {}
    BY <2>1, <2>2, <2>3 DEF Flagged, Listed, Due
  <2>5. UNCHANGED <<module, place, staged, short, list, bound, ecuch, pc, todo,
                    chan, limiteid, change, missed>>
    BY <1>1 DEF Append
  <2> QED
    BY <2>1, <2>4, <2>5, DeepFile DEF Free
<1>2. CASE OrderToBind
  <2>1. /\ a103 = "appended" /\ a103' = "filed" /\ limiteid' = TRUE
        /\ UNCHANGED <<ids, module, place, staged, short, list, bound, ecuch, pc,
                       todo, chan, change, missed, orphaned>>
    BY <1>2 DEF OrderToBind
  <2>2. Flagged' = Flagged
    BY <2>1 DEF Flagged, ids
  <2> QED
    BY <2>1, <2>2, DeepFile
<1>3. ASSUME NEW i \in Inverters, RemoveID(i) PROVE Deep'
  <2>1. PICK S \in SUBSET Inverters, old \in SUBSET Inverters :
          /\ Found(S, old)
          /\ cids' = S \ {i}
          /\ cbound' = FoundBound(S, old) \ {i}
          /\ orphaned' = orphaned \cup Returned(S, old)
    BY <1>3 DEF RemoveID
  <2>2. /\ cids' \subseteq fids \cup Returned(S, old)
        /\ cbound' \subseteq fbound \cup Returned(S, old)
    BY <1>i, <2>1, FoundFacts
  <2>3. a103 = "reading" /\ a103' = "removed" /\ file' = "gone"
    BY <1>3 DEF RemoveID
  <2>4. /\ Flagged' \subseteq Flagged \cup orphaned'
        /\ Listed' \subseteq Listed \cup orphaned'
        /\ Due = {}
    BY <2>1, <2>2, <2>3 DEF Flagged, Listed, Due
  <2>5. UNCHANGED <<module, place, staged, short, list, bound, ecuch, pc, todo,
                    chan, limiteid, change, missed>>
    BY <1>3 DEF RemoveID
  <2> QED
    BY <2>1, <2>4, <2>5, DeepFile DEF Free
<1>4. CASE RenameID
  <2>1. /\ a103 = "removed" /\ a103' \in {"filed", "reading"}
        /\ \/ file = "gone" /\ fids' = cids /\ fbound' = cbound
           \/ file # "gone" /\ UNCHANGED <<fids, fbound>>
    BY <1>4 DEF RenameID, ids
  <2>2. Flagged' = Flagged /\ Listed' = Listed /\ Due = {}
    BY <2>1 DEF Flagged, Listed, Due
  <2>3. UNCHANGED <<module, place, staged, short, list, bound, ecuch, pc, todo,
                    chan, limiteid, change, missed, orphaned>>
    BY <1>4 DEF RenameID
  <2> QED
    BY <2>2, <2>3, DeepFile
<1> QED
  BY <1>1, <1>2, <1>3, <1>4

\* A103 empties the array and reads it anew: in the middle of the binding or of
\* a change of the channel it leaves all inverters out.
LEMMA DeepArray == Inv /\ (ClearArray \/ ReadArray) => Deep'
<1> SUFFICES ASSUME Inv, ClearArray \/ ReadArray PROVE Deep'
  OBVIOUS
<1>i. Deep
  BY DEF Inv
<1>1. /\ UNCHANGED <<modpan, modch, pan, ch, staged, ecuch, pc, chan, fids, fbound,
                     limiteid, change, missed>>
      /\ a103 \in {"filed", "cleared"} /\ a103' \in {"cleared", "timer"}
      /\ bound' \in {bound, fbound} /\ list' \in {{}, fids}
      /\ todo' \in {{}, todo}
      /\ orphaned' = IF pc \in Polling THEN orphaned ELSE Inverters
  BY DEF ClearArray, ReadArray, LeftOut, get_id_from_file, module, place, ids,
         config, day, main
<1>f. /\ Listed = fids /\ Flagged = fbound /\ Due = {}
      /\ Listed' = fids /\ Flagged' = fbound
  BY <1>1 DEF Listed, Flagged, Due
<1>2. CASE pc \notin Polling
  <2>1. OnMission'
    BY <1>i, <1>1 DEF Deep, OnMission
  <2>2. \A i \in Inverters : ~Free(i)'
    BY <1>1, <1>2 DEF Free
  <2> QED
    BY <2>1, <2>2 DEF Deep
<1>3. CASE pc \in Polling
  <2>1. ASSUME NEW i \in Inverters, Free(i)'
        PROVE  Whereabouts(i)' /\ Remembered(i)' /\ i \notin todo'
    <3>1. Kept(i)
      BY <1>i, <1>1, <1>3, <2>1 DEF Deep, Free
    <3>2. /\ Near(i)' = Near(i) /\ Lifted(i)' = Lifted(i)
          /\ Settled(i)' = Settled(i)
      BY <1>1 DEF Near, Lifted, Settled
    <3>3. i \notin todo'
      BY <1>1, <1>3, <3>1 DEF Kept, InArray, Loops, Polling
    <3>4. Lifted(i) => i \notin bound
      BY <1>3, <3>1 DEF Kept, Remembered, LiftPlaces, Polling
    <3> QED
      BY <1>1, <1>f, <3>1, <3>2, <3>3, <3>4 DEF Kept, Whereabouts, Remembered
  <2> QED
    BY <1>1, <1>3, <2>1, DeepPolling
<1> QED
  BY <1>2, <1>3

\* A new list: all is bound anew, or left out if the order to bind is not written
\* any more.
LEMMA DeepRegister == Inv /\ (Phone_RegisterID \/ RegisterCut) => Deep'
<1> SUFFICES ASSUME Inv, Phone_RegisterID \/ RegisterCut PROVE Deep'
  OBVIOUS
<1>1. /\ pc' = "init" /\ todo' = {} /\ list' = {} /\ bound' = {} /\ ecuch' = ecuch
      /\ orphaned \subseteq orphaned'
      /\ UNCHANGED <<pan, ch, change, missed>>
  BY DEF Phone_RegisterID, RegisterCut, Restarted, place
<1>2. Flagged' = {} /\ (limiteid' \/ Listed' \subseteq orphaned')
  <2>1. CASE Phone_RegisterID
    <3>1. fbound' = {} /\ file' # "gone" /\ limiteid'
      BY <2>1 DEF Phone_RegisterID, Overwritten
    <3> QED
      BY <3>1 DEF Flagged
  <2>2. CASE RegisterCut
    <3>1. /\ fbound' = {} /\ file' # "gone"
          /\ orphaned' = orphaned \cup (IF limiteid' THEN {} ELSE fids')
      BY <2>2 DEF RegisterCut
    <3> QED
      BY <3>1 DEF Flagged, Listed
  <2> QED
    BY <2>1, <2>2
<1>3. ASSUME NEW i \in Inverters, Free(i)'
      PROVE  Whereabouts(i)' /\ Remembered(i)'
  <2>1. Kept(i) /\ i \notin orphaned'
    BY <1>1, <1>3 DEF Inv, Deep, Free
  <2>2. /\ Near(i)' = Near(i) /\ Lifted(i)' = Lifted(i)
        /\ Settled(i)' = Settled(i)
    BY <1>1 DEF Near, Lifted, Settled
  <2> QED
    BY <1>1, <1>2, <2>1, <2>2 DEF Kept, Whereabouts, Remembered
<1> QED
  BY <1>1, <1>3, DeepPolling DEF Polling

\* A new channel, from the one on which the inverters are.
LEMMA DeepSetChannel == Inv /\ Phone_SetChannel => Deep'
<1> SUFFICES ASSUME Inv, Phone_SetChannel PROVE Deep'
  OBVIOUS
<1>1. PICK c \in {ecuch, 0}, d \in Chosen \ {ecuch} : change' = <<c, d>>
  BY DEF Phone_SetChannel
<1>2. /\ pc' = "init" /\ todo' = {} /\ list' = {} /\ bound' = {} /\ ecuch' = ecuch
      /\ limiteid' = TRUE
      /\ orphaned' = IF change = NoChange THEN orphaned
                     ELSE orphaned \cup {i \in Inverters : ch[i] # ecuch}
      /\ UNCHANGED <<pan, ch, missed, client>>
  BY DEF Phone_SetChannel, Restarted, place, outside
<1>3. change'[1] \in {ecuch, 0} /\ change' # NoChange
  <2>1. d # 0
    BY ChannelsAssumption
  <2> QED
    BY <1>1, <2>1 DEF NoChange
<1>4. ASSUME NEW i \in Inverters, Free(i)'
      PROVE  Whereabouts(i)' /\ Remembered(i)'
  <2>1. Kept(i) /\ (change # NoChange => ch[i] = ecuch)
    BY <1>2, <1>4 DEF Inv, Deep, Free
  <2>2. Near(i)' = Near(i) /\ Lifted(i)' = Lifted(i)
    BY <1>2 DEF Near, Lifted
  <2>3. Settled(i)' \/ ch[i] = ecuch
    BY <1>2, <2>1 DEF Kept, Whereabouts, Near, Lifted, Settled
  <2>4. Whereabouts(i)'
    BY <1>2, <1>3, <2>3 DEF Whereabouts
  <2>5. Lifted(i) => i \notin Flagged'
    <3>1. Base /\ FileLeft(FALSE)
      BY DEF Inv, Phone_SetChannel
    <3> QED
      BY <1>2, <2>1, <3>1, LeftFacts DEF Kept, Remembered, Saves, LiftPlaces
  <2> QED
    BY <1>2, <2>2, <2>4, <2>5 DEF Remembered
<1> QED
  BY <1>2, <1>4, DeepPolling DEF Polling

\* The main thread is restarted or the board is reset.
LEMMA DeepInterrupt ==
  Inv /\ (RestartMain \/ restartThread \/ reboot \/ NightlyReset) => Deep'
<1> SUFFICES ASSUME Inv, RestartMain \/ restartThread \/ reboot \/ NightlyReset
             PROVE  Deep'
  OBVIOUS
<1>1. CASE RestartMain
  <2>1. Due = {} /\ a103' = "none"
    BY <1>1 DEF RestartMain, Due
  <2> QED
    BY <1>1, <2>1, DeepRestart DEF RestartMain
<1>2. CASE restartThread
  BY <1>2, DeepRestart DEF restartThread, outside
<1>3. CASE reboot \/ NightlyReset
  <2>1. Restarted /\ FileLeft(Writing) /\ a103' = "none"
    BY <1>3 DEF reboot, NightlyReset, Reset
  <2>2. orphaned' = orphaned \cup Due /\ Writing \in BOOLEAN
    BY <1>3 DEF reboot, NightlyReset, Reset, Writing
  <2>3. UNCHANGED <<place, config, missed>>
    BY <1>3 DEF reboot, NightlyReset
  <2> QED
    BY <2>1, <2>2, <2>3, DeepRestart
<1> QED
  BY <1>1, <1>2, <1>3

\* A step that changes nothing of all this, as when it strikes ten.
LEMMA DeepSame ==
  ASSUME Inv, UNCHANGED <<module, place, staged, addresses, array, day, main, ids,
                          config, client, history>>
  PROVE  Deep'
<1>1. UNCHANGED <<modpan, modch, pan, ch, staged, short, list, bound, ecuch, pc,
                  todo, chan, limiteid, change, missed, orphaned>>
  BY DEF module, place, addresses, array, day, main, config, history
<1>2. Listed' = Listed /\ Due' = Due /\ Flagged' = Flagged
  BY SameFile
<1> QED
  BY <1>1, <1>2
     DEF Inv, Deep, OnMission, Kept, Free, Whereabouts, Told, BoundOnFile,
         Remembered, Fetched, InArray, Near, Lifted, Settled

-----------------------------------------------------------------------------
(* The theorem.                                                             *)

LEMMA InvStep == Inv /\ [Next]_vars => Inv'
<1> SUFFICES ASSUME Inv, [Next]_vars PROVE Deep'
  BY BaseStep DEF Inv
<1>1. CASE Main
  BY <1>1, DeepStart, DeepChannel, DeepBind, DeepRound, DeepSave DEF Main
<1>2. CASE A103 \/ set_inverter_id
  BY <1>2, DeepBegin, DeepChange, DeepArray, DeepInterrupt DEF set_inverter_id
<1>3. CASE \/ Phone_RegisterID \/ RegisterCut \/ Phone_SetChannel \/ restartThread
           \/ reboot \/ NightlyReset
  BY <1>3, DeepRegister, DeepSetChannel, DeepInterrupt
<1>4. CASE TenOClock
  BY <1>4, DeepSame DEF TenOClock
<1>5. CASE UNCHANGED vars
  BY <1>5, DeepSame DEF vars, outside
<1> QED
  BY <1>1, <1>2, <1>3, <1>4, <1>5 DEF Next

\* The invariant holds always.
THEOREM Invariance == Spec => []Inv
<1>1. Init => Inv
  BY BaseInit, DeepInit DEF Inv
<1> QED
  BY <1>1, InvStep, PTL DEF Spec

\* An inverter that neither polling nor the daily search reaches missed a message
\* to move or was left out, however often the main thread was restarted, the
\* board reset, the list or the channel changed in the middle of the binding.
THEOREM StrandedMissed == Spec => []StrandedOnlyIfMissed
<1>1. ASSUME Inv, NEW i \in Inverters, Stranded(i)
      PROVE  i \in missed \cup orphaned
  <2> SUFFICES ASSUME Free(i) PROVE FALSE
    BY DEF Free
  <2>1. Kept(i)
    BY <1>1 DEF Inv, Deep
  <2>2. change = NoChange
    BY <1>1 DEF Inv, Base, OrdersStand, ChannelPlaces, Stranded
  <2> QED
    BY <1>1, <2>1, <2>2 DEF Kept, Whereabouts, Remembered, Near, Stranded
<1>2. Inv => StrandedOnlyIfMissed
  BY <1>1 DEF StrandedOnlyIfMissed
<1> QED
  BY <1>2, Invariance, PTL
=============================================================================
