---------------------------- MODULE Energy_proofs ----------------------------
(* Proofs about Energy, for any number of inverters and channels.          *)
EXTENDS Energy, TLAPS

-----------------------------------------------------------------------------
(* The operators.                                                          *)

\* Rounding to the decimals of collect.con gives a natural number.
LEMMA DecimalType == ASSUME NEW g \in Nat PROVE Decimal(g) \in Nat
<1>1. Grain \in Nat /\ Grain > 0
  BY WidthAssumption
<1>2. Grain \div 2 \in Nat
  BY <1>1
<1> DEFINE h == g + Grain \div 2
<1>3. h \in Nat
  BY <1>2
<1>4. h \div Grain \in Nat
  <2> HIDE DEF h
  <2>1. h \div Grain \in Int
    BY <1>1, <1>3
  <2>2. h \div Grain >= 0
    BY <1>1, <1>3, SMTT(30)
  <2> QED BY <2>1, <2>2
<1> DEFINE q == h \div Grain
<1>5. q * Grain \in Nat
  <2> HIDE DEF q
  <2>1. q \in Nat
    BY <1>4 DEF q
  <2> QED BY <1>1, <2>1
<1> QED BY <1>5 DEF Decimal

\* Zero has an exact decimal form.
LEMMA DecimalZero == Decimal(0) = 0
<1>1. Grain \in Nat /\ Grain > 0
  BY WidthAssumption
<1> DEFINE h == Grain \div 2
<1>2. h \in Nat /\ h < Grain
  BY <1>1
<1>3. h \div Grain = 0
  <2> HIDE DEF h
  <2> QED BY <1>1, <1>2, SMTT(30)
<1>4. 0 + h = h
  BY <1>2
<1> QED BY <1>1, <1>3, <1>4 DEF Decimal

\* The line of a reading is a reading; an exact one has the same counters.
LEMMA LineFacts ==
  ASSUME NEW r \in Readings
  PROVE  /\ Line(r) \in Readings
         /\ Line(r).epoch = r.epoch
         /\ Line(r).exact => r.exact /\ Line(r).gen = r.gen
         /\ r = NoReading => Line(r) = NoReading
<1> DEFINE g == [c \in Channels |-> Decimal(r.gen[c])]
<1>1. r.gen \in [Channels -> Nat] /\ r.up \in Nat /\ r.epoch \in Nat \union {-1}
      /\ r.exact \in BOOLEAN
  BY DEF Readings
<1>2. g \in [Channels -> Nat]
  BY <1>1, DecimalType
<1>4. Line(r) = [gen |-> g, up |-> r.up, epoch |-> r.epoch,
                 exact |-> r.exact /\ g = r.gen]
  BY DEF Line
<1>5. (r.exact /\ g = r.gen) \in BOOLEAN
  OBVIOUS
<1>6. Line(r) \in Readings
  <2> HIDE DEF g
  <2> QED BY <1>1, <1>2, <1>4, <1>5 DEF Readings
<1>7. ASSUME r = NoReading PROVE Line(r) = NoReading
  <2>1. r.gen = Zero /\ g = Zero
    BY <1>7, DecimalZero DEF NoReading, Zero
  <2>2. r.up = 0 /\ r.epoch = -1 /\ r.exact = TRUE
    BY <1>7 DEF NoReading
  <2>3. (r.exact /\ g = r.gen) = TRUE
    BY <2>1, <2>2
  <2> QED
    <3> HIDE DEF g
    <3> QED BY <1>4, <2>1, <2>2, <2>3 DEF NoReading
<1>8. Line(r).epoch = r.epoch /\ (Line(r).exact => r.exact /\ Line(r).gen = r.gen)
  <2>1. Line(r).epoch = r.epoch
    <3> HIDE DEF g
    <3> QED BY <1>4
  <2>2. Line(r).gen = g
    <3> HIDE DEF g
    <3> QED BY <1>4
  <2>3. Line(r).exact = (r.exact /\ g = r.gen)
    <3> DEFINE e == (r.exact /\ g = r.gen)
    <3>1. Line(r) = [gen |-> g, up |-> r.up, epoch |-> r.epoch, exact |-> e]
      BY <1>4
    <3> HIDE DEF g, e
    <3>2. Line(r).exact = e
      BY <3>1
    <3> QED BY <3>2, Zenon DEF e
  <2> HIDE DEF g
  <2> QED BY <2>1, <2>2, <2>3, Zenon
<1> QED BY <1>6, <1>7, <1>8

\* A truncated file has no reading.
LEMMA NoReadingType == NoReading \in Readings /\ NoReading.epoch = -1
BY DEF NoReading, Readings, Zero

\* The two bytes of the time are a natural number.
LEMMA AcctimeType == ASSUME NEW u \in Nat PROVE acctime(u) \in Nat
BY WidthAssumption DEF acctime

-----------------------------------------------------------------------------
(* One reading.                                                            *)

\* The doubts are among the five.
LEMMA DoubtsType ==
  ASSUME NEW i
  PROVE  Doubts(i) \in SUBSET {"forgotten", "rounded", "wrapped", "idle", "overtaken"}
BY DEF Doubts

\* What a reading that counts too much in no way is free of.
LEMMA NotTooMuch ==
  ASSUME NEW i, Doubts(i) \subseteq {"overtaken"}
  PROVE  /\ ~(seen[i] /\ pre[i].epoch = -1)
         /\ ~(pre[i].epoch = epoch[i] /\ ~pre[i].exact)
         /\ ~(pre[i].epoch = epoch[i] /\ acctime(up[i]) < acctime(pre[i].up))
         /\ ~(/\ i \notin YC600 /\ pre[i].epoch = epoch[i]
              /\ \/ acctime(up[i]) = acctime(pre[i].up)
                 \/ \E c \in Channels : gen[i][c] = pre[i].gen[c])
<1>1. "forgotten" \notin Doubts(i) /\ "rounded" \notin Doubts(i)
      /\ "wrapped" \notin Doubts(i) /\ "idle" \notin Doubts(i)
  OBVIOUS
<1> QED BY <1>1, Zenon DEF Doubts

\* A reading without doubt has not overtaken the one before.
LEMMA NotOvertaken ==
  ASSUME NEW i, Doubts(i) = {}
  PROVE  ~(/\ pre[i].epoch \notin {-1, epoch[i]}
           /\ \A c \in Channels : gen[i][c] >= pre[i].gen[c]
           /\ acctime(up[i]) >= acctime(pre[i].up))
<1>1. "overtaken" \notin Doubts(i)
  OBVIOUS
<1> QED BY <1>1, Zenon DEF Doubts

\* The types of what a reading uses.
LEMMA ReadTypes ==
  ASSUME TypeOK, NEW i \in Inverters
  PROVE  /\ gen[i] \in [Channels -> Nat] /\ pre[i] \in Readings
         /\ pre[i].gen \in [Channels -> Nat] /\ epoch[i] \in Nat
         /\ pre[i].epoch \in Int /\ pre[i].exact \in BOOLEAN
         /\ acctime(up[i]) \in Nat /\ acctime(pre[i].up) \in Nat
<1>1. up[i] \in Nat /\ pre[i] \in Readings /\ gen[i] \in [Channels -> Nat]
      /\ epoch[i] \in Nat
  BY DEF TypeOK, Amounts
<1>2. pre[i].gen \in [Channels -> Nat] /\ pre[i].up \in Nat /\ pre[i].epoch \in Int
  BY <1>1 DEF Readings
<1>3. pre[i].exact \in BOOLEAN
  BY <1>1 DEF Readings
<1> QED BY <1>1, <1>2, <1>3, AcctimeType

\* Both ways of resolving give natural numbers.
LEMMA ResolvedType ==
  ASSUME TypeOK, NEW i \in Inverters
  PROVE  Resolved(i) \in [Channels -> Nat]
<1>1. gen[i] \in [Channels -> Nat] /\ pre[i].gen \in [Channels -> Nat]
  BY ReadTypes
<1>2. ASSUME \A c \in Channels : gen[i][c] >= pre[i].gen[c]
      PROVE  Difference(i) \in [Channels -> Nat]
  BY <1>1, <1>2 DEF Difference
<1>3. (\A c \in Channels : gen[i][c] > pre[i].gen[c])
        => \A c \in Channels : gen[i][c] >= pre[i].gen[c]
  BY <1>1
<1> QED BY <1>1, <1>2, <1>3 DEF Resolved, resolvedata_600, resolvedata_1000

\* So is what was produced.
LEMMA ProducedType ==
  ASSUME TypeOK, NEW i \in Inverters, Behind(i, pre[i])
  PROVE  Produced(i) \in [Channels -> Nat]
BY ReadTypes DEF Produced, Difference, Behind

\* A reading while the inverter runs on, in no doubt: the difference.
LEMMA SameRun ==
  ASSUME TypeOK, NEW i \in Inverters, Behind(i, pre[i]),
         Doubts(i) \subseteq {"overtaken"}, pre[i].epoch = epoch[i]
  PROVE  Resolved(i) = Difference(i) /\ pre[i].exact
<1>1. gen[i] \in [Channels -> Nat] /\ pre[i].gen \in [Channels -> Nat]
      /\ acctime(up[i]) \in Nat /\ acctime(pre[i].up) \in Nat
  BY ReadTypes
<1>2. pre[i].exact
  BY NotTooMuch
<1>3. \A c \in Channels : pre[i].gen[c] <= gen[i][c]
  BY <1>2 DEF Behind
<1>4. ~(acctime(up[i]) < acctime(pre[i].up))
  BY NotTooMuch
<1>5. CASE i \in YC600
  BY <1>1, <1>3, <1>4, <1>5, <1>2 DEF Resolved, resolvedata_600
<1>6. CASE i \notin YC600
  <2>1. acctime(up[i]) # acctime(pre[i].up)
        /\ \A c \in Channels : gen[i][c] # pre[i].gen[c]
    BY <1>6, NotTooMuch
  <2>2. acctime(up[i]) > acctime(pre[i].up)
        /\ \A c \in Channels : gen[i][c] > pre[i].gen[c]
    BY <1>1, <1>3, <1>4, <2>1
  <2> QED BY <1>2, <1>6, <2>2 DEF Resolved, resolvedata_1000
<1> QED BY <1>5, <1>6

\* A reading in no doubt is exact.
LEMMA ReadingExact ==
  ASSUME TypeOK, NEW i \in Inverters, Behind(i, pre[i]), Doubts(i) = {}
  PROVE  Resolved(i) = Produced(i)
<1>1. gen[i] \in [Channels -> Nat] /\ pre[i].gen \in [Channels -> Nat]
      /\ acctime(up[i]) \in Nat /\ acctime(pre[i].up) \in Nat
  BY ReadTypes
<1>2. CASE pre[i].epoch = epoch[i]
  BY <1>2, SameRun DEF Produced
<1>3. CASE pre[i].epoch # epoch[i] /\ pre[i].epoch = -1
  <2>1. pre[i].gen = Zero
    BY <1>3 DEF Behind, NoReading
  <2>2. Difference(i) = gen[i]
    BY <1>1, <2>1 DEF Difference, Zero
  <2> QED BY <1>3, <2>2 DEF Produced, Resolved, resolvedata_600, resolvedata_1000
<1>4. CASE pre[i].epoch # epoch[i] /\ pre[i].epoch # -1
  <2>1. ~(/\ \A c \in Channels : gen[i][c] >= pre[i].gen[c]
          /\ acctime(up[i]) >= acctime(pre[i].up))
    BY <1>4, NotOvertaken
  <2>2. ~(/\ \A c \in Channels : gen[i][c] > pre[i].gen[c]
          /\ acctime(up[i]) > acctime(pre[i].up))
    BY <1>1, <2>1
  <2> QED BY <1>4, <2>1, <2>2 DEF Produced, Resolved, resolvedata_600, resolvedata_1000
<1> QED BY <1>2, <1>3, <1>4

\* A reading that counts too much in no way takes at most what is unread.
LEMMA ReadingCovered ==
  ASSUME TypeOK, NEW i \in Inverters, Behind(i, pre[i]),
         Doubts(i) \subseteq {"overtaken"}
  PROVE  /\ Usable(i, pre[i])
         /\ \A c \in Channels : Resolved(i)[c] <= Unread(i, c, pre[i])
<1>1. gen[i] \in [Channels -> Nat] /\ pre[i].gen \in [Channels -> Nat]
  BY ReadTypes
<1>2. Usable(i, pre[i])
  BY NotTooMuch DEF Usable
<1>3. CASE pre[i].epoch = epoch[i]
  BY <1>1, <1>2, <1>3, SameRun DEF Unread, Difference
<1>4. CASE pre[i].epoch # epoch[i]
  <2>1. \A c \in Channels : Difference(i)[c] <= gen[i][c]
    BY <1>1 DEF Difference
  <2>2. Resolved(i) = Difference(i) \/ Resolved(i) = gen[i]
    BY DEF Resolved, resolvedata_600, resolvedata_1000
  <2> QED BY <1>1, <1>2, <1>4, <2>1, <2>2 DEF Unread
<1> QED BY <1>3, <1>4

-----------------------------------------------------------------------------
(* The inductive invariant.                                                *)

\* The numbers of one channel.
LEMMA Numbers ==
  ASSUME TypeOK, NEW i \in Inverters, NEW c \in Channels
  PROVE  /\ gen[i][c] \in Nat /\ made[i][c] \in Nat /\ life[i][c] \in Nat
         /\ cur[i][c] \in Nat /\ get_lifetime_power[i][c] \in Nat
         /\ ltpower[i][c] \in Nat
         /\ current_energy(i, c) \in Nat /\ Pending(i, c) \in Nat
         /\ epoch[i] \in Nat
         /\ pre[i] \in Readings /\ collect[i] \in Readings
<1>1. /\ gen[i][c] \in Nat /\ made[i][c] \in Nat /\ life[i][c] \in Nat
      /\ cur[i][c] \in Nat /\ ltpower[i][c] \in Nat
  BY DEF TypeOK, Amounts
<1>2. epoch[i] \in Nat /\ pre[i] \in Readings /\ collect[i] \in Readings
  BY DEF TypeOK
<1>3. get_lifetime_power[i][c] \in Nat
  BY <1>1 DEF get_lifetime_power, Zero
<1>4. current_energy(i, c) \in Nat /\ Pending(i, c) \in Nat
  BY <1>1 DEF current_energy, Pending
<1> QED BY <1>1, <1>2, <1>3, <1>4

\* The fields of a reading.
LEMMA ReadingType ==
  ASSUME NEW b \in Readings
  PROVE  b.gen \in [Channels -> Nat] /\ b.epoch \in Int /\ b.exact \in BOOLEAN
<1>1. b.gen \in [Channels -> Nat] /\ b.epoch \in Int
  BY DEF Readings
<1>2. b.exact \in BOOLEAN
  BY DEF Readings
<1> QED BY <1>1, <1>2

\* The board and the inverters start together.
LEMMA InitIInv == Init => IInv
<1> SUFFICES ASSUME Init PROVE IInv
  OBVIOUS
<1>0. Zero \in [Channels -> Nat] /\ \A c \in Channels : Zero[c] = 0
  BY DEF Zero
<1>1. TypeOK
  BY <1>0, NoReadingType DEF Init, TypeOK, Amounts
<1>2. Blank /\ Filed /\ ExactRound /\ Stored
  BY <1>0 DEF Init, Blank, YC600, Filed, ExactRound, Stored, get_lifetime_power
<1>3. Unseen
  BY NoReadingType DEF Init, Unseen
<1>4. Readable
  <2> SUFFICES ASSUME NEW i \in Inverters PROVE Behind(i, NoReading)
    BY DEF Init, Readable
  <2> QED BY NoReadingType DEF Init, Behind
<1>5. Balance
  <2> SUFFICES ASSUME NEW i \in Inverters, NEW c \in Channels
               PROVE  /\ Covered(i, c, life[i][c] + Pending(i, c), pre[i])
                      /\ Covered(i, c, get_lifetime_power[i][c], collect[i])
    BY DEF Balance
  <2>1. life[i][c] + Pending(i, c) = 0 /\ get_lifetime_power[i][c] = 0
    BY <1>0 DEF Init, Pending, current_energy, get_lifetime_power
  <2>2. gen[i][c] = 0 /\ made[i][c] = 0 /\ epoch[i] = 0
        /\ pre[i].epoch = -1 /\ collect[i].epoch = -1
    BY <1>0, NoReadingType DEF Init
  <2> QED BY <2>1, <2>2 DEF Covered, Unread
<1> QED BY <1>1, <1>2, <1>3, <1>4, <1>5 DEF IInv

\* Producing energy keeps the invariant: a reading grows with what is made.
LEMMA GenerateIInv ==
  ASSUME IInv, NEW j \in Inverters, NEW S \in SUBSET Channels, Generate(j, S)
  PROVE  IInv'
<1> USE DEF IInv
<1>0. UNCHANGED <<model, epoch, mpc, dataflag, pre, cur, life, collect, ltpower, cleared,
                  seen, want, doubt, clean>>
  BY DEF Generate, memory, files, history
<1>1. TypeOK'
  <2>1. gen[j] \in [Channels -> Nat] /\ made[j] \in [Channels -> Nat] /\ up[j] \in Nat
    BY DEF TypeOK, Amounts
  <2>2. gen' \in Amounts /\ made' \in Amounts /\ up' \in [Inverters -> Nat]
    BY <2>1 DEF TypeOK, Amounts, Generate
  <2> QED BY <1>0, <2>2 DEF TypeOK
<1>2. Blank' /\ Unseen' /\ Filed' /\ ExactRound' /\ Stored'
  BY <1>0 DEF Blank, YC600, Unseen, Filed, ExactRound, Stored, get_lifetime_power
<1>3. ASSUME NEW i \in Inverters, NEW c \in Channels
      PROVE  \E d \in {0, 1} : gen'[i][c] = gen[i][c] + d
                               /\ made'[i][c] = made[i][c] + d
  <2>1. gen[i][c] \in Nat /\ made[i][c] \in Nat
    BY Numbers
  <2>2. gen'[i][c] = IF i = j /\ c \in S THEN gen[i][c] + 1 ELSE gen[i][c]
    BY DEF Generate, TypeOK, Amounts
  <2>3. made'[i][c] = IF i = j /\ c \in S THEN made[i][c] + 1 ELSE made[i][c]
    BY DEF Generate, TypeOK, Amounts
  <2> QED BY <2>1, <2>2, <2>3
<1>4. Readable'
  <2> SUFFICES ASSUME NEW i \in Inverters, NEW b \in Readings, Behind(i, b)
               PROVE  Behind(i, b)'
    BY <1>0, ReadingType DEF Readable, TypeOK
  <2>1. \A c \in Channels : gen[i][c] <= gen'[i][c]
    BY <1>3, Numbers
  <2> QED BY <1>0, <1>1, <2>1, ReadingType, Numbers DEF Behind, TypeOK, Amounts
<1>5. Balance'
  <2> SUFFICES ASSUME NEW i \in Inverters, NEW c \in Channels, NEW e \in Nat,
                      NEW b \in Readings, Covered(i, c, e, b)
               PROVE  Covered(i, c, e, b)'
    BY <1>0, Numbers DEF Balance, Pending, current_energy, get_lifetime_power
  <2>1. PICK d \in {0, 1} : gen'[i][c] = gen[i][c] + d /\ made'[i][c] = made[i][c] + d
    BY <1>3
  <2>2. Unread(i, c, b)' = Unread(i, c, b) + d /\ Unread(i, c, b) \in Int
    BY <1>0, <2>1, ReadingType, Numbers DEF Unread
  <2>3. Usable(i, b)' <=> Usable(i, b)
    BY <1>0 DEF Usable
  <2>4. made[i][c] \in Nat
    BY Numbers
  <2> QED BY <1>0, <2>1, <2>2, <2>3, <2>4 DEF Covered
<1> QED BY <1>1, <1>2, <1>4, <1>5

\* A restart of an inverter keeps it: nothing is unread then.
LEMMA RestartIInv ==
  ASSUME IInv, NEW j \in Inverters, Restart(j)
  PROVE  IInv'
<1> USE DEF IInv
<1>0. UNCHANGED <<model, made, mpc, dataflag, pre, cur, life, collect, ltpower, cleared,
                  seen, want, doubt, clean>>
  BY DEF Restart, memory, files, history
<1>1. TypeOK'
  <2>1. Zero \in [Channels -> Nat] /\ epoch[j] + 1 \in Nat
    BY DEF TypeOK, Zero
  <2>2. gen' \in Amounts /\ up' \in [Inverters -> Nat] /\ epoch' \in [Inverters -> Nat]
    BY <2>1 DEF TypeOK, Amounts, Restart
  <2> QED BY <1>0, <2>2 DEF TypeOK
<1>2. Blank' /\ Unseen' /\ Filed' /\ ExactRound' /\ Stored'
  BY <1>0 DEF Blank, YC600, Unseen, Filed, ExactRound, Stored, get_lifetime_power
<1>3. ASSUME NEW i \in Inverters, i # j
      PROVE  gen'[i] = gen[i] /\ epoch'[i] = epoch[i]
  BY <1>3 DEF Restart, TypeOK, Amounts
<1>4. /\ epoch'[j] = epoch[j] + 1 /\ epoch[j] \in Nat
      /\ \A c \in Channels : gen'[j][c] = 0
  BY DEF Restart, TypeOK, Amounts, Zero
<1>5. Readable'
  <2> SUFFICES ASSUME NEW i \in Inverters, NEW b \in Readings, Behind(i, b)
               PROVE  Behind(i, b)'
    BY <1>0 DEF Readable, TypeOK
  <2>1. CASE i # j
    BY <1>3, <2>1 DEF Behind
  <2>2. CASE i = j
    BY <1>4, <2>2, ReadingType DEF Behind
  <2> QED BY <2>1, <2>2
<1>6. Balance'
  <2> SUFFICES ASSUME NEW i \in Inverters, NEW c \in Channels, NEW e \in Nat,
                      NEW b \in Readings, Behind(i, b), Covered(i, c, e, b)
               PROVE  Covered(i, c, e, b)'
    BY <1>0, Numbers DEF Balance, Readable, Pending, current_energy, get_lifetime_power
  <2>1. CASE i # j
    BY <1>0, <1>3, <2>1 DEF Covered, Unread, Usable
  <2>2. CASE i = j
    <3>1. b.epoch # epoch'[j]
      BY <1>4, <2>2, ReadingType DEF Behind
    <3>2. Unread(i, c, b)' = 0
      BY <1>4, <2>2, <3>1 DEF Unread
    <3> QED BY <1>0, <3>2, Numbers DEF Covered
  <2> QED BY <2>1, <2>2
<1> QED BY <1>1, <1>2, <1>5, <1>6

\* A reading keeps it: what is unread becomes pending.
LEMMA QueryIInv ==
  ASSUME IInv, NEW j \in Inverters, zb_query_data(j)
  PROVE  IInv'
<1> USE DEF IInv
<1> DEFINE r == [gen |-> gen[j], up |-> up[j], epoch |-> epoch[j], exact |-> TRUE]
<1>0. /\ UNCHANGED <<model, gen, up, epoch, made, mpc, life, collect, ltpower, cleared>>
      /\ mpc = "query" /\ ~dataflag[j]
  BY DEF zb_query_data, inverter, files
<1>a. Behind(j, pre[j])
  BY DEF Readable
<1>b. Resolved(j) \in [Channels -> Nat] /\ Produced(j) \in [Channels -> Nat]
  BY <1>a, ResolvedType, ProducedType
<1>c. r \in Readings /\ r.epoch = epoch[j] /\ r.gen = gen[j] /\ epoch[j] \in Nat
  BY DEF Readings, TypeOK, Amounts
<1>d. /\ dataflag'[j] = TRUE /\ cur'[j] = Resolved(j) /\ pre'[j] = r
      /\ seen'[j] = TRUE /\ want'[j] = Produced(j) /\ doubt'[j] = Doubts(j)
      /\ clean'[j] = (clean[j] /\ Doubts(j) \subseteq {"overtaken"})
  <2>1. /\ dataflag'[j] = TRUE /\ cur'[j] = Resolved(j) /\ pre'[j] = r
        /\ seen'[j] = TRUE /\ want'[j] = Produced(j) /\ doubt'[j] = Doubts(j)
    BY DEF zb_query_data, TypeOK, Amounts
  <2>2. clean'[j] = (clean[j] /\ Doubts(j) \subseteq {"overtaken"})
    BY Zenon DEF zb_query_data, TypeOK
  <2> QED BY <2>1, <2>2
<1>e. ASSUME NEW i \in Inverters, i # j
      PROVE  /\ dataflag'[i] = dataflag[i] /\ cur'[i] = cur[i] /\ pre'[i] = pre[i]
             /\ seen'[i] = seen[i] /\ want'[i] = want[i] /\ doubt'[i] = doubt[i]
             /\ clean'[i] = clean[i]
  BY <1>e DEF zb_query_data, TypeOK, Amounts
<1>1. TypeOK'
  <2>1. dataflag' \in [Inverters -> BOOLEAN] /\ seen' \in [Inverters -> BOOLEAN]
    BY DEF zb_query_data, TypeOK
  <2>2. clean' \in [Inverters -> BOOLEAN]
    <3>1. (clean[j] /\ Doubts(j) \subseteq {"overtaken"}) \in BOOLEAN
      BY Zenon
    <3> QED BY <3>1, Zenon DEF zb_query_data, TypeOK
  <2>3. pre' \in [Inverters -> Readings]
    <3> HIDE DEF r
    <3>1. pre' = [pre EXCEPT ![j] = r]
      BY DEF zb_query_data, r
    <3> QED BY <1>c, <3>1 DEF TypeOK
  <2>4. cur' \in Amounts /\ want' \in Amounts
    BY <1>b DEF zb_query_data, TypeOK, Amounts
  <2>5. doubt' \in [Inverters -> SUBSET {"forgotten", "rounded", "wrapped",
                                         "idle", "overtaken"}]
    BY DoubtsType DEF zb_query_data, TypeOK
  <2> QED BY <1>0, <2>1, <2>2, <2>3, <2>4, <2>5 DEF TypeOK
<1> HIDE DEF r
<1>2. Blank'
  BY <1>0, <1>d, <1>e DEF Blank, YC600
<1>3. Readable'
  <2> SUFFICES ASSUME NEW i \in Inverters
               PROVE  Behind(i, pre[i])' /\ Behind(i, collect[i])'
    BY DEF Readable
  <2>1. Behind(i, collect[i])'
    BY <1>0 DEF Behind, Readable
  <2>2. CASE i # j
    BY <1>0, <1>e, <2>1, <2>2 DEF Behind, Readable
  <2>3. CASE i = j
    <3>1. \A c \in Channels : gen[j][c] \in Nat
      BY Numbers
    <3> QED BY <1>0, <1>c, <1>d, <2>1, <2>3, <3>1 DEF Behind
  <2> QED BY <2>2, <2>3
<1>4. Unseen'
  BY <1>0, <1>d, <1>e DEF Unseen
<1>5. Filed' /\ Stored'
  BY <1>0 DEF Filed, Stored, get_lifetime_power
<1>6. ExactRound'
  BY <1>a, <1>d, <1>e, ReadingExact DEF ExactRound
<1>7. Balance'
  <2> SUFFICES ASSUME NEW i \in Inverters, NEW c \in Channels
               PROVE  /\ Covered(i, c, life[i][c] + Pending(i, c), pre[i])'
                      /\ Covered(i, c, get_lifetime_power[i][c], collect[i])'
    BY DEF Balance
  <2>0. /\ Covered(i, c, life[i][c] + Pending(i, c), pre[i])
        /\ Covered(i, c, get_lifetime_power[i][c], collect[i])
    BY DEF Balance
  <2>1. /\ clean'[i] => clean[i]
        /\ seen[i] => seen'[i]
    BY <1>d, <1>e, Zenon
  <2>2. Covered(i, c, get_lifetime_power[i][c], collect[i])'
    <3>1. Usable(i, collect[i])' => Usable(i, collect[i])
      BY <1>0, <2>1 DEF Usable
    <3> QED BY <1>0, <2>0, <2>1, <3>1 DEF Covered, Unread, get_lifetime_power
  <2>3. CASE i # j
    <3>1. (life[i][c] + Pending(i, c))' = life[i][c] + Pending(i, c)
      BY <1>0, <1>e, <2>3 DEF Pending, current_energy
    <3> QED BY <1>0, <1>e, <2>0, <2>2, <2>3, <3>1 DEF Covered, Unread, Usable
  <2>4. CASE i = j
    <3>1. Pending(i, c) = 0
      BY <1>0, <2>4 DEF Pending, current_energy
    <3>2. Pending(i, c)' = Resolved(j)[c]
      BY <1>0, <1>d, <2>4 DEF Pending, current_energy
    <3>3. Unread(i, c, pre[i])' = 0
      BY <1>0, <1>c, <1>d, <2>4, Numbers DEF Unread
    <3>4. ASSUME clean'[i]
          PROVE  (life[i][c] + Pending(i, c))' <= made'[i][c]
      <4>1. clean[j] /\ Doubts(j) \subseteq {"overtaken"}
        BY <1>d, <2>4, <3>4, Zenon
      <4>2. Usable(j, pre[j]) /\ Resolved(j)[c] <= Unread(j, c, pre[j])
        BY <1>a, <4>1, ReadingCovered
      <4>3. life[j][c] + 0 + Unread(j, c, pre[j]) <= made[j][c]
        BY <2>0, <2>4, <3>1, <4>1, <4>2 DEF Covered
      <4>4. /\ life[j][c] \in Nat /\ made[j][c] \in Nat /\ Resolved(j)[c] \in Nat
            /\ Unread(j, c, pre[j]) \in Int
        BY <1>b, Numbers, ReadingType DEF Unread
      <4> QED BY <1>0, <2>4, <3>2, <4>2, <4>3, <4>4
    <3>5. (life[i][c] + Pending(i, c))' \in Int
      BY <1>0, <1>b, <2>4, <3>2, Numbers
    <3> QED BY <2>2, <3>3, <3>4, <3>5 DEF Covered
  <2> QED BY <2>3, <2>4
<1> QED BY <1>1, <1>2, <1>3, <1>4, <1>5, <1>6, <1>7

\* An answer of another kind keeps it: there is nothing to add.
LEMMA OtherIInv ==
  ASSUME IInv, NEW j \in Inverters, OtherAnswer(j)
  PROVE  IInv'
<1> USE DEF IInv
<1>0. /\ UNCHANGED <<model, gen, up, epoch, made, mpc, pre, cur, life, collect, ltpower,
                     cleared, seen, want, doubt, clean>>
      /\ mpc = "query" /\ ~dataflag[j] /\ j \in YC600
      /\ dataflag' = [dataflag EXCEPT ![j] = TRUE]
  BY DEF OtherAnswer, inverter, files, history
<1>1. cur[j] = Zero /\ want[j] = Zero
  BY <1>0 DEF Blank, YC600
<1>2. TypeOK'
  BY <1>0 DEF TypeOK
<1>3. dataflag'[j] = TRUE /\ \A i \in Inverters : i # j => dataflag'[i] = dataflag[i]
  BY <1>0 DEF TypeOK
<1>4. Blank' /\ Readable' /\ Unseen' /\ Filed' /\ Stored'
  BY <1>0, <1>3 DEF Blank, YC600, Readable, Behind, Unseen, Filed, Stored, get_lifetime_power
<1>5. ExactRound'
  BY <1>0, <1>1, <1>3 DEF ExactRound
<1>6. Balance'
  <2> SUFFICES ASSUME NEW i \in Inverters, NEW c \in Channels
               PROVE  Pending(i, c)' = Pending(i, c)
    BY <1>0 DEF Balance, Covered, Unread, Usable, get_lifetime_power
  <2>1. CASE i # j
    BY <1>0, <1>3, <2>1 DEF Pending, current_energy
  <2>2. CASE i = j
    BY <1>0, <1>1, <1>3, <2>2 DEF Pending, current_energy, Zero
  <2> QED BY <2>1, <2>2
<1> QED BY <1>2, <1>4, <1>5, <1>6

\* Truncating collect.con keeps it.
LEMMA GetalldataIInv == ASSUME IInv, getalldata PROVE IInv'
<1> USE DEF IInv
<1>0. /\ UNCHANGED <<model, gen, up, epoch, made, dataflag, pre, cur, life, ltpower,
                     cleared, seen, want, doubt, clean>>
      /\ mpc = "query" /\ mpc' = "tmpdb"
      /\ collect' = [i \in Inverters |-> NoReading]
  BY DEF getalldata, inverter, history
<1>1. TypeOK'
  BY <1>0, NoReadingType DEF TypeOK
<1>2. Blank' /\ Unseen' /\ Filed' /\ ExactRound' /\ Stored'
  BY <1>0, NoReadingType
     DEF Blank, YC600, Unseen, Filed, ExactRound, Stored, get_lifetime_power
<1>3. Readable'
  <2> SUFFICES ASSUME NEW i \in Inverters
               PROVE  Behind(i, pre[i])' /\ Behind(i, NoReading)'
    BY <1>0 DEF Readable
  <2>1. epoch[i] \in Nat
    BY DEF TypeOK
  <2> QED BY <1>0, <2>1, NoReadingType DEF Readable, Behind
<1>4. Balance'
  <2> SUFFICES ASSUME NEW i \in Inverters, NEW c \in Channels
               PROVE  /\ Covered(i, c, life[i][c] + Pending(i, c), pre[i])'
                      /\ Covered(i, c, get_lifetime_power[i][c], collect[i])'
    BY DEF Balance
  <2>1. Covered(i, c, life[i][c] + Pending(i, c), pre[i])'
    BY <1>0 DEF Balance, Covered, Pending, current_energy, Unread, Usable
  <2>2. collect'[i].epoch = -1 /\ epoch[i] # -1
    BY <1>0, NoReadingType DEF TypeOK
  <2>3. ASSUME ~seen[i]
        PROVE  Usable(i, collect[i]) /\ Unread(i, c, collect[i]) = gen[i][c]
    BY <2>2, <2>3 DEF Unseen, Usable, Unread
  <2>4. Usable(i, collect[i])' => ~seen[i]
    BY <1>0, <2>2 DEF Usable
  <2>5. Unread(i, c, collect[i])' = gen[i][c]
    BY <1>0, <2>2 DEF Unread
  <2>6. Covered(i, c, get_lifetime_power[i][c], collect[i])
    BY DEF Balance
  <2> QED BY <1>0, <2>1, <2>3, <2>4, <2>5, <2>6 DEF Covered, get_lifetime_power
<1> QED BY <1>1, <1>2, <1>3, <1>4

\* A line is as good a reading to count from as the reading it was made of.
LEMMA LineCounts ==
  ASSUME TypeOK, NEW i \in Inverters, NEW c \in Channels, NEW b \in Readings,
         Behind(i, b)
  PROVE  /\ Behind(i, Line(b))
         /\ Usable(i, Line(b)) =>
              Usable(i, b) /\ Unread(i, c, Line(b)) = Unread(i, c, b)
<1>1. Behind(i, Line(b))
  BY LineFacts DEF Behind
<1>2. Usable(i, Line(b)) => Usable(i, b) /\ Unread(i, c, Line(b)) = Unread(i, c, b)
  BY LineFacts DEF Usable, Unread
<1> QED BY <1>1, <1>2

\* What collect.con counts from, once it is written, memory counts from too.
LEMMA FiledCounts ==
  ASSUME IInv, NEW i \in Inverters, NEW c \in Channels, NEW b,
         b = IF dataflag[i] THEN Line(pre[i]) ELSE NoReading
  PROVE  Usable(i, b) =>
           Usable(i, pre[i]) /\ Unread(i, c, b) = Unread(i, c, pre[i])
<1> USE DEF IInv
<1>1. CASE dataflag[i]
  BY <1>1, LineCounts, Numbers DEF Readable
<1>2. CASE ~dataflag[i]
  <2>1. b.epoch = -1 /\ epoch[i] # -1
    BY <1>2, NoReadingType DEF TypeOK
  <2> QED BY <2>1 DEF Usable, Unread, Unseen
<1> QED BY <1>1, <1>2

\* Writing collect.con keeps it.
LEMMA TmpdbIInv == ASSUME IInv, update_tmpdb PROVE IInv'
<1> USE DEF IInv
<1>0. /\ UNCHANGED <<model, gen, up, epoch, made, dataflag, pre, cur, life, ltpower,
                     cleared, seen, want, doubt, clean>>
      /\ mpc = "tmpdb" /\ mpc' = "life"
      /\ collect' = [i \in Inverters |-> IF dataflag[i] THEN Line(pre[i])
                                                        ELSE NoReading]
  BY DEF update_tmpdb, inverter, history
<1>1. TypeOK'
  <2>1. collect' \in [Inverters -> Readings]
    BY <1>0, NoReadingType, LineFacts DEF TypeOK
  <2> QED BY <1>0, <2>1 DEF TypeOK
<1>2. Blank' /\ Filed' /\ ExactRound' /\ Stored'
  BY <1>0 DEF Blank, YC600, Filed, ExactRound, Stored, get_lifetime_power
<1>3. Unseen'
  <2> SUFFICES ASSUME NEW i \in Inverters, ~seen[i]
               PROVE  pre[i].epoch = -1 /\ collect'[i].epoch = -1
    BY <1>0 DEF Unseen
  <2>1. pre[i].epoch = -1 /\ pre[i] \in Readings
    BY DEF Unseen, TypeOK
  <2> QED BY <1>0, <2>1, LineFacts, NoReadingType
<1>4. Readable'
  <2> SUFFICES ASSUME NEW i \in Inverters
               PROVE  Behind(i, pre[i])' /\ Behind(i, collect[i])'
    BY DEF Readable
  <2>1. Behind(i, pre[i]) /\ pre[i] \in Readings /\ epoch[i] \in Nat
    BY DEF Readable, TypeOK
  <2>2. Behind(i, Line(pre[i])) /\ Behind(i, NoReading)
    BY <2>1, LineFacts, NoReadingType DEF Behind
  <2> QED BY <1>0, <2>1, <2>2 DEF Behind
<1>5. Balance'
  <2> SUFFICES ASSUME NEW i \in Inverters, NEW c \in Channels
               PROVE  /\ Covered(i, c, life[i][c] + Pending(i, c), pre[i])'
                      /\ Covered(i, c, get_lifetime_power[i][c], collect[i])'
    BY DEF Balance
  <2>1. Covered(i, c, life[i][c] + Pending(i, c), pre[i])'
    BY <1>0 DEF Balance, Covered, Pending, current_energy, Unread, Usable
  <2>2. Usable(i, collect[i])' =>
          Usable(i, pre[i]) /\ Unread(i, c, collect[i])' = Unread(i, c, pre[i])
    <3>1. Usable(i, collect'[i]) =>
            Usable(i, pre[i]) /\ Unread(i, c, collect'[i]) = Unread(i, c, pre[i])
      BY <1>0, FiledCounts
    <3> QED BY <1>0, <3>1 DEF Usable, Unread
  <2>3. Covered(i, c, life[i][c] + Pending(i, c), pre[i])
    BY DEF Balance
  <2>4. get_lifetime_power[i][c] <= life[i][c] + Pending(i, c)
    BY Numbers DEF Stored
  <2>5. Unread(i, c, pre[i]) \in Int
    BY Numbers, ReadingType DEF Unread
  <2>6. get_lifetime_power' = get_lifetime_power
    BY <1>0 DEF get_lifetime_power
  <2> QED BY <1>0, <2>1, <2>2, <2>3, <2>4, <2>5, <2>6, Numbers DEF Covered
<1> QED BY <1>1, <1>2, <1>3, <1>4, <1>5

\* Adding the energy of the round keeps it: what was pending is added.
LEMMA AddIInv == ASSUME IInv, AddEnergy PROVE IInv'
<1> USE DEF IInv
<1>0. /\ UNCHANGED <<model, gen, up, epoch, made, dataflag, pre, cur, collect, ltpower,
                     seen, want, doubt, clean>>
      /\ mpc = "life" /\ mpc' = "ltpower" /\ cleared' = TRUE
      /\ life' = [i \in Inverters |->
                   [c \in Channels |-> life[i][c] + current_energy(i, c)]]
  BY DEF AddEnergy, inverter, history
<1>1. life' \in Amounts
  <2>1. \A i \in Inverters, c \in Channels : life[i][c] + current_energy(i, c) \in Nat
    BY Numbers
  <2> QED BY <1>0, <2>1 DEF Amounts
<1>2. TypeOK'
  BY <1>0, <1>1 DEF TypeOK
<1>3. Blank' /\ Readable' /\ Unseen' /\ Filed' /\ ExactRound'
  BY <1>0 DEF Blank, YC600, Readable, Behind, Unseen, Filed, ExactRound
<1>4. ASSUME NEW i \in Inverters, NEW c \in Channels
      PROVE  /\ get_lifetime_power'[i][c] = 0
             /\ (life[i][c] + Pending(i, c))' = life[i][c] + Pending(i, c)
             /\ life'[i][c] \in Nat
  BY <1>0, <1>1, Numbers DEF get_lifetime_power, Zero, Pending, Amounts
<1>5. Stored'
  BY <1>4 DEF Stored
<1>6. Balance'
  <2> SUFFICES ASSUME NEW i \in Inverters, NEW c \in Channels
               PROVE  /\ Covered(i, c, life[i][c] + Pending(i, c), pre[i])'
                      /\ Covered(i, c, get_lifetime_power[i][c], collect[i])'
    BY DEF Balance
  <2>1. Covered(i, c, life[i][c] + Pending(i, c), pre[i])'
    BY <1>0, <1>4 DEF Balance, Covered, Unread, Usable
  <2>2. Covered(i, c, get_lifetime_power[i][c], collect[i])
    BY DEF Balance
  <2>3. Unread(i, c, collect[i]) \in Int
    BY Numbers, ReadingType DEF Unread
  <2>4. /\ Unread(i, c, collect[i])' = Unread(i, c, collect[i])
        /\ Usable(i, collect[i])' <=> Usable(i, collect[i])
    BY <1>0 DEF Unread, Usable
  <2> QED BY <1>0, <1>4, <2>1, <2>2, <2>3, <2>4, Numbers DEF Covered
<1> QED BY <1>2, <1>3, <1>5, <1>6

\* Writing LTPOWER keeps it: collect.con is there already.
LEMMA LifeIInv == ASSUME IInv, update_life_energy PROVE IInv'
<1> USE DEF IInv
<1>0. /\ UNCHANGED <<model, gen, up, epoch, made, pre, life, collect, seen, clean>>
      /\ mpc = "ltpower" /\ mpc' = "query" /\ ltpower' = life /\ cleared' = FALSE
      /\ dataflag' = [i \in Inverters |-> FALSE]
      /\ cur' = [i \in Inverters |-> [c \in Channels |->
                   IF i \in YC600 \/ c \in Wiped THEN 0 ELSE cur[i][c]]]
      /\ want' = [i \in Inverters |-> Zero]
      /\ doubt' = [i \in Inverters |-> {}]
  BY DEF update_life_energy, inverter
<1>1. TypeOK'
  <2>1. cur' \in Amounts
    BY <1>0, Numbers DEF Amounts
  <2>2. want' \in Amounts
    BY <1>0 DEF Amounts, Zero
  <2> QED BY <1>0, <2>1, <2>2 DEF TypeOK
<1>2. Blank'
  BY <1>0 DEF Blank, YC600, Zero
<1>3. Readable' /\ Unseen' /\ Filed' /\ ExactRound'
  BY <1>0 DEF Readable, Behind, Unseen, Filed, ExactRound
<1>4. ASSUME NEW i \in Inverters, NEW c \in Channels
      PROVE  /\ get_lifetime_power'[i][c] = life[i][c]
             /\ (life[i][c] + Pending(i, c))' = life[i][c]
             /\ life[i][c] + Pending(i, c) = life[i][c]
             /\ life[i][c] \in Nat
  BY <1>0, Numbers DEF get_lifetime_power, Pending, current_energy
<1>5. Stored'
  BY <1>0, <1>4 DEF Stored
<1>6. Balance'
  <2> SUFFICES ASSUME NEW i \in Inverters, NEW c \in Channels
               PROVE  /\ Covered(i, c, life[i][c] + Pending(i, c), pre[i])'
                      /\ Covered(i, c, get_lifetime_power[i][c], collect[i])'
    BY DEF Balance
  <2>1. Covered(i, c, life[i][c], pre[i])
    BY <1>4 DEF Balance
  <2>2. Covered(i, c, life[i][c] + Pending(i, c), pre[i])'
    BY <1>0, <1>4, <2>1 DEF Covered, Unread, Usable
  <2>3. Usable(i, collect[i]) =>
          Usable(i, pre[i]) /\ Unread(i, c, collect[i]) = Unread(i, c, pre[i])
    BY <1>0, FiledCounts DEF Filed
  <2>4. Covered(i, c, get_lifetime_power[i][c], collect[i])'
    BY <1>0, <1>4, <2>1, <2>3 DEF Covered, Unread, Usable
  <2> QED BY <2>2, <2>4
<1> QED BY <1>1, <1>2, <1>3, <1>5, <1>6

\* A reset keeps it, wherever the round was: the files balance on their own.
LEMMA RebootIInv == ASSUME IInv, reboot PROVE IInv'
<1> USE DEF IInv
<1>0. /\ UNCHANGED <<model, gen, up, epoch, made, collect, ltpower, cleared, seen, clean>>
      /\ mpc' = "query" /\ pre' = collect /\ life' = get_lifetime_power
      /\ dataflag' = [i \in Inverters |-> FALSE]
      /\ cur' = [i \in Inverters |-> Zero]
      /\ want' = [i \in Inverters |-> Zero]
      /\ doubt' = [i \in Inverters |-> {}]
  BY DEF reboot, inverter, files
<1>1. TypeOK'
  <2>1. cur' \in Amounts /\ want' \in Amounts
    BY <1>0 DEF Amounts, Zero
  <2>2. life' \in Amounts
    BY <1>0 DEF get_lifetime_power, Amounts, Zero, TypeOK
  <2> QED BY <1>0, <2>1, <2>2 DEF TypeOK
<1>2. Blank' /\ Readable' /\ Unseen' /\ Filed' /\ ExactRound'
  BY <1>0 DEF Blank, YC600, Readable, Behind, Unseen, Filed, ExactRound
<1>3. ASSUME NEW i \in Inverters, NEW c \in Channels
      PROVE  /\ get_lifetime_power'[i][c] = get_lifetime_power[i][c]
             /\ life'[i][c] = get_lifetime_power[i][c]
             /\ (life[i][c] + Pending(i, c))' = get_lifetime_power[i][c]
             /\ get_lifetime_power[i][c] \in Nat
  <2>1. get_lifetime_power' = get_lifetime_power
    BY <1>0 DEF get_lifetime_power
  <2>2. Pending(i, c)' = 0
    BY <1>0 DEF Pending, current_energy
  <2> QED BY <1>0, <2>1, <2>2, Numbers
<1>4. Stored'
  BY <1>3 DEF Stored
<1>5. Balance'
  <2> SUFFICES ASSUME NEW i \in Inverters, NEW c \in Channels
               PROVE  /\ Covered(i, c, life[i][c] + Pending(i, c), pre[i])'
                      /\ Covered(i, c, get_lifetime_power[i][c], collect[i])'
    BY DEF Balance
  <2>1. Covered(i, c, get_lifetime_power[i][c], collect[i])
    BY DEF Balance
  <2> QED BY <1>0, <1>3, <2>1 DEF Covered, Unread, Usable
<1> QED BY <1>1, <1>2, <1>4, <1>5

\* Every step keeps the invariant.
LEMMA NextIInv == IInv /\ [Next]_vars => IInv'
<1> SUFFICES ASSUME IInv, [Next]_vars PROVE IInv'
  OBVIOUS
<1>1. ASSUME NEW i \in Inverters, NEW S \in SUBSET Channels, Generate(i, S)
      PROVE  IInv'
  BY <1>1, GenerateIInv
<1>2. ASSUME NEW i \in Inverters, Restart(i) PROVE IInv'
  BY <1>2, RestartIInv
<1>3. ASSUME NEW i \in Inverters, zb_query_data(i) PROVE IInv'
  BY <1>3, QueryIInv
<1>4. ASSUME NEW i \in Inverters, OtherAnswer(i) PROVE IInv'
  BY <1>4, OtherIInv
<1>5. CASE UNCHANGED vars
  BY <1>5 DEF vars, inverter, memory, files, history, IInv, TypeOK, Blank, YC600, Readable,
     Behind, Unseen, Filed, Stored, get_lifetime_power, ExactRound, Balance, Covered,
     Unread, Usable, Pending, current_energy
<1> QED
  BY <1>1, <1>2, <1>3, <1>4, <1>5, GetalldataIInv, TmpdbIInv, AddIInv, LifeIInv,
     RebootIInv DEF Next

-----------------------------------------------------------------------------
(* The theorems.                                                           *)

\* The inductive invariant holds in every behaviour.
THEOREM Inductive == Spec => []IInv
<1>1. Init => IInv
  BY InitIInv
<1>2. IInv /\ [Next]_vars => IInv'
  BY NextIInv
<1> QED BY <1>1, <1>2, PTL DEF Spec

\* No energy that the round takes is ever negative, and every variable keeps
\* its type.
THEOREM TypeCorrect == Spec => []TypeOK
<1>1. IInv => TypeOK
  BY DEF IInv
<1> QED BY <1>1, Inductive, PTL

\* A reading without doubt takes exactly what was produced since the one
\* before (resolvedata_600, resolvedata_1000), for every width of the time.
THEOREM RoundsAreExact == Spec => []ExactRound
<1>1. IInv => ExactRound
  BY DEF IInv
<1> QED BY <1>1, Inductive, PTL

\* Wherever a reset cuts the round, the lifetime energy stays within what the
\* inverters made, while no reading was in doubt (update_tmpdb before
\* update_life_energy).
THEOREM NothingCountedTwice == Spec => []LifeAtMostMade
<1>1. ASSUME IInv PROVE LifeAtMostMade
  <2> SUFFICES ASSUME NEW i \in Inverters, NEW c \in Channels, clean[i]
               PROVE  life[i][c] <= made[i][c]
    BY DEF LifeAtMostMade
  <2>1. life[i][c] + Pending(i, c) <= made[i][c]
    BY <1>1 DEF IInv, Balance, Covered
  <2>2. life[i][c] \in Nat /\ Pending(i, c) \in Nat /\ made[i][c] \in Nat
    BY <1>1, Numbers DEF IInv
  <2> QED BY <2>1, <2>2
<1>2. IInv => LifeAtMostMade
  BY <1>1
<1> QED BY <1>2, Inductive, PTL

=============================================================================
