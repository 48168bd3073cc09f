# Verification of the ECU firmware (STM32F107, RT-Thread)

The firmware turns an STM32F107 board into an energy communication unit (ECU):
it polls solar micro-inverters over Zigbee, keeps what they report on a flash
file system, and forwards it to a server (the EMA) over Ethernet or, when that
fails, over a WiFi module. This directory holds TLA+ models of the parts that
are hard to test, the TLC runs that check them, and TLAPS proofs of the
properties that matter most.

## 1. Inventory

### 1.1 Threads

One RT-Thread application with a preemptive scheduler; a lower number is a
higher priority. The board resets itself at 02:00 every day, on commands, and
by the watchdog. Only the files survive a reset.

| Thread | Prio | Source | What it does |
|---|---|---|---|
| led, init | 9, 10 | `applications/threadlist.c` | start-up, watchdog |
| lanrst | 11 | `applications/threadlist.c` | PHY check, reset at 02:00 |
| idwrite | 17 | `ECU/IDWriter` | factory configuration |
| phone | 19 | `ECU/PhoneServer` | requests of the phone application, WiFi socket A |
| update | 20 | `ECU/Update` | firmware update by FTP |
| DRM | 23 | `ECU/DRMConnect` | demand response pin |
| main | 24 | `ECU/main` | polling rounds, records, commands to inverters |
| control_client | 26 | `ECU/control_client` | commands from and status reports to the EMA, WiFi socket C |
| client | 27 | `ECU/client` | upload of the collected data, WiFi socket B |

### 1.2 Components, state, operations

* **Data upload client** (`client.c`, `clientSocket.c`). State: the files
  `/home/record/data/YYYYMMDD.dat`, each line a record that ends in its time and
  a flag. Operations: find a record, send it, mark it, confirm what the server
  lists, unlink finished files; a check of unconfirmed records in the hours 1
  and 2. Correct when no record is lost and each is delivered in the end.
* **Status reports** (`control_client.c`). The same scheme for
  `/home/record/inversta`, with message A123. Correct under the same
  properties; but `save_status` does not take the lock.
* **Command exchange and handlers** (`control_client.c`, `mycommand.c`,
  `inverter_*.c`, ...). State: one file of pending lines per kind of setting, and
  the files of results with flags of their own. The EMA's commands become lines
  that the main thread reads. Correct when the latest command for an inverter is
  carried out, none disappears, and each result is reported once.
* **Main polling thread** (`main-thread.c`). A round polls every inverter, saves
  energies, record, status and events, and executes pending commands. Correct
  when rounds keep their distance and never stop.
* **Zigbee** (`zigbee.c`), **binding** (`bind_inverters.c`, `channel.c`). State:
  PAN and channel of the module, the array of inverters with their short addresses,
  the file `id`, `limiteid.con`, `channel.con`, `changech.con`. The module is moved
  to other channels and to PAN 0xFFFF and must come back, and must bring the
  inverters with it. Correct when every inverter on the list is polled in the end.
* **Parameters** (`setpower.c`, `set_ird.c`, `turn_on_off.c`, ...): the ten
  functions of `process_all`, each a loop over the pending lines of its file.
  **Remote update of inverters** (`remote_update.c`): blocks with retries.
* **Restarts** (`threadlist.c`, with the mutexes and timers of RT-Thread):
  `restartThread` kills and starts a thread wherever it is. Correct when mutual
  exclusion survives it and the thread that was asked for is the one restarted.
* **Resolution** (`resolve.c`): energy since the last round from counters of
  limited width; baselines kept in `collect.con` over a reset.
* **File store** (`file.c`), **time** (`datetime.c`).
* **WiFi driver** (`usart5.c`): three sockets behind one serial port, each with a
  buffer and an event flag.
* **Phone server, ID writer, firmware update, DRM**.
* Not built: NTP. Vendored: RT-Thread, lwIP, FatFs, finsh, CMSIS, ST library.

### 1.3 Interaction

The threads share the files (partly under the mutex `record_data_lock`), the
`ecu` structure and the inverter table, the WiFi module (`usr_wifi_lock`), and
the event flags of its sockets. main produces the records the two clients
deliver; the control client and the phone server leave commands in files for
main; several threads restart others (`restartThread`).

### 1.4 What is hard

A file function interrupted by a thread that does not take the lock; an answer
that comes after the time-out; a server that acknowledges what it then loses; a
reset between two writes; times of the day compared over midnight; file space
running out; loops that retry for ever. `PROJECT.json` lists each at its line.

## 2. Modules

| Module | Models | Proofs |
|---|---|---|
| `Outbox` | abstract specification of store-and-forward | |
| `Upload` | data upload client, with main's side of the record files | `Upload_proofs` |
| `StatusReport` | status reports of the control client, with main's side of the files | `StatusReport_proofs` |
| `DayTime` | the clock, `acquire_time`, `compareTime` | `Pacing_proofs` |
| `MainPacing` | the loop of `main_thread_entry` and the reset at 02:00 | `Pacing_proofs` |
| `ClientPacing` | the loop of `client_thread_entry` and `rt_thread_delay` | `Pacing_proofs` |
| `Energy` | `resolve.c`, `collect.con`, `LTPOWER` and the round that uses them | `Energy_proofs` |
| `ThreadRestart` | `restartThread`, `threadRestartTimer`, the kernel's mutexes and timers, who asks for restarts | `ThreadRestart_proofs` |
| `Settings` | the handlers that write settings into files, `process_all`, `delete_line` | `Settings_proofs` |
| `ProcessResults` | `save_process_result`, `response_process_result` and the files between them | `ProcessResults_proofs` |
| `ZigbeeNetwork` | start-up of the main thread, binding, change of channel, search, the file `id` and all who write it | `ZigbeeNetwork_proofs` |

`MC*` modules give the constants small values. A definition whose comment begins
with "Slip" is not part of a specification: it is a faulty variant of the
definition after it, used to see that a property notices the fault.

### 2.1 Upload

A record is its collection time; a file is the set of the records of a day plus
its position in the directory (`slot`), since `readdir` meets files in the order
of their entries, not of their dates. `flag[t]` is the character that ends the
line.

| Action | Code |
|---|---|
| `optimizeFileSystem`, `save_record`, `NoData` | main's round: free space, then the record if some inverter answered |
| `client_thread_entry(night)` | a pass begins; hours 1 and 2 preprocess first |
| `detection_resendflag2`, `Search` | first record with a flag, under the lock |
| `Send`, `SendFails`, `Receive`, `Timeout` | `serverCommunication_Client`: wired, else socket B |
| `update_send_flag`, `clear_send_flag`, `Answered` | `send_record` applying the answer |
| `DeleteBegins`, `delete_file_resendflag0`, `DeleteEnds` | unlink finished files one by one |
| `reboot` | everything but the files is lost |
| `EmaReceive`, `EmaStores`, `Stabilise` | external: the server and the network |

A section under `record_data_lock` is one step, because the other users of these
files take the lock too; the unlinking is one step per file since a reset can
come in between. Nothing is assumed of the server except that the times it lists
are those of records it has stored: it may acknowledge without storing, store
late, answer late or not at all. An answer on WiFi stays in the buffer of socket
B until somebody takes it, whatever request it belonged to.

`Outbox` says what this path promises without files and flags: a record leaves
the device only when the server holds it, or with its whole day when the oldest
day is dropped. `ImplementsOutbox` maps the queue to the records on file.

### 2.2 StatusReport

Like `Upload`, with three differences of the code. `save_status` takes no lock
and main preempts the control client, so each file function of the control
client is two steps: read (`Open`, `ScanFile`), then write or unlink (`Close`,
`UnlinkFile`). FatFs is built without file sharing control, so a file opened
"r+" is written back with the size it had when opened: what was appended since
is cut off (`Rewrite`). And on WiFi a time-out after an earlier answer uses the
data of that answer again (`ok`, i.e. `flag_failed`). `raced` and `gone` are
history variables: which records were written into a file being worked on, and
how a record left its file. `ecu_flag` is taken to be 1 (reporting enabled); of
the commands an answer may carry only A118, which ends the loop, is kept.

### 2.3 MainPacing, ClientPacing

The clock (`now`, in `DayTime`) is a number of seconds; the code sees its remainder
by a day. A round, an exchange and the time between two looks at the clock take any length of a
given set. `MainPacing` resets the board in the minute 02:00 (`ResetAt` is its end). In `ClientPacing`
the names the main thread has as well carry the thread's (`client_thistime`, `passbegan`),
and the argument of `rt_thread_delay` is kept as the C int; `Accepted` says whether
the kernel's assertion accepts the unsigned number it becomes. Setting the clock
is not modelled.

### 2.4 Energy

An inverter counts, on each channel, the energy since its start, and the seconds
in 16 bits; it may be started again at any time. `zb_query_data` takes the
difference to the reading before or, when that is ahead, the whole counter
(`resolvedata_600`, and `resolvedata_1000` with strict comparisons and a test for
jumps). The round then truncates (`getalldata`) and writes (`update_tmpdb`)
`collect.con`, adds the energy and truncates `LTPOWER` (`AddEnergy`), and writes it
(`update_life_energy`). `reboot` may come before each of these steps and starts from the files.
The sums over inverters and channels are kept apart, so that an error in one is
not hidden by another. Counts stand for energies; `Grain` counts make one unit of
the last of the six decimals of `collect.con`, to which baselines are rounded.

`made`, `want`, `seen`, `doubt` and `clean` are history variables. `Doubts` names
the five situations in which the energy of a round can be wrong: baseline
forgotten, baseline rounded, seconds wrapped, a channel of a YC1000 idle (these
may count too much), and an inverter that was started again and shows more than
before (counts too little). `ExactRound` and `LifeAtMostMade` say that there is
no sixth. An `open` that fails, and the rounding of the float sum, are left out.

### 2.5 ThreadRestart

A thread is what its run does to the mutexes: `Wants` lets it take any mutex of
its code that may be nested in those it holds, `Release` gives back the innermost
ones. `owner`, `hold` and `queue` are what the mutex knows, `depth` what the present
run of a thread has taken; `restartThread` sets the second to 0 and takes the
thread off every list, and leaves the first alone, as `rt_thread_detach` does. A
mutex whose `hold` is more than the `depth` of its owner is `Leaked`.

| Action | Code |
|---|---|
| `TakeNow`, `TakeWait`, `Release` | `rt_mutex_take`, `rt_mutex_release` with nesting and hand-over |
| `RestartNow` | ID writer (holding `record_data_lock`) and phone server |
| `AskRestart`, `set_inverter_id`, `set_comm_config` | `threadRestartTimer`, `reboot_timer` |
| `Tick`, `threadRestartTimeout`, `reboottimeout` | `rt_timer_check` over the sorted list, in the tick interrupt |
| `RestartInterrupted` | the interrupted thread is the one restarted: its stack is wiped under the interrupt |
| `NightlyReset` | the lan8720 thread |

Priorities are left out, so every interleaving the scheduler could produce is
allowed, and more. `TYPE_NTP` is a type without a thread.

### 2.6 Settings

A line is a kind and an inverter (or `ALL`); `file[l]` is its pending value.
`Overwrite` and `Insert` are the two ways in which handlers write, `Command` names
the kinds of each. The functions of `process_all` run in the order of `Stages`:
`Take` the lock, then `Pick`, `Skip` or `Spin` on any pending line, `Send` up to
`Attempts` times, `Clear`, and `Leave` when no line is pending. A section under the
lock is several steps here, because a reset may come between any two; the lock
appears as `Free`, which the handlers wait for. `Pick` clears the line first except
for the kinds in `SendFirst`. `Erased` is what reading back the values does to lines
that are pending. `StuckLine` names the lines which the loop reads again and again:
`Spin` changes nothing and keeps the lock.

`fate` and `served` are history variables: how the latest command for a line ended,
and how often it was taken up.
A line may end as `torn` (a reset between `remove` and `rename` in `delete_line`) or as
`erased` (reading back the values wrote over it). Both are real faults of the code; the
properties excuse them by name and say that there is no further way to lose a setting.
They do not catch these two.

### 2.7 ProcessResults

A result has a directory (ECU or inverter), a day, an item and a length. The client
looks for a result to send, sends it, then looks for it again by its item
(`Matching`) to mark it: another with the same item may be found. As in
`StatusReport` the writers take no lock, so that `OpenMatch` and `WriteFlag`,
`ScanFile` and `UnlinkFile` are separate, and what is appended in between is cut off
or unlinked. `data` is the buffer, whose old text is still there when a send fails
(`NextResult` clears it, `NotSent` does not). `DeleteEnds` goes on to the
directory of inverters. `shadowed`, `raced`, `evicted`, `cutshort` and `failed`
are history variables, the named exceptions of the properties.

### 2.8 ZigbeeNetwork

The radio is assumed, not modelled from code (map entries marked external): an
inverter hears the module on its channel if the PANs agree or the module's is
0xFFFF (`Hears`), and a message reaches any part of those it should reach, which
costs a fault (`Reached`). The several tries of one message are one.

| Action | Code |
|---|---|
| `init_ecu`, `init_inverter` | start of `main_thread_entry`, `get_id_from_file` |
| `ScanChannel` ... `UnlinkChange` | `process_channel`, message by message; `saveECUChannel` empties channel.con (`EmptyChannel`) before it fills it, so that a reset may leave it empty and the ECU on channel 0 till the order to change, which still stands, is carried out again |
| `BindHome` ... `BindDone` | `bind_inverters`: verify, make known to the PAN, orders 11 and 22 for the new kind, one by one for the old |
| `getalldata`, `AfterRound` | a round, the count of missing answers, the test for ten o'clock |
| `SearchFFFF` ... `SearchFind`, `bind_nodata_inverter` | the daily search |
| `Save` | `updateID`, which a restart or a reset may cut short (`CutShort`) |
| `add_id`, `Append`, `OrderToBind` | A103 in the control client's thread adds inverters: `open` for appending, the lines and `close`, `limiteid.con` |
| `delete_id`, `RemoveID`, `RenameID` | A103 deletes inverters, each one by `delete_line`: `fopen`, copy without the line and `remove`, `rename` |
| `clear_id` | A103 deletes all: `unlink` |
| `ClearArray`, `ReadArray`, `RestartMain` | the rest of A103: `init_inverter_A103` and the timer of 20 s |
| `Phone_RegisterID`, `Phone_SetChannel`, `restartThread` | phone server, and the ID writer's list |
| `RegisterCut` | a reset while the phone's list or its order to bind is written |
| `reboot`, `NightlyReset`, `TenOClock` | resets, the clock |

`At` and `todo` make the loops over the array: they go by its order, and end early
when A103 empties the array. `wanted`, `spoilt`, `missed`, `orphaned` and `strayed`
are history variables. Each of the exceptions they stand for is needed: without
`missed`, `orphaned`, `spoilt` or `strayed` TLC finds the property violated.

**The file `id`.** `fids`, `fshort` and `fbound` are its lines, and `file` says whether it
exists and whether another has written it while A103 had it open. `a103` is the place of
the command A103, `named` has the inverters it has yet to add or to delete; `cids`,
`cshort` and `cbound` are the file as it was when A103 opened it, later the copy `idtmp`.
The main thread, the phone server and a reset can come between any two of its steps:

* A reset after `RemoveID` leaves no file, one between two inverters only some deleted.
* A list of the phone while A103 has the file open makes the file `mixed`: what A103 then
  reads or appends to is any mix of old and new lines (`Found`), and `remove` takes the
  phone's file away.
* A list of the phone between `RemoveID` and `RenameID` stays: `f_rename` of FatFs refuses
  a name that exists (ff.c:3431). If there are more inverters to delete, they are then
  deleted from the new list.
* `updateID` of the main thread before `ReadArray` writes the array of before the command.

These are real faults of the code; `spoilt` records them, and `ListAsOrdered` says that there
are no others: no reset or restart at another place, no lost message, no order of
commands. `WorksOnFile` has none of these exceptions: whatever happened to
the file, the main thread works on what is in it, but while A103 is changing it
(`Changing`).

`missed` has the inverters that a message to move did not reach. `orphaned` has those
left out: not in the list while the others moved, on a channel that an order replaced
by the next one no longer leads away from, without an order to bind because
`limiteid.con` was cleared just after A103 had set it (`BindDone`), or met in another
PAN by a module that is itself astray and then takes them for bound (`Verify`,
`getalldata`), or come back by older lines while two wrote the file (`Returned`), or
registered by a list whose order to bind a reset took (`RegisterCut`, `Due`).

### 2.9 Composition

The modules share files and threads, not variables; what one assumes of another is
an action of it. `Upload`, `StatusReport` and `ProcessResults` each contain the
main thread's writing and `optimizeFileSystem`; `Settings` contains the handlers'
side of `record_data_lock`, for whose exclusion under restarts `ThreadRestart`
stands. `MainPacing` and `ClientPacing` use `DayTime`. `Upload` implements
`Outbox`. `ZigbeeNetwork` composes main, control client, phone server and ID
writer over the list of inverters.

## 3. Runs

| Run | Bounds | Result |
|---|---|---|
| `upload_safety` | 3 records, 2 days | holds: `ConfirmedIsStored`, `NothingLost`, `FlagOrder`, `ImplementsOutbox` |
| `upload_live` | 2 records, 2 days | holds: `Drained` |
| `status` | 2 records of one day | holds: `ConfirmedIsStored`, `LostOnlyInRace`, `Reported` |
| `main_pace` | 8000 s from 01:30 and from 23:00 | holds: `RoundsApart`, `WaitEndsByDay` |
| `main_stall` | the same | **violated**: `WaitEnds` |
| `client_pace` | 1500 s from 00:56:40 and from 23:53:20 | holds: `DelayByDay`, `PassesApart` |
| `energy_safety` | 1 inverter of either family, 2 channels, 3 s after a start, 1 restart, 2 counts | holds: `ExactRound`, `LifeAtMostMade` |
| `restart_locks` | 4 threads, 2 mutexes, takes nested 2 deep, hold count 3, 2 timers | holds: `Exclusive`, `NoDeadlock`, `LeakStays` |
| `restart_asked` | the same | **violated**: `RestartsWhatWasAsked` |
| `settings` | 1 inverter, 10 kinds, 2 values, 2 commands, 1 reset | holds: `NoneForgotten`, `LatestSent`, `OnceOrNotLost`, `WorkedOff` |
| `results` | 3 results, 2 days, 2 with one item | holds: `UnsentOnlyInRace`, `ResentOnlyInMixup`, `TailOnlyOfFailed`, `WorkedOff` |
| `network` | 2 inverters (old kind, new kind), 3 channels, 2 faults | holds: `ModuleHome`, `StrandedOnlyIfMissed`, `ListAsOrdered`, `WorksOnFile`, `Served` |

**Why the bounds are enough.** With three records of two days a file has several
records, another file exists before or after it in the directory, a record is
sent while another waits in a late answer, and the oldest day is evicted while
the other is worked on; the proofs cover all other sizes. In `status` two records share
a file, which is what the races need; other days are left to the proofs. `upload_safety` stops at
`Stabilise` (`CONSTRAINT Unstable`): what follows it are fewer behaviours of the
network and the server on the same states. The lengths of `MCRounds` fall into
each branch of the interval; looks of 20 s meet every boundary and looks of 50 s
miss some. The code looks every 0.1 s plus the time it is preempted, so these are
coarse, and the proof of `RoundsApart` is for any length. `Horizon` goes over
02:00 from one start and over midnight from the other. In `Energy` the inverters
meet only in the steps of the round, so one at a time is enough; within 3 s the
seconds (`TimeWidth = 3`) wrap, odd counts are rounded up (`Grain = 2`), and
readings jump. `Few` bounds the lifetime energy; no guard looks at it.

In `ThreadRestart` two mutexes nest, a thread can be restarted while it holds one
and waits for the other, and a leaked mutex can be taken again by the new run; the
proofs are for any number of threads and mutexes. In `Settings` one inverter has a line of every kind,
so that a single setting meets the read-back of its kind and the second command of
another kind; the proofs of the
safety properties cover more of everything. In `ProcessResults` the two
results that share an item are in different files, and a third shares a file with
one of them; the longest text comes first. All are results of the ECU; those of single
inverters go the same way with their own directory. In `ZigbeeNetwork` one inverter was bound before and one is fresh, one of
each kind; three channels are the default one, the present one and another;
`NoDataLimit` and `PollLimit` stand for 5 and 3 in the code, `NoDataMax` for 254.
Two faults are, for example, a message lost and a reset during the binding that
follows, or two orders that meet, or an order and the reset that interrupts it (629,266 states).
The users choose between the present and the other channel (`Chosen`); the default one
is where the search looks.

**Fairness.** The scheduler runs a thread that can run, hence weak fairness of
the client's steps. The clock passes hour 1 every day and the thread begins a
pass every few minutes, hence strong fairness of the nightly pass. Requests
arrive (`EmaReceive`), and the network and the server do not fail for ever
(`Stabilise`); after `Stabilise` there are no resets either, though the real board
resets every night: the nights between two resets are taken to be long enough.
Without that assumption nothing would ever have to arrive.

The main thread of `Settings` goes on (weak fairness) unless it is in an endless loop,
which the property names. The loop of the control client comes to the results again
and again (`Begin`), and the network does not fail for ever. In `ZigbeeNetwork`
faults are finitely many; both threads run on (weak fairness), it strikes ten and
02:00 every day (strong fairness of `TenOClock`, because the main thread looks at
the hour only between rounds).

**What the violations show.**

* `main_stall`: a round that begins before midnight and ends 300 s or more after it
  is followed by none until the reset at 02:00.
* `restart_asked`: a second request for a restart within the time-out of the first
  changes what the first will restart. Its thread then runs on with what it had
  read before the change of configuration.

More disagreements with comments or intentions are in the models without a run of
their own, as an action or as an exception in a property:

* The time-out on WiFi socket B does not cancel the request, and the event is not
  cleared before the next is sent: a late answer marks the next record '2' although
  it may be lost. The nightly pass sends it again (`NothingLost`, `Drained`). The
  answer on socket C is taken late, or twice, in the same way.
* A status record appended between the reading and the unlinking of its file is
  gone; with the stale size on closing this race is the only loss (`LostOnlyInRace`).
* `change_statusflag1` gives back the '1' to one record per call; `Reported` holds,
  since the others follow in later passes.
* The client's delay for a pass over midnight has a sign and a parenthesis misplaced;
  the kernel's assertion refuses the number (`Accepted`, `Halt`).
* A YC1000 with a channel that has not moved since the last reading counts its whole
  counter (the doubt "idle"). An inverter that was silent in the last round before a
  reset has no line in `collect.con` and is counted from 0 after it (the doubt
  "forgotten"). A reset between truncating and writing `LTPOWER` sets the lifetime
  energy to 0 (`cleared`).
* Reading back limits or grid environments of all inverters clears a setting that is
  pending (`Erased`), although the comment at `set_ird.c:447` says that nothing is set.
  A limit of 0, or for an inverter that is not in the list, keeps `process_max_power`
  in its loop for ever (`StuckLine`).
* A result can be marked in place of another with the same command number, and is
  then never sent (`shadowed`).
* A killed thread leaks the mutex it holds, until the next reset (`LeakStays`).
* An inverter that misses the one message of a change of channel is looked for on
  channel 16 only, and is out of reach until a user scans for it (`Stranded`).

`Reported` has the exception `<>[](link = "broken")`: on a wired connection that
was reset the loop sends to the dead socket for ever.

## 4. Proofs

All theorems hold for every value of the constants under the `ASSUME`s of the
modules: times and days are natural numbers, the directory has an entry for
every day, rounds, looks and exchanges are numbers of seconds, the widths and
grains of the counters are positive. Each safety theorem rests on an inductive
invariant, `Inv` or `IInv`.

**Upload_proofs.** `NothingLost` is not inductive: unlinking a file needs
`ConfirmedIsStored`, which needs that every answer, wherever it waits (wire,
socket B, half applied in `todo`), lists only stored records (`AnswersAreTrue`).
`OnlySaved` keeps records nobody wrote from appearing; `OnFileHasSlot` ties the
flags to the directory, for the choice of the oldest day. `SendingIsOpen` says
that the record being sent is not confirmed at the same time, which is what
`FlagOrder` needs when the acknowledgement is applied. Proved: `Invariance`,
`TypeCorrect`, `NeverLost`, `ConfirmedStored`, `FlagsMoveForward`, and
`Refinement`: the initial states map to `Outbox`'s, and every step is one of its
steps or none.

**StatusReport_proofs.** As above, plus what is true while a file is open:
whatever the file has gained was appended in a race, and in a file about to be
unlinked the records read are all confirmed (`OpenFile`, `OpenPlaces`), and the
record marked is one that was sent (`CurIsRecord`). `AnswersAreTrue` speaks of the
buffer of socket C also after use. Proved: `Invariance`, `TypeCorrect`,
`ConfirmedStored`, `OnlyTheRaceLoses`.

**Pacing_proofs.** `NeverEarly`: `compareTime` never says too early that an
interval has gone by, whatever midnights lie in between. For the main thread the
invariant has that `thistime` is the time of the day of the last beginning of a round
(`ThisIsBegan`), that at the test `durabletime` is the present one and the interval
the one chosen for the two (`DurableIsNow`, `IntervalOfLook`), that a round begins when
it is tested for (`RoundIsNow`), and that no round is older than the next 02:01
(`NoResetSince`), so that the clock passes at most one midnight since
(`UntilReset`). `RoundsAreApart` follows with `NeverEarly`. `WaitsEnd` needs in
addition what holds before the last look (`DelayInTime`), and that a look which finds
the interval still running comes in time (`StillWaiting`). For the client: both
times are those of instants of the pass (`LastIsBegan`, `ThisIsInPass`), the ticks are
those of the expression (`SleepsAsComputed`), and an ended pass is old enough
(`StartIsApart`). Proved: `PassesAreApart`, and `DelayIsByDay` on the branch that does
not go over midnight.

**Energy_proofs.** `LifeAtMostMade` needs a balance for both places from which the
accounts can go on: for the memory, lifetime energy plus the energy of the round
not yet added plus what the next reading would add is at most what was made; for
the files, the same of `LTPOWER` and `collect.con` (`Balance`), since a reset turns
the second into the first. It needs that `collect.con` holds this round's readings
before `LTPOWER` is touched (`Filed`), that `LTPOWER` is not ahead of the memory
(`Stored`), that baselines are behind the counters while an inverter runs on
(`Readable`), and that an inverter never read has no baseline (`Unseen`). The
lemmas `ReadingExact` and `ReadingCovered` are about one reading, for every width
of the time and of the decimals. Proved: `Inductive`, `TypeCorrect`,
`RoundsAreExact`, `NothingCountedTwice`.

**ThreadRestart_proofs.** `Exclusive` is not inductive. Between the mutex and the
runs of its users the invariant has: who is inside owns the mutex, what a run has
taken the mutex counts, a mutex without an owner counts nothing, whoever stands on
the list of a mutex waits for it and stands there once, and a thread waits only for
what may be taken under all it holds. A restart keeps this since it only lowers what
the run has taken. `NoDeadlock` follows from it: in a circle of threads, none of which
waits for a leaked mutex, every owner is inside, so each mutex waited for is nested
in the one before, which `NestAssumption` excludes. Proved: `Typing`,
`MutualExclusion`, `DeadlockFreedom`, `LeaksLast`.

**Settings_proofs.** `NoneForgotten` needs that the main thread's value is the one of
the latest command while it is in hand, which needs that no handler runs meanwhile
(the lock, as `Free`); `OnceOrNotLost` needs that a line in hand of the kinds in
`SendFirst` is still pending in its file. Proved: `Typing`, `NothingForgotten`,
`SendsLatest`, `AtMostOrAtLeastOnce`.

**ProcessResults_proofs.** What is on a file, on its way or sent was saved
(`SavedFirst`), and its file has a directory entry (`OnFile`). As in `StatusReport`, what
an open file has gained was appended in a race, and a file about to be unlinked had
nothing left to send (`OpenFile`). Sending and marking are two searches, so the proof
needs that they meet the same result: until its mark is looked for, the result on its
way comes before every other with its item, but for those saved meanwhile, which
`shadowed` has (`FirstMatch`, in the order of the directory, `Before`). Hence what is
marked was sent (`MarkIsSent`), and what was sent and still has its flag is excused
(`Again`). `Buffer` says that between two results the buffer has failed text only.
Proved: `Invariance`, `TypeCorrect`, `UnsentIsRaced`, `ResentIsMixedUp`,
`TailIsOfFailed`.

**ZigbeeNetwork_proofs.** The invariant has two layers. `Base` says that the file has what
the users ordered or is about to (`Contents`: step by step of A103, what is in the file, in
the copy and yet to be added or deleted make the list wanted, unless it is spoilt), that the
array has what the file has unless A103 is changing it (`Filed`, with `WorksOnFile` and that
a removed file is empty), that after the commands that bring it home the module is there or
`strayed` (`AtHome`), and that an order to change the channel comes with one to bind, that
both stand until they are carried out, and that channel.con is empty only while the order
stands (`OrdersStand`). It gives `TypeCorrect`, `HomeAtRounds`, `WorksOnWhatIsFiled` and
`OrderedStaysListed`.
`Deep` follows every single inverter that missed nothing and was not left out: it is on the
channel of the search, at home, where the change of channel takes it, or in PAN 0xFFFF on
the ECU's channel (`Whereabouts`); how far the change of channel is with it (`Told`: the
scan goes upwards, so it is not below the present channel); that in PAN 0xFFFF it is not on
the file as bound, and the order to bind stands (`Remembered`); and how far each loop
of the binding is with it (`Fetched`). `OnMission` says where the module is meanwhile,
and `BoundOnFile` that a reset forgets bindings and never invents one. `Deep` holds whatever
a restart of the main thread, A103, the phone server or a reset do at any place
(`Invariance`), and no inverter it keeps is stranded at a round (`StrandedMissed`).

This attempt changed the model. `StrandedOnlyIfMissed` turned out to hold only within the
two faults of the run: with more, a module that is itself astray takes an inverter of another
PAN for bound, and an order to bind given while the binding ends is cleared unseen. TLC
finds a counterexample to the former statement with one inverter and five faults. The code
does this; `orphaned` now records it. The step case of
`NightlyReset` showed that the short day could never happen; it can now.

**Only model-checked.** Liveness (`Drained`, `Reported`, the two `WorkedOff`, `Served`),
which needs fairness and `ENABLED`. Every invariant and every action property of the passing
runs is stated by a theorem. The history variables by which `ProcessResults`,
`StatusReport` and `ZigbeeNetwork` name their exceptions are part of the statements:
that an exception is narrow is what the mutants and the definitions show.

## 5. Not modelled

Texts, layouts and parsing of messages; the AT protocol of the WiFi module;
drivers; vendored code, except where a model uses it (FatFs' size on closing, the
kernel's mutexes, timers and threads, `reboot`). Setting the clock. A power failure
within one write of FatFs. A record that cannot be written because `malloc` or
`open` fails.

Of the modelled parts: a file that a killed main thread leaves open; that a file with a single
value (limiteid.con and the like) is empty for a moment while it is written, but for
channel.con; the order of the three files a change of channel writes and removes; a line
of the file `id` of which only a part is old (`Found` mixes whole lines); the ID writer
restarted in the middle of `insertinverter`; `zigbee_reset`; the ID
writer's `clearrecord`; priorities; results lost after `send` has returned. The
behaviour of the radio and of the inverters' firmware is an assumption.

Of the components: the exchange of commands with the EMA (a dispatch table over
parsed text), the remote update of inverters, the firmware update, FTP, DRM, debug
output and board drivers. NTP is not built.

## 6. Plan

Done so far: upload, status reports, pacing, energies, restarts, settings, process
results, Zigbee network. Next, in this order:

1. **CommandExchange**: `communication_with_EMA`, A118 and the control client's pacing
   on top of `DayTime`.
2. **InverterUpdate** (blocks, resumption) and **EcuUpdate** (erase, copy, reset).
3. Daily and monthly energy files; the calendar functions of `datetime.c` against a
   reference definition.
4. Proofs: safety behind the liveness properties, for example that in `Settings` and
   `ProcessResults` every pass makes progress (a bound that each step lowers), and that in
   `StatusReport` every step but those in a race is a step of `Outbox`.
