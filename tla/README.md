# Verification of the WSN data-ferry node

The repository is the firmware of a sensor node (ESP32, ESP-IDF). Nodes find each other over BLE,
elect a cluster head, and in alternating phases talk BLE (STELLAR) and ESP-NOW (DATA). A member
samples its sensors, keeps the records in a file on SPIFFS, and sends them to its head in the time
slot the head gave it. The head stores what it receives until a UAV flies by, then hands the store
over through Wi-Fi and clears it.

This directory models that program in TLA+, from its source (paths below are under `src/ms_node`).
TLC checks the models on small instances, and TLAPS proves the safety invariants that the runs check
for every value of the constants; excepted are two properties of the cluster that count ticks, for
which it proves the single steps instead, and liveness. `PROJECT.json` says which definition stands
for which lines, which hazards the code has and which properties watch them.

## 1. The system

Five tasks run on every node: `app_main` (the sampling loop), the state machine task
(`state_machine_run`, every 100 ms), the metrics task (every second), the Wi-Fi task, on which the
ESP-NOW callbacks run, and the NimBLE host task with the GAP events. Between nodes there are
advertisements, schedules, chunks and the head's BUSY and RESUME statuses; the UAV is heard by radio
and talks HTTP.

| Component | State | Operations | Talks to | Modules |
|---|---|---|---|---|
| Record store, `components/storage_manager` | `data.lz`, `temp.mslg`, `s_mslg_mutex`, `s_mslg_chunk_count` | write with purge and retry, pop of a batch, chunk count, upload read, clear | called by three tasks | `MslgStore`, `RecordLog` |
| Sampling loop, `main/ms_node.c` | the last readings and their times, `s_packet_seq_num`, `s_seq_reset_done` | measure, read what is due, number and store a record, rest, deep sleep | store, role, power mode | `NodeLife`, `Delivery` |
| Power mode, `components/pme`, `components/battery` | `s_batt_pct` | voltage to percentage, mode | sampling loop | `NodeLife` |
| Drain and requeue, `main/state_machine.c:985-1139` | the popped batch | pop, send with retries, cut off, put back | store, send path | `Delivery` |
| Duplicate filter, `main/esp_now_manager.c:20-105` | `s_dedup_table`, its mutex | `dedup_should_store` | receive path | `DedupTable`, `Dedup` |
| Receive path, `process_packet` | `g_current_schedule` | schedules, statuses, chunks | filter, store, phase | `Delivery`, `Superframe` |
| Send path, `main/esp_now_manager.c:578-856` | `s_send_sem`, `s_send_done`, `s_last_send_status` | send, fast send, status broadcast, callback, deinit and reinit | driver | `SendPath` |
| Superframe, `main/state_machine.c` | `s_phase_start_ms`, `s_current_phase`, schedule counters | phase update, schedule rounds, synchronisation, drain windows | send path, BLE | `Superframe` |
| Roles, `main/state_machine.c` | `g_current_state`, `g_is_ch`, windows, miss counter | DISCOVER, CANDIDATE, CH, MEMBER, UAV_ONBOARDING | everything | `Cluster`, `Onboarding` |
| Neighbor table, `main/neighbor_manager.c` | table, mutex | update, clean up, look-ups, ages | host task, election, metrics | `NeighborTable`, `TableLocks` |
| Election, `main/election.c` | window | Pareto frontier, Nash product, score, winner, re-election test | neighbor table, metrics | `StellarRules`, `Election`, `Reelection` |
| Metrics, `main/metrics.c` | averages, weights, recursive mutex, NVS | update, utilities, adaptive weights, trust, uptime | neighbor table, NVS | `AdaptiveWeights`, `Trust`, `TableLocks`, `NodeLife` |
| BLE manager, `main/ble_manager.c` | `ble_ready`, advertising and scanning flags, the packet, the pre-guard | start, stop, update, GAP events, sync and reset | state machine, host task | `Ble` |
| UAV client, `components/uav_client` | Wi-Fi session, event bits, retries, upload buffer | join, session, upload, acknowledge, clean up | store | `Onboarding` |
| RF trigger, `components/rf_receiver` | RMT channel, queue, buffer | decode, check, disable, drain, enable | roles | `RcSwitch`, `Onboarding` |
| Authentication, compression, sensors, LED, GATT, log tools | | | | section 6 |

What is hard here, and what would be correct:

- **Store.** File-system calls of one task fall between those of another; the upload reads without
  the lock; `clear` goes on without it. Calls fail half way and the node resets. Correct means:
  records leave in the order they came, none twice but for a file that cannot be deleted, none torn in
  an upload, and nothing vanishes but in a purge, an upload, a failing call or a reset.
- **Delivery.** The batch leaves the flash before it is sent; an acknowledgement may be lost although
  the frame arrived; the head forgets what it has seen; a full store purges itself. Correct means: losses on the air lose
  no record and only a small class of duplicates gets through.
- **Send path.** A callback may come after its sender gave up, and restarts delete the semaphores
  under way. Correct means: the semaphore comes back, and no callback answers for another frame.
- **Superframe.** No node knows another's clock; schedules come late, twice, not at all, or while the
  member's loop writes its own phase start; a chunk may outlast the slot. Correct means: a member is in
  DATA when its head is, sends only there, and gets slot after slot.
- **Roles, neighbors, election.** Every node decides by a stale view of its own; beacons, schedules
  and look-ups are missed. Correct means: who is elected could be, a cluster has one head in the end,
  and two heads do not last.
- **Locks.** Metrics and table are locked in opposite orders by two tasks; time limits undo that, and
  a limit that runs out reads as an empty table. Correct means: limits run out nowhere else, and all
  tasks go on.
- **Onboarding.** The radio changes hands twice, Wi-Fi events and RF frames come late, any call
  fails. Correct means: the head comes back as a head, with its receiver armed, off the access point,
  and has cleared no more than it may.
- **BLE manager.** Flags and GAP events of another task disagree for a while. Correct means: the air
  is free for ESP-NOW, and beacon and scan come back.
- **A node's life.** Failing measurements, changing modes, sensors that are silent, resets. Correct
  means: a node sleeps only when its battery is empty, reads on time, stores made-up values for silent
  sensors only, keeps what it saved.

## 2. Modules

| Module | Models |
|---|---|
| `MslgStore` | `storage_manager.c`, one step per file-system call |
| `RecordLog` | what the store promises: a log that grows, gives up a prefix, is wiped, and what failures may do to it |
| `DedupTable`, `Dedup` | `dedup_should_store` as operators; the table under any frames, with the ESP-NOW restart |
| `Delivery` | sampling, drain and head composed; EXTENDS `DedupTable`, takes the store as a log |
| `SendPath` | the semaphores, the send and the send callback |
| `Superframe` | phases, schedules and slots of a head and its members |
| `Config`, `StellarRules`, `AdaptiveWeights` | thresholds; utilities, Pareto frontier, Nash product, score; the weights |
| `Election` | one round: who hears whom, and whom each elects |
| `Reelection`, `NeighborTable` | which head yields; the table's operators |
| `Cluster` | the state machines of several nodes on these rules |
| `TableLocks` | the two mutexes and the four tasks that take them |
| `RcSwitch`, `Onboarding` | the decoder; the onboarding with receiver, Wi-Fi, server and store |
| `Ble` | advertising and scanning between state machine task and host task |
| `Trust`, `NodeLife` | the averages behind trust; boot, battery, sensors, rest, sleep and NVS |
| `MslgStoreProofs`, `DeliveryProofs`, `SuperframeProofs`, `SendPathProofs`, `ElectionProofs`, `OnboardingProofs`, `TableLocksProofs`, `NodeLifeProofs` | the theorems of section 4; `DeliveryProofs` has those of `Dedup`, too, `SendPathProofs` those of `Ble`, and `ElectionProofs` those of `Cluster` |
| `MC...` | the instances TLC runs |

**MslgStore.** The file is a sequence of units, four to a record (two halves of the header, two of
the payload), so that a torn write is what the code leaves on flash, and a reader that is out of step
reads what `fread` would read. `holder` is the mutex, `count` the cached chunk count, `pc[t]` the
place of a task inside a call. `WriteLock .. WriteCount` are `storage_manager_write_compressed` and
`write_mslg_chunk` with the purge at 90 % and the one retry. A record is written unit by unit
(`WriteUnit`, up to `pen`), so a reset in between leaves a torn one although no call has failed
(`torn` remembers that). `PopLock .. PopCount` are the batch pop, with the copy to `temp.mslg`, the unlink and
the rename as steps of their own; `Scan...` the count's first scan; `ReadOpen .. PostFails` the
upload's lockless reading; `Clear...` the clear, which proceeds when it did not get the lock and gives
the lock back all the same. Any file-system call may fail, also those whose results the code does not look at: a
read that fails in the copy's loop looks like the end of the file, and so does a failing flush at its
end (`PopCopyFallsShort`; `cut` is true while such a copy waits to replace the file); an unlink that
fails leaves the file, the rename onto it fails too, and the records handed out are still there
(`kept`). `Crash` is a reset. A call that gives up on the lock after 5 s changes nothing and is no step.

**RecordLog.** `MslgStore!RL` maps `log` to `file` (to `temp` between unlink and rename) and `taken`
to the popped batch, and the partition's use, the answer of the server and the failures to their counterparts;
every step of the store is a step of the log. `Grow` adds a unit of the newest record and `Take` hands
out a prefix. `Wipe` needs a full partition, an accepted upload or a call that fails in this very
step; `TakeAndLose` (the tail is cut short) a call that has failed in this pop; `TakeAndKeep` (what is handed
out stays) a failing call; and `Reset` a reset. So a loss or a repetition in any other step of the code would break
the refinement. `InOrder` says what remains true of a log through all that.

**DedupTable, Dedup.** One entry per node, with a ring of the numbers accepted last. `Dedup` drives
it with more nodes than entries and more numbers than a ring holds, several frames in a millisecond,
and the restart in which the mutex is gone while frames still come in. The reinit publishes the new
mutex first, then zeroes the count and then the entries (`ZeroCount`, `ZeroEntries`), and frames come
before, between and after these steps: until the zeroing is over a table may hold zeroed entries
(`NoNode`) that are counted. A frame that meets the zeroing inside the filter is a data race
(`ZeroTorn`), after which nothing is said of the table until the next reinit. Its names differ from
`Delivery`'s (`filter`, `FilterNext`, `FilterSpec`), as those of `Ble` differ from `SendPath`'s
(`BleNext`, `BleSpec`), so that one module of proofs can extend both.

**Delivery.** `LoopTop` and `StoreSample` are the two looks `app_main` takes at the role, seconds
apart. `Pop`, `SendAcked`, `SendUnacked`, `SendLost`, `Cutoff`, `Requeue` are the drain;
`Process` is the JSON branch of `process_packet`: filter, then role, then store; `ProcessFails` is the
frame for which there is no memory after its acknowledgement. `Trigger`, `Deinit`,
`Reinit`, `Resume` are what an onboarding does to the head's ears, and `told` is what a member knows
of the head's BUSY status. `pad` counts what `strlen` reads beyond a popped payload, which has no
terminator (`storage_manager.c:497`). The member's store has a `Capacity`: a write at `PurgeAt` first wipes
all that is there (`wiped` remembers what), a pop needs room for the copy of its tail (`PopFits`), and
`PopFailsUnseen` is the pop whose copy falls short or whose file cannot be deleted (`again`).

**SendPath.** `pc` is the state machine task inside `esp_now_manager_send_data`,
`send_data_fast` or `broadcast_ch_status`, which take the same steps; `air` holds the frames the
driver accepted. The callback is two steps, `CbRecord` (status and completion) and `CbRelease` (the
send semaphore), because the sender may run in between. `Backup` is the head's broadcast of a
schedule, which takes no semaphore. `Deinit` and `Reinit` follow the code's order and early returns;
after a failed reinit a semaphore may be NULL, and `"sem" \notin exists` says so. `loose` is history:
it turns true when a backup's callback has given a semaphore nobody had taken, or a send went out
without one, and false again when a send starts with nothing in the air.

**Superframe.** Times are differences to each node's own phase start, in ticks; all clocks advance
together in `Tick`, and in each tick every loop that is not blocked runs once. A round of schedules
is sent member by member; a unicast may fail although it arrived, blocks the head for up to
`SendTicks`, and is followed by the broadcast. `Receive` is the member's Wi-Fi task: it makes the
schedule's epoch local and moves the clock to the start of DATA, unless the clock is within `Slack`
(500 ms) of it. The member's state task tests for the end of its frame (`FrameEnds`) and writes the start of the
next one afterwards, in `MemberLoop`; a schedule that arrives in between is overwritten (`undone`).
`MemberLoop` also starts a drain, which begins its last chunk up to `Margin` before the slot's end and
may then send for `ChunkTicks` more. What the phases do to the radio is in `Ble`.

**StellarRules, AdaptiveWeights, Election.** Numbers are scaled integers (thousandths, scores in
millionths, the code's tolerance); `expf`, `logf` and `powf` are tables given as constants. The rank in
`ParetoRank`, the frontier, the fallback to the score and the tie by the lower id are the code's. A
node's own uptime and RSSI centrality enter its view only of itself: a beacon has no uptime, and a
neighbor's centrality is 0.8. `Hear` is one beacon, at any strength; `Elect` adapts the weights once
more (`Reweighed`) and decides by them. What the tables given as constants must hold for a profile is
`Tabulated`.

**Cluster.** Each node has a record of its state machine (`LocalState`) and a table. A tick is 2.5 s;
in every tick each running node takes one `Loop`: the beacons of all that are on the air while it
scans, the phase change (`Timed`), and the loop of its role. The radio flags, the pre-guard and the
schedules that restart the clocks of others are in, because they decide who hears whom. Faults are a
crash, a battery that runs low, beacons or schedules lost in one loop, and accesses to the neighbor table that
give up on the lock (`Accesses`: the look-ups of the head and of one entry, the clean-up, the copy an
election is held on, the look for rivals, and the copy the schedules go by), any of them in one loop. A candidate
whose copy gives up elects itself, whoever it knows. Its names differ from those of `Election` (`ClusterInit`, `ClusterSpec`,
`Neighborhood`, `neighbors`, `SharedWeights`), again for the proofs.

**TableLocks.** `pc[t]` is the call a task is in, `wait[t]` what is left of its limit in ticks of
50 ms. A call that takes a mutex, works and gives it back is one step, a call that asks for the other
mutex meanwhile is several; `Tick` comes only when all tasks wait. The machine's steps tell an answer
from a limit that ran out only where the code does: a head not found, no neighbors, a lost credit.

**RcSwitch, Onboarding.** `Parse` looks for the first gap and reads the code behind it level by level
(`Code`, a recursive function of the bit) as `parse_rcswitch` does, including that it uses the number
of pairs for that of levels. In `Onboarding`, `pc` is the place in
`STATE_UAV_ONBOARDING`: `RfOff`, `Deinit`, `JoinStart`, `JoinWait`, the upload (`Post .. Ack`),
`Clean`, `Reinit`, `RfDrain`, `RfArm`, `Back`; in between frames arrive, triggers are checked, Wi-Fi
events are handled or wait (`wifi.events`), the access point and the server fail, samples are stored.
A disconnection is handled in two steps: the test of the retries, and after the 500 ms of the handler
the connect (`Retry`); the onboarding's clean-up may fall in between, and its unregistering waits for a handler that
is running. A server may take no bytes (`"stalled"`), with which `Write` repeats. The
events queued by the channel share one buffer: what is parsed is the last capture over the earlier
ones (`Buffered`), and a frame that ends between the copy and the re-arming changes it once more. A
foreign code that decodes is freed twice: the heap notices and the node restarts, or it does not
notice; what a damaged heap does later is left out. `cause` remembers when the frame of the last onboarding came.

**Ble.** `todo` holds the calls one loop makes, `at` the step of the first; `flag` are the manager's
variables, `radio` what the controller does, `events` what waits for the host task. The test of a
flag, the call and the setting of the flag are separate steps, and events come in between. `slipped`
is history: a call met an event that was under way, or a stop of advertising or of the scan failed.
`guard` is the pre-guard flag, which becoming a member resets.

**Trust, NodeLife.** A tick is a second. `Measures`, `Senses`, `Stores`, `FallsAsleep` or `Rests` are
a round of `app_main`. A group of values has the time of its reading and a source: a sensor that gave it
(`real`), or the code's substitute for a sensor that was silent (`silent`), which is cached and stored like
a measured one. `Faulty` are the groups whose sensor may be silent; in the normal mode the BME280
alone decides for the environment, and silent it overrides an AHT21 that answers. `Second` is a second of waiting with
the metrics task's save of uptime and trust; `Hears` one beacon with what it does to the averages
behind the trust; `Crash` and `Wakes` are boots, which find what NVS holds.

## 3. Runs

Passing runs:

| Run | Instance | Shows |
|---|---|---|
| `store` | two storing tasks and the state machine task, 5 records, a partition of 5 records with the purge at 4, batch 2, 2 failing calls, 1 reset | order, nothing lost or repeated but by a named cause, exact count, intact uploads, and the refinement of `RecordLog` |
| `dedup` | 3 nodes on 2 entries, 3 numbers on rings of 2, 6 frames, 2 moments, 1 restart with its zeroing | nothing new is refused; a number is stored twice only if the ring or the table had to forget it |
| `delivery` | one member, 4 records with numbers up to 3, a store of 3 that purges when full, batch 2, 2 attempts, ring 1, up to 2 troubles of any kind | nothing is lost by losses on the air; nothing is held twice unless a file could not be deleted; duplicates are far apart; what is written arrives |
| `superframe` | a head and two members with any clocks | members follow the head's phase, drains that outlast their slots stay in DATA, spill is bounded, slots come again and again |
| `sendpath` | 3 attempts, a driver queue of 3 | the semaphore returns, one frame flies at a time, verdicts are fresh |
| `election` | 3 nodes, 3 profiles, 3 signal strengths, one node whose battery has jumped | the winner is eligible and undominated, and two nodes do not elect each other |
| `cluster` | 2 nodes that boot at any time, one fault of any kind | 120 s after the last disturbance there is one head and all follow it; two asserted heads never last 90 s |
| `onboarding` | the UAV's code and another, in captures of one burst and of four, 1 retry, 2 records, one fault | only the code starts an onboarding, none starts late, the receiver listens again, nothing reconnects, the store is cleared only after an accepted upload, every onboarding ends unless the server stalls for good |
| `ble` | one node, any phases and roles, one reset or failed call | no advertising and no scan while ESP-NOW or the UAV have the radio, the beacon and the scan come back |
| `locks` | a head, two more neighbors, a table of two, ticks of 50 ms with the code's limits | limits run out only in the cross, a beacon's delay is bounded, all tasks go on |
| `node` | 3 groups of sensors, two of which may be silent, 7 voltages around the thresholds, 18 s awake in any number of boots, one beacon in each | sleeps only when empty, reads on time, makes values up for silent sensors only, keeps what was saved |

One run ends in a violation, the code against a comment of its own: `delivery_busy`. "Members should
NOT send data when CH is offloading to UAV ... better to buffer locally" (`state_machine.c:918-921`),
but BUSY only clears `can_send`, and the drain below it (`state_machine.c:1022`) never looks at it: a
member that has been told still pops its batch and sends. What is popped is put back when the frames
fail, so nothing is lost.

Every property of a passing run has a mutant in `PROJECT.json`: a definition changed as a bug would
change it, kept in the module beside the definition, with which the property fails.

### Bounds, and why they are enough

- `store`: two storing tasks, because what they can do to each other and to the third is a matter of
  who holds the lock and what comes between two calls; five records overrun the purge mark, fill two
  batches, and leave a tail. Two failing calls let a torn record be followed by a failing rename or a failing
  retry, and an unlink that fails by the rename that fails with it. The producers are interchangeable, hence the symmetry.
- `dedup`: one node more than entries and one number more than the ring holds is the least that
  evicts and forgets; two moments give both ties and differences in `last_seen`. Frames are bounded,
  so deadlock is not checked.
- `delivery`: members meet only in the table, which `dedup` covers with several nodes; one member
  with a ring of one number shows the same loss of memory as 32 with a longer queue. A full store of
  three has no room for the copy of its tail when two are popped, and the next write wipes it. `MaxTrouble`
  bounds all failures together; loops, records and troubles are bounded by guards, so behaviours end
  and deadlock is not checked. `FrameLimit = 0` makes the first byte `strlen` reads too many the
  fatal one, which only shortens the way to it.
- `superframe`: phases of 2 and 6 ticks, a guard of 2, slots of at least 2, 3 between two
  rounds of schedules, and one tick each for a send, the 500 ms of the clock and of the margin; a chunk
  takes 2. A tick stands for different times in these constants; what is kept is their order, with
  `Slack` + `ChunkTicks` as large as `Guard` + `Margin` allow (in the code 2.35 s of 5.5 s). `Validity` only has
  to outlast DATA, which is assumed (a schedule is valid for 60 s). The head
  starts a frame at time 0 without loss of
  generality, as only differences count; the members' clocks are any. Two members are what slots can
  overlap and orders differ with.
- `sendpath`: nothing but the queue is bounded; jobs go on for ever. Three places hold an abandoned
  frame, a backup and a current frame at the same time, and fill.
- `election`: three nodes give each a set of two rivals, with every pair of dominating, incomparable
  and distrusted profiles; the strengths are within, on the edge of and out of the radius. Every node
  votes once, so the run ends and deadlock is not checked.
- `cluster`: two nodes are the least that are rivals; a third triples the tables and is out of TLC's
  reach at this level of detail. Their scores are in the tie buffer of each other, the case in
  which beacon rounding and ids matter. A tick of 2.5 s keeps the code's windows in proportion: phases
  of 20 s are 8, the election window of 10 s is 4, the table's timeouts of 45 s and 60 s are 18 and 24.
  `MissThreshold` is 2 loops for the code's 10, which are a second. `Rivalry` is
  90 s, little more than the 82 s that two heads can last; `Settling` is 120 s.
- `onboarding`: a code of 3 bits keeps a capture short; four bursts are the least that decode. One
  retry, one fault and two records let a sample fall between the read and the clear.
- `ble`: events are bounded by one that waits at a time, faults by one; loops are not bounded.
- `locks`: the limits are the code's in ticks of 50 ms, a save takes three ticks. A table of two for
  three neighbors leaves one out, which is all a full table does.
- `node`: seconds for minutes; intervals, factors and periods keep their order (a sample period of
  the normal mode below that of the power-save mode, intervals around both). 18 s awake let every
  group be due twice, in both modes, and two saves happen. `Crash` is not bounded.

### Fairness

- `delivery`: weak fairness, for each member, of its sampling loop and of its drain or finding of a head; at the
  head, of `process_packet` and of regaining the role or the steps of an onboarding: they are loops of
  tasks the scheduler runs, and waits with timeouts. Losses, cut-offs, failures, resets and loss of
  the role owe nothing. `WrittenArrives` names its exceptions: a failed call, a reset or an event at the
  head may have lost the record; a purge has wiped it; a payload that has grown past the frame blocks
  its member's drain for good; and a store without room for the copy of a tail gives nothing up.
- `superframe`: weak fairness of time, loops and the steps of a round; strong fairness of an
  acknowledged schedule to each member outside the instant in which its frame ends, which says that a
  schedule sent again and again arrives, is acknowledged, and is not overwritten every time. Without it
  a member that hears nothing gets no slot, and should not.
- `onboarding`: strong fairness of the head's steps (one task, every wait with a timeout; it may find the
  event loop's lock taken by a handler now and then) and weak fairness of the Wi-Fi event loop. Access
  point, server and frames owe nothing; that the server does not stall for good is a hypothesis of
  `OnboardingEnds`.
- `ble`: weak fairness of the state machine task, of the host task, of the host's synchronisation
  after a reset and of the expiry of the second that limits the update of a beacon. The advertising
  that ends by itself and the reports of it owe nothing.
- `locks`: weak fairness of the whole. Some task can always move or time passes; a step takes no time
  and `Tick` waits for the steps that can be taken, so no task can starve another between two ticks.
- `cluster` needs none: `SettlesInTime` and `RivalsResolved` are safety properties that count ticks,
  and in a tick every loop runs.

## 4. Proofs

| Module | Theorems | Assumes |
|---|---|---|
| `MslgStoreProofs` | `TypeCorrect`, `LockCorrect`, `TailCorrect`, `StoreImplementsRecordLog`, `OrderCorrect`, `CountCorrect`, `UploadCorrect` | `TasksAssumption` (the drainer is no producer, and "nobody" no task), `LimitsAssumption` (limits are natural numbers, and a record fits between the purge mark and the capacity) |
| `DeliveryProofs`, of `Delivery` | `TypeCorrect`, `NoSecondCopy`, `NothingLost`, `CopiesFarApart` | `DeliveryAssumption`, `TableAssumption` (at least one attempt, one record in a batch, one entry and one number in a ring); `CopiesFarApart` names `FewSenders` as its hypothesis |
| `DeliveryProofs`, of `Dedup` | `FilterInOrder`, `RefusedIsOld`, `ForgetsLate` | `TableAssumption`, `DedupAssumption` (natural limits; a zeroed entry is of no node) |
| `SuperframeProofs` | `TypeCorrect`, `HeardStays`, `DrainsEnd`, `SpillsLittle` | `SuperframeAssumption` (guard and one slot fit into DATA, a schedule is valid for DATA, the 500 ms of the clock are shorter than STELLAR, guard and slot, and with a chunk and its retries no longer than guard and margin) |
| `SendPathProofs`, of `SendPath` | `TypeCorrect`, `SemaphoreCorrect`, `OneInFlightCorrect`, `VerdictCorrect` | `SendPathAssumption` (at least one attempt and one place in the queue) |
| `SendPathProofs`, of `Ble` | `QuietForEspNow` | nothing of the limits |
| `ElectionProofs`, of `Election` | `TypeCorrect`, `EligibleCorrect`, `UndominatedCorrect`, `OneIsElected`, `RoundsDecide`, `BargainersElectThemselves`, `DeferenceCorrect`, `CentralityIsAPercentage`, `NeverBothYield`, `OneYields` | `ElectionAssumption`, `TablesAssumption` (the tables hold what the profiles ask for) |
| `ElectionProofs`, of `Cluster` | `ClusterTypeCorrect`, `HeadsAreHeardCorrect`, `ElectionsDecide`, `NobodyBetterCorrect`, `RivalYieldsCorrect`, `UnbeatenStays`, `LeavesForAReasonCorrect` | `ClusterAssumption` (a finite neighborhood, windows of at least a tick), `ProfileAssumption` (as `TablesAssumption`), `NeighborTableAssumption` (a silent head is forgotten no later than a silent neighbor) |
| `OnboardingProofs` | `TypeCorrect`, `AccessPointLeft`, `NoSelfTrigger`, `ReceiverListens`, `UploadedBeforeCleared`, `CodeParsed`, `UavCodeStarts` | `OnboardingAssumption` (natural limits; a code that is not 0) |
| `TableLocksProofs` | `Invariance`, `TypeCorrect`, `CrossCorrect`, `HostDelayCorrect` | `TableLocksAssumption` (positive limits, finitely many neighbors) |
| `NodeLifeProofs` | `SleepsOnlyCorrect`, `ReadOnTimeCorrect`, `InventedCorrect`, `SavedSurvivesCorrect` | `NodeLifeAssumption` (positive intervals and periods, the power-save period not the shorter one; the faulty groups are groups) |

Hardly any of the invariants is inductive alone; each argument is about what it has to be joined with.

- **MslgStore.** The inductive invariant is the conjunction of `TypeOK`; `Numbered` (a record being
  written has its number); `LockHeld` (only the lock's holder is in a locked section); `Positions`
  (where the pop's handle may be); `Copying` (the copy has lost something only between its end and the
  replacement, and the batch is still in the file only if the file is there); `TailIsCurrent` (before the
  unlink, `temp.mslg` is the rest of the file, or a beginning of the rest if the copy is cut); and
  `Ids` (the record being written is newer than all that is stored or popped, up to the pen, and
  between unlink and rename nothing is appended). With it each step is one action of `RecordLog` or a
  stutter (`StepOfLog`). `OrderCorrect` adds that each action of any log keeps it in order
  (`StepKeepsOrder`): ordered runs of units, one before the other, are ordered when joined. `CountExact`
  adds `Counted`: while no call has failed and no reset has torn a record, every file holds whole
  records but for the one under the pen, and the cached count is that of the file, of its place before
  the step under way, or of the copied tail, by the place of the writer and the drainer. `UploadIntact`
  adds `UploadInv`: what the upload has read is payloads in pairs with rising
  numbers, and while nobody has replaced the file since it was opened, the last of them lies right
  before the handle (`LastCopied`).
- **Delivery.** Every step is one of a few kinds (sampled, popped, sent, put back, dropped, cleared), and
  the proofs go by the kinds. `Numbered` says what a member has in hand, in flash and batch together
  (`Hands`): records of its own, each with the number it was written with, and none twice unless a file could not be
  deleted; this is `HeldOnce`. `Lossless` needs `Kept` (every record written has been wiped, is in its
  member's hands, or its number is with the head), and `RingsInLog`, because a chunk that the filter
  drops counts as arrived only if the head has stored its number; `HeadUp` says when that is to be
  relied on, and `SparedOrWiped` what a write leaves of the store.
  `DuplicatesAreFarApart` needs `Recent`: each of the last `History` numbers of a sender is at its place
  in the ring.
- **Dedup.** All is said of a table whose zeroing no frame has torn. A reinit leaves an empty table, or
  zeroed entries that are counted (`Emptied`); frames take them for entries of no node. `TableOK` is inductive with the types once the table's operators are known
  (`TableAfter`, `RingAfter`: what a frame does to the entries and to a ring). `RingsHeard`: a ring
  holds only what was stored. For `StoredTwiceOnlyIfForgotten`, `Remembers` says where a stored number is
  in its ring, unless as many later ones of its node or as many other nodes have come since; and
  `LastSeen` ties an entry's time to its node's last frame, so that the entry evicted is of the node heard
  longest ago. All of these count frames between two places of the history. The least element of a set
  of numbers, which the operators need, exists by the library's well-foundedness of `<` (`MinIsLeast`).
- **Superframe.** Everything is about how the members' clocks relate to the head's. `HeardInData`
  says that who heard a schedule entered DATA when the head did or later, give or take the `Slack`
  under which a clock is not moved, and unless its own new frame was written over it (`undone`); this gives
  `StaysForTheHead`. It needs `RoundInData` (a round is sent in DATA only) and `MembersOnTime`.
  `Aged` ties the age of a schedule that counts to the member's clock and its slot. `Drains` (what is
  left of a drain, its last chunk's retries included, fits into what is left of the member's own DATA
  phase) gives `DrainInOwnData`: a schedule that moves the clock in the middle of a drain moves it back.
  `Spilled` (the slots of the last DATA phase began before the head's STELLAR phase did) gives
  `SpillBounded`, and `HeadOnTime` bounds how long a round of schedules may hold up the head's loop.
- **SendPath.** `SemaphoreReturns` is inductive with the types. `OneInFlight` needs `Exclusive`: while
  the semaphore is exact, an available semaphore, a task about to send and a missing semaphore each
  mean that no guarded frame is in the air or in its callback. `VerdictIsFresh` needs `Fresh`: while
  the task waits, every guarded frame is the one it waits for, and a completion it can see is not of
  an abandoned one; this in turn needs `Exclusive` when a frame is handed to the driver.
- **Ble** (in `SendPathProofs`). While nothing has slipped, `Tells` ties radio, flag and events together:
  at most one ADV_COMPLETE is under way, and then the radio is silent (`OneEnd`, `EndsSilent`); who is on
  the air has its flag or is about to set it (`FlagTells`); a wish to reload waits for an end that will
  come (`Reloads`). `Off` is more than silence: no event that is under way brings the node back, so it
  lasts until a call advertises (`OffStays`). The other half is about the calls a loop leaves to do:
  each `quiet` comes right after a `stop`, or after a scan's stop with the node off (`QuietOff`), and after a
  scan's stop with at most a stop in between (`QuietScanless`, which needs `ScanTells`: the flag of the scan, the
  radio and the events agree); a loop in
  DATA begins with the stop and has no call that advertises (`DataOff`). That a loop makes only such
  calls is `LoopTodo`, for every phase and role.
- **Onboarding.** `StaysOffTheAccessPoint` needs `Connected` (which Wi-Fi modes a place of the onboarding
  allows, while a handler waits to connect again, too) and `EventQueue` (which events can still be waiting there); `NoTriggerFromOnboarding` needs
  `QueueOfHead` (a frame that came while the head was away is in the queue only until it is drained);
  `Listening` needs `OffWhileAway` and `QueueShort`: two frames are queued only if the channel was armed
  over the first;
  `ClearedAfterUpload` needs `ServerHasBatch`. `StartsForTheUav` is about the decoder, for a code of any
  length, any number of bursts, and bursts of any codes as they lie over each other in the shared
  buffer (`CodeParsed`). The levels of a burst are known
  (`BurstLevels`), so the first gap found is one that a burst ends with, the same number of levels
  before each next one; as pairs are counted for levels, only four bursts are sure to have a whole code behind it.
  That the recursive function then gives back the number that was sent (`DigitsRead`) is by the least
  bit at which it would not; the bits of a number are divisions by powers of two, and the laws of
  powers come from the cardinality of `SUBSET`, as the prover knows none of `^`.
- **Election.** `Filed` says that a table holds finitely many other nodes, each with what it measured.
  So the utilities of all candidates are numbers (`UtilitiesAreNumbers`), nobody dominates itself, and
  whoever `Elected` returns is a candidate on the frontier (`ElectedIsUndominated`), the only candidate
  included. A vote stands because a node that has voted hears no more and nobody measures again
  (`VotesStand`). For `DeferenceIsOneWay`, `Decided` keeps every vote what the node's candidates and present
  weights elect. What a neighbor files of a node is no better than what the node knows of itself
  (`HeardOfIsLess`: the uptime is missing), and a neighbor's centrality counts less than the own one; so
  who defers to the only other has a score no higher than the other's, and if both did, the scores
  would be equal and each id the lower one. That every round has a winner, and one only
  (`OneIsElected`), is a statement about any number of candidates: a nonempty set of them has a best
  one, and a best one is on the frontier. The proof takes a smallest set without it, which exists by the
  library's well-foundedness of strict subsets, and puts back the one candidate left out; the sums
  in `CentralityIsAPercentage` go the same way. `BargainersElectThemselves`: a neighbor's uptime
  is not known, so it is never above the disagreement nor dominates one that is.
  The two theorems on two heads bound the rounding of the beacon's score by 9 units: they never both yield,
  and one does unless the scores are 991 to 1009 units apart, around the buffer of 1000. Within that
  gap both may stay, which is among the observations below.
- **Cluster.** `ClusterInv` joins the types with `TableOf` (a table has other nodes only, no more than
  fit, each with what it measured before or after its battery ran low) and `HeadIsHeard` (a head listens,
  and advertises itself in STELLAR once it has asserted itself; the head's loop and every change to
  STELLAR restore it). With it, `OneIsElected` applies to every election a candidate may hold
  (`ElectionsDecide`), and whoever it elects is undominated
  (`NobodyBetterCorrect`, of the loops in which no access to the table gives up; a candidate that cannot copy its table
  elects itself). The
  action properties rest on two lemmas: `OtherSteps` (of a running node, only its own loop changes
  role or table) and `OwnLoop` (what one loop, from the beacons to the role's part, may do). In it,
  `CurrentChIsBest` says whom the look-up of the head finds, and `Updated` what the beacons leave in
  the table. `RivalYieldsCorrect` is the step that ends a rivalry: both are heard, so the beaten head's
  table has the other's score after its loop, and the head it finds is that one or a better one. Joined
  with `NeverBothYield` and `OneYields` it says that two heads that hear each other once in a shared
  STELLAR phase become one, but for the gap in the scores. Its hypothesis on the table's room is
  real: a full table takes no new head. TLC checked these definitions on the instance of `cluster`
  before they were proved; the run keeps the two properties they cannot replace.
- **TableLocks.** `GivesUpInTheCross` is not inductive: the table's limits and the metrics' place must
  be tied together. `Inv` is `TypeOK`; `Places` (what each task may be waiting for); `Holders` (a task
  holds a mutex exactly in the places inside it); `Expired` (a limit is at 0 only in the cross, or when
  the table was given back in this tick); and `Spent` (what the host has waited plus what the metrics
  task may still keep it waiting is within `HostDelay`, phase by phase).
- **NodeLife.** `Power` (what the estimator holds was measured, or is the 100 that stands for no
  measurement) gives `SleepsOnlyWhenEmpty`. `Ages` says by place how old a reading may be: what is left
  of a rest is added to it, and after `Senses` it is below the interval, because every mode but the
  critical one has just compared it. `Warm` says that a group that nobody has asked yet is as old as the boot, and that in
  the normal mode every reading is younger than its interval once the sensors have been read; so later
  in the boot only groups that were silent when asked hold made-up values (`InventedCorrect`). `Uptimes` is `SavedSurvives` with its types.

Only model-checked:
- liveness (`WrittenArrives`, `EverySlotComes`, `OnboardingEnds`, `BeaconsGoOn`, `MemberHears`,
  `TasksReturn`), which is out of the prover's reach under fairness;
- `SettlesInTime` and `RivalsResolved` of `Cluster`. They count ticks since the last disturbance or since
  two heads met, so an inductive invariant has to say of every earlier tick which loops, beacons and
  windows of all nodes may have come together in it; TLC goes through these for two nodes. What a
  single loop does to a rivalry, a member or a head is proved, for any number of nodes.

## 5. Observations

Things seen while modelling. Those with a name are definitions of the modules that TLC refutes when
they are added to the run; the others are visible in the models.

Store and delivery:
- `docs/DATA_STORAGE.md:17` promises that the drain gets everything in the end: between half full and
  90 % full a pop cannot copy the tail, and nothing is drained until the purge wipes all.
- No result is looked at when the file is replaced (`storage_manager.c:1011-1018`). An unlink that
  fails makes the rename fail too, and the records just handed out are popped again; a read or a flush
  that fails in the copy cuts the tail off. The purge at 90 % wipes all records in a write that
  reports success (`storage_manager.c:109-150`).
- A frame is acknowledged by the driver before `process_packet` has memory for it
  (`esp_now_manager.c:265`); without it the record is gone, as its member has freed it.
- The reinit publishes the filter's mutex before it zeroes the table, without taking it
  (`esp_now_manager.c:544-552`): frames in between may be forgotten at once, or share the table with
  zeroed entries that are counted.
- The upload ends with its buffer, and HTTP 200 clears the rest as well (`uav_client.c:491`, against
  `state_machine.c:1186`).
- `NumbersAreUnique` (`ms_node.c:304`): the counter is set back one loop after a record was stored.
  `StoredOnce` (`esp_now_manager.c:26`): an unacknowledged frame arrives, waits behind more others
  than the ring holds, and is stored again.
- The filter has 8 entries (`esp_now_manager.c:30`), the neighbor table 10 (`config.h:11`): with more
  senders than entries every frame may evict another's, and the theorem on duplicates needs
  `FewSenders`.
- The drain goes to the first fresh head of the table, trusted or not, or to a cached one that never
  expires (`state_machine.c:937-967`). A BUSY status older than 60 s is dropped while the head may
  still be away.

Superframe, send path and BLE:
- A drain may outlast its slot: the cut-off is tested 500 ms before the end and before each chunk
  (`state_machine.c:1042`), and a chunk with its retries takes about 1.85 s. The guard makes up for it
  within DATA, but not before the next member's slot.
- A schedule that arrives while `state_machine_update_phase` is between its test and its write moves the clock
  in vain (`state_machine.c:109-129`): the member starts a STELLAR phase of its own in the head's DATA.
- `SlotsDisjoint` (`docs/TDMA_SCHEDULING.md:908`): the epoch is the time of receipt less the earlier
  slots, so every slot begins when its schedule arrives.
- The branch that raises a slot to two seconds (`state_machine.c:613-616`) is never taken; the last of
  more neighbors than fit into DATA get no slot while the others keep their priority.
- The backup broadcast takes no `s_send_sem` (`state_machine.c:656`), although the comment at
  `esp_now_manager.c:112-115` wants one frame at a time. `esp_now_manager_deinit` deletes the
  semaphores before ESP-NOW is stopped, and a reinit that fails early leaves them NULL.
- The head never stops its scan in DATA. A late ADV_COMPLETE starts the advertising again in DATA or
  clears the flag of a running one; a CANDIDATE that becomes a head in DATA and an onboarding that
  ends in DATA stay on the air, against the comment at `state_machine.c:255`; a reset in the middle of
  `start_scanning` leaves the flag set until the next pre-guard.

Election and roles:
- `Agreement` (`election.c:169`, `config.h:14-15`): nodes that all hear each other may elect
  different heads, as each knows its own uptime and centrality and takes 0 and 0.8 for the others'. It is
  proved that they do (`BargainersElectThemselves`): every node whose own utilities exceed the
  disagreement, its uptime included, elects itself, however much better its neighbors are.
- Two heads whose scores differ by the buffer up to a hundredth of it may both stay: what the beacon
  rounds off decides, and the better of the two must have the higher id (`OneYields` excludes just this).
- `AtMostOneAssertedHead` (`state_machine.c:445-449`): two asserted heads can keep each other in DATA,
  off the air, for more than 80 s, because each schedule restarts the other's clock, until their
  tables expire.
- A member leaves at the first re-election check without a head, whatever `CH_MISS_THRESHOLD`
  (`config.h:53-55`); `HeadKept`: one table lock that is not to be had in 50 ms is enough.
- A look-up that gives up reads as "no head" or "no neighbors": the score is computed for none, and a
  candidate whose copy of the table gives up (`neighbor_manager.c:238-246`) elects itself whoever it knows. `metrics_update` holds the metrics for up to a second meanwhile.

Onboarding:
- A foreign code that decodes is freed twice (`rf_receiver.c:160-162` and `179`). All events that
  are queued share one buffer (`rf_receiver.c:135-143`), so a frame may be parsed with the content of a
  later one, and one that ends between the copy and the re-arming changes what is parsed; none of it is
  taken for the UAV's code unless a whole burst of that was in one of the captures that lie in the buffer.
- A frame that comes while the queue is drained and the channel armed, with another one, starts an
  onboarding although `rf_receiver.c:263` says it must not; a frame queued while the node was a member
  starts one when it is head.
- `NeverDeaf` (`rf_receiver.c:272`): re-arming an active channel fails, and after it, or a failed
  allocation, the receiver is deaf until the next enable.
- The decoder counts pairs for levels and needs four bursts. A server that takes no bytes keeps
  `esp_http_client_write` in its loop (`uav_client.c:471-480`) for ever (`OnboardingEnds` holds for servers that do not); the
  result of the ACK is ignored; a reinit that fails leaves the head without ESP-NOW.

A node's life:
- Intervals count from time 0 of the boot: in the first minute records hold random values, and in the
  second the gas values are 0 (the comment at `ms_node.c:503-510` expects otherwise). The "cached
  real values" of `ms_node.c:573` cannot be relied on either: what is made up for a silent sensor is cached and stored
  like a measured value, in every record as long as the sensor is silent (`ms_node.c:409-478`), and in
  the normal mode a silent BME280 replaces what an AHT21 has answered.
- A failed battery reading after a measured 0 % counts as 100 %; a measured 0 % is a full battery in
  the metrics (`metrics.c:74-79`); 2 V or less count as 100 %, too.
- A head goes to deep sleep without handing over. In its slot a member's loop runs every 100 ms and
  stores a record each time.
- `UptimeIsTrue` (`metrics.h:8`): every save adds the whole uptime of the boot to what was saved before.
  `TrustSurvives` (`metrics.c:468`): the first authentic beacon after a boot computes the trust from
  averages that start at their neutral values.

## 6. Not modelled

- **Dead or left-out code:** `main/ble_beacon.c` and `main/ble_gatt_service.c` are not in the build;
  `storage_manager_write`, `pop_line`, `prepare_upload`, `remove_queue` and `pop_mslg_chunk` have no
  callers, nor have the replay check of `main/auth.c`, `pme_tick`, `metrics_update_per` and
  `metrics_update_link_quality`; `huffman.c` and the older election (`election.c:445-509`) are not
  used, and `persistence.c` is stubs.
- **Compression:** records are smaller than `COMPRESSION_MIN_BYTES` and are stored raw. miniz, cJSON
  and the other managed components are third-party code.
- **Pure I/O:** the transfers of the sensors, the LED, the ADC; HMAC over mbedTLS (a beacon is
  authentic or not); log lines and the tools that read them.
- **Left out on purpose:** in `Superframe` clock drift within a frame, changes of role during one, and torn reads of
  what two tasks share without a lock (the copy of a schedule, the 64-bit `s_phase_start_ms`);
  in `Onboarding` what a damaged heap does after the double free;
  an onboarding during a change of head in `Cluster`; two nodes out of each other's radius in
  `Cluster` (`Election` has them). TLC runs `Cluster` with two nodes and never fills a table; more nodes
  and full tables are covered by its theorems only.

## 7. Plan

Done are all components that the build compiles and that keep state of their own. To follow:

- an abstract cluster (one head, or none and an election) which `Cluster` implements up to the times
  of rivalry; the theorems on `Cluster` are its steps.
