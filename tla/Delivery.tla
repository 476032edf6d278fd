------------------------------ MODULE Delivery ------------------------------
(***************************************************************************)
(* A record's way from the sensor loop of a member to the store of its     *)
(* cluster head: app_main numbers and stores it, the state machine task    *)
(* pops it in the DATA phase, sends it over ESP-NOW and puts back what was *)
(* not acknowledged, and the cluster head's Wi-Fi task filters duplicates  *)
(* and stores it again for the UAV.                                        *)
(*                                                                         *)
(* A frame that is acknowledged has been delivered, but a delivered frame  *)
(* need not be acknowledged.  The member's store is the RecordLog that     *)
(* MslgStore implements, one call a step: a nearly full partition is wiped *)
(* by the next write, a pop needs room to copy what it leaves, and a call  *)
(* of the file system may fail in a write or, unnoticed, in a pop.         *)
(* Records are below COMPRESSION_MIN_BYTES and are therefore stored raw.   *)
(***************************************************************************)
EXTENDS DedupTable, FiniteSets, Functions

CONSTANTS
    Members,       \* the sending nodes
    BatchMax,      \* BATCH_POP_MAX
    Capacity,      \* chunks a member's partition holds
    PurgeAt,       \* SPIFFS_PURGE_THRESHOLD_PCT, in chunks
    Attempts,      \* MAX_RETRIES of esp_now_manager_send_data_fast
    FrameLimit,    \* over-read bytes that still fit into an ESP-NOW frame
    MaxSeq,        \* bound: loops of app_main in one boot
    MaxRecords,    \* bound: records stored
    MaxFaults,     \* bound: frames or acknowledgements lost, slots cut short
    MaxWriteFails, \* bound: store writes and pops in which a call fails
    MaxRestarts,   \* bound: member resets
    MaxHeadEvents, \* bound: resets, role changes and onboardings of the head
    MaxTrouble     \* bound: all of these together

ASSUME DeliveryAssumption ==
    /\ Capacity \in Nat /\ PurgeAt \in Nat
    /\ BatchMax \in Nat \ {0} /\ Attempts \in Nat \ {0} /\ FrameLimit \in Nat
    /\ \A b \in {MaxSeq, MaxRecords, MaxFaults, MaxWriteFails, MaxRestarts, MaxHeadEvents, MaxTrouble} : b \in Nat

VARIABLES
    \* a member
    role,       \* g_current_state is STATE_MEMBER
    loop,       \* where app_main is in its loop: "top" or "sampled"
    seq,        \* s_packet_seq_num
    numbered,   \* s_seq_reset_done
    store,      \* the chunks of data.lz
    drain,      \* "idle", "sending" or "requeueing"
    batch,      \* the popped chunks not yet sent or put back
    tries,      \* attempts made for the first of them
    told,       \* s_ch_busy: a head has said that it is busy
    \* the cluster head
    isHead,     \* g_is_ch
    uav,        \* how far STATE_UAV_ONBOARDING has come; "none" in other states
    inbox,      \* frames acknowledged by its MAC and not yet processed
    table,      \* s_dedup_table
    log,        \* history: what it stored, in order
    \* history and bounds
    written,    \* records stored by app_main
    wiped,      \* ids of the records that a purge has wiped
    again,      \* a pop could not delete what it handed out
    faults, writeFails, restarts, headEvents

memberVars == <<role, loop, seq, numbered, store, drain, batch, tries>>
headVars == <<isHead, uav, inbox, table, log>>
boundVars == <<faults, writeFails, restarts, headEvents>>
storeHistory == <<written, wiped, again>>
vars == <<memberVars, told, headVars, storeHistory, boundVars>>

\* id tells records apart; on the wire there are only node and seq.  pad is what the
\* requeues have read beyond the payload's end.
Chunk == [node : Members, id : Nat, seq : Nat, pad : 0..FrameLimit + 1]
Same(c, d) == c.node = d.node /\ c.id = d.id
SameNumber(c, d) == c.node = d.node /\ c.seq = d.seq

Smaller(a, b) == IF a < b THEN a ELSE b

Trouble == faults + writeFails + restarts + headEvents < MaxTrouble
Fault == Trouble /\ faults < MaxFaults /\ faults' = faults + 1
WriteFails == Trouble /\ writeFails < MaxWriteFails /\ writeFails' = writeFails + 1
HeadEvent == Trouble /\ headEvents < MaxHeadEvents /\ headEvents' = headEvents + 1

Init ==
    /\ role = [m \in Members |-> FALSE]
    /\ loop = [m \in Members |-> "top"]
    /\ seq = [m \in Members |-> 0] /\ numbered = [m \in Members |-> FALSE]
    /\ store = [m \in Members |-> <<>>]
    /\ drain = [m \in Members |-> "idle"]
    /\ batch = [m \in Members |-> <<>>] /\ tries = [m \in Members |-> 0]
    /\ told = [m \in Members |-> FALSE]
    /\ isHead = TRUE /\ uav = "none"
    /\ inbox = <<>> /\ table = EmptyTable /\ log = <<>>
    /\ written = <<>> /\ wiped = {} /\ again = FALSE
    /\ faults = 0 /\ writeFails = 0 /\ restarts = 0 /\ headEvents = 0

unchangedBySampling == <<role, told, drain, batch, tries, headVars, again, faults, restarts, headEvents>>
unchangedByDrain == <<role, told, loop, seq, numbered, written, restarts, headEvents>>
unchangedByHead == <<memberVars, told, storeHistory, faults, restarts>>

----------------------------------------------------------------------------
(* write_mslg_chunk (storage_manager.c) *)

Full(m) == Len(store[m]) >= PurgeAt

\* storage_manager_purge_if_full wipes all that is stored, and the write goes on.
Spared(m) == IF Full(m) THEN <<>> ELSE store[m]
Purged(m) == wiped' = IF Full(m) THEN wiped \union {c.id : c \in Range(store[m])} ELSE wiped

Write(m, c) ==
    /\ store' = [store EXCEPT ![m] = Append(Spared(m), c)]
    /\ Purged(m) /\ UNCHANGED writeFails

\* The chunk is lost, in front of a purge, after one, or in spite of the second attempt's.
WriteLoses(m) ==
    /\ WriteFails
    /\ \/ UNCHANGED <<store, wiped>>
       \/ store' = [store EXCEPT ![m] = <<>>]
          /\ wiped' = wiped \union {c.id : c \in Range(store[m])}

----------------------------------------------------------------------------
(* app_main's loop (ms_node.c) *)

\* The counter restarts once, in the first loop that begins with an established role.
LoopTop(m) ==
    /\ loop[m] = "top" /\ seq[m] < MaxSeq /\ Len(written) < MaxRecords
    /\ LET first == role[m] /\ ~numbered[m] IN
          /\ seq' = [seq EXCEPT ![m] = IF first THEN 1 ELSE @ + 1]
          /\ numbered' = [numbered EXCEPT ![m] = @ \/ first]
    /\ loop' = [loop EXCEPT ![m] = "sampled"]
    /\ UNCHANGED <<store, written, wiped, writeFails, unchangedBySampling>>

\* The role is looked at again, seconds later, when the sensors have been read.  A
\* write that fails loses the record.
StoreSample(m) ==
    /\ loop[m] = "sampled"
    /\ loop' = [loop EXCEPT ![m] = "top"]
    /\ LET r == [node |-> m, id |-> Len(written) + 1, seq |-> seq[m], pad |-> 0] IN
          \/ role[m] /\ Write(m, r) /\ written' = Append(written, r)
          \/ role[m] /\ WriteLoses(m) /\ UNCHANGED written
          \/ ~role[m] /\ UNCHANGED <<store, written, wiped, writeFails>>
    /\ UNCHANGED <<seq, numbered, unchangedBySampling>>

----------------------------------------------------------------------------
(* The state machine task in its DATA slot (state_machine.c:1022) *)

\* can_send, which the drain does not look at; the slot and the phase are left out.
CanSend(m) == role[m] /\ ~told[m]

BatchSize(m) == Smaller(BatchMax, Len(store[m]))
\* What the pop leaves is copied to a second file before the first is deleted.
PopFits(m) == 2 * Len(store[m]) - BatchSize(m) <= Capacity \/ BatchSize(m) = Len(store[m])

PopReady(m) == role[m] /\ drain[m] = "idle" /\ store[m] # <<>> /\ PopFits(m)
TakeBatch(m) ==
    /\ batch' = [batch EXCEPT ![m] = SubSeq(store[m], 1, BatchSize(m))]
    /\ drain' = [drain EXCEPT ![m] = "sending"]
    /\ UNCHANGED <<tries, headVars, wiped, faults, unchangedByDrain>>

\* Mutant: the store keeps the batch until it has been sent, and nobody removes it.
PopCopies(m) == PopReady(m) /\ TakeBatch(m) /\ UNCHANGED <<store, again, writeFails>>
\* The batch leaves the store before any of it is sent.  A pop that finds no room, or that
\* fails and knows it, changes nothing and is tried again in the next loop.
Pop(m) ==
    /\ PopReady(m)
    /\ store' = [store EXCEPT ![m] = SubSeq(@, BatchSize(m) + 1, Len(@))]
    /\ TakeBatch(m)
    /\ UNCHANGED <<again, writeFails>>

\* The pop hands out the batch and does not see that a call has failed: the file is still
\* there, or what replaces it ends too soon.
PopFailsUnseen(m) ==
    /\ PopReady(m) /\ WriteFails
    /\ \/ again' = TRUE /\ UNCHANGED store
       \/ \E k \in BatchSize(m)..Len(store[m]) :
             store' = [store EXCEPT ![m] = SubSeq(@, BatchSize(m) + 1, k)] /\ UNCHANGED again
    /\ TakeBatch(m)

\* ESP-NOW is initialised at the head, whose MAC acknowledges what it hears.
radio == uav # "off"
Frame(m) == Head(batch[m])
Fits(m) == Frame(m).pad <= FrameLimit
Arrives(m) == radio /\ Fits(m) /\ inbox' = Append(inbox, Frame(m))

\* The callback reported success: the chunk is freed.
SendAcked(m) ==
    /\ drain[m] = "sending"
    /\ Arrives(m)
    /\ batch' = [batch EXCEPT ![m] = Tail(@)]
    /\ tries' = [tries EXCEPT ![m] = 0]
    /\ drain' = [drain EXCEPT ![m] = IF Len(batch[m]) = 1 THEN "idle" ELSE @]
    /\ UNCHANGED <<store, isHead, uav, table, log, faults, writeFails, wiped, again, unchangedByDrain>>

\* Mutant: the chunk that could not be sent is freed, the rest is put back.
TriedDropsFirst(m) ==
    IF tries[m] + 1 < Attempts
    THEN tries' = [tries EXCEPT ![m] = @ + 1] /\ UNCHANGED <<drain, batch>>
    ELSE /\ tries' = [tries EXCEPT ![m] = 0]
         /\ batch' = [batch EXCEPT ![m] = Tail(@)]
         /\ drain' = [drain EXCEPT ![m] = IF Len(batch[m]) = 1 THEN "idle" ELSE "requeueing"]
\* One more attempt made in vain; after the last the batch is put back.
Tried(m) ==
    IF tries[m] + 1 < Attempts
    THEN tries' = [tries EXCEPT ![m] = @ + 1] /\ UNCHANGED <<drain, batch>>
    ELSE /\ tries' = [tries EXCEPT ![m] = 0]
         /\ drain' = [drain EXCEPT ![m] = "requeueing"]
         /\ UNCHANGED batch

\* The frame arrived and its acknowledgement, or the callback, did not.
SendUnacked(m) ==
    /\ drain[m] = "sending"
    /\ Fault
    /\ Arrives(m)
    /\ Tried(m)
    /\ UNCHANGED <<store, isHead, uav, table, log, writeFails, wiped, again, unchangedByDrain>>

\* The frame was lost on the air, or there was nobody to hear it, or esp_now_send
\* refuses it because it is too long.
SendLost(m) ==
    /\ drain[m] = "sending"
    /\ IF radio /\ Fits(m) THEN Fault ELSE UNCHANGED faults
    /\ Tried(m)
    /\ UNCHANGED <<store, headVars, writeFails, wiped, again, unchangedByDrain>>

\* 500 ms before the slot ends the rest of the batch is put back.
Cutoff(m) ==
    /\ drain[m] = "sending" /\ tries[m] = 0
    /\ Fault
    /\ drain' = [drain EXCEPT ![m] = "requeueing"]
    /\ UNCHANGED <<store, batch, tries, headVars, writeFails, wiped, again, unchangedByDrain>>

\* The chunk written again: strlen runs over the end of the malloc'd payload to the
\* next zero byte, which may be the next byte or not.
Requeued(c) == {[c EXCEPT !.pad = p] : p \in {c.pad, Smaller(c.pad + 1, FrameLimit + 1)}}

PutBackFirst(m) ==
    /\ drain[m] = "requeueing" /\ batch[m] # <<>>
    /\ (\E c \in Requeued(Frame(m)) : Write(m, c)) \/ WriteLoses(m)
    /\ batch' = [batch EXCEPT ![m] = Tail(@)]
    /\ UNCHANGED <<tries, headVars, again, faults, unchangedByDrain>>

\* Mutant: after the last chunk the task goes on requeueing.
RequeueStays(m) == PutBackFirst(m) /\ UNCHANGED drain
\* One chunk goes to the end of the store; a write that fails loses it, and one that finds
\* the partition nearly full wipes what is there.
Requeue(m) ==
    /\ PutBackFirst(m)
    /\ drain' = [drain EXCEPT ![m] = IF Len(batch[m]) = 1 THEN "idle" ELSE @]

----------------------------------------------------------------------------
(* The member's role and its resets *)

\* DISCOVER or CANDIDATE ends with a cluster head found.
BecomeMember(m) ==
    /\ ~role[m]
    /\ role' = [role EXCEPT ![m] = TRUE]
    /\ UNCHANGED <<loop, seq, numbered, store, drain, batch, tries, told, headVars, storeHistory, boundVars>>

\* The head is lost or re-elected: STATE_CANDIDATE, where nothing is stored.
LeaveCluster(m) ==
    /\ role[m] /\ drain[m] = "idle"
    /\ HeadEvent
    /\ role' = [role EXCEPT ![m] = FALSE]
    /\ UNCHANGED <<loop, seq, numbered, store, drain, batch, tries, told, headVars, storeHistory,
                   faults, writeFails, restarts>>

\* A reset or the deep sleep of a nearly empty battery (ms_node.c:677): what is in RAM
\* is lost, the popped batch with it.
Restart(m) ==
    /\ Trouble /\ restarts < MaxRestarts /\ restarts' = restarts + 1
    /\ role' = [role EXCEPT ![m] = FALSE] /\ loop' = [loop EXCEPT ![m] = "top"]
    /\ seq' = [seq EXCEPT ![m] = 0] /\ numbered' = [numbered EXCEPT ![m] = FALSE]
    /\ drain' = [drain EXCEPT ![m] = "idle"]
    /\ batch' = [batch EXCEPT ![m] = <<>>] /\ tries' = [tries EXCEPT ![m] = 0]
    /\ told' = [told EXCEPT ![m] = FALSE]
    /\ UNCHANGED <<store, headVars, storeHistory, faults, writeFails, headEvents>>

\* esp_now_manager_is_ch_busy takes a status of more than 60 s for over.
Forgets(m) ==
    /\ told[m]
    /\ told' = [told EXCEPT ![m] = FALSE]
    /\ UNCHANGED <<memberVars, headVars, storeHistory, boundVars>>

----------------------------------------------------------------------------
(* The cluster head *)

\* process_packet, the JSON branch: the filter learns of the frame first, then the
\* role is looked at, and the write's result is not.
Process ==
    /\ inbox # <<>>
    /\ LET f == Head(inbox)
           new == ShouldStore(table, f.node, f.seq)
       IN  /\ table' = After(table, f.node, f.seq, 0)
           /\ \/ new /\ isHead /\ log' = Append(log, f) /\ UNCHANGED writeFails
              \/ new /\ isHead /\ WriteFails /\ UNCHANGED log
              \/ ~(new /\ isHead) /\ UNCHANGED <<log, writeFails>>
    /\ inbox' = Tail(inbox)
    /\ UNCHANGED <<isHead, uav, headEvents, unchangedByHead>>

\* There is no memory for a copy of the frame, and nobody but its sender's MAC has had it.
ProcessFails ==
    /\ inbox # <<>> /\ HeadEvent
    /\ inbox' = Tail(inbox)
    /\ UNCHANGED <<isHead, uav, table, log, writeFails, unchangedByHead>>

\* It yields to another head while members still send to it, and is elected again.
LoseRole ==
    /\ isHead /\ HeadEvent
    /\ isHead' = FALSE
    /\ UNCHANGED <<uav, inbox, table, log, writeFails, unchangedByHead>>
RegainRole ==
    /\ ~isHead /\ uav = "none"
    /\ isHead' = TRUE
    /\ UNCHANGED <<uav, inbox, table, log, writeFails, headEvents, unchangedByHead>>

\* esp_now_manager_broadcast_ch_status: three frames, of which a member hears one or none.
Heeded(hearers, busy) == [m \in Members |-> IF m \in hearers THEN busy ELSE told[m]]
Says(busy) == \E hearers \in SUBSET Members : told' = Heeded(hearers, busy)

\* UAV onboarding.  The state change clears g_is_ch while ESP-NOW still receives; then
\* ESP-NOW goes away, with the frames not yet processed, and comes back with an empty
\* table, before STATE_CH sets g_is_ch again.
Trigger ==
    /\ isHead /\ HeadEvent
    /\ isHead' = FALSE /\ uav' = "busy"
    /\ Says(TRUE)
    /\ UNCHANGED <<inbox, table, log, writeFails, memberVars, storeHistory, faults, restarts>>
Deinit ==
    /\ uav = "busy"
    /\ uav' = "off" /\ inbox' = <<>>
    /\ UNCHANGED <<isHead, table, log, writeFails, headEvents, unchangedByHead>>
Reinit ==
    /\ uav = "off"
    /\ uav' = "back" /\ table' = EmptyTable
    /\ UNCHANGED <<isHead, inbox, log, writeFails, headEvents, unchangedByHead>>
Resume ==
    /\ uav = "back"
    /\ uav' = "none" /\ isHead' = TRUE
    /\ Says(FALSE)
    /\ UNCHANGED <<inbox, table, log, memberVars, storeHistory, boundVars>>
Onboarding == Deinit \/ Reinit \/ Resume

HeadRestart ==
    /\ HeadEvent
    /\ isHead' = FALSE /\ uav' = "none" /\ inbox' = <<>> /\ table' = EmptyTable
    /\ UNCHANGED <<log, writeFails, unchangedByHead>>

Sampling(m) == LoopTop(m) \/ StoreSample(m)
Drain(m) == Pop(m) \/ PopFailsUnseen(m) \/ SendAcked(m) \/ SendUnacked(m) \/ SendLost(m) \/ Requeue(m)

Next ==
    \/ \E m \in Members : \/ Sampling(m) \/ Drain(m) \/ Cutoff(m)
                          \/ BecomeMember(m) \/ LeaveCluster(m) \/ Restart(m)
                          \/ Forgets(m)
    \/ Process \/ ProcessFails \/ LoseRole \/ RegainRole \/ Trigger \/ Onboarding \/ HeadRestart

Spec == Init /\ [][Next]_vars

\* The tasks run: at a member app_main and the state machine task, at the head the Wi-Fi
\* task and the state machine task.  A cluster finds a head; an onboarding ends (its waits
\* have timeouts).  Losses, cut-off slots and resets owe nothing.
Fairness ==
    /\ \A m \in Members : WF_vars(Sampling(m)) /\ WF_vars(Drain(m) \/ BecomeMember(m))
    /\ WF_vars(Process) /\ WF_vars(RegainRole \/ Onboarding)

FairSpec == Spec /\ Fairness

----------------------------------------------------------------------------
(* Properties *)

TypeOK ==
    /\ role \in [Members -> BOOLEAN] /\ loop \in [Members -> {"top", "sampled"}]
    /\ seq \in [Members -> Nat] /\ numbered \in [Members -> BOOLEAN]
    /\ store \in [Members -> Seq(Chunk)] /\ batch \in [Members -> Seq(Chunk)]
    /\ drain \in [Members -> {"idle", "sending", "requeueing"}]
    /\ tries \in [Members -> 0..(Attempts - 1)] /\ told \in [Members -> BOOLEAN]
    /\ \A m \in Members : drain[m] = "idle" <=> batch[m] = <<>>
    /\ isHead \in BOOLEAN /\ uav \in {"none", "busy", "off", "back"}
    /\ inbox \in Seq(Chunk) /\ log \in Seq(Chunk) /\ written \in Seq(Chunk)
    /\ Len(table) <= MaxNodes
    /\ wiped \subseteq Nat /\ again \in BOOLEAN

\* What the drain's order of pop, send and requeue cannot make good: a failing call of a
\* store, a reset, and at the head a change of role, an onboarding or a frame for which
\* there is no memory.
Excused == writeFails + restarts + headEvents > 0

HeldBy(m) == Range(store[m] \o batch[m])
AtHead == Range(inbox \o log)
\* The head has the record, or took another of the same number for it.
Arrived(r) == \E c \in AtHead : SameNumber(c, r)

\* Whatever frames and acknowledgements are lost and whenever the slot ends, a record that
\* was written is still in its member's hands or has arrived, or it was in the store when
\* the store was found nearly full and was wiped (state_machine.c:1022-1139,
\* storage_manager.c:109-150, esp_now_manager.c:720).
Lossless ==
    Excused \/ \A i \in 1..Len(written) :
                  LET r == written[i]
                  IN  Arrived(r) \/ i \in wiped \/ \E c \in HeldBy(r.node) : Same(c, r)

\* Popping, putting back, purging and sampling between them never give the member two copies
\* of a record, through its resets and failing writes too, unless the file system could not
\* delete what a pop had handed out.
HeldOnce ==
    ~again =>
        \A m \in Members :
            LET held == store[m] \o batch[m]
            IN  \A i, j \in 1..Len(held) : Same(held[i], held[j]) => i = j

\* Copies of one record in the head's store have at least History other records of
\* that node between them, unless the head's filter was emptied or a write failed, and
\* while the filter has room for all senders (esp_now_manager.c:30-105).
DuplicatesAreFarApart ==
    headEvents = 0 /\ writeFails = 0 =>
        \A i, j \in 1..Len(log) :
            i < j /\ Same(log[i], log[j]) =>
                Cardinality({k \in (i + 1)..(j - 1) : log[k].node = log[i].node}) >= History

\* Again and again every record written so far has arrived, once frames are no longer lost,
\* unless something lost it, a payload has outgrown the frame and holds up its member's
\* drain, or the store has grown so that the pop finds no room for its copy: then it stays
\* until writing goes on and a purge wipes it.
Outgrown(i) == \E c \in HeldBy(written[i].node) : c.pad > FrameLimit
InLog(i) == \E c \in Range(log) : SameNumber(c, written[i])
NoRoom(i) == ~PopFits(written[i].node)
Settled == \A i \in 1..Len(written) : InLog(i) \/ Outgrown(i) \/ i \in wiped \/ NoRoom(i)
WrittenArrives == []<>(Excused \/ Settled)

----------------------------------------------------------------------------
(* Statements of comments and documents that the code does not keep *)

\* "Members should NOT send data when CH is offloading to UAV ... better to buffer locally"
\* (state_machine.c:918-921): a member that knows of it pops nothing to send.
HoldsWhileBusy ==
    [][\A m \in Members : drain[m] = "idle" /\ drain'[m] # "idle" => CanSend(m)]_vars

\* "so every stored record has a unique monotonically increasing sequence number"
\* (ms_node.c:304), in one boot.
NumbersAreUnique ==
    restarts = 0 =>
        \A i, j \in 1..Len(written) : SameNumber(written[i], written[j]) => i = j

\* "Prevents writing the same (node_id, seq) to storage repeatedly"
\* (esp_now_manager.c:26), while the filter is not emptied.
StoredOnce ==
    headEvents = 0 => \A i, j \in 1..Len(log) : Same(log[i], log[j]) => i = j
=============================================================================
