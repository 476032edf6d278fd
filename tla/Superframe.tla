----------------------------- MODULE Superframe -----------------------------
(***************************************************************************)
(* The superframe a cluster shares: every node alternates a STELLAR phase  *)
(* (BLE) and a DATA phase (ESP-NOW) by its own clock, and the cluster      *)
(* head's schedules move the members' clocks and open their slots          *)
(* (state_machine.c, esp_now_manager.c).  The radio of the phases is Ble's.*)
(*                                                                         *)
(* Time advances in ticks for all nodes together.  A node's clock is the   *)
(* time since its s_phase_start_ms; boot-relative times never meet, so     *)
(* only such differences are kept.  Every loop of state_machine_run that   *)
(* is not blocked in a send runs in every tick (it runs each 100 ms).  A   *)
(* member's Wi-Fi task may move its clock between two of its steps.  The   *)
(* head's neighbors are the members, in any order of compare_priority.     *)
(***************************************************************************)
EXTENDS Naturals, Sequences, FiniteSets, Functions

CONSTANTS
    CH,        \* the cluster head
    Members,   \* its neighbors
    Stellar,   \* STELLAR_PHASE_MS, like all that follow in ticks
    Data,      \* DATA_PHASE_MS
    Guard,     \* PHASE_GUARD_MS
    Resend,    \* time between two schedules of one DATA phase
    MinSlot,   \* the shortest slot
    Validity,  \* how long after its epoch a schedule counts
    SendTicks, \* the time an unacknowledged schedule may take
    Slack,     \* the 500 ms by which a clock may be off without being moved
    Margin,    \* the 500 ms before a slot's end in which no chunk is begun
    ChunkTicks \* the time one chunk may take with its retries

ASSUME SuperframeAssumption ==
    /\ IsFiniteSet(Members) /\ Members # {} /\ CH \notin Members
    /\ {Stellar, Data, Resend, MinSlot, Validity} \subseteq Nat \ {0}
    /\ {Guard, SendTicks, Slack, Margin, ChunkTicks} \subseteq Nat
    /\ Guard + MinSlot <= Data /\ Data <= Validity
    /\ Slack < Stellar /\ Slack < Guard /\ Slack < MinSlot /\ Slack + ChunkTicks <= Guard + Margin

Nodes == Members \cup {CH}
Frame == Stellar + Data

VARIABLES
    due,     \* nodes whose loop has not yet run in this tick
    clock,   \* now - s_phase_start_ms
    phase,   \* s_current_phase
    ending,  \* members whose loop found the frame over and has not yet started the next
    sent,    \* s_schedule_sends_this_phase > 0
    since,   \* the time since s_last_schedule_send_ms, up to Resend
    round,   \* what is left of the schedules being sent
    backup,  \* the first of them was not acknowledged
    wait,    \* how long the head's task is still blocked in a send
    sched,   \* g_current_schedule of each member
    drain,   \* how long its task may still be sending chunks
    heard,   \* history: members that got a schedule since the head entered DATA
    undone   \* history: members whose last schedule moved the clock in vain

headVars == <<sent, since, round, backup, wait>>
history == <<heard, undone>>
vars == <<due, clock, phase, ending, headVars, sched, drain, history>>

----------------------------------------------------------------------------
(* Slots.                                                                   *)

Available == Data - Guard
EvenSlot == Available \div Cardinality(Members)

\* Too many members for slots of MinSlot: the last ones get none.
Scheduled ==
    IF EvenSlot < MinSlot THEN Available \div MinSlot ELSE Cardinality(Members)

SlotLen == Available \div Scheduled

NoSchedule == [slot |-> 0, age |-> Validity]

\* The member makes the schedule's epoch the time of receipt less the slots before its own.
Localised(i) == [slot |-> i, age |-> i * SlotLen]

SlotAge(s) == s.age - s.slot * SlotLen
BeforeSlotEnd(s) == s.age < (s.slot + 1) * SlotLen
InSlot(m) ==
    /\ sched[m].age < Validity
    /\ sched[m].age >= sched[m].slot * SlotLen
    /\ BeforeSlotEnd(sched[m])

----------------------------------------------------------------------------
(* Clocks.                                                                  *)

\* Mutants: a schedule moves only the clocks that are still in STELLAR; no schedule moves
\* a clock.
SyncedInStellar(c) == IF c < Stellar THEN Stellar ELSE c
NotSynced(c) == c

\* state_machine_update_phase
Wrapped(c) == IF c >= Frame THEN 0 ELSE c
PhaseAt(c) == IF c < Stellar THEN "stellar" ELSE "data"

\* state_machine_sync_phase_from_epoch: the clock is set to the start of DATA, unless it is
\* near it.
Synced(c) == IF c \in Stellar - Slack..Stellar + Slack THEN c ELSE Stellar

\* The head starts a frame; the members were switched on at any other times.
Init ==
    /\ due = {}
    /\ clock \in [Nodes -> 0..Frame - 1] /\ clock[CH] = 0
    /\ phase = [n \in Nodes |-> PhaseAt(clock[n])]
    /\ ending = {}
    /\ sent = FALSE /\ since = Resend
    /\ round = <<>> /\ backup = FALSE /\ wait = 0
    /\ sched = [m \in Members |-> NoSchedule]
    /\ drain = [m \in Members |-> 0]
    /\ heard = {} /\ undone = {}

Less(k) == IF k > 0 THEN k - 1 ELSE 0
More(k, most) == IF k < most THEN k + 1 ELSE most

\* A tick of every clock, once the loops that can run have run.
Tick ==
    /\ due = {}
    /\ round = <<>> \/ wait > 0
    /\ clock' = [n \in Nodes |-> clock[n] + 1]
    /\ since' = More(since, Resend)
    /\ wait' = Less(wait)
    /\ sched' = [m \in Members |-> [sched[m] EXCEPT !.age = More(@, Validity)]]
    /\ drain' = [m \in Members |-> Less(drain[m])]
    /\ due' = {m \in Members : drain'[m] = 0} \cup (IF round = <<>> THEN {CH} ELSE {})
    /\ UNCHANGED <<phase, ending, sent, round, backup, history>>

----------------------------------------------------------------------------
(* The head.                                                                *)

\* The neighbors sorted by compare_priority, those beyond Scheduled left out.
Orders == {o \in [1..Scheduled -> Members] : IsInjective(o)}

\* Mutant: rounds of schedules go on without regard to the phase.
RoundsInStellar(c) == TRUE

\* Schedules are only sent in DATA.
MaySchedule(c) == PhaseAt(c) = "data"

\* Mutant: a round needs an earlier one to count from.
NoFirstRound(entered) == ~entered /\ sent /\ since >= Resend

ScheduleDue(entered) == entered \/ ~sent \/ since >= Resend

\* state_machine_run in STATE_CH: the phase and the start of a round of schedules.
HeadLoop ==
    LET c == Wrapped(clock[CH])
        entered == PhaseAt(c) # phase[CH]
    IN  /\ CH \in due /\ round = <<>>
        /\ due' = due \ {CH}
        /\ clock' = [clock EXCEPT ![CH] = c]
        /\ phase' = [phase EXCEPT ![CH] = PhaseAt(c)]
        /\ heard' = IF entered /\ PhaseAt(c) = "data" THEN {} ELSE heard
        /\ IF MaySchedule(c) /\ ScheduleDue(entered)
           THEN round' \in Orders /\ sent' = TRUE /\ since' = 0
           ELSE UNCHANGED <<sent, since, round>>
        /\ UNCHANGED <<ending, backup, wait, sched, drain, undone>>

Slot == Scheduled - Len(round)

\* process_packet at the member the schedule is for, on its Wi-Fi task; the member's loop
\* may be about to start a frame.
Receive(m) ==
    /\ sched' = [sched EXCEPT ![m] = Localised(Slot)]
    /\ clock' = [clock EXCEPT ![m] = Synced(@)]
    /\ heard' = heard \cup {m}
    /\ undone' = undone \ {m}

Lost == UNCHANGED <<sched, clock, history>>

\* The schedule arrives and is acknowledged.
UnicastAcked(m) ==
    /\ round # <<>> /\ ~backup /\ wait = 0 /\ round[1] = m
    /\ Receive(m)
    /\ round' = Tail(round)
    /\ UNCHANGED <<due, phase, ending, sent, since, backup, wait, drain>>

\* No attempt is acknowledged, though one may have arrived.
UnicastFails(m) ==
    /\ round # <<>> /\ ~backup /\ wait = 0 /\ round[1] = m
    /\ Receive(m) \/ Lost
    /\ backup' = TRUE
    /\ wait' \in 0..SendTicks
    /\ UNCHANGED <<due, phase, ending, sent, since, round, drain>>

\* The broadcast that follows a failed unicast.
Broadcast(m) ==
    /\ backup /\ wait = 0 /\ round[1] = m
    /\ Receive(m) \/ Lost
    /\ backup' = FALSE
    /\ round' = Tail(round)
    /\ UNCHANGED <<due, phase, ending, sent, since, wait, drain>>

----------------------------------------------------------------------------
(* A member.                                                                *)

\* state_machine_update_phase finds the frame over, before it writes s_phase_start_ms.
FrameEnds(m) ==
    /\ m \in due \ ending /\ clock[m] >= Frame
    /\ ending' = ending \cup {m}
    /\ UNCHANGED <<due, clock, phase, headVars, sched, drain, history>>

\* The time for which a drain that starts now may still be sending: its last chunk is begun
\* before the margin and may take all its retries.
DrainTime(m) ==
    LET left == SlotLen - SlotAge(sched[m])
    IN  IF left > Margin THEN left - Margin + ChunkTicks ELSE 0

\* state_machine_run in STATE_MEMBER: the phase, the start of a frame written over whatever
\* a schedule has put there since, and in its slot a drain.
MemberLoop(m) ==
    LET c == IF m \in ending THEN 0 ELSE clock[m]
    IN  /\ m \in due /\ (m \in ending \/ clock[m] < Frame)
        /\ due' = due \ {m}
        /\ ending' = ending \ {m}
        /\ clock' = [clock EXCEPT ![m] = c]
        /\ phase' = [phase EXCEPT ![m] = PhaseAt(c)]
        /\ undone' = IF m \in ending /\ clock[m] < Frame THEN undone \cup {m} ELSE undone
        /\ drain' \in IF PhaseAt(c) = "data" /\ InSlot(m)
                      THEN {[drain EXCEPT ![m] = d] : d \in 0..DrainTime(m)}
                      ELSE {drain}
        /\ UNCHANGED <<headVars, sched, heard>>

----------------------------------------------------------------------------

Serve(m) == UnicastAcked(m) \/ UnicastFails(m) \/ Broadcast(m)

Next ==
    \/ Tick
    \/ HeadLoop
    \/ \E m \in Members : Serve(m) \/ FrameEnds(m) \/ MemberLoop(m)

Spec == Init /\ [][Next]_vars

\* Time passes, the tasks run, and a schedule that is sent again and again arrives, is
\* acknowledged and does not always meet the instant in which its member's frame ends.
FairSpec ==
    /\ Spec
    /\ WF_vars(Tick) /\ WF_vars(HeadLoop)
    /\ \A m \in Members :
        /\ WF_vars(Serve(m)) /\ WF_vars(FrameEnds(m)) /\ WF_vars(MemberLoop(m))
        /\ SF_vars(m \notin ending /\ UnicastAcked(m))

----------------------------------------------------------------------------
(* Properties.                                                              *)

\* The head's loop can be late by a whole round of failing sends.
Longest == Scheduled * SendTicks

\* The longest drain.
LongestDrain == SlotLen + ChunkTicks

\* Every variable holds a value of its type, and no clock runs past its frame by more
\* than its task can be blocked (state_machine_update_phase).
TypeOK ==
    /\ due \subseteq Nodes
    /\ clock \in [Nodes -> 0..Frame + Longest]
    /\ phase \in [Nodes -> {"stellar", "data"}]
    /\ ending \subseteq Members
    /\ sent \in BOOLEAN /\ since \in 0..Resend
    /\ round \in Seq(Members) /\ Len(round) <= Scheduled
    /\ backup \in BOOLEAN /\ wait \in 0..SendTicks
    /\ sched \in [Members -> [slot : 0..Scheduled - 1, age : 0..Validity]]
    /\ drain \in [Members -> 0..LongestDrain]
    /\ heard \subseteq Members /\ undone \subseteq Members

\* Between the head's entry into DATA and the last 500 ms of the phase, a member that heard
\* any of its schedules is in DATA too, give or take the 500 ms a clock may be off, whatever
\* its clock was and however late the schedule came.  The exception is a schedule that
\* came in the instant in which the member's own frame ended: the new frame is written
\* over it, and the member waits for the next schedule (state_machine.c:109-166).
StaysForTheHead ==
    \A m \in heard \ undone :
        phase[CH] = "data" /\ clock[CH] + Slack < Frame =>
            clock[m] \in Stellar - Slack..Frame - 1

\* A member stops sending before its own DATA phase ends: though the last chunk of a drain
\* may outlast the slot by its retries, and a schedule may have moved the clock and replaced
\* the slot during the drain, the guard makes up for it (state_machine.c:1015-1090).
DrainInOwnData ==
    \A m \in Members : drain[m] > 0 => clock[m] \in Stellar..Frame - 1

\* A slot given late in DATA reaches into the head's next STELLAR phase, but by less
\* than its own length, and its drain by less than one chunk more
\* (state_machine.c:575-606, 1042).
SpillBounded ==
    \A m \in Members : phase[CH] = "stellar" =>
        /\ InSlot(m) => clock[CH] < SlotLen
        /\ drain[m] > 0 => clock[CH] < LongestDrain

\* However the nodes' clocks were apart at the start, every member is again and again
\* in its slot and in DATA, where it can drain (state_machine.c:566-574).
EverySlotComes == \A m \in Members : []<>(phase[m] = "data" /\ InSlot(m))

\* No two members are in their slots at the same time (docs/TDMA_SCHEDULING.md:908).
SlotsDisjoint == \A m, k \in Members : m # k => ~(InSlot(m) /\ InSlot(k))
=============================================================================
