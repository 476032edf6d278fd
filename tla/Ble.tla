-------------------------------- MODULE Ble --------------------------------
(***************************************************************************)
(* A node's BLE advertising and scanning (ble_manager.c), as the state     *)
(* machine task and the NimBLE host task drive them at the same time.      *)
(*                                                                         *)
(* The state machine task works off the calls of one loop, each step by    *)
(* step: it reads a flag, calls the host, writes the flag.  In between the *)
(* host task handles GAP events.  What the state machine is in is chosen   *)
(* at every loop; Cluster says when that happens.                          *)
(***************************************************************************)
EXTENDS Naturals, Sequences

CONSTANTS
    MaxEvents,   \* bound: ends of an advertising that wait at once
    MaxFaults    \* bound: resets of the host, calls of it that fail

ASSUME BleAssumption == MaxEvents \in Nat \ {0} /\ MaxFaults \in Nat

VARIABLES
    phase,   \* the superframe's phase; "GUARD" is the end of STELLAR, see BLE_PRE_GUARD_MS
    role,    \* "CH", "MEMBER", or "OTHER": DISCOVER or CANDIDATE
    guard,   \* s_pre_guard_active
    started, \* member_ble_started
    settled, \* history: it has been head or member since DATA began, and flew no onboarding
    flag,    \* ble_ready, advertising, scanning and g_reload_adv_data
    packet,  \* g_adv_packet: is_ch
    fresh,   \* last_update_time is less than a second ago
    radio,   \* what the controller does: advertises, with which is_ch, and scans
    todo,    \* the calls left in this loop of the state machine task
    at,      \* the step of the first of them
    host,    \* the step of the host task
    events,  \* GAP events it has not handled
    answers, \* whether the host reports the end of an advertising that was stopped
    slipped, \* history: a call met an ADV_COMPLETE under way, or a stop failed
    faults   \* history: the faults so far

loop == <<phase, role, guard, started, settled>>
machine == <<todo, at>>
bleVars == <<loop, flag, packet, fresh, radio, machine, host, events, answers, slipped, faults>>

Phases == {"STELLAR", "GUARD", "DATA"}

Fault == faults < MaxFaults /\ faults' = faults + 1
NoFault == UNCHANGED faults

\* The state machine's next step, or its next call.
Goto(step) == at' = step /\ UNCHANGED todo
Done == at' = "call" /\ todo' = Tail(todo)
Doing(call, step) == todo # <<>> /\ Head(todo) = call /\ at = step

\* An ADV_COMPLETE that is not yet handled to its end.
UnderWay == host # "idle" \/ \E i \in DOMAIN events : events[i] = "adv"
Slips(bad) == slipped' = (slipped \/ UnderWay \/ bad)

\* ble_gap_adv_stop, and the event it may lead to.  The host task has the higher priority.
Silence ==
    /\ Len(events) < MaxEvents
    /\ radio' = [radio EXCEPT !.adv = FALSE]
    /\ events' = IF answers /\ radio.adv THEN Append(events, "adv") ELSE events

----------------------------------------------------------------------------
(* One loop of the state machine task: which calls it makes.                *)

\* Leaving and entering a phase (state_machine_run before its switch).
Border(old, new, r) ==
    CASE new = "DATA" /\ old # "DATA" -> IF r = "OTHER" THEN <<>> ELSE <<"stop">>
      [] new # "DATA" /\ old = "DATA" -> <<"start", "scan">>
      [] OTHER -> <<>>

\* The head flies an onboarding.
Onboards == <<"noscan", "stop", "quiet", "start">>

HeadBeacons(p) == IF p = "DATA" THEN <<>> ELSE <<"scan", "update">>
Flights(p) == {HeadBeacons(p) \o Onboards}
HeadCalls(p) ==
    {HeadBeacons(p)} \cup Flights(p) \cup IF p = "DATA" THEN {<<"send">>} ELSE {}

\* A member that has not started yet waits for the host.
MemberCalls(p) ==
    LET around == CASE p = "STELLAR" -> <<"scan">>
                    [] p = "GUARD" /\ ~guard -> <<"noscan", "stop">>
                    [] OTHER -> <<>>
        on == IF p = "DATA" \/ ~flag.ready THEN <<>>
              ELSE (IF started THEN <<>> ELSE <<"start">>) \o <<"update">>
    IN  {around \o on}

\* DISCOVER and CANDIDATE
OtherCalls == {IF flag.ready THEN <<"start", "scan", "update">> ELSE <<>>}

Follows(p) ==
    CASE p = "STELLAR" -> {"STELLAR", "GUARD", "DATA"}
      [] p = "GUARD" -> {"GUARD", "DATA"}
      [] p = "DATA" -> {"DATA", "STELLAR", "GUARD"}

Calls(p) ==
    CASE role = "CH" -> HeadCalls(p)
      [] role = "MEMBER" -> MemberCalls(p)
      [] role = "OTHER" -> OtherCalls

Loop ==
    /\ todo = <<>>
    /\ \E p \in Follows(phase) : \E calls \in Calls(p) :
          /\ phase' = p
          /\ todo' = Border(phase, p, role) \o calls
          /\ guard' = IF role # "MEMBER" \/ p = "DATA" THEN guard ELSE p = "GUARD"
          /\ started' = (started \/ (role = "MEMBER" /\ p # "DATA" /\ flag.ready))
          /\ settled' = /\ settled \/ (p = "DATA" /\ phase # "DATA")
                        /\ role # "OTHER" /\ calls \notin Flights(p)
    /\ UNCHANGED <<role, flag, packet, fresh, radio, at, host, events, answers, slipped, faults>>

\* transition_to_state at the end of a loop
Becomes(r) ==
    /\ todo = <<>> /\ role # r /\ <<role, r>> # <<"MEMBER", "CH">>
    /\ role' = r
    /\ started' = (started /\ r # "MEMBER") /\ guard' = (guard /\ r # "MEMBER")
    /\ UNCHANGED <<phase, settled, flag, packet, fresh, radio, machine, host, events, answers,
                   slipped, faults>>

----------------------------------------------------------------------------
(* The calls, step by step.                                                 *)

\* ble_manager_start_advertising: the radio starts with the data it has, then gets new data.
StartCall ==
    /\ Doing("start", "call")
    /\ \/ /\ ~flag.ready \/ flag.advertising \/ radio.adv
          /\ NoFault /\ Done /\ UNCHANGED <<radio, slipped>>
       \/ /\ flag.ready /\ ~flag.advertising /\ ~radio.adv
          /\ NoFault /\ Goto("mark") /\ radio' = [radio EXCEPT !.adv = TRUE] /\ Slips(FALSE)
       \/ flag.ready /\ ~flag.advertising /\ Fault /\ Done /\ UNCHANGED <<radio, slipped>>
    /\ UNCHANGED <<loop, flag, packet, fresh, host, events, answers>>

StartMark ==
    /\ Doing("start", "mark")
    /\ flag' = [flag EXCEPT !.advertising = TRUE]
    /\ at' = "call" /\ todo' = <<"update">> \o Tail(todo)
    /\ UNCHANGED <<loop, packet, fresh, radio, host, events, answers, slipped, faults>>

\* ble_manager_update_advertisement, up to the new packet
UpdateCall ==
    /\ Doing("update", "call")
    /\ IF ~flag.ready \/ fresh THEN Done /\ UNCHANGED <<packet, fresh>>
       ELSE Goto("test") /\ fresh' = TRUE /\ packet' = (role = "CH")
    /\ UNCHANGED <<loop, flag, radio, host, events, answers, slipped, faults>>

UpdateTest ==
    /\ Doing("update", "test")
    /\ IF flag.advertising THEN Goto("halt") /\ flag' = [flag EXCEPT !.reload = TRUE]
       ELSE Goto("config") /\ UNCHANGED flag
    /\ UNCHANGED <<loop, packet, fresh, radio, host, events, answers, slipped, faults>>

\* Mutant: an advertising that has stopped already is waited for, too.
HaltWaits ==
    /\ Doing("update", "halt")
    /\ NoFault /\ Done /\ Silence /\ Slips(FALSE)
    /\ UNCHANGED <<loop, flag, packet, fresh, host, answers>>

\* It waits for ADV_COMPLETE, or goes on by itself if the stop failed.
UpdateHalt ==
    /\ Doing("update", "halt")
    /\ \/ radio.adv /\ NoFault /\ Done /\ Silence /\ Slips(FALSE)
       \/ ~radio.adv /\ NoFault /\ Goto("recover") /\ Slips(FALSE) /\ UNCHANGED <<radio, events>>
       \/ radio.adv /\ Fault /\ Goto("recover") /\ Slips(TRUE) /\ UNCHANGED <<radio, events>>
    /\ UNCHANGED <<loop, flag, packet, fresh, host, answers>>

UpdateRecover ==
    /\ Doing("update", "recover") /\ Goto("config")
    /\ flag' = [flag EXCEPT !.reload = FALSE, !.advertising = FALSE]
    /\ UNCHANGED <<loop, packet, fresh, radio, host, events, answers, slipped, faults>>

\* configure_and_start_adv: new data, and a start that fails if the radio advertises.
Configured(marks, ends) ==
    \/ /\ flag.ready /\ NoFault
       /\ radio' = [radio EXCEPT !.adv = TRUE, !.says = packet]
       /\ IF radio.adv THEN ends ELSE marks
    \/ flag.ready /\ Fault /\ ends /\ radio' \in {radio, [radio EXCEPT !.says = packet]}
    \/ ~flag.ready /\ NoFault /\ ends /\ UNCHANGED radio

UpdateConfig ==
    /\ Doing("update", "config")
    /\ Configured(Goto("mark"), Done) /\ Slips(FALSE)
    /\ UNCHANGED <<loop, flag, packet, fresh, host, events, answers>>

UpdateMark ==
    /\ Doing("update", "mark") /\ Done
    /\ flag' = [flag EXCEPT !.advertising = TRUE]
    /\ UNCHANGED <<loop, packet, fresh, radio, host, events, answers, slipped, faults>>

\* ble_manager_stop_advertising; its flag is cleared whatever the host says.
StopCall ==
    /\ Doing("stop", "call")
    /\ \/ ~flag.advertising /\ NoFault /\ Done /\ Slips(FALSE) /\ UNCHANGED <<radio, events>>
       \/ flag.advertising /\ NoFault /\ Goto("clear") /\ Silence /\ Slips(FALSE)
       \/ flag.advertising /\ Fault /\ Goto("clear") /\ Slips(TRUE) /\ UNCHANGED <<radio, events>>
    /\ UNCHANGED <<loop, flag, packet, fresh, host, answers>>

StopClear ==
    /\ Doing("stop", "clear") /\ Done
    /\ flag' = [flag EXCEPT !.advertising = FALSE]
    /\ UNCHANGED <<loop, packet, fresh, radio, host, events, answers, slipped, faults>>

\* ble_manager_start_scanning
ScanCall ==
    /\ Doing("scan", "call")
    /\ \/ /\ ~flag.ready \/ flag.scanning \/ radio.scan
          /\ NoFault /\ Done /\ UNCHANGED radio
       \/ /\ flag.ready /\ ~flag.scanning /\ ~radio.scan
          /\ NoFault /\ Goto("mark") /\ radio' = [radio EXCEPT !.scan = TRUE]
       \/ flag.ready /\ ~flag.scanning /\ Fault /\ Done /\ UNCHANGED radio
    /\ UNCHANGED <<loop, flag, packet, fresh, host, events, answers, slipped>>

ScanMark ==
    /\ Doing("scan", "mark") /\ Done
    /\ flag' = [flag EXCEPT !.scanning = TRUE]
    /\ UNCHANGED <<loop, packet, fresh, radio, host, events, answers, slipped, faults>>

\* ble_manager_stop_scanning; its flag, too, is cleared whatever the host says.
NoScanCall ==
    /\ Doing("noscan", "call")
    /\ \/ ~flag.scanning /\ NoFault /\ Done /\ UNCHANGED <<radio, slipped>>
       \/ /\ flag.scanning /\ NoFault /\ Goto("clear")
          /\ radio' = [radio EXCEPT !.scan = FALSE] /\ UNCHANGED slipped
       \/ flag.scanning /\ Fault /\ Goto("clear") /\ Slips(TRUE) /\ UNCHANGED radio
    /\ UNCHANGED <<loop, flag, packet, fresh, host, events, answers>>

\* Mutant: the flag keeps what it was.
NoScanForgets ==
    /\ Doing("noscan", "clear") /\ Done
    /\ UNCHANGED <<loop, flag, packet, fresh, radio, host, events, answers, slipped, faults>>

NoScanClear ==
    /\ Doing("noscan", "clear") /\ Done
    /\ flag' = [flag EXCEPT !.scanning = FALSE]
    /\ UNCHANGED <<loop, packet, fresh, radio, host, events, answers, slipped, faults>>

\* esp_now_manager_send_data: it stops what the flags name, and starts it again afterwards.
If(was, call) == IF was THEN <<call>> ELSE <<>>

SendCall ==
    /\ Doing("send", "call")
    /\ at' = "call"
    /\ todo' = If(flag.scanning, "noscan") \o If(flag.advertising, "stop") \o <<"quiet">>
                \o If(flag.scanning, "scan") \o If(flag.advertising, "start") \o Tail(todo)
    /\ Slips(FALSE)
    /\ UNCHANGED <<loop, flag, packet, fresh, radio, host, events, answers, faults>>

\* The radio belongs to ESP-NOW or to the UAV.
Quiet ==
    /\ Doing("quiet", "call") /\ Done
    /\ UNCHANGED <<loop, flag, packet, fresh, radio, host, events, answers, slipped, faults>>

----------------------------------------------------------------------------
(* The host task.                                                           *)

\* ble_gap_event: ADV_COMPLETE and DISC_COMPLETE
Event ==
    /\ host = "idle" /\ events # <<>>
    /\ events' = Tail(events)
    /\ IF Head(events) = "adv"
       THEN host' = "check" /\ flag' = [flag EXCEPT !.advertising = FALSE]
       ELSE flag' = [flag EXCEPT !.scanning = FALSE] /\ UNCHANGED host
    /\ UNCHANGED <<loop, packet, fresh, radio, machine, answers, slipped, faults>>

\* Mutant: every end of an advertising starts it again.
AlwaysReloads ==
    /\ host = "check" /\ host' = "config"
    /\ flag' = [flag EXCEPT !.reload = FALSE]
    /\ UNCHANGED <<loop, packet, fresh, radio, machine, events, answers, slipped, faults>>

EventCheck ==
    /\ host = "check"
    /\ IF flag.reload THEN host' = "config" /\ flag' = [flag EXCEPT !.reload = FALSE]
       ELSE host' = "idle" /\ UNCHANGED flag
    /\ UNCHANGED <<loop, packet, fresh, radio, machine, events, answers, slipped, faults>>

EventConfig ==
    /\ host = "config"
    /\ Configured(host' = "mark", host' = "idle")
    /\ UNCHANGED <<loop, flag, packet, fresh, machine, events, answers, slipped>>

EventMark ==
    /\ host = "mark" /\ host' = "idle"
    /\ flag' = [flag EXCEPT !.advertising = TRUE]
    /\ UNCHANGED <<loop, packet, fresh, radio, machine, events, answers, slipped, faults>>

\* ble_on_reset: the host reports the end of what it did.
Reset ==
    /\ Fault /\ flag.ready /\ host = "idle"
    /\ flag' = [flag EXCEPT !.ready = FALSE]
    /\ radio' = [radio EXCEPT !.adv = FALSE, !.scan = FALSE]
    /\ events' = events \o If(radio.adv, "adv") \o If(radio.scan, "disc")
    /\ UNCHANGED <<loop, packet, fresh, machine, host, answers, slipped>>

\* ble_on_sync
Sync ==
    /\ ~flag.ready /\ host = "idle" /\ events = <<>>
    /\ flag' = [flag EXCEPT !.ready = TRUE]
    /\ UNCHANGED <<loop, packet, fresh, radio, machine, host, events, answers, slipped, faults>>

\* A second passes.
Second ==
    /\ fresh /\ fresh' = FALSE
    /\ UNCHANGED <<loop, flag, packet, radio, machine, host, events, answers, slipped, faults>>

----------------------------------------------------------------------------
BleInit ==
    /\ phase = "STELLAR" /\ role = "OTHER" /\ guard = FALSE /\ started = FALSE /\ settled = FALSE
    /\ flag = [ready |-> FALSE, advertising |-> FALSE, scanning |-> FALSE, reload |-> FALSE]
    /\ packet = FALSE /\ fresh = TRUE
    /\ radio = [adv |-> FALSE, says |-> FALSE, scan |-> FALSE]
    /\ todo = <<>> /\ at = "call" /\ host = "idle" /\ events = <<>>
    /\ answers \in BOOLEAN /\ slipped = FALSE /\ faults = 0

Update == UpdateCall \/ UpdateTest \/ UpdateHalt \/ UpdateRecover \/ UpdateConfig \/ UpdateMark

StateMachine ==
    \/ Loop \/ (\E r \in {"CH", "MEMBER", "OTHER"} : Becomes(r))
    \/ StartCall \/ StartMark \/ Update \/ StopCall \/ StopClear
    \/ ScanCall \/ ScanMark \/ NoScanCall \/ NoScanClear \/ SendCall \/ Quiet

HostTask == Event \/ EventCheck \/ EventConfig \/ EventMark

BleNext == StateMachine \/ HostTask \/ Reset \/ Sync \/ Second

\* Both tasks run, the clock goes on, and the host comes back after a reset.
BleSpec ==
    /\ BleInit /\ [][BleNext]_bleVars
    /\ WF_bleVars(StateMachine) /\ WF_bleVars(HostTask) /\ WF_bleVars(Sync) /\ WF_bleVars(Second)

----------------------------------------------------------------------------
(* Properties.                                                              *)

\* While ESP-NOW or the UAV have the radio it neither advertises nor scans, and in DATA, once the
\* calls of its first loop are made, a node that stays head or member does not advertise: unless
\* a call of the state machine met an ADV_COMPLETE that was still under way, or a stop failed
\* (state_machine.c:250-263, esp_now_manager.c:606-630).
SilentForEspNow ==
    ~slipped =>
        /\ Doing("quiet", "call") => ~radio.adv /\ ~radio.scan
        /\ phase = "DATA" /\ todo = <<>> /\ settled => ~radio.adv

\* In STELLAR, between onboardings and with the host in order, a beacon with the node's present
\* role comes on the air again and again, whether or not the host reports the ends of an
\* advertising it was told to stop, and whatever races and failed calls there were before.
BeaconsGoOn ==
    \A r \in {"CH", "MEMBER"} :
        <>[](phase = "STELLAR" /\ role = r /\ flag.ready /\ ~Doing("quiet", "call"))
        => []<>(radio.adv /\ radio.says = (r = "CH"))

\* A member goes on listening, whatever a reset left in its flag: the pre-guard of every frame
\* clears it.
MemberHears ==
    /\ []<>(phase = "STELLAR") /\ []<>(phase = "GUARD")
    /\ <>[](role = "MEMBER" /\ flag.ready)
    => []<>radio.scan
=============================================================================
