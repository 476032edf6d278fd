----------------------------- MODULE Onboarding -----------------------------
(***************************************************************************)
(* A UAV onboarding as the head, its RF receiver, its Wi-Fi events, its    *)
(* sampling task and the UAV's server live through it                      *)
(* (STATE_UAV_ONBOARDING of state_machine.c, rf_receiver.c, uav_client.c,  *)
(* the channel changes of esp_now_manager.c).  What the members are told   *)
(* is in Delivery, the order of the broadcasts in SendPath.                *)
(*                                                                         *)
(* The head runs the steps of the onboarding one by one (pc); RF frames,   *)
(* Wi-Fi events, samples and the server's answers come in between.  A      *)
(* record of the store is a number; what the store does to it is in        *)
(* MslgStore.  A double free ends in an abort or goes unnoticed; what a    *)
(* damaged heap does later is left out.                                    *)
(***************************************************************************)
EXTENDS RcSwitch

CONSTANTS
    UavCode,     \* RF_EXPECTED_CODE
    Captures,    \* pairs of a code and how often it is sent, as the receiver captures them
    MaxRetries,  \* WIFI_MAX_RETRIES
    MaxRecords,  \* bound: records sampled
    MaxFaults    \* bound: driver errors, failed allocations, crashes

ASSUME OnboardingAssumption ==
    /\ UavCode \in 1..2 ^ Bits - 1 /\ Captures \subseteq (0..2 ^ Bits - 1) \X (Nat \ {0})
    /\ {MaxRetries, MaxRecords, MaxFaults} \subseteq Nat

VARIABLES
    role,    \* g_current_state: "MEMBER", "CH" or "UAV"
    pc,      \* the step of the onboarding the head is at, "none" outside of one
    rf,      \* the RF receiver, see Receiver
    cause,   \* history: when the frame came that started the last onboarding
    wifi,    \* the Wi-Fi driver and what uav_client.c keeps of it, see Driver
    taken,   \* the sampling task has a record to store: it has seen a role that stores
    store,   \* records on flash
    batch,   \* what the upload has read of them
    server,  \* records the UAV's server has
    faults   \* history: the faults so far

vars == <<role, pc, rf, cause, wifi, taken, store, batch, server, faults>>

Steps == {"rf_off", "deinit", "start", "wait", "post", "read", "open", "write",
          "reply", "clear", "ack", "clean", "reinit", "drain", "arm", "back"}

\* The receiver is off, and its queue has not yet been drained for the way back.
Away == pc \notin {"none", "rf_off", "arm", "back"}

When == {"head", "member", "away"}

\* A frame: what was sent, and when it came.
Frame == [sent : Captures, when : When]

Receiver ==
    [ armed : BOOLEAN,     \* the RMT channel is receiving
      queue : Seq(Frame),  \* rx_queue
      enabled : BOOLEAN,   \* s_rf_enabled
      error : BOOLEAN,     \* rmt_callback_error
      starved : BOOLEAN ]  \* history: a malloc failed, and the channel was not armed again

Driver ==
    [ mode : {"espnow", "bare", "off", "sta"},  \* ESP-NOW; started without it; stopped; station
      link : {"no", "trying", "up", "stalled"}, \* to the access point; its peer takes no bytes
      handlers : BOOLEAN,                       \* s_wifi_handler_instance, s_ip_handler_instance
      retries : 0..MaxRetries,                  \* s_wifi_retry_count
      delayed : BOOLEAN,                        \* the handler is in its 500 ms before a retry
      bits : SUBSET {"ok", "fail"},             \* s_wifi_event_group
      events : Seq({"start", "lost", "ip"}) ]   \* the event loop's queue

Goto(step) == pc' = step
Fault == faults < MaxFaults /\ faults' = faults + 1
NoFault == UNCHANGED faults

unchangedUpload == <<taken, store, batch, server>>
Uninvolved == UNCHANGED <<role, rf, cause>>

----------------------------------------------------------------------------
(* RF receiver.                                                             *)

\* rmt_callback: the channel is done and waits to be armed again.
FrameArrives ==
    /\ rf.armed
    /\ \E c \in Captures :
          rf' = [rf EXCEPT !.armed = FALSE,
                           !.queue = Append(@, [sent |-> c,
                                                when |-> IF Away THEN "away"
                                                         ELSE IF role = "MEMBER" THEN "member"
                                                         ELSE "head"])]
    /\ UNCHANGED <<role, pc, cause, wifi, faults, unchangedUpload>>

Fresh == [armed |-> TRUE, queue |-> <<>>, enabled |-> TRUE, error |-> FALSE, starved |-> FALSE]

Idle == [mode |-> "espnow", link |-> "no", handlers |-> FALSE, retries |-> 0, delayed |-> FALSE,
         bits |-> {}, events |-> <<>>]

\* A reset: only the flash, and what the server has, stays.
Restarts ==
    /\ role' = "MEMBER" /\ Goto("none")
    /\ rf' = Fresh /\ wifi' = Idle /\ taken' = FALSE /\ batch' = {}
    /\ UNCHANGED <<cause, store, server>>

\* What the first queued event finds in raw_symbols: as many symbols as it counted, but those
\* of the frames received after it where these reach.
Buffered(q) ==
    LET over(b) == {j \in 1..Len(q) : q[j].sent[2] >= b}
    IN  Bursts([b \in 1..q[1].sent[2] |-> q[CHOOSE j \in over(b) : \A k \in over(b) : k <= j].sent[1]])

\* The rest of rf_receiver_check_trigger, with the code it has read: one that is not the
\* UAV's is freed twice.
ActsOn(code, whens) ==
    \/ /\ code = UavCode
       /\ role' = "UAV" /\ Goto("rf_off") /\ cause' \in whens
       /\ UNCHANGED <<wifi, unchangedUpload>>
    \/ /\ code # UavCode
       /\ UNCHANGED <<role, pc, cause, wifi, unchangedUpload>>

\* rf_receiver_check_trigger of a head, with a frame in the queue.  rmt_receive refuses a
\* channel that is receiving already, which counts as an error.
CheckTrigger ==
    LET popped == [rf EXCEPT !.queue = Tail(@)]
        code == Parse(Buffered(rf.queue))
        whens == {rf.queue[i].when : i \in 1..Len(rf.queue)}
    IN
    /\ role = "CH" /\ pc = "none"
    /\ rf.enabled /\ ~rf.error /\ rf.queue # <<>>
    /\ \/ /\ Fault /\ rf' = [popped EXCEPT !.starved = TRUE]
          /\ UNCHANGED <<role, pc, cause, wifi, unchangedUpload>>
       \/ /\ IF rf.armed THEN NoFault ELSE Fault
          /\ rf' = [popped EXCEPT !.error = TRUE]
          /\ UNCHANGED <<role, pc, cause, wifi, unchangedUpload>>
       \/ /\ ~rf.armed /\ NoFault
          /\ rf' = [popped EXCEPT !.armed = TRUE]
          /\ ActsOn(code, whens)
       \/ /\ ~rf.armed /\ NoFault
          /\ code \notin {0, UavCode} /\ Restarts

\* The same while the channel is receiving and the frame ends between the copy and the
\* re-arming: the copy has part of that frame, and anything may be read in it.
CheckWhileReceiving ==
    /\ role = "CH" /\ pc = "none"
    /\ rf.enabled /\ ~rf.error /\ rf.queue # <<>> /\ rf.armed
    /\ NoFault
    /\ \/ \E c \in Captures, code \in {0, UavCode} :
             /\ rf' = [rf EXCEPT !.queue = Append(Tail(@), [sent |-> c, when |-> "head"])]
             /\ ActsOn(code, {Head(rf.queue).when})
       \/ Restarts

\* rf_receiver_disable
RfOff ==
    /\ pc = "rf_off" /\ Goto("deinit")
    /\ rf' = [rf EXCEPT !.enabled = FALSE, !.queue = <<>>]
    /\ UNCHANGED <<role, cause, wifi, faults, unchangedUpload>>

\* Mutant: what came while the receiver was off stays queued.
ClearErrorOnly ==
    /\ pc = "drain" /\ Goto("arm")
    /\ rf' = [rf EXCEPT !.error = FALSE]
    /\ UNCHANGED <<role, cause, wifi, faults, unchangedUpload>>

\* rf_receiver_enable, up to the drained queue
RfDrain ==
    /\ pc = "drain" /\ Goto("arm")
    /\ rf' = [rf EXCEPT !.error = FALSE, !.queue = <<>>]
    /\ UNCHANGED <<role, cause, wifi, faults, unchangedUpload>>

\* Mutant: the channel is not armed again.
EnableOnly ==
    /\ pc = "arm" /\ Goto("back")
    /\ rf' = [rf EXCEPT !.enabled = TRUE]
    /\ UNCHANGED <<role, cause, wifi, faults, unchangedUpload>>

\* rf_receiver_enable, the rest: a channel that is receiving already is no error here.
RfArm ==
    /\ pc = "arm" /\ Goto("back")
    /\ \/ NoFault /\ rf' = [rf EXCEPT !.armed = TRUE, !.starved = FALSE, !.enabled = TRUE]
       \/ ~rf.armed /\ Fault /\ rf' = [rf EXCEPT !.error = TRUE, !.enabled = TRUE]
    /\ UNCHANGED <<role, cause, wifi, unchangedUpload>>

----------------------------------------------------------------------------
(* The radio's way to the UAV and back.                                     *)

\* esp_now_manager_deinit; its error is logged.
Deinit ==
    /\ pc = "deinit" /\ Goto("start")
    /\ \/ NoFault /\ wifi' = [wifi EXCEPT !.mode = "off"]
       \/ Fault /\ UNCHANGED wifi
    /\ Uninvolved /\ UNCHANGED unchangedUpload

\* wifi_join up to esp_wifi_start, which says nothing more if the driver runs already.  The
\* event loop's task has a higher priority: it has no event left of an earlier session.
JoinStart ==
    /\ pc = "start" /\ wifi.events = <<>>
    /\ \/ /\ NoFault /\ Goto("wait")
          /\ wifi' = [wifi EXCEPT !.mode = "sta", !.handlers = TRUE, !.retries = 0, !.bits = {},
                                  !.events = IF wifi.mode = "off" THEN Append(@, "start") ELSE @]
       \/ /\ Fault /\ Goto("clean")
          /\ wifi' = [wifi EXCEPT !.retries = 0, !.bits = {}]
    /\ Uninvolved /\ UNCHANGED unchangedUpload

\* esp_wifi_connect, which fails when Wi-Fi is stopped
Connects(w) == [w EXCEPT !.link = IF w.mode = "off" THEN @ ELSE "trying"]

\* wifi_event_handler: without a handler, an event is gone.  A retry waits for 500 ms.
WifiEvent ==
    LET e == Head(wifi.events)
        w == [wifi EXCEPT !.events = Tail(@)]
    IN
    /\ wifi.events # <<>> /\ ~wifi.delayed
    /\ wifi' = IF ~wifi.handlers THEN w
               ELSE CASE e = "start" -> Connects(w)
                      [] e = "ip" -> [w EXCEPT !.retries = 0, !.bits = @ \cup {"ok"}]
                      [] e = "lost" /\ w.retries < MaxRetries ->
                            [w EXCEPT !.retries = @ + 1, !.delayed = TRUE]
                      [] OTHER -> [w EXCEPT !.bits = @ \cup {"fail"}]
    /\ UNCHANGED <<role, pc, rf, cause, faults, unchangedUpload>>

\* The handler's retry: whatever has happened to Wi-Fi in the 500 ms, it connects.
Retry ==
    /\ wifi.delayed
    /\ wifi' = [Connects(wifi) EXCEPT !.delayed = FALSE]
    /\ UNCHANGED <<role, pc, rf, cause, faults, unchangedUpload>>

\* esp_event_handler_instance_unregister has to get the event loop's lock, which the loop
\* holds while a handler runs.
Unregisters == ~wifi.delayed

Linked == wifi.link \in {"up", "stalled"}

\* The access point accepts, refuses or drops the station; its server stops or goes on taking
\* what is sent to it.
AccessPoint ==
    /\ wifi.mode = "sta"
    /\ \/ /\ wifi.link = "trying"
          /\ wifi' = [wifi EXCEPT !.link = "up", !.events = Append(@, "ip")]
       \/ /\ wifi.link # "no"
          /\ wifi' = [wifi EXCEPT !.link = "no", !.events = Append(@, "lost")]
       \/ /\ Linked
          /\ wifi' = [wifi EXCEPT !.link = IF @ = "up" THEN "stalled" ELSE "up"]
    /\ UNCHANGED <<role, pc, rf, cause, faults, unchangedUpload>>

\* Mutant: the join waits for the event group without a limit.
WaitForBits ==
    /\ pc = "wait"
    /\ \/ "ok" \in wifi.bits /\ Goto("post") /\ UNCHANGED wifi
       \/ /\ "fail" \in wifi.bits /\ Unregisters
          /\ Goto("clean") /\ wifi' = [wifi EXCEPT !.handlers = FALSE]
    /\ NoFault /\ Uninvolved /\ UNCHANGED unchangedUpload

\* The rest of wifi_join: an address, an end of the retries, 30 s, or the address is gone.
JoinWait ==
    /\ pc = "wait"
    /\ \/ "ok" \in wifi.bits /\ Goto("post") /\ UNCHANGED wifi
       \/ /\ "ok" \notin wifi.bits \/ ~Linked
          /\ Unregisters
          /\ Goto("clean") /\ wifi' = [wifi EXCEPT !.handlers = FALSE]
    /\ NoFault /\ Uninvolved /\ UNCHANGED unchangedUpload

\* Mutant: the handlers stay registered.
CleanKeepsHandlers ==
    /\ pc = "clean" /\ Goto("reinit")
    /\ batch' = {}
    /\ wifi' = [wifi EXCEPT !.mode = "off", !.link = "no",
                            !.events = IF Linked THEN Append(@, "lost") ELSE @]
    /\ NoFault /\ Uninvolved /\ UNCHANGED <<taken, store, server>>

\* uav_client_cleanup; the disconnection is an event, too.
Clean ==
    /\ pc = "clean" /\ Goto("reinit")
    /\ Unregisters
    /\ batch' = {}
    /\ wifi' = [wifi EXCEPT !.mode = "off", !.link = "no", !.handlers = FALSE,
                            !.events = IF Linked THEN Append(@, "lost") ELSE @]
    /\ NoFault /\ Uninvolved /\ UNCHANGED <<taken, store, server>>

\* esp_now_manager_reinit; its error is logged.
Reinit ==
    /\ pc = "reinit" /\ Goto("drain")
    /\ \/ NoFault /\ wifi' = [wifi EXCEPT !.mode = "espnow"]
       \/ Fault /\ wifi' = [wifi EXCEPT !.mode = "bare"]
    /\ Uninvolved /\ UNCHANGED unchangedUpload

Back ==
    /\ pc = "back" /\ Goto("none")
    /\ role' = "CH"
    /\ UNCHANGED <<rf, cause, wifi, faults, unchangedUpload>>

----------------------------------------------------------------------------
(* uav_client_run_onboarding after the join.                                *)

Online == wifi.link = "up"

\* A request may fail at any time, and needs a link to succeed.
Post ==
    /\ pc = "post"
    /\ (Online /\ Goto("read")) \/ Goto("clean")
    /\ UNCHANGED <<wifi, unchangedUpload>> /\ NoFault /\ Uninvolved

\* storage_manager_read_all_decompressed: it stops at the end of its buffer and at a record it
\* cannot read.  With nothing read, an empty payload is sent.
Read ==
    /\ pc = "read" /\ Goto("open")
    /\ batch' \in SUBSET store
    /\ UNCHANGED <<wifi, taken, store, server>> /\ NoFault /\ Uninvolved

Open ==
    /\ pc = "open"
    /\ (Online /\ Goto("write")) \/ Goto("clean")
    /\ UNCHANGED <<wifi, unchangedUpload>> /\ NoFault /\ Uninvolved

\* The last chunk is written, or a write fails.  A write of no bytes is repeated.
Write ==
    /\ pc = "write"
    /\ \/ Online /\ Goto("reply")
       \/ wifi.link # "stalled" /\ Goto("clean")
    /\ UNCHANGED <<wifi, unchangedUpload>> /\ NoFault /\ Uninvolved

\* Mutant: an answer other than 200 counts as success.
AnyReply ==
    /\ pc = "reply" /\ Goto("clear")
    /\ server' \in {server, server \cup batch}
    /\ UNCHANGED <<wifi, taken, store, batch>> /\ NoFault /\ Uninvolved

\* 200, or another answer, or none: what the server then has is open.
Reply ==
    /\ pc = "reply"
    /\ \/ Online /\ Goto("clear") /\ server' = server \cup batch
       \/ Goto("clean") /\ server' \in {server, server \cup batch}
    /\ UNCHANGED <<wifi, taken, store, batch>> /\ NoFault /\ Uninvolved

\* storage_manager_clear, if there was data
Clear ==
    /\ pc = "clear" /\ Goto("ack")
    /\ store' = IF batch # {} THEN {} ELSE store
    /\ UNCHANGED <<wifi, taken, batch, server>> /\ NoFault /\ Uninvolved

\* The acknowledgement's result is not looked at.
Ack ==
    /\ pc = "ack" /\ Goto("clean")
    /\ UNCHANGED <<wifi, unchangedUpload>> /\ NoFault /\ Uninvolved

----------------------------------------------------------------------------
(* The rest of the node, and faults.                                        *)

\* The node becomes the head or yields.
ChangesRole ==
    /\ pc = "none"
    /\ role' = IF role = "CH" THEN "MEMBER" ELSE "CH"
    /\ UNCHANGED <<pc, rf, cause, wifi, faults, unchangedUpload>>

\* app_main looks at the role before it formats and stores a record: what a head has taken may
\* reach the flash in the middle of its onboarding.
Take ==
    /\ ~taken /\ role # "UAV"
    /\ taken' = TRUE
    /\ UNCHANGED <<role, pc, rf, cause, wifi, store, batch, server, faults>>

Sample ==
    /\ taken /\ taken' = FALSE
    /\ LET new == (1..MaxRecords) \ (store \cup server) IN
          new # {} /\ store' = store \cup {Min(new)}
    /\ UNCHANGED <<role, pc, rf, cause, wifi, batch, server, faults>>

Crash == Fault /\ Restarts

Init ==
    /\ role = "MEMBER" /\ pc = "none"
    /\ rf = Fresh /\ wifi = Idle /\ cause = "head"
    /\ taken = FALSE /\ store = {} /\ batch = {} /\ server = {}
    /\ faults = 0

Upload == Post \/ Read \/ Open \/ Write \/ Reply \/ Clear \/ Ack

HeadStep ==
    \/ RfOff \/ Deinit \/ JoinStart \/ JoinWait \/ Upload
    \/ Clean \/ Reinit \/ RfDrain \/ RfArm \/ Back

Next ==
    \/ HeadStep \/ FrameArrives \/ CheckTrigger \/ CheckWhileReceiving
    \/ WifiEvent \/ Retry \/ AccessPoint
    \/ ChangesRole \/ Take \/ Sample \/ Crash

\* The state machine's and the event loop's tasks run, and every wait of an onboarding but the
\* repeated write has a limit.  Strong: the event loop's lock is free between two events.
Spec == Init /\ [][Next]_vars /\ SF_vars(HeadStep) /\ WF_vars(WifiEvent \/ Retry)

----------------------------------------------------------------------------
(* Properties.                                                              *)

\* The state stays within its ranges.  No more than two frames are queued, the second one
\* only when the channel was armed over the first, and no more than two Wi-Fi events: an
\* address and its loss.
TypeOK ==
    /\ role \in {"MEMBER", "CH", "UAV"} /\ (role = "UAV" <=> pc # "none")
    /\ pc \in Steps \cup {"none"}
    /\ rf \in Receiver /\ Len(rf.queue) <= 2
    /\ wifi \in Driver /\ Len(wifi.events) <= 2
    /\ {store, batch, server} \subseteq SUBSET (1..MaxRecords)
    /\ taken \in BOOLEAN /\ cause \in When /\ faults \in 0..MaxFaults

\* Outside of an onboarding nothing connects the node to the access point any more, whatever
\* Wi-Fi events are still on their way, and although a handler may sit in the 500 ms before its
\* next retry when uav_client_cleanup comes (it unregisters the handlers first, and for that has
\* to wait for one that runs): a station that connects leaves the channel of ESP-NOW.
StaysOffTheAccessPoint ==
    pc \in {"drain", "arm", "back", "none"} =>
        wifi.link = "no" /\ wifi.mode \in {"espnow", "bare"}

\* A frame that came during an onboarding, before rf_receiver_enable drained the queue, starts
\* none later.
NoTriggerFromOnboarding == cause # "away"

\* All queued events share one buffer, so that a capture may be read with the content of those
\* that came after it.  Still the head only flies an onboarding when the UAV has sent one of
\* them, and for captures of four bursts that are all the UAV's it does; but for a check in the
\* middle of a reception.  (parse_rcswitch looks at half of a capture, and only at what follows
\* a sync.)
StartsForTheUav ==
    [][ LET uavs == {i \in 1..Len(rf.queue) : rf.queue[i].sent[1] = UavCode} IN
        role = "CH" /\ ~rf.armed =>
            /\ role' = "UAV" => uavs # {}
            /\ /\ rf.queue # <<>> /\ rf'.queue = Tail(rf.queue)
               /\ uavs = 1..Len(rf.queue) /\ Head(rf.queue).sent[2] >= 4
               => \/ role' = "UAV"
                  \/ rf'.error \/ rf'.starved \/ role' = "MEMBER" ]_vars

\* A receiver that is on and has met no error waits for a frame or has one to look at: the
\* channel is armed again after every frame that is taken out of the queue, in whatever order
\* frames, trigger checks and onboardings come.
Listening == rf.enabled /\ ~rf.error /\ ~rf.starved => rf.armed \/ rf.queue # <<>>

\* Records leave the flash only after the server has answered 200 to a body that held data,
\* and then it has all the upload had read (uav_client_run_onboarding).
ClearedAfterUpload == [][~(store \subseteq store') => batch # {} /\ batch \subseteq server]_vars

\* Every onboarding ends, with whatever access point, server and driver errors, unless a server
\* that stays connected takes no more bytes for ever: the loop of uav_client.c:471-480 then
\* repeats its write of none.
OnboardingEnds == []<>(wifi.link # "stalled") => (role = "UAV" ~> role # "UAV")

\* The comment in rf_receiver_enable: re-arming "is safe (idempotent for active RMT)".
NeverDeaf == role = "CH" => ~rf.error
=============================================================================
