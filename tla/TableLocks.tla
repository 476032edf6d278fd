----------------------------- MODULE TableLocks -----------------------------
(***************************************************************************)
(* Two mutexes, four tasks.  The metrics (metrics.c) are under a recursive *)
(* mutex that is waited for without limit; the neighbor table              *)
(* (neighbor_manager.c) is under a mutex every caller waits for only so    *)
(* long.  The metrics task holds the metrics while it asks for the table,  *)
(* the BLE host task holds the table while it asks for the metrics, and    *)
(* the state machine's task and the Wi-Fi task ask for each by itself:     *)
(* only the time limits undo the cross, and a caller whose limit runs out  *)
(* sees an empty table.                                                    *)
(*                                                                         *)
(* The scenario: a node that is a member of a healthy head whose beacons   *)
(* it hears, with neighbors in range, so that no entry gets stale and no   *)
(* rule of election_check_reelection_needed but the missing head applies.  *)
(* A call that takes a mutex, works and gives it back is one step, and a   *)
(* step takes no time: time passes when every task waits (a mutex, a       *)
(* delay, the flash).  A look-up the host makes only to log it is left out. *)
(***************************************************************************)
EXTENDS Integers, FiniteSets

CONSTANTS
    Head,           \* the head of the node's cluster
    Nbrs,           \* the nodes it hears, the head among them
    MaxNeighbors,   \* MAX_NEIGHBORS
    MissThreshold,  \* CH_MISS_THRESHOLD
    UpdateWait,     \* ticks neighbor_manager_update waits for the table (500 ms)
    AllWait,        \* ... neighbor_manager_get_all (1000 ms)
    CleanWait,      \* ... neighbor_manager_cleanup_stale (100 ms)
    LookWait,       \* ... neighbor_manager_get, _get_by_mac, _get_current_ch, _get_ch_mac (50 ms)
    CountWait,      \* ... neighbor_manager_get_count (20 ms)
    TrustWait,      \* ... neighbor_manager_update_trust (100 ms)
    SaveTime,       \* the longest the two NVS commits of metrics_update take
    Period,         \* the delay of metrics_task (1000 ms)
    Run             \* the delay of state_machine_task (100 ms)

ASSUME TableLocksAssumption ==
    /\ Head \in Nbrs
    /\ IsFiniteSet(Nbrs)
    /\ {MaxNeighbors, MissThreshold} \subseteq Nat \ {0}
    /\ {UpdateWait, AllWait, CleanWait, LookWait, CountWait, TrustWait, Period, Run} \subseteq Nat \ {0}
    /\ SaveTime \in Nat

Tasks == {"metrics", "host", "machine", "wifi"}
NoTask == "none"

\* The longest the host task is held up by a beacon; its counter stops one above.
HostDelay == 2 * SaveTime + AllWait

VARIABLES
    pc,       \* what each task is doing
    wait,     \* ticks until its delay or its time limit runs out
    table,    \* the task that holds neighbor_mutex, or NoTask
    metrics,  \* the task that holds metrics_mutex, or NoTask
    known,    \* the nodes in the neighbor table
    beacon,   \* the beacon the host task handles: its sender, and if its HMAC is right
    spent,    \* ticks the host task has spent on it
    seen,     \* the neighbors the last score of the node was computed with
    role,     \* "member", "candidate" or "head"
    misses,   \* ch_miss_count
    cached    \* s_cached_ch_id: the node has an address to send to in DATA

vars == <<pc, wait, table, metrics, known, beacon, spent, seen, role, misses, cached>>

Beacons == [from : Nbrs, authentic : BOOLEAN]

\* The places where a task waits for the table, and those where it waits for the metrics.
TableCalls == {"update", "all", "lookup", "cleanup", "recheck", "entry", "candidates", "rivals",
               "live", "mac", "status", "count", "sender", "trust"}
MetricsCalls == {"start", "weights", "credit", "reception", "advert", "vote", "health"}
Delays == {"sleep", "saving", "quiet"}

Init ==
    /\ pc = [metrics |-> "sleep", host |-> "quiet", machine |-> "sleep", wifi |-> "quiet"]
    /\ wait = [t \in Tasks |-> 0]
    /\ table = NoTask
    /\ metrics = NoTask
    /\ known \in {k \in SUBSET Nbrs : Head \in k /\ Cardinality(k) <= MaxNeighbors}
    /\ beacon \in Beacons
    /\ spent = 0
    /\ seen = 0
    /\ role = "member"
    /\ misses = 0
    /\ cached = FALSE

Go(t, place, limit) ==
    /\ pc' = [pc EXCEPT ![t] = place]
    /\ wait' = [wait EXCEPT ![t] = limit]

\* xSemaphoreTake of neighbor_mutex runs into its time limit.
GivesUp(t) == table # NoTask /\ wait[t] = 0
Answered(t) == table = NoTask \/ GivesUp(t)

\* xSemaphoreTakeRecursive of metrics_mutex with portMAX_DELAY.
MetricsFor(t) == metrics \in {NoTask, t}

-----------------------------------------------------------------------------
(* The metrics task: metrics_update once a second                          *)

MetricsWakes ==
    /\ pc["metrics"] = "sleep" /\ wait["metrics"] = 0
    /\ Go("metrics", "start", 0)
    /\ UNCHANGED <<table, metrics, known, beacon, spent, seen, role, misses, cached>>

\* metrics_update takes the metrics for all it does; once a minute it saves the uptime
\* and the trust in NVS with the mutex held.
MetricsStarts ==
    /\ pc["metrics"] = "start" /\ MetricsFor("metrics")
    /\ metrics' = "metrics"
    /\ \E time \in 0 .. SaveTime : Go("metrics", "saving", time)
    /\ UNCHANGED <<table, known, beacon, spent, seen, role, misses, cached>>

MetricsSaved ==
    /\ pc["metrics"] = "saving" /\ wait["metrics"] = 0
    /\ Go("metrics", "weights", 0)
    /\ UNCHANGED <<table, metrics, known, beacon, spent, seen, role, misses, cached>>

\* metrics_update_stellar_weights takes the mutex once more, and gives it back once.
MetricsWeights ==
    /\ pc["metrics"] = "weights" /\ MetricsFor("metrics")
    /\ Go("metrics", "all", AllWait)
    /\ UNCHANGED <<table, metrics, known, beacon, spent, seen, role, misses, cached>>

\* Mutant: neighbor_manager_get_all waits for the table without limit.
AnswerWithoutLimit(t, answer) == table = NoTask /\ answer = known

\* neighbor_manager_get_all: the table, or nothing when it cannot be had in time.
AllAnswers(t, answer) ==
    \/ table = NoTask /\ answer = known
    \/ GivesUp(t) /\ answer = {}

\* Mutant: metrics_update waits in a second round before it gives the mutex back.
ScoredTwice ==
    /\ pc["metrics"] = "all"
    /\ \E answer \in SUBSET Nbrs :
           AllAnswers("metrics", answer) /\ seen' = Cardinality(answer)
    /\ IF table = NoTask
       THEN metrics' = NoTask /\ Go("metrics", "status", LookWait)
       ELSE metrics' = metrics /\ Go("metrics", "all", AllWait)
    /\ UNCHANGED <<table, known, beacon, spent, role, misses, cached>>

\* The Pareto rank, the centrality and the score from the neighbors got.
MetricsScores ==
    /\ pc["metrics"] = "all"
    /\ \E answer \in SUBSET Nbrs :
           AllAnswers("metrics", answer) /\ seen' = Cardinality(answer)
    /\ metrics' = NoTask
    /\ Go("metrics", "status", LookWait)
    /\ UNCHANGED <<table, known, beacon, spent, role, misses, cached>>

\* For its status line metrics_task looks up the head and counts the neighbors.
MetricsLooks ==
    /\ pc["metrics"] = "status" /\ Answered("metrics")
    /\ Go("metrics", "count", CountWait)
    /\ UNCHANGED <<table, metrics, known, beacon, spent, seen, role, misses, cached>>

MetricsCounts ==
    /\ pc["metrics"] = "count" /\ Answered("metrics")
    /\ Go("metrics", "sleep", Period)
    /\ UNCHANGED <<table, metrics, known, beacon, spent, seen, role, misses, cached>>

-----------------------------------------------------------------------------
(* The BLE host task: a beacon at a time, at most one a tick               *)

HostHears ==
    /\ pc["host"] = "quiet" /\ wait["host"] = 0
    /\ beacon' \in Beacons
    /\ spent' = 0
    /\ Go("host", "credit", 0)
    /\ UNCHANGED <<table, metrics, known, seen, role, misses, cached>>

\* metrics_record_hmac_success, and for an authentic beacon metrics_update_rssi and
\* metrics_update_trust: one call after the other, in one step.
HostCredits ==
    /\ pc["host"] = "credit" /\ MetricsFor("host")
    /\ IF beacon.authentic THEN Go("host", "update", UpdateWait) ELSE Go("host", "quiet", 1)
    /\ UNCHANGED <<table, metrics, known, beacon, spent, seen, role, misses, cached>>

\* neighbor_manager_update of a node in the table keeps the table while it asks for the
\* metrics.
HostFinds ==
    /\ pc["host"] = "update" /\ table = NoTask
    /\ beacon.from \in known
    /\ table' = "host"
    /\ Go("host", "reception", 0)
    /\ UNCHANGED <<metrics, known, beacon, spent, seen, role, misses, cached>>

\* A node not in the table is added if there is room, and no metric is touched; a table
\* that cannot be had in time takes no beacon.
HostAdds ==
    /\ pc["host"] = "update" /\ Answered("host")
    /\ table = NoTask => beacon.from \notin known
    /\ known' = IF table = NoTask /\ Cardinality(known) < MaxNeighbors
                THEN known \cup {beacon.from} ELSE known
    /\ Go("host", "quiet", 1)
    /\ UNCHANGED <<table, metrics, beacon, spent, seen, role, misses, cached>>

\* Mutant: the path of a known node returns with the table still taken.
CountedAndKept ==
    /\ pc["host"] = "reception" /\ MetricsFor("host")
    /\ Go("host", "quiet", 1)
    /\ UNCHANGED <<table, metrics, known, beacon, spent, seen, role, misses, cached>>

\* metrics_record_ble_reception, then the entry is written and the table given back.
HostCounts ==
    /\ pc["host"] = "reception" /\ MetricsFor("host")
    /\ table' = NoTask
    /\ Go("host", "quiet", 1)
    /\ UNCHANGED <<metrics, known, beacon, spent, seen, role, misses, cached>>

-----------------------------------------------------------------------------
(* The state machine's task: a member, a candidate or a head in STELLAR    *)

MachineRuns ==
    /\ pc["machine"] = "sleep" /\ wait["machine"] = 0
    /\ \/ role = "member" /\ Go("machine", "lookup", LookWait)
       \/ role = "candidate" /\ Go("machine", "cleanup", CleanWait)
       \/ role = "head" /\ Go("machine", "health", 0)
    /\ UNCHANGED <<table, metrics, known, beacon, spent, seen, role, misses, cached>>

\* neighbor_manager_get_current_ch and neighbor_manager_get: the head is found in the
\* table, or the table cannot be had in time.  0 and FALSE say no more than "no head".
Found == table = NoTask /\ Head \in known
NotFound == (table = NoTask /\ Head \notin known) \/ GivesUp("machine")

Leave(n) ==
    /\ role' = "candidate"
    /\ misses' = n
    /\ Go("machine", "sleep", Run)

\* The member's look-up of its head, with the count of misses.
MemberLooks ==
    /\ pc["machine"] = "lookup"
    /\ \/ Found /\ misses' = 0 /\ Go("machine", "advert", 0) /\ UNCHANGED role
       \/ NotFound /\ misses + 1 < MissThreshold
             /\ misses' = misses + 1 /\ Go("machine", "advert", 0) /\ UNCHANGED role
       \/ NotFound /\ misses + 1 >= MissThreshold /\ Leave(0)
    /\ UNCHANGED <<table, metrics, known, beacon, spent, seen, cached>>

\* ble_manager_update_advertisement reads the metrics.
MachineAdvertises ==
    /\ pc["machine"] = "advert" /\ MetricsFor("machine")
    /\ Go("machine", "cleanup", CleanWait)
    /\ UNCHANGED <<table, metrics, known, beacon, spent, seen, role, misses, cached>>

\* neighbor_manager_cleanup_stale finds nothing stale, or gives up.  A candidate then
\* waits for its window to end, or votes.
MachineCleans ==
    /\ pc["machine"] = "cleanup" /\ Answered("machine")
    /\ \/ role = "member" /\ Go("machine", "recheck", LookWait)
       \/ role = "candidate" /\ Go("machine", "sleep", Run)
       \/ role = "candidate" /\ Go("machine", "vote", 0)
    /\ UNCHANGED <<table, metrics, known, beacon, spent, seen, role, misses, cached>>

\* election_check_reelection_needed of a member: the head once more, and its entry.
MemberRechecks ==
    /\ pc["machine"] = "recheck"
    /\ \/ Found /\ Go("machine", "entry", LookWait) /\ UNCHANGED <<role, misses>>
       \/ NotFound /\ Leave(misses)
    /\ UNCHANGED <<table, metrics, known, beacon, spent, seen, cached>>

MemberChecksEntry ==
    /\ pc["machine"] = "entry"
    /\ \/ Found /\ Go("machine", "live", LookWait) /\ UNCHANGED <<role, misses>>
       \/ NotFound /\ Leave(misses)
    /\ UNCHANGED <<table, metrics, known, beacon, spent, seen, cached>>

\* The member keeps its head's address for the DATA phase, when no beacon is heard: two
\* look-ups, of the head and of the address of a head.
MemberSeesHead ==
    /\ pc["machine"] = "live"
    /\ \/ Found /\ Go("machine", "mac", LookWait)
       \/ NotFound /\ Go("machine", "sleep", Run)
    /\ UNCHANGED <<table, metrics, known, beacon, spent, seen, role, misses, cached>>

MemberCaches ==
    /\ pc["machine"] = "mac"
    /\ \/ Found /\ cached' = TRUE
       \/ NotFound /\ UNCHANGED cached
    /\ Go("machine", "sleep", Run)
    /\ UNCHANGED <<table, metrics, known, beacon, spent, seen, role, misses>>

\* election_run: the weights first, then the neighbors, then its own metrics.
CandidateVotes ==
    /\ pc["machine"] = "vote" /\ MetricsFor("machine")
    /\ Go("machine", "candidates", AllWait)
    /\ UNCHANGED <<table, metrics, known, beacon, spent, seen, role, misses, cached>>

\* The head, which is better, wins if the node can see it.  transition_to_state clears the
\* count of misses when the node becomes a member.
CandidateElects ==
    /\ pc["machine"] = "candidates"
    /\ \E answer \in SUBSET Nbrs :
           /\ AllAnswers("machine", answer)
           /\ role' = IF Head \in answer THEN "member" ELSE "head"
    /\ misses' = 0
    /\ Go("machine", "sleep", Run)
    /\ UNCHANGED <<table, metrics, known, beacon, spent, seen, cached>>

\* election_check_reelection_needed of a head: its own health, then the other heads.
HeadChecksHealth ==
    /\ pc["machine"] = "health" /\ MetricsFor("machine")
    /\ Go("machine", "rivals", AllWait)
    /\ UNCHANGED <<table, metrics, known, beacon, spent, seen, role, misses, cached>>

HeadChecksRivals ==
    /\ pc["machine"] = "rivals"
    /\ \E answer \in SUBSET Nbrs :
           /\ AllAnswers("machine", answer)
           /\ role' = IF Head \in answer THEN "candidate" ELSE "head"
    /\ Go("machine", "sleep", Run)
    /\ UNCHANGED <<table, metrics, known, beacon, spent, seen, misses, cached>>

-----------------------------------------------------------------------------
(* The Wi-Fi task: a frame at a time, at most one a tick                   *)

\* process_packet ends, whatever it did with a frame of data, with the sender's trust.
WifiReceives ==
    /\ pc["wifi"] = "quiet" /\ wait["wifi"] = 0
    /\ Go("wifi", "sender", LookWait)
    /\ UNCHANGED <<table, metrics, known, beacon, spent, seen, role, misses, cached>>

\* neighbor_manager_get_by_mac: the sender is in the table, or nobody is credited.
WifiFinds ==
    /\ pc["wifi"] = "sender" /\ Answered("wifi")
    /\ \/ table = NoTask /\ known # {} /\ Go("wifi", "trust", TrustWait)
       \/ (known # Nbrs \/ table # NoTask) /\ Go("wifi", "quiet", 1)
    /\ UNCHANGED <<table, metrics, known, beacon, spent, seen, role, misses, cached>>

\* neighbor_manager_update_trust writes into the entry, if it can have the table.
WifiCredits ==
    /\ pc["wifi"] = "trust" /\ Answered("wifi")
    /\ Go("wifi", "quiet", 1)
    /\ UNCHANGED <<table, metrics, known, beacon, spent, seen, role, misses, cached>>

-----------------------------------------------------------------------------
(* Time                                                                    *)

Waits(t) ==
    \/ pc[t] \in Delays /\ (wait[t] > 0 \/ pc[t] = "quiet")
    \/ pc[t] \in TableCalls /\ table # NoTask /\ wait[t] > 0
    \/ pc[t] \in MetricsCalls /\ metrics \notin {NoTask, t}

Tick ==
    /\ \A t \in Tasks : Waits(t)
    /\ wait' = [t \in Tasks |-> IF wait[t] > 0 THEN wait[t] - 1 ELSE 0]
    /\ spent' = IF pc["host"] = "quiet" \/ spent > HostDelay THEN spent ELSE spent + 1
    /\ UNCHANGED <<pc, table, metrics, known, beacon, seen, role, misses, cached>>

MetricsStep ==
    \/ MetricsWakes \/ MetricsStarts \/ MetricsSaved \/ MetricsWeights \/ MetricsScores
    \/ MetricsLooks \/ MetricsCounts
HostStep == HostHears \/ HostCredits \/ HostFinds \/ HostAdds \/ HostCounts
MachineStep ==
    \/ MachineRuns \/ MemberLooks \/ MachineAdvertises \/ MachineCleans \/ MemberRechecks
    \/ MemberChecksEntry \/ CandidateVotes \/ CandidateElects \/ HeadChecksHealth
    \/ HeadChecksRivals \/ MemberSeesHead \/ MemberCaches

WifiStep == WifiReceives \/ WifiFinds \/ WifiCredits

Next == MetricsStep \/ HostStep \/ MachineStep \/ WifiStep \/ Tick

\* Something always happens: time does not stop, and it does not pass while a task can run.
Fairness == WF_vars(Next)

Spec == Init /\ [][Next]_vars /\ Fairness

-----------------------------------------------------------------------------
(* Properties                                                              *)

TypeOK ==
    /\ pc \in [Tasks -> TableCalls \cup MetricsCalls \cup Delays]
    /\ wait \in [Tasks -> Nat]
    /\ table \in {NoTask, "host"}
    /\ metrics \in {NoTask, "metrics"}
    /\ known \subseteq Nbrs /\ Cardinality(known) <= MaxNeighbors
    /\ beacon \in Beacons
    /\ spent \in Nat /\ seen \in Nat /\ misses \in Nat
    /\ role \in {"member", "candidate", "head"} /\ cached \in BOOLEAN

\* A caller of the neighbor table gives up only in the cross: the host task has the table
\* and waits for the metrics, which the metrics task has, or has given back in this very
\* tick.  No other order of calls keeps the table from anyone (the time limits of
\* neighbor_manager.c, metrics.c:378-381, neighbor_manager.c:84).
GivesUpInTheCross ==
    \A t \in Tasks : pc[t] \in TableCalls /\ GivesUp(t) =>
        /\ t # "host"
        /\ table = "host" /\ pc["host"] = "reception"
        /\ \/ metrics = "metrics" /\ pc["metrics"] \in {"saving", "weights", "all"}
           \/ metrics = NoTask /\ pc["metrics"] = "status" /\ wait["metrics"] = LookWait

\* The host task, which all of NimBLE's events wait for, is held up by a beacon no longer
\* than the saves of two metrics_update and the wait of one of them for the table.
HostDelayBounded == spent <= HostDelay

\* The mutexes come back: every task gets through its calls again and again, although
\* each of the two mutexes is asked for by a task that holds the other.
TasksReturn ==
    /\ []<>(pc["metrics"] = "sleep")
    /\ []<>(pc["host"] = "quiet")
    /\ []<>(pc["machine"] = "sleep")
    /\ []<>(pc["wifi"] = "quiet")

\* state_machine.c:729-733 and config.h:55: a head is lost after CH_MISS_THRESHOLD
\* consecutive missed beacons; one that is in the table and heard is not lost.
HeadKept == [][role = "member" /\ Head \in known => role' = "member"]_vars
=============================================================================
