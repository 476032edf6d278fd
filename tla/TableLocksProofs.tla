-------------------------- MODULE TableLocksProofs --------------------------
(***************************************************************************)
(* What TLC checks of TableLocks with the firmware's limits scaled down,   *)
(* proved for every set of neighbors, every table and every length of the  *)
(* waits: nobody gives up but in the cross, and no beacon holds the host   *)
(* up longer than two saves and one wait.                                  *)
(***************************************************************************)
EXTENDS TableLocks, FiniteSetTheorems, TLAPS

\* Where each task can be.
Places ==
    /\ pc["metrics"] \in {"sleep", "start", "saving", "weights", "all", "status", "count"}
    /\ pc["host"] \in {"quiet", "credit", "update", "reception"}
    /\ pc["machine"] \in {"sleep", "lookup", "advert", "cleanup", "recheck", "entry", "live",
                          "mac", "vote", "candidates", "health", "rivals"}
    /\ pc["wifi"] \in {"quiet", "sender", "trust"}

\* Who holds what follows from where the tasks are.
Holders ==
    /\ table = "host" <=> pc["host"] = "reception"
    /\ metrics = "metrics" <=> pc["metrics"] \in {"saving", "weights", "all"}

\* The host task has the table and waits for the metrics, or has waited in this tick.
Cross ==
    /\ table = "host" /\ pc["host"] = "reception"
    /\ \/ metrics = "metrics" /\ pc["metrics"] \in {"saving", "weights", "all"}
       \/ metrics = NoTask /\ pc["metrics"] = "status" /\ wait["metrics"] = LookWait

\* A limit runs out only in the cross; the table may be back before the task looks.
Expired ==
    \A t \in Tasks : pc[t] \in TableCalls /\ wait[t] = 0 =>
        \/ Cross
        \/ table = NoTask /\ pc["host"] = "quiet" /\ wait["host"] = 1

\* What the metrics task may still make the host task wait, by where the two are.
Spent ==
    /\ spent <= HostDelay
    /\ pc["metrics"] = "saving" => wait["metrics"] <= SaveTime
    /\ pc["metrics"] = "all" => wait["metrics"] <= AllWait
    /\ pc["host"] \in {"credit", "update"} => spent <= SaveTime
    /\ pc["host"] = "credit" /\ pc["metrics"] = "saving" => spent + wait["metrics"] <= SaveTime
    /\ pc["host"] = "credit" /\ (pc["metrics"] = "start" \/ (pc["metrics"] = "sleep" /\ wait["metrics"] = 0))
           => spent = 0
    /\ pc["host"] = "reception" =>
          /\ pc["metrics"] = "saving" => spent + wait["metrics"] + AllWait <= HostDelay
          /\ pc["metrics"] = "weights" => spent + AllWait <= HostDelay
          /\ pc["metrics"] = "all" => spent + wait["metrics"] <= HostDelay
          /\ pc["metrics"] = "start" \/ (pc["metrics"] = "sleep" /\ wait["metrics"] = 0)
                => spent <= SaveTime

Inv == TypeOK /\ Places /\ Holders /\ Expired /\ Spent

-----------------------------------------------------------------------------

LEMMA Limits ==
    /\ UpdateWait > 0 /\ AllWait > 0 /\ CleanWait > 0 /\ LookWait > 0 /\ CountWait > 0
    /\ TrustWait > 0 /\ Period > 0 /\ Run > 0
    /\ {UpdateWait, AllWait, CleanWait, LookWait, CountWait, TrustWait, Period, Run, SaveTime} \subseteq Nat
    /\ HostDelay \in Nat /\ SaveTime <= HostDelay
    /\ SaveTime + SaveTime + AllWait = HostDelay
BY TableLocksAssumption DEF HostDelay

\* A task that goes to a place takes nobody with it.
LEMMA Went ==
    ASSUME TypeOK, NEW t \in Tasks, NEW place \in TableCalls \cup MetricsCalls \cup Delays,
           NEW limit \in Nat, Go(t, place, limit)
    PROVE  /\ pc' \in [Tasks -> TableCalls \cup MetricsCalls \cup Delays]
           /\ wait' \in [Tasks -> Nat]
           /\ pc'[t] = place /\ wait'[t] = limit
           /\ \A u \in Tasks : u # t => pc'[u] = pc[u] /\ wait'[u] = wait[u]
BY DEF TypeOK, Go

LEMMA Answers ==
    \A answer \in SUBSET Nbrs : Cardinality(answer) \in Nat
BY TableLocksAssumption, FS_Subset, FS_CardinalityType

LEMMA Room ==
    ASSUME TypeOK, NEW n \in Nbrs, Cardinality(known) < MaxNeighbors
    PROVE  Cardinality(known \cup {n}) <= MaxNeighbors
<1>1. IsFiniteSet(known) /\ known \subseteq Nbrs
  BY TableLocksAssumption, FS_Subset DEF TypeOK
<1>2. Cardinality(known) \in Nat
  BY <1>1, FS_CardinalityType
<1>3. Cardinality(known \cup {n}) = IF n \in known THEN Cardinality(known) ELSE Cardinality(known) + 1
  BY <1>1, FS_AddElement
<1> QED
  BY <1>2, <1>3, TableLocksAssumption

LEMMA Start == Init => Inv
<1> SUFFICES ASSUME Init PROVE Inv
  OBVIOUS
<1> USE Limits DEF Init
<1>1. pc \in [Tasks -> TableCalls \cup MetricsCalls \cup Delays] /\ wait \in [Tasks -> Nat]
  BY DEF Tasks, TableCalls, MetricsCalls, Delays
<1>2. TypeOK
  BY <1>1 DEF TypeOK
<1>3. /\ pc["metrics"] = "sleep" /\ pc["host"] = "quiet"
      /\ pc["machine"] = "sleep" /\ pc["wifi"] = "quiet"
      /\ wait["metrics"] = 0 /\ \A t \in Tasks : pc[t] \in Delays
  BY DEF Tasks, Delays
<1>4. Places /\ Holders /\ Expired /\ Spent
  BY <1>3 DEF Places, Holders, Expired, Spent, TableCalls, Delays, NoTask
<1> QED
  BY <1>2, <1>4 DEF Inv

\* What the state machine's and the Wi-Fi task decide is of no matter to the mutexes.
Decided ==
    misses' \in Nat /\ role' \in {"member", "candidate", "head"} /\ cached' \in BOOLEAN

MachinePlaces == {"sleep", "lookup", "advert", "cleanup", "recheck", "entry", "live", "mac",
                  "vote", "candidates", "health", "rivals"}
WifiPlaces == {"quiet", "sender", "trust"}

\* A step of one of these two tasks alone: it waits with a limit, or for no table.
LEMMA Bystander ==
    ASSUME Inv, NEW t \in {"machine", "wifi"}, NEW place, NEW limit \in Nat,
           t = "machine" => place \in MachinePlaces,
           t = "wifi" => place \in WifiPlaces,
           place \in TableCalls => limit > 0,
           Go(t, place, limit), Decided,
           UNCHANGED <<table, metrics, known, beacon, spent, seen>>
    PROVE  Inv'
<1> USE DEF Inv
<1>1. t \in Tasks /\ place \in TableCalls \cup MetricsCalls \cup Delays
  BY DEF Tasks, TableCalls, MetricsCalls, Delays, MachinePlaces, WifiPlaces
<1>2. /\ pc' \in [Tasks -> TableCalls \cup MetricsCalls \cup Delays]
      /\ wait' \in [Tasks -> Nat]
      /\ pc'[t] = place /\ wait'[t] = limit
      /\ \A u \in Tasks : u # t => pc'[u] = pc[u] /\ wait'[u] = wait[u]
  BY <1>1, Went
<1>3. TypeOK'
  BY <1>2 DEF TypeOK, Decided
<1>4. /\ pc'["metrics"] = pc["metrics"] /\ pc'["host"] = pc["host"]
      /\ wait'["metrics"] = wait["metrics"] /\ wait'["host"] = wait["host"]
  BY <1>2 DEF Tasks
<1>5. Places'
  <2>1. CASE t = "machine"
    BY <2>1, <1>2, <1>4 DEF Places, MachinePlaces, Tasks
  <2>2. CASE t = "wifi"
    BY <2>2, <1>2, <1>4 DEF Places, WifiPlaces, Tasks
  <2> QED
    BY <2>1, <2>2
<1>6. Holders' /\ Spent' /\ (Cross <=> Cross')
  BY <1>4 DEF Holders, Spent, Cross
<1>7. Expired'
  <2> SUFFICES ASSUME NEW u \in Tasks, pc'[u] \in TableCalls, wait'[u] = 0
               PROVE  Cross' \/ (table' = NoTask /\ pc'["host"] = "quiet" /\ wait'["host"] = 1)
    BY DEF Expired
  <2>1. u # t
    BY <1>2
  <2>2. pc[u] \in TableCalls /\ wait[u] = 0
    BY <2>1, <1>2
  <2> QED
    BY <2>2, <1>4, <1>6 DEF Expired
<1> QED
  BY <1>3, <1>5, <1>6, <1>7

LEMMA MachineKeeps == ASSUME Inv, MachineStep PROVE Inv'
<1> USE Bystander, Limits DEF Decided, MachinePlaces
<1>0. /\ misses \in Nat /\ role \in {"member", "candidate", "head"} /\ cached \in BOOLEAN
      /\ 0 \in Nat /\ misses + 1 \in Nat
      /\ {"sleep", "advert", "vote", "health"} \cap TableCalls = {}
  BY DEF Inv, TypeOK, TableCalls
<1>1. CASE MachineRuns
  BY <1>0, <1>1 DEF MachineRuns
<1>2. CASE MemberLooks
  BY <1>0, <1>2 DEF MemberLooks, Leave
<1>3. CASE MachineAdvertises
  BY <1>0, <1>3 DEF MachineAdvertises
<1>4. CASE MachineCleans
  BY <1>0, <1>4 DEF MachineCleans
<1>5. CASE MemberRechecks
  BY <1>0, <1>5 DEF MemberRechecks, Leave
<1>6. CASE MemberChecksEntry
  BY <1>0, <1>6 DEF MemberChecksEntry, Leave
<1>7. CASE MemberSeesHead
  BY <1>0, <1>7 DEF MemberSeesHead
<1>8. CASE MemberCaches
  BY <1>0, <1>8 DEF MemberCaches
<1>9. CASE CandidateVotes
  BY <1>0, <1>9 DEF CandidateVotes
<1>10. CASE CandidateElects
  BY <1>0, <1>10 DEF CandidateElects
<1>11. CASE HeadChecksHealth
  BY <1>0, <1>11 DEF HeadChecksHealth
<1>12. CASE HeadChecksRivals
  BY <1>0, <1>12 DEF HeadChecksRivals
<1> QED
  BY <1>1, <1>2, <1>3, <1>4, <1>5, <1>6, <1>7, <1>8, <1>9, <1>10, <1>11, <1>12 DEF MachineStep

LEMMA WifiKeeps == ASSUME Inv, WifiStep PROVE Inv'
<1> USE Bystander, Limits DEF Decided, WifiPlaces
<1>0. /\ misses \in Nat /\ role \in {"member", "candidate", "head"} /\ cached \in BOOLEAN
      /\ 1 \in Nat
  BY DEF Inv, TypeOK
<1>1. CASE WifiReceives
  BY <1>0, <1>1 DEF WifiReceives
<1>2. CASE WifiFinds
  BY <1>0, <1>2 DEF WifiFinds
<1>3. CASE WifiCredits
  BY <1>0, <1>3 DEF WifiCredits
<1> QED
  BY <1>1, <1>2, <1>3 DEF WifiStep

-----------------------------------------------------------------------------

LEMMA Names ==
    /\ Tasks = {"metrics", "host", "machine", "wifi"}
    /\ {"start", "weights", "credit", "reception"} \subseteq MetricsCalls
    /\ {"all", "status", "count", "update"} \subseteq TableCalls
    /\ {"sleep", "saving", "quiet"} \subseteq Delays
    /\ {"sleep", "saving", "quiet", "start", "weights", "credit", "reception"} \cap TableCalls = {}
    /\ NoTask # "metrics" /\ NoTask # "host"
BY DEF Tasks, MetricsCalls, TableCalls, Delays, NoTask

\* The metrics task goes on: the others stay, and who waits with no time left waited before,
\* or it is the metrics task itself.
LEMMA MetricsGoes ==
    ASSUME Inv, NEW place, NEW limit \in Nat, Go("metrics", place, limit),
           place \in {"sleep", "start", "saving", "weights", "all", "status", "count"}
    PROVE  /\ pc' \in [Tasks -> TableCalls \cup MetricsCalls \cup Delays]
           /\ wait' \in [Tasks -> Nat]
           /\ pc'["metrics"] = place /\ wait'["metrics"] = limit
           /\ pc'["host"] = pc["host"] /\ wait'["host"] = wait["host"]
           /\ Places'
           /\ \A u \in Tasks : u # "metrics" => pc'[u] = pc[u] /\ wait'[u] = wait[u]
<1>1. "metrics" \in Tasks /\ place \in TableCalls \cup MetricsCalls \cup Delays
  BY Names
<1>2. /\ pc' \in [Tasks -> TableCalls \cup MetricsCalls \cup Delays]
      /\ wait' \in [Tasks -> Nat]
      /\ pc'["metrics"] = place /\ wait'["metrics"] = limit
      /\ \A u \in Tasks : u # "metrics" => pc'[u] = pc[u] /\ wait'[u] = wait[u]
  BY <1>1, Went DEF Inv
<1> QED
  BY <1>2, Names DEF Inv, Places

LEMMA MetricsKeeps == ASSUME Inv, MetricsStep PROVE Inv'
<1> USE Limits, Names
<1>0. TypeOK /\ Places /\ Holders /\ Expired /\ Spent
  BY DEF Inv
<1>1. CASE MetricsWakes
  <2>1. Go("metrics", "start", 0)
    BY <1>1 DEF MetricsWakes
  <2>2. /\ pc' \in [Tasks -> TableCalls \cup MetricsCalls \cup Delays] /\ wait' \in [Tasks -> Nat]
        /\ pc'["metrics"] = "start" /\ wait'["metrics"] = 0
        /\ pc'["host"] = pc["host"] /\ wait'["host"] = wait["host"]
        /\ Places'
        /\ \A u \in Tasks : u # "metrics" => pc'[u] = pc[u] /\ wait'[u] = wait[u]
    BY <2>1, MetricsGoes
  <2>3. TypeOK'
    BY <1>0, <1>1, <2>2 DEF MetricsWakes, TypeOK
  <2>4. Holders'
    BY <1>0, <1>1, <2>2 DEF MetricsWakes, Holders
  <2>5. Spent'
    BY <1>0, <1>1, <2>2 DEF MetricsWakes, Spent, Holders, TypeOK
  <2>6. Expired'
    BY <1>0, <1>1, <2>2 DEF MetricsWakes, Expired, Cross, Answered, GivesUp, AllAnswers, Holders
  <2> QED
    BY <2>2, <2>3, <2>4, <2>5, <2>6 DEF Inv
<1>2. CASE MetricsStarts
  <2> PICK time \in 0 .. SaveTime : Go("metrics", "saving", time)
    BY <1>2 DEF MetricsStarts
  <2>1. Go("metrics", "saving", time)
    BY <1>2 DEF MetricsStarts
  <2>2. /\ pc' \in [Tasks -> TableCalls \cup MetricsCalls \cup Delays] /\ wait' \in [Tasks -> Nat]
        /\ pc'["metrics"] = "saving" /\ wait'["metrics"] = time
        /\ pc'["host"] = pc["host"] /\ wait'["host"] = wait["host"]
        /\ Places'
        /\ \A u \in Tasks : u # "metrics" => pc'[u] = pc[u] /\ wait'[u] = wait[u]
    BY <2>1, MetricsGoes
  <2>3. TypeOK'
    BY <1>0, <1>2, <2>2 DEF MetricsStarts, TypeOK
  <2>4. Holders'
    BY <1>0, <1>2, <2>2 DEF MetricsStarts, Holders
  <2>5. Spent'
    BY <1>0, <1>2, <2>2 DEF MetricsStarts, Spent, Holders, TypeOK
  <2>6. Expired'
    BY <1>0, <1>2, <2>2 DEF MetricsStarts, Expired, Cross, Answered, GivesUp, AllAnswers, Holders
  <2> QED
    BY <2>2, <2>3, <2>4, <2>5, <2>6 DEF Inv
<1>3. CASE MetricsSaved
  <2>1. Go("metrics", "weights", 0)
    BY <1>3 DEF MetricsSaved
  <2>2. /\ pc' \in [Tasks -> TableCalls \cup MetricsCalls \cup Delays] /\ wait' \in [Tasks -> Nat]
        /\ pc'["metrics"] = "weights" /\ wait'["metrics"] = 0
        /\ pc'["host"] = pc["host"] /\ wait'["host"] = wait["host"]
        /\ Places'
        /\ \A u \in Tasks : u # "metrics" => pc'[u] = pc[u] /\ wait'[u] = wait[u]
    BY <2>1, MetricsGoes
  <2>3. TypeOK'
    BY <1>0, <1>3, <2>2 DEF MetricsSaved, TypeOK
  <2>4. Holders'
    BY <1>0, <1>3, <2>2 DEF MetricsSaved, Holders
  <2>5. Spent'
    BY <1>0, <1>3, <2>2 DEF MetricsSaved, Spent, Holders, TypeOK
  <2>6. Expired'
    BY <1>0, <1>3, <2>2 DEF MetricsSaved, Expired, Cross, Answered, GivesUp, AllAnswers, Holders
  <2> QED
    BY <2>2, <2>3, <2>4, <2>5, <2>6 DEF Inv
<1>4. CASE MetricsWeights
  <2>1. Go("metrics", "all", AllWait)
    BY <1>4 DEF MetricsWeights
  <2>2. /\ pc' \in [Tasks -> TableCalls \cup MetricsCalls \cup Delays] /\ wait' \in [Tasks -> Nat]
        /\ pc'["metrics"] = "all" /\ wait'["metrics"] = AllWait
        /\ pc'["host"] = pc["host"] /\ wait'["host"] = wait["host"]
        /\ Places'
        /\ \A u \in Tasks : u # "metrics" => pc'[u] = pc[u] /\ wait'[u] = wait[u]
    BY <2>1, MetricsGoes
  <2>3. TypeOK'
    BY <1>0, <1>4, <2>2 DEF MetricsWeights, TypeOK
  <2>4. Holders'
    BY <1>0, <1>4, <2>2 DEF MetricsWeights, Holders
  <2>5. Spent'
    BY <1>0, <1>4, <2>2 DEF MetricsWeights, Spent, Holders, TypeOK
  <2>6. Expired'
    BY <1>0, <1>4, <2>2 DEF MetricsWeights, Expired, Cross, Answered, GivesUp, AllAnswers, Holders
  <2> QED
    BY <2>2, <2>3, <2>4, <2>5, <2>6 DEF Inv
<1>5. CASE MetricsScores
  <2>1. Go("metrics", "status", LookWait)
    BY <1>5 DEF MetricsScores
  <2>2. /\ pc' \in [Tasks -> TableCalls \cup MetricsCalls \cup Delays] /\ wait' \in [Tasks -> Nat]
        /\ pc'["metrics"] = "status" /\ wait'["metrics"] = LookWait
        /\ pc'["host"] = pc["host"] /\ wait'["host"] = wait["host"]
        /\ Places'
        /\ \A u \in Tasks : u # "metrics" => pc'[u] = pc[u] /\ wait'[u] = wait[u]
    BY <2>1, MetricsGoes
  <2>3. TypeOK'
    BY <1>0, <1>5, <2>2, Answers DEF MetricsScores, TypeOK
  <2>4. Holders'
    BY <1>0, <1>5, <2>2 DEF MetricsScores, Holders
  <2>5. Spent'
    BY <1>0, <1>5, <2>2 DEF MetricsScores, Spent, Holders, TypeOK
  <2>6. Expired'
    BY <1>0, <1>5, <2>2 DEF MetricsScores, Expired, Cross, Answered, GivesUp, AllAnswers, Holders
  <2> QED
    BY <2>2, <2>3, <2>4, <2>5, <2>6 DEF Inv
<1>6. CASE MetricsLooks
  <2>1. Go("metrics", "count", CountWait)
    BY <1>6 DEF MetricsLooks
  <2>2. /\ pc' \in [Tasks -> TableCalls \cup MetricsCalls \cup Delays] /\ wait' \in [Tasks -> Nat]
        /\ pc'["metrics"] = "count" /\ wait'["metrics"] = CountWait
        /\ pc'["host"] = pc["host"] /\ wait'["host"] = wait["host"]
        /\ Places'
        /\ \A u \in Tasks : u # "metrics" => pc'[u] = pc[u] /\ wait'[u] = wait[u]
    BY <2>1, MetricsGoes
  <2>3. TypeOK'
    BY <1>0, <1>6, <2>2 DEF MetricsLooks, TypeOK
  <2>4. Holders'
    BY <1>0, <1>6, <2>2 DEF MetricsLooks, Holders
  <2>5. Spent'
    BY <1>0, <1>6, <2>2 DEF MetricsLooks, Spent, Holders, TypeOK
  <2>6. Expired'
    BY <1>0, <1>6, <2>2 DEF MetricsLooks, Expired, Cross, Answered, GivesUp, AllAnswers, Holders
  <2> QED
    BY <2>2, <2>3, <2>4, <2>5, <2>6 DEF Inv
<1>7. CASE MetricsCounts
  <2>1. Go("metrics", "sleep", Period)
    BY <1>7 DEF MetricsCounts
  <2>2. /\ pc' \in [Tasks -> TableCalls \cup MetricsCalls \cup Delays] /\ wait' \in [Tasks -> Nat]
        /\ pc'["metrics"] = "sleep" /\ wait'["metrics"] = Period
        /\ pc'["host"] = pc["host"] /\ wait'["host"] = wait["host"]
        /\ Places'
        /\ \A u \in Tasks : u # "metrics" => pc'[u] = pc[u] /\ wait'[u] = wait[u]
    BY <2>1, MetricsGoes
  <2>3. TypeOK'
    BY <1>0, <1>7, <2>2 DEF MetricsCounts, TypeOK
  <2>4. Holders'
    BY <1>0, <1>7, <2>2 DEF MetricsCounts, Holders
  <2>5. Spent'
    BY <1>0, <1>7, <2>2 DEF MetricsCounts, Spent, Holders, TypeOK
  <2>6. Expired'
    BY <1>0, <1>7, <2>2 DEF MetricsCounts, Expired, Cross, Answered, GivesUp, AllAnswers, Holders
  <2> QED
    BY <2>2, <2>3, <2>4, <2>5, <2>6 DEF Inv
<1> QED
  BY <1>1, <1>2, <1>3, <1>4, <1>5, <1>6, <1>7 DEF MetricsStep

-----------------------------------------------------------------------------

\* The host task goes on, and the others stay.
LEMMA HostGoes ==
    ASSUME Inv, NEW place \in {"quiet", "credit", "update", "reception"}, NEW limit \in Nat,
           Go("host", place, limit)
    PROVE  /\ pc' \in [Tasks -> TableCalls \cup MetricsCalls \cup Delays]
           /\ wait' \in [Tasks -> Nat]
           /\ pc'["host"] = place /\ wait'["host"] = limit
           /\ pc'["metrics"] = pc["metrics"] /\ wait'["metrics"] = wait["metrics"]
           /\ Places'
           /\ \A u \in Tasks : u # "host" => pc'[u] = pc[u] /\ wait'[u] = wait[u]
<1>1. "host" \in Tasks /\ place \in TableCalls \cup MetricsCalls \cup Delays
  BY Names
<1>2. /\ pc' \in [Tasks -> TableCalls \cup MetricsCalls \cup Delays]
      /\ wait' \in [Tasks -> Nat]
      /\ pc'["host"] = place /\ wait'["host"] = limit
      /\ \A u \in Tasks : u # "host" => pc'[u] = pc[u] /\ wait'[u] = wait[u]
  BY <1>1, Went DEF Inv
<1> QED
  BY <1>2, Names DEF Inv, Places

\* When the host task starts or ends its work on a beacon, nobody has run out of time,
\* unless it has just given the table back.
LEMMA HostKeeps == ASSUME Inv, HostStep PROVE Inv'
<1> USE Limits, Names
<1>0. TypeOK /\ Places /\ Holders /\ Expired /\ Spent
  BY DEF Inv
<1>1. CASE HostHears
  <2>1. Go("host", "credit", 0)
    BY <1>1 DEF HostHears
  <2>2. /\ pc' \in [Tasks -> TableCalls \cup MetricsCalls \cup Delays] /\ wait' \in [Tasks -> Nat]
        /\ pc'["host"] = "credit" /\ wait'["host"] = 0
        /\ pc'["metrics"] = pc["metrics"] /\ wait'["metrics"] = wait["metrics"]
        /\ Places'
        /\ \A u \in Tasks : u # "host" => pc'[u] = pc[u] /\ wait'[u] = wait[u]
    BY <2>1, HostGoes
  <2>4. TypeOK'
    BY <1>0, <1>1, <2>2 DEF HostHears, TypeOK
  <2>5. Holders'
    BY <1>0, <1>1, <2>2 DEF HostHears, Holders, MetricsFor
  <2>6. Spent'
    BY <1>0, <1>1, <2>2 DEF HostHears, Spent, Holders, TypeOK, MetricsFor
  <2>7. Expired'
    BY <1>0, <1>1, <2>2 DEF HostHears, Expired, Cross, Holders, TypeOK, MetricsFor
  <2> QED
    BY <2>2, <2>4, <2>5, <2>6, <2>7 DEF Inv
<1>2. CASE HostCredits
  <2> PICK place \in {"update", "quiet"}, limit \in Nat :
         limit > 0 /\ Go("host", place, limit)
    BY <1>2 DEF HostCredits
  <2>1. Go("host", place, limit)
    BY <1>2 DEF HostCredits
  <2>2. /\ pc' \in [Tasks -> TableCalls \cup MetricsCalls \cup Delays] /\ wait' \in [Tasks -> Nat]
        /\ pc'["host"] = place /\ wait'["host"] = limit
        /\ pc'["metrics"] = pc["metrics"] /\ wait'["metrics"] = wait["metrics"]
        /\ Places'
        /\ \A u \in Tasks : u # "host" => pc'[u] = pc[u] /\ wait'[u] = wait[u]
    BY <2>1, HostGoes
  <2>4. TypeOK'
    BY <1>0, <1>2, <2>2 DEF HostCredits, TypeOK
  <2>5. Holders'
    BY <1>0, <1>2, <2>2 DEF HostCredits, Holders, MetricsFor
  <2>6. Spent'
    BY <1>0, <1>2, <2>2 DEF HostCredits, Spent, Holders, TypeOK, MetricsFor
  <2>7. Expired'
    BY <1>0, <1>2, <2>2 DEF HostCredits, Expired, Cross, Holders, TypeOK, MetricsFor
  <2> QED
    BY <2>2, <2>4, <2>5, <2>6, <2>7 DEF Inv
<1>3. CASE HostFinds
  <2>1. Go("host", "reception", 0)
    BY <1>3 DEF HostFinds
  <2>2. /\ pc' \in [Tasks -> TableCalls \cup MetricsCalls \cup Delays] /\ wait' \in [Tasks -> Nat]
        /\ pc'["host"] = "reception" /\ wait'["host"] = 0
        /\ pc'["metrics"] = pc["metrics"] /\ wait'["metrics"] = wait["metrics"]
        /\ Places'
        /\ \A u \in Tasks : u # "host" => pc'[u] = pc[u] /\ wait'[u] = wait[u]
    BY <2>1, HostGoes
  <2>4. TypeOK'
    BY <1>0, <1>3, <2>2 DEF HostFinds, TypeOK
  <2>5. Holders'
    BY <1>0, <1>3, <2>2 DEF HostFinds, Holders, MetricsFor
  <2>6. Spent'
    BY <1>0, <1>3, <2>2 DEF HostFinds, Spent, Holders, TypeOK, MetricsFor
  <2>7. Expired'
    BY <1>0, <1>3, <2>2 DEF HostFinds, Expired, Cross, Holders, TypeOK, MetricsFor
  <2> QED
    BY <2>2, <2>4, <2>5, <2>6, <2>7 DEF Inv
<1>4. CASE HostAdds
  <2>1. Go("host", "quiet", 1)
    BY <1>4 DEF HostAdds
  <2>2. /\ pc' \in [Tasks -> TableCalls \cup MetricsCalls \cup Delays] /\ wait' \in [Tasks -> Nat]
        /\ pc'["host"] = "quiet" /\ wait'["host"] = 1
        /\ pc'["metrics"] = pc["metrics"] /\ wait'["metrics"] = wait["metrics"]
        /\ Places'
        /\ \A u \in Tasks : u # "host" => pc'[u] = pc[u] /\ wait'[u] = wait[u]
    BY <2>1, HostGoes
  <2>3. table = NoTask
    BY <1>0, <1>4 DEF HostAdds, Answered, GivesUp, Holders, TypeOK
  <2>4. TypeOK'
    <3>1. known' \subseteq Nbrs /\ Cardinality(known') <= MaxNeighbors
      BY <1>0, <1>4, <2>3, Room DEF HostAdds, TypeOK, Beacons
    <3> QED
      BY <1>0, <1>4, <2>2, <3>1 DEF HostAdds, TypeOK
  <2>5. Holders'
    BY <1>0, <1>4, <2>2 DEF HostAdds, Holders, MetricsFor
  <2>6. Spent'
    BY <1>0, <1>4, <2>2 DEF HostAdds, Spent, Holders, TypeOK, MetricsFor
  <2>7. Expired'
    BY <1>0, <1>4, <2>2, <2>3 DEF HostAdds, Expired, Cross, Holders, TypeOK, MetricsFor
  <2> QED
    BY <2>2, <2>4, <2>5, <2>6, <2>7 DEF Inv
<1>5. CASE HostCounts
  <2>1. Go("host", "quiet", 1)
    BY <1>5 DEF HostCounts
  <2>2. /\ pc' \in [Tasks -> TableCalls \cup MetricsCalls \cup Delays] /\ wait' \in [Tasks -> Nat]
        /\ pc'["host"] = "quiet" /\ wait'["host"] = 1
        /\ pc'["metrics"] = pc["metrics"] /\ wait'["metrics"] = wait["metrics"]
        /\ Places'
        /\ \A u \in Tasks : u # "host" => pc'[u] = pc[u] /\ wait'[u] = wait[u]
    BY <2>1, HostGoes
  <2>4. TypeOK'
    BY <1>0, <1>5, <2>2 DEF HostCounts, TypeOK
  <2>5. Holders'
    BY <1>0, <1>5, <2>2 DEF HostCounts, Holders, MetricsFor
  <2>6. Spent'
    BY <1>0, <1>5, <2>2 DEF HostCounts, Spent, Holders, TypeOK, MetricsFor
  <2>7. Expired'
    BY <1>0, <1>5, <2>2 DEF HostCounts, Expired, Cross, Holders, TypeOK, MetricsFor
  <2> QED
    BY <2>2, <2>4, <2>5, <2>6, <2>7 DEF Inv
<1> QED
  BY <1>1, <1>2, <1>3, <1>4, <1>5 DEF HostStep

-----------------------------------------------------------------------------

\* Time passes only while the host task is held up by the metrics task, or waits for a
\* beacon: no limit runs out elsewhere, and each tick is one off what is left.
LEMMA TickKeeps == ASSUME Inv, Tick PROVE Inv'
<1> USE Limits, Names
<1>0. TypeOK /\ Places /\ Holders /\ Expired /\ Spent
  BY DEF Inv
<1>1. /\ pc' = pc /\ table' = table /\ metrics' = metrics
      /\ wait' \in [Tasks -> Nat]
      /\ \A t \in Tasks : wait'[t] = IF wait[t] > 0 THEN wait[t] - 1 ELSE 0
  BY <1>0 DEF Tick, TypeOK
<1>2. \A t \in Tasks : Waits(t)
  BY DEF Tick
<1>3. spent' \in Nat /\ spent' = IF pc["host"] = "quiet" THEN spent ELSE spent + 1
  BY <1>0 DEF Tick, TypeOK, Spent
<1>4. TypeOK' /\ Places' /\ Holders'
  BY <1>0, <1>1, <1>3 DEF Tick, TypeOK, Places, Holders
<1>5. pc["host"] # "quiet" =>
        /\ metrics = "metrics"
        /\ pc["metrics"] = "saving" \/ (pc["metrics"] = "all" /\ table = "host")
        /\ wait["metrics"] > 0
        /\ pc["host"] \in {"credit", "reception"}
  <2>1. Waits("host") /\ Waits("metrics")
    BY <1>2
  <2>2. table \in {NoTask, "host"} /\ metrics \in {NoTask, "metrics"}
    BY <1>0 DEF TypeOK
  <2> QED
    BY <1>0, <2>1, <2>2 DEF Waits, Holders, Places, Delays, TableCalls, MetricsCalls, NoTask
<1>6. Spent'
  BY <1>0, <1>1, <1>3, <1>5 DEF Spent, TypeOK, Places, Holders
<1>7. Expired'
  <2> SUFFICES ASSUME NEW t \in Tasks, pc[t] \in TableCalls, wait'[t] = 0
               PROVE  Cross'
    BY <1>1 DEF Expired
  <2>1. table = "host"
    BY <1>0, <1>2 DEF Waits, TypeOK, Delays, TableCalls, MetricsCalls
  <2> QED
    BY <1>0, <1>1, <1>5, <2>1 DEF Cross, Holders
<1> QED
  BY <1>4, <1>6, <1>7 DEF Inv

\* All of it holds in every state: Init gives it, and every task and the tick keep it.
THEOREM Invariance == Spec => []Inv
<1>1. Inv /\ [Next]_vars => Inv'
  <2> SUFFICES ASSUME Inv, [Next]_vars PROVE Inv'
    OBVIOUS
  <2>1. CASE UNCHANGED vars
    BY <2>1 DEF vars, Inv, TypeOK, Places, Holders, Expired, Cross, Spent
  <2> QED
    BY <2>1, MetricsKeeps, HostKeeps, MachineKeeps, WifiKeeps, TickKeeps DEF Next
<1> QED
  BY <1>1, Start, PTL DEF Spec

\* The variables of the four tasks and of the two mutexes keep their types.
THEOREM TypeCorrect == Spec => []TypeOK
BY Invariance, PTL DEF Inv

\* Whatever the limits and however many neighbors: a caller of the neighbor table runs out
\* of time only while the host task has the table and waits for the metrics, which the
\* metrics task has not given back before this very tick (neighbor_manager.c:84,
\* metrics.c:378-381).
THEOREM CrossCorrect == Spec => []GivesUpInTheCross
<1>1. Inv => GivesUpInTheCross
  <2> SUFFICES ASSUME Inv, NEW t \in Tasks, pc[t] \in TableCalls, GivesUp(t)
               PROVE  t # "host" /\ Cross
    BY DEF GivesUpInTheCross, Cross
  <2>1. Cross
    BY DEF Inv, Expired, GivesUp
  <2> QED
    BY <2>1, Names DEF Cross
<1> QED
  BY <1>1, Invariance, PTL

\* However the metrics task and the host task meet, a beacon costs the host task no more
\* than two saves of the metrics and one wait of theirs for the table.
THEOREM HostDelayCorrect == Spec => []HostDelayBounded
<1>1. Inv => HostDelayBounded
  BY DEF Inv, Spent, HostDelayBounded
<1> QED
  BY <1>1, Invariance, PTL
=============================================================================
