------------------------------ MODULE Cluster ------------------------------
(***************************************************************************)
(* The roles of the nodes of one neighborhood (state_machine.c): how nodes *)
(* that boot at any time find or elect a cluster head, follow it, notice   *)
(* that it is gone, and how two heads become one.                          *)
(*                                                                         *)
(* Time advances in ticks.  In every tick each running node takes one loop *)
(* of state_machine_run, in any order; before it, the node hears the       *)
(* beacon of every node that is on the air while it scans, unless a beacon *)
(* is lost.  A node's clock is the time since its s_phase_start_ms.  All   *)
(* nodes are within each other's radius, and a metric only changes when a  *)
(* battery runs low.                                                       *)
(***************************************************************************)
EXTENDS StellarRules, Reelection, NeighborTable

CONSTANTS
    Neighborhood,  \* its node ids, positive numbers
    Profile,       \* each node's metrics and composite_score
    Drained,       \* the same when its battery is low
    SharedWeights, \* g_stellar_weights, the same on all nodes
    BootTime, JoinTime, DiscoverTime,  \* the 2 s of INIT, the 2 s and 5 s of DISCOVER
    Window, Grace,                     \* ELECTION_WINDOW_MS, CH_ASSERTION_GRACE_MS
    Stellar, Data, PreGuard,           \* STELLAR_PHASE_MS, DATA_PHASE_MS, BLE_PRE_GUARD_MS
    Resend,                            \* the 5 s between two schedules of one DATA phase
    MissThreshold,                     \* CH_MISS_THRESHOLD, in loops
    MaxFaults,                         \* bound: crashes, low batteries, loops with lost frames or failed accesses
    Rivalry,                           \* ticks for which there may be two heads
    Settling                           \* ticks after which a cluster has settled

ASSUME ClusterAssumption ==
    /\ Neighborhood \subseteq Nat \ {0} /\ IsFiniteSet(Neighborhood)
    /\ {BootTime, JoinTime, DiscoverTime, Window, Grace, Stellar, Data, Resend, MissThreshold,
        Rivalry, Settling} \subseteq Nat \ {0}
    /\ PreGuard \in 0..Stellar /\ MaxFaults \in Nat
    /\ SharedWeights \in [Dimensions -> Nat]

\* What a node measures; the tables of functions hold what these metrics ask of them.
NodeMetrics ==
    [battery : 0..100, uptime : Nat, trust : 0..100, linkq : 0..100, score : Nat]

ASSUME ProfileAssumption ==
    /\ {Profile, Drained} \subseteq [Neighborhood -> NodeMetrics]
    /\ \A n \in Neighborhood : Tabulated(Profile[n]) /\ Tabulated(Drained[n])

Frame == Stellar + Data
LongestWait == BootTime + DiscoverTime + Window + Grace   \* cap of since and window

VARIABLES
    node,       \* each node's state machine, see LocalState
    neighbors,  \* each node's neighbor table
    due,        \* nodes whose loop has not yet run in this tick
    faults,     \* history: the faults so far
    quiet,      \* history: ticks since the last boot or fault, up to Settling
    rivals      \* history: ticks for which there have been two asserted heads, up to Rivalry

clusterVars == <<node, neighbors, due, faults, quiet, rivals>>

Role == {"OFF", "INIT", "DISCOVER", "CANDIDATE", "CH", "MEMBER"}

LocalState ==
    [ role : Role,
      since : 0..LongestWait,    \* time since state_entry_time
      window : 0..LongestWait,   \* time since election_window_start
      asserted : BOOLEAN,        \* ch_assertion_verified
      started : BOOLEAN,         \* member_ble_started
      preGuard : BOOLEAN,        \* s_pre_guard_active
      miss : 0..MissThreshold,   \* ch_miss_count
      clock : 0..Frame,          \* now - s_phase_start_ms
      phase : {"STELLAR", "DATA"},
      sent : 0..Resend,          \* time since the last schedule; Resend if there was none
      adv : BOOLEAN,             \* advertising
      says : BOOLEAN,            \* is_ch of the advertised packet
      scan : BOOLEAN,            \* scanning
      low : BOOLEAN ]            \* the battery is below BATTERY_LOW_THRESHOLD

Off ==
    [ role |-> "OFF", since |-> 0, window |-> 0, asserted |-> FALSE, started |-> FALSE,
      preGuard |-> FALSE, miss |-> 0, clock |-> 0, phase |-> "STELLAR", sent |-> Resend,
      adv |-> FALSE, says |-> FALSE, scan |-> FALSE, low |-> FALSE ]

Alive == {n \in Neighborhood : node[n].role # "OFF"}
Asserted == {n \in Neighborhood : node[n].role = "CH" /\ node[n].asserted}

----------------------------------------------------------------------------
(* Steps of one node's state machine, from local state to local state.      *)

\* transition_to_state, to another state than the present one
Goes(s, role) ==
    [s EXCEPT
        !.role = role,
        !.since = 0,
        !.asserted = IF role = "CH" THEN FALSE ELSE @,
        !.started = IF role = "MEMBER" THEN FALSE ELSE @,
        !.preGuard = IF role = "MEMBER" THEN FALSE ELSE @,
        !.miss = IF role = "MEMBER" THEN 0 ELSE @]

\* to CANDIDATE, with election_reset_window
Stands(s) == [Goes(s, "CANDIDATE") EXCEPT !.window = 0]

\* A head that yields joins another one it knows, or stands for election.
YieldsFor(s, head) == IF head # 0 THEN Goes(s, "MEMBER") ELSE Stands(s)

\* ble_manager_update_advertisement also starts what was not advertising.
Advertises(s) == [s EXCEPT !.adv = TRUE, !.says = (s.role = "CH")]

OnAir(s) == [Advertises(s) EXCEPT !.scan = TRUE]

\* ble_manager_start_advertising, which does nothing while it advertises
Starts(s) == IF s.adv THEN s ELSE Advertises(s)

\* state_machine_update_phase, and the radio at a change of phase
Timed(s) ==
    LET clock == IF s.clock >= Frame THEN 0 ELSE s.clock
        phase == IF clock < Stellar THEN "STELLAR" ELSE "DATA"
        t == [s EXCEPT !.clock = clock, !.phase = phase]
    IN  IF phase = s.phase THEN t
        ELSE IF phase = "STELLAR" THEN [Starts(t) EXCEPT !.scan = TRUE]
        ELSE [t EXCEPT !.sent = Resend,
                       !.adv = IF s.role \in {"CH", "MEMBER"} THEN FALSE ELSE @]

InPreGuard(s) == s.phase = "STELLAR" /\ s.clock >= Stellar - PreGuard

\* MEMBER: the radio around the pre-guard, then the first start of advertising
MemberRadio(s) ==
    LET t == IF s.phase = "DATA" THEN s
             ELSE IF ~InPreGuard(s) THEN [s EXCEPT !.preGuard = FALSE, !.scan = TRUE]
             ELSE IF ~s.preGuard
                  THEN [s EXCEPT !.preGuard = TRUE, !.scan = FALSE, !.adv = FALSE]
             ELSE s
    IN  IF t.phase = "STELLAR" /\ ~t.started THEN [Starts(t) EXCEPT !.started = TRUE]
        ELSE t

----------------------------------------------------------------------------
(* What a node hears, and what it concludes from its table t.               *)

MetricsOf(n) == IF node[n].low THEN Drained[n] ELSE Profile[n]

Audible(n) == {m \in Alive \ {n} : node[n].scan /\ node[m].adv}

\* What the beacon of m leaves in a table.
Entry(m) ==
    [isCh |-> node[m].says, battery |-> MetricsOf(m).battery, uptime |-> 0,
     trust |-> MetricsOf(m).trust, linkq |-> MetricsOf(m).linkq,
     score |-> Announced(MetricsOf(m).score), age |-> 0]

\* A loop's accesses to the table, each of which gives up when it cannot have the lock in time:
\* the head it looks up and its entry (50 ms), the cleanup (100 ms), and copies of the table for
\* an election or a low battery, for rival heads and for a schedule (1 s).
Accesses == {"head", "entry", "cleanup", "copy", "rivals", "schedule"}

\* neighbor_manager_get_current_ch, neighbor_manager_cleanup_stale and neighbor_manager_get_all:
\* no head, no cleanup and no neighbors.
Head(t, gaveUp) == IF gaveUp THEN 0 ELSE CurrentCh(t)
CleanedUnless(t, gaveUp) == IF gaveUp THEN t ELSE Cleaned(t)
Copied(t, gaveUp) == IF gaveUp THEN << >> ELSE t

\* election_run, all RSSI values being alike
CandidatesOf(n, t) ==
    {[id |-> n, u |-> Utilities(MetricsOf(n)), centrality |-> 100]}
    \cup {[id |-> m, u |-> Utilities(t[m]), centrality |-> RemoteCentrality] :
            m \in {k \in DOMAIN t : t[k].trust >= TrustFloor}}

Winners(n, t) == {c.id : c \in Elected(CandidatesOf(n, t), SharedWeights)}

\* election_check_reelection_needed of a head: c is its copy for a low battery, r for rivals.
HeadYields(n, c, r) ==
    \/ /\ MetricsOf(n).battery < BatteryLow
       /\ \E m \in DOMAIN c : Healthier(c[m].battery, MetricsOf(n).battery)
    \/ MetricsOf(n).trust < TrustFloor
    \/ MetricsOf(n).linkq < LinkFloor
    \/ \E m \in DOMAIN r : r[m].isCh /\ Yields(n, MetricsOf(n).score, m, r[m].score)

\* election_check_reelection_needed of a member that takes h for its head, with the copy c
MemberLeaves(n, t, h, c) ==
    \/ h = 0
    \/ /\ t[h].battery < BatteryLow
       /\ \/ Healthier(MetricsOf(n).battery, t[h].battery)
          \/ \E m \in DOMAIN c \ {h} : Healthier(c[m].battery, t[h].battery)
    \/ t[h].trust < TrustFloor
    \/ t[h].linkq < LinkFloor

----------------------------------------------------------------------------
(* One loop of node n: s is its state after the change of phase, t its      *)
(* table after the beacons, lack the accesses to the table that give up.    *)

Becomes(n, s, t) ==
    /\ node' = [node EXCEPT ![n] = s]
    /\ neighbors' = [neighbors EXCEPT ![n] = t]

InitLoop(n, s, t) ==
    /\ s.role = "INIT"
    /\ Becomes(n, IF s.since >= BootTime THEN Goes(s, "DISCOVER") ELSE s, t)

DiscoverLoop(n, s, t, lack) ==
    LET h == Head(t, "head" \in lack) IN
    /\ s.role = "DISCOVER"
    /\ \/ /\ s.since < DiscoverTime
          /\ Becomes(n, IF h # 0 /\ s.since >= JoinTime
                        THEN [Goes(OnAir(s), "MEMBER") EXCEPT !.scan = FALSE]
                        ELSE OnAir(s), t)
       \/ /\ s.since >= DiscoverTime
          /\ Becomes(n, IF h # 0 THEN [Goes(s, "MEMBER") EXCEPT !.scan = FALSE]
                        ELSE Stands(s), t)

\* Without a copy of the table, election_run knows of no other candidate.
CandidateLoop(n, s, t, lack) ==
    LET c == CleanedUnless(t, "cleanup" \in lack) IN
    /\ s.role = "CANDIDATE"
    /\ \/ s.window < Window /\ Becomes(n, OnAir(s), c)
       \/ /\ s.window >= Window
          /\ \E w \in Winners(n, Copied(c, "copy" \in lack)) :
                Becomes(n, Goes(OnAir(s), IF w = n THEN "CH" ELSE "MEMBER"), c)

\* A head puts itself on the air in STELLAR only.
HeadRadio(s) == IF s.phase = "STELLAR" THEN OnAir(s) ELSE s

\* CH_ASSERTION_GRACE_MS: it looks for conflicts and has no duties.
Confirming(s) == ~s.asserted /\ s.since < Grace

\* The re-election check of a loop in which some accesses give up
Reconsiders(n, t, lack) ==
    HeadYields(n, Copied(t, "copy" \in lack), Copied(t, "rivals" \in lack))

HeadConfirms(n, s, t, lack) ==
    /\ s.role = "CH" /\ Confirming(s)
    /\ Becomes(n, IF Reconsiders(n, t, lack)
                  THEN YieldsFor(HeadRadio(s), Head(t, "head" \in lack))
                  ELSE HeadRadio(s), t)

\* In DATA it only yields to another head.
HeadReconsiders(n, s, t, lack) ==
    LET a == [HeadRadio(s) EXCEPT !.asserted = TRUE]
        h == Head(t, "head" \in lack)
    IN
    /\ s.role = "CH" /\ ~Confirming(s)
    /\ Reconsiders(n, t, lack)
    /\ Becomes(n, IF s.phase = "STELLAR" \/ h # 0 THEN YieldsFor(a, h) ELSE a, t)

\* In DATA its schedules go to all neighbors, and set the clock of each they reach; the
\* first one's send restarts its advertising, if that was on.
HeadDuties(n, s, t, lack, missed) ==
    LET c == CleanedUnless(t, "cleanup" \in lack)
        members == DOMAIN Copied(c, "schedule" \in lack)
        sends == s.phase = "DATA" /\ s.sent = Resend /\ members # {}
        got == IF sends THEN (Alive \cap members) \ missed ELSE {}
        a == [HeadRadio(s) EXCEPT !.asserted = TRUE,
                                  !.sent = IF sends THEN 0 ELSE @,
                                  !.says = @ \/ (sends /\ s.adv)]
    IN
    /\ s.role = "CH" /\ ~Confirming(s)
    /\ ~Reconsiders(n, t, lack)
    /\ node' = [k \in Neighborhood |->
                   IF k = n THEN a
                   ELSE IF k \in got THEN [node[k] EXCEPT !.clock = Stellar]
                   ELSE node[k]]
    /\ neighbors' = [neighbors EXCEPT ![n] = c]

\* It looks its head up twice: for the miss counter, and with its entry for the re-election.
MemberLoop(n, s, t, lack) ==
    LET r == MemberRadio(s)
        c == CleanedUnless(t, "cleanup" \in lack)
        miss == IF Head(t, "head" \in lack) = 0 THEN s.miss + 1 ELSE 0
        g == Head(t, "entry" \in lack)
        a == Advertises([r EXCEPT !.miss = miss])
    IN
    /\ s.role = "MEMBER"
    /\ \/ /\ s.phase = "DATA"
          /\ Becomes(n, r, c)
       \/ /\ s.phase = "STELLAR" /\ miss >= MissThreshold
          /\ Becomes(n, [Stands(r) EXCEPT !.miss = 0, !.started = FALSE], t)
       \/ /\ s.phase = "STELLAR" /\ miss < MissThreshold
          /\ Becomes(n, IF MemberLeaves(n, c, g, Copied(c, "copy" \in lack))
                        THEN [Stands(a) EXCEPT !.started = FALSE]
                        ELSE a, c)

RoleLoop(n, s, t, lack, missed) ==
    \/ InitLoop(n, s, t)
    \/ DiscoverLoop(n, s, t, lack)
    \/ CandidateLoop(n, s, t, lack)
    \/ HeadConfirms(n, s, t, lack)
    \/ HeadReconsiders(n, s, t, lack)
    \/ HeadDuties(n, s, t, lack, missed)
    \/ MemberLoop(n, s, t, lack)

Fault == faults < MaxFaults /\ faults' = faults + 1 /\ quiet' = 0
NoFault == UNCHANGED <<faults, quiet>>

\* The accesses that may give up in one loop; none when there is no fault left to make.
Lacking == IF faults < MaxFaults THEN SUBSET Accesses ELSE {{}}

Loop(n) ==
    /\ n \in due
    /\ due' = due \ {n}
    /\ UNCHANGED rivals
    /\ \E lost \in SUBSET Audible(n), missed \in SUBSET (Alive \ {n}), lack \in Lacking :
          /\ IF lack # {} \/ lost \cup missed # {} THEN Fault ELSE NoFault
          /\ \E t \in Updates(neighbors[n], [m \in Audible(n) \ lost |-> Entry(m)]) :
                RoleLoop(n, Timed(node[n]), t, lack, missed)

----------------------------------------------------------------------------
(* Time, boots and faults.                                                  *)

Later(x, cap) == IF x < cap THEN x + 1 ELSE x

Tick ==
    /\ due = {} /\ Alive # {}
    /\ due' = Alive
    /\ node' = [n \in Neighborhood |->
          IF n \notin Alive THEN node[n]
          ELSE [node[n] EXCEPT !.since = Later(@, LongestWait),
                               !.window = Later(@, LongestWait),
                               !.clock = Later(@, Frame),
                               !.sent = Later(@, Resend)]]
    /\ neighbors' = [n \in Neighborhood |-> Aged(neighbors[n])]
    /\ quiet' = Later(quiet, Settling)
    /\ rivals' = IF Cardinality(Asserted) > 1 THEN Later(rivals, Rivalry) ELSE 0
    /\ UNCHANGED faults

Boots(n) ==
    /\ n \notin Alive
    /\ node' = [node EXCEPT ![n] = [Off EXCEPT !.role = "INIT", !.low = node[n].low]]
    /\ quiet' = 0
    /\ UNCHANGED <<neighbors, due, faults, rivals>>

Crash(n) ==
    /\ n \in Alive
    /\ Fault
    /\ node' = [node EXCEPT ![n] = [Off EXCEPT !.low = node[n].low]]
    /\ neighbors' = [neighbors EXCEPT ![n] = << >>]
    /\ due' = due \ {n}
    /\ UNCHANGED rivals

\* metrics_update reads a low battery.
RunsLow(n) ==
    /\ n \in Alive /\ ~node[n].low
    /\ Fault
    /\ node' = [node EXCEPT ![n].low = TRUE]
    /\ UNCHANGED <<neighbors, due, rivals>>

ClusterInit ==
    /\ node = [n \in Neighborhood |-> Off]
    /\ neighbors = [n \in Neighborhood |-> << >>]
    /\ due = {} /\ faults = 0 /\ quiet = 0 /\ rivals = 0

ClusterNext == Tick \/ \E n \in Neighborhood : Loop(n) \/ Boots(n) \/ Crash(n) \/ RunsLow(n)

ClusterSpec == ClusterInit /\ [][ClusterNext]_clusterVars

----------------------------------------------------------------------------
(* Properties.                                                              *)

\* An entry of a neighbor table; an age stops at the timeout.
NeighborEntry ==
    [isCh : BOOLEAN, battery : 0..100, uptime : {0}, trust : 0..100, linkq : 0..100,
     score : Nat, age : 0..NeighborTimeout]

\* A node's state machine is in one of its states, its table holds other nodes only
\* (ble_gap_event skips the node's own beacons) and no more than fit in it, and only running
\* nodes take loops.
ClusterTypeOK ==
    /\ node \in [Neighborhood -> LocalState]
    /\ DOMAIN neighbors = Neighborhood
    /\ \A n \in Neighborhood :
          /\ DOMAIN neighbors[n] \subseteq Neighborhood \ {n}
          /\ Cardinality(DOMAIN neighbors[n]) <= MaxNeighbors
          /\ \A m \in DOMAIN neighbors[n] : neighbors[n][m] \in NeighborEntry
    /\ due \subseteq Alive
    /\ faults \in 0..MaxFaults /\ quiet \in 0..Settling /\ rivals \in 0..Rivalry

\* A head always listens, and one that has asserted itself can be heard as a head for the
\* whole STELLAR phase: a rival needs only to listen (state_machine.c:441-460).
HeadsAreHeard ==
    /\ \A n \in Neighborhood : node[n].role = "CH" => node[n].scan
    /\ \A n \in Asserted : node[n].phase = "STELLAR" => node[n].adv /\ node[n].says

\* What the beacons of others may leave in the table of n.
TablesOf(n) ==
    UNION {Updates(neighbors[n], [m \in heard |-> Entry(m)]) : heard \in SUBSET Audible(n)}

\* Whenever its window ends, whatever it has heard and whichever access to the table gives up,
\* a candidate elects one node, itself or another of the neighborhood
\* (state_machine.c:395-439, election.c:258-533).
EveryElectionDecides ==
    \A n \in Alive : \A t \in TablesOf(n) : \A old, blind \in BOOLEAN :
        \E w \in Neighborhood : Winners(n, Copied(CleanedUnless(t, old), blind)) = {w}

\* In a loop in which no access to the table gives up, a node only becomes a head while no
\* neighbor it knows and trusts is at least as good in all utilities and better in one.
\* (A candidate whose copy of the table gives up elects itself whoever it knows.)
NobodyBetterKnown ==
    [][\A n \in Neighborhood :
          node[n].role # "CH" /\ node'[n].role = "CH" /\ faults' = faults =>
              \A m \in DOMAIN neighbors'[n] :
                  neighbors'[n][m].trust >= TrustFloor =>
                      ~Dominates(Utilities(neighbors'[n][m]), Utilities(MetricsOf(n)))]_clusterVars

Beaten(n, m) == Yields(n, MetricsOf(n).score, m, Announced(MetricsOf(m).score))

\* Of two asserted heads in their STELLAR phases, the one that has to yield to the other has
\* yielded when it has taken a loop without a fault: it becomes a member or a candidate.
RivalYields ==
    [][\A n, m \in Asserted :
          (/\ n # m /\ Beaten(n, m)
           /\ Timed(node[n]).phase = "STELLAR" /\ node[m].phase = "STELLAR"
           /\ m \in DOMAIN neighbors[n] \/ Cardinality(Neighborhood) <= MaxNeighbors + 1
           /\ n \in due \ due' /\ faults' = faults)
          => node'[n].role \in {"CANDIDATE", "MEMBER"}]_clusterVars

\* A member whose lookups work and that hears who is there only leaves its head to stand for
\* election when the heads it knows have fallen silent, or one of them is running low or is
\* badly received (state_machine.c:739-815, election.c:624-682).
LeavesForAReason ==
    [][\A n \in Neighborhood :
          node[n].role = "MEMBER" /\ node'[n].role = "CANDIDATE" /\ faults' = faults =>
              \/ FreshHeads(neighbors'[n]) = {}
              \/ \E h \in FreshHeads(neighbors'[n]) :
                    neighbors'[n][h].battery < BatteryLow \/ neighbors'[n][h].linkq < LinkFloor]_clusterVars

\* A head that is fit, and that no head it knows of or can hear beats.
Unbeaten(n) ==
    /\ MetricsOf(n).battery >= BatteryLow
    /\ MetricsOf(n).trust >= TrustFloor /\ MetricsOf(n).linkq >= LinkFloor
    /\ \A m \in DOMAIN neighbors[n] :
          neighbors[n][m].isCh => ~Yields(n, MetricsOf(n).score, m, neighbors[n][m].score)
    /\ \A m \in Alive \ {n} : node[m].adv /\ node[m].says => ~Beaten(n, m)

\* Only a better head, or a failure of its own, moves an asserted head out of its role.
UnbeatenHeadStays ==
    [][\A n \in Asserted :
          Unbeaten(n) /\ node'[n].role # "OFF" => n \in Asserted']_clusterVars

\* One node is the head, has asserted itself, and all others follow it.
Settled ==
    \E h \in Alive :
        /\ Asserted = {h}
        /\ \A n \in Alive \ {h} : node[n].role = "MEMBER" /\ CurrentCh(neighbors[n]) \in {0, h}

\* Whatever the order of boots and the fault, the state machines of state_machine_run reach
\* one head and keep it: Settling ticks after the last disturbance the cluster is settled.
\* A cluster that left that state again by itself would be caught in a later quiet tick.
SettlesInTime == quiet = Settling => Settled

\* election_check_reelection_needed makes one of two heads yield, although the schedules they
\* send each other keep both off the air: they never last Rivalry ticks.
RivalsResolved == rivals < Rivalry

\* The comment on the grace period: it "prevents dual-CH scenarios".
AtMostOneAssertedHead == Cardinality(Asserted) <= 1
=============================================================================
