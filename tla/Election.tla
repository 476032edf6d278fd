------------------------------ MODULE Election ------------------------------
(***************************************************************************)
(* One election round: the nodes of a neighborhood hear each other's       *)
(* beacons in any order, and each decides by what it has heard             *)
(* (election_run of election.c, on the table neighbor_manager.c keeps).    *)
(*                                                                         *)
(* A node measures itself and beacons what it measured, but a receiver     *)
(* files every neighbor with an uptime of 0: the beacon has no uptime      *)
(* (ble_manager.c).                                                        *)
(***************************************************************************)
EXTENDS StellarRules, AdaptiveWeights

CONSTANTS
    Nodes,     \* node ids, positive numbers
    Profiles,  \* what a node may measure of itself
    Signals,   \* RSSI values a beacon may arrive with
    Weights,   \* what the weights of a node may be before it elects
    Varied     \* how much battery, trust and link quality of each node have varied

Metrics == [battery : 0..100, uptime : Nat, trust : 0..100, linkq : 0..100]

ASSUME ElectionAssumption ==
    /\ Nodes \subseteq Nat \ {0}
    /\ Profiles \subseteq Metrics
    /\ Signals \subseteq Int
    /\ Weights \subseteq [Metric -> 0 .. One]
    /\ Varied \in [Nodes -> [battery : Nat, trust : Nat, linkq : Nat]]

ASSUME TablesAssumption == \A p \in Profiles : Tabulated(p)

VARIABLES
    self,      \* what each node measures of itself
    weights,   \* g_stellar_weights of each node
    table,     \* its neighbor table: by neighbor, the beacon's metrics and its RSSI
    winner     \* the node it elected, 0 before its election

vars == <<self, weights, table, winner>>

----------------------------------------------------------------------------

Heard(n) == DOMAIN table[n]

InCluster(e) == e.rssi >= ClusterRadius
Trusted(e) == e.trust >= TrustFloor

\* Mutant: trust is not asked for.
AnyInCluster(n) == {m \in Heard(n) : InCluster(table[n][m])}

Eligible(n) == {m \in Heard(n) : InCluster(table[n][m]) /\ Trusted(table[n][m])}

Rssi(n) == [m \in Heard(n) |-> table[n][m].rssi]

SelfCandidate(n) == [id |-> n, u |-> Utilities(self[n]), centrality |-> Centrality(Rssi(n))]

RemoteCandidate(n, m) ==
    [id |-> m, u |-> Utilities(table[n][m]), centrality |-> RemoteCentrality]

Candidates(n) == {SelfCandidate(n)} \cup {RemoteCandidate(n, m) : m \in Eligible(n)}

\* What m's beacon tells, as the receiver files it.
Beacon(m, rssi) ==
    [battery |-> self[m].battery, uptime |-> 0, trust |-> self[m].trust,
     linkq |-> self[m].linkq, rssi |-> rssi]

----------------------------------------------------------------------------

Init ==
    /\ self \in [Nodes -> Profiles]
    /\ weights \in [Nodes -> Weights]
    /\ table = [n \in Nodes |-> << >>]
    /\ winner = [n \in Nodes |-> 0]

\* A beacon arrives (BLE_GAP_EVENT_DISC): neighbor_manager_update adds m, unless the table is full.
Hear(n, m) == \E rssi \in Signals :
    /\ n # m
    /\ m \notin Heard(n)
    /\ Cardinality(Heard(n)) < MaxNeighbors
    /\ winner[n] = 0
    /\ table' = [table EXCEPT ![n] =
           [k \in Heard(n) \cup {m} |-> IF k = m THEN Beacon(m, rssi) ELSE table[n][k]]]
    /\ UNCHANGED <<self, weights, winner>>

\* metrics_update_stellar_weights, by how much the node's metrics have varied
Reweighed(n) ==
    Adapted(weights[n],
            Confidence(Deviations(Varied[n].battery, Varied[n].trust, Varied[n].linkq)))

\* election_run adapts the weights once more before it decides by them.
Elect(n) ==
    /\ winner[n] = 0
    /\ weights' = [weights EXCEPT ![n] = Reweighed(n)]
    /\ \E k \in Elected(Candidates(n), Reweighed(n)) : winner' = [winner EXCEPT ![n] = k.id]
    /\ UNCHANGED <<self, table>>

Next == \E n \in Nodes : Elect(n) \/ \E m \in Nodes : Hear(n, m)

Spec == Init /\ [][Next]_vars

----------------------------------------------------------------------------
(* Properties.                                                              *)

TableEntry == [battery : 0..100, uptime : {0}, trust : 0..100, linkq : 0..100, rssi : Signals]

\* Every variable holds what the code's type can hold; no node is its own neighbor.
TypeOK ==
    /\ self \in [Nodes -> Profiles]
    /\ \A n \in Nodes : weights[n] \in [Metric -> 0 .. One]
    /\ DOMAIN table = Nodes
    /\ \A n \in Nodes :
          /\ Heard(n) \subseteq Nodes \ {n}
          /\ \A m \in Heard(n) : table[n][m] \in TableEntry
    /\ winner \in [Nodes -> Nodes \cup {0}]

Voted == {n \in Nodes : winner[n] # 0}

\* election.c:294-306: a node elects itself or a neighbor it hears within the radius
\* and trusts, also when the Nash product fails and the fallback decides.
WinnerEligible ==
    \A n \in Voted : winner[n] # n =>
        /\ winner[n] \in Heard(n)
        /\ table[n][winner[n]].rssi >= ClusterRadius
        /\ table[n][winner[n]].trust >= TrustFloor

\* election.c:90-129: whichever way the winner was found, no candidate the node knew
\* is at least as good in all four utilities and better in one.
WinnerUndominated ==
    \A n \in Voted : \E c \in Candidates(n) :
        /\ c.id = winner[n]
        /\ \A d \in Candidates(n) : ~Dominates(d.u, c.u)

\* election.c:206-233: two nodes with the same weights that hear only each other never
\* each elect the other; the default centrality of a remote node is below the own one.
DeferenceIsOneWay ==
    \A n, m \in Voted :
        (/\ Heard(n) = {m}
         /\ Heard(m) = {n}
         /\ weights[n] = weights[m]
         /\ winner[n] = m) => winner[m] # n

\* A round ends with one winner, whatever a node has heard: somebody is on the frontier, the
\* bargaining or the fallback values everybody on it, and the id decides between equals.
EveryRoundDecides ==
    \A n \in Nodes : \E c : Elected(Candidates(n), Reweighed(n)) = {c}

\* A node whose own four utilities exceed the disagreement elects itself, whoever is better: it
\* knows no neighbor's uptime, so that none of them bargains with it.
BargainerElectsItself ==
    \A n \in Voted : AboveDisagreement(Utilities(self[n])) => winner[n] = n

\* election.c:169: "all nodes pick the same winner", stated of nodes with equal weights
\* that hear and trust all the others within the radius.
Agreement ==
    \A n, m \in Voted :
        (/\ Eligible(n) = Nodes \ {n}
         /\ Eligible(m) = Nodes \ {m}
         /\ weights[n] = weights[m]) => winner[n] = winner[m]
=============================================================================
