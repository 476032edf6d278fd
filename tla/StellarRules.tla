---------------------------- MODULE StellarRules ----------------------------
(***************************************************************************)
(* The rules by which a node picks a cluster head: the STELLAR utilities   *)
(* and score (metrics.c), the Pareto frontier and the Nash bargaining      *)
(* product (election.c).                                                   *)
(*                                                                         *)
(* Numbers are integers: a metric is in percent, as in a beacon; a utility *)
(* and a weight in thousandths; a score in millionths, so that the code's  *)
(* tolerance of 1e-6 is equality.  expf, logf and powf are constants.      *)
(***************************************************************************)
EXTENDS Config, FiniteSets, Functions

CONSTANTS
    ExpNeg,    \* thousandths of e^(-x/100), for the x that occur
    Ln,        \* thousandths of ln(s/1000), for the surpluses s that occur
    Root       \* thousandths of (x/100)^(1/2)

\* config.h
Disagreement == 100
UptimeMax == 100      \* UPTIME_MAX_DAYS, all of an uptime's percent
RemoteCentrality == 80

Dimensions == 1..4    \* battery, uptime, trust, link quality

----------------------------------------------------------------------------
(* Utilities of the metrics m = [battery, uptime, trust, linkq].            *)

BatteryUtility(b) == ((1000 - ExpNeg[2 * b]) * 1000) \div (1000 - ExpNeg[200])
UptimeUtility(u) == ((1000 - ExpNeg[2 * u]) * 1000) \div (1000 + ExpNeg[2 * u])
TrustUtility(t) == (t * t * (300 - 2 * t)) \div 1000
LinkUtility(l) == Root[l]

UptimeOf(m) == IF m.uptime > UptimeMax THEN UptimeMax ELSE m.uptime

Utilities(m) ==
    << BatteryUtility(m.battery), UptimeUtility(UptimeOf(m)),
       TrustUtility(m.trust), LinkUtility(m.linkq) >>

----------------------------------------------------------------------------
(* A candidate is [id, u, centrality]: its utilities and how central the    *)
(* electing node takes it to be.                                            *)

Dominates(u, v) ==
    /\ \A i \in Dimensions : u[i] >= v[i]
    /\ \E i \in Dimensions : u[i] > v[i]

Frontier(C) == {c \in C : \A d \in C : ~Dominates(d.u, c.u)}

ParetoRank(C, c) == Cardinality({d \in C : Dominates(c.u, d.u)})

Mean(S) == FoldFunction(+, 0, S) \div Cardinality(DOMAIN S)

\* Mutant: the spread of one value counts as unknown, as metrics_update has it.
CentralityOfMany(S) == IF Cardinality(DOMAIN S) < 2 THEN 0 ELSE 100

\* S[k] is the RSSI of neighbor k: their variance in percent of 400 dBm^2, less than all.
Centrality(S) ==
    IF DOMAIN S = {} THEN 100
    ELSE LET variance == Mean([k \in DOMAIN S |-> (S[k] - Mean(S)) * (S[k] - Mean(S))])
         IN  IF variance >= 400 THEN 0 ELSE 100 - variance \div 4

WeightedSum(w, x) == w[1] * x[1] + w[2] * x[2] + w[3] * x[3] + w[4] * x[4]

\* base / (1 + 0.5 (1 - centrality)) + 0.1 rank / MAX_NEIGHBORS
StellarScore(w, u, rank, centrality) ==
    (WeightedSum(w, u) * 200) \div (300 - centrality) + (100000 * rank) \div MaxNeighbors

AboveDisagreement(u) == \A i \in Dimensions : u[i] > Disagreement

\* The tables of functions hold what a node with the metrics m asks of them; e^0 is 1 and e^-2
\* is less.  A logarithm is asked for only of one that exceeds the disagreement in all utilities.
Tabulated(m) ==
    /\ ExpNeg[200] \in 0 .. 999 /\ ExpNeg[0] = 1000
    /\ ExpNeg[2 * m.battery] \in 0 .. 1000 /\ ExpNeg[2 * UptimeOf(m)] \in 0 .. 1000
    /\ Root[m.linkq] \in Nat
    /\ AboveDisagreement(Utilities(m)) =>
          \A i \in Dimensions : Ln[Utilities(m)[i] - Disagreement] \in Int

NashProduct(w, u) == WeightedSum(w, [i \in Dimensions |-> Ln[u[i] - Disagreement]])

\* Of the candidates C, those with the highest value; among equals, the lowest id.
Best(C, Value(_)) ==
    {c \in C : \A d \in C \ {c} :
        Value(c) > Value(d) \/ (Value(c) = Value(d) /\ c.id < d.id)}

Bargaining(C) == {c \in Frontier(C) : AboveDisagreement(c.u)}

\* Mutant: the fallback takes the best score of all candidates.
ElectedOverall(C, w) ==
    IF Bargaining(C) # {}
    THEN Best(Bargaining(C), LAMBDA c : NashProduct(w, c.u))
    ELSE Best(C, LAMBDA c : StellarScore(w, c.u, ParetoRank(C, c), c.centrality))

\* election_run_stellar: the Nash product, or the score if nobody is above the disagreement.
Elected(C, w) ==
    IF Cardinality(C) = 1 THEN C
    ELSE IF Bargaining(C) # {}
         THEN Best(Bargaining(C), LAMBDA c : NashProduct(w, c.u))
         ELSE Best(Frontier(C), LAMBDA c : StellarScore(w, c.u, ParetoRank(C, c), c.centrality))
=============================================================================
