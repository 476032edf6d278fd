--------------------------- MODULE ElectionProofs ---------------------------
(***************************************************************************)
(* How heads are chosen and how they stay.                                 *)
(*                                                                         *)
(* Of every election, whatever the nodes, their metrics, their weights and *)
(* the order and strength of the beacons: the winner is a node that may    *)
(* win, no candidate dominates it, of two nodes that hear only each other  *)
(* at most one defers, and every round ends with one winner.  Of every two *)
(* heads that compare fresh scores: they never both yield.                 *)
(*                                                                         *)
(* Of every cluster, however many nodes boot, fail and run low in any      *)
(* order: asserted heads are heard, a beaten rival yields and an unbeaten  *)
(* head stays, nobody leaves a fit head, and no node takes the role from a *)
(* neighbor that is better all round.                                      *)
(***************************************************************************)
EXTENDS Election, Cluster, FiniteSetTheorems, FunctionTheorems,
        WellFoundedInduction, TLAPS

\* The neighbors in the tables are other nodes, and what is filed of them was measured.
Filed ==
    /\ self \in [Nodes -> Profiles]
    /\ winner \in [Nodes -> Nodes \cup {0}]
    /\ DOMAIN table = Nodes
    /\ \A n \in Nodes :
          /\ IsFiniteSet(Heard(n))
          /\ Heard(n) \subseteq Nodes \ {n}
          /\ \A m \in Heard(n) : \E rssi \in Signals : table[n][m] = Beacon(m, rssi)

Inv == Filed /\ WinnerEligible /\ WinnerUndominated

-----------------------------------------------------------------------------
(* The rules                                                               *)

\* The utilities are not negative.  The one that counts the uptime is nothing for a
\* neighbor, of whom no uptime is known, and the others are those of the node itself.
NatVector == [Dimensions -> Nat]

LEMMA QuotientIsNatural ==
  ASSUME NEW x \in Nat, NEW d \in Nat \ {0}
  PROVE  x \div d \in Nat
OBVIOUS

LEMMA UtilitiesAreNatural ==
  ASSUME NEW p, NEW m, Tabulated(p),
         p.battery \in 0 .. 100, p.trust \in 0 .. 100, p.uptime \in Nat,
         m.battery = p.battery, m.trust = p.trust, m.linkq = p.linkq,
         m.uptime = p.uptime \/ m.uptime = 0
  PROVE  /\ Utilities(m) \in NatVector
         /\ m.uptime = 0 => Utilities(m)[2] = 0
         /\ \A i \in {1, 3, 4} : Utilities(m)[i] = Utilities(p)[i]
<1>1. p.battery \in 0 .. 100 /\ p.trust \in 0 .. 100 /\ p.uptime \in Nat
  OBVIOUS
<1>2. ExpNeg[2 * m.battery] \in 0 .. 1000 /\ ExpNeg[200] \in 0 .. 999
  BY DEF Tabulated
<1>3. ExpNeg[2 * UptimeOf(m)] \in 0 .. 1000 /\ (m.uptime = 0 => ExpNeg[2 * UptimeOf(m)] = 1000)
  <2>1. CASE m.uptime = 0
    <3>1. UptimeOf(m) = 0
      BY <2>1 DEF UptimeOf, UptimeMax
    <3> QED
      BY <3>1 DEF Tabulated
  <2>2. CASE m.uptime # 0
    <3>1. UptimeOf(m) = UptimeOf(p)
      BY <2>2 DEF UptimeOf
    <3> QED
      BY <2>2, <3>1 DEF Tabulated, UptimeOf, UptimeMax
  <2> QED
    BY <2>1, <2>2
<1>4. BatteryUtility(m.battery) \in Nat
  <2> DEFINE e == ExpNeg[2 * m.battery]
             f == ExpNeg[200]
             d == 1000 - f
  <2>1. e \in 0 .. 1000 /\ f \in 0 .. 999
    BY <1>2
  <2> HIDE DEF e, f
  <2>2. (1000 - e) * 1000 \in Nat /\ d \in Nat \ {0}
    BY <2>1
  <2> HIDE DEF d
  <2>3. ((1000 - e) * 1000) \div d \in Nat
    BY <2>2, QuotientIsNatural
  <2> QED
    BY <2>3 DEF BatteryUtility, d, e, f
<1>5. UptimeUtility(UptimeOf(m)) \in Nat /\ (m.uptime = 0 => UptimeUtility(UptimeOf(m)) = 0)
  <2> DEFINE e == ExpNeg[2 * UptimeOf(m)]
             d == 1000 + e
  <2>1. e \in 0 .. 1000 /\ (m.uptime = 0 => e = 1000)
    BY <1>3
  <2> HIDE DEF e
  <2>2. (1000 - e) * 1000 \in Nat /\ d \in Nat \ {0}
    BY <2>1
  <2>3. m.uptime = 0 => ((1000 - e) * 1000) \div d = 0
    BY <2>1
  <2> HIDE DEF d
  <2>4. ((1000 - e) * 1000) \div d \in Nat
    BY <2>2, QuotientIsNatural
  <2> QED
    BY <2>3, <2>4 DEF UptimeUtility, d, e
<1>6. TrustUtility(m.trust) \in Nat
  <2>1. \A t \in Nat, r \in Nat : t * t * r \in Nat
    OBVIOUS
  <2>2. m.trust \in Nat /\ 300 - 2 * m.trust \in Nat
    BY <1>1
  <2>3. m.trust * m.trust * (300 - 2 * m.trust) \in Nat
    BY <2>1, <2>2
  <2> QED
    BY <2>3, QuotientIsNatural DEF TrustUtility
<1>7. LinkUtility(m.linkq) \in Nat
  BY DEF LinkUtility, Tabulated
<1>8. Utilities(m) \in NatVector
  BY <1>4, <1>5, <1>6, <1>7 DEF Utilities, NatVector, Dimensions
<1> QED
  BY <1>5, <1>8 DEF Utilities

\* ... of what is filed of a profile, and of the profile itself
LEMMA ProfileUtilities ==
  ASSUME NEW p \in Profiles, NEW m,
         m.battery = p.battery, m.trust = p.trust, m.linkq = p.linkq,
         m.uptime = p.uptime \/ m.uptime = 0
  PROVE  /\ Utilities(m) \in NatVector
         /\ m.uptime = 0 => Utilities(m)[2] = 0
         /\ \A i \in {1, 3, 4} : Utilities(m)[i] = Utilities(p)[i]
<1>1. p.battery \in 0 .. 100 /\ p.trust \in 0 .. 100 /\ p.uptime \in Nat
  BY ElectionAssumption DEF Metrics
<1>2. Tabulated(p)
  BY TablesAssumption
<1> QED BY <1>1, <1>2, UtilitiesAreNatural

Vector == [Dimensions -> Int]

\* The utilities are numbers: what a candidate is compared by.
LEMMA UtilitiesAreNumbers ==
  ASSUME NEW p \in Profiles, NEW m,
         m.battery = p.battery, m.trust = p.trust, m.linkq = p.linkq,
         m.uptime = p.uptime \/ m.uptime = 0
  PROVE  Utilities(m) \in Vector
<1>1. Utilities(m) \in NatVector
  BY ProfileUtilities
<1> QED
  BY <1>1 DEF NatVector, Vector, Dimensions

\* No candidate dominates itself.
LEMMA Irreflexive == \A u \in Vector : ~Dominates(u, u)
BY DEF Vector, Dimensions, Dominates

\* Who is elected is a candidate; among several, none of them dominates it.
LEMMA ElectedIsUndominated ==
  ASSUME NEW C, NEW w, IsFiniteSet(C), \A c \in C : c.u \in Vector,
         NEW k \in Elected(C, w)
  PROVE  k \in C /\ \A d \in C : ~Dominates(d.u, k.u)
<1>1. CASE Cardinality(C) = 1
  <2>1. Elected(C, w) = C
    BY <1>1 DEF Elected
  <2>2. PICK x : C = {x}
    BY <1>1, FS_Singleton
  <2> QED
    BY <2>1, <2>2, Irreflexive
<1>2. CASE Cardinality(C) # 1
  <2>1. k \in Frontier(C)
    <3>1. CASE Bargaining(C) # {}
      <4>1. k \in Bargaining(C)
        BY <1>2, <3>1 DEF Elected, Best
      <4> QED
        BY <4>1 DEF Bargaining
    <3>2. CASE Bargaining(C) = {}
      BY <1>2, <3>2 DEF Elected, Best
    <3> QED
      BY <3>1, <3>2
  <2> QED
    BY <2>1 DEF Frontier
<1> QED
  BY <1>1, <1>2

\* A weighted sum grows with what it weighs.
LEMMA SumGrows ==
  ASSUME NEW w \in NatVector, NEW x \in NatVector, NEW y \in NatVector,
         \A i \in Dimensions : x[i] <= y[i]
  PROVE  /\ WeightedSum(w, x) \in Nat /\ WeightedSum(w, y) \in Nat
         /\ WeightedSum(w, x) <= WeightedSum(w, y)
<1>1. \A a, b, c \in Nat : b <= c => a * b \in Nat /\ a * b <= a * c
  OBVIOUS
<1>2. \A i \in 1..4 : w[i] \in Nat /\ x[i] \in Nat /\ y[i] \in Nat /\ x[i] <= y[i]
  BY DEF NatVector, Dimensions
<1>3. \A i \in 1..4 : w[i] * x[i] \in Nat /\ w[i] * y[i] \in Nat /\ w[i] * x[i] <= w[i] * y[i]
  BY <1>1, <1>2
<1> QED BY <1>3 DEF WeightedSum

\* A single neighbor is as central as can be, whatever its signal.
LEMMA SumOfOne ==
    ASSUME NEW m, NEW S, DOMAIN S = {m}, S[m] \in Int
    PROVE  FoldFunction(+, 0, S) = S[m]
<1> DEFINE pick(s) == CHOOSE x \in s : TRUE
           G(g) == [s \in SUBSET DOMAIN S |-> IF s = {} THEN 0 ELSE S[pick(s)] + g[s \ {pick(s)}]]
           f == CHOOSE g : g = G(g)
           h == [s \in SUBSET DOMAIN S |-> IF s = {} THEN 0 ELSE S[m]]
<1>1. \A s \in SUBSET DOMAIN S : s = {} \/ s = {m}
  OBVIOUS
<1>2. pick({m}) = m /\ {m} \ {m} = {}
  OBVIOUS
<1>3. h = G(h)
  <2> SUFFICES ASSUME NEW s \in SUBSET DOMAIN S
               PROVE  h[s] = IF s = {} THEN 0 ELSE S[pick(s)] + h[s \ {pick(s)}]
    BY Zenon
  <2>1. CASE s = {}
    BY <2>1
  <2>2. CASE s = {m}
    <3>1. h[s] = S[m] /\ h[{}] = 0
      BY <2>2
    <3>2. pick(s) = m /\ s \ {pick(s)} = {}
      BY <1>2, <2>2
    <3> HIDE DEF h, pick
    <3> QED BY <2>2, <3>1, <3>2
  <2> QED BY <1>1, <2>1, <2>2
<1>4. f = G(f)
  <2>1. \E g : g = G(g)
    BY <1>3
  <2> HIDE DEF G
  <2> QED BY <2>1
<1>5. FoldFunction(+, 0, S) = f[DOMAIN S]
  BY DEF FoldFunction, FoldFunctionOnSet, MapThenFoldSet
<1> HIDE DEF f
<1>6. f[{}] = 0
  BY <1>4
<1>7. f[{m}] = S[m] + f[{}]
  <2>1. {m} \in SUBSET DOMAIN S /\ {m} # {}
    OBVIOUS
  <2>2. f[{m}] = S[pick({m})] + f[{m} \ {pick({m})}]
    BY <1>4, <2>1
  <2> HIDE DEF pick
  <2> QED BY <1>2, <2>2
<1>8. f[{m}] = S[m]
  BY <1>6, <1>7
<1> QED BY <1>5, <1>8, Zenon

LEMMA MeanOfOne ==
    ASSUME NEW m, NEW S, DOMAIN S = {m}, S[m] \in Int
    PROVE  Mean(S) = S[m]
<1>1. Cardinality(DOMAIN S) = 1
  BY FS_Singleton
<1>2. FoldFunction(+, 0, S) = S[m]
  BY SumOfOne
<1>3. Mean(S) = S[m] \div 1
  BY <1>1, <1>2, Zenon DEF Mean
<1> QED BY <1>3

LEMMA CentralityOfOne ==
    ASSUME NEW m, NEW S, DOMAIN S = {m}, S[m] \in Int
    PROVE  Centrality(S) = 100
<1> DEFINE T == [k \in DOMAIN S |-> (S[k] - Mean(S)) * (S[k] - Mean(S))]
<1>1. DOMAIN T = {m} /\ T[m] = 0
  BY MeanOfOne
<1>2. Mean(T) = 0
  <2> HIDE DEF T
  <2> QED BY <1>1, MeanOfOne
<1>3. DOMAIN S # {}
  OBVIOUS
<1>4. Centrality(S) = IF Mean(T) >= 400 THEN 0 ELSE 100 - Mean(T) \div 4
  BY <1>3 DEF Centrality
<1> HIDE DEF T
<1> QED BY <1>2, <1>4

\* A node that knows one neighbor elects it only if the neighbor is better in every
\* utility, or scores as much although a neighbor's score is discounted.
LEMMA DefersToBetter ==
    ASSUME NEW w \in NatVector, NEW a \in NatVector, NEW b \in NatVector, b[2] = 0,
           NEW n \in Nat, NEW m \in Nat, n # m, NEW r,
           r = [id |-> m, u |-> b, centrality |-> RemoteCentrality],
           r \in Elected({[id |-> n, u |-> a, centrality |-> 100], r}, w)
    PROVE  /\ ~Dominates(a, b)
           /\ \/ Dominates(b, a)
              \/ (WeightedSum(w, b) * 200) \div 220 > WeightedSum(w, a)
              \/ (WeightedSum(w, b) * 200) \div 220 = WeightedSum(w, a) /\ m < n
<1> DEFINE s == [id |-> n, u |-> a, centrality |-> 100]
           C == {s, r}
<1>1. s # r /\ s.u = a /\ r.u = b /\ s.id = n /\ r.id = m
  OBVIOUS
<1>2. Cardinality(C) # 1
  <2>1. IsFiniteSet({s}) /\ C = {s} \cup {r}
    BY FS_Singleton
  <2>2. IsFiniteSet(C)
    BY <2>1, FS_AddElement
  <2>3. \A x : C # {x}
    BY <1>1
  <2> QED BY <2>2, <2>3, FS_Singleton
<1>3. ~AboveDisagreement(b)
  BY DEF AboveDisagreement, Disagreement, Dimensions
<1>4. r \in Elected(C, w)
  OBVIOUS
<1> HIDE DEF s
<1>5. r \notin Bargaining(C)
  BY <1>1, <1>3 DEF Bargaining
<1> HIDE DEF C
<1>6. Bargaining(C) = {}
  <2> SUFFICES ASSUME Bargaining(C) # {} PROVE FALSE
    OBVIOUS
  <2>1. r \in Bargaining(C)
    BY <1>2, <1>4 DEF Elected, Best
  <2> QED BY <1>5, <2>1
<1> DEFINE V(c) == StellarScore(w, c.u, ParetoRank(C, c), c.centrality)
<1>7. /\ r \in Frontier(C)
      /\ \A d \in Frontier(C) \ {r} : V(r) > V(d) \/ (V(r) = V(d) /\ r.id < d.id)
  BY <1>2, <1>4, <1>6 DEF Elected, Best
<1>8. s \in C /\ r \in C /\ \A c \in C : c = s \/ c = r
  BY DEF C
<1>9. ~Dominates(a, b)
  BY <1>1, <1>7, <1>8 DEF Frontier
<1>10. ASSUME ~Dominates(b, a)
       PROVE  \/ (WeightedSum(w, b) * 200) \div 220 > WeightedSum(w, a)
              \/ (WeightedSum(w, b) * 200) \div 220 = WeightedSum(w, a) /\ m < n
  <2>1. ~Dominates(a, a) /\ ~Dominates(b, b)
    BY DEF Dominates, NatVector, Dimensions
  <2>2. s \in Frontier(C)
    BY <1>1, <1>8, <1>10, <2>1 DEF Frontier
  <2>3. ParetoRank(C, r) = 0 /\ ParetoRank(C, s) = 0
    <3>1. {d \in C : Dominates(r.u, d.u)} = {} /\ {d \in C : Dominates(s.u, d.u)} = {}
      BY <1>1, <1>8, <1>9, <1>10, <2>1
    <3> QED BY <3>1, FS_EmptySet DEF ParetoRank
  <2>4. WeightedSum(w, a) \in Nat /\ WeightedSum(w, b) \in Nat
    <3>1. (\A i \in Dimensions : a[i] <= a[i]) /\ (\A i \in Dimensions : b[i] <= b[i])
      BY DEF NatVector
    <3> QED BY <3>1, SumGrows
  <2>5. (100000 * 0) \div MaxNeighbors = 0
    BY ConfigAssumption
  <2>6. V(s) = WeightedSum(w, a)
    <3> DEFINE x == WeightedSum(w, a)
    <3>1. s.centrality = 100
      BY DEF s
    <3>2. V(s) = (x * 200) \div (300 - 100) + (100000 * 0) \div MaxNeighbors
      BY <1>1, <2>3, <3>1 DEF StellarScore
    <3>3. x \in Nat
      BY <2>4
    <3> HIDE DEF x, V
    <3>4. (x * 200) \div (300 - 100) = x
      BY <3>3
    <3>5. V(s) = x
      BY <2>5, <3>2, <3>3, <3>4
    <3> QED BY <3>5 DEF x
  <2>7. V(r) = (WeightedSum(w, b) * 200) \div 220
    <3> DEFINE x == WeightedSum(w, b)
    <3>1. r.centrality = 80
      BY DEF RemoteCentrality
    <3>2. V(r) = (x * 200) \div (300 - 80) + (100000 * 0) \div MaxNeighbors
      BY <1>1, <2>3, <3>1 DEF StellarScore
    <3>3. x \in Nat
      BY <2>4
    <3> HIDE DEF x, V
    <3>4. V(r) = (x * 200) \div 220
      BY <2>5, <3>2, <3>3
    <3> QED BY <3>4 DEF x
  <2> HIDE DEF V
  <2>8. V(r) > V(s) \/ (V(r) = V(s) /\ r.id < s.id)
    BY <1>1, <1>7, <2>2
  <2> QED BY <1>1, <2>6, <2>7, <2>8
<1> QED BY <1>9, <1>10

-----------------------------------------------------------------------------
(* The round                                                               *)

\* The candidates of a node are finitely many, with numbers for utilities.
LEMMA CandidatesAreFit ==
  ASSUME Filed, NEW n \in Nodes
  PROVE  IsFiniteSet(Candidates(n)) /\ \A c \in Candidates(n) : c.u \in Vector
<1> DEFINE Remote == {RemoteCandidate(n, m) : m \in Eligible(n)}
           f == [m \in Eligible(n) |-> RemoteCandidate(n, m)]
<1>1. Eligible(n) \subseteq Heard(n) /\ IsFiniteSet(Eligible(n))
  <2>1. Eligible(n) \subseteq Heard(n) /\ IsFiniteSet(Heard(n))
    BY DEF Filed, Eligible
  <2> QED
    BY <2>1, FS_Subset
<1>2. IsFiniteSet(Remote)
  <2>1. f \in Surjection(Eligible(n), Remote)
    BY Fun_IsSurj
  <2> QED
    BY <1>1, <2>1, FS_Surjection
<1>3. IsFiniteSet(Candidates(n))
  <2>1. Candidates(n) = Remote \cup {SelfCandidate(n)}
    BY DEF Candidates
  <2> HIDE DEF Remote
  <2> QED
    BY <1>2, <2>1, FS_AddElement
<1>4. SelfCandidate(n).u \in Vector
  <2>1. self[n] \in Profiles
    BY DEF Filed
  <2> QED
    BY <2>1, UtilitiesAreNumbers DEF SelfCandidate
<1>5. \A m \in Eligible(n) : RemoteCandidate(n, m).u \in Vector
  <2> TAKE m \in Eligible(n)
  <2>1. PICK rssi \in Signals : table[n][m] = Beacon(m, rssi)
    BY <1>1 DEF Filed
  <2>2. self[m] \in Profiles
    BY <1>1 DEF Filed
  <2>3. Utilities(Beacon(m, rssi)) \in Vector
    BY <2>2, UtilitiesAreNumbers DEF Beacon
  <2> QED
    BY <2>1, <2>3 DEF RemoteCandidate
<1> QED
  BY <1>3, <1>4, <1>5 DEF Candidates

\* A beacon that is heard changes neither a table that has been voted with nor what is
\* filed already.
LEMMA FiledStep == Filed /\ [Next]_vars => Filed'
<1> SUFFICES ASSUME Filed, [Next]_vars PROVE Filed'
  OBVIOUS
<1>1. ASSUME NEW n \in Nodes, NEW m \in Nodes, Hear(n, m) PROVE Filed'
  <2>1. PICK rssi \in Signals :
           /\ n # m /\ m \notin Heard(n) /\ winner[n] = 0
           /\ table' = [table EXCEPT ![n] =
                  [k \in Heard(n) \cup {m} |-> IF k = m THEN Beacon(m, rssi) ELSE table[n][k]]]
           /\ UNCHANGED <<self, winner>>
    BY <1>1 DEF Hear
  <2>2. \A k \in Nodes : Heard(k)' = IF k = n THEN Heard(n) \cup {m} ELSE Heard(k)
    BY <2>1 DEF Heard, Filed
  <2>3. \A k \in Nodes : IsFiniteSet(Heard(k)')
    <3> TAKE k \in Nodes
    <3>1. IsFiniteSet(Heard(k)) /\ IsFiniteSet(Heard(k) \cup {m})
      BY FS_AddElement DEF Filed
    <3>2. Heard(k)' = Heard(k) \cup {m} \/ Heard(k)' = Heard(k)
      BY <2>2
    <3> QED
      BY <3>1, <3>2
  <2>4. \A k, r : Beacon(k, r)' = Beacon(k, r)
    BY <2>1 DEF Beacon
  <2>5. \A k \in Nodes : \A l \in Heard(k)' : \E r \in Signals : table'[k][l] = Beacon(l, r)
    BY <2>1, <2>2 DEF Filed
  <2>6. DOMAIN table' = Nodes /\ \A k \in Nodes : Heard(k)' \subseteq Nodes \ {k}
    BY <2>1, <2>2 DEF Filed
  <2> QED
    BY <2>1, <2>3, <2>4, <2>5, <2>6 DEF Filed
<1>2. ASSUME NEW n \in Nodes, Elect(n) PROVE Filed'
  <2>1. UNCHANGED <<self, table>>
    BY <1>2 DEF Elect
  <2>2. PICK w : \E k \in Elected(Candidates(n), w) : winner' = [winner EXCEPT ![n] = k.id]
    BY <1>2, Zenon DEF Elect
  <2>2a. PICK k \in Elected(Candidates(n), w) : winner' = [winner EXCEPT ![n] = k.id]
    BY <2>2
  <2>3. k \in Candidates(n)
    BY CandidatesAreFit, ElectedIsUndominated
  <2>4. k.id \in Nodes
    BY <2>3 DEF Candidates, SelfCandidate, RemoteCandidate, Eligible, Filed
  <2> QED
    BY <2>1, <2>2a, <2>4 DEF Filed, Heard, Beacon
<1>3. CASE UNCHANGED vars
  BY <1>3 DEF vars, Filed, Heard, Beacon
<1> QED
  BY <1>1, <1>2, <1>3 DEF Next

LEMMA FiledStart == Init => Filed
<1> SUFFICES ASSUME Init PROVE Filed
  OBVIOUS
<1>1. \A n \in Nodes : Heard(n) = {}
  BY DEF Init, Heard
<1> QED
  BY <1>1, FS_EmptySet DEF Init, Filed

\* What a node knew when it voted does not change any more.
LEMMA VotesStand ==
  ASSUME Filed, NEW n \in Nodes, NEW m \in Nodes, Hear(n, m), NEW k \in Nodes, winner'[k] # 0
  PROVE  /\ winner[k] # 0 /\ winner' = winner
         /\ table'[k] = table[k] /\ Heard(k)' = Heard(k) /\ Candidates(k)' = Candidates(k)
<1>1. winner' = winner /\ winner[n] = 0 /\ self' = self
  BY DEF Hear
<1>2. k # n
  BY <1>1
<1>3. table'[k] = table[k]
  BY <1>2 DEF Hear, Filed
<1>4. Heard(k)' = Heard(k)
  BY <1>3 DEF Heard
<1>5. Candidates(k)' = Candidates(k)
  BY <1>1, <1>3, <1>4 DEF Candidates, SelfCandidate, RemoteCandidate, Eligible, Rssi
<1> QED
  BY <1>1, <1>3, <1>4, <1>5

\* An election decides among the candidates of the node, and nobody else's.
LEMMA Votes ==
  ASSUME Filed, NEW n \in Nodes, Elect(n)
  PROVE  /\ UNCHANGED <<self, table>>
         /\ \E c \in Candidates(n) : /\ winner' = [winner EXCEPT ![n] = c.id]
                                  /\ \A d \in Candidates(n) : ~Dominates(d.u, c.u)
<1>1. UNCHANGED <<self, table>>
  BY DEF Elect
<1>2. PICK w : \E c \in Elected(Candidates(n), w) : winner' = [winner EXCEPT ![n] = c.id]
  BY Zenon DEF Elect
<1>3. PICK c \in Elected(Candidates(n), w) : winner' = [winner EXCEPT ![n] = c.id]
  BY <1>2
<1>4. c \in Candidates(n) /\ \A d \in Candidates(n) : ~Dominates(d.u, c.u)
  BY CandidatesAreFit, ElectedIsUndominated
<1> QED
  BY <1>1, <1>3, <1>4

LEMMA EligibleStep == Filed /\ WinnerEligible /\ [Next]_vars => WinnerEligible'
<1> SUFFICES ASSUME Filed, WinnerEligible, [Next]_vars,
                    NEW k \in Nodes, winner'[k] # 0, winner'[k] # k
             PROVE  /\ winner'[k] \in Heard(k)'
                    /\ table'[k][winner'[k]].rssi >= ClusterRadius
                    /\ table'[k][winner'[k]].trust >= TrustFloor
  BY DEF WinnerEligible, Voted
<1>0. winner[k] # 0 /\ winner[k] # k =>
         /\ winner[k] \in Heard(k)
         /\ table[k][winner[k]].rssi >= ClusterRadius
         /\ table[k][winner[k]].trust >= TrustFloor
  BY DEF WinnerEligible, Voted
<1>1. CASE \E n, m \in Nodes : Hear(n, m)
  BY <1>0, <1>1, VotesStand
<1>2. ASSUME NEW n \in Nodes, Elect(n), n # k
      PROVE  winner'[k] = winner[k] /\ table'[k] = table[k] /\ Heard(k)' = Heard(k)
  BY <1>2, Votes DEF Filed, Heard
<1>3. CASE Elect(k)
  <2>1. PICK c \in Candidates(k) : winner' = [winner EXCEPT ![k] = c.id]
    BY <1>3, Votes
  <2>2. winner'[k] = c.id /\ table' = table
    BY <1>3, <2>1, Votes DEF Filed
  <2>3. c.id \in Eligible(k)
    BY <2>2 DEF Candidates, SelfCandidate, RemoteCandidate
  <2> QED
    BY <2>2, <2>3 DEF Eligible, InCluster, Trusted, Heard
<1>4. CASE UNCHANGED vars
  BY <1>0, <1>4 DEF vars, Heard
<1> QED
  BY <1>0, <1>1, <1>2, <1>3, <1>4 DEF Next

LEMMA UndominatedStep == Filed /\ WinnerUndominated /\ [Next]_vars => WinnerUndominated'
<1> SUFFICES ASSUME Filed, WinnerUndominated, [Next]_vars,
                    NEW k \in Nodes, winner'[k] # 0
             PROVE  \E c \in Candidates(k)' : /\ c.id = winner'[k]
                                           /\ \A d \in Candidates(k)' : ~Dominates(d.u, c.u)
  BY DEF WinnerUndominated, Voted
<1>0. winner[k] # 0 => \E c \in Candidates(k) : /\ c.id = winner[k]
                                             /\ \A d \in Candidates(k) : ~Dominates(d.u, c.u)
  BY DEF WinnerUndominated, Voted
<1>1. CASE \E n, m \in Nodes : Hear(n, m)
  BY <1>0, <1>1, VotesStand
<1>2. ASSUME UNCHANGED <<self, table>> PROVE Candidates(k)' = Candidates(k)
  BY <1>2 DEF Candidates, SelfCandidate, RemoteCandidate, Eligible, Rssi, Heard
<1>3. ASSUME NEW n \in Nodes, Elect(n), n # k PROVE winner'[k] = winner[k]
  BY <1>3, Votes DEF Filed
<1>4. CASE Elect(k)
  <2>1. PICK c \in Candidates(k) : /\ winner' = [winner EXCEPT ![k] = c.id]
                                 /\ \A d \in Candidates(k) : ~Dominates(d.u, c.u)
    BY <1>4, Votes
  <2>2. winner'[k] = c.id /\ Candidates(k)' = Candidates(k)
    BY <1>2, <1>4, <2>1, Votes DEF Filed
  <2> QED
    BY <2>1, <2>2
<1>5. CASE UNCHANGED vars
  BY <1>0, <1>2, <1>5 DEF vars
<1>6. \A n \in Nodes : Elect(n) => UNCHANGED <<self, table>>
  BY Votes
<1> QED
  BY <1>0, <1>1, <1>2, <1>3, <1>4, <1>5, <1>6 DEF Next

-----------------------------------------------------------------------------

LEMMA Invariance == Spec => []Inv
<1>1. Init => Inv
  <2>1. Init => WinnerEligible /\ WinnerUndominated
    BY DEF Init, WinnerEligible, WinnerUndominated, Voted
  <2> QED
    BY <2>1, FiledStart DEF Inv
<1>2. Inv /\ [Next]_vars => Inv'
  BY FiledStep, EligibleStep, UndominatedStep DEF Inv
<1> QED
  BY <1>1, <1>2, PTL DEF Spec

\* However many nodes, whatever they measure and in whatever order they hear each other: who
\* is elected is the node itself or a neighbor it trusts within the radius (election.c:294-306).
THEOREM EligibleCorrect == Spec => []WinnerEligible
<1>1. Inv => WinnerEligible
  BY DEF Inv
<1> QED
  BY <1>1, Invariance, PTL

\* Whatever the weights, and whichever of product and fallback decides, no candidate the node
\* knew is at least as good as the winner in all utilities and better in one (election.c:90-129).
THEOREM UndominatedCorrect == Spec => []WinnerUndominated
<1>1. Inv => WinnerUndominated
  BY DEF Inv
<1> QED
  BY <1>1, Invariance, PTL

-----------------------------------------------------------------------------
(* The weights                                                             *)

LEMMA ShareIsAPart ==
    ASSUME NEW x \in Nat, NEW whole \in Nat, x <= whole, whole > 0
    PROVE  Share(x, whole) \in 0 .. One
<1> DEFINE a == 2 * One * x + whole
           d == 2 * whole
           q == a \div d
<1>1. a \in Nat /\ d \in Nat \ {0} /\ a <= 2001 * whole /\ d = 2 * whole
  BY DEF One
<1> HIDE DEF a, d
<1>2. q \in Nat /\ d * q <= a
  BY <1>1
<1> HIDE DEF q
<1>3. q <= 1000
  <2> SUFFICES ASSUME q >= 1001 PROVE FALSE
    BY <1>2
  <2>1. \A k, l, e \in Nat : k <= l => e * k <= e * l
    OBVIOUS
  <2>2. d * 1001 <= d * q
    BY <1>1, <1>2, <2>1
  <2> QED BY <1>1, <1>2, <2>2
<1> QED BY <1>2, <1>3 DEF Share, q, a, d, One

WeightVector == [Metric -> 0 .. One]

LEMMA WeightsAreNatural == WeightVector \subseteq NatVector
<1> SUFFICES ASSUME NEW w \in WeightVector PROVE w \in NatVector
  OBVIOUS
<1>1. w \in [1..4 -> 0 .. One]
  BY DEF WeightVector, Metric
<1>2. ASSUME NEW i \in 1..4 PROVE w[i] \in Nat
  <2>1. w[i] \in 0 .. One
    BY <1>1
  <2> QED BY <2>1 DEF One
<1> QED BY <1>1, <1>2 DEF NatVector, Dimensions

LEMMA NormalisedIsAVector ==
    ASSUME NEW x, x[1] \in Nat, x[2] \in Nat, x[3] \in Nat, x[4] \in Nat, Sum4(x) > 0
    PROVE  Normalised(x) \in WeightVector
<1>1. /\ Sum4(x) \in Nat
      /\ x[1] <= Sum4(x) /\ x[2] <= Sum4(x) /\ x[3] <= Sum4(x) /\ x[4] <= Sum4(x)
  BY DEF Sum4
<1>2. Share(x[1], Sum4(x)) \in 0 .. One /\ Share(x[2], Sum4(x)) \in 0 .. One
  BY <1>1, ShareIsAPart
<1>3. Share(x[3], Sum4(x)) \in 0 .. One /\ Share(x[4], Sum4(x)) \in 0 .. One
  BY <1>1, ShareIsAPart
<1> HIDE DEF One
<1> QED BY <1>2, <1>3 DEF Normalised, Each, WeightVector, Metric

\* Whatever has varied how much, the confidences, the targets and the adapted weights
\* are parts of a whole.
LEMMA ConfidenceIsAVector ==
    ASSUME NEW d, d[1] \in Nat, d[2] = UptimeDeviation, d[3] \in Nat, d[4] \in Nat
    PROVE  Confidence(d) \in WeightVector
<1> DEFINE x == Each(LAMBDA i : Certainty(d[i]))
<1>1. \A k \in Nat : Certainty(k) \in Nat
  <2> SUFFICES ASSUME NEW k \in Nat PROVE Certainty(k) \in Nat
    OBVIOUS
  <2> DEFINE e == AtLeast(k, 1)
  <2>1. e \in Nat \ {0}
    BY DEF AtLeast
  <2> HIDE DEF e
  <2>2. 1000000 \div e \in Nat
    BY <2>1, QuotientIsNatural
  <2> QED BY <2>2 DEF Certainty, e
<1>2. Certainty(UptimeDeviation) > 0
  BY DEF Certainty, UptimeDeviation, AtLeast
<1>3. /\ x[1] = Certainty(d[1]) /\ x[2] = Certainty(d[2])
      /\ x[3] = Certainty(d[3]) /\ x[4] = Certainty(d[4])
  BY DEF Each
<1> HIDE DEF x
<1>4. x[1] \in Nat /\ x[2] \in Nat /\ x[2] > 0 /\ x[3] \in Nat /\ x[4] \in Nat
  BY <1>1, <1>2, <1>3 DEF UptimeDeviation
<1>5. Sum4(x) > 0
  BY <1>4 DEF Sum4
<1>6. Normalised(x) \in WeightVector
  BY <1>4, <1>5, NormalisedIsAVector
<1> QED BY <1>6 DEF Confidence, x

Floored(y) == << AtLeast(y[1], MinWeight), AtLeast(y[2], MinWeight),
                 AtLeast(y[3], MinWeight), AtLeast(y[4], MinWeight) >>

LEMMA FlooredIsAVector ==
    ASSUME NEW y, y[1] \in Int, y[2] \in Int, y[3] \in Int, y[4] \in Int
    PROVE  Normalised(Floored(y)) \in WeightVector
<1> DEFINE x == Floored(y)
<1>1. \A k \in Int : AtLeast(k, MinWeight) \in Nat /\ AtLeast(k, MinWeight) > 0
  BY DEF AtLeast, MinWeight
<1>2. /\ x[1] = AtLeast(y[1], MinWeight) /\ x[2] = AtLeast(y[2], MinWeight)
      /\ x[3] = AtLeast(y[3], MinWeight) /\ x[4] = AtLeast(y[4], MinWeight)
  BY DEF Floored
<1> HIDE DEF x
<1>3. /\ x[1] \in Nat /\ x[1] > 0 /\ x[2] \in Nat /\ x[2] > 0
      /\ x[3] \in Nat /\ x[3] > 0 /\ x[4] \in Nat /\ x[4] > 0
  BY <1>1, <1>2
<1>4. Sum4(x) > 0
  BY <1>3 DEF Sum4
<1>5. Normalised(x) \in WeightVector
  BY <1>3, <1>4, NormalisedIsAVector
<1> QED BY <1>5 DEF x

LEMMA AdaptedIsAVector ==
    ASSUME NEW w \in WeightVector, NEW c \in WeightVector
    PROVE  Adapted(w, c) \in WeightVector
<1>1. \A x \in Int : x \div 200 \in Int /\ x \div (2 * One) \in Int
  BY DEF One
<1>0. ASSUME NEW v \in WeightVector, NEW i \in 1..4 PROVE v[i] \in Int
  <2>1. v[i] \in 0 .. One
    BY DEF WeightVector, Metric
  <2> QED BY <2>1 DEF One
<1>2. \A i \in 1..4 : w[i] \in Int /\ c[i] \in Int /\ Base[i] \in Int
  <2>1. Base[1] \in Int /\ Base[2] \in Int /\ Base[3] \in Int /\ Base[4] \in Int
    BY DEF Base
  <2> QED BY <1>0, <2>1
<1>3. Target(c) \in WeightVector
  <2> DEFINE y == Each(LAMBDA i : (Base[i] * (2 * One + c[i] - 250)) \div (2 * One))
  <2>1. \A i \in 1..4 : (Base[i] * (2 * One + c[i] - 250)) \div (2 * One) \in Int
    <3> TAKE i \in 1..4
    <3>1. \A k, l \in Int : k * (2 * One + l - 250) \in Int
      BY DEF One
    <3> QED BY <1>1, <1>2, <3>1
  <2>2. y[1] \in Int /\ y[2] \in Int /\ y[3] \in Int /\ y[4] \in Int
    BY <2>1 DEF Each
  <2>3. Pull(c) = Floored(y)
    BY DEF Pull, Each, Floored
  <2> HIDE DEF y
  <2> QED BY <2>2, <2>3, FlooredIsAVector DEF Target
<1> DEFINE t == Target(c)
           y == Descended(w, t)
<1>4. \A i \in 1..4 : t[i] \in Int
  BY <1>0, <1>3
<1> HIDE DEF t
<1>5. \A i \in 1..4 : 10 * (w[i] - t[i]) + (w[i] - Base[i]) \in Int
  BY <1>2, <1>4
<1>6. /\ y[1] = w[1] - (10 * (w[1] - t[1]) + (w[1] - Base[1]) + 100) \div 200
      /\ y[2] = w[2] - (10 * (w[2] - t[2]) + (w[2] - Base[2]) + 100) \div 200
      /\ y[3] = w[3] - (10 * (w[3] - t[3]) + (w[3] - Base[3]) + 100) \div 200
      /\ y[4] = w[4] - (10 * (w[4] - t[4]) + (w[4] - Base[4]) + 100) \div 200
  BY DEF Descended, Each, Gradient
<1> HIDE DEF y
<1>7. \A k, l \in Int : k - (l + 100) \div 200 \in Int
  OBVIOUS
<1>8. y[1] \in Int /\ y[2] \in Int /\ y[3] \in Int /\ y[4] \in Int
  BY <1>2, <1>5, <1>6, <1>7
<1>9. Projected(y) \in WeightVector
  <2>1. Projected(y) = Normalised(Floored(y))
    BY DEF Projected, Each, Floored
  <2> QED BY <1>8, <2>1, FlooredIsAVector
<1> QED BY <1>9 DEF Adapted, y, t

-----------------------------------------------------------------------------
(* Deference                                                               *)

\* The weights stay parts of a whole, and every vote is what the node's candidates and
\* its present weights elect.
Decided ==
    /\ weights \in [Nodes -> WeightVector]
    /\ \A n \in Voted : \E c \in Elected(Candidates(n), weights[n]) : winner[n] = c.id

\* The weights stay parts of a whole when they are adapted.
LEMMA ReweighedIsAVector ==
    ASSUME Decided, NEW n \in Nodes
    PROVE  Reweighed(n) \in WeightVector
<1> DEFINE d == Deviations(Varied[n].battery, Varied[n].trust, Varied[n].linkq)
<1>1. Varied[n] \in [battery : Nat, trust : Nat, linkq : Nat]
  BY ElectionAssumption
<1>2. d[1] \in Nat /\ d[2] = UptimeDeviation /\ d[3] \in Nat /\ d[4] \in Nat
  BY <1>1 DEF Deviations
<1> HIDE DEF d
<1>3. Confidence(d) \in WeightVector
  BY <1>2, ConfidenceIsAVector
<1>4. weights[n] \in WeightVector
  BY DEF Decided
<1> QED BY <1>3, <1>4, AdaptedIsAVector DEF d, Reweighed

LEMMA DecidedStep == Filed /\ Decided /\ [Next]_vars => Decided'
<1> SUFFICES ASSUME Filed, Decided, [Next]_vars PROVE Decided'
  OBVIOUS
<1>1. ASSUME NEW n \in Nodes, NEW m \in Nodes, Hear(n, m) PROVE Decided'
  <2>1. weights' = weights
    BY <1>1 DEF Hear
  <2>2. ASSUME NEW k \in Nodes, winner'[k] # 0
        PROVE  \E c \in Elected(Candidates(k), weights[k])' : winner'[k] = c.id
    <3>1. winner[k] # 0 /\ winner' = winner /\ Candidates(k)' = Candidates(k)
      BY <1>1, <2>2, VotesStand
    <3>2. Elected(Candidates(k), weights[k])' = Elected(Candidates(k), weights[k])
      BY <2>1, <3>1
    <3> QED BY <3>1, <3>2 DEF Decided, Voted
  <2> QED BY <2>1, <2>2 DEF Decided, Voted
<1>2. ASSUME NEW n \in Nodes, Elect(n) PROVE Decided'
  <2> DEFINE w == Reweighed(n)
  <2>1. /\ weights' = [weights EXCEPT ![n] = w]
        /\ \E k \in Elected(Candidates(n), w) : winner' = [winner EXCEPT ![n] = k.id]
        /\ UNCHANGED <<self, table>>
    BY <1>2 DEF Elect
  <2>2. w \in WeightVector
    BY ReweighedIsAVector
  <2> HIDE DEF w
  <2>3. weights' \in [Nodes -> WeightVector]
    BY <2>1, <2>2 DEF Decided
  <2>4. ASSUME NEW k \in Nodes PROVE Candidates(k)' = Candidates(k)
    BY <2>1 DEF Candidates, SelfCandidate, RemoteCandidate, Eligible, Rssi, Heard
  <2>5. ASSUME NEW k \in Nodes, winner'[k] # 0
        PROVE  \E e \in Elected(Candidates(k), weights[k])' : winner'[k] = e.id
    <3>1. CASE k = n
      <4>1. PICK e \in Elected(Candidates(n), w) : winner' = [winner EXCEPT ![n] = e.id]
        BY <2>1
      <4>2. winner'[n] = e.id /\ weights'[n] = w
        BY <2>1, <4>1 DEF Filed, Decided
      <4>3. Elected(Candidates(n), weights[n])' = Elected(Candidates(n), w)
        BY <2>4, <4>2
      <4> QED BY <3>1, <4>2, <4>3
    <3>2. CASE k # n
      <4>1. winner'[k] = winner[k] /\ weights'[k] = weights[k]
        BY <2>1, <3>2 DEF Filed, Decided
      <4>2. Elected(Candidates(k), weights[k])' = Elected(Candidates(k), weights[k])
        BY <2>4, <4>1
      <4> QED BY <2>5, <4>1, <4>2 DEF Decided, Voted
    <3> QED BY <3>1, <3>2
  <2> QED BY <2>3, <2>5 DEF Decided, Voted
<1>3. CASE UNCHANGED vars
  <2>1. ASSUME NEW k \in Nodes
        PROVE  Elected(Candidates(k), weights[k])' = Elected(Candidates(k), weights[k])
    <3>1. Candidates(k)' = Candidates(k) /\ weights' = weights
      BY <1>3 DEF vars, Candidates, SelfCandidate, RemoteCandidate, Eligible, Rssi, Heard
    <3> QED BY <3>1
  <2> QED BY <1>3, <2>1 DEF vars, Decided, Voted
<1> QED
  BY <1>1, <1>2, <1>3 DEF Next

LEMMA DecidedInvariance == Spec => [](Filed /\ Decided)
<1>1. Init => Decided
  BY ElectionAssumption DEF Init, Decided, Voted, WeightVector
<1>2. Filed /\ Decided /\ [Next]_vars => (Filed /\ Decided)'
  BY FiledStep, DecidedStep
<1> QED
  BY <1>1, <1>2, FiledStart, PTL DEF Spec

\* A node that hears only m and elects it has found it better, or worth more.
LEMMA Deference ==
    ASSUME Filed, Decided, NEW n \in Nodes, NEW m \in Nodes, n # m,
           Heard(n) = {m}, winner[n] = m
    PROVE  LET a == Utilities(self[n])
               b == Utilities(table[n][m])
           IN  /\ ~Dominates(a, b)
               /\ \/ Dominates(b, a)
                  \/ (WeightedSum(weights[n], b) * 200) \div 220 > WeightedSum(weights[n], a)
                  \/ (WeightedSum(weights[n], b) * 200) \div 220 = WeightedSum(weights[n], a)
                        /\ m < n
<1> DEFINE r == RemoteCandidate(n, m)
           s == SelfCandidate(n)
           w == weights[n]
<1>1. n \in Nat /\ m \in Nat /\ m # 0
  BY ElectionAssumption
<1>2. PICK c \in Elected(Candidates(n), w) : winner[n] = c.id
  BY <1>1 DEF Decided, Voted
<1>3. c \in Candidates(n)
  BY CandidatesAreFit, ElectedIsUndominated
<1>4. Eligible(n) \subseteq {m}
  BY DEF Eligible
<1>5. c = r /\ Eligible(n) = {m}
  BY <1>2, <1>3, <1>4 DEF Candidates, SelfCandidate, RemoteCandidate
<1>6. Candidates(n) = {s, r}
  BY <1>5 DEF Candidates
<1>7. PICK rssi \in Signals : table[n][m] = Beacon(m, rssi)
  BY DEF Filed
<1>8. s = [id |-> n, u |-> Utilities(self[n]), centrality |-> 100]
  <2>1. DOMAIN Rssi(n) = {m} /\ Rssi(n)[m] \in Int
    BY <1>7, ElectionAssumption DEF Rssi, Beacon
  <2> QED BY <2>1, CentralityOfOne DEF SelfCandidate
<1>9. w \in NatVector
  BY WeightsAreNatural DEF Decided
<1>10. Utilities(self[n]) \in NatVector
  BY ProfileUtilities DEF Filed
<1>11. Utilities(table[n][m]) \in NatVector /\ Utilities(table[n][m])[2] = 0
  BY <1>7, ProfileUtilities DEF Filed, Beacon
<1>12. r = [id |-> m, u |-> Utilities(table[n][m]), centrality |-> RemoteCentrality]
  BY DEF RemoteCandidate
<1>13. r \in Elected({s, r}, w)
  BY <1>2, <1>5, <1>6
<1> DEFINE a == Utilities(self[n])
           b == Utilities(table[n][m])
<1> HIDE DEF r, s, w, a, b
<1> SUFFICES /\ ~Dominates(a, b)
             /\ \/ Dominates(b, a)
                \/ (WeightedSum(w, b) * 200) \div 220 > WeightedSum(w, a)
                \/ (WeightedSum(w, b) * 200) \div 220 = WeightedSum(w, a) /\ m < n
  BY DEF a, b, w
<1>14. a \in NatVector /\ b \in NatVector /\ b[2] = 0
  BY <1>10, <1>11 DEF a, b
<1>15. r \in Elected({[id |-> n, u |-> a, centrality |-> 100], r}, w)
  BY <1>8, <1>13 DEF a
<1>16. r = [id |-> m, u |-> b, centrality |-> RemoteCentrality]
  BY <1>12 DEF b
<1> QED BY <1>1, <1>9, <1>14, <1>15, <1>16, DefersToBetter

\* What a neighbor files of a node is no better than what the node knows of itself.
LEMMA HeardOfIsLess ==
    ASSUME Filed, NEW n \in Nodes, NEW m \in Nodes, m \in Heard(n)
    PROVE  /\ Utilities(self[m]) \in NatVector /\ Utilities(table[n][m]) \in NatVector
           /\ \A i \in Dimensions : Utilities(table[n][m])[i] <= Utilities(self[m])[i]
<1>1. PICK rssi \in Signals : table[n][m] = Beacon(m, rssi)
  BY DEF Filed
<1> DEFINE a == Utilities(self[m])
           a0 == Utilities(table[n][m])
<1>2. a \in NatVector
  BY ProfileUtilities DEF Filed
<1>3. a0 \in NatVector /\ a0[2] = 0 /\ \A i \in {1, 3, 4} : a0[i] = a[i]
  BY <1>1, ProfileUtilities DEF Filed, Beacon
<1> HIDE DEF a, a0
<1>4. \A i \in Dimensions : a0[i] <= a[i]
  BY <1>2, <1>3 DEF NatVector, Dimensions
<1> QED BY <1>2, <1>3, <1>4 DEF a, a0

\* However the beacons arrive and whatever the weights have become: of two nodes with
\* the same weights that hear only each other, at most one defers to the other, for a
\* neighbor's uptime is unknown and its centrality taken to be lower (election.c:206-233).
THEOREM DeferenceCorrect == Spec => []DeferenceIsOneWay
<1>1. Filed /\ Decided => DeferenceIsOneWay
  <2> SUFFICES ASSUME Filed, Decided, NEW n \in Voted, NEW m \in Voted,
                      Heard(n) = {m}, Heard(m) = {n}, weights[n] = weights[m],
                      winner[n] = m, winner[m] = n
               PROVE  FALSE
    BY DEF DeferenceIsOneWay
  <2>1. n \in Nodes /\ m \in Nodes /\ n # m
    BY DEF Voted, Filed
  <2> DEFINE a == Utilities(self[n])
             a0 == Utilities(table[m][n])
             b == Utilities(self[m])
             b0 == Utilities(table[n][m])
             w == weights[n]
  <2>2. /\ a \in NatVector /\ a0 \in NatVector /\ \A i \in Dimensions : a0[i] <= a[i]
        /\ b \in NatVector /\ b0 \in NatVector /\ \A i \in Dimensions : b0[i] <= b[i]
    BY <2>1, HeardOfIsLess
  <2>3. /\ ~Dominates(a, b0)
        /\ \/ Dominates(b0, a)
           \/ (WeightedSum(w, b0) * 200) \div 220 > WeightedSum(w, a)
           \/ (WeightedSum(w, b0) * 200) \div 220 = WeightedSum(w, a) /\ m < n
    BY <2>1, Deference
  <2>4. /\ ~Dominates(b, a0)
        /\ \/ Dominates(a0, b)
           \/ (WeightedSum(w, a0) * 200) \div 220 > WeightedSum(w, b)
           \/ (WeightedSum(w, a0) * 200) \div 220 = WeightedSum(w, b) /\ n < m
    BY <2>1, Deference
  <2>5. w \in NatVector /\ n \in Nat /\ m \in Nat
    <3>1. w \in WeightVector
      BY <2>1 DEF Decided
    <3> QED BY <2>1, <3>1, WeightsAreNatural, ElectionAssumption
  <2> HIDE DEF a, a0, b, b0, w
  <2>6. ~Dominates(b0, a) /\ ~Dominates(a0, b)
    BY <2>2, <2>3, <2>4 DEF Dominates, NatVector
  <2> DEFINE x == WeightedSum(w, a)
             x0 == WeightedSum(w, a0)
             y == WeightedSum(w, b)
             y0 == WeightedSum(w, b0)
  <2>7. x \in Nat /\ x0 \in Nat /\ x0 <= x
    BY <2>2, <2>5, SumGrows
  <2>8. y \in Nat /\ y0 \in Nat /\ y0 <= y
    BY <2>2, <2>5, SumGrows
  <2>9. (y0 * 200) \div 220 > x \/ ((y0 * 200) \div 220 = x /\ m < n)
    BY <2>3, <2>6
  <2>10. (x0 * 200) \div 220 > y \/ ((x0 * 200) \div 220 = y /\ n < m)
    BY <2>4, <2>6
  <2> HIDE DEF x, x0, y, y0
  <2>11. (y0 * 200) \div 220 <= y0 /\ (x0 * 200) \div 220 <= x0
    BY <2>7, <2>8
  <2> QED BY <2>5, <2>7, <2>8, <2>9, <2>10, <2>11
<1> QED
  BY <1>1, DecidedInvariance, PTL

\* Every variable holds what the code's type can hold, and the weights stay parts of a
\* whole however often they are adapted (metrics.c:583-658).
THEOREM TypeCorrect == Spec => []TypeOK
<1>1. Filed /\ Decided => TypeOK
  <2> SUFFICES ASSUME Filed, Decided PROVE TypeOK
    OBVIOUS
  <2>1. ASSUME NEW n \in Nodes, NEW m \in Heard(n) PROVE table[n][m] \in TableEntry
    <3>1. PICK rssi \in Signals : table[n][m] = Beacon(m, rssi)
      BY DEF Filed
    <3>2. self[m] \in Metrics
      BY ElectionAssumption DEF Filed
    <3> QED BY <3>1, <3>2 DEF Beacon, Metrics, TableEntry
  <2>2. \A n \in Nodes : weights[n] \in [Metric -> 0 .. One]
    BY DEF Decided, WeightVector
  <2> QED BY <2>1, <2>2 DEF Filed, TypeOK
<1> QED
  BY <1>1, DecidedInvariance, PTL

-----------------------------------------------------------------------------
(* Every round decides                                                     *)

\* Of the subsets of a finite set that have a property, one is the smallest: the induction
\* over finite sets that the lemmas below need.
LEMMA SmallestSubset ==
    ASSUME NEW D, IsFiniteSet(D), NEW T \in SUBSET SUBSET D, T # {}
    PROVE  \E U \in T : \A V \in T : V \subseteq U => V = U
<1> DEFINE R == StrictSubsetOrdering(D)
<1>1. IsWellFoundedOn(R, SUBSET D)
  BY FS_StrictSubsetOrderingWellFounded, FS_FiniteSubsetsOfFinite
<1>2. \A U, V \in T : V \subseteq U /\ V # U => <<V, U>> \in R
  BY DEF StrictSubsetOrdering
<1> HIDE DEF R
<1>3. PICK U \in T : \A V \in T : ~(<<V, U>> \in R)
  BY <1>1, WFMin
<1> QED BY <1>2, <1>3

\* Of finitely many candidates with different ids, one is better than all others.
LEMMA OneIsBest ==
    ASSUME NEW D, IsFiniteSet(D), D # {}, NEW v, \A c \in D : v[c] \in Int /\ c.id \in Int,
           \A c, d \in D : c.id = d.id => c = d
    PROVE  \E k \in D : \A d \in D \ {k} : v[k] > v[d] \/ (v[k] = v[d] /\ k.id < d.id)
<1> DEFINE Beats(k, d) == v[k] > v[d] \/ (v[k] = v[d] /\ k.id < d.id)
           Best1(U) == \E k \in U : \A d \in U \ {k} : Beats(k, d)
           T == {U \in SUBSET D : U # {} /\ ~Best1(U)}
<1>0. \A a, b, c \in D : /\ Beats(a, b) /\ Beats(b, c) => Beats(a, c)
                         /\ a = b \/ Beats(a, b) \/ Beats(b, a)
  OBVIOUS
<1> HIDE DEF Beats
<1>1. T = {}
  <2> SUFFICES ASSUME T # {} PROVE FALSE
    OBVIOUS
  <2>1. PICK U \in T : \A V \in T : V \subseteq U => V = U
    <3>1. T \in SUBSET SUBSET D
      OBVIOUS
    <3> HIDE DEF T
    <3> QED BY <3>1, SmallestSubset
  <2>2. PICK x \in U : TRUE
    OBVIOUS
  <2>3. U \ {x} # {}
    <3> SUFFICES ASSUME U \ {x} = {} PROVE FALSE
      OBVIOUS
    <3> QED OBVIOUS
  <2>4. Best1(U \ {x})
    <3>1. U \ {x} \in SUBSET D /\ U \ {x} # U /\ U \ {x} \subseteq U
      BY <2>2
    <3> QED BY <2>1, <2>3, <3>1
  <2>5. PICK k \in U \ {x} : \A d \in (U \ {x}) \ {k} : Beats(k, d)
    BY <2>4
  <2>6. x \in D /\ k \in D /\ U \subseteq D /\ x # k
    BY <2>2
  <2>7. CASE Beats(k, x)
    <3>1. \A d \in U \ {k} : Beats(k, d)
      BY <2>5, <2>7
    <3> QED BY <3>1
  <2>8. CASE Beats(x, k)
    <3>1. \A d \in U \ {x} : Beats(x, d)
      <4> SUFFICES ASSUME NEW d \in U \ {x} PROVE Beats(x, d)
        OBVIOUS
      <4>1. CASE d = k
        BY <2>8, <4>1
      <4>2. CASE d # k
        <5>1. Beats(k, d) /\ d \in D
          BY <2>5, <2>6, <4>2
        <5> QED BY <1>0, <2>6, <2>8, <5>1
      <4> QED BY <4>1, <4>2
    <3> QED BY <2>2, <3>1
  <2> QED BY <1>0, <2>6, <2>7, <2>8
<1>2. Best1(D)
  BY <1>1
<1> QED BY <1>2 DEF Beats

\* Who is best by a value is one candidate.
LEMMA BestIsOne ==
    ASSUME NEW D, IsFiniteSet(D), D # {}, NEW v, \A c \in D : v[c] \in Int /\ c.id \in Int,
           \A c, d \in D : c.id = d.id => c = d
    PROVE  \E k \in D : {c \in D : \A d \in D \ {c} :
                            v[c] > v[d] \/ (v[c] = v[d] /\ c.id < d.id)} = {k}
<1> DEFINE Beats(k, d) == v[k] > v[d] \/ (v[k] = v[d] /\ k.id < d.id)
<1>1. PICK k \in D : \A d \in D \ {k} : Beats(k, d)
  BY OneIsBest
<1>2. \A a, b \in D : ~(Beats(a, b) /\ Beats(b, a))
  OBVIOUS
<1> HIDE DEF Beats
<1>3. {c \in D : \A d \in D \ {c} : Beats(c, d)} = {k}
  BY <1>1, <1>2
<1> QED BY <1>3 DEF Beats

\* Some candidate is dominated by none.
LEMMA FrontierNotEmpty ==
    ASSUME NEW C, IsFiniteSet(C), C # {}, \A c \in C : c.u \in Vector /\ c.id \in Int,
           \A c, d \in C : c.id = d.id => c = d
    PROVE  Frontier(C) # {} /\ Frontier(C) \subseteq C /\ IsFiniteSet(Frontier(C))
<1> DEFINE v == [c \in C |-> c.u[1] + c.u[2] + c.u[3] + c.u[4]]
<1>1. \A c \in C : v[c] \in Int
  BY DEF Vector, Dimensions
<1>2. \A c, d \in C : Dominates(d.u, c.u) => v[d] > v[c]
  <2> SUFFICES ASSUME NEW c \in C, NEW d \in C, Dominates(d.u, c.u) PROVE v[d] > v[c]
    OBVIOUS
  <2>1. \A i \in 1..4 : c.u[i] \in Int /\ d.u[i] \in Int /\ d.u[i] >= c.u[i]
    BY DEF Dominates, Vector, Dimensions
  <2>2. \E i \in 1..4 : d.u[i] > c.u[i]
    BY DEF Dominates, Dimensions
  <2> QED BY <2>1, <2>2
<1> HIDE DEF v
<1>3. PICK k \in C : \A d \in C \ {k} : v[k] > v[d] \/ (v[k] = v[d] /\ k.id < d.id)
  BY <1>1, OneIsBest
<1>4. \A d \in C : ~Dominates(d.u, k.u)
  <2> SUFFICES ASSUME NEW d \in C, Dominates(d.u, k.u) PROVE FALSE
    OBVIOUS
  <2>1. v[d] > v[k] /\ v[d] \in Int /\ v[k] \in Int
    BY <1>1, <1>2
  <2>2. d # k
    BY <2>1
  <2> QED BY <1>3, <2>1, <2>2
<1>5. k \in Frontier(C) /\ Frontier(C) \subseteq C
  BY <1>4 DEF Frontier
<1> QED BY <1>5, FS_Subset

\* The sum of finitely many numbers is one: FoldFunction takes the elements of the domain in
\* some order, and the function it recurs by exists.
LEMMA SumType ==
    ASSUME NEW K \in {Nat, Int}, NEW D, IsFiniteSet(D), NEW S \in [D -> K]
    PROVE  FoldFunction(+, 0, S) \in K
<1> DEFINE pick(s) == CHOOSE x \in s : TRUE
           rest(s) == s \ {pick(s)}
           G(g) == [s \in SUBSET D |-> IF s = {} THEN 0 ELSE S[pick(s)] + g[rest(s)]]
           \* h is the recursive function, as far as it is needed for the sets in T.
           Partial(T, h) == /\ T \in SUBSET SUBSET D /\ h \in [T -> K]
                            /\ \A s \in T : s # {} => /\ rest(s) \in T
                                                      /\ h[s] = S[pick(s)] + h[rest(s)]
                            /\ {} \in T => h[{}] = 0
           Sums(s, x) == \E T, h : Partial(T, h) /\ s \in T /\ h[s] = x
           Defined(s) == /\ \E x \in K : Sums(s, x)
                         /\ \A x, y : Sums(s, x) /\ Sums(s, y) => x = y
<1>1. 0 \in K /\ \A x, y \in K : x + y \in K
  OBVIOUS
<1>2. ASSUME NEW s \in SUBSET D, s # {}
      PROVE  /\ pick(s) \in D /\ S[pick(s)] \in K
             /\ rest(s) \in SUBSET D /\ rest(s) \subseteq s /\ rest(s) # s
  <2>1. pick(s) \in s
    BY <1>2
  <2> HIDE DEF pick
  <2> QED BY <2>1
<1>3. Defined({})
  <2>1. Sums({}, 0)
    <3> DEFINE h == [s \in {{}} |-> 0]
    <3>1. Partial({{}}, h) /\ h[{}] = 0
      BY <1>1
    <3> HIDE DEF h, Partial
    <3> QED BY <3>1
  <2>2. \A x : Sums({}, x) => x = 0
    OBVIOUS
  <2> HIDE DEF Sums
  <2> QED BY <1>1, <2>1, <2>2
<1>4. ASSUME NEW s \in SUBSET D, s # {}, Defined(rest(s))
      PROVE  Defined(s) /\ \A x, y : Sums(rest(s), x) /\ Sums(s, y) => y = S[pick(s)] + x
  <2> USE <1>2, <1>4
  <2>1. ASSUME NEW x, NEW y, Sums(rest(s), x), Sums(s, y)
        PROVE  y = S[pick(s)] + x
    <3>1. PICK T, h : Partial(T, h) /\ s \in T /\ h[s] = y
      BY <2>1
    <3>2. rest(s) \in T /\ y = S[pick(s)] + h[rest(s)]
      BY <3>1
    <3>3. Sums(rest(s), h[rest(s)])
      BY <3>1, <3>2
    <3> HIDE DEF Sums, Partial, rest, pick
    <3> QED BY <2>1, <3>2, <3>3
  <2>2. \E y \in K : Sums(s, y)
    <3>1. PICK x \in K : Sums(rest(s), x)
      OBVIOUS
    <3>2. PICK T, h : Partial(T, h) /\ rest(s) \in T /\ h[rest(s)] = x
      BY <3>1
    <3> DEFINE U == T \cup {s}
               g == [t \in U |-> IF t \in T THEN h[t] ELSE S[pick(s)] + x]
    <3>3. CASE s \in T
      <4>1. Sums(s, h[s]) /\ h[s] \in K
        BY <3>2, <3>3
      <4> QED BY <4>1
    <3>4. CASE s \notin T
      <4>1. S[pick(s)] + x \in K
        BY <1>1
      <4>2. /\ T \in SUBSET SUBSET D /\ h \in [T -> K]
            /\ \A t \in T : t # {} => rest(t) \in T /\ h[t] = S[pick(t)] + h[rest(t)]
            /\ {} \in T => h[{}] = 0
        BY <3>2
      <4>3. g \in [U -> K] /\ U \in SUBSET SUBSET D
        BY <4>1, <4>2
      <4>4. g[s] = S[pick(s)] + x /\ \A t \in T : g[t] = h[t]
        BY <3>4
      <4>5. rest(s) \in U /\ g[rest(s)] = x
        BY <3>2, <4>4
      <4> HIDE DEF g, rest, pick
      <4>6. \A t \in U : t # {} => rest(t) \in U /\ g[t] = S[pick(t)] + g[rest(t)]
        BY <4>2, <4>4, <4>5
      <4>7. {} \in U => g[{}] = 0
        BY <4>2, <4>4
      <4>8. Partial(U, g) /\ s \in U /\ g[s] = S[pick(s)] + x
        BY <4>3, <4>4, <4>6, <4>7
      <4> HIDE DEF Partial, U
      <4> QED BY <4>1, <4>8
    <3> QED BY <3>3, <3>4
  <2> HIDE DEF Sums, rest, pick
  <2>3. \A x, y : Sums(s, x) /\ Sums(s, y) => x = y
    <3>1. PICK z \in K : Sums(rest(s), z)
      OBVIOUS
    <3> QED BY <2>1, <3>1
  <2> QED BY <2>1, <2>2, <2>3
<1> HIDE DEF Sums
<1>5. \A s \in SUBSET D : Defined(s)
  <2> DEFINE T == {s \in SUBSET D : ~Defined(s)}
  <2> HIDE DEF Defined
  <2> SUFFICES ASSUME T # {} PROVE FALSE
    OBVIOUS
  <2>1. PICK s \in T : \A V \in T : V \subseteq s => V = s
    <3>1. T \in SUBSET SUBSET D
      OBVIOUS
    <3> HIDE DEF T
    <3> QED BY <3>1, SmallestSubset
  <2>2. s \in SUBSET D /\ s # {} /\ ~Defined(s)
    BY <1>3, <2>1
  <2>3. rest(s) \in SUBSET D /\ rest(s) \subseteq s /\ rest(s) # s
    BY <1>2, <2>2
  <2> HIDE DEF rest
  <2>4. Defined(rest(s))
    BY <2>1, <2>3
  <2> QED BY <1>4, <2>2, <2>4
<1> DEFINE g == [s \in SUBSET D |-> CHOOSE x \in K : Sums(s, x)]
<1>6. \A s \in SUBSET D : Sums(s, g[s]) /\ g[s] \in K
  BY <1>5
<1>7. Sums({}, 0)
  <2> DEFINE h == [s \in {{}} |-> 0]
  <2>1. Partial({{}}, h) /\ h[{}] = 0
    BY <1>1
  <2> HIDE DEF h, Partial
  <2> QED BY <2>1 DEF Sums
<1>8. g = G(g)
  <2>0. g = [s \in SUBSET D |-> g[s]]
    OBVIOUS
  <2> HIDE DEF g, rest, pick
  <2> SUFFICES ASSUME NEW s \in SUBSET D
               PROVE  g[s] = IF s = {} THEN 0 ELSE S[pick(s)] + g[rest(s)]
    BY <2>0, Zenon
  <2>1. CASE s = {}
    BY <1>3, <1>6, <1>7, <2>1
  <2>2. CASE s # {}
    <3>1. rest(s) \in SUBSET D
      BY <1>2, <2>2
    <3>2. Sums(rest(s), g[rest(s)]) /\ Sums(s, g[s]) /\ Defined(rest(s))
      BY <1>5, <1>6, <3>1
    <3> HIDE DEF Defined
    <3> QED BY <1>4, <2>2, <3>2
  <2> QED BY <2>1, <2>2
<1> HIDE DEF g, Defined
<1> DEFINE f == CHOOSE k : k = G(k)
<1>9. f = G(f)
  <2>1. \E k : k = G(k)
    BY <1>8
  <2> HIDE DEF G
  <2> QED BY <2>1
<1>10. FoldFunction(+, 0, S) = f[D]
  <2>1. DOMAIN S = D
    OBVIOUS
  <2> QED BY <2>1, Zenon DEF FoldFunction, FoldFunctionOnSet, MapThenFoldSet
<1> HIDE DEF f
<1>11. \A s \in SUBSET D : f[s] \in K
  <2> DEFINE T == {s \in SUBSET D : f[s] \notin K}
  <2> SUFFICES ASSUME T # {} PROVE FALSE
    OBVIOUS
  <2>1. PICK s \in T : \A V \in T : V \subseteq s => V = s
    <3>1. T \in SUBSET SUBSET D
      OBVIOUS
    <3> HIDE DEF T
    <3> QED BY <3>1, SmallestSubset
  <2>2. f[{}] = 0 /\ \A t \in SUBSET D : t # {} => f[t] = S[pick(t)] + f[rest(t)]
    <3> HIDE DEF rest, pick
    <3> QED BY <1>9
  <2>3. s \in SUBSET D /\ s # {}
    BY <1>1, <2>1, <2>2
  <2>4. /\ rest(s) \in SUBSET D /\ rest(s) \subseteq s /\ rest(s) # s
        /\ S[pick(s)] \in K
    BY <1>2, <2>3
  <2> HIDE DEF rest, pick
  <2>5. f[rest(s)] \in K
    BY <2>1, <2>4
  <2> QED BY <1>1, <2>1, <2>2, <2>3, <2>4, <2>5
<1> QED BY <1>10, <1>11, Zenon

LEMMA MeanType ==
    ASSUME NEW K \in {Nat, Int}, NEW D, IsFiniteSet(D), D # {}, NEW S \in [D -> K]
    PROVE  Mean(S) \in K
<1>1. FoldFunction(+, 0, S) \in K
  BY SumType
<1>2. Cardinality(D) \in Nat /\ Cardinality(D) # 0
  BY FS_CardinalityType, FS_EmptySet
<1>3. Mean(S) = FoldFunction(+, 0, S) \div Cardinality(D)
  <2>1. DOMAIN S = D
    OBVIOUS
  <2> QED BY <2>1, Zenon DEF Mean
<1>4. /\ \A x \in Nat, y \in Nat \ {0} : x \div y \in Nat
      /\ \A x \in Int, y \in Nat \ {0} : x \div y \in Int
  OBVIOUS
<1>5. CASE K = Nat
  BY <1>1, <1>2, <1>3, <1>4, <1>5
<1>6. CASE K = Int
  BY <1>1, <1>2, <1>3, <1>4, <1>6
<1> QED BY <1>5, <1>6

\* Whatever the signals of whatever neighbors, a centrality is a percentage
\* (election_compute_centrality).
THEOREM CentralityIsAPercentage ==
    ASSUME NEW D, IsFiniteSet(D), NEW S \in [D -> Int]
    PROVE  Centrality(S) \in 0 .. 100
<1>1. CASE D = {}
  BY <1>1 DEF Centrality
<1>2. CASE D # {}
  <2> DEFINE T == [k \in DOMAIN S |-> (S[k] - Mean(S)) * (S[k] - Mean(S))]
  <2>1. Mean(S) \in Int
    BY <1>2, MeanType
  <2>2. T \in [D -> Nat]
    <3>1. \A k \in D : S[k] - Mean(S) \in Int
      BY <2>1
    <3>2. \A x \in Int : x * x \in Nat
      OBVIOUS
    <3>3. \A k \in D : (S[k] - Mean(S)) * (S[k] - Mean(S)) \in Nat
      BY <3>1, <3>2
    <3>4. DOMAIN S = D
      OBVIOUS
    <3> QED BY <3>3, <3>4
  <2>3. Mean(T) \in Nat
    <3> HIDE DEF T
    <3> QED BY <1>2, <2>2, MeanType
  <2>4. Centrality(S) = IF Mean(T) >= 400 THEN 0 ELSE 100 - Mean(T) \div 4
    <3>1. DOMAIN S # {}
      BY <1>2
    <3> QED BY <3>1 DEF Centrality
  <2> HIDE DEF T
  <2>5. \A x \in Nat : x < 400 => x \div 4 \in 0 .. 99
    OBVIOUS
  <2> QED BY <2>3, <2>4, <2>5
<1> QED BY <1>1, <1>2

\* A candidate as every election has them: known by its id, with numbers for what it is
\* compared by; one above the disagreement has logarithms.
Fit(c) ==
    /\ c.id \in Nat /\ c.u \in NatVector /\ c.centrality \in 0 .. 100
    /\ AboveDisagreement(c.u) => \A i \in Dimensions : Ln[c.u[i] - Disagreement] \in Int

\* Finitely many candidates of whom no two have the same id elect exactly one of them
\* (election_run_stellar).
THEOREM OneIsElected ==
    ASSUME NEW C, IsFiniteSet(C), C # {}, \A c \in C : Fit(c),
           \A c, d \in C : c.id = d.id => c = d, NEW w \in NatVector
    PROVE  \E k \in C : Elected(C, w) = {k}
<1>0. \A i \in 1..4 : w[i] \in Nat
  BY DEF NatVector, Dimensions
<1>1. CASE Cardinality(C) = 1
  <2>1. Elected(C, w) = C
    BY <1>1 DEF Elected
  <2>2. PICK x : C = {x}
    BY <1>1, FS_Singleton
  <2> QED BY <2>1, <2>2
<1>2. ASSUME Cardinality(C) # 1, Bargaining(C) # {}
      PROVE  \E k \in C : Elected(C, w) = {k}
  <2> DEFINE B == Bargaining(C)
             v == [c \in B |-> NashProduct(w, c.u)]
  <2>1. B \subseteq C /\ IsFiniteSet(B) /\ \A c \in B : AboveDisagreement(c.u)
    <3>1. B \subseteq C /\ \A c \in B : AboveDisagreement(c.u)
      BY DEF Bargaining, Frontier
    <3> QED BY <3>1, FS_Subset
  <2>2. \A c \in B : v[c] \in Int /\ c.id \in Int
    <3> SUFFICES ASSUME NEW c \in B PROVE v[c] \in Int /\ c.id \in Int
      OBVIOUS
    <3>1. c.id \in Nat /\ \A i \in 1..4 : Ln[c.u[i] - Disagreement] \in Int
      BY <2>1 DEF Fit, Dimensions
    <3>2. NashProduct(w, c.u) \in Int
      <4>1. NashProduct(w, c.u) = w[1] * Ln[c.u[1] - Disagreement] + w[2] * Ln[c.u[2] - Disagreement]
                                  + w[3] * Ln[c.u[3] - Disagreement] + w[4] * Ln[c.u[4] - Disagreement]
        BY DEF NashProduct, WeightedSum, Dimensions
      <4>2. \A a \in Nat, b \in Int : a * b \in Int
        OBVIOUS
      <4> QED BY <1>0, <3>1, <4>1, <4>2
    <3> QED BY <3>1, <3>2
  <2>3. Elected(C, w) = {c \in B : \A d \in B \ {c} :
                            v[c] > v[d] \/ (v[c] = v[d] /\ c.id < d.id)}
    <3>1. Elected(C, w) = Best(B, LAMBDA c : NashProduct(w, c.u))
      BY <1>2 DEF Elected
    <3>2. \A c \in B : v[c] = NashProduct(w, c.u)
      OBVIOUS
    <3> HIDE DEF B, v
    <3> QED BY <3>1, <3>2 DEF Best
  <2>4. \A c, d \in B : c.id = d.id => c = d
    BY <2>1
  <2>5. B # {}
    BY <1>2
  <2> HIDE DEF B, v
  <2> QED BY <2>1, <2>2, <2>3, <2>4, <2>5, BestIsOne
<1>3. ASSUME Cardinality(C) # 1, Bargaining(C) = {}
      PROVE  \E k \in C : Elected(C, w) = {k}
  <2> DEFINE F == Frontier(C)
             v == [c \in F |-> StellarScore(w, c.u, ParetoRank(C, c), c.centrality)]
  <2>1. F # {} /\ F \subseteq C /\ IsFiniteSet(F)
    <3>1. \A c \in C : c.u \in Vector /\ c.id \in Int
      BY DEF Fit, NatVector, Vector
    <3> QED BY <3>1, FrontierNotEmpty
  <2>2. \A c \in F : v[c] \in Int /\ c.id \in Int
    <3> SUFFICES ASSUME NEW c \in F PROVE v[c] \in Int /\ c.id \in Int
      OBVIOUS
    <3>1. /\ c.id \in Nat /\ c.centrality \in 0 .. 100 /\ c.u \in NatVector
      BY <2>1 DEF Fit
    <3>2. ParetoRank(C, c) \in Nat
      <4>1. {d \in C : Dominates(c.u, d.u)} \subseteq C
        OBVIOUS
      <4> QED BY <4>1, FS_Subset, FS_CardinalityType DEF ParetoRank
    <3>3. WeightedSum(w, c.u) \in Nat
      <4>1. \A i \in Dimensions : c.u[i] <= c.u[i]
        BY <3>1 DEF NatVector
      <4> QED BY <3>1, <4>1, SumGrows
    <3>4. StellarScore(w, c.u, ParetoRank(C, c), c.centrality) \in Int
      <4>1. \A x \in Nat, y \in Nat \ {0} : x \div y \in Nat
        OBVIOUS
      <4>2. /\ WeightedSum(w, c.u) * 200 \in Nat /\ 300 - c.centrality \in Nat \ {0}
            /\ 100000 * ParetoRank(C, c) \in Nat
        BY <3>1, <3>2, <3>3
      <4>3. /\ (WeightedSum(w, c.u) * 200) \div (300 - c.centrality) \in Nat
            /\ (100000 * ParetoRank(C, c)) \div MaxNeighbors \in Nat
        BY <4>1, <4>2, ConfigAssumption
      <4> QED BY <4>3 DEF StellarScore
    <3> QED BY <3>1, <3>4
  <2>3. Elected(C, w) = {c \in F : \A d \in F \ {c} :
                            v[c] > v[d] \/ (v[c] = v[d] /\ c.id < d.id)}
    <3>1. Elected(C, w) = Best(F, LAMBDA c : StellarScore(w, c.u, ParetoRank(C, c), c.centrality))
      BY <1>3 DEF Elected
    <3>2. \A c \in F : v[c] = StellarScore(w, c.u, ParetoRank(C, c), c.centrality)
      OBVIOUS
    <3> HIDE DEF F, v
    <3> QED BY <3>1, <3>2 DEF Best
  <2>4. \A c, d \in F : c.id = d.id => c = d
    BY <2>1
  <2> HIDE DEF F, v
  <2> QED BY <2>1, <2>2, <2>3, <2>4, BestIsOne
<1> QED BY <1>1, <1>2, <1>3

\* The candidates of a node are as they have to be.
LEMMA CandidatesDiffer ==
    ASSUME Filed, NEW n \in Nodes
    PROVE  /\ \A c \in Candidates(n) : Fit(c)
           /\ \A c, d \in Candidates(n) : c.id = d.id => c = d
           /\ SelfCandidate(n) \in Candidates(n)
           /\ \A c \in Candidates(n) : c = SelfCandidate(n) \/ c.u[2] = 0
<1> DEFINE a == SelfCandidate(n)
           r(m) == RemoteCandidate(n, m)
<1>1. /\ Eligible(n) \subseteq Heard(n) /\ IsFiniteSet(Heard(n)) /\ n \in Nat
      /\ Heard(n) \subseteq Nodes \ {n} /\ Nodes \subseteq Nat
  BY ElectionAssumption DEF Filed, Eligible
<1>2. Fit(a) /\ a.id = n
  <2>1. self[n] \in Profiles
    BY DEF Filed
  <2>2. Utilities(self[n]) \in NatVector
    BY <2>1, ProfileUtilities
  <2>3. Centrality(Rssi(n)) \in 0 .. 100
    <3>1. \A m \in Heard(n) : table[n][m].rssi \in Int
      <4> TAKE m \in Heard(n)
      <4>1. PICK rssi \in Signals : table[n][m] = Beacon(m, rssi)
        BY DEF Filed
      <4>2. rssi \in Int
        BY ElectionAssumption
      <4> QED BY <4>1, <4>2 DEF Beacon
    <3>2. Rssi(n) \in [Heard(n) -> Int]
      BY <3>1 DEF Rssi
    <3> QED BY <1>1, <3>2, CentralityIsAPercentage
  <2>4. AboveDisagreement(Utilities(self[n])) =>
          \A i \in Dimensions : Ln[Utilities(self[n])[i] - Disagreement] \in Int
    BY <2>1, TablesAssumption DEF Tabulated
  <2> QED BY <1>1, <2>2, <2>3, <2>4 DEF SelfCandidate, Fit
<1>3. ASSUME NEW m \in Eligible(n)
      PROVE  Fit(r(m)) /\ r(m).id = m /\ m # n /\ r(m).u[2] = 0
  <2>1. PICK rssi \in Signals : table[n][m] = Beacon(m, rssi)
    BY <1>1 DEF Filed
  <2>2. self[m] \in Profiles
    BY <1>1 DEF Filed
  <2>3. /\ Utilities(Beacon(m, rssi)) \in NatVector
        /\ Utilities(Beacon(m, rssi))[2] = 0
    BY <2>2, ProfileUtilities DEF Beacon
  <2>4. /\ r(m).id = m /\ r(m).u = Utilities(Beacon(m, rssi))
        /\ r(m).centrality = RemoteCentrality
    BY <2>1 DEF RemoteCandidate
  <2>5. ~AboveDisagreement(r(m).u)
    <3>1. 2 \in Dimensions /\ ~(0 > Disagreement)
      BY DEF Dimensions, Disagreement
    <3> QED BY <2>3, <2>4, <3>1 DEF AboveDisagreement
  <2>6. m \in Nat /\ m # n /\ RemoteCentrality \in 0 .. 100
    <3>1. m \in Heard(n)
      BY <1>1
    <3>2. m \in Nodes \ {n}
      BY <1>1, <3>1
    <3> QED BY <1>1, <3>2 DEF RemoteCentrality
  <2> HIDE DEF r
  <2> QED BY <2>3, <2>4, <2>5, <2>6 DEF Fit
<1>4. \A c \in Candidates(n) : c = a \/ \E m \in Eligible(n) : c = r(m)
  BY DEF Candidates
<1>5. a \in Candidates(n)
  BY DEF Candidates
<1> HIDE DEF a, r
<1>6. \A c \in Candidates(n) : Fit(c)
  BY <1>2, <1>3, <1>4
<1>7. \A c, d \in Candidates(n) : c.id = d.id => c = d
  BY <1>2, <1>3, <1>4
<1>8. \A c \in Candidates(n) : c = a \/ c.u[2] = 0
  BY <1>3, <1>4
<1> QED BY <1>5, <1>6, <1>7, <1>8 DEF a

\* Every round of every node, whatever it has heard so far, ends with exactly one winner
\* (election_run): the loop of a candidate never ends without a role.
THEOREM RoundsDecide == Spec => []EveryRoundDecides
<1>1. Filed /\ Decided => EveryRoundDecides
  <2> SUFFICES ASSUME Filed, Decided, NEW n \in Nodes
               PROVE  \E c : Elected(Candidates(n), Reweighed(n)) = {c}
    BY DEF EveryRoundDecides
  <2>1. Reweighed(n) \in NatVector
    BY ReweighedIsAVector, WeightsAreNatural
  <2>2. IsFiniteSet(Candidates(n))
    BY CandidatesAreFit
  <2>3. /\ \A c \in Candidates(n) : Fit(c)
        /\ \A c, d \in Candidates(n) : c.id = d.id => c = d
        /\ Candidates(n) # {}
    BY CandidatesDiffer
  <2> QED BY <2>1, <2>2, <2>3, OneIsElected
<1> QED BY <1>1, DecidedInvariance, PTL

\* Who exceeds the disagreement in all utilities elects itself, for any number of better
\* neighbors (election_run_stellar): of a neighbor no uptime is known, so that it neither
\* bargains nor dominates.
THEOREM BargainersElectThemselves == Spec => []BargainerElectsItself
<1>1. Filed /\ Decided => BargainerElectsItself
  <2> SUFFICES ASSUME Filed, Decided, NEW n \in Voted, AboveDisagreement(Utilities(self[n]))
               PROVE  winner[n] = n
    BY DEF BargainerElectsItself
  <2>0. n \in Nodes
    BY DEF Voted
  <2> DEFINE C == Candidates(n)
             a == SelfCandidate(n)
  <2>1. PICK c \in Elected(C, weights[n]) : winner[n] = c.id
    BY <2>0 DEF Decided
  <2>2. a.u = Utilities(self[n]) /\ a.id = n
    BY DEF SelfCandidate
  <2>3. /\ a \in C /\ \A d \in C : d = a \/ d.u[2] = 0
        /\ \A d \in C : Fit(d)
    BY <2>0, CandidatesDiffer
  <2> HIDE DEF C, a
  <2>4. a.u[2] > 0 /\ a.u \in Vector
    <3>1. 2 \in Dimensions /\ Disagreement = 100
      BY DEF Dimensions, Disagreement
    <3>2. a.u \in NatVector
      BY <2>3 DEF Fit
    <3>3. a.u[2] > Disagreement
      BY <2>2, <3>1 DEF AboveDisagreement
    <3> QED BY <3>1, <3>2, <3>3 DEF NatVector, Vector
  <2>5. \A d \in C : ~Dominates(d.u, a.u)
    <3> SUFFICES ASSUME NEW d \in C PROVE ~Dominates(d.u, a.u)
      OBVIOUS
    <3>1. CASE d = a
      BY <2>4, <3>1, Irreflexive
    <3>2. CASE d.u[2] = 0
      <4>1. a.u[2] \in Int /\ 2 \in Dimensions
        BY <2>4 DEF Vector, Dimensions
      <4> QED BY <2>4, <3>2, <4>1 DEF Dominates
    <3> QED BY <2>3, <3>1, <3>2
  <2>6. Bargaining(C) = {a}
    <3>1. a \in Bargaining(C)
      BY <2>2, <2>3, <2>5 DEF Bargaining, Frontier
    <3>2. \A d \in Bargaining(C) : d = a
      <4> SUFFICES ASSUME NEW d \in Bargaining(C), d.u[2] = 0 PROVE FALSE
        BY <2>3 DEF Bargaining, Frontier
      <4>1. 2 \in Dimensions /\ ~(0 > Disagreement)
        BY DEF Dimensions, Disagreement
      <4> QED BY <4>1 DEF Bargaining, AboveDisagreement
    <3> QED BY <3>1, <3>2
  <2>7. c = a
    <3>1. CASE Cardinality(C) = 1
      <4>1. PICK x : C = {x}
        <5>1. IsFiniteSet(C)
          BY <2>0, CandidatesAreFit DEF C
        <5> QED BY <3>1, <5>1, FS_Singleton
      <4>2. c \in C
        BY <2>1, <3>1 DEF Elected
      <4> QED BY <2>3, <4>1, <4>2
    <3>2. CASE Cardinality(C) # 1
      <4>1. Elected(C, weights[n]) = Best({a}, LAMBDA e : NashProduct(weights[n], e.u))
        BY <2>6, <3>2 DEF Elected
      <4>2. Best({a}, LAMBDA e : NashProduct(weights[n], e.u)) \subseteq {a}
        BY DEF Best
      <4> QED BY <2>1, <4>1, <4>2
    <3> QED BY <3>1, <3>2
  <2> QED BY <2>1, <2>2, <2>7
<1> QED BY <1>1, DecidedInvariance, PTL

-----------------------------------------------------------------------------
(* Two heads                                                               *)

LEMMA YieldsByDifference ==
  ASSUME NEW n \in Nat, NEW m \in Nat, NEW s \in Nat, NEW a \in Int
  PROVE  Yields(n, s, m, a) <=> (a - s > 1000 \/ (a - s >= -1000 /\ a - s <= 1000 /\ m < n))
BY DEF Yields, Buffer

\* Two heads that know each other's present score never both yield: a cluster that has two
\* heads is not left with none (election.c:535-567).
THEOREM NeverBothYield ==
  ASSUME NEW n \in Nat, NEW m \in Nat, NEW s \in Nat, NEW t \in Nat
  PROVE  ~(Yields(n, s, m, Announced(t)) /\ Yields(m, t, n, Announced(s)))
<1>1. \A x \in Nat : (x \div 10) * 10 <= x /\ (x \div 10) * 10 \in Nat
  OBVIOUS
<1>2. /\ Announced(s) \in Nat /\ Announced(s) <= s
      /\ Announced(t) \in Nat /\ Announced(t) <= t
  BY <1>1 DEF Announced
<1> DEFINE a == Announced(s)
           b == Announced(t)
<1> HIDE DEF a, b
<1>3. a \in Int /\ b \in Int
  BY <1>2 DEF a, b
<1>4. /\ Yields(n, s, m, b) <=> (b - s > 1000 \/ (b - s >= -1000 /\ b - s <= 1000 /\ m < n))
      /\ Yields(m, t, n, a) <=> (a - t > 1000 \/ (a - t >= -1000 /\ a - t <= 1000 /\ n < m))
  BY <1>3, YieldsByDifference
<1> QED
  BY <1>2, <1>4 DEF a, b

\* One of the two yields if the scores differ by less than the tie buffer or by more, by a
\* hundredth of the buffer: what the beacon rounds off is less than that.
THEOREM OneYields ==
  ASSUME NEW n \in Nat, NEW m \in Nat, n # m, NEW s \in Nat, NEW t \in Nat,
         s - t \notin 991 .. 1009, t - s \notin 991 .. 1009
  PROVE  Yields(n, s, m, Announced(t)) \/ Yields(m, t, n, Announced(s))
<1>1. \A x \in Nat : /\ (x \div 10) * 10 <= x /\ (x \div 10) * 10 \in Nat
                    /\ x - (x \div 10) * 10 <= 9
  OBVIOUS
<1>2. /\ Announced(s) \in Nat /\ Announced(s) <= s /\ s - Announced(s) <= 9
      /\ Announced(t) \in Nat /\ Announced(t) <= t /\ t - Announced(t) <= 9
  BY <1>1 DEF Announced
<1> DEFINE a == Announced(s)
           b == Announced(t)
<1> HIDE DEF a, b
<1>3. a \in Int /\ b \in Int
  BY <1>2 DEF a, b
<1>4. /\ Yields(n, s, m, b) <=> (b - s > 1000 \/ (b - s >= -1000 /\ b - s <= 1000 /\ m < n))
      /\ Yields(m, t, n, a) <=> (a - t > 1000 \/ (a - t >= -1000 /\ a - t <= 1000 /\ n < m))
  BY <1>3, YieldsByDifference
<1> QED
  BY <1>2, <1>4 DEF a, b

-----------------------------------------------------------------------------
(* Neighbor tables                                                         *)

\* A table of node n: entries of other nodes, as many as fit, which say what these nodes
\* measured, with a low battery or without.
TableOf(n, t) ==
    /\ DOMAIN t \subseteq Neighborhood \ {n}
    /\ Cardinality(DOMAIN t) <= MaxNeighbors
    /\ \A m \in DOMAIN t :
          /\ t[m] \in NeighborEntry
          /\ \E p \in {Profile[m], Drained[m]} :
                t[m].battery = p.battery /\ t[m].trust = p.trust /\ t[m].linkq = p.linkq

LEMMA NodesAreFinite == \A S \in SUBSET Neighborhood : IsFiniteSet(S) /\ Cardinality(S) \in Nat
BY ClusterAssumption, FS_Subset, FS_CardinalityType

\* neighbor_manager_update: a known neighbor stays and is brought up to date, a new one is
\* added while there is room.
LEMMA Updated ==
    ASSUME NEW t, NEW b, DOMAIN t \subseteq Neighborhood, DOMAIN b \subseteq Neighborhood,
           Cardinality(DOMAIN t) <= MaxNeighbors, NEW u \in Updates(t, b)
    PROVE  /\ DOMAIN t \subseteq DOMAIN u /\ DOMAIN u \subseteq DOMAIN t \cup DOMAIN b
           /\ \A k \in DOMAIN u : u[k] = IF k \in DOMAIN b THEN b[k] ELSE t[k]
           /\ Cardinality(DOMAIN u) <= MaxNeighbors
           /\ Cardinality(DOMAIN t \cup DOMAIN b) <= MaxNeighbors =>
                  DOMAIN u = DOMAIN t \cup DOMAIN b
<1> DEFINE new == DOMAIN b \ DOMAIN t
           room == MaxNeighbors - Cardinality(DOMAIN t)
<1>1. PICK a \in SUBSET new :
          /\ Cardinality(a) = IF Cardinality(new) <= room THEN Cardinality(new) ELSE room
          /\ u = [k \in DOMAIN t \cup a |-> IF k \in DOMAIN b THEN b[k] ELSE t[k]]
  BY DEF Updates
<1>2. DOMAIN u = DOMAIN t \cup a /\ \A k \in DOMAIN u : u[k] = IF k \in DOMAIN b THEN b[k] ELSE t[k]
  BY <1>1
<1>3. /\ IsFiniteSet(DOMAIN t) /\ IsFiniteSet(new) /\ IsFiniteSet(a)
      /\ Cardinality(DOMAIN t) \in Nat /\ Cardinality(new) \in Nat /\ Cardinality(a) \in Nat
  <2>1. /\ DOMAIN t \in SUBSET Neighborhood /\ new \in SUBSET Neighborhood
        /\ a \in SUBSET Neighborhood
    OBVIOUS
  <2> QED BY <2>1, NodesAreFinite
<1>4. /\ Cardinality(DOMAIN t \cup a) = Cardinality(DOMAIN t) + Cardinality(a)
      /\ Cardinality(DOMAIN t \cup new) = Cardinality(DOMAIN t) + Cardinality(new)
  <2>1. DOMAIN t \cap a = {} /\ DOMAIN t \cap new = {}
    OBVIOUS
  <2>2. /\ Cardinality(DOMAIN t \cup a) = Cardinality(DOMAIN t) + Cardinality(a) - Cardinality({})
        /\ Cardinality(DOMAIN t \cup new)
              = Cardinality(DOMAIN t) + Cardinality(new) - Cardinality({})
    <3> HIDE DEF new
    <3> QED BY <1>3, <2>1, FS_Union
  <2>3. Cardinality({}) = 0
    BY FS_EmptySet
  <2> HIDE DEF new
  <2> QED BY <1>3, <2>2, <2>3
<1>5. Cardinality(DOMAIN u) <= MaxNeighbors
  <2> HIDE DEF new
  <2> QED BY <1>1, <1>2, <1>3, <1>4, ConfigAssumption
<1>6. ASSUME Cardinality(DOMAIN t \cup DOMAIN b) <= MaxNeighbors
      PROVE  DOMAIN u = DOMAIN t \cup DOMAIN b
  <2>1. DOMAIN t \cup DOMAIN b = DOMAIN t \cup new
    OBVIOUS
  <2> HIDE DEF new
  <2>2. Cardinality(a) = Cardinality(new)
    BY <1>1, <1>3, <1>4, <1>6, <2>1, ConfigAssumption
  <2>3. a = new
    BY <1>1, <1>3, <2>2, FS_Subset
  <2> QED BY <1>2, <2>1, <2>3
<1> QED BY <1>2, <1>5, <1>6

\* The metrics of a node are those of its profile, with a low battery or without.
LEMMA MetricsType ==
    ASSUME NEW n \in Neighborhood
    PROVE  /\ MetricsOf(n) \in {Profile[n], Drained[n]}
           /\ \A p \in {Profile[n], Drained[n]} : p \in NodeMetrics /\ Tabulated(p)
BY ProfileAssumption DEF MetricsOf

LEMMA AnnouncedType == \A s \in Nat : Announced(s) \in Nat
BY DEF Announced

LEMMA EntryType ==
    ASSUME NEW m \in Neighborhood, node[m].says \in BOOLEAN
    PROVE  /\ Entry(m) \in NeighborEntry
           /\ \E p \in {Profile[m], Drained[m]} :
                Entry(m).battery = p.battery /\ Entry(m).trust = p.trust /\ Entry(m).linkq = p.linkq
<1>1. MetricsOf(m) \in {Profile[m], Drained[m]} /\ MetricsOf(m) \in NodeMetrics
  BY MetricsType
<1>2. Announced(MetricsOf(m).score) \in Nat
  BY <1>1, AnnouncedType DEF NodeMetrics
<1>3. NeighborTimeout \in Nat
  BY NeighborTableAssumption
<1>4. Entry(m) \in NeighborEntry
  BY <1>1, <1>2, <1>3 DEF Entry, NeighborEntry, NodeMetrics
<1> QED BY <1>1, <1>4 DEF Entry

LEMMA UpdatedTable ==
    ASSUME node \in [Neighborhood -> LocalState], NEW n \in Neighborhood, TableOf(n, neighbors[n]),
           NEW heard \in SUBSET Audible(n),
           NEW t \in Updates(neighbors[n], [m \in heard |-> Entry(m)])
    PROVE  TableOf(n, t)
<1> DEFINE b == [m \in heard |-> Entry(m)]
<1>1. DOMAIN b = heard /\ heard \subseteq Neighborhood \ {n} /\ \A m \in heard : b[m] = Entry(m)
  BY DEF Audible, Alive
<1>2. DOMAIN neighbors[n] \subseteq Neighborhood \ {n} /\ Cardinality(DOMAIN neighbors[n]) <= MaxNeighbors
  BY DEF TableOf
<1>3. t \in Updates(neighbors[n], b)
  OBVIOUS
<1> HIDE DEF b
<1>4. /\ DOMAIN t \subseteq DOMAIN neighbors[n] \cup DOMAIN b
      /\ \A k \in DOMAIN t : t[k] = IF k \in DOMAIN b THEN b[k] ELSE neighbors[n][k]
      /\ Cardinality(DOMAIN t) <= MaxNeighbors
  <2>1. DOMAIN neighbors[n] \subseteq Neighborhood /\ DOMAIN b \subseteq Neighborhood
    BY <1>1, <1>2
  <2> DEFINE known == neighbors[n]
  <2>2. /\ DOMAIN known \subseteq Neighborhood /\ Cardinality(DOMAIN known) <= MaxNeighbors
        /\ t \in Updates(known, b)
    BY <1>2, <1>3, <2>1
  <2> HIDE DEF known
  <2>3. /\ DOMAIN t \subseteq DOMAIN known \cup DOMAIN b
        /\ \A k \in DOMAIN t : t[k] = IF k \in DOMAIN b THEN b[k] ELSE known[k]
        /\ Cardinality(DOMAIN t) <= MaxNeighbors
    BY <2>1, <2>2, Updated
  <2> QED BY <2>3 DEF known
<1>5. \A m \in DOMAIN t :
          /\ t[m] \in NeighborEntry
          /\ \E p \in {Profile[m], Drained[m]} :
                t[m].battery = p.battery /\ t[m].trust = p.trust /\ t[m].linkq = p.linkq
  <2> TAKE m \in DOMAIN t
  <2>1. CASE m \in DOMAIN b
    <3>1. m \in Neighborhood /\ t[m] = Entry(m)
      BY <1>1, <1>4, <2>1
    <3>2. node[m].says \in BOOLEAN
      BY <3>1 DEF LocalState
    <3> QED BY <3>1, <3>2, EntryType
  <2>2. CASE m \notin DOMAIN b
    BY <1>4, <2>2 DEF TableOf
  <2> QED BY <2>1, <2>2
<1> QED BY <1>1, <1>2, <1>4, <1>5 DEF TableOf

LEMMA CleanedTable ==
    ASSUME NEW n \in Neighborhood, NEW t, TableOf(n, t)
    PROVE  /\ TableOf(n, Cleaned(t))
           /\ DOMAIN Cleaned(t) \subseteq DOMAIN t
           /\ \A m \in DOMAIN Cleaned(t) : Cleaned(t)[m] = t[m]
<1>1. /\ DOMAIN Cleaned(t) \subseteq DOMAIN t
      /\ \A m \in DOMAIN Cleaned(t) : Cleaned(t)[m] = t[m]
  BY DEF Cleaned, Restrict
<1>2. Cardinality(DOMAIN Cleaned(t)) <= Cardinality(DOMAIN t)
  <2>1. DOMAIN t \in SUBSET Neighborhood
    BY DEF TableOf
  <2> QED BY <1>1, <2>1, NodesAreFinite, FS_Subset
<1>3. Cardinality(DOMAIN Cleaned(t)) \in Nat /\ Cardinality(DOMAIN t) \in Nat
  <2>1. DOMAIN t \in SUBSET Neighborhood /\ DOMAIN Cleaned(t) \in SUBSET Neighborhood
    BY <1>1 DEF TableOf
  <2> QED BY <2>1, NodesAreFinite
<1>4. Cardinality(DOMAIN Cleaned(t)) <= MaxNeighbors
  BY <1>2, <1>3, ConfigAssumption DEF TableOf
<1> QED BY <1>1, <1>4 DEF TableOf

LEMMA AgedTable ==
    ASSUME NEW n \in Neighborhood, NEW t, TableOf(n, t)
    PROVE  TableOf(n, Aged(t))
<1>1. DOMAIN Aged(t) = DOMAIN t
  BY DEF Aged
<1>2. ASSUME NEW m \in DOMAIN t
      PROVE  /\ Aged(t)[m] \in NeighborEntry
             /\ Aged(t)[m].battery = t[m].battery /\ Aged(t)[m].trust = t[m].trust
             /\ Aged(t)[m].linkq = t[m].linkq
  <2>1. t[m] \in NeighborEntry
    BY DEF TableOf
  <2>2. Aged(t)[m] = [t[m] EXCEPT !.age = IF @ < NeighborTimeout THEN @ + 1 ELSE @]
    BY DEF Aged
  <2> QED BY <2>1, <2>2, NeighborTableAssumption DEF NeighborEntry
<1> QED BY <1>1, <1>2 DEF TableOf

\* neighbor_manager_get_current_ch: if there is a fresh head, the best of them.
LEMMA CurrentChIsBest ==
    ASSUME NEW n \in Neighborhood, NEW t, TableOf(n, t)
    PROVE  /\ FreshHeads(t) # {} => CurrentCh(t) \in FreshHeads(t)
           /\ CurrentCh(t) = 0 <=> FreshHeads(t) = {}
<1> DEFINE F == FreshHeads(t)
           Beats(k, j) == t[k].score > t[j].score \/ (t[k].score = t[j].score /\ k < j)
<1>1. /\ F \subseteq DOMAIN t /\ F \in SUBSET Neighborhood
      /\ \A k \in F : k \in Nat \ {0} /\ t[k].score \in Int
  <2>1. F \subseteq DOMAIN t /\ F \subseteq Neighborhood
    BY DEF FreshHeads, TableOf
  <2>2. \A k \in DOMAIN t : t[k].score \in Int
    BY DEF TableOf, NeighborEntry
  <2>3. Neighborhood \subseteq Nat \ {0}
    BY ClusterAssumption
  <2> HIDE DEF F
  <2> QED BY <2>1, <2>2, <2>3
<1>2. ASSUME F # {} PROVE \E k \in F : \A j \in F \ {k} : Beats(k, j)
  <2> DEFINE f == [k \in F |-> [id |-> k]]
             D == {[id |-> k] : k \in F}
             v == [d \in D |-> t[d.id].score]
  <2>1. IsFiniteSet(D)
    <3>1. f \in Surjection(F, D)
      BY Fun_IsSurj
    <3>2. IsFiniteSet(F)
      BY <1>1, NodesAreFinite
    <3> HIDE DEF f, D, F
    <3> QED BY <3>1, <3>2, FS_Surjection
  <2>2. /\ D # {} /\ \A d \in D : v[d] \in Int /\ d.id \in Int
        /\ \A c, d \in D : c.id = d.id => c = d
    <3>1. \A d \in D : d.id \in F /\ d = [id |-> d.id] /\ v[d] = t[d.id].score
      OBVIOUS
    <3>2. D # {}
      BY <1>2
    <3>3. F \subseteq Nat \ {0} /\ \A k \in F : t[k].score \in Int
      BY <1>1
    <3> HIDE DEF D, v, F
    <3> QED BY <3>1, <3>2, <3>3
  <2>3. \A k \in F : [id |-> k] \in D /\ [id |-> k].id = k /\ v[[id |-> k]] = t[k].score
    OBVIOUS
  <2>4. \A d \in D : d.id \in F
    OBVIOUS
  <2> HIDE DEF D, v, F
  <2>5. PICK b \in D : \A d \in D \ {b} : v[b] > v[d] \/ (v[b] = v[d] /\ b.id < d.id)
    BY <2>1, <2>2, OneIsBest
  <2>6. b.id \in F /\ v[b] = t[b.id].score
    BY <2>4 DEF v
  <2>7. \A j \in F \ {b.id} : Beats(b.id, j)
    BY <2>3, <2>5, <2>6
  <2> QED BY <2>6, <2>7
<1>3. CurrentCh(t) = IF F = {} THEN 0 ELSE CHOOSE k \in F : \A j \in F \ {k} : Beats(k, j)
  BY DEF CurrentCh
<1> HIDE DEF F, Beats
<1>4. F # {} => CurrentCh(t) \in F
  BY <1>2, <1>3
<1> QED BY <1>1, <1>3, <1>4 DEF F

LEMMA EmptyTable == \A n \in Neighborhood : TableOf(n, << >>)
<1>1. DOMAIN << >> = {} /\ Cardinality({}) = 0
  BY FS_EmptySet
<1> QED BY <1>1, ConfigAssumption DEF TableOf

-----------------------------------------------------------------------------
(* One loop                                                                *)

\* The steps of a state machine lead from local state to local state.
LEMMA Numbers ==
    /\ LongestWait \in Nat /\ MissThreshold \in Nat \ {0} /\ Frame \in Nat /\ Resend \in Nat
    /\ Stellar \in Nat /\ Stellar <= Frame
BY ClusterAssumption DEF LongestWait, Frame

LEMMA GoesType ==
    ASSUME NEW s \in LocalState, NEW role \in Role \ {"OFF"}
    PROVE  /\ Goes(s, role) \in LocalState /\ Goes(s, role).role = role
           /\ Goes(s, role).scan = s.scan
           /\ role = "CH" => ~Goes(s, role).asserted
<1>1. 0 \in 0 .. LongestWait /\ 0 \in 0 .. MissThreshold /\ role \in Role
  BY Numbers
<1> DEFINE Typed == Goes(s, role) \in LocalState /\ Goes(s, role).role = role
<1>2. ASSUME role = "CH" PROVE Typed
  <2>1. Goes(s, role) = [s EXCEPT !.role = "CH", !.since = 0, !.asserted = FALSE]
    BY <1>2 DEF Goes, LocalState
  <2> QED BY <1>1, <1>2, <2>1 DEF LocalState
<1>3. ASSUME role = "MEMBER" PROVE Typed
  <2> DEFINE t == [s EXCEPT !.role = "MEMBER", !.since = 0, !.started = FALSE]
  <2>1. t \in LocalState /\ t.role = "MEMBER"
    BY <1>1, <1>3 DEF LocalState
  <2>2. Goes(s, role) = [t EXCEPT !.preGuard = FALSE, !.miss = 0]
    BY <1>3 DEF Goes, LocalState
  <2> HIDE DEF t
  <2> QED BY <1>1, <1>3, <2>1, <2>2 DEF LocalState
<1>4. ASSUME role \notin {"CH", "MEMBER"} PROVE Typed
  <2>1. Goes(s, role) = [s EXCEPT !.role = role, !.since = 0]
    BY <1>4 DEF Goes, LocalState
  <2> QED BY <1>1, <2>1 DEF LocalState
<1>5. Goes(s, role).scan = s.scan /\ (role = "CH" => ~Goes(s, role).asserted)
  BY DEF Goes, LocalState
<1> QED BY <1>2, <1>3, <1>4, <1>5

LEMMA StandsType ==
    ASSUME NEW s \in LocalState
    PROVE  Stands(s) \in LocalState /\ Stands(s).role = "CANDIDATE"
<1>1. Goes(s, "CANDIDATE") \in LocalState /\ Goes(s, "CANDIDATE").role = "CANDIDATE"
  BY GoesType DEF Role
<1> QED BY <1>1, Numbers DEF Stands, LocalState

LEMMA OnAirType ==
    ASSUME NEW s \in LocalState
    PROVE  /\ Advertises(s) \in LocalState /\ OnAir(s) \in LocalState /\ Starts(s) \in LocalState
           /\ Advertises(s).role = s.role /\ OnAir(s).role = s.role /\ Starts(s).role = s.role
           /\ OnAir(s).scan /\ OnAir(s).adv /\ (s.role = "CH" => OnAir(s).says)
           /\ OnAir(s).phase = s.phase /\ OnAir(s).asserted = s.asserted
           /\ Starts(s).phase = s.phase /\ Starts(s).asserted = s.asserted
BY DEF Advertises, OnAir, Starts, LocalState

LEMMA TimedType ==
    ASSUME NEW s \in LocalState
    PROVE  /\ Timed(s) \in LocalState
           /\ Timed(s).role = s.role /\ Timed(s).asserted = s.asserted
           /\ s.scan => Timed(s).scan
<1> DEFINE clock == IF s.clock >= Frame THEN 0 ELSE s.clock
           phase == IF clock < Stellar THEN "STELLAR" ELSE "DATA"
           t == [s EXCEPT !.clock = clock, !.phase = phase]
<1>1. clock \in 0 .. Frame /\ phase \in {"STELLAR", "DATA"}
  BY Numbers DEF LocalState
<1>2. Timed(s) = IF phase = s.phase THEN t
                 ELSE IF phase = "STELLAR" THEN [Starts(t) EXCEPT !.scan = TRUE]
                 ELSE [t EXCEPT !.sent = Resend,
                                !.adv = IF s.role \in {"CH", "MEMBER"} THEN FALSE ELSE @]
  BY DEF Timed
<1> HIDE DEF clock, phase
<1>3. /\ t \in LocalState /\ t.role = s.role /\ t.asserted = s.asserted /\ t.scan = s.scan
  BY <1>1 DEF LocalState
<1> HIDE DEF t
<1>4. Starts(t) \in LocalState /\ Starts(t).role = t.role /\ Starts(t).asserted = t.asserted
  BY <1>3, OnAirType
<1>5. CASE phase = s.phase
  BY <1>2, <1>3, <1>5
<1>6. CASE phase # s.phase /\ phase = "STELLAR"
  BY <1>2, <1>3, <1>4, <1>6 DEF LocalState
<1>7. CASE phase # s.phase /\ phase # "STELLAR"
  <2>1. PICK adv \in BOOLEAN : Timed(s) = [t EXCEPT !.sent = Resend, !.adv = adv]
    BY <1>2, <1>3, <1>7 DEF LocalState
  <2>2. Resend \in 0 .. Resend
    BY Numbers
  <2> DEFINE u == [t EXCEPT !.sent = Resend]
  <2>3. u \in LocalState /\ u.role = t.role /\ u.asserted = t.asserted /\ u.scan = t.scan
    BY <1>3, <2>2 DEF LocalState
  <2>4. Timed(s) = [u EXCEPT !.adv = adv]
    BY <2>1
  <2> HIDE DEF u
  <2> QED BY <1>3, <2>3, <2>4 DEF LocalState
<1> QED BY <1>5, <1>6, <1>7

LEMMA MemberRadioType ==
    ASSUME NEW s \in LocalState
    PROVE  MemberRadio(s) \in LocalState /\ MemberRadio(s).role = s.role
BY DEF MemberRadio, InPreGuard, Starts, Advertises, LocalState

\* What HeadsAreHeard says of one node
HeadIsHeard(s) ==
    s.role = "CH" => s.scan /\ (s.asserted /\ s.phase = "STELLAR" => s.adv /\ s.says)

\* What a loop of node n, with state x and table u after it, comes to
LoopEnds(n, x, u) ==
    x \in LocalState /\ x.role # "OFF" /\ HeadIsHeard(x) /\ TableOf(n, u)

LEMMA HeadRadioType ==
    ASSUME NEW s \in LocalState, s.role = "CH", s.scan
    PROVE  /\ HeadRadio(s) \in LocalState /\ HeadRadio(s).role = "CH" /\ HeadRadio(s).scan
           /\ HeadRadio(s).phase = s.phase /\ HeadRadio(s).asserted = s.asserted
           /\ s.phase = "STELLAR" => HeadRadio(s).adv /\ HeadRadio(s).says
<1>1. CASE s.phase = "STELLAR"
  BY <1>1, OnAirType DEF HeadRadio
<1>2. CASE s.phase # "STELLAR"
  BY <1>2 DEF HeadRadio
<1> QED BY <1>1, <1>2

LEMMA YieldsForType ==
    ASSUME NEW s \in LocalState, NEW h
    PROVE  /\ YieldsFor(s, h) \in LocalState
           /\ YieldsFor(s, h).role \in {"CANDIDATE", "MEMBER"}
BY GoesType, StandsType DEF YieldsFor, Role

LEMMA AccessedTables ==
    ASSUME NEW n \in Neighborhood, NEW t, TableOf(n, t)
    PROVE  \A gaveUp \in BOOLEAN :
              TableOf(n, CleanedUnless(t, gaveUp)) /\ TableOf(n, Copied(t, gaveUp))
BY CleanedTable, EmptyTable DEF CleanedUnless, Copied

LEMMA InitLoopEnds ==
    ASSUME NEW n \in Neighborhood, NEW s \in LocalState, NEW t, TableOf(n, t), InitLoop(n, s, t)
    PROVE  \E x, u : Becomes(n, x, u) /\ LoopEnds(n, x, u) /\ x.role # "CH"
<1>1. s.role = "INIT" /\ Goes(s, "DISCOVER") \in LocalState /\ Goes(s, "DISCOVER").role = "DISCOVER"
  BY GoesType DEF InitLoop, Role
<1>2. LoopEnds(n, Goes(s, "DISCOVER"), t) /\ LoopEnds(n, s, t)
  BY <1>1 DEF LoopEnds, HeadIsHeard
<1> QED BY <1>1, <1>2 DEF InitLoop

LEMMA DiscoverLoopEnds ==
    ASSUME NEW n \in Neighborhood, NEW s \in LocalState, NEW t, TableOf(n, t), NEW lack,
           DiscoverLoop(n, s, t, lack)
    PROVE  \E x, u : Becomes(n, x, u) /\ LoopEnds(n, x, u) /\ x.role # "CH"
<1> DEFINE Quiet(r) == [Goes(r, "MEMBER") EXCEPT !.scan = FALSE]
<1>1. s.role = "DISCOVER"
  BY DEF DiscoverLoop
<1>2. \A r \in LocalState : Quiet(r) \in LocalState /\ Quiet(r).role = "MEMBER"
  <2> TAKE r \in LocalState
  <2>1. Goes(r, "MEMBER") \in LocalState /\ Goes(r, "MEMBER").role = "MEMBER"
    BY GoesType DEF Role
  <2> QED BY <2>1 DEF LocalState
<1>3. OnAir(s) \in LocalState /\ OnAir(s).role = "DISCOVER"
  BY <1>1, OnAirType
<1>4. Stands(s) \in LocalState /\ Stands(s).role = "CANDIDATE"
  BY StandsType
<1>5. \E x \in {OnAir(s), Quiet(OnAir(s)), Quiet(s), Stands(s)} : Becomes(n, x, t)
  <2> HIDE DEF Becomes
  <2> QED BY DEF DiscoverLoop
<1>6. \A x \in {OnAir(s), Quiet(OnAir(s)), Quiet(s), Stands(s)} :
          x \in LocalState /\ x.role \in {"DISCOVER", "MEMBER", "CANDIDATE"}
  <2> HIDE DEF Quiet
  <2> QED BY <1>2, <1>3, <1>4
<1> HIDE DEF Quiet
<1> QED BY <1>5, <1>6 DEF LoopEnds, HeadIsHeard

LEMMA CandidateLoopEnds ==
    ASSUME NEW n \in Neighborhood, NEW s \in LocalState, NEW t, TableOf(n, t), NEW lack,
           CandidateLoop(n, s, t, lack)
    PROVE  \E x, u : Becomes(n, x, u) /\ LoopEnds(n, x, u)
<1> DEFINE c == CleanedUnless(t, "cleanup" \in lack)
<1>1. s.role = "CANDIDATE" /\ TableOf(n, c)
  <2>1. ("cleanup" \in lack) \in BOOLEAN
    OBVIOUS
  <2>2. TableOf(n, c)
    BY <2>1, AccessedTables
  <2> HIDE DEF c
  <2> QED BY <2>2 DEF CandidateLoop
<1>2. OnAir(s) \in LocalState /\ OnAir(s).role = "CANDIDATE" /\ OnAir(s).scan
  BY <1>1, OnAirType
<1>3. /\ Goes(OnAir(s), "CH") \in LocalState /\ Goes(OnAir(s), "MEMBER") \in LocalState
      /\ Goes(OnAir(s), "CH").role = "CH" /\ Goes(OnAir(s), "MEMBER").role = "MEMBER"
      /\ Goes(OnAir(s), "CH").scan /\ ~Goes(OnAir(s), "CH").asserted
  BY <1>2, GoesType DEF Role
<1>4. \E x \in {OnAir(s), Goes(OnAir(s), "CH"), Goes(OnAir(s), "MEMBER")} :
          Becomes(n, x, c)
  BY DEF CandidateLoop
<1> HIDE DEF c
<1> QED BY <1>1, <1>2, <1>3, <1>4 DEF LoopEnds, HeadIsHeard

LEMMA HeadLoopEnds ==
    ASSUME NEW n \in Neighborhood, NEW s \in LocalState, s.scan, NEW t, TableOf(n, t), NEW lack,
           HeadConfirms(n, s, t, lack) \/ HeadReconsiders(n, s, t, lack)
    PROVE  \E x, u : Becomes(n, x, u) /\ LoopEnds(n, x, u)
<1> DEFINE h == Head(t, "head" \in lack)
           r == HeadRadio(s)
           a == [HeadRadio(s) EXCEPT !.asserted = TRUE]
<1>1. s.role = "CH"
  BY DEF HeadConfirms, HeadReconsiders
<1>2. /\ r \in LocalState /\ r.role = "CH" /\ r.scan /\ r.phase = s.phase
      /\ s.phase = "STELLAR" => r.adv /\ r.says
  BY <1>1, HeadRadioType
<1>3. /\ a \in LocalState /\ a.role = "CH" /\ a.scan /\ a.phase = s.phase
      /\ s.phase = "STELLAR" => a.adv /\ a.says
  BY <1>2 DEF LocalState
<1>4. \E x \in {r, a, YieldsFor(r, h), YieldsFor(a, h)} : Becomes(n, x, t)
  <2> HIDE DEF Becomes
  <2> QED BY DEF HeadConfirms, HeadReconsiders
<1> HIDE DEF r, a, h
<1>5. \A x \in {YieldsFor(r, h), YieldsFor(a, h)} :
          x \in LocalState /\ x.role \in {"CANDIDATE", "MEMBER"}
  BY <1>2, <1>3, YieldsForType
<1>6. \A x \in {r, a, YieldsFor(r, h), YieldsFor(a, h)} : LoopEnds(n, x, t)
  BY <1>2, <1>3, <1>5 DEF LoopEnds, HeadIsHeard
<1> QED BY <1>4, <1>6

LEMMA MemberLoopEnds ==
    ASSUME NEW n \in Neighborhood, NEW s \in LocalState, NEW t, TableOf(n, t), NEW lack,
           MemberLoop(n, s, t, lack)
    PROVE  \E x, u : Becomes(n, x, u) /\ LoopEnds(n, x, u) /\ x.role # "CH"
<1> DEFINE r == MemberRadio(s)
           c == CleanedUnless(t, "cleanup" \in lack)
           miss == IF Head(t, "head" \in lack) = 0 THEN s.miss + 1 ELSE 0
           a == Advertises([r EXCEPT !.miss = miss])
           Left(q) == [Stands(q) EXCEPT !.started = FALSE]
           Lost(q) == [Stands(q) EXCEPT !.miss = 0, !.started = FALSE]
<1>1. s.role = "MEMBER" /\ TableOf(n, c)
  <2>1. ("cleanup" \in lack) \in BOOLEAN
    OBVIOUS
  <2>2. TableOf(n, c)
    BY <2>1, AccessedTables
  <2> HIDE DEF c
  <2> QED BY <2>2 DEF MemberLoop
<1>2. r \in LocalState /\ r.role = "MEMBER"
  BY <1>1, MemberRadioType
<1>3. \A q \in LocalState :
          /\ Left(q) \in LocalState /\ Left(q).role = "CANDIDATE"
          /\ Lost(q) \in LocalState /\ Lost(q).role = "CANDIDATE"
  <2> TAKE q \in LocalState
  <2>1. Stands(q) \in LocalState /\ Stands(q).role = "CANDIDATE"
    BY StandsType
  <2>2. 0 \in 0 .. MissThreshold
    BY Numbers
  <2> QED BY <2>1, <2>2 DEF LocalState
<1>4. ASSUME miss < MissThreshold
      PROVE  a \in LocalState /\ a.role = "MEMBER"
  <2>1. miss \in 0 .. MissThreshold
    BY <1>4, Numbers DEF LocalState
  <2> HIDE DEF miss, r
  <2>2. [r EXCEPT !.miss = miss] \in LocalState /\ [r EXCEPT !.miss = miss].role = "MEMBER"
    BY <1>2, <2>1 DEF LocalState
  <2> QED BY <2>2, OnAirType
<1>5. \/ Becomes(n, r, c)
      \/ Becomes(n, Lost(r), t)
      \/ miss < MissThreshold /\ Becomes(n, Left(a), c)
      \/ miss < MissThreshold /\ Becomes(n, a, c)
  <2> HIDE DEF Becomes
  <2> QED BY DEF MemberLoop
<1> HIDE DEF r, c, miss, a, Left, Lost
<1>6. \A x \in LocalState : x.role \in {"MEMBER", "CANDIDATE"} =>
          LoopEnds(n, x, c) /\ LoopEnds(n, x, t)
  BY <1>1 DEF LoopEnds, HeadIsHeard
<1> QED BY <1>2, <1>3, <1>4, <1>5, <1>6

\* A schedule sets the clocks of those it reaches, and nothing else of theirs.
LEMMA HeadDutiesEnd ==
    ASSUME NEW n \in Neighborhood, NEW s \in LocalState, s.scan, NEW t, TableOf(n, t),
           NEW lack, NEW missed, HeadDuties(n, s, t, lack, missed)
    PROVE  \E x, u :
              /\ LoopEnds(n, x, u) /\ x.role = "CH" /\ x.asserted
              /\ neighbors' = [neighbors EXCEPT ![n] = u]
              /\ node' = [k \in Neighborhood |-> node'[k]] /\ node'[n] = x
              /\ \A k \in Neighborhood \ {n} :
                    node'[k] \in {node[k], [node[k] EXCEPT !.clock = Stellar]}
<1> DEFINE c == CleanedUnless(t, "cleanup" \in lack)
           members == DOMAIN Copied(c, "schedule" \in lack)
           sends == s.phase = "DATA" /\ s.sent = Resend /\ members # {}
           got == IF sends THEN (Alive \cap members) \ missed ELSE {}
           r == HeadRadio(s)
           a == [r EXCEPT !.asserted = TRUE, !.sent = IF sends THEN 0 ELSE @,
                          !.says = @ \/ (sends /\ s.adv)]
<1>1. s.role = "CH" /\ TableOf(n, c)
  <2>1. ("cleanup" \in lack) \in BOOLEAN
    OBVIOUS
  <2>2. TableOf(n, c)
    BY <2>1, AccessedTables
  <2> HIDE DEF c
  <2> QED BY <2>2 DEF HeadDuties
<1>2. /\ r \in LocalState /\ r.role = "CH" /\ r.scan /\ r.phase = s.phase
      /\ s.phase = "STELLAR" => r.adv /\ r.says
  BY <1>1, HeadRadioType
<1>3. /\ node' = [k \in Neighborhood |->
                    IF k = n THEN a
                    ELSE IF k \in got THEN [node[k] EXCEPT !.clock = Stellar]
                    ELSE node[k]]
      /\ neighbors' = [neighbors EXCEPT ![n] = c]
  BY DEF HeadDuties
<1>4. /\ a \in LocalState /\ a.role = "CH" /\ a.scan /\ a.phase = s.phase /\ a.asserted
      /\ s.phase = "STELLAR" => a.adv /\ a.says
  <2> DEFINE v == IF sends THEN 0 ELSE r.sent
             y == r.says \/ (sends /\ s.adv)
             q == [r EXCEPT !.asserted = TRUE, !.sent = v]
  <2>1. a = [q EXCEPT !.says = y]
    BY <1>2 DEF LocalState
  <2>2. v \in 0 .. Resend
    BY <1>2, Numbers DEF LocalState
  <2>3. y \in BOOLEAN /\ (r.says => y)
    BY <1>2 DEF LocalState
  <2> HIDE DEF v, y, a, r, sends
  <2>4. /\ q \in LocalState /\ q.role = "CH" /\ q.scan /\ q.phase = r.phase /\ q.asserted
        /\ q.adv = r.adv
    BY <1>2, <2>2 DEF LocalState
  <2> HIDE DEF q
  <2> QED BY <1>2, <2>1, <2>3, <2>4 DEF LocalState
<1> HIDE DEF a, got, sends, members, c
<1>5. LoopEnds(n, a, c)
  BY <1>1, <1>4 DEF LoopEnds, HeadIsHeard
<1>6. /\ node'[n] = a
      /\ \A k \in Neighborhood \ {n} : node'[k] \in {node[k], [node[k] EXCEPT !.clock = Stellar]}
      /\ node' = [k \in Neighborhood |-> node'[k]]
  BY <1>3
<1> QED BY <1>3, <1>4, <1>5, <1>6

\* The loop of node n, by what it hears
LEMMA LoopStep ==
    ASSUME node \in [Neighborhood -> LocalState], DOMAIN neighbors = Neighborhood,
           NEW n \in Neighborhood, TableOf(n, neighbors[n]), node[n].role # "OFF",
           HeadIsHeard(node[n]), Loop(n)
    PROVE  \E x, u :
              /\ LoopEnds(n, x, u)
              /\ neighbors' = [neighbors EXCEPT ![n] = u]
              /\ node' = [k \in Neighborhood |-> node'[k]] /\ node'[n] = x
              /\ \A k \in Neighborhood \ {n} :
                    node'[k] \in {node[k], [node[k] EXCEPT !.clock = Stellar]}
<1>1. PICK lost \in SUBSET Audible(n), missed \in SUBSET (Alive \ {n}), lack \in Lacking :
         \E t \in Updates(neighbors[n], [m \in Audible(n) \ lost |-> Entry(m)]) :
            RoleLoop(n, Timed(node[n]), t, lack, missed)
  BY DEF Loop
<1> DEFINE heard == Audible(n) \ lost
           s == Timed(node[n])
<1>2. PICK t \in Updates(neighbors[n], [m \in heard |-> Entry(m)]) :
            RoleLoop(n, s, t, lack, missed)
  BY <1>1
<1>3. TableOf(n, t)
  <2>1. heard \in SUBSET Audible(n)
    OBVIOUS
  <2> HIDE DEF heard
  <2> QED BY <2>1, UpdatedTable
<1>4. s \in LocalState /\ s.role = node[n].role /\ (s.role = "CH" => s.scan)
  BY TimedType DEF HeadIsHeard
<1>5. RoleLoop(n, s, t, lack, missed)
  BY <1>2
<1> HIDE DEF s, heard
<1>6. ASSUME NEW x, NEW u, Becomes(n, x, u), LoopEnds(n, x, u)
      PROVE  /\ neighbors' = [neighbors EXCEPT ![n] = u]
             /\ node' = [k \in Neighborhood |-> node'[k]] /\ node'[n] = x
             /\ \A k \in Neighborhood \ {n} :
                   node'[k] \in {node[k], [node[k] EXCEPT !.clock = Stellar]}
  BY <1>6 DEF Becomes
<1>7. (\E x, u : Becomes(n, x, u) /\ LoopEnds(n, x, u)) \/ HeadDuties(n, s, t, lack, missed)
  <2>1. CASE InitLoop(n, s, t)
    BY <1>3, <1>4, <2>1, InitLoopEnds
  <2>2. CASE DiscoverLoop(n, s, t, lack)
    BY <1>3, <1>4, <2>2, DiscoverLoopEnds
  <2>3. CASE CandidateLoop(n, s, t, lack)
    BY <1>3, <1>4, <2>3, CandidateLoopEnds
  <2>4. CASE HeadConfirms(n, s, t, lack) \/ HeadReconsiders(n, s, t, lack)
    <3>1. s.role = "CH"
      BY <2>4 DEF HeadConfirms, HeadReconsiders
    <3> QED BY <1>3, <1>4, <2>4, <3>1, HeadLoopEnds
  <2>5. CASE MemberLoop(n, s, t, lack)
    BY <1>3, <1>4, <2>5, MemberLoopEnds
  <2> QED BY <1>5, <2>1, <2>2, <2>3, <2>4, <2>5 DEF RoleLoop
<1>8. CASE HeadDuties(n, s, t, lack, missed)
  <2>1. s.role = "CH"
    BY <1>8 DEF HeadDuties
  <2> QED BY <1>3, <1>4, <1>8, <2>1, HeadDutiesEnd
<1> QED BY <1>6, <1>7, <1>8

-----------------------------------------------------------------------------
(* The invariant of a cluster                                              *)

ClusterInv ==
    /\ node \in [Neighborhood -> LocalState]
    /\ DOMAIN neighbors = Neighborhood
    /\ \A n \in Neighborhood : TableOf(n, neighbors[n]) /\ HeadIsHeard(node[n])
    /\ due \subseteq Alive
    /\ faults \in 0..MaxFaults /\ quiet \in 0..Settling /\ rivals \in 0..Rivalry

LEMMA FaultCounted ==
    ASSUME ClusterInv, Fault \/ NoFault
    PROVE  faults' \in 0..MaxFaults /\ quiet' \in 0..Settling
BY ClusterAssumption DEF ClusterInv, Fault, NoFault

LEMMA LoopKeeps ==
    ASSUME ClusterInv, NEW n \in Neighborhood, Loop(n)
    PROVE  ClusterInv'
<1>1. n \in due /\ due' = due \ {n} /\ rivals' = rivals /\ (Fault \/ NoFault)
  BY DEF Loop
<1>2. node[n].role # "OFF"
  BY <1>1 DEF ClusterInv, Alive
<1>3. PICK x, u :
          /\ LoopEnds(n, x, u)
          /\ neighbors' = [neighbors EXCEPT ![n] = u]
          /\ node' = [k \in Neighborhood |-> node'[k]] /\ node'[n] = x
          /\ \A k \in Neighborhood \ {n} :
                node'[k] \in {node[k], [node[k] EXCEPT !.clock = Stellar]}
  BY <1>2, LoopStep DEF ClusterInv
<1>4. \A k \in Neighborhood :
          /\ node'[k] \in LocalState /\ HeadIsHeard(node'[k])
          /\ node[k].role # "OFF" => node'[k].role # "OFF"
  <2> TAKE k \in Neighborhood
  <2>1. CASE k = n
    BY <1>3, <2>1 DEF LoopEnds
  <2>2. CASE k # n
    <3>1. node[k] \in LocalState /\ HeadIsHeard(node[k])
      BY DEF ClusterInv
    <3>2. Stellar \in 0 .. Frame
      BY Numbers
    <3>3. \A s \in LocalState : HeadIsHeard(s) =>
              /\ [s EXCEPT !.clock = Stellar] \in LocalState
              /\ HeadIsHeard([s EXCEPT !.clock = Stellar])
              /\ [s EXCEPT !.clock = Stellar].role = s.role
      BY <3>2 DEF LocalState, HeadIsHeard
    <3>4. node'[k] = node[k] \/ node'[k] = [node[k] EXCEPT !.clock = Stellar]
      BY <1>3, <2>2
    <3> QED BY <3>1, <3>3, <3>4
  <2> QED BY <2>1, <2>2
<1>5. node' \in [Neighborhood -> LocalState]
  BY <1>3, <1>4
<1>6. /\ DOMAIN neighbors' = Neighborhood
      /\ \A k \in Neighborhood : TableOf(k, neighbors'[k])
  BY <1>3 DEF ClusterInv, LoopEnds
<1>7. due' \subseteq Alive'
  BY <1>1, <1>4 DEF ClusterInv, Alive
<1>8. (\A k \in Neighborhood : TableOf(k, neighbors[k]) /\ HeadIsHeard(node[k]))'
  BY <1>4, <1>6 DEF TableOf, HeadIsHeard
<1> QED BY <1>1, <1>5, <1>6, <1>7, <1>8, FaultCounted DEF ClusterInv

LEMMA TickKeeps == ClusterInv /\ Tick => ClusterInv'
<1> SUFFICES ASSUME ClusterInv, Tick PROVE ClusterInv'
  OBVIOUS
<1> DEFINE Passed(s) == [s EXCEPT !.since = Later(@, LongestWait),
                                  !.window = Later(@, LongestWait),
                                  !.clock = Later(@, Frame),
                                  !.sent = Later(@, Resend)]
<1>1. \A cap \in Nat : \A x \in 0 .. cap : Later(x, cap) \in 0 .. cap
  BY DEF Later
<1>2. \A s \in LocalState :
          /\ Passed(s) \in LocalState /\ Passed(s).role = s.role
          /\ HeadIsHeard(s) => HeadIsHeard(Passed(s))
  <2> TAKE s \in LocalState
  <2>1. PICK a \in 0 .. LongestWait, b \in 0 .. LongestWait, x \in 0 .. Frame, y \in 0 .. Resend :
            Passed(s) = [s EXCEPT !.since = a, !.window = b, !.clock = x, !.sent = y]
    <3>1. /\ Later(s.since, LongestWait) \in 0 .. LongestWait
          /\ Later(s.window, LongestWait) \in 0 .. LongestWait
          /\ Later(s.clock, Frame) \in 0 .. Frame /\ Later(s.sent, Resend) \in 0 .. Resend
      BY <1>1, Numbers DEF LocalState
    <3>2. Passed(s) = [s EXCEPT !.since = Later(s.since, LongestWait),
                                !.window = Later(s.window, LongestWait),
                                !.clock = Later(s.clock, Frame), !.sent = Later(s.sent, Resend)]
      OBVIOUS
    <3> QED BY <3>1, <3>2
  <2> HIDE DEF Passed
  <2> DEFINE t == [s EXCEPT !.since = a, !.window = b]
  <2>2. /\ t \in LocalState /\ t.role = s.role /\ t.scan = s.scan /\ t.asserted = s.asserted
        /\ t.phase = s.phase /\ t.adv = s.adv /\ t.says = s.says
    BY DEF LocalState
  <2>3. Passed(s) = [t EXCEPT !.clock = x, !.sent = y]
    BY <2>1
  <2> HIDE DEF t
  <2>4. /\ Passed(s) \in LocalState /\ Passed(s).role = t.role /\ Passed(s).scan = t.scan
        /\ Passed(s).asserted = t.asserted /\ Passed(s).phase = t.phase
        /\ Passed(s).adv = t.adv /\ Passed(s).says = t.says
    BY <2>2, <2>3 DEF LocalState
  <2> QED BY <2>2, <2>4 DEF HeadIsHeard
<1>3. /\ node' = [n \in Neighborhood |-> IF n \notin Alive THEN node[n] ELSE Passed(node[n])]
      /\ neighbors' = [n \in Neighborhood |-> Aged(neighbors[n])]
      /\ due' = Alive /\ faults' = faults
  BY DEF Tick
<1> HIDE DEF Passed
<1>4. /\ node' \in [Neighborhood -> LocalState]
      /\ \A n \in Neighborhood : node'[n].role = node[n].role /\ HeadIsHeard(node'[n])
  BY <1>2, <1>3 DEF ClusterInv
<1>5. /\ DOMAIN neighbors' = Neighborhood
      /\ \A n \in Neighborhood : TableOf(n, neighbors'[n])
  BY <1>3, AgedTable DEF ClusterInv
<1>6. due' \subseteq Alive'
  BY <1>3, <1>4 DEF Alive
<1>7. quiet' \in 0 .. Settling /\ rivals' \in 0 .. Rivalry
  <2>1. Settling \in Nat \ {0} /\ Rivalry \in Nat \ {0}
    BY ClusterAssumption
  <2>2. quiet' = Later(quiet, Settling) /\ rivals' \in {0, Later(rivals, Rivalry)}
    BY DEF Tick
  <2>3. Later(quiet, Settling) \in 0 .. Settling /\ Later(rivals, Rivalry) \in 0 .. Rivalry
    BY <1>1, <2>1 DEF ClusterInv
  <2> QED BY <2>1, <2>2, <2>3
<1>8. (\A n \in Neighborhood : TableOf(n, neighbors[n]) /\ HeadIsHeard(node[n]))'
  BY <1>4, <1>5 DEF TableOf, HeadIsHeard
<1> QED BY <1>3, <1>4, <1>5, <1>6, <1>7, <1>8 DEF ClusterInv

\* A node that boots, crashes or runs low: its state changes, and perhaps its table.
LEMMA NodeChanges ==
    ASSUME ClusterInv, NEW n \in Neighborhood, NEW s \in LocalState, HeadIsHeard(s),
           node' = [node EXCEPT ![n] = s],
           neighbors' = neighbors \/ neighbors' = [neighbors EXCEPT ![n] = << >>],
           due' \subseteq due, s.role = "OFF" => n \notin due',
           rivals' = rivals, faults' \in 0..MaxFaults, quiet' \in 0..Settling
    PROVE  ClusterInv'
<1>1. /\ node' \in [Neighborhood -> LocalState]
      /\ \A k \in Neighborhood : HeadIsHeard(node'[k])
  BY DEF ClusterInv
<1>2. /\ DOMAIN neighbors' = Neighborhood
      /\ \A k \in Neighborhood : TableOf(k, neighbors'[k])
  BY EmptyTable DEF ClusterInv
<1>3. due' \subseteq Alive'
  BY DEF ClusterInv, Alive
<1>4. (\A k \in Neighborhood : TableOf(k, neighbors[k]) /\ HeadIsHeard(node[k]))'
  BY <1>1, <1>2 DEF TableOf, HeadIsHeard
<1> QED BY <1>1, <1>2, <1>3, <1>4 DEF ClusterInv

LEMMA OffType == Off \in LocalState /\ Off.role = "OFF"
<1>1. 0 \in 0 .. LongestWait /\ 0 \in 0 .. MissThreshold /\ 0 \in 0 .. Frame /\ Resend \in 0 .. Resend
  BY Numbers
<1> QED BY <1>1 DEF Off, LocalState, Role

LEMMA ClusterStart == ClusterInit => ClusterInv
<1> SUFFICES ASSUME ClusterInit PROVE ClusterInv
  OBVIOUS
<1>1. \A n \in Neighborhood : node[n] = Off /\ neighbors[n] = << >>
  BY DEF ClusterInit
<1>2. \A n \in Neighborhood : TableOf(n, neighbors[n]) /\ HeadIsHeard(node[n])
  BY <1>1, OffType, EmptyTable DEF HeadIsHeard
<1> QED BY <1>2, OffType, ClusterAssumption DEF ClusterInit, ClusterInv

LEMMA ClusterStep == ClusterInv /\ [ClusterNext]_clusterVars => ClusterInv'
<1> SUFFICES ASSUME ClusterInv, [ClusterNext]_clusterVars PROVE ClusterInv'
  OBVIOUS
<1>1. CASE Tick
  BY <1>1, TickKeeps
<1>2. ASSUME NEW n \in Neighborhood, Loop(n) PROVE ClusterInv'
  BY <1>2, LoopKeeps
<1>3. ASSUME NEW n \in Neighborhood, Boots(n) PROVE ClusterInv'
  <2> DEFINE s == [Off EXCEPT !.role = "INIT", !.low = node[n].low]
  <2>1. s \in LocalState /\ s.role = "INIT"
    BY OffType DEF LocalState, Role, ClusterInv
  <2>2. 0 \in 0 .. Settling
    BY ClusterAssumption
  <2>3. /\ node' = [node EXCEPT ![n] = s] /\ neighbors' = neighbors /\ due' = due
        /\ rivals' = rivals /\ faults' \in 0..MaxFaults /\ quiet' \in 0..Settling
    BY <1>3, <2>2 DEF Boots, ClusterInv
  <2> HIDE DEF s
  <2> QED BY <2>1, <2>3, NodeChanges DEF HeadIsHeard
<1>4. ASSUME NEW n \in Neighborhood, Crash(n) PROVE ClusterInv'
  <2> DEFINE s == [Off EXCEPT !.low = node[n].low]
  <2>1. s \in LocalState /\ s.role = "OFF"
    BY OffType DEF LocalState, ClusterInv
  <2>2. /\ node' = [node EXCEPT ![n] = s] /\ neighbors' = [neighbors EXCEPT ![n] = << >>]
        /\ due' = due \ {n} /\ rivals' = rivals
        /\ faults' \in 0..MaxFaults /\ quiet' \in 0..Settling
    BY <1>4, FaultCounted DEF Crash
  <2> HIDE DEF s
  <2> QED BY <2>1, <2>2, NodeChanges DEF HeadIsHeard
<1>5. ASSUME NEW n \in Neighborhood, RunsLow(n) PROVE ClusterInv'
  <2> DEFINE s == [node[n] EXCEPT !.low = TRUE]
  <2>0. node[n] \in LocalState /\ HeadIsHeard(node[n]) /\ node[n].role # "OFF"
    BY <1>5 DEF ClusterInv, RunsLow, Alive
  <2>1. s \in LocalState /\ HeadIsHeard(s) /\ s.role = node[n].role
    BY <2>0 DEF LocalState, HeadIsHeard
  <2>2. /\ node' = [node EXCEPT ![n] = s] /\ neighbors' = neighbors
        /\ due' = due /\ rivals' = rivals
        /\ faults' \in 0..MaxFaults /\ quiet' \in 0..Settling
    <3>1. node' = [node EXCEPT ![n] = s]
      BY <1>5 DEF RunsLow, ClusterInv
    <3> QED BY <1>5, <3>1, FaultCounted DEF RunsLow
  <2> HIDE DEF s
  <2> QED BY <2>0, <2>1, <2>2, NodeChanges
<1>6. CASE UNCHANGED clusterVars
  <2>1. /\ node' = node /\ neighbors' = neighbors /\ due' = due
        /\ rivals' = rivals /\ faults' = faults /\ quiet' = quiet
    BY <1>6 DEF clusterVars
  <2> QED BY <2>1 DEF ClusterInv, Alive, TableOf, HeadIsHeard
<1> QED BY <1>1, <1>2, <1>3, <1>4, <1>5, <1>6 DEF ClusterNext

LEMMA ClusterInvariance == ClusterSpec => []ClusterInv
BY ClusterStart, ClusterStep, PTL DEF ClusterSpec

\* A node's state machine is in one of its states and its table has other nodes only, for any
\* number of nodes that boot, fail and run low in any order.
THEOREM ClusterTypeCorrect == ClusterSpec => []ClusterTypeOK
<1>1. ClusterInv => ClusterTypeOK
  BY DEF ClusterInv, ClusterTypeOK, TableOf
<1> QED BY <1>1, ClusterInvariance, PTL

\* Every asserted head can be heard by whoever listens throughout its STELLAR phase, and
\* listens itself: two heads cannot miss each other but for lost beacons.
THEOREM HeadsAreHeardCorrect == ClusterSpec => []HeadsAreHeard
<1>1. ClusterInv => HeadsAreHeard
  BY DEF ClusterInv, HeadsAreHeard, HeadIsHeard, Asserted
<1> QED BY <1>1, ClusterInvariance, PTL

-----------------------------------------------------------------------------
(* Elections of a cluster                                                  *)

\* Every candidate of an election is another node, or the node that elects.
LEMMA CandidatesOfFit ==
    ASSUME ClusterInv, NEW n \in Neighborhood, NEW t, TableOf(n, t)
    PROVE  /\ IsFiniteSet(CandidatesOf(n, t)) /\ CandidatesOf(n, t) # {}
           /\ \A c \in CandidatesOf(n, t) : Fit(c) /\ c.id \in Neighborhood
           /\ \A c, d \in CandidatesOf(n, t) : c.id = d.id => c = d
<1> DEFINE R(m) == [id |-> m, u |-> Utilities(t[m]), centrality |-> RemoteCentrality]
           S == [id |-> n, u |-> Utilities(MetricsOf(n)), centrality |-> 100]
           K == {k \in DOMAIN t : t[k].trust >= TrustFloor}
<1>1. CandidatesOf(n, t) = {S} \cup {R(m) : m \in K}
  BY DEF CandidatesOf
<1>2. IsFiniteSet({S} \cup {R(m) : m \in K})
  <2>1. IsFiniteSet(K)
    <3>1. K \in SUBSET Neighborhood
      BY DEF TableOf
    <3> HIDE DEF K
    <3> QED BY <3>1, NodesAreFinite
  <2>2. IsFiniteSet({R(m) : m \in K})
    <3> DEFINE f == [m \in K |-> R(m)]
    <3>1. f \in Surjection(K, {R(m) : m \in K})
      BY Fun_IsSurj
    <3> HIDE DEF f
    <3> QED BY <2>1, <3>1, FS_Surjection
  <2>3. {S} \cup {R(m) : m \in K} = {R(m) : m \in K} \cup {S}
    OBVIOUS
  <2> HIDE DEF R, K, S
  <2> QED BY <2>2, <2>3, FS_AddElement
<1>3. S.id = n /\ Fit(S)
  <2>1. /\ MetricsOf(n) \in NodeMetrics /\ Tabulated(MetricsOf(n))
    BY MetricsType
  <2>2. Utilities(MetricsOf(n)) \in NatVector
    <3>1. /\ MetricsOf(n).battery \in 0 .. 100 /\ MetricsOf(n).trust \in 0 .. 100
          /\ MetricsOf(n).uptime \in Nat
      BY <2>1 DEF NodeMetrics
    <3> QED BY <2>1, <3>1, UtilitiesAreNatural
  <2>3. AboveDisagreement(Utilities(MetricsOf(n))) =>
            \A i \in Dimensions : Ln[Utilities(MetricsOf(n))[i] - Disagreement] \in Int
    BY <2>1 DEF Tabulated
  <2>4. n \in Nat
    BY ClusterAssumption
  <2> QED BY <2>2, <2>3, <2>4 DEF Fit
<1>4. ASSUME NEW m \in K PROVE R(m).id = m /\ m \in Neighborhood \ {n} /\ Fit(R(m))
  <2>1. m \in Neighborhood \ {n} /\ t[m] \in NeighborEntry
    BY DEF TableOf
  <2>2. PICK p \in {Profile[m], Drained[m]} :
            t[m].battery = p.battery /\ t[m].trust = p.trust /\ t[m].linkq = p.linkq
    BY DEF TableOf
  <2>3. p \in NodeMetrics /\ Tabulated(p)
    BY <2>1, <2>2, MetricsType
  <2>4. Utilities(t[m]) \in NatVector /\ Utilities(t[m])[2] = 0
    <3>1. p.battery \in 0 .. 100 /\ p.trust \in 0 .. 100 /\ p.uptime \in Nat /\ t[m].uptime = 0
      BY <2>1, <2>3 DEF NodeMetrics, NeighborEntry
    <3> QED BY <2>2, <2>3, <3>1, UtilitiesAreNatural
  <2>5. ~AboveDisagreement(Utilities(t[m]))
    <3>1. 2 \in Dimensions /\ ~(0 > Disagreement)
      BY DEF Dimensions, Disagreement
    <3> QED BY <2>4, <3>1 DEF AboveDisagreement
  <2>6. m \in Nat /\ RemoteCentrality \in 0 .. 100
    <3>1. Neighborhood \subseteq Nat
      BY ClusterAssumption
    <3>2. m \in Neighborhood
      BY <2>1
    <3>3. RemoteCentrality \in 0 .. 100
      BY DEF RemoteCentrality
    <3> HIDE DEF R, S, K
    <3> QED BY <3>1, <3>2, <3>3
  <2> QED BY <2>1, <2>4, <2>5, <2>6 DEF Fit
<1> HIDE DEF S, R, K
<1> QED BY <1>1, <1>2, <1>3, <1>4

LEMMA WinnersAreOne ==
    ASSUME ClusterInv, NEW n \in Neighborhood, NEW t, TableOf(n, t)
    PROVE  \E w \in Neighborhood : Winners(n, t) = {w}
<1> DEFINE C == CandidatesOf(n, t)
<1>1. /\ IsFiniteSet(C) /\ C # {} /\ \A c \in C : Fit(c) /\ c.id \in Neighborhood
      /\ \A c, d \in C : c.id = d.id => c = d
  BY CandidatesOfFit
<1>2. SharedWeights \in NatVector
  BY ClusterAssumption DEF NatVector
<1> HIDE DEF C
<1>3. PICK k \in C : Elected(C, SharedWeights) = {k}
  BY <1>1, <1>2, OneIsElected
<1>4. Winners(n, t) = {k.id}
  BY <1>3 DEF Winners, C
<1> QED BY <1>1, <1>4

LEMMA TablesOfNodes ==
    ASSUME ClusterInv, NEW n \in Neighborhood, NEW t \in TablesOf(n)
    PROVE  TableOf(n, t)
<1>1. PICK heard \in SUBSET Audible(n) : t \in Updates(neighbors[n], [m \in heard |-> Entry(m)])
  BY DEF TablesOf
<1> QED BY <1>1, UpdatedTable DEF ClusterInv

\* Whatever a candidate has heard of how many others, and whichever access to its table gives
\* up, its election has exactly one winner: no loop leaves a node in CANDIDATE once its window is
\* over (election_run).
THEOREM ElectionsDecide == ClusterSpec => []EveryElectionDecides
<1>1. ClusterInv => EveryElectionDecides
  <2> SUFFICES ASSUME ClusterInv, NEW n \in Alive, NEW t \in TablesOf(n),
                      NEW old \in BOOLEAN, NEW blind \in BOOLEAN
               PROVE  \E w \in Neighborhood :
                         Winners(n, Copied(CleanedUnless(t, old), blind)) = {w}
    BY DEF EveryElectionDecides
  <2>1. n \in Neighborhood
    BY DEF Alive
  <2>2. TableOf(n, Copied(CleanedUnless(t, old), blind))
    BY <2>1, TablesOfNodes, AccessedTables
  <2> QED BY <2>1, <2>2, WinnersAreOne
<1> QED BY <1>1, ClusterInvariance, PTL

-----------------------------------------------------------------------------
(* What a step may do to a head                                            *)

\* Only its own loop changes the role of a node that runs.
LEMMA OtherSteps ==
    ASSUME ClusterInv, [ClusterNext]_clusterVars, NEW n \in Neighborhood, ~Loop(n)
    PROVE  \/ node'[n].role = "OFF"
           \/ node[n].role = "OFF" /\ node'[n].role = "INIT"
           \/ node'[n].role = node[n].role /\ node'[n].asserted = node[n].asserted
<1>0. node \in [Neighborhood -> LocalState]
  BY DEF ClusterInv
<1>1. CASE Tick
  BY <1>0, <1>1 DEF Tick, LocalState
<1>2. ASSUME NEW k \in Neighborhood \ {n}, Loop(k)
      PROVE  node'[n].role = node[n].role /\ node'[n].asserted = node[n].asserted
  <2>1. node[k].role # "OFF"
    BY <1>2 DEF Loop, ClusterInv, Alive
  <2>2. node'[n] = node[n] \/ node'[n] = [node[n] EXCEPT !.clock = Stellar]
    BY <1>2, <2>1, LoopStep DEF ClusterInv
  <2> QED BY <1>0, <2>2 DEF LocalState
<1>3. ASSUME NEW k \in Neighborhood, Boots(k)
      PROVE  \/ node[n].role = "OFF" /\ node'[n].role = "INIT"
             \/ node'[n].role = node[n].role /\ node'[n].asserted = node[n].asserted
  BY <1>0, <1>3 DEF Boots, Alive, Off
<1>4. ASSUME NEW k \in Neighborhood, Crash(k)
      PROVE  \/ node'[n].role = "OFF"
             \/ node'[n].role = node[n].role /\ node'[n].asserted = node[n].asserted
  BY <1>0, <1>4 DEF Crash, Off
<1>5. ASSUME NEW k \in Neighborhood, RunsLow(k)
      PROVE  node'[n].role = node[n].role /\ node'[n].asserted = node[n].asserted
  BY <1>0, <1>5 DEF RunsLow, LocalState
<1>6. CASE UNCHANGED clusterVars
  BY <1>6 DEF clusterVars
<1> QED BY <1>1, <1>2, <1>3, <1>4, <1>5, <1>6 DEF ClusterNext

\* What the own loop of a node is about: its state after the change of phase, and a table
\* with the entries it had or those of the beacons it has heard
LEMMA OwnLoop ==
    ASSUME ClusterInv, NEW n \in Neighborhood, Loop(n)
    PROVE  \E heard, missed, lack :
           /\ heard \in SUBSET Audible(n)
           /\ \E t \in Updates(neighbors[n], [m \in heard |-> Entry(m)]) :
                 /\ faults' = faults => heard = Audible(n) /\ lack = {}
                 /\ TableOf(n, t)
                 /\ \A m \in DOMAIN t : IF m \in heard THEN t[m] = Entry(m)
                                         ELSE m \in DOMAIN neighbors[n] /\ t[m] = neighbors[n][m]
                 /\ DOMAIN neighbors[n] \subseteq DOMAIN t
                 /\ Cardinality(DOMAIN neighbors[n] \cup heard) <= MaxNeighbors => heard \subseteq DOMAIN t
                 /\ RoleLoop(n, Timed(node[n]), t, lack, missed)
<1>1. PICK lost \in SUBSET Audible(n), missed \in SUBSET (Alive \ {n}), lack \in Lacking :
         /\ IF lack # {} \/ lost \cup missed # {} THEN Fault ELSE NoFault
         /\ \E t \in Updates(neighbors[n], [m \in Audible(n) \ lost |-> Entry(m)]) :
               RoleLoop(n, Timed(node[n]), t, lack, missed)
  BY DEF Loop
<1> DEFINE heard == Audible(n) \ lost
           b == [m \in heard |-> Entry(m)]
<1>2. PICK t \in Updates(neighbors[n], b) :
            RoleLoop(n, Timed(node[n]), t, lack, missed)
  BY <1>1
<1>3. heard \in SUBSET Audible(n)
  OBVIOUS
<1>4. faults' = faults => heard = Audible(n) /\ lack = {}
  <2> SUFFICES ASSUME faults' = faults PROVE lost = {} /\ lack = {}
    OBVIOUS
  <2>1. faults \in Nat
    BY ClusterAssumption DEF ClusterInv
  <2>2. ~Fault
    BY <2>1 DEF Fault
  <2> QED BY <1>1, <2>2
<1>5. DOMAIN b = heard /\ \A m \in heard : b[m] = Entry(m)
  OBVIOUS
<1>6. TableOf(n, neighbors[n]) /\ node \in [Neighborhood -> LocalState]
  BY DEF ClusterInv
<1> HIDE DEF heard
<1>7. TableOf(n, t)
  BY <1>2, <1>3, <1>6, UpdatedTable
<1> HIDE DEF b
<1> DEFINE known == neighbors[n]
<1>8. /\ DOMAIN known \subseteq Neighborhood /\ DOMAIN b \subseteq Neighborhood
      /\ Cardinality(DOMAIN known) <= MaxNeighbors
  BY <1>3, <1>5, <1>6 DEF TableOf, Audible, Alive
<1>9. t \in Updates(known, b)
  BY <1>2
<1> HIDE DEF known
<1>10. /\ DOMAIN known \subseteq DOMAIN t /\ DOMAIN t \subseteq DOMAIN known \cup DOMAIN b
       /\ \A k \in DOMAIN t : t[k] = IF k \in DOMAIN b THEN b[k] ELSE known[k]
       /\ Cardinality(DOMAIN known \cup DOMAIN b) <= MaxNeighbors =>
              DOMAIN t = DOMAIN known \cup DOMAIN b
  BY <1>8, <1>9, Updated
<1>11. \A m \in DOMAIN t : IF m \in heard THEN t[m] = Entry(m)
                            ELSE m \in DOMAIN known /\ t[m] = known[m]
  <2> TAKE m \in DOMAIN t
  <2>0. \A k \in heard : b[k] = Entry(k)
    BY <1>5
  <2>1. t[m] = IF m \in heard THEN b[m] ELSE known[m]
    BY <1>5, <1>10
  <2>2. m \in DOMAIN known \cup heard
    BY <1>5, <1>10
  <2>3. CASE m \in heard
    BY <2>0, <2>1, <2>3
  <2>4. CASE m \notin heard
    BY <2>1, <2>2, <2>4
  <2> QED BY <2>3, <2>4
<1>12. Cardinality(DOMAIN known \cup heard) <= MaxNeighbors => heard \subseteq DOMAIN t
  BY <1>5, <1>10
<1>13. RoleLoop(n, Timed(node[n]), t, lack, missed)
  BY <1>2
<1> HIDE DEF RoleLoop, Timed
<1> QED BY <1>13, <1>2, <1>3, <1>4, <1>7, <1>10, <1>11, <1>12 DEF known, b

\* In a loop in which it gets at its table, a node becomes a head only in an election that no one
\* it knows and trusts wins in every utility: it never takes the role from a neighbor that is
\* better all round (election.c:90-129).
THEOREM NobodyBetterCorrect == ClusterSpec => NobodyBetterKnown
<1> DEFINE Claim(n) ==
        node[n].role # "CH" /\ node'[n].role = "CH" /\ faults' = faults =>
            \A m \in DOMAIN neighbors'[n] :
                neighbors'[n][m].trust >= TrustFloor =>
                    ~Dominates(Utilities(neighbors'[n][m]), Utilities(MetricsOf(n)))
<1>1. ASSUME ClusterInv, [ClusterNext]_clusterVars, NEW n \in Neighborhood,
             node[n].role # "CH", node'[n].role = "CH", faults' = faults,
             NEW m \in DOMAIN neighbors'[n], neighbors'[n][m].trust >= TrustFloor
      PROVE  ~Dominates(Utilities(neighbors'[n][m]), Utilities(MetricsOf(n)))
  <2>0. node \in [Neighborhood -> LocalState] /\ DOMAIN neighbors = Neighborhood
    BY <1>1 DEF ClusterInv
  <2>1. Loop(n)
    BY <1>1, OtherSteps
  <2>2. PICK heard, missed, lack :
          /\ heard \in SUBSET Audible(n)
          /\ \E t \in Updates(neighbors[n], [k \in heard |-> Entry(k)]) :
                 /\ faults' = faults => lack = {}
                 /\ TableOf(n, t)
                 /\ RoleLoop(n, Timed(node[n]), t, lack, missed)
    <3> HIDE DEF RoleLoop
    <3> QED BY <1>1, <2>1, OwnLoop
  <2>3. PICK t : lack = {} /\ TableOf(n, t) /\ RoleLoop(n, Timed(node[n]), t, lack, missed)
    <3> HIDE DEF RoleLoop
    <3> QED BY <1>1, <2>2
  <2> DEFINE s == Timed(node[n])
             c == Cleaned(t)
  <2>4. s \in LocalState /\ s.role = node[n].role
    BY <2>0, TimedType
  <2>5. RoleLoop(n, s, t, lack, missed)
    BY <2>3
  <2> HIDE DEF s
  <2>6. \A x, u : Becomes(n, x, u) => node'[n] = x
    BY <2>0 DEF Becomes
  <2>7. CandidateLoop(n, s, t, lack)
    <3>1. ~InitLoop(n, s, t)
      BY <1>1, <2>3, <2>4, <2>6, InitLoopEnds
    <3>2. ~DiscoverLoop(n, s, t, lack)
      BY <1>1, <2>3, <2>4, <2>6, DiscoverLoopEnds
    <3>3. ~MemberLoop(n, s, t, lack)
      BY <1>1, <2>3, <2>4, <2>6, MemberLoopEnds
    <3>4. ~HeadConfirms(n, s, t, lack) /\ ~HeadReconsiders(n, s, t, lack) /\ ~HeadDuties(n, s, t, lack, missed)
      BY <1>1, <2>4 DEF HeadConfirms, HeadReconsiders, HeadDuties
    <3> QED BY <2>5, <3>1, <3>2, <3>3, <3>4 DEF RoleLoop
  <2>8. n \in Winners(n, c) /\ neighbors'[n] = c
    <3>1. s.role = "CANDIDATE"
      BY <2>7 DEF CandidateLoop
    <3>2. OnAir(s).role = "CANDIDATE" /\ Goes(OnAir(s), "MEMBER").role = "MEMBER"
      BY <2>4, <3>1, OnAirType, GoesType DEF Role
    <3>3. ~Becomes(n, OnAir(s), c) /\ ~Becomes(n, Goes(OnAir(s), "MEMBER"), c)
      BY <1>1, <2>6, <3>2
    <3>4. \E w \in Winners(n, c) : Becomes(n, Goes(OnAir(s), IF w = n THEN "CH" ELSE "MEMBER"), c)
      <4>1. CleanedUnless(t, "cleanup" \in lack) = c /\ Copied(c, "copy" \in lack) = c
        BY <2>3 DEF CleanedUnless, Copied
      <4> HIDE DEF c, Becomes, Winners
      <4> QED BY <2>7, <3>3, <4>1 DEF CandidateLoop
    <3>5. n \in Winners(n, c)
      BY <3>3, <3>4
    <3>6. neighbors'[n] = c
      BY <2>0, <3>4 DEF Becomes
    <3> QED BY <3>5, <3>6
  <2>9. TableOf(n, c)
    BY <2>3, CleanedTable
  <2> DEFINE C == CandidatesOf(n, c)
             S == [id |-> n, u |-> Utilities(MetricsOf(n)), centrality |-> 100]
             R == [id |-> m, u |-> Utilities(c[m]), centrality |-> RemoteCentrality]
  <2> HIDE DEF c
  <2>10. S \in C /\ R \in C
    BY <1>1, <2>8 DEF CandidatesOf
  <2>11. /\ IsFiniteSet(C) /\ \A e \in C : e.u \in Vector
         /\ \A e, d \in C : e.id = d.id => e = d
    <3>1. NatVector \subseteq Vector
      BY DEF NatVector, Vector
    <3> QED BY <1>1, <2>9, <3>1, CandidatesOfFit DEF Fit
  <2>12. PICK k \in Elected(C, SharedWeights) : k.id = n
    BY <2>8 DEF Winners
  <2>13. S.id = n /\ S.u = Utilities(MetricsOf(n)) /\ R.u = Utilities(c[m])
    OBVIOUS
  <2> HIDE DEF C, S, R
  <2>14. k \in C /\ \A d \in C : ~Dominates(d.u, k.u)
    BY <2>11, ElectedIsUndominated
  <2>15. k = S
    BY <2>10, <2>11, <2>12, <2>13, <2>14
  <2> QED BY <2>8, <2>10, <2>13, <2>14, <2>15
<1>2. ClusterInv /\ [ClusterNext]_clusterVars => \A n \in Neighborhood : Claim(n)
  BY <1>1
<1> QED BY <1>2, ClusterInvariance, PTL DEF ClusterSpec, NobodyBetterKnown

\* A head that yields to no one stays, whoever comes, goes or fails: its role is lost only to
\* a better head, to metrics of its own or with its power (election.c:535-622).
THEOREM UnbeatenStays == ClusterSpec => UnbeatenHeadStays
<1> DEFINE Claim(n) == Unbeaten(n) /\ node'[n].role # "OFF" => n \in Asserted'
<1>1. ASSUME ClusterInv, [ClusterNext]_clusterVars, NEW n \in Asserted,
             Unbeaten(n), node'[n].role # "OFF"
      PROVE  n \in Asserted'
  <2>0. /\ node \in [Neighborhood -> LocalState] /\ n \in Neighborhood
        /\ node[n].role = "CH" /\ node[n].asserted
    BY <1>1 DEF ClusterInv, Asserted
  <2>1. CASE ~Loop(n)
    <3>1. node'[n].role = "CH" /\ node'[n].asserted
      BY <1>1, <2>0, <2>1, OtherSteps
    <3> QED BY <2>0, <3>1 DEF Asserted
  <2>2. CASE Loop(n)
    <3>1. PICK heard, missed, lack :
          /\ heard \in SUBSET Audible(n)
          /\ \E t \in Updates(neighbors[n], [k \in heard |-> Entry(k)]) :
                 /\ TableOf(n, t)
                 /\ \A m \in DOMAIN t : IF m \in heard THEN t[m] = Entry(m)
                                         ELSE m \in DOMAIN neighbors[n] /\ t[m] = neighbors[n][m]
                 /\ RoleLoop(n, Timed(node[n]), t, lack, missed)
      <4> HIDE DEF RoleLoop
      <4> QED BY <1>1, <2>0, <2>2, OwnLoop
    <3>2. PICK t :
              /\ TableOf(n, t)
              /\ \A m \in DOMAIN t : IF m \in heard THEN t[m] = Entry(m)
                                      ELSE m \in DOMAIN neighbors[n] /\ t[m] = neighbors[n][m]
              /\ RoleLoop(n, Timed(node[n]), t, lack, missed)
      BY <3>1
    <3> DEFINE s == Timed(node[n])
    <3>3. s \in LocalState /\ s.role = "CH" /\ s.asserted /\ s.scan
      BY <1>1, <2>0, TimedType DEF ClusterInv, HeadIsHeard
    <3>4. RoleLoop(n, s, t, lack, missed)
      BY <3>2
    <3> HIDE DEF s
    <3>5. ~Reconsiders(n, t, lack)
      <4>1. \A m \in DOMAIN t : t[m].isCh => ~Yields(n, MetricsOf(n).score, m, t[m].score)
        <5> TAKE m \in DOMAIN t
        <5>1. CASE m \in heard
          <6>1. m \in Alive \ {n} /\ node[m].adv
            BY <3>1, <5>1 DEF Audible
          <6> QED BY <1>1, <3>2, <5>1, <6>1 DEF Entry, Unbeaten, Beaten
        <5>2. CASE m \notin heard
          BY <1>1, <3>2, <5>2 DEF Unbeaten
        <5> QED BY <5>1, <5>2
      <4>2. ~(MetricsOf(n).battery < BatteryLow) /\ ~(MetricsOf(n).trust < TrustFloor)
            /\ ~(MetricsOf(n).linkq < LinkFloor)
        <5>1. MetricsOf(n) \in NodeMetrics
          BY <2>0, MetricsType
        <5> QED BY <1>1, <5>1 DEF Unbeaten, NodeMetrics, BatteryLow, TrustFloor, LinkFloor
      <4>3. Copied(t, "rivals" \in lack) \in {t, << >>} /\ DOMAIN << >> = {}
        BY DEF Copied
      <4> QED BY <4>1, <4>2, <4>3 DEF Reconsiders, HeadYields
    <3>6. HeadDuties(n, s, t, lack, missed)
      BY <3>3, <3>4, <3>5 DEF RoleLoop, InitLoop, DiscoverLoop, CandidateLoop, MemberLoop,
                              HeadConfirms, Confirming, HeadReconsiders
    <3>7. node'[n].role = "CH" /\ node'[n].asserted
      BY <2>0, <3>2, <3>3, <3>6, HeadDutiesEnd
    <3> QED BY <2>0, <3>7 DEF Asserted
  <2> QED BY <2>1, <2>2
<1>2. ClusterInv /\ [ClusterNext]_clusterVars => \A n \in Asserted : Claim(n)
  BY <1>1
<1> QED BY <1>2, ClusterInvariance, PTL DEF ClusterSpec, UnbeatenHeadStays

\* Of two asserted heads with fresh scores, one has to yield (OneYields) and not both
\* (NeverBothYield); the one that has to has done so after one loop in its STELLAR phase, unless
\* its table is full of others: two heads do not stay (election.c:584-619).
THEOREM RivalYieldsCorrect == ClusterSpec => RivalYields
<1> DEFINE Rival(n, m) ==
        /\ n # m /\ Beaten(n, m)
        /\ Timed(node[n]).phase = "STELLAR" /\ node[m].phase = "STELLAR"
        /\ m \in DOMAIN neighbors[n] \/ Cardinality(Neighborhood) <= MaxNeighbors + 1
        /\ n \in due \ due' /\ faults' = faults
<1>1. ASSUME ClusterInv, [ClusterNext]_clusterVars, NEW n \in Asserted, NEW m \in Asserted,
             Rival(n, m)
      PROVE  node'[n].role \in {"CANDIDATE", "MEMBER"}
  <2>0. /\ node \in [Neighborhood -> LocalState] /\ n \in Neighborhood /\ m \in Neighborhood
        /\ node[n].role = "CH" /\ node[n].asserted /\ node[n].scan
        /\ node[m].role = "CH" /\ node[m].adv /\ node[m].says
    BY <1>1 DEF ClusterInv, Asserted, HeadIsHeard
  <2>1. Loop(n)
    <3>0. n \in due /\ n \notin due' /\ faults' = faults /\ faults \in Nat
      BY <1>1, ClusterAssumption DEF ClusterInv
    <3>1. ~Tick
      BY <3>0 DEF Tick
    <3>2. \A k \in Neighborhood : Loop(k) => k = n
      BY <3>0 DEF Loop
    <3>3. \A k \in Neighborhood : ~Boots(k) /\ ~Crash(k) /\ ~RunsLow(k)
      BY <3>0 DEF Boots, Crash, RunsLow, Fault
    <3>4. ~UNCHANGED clusterVars
      BY <3>0 DEF clusterVars
    <3> QED BY <1>1, <3>1, <3>2, <3>3, <3>4 DEF ClusterNext
  <2>2. PICK heard, missed, lack :
          /\ heard \in SUBSET Audible(n)
          /\ \E t \in Updates(neighbors[n], [k \in heard |-> Entry(k)]) :
                 /\ faults' = faults => heard = Audible(n) /\ lack = {}
                 /\ \A k \in DOMAIN t : IF k \in heard THEN t[k] = Entry(k)
                                         ELSE k \in DOMAIN neighbors[n] /\ t[k] = neighbors[n][k]
                 /\ DOMAIN neighbors[n] \subseteq DOMAIN t
                 /\ Cardinality(DOMAIN neighbors[n] \cup heard) <= MaxNeighbors => heard \subseteq DOMAIN t
                 /\ RoleLoop(n, Timed(node[n]), t, lack, missed)
    <3> HIDE DEF RoleLoop
    <3> QED BY <1>1, <2>0, <2>1, OwnLoop
  <2>3. PICK t :
              /\ heard = Audible(n) /\ lack = {}
              /\ \A k \in DOMAIN t : IF k \in heard THEN t[k] = Entry(k)
                                      ELSE k \in DOMAIN neighbors[n] /\ t[k] = neighbors[n][k]
              /\ DOMAIN neighbors[n] \subseteq DOMAIN t
              /\ Cardinality(DOMAIN neighbors[n] \cup heard) <= MaxNeighbors => heard \subseteq DOMAIN t
              /\ RoleLoop(n, Timed(node[n]), t, lack, missed)
    <3> HIDE DEF RoleLoop
    <3> QED BY <1>1, <2>2
  <2> DEFINE s == Timed(node[n])
  <2>4. s \in LocalState /\ s.role = "CH" /\ s.asserted /\ s.scan /\ s.phase = "STELLAR"
    BY <1>1, <2>0, TimedType
  <2>5. RoleLoop(n, s, t, lack, missed)
    BY <2>3
  <2> HIDE DEF s
  <2>6. m \in heard
    BY <1>1, <2>0, <2>3 DEF Audible, Alive
  <2>7. m \in DOMAIN t
    <3>1. CASE m \in DOMAIN neighbors[n]
      BY <2>3, <3>1
    <3>2. CASE Cardinality(Neighborhood) <= MaxNeighbors + 1
      <4> DEFINE others == Neighborhood \ {n}
                 U == DOMAIN neighbors[n] \cup heard
      <4>1. U \in SUBSET others
        BY <1>1, <2>0, <2>3 DEF ClusterInv, TableOf, Audible, Alive
      <4>2. Cardinality(others) = Cardinality(Neighborhood) - 1 /\ IsFiniteSet(others)
        BY <2>0, ClusterAssumption, FS_RemoveElement
      <4>3. Cardinality(U) <= Cardinality(others)
        <5> HIDE DEF U, others
        <5> QED BY <4>1, <4>2, FS_Subset
      <4>4. /\ Cardinality(U) \in Nat /\ Cardinality(others) \in Nat
            /\ Cardinality(Neighborhood) \in Nat
        BY <4>1, NodesAreFinite
      <4>5. Cardinality(U) <= MaxNeighbors
        <5> HIDE DEF U, others
        <5> QED BY <3>2, <4>2, <4>3, <4>4, ConfigAssumption
      <4> QED BY <2>3, <2>6, <4>5
    <3> QED BY <1>1, <3>1, <3>2
  <2>8. Reconsiders(n, t, lack)
    <3>1. t[m] = Entry(m)
      BY <2>3, <2>6, <2>7
    <3>2. t[m].isCh /\ t[m].score = Announced(MetricsOf(m).score)
      BY <2>0, <3>1 DEF Entry
    <3>3. Copied(t, "rivals" \in lack) = t
      BY <2>3 DEF Copied
    <3> QED BY <1>1, <2>7, <3>2, <3>3 DEF Reconsiders, HeadYields, Beaten
  <2>9. HeadReconsiders(n, s, t, lack)
    BY <2>4, <2>5, <2>8 DEF RoleLoop, InitLoop, DiscoverLoop, CandidateLoop, MemberLoop,
                            HeadConfirms, Confirming, HeadDuties
  <2> DEFINE a == [HeadRadio(s) EXCEPT !.asserted = TRUE]
             h == Head(t, "head" \in lack)
  <2>10. a \in LocalState
    <3> DEFINE r == HeadRadio(s)
    <3>1. r \in LocalState
      BY <2>4, HeadRadioType
    <3>2. a = [r EXCEPT !.asserted = TRUE]
      OBVIOUS
    <3> HIDE DEF r, a
    <3> QED BY <3>1, <3>2 DEF LocalState
  <2>11. Becomes(n, YieldsFor(a, h), t)
    BY <2>4, <2>9 DEF HeadReconsiders
  <2> HIDE DEF a, h
  <2>12. node'[n] = YieldsFor(a, h)
    BY <2>0, <2>11 DEF Becomes
  <2> QED BY <2>10, <2>12, YieldsForType
<1>2. ClusterInv /\ [ClusterNext]_clusterVars =>
          \A n, m \in Asserted : Rival(n, m) => node'[n].role \in {"CANDIDATE", "MEMBER"}
  BY <1>1
<1> QED BY <1>2, ClusterInvariance, PTL DEF ClusterSpec, RivalYields

\* A member whose lookups work does not stand for election while its table has a fresh head and
\* none of the fresh heads in it is unfit (election_check_reelection_needed).
THEOREM LeavesForAReasonCorrect == ClusterSpec => LeavesForAReason
<1> DEFINE Reason(t) ==
        \/ FreshHeads(t) = {}
        \/ \E h \in FreshHeads(t) : t[h].battery < BatteryLow \/ t[h].linkq < LinkFloor
<1>1. ASSUME ClusterInv, [ClusterNext]_clusterVars, NEW n \in Neighborhood,
             node[n].role = "MEMBER", node'[n].role = "CANDIDATE", faults' = faults
      PROVE  Reason(neighbors'[n])
  <2>0. node \in [Neighborhood -> LocalState] /\ DOMAIN neighbors = Neighborhood
    BY <1>1 DEF ClusterInv
  <2>1. Loop(n)
    BY <1>1, OtherSteps
  <2>2. PICK heard, missed, lack :
          /\ heard \in SUBSET Audible(n)
          /\ \E t \in Updates(neighbors[n], [k \in heard |-> Entry(k)]) :
                 /\ faults' = faults => lack = {}
                 /\ TableOf(n, t)
                 /\ RoleLoop(n, Timed(node[n]), t, lack, missed)
    <3> HIDE DEF RoleLoop
    <3> QED BY <1>1, <2>1, OwnLoop
  <2>3. PICK t : /\ lack = {} /\ TableOf(n, t)
                 /\ RoleLoop(n, Timed(node[n]), t, lack, missed)
    <3> HIDE DEF RoleLoop
    <3> QED BY <1>1, <2>2
  <2> DEFINE s == Timed(node[n])
             c == Cleaned(t)
             h == CurrentCh(t)
             miss == IF h = 0 THEN s.miss + 1 ELSE 0
  <2>4. s \in LocalState /\ s.role = "MEMBER"
    BY <1>1, <2>0, TimedType
  <2>5. RoleLoop(n, s, t, lack, missed)
    BY <2>3
  <2> HIDE DEF s
  <2>6. MemberLoop(n, s, t, lack)
    BY <2>4, <2>5 DEF RoleLoop, InitLoop, DiscoverLoop, CandidateLoop, HeadConfirms,
                      HeadReconsiders, HeadDuties
  <2>7. /\ FreshHeads(t) # {} => CurrentCh(t) \in FreshHeads(t)
        /\ CurrentCh(t) = 0 <=> FreshHeads(t) = {}
    BY <2>3, CurrentChIsBest
  <2>8. FreshHeads(c) = FreshHeads(t) /\ \A k \in FreshHeads(t) : c[k] = t[k]
    <3>1. \A k \in DOMAIN t : t[k].age \in Nat
      BY <2>3 DEF TableOf, NeighborEntry
    <3>2. ChTimeout <= NeighborTimeout /\ ChTimeout \in Nat /\ NeighborTimeout \in Nat
      BY NeighborTableAssumption
    <3>3. /\ DOMAIN c = {k \in DOMAIN t : t[k].age < NeighborTimeout}
          /\ \A k \in DOMAIN c : c[k] = t[k]
      BY DEF Cleaned, Restrict
    <3> HIDE DEF c
    <3> QED BY <3>1, <3>2, <3>3 DEF FreshHeads
  <2>9. \/ miss >= MissThreshold /\ neighbors'[n] = t
        \/ neighbors'[n] = c /\ MemberLeaves(n, c, h, c)
    <3> DEFINE a == Advertises([MemberRadio(s) EXCEPT !.miss = miss])
    <3>1. ASSUME miss < MissThreshold PROVE a.role = "MEMBER"
      <4>1. miss \in 0 .. MissThreshold
        BY <2>4, <3>1, Numbers DEF LocalState
      <4> DEFINE r == MemberRadio(s)
                 q == [r EXCEPT !.miss = miss]
      <4>2. r \in LocalState /\ r.role = "MEMBER"
        BY <2>4, MemberRadioType
      <4> HIDE DEF r, miss
      <4>3. q \in LocalState /\ q.role = "MEMBER"
        BY <4>1, <4>2 DEF LocalState
      <4>4. a = Advertises(q)
        BY DEF r
      <4> HIDE DEF q, a
      <4> QED BY <4>3, <4>4, OnAirType
    <3>2. MemberRadio(s).role = "MEMBER"
      BY <2>4, MemberRadioType
    <3>3. \A x, u : Becomes(n, x, u) => node'[n] = x /\ neighbors'[n] = u
      BY <2>0 DEF Becomes
    <3>4. ~Becomes(n, MemberRadio(s), c) /\ (miss < MissThreshold => ~Becomes(n, a, c))
      <4> HIDE DEF a
      <4> QED BY <1>1, <3>1, <3>2, <3>3
    <3>5. /\ Head(t, "head" \in lack) = h /\ Head(t, "entry" \in lack) = h
          /\ CleanedUnless(t, "cleanup" \in lack) = c /\ Copied(c, "copy" \in lack) = c
      BY <2>3 DEF Head, CleanedUnless, Copied
    <3> HIDE DEF Becomes, c, h
    <3> QED BY <2>6, <3>3, <3>4, <3>5 DEF MemberLoop
  <2>10. CASE miss >= MissThreshold /\ neighbors'[n] = t
    <3>1. h = 0
      BY <2>10, Numbers
    <3> QED BY <2>3, <2>7, <2>10, <3>1
  <2>11. CASE neighbors'[n] = c /\ MemberLeaves(n, c, h, c)
    <3>1. CASE h = 0
      BY <2>3, <2>7, <2>8, <2>11, <3>1
    <3>2. CASE h # 0
      <4>1. h \in FreshHeads(t) /\ h \in FreshHeads(c) /\ c[h] = t[h]
        BY <2>3, <2>7, <2>8, <3>2
      <4>2. ~(c[h].trust < TrustFloor)
        <5>1. t[h].trust \in 0 .. 100 /\ t[h].trust >= TrustFloor
          BY <2>3, <4>1 DEF FreshHeads, TableOf, NeighborEntry
        <5> QED BY <4>1, <5>1 DEF TrustFloor
      <4>3. c[h].battery < BatteryLow \/ c[h].linkq < LinkFloor
        BY <2>11, <3>2, <4>2 DEF MemberLeaves
      <4> HIDE DEF c
      <4> QED BY <2>11, <4>1, <4>3
    <3> QED BY <3>1, <3>2
  <2> QED BY <2>9, <2>10, <2>11
<1>2. ClusterInv /\ [ClusterNext]_clusterVars =>
          \A n \in Neighborhood :
              node[n].role = "MEMBER" /\ node'[n].role = "CANDIDATE" /\ faults' = faults
                  => Reason(neighbors'[n])
  <2> HIDE DEF Reason
  <2> QED BY <1>1
<1> QED BY <1>2, ClusterInvariance, PTL DEF ClusterSpec, LeavesForAReason
=============================================================================
