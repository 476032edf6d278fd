--------------------------- MODULE DeliveryProofs ---------------------------
(***************************************************************************)
(* What TLC checks of Delivery and of Dedup on small instances, proved for *)
(* every number of members, records, batches, attempts and faults, and for *)
(* every size of the filter.                                               *)
(*                                                                         *)
(* The module begins with the duplicate filter, operators on a table only: *)
(* what After does to the entries and their rings.  Delivery's theorems    *)
(* follow, then Dedup's, in which any frames come to a filter of its own.  *)
(***************************************************************************)
EXTENDS Delivery, Dedup, FiniteSetTheorems, TLAPS

----------------------------------------------------------------------------
(* The duplicate filter: N are its senders, S their numbers.                *)

Entries(N, S) == [node : N, seqs : Seq(S), next : 0..History - 1, seen : Nat]

\* The ring is filled from the front, and full it goes round.
Filled(e) == Len(e.seqs) <= History /\ (Len(e.seqs) < History => e.next = Len(e.seqs))

\* B are ids that several entries may have, as zeroed ones do.
OneEach(t, B) == \A i, j \in 1..Len(t) : t[i].node = t[j].node => i = j \/ t[i].node \in B

Table(t, N, S, B) ==
    /\ t \in Seq(Entries(N, S)) /\ Len(t) <= MaxNodes
    /\ \A i \in 1..Len(t) : Filled(t[i])
    /\ OneEach(t, B)

\* How many numbers the ring has taken since the one at p.
Age(e, p) == IF p <= e.next THEN e.next - p ELSE e.next + History - p

LEMMA NatWellFounded == IsWellFoundedOn({p \in Nat \X Nat : p[1] < p[2]}, Nat)
<1>1. {p \in Nat \X Nat : p[1] < p[2]} = OpToRel(<, Nat)
  BY Zenon DEF OpToRel
<1> QED BY <1>1, NatLessThanWellFounded

LEMMA MinIsLeast ==
    ASSUME NEW T \in SUBSET Nat, T # {}
    PROVE  \E x \in T : \A y \in T : x <= y
<1> DEFINE R == {p \in Nat \X Nat : p[1] < p[2]}
<1>1. \A x, y \in T : y < x => <<y, x>> \in R
  OBVIOUS
<1>2. IsWellFoundedOn(R, Nat)
  BY NatWellFounded
<1> HIDE DEF R
<1>3. PICK x \in T : \A y \in T : ~(<<y, x>> \in R)
  BY <1>2, WFMin
<1> WITNESS x \in T
<1> TAKE y \in T
<1>4. x \in Nat /\ y \in Nat /\ ~(y < x)
  BY <1>1, <1>3
<1> QED BY <1>4

LEMMA KnownSlot ==
    ASSUME NEW N, NEW S, NEW B, NEW t, Table(t, N, S, B), NEW n, Known(t, n)
    PROVE  Slot(t, n) \in 1..Len(t) /\ t[Slot(t, n)].node = n
BY DEF Known, Slot

LEMMA EntryTyped ==
    ASSUME NEW N, NEW S, NEW B, NEW t, Table(t, N, S, B), NEW n \in N, n \notin B
    PROVE  EntryOf(t, n) \in Entries(N, S) /\ Filled(EntryOf(t, n)) /\ EntryOf(t, n).node = n
<1>0. History \in Nat \ {0}
  BY TableAssumption
<1>1. CASE Known(t, n)
  <2>1. Slot(t, n) \in 1..Len(t) /\ t[Slot(t, n)].node = n
    BY <1>1, KnownSlot
  <2>2. t[Slot(t, n)] \in Entries(N, S) /\ Filled(t[Slot(t, n)])
    BY <2>1 DEF Table
  <2> QED
    BY <1>1, <2>1, <2>2 DEF EntryOf
<1>2. CASE ~Known(t, n)
  <2>1. EntryOf(t, n) = NewEntry(n)
    BY <1>2 DEF EntryOf
  <2>2. NewEntry(n) \in Entries(N, S) /\ Filled(NewEntry(n)) /\ NewEntry(n).node = n
    BY <1>0 DEF NewEntry, Entries, Filled
  <2> QED
    BY <2>1, <2>2
<1> QED
  BY <1>1, <1>2

LEMMA Round == \A a, b \in Nat : (a < b => a % b = a) /\ (b > 0 => b % b = 0)
OBVIOUS

\* The ring after one more number.
LEMMA RingAfter ==
    ASSUME NEW N, NEW S, NEW e \in Entries(N, S), Filled(e), NEW s \in S, NEW f, f = Remembered(e, s)
    PROVE  /\ f \in Entries(N, S) /\ Filled(f) /\ f.node = e.node /\ f.seen = e.seen
           /\ e.next + 1 \in 1..Len(f.seqs)
           /\ f.seqs[e.next + 1] = s /\ Age(f, e.next + 1) = 0
           /\ \A p \in 1..Len(e.seqs) : p # e.next + 1 =>
                p \in 1..Len(f.seqs) /\ f.seqs[p] = e.seqs[p] /\ Age(f, p) = Age(e, p) + 1
           /\ \A p \in 1..Len(f.seqs) : p # e.next + 1 => p \in 1..Len(e.seqs)
           /\ \A p \in 1..Len(e.seqs) : Age(e, p) + 1 < History => p # e.next + 1
<1>0. History \in Nat \ {0}
  BY TableAssumption
<1>1. /\ e.node \in N /\ e.seqs \in Seq(S) /\ e.next \in 0..History - 1 /\ e.seen \in Nat
      /\ Len(e.seqs) \in Nat /\ Len(e.seqs) <= History
      /\ Len(e.seqs) < History => e.next = Len(e.seqs)
  BY DEF Entries, Filled
<1> DEFINE q == e.next + 1
           r == IF Len(e.seqs) < History THEN Append(e.seqs, s) ELSE [e.seqs EXCEPT ![q] = s]
           next == q % History
<1>2. f = [e EXCEPT !.seqs = r, !.next = next]
  BY DEF Remembered
<1>3. f.node = e.node /\ f.seen = e.seen /\ f.seqs = r /\ f.next = next /\ f = [node |-> e.node, seqs |-> r, next |-> next, seen |-> e.seen]
  BY <1>2 DEF Entries
<1>4. /\ r \in Seq(S) /\ q \in 1..Len(r) /\ r[q] = s /\ Len(r) <= History
      /\ Len(r) < History => Len(r) = q
      /\ \A p \in 1..Len(e.seqs) : p # q => p \in 1..Len(r) /\ r[p] = e.seqs[p]
      /\ \A p \in 1..Len(r) : p # q => p \in 1..Len(e.seqs)
  <2>1. CASE Len(e.seqs) < History
    BY <1>0, <1>1, <2>1
  <2>2. CASE ~(Len(e.seqs) < History)
    BY <1>0, <1>1, <2>2
  <2> QED
    BY <2>1, <2>2
<1>5. q \in 1..History /\ next = IF q = History THEN 0 ELSE q
  <2>1. q \in 1..History
    BY <1>0, <1>1
  <2>2. CASE q = History
    BY <1>0, <2>2
  <2>3. CASE q < History
    <3>1. q \in Nat /\ History \in Nat
      BY <1>0, <2>1
    <3> HIDE DEF q
    <3>2. q % History = q
      BY <2>3, <3>1, Round
    <3> QED
      BY <2>1, <2>3, <3>1, <3>2
  <2> QED
    BY <1>0, <2>1, <2>2, <2>3
<1>6. next \in 0..History - 1 /\ (Len(r) < History => next = Len(r))
  BY <1>0, <1>4, <1>5
<1> HIDE DEF r, next
<1>7. f \in Entries(N, S) /\ Filled(f)
  BY <1>1, <1>3, <1>4, <1>6 DEF Entries, Filled
<1>8. Age(f, q) = 0
  BY <1>0, <1>1, <1>3, <1>5 DEF Age
<1>9. ASSUME NEW p \in 1..Len(e.seqs), p # q
      PROVE  Age(f, p) = Age(e, p) + 1
  BY <1>0, <1>1, <1>3, <1>5, <1>9 DEF Age
<1>10. ASSUME NEW p \in 1..Len(e.seqs), Age(e, p) + 1 < History
       PROVE  p # q
  BY <1>0, <1>1, <1>10 DEF Age
<1> QED
  BY <1>3, <1>4, <1>7, <1>8, <1>9, <1>10

LEMMA RingTyped ==
    \A N, S : \A e \in Entries(N, S), s \in S : Filled(e) =>
        LET f == Remembered(e, s)
        IN  f \in Entries(N, S) /\ Filled(f) /\ f.node = e.node /\ f.seen = e.seen
<1> TAKE N, S
<1> TAKE e \in Entries(N, S), s \in S
<1> HAVE Filled(e)
<1> DEFINE f == Remembered(e, s)
<1>1. f = Remembered(e, s)
  OBVIOUS
<1> HIDE DEF f
<1>2. f \in Entries(N, S) /\ Filled(f) /\ f.node = e.node /\ f.seen = e.seen
  BY <1>1, RingAfter
<1> QED
  BY <1>2 DEF f

\* A table that is not empty has an entry heard longest ago, and a first one of these.
LEMMA LeastIsThere ==
    ASSUME NEW N, NEW S, NEW B, NEW t, Table(t, N, S, B), Len(t) > 0
    PROVE  /\ LeastRecent(t) \in 1..Len(t)
           /\ \A j \in 1..Len(t) : t[LeastRecent(t)].seen <= t[j].seen
<1>1. t \in Seq(Entries(N, S)) /\ Len(t) \in Nat /\ \A i \in 1..Len(t) : t[i].seen \in Nat
  <2>1. t \in Seq(Entries(N, S)) /\ Len(t) \in Nat
    BY DEF Table
  <2>2. \A i \in 1..Len(t) : t[i] \in Entries(N, S)
    BY <2>1
  <2> QED
    BY <2>1, <2>2 DEF Entries
<1> DEFINE Times == {t[i].seen : i \in 1..Len(t)}
<1>2. PICK low \in Times : \A x \in Times : low <= x
  <2>1. Times \subseteq Nat /\ Times # {}
    BY <1>1
  <2> QED
    BY <2>1, MinIsLeast
<1> DEFINE Oldest == {i \in 1..Len(t) : t[i].seen = low}
<1>3. PICK i \in Oldest : \A j \in Oldest : i <= j
  <2>1. Oldest \subseteq Nat /\ Oldest # {}
    BY <1>1, <1>2
  <2> QED
    BY <2>1, MinIsLeast
<1>4. \A j \in 1..Len(t) : t[i].seen <= t[j].seen
  BY <1>2, <1>3
<1>5. \A j \in 1..(i - 1) : t[i].seen < t[j].seen
  <2>1. SUFFICES ASSUME NEW j \in 1..(i - 1) PROVE t[i].seen < t[j].seen
    OBVIOUS
  <2>2. j \in 1..Len(t) /\ j < i
    BY <1>1, <1>3
  <2>3. t[j].seen # low
    BY <1>3, <2>2
  <2> QED
    BY <1>1, <1>3, <1>4, <2>2, <2>3
<1>6. \E l \in 1..Len(t) :
        /\ \A j \in 1..Len(t) : t[l].seen <= t[j].seen
        /\ \A j \in 1..(l - 1) : t[l].seen < t[j].seen
  BY <1>3, <1>4, <1>5
<1> QED
  BY <1>6 DEF LeastRecent

\* The node's entry, or the one it gets, with the time of the frame.
Touched(t, n, now) == [EntryOf(t, n) EXCEPT !.seen = now]

\* The table after a frame (n, s): the entry that took it, and the others as they were
\* unless one had to make room.
LEMMA TableAfter ==
    ASSUME NEW N, NEW S, NEW B, NEW t, Table(t, N, S, B), NEW n \in N, n \notin B, NEW s \in S, NEW now \in Nat,
           NEW u, u = After(t, n, s, now), NEW k, k = Slot(t, n),
           NEW e, e = Touched(t, n, now)
    PROVE  /\ Table(u, N, S, B) /\ k \in 1..Len(u)
           /\ u[k] = IF ShouldStore(t, n, s) THEN Remembered(e, s) ELSE e
           /\ e \in Entries(N, S) /\ Filled(e) /\ e.node = n
           /\ e.seqs = EntryOf(t, n).seqs /\ e.next = EntryOf(t, n).next /\ e.seen = now
           /\ u[k].node = n /\ u[k].seen = now
           /\ \A i \in 1..Len(u) : i # k => i \in 1..Len(t) /\ u[i] = t[i] /\ t[i].node # n
           /\ \A i \in 1..Len(t) : i # k => i \in 1..Len(u)
           /\ Len(t) <= Len(u)
           /\ k > Len(t) => Len(t) < MaxNodes /\ ~Known(t, n)
           /\ k <= Len(t) => Known(t, n) \/ Len(t) = MaxNodes
<1> DEFINE f == IF ShouldStore(t, n, s) THEN Remembered(e, s) ELSE e
<1>0. MaxNodes \in Nat \ {0} /\ History \in Nat \ {0}
  BY TableAssumption
<1>1. t \in Seq(Entries(N, S)) /\ Len(t) \in Nat /\ Len(t) <= MaxNodes /\ OneEach(t, B)
  BY DEF Table
<1>2. /\ e \in Entries(N, S) /\ Filled(e) /\ e.node = n
      /\ e.seqs = EntryOf(t, n).seqs /\ e.next = EntryOf(t, n).next /\ e.seen = now
  <2>1. EntryOf(t, n) \in Entries(N, S) /\ Filled(EntryOf(t, n)) /\ EntryOf(t, n).node = n
    BY EntryTyped
  <2> QED
    BY <2>1 DEF Entries, Filled, Touched
<1>3. f \in Entries(N, S) /\ Filled(f) /\ f.node = n /\ f.seen = now
  <2>1. CASE ShouldStore(t, n, s)
    <3>1. f = Remembered(e, s)
      BY <2>1
    <3> HIDE DEF f
    <3>2. f \in Entries(N, S) /\ Filled(f) /\ f.node = e.node /\ f.seen = e.seen
      BY <1>2, <3>1, RingTyped
    <3> QED
      BY <1>2, <3>2
  <2>2. CASE ~ShouldStore(t, n, s)
    BY <1>2, <2>2
  <2> QED
    BY <2>1, <2>2
<1>4. /\ \/ Known(t, n) /\ k \in 1..Len(t) /\ t[k].node = n
         \/ ~Known(t, n) /\ Len(t) < MaxNodes /\ k = Len(t) + 1
         \/ ~Known(t, n) /\ Len(t) = MaxNodes /\ k \in 1..Len(t)
  <2>1. CASE Known(t, n)
    BY <2>1, KnownSlot
  <2>2. CASE ~Known(t, n) /\ Len(t) < MaxNodes
    BY <2>2 DEF Slot
  <2>3. CASE ~Known(t, n) /\ ~(Len(t) < MaxNodes)
    <3>1. Len(t) = MaxNodes /\ k = LeastRecent(t)
      BY <1>0, <1>1, <2>3 DEF Slot
    <3>2. LeastRecent(t) \in 1..Len(t)
      BY <1>0, <1>1, <3>1, LeastIsThere
    <3> QED
      BY <2>1, <2>3, <3>1, <3>2
  <2> QED
    BY <2>1, <2>2, <2>3
<1>5. u = IF k > Len(t) THEN Append(t, f) ELSE [t EXCEPT ![k] = f]
  BY DEF After, Touched
<1> HIDE DEF f
<1>6. /\ u \in Seq(Entries(N, S)) /\ k \in 1..Len(u) /\ u[k] = f /\ Len(u) <= MaxNodes
      /\ \A i \in 1..Len(u) : i # k => i \in 1..Len(t) /\ u[i] = t[i]
      /\ \A i \in 1..Len(t) : i # k => i \in 1..Len(u)
      /\ Len(t) <= Len(u)
  <2>1. CASE k > Len(t)
    <3>1. u = Append(t, f) /\ k = Len(t) + 1 /\ Len(t) < MaxNodes
      BY <1>1, <1>4, <1>5, <2>1
    <3> QED
      BY <1>0, <1>1, <1>3, <3>1
  <2>2. CASE ~(k > Len(t))
    <3>1. u = [t EXCEPT ![k] = f] /\ k \in 1..Len(t)
      BY <1>1, <1>4, <1>5, <2>2
    <3> QED
      BY <1>1, <1>3, <3>1
  <2> QED
    BY <2>1, <2>2
<1>7. \A i \in 1..Len(t) : i # k => t[i].node # n
  BY <1>1, <1>4 DEF Known, OneEach
<1>8. Table(u, N, S, B)
  <2>1. \A i \in 1..Len(u) : Filled(u[i])
    BY <1>3, <1>6 DEF Table
  <2>2. OneEach(u, B)
    BY <1>1, <1>3, <1>6, <1>7 DEF OneEach
  <2> QED
    BY <1>6, <2>1, <2>2 DEF Table
<1>9. /\ k > Len(t) => Len(t) < MaxNodes /\ ~Known(t, n)
      /\ k <= Len(t) => Known(t, n) \/ Len(t) = MaxNodes
  BY <1>1, <1>4
<1> QED
  BY <1>2, <1>3, <1>6, <1>7, <1>8, <1>9 DEF f

LEMMA TableStays ==
    ASSUME NEW N, NEW S, NEW B, NEW t, Table(t, N, S, B), NEW n \in N, n \notin B, NEW s \in S, NEW now \in Nat
    PROVE  Table(After(t, n, s, now), N, S, B)
<1> DEFINE u == After(t, n, s, now)
           k == Slot(t, n)
           e == Touched(t, n, now)
<1>1. u = After(t, n, s, now) /\ k = Slot(t, n) /\ e = Touched(t, n, now)
  OBVIOUS
<1> HIDE DEF u, k, e
<1>2. Table(u, N, S, B)
  BY <1>1, TableAfter
<1> QED
  BY <1>2 DEF u

\* The ring a frame is looked up in is that of an entry of the table, or empty.
LEMMA EntryFrom ==
    ASSUME NEW N, NEW S, NEW B, NEW t, Table(t, N, S, B), NEW n \in N, n \notin B, NEW p \in 1..Len(EntryOf(t, n).seqs)
    PROVE  \E i \in 1..Len(t) : t[i].node = n /\ EntryOf(t, n) = t[i]
<1>1. CASE Known(t, n)
  BY <1>1, KnownSlot DEF EntryOf
<1>2. CASE ~Known(t, n)
  BY <1>2 DEF EntryOf, NewEntry
<1> QED
  BY <1>1, <1>2

\* Number s is in the ring of node n.
Holds(t, n, s) == \E e \in 1..Len(t) : \E p \in 1..Len(t[e].seqs) : t[e].node = n /\ t[e].seqs[p] = s

LEMMA EntryIs ==
    ASSUME NEW N, NEW S, NEW B, NEW t, Table(t, N, S, B), NEW e \in 1..Len(t), t[e].node \notin B
    PROVE  EntryOf(t, t[e].node) = t[e]
<1>1. Known(t, t[e].node)
  BY DEF Known
<1> QED
  BY <1>1, KnownSlot DEF EntryOf, Table, OneEach

\* What is refused is what the node's ring holds.
LEMMA RefusedIsHeld ==
    ASSUME NEW N, NEW S, NEW B, NEW t, Table(t, N, S, B), NEW n \in N, n \notin B, NEW s
    PROVE  ~ShouldStore(t, n, s) <=> Holds(t, n, s)
<1>1. ASSUME Holds(t, n, s) PROVE ~ShouldStore(t, n, s)
  <2>1. PICK e \in 1..Len(t) : \E p \in 1..Len(t[e].seqs) : t[e].node = n /\ t[e].seqs[p] = s
    BY <1>1 DEF Holds
  <2>2. EntryOf(t, n) = t[e]
    BY <2>1, EntryIs
  <2> QED
    BY <2>1, <2>2 DEF ShouldStore
<1>2. ASSUME ~ShouldStore(t, n, s) PROVE Holds(t, n, s)
  <2>1. PICK p \in 1..Len(EntryOf(t, n).seqs) : EntryOf(t, n).seqs[p] = s
    BY <1>2 DEF ShouldStore
  <2>2. PICK i \in 1..Len(t) : t[i].node = n /\ EntryOf(t, n) = t[i]
    BY EntryFrom
  <2> QED
    BY <2>1, <2>2 DEF Holds
<1> QED
  BY <1>1, <1>2

\* The only number that comes into a ring is the frame's, and only when it is accepted.
LEMMA RingGains ==
    ASSUME NEW N, NEW S, NEW B, NEW t, Table(t, N, S, B), NEW n \in N, n \notin B, NEW s \in S,
           NEW now \in Nat, NEW u, u = After(t, n, s, now), NEW y, NEW x, Holds(u, y, x)
    PROVE  Holds(t, y, x) \/ (ShouldStore(t, n, s) /\ y = n /\ x = s)
<1> DEFINE k == Slot(t, n)
           e == Touched(t, n, now)
           new == ShouldStore(t, n, s)
<1>0. k = Slot(t, n) /\ e = Touched(t, n, now) /\ (new <=> ShouldStore(t, n, s))
  OBVIOUS
<1> HIDE DEF k, e, new
<1>1. /\ u[k] = IF new THEN Remembered(e, s) ELSE e
      /\ e \in Entries(N, S) /\ Filled(e) /\ e.seqs = EntryOf(t, n).seqs
      /\ u[k].node = n
      /\ \A i \in 1..Len(u) : i # k => i \in 1..Len(t) /\ u[i] = t[i]
  BY <1>0, TableAfter DEF new
<1>2. PICK i \in 1..Len(u) : \E p \in 1..Len(u[i].seqs) : u[i].node = y /\ u[i].seqs[p] = x
  BY DEF Holds
<1>3. CASE i # k
  BY <1>1, <1>2, <1>3 DEF Holds
<1>4. CASE i = k
  <2> DEFINE f == u[k]
  <2>1. PICK p \in 1..Len(f.seqs) : f.seqs[p] = x
    BY <1>2, <1>4
  <2>2. (p \in 1..Len(e.seqs) /\ e.seqs[p] = x) \/ (new /\ x = s)
    <3>1. CASE new
      <4>1. f = Remembered(e, s)
        BY <1>1, <3>1
      <4> HIDE DEF f
      <4> DEFINE q == e.next + 1
      <4>2. /\ f.seqs[q] = s
            /\ \A j \in 1..Len(e.seqs) : j # q => f.seqs[j] = e.seqs[j]
            /\ \A j \in 1..Len(f.seqs) : j # q => j \in 1..Len(e.seqs)
        BY <1>1, <4>1, RingAfter
      <4> QED
        BY <2>1, <3>1, <4>2
    <3>2. CASE ~new
      BY <1>1, <2>1, <3>2
    <3> QED
      BY <3>1, <3>2
  <2>3. ASSUME p \in 1..Len(e.seqs), e.seqs[p] = x PROVE Holds(t, n, x)
    <3>1. p \in 1..Len(EntryOf(t, n).seqs) /\ EntryOf(t, n).seqs[p] = x
      BY <1>1, <2>3
    <3>2. PICK l \in 1..Len(t) : t[l].node = n /\ EntryOf(t, n) = t[l]
      BY <3>1, EntryFrom
    <3> QED
      BY <3>1, <3>2 DEF Holds
  <2> QED
    BY <1>0, <1>1, <1>2, <1>4, <2>2, <2>3
<1> QED
  BY <1>3, <1>4

\* Number s is in the ring of node n, with a numbers taken after it.
InRing(t, n, s, a) ==
    \E e \in 1..Len(t) : \E p \in 1..Len(t[e].seqs) :
        t[e].node = n /\ t[e].seqs[p] = s /\ Age(t[e], p) = a

\* The table is full of other nodes, and y is the one that makes room for n.
Evicts(t, n, y) == ~Known(t, n) /\ Len(t) = MaxNodes /\ t[LeastRecent(t)].node = y

\* An accepted number makes those of its node one older.  The others stay, unless their
\* node makes room.
LEMMA RingStep ==
    ASSUME NEW N, NEW S, NEW B, NEW t, Table(t, N, S, B), NEW n \in N, n \notin B, NEW s \in S,
           NEW now \in Nat, NEW u, u = After(t, n, s, now)
    PROVE  /\ ~ShouldStore(t, n, s) => \A y, x, a : InRing(t, y, x, a) => InRing(u, y, x, a)
           /\ ShouldStore(t, n, s) =>
                /\ InRing(u, n, s, 0)
                /\ \A y, x, a : y # n /\ ~Evicts(t, n, y) /\ InRing(t, y, x, a) => InRing(u, y, x, a)
                /\ \A x : \A a \in Nat : a + 1 < History /\ InRing(t, n, x, a) => InRing(u, n, x, a + 1)
<1> DEFINE k == Slot(t, n)
           e == Touched(t, n, now)
           new == ShouldStore(t, n, s)
<1>0. k = Slot(t, n) /\ e = Touched(t, n, now) /\ (new <=> ShouldStore(t, n, s))
  OBVIOUS
<1> HIDE DEF k, e, new
<1>1. /\ k \in 1..Len(u)
      /\ u[k] = IF new THEN Remembered(e, s) ELSE e
      /\ e \in Entries(N, S) /\ Filled(e) /\ e.node = n
      /\ e.seqs = EntryOf(t, n).seqs /\ e.next = EntryOf(t, n).next
      /\ u[k].node = n
      /\ \A i \in 1..Len(t) : i # k => i \in 1..Len(u)
      /\ \A i \in 1..Len(u) : i # k => u[i] = t[i]
      /\ k <= Len(t) => Known(t, n) \/ Len(t) = MaxNodes
  BY <1>0, TableAfter DEF new
<1>2. k \in Int /\ Len(t) \in Nat /\ Len(t) <= MaxNodes /\ MaxNodes \in Nat
  BY <1>1, TableAssumption DEF Table
<1>3. ASSUME NEW i \in 1..Len(t), t[i].node # n, ~Evicts(t, n, t[i].node)
      PROVE  i \in 1..Len(u) /\ u[i] = t[i]
  <2>1. ASSUME i = k PROVE FALSE
    <3>1. CASE Known(t, n)
      BY <1>0, <1>3, <2>1, <3>1, KnownSlot
    <3>2. CASE ~Known(t, n)
      <4>1. Len(t) = MaxNodes
        BY <1>1, <2>1, <3>2
      <4>2. k = LeastRecent(t)
        BY <1>0, <1>2, <3>2, <4>1 DEF Slot
      <4> QED
        BY <1>3, <2>1, <3>2, <4>1, <4>2 DEF Evicts
    <3> QED
      BY <3>1, <3>2
  <2> QED
    BY <1>1, <2>1
<1>4. ASSUME NEW i \in 1..Len(t), t[i].node = n
      PROVE  e.seqs = t[i].seqs /\ e.next = t[i].next
  <2>1. Known(t, n)
    BY <1>4 DEF Known
  <2>2. EntryOf(t, n) = t[i]
    BY <1>4, <2>1, KnownSlot DEF EntryOf, Table, OneEach
  <2> QED
    BY <1>1, <2>2
<1>5. \A y, x, a : y # n /\ ~Evicts(t, n, y) /\ InRing(t, y, x, a) => InRing(u, y, x, a)
  BY <1>3 DEF InRing
<1>6. ASSUME ~new PROVE \A x, a : InRing(t, n, x, a) => InRing(u, n, x, a)
  <2>1. u[k] = e
    BY <1>1, <1>6
  <2> SUFFICES ASSUME NEW x, NEW a, InRing(t, n, x, a) PROVE InRing(u, n, x, a)
    OBVIOUS
  <2>2. PICK i \in 1..Len(t) : \E p \in 1..Len(t[i].seqs) :
              t[i].node = n /\ t[i].seqs[p] = x /\ Age(t[i], p) = a
    BY DEF InRing
  <2>3. \E p \in 1..Len(e.seqs) : e.seqs[p] = x /\ Age(e, p) = a
    BY <1>4, <2>2 DEF Age
  <2> QED
    BY <1>1, <2>1, <2>3 DEF InRing
<1>7. ASSUME new
      PROVE  /\ InRing(u, n, s, 0)
             /\ \A x : \A a \in Nat : a + 1 < History /\ InRing(t, n, x, a) => InRing(u, n, x, a + 1)
  <2> DEFINE f == u[k]
             q == e.next + 1
  <2>1. f = Remembered(e, s)
    BY <1>1, <1>7
  <2> HIDE DEF f
  <2>2. /\ q \in 1..Len(f.seqs) /\ f.seqs[q] = s /\ Age(f, q) = 0
        /\ \A p \in 1..Len(e.seqs) : p # q =>
              p \in 1..Len(f.seqs) /\ f.seqs[p] = e.seqs[p] /\ Age(f, p) = Age(e, p) + 1
        /\ \A p \in 1..Len(e.seqs) : Age(e, p) + 1 < History => p # q
    <3>1. q \in 1..Len(f.seqs) /\ f.seqs[q] = s /\ Age(f, q) = 0
      BY <1>1, <2>1, RingAfter
    <3>2. \A p \in 1..Len(e.seqs) : p # q =>
              p \in 1..Len(f.seqs) /\ f.seqs[p] = e.seqs[p] /\ Age(f, p) = Age(e, p) + 1
      BY <1>1, <2>1, RingAfter
    <3>3. \A p \in 1..Len(e.seqs) : Age(e, p) + 1 < History => p # q
      BY <1>1, <2>1, RingAfter
    <3> QED
      BY <3>1, <3>2, <3>3
  <2> HIDE DEF q
  <2>3. k \in 1..Len(u) /\ u[k] = f /\ f.node = n
    BY <1>1 DEF f
  <2>4. InRing(u, n, s, 0)
    BY <2>2, <2>3 DEF InRing
  <2>5. ASSUME NEW x, NEW a \in Nat, a + 1 < History, InRing(t, n, x, a)
        PROVE  InRing(u, n, x, a + 1)
    <3>1. PICK i \in 1..Len(t) : \E p \in 1..Len(t[i].seqs) :
                t[i].node = n /\ t[i].seqs[p] = x /\ Age(t[i], p) = a
      BY <2>5 DEF InRing
    <3>2. PICK p \in 1..Len(e.seqs) : e.seqs[p] = x /\ Age(e, p) = a
      BY <1>4, <3>1 DEF Age
    <3>3. p \in 1..Len(f.seqs) /\ f.seqs[p] = x /\ Age(f, p) = a + 1
      BY <2>2, <2>5, <3>2
    <3> QED
      BY <2>3, <3>3 DEF InRing
  <2> QED
    BY <2>4, <2>5
<1>8. ASSUME ~new PROVE \A y, x, a : InRing(t, y, x, a) => InRing(u, y, x, a)
  <2>1. Known(t, n)
    BY <1>0, <1>8 DEF ShouldStore, EntryOf, NewEntry
  <2> QED
    BY <1>5, <1>6, <1>8, <2>1 DEF Evicts
<1> QED
  BY <1>0, <1>5, <1>7, <1>8

LEMMA UpTo == \A l \in Nat : IsFiniteSet(1..l) /\ Cardinality(1..l) = l
<1> TAKE l \in Nat
<1>1. 1 \in Int /\ l \in Int
  OBVIOUS
<1>2. IsFiniteSet(1..l) /\ Cardinality(1..l) = IF 1 > l THEN 0 ELSE l - 1 + 1
  BY <1>1, FS_Interval
<1> QED
  BY <1>2

\* Nobody makes room while there are not more senders than entries.
LEMMA RoomForAll ==
    ASSUME NEW N, IsFiniteSet(N), Cardinality(N) <= MaxNodes,
           NEW S, NEW t, Table(t, N, S, {}), NEW n \in N, ~Known(t, n)
    PROVE  Len(t) < MaxNodes
<1>1. /\ t \in Seq(Entries(N, S)) /\ Len(t) \in Nat /\ OneEach(t, {})
      /\ \A i \in 1..Len(t) : t[i].node \in N \ {n}
  <2>1. t \in Seq(Entries(N, S)) /\ Len(t) \in Nat /\ OneEach(t, {})
    BY DEF Table
  <2>2. \A i \in 1..Len(t) : t[i] \in Entries(N, S)
    BY <2>1
  <2>3. \A e \in Entries(N, S) : e.node \in N
    BY DEF Entries
  <2>4. \A i \in 1..Len(t) : t[i].node # n
    BY DEF Known
  <2> QED
    BY <2>1, <2>2, <2>3, <2>4
<1>2. IsFiniteSet(1..Len(t)) /\ Cardinality(1..Len(t)) = Len(t)
  BY <1>1, UpTo
<1>3. /\ IsFiniteSet(N \ {n}) /\ Cardinality(N \ {n}) = Cardinality(N) - 1
      /\ Cardinality(N) \in Nat /\ Cardinality(N) <= MaxNodes
  BY FS_RemoveElement, FS_CardinalityType
<1> DEFINE g == [i \in 1..Len(t) |-> t[i].node]
<1>4. g \in [1..Len(t) -> N \ {n}] /\ \A x, y \in 1..Len(t) : g[x] = g[y] => x = y
  BY <1>1 DEF OneEach
<1> HIDE DEF g
<1>5. ~(Cardinality(N \ {n}) < Cardinality(1..Len(t)))
  BY <1>2, <1>3, <1>4, FS_PigeonHole
<1> QED
  BY <1>1, <1>2, <1>3, <1>5, TableAssumption

----------------------------------------------------------------------------
(* What the steps do to the records in a member's hands and to the head's.   *)

unchangedHead == UNCHANGED <<inbox, table, log>>

\* app_main stores a record.
Sampled(m) ==
    /\ \E r \in Chunk :
          /\ r.node = m /\ r.id = Len(written) + 1
          /\ store' = [store EXCEPT ![m] = Append(Spared(m), r)]
          /\ written' = Append(written, r)
    /\ Purged(m) /\ UNCHANGED <<batch, again>> /\ unchangedHead

Popped(m) ==
    /\ batch[m] = <<>>
    /\ \E n \in 1..Len(store[m]) :
          /\ batch' = [batch EXCEPT ![m] = SubSeq(store[m], 1, n)]
          /\ store' = [store EXCEPT ![m] = SubSeq(@, n + 1, Len(@))]
    /\ UNCHANGED storeHistory /\ unchangedHead

\* The file is still there, or what replaces it ends too soon.
PoppedUnseen(m) ==
    /\ batch[m] = <<>> /\ writeFails' = writeFails + 1
    /\ \E n \in 1..Len(store[m]) :
          /\ batch' = [batch EXCEPT ![m] = SubSeq(store[m], 1, n)]
          /\ \/ again' = TRUE /\ store' = store
             \/ \E k \in n..Len(store[m]) :
                   store' = [store EXCEPT ![m] = SubSeq(@, n + 1, k)] /\ again' = again
    /\ UNCHANGED <<written, wiped>> /\ unchangedHead

\* A frame arrives, and its sender may learn of it.
Sent(m) ==
    /\ batch[m] # <<>>
    /\ inbox' = Append(inbox, Head(batch[m]))
    /\ batch' \in {batch, [batch EXCEPT ![m] = Tail(@)]}
    /\ UNCHANGED <<store, storeHistory, table, log>>

PutBack(m) ==
    /\ batch[m] # <<>>
    /\ \E c \in Chunk :
          /\ Same(c, Head(batch[m])) /\ c.seq = Head(batch[m]).seq
          /\ store' = [store EXCEPT ![m] = Append(Spared(m), c)]
    /\ batch' = [batch EXCEPT ![m] = Tail(@)]
    /\ Purged(m) /\ UNCHANGED <<written, again>> /\ unchangedHead

\* A write that fails, of a record or of one put back, or a reset while the batch is out.
Dropped(m) ==
    /\ batch' = batch \/ (batch[m] # <<>> /\ batch' = [batch EXCEPT ![m] = Tail(@)])
    /\ store' = store \/ store' = [store EXCEPT ![m] = <<>>]
    /\ wiped' = wiped \/ wiped' = wiped \union {c.id : c \in Range(store[m])}
    /\ writeFails' = writeFails + 1
    /\ UNCHANGED <<written, again>> /\ unchangedHead
Cleared(m) ==
    /\ batch' = [batch EXCEPT ![m] = <<>>] /\ restarts' = restarts + 1
    /\ UNCHANGED <<store, storeHistory>> /\ unchangedHead

\* The head loses a frame, or empties its inbox or its filter.
Interrupted ==
    /\ uav # "none" \/ headEvents' = headEvents + 1
    /\ inbox' \in {inbox, <<>>} \/ (inbox # <<>> /\ inbox' = Tail(inbox))
    /\ table' \in {table, EmptyTable} /\ log' = log
    /\ UNCHANGED <<store, batch, storeHistory>>

Idle == UNCHANGED <<store, batch, storeHistory>> /\ unchangedHead

LEMMA BatchFits ==
    ASSUME TypeOK, NEW m \in Members, store[m] # <<>>
    PROVE  BatchSize(m) \in 1..Len(store[m])
<1>1. store[m] \in Seq(Chunk)
  BY DEF TypeOK
<1> QED
  BY <1>1, DeliveryAssumption DEF BatchSize, Smaller

LEMMA Steps ==
    ASSUME TypeOK, Next
    PROVE  \/ Idle \/ Process \/ Interrupted
           \/ \E m \in Members : \/ Sampled(m) \/ Popped(m) \/ PoppedUnseen(m) \/ Sent(m)
                                 \/ PutBack(m) \/ Dropped(m) \/ Cleared(m)
<1>1. ASSUME NEW m \in Members,
             LoopTop(m) \/ Cutoff(m) \/ BecomeMember(m) \/ LeaveCluster(m) \/ Forgets(m) \/ SendLost(m)
      PROVE  Idle
  <2>1. \A x : Tried(x) => batch' = batch
    BY DEF Tried
  <2> QED
    BY <1>1, <2>1 DEF LoopTop, Cutoff, BecomeMember, LeaveCluster, Forgets, SendLost, Idle, unchangedHead,
       unchangedBySampling, unchangedByDrain, headVars, memberVars, boundVars, storeHistory
<1>2. ASSUME NEW m \in Members, StoreSample(m) PROVE Idle \/ Sampled(m) \/ Dropped(m)
  <2> DEFINE r == [node |-> m, id |-> Len(written) + 1, seq |-> seq[m], pad |-> 0]
  <2>1. UNCHANGED <<batch, again>> /\ unchangedHead
    BY <1>2 DEF StoreSample, unchangedBySampling, headVars, unchangedHead
  <2>2. r \in Chunk /\ r.node = m /\ r.id = Len(written) + 1
    BY DeliveryAssumption DEF TypeOK, Chunk
  <2>3. \/ Write(m, r) /\ written' = Append(written, r)
        \/ WriteLoses(m) /\ UNCHANGED written
        \/ UNCHANGED <<store, written, wiped>>
    BY <1>2 DEF StoreSample
  <2> HIDE DEF r
  <2>4. CASE Write(m, r) /\ written' = Append(written, r)
    BY <2>1, <2>2, <2>4 DEF Sampled, Write
  <2>5. CASE WriteLoses(m) /\ UNCHANGED written
    BY <2>1, <2>5 DEF Dropped, WriteLoses, WriteFails
  <2>6. CASE UNCHANGED <<store, written, wiped>>
    BY <2>1, <2>6 DEF Idle, storeHistory
  <2> QED
    BY <2>3, <2>4, <2>5, <2>6
<1>3. ASSUME NEW m \in Members, Pop(m) \/ PopFailsUnseen(m) PROVE Popped(m) \/ PoppedUnseen(m)
  <2>1. PopReady(m) /\ TakeBatch(m)
    BY <1>3 DEF Pop, PopFailsUnseen
  <2>2. batch[m] = <<>> /\ BatchSize(m) \in 1..Len(store[m])
    BY <2>1, BatchFits DEF PopReady, TypeOK
  <2> DEFINE n == BatchSize(m)
  <2>3. /\ batch' = [batch EXCEPT ![m] = SubSeq(store[m], 1, n)]
        /\ UNCHANGED <<written, wiped>> /\ unchangedHead
    BY <2>1 DEF TakeBatch, unchangedByDrain, headVars, unchangedHead
  <2>4. CASE Pop(m)
    <3>1. store' = [store EXCEPT ![m] = SubSeq(@, n + 1, Len(@))] /\ again' = again
      BY <2>4 DEF Pop
    <3> HIDE DEF n
    <3> QED
      BY <2>2, <2>3, <3>1 DEF Popped, storeHistory, n
  <2>5. CASE PopFailsUnseen(m)
    <3>1. /\ writeFails' = writeFails + 1
          /\ \/ again' = TRUE /\ store' = store
             \/ \E k \in n..Len(store[m]) :
                   store' = [store EXCEPT ![m] = SubSeq(@, n + 1, k)] /\ again' = again
      BY <2>5 DEF PopFailsUnseen, WriteFails
    <3> HIDE DEF n
    <3> QED
      BY <2>2, <2>3, <3>1 DEF PoppedUnseen, n
  <2> QED
    BY <1>3, <2>4, <2>5
<1>4. ASSUME NEW m \in Members, SendAcked(m) \/ SendUnacked(m) PROVE Sent(m)
  <2>1. batch[m] # <<>>
    BY <1>4 DEF SendAcked, SendUnacked, TypeOK
  <2>2. inbox' = Append(inbox, Head(batch[m]))
    BY <1>4 DEF SendAcked, SendUnacked, Arrives, Frame
  <2>3. batch' \in {batch, [batch EXCEPT ![m] = Tail(@)]}
    BY <1>4 DEF SendAcked, SendUnacked, Tried
  <2>4. UNCHANGED <<store, storeHistory, table, log>>
    BY <1>4 DEF SendAcked, SendUnacked, unchangedByDrain, storeHistory
  <2> QED
    BY <2>1, <2>2, <2>3, <2>4 DEF Sent
<1>5. ASSUME NEW m \in Members, Requeue(m) PROVE PutBack(m) \/ Dropped(m)
  <2>1. batch[m] # <<>> /\ batch[m] \in Seq(Chunk) /\ Head(batch[m]) \in Chunk
    BY <1>5 DEF Requeue, PutBackFirst, TypeOK
  <2>2. batch' = [batch EXCEPT ![m] = Tail(@)] /\ UNCHANGED <<written, again>> /\ unchangedHead
    BY <1>5 DEF Requeue, PutBackFirst, unchangedByDrain, headVars, unchangedHead
  <2>3. CASE \E c \in Requeued(Frame(m)) : Write(m, c)
    <3>1. PICK c \in Requeued(Head(batch[m])) : Write(m, c)
      BY <2>3 DEF Frame
    <3>2. c \in Chunk /\ Same(c, Head(batch[m])) /\ c.seq = Head(batch[m]).seq
      <4>1. \A h \in Chunk : h.pad \in 0..FrameLimit + 1 /\ Smaller(h.pad + 1, FrameLimit + 1) \in 0..FrameLimit + 1
        BY DeliveryAssumption DEF Chunk, Smaller
      <4>2. PICK p \in 0..FrameLimit + 1 : c = [Head(batch[m]) EXCEPT !.pad = p]
        BY <2>1, <4>1 DEF Requeued
      <4> QED
        BY <2>1, <4>2 DEF Chunk, Same
    <3> QED
      BY <2>1, <2>2, <3>1, <3>2 DEF PutBack, Write
  <2>4. CASE WriteLoses(m)
    BY <2>1, <2>2, <2>4 DEF Dropped, WriteLoses, WriteFails
  <2> QED
    BY <1>5, <2>3, <2>4 DEF Requeue, PutBackFirst
<1>6. ASSUME NEW m \in Members, Restart(m) PROVE Cleared(m)
  BY <1>6 DEF Restart, Cleared, headVars, unchangedHead
<1>7. CASE LoseRole \/ RegainRole \/ Trigger \/ Resume
  BY <1>7 DEF LoseRole, RegainRole, Trigger, Resume, Idle, unchangedHead, unchangedByHead, memberVars
<1>8. CASE Deinit \/ Reinit \/ HeadRestart \/ ProcessFails
  BY <1>8 DEF Deinit, Reinit, HeadRestart, ProcessFails, HeadEvent, Interrupted, unchangedByHead, memberVars
<1> QED
  BY <1>1, <1>2, <1>3, <1>4, <1>5, <1>6, <1>7, <1>8 DEF Next, Sampling, Drain, Onboarding

----------------------------------------------------------------------------
(* The invariants.                                                           *)

Counted == faults \in Nat /\ writeFails \in Nat /\ restarts \in Nat /\ headEvents \in Nat

FilterTyped == Table(table, Members, Nat, {})

\* The filter has not been emptied, nor has a write failed.
Undisturbed == headEvents = 0 /\ writeFails = 0

HeadUp == headEvents = 0 => isHead /\ uav = "none"

\* A chunk carries the id and the number that its record was written with; w is written.
Genuine(c, w) == c.id \in 1..Len(w) /\ SameNumber(c, w[c.id])
AllGenuine(q, w) == \A i \in 1..Len(q) : Genuine(q[i], w)

\* The records in a member's hands are its own, and there is no second copy of
\* any, unless a pop has left what it handed out (a).
Own(q, m) == \A i \in 1..Len(q) : q[i].node = m
Distinct(q) == \A i, j \in 1..Len(q) : q[i].id = q[j].id => i = j
Apart(p, q) == \A i \in 1..Len(p), j \in 1..Len(q) : p[i].id # q[j].id
Hands(p, q, m, w, a) ==
    /\ AllGenuine(p, w) /\ Own(p, m)
    /\ AllGenuine(q, w) /\ Own(q, m)
    /\ ~a => Distinct(p) /\ Distinct(q) /\ Apart(p, q)

Numbered ==
    /\ \A i \in 1..Len(written) : written[i].id = i
    /\ \A m \in Members : Hands(store[m], batch[m], m, written, again)
    /\ AllGenuine(inbox, written) /\ AllGenuine(log, written)

\* The head has stored number s of node n.
Stored(q, n, s) == \E j \in 1..Len(q) : q[j].node = n /\ q[j].seq = s

\* What the filter has taken for a duplicate is a number the head has stored.
RingsInLog == Undisturbed => \A n, s : Holds(table, n, s) => Stored(log, n, s)

Among(q, r) == \E i \in 1..Len(q) : q[i].id = r.id
Numbers(q, r) == \E i \in 1..Len(q) : SameNumber(q[i], r)

\* Record r is in its member's hands, store p and batch q, or has arrived.
Reached(r, p, q, frames, stored) ==
    Among(p, r) \/ Among(q, r) \/ Numbers(frames, r) \/ Numbers(stored, r)

Kept ==
    Excused \/ \A w \in 1..Len(written) :
        w \in wiped \/ Reached(written[w], store[written[w].node], batch[written[w].node], inbox, log)

\* The records of one node that the head has stored after its i-th.
Later(q, i) == {k \in (i + 1)..Len(q) : q[k].node = q[i].node}

\* The last History numbers of a node are in its ring, in their order.
Recent ==
    Undisturbed =>
        \A i \in 1..Len(log) : Cardinality(Later(log, i)) < History =>
            InRing(table, log[i].node, log[i].seq, Cardinality(Later(log, i)))

\* The filter has an entry for every sender: nobody has to make room.
FewSenders == IsFiniteSet(Members) /\ Cardinality(Members) <= MaxNodes

Typed == TypeOK /\ Counted /\ FilterTyped
----------------------------------------------------------------------------
(* Every variable keeps its type.                                            *)

LEMMA InitTyped == Init => Typed
<1> SUFFICES ASSUME Init PROVE Typed
  OBVIOUS
<1>0. MaxNodes \in Nat /\ Attempts \in Nat \ {0}
  BY TableAssumption, DeliveryAssumption
<1>1. TypeOK
  <2>1. /\ role \in [Members -> BOOLEAN] /\ loop \in [Members -> {"top", "sampled"}]
        /\ seq \in [Members -> Nat] /\ numbered \in [Members -> BOOLEAN] /\ told \in [Members -> BOOLEAN]
        /\ tries \in [Members -> 0..(Attempts - 1)]
    BY <1>0 DEF Init
  <2>2. /\ store \in [Members -> Seq(Chunk)] /\ batch \in [Members -> Seq(Chunk)]
        /\ drain \in [Members -> {"idle", "sending", "requeueing"}]
        /\ \A m \in Members : drain[m] = "idle" <=> batch[m] = <<>>
    BY DEF Init
  <2>3. /\ inbox \in Seq(Chunk) /\ log \in Seq(Chunk) /\ written \in Seq(Chunk)
        /\ Len(table) <= MaxNodes
    BY <1>0 DEF Init, EmptyTable
  <2>4. isHead \in BOOLEAN /\ again \in BOOLEAN /\ wiped \subseteq Nat
    BY Zenon DEF Init
  <2>5. uav \in {"none", "busy", "off", "back"}
    BY DEF Init
  <2> QED
    BY <2>1, <2>2, <2>3, <2>4, <2>5 DEF TypeOK
<1>2. Counted /\ FilterTyped
  BY <1>0 DEF Init, Counted, FilterTyped, Table, EmptyTable, OneEach
<1> QED
  BY <1>1, <1>2 DEF Typed

\* A queue that a step extends or shortens remains one.
LEMMA Longer == \A S : \A q \in Seq(S), x \in S : Append(q, x) \in Seq(S)
OBVIOUS
LEMMA Shorter == \A S : \A q \in Seq(S) : q # <<>> => Tail(q) \in Seq(S) /\ Head(q) \in S
OBVIOUS
LEMMA Cut ==
    \A S : \A q \in Seq(S) : \A n \in 1..Len(q) :
        /\ SubSeq(q, 1, n) \in Seq(S) /\ SubSeq(q, n + 1, Len(q)) \in Seq(S)
        /\ \A k \in n..Len(q) : SubSeq(q, n + 1, k) \in Seq(S)
OBVIOUS

\* What Process does.
LEMMA Processed ==
    ASSUME Typed, Process
    PROVE  LET f == Head(inbox) IN
           /\ inbox # <<>> /\ f \in Chunk /\ f.node \in Members /\ f.seq \in Nat
           /\ table' = After(table, f.node, f.seq, 0) /\ inbox' = Tail(inbox)
           /\ UNCHANGED <<store, batch, storeHistory>>
           /\ \/ ShouldStore(table, f.node, f.seq) /\ isHead /\ log' = Append(log, f)
              \/ ShouldStore(table, f.node, f.seq) /\ log' = log /\ (isHead => writeFails' = writeFails + 1)
              \/ ~ShouldStore(table, f.node, f.seq) /\ log' = log
<1>1. inbox # <<>> /\ inbox \in Seq(Chunk)
  BY DEF Process, Typed, TypeOK
<1>2. Head(inbox) \in Chunk
  BY <1>1, Shorter
<1>3. Head(inbox).node \in Members /\ Head(inbox).seq \in Nat
  BY <1>2 DEF Chunk
<1> QED
  BY <1>1, <1>2, <1>3 DEF Process, unchangedByHead, memberVars, WriteFails

LEMMA QueuesTyped ==
    ASSUME Typed, Next
    PROVE  /\ store' \in [Members -> Seq(Chunk)] /\ batch' \in [Members -> Seq(Chunk)]
           /\ inbox' \in Seq(Chunk) /\ log' \in Seq(Chunk) /\ written' \in Seq(Chunk)
           /\ FilterTyped'
           /\ wiped' \subseteq Nat /\ again' \in BOOLEAN
<1>0. TypeOK /\ FilterTyped
  BY DEF Typed
<1>1. /\ store \in [Members -> Seq(Chunk)] /\ batch \in [Members -> Seq(Chunk)]
      /\ inbox \in Seq(Chunk) /\ log \in Seq(Chunk) /\ written \in Seq(Chunk)
      /\ \A m \in Members : store[m] \in Seq(Chunk) /\ batch[m] \in Seq(Chunk)
      /\ wiped \subseteq Nat /\ again \in BOOLEAN
  BY <1>0 DEF TypeOK
<1>2. <<>> \in Seq(Chunk) /\ Table(EmptyTable, Members, Nat, {})
  BY TableAssumption DEF Table, EmptyTable, OneEach
<1>3. CASE Idle
  BY <1>0, <1>1, <1>3 DEF Idle, unchangedHead, FilterTyped, storeHistory
<1>4. CASE Interrupted
  <2>1. inbox' \in Seq(Chunk)
    BY <1>1, <1>2, <1>4, Shorter DEF Interrupted
  <2> QED
    BY <1>0, <1>1, <1>2, <1>4, <2>1 DEF Interrupted, FilterTyped, storeHistory
<1>5. CASE Process
  <2> DEFINE f == Head(inbox)
  <2>1. /\ inbox # <<>> /\ f \in Chunk /\ f.node \in Members /\ f.seq \in Nat
        /\ table' = After(table, f.node, f.seq, 0) /\ inbox' = Tail(inbox)
        /\ UNCHANGED <<store, batch, storeHistory>>
        /\ log' = Append(log, f) \/ log' = log
    BY <1>5, Processed
  <2> HIDE DEF f
  <2>2. FilterTyped'
    <3>1. Table(table, Members, Nat, {}) /\ 0 \in Nat /\ f.node \notin {}
      BY <1>0 DEF FilterTyped
    <3>2. Table(table', Members, Nat, {})
      BY <2>1, <3>1, TableStays
    <3> QED
      BY <3>2 DEF FilterTyped
  <2> QED
    BY <1>1, <2>1, <2>2, Longer, Shorter DEF storeHistory
<1>6. ASSUME NEW m \in Members,
             Sampled(m) \/ Popped(m) \/ PoppedUnseen(m) \/ Sent(m) \/ PutBack(m) \/ Dropped(m) \/ Cleared(m)
      PROVE  /\ store' \in [Members -> Seq(Chunk)] /\ batch' \in [Members -> Seq(Chunk)]
             /\ inbox' \in Seq(Chunk) /\ log' \in Seq(Chunk) /\ written' \in Seq(Chunk)
             /\ FilterTyped'
             /\ wiped' \subseteq Nat /\ again' \in BOOLEAN
  <2>p. Spared(m) \in Seq(Chunk) /\ {c.id : c \in Range(store[m])} \subseteq Nat
    <3>1. \A c \in Range(store[m]) : c \in Chunk
      BY <1>1 DEF Range
    <3>2. \A c \in Chunk : c.id \in Nat
      BY DEF Chunk
    <3> QED
      BY <1>1, <3>1, <3>2 DEF Spared
  <2>w. Purged(m) => wiped' \subseteq Nat
    BY <1>1, <2>p DEF Purged
  <2>1. CASE Sampled(m)
    BY <1>0, <1>1, <2>1, <2>p, <2>w, Longer DEF Sampled, unchangedHead, FilterTyped
  <2>2. CASE Popped(m)
    BY <1>0, <1>1, <2>2, Cut DEF Popped, unchangedHead, FilterTyped, storeHistory
  <2>7. CASE PoppedUnseen(m)
    <3>1. PICK n \in 1..Len(store[m]) :
            /\ batch' = [batch EXCEPT ![m] = SubSeq(store[m], 1, n)]
            /\ \/ again' = TRUE /\ store' = store
               \/ \E k \in n..Len(store[m]) :
                     store' = [store EXCEPT ![m] = SubSeq(@, n + 1, k)] /\ again' = again
      BY <2>7 DEF PoppedUnseen
    <3>2. store' \in [Members -> Seq(Chunk)] /\ again' \in BOOLEAN
      <4>1. CASE again' = TRUE /\ store' = store
        BY <1>1, <4>1
      <4>2. ASSUME NEW k \in n..Len(store[m]), store' = [store EXCEPT ![m] = SubSeq(@, n + 1, k)], again' = again
            PROVE  store' \in [Members -> Seq(Chunk)] /\ again' \in BOOLEAN
        <5>1. SubSeq(store[m], n + 1, k) \in Seq(Chunk)
          BY <1>1, Cut
        <5> QED
          BY <1>1, <4>2, <5>1
      <4> QED
        BY <3>1, <4>1, <4>2
    <3> QED
      BY <1>0, <1>1, <2>7, <3>1, <3>2, Cut DEF PoppedUnseen, unchangedHead, FilterTyped
  <2>3. CASE Sent(m)
    <3>1. batch[m] # <<>> /\ inbox' = Append(inbox, Head(batch[m])) /\ UNCHANGED <<store, storeHistory, table, log>>
      BY <2>3 DEF Sent
    <3>2. batch' = batch \/ batch' = [batch EXCEPT ![m] = Tail(@)]
      BY <2>3 DEF Sent
    <3>3. batch' \in [Members -> Seq(Chunk)]
      <4>1. Tail(batch[m]) \in Seq(Chunk)
        BY <1>1, <3>1, Shorter
      <4> QED
        BY <1>1, <3>2, <4>1
    <3>4. inbox' \in Seq(Chunk)
      BY <1>1, <3>1, Longer, Shorter
    <3> QED
      BY <1>0, <1>1, <3>1, <3>3, <3>4 DEF FilterTyped, storeHistory
  <2>4. CASE PutBack(m)
    BY <1>0, <1>1, <2>4, <2>p, <2>w, Longer, Shorter DEF PutBack, unchangedHead, FilterTyped
  <2>5. CASE Dropped(m)
    <3>1. batch' \in [Members -> Seq(Chunk)]
      <4>1. CASE batch' = batch
        BY <1>1, <4>1
      <4>2. CASE batch[m] # <<>> /\ batch' = [batch EXCEPT ![m] = Tail(@)]
        <5>1. Tail(batch[m]) \in Seq(Chunk)
          BY <1>1, <4>2, Shorter
        <5> QED
          BY <1>1, <4>2, <5>1
      <4> QED
        BY <2>5, <4>1, <4>2 DEF Dropped
    <3>2. store' \in [Members -> Seq(Chunk)]
      BY <1>1, <1>2, <2>5 DEF Dropped
    <3> QED
      BY <1>0, <1>1, <2>5, <2>p, <3>1, <3>2 DEF Dropped, unchangedHead, FilterTyped
  <2>6. CASE Cleared(m)
    BY <1>0, <1>1, <1>2, <2>6 DEF Cleared, unchangedHead, FilterTyped, storeHistory
  <2> QED
    BY <1>6, <2>1, <2>2, <2>3, <2>4, <2>5, <2>6, <2>7
<1> QED
  BY <1>0, <1>3, <1>4, <1>5, <1>6, Steps

MemberFlags ==
    /\ role \in [Members -> BOOLEAN] /\ numbered \in [Members -> BOOLEAN]
    /\ told \in [Members -> BOOLEAN]
HeadFlags == isHead \in BOOLEAN /\ uav \in {"none", "busy", "off", "back"}
MemberCounts ==
    /\ seq \in [Members -> Nat] /\ loop \in [Members -> {"top", "sampled"}]
    /\ tries \in [Members -> 0..(Attempts - 1)]

LEMMA FlagsTyped ==
    ASSUME Typed, Next
    PROVE  MemberFlags' /\ HeadFlags'
<1>0. MemberFlags /\ HeadFlags
  BY DEF Typed, TypeOK, MemberFlags, HeadFlags
<1>1. ASSUME NEW m \in Members, Sampling(m) PROVE MemberFlags' /\ HeadFlags'
  BY Zenon, <1>0, <1>1 DEF Sampling, LoopTop, StoreSample, MemberFlags, HeadFlags, unchangedBySampling, headVars
<1>2. ASSUME NEW m \in Members, Drain(m) \/ Cutoff(m) PROVE MemberFlags' /\ HeadFlags'
  BY <1>0, <1>2 DEF Drain, Cutoff, Pop, PopFailsUnseen, PopReady, TakeBatch, SendAcked, SendUnacked, SendLost,
       Requeue, PutBackFirst, Write, WriteLoses, MemberFlags, HeadFlags, unchangedByDrain, headVars
<1>3. ASSUME NEW m \in Members, BecomeMember(m) \/ LeaveCluster(m) \/ Restart(m) \/ Forgets(m)
      PROVE  MemberFlags' /\ HeadFlags'
  BY Zenon, <1>0, <1>3 DEF BecomeMember, LeaveCluster, Restart, Forgets, MemberFlags, HeadFlags, headVars, memberVars
<1>4. CASE Process \/ ProcessFails \/ LoseRole \/ RegainRole \/ HeadRestart \/ Deinit \/ Reinit
  BY <1>0, <1>4 DEF Process, ProcessFails, LoseRole, RegainRole, HeadRestart, Deinit, Reinit, MemberFlags, HeadFlags, unchangedByHead, memberVars
<1>5. CASE Trigger \/ Resume
  BY Zenon, <1>0, <1>5 DEF Trigger, Resume, Says, Heeded, MemberFlags, HeadFlags, memberVars
<1> QED
  BY <1>1, <1>2, <1>3, <1>4, <1>5 DEF Next, Onboarding

LEMMA CountsTyped ==
    ASSUME Typed, Next
    PROVE  MemberCounts'
<1>0. MemberCounts /\ Attempts \in Nat \ {0}
  BY DeliveryAssumption DEF Typed, TypeOK, MemberCounts
<1>1. ASSUME NEW m \in Members, Sampling(m)
      PROVE  MemberCounts'
  <2>1. seq' \in [Members -> Nat]
    <3>1. seq' = seq \/ seq' = [seq EXCEPT ![m] = 1] \/ seq' = [seq EXCEPT ![m] = @ + 1]
      BY <1>1 DEF Sampling, LoopTop, StoreSample
    <3> QED
      BY <1>0, <3>1 DEF MemberCounts
  <2>2. loop' \in [Members -> {"top", "sampled"}]
    BY <1>0, <1>1 DEF Sampling, LoopTop, StoreSample, unchangedBySampling, MemberCounts
  <2>3. tries' \in [Members -> 0..(Attempts - 1)]
    BY <1>0, <1>1 DEF Sampling, LoopTop, StoreSample, unchangedBySampling, MemberCounts
  <2> QED
    BY <2>1, <2>2, <2>3 DEF MemberCounts
<1>2. ASSUME NEW m \in Members, Drain(m) \/ Cutoff(m)
      PROVE  MemberCounts'
  <2>1. seq' \in [Members -> Nat]
    BY <1>0, <1>2 DEF Drain, Cutoff, Pop, PopFailsUnseen, PopReady, TakeBatch, SendAcked, SendUnacked, SendLost,
       Requeue, PutBackFirst, Write, WriteLoses, unchangedByDrain, Tried, MemberCounts
  <2>2. loop' \in [Members -> {"top", "sampled"}]
    BY <1>0, <1>2 DEF Drain, Cutoff, Pop, PopFailsUnseen, PopReady, TakeBatch, SendAcked, SendUnacked, SendLost,
       Requeue, PutBackFirst, Write, WriteLoses, unchangedByDrain, Tried, MemberCounts
  <2>3. tries' \in [Members -> 0..(Attempts - 1)]
    <3>1. UNCHANGED tries \/ tries' = [tries EXCEPT ![m] = 0] \/ Tried(m)
      BY <1>2 DEF Drain, Cutoff, Pop, PopFailsUnseen, TakeBatch, SendAcked, SendUnacked, SendLost,
         Requeue, PutBackFirst
    <3>2. tries \in [Members -> 0..(Attempts - 1)]
      BY <1>0 DEF MemberCounts
    <3>3. Tried(m) => tries' \in [Members -> 0..(Attempts - 1)]
      BY <1>0, <3>2 DEF Tried
    <3> QED
      BY <1>0, <3>1, <3>2, <3>3
  <2> QED
    BY <2>1, <2>2, <2>3 DEF MemberCounts
<1>3. ASSUME NEW m \in Members, BecomeMember(m) \/ LeaveCluster(m) \/ Restart(m) \/ Forgets(m)
      PROVE  MemberCounts'
  <2>1. seq' \in [Members -> Nat]
    <3>1. seq' = seq \/ seq' = [seq EXCEPT ![m] = 0]
      BY <1>3 DEF BecomeMember, LeaveCluster, Restart, Forgets, memberVars
    <3> QED
      BY <1>0, <3>1 DEF MemberCounts
  <2>2. loop' \in [Members -> {"top", "sampled"}]
    BY <1>0, <1>3 DEF BecomeMember, LeaveCluster, Restart, Forgets, memberVars, MemberCounts
  <2>3. tries' \in [Members -> 0..(Attempts - 1)]
    <3>1. tries' = tries \/ tries' = [tries EXCEPT ![m] = 0]
      BY <1>3 DEF BecomeMember, LeaveCluster, Restart, Forgets, memberVars
    <3>2. 0 \in 0..(Attempts - 1)
      BY <1>0
    <3> QED
      BY <1>0, <3>1, <3>2 DEF MemberCounts
  <2> QED
    BY <2>1, <2>2, <2>3 DEF MemberCounts
<1>4. CASE Process \/ ProcessFails \/ LoseRole \/ RegainRole \/ HeadRestart \/ Deinit \/ Reinit \/ Trigger \/ Resume
  <2>1. seq' \in [Members -> Nat]
    BY <1>0, <1>4 DEF Process, ProcessFails, LoseRole, RegainRole, HeadRestart, Deinit, Reinit, Trigger, Resume,
       unchangedByHead, memberVars, MemberCounts
  <2>2. loop' \in [Members -> {"top", "sampled"}]
    BY <1>0, <1>4 DEF Process, ProcessFails, LoseRole, RegainRole, HeadRestart, Deinit, Reinit, Trigger, Resume,
       unchangedByHead, memberVars, MemberCounts
  <2>3. tries' \in [Members -> 0..(Attempts - 1)]
    BY <1>0, <1>4 DEF Process, ProcessFails, LoseRole, RegainRole, HeadRestart, Deinit, Reinit, Trigger, Resume,
       unchangedByHead, memberVars, MemberCounts
  <2> QED
    BY <2>1, <2>2, <2>3 DEF MemberCounts
<1> QED
  BY <1>1, <1>2, <1>3, <1>4 DEF Next, Onboarding

\* A step adds one to a counter of troubles or leaves it.
LEMMA CountersGrow ==
    ASSUME Next
    PROVE  /\ faults' = faults \/ faults' = faults + 1
           /\ writeFails' = writeFails \/ writeFails' = writeFails + 1
           /\ restarts' = restarts \/ restarts' = restarts + 1
           /\ headEvents' = headEvents \/ headEvents' = headEvents + 1
<1>1. ASSUME NEW m \in Members, Sampling(m)
      PROVE  /\ faults' = faults \/ faults' = faults + 1
             /\ writeFails' = writeFails \/ writeFails' = writeFails + 1
             /\ restarts' = restarts \/ restarts' = restarts + 1
             /\ headEvents' = headEvents \/ headEvents' = headEvents + 1
  <2>1. faults' = faults \/ faults' = faults + 1
    BY <1>1 DEF Sampling, LoopTop, StoreSample, unchangedBySampling, Fault
  <2>2. writeFails' = writeFails \/ writeFails' = writeFails + 1
    BY <1>1 DEF Sampling, LoopTop, StoreSample, unchangedBySampling, Write, WriteLoses, WriteFails
  <2>3. restarts' = restarts \/ restarts' = restarts + 1
    BY <1>1 DEF Sampling, LoopTop, StoreSample, unchangedBySampling
  <2>4. headEvents' = headEvents \/ headEvents' = headEvents + 1
    BY <1>1 DEF Sampling, LoopTop, StoreSample, unchangedBySampling, HeadEvent
  <2> QED
    BY <2>1, <2>2, <2>3, <2>4
<1>2. ASSUME NEW m \in Members, Drain(m) \/ Cutoff(m)
      PROVE  /\ faults' = faults \/ faults' = faults + 1
             /\ writeFails' = writeFails \/ writeFails' = writeFails + 1
             /\ restarts' = restarts \/ restarts' = restarts + 1
             /\ headEvents' = headEvents \/ headEvents' = headEvents + 1
  <2>1. faults' = faults \/ faults' = faults + 1
    BY <1>2 DEF Drain, Cutoff, Pop, PopFailsUnseen, PopReady, TakeBatch, SendAcked, SendUnacked, SendLost,
       Requeue, PutBackFirst, Write, WriteLoses, unchangedByDrain, Fault
  <2>2. writeFails' = writeFails \/ writeFails' = writeFails + 1
    BY <1>2 DEF Drain, Cutoff, Pop, PopFailsUnseen, PopReady, TakeBatch, SendAcked, SendUnacked, SendLost,
       Requeue, PutBackFirst, Write, WriteLoses, unchangedByDrain, WriteFails
  <2>3. restarts' = restarts \/ restarts' = restarts + 1
    BY <1>2 DEF Drain, Cutoff, Pop, PopFailsUnseen, PopReady, TakeBatch, SendAcked, SendUnacked, SendLost,
       Requeue, PutBackFirst, Write, WriteLoses, unchangedByDrain
  <2>4. headEvents' = headEvents \/ headEvents' = headEvents + 1
    BY <1>2 DEF Drain, Cutoff, Pop, PopFailsUnseen, PopReady, TakeBatch, SendAcked, SendUnacked, SendLost,
       Requeue, PutBackFirst, Write, WriteLoses, unchangedByDrain, HeadEvent
  <2> QED
    BY <2>1, <2>2, <2>3, <2>4
<1>3. ASSUME NEW m \in Members, BecomeMember(m) \/ LeaveCluster(m) \/ Restart(m) \/ Forgets(m)
      PROVE  /\ faults' = faults \/ faults' = faults + 1
             /\ writeFails' = writeFails \/ writeFails' = writeFails + 1
             /\ restarts' = restarts \/ restarts' = restarts + 1
             /\ headEvents' = headEvents \/ headEvents' = headEvents + 1
  <2>1. faults' = faults \/ faults' = faults + 1
    BY <1>3 DEF BecomeMember, LeaveCluster, Restart, Forgets, boundVars, Fault
  <2>2. writeFails' = writeFails \/ writeFails' = writeFails + 1
    BY <1>3 DEF BecomeMember, LeaveCluster, Restart, Forgets, boundVars, WriteFails
  <2>3. restarts' = restarts \/ restarts' = restarts + 1
    BY <1>3 DEF BecomeMember, LeaveCluster, Restart, Forgets, boundVars
  <2>4. headEvents' = headEvents \/ headEvents' = headEvents + 1
    BY <1>3 DEF BecomeMember, LeaveCluster, Restart, Forgets, boundVars, HeadEvent
  <2> QED
    BY <2>1, <2>2, <2>3, <2>4
<1>4. ASSUME Process \/ ProcessFails \/ LoseRole \/ RegainRole \/ HeadRestart \/ Deinit \/ Reinit \/ Trigger \/ Resume
      PROVE  /\ faults' = faults \/ faults' = faults + 1
             /\ writeFails' = writeFails \/ writeFails' = writeFails + 1
             /\ restarts' = restarts \/ restarts' = restarts + 1
             /\ headEvents' = headEvents \/ headEvents' = headEvents + 1
  <2>1. faults' = faults \/ faults' = faults + 1
    BY <1>4 DEF Process, ProcessFails, LoseRole, RegainRole, HeadRestart, Deinit, Reinit, Trigger, Resume,
         unchangedByHead, boundVars, Fault
  <2>2. writeFails' = writeFails \/ writeFails' = writeFails + 1
    BY <1>4 DEF Process, ProcessFails, LoseRole, RegainRole, HeadRestart, Deinit, Reinit, Trigger, Resume,
         unchangedByHead, boundVars, WriteFails
  <2>3. restarts' = restarts \/ restarts' = restarts + 1
    BY <1>4 DEF Process, ProcessFails, LoseRole, RegainRole, HeadRestart, Deinit, Reinit, Trigger, Resume,
         unchangedByHead, boundVars
  <2>4. headEvents' = headEvents \/ headEvents' = headEvents + 1
    BY <1>4 DEF Process, ProcessFails, LoseRole, RegainRole, HeadRestart, Deinit, Reinit, Trigger, Resume,
         unchangedByHead, boundVars, HeadEvent
  <2> QED
    BY <2>1, <2>2, <2>3, <2>4
<1> QED
  BY <1>1, <1>2, <1>3, <1>4 DEF Next, Onboarding

\* The task is idle between two batches, and only then.
Coupled ==
    /\ drain \in [Members -> {"idle", "sending", "requeueing"}]
    /\ \A m \in Members : drain[m] = "idle" <=> batch[m] = <<>>

LEMMA LastOne == \A S : \A q \in Seq(S) : q # <<>> => (Len(q) = 1 <=> Tail(q) = <<>>)
<1> TAKE S
<1> TAKE q \in Seq(S)
<1> HAVE q # <<>>
<1>1. Tail(q) \in Seq(S) /\ Len(Tail(q)) = Len(q) - 1 /\ Len(q) \in Nat
  OBVIOUS
<1>2. \A x \in Seq(S) : Len(x) = 0 <=> x = <<>>
  OBVIOUS
<1>3. Len(q) = 1 <=> Len(Tail(q)) = 0
  BY <1>1
<1> QED
  BY <1>1, <1>2, <1>3

LEMMA CoupledStays ==
    ASSUME Typed, Next
    PROVE  Coupled'
<1>0. /\ Coupled /\ batch \in [Members -> Seq(Chunk)]
      /\ \A m \in Members : batch[m] \in Seq(Chunk) /\ store[m] \in Seq(Chunk)
  BY DEF Typed, TypeOK, Coupled
<1>1. CASE UNCHANGED <<drain, batch>>
  BY <1>0, <1>1 DEF Coupled
<1>2. ASSUME NEW m \in Members, NEW d \in {"idle", "sending", "requeueing"}, NEW b,
             drain' = [drain EXCEPT ![m] = d], batch' = [batch EXCEPT ![m] = b],
             d = "idle" <=> b = <<>>
      PROVE  Coupled'
  BY <1>0, <1>2 DEF Coupled
<1>3. ASSUME NEW m \in Members, drain' = [drain EXCEPT ![m] = IF Len(batch[m]) = 1 THEN "idle" ELSE @],
             batch' = [batch EXCEPT ![m] = Tail(@)], drain[m] # "idle"
      PROVE  Coupled'
  <2>1. batch[m] # <<>> /\ (Len(batch[m]) = 1 <=> Tail(batch[m]) = <<>>)
    BY <1>0, <1>3, LastOne DEF Coupled
  <2> DEFINE d == IF Len(batch[m]) = 1 THEN "idle" ELSE drain[m]
             b == Tail(batch[m])
  <2>2. drain' = [drain EXCEPT ![m] = d] /\ batch' = [batch EXCEPT ![m] = b] /\ (d = "idle" <=> b = <<>>)
    BY <1>3, <2>1
  <2>3. d \in {"idle", "sending", "requeueing"}
    BY <1>0 DEF Coupled
  <2> HIDE DEF d, b
  <2> QED
    BY <1>2, <2>2, <2>3
<1>4. ASSUME NEW m \in Members, drain[m] = "sending", UNCHANGED batch,
             drain' \in {drain, [drain EXCEPT ![m] = "requeueing"]}
      PROVE  Coupled'
  BY <1>0, <1>4 DEF Coupled
<1>5. ASSUME NEW m \in Members, Pop(m) \/ PopFailsUnseen(m) PROVE Coupled'
  <2>0. PopReady(m) /\ TakeBatch(m)
    BY <1>5 DEF Pop, PopFailsUnseen
  <2>1. store[m] # <<>> /\ drain' = [drain EXCEPT ![m] = "sending"]
    BY <2>0 DEF PopReady, TakeBatch
  <2> DEFINE b == SubSeq(store[m], 1, BatchSize(m))
  <2>2. b # <<>>
    <3>1. BatchSize(m) \in 1..Len(store[m])
      BY <2>1, BatchFits DEF Typed
    <3> HIDE DEF BatchSize
    <3> QED
      BY <1>0, <3>1
  <2>3. batch' = [batch EXCEPT ![m] = b]
    BY <2>0 DEF TakeBatch
  <2> HIDE DEF b
  <2> QED
    BY <1>2, <2>1, <2>2, <2>3
<1>6. ASSUME NEW m \in Members, SendAcked(m) \/ Requeue(m) PROVE Coupled'
  BY <1>3, <1>6 DEF SendAcked, Requeue, PutBackFirst
<1>7. ASSUME NEW m \in Members, SendUnacked(m) \/ SendLost(m) \/ Cutoff(m) PROVE Coupled'
  BY <1>4, <1>7 DEF SendUnacked, SendLost, Cutoff, Tried
<1>8. ASSUME NEW m \in Members, Restart(m) PROVE Coupled'
  BY <1>2, <1>8 DEF Restart
<1>9. ASSUME NEW m \in Members, Sampling(m) \/ BecomeMember(m) \/ LeaveCluster(m) \/ Forgets(m)
      PROVE  UNCHANGED <<drain, batch>>
  BY <1>9 DEF Sampling, LoopTop, StoreSample, BecomeMember, LeaveCluster, Forgets, unchangedBySampling, memberVars
<1>10. CASE Process \/ ProcessFails \/ LoseRole \/ RegainRole \/ HeadRestart \/ Deinit \/ Reinit \/ Trigger \/ Resume
  BY <1>1, <1>10 DEF Process, ProcessFails, LoseRole, RegainRole, HeadRestart, Deinit, Reinit, Trigger, Resume, unchangedByHead, memberVars
<1> QED
  BY <1>1, <1>5, <1>6, <1>7, <1>8, <1>9, <1>10 DEF Next, Onboarding, Drain

LEMMA NextTyped == Typed /\ [Next]_vars => Typed'
<1> SUFFICES ASSUME Typed, [Next]_vars PROVE Typed'
  OBVIOUS
<1>1. CASE Next
  <2>1. Len(table') <= MaxNodes
    BY <1>1, QueuesTyped DEF FilterTyped, Table
  <2>2. TypeOK'
    BY <1>1, <2>1, QueuesTyped, FlagsTyped, CountsTyped, CoupledStays
       DEF TypeOK, MemberFlags, HeadFlags, MemberCounts, Coupled
  <2>3. Counted'
    BY <1>1, CountersGrow DEF Typed, Counted
  <2> QED
    BY <1>1, <2>2, <2>3, QueuesTyped DEF Typed
<1>2. CASE UNCHANGED vars
  BY <1>2 DEF Typed, TypeOK, Counted, FilterTyped, vars, memberVars, headVars, boundVars, storeHistory
<1> QED
  BY <1>1, <1>2

\* Every variable has its type, the drain is idle exactly when no batch is out, and
\* the filter never has more than DEDUP_MAX_NODES entries.
THEOREM TypeCorrect == Spec => []TypeOK
<1>1. Spec => []Typed
  BY InitTyped, NextTyped, PTL DEF Spec
<1>2. Typed => TypeOK
  BY DEF Typed
<1> QED
  BY <1>1, <1>2, PTL

----------------------------------------------------------------------------
(* The records in a member's hands.                                          *)

LEMMA GenuineLonger ==
    \A w \in Seq(Chunk) : \A r \in Chunk : \A q : AllGenuine(q, w) => AllGenuine(q, Append(w, r))
BY DEF AllGenuine, Genuine

LEMMA GenuineAppend ==
    \A w, q \in Seq(Chunk) : \A c \in Chunk :
        AllGenuine(q, w) /\ Genuine(c, w) => AllGenuine(Append(q, c), w)
<1> TAKE w, q \in Seq(Chunk)
<1> TAKE c \in Chunk
<1> HAVE AllGenuine(q, w) /\ Genuine(c, w)
<1>1. \A i \in 1..Len(Append(q, c)) : Append(q, c)[i] = c \/ (i \in 1..Len(q) /\ Append(q, c)[i] = q[i])
  OBVIOUS
<1> QED
  BY <1>1 DEF AllGenuine

\* Where the elements of a cut queue were.
LEMMA Pieces ==
    \A q \in Seq(Chunk) : \A n \in 1..Len(q) :
        /\ Len(SubSeq(q, 1, n)) = n
        /\ \A i \in 1..n : SubSeq(q, 1, n)[i] = q[i]
        /\ \A e \in n..Len(q) :
              /\ Len(SubSeq(q, n + 1, e)) = e - n
              /\ \A i \in 1..(e - n) : SubSeq(q, n + 1, e)[i] = q[n + i]
OBVIOUS
LEMMA Rest ==
    \A q \in Seq(Chunk) : q # <<>> =>
        /\ Len(q) \in Nat \ {0} /\ Len(Tail(q)) = Len(q) - 1 /\ Head(q) = q[1]
        /\ \A i \in 1..(Len(q) - 1) : Tail(q)[i] = q[i + 1]
OBVIOUS

LEMMA HandsOther ==
    \A p, q, w \in Seq(Chunk) : \A m \in Members : \A r \in Chunk : \A a :
        Hands(p, q, m, w, a) => Hands(p, q, m, Append(w, r), a)
BY GenuineLonger DEF Hands

LEMMA HandsSampled ==
    \A p, q, w \in Seq(Chunk) : \A m \in Members : \A r \in Chunk : \A a :
        Hands(p, q, m, w, a) /\ r.node = m /\ r.id = Len(w) + 1 => Hands(Append(p, r), q, m, Append(w, r), a)
<1> TAKE p, q, w \in Seq(Chunk)
<1> TAKE m \in Members
<1> TAKE r \in Chunk
<1> TAKE a
<1> HAVE Hands(p, q, m, w, a) /\ r.node = m /\ r.id = Len(w) + 1
<1> DEFINE u == Append(p, r)
           v == Append(w, r)
<1>1. /\ u \in Seq(Chunk) /\ v \in Seq(Chunk) /\ Len(w) \in Nat
      /\ \A i \in 1..Len(u) : (i = Len(p) + 1 /\ u[i] = r) \/ (i \in 1..Len(p) /\ u[i] = p[i])
      /\ Len(v) = Len(w) + 1 /\ v[Len(w) + 1] = r
  OBVIOUS
<1>2. AllGenuine(p, v) /\ AllGenuine(q, v)
  BY GenuineLonger DEF Hands
<1>3. Genuine(r, v)
  BY <1>1 DEF Genuine, SameNumber
<1>4. AllGenuine(u, v)
  BY <1>1, <1>2, <1>3 DEF AllGenuine
<1>5. /\ \A i \in 1..Len(p) : p[i].id # r.id
      /\ \A i \in 1..Len(q) : q[i].id # r.id
  BY <1>1 DEF Hands, AllGenuine, Genuine
<1> HIDE DEF u, v
<1>6. Own(u, m)
  BY <1>1 DEF Hands, Own
<1>7. ASSUME ~a PROVE Distinct(u) /\ Apart(u, q)
  <2>1. Distinct(p) /\ Apart(p, q)
    BY <1>7 DEF Hands
  <2>2. Apart(u, q)
    BY <1>1, <1>5, <2>1 DEF Apart
  <2>3. Distinct(u)
    BY <1>1, <1>5, <2>1 DEF Distinct
  <2> QED
    BY <2>2, <2>3
<1>8. Hands(u, q, m, v, a)
  BY <1>2, <1>4, <1>6, <1>7 DEF Hands
<1> QED
  BY <1>8 DEF u, v

\* The batch is taken from the front of the store; what stays may end too soon.
LEMMA HandsPopped ==
    \A p \in Seq(Chunk) : \A m \in Members : \A n \in 1..Len(p) : \A e \in n..Len(p) : \A w, o :
        Hands(p, <<>>, m, w, o) => Hands(SubSeq(p, n + 1, e), SubSeq(p, 1, n), m, w, o)
<1> TAKE p \in Seq(Chunk)
<1> TAKE m \in Members
<1> TAKE n \in 1..Len(p)
<1> TAKE e \in n..Len(p)
<1> TAKE w, o
<1> HAVE Hands(p, <<>>, m, w, o)
<1> DEFINE a == SubSeq(p, 1, n)
           z == SubSeq(p, n + 1, e)
<1>1. /\ Len(a) = n /\ Len(z) = e - n /\ Len(p) \in Nat
      /\ \A i \in 1..n : a[i] = p[i]
      /\ \A i \in 1..(e - n) : z[i] = p[n + i]
  BY Pieces
<1> HIDE DEF a, z
<1>2. /\ \A i \in 1..Len(a) : i \in 1..Len(p) /\ a[i] = p[i]
      /\ \A i \in 1..Len(z) : n + i \in 1..Len(p) /\ z[i] = p[n + i]
  BY <1>1
<1>3. AllGenuine(a, w) /\ AllGenuine(z, w) /\ Own(a, m) /\ Own(z, m)
  BY <1>2 DEF Hands, AllGenuine, Own
<1>4. ASSUME ~o PROVE Distinct(a)
  BY <1>2, <1>4 DEF Hands, Distinct
<1>5. ASSUME ~o PROVE Distinct(z)
  <2>1. SUFFICES ASSUME NEW i \in 1..Len(z), NEW j \in 1..Len(z), z[i].id = z[j].id PROVE i = j
    BY DEF Distinct
  <2>2. n + i = n + j
    BY <1>2, <1>5, <2>1 DEF Hands, Distinct
  <2> QED
    BY <1>1, <2>2
<1>6. ASSUME ~o PROVE Apart(z, a)
  <2>1. SUFFICES ASSUME NEW i \in 1..Len(z), NEW j \in 1..Len(a), z[i].id = a[j].id PROVE FALSE
    BY DEF Apart
  <2>2. n + i = j
    BY <1>2, <1>6, <2>1 DEF Hands, Distinct
  <2> QED
    BY <1>1, <2>2
<1>7. Hands(z, a, m, w, o)
  BY <1>3, <1>4, <1>5, <1>6 DEF Hands
<1> QED
  BY <1>7 DEF a, z

\* A pop that cannot delete what it hands out.
LEMMA HandsCopied ==
    \A p \in Seq(Chunk) : \A m \in Members : \A n \in 1..Len(p) : \A w, o :
        Hands(p, <<>>, m, w, o) => Hands(p, SubSeq(p, 1, n), m, w, TRUE)
<1> TAKE p \in Seq(Chunk)
<1> TAKE m \in Members
<1> TAKE n \in 1..Len(p)
<1> TAKE w, o
<1> HAVE Hands(p, <<>>, m, w, o)
<1> DEFINE a == SubSeq(p, 1, n)
<1>1. \A i \in 1..Len(a) : i \in 1..Len(p) /\ a[i] = p[i]
  BY Pieces
<1> HIDE DEF a
<1>2. AllGenuine(a, w) /\ Own(a, m)
  BY <1>1 DEF Hands, AllGenuine, Own
<1>3. Hands(p, a, m, w, TRUE)
  BY <1>2 DEF Hands
<1> QED
  BY <1>3 DEF a

\* A purge takes the store and leaves the batch.
LEMMA HandsWiped == \A p, q, m, w, a : Hands(p, q, m, w, a) => Hands(<<>>, q, m, w, a)
BY DEF Hands, AllGenuine, Own, Distinct, Apart

LEMMA HandsAgain == \A p, q, m, w, a : Hands(p, q, m, w, a) => Hands(p, q, m, w, TRUE)
BY DEF Hands

LEMMA HandsTail ==
    \A q \in Seq(Chunk) : \A p, m, w, a :
        Hands(p, q, m, w, a) /\ q # <<>> =>
            /\ Hands(p, Tail(q), m, w, a)
            /\ ~a => \A i \in 1..Len(Tail(q)) : Tail(q)[i].id # Head(q).id
<1> TAKE q \in Seq(Chunk)
<1> TAKE p, m, w, a
<1> HAVE Hands(p, q, m, w, a) /\ q # <<>>
<1> DEFINE t == Tail(q)
<1>1. /\ Len(q) \in Nat \ {0} /\ Len(t) = Len(q) - 1 /\ Head(q) = q[1]
      /\ \A i \in 1..(Len(q) - 1) : t[i] = q[i + 1]
  BY Rest
<1> HIDE DEF t
<1>2. \A i \in 1..Len(t) : i + 1 \in 1..Len(q) /\ t[i] = q[i + 1]
  BY <1>1
<1>3. AllGenuine(t, w) /\ Own(t, m) /\ (~a => Apart(p, t))
  BY <1>2 DEF Hands, AllGenuine, Own, Apart
<1>4. ASSUME ~a PROVE Distinct(t)
  <2>1. SUFFICES ASSUME NEW i \in 1..Len(t), NEW j \in 1..Len(t), t[i].id = t[j].id PROVE i = j
    BY DEF Distinct
  <2>2. i + 1 = j + 1
    BY <1>2, <1>4, <2>1 DEF Hands, Distinct
  <2> QED
    BY <1>1, <2>2
<1>5. ASSUME ~a PROVE \A i \in 1..Len(t) : t[i].id # Head(q).id
  <2>1. SUFFICES ASSUME NEW i \in 1..Len(t), t[i].id = q[1].id PROVE FALSE
    BY <1>1
  <2>2. i + 1 = 1
    BY <1>1, <1>2, <1>5, <2>1 DEF Hands, Distinct
  <2> QED
    BY <1>1, <2>2
<1>6. Hands(p, t, m, w, a)
  BY <1>3, <1>4 DEF Hands
<1> QED
  BY <1>5, <1>6 DEF t

LEMMA HandsPutBack ==
    \A p, q, w \in Seq(Chunk) : \A m \in Members : \A c \in Chunk : \A a :
        Hands(p, q, m, w, a) /\ q # <<>> /\ Same(c, Head(q)) /\ c.seq = Head(q).seq =>
            Hands(Append(p, c), Tail(q), m, w, a)
<1> TAKE p, q, w \in Seq(Chunk)
<1> TAKE m \in Members
<1> TAKE c \in Chunk
<1> TAKE a
<1> HAVE Hands(p, q, m, w, a) /\ q # <<>> /\ Same(c, Head(q)) /\ c.seq = Head(q).seq
<1> DEFINE u == Append(p, c)
<1>1. /\ Hands(p, Tail(q), m, w, a)
      /\ ~a => \A i \in 1..Len(Tail(q)) : Tail(q)[i].id # Head(q).id
  BY HandsTail
<1>2. Head(q) = q[1] /\ 1 \in 1..Len(q)
  BY Rest
<1>3. /\ Genuine(Head(q), w) /\ Head(q).node = m
      /\ ~a => \A i \in 1..Len(p) : p[i].id # Head(q).id
  BY <1>2 DEF Hands, AllGenuine, Own, Apart
<1>4. Genuine(c, w) /\ c.node = m /\ c.id = Head(q).id
  BY <1>3 DEF Genuine, SameNumber, Same
<1>5. /\ u \in Seq(Chunk)
      /\ \A i \in 1..Len(u) : (i = Len(p) + 1 /\ u[i] = c) \/ (i \in 1..Len(p) /\ u[i] = p[i])
  OBVIOUS
<1> DEFINE t == Tail(q)
<1> HIDE DEF u, t
<1>6. AllGenuine(u, w) /\ Own(u, m)
  BY <1>4, <1>5 DEF Hands, AllGenuine, Own
<1>7. ASSUME ~a PROVE Distinct(u) /\ Apart(u, t)
  <2>1. Distinct(p) /\ Apart(p, t)
    BY <1>1, <1>7 DEF Hands, t
  <2>2. /\ \A i \in 1..Len(p) : p[i].id # c.id
        /\ \A i \in 1..Len(t) : t[i].id # c.id
    BY <1>1, <1>3, <1>4, <1>7 DEF t
  <2>3. Distinct(u)
    BY <1>5, <2>1, <2>2 DEF Distinct
  <2>4. Apart(u, t)
    BY <1>5, <2>1, <2>2 DEF Apart
  <2> QED
    BY <2>3, <2>4
<1>8. Hands(u, t, m, w, a)
  BY <1>1, <1>6, <1>7 DEF Hands, t
<1> QED
  BY <1>8 DEF u, t

LEMMA HandsCleared == \A p, q, m, w, a : Hands(p, q, m, w, a) => Hands(p, <<>>, m, w, a)
BY DEF Hands, AllGenuine, Own, Distinct, Apart

\* Another member's hands are left alone.
LEMMA HandsElsewhere ==
    ASSUME Typed, Numbered, NEW m \in Members, NEW p, NEW q,
           store' = [store EXCEPT ![m] = p], batch' = [batch EXCEPT ![m] = q],
           Hands(p, q, m, written', again'), again' = again \/ again' = TRUE,
           written' = written \/ \E r \in Chunk : written' = Append(written, r)
    PROVE  \A n \in Members : Hands(store'[n], batch'[n], n, written', again')
<1> SUFFICES ASSUME NEW n \in Members PROVE Hands(store'[n], batch'[n], n, written', again')
  OBVIOUS
<1>1. /\ store \in [Members -> Seq(Chunk)] /\ batch \in [Members -> Seq(Chunk)]
      /\ store[n] \in Seq(Chunk) /\ batch[n] \in Seq(Chunk) /\ written \in Seq(Chunk)
  BY DEF Typed, TypeOK
<1>2. CASE n = m
  BY <1>1, <1>2
<1>3. CASE n # m
  <2>1. Hands(store[n], batch[n], n, written, again)
    BY DEF Numbered
  <2>2. Hands(store[n], batch[n], n, written', again)
    BY <1>1, <2>1, HandsOther
  <2>3. Hands(store[n], batch[n], n, written', again')
    BY <2>2, HandsAgain
  <2> QED
    BY <1>1, <1>3, <2>3
<1> QED
  BY <1>2, <1>3

\* A write spares the store, or the purge before it wipes all that is there.
LEMMA SparedOrWiped ==
    ASSUME Typed, NEW m \in Members, Purged(m)
    PROVE  /\ Spared(m) \in Seq(Chunk)
           /\ \/ Spared(m) = store[m] /\ wiped' = wiped
              \/ Spared(m) = <<>> /\ wiped' = wiped \union {c.id : c \in Range(store[m])}
BY DEF Typed, TypeOK, Spared, Purged

LEMMA NumberedStays ==
    ASSUME Typed, Numbered, Next
    PROVE  Numbered'
<1>1. /\ store \in [Members -> Seq(Chunk)] /\ batch \in [Members -> Seq(Chunk)]
      /\ inbox \in Seq(Chunk) /\ log \in Seq(Chunk) /\ written \in Seq(Chunk)
      /\ \A m \in Members : store[m] \in Seq(Chunk) /\ batch[m] \in Seq(Chunk)
  BY DEF Typed, TypeOK
<1>2. /\ \A i \in 1..Len(written) : written[i].id = i
      /\ \A m \in Members : Hands(store[m], batch[m], m, written, again)
      /\ AllGenuine(inbox, written) /\ AllGenuine(log, written)
  BY DEF Numbered
<1>3. CASE Idle
  BY <1>2, <1>3 DEF Idle, unchangedHead, Numbered, storeHistory
<1>4. CASE Interrupted
  <2>1. AllGenuine(<<>>, written)
    BY DEF AllGenuine
  <2>2. inbox # <<>> => AllGenuine(Tail(inbox), written)
    <3>1. ASSUME inbox # <<>> PROVE \A i \in 1..Len(Tail(inbox)) : i + 1 \in 1..Len(inbox) /\ Tail(inbox)[i] = inbox[i + 1]
      BY <1>1, <3>1, Rest
    <3> QED
      BY <1>2, <3>1 DEF AllGenuine
  <2>3. AllGenuine(inbox', written)
    BY <1>2, <1>4, <2>1, <2>2 DEF Interrupted
  <2> QED
    BY <1>2, <1>4, <2>3 DEF Interrupted, Numbered, storeHistory
<1>5. CASE Process
  <2> DEFINE f == Head(inbox)
  <2>1. /\ inbox # <<>> /\ f \in Chunk /\ inbox' = Tail(inbox)
        /\ UNCHANGED <<store, batch, written, again>>
        /\ log' = Append(log, f) \/ log' = log
    BY <1>5, Processed DEF storeHistory
  <2>2. /\ Len(inbox) \in Nat \ {0} /\ Len(Tail(inbox)) = Len(inbox) - 1 /\ f = inbox[1]
        /\ \A i \in 1..(Len(inbox) - 1) : Tail(inbox)[i] = inbox[i + 1]
    BY <1>1, <2>1, Rest
  <2> HIDE DEF f
  <2>3. Genuine(f, written)
    BY <1>2, <2>2 DEF AllGenuine
  <2>4. AllGenuine(Tail(inbox), written)
    <3>1. \A i \in 1..Len(Tail(inbox)) : i + 1 \in 1..Len(inbox) /\ Tail(inbox)[i] = inbox[i + 1]
      BY <2>2
    <3> QED
      BY <1>2, <3>1 DEF AllGenuine
  <2>5. AllGenuine(log', written)
    BY <1>1, <1>2, <2>1, <2>3, GenuineAppend
  <2> QED
    BY <1>2, <2>1, <2>4, <2>5 DEF Numbered
<1>6. ASSUME NEW m \in Members,
             Sampled(m) \/ Popped(m) \/ PoppedUnseen(m) \/ Sent(m) \/ PutBack(m) \/ Dropped(m) \/ Cleared(m)
      PROVE  Numbered'
  <2>0. Hands(store[m], batch[m], m, written, again)
    BY <1>2
  <2>s. Purged(m) => Hands(Spared(m), batch[m], m, written, again) /\ Spared(m) \in Seq(Chunk)
    BY <2>0, SparedOrWiped, HandsWiped
  <2>1. CASE Sampled(m)
    <3>1. PICK r \in Chunk :
            /\ r.node = m /\ r.id = Len(written) + 1
            /\ store' = [store EXCEPT ![m] = Append(Spared(m), r)]
            /\ written' = Append(written, r)
            /\ batch' = batch /\ inbox' = inbox /\ log' = log /\ again' = again /\ Purged(m)
      BY <2>1 DEF Sampled, unchangedHead
    <3>2. Hands(Append(Spared(m), r), batch[m], m, written', again')
      BY <1>1, <2>s, <3>1, HandsSampled
    <3>3. batch' = [batch EXCEPT ![m] = batch[m]]
      BY <1>1, <3>1
    <3>4. \A n \in Members : Hands(store'[n], batch'[n], n, written', again')
      BY <3>1, <3>2, <3>3, HandsElsewhere
    <3>5. AllGenuine(inbox, written') /\ AllGenuine(log, written')
      BY <1>1, <1>2, <3>1, GenuineLonger
    <3>6. \A i \in 1..Len(written') : written'[i].id = i
      BY <1>1, <1>2, <3>1
    <3> QED
      BY <3>1, <3>4, <3>5, <3>6 DEF Numbered
  <2>2. CASE Popped(m)
    <3>1. PICK n \in 1..Len(store[m]) :
            /\ batch[m] = <<>>
            /\ batch' = [batch EXCEPT ![m] = SubSeq(store[m], 1, n)]
            /\ store' = [store EXCEPT ![m] = SubSeq(@, n + 1, Len(@))]
            /\ UNCHANGED <<written, again, inbox, log>>
      BY <2>2 DEF Popped, unchangedHead, storeHistory
    <3>2. Hands(SubSeq(store[m], n + 1, Len(store[m])), SubSeq(store[m], 1, n), m, written, again)
      <4>1. Len(store[m]) \in n..Len(store[m])
        BY <1>1
      <4> QED
        BY <1>1, <2>0, <3>1, <4>1, HandsPopped
    <3>3. \A k \in Members : Hands(store'[k], batch'[k], k, written', again')
      BY <3>1, <3>2, HandsElsewhere
    <3> QED
      BY <1>2, <3>1, <3>3 DEF Numbered
  <2>7. CASE PoppedUnseen(m)
    <3>1. PICK n \in 1..Len(store[m]) :
            /\ batch' = [batch EXCEPT ![m] = SubSeq(store[m], 1, n)]
            /\ \/ again' = TRUE /\ store' = store
               \/ \E k \in n..Len(store[m]) :
                     store' = [store EXCEPT ![m] = SubSeq(@, n + 1, k)] /\ again' = again
      BY <2>7 DEF PoppedUnseen
    <3>2. batch[m] = <<>> /\ UNCHANGED <<written, inbox, log>>
      BY <2>7 DEF PoppedUnseen, unchangedHead
    <3>3. CASE again' = TRUE /\ store' = store
      <4>1. Hands(store[m], SubSeq(store[m], 1, n), m, written, TRUE)
        BY <1>1, <2>0, <3>2, HandsCopied
      <4>2. store' = [store EXCEPT ![m] = store[m]]
        BY <1>1, <3>3
      <4>3. \A k \in Members : Hands(store'[k], batch'[k], k, written', again')
        BY <3>1, <3>2, <3>3, <4>1, <4>2, HandsElsewhere
      <4> QED
        BY <1>2, <3>2, <4>3 DEF Numbered
    <3>4. ASSUME NEW e \in n..Len(store[m]), store' = [store EXCEPT ![m] = SubSeq(@, n + 1, e)], again' = again
          PROVE  Numbered'
      <4>1. Hands(SubSeq(store[m], n + 1, e), SubSeq(store[m], 1, n), m, written, again)
        BY <1>1, <2>0, <3>2, HandsPopped
      <4>2. \A k \in Members : Hands(store'[k], batch'[k], k, written', again')
        BY <3>1, <3>2, <3>4, <4>1, HandsElsewhere
      <4> QED
        BY <1>2, <3>2, <4>2 DEF Numbered
    <3> QED
      BY <3>1, <3>3, <3>4
  <2>3. CASE Sent(m)
    <3>1. /\ batch[m] # <<>> /\ inbox' = Append(inbox, Head(batch[m]))
          /\ UNCHANGED <<store, written, again, table, log>>
          /\ batch' = batch \/ batch' = [batch EXCEPT ![m] = Tail(@)]
      BY <2>3 DEF Sent, storeHistory
    <3>2. Head(batch[m]) = batch[m][1] /\ 1 \in 1..Len(batch[m]) /\ Head(batch[m]) \in Chunk
      BY <1>1, <3>1, Rest, Shorter
    <3>3. AllGenuine(inbox', written)
      <4>1. Genuine(Head(batch[m]), written)
        BY <2>0, <3>2 DEF Hands, AllGenuine
      <4> QED
        BY <1>1, <1>2, <3>1, <3>2, <4>1, GenuineAppend
    <3>4. \A n \in Members : Hands(store'[n], batch'[n], n, written', again')
      <4>1. CASE batch' = batch
        BY <1>2, <3>1, <4>1
      <4>2. CASE batch' = [batch EXCEPT ![m] = Tail(@)]
        <5>1. Hands(store[m], Tail(batch[m]), m, written, again)
          BY <1>1, <2>0, <3>1, HandsTail
        <5>2. store' = [store EXCEPT ![m] = store[m]]
          BY <1>1, <3>1
        <5> QED
          BY <3>1, <4>2, <5>1, <5>2, HandsElsewhere
      <4> QED
        BY <3>1, <4>1, <4>2
    <3> QED
      BY <1>2, <3>1, <3>3, <3>4 DEF Numbered
  <2>4. CASE PutBack(m)
    <3>1. PICK c \in Chunk :
            /\ Same(c, Head(batch[m])) /\ c.seq = Head(batch[m]).seq
            /\ store' = [store EXCEPT ![m] = Append(Spared(m), c)]
      BY <2>4 DEF PutBack
    <3>2. /\ batch[m] # <<>> /\ batch' = [batch EXCEPT ![m] = Tail(@)]
          /\ UNCHANGED <<written, again, inbox, log>> /\ Purged(m)
      BY <2>4 DEF PutBack, unchangedHead
    <3>3. Hands(Append(Spared(m), c), Tail(batch[m]), m, written, again)
      BY <1>1, <2>s, <3>1, <3>2, HandsPutBack
    <3>4. \A n \in Members : Hands(store'[n], batch'[n], n, written', again')
      BY <3>1, <3>2, <3>3, HandsElsewhere
    <3> QED
      BY <1>2, <3>2, <3>4 DEF Numbered
  <2>5. CASE Dropped(m) \/ Cleared(m)
    <3>1. UNCHANGED <<written, again, inbox, log>>
      BY <2>5 DEF Dropped, Cleared, unchangedHead, storeHistory
    <3>2. \E p, b : /\ store' = [store EXCEPT ![m] = p] /\ batch' = [batch EXCEPT ![m] = b]
                    /\ Hands(p, b, m, written, again)
      <4>1. CASE Dropped(m)
        <5>1. PICK b : batch' = [batch EXCEPT ![m] = b] /\ Hands(store[m], b, m, written, again)
          <6>1. CASE batch' = batch
            <7>1. batch' = [batch EXCEPT ![m] = batch[m]]
              BY <1>1, <6>1
            <7> QED
              BY <2>0, <7>1
          <6>2. CASE batch[m] # <<>> /\ batch' = [batch EXCEPT ![m] = Tail(@)]
            <7>1. Hands(store[m], Tail(batch[m]), m, written, again)
              BY <1>1, <2>0, <6>2, HandsTail
            <7> QED
              BY <6>2, <7>1
          <6> QED
            BY <4>1, <6>1, <6>2 DEF Dropped
        <5>2. PICK p : store' = [store EXCEPT ![m] = p] /\ p \in {store[m], <<>>}
          <6>1. store = [store EXCEPT ![m] = store[m]]
            BY <1>1
          <6> QED
            BY <4>1, <6>1 DEF Dropped
        <5>3. Hands(p, b, m, written, again)
          BY <5>1, <5>2, HandsWiped
        <5> QED
          BY <5>1, <5>2, <5>3
      <4>2. CASE Cleared(m)
        <5>1. batch' = [batch EXCEPT ![m] = <<>>] /\ store' = store
          BY <4>2 DEF Cleared
        <5>2. Hands(store[m], <<>>, m, written, again)
          BY <2>0, HandsCleared
        <5>3. store = [store EXCEPT ![m] = store[m]]
          BY <1>1
        <5> QED
          BY <5>1, <5>2, <5>3
      <4> QED
        BY <2>5, <4>1, <4>2
    <3>4. \A n \in Members : Hands(store'[n], batch'[n], n, written', again')
      BY <3>1, <3>2, HandsElsewhere
    <3> QED
      BY <1>2, <3>1, <3>4 DEF Numbered
  <2> QED
    BY <1>6, <2>1, <2>2, <2>3, <2>4, <2>5, <2>7
<1> QED
  BY <1>3, <1>4, <1>5, <1>6, Steps DEF Typed

LEMMA InitNumbered == Init => Numbered
BY DEF Init, Numbered, Hands, AllGenuine, Own, Distinct, Apart

LEMMA NumberedKept == Typed /\ Numbered /\ [Next]_vars => Numbered'
<1> SUFFICES ASSUME Typed, Numbered, [Next]_vars PROVE Numbered'
  OBVIOUS
<1>1. CASE UNCHANGED vars
  BY <1>1 DEF Numbered, vars, memberVars, headVars, storeHistory
<1> QED
  BY <1>1, NumberedStays

LEMMA HandsHeldOnce ==
    ASSUME NEW p \in Seq(Chunk), NEW q \in Seq(Chunk), NEW m, NEW w, Hands(p, q, m, w, FALSE)
    PROVE  \A i, j \in 1..Len(p \o q) : Same((p \o q)[i], (p \o q)[j]) => i = j
<1>1. /\ Len(p) \in Nat /\ Len(q) \in Nat /\ Len(p \o q) = Len(p) + Len(q)
      /\ \A i \in 1..Len(p \o q) : (p \o q)[i] = IF i <= Len(p) THEN p[i] ELSE q[i - Len(p)]
  OBVIOUS
<1> DEFINE u == p \o q
<1> HIDE DEF u
<1>2. SUFFICES ASSUME NEW i \in 1..Len(u), NEW j \in 1..Len(u), u[i].id = u[j].id PROVE i = j
  BY DEF u, Same
<1>3. Distinct(p) /\ Distinct(q) /\ Apart(p, q)
  BY DEF Hands
<1>4. CASE i <= Len(p) /\ j <= Len(p)
  BY <1>1, <1>2, <1>3, <1>4 DEF u, Distinct
<1>5. CASE ~(i <= Len(p)) /\ ~(j <= Len(p))
  <2>1. i - Len(p) \in 1..Len(q) /\ j - Len(p) \in 1..Len(q) /\ u[i] = q[i - Len(p)] /\ u[j] = q[j - Len(p)]
    BY <1>1, <1>5 DEF u
  <2>2. i - Len(p) = j - Len(p)
    BY <1>2, <1>3, <2>1 DEF Distinct
  <2> QED
    BY <1>1, <2>2 DEF u
<1>6. CASE i <= Len(p) /\ ~(j <= Len(p))
  <2>1. i \in 1..Len(p) /\ j - Len(p) \in 1..Len(q) /\ u[i] = p[i] /\ u[j] = q[j - Len(p)]
    BY <1>1, <1>6 DEF u
  <2> QED
    BY <1>2, <1>3, <2>1 DEF Apart
<1>7. CASE ~(i <= Len(p)) /\ j <= Len(p)
  <2>1. j \in 1..Len(p) /\ i - Len(p) \in 1..Len(q) /\ u[j] = p[j] /\ u[i] = q[i - Len(p)]
    BY <1>1, <1>7 DEF u
  <2> QED
    BY <1>2, <1>3, <2>1 DEF Apart
<1> QED
  BY <1>4, <1>5, <1>6, <1>7

\* However the member's tasks, resets, purges and failing writes interleave, its store and
\* the batch that is out never hold two copies of one record between them, unless the file
\* system could not delete what a pop had handed out (state_machine.c:1022-1139).
THEOREM NoSecondCopy == Spec => []HeldOnce
<1>1. Spec => [](Typed /\ Numbered)
  BY InitTyped, NextTyped, InitNumbered, NumberedKept, PTL DEF Spec
<1>2. Typed /\ Numbered => HeldOnce
  <2> SUFFICES ASSUME Typed, Numbered, ~again, NEW m \in Members
      PROVE \A i, j \in 1..Len(store[m] \o batch[m]) :
                Same((store[m] \o batch[m])[i], (store[m] \o batch[m])[j]) => i = j
    BY DEF HeldOnce
  <2>1. store[m] \in Seq(Chunk) /\ batch[m] \in Seq(Chunk) /\ Hands(store[m], batch[m], m, written, again)
    BY DEF Typed, TypeOK, Numbered
  <2>2. Hands(store[m], batch[m], m, written, FALSE)
    BY <2>1 DEF Hands
  <2> QED
    BY <2>1, <2>2, HandsHeldOnce
<1> QED
  BY <1>1, <1>2, PTL

----------------------------------------------------------------------------
(* The records on their way to the head's store.                             *)

LEMMA HeadUpKept == Typed /\ HeadUp /\ [Next]_vars => HeadUp'
<1> SUFFICES ASSUME Typed, HeadUp, [Next]_vars, headEvents' = 0 PROVE isHead' /\ uav' = "none"
  BY DEF HeadUp
<1>1. CASE UNCHANGED vars
  BY <1>1 DEF vars, headVars, boundVars, HeadUp
<1>2. CASE Next
  <2>1. headEvents = 0 /\ headEvents' = headEvents
    BY <1>2, CountersGrow DEF Typed, Counted
  <2>2. isHead /\ uav = "none" /\ headEvents' # headEvents + 1
    BY <2>1 DEF HeadUp
  <2>3. ~(LoseRole \/ Trigger \/ HeadRestart \/ ProcessFails \/ RegainRole \/ Onboarding)
    BY <2>2 DEF LoseRole, Trigger, HeadRestart, ProcessFails, RegainRole, Onboarding, Deinit, Reinit, Resume, HeadEvent
  <2>4. ASSUME NEW m \in Members, Sampling(m) \/ Drain(m) \/ Cutoff(m) \/ BecomeMember(m) \/ LeaveCluster(m)
                                   \/ Restart(m) \/ Forgets(m)
        PROVE  UNCHANGED <<isHead, uav>>
    BY <2>4 DEF Sampling, LoopTop, StoreSample, Drain, Pop, PopFailsUnseen, TakeBatch, SendAcked, SendUnacked, SendLost, Requeue,
       PutBackFirst, Cutoff,
       BecomeMember, LeaveCluster, Restart, Forgets, unchangedBySampling, headVars
  <2>5. Process => UNCHANGED <<isHead, uav>>
    BY DEF Process
  <2> QED
    BY <1>2, <2>2, <2>3, <2>4, <2>5 DEF Next
<1> QED
  BY <1>1, <1>2

\* The filter and the counters say the same before a step that leaves them undisturbed.
LEMMA UndisturbedBefore ==
    ASSUME Typed, HeadUp, Next, Undisturbed'
    PROVE  Undisturbed /\ isHead /\ ~Interrupted /\ headEvents' = headEvents /\ writeFails' = writeFails
<1>1. headEvents' = headEvents /\ writeFails' = writeFails /\ headEvents = 0 /\ writeFails = 0
  BY CountersGrow DEF Typed, Counted, Undisturbed
<1> QED
  BY <1>1 DEF HeadUp, Undisturbed, Interrupted

\* While nothing disturbs the filter, a step leaves it and the log alone or passes a
\* frame through both.
LEMMA FilterSteps ==
    ASSUME Typed, HeadUp, Next, Undisturbed'
    PROVE  \/ UNCHANGED <<table, log>>
           \/ \E f \in Chunk :
                /\ inbox # <<>> /\ f = Head(inbox) /\ f.node \in Members /\ f.seq \in Nat
                /\ table' = After(table, f.node, f.seq, 0)
                /\ IF ShouldStore(table, f.node, f.seq) THEN log' = Append(log, f) ELSE log' = log
<1>1. isHead /\ ~Interrupted /\ writeFails' = writeFails /\ writeFails \in Nat
  BY UndisturbedBefore DEF Typed, Counted
<1>2. CASE Process
  <2>1. /\ inbox # <<>> /\ Head(inbox) \in Chunk /\ Head(inbox).node \in Members /\ Head(inbox).seq \in Nat
        /\ table' = After(table, Head(inbox).node, Head(inbox).seq, 0)
        /\ IF ShouldStore(table, Head(inbox).node, Head(inbox).seq)
           THEN log' = Append(log, Head(inbox)) ELSE log' = log
    BY <1>1, <1>2, Processed
  <2> QED
    BY <2>1
<1>3. ASSUME NEW m \in Members,
             Sampled(m) \/ Popped(m) \/ PoppedUnseen(m) \/ Sent(m) \/ PutBack(m) \/ Dropped(m) \/ Cleared(m)
      PROVE  UNCHANGED <<table, log>>
  BY <1>3 DEF Sampled, Popped, PoppedUnseen, Sent, PutBack, Dropped, Cleared, unchangedHead
<1> QED
  BY <1>1, <1>2, <1>3, Steps DEF Typed, Idle, unchangedHead

\* While nothing disturbs it, the head stores what its filter does not refuse.
LEMMA RingsStay ==
    ASSUME Typed, HeadUp, RingsInLog, Next
    PROVE  RingsInLog'
<1> SUFFICES ASSUME Undisturbed', NEW y, NEW x, Holds(table', y, x) PROVE Stored(log', y, x)
  BY DEF RingsInLog
<1>1. Holds(table, y, x) => Stored(log, y, x)
  BY UndisturbedBefore DEF RingsInLog
<1>2. CASE UNCHANGED <<table, log>>
  BY <1>1, <1>2
<1>3. ASSUME NEW f \in Chunk, f.node \in Members, f.seq \in Nat,
             table' = After(table, f.node, f.seq, 0),
             IF ShouldStore(table, f.node, f.seq) THEN log' = Append(log, f) ELSE log' = log
      PROVE  Stored(log', y, x)
  <2>1. Table(table, Members, Nat, {}) /\ log \in Seq(Chunk) /\ 0 \in Nat
    BY DEF Typed, FilterTyped, TypeOK
  <2>2. CASE Holds(table, y, x)
    <3>1. \A j \in 1..Len(log) : j \in 1..Len(log') /\ log'[j] = log[j]
      BY <1>3, <2>1
    <3> QED
      BY <1>1, <2>2, <3>1 DEF Stored
  <2>3. CASE ShouldStore(table, f.node, f.seq) /\ y = f.node /\ x = f.seq
    <3>1. Len(log) + 1 \in 1..Len(log') /\ log'[Len(log) + 1] = f
      BY <1>3, <2>1, <2>3
    <3> QED
      BY <2>3, <3>1 DEF Stored
  <2> QED
    BY <1>3, <2>1, <2>2, <2>3, RingGains
<1> QED
  BY <1>2, <1>3, FilterSteps

LEMMA AmongAppend ==
    \A q \in Seq(Chunk) : \A c \in Chunk : \A r :
        (Among(q, r) => Among(Append(q, c), r)) /\ (c.id = r.id => Among(Append(q, c), r))
<1> TAKE q \in Seq(Chunk)
<1> TAKE c \in Chunk
<1> TAKE r
<1>1. /\ \A i \in 1..Len(q) : i \in 1..Len(Append(q, c)) /\ Append(q, c)[i] = q[i]
      /\ Len(q) + 1 \in 1..Len(Append(q, c)) /\ Append(q, c)[Len(q) + 1] = c
  OBVIOUS
<1> QED
  BY <1>1 DEF Among

LEMMA NumbersAppend ==
    \A q \in Seq(Chunk) : \A c \in Chunk : \A r :
        (Numbers(q, r) => Numbers(Append(q, c), r)) /\ (SameNumber(c, r) => Numbers(Append(q, c), r))
<1> TAKE q \in Seq(Chunk)
<1> TAKE c \in Chunk
<1> TAKE r
<1>1. /\ \A i \in 1..Len(q) : i \in 1..Len(Append(q, c)) /\ Append(q, c)[i] = q[i]
      /\ Len(q) + 1 \in 1..Len(Append(q, c)) /\ Append(q, c)[Len(q) + 1] = c
  OBVIOUS
<1> QED
  BY <1>1 DEF Numbers

\* What is not the first of a queue is in the rest of it.
LEMMA AmongRest ==
    \A q \in Seq(Chunk) : \A r :
        q # <<>> /\ Among(q, r) => Head(q).id = r.id \/ Among(Tail(q), r)
<1> TAKE q \in Seq(Chunk)
<1> TAKE r
<1> HAVE q # <<>> /\ Among(q, r)
<1>1. /\ Len(q) \in Nat \ {0} /\ Len(Tail(q)) = Len(q) - 1 /\ Head(q) = q[1]
      /\ \A i \in 1..(Len(q) - 1) : Tail(q)[i] = q[i + 1]
  BY Rest
<1>2. PICK i \in 1..Len(q) : q[i].id = r.id
  BY DEF Among
<1>3. CASE i = 1
  BY <1>1, <1>2, <1>3
<1>4. CASE i # 1
  <2>1. i - 1 \in 1..Len(Tail(q)) /\ Tail(q)[i - 1] = q[i]
    BY <1>1, <1>2, <1>4
  <2> QED
    BY <1>2, <2>1 DEF Among
<1> QED
  BY <1>3, <1>4

LEMMA NumbersRest ==
    \A q \in Seq(Chunk) : \A r :
        q # <<>> /\ Numbers(q, r) => SameNumber(Head(q), r) \/ Numbers(Tail(q), r)
<1> TAKE q \in Seq(Chunk)
<1> TAKE r
<1> HAVE q # <<>> /\ Numbers(q, r)
<1>1. /\ Len(q) \in Nat \ {0} /\ Len(Tail(q)) = Len(q) - 1 /\ Head(q) = q[1]
      /\ \A i \in 1..(Len(q) - 1) : Tail(q)[i] = q[i + 1]
  BY Rest
<1>2. PICK i \in 1..Len(q) : SameNumber(q[i], r)
  BY DEF Numbers
<1>3. CASE i = 1
  BY <1>1, <1>2, <1>3
<1>4. CASE i # 1
  <2>1. i - 1 \in 1..Len(Tail(q)) /\ Tail(q)[i - 1] = q[i]
    BY <1>1, <1>2, <1>4
  <2> QED
    BY <1>2, <2>1 DEF Numbers
<1> QED
  BY <1>3, <1>4

LEMMA AmongPieces ==
    \A q \in Seq(Chunk) : \A n \in 1..Len(q) : \A r :
        Among(q, r) => Among(SubSeq(q, n + 1, Len(q)), r) \/ Among(SubSeq(q, 1, n), r)
<1> TAKE q \in Seq(Chunk)
<1> TAKE n \in 1..Len(q)
<1> TAKE r
<1> HAVE Among(q, r)
<1> DEFINE a == SubSeq(q, 1, n)
           z == SubSeq(q, n + 1, Len(q))
<1>1. /\ Len(a) = n /\ Len(z) = Len(q) - n /\ Len(q) \in Nat
      /\ \A i \in 1..n : a[i] = q[i]
      /\ \A i \in 1..(Len(q) - n) : z[i] = q[n + i]
  BY Pieces
<1> HIDE DEF a, z
<1>2. PICK i \in 1..Len(q) : q[i].id = r.id
  BY DEF Among
<1>3. CASE i <= n
  <2>1. i \in 1..Len(a) /\ a[i] = q[i]
    BY <1>1, <1>3
  <2> QED
    BY <1>2, <2>1 DEF Among, a
<1>4. CASE ~(i <= n)
  <2>1. i - n \in 1..Len(z) /\ z[i - n] = q[i]
    BY <1>1, <1>4
  <2> QED
    BY <1>2, <2>1 DEF Among, z
<1> QED
  BY <1>3, <1>4

\* Every step that is excused by nothing leaves each record where it can be found, and
\* a record it writes is found.
LEMMA KeptStays ==
    ASSUME Typed, HeadUp, Numbered, RingsInLog, Kept, Next
    PROVE  Kept'
<1> SUFFICES ASSUME ~Excused', NEW w \in 1..Len(written')
             PROVE  w \in wiped' \/ Reached(written'[w], store'[written'[w].node], batch'[written'[w].node], inbox', log')
  BY DEF Kept
<1>1. /\ writeFails' = writeFails /\ restarts' = restarts /\ headEvents' = headEvents
      /\ writeFails = 0 /\ restarts = 0 /\ headEvents = 0
  BY CountersGrow DEF Typed, Counted, Excused
<1>2. /\ ~Excused /\ Undisturbed /\ isHead /\ ~Interrupted
      /\ \A m \in Members : ~Dropped(m) /\ ~Cleared(m) /\ ~PoppedUnseen(m)
  BY <1>1 DEF Excused, Undisturbed, HeadUp, Interrupted, Dropped, Cleared, PoppedUnseen
<1>3. \A v \in 1..Len(written) : v \in wiped \/ Reached(written[v], store[written[v].node], batch[written[v].node], inbox, log)
  BY <1>2 DEF Kept
<1>4. /\ store \in [Members -> Seq(Chunk)] /\ batch \in [Members -> Seq(Chunk)]
      /\ inbox \in Seq(Chunk) /\ log \in Seq(Chunk) /\ written \in Seq(Chunk)
      /\ \A m \in Members : store[m] \in Seq(Chunk) /\ batch[m] \in Seq(Chunk)
      /\ \A v \in 1..Len(written) : written[v].node \in Members /\ written[v].id = v
  <2>1. \A c \in Chunk : c.node \in Members
    BY DEF Chunk
  <2> QED
    BY <2>1 DEF Typed, TypeOK, Numbered
<1>5. CASE Idle
  BY <1>3, <1>5 DEF Idle, unchangedHead, storeHistory
<1>6. CASE Process
  <2> DEFINE f == Head(inbox)
             r == written[w]
  <2>1. /\ inbox # <<>> /\ f \in Chunk /\ f.node \in Members /\ f.seq \in Nat
        /\ inbox' = Tail(inbox) /\ UNCHANGED <<store, batch, storeHistory>>
        /\ IF ShouldStore(table, f.node, f.seq) THEN log' = Append(log, f) ELSE log' = log
    BY <1>1, <1>2, <1>6, Processed
  <2>2. w \in wiped \/ Reached(r, store[r.node], batch[r.node], inbox, log)
    BY <1>3, <2>1 DEF storeHistory
  <2>3. \A x : Numbers(log, x) => Numbers(log', x)
    BY <1>4, <2>1, NumbersAppend
  <2>4. ASSUME SameNumber(f, r) PROVE Numbers(log', r)
    <3>1. CASE ShouldStore(table, f.node, f.seq)
      <4>1. log' = Append(log, f) /\ f \in Chunk
        BY <2>1, <3>1
      <4> HIDE DEF f, r
      <4> QED
        BY <1>4, <2>4, <4>1, NumbersAppend
    <3>2. CASE ~ShouldStore(table, f.node, f.seq)
      <4>1. Table(table, Members, Nat, {})
        BY DEF Typed, FilterTyped
      <4>4. Stored(log, f.node, f.seq)
        BY <1>2, <2>1, <3>2, <4>1, RefusedIsHeld DEF RingsInLog
      <4>5. Numbers(log, r)
        BY <2>4, <4>4 DEF Stored, Numbers, SameNumber
      <4> QED
        BY <2>3, <4>5
    <3> QED
      BY <3>1, <3>2
  <2>5. Numbers(inbox, r) => SameNumber(f, r) \/ Numbers(inbox', r)
    BY <1>4, <2>1, NumbersRest
  <2>6. w \in wiped \/ Reached(r, store[r.node], batch[r.node], inbox', log')
    BY <2>2, <2>3, <2>4, <2>5 DEF Reached
  <2> QED
    BY <2>1, <2>6 DEF storeHistory
<1>7. ASSUME NEW m \in Members, Sampled(m) \/ Popped(m) \/ Sent(m) \/ PutBack(m)
      PROVE  w \in wiped' \/ Reached(written'[w], store'[written'[w].node], batch'[written'[w].node], inbox', log')
  <2>p. wiped \subseteq wiped' /\ (Purged(m) => \A r : Among(store[m], r) => Among(Spared(m), r) \/ r.id \in wiped')
    <3>1. wiped \subseteq wiped'
      BY <1>7 DEF Sampled, Popped, Sent, PutBack, Purged, storeHistory
    <3>2. ASSUME Purged(m), NEW r, Among(store[m], r), Spared(m) # store[m] PROVE r.id \in wiped'
      <4>1. wiped' = wiped \union {c.id : c \in Range(store[m])}
        BY <3>2, SparedOrWiped
      <4>2. PICK k \in 1..Len(store[m]) : store[m][k].id = r.id
        BY <3>2 DEF Among
      <4>3. store[m][k] \in Range(store[m])
        BY <1>4, <4>2 DEF Range
      <4> QED
        BY <4>1, <4>2, <4>3
    <3> QED
      BY <3>1, <3>2
  <2>q. Purged(m) => Spared(m) \in Seq(Chunk)
    BY SparedOrWiped
  <2>1. CASE Sampled(m)
    <3>1. PICK c \in Chunk :
            /\ c.node = m /\ c.id = Len(written) + 1
            /\ store' = [store EXCEPT ![m] = Append(Spared(m), c)]
            /\ written' = Append(written, c)
            /\ batch' = batch /\ inbox' = inbox /\ log' = log /\ Purged(m)
      BY <2>1 DEF Sampled, unchangedHead
    <3>2. store'[m] = Append(Spared(m), c) /\ \A k \in Members : k # m => store'[k] = store[k]
      BY <1>4, <3>1
    <3>3. CASE w = Len(written) + 1
      <4>1. written'[w] = c /\ Among(store'[m], c)
        BY <1>4, <2>q, <3>1, <3>2, <3>3, AmongAppend
      <4> QED
        BY <3>1, <4>1 DEF Reached
    <3>4. CASE w # Len(written) + 1
      <4>1. w \in 1..Len(written) /\ written'[w] = written[w]
        BY <1>4, <3>1, <3>4
      <4> DEFINE r == written[w]
      <4>2. /\ r.node \in Members /\ r.id = w
            /\ w \in wiped \/ Reached(r, store[r.node], batch[r.node], inbox, log)
        BY <1>3, <1>4, <4>1
      <4> HIDE DEF r
      <4>3. Among(store[r.node], r) => Among(store'[r.node], r) \/ w \in wiped'
        <5>1. Among(store[m], r) => Among(store'[m], r) \/ w \in wiped'
          BY <2>p, <2>q, <3>1, <3>2, <4>2, AmongAppend
        <5> QED
          BY <3>2, <4>2, <5>1
      <4>4. w \in wiped' \/ Reached(r, store'[r.node], batch'[r.node], inbox', log')
        BY <2>p, <3>1, <4>2, <4>3 DEF Reached
      <4> QED
        BY <4>1, <4>4 DEF r
    <3> QED
      BY <3>3, <3>4
  <2>2. CASE Popped(m) \/ Sent(m) \/ PutBack(m)
    <3>1. written' = written /\ log' = log /\ w \in 1..Len(written)
      BY <2>2 DEF Popped, Sent, PutBack, unchangedHead, storeHistory
    <3> DEFINE r == written[w]
    <3>2. /\ r.node \in Members /\ r.id = w /\ r = written[w]
          /\ w \in wiped \/ Reached(r, store[r.node], batch[r.node], inbox, log)
      BY <1>3, <1>4, <3>1
    <3> HIDE DEF r
    <3>3. /\ \A k \in Members : k # m => store'[k] = store[k] /\ batch'[k] = batch[k]
          /\ Numbers(inbox, r) => Numbers(inbox', r)
      <4>1. CASE Popped(m) \/ PutBack(m)
        BY <1>4, <4>1 DEF Popped, PutBack, unchangedHead
      <4>2. CASE Sent(m)
        <5>1. /\ batch[m] # <<>> /\ inbox' = Append(inbox, Head(batch[m])) /\ store' = store
              /\ batch' = batch \/ batch' = [batch EXCEPT ![m] = Tail(@)]
          BY <4>2 DEF Sent
        <5> QED
          BY <1>4, <5>1, Shorter, NumbersAppend
      <4> QED
        BY <2>2, <4>1, <4>2
    <3>4. CASE r.node # m
      BY <2>p, <3>1, <3>2, <3>3, <3>4 DEF Reached, r
    <3>5. CASE r.node = m
      <4>1. SUFFICES ASSUME Among(store[m], r) \/ Among(batch[m], r)
                     PROVE  w \in wiped' \/ Among(store'[m], r) \/ Among(batch'[m], r) \/ Numbers(inbox', r)
        BY <2>p, <3>1, <3>2, <3>3, <3>5 DEF Reached, r
      <4>2. CASE Popped(m)
        <5>1. PICK n \in 1..Len(store[m]) :
                /\ batch[m] = <<>>
                /\ batch' = [batch EXCEPT ![m] = SubSeq(store[m], 1, n)]
                /\ store' = [store EXCEPT ![m] = SubSeq(@, n + 1, Len(@))]
          BY <4>2 DEF Popped
        <5>2. /\ batch'[m] = SubSeq(store[m], 1, n)
              /\ store'[m] = SubSeq(store[m], n + 1, Len(store[m]))
          BY <1>4, <5>1
        <5>3. ~Among(batch[m], r)
          BY <5>1 DEF Among
        <5> QED
          BY <1>4, <4>1, <5>2, <5>3, AmongPieces
      <4>3. CASE Sent(m)
        <5>1. /\ batch[m] # <<>> /\ inbox' = Append(inbox, Head(batch[m])) /\ store' = store
              /\ batch' = batch \/ batch' = [batch EXCEPT ![m] = Tail(@)]
          BY <4>3 DEF Sent
        <5>2. batch'[m] = batch[m] \/ batch'[m] = Tail(batch[m])
          BY <1>4, <5>1
        <5>3. ASSUME Head(batch[m]).id = r.id PROVE Numbers(inbox', r)
          <6>1. Head(batch[m]) = batch[m][1] /\ 1 \in 1..Len(batch[m]) /\ Head(batch[m]) \in Chunk
            BY <1>4, <5>1, Rest, Shorter
          <6>2. Genuine(Head(batch[m]), written)
            BY <6>1 DEF Numbered, Hands, AllGenuine
          <6>3. SameNumber(Head(batch[m]), r)
            BY <3>2, <5>3, <6>2 DEF Genuine
          <6> QED
            BY <1>4, <5>1, <6>1, <6>3, NumbersAppend
        <5>4. Among(batch[m], r) => Head(batch[m]).id = r.id \/ Among(Tail(batch[m]), r)
          BY <1>4, <5>1, AmongRest
        <5> QED
          BY <4>1, <5>1, <5>2, <5>3, <5>4
      <4>4. CASE PutBack(m)
        <5>1. PICK c \in Chunk :
                /\ Same(c, Head(batch[m])) /\ store' = [store EXCEPT ![m] = Append(Spared(m), c)]
          BY <4>4 DEF PutBack
        <5>2. batch[m] # <<>> /\ batch' = [batch EXCEPT ![m] = Tail(@)] /\ Purged(m)
          BY <4>4 DEF PutBack
        <5>3. store'[m] = Append(Spared(m), c) /\ batch'[m] = Tail(batch[m]) /\ c.id = Head(batch[m]).id
          BY <1>4, <5>1, <5>2 DEF Same
        <5>4. Among(batch[m], r) => Head(batch[m]).id = r.id \/ Among(Tail(batch[m]), r)
          BY <1>4, <5>2, AmongRest
        <5> QED
          BY <2>p, <2>q, <3>2, <4>1, <5>2, <5>3, <5>4, AmongAppend
      <4> QED
        BY <2>2, <4>2, <4>3, <4>4
    <3> QED
      BY <3>4, <3>5
  <2> QED
    BY <1>7, <2>1, <2>2
<1> QED
  BY <1>2, <1>5, <1>6, <1>7, Steps DEF Typed

OnTheWay == Typed /\ HeadUp /\ Numbered /\ RingsInLog /\ Kept

LEMMA InitOnTheWay == Init => OnTheWay
<1> SUFFICES ASSUME Init PROVE OnTheWay
  OBVIOUS
<1>1. HeadUp /\ RingsInLog /\ Kept
  BY DEF Init, HeadUp, RingsInLog, Kept, EmptyTable, Holds
<1> QED
  BY <1>1, InitTyped, InitNumbered DEF OnTheWay

LEMMA NextOnTheWay == OnTheWay /\ [Next]_vars => OnTheWay'
<1> SUFFICES ASSUME OnTheWay, [Next]_vars PROVE OnTheWay'
  OBVIOUS
<1>1. Typed' /\ HeadUp' /\ Numbered'
  BY NextTyped, HeadUpKept, NumberedKept DEF OnTheWay
<1>2. CASE Next
  BY <1>1, <1>2, RingsStay, KeptStays DEF OnTheWay
<1>3. CASE UNCHANGED vars
  BY <1>1, <1>3 DEF OnTheWay, RingsInLog, Undisturbed, Kept, Excused, vars, memberVars, headVars, boundVars, storeHistory
<1> QED
  BY <1>2, <1>3

LEMMA InConcat ==
    \A p, q \in Seq(Chunk) :
        /\ \A i \in 1..Len(p) : p[i] \in Range(p \o q)
        /\ \A i \in 1..Len(q) : q[i] \in Range(p \o q)
<1> TAKE p, q \in Seq(Chunk)
<1>1. /\ DOMAIN (p \o q) = 1..(Len(p) + Len(q)) /\ Len(p) \in Nat /\ Len(q) \in Nat
      /\ \A i \in 1..Len(p) : (p \o q)[i] = p[i]
      /\ \A i \in 1..Len(q) : (p \o q)[Len(p) + i] = q[i]
  OBVIOUS
<1> DEFINE u == p \o q
<1> HIDE DEF u
<1>2. \A i \in 1..Len(p) : i \in DOMAIN u /\ u[i] = p[i]
  BY <1>1 DEF u
<1>3. \A i \in 1..Len(q) : Len(p) + i \in DOMAIN u /\ u[Len(p) + i] = q[i]
  BY <1>1 DEF u
<1>4. \A i \in 1..Len(p) : p[i] \in Range(u)
  BY <1>2 DEF Range
<1>5. \A i \in 1..Len(q) : q[i] \in Range(u)
  BY <1>3 DEF Range
<1> QED
  BY <1>4, <1>5 DEF u

\* A record that was written is in its member's store or batch, or it is on its way
\* through the head or stored there, whatever is lost on the air, or the member's own
\* purge of a nearly full store has wiped it; unless a call of a store failed, a member
\* was reset, or the head was reset, changed its role, onboarded a UAV or had no memory
\* for a frame (state_machine.c:1022-1139, storage_manager.c:109-150).
THEOREM NothingLost == Spec => []Lossless
<1>1. Spec => []OnTheWay
  BY InitOnTheWay, NextOnTheWay, PTL DEF Spec
<1>2. OnTheWay => Lossless
  <2> SUFFICES ASSUME OnTheWay, ~Excused, NEW w \in 1..Len(written)
               PROVE  Arrived(written[w]) \/ w \in wiped \/ \E c \in HeldBy(written[w].node) : Same(c, written[w])
    BY DEF Lossless
  <2> DEFINE r == written[w]
             m == r.node
  <2>1. r \in Chunk /\ m \in Members /\ inbox \in Seq(Chunk) /\ log \in Seq(Chunk)
    <3>1. written \in Seq(Chunk) /\ inbox \in Seq(Chunk) /\ log \in Seq(Chunk)
      BY DEF OnTheWay, Typed, TypeOK
    <3>2. r \in Chunk
      BY <3>1
    <3>3. \A c \in Chunk : c.node \in Members
      BY DEF Chunk
    <3> QED
      BY <3>1, <3>2, <3>3
  <2>2. store[m] \in Seq(Chunk) /\ batch[m] \in Seq(Chunk) /\ Hands(store[m], batch[m], m, written, again)
    BY <2>1 DEF OnTheWay, Typed, TypeOK, Numbered
  <2>3. w \in wiped \/ Reached(r, store[m], batch[m], inbox, log)
    BY DEF OnTheWay, Kept
  <2>4. r.node = m
    OBVIOUS
  <2> HIDE DEF r, m
  <2>5. CASE Among(store[m], r)
    <3>1. PICK i \in 1..Len(store[m]) : store[m][i].id = r.id
      BY <2>5 DEF Among
    <3>2. store[m][i] \in HeldBy(m) /\ store[m][i].node = m
      BY <2>2, InConcat DEF HeldBy, Hands, Own
    <3> QED
      BY <2>4, <3>1, <3>2 DEF Same, r, m
  <2>6. CASE Among(batch[m], r)
    <3>1. PICK i \in 1..Len(batch[m]) : batch[m][i].id = r.id
      BY <2>6 DEF Among
    <3>2. batch[m][i] \in HeldBy(m) /\ batch[m][i].node = m
      BY <2>2, InConcat DEF HeldBy, Hands, Own
    <3> QED
      BY <2>4, <3>1, <3>2 DEF Same, r, m
  <2>7. CASE Numbers(inbox, r) \/ Numbers(log, r)
    <3>1. Arrived(r)
      BY <2>1, <2>7, InConcat DEF Numbers, Arrived, AtHead
    <3> QED
      BY <3>1 DEF r
  <2> QED
    BY <2>3, <2>5, <2>6, <2>7 DEF Reached
<1> QED
  BY <1>1, <1>2, PTL

----------------------------------------------------------------------------
(* Copies in the head's store are far apart.                                 *)

LEMMA LaterCounts ==
    \A q \in Seq(Chunk) : \A i \in 1..Len(q) :
        IsFiniteSet(Later(q, i)) /\ Cardinality(Later(q, i)) \in Nat
<1> TAKE q \in Seq(Chunk)
<1> TAKE i \in 1..Len(q)
<1>1. IsFiniteSet((i + 1)..Len(q))
  BY FS_Interval
<1>2. Later(q, i) \in SUBSET ((i + 1)..Len(q))
  BY DEF Later
<1> QED
  BY <1>1, <1>2, FS_Subset, FS_CardinalityType

LEMMA LaterAppend ==
    ASSUME NEW q \in Seq(Chunk), NEW c \in Chunk
    PROVE  /\ Cardinality(Later(Append(q, c), Len(q) + 1)) = 0
           /\ \A i \in 1..Len(q) :
                Cardinality(Later(Append(q, c), i)) =
                    IF c.node = q[i].node THEN Cardinality(Later(q, i)) + 1 ELSE Cardinality(Later(q, i))
<1> DEFINE u == Append(q, c)
<1>1. /\ Len(q) \in Nat /\ Len(u) = Len(q) + 1 /\ u[Len(q) + 1] = c
      /\ \A i \in 1..Len(q) : u[i] = q[i]
  OBVIOUS
<1> HIDE DEF u
<1>2. Later(u, Len(q) + 1) = {}
  BY <1>1 DEF Later
<1>3. ASSUME NEW i \in 1..Len(q)
      PROVE  Cardinality(Later(u, i)) =
                IF c.node = q[i].node THEN Cardinality(Later(q, i)) + 1 ELSE Cardinality(Later(q, i))
  <2>1. IsFiniteSet(Later(q, i)) /\ Cardinality(Later(q, i)) \in Nat
    BY LaterCounts
  <2>2. Len(q) + 1 \notin Later(q, i)
    BY <1>1 DEF Later
  <2>3. CASE c.node = q[i].node
    <3>1. Later(u, i) = Later(q, i) \cup {Len(q) + 1}
      BY <1>1, <2>3 DEF Later
    <3> QED
      BY <2>1, <2>2, <2>3, <3>1, FS_AddElement
  <2>4. CASE c.node # q[i].node
    <3>1. Later(u, i) = Later(q, i)
      BY <1>1, <2>4 DEF Later
    <3> QED
      BY <2>4, <3>1
  <2> QED
    BY <2>3, <2>4
<1> QED
  BY <1>2, <1>3, FS_EmptySet DEF u

LEMMA RecentStays ==
    ASSUME FewSenders, Typed, HeadUp, Recent, Next
    PROVE  Recent'
<1> SUFFICES ASSUME Undisturbed', NEW i \in 1..Len(log'), Cardinality(Later(log', i)) < History
             PROVE  InRing(table', log'[i].node, log'[i].seq, Cardinality(Later(log', i)))
  BY DEF Recent
<1>1. \A l \in 1..Len(log) : Cardinality(Later(log, l)) < History =>
          InRing(table, log[l].node, log[l].seq, Cardinality(Later(log, l)))
  BY UndisturbedBefore DEF Recent
<1>2. CASE UNCHANGED <<table, log>>
  BY <1>1, <1>2
<1>3. ASSUME NEW f \in Chunk, f.node \in Members, f.seq \in Nat,
             table' = After(table, f.node, f.seq, 0),
             IF ShouldStore(table, f.node, f.seq) THEN log' = Append(log, f) ELSE log' = log
      PROVE  InRing(table', log'[i].node, log'[i].seq, Cardinality(Later(log', i)))
  <2> DEFINE n == f.node
             s == f.seq
  <2>0. n \in Members /\ s \in Nat /\ n = f.node /\ s = f.seq
    BY <1>3
  <2> HIDE DEF n, s
  <2>1. Table(table, Members, Nat, {}) /\ log \in Seq(Chunk) /\ 0 \in Nat /\ table' = After(table, n, s, 0)
    BY <1>3, <2>0 DEF Typed, FilterTyped, TypeOK
  <2>2. CASE ~ShouldStore(table, n, s)
    <3>1. \A y, x, a : InRing(table, y, x, a) => InRing(table', y, x, a)
      BY <2>0, <2>1, <2>2, RingStep
    <3>2. log' = log
      BY <1>3, <2>0, <2>2
    <3> QED
      BY <1>1, <3>1, <3>2
  <2>3. CASE ShouldStore(table, n, s)
    <3>1. /\ InRing(table', n, s, 0)
          /\ \A y, x, a : y # n /\ InRing(table, y, x, a) => InRing(table', y, x, a)
          /\ \A x : \A a \in Nat : a + 1 < History /\ InRing(table, n, x, a) => InRing(table', n, x, a + 1)
      <4>1. \A y : ~Evicts(table, n, y)
        <5>1. ~Known(table, n) => Len(table) < MaxNodes
          BY <2>0, <2>1, RoomForAll DEF FewSenders
        <5> QED
          BY <5>1, TableAssumption DEF Evicts
      <4> QED
        BY <2>0, <2>1, <2>3, <4>1, RingStep
    <3>2. log' = Append(log, f) /\ Len(log) \in Nat /\ i \in 1..(Len(log) + 1)
      BY <1>3, <2>0, <2>1, <2>3
    <3>3. CASE i = Len(log) + 1
      <4>1. log'[i] = f
        BY <2>1, <3>2, <3>3
      <4>2. Cardinality(Later(log', i)) = 0
        BY <2>1, <3>2, <3>3, LaterAppend
      <4> QED
        BY <2>0, <3>1, <4>1, <4>2
    <3>4. CASE i # Len(log) + 1
      <4> DEFINE c == Cardinality(Later(log, i))
                 d == Cardinality(Later(log', i))
      <4>1. i \in 1..Len(log) /\ log'[i] = log[i]
        BY <2>1, <3>2, <3>4
      <4>2. c \in Nat /\ d = IF n = log[i].node THEN c + 1 ELSE c
        BY <2>0, <2>1, <3>2, <4>1, LaterAppend, LaterCounts
      <4>3. d < History
        OBVIOUS
      <4>4. c < History => InRing(table, log[i].node, log[i].seq, c)
        BY <1>1, <4>1
      <4> HIDE DEF c, d
      <4>5. c < History
        BY <4>2, <4>3, TableAssumption
      <4>6. CASE n = log[i].node
        <5>1. d = c + 1 /\ c + 1 < History
          BY <4>2, <4>3, <4>6
        <5> QED
          BY <3>1, <4>1, <4>2, <4>4, <4>5, <4>6, <5>1 DEF d
      <4>7. CASE n # log[i].node
        <5>1. d = c
          BY <4>2, <4>7
        <5> QED
          BY <3>1, <4>1, <4>4, <4>5, <4>7, <5>1 DEF d
      <4> QED
        BY <4>6, <4>7
    <3> QED
      BY <3>3, <3>4
  <2> QED
    BY <2>2, <2>3
<1> QED
  BY <1>2, <1>3, FilterSteps

LEMMA FarApartStays ==
    ASSUME Typed, HeadUp, Numbered, Recent, DuplicatesAreFarApart, Next
    PROVE  DuplicatesAreFarApart'
<1> SUFFICES ASSUME Undisturbed', NEW i \in 1..Len(log'), NEW j \in 1..Len(log'), i < j, Same(log'[i], log'[j])
             PROVE  Cardinality({k \in (i + 1)..(j - 1) : log'[k].node = log'[i].node}) >= History
  BY DEF DuplicatesAreFarApart, Undisturbed
<1>1. /\ \A l \in 1..Len(log) : Cardinality(Later(log, l)) < History =>
            InRing(table, log[l].node, log[l].seq, Cardinality(Later(log, l)))
      /\ \A l, r \in 1..Len(log) : l < r /\ Same(log[l], log[r]) =>
            Cardinality({k \in (l + 1)..(r - 1) : log[k].node = log[l].node}) >= History
  BY UndisturbedBefore DEF Recent, DuplicatesAreFarApart, Undisturbed
<1>2. CASE log' = log
  BY <1>1, <1>2
<1>3. ASSUME NEW f \in Chunk, inbox # <<>>, f = Head(inbox),
             ShouldStore(table, f.node, f.seq), log' = Append(log, f)
      PROVE  Cardinality({k \in (i + 1)..(j - 1) : log'[k].node = log'[i].node}) >= History
  <2>1. /\ Table(table, Members, Nat, {}) /\ log \in Seq(Chunk) /\ inbox \in Seq(Chunk) /\ Len(log) \in Nat
        /\ AllGenuine(inbox, written) /\ AllGenuine(log, written)
    BY DEF Typed, FilterTyped, TypeOK, Numbered
  <2>2. /\ Len(log') = Len(log) + 1 /\ log'[Len(log) + 1] = f
        /\ \A l \in 1..Len(log) : log'[l] = log[l]
    BY <1>3, <2>1
  <2>3. CASE j # Len(log) + 1
    <3>1. i \in 1..Len(log) /\ j \in 1..Len(log) /\ log'[i] = log[i] /\ log'[j] = log[j]
      BY <2>1, <2>2, <2>3
    <3>2. \A k \in (i + 1)..(j - 1) : log'[k] = log[k]
      BY <2>1, <2>2, <3>1
    <3>3. {k \in (i + 1)..(j - 1) : log'[k].node = log'[i].node} =
          {k \in (i + 1)..(j - 1) : log[k].node = log[i].node}
      BY <3>1, <3>2
    <3> QED
      BY <1>1, <3>1, <3>3
  <2>4. CASE j = Len(log) + 1
    <3>1. i \in 1..Len(log) /\ log'[i] = log[i] /\ log'[j] = f
      BY <2>1, <2>2, <2>4
    <3>2. {k \in (i + 1)..(j - 1) : log'[k].node = log'[i].node} = Later(log, i)
      BY <2>1, <2>2, <2>4, <3>1 DEF Later
    <3>3. log[i].node = f.node /\ log[i].seq = f.seq
      <4>1. Same(log[i], f)
        BY <3>1
      <4>2. Genuine(log[i], written)
        BY <2>1, <3>1 DEF AllGenuine
      <4>3. Genuine(f, written)
        BY <1>3, <2>1, Rest DEF AllGenuine
      <4> QED
        BY <4>1, <4>2, <4>3 DEF Same, Genuine, SameNumber
    <3>4. ~(Cardinality(Later(log, i)) < History)
      <4>1. ~Holds(table, f.node, f.seq)
        <5>1. f.node \in Members
          BY DEF Chunk
        <5> QED
          BY <1>3, <2>1, <5>1, RefusedIsHeld
      <4>2. \A y, x, a : InRing(table, y, x, a) => Holds(table, y, x)
        BY DEF InRing, Holds
      <4> QED
        BY <1>1, <3>1, <3>3, <4>1, <4>2
    <3> QED
      <4>1. Cardinality(Later(log, i)) \in Nat
        BY <2>1, <3>1, LaterCounts
      <4>2. \A c, h \in Nat : ~(c < h) => c >= h
        OBVIOUS
      <4> QED
        BY <3>2, <3>4, <4>1, <4>2, TableAssumption
  <2> QED
    BY <2>3, <2>4
<1> QED
  BY <1>2, <1>3, FilterSteps

FilterWorks == Typed /\ HeadUp /\ Numbered /\ Recent /\ DuplicatesAreFarApart

LEMMA InitFilterWorks == Init => FilterWorks
<1> SUFFICES ASSUME Init PROVE FilterWorks
  OBVIOUS
<1>1. HeadUp /\ Recent /\ DuplicatesAreFarApart
  BY DEF Init, HeadUp, Recent, DuplicatesAreFarApart
<1> QED
  BY <1>1, InitTyped, InitNumbered DEF FilterWorks

LEMMA NextFilterWorks == FewSenders => (FilterWorks /\ [Next]_vars => FilterWorks')
<1> SUFFICES ASSUME FewSenders, FilterWorks, [Next]_vars PROVE FilterWorks'
  OBVIOUS
<1>1. Typed' /\ HeadUp' /\ Numbered'
  BY NextTyped, HeadUpKept, NumberedKept DEF FilterWorks
<1>2. CASE Next
  BY <1>1, <1>2, RecentStays, FarApartStays DEF FilterWorks
<1>3. CASE UNCHANGED vars
  BY <1>1, <1>3 DEF FilterWorks, Recent, Undisturbed, DuplicatesAreFarApart, vars, headVars, boundVars
<1> QED
  BY <1>2, <1>3

\* As long as its filter has room for every sender, is not emptied and no write fails,
\* the head stores a record again only when at least DEDUP_HISTORY_PER_NODE others of
\* that node have been stored since (esp_now_manager.c:30-105).
THEOREM CopiesFarApart == FewSenders => (Spec => []DuplicatesAreFarApart)
<1> SUFFICES ASSUME FewSenders PROVE Spec => []DuplicatesAreFarApart
  OBVIOUS
<1>1. FilterWorks /\ [Next]_vars => FilterWorks'
  BY NextFilterWorks
<1>2. FilterWorks => DuplicatesAreFarApart
  BY DEF FilterWorks
<1> QED
  BY <1>1, <1>2, InitFilterWorks, PTL DEF Spec

----------------------------------------------------------------------------
(* The filter under any frames, from more nodes than it has entries for, and *)
(* through restarts of ESP-NOW: the theorems of Dedup.                       *)

Ids == Nodes \cup {NoNode}

\* A frame passes the filter, or is stored past it.
Filtered(g) ==
    /\ g.filtered /\ g.at = time /\ heard' = Append(heard, g)
    /\ g.stored <=> ShouldStore(filter, g.node, g.seq)
    /\ filter' = After(filter, g.node, g.seq, time) /\ time' = time
Unfiltered(g) ==
    /\ ~g.filtered /\ g.stored /\ heard' = Append(heard, g) /\ UNCHANGED <<filter, time>>
Emptied ==
    /\ heard' = <<>> /\ time' = time
    /\ \/ filter' = EmptyTable
       \/ \E k \in Nat : k <= MaxNodes /\ filter' = [i \in 1..k |-> NewEntry(NoNode)]
Elapsed == UNCHANGED <<filter, heard>> /\ time' \in time..MaxTime

LEMMA TimeIsNat == MaxTime \in Nat \ {0} /\ NoNode \notin Nodes /\ \A n \in Nodes : n \in Ids /\ n \notin {NoNode}
BY DedupAssumption DEF Ids

LEMMA FrameSteps ==
    ASSUME time \in 1..MaxTime, Len(filter) \in Nat, Len(filter) <= MaxNodes, [FilterNext]_filterVars
    PROVE  Elapsed \/ Emptied \/ \E g \in HeardFrame : Filtered(g) \/ Unfiltered(g)
<1>1. ASSUME NEW n \in Nodes, NEW s \in Seqs, Receive(n, s) PROVE \E g \in HeardFrame : Filtered(g)
  <2> DEFINE g == [node |-> n, seq |-> s, at |-> time, stored |-> ShouldStore(filter, n, s), filtered |-> TRUE]
  <2>1. ShouldStore(filter, n, s) \in BOOLEAN
    BY Zenon DEF ShouldStore
  <2>2. g \in HeardFrame
    BY <2>1 DEF HeardFrame
  <2>3. g.filtered /\ g.at = time /\ g.node = n /\ g.seq = s /\ (g.stored <=> ShouldStore(filter, n, s))
    OBVIOUS
  <2>4. heard' = Append(heard, g) /\ filter' = After(filter, n, s, time) /\ time' = time
    BY <1>1 DEF Receive, Hear
  <2> HIDE DEF g
  <2>5. Filtered(g)
    BY <2>3, <2>4 DEF Filtered
  <2> QED
    BY <2>2, <2>5
<1>2. ASSUME NEW n \in Nodes, NEW s \in Seqs, ReceiveUnfiltered(n, s) PROVE \E g \in HeardFrame : Unfiltered(g)
  <2> DEFINE g == [node |-> n, seq |-> s, at |-> time, stored |-> TRUE, filtered |-> FALSE]
  <2>1. g \in HeardFrame /\ ~g.filtered /\ g.stored
    BY DEF HeardFrame
  <2>2. heard' = Append(heard, g) /\ UNCHANGED <<filter, time>>
    BY <1>2 DEF ReceiveUnfiltered, Hear
  <2> HIDE DEF g
  <2> QED
    BY <2>1, <2>2 DEF Unfiltered
<1>3. CASE FilterDeinit \/ FilterReinit \/ Tick \/ UNCHANGED filterVars
  BY <1>3, TimeIsNat DEF FilterDeinit, FilterReinit, Tick, filterVars, Elapsed
<1>4. CASE ZeroCount \/ ZeroTorn
  BY <1>4 DEF ZeroCount, ZeroTorn, Emptied
<1>5. CASE ZeroEntries
  <2>1. PICK k \in IF torn THEN 0..MaxNodes ELSE {Len(filter)} : filter' = [i \in 1..k |-> NewEntry(NoNode)]
    BY <1>5 DEF ZeroEntries
  <2>2. k \in Nat /\ k <= MaxNodes
    BY <2>1, TableAssumption
  <2> QED
    BY <1>5, <2>1, <2>2 DEF ZeroEntries, Emptied
<1> QED
  BY <1>1, <1>2, <1>3, <1>4, <1>5 DEF FilterNext

NoRepeats(e) == \A j, k \in 1..Len(e.seqs) : e.seqs[j] = e.seqs[k] => j = k

\* A zeroed entry is nobody's and looks older than any other.
Placed(e) == \/ e.node \in Nodes /\ e.seen >= 1
             \/ e.node = NoNode /\ e.seen = 0 /\ e.seqs = <<>>

FilterSound ==
    /\ Table(filter, Ids, Seqs, {NoNode}) /\ time \in 1..MaxTime /\ heard \in Seq(HeardFrame)
    /\ \A i \in 1..Len(filter) : filter[i].seen <= time /\ NoRepeats(filter[i]) /\ Placed(filter[i])

HeardStored(h, n, s) == \E i \in 1..Len(h) : h[i].node = n /\ h[i].seq = s /\ h[i].stored

\* What the filter refuses, it has seen stored.
RingsHeard == \A n, s : Holds(filter, n, s) => HeardStored(heard, n, s)

FilterHears == FilterSound /\ RingsHeard /\ RefusedWasStored

LEMMA NewTable == \A N, S, B : Table(EmptyTable, N, S, B)
BY TableAssumption DEF Table, EmptyTable, OneEach

\* A table of zeroed entries.
LEMMA BlankTable ==
    ASSUME NEW k \in Nat, k <= MaxNodes, NEW t, t = [i \in 1..k |-> NewEntry(NoNode)]
    PROVE  /\ Table(t, Ids, Seqs, {NoNode}) /\ Len(t) = k
           /\ \A i \in 1..Len(t) : t[i] = NewEntry(NoNode)
<1>1. NewEntry(NoNode) \in Entries(Ids, Seqs) /\ Filled(NewEntry(NoNode)) /\ NewEntry(NoNode).node = NoNode
  BY TableAssumption DEF NewEntry, Entries, Filled, Ids
<1> DEFINE e == NewEntry(NoNode)
<1> HIDE DEF e
<1>2. t \in Seq(Entries(Ids, Seqs)) /\ Len(t) = k /\ \A i \in 1..Len(t) : t[i] = e
  BY <1>1 DEF e
<1> QED
  BY <1>1, <1>2 DEF Table, OneEach, e

\* What an emptied table says of its entries.
LEMMA EmptiedTable ==
    ASSUME Emptied
    PROVE  /\ Table(filter', Ids, Seqs, {NoNode})
           /\ \A i \in 1..Len(filter') : filter'[i] = NewEntry(NoNode)
<1>1. CASE filter' = EmptyTable
  <2>1. Len(filter') = 0
    BY <1>1 DEF EmptyTable
  <2> QED
    BY <1>1, <2>1, NewTable
<1>2. CASE \E k \in Nat : k <= MaxNodes /\ filter' = [i \in 1..k |-> NewEntry(NoNode)]
  BY <1>2, BlankTable
<1> QED
  BY <1>1, <1>2 DEF Emptied

LEMMA SoundStays == FilterSound /\ [FilterNext]_filterVars => FilterSound'
<1> SUFFICES ASSUME FilterSound, [FilterNext]_filterVars PROVE FilterSound'
  OBVIOUS
<1>0. /\ Table(filter, Ids, Seqs, {NoNode}) /\ time \in 1..MaxTime /\ heard \in Seq(HeardFrame)
      /\ filter \in Seq(Entries(Ids, Seqs)) /\ time \in Nat
      /\ \A i \in 1..Len(filter) : /\ filter[i].seen <= time /\ filter[i].seen \in Nat
                                  /\ NoRepeats(filter[i]) /\ Placed(filter[i])
      /\ Len(filter) \in Nat /\ Len(filter) <= MaxNodes
  <2>1. /\ Table(filter, Ids, Seqs, {NoNode}) /\ time \in 1..MaxTime /\ heard \in Seq(HeardFrame)
        /\ filter \in Seq(Entries(Ids, Seqs)) /\ time \in Nat
        /\ \A i \in 1..Len(filter) : filter[i].seen <= time /\ NoRepeats(filter[i]) /\ Placed(filter[i])
        /\ Len(filter) \in Nat /\ Len(filter) <= MaxNodes
    BY DEF FilterSound, Table
  <2>2. \A i \in 1..Len(filter) : filter[i] \in Entries(Ids, Seqs)
    BY <2>1
  <2>3. \A e \in Entries(Ids, Seqs) : e.seen \in Nat
    BY DEF Entries
  <2> QED
    BY <2>1, <2>2, <2>3
<1>1. CASE Elapsed
  BY <1>0, <1>1 DEF Elapsed, FilterSound
<1>2. CASE Emptied
  <2>1. Table(filter', Ids, Seqs, {NoNode}) /\ heard' = <<>> /\ time' = time
    BY <1>2, EmptiedTable DEF Emptied
  <2>2. ASSUME NEW i \in 1..Len(filter')
        PROVE  filter'[i].seen <= time' /\ NoRepeats(filter'[i]) /\ Placed(filter'[i])
    <3>1. filter'[i] = NewEntry(NoNode)
      BY <1>2, EmptiedTable
    <3> QED
      BY <1>0, <2>1, <3>1 DEF NewEntry, NoRepeats, Placed
  <2> QED
    BY <1>0, <2>1, <2>2 DEF FilterSound
<1>3. ASSUME NEW g \in HeardFrame, Filtered(g) PROVE FilterSound'
  <2> DEFINE n == g.node
             s == g.seq
             k == Slot(filter, n)
             e == Touched(filter, n, time)
             new == ShouldStore(filter, n, s)
  <2>0. n \in Nodes /\ s \in Seqs
    BY DEF HeardFrame
  <2>1. filter' = After(filter, n, s, time) /\ heard' = Append(heard, g) /\ time' = time
    BY <1>3 DEF Filtered
  <2>2. k = Slot(filter, n) /\ e = Touched(filter, n, time) /\ (new <=> ShouldStore(filter, n, s))
    OBVIOUS
  <2> HIDE DEF n, s, k, e, new
  <2>3. /\ Table(filter', Ids, Seqs, {NoNode}) /\ k \in 1..Len(filter') /\ filter'[k].seen = time
        /\ filter'[k] = IF new THEN Remembered(e, s) ELSE e
        /\ e \in Entries(Ids, Seqs) /\ Filled(e) /\ e.seqs = EntryOf(filter, n).seqs
        /\ \A i \in 1..Len(filter') : i # k => i \in 1..Len(filter) /\ filter'[i] = filter[i]
    BY <1>0, <2>0, <2>1, <2>2, TimeIsNat, TableAfter DEF new
  <2>p. Placed(filter'[k])
    <3>1. filter'[k].node = n
      BY <1>0, <2>0, <2>1, <2>2, TimeIsNat, TableAfter DEF new
    <3> QED
      BY <1>0, <2>0, <2>3, <3>1 DEF Placed
  <2>4. NoRepeats(e)
    <3>1. CASE Known(filter, n)
      BY <1>0, <2>0, <2>3, <3>1, KnownSlot DEF EntryOf, NoRepeats
    <3>2. CASE ~Known(filter, n)
      BY <2>3, <3>2 DEF EntryOf, NewEntry, NoRepeats
    <3> QED
      BY <3>1, <3>2
  <2>5. NoRepeats(filter'[k])
    <3>1. CASE ~new
      BY <2>3, <2>4, <3>1
    <3>2. CASE new
      <4> DEFINE f == filter'[k]
                 q == e.next + 1
      <4>1. f = Remembered(e, s)
        BY <2>3, <3>2
      <4> HIDE DEF f
      <4>2. /\ f.seqs[q] = s
            /\ \A p \in 1..Len(e.seqs) : p # q => f.seqs[p] = e.seqs[p]
            /\ \A p \in 1..Len(f.seqs) : p # q => p \in 1..Len(e.seqs)
        BY <2>0, <2>3, <4>1, RingAfter
      <4> HIDE DEF q
      <4>3. \A p \in 1..Len(e.seqs) : e.seqs[p] # s
        BY <2>2, <2>3, <3>2 DEF ShouldStore
      <4>4. NoRepeats(f)
        BY <2>4, <4>2, <4>3 DEF NoRepeats
      <4> QED
        BY <4>4 DEF f
    <3> QED
      BY <3>1, <3>2
  <2>6. heard' \in Seq(HeardFrame)
    BY <1>0, <2>1, Longer
  <2> QED
    BY <1>0, <2>1, <2>3, <2>p, <2>5, <2>6 DEF FilterSound
<1>4. ASSUME NEW g \in HeardFrame, Unfiltered(g) PROVE FilterSound'
  BY <1>0, <1>4, Longer DEF Unfiltered, FilterSound
<1> QED
  BY <1>0, <1>1, <1>2, <1>3, <1>4, FrameSteps

LEMMA HearsStays == FilterHears /\ [FilterNext]_filterVars => FilterHears'
<1> SUFFICES ASSUME FilterHears, [FilterNext]_filterVars PROVE RingsHeard' /\ RefusedWasStored'
  BY SoundStays DEF FilterHears
<1>0. /\ Table(filter, Ids, Seqs, {NoNode}) /\ time \in Nat /\ time \in 1..MaxTime /\ heard \in Seq(HeardFrame)
      /\ Len(heard) \in Nat /\ Len(filter) \in Nat /\ Len(filter) <= MaxNodes
      /\ \A n, s : Holds(filter, n, s) => HeardStored(heard, n, s)
  BY DEF FilterHears, FilterSound, RingsHeard, Table
<1>1. CASE Elapsed
  BY <1>1 DEF Elapsed, FilterHears, RingsHeard, RefusedWasStored, SameFrame
<1>2. CASE Emptied
  <2>1. heard' = <<>> /\ \A i \in 1..Len(filter') : filter'[i] = NewEntry(NoNode)
    BY <1>2, EmptiedTable DEF Emptied
  <2>2. \A i \in 1..Len(filter') : Len(filter'[i].seqs) = 0
    BY <2>1 DEF NewEntry
  <2>3. \A n, s : ~Holds(filter', n, s)
    BY <2>2 DEF Holds
  <2> QED
    BY <2>1, <2>3 DEF RingsHeard, RefusedWasStored
<1>3. ASSUME NEW g \in HeardFrame, heard' = Append(heard, g) PROVE
         /\ \A n, s : HeardStored(heard, n, s) => HeardStored(heard', n, s)
         /\ g.stored => HeardStored(heard', g.node, g.seq)
         /\ (~g.stored => HeardStored(heard, g.node, g.seq)) => RefusedWasStored'
  <2>1. /\ Len(heard') = Len(heard) + 1 /\ heard'[Len(heard) + 1] = g
        /\ \A i \in 1..Len(heard) : i \in 1..Len(heard') /\ heard'[i] = heard[i]
    BY <1>0, <1>3
  <2>2. \A n, s : HeardStored(heard, n, s) => HeardStored(heard', n, s)
    BY <2>1 DEF HeardStored
  <2>3. g.stored => HeardStored(heard', g.node, g.seq)
    <3>1. Len(heard) + 1 \in 1..Len(heard')
      BY <1>0, <2>1
    <3> QED
      BY <2>1, <3>1 DEF HeardStored
  <2>4. ASSUME ~g.stored => HeardStored(heard, g.node, g.seq) PROVE RefusedWasStored'
    <3> SUFFICES ASSUME NEW j \in 1..Len(heard'), ~heard'[j].stored
                 PROVE  \E i \in 1..(j - 1) : /\ heard'[i].node = heard'[j].node /\ heard'[i].seq = heard'[j].seq
                                               /\ heard'[i].stored
      BY DEF RefusedWasStored, SameFrame
    <3>1. CASE j = Len(heard) + 1
      <4>1. PICK i \in 1..Len(heard) : heard[i].node = g.node /\ heard[i].seq = g.seq /\ heard[i].stored
        BY <2>1, <2>4, <3>1 DEF HeardStored
      <4>2. i \in 1..(j - 1)
        BY <1>0, <3>1
      <4> QED
        BY <2>1, <3>1, <4>1, <4>2
    <3>2. CASE j # Len(heard) + 1
      <4>1. j \in 1..Len(heard) /\ heard'[j] = heard[j]
        BY <1>0, <2>1, <3>2
      <4>2. PICK i \in 1..(j - 1) : heard[i].node = heard[j].node /\ heard[i].seq = heard[j].seq /\ heard[i].stored
        BY <4>1 DEF FilterHears, RefusedWasStored, SameFrame
      <4>3. i \in 1..Len(heard)
        BY <1>0, <4>1
      <4> QED
        BY <2>1, <4>1, <4>2, <4>3
    <3> QED
      BY <3>1, <3>2
  <2> QED
    BY <2>2, <2>3, <2>4
<1>4. ASSUME NEW g \in HeardFrame, Filtered(g) PROVE RingsHeard' /\ RefusedWasStored'
  <2>0. g.node \in Nodes /\ g.seq \in Seqs
    BY DEF HeardFrame
  <2>1. /\ heard' = Append(heard, g) /\ (g.stored <=> ShouldStore(filter, g.node, g.seq))
        /\ filter' = After(filter, g.node, g.seq, time)
    BY <1>4 DEF Filtered
  <2>2. ~g.stored => HeardStored(heard, g.node, g.seq)
    BY <1>0, <2>0, <2>1, TimeIsNat, RefusedIsHeld
  <2>3. ASSUME NEW y, NEW x, Holds(filter', y, x) PROVE HeardStored(heard', y, x)
    <3>1. Holds(filter, y, x) \/ (g.stored /\ y = g.node /\ x = g.seq)
      BY <1>0, <2>0, <2>1, <2>3, TimeIsNat, RingGains
    <3> QED
      BY <1>0, <1>3, <2>1, <3>1
  <2> QED
    BY <1>3, <2>1, <2>2, <2>3 DEF RingsHeard
<1>5. ASSUME NEW g \in HeardFrame, Unfiltered(g) PROVE RingsHeard' /\ RefusedWasStored'
  BY <1>0, <1>3, <1>5 DEF Unfiltered, RingsHeard
<1> QED
  BY <1>0, <1>1, <1>2, <1>4, <1>5, FrameSteps

LEMMA InitHears == FilterInit => FilterHears
BY NewTable, TimeIsNat DEF FilterInit, FilterHears, FilterSound, RingsHeard, Holds, EmptyTable, RefusedWasStored

\* One entry per node, no number twice in a ring, the index where the next number goes,
\* and zeroed entries that are the first to make room, whichever frames are heard in
\* whatever order, before, between and after the steps of a reinit; only a frame that meets
\* the zeroing inside the filter undoes it, until the next reinit (esp_now_manager.c:544-552).
THEOREM FilterInOrder == FilterSpec => []TableOK
<1>1. FilterHears /\ [FilterNext]_filterVars => FilterHears'
  BY HearsStays
<1>2. FilterInit => FilterHears
  BY InitHears
<1>3. FilterHears => TableOK
  <2> SUFFICES ASSUME FilterSound PROVE TableOK
    BY DEF FilterHears
  <2>1. /\ filter \in Seq(Entries(Ids, Seqs)) /\ Len(filter) <= MaxNodes /\ OneEach(filter, {NoNode}) /\ time \in Nat
        /\ \A i \in 1..Len(filter) : Filled(filter[i]) /\ filter[i].seen <= time /\ NoRepeats(filter[i]) /\ Placed(filter[i])
        /\ heard \in Seq(HeardFrame)
    BY DEF FilterSound, Table
  <2>2. \A i \in 1..Len(filter) : filter[i] \in Entries(Ids, Seqs)
    BY <2>1
  <2>3. ASSUME NEW i \in 1..Len(filter)
        PROVE  /\ \/ filter[i].node \in Nodes /\ filter[i].seen \in 1..time
                  \/ filter[i].node = NoNode /\ filter[i].seen = 0 /\ filter[i].seqs = <<>>
               /\ filter[i].next \in 0..(History - 1)
               /\ Len(filter[i].seqs) <= History
               /\ Len(filter[i].seqs) < History => filter[i].next = Len(filter[i].seqs)
               /\ \A j, k \in 1..Len(filter[i].seqs) : filter[i].seqs[j] = filter[i].seqs[k] => j = k
    <3>1. /\ filter[i] \in Entries(Ids, Seqs) /\ Filled(filter[i]) /\ filter[i].seen <= time
          /\ NoRepeats(filter[i]) /\ Placed(filter[i])
      BY <2>1, <2>2
    <3> QED
      BY <2>1, <3>1 DEF Entries, Filled, NoRepeats, Placed
  <2>4. \A i \in 1..Len(heard) : heard[i] \in HeardFrame
    BY <2>1
  <2> QED
    BY <2>1, <2>3, <2>4 DEF TableOK, OneEach
<1> QED
  BY <1>1, <1>2, <1>3, PTL DEF FilterSpec

\* The filter refuses nothing that is new: the number of a refused frame was stored for
\* its node before, and an evicted node leaves its history to nobody
\* (esp_now_manager.c:62-87, 551-552).
THEOREM RefusedIsOld == FilterSpec => []RefusedWasStored
<1>1. FilterHears /\ [FilterNext]_filterVars => FilterHears'
  BY HearsStays
<1>2. FilterInit => FilterHears
  BY InitHears
<1>3. FilterHears => RefusedWasStored
  BY DEF FilterHears
<1> QED
  BY <1>1, <1>2, <1>3, PTL DEF FilterSpec

----------------------------------------------------------------------------
(* What the filter forgets.  The definitions of Dedup with the frames heard   *)
(* as a parameter.                                                           *)

PushesIn(h, i, j) == {k \in (i + 1)..(j - 1) : h[k].node = h[i].node /\ h[k].stored /\ h[k].filtered}
LastIn(h, i, k) == CHOOSE l \in i..(k - 1) :
                       /\ h[l].node = h[i].node /\ h[l].filtered
                       /\ \A m \in (l + 1)..(k - 1) : ~(h[m].node = h[i].node /\ h[m].filtered)
SinceIn(h, i, k) == {h[l].node : l \in {l \in 1..k : h[l].filtered /\ h[l].at >= h[LastIn(h, i, k)].at}}
                    \ {h[i].node}

\* The ring of frame i's node, or all of its entry, has been taken by others since.
Forgotten(h, i) ==
    \/ Cardinality(PushesIn(h, i, Len(h) + 1)) >= History
    \/ \E k \in (i + 1)..Len(h) : Cardinality(SinceIn(h, i, k)) >= MaxNodes

Remembers(h, t) ==
    \A i \in 1..Len(h) : h[i].stored /\ h[i].filtered =>
        \/ Forgotten(h, i)
        \/ InRing(t, h[i].node, h[i].seq, Cardinality(PushesIn(h, i, Len(h) + 1)))

\* An entry has the time of its node's last filtered frame.
IsLast(h, n, l) ==
    /\ l \in 1..Len(h) /\ h[l].node = n /\ h[l].filtered
    /\ \A m \in (l + 1)..Len(h) : ~(h[m].node = n /\ h[m].filtered)
LastSeen(h, t) ==
    \A e \in 1..Len(t) :
        t[e].node = NoNode \/ \E l \in 1..Len(h) : IsLast(h, t[e].node, l) /\ h[l].at = t[e].seen

LEMMA LastInIs ==
    ASSUME NEW h \in Seq(HeardFrame), NEW i \in 1..Len(h), h[i].filtered, NEW k \in (i + 1)..(Len(h) + 1)
    PROVE  LET l == LastIn(h, i, k) IN
           /\ l \in i..(k - 1) /\ h[l].node = h[i].node /\ h[l].filtered
           /\ \A m \in (l + 1)..(k - 1) : ~(h[m].node = h[i].node /\ h[m].filtered)
<1>0. Len(h) \in Nat /\ i \in Nat /\ k \in Nat /\ i < k
  OBVIOUS
<1> DEFINE T == {x \in 0..(k - 1 - i) : h[k - 1 - x].node = h[i].node /\ h[k - 1 - x].filtered}
<1>1. PICK x \in T : \A y \in T : x <= y
  <2>1. k - 1 - i \in T
    <3>1. k - 1 - i \in 0..(k - 1 - i) /\ k - 1 - (k - 1 - i) = i
      BY <1>0
    <3> QED
      BY <3>1
  <2>2. T \in SUBSET Nat
    OBVIOUS
  <2> HIDE DEF T
  <2> QED
    BY <2>1, <2>2, MinIsLeast
<1> DEFINE l == k - 1 - x
<1>2. l \in i..(k - 1) /\ h[l].node = h[i].node /\ h[l].filtered
  BY <1>0, <1>1
<1>3. \A m \in (l + 1)..(k - 1) : ~(h[m].node = h[i].node /\ h[m].filtered)
  <2> SUFFICES ASSUME NEW m \in (l + 1)..(k - 1), h[m].node = h[i].node, h[m].filtered PROVE FALSE
    OBVIOUS
  <2>1. k - 1 - m \in 0..(k - 1 - i) /\ k - 1 - (k - 1 - m) = m /\ k - 1 - m < x
    BY <1>0, <1>1
  <2>2. k - 1 - m \in T /\ x \in Nat /\ k - 1 - m \in Nat
    BY <1>1, <2>1
  <2>3. ~(k - 1 - m < x)
    <3> HIDE DEF T
    <3>1. x <= k - 1 - m
      BY <1>1, <2>2
    <3> QED
      BY <2>2, <3>1
  <2> QED
    BY <2>1, <2>3
<1> HIDE DEF l, T
<1>4. \E y \in i..(k - 1) :
        /\ h[y].node = h[i].node /\ h[y].filtered
        /\ \A m \in (y + 1)..(k - 1) : ~(h[m].node = h[i].node /\ h[m].filtered)
  BY <1>2, <1>3
<1> QED
  BY <1>4 DEF LastIn

LEMMA OneLast ==
    ASSUME NEW h, NEW n, NEW i \in Nat, NEW k \in Nat, NEW a \in i..(k - 1), NEW b \in i..(k - 1),
           h[a].node = n, h[a].filtered, h[b].node = n, h[b].filtered,
           \A m \in (a + 1)..(k - 1) : ~(h[m].node = n /\ h[m].filtered),
           \A m \in (b + 1)..(k - 1) : ~(h[m].node = n /\ h[m].filtered)
    PROVE  a = b
<1>1. ~(a < b) /\ ~(b < a)
  OBVIOUS
<1> QED
  BY <1>1

\* Later frames change nothing in what was heard since.
LEMMA SinceStays ==
    ASSUME NEW h \in Seq(HeardFrame), NEW g \in HeardFrame, NEW i \in 1..Len(h), h[i].filtered, NEW k \in (i + 1)..Len(h)
    PROVE  SinceIn(Append(h, g), i, k) = SinceIn(h, i, k)
<1> DEFINE u == Append(h, g)
<1>1. u \in Seq(HeardFrame) /\ Len(u) = Len(h) + 1 /\ Len(h) \in Nat /\ \A j \in 1..Len(h) : u[j] = h[j]
  OBVIOUS
<1> HIDE DEF u
<1> DEFINE a == LastIn(h, i, k)
           b == LastIn(u, i, k)
<1>2. /\ a \in i..(k - 1) /\ h[a].node = h[i].node /\ h[a].filtered
      /\ \A m \in (a + 1)..(k - 1) : ~(h[m].node = h[i].node /\ h[m].filtered)
  BY LastInIs
<1>3. /\ b \in i..(k - 1) /\ u[b].node = u[i].node /\ u[b].filtered
      /\ \A m \in (b + 1)..(k - 1) : ~(u[m].node = u[i].node /\ u[m].filtered)
  <2>1. i \in 1..Len(u) /\ u[i].filtered /\ k \in (i + 1)..(Len(u) + 1)
    BY <1>1
  <2> QED
    BY <1>1, <2>1, LastInIs
<1> HIDE DEF a, b
<1>4. /\ \A m \in i..(k - 1) : u[m] = h[m]
      /\ u[i] = h[i] /\ i \in Nat /\ k \in Nat
  BY <1>1
<1>5. h[b].node = h[i].node /\ h[b].filtered /\ \A m \in (b + 1)..(k - 1) : ~(h[m].node = h[i].node /\ h[m].filtered)
  <2>1. \A m \in (b + 1)..(k - 1) : m \in i..(k - 1)
    BY <1>3, <1>4
  <2> QED
    BY <1>3, <1>4, <2>1
<1>6. a = b
  BY <1>2, <1>3, <1>4, <1>5, OneLast
<1>7. u[b] = h[a]
  BY <1>3, <1>4, <1>6
<1>8. \A l \in 1..k : u[l] = h[l]
  BY <1>1
<1> QED
  BY <1>4, <1>7, <1>8 DEF SinceIn, a, b, u

LEMMA PushesCount ==
    ASSUME NEW h \in Seq(HeardFrame), NEW i \in 1..Len(h), NEW j \in Nat
    PROVE  IsFiniteSet(PushesIn(h, i, j)) /\ Cardinality(PushesIn(h, i, j)) \in Nat
<1>1. IsFiniteSet((i + 1)..(j - 1))
  <2>1. i + 1 \in Int /\ j - 1 \in Int
    OBVIOUS
  <2> QED
    BY <2>1, FS_Interval
<1>2. PushesIn(h, i, j) \in SUBSET ((i + 1)..(j - 1))
  BY DEF PushesIn
<1> QED
  BY <1>1, <1>2, FS_Subset, FS_CardinalityType

LEMMA PushesAppend ==
    ASSUME NEW h \in Seq(HeardFrame), NEW g \in HeardFrame
    PROVE  /\ \A i \in 1..Len(h) :
                Cardinality(PushesIn(Append(h, g), i, Len(h) + 2)) =
                    IF g.node = h[i].node /\ g.stored /\ g.filtered
                    THEN Cardinality(PushesIn(h, i, Len(h) + 1)) + 1
                    ELSE Cardinality(PushesIn(h, i, Len(h) + 1))
           /\ \A i \in 1..Len(h) : \A j \in 1..(Len(h) + 1) : PushesIn(Append(h, g), i, j) = PushesIn(h, i, j)
           /\ Cardinality(PushesIn(Append(h, g), Len(h) + 1, Len(h) + 2)) = 0
<1> DEFINE u == Append(h, g)
<1>1. /\ Len(h) \in Nat /\ u[Len(h) + 1] = g
      /\ \A j \in 1..Len(h) : u[j] = h[j]
  OBVIOUS
<1> HIDE DEF u
<1>2. ASSUME NEW i \in 1..Len(h), NEW j \in 1..(Len(h) + 1)
      PROVE  PushesIn(u, i, j) = PushesIn(h, i, j)
  <2>1. \A k \in (i + 1)..(j - 1) : k \in 1..Len(h)
    BY <1>1
  <2> QED
    BY <1>1, <2>1 DEF PushesIn
<1>3. ASSUME NEW i \in 1..Len(h)
      PROVE  Cardinality(PushesIn(u, i, Len(h) + 2)) =
                IF g.node = h[i].node /\ g.stored /\ g.filtered
                THEN Cardinality(PushesIn(h, i, Len(h) + 1)) + 1
                ELSE Cardinality(PushesIn(h, i, Len(h) + 1))
  <2>1. Len(h) + 1 \notin PushesIn(h, i, Len(h) + 1) /\ IsFiniteSet(PushesIn(h, i, Len(h) + 1))
    <3>1. Len(h) + 1 \in Nat
      BY <1>1
    <3>2. IsFiniteSet(PushesIn(h, i, Len(h) + 1))
      BY <3>1, PushesCount
    <3>3. Len(h) + 1 \notin PushesIn(h, i, Len(h) + 1)
      BY <1>1 DEF PushesIn
    <3> QED
      BY <3>2, <3>3
  <2>2. (i + 1)..(Len(h) + 2 - 1) = ((i + 1)..(Len(h) + 1 - 1)) \cup {Len(h) + 1}
    BY <1>1
  <2>3. u[i] = h[i] /\ \A k \in (i + 1)..(Len(h) + 1 - 1) : u[k] = h[k]
    BY <1>1
  <2>4. CASE g.node = h[i].node /\ g.stored /\ g.filtered
    <3>1. PushesIn(u, i, Len(h) + 2) = PushesIn(h, i, Len(h) + 1) \cup {Len(h) + 1}
      BY <1>1, <2>2, <2>3, <2>4 DEF PushesIn
    <3> QED
      BY <2>1, <2>4, <3>1, FS_AddElement
  <2>5. CASE ~(g.node = h[i].node /\ g.stored /\ g.filtered)
    <3>1. PushesIn(u, i, Len(h) + 2) = PushesIn(h, i, Len(h) + 1)
      BY <1>1, <2>2, <2>3, <2>5 DEF PushesIn
    <3> QED
      BY <2>5, <3>1
  <2> QED
    BY <2>4, <2>5
<1>4. PushesIn(u, Len(h) + 1, Len(h) + 2) = {}
  BY <1>1 DEF PushesIn
<1> QED
  BY <1>2, <1>3, <1>4, FS_EmptySet DEF u

LEMMA SinceFinite ==
    ASSUME NEW h, NEW i, NEW k \in Nat
    PROVE  IsFiniteSet(SinceIn(h, i, k))
<1> DEFINE T == {h[l].node : l \in 1..k}
           f == [l \in 1..k |-> h[l].node]
<1>1. IsFiniteSet(1..k)
  BY FS_Interval
<1>2. f \in Surjection(1..k, T)
  BY DEF Surjection
<1>3. IsFiniteSet(T)
  BY <1>1, <1>2, FS_Surjection
<1>4. SinceIn(h, i, k) \in SUBSET T
  BY DEF SinceIn
<1> QED
  BY <1>3, <1>4, FS_Subset

\* A node makes room only when MaxNodes others have been heard since it was.
LEMMA EvictedLate ==
    ASSUME NEW h \in Seq(HeardFrame), NEW g \in HeardFrame, g.filtered,
           NEW t, Table(t, Ids, Seqs, {NoNode}), LastSeen(h, t),
           \A e \in 1..Len(t) : t[e].seen <= g.at /\ Placed(t[e]),
           NEW i \in 1..Len(h), h[i].filtered, h[i].node # g.node, Evicts(t, g.node, h[i].node)
    PROVE  Cardinality(SinceIn(Append(h, g), i, Len(h) + 1)) >= MaxNodes
<1> DEFINE u == Append(h, g)
           k == Len(h) + 1
           z == LeastRecent(t)
           y == h[i].node
<1>1. /\ u \in Seq(HeardFrame) /\ Len(u) = k /\ Len(h) \in Nat /\ k \in Nat /\ u[k] = g
      /\ \A j \in 1..Len(h) : u[j] = h[j] /\ j \in 1..Len(u)
  OBVIOUS
<1>2. /\ ~Known(t, g.node) /\ Len(t) = MaxNodes /\ t[z].node = y /\ z \in 1..MaxNodes
      /\ \A j \in 1..Len(t) : t[z].seen <= t[j].seen
      /\ MaxNodes \in Nat \ {0}
  <2>1. Len(t) = MaxNodes /\ MaxNodes \in Nat \ {0} /\ Len(t) > 0
    BY TableAssumption DEF Evicts
  <2>2. z \in 1..Len(t) /\ \A j \in 1..Len(t) : t[z].seen <= t[j].seen
    BY <2>1, LeastIsThere
  <2> QED
    BY <2>1, <2>2 DEF Evicts
<1> DEFINE a == LastIn(u, i, k)
<1>3. /\ a \in i..(k - 1) /\ u[a].node = u[i].node /\ u[a].filtered
      /\ \A m \in (a + 1)..(k - 1) : ~(u[m].node = u[i].node /\ u[m].filtered)
  <2>1. i \in 1..Len(u) /\ u[i].filtered /\ k \in (i + 1)..(Len(u) + 1)
    BY <1>1
  <2> QED
    BY <1>1, <2>1, LastInIs
<1> HIDE DEF u, k, z, y, a
<1>r. y \in Nodes /\ y # NoNode /\ \A e \in 1..Len(t) : t[e].node # NoNode
  <2>1. y \in Nodes /\ y # NoNode
    <3>1. h[i] \in HeardFrame
      OBVIOUS
    <3> QED
      BY <3>1, TimeIsNat DEF HeardFrame, y
  <2>2. t[z].seen >= 1 /\ z \in 1..Len(t)
    BY <1>2, <2>1 DEF Placed
  <2>3. \A e \in 1..Len(t) : t[e].seen \in Nat
    <3>1. \A e \in 1..Len(t) : t[e] \in Entries(Ids, Seqs)
      BY DEF Table
    <3> QED
      BY <3>1 DEF Entries
  <2>4. \A e \in 1..Len(t) : t[e].seen # 0
    BY <1>2, <2>2, <2>3
  <2> QED
    BY <2>1, <2>4, TimeIsNat DEF Placed
<1>4. u[a].at = t[z].seen
  <2>1. PICK l \in 1..Len(h) : IsLast(h, y, l) /\ h[l].at = t[z].seen
    BY <1>2, <1>r DEF LastSeen
  <2>2. h[l].node = y /\ h[l].filtered /\ \A m \in (l + 1)..Len(h) : ~(h[m].node = y /\ h[m].filtered)
    BY <2>1 DEF IsLast
  <2>3. k = Len(h) + 1 /\ y = h[i].node
    BY DEF k, y
  <2>4. l \in i..(k - 1)
    <3>1. ~(i \in (l + 1)..Len(h))
      BY <2>2, <2>3
    <3> QED
      BY <1>1, <2>1, <2>3, <3>1
  <2>5. /\ h[a].node = y /\ h[a].filtered /\ \A m \in (a + 1)..(k - 1) : ~(h[m].node = y /\ h[m].filtered)
        /\ u[a] = h[a]
    <3>1. \A m \in i..(k - 1) : u[m] = h[m]
      BY <1>1, <2>3
    <3>2. \A m \in (a + 1)..(k - 1) : m \in i..(k - 1)
      BY <1>1, <1>3, <2>3
    <3>3. i \in i..(k - 1)
      BY <1>1, <2>3
    <3> QED
      BY <1>3, <2>3, <3>1, <3>2, <3>3
  <2>6. \A m \in (l + 1)..(k - 1) : ~(h[m].node = y /\ h[m].filtered)
    BY <1>1, <2>2, <2>3
  <2>7. a = l
    BY <1>1, <1>3, <2>2, <2>4, <2>5, <2>6, OneLast
  <2> QED
    BY <2>1, <2>5, <2>7
<1>5. /\ \A e \in 1..Len(t) : t[e].seen \in Nat /\ t[z].seen <= t[e].seen
      /\ \A e \in 1..Len(t) : t[e].node # g.node
      /\ OneEach(t, {NoNode})
  <2>1. t \in Seq(Entries(Ids, Seqs)) /\ OneEach(t, {NoNode})
    BY DEF Table
  <2>2. \A e \in 1..Len(t) : t[e] \in Entries(Ids, Seqs)
    BY <2>1
  <2>3. \A e \in Entries(Ids, Seqs) : e.seen \in Nat
    BY DEF Entries
  <2> QED
    BY <1>2, <2>1, <2>2, <2>3 DEF Known
<1>6. \A l \in 1..k : u[l].filtered /\ u[l].at >= u[a].at /\ u[l].node # y => u[l].node \in SinceIn(u, i, k)
  <2>1. u[i].node = y
    BY <1>1 DEF y
  <2> QED
    BY <2>1 DEF SinceIn, a
<1> DEFINE T == SinceIn(u, i, k)
           f == [m \in 1..MaxNodes |-> IF m = z THEN g.node ELSE t[m].node]
<1>7. g.node \in T
  <2>1. k \in 1..k /\ u[k] = g /\ g.at >= u[a].at
    <3>1. g.at \in Nat
      BY DEF HeardFrame
    <3>2. t[z].seen \in Nat /\ t[z].seen <= g.at
      BY <1>2, <1>5
    <3>3. k \in 1..k
      BY <1>1 DEF k
    <3> QED
      BY <1>1, <1>4, <3>1, <3>2, <3>3
  <2> QED
    BY <1>6, <2>1 DEF y
<1>8. ASSUME NEW m \in 1..MaxNodes, m # z PROVE t[m].node \in T
  <2>1. PICK l \in 1..Len(h) : IsLast(h, t[m].node, l) /\ h[l].at = t[m].seen
    BY <1>2, <1>8, <1>r DEF LastSeen
  <2>2. l \in 1..k /\ u[l] = h[l] /\ u[l].node = t[m].node /\ u[l].filtered /\ u[l].at = t[m].seen
    BY <1>1, <2>1 DEF IsLast, k
  <2>3. u[l].at >= u[a].at
    BY <1>2, <1>4, <1>5, <2>2
  <2>4. t[m].node # y
    BY <1>2, <1>5, <1>8, <1>r DEF OneEach
  <2> QED
    BY <1>6, <2>2, <2>3, <2>4
<1>9. f \in Injection(1..MaxNodes, T)
  <2>1. \A m \in 1..MaxNodes : f[m] \in T
    BY <1>7, <1>8
  <2>2. \A m, j \in 1..MaxNodes : f[m] = f[j] => m = j
    BY <1>2, <1>5, <1>r DEF OneEach
  <2> QED
    BY <2>1, <2>2 DEF Injection, IsInjective
<1>10. IsFiniteSet(T)
  BY <1>1, SinceFinite
<1> HIDE DEF T, f
<1>11. Cardinality(1..MaxNodes) <= Cardinality(T)
  BY <1>9, <1>10, FS_Injection
<1>12. Cardinality(1..MaxNodes) = MaxNodes
  BY <1>2, UpTo
<1>13. Cardinality(T) \in Nat
  BY <1>10, FS_CardinalityType
<1> QED
  BY <1>2, <1>11, <1>12, <1>13 DEF T, u, k

LEMMA LastSeenStays ==
    ASSUME NEW h \in Seq(HeardFrame), NEW g \in HeardFrame, NEW t, Table(t, Ids, Seqs, {NoNode}), LastSeen(h, t), NEW u,
           \/ g.filtered /\ u = After(t, g.node, g.seq, g.at)
           \/ ~g.filtered /\ u = t
    PROVE  LastSeen(Append(h, g), u)
<1> DEFINE v == Append(h, g)
<1>1. /\ Len(v) = Len(h) + 1 /\ Len(h) \in Nat /\ v[Len(h) + 1] = g
      /\ \A j \in 1..Len(h) : v[j] = h[j]
  OBVIOUS
<1> HIDE DEF v
<1>2. ASSUME NEW n, NEW l, IsLast(h, n, l), ~(g.filtered /\ g.node = n) PROVE IsLast(v, n, l)
  <2>1. /\ l \in 1..Len(h) /\ h[l].node = n /\ h[l].filtered
        /\ \A m \in (l + 1)..Len(h) : ~(h[m].node = n /\ h[m].filtered)
    BY <1>2 DEF IsLast
  <2>2. ASSUME NEW m \in (l + 1)..Len(v) PROVE ~(v[m].node = n /\ v[m].filtered)
    <3>1. CASE m = Len(h) + 1
      BY <1>1, <1>2, <3>1
    <3>2. CASE m # Len(h) + 1
      <4>1. m \in (l + 1)..Len(h) /\ m \in 1..Len(h)
        BY <1>1, <2>1, <3>2
      <4> QED
        BY <1>1, <2>1, <4>1
    <3> QED
      BY <3>1, <3>2
  <2>3. l \in 1..Len(v) /\ v[l] = h[l]
    BY <1>1, <2>1
  <2> QED
    BY <2>1, <2>2, <2>3 DEF IsLast
<1>3. CASE ~g.filtered /\ u = t
  <2> SUFFICES ASSUME NEW e \in 1..Len(u), u[e].node # NoNode PROVE \E l \in 1..Len(v) : IsLast(v, u[e].node, l) /\ v[l].at = u[e].seen
    BY DEF LastSeen, v
  <2>1. PICK l \in 1..Len(h) : IsLast(h, t[e].node, l) /\ h[l].at = t[e].seen
    BY <1>3 DEF LastSeen
  <2>2. IsLast(v, t[e].node, l) /\ l \in 1..Len(v) /\ v[l] = h[l]
    BY <1>1, <1>2, <1>3, <2>1
  <2> QED
    BY <1>3, <2>1, <2>2
<1>4. CASE g.filtered /\ u = After(t, g.node, g.seq, g.at)
  <2> DEFINE n == g.node
             s == g.seq
             k == Slot(t, n)
             e0 == Touched(t, n, g.at)
  <2>1. n \in Nodes /\ s \in Seqs /\ g.at \in Nat
    BY DEF HeardFrame
  <2>2. /\ k \in 1..Len(u) /\ u[k].node = n /\ u[k].seen = g.at
        /\ \A e \in 1..Len(u) : e # k => e \in 1..Len(t) /\ u[e] = t[e] /\ t[e].node # n
    <3>1. u = After(t, n, s, g.at) /\ k = Slot(t, n) /\ e0 = Touched(t, n, g.at)
      BY <1>4
    <3> HIDE DEF n, s, k, e0
    <3> QED
      BY <2>1, <3>1, TimeIsNat, TableAfter
  <2> HIDE DEF k
  <2> SUFFICES ASSUME NEW e \in 1..Len(u), u[e].node # NoNode PROVE \E l \in 1..Len(v) : IsLast(v, u[e].node, l) /\ v[l].at = u[e].seen
    BY DEF LastSeen, v
  <2>3. CASE e = k
    <3>1. Len(h) + 1 \in 1..Len(v) /\ IsLast(v, n, Len(h) + 1)
      BY <1>1, <1>4 DEF IsLast
    <3> QED
      BY <1>1, <2>2, <2>3, <3>1
  <2>4. CASE e # k
    <3>1. PICK l \in 1..Len(h) : IsLast(h, t[e].node, l) /\ h[l].at = t[e].seen
      BY <2>2, <2>4 DEF LastSeen
    <3>2. IsLast(v, t[e].node, l) /\ l \in 1..Len(v) /\ v[l] = h[l]
      BY <1>1, <1>2, <2>2, <2>4, <3>1
    <3> QED
      BY <2>2, <2>4, <3>1, <3>2
  <2> QED
    BY <2>3, <2>4
<1> QED
  BY <1>3, <1>4 DEF v

\* A number in a ring is one of the last History.
LEMMA AgeBounded ==
    ASSUME NEW N, NEW S, NEW B, NEW t, Table(t, N, S, B), NEW n, NEW s, NEW a, InRing(t, n, s, a)
    PROVE  a \in Nat /\ a < History
<1>1. PICK e \in 1..Len(t) : \E p \in 1..Len(t[e].seqs) : Age(t[e], p) = a
  BY DEF InRing
<1>2. t[e] \in Entries(N, S) /\ Filled(t[e])
  BY DEF Table
<1>3. t[e].next \in 0..History - 1 /\ Len(t[e].seqs) \in Nat /\ Len(t[e].seqs) <= History /\ History \in Nat
  BY <1>2, TableAssumption DEF Entries, Filled
<1> QED
  BY <1>1, <1>3 DEF Age

LEMMA ForgottenStays ==
    ASSUME NEW h \in Seq(HeardFrame), NEW g \in HeardFrame, NEW i \in 1..Len(h), h[i].filtered, Forgotten(h, i)
    PROVE  Forgotten(Append(h, g), i)
<1> DEFINE u == Append(h, g)
<1>1. Len(u) = Len(h) + 1 /\ Len(h) \in Nat /\ Len(u) + 1 = Len(h) + 2
  OBVIOUS
<1>2. CASE Cardinality(PushesIn(h, i, Len(h) + 1)) >= History
  <2> DEFINE c == Cardinality(PushesIn(h, i, Len(h) + 1))
             d == Cardinality(PushesIn(u, i, Len(u) + 1))
  <2>1. c \in Nat /\ History \in Nat
    <3>1. Len(h) + 1 \in Nat
      BY <1>1
    <3> QED
      BY <3>1, PushesCount, TableAssumption
  <2>2. d = c \/ d = c + 1
    BY <1>1, PushesAppend
  <2>3. c >= History
    BY <1>2
  <2> HIDE DEF c, d
  <2>4. d >= History
    BY <2>1, <2>2, <2>3
  <2> QED
    BY <2>4 DEF Forgotten, d
<1>3. CASE \E k \in (i + 1)..Len(h) : Cardinality(SinceIn(h, i, k)) >= MaxNodes
  <2>1. PICK k \in (i + 1)..Len(h) : Cardinality(SinceIn(h, i, k)) >= MaxNodes
    BY <1>3
  <2>2. SinceIn(u, i, k) = SinceIn(h, i, k)
    BY SinceStays
  <2>3. k \in (i + 1)..Len(u)
    BY <1>1
  <2> HIDE DEF u
  <2>4. Cardinality(SinceIn(u, i, k)) >= MaxNodes
    BY <2>1, <2>2
  <2> QED
    BY <2>3, <2>4 DEF Forgotten, u
<1> QED
  BY <1>2, <1>3 DEF Forgotten

\* What the filter knew of a frame it still knows after the next, or may have forgotten.
LEMMA RemembersStays ==
    ASSUME NEW h \in Seq(HeardFrame), NEW g \in HeardFrame, NEW t, Table(t, Ids, Seqs, {NoNode}),
           LastSeen(h, t), Remembers(h, t), NEW u,
           \/ /\ g.filtered /\ u = After(t, g.node, g.seq, g.at)
              /\ \A e \in 1..Len(t) : t[e].seen <= g.at /\ Placed(t[e])
              /\ g.stored <=> ShouldStore(t, g.node, g.seq)
           \/ ~g.filtered /\ u = t
    PROVE  Remembers(Append(h, g), u)
<1> DEFINE v == Append(h, g)
<1>1. /\ Len(v) = Len(h) + 1 /\ Len(h) \in Nat /\ v[Len(h) + 1] = g
      /\ \A j \in 1..Len(h) : v[j] = h[j]
      /\ Len(v) + 1 = Len(h) + 2
  OBVIOUS
<1>2. /\ g.node \in Nodes /\ g.node \in Ids /\ g.node \notin {NoNode}
      /\ g.seq \in Seqs /\ g.at \in Nat /\ History \in Nat
  BY TableAssumption, TimeIsNat DEF HeardFrame
<1> SUFFICES ASSUME NEW i \in 1..Len(v), v[i].stored, v[i].filtered
             PROVE  \/ Forgotten(v, i)
                    \/ InRing(u, v[i].node, v[i].seq, Cardinality(PushesIn(v, i, Len(v) + 1)))
  BY DEF Remembers
<1>3. CASE i = Len(h) + 1
  <2>1. g.stored /\ g.filtered /\ v[i] = g
    BY <1>1, <1>3
  <2>2. InRing(u, g.node, g.seq, 0)
    BY <1>2, <2>1, RingStep
  <2>3. Cardinality(PushesIn(v, i, Len(v) + 1)) = 0
    BY <1>1, <1>3, PushesAppend
  <2> QED
    BY <2>1, <2>2, <2>3
<1>4. CASE i # Len(h) + 1
  <2> DEFINE c == Cardinality(PushesIn(h, i, Len(h) + 1))
             d == Cardinality(PushesIn(v, i, Len(v) + 1))
             y == h[i].node
             x == h[i].seq
  <2>1. i \in 1..Len(h) /\ v[i] = h[i] /\ h[i].stored /\ h[i].filtered
    BY <1>1, <1>4
  <2>2. d = IF g.node = y /\ g.stored /\ g.filtered THEN c + 1 ELSE c
    BY <1>1, <2>1, PushesAppend
  <2>3. Forgotten(h, i) \/ InRing(t, y, x, c)
    BY <2>1 DEF Remembers
  <2>4. c \in Nat
    <3>1. Len(h) + 1 \in Nat
      BY <1>1
    <3> QED
      BY <2>1, <3>1, PushesCount
  <2>5. Forgotten(h, i) => Forgotten(v, i)
    BY <2>1, ForgottenStays
  <2>6. d >= History => Forgotten(v, i)
    BY DEF Forgotten
  <2>7. ASSUME g.filtered, y # g.node, Evicts(t, g.node, y) PROVE Forgotten(v, i)
    <3>1. Cardinality(SinceIn(v, i, Len(h) + 1)) >= MaxNodes
      BY <2>1, <2>7, EvictedLate
    <3>2. Len(h) + 1 \in (i + 1)..Len(v)
      BY <1>1, <2>1
    <3> QED
      BY <3>1, <3>2 DEF Forgotten
  <2> HIDE DEF c, d, v
  <2>8. ASSUME InRing(t, y, x, c) PROVE Forgotten(v, i) \/ InRing(u, y, x, d)
    <3>1. CASE ~g.filtered
      BY <1>1, <2>2, <2>8, <3>1
    <3>2. CASE g.filtered /\ ~g.stored
      <4>1. d = c
        BY <2>2, <3>2
      <4>2. InRing(u, y, x, c)
        BY <1>2, <2>8, <3>2, RingStep
      <4> QED
        BY <4>1, <4>2
    <3>3. CASE g.filtered /\ g.stored /\ y = g.node
      <4>1. d = c + 1
        BY <2>2, <3>3
      <4>2. CASE c + 1 < History
        <5>1. InRing(u, g.node, x, c + 1)
          BY <1>2, <2>4, <2>8, <3>3, <4>2, RingStep
        <5> QED
          BY <3>3, <4>1, <5>1
      <4>3. CASE ~(c + 1 < History)
        <5>1. d >= History
          BY <1>2, <2>4, <4>1, <4>3
        <5> QED
          BY <2>6, <5>1
      <4> QED
        BY <4>2, <4>3
    <3>4. CASE g.filtered /\ g.stored /\ y # g.node
      <4>1. d = c
        BY <2>2, <3>4
      <4>2. CASE Evicts(t, g.node, y)
        BY <2>7, <3>4, <4>2
      <4>3. CASE ~Evicts(t, g.node, y)
        <5>1. InRing(u, y, x, c)
          BY <1>2, <2>8, <3>4, <4>3, RingStep
        <5> QED
          BY <4>1, <5>1
      <4> QED
        BY <4>2, <4>3
    <3> QED
      BY <3>1, <3>2, <3>3, <3>4
  <2> QED
    BY <2>1, <2>3, <2>5, <2>8 DEF d
<1> QED
  BY <1>3, <1>4

\* A frame that is stored in spite of an earlier copy has been forgotten.
LEMMA ForgottenOrRefused ==
    ASSUME NEW h \in Seq(HeardFrame), NEW g \in HeardFrame, g.filtered, g.stored, NEW t, Table(t, Ids, Seqs, {NoNode}),
           Remembers(h, t), g.stored <=> ShouldStore(t, g.node, g.seq),
           NEW i \in 1..Len(h), h[i].stored, h[i].filtered, h[i].node = g.node, h[i].seq = g.seq
    PROVE  Forgotten(h, i)
<1>1. Forgotten(h, i) \/ InRing(t, h[i].node, h[i].seq, Cardinality(PushesIn(h, i, Len(h) + 1)))
  BY DEF Remembers
<1>2. g.node \in Ids /\ g.node \notin {NoNode}
  BY TimeIsNat DEF HeardFrame
<1>3. ~Holds(t, g.node, g.seq)
  BY <1>2, RefusedIsHeld
<1>4. \A y, x, a : InRing(t, y, x, a) => Holds(t, y, x)
  BY DEF InRing, Holds
<1> QED
  BY <1>1, <1>3, <1>4

ForgottenBetween(h, i, j) ==
    \/ Cardinality(PushesIn(h, i, j)) >= History
    \/ \E k \in (i + 1)..(j - 1) : Cardinality(SinceIn(h, i, k)) >= MaxNodes
TwiceOnlyIfForgotten(h) ==
    \A i, j \in 1..Len(h) :
        /\ i < j /\ h[i].node = h[j].node /\ h[i].seq = h[j].seq
        /\ h[i].stored /\ h[i].filtered /\ h[j].stored /\ h[j].filtered
        => ForgottenBetween(h, i, j)

FilterForgets ==
    FilterSound /\ LastSeen(heard, filter) /\ Remembers(heard, filter) /\ TwiceOnlyIfForgotten(heard)

LEMMA SameCount == \A S : Cardinality(S) = Cardinality(S)
BY Zenon DEF Cardinality, Cardinality

LEMMA SameProperty == TwiceOnlyIfForgotten(heard) => StoredTwiceOnlyIfForgotten
<1>1. ASSUME NEW i, NEW j, ForgottenBetween(heard, i, j)
      PROVE  \/ Cardinality(Pushes(i, j)) >= History
             \/ \E k \in (i + 1)..(j - 1) : Cardinality(HeardSince(i, k)) >= MaxNodes
  <2>1. Pushes(i, j) = PushesIn(heard, i, j)
    BY DEF Pushes, PushesIn
  <2>2. \A k : HeardSince(i, k) = SinceIn(heard, i, k)
    BY DEF HeardSince, SinceIn, LastOf, LastIn
  <2> QED
    BY <1>1, <2>1, <2>2, SameCount DEF ForgottenBetween
<1>2. ASSUME TwiceOnlyIfForgotten(heard), NEW i \in 1..Len(heard), NEW j \in 1..Len(heard)
      PROVE  /\ i < j /\ SameFrame(i, j)
             /\ heard[i].stored /\ heard[i].filtered /\ heard[j].stored /\ heard[j].filtered
             => \/ Cardinality(Pushes(i, j)) >= History
                \/ \E k \in (i + 1)..(j - 1) : Cardinality(HeardSince(i, k)) >= MaxNodes
  BY <1>1, <1>2 DEF TwiceOnlyIfForgotten, SameFrame
<1> QED
  BY Zenon, <1>2 DEF StoredTwiceOnlyIfForgotten

LEMMA TwiceStays ==
    ASSUME NEW h \in Seq(HeardFrame), NEW g \in HeardFrame, NEW t, Table(t, Ids, Seqs, {NoNode}),
           Remembers(h, t), TwiceOnlyIfForgotten(h),
           g.filtered => (g.stored <=> ShouldStore(t, g.node, g.seq))
    PROVE  TwiceOnlyIfForgotten(Append(h, g))
<1> DEFINE v == Append(h, g)
<1>1. /\ v \in Seq(HeardFrame) /\ Len(v) = Len(h) + 1 /\ Len(h) \in Nat /\ v[Len(h) + 1] = g
      /\ \A j \in 1..Len(h) : v[j] = h[j]
  OBVIOUS
<1>2. \A i \in 1..Len(h) : \A j \in 1..(Len(h) + 1) : PushesIn(v, i, j) = PushesIn(h, i, j)
  BY PushesAppend
<1>3. ASSUME NEW i \in 1..Len(h), h[i].filtered, NEW j \in 1..(Len(h) + 1), ForgottenBetween(h, i, j)
      PROVE  ForgottenBetween(v, i, j)
  <2>1. ASSUME NEW k \in (i + 1)..(j - 1) PROVE SinceIn(v, i, k) = SinceIn(h, i, k)
    <3>1. k \in (i + 1)..Len(h)
      BY <1>1
    <3> QED
      BY <1>3, <3>1, SinceStays
  <2> HIDE DEF v
  <2> QED
    BY <1>2, <1>3, <2>1 DEF ForgottenBetween
<1> SUFFICES ASSUME NEW i \in 1..Len(v), NEW j \in 1..Len(v), i < j, v[i].node = v[j].node, v[i].seq = v[j].seq,
                    v[i].stored, v[i].filtered, v[j].stored, v[j].filtered
             PROVE  ForgottenBetween(v, i, j)
  BY DEF TwiceOnlyIfForgotten
<1>4. i \in 1..Len(h) /\ v[i] = h[i] /\ j \in 1..(Len(h) + 1)
  BY <1>1
<1>5. CASE j = Len(h) + 1
  <2>0. /\ g.filtered /\ g.stored /\ h[i].stored /\ h[i].filtered
        /\ h[i].node = g.node /\ h[i].seq = g.seq
    BY <1>1, <1>4, <1>5
  <2>1. Forgotten(h, i)
    BY <1>4, <2>0, ForgottenOrRefused
  <2>2. Len(h) + 1 - 1 = Len(h)
    BY <1>1
  <2>3. ForgottenBetween(h, i, j)
    BY <1>5, <2>1, <2>2 DEF Forgotten, ForgottenBetween
  <2> QED
    BY <1>3, <1>4, <2>3
<1>6. CASE j # Len(h) + 1
  <2>1. j \in 1..Len(h) /\ v[j] = h[j]
    BY <1>1, <1>4, <1>6
  <2>2. ForgottenBetween(h, i, j)
    BY <1>4, <2>1 DEF TwiceOnlyIfForgotten
  <2> QED
    BY <1>3, <1>4, <2>2
<1> QED
  BY <1>5, <1>6

LEMMA ForgetsStays == FilterForgets /\ [FilterNext]_filterVars => FilterForgets'
<1> SUFFICES ASSUME FilterForgets, [FilterNext]_filterVars PROVE FilterForgets'
  OBVIOUS
<1>0. /\ Table(filter, Ids, Seqs, {NoNode}) /\ time \in 1..MaxTime /\ heard \in Seq(HeardFrame) /\ time \in Nat
      /\ \A i \in 1..Len(filter) : filter[i].seen <= time /\ Placed(filter[i])
      /\ Len(filter) \in Nat /\ Len(filter) <= MaxNodes
      /\ LastSeen(heard, filter) /\ Remembers(heard, filter) /\ TwiceOnlyIfForgotten(heard)
  BY DEF FilterForgets, FilterSound, Table
<1>1. FilterSound'
  BY SoundStays DEF FilterForgets
<1>2. CASE Elapsed
  <2>1. filter' = filter /\ heard' = heard
    BY <1>2 DEF Elapsed
  <2> QED
    BY <1>0, <1>1, <2>1 DEF FilterForgets
<1>3. CASE Emptied
  <2>0. heard' = <<>> /\ \A i \in 1..Len(filter') : filter'[i].node = NoNode
    BY <1>3, EmptiedTable DEF Emptied, NewEntry
  <2>1. LastSeen(heard', filter') /\ Remembers(heard', filter') /\ TwiceOnlyIfForgotten(heard')
    BY <2>0 DEF LastSeen, Remembers, TwiceOnlyIfForgotten
  <2> QED
    BY <1>1, <2>1 DEF FilterForgets
<1>4. ASSUME NEW g \in HeardFrame, Filtered(g) \/ Unfiltered(g) PROVE FilterForgets'
  <2>1. LastSeen(heard', filter') /\ Remembers(heard', filter') /\ TwiceOnlyIfForgotten(heard')
    <3>1. CASE Filtered(g)
      <4>1. /\ g.filtered /\ g.at = time /\ heard' = Append(heard, g)
            /\ g.stored <=> ShouldStore(filter, g.node, g.seq)
            /\ filter' = After(filter, g.node, g.seq, g.at)
        BY <3>1 DEF Filtered
      <4> QED
        BY <1>0, <4>1, LastSeenStays, RemembersStays, TwiceStays
    <3>2. CASE Unfiltered(g)
      <4>1. ~g.filtered /\ heard' = Append(heard, g) /\ filter' = filter
        BY <3>2 DEF Unfiltered
      <4> QED
        BY <1>0, <4>1, LastSeenStays, RemembersStays, TwiceStays
    <3> QED
      BY <1>4, <3>1, <3>2
  <2> QED
    BY <1>1, <2>1 DEF FilterForgets
<1> QED
  BY <1>0, <1>2, <1>3, <1>4, FrameSteps

\* A record is stored twice only when its ring has taken DEDUP_HISTORY_PER_NODE other
\* numbers since, or DEDUP_MAX_NODES other nodes have been heard since its node last
\* was: the filter forgets nothing sooner (esp_now_manager.c:66-80, 97-102).
THEOREM ForgetsLate == FilterSpec => []StoredTwiceOnlyIfForgotten
<1>1. FilterForgets /\ [FilterNext]_filterVars => FilterForgets'
  BY ForgetsStays
<1>2. FilterInit => FilterForgets
  <2> SUFFICES ASSUME FilterInit PROVE FilterForgets
    OBVIOUS
  <2>1. FilterSound
    BY InitHears DEF FilterHears
  <2>2. LastSeen(heard, filter) /\ Remembers(heard, filter) /\ TwiceOnlyIfForgotten(heard)
    BY DEF FilterInit, EmptyTable, LastSeen, Remembers, TwiceOnlyIfForgotten
  <2> QED
    BY <2>1, <2>2 DEF FilterForgets
<1>3. FilterForgets => StoredTwiceOnlyIfForgotten
  BY SameProperty DEF FilterForgets
<1> QED
  BY <1>1, <1>2, <1>3, PTL DEF FilterSpec
=============================================================================
