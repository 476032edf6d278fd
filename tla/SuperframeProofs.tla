-------------------------- MODULE SuperframeProofs --------------------------
(***************************************************************************)
(* What TLC checks of Superframe for two members and short phases, *)
(* proved for every number of members and every length of the phases, the  *)
(* guards, the slots, the sends and the drains.                            *)
(***************************************************************************)
EXTENDS Superframe, FiniteSetTheorems, TLAPS

\* A round of schedules is sent in DATA, and only a round has a send to wait for.
RoundInData ==
    /\ phase[CH] = "data" => clock[CH] >= Stellar
    /\ round # <<>> => phase[CH] = "data"
    /\ backup => round # <<>>
    /\ wait > 0 => backup

\* Who heard a schedule entered its DATA phase when the head did or later, give or take what
\* a clock may be off.
HeardInData ==
    phase[CH] = "data" /\ clock[CH] + Slack < Frame =>
        \A m \in heard \ undone : Stellar <= clock[m] + Slack /\ clock[m] <= clock[CH] + Slack

SlotStart(s) == s.slot * SlotLen

\* A schedule that counts is as old as the member's DATA phase, or older.
Aged ==
    \A m \in Members :
        /\ SlotStart(sched[m]) <= sched[m].age
        /\ sched[m].age < Validity => clock[m] + SlotStart(sched[m]) <= Stellar + Slack + sched[m].age

\* A drain holds the loop up, and what is left of it fits into what is left of DATA.
Drains ==
    \A m \in Members :
        /\ m \in due => drain[m] = 0
        /\ drain[m] > 0 => Stellar <= clock[m] /\ clock[m] + drain[m] <= Frame

\* The slots of the last DATA phase began before the head's STELLAR phase did.
Spilled ==
    \A m \in Members :
        phase[CH] = "stellar" =>
            /\ sched[m].age < Validity => SlotStart(sched[m]) + clock[CH] <= sched[m].age
            /\ drain[m] > 0 => clock[CH] + drain[m] <= LongestDrain

\* A member's loop runs in every tick in which it is not draining.
MembersOnTime ==
    \A m \in Members :
        /\ clock[m] <= Frame
        /\ m \notin due /\ drain[m] = 0 => clock[m] < Frame

Unsent == IF backup THEN Len(round) - 1 ELSE Len(round)

\* The head's loop runs in every tick in which no schedule is being sent; one that is sent
\* still has SendTicks for each member it has not tried.
HeadOnTime ==
    /\ CH \in due => round = <<>> /\ clock[CH] <= Frame + Longest
    /\ CH \notin due => clock[CH] + wait + Unsent * SendTicks < Frame + Longest

IInv ==
    /\ TypeOK /\ RoundInData /\ HeardInData /\ Aged /\ Drains /\ Spilled
    /\ MembersOnTime /\ HeadOnTime

----------------------------------------------------------------------------
(* Slots.                                                                   *)

LEMMA HowManyMembers == Cardinality(Members) \in Nat \ {0}
<1>1. IsFiniteSet(Members) /\ Members # {}
  BY SuperframeAssumption
<1> QED
  BY <1>1, FS_CardinalityType, FS_EmptySet

LEMMA Shares ==
    ASSUME NEW a \in Nat, NEW k \in Nat \ {0}
    PROVE  a \div k \in Nat /\ k * (a \div k) <= a /\ (k <= a => a \div k >= 1)
OBVIOUS

LEMMA Products ==
    \A a, b, c \in Nat : b <= c => b * a \in Nat /\ b * a <= c * a /\ (b + 1) * a = b * a + a
OBVIOUS

\* Every slot lies in what DATA leaves after the guard.
LEMMA Slots ==
    /\ Scheduled \in Nat \ {0} /\ SlotLen \in Nat
    /\ SlotLen <= Data /\ SlotLen + Guard <= Data
    /\ \A i \in 0..Scheduled - 1 :
        i * SlotLen \in Nat /\ i * SlotLen + SlotLen <= Data /\ (i + 1) * SlotLen = i * SlotLen + SlotLen
<1>1. Available \in Nat /\ Available <= Data /\ MinSlot \in Nat \ {0} /\ MinSlot <= Available
  BY SuperframeAssumption DEF Available
<1>0. Available + Guard = Data
  BY SuperframeAssumption DEF Available
<1>2. Scheduled \in Nat \ {0}
  BY <1>1, HowManyMembers, Shares DEF Scheduled
<1>3. SlotLen \in Nat /\ Scheduled * SlotLen <= Available
  BY <1>1, <1>2, Shares DEF SlotLen
<1>4. ASSUME NEW i \in 0..Scheduled - 1
      PROVE  i * SlotLen \in Nat /\ i * SlotLen + SlotLen <= Available
             /\ (i + 1) * SlotLen = i * SlotLen + SlotLen
  <2>1. i \in Nat /\ i + 1 \in Nat /\ i + 1 <= Scheduled /\ i <= i + 1
    BY <1>2
  <2>2. (i + 1) * SlotLen <= Scheduled * SlotLen
    BY <2>1, <1>2, <1>3, Products
  <2>3. i * SlotLen \in Nat /\ (i + 1) * SlotLen = i * SlotLen + SlotLen
    BY <2>1, <1>3, Products
  <2>4. (i + 1) * SlotLen \in Nat /\ Scheduled * SlotLen \in Nat
    BY <2>1, <1>2, <1>3, Products
  <2> QED
    BY <2>2, <2>3, <2>4, <1>1, <1>3
<1>5. SlotLen <= Available
  <2>1. 0 \in 0..Scheduled - 1 /\ 0 * SlotLen = 0
    BY <1>2, <1>3
  <2> QED
    BY <2>1, <1>4, <1>3
<1> QED
  BY <1>0, <1>1, <1>2, <1>3, <1>4, <1>5, SuperframeAssumption

LEMMA Constants ==
    /\ {Stellar, Data, Resend, MinSlot, Validity} \subseteq Nat \ {0}
    /\ Stellar \in Nat \ {0} /\ Data \in Nat \ {0} /\ Validity \in Nat \ {0}
    /\ SendTicks \in Nat /\ Resend \in Nat \ {0} /\ Data <= Validity
    /\ Guard \in Nat /\ Slack \in Nat /\ Margin \in Nat /\ ChunkTicks \in Nat
    /\ Slack < Stellar /\ Slack < Data /\ Slack + ChunkTicks <= Guard + Margin
    /\ LongestDrain \in Nat /\ LongestDrain = SlotLen + ChunkTicks
    /\ Frame = Stellar + Data /\ Longest \in Nat
    /\ CH \in Nodes /\ CH \notin Members /\ Members \subseteq Nodes
    /\ \A n \in Nodes : n = CH \/ n \in Members
<1>1. Longest \in Nat
  BY Slots, SuperframeAssumption, Products DEF Longest
<1>2. LongestDrain \in Nat /\ LongestDrain = SlotLen + ChunkTicks
  BY Slots, SuperframeAssumption DEF LongestDrain
<1> QED
  BY <1>1, <1>2, SuperframeAssumption DEF Frame, Nodes

LEMMA OrdersAreRounds ==
    ASSUME NEW o \in Orders
    PROVE  o \in Seq(Members) /\ Len(o) = Scheduled /\ o # <<>>
BY Slots DEF Orders

----------------------------------------------------------------------------
(* The initial states.                                                      *)

LEMMA InitIInv == Init => IInv
<1> SUFFICES ASSUME Init PROVE IInv
  OBVIOUS
<1> USE Constants, Slots
<1>1. /\ \A n \in Nodes : clock[n] \in 0..Frame - 1 /\ phase[n] = PhaseAt(clock[n])
      /\ clock \in [Nodes -> 0..Frame - 1] /\ clock[CH] = 0
      /\ \A m \in Members : sched[m] = NoSchedule /\ drain[m] = 0
      /\ due = {} /\ round = <<>> /\ backup = FALSE /\ wait = 0 /\ heard = {} /\ undone = {} /\ ending = {}
  BY DEF Init
<1>2. NoSchedule.slot = 0 /\ NoSchedule.age = Validity /\ 0 * SlotLen = 0
  BY DEF NoSchedule
<1>3. TypeOK
  <2>1. clock \in [Nodes -> 0..Frame + Longest]
    BY <1>1
  <2>2. phase \in [Nodes -> {"stellar", "data"}]
    BY DEF Init, PhaseAt
  <2>3. sched \in [Members -> [slot : 0..Scheduled - 1, age : 0..Validity]]
    BY DEF Init, NoSchedule
  <2>4. drain \in [Members -> 0..LongestDrain]
    BY DEF Init
  <2>8. since \in 0..Resend
    BY DEF Init
  <2>9. sent \in BOOLEAN /\ backup \in BOOLEAN
    BY Zenon DEF Init
  <2>6. round \in Seq(Members) /\ Len(round) <= Scheduled
    BY <1>1
  <2>7. wait \in 0..SendTicks
    BY <1>1
  <2> QED
    BY <1>1, <2>1, <2>2, <2>3, <2>4, <2>6, <2>7, <2>8, <2>9 DEF TypeOK
<1>4. RoundInData
  BY <1>1 DEF RoundInData, PhaseAt
<1>5. HeardInData /\ Drains
  BY <1>1 DEF HeardInData, Drains
<1>6. Aged /\ Spilled
  BY <1>1, <1>2 DEF Aged, Spilled, SlotStart
<1>7. MembersOnTime
  <2>1. \A m \in Members : clock[m] \in 0..Frame - 1
    BY <1>1
  <2>2. Frame \in Nat
    OBVIOUS
  <2>3. \A m \in Members : clock[m] < Frame /\ clock[m] <= Frame
    BY <2>1, <2>2
  <2> QED
    BY <2>3 DEF MembersOnTime
<1>8. HeadOnTime
  BY <1>1 DEF HeadOnTime, Unsent
<1> QED
  BY <1>3, <1>4, <1>5, <1>6, <1>7, <1>8 DEF IInv

----------------------------------------------------------------------------
(* What the steps do.                                                       *)

LEMMA Types ==
    ASSUME TypeOK
    PROVE  /\ clock[CH] \in Nat /\ phase[CH] \in {"stellar", "data"}
           /\ \A n \in Nodes : clock[n] \in Nat /\ phase[n] \in {"stellar", "data"}
           /\ \A m \in Members :
               /\ clock[m] \in Nat /\ phase[m] \in {"stellar", "data"}
               /\ sched[m].slot \in 0..Scheduled - 1 /\ sched[m].age \in 0..Validity
               /\ drain[m] \in 0..LongestDrain /\ drain[m] \in Nat
               /\ SlotStart(sched[m]) \in Nat
           /\ round \in Seq(Members) /\ Len(round) \in Nat
           /\ wait \in Nat /\ backup \in BOOLEAN /\ heard \subseteq Members
<1> USE Constants, Slots
<1>1. \A m \in Members : sched[m] \in [slot : 0..Scheduled - 1, age : 0..Validity]
  BY DEF TypeOK
<1>2. \A m \in Members : SlotStart(sched[m]) \in Nat
  BY <1>1 DEF SlotStart
<1> QED
  BY <1>1, <1>2 DEF TypeOK

LEMMA TickEffect ==
    ASSUME TypeOK, Tick
    PROVE  /\ due = {} /\ (round = <<>> \/ wait > 0)
           /\ clock'[CH] = clock[CH] + 1 /\ phase' = phase /\ heard' = heard /\ undone' = undone
           /\ round' = round /\ backup' = backup /\ wait' = Less(wait)
           /\ CH \in due' => round = <<>>
           /\ CH \notin due' => round # <<>>
           /\ \A m \in Members :
               /\ clock'[m] = clock[m] + 1
               /\ sched'[m].slot = sched[m].slot
               /\ sched'[m].age = (IF sched[m].age < Validity THEN sched[m].age + 1 ELSE sched[m].age)
               /\ SlotStart(sched'[m]) = SlotStart(sched[m])
               /\ drain'[m] = Less(drain[m])
               /\ m \in due' => drain'[m] = 0
               /\ m \notin due' => drain'[m] # 0
<1> USE Constants
<1>1. \A m \in Members : /\ sched'[m].slot = sched[m].slot
                         /\ sched'[m].age = (IF sched[m].age < Validity THEN sched[m].age + 1 ELSE sched[m].age)
  <2>1. TAKE m \in Members
  <2>2. sched'[m] = [sched[m] EXCEPT !.age = More(@, Validity)]
    BY DEF Tick
  <2>3. sched[m] \in [slot : 0..Scheduled - 1, age : 0..Validity]
    BY DEF TypeOK
  <2>4. sched'[m].slot = sched[m].slot /\ sched'[m].age = More(sched[m].age, Validity)
    BY <2>2, <2>3
  <2> QED
    BY <2>3, <2>4 DEF More
<1>2. due' = {m \in Members : drain'[m] = 0} \cup (IF round = <<>> THEN {CH} ELSE {})
  BY DEF Tick
<1>3. \A m \in Members : clock'[m] = clock[m] + 1 /\ drain'[m] = Less(drain[m])
  BY DEF Tick
<1>4. \A m \in Members : SlotStart(sched'[m]) = SlotStart(sched[m])
  BY <1>1 DEF SlotStart
<1>5. /\ due = {} /\ (round = <<>> \/ wait > 0)
      /\ clock'[CH] = clock[CH] + 1 /\ phase' = phase /\ heard' = heard /\ undone' = undone
      /\ round' = round /\ backup' = backup /\ wait' = Less(wait)
  BY DEF Tick, history
<1> QED
  BY <1>1, <1>2, <1>3, <1>4, <1>5

LEMMA HeadEffect ==
    ASSUME TypeOK, HeadLoop
    PROVE  /\ CH \in due /\ round = <<>> /\ CH \notin due'
           /\ clock'[CH] = Wrapped(clock[CH]) /\ phase'[CH] = PhaseAt(Wrapped(clock[CH]))
           /\ heard' = (IF phase'[CH] # phase[CH] /\ phase'[CH] = "data" THEN {} ELSE heard)
           /\ round' # <<>> => phase'[CH] = "data" /\ round' \in Orders
           /\ UNCHANGED <<backup, wait, sched, drain, undone>>
           /\ \A m \in Members : /\ clock'[m] = clock[m] /\ phase'[m] = phase[m]
                                 /\ m \in due' <=> m \in due
<1> USE Constants
<1>1. /\ clock' = [clock EXCEPT ![CH] = Wrapped(clock[CH])]
      /\ phase' = [phase EXCEPT ![CH] = PhaseAt(Wrapped(clock[CH]))]
      /\ CH \in due /\ round = <<>> /\ due' = due \ {CH}
      /\ UNCHANGED <<backup, wait, sched, drain, undone>>
  BY DEF HeadLoop
<1>2. /\ clock'[CH] = Wrapped(clock[CH]) /\ phase'[CH] = PhaseAt(Wrapped(clock[CH]))
      /\ \A m \in Members : clock'[m] = clock[m] /\ phase'[m] = phase[m]
  BY <1>1 DEF TypeOK
<1>3. heard' = (IF phase'[CH] # phase[CH] /\ phase'[CH] = "data" THEN {} ELSE heard)
  BY <1>2 DEF HeadLoop
<1>4. round' # <<>> => phase'[CH] = "data" /\ round' \in Orders
  BY <1>1, <1>2 DEF HeadLoop, MaySchedule
<1> QED
  BY <1>1, <1>2, <1>3, <1>4

LEMMA Syncs ==
    ASSUME NEW c \in Nat
    PROVE  /\ Synced(c) \in Nat /\ Synced(c) < Frame
           /\ Stellar <= Synced(c) + Slack /\ Synced(c) <= Stellar + Slack
           /\ c >= Stellar => Stellar <= Synced(c) /\ Synced(c) <= c
BY Constants DEF Synced

LEMMA ServeEffect ==
    ASSUME TypeOK, RoundInData, NEW m \in Members, Serve(m)
    PROVE  /\ round # <<>> /\ wait = 0 /\ phase' = phase /\ due' = due /\ clock'[CH] = clock[CH]
           /\ drain' = drain
           /\ \/ /\ clock'[m] = clock[m] /\ sched'[m] = sched[m]
                 /\ heard' = heard /\ undone' = undone
              \/ /\ clock'[m] = Synced(clock[m]) /\ sched'[m] = Localised(Slot)
                 /\ heard' = heard \cup {m} /\ undone' = undone \ {m}
           /\ \A k \in Members \ {m} : clock'[k] = clock[k] /\ sched'[k] = sched[k]
           /\ \/ ~backup /\ round' = round /\ backup' = TRUE /\ wait' \in 0..SendTicks
              \/ round' = Tail(round) /\ backup' = FALSE /\ wait' = 0
<1> USE Constants
<1>1. Receive(m) \/ Lost
  BY DEF Serve, UnicastAcked, UnicastFails, Broadcast
<1>2. /\ round # <<>> /\ wait = 0 /\ phase' = phase /\ due' = due
      /\ drain' = drain
  BY DEF Serve, UnicastAcked, UnicastFails, Broadcast, RoundInData
<1>3. \/ ~backup /\ round' = round /\ backup' = TRUE /\ wait' \in 0..SendTicks
      \/ round' = Tail(round) /\ backup' = FALSE /\ wait' = 0
  BY DEF Serve, UnicastAcked, UnicastFails, Broadcast, TypeOK
<1>4. CASE Receive(m)
  BY <1>2, <1>3, <1>4 DEF Receive, TypeOK
<1>5. CASE Lost
  BY <1>2, <1>3, <1>5 DEF Lost, history
<1> QED
  BY <1>1, <1>4, <1>5

LEMMA MemberEffect ==
    ASSUME TypeOK, NEW m \in Members, MemberLoop(m)
    PROVE  /\ m \in due /\ m \notin due' /\ (CH \in due' <=> CH \in due)
           /\ \/ clock'[m] = 0 /\ phase'[m] = "stellar" /\ drain'[m] = drain[m]
                 /\ (clock[m] < Frame => m \in undone')
              \/ clock'[m] = clock[m] /\ clock[m] < Frame /\ phase'[m] = PhaseAt(clock[m])
           /\ clock'[CH] = clock[CH] /\ phase'[CH] = phase[CH]
           /\ UNCHANGED <<round, backup, wait, sched, heard>>
           /\ undone \subseteq undone'
           /\ \/ drain'[m] = drain[m]
              \/ phase'[m] = "data" /\ InSlot(m) /\ drain'[m] \in 0..DrainTime(m)
           /\ \A k \in Members \ {m} :
               /\ clock'[k] = clock[k] /\ phase'[k] = phase[k] /\ drain'[k] = drain[k]
               /\ k \in due' <=> k \in due
<1> USE Constants
<1> DEFINE c == IF m \in ending THEN 0 ELSE clock[m]
<1>1. /\ clock' = [clock EXCEPT ![m] = c]
      /\ phase' = [phase EXCEPT ![m] = PhaseAt(c)]
      /\ m \in due /\ due' = due \ {m} /\ (m \in ending \/ clock[m] < Frame)
      /\ UNCHANGED <<round, backup, wait, sched, heard>>
      /\ undone' = (IF m \in ending /\ clock[m] < Frame THEN undone \cup {m} ELSE undone)
      /\ drain' \in IF PhaseAt(c) = "data" /\ InSlot(m)
                    THEN {[drain EXCEPT ![m] = d] : d \in 0..DrainTime(m)}
                    ELSE {drain}
  BY DEF MemberLoop, headVars
<1>2. /\ clock'[m] = c /\ phase'[m] = PhaseAt(c)
      /\ \A k \in Nodes \ {m} : clock'[k] = clock[k] /\ phase'[k] = phase[k]
  BY <1>1 DEF TypeOK
<1>3. PhaseAt(0) = "stellar"
  BY DEF PhaseAt
<1>4. \/ m \in ending /\ c = 0
      \/ m \notin ending /\ c = clock[m] /\ clock[m] < Frame
  BY <1>1
<1> HIDE DEF c
<1>5. CASE drain' = drain
  BY <1>1, <1>2, <1>3, <1>4, <1>5
<1>6. CASE /\ PhaseAt(c) = "data" /\ InSlot(m)
           /\ \E d \in 0..DrainTime(m) : drain' = [drain EXCEPT ![m] = d]
  <2>1. PICK d \in 0..DrainTime(m) : drain' = [drain EXCEPT ![m] = d]
    BY <1>6
  <2>2. drain'[m] = d /\ \A k \in Members \ {m} : drain'[k] = drain[k]
    BY <2>1 DEF TypeOK
  <2>3. c # 0 /\ m \notin ending /\ c = clock[m] /\ clock[m] < Frame
    BY <1>3, <1>4, <1>6
  <2> QED
    BY <1>1, <1>2, <1>6, <2>1, <2>2, <2>3
<1> QED
  BY <1>1, <1>5, <1>6

LEMMA EndEffect ==
    ASSUME NEW m \in Members, FrameEnds(m)
    PROVE  /\ UNCHANGED <<due, clock, phase, round, backup, wait, sched, drain, heard, undone>>
           /\ UNCHANGED <<sent, since>> /\ ending' = ending \cup {m}
BY DEF FrameEnds, headVars, history

----------------------------------------------------------------------------
(* Each part of the invariant is kept.                                      *)

LEMMA Actions ==
    ASSUME Next
    PROVE  \/ Tick \/ HeadLoop \/ (\E m \in Members : Serve(m))
           \/ (\E m \in Members : FrameEnds(m)) \/ (\E m \in Members : MemberLoop(m))
BY DEF Next

LEMMA RoundStep ==
    ASSUME IInv, Next
    PROVE  RoundInData'
<1> USE Constants DEF RoundInData
<1>1. TypeOK /\ RoundInData
  BY DEF IInv
<1>2. CASE Tick
  BY <1>1, <1>2, Types, TickEffect DEF Less
<1>3. CASE HeadLoop
  BY <1>1, <1>3, Types, HeadEffect DEF Wrapped, PhaseAt
<1>4. ASSUME NEW m \in Members, Serve(m) PROVE RoundInData'
  <2>1. phase'[CH] = "data" /\ clock'[CH] >= Stellar
    BY <1>1, <1>4, ServeEffect
  <2>2. CASE round' = round /\ backup' = TRUE
    BY <1>1, <1>4, <2>1, <2>2, ServeEffect
  <2>3. CASE backup' = FALSE /\ wait' = 0
    BY <2>1, <2>3
  <2> QED
    BY <1>1, <1>4, <2>2, <2>3, ServeEffect
<1>5. ASSUME NEW m \in Members, MemberLoop(m) PROVE RoundInData'
  BY <1>1, <1>5, Types, MemberEffect
<1>6. ASSUME NEW m \in Members, FrameEnds(m) PROVE RoundInData'
  BY <1>1, <1>6, EndEffect
<1> QED
  BY <1>2, <1>3, <1>4, <1>5, <1>6, Actions

LEMMA HeardStep ==
    ASSUME IInv, Next
    PROVE  HeardInData'
<1> USE Constants
<1>1. TypeOK /\ RoundInData /\ HeardInData
  BY DEF IInv
<1>2. heard \subseteq Members
  BY <1>1, Types
<1>3. CASE Tick
  <2>1. SUFFICES ASSUME phase[CH] = "data", clock[CH] + 1 + Slack < Frame, NEW m \in heard \ undone
                 PROVE  Stellar <= clock'[m] + Slack /\ clock'[m] <= clock[CH] + 1 + Slack
    BY <1>1, <1>3, TickEffect DEF HeardInData
  <2>2. m \in Members /\ clock[m] \in Nat /\ clock[CH] \in Nat /\ clock'[m] = clock[m] + 1
    BY <1>1, <1>2, <1>3, Types, TickEffect
  <2>3. Stellar <= clock[m] + Slack /\ clock[m] <= clock[CH] + Slack
    BY <1>1, <2>1, <2>2 DEF HeardInData
  <2> QED
    BY <2>2, <2>3
<1>4. CASE HeadLoop
  <2>1. SUFFICES ASSUME phase'[CH] = "data", clock'[CH] + Slack < Frame, NEW m \in heard' \ undone
                 PROVE  Stellar <= clock'[m] + Slack /\ clock'[m] <= clock'[CH] + Slack
    BY <1>1, <1>4, HeadEffect DEF HeardInData
  <2>2. phase[CH] = "data" /\ m \in heard /\ m \in Members
    BY <1>1, <1>2, <1>4, <2>1, HeadEffect, Types
  <2>3. clock'[CH] = clock[CH] /\ clock'[m] = clock[m]
    BY <1>1, <1>4, <2>1, <2>2, HeadEffect, Types DEF Wrapped, PhaseAt
  <2> QED
    BY <1>1, <2>1, <2>2, <2>3 DEF HeardInData
<1>5. ASSUME NEW m \in Members, Serve(m) PROVE HeardInData'
  <2>1. phase[CH] = "data" /\ Stellar <= clock[CH]
    BY <1>1, <1>5, ServeEffect DEF RoundInData
  <2>2. SUFFICES ASSUME clock[CH] + Slack < Frame, NEW k \in heard' \ undone'
                 PROVE  Stellar <= clock'[k] + Slack /\ clock'[k] <= clock[CH] + Slack
    BY <1>1, <1>5, ServeEffect DEF HeardInData
  <2>3. CASE k = m /\ clock'[m] = Synced(clock[m])
    <3>1. clock[m] \in Nat /\ clock[CH] \in Nat
      BY <1>1, Types
    <3>2. /\ Synced(clock[m]) \in Nat /\ Stellar <= Synced(clock[m]) + Slack
          /\ Synced(clock[m]) <= Stellar + Slack
      BY <3>1, Syncs
    <3> QED
      BY <2>1, <2>3, <3>1, <3>2
  <2>4. CASE k \in heard \ undone /\ clock'[k] = clock[k]
    BY <2>1, <2>2, <2>4, <1>1 DEF HeardInData
  <2>5. \/ clock'[m] = clock[m] /\ heard' = heard /\ undone' = undone
        \/ clock'[m] = Synced(clock[m]) /\ heard' = heard \cup {m} /\ undone' = undone \ {m}
    BY <1>1, <1>5, ServeEffect
  <2>6. \A j \in Members \ {m} : clock'[j] = clock[j]
    BY <1>1, <1>5, ServeEffect
  <2> QED
    BY <1>2, <2>2, <2>3, <2>4, <2>5, <2>6
<1>6. ASSUME NEW m \in Members, MemberLoop(m) PROVE HeardInData'
  <2>1. SUFFICES ASSUME phase[CH] = "data", clock[CH] + Slack < Frame, NEW k \in heard \ undone'
                 PROVE  Stellar <= clock'[k] + Slack /\ clock'[k] <= clock[CH] + Slack
    BY <1>1, <1>6, MemberEffect DEF HeardInData
  <2>2. k \in heard \ undone
    BY <1>1, <1>6, <2>1, MemberEffect
  <2>3. k \in Members /\ Stellar <= clock[k] + Slack /\ clock[k] <= clock[CH] + Slack
    BY <1>1, <1>2, <2>1, <2>2 DEF HeardInData
  <2>4. clock[k] < Frame
    <3>1. clock[k] \in Nat /\ clock[CH] \in Nat
      BY <1>1, <2>3, Types
    <3> QED
      BY <2>1, <2>3, <3>1
  <2>5. clock'[k] = clock[k]
    BY <1>1, <1>6, <2>1, <2>3, <2>4, MemberEffect
  <2> QED
    BY <2>3, <2>5
<1>7. ASSUME NEW m \in Members, FrameEnds(m) PROVE HeardInData'
  BY <1>1, <1>7, EndEffect DEF HeardInData
<1> QED
  BY <1>3, <1>4, <1>5, <1>6, <1>7, Actions

\* A schedule just received counts from the start of its slot, which is the clock's start of DATA.
LEMMA JustReceived ==
    ASSUME TypeOK, round # <<>>
    PROVE  /\ Slot \in 0..Scheduled - 1 /\ Localised(Slot).slot = Slot
           /\ Localised(Slot).age = SlotStart(Localised(Slot))
           /\ Localised(Slot) \in [slot : 0..Scheduled - 1, age : 0..Validity]
           /\ SlotStart(Localised(Slot)) \in Nat
<1> USE Constants, Slots
<1>1. Slot \in 0..Scheduled - 1
  <2>1. round \in Seq(Members) /\ Len(round) \in 1..Scheduled
    BY DEF TypeOK
  <2> QED
    BY <2>1 DEF Slot
<1>2. Slot * SlotLen \in Nat /\ Slot * SlotLen <= Validity
  <2>1. Slot * SlotLen \in Nat /\ Slot * SlotLen + SlotLen <= Data
    BY <1>1
  <2> QED
    BY <2>1
<1>3. Localised(Slot).slot = Slot /\ Localised(Slot).age = Slot * SlotLen
  BY DEF Localised
<1>4. SlotStart(Localised(Slot)) = Slot * SlotLen
  BY <1>3 DEF SlotStart
<1>5. Localised(Slot) \in [slot : 0..Scheduled - 1, age : 0..Validity]
  BY <1>1, <1>2 DEF Localised
<1> QED
  BY <1>1, <1>2, <1>3, <1>4, <1>5

LEMMA AgedStep ==
    ASSUME IInv, Next
    PROVE  Aged'
<1> USE Constants
<1>1. TypeOK /\ RoundInData /\ Aged
  BY DEF IInv
<1>2. CASE Tick
  <2>1. SUFFICES ASSUME NEW m \in Members
                 PROVE  /\ SlotStart(sched'[m]) <= sched'[m].age
                        /\ sched'[m].age < Validity =>
                            clock'[m] + SlotStart(sched'[m]) <= Stellar + Slack + sched'[m].age
    BY DEF Aged
  <2>2. /\ sched'[m].age = IF sched[m].age < Validity THEN sched[m].age + 1 ELSE sched[m].age
        /\ SlotStart(sched'[m]) = SlotStart(sched[m]) /\ clock'[m] = clock[m] + 1
    BY <1>1, <1>2, TickEffect
  <2>3. SlotStart(sched[m]) \in Nat /\ sched[m].age \in 0..Validity /\ clock[m] \in Nat
    BY <1>1, Types
  <2>4. /\ SlotStart(sched[m]) <= sched[m].age
        /\ sched[m].age < Validity => clock[m] + SlotStart(sched[m]) <= Stellar + Slack + sched[m].age
    BY <1>1 DEF Aged
  <2> QED
    BY <2>2, <2>3, <2>4
<1>3. CASE HeadLoop
  BY <1>1, <1>3, Types, HeadEffect DEF Aged, SlotStart
<1>4. ASSUME NEW m \in Members, Serve(m) PROVE Aged'
  <2> USE DEF Aged
  <2>1. TAKE k \in Members
  <2>2. CASE sched'[k] = sched[k] /\ clock'[k] = clock[k]
    BY <1>1, <2>2 DEF Aged, SlotStart
  <2>3. CASE k = m /\ clock'[m] = Synced(clock[m]) /\ sched'[m] = Localised(Slot)
    <3>1. SlotStart(sched'[m]) = sched'[m].age /\ sched'[m].age \in Nat
      BY <1>1, <1>4, <2>3, ServeEffect, JustReceived
    <3>2. Synced(clock[m]) \in Nat /\ Synced(clock[m]) <= Stellar + Slack
      BY <1>1, Types, Syncs
    <3> QED
      BY <2>3, <3>1, <3>2
  <2> QED
    BY <1>1, <1>4, <2>2, <2>3, ServeEffect
<1>5. ASSUME NEW m \in Members, MemberLoop(m) PROVE Aged'
  <2> USE DEF Aged
  <2>1. TAKE k \in Members
  <2>2. sched' = sched /\ SlotStart(sched'[k]) = SlotStart(sched[k])
    BY <1>1, <1>5, MemberEffect DEF SlotStart
  <2>3. CASE clock'[k] = clock[k]
    BY <1>1, <2>2, <2>3 DEF Aged
  <2>4. CASE clock'[k] = 0
    <3>1. SlotStart(sched[k]) \in Nat /\ sched[k].age \in Nat /\ SlotStart(sched[k]) <= sched[k].age
      BY <1>1, Types DEF Aged
    <3> QED
      BY <2>2, <2>4, <3>1
  <2> QED
    BY <1>1, <1>5, <2>3, <2>4, MemberEffect
<1>6. ASSUME NEW m \in Members, FrameEnds(m) PROVE Aged'
  BY <1>1, <1>6, EndEffect DEF Aged, SlotStart
<1> QED
  BY <1>2, <1>3, <1>4, <1>5, <1>6, Actions

\* In a member's slot its clock is at most as far into DATA as the slot is, give or take what
\* a clock may be off; a drain that starts then ends early enough.
LEMMA InSlotFacts ==
    ASSUME TypeOK, Aged, NEW m \in Members, InSlot(m)
    PROVE  /\ SlotAge(sched[m]) \in 0..SlotLen - 1
           /\ SlotAge(sched[m]) = sched[m].age - SlotStart(sched[m])
           /\ clock[m] <= Stellar + Slack + SlotAge(sched[m])
           /\ sched[m].age < Validity
<1> USE Constants, Slots
<1>1. sched[m].slot \in 0..Scheduled - 1 /\ sched[m].age \in Nat /\ SlotStart(sched[m]) \in Nat /\ clock[m] \in Nat
  BY Types
<1>2. (sched[m].slot + 1) * SlotLen = SlotStart(sched[m]) + SlotLen
  BY <1>1 DEF SlotStart
<1>3. sched[m].age < Validity /\ sched[m].age < SlotStart(sched[m]) + SlotLen /\ SlotStart(sched[m]) <= sched[m].age
  BY <1>1, <1>2 DEF InSlot, BeforeSlotEnd, SlotStart
<1>4. SlotAge(sched[m]) = sched[m].age - SlotStart(sched[m])
  BY DEF SlotAge, SlotStart
<1>5. clock[m] + SlotStart(sched[m]) <= Stellar + Slack + sched[m].age
  BY <1>3 DEF Aged
<1>6. SlotLen \in Nat /\ Stellar \in Nat /\ Slack \in Nat
  OBVIOUS
<1> HIDE Constants, Slots
<1> QED
  BY <1>1, <1>3, <1>4, <1>5, <1>6

LEMMA DrainFits ==
    ASSUME TypeOK, Aged, NEW m \in Members, InSlot(m)
    PROVE  /\ DrainTime(m) \in Nat /\ DrainTime(m) + SlotAge(sched[m]) <= LongestDrain
           /\ DrainTime(m) > 0 => clock[m] + DrainTime(m) <= Frame
<1> USE Constants, Slots
<1>1. /\ SlotAge(sched[m]) \in Nat /\ SlotAge(sched[m]) < SlotLen /\ clock[m] \in Nat
      /\ clock[m] <= Stellar + Slack + SlotAge(sched[m])
  BY InSlotFacts, Types
<1>2. DrainTime(m) = IF SlotLen - SlotAge(sched[m]) > Margin
                     THEN SlotLen - SlotAge(sched[m]) - Margin + ChunkTicks ELSE 0
  BY DEF DrainTime
<1>3. /\ SlotLen \in Nat /\ Margin \in Nat /\ ChunkTicks \in Nat /\ Slack \in Nat /\ Guard \in Nat
      /\ Stellar \in Nat /\ Data \in Nat /\ Frame = Stellar + Data /\ LongestDrain = SlotLen + ChunkTicks
      /\ Slack + ChunkTicks <= Guard + Margin /\ SlotLen + Guard <= Data
  OBVIOUS
<1> HIDE Constants, Slots
<1> DEFINE a == SlotAge(sched[m])
           d == DrainTime(m)
           x == clock[m]
<1>4. /\ a \in Nat /\ a < SlotLen /\ x \in Nat /\ x <= Stellar + Slack + a
      /\ d = IF SlotLen - a > Margin THEN SlotLen - a - Margin + ChunkTicks ELSE 0
  BY <1>1, <1>2
<1> HIDE DEF a, d, x
<1>5. d \in Nat /\ d + a <= LongestDrain /\ (d > 0 => x + d <= Frame)
  <2>1. CASE SlotLen - a > Margin
    BY <1>3, <1>4, <2>1
  <2>2. CASE ~(SlotLen - a > Margin)
    BY <1>3, <1>4, <2>2
  <2> QED
    BY <2>1, <2>2
<1> QED
  BY <1>5 DEF a, d, x

LEMMA SpillStep ==
    ASSUME IInv, Next
    PROVE  Spilled'
<1> USE Constants
<1>1. TypeOK /\ RoundInData /\ Aged /\ Spilled /\ Drains
  BY DEF IInv
<1>2. CASE Tick
  <2>1. SUFFICES ASSUME phase[CH] = "stellar", NEW m \in Members
                 PROVE  /\ sched'[m].age < Validity =>
                            SlotStart(sched[m]) + clock[CH] + 1 <= sched'[m].age
                        /\ drain'[m] > 0 => clock[CH] + 1 + drain'[m] <= LongestDrain
    <3>1. /\ phase'[CH] = phase[CH] /\ clock'[CH] = clock[CH] + 1
          /\ \A m \in Members : SlotStart(sched'[m]) = SlotStart(sched[m])
      BY <1>1, <1>2, TickEffect
    <3>2. /\ clock[CH] \in Nat /\ LongestDrain \in Nat /\ \A m \in Members : SlotStart(sched[m]) \in Nat
      BY <1>1, Types
    <3> HIDE Constants
    <3>3. \A m \in Members : SlotStart(sched[m]) + clock'[CH] = SlotStart(sched[m]) + clock[CH] + 1
      BY <3>1, <3>2
    <3> QED
      BY <3>1, <3>3 DEF Spilled
  <2>2. /\ sched'[m].age = (IF sched[m].age < Validity THEN sched[m].age + 1 ELSE sched[m].age)
        /\ drain'[m] = (IF drain[m] > 0 THEN drain[m] - 1 ELSE 0)
    BY <1>1, <1>2, TickEffect DEF Less
  <2>3. /\ SlotStart(sched[m]) \in Nat /\ sched[m].age \in 0..Validity /\ clock[CH] \in Nat
        /\ drain[m] \in Nat
    BY <1>1, Types
  <2>4. ASSUME sched'[m].age < Validity PROVE SlotStart(sched[m]) + clock[CH] + 1 <= sched'[m].age
    <3>1. sched[m].age < Validity /\ sched'[m].age = sched[m].age + 1
      BY <2>4, <2>2, <2>3
    <3>2. SlotStart(sched[m]) + clock[CH] <= sched[m].age
      BY <1>1, <2>1, <3>1 DEF Spilled
    <3> QED
      BY <2>3, <3>1, <3>2
  <2>5. ASSUME drain'[m] > 0 PROVE clock[CH] + 1 + drain'[m] <= LongestDrain
    <3>1. drain[m] > 0 /\ drain'[m] = drain[m] - 1
      BY <2>5, <2>2, <2>3
    <3>2. clock[CH] + drain[m] <= LongestDrain
      BY <1>1, <2>1, <3>1 DEF Spilled
    <3> QED
      BY <2>3, <3>1, <3>2
  <2> QED
    BY <2>4, <2>5
<1>3. CASE HeadLoop
  <2>1. SUFFICES ASSUME phase'[CH] = "stellar", NEW m \in Members
                 PROVE  /\ sched[m].age < Validity =>
                            SlotStart(sched[m]) + clock'[CH] <= sched[m].age
                        /\ drain[m] > 0 => clock'[CH] + drain[m] <= LongestDrain
    BY <1>1, <1>3, HeadEffect DEF Spilled, SlotStart
  <2>2. CASE clock'[CH] = 0
    <3>1. SlotStart(sched[m]) \in Nat /\ SlotStart(sched[m]) <= sched[m].age /\ drain[m] \in 0..LongestDrain
      BY <1>1, Types DEF Aged
    <3> QED
      BY <2>2, <3>1
  <2>3. CASE phase[CH] = "stellar" /\ clock'[CH] = clock[CH]
    BY <1>1, <2>1, <2>3 DEF Spilled
  <2> QED
    BY <1>1, <1>3, <2>1, <2>2, <2>3, HeadEffect, Types DEF Wrapped, PhaseAt, RoundInData
<1>4. ASSUME NEW m \in Members, Serve(m) PROVE Spilled'
  BY <1>1, <1>4, ServeEffect DEF Spilled, RoundInData
<1>5. ASSUME NEW m \in Members, MemberLoop(m) PROVE Spilled'
  <2>1. SUFFICES ASSUME phase[CH] = "stellar", NEW k \in Members
                 PROVE  /\ sched[k].age < Validity =>
                            SlotStart(sched[k]) + clock[CH] <= sched[k].age
                        /\ drain'[k] > 0 => clock[CH] + drain'[k] <= LongestDrain
    BY <1>1, <1>5, MemberEffect DEF Spilled, SlotStart
  <2>2. sched[k].age < Validity => SlotStart(sched[k]) + clock[CH] <= sched[k].age
    BY <1>1, <2>1 DEF Spilled
  <2>3. CASE drain'[k] = drain[k]
    BY <1>1, <2>1, <2>2, <2>3 DEF Spilled
  <2>4. CASE k = m /\ InSlot(m) /\ drain'[m] \in 0..DrainTime(m)
    <3>1. /\ SlotAge(sched[m]) \in Nat /\ SlotAge(sched[m]) = sched[m].age - SlotStart(sched[m])
          /\ sched[m].age < Validity
      BY <1>1, <2>4, InSlotFacts, Slots
    <3>2. SlotStart(sched[m]) \in Nat /\ sched[m].age \in Nat /\ clock[CH] \in Nat
      BY <1>1, Types
    <3>3. DrainTime(m) \in Nat /\ DrainTime(m) + SlotAge(sched[m]) <= LongestDrain
      BY <1>1, <2>4, DrainFits
    <3>4. clock[CH] <= SlotAge(sched[m])
      BY <2>2, <2>4, <3>1, <3>2
    <3>5. clock[CH] + drain'[m] <= LongestDrain
      BY <2>4, <3>1, <3>2, <3>3, <3>4
    <3> QED
      BY <2>2, <2>4, <3>5
  <2> QED
    BY <1>1, <1>5, <2>1, <2>3, <2>4, MemberEffect
<1>6. ASSUME NEW m \in Members, FrameEnds(m) PROVE Spilled'
  BY <1>1, <1>6, EndEffect DEF Spilled, SlotStart
<1> QED
  BY <1>2, <1>3, <1>4, <1>5, <1>6, Actions

LEMMA DrainStep ==
    ASSUME IInv, Next
    PROVE  Drains'
<1> USE Constants
<1>1. TypeOK /\ RoundInData /\ Aged /\ Drains
  BY DEF IInv
<1>2. CASE Tick
  <2>1. SUFFICES ASSUME NEW m \in Members
                 PROVE  /\ m \in due' => drain'[m] = 0
                        /\ drain'[m] > 0 => Stellar <= clock'[m] /\ clock'[m] + drain'[m] <= Frame
    BY DEF Drains
  <2>2. /\ drain'[m] = (IF drain[m] > 0 THEN drain[m] - 1 ELSE 0)
        /\ clock'[m] = clock[m] + 1
        /\ m \in due' => drain'[m] = 0
    BY <1>1, <1>2, TickEffect DEF Less
  <2>3. drain[m] \in Nat /\ clock[m] \in Nat
    BY <1>1, Types
  <2>4. drain[m] > 0 => Stellar <= clock[m] /\ clock[m] + drain[m] <= Frame
    BY <1>1 DEF Drains
  <2> QED
    BY <2>2, <2>3, <2>4
<1>3. CASE HeadLoop
  <2>1. \A m \in Members : clock'[m] = clock[m] /\ drain'[m] = drain[m] /\ (m \in due' <=> m \in due)
    BY <1>1, <1>3, HeadEffect
  <2> QED
    BY <1>1, <2>1 DEF Drains
<1>4. ASSUME NEW m \in Members, Serve(m) PROVE Drains'
  <2>1. SUFFICES ASSUME NEW k \in Members, drain[k] > 0
                 PROVE  Stellar <= clock'[k] /\ clock'[k] + drain[k] <= Frame
    BY <1>1, <1>4, ServeEffect DEF Drains
  <2>2. drain[k] \in Nat /\ clock[k] \in Nat /\ Stellar <= clock[k] /\ clock[k] + drain[k] <= Frame
    BY <1>1, <2>1, Types DEF Drains
  <2>3. clock'[k] = clock[k] \/ clock'[k] = Synced(clock[k])
    BY <1>1, <1>4, ServeEffect
  <2>4. Synced(clock[k]) \in Nat /\ Stellar <= Synced(clock[k]) /\ Synced(clock[k]) <= clock[k]
    BY <2>2, Syncs
  <2> QED
    BY <2>2, <2>3, <2>4
<1>5. ASSUME NEW m \in Members, MemberLoop(m) PROVE Drains'
  <2>1. SUFFICES /\ m \in due' => drain'[m] = 0
                 /\ drain'[m] > 0 => Stellar <= clock'[m] /\ clock'[m] + drain'[m] <= Frame
    BY <1>1, <1>5, MemberEffect DEF Drains
  <2>2. CASE drain'[m] = drain[m]
    BY <1>1, <1>5, <2>2, MemberEffect DEF Drains
  <2>3. CASE phase'[m] = "data" /\ InSlot(m) /\ drain'[m] \in 0..DrainTime(m)
    <3>1. clock'[m] = clock[m] /\ phase'[m] = PhaseAt(clock[m]) /\ m \notin due' /\ clock[m] \in Nat
      BY <1>1, <1>5, <2>3, MemberEffect, Types
    <3>2. Stellar <= clock[m]
      BY <2>3, <3>1 DEF PhaseAt
    <3>3. DrainTime(m) \in Nat /\ (DrainTime(m) > 0 => clock[m] + DrainTime(m) <= Frame)
      BY <1>1, <2>3, DrainFits
    <3> QED
      BY <2>3, <3>1, <3>2, <3>3
  <2> QED
    BY <1>1, <1>5, <2>2, <2>3, MemberEffect
<1>6. ASSUME NEW m \in Members, FrameEnds(m) PROVE Drains'
  BY <1>1, <1>6, EndEffect DEF Drains
<1> QED
  BY <1>2, <1>3, <1>4, <1>5, <1>6, Actions

LEMMA MembersStep ==
    ASSUME IInv, Next
    PROVE  MembersOnTime'
<1> USE Constants
<1>1. TypeOK /\ RoundInData /\ Drains /\ MembersOnTime
  BY DEF IInv
<1>2. CASE Tick
  <2>1. SUFFICES ASSUME NEW m \in Members
                 PROVE  /\ clock'[m] <= Frame
                        /\ m \notin due' /\ drain'[m] = 0 => clock'[m] < Frame
    BY DEF MembersOnTime
  <2>2. /\ clock'[m] = clock[m] + 1 /\ m \notin due
        /\ m \notin due' => drain'[m] # 0
    BY <1>1, <1>2, TickEffect
  <2>3. drain[m] \in Nat /\ clock[m] \in Nat
    BY <1>1, Types
  <2>4. clock[m] < Frame
    BY <1>1, <2>2, <2>3 DEF Drains, MembersOnTime
  <2> QED
    BY <2>2, <2>3, <2>4
<1>3. CASE HeadLoop
  <2>1. \A m \in Members : clock'[m] = clock[m] /\ drain'[m] = drain[m] /\ (m \in due' <=> m \in due)
    BY <1>1, <1>3, HeadEffect
  <2> QED
    BY <1>1, <2>1 DEF MembersOnTime
<1>4. ASSUME NEW m \in Members, Serve(m) PROVE MembersOnTime'
  <2>1. ASSUME NEW k \in Members PROVE clock'[k] = clock[k] \/ (clock'[k] < Frame /\ clock'[k] <= Frame)
    <3>1. clock[k] \in Nat
      BY <1>1, Types
    <3>2. Synced(clock[k]) \in Nat /\ Synced(clock[k]) < Frame
      BY <3>1, Syncs
    <3>3. clock'[k] = clock[k] \/ clock'[k] = Synced(clock[k])
      BY <1>1, <1>4, ServeEffect
    <3> QED
      BY <3>2, <3>3
  <2>2. due' = due /\ drain' = drain
    BY <1>1, <1>4, ServeEffect
  <2> QED
    BY <1>1, <2>1, <2>2 DEF MembersOnTime
<1>5. ASSUME NEW m \in Members, MemberLoop(m) PROVE MembersOnTime'
  <2>0. (clock'[m] = 0 \/ (clock'[m] = clock[m] /\ clock[m] < Frame)) /\ clock[m] \in Nat
    <3>1. clock'[m] = 0 \/ (clock'[m] = clock[m] /\ clock[m] < Frame)
      BY <1>1, <1>5, MemberEffect
    <3>2. clock[m] \in Nat
      BY <1>1, Types
    <3> QED
      BY <3>1, <3>2
  <2>1. clock'[m] < Frame /\ clock'[m] <= Frame
    BY <2>0
  <2>2. \A k \in Members \ {m} :
            clock'[k] = clock[k] /\ drain'[k] = drain[k] /\ (k \in due' <=> k \in due)
    BY <1>1, <1>5, MemberEffect
  <2> QED
    BY <1>1, <2>1, <2>2 DEF MembersOnTime
<1>6. ASSUME NEW m \in Members, FrameEnds(m) PROVE MembersOnTime'
  BY <1>1, <1>6, EndEffect DEF MembersOnTime
<1> QED
  BY <1>2, <1>3, <1>4, <1>5, <1>6, Actions

\* A failed unicast leaves the member to the broadcast, and only that still counts.
LEMMA UnsentLeft ==
    ASSUME TypeOK, RoundInData
    PROVE  /\ Unsent \in Nat /\ Unsent * SendTicks \in Nat
           /\ round = <<>> => Unsent = 0
<1> USE Constants
<1>1. round \in Seq(Members) /\ Len(round) \in Nat
  BY DEF TypeOK
<1>2. CASE backup
  BY <1>1, <1>2 DEF Unsent, RoundInData
<1>3. CASE ~backup
  BY <1>1, <1>3 DEF Unsent
<1>4. Unsent \in Nat /\ (round = <<>> => Unsent = 0)
  <2>1. round = <<>> => ~backup
    BY DEF RoundInData
  <2> QED
    BY <1>2, <1>3, <2>1, <1>1 DEF Unsent
<1> QED
  BY <1>4, Products

LEMMA HeadStep ==
    ASSUME IInv, Next
    PROVE  HeadOnTime'
<1> USE Constants
<1>1. TypeOK /\ RoundInData /\ HeadOnTime
  BY DEF IInv
<1>2. clock[CH] \in Nat /\ wait \in Nat /\ Unsent \in Nat /\ Unsent * SendTicks \in Nat
  BY <1>1, Types, UnsentLeft
<1>3. CASE Tick
  <2>1. /\ due = {} /\ clock'[CH] = clock[CH] + 1 /\ wait' = Less(wait) /\ Unsent' = Unsent /\ round' = round
        /\ CH \in due' => round = <<>>
        /\ CH \notin due' => wait > 0
    BY <1>1, <1>3, TickEffect DEF Unsent
  <2>2. clock[CH] + wait + Unsent * SendTicks < Frame + Longest
    BY <1>1, <2>1 DEF HeadOnTime
  <2>3. CASE CH \in due'
    BY <1>2, <2>1, <2>2, <2>3 DEF HeadOnTime
  <2>4. CASE CH \notin due'
    <3>1. wait' = wait - 1
      BY <2>1, <2>4, <1>2 DEF Less
    <3> QED
      BY <1>2, <2>1, <2>2, <2>4, <3>1 DEF HeadOnTime
  <2> QED
    BY <2>3, <2>4
<1>4. CASE HeadLoop
  <2>1. CH \notin due' /\ clock'[CH] < Frame /\ clock'[CH] \in Nat
    BY <1>1, <1>2, <1>4, HeadEffect DEF Wrapped
  <2>2. ~backup /\ wait = 0 /\ backup' = backup /\ wait' = wait
    BY <1>1, <1>2, <1>4, HeadEffect DEF RoundInData
  <2>3. Unsent' \in {0, Scheduled}
    BY <1>1, <1>4, <2>2, HeadEffect, OrdersAreRounds, Slots DEF Unsent, HeadLoop
  <2>4. Unsent' * SendTicks <= Longest /\ Unsent' * SendTicks \in Nat
    <3>1. Unsent' \in Nat /\ Unsent' <= Scheduled /\ Scheduled \in Nat
      BY <2>3, Slots
    <3> QED
      BY <3>1, Products DEF Longest
  <2> QED
    BY <2>1, <2>2, <2>4 DEF HeadOnTime
<1>5. ASSUME NEW m \in Members, Serve(m) PROVE HeadOnTime'
  <2>1. /\ due' = due /\ clock'[CH] = clock[CH] /\ round # <<>> /\ wait = 0
    BY <1>1, <1>5, ServeEffect
  <2>2. CH \notin due' /\ clock[CH] + Unsent * SendTicks < Frame + Longest
    BY <1>1, <1>2, <2>1 DEF HeadOnTime
  <2>3. wait' \in Nat /\ Unsent' * SendTicks \in Nat /\ wait' + Unsent' * SendTicks <= Unsent * SendTicks
    <3>1. round \in Seq(Members) /\ Len(round) \in Nat \ {0} /\ Len(Tail(round)) = Len(round) - 1
      BY <1>1, <2>1 DEF TypeOK
    <3>2. CASE ~backup /\ round' = round /\ backup' = TRUE /\ wait' \in 0..SendTicks
      <4>1. Unsent' \in Nat /\ Unsent = Unsent' + 1
        BY <3>1, <3>2 DEF Unsent
      <4>2. Unsent' <= Unsent'
        BY <4>1
      <4>3. /\ (Unsent' + 1) * SendTicks = Unsent' * SendTicks + SendTicks
            /\ Unsent' * SendTicks \in Nat
        BY <4>1, <4>2, Products
      <4>4. Unsent * SendTicks = (Unsent' + 1) * SendTicks
        BY <4>1
      <4> HIDE Constants
      <4>5. wait' <= SendTicks /\ wait' \in Nat /\ SendTicks \in Nat
        BY <3>2, Constants
      <4> QED
        BY <4>3, <4>4, <4>5
    <3>3. CASE round' = Tail(round) /\ backup' = FALSE /\ wait' = 0
      <4>1. Unsent' \in Nat /\ Unsent' <= Unsent
        BY <3>1, <3>3 DEF Unsent
      <4>2. Unsent' * SendTicks <= Unsent * SendTicks /\ Unsent' * SendTicks \in Nat
        BY <4>1, <1>2, Products
      <4> QED
        BY <3>3, <4>2, <1>2
    <3> QED
      BY <1>1, <1>5, <3>2, <3>3, ServeEffect
  <2> QED
    BY <1>2, <2>1, <2>2, <2>3 DEF HeadOnTime
<1>6. ASSUME NEW m \in Members, MemberLoop(m) PROVE HeadOnTime'
  <2>1. /\ clock'[CH] = clock[CH] /\ (CH \in due' <=> CH \in due)
        /\ round' = round /\ wait' = wait /\ Unsent' = Unsent
    BY <1>1, <1>6, MemberEffect DEF Unsent
  <2> QED
    BY <1>1, <2>1 DEF HeadOnTime
<1>7. ASSUME NEW m \in Members, FrameEnds(m) PROVE HeadOnTime'
  BY <1>1, <1>7, EndEffect DEF HeadOnTime, Unsent
<1> QED
  BY <1>3, <1>4, <1>5, <1>6, <1>7, Actions

LEMMA TypeStep ==
    ASSUME IInv, Next
    PROVE  TypeOK'
<1> USE Constants, Slots
<1>1. TypeOK
  BY DEF IInv
<1>2. MembersOnTime' /\ HeadOnTime' /\ RoundInData'
  BY MembersStep, HeadStep, RoundStep
<1>3. clock' \in [Nodes -> Nat]
  <2>1. clock \in [Nodes -> Nat]
    BY <1>1 DEF TypeOK
  <2>2. CASE Tick
    <3>1. clock' = [n \in Nodes |-> clock[n] + 1]
      BY <2>2 DEF Tick
    <3> QED
      BY <2>1, <3>1
  <2>3. CASE HeadLoop
    BY <2>1, <2>3 DEF HeadLoop, Wrapped
  <2>4. ASSUME NEW m \in Members, Serve(m) PROVE clock' \in [Nodes -> Nat]
    BY <2>1, <2>4 DEF Serve, UnicastAcked, UnicastFails, Broadcast, Receive, Lost, Synced, history
  <2>5. ASSUME NEW m \in Members, MemberLoop(m) PROVE clock' \in [Nodes -> Nat]
    BY <2>1, <2>5 DEF MemberLoop
  <2>6. ASSUME NEW m \in Members, FrameEnds(m)
        PROVE  clock' \in [Nodes -> Nat]
    BY <2>1, <2>6, EndEffect
  <2> QED
    BY <2>2, <2>3, <2>4, <2>5, <2>6, Actions
<1>4. /\ sent' \in BOOLEAN /\ backup' \in BOOLEAN
  <2>1. sent \in BOOLEAN /\ backup \in BOOLEAN
    BY <1>1 DEF TypeOK
  <2>2. CASE Tick
    BY <2>1, <2>2, Zenon DEF Tick
  <2>3. CASE HeadLoop
    BY <2>1, <2>3, Zenon DEF HeadLoop
  <2>4. ASSUME NEW m \in Members, Serve(m) PROVE sent' \in BOOLEAN /\ backup' \in BOOLEAN
    BY <2>1, <2>4, Zenon DEF Serve, UnicastAcked, UnicastFails, Broadcast
  <2>5. ASSUME NEW m \in Members, MemberLoop(m) PROVE sent' \in BOOLEAN /\ backup' \in BOOLEAN
    BY <2>1, <2>5, Zenon DEF MemberLoop, headVars
  <2>6. ASSUME NEW m \in Members, FrameEnds(m)
        PROVE  sent' \in BOOLEAN /\ backup' \in BOOLEAN
    BY <2>1, <2>6, EndEffect, Zenon
  <2> QED
    BY <2>2, <2>3, <2>4, <2>5, <2>6, Actions
<1>5. /\ round' \in Seq(Members) /\ Len(round') <= Scheduled
      /\ since' \in 0..Resend /\ wait' \in 0..SendTicks
  <2>1. /\ round \in Seq(Members) /\ Len(round) <= Scheduled
        /\ since \in 0..Resend /\ wait \in 0..SendTicks
    BY <1>1 DEF TypeOK
  <2>2. CASE Tick
    <3>1. round' = round /\ since' = More(since, Resend) /\ wait' = Less(wait)
      BY <2>2 DEF Tick
    <3> QED
      BY <2>1, <3>1 DEF More, Less
  <2>3. CASE HeadLoop
    <3>1. round' \in Seq(Members) /\ Len(round') <= Scheduled
      <4>1. round' = <<>> \/ round' \in Orders
        BY <1>1, <2>3, HeadEffect
      <4>2. CASE round' = <<>>
        BY <4>2
      <4>3. CASE round' \in Orders
        <5>1. round' \in Seq(Members) /\ Len(round') = Scheduled
          BY <4>3, OrdersAreRounds
        <5> QED
          BY <5>1
      <4> QED
        BY <4>1, <4>2, <4>3
    <3>2. since' \in 0..Resend /\ wait' \in 0..SendTicks
      BY <2>1, <2>3 DEF HeadLoop
    <3> QED
      BY <3>1, <3>2
  <2>4. ASSUME NEW m \in Members, Serve(m)
        PROVE  /\ round' \in Seq(Members) /\ Len(round') <= Scheduled
               /\ since' \in 0..Resend /\ wait' \in 0..SendTicks
    <3>1. since' = since /\ round # <<>> /\ wait' \in 0..SendTicks /\ round' \in {round, Tail(round)}
      <4>1. since' = since
        BY <2>4 DEF Serve, UnicastAcked, UnicastFails, Broadcast
      <4>2. RoundInData
        BY DEF IInv
      <4>3. /\ round # <<>>
            /\ \/ round' = round /\ wait' \in 0..SendTicks
               \/ round' = Tail(round) /\ wait' = 0
        BY <1>1, <2>4, <4>2, ServeEffect
      <4> QED
        BY <4>1, <4>3
    <3>2. Tail(round) \in Seq(Members) /\ Len(Tail(round)) <= Scheduled
      BY <2>1, <3>1
    <3> QED
      BY <2>1, <3>1, <3>2
  <2>5. ASSUME NEW m \in Members, MemberLoop(m)
        PROVE  /\ round' \in Seq(Members) /\ Len(round') <= Scheduled
               /\ since' \in 0..Resend /\ wait' \in 0..SendTicks
    BY <2>1, <2>5 DEF MemberLoop, headVars
  <2>6. ASSUME NEW m \in Members, FrameEnds(m)
        PROVE  /\ round' \in Seq(Members) /\ Len(round') <= Scheduled
               /\ since' \in 0..Resend /\ wait' \in 0..SendTicks
    BY <2>1, <2>6, EndEffect
  <2> QED
    BY <2>2, <2>3, <2>4, <2>5, <2>6, Actions
<1>6. clock' \in [Nodes -> 0..Frame + Longest]
  <2>1. \A m \in Members : clock'[m] \in Nat /\ clock'[m] <= Frame
    BY <1>2, <1>3 DEF MembersOnTime
  <2>2. clock'[CH] \in Nat /\ clock'[CH] <= Frame + Longest
    <3>1. Unsent' * SendTicks \in Nat /\ wait' \in Nat /\ clock'[CH] \in Nat
      <4>1. Unsent' \in Nat
        <5>1. Len(round') \in Nat /\ (backup' => Len(round') > 0)
          BY <1>2, <1>5 DEF RoundInData
        <5> QED
          BY <5>1 DEF Unsent
      <4>2. Unsent' <= Unsent'
        BY <4>1
      <4>3. Unsent' * SendTicks \in Nat
        BY <4>1, <4>2, Products
      <4> QED
        BY <4>3, <1>3, <1>5
    <3> QED
      BY <1>2, <3>1 DEF HeadOnTime
  <2>3. \A n \in Nodes : clock'[n] \in 0..Frame + Longest
    BY <2>1, <2>2
  <2> QED
    BY <1>3, <2>3
<1>7. phase' \in [Nodes -> {"stellar", "data"}]
  <2>1. phase \in [Nodes -> {"stellar", "data"}]
    BY <1>1 DEF TypeOK
  <2>2. CASE HeadLoop
    BY <2>1, <2>2 DEF HeadLoop, PhaseAt
  <2>3. ASSUME NEW m \in Members, MemberLoop(m) PROVE phase' \in [Nodes -> {"stellar", "data"}]
    BY <2>1, <2>3 DEF MemberLoop, PhaseAt
  <2>4. CASE Tick \/ \E m \in Members : Serve(m)
    BY <2>1, <2>4 DEF Tick, Serve, UnicastAcked, UnicastFails, Broadcast
  <2>5. ASSUME NEW m \in Members, FrameEnds(m) PROVE phase' \in [Nodes -> {"stellar", "data"}]
    BY <2>1, <2>5, EndEffect
  <2> QED
    BY <2>2, <2>3, <2>4, <2>5, Actions
<1>8. /\ due' \subseteq Nodes /\ ending' \subseteq Members
      /\ heard' \subseteq Members /\ undone' \subseteq Members
  <2>1. /\ due \subseteq Nodes /\ ending \subseteq Members
        /\ heard \subseteq Members /\ undone \subseteq Members
    BY <1>1 DEF TypeOK
  <2>2. CASE Tick
    BY <2>1, <2>2 DEF Tick, history
  <2>3. CASE HeadLoop
    BY <2>1, <2>3 DEF HeadLoop
  <2>4. ASSUME NEW m \in Members, Serve(m)
        PROVE  /\ due' \subseteq Nodes /\ ending' \subseteq Members
               /\ heard' \subseteq Members /\ undone' \subseteq Members
    BY <2>1, <2>4 DEF Serve, UnicastAcked, UnicastFails, Broadcast, Receive, Lost, history
  <2>5. ASSUME NEW m \in Members, MemberLoop(m)
        PROVE  /\ due' \subseteq Nodes /\ ending' \subseteq Members
               /\ heard' \subseteq Members /\ undone' \subseteq Members
    BY <2>1, <2>5 DEF MemberLoop
  <2>6. ASSUME NEW m \in Members, FrameEnds(m)
        PROVE  /\ due' \subseteq Nodes /\ ending' \subseteq Members
               /\ heard' \subseteq Members /\ undone' \subseteq Members
    BY <2>1, <2>6, EndEffect
  <2> QED
    BY <2>2, <2>3, <2>4, <2>5, <2>6, Actions
<1>9. /\ sched' \in [Members -> [slot : 0..Scheduled - 1, age : 0..Validity]]
      /\ drain' \in [Members -> 0..LongestDrain]
  <2> DEFINE Scheds == [slot : 0..Scheduled - 1, age : 0..Validity]
  <2>1. sched \in [Members -> Scheds] /\ drain \in [Members -> 0..LongestDrain]
    BY <1>1 DEF TypeOK
  <2>2. CASE Tick
    <3>1. drain' \in [Members -> 0..LongestDrain]
      <4>1. \A m \in Members : Less(drain[m]) \in 0..LongestDrain
        BY <2>1 DEF Less
      <4>2. drain' = [m \in Members |-> Less(drain[m])]
        BY <2>2 DEF Tick
      <4> QED
        BY <4>1, <4>2
    <3>2. sched' \in [Members -> Scheds]
      <4>1. ASSUME NEW m \in Members PROVE [sched[m] EXCEPT !.age = More(@, Validity)] \in Scheds
        BY <2>1 DEF More
      <4> QED
        BY <2>2, <4>1 DEF Tick
    <3> QED
      BY <3>1, <3>2
  <2>3. CASE HeadLoop
    BY <2>1, <2>3, HeadEffect, <1>1
  <2>4. ASSUME NEW m \in Members, Serve(m)
        PROVE  sched' \in [Members -> Scheds] /\ drain' \in [Members -> 0..LongestDrain]
    <3>1. round # <<>> /\ (Receive(m) \/ Lost) /\ drain' = drain
      BY <1>1, <2>4 DEF IInv, RoundInData, Serve, UnicastAcked, UnicastFails, Broadcast
    <3>2. Localised(Slot) \in Scheds
      BY <1>1, <3>1, JustReceived
    <3>3. sched' = sched \/ sched' = [sched EXCEPT ![m] = Localised(Slot)]
      BY <3>1 DEF Receive, Lost
    <3> QED
      BY <2>1, <3>1, <3>2, <3>3
  <2>5. ASSUME NEW m \in Members, MemberLoop(m)
        PROVE  sched' \in [Members -> Scheds] /\ drain' \in [Members -> 0..LongestDrain]
    <3>1. sched' = sched
      BY <2>5 DEF MemberLoop
    <3>2. drain' = drain \/ (InSlot(m) /\ \E d \in 0..DrainTime(m) : drain' = [drain EXCEPT ![m] = d])
      BY <2>5 DEF MemberLoop
    <3>3. ASSUME InSlot(m), NEW d \in 0..DrainTime(m), drain' = [drain EXCEPT ![m] = d]
          PROVE  drain' \in [Members -> 0..LongestDrain]
      <4>1. DrainTime(m) \in Nat /\ DrainTime(m) <= LongestDrain
        <5>1. DrainTime(m) \in Nat /\ DrainTime(m) + SlotAge(sched[m]) <= LongestDrain
          BY <1>1, <3>3, DrainFits DEF IInv
        <5>2. SlotAge(sched[m]) \in Nat
          BY <1>1, <3>3, InSlotFacts DEF IInv
        <5> QED
          BY <5>1, <5>2
      <4>2. d \in 0..LongestDrain
        BY <4>1
      <4> QED
        BY <2>1, <3>3, <4>2
    <3> QED
      BY <2>1, <3>1, <3>2, <3>3
  <2>6. ASSUME NEW m \in Members, FrameEnds(m)
        PROVE  sched' \in [Members -> Scheds] /\ drain' \in [Members -> 0..LongestDrain]
    BY <2>1, <2>6, EndEffect
  <2> QED
    BY <2>2, <2>3, <2>4, <2>5, <2>6, Actions
<1> QED
  BY <1>4, <1>5, <1>6, <1>7, <1>8, <1>9 DEF TypeOK

----------------------------------------------------------------------------
(* The theorems.                                                            *)

LEMMA StepIInv == IInv /\ [Next]_vars => IInv'
<1>1. ASSUME IInv, Next PROVE IInv'
  BY <1>1, TypeStep, RoundStep, HeardStep, AgedStep, DrainStep, SpillStep, MembersStep, HeadStep
     DEF IInv
<1>2. ASSUME IInv, UNCHANGED vars PROVE IInv'
  <2>1. /\ UNCHANGED <<due, clock, phase, ending, sent, since, round, backup, wait>>
        /\ UNCHANGED <<sched, drain, heard, undone>>
    BY <1>2 DEF vars, headVars, history
  <2>2. TypeOK'
    BY <1>2, <2>1 DEF IInv, TypeOK
  <2>3. RoundInData' /\ HeardInData'
    BY <1>2, <2>1 DEF IInv, RoundInData, HeardInData
  <2>4. Aged' /\ Drains' /\ Spilled'
    BY <1>2, <2>1 DEF IInv, Aged, Drains, Spilled, SlotStart
  <2>5. MembersOnTime' /\ HeadOnTime'
    BY <1>2, <2>1 DEF IInv, MembersOnTime, HeadOnTime, Unsent
  <2> QED
    BY <2>2, <2>3, <2>4, <2>5 DEF IInv
<1> QED
  BY <1>1, <1>2

LEMMA Invariance == Spec => []IInv
BY InitIInv, StepIInv, PTL DEF Spec

\* No clock runs past its frame by more than a round of failing sends
\* (state_machine_update_phase).
THEOREM TypeCorrect == Spec => []TypeOK
<1>1. IInv => TypeOK
  BY DEF IInv
<1> QED
  BY <1>1, Invariance, PTL

\* Whatever the clocks were when the nodes were switched on, and however many schedules are
\* lost or late, who heard one is in DATA with the head, give or take the 500 ms under which
\* no clock is moved; the only exception is a schedule undone by the member's own new frame
\* (state_machine.c:109-166).
THEOREM HeardStays == Spec => []StaysForTheHead
<1>1. IInv => StaysForTheHead
  <2>1. SUFFICES ASSUME IInv, NEW m \in heard \ undone, phase[CH] = "data", clock[CH] + Slack < Frame
                 PROVE  clock[m] \in Stellar - Slack..Frame - 1
    BY DEF StaysForTheHead
  <2>2. clock[m] \in Nat /\ clock[CH] \in Nat
    BY <2>1, Types DEF IInv
  <2>3. Stellar <= clock[m] + Slack /\ clock[m] <= clock[CH] + Slack
    BY <2>1 DEF IInv, HeardInData
  <2>4. Stellar \in Nat /\ Slack \in Nat /\ Frame \in Nat
    BY Constants
  <2> QED
    BY <2>1, <2>2, <2>3, <2>4
<1> QED
  BY <1>1, Invariance, PTL

\* No drain outlasts the member's own DATA phase, though it may outlast its slot by a chunk
\* with its retries, and a schedule may move the clock and replace the slot in the middle:
\* the guard is longer than a chunk with its retries and the 500 ms a clock may be off
\* (state_machine.c:1015-1090).
THEOREM DrainsEnd == Spec => []DrainInOwnData
<1>1. IInv => DrainInOwnData
  <2>1. SUFFICES ASSUME IInv, NEW m \in Members, drain[m] > 0
                 PROVE  clock[m] \in Stellar..Frame - 1
    BY DEF DrainInOwnData
  <2>2. clock[m] \in Nat /\ drain[m] \in Nat
    BY <2>1, Types DEF IInv
  <2>3. Stellar <= clock[m] /\ clock[m] + drain[m] <= Frame
    BY <2>1 DEF IInv, Drains
  <2> QED
    BY <2>1, <2>2, <2>3, Constants
<1> QED
  BY <1>1, Invariance, PTL

\* A slot given late in DATA reaches less than its own length into the head's STELLAR phase,
\* and its drain less than one chunk more (state_machine.c:575-606, 1042).
THEOREM SpillsLittle == Spec => []SpillBounded
<1>1. IInv => SpillBounded
  <2>1. SUFFICES ASSUME IInv, NEW m \in Members, phase[CH] = "stellar"
                 PROVE  /\ InSlot(m) => clock[CH] < SlotLen
                        /\ drain[m] > 0 => clock[CH] < LongestDrain
    BY DEF SpillBounded
  <2>2. TypeOK /\ Aged /\ Spilled
    BY <2>1 DEF IInv
  <2>3. /\ SlotStart(sched[m]) \in Nat /\ clock[CH] \in Nat /\ sched[m].age \in Nat /\ drain[m] \in Nat
        /\ SlotLen \in Nat /\ LongestDrain \in Nat
    BY <2>2, Types, Slots, Constants
  <2>4. ASSUME InSlot(m) PROVE clock[CH] < SlotLen
    <3>1. /\ sched[m].age < Validity /\ SlotAge(sched[m]) \in 0..SlotLen - 1
          /\ SlotAge(sched[m]) = sched[m].age - SlotStart(sched[m])
      BY <2>2, <2>4, InSlotFacts
    <3>2. SlotStart(sched[m]) + clock[CH] <= sched[m].age
      BY <2>1, <2>2, <3>1 DEF Spilled
    <3> QED
      BY <2>3, <3>1, <3>2
  <2>5. ASSUME drain[m] > 0 PROVE clock[CH] < LongestDrain
    <3>1. clock[CH] + drain[m] <= LongestDrain
      BY <2>1, <2>2, <2>5 DEF Spilled
    <3> QED
      BY <2>3, <2>5, <3>1
  <2> QED
    BY <2>4, <2>5
<1> QED
  BY <1>1, Invariance, PTL
=============================================================================
