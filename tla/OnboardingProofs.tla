-------------------------- MODULE OnboardingProofs --------------------------
(***************************************************************************)
(* What TLC checks of Onboarding with a few captures and one fault, proved *)
(* for every code, set of captures, number of retries, records and faults. *)
(***************************************************************************)
EXTENDS Onboarding, FiniteSetTheorems, WellFoundedInduction, TLAPS

\* The steps at which the Wi-Fi handlers may be registered and the station connected.
Joined == {"wait", "post", "read", "open", "write", "reply", "clear", "ack", "clean"}
\* The steps between rf_receiver_disable and the end of rf_receiver_enable.
Silent == {"deinit", "start", "drain", "arm"} \cup Joined \cup {"reinit"}

\* A connection, and a handler that would make one, are of the present onboarding.
Connected ==
    /\ wifi.handlers => pc \in Joined
    /\ wifi.delayed => wifi.handlers
    /\ wifi.link # "no" => pc \in Joined
    /\ pc \in {"drain", "arm", "back", "none", "rf_off", "deinit"} => wifi.mode \in {"espnow", "bare"}

\* The events that can be on their way together, and the link they leave behind.
EventQueue ==
    /\ wifi.events \in {<<>>, <<"start">>, <<"ip">>, <<"lost">>, <<"ip", "lost">>}
    /\ wifi.events \in {<<"start">>, <<"lost">>, <<"ip", "lost">>} => wifi.link = "no"
    /\ wifi.events = <<"ip">> => Linked
    /\ wifi.delayed => wifi.link = "no" /\ wifi.events = <<>>

\* What came while the receiver was off is still in the queue only while it is off.
QueueOfHead ==
    /\ cause # "away"
    /\ \A i \in 1..Len(rf.queue) : rf.queue[i].when = "away" => Away

\* Two frames are queued only if rf_receiver_enable armed the channel over the first.
QueueShort ==
    /\ Len(rf.queue) <= 2
    /\ rf.armed => Len(rf.queue) <= 1
    /\ pc \in Silent => Len(rf.queue) <= 1 /\ (rf.armed => rf.queue = <<>>)

\* The receiver is off from rf_receiver_disable to the end of rf_receiver_enable.
OffWhileAway == pc \in Silent => ~rf.enabled

\* The store is cleared only at a step at which the server has the batch.
ServerHasBatch == pc = "clear" => batch \subseteq server

IInv == /\ TypeOK /\ Connected /\ EventQueue /\ QueueOfHead /\ QueueShort
        /\ OffWhileAway /\ Listening /\ ServerHasBatch

----------------------------------------------------------------------------
(* Types *)

LEMMA NatWellFounded == IsWellFoundedOn({p \in Nat \X Nat : p[1] < p[2]}, Nat)
<1>1. {p \in Nat \X Nat : p[1] < p[2]} = OpToRel(<, Nat)
  BY Zenon DEF OpToRel
<1> QED BY <1>1, NatLessThanWellFounded

\* A set of numbers has a least one: the CHOOSE of Min finds it.
LEMMA MinIsLeast ==
    ASSUME NEW T \in SUBSET Nat, T # {}
    PROVE  Min(T) \in T /\ \A y \in T : Min(T) <= y
<1> DEFINE R == {p \in Nat \X Nat : p[1] < p[2]}
<1>1. \A x, y \in T : y < x => <<y, x>> \in R
  OBVIOUS
<1>2. IsWellFoundedOn(R, Nat)
  BY NatWellFounded
<1> HIDE DEF R
<1>3. PICK x \in T : \A y \in T : ~(<<y, x>> \in R)
  BY <1>2, WFMin
<1>4. \A y \in T : x <= y
  <2> SUFFICES ASSUME NEW y \in T, ~(x <= y) PROVE FALSE
    OBVIOUS
  <2>1. x \in Nat /\ y \in Nat
    OBVIOUS
  <2>2. y < x
    BY <2>1
  <2> QED BY <1>1, <1>3, <2>2
<1> QED BY <1>4 DEF Min

\* What the calls of the ring buffer do to it.
LEMMA QueueOps ==
    ASSUME NEW q \in Seq(Frame), NEW f \in Frame
    PROVE  /\ Append(q, f) \in Seq(Frame) /\ Len(Append(q, f)) = Len(q) + 1
           /\ \A i \in 1..Len(q) : Append(q, f)[i] = q[i]
           /\ Append(q, f)[Len(q) + 1] = f
           /\ q # <<>> => /\ Tail(q) \in Seq(Frame) /\ Len(Tail(q)) = Len(q) - 1
                          /\ Head(q) \in Frame /\ Head(q) = q[1] /\ Len(q) >= 1
                          /\ \A i \in 1..Len(q) - 1 : Tail(q)[i] = q[i + 1]
OBVIOUS

\* The steps that leave the receiver alone, and where they take the head.
RadioSteps == {"deinit", "start", "wait", "post", "read", "open", "write", "reply", "clear",
               "ack", "clean", "reinit"}
Elsewhere ==
    /\ UNCHANGED <<rf, cause>>
    /\ \/ pc' = pc /\ (role' = role \/ (pc = "none" /\ role # "UAV" /\ role' \in {"MEMBER", "CH"}))
       \/ pc \in RadioSteps /\ pc' \in RadioSteps \cup {"drain"} /\ role' = role
       \/ pc = "back" /\ pc' = "none" /\ role' = "CH"

\* The receiver after a step that changes it, field by field.
RfIs(a, q, b, e, s) ==
    rf' = [armed |-> a, queue |-> q, enabled |-> b, error |-> e, starved |-> s]

\* A check that does not end in a reset.
Checks ==
    /\ pc = "none" /\ role = "CH" /\ rf.queue # <<>>
    /\ UNCHANGED <<wifi, unchangedUpload>>
    /\ \/ UNCHANGED <<role, pc, cause>>
       \/ role' = "UAV" /\ pc' = "rf_off" /\ \E i \in 1..Len(rf.queue) : cause' = rf.queue[i].when
    /\ \/ RfIs(rf.armed, Tail(rf.queue), rf.enabled, rf.error, TRUE)
       \/ RfIs(rf.armed, Tail(rf.queue), rf.enabled, TRUE, rf.starved)
       \/ ~rf.armed /\ RfIs(TRUE, Tail(rf.queue), rf.enabled, rf.error, rf.starved)
       \/ /\ rf.armed
          /\ \E f \in Frame : /\ f.when = "head"
                              /\ RfIs(TRUE, Append(Tail(rf.queue), f), rf.enabled, rf.error,
                                      rf.starved)
    /\ faults' = faults \/ (faults < MaxFaults /\ faults' = faults + 1)

LEMMA CheckKinds ==
    ASSUME TypeOK, CheckTrigger \/ CheckWhileReceiving
    PROVE  Checks \/ Restarts
<1>0. rf \in Receiver /\ rf.queue \in Seq(Frame) /\ Len(rf.queue) \in Nat
  BY DEF TypeOK, Receiver
<1>1. ASSUME NEW q
      PROVE  [rf EXCEPT !.queue = q] =
               [armed |-> rf.armed, queue |-> q, enabled |-> rf.enabled,
                error |-> rf.error, starved |-> rf.starved]
  BY <1>0 DEF Receiver
<1>2. CASE CheckTrigger
  <2> DEFINE popped == [rf EXCEPT !.queue = Tail(@)]
             code == Parse(Buffered(rf.queue))
             whens == {rf.queue[i].when : i \in 1..Len(rf.queue)}
  <2>1. popped = [armed |-> rf.armed, queue |-> Tail(rf.queue), enabled |-> rf.enabled,
                  error |-> rf.error, starved |-> rf.starved]
    BY Zenon, <1>1
  <2>2. pc = "none" /\ role = "CH" /\ rf.queue # <<>>
    BY <1>2 DEF CheckTrigger
  <2>3. \/ /\ Fault /\ rf' = [popped EXCEPT !.starved = TRUE]
           /\ UNCHANGED <<role, pc, cause, wifi, unchangedUpload>>
        \/ /\ Fault \/ NoFault
           /\ rf' = [popped EXCEPT !.error = TRUE]
           /\ UNCHANGED <<role, pc, cause, wifi, unchangedUpload>>
        \/ /\ ~rf.armed /\ NoFault
           /\ rf' = [popped EXCEPT !.armed = TRUE]
           /\ ActsOn(code, whens)
        \/ Restarts
    BY <1>2 DEF CheckTrigger
  <2> HIDE DEF popped, code
  <2>4. ASSUME ActsOn(code, whens)
        PROVE  /\ UNCHANGED <<wifi, unchangedUpload>>
               /\ \/ UNCHANGED <<role, pc, cause>>
                  \/ /\ role' = "UAV" /\ pc' = "rf_off"
                     /\ \E i \in 1..Len(rf.queue) : cause' = rf.queue[i].when
    BY <2>4 DEF ActsOn, Goto
  <2>5. /\ rf' = [popped EXCEPT !.starved = TRUE] =>
             RfIs(rf.armed, Tail(rf.queue), rf.enabled, rf.error, TRUE)
        /\ rf' = [popped EXCEPT !.error = TRUE] =>
             RfIs(rf.armed, Tail(rf.queue), rf.enabled, TRUE, rf.starved)
        /\ rf' = [popped EXCEPT !.armed = TRUE] =>
             RfIs(TRUE, Tail(rf.queue), rf.enabled, rf.error, rf.starved)
    BY <2>1 DEF RfIs
  <2> HIDE DEF whens
  <2> QED BY <2>2, <2>3, <2>4, <2>5 DEF Checks, Fault, NoFault
<1>3. CASE CheckWhileReceiving
  <2>1. pc = "none" /\ role = "CH" /\ rf.queue # <<>> /\ rf.armed = TRUE /\ faults' = faults
    BY <1>0, <1>3 DEF CheckWhileReceiving, NoFault, Receiver
  <2>2. CASE ~Restarts
    <3>1. PICK c \in Captures, code \in {0, UavCode} :
             /\ rf' = [rf EXCEPT !.queue = Append(Tail(@), [sent |-> c, when |-> "head"])]
             /\ ActsOn(code, {Head(rf.queue).when})
      BY <1>3, <2>2 DEF CheckWhileReceiving
    <3> DEFINE f == [sent |-> c, when |-> "head"]
    <3>2. f \in Frame /\ f.when = "head"
      BY DEF Frame, When
    <3>3. RfIs(TRUE, Append(Tail(rf.queue), f), rf.enabled, rf.error, rf.starved)
      <4>1. rf' = [rf EXCEPT !.queue = Append(Tail(rf.queue), f)]
        BY <3>1
      <4> HIDE DEF f
      <4> QED BY <1>1, <2>1, <4>1 DEF RfIs
    <3>4. Head(rf.queue) = rf.queue[1] /\ 1 \in 1..Len(rf.queue)
      BY <1>0, <2>1, QueueOps
    <3>5. /\ UNCHANGED <<wifi, unchangedUpload>>
          /\ \/ UNCHANGED <<role, pc, cause>>
             \/ role' = "UAV" /\ pc' = "rf_off" /\ cause' = Head(rf.queue).when
      BY <3>1 DEF ActsOn, Goto
    <3> HIDE DEF f
    <3>6. \/ UNCHANGED <<role, pc, cause>>
          \/ /\ role' = "UAV" /\ pc' = "rf_off"
             /\ \E i \in 1..Len(rf.queue) : cause' = rf.queue[i].when
      BY <3>4, <3>5
    <3> QED BY <2>1, <3>2, <3>3, <3>5, <3>6 DEF Checks
  <2> QED BY <2>2
<1> QED BY <1>2, <1>3

LEMMA StepKindsInFull ==
    ASSUME TypeOK, [Next]_vars
    PROVE  \/ FrameArrives \/ CheckTrigger \/ CheckWhileReceiving \/ RfOff \/ RfDrain \/ RfArm
           \/ Crash \/ Elsewhere
<1> USE DEF Goto, Uninvolved, unchangedUpload, Elsewhere, RadioSteps
<1>1. CASE Deinit
  BY <1>1 DEF Deinit
<1>2. CASE JoinStart
  BY <1>2 DEF JoinStart
<1>3. CASE JoinWait
  BY <1>3 DEF JoinWait
<1>4. CASE Post \/ Read \/ Open
  BY <1>4 DEF Post, Read, Open
<1>5. CASE Write \/ Reply
  BY <1>5 DEF Write, Reply
<1>6. CASE Clear \/ Ack
  BY <1>6 DEF Clear, Ack
<1>7. CASE Clean \/ Reinit
  BY <1>7 DEF Clean, Reinit
<1>8. CASE Back
  BY <1>8 DEF Back
<1>9. CASE WifiEvent \/ Retry \/ AccessPoint
  BY <1>9 DEF WifiEvent, Retry, AccessPoint
<1>10. CASE ChangesRole
  BY <1>10 DEF ChangesRole, TypeOK
<1>11. CASE Take \/ Sample
  BY <1>11 DEF Take, Sample
<1>12. CASE UNCHANGED vars
  BY <1>12 DEF vars
<1> QED
  BY <1>1, <1>2, <1>3, <1>4, <1>5, <1>6, <1>7, <1>8, <1>9, <1>10, <1>11, <1>12
     DEF Next, HeadStep, Upload

LEMMA StepKinds ==
    ASSUME TypeOK, [Next]_vars
    PROVE  \/ FrameArrives \/ Checks \/ RfOff \/ RfDrain \/ RfArm \/ Restarts
           \/ Elsewhere
BY StepKindsInFull, CheckKinds DEF Crash


\* A receiver is what its fields are.
LEMMA ReceiverFields ==
    ASSUME NEW r \in Receiver, NEW a \in BOOLEAN, NEW q \in Seq(Frame), NEW b \in BOOLEAN,
           NEW e \in BOOLEAN, NEW s \in BOOLEAN
    PROVE  /\ r.armed \in BOOLEAN /\ r.queue \in Seq(Frame) /\ r.enabled \in BOOLEAN
           /\ r.error \in BOOLEAN /\ r.starved \in BOOLEAN
           /\ [armed |-> a, queue |-> q, enabled |-> b, error |-> e, starved |-> s] \in Receiver
BY DEF Receiver

LEMMA RfAfter ==
    ASSUME TypeOK
    PROVE  /\ FrameArrives =>
                \E f \in Frame : /\ f.when = "away" => Away
                                 /\ RfIs(FALSE, Append(rf.queue, f), rf.enabled, rf.error, rf.starved)
           /\ RfOff => RfIs(rf.armed, <<>>, FALSE, rf.error, rf.starved)
           /\ RfDrain => RfIs(rf.armed, <<>>, rf.enabled, FALSE, rf.starved)
           /\ RfArm => \/ RfIs(TRUE, rf.queue, TRUE, rf.error, FALSE)
                       \/ RfIs(rf.armed, rf.queue, TRUE, TRUE, rf.starved)
           /\ Restarts => RfIs(TRUE, <<>>, TRUE, FALSE, FALSE)
<1> USE DEF RfIs
<1>0. rf \in Receiver
  BY DEF TypeOK
<1> USE <1>0
<1>1. ASSUME FrameArrives
      PROVE  \E f \in Frame : /\ f.when = "away" => Away
                              /\ RfIs(FALSE, Append(rf.queue, f), rf.enabled, rf.error, rf.starved)
  <2> DEFINE W == IF Away THEN "away" ELSE IF role = "MEMBER" THEN "member" ELSE "head"
  <2>1. PICK c \in Captures : rf' = [rf EXCEPT !.armed = FALSE,
                                               !.queue = Append(@, [sent |-> c, when |-> W])]
    BY <1>1 DEF FrameArrives
  <2>2. W \in When /\ (W = "away" => Away)
    BY DEF When
  <2> HIDE DEF W
  <2>3. [sent |-> c, when |-> W] \in Frame
    BY <2>2 DEF Frame
  <2>4. RfIs(FALSE, Append(rf.queue, [sent |-> c, when |-> W]), rf.enabled, rf.error, rf.starved)
    BY <2>1 DEF Receiver
  <2> QED BY <2>2, <2>3, <2>4
<1>3. ASSUME RfOff PROVE RfIs(rf.armed, <<>>, FALSE, rf.error, rf.starved)
  BY <1>3 DEF RfOff, Receiver
<1>4. ASSUME RfDrain PROVE RfIs(rf.armed, <<>>, rf.enabled, FALSE, rf.starved)
  BY <1>4 DEF RfDrain, Receiver
<1>5. ASSUME RfArm
      PROVE  \/ RfIs(TRUE, rf.queue, TRUE, rf.error, FALSE)
             \/ RfIs(rf.armed, rf.queue, TRUE, TRUE, rf.starved)
  BY <1>5 DEF RfArm, Receiver
<1>6. ASSUME Restarts PROVE RfIs(TRUE, <<>>, TRUE, FALSE, FALSE)
  BY <1>6 DEF Restarts, Fresh
<1> QED BY <1>1, <1>3, <1>4, <1>5, <1>6

LEMMA RfFields ==
    ASSUME NEW a, NEW q, NEW b, NEW e, NEW s, RfIs(a, q, b, e, s)
    PROVE  /\ rf'.armed = a /\ rf'.queue = q /\ rf'.enabled = b
           /\ rf'.error = e /\ rf'.starved = s
BY DEF RfIs

LEMMA RfTypes ==
    ASSUME TypeOK, [Next]_vars
    PROVE  rf' \in Receiver
<1> DEFINE Typed(a, q, b, e, s) == [armed |-> a, queue |-> q, enabled |-> b,
                                    error |-> e, starved |-> s] \in Receiver
<1>1. rf \in Receiver
  BY DEF TypeOK
<1>2. /\ rf.armed \in BOOLEAN /\ rf.queue \in Seq(Frame) /\ rf.enabled \in BOOLEAN
       /\ rf.error \in BOOLEAN /\ rf.starved \in BOOLEAN
  BY <1>1 DEF Receiver
<1>3. TRUE \in BOOLEAN /\ FALSE \in BOOLEAN /\ <<>> \in Seq(Frame)
  OBVIOUS
<1>4. CASE FrameArrives
  <2>1. PICK f \in Frame : RfIs(FALSE, Append(rf.queue, f), rf.enabled, rf.error, rf.starved)
    BY <1>4, RfAfter
  <2>2. Append(rf.queue, f) \in Seq(Frame)
    BY <1>2, QueueOps
  <2>3. Typed(FALSE, Append(rf.queue, f), rf.enabled, rf.error, rf.starved)
    BY <1>1, <1>2, <1>3, <2>2, ReceiverFields
  <2> QED BY <2>1, <2>3 DEF RfIs
<1>5. CASE Checks
  <2>1. rf.queue # <<>>
    BY <1>5 DEF Checks
  <2>2. Tail(rf.queue) \in Seq(Frame)
    BY <1>2, <2>1
  <2>3. /\ Typed(rf.armed, Tail(rf.queue), rf.enabled, rf.error, TRUE)
        /\ Typed(rf.armed, Tail(rf.queue), rf.enabled, TRUE, rf.starved)
        /\ Typed(TRUE, Tail(rf.queue), rf.enabled, rf.error, rf.starved)
    BY <1>1, <1>2, <1>3, <2>2, ReceiverFields
  <2>4. ASSUME NEW f \in Frame
        PROVE  Typed(TRUE, Append(Tail(rf.queue), f), rf.enabled, rf.error, rf.starved)
    <3>1. Append(Tail(rf.queue), f) \in Seq(Frame)
      BY <2>2, QueueOps
    <3> QED BY <1>1, <1>2, <1>3, <3>1, ReceiverFields
  <2> QED BY <1>5, <2>3, <2>4 DEF Checks, RfIs
<1>6. CASE RfOff
  <2>1. Typed(rf.armed, <<>>, FALSE, rf.error, rf.starved)
    BY <1>1, <1>2, <1>3, ReceiverFields
  <2> QED BY <1>6, <2>1, RfAfter DEF RfIs
<1>7. CASE RfDrain
  <2>1. Typed(rf.armed, <<>>, rf.enabled, FALSE, rf.starved)
    BY <1>1, <1>2, <1>3, ReceiverFields
  <2> QED BY <1>7, <2>1, RfAfter DEF RfIs
<1>8. CASE RfArm
  <2>1. /\ Typed(TRUE, rf.queue, TRUE, rf.error, FALSE)
        /\ Typed(rf.armed, rf.queue, TRUE, TRUE, rf.starved)
    BY <1>1, <1>2, <1>3, ReceiverFields
  <2> QED BY <1>8, <2>1, RfAfter DEF RfIs
<1>9. CASE Restarts
  <2>1. Typed(TRUE, <<>>, TRUE, FALSE, FALSE)
    BY <1>1, <1>2, <1>3, ReceiverFields
  <2> QED BY <1>9, <2>1, RfAfter DEF RfIs
<1>10. CASE Elsewhere
  BY <1>1, <1>10 DEF Elsewhere
<1> QED BY <1>4, <1>5, <1>6, <1>7, <1>8, <1>9, <1>10, StepKinds

LEMMA ChecksQueue ==
    ASSUME Checks
    PROVE  \/ rf'.queue = Tail(rf.queue)
           \/ /\ rf.armed
              /\ \E f \in Frame : f.when = "head" /\ rf'.queue = Append(Tail(rf.queue), f)
<1>1. ASSUME NEW a, NEW q, NEW b, NEW e, NEW s, RfIs(a, q, b, e, s)
      PROVE  rf'.queue = q
  BY <1>1, RfFields
<1> QED BY Zenon, <1>1 DEF Checks

LEMMA QueueShortStep ==
    ASSUME TypeOK, QueueShort, [Next]_vars
    PROVE  QueueShort'
<1> USE DEF QueueShort, Silent, Joined, Goto
<1>0. rf.queue \in Seq(Frame) /\ Len(<<>>) = 0
  BY DEF TypeOK, Receiver
<1>1. CASE FrameArrives
  <2>1. PICK f \in Frame : RfIs(FALSE, Append(rf.queue, f), rf.enabled, rf.error, rf.starved)
    BY <1>1, RfAfter
  <2>2. rf'.armed = FALSE /\ Len(rf'.queue) = Len(rf.queue) + 1 /\ rf.armed /\ pc' = pc
    BY <1>0, <1>1, <2>1, QueueOps DEF RfIs, FrameArrives
  <2> QED BY <1>0, <2>2
<1>2. CASE Checks
  <2>1. pc = "none" /\ pc' \in {"none", "rf_off"}
    BY <1>2 DEF Checks
  <2>2. rf.queue # <<>> /\ Tail(rf.queue) \in Seq(Frame) /\ Len(Tail(rf.queue)) = Len(rf.queue) - 1
    BY <1>0, <1>2, QueueOps DEF Checks
  <2>3. CASE rf'.queue = Tail(rf.queue)
    BY <1>0, <2>1, <2>2, <2>3
  <2>4. CASE rf'.queue # Tail(rf.queue)
    <3>1. PICK f \in Frame : rf.armed /\ rf'.queue = Append(Tail(rf.queue), f)
      BY <1>2, <2>4, ChecksQueue
    <3>2. Len(rf'.queue) = Len(rf.queue)
      BY <1>0, <2>2, <3>1, QueueOps
    <3> QED BY <1>0, <2>1, <3>1, <3>2
  <2> QED BY <2>3, <2>4
<1>3. CASE RfOff
  BY <1>0, <1>3, RfAfter DEF RfIs, RfOff
<1>4. CASE RfDrain
  BY <1>0, <1>4, RfAfter DEF RfIs, RfDrain
<1>5. CASE RfArm
  <2>1. rf'.queue = rf.queue /\ pc = "arm" /\ pc' = "back"
    BY <1>5, RfAfter DEF RfIs, RfArm
  <2> QED BY <1>0, <2>1
<1>6. CASE Restarts
  <2>1. rf'.queue = <<>>
    BY <1>6, RfAfter DEF RfIs
  <2>2. pc' = "none"
    BY <1>6 DEF Restarts
  <2> QED BY <1>0, <2>1, <2>2
<1>7. CASE Elsewhere
  BY <1>7 DEF Elsewhere, RadioSteps
<1> QED BY <1>1, <1>2, <1>3, <1>4, <1>5, <1>6, <1>7, StepKinds

LEMMA OffStep ==
    ASSUME TypeOK, OffWhileAway, [Next]_vars
    PROVE  OffWhileAway'
<1> USE DEF OffWhileAway, Silent, Joined, Goto
<1>1. CASE FrameArrives
  BY <1>1, RfAfter DEF RfIs, FrameArrives
<1>2. CASE Checks
  <2>1. pc' \in {"none", "rf_off"}
    BY <1>2 DEF Checks
  <2> QED BY <2>1
<1>3. CASE RfOff
  BY <1>3, RfAfter DEF RfIs
<1>4. CASE RfDrain
  BY <1>4, RfAfter DEF RfIs, RfDrain
<1>5. CASE RfArm \/ Restarts
  BY <1>5 DEF RfArm, Restarts
<1>6. CASE Elsewhere
  BY <1>6 DEF Elsewhere, RadioSteps
<1> QED BY <1>1, <1>2, <1>3, <1>4, <1>5, <1>6, StepKinds

LEMMA ListeningStep ==
    ASSUME TypeOK, OffWhileAway, Listening, [Next]_vars
    PROVE  Listening'
<1> USE DEF Listening
<1>0. rf.queue \in Seq(Frame)
  BY DEF TypeOK, Receiver
<1>1. CASE FrameArrives
  <2>1. PICK f \in Frame : rf'.queue = Append(rf.queue, f)
    BY <1>1, RfAfter DEF RfIs
  <2>2. Len(rf'.queue) = Len(rf.queue) + 1 /\ Len(rf.queue) \in Nat /\ Len(<<>>) = 0
    BY <1>0, <2>1, QueueOps
  <2> QED BY <2>2
<1>2. CASE Checks
  BY <1>2 DEF Checks, RfIs
<1>3. CASE RfOff
  BY <1>3, RfAfter DEF RfIs
<1>4. CASE RfDrain
  BY <1>4, RfAfter DEF RfIs, RfDrain, OffWhileAway, Silent
<1>5. CASE RfArm \/ Restarts
  BY <1>5, RfAfter DEF RfIs
<1>6. CASE Elsewhere
  BY <1>6 DEF Elsewhere
<1> QED BY <1>1, <1>2, <1>3, <1>4, <1>5, <1>6, StepKinds

LEMMA QueueOfHeadStep ==
    ASSUME TypeOK, QueueOfHead, [Next]_vars
    PROVE  QueueOfHead'
<1> USE DEF QueueOfHead, Away, Goto
<1>0. rf.queue \in Seq(Frame) /\ Len(<<>>) = 0 /\ Len(rf.queue) \in Nat
  BY DEF TypeOK, Receiver
<1>1. CASE FrameArrives
  <2>1. PICK f \in Frame : (f.when = "away" => Away) /\ rf'.queue = Append(rf.queue, f)
    BY <1>1, RfAfter DEF RfIs
  <2>2. pc' = pc /\ cause' = cause
    BY <1>1 DEF FrameArrives
  <2> QED BY <1>0, <2>1, <2>2, QueueOps
<1>2. CASE Checks
  <2>1. pc = "none" /\ rf.queue # <<>>
    BY <1>2 DEF Checks
  <2>2. \A i \in 1..Len(rf.queue) : rf.queue[i].when # "away"
    BY <2>1
  <2>3. cause' # "away"
    BY <1>2, <2>2 DEF Checks
  <2>4. /\ Tail(rf.queue) \in Seq(Frame)
        /\ \A i \in 1..Len(Tail(rf.queue)) : Tail(rf.queue)[i].when # "away"
    BY <1>0, <2>1, <2>2, QueueOps
  <2>5. CASE rf'.queue = Tail(rf.queue)
    BY <2>3, <2>4, <2>5
  <2>6. CASE rf'.queue # Tail(rf.queue)
    <3> DEFINE q == Tail(rf.queue)
    <3>1. PICK f \in Frame : f.when = "head" /\ rf'.queue = Append(q, f)
      BY <1>2, <2>6, ChecksQueue
    <3>2. q \in Seq(Frame) /\ Len(q) \in Nat /\ \A i \in 1..Len(q) : q[i].when # "away"
      BY <2>4
    <3> HIDE DEF q
    <3>3. \A i \in 1..Len(rf'.queue) : rf'.queue[i].when # "away"
      BY <3>1, <3>2, QueueOps
    <3> QED BY <2>3, <3>3
  <2> QED BY <2>5, <2>6
<1>3. CASE RfOff
  <2>1. rf'.queue = <<>> /\ cause' = cause
    BY <1>3, RfAfter DEF RfIs, RfOff
  <2> QED BY <1>0, <2>1
<1>4. CASE RfDrain
  <2>1. rf'.queue = <<>> /\ cause' = cause
    BY <1>4, RfAfter DEF RfIs, RfDrain
  <2> QED BY <1>0, <2>1
<1>5. CASE RfArm
  <2>1. rf'.queue = rf.queue /\ pc = "arm" /\ pc' = "back" /\ cause' = cause
    BY <1>5, RfAfter DEF RfIs, RfArm
  <2> QED BY <2>1
<1>6. CASE Restarts
  <2>1. rf'.queue = <<>>
    BY <1>6, RfAfter DEF RfIs
  <2>2. cause' = cause
    BY <1>6 DEF Restarts
  <2> QED BY <1>0, <2>1, <2>2
<1>7. CASE Elsewhere
  BY <1>7 DEF Elsewhere, RadioSteps
<1> QED BY <1>1, <1>2, <1>3, <1>4, <1>5, <1>6, <1>7, StepKinds

----------------------------------------------------------------------------
(* The radio *)

WifiIs(m, l, h, r, d, b, e) ==
    wifi' = [mode |-> m, link |-> l, handlers |-> h, retries |-> r, delayed |-> d, bits |-> b,
             events |-> e]

\* The driver after a step that changes it, field by field.
Driven(m, l, h, d, e) ==
    /\ wifi'.mode = m /\ wifi'.link = l /\ wifi'.handlers = h /\ wifi'.delayed = d
    /\ wifi'.events = e
    /\ wifi'.retries \in 0..MaxRetries /\ wifi'.bits \in SUBSET {"ok", "fail"}
    /\ wifi' = [mode |-> m, link |-> l, handlers |-> h, retries |-> wifi'.retries,
                delayed |-> d, bits |-> wifi'.bits, events |-> e]

LEMMA DrivenBy ==
    ASSUME NEW m, NEW l, NEW h, NEW d, NEW e,
           NEW r \in 0..MaxRetries, NEW b \in SUBSET {"ok", "fail"}, WifiIs(m, l, h, r, d, b, e)
    PROVE  Driven(m, l, h, d, e)
BY DEF WifiIs, Driven

LEMMA DriverFields ==
    ASSUME TypeOK
    PROVE  /\ wifi = [mode |-> wifi.mode, link |-> wifi.link, handlers |-> wifi.handlers,
                      retries |-> wifi.retries, delayed |-> wifi.delayed, bits |-> wifi.bits,
                      events |-> wifi.events]
           /\ wifi.mode \in {"espnow", "bare", "off", "sta"}
           /\ wifi.link \in {"no", "trying", "up", "stalled"}
           /\ wifi.handlers \in BOOLEAN /\ wifi.retries \in 0..MaxRetries
           /\ wifi.delayed \in BOOLEAN
           /\ wifi.bits \in SUBSET {"ok", "fail"} /\ wifi.events \in Seq({"start", "lost", "ip"})
           /\ 0 \in 0..MaxRetries /\ MaxRetries \in Nat
           /\ {} \in SUBSET {"ok", "fail"}
BY OnboardingAssumption DEF TypeOK, Driver

LEMMA AfterDeinit ==
    ASSUME TypeOK, Deinit
    PROVE  \E m \in {wifi.mode, "off"} :
              Driven(m, wifi.link, wifi.handlers, wifi.delayed, wifi.events)
<1>1. \E m \in {wifi.mode, "off"} :
         WifiIs(m, wifi.link, wifi.handlers, wifi.retries, wifi.delayed, wifi.bits, wifi.events)
  BY DriverFields DEF Deinit, WifiIs
<1> QED BY <1>1, DriverFields, DrivenBy

LEMMA AfterJoinStart ==
    ASSUME TypeOK, JoinStart
    PROVE  /\ wifi.events = <<>>
           /\ \/ /\ \E e \in {<<"start">>, <<>>} : Driven("sta", wifi.link, TRUE, wifi.delayed, e)
                 /\ pc' = "wait"
              \/ /\ Driven(wifi.mode, wifi.link, wifi.handlers, wifi.delayed, wifi.events)
                 /\ pc' = "clean"
<1>1. wifi.events = <<>> /\ Append(<<>>, "start") = <<"start">>
  BY DEF JoinStart
<1>2. \/ /\ pc' = "wait"
         /\ wifi' = [wifi EXCEPT !.mode = "sta", !.handlers = TRUE, !.retries = 0, !.bits = {},
                                 !.events = IF wifi.mode = "off" THEN <<"start">> ELSE <<>>]
      \/ pc' = "clean" /\ wifi' = [wifi EXCEPT !.retries = 0, !.bits = {}]
  BY <1>1 DEF JoinStart, Goto
<1>3. \/ /\ \E e \in {<<"start">>, <<>>} : WifiIs("sta", wifi.link, TRUE, 0, wifi.delayed, {}, e)
         /\ pc' = "wait"
      \/ /\ WifiIs(wifi.mode, wifi.link, wifi.handlers, 0, wifi.delayed, {}, wifi.events)
         /\ pc' = "clean"
  BY <1>2, DriverFields DEF WifiIs
<1> QED BY <1>1, <1>3, DriverFields, DrivenBy

LEMMA AfterWifiEvent ==
    ASSUME TypeOK, WifiEvent
    PROVE  \/ Driven(wifi.mode, wifi.link, wifi.handlers, wifi.delayed, Tail(wifi.events))
           \/ /\ Driven(wifi.mode, "trying", wifi.handlers, wifi.delayed, Tail(wifi.events))
              /\ wifi.handlers /\ Head(wifi.events) = "start"
           \/ /\ Driven(wifi.mode, wifi.link, wifi.handlers, TRUE, Tail(wifi.events))
              /\ wifi.handlers /\ Head(wifi.events) = "lost"
<1> DEFINE e == Head(wifi.events)
           w == [wifi EXCEPT !.events = Tail(@)]
           z(l, r, d, b) == WifiIs(wifi.mode, l, wifi.handlers, r, d, b, Tail(wifi.events))
<1>1. w = [mode |-> wifi.mode, link |-> wifi.link, handlers |-> wifi.handlers,
           retries |-> wifi.retries, delayed |-> wifi.delayed, bits |-> wifi.bits,
           events |-> Tail(wifi.events)]
  <2>1. ASSUME NEW q
        PROVE  [wifi EXCEPT !.events = q] =
                 [mode |-> wifi.mode, link |-> wifi.link, handlers |-> wifi.handlers,
                  retries |-> wifi.retries, delayed |-> wifi.delayed, bits |-> wifi.bits,
                  events |-> q]
    BY DriverFields
  <2> QED BY <2>1, Zenon
<1>2. wifi' = IF ~wifi.handlers THEN w
              ELSE CASE e = "start" -> Connects(w)
                     [] e = "ip" -> [w EXCEPT !.retries = 0, !.bits = @ \cup {"ok"}]
                     [] e = "lost" /\ w.retries < MaxRetries ->
                           [w EXCEPT !.retries = @ + 1, !.delayed = TRUE]
                     [] OTHER -> [w EXCEPT !.bits = @ \cup {"fail"}]
  BY Zenon DEF WifiEvent
<1> HIDE DEF w, e
<1>3. \/ wifi' = w
      \/ wifi.handlers /\ e = "start" /\ wifi' = Connects(w)
      \/ wifi' = [w EXCEPT !.retries = 0, !.bits = @ \cup {"ok"}]
      \/ /\ wifi.handlers /\ e = "lost" /\ w.retries < MaxRetries
         /\ wifi' = [w EXCEPT !.retries = @ + 1, !.delayed = TRUE]
      \/ wifi' = [w EXCEPT !.bits = @ \cup {"fail"}]
  BY <1>2
<1>7. wifi' = Connects(w) => wifi' = w \/ wifi' = [w EXCEPT !.link = "trying"]
  BY <1>1 DEF Connects
<1>4. \/ z(wifi.link, wifi.retries, wifi.delayed, wifi.bits)
      \/ wifi.handlers /\ e = "start" /\ z("trying", wifi.retries, wifi.delayed, wifi.bits)
      \/ z(wifi.link, 0, wifi.delayed, wifi.bits \cup {"ok"})
      \/ /\ wifi.handlers /\ e = "lost" /\ wifi.retries < MaxRetries
         /\ z(wifi.link, wifi.retries + 1, TRUE, wifi.bits)
      \/ z(wifi.link, wifi.retries, wifi.delayed, wifi.bits \cup {"fail"})
  BY <1>1, <1>3, <1>7 DEF WifiIs
<1>5. /\ wifi.bits \cup {"ok"} \in SUBSET {"ok", "fail"}
      /\ wifi.bits \cup {"fail"} \in SUBSET {"ok", "fail"}
      /\ wifi.retries < MaxRetries => wifi.retries + 1 \in 0..MaxRetries
  BY DriverFields
<1>6. \/ \E r \in 0..MaxRetries, b \in SUBSET {"ok", "fail"} : z(wifi.link, r, wifi.delayed, b)
      \/ /\ \E r \in 0..MaxRetries, b \in SUBSET {"ok", "fail"} : z("trying", r, wifi.delayed, b)
         /\ wifi.handlers /\ e = "start"
      \/ /\ \E r \in 0..MaxRetries, b \in SUBSET {"ok", "fail"} : z(wifi.link, r, TRUE, b)
         /\ wifi.handlers /\ e = "lost"
  <2> HIDE DEF z
  <2> QED BY <1>4, <1>5, DriverFields
<1> QED BY <1>6, DrivenBy DEF e

LEMMA AfterRetry ==
    ASSUME TypeOK, Retry
    PROVE  \E l \in {wifi.link, "trying"} : Driven(wifi.mode, l, wifi.handlers, FALSE, wifi.events)
<1> DEFINE w == Connects(wifi)
           l == IF wifi.mode = "off" THEN wifi.link ELSE "trying"
<1>1. w = [wifi EXCEPT !.link = l]
  BY Zenon DEF Connects
<1>2. w = [mode |-> wifi.mode, link |-> l, handlers |-> wifi.handlers, retries |-> wifi.retries,
           delayed |-> wifi.delayed, bits |-> wifi.bits, events |-> wifi.events]
  <2> HIDE DEF l, w
  <2> QED BY <1>1, DriverFields
<1>3. wifi' = [w EXCEPT !.delayed = FALSE]
  BY DEF Retry
<1>4. WifiIs(wifi.mode, l, wifi.handlers, wifi.retries, FALSE, wifi.bits, wifi.events)
  <2> HIDE DEF l, w
  <2> QED BY <1>2, <1>3 DEF WifiIs
<1>5. l \in {wifi.link, "trying"}
  OBVIOUS
<1> HIDE DEF l
<1> QED BY <1>4, <1>5, DriverFields, DrivenBy

LEMMA AfterAccessPoint ==
    ASSUME TypeOK, AccessPoint
    PROVE  \/ /\ Driven(wifi.mode, "up", wifi.handlers, wifi.delayed, Append(wifi.events, "ip"))
              /\ wifi.link = "trying"
           \/ /\ Driven(wifi.mode, "no", wifi.handlers, wifi.delayed, Append(wifi.events, "lost"))
              /\ wifi.link # "no"
           \/ /\ \E l \in {"up", "stalled"} :
                    Driven(wifi.mode, l, wifi.handlers, wifi.delayed, wifi.events)
              /\ Linked
<1> DEFINE z(l, e) == WifiIs(wifi.mode, l, wifi.handlers, wifi.retries, wifi.delayed, wifi.bits, e)
<1>1. \/ z("up", Append(wifi.events, "ip")) /\ wifi.link = "trying"
      \/ z("no", Append(wifi.events, "lost")) /\ wifi.link # "no"
      \/ (\E l \in {"up", "stalled"} : z(l, wifi.events)) /\ Linked
  BY DriverFields DEF AccessPoint, WifiIs
<1> QED BY <1>1, DriverFields, DrivenBy

LEMMA AfterJoinWait ==
    ASSUME TypeOK, JoinWait
    PROVE  \/ Driven(wifi.mode, wifi.link, wifi.handlers, wifi.delayed, wifi.events)
           \/ Driven(wifi.mode, wifi.link, FALSE, wifi.delayed, wifi.events) /\ ~wifi.delayed
<1> DEFINE z(h) == WifiIs(wifi.mode, wifi.link, h, wifi.retries, wifi.delayed, wifi.bits, wifi.events)
<1>1. z(wifi.handlers) \/ (z(FALSE) /\ ~wifi.delayed)
  BY DriverFields DEF JoinWait, WifiIs, Unregisters
<1> QED BY <1>1, DriverFields, DrivenBy

LEMMA AfterClean ==
    ASSUME TypeOK, Clean
    PROVE  /\ ~wifi.delayed
           /\ \/ Linked /\ Driven("off", "no", FALSE, wifi.delayed, Append(wifi.events, "lost"))
              \/ ~Linked /\ Driven("off", "no", FALSE, wifi.delayed, wifi.events)
<1> DEFINE z(e) == WifiIs("off", "no", FALSE, wifi.retries, wifi.delayed, wifi.bits, e)
<1>1. ~wifi.delayed /\ ((Linked /\ z(Append(wifi.events, "lost"))) \/ (~Linked /\ z(wifi.events)))
  BY DriverFields DEF Clean, WifiIs, Unregisters
<1> QED BY <1>1, DriverFields, DrivenBy

LEMMA AfterReinit ==
    ASSUME TypeOK, Reinit
    PROVE  \E m \in {"espnow", "bare"} :
              Driven(m, wifi.link, wifi.handlers, wifi.delayed, wifi.events)
<1>1. \E m \in {"espnow", "bare"} :
         WifiIs(m, wifi.link, wifi.handlers, wifi.retries, wifi.delayed, wifi.bits, wifi.events)
  BY DriverFields DEF Reinit, WifiIs
<1> QED BY <1>1, DriverFields, DrivenBy

LEMMA AfterReset ==
    ASSUME TypeOK, Restarts
    PROVE  Driven("espnow", "no", FALSE, FALSE, <<>>)
<1>1. WifiIs("espnow", "no", FALSE, 0, FALSE, {}, <<>>)
  BY DEF Restarts, Idle, WifiIs
<1> QED BY <1>1, DriverFields, DrivenBy

\* The steps that leave the driver alone, and where they take the head.
WifiElsewhere ==
    /\ wifi' = wifi
    /\ \/ pc' = pc
       \/ pc = "none" /\ pc' = "rf_off"
       \/ pc = "rf_off" /\ pc' = "deinit"
       \/ pc \in Joined /\ pc' \in Joined
       \/ pc \in {"drain", "arm", "back"} /\ pc' \in {"arm", "back", "none"}

LEMMA WifiKinds ==
    ASSUME TypeOK, [Next]_vars
    PROVE  \/ Deinit \/ JoinStart \/ WifiEvent \/ Retry \/ AccessPoint
           \/ JoinWait \/ Clean \/ Reinit \/ Restarts
           \/ WifiElsewhere
<1> USE DEF Goto, unchangedUpload, WifiElsewhere, Joined
<1>1. CASE FrameArrives
  BY <1>1 DEF FrameArrives
<1>2. CASE Checks
  <2>1. wifi' = wifi /\ pc = "none" /\ pc' \in {"none", "rf_off"}
    BY <1>2 DEF Checks
  <2> QED BY <2>1
<1>3. CASE RfOff \/ RfDrain
  BY <1>3 DEF RfOff, RfDrain
<1>4. CASE RfArm
  BY <1>4 DEF RfArm
<1>5. CASE Post \/ Read \/ Open
  BY <1>5 DEF Post, Read, Open
<1>6. CASE Write \/ Reply
  BY <1>6 DEF Write, Reply
<1>7. CASE Clear \/ Ack
  BY <1>7 DEF Clear, Ack
<1>8. CASE Back
  BY <1>8 DEF Back
<1>9. CASE ChangesRole
  BY <1>9 DEF ChangesRole
<1>10. CASE Take \/ Sample
  BY <1>10 DEF Take, Sample
<1>11. CASE UNCHANGED vars
  BY <1>11 DEF vars
<1> QED
  BY <1>1, <1>2, <1>3, <1>4, <1>5, <1>6, <1>7, <1>8, <1>9, <1>10, <1>11, CheckKinds
     DEF Next, HeadStep, Upload, Crash

\* The queues of events that occur, taken apart and put together.
LEMMA EventOps ==
    /\ Append(<<>>, "ip") = <<"ip">> /\ Append(<<>>, "lost") = <<"lost">>
    /\ Append(<<"ip">>, "lost") = <<"ip", "lost">>
    /\ Tail(<<"start">>) = <<>> /\ Tail(<<"ip">>) = <<>> /\ Tail(<<"lost">>) = <<>>
    /\ Tail(<<"ip", "lost">>) = <<"lost">>
    /\ Head(<<"start">>) = "start" /\ Head(<<"ip">>) = "ip" /\ Head(<<"lost">>) = "lost"
    /\ Head(<<"ip", "lost">>) = "ip"
<1>1. Append(<<>>, "ip") = <<"ip">> /\ Append(<<>>, "lost") = <<"lost">>
  OBVIOUS
<1>4. Append(<<"ip">>, "lost") = <<"ip", "lost">>
  <2> DEFINE r == Append(<<"ip">>, "lost")
  <2>1. <<"ip">> \in Seq({"ip", "lost"}) /\ Len(<<"ip">>) = 1 /\ <<"ip">>[1] = "ip"
    OBVIOUS
  <2>2. r \in Seq({"ip", "lost"}) /\ Len(r) = 2 /\ r[1] = "ip" /\ r[2] = "lost"
    BY <2>1
  <2> HIDE DEF r
  <2>3. r = <<"ip", "lost">>
    BY <2>2
  <2> QED BY <2>3 DEF r
<1>2. /\ Tail(<<"start">>) = <<>> /\ Tail(<<"ip">>) = <<>> /\ Tail(<<"lost">>) = <<>>
      /\ Tail(<<"ip", "lost">>) = <<"lost">>
  OBVIOUS
<1>3. /\ Head(<<"start">>) = "start" /\ Head(<<"ip">>) = "ip" /\ Head(<<"lost">>) = "lost"
      /\ Head(<<"ip", "lost">>) = "ip"
  OBVIOUS
<1> QED BY <1>1, <1>2, <1>3, <1>4

LEMMA EventTypes ==
    /\ <<>> \in Seq({"start", "lost", "ip"}) /\ Len(<<>>) <= 2
    /\ <<"start">> \in Seq({"start", "lost", "ip"}) /\ Len(<<"start">>) <= 2
    /\ <<"ip">> \in Seq({"start", "lost", "ip"}) /\ Len(<<"ip">>) <= 2
    /\ <<"lost">> \in Seq({"start", "lost", "ip"}) /\ Len(<<"lost">>) <= 2
    /\ <<"ip", "lost">> \in Seq({"start", "lost", "ip"}) /\ Len(<<"ip", "lost">>) <= 2
OBVIOUS

LEMMA ConnectedStep ==
    ASSUME TypeOK, Connected, [Next]_vars
    PROVE  Connected'
<1> USE DEF Connected, Joined, Goto
<1>0. /\ wifi.mode \in {"espnow", "bare", "off", "sta"} /\ wifi.handlers \in BOOLEAN
      /\ wifi.delayed \in BOOLEAN
  BY DEF TypeOK, Driver
<1>1. CASE Deinit
  BY <1>1, AfterDeinit DEF Driven, Deinit
<1>2. CASE JoinStart
  <2>1. pc = "start"
    BY <1>2 DEF JoinStart
  <2>2. /\ wifi'.link = wifi.link /\ wifi'.handlers \in {TRUE, wifi.handlers}
        /\ wifi'.delayed = wifi.delayed /\ pc' \in {"wait", "clean"}
    BY <1>2, AfterJoinStart DEF Driven
  <2> QED BY <2>1, <2>2
<1>3. CASE WifiEvent
  <2>1. pc' = pc
    BY <1>3 DEF WifiEvent
  <2>2. /\ wifi'.mode = wifi.mode /\ wifi'.handlers = wifi.handlers
        /\ (wifi'.link = wifi.link /\ wifi'.delayed = wifi.delayed) \/ wifi.handlers
    BY <1>3, AfterWifiEvent DEF Driven
  <2> QED BY <2>1, <2>2
<1>4. CASE AccessPoint
  <2>1. pc' = pc
    BY <1>4 DEF AccessPoint
  <2>2. /\ wifi'.mode = wifi.mode /\ wifi'.handlers = wifi.handlers
        /\ wifi'.delayed = wifi.delayed /\ (wifi'.link = "no" \/ wifi.link # "no")
    BY <1>4, AfterAccessPoint DEF Driven, Linked
  <2> QED BY <2>1, <2>2
<1>5. CASE JoinWait
  <2>1. pc' \in {"post", "clean"}
    BY <1>5 DEF JoinWait
  <2>2. /\ wifi'.mode = wifi.mode /\ wifi'.link = wifi.link /\ wifi'.delayed = wifi.delayed
        /\ wifi'.handlers = wifi.handlers \/ ~wifi.delayed
    BY <1>5, AfterJoinWait DEF Driven
  <2>3. pc = "wait"
    BY <1>5 DEF JoinWait
  <2> QED BY <2>1, <2>2, <2>3
<1>6. CASE Clean
  <2>1. pc' = "reinit"
    BY <1>6 DEF Clean
  <2>2. wifi'.link = "no" /\ ~wifi'.handlers /\ ~wifi'.delayed
    BY <1>6, AfterClean DEF Driven
  <2> QED BY <2>1, <2>2
<1>7. CASE Reinit
  <2>1. pc = "reinit" /\ pc' = "drain"
    BY <1>7 DEF Reinit
  <2>2. /\ wifi'.mode \in {"espnow", "bare"} /\ wifi'.link = wifi.link
        /\ wifi'.handlers = wifi.handlers /\ wifi'.delayed = wifi.delayed
    BY <1>7, AfterReinit DEF Driven
  <2> QED BY <2>1, <2>2
<1>10. CASE Retry
  <2>1. wifi.delayed /\ pc' = pc
    BY <1>10 DEF Retry
  <2>2. wifi'.mode = wifi.mode /\ wifi'.handlers = wifi.handlers /\ ~wifi'.delayed
    BY <1>10, AfterRetry DEF Driven
  <2> QED BY <2>1, <2>2
<1>8. CASE Restarts
  <2>1. wifi'.mode = "espnow" /\ wifi'.link = "no" /\ ~wifi'.handlers /\ ~wifi'.delayed
    BY <1>8, AfterReset DEF Driven
  <2> QED BY <2>1
<1>9. CASE WifiElsewhere
  BY <1>9 DEF WifiElsewhere
<1> QED BY <1>1, <1>2, <1>3, <1>4, <1>5, <1>6, <1>7, <1>8, <1>9, <1>10, WifiKinds

LEMMA EventStep ==
    ASSUME TypeOK, Connected, EventQueue, [Next]_vars
    PROVE  EventQueue'
<1> USE EventOps DEF EventQueue, Linked
<1>1. CASE Deinit \/ Reinit
  <2>1. /\ wifi'.link = wifi.link /\ wifi'.events = wifi.events
        /\ wifi'.delayed = wifi.delayed
    BY <1>1, AfterDeinit, AfterReinit DEF Driven
  <2> QED BY <2>1
<1>2. CASE JoinStart
  <2>1. wifi.events = <<>> /\ wifi.link = "no" /\ ~wifi.delayed
    BY <1>2 DEF JoinStart, Connected, Joined
  <2>2. /\ wifi'.link = wifi.link /\ wifi'.events \in {<<"start">>, <<>>}
        /\ wifi'.delayed = wifi.delayed
    BY <1>2, <2>1, AfterJoinStart DEF Driven
  <2> QED BY <2>1, <2>2
<1>3. CASE WifiEvent
  <2>1. wifi.events # <<>> /\ ~wifi.delayed
    BY <1>3 DEF WifiEvent
  <2>2. /\ wifi'.events = Tail(wifi.events)
        /\ \/ wifi'.link = wifi.link /\ wifi'.delayed = wifi.delayed
           \/ wifi'.link = "trying" /\ Head(wifi.events) = "start" /\ wifi'.delayed = wifi.delayed
           \/ wifi'.link = wifi.link /\ Head(wifi.events) = "lost"
    BY <1>3, AfterWifiEvent DEF Driven
  <2>3. CASE wifi.events = <<"ip", "lost">>
    BY <2>1, <2>2, <2>3
  <2>4. CASE wifi.events = <<"ip">>
    <3>1. wifi'.events = <<>> /\ ~wifi'.delayed
      BY <2>1, <2>2, <2>4
    <3> QED BY <3>1, EventTypes
  <2>5. CASE wifi.events = <<"start">> \/ wifi.events = <<"lost">>
    <3>1. wifi'.events = <<>> /\ (wifi'.delayed => wifi'.link = "no")
      BY <2>1, <2>2, <2>5
    <3> QED BY <3>1, EventTypes
  <2> QED BY <2>1, <2>3, <2>4, <2>5
<1>4. CASE AccessPoint
  <2>1. /\ wifi'.delayed = wifi.delayed
        /\ \/ /\ wifi.link = "trying" /\ wifi'.link = "up"
              /\ wifi'.events = Append(wifi.events, "ip")
           \/ wifi.link # "no" /\ wifi'.link = "no" /\ wifi'.events = Append(wifi.events, "lost")
           \/ /\ wifi.link \in {"up", "stalled"} /\ wifi'.link \in {"up", "stalled"}
              /\ wifi'.events = wifi.events
    BY <1>4, AfterAccessPoint DEF Driven
  <2>2. /\ ~wifi.delayed
        /\ wifi.events = <<>> \/ (wifi.events = <<"ip">> /\ wifi.link \in {"up", "stalled"})
    BY <2>1
  <2> QED BY <2>1, <2>2
<1>5. CASE JoinWait
  <2>1. /\ wifi'.link = wifi.link /\ wifi'.events = wifi.events
        /\ wifi'.delayed = wifi.delayed
    BY <1>5, AfterJoinWait DEF Driven
  <2> QED BY <2>1
<1>6. CASE Clean
  <2>1. /\ wifi'.link = "no" /\ ~wifi'.delayed
        /\ wifi'.events = IF wifi.link \in {"up", "stalled"} THEN Append(wifi.events, "lost")
                          ELSE wifi.events
    BY <1>6, AfterClean DEF Driven
  <2>2. CASE wifi.link \in {"up", "stalled"}
    <3>1. wifi.events \in {<<>>, <<"ip">>}
      BY <2>2
    <3> QED BY <2>1, <2>2, <3>1
  <2>3. CASE wifi.link \notin {"up", "stalled"}
    BY <2>1, <2>3
  <2> QED BY <2>2, <2>3
<1>7. CASE Restarts
  <2>1. wifi'.link = "no" /\ wifi'.events = <<>> /\ ~wifi'.delayed
    BY <1>7, AfterReset DEF Driven
  <2> QED BY <2>1
<1>9. CASE Retry
  <2>1. wifi.delayed /\ wifi.events = <<>>
    BY <1>9 DEF Retry
  <2>2. wifi'.events = <<>> /\ ~wifi'.delayed
    BY <1>9, <2>1, AfterRetry DEF Driven
  <2> QED BY <2>2, EventTypes
<1>8. CASE WifiElsewhere
  BY <1>8 DEF WifiElsewhere
<1> QED BY <1>1, <1>2, <1>3, <1>4, <1>5, <1>6, <1>7, <1>8, <1>9, WifiKinds

LEMMA WifiTypes ==
    ASSUME TypeOK, EventQueue', [Next]_vars
    PROVE  wifi' \in Driver /\ Len(wifi'.events) <= 2
<1>1. wifi'.events \in Seq({"start", "lost", "ip"}) /\ Len(wifi'.events) <= 2
  BY EventTypes DEF EventQueue
<1>2. /\ wifi \in Driver
      /\ wifi.mode \in {"espnow", "bare", "off", "sta"} /\ wifi.link \in {"no", "trying", "up", "stalled"}
      /\ wifi.handlers \in BOOLEAN /\ wifi.delayed \in BOOLEAN
  BY DEF TypeOK, Driver
<1>3. ASSUME NEW m \in {"espnow", "bare", "off", "sta"}, NEW l \in {"no", "trying", "up", "stalled"},
             NEW h \in BOOLEAN, NEW d \in BOOLEAN, NEW e, Driven(m, l, h, d, e)
      PROVE  wifi' \in Driver
  BY <1>1, <1>3 DEF Driven, Driver
<1>4. CASE Deinit \/ Reinit
  BY <1>1, <1>2, <1>3, <1>4, AfterDeinit, AfterReinit
<1>5. CASE JoinStart
  <2>1. "sta" \in {"espnow", "bare", "off", "sta"} /\ TRUE \in BOOLEAN
    OBVIOUS
  <2>2. \/ \E e \in {<<"start">>, <<>>} : Driven("sta", wifi.link, TRUE, wifi.delayed, e)
        \/ Driven(wifi.mode, wifi.link, wifi.handlers, wifi.delayed, wifi.events)
    BY <1>5, AfterJoinStart
  <2>3. ASSUME NEW e, Driven("sta", wifi.link, TRUE, wifi.delayed, e)
        PROVE  wifi' \in Driver
    BY <1>2, <1>3, <2>1, <2>3
  <2> QED BY <1>1, <1>2, <1>3, <2>2, <2>3
<1>10. CASE JoinWait
  <2>1. FALSE \in BOOLEAN
    OBVIOUS
  <2>2. \/ Driven(wifi.mode, wifi.link, wifi.handlers, wifi.delayed, wifi.events)
        \/ Driven(wifi.mode, wifi.link, FALSE, wifi.delayed, wifi.events)
    BY <1>10, AfterJoinWait
  <2> QED BY <1>1, <1>2, <1>3, <2>1, <2>2
<1>6. CASE WifiEvent \/ Retry
  BY <1>1, <1>2, <1>3, <1>6, AfterWifiEvent, AfterRetry
<1>7. CASE AccessPoint
  BY <1>1, <1>2, <1>3, <1>7, AfterAccessPoint
<1>8. CASE Clean \/ Restarts
  BY <1>1, <1>2, <1>3, <1>8, AfterClean, AfterReset
<1>9. CASE WifiElsewhere
  BY <1>1, <1>2, <1>9 DEF WifiElsewhere
<1> QED BY <1>1, <1>4, <1>5, <1>6, <1>7, <1>8, <1>9, <1>10, WifiKinds

----------------------------------------------------------------------------
(* Roles, records, and the upload *)

LEMMA RoleTypes ==
    ASSUME TypeOK, [Next]_vars
    PROVE  /\ role' \in {"MEMBER", "CH", "UAV"} /\ (role' = "UAV" <=> pc' # "none")
           /\ pc' \in Steps \cup {"none"}
           /\ cause' \in When
<1>1. /\ role \in {"MEMBER", "CH", "UAV"} /\ (role = "UAV" <=> pc # "none")
      /\ pc \in Steps \cup {"none"} /\ cause \in When
  BY DEF TypeOK
<1> USE <1>1 DEF Goto
<1>2. CASE FrameArrives
  BY <1>2 DEF FrameArrives
<1>3. CASE Checks
  <2>1. rf.queue \in Seq(Frame)
    BY DEF TypeOK, Receiver
  <2>2. \A i \in 1..Len(rf.queue) : rf.queue[i].when \in When
    <3>1. \A i \in 1..Len(rf.queue) : rf.queue[i] \in Frame
      BY <2>1
    <3> QED BY <3>1 DEF Frame
  <2>3. \/ role' = role /\ pc' = pc /\ cause' = cause
        \/ role' = "UAV" /\ pc' = "rf_off" /\ cause' \in When
    BY <1>3, <2>2 DEF Checks
  <2> QED BY <2>3 DEF Steps
<1>4. CASE RfOff \/ RfDrain
  BY <1>4 DEF RfOff, RfDrain, Steps
<1>5. CASE RfArm
  BY <1>5 DEF RfArm, Steps
<1>6. CASE Restarts
  BY <1>6 DEF Restarts
<1>7. CASE Elsewhere
  BY <1>7 DEF Elsewhere, RadioSteps, Steps
<1> QED BY <1>2, <1>3, <1>4, <1>5, <1>6, <1>7, StepKinds

\* What a step may do to the records.
LEMMA RecordSteps ==
    ASSUME TypeOK, [Next]_vars
    PROVE  \/ UNCHANGED <<store, batch, server>> /\ (pc' = pc \/ pc' # "clear")
           \/ Read \/ Reply \/ Clear \/ Clean \/ Sample \/ Restarts
<1> USE DEF Goto, unchangedUpload
<1>1. CASE FrameArrives
  BY <1>1 DEF FrameArrives
<1>2. CASE Checks
  <2>1. UNCHANGED <<store, batch, server>> /\ (pc' = pc \/ pc' = "rf_off")
    BY <1>2 DEF Checks
  <2> QED BY <2>1
<1>3. CASE RfOff \/ RfDrain
  BY <1>3 DEF RfOff, RfDrain
<1>4. CASE RfArm
  BY <1>4 DEF RfArm
<1>5. CASE Deinit \/ Reinit
  BY <1>5 DEF Deinit, Reinit
<1>6. CASE JoinStart
  BY <1>6 DEF JoinStart
<1>7. CASE JoinWait
  BY <1>7 DEF JoinWait
<1>8. CASE WifiEvent \/ Retry \/ AccessPoint
  BY <1>8 DEF WifiEvent, Retry, AccessPoint
<1>9. CASE Post \/ Open \/ Write \/ Ack
  BY <1>9 DEF Post, Open, Write, Ack
<1>10. CASE Back \/ ChangesRole \/ Take
  BY <1>10 DEF Back, ChangesRole, Take
<1>11. CASE UNCHANGED vars
  BY <1>11 DEF vars
<1> QED
  BY <1>1, <1>2, <1>3, <1>4, <1>5, <1>6, <1>7, <1>8, <1>9, <1>10, <1>11, CheckKinds
     DEF Next, HeadStep, Upload, Crash

LEMMA RecordTypes ==
    ASSUME TypeOK, [Next]_vars
    PROVE  {store', batch', server'} \subseteq SUBSET (1..MaxRecords)
<1>1. /\ store \subseteq 1..MaxRecords /\ batch \subseteq 1..MaxRecords
      /\ server \subseteq 1..MaxRecords
  BY DEF TypeOK
<1> USE <1>1
<1>2. CASE Read
  BY <1>2 DEF Read
<1>3. CASE Reply
  BY <1>3 DEF Reply
<1>4. CASE Clear
  BY <1>4 DEF Clear
<1>5. CASE Clean \/ Restarts
  BY <1>5 DEF Clean, Restarts
<1>6. CASE Sample
  <2> DEFINE new == (1..MaxRecords) \ (store \cup server)
  <2>1. new # {} /\ new \in SUBSET Nat /\ store' = store \cup {Min(new)} /\ UNCHANGED <<batch, server>>
    BY <1>6, OnboardingAssumption DEF Sample
  <2>2. Min(new) \in new
    BY <2>1, MinIsLeast
  <2> QED BY <2>1, <2>2
<1>7. CASE UNCHANGED <<store, batch, server>>
  BY <1>7
<1> QED BY <1>2, <1>3, <1>4, <1>5, <1>6, <1>7, RecordSteps

LEMMA FaultTypes ==
    ASSUME TypeOK, [Next]_vars
    PROVE  taken' \in BOOLEAN /\ faults' \in 0..MaxFaults
<1>1. taken \in BOOLEAN /\ faults \in 0..MaxFaults /\ MaxFaults \in Nat
  BY OnboardingAssumption DEF TypeOK
<1> USE <1>1 DEF unchangedUpload, Fault, NoFault
<1>2. CASE FrameArrives
  BY <1>2 DEF FrameArrives
<1>3. CASE CheckTrigger \/ CheckWhileReceiving
  <2>1. faults' = faults \/ (faults < MaxFaults /\ faults' = faults + 1)
    BY <1>3 DEF CheckTrigger, CheckWhileReceiving
  <2>2. taken' = taken \/ taken' = FALSE
    BY <1>3, CheckKinds DEF Checks, Restarts
  <2>3. taken' \in BOOLEAN
    BY <2>2, Zenon
  <2> QED BY <2>1, <2>3
<1>4. CASE RfOff \/ RfDrain \/ RfArm
  BY <1>4 DEF RfOff, RfDrain, RfArm
<1>5. CASE Deinit \/ Reinit
  BY <1>5 DEF Deinit, Reinit
<1>6. CASE JoinStart \/ JoinWait
  BY <1>6 DEF JoinStart, JoinWait
<1>7. CASE WifiEvent \/ Retry \/ AccessPoint
  BY <1>7 DEF WifiEvent, Retry, AccessPoint
<1>8. CASE Upload
  BY <1>8 DEF Upload, Post, Read, Open, Write, Reply, Clear, Ack
<1>9. CASE Clean \/ Back
  BY <1>9 DEF Clean, Back
<1>10. CASE ChangesRole \/ Take \/ Sample
  BY <1>10 DEF ChangesRole, Take, Sample
<1>11. CASE Crash
  <2>1. taken' = FALSE /\ faults < MaxFaults /\ faults' = faults + 1
    BY <1>11 DEF Crash, Restarts
  <2>2. taken' \in BOOLEAN
    BY <2>1, Zenon
  <2> QED BY <2>1, <2>2
<1>12. CASE UNCHANGED vars
  BY <1>12 DEF vars
<1> QED
  BY <1>2, <1>4, <1>5, <1>6, <1>7, <1>8, <1>9, <1>10, <1>11, <1>12, <1>3 DEF Next, HeadStep

LEMMA ServerStep ==
    ASSUME TypeOK, ServerHasBatch, [Next]_vars
    PROVE  ServerHasBatch'
<1> USE DEF ServerHasBatch, Goto
<1>1. CASE Read \/ Clear \/ Clean
  BY <1>1 DEF Read, Clear, Clean
<1>2. CASE Reply
  BY <1>2 DEF Reply
<1>3. CASE Sample \/ Restarts
  BY <1>3 DEF Sample, Restarts
<1>4. CASE UNCHANGED <<store, batch, server>> /\ (pc' = pc \/ pc' # "clear")
  BY <1>4
<1> QED BY <1>1, <1>2, <1>3, <1>4, RecordSteps

----------------------------------------------------------------------------
(* What a transmitter sends is what parse_rcswitch reads *)

\* Division with remainder is unique.
LEMMA Division ==
    ASSUME NEW p \in Nat \ {0}, NEW q \in Nat, NEW r \in 0..p - 1
    PROVE  (p * q + r) \div p = q /\ (p * q + r) % p = r
OBVIOUS

LEMMA Remainder ==
    ASSUME NEW p \in Nat \ {0}, NEW x \in Nat
    PROVE  /\ x \div p \in Nat /\ x % p \in 0..p - 1
           /\ x = p * (x \div p) + (x % p)
<1>1. x \div p \in Nat
  OBVIOUS
<1>2. x % p \in 0..p - 1
  OBVIOUS
<1>3. x = p * (x \div p) + (x % p)
  OBVIOUS
<1> QED BY <1>1, <1>2, <1>3

\* Half of a quotient is the quotient by the double.
LEMMA Halved ==
    ASSUME NEW x \in Nat, NEW p \in Nat \ {0}
    PROVE  x \div p = 2 * (x \div (2 * p)) + ((x \div p) % 2)
<1> DEFINE q == x \div p
           a == q \div 2
           b == q % 2
           r == x % p
<1>1. q \in Nat /\ r \in 0..p - 1 /\ x = p * q + r
  BY Remainder
<1>2. a \in Nat /\ b \in {0, 1} /\ q = 2 * a + b
  BY <1>1
<1> HIDE DEF q, a, b, r
<1>3. x = p * (2 * a + b) + r
  BY <1>1, <1>2
<1>4. p * (2 * a + b) = (2 * p) * a + p * b
  BY <1>2
<1>5. p * b + r \in 0..2 * p - 1
  BY <1>1, <1>2
<1>6. x = (2 * p) * a + (p * b + r)
  BY <1>1, <1>2, <1>3, <1>4
<1>7. x \div (2 * p) = a
  <2>1. 2 * p \in Nat \ {0}
    OBVIOUS
  <2>2. \A y \in 0..2 * p - 1 : ((2 * p) * a + y) \div (2 * p) = a
    BY <1>2, <2>1, Division
  <2> QED BY <1>5, <1>6, <2>2
<1>8. q = 2 * a + (q % 2)
  BY <1>2 DEF b
<1>9. q = 2 * (x \div (2 * p)) + (q % 2)
  BY <1>7, <1>8
<1> QED BY <1>9 DEF q

\* A set with one more element has twice as many subsets.
LEMMA TwiceAsMany ==
    ASSUME NEW n \in Nat
    PROVE  2 ^ (n + 1) = 2 * 2 ^ n /\ 2 ^ n \in Nat
<1> DEFINE S == 1..n
           T == 1..n + 1
           N == {A \cup {n + 1} : A \in SUBSET S}
           f == [A \in SUBSET S |-> A \cup {n + 1}]
<1>1. IsFiniteSet(S) /\ Cardinality(S) = n /\ IsFiniteSet(T) /\ Cardinality(T) = n + 1
  BY FS_Interval
<1>2. /\ IsFiniteSet(SUBSET S) /\ Cardinality(SUBSET S) = 2 ^ n
      /\ Cardinality(SUBSET T) = 2 ^ (n + 1)
  BY <1>1, FS_SUBSET
<1>3. n + 1 \notin S
  OBVIOUS
<1>4. f \in Bijection(SUBSET S, N)
  <2>1. f \in [SUBSET S -> N]
    OBVIOUS
  <2>2. \A A, B \in SUBSET S : f[A] = f[B] => A = B
    BY <1>3
  <2>3. \A B \in N : \E A \in SUBSET S : f[A] = B
    OBVIOUS
  <2>4. DOMAIN f = SUBSET S
    OBVIOUS
  <2> HIDE DEF f, N
  <2>5. IsInjective(f)
    BY <2>2, <2>4 DEF IsInjective
  <2> QED BY <2>1, <2>3, <2>5 DEF Bijection, Injection, Surjection
<1>5. IsFiniteSet(N) /\ Cardinality(N) = 2 ^ n
  <2>1. ExistsBijection(SUBSET S, N)
    BY <1>4 DEF ExistsBijection
  <2> QED BY <1>2, <2>1, FS_Bijection
<1>6. SUBSET T = (SUBSET S) \cup N
  <2>1. T = S \cup {n + 1}
    OBVIOUS
  <2>2. ASSUME NEW A \in SUBSET T PROVE A \in (SUBSET S) \cup N
    <3>1. CASE n + 1 \in A
      <4>1. A \ {n + 1} \in SUBSET S
        BY <2>1
      <4>2. A = (A \ {n + 1}) \cup {n + 1}
        BY <3>1
      <4> QED BY <4>1, <4>2
    <3>2. CASE n + 1 \notin A
      BY <2>1, <3>2
    <3> QED BY <3>1, <3>2
  <2>3. (SUBSET S) \cup N \subseteq SUBSET T
    BY <2>1
  <2> QED BY <2>2, <2>3
<1>7. (SUBSET S) \cap N = {}
  BY <1>3
<1>8. Cardinality(SUBSET T) = Cardinality(SUBSET S) + Cardinality(N) - Cardinality({})
  BY <1>2, <1>5, <1>6, <1>7, FS_Union
<1>9. Cardinality({}) = 0 /\ Cardinality(SUBSET S) \in Nat
  BY <1>2, FS_EmptySet, FS_CardinalityType
<1> QED BY <1>2, <1>5, <1>8, <1>9

LEMMA PowersOfTwo ==
    ASSUME NEW n \in Nat
    PROVE  2 ^ n \in Nat \ {0}
<1> DEFINE T == {k \in Nat : 2 ^ k = 0}
<1> SUFFICES ASSUME T # {} PROVE FALSE
  BY TwiceAsMany
<1>1. Min(T) \in T /\ \A y \in T : Min(T) <= y
  BY MinIsLeast
<1>2. 2 ^ 0 = 1
  OBVIOUS
<1>3. PICK m \in Nat : Min(T) = m + 1
  <2>1. T \subseteq Nat /\ 0 \notin T
    BY <1>2
  <2> HIDE DEF T
  <2>3. Min(T) \in Nat \ {0}
    BY <1>1, <2>1
  <2>2. \A k \in Nat \ {0} : k - 1 \in Nat /\ k = (k - 1) + 1
    OBVIOUS
  <2> QED BY <2>2, <2>3
<1>4. 2 ^ (m + 1) = 2 * 2 ^ m /\ 2 ^ m \in Nat
  BY TwiceAsMany
<1>5. 2 ^ (m + 1) = 0
  BY <1>1, <1>3
<1>6. m \in T
  BY <1>4, <1>5
<1> QED BY <1>1, <1>3, <1>6

P == 2 * Bits + 2
Bit(code, k) == (code \div 2 ^ (Bits - k)) % 2

\* The digits of a code, read one by one, are the code.
LEMMA DigitsRead ==
    ASSUME NEW code \in 0..2 ^ Bits - 1, NEW c, NEW first \in Nat,
           \A k \in 1..Bits : BitAt(c, first + 2 * (k - 1)) = Bit(code, k)
    PROVE  Code(c, first) = code
<1> USE RcSwitchAssumption
<1> DEFINE g == [k \in 0..Bits |-> code \div 2 ^ (Bits - k)]
           Eq(f) == f = [k \in 0..Bits |->
                            IF k = 0 THEN 0
                            ELSE 2 * f[k - 1] + BitAt(c, first + 2 * (k - 1))]
<1>0. code \in Nat
  <2>1. 2 ^ Bits \in Nat
    BY PowersOfTwo
  <2> QED BY <2>1
<1>1. g[0] = 0
  <2>1. 2 ^ Bits \in Nat \ {0}
    BY PowersOfTwo
  <2>2. \A p \in Nat \ {0} : code \in 0..p - 1 => code \div p = 0
    OBVIOUS
  <2>3. code \div 2 ^ Bits = 0
    BY <2>1, <2>2
  <2>4. Bits - 0 = Bits
    OBVIOUS
  <2> QED BY <2>3, <2>4
<1>2. ASSUME NEW k \in 1..Bits
      PROVE  g[k] = 2 * g[k - 1] + Bit(code, k)
  <2>1. Bits - k \in Nat /\ Bits - (k - 1) = (Bits - k) + 1
    OBVIOUS
  <2>2. 2 ^ (Bits - (k - 1)) = 2 * 2 ^ (Bits - k) /\ 2 ^ (Bits - k) \in Nat \ {0}
    BY <2>1, TwiceAsMany, PowersOfTwo
  <2>3. \A p \in Nat \ {0} : code \div p = 2 * (code \div (2 * p)) + ((code \div p) % 2)
    BY <1>0, Halved
  <2>4. code \div 2 ^ (Bits - k) = 2 * (code \div (2 * 2 ^ (Bits - k)))
                                   + ((code \div 2 ^ (Bits - k)) % 2)
    BY <2>2, <2>3
  <2>5. g[k] = code \div 2 ^ (Bits - k) /\ g[k - 1] = code \div 2 ^ (Bits - (k - 1))
    OBVIOUS
  <2> QED BY <2>2, <2>4, <2>5 DEF Bit
<1>3. Eq(g)
  <2>1. \A k \in 0..Bits : g[k] = IF k = 0 THEN 0
                                  ELSE 2 * g[k - 1] + BitAt(c, first + 2 * (k - 1))
    <3> HIDE DEF g
    <3>1. SUFFICES ASSUME NEW k \in 0..Bits
                   PROVE  g[k] = IF k = 0 THEN 0
                                 ELSE 2 * g[k - 1] + BitAt(c, first + 2 * (k - 1))
      OBVIOUS
    <3>2. CASE k = 0
      BY <1>1, <3>2
    <3>3. CASE k # 0
      <4>1. k \in 1..Bits
        BY <3>3
      <4>2. BitAt(c, first + 2 * (k - 1)) = Bit(code, k)
        BY <4>1
      <4>3. g[k] = 2 * g[k - 1] + Bit(code, k)
        BY <1>2, <4>1
      <4> QED BY <3>3, <4>2, <4>3
    <3> QED BY <3>2, <3>3
  <2>2. g = [k \in 0..Bits |-> g[k]]
    OBVIOUS
  <2> HIDE DEF g
  <2> QED BY <2>1, <2>2
<1>4. ASSUME NEW f, Eq(f)
      PROVE  f[Bits] = code
  <2> DEFINE T == {k \in Nat : k \in 0..Bits /\ f[k] # g[k]}
  <2> HIDE DEF g
  <2>1. T = {}
    <3> SUFFICES ASSUME T # {} PROVE FALSE
      OBVIOUS
    <3>1. Min(T) \in T /\ \A y \in T : Min(T) <= y
      BY MinIsLeast
    <3> DEFINE m == Min(T)
    <3>2. m \in 0..Bits /\ f[m] # g[m] /\ \A y \in 0..Bits : f[y] # g[y] => m <= y
      <4>1. /\ \A y \in T : y \in 0..Bits /\ f[y] # g[y]
            /\ \A y \in 0..Bits : f[y] # g[y] => y \in T
        OBVIOUS
      <4> HIDE DEF T
      <4> QED BY <3>1, <4>1
    <3> HIDE DEF m, T
    <3>3. m # 0
      <4>1. f[0] = 0
        BY <1>4
      <4> QED BY <1>1, <3>2, <4>1
    <3>4. m - 1 \in 0..Bits /\ ~(m <= m - 1) /\ m \in 1..Bits
      BY <3>2, <3>3
    <3>5. f[m - 1] = g[m - 1]
      BY <3>2, <3>4
    <3>6. f[m] = 2 * f[m - 1] + BitAt(c, first + 2 * (m - 1))
      BY <1>4, <3>2, <3>3
    <3>7. g[m] = 2 * g[m - 1] + Bit(code, m)
      BY <1>2, <3>4
    <3>8. BitAt(c, first + 2 * (m - 1)) = Bit(code, m)
      BY <3>4
    <3> QED BY <3>2, <3>5, <3>6, <3>7, <3>8
  <2>2. Bits \in Nat /\ Bits \in 0..Bits
    OBVIOUS
  <2>3. f[Bits] = g[Bits]
    BY <2>1, <2>2
  <2>4. g[Bits] = code
    <3>1. Bits - Bits = 0 /\ 2 ^ 0 = 1
      OBVIOUS
    <3>2. code \div 1 = code
      BY <1>0
    <3> QED BY <2>2, <3>1, <3>2 DEF g
  <2> QED BY <2>3, <2>4
<1> HIDE DEF g
<1>5. Eq(CHOOSE f : Eq(f))
  BY <1>3
<1>6. (CHOOSE f : Eq(f))[Bits] = code
  BY <1>4, <1>5
<1> QED BY <1>6 DEF Code

High(w) == [high |-> TRUE, width |-> w]
Low(w) == [high |-> FALSE, width |-> w]

LEMMA PeriodIsNat == P \in Nat \ {0} /\ P >= 4 /\ Bits \in Nat \ {0}
BY RcSwitchAssumption DEF P

\* The levels of a burst: those of a bit, and the sync.
LEMMA BurstLevels ==
    ASSUME NEW code \in Nat
    PROVE  /\ \A k \in 1..Bits :
                 /\ Burst(code)[2 * k - 1] = High(IF Bit(code, k) = 1 THEN 3 ELSE 1)
                 /\ Burst(code)[2 * k] = Low(IF Bit(code, k) = 1 THEN 1 ELSE 3)
           /\ Burst(code)[P - 1] = High(1) /\ Burst(code)[P] = Low(31)
<1> USE RcSwitchAssumption
<1>1. ASSUME NEW k \in 1..Bits
      PROVE  /\ Burst(code)[2 * k - 1] = High(IF Bit(code, k) = 1 THEN 3 ELSE 1)
             /\ Burst(code)[2 * k] = Low(IF Bit(code, k) = 1 THEN 1 ELSE 3)
  <2>1. /\ 2 * k - 1 \in 1..2 * Bits + 2 /\ ((2 * k - 1) + 1) \div 2 = k
        /\ (2 * k - 1) % 2 = 1
    OBVIOUS
  <2>2. 2 * k \in 1..2 * Bits + 2 /\ (2 * k + 1) \div 2 = k /\ (2 * k) % 2 = 0
    OBVIOUS
  <2>3. ~(k > Bits) /\ 2 - 1 = 1 /\ 2 - 0 = 2
    OBVIOUS
  <2>4. Burst(code)[2 * k - 1] = IF (code \div 2 ^ (Bits - k)) % 2 = 1
                                 THEN Pair(3, 1)[1] ELSE Pair(1, 3)[1]
    BY <2>1, <2>3 DEF Burst
  <2>5. Burst(code)[2 * k] = IF (code \div 2 ^ (Bits - k)) % 2 = 1
                             THEN Pair(3, 1)[2] ELSE Pair(1, 3)[2]
    BY <2>2, <2>3 DEF Burst
  <2> QED BY <2>4, <2>5 DEF Pair, Bit, High, Low
<1>2. Burst(code)[P - 1] = High(1) /\ Burst(code)[P] = Low(31)
  <2>1. /\ P - 1 = 2 * Bits + 1 /\ P = 2 * Bits + 2
        /\ 2 * Bits + 1 \in 1..2 * Bits + 2 /\ 2 * Bits + 2 \in 1..2 * Bits + 2
    BY DEF P
  <2>2. /\ ((2 * Bits + 1) + 1) \div 2 = Bits + 1 /\ (2 * Bits + 1) % 2 = 1
        /\ ((2 * Bits + 2) + 1) \div 2 = Bits + 1 /\ (2 * Bits + 2) % 2 = 0
    OBVIOUS
  <2>3. Bits + 1 > Bits /\ 2 - 1 = 1 /\ 2 - 0 = 2
    OBVIOUS
  <2>4. Burst(code)[2 * Bits + 1] = Pair(1, 31)[1] /\ Burst(code)[2 * Bits + 2] = Pair(1, 31)[2]
    BY <2>1, <2>2, <2>3 DEF Burst
  <2> QED BY <2>1, <2>4 DEF Pair, High, Low
<1> QED BY <1>1, <1>2

\* Every level of a burst is one of these.
LEMMA BurstIndex ==
    ASSUME NEW j \in 1..P
    PROVE  \/ j = P \/ j = P - 1
           \/ \E k \in 1..Bits : j = 2 * k - 1 \/ j = 2 * k
<1> USE PeriodIsNat
<1>1. CASE j < P - 1
  <2> DEFINE k == (j + 1) \div 2
  <2>1. k \in 1..Bits /\ (j = 2 * k - 1 \/ j = 2 * k)
    BY <1>1 DEF P
  <2> QED BY <2>1
<1> QED BY <1>1

\* A level of several bursts is in one of them.
LEMMA WhichBurst ==
    ASSUME NEW n \in Nat \ {0}, NEW x \in 0..n * P - 1
    PROVE  (x \div P) + 1 \in 1..n /\ (x % P) + 1 \in 1..P
<1> USE PeriodIsNat
<1> DEFINE q == x \div P
<1>1. q \in Nat /\ x % P \in 0..P - 1 /\ x = P * q + (x % P)
  <2>1. n * P \in Nat /\ x \in Nat
    OBVIOUS
  <2> QED BY <2>1, Remainder
<1> HIDE DEF q
<1>2. q < n
  <2> SUFFICES ASSUME q >= n PROVE FALSE
    BY <1>1
  <2>1. q - n \in Nat /\ q = n + (q - n)
    BY <1>1
  <2>2. P * (q - n) \in Nat
    BY <2>1
  <2>3. P * q = n * P + P * (q - n)
    BY <1>1
  <2> QED BY <1>1, <2>2, <2>3
<1>3. q + 1 \in 1..n /\ (x % P) + 1 \in 1..P
  BY <1>1, <1>2
<1> QED BY <1>3 DEF q

\* The capture of several bursts.
LEMMA BurstsLevels ==
    ASSUME NEW g \in Seq(Nat), g # <<>>
    PROVE  /\ Len(g) \in Nat \ {0} /\ Len(g) * P \in Nat
           /\ Bursts(g) \in Seq(Level) /\ Len(Bursts(g)) = Len(g) * P
           /\ \A i \in 1..Len(g) * P :
                 /\ ((i - 1) \div P) + 1 \in 1..Len(g)
                 /\ Bursts(g)[i] = Burst(g[((i - 1) \div P) + 1])[((i - 1) % P) + 1]
<1> USE PeriodIsNat
<1> DEFINE n == Len(g)
           c == Bursts(g)
<1>0. n \in Nat \ {0}
  OBVIOUS
<1> HIDE DEF n
<1>1. n * P \in Nat
  BY <1>0
<1>2. c = [i \in 1..n * P |-> Burst(g[((i - 1) \div P) + 1])[((i - 1) % P) + 1]]
  BY DEF Bursts, P, n
<1>3. ASSUME NEW code \in Nat, NEW j \in 1..P PROVE Burst(code)[j] \in Level
  <2>1. \A w \in {1, 3, 31} : High(w) \in Level /\ Low(w) \in Level
    BY DEF High, Low, Level
  <2> QED BY BurstLevels, BurstIndex, <2>1
<1>4. ASSUME NEW i \in 1..n * P
      PROVE  ((i - 1) % P) + 1 \in 1..P /\ ((i - 1) \div P) + 1 \in 1..n
  <2>1. i - 1 \in 0..n * P - 1
    BY <1>1
  <2> QED BY <1>0, <2>1, WhichBurst
<1> HIDE DEF c
<1>6. ASSUME NEW i \in 1..n * P
      PROVE  Burst(g[((i - 1) \div P) + 1])[((i - 1) % P) + 1] \in Level
  <2> DEFINE b == ((i - 1) \div P) + 1
             j == ((i - 1) % P) + 1
  <2>1. b \in 1..n /\ j \in 1..P
    BY <1>4
  <2> HIDE DEF b, j
  <2>2. g[b] \in Nat
    BY <2>1 DEF n
  <2>3. Burst(g[b])[j] \in Level
    BY <1>3, <2>1, <2>2
  <2> QED BY <2>3 DEF b, j
<1>5. c \in [1..n * P -> Level]
  BY <1>2, <1>6
<1>7. c \in Seq(Level) /\ Len(c) = n * P
  BY <1>1, <1>5
<1>8. \A i \in 1..n * P : /\ ((i - 1) \div P) + 1 \in 1..n
                         /\ c[i] = Burst(g[((i - 1) \div P) + 1])[((i - 1) % P) + 1]
  BY <1>2, <1>4
<1> QED BY <1>0, <1>1, <1>7, <1>8 DEF c, n

\* Where a sync is in it.
LEMMA SyncAt ==
    ASSUME NEW g \in Seq(Nat), g # <<>>, NEW i \in Nat \ {0}, i + 1 <= Len(g) * P
    PROVE  IsSync(Bursts(g), i) <=> i % P = P - 1
<1> USE PeriodIsNat
<1> DEFINE n == Len(g)
           c == Bursts(g)
           q == i \div P
<1>1. /\ n \in Nat \ {0} /\ n * P \in Nat /\ c \in Seq(Level) /\ Len(c) = n * P
      /\ \A x \in 1..n * P :
            /\ ((x - 1) \div P) + 1 \in 1..n
            /\ c[x] = Burst(g[((x - 1) \div P) + 1])[((x - 1) % P) + 1]
  BY BurstsLevels
<1>0. i + 1 <= n * P
  OBVIOUS
<1> HIDE DEF n, c
<1>2. /\ c[i] = Burst(g[((i - 1) \div P) + 1])[((i - 1) % P) + 1]
      /\ c[i + 1] = Burst(g[q + 1])[(i % P) + 1]
      /\ q + 1 \in 1..n
  <2>1. i \in 1..n * P /\ i + 1 \in 1..n * P /\ (i + 1) - 1 = i
    BY <1>0, <1>1
  <2>2. /\ (((i + 1) - 1) \div P) + 1 \in 1..n
        /\ c[i + 1] = Burst(g[(((i + 1) - 1) \div P) + 1])[(((i + 1) - 1) % P) + 1]
    BY <1>1, <2>1
  <2>3. c[i] = Burst(g[((i - 1) \div P) + 1])[((i - 1) % P) + 1]
    BY <1>1, <2>1
  <2> QED BY <2>1, <2>2, <2>3
<1>7. g[q + 1] \in Nat
  BY <1>2 DEF n
<1>3. SubSeq(c, i, i + 1) = << c[i], c[i + 1] >>
  <2>1. i \in 1..Len(c) /\ i + 1 \in 1..Len(c)
    BY <1>0, <1>1
  <2>2. Len(SubSeq(c, i, i + 1)) = 2
    BY <1>1, <2>1
  <2>3. SubSeq(c, i, i + 1)[1] = c[i] /\ SubSeq(c, i, i + 1)[2] = c[i + 1]
    BY <1>1, <2>1
  <2>4. SubSeq(c, i, i + 1) \in Seq(Level)
    BY <1>1, <2>1
  <2>5. \A s \in Seq(Level) : Len(s) = 2 => s = << s[1], s[2] >>
    OBVIOUS
  <2> QED BY <2>2, <2>3, <2>4, <2>5
<1>4. i % P \in 0..P - 1 /\ i = P * q + (i % P) /\ q \in Nat
  BY Remainder
<1>5. CASE i % P = P - 1
  <2>1. i - 1 = P * q + (P - 2) /\ P - 2 \in 0..P - 1
    BY <1>4, <1>5
  <2>2. (i - 1) % P = P - 2 /\ (i - 1) \div P = q
    <3> HIDE DEF q
    <3>1. (P * q + (P - 2)) % P = P - 2 /\ (P * q + (P - 2)) \div P = q
      BY <1>4, <2>1, Division
    <3> QED BY <2>1, <3>1
  <2>3. c[i] = Burst(g[q + 1])[P - 1] /\ c[i + 1] = Burst(g[q + 1])[P]
    <3>1. (P - 2) + 1 = P - 1 /\ (P - 1) + 1 = P
      OBVIOUS
    <3> QED BY <1>2, <1>5, <2>2, <3>1
  <2>4. c[i] = High(1) /\ c[i + 1] = Low(31)
    BY <1>7, <2>3, BurstLevels
  <2> QED BY <1>3, <1>5, <2>4 DEF IsSync, Pair, High, Low, c
<1>6. CASE i % P # P - 1
  <2> DEFINE j == (i % P) + 1
             code == g[q + 1]
  <2>0. code \in Nat
    BY <1>7
  <2> HIDE DEF code
  <2>1. j \in 1..P /\ j # P
    BY <1>4, <1>6
  <2>2. Burst(code)[j].width # 31
    <3>1. \A w : High(w).width = w /\ Low(w).width = w
      BY DEF High, Low
    <3>2. CASE j = P - 1
      BY <2>0, <3>1, <3>2, BurstLevels
    <3>3. CASE j # P - 1
      <4> HIDE DEF j
      <4>1. PICK k \in 1..Bits : j = 2 * k - 1 \/ j = 2 * k
        BY <2>1, <3>3, BurstIndex
      <4>2. \/ Burst(code)[j] = High(IF Bit(code, k) = 1 THEN 3 ELSE 1)
            \/ Burst(code)[j] = Low(IF Bit(code, k) = 1 THEN 1 ELSE 3)
        BY <2>0, <4>1, BurstLevels
      <4> QED BY <3>1, <4>2
    <3> QED BY <3>2, <3>3
  <2>3. c[i + 1].width # 31
    BY <1>2, <2>2 DEF code
  <2>4. Pair(1, 31)[2].width = 31 /\ << c[i], c[i + 1] >>[2] = c[i + 1]
    BY DEF Pair
  <2> QED BY <1>3, <1>6, <2>3, <2>4 DEF IsSync, c
<1> QED BY <1>5, <1>6

\* After a sync the bits of the next burst's code follow.
LEMMA BitsAfterSync ==
    ASSUME NEW g \in Seq(Nat), g # <<>>, NEW f \in Nat, f % P = P - 1,
           f + 2 * Bits + 1 <= Len(g) * P, NEW k \in 1..Bits
    PROVE  /\ (f \div P) + 2 \in 1..Len(g)
           /\ BitAt(Bursts(g), (f + 2) + 2 * (k - 1)) = Bit(g[(f \div P) + 2], k)
<1> USE PeriodIsNat
<1> DEFINE n == Len(g)
           c == Bursts(g)
           i == (f + 2) + 2 * (k - 1)
           q == f \div P
           code == g[q + 2]
<1>1. q \in Nat /\ f = P * q + (P - 1)
  BY Remainder
<1>2. P * (q + 1) = P * q + P
  BY <1>1
<1>0. /\ n \in Nat \ {0} /\ n * P \in Nat
      /\ \A x \in 1..n * P :
            /\ ((x - 1) \div P) + 1 \in 1..n
            /\ c[x] = Burst(g[((x - 1) \div P) + 1])[((x - 1) % P) + 1]
  BY BurstsLevels
<1>10. f + 2 * Bits + 1 <= n * P
  OBVIOUS
<1> HIDE DEF q, n, c
<1>3. i - 1 = P * (q + 1) + (2 * k - 2) /\ i = P * (q + 1) + (2 * k - 1)
  BY <1>1, <1>2
<1>4. 2 * k - 2 \in 0..P - 1 /\ 2 * k - 1 \in 0..P - 1 /\ q + 1 \in Nat
  BY <1>1 DEF P
<1>5. i \in 1..n * P /\ i + 1 \in 1..n * P /\ (i + 1) - 1 = i
  BY <1>0, <1>10
<1> HIDE DEF i
<1>6. /\ (i - 1) % P = 2 * k - 2 /\ i % P = 2 * k - 1
      /\ (i - 1) \div P = q + 1 /\ i \div P = q + 1
  <2>1. \A x \in 0..P - 1 : (P * (q + 1) + x) % P = x /\ (P * (q + 1) + x) \div P = q + 1
    BY <1>4, Division
  <2> QED BY <1>3, <1>4, <2>1
<1>7. /\ c[i] = Burst(code)[2 * k - 1] /\ c[i + 1] = Burst(code)[2 * k]
      /\ q + 2 \in 1..n
  <2>1. (2 * k - 2) + 1 = 2 * k - 1 /\ (2 * k - 1) + 1 = 2 * k /\ (q + 1) + 1 = q + 2
    BY <1>1
  <2>2. /\ ((i - 1) \div P) + 1 \in 1..n
        /\ c[i] = Burst(g[((i - 1) \div P) + 1])[((i - 1) % P) + 1]
    BY <1>0, <1>5
  <2>3. c[i + 1] = Burst(g[(((i + 1) - 1) \div P) + 1])[(((i + 1) - 1) % P) + 1]
    BY <1>0, <1>5
  <2> QED BY <1>5, <1>6, <2>1, <2>2, <2>3
<1>11. code \in Nat
  BY <1>7 DEF n
<1> HIDE DEF code
<1>8. /\ c[i].width = IF Bit(code, k) = 1 THEN 3 ELSE 1
      /\ c[i + 1].width = IF Bit(code, k) = 1 THEN 1 ELSE 3
  <2>1. /\ Burst(code)[2 * k - 1] = High(IF Bit(code, k) = 1 THEN 3 ELSE 1)
        /\ Burst(code)[2 * k] = Low(IF Bit(code, k) = 1 THEN 1 ELSE 3)
    BY <1>11, BurstLevels
  <2> QED BY <1>7, <2>1 DEF High, Low
<1>9. Bit(code, k) \in {0, 1}
  <2>1. Bits - k \in Nat
    OBVIOUS
  <2>2. 2 ^ (Bits - k) \in Nat \ {0}
    BY <2>1, PowersOfTwo
  <2>3. code \div 2 ^ (Bits - k) \in Nat
    BY <1>11, <2>2, Remainder
  <2> QED BY <2>3 DEF Bit
<1>12. BitAt(c, i) = Bit(code, k)
  BY <1>8, <1>9 DEF BitAt
<1> QED BY <1>7, <1>12 DEF i, c, n, q, code

\* parse_rcswitch reads a capture of several bursts, whatever their codes, as one of these or
\* as none, and as the code if they all have the same and are at least four.
THEOREM CodeParsed ==
    ASSUME NEW g \in Seq(0..2 ^ Bits - 1), g # <<>>
    PROVE  /\ Parse(Bursts(g)) \in {0} \cup {g[b] : b \in 1..Len(g)}
           /\ \A code : Len(g) >= 4 /\ (\A b \in 1..Len(g) : g[b] = code)
                        => Parse(Bursts(g)) = code
<1> USE PeriodIsNat
<1> DEFINE n == Len(g)
           c == Bursts(g)
           count == Len(c) \div 2
           syncs == {i \in 1..count - 2 * Bits : IsSync(c, i)}
           first == Min(syncs) + 2
           none == \/ syncs = {}
                   \/ first + 2 * Bits - 1 > count
                   \/ \E k \in 1..Bits : BitAt(c, first + 2 * (k - 1)) = 2
<1>0. n \in Nat \ {0}
  OBVIOUS
<1>1. g \in Seq(Nat) /\ \A b \in 1..n : g[b] \in 0..2 ^ Bits - 1 /\ g[b] \in Nat
  <2>1. 2 ^ Bits \in Nat
    BY PowersOfTwo
  <2>2. \A b \in 1..n : g[b] \in 0..2 ^ Bits - 1
    OBVIOUS
  <2>3. \A b \in 1..n : g[b] \in Nat
    BY <2>1, <2>2
  <2>4. g \in Seq(Nat)
    BY <2>3
  <2> QED BY <2>2, <2>3, <2>4
<1>2. Parse(c) = IF none THEN 0 ELSE Code(c, first)
  BY DEF Parse
<1>10. Len(c) = n * P
  BY <1>1, BurstsLevels
<1> HIDE DEF n
<1>3. /\ count = n * (Bits + 1) /\ count \in Nat
      /\ n * P = 2 * count
  <2>1. n * P = 2 * (n * (Bits + 1)) /\ n * (Bits + 1) \in Nat
    BY <1>0 DEF P
  <2> HIDE DEF c
  <2>3. \A x \in Nat : (2 * x) \div 2 = x
    OBVIOUS
  <2> QED BY <1>10, <2>1, <2>3
<1>4. \A i \in 1..count - 2 * Bits : IsSync(c, i) <=> i % P = P - 1
  <2> HIDE DEF count
  <2>1. SUFFICES ASSUME NEW i \in 1..count - 2 * Bits
                 PROVE  IsSync(c, i) <=> i % P = P - 1
    OBVIOUS
  <2>2. i \in Nat \ {0} /\ i + 1 <= n * P
    BY <1>3
  <2> QED BY <1>1, <2>2, SyncAt DEF n
<1> HIDE DEF c, count
<1>5. ASSUME syncs # {}
      PROVE  /\ Min(syncs) \in Nat /\ Min(syncs) % P = P - 1
             /\ \A y \in syncs : Min(syncs) <= y
  <2>1. syncs \subseteq Nat /\ \A y \in syncs : y % P = P - 1
    BY <1>3, <1>4
  <2>2. Min(syncs) \in syncs /\ \A y \in syncs : Min(syncs) <= y
    <3> HIDE DEF syncs
    <3> QED BY <1>5, <2>1, MinIsLeast
  <2> HIDE DEF syncs
  <2> QED BY <2>1, <2>2
<1>6. ASSUME syncs # {}, first + 2 * Bits - 1 <= count
      PROVE  ~none /\ \E b \in 1..n : Code(c, first) = g[b]
  <2> DEFINE m == Min(syncs)
             b == (m \div P) + 2
             code == g[b]
  <2>1. m \in Nat /\ m % P = P - 1 /\ first = m + 2
    BY <1>5, <1>6
  <2> HIDE DEF m, syncs
  <2>2. m + 2 * Bits + 1 <= n * P
    BY <1>3, <1>6, <2>1
  <2>9. ASSUME NEW k \in 1..Bits
        PROVE  b \in 1..n /\ BitAt(c, (m + 2) + 2 * (k - 1)) = Bit(code, k)
    BY <1>1, <2>1, <2>2, BitsAfterSync DEF c, n
  <2> HIDE DEF first, b
  <2>3. b \in 1..n
    BY <2>9
  <2>10. code \in 0..2 ^ Bits - 1 /\ code \in Nat
    BY <1>1, <2>3
  <2>4. \A k \in 1..Bits : BitAt(c, first + 2 * (k - 1)) = Bit(code, k)
    BY <2>1, <2>9
  <2> HIDE DEF code
  <2>5. \A k \in 1..Bits : Bit(code, k) # 2
    <3>1. SUFFICES ASSUME NEW k \in 1..Bits PROVE Bit(code, k) # 2
      OBVIOUS
    <3>2. Bits - k \in Nat
      OBVIOUS
    <3>3. 2 ^ (Bits - k) \in Nat \ {0}
      BY <3>2, PowersOfTwo
    <3>4. code \div 2 ^ (Bits - k) \in Nat
      BY <2>10, <3>3, Remainder
    <3> QED BY <3>4 DEF Bit
  <2>6. first \in Nat
    BY <2>1
  <2>7. Code(c, first) = code
    BY <2>4, <2>6, <2>10, DigitsRead
  <2>8. ~none
    <3>1. ~\E k \in 1..Bits : BitAt(c, first + 2 * (k - 1)) = 2
      BY <2>4, <2>5
    <3>2. ~(first + 2 * Bits - 1 > count)
      BY <1>3, <1>6, <2>6
    <3>3. syncs # {}
      BY <1>6 DEF syncs
    <3> QED BY <3>1, <3>2, <3>3 DEF first, m
  <2> QED BY <2>3, <2>7, <2>8 DEF code
<1>7. Parse(c) \in {0} \cup {g[b] : b \in 1..n}
  <2>1. CASE none
    BY <1>2, <2>1
  <2>2. CASE ~none
    <3>1. syncs # {} /\ first \in Nat
      BY <1>5, <2>2
    <3>2. first + 2 * Bits - 1 <= count
      <4> HIDE DEF first, syncs
      <4>1. ~(first + 2 * Bits - 1 > count)
        BY <2>2
      <4> QED BY <1>3, <3>1, <4>1
    <3> HIDE DEF none, first, syncs
    <3>3. Parse(c) = Code(c, first)
      BY <1>2, <2>2
    <3>4. \E b \in 1..n : Code(c, first) = g[b]
      BY <1>6, <3>1, <3>2
    <3> QED BY <3>3, <3>4
  <2> QED BY <2>1, <2>2
<1>8. ASSUME NEW code, n >= 4, \A b \in 1..n : g[b] = code
      PROVE  Parse(c) = code
  <2>1. count >= 4 * (Bits + 1)
    <3>1. n * (Bits + 1) >= 4 * (Bits + 1)
      BY <1>0, <1>8
    <3> QED BY <1>3, <3>1
  <2>2. P - 1 \in 1..count - 2 * Bits /\ (P - 1) % P = P - 1
    <3>1. 4 * (Bits + 1) - 2 * Bits >= 2 * Bits + 1
      OBVIOUS
    <3>2. P - 1 \in 1..count - 2 * Bits
      BY <1>3, <2>1, <3>1 DEF P
    <3>3. (P * 0 + (P - 1)) % P = P - 1
      <4>1. P - 1 \in 0..P - 1 /\ 0 \in Nat
        OBVIOUS
      <4> QED BY <4>1, Division
    <3>4. P * 0 + (P - 1) = P - 1
      OBVIOUS
    <3> QED BY <3>2, <3>3, <3>4
  <2>3. P - 1 \in syncs
    BY <1>4, <2>2
  <2>4. syncs # {} /\ Min(syncs) \in Nat /\ Min(syncs) <= P - 1
    BY <1>5, <2>3
  <2>5. first + 2 * Bits - 1 <= count
    <3> HIDE DEF syncs
    <3> QED BY <1>3, <2>1, <2>4 DEF P
  <2> HIDE DEF none, first, syncs
  <2> QED BY <1>2, <1>6, <1>8, <2>4, <2>5
<1> QED BY <1>7, <1>8 DEF c, n

\* What is read of the first queued event are bursts of queued frames, as many as it counted.
LEMMA BufferedCodes ==
    ASSUME NEW q \in Seq(Frame), q # <<>>
    PROVE  \E g \in Seq(0..2 ^ Bits - 1) :
              /\ g # <<>> /\ Len(g) = q[1].sent[2] /\ Buffered(q) = Bursts(g)
              /\ \A b \in 1..Len(g) : \E i \in 1..Len(q) : g[b] = q[i].sent[1]
<1> DEFINE n == q[1].sent[2]
           over(b) == {j \in 1..Len(q) : q[j].sent[2] >= b}
           last(b) == CHOOSE j \in over(b) : \A k \in over(b) : k <= j
           g == [b \in 1..n |-> q[last(b)].sent[1]]
<1>1. Len(q) \in Nat \ {0}
  OBVIOUS
<1>2. \A i \in 1..Len(q) : q[i].sent[1] \in 0..2 ^ Bits - 1 /\ q[i].sent[2] \in Nat \ {0}
  <2>1. SUFFICES ASSUME NEW i \in 1..Len(q)
                 PROVE  q[i].sent[1] \in 0..2 ^ Bits - 1 /\ q[i].sent[2] \in Nat \ {0}
    OBVIOUS
  <2>2. q[i] \in Frame
    OBVIOUS
  <2>3. q[i].sent \in Captures
    BY <2>2 DEF Frame
  <2> QED BY <2>3, OnboardingAssumption
<1>3. n \in Nat \ {0}
  BY <1>1, <1>2
<1>4. ASSUME NEW b \in 1..n
      PROVE  last(b) \in 1..Len(q)
  <2> DEFINE T == {Len(q) - j : j \in over(b)}
  <2>1. 1 \in over(b) /\ over(b) \subseteq 1..Len(q)
    BY <1>1, <1>3
  <2> HIDE DEF over
  <2>2. T \in SUBSET Nat /\ T # {}
    BY <1>1, <2>1
  <2>3. Min(T) \in T /\ \A y \in T : Min(T) <= y
    <3> HIDE DEF T
    <3> QED BY <2>2, MinIsLeast
  <2>4. PICK j \in over(b) : Min(T) = Len(q) - j
    BY <2>3
  <2>5. \A k \in over(b) : k <= j
    <3>1. SUFFICES ASSUME NEW k \in over(b) PROVE k <= j
      OBVIOUS
    <3>2. Min(T) <= Len(q) - k
      BY <2>3
    <3>3. k \in 1..Len(q) /\ j \in 1..Len(q)
      BY <2>1, <2>4
    <3> HIDE DEF T
    <3> QED BY <1>1, <2>4, <3>2, <3>3
  <2>6. last(b) \in over(b)
    BY <2>4, <2>5
  <2> QED BY <2>1, <2>6
<1> HIDE DEF last, n
<1>5. \A b \in 1..n : g[b] \in 0..2 ^ Bits - 1 /\ \E i \in 1..Len(q) : g[b] = q[i].sent[1]
  BY <1>2, <1>4
<1>6. g \in Seq(0..2 ^ Bits - 1) /\ Len(g) = n
  BY <1>3, <1>5
<1>7. g # <<>>
  BY <1>3, <1>6
<1>8. Buffered(q) = Bursts(g)
  BY DEF Buffered, n, last
<1> HIDE DEF g
<1> QED BY <1>5, <1>6, <1>7, <1>8 DEF n

----------------------------------------------------------------------------
(* The theorems *)

LEMMA Invariance == Spec => []IInv
<1>1. Init => IInv
  <2> SUFFICES ASSUME Init PROVE IInv
    OBVIOUS
  <2>1. rf = Fresh /\ wifi = Idle /\ pc = "none" /\ cause = "head"
    BY DEF Init
  <2>2. rf \in Receiver /\ rf.queue = <<>> /\ Len(rf.queue) = 0 /\ rf.armed
    BY <2>1 DEF Fresh, Receiver
  <2>3. /\ wifi \in Driver /\ wifi.events = <<>> /\ Len(wifi.events) = 0
        /\ ~wifi.handlers /\ ~wifi.delayed /\ wifi.link = "no" /\ wifi.mode = "espnow"
    BY <2>1, OnboardingAssumption, EventTypes DEF Idle, Driver
  <2>4. TypeOK
    <3>1. /\ role = "MEMBER" /\ pc = "none" /\ cause = "head" /\ taken = FALSE
          /\ store = {} /\ batch = {} /\ server = {} /\ faults = 0
      BY DEF Init
    <3>2. faults \in 0..MaxFaults
      BY <3>1, OnboardingAssumption
    <3>3. taken \in BOOLEAN
      BY <3>1, Zenon
    <3> QED BY <2>2, <2>3, <3>1, <3>2, <3>3 DEF TypeOK, When
  <2>5. Connected /\ EventQueue
    BY <2>1, <2>3, EventTypes DEF Connected, EventQueue, Joined
  <2>6. QueueOfHead /\ QueueShort /\ OffWhileAway /\ Listening /\ ServerHasBatch
    BY <2>1, <2>2 DEF QueueOfHead, QueueShort, OffWhileAway, Listening, ServerHasBatch, Silent, Joined
  <2> QED BY <2>4, <2>5, <2>6 DEF IInv
<1>2. IInv /\ [Next]_vars => IInv'
  <2> SUFFICES ASSUME IInv, [Next]_vars PROVE IInv'
    OBVIOUS
  <2>1. EventQueue' /\ Connected' /\ QueueOfHead' /\ QueueShort' /\ OffWhileAway'
    BY EventStep, ConnectedStep, QueueOfHeadStep, QueueShortStep, OffStep DEF IInv
  <2>2. Listening' /\ ServerHasBatch'
    BY ListeningStep, ServerStep DEF IInv
  <2>3. TypeOK'
    BY <2>1, RfTypes, WifiTypes, RoleTypes, RecordTypes, FaultTypes DEF IInv, TypeOK, QueueShort
  <2> QED BY <2>1, <2>2, <2>3 DEF IInv
<1> QED BY <1>1, <1>2, PTL DEF Spec

\* The head's, the receiver's and the driver's state stay within their ranges; in
\* particular two frames and two Wi-Fi events are all that is ever queued, although the
\* receiver is armed over a queued frame and events outlive their session.
THEOREM TypeCorrect == Spec => []TypeOK
<1>1. IInv => TypeOK
  BY DEF IInv
<1> QED BY <1>1, Invariance, PTL

\* Outside of an onboarding nothing connects the node to the access point any more,
\* whatever Wi-Fi events, driver errors and resets come (uav_client_cleanup).
THEOREM AccessPointLeft == Spec => []StaysOffTheAccessPoint
<1>1. IInv => StaysOffTheAccessPoint
  BY DEF IInv, Connected, StaysOffTheAccessPoint, Joined
<1> QED BY <1>1, Invariance, PTL

\* No frame that came during an onboarding, before the queue was drained, starts another
\* one (rf_receiver_enable).
THEOREM NoSelfTrigger == Spec => []NoTriggerFromOnboarding
<1>1. IInv => NoTriggerFromOnboarding
  BY DEF IInv, QueueOfHead, NoTriggerFromOnboarding
<1> QED BY <1>1, Invariance, PTL

\* A receiver that is on and has met no error waits for a frame or has one to look at
\* (rf_receiver_check_trigger, rf_receiver_enable).
THEOREM ReceiverListens == Spec => []Listening
<1>1. IInv => Listening
  BY DEF IInv
<1> QED BY <1>1, Invariance, PTL

\* Records leave the flash only when the server has answered 200 to a body that held all
\* the upload had read (uav_client_run_onboarding).
THEOREM UploadedBeforeCleared == Spec => ClearedAfterUpload
<1>1. IInv /\ [Next]_vars => [~(store \subseteq store') => batch # {} /\ batch \subseteq server]_vars
  <2> SUFFICES ASSUME IInv, [Next]_vars, ~(store \subseteq store')
               PROVE  batch # {} /\ batch \subseteq server
    OBVIOUS
  <2>1. Clear
    BY RecordSteps DEF IInv, Read, Reply, Clean, Sample, Restarts
  <2> QED BY <2>1 DEF Clear, IInv, ServerHasBatch
<1> QED BY <1>1, Invariance, PTL DEF Spec, ClearedAfterUpload

\* What the check of a channel that is done reads.
LEMMA CodeOfQueue ==
    ASSUME TypeOK, rf.queue # <<>>
    PROVE  LET code == Parse(Buffered(rf.queue))
               uavs == {i \in 1..Len(rf.queue) : rf.queue[i].sent[1] = UavCode}
           IN  /\ code = UavCode => uavs # {}
               /\ uavs = 1..Len(rf.queue) /\ Head(rf.queue).sent[2] >= 4 => code = UavCode
<1> DEFINE q == rf.queue
           code == Parse(Buffered(q))
           uavs == {i \in 1..Len(q) : q[i].sent[1] = UavCode}
<1>1. q \in Seq(Frame) /\ q # <<>> /\ UavCode # 0
  BY OnboardingAssumption DEF TypeOK, Receiver
<1> HIDE DEF q
<1>2. Head(q) = q[1]
  BY <1>1, QueueOps
<1>3. PICK g \in Seq(0..2 ^ Bits - 1) :
         /\ g # <<>> /\ Len(g) = q[1].sent[2] /\ Buffered(q) = Bursts(g)
         /\ \A b \in 1..Len(g) : \E i \in 1..Len(q) : g[b] = q[i].sent[1]
  BY <1>1, BufferedCodes
<1>4. /\ code \in {0} \cup {g[b] : b \in 1..Len(g)}
      /\ Len(g) >= 4 /\ (\A b \in 1..Len(g) : g[b] = UavCode) => code = UavCode
  <2>1. Parse(Bursts(g)) \in {0} \cup {g[b] : b \in 1..Len(g)}
    BY <1>3, CodeParsed
  <2>2. Len(g) >= 4 /\ (\A b \in 1..Len(g) : g[b] = UavCode) => Parse(Bursts(g)) = UavCode
    <3>1. \A x : Len(g) >= 4 /\ (\A b \in 1..Len(g) : g[b] = x) => Parse(Bursts(g)) = x
      BY <1>3, CodeParsed
    <3> QED BY <3>1
  <2> QED BY <1>3, <2>1, <2>2
<1> HIDE DEF code
<1>5. code = UavCode => uavs # {}
  BY <1>1, <1>3, <1>4
<1>6. uavs = 1..Len(q) /\ Head(q).sent[2] >= 4 => code = UavCode
  <2> SUFFICES ASSUME uavs = 1..Len(q), Head(q).sent[2] >= 4 PROVE code = UavCode
    OBVIOUS
  <2>1. \A i \in 1..Len(q) : q[i].sent[1] = UavCode
    OBVIOUS
  <2>2. \A b \in 1..Len(g) : g[b] = UavCode
    BY <1>3, <2>1
  <2> QED BY <1>2, <1>3, <1>4, <2>2
<1> QED BY <1>5, <1>6 DEF code, q

\* A step of a head that flies an onboarding with the channel done is a check of the receiver,
\* and what it took out of the queue was read as the UAV's code.
LEMMA OnlyChecksStart ==
    ASSUME TypeOK, [Next]_vars, role = "CH", role' = "UAV", ~rf.armed
    PROVE  rf.queue # <<>> /\ Parse(Buffered(rf.queue)) = UavCode
<1>1. CASE CheckTrigger
  BY <1>1 DEF CheckTrigger, ActsOn, Restarts
<1>2. CASE CheckWhileReceiving
  BY <1>2 DEF CheckWhileReceiving
<1>3. CASE FrameArrives \/ RfOff \/ RfDrain \/ RfArm
  BY <1>3 DEF FrameArrives, RfOff, RfDrain, RfArm
<1>4. CASE Crash
  BY <1>4 DEF Crash, Restarts
<1>5. CASE Elsewhere
  BY <1>5 DEF Elsewhere
<1> QED BY <1>1, <1>2, <1>3, <1>4, <1>5, StepKindsInFull

\* A head with the channel done that takes the first frame out of its queue has checked it, or
\* was reset.
LEMMA OnlyChecksPop ==
    ASSUME TypeOK, [Next]_vars, role = "CH", rf.queue # <<>>, rf'.queue = Tail(rf.queue),
           ~rf.armed
    PROVE  CheckTrigger \/ role' = "MEMBER"
<1>0. rf \in Receiver /\ pc = "none"
  BY DEF TypeOK
<1>1. rf.queue \in Seq(Frame) /\ Len(rf.queue) \in Nat \ {0}
      /\ Len(Tail(rf.queue)) = Len(rf.queue) - 1
  BY <1>0 DEF Receiver
<1>2. rf'.queue = Tail(rf.queue)
  OBVIOUS
<1>4. rf'.queue # rf.queue
  <2>1. Len(Tail(rf.queue)) # Len(rf.queue)
    BY <1>1
  <2> QED BY Zenon, <1>2, <2>1
<1>5. ~(FrameArrives \/ CheckWhileReceiving)
  BY DEF FrameArrives, CheckWhileReceiving
<1>6. ~(RfOff \/ RfDrain \/ RfArm)
  BY <1>0 DEF RfOff, RfDrain, RfArm
<1>7. ~Elsewhere
  BY <1>4 DEF Elsewhere
<1>8. CASE Crash
  BY <1>8 DEF Crash, Restarts
<1> QED BY <1>5, <1>6, <1>7, <1>8, StepKindsInFull

\* The head flies an onboarding only when the UAV has sent one of the captures it has queued, and
\* does so when all of them are the UAV's and the first one is of at least four bursts, for each
\* that it can copy (rf_receiver_check_trigger, parse_rcswitch).  The captures share a buffer;
\* a check in the middle of a reception is left out.
THEOREM UavCodeStarts == Spec => StartsForTheUav
<1> DEFINE f == Head(rf.queue)
           uavs == {i \in 1..Len(rf.queue) : rf.queue[i].sent[1] = UavCode}
           A == role = "CH" /\ ~rf.armed =>
                /\ role' = "UAV" => uavs # {}
                /\ /\ rf.queue # <<>> /\ rf'.queue = Tail(rf.queue)
                   /\ uavs = 1..Len(rf.queue) /\ f.sent[2] >= 4
                   => \/ role' = "UAV"
                      \/ rf'.error \/ rf'.starved \/ role' = "MEMBER"
<1>1. ASSUME IInv, [Next]_vars
      PROVE  A
  <2>0. TypeOK /\ rf \in Receiver
    BY <1>1 DEF IInv, TypeOK
  <2>3. ASSUME role = "CH", role' = "UAV", ~rf.armed
        PROVE  uavs # {}
    <3>1. rf.queue # <<>> /\ Parse(Buffered(rf.queue)) = UavCode
      BY <1>1, <2>0, <2>3, OnlyChecksStart
    <3> QED BY <2>0, <3>1, CodeOfQueue
  <2>4. ASSUME role = "CH", ~rf.armed, rf.queue # <<>>, rf'.queue = Tail(rf.queue),
               uavs = 1..Len(rf.queue), f.sent[2] >= 4
        PROVE  role' = "UAV" \/ rf'.error \/ rf'.starved \/ role' = "MEMBER"
    <3>1. CheckTrigger \/ role' = "MEMBER"
      BY <1>1, <2>0, <2>4, OnlyChecksPop
    <3>2. Parse(Buffered(rf.queue)) = UavCode
      BY <2>0, <2>4, CodeOfQueue
    <3>3. CASE CheckTrigger
      <4> DEFINE popped == [rf EXCEPT !.queue = Tail(@)]
      <4>1. \/ rf' = [popped EXCEPT !.starved = TRUE]
            \/ rf' = [popped EXCEPT !.error = TRUE]
            \/ role' = "UAV" \/ role' = "MEMBER"
        BY <3>2, <3>3 DEF CheckTrigger, ActsOn, Restarts
      <4>2. popped \in Receiver
        <5>1. rf.queue \in Seq(Frame)
          BY <2>0 DEF Receiver
        <5>2. Tail(rf.queue) \in Seq(Frame)
          BY <2>4, <5>1
        <5> QED BY <2>0, <5>1, <5>2 DEF Receiver
      <4> HIDE DEF popped
      <4> QED BY <4>1, <4>2 DEF Receiver
    <3> QED BY <3>1, <3>3
  <2> QED BY <2>3, <2>4
<1>2. IInv /\ [Next]_vars => [A]_vars
  BY <1>1
<1> QED BY <1>2, Invariance, PTL DEF Spec, StartsForTheUav
=============================================================================
