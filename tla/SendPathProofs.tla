--------------------------- MODULE SendPathProofs ---------------------------
(***************************************************************************)
(* What TLC checks of SendPath for three attempts and a short queue,       *)
(* proved for every number of attempts and every length of the queue; and, *)
(* of Ble, that the radio it needs is free (its last two sections).        *)
(***************************************************************************)
EXTENDS SendPath, Ble, SequenceTheorems, TLAPS

NoneGuarded == cb # "guarded" /\ \A i \in DOMAIN air : ~IsGuarded(i)

\* While the semaphore is exact, whoever may send finds no guarded frame in the air.
Exclusive ==
    ~loose =>
        /\ cb = "guarded" => \A i \in DOMAIN air : ~IsGuarded(i)
        /\ sem /\ "sem" \in exists => NoneGuarded
        /\ pc = "send" => NoneGuarded /\ ~sem
        /\ pc # "away" /\ "sem" \notin exists => NoneGuarded

\* What the completion semaphore announces while the task waits is no stale callback.
Fresh ==
    ~loose =>
        /\ pc = "await" => \A i \in DOMAIN air : IsGuarded(i) => air[i].current
        /\ pc \in {"send", "await"} /\ done => from # "stale"

IInv ==
    /\ TypeOK /\ SemaphoreReturns /\ OneInFlight
    /\ Exclusive /\ Fresh /\ VerdictIsFresh

----------------------------------------------------------------------------
(* What the steps do to the frames in the air.                              *)

LEMMA AppendedFrame ==
    ASSUME NEW f \in Frames, air \in Seq(Frames)
    PROVE  /\ Append(air, f) \in Seq(Frames) /\ Len(Append(air, f)) = Len(air) + 1
           /\ DOMAIN air \subseteq DOMAIN Append(air, f)
           /\ \A i \in DOMAIN air : Append(air, f)[i] = air[i]
           /\ Append(air, f)[Len(air) + 1] = f
           /\ \A i \in DOMAIN Append(air, f) : i \in DOMAIN air \/ i = Len(air) + 1
           /\ Len(air) + 1 \in DOMAIN Append(air, f)
           /\ Len(air) + 1 \notin DOMAIN air
OBVIOUS

LEMMA FirstRemoved ==
    ASSUME air \in Seq(Frames), air # <<>>
    PROVE  /\ Tail(air) \in Seq(Frames) /\ Len(Tail(air)) = Len(air) - 1
           /\ 1 \in DOMAIN air /\ air[1] \in Frames
           /\ \A i \in DOMAIN Tail(air) : i + 1 \in DOMAIN air /\ Tail(air)[i] = air[i + 1] /\ i + 1 # 1
           /\ \A i \in DOMAIN air : i # 1 => i - 1 \in DOMAIN Tail(air) /\ Tail(air)[i - 1] = air[i]
OBVIOUS

LEMMA AbandonedFrames ==
    ASSUME air \in Seq(Frames)
    PROVE  /\ Abandoned \in Seq(Frames) /\ Len(Abandoned) = Len(air)
           /\ DOMAIN Abandoned = DOMAIN air
           /\ \A i \in DOMAIN air : Abandoned[i].kind = air[i].kind
<1>1. DOMAIN air = 1..Len(air) /\ Len(air) \in Nat
  OBVIOUS
<1>2. ASSUME NEW i \in DOMAIN air
      PROVE  /\ [air[i] EXCEPT !.current = FALSE] \in Frames
             /\ [air[i] EXCEPT !.current = FALSE].kind = air[i].kind
  <2>1. air[i] \in Frames
    BY <1>1
  <2> QED BY <2>1 DEF Frames
<1>3. Abandoned \in [1..Len(air) -> Frames]
  BY <1>1, <1>2 DEF Abandoned
<1>4. Abandoned \in Seq(Frames) /\ Len(Abandoned) = Len(air)
  BY <1>1, <1>3
<1> QED BY <1>1, <1>2, <1>4 DEF Abandoned

----------------------------------------------------------------------------
(* Types.                                                                   *)

LEMMA TypeStep ==
    ASSUME TypeOK, [Next]_vars
    PROVE  TypeOK'
<1> USE SendPathAssumption DEF TypeOK
<1>a. ASSUME NextTry, pc \in {"take", "send", "await"}
      PROVE  /\ pc' \in Places /\ job' \in Jobs /\ tries' \in 0..Attempts
             /\ pc' \in {"take", "send", "await"} => tries' < Attempts
  BY <1>a DEF NextTry, AfterJob, Places, Jobs
<1>b. ASSUME NEW j \in Jobs, Start(j), pc = "loop" PROVE TypeOK'
  BY <1>b DEF Start, Places, Jobs, shared, AtRest
<1>1. ASSUME NEW j \in Jobs, StartSend(j) PROVE TypeOK'
  BY <1>1, <1>b DEF StartSend
<1>2. ASSUME NEW j \in Jobs, PeerFails(j) PROVE TypeOK'
  BY <1>2 DEF PeerFails, Places, shared
<1>3. CASE Trigger
  BY <1>3, <1>b DEF Trigger, Jobs
<1>4. CASE Take
  BY <1>4 DEF Take, Places, Armed
<1>5. CASE TakeTimesOut
  BY <1>5, <1>a DEF TakeTimesOut, shared
<1>6. CASE Send
  <2> DEFINE f == [kind |-> "guarded", broadcast |-> job \in {"busy", "resume"}, current |-> TRUE]
  <2>1. f \in Frames
    BY DEF Frames
  <2>2. air' = Append(air, f) /\ pc' = "await" /\ pc = "send"
    BY <1>6 DEF Send
  <2> HIDE DEF f
  <2>3. air' \in Seq(Frames) /\ Len(air') <= QueueLen
    BY <1>6, <2>1, <2>2, AppendedFrame DEF Send
  <2> QED BY <1>6, <2>2, <2>3 DEF Send, Places, shared
<1>7. CASE SendError
  BY <1>7, <1>a DEF SendError, SemGivenBack
<1>8. CASE Await
  <2>1. CASE status = "success" /\ job \in {"schedule", "data"}
    BY <1>8, <2>1 DEF Await, Places
  <2>2. CASE ~(status = "success" /\ job \in {"schedule", "data"})
    BY <1>8, <2>2, <1>a DEF Await
  <2> QED BY <2>1, <2>2
<1>9. CASE AwaitTimesOut
  <2>1. air' \in Seq(Frames) /\ Len(air') <= QueueLen
    BY <1>9, AbandonedFrames DEF AwaitTimesOut
  <2> QED BY <1>9, <2>1, <1>a DEF AwaitTimesOut, SemAfterTimeout
<1>10. CASE Backup
  <2> DEFINE f == [kind |-> "backup", broadcast |-> TRUE, current |-> FALSE]
  <2>1. f \in Frames
    BY DEF Frames
  <2>2. air' = air \/ (air' = Append(air, f) /\ Len(air) < QueueLen)
    BY <1>10 DEF Backup
  <2> HIDE DEF f
  <2>3. air' \in Seq(Frames) /\ Len(air') <= QueueLen
    BY <2>1, <2>2, AppendedFrame
  <2> QED BY <1>10, <2>3 DEF Backup, Places, shared
<1>11. CASE Deinit
  <2>1. air' \in Seq(Frames) /\ Len(air') <= QueueLen /\ up' \in BOOLEAN
    <3>1. CASE up' = FALSE /\ air' = <<>>
      <4>1. air' \in Seq(Frames)
        BY <3>1
      <4>2. Len(air') = 0 /\ QueueLen \in Nat
        BY <3>1
      <4>3. up' \in BOOLEAN
        BY <3>1
      <4> QED BY <4>1, <4>2, <4>3
    <3>2. CASE up' = up /\ air' = air
      BY <3>2
    <3>3. (up' = FALSE /\ air' = <<>>) \/ (up' = up /\ air' = air)
      BY <1>11 DEF Deinit
    <3> QED BY <3>1, <3>2, <3>3
  <2> QED BY <1>11, <2>1 DEF Deinit, Places
<1>12. CASE Reinit
  <2>1. up' \in BOOLEAN /\ exists' \subseteq Both /\ sem' \in BOOLEAN /\ done' \in BOOLEAN
    BY <1>12 DEF Reinit, Both
  <2>2. status' \in {"none", "success", "fail"}
    BY <1>12 DEF Reinit
  <2> QED BY <1>12, <2>1, <2>2 DEF Reinit, Places, Jobs
<1>13. CASE CbRecord
  <2>1. /\ Tail(air) \in Seq(Frames) /\ Len(Tail(air)) = Len(air) - 1
        /\ air[1] \in Frames
    BY <1>13, FirstRemoved DEF CbRecord
  <2>2. air' \in Seq(Frames) /\ Len(air') <= QueueLen /\ cb' \in {"none", "guarded", "backup"}
    BY <1>13, <2>1 DEF CbRecord, Frames
  <2>3. from' \in {"none", "mine", "backup", "stale"} /\ status' \in {"none", "success", "fail"}
    BY <1>13 DEF CbRecord, Source
  <2> QED BY <1>13, <2>2, <2>3 DEF CbRecord, task
<1>14. CASE CbRelease
  BY <1>14 DEF CbRelease, Loosened, task
<1>15. CASE UNCHANGED vars
  BY <1>15 DEF vars, task, shared
<1> QED
  BY <1>1, <1>2, <1>3, <1>4, <1>5, <1>6, <1>7, <1>8, <1>9, <1>10, <1>11, <1>12, <1>13, <1>14, <1>15 DEF Next

----------------------------------------------------------------------------
(* The semaphore.                                                           *)

\* Most steps neither touch the air nor make the semaphore more than it was.
LEMMA SameAir ==
    ASSUME Exclusive, OneInFlight, air' = air, cb' = cb, loose' = loose \/ (AtRest /\ ~loose'),
           pc' # "send",
           sem' /\ "sem" \in exists' => (sem /\ "sem" \in exists) \/ pc = "send",
           pc' # "away" /\ "sem" \notin exists' => pc # "away" /\ "sem" \notin exists
    PROVE  Exclusive' /\ OneInFlight'
<1> SUFFICES ASSUME ~loose' PROVE Exclusive' /\ OneInFlight'
  BY DEF Exclusive, OneInFlight
<1>1. CASE AtRest
  BY <1>1 DEF AtRest, Exclusive, OneInFlight, NoneGuarded, IsGuarded
<1>2. CASE ~AtRest
  BY <1>2 DEF Exclusive, OneInFlight, NoneGuarded, IsGuarded
<1> QED BY <1>1, <1>2

LEMMA ExclusiveStep ==
    ASSUME IInv, [Next]_vars
    PROVE  Exclusive' /\ OneInFlight'
<1> USE DEF IInv
<1>a. ASSUME NEW j \in Jobs, Start(j), pc = "loop" PROVE Exclusive' /\ OneInFlight'
  BY <1>a, SameAir DEF Start, shared, TypeOK
<1>1. ASSUME NEW j \in Jobs, StartSend(j) PROVE Exclusive' /\ OneInFlight'
  BY <1>1, <1>a DEF StartSend
<1>2. ASSUME NEW j \in Jobs, PeerFails(j) PROVE Exclusive' /\ OneInFlight'
  BY <1>2, SameAir DEF PeerFails, shared
<1>3. CASE Trigger
  BY <1>3, <1>a DEF Trigger, Jobs
<1>4. CASE Take
  <2>1. ~loose => NoneGuarded
    BY <1>4 DEF Take, Exclusive
  <2>2. loose' = loose /\ (NoneGuarded => NoneGuarded') /\ (OneInFlight => OneInFlight')
    BY <1>4 DEF Take, NoneGuarded, IsGuarded, OneInFlight
  <2> QED BY <1>4, <2>1, <2>2 DEF Take, Exclusive, NoneGuarded
<1>5. CASE TakeTimesOut
  <2>1. pc' \in {"take", "loop", "backup", "deinit"}
    BY <1>5 DEF TakeTimesOut, NextTry, AfterJob
  <2> QED BY <1>5, <2>1, SameAir DEF TakeTimesOut, shared
<1>6. CASE Send
  <2> DEFINE f == [kind |-> "guarded", broadcast |-> job \in {"busy", "resume"}, current |-> TRUE]
  <2> SUFFICES ASSUME ~loose' PROVE Exclusive' /\ OneInFlight'
    BY DEF Exclusive, OneInFlight
  <2>1. f \in Frames /\ air' = Append(air, f) /\ air \in Seq(Frames)
    BY <1>6 DEF Frames, Send, TypeOK
  <2> HIDE DEF f
  <2>2. NoneGuarded /\ ~sem /\ "sem" \in exists /\ ~loose
    BY <1>6 DEF Send, Exclusive
  <2>3. \A i \in DOMAIN air' : IsGuarded(i)' => i = Len(air) + 1
    BY <2>1, <2>2, AppendedFrame DEF NoneGuarded, IsGuarded
  <2>4. pc' = "await" /\ cb' = cb /\ sem' = sem /\ exists' = exists
    BY <1>6 DEF Send, shared
  <2> QED BY <2>2, <2>3, <2>4 DEF Exclusive, OneInFlight, NoneGuarded
<1>7. CASE SendError
  <2>1. pc' \in {"take", "loop", "backup", "deinit"}
    BY <1>7 DEF SendError, NextTry, AfterJob
  <2> QED BY <1>7, <2>1, SameAir DEF SendError
<1>8. CASE Await
  <2>1. pc' \in {"take", "loop", "backup", "deinit"}
    BY <1>8 DEF Await, NextTry, AfterJob
  <2> QED BY <1>8, <2>1, SameAir DEF Await
<1>9. CASE AwaitTimesOut
  <2>1. pc' \in {"take", "loop", "backup", "deinit"} /\ pc = "await"
    BY <1>9 DEF AwaitTimesOut, NextTry, AfterJob
  <2>2. DOMAIN air' = DOMAIN air /\ \A i \in DOMAIN air : IsGuarded(i)' <=> IsGuarded(i)
    BY <1>9, AbandonedFrames DEF AwaitTimesOut, TypeOK, IsGuarded
  <2> QED BY <1>9, <2>1, <2>2 DEF AwaitTimesOut, SemAfterTimeout, Exclusive, OneInFlight, NoneGuarded
<1>10. CASE Backup
  <2> DEFINE f == [kind |-> "backup", broadcast |-> TRUE, current |-> FALSE]
  <2>1. f \in Frames /\ air \in Seq(Frames) /\ (air' = air \/ air' = Append(air, f)) /\ f.kind = "backup"
    BY <1>10 DEF Backup, Frames, TypeOK
  <2> HIDE DEF f
  <2>2. \A i \in DOMAIN air' : IsGuarded(i)' => i \in DOMAIN air /\ IsGuarded(i)
    BY <2>1, AppendedFrame DEF IsGuarded
  <2>3. pc' = "loop" /\ pc = "backup"
    BY <1>10 DEF Backup
  <2> QED BY <1>10, <2>2, <2>3 DEF Backup, shared, Exclusive, OneInFlight, NoneGuarded
<1>11. CASE Deinit
  <2>1. air' = air \/ air' = <<>>
    BY <1>11 DEF Deinit
  <2>2. \A i \in DOMAIN air' : i \in DOMAIN air /\ (IsGuarded(i)' <=> IsGuarded(i))
    BY <2>1 DEF IsGuarded
  <2> QED BY <1>11, <2>2 DEF Deinit, Exclusive, OneInFlight, NoneGuarded
<1>12. CASE Reinit
  <2> SUFFICES ASSUME ~loose' PROVE Exclusive' /\ OneInFlight'
    BY DEF Exclusive, OneInFlight
  <2>1. air' = <<>> /\ cb' = "none" /\ pc' = "take"
    BY <1>12 DEF Reinit, AtRest
  <2> QED BY <2>1 DEF Exclusive, OneInFlight, NoneGuarded
<1>13. CASE CbRecord
  <2> SUFFICES ASSUME ~loose' PROVE Exclusive' /\ OneInFlight'
    BY DEF Exclusive, OneInFlight
  <2>1. air \in Seq(Frames) /\ air # <<>> /\ air' = Tail(air) /\ ~loose /\ cb = "none" /\ cb' = air[1].kind
    BY <1>13 DEF CbRecord, TypeOK
  <2>2. \A i \in DOMAIN air' : i + 1 \in DOMAIN air /\ i + 1 # 1 /\ (IsGuarded(i)' <=> IsGuarded(i + 1))
    BY <2>1, FirstRemoved DEF IsGuarded
  <2>3. 1 \in DOMAIN air /\ (cb' = "guarded" <=> IsGuarded(1))
    BY <2>1, FirstRemoved DEF IsGuarded
  <2>4. OneInFlight'
    <3> SUFFICES ASSUME NEW i \in DOMAIN air', NEW j \in DOMAIN air', IsGuarded(i)', IsGuarded(j)'
                 PROVE  i = j
      BY DEF OneInFlight
    <3>1. i + 1 = j + 1
      BY <2>1, <2>2 DEF OneInFlight
    <3>2. i \in Nat /\ j \in Nat
      BY <2>1, FirstRemoved
    <3> QED BY <3>1, <3>2
  <2>5. cb' = "guarded" => \A i \in DOMAIN air' : ~IsGuarded(i)'
    BY <2>1, <2>2, <2>3 DEF OneInFlight
  <2>6. NoneGuarded => NoneGuarded'
    BY <2>2, <2>3 DEF NoneGuarded
  <2>7. sem' = sem /\ exists' = exists /\ pc' = pc
    BY <1>13 DEF CbRecord, task
  <2> QED BY <2>1, <2>4, <2>5, <2>6, <2>7 DEF Exclusive
<1>14. CASE CbRelease
  <2> SUFFICES ASSUME ~loose' PROVE Exclusive' /\ OneInFlight'
    BY DEF Exclusive, OneInFlight
  <2>1. ~loose /\ ~(cb = "backup" /\ ~sem) /\ cb \in {"guarded", "backup"} /\ air' = air /\ cb' = "none"
    BY <1>14 DEF CbRelease, Loosened, TypeOK
  <2>2. OneInFlight' /\ (NoneGuarded => NoneGuarded')
    BY <2>1 DEF OneInFlight, NoneGuarded, IsGuarded
  <2>3. pc' = pc /\ exists' = exists
    BY <1>14 DEF CbRelease, task
  <2>4. CASE cb = "guarded"
    <3>1. NoneGuarded' /\ pc # "send"
      BY <2>1, <2>4 DEF Exclusive, NoneGuarded, IsGuarded
    <3> QED BY <2>2, <2>3, <3>1 DEF Exclusive, NoneGuarded
  <2>5. CASE cb = "backup"
    <3>1. sem /\ sem'
      BY <1>14, <2>1, <2>5 DEF CbRelease, TypeOK
    <3> QED BY <2>1, <2>2, <2>3, <3>1 DEF Exclusive, NoneGuarded
  <2> QED BY <2>1, <2>4, <2>5
<1>15. CASE UNCHANGED vars
  BY <1>15 DEF vars, task, shared, Exclusive, OneInFlight, NoneGuarded, IsGuarded
<1> QED
  BY <1>1, <1>2, <1>3, <1>4, <1>5, <1>6, <1>7, <1>8, <1>9, <1>10, <1>11, <1>12, <1>13, <1>14, <1>15 DEF Next

----------------------------------------------------------------------------
(* The semaphore comes back.                                                *)

LEMMA ReturnsStep ==
    ASSUME TypeOK, SemaphoreReturns, [Next]_vars
    PROVE  SemaphoreReturns'
<1> DEFINE Due == pc = "send" \/ cb = "guarded" \/ \E i \in DOMAIN air : IsGuarded(i)
<1>a. ASSUME air' = air, cb' = cb, pc # "send" \/ pc' = "send",
             "sem" \in exists' /\ ~sem' => "sem" \in exists /\ ~sem
      PROVE  SemaphoreReturns'
  BY <1>a DEF SemaphoreReturns, IsGuarded
<1>1. ASSUME NEW j \in Jobs, StartSend(j) \/ PeerFails(j) PROVE SemaphoreReturns'
  BY <1>1, <1>a DEF StartSend, Start, PeerFails, shared
<1>2. CASE Trigger \/ TakeTimesOut \/ Await
  BY <1>2, <1>a DEF Trigger, Start, TakeTimesOut, Await, shared
<1>3. CASE Take
  BY <1>3 DEF Take, SemaphoreReturns
<1>4. CASE Send
  <2> DEFINE f == [kind |-> "guarded", broadcast |-> job \in {"busy", "resume"}, current |-> TRUE]
  <2>1. f \in Frames /\ air \in Seq(Frames) /\ air' = Append(air, f) /\ f.kind = "guarded"
    BY <1>4 DEF Frames, Send, TypeOK
  <2> HIDE DEF f
  <2>2. Len(air) + 1 \in DOMAIN air' /\ air'[Len(air) + 1].kind = "guarded"
    BY <2>1, AppendedFrame
  <2> QED BY <2>2 DEF SemaphoreReturns, IsGuarded
<1>5. CASE SendError
  BY <1>5 DEF SendError, SemGivenBack, SemaphoreReturns
<1>6. CASE AwaitTimesOut
  <2>1. DOMAIN air' = DOMAIN air /\ \A i \in DOMAIN air : IsGuarded(i)' <=> IsGuarded(i)
    BY <1>6, AbandonedFrames DEF AwaitTimesOut, TypeOK, IsGuarded
  <2> QED BY <1>6, <2>1 DEF AwaitTimesOut, SemAfterTimeout, SemaphoreReturns
<1>7. CASE Backup
  <2> DEFINE f == [kind |-> "backup", broadcast |-> TRUE, current |-> FALSE]
  <2>1. f \in Frames /\ air \in Seq(Frames) /\ (air' = air \/ air' = Append(air, f))
    BY <1>7 DEF Backup, Frames, TypeOK
  <2> HIDE DEF f
  <2>2. \A i \in DOMAIN air : i \in DOMAIN air' /\ (IsGuarded(i)' <=> IsGuarded(i))
    BY <2>1, AppendedFrame DEF IsGuarded
  <2> QED BY <1>7, <2>2 DEF Backup, shared, SemaphoreReturns
<1>8. CASE Deinit
  BY <1>8 DEF Deinit, SemaphoreReturns
<1>9. CASE Reinit
  BY <1>9, <1>a DEF Reinit, SemaphoreReturns
<1>10. CASE CbRecord
  <2> SUFFICES ASSUME "sem" \in exists', ~sem' PROVE Due'
    BY DEF SemaphoreReturns
  <2>1. air \in Seq(Frames) /\ air # <<>> /\ air' = Tail(air) /\ cb = "none" /\ cb' = air[1].kind
        /\ pc' = pc /\ exists' = exists /\ sem' = sem
    BY <1>10 DEF CbRecord, TypeOK, task
  <2>2. pc = "send" \/ \E i \in DOMAIN air : IsGuarded(i)
    BY <2>1 DEF SemaphoreReturns
  <2>3. ASSUME NEW i \in DOMAIN air, IsGuarded(i) PROVE Due'
    <3>1. CASE i = 1
      BY <2>1, <2>3, <3>1 DEF IsGuarded
    <3>2. CASE i # 1
      <4>1. i - 1 \in DOMAIN air' /\ IsGuarded(i - 1)'
        BY <2>1, <2>3, <3>2, FirstRemoved DEF IsGuarded
      <4> QED BY <4>1
    <3> QED BY <3>1, <3>2
  <2> QED BY <2>1, <2>2, <2>3
<1>11. CASE CbRelease
  BY <1>11 DEF CbRelease, SemaphoreReturns
<1>12. CASE UNCHANGED vars
  BY <1>12, <1>a DEF vars, task, shared
<1> QED
  BY <1>1, <1>2, <1>3, <1>4, <1>5, <1>6, <1>7, <1>8, <1>9, <1>10, <1>11, <1>12 DEF Next

----------------------------------------------------------------------------
(* Which callback a send takes for its own.                                 *)

LEMMA FreshStep ==
    ASSUME IInv, [Next]_vars
    PROVE  Fresh'
<1> USE DEF IInv
<1>a. ASSUME pc' \notin {"send", "await"} PROVE Fresh'
  BY <1>a DEF Fresh
<1>b. ASSUME NextTry PROVE pc' \notin {"send", "await"}
  BY <1>b DEF NextTry, AfterJob
<1>1. ASSUME NEW j \in Jobs, StartSend(j) \/ PeerFails(j) PROVE Fresh'
  BY <1>1, <1>a DEF StartSend, Start, PeerFails
<1>2. CASE Trigger \/ Backup \/ Deinit \/ Reinit
  BY <1>2, <1>a DEF Trigger, Start, Backup, Deinit, Reinit
<1>3. CASE TakeTimesOut \/ SendError \/ AwaitTimesOut
  BY <1>3, <1>a, <1>b DEF TakeTimesOut, SendError, AwaitTimesOut
<1>4. CASE Await
  <2>1. pc' = "loop" \/ NextTry
    BY <1>4 DEF Await
  <2> QED BY <2>1, <1>a, <1>b
<1>5. CASE Take
  BY <1>5 DEF Take, Armed, Fresh
<1>6. CASE Send
  <2> DEFINE f == [kind |-> "guarded", broadcast |-> job \in {"busy", "resume"}, current |-> TRUE]
  <2> SUFFICES ASSUME ~loose' PROVE Fresh'
    BY DEF Fresh
  <2>1. f \in Frames /\ air' = Append(air, f) /\ air \in Seq(Frames) /\ f.current
    BY <1>6 DEF Frames, Send, TypeOK
  <2> HIDE DEF f
  <2>2. NoneGuarded /\ ~loose /\ pc = "send" /\ pc' = "await" /\ done' = done /\ from' = from
    BY <1>6 DEF Send, Exclusive, shared
  <2>3. \A i \in DOMAIN air' : IsGuarded(i)' => air'[i].current
    BY <2>1, <2>2, AppendedFrame DEF NoneGuarded, IsGuarded
  <2> QED BY <2>2, <2>3 DEF Fresh
<1>7. CASE CbRecord
  <2> SUFFICES ASSUME ~loose' PROVE Fresh'
    BY DEF Fresh
  <2>1. air \in Seq(Frames) /\ air # <<>> /\ air' = Tail(air) /\ pc' = pc /\ ~loose
        /\ from' = Source(air[1])
    BY <1>7 DEF CbRecord, TypeOK, task
  <2>2. 1 \in DOMAIN air /\ air[1].kind \in {"guarded", "backup"}
    BY <2>1, FirstRemoved DEF Frames
  <2>3. pc = "await" => \A i \in DOMAIN air' : IsGuarded(i)' => air'[i].current
    BY <2>1, FirstRemoved DEF Fresh, IsGuarded
  <2>4. ASSUME pc \in {"send", "await"} PROVE from' # "stale"
    <3>1. air[1].current \/ air[1].kind = "backup"
      <4>1. CASE pc = "send"
        BY <2>1, <2>2, <4>1 DEF Exclusive, NoneGuarded, IsGuarded
      <4>2. CASE pc = "await"
        BY <2>1, <2>2, <4>2 DEF Fresh, IsGuarded
      <4> QED BY <2>4, <4>1, <4>2
    <3> QED BY <2>1, <3>1 DEF Source
  <2> QED BY <2>1, <2>3, <2>4 DEF Fresh
<1>8. CASE CbRelease
  BY <1>8 DEF CbRelease, task, Fresh, IsGuarded
<1>9. CASE UNCHANGED vars
  BY <1>9 DEF vars, task, shared, Fresh, IsGuarded
<1> QED
  BY <1>1, <1>2, <1>3, <1>4, <1>5, <1>6, <1>7, <1>8, <1>9 DEF Next

LEMMA VerdictStep ==
    ASSUME IInv, [Next]_vars
    PROVE  VerdictIsFresh'
<1> USE DEF IInv
<1>1. ASSUME NEW j \in Jobs, StartSend(j) PROVE VerdictIsFresh'
  BY <1>1 DEF StartSend, Start, VerdictIsFresh
<1>7. CASE Trigger
  BY <1>7 DEF Trigger, Start, VerdictIsFresh
<1>2. CASE Await
  <2>1. loose' = loose /\ (verdict' = verdict \/ verdict' = from) /\ pc = "await" /\ done
    BY <1>2 DEF Await
  <2> QED BY <2>1 DEF Fresh, VerdictIsFresh
<1>3. ASSUME verdict' = verdict, loose => loose' PROVE VerdictIsFresh'
  BY <1>3 DEF VerdictIsFresh
<1>4. ASSUME NEW j \in Jobs, PeerFails(j) PROVE VerdictIsFresh'
  BY <1>3, <1>4 DEF PeerFails
<1>5. CASE Take \/ TakeTimesOut \/ Send \/ SendError \/ AwaitTimesOut \/ Backup
  BY <1>3, <1>5 DEF Take, TakeTimesOut, Send, SendError, AwaitTimesOut, Backup
<1>6. CASE Deinit \/ Reinit \/ CbRecord \/ CbRelease
  BY <1>3, <1>6 DEF Deinit, Reinit, CbRecord, CbRelease
<1>8. CASE UNCHANGED vars
  BY <1>3, <1>8 DEF vars
<1> QED
  BY <1>1, <1>2, <1>4, <1>5, <1>6, <1>7, <1>8 DEF Next

----------------------------------------------------------------------------

LEMMA Invariance == Spec => []IInv
<1>1. Init => IInv
  <2> SUFFICES ASSUME Init PROVE IInv
    OBVIOUS
  <2>1. air \in Seq(Frames) /\ Len(air) = 0 /\ DOMAIN air = {}
    BY DEF Init
  <2>2. 0 < Attempts /\ 0 <= QueueLen /\ 0 \in 0..Attempts
    BY SendPathAssumption
  <2>3. TypeOK
    BY <2>1, <2>2 DEF Init, TypeOK, Places, Jobs, Both
  <2> QED
    BY <2>1, <2>3 DEF Init, IInv, SemaphoreReturns, OneInFlight, Exclusive, NoneGuarded,
                      Fresh, VerdictIsFresh, Both
<1>2. IInv /\ [Next]_vars => IInv'
  BY TypeStep, ReturnsStep, ExclusiveStep, FreshStep, VerdictStep DEF IInv
<1> QED
  BY <1>1, <1>2, PTL DEF Spec

\* The send path's variables keep their types, and no job makes more than its attempts.
THEOREM TypeCorrect == Spec => []TypeOK
<1>1. IInv => TypeOK
  BY DEF IInv
<1> QED BY <1>1, Invariance, PTL

\* A taken send semaphore always has someone who gives it back: the sender's error path
\* or the callback of a frame that is still to come.
THEOREM SemaphoreCorrect == Spec => []SemaphoreReturns
<1>1. IInv => SemaphoreReturns
  BY DEF IInv
<1> QED BY <1>1, Invariance, PTL

\* Short of a backup broadcast or an onboarding, one guarded frame flies at a time.
THEOREM OneInFlightCorrect == Spec => []OneInFlight
<1>1. IInv => OneInFlight
  BY DEF IInv
<1> QED BY <1>1, Invariance, PTL

\* With the same exceptions, a send that timed out never answers for a later one.
THEOREM VerdictCorrect == Spec => []VerdictIsFresh
<1>1. IInv => VerdictIsFresh
  BY DEF IInv
<1> QED BY <1>1, Invariance, PTL

----------------------------------------------------------------------------
(* What BLE leaves to ESP-NOW.                                              *)

CallNames == {"start", "scan", "update", "stop", "noscan", "send", "quiet"}
Ends == {"adv", "disc"}
BleTypes ==
    /\ flag \in [ready : BOOLEAN, advertising : BOOLEAN, scanning : BOOLEAN, reload : BOOLEAN]
    /\ radio \in [adv : BOOLEAN, says : BOOLEAN, scan : BOOLEAN]
    /\ todo \in Seq(CallNames) /\ events \in Seq(Ends)
    /\ phase \in Phases /\ role \in {"CH", "MEMBER", "OTHER"}
    /\ settled \in BOOLEAN /\ answers \in BOOLEAN /\ slipped \in BOOLEAN
    /\ packet \in BOOLEAN

\* The step is one of the call that is under way.
Place ==
    \/ at = "call"
    \/ todo # <<>> /\ <<Head(todo), at>> \in
           {"start", "update", "scan"} \X {"mark"} \cup {"stop", "noscan"} \X {"clear"}
           \cup {"update"} \X {"test", "halt", "recover", "config"}

Ended(e) == \E i \in DOMAIN e : e[i] = "adv"
Single(e) == \A i, j \in DOMAIN e : e[i] = "adv" /\ e[j] = "adv" => i = j

\* An ADV_COMPLETE waits or is being handled: the host was told to stop, and it reports that.
Answered == UnderWay /\ flag.ready => answers
OneEnd == Single(events) /\ (host # "idle" => ~Ended(events))
EndsSilent == Ended(events) \/ host \in {"check", "config"} => ~radio.adv

\* The wish for new data waits for the end of the advertising it was said to.
Reloads == answers /\ flag.reload => at \in {"halt", "recover"} \/ Ended(events) \/ host = "check"

\* Who is on the air has its flag, or is about to set it.
Marking == host = "mark" \/ (todo # <<>> /\ Head(todo) # "scan" /\ at = "mark")
FlagTells == radio.adv => flag.advertising \/ Marking

\* Off the air, and no event brings it back.
Off == ~radio.adv /\ host \in {"idle", "check"} /\ (UnderWay => ~flag.reload)
Ending ==
    /\ at = "recover" => ~radio.adv /\ ~UnderWay
    /\ Doing("stop", "clear") => Off

Tells == Answered /\ OneEnd /\ EndsSilent /\ Reloads /\ FlagTells /\ Ending

\* A stop comes right before the radio is taken, or it was made and only the scan is left.
QuietOff ==
    \A i \in DOMAIN todo : todo[i] = "quiet" =>
        \/ i = 1 /\ Off
        \/ i = 2 /\ todo[1] = "noscan" /\ Off
        \/ i > 1 /\ todo[i - 1] = "stop"

\* In DATA the loop begins with a stop, and nothing after it starts to advertise.
DataOff ==
    phase = "DATA" /\ settled =>
        /\ \A i \in DOMAIN todo :
              todo[i] \in {"send", "noscan", "quiet", "scan"} \/ (i = 1 /\ todo[1] = "stop")
        /\ todo = <<>> \/ Head(todo) # "stop" => Off /\ ~flag.advertising

SendLast == \A i \in DOMAIN todo : todo[i] = "send" => i = Len(todo)

\* Who scans has its flag, or is about to set it; the host that reports the end has not come back.
ScanEnded(e) == \E i \in DOMAIN e : e[i] = "disc"
ScanTells ==
    /\ ~flag.ready => ~radio.scan
    /\ ScanEnded(events) => ~flag.ready
    /\ radio.scan => flag.scanning \/ Doing("scan", "mark")
    /\ Doing("noscan", "clear") => ~radio.scan

\* The end of the scan comes before the radio is taken, with at most a stop in between.
QuietScanless ==
    \A i \in DOMAIN todo : todo[i] = "quiet" =>
        \/ i = 1 /\ ~radio.scan
        \/ i = 2 /\ todo[1] = "stop" /\ ~radio.scan
        \/ i > 1 /\ todo[i - 1] = "noscan"
        \/ i > 2 /\ todo[i - 2] = "noscan" /\ todo[i - 1] = "stop"

BleInv ==
    /\ BleTypes /\ Place /\ SendLast
    /\ ~slipped => Tells /\ QuietOff /\ DataOff /\ ScanTells /\ QuietScanless

LEMMA EventOps ==
    ASSUME NEW e \in Seq(Ends)
    PROVE  /\ Append(e, "adv") \in Seq(Ends)
           /\ Ended(Append(e, "adv"))
           /\ ~Ended(e) => Single(Append(e, "adv"))
           /\ e # <<>> =>
                /\ Tail(e) \in Seq(Ends)
                /\ Ended(Tail(e)) => Ended(e)
                /\ Head(e) = "adv" => Ended(e)
                /\ Head(e) # "adv" => (Ended(e) <=> Ended(Tail(e)))
                /\ Single(e) => Single(Tail(e)) /\ (Head(e) = "adv" => ~Ended(Tail(e)))
<1>1. Append(e, "adv") \in Seq(Ends) /\ Ended(Append(e, "adv"))
  <2>1. Append(e, "adv")[Len(e) + 1] = "adv" /\ Len(e) + 1 \in DOMAIN Append(e, "adv")
    OBVIOUS
  <2> QED BY <2>1 DEF Ended, Ends
<1>2. ~Ended(e) => Single(Append(e, "adv"))
  BY DEF Ended, Single
<1>3. ASSUME e # <<>>
      PROVE  /\ Tail(e) \in Seq(Ends)
             /\ Ended(Tail(e)) => Ended(e)
             /\ Head(e) = "adv" => Ended(e)
             /\ Head(e) # "adv" => (Ended(e) <=> Ended(Tail(e)))
             /\ Single(e) => Single(Tail(e)) /\ (Head(e) = "adv" => ~Ended(Tail(e)))
  <2>1. /\ Tail(e) \in Seq(Ends) /\ Head(e) = e[1] /\ 1 \in DOMAIN e
        /\ \A i \in DOMAIN Tail(e) : i + 1 \in DOMAIN e /\ Tail(e)[i] = e[i + 1] /\ i + 1 # 1 /\ i \in Nat
        /\ \A i \in DOMAIN e : i # 1 => i - 1 \in DOMAIN Tail(e) /\ Tail(e)[i - 1] = e[i]
    BY <1>3
  <2>2. (Ended(Tail(e)) => Ended(e)) /\ (Head(e) = "adv" => Ended(e))
    BY <2>1 DEF Ended
  <2>3. Head(e) # "adv" => (Ended(e) <=> Ended(Tail(e)))
    BY <2>1 DEF Ended
  <2>4. ASSUME Single(e) PROVE Single(Tail(e))
    <3> SUFFICES ASSUME NEW i \in DOMAIN Tail(e), NEW j \in DOMAIN Tail(e),
                        Tail(e)[i] = "adv", Tail(e)[j] = "adv"
                 PROVE  i = j
      BY DEF Single
    <3>1. i + 1 = j + 1 /\ i \in Nat /\ j \in Nat
      BY <2>1, <2>4 DEF Single
    <3> QED BY <3>1
  <2>5. ASSUME Single(e), Head(e) = "adv" PROVE ~Ended(Tail(e))
    <3> SUFFICES ASSUME NEW i \in DOMAIN Tail(e), Tail(e)[i] = "adv" PROVE FALSE
      BY DEF Ended
    <3>1. i + 1 = 1
      BY <2>1, <2>5 DEF Single
    <3> QED BY <2>1, <3>1
  <2> QED BY <2>1, <2>2, <2>3, <2>4, <2>5
<1> QED BY <1>1, <1>2, <1>3

LEMMA Joined ==
    ASSUME NEW e \in Seq(Ends), NEW x \in Ends
    PROVE  /\ e \o <<x>> = Append(e, x) /\ e \o <<>> = e
           /\ Append(e, x) \in Seq(Ends) /\ Len(Append(e, x)) = Len(e) + 1
           /\ DOMAIN e = 1..Len(e) /\ DOMAIN Append(e, x) = 1..Len(e) + 1 /\ Len(e) \in Nat
           /\ Append(e, x)[Len(e) + 1] = x /\ \A i \in DOMAIN e : Append(e, x)[i] = e[i]
OBVIOUS

LEMMA NoEndMore ==
    ASSUME NEW e \in Seq(Ends)
    PROVE  /\ Append(e, "disc") \in Seq(Ends)
           /\ Ended(Append(e, "disc")) <=> Ended(e)
           /\ Single(e) => Single(Append(e, "disc"))
<1> DEFINE f == Append(e, "disc")
<1>1. "disc" \in Ends
  BY DEF Ends
<1>2. /\ f \in Seq(Ends) /\ DOMAIN f = 1..Len(e) + 1 /\ DOMAIN e = 1..Len(e) /\ Len(e) \in Nat
      /\ f[Len(e) + 1] = "disc" /\ \A i \in DOMAIN e : f[i] = e[i]
  BY <1>1, Joined
<1> HIDE DEF f
<1>3. /\ \A i \in DOMAIN f : f[i] = "adv" => i \in DOMAIN e /\ e[i] = "adv"
      /\ \A i \in DOMAIN e : i \in DOMAIN f
  BY <1>2
<1>4. (Ended(f) <=> Ended(e)) /\ (Single(e) => Single(f))
  BY <1>2, <1>3 DEF Ended, Single
<1> QED BY <1>2, <1>4 DEF f

LEMMA ResetOps ==
    ASSUME NEW e \in Seq(Ends), NEW a \in BOOLEAN, NEW d \in BOOLEAN, NEW f,
           f = e \o If(a, "adv") \o If(d, "disc")
    PROVE  /\ f \in Seq(Ends)
           /\ Ended(f) <=> Ended(e) \/ a
           /\ Single(e) /\ ~(a /\ Ended(e)) => Single(f)
<1> DEFINE g == e \o If(a, "adv")
<1>1. g \in Seq(Ends) /\ (Ended(g) <=> Ended(e) \/ a) /\ (Single(e) /\ ~(a /\ Ended(e)) => Single(g))
  <2>1. CASE a
    <3>1. g = Append(e, "adv")
      BY <2>1 DEF If
    <3> QED BY <2>1, <3>1, EventOps
  <2>2. CASE ~a
    <3>1. g = e
      BY <2>2 DEF If
    <3> QED BY <2>2, <3>1
  <2> QED BY <2>1, <2>2
<1> HIDE DEF g
<1>2. f = g \o If(d, "disc")
  BY DEF g
<1>3. CASE d
  <2>1. If(d, "disc") = <<"disc">>
    BY <1>3 DEF If
  <2>2. "disc" \in Ends /\ g \in Seq(Ends)
    BY <1>1 DEF Ends
  <2>3. f = Append(g, "disc")
    BY <1>2, <2>1, <2>2, Joined
  <2>4. /\ Append(g, "disc") \in Seq(Ends)
        /\ Ended(Append(g, "disc")) <=> Ended(g)
        /\ Single(g) => Single(Append(g, "disc"))
    BY <2>2, NoEndMore
  <2>5. f \in Seq(Ends) /\ (Ended(f) <=> Ended(g)) /\ (Single(g) => Single(f))
    BY <2>3, <2>4
  <2> QED BY <1>1, <2>5
<1>4. CASE ~d
  <2>1. f = g
    BY <1>1, <1>2, <1>4 DEF If
  <2> QED BY <1>1, <2>1
<1> QED BY <1>3, <1>4

\* The calls of a loop: some that start and stop, and perhaps an onboarding or a sending.
Plain == Seq({"start", "scan", "update", "stop", "noscan"})
Closing == {<<>>, Onboards, <<"send">>}

LEMMA PlainCalls ==
    /\ <<>> \in Plain /\ <<"stop">> \in Plain /\ <<"start", "scan">> \in Plain
    /\ <<"scan", "update">> \in Plain /\ <<"scan">> \in Plain /\ <<"noscan", "stop">> \in Plain
    /\ <<"start">> \in Plain /\ <<"update">> \in Plain /\ <<"start", "scan", "update">> \in Plain
    /\ \A b, c \in Plain : b \o c \in Plain /\ b \o <<>> = b /\ <<>> \o b = b
BY DEF Plain

LEMMA LoopCalls ==
    ASSUME BleTypes, NEW p \in Phases, NEW c \in Calls(p)
    PROVE  \E b \in Plain, k \in Closing : c = b \o k
<1>1. CASE role = "CH"
  <2>1. c \in HeadCalls(p)
    BY <1>1 DEF Calls
  <2>2. HeadBeacons(p) \in Plain
    BY PlainCalls DEF HeadBeacons
  <2>3. c = HeadBeacons(p) \/ c = HeadBeacons(p) \o Onboards \/ c = <<"send">>
    BY <2>1 DEF HeadCalls, Flights
  <2>4. <<>> \o <<"send">> = <<"send">>
    OBVIOUS
  <2> QED BY <2>2, <2>3, <2>4, PlainCalls DEF Closing
<1>2. CASE role = "MEMBER"
  <2>1. c \in MemberCalls(p)
    BY <1>2 DEF Calls
  <2>2. PICK b, d \in Plain : c = b \o d
    <3> DEFINE b == CASE p = "STELLAR" -> <<"scan">>
                      [] p = "GUARD" /\ ~guard -> <<"noscan", "stop">>
                      [] OTHER -> <<>>
               d == IF p = "DATA" \/ ~flag.ready THEN <<>>
                    ELSE (IF started THEN <<>> ELSE <<"start">>) \o <<"update">>
    <3>1. b \in Plain
      BY PlainCalls
    <3>2. d \in Plain
      BY PlainCalls
    <3>3. c = b \o d
      BY <2>1 DEF MemberCalls
    <3> QED BY <3>1, <3>2, <3>3
  <2>3. c \in Plain /\ c = c \o <<>>
    BY <2>2, PlainCalls
  <2> QED BY <2>3 DEF Closing
<1>3. CASE role = "OTHER"
  <2>1. c \in Plain
    BY <1>3, PlainCalls DEF Calls, OtherCalls
  <2>2. c = c \o <<>>
    BY <2>1, PlainCalls
  <2> QED BY <2>1, <2>2 DEF Closing
<1> QED BY <1>1, <1>2, <1>3 DEF BleTypes

LEMMA WithSend ==
    ASSUME NEW d \in Seq(CallNames), \A i \in DOMAIN d : d[i] # "send" /\ d[i] # "quiet",
           NEW s, s = Append(d, "send")
    PROVE  /\ s \in Seq(CallNames)
           /\ \A i \in DOMAIN s : s[i] = "send" => i = Len(s)
           /\ \A i \in DOMAIN s : s[i] = "quiet" =>
                 i > 1 /\ s[i - 1] = "stop" /\ i > 2 /\ s[i - 2] = "noscan"
<1>1. "send" \in CallNames
  BY DEF CallNames
<1>2. /\ s \in Seq(CallNames) /\ DOMAIN s = 1..Len(d) + 1 /\ Len(s) = Len(d) + 1
      /\ DOMAIN d = 1..Len(d) /\ Len(d) \in Nat
      /\ s[Len(d) + 1] = "send" /\ \A i \in 1..Len(d) : s[i] = d[i]
  BY <1>1
<1> QED BY <1>2

LEMMA WithOnboarding ==
    ASSUME NEW d \in Seq(CallNames), \A i \in DOMAIN d : d[i] # "send" /\ d[i] # "quiet",
           NEW s, s = d \o Onboards
    PROVE  /\ s \in Seq(CallNames)
           /\ \A i \in DOMAIN s : s[i] = "send" => i = Len(s)
           /\ \A i \in DOMAIN s : s[i] = "quiet" =>
                 i > 1 /\ s[i - 1] = "stop" /\ i > 2 /\ s[i - 2] = "noscan"
<1> DEFINE o == Onboards
<1>1. /\ o \in Seq(CallNames) /\ Len(o) = 4
      /\ o[1] = "noscan" /\ o[2] = "stop" /\ o[3] = "quiet" /\ o[4] = "start"
  BY DEF Onboards, CallNames
<1>2. s = d \o o
  OBVIOUS
<1> HIDE DEF o
<1>3. /\ s \in Seq(CallNames) /\ Len(s) = Len(d) + 4 /\ Len(d) \in Nat
      /\ \A i \in 1..Len(d) + 4 : s[i] = IF i <= Len(d) THEN d[i] ELSE o[i - Len(d)]
  <2>1. /\ d \o o \in Seq(CallNames) /\ Len(d \o o) = Len(d) + Len(o)
        /\ \A i \in 1..Len(d) + Len(o) :
              (d \o o)[i] = IF i <= Len(d) THEN d[i] ELSE o[i - Len(d)]
    BY <1>1, ConcatProperties
  <2>2. Len(d) \in Nat
    OBVIOUS
  <2>3. Len(d) + Len(o) = Len(d) + 4
    BY <1>1
  <2> QED BY <1>2, <2>1, <2>2, <2>3
<1>4. DOMAIN s = 1..Len(d) + 4 /\ DOMAIN d = 1..Len(d)
  BY <1>3
<1>5. ASSUME NEW i \in 1..Len(d) + 4, s[i] \in {"send", "quiet"}
      PROVE  i = Len(d) + 3 /\ s[i] = "quiet"
  <2>1. ~(i <= Len(d))
    BY <1>3, <1>4, <1>5
  <2>2. i - Len(d) \in 1..4 /\ s[i] = o[i - Len(d)]
    BY <1>3, <2>1
  <2>3. i - Len(d) = 3 /\ s[i] = "quiet"
    BY <1>1, <1>5, <2>2
  <2> QED BY <1>3, <2>3
<1>6. s[Len(d) + 2] = "stop"
  <2>1. Len(d) + 2 \in 1..Len(d) + 4 /\ ~(Len(d) + 2 <= Len(d)) /\ (Len(d) + 2) - Len(d) = 2
    BY <1>3
  <2> QED BY <1>1, <1>3, <2>1
<1>n. s[Len(d) + 1] = "noscan"
  <2>1. Len(d) + 1 \in 1..Len(d) + 4 /\ ~(Len(d) + 1 <= Len(d)) /\ (Len(d) + 1) - Len(d) = 1
    BY <1>3
  <2> QED BY <1>1, <1>3, <2>1
<1>7. \A i \in DOMAIN s : s[i] = "quiet" =>
        i > 1 /\ s[i - 1] = "stop" /\ i > 2 /\ s[i - 2] = "noscan"
  <2> SUFFICES ASSUME NEW i \in DOMAIN s, s[i] = "quiet"
               PROVE  i > 1 /\ s[i - 1] = "stop" /\ i > 2 /\ s[i - 2] = "noscan"
    OBVIOUS
  <2>1. i = Len(d) + 3
    BY <1>4, <1>5
  <2>2. i - 1 = Len(d) + 2 /\ i > 1 /\ i - 2 = Len(d) + 1 /\ i > 2
    BY <1>3, <2>1
  <2> QED BY <1>6, <1>n, <2>2
<1>8. \A i \in DOMAIN s : s[i] # "send"
  BY <1>4, <1>5
<1> QED BY <1>3, <1>7, <1>8

LEMMA LoopTodo ==
    ASSUME BleTypes, NEW p \in Phases, NEW c \in Calls(p), NEW s, s = Border(phase, p, role) \o c
    PROVE  /\ s \in Seq(CallNames)
           /\ \A i \in DOMAIN s : s[i] = "send" => i = Len(s)
           /\ \A i \in DOMAIN s : s[i] = "quiet" =>
                 i > 1 /\ s[i - 1] = "stop" /\ i > 2 /\ s[i - 2] = "noscan"
<1>1. PICK b \in Plain, k \in Closing : c = b \o k
  BY LoopCalls
<1>2. Border(phase, p, role) \in Plain
  BY PlainCalls DEF Border
<1>3. PICK d \in Plain : s = d \o k
  <2>1. Border(phase, p, role) \o b \in Plain
    BY <1>2, PlainCalls
  <2>2. k \in Seq(CallNames)
    <3>1. <<>> \in Seq(CallNames) /\ <<"send">> \in Seq(CallNames)
          /\ <<"noscan", "stop", "quiet", "start">> \in Seq(CallNames)
      BY DEF CallNames
    <3> QED BY <3>1 DEF Closing, Onboards
  <2>3. s = (Border(phase, p, role) \o b) \o k
    BY <1>1, <1>2, <2>2 DEF Plain
  <2> QED BY <2>1, <2>3
<1>4. /\ d \in Seq(CallNames) /\ DOMAIN d = 1..Len(d) /\ Len(d) \in Nat
      /\ \A i \in DOMAIN d : d[i] # "send" /\ d[i] # "quiet"
  <2>1. d \in Seq({"start", "scan", "update", "stop", "noscan"})
    BY <1>3 DEF Plain
  <2>2. \A i \in DOMAIN d : d[i] \in {"start", "scan", "update", "stop", "noscan"}
    BY <2>1
  <2>3. d \in Seq(CallNames)
    BY <2>1 DEF CallNames
  <2> QED BY <2>1, <2>2, <2>3
<1>5. CASE k = <<>>
  <2>1. s = d
    BY <1>3, <1>4, <1>5
  <2> QED BY <1>4, <2>1
<1>6. CASE k = <<"send">>
  <2>1. s = Append(d, "send") /\ "send" \in CallNames
    BY <1>3, <1>4, <1>6 DEF CallNames
  <2> QED BY <1>4, <2>1, WithSend
<1>7. CASE k = Onboards
  <2> QED BY <1>3, <1>4, <1>7, WithOnboarding
<1> QED BY <1>5, <1>6, <1>7 DEF Closing

LEMMA NextCalls ==
    ASSUME todo \in Seq(CallNames), todo # <<>>
    PROVE  /\ Tail(todo) \in Seq(CallNames) /\ Head(todo) \in CallNames
           /\ <<"update">> \o Tail(todo) \in Seq(CallNames)
           /\ <<"update">> \o Tail(todo) # <<>>
BY DEF CallNames

LEMMA SendTodo ==
    ASSUME todo \in Seq(CallNames), todo # <<>>, NEW a \in BOOLEAN, NEW b \in BOOLEAN
    PROVE  If(a, "noscan") \o If(b, "stop") \o <<"quiet">> \o If(a, "scan") \o If(b, "start") \o Tail(todo)
               \in Seq(CallNames)
<1>1. \A x \in CallNames : \A c \in BOOLEAN : If(c, x) \in Seq(CallNames)
  BY DEF If
<1>2. {"noscan", "stop", "quiet", "scan", "start"} \subseteq CallNames
  BY DEF CallNames
<1>3. <<"quiet">> \in Seq(CallNames)
  BY <1>2
<1>4. Tail(todo) \in Seq(CallNames)
  BY NextCalls
<1>5. \A s, u \in Seq(CallNames) : s \o u \in Seq(CallNames)
  OBVIOUS
<1>6. If(a, "noscan") \in Seq(CallNames) /\ If(b, "stop") \in Seq(CallNames)
      /\ If(a, "scan") \in Seq(CallNames) /\ If(b, "start") \in Seq(CallNames)
  BY <1>1, <1>2
<1> QED BY <1>3, <1>4, <1>5, <1>6

LEMMA BleTypesStep ==
    ASSUME BleTypes, [BleNext]_bleVars
    PROVE  BleTypes'
<1> USE DEF BleTypes
<1>1. CASE Loop
  <2>1. PICK p \in Phases : \E c \in Calls(p) :
          phase' = p /\ todo' = Border(phase, p, role) \o c
          /\ settled' = /\ settled \/ (p = "DATA" /\ phase # "DATA")
                        /\ role # "OTHER" /\ c \notin Flights(p)
    BY <1>1 DEF Loop, Follows, Phases
  <2>2. todo' \in Seq(CallNames)
    BY <2>1, LoopTodo
  <2>3. settled' \in BOOLEAN
    BY <2>1
  <2>4. UNCHANGED <<role, flag, packet, radio, events, answers, slipped>>
    BY <1>1 DEF Loop
  <2> QED BY <2>1, <2>2, <2>3, <2>4
<1>2. CASE \E r \in {"CH", "MEMBER", "OTHER"} : Becomes(r)
  BY <1>2 DEF Becomes, machine
<1>3. CASE StartCall
  BY <1>3, NextCalls DEF StartCall, Done, Goto, Doing, loop, Slips, UnderWay
<1>4. CASE StartMark
  BY <1>4, NextCalls DEF StartMark, Doing, loop
<1>5. CASE Update
  <2>1. CASE UpdateCall \/ UpdateTest \/ UpdateRecover \/ UpdateMark
    BY <2>1, NextCalls DEF UpdateCall, UpdateTest, UpdateRecover, UpdateMark, Done, Goto, Doing, loop
  <2>2. CASE UpdateHalt
    BY <2>2, NextCalls, EventOps DEF UpdateHalt, Done, Goto, Doing, loop, Silence, Slips, UnderWay
  <2>3. CASE UpdateConfig
    BY <2>3, NextCalls DEF UpdateConfig, Configured, Done, Goto, Doing, loop, Slips, UnderWay
  <2> QED BY <1>5, <2>1, <2>2, <2>3 DEF Update
<1>6. CASE StopCall
  BY <1>6, NextCalls, EventOps DEF StopCall, Done, Goto, Doing, loop, Silence, Slips, UnderWay
<1>7. CASE StopClear \/ ScanMark \/ NoScanClear \/ Quiet
  BY <1>7, NextCalls DEF StopClear, ScanMark, NoScanClear, Quiet, Done, Doing, loop
<1>8. CASE ScanCall \/ NoScanCall
  BY <1>8, NextCalls DEF ScanCall, NoScanCall, Done, Goto, Doing, loop, Slips, UnderWay
<1>9. CASE SendCall
  <2>1. todo # <<>>
    BY <1>9 DEF SendCall, Doing
  <2>2. todo' \in Seq(CallNames)
    BY <1>9, <2>1, SendTodo DEF SendCall
  <2> QED BY <1>9, <2>2 DEF SendCall, loop, Slips, UnderWay
<1>10. CASE HostTask
  BY <1>10, EventOps DEF HostTask, Event, EventCheck, EventConfig, EventMark, Configured, loop, machine
<1>11. CASE Reset
  <2>1. events' \in Seq(Ends)
    BY <1>11, ResetOps DEF Reset
  <2> QED BY <1>11, <2>1 DEF Reset, loop, machine
<1>12. CASE Sync \/ Second
  BY <1>12 DEF Sync, Second, loop, machine
<1>13. CASE UNCHANGED bleVars
  BY <1>13 DEF bleVars, loop, machine
<1> QED
  BY <1>1, <1>2, <1>3, <1>4, <1>5, <1>6, <1>7, <1>8, <1>9, <1>10, <1>11, <1>12, <1>13
  DEF BleNext, StateMachine

LEMMA StaysSlipped ==
    ASSUME BleTypes, [BleNext]_bleVars, ~slipped'
    PROVE  ~slipped
<1> USE DEF BleTypes, Slips
<1>1. CASE StateMachine
  BY <1>1 DEF StateMachine, Loop, Becomes, StartCall, StartMark, Update, UpdateCall, UpdateTest, UpdateHalt,
     UpdateRecover, UpdateConfig, UpdateMark, StopCall, StopClear, ScanCall, ScanMark, NoScanCall, NoScanClear,
     SendCall, Quiet
<1>2. CASE HostTask \/ Reset \/ Sync \/ Second \/ UNCHANGED bleVars
  BY <1>2 DEF HostTask, Event, EventCheck, EventConfig, EventMark, Reset, Sync, Second, bleVars
<1> QED BY <1>1, <1>2 DEF BleNext

LEMMA PlaceStep ==
    ASSUME BleTypes, Place, [BleNext]_bleVars
    PROVE  Place'
<1> USE DEF BleTypes, Place
<1>1. CASE Loop \/ \E r \in {"CH", "MEMBER", "OTHER"} : Becomes(r)
  BY <1>1 DEF Loop, Becomes, machine
<1>2. CASE StartCall \/ StartMark \/ StopCall \/ StopClear
  BY <1>2 DEF StartCall, StartMark, StopCall, StopClear, Doing, Done, Goto
<1>3. CASE Update
  BY <1>3 DEF Update, UpdateCall, UpdateTest, UpdateHalt, UpdateRecover, UpdateConfig, UpdateMark, Configured,
     Doing, Done, Goto
<1>4. CASE ScanCall \/ ScanMark \/ NoScanCall \/ NoScanClear \/ SendCall \/ Quiet
  BY <1>4 DEF ScanCall, ScanMark, NoScanCall, NoScanClear, SendCall, Quiet, Doing, Done, Goto
<1>5. CASE HostTask \/ Reset \/ Sync \/ Second \/ UNCHANGED bleVars
  BY <1>5 DEF HostTask, Event, EventCheck, EventConfig, EventMark, Reset, Sync, Second, bleVars, machine
<1> QED BY <1>1, <1>2, <1>3, <1>4, <1>5 DEF BleNext, StateMachine

LEMMA ResetEnds ==
    ASSUME BleTypes, Reset, Single(events), ~(radio.adv /\ Ended(events))
    PROVE  (Ended(events') <=> Ended(events) \/ radio.adv) /\ Single(events')
<1>1. events \in Seq(Ends) /\ radio.adv \in BOOLEAN /\ radio.scan \in BOOLEAN
  BY DEF BleTypes
<1>2. events' = events \o If(radio.adv, "adv") \o If(radio.scan, "disc")
  BY DEF Reset
<1>3. \A e \in Seq(Ends) : \A a, d \in BOOLEAN : \A f :
        f = e \o If(a, "adv") \o If(d, "disc") =>
            (Ended(f) <=> Ended(e) \/ a) /\ (Single(e) /\ ~(a /\ Ended(e)) => Single(f))
  BY ResetOps
<1> QED BY <1>1, <1>2, <1>3

\* The flag, the radio and the events agree.
LEMMA TellsStep ==
    ASSUME BleTypes, Place, Tells, [BleNext]_bleVars, ~slipped'
    PROVE  Tells'
<1> USE DEF BleTypes, Place, Tells, Answered, OneEnd, EndsSilent, Reloads, FlagTells, Marking, Ending, Off
<1>0. UnderWay <=> host # "idle" \/ Ended(events)
  BY DEF UnderWay, Ended
<1>p. UnderWay' <=> host' # "idle" \/ Ended(events')
  BY DEF UnderWay, Ended
\* Steps that touch the scan only, or the list of calls.
<1>a. ASSUME UNCHANGED <<host, events, answers>>, radio'.adv = radio.adv, flag'.ready = flag.ready,
             flag'.advertising = flag.advertising, flag'.reload = flag.reload,
             at \notin {"halt", "recover"}, at' # "recover",
             at = "mark" => Head(todo) = "scan", ~Doing("stop", "clear")'
      PROVE  Tells'
  <2>1. (Ended(events') <=> Ended(events)) /\ (Single(events') <=> Single(events)) /\ (UnderWay' <=> UnderWay)
    BY <1>0, <1>p, <1>a
  <2>2. Marking' \/ ~Marking
    BY <1>a
  <2> HIDE DEF Marking
  <2>3. FlagTells' /\ Answered' /\ OneEnd' /\ EndsSilent' /\ Reloads'
    BY <1>a, <2>1, <2>2
  <2>4. Ending'
    BY <1>a
  <2> QED BY <2>3, <2>4
<1>1. CASE Loop \/ \E r \in {"CH", "MEMBER", "OTHER"} : Becomes(r)
  <2>1. UNCHANGED <<flag, radio, host, events, answers, at>> /\ todo = <<>>
    BY <1>1 DEF Loop, Becomes, machine
  <2> QED BY <1>a, <2>1 DEF Doing
<1>2. CASE StartCall
  BY <1>0, <1>p, <1>2 DEF StartCall, Doing, Done, Goto, Slips
<1>3. CASE StartMark
  <2>1. /\ UNCHANGED <<host, events, answers, radio>> /\ flag'.ready = flag.ready
        /\ flag'.advertising /\ flag'.reload = flag.reload /\ at = "mark" /\ at' = "call"
    BY <1>3 DEF StartMark, Doing
  <2> QED BY <1>0, <1>p, <2>1 DEF Doing
<1>4. CASE UpdateCall \/ UpdateTest \/ UpdateRecover \/ UpdateMark
  <2>1. CASE UpdateCall
    <3>1. UNCHANGED <<flag, radio, host, events, answers>> /\ at = "call" /\ at' \in {"call", "test"}
      BY <2>1 DEF UpdateCall, Doing, Done, Goto
    <3> QED BY <1>a, <3>1 DEF Doing
  <2>2. CASE UpdateTest
    <3>1. /\ UNCHANGED <<radio, host, events, answers>> /\ at = "test" /\ at' \in {"halt", "config"}
          /\ flag'.ready = flag.ready /\ flag'.advertising = flag.advertising
          /\ flag'.reload # flag.reload => at' = "halt"
      BY <2>2 DEF UpdateTest, Doing, Done, Goto
    <3> QED BY <1>0, <1>p, <3>1 DEF Doing
  <2>3. CASE UpdateRecover
    <3>1. /\ UNCHANGED <<radio, host, events, answers>> /\ at = "recover" /\ at' = "config"
          /\ flag'.ready = flag.ready /\ ~flag'.reload
      BY <2>3 DEF UpdateRecover, Doing, Done, Goto
    <3> QED BY <1>0, <1>p, <3>1 DEF Doing
  <2>4. CASE UpdateMark
    <3>1. /\ UNCHANGED <<radio, host, events, answers>> /\ at = "mark" /\ at' = "call"
          /\ flag'.ready = flag.ready /\ flag'.advertising /\ flag'.reload = flag.reload
      BY <2>4 DEF UpdateMark, Doing, Done, Goto
    <3> QED BY <1>0, <1>p, <3>1 DEF Doing
  <2> QED BY <1>4, <2>1, <2>2, <2>3, <2>4
<1>s. ASSUME Silence
      PROVE  /\ ~radio'.adv /\ Single(events) /\ (~Ended(events) => Single(events'))
             /\ answers /\ radio.adv => Ended(events')
             /\ Ended(events') => Ended(events) \/ answers
  <2>1. CASE answers /\ radio.adv
    <3>1. events' = Append(events, "adv") /\ ~radio'.adv
      BY <1>s, <2>1 DEF Silence
    <3> QED BY <2>1, <3>1, EventOps
  <2>2. CASE ~(answers /\ radio.adv)
    <3>1. events' = events /\ ~radio'.adv
      BY <1>s, <2>2 DEF Silence
    <3> QED BY <2>2, <3>1
  <2> QED BY <2>1, <2>2
<1>5. CASE UpdateHalt
  <2>1. UNCHANGED <<flag, host, answers>> /\ at = "halt" /\ ~UnderWay
    BY <1>5 DEF UpdateHalt, Doing, Slips
  <2>2. CASE radio.adv
    <3>1. at' = "call" /\ Silence
      BY <1>5, <2>2 DEF UpdateHalt, Done, Slips
    <3> QED BY <1>0, <1>p, <1>s, <2>1, <2>2, <3>1 DEF Doing
  <2>3. CASE ~radio.adv
    <3>1. at' = "recover" /\ UNCHANGED <<radio, events>>
      BY <1>5, <2>3 DEF UpdateHalt, Goto
    <3> QED BY <1>0, <1>p, <2>1, <2>3, <3>1 DEF Doing
  <2> QED BY <2>2, <2>3
<1>6. CASE UpdateConfig
  <2>1. /\ UNCHANGED <<flag, host, events, answers>> /\ at = "config" /\ at' \in {"call", "mark"}
        /\ at' = "mark" => todo' = todo /\ todo # <<>> /\ Head(todo) = "update"
        /\ ~UnderWay
    BY <1>6 DEF UpdateConfig, Configured, Doing, Done, Goto, Slips
  <2>2. radio'.adv => radio.adv \/ at' = "mark"
    BY <1>6 DEF UpdateConfig, Configured, Done, Goto
  <2> QED BY <1>0, <1>p, <2>1, <2>2 DEF Doing
<1>7. CASE StopCall
  <2>1. UNCHANGED <<flag, host, answers>> /\ at = "call" /\ ~UnderWay
    BY <1>7 DEF StopCall, Doing, Slips
  <2>2. CASE ~flag.advertising
    <3>1. at' = "call" /\ UNCHANGED <<radio, events>>
      BY <1>7, <2>2 DEF StopCall, Done
    <3> QED BY <1>a, <2>1, <3>1 DEF Doing
  <2>3. CASE flag.advertising
    <3>1. at' = "clear" /\ Silence
      BY <1>7, <2>3 DEF StopCall, Goto, Slips
    <3>2. Off'
      BY <1>0, <1>p, <1>s, <2>1, <3>1
    <3> QED BY <1>0, <1>p, <1>s, <2>1, <3>1, <3>2
  <2> QED BY <2>2, <2>3
<1>8. CASE StopClear
  <2>1. /\ UNCHANGED <<radio, host, events, answers>> /\ at = "clear" /\ at' = "call"
        /\ flag'.ready = flag.ready /\ flag'.reload = flag.reload /\ Doing("stop", "clear")
    BY <1>8 DEF StopClear, Doing, Done
  <2> QED BY <1>0, <1>p, <2>1 DEF Doing
<1>9. CASE ScanCall \/ ScanMark \/ NoScanCall \/ NoScanClear
  <2>1. /\ UNCHANGED <<host, events, answers>> /\ radio'.adv = radio.adv /\ flag'.ready = flag.ready
        /\ flag'.advertising = flag.advertising /\ flag'.reload = flag.reload
    BY <1>9 DEF ScanCall, ScanMark, NoScanCall, NoScanClear
  <2>2. /\ at \in {"call", "mark", "clear"} /\ at' \in {"call", "mark", "clear"}
        /\ at = "mark" => Head(todo) = "scan"
        /\ at' = "clear" => todo' = todo /\ Head(todo) = "noscan"
    BY <1>9 DEF ScanCall, ScanMark, NoScanCall, NoScanClear, Doing, Done, Goto
  <2> QED BY <1>a, <2>1, <2>2 DEF Doing
<1>10. CASE SendCall \/ Quiet
  <2>1. UNCHANGED <<flag, radio, host, events, answers>> /\ at = "call" /\ at' = "call"
    BY <1>10 DEF SendCall, Quiet, Doing, Done
  <2> QED BY <1>a, <2>1 DEF Doing
<1>11. CASE Event
  <2>1. /\ UNCHANGED <<todo, at, radio, answers>> /\ host = "idle" /\ events # <<>> /\ events' = Tail(events)
        /\ flag'.ready = flag.ready /\ flag'.reload = flag.reload
    BY <1>11 DEF Event, machine
  <2>2. CASE Head(events) = "adv"
    <3>1. host' = "check" /\ ~flag'.advertising
      BY <1>11, <2>2 DEF Event
    <3>2. Ended(events) /\ ~Ended(events') /\ Single(events')
      BY <2>1, <2>2, EventOps
    <3> QED BY <1>0, <1>p, <2>1, <3>1, <3>2 DEF Doing
  <2>3. CASE Head(events) # "adv"
    <3>1. host' = host /\ flag'.advertising = flag.advertising
      BY <1>11, <2>3 DEF Event
    <3>2. (Ended(events) <=> Ended(events')) /\ Single(events')
      BY <2>1, <2>3, EventOps
    <3> QED BY <1>0, <1>p, <2>1, <3>1, <3>2 DEF Doing
  <2> QED BY <2>2, <2>3
<1>12. CASE EventCheck \/ EventConfig \/ EventMark
  BY <1>0, <1>p, <1>12 DEF EventCheck, EventConfig, EventMark, Configured, machine, Doing
<1>13. CASE Reset
  <2>1. /\ UNCHANGED <<todo, at, answers, host>> /\ host = "idle" /\ ~flag'.ready /\ ~radio'.adv
        /\ flag'.advertising = flag.advertising /\ flag'.reload = flag.reload
    BY <1>13 DEF Reset, machine
  <2>2. Single(events) /\ ~(radio.adv /\ Ended(events))
    OBVIOUS
  <2>3. (Ended(events') <=> Ended(events) \/ radio.adv) /\ Single(events')
    BY <1>13, <2>2, ResetEnds
  <2> QED BY <1>0, <1>p, <2>1, <2>3 DEF Doing
<1>14. CASE Sync
  <2>1. /\ UNCHANGED <<todo, at, radio, host, events, answers>> /\ host = "idle" /\ events = <<>>
        /\ flag'.advertising = flag.advertising /\ flag'.reload = flag.reload
    BY <1>14 DEF Sync, machine
  <2>2. ~Ended(events)
    BY <2>1 DEF Ended
  <2> QED BY <1>0, <1>p, <2>1, <2>2 DEF Doing
<1>15. CASE Second \/ UNCHANGED bleVars
  <2>1. UNCHANGED <<todo, at, radio, host, events, answers, flag>>
    BY <1>15 DEF Second, bleVars, machine
  <2> QED BY <1>0, <1>p, <2>1 DEF Doing
<1> QED
  BY <1>1, <1>2, <1>3, <1>4, <1>5, <1>6, <1>7, <1>8, <1>9, <1>10, <1>11, <1>12, <1>13, <1>14, <1>15
  DEF BleNext, StateMachine, Update, HostTask

LEMMA ScanEventOps ==
    ASSUME NEW e \in Seq(Ends)
    PROVE  /\ ScanEnded(Append(e, "adv")) => ScanEnded(e)
           /\ e # <<>> =>
                /\ ScanEnded(Tail(e)) => ScanEnded(e)
                /\ Head(e) # "adv" => ScanEnded(e)
<1>1. ScanEnded(Append(e, "adv")) => ScanEnded(e)
  <2> SUFFICES ASSUME NEW i \in DOMAIN Append(e, "adv"), Append(e, "adv")[i] = "disc"
               PROVE  ScanEnded(e)
    BY DEF ScanEnded
  <2>1. "adv" \in Ends
    BY DEF Ends
  <2>2. /\ DOMAIN e = 1..Len(e) /\ DOMAIN Append(e, "adv") = 1..Len(e) + 1 /\ Len(e) \in Nat
        /\ Append(e, "adv")[Len(e) + 1] = "adv"
        /\ \A j \in DOMAIN e : Append(e, "adv")[j] = e[j]
    BY <2>1, Joined
  <2>3. i \in DOMAIN e /\ e[i] = "disc"
    BY <2>2
  <2> QED BY <2>3 DEF ScanEnded
<1>2. ASSUME e # <<>>
      PROVE  (ScanEnded(Tail(e)) => ScanEnded(e)) /\ (Head(e) # "adv" => ScanEnded(e))
  <2>1. /\ Head(e) = e[1] /\ 1 \in DOMAIN e /\ e[1] \in Ends
        /\ \A i \in DOMAIN Tail(e) : i + 1 \in DOMAIN e /\ Tail(e)[i] = e[i + 1]
    BY <1>2
  <2>2. ScanEnded(Tail(e)) => ScanEnded(e)
    BY <2>1 DEF ScanEnded
  <2>3. Head(e) # "adv" => ScanEnded(e)
    BY <2>1 DEF ScanEnded, Ends
  <2> QED BY <2>2, <2>3
<1> QED BY <1>1, <1>2

\* The scan's flag and the radio agree.
LEMMA ScanTellsStep ==
    ASSUME BleTypes, Place, ScanTells, [BleNext]_bleVars, ~slipped'
    PROVE  ScanTells'
<1> USE DEF BleTypes, Place, ScanTells
\* Steps that leave the scan alone, and are not in the middle of one.
<1>a. ASSUME ScanEnded(events') => ScanEnded(events), flag'.ready = flag.ready,
             flag'.scanning = flag.scanning, radio'.scan = radio.scan,
             ~Doing("scan", "mark"), ~Doing("noscan", "clear")'
      PROVE  ScanTells'
  BY <1>a
<1>1. CASE Loop \/ \E r \in {"CH", "MEMBER", "OTHER"} : Becomes(r)
  <2>1. UNCHANGED <<flag, radio, events, at>> /\ todo = <<>>
    BY <1>1 DEF Loop, Becomes, machine
  <2> QED BY <1>a, <2>1 DEF Doing
<1>2. CASE StartCall \/ StartMark \/ UpdateCall \/ UpdateTest \/ UpdateRecover \/ UpdateConfig \/ UpdateMark
  <2>1. /\ events' = events /\ flag'.ready = flag.ready /\ flag'.scanning = flag.scanning
        /\ radio'.scan = radio.scan
    BY <1>2 DEF StartCall, StartMark, UpdateCall, UpdateTest, UpdateRecover, UpdateConfig, UpdateMark, Configured
  <2>2. /\ todo # <<>> /\ Head(todo) \in {"start", "update"} /\ at' # "clear"
    BY <1>2 DEF StartCall, StartMark, UpdateCall, UpdateTest, UpdateRecover, UpdateConfig, UpdateMark,
       Configured, Doing, Done, Goto
  <2> QED BY <1>a, <2>1, <2>2 DEF Doing
<1>s. ASSUME Silence
      PROVE  radio'.scan = radio.scan /\ (ScanEnded(events') => ScanEnded(events))
  <2>1. events' \in {events, Append(events, "adv")} /\ radio'.scan = radio.scan
    BY <1>s DEF Silence
  <2> QED BY <2>1, ScanEventOps
<1>3. CASE UpdateHalt \/ StopCall
  <2>1. Silence \/ UNCHANGED <<radio, events>>
    BY <1>3 DEF UpdateHalt, StopCall
  <2>2. /\ flag' = flag /\ todo # <<>> /\ Head(todo) \in {"update", "stop"}
        /\ at' = "clear" => todo' = todo
    BY <1>3 DEF UpdateHalt, StopCall, Doing, Done, Goto
  <2> QED BY <1>a, <1>s, <2>1, <2>2 DEF Doing
<1>4. CASE StopClear \/ SendCall \/ Quiet
  <2>1. /\ UNCHANGED <<radio, events>> /\ flag'.ready = flag.ready /\ flag'.scanning = flag.scanning
        /\ at # "mark" /\ at' = "call"
    BY <1>4 DEF StopClear, SendCall, Quiet, Doing, Done
  <2> QED BY <1>a, <2>1 DEF Doing
<1>5. CASE ScanCall
  <2>1. UNCHANGED <<flag, events>> /\ todo # <<>> /\ Head(todo) = "scan" /\ at = "call"
    BY <1>5 DEF ScanCall, Doing
  <2>2. \/ at' = "call" /\ radio' = radio
        \/ at' = "mark" /\ todo' = todo /\ flag.ready
    BY <1>5 DEF ScanCall, Done, Goto
  <2> QED BY <2>1, <2>2 DEF Doing
<1>6. CASE ScanMark
  <2>1. UNCHANGED <<radio, events>> /\ flag'.ready = flag.ready /\ flag'.scanning /\ at' = "call"
    BY <1>6 DEF ScanMark, Done
  <2> QED BY <2>1 DEF Doing
<1>7. CASE NoScanCall
  <2>1. UNCHANGED <<flag, events>> /\ todo # <<>> /\ Head(todo) = "noscan" /\ at = "call"
    BY <1>7 DEF NoScanCall, Doing
  <2>2. \/ at' = "call" /\ radio' = radio
        \/ at' = "clear" /\ ~radio'.scan
    BY <1>7 DEF NoScanCall, Done, Goto, Slips
  <2> QED BY <2>1, <2>2 DEF Doing
<1>8. CASE NoScanClear
  <2>1. UNCHANGED <<radio, events>> /\ flag'.ready = flag.ready /\ at' = "call" /\ Doing("noscan", "clear")
    BY <1>8 DEF NoScanClear, Done
  <2> QED BY <2>1 DEF Doing
<1>9. CASE Event
  <2>1. UNCHANGED <<radio, machine>> /\ events # <<>> /\ events' = Tail(events) /\ flag'.ready = flag.ready
    BY <1>9 DEF Event
  <2>2. ScanEnded(events') => ScanEnded(events)
    BY <2>1, ScanEventOps
  <2>3. CASE Head(events) = "adv"
    <3>1. flag'.scanning = flag.scanning
      BY <1>9, <2>3 DEF Event
    <3> QED BY <2>1, <2>2, <3>1 DEF machine, Doing
  <2>4. CASE Head(events) # "adv"
    <3>1. ScanEnded(events)
      BY <2>1, <2>4, ScanEventOps
    <3> QED BY <2>1, <2>2, <3>1 DEF machine, Doing
  <2> QED BY <2>3, <2>4
<1>10. CASE EventCheck \/ EventConfig \/ EventMark
  <2>1. /\ UNCHANGED <<events, machine>> /\ flag'.ready = flag.ready /\ flag'.scanning = flag.scanning
        /\ radio'.scan = radio.scan
    BY <1>10 DEF EventCheck, EventConfig, EventMark, Configured
  <2> QED BY <2>1 DEF machine, Doing
<1>11. CASE Reset
  <2>1. ~flag'.ready /\ ~radio'.scan
    BY <1>11 DEF Reset
  <2> QED BY <2>1
<1>12. CASE Sync
  <2>1. UNCHANGED <<radio, machine>> /\ events' = <<>> /\ flag'.scanning = flag.scanning
    BY <1>12 DEF Sync
  <2>2. ~ScanEnded(events')
    BY <2>1 DEF ScanEnded
  <2>3. ~flag.ready /\ ~radio.scan
    BY <1>12 DEF Sync
  <2> QED BY <2>1, <2>2, <2>3
<1>13. CASE Second \/ UNCHANGED bleVars
  <2>1. UNCHANGED <<flag, radio, events, machine>>
    BY <1>13 DEF Second, bleVars
  <2> QED BY <2>1 DEF machine, Doing
<1> QED
  BY <1>1, <1>2, <1>3, <1>4, <1>5, <1>6, <1>7, <1>8, <1>9, <1>10, <1>11, <1>12, <1>13
  DEF BleNext, StateMachine, Update, HostTask

----------------------------------------------------------------------------
(* The calls that are left, and what they make of the radio.                *)

LEMMA TodoSteps ==
    ASSUME BleTypes, [BleNext]_bleVars, ~Loop
    PROVE  /\ phase' = phase /\ settled' = settled
           /\ \/ todo' = todo
              \/ todo # <<>> /\ todo' = Tail(todo)
              \/ StartMark \/ SendCall
<1>1. CASE StateMachine
  BY <1>1 DEF StateMachine, Becomes, StartCall, Update, UpdateCall, UpdateTest, UpdateHalt, UpdateRecover,
     UpdateConfig, Configured, UpdateMark, StopCall, StopClear, ScanCall, ScanMark, NoScanCall, NoScanClear,
     StartMark, SendCall, Quiet, Doing, Done, Goto, loop, machine
<1>2. CASE HostTask \/ Reset \/ Sync \/ Second \/ UNCHANGED bleVars
  BY <1>2 DEF HostTask, Event, EventCheck, EventConfig, EventMark, Reset, Sync, Second, bleVars, machine, loop
<1> QED BY <1>1, <1>2 DEF BleNext

\* What the first call leaves.
LEMMA RestOps ==
    ASSUME NEW s \in Seq(CallNames), s # <<>>, NEW r, r = Tail(s), NEW u, u = <<"update">> \o Tail(s)
    PROVE  /\ Head(s) = s[1] /\ Len(s) \in Nat /\ Len(s) > 0 /\ DOMAIN s = 1..Len(s)
           /\ Len(r) = Len(s) - 1 /\ DOMAIN r = 1..Len(s) - 1 /\ \A i \in DOMAIN r : r[i] = s[i + 1]
           /\ Len(u) = Len(s) /\ DOMAIN u = DOMAIN s /\ u[1] = "update" /\ Head(u) = "update"
           /\ \A i \in DOMAIN s : i > 1 => u[i] = s[i]
           /\ r # <<>> => Head(r) = s[2]
<1>1. "update" \in CallNames
  BY DEF CallNames
<1>2. /\ r \in Seq(CallNames) /\ Len(r) = Len(s) - 1 /\ Len(s) \in Nat /\ Len(s) > 0
      /\ DOMAIN r = 1..Len(s) - 1 /\ DOMAIN s = 1..Len(s)
      /\ \A i \in DOMAIN r : r[i] = s[i + 1]
  OBVIOUS
<1>3. <<"update">> \in Seq(CallNames) /\ Len(<<"update">>) = 1 /\ <<"update">>[1] = "update"
  BY <1>1
<1>4. /\ u \in Seq(CallNames) /\ Len(u) = 1 + Len(r)
      /\ \A i \in 1..1 + Len(r) : u[i] = IF i <= 1 THEN <<"update">>[i] ELSE r[i - 1]
  BY <1>2, <1>3, ConcatProperties
<1>5. Len(u) = Len(s) /\ DOMAIN u = 1..Len(s) /\ u[1] = "update"
  BY <1>2, <1>3, <1>4
<1>6. ASSUME NEW i \in DOMAIN s, i > 1 PROVE u[i] = s[i]
  <2>1. i - 1 \in DOMAIN r /\ r[i - 1] = s[i] /\ u[i] = r[i - 1]
    BY <1>2, <1>4, <1>6
  <2> QED BY <2>1
<1>7. Head(s) = s[1] /\ Head(u) = u[1] /\ (r # <<>> => Head(r) = r[1] /\ 1 \in DOMAIN r)
  BY <1>2, <1>4, <1>5
<1> QED BY <1>2, <1>5, <1>6, <1>7

\* A list of calls grows by one.
LEMMA Join2 ==
    ASSUME NEW a \in CallNames, NEW b \in CallNames
    PROVE  <<a>> \o <<b>> = <<a, b>>
<1>1. /\ <<a>> \in Seq(CallNames) /\ <<b>> \in Seq(CallNames) /\ <<a, b>> \in Seq(CallNames)
      /\ <<a>> \o <<b>> \in Seq(CallNames)
      /\ Len(<<a>>) = 1 /\ Len(<<b>>) = 1 /\ Len(<<a, b>>) = 2
  OBVIOUS
<1>2. Len(<<a>> \o <<b>>) = 2
  BY <1>1, ConcatProperties
<1>3. \A i \in 1..2 : (<<a>> \o <<b>>)[i] = <<a, b>>[i]
  BY <1>1, ConcatProperties
<1> QED BY <1>1, <1>2, <1>3, SeqEqual

LEMMA Join3 ==
    ASSUME NEW a \in CallNames, NEW b \in CallNames, NEW c \in CallNames
    PROVE  <<a, b>> \o <<c>> = <<a, b, c>>
<1>1. /\ <<a, b>> \in Seq(CallNames) /\ <<c>> \in Seq(CallNames) /\ <<a, b, c>> \in Seq(CallNames)
      /\ <<a, b>> \o <<c>> \in Seq(CallNames)
      /\ Len(<<a, b>>) = 2 /\ Len(<<c>>) = 1 /\ Len(<<a, b, c>>) = 3
  OBVIOUS
<1>2. Len(<<a, b>> \o <<c>>) = 3
  BY <1>1, ConcatProperties
<1>3. \A i \in 1..3 : (<<a, b>> \o <<c>>)[i] = <<a, b, c>>[i]
  BY <1>1, ConcatProperties
<1> QED BY <1>1, <1>2, <1>3, SeqEqual

LEMMA Join4 ==
    ASSUME NEW a \in CallNames, NEW b \in CallNames, NEW c \in CallNames, NEW d \in CallNames
    PROVE  <<a, b, c>> \o <<d>> = <<a, b, c, d>>
<1>1. /\ <<a, b, c>> \in Seq(CallNames) /\ <<d>> \in Seq(CallNames) /\ <<a, b, c, d>> \in Seq(CallNames)
      /\ <<a, b, c>> \o <<d>> \in Seq(CallNames)
      /\ Len(<<a, b, c>>) = 3 /\ Len(<<d>>) = 1 /\ Len(<<a, b, c, d>>) = 4
  OBVIOUS
<1>2. Len(<<a, b, c>> \o <<d>>) = 4
  BY <1>1, ConcatProperties
<1>3. \A i \in 1..4 : (<<a, b, c>> \o <<d>>)[i] = <<a, b, c, d>>[i]
  BY <1>1, ConcatProperties
<1> QED BY <1>1, <1>2, <1>3, SeqEqual

LEMMA Join5 ==
    ASSUME NEW a \in CallNames, NEW b \in CallNames, NEW c \in CallNames, NEW d \in CallNames, NEW e \in CallNames
    PROVE  <<a, b, c, d>> \o <<e>> = <<a, b, c, d, e>>
<1>1. /\ <<a, b, c, d>> \in Seq(CallNames) /\ <<e>> \in Seq(CallNames) /\ <<a, b, c, d, e>> \in Seq(CallNames)
      /\ <<a, b, c, d>> \o <<e>> \in Seq(CallNames)
      /\ Len(<<a, b, c, d>>) = 4 /\ Len(<<e>>) = 1 /\ Len(<<a, b, c, d, e>>) = 5
  OBVIOUS
<1>2. Len(<<a, b, c, d>> \o <<e>>) = 5
  BY <1>1, ConcatProperties
<1>3. \A i \in 1..5 : (<<a, b, c, d>> \o <<e>>)[i] = <<a, b, c, d, e>>[i]
  BY <1>1, ConcatProperties
<1> QED BY <1>1, <1>2, <1>3, SeqEqual

LEMMA SendShapes ==
    ASSUME BleTypes, SendLast, SendCall
    PROVE  todo' = CASE flag.scanning /\ flag.advertising -> <<"noscan", "stop", "quiet", "scan", "start">>
                     [] flag.scanning /\ ~flag.advertising -> <<"noscan", "quiet", "scan">>
                     [] ~flag.scanning /\ flag.advertising -> <<"stop", "quiet", "start">>
                     [] OTHER -> <<"quiet">>
<1>1. todo \in Seq(CallNames) /\ todo # <<>> /\ Head(todo) = "send"
  BY DEF SendCall, Doing, BleTypes
<1>2. todo[1] = "send" /\ 1 \in DOMAIN todo
  BY <1>1, RestOps
<1>3. Len(todo) = 1
  BY <1>2 DEF SendLast
<1>4. Tail(todo) = <<>>
  <2>1. Tail(todo) \in Seq(CallNames) /\ Len(Tail(todo)) = 0
    BY <1>1, <1>3
  <2> QED BY <2>1, EmptySeq
<1>5. todo' = If(flag.scanning, "noscan") \o If(flag.advertising, "stop") \o <<"quiet">>
                \o If(flag.scanning, "scan") \o If(flag.advertising, "start") \o <<>>
  BY <1>4 DEF SendCall
<1>6. flag.scanning \in BOOLEAN /\ flag.advertising \in BOOLEAN
  BY DEF BleTypes
<1>n. {"noscan", "stop", "quiet", "scan", "start"} \subseteq CallNames
  BY DEF CallNames
<1>7. CASE flag.scanning /\ flag.advertising
  <2>1. /\ If(flag.scanning, "noscan") = <<"noscan">> /\ If(flag.scanning, "scan") = <<"scan">>
        /\ If(flag.advertising, "stop") = <<"stop">> /\ If(flag.advertising, "start") = <<"start">>
    BY <1>7 DEF If
  <2>2. <<"noscan">> \o <<"stop">> = <<"noscan", "stop">>
    BY <1>n, Join2
  <2>3. <<"noscan", "stop">> \o <<"quiet">> = <<"noscan", "stop", "quiet">>
    BY <1>n, Join3
  <2>4. <<"noscan", "stop", "quiet">> \o <<"scan">> = <<"noscan", "stop", "quiet", "scan">>
    BY <1>n, Join4
  <2>5. <<"noscan", "stop", "quiet", "scan">> \o <<"start">> = <<"noscan", "stop", "quiet", "scan", "start">>
    BY <1>n, Join5
  <2>6. <<"noscan", "stop", "quiet", "scan", "start">> \o <<>> = <<"noscan", "stop", "quiet", "scan", "start">>
    OBVIOUS
  <2> QED BY <1>5, <1>7, <2>1, <2>2, <2>3, <2>4, <2>5, <2>6
<1>8. CASE flag.scanning /\ ~flag.advertising
  <2>1. /\ If(flag.scanning, "noscan") = <<"noscan">> /\ If(flag.scanning, "scan") = <<"scan">>
        /\ If(flag.advertising, "stop") = <<>> /\ If(flag.advertising, "start") = <<>>
    BY <1>8 DEF If
  <2>2. <<"noscan">> \o <<>> = <<"noscan">>
    OBVIOUS
  <2>3. <<"noscan">> \o <<"quiet">> = <<"noscan", "quiet">>
    BY <1>n, Join2
  <2>4. <<"noscan", "quiet">> \o <<"scan">> = <<"noscan", "quiet", "scan">>
    BY <1>n, Join3
  <2>5. <<"noscan", "quiet", "scan">> \o <<>> = <<"noscan", "quiet", "scan">>
    OBVIOUS
  <2>6. <<"noscan", "quiet", "scan">> \o <<>> = <<"noscan", "quiet", "scan">>
    OBVIOUS
  <2> QED BY <1>5, <1>8, <2>1, <2>2, <2>3, <2>4, <2>5, <2>6
<1>9. CASE ~flag.scanning /\ flag.advertising
  <2>1. /\ If(flag.scanning, "noscan") = <<>> /\ If(flag.scanning, "scan") = <<>>
        /\ If(flag.advertising, "stop") = <<"stop">> /\ If(flag.advertising, "start") = <<"start">>
    BY <1>9 DEF If
  <2>2. <<>> \o <<"stop">> = <<"stop">>
    OBVIOUS
  <2>3. <<"stop">> \o <<"quiet">> = <<"stop", "quiet">>
    BY <1>n, Join2
  <2>4. <<"stop", "quiet">> \o <<>> = <<"stop", "quiet">>
    OBVIOUS
  <2>5. <<"stop", "quiet">> \o <<"start">> = <<"stop", "quiet", "start">>
    BY <1>n, Join3
  <2>6. <<"stop", "quiet", "start">> \o <<>> = <<"stop", "quiet", "start">>
    OBVIOUS
  <2> QED BY <1>5, <1>9, <2>1, <2>2, <2>3, <2>4, <2>5, <2>6
<1>10. CASE ~flag.scanning /\ ~flag.advertising
  <2>1. /\ If(flag.scanning, "noscan") = <<>> /\ If(flag.scanning, "scan") = <<>>
        /\ If(flag.advertising, "stop") = <<>> /\ If(flag.advertising, "start") = <<>>
    BY <1>10 DEF If
  <2>2. <<>> \o <<>> = <<>>
    OBVIOUS
  <2>3. <<>> \o <<"quiet">> = <<"quiet">>
    OBVIOUS
  <2>4. <<"quiet">> \o <<>> = <<"quiet">>
    OBVIOUS
  <2>5. <<"quiet">> \o <<>> = <<"quiet">>
    OBVIOUS
  <2>6. <<"quiet">> \o <<>> = <<"quiet">>
    OBVIOUS
  <2> QED BY <1>5, <1>10, <2>1, <2>2, <2>3, <2>4, <2>5, <2>6
<1> QED BY <1>6, <1>7, <1>8, <1>9, <1>10

LEMMA SendLastStep ==
    ASSUME BleTypes, SendLast, [BleNext]_bleVars
    PROVE  SendLast'
<1>1. CASE Loop
  <2>1. PICK p \in Phases : \E c \in Calls(p) : todo' = Border(phase, p, role) \o c
    BY <1>1 DEF Loop, Follows, Phases, BleTypes
  <2> QED BY <2>1, LoopTodo DEF SendLast
<1>2. CASE SendCall
  BY <1>2, SendShapes DEF SendLast, BleTypes
<1>3. CASE StartMark
  <2>1. todo \in Seq(CallNames) /\ todo # <<>> /\ todo' = <<"update">> \o Tail(todo)
    BY <1>3 DEF StartMark, Doing, BleTypes
  <2>2. \A i \in DOMAIN todo' : i \in Nat /\ i > 0
    BY <2>1, RestOps
  <2> QED BY <2>1, <2>2, RestOps DEF SendLast
<1>4. CASE todo # <<>> /\ todo' = Tail(todo)
  <2> SUFFICES ASSUME NEW i \in DOMAIN todo', todo'[i] = "send" PROVE i = Len(todo')
    BY DEF SendLast
  <2>1. todo \in Seq(CallNames)
    BY DEF BleTypes
  <2>2. i \in 1..Len(todo) - 1 /\ Len(todo) \in Nat /\ todo[i + 1] = "send" /\ Len(todo') = Len(todo) - 1
    BY <1>4, <2>1, RestOps
  <2>3. i + 1 \in DOMAIN todo
    BY <2>1, <2>2
  <2> QED BY <2>2, <2>3 DEF SendLast
<1>5. CASE todo' = todo
  BY <1>5 DEF SendLast
<1> QED BY <1>1, <1>2, <1>3, <1>4, <1>5, TodoSteps

\* Nothing brings the node back on the air but a call that advertises.
LEMMA OffStays ==
    ASSUME BleTypes, Place, Tells, Off, [BleNext]_bleVars, ~slipped',
           todo = <<>> \/ Head(todo) \notin {"start", "update"}
    PROVE  Off' /\ (~flag.advertising => ~flag'.advertising)
<1> USE DEF BleTypes, Off
<1>0. UnderWay <=> host # "idle" \/ Ended(events)
  BY DEF UnderWay, Ended
<1>p. UnderWay' <=> host' # "idle" \/ Ended(events')
  BY DEF UnderWay, Ended
<1>1. CASE Loop \/ \E r \in {"CH", "MEMBER", "OTHER"} : Becomes(r)
  <2>1. UNCHANGED <<flag, radio, host, events>>
    BY <1>1 DEF Loop, Becomes
  <2> QED BY <1>0, <1>p, <2>1
<1>2. CASE StartCall \/ StartMark \/ Update
  BY <1>2 DEF StartCall, StartMark, Update, UpdateCall, UpdateTest, UpdateHalt, UpdateRecover, UpdateConfig,
     UpdateMark, Doing
<1>3. CASE StopCall
  <2>1. UNCHANGED <<flag, host>> /\ radio'.adv = FALSE /\ events' = events
    BY <1>3 DEF StopCall, Silence, Slips
  <2> QED BY <1>0, <1>p, <2>1
<1>4. CASE StopClear \/ SendCall \/ Quiet
  <2>1. UNCHANGED <<radio, host, events>> /\ flag'.reload = flag.reload /\ flag'.advertising \in {flag.advertising, FALSE}
    BY <1>4 DEF StopClear, SendCall, Quiet
  <2> QED BY <1>0, <1>p, <2>1
<1>5. CASE ScanCall \/ ScanMark \/ NoScanCall \/ NoScanClear
  <2>1. UNCHANGED <<host, events>> /\ radio'.adv = radio.adv /\ flag'.reload = flag.reload
        /\ flag'.advertising = flag.advertising
    BY <1>5 DEF ScanCall, ScanMark, NoScanCall, NoScanClear
  <2> QED BY <1>0, <1>p, <2>1
<1>6. CASE Event
  <2>1. /\ radio' = radio /\ events # <<>> /\ events' = Tail(events) /\ host = "idle"
        /\ flag'.reload = flag.reload /\ flag'.advertising \in {flag.advertising, FALSE}
        /\ host' = IF Head(events) = "adv" THEN "check" ELSE "idle"
    BY <1>6 DEF Event
  <2>2. Head(events) = "adv" => Ended(events)
    BY <2>1, EventOps
  <2>3. Ended(events') => Ended(events)
    BY <2>1, EventOps
  <2> QED BY <1>0, <1>p, <2>1, <2>2, <2>3
<1>7. CASE EventCheck \/ EventConfig \/ EventMark
  BY <1>0, <1>p, <1>7 DEF EventCheck, EventConfig, EventMark
<1>8. CASE Reset
  <2>1. /\ UNCHANGED host /\ ~radio'.adv /\ flag'.reload = flag.reload
        /\ flag'.advertising = flag.advertising
    BY <1>8 DEF Reset
  <2>2. Single(events) /\ ~(radio.adv /\ Ended(events))
    BY DEF Tells, OneEnd
  <2>3. Ended(events') <=> Ended(events)
    BY <1>8, <2>2, ResetEnds
  <2> QED BY <1>0, <1>p, <2>1, <2>3
<1>9. CASE Sync \/ Second \/ UNCHANGED bleVars
  <2>1. UNCHANGED <<host, events, radio>> /\ flag'.reload = flag.reload
        /\ flag'.advertising = flag.advertising
    BY <1>9 DEF Sync, Second, bleVars
  <2> QED BY <1>0, <1>p, <2>1
<1> QED
  BY <1>1, <1>2, <1>3, <1>4, <1>5, <1>6, <1>7, <1>8, <1>9 DEF BleNext, StateMachine, HostTask

\* A stop that is over leaves the air to others.
LEMMA Stopped ==
    ASSUME BleTypes, Place, Tells, [BleNext]_bleVars, ~slipped',
           todo # <<>>, Head(todo) = "stop", todo' = Tail(todo), todo' # todo
    PROVE  Off' /\ ~flag'.advertising
<1> USE DEF BleTypes
<1>0. UnderWay <=> host # "idle" \/ Ended(events)
  BY DEF UnderWay, Ended
<1>p. UnderWay' <=> host' # "idle" \/ Ended(events')
  BY DEF UnderWay, Ended
<1>1. CASE StopCall
  <2>1. at' # "clear"
    BY <1>1 DEF StopCall, Goto, Done
  <2>1a. StopCall /\ at = "call" /\ ~UnderWay
    BY <1>1 DEF StopCall, Doing, Slips
  <2>2. ~flag.advertising /\ UNCHANGED <<radio, events, host, flag>>
    BY <1>1, <2>1 DEF StopCall, Goto
  <2>3. ~radio.adv
    BY <1>0, <2>1a, <2>2 DEF Tells, FlagTells, Marking
  <2> QED BY <1>0, <1>p, <2>1a, <2>2, <2>3 DEF Off
<1>2. CASE StopClear
  <2>1. Off
    BY <1>2 DEF StopClear, Tells, Ending
  <2>2. UNCHANGED <<radio, events, host>> /\ ~flag'.advertising /\ flag'.reload = flag.reload
    BY <1>2 DEF StopClear
  <2> QED BY <1>0, <1>p, <2>1, <2>2 DEF Off
<1>3. CASE Loop \/ \E r \in {"CH", "MEMBER", "OTHER"} : Becomes(r)
  BY <1>3 DEF Loop, Becomes
<1>4. CASE StartCall \/ StartMark \/ Update
  BY <1>4 DEF StartCall, StartMark, Update, UpdateCall, UpdateTest, UpdateHalt, UpdateRecover, UpdateConfig,
     UpdateMark, Doing
<1>5. CASE ScanCall \/ ScanMark \/ NoScanCall \/ NoScanClear \/ SendCall \/ Quiet
  BY <1>5 DEF ScanCall, ScanMark, NoScanCall, NoScanClear, SendCall, Quiet, Doing
<1>6. CASE HostTask \/ Reset \/ Sync \/ Second \/ UNCHANGED bleVars
  BY <1>6 DEF HostTask, Event, EventCheck, EventConfig, EventMark, Reset, Sync, Second, bleVars, machine
<1> QED BY <1>1, <1>2, <1>3, <1>4, <1>5, <1>6 DEF BleNext, StateMachine

\* A sending that stops nothing finds the node off the air.
LEMMA SendsOff ==
    ASSUME BleTypes, Tells, SendCall, ~slipped', ~flag.advertising
    PROVE  Off'
<1>1. at = "call" /\ ~UnderWay /\ UNCHANGED <<flag, radio, host, events>>
  BY DEF SendCall, Doing, Slips
<1>2. ~radio.adv
  BY <1>1 DEF Tells, FlagTells, Marking, UnderWay
<1> QED BY <1>1, <1>2 DEF Off, UnderWay

LEMMA QuietOffStep ==
    ASSUME BleTypes, Place, SendLast, Tells, QuietOff, [BleNext]_bleVars, ~slipped'
    PROVE  QuietOff'
<1>0. todo \in Seq(CallNames) /\ flag.advertising \in BOOLEAN /\ flag.scanning \in BOOLEAN
  BY DEF BleTypes
<1>o. ASSUME todo # <<>>, Head(todo) \in {"quiet", "noscan"}, Off PROVE Off'
  BY <1>o, OffStays
<1>1. CASE Loop
  <2>1. PICK p \in Phases : \E c \in Calls(p) : todo' = Border(phase, p, role) \o c
    BY <1>1 DEF Loop, Follows, Phases, BleTypes
  <2> QED BY <2>1, LoopTodo DEF QuietOff
<1>2. CASE SendCall
  <2>1. flag.advertising \/ Off'
    BY <1>2, SendsOff
  <2>2. CASE flag.scanning /\ flag.advertising
    <3>1. todo' = <<"noscan", "stop", "quiet", "scan", "start">>
      BY <1>2, <2>2, SendShapes
    <3> QED BY <3>1 DEF QuietOff
  <2>3. CASE flag.scanning /\ ~flag.advertising
    <3>1. todo' = <<"noscan", "quiet", "scan">>
      BY <1>2, <2>3, SendShapes
    <3> QED BY <2>1, <2>3, <3>1 DEF QuietOff
  <2>4. CASE ~flag.scanning /\ flag.advertising
    <3>1. todo' = <<"stop", "quiet", "start">>
      BY <1>2, <2>4, SendShapes
    <3> QED BY <3>1 DEF QuietOff
  <2>5. CASE ~flag.scanning /\ ~flag.advertising
    <3>1. todo' = <<"quiet">>
      BY <1>2, <2>5, SendShapes
    <3> QED BY <2>1, <2>5, <3>1 DEF QuietOff
  <2> QED BY <2>2, <2>3, <2>4, <2>5
<1>3. CASE StartMark
  <2> SUFFICES ASSUME NEW i \in DOMAIN todo', todo'[i] = "quiet" PROVE i > 1 /\ todo'[i - 1] = "stop"
    BY DEF QuietOff
  <2>1. todo # <<>> /\ Head(todo) = "start" /\ todo' = <<"update">> \o Tail(todo)
    BY <1>3 DEF StartMark, Doing
  <2>2. /\ todo[1] = "start" /\ DOMAIN todo' = DOMAIN todo /\ DOMAIN todo = 1..Len(todo) /\ Len(todo) \in Nat
        /\ todo'[1] = "update" /\ \A k \in DOMAIN todo : k > 1 => todo'[k] = todo[k]
    BY <1>0, <2>1, RestOps
  <2>3. i \in 1..Len(todo) /\ i > 1 /\ todo[i] = "quiet"
    BY <2>2
  <2>4. todo[i - 1] = "stop"
    BY <2>2, <2>3 DEF QuietOff
  <2>5. i - 1 \in DOMAIN todo /\ i - 1 > 1
    BY <2>2, <2>3, <2>4
  <2> QED BY <2>2, <2>3, <2>4, <2>5
<1>4. CASE todo # <<>> /\ todo' = Tail(todo)
  <2> SUFFICES ASSUME NEW i \in DOMAIN todo', todo'[i] = "quiet"
               PROVE  (i = 1 /\ Off') \/ (i > 1 /\ todo'[i - 1] = "stop")
    BY DEF QuietOff
  <2>1. /\ Head(todo) = todo[1] /\ Len(todo) \in Nat /\ DOMAIN todo = 1..Len(todo)
        /\ Len(todo') = Len(todo) - 1 /\ DOMAIN todo' = 1..Len(todo) - 1
        /\ \A k \in DOMAIN todo' : todo'[k] = todo[k + 1]
    BY <1>0, <1>4, RestOps
  <2>2. i \in 1..Len(todo) - 1 /\ i + 1 \in DOMAIN todo /\ todo[i + 1] = "quiet" /\ (i + 1) - 1 = i
    BY <2>1
  <2>3. \/ i + 1 = 2 /\ todo[1] = "noscan" /\ Off
        \/ todo[i] = "stop"
    BY <2>2 DEF QuietOff
  <2>4. CASE i + 1 = 2 /\ todo[1] = "noscan" /\ Off
    <3>1. i = 1 /\ Head(todo) = "noscan"
      BY <2>1, <2>2, <2>4
    <3>2. Off'
      BY <1>4, <1>o, <2>4, <3>1
    <3> QED BY <3>1, <3>2
  <2>5. CASE todo[i] = "stop" /\ i > 1
    <3>1. i - 1 \in DOMAIN todo' /\ (i - 1) + 1 = i
      BY <2>1, <2>2, <2>5
    <3> QED BY <2>1, <2>5, <3>1
  <2>6. CASE todo[i] = "stop" /\ i = 1
    <3>1. Head(todo) = "stop" /\ todo' # todo
      BY <2>1, <2>6
    <3>2. Off'
      BY <1>4, <3>1, Stopped
    <3> QED BY <2>6, <3>2
  <2> QED BY <2>2, <2>3, <2>4, <2>5, <2>6
<1>5. CASE todo' = todo
  <2> SUFFICES ASSUME NEW i \in DOMAIN todo, todo[i] = "quiet"
               PROVE  \/ i = 1 /\ Off'
                      \/ i = 2 /\ todo[1] = "noscan" /\ Off'
                      \/ i > 1 /\ todo[i - 1] = "stop"
    BY <1>5 DEF QuietOff
  <2>1. todo # <<>> /\ Head(todo) = todo[1]
    BY <1>0
  <2> QED BY <1>o, <2>1 DEF QuietOff
<1> QED BY <1>1, <1>2, <1>3, <1>4, <1>5, TodoSteps

LEMMA DataOffStep ==
    ASSUME BleTypes, Place, SendLast, Tells, DataOff, [BleNext]_bleVars, ~slipped'
    PROVE  DataOff'
<1> SUFFICES ASSUME phase' = "DATA", settled'
             PROVE  /\ \A i \in DOMAIN todo' :
                          todo'[i] \in {"send", "noscan", "quiet", "scan"} \/ (i = 1 /\ todo'[1] = "stop")
                    /\ todo' = <<>> \/ Head(todo') # "stop" => Off' /\ ~flag'.advertising
  BY DEF DataOff
<1>0. todo \in Seq(CallNames) /\ flag.advertising \in BOOLEAN /\ flag.scanning \in BOOLEAN
  BY DEF BleTypes
<1>1. CASE Loop
  <2>1. PICK c \in Calls("DATA") :
          /\ todo' = Border(phase, "DATA", role) \o c
          /\ settled' = (/\ settled \/ phase # "DATA"
                         /\ role # "OTHER" /\ c \notin Flights("DATA"))
    BY <1>1 DEF Loop
  <2>2. c \in {<<>>, <<"send">>}
    <3>1. CASE role = "CH"
      BY <2>1, <3>1 DEF Calls, HeadCalls, HeadBeacons, Flights
    <3>2. CASE role = "MEMBER"
      BY <2>1, <3>2 DEF Calls, MemberCalls
    <3> QED BY <2>1, <3>1, <3>2 DEF BleTypes
  <2>3. UNCHANGED <<flag, radio, host, events>> /\ todo = <<>>
    BY <1>1 DEF Loop
  <2>4. Off => Off'
    BY <2>3 DEF Off, UnderWay
  <2>5. CASE phase = "DATA"
    <3>1. Border(phase, "DATA", role) = <<>>
      BY <2>5 DEF Border
    <3>2. todo' \in {<<>>, <<"send">>}
      <4>1. <<>> \o <<>> = <<>> /\ <<>> \o <<"send">> = <<"send">>
        OBVIOUS
      <4> QED BY <2>1, <2>2, <3>1, <4>1
    <3>3. Off /\ ~flag.advertising
      BY <2>1, <2>3, <2>5 DEF DataOff
    <3> QED BY <2>3, <2>4, <3>2, <3>3
  <2>6. CASE phase # "DATA"
    <3>1. Border(phase, "DATA", role) = <<"stop">>
      BY <2>1, <2>6 DEF Border
    <3>2. <<"stop">> \o <<"send">> = <<"stop", "send">> /\ <<"stop">> \o <<>> = <<"stop">>
      <4>1. "stop" \in CallNames /\ "send" \in CallNames
        BY DEF CallNames
      <4> QED BY <4>1, Join2
    <3>3. todo' \in {<<"stop">>, <<"stop", "send">>}
      BY <2>1, <2>2, <3>1, <3>2
    <3> QED BY <3>3
  <2> QED BY <2>5, <2>6
<1>2. CASE ~Loop
  <2>1. phase = "DATA" /\ settled
    BY <1>2, TodoSteps
  <2>2. /\ \A i \in DOMAIN todo :
              todo[i] \in {"send", "noscan", "quiet", "scan"} \/ (i = 1 /\ todo[1] = "stop")
        /\ todo = <<>> \/ Head(todo) # "stop" => Off /\ ~flag.advertising
    BY <2>1 DEF DataOff
  <2>3. todo # <<>> => Head(todo) = todo[1] /\ 1 \in DOMAIN todo /\ Head(todo) \notin {"start", "update"}
    BY <1>0, <2>2
  <2>4. todo = <<>> \/ Head(todo) # "stop" => Off' /\ ~flag'.advertising
    BY <2>2, <2>3, OffStays
  <2>5. CASE StartMark
    BY <2>3, <2>5 DEF StartMark, Doing
  <2>6. CASE SendCall
    <3>1. ~flag.advertising
      BY <2>2, <2>6 DEF SendCall, Doing
    <3>2. todo' \in {<<"quiet">>, <<"noscan", "quiet", "scan">>}
      BY <1>0, <2>6, <3>1, SendShapes
    <3>3. Off' /\ ~flag'.advertising
      BY <2>4, <2>6 DEF SendCall, Doing
    <3> QED BY <3>2, <3>3
  <2>7. CASE todo' = todo
    BY <2>2, <2>4, <2>7
  <2>8. CASE todo # <<>> /\ todo' = Tail(todo)
    <3>1. /\ Len(todo) \in Nat /\ DOMAIN todo = 1..Len(todo)
          /\ Len(todo') = Len(todo) - 1 /\ DOMAIN todo' = 1..Len(todo) - 1
          /\ \A k \in DOMAIN todo' : todo'[k] = todo[k + 1]
      BY <1>0, <2>8, RestOps
    <3>2. \A k \in DOMAIN todo' : k + 1 \in DOMAIN todo /\ k + 1 # 1
      BY <3>1
    <3>3. \A i \in DOMAIN todo' : todo'[i] \in {"send", "noscan", "quiet", "scan"}
      BY <2>2, <3>1, <3>2
    <3>4. todo' # todo
      BY <3>1
    <3>5. Off' /\ ~flag'.advertising
      BY <2>4, <2>8, <3>4, Stopped
    <3> QED BY <3>3, <3>5
  <2> QED BY <1>2, <2>5, <2>6, <2>7, <2>8, TodoSteps
<1> QED BY <1>1, <1>2

\* Only a call that scans begins a scan.
LEMMA ScanlessStays ==
    ASSUME BleTypes, [BleNext]_bleVars, ~radio.scan, todo # <<>>, Head(todo) # "scan"
    PROVE  ~radio'.scan
<1> USE DEF BleTypes
<1>1. CASE StateMachine
  BY <1>1 DEF StateMachine, Loop, Becomes, StartCall, StartMark, Update, UpdateCall, UpdateTest, UpdateHalt,
     UpdateRecover, UpdateConfig, UpdateMark, Configured, StopCall, StopClear, Silence, ScanCall, ScanMark,
     NoScanCall, NoScanClear, SendCall, Quiet, Doing
<1>2. CASE HostTask \/ Reset \/ Sync \/ Second \/ UNCHANGED bleVars
  BY <1>2 DEF HostTask, Event, EventCheck, EventConfig, EventMark, Configured, Reset, Sync, Second, bleVars
<1> QED BY <1>1, <1>2 DEF BleNext

\* The end of a scan that is over leaves the node without one.
LEMMA ScanStopped ==
    ASSUME BleTypes, ScanTells, [BleNext]_bleVars,
           todo # <<>>, Head(todo) = "noscan", todo' = Tail(todo), todo' # todo
    PROVE  ~radio'.scan
<1> USE DEF BleTypes
<1>1. CASE NoScanCall
  <2>1. at' # "clear" \/ todo' = todo
    BY <1>1 DEF NoScanCall, Goto, Done
  <2>2. at = "call" /\ ~flag.scanning /\ radio' = radio
    BY <1>1, <2>1 DEF NoScanCall, Goto, Doing
  <2> QED BY <2>2 DEF ScanTells, Doing
<1>2. CASE NoScanClear
  BY <1>2 DEF NoScanClear, ScanTells
<1>3. CASE Loop \/ \E r \in {"CH", "MEMBER", "OTHER"} : Becomes(r)
  BY <1>3 DEF Loop, Becomes
<1>4. CASE StartCall \/ StartMark \/ Update
  BY <1>4 DEF StartCall, StartMark, Update, UpdateCall, UpdateTest, UpdateHalt, UpdateRecover, UpdateConfig,
     UpdateMark, Doing
<1>5. CASE ScanCall \/ ScanMark \/ StopCall \/ StopClear \/ SendCall \/ Quiet
  BY <1>5 DEF ScanCall, ScanMark, StopCall, StopClear, SendCall, Quiet, Doing
<1>6. CASE HostTask \/ Reset \/ Sync \/ Second \/ UNCHANGED bleVars
  BY <1>6 DEF HostTask, Event, EventCheck, EventConfig, EventMark, Reset, Sync, Second, bleVars, machine
<1> QED BY <1>1, <1>2, <1>3, <1>4, <1>5, <1>6 DEF BleNext, StateMachine

\* A sending that ends no scan finds the node without one.
LEMMA SendsScanless ==
    ASSUME BleTypes, ScanTells, SendCall, ~flag.scanning
    PROVE  ~radio'.scan
BY DEF BleTypes, ScanTells, SendCall, Doing

LEMMA QuietScanlessStep ==
    ASSUME BleTypes, SendLast, ScanTells, QuietScanless, [BleNext]_bleVars
    PROVE  QuietScanless'
<1>0. todo \in Seq(CallNames) /\ flag.advertising \in BOOLEAN /\ flag.scanning \in BOOLEAN
  BY DEF BleTypes
<1>1. CASE Loop
  <2>1. PICK p \in Phases : \E c \in Calls(p) : todo' = Border(phase, p, role) \o c
    BY <1>1 DEF Loop, Follows, Phases, BleTypes
  <2>2. \A i \in DOMAIN todo' : todo'[i] = "quiet" => todo'[i - 1] = "stop" /\ i > 2 /\ todo'[i - 2] = "noscan"
    BY <2>1, LoopTodo
  <2> QED BY <2>2 DEF QuietScanless
<1>2. CASE SendCall
  <2>1. flag.scanning \/ ~radio'.scan
    BY <1>2, SendsScanless
  <2>2. CASE flag.scanning /\ flag.advertising
    <3>1. todo' = <<"noscan", "stop", "quiet", "scan", "start">>
      BY <1>2, <2>2, SendShapes
    <3> QED BY <3>1 DEF QuietScanless
  <2>3. CASE flag.scanning /\ ~flag.advertising
    <3>1. todo' = <<"noscan", "quiet", "scan">>
      BY <1>2, <2>3, SendShapes
    <3> QED BY <3>1 DEF QuietScanless
  <2>4. CASE ~flag.scanning /\ flag.advertising
    <3>1. todo' = <<"stop", "quiet", "start">>
      BY <1>2, <2>4, SendShapes
    <3> QED BY <2>1, <2>4, <3>1 DEF QuietScanless
  <2>5. CASE ~flag.scanning /\ ~flag.advertising
    <3>1. todo' = <<"quiet">>
      BY <1>2, <2>5, SendShapes
    <3> QED BY <2>1, <2>5, <3>1 DEF QuietScanless
  <2> QED BY <2>2, <2>3, <2>4, <2>5
\* While the first call is none that scans, what is off the air stays so.
<1>3. ASSUME NEW i \in DOMAIN todo, todo[i] = "quiet", i = 1 \/ (i = 2 /\ todo[1] = "stop"), ~radio.scan
      PROVE  ~radio'.scan
  <2>1. todo # <<>> /\ Head(todo) = todo[1]
    BY <1>0
  <2> QED BY <1>3, <2>1, ScanlessStays
<1>4. CASE StartMark
  <2>1. todo # <<>> /\ Head(todo) = "start" /\ todo' = <<"update">> \o Tail(todo)
    BY <1>4 DEF StartMark, Doing
  <2>2. /\ todo[1] = "start" /\ DOMAIN todo' = DOMAIN todo /\ DOMAIN todo = 1..Len(todo) /\ Len(todo) \in Nat
        /\ todo'[1] = "update" /\ \A k \in DOMAIN todo : k > 1 => todo'[k] = todo[k]
    BY <1>0, <2>1, RestOps
  <2> SUFFICES ASSUME NEW i \in 1..Len(todo), todo'[i] = "quiet"
               PROVE  \/ i > 1 /\ todo'[i - 1] = "noscan"
                      \/ i > 2 /\ todo'[i - 2] = "noscan" /\ todo'[i - 1] = "stop"
    BY <2>2 DEF QuietScanless
  <2>3. i > 1 /\ todo[i] = "quiet"
    BY <2>2
  <2>4. \/ todo[i - 1] = "noscan"
        \/ i > 2 /\ todo[i - 2] = "noscan" /\ todo[i - 1] = "stop"
    BY <2>2, <2>3 DEF QuietScanless
  <2>5. CASE todo[i - 1] = "noscan"
    <3>1. i - 1 \in 1..Len(todo) /\ i - 1 > 1
      BY <2>2, <2>3, <2>5
    <3> QED BY <2>2, <2>3, <2>5, <3>1
  <2>6. CASE i > 2 /\ todo[i - 2] = "noscan" /\ todo[i - 1] = "stop"
    <3>1. i - 1 \in 1..Len(todo) /\ i - 1 > 1 /\ i - 2 \in 1..Len(todo) /\ i - 2 > 1
      BY <2>2, <2>3, <2>6
    <3> QED BY <2>2, <2>6, <3>1
  <2> QED BY <2>4, <2>5, <2>6
<1>5. CASE todo # <<>> /\ todo' = Tail(todo)
  <2>1. /\ Head(todo) = todo[1] /\ Len(todo) \in Nat /\ DOMAIN todo = 1..Len(todo)
        /\ Len(todo') = Len(todo) - 1 /\ DOMAIN todo' = 1..Len(todo) - 1
        /\ \A k \in DOMAIN todo' : todo'[k] = todo[k + 1]
    BY <1>0, <1>5, RestOps
  <2>2. todo' # todo
    BY <2>1
  <2> SUFFICES ASSUME NEW i \in 1..Len(todo) - 1, todo'[i] = "quiet"
               PROVE  \/ i = 1 /\ ~radio'.scan
                      \/ i = 2 /\ todo'[1] = "stop" /\ ~radio'.scan
                      \/ i > 1 /\ todo'[i - 1] = "noscan"
                      \/ i > 2 /\ todo'[i - 2] = "noscan" /\ todo'[i - 1] = "stop"
    BY <2>1 DEF QuietScanless
  <2>3. i + 1 \in DOMAIN todo /\ todo[i + 1] = "quiet" /\ (i + 1) - 1 = i /\ (i + 1) - 2 = i - 1
    BY <2>1
  <2>4. \/ i + 1 = 2 /\ todo[1] = "stop" /\ ~radio.scan
        \/ todo[i] = "noscan"
        \/ i > 1 /\ todo[i - 1] = "noscan" /\ todo[i] = "stop"
    <3>1. ASSUME NEW k \in DOMAIN todo, todo[k] = "quiet"
          PROVE  \/ k = 1
                 \/ k = 2 /\ todo[1] = "stop" /\ ~radio.scan
                 \/ todo[k - 1] = "noscan"
                 \/ k > 2 /\ todo[k - 2] = "noscan" /\ todo[k - 1] = "stop"
      BY <3>1 DEF QuietScanless
    <3>2. i + 1 # 1 /\ (i + 1 > 2 => i > 1)
      BY <2>1
    <3> QED BY <2>3, <3>1, <3>2
  <2>5. CASE i + 1 = 2 /\ todo[1] = "stop" /\ ~radio.scan
    <3>1. ~radio'.scan
      BY <1>3, <2>3, <2>5
    <3> QED BY <2>5, <3>1
  <2>6. CASE todo[i] = "noscan"
    <3>1. CASE i = 1
      <4>1. ~radio'.scan
        BY <1>5, <2>1, <2>2, <2>6, <3>1, ScanStopped
      <4> QED BY <3>1, <4>1
    <3>2. CASE i > 1
      <4>1. i - 1 \in DOMAIN todo' /\ (i - 1) + 1 = i
        BY <2>1, <3>2
      <4> QED BY <2>1, <2>6, <3>2, <4>1
    <3> QED BY <3>1, <3>2
  <2>7. CASE i > 1 /\ todo[i - 1] = "noscan" /\ todo[i] = "stop"
    <3>1. i - 1 \in DOMAIN todo' /\ (i - 1) + 1 = i /\ todo'[i - 1] = "stop"
      BY <2>1, <2>7
    <3>2. CASE i = 2
      <4>1. Head(todo) = "noscan"
        BY <2>1, <2>7, <3>2
      <4>2. ~radio'.scan
        BY <1>5, <2>2, <4>1, ScanStopped
      <4> QED BY <3>1, <3>2, <4>2
    <3>3. CASE i > 2
      <4>1. i - 2 \in DOMAIN todo' /\ (i - 2) + 1 = i - 1
        BY <2>1, <3>3
      <4> QED BY <2>1, <2>7, <3>1, <3>3, <4>1
    <3> QED BY <2>7, <3>2, <3>3
  <2> QED BY <2>4, <2>5, <2>6, <2>7
<1>6. CASE todo' = todo
  <2> SUFFICES ASSUME NEW i \in DOMAIN todo, todo[i] = "quiet"
               PROVE  \/ i = 1 /\ ~radio'.scan
                      \/ i = 2 /\ todo[1] = "stop" /\ ~radio'.scan
                      \/ i > 1 /\ todo[i - 1] = "noscan"
                      \/ i > 2 /\ todo[i - 2] = "noscan" /\ todo[i - 1] = "stop"
    BY <1>6 DEF QuietScanless
  <2> QED BY <1>3 DEF QuietScanless
<1> QED BY <1>1, <1>2, <1>4, <1>5, <1>6, TodoSteps

LEMMA BleInvStep ==
    ASSUME BleInv, [BleNext]_bleVars
    PROVE  BleInv'
<1>1. BleTypes' /\ Place' /\ SendLast'
  BY BleTypesStep, PlaceStep, SendLastStep DEF BleInv
<1>2. ASSUME ~slipped' PROVE Tells' /\ QuietOff' /\ DataOff' /\ ScanTells' /\ QuietScanless'
  <2>1. ~slipped
    BY <1>2, StaysSlipped DEF BleInv
  <2>2. Tells' /\ QuietOff' /\ DataOff'
    BY <1>2, <2>1, TellsStep, QuietOffStep, DataOffStep DEF BleInv
  <2>3. ScanTells' /\ QuietScanless'
    BY <1>2, <2>1, ScanTellsStep, QuietScanlessStep DEF BleInv
  <2> QED BY <2>2, <2>3
<1> QED BY <1>1, <1>2 DEF BleInv

LEMMA BleInvInit ==
    ASSUME BleInit
    PROVE  BleInv
<1>1. BleTypes /\ Place /\ SendLast
  <2>1. <<>> \in Seq(CallNames) /\ <<>> \in Seq(Ends)
    OBVIOUS
  <2>2. /\ [ready |-> FALSE, advertising |-> FALSE, scanning |-> FALSE, reload |-> FALSE]
             \in [ready : BOOLEAN, advertising : BOOLEAN, scanning : BOOLEAN, reload : BOOLEAN]
        /\ [adv |-> FALSE, says |-> FALSE, scan |-> FALSE] \in [adv : BOOLEAN, says : BOOLEAN, scan : BOOLEAN]
    OBVIOUS
  <2>3. BleTypes
    BY <2>1, <2>2 DEF BleInit, BleTypes, Phases
  <2>4. Place /\ SendLast
    BY DEF BleInit, Place, SendLast
  <2> QED BY <2>3, <2>4
<1>2. ~UnderWay /\ ~Ended(events) /\ Single(events)
  BY DEF BleInit, UnderWay, Ended, Single
<1>3. Tells
  BY <1>2 DEF BleInit, Tells, Answered, OneEnd, EndsSilent, Reloads, FlagTells, Ending, Doing
<1>4. QuietOff /\ DataOff /\ ScanTells /\ QuietScanless
  BY DEF BleInit, QuietOff, DataOff, ScanTells, ScanEnded, QuietScanless, Doing
<1> QED BY <1>1, <1>3, <1>4 DEF BleInv

\* Whatever the limits on events and faults: while ESP-NOW or the UAV have the radio, the node
\* neither advertises nor scans, and one that is settled in DATA does not advertise, as long as no
\* call of the state machine met an ADV_COMPLETE under way and no stop failed (ble_manager.c,
\* esp_now_manager.c:606-630).
THEOREM QuietForEspNow == BleSpec => []SilentForEspNow
<1>1. BleInv => SilentForEspNow
  <2> SUFFICES ASSUME BleInv, ~slipped
               PROVE  /\ Doing("quiet", "call") => ~radio.adv /\ ~radio.scan
                      /\ phase = "DATA" /\ todo = <<>> /\ settled => ~radio.adv
    BY DEF SilentForEspNow
  <2>1. ASSUME Doing("quiet", "call") PROVE ~radio.adv /\ ~radio.scan
    <3>1. todo \in Seq(CallNames) /\ todo # <<>> /\ Head(todo) = "quiet"
      BY <2>1 DEF Doing, BleInv, BleTypes
    <3>2. todo[1] = "quiet" /\ 1 \in DOMAIN todo
      BY <3>1
    <3>3. ~radio.adv
      BY <3>2 DEF BleInv, QuietOff, Off
    <3>4. ~radio.scan
      BY <3>2 DEF BleInv, QuietScanless
    <3> QED BY <3>3, <3>4
  <2>2. ASSUME phase = "DATA", todo = <<>>, settled PROVE ~radio.adv
    BY <2>2 DEF BleInv, DataOff, Off
  <2> QED BY <2>1, <2>2
<1> QED BY <1>1, BleInvInit, BleInvStep, PTL DEF BleSpec

=============================================================================
