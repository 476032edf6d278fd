--------------------------- MODULE NodeLifeProofs ---------------------------
(***************************************************************************)
(* What TLC checks of NodeLife for one battery, one set of intervals and a *)
(* few seconds, proved for all of them: a node sleeps only on an empty     *)
(* battery, its sensors are read on time, what no sensor gave is stored    *)
(* for silent ones only, and what it saved survives.                       *)
(***************************************************************************)
EXTENDS NodeLife, TLAPS

Span(g) == Interval[g] * Factor[g]

\* The battery: what the estimator holds was measured, or stands for no measurement.
Power ==
    /\ place \in {"booting", "sensors", "store", "done", "resting", "asleep"}
    /\ pct \in Int /\ measured \in Int
    /\ place = "booting" => pct = 0
    /\ place # "booting" => pct = 100 \/ (measured # NoReading /\ pct = measured)
    /\ place = "asleep" => pct < PowerSaveMin

\* The uptime and the trust in NVS.
Uptimes ==
    /\ up \in Nat /\ saved \in Nat /\ covered \in Nat /\ due \in Nat /\ heard \in Nat
    /\ covered <= up /\ up - covered <= SavePeriod
    /\ due <= saved
    /\ heard = 0 => trust = kept

\* The age of a reading by where app_main is: it has been compared with the interval just
\* now, and the rest that follows is no longer than a sample period.
Ages ==
    /\ age \in [Groups -> Nat] /\ rest \in Nat
    /\ \A g \in Light :
          /\ place = "booting" => age[g] + rest <= BootTime
          /\ place = "resting" => age[g] + rest <= Span(g) + SampleSave
          /\ place \in {"store", "done"} /\ Mode(pct) # "critical" => age[g] < Span(g)
          /\ age[g] <= Span(g) + SampleSave + BootTime

\* A group that has not been asked is as old as the boot, and is due when the interval is over.
Asked == real \cup silent
Warm ==
    /\ up \in Nat
    /\ \A g \in Groups \ Asked : age[g] = IF up < Capped(g) THEN up ELSE Capped(g)
    /\ full /\ place \in {"sensors", "store", "done"} => Mode(pct) = "normal"
    /\ full /\ place \in {"store", "done"} => \A g \in Groups : age[g] < Interval[g]
    /\ place = "done" => invented \subseteq Groups \ real

-----------------------------------------------------------------------------

LEMMA Intervals ==
    \A g \in Groups : /\ Interval[g] \in Nat /\ Interval[g] >= 1
                      /\ Span(g) \in Nat /\ Interval[g] <= Span(g)
                      /\ Capped(g) \in Nat /\ Interval[g] < Capped(g)
<1> SUFFICES ASSUME NEW g \in Groups
             PROVE  /\ Interval[g] \in Nat /\ Interval[g] >= 1
                    /\ Span(g) \in Nat /\ Interval[g] <= Span(g)
                    /\ Capped(g) \in Nat /\ Interval[g] < Capped(g)
  OBVIOUS
<1>1. Interval[g] \in Nat /\ Interval[g] >= 1
  BY NodeLifeAssumption DEF Interval
<1>2. Factor[g] \in Nat /\ Factor[g] >= 1
  BY NodeLifeAssumption
<1>3. \A i, f \in Nat : f >= 1 => i * f \in Nat /\ i <= i * f
  OBVIOUS
<1>4. Span(g) \in Nat /\ Interval[g] <= Span(g)
  BY <1>1, <1>2, <1>3 DEF Span
<1>5. Capped(g) = Span(g) + SampleNormal + SampleSave
  BY DEF Capped, Span
<1> QED
  BY <1>1, <1>4, <1>5, NodeLifeAssumption

LEMMA Boots ==
    /\ BootTime \in Nat
    /\ \A r \in BootTimes : r \in Nat /\ r <= BootTime
<1> DEFINE Tries == Sensors * (InitTries - 1)
<1>1. \A s \in Nat, t \in Nat \ {0} : s * (t - 1) \in Nat
  OBVIOUS
<1>2. Tries \in Nat
  BY <1>1, NodeLifeAssumption
<1>3. \A n \in Nat : \A r \in 0 .. n : (r + 1) \div 2 \in Nat /\ (r + 1) \div 2 <= (n + 1) \div 2
  OBVIOUS
<1>4. BootTime = (Tries + 1) \div 2 /\ BootTimes = {(retries + 1) \div 2 : retries \in 0 .. Tries}
  BY DEF BootTime, BootTimes
<1> HIDE DEF Tries
<1> QED
  BY <1>2, <1>3, <1>4

LEMMA Percentages == \A r \in Measurements : r \in Int
<1>1. \A v \in Nat : PctOf(v) \in Int
  BY DEF PctOf
<1> QED
  BY <1>1, NodeLifeAssumption DEF Measurements, NoReading

LEMMA Modes ==
    \A p \in Int : /\ Mode(p) = "critical" <=> p < PowerSaveMin
                   /\ Mode(p) \in {"normal", "save", "critical"}
                   /\ Mode(p) = "normal" <=> p >= NormalMin
BY NodeLifeAssumption DEF Mode

-----------------------------------------------------------------------------

\* What a measurement leaves: a percentage that was measured, now or before, or 100.
LEMMA Measured ==
  ASSUME Measures,
         pct \in Int, measured \in Int,
         pct = 0 \/ pct = 100 \/ (measured # NoReading /\ pct = measured)
  PROVE  /\ pct' \in Int /\ measured' \in Int
         /\ pct' = 100 \/ (measured' # NoReading /\ pct' = measured')
         /\ full' => full /\ Mode(pct') = "normal"
<1>1. \E r \in Measurements :
         /\ pct' = Percentage(r)
         /\ measured' = IF r = NoReading THEN measured ELSE r
         /\ full' = (full /\ Mode(Percentage(r)) = "normal")
  BY Zenon DEF Measures
<1>2. PICK r \in Measurements :
         /\ pct' = Percentage(r)
         /\ measured' = IF r = NoReading THEN measured ELSE r
         /\ full' = (full /\ Mode(Percentage(r)) = "normal")
  BY <1>1, Zenon
<1>3. r \in Int
  BY Percentages
<1>4. full' => full /\ Mode(pct') = "normal"
  BY <1>2, Zenon
<1>5. /\ pct' \in Int /\ measured' \in Int
      /\ pct' = 100 \/ (measured' # NoReading /\ pct' = measured')
  <2>1. CASE r = NoReading
    BY <1>2, <2>1, SMT DEF Percentage
  <2>2. CASE r # NoReading
    BY <1>2, <1>3, <2>2, SMT DEF Percentage
  <2> QED
    BY <2>1, <2>2
<1> QED
  BY <1>4, <1>5

\* The battery and the power mode.
LEMMA PowerStart == Init => Power
BY NodeLifeAssumption DEF Init, Power, NoReading

LEMMA PowerStep == Power /\ [Next]_vars => Power'
<1> SUFFICES ASSUME Power, [Next]_vars PROVE Power'
  OBVIOUS
<1> USE Percentages, NodeLifeAssumption DEF Power
<1>1. CASE Crash
  BY <1>1 DEF Crash, Booted, NoReading
<1>2. CASE Wakes
  BY <1>2 DEF Wakes, Booted, NoReading
<1>3. CASE Measures
  <2>1. place = "booting" \/ place = "resting"
    BY <1>3 DEF Measures
  <2>2. pct = 0 \/ pct = 100 \/ (measured # NoReading /\ pct = measured)
    BY <2>1
  <2>3. place' = "sensors"
    BY <1>3 DEF Measures
  <2> QED
    BY <1>3, <2>2, <2>3, Measured
<1>4. CASE Senses
  BY <1>4 DEF Senses, power, sensors, uptime, esteem
<1>5. CASE Stores
  BY <1>5 DEF Stores, power, sensors, uptime, esteem
<1>6. CASE FallsAsleep
  BY <1>6, Modes DEF FallsAsleep, power, sensors, uptime, esteem
<1>7. CASE Rests
  BY <1>7 DEF Rests, power, sensors, uptime, esteem
<1>8. CASE Second
  BY <1>8 DEF Second, power, sensors, uptime, esteem
<1>9. CASE Slumber
  BY <1>9 DEF Slumber, power, sensors, uptime, esteem
<1>10. CASE Hears
  BY <1>10 DEF Hears, power, sensors, uptime, esteem
<1>11. CASE UNCHANGED vars
  BY <1>11 DEF vars, power, sensors, uptime, esteem
<1> QED
  BY <1>1, <1>2, <1>3, <1>4, <1>5, <1>6, <1>7, <1>8, <1>9, <1>10, <1>11 DEF Next

\* What is saved, and what has been since the last save.
LEMMA UptimesStart == Init => Uptimes
BY NodeLifeAssumption DEF Init, Uptimes

LEMMA UptimesStep == Uptimes /\ [Next]_vars => Uptimes'
<1> SUFFICES ASSUME Uptimes, [Next]_vars PROVE Uptimes'
  OBVIOUS
<1> USE NodeLifeAssumption DEF Uptimes
<1>1. CASE Crash
  BY <1>1 DEF Crash, Booted, Restored, power, sensors, uptime, esteem
<1>2. CASE Wakes
  BY <1>2 DEF Wakes, Booted, Restored, power, sensors, uptime, esteem
<1>3. CASE Measures
  BY <1>3 DEF Measures, power, sensors, uptime, esteem
<1>4. CASE Senses
  BY <1>4 DEF Senses, power, sensors, uptime, esteem
<1>5. CASE Stores
  BY <1>5 DEF Stores, power, sensors, uptime, esteem
<1>6. CASE FallsAsleep
  BY <1>6 DEF FallsAsleep, power, sensors, uptime, esteem
<1>7. CASE Rests
  BY <1>7 DEF Rests, power, sensors, uptime, esteem
<1>8. CASE Second
  <2>1. CASE Saves
    BY <1>8, <2>1 DEF Second, Saves, Uptime
  <2>2. CASE ~Saves
    BY <1>8, <2>2 DEF Second, Saves
  <2> QED
    BY <2>1, <2>2
<1>9. CASE Slumber
  BY <1>9 DEF Slumber, power, sensors, uptime, esteem
<1>10. CASE Hears
  BY <1>10 DEF Hears, power, sensors, uptime, esteem
<1>11. CASE UNCHANGED vars
  BY <1>11 DEF vars, power, sensors, uptime, esteem
<1> QED
  BY <1>1, <1>2, <1>3, <1>4, <1>5, <1>6, <1>7, <1>8, <1>9, <1>10, <1>11 DEF Next

\* The age of the readings, compared with the interval in every round.
LEMMA AgesStart == Init => Ages
BY Intervals, Boots, NodeLifeAssumption DEF Init, Ages

LEMMA AgesStep == Power /\ Ages /\ [Next]_vars => Ages'
<1> SUFFICES ASSUME Power, Ages, [Next]_vars PROVE Ages'
  OBVIOUS
<1>0. /\ \A g \in Light : g \in Groups
      /\ SampleNormal \in Nat /\ SampleSave \in Nat /\ SleepTime \in Nat
      /\ SampleNormal <= SampleSave /\ BootTime \in Nat
      /\ \A g \in Groups : Span(g) \in Nat /\ Interval[g] <= Span(g) /\ Interval[g] \in Nat
  BY NodeLifeAssumption, Boots, Intervals
<1>1. ASSUME Booted PROVE Ages'
  BY <1>0, <1>1, Boots DEF Booted, Ages
<1>2. CASE Measures
  BY <1>0, <1>2 DEF Measures, sensors, Ages
<1>3. CASE Senses
  <2>1. \A g \in Light : Mode(pct) # "critical" => (Due(g) \/ age[g] < Span(g))
    BY <1>0, Modes DEF Power, Due, Span, Ages
  <2>2. /\ age' \in [Groups -> Nat] /\ place' = "store" /\ rest' = rest /\ pct' = pct
        /\ \A g \in Light : age'[g] = IF Due(g) THEN 0 ELSE age[g]
    BY <1>0, <1>3 DEF Senses, power, Ages
  <2>3. \A g \in Light : Span(g) >= 1
    BY Intervals, <1>0
  <2> QED
    BY <1>0, <2>1, <2>2, <2>3 DEF Ages
<1>4. CASE Stores
  BY <1>4 DEF Stores, power, Ages
<1>5. CASE FallsAsleep
  BY <1>0, <1>5 DEF FallsAsleep, sensors, Ages
<1>6. CASE Rests
  <2>1. rest' \in Nat /\ rest' <= SampleSave
    <3>1. PICK request \in Requests : rest' = Rest(request)
      BY <1>6 DEF Rests
    <3>2. request \in Int /\ (request = AsUsual \/ request >= 0)
      <4>1. \A s \in Int : Request(s) \in Nat \/ Request(s) = AsUsual
        <5> TAKE s \in Int
        <5>1. CASE s > 0
          BY <5>1 DEF Request
        <5>2. CASE ~(s > 0) /\ s \in (1 - SlotLength) .. 0
          BY <5>2 DEF Request
        <5>3. CASE ~(s > 0) /\ s \notin (1 - SlotLength) .. 0
          BY <5>3 DEF Request
        <5> QED
          BY <5>1, <5>2, <5>3
      <4>2. request = AsUsual \/ \E s \in Int : request = Request(s)
        BY NodeLifeAssumption DEF Requests
      <4> QED
        BY <4>1, <4>2 DEF AsUsual
    <3>3. SamplePeriod \in Nat /\ SamplePeriod <= SampleSave
      BY <1>0 DEF SamplePeriod
    <3>4. CASE request = AsUsual \/ request > SamplePeriod
      <4>1. Rest(request) = SamplePeriod
        BY <3>4 DEF Rest
      <4> QED
        BY <3>1, <3>3, <4>1, <1>0
    <3>5. CASE ~(request = AsUsual \/ request > SamplePeriod)
      <4>1. Rest(request) = request
        BY <3>5 DEF Rest
      <4> QED
        BY <3>1, <3>2, <3>3, <3>5, <4>1, <1>0
    <3> QED
      BY <3>4, <3>5
  <2> QED
    BY <1>0, <1>6, <2>1 DEF Rests, sensors, Ages
<1>7. CASE Second
  <2>1. /\ age' \in [Groups -> Nat] /\ place' = place /\ place \in {"booting", "resting"}
        /\ rest' = rest - 1 /\ rest' \in Nat
        /\ \A g \in Light : age[g] \in Nat /\ age'[g] <= age[g] + 1
    BY <1>0, <1>7 DEF Second, Ages
  <2>2. \A g \in Light : /\ age'[g] \in Nat
                       /\ age'[g] + rest' <= age[g] + rest
    BY <1>0, <2>1 DEF Ages
  <2> QED
    BY <1>0, <2>1, <2>2 DEF Ages
<1>8. CASE Slumber
  BY <1>0, <1>8 DEF Slumber, power, sensors, Ages
<1>9. CASE Hears
  BY <1>9 DEF Hears, power, sensors, Ages
<1>10. CASE UNCHANGED vars
  BY <1>10 DEF vars, power, sensors, Ages
<1>11. Crash \/ Wakes => Booted
  BY DEF Crash, Wakes
<1> QED
  BY <1>1, <1>2, <1>3, <1>4, <1>5, <1>6, <1>7, <1>8, <1>9, <1>10, <1>11 DEF Next

\* What has not been asked is as old as the boot: it is due once the interval is over.
LEMMA WarmStart == Init => Warm
BY Intervals DEF Init, Warm

LEMMA WarmStep == Power /\ Ages /\ Warm /\ [Next]_vars => Warm'
<1> SUFFICES ASSUME Power, Ages, Warm, [Next]_vars PROVE Warm'
  OBVIOUS
<1> USE DEF Asked
<1>1. ASSUME Booted PROVE Warm'
  BY <1>1, Intervals DEF Booted, Warm
<1>2. CASE Measures
  <2>1. full' => full /\ Mode(pct') = "normal"
    BY <1>2, Measured DEF Measures, Power
  <2>2. place' = "sensors" /\ UNCHANGED <<age, real, silent, up>>
    BY <1>2 DEF Measures, sensors, uptime
  <2> QED
    BY <2>1, <2>2 DEF Warm
<1>3. CASE Senses
  <2>1. PICK mute \in SUBSET {g \in Faulty : Due(g)} :
          /\ real' = {g \in Groups : IF Due(g) THEN g \notin mute ELSE g \in real}
          /\ silent' = {g \in Groups : IF Due(g) THEN g \in mute ELSE g \in silent}
    BY <1>3 DEF Senses
  <2>2. \A g \in Groups : age'[g] = IF Due(g) THEN 0 ELSE age[g]
    BY <1>3 DEF Senses
  <2>3. \A g \in Groups \ Asked' : g \in Groups \ Asked /\ ~Due(g) /\ age'[g] = age[g]
    BY <2>1, <2>2
  <2>4. place = "sensors" /\ place' = "store" /\ UNCHANGED <<pct, full, up>>
    BY <1>3 DEF Senses, power, uptime
  <2>5. full => \A g \in Groups : age'[g] < Interval[g]
    <3> SUFFICES ASSUME full, NEW g \in Groups PROVE age'[g] < Interval[g]
      OBVIOUS
    <3>1. Mode(pct) = "normal"
      BY <2>4 DEF Warm
    <3>2. age[g] \in Nat /\ Interval[g] \in Nat /\ Interval[g] >= 1
      BY Intervals DEF Ages
    <3>3. CASE Due(g)
      BY <2>2, <3>2, <3>3
    <3>4. CASE ~Due(g)
      <4>1. ~(age[g] >= Interval[g])
        BY <3>1, <3>4 DEF Due
      <4> QED BY <2>2, <3>2, <3>4, <4>1
    <3> QED BY <3>3, <3>4
  <2> QED
    BY <2>3, <2>4, <2>5 DEF Warm
<1>4. CASE Stores
  BY <1>4 DEF Stores, power, uptime, Warm
<1>5. CASE FallsAsleep
  BY <1>5 DEF FallsAsleep, power, sensors, uptime, Warm
<1>6. CASE Rests
  BY <1>6 DEF Rests, power, sensors, uptime, Warm
<1>7. CASE Second
  <2>1. /\ UNCHANGED <<place, pct, full, real, silent, invented>> /\ up' = up + 1
        /\ place \in {"booting", "resting"}
    BY <1>7 DEF Second, power
  <2>2. \A g \in Groups : age'[g] = IF age[g] < Capped(g) THEN age[g] + 1 ELSE age[g]
    BY <1>7 DEF Second
  <2>3. \A g \in Groups : Capped(g) \in Nat
    BY Intervals
  <2>4. \A g \in Groups \ Asked : age'[g] = IF up + 1 < Capped(g) THEN up + 1 ELSE Capped(g)
    BY <2>2, <2>3 DEF Warm
  <2> QED
    BY <2>1, <2>4 DEF Warm
<1>8. CASE Slumber
  BY <1>8 DEF Slumber, power, sensors, uptime, Warm
<1>9. CASE Hears
  BY <1>9 DEF Hears, power, sensors, uptime, Warm
<1>10. CASE UNCHANGED vars
  BY <1>10 DEF vars, power, sensors, uptime, Warm
<1>11. Crash \/ Wakes => Booted
  BY DEF Crash, Wakes
<1> QED
  BY <1>1, <1>2, <1>3, <1>4, <1>5, <1>6, <1>7, <1>8, <1>9, <1>10, <1>11 DEF Next

-----------------------------------------------------------------------------

\* The four invariants hold together.
LEMMA Invariants == Spec => [](Power /\ Uptimes /\ Ages /\ Warm)
<1>1. Init => Power /\ Uptimes /\ Ages /\ Warm
  BY PowerStart, UptimesStart, AgesStart, WarmStart
<1>2. Power /\ Uptimes /\ Ages /\ Warm /\ [Next]_vars => (Power /\ Uptimes /\ Ages /\ Warm)'
  BY PowerStep, UptimesStep, AgesStep, WarmStep
<1> QED
  BY <1>1, <1>2, PTL DEF Spec

\* Only a battery measured since the boot and found nearly empty sends the node to its deep
\* sleep, whatever the thresholds and the battery (ms_node.c:319-333, 677-684).
THEOREM SleepsOnlyCorrect == Spec => []SleepsOnlyWhenEmpty
<1>1. Power => SleepsOnlyWhenEmpty
  BY NodeLifeAssumption DEF Power, SleepsOnlyWhenEmpty
<1> QED
  BY <1>1, Invariants, PTL

\* Every sensor is read on time, whatever the intervals, the slot and the sample periods, as
\* long as the normal mode's period is the shorter one (ms_node.c:686-698).
THEOREM ReadOnTimeCorrect == Spec => []ReadOnTime
<1>1. Ages => ReadOnTime
  BY DEF Ages, ReadOnTime, Span
<1> QED
  BY <1>1, Invariants, PTL

\* Whatever the intervals and whichever sensors are silent: a boot's random values end with a
\* group's interval, and what was made up for a silent sensor goes when the sensor is asked again
\* and answers (ms_node.c:398-541, 543-622).
THEOREM InventedCorrect == Spec => []InventedForTheSilent
<1>1. Power /\ Ages /\ Warm => InventedForTheSilent
  <2> DEFINE Longest(g) == IF full THEN Interval[g] ELSE Interval[g] * Factor[g]
  <2> SUFFICES ASSUME Power, Ages, Warm, place = "done", Mode(pct) # "critical",
                      NEW g \in invented, full \/ g \in Light
               PROVE  up < Longest(g) \/ (g \in silent /\ age[g] < Longest(g))
    BY DEF InventedForTheSilent
  <2>1. g \in Groups \ real
    BY DEF Warm
  <2>2. age[g] < Longest(g)
    <3>1. CASE full
      BY <2>1, <3>1 DEF Warm
    <3>2. CASE ~full
      BY <3>2 DEF Ages, Span
    <3> QED BY <3>1, <3>2
  <2>3. CASE g \in silent
    BY <2>2, <2>3
  <2>4. CASE g \notin silent
    <3>1. age[g] = IF up < Capped(g) THEN up ELSE Capped(g)
      BY <2>1, <2>4 DEF Warm, Asked
    <3>2. /\ Interval[g] \in Nat /\ Span(g) \in Nat /\ Interval[g] <= Span(g)
          /\ Capped(g) \in Nat /\ up \in Nat
      BY <2>1, Intervals DEF Warm
    <3>3. Capped(g) = Span(g) + SampleNormal + SampleSave
      BY DEF Capped, Span
    <3>4. Longest(g) \in Nat /\ Longest(g) <= Capped(g)
      BY <3>2, <3>3, NodeLifeAssumption DEF Span
    <3> HIDE DEF Longest
    <3>5. up < Longest(g)
      BY <2>2, <3>1, <3>2, <3>4
    <3> QED BY <3>5
  <2> QED BY <2>3, <2>4
<1> QED
  BY <1>1, Invariants, PTL

\* What has been saved outlives every reset and sleep, however often and whenever they come
\* (metrics.c:93-172, 346-368).
THEOREM SavedSurvivesCorrect == Spec => []SavedSurvives
<1>1. Uptimes => SavedSurvives
  BY DEF Uptimes, SavedSurvives
<1> QED
  BY <1>1, Invariants, PTL
=============================================================================
