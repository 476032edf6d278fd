------------------------------ MODULE NodeLife ------------------------------
(***************************************************************************)
(* The life of one node: it boots, measures its battery (battery.c), takes *)
(* a power mode from it (pme.c), reads each sensor at the interval of the  *)
(* mode, stores a record in every round of app_main's loop (ms_node.c),    *)
(* rests or, when its battery is nearly empty, sleeps for half an hour and *)
(* boots again.  A reset may come at any time.  The metrics task counts    *)
(* the node's uptime, the beacons it hears make its trust, and both are    *)
(* saved in NVS, which is all that lives on.                               *)
(*                                                                         *)
(* A tick is a second.  Percentages are those of the battery, a value in   *)
(* the cache is reduced to where it comes from: its sensor gave it, it was *)
(* made up (a sine of the time) because the sensor was silent, or nothing  *)
(* was put there yet.  Every sensor of Groups is enabled in the            *)
(* configuration, which nothing in the firmware writes: its reloading      *)
(* changes nothing.                                                        *)
(***************************************************************************)
EXTENDS Integers, Trust

CONSTANTS
    Groups,        \* the groups of sensors that share an interval and are enabled
    Light,         \* those of them that are read in the power-save mode too
    Faulty,        \* those whose sensor may be silent
    Default,       \* the default interval of each group (sensor_config_get_default)
    Configured,    \* the intervals that NVS holds instead, for some of the groups
    Factor,        \* by how much the power-save mode stretches it
    Voltages,      \* what the battery may be measured at, in tenths of a volt
    NormalMin,     \* normal_min_pct
    PowerSaveMin,  \* power_save_min_pct
    SampleNormal,  \* sample_period_ms_for_mode in the normal mode
    SampleSave,    \* ... and in the power-save mode
    SlotTimes,     \* seconds to the node's slot, negative once it has begun
    SlotLength,    \* SLOT_DURATION_SEC
    SleepTime,     \* the deep sleep (half an hour)
    Sensors,       \* the sensors app_main initialises
    InitTries,     \* MAX_RETRIES of each, half a second apart
    SavePeriod,    \* seconds after which metrics_update saves the uptime
    Reputations,   \* what the neighbors heard say of themselves, in thousandths
    Gaps,          \* by how much a neighbor's beacon number may be past its last one
    Signals,       \* the strengths beacons arrive with, in dBm
    MaxBeacons,    \* bound: beacons heard in a boot
    MaxAwake       \* bound: seconds the node is awake in all its boots

NoReading == -1   \* no measurement
AsUsual == -1     \* the 5000 of state_machine_get_sleep_time_ms

ASSUME NodeLifeAssumption ==
    /\ Light \subseteq Groups /\ Faulty \subseteq Groups
    /\ Default \in [Groups -> Nat \ {0}] /\ Factor \in [Groups -> Nat \ {0}]
    /\ DOMAIN Configured \subseteq Groups
    /\ \A g \in DOMAIN Configured : Configured[g] \in Nat \ {0}
    /\ Voltages \subseteq Nat
    /\ {NormalMin, PowerSaveMin} \subseteq 0 .. 100 /\ PowerSaveMin < NormalMin
    /\ {SampleNormal, SampleSave, SleepTime, SavePeriod} \subseteq Nat \ {0}
    /\ SampleNormal <= SampleSave
    /\ SlotTimes \subseteq Int /\ SlotLength \in Nat
    /\ Reputations \subseteq 0 .. 1000
    /\ Gaps \subseteq 0 .. 255 /\ Signals \subseteq -127 .. 20
    /\ Sensors \in Nat /\ InitTries \in Nat \ {0}
    /\ {MaxAwake, MaxBeacons} \subseteq Nat

VARIABLES
    place,     \* where app_main is: "booting", "sensors", "store", "done", "resting", "asleep"
    rest,      \* seconds until it goes on
    up,        \* seconds since the boot (esp_timer_get_time)
    pct,       \* s_batt_pct of the power mode estimator
    measured,  \* the battery's last good measurement since the boot, or NoReading
    age,       \* seconds since each group's last reading (s_last_..._read_ms), or the boot
    real,      \* the groups whose values in s_cache their sensor gave
    silent,    \* history: the groups whose sensor was silent when it was last asked
    invented,  \* the groups whose values no sensor gave, of the record the last round stored
    full,      \* every round since the boot was in the normal mode
    saved,     \* the uptime in NVS
    covered,   \* the second of this boot the uptime was last saved at, or 0
    awake,     \* seconds the node has been awake in all its boots
    due        \* those of them that came before a save of their boot

VARIABLES
    standing,  \* the averages behind the node's trust
    trust,     \* the trust it claims
    heard,     \* the beacons it has heard since the boot
    kept       \* the trust in NVS, neutral as long as none has been saved

power == <<pct, measured, full>>
sensors == <<age, real, silent, invented>>
uptime == <<up, saved, covered, awake, due>>
esteem == <<standing, trust, heard, kept>>
vars == <<place, rest, power, sensors, uptime, esteem>>

\* compute_mode
Mode(p) ==
    CASE p >= NormalMin -> "normal"
      [] p < NormalMin /\ p >= PowerSaveMin -> "save"
      [] OTHER -> "critical"

\* sensor_config_load takes the default for a key that NVS does not hold.
Interval == [g \in Groups |-> IF g \in DOMAIN Configured THEN Configured[g] ELSE Default[g]]

\* pct_from_voltage: 0 % at 9 V, 100 % at 12.6 V, rounded in between.
PctOf(v) ==
    CASE v <= 90 -> 0
      [] v >= 126 -> 100
      [] OTHER -> ((v - 90) * 100 + 18) \div 36

\* A round's measurement: no valid sample, a voltage of 2 V or less, or a percentage.
Measurements == {NoReading} \cup {PctOf(v) : v \in {w \in Voltages : w > 20}}

-----------------------------------------------------------------------------
(* Boot and reset                                                          *)

\* INIT_SENSOR goes on without a sensor whose tries have all failed.
BootTimes == {(retries + 1) \div 2 : retries \in 0 .. Sensors * (InitTries - 1)}
BootTime == (Sensors * (InitTries - 1) + 1) \div 2

\* metrics_init takes the trust from NVS; the averages behind it start anew.
Restored == standing' = Neutral /\ trust' = kept /\ heard' = 0

\* What a boot finds: pme_init starts from 0 %, and no sensor has been read.
Booted ==
    /\ place' = "booting" /\ rest' \in BootTimes
    /\ up' = 0 /\ covered' = 0
    /\ pct' = 0 /\ measured' = NoReading /\ full' = TRUE
    /\ age' = [g \in Groups |-> 0] /\ real' = {} /\ silent' = {} /\ invented' = {}
    /\ Restored

Init ==
    /\ place = "booting" /\ rest \in BootTimes
    /\ up = 0 /\ covered = 0
    /\ pct = 0 /\ measured = NoReading /\ full = TRUE
    /\ age = [g \in Groups |-> 0] /\ real = {} /\ silent = {} /\ invented = {}
    /\ saved = 0 /\ awake = 0 /\ due = 0
    /\ standing = Neutral /\ trust = NeutralTrust /\ heard = 0 /\ kept = NeutralTrust

\* A panic, the watchdog or the supply.
Crash ==
    /\ place # "asleep"
    /\ Booted
    /\ UNCHANGED <<saved, awake, due, kept>>

\* The timer wakes the node: esp_deep_sleep_start ends in a boot.
Wakes ==
    /\ place = "asleep" /\ rest = 0
    /\ Booted
    /\ UNCHANGED <<saved, awake, due, kept>>

-----------------------------------------------------------------------------
(* A round of app_main's loop                                              *)

Capped(g) == Interval[g] * Factor[g] + SampleNormal + SampleSave

\* Mutant: without a measurement the estimator's value is taken as it is.
LastKnown(r) == IF r = NoReading THEN pct ELSE r

\* The percentage a round works with: measured, or the last one, or 100 if that is 0.
Percentage(r) ==
    CASE r # NoReading -> r
      [] r = NoReading /\ pct = 0 -> 100
      [] OTHER -> pct

\* battery_read, which may fail or find less than 2 V, and pme_set_batt_pct.
Measures ==
    /\ place \in {"booting", "resting"} /\ rest = 0
    /\ \E r \in Measurements :
           /\ pct' = Percentage(r)
           /\ measured' = IF r = NoReading THEN measured ELSE r
           /\ full' = (full /\ Mode(Percentage(r)) = "normal")
    /\ place' = "sensors"
    /\ UNCHANGED <<rest, sensors, uptime, esteem>>

\* The groups read in a round: by the mode, and by the time since their last reading.
Due(g) ==
    \/ Mode(pct) = "normal" /\ age[g] >= Interval[g]
    \/ Mode(pct) = "save" /\ g \in Light /\ age[g] >= Interval[g] * Factor[g]

\* Mutant: the cache keeps the first value it was given for a group.
SensesOnce ==
    /\ place = "sensors"
    /\ \E mute \in SUBSET {g \in Faulty : Due(g)} :
           /\ real' = real \cup {g \in Groups \ (mute \cup silent) : Due(g)}
           /\ silent' = {g \in Groups : IF Due(g) THEN g \in mute ELSE g \in silent}
    /\ age' = [g \in Groups |-> IF Due(g) THEN 0 ELSE age[g]]
    /\ place' = "store"
    /\ UNCHANGED <<rest, invented, power, uptime, esteem>>

\* A group that is due is asked, timed and cached, with a value made up for it if it is silent.
\* Of the two sensors of the environment the normal mode takes the BME280's word alone.
Senses ==
    /\ place = "sensors"
    /\ \E mute \in SUBSET {g \in Faulty : Due(g)} :
           /\ real' = {g \in Groups : IF Due(g) THEN g \notin mute ELSE g \in real}
           /\ silent' = {g \in Groups : IF Due(g) THEN g \in mute ELSE g \in silent}
    /\ age' = [g \in Groups |-> IF Due(g) THEN 0 ELSE age[g]]
    /\ place' = "store"
    /\ UNCHANGED <<rest, invented, power, uptime, esteem>>

\* The payload of a head or a member is the cache: made-up values and all.  What nobody asked
\* for yet is random as long as the cache is empty, and 0 afterwards.  A node without a role
\* stores nothing.
Stores ==
    /\ place = "store"
    /\ \/ invented' = Groups \ real
       \/ invented' = {}
    /\ place' = "done"
    /\ UNCHANGED <<rest, power, age, real, silent, uptime, esteem>>

FallsAsleep ==
    /\ place = "done" /\ Mode(pct) = "critical"
    /\ place' = "asleep" /\ rest' = SleepTime
    /\ UNCHANGED <<power, sensors, uptime, esteem>>

SamplePeriod == IF Mode(pct) = "save" THEN SampleSave ELSE SampleNormal

\* state_machine_get_sleep_time_ms of a member with a valid schedule, whose slot begins in
\* s seconds: to the slot; no time at all in it (100 ms).
Request(s) ==
    CASE s > 0 -> s
      [] s \in (1 - SlotLength) .. 0 -> 0
      [] OTHER -> AsUsual

\* ... and of any node
Requests == {AsUsual} \cup {Request(s) : s \in SlotTimes}

\* Mutant: the node rests until its slot, however far that is.
UntilSlot(request) == IF request = AsUsual THEN SamplePeriod ELSE request

\* The smart sleep: until the node's slot, but no longer than the sample period.
Rest(request) ==
    IF request = AsUsual \/ request > SamplePeriod THEN SamplePeriod ELSE request

Rests ==
    /\ place = "done" /\ Mode(pct) # "critical"
    /\ \E request \in Requests : rest' = Rest(request)
    /\ place' = "resting"
    /\ UNCHANGED <<power, sensors, uptime, esteem>>

-----------------------------------------------------------------------------
(* Time, and the metrics task that runs every second                       *)

\* Mutant: the uptime of this boot alone.
UptimeOfBoot == up + 1

\* metrics_get_uptime is read from NVS in every metrics_update.
Uptime == saved + up + 1

\* metrics_update saves the uptime when more than SavePeriod has passed since the last
\* attempt, here since the last save: it fails only if NVS is full, which is left out.
Saves == up + 1 - covered > SavePeriod

Second ==
    /\ place \in {"booting", "resting"} /\ rest > 0
    /\ awake < MaxAwake
    /\ rest' = rest - 1
    /\ up' = up + 1 /\ awake' = awake + 1
    /\ age' = [g \in Groups |-> IF age[g] < Capped(g) THEN age[g] + 1 ELSE age[g]]
    /\ \/ /\ Saves
          /\ saved' = Uptime /\ covered' = up + 1 /\ due' = due + (up + 1 - covered)
          /\ kept' = trust
       \/ ~Saves /\ UNCHANGED <<saved, covered, due, kept>>
    /\ UNCHANGED <<place, power, real, silent, invented, standing, trust, heard>>

\* A beacon that is no repetition.  One with a wrong HMAC counts against the node's own
\* trust; one with a right HMAC brings the sender's and, from the second of a neighbor on,
\* tells how many were missed.
Hears ==
    /\ place # "asleep" /\ heard < MaxBeacons
    /\ heard' = heard + 1
    /\ \/ standing' = Authenticated(standing, FALSE) /\ UNCHANGED trust
       \/ \E r \in Reputations, dbm \in Signals :
             LET s == Esteemed(Tuned(Authenticated(standing, TRUE), dbm), r)
             IN  /\ trust' = TrustOf(s)
                 /\ \/ standing' = s
                    \/ \E d \in Gaps, soon \in BOOLEAN :
                          Passes(soon, d) /\ standing' = Received(s, MissedBefore(d))
    /\ UNCHANGED <<place, rest, power, sensors, uptime, kept>>

Slumber ==
    /\ place = "asleep" /\ rest > 0
    /\ rest' = rest - 1
    /\ UNCHANGED <<place, power, sensors, uptime, esteem>>

Next ==
    \/ Crash \/ Wakes
    \/ Measures \/ Senses \/ Stores \/ FallsAsleep \/ Rests
    \/ Second \/ Slumber \/ Hears

Spec == Init /\ [][Next]_vars

-----------------------------------------------------------------------------
(* Properties                                                              *)

\* A node goes to its half hour of deep sleep only on a battery it has measured since the
\* boot and found nearly empty: neither the estimator's starting value nor a failed
\* measurement sends it (ms_node.c:319-333, 677-684, pme.c:33-52).
SleepsOnlyWhenEmpty ==
    place = "asleep" => measured # NoReading /\ measured < PowerSaveMin

\* However far the node's slot is and however its mode changes, a sensor that every mode
\* reads is not left longer than its longest interval and a round (ms_node.c:686-698).
ReadOnTime ==
    \A g \in Light : age[g] <= Interval[g] * Factor[g] + SampleSave + BootTime

\* Once a boot is longer ago than a group's interval, the node's records hold a value no sensor
\* gave only if the sensor was asked less than an interval ago and was silent: the random values
\* of the start are gone, and so is what was made up as soon as the sensor answers.  The interval
\* is the stretched one once the node has been in the power-save mode, which some sensors are
\* left out of (ms_node.c:398-541, 543-622).
InventedForTheSilent ==
    LET Longest(g) == IF full THEN Interval[g] ELSE Interval[g] * Factor[g]
    IN  place = "done" /\ Mode(pct) # "critical" =>
            \A g \in invented : full \/ g \in Light =>
                up < Longest(g) \/ (g \in silent /\ age[g] < Longest(g))

\* What was saved survives the resets and sleeps: no second the node was awake before a
\* save is lost, no more than SavePeriod goes by unsaved, and until a boot hears its first
\* beacon the node claims the trust saved last (metrics.c:93-172, 346-368).
SavedSurvives ==
    /\ saved >= due
    /\ up - covered <= SavePeriod
    /\ heard = 0 => trust = kept

\* metrics.c:468: the trust restored from NVS "survives panic reboots": where every
\* beacon is authentic, and none is missed, and the neighbors are at their best, no beacon
\* lowers the node's trust.  It does: the averages start anew from their neutral values.
TrustSurvives ==
    [][Reputations = {1000} /\ Gaps = {1} /\ standing'.hsr > standing.hsr => trust' >= trust]_vars

\* metrics.h:8: the uptime says how long the node has been running.
UptimeIsTrue == saved <= awake
=============================================================================
