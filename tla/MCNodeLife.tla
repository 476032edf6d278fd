----------------------------- MODULE MCNodeLife -----------------------------
(* Intervals of a few seconds for the defaults' minutes: the gas sensor is read half as   *)
(* often as the environment, the magnetometer only in the normal mode.  The battery is    *)
(* measured on both sides of each threshold, and with nothing connected.  The sensors     *)
(* that may be silent are one that every mode reads and one that only the normal mode     *)
(* does.                                                                                  *)
EXTENDS NodeLife

MCGroups == {"env", "gas", "mag"}
MCLight == {"env", "gas"}
MCFaulty == {"gas", "mag"}
MCDefault == [env |-> 2, gas |-> 4, mag |-> 4]
MCConfigured == [g \in {"mag"} |-> 2]
MCFactor == [env |-> 5, gas |-> 3, mag |-> 5]
MCVoltages == {0, 88, 93, 94, 111, 112, 126}
MCSlotTimes == {-3, -1, 1, 9}
MCSignals == {-60}
=============================================================================
