------------------------------- MODULE Config -------------------------------
(* The thresholds of config.h that election and neighbor table share, in   *)
(* percent.                                                                *)
EXTENDS Integers

CONSTANT MaxNeighbors   \* MAX_NEIGHBORS

ASSUME ConfigAssumption == MaxNeighbors \in Nat \ {0}

TrustFloor == 20
BatteryLow == 20     \* BATTERY_LOW_THRESHOLD
LinkFloor == 20      \* LINK_QUALITY_FLOOR
ClusterRadius == -75 \* CLUSTER_RADIUS_RSSI_THRESHOLD, in dBm
=============================================================================
