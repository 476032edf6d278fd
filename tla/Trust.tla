------------------------------- MODULE Trust -------------------------------
(***************************************************************************)
(* How a node comes to the trust and the link quality it claims for itself *)
(* (metrics.c): moving averages over the beacons it hears, in thousandths. *)
(* A standing is [hsr, pdr, reputation, per, rssi]: the share of beacons   *)
(* with a right HMAC, the share of packets that arrive, what the neighbors *)
(* say of themselves, the share of beacons missed, and the strength they   *)
(* come with, in hundredths of a dBm.                                      *)
(***************************************************************************)
EXTENDS Integers

Neutral == [hsr |-> 500, pdr |-> 500, reputation |-> 500, per |-> 100, rssi |-> -7000]
NeutralTrust == 500

Smoothed(old, new, weight) == (weight * new + (1000 - weight) * old) \div 1000

\* metrics_record_hmac_success, HSR_WEIGHT
Authenticated(s, right) ==
    [s EXCEPT !.hsr = Smoothed(@, IF right THEN 1000 ELSE 0, 400)]

\* The averages of metrics_update_trust, REPUTATION_WEIGHT and PDR_WEIGHT.
Esteemed(s, reputation) ==
    [s EXCEPT !.reputation = Smoothed(@, reputation, 300),
              !.pdr = Smoothed(@, 1000 - s.per, 300)]

\* The trust metrics_update_trust computes: always from the averages, never from the last.
TrustOf(s) == (400 * s.hsr + 300 * s.pdr + 300 * s.reputation) \div 1000

\* should_process_device of ble_manager.c: a beacon with the number of the sender's last is
\* a repetition when it comes within half a second.
Passes(soon, d) == ~soon \/ d # 0

\* neighbor_manager_update: the beacons missed before one whose number is d past the last
\* one's (mod 256).  More than 20 are a node that has booted anew.
MissedBefore(d) == IF d - 1 \in 1 .. 20 THEN d - 1 ELSE 0

\* metrics_record_ble_reception of one beacon after n missed ones, PDR_EWMA_ALPHA
Received(s, n) == [s EXCEPT !.per = Smoothed(@, (n * 1000) \div (n + 1), 100)]

\* metrics_update_rssi, in dBm
Tuned(s, dbm) == [s EXCEPT !.rssi = Smoothed(@, 100 * dbm, 100)]

\* metrics_recompute_link_quality: -100 dBm is nothing, -50 dBm and more is all.
RssiQuality(rssi) ==
    CASE rssi < -10000 -> 0
      [] rssi > -5000 -> 1000
      [] OTHER -> (rssi + 10000) \div 5
LinkQuality(s) == (700 * RssiQuality(s.rssi) + 300 * (1000 - s.per)) \div 1000
=============================================================================
