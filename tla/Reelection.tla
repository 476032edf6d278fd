----------------------------- MODULE Reelection -----------------------------
(***************************************************************************)
(* Which of two heads yields (election_check_reelection_needed of          *)
(* election.c, with the score a beacon carries).  Scores are in units of   *)
(* 1e-5.  A node compares its own composite_score with the score of the    *)
(* other's beacon, which has lost what is below 1e-4                       *)
(* (ble_manager_update_advertisement).                                     *)
(***************************************************************************)
EXTENDS Config

\* (uint16_t)(score * 10000), as the receiver reads it.
Announced(s) == (s \div 10) * 10

Buffer == 1000   \* the tie buffer of 0.01

\* Mutant: in a tie nobody yields.
YieldsToBetter(n, s, m, a) == a - s > Buffer

\* Node n, with score s, yields to the head m whose beacon said a.
Yields(n, s, m, a) ==
    \/ a - s > Buffer
    \/ a - s \in -Buffer..Buffer /\ m < n

\* Battery b is one to hand over to, from the low battery c.
Healthier(b, c) == b >= BatteryLow \/ b > c + 5
=============================================================================
