--------------------------- MODULE NeighborTable ---------------------------
(***************************************************************************)
(* The table of neighbors a node keeps from their beacons                  *)
(* (neighbor_manager.c).                                                   *)
(*                                                                         *)
(* A table is a function from the neighbors it holds to entries: what the  *)
(* last beacon said, [isCh, battery, uptime, trust, linkq, score], and its *)
(* age, the time since last_seen_ms.  ch_announce_timestamp is written     *)
(* with last_seen_ms in every beacon that has the head flag, and only read *)
(* while the flag is set: the age serves for both.                         *)
(***************************************************************************)
EXTENDS Config, FiniteSets, Functions

CONSTANTS
    NeighborTimeout,  \* NEIGHBOR_TIMEOUT_MS, in ticks
    ChTimeout         \* CH_BEACON_TIMEOUT_MS, in ticks

ASSUME NeighborTableAssumption ==
    {NeighborTimeout, ChTimeout} \subseteq Nat \ {0} /\ ChTimeout <= NeighborTimeout

\* neighbor_manager_update for each of the entries in b, in any order: a known neighbor's
\* entry is overwritten, a new neighbor needs room.
Updates(t, b) ==
    LET new == DOMAIN b \ DOMAIN t
        room == MaxNeighbors - Cardinality(DOMAIN t)
        fit == {a \in SUBSET new :
                   Cardinality(a) = IF Cardinality(new) <= room THEN Cardinality(new) ELSE room}
    IN  { [k \in DOMAIN t \cup a |-> IF k \in DOMAIN b THEN b[k] ELSE t[k]] : a \in fit }

\* Time passes; an age says no more than which timeouts have run out.
Aged(t) ==
    [k \in DOMAIN t |->
        [t[k] EXCEPT !.age = IF @ < NeighborTimeout THEN @ + 1 ELSE @]]

\* Mutant: a stale neighbor stays.
NotCleaned(t) == t

\* neighbor_manager_cleanup_stale
Cleaned(t) == Restrict(t, {k \in DOMAIN t : t[k].age < NeighborTimeout})

FreshHeads(t) ==
    {k \in DOMAIN t : t[k].isCh /\ t[k].trust >= TrustFloor /\ t[k].age < ChTimeout}

\* neighbor_manager_get_current_ch: the fresh head with the best score, 0 if there is none.
\* Of equal ones it takes the first of the table; here, the one with the lowest id.
CurrentCh(t) ==
    IF FreshHeads(t) = {} THEN 0
    ELSE CHOOSE k \in FreshHeads(t) : \A j \in FreshHeads(t) \ {k} :
             t[k].score > t[j].score \/ (t[k].score = t[j].score /\ k < j)
=============================================================================
