------------------------------- MODULE Dedup -------------------------------
(***************************************************************************)
(* The duplicate filter under any sequence of frames: from more nodes than *)
(* the table has entries, with more sequence numbers than a ring holds,    *)
(* several in one millisecond, and across the ESP-NOW restart of a UAV     *)
(* onboarding, which takes the mutex away (and with it the filter) before  *)
(* it silences the receive callback, and gives the mutex back, with the    *)
(* callback registered already, before it zeroes the count and then the    *)
(* entries, both without the mutex: a frame may come before, between and   *)
(* within the two.  DeliveryProofs extends this module and Delivery        *)
(* together, so no name here is one of Delivery's.                         *)
(***************************************************************************)
EXTENDS DedupTable, FiniteSets

CONSTANTS
    Nodes, Seqs,  \* the senders and their sequence numbers
    NoNode,       \* 0: the id of a zeroed entry; no frame with it is filtered
    MaxHeard,     \* bound: frames in a behaviour
    MaxTime,      \* bound: milliseconds in a behaviour
    MaxReinits    \* bound: ESP-NOW restarts in a behaviour

ASSUME DedupAssumption ==
    {MaxHeard, MaxReinits} \subseteq Nat /\ MaxTime \in Nat \ {0} /\ NoNode \notin Nodes

VARIABLES
    filter,   \* s_dedup_table[0 .. s_dedup_count - 1]
    mutex,    \* s_dedup_mutex exists
    zeroing,  \* what the reinit has still to zero: "count", then "entries"
    torn,     \* a frame met the zeroing inside the filter: a data race
    time,     \* esp_timer_get_time() / 1000, from 1 so that 0 is long ago
    heard,    \* history: the frames since the table was last emptied
    reinits

filterVars == <<filter, mutex, zeroing, torn, time, heard, reinits>>

HeardFrame ==
    [node : Nodes, seq : Seqs, at : 1..MaxTime, stored : BOOLEAN, filtered : BOOLEAN]

FilterInit ==
    /\ filter = EmptyTable /\ mutex = TRUE /\ zeroing = "none" /\ torn = FALSE
    /\ time = 1 /\ heard = <<>> /\ reinits = 0

Hear(n, s, stored, filtered) ==
    /\ Len(heard) < MaxHeard
    /\ heard' = Append(heard, [node |-> n, seq |-> s, at |-> time,
                               stored |-> stored, filtered |-> filtered])

\* process_packet, the JSON branch, with the table the mutex finds: before the
\* zeroing of a reinit, between its two parts, or in service.
Receive(n, s) ==
    /\ mutex /\ ~torn
    /\ Hear(n, s, ShouldStore(filter, n, s), TRUE)
    /\ filter' = After(filter, n, s, time)
    /\ UNCHANGED <<mutex, zeroing, torn, time, reinits>>

\* No mutex: the frame is stored and the table does not learn of it.
ReceiveUnfiltered(n, s) ==
    /\ ~mutex
    /\ Hear(n, s, TRUE, FALSE)
    /\ UNCHANGED <<filter, mutex, zeroing, torn, time, reinits>>

\* esp_now_manager_deinit deletes the mutex; the table stays.
FilterDeinit ==
    /\ mutex /\ zeroing = "none" /\ reinits < MaxReinits
    /\ mutex' = FALSE
    /\ UNCHANGED <<filter, zeroing, torn, time, heard, reinits>>

\* esp_now_manager_reinit creates the mutex over the old table; or it returns early
\* when esp_now_init fails (then the mutex stays away until the next reinit).
FilterReinit ==
    /\ ~mutex /\ reinits < MaxReinits
    /\ mutex' = TRUE /\ zeroing' = "count" /\ reinits' = reinits + 1
    /\ UNCHANGED <<filter, torn, time, heard>>

\* s_dedup_count = 0.  The history of the frames starts anew.
ZeroCount ==
    /\ zeroing = "count" /\ zeroing' = "entries"
    /\ filter' = EmptyTable /\ heard' = <<>>
    /\ UNCHANGED <<mutex, torn, time, reinits>>

\* memset: entries of frames since the count was zeroed stay counted.  When a frame
\* met the zeroing of the count, the count may be any.
ZeroEntries ==
    /\ zeroing = "entries" /\ zeroing' = "none"
    /\ \E k \in IF torn THEN 0..MaxNodes ELSE {Len(filter)} :
          filter' = [i \in 1..k |-> NewEntry(NoNode)]
    /\ torn' = FALSE /\ heard' = <<>>
    /\ UNCHANGED <<mutex, time, reinits>>

\* Either zeroing while a frame is inside the filter, which reads and writes the count
\* and the entry: what the table then holds, and what it says of later frames, is
\* undefined until the next reinit.
ZeroTorn ==
    /\ zeroing # "none"
    /\ zeroing' = IF zeroing = "count" THEN "entries" ELSE "none"
    /\ torn' = TRUE
    /\ filter' = EmptyTable /\ heard' = <<>>
    /\ UNCHANGED <<mutex, time, reinits>>

Tick ==
    /\ time < MaxTime /\ time' = time + 1
    /\ UNCHANGED <<filter, mutex, zeroing, torn, heard, reinits>>

FilterNext ==
    \/ \E n \in Nodes, s \in Seqs : Receive(n, s) \/ ReceiveUnfiltered(n, s)
    \/ FilterDeinit \/ FilterReinit \/ ZeroCount \/ ZeroEntries \/ ZeroTorn \/ Tick

FilterSpec == FilterInit /\ [][FilterNext]_filterVars

----------------------------------------------------------------------------

\* Unless a frame met the zeroing of a reinit inside the filter: one entry per node, no
\* sequence number twice in a ring, and the ring's index where the next number goes.
\* Entries that were zeroed while counted belong to nobody, hold nothing and look older
\* than every other, so that they are the first to make room.
TableOK ==
    ~torn =>
    /\ Len(filter) <= MaxNodes
    /\ \A i, j \in 1..Len(filter) :
          filter[i].node = filter[j].node => i = j \/ filter[i].node = NoNode
    /\ \A i \in 1..Len(filter) :
          LET e == filter[i] IN
          /\ \/ e.node \in Nodes /\ e.seen \in 1..time
             \/ e.node = NoNode /\ e.seen = 0 /\ e.seqs = <<>>
          /\ e.next \in 0..(History - 1)
          /\ Len(e.seqs) <= History /\ (Len(e.seqs) < History => e.next = Len(e.seqs))
          /\ \A j, k \in 1..Len(e.seqs) : e.seqs[j] = e.seqs[k] => j = k
    /\ \A i \in 1..Len(heard) : heard[i] \in HeardFrame

SameFrame(i, j) == heard[i].node = heard[j].node /\ heard[i].seq = heard[j].seq

\* The filter refuses nothing that is new: a refused frame's number was stored for
\* that node before, and no eviction and no reinit lends one node another's history
\* (esp_now_manager.c:62-87, 551-552); frames of a torn filter are not in heard.
RefusedWasStored ==
    \A j \in 1..Len(heard) :
        ~heard[j].stored => \E i \in 1..(j - 1) : SameFrame(i, j) /\ heard[i].stored

\* The frames between i and j that pushed a number into the ring of i's node.
Pushes(i, j) == {k \in (i + 1)..(j - 1) : /\ heard[k].node = heard[i].node
                                          /\ heard[k].stored /\ heard[k].filtered}
\* The last frame of i's node before k.
LastOf(i, k) == CHOOSE l \in i..(k - 1) :
                    /\ heard[l].node = heard[i].node /\ heard[l].filtered
                    /\ \A m \in (l + 1)..(k - 1) :
                          ~(heard[m].node = heard[i].node /\ heard[m].filtered)
\* Other nodes heard no earlier than that frame, up to k.
HeardSince(i, k) == {heard[l].node : l \in {l \in 1..k : /\ heard[l].filtered
                                                         /\ heard[l].at >= heard[LastOf(i, k)].at}}
                    \ {heard[i].node}

\* A record is stored twice only when its ring has taken History other numbers
\* since, or MaxNodes other nodes have been heard since its node last was: the
\* filter forgets the least recent first (esp_now_manager.c:66-80, 97-102).
StoredTwiceOnlyIfForgotten ==
    \A i, j \in 1..Len(heard) :
        /\ i < j /\ SameFrame(i, j)
        /\ heard[i].stored /\ heard[i].filtered /\ heard[j].stored /\ heard[j].filtered
        => \/ Cardinality(Pushes(i, j)) >= History
           \/ \E k \in (i + 1)..(j - 1) : Cardinality(HeardSince(i, k)) >= MaxNodes
=============================================================================
