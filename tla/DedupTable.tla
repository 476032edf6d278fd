----------------------------- MODULE DedupTable -----------------------------
(***************************************************************************)
(* The cluster head's duplicate filter (dedup_should_store,                *)
(* main/esp_now_manager.c): a table with one entry per sending node, in it *)
(* a ring of the sequence numbers accepted last; the least recently heard  *)
(* node makes room for a new one.                                          *)
(*                                                                         *)
(* Operators only: Dedup runs the table by itself, Delivery runs it as the *)
(* receiving end of a member's drain.                                      *)
(***************************************************************************)
EXTENDS Integers, Sequences

CONSTANTS
    MaxNodes,   \* DEDUP_MAX_NODES
    History     \* DEDUP_HISTORY_PER_NODE

ASSUME TableAssumption == MaxNodes \in Nat \ {0} /\ History \in Nat \ {0}

\* An entry: seqs is the valid part of recent_seqs, next is seq_idx.
NewEntry(n) == [node |-> n, seqs |-> <<>>, next |-> 0, seen |-> 0]

EmptyTable == <<>>

Known(table, n) == \E i \in 1..Len(table) : table[i].node = n

\* Mutant: the first slot is evicted, whoever was heard last (the code's "BUG 8").
FirstSlot(table) == 1

\* The first of the entries heard longest ago.
LeastRecent(table) ==
    CHOOSE i \in 1..Len(table) :
        /\ \A j \in 1..Len(table) : table[i].seen <= table[j].seen
        /\ \A j \in 1..(i - 1) : table[i].seen < table[j].seen

\* Where node n's entry is, or is put.
Slot(table, n) ==
    IF Known(table, n) THEN CHOOSE i \in 1..Len(table) : table[i].node = n
    ELSE IF Len(table) < MaxNodes THEN Len(table) + 1
    ELSE LeastRecent(table)

\* Mutant: an evicted entry keeps its ring under the new node's name.
EntryInherits(table, n) ==
    IF Known(table, n) THEN table[Slot(table, n)]
    ELSE IF Len(table) < MaxNodes THEN NewEntry(n)
    ELSE [table[Slot(table, n)] EXCEPT !.node = n]
EntryOf(table, n) ==
    IF Known(table, n) THEN table[Slot(table, n)] ELSE NewEntry(n)

\* Returned TRUE: the sequence number is not in the node's ring.
ShouldStore(table, n, s) ==
    \A i \in 1..Len(EntryOf(table, n).seqs) : EntryOf(table, n).seqs[i] # s

\* Mutant: a full ring takes no more numbers.
FullRingStays(e, s) ==
    IF Len(e.seqs) < History THEN [e EXCEPT !.seqs = Append(@, s), !.next = (@ + 1) % History]
    ELSE e
\* The ring with s in it, in place of the oldest when it is full.
Remembered(e, s) ==
    [e EXCEPT !.seqs = IF Len(@) < History THEN Append(@, s)
                       ELSE [@ EXCEPT ![e.next + 1] = s],
              !.next = (@ + 1) % History]

\* Mutant: the number enters the ring even when it is there already.
AlwaysRemembered(table, n, s, now) ==
    LET f == Remembered([EntryOf(table, n) EXCEPT !.seen = now], s)
        k == Slot(table, n)
    IN  IF k > Len(table) THEN Append(table, f) ELSE [table EXCEPT ![k] = f]
\* The table after the frame (n, s) at time now.
After(table, n, s, now) ==
    LET e == [EntryOf(table, n) EXCEPT !.seen = now]
        f == IF ShouldStore(table, n, s) THEN Remembered(e, s) ELSE e
        k == Slot(table, n)
    IN  IF k > Len(table) THEN Append(table, f) ELSE [table EXCEPT ![k] = f]
=============================================================================
