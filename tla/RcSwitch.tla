------------------------------ MODULE RcSwitch ------------------------------
(***************************************************************************)
(* Decoding a capture of the RF receiver (parse_rcswitch of rf_receiver.c).*)
(*                                                                         *)
(* A capture is the sequence of levels with their durations, the latter as *)
(* is_duration sorts them: 1, 3 or 31 times RCSWITCH_T_US, or 0 for none   *)
(* of these.  The driver counts it in pairs, and parse_rcswitch takes that *)
(* count for the number of levels: it looks at the first half only.        *)
(***************************************************************************)
EXTENDS Naturals, Sequences, FiniteSetsExt

CONSTANT Bits   \* of a code, 24

ASSUME RcSwitchAssumption == Bits \in Nat \ {0}

Level == [high : BOOLEAN, width : {0, 1, 3, 31}]

Pair(a, b) == << [high |-> TRUE, width |-> a], [high |-> FALSE, width |-> b] >>

IsSync(c, i) == SubSeq(c, i, i + 1) = Pair(1, 31)

\* Mutant: short and long are swapped.
BitAtInverted(c, i) ==
    CASE c[i].width = 3 /\ c[i + 1].width = 1 -> 0
      [] c[i].width = 1 /\ c[i + 1].width = 3 -> 1
      [] OTHER -> 2

\* The bit that starts at level i, 2 if there is none.
BitAt(c, i) ==
    CASE c[i].width = 1 /\ c[i + 1].width = 3 -> 0
      [] c[i].width = 3 /\ c[i + 1].width = 1 -> 1
      [] OTHER -> 2

\* The bits that start at level first, read as a number.
Code(c, first) ==
    LET value[k \in 0..Bits] == IF k = 0 THEN 0
                                ELSE 2 * value[k - 1] + BitAt(c, first + 2 * (k - 1))
    IN  value[Bits]

\* parse_rcswitch: the code after the first sync, 0 if there is none.
Parse(c) ==
    LET count == Len(c) \div 2
        syncs == {i \in 1..count - 2 * Bits : IsSync(c, i)}
        first == Min(syncs) + 2
    IN  IF \/ syncs = {}
           \/ first + 2 * Bits - 1 > count
           \/ \E k \in 1..Bits : BitAt(c, first + 2 * (k - 1)) = 2
        THEN 0
        ELSE Code(c, first)

\* What a transmitter sends for a code: its bits, the highest first, and a sync.
Burst(code) ==
    LET bit(k) == (code \div 2 ^ (Bits - k)) % 2
        level(i) == LET k == (i + 1) \div 2 IN
                    IF k > Bits THEN Pair(1, 31)[2 - (i % 2)]
                    ELSE IF bit(k) = 1 THEN Pair(3, 1)[2 - (i % 2)]
                    ELSE Pair(1, 3)[2 - (i % 2)]
    IN  [i \in 1..2 * Bits + 2 |-> level(i)]

\* The bursts of the codes g, one after the other.
Bursts(g) ==
    LET levels == 2 * Bits + 2
    IN  [i \in 1..Len(g) * levels |-> Burst(g[((i - 1) \div levels) + 1])[((i - 1) % levels) + 1]]
=============================================================================
