----------------------------- MODULE RecordLog -----------------------------
(***************************************************************************)
(* What the record store promises its users, with the file-system calls,   *)
(* the lock and the half-finished calls hidden: a log of units that grows  *)
(* at its end by units of the newest record, loses a prefix to the caller  *)
(* of a pop, and is wiped as a whole when the partition is full or a       *)
(* server has taken an upload.  Anything else that befalls it is the work  *)
(* of a call that fails at that moment or has failed in the pop under way, *)
(* or of a reset.                                                          *)
(***************************************************************************)
EXTENDS Integers, Sequences

CONSTANT PurgeAt

\* A piece of a record.
Unit == [id : Nat, part : Nat]

VARIABLES
    log,       \* the units held, oldest first
    taken,     \* the units the last pop handed out
    again,     \* they are in the log as well: the pop could not delete them
    used,      \* units on the partition, those of the log and others
    answered,  \* a server has taken an upload and the store may be cleared
    failures,  \* calls that have failed, and resets, so far
    hurt       \* a call of the pop under way has failed

batch == <<taken, again>>
vars == <<log, batch, used, answered, failures, hurt>>

Before(u, v) == u.id < v.id \/ (u.id = v.id /\ u.part < v.part)
Increasing(s) == \A i, j \in 1..Len(s) : i < j => Before(s[i], s[j])
AllBefore(s, t) == \A i \in 1..Len(s), j \in 1..Len(t) : Before(s[i], t[j])

Fails == failures' > failures

Init == log = <<>> /\ taken = <<>> /\ again = FALSE

\* One more unit of the newest record.
Grow ==
    LET u == log'[Len(log) + 1]
    IN  /\ Len(log') = Len(log) + 1 /\ u \in Unit
        /\ log' = Append(log, u)
        /\ AllBefore(log, <<u>>) /\ AllBefore(taken, <<u>>)
        /\ UNCHANGED batch

\* A pop takes the first n units, and leaves the rest.
Take(n) ==
    /\ ~hurt
    /\ taken' = SubSeq(log, 1, n) /\ again' = FALSE
    /\ log' = SubSeq(log, n + 1, Len(log))

\* A pop that fails half way unnoticed: what it leaves ends at unit m.
TakeAndLose(n, m) ==
    /\ hurt
    /\ taken' = SubSeq(log, 1, n) /\ again' = FALSE
    /\ log' = SubSeq(log, n + 1, m)

\* A pop that hands out the first n units and cannot delete them.
TakeAndKeep(n) ==
    /\ Fails
    /\ taken' = SubSeq(log, 1, n) /\ again' = TRUE
    /\ UNCHANGED log

\* Purge or clear, or the file that was to replace the log cannot be put in its place.
Wipe ==
    /\ used >= PurgeAt \/ answered \/ Fails
    /\ log' = <<>>
    /\ again' = FALSE /\ UNCHANGED taken

\* The batch has been dealt with.
Forget == taken' = <<>> /\ again' = FALSE /\ UNCHANGED log

\* A reset: what the pop handed out was in RAM, what is being put in place may be lost.
Reset ==
    /\ Fails
    /\ log' \in {log, <<>>}
    /\ taken' = <<>> /\ again' = FALSE

\* A call fails to no effect, or something goes on elsewhere.
Elsewhere == UNCHANGED <<log, batch>>

Next ==
    \/ Grow
    \/ \E n \in 1..Len(log) :
          \/ Take(n) \/ TakeAndKeep(n)
          \/ \E m \in n..Len(log) : TakeAndLose(n, m)
    \/ Wipe \/ Forget \/ Reset \/ Elsewhere

Spec == Init /\ [][Next]_vars

\* The log is in the order of writing, without repetition, and everything handed out was
\* written before everything still held; or it is still there, all of it, at the front.
InOrder ==
    /\ Increasing(log)
    /\ IF again THEN Len(taken) <= Len(log) /\ SubSeq(log, 1, Len(taken)) = taken
                ELSE AllBefore(taken, log)
============================================================================
