-------------------------- MODULE MslgStoreProofs --------------------------
(***************************************************************************)
(* What TLC checks of MslgStore on a small partition, proved for every     *)
(* number of tasks, batch and buffer size, capacity, and number of         *)
(* records, faults and resets.                                             *)
(***************************************************************************)
EXTENDS MslgStore, SequenceTheorems, TLAPS

LEMMA DrainerIsTask == Drainer \in Tasks /\ NoTask \notin Tasks
BY TasksAssumption DEF Tasks

LEMMA Slices ==
    /\ <<>> \in Seq(Unit)
    /\ \A s \in Seq(Unit), i \in Nat : i >= 1 => SubSeq(s, i, Len(s)) \in Seq(Unit)
    /\ \A s \in Seq(Unit), i \in Nat : \A j \in 0..Len(s) : i >= 1 => SubSeq(s, i, j) \in Seq(Unit)
    /\ \A s, r \in Seq(Unit) : s \o r \in Seq(Unit)
    /\ \A s \in Seq(Unit), u \in Unit : Append(s, u) \in Seq(Unit)
OBVIOUS

\* Where a step takes the tasks.
LEMMA Moves ==
    ASSUME TypeOK, NEW t \in Tasks, NEW l \in Labels, Goto(t, l)
    PROVE  /\ pc' \in [Tasks -> Labels] /\ pc'[t] = l
           /\ \A s \in Tasks : s # t => pc'[s] = pc[s]
BY DEF TypeOK, Goto

LEMMA PcStep ==
    ASSUME TypeOK, [Next]_vars
    PROVE  pc' \in [Tasks -> Labels]
<1> USE DrainerIsTask, Moves DEF Labels, LockedLabels, WriteLabels, PopLabels
<1> pc \in [Tasks -> Labels]
  BY DEF TypeOK
<1>1. ASSUME NEW t \in Tasks, WriteLock(t) PROVE pc' \in [Tasks -> Labels]
  BY <1>1 DEF WriteLock, Lock, inWrite, unchangedByWriter
<1>2. ASSUME NEW t \in Tasks, WritePurge(t) PROVE pc' \in [Tasks -> Labels]
  BY <1>2 DEF WritePurge, Purged, NotPurged, inWrite, unchangedByWriter
<1>3. ASSUME NEW t \in Tasks, WriteOpen(t) PROVE pc' \in [Tasks -> Labels]
  BY <1>3 DEF WriteOpen, inWrite, unchangedByWriter
<1>4. ASSUME NEW t \in Tasks, WriteOpenFails(t) PROVE pc' \in [Tasks -> Labels]
  BY <1>4 DEF WriteOpenFails, Unlock, unchangedByWriter
<1>5. ASSUME NEW t \in Tasks, WriteUnit(t) PROVE pc' \in [Tasks -> Labels]
  BY <1>5 DEF WriteUnit, inWrite, unchangedByWriter
<1>6. ASSUME NEW t \in Tasks, WriteFails(t) PROVE pc' \in [Tasks -> Labels]
  BY <1>6 DEF WriteFails, Unlock, inWrite, unchangedByWriter
<1>7. ASSUME NEW t \in Tasks, WriteGivesUp(t) PROVE pc' \in [Tasks -> Labels]
  BY <1>7 DEF WriteGivesUp, Unlock, unchangedByWriter
<1>8. ASSUME NEW t \in Tasks, WriteRetry(t) PROVE pc' \in [Tasks -> Labels]
  BY <1>8 DEF WriteRetry, Purged, inWrite, unchangedByWriter
<1>9. ASSUME NEW t \in Tasks, WriteCount(t) PROVE pc' \in [Tasks -> Labels]
  BY <1>9 DEF WriteCount, Unlock, unchangedByWriter
<1>10. CASE PopLock
  BY <1>10 DEF PopLock, Lock, unchangedByPop, inPop
<1>11. CASE PopChunk
  BY <1>11 DEF PopChunk, unchangedByPop, inPop
<1>12. CASE PopNothing
  BY <1>12 DEF PopNothing, Unlock, unchangedByPop, inPop
<1>13. CASE PopStop
  BY <1>13 DEF PopStop, unchangedByPop, inPop
<1>14. CASE PopPeek
  BY <1>14 DEF PopPeek, unchangedByPop, inPop
<1>15. CASE PopCopyTail
  BY <1>15 DEF PopCopyTail, unchangedByPop, inPop
<1>16. CASE PopCopyFallsShort
  BY <1>16 DEF PopCopyFallsShort, unchangedByPop, inPop
<1>17. CASE PopCopyFails
  BY <1>17 DEF PopCopyFails, Unlock, unchangedByPop, inPop
<1>18. CASE PopUnlink
  BY <1>18 DEF PopUnlink, unchangedByPop, inPop
<1>19. CASE PopRename
  BY <1>19 DEF PopRename, unchangedByPop, inPop
<1>20. CASE PopCount
  BY <1>20 DEF PopCount, Unlock, unchangedByPop, inPop
<1>21. CASE DrainEnds
  BY <1>21 DEF DrainEnds, unchangedByPop, inPop
<1>22. ASSUME NEW t \in Tasks, ScanLock(t) PROVE pc' \in [Tasks -> Labels]
  BY <1>22 DEF ScanLock, Lock, unchangedByScan, inPop
<1>23. ASSUME NEW t \in Tasks, ScanStep(t) PROVE pc' \in [Tasks -> Labels]
  BY <1>23 DEF ScanStep, unchangedByScan, inPop
<1>24. ASSUME NEW t \in Tasks, ScanEnds(t) PROVE pc' \in [Tasks -> Labels]
  BY <1>24 DEF ScanEnds, Unlock, unchangedByScan, inPop
<1>25. CASE ReadOpen
  BY <1>25 DEF ReadOpen, unchangedByUpload
<1>26. CASE ReadChunk
  BY <1>26 DEF ReadChunk, unchangedByUpload
<1>27. CASE ReadStop
  BY <1>27 DEF ReadStop, UploadEnds, unchangedByUpload
<1>28. CASE PostFails
  BY <1>28 DEF PostFails, UploadEnds, unchangedByUpload
<1>29. CASE ClearLock
  BY <1>29 DEF ClearLock, unchangedByUpload
<1>30. CASE ClearUnlink
  BY <1>30 DEF ClearUnlink, unchangedByUpload
<1>31. CASE ClearCount
  BY <1>31 DEF ClearCount, UploadEnds, unchangedByUpload
<1>32. CASE Crash
  BY <1>32 DEF Crash, Reset
<1>33. CASE UNCHANGED vars
  BY <1>33 DEF vars, volatile
<1> QED
  BY <1>1, <1>2, <1>3, <1>4, <1>5, <1>6, <1>7, <1>8, <1>9, <1>10, <1>11, <1>12, <1>13, <1>14,
        <1>15, <1>16, <1>17, <1>18, <1>19, <1>20, <1>21, <1>22, <1>23, <1>24, <1>25, <1>26,
        <1>27, <1>28, <1>29, <1>30, <1>31, <1>32, <1>33 DEF Next, Write, Pop, Scan, Upload

\* A task that writes has taken a record number, and while it appends the record is not
\* yet complete.
Numbered ==
    /\ (\E t \in Tasks : pc[t] \in WriteLabels) => nextId >= 2
    /\ \A t \in Tasks : pc[t] \in {"w_append", "w_again"} => pen < RecLen

\* The parts of TypeOK.
SeqTypes == file \in Seq(Unit) /\ temp \in Seq(Unit) /\ hand \in Seq(Unit) /\ up \in Seq(Unit)
NumTypes ==
    /\ holder \in Tasks \union {NoTask}
    /\ count \in Int /\ count >= -1 /\ pen \in 0..RecLen
    /\ pos \in Nat /\ pos >= 1 /\ popped \in Nat /\ rpos \in Nat /\ rpos >= 1
    /\ nextId \in Nat /\ nextId >= 1 /\ faults \in Nat /\ crashes \in Nat
BoolTypes == {named, fresh, cut, kept, torn} \subseteq BOOLEAN

LEMMA TypeParts == TypeOK <=> SeqTypes /\ NumTypes /\ BoolTypes /\ pc \in [Tasks -> Labels]
BY DEF TypeOK, SeqTypes, NumTypes, BoolTypes

\* The cursor rests at the head of the file except in a pop or a scan, and a pop
\* that goes on to phase 2 has moved it, though not beyond the end.
CursorLabels == PopLabels \union {"s_scan"}
Replacing == {"p_peek", "p_tail", "p_last", "p_unlink"}
Positions ==
    /\ (\A t \in Tasks : pc[t] \notin CursorLabels) => pos = 1 /\ popped = 0
    /\ pc[Drainer] = "p_read" => pos <= Len(file) + 1 /\ (popped > 0 => pos > 1)
    /\ pc[Drainer] \in Replacing => pos > 1 /\ pos <= Len(file) + 1

LEMMA TypeInit == Init => TypeOK /\ Numbered /\ LockHeld /\ Positions
<1> SUFFICES ASSUME Init PROVE TypeOK /\ Numbered /\ LockHeld /\ Positions
  OBVIOUS
<1>1. TypeOK
  <2>1. SeqTypes
    BY Slices DEF Init, SeqTypes
  <2>2. NumTypes
    BY DEF Init, NumTypes, RecLen
  <2>3. pc \in [Tasks -> Labels] /\ BoolTypes
    BY DrainerIsTask DEF Init, Labels, BoolTypes
  <2> QED BY <2>1, <2>2, <2>3, TypeParts
<1>2. Numbered /\ LockHeld /\ Positions
  BY DrainerIsTask DEF Init, Numbered, LockHeld, LockedLabels, WriteLabels, PopLabels, CursorLabels,
     Replacing, Positions
<1> QED BY <1>1, <1>2

\* What the pop's copy may leave in temp.mslg.
LEMMA PiecesType == TypeOK => Remainder \in Seq(Unit) /\ Pieces \subseteq Seq(Unit)
<1> SUFFICES ASSUME TypeOK PROVE Remainder \in Seq(Unit) /\ Pieces \subseteq Seq(Unit)
  OBVIOUS
<1>1. Remainder \in Seq(Unit)
  BY Slices DEF TypeOK, Remainder
<1>2. \A n \in 0..Len(Remainder) - 1 : SubSeq(Remainder, 1, n) \in Seq(Unit)
  BY <1>1, Slices
<1> QED BY <1>1, <1>2 DEF Pieces

LEMMA TypeStep ==
    ASSUME TypeOK, Numbered, Positions, [Next]_vars
    PROVE  TypeOK'
<1> USE DrainerIsTask DEF SeqTypes, NumTypes, BoolTypes, Fault, Unlinked, UnlinkFails, RecLen
<1>0. pc' \in [Tasks -> Labels] /\ SeqTypes /\ NumTypes /\ BoolTypes
  BY PcStep, TypeParts
<1>1. ASSUME NEW t \in Tasks, WriteLock(t) PROVE TypeOK'
  <2>1. SeqTypes'
    BY <1>1, <1>0, Slices DEF WriteLock, Lock, inWrite, unchangedByWriter
  <2>2. NumTypes'
    BY <1>1, <1>0 DEF WriteLock, Lock, inWrite, unchangedByWriter
  <2>3. BoolTypes'
    BY <1>1, <1>0 DEF WriteLock, Lock, inWrite, unchangedByWriter
  <2> QED BY <1>0, <2>1, <2>2, <2>3 DEF TypeOK
<1>2. ASSUME NEW t \in Tasks, WritePurge(t) PROVE TypeOK'
  <2>1. SeqTypes'
    BY <1>2, <1>0, Slices DEF WritePurge, Purged, NotPurged, inWrite, unchangedByWriter
  <2>2. NumTypes'
    BY <1>2, <1>0 DEF WritePurge, Purged, NotPurged, inWrite, unchangedByWriter
  <2>3. BoolTypes'
    BY <1>2, <1>0 DEF WritePurge, Purged, NotPurged, inWrite, unchangedByWriter
  <2> QED BY <1>0, <2>1, <2>2, <2>3 DEF TypeOK
<1>3. ASSUME NEW t \in Tasks, WriteOpen(t) PROVE TypeOK'
  <2>1. SeqTypes'
    BY <1>3, <1>0, Slices DEF WriteOpen, inWrite, unchangedByWriter
  <2>2. NumTypes'
    BY <1>3, <1>0 DEF WriteOpen, inWrite, unchangedByWriter
  <2>3. BoolTypes'
    BY <1>3, <1>0 DEF WriteOpen, inWrite, unchangedByWriter
  <2> QED BY <1>0, <2>1, <2>2, <2>3 DEF TypeOK
<1>4. ASSUME NEW t \in Tasks, WriteOpenFails(t) PROVE TypeOK'
  <2>1. SeqTypes'
    BY <1>4, <1>0, Slices DEF WriteOpenFails, Unlock, unchangedByWriter
  <2>2. NumTypes'
    BY <1>4, <1>0 DEF WriteOpenFails, Unlock, unchangedByWriter
  <2>3. BoolTypes'
    BY <1>4, <1>0 DEF WriteOpenFails, Unlock, unchangedByWriter
  <2> QED BY <1>0, <2>1, <2>2, <2>3 DEF TypeOK
<1>5. ASSUME NEW t \in Tasks, WriteUnit(t) PROVE TypeOK'
  <2>1. SeqTypes'
    <3>1. [id |-> Record, part |-> pen + 1] \in Unit
      BY <1>5, <1>0 DEF WriteUnit, Unit, Record, Numbered, WriteLabels
    <3>2. file' \in Seq(Unit)
      BY <1>5, <1>0, <3>1, Slices DEF WriteUnit
    <3> QED BY <1>5, <1>0, <3>2 DEF WriteUnit, inWrite, unchangedByWriter
  <2>2. NumTypes'
    BY <1>5, <1>0 DEF WriteUnit, inWrite, unchangedByWriter, Numbered
  <2>3. BoolTypes'
    BY <1>5, <1>0 DEF WriteUnit, inWrite, unchangedByWriter
  <2> QED BY <1>0, <2>1, <2>2, <2>3 DEF TypeOK
<1>6. ASSUME NEW t \in Tasks, WriteFails(t) PROVE TypeOK'
  <2>1. SeqTypes'
    BY <1>6, <1>0, Slices DEF WriteFails, Unlock, inWrite, unchangedByWriter
  <2>2. NumTypes'
    BY <1>6, <1>0 DEF WriteFails, Unlock, inWrite, unchangedByWriter
  <2>3. BoolTypes'
    BY <1>6, <1>0 DEF WriteFails, Unlock, inWrite, unchangedByWriter
  <2> QED BY <1>0, <2>1, <2>2, <2>3 DEF TypeOK
<1>7. ASSUME NEW t \in Tasks, WriteGivesUp(t) PROVE TypeOK'
  <2>1. SeqTypes'
    BY <1>7, <1>0, Slices DEF WriteGivesUp, Unlock, unchangedByWriter
  <2>2. NumTypes'
    BY <1>7, <1>0 DEF WriteGivesUp, Unlock, unchangedByWriter
  <2>3. BoolTypes'
    BY <1>7, <1>0 DEF WriteGivesUp, Unlock, unchangedByWriter
  <2> QED BY <1>0, <2>1, <2>2, <2>3 DEF TypeOK
<1>8. ASSUME NEW t \in Tasks, WriteRetry(t) PROVE TypeOK'
  <2>1. SeqTypes'
    BY <1>8, <1>0, Slices DEF WriteRetry, Purged, inWrite, unchangedByWriter
  <2>2. NumTypes'
    BY <1>8, <1>0 DEF WriteRetry, Purged, inWrite, unchangedByWriter
  <2>3. BoolTypes'
    BY <1>8, <1>0 DEF WriteRetry, Purged, inWrite, unchangedByWriter
  <2> QED BY <1>0, <2>1, <2>2, <2>3 DEF TypeOK
<1>9. ASSUME NEW t \in Tasks, WriteCount(t) PROVE TypeOK'
  <2>1. SeqTypes'
    BY <1>9, <1>0, Slices DEF WriteCount, Unlock, unchangedByWriter
  <2>2. NumTypes'
    BY <1>9, <1>0 DEF WriteCount, Unlock, unchangedByWriter
  <2>3. BoolTypes'
    BY <1>9, <1>0 DEF WriteCount, Unlock, unchangedByWriter
  <2> QED BY <1>0, <2>1, <2>2, <2>3 DEF TypeOK
<1>10. CASE PopLock
  <2>1. SeqTypes'
    BY <1>10, <1>0, Slices DEF PopLock, Lock, unchangedByPop, inPop
  <2>2. NumTypes'
    BY <1>10, <1>0 DEF PopLock, Lock, unchangedByPop, inPop
  <2>3. BoolTypes'
    BY <1>10, <1>0 DEF PopLock, Lock, unchangedByPop, inPop
  <2> QED BY <1>0, <2>1, <2>2, <2>3 DEF TypeOK
<1>11. CASE PopChunk
  <2>1. SeqTypes'
    BY <1>11, <1>0, Slices DEF PopChunk, unchangedByPop, inPop
  <2>2. NumTypes'
    BY <1>11, <1>0 DEF PopChunk, unchangedByPop, inPop
  <2>3. BoolTypes'
    BY <1>11, <1>0 DEF PopChunk, unchangedByPop, inPop
  <2> QED BY <1>0, <2>1, <2>2, <2>3 DEF TypeOK
<1>12. CASE PopNothing
  <2>1. SeqTypes'
    BY <1>12, <1>0, Slices DEF PopNothing, Unlock, unchangedByPop, inPop, StopsAt
  <2>2. NumTypes'
    BY <1>12, <1>0 DEF PopNothing, Unlock, unchangedByPop, inPop, StopsAt
  <2>3. BoolTypes'
    BY <1>12, <1>0 DEF PopNothing, Unlock, unchangedByPop, inPop
  <2> QED BY <1>0, <2>1, <2>2, <2>3 DEF TypeOK
<1>13. CASE PopStop
  <2>1. SeqTypes'
    BY <1>13, <1>0, Slices DEF PopStop, unchangedByPop, inPop, StopsAt
  <2>2. NumTypes'
    BY <1>13, <1>0 DEF PopStop, unchangedByPop, inPop, StopsAt
  <2>3. BoolTypes'
    BY <1>13, <1>0 DEF PopStop, unchangedByPop, inPop
  <2> QED BY <1>0, <2>1, <2>2, <2>3 DEF TypeOK
<1>14. CASE PopPeek
  <2>1. SeqTypes'
    BY <1>14, <1>0, Slices DEF PopPeek, unchangedByPop, inPop
  <2>2. NumTypes'
    BY <1>14, <1>0 DEF PopPeek, unchangedByPop, inPop
  <2>3. BoolTypes'
    BY <1>14, <1>0 DEF PopPeek, unchangedByPop, inPop
  <2> QED BY <1>0, <2>1, <2>2, <2>3 DEF TypeOK
<1>15. CASE PopCopyTail
  <2>1. SeqTypes'
    BY <1>15, <1>0, Slices, PiecesType DEF PopCopyTail, unchangedByPop, inPop
  <2>2. NumTypes'
    BY <1>15, <1>0 DEF PopCopyTail, unchangedByPop, inPop
  <2>3. BoolTypes'
    BY <1>15, <1>0 DEF PopCopyTail, unchangedByPop, inPop
  <2> QED BY <1>0, <2>1, <2>2, <2>3 DEF TypeOK
<1>16. CASE PopCopyFallsShort
  <2>1. SeqTypes'
    BY <1>16, <1>0, Slices, PiecesType DEF PopCopyFallsShort, unchangedByPop, inPop
  <2>2. NumTypes'
    BY <1>16, <1>0 DEF PopCopyFallsShort, unchangedByPop, inPop
  <2>3. BoolTypes'
    BY <1>16, <1>0 DEF PopCopyFallsShort, unchangedByPop, inPop
  <2> QED BY <1>0, <2>1, <2>2, <2>3 DEF TypeOK
<1>17. CASE PopCopyFails
  <2>1. SeqTypes'
    BY <1>17, <1>0, Slices, PiecesType DEF PopCopyFails, Unlock, unchangedByPop, inPop
  <2>2. NumTypes'
    BY <1>17, <1>0 DEF PopCopyFails, Unlock, unchangedByPop, inPop
  <2>3. BoolTypes'
    BY <1>17, <1>0 DEF PopCopyFails, Unlock, unchangedByPop, inPop
  <2> QED BY <1>0, <2>1, <2>2, <2>3 DEF TypeOK
<1>18. CASE PopUnlink
  <2>1. SeqTypes'
    <3>1. hand' \in Seq(Unit)
      BY <1>18, <1>0, Slices DEF PopUnlink, Taken, Positions, Replacing
    <3> QED BY <1>18, <1>0, <3>1, Slices DEF PopUnlink, unchangedByPop, inPop
  <2>2. NumTypes'
    BY <1>18, <1>0 DEF PopUnlink, unchangedByPop, inPop, Taken, Positions, Replacing
  <2>3. BoolTypes'
    BY <1>18, <1>0 DEF PopUnlink, unchangedByPop, inPop
  <2> QED BY <1>0, <2>1, <2>2, <2>3 DEF TypeOK
<1>19. CASE PopRename
  <2>1. SeqTypes'
    BY <1>19, <1>0, Slices DEF PopRename, unchangedByPop, inPop
  <2>2. NumTypes'
    BY <1>19, <1>0 DEF PopRename, unchangedByPop, inPop
  <2>3. BoolTypes'
    BY <1>19, <1>0 DEF PopRename, unchangedByPop, inPop
  <2> QED BY <1>0, <2>1, <2>2, <2>3 DEF TypeOK
<1>20. CASE PopCount
  <2>1. SeqTypes'
    BY <1>20, <1>0, Slices DEF PopCount, Unlock, unchangedByPop, inPop
  <2>2. NumTypes'
    BY <1>20, <1>0 DEF PopCount, Unlock, unchangedByPop, inPop
  <2>3. BoolTypes'
    BY <1>20, <1>0 DEF PopCount, Unlock, unchangedByPop, inPop
  <2> QED BY <1>0, <2>1, <2>2, <2>3 DEF TypeOK
<1>21. CASE DrainEnds
  <2>1. SeqTypes'
    BY <1>21, <1>0, Slices DEF DrainEnds, unchangedByPop, inPop
  <2>2. NumTypes'
    BY <1>21, <1>0 DEF DrainEnds, unchangedByPop, inPop
  <2>3. BoolTypes'
    BY <1>21, <1>0 DEF DrainEnds, unchangedByPop, inPop
  <2> QED BY <1>0, <2>1, <2>2, <2>3 DEF TypeOK
<1>22. ASSUME NEW t \in Tasks, ScanLock(t) PROVE TypeOK'
  <2>1. SeqTypes'
    BY <1>22, <1>0, Slices DEF ScanLock, Lock, unchangedByScan, inPop
  <2>2. NumTypes'
    BY <1>22, <1>0 DEF ScanLock, Lock, unchangedByScan, inPop
  <2>3. BoolTypes'
    BY <1>22, <1>0 DEF ScanLock, Lock, unchangedByScan, inPop
  <2> QED BY <1>0, <2>1, <2>2, <2>3 DEF TypeOK
<1>23. ASSUME NEW t \in Tasks, ScanStep(t) PROVE TypeOK'
  <2>1. SeqTypes'
    BY <1>23, <1>0, Slices DEF ScanStep, unchangedByScan, inPop
  <2>2. NumTypes'
    BY <1>23, <1>0 DEF ScanStep, unchangedByScan, inPop
  <2>3. BoolTypes'
    BY <1>23, <1>0 DEF ScanStep, unchangedByScan, inPop
  <2> QED BY <1>0, <2>1, <2>2, <2>3 DEF TypeOK
<1>24. ASSUME NEW t \in Tasks, ScanEnds(t) PROVE TypeOK'
  <2>1. SeqTypes'
    BY <1>24, <1>0, Slices DEF ScanEnds, Unlock, unchangedByScan, inPop
  <2>2. NumTypes'
    BY <1>24, <1>0 DEF ScanEnds, Unlock, unchangedByScan, inPop
  <2>3. BoolTypes'
    BY <1>24, <1>0 DEF ScanEnds, Unlock, unchangedByScan, inPop
  <2> QED BY <1>0, <2>1, <2>2, <2>3 DEF TypeOK
<1>25. CASE ReadOpen
  <2>1. SeqTypes'
    BY <1>25, <1>0, Slices DEF ReadOpen, unchangedByUpload
  <2>2. NumTypes'
    BY <1>25, <1>0 DEF ReadOpen, unchangedByUpload
  <2>3. BoolTypes'
    BY <1>25, <1>0 DEF ReadOpen, unchangedByUpload
  <2> QED BY <1>0, <2>1, <2>2, <2>3 DEF TypeOK
<1>26. CASE ReadChunk
  <2>1. SeqTypes'
    <3>1. rpos + 2 \in Nat /\ rpos + 2 \in 0..Len(file) /\ rpos + 3 \in 0..Len(file)
      BY <1>26, <1>0 DEF ReadChunk, ChunkAt, HeaderAt, PayloadAt
    <3>2. SubSeq(file, rpos + 2, rpos + 2) \in Seq(Unit) /\ SubSeq(file, rpos + 2,
        rpos + 3) \in Seq(Unit)
      BY <1>0, <3>1
    <3>3. up' \in Seq(Unit)
      BY <1>26, <1>0, <3>2, Slices DEF ReadChunk
    <3> QED BY <1>26, <1>0, <3>3 DEF ReadChunk, unchangedByUpload
  <2>2. NumTypes'
    BY <1>26, <1>0 DEF ReadChunk, unchangedByUpload
  <2>3. BoolTypes'
    BY <1>26, <1>0 DEF ReadChunk, unchangedByUpload
  <2> QED BY <1>0, <2>1, <2>2, <2>3 DEF TypeOK
<1>27. CASE ReadStop
  <2>1. SeqTypes'
    BY <1>27, <1>0, Slices DEF ReadStop, UploadEnds, unchangedByUpload
  <2>2. NumTypes'
    BY <1>27, <1>0 DEF ReadStop, UploadEnds, unchangedByUpload
  <2>3. BoolTypes'
    BY <1>27, <1>0 DEF ReadStop, UploadEnds, unchangedByUpload
  <2> QED BY <1>0, <2>1, <2>2, <2>3 DEF TypeOK
<1>28. CASE PostFails
  <2>1. SeqTypes'
    BY <1>28, <1>0, Slices DEF PostFails, UploadEnds, unchangedByUpload
  <2>2. NumTypes'
    BY <1>28, <1>0 DEF PostFails, UploadEnds, unchangedByUpload
  <2>3. BoolTypes'
    BY <1>28, <1>0 DEF PostFails, UploadEnds, unchangedByUpload
  <2> QED BY <1>0, <2>1, <2>2, <2>3 DEF TypeOK
<1>29. CASE ClearLock
  <2>1. SeqTypes'
    BY <1>29, <1>0, Slices DEF ClearLock, unchangedByUpload
  <2>2. NumTypes'
    BY <1>29, <1>0 DEF ClearLock, unchangedByUpload
  <2>3. BoolTypes'
    BY <1>29, <1>0 DEF ClearLock, unchangedByUpload
  <2> QED BY <1>0, <2>1, <2>2, <2>3 DEF TypeOK
<1>30. CASE ClearUnlink
  <2>1. SeqTypes'
    BY <1>30, <1>0, Slices DEF ClearUnlink, unchangedByUpload
  <2>2. NumTypes'
    BY <1>30, <1>0 DEF ClearUnlink, unchangedByUpload
  <2>3. BoolTypes'
    BY <1>30, <1>0 DEF ClearUnlink, unchangedByUpload
  <2> QED BY <1>0, <2>1, <2>2, <2>3 DEF TypeOK
<1>31. CASE ClearCount
  <2>1. SeqTypes'
    BY <1>31, <1>0, Slices DEF ClearCount, UploadEnds, unchangedByUpload
  <2>2. NumTypes'
    BY <1>31, <1>0 DEF ClearCount, UploadEnds, unchangedByUpload
  <2>3. BoolTypes'
    BY <1>31, <1>0 DEF ClearCount, UploadEnds, unchangedByUpload
  <2> QED BY <1>0, <2>1, <2>2, <2>3 DEF TypeOK
<1>32. CASE Crash
  <2>1. SeqTypes'
    BY <1>32, <1>0, Slices DEF Crash, Reset
  <2>2. NumTypes'
    BY <1>32, <1>0 DEF Crash, Reset
  <2>3. BoolTypes'
    BY <1>32, <1>0 DEF Crash, Reset
  <2> QED BY <1>0, <2>1, <2>2, <2>3 DEF TypeOK
<1>33. CASE UNCHANGED vars
  BY <1>33 DEF TypeOK, vars, volatile
<1> QED
  BY <1>1, <1>2, <1>3, <1>4, <1>5, <1>6, <1>7, <1>8, <1>9, <1>10, <1>11, <1>12, <1>13, <1>14,
        <1>15, <1>16, <1>17, <1>18, <1>19, <1>20, <1>21, <1>22, <1>23, <1>24, <1>25, <1>26,
        <1>27, <1>28, <1>29, <1>30, <1>31, <1>32, <1>33 DEF Next, Write, Pop, Scan, Upload

LEMMA LockStep ==
    ASSUME TypeOK, LockHeld, [Next]_vars
    PROVE  LockHeld'
<1> USE DrainerIsTask DEF TypeOK, LockHeld, LockedLabels, WriteLabels, PopLabels, Goto
<1>1. ASSUME NEW t \in Tasks, WriteLock(t) PROVE LockHeld'
  BY <1>1 DEF WriteLock, Lock, inWrite, unchangedByWriter
<1>2. ASSUME NEW t \in Tasks, WritePurge(t) PROVE LockHeld'
  BY <1>2 DEF WritePurge, Purged, NotPurged, inWrite, unchangedByWriter
<1>3. ASSUME NEW t \in Tasks, WriteOpen(t) PROVE LockHeld'
  BY <1>3 DEF WriteOpen, inWrite, unchangedByWriter
<1>4. ASSUME NEW t \in Tasks, WriteOpenFails(t) PROVE LockHeld'
  BY <1>4 DEF WriteOpenFails, Unlock, unchangedByWriter
<1>5. ASSUME NEW t \in Tasks, WriteUnit(t) PROVE LockHeld'
  BY <1>5 DEF WriteUnit, inWrite, unchangedByWriter
<1>6. ASSUME NEW t \in Tasks, WriteFails(t) PROVE LockHeld'
  BY <1>6 DEF WriteFails, Unlock, inWrite, unchangedByWriter
<1>7. ASSUME NEW t \in Tasks, WriteGivesUp(t) PROVE LockHeld'
  BY <1>7 DEF WriteGivesUp, Unlock, unchangedByWriter
<1>8. ASSUME NEW t \in Tasks, WriteRetry(t) PROVE LockHeld'
  BY <1>8 DEF WriteRetry, Purged, inWrite, unchangedByWriter
<1>9. ASSUME NEW t \in Tasks, WriteCount(t) PROVE LockHeld'
  BY <1>9 DEF WriteCount, Unlock, unchangedByWriter
<1>10. CASE PopLock
  BY <1>10 DEF PopLock, Lock, unchangedByPop, inPop
<1>11. CASE PopChunk
  BY <1>11 DEF PopChunk, unchangedByPop, inPop
<1>12. CASE PopNothing
  BY <1>12 DEF PopNothing, Unlock, unchangedByPop, inPop
<1>13. CASE PopStop
  BY <1>13 DEF PopStop, unchangedByPop, inPop
<1>14. CASE PopPeek
  BY <1>14 DEF PopPeek, unchangedByPop, inPop
<1>15. CASE PopCopyTail
  BY <1>15 DEF PopCopyTail, unchangedByPop, inPop
<1>16. CASE PopCopyFallsShort
  BY <1>16 DEF PopCopyFallsShort, unchangedByPop, inPop
<1>17. CASE PopCopyFails
  BY <1>17 DEF PopCopyFails, Unlock, unchangedByPop, inPop
<1>18. CASE PopUnlink
  BY <1>18 DEF PopUnlink, unchangedByPop, inPop
<1>19. CASE PopRename
  BY <1>19 DEF PopRename, unchangedByPop, inPop
<1>20. CASE PopCount
  BY <1>20 DEF PopCount, Unlock, unchangedByPop, inPop
<1>21. CASE DrainEnds
  BY <1>21 DEF DrainEnds, unchangedByPop, inPop
<1>22. ASSUME NEW t \in Tasks, ScanLock(t) PROVE LockHeld'
  BY <1>22 DEF ScanLock, Lock, unchangedByScan, inPop
<1>23. ASSUME NEW t \in Tasks, ScanStep(t) PROVE LockHeld'
  BY <1>23 DEF ScanStep, unchangedByScan, inPop
<1>24. ASSUME NEW t \in Tasks, ScanEnds(t) PROVE LockHeld'
  BY <1>24 DEF ScanEnds, Unlock, unchangedByScan, inPop
<1>25. CASE ReadOpen
  BY <1>25 DEF ReadOpen, unchangedByUpload
<1>26. CASE ReadChunk
  BY <1>26 DEF ReadChunk, unchangedByUpload
<1>27. CASE ReadStop
  BY <1>27 DEF ReadStop, UploadEnds, unchangedByUpload
<1>28. CASE PostFails
  BY <1>28 DEF PostFails, UploadEnds, unchangedByUpload
<1>29. CASE ClearLock
  BY <1>29 DEF ClearLock, unchangedByUpload
<1>30. CASE ClearUnlink
  BY <1>30 DEF ClearUnlink, unchangedByUpload
<1>31. CASE ClearCount
  BY <1>31 DEF ClearCount, UploadEnds, unchangedByUpload
<1>32. CASE Crash
  BY <1>32 DEF Crash, Reset
<1>33. CASE UNCHANGED vars
  BY <1>33 DEF vars, volatile
<1> QED
  BY <1>1, <1>2, <1>3, <1>4, <1>5, <1>6, <1>7, <1>8, <1>9, <1>10, <1>11, <1>12, <1>13, <1>14,
        <1>15, <1>16, <1>17, <1>18, <1>19, <1>20, <1>21, <1>22, <1>23, <1>24, <1>25, <1>26,
        <1>27, <1>28, <1>29, <1>30, <1>31, <1>32, <1>33 DEF Next, Write, Pop, Scan, Upload

LEMMA NumberedStep ==
    ASSUME TypeOK, LockHeld, Numbered, [Next]_vars
    PROVE  Numbered'
<1> USE DrainerIsTask DEF TypeOK, LockHeld, LockedLabels, Numbered, WriteLabels, PopLabels, Goto, RecLen
<1>1. ASSUME NEW t \in Tasks, WriteLock(t) PROVE Numbered'
  BY <1>1 DEF WriteLock, Lock, inWrite, unchangedByWriter
<1>2. ASSUME NEW t \in Tasks, WritePurge(t) PROVE Numbered'
  BY <1>2 DEF WritePurge, Purged, NotPurged, inWrite, unchangedByWriter
<1>3. ASSUME NEW t \in Tasks, WriteOpen(t) PROVE Numbered'
  BY <1>3 DEF WriteOpen, inWrite, unchangedByWriter
<1>4. ASSUME NEW t \in Tasks, WriteOpenFails(t) PROVE Numbered'
  BY <1>4 DEF WriteOpenFails, Unlock, unchangedByWriter
<1>5. ASSUME NEW t \in Tasks, WriteUnit(t) PROVE Numbered'
  <2>1. holder = t /\ pc[t] \in {"w_append", "w_again"} /\ pen' = pen + 1 /\ UNCHANGED nextId
    BY <1>5 DEF WriteUnit
  <2>2. \A s \in Tasks : s # t => pc[s] \notin LockedLabels /\ pc'[s] = pc[s]
    BY <1>5, <2>1 DEF WriteUnit
  <2>3. pc'[t] \in {"w_append", "w_again"} => pen + 1 < RecLen
    BY <1>5, <2>1 DEF WriteUnit
  <2>4. nextId >= 2
    BY <2>1
  <2> QED BY <2>1, <2>2, <2>3, <2>4
<1>6. ASSUME NEW t \in Tasks, WriteFails(t) PROVE Numbered'
  BY <1>6 DEF WriteFails, Unlock, inWrite, unchangedByWriter
<1>7. ASSUME NEW t \in Tasks, WriteGivesUp(t) PROVE Numbered'
  BY <1>7 DEF WriteGivesUp, Unlock, unchangedByWriter
<1>8. ASSUME NEW t \in Tasks, WriteRetry(t) PROVE Numbered'
  BY <1>8 DEF WriteRetry, Purged, inWrite, unchangedByWriter
<1>9. ASSUME NEW t \in Tasks, WriteCount(t) PROVE Numbered'
  BY <1>9 DEF WriteCount, Unlock, unchangedByWriter
<1>10. CASE PopLock
  BY <1>10 DEF PopLock, Lock, unchangedByPop, inPop
<1>11. CASE PopChunk
  BY <1>11 DEF PopChunk, unchangedByPop, inPop
<1>12. CASE PopNothing
  BY <1>12 DEF PopNothing, Unlock, unchangedByPop, inPop
<1>13. CASE PopStop
  BY <1>13 DEF PopStop, unchangedByPop, inPop
<1>14. CASE PopPeek
  BY <1>14 DEF PopPeek, unchangedByPop, inPop
<1>15. CASE PopCopyTail
  BY <1>15 DEF PopCopyTail, unchangedByPop, inPop
<1>16. CASE PopCopyFallsShort
  BY <1>16 DEF PopCopyFallsShort, unchangedByPop, inPop
<1>17. CASE PopCopyFails
  BY <1>17 DEF PopCopyFails, Unlock, unchangedByPop, inPop
<1>18. CASE PopUnlink
  BY <1>18 DEF PopUnlink, unchangedByPop, inPop
<1>19. CASE PopRename
  BY <1>19 DEF PopRename, unchangedByPop, inPop
<1>20. CASE PopCount
  BY <1>20 DEF PopCount, Unlock, unchangedByPop, inPop
<1>21. CASE DrainEnds
  BY <1>21 DEF DrainEnds, unchangedByPop, inPop
<1>22. ASSUME NEW t \in Tasks, ScanLock(t) PROVE Numbered'
  BY <1>22 DEF ScanLock, Lock, unchangedByScan, inPop
<1>23. ASSUME NEW t \in Tasks, ScanStep(t) PROVE Numbered'
  BY <1>23 DEF ScanStep, unchangedByScan, inPop
<1>24. ASSUME NEW t \in Tasks, ScanEnds(t) PROVE Numbered'
  BY <1>24 DEF ScanEnds, Unlock, unchangedByScan, inPop
<1>25. CASE ReadOpen
  BY <1>25 DEF ReadOpen, unchangedByUpload
<1>26. CASE ReadChunk
  BY <1>26 DEF ReadChunk, unchangedByUpload
<1>27. CASE ReadStop
  BY <1>27 DEF ReadStop, UploadEnds, unchangedByUpload
<1>28. CASE PostFails
  BY <1>28 DEF PostFails, UploadEnds, unchangedByUpload
<1>29. CASE ClearLock
  BY <1>29 DEF ClearLock, unchangedByUpload
<1>30. CASE ClearUnlink
  BY <1>30 DEF ClearUnlink, unchangedByUpload
<1>31. CASE ClearCount
  BY <1>31 DEF ClearCount, UploadEnds, unchangedByUpload
<1>32. CASE Crash
  BY <1>32 DEF Crash, Reset
<1>33. CASE UNCHANGED vars
  BY <1>33 DEF vars, volatile
<1> QED
  BY <1>1, <1>2, <1>3, <1>4, <1>5, <1>6, <1>7, <1>8, <1>9, <1>10, <1>11, <1>12, <1>13, <1>14,
        <1>15, <1>16, <1>17, <1>18, <1>19, <1>20, <1>21, <1>22, <1>23, <1>24, <1>25, <1>26,
        <1>27, <1>28, <1>29, <1>30, <1>31, <1>32, <1>33 DEF Next, Write, Pop, Scan, Upload

LEMMA PositionStep ==
    ASSUME TypeOK, LockHeld, Positions, [Next]_vars
    PROVE  Positions'
<1> USE DrainerIsTask DEF TypeOK, LockHeld, LockedLabels, WriteLabels, PopLabels, CursorLabels, Replacing,
                          Positions, Goto
<1>1. ASSUME NEW t \in Tasks, WriteLock(t) PROVE Positions'
  BY <1>1 DEF WriteLock, Lock, inWrite, unchangedByWriter
<1>2. ASSUME NEW t \in Tasks, WritePurge(t) PROVE Positions'
  BY <1>2 DEF WritePurge, Purged, NotPurged, inWrite, unchangedByWriter, Unlinked, UnlinkFails
<1>3. ASSUME NEW t \in Tasks, WriteOpen(t) PROVE Positions'
  BY <1>3 DEF WriteOpen, inWrite, unchangedByWriter
<1>4. ASSUME NEW t \in Tasks, WriteOpenFails(t) PROVE Positions'
  BY <1>4 DEF WriteOpenFails, Unlock, unchangedByWriter
<1>5. ASSUME NEW t \in Tasks, WriteUnit(t) PROVE Positions'
  BY <1>5 DEF WriteUnit, inWrite, unchangedByWriter
<1>6. ASSUME NEW t \in Tasks, WriteFails(t) PROVE Positions'
  BY <1>6 DEF WriteFails, Unlock, inWrite, unchangedByWriter
<1>7. ASSUME NEW t \in Tasks, WriteGivesUp(t) PROVE Positions'
  BY <1>7 DEF WriteGivesUp, Unlock, unchangedByWriter
<1>8. ASSUME NEW t \in Tasks, WriteRetry(t) PROVE Positions'
  BY <1>8 DEF WriteRetry, Purged, inWrite, unchangedByWriter, Unlinked
<1>9. ASSUME NEW t \in Tasks, WriteCount(t) PROVE Positions'
  BY <1>9 DEF WriteCount, Unlock, unchangedByWriter
<1>10. CASE PopLock
  BY <1>10 DEF PopLock, Lock, unchangedByPop, inPop
<1>11. CASE PopChunk
  BY <1>11 DEF PopChunk, unchangedByPop, inPop, RecLen, ChunkAt, HeaderAt, PayloadAt
<1>12. CASE PopNothing
  BY <1>12 DEF PopNothing, Unlock, unchangedByPop, inPop
<1>13. CASE PopStop
  BY <1>13 DEF PopStop, unchangedByPop, inPop
<1>14. CASE PopPeek
  BY <1>14 DEF PopPeek, unchangedByPop, inPop
<1>15. CASE PopCopyTail
  BY <1>15 DEF PopCopyTail, unchangedByPop, inPop
<1>16. CASE PopCopyFallsShort
  BY <1>16 DEF PopCopyFallsShort, unchangedByPop, inPop
<1>17. CASE PopCopyFails
  BY <1>17 DEF PopCopyFails, Unlock, unchangedByPop, inPop
<1>18. CASE PopUnlink
  BY <1>18 DEF PopUnlink, unchangedByPop, inPop, Unlinked, UnlinkFails
<1>19. CASE PopRename
  BY <1>19 DEF PopRename, unchangedByPop, inPop
<1>20. CASE PopCount
  BY <1>20 DEF PopCount, Unlock, unchangedByPop, inPop
<1>21. CASE DrainEnds
  BY <1>21 DEF DrainEnds, unchangedByPop, inPop
<1>22. ASSUME NEW t \in Tasks, ScanLock(t) PROVE Positions'
  BY <1>22 DEF ScanLock, Lock, unchangedByScan, inPop
<1>23. ASSUME NEW t \in Tasks, ScanStep(t) PROVE Positions'
  BY <1>23 DEF ScanStep, unchangedByScan, inPop, RecLen
<1>24. ASSUME NEW t \in Tasks, ScanEnds(t) PROVE Positions'
  BY <1>24 DEF ScanEnds, Unlock, unchangedByScan, inPop
<1>25. CASE ReadOpen
  BY <1>25 DEF ReadOpen, unchangedByUpload
<1>26. CASE ReadChunk
  BY <1>26 DEF ReadChunk, unchangedByUpload
<1>27. CASE ReadStop
  BY <1>27 DEF ReadStop, UploadEnds, unchangedByUpload
<1>28. CASE PostFails
  BY <1>28 DEF PostFails, UploadEnds, unchangedByUpload
<1>29. CASE ClearLock
  BY <1>29 DEF ClearLock, unchangedByUpload
<1>30. CASE ClearUnlink
  BY <1>30 DEF ClearUnlink, unchangedByUpload, Unlinked, UnlinkFails
<1>31. CASE ClearCount
  BY <1>31 DEF ClearCount, UploadEnds, unchangedByUpload
<1>32. CASE Crash
  BY <1>32 DEF Crash, Reset
<1>33. CASE UNCHANGED vars
  BY <1>33 DEF vars, volatile
<1> QED
  BY <1>1, <1>2, <1>3, <1>4, <1>5, <1>6, <1>7, <1>8, <1>9, <1>10, <1>11, <1>12, <1>13, <1>14,
        <1>15, <1>16, <1>17, <1>18, <1>19, <1>20, <1>21, <1>22, <1>23, <1>24, <1>25, <1>26,
        <1>27, <1>28, <1>29, <1>30, <1>31, <1>32, <1>33 DEF Next, Write, Pop, Scan, Upload

\* The copy has lost something only between its end and the replacement, and what the
\* drainer holds is in the file as well only if the file is there.
Copying ==
    /\ cut => pc[Drainer] \in {"p_last", "p_unlink"}
    /\ pc[Drainer] = "p_last" /\ ~cut => Remainder = <<>>
    /\ pc[Drainer] = "p_rename" => (kept <=> file # <<>>)

LEMMA CopyingStep ==
    ASSUME TypeOK, LockHeld, Positions, Copying, [Next]_vars
    PROVE  Copying'
<1> USE DrainerIsTask DEF TypeOK, LockHeld, LockedLabels, WriteLabels, PopLabels, Copying, Remainder, Goto
<1>1. ASSUME NEW t \in Tasks, WriteLock(t) PROVE Copying'
  BY <1>1 DEF WriteLock, Lock, inWrite, unchangedByWriter
<1>2. ASSUME NEW t \in Tasks, WritePurge(t) PROVE Copying'
  BY <1>2 DEF WritePurge, Purged, NotPurged, inWrite, unchangedByWriter, Unlinked, UnlinkFails
<1>3. ASSUME NEW t \in Tasks, WriteOpen(t) PROVE Copying'
  BY <1>3 DEF WriteOpen, inWrite, unchangedByWriter
<1>4. ASSUME NEW t \in Tasks, WriteOpenFails(t) PROVE Copying'
  BY <1>4 DEF WriteOpenFails, Unlock, unchangedByWriter
<1>5. ASSUME NEW t \in Tasks, WriteUnit(t) PROVE Copying'
  BY <1>5 DEF WriteUnit, inWrite, unchangedByWriter
<1>6. ASSUME NEW t \in Tasks, WriteFails(t) PROVE Copying'
  BY <1>6 DEF WriteFails, Unlock, inWrite, unchangedByWriter
<1>7. ASSUME NEW t \in Tasks, WriteGivesUp(t) PROVE Copying'
  BY <1>7 DEF WriteGivesUp, Unlock, unchangedByWriter
<1>8. ASSUME NEW t \in Tasks, WriteRetry(t) PROVE Copying'
  BY <1>8 DEF WriteRetry, Purged, inWrite, unchangedByWriter, Unlinked, UnlinkFails
<1>9. ASSUME NEW t \in Tasks, WriteCount(t) PROVE Copying'
  BY <1>9 DEF WriteCount, Unlock, unchangedByWriter
<1>10. CASE PopLock
  BY <1>10 DEF PopLock, Lock, unchangedByPop, inPop
<1>11. CASE PopChunk
  BY <1>11 DEF PopChunk, unchangedByPop, inPop
<1>12. CASE PopNothing
  BY <1>12 DEF PopNothing, Unlock, unchangedByPop, inPop
<1>13. CASE PopStop
  BY <1>13 DEF PopStop, unchangedByPop, inPop
<1>14. CASE PopPeek
  BY <1>14 DEF PopPeek, unchangedByPop, inPop
<1>15. CASE PopCopyTail
  BY <1>15 DEF PopCopyTail, unchangedByPop, inPop
<1>16. CASE PopCopyFallsShort
  BY <1>16 DEF PopCopyFallsShort, unchangedByPop, inPop
<1>17. CASE PopCopyFails
  BY <1>17 DEF PopCopyFails, Unlock, unchangedByPop, inPop
<1>18. CASE PopUnlink
  BY <1>18 DEF PopUnlink, unchangedByPop, inPop, Unlinked, UnlinkFails, Positions, Replacing
<1>19. CASE PopRename
  BY <1>19 DEF PopRename, unchangedByPop, inPop
<1>20. CASE PopCount
  BY <1>20 DEF PopCount, Unlock, unchangedByPop, inPop
<1>21. CASE DrainEnds
  BY <1>21 DEF DrainEnds, unchangedByPop, inPop
<1>22. ASSUME NEW t \in Tasks, ScanLock(t) PROVE Copying'
  BY <1>22 DEF ScanLock, Lock, unchangedByScan, inPop
<1>23. ASSUME NEW t \in Tasks, ScanStep(t) PROVE Copying'
  BY <1>23 DEF ScanStep, unchangedByScan, inPop
<1>24. ASSUME NEW t \in Tasks, ScanEnds(t) PROVE Copying'
  BY <1>24 DEF ScanEnds, Unlock, unchangedByScan, inPop
<1>25. CASE ReadOpen
  BY <1>25 DEF ReadOpen, unchangedByUpload
<1>26. CASE ReadChunk
  BY <1>26 DEF ReadChunk, unchangedByUpload
<1>27. CASE ReadStop
  BY <1>27 DEF ReadStop, UploadEnds, unchangedByUpload
<1>28. CASE PostFails
  BY <1>28 DEF PostFails, UploadEnds, unchangedByUpload
<1>29. CASE ClearLock
  BY <1>29 DEF ClearLock, unchangedByUpload
<1>30. CASE ClearUnlink
  BY <1>30 DEF ClearUnlink, unchangedByUpload, Unlinked, UnlinkFails
<1>31. CASE ClearCount
  BY <1>31 DEF ClearCount, UploadEnds, unchangedByUpload
<1>32. CASE Crash
  BY <1>32 DEF Crash, Reset
<1>33. CASE UNCHANGED vars
  BY <1>33 DEF vars, volatile
<1> QED
  BY <1>1, <1>2, <1>3, <1>4, <1>5, <1>6, <1>7, <1>8, <1>9, <1>10, <1>11, <1>12, <1>13, <1>14,
        <1>15, <1>16, <1>17, <1>18, <1>19, <1>20, <1>21, <1>22, <1>23, <1>24, <1>25, <1>26,
        <1>27, <1>28, <1>29, <1>30, <1>31, <1>32, <1>33 DEF Next, Write, Pop, Scan, Upload

LEMMA TailStep ==
    ASSUME TypeOK, LockHeld, Copying, TailIsCurrent, [Next]_vars
    PROVE  TailIsCurrent'
<1> USE DrainerIsTask DEF TypeOK, LockHeld, LockedLabels, WriteLabels, PopLabels, TailIsCurrent, Remainder,
                          Pieces, Goto
<1>1. ASSUME NEW t \in Tasks, WriteLock(t) PROVE TailIsCurrent'
  BY <1>1 DEF WriteLock, Lock, inWrite, unchangedByWriter
<1>2. ASSUME NEW t \in Tasks, WritePurge(t) PROVE TailIsCurrent'
  BY <1>2 DEF WritePurge, Purged, NotPurged, inWrite, unchangedByWriter, Unlinked, UnlinkFails
<1>3. ASSUME NEW t \in Tasks, WriteOpen(t) PROVE TailIsCurrent'
  BY <1>3 DEF WriteOpen, inWrite, unchangedByWriter
<1>4. ASSUME NEW t \in Tasks, WriteOpenFails(t) PROVE TailIsCurrent'
  BY <1>4 DEF WriteOpenFails, Unlock, unchangedByWriter
<1>5. ASSUME NEW t \in Tasks, WriteUnit(t) PROVE TailIsCurrent'
  BY <1>5 DEF WriteUnit, inWrite, unchangedByWriter
<1>6. ASSUME NEW t \in Tasks, WriteFails(t) PROVE TailIsCurrent'
  BY <1>6 DEF WriteFails, Unlock, inWrite, unchangedByWriter
<1>7. ASSUME NEW t \in Tasks, WriteGivesUp(t) PROVE TailIsCurrent'
  BY <1>7 DEF WriteGivesUp, Unlock, unchangedByWriter
<1>8. ASSUME NEW t \in Tasks, WriteRetry(t) PROVE TailIsCurrent'
  BY <1>8 DEF WriteRetry, Purged, inWrite, unchangedByWriter, Unlinked, UnlinkFails
<1>9. ASSUME NEW t \in Tasks, WriteCount(t) PROVE TailIsCurrent'
  BY <1>9 DEF WriteCount, Unlock, unchangedByWriter
<1>10. CASE PopLock
  BY <1>10 DEF PopLock, Lock, unchangedByPop, inPop
<1>11. CASE PopChunk
  BY <1>11 DEF PopChunk, unchangedByPop, inPop
<1>12. CASE PopNothing
  BY <1>12 DEF PopNothing, Unlock, unchangedByPop, inPop
<1>13. CASE PopStop
  BY <1>13 DEF PopStop, unchangedByPop, inPop
<1>14. CASE PopPeek
  BY <1>14 DEF PopPeek, unchangedByPop, inPop
<1>15. CASE PopCopyTail
  BY <1>15 DEF PopCopyTail, unchangedByPop, inPop, Copying
<1>16. CASE PopCopyFallsShort
  BY <1>16 DEF PopCopyFallsShort, unchangedByPop, inPop
<1>17. CASE PopCopyFails
  BY <1>17 DEF PopCopyFails, Unlock, unchangedByPop, inPop
<1>18. CASE PopUnlink
  BY <1>18 DEF PopUnlink, unchangedByPop, inPop, Unlinked, UnlinkFails
<1>19. CASE PopRename
  BY <1>19 DEF PopRename, unchangedByPop, inPop
<1>20. CASE PopCount
  BY <1>20 DEF PopCount, Unlock, unchangedByPop, inPop
<1>21. CASE DrainEnds
  BY <1>21 DEF DrainEnds, unchangedByPop, inPop
<1>22. ASSUME NEW t \in Tasks, ScanLock(t) PROVE TailIsCurrent'
  BY <1>22 DEF ScanLock, Lock, unchangedByScan, inPop
<1>23. ASSUME NEW t \in Tasks, ScanStep(t) PROVE TailIsCurrent'
  BY <1>23 DEF ScanStep, unchangedByScan, inPop
<1>24. ASSUME NEW t \in Tasks, ScanEnds(t) PROVE TailIsCurrent'
  BY <1>24 DEF ScanEnds, Unlock, unchangedByScan, inPop
<1>25. CASE ReadOpen
  BY <1>25 DEF ReadOpen, unchangedByUpload
<1>26. CASE ReadChunk
  BY <1>26 DEF ReadChunk, unchangedByUpload
<1>27. CASE ReadStop
  BY <1>27 DEF ReadStop, UploadEnds, unchangedByUpload
<1>28. CASE PostFails
  BY <1>28 DEF PostFails, UploadEnds, unchangedByUpload
<1>29. CASE ClearLock
  BY <1>29 DEF ClearLock, unchangedByUpload
<1>30. CASE ClearUnlink
  BY <1>30 DEF ClearUnlink, unchangedByUpload, Unlinked, UnlinkFails
<1>31. CASE ClearCount
  BY <1>31 DEF ClearCount, UploadEnds, unchangedByUpload
<1>32. CASE Crash
  BY <1>32 DEF Crash, Reset
<1>33. CASE UNCHANGED vars
  BY <1>33 DEF vars, volatile
<1> QED
  BY <1>1, <1>2, <1>3, <1>4, <1>5, <1>6, <1>7, <1>8, <1>9, <1>10, <1>11, <1>12, <1>13, <1>14,
        <1>15, <1>16, <1>17, <1>18, <1>19, <1>20, <1>21, <1>22, <1>23, <1>24, <1>25, <1>26,
        <1>27, <1>28, <1>29, <1>30, <1>31, <1>32, <1>33 DEF Next, Write, Pop, Scan, Upload

----------------------------------------------------------------------------

\* Record numbers: nothing in the files or in hand is newer than the last number
\* given out, and what a task is about to append is newer than all of it.
IdsBelow(s, n) == \A i \in 1..Len(s) : s[i].id < n
\* The file holds older records, and of the one being written the units before the pen.
UpToPen == \A i \in 1..Len(file) :
              file[i].id < Record \/ (file[i].id = Record /\ file[i].part <= pen)
Ids ==
    /\ IdsBelow(file, nextId) /\ IdsBelow(temp, nextId) /\ IdsBelow(hand, nextId)
    /\ \A t \in Tasks :
          /\ pc[t] \in {"w_purge", "w_open", "w_reopen"} => IdsBelow(file, Record)
          /\ pc[t] \in {"w_append", "w_again"} => UpToPen
          /\ pc[t] \in WriteLabels => IdsBelow(hand, Record)

LEMMA IdsOfPieces ==
    ASSUME NEW s \in Seq(Unit), NEW n \in Nat, IdsBelow(s, n)
    PROVE  \A i \in Nat : \A j \in 0..Len(s) : i >= 1 => IdsBelow(SubSeq(s, i, j), n)
BY DEF IdsBelow, Unit

LEMMA IdsOfNothing == \A n : IdsBelow(<<>>, n)
BY DEF IdsBelow

LEMMA IdsGrow ==
    ASSUME NEW s \in Seq(Unit), NEW m \in Nat, NEW n \in Nat, m <= n, IdsBelow(s, m)
    PROVE  IdsBelow(s, n)
<1>1. \A u \in Unit : u.id \in Nat
  BY DEF Unit
<1>2. \A i \in 1..Len(s) : s[i] \in Unit
  OBVIOUS
<1> QED BY <1>1, <1>2 DEF IdsBelow

LEMMA IdsOfRemainder ==
    ASSUME TypeOK, NEW n \in Nat, IdsBelow(file, n)
    PROVE  IdsBelow(Remainder, n) /\ \A s \in Pieces : IdsBelow(s, n)
<1>1. IdsBelow(Remainder, n)
  <2> SUFFICES ASSUME NEW i \in 1..Len(Remainder) PROVE Remainder[i].id < n
    BY DEF IdsBelow
  <2>1. pos + i - 1 \in 1..Len(file) /\ Remainder[i] = file[pos + i - 1]
    BY DEF TypeOK, Remainder
  <2> QED BY <2>1 DEF IdsBelow
<1>2. Remainder \in Seq(Unit)
  BY PiecesType
<1>3. \A k \in 0..Len(Remainder) - 1 : IdsBelow(SubSeq(Remainder, 1, k), n)
  BY <1>1, <1>2, IdsOfPieces
<1> QED BY <1>1, <1>3 DEF Pieces

LEMMA PenMoves ==
    ASSUME NEW s \in Seq(Unit), NEW r \in Nat, NEW p \in Nat, NEW u \in Unit,
           u.id = r, u.part = p + 1,
           \A i \in 1..Len(s) : s[i].id < r \/ (s[i].id = r /\ s[i].part <= p)
    PROVE  /\ \A i \in 1..Len(Append(s, u)) :
                 \/ Append(s, u)[i].id < r
                 \/ Append(s, u)[i].id = r /\ Append(s, u)[i].part <= p + 1
           /\ IdsBelow(Append(s, u), r + 1)
<1>1. ASSUME NEW i \in 1..Len(s)
      PROVE  s[i].id \in Nat /\ s[i].part \in Nat /\ Append(s, u)[i] = s[i]
  <2>1. s[i] \in Unit
    OBVIOUS
  <2> QED BY <2>1 DEF Unit, RecLen
<1>2. Len(Append(s, u)) = Len(s) + 1 /\ Append(s, u)[Len(s) + 1] = u /\ Len(s) \in Nat
  OBVIOUS
<1> DEFINE v == Append(s, u)
<1> HIDE DEF v
<1>3. \A i \in 1..Len(v) : v[i].id < r \/ (v[i].id = r /\ v[i].part <= p + 1)
  <2> SUFFICES ASSUME NEW i \in 1..Len(v) PROVE v[i].id < r \/ (v[i].id = r /\ v[i].part <= p + 1)
    OBVIOUS
  <2>1. CASE i \in 1..Len(s)
    BY <1>1, <2>1 DEF v
  <2>2. CASE i = Len(s) + 1
    BY <1>2, <2>2 DEF v
  <2> QED BY <1>2, <2>1, <2>2 DEF v
<1>4. IdsBelow(v, r + 1)
  <2>1. \A i \in 1..Len(v) : v[i] \in Unit
    BY DEF v
  <2>2. \A i \in 1..Len(v) : v[i].id \in Nat
    BY <2>1 DEF Unit
  <2> QED BY <1>3, <2>2 DEF IdsBelow
<1> QED BY <1>3, <1>4 DEF v

LEMMA IdsStep ==
    ASSUME TypeOK, LockHeld, Numbered, Positions, Ids, TypeOK', [Next]_vars
    PROVE  Ids'
<1> USE DrainerIsTask DEF TypeOK, LockHeld, LockedLabels, WriteLabels, PopLabels, Ids, Record, UpToPen, Goto
<1>1. ASSUME NEW t \in Tasks, WriteLock(t) PROVE Ids'
  <2>1. /\ holder = NoTask /\ nextId' = nextId + 1 /\ UNCHANGED <<file, temp, hand>>
        /\ pc'[t] = "w_purge" /\ \A s \in Tasks : s # t => pc'[s] = pc[s]
    BY <1>1 DEF WriteLock, Lock, inWrite, unchangedByWriter
  <2>2. \A s \in Tasks : s # t => pc'[s] \notin LockedLabels
    BY <2>1
  <2>3. IdsBelow(file, nextId + 1) /\ IdsBelow(temp, nextId + 1) /\ IdsBelow(hand, nextId + 1)
    BY IdsGrow
  <2> QED BY <2>1, <2>2, <2>3
<1>2. ASSUME NEW t \in Tasks, WritePurge(t) PROVE Ids'
  BY <1>2, IdsOfNothing DEF WritePurge, Purged, NotPurged, inWrite, unchangedByWriter, Unlinked,
        UnlinkFails
<1>3. ASSUME NEW t \in Tasks, WriteOpen(t) PROVE Ids'
  <2>1. /\ pc[t] \in {"w_open", "w_reopen"} /\ UNCHANGED <<file, temp, hand, nextId, holder>>
        /\ holder = t /\ \A s \in Tasks : s # t => pc'[s] = pc[s]
    BY <1>3 DEF WriteOpen, inWrite, unchangedByWriter
  <2>2. \A s \in Tasks : s # t => pc'[s] \notin LockedLabels
    BY <2>1
  <2>3. pc'[t] \in {"w_append", "w_again"}
    BY <1>3 DEF WriteOpen, inWrite, unchangedByWriter
  <2>4. UpToPen'
    BY <2>1 DEF IdsBelow
  <2> QED BY <2>1, <2>2, <2>3, <2>4
<1>4. ASSUME NEW t \in Tasks, WriteOpenFails(t) PROVE Ids'
  BY <1>4 DEF WriteOpenFails, Unlock, unchangedByWriter
<1>5. ASSUME NEW t \in Tasks, WriteUnit(t) PROVE Ids'
  <2>1. /\ holder = t /\ pc[t] \in {"w_append", "w_again"} /\ pen' = pen + 1
        /\ file' = Append(file, [id |-> Record, part |-> pen + 1])
        /\ UNCHANGED <<temp, hand, nextId>> /\ pc'[t] \in {"w_append", "w_again", "w_count"}
        /\ \A s \in Tasks : s # t => pc'[s] = pc[s]
    BY <1>5 DEF WriteUnit, inWrite, unchangedByWriter
  <2>2. \A s \in Tasks : s # t => pc'[s] \notin LockedLabels
    BY <2>1
  <2>3. UpToPen /\ nextId >= 2 /\ IdsBelow(hand, Record)
    BY <2>1 DEF Numbered
  <2>4. [id |-> Record, part |-> pen + 1] \in Unit /\ Record \in Nat /\ Record + 1 = nextId
    BY <2>1, <2>3 DEF Unit, RecLen, Numbered
  <2> DEFINE u == [id |-> Record, part |-> pen + 1]
  <2>5. u \in Unit /\ u.id = Record /\ u.part = pen + 1 /\ file' = Append(file, u)
    BY <2>1, <2>4
  <2>6. file \in Seq(Unit) /\ pen \in Nat
    BY DEF RecLen
  <2> HIDE DEF u
  <2>7. /\ \A i \in 1..Len(file') :
              file'[i].id < Record \/ (file'[i].id = Record /\ file'[i].part <= pen + 1)
        /\ IdsBelow(file', Record + 1)
    <3> HIDE DEF TypeOK, Ids, Record, IdsBelow
    <3>1. \A i \in 1..Len(file) : file[i].id < Record \/ (file[i].id = Record /\ file[i].part <= pen)
      BY <2>3
    <3>2. /\ \A i \in 1..Len(Append(file, u)) :
                \/ Append(file, u)[i].id < Record
                \/ Append(file, u)[i].id = Record /\ Append(file, u)[i].part <= pen + 1
          /\ IdsBelow(Append(file, u), Record + 1)
      BY <2>4, <2>5, <2>6, <3>1, PenMoves
    <3> QED BY <2>5, <3>2
  <2>8. IdsBelow(file', nextId) /\ UpToPen'
    BY <2>1, <2>4, <2>7
  <2> HIDE DEF UpToPen
  <2> QED BY <2>1, <2>2, <2>3, <2>8
<1>6. ASSUME NEW t \in Tasks, WriteFails(t) PROVE Ids'
  BY <1>6 DEF WriteFails, Unlock, inWrite, unchangedByWriter
<1>7. ASSUME NEW t \in Tasks, WriteGivesUp(t) PROVE Ids'
  BY <1>7 DEF WriteGivesUp, Unlock, unchangedByWriter
<1>8. ASSUME NEW t \in Tasks, WriteRetry(t) PROVE Ids'
  <2>1. /\ pc[t] = "w_retry" /\ holder = t /\ nextId' = nextId + 1 /\ UNCHANGED <<temp, hand>>
        /\ pc'[t] = "w_reopen" /\ \A s \in Tasks : s # t => pc'[s] = pc[s]
        /\ file' = <<>> \/ file' = file
    BY <1>8 DEF WriteRetry, Purged, inWrite, unchangedByWriter, Unlinked, UnlinkFails
  <2>2. \A s \in Tasks : s # t => pc'[s] \notin LockedLabels
    BY <2>1
  <2>3. IdsBelow(file', nextId)
    BY <2>1, IdsOfNothing
  <2>4. IdsBelow(temp, nextId + 1) /\ IdsBelow(hand, nextId + 1) /\ IdsBelow(file', nextId + 1)
    BY <2>3, IdsGrow
  <2> QED BY <2>1, <2>2, <2>3, <2>4
<1>9. ASSUME NEW t \in Tasks, WriteCount(t) PROVE Ids'
  BY <1>9 DEF WriteCount, Unlock, unchangedByWriter
<1>10. CASE PopLock
  BY <1>10 DEF PopLock, Lock, unchangedByPop, inPop
<1>11. CASE PopChunk
  BY <1>11 DEF PopChunk, unchangedByPop, inPop
<1>12. CASE PopNothing
  BY <1>12 DEF PopNothing, Unlock, unchangedByPop, inPop
<1>13. CASE PopStop
  BY <1>13 DEF PopStop, unchangedByPop, inPop
<1>14. CASE PopPeek
  BY <1>14 DEF PopPeek, unchangedByPop, inPop
<1>15. CASE PopCopyTail
  BY <1>15, IdsOfRemainder DEF PopCopyTail, unchangedByPop, inPop
<1>16. CASE PopCopyFallsShort
  BY <1>16, IdsOfRemainder DEF PopCopyFallsShort, unchangedByPop, inPop
<1>17. CASE PopCopyFails
  BY <1>17, IdsOfRemainder, IdsOfNothing DEF PopCopyFails, Unlock, unchangedByPop, inPop
<1>18. CASE PopUnlink
  <2>1. pos - 1 \in 0..Len(file)
    BY <1>18 DEF PopUnlink, Positions, Replacing
  <2>2. IdsBelow(hand', nextId) /\ (file' = <<>> \/ file' = file)
    BY <1>18, <2>1, IdsOfPieces DEF PopUnlink, Unlinked, UnlinkFails, Taken
  <2>3. holder = Drainer
    BY <1>18 DEF PopUnlink
  <2>4. \A s \in Tasks : pc'[s] \notin WriteLabels
    BY <1>18, <2>3 DEF PopUnlink
  <2> QED BY <1>18, <2>2, <2>4, IdsOfNothing DEF PopUnlink, unchangedByPop
<1>19. CASE PopRename
  BY <1>19, IdsOfNothing DEF PopRename, unchangedByPop, inPop
<1>20. CASE PopCount
  BY <1>20 DEF PopCount, Unlock, unchangedByPop, inPop
<1>21. CASE DrainEnds
  BY <1>21, IdsOfNothing DEF DrainEnds, unchangedByPop, inPop
<1>22. ASSUME NEW t \in Tasks, ScanLock(t) PROVE Ids'
  BY <1>22 DEF ScanLock, Lock, unchangedByScan, inPop
<1>23. ASSUME NEW t \in Tasks, ScanStep(t) PROVE Ids'
  BY <1>23 DEF ScanStep, unchangedByScan, inPop
<1>24. ASSUME NEW t \in Tasks, ScanEnds(t) PROVE Ids'
  BY <1>24 DEF ScanEnds, Unlock, unchangedByScan, inPop
<1>25. CASE ReadOpen
  BY <1>25 DEF ReadOpen, unchangedByUpload
<1>26. CASE ReadChunk
  BY <1>26 DEF ReadChunk, unchangedByUpload
<1>27. CASE ReadStop
  BY <1>27 DEF ReadStop, UploadEnds, unchangedByUpload
<1>28. CASE PostFails
  BY <1>28 DEF PostFails, UploadEnds, unchangedByUpload
<1>29. CASE ClearLock
  BY <1>29 DEF ClearLock, unchangedByUpload
<1>30. CASE ClearUnlink
  BY <1>30, IdsOfNothing DEF ClearUnlink, unchangedByUpload, Unlinked, UnlinkFails
<1>31. CASE ClearCount
  BY <1>31 DEF ClearCount, UploadEnds, unchangedByUpload
<1>32. CASE Crash
  BY <1>32, IdsOfNothing DEF Crash, Reset
<1>33. CASE UNCHANGED vars
  BY <1>33 DEF vars, volatile
<1> QED
  BY <1>1, <1>2, <1>3, <1>4, <1>5, <1>6, <1>7, <1>8, <1>9, <1>10, <1>11, <1>12, <1>13, <1>14,
        <1>15, <1>16, <1>17, <1>18, <1>19, <1>20, <1>21, <1>22, <1>23, <1>24, <1>25, <1>26,
        <1>27, <1>28, <1>29, <1>30, <1>31, <1>32, <1>33 DEF Next, Write, Pop, Scan, Upload
----------------------------------------------------------------------------

\* The inductive invariant.
IInv ==
    /\ TypeOK /\ Numbered /\ LockHeld
    /\ Positions /\ Copying /\ TailIsCurrent /\ Ids

LEMMA Invariance == Spec => []IInv
<1>1. Init => IInv
  <2> SUFFICES ASSUME Init PROVE IInv
    OBVIOUS
  <2>1. TypeOK /\ Numbered /\ LockHeld /\ Positions
    BY TypeInit
  <2>2. TailIsCurrent /\ Copying
    BY DrainerIsTask DEF Init, TailIsCurrent, Copying
  <2>3. Ids
    BY DrainerIsTask, IdsOfNothing DEF Init, Ids, WriteLabels
  <2> QED BY <2>1, <2>2, <2>3 DEF IInv
<1>2. IInv /\ [Next]_vars => IInv'
  BY TypeStep, NumberedStep, LockStep, PositionStep, CopyingStep, TailStep, IdsStep DEF IInv
<1> QED BY <1>1, <1>2, PTL DEF Spec

\* Whatever the tasks, the file system's failures and resets do, the store's state
\* stays well formed (storage_manager.c).
THEOREM TypeCorrect == Spec => []TypeOK
<1>1. IInv => TypeOK
  BY DEF IInv
<1> QED BY <1>1, Invariance, PTL

\* Only the holder of s_mslg_mutex is inside a locked section, although clear goes on
\* when it could not take it (storage_manager.c:39, 373).
THEOREM LockCorrect == Spec => []LockHeld
<1>1. IInv => LockHeld
  BY DEF IInv
<1> QED BY <1>1, Invariance, PTL

\* The tail that is about to replace data.lz is the file's present tail, or, if a read or
\* a flush has failed in the copy, the beginning of it (storage_manager.c:975-1014).
THEOREM TailCorrect == Spec => []TailIsCurrent
<1>1. IInv => TailIsCurrent
  BY DEF IInv
<1> QED BY <1>1, Invariance, PTL

----------------------------------------------------------------------------
(* What RecordLog promises of any log. *)

LEMMA UnitsOfLog == \A s : s \in Seq(Unit) => s \in Seq(RL!Unit)
<1>1. \A u : u \in Unit => u \in RL!Unit
  BY DEF Unit, RL!Unit, RecLen
<1> SUFFICES ASSUME NEW s \in Seq(Unit) PROVE s \in Seq(RL!Unit)
  OBVIOUS
<1>2. \A i \in 1..Len(s) : s[i] \in RL!Unit
  BY <1>1
<1> QED BY <1>2, IsASeq

\* One step of the log keeps it in order, whatever the log is.
LEMMA StepKeepsOrder ==
    ASSUME Log \in Seq(RL!Unit), hand \in Seq(RL!Unit), RL!InOrder, [RL!Next]_(RL!vars)
    PROVE  RL!InOrder'
<1> USE DEF RL!InOrder
<1>0. ASSUME NEW n \in 1..Len(Log), NEW m \in n..Len(Log),
             hand' = SubSeq(Log, 1, n), kept' = FALSE, Log' = SubSeq(Log, n + 1, m)
      PROVE  RL!InOrder'
  <2>1. Len(hand') = n /\ \A i \in 1..n : hand'[i] = Log[i]
    BY <1>0
  <2>2. Len(Log') = m - n /\ \A i \in 1..m - n : Log'[i] = Log[n + i]
    BY <1>0
  <2>3. RL!Increasing(Log)'
    <3> SUFFICES ASSUME NEW i \in 1..Len(Log'), NEW j \in 1..Len(Log'), i < j
                 PROVE  RL!Before(Log'[i], Log'[j])
      BY DEF RL!Increasing
    <3>1. n + i \in 1..Len(Log) /\ n + j \in 1..Len(Log) /\ n + i < n + j
      BY <2>2
    <3> QED BY <2>2, <3>1 DEF RL!Increasing
  <2>4. RL!AllBefore(hand, Log)'
    <3> SUFFICES ASSUME NEW i \in 1..Len(hand'), NEW j \in 1..Len(Log')
                 PROVE  RL!Before(hand'[i], Log'[j])
      BY DEF RL!AllBefore
    <3>1. i \in 1..Len(Log) /\ n + j \in 1..Len(Log) /\ i < n + j
      BY <2>1, <2>2
    <3> QED BY <2>1, <2>2, <3>1 DEF RL!Increasing
  <2> QED BY <1>0, <2>3, <2>4
<1>1. CASE RL!Grow
  <2> DEFINE u == Log'[Len(Log) + 1]
  <2>1. /\ Len(Log') = Len(Log) + 1 /\ u \in RL!Unit /\ Log' = Append(Log, u)
        /\ RL!AllBefore(Log, <<u>>) /\ RL!AllBefore(hand, <<u>>)
        /\ hand' = hand /\ kept' = kept
    BY <1>1 DEF RL!Grow, RL!batch
  <2> HIDE DEF u
  <2>2. /\ \A i \in 1..Len(Log) : Log'[i] = Log[i] /\ RL!Before(Log[i], u)
        /\ \A i \in 1..Len(hand) : RL!Before(hand[i], u)
        /\ Log'[Len(Log) + 1] = u /\ Len(Log) \in Nat
    BY <2>1 DEF RL!AllBefore
  <2>3. RL!Increasing(Log)'
    <3> SUFFICES ASSUME NEW i \in 1..Len(Log'), NEW j \in 1..Len(Log'), i < j
                 PROVE  RL!Before(Log'[i], Log'[j])
      BY DEF RL!Increasing
    <3>1. i \in 1..Len(Log) /\ (j \in 1..Len(Log) \/ j = Len(Log) + 1)
      BY <2>1, <2>2
    <3> QED BY <2>2, <3>1 DEF RL!Increasing
  <2>4. CASE kept
    <3>1. Len(hand) <= Len(Log) /\ SubSeq(Log, 1, Len(hand)) = hand
      BY <2>4
    <3>2. SubSeq(Log', 1, Len(hand)) = SubSeq(Log, 1, Len(hand))
      BY <2>1, <3>1
    <3> QED BY <2>1, <2>3, <2>4, <3>1, <3>2
  <2>5. CASE ~kept
    <3>1. RL!AllBefore(hand, Log)'
      <4> SUFFICES ASSUME NEW i \in 1..Len(hand), NEW j \in 1..Len(Log')
                   PROVE  RL!Before(hand[i], Log'[j])
        BY <2>1 DEF RL!AllBefore
      <4>1. j \in 1..Len(Log) \/ j = Len(Log) + 1
        BY <2>1, <2>2
      <4> QED BY <2>2, <2>5, <4>1 DEF RL!AllBefore
    <3> QED BY <2>1, <2>3, <2>5, <3>1
  <2> QED BY <2>4, <2>5
<1>2. ASSUME NEW n \in 1..Len(Log), RL!Take(n) PROVE RL!InOrder'
  <2>1. Len(Log) \in n..Len(Log)
    OBVIOUS
  <2> QED BY <1>0, <1>2, <2>1 DEF RL!Take
<1>3. ASSUME NEW n \in 1..Len(Log), NEW m \in n..Len(Log), RL!TakeAndLose(n, m) PROVE RL!InOrder'
  BY <1>0, <1>3 DEF RL!TakeAndLose
<1>4. ASSUME NEW n \in 1..Len(Log), RL!TakeAndKeep(n) PROVE RL!InOrder'
  <2>1. hand' = SubSeq(Log, 1, n) /\ Len(hand') = n /\ kept' = TRUE /\ Log' = Log
    BY <1>4 DEF RL!TakeAndKeep
  <2> QED BY <2>1
<1>5. CASE RL!Wipe
  BY <1>5 DEF RL!Wipe, RL!Increasing, RL!AllBefore
<1>6. CASE RL!Forget
  BY <1>6 DEF RL!Forget, RL!Increasing, RL!AllBefore
<1>7. CASE RL!Reset
  BY <1>7 DEF RL!Reset, RL!Increasing, RL!AllBefore
<1>8. CASE RL!Elsewhere \/ UNCHANGED RL!vars
  BY <1>8 DEF RL!Elsewhere, RL!vars, RL!batch, RL!Increasing, RL!AllBefore
<1> QED BY <1>1, <1>2, <1>3, <1>4, <1>5, <1>6, <1>7, <1>8 DEF RL!Next

----------------------------------------------------------------------------
(* The store implements RecordLog. *)

LEMMA StepOfLog ==
    ASSUME IInv, [Next]_vars
    PROVE  [RL!Next]_(RL!vars)
<1> USE DrainerIsTask DEF IInv, TypeOK
<1>0. ASSUME Log' = Log, hand' = hand, kept' = kept PROVE [RL!Next]_(RL!vars)
  BY <1>0 DEF RL!Next, RL!Elsewhere, RL!batch
<1>1. ASSUME NEW t \in Tasks, WriteLock(t) PROVE [RL!Next]_(RL!vars)
  <2>1. Log' = Log /\ hand' = hand /\ kept' = kept
    BY <1>1 DEF WriteLock, Lock, inWrite, unchangedByWriter, Goto, Log, LockHeld, LockedLabels,
        WriteLabels, PopLabels
  <2> QED BY <1>0, <2>1
<1>2. ASSUME NEW t \in Tasks, WritePurge(t) PROVE [RL!Next]_(RL!vars)
  <2>1. pc[Drainer] # "p_rename" /\ pc'[Drainer] # "p_rename"
    BY <1>2 DEF WritePurge, Goto, LockHeld, LockedLabels, WriteLabels, PopLabels
  <2>2. Log = file /\ Log' = file' /\ hand' = hand
    BY <1>2, <2>1 DEF WritePurge, unchangedByWriter, Log
  <2>3. CASE UNCHANGED <<file, kept>>
    BY <1>0, <2>2, <2>3
  <2>4. CASE Full /\ Unlinked
    <3>1. RL!Wipe
      BY <2>2, <2>4 DEF RL!Wipe, Unlinked, Full
    <3> QED BY <3>1 DEF RL!Next
  <2> QED BY <1>2, <2>3, <2>4 DEF WritePurge, Purged, NotPurged, UnlinkFails
<1>3. ASSUME NEW t \in Tasks, WriteOpen(t) PROVE [RL!Next]_(RL!vars)
  <2>1. Log' = Log /\ hand' = hand /\ kept' = kept
    BY <1>3 DEF WriteOpen, inWrite, unchangedByWriter, Goto, Log, LockHeld, LockedLabels,
        WriteLabels, PopLabels
  <2> QED BY <1>0, <2>1
<1>4. ASSUME NEW t \in Tasks, WriteOpenFails(t) PROVE [RL!Next]_(RL!vars)
  <2>1. Log' = Log /\ hand' = hand /\ kept' = kept
    BY <1>4 DEF WriteOpenFails, Unlock, unchangedByWriter, Goto, Log, LockHeld, LockedLabels,
        WriteLabels, PopLabels
  <2> QED BY <1>0, <2>1
<1>5. ASSUME NEW t \in Tasks, WriteUnit(t) PROVE [RL!Next]_(RL!vars)
  <2> DEFINE u == [id |-> Record, part |-> pen + 1]
  <2>1. /\ pc[t] \in {"w_append", "w_again"} /\ file' = Append(file, u)
        /\ hand' = hand /\ kept' = kept
    BY <1>5 DEF WriteUnit, unchangedByWriter
  <2>2. Log = file /\ Log' = file'
    BY <1>5 DEF WriteUnit, Log, Goto, LockHeld, LockedLabels, WriteLabels, PopLabels
  <2>3. UpToPen /\ IdsBelow(hand, Record) /\ nextId >= 2
    BY <2>1 DEF Ids, Numbered, WriteLabels
  <2>4. u \in RL!Unit /\ u.id = Record /\ u.part = pen + 1 /\ Record \in Nat
    BY <2>3 DEF RL!Unit, Record, RecLen
  <2> HIDE DEF u
  <2>5. RL!AllBefore(file, <<u>>)
    <3> SUFFICES ASSUME NEW i \in 1..Len(file) PROVE RL!Before(file[i], u)
      BY DEF RL!AllBefore
    <3>1. file[i] \in Unit
      OBVIOUS
    <3> QED BY <2>3, <2>4, <3>1 DEF UpToPen, RL!Before, Unit, RecLen
  <2>6. RL!AllBefore(hand, <<u>>)
    <3> SUFFICES ASSUME NEW i \in 1..Len(hand) PROVE RL!Before(hand[i], u)
      BY DEF RL!AllBefore
    <3> QED BY <2>3, <2>4 DEF IdsBelow, RL!Before
  <2>7. Len(file') = Len(file) + 1 /\ file'[Len(file) + 1] = u
    BY <2>1
  <2>8. RL!Grow
    BY <2>1, <2>2, <2>4, <2>5, <2>6, <2>7 DEF RL!Grow, RL!batch
  <2> QED BY <2>8 DEF RL!Next
<1>6. ASSUME NEW t \in Tasks, WriteFails(t) PROVE [RL!Next]_(RL!vars)
  <2>1. Log' = Log /\ hand' = hand /\ kept' = kept
    BY <1>6 DEF WriteFails, Unlock, inWrite, unchangedByWriter, Goto, Log, LockHeld,
        LockedLabels, WriteLabels, PopLabels
  <2> QED BY <1>0, <2>1
<1>7. ASSUME NEW t \in Tasks, WriteGivesUp(t) PROVE [RL!Next]_(RL!vars)
  <2>1. Log' = Log /\ hand' = hand /\ kept' = kept
    BY <1>7 DEF WriteGivesUp, Unlock, unchangedByWriter, Goto, Log, LockHeld, LockedLabels,
        WriteLabels, PopLabels
  <2> QED BY <1>0, <2>1
<1>8. ASSUME NEW t \in Tasks, WriteRetry(t) PROVE [RL!Next]_(RL!vars)
  <2>1. pc[Drainer] # "p_rename" /\ pc'[Drainer] # "p_rename"
    BY <1>8 DEF WriteRetry, Goto, LockHeld, LockedLabels, WriteLabels, PopLabels
  <2>2. Log = file /\ Log' = file' /\ hand' = hand
    BY <1>8, <2>1 DEF WriteRetry, unchangedByWriter, Log
  <2>3. CASE UNCHANGED <<file, kept>>
    BY <1>0, <2>2, <2>3
  <2>4. CASE Full /\ Unlinked
    <3>1. RL!Wipe
      BY <2>2, <2>4 DEF RL!Wipe, Unlinked, Full
    <3> QED BY <3>1 DEF RL!Next
  <2> QED BY <1>8, <2>3, <2>4 DEF WriteRetry, Purged, UnlinkFails
<1>9. ASSUME NEW t \in Tasks, WriteCount(t) PROVE [RL!Next]_(RL!vars)
  <2>1. Log' = Log /\ hand' = hand /\ kept' = kept
    BY <1>9 DEF WriteCount, Unlock, unchangedByWriter, Goto, Log, LockHeld, LockedLabels,
        WriteLabels, PopLabels
  <2> QED BY <1>0, <2>1
<1>10. CASE PopLock
  <2>1. Log' = Log /\ hand' = hand /\ kept' = kept
    BY <1>10 DEF PopLock, Lock, unchangedByPop, inPop, Goto, Log, LockHeld, LockedLabels,
        WriteLabels, PopLabels
  <2> QED BY <1>0, <2>1
<1>11. CASE PopChunk
  <2>1. Log' = Log /\ hand' = hand /\ kept' = kept
    BY <1>11 DEF PopChunk, unchangedByPop, inPop, Goto, Log, LockHeld, LockedLabels, WriteLabels,
        PopLabels
  <2> QED BY <1>0, <2>1
<1>12. CASE PopNothing
  <2>1. Log' = Log /\ hand' = hand /\ kept' = kept
    BY <1>12 DEF PopNothing, Unlock, unchangedByPop, inPop, Goto, Log, LockHeld, LockedLabels,
        WriteLabels, PopLabels
  <2> QED BY <1>0, <2>1
<1>13. CASE PopStop
  <2>1. Log' = Log /\ hand' = hand /\ kept' = kept
    BY <1>13 DEF PopStop, unchangedByPop, inPop, Goto, Log, LockHeld, LockedLabels, WriteLabels,
        PopLabels
  <2> QED BY <1>0, <2>1
<1>14. CASE PopPeek
  <2>1. Log' = Log /\ hand' = hand /\ kept' = kept
    BY <1>14 DEF PopPeek, unchangedByPop, inPop, Goto, Log, LockHeld, LockedLabels, WriteLabels,
        PopLabels
  <2> QED BY <1>0, <2>1
<1>15. CASE PopCopyTail
  <2>1. Log' = Log /\ hand' = hand /\ kept' = kept
    BY <1>15 DEF PopCopyTail, unchangedByPop, inPop, Goto, Log, LockHeld, LockedLabels,
        WriteLabels, PopLabels
  <2> QED BY <1>0, <2>1
<1>16. CASE PopCopyFallsShort
  <2>1. Log' = Log /\ hand' = hand /\ kept' = kept
    BY <1>16 DEF PopCopyFallsShort, unchangedByPop, inPop, Goto, Log, LockHeld, LockedLabels,
        WriteLabels, PopLabels
  <2> QED BY <1>0, <2>1
<1>17. CASE PopCopyFails
  <2>1. Log' = Log /\ hand' = hand /\ kept' = kept
    BY <1>17 DEF PopCopyFails, Unlock, unchangedByPop, inPop, Goto, Log, LockHeld, LockedLabels,
        WriteLabels, PopLabels
  <2> QED BY <1>0, <2>1
<1>18. CASE PopUnlink
  <2> DEFINE n == pos - 1
  <2>1. n \in 1..Len(file) /\ n + 1 = pos
    BY <1>18 DEF PopUnlink, Positions, Replacing
  <2>2. Log = file /\ hand' = SubSeq(file, 1, n)
    BY <1>18 DEF PopUnlink, Log, Taken
  <2>3. CASE UnlinkFails /\ kept' = TRUE
    <3>1. Log' = file /\ faults' + crashes' > faults + crashes
      BY <1>18, <2>1, <2>3 DEF PopUnlink, unchangedByPop, UnlinkFails, Fault, Log
    <3>2. RL!TakeAndKeep(n)
      BY <2>1, <2>2, <2>3, <3>1 DEF RL!TakeAndKeep, RL!Fails
    <3> HIDE DEF n
    <3> QED BY <2>1, <2>2, <3>2 DEF RL!Next
  <2>4. CASE Unlinked
    <3>0. file' = <<>> /\ kept' = FALSE /\ Len(file) \in Nat
      BY <2>4 DEF Unlinked
    <3>1. CASE pc[Drainer] = "p_last"
      <4>1. Log' = <<>>
        BY <1>18, <3>0, <3>1 DEF PopUnlink, Log, Goto
      <4>2. CASE cut
        <5>1. SubSeq(file, n + 1, n) = <<>>
          BY <2>1
        <5>2. RL!TakeAndLose(n, n)
          BY <2>2, <3>0, <4>1, <4>2, <5>1 DEF RL!TakeAndLose
        <5> HIDE DEF n
        <5>3. n \in n..Len(file)
          BY <2>1, <3>0
        <5> QED BY <2>1, <2>2, <5>2, <5>3 DEF RL!Next
      <4>3. CASE ~cut
        <5>1. RL!Take(n)
          BY <2>1, <2>2, <3>0, <3>1, <4>1, <4>3 DEF RL!Take, Copying, Remainder
        <5> HIDE DEF n
        <5> QED BY <2>1, <2>2, <5>1 DEF RL!Next
      <4> QED BY <4>2, <4>3
    <3>2. CASE pc[Drainer] = "p_unlink"
      <4>1. Log' = temp
        BY <1>18, <3>0, <3>2 DEF PopUnlink, Log, Goto, unchangedByPop
      <4>2. CASE cut
        <5>1. PICK k \in 0..Len(Remainder) - 1 : temp = SubSeq(Remainder, 1, k)
          BY <3>2, <4>2 DEF TailIsCurrent, Pieces
        <5>2. Len(Remainder) = Len(file) - n
          BY <2>1 DEF Remainder
        <5>3. SubSeq(Remainder, 1, k) = SubSeq(file, n + 1, n + k)
          BY <2>1, <5>2 DEF Remainder
        <5>4. n + k \in n..Len(file)
          BY <2>1, <3>0, <5>1, <5>2
        <5>5. RL!TakeAndLose(n, n + k)
          BY <2>2, <3>0, <4>1, <4>2, <5>1, <5>3 DEF RL!TakeAndLose
        <5> HIDE DEF n
        <5> QED BY <2>1, <2>2, <5>4, <5>5 DEF RL!Next
      <4>3. CASE ~cut
        <5>1. RL!Take(n)
          BY <2>1, <2>2, <3>0, <3>2, <4>1, <4>3 DEF RL!Take, TailIsCurrent, Remainder
        <5> HIDE DEF n
        <5> QED BY <2>1, <2>2, <5>1 DEF RL!Next
      <4> QED BY <4>2, <4>3
    <3> QED BY <1>18, <3>1, <3>2 DEF PopUnlink
  <2> QED BY <1>18, <2>3, <2>4 DEF PopUnlink
<1>19. CASE PopRename
  <2>1. Log = IF file = <<>> THEN temp ELSE file
    BY <1>19 DEF PopRename, Log
  <2>2. Log' = file' /\ hand' = hand /\ kept' = kept
    BY <1>19 DEF PopRename, Log, Goto
  <2>3. CASE file = <<>> /\ Fault /\ UNCHANGED <<file, temp>>
    <3>1. ~kept /\ faults' + crashes' > faults + crashes
      BY <1>19, <2>3 DEF PopRename, Copying, Fault, unchangedByPop
    <3>2. RL!Wipe
      BY <2>2, <2>3, <3>1 DEF RL!Wipe, RL!Fails
    <3> QED BY <3>2 DEF RL!Next
  <2>4. CASE \/ file = <<>> /\ file' = temp /\ temp' = <<>> /\ UNCHANGED faults
             \/ file # <<>> /\ UNCHANGED <<file, temp, faults>>
    <3>1. Log' = Log
      BY <2>1, <2>2, <2>4
    <3> QED BY <1>0, <2>2, <3>1
  <2> QED BY <1>19, <2>3, <2>4 DEF PopRename
<1>20. CASE PopCount
  <2>1. Log' = Log /\ hand' = hand /\ kept' = kept
    BY <1>20 DEF PopCount, Unlock, unchangedByPop, inPop, Goto, Log, LockHeld, LockedLabels,
        WriteLabels, PopLabels
  <2> QED BY <1>0, <2>1
<1>21. CASE DrainEnds
  <2>1. Log' = Log /\ hand' = <<>> /\ kept' = FALSE
    BY <1>21 DEF DrainEnds, unchangedByPop, inPop, Log
  <2> QED BY <2>1 DEF RL!Next, RL!Forget
<1>22. ASSUME NEW t \in Tasks, ScanLock(t) PROVE [RL!Next]_(RL!vars)
  <2>1. Log' = Log /\ hand' = hand /\ kept' = kept
    BY <1>22 DEF ScanLock, Lock, unchangedByScan, inPop, Goto, Log, LockHeld, LockedLabels,
        WriteLabels, PopLabels
  <2> QED BY <1>0, <2>1
<1>23. ASSUME NEW t \in Tasks, ScanStep(t) PROVE [RL!Next]_(RL!vars)
  <2>1. Log' = Log /\ hand' = hand /\ kept' = kept
    BY <1>23 DEF ScanStep, unchangedByScan, inPop, Goto, Log, LockHeld, LockedLabels,
        WriteLabels, PopLabels
  <2> QED BY <1>0, <2>1
<1>24. ASSUME NEW t \in Tasks, ScanEnds(t) PROVE [RL!Next]_(RL!vars)
  <2>1. Log' = Log /\ hand' = hand /\ kept' = kept
    BY <1>24 DEF ScanEnds, Unlock, unchangedByScan, inPop, Goto, Log, LockHeld, LockedLabels,
        WriteLabels, PopLabels
  <2> QED BY <1>0, <2>1
<1>25. CASE ReadOpen
  <2>1. Log' = Log /\ hand' = hand /\ kept' = kept
    BY <1>25 DEF ReadOpen, unchangedByUpload, Goto, Log, LockHeld, LockedLabels, WriteLabels,
        PopLabels
  <2> QED BY <1>0, <2>1
<1>26. CASE ReadChunk
  <2>1. Log' = Log /\ hand' = hand /\ kept' = kept
    BY <1>26 DEF ReadChunk, unchangedByUpload, Goto, Log, LockHeld, LockedLabels, WriteLabels,
        PopLabels
  <2> QED BY <1>0, <2>1
<1>27. CASE ReadStop
  <2>1. Log' = Log /\ hand' = hand /\ kept' = kept
    BY <1>27 DEF ReadStop, UploadEnds, unchangedByUpload, Goto, Log, LockHeld, LockedLabels,
        WriteLabels, PopLabels
  <2> QED BY <1>0, <2>1
<1>28. CASE PostFails
  <2>1. Log' = Log /\ hand' = hand /\ kept' = kept
    BY <1>28 DEF PostFails, UploadEnds, unchangedByUpload, Goto, Log, LockHeld, LockedLabels,
        WriteLabels, PopLabels
  <2> QED BY <1>0, <2>1
<1>29. CASE ClearLock
  <2>1. Log' = Log /\ hand' = hand /\ kept' = kept
    BY <1>29 DEF ClearLock, unchangedByUpload, Goto, Log, LockHeld, LockedLabels, WriteLabels,
        PopLabels
  <2> QED BY <1>0, <2>1
<1>30. CASE ClearUnlink
  <2>1. Log = file /\ Log' = file' /\ hand' = hand
    BY <1>30 DEF ClearUnlink, unchangedByUpload, Log, Goto
  <2>2. CASE Unlinked
    <3>1. RL!Wipe
      BY <1>30, <2>1, <2>2 DEF RL!Wipe, Unlinked, ClearUnlink
    <3> QED BY <3>1 DEF RL!Next
  <2>3. CASE UnlinkFails /\ UNCHANGED kept
    BY <1>0, <2>1, <2>3 DEF UnlinkFails
  <2> QED BY <1>30, <2>2, <2>3 DEF ClearUnlink
<1>31. CASE ClearCount
  <2>1. Log' = Log /\ hand' = hand /\ kept' = kept
    BY <1>31 DEF ClearCount, UploadEnds, unchangedByUpload, Goto, Log, LockHeld, LockedLabels,
        WriteLabels, PopLabels
  <2> QED BY <1>0, <2>1
<1>32. CASE Crash
  <2>1. hand' = <<>> /\ kept' = FALSE /\ Log' = file /\ faults' + crashes' > faults + crashes
    BY <1>32 DEF Crash, Reset, Log
  <2>2. Log = file \/ file = <<>>
    BY DEF Log
  <2> QED BY <2>1, <2>2 DEF RL!Next, RL!Reset, RL!Fails
<1>33. CASE UNCHANGED vars
  BY <1>0, <1>33 DEF vars, volatile, Log
<1> QED
  BY <1>1, <1>2, <1>3, <1>4, <1>5, <1>6, <1>7, <1>8, <1>9, <1>10, <1>11, <1>12, <1>13, <1>14,
        <1>15, <1>16, <1>17, <1>18, <1>19, <1>20, <1>21, <1>22, <1>23, <1>24, <1>25, <1>26,
        <1>27, <1>28, <1>29, <1>30, <1>31, <1>32, <1>33 DEF Next, Write, Pop, Scan, Upload

\* The store is a record log: every step of the tasks, every failing call and every reset
\* appends a unit, hands out a prefix, wipes a log that is full or uploaded, or does the
\* damage that RecordLog allows to a call that fails (storage_manager.c).
THEOREM StoreImplementsRecordLog == Spec => ImplementsRecordLog
<1>1. Init => RL!Init
  BY DrainerIsTask DEF Init, RL!Init, Log
<1>2. IInv /\ [Next]_vars => [RL!Next]_(RL!vars)
  BY StepOfLog
<1> QED BY <1>1, <1>2, Invariance, PTL DEF Spec, ImplementsRecordLog, RL!Spec

\* Records leave the store in the order they were stored, and those handed out are gone
\* from it unless the file could not be deleted, and then they are its beginning
\* (storage_manager.c:907, 1013).
THEOREM OrderCorrect == Spec => []StoredInOrder
<1>1. Init => StoredInOrder
  BY DrainerIsTask DEF Init, StoredInOrder, RL!InOrder, RL!Increasing, RL!AllBefore, Log
<1>2. IInv /\ StoredInOrder /\ [Next]_vars => StoredInOrder'
  <2> SUFFICES ASSUME IInv, StoredInOrder, [Next]_vars PROVE StoredInOrder'
    OBVIOUS
  <2>1. file \in Seq(Unit) /\ temp \in Seq(Unit) /\ hand \in Seq(Unit)
    BY DEF IInv, TypeOK
  <2>2. Log \in Seq(RL!Unit) /\ hand \in Seq(RL!Unit)
    BY <2>1, UnitsOfLog DEF Log
  <2> QED BY <2>2, StepOfLog, StepKeepsOrder DEF StoredInOrder
<1> QED BY <1>1, <1>2, Invariance, PTL DEF Spec

----------------------------------------------------------------------------
(* The cached count. *)

\* Whole records only, or whole records and the beginning of one.
Parts(s) == \A i \in 1..Len(s) : s[i].part = ((i - 1) % RecLen) + 1
Whole(s) == Len(s) % RecLen = 0 /\ Parts(s)
Holds(s, n) == Len(s) = RecLen * n

\* The handle of a pop or a scan is at the start of a record.
AtStart == pos = RecLen * popped + 1 /\ pos <= Len(file) + 1

\* The file has changed and the count has not yet, or differently.
Behind ==
    \/ \E t \in Tasks : pc[t] \in {"w_append", "w_count", "p_rename", "p_count"}
    \/ pc[Drainer] = "x_count"

\* What the cached count says of the files while a call is under way, and that the
\* drain and the clear are what the lock says they are.
Counted ==
    /\ Parts(file) /\ Whole(temp) /\ ~cut
    /\ (\A t \in Tasks : pc[t] # "w_append") => Whole(file)
    /\ count >= 0 /\ ~Behind => Holds(file, count)
    /\ \A t \in Tasks :
          /\ pc[t] \notin {"w_retry", "w_reopen", "w_again"}
          /\ pc[t] \in {"p_read", "s_scan"} \union Replacing => AtStart
          /\ pc[t] = "w_append" => named /\ Len(file) % RecLen = pen
          /\ pc[t] = "w_append" /\ count >= 0 => Len(file) = RecLen * count + pen
          /\ pc[t] = "w_count" /\ count >= 0 => Holds(file, count + 1)
    /\ pc[Drainer] \in PopLabels => count >= 0
    /\ pc[Drainer] = "p_rename" => file = <<>> /\ count >= popped /\ Holds(temp, count - popped)
    /\ pc[Drainer] = "p_count" => count >= popped /\ Holds(file, count - popped)
    /\ pc[Drainer] \in {"x_unlink", "x_count"} => holder = Drainer
    /\ pc[Drainer] = "x_count" => file = <<>>

CountInv == faults = 0 /\ ~torn => Counted

LEMMA NothingIsWhole == Whole(<<>>) /\ Parts(<<>>) /\ Holds(<<>>, 0)
BY DEF Whole, Parts, Holds, RecLen

\* One more unit of a record.
LEMMA PartAppended ==
    ASSUME NEW s \in Seq(Unit), Parts(s), NEW u \in Unit, NEW p \in 0..3,
           Len(s) % RecLen = p, u.part = p + 1
    PROVE  Parts(Append(s, u)) /\ (p = 3 => Len(Append(s, u)) % RecLen = 0)
           /\ (p < 3 => Len(Append(s, u)) % RecLen = p + 1)
<1> DEFINE v == Append(s, u)
<1>1. Len(v) = Len(s) + 1 /\ v[Len(s) + 1] = u /\ Len(s) \in Nat
  OBVIOUS
<1>2. \A i \in 1..Len(s) : v[i] = s[i]
  OBVIOUS
<1> HIDE DEF v
<1>3. ASSUME NEW i \in 1..Len(v) PROVE v[i].part = ((i - 1) % RecLen) + 1
  <2>1. CASE i \in 1..Len(s)
    BY <1>2, <2>1 DEF Parts
  <2>2. CASE i = Len(s) + 1
    <3>1. i - 1 = Len(s)
      BY <1>1, <2>2
    <3> QED BY <1>1, <2>2, <3>1
  <2> QED BY <1>1, <2>1, <2>2
<1>4. (p = 3 => Len(v) % 4 = 0) /\ (p < 3 => Len(v) % 4 = p + 1)
  <2>1. Len(s) % 4 = p /\ Len(v) = Len(s) + 1 /\ Len(s) \in Nat
    BY <1>1 DEF RecLen
  <2> QED BY <2>1
<1> QED BY <1>3, <1>4 DEF Parts, RecLen, v

LEMMA RestIsWhole ==
    ASSUME NEW s \in Seq(Unit), Whole(s), NEW p \in Nat, NEW k \in Nat,
           p = RecLen * k + 1, p <= Len(s) + 1
    PROVE  LET u == SubSeq(s, p, Len(s))
           IN  Whole(u) /\ Len(u) = Len(s) - RecLen * k
<1> USE DEF Parts
<1> DEFINE u == SubSeq(s, p, Len(s))
<1>0. p = 4 * k + 1 /\ Len(s) % 4 = 0 /\ Len(s) \in Nat
  BY DEF Whole, RecLen
<1>1. Len(u) = Len(s) - 4 * k /\ Len(s) % 4 = 0 /\ p = 4 * k + 1
  <2>1. Len(u) = Len(s) - p + 1
    OBVIOUS
  <2> HIDE DEF u
  <2> QED BY <1>0, <2>1
<1>2. \A i \in 1..Len(u) : u[i] = s[4 * k + i]
  <2>1. \A i \in 1..Len(u) : u[i] = s[p + i - 1]
    OBVIOUS
  <2> HIDE DEF u
  <2> SUFFICES ASSUME NEW i \in 1..Len(u) PROVE u[i] = s[4 * k + i]
    OBVIOUS
  <2>2. p + i - 1 = 4 * k + i
    BY <1>0, <1>1
  <2> QED BY <2>1, <2>2
<1> HIDE DEF u
<1>3. Len(u) % 4 = 0
  BY <1>1
<1>4. ASSUME NEW i \in 1..Len(u) PROVE u[i].part = ((i - 1) % RecLen) + 1
  <2>1. 4 * k + i \in 1..Len(s)
    BY <1>1
  <2>2. s[4 * k + i].part = ((4 * k + i - 1) % 4) + 1
    BY <2>1 DEF Whole, RecLen
  <2>3. (4 * k + i - 1) % 4 = (i - 1) % 4
    OBVIOUS
  <2> QED BY <1>2, <2>2, <2>3 DEF RecLen
<1> QED BY <1>1, <1>3, <1>4 DEF Whole, RecLen, u

\* At the start of a record of a whole file there is a record, or nothing at all.
LEMMA ChunkOrEnd ==
    ASSUME TypeOK, Whole(file), AtStart
    PROVE  \/ ChunkAt(pos) = "chunk" /\ pos + RecLen <= Len(file) + 1
           \/ ChunkAt(pos) = "short" /\ pos = Len(file) + 1 /\ AfterFailure(pos) = pos
<1>1. /\ pos = 4 * popped + 1 /\ pos <= Len(file) + 1 /\ popped \in Nat
      /\ Len(file) \in Nat /\ Len(file) % 4 = 0
  <2>1. popped \in Nat /\ Len(file) \in Nat
    BY DEF TypeOK
  <2>2. pos = 4 * popped + 1 /\ pos <= Len(file) + 1
    BY DEF AtStart, RecLen
  <2>3. Len(file) % 4 = 0
    BY DEF Whole, RecLen
  <2> QED BY <2>1, <2>2, <2>3
<1>2. CASE pos = Len(file) + 1
  BY <1>1, <1>2 DEF ChunkAt, HeaderAt, AfterFailure
<1>3. CASE pos < Len(file) + 1
  <2>1. pos + 3 <= Len(file)
    BY <1>1, <1>3
  <2>2. pos \in 1..Len(file)
    BY <1>1, <2>1
  <2>3. file[pos].part = ((pos - 1) % 4) + 1
    BY <2>2 DEF Whole, Parts, RecLen
  <2>4. (pos - 1) % 4 = 0
    BY <1>1
  <2> QED BY <1>1, <2>1, <2>3, <2>4 DEF ChunkAt, HeaderAt, MagicAt, PayloadAt, RecLen
<1> QED BY <1>1, <1>2, <1>3

\* While one task is in a locked section, the others are not, and no clear goes on
\* beside it unless a call has failed.
Others(t) ==
    /\ holder = t
    /\ \A s \in Tasks : s # t => pc[s] \notin LockedLabels
    /\ pc[Drainer] \in {"x_unlink", "x_count"} => t = Drainer

LEMMA CountKnown ==
    ASSUME Counted, count >= 0, ~Behind
    PROVE  Holds(file, count)
BY DEF Counted

LEMMA OneInside ==
    ASSUME IInv, Counted, NEW t \in Tasks, pc[t] \in LockedLabels
    PROVE  Others(t)
BY DEF IInv, Counted, LockHeld, Others

LEMMA OneAppends ==
    ASSUME Counted, NEW t \in Tasks, Others(t), pc[t] \in LockedLabels, pc[t] # "w_append"
    PROVE  Whole(file)
BY DEF Counted, Others, LockedLabels, WriteLabels, PopLabels

LEMMA CountStep ==
    ASSUME IInv, CountInv, [Next]_vars
    PROVE  CountInv'
<1> USE DrainerIsTask DEF IInv, CountInv, Counted, LockHeld, LockedLabels, WriteLabels, PopLabels, Replacing,
                          Goto, AtStart, Holds, Behind, RecLen, TypeOK
<1>1. ASSUME NEW t \in Tasks, WriteLock(t) PROVE CountInv'
  <2> SUFFICES ASSUME faults' = 0, ~torn' PROVE Counted'
    OBVIOUS
  <2>1. /\ faults = 0 /\ ~torn /\ holder = NoTask /\ holder' = t
        /\ Goto(t, "w_purge") /\ pc[t] = "idle"
        /\ UNCHANGED <<file, temp, count, pos, popped, cut, named, pen>>
    BY <1>1 DEF WriteLock, Lock, inWrite, unchangedByWriter
  <2>2. \A s \in Tasks : pc[s] \notin LockedLabels
    BY <2>1
  <2>3. pc'[t] = "w_purge" /\ \A s \in Tasks : s # t => pc'[s] = pc[s]
    BY <2>1
  <2> QED BY <2>1, <2>2, <2>3
<1>2. ASSUME NEW t \in Tasks, WritePurge(t) PROVE CountInv'
  <2> SUFFICES ASSUME faults' = 0, ~torn' PROVE Counted'
    OBVIOUS
  <2>1. /\ faults = 0 /\ ~torn /\ pc[t] = "w_purge" /\ Goto(t, "w_open")
        /\ UNCHANGED <<temp, holder, pos, popped, cut, pen>>
        /\ \/ file' = <<>> /\ count' = 0
           \/ UNCHANGED <<file, count>>
    BY <1>2 DEF WritePurge, Purged, NotPurged, inWrite, unchangedByWriter, Unlinked, UnlinkFails,
        Fault
  <2>2. Others(t)
    BY <2>1, OneInside
  <2>3. pc'[t] = "w_open" /\ \A s \in Tasks : s # t => pc'[s] = pc[s]
    BY <2>1
  <2>4. CASE file' = <<>> /\ count' = 0
    BY <2>1, <2>2, <2>3, <2>4, NothingIsWhole DEF Others
  <2>5. CASE UNCHANGED <<file, count>>
    BY <2>1, <2>2, <2>3, <2>5 DEF Others
  <2> QED BY <2>1, <2>4, <2>5
<1>3. ASSUME NEW t \in Tasks, WriteOpen(t) PROVE CountInv'
  <2> SUFFICES ASSUME faults' = 0, ~torn' PROVE Counted'
    OBVIOUS
  <2>1. /\ faults = 0 /\ ~torn /\ Counted /\ pc[t] \in {"w_open", "w_reopen"}
        /\ UNCHANGED <<file, temp, holder, count, pos, popped, cut>> /\ named' = TRUE /\ pen' = 0
    BY <1>3 DEF WriteOpen, inWrite, unchangedByWriter
  <2>2. pc[t] = "w_open" /\ pc'[t] = "w_append" /\ \A s \in Tasks : s # t => pc'[s] = pc[s]
    BY <1>3, <2>1 DEF WriteOpen
  <2>3. Others(t)
    BY <2>1, <2>2, OneInside
  <2>4. Whole(file)
    BY <2>1, <2>2, <2>3, OneAppends
  <2>5. count >= 0 => Holds(file, count)
    <3>1. ~Behind
      BY <2>2, <2>3 DEF Others
    <3> HIDE DEF Behind, Counted
    <3> QED BY <2>1, <3>1, CountKnown
  <2> QED BY <2>1, <2>2, <2>3, <2>4, <2>5 DEF Others, Whole
<1>4. ASSUME NEW t \in Tasks, WriteOpenFails(t) PROVE CountInv'
  <2> SUFFICES ASSUME faults' = 0, ~torn' PROVE Counted'
    OBVIOUS
  <2> QED BY <1>4 DEF WriteOpenFails, Fault
<1>5. ASSUME NEW t \in Tasks, WriteUnit(t) PROVE CountInv'
  <2> SUFFICES ASSUME faults' = 0, ~torn' PROVE Counted'
    OBVIOUS
  <2> DEFINE u == [id |-> Record, part |-> pen + 1]
  <2>1. /\ faults = 0 /\ ~torn /\ Counted /\ pc[t] \in {"w_append", "w_again"}
        /\ file' = Append(file, u) /\ pen' = pen + 1
        /\ UNCHANGED <<temp, holder, count, pos, popped, cut, named>>
    BY <1>5 DEF WriteUnit, inWrite, unchangedByWriter
  <2>2. pc[t] = "w_append" /\ Len(file) % RecLen = pen /\ pen \in 0..3 /\ nextId >= 2
    BY <2>1 DEF Numbered
  <2>3. /\ IF pen = 3 THEN pc'[t] = "w_count" ELSE pc'[t] = "w_append"
        /\ \A s \in Tasks : s # t => pc'[s] = pc[s]
    BY <1>5, <2>2 DEF WriteUnit
  <2>4. Others(t)
    BY <2>1, <2>2, OneInside
  <2>5. u \in Unit /\ u.part = pen + 1
    BY <2>2 DEF Unit, Record
  <2>6. /\ Parts(file') /\ (pen = 3 => Len(file') % RecLen = 0)
        /\ (pen < 3 => Len(file') % RecLen = pen + 1)
    <3>1. file \in Seq(Unit) /\ Parts(file)
      BY <2>1
    <3> HIDE DEF u, TypeOK, Counted, RecLen
    <3> QED BY <2>1, <2>2, <2>5, <3>1, PartAppended
  <2>7. Len(file') = Len(file) + 1 /\ Len(file) \in Nat
    BY <2>1
  <2>8. count >= 0 => Len(file) = 4 * count + pen
    BY <2>1, <2>2
  <2> HIDE DEF u
  <2>9. CASE pen = 3
    <3>1. count >= 0 => Len(file') = 4 * (count + 1)
      <4>1. count \in Int
        OBVIOUS
      <4> HIDE DEF TypeOK, Counted, IInv, CountInv
      <4> QED BY <2>7, <2>8, <2>9, <4>1
    <3>2. pc'[t] = "w_count" /\ Whole(file') /\ Parts(file')
      BY <2>3, <2>6, <2>9 DEF Whole
    <3>3. \A s \in Tasks : s # t => pc'[s] \notin LockedLabels
      BY <2>3, <2>4 DEF Others
    <3>4. pc'[Drainer] \notin {"x_unlink", "x_count"}
      BY <2>2, <2>3, <2>4, <3>2 DEF Others
    <3> HIDE DEF TypeOK, IInv
    <3> QED BY <2>1, <3>1, <3>2, <3>3, <3>4
  <2>10. CASE pen < 3
    <3>1. count >= 0 => Len(file') = 4 * count + (pen + 1)
      <4>1. count \in Int
        OBVIOUS
      <4> HIDE DEF TypeOK, Counted, IInv, CountInv
      <4> QED BY <2>2, <2>7, <2>8, <4>1
    <3>2. pc'[t] = "w_append" /\ Len(file') % RecLen = pen + 1 /\ Parts(file')
      BY <2>2, <2>3, <2>6, <2>10
    <3>3. \A s \in Tasks : s # t => pc'[s] \notin LockedLabels
      BY <2>3, <2>4 DEF Others
    <3>4. pc'[Drainer] \notin {"x_unlink", "x_count"}
      BY <2>2, <2>3, <2>4, <3>2 DEF Others
    <3>5. named
      BY <2>1, <2>2
    <3> HIDE DEF TypeOK, IInv
    <3> QED BY <2>1, <3>1, <3>2, <3>3, <3>4, <3>5
  <2> QED BY <2>2, <2>9, <2>10
<1>6. ASSUME NEW t \in Tasks, WriteFails(t) PROVE CountInv'
  <2> SUFFICES ASSUME faults' = 0, ~torn' PROVE Counted'
    OBVIOUS
  <2>1. faults = 0 /\ ~torn /\ Counted /\ pc[t] \in {"w_append", "w_again"} /\ ~named
    BY <1>6 DEF WriteFails, unchangedByWriter, Fault
  <2> QED BY <2>1
<1>7. ASSUME NEW t \in Tasks, WriteGivesUp(t) PROVE CountInv'
  <2> SUFFICES ASSUME faults' = 0, ~torn' PROVE Counted'
    OBVIOUS
  <2>1. faults = 0 /\ ~torn /\ Counted /\ pc[t] = "w_retry"
    BY <1>7 DEF WriteGivesUp, unchangedByWriter, Fault
  <2> QED BY <2>1
<1>8. ASSUME NEW t \in Tasks, WriteRetry(t) PROVE CountInv'
  <2> SUFFICES ASSUME faults' = 0, ~torn' PROVE Counted'
    OBVIOUS
  <2>1. faults = 0 /\ ~torn /\ Counted /\ pc[t] = "w_retry"
    BY <1>8 DEF WriteRetry, Purged, Unlinked, UnlinkFails, unchangedByWriter, Fault
  <2> QED BY <2>1
<1>9. ASSUME NEW t \in Tasks, WriteCount(t) PROVE CountInv'
  <2> SUFFICES ASSUME faults' = 0, ~torn' PROVE Counted'
    OBVIOUS
  <2>1. /\ faults = 0 /\ ~torn /\ Counted /\ pc[t] = "w_count"
        /\ holder' = NoTask /\ Goto(t, "idle") /\ cut' = FALSE
        /\ count' = IF count >= 0 THEN count + 1 ELSE count
        /\ UNCHANGED <<file, temp>>
    BY <1>9 DEF WriteCount, Unlock, unchangedByWriter
  <2>2. Others(t)
    BY <2>1, OneInside
  <2>3. pc'[t] = "idle" /\ \A s \in Tasks : s # t => pc'[s] = pc[s]
    BY <2>1
  <2> QED BY <2>1, <2>2, <2>3 DEF Others
<1>10. CASE PopLock
  <2> SUFFICES ASSUME faults' = 0, ~torn' PROVE Counted'
    OBVIOUS
  <2>1. faults = 0 /\ ~torn /\ count >= 0
    BY <1>10 DEF PopLock, Fault, unchangedByPop
  <2>2. Counted
    BY <2>1
  <2>3. /\ holder = NoTask /\ Goto(Drainer, "p_read") /\ pc[Drainer] = "idle"
        /\ UNCHANGED <<file, temp, count, pos, popped, cut, named, pen>> /\ holder' = Drainer
    BY <1>10 DEF PopLock, Lock, unchangedByPop, inPop
  <2>4. \A s \in Tasks : pc[s] \notin LockedLabels
    BY <2>3
  <2>5. pos = 1 /\ popped = 0
    BY <2>4 DEF Positions, CursorLabels
  <2>6. pc'[Drainer] = "p_read" /\ \A s \in Tasks : s # Drainer => pc'[s] = pc[s]
    BY <2>3
  <2>7. Holds(file, count)
    <3>1. ~Behind
      BY <2>2, <2>3, <2>4
    <3> HIDE DEF Behind, Counted
    <3> QED BY <2>1, <2>2, <3>1, CountKnown
  <2> QED BY <2>1, <2>2, <2>3, <2>4, <2>5, <2>6, <2>7
<1>11. CASE PopChunk
  <2> SUFFICES ASSUME faults' = 0, ~torn' PROVE Counted'
    OBVIOUS
  <2>1. /\ faults = 0 /\ ~torn /\ Counted /\ pc[Drainer] = "p_read"
        /\ ChunkAt(pos) = "chunk" /\ pos' = pos + RecLen /\ popped' = popped + 1
        /\ UNCHANGED <<file, temp, holder, count, pc, cut, named, pen>>
    BY <1>11 DEF PopChunk, unchangedByPop, inPop
  <2>2. Others(Drainer)
    BY <2>1, OneInside
  <2>3. Whole(file)
    BY <2>1, <2>2, OneAppends
  <2>4. AtStart'
    BY <2>1, <2>3, ChunkOrEnd
  <2> QED BY <2>1, <2>2, <2>4 DEF Others
<1>12. CASE PopNothing
  <2> SUFFICES ASSUME faults' = 0, ~torn' PROVE Counted'
    OBVIOUS
  <2>1. /\ faults = 0 /\ ~torn /\ Counted /\ pc[Drainer] = "p_read"
        /\ holder' = NoTask /\ Goto(Drainer, "idle") /\ cut' = FALSE
        /\ UNCHANGED <<file, temp, count>>
    BY <1>12 DEF PopNothing, Unlock, unchangedByPop, inPop, StopsAt, Fault
  <2>2. Others(Drainer)
    BY <2>1, OneInside
  <2>3. pc'[Drainer] = "idle" /\ \A s \in Tasks : s # Drainer => pc'[s] = pc[s]
    BY <2>1
  <2> QED BY <2>1, <2>2, <2>3 DEF Others
<1>13. CASE PopStop
  <2> SUFFICES ASSUME faults' = 0, ~torn' PROVE Counted'
    OBVIOUS
  <2>1. /\ faults = 0 /\ ~torn /\ Counted /\ pc[Drainer] = "p_read" /\ Goto(Drainer, "p_peek")
        /\ UNCHANGED <<file, temp, holder, count, popped, cut, named, pen>>
    BY <1>13 DEF PopStop, unchangedByPop, inPop, StopsAt, Fault
  <2>2. Others(Drainer)
    BY <2>1, OneInside
  <2>3. pos' = pos
    <3>1. Whole(file) /\ AtStart
      BY <2>1, <2>2, OneAppends
    <3>2. PICK q \in pos..Len(file) + 1 : StopsAt(q) /\ pos' = q
      BY <1>13 DEF PopStop
    <3>3. ChunkAt(pos) # "chunk" => AfterFailure(pos) = pos
      BY <3>1, ChunkOrEnd
    <3> QED BY <3>2, <3>3 DEF StopsAt, Fault
  <2>4. pc'[Drainer] = "p_peek" /\ \A s \in Tasks : s # Drainer => pc'[s] = pc[s]
    BY <2>1
  <2> QED BY <2>1, <2>2, <2>3, <2>4 DEF Others
<1>14. CASE PopPeek
  <2> SUFFICES ASSUME faults' = 0, ~torn' PROVE Counted'
    OBVIOUS
  <2>1. /\ faults = 0 /\ ~torn /\ Counted /\ pc[Drainer] = "p_peek"
        /\ UNCHANGED <<file, temp, holder, count, pos, popped, cut, named, pen>>
        /\ Goto(Drainer, "p_tail") \/ Goto(Drainer, "p_last")
    BY <1>14 DEF PopPeek, unchangedByPop, inPop, Fault
  <2>2. Others(Drainer)
    BY <2>1, OneInside
  <2>3. pc'[Drainer] \in {"p_tail", "p_last"} /\ \A s \in Tasks : s # Drainer => pc'[s] = pc[s]
    BY <2>1
  <2> QED BY <2>1, <2>2, <2>3 DEF Others
<1>15. CASE PopCopyTail
  <2> SUFFICES ASSUME faults' = 0, ~torn' PROVE Counted'
    OBVIOUS
  <2>1. /\ faults = 0 /\ ~torn /\ Counted /\ pc[Drainer] = "p_tail" /\ Goto(Drainer, "p_unlink")
        /\ temp' = Remainder
        /\ UNCHANGED <<file, holder, count, pos, popped, cut, named, pen>>
    BY <1>15 DEF PopCopyTail, unchangedByPop, inPop
  <2>2. Others(Drainer)
    BY <2>1, OneInside
  <2>3. Whole(file) /\ AtStart
    BY <2>1, <2>2, OneAppends
  <2>4. Whole(temp')
    BY <2>1, <2>3, RestIsWhole DEF Remainder
  <2>5. pc'[Drainer] = "p_unlink" /\ \A s \in Tasks : s # Drainer => pc'[s] = pc[s]
    BY <2>1
  <2> QED BY <2>1, <2>2, <2>4, <2>5 DEF Others
<1>16. CASE PopCopyFallsShort
  <2> SUFFICES ASSUME faults' = 0, ~torn' PROVE Counted'
    OBVIOUS
  <2> QED BY <1>16 DEF PopCopyFallsShort, Fault
<1>17. CASE PopCopyFails
  <2> SUFFICES ASSUME faults' = 0, ~torn' PROVE Counted'
    OBVIOUS
  <2>1. /\ faults = 0 /\ ~torn /\ Counted /\ pc[Drainer] = "p_tail" /\ Goto(Drainer, "idle")
        /\ temp' = <<>> /\ holder' = NoTask /\ cut' = FALSE
        /\ UNCHANGED <<file, count>>
    BY <1>17 DEF PopCopyFails, Unlock, unchangedByPop, inPop, Fault
  <2>2. Others(Drainer)
    BY <2>1, OneInside
  <2>3. pc'[Drainer] = "idle" /\ \A s \in Tasks : s # Drainer => pc'[s] = pc[s]
    BY <2>1
  <2> QED BY <2>1, <2>2, <2>3, NothingIsWhole DEF Others
<1>18. CASE PopUnlink
  <2> SUFFICES ASSUME faults' = 0, ~torn' PROVE Counted'
    OBVIOUS
  <2>1. /\ faults = 0 /\ ~torn /\ Counted /\ pc[Drainer] \in {"p_last", "p_unlink"}
        /\ file' = <<>> /\ cut' = FALSE /\ UNCHANGED <<temp, holder, count, pos, popped>>
    BY <1>18 DEF PopUnlink, Unlinked, UnlinkFails, Fault, unchangedByPop
  <2>2. Others(Drainer) /\ AtStart /\ count >= 0
    BY <2>1, OneInside
  <2>3. Holds(file, count) /\ Whole(file)
    <3>1. ~Behind
      BY <2>1, <2>2 DEF Others
    <3>2. Whole(file)
      BY <2>1, <2>2, OneAppends
    <3> HIDE DEF Behind, Counted
    <3> QED BY <2>1, <2>2, <3>1, <3>2, CountKnown
  <2>4. Len(Remainder) = Len(file) - RecLen * popped
    BY <2>2, <2>3, RestIsWhole DEF Remainder
  <2>5. count >= popped
    BY <2>2, <2>3
  <2>6. CASE pc[Drainer] = "p_last"
    <3>1. Remainder = <<>> /\ pc'[Drainer] = "p_count"
          /\ \A s \in Tasks : s # Drainer => pc'[s] = pc[s]
      BY <1>18, <2>1, <2>6 DEF PopUnlink, Copying
    <3>2. Holds(<<>>, count - popped)
      BY <2>3, <2>4, <2>5, <3>1
    <3> QED BY <2>1, <2>2, <2>5, <3>1, <3>2, NothingIsWhole DEF Others
  <2>7. CASE pc[Drainer] = "p_unlink"
    <3>1. temp = Remainder /\ pc'[Drainer] = "p_rename"
          /\ \A s \in Tasks : s # Drainer => pc'[s] = pc[s]
      BY <1>18, <2>1, <2>7 DEF PopUnlink, TailIsCurrent
    <3>2. Holds(temp, count - popped)
      BY <2>3, <2>4, <2>5, <3>1
    <3> QED BY <2>1, <2>2, <2>5, <3>1, <3>2, NothingIsWhole DEF Others
  <2> QED BY <2>1, <2>6, <2>7
<1>19. CASE PopRename
  <2> SUFFICES ASSUME faults' = 0, ~torn' PROVE Counted'
    OBVIOUS
  <2>1. /\ faults = 0 /\ ~torn /\ Counted /\ pc[Drainer] = "p_rename" /\ Goto(Drainer, "p_count")
        /\ file' = temp /\ temp' = <<>> /\ UNCHANGED <<holder, count, pos, popped, cut, named, pen>>
    BY <1>19 DEF PopRename, unchangedByPop, inPop, Fault
  <2>2. Others(Drainer)
    BY <2>1, OneInside
  <2>3. pc'[Drainer] = "p_count" /\ \A s \in Tasks : s # Drainer => pc'[s] = pc[s]
    BY <2>1
  <2> QED BY <2>1, <2>2, <2>3, NothingIsWhole DEF Others, Whole
<1>20. CASE PopCount
  <2> SUFFICES ASSUME faults' = 0, ~torn' PROVE Counted'
    OBVIOUS
  <2>1. /\ faults = 0 /\ ~torn /\ Counted /\ pc[Drainer] = "p_count" /\ Goto(Drainer, "idle")
        /\ count' = IF count >= popped THEN count - popped ELSE 0
        /\ holder' = NoTask /\ cut' = FALSE /\ UNCHANGED <<file, temp>>
    BY <1>20 DEF PopCount, Unlock, unchangedByPop, inPop
  <2>2. Others(Drainer)
    BY <2>1, OneInside
  <2>3. pc'[Drainer] = "idle" /\ \A s \in Tasks : s # Drainer => pc'[s] = pc[s]
    BY <2>1
  <2> QED BY <2>1, <2>2, <2>3 DEF Others
<1>21. CASE DrainEnds
  <2> SUFFICES ASSUME faults' = 0, ~torn' PROVE Counted'
    OBVIOUS
  <2> QED BY <1>21 DEF DrainEnds, unchangedByPop, inPop, Fault
<1>22. ASSUME NEW t \in Tasks, ScanLock(t) PROVE CountInv'
  <2> SUFFICES ASSUME faults' = 0, ~torn' PROVE Counted'
    OBVIOUS
  <2>1. /\ faults = 0 /\ ~torn /\ count < 0 /\ holder = NoTask /\ holder' = t /\ Goto(t, "s_scan")
        /\ pc[t] = "idle" /\ UNCHANGED <<file, temp, count, pos, popped, cut, named, pen>>
    BY <1>22 DEF ScanLock, Lock, unchangedByScan, inPop
  <2>2. \A s \in Tasks : pc[s] \notin LockedLabels
    BY <2>1
  <2>3. pos = 1 /\ popped = 0
    BY <2>2 DEF Positions, CursorLabels
  <2>4. pc'[t] = "s_scan" /\ \A s \in Tasks : s # t => pc'[s] = pc[s]
    BY <2>1
  <2> QED BY <2>1, <2>2, <2>3, <2>4
<1>23. ASSUME NEW t \in Tasks, ScanStep(t) PROVE CountInv'
  <2> SUFFICES ASSUME faults' = 0, ~torn' PROVE Counted'
    OBVIOUS
  <2>1. /\ faults = 0 /\ ~torn /\ Counted /\ pc[t] = "s_scan" /\ pos' = pos + RecLen
        /\ popped' = popped + 1 /\ ChunkAt(pos) # "short"
        /\ UNCHANGED <<file, temp, holder, count, pc, cut, named, pen>>
    BY <1>23 DEF ScanStep, unchangedByScan, inPop
  <2>2. Others(t)
    BY <2>1, OneInside
  <2>3. Whole(file)
    BY <2>1, <2>2, OneAppends
  <2>4. pos + RecLen <= Len(file) + 1
    BY <2>1, <2>3, ChunkOrEnd
  <2>5. AtStart'
    BY <2>1, <2>4
  <2> QED BY <2>1, <2>2, <2>5 DEF Others
<1>24. ASSUME NEW t \in Tasks, ScanEnds(t) PROVE CountInv'
  <2> SUFFICES ASSUME faults' = 0, ~torn' PROVE Counted'
    OBVIOUS
  <2>1. /\ faults = 0 /\ ~torn /\ Counted /\ pc[t] = "s_scan" /\ ChunkAt(pos) # "chunk"
        /\ count' = popped /\ holder' = NoTask /\ Goto(t, "idle") /\ cut' = FALSE
        /\ UNCHANGED <<file, temp>>
    BY <1>24 DEF ScanEnds, Unlock, unchangedByScan, inPop, Fault
  <2>2. Others(t)
    BY <2>1, OneInside
  <2>3. Whole(file)
    BY <2>1, <2>2, OneAppends
  <2>4. pos = Len(file) + 1
    BY <2>1, <2>3, ChunkOrEnd
  <2>5. Holds(file, popped)
    BY <2>1, <2>4
  <2>6. pc'[t] = "idle" /\ \A s \in Tasks : s # t => pc'[s] = pc[s]
    BY <2>1
  <2> QED BY <2>1, <2>2, <2>3, <2>5, <2>6 DEF Others
<1>25. CASE ReadOpen
  <2> SUFFICES ASSUME faults' = 0, ~torn' PROVE Counted'
    OBVIOUS
  <2> QED BY <1>25 DEF ReadOpen, unchangedByUpload, Fault
<1>26. CASE ReadChunk
  <2> SUFFICES ASSUME faults' = 0, ~torn' PROVE Counted'
    OBVIOUS
  <2> QED BY <1>26 DEF ReadChunk, unchangedByUpload, Fault
<1>27. CASE ReadStop
  <2> SUFFICES ASSUME faults' = 0, ~torn' PROVE Counted'
    OBVIOUS
  <2> QED BY <1>27 DEF ReadStop, UploadEnds, unchangedByUpload, Fault
<1>28. CASE PostFails
  <2> SUFFICES ASSUME faults' = 0, ~torn' PROVE Counted'
    OBVIOUS
  <2> QED BY <1>28 DEF PostFails, UploadEnds, unchangedByUpload, Fault
<1>29. CASE ClearLock
  <2> SUFFICES ASSUME faults' = 0, ~torn' PROVE Counted'
    OBVIOUS
  <2> QED BY <1>29 DEF ClearLock, unchangedByUpload, Fault
<1>30. CASE ClearUnlink
  <2> SUFFICES ASSUME faults' = 0, ~torn' PROVE Counted'
    OBVIOUS
  <2>1. /\ faults = 0 /\ ~torn /\ Counted /\ pc[Drainer] = "x_unlink" /\ Goto(Drainer, "x_count")
        /\ file' = <<>> /\ UNCHANGED <<temp, holder, count, cut>>
    BY <1>30 DEF ClearUnlink, Unlinked, UnlinkFails, Fault, unchangedByUpload
  <2>2. holder = Drainer
    BY <2>1
  <2>3. \A s \in Tasks : pc[s] \notin LockedLabels
    BY <2>1, <2>2
  <2>4. pc'[Drainer] = "x_count" /\ \A s \in Tasks : s # Drainer => pc'[s] = pc[s]
    BY <2>1
  <2> QED BY <2>1, <2>2, <2>3, <2>4, NothingIsWhole
<1>31. CASE ClearCount
  <2> SUFFICES ASSUME faults' = 0, ~torn' PROVE Counted'
    OBVIOUS
  <2> QED BY <1>31 DEF ClearCount, UploadEnds, unchangedByUpload, Fault
<1>32. CASE Crash
  <2> SUFFICES ASSUME faults' = 0, ~torn' PROVE Counted'
    OBVIOUS
  <2>1. /\ faults = 0 /\ ~torn /\ Counted /\ UNCHANGED <<file, temp>> /\ ~(named /\ pen \in 1..3)
        /\ count' = -1 /\ cut' = FALSE /\ \A s \in Tasks : pc'[s] = "idle"
    BY <1>32 DEF Crash, Reset
  <2>2. ASSUME NEW t \in Tasks, pc[t] = "w_append" PROVE Whole(file)
    <3>1. named /\ Len(file) % RecLen = pen /\ pen \in 0..3
      BY <2>1, <2>2 DEF Numbered
    <3>2. pen = 0
      BY <2>1, <3>1
    <3> QED BY <2>1, <3>1, <3>2 DEF Whole
  <2>3. Whole(file)
    BY <2>1, <2>2
  <2> QED BY <2>1, <2>3
<1>33. CASE UNCHANGED vars
  <2> SUFFICES ASSUME faults' = 0, ~torn' PROVE Counted'
    OBVIOUS
  <2> QED BY <1>33 DEF vars, volatile, Fault
<1> QED
  BY <1>1, <1>2, <1>3, <1>4, <1>5, <1>6, <1>7, <1>8, <1>9, <1>10, <1>11, <1>12, <1>13, <1>14,
        <1>15, <1>16, <1>17, <1>18, <1>19, <1>20, <1>21, <1>22, <1>23, <1>24, <1>25, <1>26,
        <1>27, <1>28, <1>29, <1>30, <1>31, <1>32, <1>33 DEF Next, Write, Pop, Scan, Upload

LEMMA CountInvariance == Spec => []CountInv
<1>1. Init => CountInv
  <2> SUFFICES ASSUME Init PROVE Counted
    BY DEF CountInv
  <2> QED BY DrainerIsTask, NothingIsWhole DEF Init, Counted, PopLabels, Replacing
<1>2. IInv /\ CountInv /\ [Next]_vars => CountInv'
  BY CountStep
<1> QED BY <1>1, <1>2, Invariance, PTL DEF Spec

\* Whatever the tasks, the scan, the purge, the clear and the resets do between the
\* file-system calls: while none of these calls has failed and no reset has cut a write
\* short, an unlocked store holds whole records and the cached count is their number
\* (storage_manager.c:82, 330, 1021).
THEOREM CountCorrect == Spec => []CountExact
<1>1. IInv /\ CountInv => CountExact
  <2> SUFFICES ASSUME IInv, Counted, holder = NoTask
               PROVE  /\ \A i \in 1..Len(file) : file[i].part = ((i - 1) % RecLen) + 1
                      /\ count >= 0 => Len(file) = RecLen * count
    BY DEF CountExact, CountInv
  <2>1. \A s \in Tasks : pc[s] \notin LockedLabels
    BY DrainerIsTask DEF IInv, LockHeld
  <2>2. ~Behind
    BY <2>1, DrainerIsTask DEF Behind, Counted, LockedLabels, WriteLabels, PopLabels
  <2>3. Parts(file)
    BY DEF Counted
  <2> QED BY <2>2, <2>3, CountKnown DEF Parts, Holds
<1> QED BY <1>1, Invariance, CountInvariance, PTL

----------------------------------------------------------------------------
(* The upload. *)

\* Payloads of whole records in their order, the last one perhaps cut by the end of
\* the buffer; and while the handle names the file, the record in front of it is the
\* one copied last.
Payloads(s) ==
    /\ \A i \in 1..Len(s) : s[i].part = 3 + ((i - 1) % 2)
    /\ \A i \in 1..Len(s) - 1 :
          IF i % 2 = 1 THEN s[i].id = s[i + 1].id ELSE s[i].id < s[i + 1].id
LastCopied ==
    /\ rpos > 1 /\ rpos <= Len(file) + 1
    /\ file[rpos - 1].part = 4 /\ file[rpos - 1].id = up[Len(up)].id
UploadInv ==
    /\ Payloads(up)
    /\ Len(up) <= UploadMax
    /\ Len(up) < UploadMax => Len(up) % 2 = 0
    /\ ~Uploading => up = <<>> /\ rpos = 1 /\ ~fresh
    /\ fresh /\ up # <<>> => LastCopied

LEMMA EvenAndOdd ==
    ASSUME NEW n \in Nat, n % 2 = 0
    PROVE  (n + 1 - 1) % 2 = 0 /\ (n + 1) % 2 = 1 /\ (n + 2 - 1) % 2 = 1 /\ (n + 2) % 2 = 0
OBVIOUS

\* One more payload, or its first unit, behind whole payloads.
LEMMA PayloadAppended ==
    ASSUME NEW s \in Seq(Unit), NEW r \in Seq(Unit), NEW n \in Nat, Len(r) \in {1, 2},
           Payloads(s), Len(s) % 2 = 0,
           \A k \in 1..Len(r) : r[k].part = 2 + k /\ r[k].id = n,
           s # <<>> => s[Len(s)].id < n
    PROVE  Payloads(s \o r)
<1> DEFINE u == s \o r
<1>0. /\ Len(s) \in Nat /\ (s # <<>> <=> Len(s) >= 1)
      /\ (Len(r) = 1 \/ Len(r) = 2)
      /\ Len(s) % 2 = 0
  OBVIOUS
<1>1. Len(u) = Len(s) + Len(r)
  OBVIOUS
<1>2. \A i \in 1..Len(s) : u[i] = s[i]
  OBVIOUS
<1>3. \A k \in 1..Len(r) : u[Len(s) + k] = r[k]
  OBVIOUS
<1> HIDE DEF u
<1>4. ASSUME NEW i \in 1..Len(u), i > Len(s)
      PROVE  \E k \in 1..Len(r) : i = Len(s) + k /\ u[i].part = 2 + k /\ u[i].id = n
  <2>0. i - Len(s) \in 1..Len(r) /\ i = Len(s) + (i - Len(s))
    BY <1>0, <1>1, <1>4
  <2>1. PICK k \in 1..Len(r) : i = Len(s) + k
    BY <2>0
  <2> QED BY <1>3, <2>1
<1>5. ASSUME NEW i \in 1..Len(u) PROVE u[i].part = 3 + ((i - 1) % 2)
  <2>1. CASE i <= Len(s)
    BY <1>0, <1>2, <2>1 DEF Payloads
  <2>2. CASE i > Len(s)
    <3>1. PICK k \in 1..Len(r) : i = Len(s) + k /\ u[i].part = 2 + k
      BY <1>4, <2>2
    <3>2. (i - 1) % 2 = k - 1
      <4>1. k = 1 \/ k = 2
        BY <1>0
      <4>2. CASE k = 1
        BY <1>0, <3>1, <4>2, EvenAndOdd
      <4>3. CASE k = 2
        <5>1. i - 1 = Len(s) + 1
          BY <1>0, <3>1, <4>3
        <5> QED BY <1>0, <4>3, <5>1, EvenAndOdd
      <4> QED BY <4>1, <4>2, <4>3
    <3> QED BY <3>1, <3>2
  <2> QED BY <1>0, <2>1, <2>2
<1>6. ASSUME NEW i \in 1..Len(u) - 1
      PROVE  IF i % 2 = 1 THEN u[i].id = u[i + 1].id ELSE u[i].id < u[i + 1].id
  <2>1. CASE i + 1 <= Len(s)
    <3>1. i \in 1..Len(s) - 1 /\ u[i] = s[i] /\ u[i + 1] = s[i + 1]
      BY <1>0, <1>2, <2>1
    <3> QED BY <3>1 DEF Payloads
  <2>2. CASE i = Len(s)
    <3>1. i % 2 = 0 /\ u[i] = s[Len(s)] /\ s[Len(s)].id < n
      BY <1>0, <1>2, <2>2
    <3>2. u[i + 1].id = n
      BY <1>0, <1>1, <1>4, <2>2
    <3> QED BY <3>1, <3>2
  <2>3. CASE i > Len(s)
    <3>0. i < Len(s) + Len(r) /\ i \in Nat
      BY <1>0, <1>1, <2>3
    <3>1. i = Len(s) + 1 /\ Len(r) = 2
      <4>1. CASE Len(r) = 1
        BY <1>0, <2>3, <3>0, <4>1
      <4>2. CASE Len(r) = 2
        BY <1>0, <2>3, <3>0, <4>2
      <4> QED BY <1>0, <4>1, <4>2
    <3>2. i % 2 = 1
      BY <1>0, <3>1, EvenAndOdd
    <3>3. u[i].id = n /\ u[i + 1].id = n
      BY <1>0, <1>1, <1>4, <2>3, <3>1
    <3> QED BY <3>2, <3>3
  <2> QED BY <1>0, <1>1, <2>1, <2>2, <2>3
<1> QED BY <1>5, <1>6 DEF Payloads, u

LEMMA NothingUploaded == Payloads(<<>>) /\ Len(<<>>) <= UploadMax /\ Len(<<>>) % 2 = 0
BY LimitsAssumption DEF Payloads

\* A step that neither reads nor unlinks, and the end of an upload.
LEMMA Untouched ==
    ASSUME UploadInv, UNCHANGED <<up, rpos>>, Uploading' = Uploading,
           fresh' = FALSE \/ (fresh' = fresh /\ file' = file)
    PROVE  UploadInv'
<1>1. fresh' => (LastCopied' <=> LastCopied)
  BY DEF LastCopied
<1> HIDE DEF Uploading, LastCopied
<1> QED BY <1>1 DEF UploadInv

LEMMA Ended ==
    ASSUME up' = <<>>, rpos' = 1, fresh' = FALSE
    PROVE  UploadInv'
BY NothingUploaded DEF UploadInv

LEMMA UploadStep ==
    ASSUME IInv, StoredInOrder, UploadInv, [Next]_vars
    PROVE  UploadInv'
<1> USE DrainerIsTask DEF IInv, UploadInv, Uploading, LockHeld, LockedLabels, WriteLabels, PopLabels, Goto, TypeOK
<1>1. ASSUME NEW t \in Tasks, WriteLock(t) PROVE UploadInv'
  <2>1. /\ UNCHANGED <<up, rpos>> /\ Uploading' = Uploading
        /\ fresh' = FALSE \/ (fresh' = fresh /\ file' = file)
    BY <1>1 DEF WriteLock, Lock, inWrite, unchangedByWriter, Unlinked, UnlinkFails
  <2> QED BY <2>1, Untouched
<1>2. ASSUME NEW t \in Tasks, WritePurge(t) PROVE UploadInv'
  <2>1. /\ UNCHANGED <<up, rpos>> /\ Uploading' = Uploading
        /\ fresh' = FALSE \/ (fresh' = fresh /\ file' = file)
    BY <1>2 DEF WritePurge, Purged, NotPurged, inWrite, unchangedByWriter, Unlinked, UnlinkFails
  <2> QED BY <2>1, Untouched
<1>3. ASSUME NEW t \in Tasks, WriteOpen(t) PROVE UploadInv'
  <2>1. /\ UNCHANGED <<up, rpos>> /\ Uploading' = Uploading
        /\ fresh' = FALSE \/ (fresh' = fresh /\ file' = file)
    BY <1>3 DEF WriteOpen, inWrite, unchangedByWriter, Unlinked, UnlinkFails
  <2> QED BY <2>1, Untouched
<1>4. ASSUME NEW t \in Tasks, WriteOpenFails(t) PROVE UploadInv'
  <2>1. /\ UNCHANGED <<up, rpos>> /\ Uploading' = Uploading
        /\ fresh' = FALSE \/ (fresh' = fresh /\ file' = file)
    BY <1>4 DEF WriteOpenFails, Unlock, unchangedByWriter, Unlinked, UnlinkFails
  <2> QED BY <2>1, Untouched
<1>5. ASSUME NEW t \in Tasks, WriteUnit(t) PROVE UploadInv'
  <2> DEFINE u == [id |-> Record, part |-> pen + 1]
  <2>1. /\ file' = Append(file, u) /\ UNCHANGED <<rpos, up, fresh>>
        /\ pc[t] \in {"w_append", "w_again"}
        /\ pc'[t] \in {"w_append", "w_again", "w_count"} /\ \A s \in Tasks : s # t => pc'[s] = pc[s]
    BY <1>5 DEF WriteUnit, unchangedByWriter
  <2>2. Uploading' = Uploading
    BY <2>1
  <2> HIDE DEF u
  <2>3. Len(file') >= Len(file) /\ \A i \in 1..Len(file) : file'[i] = file[i]
    BY <2>1
  <2>4. LastCopied => LastCopied'
    BY <2>1, <2>3 DEF LastCopied
  <2> QED BY <2>1, <2>2, <2>4
<1>6. ASSUME NEW t \in Tasks, WriteFails(t) PROVE UploadInv'
  <2>1. /\ UNCHANGED <<up, rpos>> /\ Uploading' = Uploading
        /\ fresh' = FALSE \/ (fresh' = fresh /\ file' = file)
    BY <1>6 DEF WriteFails, Unlock, inWrite, unchangedByWriter, Unlinked, UnlinkFails
  <2> QED BY <2>1, Untouched
<1>7. ASSUME NEW t \in Tasks, WriteGivesUp(t) PROVE UploadInv'
  <2>1. /\ UNCHANGED <<up, rpos>> /\ Uploading' = Uploading
        /\ fresh' = FALSE \/ (fresh' = fresh /\ file' = file)
    BY <1>7 DEF WriteGivesUp, Unlock, unchangedByWriter, Unlinked, UnlinkFails
  <2> QED BY <2>1, Untouched
<1>8. ASSUME NEW t \in Tasks, WriteRetry(t) PROVE UploadInv'
  <2>1. /\ UNCHANGED <<up, rpos>> /\ Uploading' = Uploading
        /\ fresh' = FALSE \/ (fresh' = fresh /\ file' = file)
    BY <1>8 DEF WriteRetry, Purged, inWrite, unchangedByWriter, Unlinked, UnlinkFails
  <2> QED BY <2>1, Untouched
<1>9. ASSUME NEW t \in Tasks, WriteCount(t) PROVE UploadInv'
  <2>1. /\ UNCHANGED <<up, rpos>> /\ Uploading' = Uploading
        /\ fresh' = FALSE \/ (fresh' = fresh /\ file' = file)
    BY <1>9 DEF WriteCount, Unlock, unchangedByWriter, Unlinked, UnlinkFails
  <2> QED BY <2>1, Untouched
<1>10. CASE PopLock
  <2>1. /\ UNCHANGED <<up, rpos>> /\ Uploading' = Uploading
        /\ fresh' = FALSE \/ (fresh' = fresh /\ file' = file)
    BY <1>10 DEF PopLock, Lock, unchangedByPop, inPop, Unlinked, UnlinkFails
  <2> QED BY <2>1, Untouched
<1>11. CASE PopChunk
  <2>1. /\ UNCHANGED <<up, rpos>> /\ Uploading' = Uploading
        /\ fresh' = FALSE \/ (fresh' = fresh /\ file' = file)
    BY <1>11 DEF PopChunk, unchangedByPop, inPop, Unlinked, UnlinkFails
  <2> QED BY <2>1, Untouched
<1>12. CASE PopNothing
  <2>1. /\ UNCHANGED <<up, rpos>> /\ Uploading' = Uploading
        /\ fresh' = FALSE \/ (fresh' = fresh /\ file' = file)
    BY <1>12 DEF PopNothing, Unlock, unchangedByPop, inPop, Unlinked, UnlinkFails
  <2> QED BY <2>1, Untouched
<1>13. CASE PopStop
  <2>1. /\ UNCHANGED <<up, rpos>> /\ Uploading' = Uploading
        /\ fresh' = FALSE \/ (fresh' = fresh /\ file' = file)
    BY <1>13 DEF PopStop, unchangedByPop, inPop, Unlinked, UnlinkFails
  <2> QED BY <2>1, Untouched
<1>14. CASE PopPeek
  <2>1. /\ UNCHANGED <<up, rpos>> /\ Uploading' = Uploading
        /\ fresh' = FALSE \/ (fresh' = fresh /\ file' = file)
    BY <1>14 DEF PopPeek, unchangedByPop, inPop, Unlinked, UnlinkFails
  <2> QED BY <2>1, Untouched
<1>15. CASE PopCopyTail
  <2>1. /\ UNCHANGED <<up, rpos>> /\ Uploading' = Uploading
        /\ fresh' = FALSE \/ (fresh' = fresh /\ file' = file)
    BY <1>15 DEF PopCopyTail, unchangedByPop, inPop, Unlinked, UnlinkFails
  <2> QED BY <2>1, Untouched
<1>16. CASE PopCopyFallsShort
  <2>1. /\ UNCHANGED <<up, rpos>> /\ Uploading' = Uploading
        /\ fresh' = FALSE \/ (fresh' = fresh /\ file' = file)
    BY <1>16 DEF PopCopyFallsShort, unchangedByPop, inPop, Unlinked, UnlinkFails
  <2> QED BY <2>1, Untouched
<1>17. CASE PopCopyFails
  <2>1. /\ UNCHANGED <<up, rpos>> /\ Uploading' = Uploading
        /\ fresh' = FALSE \/ (fresh' = fresh /\ file' = file)
    BY <1>17 DEF PopCopyFails, Unlock, unchangedByPop, inPop, Unlinked, UnlinkFails
  <2> QED BY <2>1, Untouched
<1>18. CASE PopUnlink
  <2>1. /\ UNCHANGED <<up, rpos>> /\ Uploading' = Uploading
        /\ fresh' = FALSE \/ (fresh' = fresh /\ file' = file)
    BY <1>18 DEF PopUnlink, unchangedByPop, inPop, Unlinked, UnlinkFails
  <2> QED BY <2>1, Untouched
<1>19. CASE PopRename
  BY <1>19 DEF PopRename, unchangedByPop, Fault
<1>20. CASE PopCount
  <2>1. /\ UNCHANGED <<up, rpos>> /\ Uploading' = Uploading
        /\ fresh' = FALSE \/ (fresh' = fresh /\ file' = file)
    BY <1>20 DEF PopCount, Unlock, unchangedByPop, inPop, Unlinked, UnlinkFails
  <2> QED BY <2>1, Untouched
<1>21. CASE DrainEnds
  <2>1. /\ UNCHANGED <<up, rpos>> /\ Uploading' = Uploading
        /\ fresh' = FALSE \/ (fresh' = fresh /\ file' = file)
    BY <1>21 DEF DrainEnds, unchangedByPop, inPop, Unlinked, UnlinkFails
  <2> QED BY <2>1, Untouched
<1>22. ASSUME NEW t \in Tasks, ScanLock(t) PROVE UploadInv'
  <2>1. /\ UNCHANGED <<up, rpos>> /\ Uploading' = Uploading
        /\ fresh' = FALSE \/ (fresh' = fresh /\ file' = file)
    BY <1>22 DEF ScanLock, Lock, unchangedByScan, inPop, Unlinked, UnlinkFails
  <2> QED BY <2>1, Untouched
<1>23. ASSUME NEW t \in Tasks, ScanStep(t) PROVE UploadInv'
  <2>1. /\ UNCHANGED <<up, rpos>> /\ Uploading' = Uploading
        /\ fresh' = FALSE \/ (fresh' = fresh /\ file' = file)
    BY <1>23 DEF ScanStep, unchangedByScan, inPop, Unlinked, UnlinkFails
  <2> QED BY <2>1, Untouched
<1>24. ASSUME NEW t \in Tasks, ScanEnds(t) PROVE UploadInv'
  <2>1. /\ UNCHANGED <<up, rpos>> /\ Uploading' = Uploading
        /\ fresh' = FALSE \/ (fresh' = fresh /\ file' = file)
    BY <1>24 DEF ScanEnds, Unlock, unchangedByScan, inPop, Unlinked, UnlinkFails
  <2> QED BY <2>1, Untouched
<1>25. CASE ReadOpen
  BY <1>25, NothingUploaded DEF ReadOpen, unchangedByUpload
<1>26. CASE ReadChunk
  <2> DEFINE r == SubSeq(file, rpos + 2, IF UploadMax - Len(up) >= 2 THEN rpos + 3 ELSE rpos + 2)
             n == file[rpos + 1].id
  <2>1. /\ up' = up \o r /\ rpos' = rpos + 4 /\ UNCHANGED <<file, pc, fresh>>
        /\ fresh /\ UploadMax - Len(up) > 0 /\ pc[Drainer] = "r_read"
        /\ ChunkAt(rpos) = "chunk" /\ CrcAt(rpos)
    BY <1>26 DEF ReadChunk, RecLen
  <2>2. rpos + 3 <= Len(file)
    BY <2>1 DEF ChunkAt, PayloadAt, RecLen
  <2>3. \A k \in 1..3 : file[rpos + k] = [id |-> n, part |-> k + 1]
    BY <2>1 DEF CrcAt
  <2>4. n \in Nat
    <3>1. file[rpos + 1] \in Unit
      BY <2>2
    <3> QED BY <3>1 DEF Unit
  <2>5. /\ r \in Seq(Unit) /\ Len(r) = IF UploadMax - Len(up) >= 2 THEN 2 ELSE 1
        /\ \A k \in 1..Len(r) : r[k] = file[rpos + 1 + k]
    <3>1. CASE UploadMax - Len(up) >= 2
      <4>1. r = SubSeq(file, rpos + 2, rpos + 3)
        BY <3>1
      <4> HIDE DEF r
      <4> QED BY <2>2, <3>1, <4>1
    <3>2. CASE ~(UploadMax - Len(up) >= 2)
      <4>1. r = SubSeq(file, rpos + 2, rpos + 2)
        BY <3>2
      <4> HIDE DEF r
      <4> QED BY <2>2, <3>2, <4>1
    <3> QED BY <3>1, <3>2
  <2> HIDE DEF r
  <2>6. \A k \in 1..Len(r) : r[k].part = 2 + k /\ r[k].id = n
    <3> SUFFICES ASSUME NEW k \in 1..Len(r) PROVE r[k].part = 2 + k /\ r[k].id = n
      OBVIOUS
    <3>1. k + 1 \in 1..3 /\ r[k] = file[rpos + (k + 1)]
      BY <2>5
    <3>2. r[k] = [id |-> n, part |-> (k + 1) + 1]
      BY <2>3, <3>1
    <3> QED BY <3>1, <3>2
  <2>7. up # <<>> => up[Len(up)].id < n
    <3> SUFFICES ASSUME up # <<>> PROVE up[Len(up)].id < n
      OBVIOUS
    <3>1. LastCopied /\ rpos - 1 \in 1..Len(file) /\ rpos + 2 \in 1..Len(file)
      BY <2>1, <2>2 DEF LastCopied
    <3>2. Log = file
      BY <2>1 DEF Log
    <3>3. RL!Before(file[rpos - 1], file[rpos + 2])
      BY <3>1, <3>2 DEF StoredInOrder, RL!InOrder, RL!Increasing
    <3>4. file[rpos + 2] = [id |-> n, part |-> 3]
      BY <2>3
    <3>5. file[rpos - 1].part = 4 /\ file[rpos - 1].id = up[Len(up)].id
      BY <3>1 DEF LastCopied
    <3> QED BY <2>4, <3>3, <3>4, <3>5 DEF RL!Before
  <2>8. Len(up) % 2 = 0 /\ Len(up) \in Nat /\ UploadMax \in Nat
    <3>1. Len(up) \in Nat /\ UploadMax \in Nat /\ UploadMax - Len(up) > 0
      BY <2>1, LimitsAssumption
    <3>2. Len(up) < UploadMax => Len(up) % 2 = 0
      OBVIOUS
    <3> HIDE DEF UploadInv, TypeOK
    <3> QED BY <3>1, <3>2
  <2>9. Payloads(up')
    BY <2>1, <2>4, <2>5, <2>6, <2>7, <2>8, PayloadAppended
  <2>10. Len(up') = Len(up) + Len(r) /\ up'[Len(up')].id = n
    <3>0. Len(r) \in 1..Len(r) /\ up \in Seq(Unit) /\ up' = up \o r /\ r \in Seq(Unit)
      BY <2>1, <2>5
    <3> HIDE DEF UploadInv, TypeOK
    <3>1. Len(up') = Len(up) + Len(r)
      BY <3>0
    <3>2. up'[Len(up) + Len(r)] = r[Len(r)]
      BY <3>0
    <3> QED BY <2>5, <2>6, <3>1, <3>2
  <2>11. Len(up') <= UploadMax /\ (Len(up') < UploadMax => Len(up') % 2 = 0)
    <3> HIDE DEF UploadInv, TypeOK
    <3>1. UploadMax - Len(up) > 0
      BY <2>1
    <3>2. /\ Len(up') = Len(up) + Len(r) /\ Len(r) <= UploadMax - Len(up)
          /\ (Len(r) = 2 \/ (Len(r) = 1 /\ UploadMax - Len(up) < 2))
      BY <2>5, <2>8, <2>10, <3>1
    <3>3. Len(up) + 2 <= UploadMax => (Len(up) + 2) % 2 = 0
      BY <2>8, EvenAndOdd
    <3>4. CASE Len(r) = 2
      <4>1. Len(up') = Len(up) + 2 /\ Len(up) + 2 <= UploadMax
        BY <2>8, <3>2, <3>4
      <4> QED BY <3>3, <4>1
    <3>5. CASE Len(r) = 1
      <4>1. Len(up') = UploadMax
        BY <2>8, <3>1, <3>2, <3>5
      <4> QED BY <2>8, <4>1
    <3> QED BY <3>2, <3>4, <3>5
  <2>12. LastCopied'
    <3>1. file[rpos + 3] = [id |-> n, part |-> 4]
      BY <2>3
    <3>2. rpos' - 1 = rpos + 3 /\ rpos' <= Len(file) + 1 /\ rpos' > 1
      BY <2>1, <2>2
    <3>3. file'[rpos' - 1] = [id |-> n, part |-> 4] /\ Len(file') = Len(file)
      BY <2>1, <3>1, <3>2
    <3>4. file'[rpos' - 1].part = 4 /\ file'[rpos' - 1].id = n
      BY <3>3
    <3> HIDE DEF UploadInv, TypeOK, IInv
    <3> QED BY <2>1, <2>10, <3>2, <3>3, <3>4 DEF LastCopied
  <2> QED BY <2>1, <2>9, <2>11, <2>12
<1>27. CASE ReadStop
  <2>1. CASE up = <<>>
    BY <1>27, <2>1, Ended DEF ReadStop, UploadEnds
  <2>2. CASE up # <<>>
    <3>1. UNCHANGED <<up, rpos, fresh, file>> /\ Uploading' = Uploading
      BY <1>27, <2>2 DEF ReadStop, unchangedByUpload
    <3> QED BY <3>1, Untouched
  <2> QED BY <2>1, <2>2
<1>28. CASE PostFails
  BY <1>28, Ended DEF PostFails, UploadEnds
<1>29. CASE ClearLock
  <2>1. /\ UNCHANGED <<up, rpos>> /\ Uploading' = Uploading
        /\ fresh' = FALSE \/ (fresh' = fresh /\ file' = file)
    BY <1>29 DEF ClearLock, unchangedByUpload, Unlinked, UnlinkFails
  <2> QED BY <2>1, Untouched
<1>30. CASE ClearUnlink
  <2>1. /\ UNCHANGED <<up, rpos>> /\ Uploading' = Uploading
        /\ fresh' = FALSE \/ (fresh' = fresh /\ file' = file)
    BY <1>30 DEF ClearUnlink, unchangedByUpload, Unlinked, UnlinkFails
  <2> QED BY <2>1, Untouched
<1>31. CASE ClearCount
  BY <1>31, Ended DEF ClearCount, UploadEnds
<1>32. CASE Crash
  BY <1>32, Ended DEF Crash, Reset
<1>33. CASE UNCHANGED vars
  <2>1. /\ UNCHANGED <<up, rpos>> /\ Uploading' = Uploading
        /\ fresh' = FALSE \/ (fresh' = fresh /\ file' = file)
    BY <1>33 DEF vars, volatile, Unlinked, UnlinkFails
  <2> QED BY <2>1, Untouched
<1> QED
  BY <1>1, <1>2, <1>3, <1>4, <1>5, <1>6, <1>7, <1>8, <1>9, <1>10, <1>11, <1>12, <1>13, <1>14,
        <1>15, <1>16, <1>17, <1>18, <1>19, <1>20, <1>21, <1>22, <1>23, <1>24, <1>25, <1>26,
        <1>27, <1>28, <1>29, <1>30, <1>31, <1>32, <1>33 DEF Next, Write, Pop, Scan, Upload

LEMMA UploadInvariance == Spec => []UploadInv
<1>1. Init => UploadInv
  <2> SUFFICES ASSUME Init PROVE UploadInv
    OBVIOUS
  <2> QED BY DrainerIsTask, NothingUploaded DEF Init, UploadInv, Uploading
<1>2. IInv /\ StoredInOrder /\ UploadInv /\ [Next]_vars => UploadInv'
  BY UploadStep
<1> QED BY <1>1, <1>2, Invariance, OrderCorrect, PTL DEF Spec

\* Whatever is torn, purged, appended or deleted under the reader that takes no lock,
\* the upload is made of payloads of stored records, in their order, each complete but
\* for the last when the buffer is full (storage_manager.c:557-650).
THEOREM UploadCorrect == Spec => []UploadIntact
<1>1. UploadInv => UploadIntact
  BY DEF UploadInv, UploadIntact, Payloads
<1> QED BY <1>1, UploadInvariance, PTL
============================================================================
