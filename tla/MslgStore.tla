----------------------------- MODULE MslgStore -----------------------------
(***************************************************************************)
(* The MSLG record store of components/storage_manager: the file data.lz,  *)
(* to which three tasks append records, from whose front the state machine *)
(* task pops batches, which the UAV upload reads without the lock, and     *)
(* which the 90 % purge and the upload's clear delete.                     *)
(*                                                                         *)
(* The file is a sequence of UNITS, so that a write that fails half way    *)
(* leaves the torn record the code leaves.  A record is four units:        *)
(*   part 1  header, first half   magic, raw_len, data_len                 *)
(*   part 2  header, second half  crc32, node_id, timestamp                *)
(*   part 3, part 4  payload                                               *)
(* A reader that is not at the start of a record misreads exactly as       *)
(* fread does: two units are taken for a header, two more for a payload.   *)
(*                                                                         *)
(* Every file-system call is one step, and a write is one step per unit    *)
(* that reaches the flash, so that other tasks, the lockless reader and a  *)
(* reset fall between them.  Each call may fail, also where the code does  *)
(* not look at the result.  A task that finds the lock taken and gives up  *)
(* after 5 s (write, pop, count) changes nothing here; clear, which goes   *)
(* on without the lock, does.                                              *)
(***************************************************************************)
EXTENDS Integers, Sequences

CONSTANTS
    Producers,    \* tasks that store records: app_main, the Wi-Fi task
    Drainer,      \* the state machine task: pops, requeues, uploads, clears
    NoTask,       \* the lock's holder when nobody holds it
    BatchMax,     \* BATCH_POP_MAX, state_machine.c:1029
    UploadMax,    \* payload units the upload buffer holds, uav_client.c:402
    Capacity,     \* units the SPIFFS partition holds
    PurgeAt,      \* SPIFFS_PURGE_THRESHOLD_PCT of Capacity
    MaxRecords,   \* bound: records written in a behaviour
    MaxFaults,    \* bound: failing file-system calls and lock timeouts
    MaxCrashes    \* bound: resets

Tasks == Producers \union {Drainer}
RecLen == 4

ASSUME TasksAssumption == Drainer \notin Producers /\ NoTask \notin Tasks
ASSUME LimitsAssumption ==
    /\ BatchMax \in Nat \ {0} /\ UploadMax \in Nat \ {0}
    /\ Capacity \in Nat /\ PurgeAt \in Nat /\ PurgeAt + RecLen <= Capacity
    /\ MaxRecords \in Nat /\ MaxFaults \in Nat /\ MaxCrashes \in Nat

Unit == [id : Nat, part : 1..RecLen]

VARIABLES
    file,     \* data.lz; an absent file and an empty one read alike
    temp,     \* temp.mslg
    holder,   \* who holds s_mslg_mutex
    count,    \* s_mslg_chunk_count, -1 until the first scan
    pc,       \* where each task is inside a storage_manager call
    pen,      \* units of the record that a write has put into the file
    named,    \* the open handle of the write names the present data.lz
    pos,      \* file position (1-based) of the holder's handle, in a pop or a scan
    popped,   \* chunks the holder has read
    hand,     \* the units of the popped batch, in the drainer's RAM
    rpos,     \* file position of the upload's handle
    up,       \* the payload units copied into the upload buffer
    fresh,    \* the upload's open handle still names the present data.lz
    cut,      \* history: a failing read or flush, which the pop under way does not
              \* see, has lost it the end of the file
    kept,     \* history: the pop that filled hand could not delete the file
    torn,     \* history: a reset has cut a record short
    nextId,   \* next record number; every attempt to write a record has its own
    faults,   \* history: calls that have failed
    crashes

WriteLabels == {"w_purge", "w_open", "w_append", "w_retry", "w_reopen", "w_again", "w_count"}
PopLabels == {"p_read", "p_peek", "p_tail", "p_last", "p_unlink", "p_rename", "p_count"}
LockedLabels == WriteLabels \union PopLabels \union {"s_scan"}
Labels == LockedLabels \union {"idle", "r_read", "x_post", "x_unlink", "x_count"}

volatile == <<holder, count, pc, pen, named, pos, popped, hand, rpos, up, fresh, cut, kept>>
vars == <<file, temp, volatile, torn, nextId, faults, crashes>>

----------------------------------------------------------------------------
(* Reading the file at a position *)

HeaderAt(p) == p + 1 <= Len(file)                    \* fread of 32 bytes succeeds
MagicAt(p) == file[p].part = 1
PayloadAt(p) == p + RecLen - 1 <= Len(file)
\* What the four reads at p come to: a chunk, or why there is none.
ChunkAt(p) == IF ~HeaderAt(p) THEN "short"
              ELSE IF ~MagicAt(p) THEN "bad_magic"
              ELSE IF ~PayloadAt(p) THEN "short_payload" ELSE "chunk"
\* Where a failed read leaves the handle: behind the bytes it consumed.
AfterFailure(p) == IF ChunkAt(p) = "bad_magic" THEN p + 2 ELSE Len(file) + 1
\* Mutant: the upload trusts the header, as the batch pop does.
CrcNotCompared(p) == TRUE
\* The payload's checksum is the one in the header's second half.
CrcAt(p) == \A k \in 1..3 : file[p + k] = [id |-> file[p + 1].id, part |-> k + 1]

Used == Len(file) + Len(temp)
Full == Used >= PurgeAt

Goto(t, l) == pc' = [pc EXCEPT ![t] = l]
Fault == faults < MaxFaults /\ faults' = faults + 1
\* unlink(data.lz), whose result nobody looks at: open handles no longer name the file.
Unlinked == file' = <<>> /\ fresh' = FALSE /\ named' = FALSE /\ kept' = FALSE /\ UNCHANGED faults
UnlinkFails == Fault /\ UNCHANGED <<file, fresh, named>>

Init ==
    /\ file = <<>> /\ temp = <<>>
    /\ holder = NoTask /\ count = -1
    /\ pc = [t \in Tasks |-> "idle"]
    /\ pen = 0 /\ named = FALSE
    /\ pos = 1 /\ popped = 0 /\ hand = <<>>
    /\ rpos = 1 /\ up = <<>> /\ fresh = FALSE
    /\ cut = FALSE /\ kept = FALSE /\ torn = FALSE
    /\ nextId = 1 /\ faults = 0 /\ crashes = 0

Lock(t, l) ==
    /\ pc[t] = "idle" /\ holder = NoTask
    /\ holder' = t
    /\ Goto(t, l)
\* The locals of a locked section end with it.
Unlock(t) ==
    /\ holder' = NoTask
    /\ Goto(t, "idle")
    /\ pos' = 1 /\ popped' = 0 /\ pen' = 0 /\ named' = FALSE /\ cut' = FALSE

\* What one group of actions leaves alone.
inWrite == <<pos, popped, cut>>
unchangedByWriter == <<temp, hand, rpos, up, torn, crashes>>
unchangedByPop == <<rpos, up, torn, nextId, crashes>>
inPop == <<pen, named>>
unchangedByScan == <<file, temp, hand, rpos, up, fresh, kept, torn, nextId, crashes>>
unchangedByUpload == <<temp, pen, pos, popped, hand, cut, torn, nextId, crashes>>

Uploading == pc[Drainer] \in {"r_read", "x_post", "x_unlink", "x_count"}

----------------------------------------------------------------------------
(* storage_manager_write_compressed -> write_mslg_chunk *)

\* The drainer writes only to put popped records back (state_machine.c:1046..1122);
\* the others store nothing while the role is UAV_ONBOARDING (ms_node.c:625), but a
\* write under way goes on.
WriteLock(t) ==
    /\ IF t = Drainer THEN hand # <<>> ELSE ~Uploading
    /\ nextId <= MaxRecords
    /\ Lock(t, "w_purge")
    /\ nextId' = nextId + 1
    /\ UNCHANGED <<file, count, pen, named, inWrite, fresh, kept, faults, unchangedByWriter>>

\* The record under the pen, and its first n units.
Record == nextId - 1
FirstUnits(n) == [k \in 1..n |-> [id |-> Record, part |-> k]]

\* Mutant: the purge leaves the cached count alone.
PurgedKeepsCount == UNCHANGED count /\ (Unlinked \/ (UnlinkFails /\ UNCHANGED kept))
\* storage_manager_purge_if_full: the count is cleared even if the file is still there.
Purged == count' = 0 /\ (Unlinked \/ (UnlinkFails /\ UNCHANGED kept))
\* There is room, or esp_spiffs_info fails.
NotPurged ==
    /\ (~Full /\ UNCHANGED faults) \/ Fault
    /\ UNCHANGED <<file, count, fresh, named, kept>>

WritePurge(t) ==
    /\ pc[t] = "w_purge"
    /\ (Full /\ Purged) \/ NotPurged
    /\ Goto(t, "w_open")
    /\ UNCHANGED <<holder, pen, inWrite, nextId, unchangedByWriter>>

\* fopen of the first attempt, or of the second.
WriteOpen(t) ==
    /\ \/ pc[t] = "w_open" /\ Goto(t, "w_append")
       \/ pc[t] = "w_reopen" /\ Goto(t, "w_again")
    /\ named' = TRUE /\ pen' = 0
    /\ UNCHANGED <<file, holder, count, inWrite, fresh, kept, nextId, faults, unchangedByWriter>>

\* fopen fails: ESP_FAIL at once.
WriteOpenFails(t) ==
    /\ pc[t] \in {"w_open", "w_reopen"}
    /\ Fault
    /\ Unlock(t)
    /\ UNCHANGED <<file, count, fresh, kept, nextId, unchangedByWriter>>

\* A unit of header or payload reaches the file; with the last one the file is closed.
WriteUnit(t) ==
    /\ pc[t] \in {"w_append", "w_again"}
    /\ named /\ Used < Capacity
    /\ file' = Append(file, [id |-> Record, part |-> pen + 1])
    /\ pen' = pen + 1
    /\ IF pen + 1 = RecLen THEN Goto(t, "w_count") ELSE UNCHANGED pc
    /\ UNCHANGED <<holder, count, named, inWrite, fresh, kept, nextId, faults, unchangedByWriter>>

\* A write falls short: it fails, there is no room, or clear has deleted the file under
\* the handle.  If it is the flush in fclose that fails, the write passes for a success.
WriteFails(t) ==
    /\ pc[t] \in {"w_append", "w_again"}
    /\ \/ Fault
       \/ Used >= Capacity /\ faults' = faults + 1
       \/ ~named /\ UNCHANGED faults
    /\ \/ pc[t] = "w_append" /\ Goto(t, "w_retry") /\ UNCHANGED <<holder, pen, named, inWrite>>
       \/ pc[t] = "w_again" /\ Unlock(t)
       \/ Goto(t, "w_count") /\ UNCHANGED <<holder, pen, named, inWrite>>
    /\ UNCHANGED <<file, count, fresh, kept, nextId, unchangedByWriter>>

\* After a failed write: nothing more if the store is not full, and the torn record
\* stays; else one purge and one more attempt.
WriteGivesUp(t) ==
    /\ pc[t] = "w_retry"
    /\ (~Full /\ UNCHANGED faults) \/ Fault
    /\ Unlock(t)
    /\ UNCHANGED <<file, count, fresh, kept, nextId, unchangedByWriter>>

WriteRetry(t) ==
    /\ pc[t] = "w_retry" /\ Full
    /\ Purged
    /\ Goto(t, "w_reopen")
    /\ nextId' = nextId + 1
    /\ UNCHANGED <<holder, pen, inWrite, unchangedByWriter>>

WriteCount(t) ==
    /\ pc[t] = "w_count"
    /\ count' = IF count >= 0 THEN count + 1 ELSE count
    /\ Unlock(t)
    /\ UNCHANGED <<file, fresh, kept, nextId, faults, unchangedByWriter>>

----------------------------------------------------------------------------
(* storage_manager_pop_mslg_chunks_batch, and the end of the drain it serves *)

\* The DATA phase, in which the drainer pops, began with a call for the chunk count
\* (state_machine.c:288): the cache is seeded unless that call timed out.
PopLock ==
    /\ hand = <<>>
    /\ IF count >= 0 THEN UNCHANGED faults ELSE Fault
    /\ Lock(Drainer, "p_read")
    /\ UNCHANGED <<file, temp, count, inPop, pos, popped, hand, fresh, cut, kept, unchangedByPop>>

\* Phase 1, one chunk: no checksum is compared.
PopChunk ==
    /\ pc[Drainer] = "p_read"
    /\ popped < BatchMax /\ ChunkAt(pos) = "chunk"
    /\ pos' = pos + RecLen
    /\ popped' = popped + 1
    /\ UNCHANGED <<file, temp, holder, count, pc, inPop, hand, fresh, cut, kept, faults,
                   unchangedByPop>>

\* Phase 1 ends at position q: the batch is full; or a read met something else than a
\* chunk, and what it consumed stays consumed; or malloc failed, and the code sought
\* back; or a read failed half way.
StopsAt(q) ==
    \/ popped = BatchMax /\ q = pos /\ UNCHANGED faults
    \/ popped < BatchMax /\ ChunkAt(pos) # "chunk" /\ q = AfterFailure(pos) /\ UNCHANGED faults
    \/ popped < BatchMax /\ ChunkAt(pos) \in {"chunk", "short_payload"} /\ q = pos
       /\ UNCHANGED faults
    \/ popped < BatchMax /\ q - pos < RecLen /\ Fault

PopNothing ==
    /\ pc[Drainer] = "p_read" /\ popped = 0
    /\ \E q \in pos..Len(file) + 1 : StopsAt(q)
    /\ Unlock(Drainer)
    /\ UNCHANGED <<file, temp, count, hand, fresh, kept, unchangedByPop>>

PopStop ==
    /\ pc[Drainer] = "p_read" /\ popped > 0
    /\ \E q \in pos..Len(file) + 1 : StopsAt(q) /\ pos' = q
    /\ Goto(Drainer, "p_peek")
    /\ UNCHANGED <<file, temp, holder, count, inPop, popped, hand, fresh, cut, kept, unchangedByPop>>

\* Mutant: the copy starts at the head of the file.
WholeFile == file

\* What the batch took of the file, skipped bytes included, and what remains.
Taken == SubSeq(file, 1, pos - 1)
Remainder == SubSeq(file, pos, Len(file))
\* The copy needs room beside the file; temp.mslg, opened "wb", gives up its own.
CopyFits == Len(file) + Len(Remainder) <= Capacity

\* "Is there anything left?"  A read that fails says no.
PopPeek ==
    /\ pc[Drainer] = "p_peek"
    /\ \/ Remainder = <<>> /\ Goto(Drainer, "p_last") /\ UNCHANGED <<cut, faults>>
       \/ Remainder # <<>> /\ Goto(Drainer, "p_tail") /\ UNCHANGED <<cut, faults>>
       \/ Remainder # <<>> /\ Goto(Drainer, "p_last") /\ cut' = TRUE /\ Fault
    /\ UNCHANGED <<file, temp, holder, count, inPop, pos, popped, hand, fresh, kept, unchangedByPop>>

\* Mutant: the lock is given back after the copy, before the file is replaced.
CopyUnlocks ==
    /\ pc[Drainer] = "p_tail" /\ CopyFits
    /\ temp' = Remainder
    /\ holder' = NoTask
    /\ Goto(Drainer, "p_unlink")
    /\ UNCHANGED <<file, count, inPop, pos, popped, hand, fresh, cut, kept, faults, unchangedByPop>>

\* Phase 2: copy the tail to temp.mslg.
PopCopyTail ==
    /\ pc[Drainer] = "p_tail" /\ CopyFits
    /\ temp' = Remainder
    /\ Goto(Drainer, "p_unlink")
    /\ UNCHANGED <<file, holder, count, inPop, pos, popped, hand, fresh, cut, kept, faults,
                   unchangedByPop>>

\* A part of the tail.
Pieces == {SubSeq(Remainder, 1, n) : n \in 0..Len(Remainder) - 1}

\* The loop takes a failing fread for the end of the file, and the flush in fclose(out)
\* is not looked at: the copy is short and the pop goes on.
PopCopyFallsShort ==
    /\ pc[Drainer] = "p_tail"
    /\ Fault
    /\ temp' \in Pieces
    /\ cut' = TRUE
    /\ Goto(Drainer, "p_unlink")
    /\ UNCHANGED <<file, holder, count, inPop, pos, popped, hand, fresh, kept, unchangedByPop>>

\* fwrite falls short, for want of room or otherwise, and temp.mslg is removed, unless
\* that fails as well; or it cannot be opened.  The pop fails and the file is as it was.
PopCopyFails ==
    /\ pc[Drainer] = "p_tail"
    /\ \/ ~CopyFits /\ temp' = <<>> /\ UNCHANGED faults
       \/ Fault /\ temp' \in {temp, <<>>} \union Pieces
    /\ Unlock(Drainer)
    /\ UNCHANGED <<file, count, hand, fresh, kept, unchangedByPop>>

\* The batch is the caller's, whether the file that holds it is deleted or not.
PopUnlink ==
    /\ \/ pc[Drainer] = "p_last" /\ Goto(Drainer, "p_count")
       \/ pc[Drainer] = "p_unlink" /\ Goto(Drainer, "p_rename")
    /\ Unlinked \/ (UnlinkFails /\ kept' = TRUE)
    /\ hand' = Taken
    /\ cut' = FALSE
    /\ UNCHANGED <<temp, holder, count, pen, pos, popped, unchangedByPop>>

\* rename fails when the old file is still there; its result is not looked at.
PopRename ==
    /\ pc[Drainer] = "p_rename"
    /\ \/ file = <<>> /\ file' = temp /\ temp' = <<>> /\ UNCHANGED faults
       \/ file # <<>> /\ UNCHANGED <<file, temp, faults>>
       \/ file = <<>> /\ Fault /\ UNCHANGED <<file, temp>>
    /\ Goto(Drainer, "p_count")
    /\ UNCHANGED <<holder, count, inPop, pos, popped, hand, fresh, cut, kept, unchangedByPop>>

PopCount ==
    /\ pc[Drainer] = "p_count"
    /\ count' = IF count >= popped THEN count - popped ELSE 0
    /\ Unlock(Drainer)
    /\ UNCHANGED <<file, temp, hand, fresh, kept, faults, unchangedByPop>>

\* The batch has been sent or put back; its buffers are freed.
DrainEnds ==
    /\ pc[Drainer] = "idle" /\ hand # <<>>
    /\ hand' = <<>> /\ kept' = FALSE
    /\ UNCHANGED <<file, temp, holder, count, pc, inPop, pos, popped, fresh, cut, faults,
                   unchangedByPop>>

----------------------------------------------------------------------------
(* storage_manager_get_mslg_chunk_count: the one scan that seeds the cache *)

ScanLock(t) ==
    /\ count < 0
    /\ Lock(t, "s_scan")
    /\ UNCHANGED <<count, inPop, pos, popped, cut, faults, unchangedByScan>>

\* fseek does not fail behind the end: a header without its payload counts.
ScanStep(t) ==
    /\ pc[t] = "s_scan" /\ ChunkAt(pos) \in {"chunk", "short_payload"}
    /\ pos' = pos + RecLen
    /\ popped' = popped + 1
    /\ UNCHANGED <<holder, count, pc, inPop, cut, faults, unchangedByScan>>

\* The scan ends at the end, at what is no header, or where fopen or fread fails.
ScanEnds(t) ==
    /\ pc[t] = "s_scan"
    /\ (ChunkAt(pos) \in {"short", "bad_magic"} /\ UNCHANGED faults) \/ Fault
    /\ count' = popped
    /\ Unlock(t)
    /\ UNCHANGED unchangedByScan

----------------------------------------------------------------------------
(* uav_client_run_onboarding: read_all_decompressed (no lock), POST, clear *)

ReadOpen ==
    /\ pc[Drainer] = "idle" /\ hand = <<>>
    /\ Goto(Drainer, "r_read")
    /\ fresh' = TRUE
    /\ UNCHANGED <<file, holder, count, rpos, up, named, kept, faults, unchangedByUpload>>

\* One chunk whose checksum is right, or as much of it as the buffer takes.
ReadChunk ==
    LET room == UploadMax - Len(up) IN
    /\ pc[Drainer] = "r_read"
    /\ fresh /\ room > 0
    /\ ChunkAt(rpos) = "chunk" /\ CrcAt(rpos)
    /\ up' = up \o SubSeq(file, rpos + 2, IF room >= 2 THEN rpos + 3 ELSE rpos + 2)
    /\ rpos' = rpos + RecLen
    /\ UNCHANGED <<file, holder, count, pc, fresh, named, kept, faults, unchangedByUpload>>

UploadEnds == Goto(Drainer, "idle") /\ rpos' = 1 /\ up' = <<>> /\ fresh' = FALSE

\* The buffer is full, the file was deleted under the handle, memory ran out, a read
\* failed, or no intact chunk follows.  With nothing read the upload carries no data.
ReadStop ==
    /\ pc[Drainer] = "r_read"
    /\ IF up = <<>> THEN UploadEnds ELSE Goto(Drainer, "x_post") /\ UNCHANGED <<rpos, up, fresh>>
    /\ UNCHANGED <<file, holder, count, named, kept, faults, unchangedByUpload>>

\* The server's answer: only HTTP 200 clears the store.
PostFails ==
    /\ pc[Drainer] = "x_post"
    /\ UploadEnds
    /\ UNCHANGED <<file, holder, count, named, kept, faults, unchangedByUpload>>

\* storage_manager_clear does not look at the result of mslg_lock.
ClearLock ==
    /\ pc[Drainer] = "x_post"
    /\ \/ holder = NoTask /\ holder' = Drainer /\ UNCHANGED faults
       \/ holder # NoTask /\ Fault /\ UNCHANGED holder
    /\ Goto(Drainer, "x_unlink")
    /\ UNCHANGED <<file, count, rpos, up, fresh, named, kept, unchangedByUpload>>

ClearUnlink ==
    /\ pc[Drainer] = "x_unlink"
    /\ Unlinked \/ (UnlinkFails /\ UNCHANGED kept)
    /\ Goto(Drainer, "x_count")
    /\ UNCHANGED <<holder, count, rpos, up, unchangedByUpload>>

\* Giving back a mutex one does not hold does nothing.
ClearCount ==
    /\ pc[Drainer] = "x_count"
    /\ count' = 0
    /\ holder' = IF holder = Drainer THEN NoTask ELSE holder
    /\ UploadEnds
    /\ UNCHANGED <<file, named, kept, faults, unchangedByUpload>>

----------------------------------------------------------------------------
(* A reset at any point: RAM is gone, SPIFFS stays as the last call left it. *)

Reset ==
    /\ crashes < MaxCrashes
    /\ crashes' = crashes + 1
    /\ holder' = NoTask /\ count' = -1
    /\ pc' = [t \in Tasks |-> "idle"]
    /\ pen' = 0 /\ named' = FALSE
    /\ pos' = 1 /\ popped' = 0 /\ hand' = <<>>
    /\ rpos' = 1 /\ up' = <<>> /\ fresh' = FALSE
    /\ cut' = FALSE /\ kept' = FALSE
    /\ torn' = (torn \/ (named /\ pen \in 1..RecLen - 1))
    /\ UNCHANGED <<nextId, faults>>

\* Mutant: the boot takes a leftover temp.mslg for the newer file.
BootAdoptsTemp ==
    /\ Reset
    /\ IF temp = <<>> THEN UNCHANGED <<file, temp>> ELSE file' = temp /\ temp' = <<>>

Crash == Reset /\ UNCHANGED <<file, temp>>

Write(t) == \/ WriteLock(t) \/ WritePurge(t) \/ WriteOpen(t) \/ WriteOpenFails(t)
            \/ WriteUnit(t) \/ WriteFails(t) \/ WriteGivesUp(t) \/ WriteRetry(t) \/ WriteCount(t)
Pop == \/ PopLock \/ PopChunk \/ PopNothing \/ PopStop \/ PopPeek
       \/ PopCopyTail \/ PopCopyFallsShort \/ PopCopyFails
       \/ PopUnlink \/ PopRename \/ PopCount \/ DrainEnds
Scan(t) == ScanLock(t) \/ ScanStep(t) \/ ScanEnds(t)
Upload == ReadOpen \/ ReadChunk \/ ReadStop \/ PostFails
          \/ ClearLock \/ ClearUnlink \/ ClearCount

Next ==
    \/ \E t \in Tasks : Write(t) \/ Scan(t)
    \/ Pop
    \/ Upload
    \/ Crash

Spec == Init /\ [][Next]_vars

----------------------------------------------------------------------------
(* Properties *)

TypeOK ==
    /\ file \in Seq(Unit) /\ temp \in Seq(Unit)
    /\ holder \in Tasks \union {NoTask}
    /\ count \in Int /\ count >= -1
    /\ pc \in [Tasks -> Labels]
    /\ pen \in 0..RecLen /\ {named, fresh, cut, kept, torn} \subseteq BOOLEAN
    /\ pos \in Nat /\ pos >= 1 /\ popped \in Nat /\ hand \in Seq(Unit)
    /\ rpos \in Nat /\ rpos >= 1 /\ up \in Seq(Unit)
    /\ nextId \in Nat /\ nextId >= 1 /\ faults \in Nat /\ crashes \in Nat

\* The store as its users see it.  Between unlink and rename the records are those
\* of temp.mslg.
Log == IF pc[Drainer] = "p_rename" /\ file = <<>> THEN temp ELSE file
RL == INSTANCE RecordLog WITH
        log <- Log, taken <- hand, again <- kept, used <- Used,
        answered <- pc[Drainer] = "x_unlink", failures <- faults + crashes, hurt <- cut

\* The store is a RecordLog whatever the tasks, faults and resets do: every step appends a
\* unit of the newest record, hands out a prefix, wipes a store that is full or uploaded, or
\* loses what a call that fails in that very operation, or a reset, costs.
ImplementsRecordLog == RL!Spec

\* Records leave in the order they were stored, and those handed out are gone from the
\* store: they come out a second time only if the file could not be deleted, and then all
\* of them (BATCH pop and requeue against concurrent writers, storage_manager.c:907-1034).
StoredInOrder == RL!InOrder

\* Only the mutex's holder is inside a locked section (storage_manager.c:39).
LockHeld == \A t \in Tasks : pc[t] \in LockedLabels => holder = t

\* When the pop is about to replace data.lz, temp.mslg holds exactly what the file now has
\* behind the batch, or its beginning if a call has failed in the copy: no append between
\* the copy and the rename is lost (storage_manager.c:975-1014).
TailIsCurrent ==
    pc[Drainer] = "p_unlink" => IF cut THEN temp \in Pieces ELSE temp = Remainder

\* While no call has failed and no reset has cut a write short, an unlocked store holds
\* whole records only and the cached chunk count, once seeded, is their number
\* (storage_manager.c:82, 330, 1021).
CountExact ==
    faults = 0 /\ ~torn /\ holder = NoTask =>
        /\ \A i \in 1..Len(file) : file[i].part = ((i - 1) % RecLen) + 1
        /\ count >= 0 => Len(file) = RecLen * count

\* Whatever was torn, purged or replaced under the lockless reader, the upload
\* consists of payloads of stored records, in their order, each complete but for
\* the last when the buffer is full (storage_manager.c:557-650).
UploadIntact ==
    /\ \A i \in 1..Len(up) : up[i].part = 3 + ((i - 1) % 2)
    /\ \A i \in 1..Len(up) - 1 :
          IF i % 2 = 1 THEN up[i].id = up[i + 1].id ELSE up[i].id < up[i + 1].id

----------------------------------------------------------------------------
(* Two statements of the documents that the code does not keep *)

\* "Even if transmission fails, data is safe on local storage.  Burst drain ensures
\* eventual delivery" (docs/DATA_STORAGE.md:17): a batch can be popped from a store
\* in which no call has failed, because the copy of the tail finds room.
DrainFindsRoom ==
    pc[Drainer] = "p_tail" /\ faults = 0 => CopyFits

\* "This uploads ALL stored sensor data to the UAV server" (state_machine.c:1186):
\* what the clear deletes has been uploaded.
ClearedWasUploaded ==
    [][ClearUnlink /\ faults = 0 =>
          \A i \in 1..Len(file) :
              file[i].part \in {3, 4} => \E j \in 1..Len(up) : up[j] = file[i]]_vars
============================================================================
