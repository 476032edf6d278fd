------------------------------ MODULE SendPath ------------------------------
(***************************************************************************)
(* Sending over ESP-NOW (esp_now_manager.c): the state machine task sends  *)
(* one frame at a time, guarded by s_send_sem, and waits for the driver's  *)
(* callback through s_send_done; the callback runs on the Wi-Fi task and   *)
(* may come after the wait has timed out.  The backup broadcast of a       *)
(* schedule goes to the driver unguarded (state_machine.c), and a UAV      *)
(* onboarding deletes the semaphores and creates them anew.                *)
(*                                                                         *)
(* The driver calls back once for each frame it accepted, in order, until  *)
(* ESP-NOW is deinitialised.                                               *)
(***************************************************************************)
EXTENDS Naturals, Sequences

CONSTANTS
    Attempts,  \* MAX_RETRIES, and the number of times a status is broadcast
    QueueLen   \* frames the driver holds before esp_now_send fails

ASSUME SendPathAssumption == Attempts \in Nat \ {0} /\ QueueLen \in Nat \ {0}

VARIABLES
    \* the state machine task
    pc,      \* where it is
    job,     \* what it sends: "schedule", "data", or the status "busy" or "resume"
    tries,   \* attempts made
    \* shared with the Wi-Fi task
    up,      \* ESP-NOW is initialised
    exists,  \* the semaphores that are not NULL
    sem,     \* s_send_sem is available
    done,    \* s_send_done is available
    status,  \* s_last_send_status
    \* the Wi-Fi task
    air,     \* frames accepted by the driver, not yet called back
    cb,      \* kind of the frame whose callback has not given s_send_sem yet
    \* history
    from,    \* the frame that set status
    verdict, \* the frame whose status let the last send succeed
    loose    \* s_send_sem is not exact: see Loosened

task == <<pc, job, tries>>
shared == <<up, exists, sem, done, status>>
vars == <<task, shared, air, cb, from, verdict, loose>>

Both == {"sem", "done"}
Places == {"loop", "take", "send", "await", "backup", "deinit", "away"}
Jobs == {"schedule", "data", "busy", "resume"}

\* current: the task still waits for this frame.
Frames == [kind : {"guarded", "backup"}, broadcast : BOOLEAN, current : BOOLEAN]

Init ==
    /\ pc = "loop" /\ job = "data" /\ tries = 0
    /\ up = TRUE /\ exists = Both /\ sem = TRUE /\ done = FALSE /\ status = "none"
    /\ air = <<>> /\ cb = "none"
    /\ from = "none" /\ verdict = "none" /\ loose = FALSE

----------------------------------------------------------------------------
(* The state machine task.                                                  *)

AtRest == air = <<>> /\ cb = "none"

Start(j) ==
    /\ job' = j /\ tries' = 0 /\ pc' = "take"
    /\ verdict' = "none"
    /\ loose' = (loose /\ ~AtRest)
    /\ UNCHANGED <<shared, air, cb, from>>

\* A member's chunk or a head's schedule, once the peer is registered.
StartSend(j) == pc = "loop" /\ j \in {"schedule", "data"} /\ Start(j)

\* The peer cannot be registered.
PeerFails(j) ==
    /\ pc = "loop" /\ j \in {"schedule", "data"}
    /\ job' = j /\ pc' = IF j = "schedule" THEN "backup" ELSE "loop"
    /\ UNCHANGED <<tries, shared, air, cb, from, verdict, loose>>

\* rf_receiver_check_trigger: the head begins a UAV onboarding.
Trigger == pc = "loop" /\ Start("busy")

AfterJob ==
    CASE job = "schedule" -> "backup"
      [] job = "busy" -> "deinit"
      [] OTHER -> "loop"

NextTry ==
    /\ tries' = tries + 1
    /\ pc' = IF tries + 1 < Attempts THEN "take" ELSE AfterJob
    /\ UNCHANGED job

\* Mutant: what an earlier frame left is not discarded.
ArmedAsIs == UNCHANGED <<status, done>>

\* The status and the completion of earlier frames are discarded.
Armed == status' = "none" /\ done' = FALSE

Take ==
    /\ pc = "take" /\ ("sem" \in exists => sem)
    /\ sem' = FALSE /\ Armed
    /\ pc' = "send"
    /\ UNCHANGED <<job, tries, up, exists, air, cb, from, verdict, loose>>

TakeTimesOut ==
    /\ pc = "take" /\ "sem" \in exists /\ ~sem
    /\ NextTry
    /\ UNCHANGED <<shared, air, cb, from, verdict, loose>>

\* esp_now_send accepts the frame; without s_send_sem nothing has kept it back.
Send ==
    /\ pc = "send" /\ up /\ Len(air) < QueueLen
    /\ air' = Append(air, [kind |-> "guarded", broadcast |-> job \in {"busy", "resume"},
                           current |-> TRUE])
    /\ loose' = (loose \/ "sem" \notin exists)
    /\ pc' = "await"
    /\ UNCHANGED <<job, tries, shared, cb, from, verdict>>

\* Mutant: the error path forgets the semaphore.
SemKept == sem

SemGivenBack == ("sem" \in exists)

SendError ==
    /\ pc = "send"
    /\ sem' = SemGivenBack
    /\ NextTry
    /\ UNCHANGED <<up, exists, done, status, air, cb, from, verdict, loose>>

\* The wait ends; a status broadcast does not look at the outcome.
Await ==
    /\ pc = "await" /\ "done" \in exists /\ done
    /\ done' = FALSE
    /\ IF status = "success" /\ job \in {"schedule", "data"}
       THEN pc' = "loop" /\ verdict' = from /\ UNCHANGED <<job, tries>>
       ELSE NextTry /\ UNCHANGED verdict
    /\ UNCHANGED <<up, exists, sem, status, air, cb, from, loose>>

Abandoned == [i \in DOMAIN air |-> [air[i] EXCEPT !.current = FALSE]]

\* Mutant: the wait that timed out releases the semaphore.
ReleasedOnTimeout == TRUE

SemAfterTimeout == sem

\* No callback in time, or no semaphore to wait for: the frame is left to the driver.
AwaitTimesOut ==
    /\ pc = "await" /\ ("done" \in exists => ~done)
    /\ air' = Abandoned
    /\ sem' = SemAfterTimeout
    /\ NextTry
    /\ UNCHANGED <<up, exists, done, status, cb, from, verdict, loose>>

\* The head's broadcast of a schedule whose unicast failed takes no semaphore and waits
\* for nothing.
Backup ==
    /\ pc = "backup"
    /\ pc' = "loop"
    /\ air' \in {air} \cup IF up /\ Len(air) < QueueLen
                           THEN {Append(air, [kind |-> "backup", broadcast |-> TRUE, current |-> FALSE])}
                           ELSE {}
    /\ UNCHANGED <<job, tries, shared, cb, from, verdict, loose>>

\* esp_now_manager_deinit deletes the semaphores whatever follows; ESP-NOW may fail to stop.
Deinit ==
    /\ pc = "deinit"
    /\ exists' = {} /\ sem' = FALSE /\ done' = FALSE
    /\ \/ up' = FALSE /\ air' = <<>>
       \/ UNCHANGED <<up, air>>
    /\ pc' = "away"
    /\ UNCHANGED <<job, tries, status, cb, from, verdict, loose>>

\* esp_now_manager_reinit, which returns at the first failure; RESUME is broadcast anyway.
\* A callback of before may still give the new semaphore.
Reinit ==
    /\ pc = "away"
    /\ \/ UNCHANGED <<up, exists, sem, done, status>>
       \/ up' = TRUE /\ UNCHANGED <<exists, sem, done, status>>
       \/ /\ up' = TRUE /\ exists' = {"sem"} /\ sem' = TRUE
          /\ UNCHANGED <<done, status>>
       \/ /\ up' = TRUE /\ exists' = Both /\ sem' = TRUE /\ done' = FALSE
          /\ status' \in {"none", status}
    /\ job' = "resume" /\ tries' = 0 /\ pc' = "take"
    /\ loose' = (loose \/ ~AtRest)
    /\ UNCHANGED <<air, cb, from, verdict>>

----------------------------------------------------------------------------
(* The Wi-Fi task: esp_now_send_cb.                                         *)

Source(f) ==
    CASE f.current -> "mine"
      [] f.kind = "backup" -> "backup"
      [] OTHER -> "stale"

\* The status is recorded and the waiting sender notified.  Nobody acknowledges a
\* broadcast, which always counts as sent.
CbRecord ==
    /\ air # <<>> /\ cb = "none"
    /\ status' \in IF air[1].broadcast THEN {"success"} ELSE {"success", "fail"}
    /\ from' = Source(air[1])
    /\ done' = (done \/ "done" \in exists)
    /\ cb' = air[1].kind
    /\ air' = Tail(air)
    /\ UNCHANGED <<task, up, exists, sem, verdict, loose>>

\* A backup's callback gives a semaphore that its send had not taken.
Loosened == cb = "backup" /\ ~sem

CbRelease ==
    /\ cb # "none"
    /\ sem' = (sem \/ "sem" \in exists)
    /\ loose' = (loose \/ Loosened)
    /\ cb' = "none"
    /\ UNCHANGED <<task, up, exists, done, status, air, from, verdict>>

----------------------------------------------------------------------------

Next ==
    \/ \E j \in Jobs : StartSend(j) \/ PeerFails(j)
    \/ Trigger \/ Take \/ TakeTimesOut \/ Send \/ SendError
    \/ Await \/ AwaitTimesOut \/ Backup \/ Deinit \/ Reinit
    \/ CbRecord \/ CbRelease

Spec == Init /\ [][Next]_vars

----------------------------------------------------------------------------
(* Properties.                                                              *)

\* Every variable holds a value of its type, and no job makes more than its attempts.
TypeOK ==
    /\ pc \in Places /\ job \in Jobs /\ tries \in 0..Attempts
    /\ pc \in {"take", "send", "await"} => tries < Attempts
    /\ up \in BOOLEAN /\ exists \subseteq Both /\ sem \in BOOLEAN /\ done \in BOOLEAN
    /\ status \in {"none", "success", "fail"}
    /\ air \in Seq(Frames) /\ Len(air) <= QueueLen
    /\ cb \in {"none", "guarded", "backup"}
    /\ from \in {"none", "mine", "backup", "stale"}
    /\ verdict \in {"none", "mine", "backup", "stale"}
    /\ loose \in BOOLEAN

IsGuarded(i) == air[i].kind = "guarded"

\* The send semaphore is never lost: while it is taken, a frame is about to be sent, is
\* in the air, or its callback is about to give it back (esp_now_manager.c:112-115).
SemaphoreReturns ==
    "sem" \in exists /\ ~sem =>
        pc = "send" \/ cb = "guarded" \/ \E i \in DOMAIN air : IsGuarded(i)

\* Two guarded frames are in the air together only if a backup broadcast's callback, or
\* an onboarding, has given the semaphore out of turn (esp_now_manager.c:112-115).
OneInFlight ==
    ~loose => \A i, j \in DOMAIN air : IsGuarded(i) /\ IsGuarded(j) => i = j

\* A send that reports success has not taken the callback of an earlier, abandoned frame
\* for its own, with the same exceptions (esp_now_manager.c:394-414, 696-699).
VerdictIsFresh == verdict = "stale" => loose
=============================================================================
