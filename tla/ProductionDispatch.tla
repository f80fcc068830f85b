------------------------- MODULE ProductionDispatch -------------------------
(***************************************************************************)
(* From a trigger to a settled execution.  Each delivery of an event is    *)
(* one call of dispatchProductionExecution (lib/runtime/execution-         *)
(* dispatch.ts): reserve the idempotency key, reserve a concurrency slot,  *)
(* insert the execution row, enqueue the job.  Workers run the jobs        *)
(* (lib/runtime/worker.ts, 'run_workflow_execution'), and the self-healer  *)
(* sweeps what dead processes left.  The call draws its own execution id,  *)
(* so the delivery itself names the execution.                             *)
(***************************************************************************)
EXTENDS Naturals, FiniteSets

CONSTANTS
    Deliveries,          \* calls of dispatchProductionExecution
    NoOne,               \* no execution
    KeyOf,               \* the idempotency key each one derives
    WorkflowOf, UserOf,  \* what it triggers, and for whom
    MaxPerUser, MaxPerWorkflow,
    Attempts,            \* BullMQ attempts of a job
    LeaseCoversDispatch, \* a call inserts its row within the key's 45 s lease
    RepliesMayBeLost     \* a database statement may commit although its caller sees an error

ASSUME DispatchAssumption ==
    /\ NoOne \notin Deliveries
    /\ MaxPerUser \in Nat /\ MaxPerWorkflow \in Nat
    /\ Attempts \in Nat \ {0}
    /\ LeaseCoversDispatch \in BOOLEAN /\ RepliesMayBeLost \in BOOLEAN

Keys == {KeyOf[d] : d \in Deliveries}

VARIABLES
    locks,   \* runtime_execution_locks: the row of each execution, and its lease
    slots,   \* runtime_concurrency_reservations
    rows,    \* workflow_executions_v2.status
    aged,    \* executions whose updated_at is past the sweeps' ten minutes
    jobs,    \* execution_queue: the BullMQ job with each key as its jobId
    pc,      \* where each call is, and in the end what it answered
    winner,  \* the execution a duplicate found behind its key
    sweeps,  \* writes that a sweep has decided on and not yet made
    missed   \* history: what a call tried to take back, and did not

vars == <<locks, slots, rows, aged, jobs, pc, winner, sweeps, missed>>

InCall == {"slot", "insert", "enqueue", "lookup", "status", "unslot", "unlock", "giveup", "fail"}
Answers == {"accepted", "duplicate", "unlocated", "refused", "unavailable"}

Job == [exec : Deliveries \cup {NoOne},
        state : {"none", "waiting", "active", "running", "settled", "thrown",
                 "released", "rethrown", "completed", "failed"},
        made : 0 .. Attempts,     \* attempts used up
        stalled : BOOLEAN]        \* it has lost a worker once

NoJob == [exec |-> NoOne, state |-> "none", made |-> 0, stalled |-> FALSE]

TypeOK ==
    /\ locks \in [Deliveries -> {"none", "live", "lapsed"}]
    /\ slots \in [Deliveries -> {"none", "held", "lapsed", "released"}]
    /\ rows \in [Deliveries -> {"none", "queued", "running", "waiting", "success", "failed"}]
    /\ aged \subseteq Deliveries
    /\ jobs \in [Keys -> Job]
    /\ pc \in [Deliveries -> {"idle", "dead"} \cup InCall \cup Answers]
    /\ winner \in [Deliveries -> Deliveries \cup {NoOne}]
    /\ sweeps \subseteq {"key", "run"} \X Deliveries
    /\ missed \subseteq {"key", "slot", "row"} \X Deliveries

Init ==
    /\ locks = [d \in Deliveries |-> "none"]
    /\ slots = [d \in Deliveries |-> "none"]
    /\ rows = [d \in Deliveries |-> "none"]
    /\ aged = {}
    /\ jobs = [k \in Keys |-> NoJob]
    /\ pc = [d \in Deliveries |-> "idle"]
    /\ winner = [d \in Deliveries |-> NoOne]
    /\ sweeps = {}
    /\ missed = {}
-----------------------------------------------------------------------------
(* dispatchProductionExecution *)

Goto(d, next) == pc' = [pc EXCEPT ![d] = next]
Step(d, from, to) == pc[d] = from /\ Goto(d, to)

\* reserveIdempotencyKey: idempotency_key is unique, the first insert wins.
Locked(k) == {e \in Deliveries : KeyOf[e] = k /\ locks[e] # "none"}

ReserveKey(d) ==
    /\ Locked(KeyOf[d]) = {}
    /\ Step(d, "idle", "slot")
    /\ locks' = [locks EXCEPT ![d] = "live"]
    /\ UNCHANGED <<slots, rows, aged, jobs, winner, sweeps, missed>>

KeyTaken(d) ==
    /\ Locked(KeyOf[d]) # {}
    /\ Step(d, "idle", "lookup")
    /\ UNCHANGED <<locks, slots, rows, aged, jobs, winner, sweeps, missed>>

\* The row that won may be gone again by the time it is looked up, and a read
\* that fails counts as one that found nothing.
FindWinner(d) ==
    /\ \/ \E e \in Locked(KeyOf[d]) :
            Step(d, "lookup", "status") /\ winner' = [winner EXCEPT ![d] = e]
       \/ Step(d, "lookup", "unlocated") /\ UNCHANGED winner
    /\ UNCHANGED <<locks, slots, rows, aged, jobs, sweeps, missed>>

ReadWinner(d) ==
    /\ \/ Step(d, "status", "duplicate") /\ rows[winner[d]] # "none"
       \/ Step(d, "status", "unlocated")
    /\ UNCHANGED <<locks, slots, rows, aged, jobs, winner, sweeps, missed>>

\* reserve_concurrency_slot: one transaction under the advisory locks.  It ends
\* every lapsed reservation before it counts.
Reclaimed == [e \in Deliveries |-> IF slots[e] = "lapsed" THEN "released" ELSE slots[e]]
Held(sl, S) == Cardinality({e \in S : sl[e] = "held"})
SameUser(d) == {e \in Deliveries : UserOf[e] = UserOf[d]}
SameWorkflow(d) == {e \in Deliveries : WorkflowOf[e] = WorkflowOf[d]}
\* Mutant: off by one.
HasRoomAtLimit(d) == /\ Held(slots, SameUser(d)) <= MaxPerUser
                     /\ Held(slots, SameWorkflow(d)) <= MaxPerWorkflow

HasRoom(d) == /\ Held(slots, SameUser(d)) < MaxPerUser
              /\ Held(slots, SameWorkflow(d)) < MaxPerWorkflow

ReserveSlot(d) ==
    /\ slots' = IF HasRoom(d) THEN [Reclaimed EXCEPT ![d] = "held"] ELSE Reclaimed
    /\ \/ HasRoom(d) /\ Step(d, "slot", "insert")
       \/ ~HasRoom(d) /\ Step(d, "slot", "unlock")
       \/ RepliesMayBeLost /\ Step(d, "slot", "unlock")   \* fails closed
    /\ UNCHANGED <<locks, rows, aged, jobs, winner, sweeps, missed>>

\* Mutant: a failed insert gives back the key and forgets the slot.
InsertRowKeepSlot(d) ==
    /\ \/ Step(d, "insert", "enqueue") /\ rows' = [rows EXCEPT ![d] = "queued"]
       \/ Step(d, "insert", "unlock") /\ UNCHANGED rows
    /\ UNCHANGED <<locks, slots, aged, jobs, winner, sweeps, missed>>

InsertRow(d) ==
    /\ \/ /\ rows' = [rows EXCEPT ![d] = "queued"]
          /\ \/ Step(d, "insert", "enqueue")
             \/ RepliesMayBeLost /\ Step(d, "insert", "unslot")
       \/ Step(d, "insert", "unslot") /\ UNCHANGED rows
    /\ UNCHANGED <<locks, slots, aged, jobs, winner, sweeps, missed>>

\* BullMQ keeps one job per jobId: adding a second is a silent no-op that
\* reports the first as enqueued.
Enqueue(d) ==
    /\ \/ /\ Step(d, "enqueue", "accepted")
          /\ jobs' = IF jobs[KeyOf[d]].state # "none" THEN jobs
                     ELSE [jobs EXCEPT ![KeyOf[d]] = [NoJob EXCEPT !.exec = d, !.state = "waiting"]]
       \/ Step(d, "enqueue", "giveup") /\ UNCHANGED jobs   \* queue disabled or refused
    /\ UNCHANGED <<locks, slots, rows, aged, winner, sweeps, missed>>

Freed(d) == [slots EXCEPT ![d] = IF @ \in {"held", "lapsed"} THEN "released" ELSE @]

\* A compensation looks at no error: it takes effect or it does not, and the
\* call goes on to its answer either way.
Compensate(what, d, done) == missed' = IF done THEN missed ELSE missed \cup {<<what, d>>}

FreeSlot(d) ==
    /\ slots' \in {slots, Freed(d)}
    /\ Compensate("slot", d, slots' = Freed(d))

\* The row could not be inserted: releaseConcurrencySlot, releaseIdempotencyKey.
\* No slot was granted: releaseIdempotencyKey alone.
Unslot(d) ==
    /\ Step(d, "unslot", "unlock")
    /\ FreeSlot(d)
    /\ UNCHANGED <<locks, rows, aged, jobs, winner, sweeps>>

Unlock(d) ==
    /\ Step(d, "unlock", "refused")
    /\ \E done \in BOOLEAN :
         /\ locks' = IF done THEN [locks EXCEPT ![d] = "none"] ELSE locks
         /\ Compensate("key", d, done)
    /\ UNCHANGED <<slots, rows, aged, jobs, winner, sweeps>>

\* The job could not be enqueued: the key stays, with a failed row behind it.
GiveUp(d) ==
    /\ Step(d, "giveup", "fail")
    /\ FreeSlot(d)
    /\ UNCHANGED <<locks, rows, aged, jobs, winner, sweeps>>

WriteRow(d, status) ==
    /\ rows' = [rows EXCEPT ![d] = status]
    /\ aged' = aged \ {d}

\* An update that fails and that nobody asks about.
WriteRowOrNot(d, status) == WriteRow(d, status) \/ UNCHANGED <<rows, aged>>

FailRow(d) ==
    /\ Step(d, "fail", "unavailable")
    /\ WriteRowOrNot(d, "failed")
    /\ Compensate("row", d, rows'[d] = "failed")
    /\ UNCHANGED <<locks, slots, jobs, winner, sweeps>>

\* The serverless process dies or is cut off between two statements.
Crash(d) ==
    /\ pc[d] \in InCall
    /\ Goto(d, "dead")
    /\ UNCHANGED <<locks, slots, rows, aged, jobs, winner, sweeps, missed>>
-----------------------------------------------------------------------------
(* the worker *)

JobTo(k, next) == jobs' = [jobs EXCEPT ![k].state = next]
JobStep(k, from, to) == jobs[k].state = from /\ JobTo(k, to)

Take(k) ==
    /\ JobStep(k, "waiting", "active")
    /\ UNCHANGED <<locks, slots, rows, aged, pc, winner, sweeps, missed>>

\* Mutant: attempts without end.
RetryForever(k) ==
    jobs' = [jobs EXCEPT ![k].made = @ + 1, ![k].state = "waiting"]

\* An attempt that throws is retried with a backoff while attempts are left.
UseAttempt(k) ==
    LET made == jobs[k].made + 1
    IN  jobs' = [jobs EXCEPT ![k].made = made,
                             ![k].state = IF made < Attempts THEN "waiting" ELSE "failed"]

\* Draining, a lease or the ownership is another's: the attempt is used up.
\* Isolated or quarantined: BullUnrecoverableError.  No snapshot to run: the
\* slot is released and the attempt used up.
TurnAway(k) ==
    /\ jobs[k].state = "active"
    /\ \/ UseAttempt(k) /\ UNCHANGED slots
       \/ JobTo(k, "failed") /\ UNCHANGED slots
       \/ UseAttempt(k) /\ slots' = Freed(jobs[k].exec)
    /\ UNCHANGED <<locks, rows, aged, pc, winner, sweeps, missed>>

\* initializeExecution: 'running', whatever the row said.
StartRun(k) ==
    /\ JobStep(k, "active", "running")
    /\ WriteRowOrNot(jobs[k].exec, "running")
    /\ UNCHANGED <<locks, slots, pc, winner, sweeps, missed>>

\* The engine settles or parks the execution, or leaves it 'running': another
\* process holds the engine's lock, or the update failed.
EndRun(k) ==
    /\ JobStep(k, "running", "settled")
    /\ \/ \E status \in {"success", "failed", "waiting"} : WriteRow(jobs[k].exec, status)
       \/ UNCHANGED <<rows, aged>>
    /\ UNCHANGED <<locks, slots, pc, winner, sweeps, missed>>

\* It throws, before its first write or after: the catch block fails the row.
Throw(k) ==
    /\ jobs[k].state \in {"active", "running"}
    /\ JobTo(k, "thrown")
    /\ IF rows[jobs[k].exec] \in {"queued", "running"}
       THEN WriteRowOrNot(jobs[k].exec, "failed")
       ELSE UNCHANGED <<rows, aged>>
    /\ UNCHANGED <<locks, slots, pc, winner, sweeps, missed>>

\* The finally block of the run, and then BullMQ hears of the outcome.
ReleaseSlot(k) ==
    /\ JobStep(k, "settled", "released") \/ JobStep(k, "thrown", "rethrown")
    /\ slots' \in {slots, Freed(jobs[k].exec)}
    /\ UNCHANGED <<locks, rows, aged, pc, winner, sweeps, missed>>

Report(k) ==
    /\ \/ JobStep(k, "released", "completed")
       \/ jobs[k].state = "rethrown" /\ UseAttempt(k)
    /\ UNCHANGED <<locks, slots, rows, aged, pc, winner, sweeps, missed>>

\* BullMQ gives a stalled job to another worker once, then fails it.
WorkerDies(k) ==
    /\ jobs[k].state \in {"active", "running", "settled", "thrown", "released", "rethrown"}
    /\ jobs' = [jobs EXCEPT ![k].stalled = TRUE,
                            ![k].state = IF jobs[k].stalled THEN "failed" ELSE "waiting"]
    /\ UNCHANGED <<locks, slots, rows, aged, pc, winner, sweeps, missed>>

\* removeOnComplete 500, removeOnFail 1000: enough later jobs push it out.
Forget(k) ==
    /\ jobs[k].state \in {"completed", "failed"}
    /\ jobs' = [jobs EXCEPT ![k] = NoJob]
    /\ UNCHANGED <<locks, slots, rows, aged, pc, winner, sweeps, missed>>
-----------------------------------------------------------------------------
(* time, and the self-healer *)

LockLapses(d) ==
    /\ locks[d] = "live"
    /\ LeaseCoversDispatch => rows[d] # "none" \/ pc[d] \notin InCall
    /\ locks' = [locks EXCEPT ![d] = "lapsed"]
    /\ UNCHANGED <<slots, rows, aged, jobs, pc, winner, sweeps, missed>>

SlotLapses(d) ==
    /\ slots[d] = "held"
    /\ slots' = [slots EXCEPT ![d] = "lapsed"]
    /\ UNCHANGED <<locks, rows, aged, jobs, pc, winner, sweeps, missed>>

RowAges(d) ==
    /\ rows[d] \in {"queued", "running"} /\ d \notin aged
    /\ aged' = aged \cup {d}
    /\ UNCHANGED <<locks, slots, rows, jobs, pc, winner, sweeps, missed>>

\* Mutant: the comparison with expires_at the wrong way round.
ReclaimLive ==
    /\ \E d \in Deliveries : slots[d] = "held"
    /\ slots' = [d \in Deliveries |-> IF slots[d] = "held" THEN "released" ELSE slots[d]]
    /\ UNCHANGED <<locks, rows, aged, jobs, pc, winner, sweeps, missed>>

\* reclaim_expired_concurrency_reservations, before every orphan recovery.
ReclaimSlots ==
    /\ \E d \in Deliveries : slots[d] = "lapsed"
    /\ slots' = Reclaimed
    /\ UNCHANGED <<locks, rows, aged, jobs, pc, winner, sweeps, missed>>

\* Mutant: any expired lock is an orphan, whatever stands behind it.
SelectExpiredKey(d) ==
    /\ locks[d] = "lapsed"
    /\ sweeps' = sweeps \cup {<<"key", d>>}
    /\ UNCHANGED <<locks, slots, rows, aged, jobs, pc, winner, missed>>

\* Mutant: a lock is an orphan once its execution has failed.
SelectFailedKey(d) ==
    /\ locks[d] = "lapsed" /\ rows[d] = "failed"
    /\ sweeps' = sweeps \cup {<<"key", d>>}
    /\ UNCHANGED <<locks, slots, rows, aged, jobs, pc, winner, missed>>

\* reclaimOrphanedIdempotencyLocks: an expired lock whose execution does not
\* exist; the delete that follows does not ask again.
SelectOrphanKey(d) ==
    /\ locks[d] = "lapsed" /\ rows[d] = "none"
    /\ sweeps' = sweeps \cup {<<"key", d>>}
    /\ UNCHANGED <<locks, slots, rows, aged, jobs, pc, winner, missed>>

DeleteOrphanKey(d) ==
    /\ <<"key", d>> \in sweeps
    /\ sweeps' = sweeps \ {<<"key", d>>}
    /\ locks' = [locks EXCEPT ![d] = "none"]
    /\ UNCHANGED <<slots, rows, aged, jobs, pc, winner, missed>>

\* markOrphanExecutionsFailed asks again for 'running', not for the age.
SelectStuckRun(d) ==
    /\ rows[d] = "running" /\ d \in aged
    /\ sweeps' = sweeps \cup {<<"run", d>>}
    /\ UNCHANGED <<locks, slots, rows, aged, jobs, pc, winner, missed>>

FailStuckRun(d) ==
    /\ <<"run", d>> \in sweeps
    /\ sweeps' = sweeps \ {<<"run", d>>}
    /\ IF rows[d] = "running" THEN WriteRow(d, "failed") ELSE UNCHANGED <<rows, aged>>
    /\ UNCHANGED <<locks, slots, jobs, pc, winner, missed>>

\* Mutant: the sweep sees 'running' rows only.
FailRunning(d) ==
    /\ rows[d] = "running" /\ d \in aged
    /\ WriteRow(d, "failed")
    /\ UNCHANGED <<locks, slots, jobs, pc, winner, sweeps, missed>>

\* markOrphanQueuedExecutionsFailed.  A row never becomes 'queued' again nor
\* younger while it is, so its select and its update are one step.
FailQueued(d) ==
    /\ rows[d] = "queued" /\ d \in aged
    /\ WriteRow(d, "failed")
    /\ UNCHANGED <<locks, slots, jobs, pc, winner, sweeps, missed>>
-----------------------------------------------------------------------------
CallStep(d) ==
    \/ FindWinner(d) \/ ReadWinner(d) \/ ReserveSlot(d) \/ InsertRow(d) \/ Enqueue(d)
    \/ Unslot(d) \/ Unlock(d) \/ GiveUp(d) \/ FailRow(d)
RunStep(k) ==
    Take(k) \/ TurnAway(k) \/ StartRun(k) \/ EndRun(k) \/ Throw(k) \/ ReleaseSlot(k) \/ Report(k)
SweepStep(d) ==
    SelectOrphanKey(d) \/ DeleteOrphanKey(d) \/ SelectStuckRun(d) \/ FailStuckRun(d) \/ FailQueued(d)

Next ==
    \/ \E d \in Deliveries :
         \/ ReserveKey(d) \/ KeyTaken(d) \/ CallStep(d) \/ Crash(d)
         \/ LockLapses(d) \/ SlotLapses(d) \/ RowAges(d) \/ SweepStep(d)
    \/ \E k \in Keys : RunStep(k) \/ WorkerDies(k) \/ Forget(k)
    \/ ReclaimSlots

Spec == Init /\ [][Next]_vars

\* Some call goes on or dies, leases and rows grow old, a worker that lives
\* works a job off, the five-minute cron sweeps.  No trigger need ever arrive.
Fairness ==
    /\ WF_vars(\E d \in Deliveries : CallStep(d) \/ Crash(d))
    /\ WF_vars(\E d \in Deliveries : LockLapses(d) \/ SlotLapses(d) \/ RowAges(d))
    /\ WF_vars(\E k \in Keys : RunStep(k))
    /\ WF_vars(ReclaimSlots \/ \E d \in Deliveries : SweepStep(d))

FairSpec == Spec /\ Fairness
-----------------------------------------------------------------------------
(* Properties *)

\* However calls, runs, retries and sweeps interleave, no user and no workflow
\* has more live reservations than its limit.
WithinLimits ==
    \A d \in Deliveries : /\ Held(slots, SameUser(d)) <= MaxPerUser
                          /\ Held(slots, SameWorkflow(d)) <= MaxPerWorkflow

\* Deliveries of one event, first ones, repeated ones and those that come after
\* a crash and its sweep, have one execution between them.
OneExecutionPerKey ==
    \A d, e \in Deliveries :
      KeyOf[d] = KeyOf[e] /\ rows[d] # "none" /\ rows[e] # "none" => d = e

\* "every failure path unwinds anything already reserved so nothing is left
\* half-done": what a call that failed leaves behind is what one of its own
\* compensations did not take back, and nothing else.  Either way nobody has
\* run, or will run, an execution whose caller was told that it failed.
NothingHalfDone ==
    \A d \in Deliveries :
      /\ pc[d] = "refused" =>
           /\ locks[d] = "none" \/ <<"key", d>> \in missed
           /\ slots[d] # "held" \/ <<"slot", d>> \in missed
           /\ rows[d] = "none"
      /\ pc[d] = "unavailable" =>
           /\ slots[d] # "held" \/ <<"slot", d>> \in missed
           /\ rows[d] = "failed" \/ (rows[d] = "queued" /\ <<"row", d>> \in missed)
      /\ pc[d] \in {"refused", "unavailable"} => \A k \in Keys : jobs[k].exec # d

\* A key whose execution was never written is given back in the end, so the
\* provider's next delivery of the event is taken.
NoKeyIsPoisoned ==
    \A d \in Deliveries :
      locks[d] # "none" /\ rows[d] = "none" ~> locks[d] = "none" \/ rows[d] # "none"

\* An execution is settled or parked in the end, whichever process died.
ExecutionsSettle ==
    \A d \in Deliveries :
      rows[d] \in {"queued", "running"} ~> rows[d] \in {"waiting", "success", "failed"}

\* A reservation is given up in the end, by its run or by its time to live.
SlotsComeBack == \A d \in Deliveries : slots[d] = "held" ~> slots[d] = "released"
=============================================================================
