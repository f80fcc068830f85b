# The MagicFlux runtime in TLA+

MagicFlux turns a conversation into a workflow graph and runs it natively: Next.js
routes and cron handlers on one side, BullMQ worker processes on the other, and
Postgres (Supabase) between them.  Nothing coordinates these processes but rows:
every guarantee the runtime gives is a unique key, a compare-and-set, a lease or a
sweep.  This directory models those protocols, checks them with TLC and proves the
most important results with TLAPS.

Conventions: one action is one database statement (or one uninterrupted stretch of
code that touches no shared state).  The database client returns errors and throws none;
where a handler drops one and goes on, the action has the outcome without an effect, or
with nothing read, beside the ordinary one.  What a process has read is a copy that others
may outdate.  A process may die between any two actions.  Every definition that
models code is listed in `PROJECT.json` under "map" with the lines it stands for.

## 1. The system

| part | state | operations | what is hard |
|---|---|---|---|
| Side-effect ledger, node runner (`lib/runtime/side-effect-ledger.ts`, `runtime/node-runner.ts`) | `workflow_side_effects` | claim, attempts, record, sweep of stale claims, operator verdict | a crash after the provider said yes, a re-run by another process, stale reads of the sweep and of an operator |
| Execution ownership (`runtime/hardening-layer.ts`, `lib/runtime/worker.ts`) | `runtime_execution_ownership` | claim, renew, validate, release, orphan recovery | a claim is a read and a later compare-and-set; leases lapse while their owner lives |
| Production dispatch (`lib/runtime/execution-dispatch.ts`, `idempotency.ts`, `concurrency-guard.ts`, `queue.ts`) | `runtime_execution_locks`, `runtime_concurrency_reservations`, `workflow_executions_v2`, the queue | reserve key, reserve slot, insert, enqueue, compensate; run of the job; four sweeps | partial failure at every step, lost replies, sweeps that race live calls |
| Workflow engine (`runtime/workflow-engine.ts`, `runtime-state.ts`) | node queue, checkpoints, snapshots, control flags, engine lock, node mutexes | execute, park, pause, cancel, deadline | crash between two writes of one transition, resume from an older checkpoint, flags read before a node and used after it |
| Retry dispatcher and resume (`lib/runtime/retry-dispatcher.ts`, `runtime/execution-manager.ts`) | `next_run_at`, `retry_count`, resume jobs | select and claim of a due row, slot, enqueue, revert, manual resume | a dedupe key that does not change, two resumers of one park, a park that is half written |
| Human review, acknowledgment (`lib/runtime/review-resume.ts`, `acknowledgment-resume.ts`, their handlers and routes) | `workflow_review_items`, `workflow_acknowledgments` | decide, acknowledge, time out, resume, recover | the decision races its deadline; decide-then-resume crash window |
| Follow-ups and inbound replies (`lib/runtime/inbound-reply/`) | `runtime_followup_sequences` with a send lease, `runtime_conversations`, `runtime_outbound_messages`, `runtime_inbound_reply_events`, the history cursor of each mailbox | send under the lease, look again, record; poll, place, reserve, end the sequence, move the cursor | a reply that overtakes a send, overlapping polls, a request that dies between two statements |
| Deployment and lifecycle (`lib/workflow/lifecycle.ts`, `lib/deployment/`) | `workflows` (status, draft, pointer to the live version), `deployment_versions` | activate, publish, pause, resume, disable, archive, edit | three statements for one new version, seconds of validation between a read and the write that rests on it, writers that look at no status |
| Scheduler (`lib/runtime/scheduler.ts`) | `workflow_schedules` | sync, enable, disable; select and claim of what is due, reservation, execution key, run | polls that overlap, an occurrence whose time is written back by a sync |
| Command bus (`command-bus.ts` and its SQL) | `runtime_execution_commands` | append, fetch, acknowledge, retry, dead-letter | updates by id whatever the status |
| Self-healer, watchdog, worker fleet | none of their own, or heartbeats | sweeps every 30 s and every 5 min | each sweep is a read and a later write |
| Event store and replay, webhooks, credentials, billing, AI builder, web application | logs, versions, secrets, counters, documents | | see `PROJECT.json` for why each is left out or when it is planned |

How they meet: a trigger calls production dispatch; the worker takes the job, claims
ownership, and calls the engine; the engine runs nodes through the node runner, which
claims the ledger row of each external effect; a node may park the execution, and the
retry dispatcher, a review or an acknowledgment resumes it; the sweeps repair what
dead processes leave in any of these tables.  Beside this path, a lifecycle request puts
a version live and sets its schedule, the scheduler runs what is due through the same
engine, and a follow-up node sends into a thread whose answers the inbound-reply poller
hears.

What makes each part correct:
- ledger: an effect happens at most once, the row never claims otherwise, every claim
  is resolved, and only by its holder, the sweep or a person;
- ownership: the authority is the newest claim, a replaced one never returns, and an
  owner that has died is noticed;
- dispatch: one execution per event, limits kept, a refusal that leaves no work behind,
  every key, slot and execution given back or settled in the end;
- engine: every node on a taken branch runs, none twice in one pass, a terminal row
  stays terminal, a checkpoint always leads to the same result;
- resume: a node that parks is answered once and for good, the execution goes on by that
  answer and no other, whoever resumes it, and no answer is forgotten;
- follow-ups: one sender of a sequence at a time, nothing in the mailbox passed over, and
  a customer who replies hears no more;
- lifecycle: one active version, a publication overwrites nothing it has not read;
- scheduler: an occurrence runs once, however polls and syncs meet;
- command bus: a command is delivered in order and is not lost with its worker.

## 2. Modules

    OneShotEffect <-- SideEffectLedger <--- SideEffectLedgerProofs
    FencedLease <---- ExecutionOwnership <- ExecutionOwnershipProofs
                                        <-- MCExecutionOwnership
                      ProductionDispatch <- ProductionDispatchProofs
                                        <-- MCProductionDispatch
    GraphWalk <------ WorkflowEngine <----- WorkflowEngineProofs <-- WorkflowGraphProofs
                                     <----- MCWorkflowEngine
    GatedWalk <------ ParkAndResume <------ ParkAndResumeProofs
                                    <------ MCParkAndResume
                      FollowUp <----------- FollowUpProofs
                               <----------- MCFollowUp
                      Lifecycle <---------- LifecycleProofs
                                <---------- MCLifecycle

An arrow points from a module to the one it extends or implements.  The definitions
whose comment starts with "Mutant", or stands in parentheses, are deliberate bugs.  Each
stands before the definition it can take the place of; no specification uses it.  They
show that a property would notice.

### SideEffectLedger (implements OneShotEffect)
`ledger[e]` is a row: status, the number of writes (which stands for `updated_at`, new
with every write) and whether it is older than `SIDE_EFFECT_LEASE_MS`.  A runner goes
`idle -> Insert -> working -> Attempt* -> record -> Record -> done`, or after a unique
violation `conflict -> ReadExisting -> reclaim -> Reclaim`.  `Attempt` is a provider
call with every reply the handlers tell apart; `applied[e]` counts what the provider
did.  `Record` may also do nothing, as its error is not looked at.  `Rerun` is a later
resume or retry of the node, `Crash` the death of the process.  `SweepSelect` and
`SweepMark` are the two halves of `reconcileStaleSideEffects`, `OperatorCheck` and
`OperatorSubmit` what a person does in the recovery console.
Left out: the status `not_started`, which no code writes; test mode; a claim that
fails with another database error, which throws before anything is changed.

### ExecutionOwnership (implements FencedLease)
The row of one execution, with `<<job, fencing>>` for the owner token.  `ReadOwner`,
then `InsertOwner` or `TakeOver`, are the two halves of `claimExecutionOwnership`; an
update that matches no row is no error, so a `TakeOver` that lost still believes.
`AssertOwnership` guards `test_workflow` jobs only; `StartRun` is the other jobs, which
ask nothing.  `SelectOrphan`, `OrphanOwner`, `ParkOrphan` and `SelectStuck`, `FailStuck`
are the watchdog passes.  `exec` is the status of the execution, `settled` for every
terminal one.

### ProductionDispatch
`locks`, `slots`, `rows`, `jobs` are the four tables by execution (a delivery draws its
own execution id) or by key (the `jobId`).  The call: `ReserveKey` or `KeyTaken`,
`FindWinner`, `ReadWinner`; `ReserveSlot`; `InsertRow`; `Enqueue`; on the failure paths
`Unslot`, `Unlock`, `GiveUp`, `FailRow`, each of which takes effect or does not: the
code looks at no error of theirs and answers all the same.  `missed` (history) is what
was not taken back.  The job: `Take`, `TurnAway`, `StartRun`,
`EndRun`, `Throw`, `ReleaseSlot`, `Report`, `WorkerDies`, `Forget`.  The sweeps:
`ReclaimSlots`, `SelectOrphanKey`/`DeleteOrphanKey`, `SelectStuckRun`/`FailStuckRun`,
`FailQueued`.  What happens inside a run is one step that leaves one of the statuses
the engine can leave, among them `running` when another process holds its lock.
`StartRun`, `Throw` and `ReleaseSlot` may fail silently too, and a read of the winner that
fails is one that found nothing.

### WorkflowEngine (implements GraphWalk)
One execution of a workflow `wf` (a record with its order, kinds, ports, and the branch
each deciding node comes to) and the invocations of `WorkflowEngine.execute` that carry
it: attempts of the job (`StartJob`, from the start nodes) and resumes (`AskResume`,
`ReadCheckpoint`, `ResetControl`, from the latest checkpoint).  Two of them may be at
work at once.  Shared state is the row's `status`, the `control` flags, the latest
checkpoint `saved`, the engine `lock` and a `mutex` per node; what `execute` keeps in
local variables is a function of the invocation (`queue`, `here`, `input`, `output`,
`laps`, `tries`, `ending`).  The actions follow the code: `InitializeExecution`,
`ReadLock`/`TakeLock`; the top of the loop (`OverBudget`, `TooManyLaps`, `ObeyControl`,
`NextItem`, `Complete`); `ReadMutex`, `InsertMutex`, `UpdateMutex`; `NodeRunner.run` as
`Attempt` and one of `Succeeds`, `Parks`, `Fails`, `Throws`; `ReleaseMutex`, `Route` or
`RefusePorts`; and the returns: `WriteState`, `SaveCheckpoint`, and the finally block
`ForceFail`, `ReleaseLock`.  `PauseFlags`, `CancelFlags`, `OperatorRow` are the control
route, `BecomeReady` a decision or a date, `Crash`, `LockLapses`, `MutexLapses` what
processes suffer.  Of the data on an edge only `_conditionBranch` is kept, an item's
`token`, since a handler returns its input along with its result and a token a
condition set so travels on with the data.
`GraphWalk` knows no queue, lock or checkpoint: a node runs when a start or a taken
edge calls for it, and success means that all that was called has run, except for what
lies beyond a node that was dropped.  `parked` and `failed` (nodes given up while others
were queued) are what the code drops without a record; they are history variables.
Left out: a direct start without an execution row, rewind to a snapshot, and a failing
condition expression.  The wait before a retry is no state.

### ParkAndResume (implements GatedWalk)
The execution row and everyone who resumes it.  The workflow is a `path` of nodes that
can park: `timer` (a wait for a date), `review`, `challenge` and the `ack` that waits for
it.  A caller is the worker, a cron request or a person, and runs one handler at a time:
the poller of due rows (`PollSelect`, `Claim`, `Grant` or `Deny`, `Revert`,
`EnqueueResume`, `FailClaim`), the resume route (`ResumeDue`), the decision of a review
(`OpenReview`, `RecordDecision`) or an acknowledgment (`OpenAcknowledgment`,
`RecordAcknowledgment`), the recovery sweeps (`SweepSelect`, `Touch`, `Skip`); the last
three go on to `attemptReviewResume` or `attemptAcknowledgmentResume` (`Check`,
`Book`), where a read of the execution that fails counts as one that has gone on.  All of them end in
`resumeExecution` (`ReadCheckpoint`) and the engine, of which this module has the writes
to rows that resumers read, in their order: `InitializeExecution`, lock, mutex,
`MarkRunning`, the handler (`Wait`, `Review`, `Challenge`, `Await`, `Expire`), `Route`,
`Complete`, `ParkRow`, `SaveCheckpoint`, `ForceFail`, `ReleaseLock`.  `item` is the review
or acknowledgment row of a node, `booked` the rows marked as resumed, `walked` (history)
the nodes passed and by which answer; `guessed` is the answer of a wait that lost the
race for its deadline and could not read who won it, which it takes for timed out.
`GatedWalk` has gates in a row, an answer to each, and a walk: a gate is answered once, a
deadline only answers when it has passed, and a gate is walked through by its answer and
behind those before it.  What a node was answered is read off the rows (`Verdict`).
The row `undated` excepts is one that the watchdog or a revert put back to waiting
without a date: only a person can go on from there.  `unread` are the reviews marked as
resumed after a read that failed: neither a sweep nor a poll looks at them again.
Left out: waits by duration (`parseWaitUntil` adds the duration to the present at each
resume, so such a wait parks again for ever; `runtime-e2e-mocked.test.ts:228-240` says
so), the control route (in WorkflowEngine), `late_acknowledged_*` and `resume_attempts`,
and a `resumeExecution` that throws.

### FollowUp
A caller is one run of a follow-up node.  `Precheck` is the look for its attempt key,
`AcquireLock` the guard and the lock function in one (the function repeats the guard's
test), `Send` the call of Gmail (with the fetch of a token), `PostCheck` the second look
at the sequence, then `Record`, `UpdateThread`, `Release`.  `SendUnknown` is a call that
times out, `StatementFails` an error behind it, `Crash` the death of the process.
A poll reads the cursor and one page (`ListHistory`), which may end anywhere, and for each
message `FetchMessage` places it (`Evidence`, `Correlate`), `Reserve` inserts its event under
a unique key, `Transition` ends the sequence; `SaveCursor` closes it, and moves the cursor
to the end of the history, past what lay behind the page (`beyond`).  A lookup that fails
has found nothing, and the message is placed by the others (`misread`).  `MessageGone` is
a message that can no longer be fetched, at which every poll ends, this time and the next.  `PollStops` is a request that dies or throws.
`Reply` is the customer.  A message sent starts a Gmail thread of its own and its id
takes the place of the former one in the conversation, as in the code.
Left out: the mark "processed", which nothing reads; a cursor too old for Gmail; who
creates conversations and sequences (nothing in production does); the ends `cancelled`
and `completed`, which nothing writes; the choice of mailboxes.

### Lifecycle
A request has one operation (`plan.op`) and keeps the row it loaded in `seen`.
`Load`, `Refuse`, `UpToDate` or `Differs`, `Claim`, `Reject` are the front of
`activateWorkflow` and `publishNewVersion`; `ReadMax`, `Supersede`, `Insert` the three
statements of `recordDeployment`; `Finish` and `Cutover`, `CutoverLost` their ends.
`Supersede` and `Finish` look at no error and go on without their effect (`spared` are the
rows that stay active so); a `ReadMax` that fails numbers the version 1, a `Differs` that
fails finds no active version, a `ReadSchedule` no row.
`SetStatus` is pause, resume, disable and archive, `Edit` the two PATCH routes, `Abort`
the death of a request.  `ReadSchedule`, `Sync`, `Enable`, `Disable` are what they do to
the schedule.  A poll is `Select`, `ClaimDue`, `CheckStatus`, `Reserve`, `Lookup`,
`Begin`, `End`, `Release`; `keyed` are the polls whose run has the key of its occurrence,
`blind` those whose `Lookup` failed and therefore found no run.  `stamp` stands for `updated_at`: two writes never have the same
(this asks for writes a millisecond apart).  Equality of `stableJson` is equality of
contents.  What the guards look at is a free choice to pass or reject.
Left out: the webhook secret, deletion, and the older path to n8n with the status
`deployed`, rollback and cleanup; several schedules of one workflow; cron arithmetic (the
schedule is due at every tick).  `SlotLapses` and `Orphaned` act only when no poll is at
it, since a cron request ends long before the 30 minutes of a reservation.

## 3. Runs

| run | instance | shows |
|---|---|---|
| `ledger` | 1 effect, 2 runners, 2 sweeps, 1 operator, 2 attempts, 5 writes | all the ledger's properties, and that it implements OneShotEffect |
| `ownership` | 3 invocations in 2 workers, 1 watchdog, 3 claims in a row | the authority is the newest claim; a replaced one stays replaced; no execution stays running and no dead owner stays in its row; implements FencedLease |
| `dispatch` | 3 deliveries of one event, 2 attempts per job, limit 1 and 2 | one execution per event; a refusal leaves nothing but what its compensation missed, and no job |
| `dispatch_faults` | 2 deliveries, 1 attempt per job, replies may be lost | limits; keys, executions and slots come back |
| `engine` | 5 graphs of up to 3 nodes, a job and a resume in two processes, 4 laps, 0 to 2 incidents per graph | nothing on a taken branch is lost or skipped, no node runs twice at once, all ends and gives its locks back; implements GraphWalk |
| `engine_false_branch` (violation) | a condition with two nodes in a row on its second branch | success without the second node |
| `park` | a worker, a cron request and a person; a review, a timer, a review before a timer, a challenge with its wait; one crash on the first two | every node is passed once answered and by that answer (or a guess); no answered park is forgotten but by a read that failed; implements GatedWalk |
| `park_lost_decision` (violation) | one review, decided by someone who does not wait for the park | the review is marked resumed and the execution parks behind it, for good |
| `followup` | up to 3 follow-up nodes and 2 polls over 1 or 2 sequences, 2 messages, pages of any length, 0 or 1 fault | one sender in the lease, late sends are flagged, the cursor passes nothing that was on its page, a reply it has passed has ended its sequence |
| `followup_lost_reply` (violation) | one node, two polls, one fault | a reply is reserved, the request fails, and any later delivery is a duplicate |
| `lifecycle` | 8 plans of up to 3 requests, or 2 requests with 2 polls and 2 ticks; 0 or 1 fault | one active version besides those a failed update has spared, publications that overwrite nothing, occurrences that run once unless a lookup fails |
| `lifecycle_inert_version` (violation) | two publications and an edit | the second publication is told that it is live and is not |

The bounds and why they are enough.  Rows of different effects, executions and keys
share nothing but the concurrency limits, so one of each is enough but for the limits,
where deliveries of one event also meet (limit 1 with two or three deliveries is the
boundary).  Two runners and two sweeps are every race of a claim, a re-claim and a
stale candidate; the third invocation of `ownership` is a process that loses to its
own neighbour and to another worker at once, and the third delivery of `dispatch` one
that comes after a crash and its sweep.  `MaxVersion` and `MaxFencing` stop only new
claims, never a holder, a sweep or an operator, so nothing else is cut off by them.
`MaxAttempts` and `Attempts` are 2: a first call and a retry.  In `dispatch_faults`
`Attempts` is 1: a job comes again there only when its worker dies, which it may once
without using up an attempt.
The graphs of `engine` are the shapes that the code treats apart: two start nodes that
meet (fan-in, with a review on one side), a wait in front of a node, a branch without a
port, a cycle with an edge to a node that does not exist, and an ordinary node with two
ports that the engine refuses.  A longer second branch is not among them, because the
first violation run shows what happens there.  `MaxIncidents` (pauses, cancels, crashes,
failed writes, passed deadlines) is a record by graph, to spend the states where a
shape meets the fault: two on the branch without a port, the smallest graph, one on
the wait and on the refused ports, none on the two that are about routing.
`MaxNodeExecutions` is 4 instead of 400, and the cycle reaches it.

`park` has one process of workers and one of the web application, which is what the
engine lock tells apart.  A second cron request or person meets the same rows as the
first one's next call, and the handlers of two processes already interleave at each step.
The two longer paths have no crash, to spend the states on the shorter ones.
In `followup` `plan.mail` and `plan.calls` stop new messages and new calls only.
Three callers are a holder, one whose lease has lapsed, and one that takes over; two
messages a send and its reply, or two sends.  In `lifecycle` three requests are the two
deployments that race and the edit, pause or archive between them; two ticks are an
occurrence and the one that a late sync writes back.  `plan.faults` bounds requests and
polls that die, runs that fail, and statements that fail unnoticed.

Deadlock is not an error in any run but `ledger`: when every delivery is answered,
every job gone, every request over and every row settled, the system rightly stops.

Fairness.  A process that has begun goes on or dies; a timer, a cron handler or a
lease that lapses comes again; one of the watchdog passes lives to its end now and
then (strong fairness in `ownership`, since single passes may die); there the lease of an
owner that has died runs out.  No trigger, no
retry of a node, no operator and no renewal is ever owed.  In `ownership` the watchdog
takes a row for stuck only when no engine is at work on it: ten minutes without an
update, against an engine that stops itself after five (`MAX_EXECUTION_DURATION_MS`).
In `ledger`, `WF` on a runner's step says that a provider call ends.  The engine needs
none: `EveryStepLeadsToTheEnd` is an action property with a measure that every step of
an invocation lowers, so one that takes steps ends.  In `park` processes go on, the crons
come again (strong: another caller may be faster now and then), a slot comes free in the
end, workers take jobs; nobody has to decide or ask, and no date has to pass.  `followup`
and `lifecycle` state none and promise nothing about what must happen: the mailbox
poller is not wired to any schedule (`gmail-polling-scheduler.ts:8-10`), so nothing in the
code owes a poll.

Assumptions of the passing runs, each a constant: `LeaseCoversAttempt` (a live attempt
ends within five minutes; the Slack and Airtable handlers set no timeout on `fetch`,
so it is the HTTP client's default that has to see to that), `~BodyMayBeLost`,
`LeaseCoversDispatch` (the row is inserted within 45 s of its key), and, in `dispatch`
only, `~RepliesMayBeLost`; `PeopleSeeParks` in `park` (a person decides what is shown as
waiting; the violation run drops it).

## 4. Findings

1. A branch a condition chose is inherited by the nodes behind it
   (`workflow-engine.ts:755`), which fire only the port of that number: on the second
   branch nothing behind its first node runs, and the workflow is a success
   (`workflow-engine.ts:824` says an ordinary node fires its one port).
   `engine_false_branch`.
2. `review-resume.ts:31-34` takes a status that is not waiting as proof that the run has
   gone on.  The review row is there before the engine writes `waiting`: a decision in
   between is marked resumed, the execution parks behind it without a date, and neither
   poller nor sweep looks at it again.  `park_lost_decision`.
3. `gmail-poll.ts:56-58` says that a crash in a batch reprocesses what came before as
   harmless duplicates.  The message is reserved before its sequence is ended
   (`storage.ts:380`): after a crash or a database error between the two, the reply is a
   duplicate for good and the follow-ups go on.  `followup_lost_reply`.
4. `lifecycle.ts:432-435` says that a version whose cutover lost the race sits inert and is
   harmless.  It is the one `active` row from then on and the live one is `superseded`, so
   the next publication of the same draft is told that it is live already and changes
   nothing.  A rename while the guards run is enough.  `lifecycle_inert_version`.

Observed while modelling, without a run of their own.  Where a constant or a history
variable excepts one from a property, it is named.
- A reply that loses its body after its 2xx headers is retried (`slack.ts:105`,
  `airtable.ts:302`): a second message or record (`BodyMayBeLost`).
- Two workers may come out of `claimExecutionOwnership` with one token
  (`hardening-layer.ts:371`): nobody looks at the row count of the compare-and-set.
- The sweep of orphaned keys checks and deletes in two statements (`idempotency.ts:224-237`):
  a dispatch slower than its 45 s lease loses the key of a real execution
  (`LeaseCoversDispatch`).
- The sweep of queued rows takes a backlog for a crash (`hardening-layer.ts:666`); the job
  still runs afterwards.
- A node that parks with a sibling queued is not run again at the resume
  (`execution-manager.ts:57`); the workflow succeeds without it (`parked`).
- The dedupe key of a resume job is the same for every park (`retry-dispatcher.ts:154`):
  while BullMQ keeps the finished job of the first, the second adds nothing.
- A claim of the retry dispatcher is reverted on the status alone, and an orphan is put
  back to waiting without a date (`undated`).
- Gmail history beyond the first page is not read, and the cursor is set to the end of all
  of it (`gmail-poll.ts:88-90`): those messages are skipped (`beyond`).  A history that has
  expired is never resynchronised (`gmail-poll.ts:164`).
- A message deleted before it is fetched makes the fetch throw (`gmail-poll.ts:100`) at
  this poll and each one after it: the cursor of the mailbox never moves again
  (`MessageGone`).
- The lookups that place a reply drop their errors (`storage.ts:145-206`,
  `correlate.ts:70-91`): a reply met while one fails is reserved as `no_match`, for good
  (`misread`).
- The compensations of a dispatch look at no error (`concurrency-guard.ts:86-89`,
  `idempotency.ts:182-189`, `execution-dispatch.ts:142-152`): a caller that is told
  `ENQUEUE_FAILED` may have left its key, its slot or a queued row behind (`missed`).  The
  slot lapses and the sweeps take the rest, but until then a delivery that comes again is
  told that the event is a duplicate.
- A review or an acknowledgment whose execution cannot be read is marked as resumed
  (`review-resume.ts:77-97`, `acknowledgment-resume.ts:91-109`).  A wait for an
  acknowledgment still has its deadline; the answer of a review is lost (`unread`).
- A wait that loses the race for its deadline and cannot read who won it goes on as timed
  out, past an acknowledgment that was given (`wait-for-acknowledgment.ts:177-187`,
  `guessed`).
- The supersession of the former version drops its error (`deployment-manager.ts:67-72`):
  the insert that follows leaves two active rows (`spared`), for which
  `getActiveDeployment`, which asks for a single one, answers that there is none.  When the
  read of the highest number fails, the number is 1: all rows are superseded, and then
  the insert is refused, with no row active.
- The update that ends an activation drops its error too (`lifecycle.ts:304-315`): the
  caller is told that it is active, its schedule is set, and the status stays at
  `validating`.
- An execution key that cannot be looked up counts as one that was never used
  (`hardening-layer.ts:56-74`): the occurrence or event is run again (`blind`).
- The history lists the owner's own mail (`gmail-poll.ts:84`): a follow-up polled after it
  is recorded has the thread of its own conversation and ends its own sequence.  A reply
  polled before its message is recorded finds no sequence, for good.
- An outbound record that fails after the send is retried with the node, and the message
  goes out again.  So it does when two runs of one node both pass `Precheck`.
- An activation that loses its version number leaves the status at `validating`
  (`lifecycle.ts:296`), where each later one is told that one is in progress;
  `lifecycle.ts:209-210` says that an activation never fails silently.
- Pause and then resume make any workflow `active`, an archived draft too, without
  validation (`lifecycle.ts:474`; 497 calls archived terminal).  Two activations with a pause
  between may move the pointer back; a resume that races a pause may leave the status
  active with its schedule off.
- An occurrence whose poll dies after the claim is not made up for.  One whose first run
  failed may run again when a sync writes its time back.
- `webhook-secret.ts:61-93` writes back a whole `workflow_json` it has read before: an edit
  in between is lost.

## 5. Proofs

TLAPS proves, for every value of the constants that the assumptions beside them allow,
however many processes, effects, attempts, nodes and faults:

- `SideEffectLedgerProofs`: `TypeCorrect`; and under `Conditions` (the two constants
  above and at most one operator) `AtMostOnce`, `ReportedSuccess`, `ReclaimIsSafe`,
  `ExclusiveClaim`, `KeptVerdicts` and `Refinement`.  The properties are not inductive
  by themselves.  The invariant adds what ties the row to the processes: a holder's
  row is `in_progress` and not expired; what a holder has done so far agrees with
  `applied` and with the outcome it is about to record; a sweep's candidate has a
  version at most the row's, and one that is still current has no holder; an
  operator's pending verdict is true as long as the row is indeterminate.
- `ExecutionOwnershipProofs`: `TypeCorrect`, `NewestAuthority`, `FencedForGood` and
  `Refinement`.  The invariant says that no invocation believes in
  a token above the row's, that a pending claim has read a token not above the row's,
  and that the row's live state and its holder agree.
- `ProductionDispatchProofs`: `TypeCorrect` and `LimitsHold` (`WithinLimits`), whichever
  replies are lost.  Only finitely many reservations are live at a time, so that they can
  be counted; the limits then hold because count and insert are one statement and nothing
  makes an expired reservation live again.  Under `Conditions` (`LeaseCoversDispatch` and
  `~RepliesMayBeLost`) also `OneExecution` (`OneExecutionPerKey`) and `CleanRefusals`
  (`NothingHalfDone`).  Their invariant `KeyInv` says that a key has one row at most
  (`KeysAreUnique`), that an execution which exists has kept its own (`RowsHaveKeys`), what
  a call has written by where it stands, or has tried to take back and missed
  (`CallsAreOrderly`), that a job is one of an
  accepted call (`JobsAreAccepted`), and that a key which the sweep has judged an orphan is
  one without an execution, and stays so (`OrphansAreOver`).  Both conditions are needed.
  A dispatch slower than its lease loses the key to that sweep before it inserts its
  execution; and an insert that commits while its reply is lost is
  compensated as if it had failed, so that the execution stays and its key goes.  That the
  compensations succeed is not a condition.
- `WorkflowEngineProofs`, for every set of workflows, of any graph, and any number of
  invocations and processes: `TypeCorrect`; `Termination` (`EveryStepLeadsToTheEnd`);
  `LocksReleased` (`LocksAreGivenBack`); and `NodesExclusive` (`NodesDoNotOverlap`) when
  no two invocations share a process.  The type invariant is strengthened by three facts
  about places (who has a node at hand, an attempt left, a reason to return);
  `Owned` says that a lock or a mutex of a living process has an invocation at work
  under it; `HoldsMutex` that, while nothing has died, who is at a node has its mutex
  and nobody stands before an update.  The condition on processes is needed:
  the owner of a lock is `engine-<pid>`, so that two invocations in one process pass
  each other's locks and mutexes.  `StartsAssumption` (the start nodes are a sequence of
  nodes of the workflow) is an assumption because what `SelectSeq` returns takes an
  induction; TLC evaluates it.
- `WorkflowGraphProofs`, for every graph: `OnlyCalled`, that a node runs only when a start
  or a taken edge calls for it; and for every workflow that is `Straight`,
  `CheckpointsComplete` (`CheckpointsLoseNothing`) and `Refinement`
  (`ImplementsGraphWalk`).  The invariant `OnGraph` follows the work itself: everything
  that may come of the start nodes has run, or may come of what an invocation still has
  before it (what it has queued, and the node at hand until its targets are queued), or
  of a dropped node.  `RunFits` says so of each invocation by the place it stands at,
  `SavedFits` of the queue that a resume would start from (`SeedOf`), and both that what
  is queued has been called.  It rests on two facts about graphs: what may come of a
  node is the node and what may come of those it calls (`ReachStep`), and putting the
  targets of a node that has run in its place loses nothing (`CoveringStep`); and on one
  about the code, that a node fires the ports of the edges that are taken
  (`FiresWhatIsTaken`).  The last is where `Straight` is needed: an ordinary node that is
  handed a branch must lead on by the port of that number to the same nodes as it would
  by all of its ports.  That holds behind a first branch as long as every node has one
  port; behind a second branch it fails for every node that has a successor, which is
  finding 1.  No checkpoint, crash or resume adds a condition of its own: an
  invocation that dies leaves `saved`, `steps` and the dropped nodes as they were.
- `LifecycleProofs`, for any set of requests, polls, contents and plans: `TypeCorrect`,
  `NeverTwoActive` (`OneActiveVersion`), `PublishesOverNothing`
  (`PublishReplacesWhatItRead`) and `OccurrencesAreRunOnce` (`OccurrencesRunOnce`).
  `RowsInv` carries the first two.  When a request
  stands before its insert and its number is the next one, no row is active but those that
  an update has spared, whoever else is on the way (`NoneBeforeInsert`); a request at its
  cutover has a row of that number with the content it loaded (`Numbered`, `Frozen`); and
  an unchanged stamp means an unchanged row (`StampsTell`), from which a won cutover
  follows to replace what was read (`PublishesLive` for the status).  `PollInv` carries the
  third: two polls never hold one occurrence's reservation (`SlotsAreApart`), a look at
  the execution key that did not fail stays true while the reservation is held
  (`LookupStands`), a poll that runs after one is in the first run of the occurrence or
  behind a failed one (`RunsAreOpen`), and the first run is one that still runs
  (`KeysAreOfRuns`).
  The compare-and-set on `next_run_at` is not needed for it.
- `FollowUpProofs`, for any set of follow-up nodes, sequences, conversations and polls:
  `TypeCorrect`, `OneSender` (`OneSenderInTheLease`), `LateFlagged`
  (`LateMessagesAreFlagged`), `RepliesEnd` (`PlacedRepliesEnd`), and, for pages of any
  length, `NothingSkipped` (`NoMessageIsSkipped`) and `RepliesHeard` (`PassedRepliesEnd`).  The invariant has a half for each side.  Senders: who has not overrun its
  lease is the holder by the row (`HolderIsKnown`); a message sent and not yet recorded is
  nobody else's (`SentIsThere`), on which the unique message ids rest; and who has sent too
  late has seen it or will (`LateIsNoticed`), because the end of a sequence is for good and
  the second look comes after the send.  Polls: the message at hand is on the listed page
  (`OnThePage`), a poll that is about to end a sequence does so for the event it has
  reserved (`MatchIsReserved`), and no event is ahead of the mailbox (`EventsAreOfMail`).
  `CursorInv` adds what `NothingSkipped` needs: a poll has looked at all of its page before
  the message at hand (`PageIsRead`), and what the cursor moves past besides is `beyond`.
  `HeardInv` adds what `RepliesHeard` needs: what is recorded of a message is of its
  sequence (`MessagesTell`), and a due reply is to a recorded message that names it, in a
  conversation of one sequence (`DueAreNamed`); so every lookup that answers finds that
  sequence and no other (`DueIsFound`), even though each send overwrites the thread of its
  conversation.
- `ParkAndResumeProofs`, for any set of paths and any number of crons, people and
  processes: `TypeCorrect` and `Refinement` (`ImplementsGates`).  A call that stands at a
  node, and the checkpoint a resume would start from, have everything before that node
  behind them, walked by answers that still hold (`Behind`); and the branch an engine is
  about to take is what the rows say the node was answered, or a guess that it was timed
  out (`CallFits`, `Suits`, `Verdict`).  The
  argument turns on one lemma about the rows, `AnswersStand`: an answer once given is for
  good, so that two resumes of one park, one of them slow, walk by the same answer.  It
  holds because each writer of an answer compares with `pending`
  (`RecordDecision`, `RecordAcknowledgment`, `Expire`), not because of any lock.
  `ParkAssumption` asks that a challenge is followed by the wait for it.

Every safety property that a run checks is stated by a theorem, but for the conditions named
above.  Only model-checked is everything under fairness (`ClaimsAreResolved`, `RunningEnds`, `NoKeyIsPoisoned`, `ExecutionsSettle`,
`SlotsComeBack`, `AnswersAreHeard`, `DeadOwnersAreNoticed`), which is out of the prover's
reach.  No module declares a RECURSIVE operator and no proof needs induction over data.

With two operators `FailedMeansNotApplied` fails (two people look at the provider at
different times, with a re-run between): the proofs therefore ask for one at a time.

## 6. Not modelled

`PROJECT.json` has a row for each part.  In the parts that are modelled: events, logs
and usage records; how keys, references and error texts are formed; a write to the
database that fails silently, except where the code path that ignores it matters
matters; passes of the self-healer that die midway in ProductionDispatch, where a
write decided on and never made is the same as one that is made much later or not
selected again.

Not modelled at all, and why: the builder, planner, conversation and training code, which
is text and heuristics; pages and components; credentials, OAuth and provider handlers,
which are calls of third parties (what the runtime must know of their answers is in
SideEffectLedger); billing counters, which have one unique key per event; webhook
signatures and parsing.  Together they are most of the lines of the repository.  The
command bus, the event store with replay and rewind, and the worker fleet have state of
their own and are left for section 7.

## 7. Plan

1. Proofs: the refinement of GraphWalk without `Straight`, against a walk of pairs of a
   node and the branch it was handed, which would say what a second branch does run; and
   an abstract walk for FollowUp.
2. `CommandBus`: sequence, claim, retry and dead-letter; a command that was acknowledged
   is not delivered again.
3. The log of events with replay and rewind, as pure operators against a fold.
