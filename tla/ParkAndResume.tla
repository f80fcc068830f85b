--------------------------- MODULE ParkAndResume ---------------------------
(***************************************************************************)
(* An execution that parks, and everything that may resume it: the cron    *)
(* poller of due timers with its queue job (lib/runtime/retry-dispatcher,  *)
(* worker), the resume route, the decision on a review and the             *)
(* acknowledgment of a challenge with the recovery sweep of each           *)
(* (review-resume, acknowledgment-resume).  All of them call               *)
(* ExecutionManager.resumeExecution, which runs the engine from the latest *)
(* checkpoint.  The workflow is a row of nodes that can park.  How the     *)
(* engine walks a graph is in WorkflowEngine; here are its writes to the   *)
(* rows the resumers read, in their order.                                 *)
(***************************************************************************)
EXTENDS Naturals, Sequences, FiniteSets

CONSTANTS
    Worker,            \* runs the queued jobs, one at a time
    Crons, People,     \* requests by the scheduler and by persons
    ProcessOf,         \* the process that each of them runs in
    Free, Gone,        \* no process, and one that has died
    Paths,             \* the workflows: the kind of each node, in order
    Outcomes,          \* what a review may be decided as
    PeopleSeeParks,    \* a person decides a review only once it is parked
    MaxCrashes         \* bound, by workflow

Callers == {Worker} \cup Crons \cup People
Processes == {ProcessOf[p] : p \in Callers}
Kinds == {"timer", "review", "ack", "challenge"}

ASSUME ParkAssumption ==
    /\ Worker \notin Crons \cup People /\ Crons \cap People = {}
    /\ Free # Gone /\ {Free, Gone} \cap Processes = {}
    /\ Paths \subseteq Seq(Kinds) \ {<<>>}
    /\ \A w \in Paths : \A n \in DOMAIN w :
         w[n] = "challenge" => n < Len(w) /\ w[n + 1] = "ack"
    /\ Outcomes \cap {"none", "pending", "acknowledged", "timed_out", "due", "made", "guessed"} = {}
    /\ PeopleSeeParks \in BOOLEAN /\ MaxCrashes \in [Paths -> Nat]

VARIABLES
    path,      \* the workflow
    passed,    \* nodes whose date, or whose deadline, has passed
    row,       \* workflow_executions_v2: status, current_node_id, next_run_at
    saved,     \* the node the latest checkpoint would run next; 0: none yet
    item,      \* workflow_review_items, workflow_acknowledgments: the answer
    booked,    \* rows of those marked as resumed (status resumed, resumed_at)
    lock,      \* runtime_execution_locks: the process with the engine lock
    jobs,      \* BullMQ: the job of the run, and the one of the resumes
    orphan,    \* an ownership row whose worker has died
    stuck,     \* the sweep of stuck runs has selected the row
    crashes,
    pc, here, about, branch,  \* local: where, at which node, for which item
    undated,   \* history: put back to waiting by a revert or the watchdog, with no date
    unread,    \* history: reviews taken for resumed because the row could not be read
    walked     \* history: the nodes passed, each with the branch it was left by

tables == <<row, saved, item, booked, lock, jobs, orphan>>
locals == <<pc, here, about, branch>>
vars == <<path, passed, tables, stuck, crashes, locals, undated, unread, walked>>

Nodes == DOMAIN path

Engine == {"init", "lock", "take", "enter", "mark", "handle", "expire", "route",
           "complete", "park", "save", "quit", "unlock"}
Steps == {"idle", "claim", "slot", "revert", "enqueue", "fail", "decide", "acknowledge",
          "touch", "stale", "check", "read", "book", "settle"} \cup Engine
Answered == Outcomes \cup {"acknowledged", "timed_out"}
\* "guessed" is timed_out, of a wait that may have been acknowledged.
Branches == {"due", "made", "guessed"} \cup Answered
Rows == [status : {"queued", "running", "waiting", "success", "failed"},
         at : 0 .. Len(path), next : 0 .. Len(path)]

TypeOK ==
    /\ path \in Paths
    /\ passed \subseteq Nodes
    /\ row \in Rows
    /\ saved \in 0 .. Len(path)
    /\ item \in [Nodes -> {"none", "pending"} \cup Answered]
    /\ booked \subseteq Nodes /\ unread \subseteq Nodes
    /\ lock \in Processes \cup {Free, Gone}
    /\ jobs \in [{"run", "resume"} -> {"none", "waiting", "active", "done"}]
    /\ orphan \in BOOLEAN /\ stuck \in BOOLEAN /\ undated \in BOOLEAN
    /\ crashes \in 0 .. MaxCrashes[path]
    /\ pc \in [Callers -> Steps]
    /\ here \in [Callers -> 0 .. Len(path)]
    /\ about \in [Callers -> 0 .. Len(path)]
    /\ branch \in [Callers -> {"none"} \cup Branches]
    /\ walked \subseteq Nodes \X Branches

Init ==
    /\ path \in Paths
    /\ passed = {}
    /\ row = [status |-> "queued", at |-> 0, next |-> 0]
    /\ saved = 0
    /\ item = [n \in Nodes |-> "none"]
    /\ booked = {} /\ unread = {}
    /\ lock = Free
    /\ jobs = [k \in {"run", "resume"} |-> IF k = "run" THEN "waiting" ELSE "none"]
    /\ orphan = FALSE /\ stuck = FALSE /\ undated = FALSE
    /\ crashes = 0
    /\ pc = [p \in Callers |-> "idle"]
    /\ here = [p \in Callers |-> 0]
    /\ about = [p \in Callers |-> 0]
    /\ branch = [p \in Callers |-> "none"]
    /\ walked = {}
-----------------------------------------------------------------------------
(* Steps of a caller *)

Goto(p, step) == pc' = [pc EXCEPT ![p] = step]
At(p, step) == pc[p] = step
Move(p, from, to) == At(p, from) /\ Goto(p, to)

\* The request is answered: nothing local is left.
Return(p) ==
    /\ Goto(p, "idle")
    /\ here' = [here EXCEPT ![p] = 0]
    /\ about' = [about EXCEPT ![p] = 0]
    /\ branch' = [branch EXCEPT ![p] = "none"]

Local == UNCHANGED <<here, about, branch>>
Still == UNCHANGED <<path, passed, stuck, crashes>>
World == Still /\ UNCHANGED <<undated, unread>>
Outside == World /\ UNCHANGED walked
RowOnly == UNCHANGED <<saved, item, booked, lock, jobs, orphan>>

SetStatus(s) == row' = [row EXCEPT !.status = s]
\* setExecutionState: status, current_node_id and next_run_at in one update,
\* by id, whatever the status was.
SetState(s, n, next) == row' = [status |-> s, at |-> n, next |-> next]

\* A running row is put back to waiting, with whatever next_run_at it has.
PutBack ==
    IF row.status = "running"
    THEN SetStatus("waiting") /\ undated' = (undated \/ row.next = 0)
    ELSE UNCHANGED <<row, undated>>

Due == row.status = "waiting" /\ row.next # 0 /\ row.next \in passed
-----------------------------------------------------------------------------
(* The poller: dispatchDueRetries *)

PollSelect(p) ==
    /\ p \in Crons /\ Due
    /\ Move(p, "idle", "claim")
    /\ here' = [here EXCEPT ![p] = row.next]
    /\ UNCHANGED <<about, branch, tables>> /\ Outside

Claim(p) ==
    /\ At(p, "claim")
    /\ IF row.status = "waiting" /\ row.next = here[p]
       THEN Goto(p, "slot") /\ SetStatus("running") /\ Local
       ELSE Return(p) /\ UNCHANGED row
    /\ RowOnly /\ Outside

\* reserveConcurrencySlot: other executions may hold the limit.
Grant(p) == Move(p, "slot", "enqueue") /\ Local /\ UNCHANGED tables /\ Outside
Deny(p) == Move(p, "slot", "revert") /\ Local /\ UNCHANGED tables /\ Outside

\* Mutant: a claim that got no slot forgets when the row was due.
RevertWithoutDate(p) ==
    /\ At(p, "revert") /\ Return(p)
    /\ IF row.status = "running" THEN SetState("waiting", row.at, 0) ELSE UNCHANGED row
    /\ RowOnly /\ Outside

\* The revert asks for the status alone, which may be another's by now.
Revert(p) ==
    /\ At(p, "revert") /\ Return(p)
    /\ PutBack
    /\ RowOnly /\ Still /\ UNCHANGED <<unread, walked>>

\* The dedupe key resume:{execution}:{retry_count} is the same for every park:
\* BullMQ keeps a finished job under its id, reports success and adds nothing.
\* A call that times out may have added the job all the same.
Queued == [jobs EXCEPT !["resume"] = IF @ = "none" THEN "waiting" ELSE @]
EnqueueResume(p) ==
    /\ At(p, "enqueue")
    /\ \/ Return(p) /\ jobs' = Queued
       \/ Goto(p, "fail") /\ Local /\ jobs' \in {jobs, Queued}
    /\ UNCHANGED <<row, saved, item, booked, lock, orphan>> /\ Outside

FailClaim(p) ==
    /\ At(p, "fail") /\ Return(p)
    /\ IF row.status = "running" THEN SetStatus("failed") ELSE UNCHANGED row
    /\ RowOnly /\ Outside
-----------------------------------------------------------------------------
(* The worker's jobs, and a person's request to resume what is due *)

TakeJob(k) ==
    /\ At(Worker, "idle") /\ jobs[k] = "waiting"
    /\ jobs' = [jobs EXCEPT ![k] = "active"]
    /\ orphan' = FALSE              \* it claims the ownership row
    /\ IF k = "run" THEN Goto(Worker, "init") /\ here' = [here EXCEPT ![Worker] = 1]
                    ELSE Goto(Worker, "read") /\ UNCHANGED here
    /\ UNCHANGED <<about, branch, row, saved, item, booked, lock>> /\ Outside

SettleJob ==
    /\ At(Worker, "settle") /\ Return(Worker)
    /\ jobs' = [k \in DOMAIN jobs |-> IF jobs[k] = "active" THEN "done" ELSE jobs[k]]
    /\ UNCHANGED <<row, saved, item, booked, lock, orphan>> /\ Outside

\* removeOnComplete: 500
Forget ==
    /\ jobs["resume"] = "done"
    /\ jobs' = [jobs EXCEPT !["resume"] = "none"]
    /\ UNCHANGED <<row, saved, item, booked, lock, orphan, locals>> /\ Outside

\* The route reads that the row is due and resumes it without a claim.
ResumeDue(p) ==
    /\ p \in People /\ Due
    /\ Move(p, "idle", "read")
    /\ Local /\ UNCHANGED tables /\ Outside
-----------------------------------------------------------------------------
(* Decisions and acknowledgments, and the sweeps of those not resumed yet *)

Open(p, n) ==
    /\ At(p, "idle")
    /\ about' = [about EXCEPT ![p] = n]
    /\ UNCHANGED <<here, branch, tables>> /\ Outside

\* POST /api/reviews/[id]/decide.  A decided review is only resumed once more.
OpenReview(p, n) ==
    /\ p \in People /\ path[n] = "review" /\ item[n] # "none"
    /\ Open(p, n)
    /\ Goto(p, IF item[n] = "pending" THEN "decide" ELSE "check")

\* Pending to resume_pending, with the decision, in one compare-and-set.
\* Whoever loses it goes on to resume with the decision that won.
RecordDecision(p) ==
    /\ At(p, "decide")
    /\ PeopleSeeParks => row.status = "waiting" /\ row.at = about[p]
    /\ \E d \in Outcomes :
         item' = IF item[about[p]] = "pending" THEN [item EXCEPT ![about[p]] = d] ELSE item
    /\ Goto(p, "check") /\ Local
    /\ UNCHANGED <<row, saved, booked, lock, jobs, orphan>> /\ Outside

\* POST /api/acknowledgments/[id]/ack.  After the deadline has won, only
\* late_acknowledged_* is written, which nothing here reads.
OpenAcknowledgment(p, n) ==
    /\ p \in People /\ path[n] = "ack" /\ item[n] \in {"pending", "acknowledged"}
    /\ Open(p, n)
    /\ Goto(p, IF item[n] = "pending" THEN "acknowledge" ELSE "check")

\* Mutant: the update does not ask whether the row is still pending.
AcknowledgeAnyway(p) ==
    /\ At(p, "acknowledge")
    /\ item' = [item EXCEPT ![about[p]] = "acknowledged"]
    /\ Goto(p, "check") /\ Local
    /\ UNCHANGED <<row, saved, booked, lock, jobs, orphan>> /\ Outside

RecordAcknowledgment(p) ==
    /\ At(p, "acknowledge")
    /\ IF item[about[p]] = "timed_out" THEN Return(p) ELSE Goto(p, "check") /\ Local
    /\ item' = IF item[about[p]] = "pending" THEN [item EXCEPT ![about[p]] = "acknowledged"]
               ELSE item
    /\ UNCHANGED <<row, saved, booked, lock, jobs, orphan>> /\ Outside

\* recoverStuckReviewResumes, recoverStuckAcknowledgmentResumes: answered, not
\* marked resumed, and old enough for the grace period.
Unresumed(n) == item[n] \in Answered /\ n \notin booked
SweepSelect(p, n) ==
    /\ p \in Crons /\ Unresumed(n)
    /\ Open(p, n) /\ Goto(p, "touch")

\* The sweep claims the row by its updated_at: other sweeps that selected it
\* before will find another one there.
Touch(p) ==
    /\ At(p, "touch")
    /\ pc' = [q \in Callers |->
                IF q = p THEN IF Unresumed(about[p]) THEN "check" ELSE "stale"
                ELSE IF pc[q] = "touch" /\ about[q] = about[p] THEN "stale" ELSE pc[q]]
    /\ Local /\ UNCHANGED tables /\ Outside

Skip(p) == At(p, "stale") /\ Return(p) /\ UNCHANGED tables /\ Outside

\* attemptReviewResume asks for the node too, attemptAcknowledgmentResume for
\* the status alone.  Nothing holds the row between this and the resume.  Both
\* drop the error of a read that fails, and take no row for one that went on.
StillParked(n) == row.status = "waiting" /\ (path[n] = "review" => row.at = n)
Check(p) ==
    /\ At(p, "check")
    /\ \/ /\ Goto(p, IF StillParked(about[p]) THEN "read" ELSE "book")
          /\ UNCHANGED unread
       \/ /\ StillParked(about[p]) /\ Goto(p, "book")
          /\ unread' = unread \cup {n \in {about[p]} : path[n] = "review"}
    /\ Local /\ UNCHANGED <<tables, undated, walked>> /\ Still

Book(p) ==
    /\ At(p, "book") /\ Return(p)
    /\ booked' = booked \cup {about[p]}
    /\ UNCHANGED <<row, saved, item, lock, jobs, orphan>> /\ Outside
-----------------------------------------------------------------------------
(* resumeExecution and the engine *)

\* Where a call of the engine returns to.
AfterRun(p) == IF p = Worker THEN "settle" ELSE IF about[p] # 0 THEN "book" ELSE "idle"
Leave(p) == IF AfterRun(p) = "idle" THEN Return(p)
            ELSE /\ Goto(p, AfterRun(p))
                 /\ here' = [here EXCEPT ![p] = 0]
                 /\ branch' = [branch EXCEPT ![p] = "none"]
                 /\ UNCHANGED about

ReadCheckpoint(p) ==
    /\ Move(p, "read", "init")
    /\ here' = [here EXCEPT ![p] = IF saved = 0 THEN 1 ELSE saved]
    /\ UNCHANGED <<about, branch, tables>> /\ Outside

\* The row is running from here on, whether the lock is got or not.
InitializeExecution(p) ==
    /\ Move(p, "init", "lock") /\ SetStatus("running")
    /\ Local /\ RowOnly /\ Outside

ReadLock(p) ==
    /\ At(p, "lock")
    /\ IF lock \in {Free, ProcessOf[p]} THEN Goto(p, "take") /\ Local ELSE Leave(p)
    /\ UNCHANGED tables /\ Outside

\* An update that matches no row is no error: both of two readers go on.
TakeLock(p) ==
    /\ Move(p, "take", "enter") /\ Local
    /\ lock' = ProcessOf[p]
    /\ UNCHANGED <<row, saved, item, booked, jobs, orphan>> /\ Outside

\* The node mutex keeps other processes off the node; one that meets it tries
\* again, and fails the execution after three tries per node.
InNode(q) == pc[q] \in {"mark", "handle", "expire"}
Taken(p) == \E q \in Callers : /\ InNode(q) /\ here[q] = here[p]
                              /\ ProcessOf[q] # ProcessOf[p]
AcquireMutex(p) ==
    /\ ~Taken(p)
    /\ Move(p, "enter", "mark") /\ Local /\ UNCHANGED tables /\ Outside
GiveUp(p) ==
    /\ Taken(p)
    /\ Move(p, "enter", "save") /\ SetState("failed", here[p], 0)
    /\ Local /\ RowOnly /\ Outside

MarkRunning(p) ==
    /\ Move(p, "mark", "handle") /\ SetState("running", here[p], 0)
    /\ Local /\ RowOnly /\ Outside

Handle(p, kind) == At(p, "handle") /\ path[here[p]] = kind
Succeed(p, b) == Goto(p, "route") /\ branch' = [branch EXCEPT ![p] = b] /\ UNCHANGED <<here, about>>
Park(p) == Goto(p, "park") /\ Local
Put(n, v) == item' = [item EXCEPT ![n] = v]

\* waitHandler with a date.
Wait(p) ==
    /\ Handle(p, "timer")
    /\ IF here[p] \in passed THEN Succeed(p, "due") ELSE Park(p)
    /\ UNCHANGED tables /\ Outside

\* humanReviewHandler.  The mutex makes its lookup and its insert one step.
Review(p) ==
    LET n == here[p]
    IN /\ Handle(p, "review")
       /\ IF item[n] \in Outcomes
          THEN Succeed(p, item[n]) /\ booked' = booked \cup {n} /\ UNCHANGED item
          ELSE Park(p) /\ Put(n, "pending") /\ UNCHANGED booked
       /\ UNCHANGED <<row, saved, lock, jobs, orphan>> /\ Outside

\* createAcknowledgmentChallengeHandler: the row that the next node waits on.
Challenge(p) ==
    LET n == here[p]
    IN /\ Handle(p, "challenge")
       /\ Succeed(p, "made")
       /\ item' = [item EXCEPT ![n + 1] = IF @ = "none" THEN "pending" ELSE @]
       /\ UNCHANGED <<row, saved, booked, lock, jobs, orphan>> /\ Outside

\* waitForAcknowledgmentHandler, resolveFromRow.
\* Mutant: a run that wakes before the deadline does not park again.
AwaitNoLonger(p) ==
    LET n == here[p]
    IN /\ Handle(p, "ack")
       /\ CASE item[n] = "none" -> Put(n, "pending") /\ Park(p)
            [] item[n] \in Answered -> Succeed(p, item[n]) /\ UNCHANGED item
            [] OTHER -> Goto(p, "expire") /\ Local /\ UNCHANGED item
       /\ UNCHANGED <<row, saved, booked, lock, jobs, orphan>> /\ Outside

Await(p) ==
    LET n == here[p]
    IN /\ Handle(p, "ack")
       /\ CASE item[n] = "none" -> Put(n, "pending") /\ Park(p)
            [] item[n] \in Answered -> Succeed(p, item[n]) /\ UNCHANGED item
            [] item[n] = "pending" /\ n \notin passed -> Park(p) /\ UNCHANGED item
            [] OTHER -> Goto(p, "expire") /\ Local /\ UNCHANGED item
       /\ UNCHANGED <<row, saved, booked, lock, jobs, orphan>> /\ Outside

\* Pending to timed_out by compare-and-set.  Who loses it reads who won, and
\* takes it for timed_out when that read fails.
Expire(p) ==
    LET n == here[p]
    IN /\ At(p, "expire")
       /\ \/ item[n] = "pending" /\ Put(n, "timed_out") /\ Succeed(p, "timed_out")
          \/ item[n] # "pending" /\ UNCHANGED item /\ Succeed(p, item[n])
          \/ item[n] = "acknowledged" /\ UNCHANGED item /\ Succeed(p, "guessed")
       /\ UNCHANGED <<row, saved, booked, lock, jobs, orphan>> /\ Outside
-----------------------------------------------------------------------------
\* The checkpoint of a finished node holds the next one; that of the last has
\* an empty queue, which a resume reads as the node itself.
\* Mutant: the loop goes on behind the last node.
RoutePastTheEnd(p) ==
    LET n == here[p]
    IN /\ Move(p, "route", "enter")
       /\ saved' = n + 1 /\ here' = [here EXCEPT ![p] = n + 1]
       /\ walked' = walked \cup {<<n, branch[p]>>}
       /\ branch' = [branch EXCEPT ![p] = "none"]
       /\ UNCHANGED <<about, row, item, booked, lock, jobs, orphan>> /\ World

Route(p) ==
    LET n == here[p]
        more == n < Len(path)
        then == IF more THEN n + 1 ELSE n
    IN /\ Move(p, "route", IF more THEN "enter" ELSE "complete")
       /\ saved' = then /\ here' = [here EXCEPT ![p] = then]
       /\ walked' = walked \cup {<<n, branch[p]>>}
       /\ branch' = [branch EXCEPT ![p] = "none"]
       /\ UNCHANGED <<about, row, item, booked, lock, jobs, orphan>> /\ World

Complete(p) ==
    /\ Move(p, "complete", "save") /\ SetState("success", here[p], 0)
    /\ Local /\ RowOnly /\ Outside

\* The row says waiting before the checkpoint of the park is there.
ParkRow(p) ==
    /\ Move(p, "park", "save")
    /\ SetState("waiting", here[p], IF path[here[p]] = "review" THEN 0 ELSE here[p])
    /\ Local /\ RowOnly /\ Outside

SaveCheckpoint(p) ==
    /\ Move(p, "save", "quit")
    /\ saved' = here[p]
    /\ Local /\ UNCHANGED <<row, item, booked, lock, jobs, orphan>> /\ Outside

ForceFail(p) ==
    /\ Move(p, "quit", "unlock")
    /\ IF row.status = "running" THEN SetStatus("failed") ELSE UNCHANGED row
    /\ Local /\ RowOnly /\ Outside

ReleaseLock(p) ==
    /\ At(p, "unlock") /\ Leave(p)
    /\ lock' = IF lock = ProcessOf[p] THEN Free ELSE lock
    /\ UNCHANGED <<row, saved, item, booked, jobs, orphan>> /\ Outside
-----------------------------------------------------------------------------
(* Time, death and the sweeps that follow it *)

\* A deadline runs once its row is there.
DatePasses(n) ==
    /\ n \notin passed
    /\ path[n] = "timer" \/ (path[n] = "ack" /\ item[n] # "none")
    /\ passed' = passed \cup {n}
    /\ UNCHANGED <<path, tables, stuck, crashes, locals, undated, unread, walked>>

Of(proc) == {p \in Callers : ProcessOf[p] = proc}
\* Every call of the process is cut off; the queue takes a stalled job back.
Crash(proc) ==
    /\ crashes < MaxCrashes[path]
    /\ \E p \in Of(proc) : pc[p] # "idle"
    /\ crashes' = crashes + 1
    /\ pc' = [p \in Callers |-> IF p \in Of(proc) THEN "idle" ELSE pc[p]]
    /\ here' = [p \in Callers |-> IF p \in Of(proc) THEN 0 ELSE here[p]]
    /\ about' = [p \in Callers |-> IF p \in Of(proc) THEN 0 ELSE about[p]]
    /\ branch' = [p \in Callers |-> IF p \in Of(proc) THEN "none" ELSE branch[p]]
    /\ lock' = IF lock = proc THEN Gone ELSE lock
    /\ jobs' = IF Worker \notin Of(proc) THEN jobs
               ELSE [k \in DOMAIN jobs |-> IF jobs[k] = "active" THEN "waiting" ELSE jobs[k]]
    /\ orphan' = (orphan \/ Worker \in Of(proc))
    /\ UNCHANGED <<path, passed, row, saved, item, booked, stuck, undated, unread, walked>>

LockLapses ==
    /\ lock = Gone /\ lock' = Free
    /\ UNCHANGED <<row, saved, item, booked, jobs, orphan, locals>> /\ Outside

\* recoverOrphanExecutions: the worker that held the execution is dead.
RecoverOrphan ==
    /\ orphan /\ orphan' = FALSE
    /\ PutBack
    /\ UNCHANGED <<saved, item, booked, lock, jobs, locals, unread, walked>> /\ Still

\* markOrphanExecutionsFailed: a running row that nobody has written to for
\* ten minutes, which an engine at work does far more often.
SelectStuck ==
    /\ ~stuck /\ stuck' = TRUE
    /\ row.status = "running" /\ \A p \in Callers : pc[p] \notin Engine
    /\ UNCHANGED <<path, passed, tables, crashes, locals, undated, unread, walked>>

FailStuck ==
    /\ stuck /\ stuck' = FALSE
    /\ IF row.status = "running" THEN SetStatus("failed") ELSE UNCHANGED row
    /\ UNCHANGED <<path, passed, saved, item, booked, lock, jobs, orphan, crashes, locals,
                   undated, unread, walked>>
-----------------------------------------------------------------------------
Run(p) ==
    \/ ReadCheckpoint(p) \/ InitializeExecution(p) \/ ReadLock(p) \/ TakeLock(p)
    \/ AcquireMutex(p) \/ GiveUp(p) \/ MarkRunning(p)
    \/ Wait(p) \/ Review(p) \/ Challenge(p) \/ Await(p) \/ Expire(p)
    \/ Route(p) \/ Complete(p) \/ ParkRow(p) \/ SaveCheckpoint(p)
    \/ ForceFail(p) \/ ReleaseLock(p)

Serve(p) ==
    \/ Claim(p) \/ Grant(p) \/ Deny(p) \/ Revert(p) \/ EnqueueResume(p) \/ FailClaim(p)
    \/ RecordDecision(p) \/ RecordAcknowledgment(p)
    \/ Touch(p) \/ Skip(p) \/ Check(p) \/ Book(p)

Cron(p) == PollSelect(p) \/ \E n \in Nodes : SweepSelect(p, n)
Ask(p) == ResumeDue(p) \/ \E n \in Nodes : OpenReview(p, n) \/ OpenAcknowledgment(p, n)

Next ==
    \/ \E p \in Callers : Run(p) \/ Serve(p) \/ Cron(p) \/ Ask(p)
    \/ \E k \in DOMAIN jobs : TakeJob(k)
    \/ SettleJob \/ Forget
    \/ \E n \in Nodes : DatePasses(n)
    \/ \E proc \in Processes : Crash(proc)
    \/ LockLapses \/ RecoverOrphan \/ SelectStuck \/ FailStuck

\* Processes go on, workers take jobs, crons come again and slots come free.
\* Nobody has to decide or ask, and no date has to pass.
Fairness ==
    /\ \A p \in Callers : WF_vars(Run(p) \/ Serve(p))
    /\ \A p \in Crons : /\ SF_vars(PollSelect(p)) /\ SF_vars(Grant(p))
                        /\ SF_vars(\E n \in Nodes : SweepSelect(p, n))
    /\ WF_vars(\E k \in DOMAIN jobs : TakeJob(k)) /\ WF_vars(SettleJob)
    /\ WF_vars(LockLapses) /\ WF_vars(SelectStuck) /\ WF_vars(FailStuck)

Spec == Init /\ [][Next]_vars /\ Fairness
-----------------------------------------------------------------------------
(* Properties *)

Verdict(n) ==
    CASE path[n] = "timer" -> IF n \in passed THEN "due" ELSE "none"
      [] path[n] = "challenge" -> IF item[n + 1] = "none" THEN "none" ELSE "made"
      [] OTHER -> IF item[n] \in Answered THEN item[n] ELSE "none"

\* Whoever resumes, and however often: a node is answered once and for good, a
\* deadline decides only after it has passed, and the execution goes on by
\* that answer and only behind the nodes before.
Gates == INSTANCE GatedWalk WITH answer <- [n \in Nodes |-> Verdict(n)]
ImplementsGates == Gates!Spec

\* An execution at a decided review, or at a timer or an acknowledgment whose
\* time is up, does not stay there for ever: it goes on or is failed.  Only one
\* put back to waiting with no date may need a person, and a review that was
\* taken for resumed because its row could not be read.  (An acknowledgment that
\* comes before the park is written, or is so taken, is heard when its time is
\* up.)
Walked(n) == \E b \in Branches : <<n, b>> \in walked
Ready(n) == IF path[n] = "review" THEN item[n] \in Answered ELSE n \in passed
Unheard ==
    /\ row.status \in {"running", "waiting"} /\ row.at # 0
    /\ ~undated /\ row.at \notin unread
    /\ Ready(row.at) /\ ~Walked(row.at)
AnswersAreHeard == []<>~Unheard

\* review-resume.ts marks a review resumed when the execution is no longer
\* parked at it, as "proof a prior attempt already progressed the run": then
\* it is past the review, has ended, or somebody is at work on it.
ResumedReviewsWentOn ==
    \A n \in booked : path[n] = "review" =>
        Walked(n) \/ row.status # "waiting" \/ undated \/ n \in unread \/ \E p \in Callers : pc[p] \in Engine
=============================================================================
