------------------------- MODULE ExecutionOwnership -------------------------
(***************************************************************************)
(* Who owns an execution (runtime/hardening-layer.ts): the ownership row   *)
(* of one execution, the queue job invocations that claim, renew, check    *)
(* and release it (lib/runtime/worker.ts), and the watchdog passes that    *)
(* take over from dead workers.  Rows of different executions share        *)
(* nothing.  Every database statement is a step of its own, so a claim is  *)
(* a read and, later, a compare-and-set on what was read.                  *)
(***************************************************************************)
EXTENDS Naturals, FiniteSets

CONSTANTS
    Jobs,        \* invocations of the queue processor for this execution
    Workers,     \* worker processes
    WorkerOf,    \* the process each invocation runs in
    Watchdogs,   \* concurrent watchdog passes
    MaxFencing   \* bound: no claim starts once fencing_token is this high

ASSUME OwnershipAssumption ==
    /\ WorkerOf \in [Jobs -> Workers]
    /\ MaxFencing \in Nat

VARIABLES
    row,     \* the runtime_execution_ownership row; .live: before the lease end
    pc,      \* where each invocation is
    token,   \* the fencing_token it has read (0: no row), then believes to own
    exec,    \* status of the workflow_executions_v2 row
    watch    \* what each watchdog pass is about to write

vars == <<row, pc, token, exec, watch>>

\* A claim draws a fresh owner_token.  An invocation never claims twice with one
\* fencing_token, so <<job, fencing>> stands for the token.
Row == [state : {"absent", "active", "released", "orphaned"},
        job : Jobs, fencing : Nat, live : BOOLEAN]

PC == {"idle", "claim", "owner", "testing", "running", "closing"}
Exec == {"queued", "running", "waiting", "settled"}

TypeOK ==
    /\ row \in Row
    /\ pc \in [Jobs -> PC]
    /\ token \in [Jobs -> Nat]
    /\ exec \in Exec
    /\ watch \in [Watchdogs -> {"idle", "orphan", "park", "fail"}]

Init ==
    /\ row \in [state : {"absent"}, job : Jobs, fencing : {0}, live : {FALSE}]
    /\ pc = [j \in Jobs |-> "idle"]
    /\ token = [j \in Jobs |-> 0]
    /\ exec = "queued"
    /\ watch = [w \in Watchdogs |-> "idle"]
-----------------------------------------------------------------------------
(* claimExecutionOwnership *)

\* The read: a live lease of another worker turns the claim down.
ReadOwner(j) ==
    /\ pc[j] = "idle"
    /\ row.fencing < MaxFencing
    /\ row.live => WorkerOf[row.job] = WorkerOf[j]
    /\ token' = [token EXCEPT ![j] = row.fencing]
    /\ pc' = [pc EXCEPT ![j] = "claim"]
    /\ UNCHANGED <<row, exec, watch>>

Take(j, fencing) ==
    row' = [state |-> "active", job |-> j, fencing |-> fencing, live |-> TRUE]

Believe(j, fencing) ==
    /\ token' = [token EXCEPT ![j] = fencing]
    /\ pc' = [pc EXCEPT ![j] = "owner"]

\* The invocation ends, and what it knew with it.
End(j) ==
    /\ pc' = [pc EXCEPT ![j] = "idle"]
    /\ token' = [token EXCEPT ![j] = 0]

\* Mutant: an upsert, which starts the fencing over.
InsertUpsert(j) ==
    /\ pc[j] = "claim"
    /\ token[j] = 0
    /\ Take(j, 1) /\ Believe(j, 1)
    /\ UNCHANGED <<exec, watch>>

\* No row was there: the primary key lets one insert in, the others fail.
InsertOwner(j) ==
    /\ pc[j] = "claim"
    /\ token[j] = 0
    /\ \/ row.state = "absent" /\ Take(j, 1) /\ Believe(j, 1)
       \/ row.state # "absent" /\ UNCHANGED row /\ End(j)
    /\ UNCHANGED <<exec, watch>>

\* Mutant: the update by key, without the compare.
TakeOverUnchecked(j) ==
    /\ pc[j] = "claim"
    /\ token[j] > 0
    /\ Take(j, token[j] + 1) /\ Believe(j, token[j] + 1)
    /\ UNCHANGED <<exec, watch>>

\* A row was there: compare-and-set on its fencing_token.  An update that
\* matches no row is no error, so the caller believes it either way.
TakeOver(j) ==
    /\ pc[j] = "claim"
    /\ token[j] > 0
    /\ \/ row.fencing = token[j] /\ Take(j, token[j] + 1)
       \/ row.fencing # token[j] /\ UNCHANGED row
    /\ Believe(j, token[j] + 1)
    /\ UNCHANGED <<exec, watch>>
-----------------------------------------------------------------------------
(* renew, validate, release *)

\* The row names j's worker and the token of its claim.
Named(j) == row.state # "absent" /\ row.job = j /\ row.fencing = token[j]

Working == {"owner", "testing", "running", "closing"}

\* Mutant: a renewal by upsert, which puts a replaced owner back.
RenewUpsert(j) ==
    /\ pc[j] \in Working
    /\ row' = [state |-> "active", job |-> j, fencing |-> token[j], live |-> TRUE]
    /\ UNCHANGED <<pc, token, exec, watch>>

RenewOwner(j) ==
    /\ pc[j] \in Working
    /\ Named(j) /\ row.state = "active"
    /\ row' = [row EXCEPT !.live = TRUE]
    /\ UNCHANGED <<pc, token, exec, watch>>

LeaseExpires ==
    /\ row.live
    /\ row' = [row EXCEPT !.live = FALSE]
    /\ UNCHANGED <<pc, token, exec, watch>>

\* validateExecutionOwnership, its tests in the code's order.
Verdict(j) ==
    IF row.state = "absent" THEN "NOT_FOUND"
    ELSE IF row.fencing > token[j] THEN "FENCED_OUT"
    ELSE IF ~Named(j) THEN "OWNER_REPLACED"
    ELSE IF ~row.live THEN "LEASE_EXPIRED"
    ELSE "valid"

\* assertOwnership before the remote test of a 'test_workflow' job.
AssertOwnership(j) ==
    /\ pc[j] = "owner"
    /\ pc' = [pc EXCEPT ![j] = IF Verdict(j) = "valid" THEN "testing" ELSE "closing"]
    /\ UNCHANGED <<row, token, exec, watch>>

\* 'run_workflow_execution' and 'resume_workflow_execution' ask nothing:
\* initializeExecution writes 'running' over whatever the row says.
StartRun(j) ==
    /\ pc[j] = "owner"
    /\ pc' = [pc EXCEPT ![j] = "running"]
    /\ exec' = "running"
    /\ UNCHANGED <<row, token, watch>>

\* The engine parks or settles the execution, the remote test leaves it alone.
Finish(j) ==
    /\ \/ pc[j] = "running" /\ exec' \in {"waiting", "settled"}
       \/ pc[j] = "testing" /\ UNCHANGED exec
    /\ pc' = [pc EXCEPT ![j] = "closing"]
    /\ UNCHANGED <<row, token, watch>>

\* The processor's finally block.
ReleaseOwner(j) ==
    /\ pc[j] = "closing"
    /\ row' = IF Named(j) THEN [row EXCEPT !.state = "released", !.live = FALSE]
                          ELSE row
    /\ End(j)
    /\ UNCHANGED <<exec, watch>>

Crash(j) ==
    /\ pc[j] # "idle"
    /\ End(j)
    /\ UNCHANGED <<row, exec, watch>>
-----------------------------------------------------------------------------
(* recoverOrphanExecutions and markOrphanExecutionsFailed *)

Watch(w, next) == watch' = [watch EXCEPT ![w] = next]

\* Mutant: the pass looks at the rows of running executions only.
SelectRunningOrphan(w) ==
    /\ watch[w] = "idle"
    /\ row.state = "active" /\ ~row.live /\ exec = "running"
    /\ Watch(w, "orphan")
    /\ UNCHANGED <<row, pc, token, exec>>

SelectOrphan(w) ==
    /\ watch[w] = "idle"
    /\ row.state = "active" /\ ~row.live
    /\ Watch(w, "orphan")
    /\ UNCHANGED <<row, pc, token, exec>>

\* Mutant: the execution's state is written into the ownership row.
OrphanIntoWaiting(w) ==
    /\ watch[w] = "orphan"
    /\ row' = IF row.state = "active" THEN [row EXCEPT !.state = "waiting"] ELSE row
    /\ Watch(w, "park")
    /\ UNCHANGED <<pc, token, exec>>

\* The update asks only that the row be active still, not that it be stale.
OrphanOwner(w) ==
    /\ watch[w] = "orphan"
    /\ row' = IF row.state = "active" THEN [row EXCEPT !.state = "orphaned"] ELSE row
    /\ Watch(w, "park")
    /\ UNCHANGED <<pc, token, exec>>

ParkOrphan(w) ==
    /\ watch[w] = "park"
    /\ exec' = IF exec = "running" THEN "waiting" ELSE exec
    /\ Watch(w, "idle")
    /\ UNCHANGED <<row, pc, token>>

\* Mutant: the pass looks for executions that never started.
SelectStuckQueued(w) ==
    /\ watch[w] = "idle"
    /\ exec = "queued"
    /\ Watch(w, "fail")
    /\ UNCHANGED <<row, pc, token, exec>>

\* updated_at is ten minutes old: no engine is at work, each stops after five.
SelectStuck(w) ==
    /\ watch[w] = "idle"
    /\ exec = "running"
    /\ \A j \in Jobs : pc[j] # "running"
    /\ Watch(w, "fail")
    /\ UNCHANGED <<row, pc, token, exec>>

FailStuck(w) ==
    /\ watch[w] = "fail"
    /\ exec' = IF exec = "running" THEN "settled" ELSE exec
    /\ Watch(w, "idle")
    /\ UNCHANGED <<row, pc, token>>

WatchdogDies(w) ==
    /\ watch[w] # "idle"
    /\ Watch(w, "idle")
    /\ UNCHANGED <<row, pc, token, exec>>
-----------------------------------------------------------------------------
ClaimStep(j) == InsertOwner(j) \/ TakeOver(j)
JobStep(j) == ClaimStep(j) \/ AssertOwnership(j) \/ StartRun(j) \/ Finish(j) \/ ReleaseOwner(j)
WatchStep(w) == OrphanOwner(w) \/ ParkOrphan(w) \/ FailStuck(w)

Next ==
    \/ \E j \in Jobs : ReadOwner(j) \/ JobStep(j) \/ RenewOwner(j) \/ Crash(j)
    \/ LeaseExpires
    \/ \E w \in Watchdogs : SelectOrphan(w) \/ SelectStuck(w) \/ WatchStep(w) \/ WatchdogDies(w)

Spec == Init /\ [][Next]_vars

\* The row's holder is no longer there.
Ownerless == row.state = "active" /\ pc[row.job] = "idle"

\* An invocation that started goes on or dies, the engine ends a run within its
\* five minutes, a lease that nobody can renew runs out, and the watchdog timer
\* fires every thirty seconds: now and then a pass of each kind lives to its end.
\* Nothing obliges a job to be delivered.
Fairness ==
    /\ \A j \in Jobs : WF_vars(JobStep(j))
    /\ WF_vars(Ownerless /\ LeaseExpires)
    /\ \A w \in Watchdogs : /\ SF_vars(SelectStuck(w))
                            /\ SF_vars(FailStuck(w))
                            /\ SF_vars(SelectOrphan(w))
                            /\ SF_vars(OrphanOwner(w))
                            /\ WF_vars(WatchStep(w) \/ WatchdogDies(w))

FairSpec == Spec /\ Fairness
-----------------------------------------------------------------------------
(* Properties *)

\* The claim that passes has the newest fencing_token ever handed out, to a
\* winner or to a loser who does not know it.
AuthorityIsNewest ==
    \A j, k \in Jobs :
      /\ pc[j] \in Working /\ Verdict(j) = "valid"
      => token[k] <= token[j]

\* A claim that was fenced out or replaced never passes again, so it is right
\* that the worker gives the job up for good (BullUnrecoverableError).
ReplacedForGood ==
    [][\A j \in Jobs :
         /\ pc[j] \in Working /\ Verdict(j) \in {"FENCED_OUT", "OWNER_REPLACED"}
         /\ pc'[j] \in Working
         => Verdict(j)' \in {"FENCED_OUT", "OWNER_REPLACED"}]_vars

\* An execution does not stay 'running' for good, whoever dies where: its
\* engine settles or parks it, or a watchdog pass does.
RunningEnds == exec = "running" ~> exec # "running"

\* A row whose owner died, or lost the claim it believes in, does not say
\* 'active' for good: a watchdog pass writes it off or another claim takes it
\* over, wherever the owner stood and whichever passes died.
DeadOwnersAreNoticed == Ownerless ~> ~Ownerless

\* The row is a fenced lease: one grant per epoch, no epoch comes back.
Lease == INSTANCE FencedLease WITH
    Claimants <- Jobs, epoch <- row.fencing, holder <- row.job, live <- row.live
ImplementsFencedLease == Lease!Spec
=============================================================================
