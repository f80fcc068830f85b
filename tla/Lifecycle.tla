----------------------------- MODULE Lifecycle -----------------------------
(***************************************************************************)
(* The lifecycle of a workflow, the versions it deploys and the schedule   *)
(* that runs it (lib/workflow/lifecycle.ts, lib/deployment, lib/runtime/   *)
(* scheduler.ts).  Requests of the owner activate, publish, pause, resume, *)
(* disable, archive and edit; cron requests poll the schedule and run what *)
(* is due.  Nothing is in a transaction: every await of the code is a step *)
(* here, and a request or a poll may die before any of them.  The client   *)
(* of the database returns its errors: where the code drops one, the       *)
(* statement does nothing, or a read finds nothing, and the code goes on.  *)
(* The workflow has no webhook trigger and at most one schedule node,      *)
(* which is due at every tick of the clock.                                *)
(***************************************************************************)
EXTENDS Naturals, Sequences, FiniteSets

CONSTANTS
    Requests,     \* requests of the owner, each with one operation
    Pollers,      \* cron requests, each of which polls again and again
    Contents,     \* what workflow_json may be
    Timed,        \* the contents that have a schedule node
    Plans,        \* what is set up and which requests are made
    NoRow, Seed   \* ids of no schedule row, and of the one there at first

Ops == {"none", "activate", "publish", "pause", "disable", "archive", "resume", "edit"}

ASSUME LifecycleAssumption ==
    /\ \A plan \in Plans :
         /\ plan.op \in [Requests -> Ops]
         /\ plan.live \in BOOLEAN           \* there is a version already
         /\ plan.frozen \in Contents        \* what is in it
         /\ plan.polling \subseteq Pollers
         /\ plan.ticks \in Nat           \* bound of the clock
         /\ plan.faults \in Nat    \* bound: runs and statements that fail, deaths
    /\ Timed \subseteq Contents
    /\ NoRow \notin Requests \cup {Seed} /\ Seed \notin Requests

VARIABLES
    plan,
    wf,         \* the row of workflows; live: the version that
                \* active_deployment_version_id names, 0 for none;
                \* stamp: updated_at, a fresh one with every write
    versions,   \* deployment_versions of the workflow, by version
    schedule,   \* its row of workflow_schedules; next: next_run_at
    now,
    pc, seen, number, had, at,   \* a request: where it is, the rows it has read
    step, due, read,             \* a poll: where it is, its occurrence, its clock
    slots,      \* occurrences whose reservation is held
    first,      \* status of the execution that has the key of an occurrence
    keyed,      \* the polls that are in such an execution
    spared,     \* history: versions that a supersession which failed has left active
    blind,      \* history: polls whose lookup of the execution has failed
    faults

deployed == <<versions, spared>>
rows == <<wf, deployed>>
request == <<pc, seen, number, had, at>>
poll == <<step, due, read, keyed, blind>>
runs == <<slots, first>>
vars == <<plan, rows, schedule, now, request, poll, runs, faults>>

Statuses == {"draft", "validating", "active", "paused", "disabled", "archived", "error"}
Version == [status : {"active", "superseded"}, data : Contents]
Workflow == [status : Statuses, draft : Contents, live : Nat, stamp : Nat]
RowIds == Requests \cup {NoRow, Seed}
Schedule == [id : RowIds, enabled : BOOLEAN, next : Nat \ {0}]
RunStatuses == {"none", "running", "waiting", "success", "failed"}
RequestSteps == {"load", "compare", "claim", "guards", "supersede", "insert", "cutover",
                 "read", "sync", "set", "disable", "enable", "edit", "done"}
PollSteps == {"idle", "claim", "check", "reserve", "lookup", "begin", "run", "release"}
Present == schedule.id # NoRow
Executable(status) == status = "active"

TypeOK ==
    /\ plan \in Plans
    /\ wf \in Workflow /\ wf.live <= Len(versions)
    /\ versions \in Seq(Version)
    /\ schedule \in Schedule
    /\ now \in 0 .. plan.ticks
    /\ pc \in [Requests -> RequestSteps]
    /\ seen \in [Requests -> Workflow]
    /\ \A r \in Requests : seen[r].stamp <= wf.stamp
    /\ number \in [Requests -> Nat] /\ \A r \in Requests : number[r] <= Len(versions) + 1
    /\ had \in [Requests -> RowIds]
    /\ at \in [Requests -> 0 .. plan.ticks]
    /\ step \in [Pollers -> PollSteps]
    /\ due \in [Pollers -> 0 .. plan.ticks] /\ read \in [Pollers -> Nat]
    /\ slots \subseteq Nat
    /\ first \in [1 .. plan.ticks -> RunStatuses]
    /\ keyed \subseteq Pollers /\ blind \subseteq Pollers
    /\ spared \subseteq DOMAIN versions
    /\ faults \in 0 .. plan.faults

FirstStep(op) ==
    CASE op \in {"activate", "publish", "resume"} -> "load"
      [] op \in {"pause", "disable", "archive"} -> "set"
      [] op = "edit" -> "edit"
      [] OTHER -> "done"

Init ==
    /\ plan \in Plans
    /\ \E d \in Contents :
         wf = [status |-> IF plan.live THEN "active" ELSE "draft", draft |-> d,
               live |-> IF plan.live THEN 1 ELSE 0, stamp |-> 0]
    /\ versions = IF plan.live THEN <<[status |-> "active", data |-> plan.frozen]>> ELSE <<>>
    /\ schedule = [id |-> IF plan.live /\ plan.frozen \in Timed THEN Seed ELSE NoRow,
                   enabled |-> plan.live /\ plan.frozen \in Timed, next |-> 1]
    /\ now = 0
    /\ pc = [r \in Requests |-> FirstStep(plan.op[r])]
    /\ seen = [r \in Requests |-> wf]
    /\ number = [r \in Requests |-> 0]
    /\ had = [r \in Requests |-> NoRow]
    /\ at = [r \in Requests |-> 0]
    /\ step = [p \in Pollers |-> "idle"]
    /\ due = [p \in Pollers |-> 0]
    /\ read = [p \in Pollers |-> 0]
    /\ slots = {}
    /\ first = [k \in 1 .. plan.ticks |-> "none"]
    /\ keyed = {} /\ spared = {} /\ blind = {}
    /\ faults = 0
-----------------------------------------------------------------------------
(* Requests of the owner *)

Op(r) == plan.op[r]
Fault == faults < plan.faults /\ faults' = faults + 1
Move(r, a, b) == pc[r] = a /\ pc' = [pc EXCEPT ![r] = b]
Deploying == {"activate", "publish"}
\* What every step of a request on the workflow and its versions leaves alone.
OnRows == UNCHANGED <<plan, schedule, now, poll, runs, had, at>>
Same == OnRows /\ UNCHANGED faults
Quiet == Same /\ UNCHANGED rows

\* (An update that leaves updated_at as it is.)
WriteUnstamped(fields) == wf' = [fields EXCEPT !.stamp = wf.stamp]
\* An update of the row of the workflow.
Write(fields) == wf' = [fields EXCEPT !.stamp = wf.stamp + 1]

Admitted(r) ==
    CASE Op(r) = "activate" -> wf.status # "archived"
      [] Op(r) = "publish" -> Executable(wf.status)
      [] Op(r) = "resume" -> wf.status = "paused"
\* loadWorkflow, and what each operation makes of the status.
Load(r) ==
    /\ Move(r, "load", IF Op(r) = "resume" THEN "set"
                       ELSE IF Executable(wf.status) THEN "compare" ELSE "claim")
    /\ Admitted(r)
    /\ seen' = [seen EXCEPT ![r] = wf]
    /\ Quiet /\ UNCHANGED number

\* The status is not one for it, the page has another updated_at, or another
\* activation is under way.
Refuse(r) ==
    /\ \/ Move(r, "load", "done") /\ (Op(r) = "publish" \/ ~Admitted(r))
       \/ Move(r, "claim", "done") /\ wf.status = "validating"
    /\ Quiet /\ UNCHANGED <<seen, number>>

ActiveRows == {v \in DOMAIN versions : versions[v].status = "active"}
\* The frozen content the draft is compared with: of the newest active row.
SameContent(r) ==
    \E v \in ActiveRows :
        (\A u \in ActiveRows : u <= v) /\ versions[v].data = seen[r].draft

UpToDate(r) ==
    /\ Move(r, "compare", "done") /\ SameContent(r)
    /\ Quiet /\ UNCHANGED <<seen, number>>

\* Or the row could not be read.
Differs(r) ==
    /\ Move(r, "compare", IF Op(r) = "activate" THEN "claim" ELSE "guards")
    /\ (~SameContent(r) /\ UNCHANGED faults) \/ Fault
    /\ OnRows /\ UNCHANGED <<rows, seen, number>>

\* activateWorkflow claims the row, whatever it has become since it was loaded.
Claim(r) ==
    /\ Move(r, "claim", "guards") /\ wf.status # "validating"
    /\ Write([wf EXCEPT !.status = "validating"])
    /\ Same /\ UNCHANGED <<deployed, seen, number>>

\* runActivationGuards finds an error: publishNewVersion writes nothing.
Reject(r) ==
    /\ Move(r, "guards", "done")
    /\ IF Op(r) = "activate" THEN Write([wf EXCEPT !.status = "error"]) ELSE UNCHANGED wf
    /\ Same /\ UNCHANGED <<deployed, seen, number>>

\* (The next but one.)
ReadMaxOff(r) ==
    /\ Move(r, "guards", "supersede")
    /\ number' = [number EXCEPT ![r] = Len(versions) + 2]
    /\ Quiet /\ UNCHANGED seen
\* The guards pass; recordDeployment reads the highest version, and takes a
\* read that fails for the lack of any.
ReadMax(r) ==
    /\ Move(r, "guards", "supersede")
    /\ \/ number' = [number EXCEPT ![r] = Len(versions) + 1] /\ UNCHANGED faults
       \/ number' = [number EXCEPT ![r] = 1] /\ Fault
    /\ OnRows /\ UNCHANGED <<rows, seen>>

\* Nobody looks whether the update has failed.
Supersede(r) ==
    /\ Move(r, "supersede", "insert")
    /\ \/ /\ versions' = [v \in DOMAIN versions |-> [versions[v] EXCEPT !.status = "superseded"]]
          /\ UNCHANGED <<spared, faults>>
       \/ spared' = spared \cup ActiveRows /\ Fault /\ UNCHANGED versions
    /\ OnRows /\ UNCHANGED <<wf, seen, number>>

\* (Without UNIQUE (workflow_id, version): the next number that is free.)
InsertAnyway(r) ==
    /\ Move(r, "insert", "cutover")
    /\ versions' = Append(versions, [status |-> "active", data |-> seen[r].draft])
    /\ number' = [number EXCEPT ![r] = Len(versions) + 1]
    /\ Same /\ UNCHANGED <<wf, spared, seen>>
Insert(r) ==
    /\ Move(r, "insert", "cutover")
    /\ number[r] \notin DOMAIN versions
    /\ versions' = Append(versions, [status |-> "active", data |-> seen[r].draft])
    /\ Same /\ UNCHANGED <<wf, spared, seen, number>>

\* UNIQUE (workflow_id, version): a conflict for publishNewVersion; what
\* activateWorkflow throws leaves the status at validating.
InsertRefused(r) ==
    /\ Move(r, "insert", "done") /\ number[r] \in DOMAIN versions
    /\ Quiet /\ UNCHANGED <<seen, number>>

\* activateWorkflow writes the pointer whatever has happened since its claim,
\* and goes on whether the update has failed or not.
Finish(r) ==
    /\ Op(r) = "activate" /\ Move(r, "cutover", "read")
    /\ \/ Write([wf EXCEPT !.status = "active", !.live = number[r]]) /\ UNCHANGED faults
       \/ Fault /\ UNCHANGED wf
    /\ OnRows /\ UNCHANGED <<deployed, seen, number>>

\* publishNewVersion does so only if updated_at is the one it has loaded.
Cutover(r) ==
    /\ Op(r) = "publish" /\ Move(r, "cutover", "read")
    /\ wf.stamp = seen[r].stamp
    /\ Write([wf EXCEPT !.live = number[r]])
    /\ Same /\ UNCHANGED <<deployed, seen, number>>

\* A conflict; the new version stays as it is, and is "active".
CutoverLost(r) ==
    /\ Op(r) = "publish" /\ Move(r, "cutover", "done")
    /\ wf.stamp # seen[r].stamp
    /\ Quiet /\ UNCHANGED <<seen, number>>

StatusOf(op) ==
    CASE op = "pause" -> "paused" [] op = "disable" -> "disabled"
      [] op = "archive" -> "archived" [] op = "resume" -> "active"
\* setStatus, which looks at no status.
SetStatus(r) ==
    /\ Move(r, "set", IF Op(r) = "resume" THEN "read" ELSE "disable")
    /\ Write([wf EXCEPT !.status = StatusOf(Op(r))])
    /\ Same /\ UNCHANGED <<deployed, seen, number>>

\* PATCH of the workflow, or of one of its nodes: any draft, and the page of
\* the builder sets the status back to draft.
Edit(r) ==
    /\ Move(r, "edit", "done")
    /\ \E d \in Contents, s \in {wf.status, "draft"} :
         Write([wf EXCEPT !.draft = d, !.status = s])
    /\ Same /\ UNCHANGED <<deployed, seen, number>>

\* syncWorkflowSchedules and enableWorkflowSchedules read the clock and the
\* row; if they cannot, there is none for them.
ReadSchedule(r) ==
    /\ Move(r, "read", IF Op(r) = "resume" THEN "enable" ELSE "sync")
    /\ \/ had' = [had EXCEPT ![r] = schedule.id] /\ UNCHANGED faults
       \/ had' = [had EXCEPT ![r] = NoRow] /\ Fault
    /\ at' = [at EXCEPT ![r] = now]
    /\ UNCHANGED <<plan, rows, schedule, now, seen, number, poll, runs>>

Alone == UNCHANGED <<plan, rows, now, seen, number, had, at, poll, runs, faults>>
Sync(r) ==
    /\ Move(r, "sync", "done")
    /\ IF seen[r].draft \in Timed
       THEN schedule' = [id |-> IF Present THEN schedule.id ELSE r,
                         enabled |-> TRUE, next |-> at[r] + 1]
       ELSE schedule' = IF had[r] = schedule.id
                        THEN [schedule EXCEPT !.id = NoRow, !.enabled = FALSE] ELSE schedule
    /\ Alone

Enable(r) ==
    /\ Move(r, "enable", "done")
    /\ schedule' = IF Present /\ had[r] = schedule.id
                   THEN [schedule EXCEPT !.enabled = TRUE, !.next = at[r] + 1] ELSE schedule
    /\ Alone

Disable(r) ==
    /\ Move(r, "disable", "done")
    /\ schedule' = [schedule EXCEPT !.enabled = FALSE]
    /\ Alone

\* The process dies, or a statement throws.
Abort(r) ==
    /\ pc[r] # "done" /\ pc' = [pc EXCEPT ![r] = "done"]
    /\ Fault /\ OnRows /\ UNCHANGED <<rows, seen, number>>
-----------------------------------------------------------------------------
(* pollDueSchedules *)

Step(p, a, b) == step[p] = a /\ step' = [step EXCEPT ![p] = b]
Beside == UNCHANGED <<plan, rows, now, request>>
Polling == Beside /\ UNCHANGED faults
Within == UNCHANGED <<due, read, keyed, blind>>

Select(p) ==
    /\ p \in plan.polling /\ Step(p, "idle", "claim")
    /\ Present /\ schedule.enabled /\ schedule.next <= now
    /\ due' = [due EXCEPT ![p] = schedule.next]
    /\ read' = [read EXCEPT ![p] = now]
    /\ Polling /\ UNCHANGED <<schedule, runs, keyed, blind>>

\* The claim moves the schedule past the time the poll began at.
ClaimDue(p) ==
    /\ Step(p, "claim", "check")
    /\ Present /\ schedule.next = due[p]
    /\ schedule' = [schedule EXCEPT !.next = read[p] + 1]
    /\ Polling /\ Within /\ UNCHANGED runs

ClaimLost(p) ==
    /\ Step(p, "claim", "idle")
    /\ ~(Present /\ schedule.next = due[p])
    /\ Polling /\ Within /\ UNCHANGED <<schedule, runs>>

CheckStatus(p) ==
    /\ Step(p, "check", IF Executable(wf.status) THEN "reserve" ELSE "idle")
    /\ Polling /\ Within /\ UNCHANGED <<schedule, runs>>

\* (Whoever holds the slot.)
ReserveHeld(p) ==
    /\ Step(p, "reserve", "lookup")
    /\ slots' = slots \cup {due[p]}
    /\ Polling /\ Within /\ UNCHANGED <<schedule, first>>
\* reserve_concurrency_slot under a key of the occurrence.
Reserve(p) ==
    /\ Step(p, "reserve", "lookup")
    /\ due[p] \notin slots
    /\ slots' = slots \cup {due[p]}
    /\ Polling /\ Within /\ UNCHANGED <<schedule, first>>

\* Held, or the owner is at a limit: the occurrence is dropped.
ReserveRefused(p) ==
    /\ Step(p, "reserve", "idle")
    /\ Polling /\ Within /\ UNCHANGED <<schedule, runs>>

\* (A run that has ended is over and done with.)
LookupRunning(p) ==
    /\ Step(p, "lookup", IF first[due[p]] = "running" THEN "release" ELSE "begin")
    /\ Polling /\ Within /\ UNCHANGED <<schedule, runs>>
\* findExecutionByIdempotencyKey: unless the run has failed, it is the one.  If
\* either of its reads fails, there has been none.
Lookup(p) ==
    /\ \/ /\ Step(p, "lookup", IF first[due[p]] \in {"none", "failed"} THEN "begin" ELSE "release")
          /\ UNCHANGED <<blind, faults>>
       \/ Step(p, "lookup", "begin") /\ blind' = blind \cup {p} /\ Fault
    /\ Beside /\ UNCHANGED <<due, read, keyed, schedule, runs>>

\* initializeExecution and the insert of the engine lock, whose key stays with
\* the first run of the occurrence: a later one has a lock without it.
Begin(p) ==
    /\ Step(p, "begin", "run")
    /\ IF first[due[p]] = "none"
       THEN first' = [first EXCEPT ![due[p]] = "running"] /\ keyed' = keyed \cup {p}
       ELSE UNCHANGED <<first, keyed>>
    /\ Polling /\ UNCHANGED <<due, read, blind, schedule, slots>>

\* What a poll knows is gone with its run.
Forget(p) == keyed' = keyed \ {p} /\ blind' = blind \ {p} /\ UNCHANGED <<due, read>>
End(p, status) ==
    /\ Step(p, "run", "release")
    /\ IF status = "failed" THEN Fault ELSE UNCHANGED faults
    /\ first' = [first EXCEPT ![due[p]] = IF p \in keyed THEN status ELSE @]
    /\ Beside /\ Forget(p) /\ UNCHANGED <<schedule, slots>>

Release(p) ==
    /\ Step(p, "release", "idle")
    /\ slots' = slots \ {due[p]}
    /\ Polling /\ Within /\ UNCHANGED <<schedule, first>>

Die(p) ==
    /\ step[p] # "idle" /\ step' = [step EXCEPT ![p] = "idle"]
    /\ Fault /\ Beside /\ Forget(p) /\ UNCHANGED <<schedule, runs>>

Holds(p, k) == due[p] = k /\ step[p] \in {"lookup", "begin", "run", "release"}
\* The reservation of a poll that has died is reclaimed after 30 minutes.
SlotLapses(k) ==
    /\ \A p \in Pollers : ~Holds(p, k)
    /\ slots' = slots \ {k}
    /\ UNCHANGED <<plan, rows, schedule, now, request, poll, first, faults>>

\* And the watchdog finds the execution it has left.
Orphaned(k, status) ==
    /\ first[k] = "running"
    /\ \A p \in keyed : due[p] # k
    /\ first' = [first EXCEPT ![k] = status]
    /\ UNCHANGED <<plan, rows, schedule, now, request, poll, slots, faults>>

Tick ==
    /\ now < plan.ticks /\ now' = now + 1
    /\ UNCHANGED <<plan, rows, schedule, request, poll, runs, faults>>
-----------------------------------------------------------------------------
Deploy(r) ==
    \/ UpToDate(r) \/ Differs(r) \/ Claim(r) \/ Reject(r) \/ ReadMax(r)
    \/ Supersede(r) \/ Insert(r) \/ InsertRefused(r)
    \/ Finish(r) \/ Cutover(r) \/ CutoverLost(r)
RequestStep(r) ==
    \/ Load(r) \/ Refuse(r) \/ Deploy(r) \/ SetStatus(r) \/ Edit(r)
    \/ ReadSchedule(r) \/ Sync(r) \/ Enable(r) \/ Disable(r) \/ Abort(r)
PollStep(p) ==
    \/ Select(p) \/ ClaimDue(p) \/ ClaimLost(p) \/ CheckStatus(p) \/ Reserve(p)
    \/ ReserveRefused(p) \/ Lookup(p) \/ Begin(p) \/ Release(p) \/ Die(p)
    \/ \E status \in {"success", "waiting", "failed"} : End(p, status)

Next ==
    \/ \E r \in Requests : RequestStep(r)
    \/ \E p \in Pollers : PollStep(p)
    \/ \E k \in slots : SlotLapses(k)
    \/ \E k \in DOMAIN first, status \in {"waiting", "failed"} : Orphaned(k, status)
    \/ Tick

Spec == Init /\ [][Next]_vars
-----------------------------------------------------------------------------
(* Properties *)

\* "A version-number collision ... fails loudly rather than silently succeed
\* with two simultaneously-active rows" (lifecycle.ts:412): whatever requests
\* overlap in recordDeployment, which is in no transaction, or die in it, there
\* is one active row at most, besides those that a supersession has failed on.
OneActiveVersion == \A u, v \in ActiveRows \ spared : u = v

\* What a publish puts live is the draft as it is at that moment, on a workflow
\* that is being executed, in the place of the version it has read as live:
\* nobody's edit, pause or deployment is lost on the way.
PublishReplacesWhatItRead ==
    [][\A r \in Requests : Cutover(r) =>
         /\ Executable(wf.status) /\ wf.live = seen[r].live
         /\ versions[number[r]].data = wf.draft]_vars

\* "Two scheduler workers must not trigger the same schedule twice": two polls
\* never run one occurrence together, and what a poll runs is the first run of
\* its occurrence or comes after one that has failed, even if a sync that
\* overlaps the claim writes the time of the occurrence back; unless the lookup
\* of the first run has failed.
OccurrencesRunOnce ==
    /\ \A p, q \in Pollers :
         p # q /\ step[p] = "run" /\ step[q] = "run" => due[p] # due[q]
    /\ \A p \in Pollers :
         step[p] = "run" /\ p \notin blind => p \in keyed \/ first[due[p]] = "failed"

\* A version that lost its cutover "simply sits inert" and is "harmless"
\* (lifecycle.ts:433): so what a request with nothing else under way takes for
\* up to date is what is live.
Resting(r) == pc[r] \in {"done", "load", "set", "edit"}
UpToDateIsLive ==
    \A r \in Requests :
        /\ pc[r] = "compare" /\ SameContent(r) /\ seen[r] = wf
        /\ \A q \in Requests \ {r} : Resting(q)
        => wf.live # 0 /\ versions[wf.live].data = seen[r].draft
=============================================================================
