--------------------------- MODULE WorkflowEngine ---------------------------
(***************************************************************************)
(* One execution of one workflow, and the invocations of                   *)
(* WorkflowEngine.execute (runtime/workflow-engine.ts) that carry it: the  *)
(* attempts of its job, which start from the start nodes, and the resumes  *)
(* a person asks for (runtime/execution-manager.ts), which start from the  *)
(* latest checkpoint.  Of the data that flows along the edges only the     *)
(* field _conditionBranch is kept: the token of an item.                   *)
(***************************************************************************)
EXTENDS Naturals, Sequences, FiniteSets

CONSTANTS
    Nodes, Workflows,    \* the workflows that may be run, over these nodes
    Jobs, Resumes,       \* the invocations: attempts of the job, and resumes
    ProcessOf,           \* the process each one runs in; it names the owner
    None,
    MaxNodeExecutions,   \* MAX_NODE_EXECUTIONS
    MaxIncidents         \* for each workflow, a bound of this model on incidents

Runs == Jobs \cup Resumes
Processes == {ProcessOf[r] : r \in Runs}
Tokens == {0, 1, None}
Item == [node : Nodes, token : Tokens]
Kinds == {"trigger", "action", "if", "review", "wait"}
Deciding == {"if", "review"}
Parking == {"review", "wait"}

\* order: workflow_json.nodes; ports: connections[n].main; picks: the branch a
\* deciding node comes to, the same however often it is asked (None: it has no
\* conditions); retries: of a node.
Workflow == [order : Seq(Nodes), kind : [Nodes -> Kinds],
             ports : [Nodes -> Seq(Seq(Nodes))], picks : [Nodes -> Tokens],
             retries : Nat]

ASSUME EngineAssumption ==
    /\ Workflows \subseteq Workflow /\ \A w \in Workflows : w.order # <<>>
    /\ Jobs \cap Resumes = {}
    /\ IsFiniteSet(Nodes) /\ None \notin Nodes \cup Processes \cup {0, 1}
    /\ Processes \cap {"absent", "lapsed"} = {}
    /\ MaxNodeExecutions \in Nat \ {0} /\ \A w \in Workflows : MaxIncidents[w] \in Nat

VARIABLES
    wf,        \* the workflow, fixed with the execution
    status,    \* workflow_executions_v2.status
    control,   \* runtime_execution_controls
    saved,     \* the latest row of runtime_execution_checkpoints
    lock,      \* runtime_execution_locks: the owner with a live lease
    current,   \* the invocations whose read of that row is still its version
    mutex,     \* runtime_node_mutexes
    asked,     \* reviews with a row in workflow_review_items
    ready,     \* parking nodes that would let the execution pass
    steps,     \* nodes that ran to a result the run goes on with
    parked, failed,  \* nodes that parked or failed while others were queued
    operator,  \* the second statement a control request has still to make
    dead,      \* processes that are gone
    incidents, \* requests to pause or cancel, crashes, failed writes, deadlines so far
    pc, queue, input, here, output, laps, tries, ending  \* local to execute()

shared == <<status, control, saved, lock, current, mutex, steps, parked, failed>>
world == <<wf, asked, ready, operator, dead, incidents>>
locals == <<pc, queue, input, here, output, laps, tries, ending>>
vars == <<shared, world, locals>>
-----------------------------------------------------------------------------
(* The graph *)

Known(w, n) == \E i \in DOMAIN w.order : w.order[i] = n
Incoming(w, n) == \E m \in Nodes : \E p \in DOMAIN w.ports[m] :
                    \E i \in DOMAIN w.ports[m][p] : w.ports[m][p][i] = n

\* findStartNodes: the triggers, or else the nodes without an edge to them, or
\* else the first node.
StartNodes(w) ==
    LET triggers == SelectSeq(w.order, LAMBDA n : w.kind[n] = "trigger")
        roots == SelectSeq(w.order, LAMBDA n : ~Incoming(w, n))
    IN IF triggers # <<>> THEN triggers
       ELSE IF roots # <<>> THEN roots ELSE <<w.order[1]>>

\* Mutant: a branch without a port of its own falls back to every port.
FiredOrAll(w, n, token) ==
    IF token # None /\ token + 1 \in DOMAIN w.ports[n] THEN {token + 1} ELSE DOMAIN w.ports[n]

\* The ports that fire.  A branch that has no port fires none; no branch, all.
Fired(w, n, token) ==
    IF token = None THEN DOMAIN w.ports[n] ELSE {token + 1} \cap DOMAIN w.ports[n]

\* The targets on those ports, and those that are not queued (the fan-in guard,
\* pendingInQueue), one by one in the order of ports and entries.
Positions(w, n, fired) == UNION {{p} \X DOMAIN w.ports[n][p] : p \in fired}
Before(a, b) == a[1] < b[1] \/ (a[1] = b[1] /\ a[2] < b[2])
Queued(q) == {q[i].node : i \in DOMAIN q}
Targets(w, n, fired) == {w.ports[n][a[1]][a[2]] : a \in Positions(w, n, fired)}
Missing(w, n, fired, q) == Targets(w, n, fired) \ Queued(q)

\* What SelectSeq returns; TLC evaluates it for the workflows of a run.
ASSUME StartsAssumption ==
    \A w \in Workflows : StartNodes(w) \in Seq({n \in Nodes : Known(w, n)})

Arrangements(S) ==
    {s \in [1 .. Cardinality(S) -> S] : \A i, j \in DOMAIN s : s[i] = s[j] => i = j}
InPortOrder(w, n, fired, s) ==
    \A i, j \in DOMAIN s : i < j =>
        \E a \in Positions(w, n, fired) :
            /\ w.ports[n][a[1]][a[2]] = s[i]
            /\ \A b \in Positions(w, n, fired) : w.ports[n][b[1]][b[2]] = s[j] => Before(a, b)
-----------------------------------------------------------------------------
(* State *)

Statuses == {"queued", "running", "waiting", "paused", "success", "failed", "cancelled"}
Control == [pause : BOOLEAN, cancel : BOOLEAN, resume : BOOLEAN]
Checkpoint == [node : Nodes \cup {None}, token : Tokens, queue : Seq(Item)]
NoCheckpoint == [node |-> None, token |-> None, queue |-> <<>>]

\* How execute() comes to return, or to throw.
Endings == {"none", "completed", "failed", "halted", "cancelled", "quit", "paused",
            "waiting", "thrown"}
StatusOf(e) == CASE e = "completed" -> "success"
                 [] e \in {"failed", "halted"} -> "failed"
                 [] e \in {"cancelled", "quit"} -> "cancelled"
                 [] OTHER -> e
Unsaved == {"halted", "quit"}   \* these returns write no checkpoint

InFlight == {"read", "reset", "init", "lock", "take", "top", "mutex", "insert", "update",
             "running", "ask", "call", "unlock", "route", "mark", "save", "force", "release"}
Over == {"done", "denied", "threw", "dead"}

TypeOK ==
    /\ wf \in Workflows
    /\ status \in Statuses /\ control \in Control /\ saved \in Checkpoint
    /\ lock \in Processes \cup {None} /\ current \subseteq Runs
    /\ mutex \in [Nodes -> Processes \cup {"absent", "lapsed"}]
    /\ asked \cup ready \subseteq Nodes /\ steps \subseteq Nodes /\ parked \cup failed \subseteq Nodes
    /\ operator \in {"idle", "pausing", "cancelling"} /\ dead \subseteq Processes
    /\ incidents \in 0 .. MaxIncidents[wf]
    /\ pc \in [Runs -> {"idle"} \cup InFlight \cup Over]
    /\ queue \in [Runs -> Seq(Item)] /\ input \in [Runs -> Tokens]
    /\ here \in [Runs -> Nodes \cup {None}] /\ output \in [Runs -> Tokens]
    /\ laps \in [Runs -> 0 .. MaxNodeExecutions]
    /\ tries \in [Runs -> 0 .. wf.retries + 1]
    /\ ending \in [Runs -> Endings]

Init ==
    /\ wf \in Workflows
    /\ status = "queued"
    /\ control = [pause |-> FALSE, cancel |-> FALSE, resume |-> FALSE]
    /\ saved = NoCheckpoint
    /\ lock = None /\ current = {}
    /\ mutex = [n \in Nodes |-> "absent"]
    /\ asked = {} /\ ready = {} /\ steps = {} /\ parked = {} /\ failed = {} /\ operator = "idle"
    /\ dead = {} /\ incidents = 0
    /\ pc = [r \in Runs |-> "idle"]
    /\ queue = [r \in Runs |-> <<>>] /\ input = [r \in Runs |-> None]
    /\ here = [r \in Runs |-> None] /\ output = [r \in Runs |-> None]
    /\ laps = [r \in Runs |-> 0] /\ tries = [r \in Runs |-> 0]
    /\ ending = [r \in Runs |-> "none"]
-----------------------------------------------------------------------------
(* An invocation begins *)

Incident == incidents < MaxIncidents[wf] /\ incidents' = incidents + 1
Goto(r, next) == pc' = [pc EXCEPT ![r] = next]
At(r, place) == pc[r] = place
Me(r) == ProcessOf[r]
\* The locals of an invocation end with it.
Forget(S) ==
    /\ queue' = [r \in Runs |-> IF r \in S THEN <<>> ELSE queue[r]]
    /\ input' = [r \in Runs |-> IF r \in S THEN None ELSE input[r]]
    /\ here' = [r \in Runs |-> IF r \in S THEN None ELSE here[r]]
    /\ output' = [r \in Runs |-> IF r \in S THEN None ELSE output[r]]
    /\ laps' = [r \in Runs |-> IF r \in S THEN 0 ELSE laps[r]]
    /\ tries' = [r \in Runs |-> IF r \in S THEN 0 ELSE tries[r]]
    /\ ending' = [r \in Runs |-> IF r \in S THEN "none" ELSE ending[r]]
Finish(r, e) == /\ ending' = [ending EXCEPT ![r] = e]
                /\ Goto(r, IF e = "thrown" THEN "force" ELSE "mark")
Items(ns) == [i \in DOMAIN ns |-> [node |-> ns[i], token |-> None]]

\* The worker's 'run_workflow_execution': BullMQ delivers the job again after
\* the worker died or the run threw.  Every attempt starts from the beginning.
StartJob(r) ==
    /\ r \in Jobs /\ At(r, "idle") /\ Me(r) \notin dead
    /\ \A j \in Jobs : pc[j] \in {"idle", "threw", "dead"}
    /\ queue' = [queue EXCEPT ![r] = Items(StartNodes(wf))]
    /\ Goto(r, "init")
    /\ UNCHANGED <<shared, world, input, here, output, laps, tries, ending>>

\* The control route asks for no status: a resume may come at any time.
AskResume(r) ==
    /\ r \in Resumes /\ At(r, "idle") /\ Me(r) \notin dead
    /\ Goto(r, "read")
    /\ UNCHANGED <<shared, world, queue, input, here, output, laps, tries, ending>>

\* resumeExecution: what is queued wins over the node that was parked.
Seed == IF saved.queue # <<>> THEN saved.queue
        ELSE IF saved.node # None THEN <<[node |-> saved.node, token |-> saved.token]>>
        ELSE Items(StartNodes(wf))

ReadCheckpoint(r) ==
    /\ At(r, "read") /\ Goto(r, "reset")
    /\ queue' = [queue EXCEPT ![r] = Seed]
    /\ UNCHANGED <<shared, world, input, here, output, laps, tries, ending>>

ResetControl(r) ==
    /\ At(r, "reset") /\ Goto(r, "init")
    /\ control' = [pause |-> FALSE, cancel |-> FALSE, resume |-> TRUE]
    /\ UNCHANGED <<status, saved, lock, current, mutex, steps, parked, failed, world,
                   queue, input, here, output, laps, tries, ending>>

InitializeExecution(r) ==
    /\ At(r, "init") /\ Goto(r, "lock")
    /\ status' = "running"
    /\ UNCHANGED <<control, saved, lock, current, mutex, steps, parked, failed, world,
                   queue, input, here, output, laps, tries, ending>>

\* acquireExecutionLock: a read (the row is there since the key was reserved) ...
ReadLock(r) ==
    /\ At(r, "lock")
    /\ IF lock \in {None, Me(r)}
       THEN Goto(r, "take") /\ current' = current \cup {r} /\ Forget({})
       ELSE Goto(r, "denied") /\ Forget({r}) /\ UNCHANGED current
    /\ UNCHANGED <<status, control, saved, lock, mutex, steps, parked, failed, world>>

\* ... and an update of the version that was read.  One that matches no row is
\* not an error: the caller believes it owns the execution.
TakeLock(r) ==
    /\ At(r, "take") /\ Goto(r, "top")
    /\ IF r \in current THEN lock' = Me(r) /\ current' = {}
       ELSE UNCHANGED <<lock, current>>
    /\ UNCHANGED <<status, control, saved, mutex, steps, parked, failed, world,
                   queue, input, here, output, laps, tries, ending>>
-----------------------------------------------------------------------------
(* The loop *)

\* Mutant: one lap too many.
ExhaustedLate(r) == laps[r] > MaxNodeExecutions
\* The top of the loop: deadline, number of laps, control flags, next item.
Exhausted(r) == laps[r] + 1 > MaxNodeExecutions

OverBudget(r) ==
    /\ At(r, "top") /\ queue[r] # <<>> /\ Incident
    /\ Finish(r, "failed")
    /\ UNCHANGED <<shared, wf, asked, ready, operator, dead,
                   queue, input, here, output, laps, tries>>

TooManyLaps(r) ==
    /\ At(r, "top") /\ queue[r] # <<>> /\ Exhausted(r)
    /\ Finish(r, "halted")
    /\ UNCHANGED <<shared, world, queue, input, here, output, laps, tries>>

ObeyControl(r) ==
    /\ At(r, "top") /\ queue[r] # <<>> /\ ~Exhausted(r)
    /\ \/ control.cancel /\ Finish(r, "cancelled")
       \/ ~control.cancel /\ control.pause /\ ~control.resume /\ Finish(r, "paused")
    /\ UNCHANGED <<shared, world, queue, input, here, output, laps, tries>>

\* Mutant: the laps are not counted.
NextItemUncounted(r) ==
    /\ At(r, "top") /\ queue[r] # <<>> /\ ~Exhausted(r)
    /\ ~control.cancel /\ (control.pause => control.resume)
    /\ queue' = [queue EXCEPT ![r] = Tail(@)]
    /\ IF Known(wf, Head(queue[r]).node)
       THEN /\ here' = [here EXCEPT ![r] = Head(queue[r]).node]
            /\ input' = [input EXCEPT ![r] = Head(queue[r]).token]
            /\ tries' = [tries EXCEPT ![r] = 0]
            /\ Goto(r, "mutex")
       ELSE UNCHANGED <<here, input, tries, pc>>
    /\ UNCHANGED <<shared, world, laps, output, ending>>

\* queue.shift(); an item that names no node of the workflow is skipped.
NextItem(r) ==
    /\ At(r, "top") /\ queue[r] # <<>> /\ ~Exhausted(r)
    /\ ~control.cancel /\ (control.pause => control.resume)
    /\ laps' = [laps EXCEPT ![r] = @ + 1]
    /\ queue' = [queue EXCEPT ![r] = Tail(@)]
    /\ IF Known(wf, Head(queue[r]).node)
       THEN /\ here' = [here EXCEPT ![r] = Head(queue[r]).node]
            /\ input' = [input EXCEPT ![r] = Head(queue[r]).token]
            /\ tries' = [tries EXCEPT ![r] = 0]
            /\ Goto(r, "mutex")
       ELSE UNCHANGED <<here, input, tries, pc>>
    /\ UNCHANGED <<shared, world, output, ending>>

Complete(r) ==
    /\ At(r, "top") /\ queue[r] = <<>>
    /\ Finish(r, "completed")
    /\ UNCHANGED <<shared, world, queue, input, here, output, laps, tries>>

\* The mutex is taken: the item goes to the back of the queue.
PushBack(r) ==
    /\ queue' = [queue EXCEPT ![r] = Append(@, [node |-> here[r], token |-> input[r]])]
    /\ IF laps[r] > Len(wf.order) * 3 THEN Finish(r, "failed")
       ELSE Goto(r, "top") /\ UNCHANGED ending
    /\ UNCHANGED <<shared, world, input, here, output, laps, tries>>

\* acquireNodeMutex: a read ...
ReadMutex(r) ==
    /\ At(r, "mutex")
    /\ IF mutex[here[r]] \in Processes \ {Me(r)} THEN PushBack(r)
       ELSE /\ Goto(r, IF mutex[here[r]] = "absent" THEN "insert" ELSE "update")
            /\ UNCHANGED <<shared, world, queue, input, here, output, laps, tries, ending>>

\* Mutant: an upsert.
InsertMutexBlindly(r) ==
    /\ At(r, "insert")
    /\ mutex' = [mutex EXCEPT ![here[r]] = Me(r)]
    /\ Goto(r, "running")
    /\ UNCHANGED <<status, control, saved, lock, current, steps, parked, failed, world,
                   queue, input, here, output, laps, tries, ending>>

\* ... and an insert, which fails if a row is there by now, ...
InsertMutex(r) ==
    /\ At(r, "insert")
    /\ IF mutex[here[r]] # "absent" THEN PushBack(r)
       ELSE /\ mutex' = [mutex EXCEPT ![here[r]] = Me(r)]
            /\ Goto(r, "running")
            /\ UNCHANGED <<status, control, saved, lock, current, steps, parked, failed, world,
                           queue, input, here, output, laps, tries, ending>>

\* ... or an update, which is taken for a success whether it matches or not.  It
\* may match a row another has inserted since: a new row has version 1 again.
UpdateMutex(r) ==
    /\ At(r, "update") /\ Goto(r, "running")
    /\ \/ mutex[here[r]] # "absent" /\ mutex' = [mutex EXCEPT ![here[r]] = Me(r)]
       \/ mutex[here[r]] # "lapsed" /\ UNCHANGED mutex
    /\ UNCHANGED <<status, control, saved, lock, current, steps, parked, failed, world,
                   queue, input, here, output, laps, tries, ending>>

MarkRunning(r) ==
    /\ At(r, "running") /\ Goto(r, "ask")
    /\ status' = "running"
    /\ UNCHANGED <<control, saved, lock, current, mutex, steps, parked, failed, world,
                   queue, input, here, output, laps, tries, ending>>
-----------------------------------------------------------------------------
(* NodeRunner.run *)

\* Each attempt begins with a look at the control flags.
Attempt(r) ==
    /\ At(r, "ask")
    /\ IF control.cancel
       THEN /\ ending' = [ending EXCEPT ![r] = "quit"] /\ Goto(r, "unlock") /\ UNCHANGED tries
       ELSE /\ tries' = [tries EXCEPT ![r] = @ + 1] /\ Goto(r, "call") /\ UNCHANGED ending
    /\ UNCHANGED <<shared, world, queue, input, here, output, laps>>

Decides(w, n) == w.kind[n] \in Deciding /\ w.picks[n] # None
\* The branch in a node's output: its own decision, or the one it was handed.
Passed(r) == IF Decides(wf, here[r]) THEN wf.picks[here[r]] ELSE input[r]

Park(r) == wf.kind[here[r]] \in Parking /\ here[r] \notin ready

Succeeds(r) ==
    /\ At(r, "call") /\ ~Park(r) /\ Goto(r, "unlock")
    /\ steps' = steps \cup {here[r]}
    /\ output' = [output EXCEPT ![r] = Passed(r)]
    /\ UNCHANGED <<status, control, saved, lock, current, mutex, parked, failed, world,
                   queue, input, here, laps, tries, ending>>

Parks(r) ==
    /\ At(r, "call") /\ Park(r) /\ Goto(r, "unlock")
    /\ ending' = [ending EXCEPT ![r] = "waiting"]
    /\ output' = [output EXCEPT ![r] = input[r]]
    /\ asked' = IF wf.kind[here[r]] = "review" THEN asked \cup {here[r]} ELSE asked
    /\ UNCHANGED <<shared, wf, ready, operator, dead, incidents,
                   queue, input, here, laps, tries>>

Fails(r) ==
    /\ At(r, "call")
    /\ \/ tries[r] <= wf.retries /\ Goto(r, "ask") /\ UNCHANGED ending
       \/ Goto(r, "unlock") /\ ending' = [ending EXCEPT ![r] = "failed"]
    /\ UNCHANGED <<shared, world, queue, input, here, output, laps, tries>>

\* A write of a node's state fails (RuntimeNodeStatePersistenceError): around a
\* call, or when the first items are marked as queued.
Throws(r) ==
    /\ Incident
    /\ \/ At(r, "call") /\ Goto(r, "unlock") /\ ending' = [ending EXCEPT ![r] = "thrown"]
       \/ At(r, "top") /\ laps[r] = 0 /\ queue[r] # <<>> /\ Finish(r, "thrown")
    /\ UNCHANGED <<shared, wf, asked, ready, operator, dead,
                   queue, input, here, output, laps, tries>>
-----------------------------------------------------------------------------
(* After the node *)

\* Nothing comes back to a node that parks or fails while others are queued.
Abandon(r, nodes) == IF queue[r] # <<>> THEN nodes \cup {here[r]} ELSE nodes

ReleaseMutex(r) ==
    /\ At(r, "unlock")
    /\ mutex' = [mutex EXCEPT ![here[r]] = IF @ = Me(r) THEN "absent" ELSE @]
    /\ Goto(r, CASE ending[r] = "none" -> "route" [] ending[r] = "thrown" -> "force"
                 [] OTHER -> "mark")
    /\ parked' = IF ending[r] = "waiting" THEN Abandon(r, parked) ELSE parked
    /\ failed' = IF ending[r] = "failed" THEN Abandon(r, failed) ELSE failed
    /\ input' = [input EXCEPT ![r] = None] /\ tries' = [tries EXCEPT ![r] = 0]
    /\ UNCHANGED <<status, control, saved, lock, current, steps, world,
                   queue, here, output, laps, ending>>

\* A node that decided nothing must not have two ports.
Miswired(r) == /\ output[r] = None /\ Len(wf.ports[here[r]]) > 1
               /\ wf.kind[here[r]] \notin Deciding

RefusePorts(r) ==
    /\ At(r, "route") /\ Miswired(r)
    /\ Finish(r, "failed") /\ failed' = Abandon(r, failed)
    /\ UNCHANGED <<status, control, saved, lock, current, mutex, steps, parked, world,
                   queue, input, here, output, laps, tries>>

\* The targets are queued, and the checkpoint 'node_completed' is written.
Route(r) ==
    /\ At(r, "route") /\ ~Miswired(r) /\ Goto(r, "top")
    /\ LET fired == Fired(wf, here[r], output[r])
       IN \E s \in Arrangements(Missing(wf, here[r], fired, queue[r])) :
            /\ InPortOrder(wf, here[r], fired, s)
            /\ queue' = [queue EXCEPT ![r] =
                 @ \o [i \in DOMAIN s |-> [node |-> s[i], token |-> output[r]]]]
    /\ saved' = [node |-> here[r], token |-> output[r], queue |-> queue'[r]]
    /\ UNCHANGED <<status, control, lock, current, mutex, steps, parked, failed, world,
                   input, here, output, laps, tries, ending>>

\* setExecutionState at a return: unconditional, by id.
WriteState(r) ==
    /\ At(r, "mark") /\ Goto(r, IF ending[r] \in Unsaved THEN "force" ELSE "save")
    /\ status' = StatusOf(ending[r])
    /\ UNCHANGED <<control, saved, lock, current, mutex, steps, parked, failed, world,
                   queue, input, here, output, laps, tries, ending>>

\* Mutant: every checkpoint at a return has the empty queue of a completed run.
SaveCheckpointBare(r) ==
    /\ At(r, "save") /\ Goto(r, "force")
    /\ saved' = [node |-> here[r], token |-> output[r], queue |-> <<>>]
    /\ UNCHANGED <<status, control, lock, current, mutex, steps, parked, failed, world,
                   queue, input, here, output, laps, tries, ending>>

\* persistCheckpoint at a return: what is still queued, without the node itself.
SaveCheckpoint(r) ==
    /\ At(r, "save") /\ Goto(r, "force")
    /\ saved' = [node |-> here[r], token |-> output[r], queue |-> queue[r]]
    /\ UNCHANGED <<status, control, lock, current, mutex, steps, parked, failed, world,
                   queue, input, here, output, laps, tries, ending>>

ForceFail(r) ==
    /\ At(r, "force") /\ Goto(r, "release")
    /\ status' = IF status = "running" THEN "failed" ELSE status
    /\ UNCHANGED <<control, saved, lock, current, mutex, steps, parked, failed, world,
                   queue, input, here, output, laps, tries, ending>>

\* Mutant: a run that threw leaves its lock.
ReleaseLockIfReturned(r) ==
    /\ At(r, "release") /\ Goto(r, IF ending[r] = "thrown" THEN "threw" ELSE "done")
    /\ lock' = IF lock = Me(r) /\ ending[r] # "thrown" THEN None ELSE lock
    /\ Forget({r})
    /\ UNCHANGED <<status, control, saved, current, mutex, steps, parked, failed, world>>

ReleaseLock(r) ==
    /\ At(r, "release") /\ Goto(r, IF ending[r] = "thrown" THEN "threw" ELSE "done")
    /\ lock' = IF lock = Me(r) THEN None ELSE lock
    /\ Forget({r})
    /\ UNCHANGED <<status, control, saved, current, mutex, steps, parked, failed, world>>
-----------------------------------------------------------------------------
(* The control route, people and dates, and what processes suffer *)

\* requestPause and requestCancel: the flags, then the status, whatever it was.
PauseFlags ==
    /\ Incident /\ operator = "idle" /\ operator' = "pausing"
    /\ control' = [pause |-> TRUE, cancel |-> FALSE, resume |-> FALSE]
    /\ UNCHANGED <<status, saved, lock, current, mutex, steps, parked, failed,
                   wf, asked, ready, dead, locals>>

CancelFlags ==
    /\ Incident /\ operator = "idle" /\ operator' = "cancelling"
    /\ control' = [pause |-> FALSE, cancel |-> TRUE, resume |-> FALSE]
    /\ UNCHANGED <<status, saved, lock, current, mutex, steps, parked, failed,
                   wf, asked, ready, dead, locals>>

OperatorRow ==
    /\ operator # "idle" /\ operator' = "idle"
    /\ status' = IF operator = "pausing" THEN "waiting" ELSE "failed"
    /\ UNCHANGED <<control, saved, lock, current, mutex, steps, parked, failed,
                   wf, asked, ready, dead, incidents, locals>>

\* A person decides on a review, or the date of a wait passes.
BecomeReady(n) ==
    /\ Known(wf, n) /\ n \notin ready
    /\ wf.kind[n] = "wait" \/ n \in asked
    /\ ready' = ready \cup {n}
    /\ UNCHANGED <<shared, wf, asked, operator, dead, incidents, locals>>

Crash(p) ==
    /\ Incident /\ p \notin dead /\ dead' = dead \cup {p}
    /\ \E r \in Runs : Me(r) = p /\ pc[r] \in InFlight
    /\ pc' = [r \in Runs |-> IF Me(r) = p /\ pc[r] \in InFlight THEN "dead" ELSE pc[r]]
    /\ current' = {r \in current : Me(r) # p}
    /\ Forget({r \in Runs : Me(r) = p})
    /\ UNCHANGED <<status, control, saved, lock, mutex, steps, parked, failed,
                   wf, asked, ready, operator>>

\* Timers renew a lease for as long as its owner lives.
LockLapses ==
    /\ lock \in dead /\ lock' = None
    /\ UNCHANGED <<status, control, saved, current, mutex, steps, parked, failed, world, locals>>

MutexLapses(n) ==
    /\ mutex[n] \in dead /\ mutex' = [mutex EXCEPT ![n] = "lapsed"]
    /\ UNCHANGED <<status, control, saved, lock, current, steps, parked, failed, world, locals>>
-----------------------------------------------------------------------------
Begin(r) == StartJob(r) \/ AskResume(r)

Walk(r) ==
    \/ ReadCheckpoint(r) \/ ResetControl(r) \/ InitializeExecution(r)
    \/ ReadLock(r) \/ TakeLock(r)
    \/ OverBudget(r) \/ TooManyLaps(r) \/ ObeyControl(r) \/ NextItem(r) \/ Complete(r)
    \/ ReadMutex(r) \/ InsertMutex(r) \/ UpdateMutex(r) \/ MarkRunning(r)
    \/ Attempt(r) \/ Succeeds(r) \/ Parks(r) \/ Fails(r) \/ Throws(r)
    \/ ReleaseMutex(r) \/ RefusePorts(r) \/ Route(r)
    \/ WriteState(r) \/ SaveCheckpoint(r) \/ ForceFail(r) \/ ReleaseLock(r)

Environment ==
    \/ PauseFlags \/ CancelFlags \/ OperatorRow
    \/ \E n \in Nodes : BecomeReady(n) \/ MutexLapses(n)
    \/ \E p \in Processes : Crash(p)
    \/ LockLapses

Next == (\E r \in Runs : Begin(r) \/ Walk(r)) \/ Environment

Spec == Init /\ [][Next]_vars
-----------------------------------------------------------------------------
(* Properties *)

\* The edges that are taken: all of a node's, or those of the branch it comes to.
Taken(w, n) == IF Decides(w, n) THEN {w.picks[n] + 1} \cap DOMAIN w.ports[n]
               ELSE DOMAIN w.ports[n]
Follows(w) == [n \in Nodes |-> {m \in Nodes : Known(w, m) /\
    \E p \in Taken(w, n) : \E i \in DOMAIN w.ports[n][p] : w.ports[n][p][i] = m}]
Closed(next, T) == \A n \in T : next[n] \subseteq T
GraphOf == [w \in Workflows |->
    [starts |-> {StartNodes(w)[i] : i \in DOMAIN StartNodes(w)},
     next |-> Follows(w),
     reach |-> [n \in Nodes |-> {m \in Nodes :
                 \A T \in SUBSET Nodes : n \in T /\ Closed(Follows(w), T) => m \in T}]]]

Graph == GraphOf[wf]

\* Workflows on which the branch that a node is handed, and fires the port of if
\* it decides nothing itself, leads on as no branch would.
Reached(w) == UNION {GraphOf[w].reach[n] : n \in GraphOf[w].starts}
Handed(w) == {None} \cup {w.picks[n] : n \in {m \in Reached(w) : Decides(w, m)}}
Straight(w) ==
    \A n \in Reached(w), t \in Handed(w) \ {None} : ~Decides(w, n) =>
        {m \in Targets(w, n, Fired(w, n, t)) : Known(w, m)} = Follows(w)[n]

Walked == INSTANCE GraphWalk WITH graph <- Graph, ran <- steps, dropped <- parked \cup failed,
            outcome <- IF status = "success" THEN "success" ELSE "open"

\* The engine runs what is called and nothing else, and reports success only when
\* all of it has run, dropped nodes and what lies beyond them excepted.
ImplementsGraphWalk == Walked!Spec

\* At every moment, to resume from the latest checkpoint leads to everything
\* that has still to run.
CheckpointsLoseNothing ==
    Walked!Beyond(Graph.starts) \subseteq
        steps \cup Walked!Beyond(Queued(Seed)) \cup Walked!Beyond(parked \cup failed)

\* As long as no process has died, no two of them run the same node at the same
\* time, although two may well believe that they own the execution.
NodesDoNotOverlap ==
    dead = {} => \A r, s \in Runs :
        Me(r) # Me(s) /\ pc[r] = "call" /\ pc[s] = "call" => here[r] # here[s]

\* When nobody is at work, no lock and no mutex is held by a living process.
LocksAreGivenBack ==
    (\A r \in Runs : pc[r] \notin InFlight) =>
        /\ lock \in {None} \cup dead
        /\ \A n \in Nodes : mutex[n] \in {"absent", "lapsed"} \cup dead

\* What an invocation has still before it in this lap of the loop.
Phase == [read |-> 16, reset |-> 15, init |-> 14, lock |-> 13, take |-> 12,
          mutex |-> 11, insert |-> 10, update |-> 10, running |-> 9, ask |-> 8, call |-> 8,
          unlock |-> 7, route |-> 6, top |-> 5, mark |-> 4, save |-> 3, force |-> 2, release |-> 1]

Closer(r) ==
    \/ pc'[r] \in Over
    \/ laps'[r] > laps[r]
    \/ laps'[r] = laps[r] /\ Phase[pc'[r]] < Phase[pc[r]]
    \/ laps'[r] = laps[r] /\ Phase[pc'[r]] = Phase[pc[r]]
       /\ \/ tries'[r] > tries[r]
          \/ tries'[r] = tries[r] /\ pc[r] = "call" /\ pc'[r] = "ask"

\* Every step of an invocation brings it closer to its end, on a workflow with a
\* cycle, at a mutex that is never free and at a node that always fails as well:
\* laps and attempts are bounded, and so are the phases of a lap.
EveryStepLeadsToTheEnd ==
    [][\A r \in Runs :
        pc[r] \in InFlight /\ (pc'[r] # pc[r] \/ laps'[r] # laps[r]) => Closer(r)]_vars

\* A workflow that succeeds has run every node on every branch it took.
SuccessIsComplete == status = "success" => Walked!Beyond(Graph.starts) \subseteq steps
=============================================================================
