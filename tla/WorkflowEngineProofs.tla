------------------------ MODULE WorkflowEngineProofs ------------------------
(***************************************************************************)
(* What holds of the engine for every workflow and every number of         *)
(* invocations: types, termination, locks that come back, and nodes that   *)
(* do not overlap.  Each theorem rests on one invariant (Typed, Owned,     *)
(* HoldsMutex); the steps that cannot disturb it are put aside first.      *)
(***************************************************************************)
EXTENDS WorkflowEngine, FiniteSetTheorems, SequenceTheorems, TLAPS

Places == {"idle"} \cup InFlight \cup Over

AtItsNode == \A r \in Runs :
    pc[r] \in {"mutex", "insert", "update", "running", "ask", "call", "unlock", "route"}
        => here[r] \in Nodes

TriesLeft == \A r \in Runs :
    pc[r] \in {"mutex", "insert", "update", "running", "ask"} => tries[r] <= wf.retries

EndingKnown == \A r \in Runs : pc[r] = "mark" => ending[r] \in Endings \ {"none", "thrown"}

Typed == TypeOK /\ AtItsNode /\ TriesLeft /\ EndingKnown
-----------------------------------------------------------------------------
\* What the assumptions on the constants give.
LEMMA Constants ==
    /\ None \in Tokens /\ 0 \in Tokens /\ 1 \in Tokens
    /\ NoCheckpoint \in Checkpoint
    /\ \A r \in Runs : Me(r) \in Processes
    /\ \A w \in Workflows : w \in Workflow /\ w.retries \in Nat
    /\ \A w \in Workflows : MaxIncidents[w] \in Nat
    /\ MaxNodeExecutions \in Nat
<1>1. <<>> \in Seq(Item)
  OBVIOUS
<1> QED  BY <1>1, EngineAssumption DEF Tokens, NoCheckpoint, Checkpoint, Me, Processes, Workflow

LEMMA StartsType == \A w \in Workflows : StartNodes(w) \in Seq(Nodes)
<1>1. ASSUME NEW S \in SUBSET Nodes, NEW s \in Seq(S)
      PROVE  s \in Seq(Nodes)
  OBVIOUS
<1>2. ASSUME NEW w \in Workflows
      PROVE  StartNodes(w) \in Seq(Nodes)
  <2>1. {n \in Nodes : Known(w, n)} \in SUBSET Nodes
    OBVIOUS
  <2> QED  BY <1>1, <2>1, StartsAssumption
<1> QED  BY <1>2

\* The first queue of a job, and the targets of a node, are items.
LEMMA ItemsType ==
    ASSUME NEW ns \in Seq(Nodes)
    PROVE  Items(ns) \in Seq(Item)
<1>1. \A i \in 1 .. Len(ns) : [node |-> ns[i], token |-> None] \in Item
  BY Constants DEF Item
<1>2. DOMAIN ns = 1 .. Len(ns) /\ Len(ns) \in Nat
  OBVIOUS
<1> QED  BY <1>1, <1>2 DEF Items

LEMMA LabelledType ==
    ASSUME NEW m \in Nat, NEW S \in SUBSET Nodes, NEW s \in [1 .. m -> S], NEW t \in Tokens
    PROVE  [i \in DOMAIN s |-> [node |-> s[i], token |-> t]] \in Seq(Item)
<1>1. \A i \in 1 .. m : [node |-> s[i], token |-> t] \in Item
  BY DEF Item
<1>2. [i \in 1 .. m |-> [node |-> s[i], token |-> t]] \in Seq(Item)
  BY <1>1
<1>3. DOMAIN s = 1 .. m
  OBVIOUS
<1> QED  BY <1>2, <1>3

\* resumeExecution starts from a queue of items.
LEMMA SeedType ==
    ASSUME TypeOK
    PROVE  Seed \in Seq(Item)
<1>1. saved \in [node : Nodes \cup {None}, token : Tokens, queue : Seq(Item)]
  BY DEF TypeOK, Checkpoint
<1>2. StartNodes(wf) \in Seq(Nodes)
  BY StartsType DEF TypeOK
<1>3. saved.node # None => [node |-> saved.node, token |-> saved.token] \in Item
  BY <1>1 DEF Item
<1> QED  BY <1>1, <1>2, <1>3, ItemsType DEF Seed

\* The bound of the model on incidents is kept.
LEMMA IncidentCounted ==
    ASSUME TypeOK, Incident
    PROVE  incidents' \in 0 .. MaxIncidents[wf]
BY Constants DEF TypeOK, Incident

\* Locals that are forgotten keep their types; those of others stay.
LEMMA Forgotten ==
    ASSUME TypeOK, NEW S, Forget(S)
    PROVE  /\ queue' \in [Runs -> Seq(Item)] /\ input' \in [Runs -> Tokens]
           /\ here' \in [Runs -> Nodes \cup {None}] /\ output' \in [Runs -> Tokens]
           /\ laps' \in [Runs -> 0 .. MaxNodeExecutions]
           /\ tries' \in [Runs -> 0 .. wf.retries + 1]
           /\ ending' \in [Runs -> Endings]
           /\ \A r \in Runs \ S : here'[r] = here[r] /\ tries'[r] = tries[r] /\ ending'[r] = ending[r]
<1>1. queue' \in [Runs -> Seq(Item)]
  BY DEF TypeOK, Forget
<1>2. input' \in [Runs -> Tokens] /\ output' \in [Runs -> Tokens]
  BY Constants DEF TypeOK, Forget
<1>3. here' \in [Runs -> Nodes \cup {None}]
  BY DEF TypeOK, Forget
<1>4. laps' \in [Runs -> 0 .. MaxNodeExecutions]
  BY Constants DEF TypeOK, Forget
<1>5. tries' \in [Runs -> 0 .. wf.retries + 1]
  BY Constants DEF TypeOK, Forget
<1>6. ending' \in [Runs -> Endings]
  BY DEF TypeOK, Forget, Endings
<1>7. \A r \in Runs \ S : here'[r] = here[r] /\ tries'[r] = tries[r] /\ ending'[r] = ending[r]
  BY DEF TypeOK, Forget
<1> QED  BY <1>1, <1>2, <1>3, <1>4, <1>5, <1>6, <1>7

\* An invocation whose locals go is one that has no node at hand.
LEMMA ForgottenStep ==
    ASSUME Typed, NEW S, Forget(S), UNCHANGED wf, pc' \in [Runs -> Places],
           \A q \in Runs : (q \notin S /\ pc'[q] = pc[q]) \/ pc'[q] \in {"idle", "take"} \cup Over
    PROVE  /\ queue' \in [Runs -> Seq(Item)] /\ input' \in [Runs -> Tokens]
           /\ here' \in [Runs -> Nodes \cup {None}] /\ output' \in [Runs -> Tokens]
           /\ laps' \in [Runs -> 0 .. MaxNodeExecutions]
           /\ tries' \in [Runs -> 0 .. wf.retries + 1]
           /\ ending' \in [Runs -> Endings]
           /\ AtItsNode' /\ TriesLeft' /\ EndingKnown'
<1>1. TypeOK
  BY DEF Typed
<1>2. \A r \in Runs \ S : here'[r] = here[r] /\ tries'[r] = tries[r] /\ ending'[r] = ending[r]
  BY <1>1, Forgotten
<1>3. AtItsNode' /\ TriesLeft' /\ EndingKnown'
  BY <1>2 DEF Typed, AtItsNode, TriesLeft, EndingKnown, Over
<1> QED  BY <1>1, <1>3, Forgotten

\* A node whose mutex is taken goes back to the queue, or the run fails.
LEMMA PushedBack ==
    ASSUME Typed, NEW r \in Runs, here[r] \in Nodes, PushBack(r)
    PROVE  Typed'
<1>1. queue' \in [Runs -> Seq(Item)]
  <2>1. [node |-> here[r], token |-> input[r]] \in Item
    BY DEF Typed, TypeOK, Item
  <2>2. Append(queue[r], [node |-> here[r], token |-> input[r]]) \in Seq(Item)
    BY <2>1 DEF Typed, TypeOK
  <2> QED  BY <2>2 DEF PushBack, Typed, TypeOK
<1>2. /\ pc' \in [Runs -> Places] /\ ending' \in [Runs -> Endings]
      /\ \A q \in Runs : \/ pc'[q] = pc[q] /\ ending'[q] = ending[q]
                         \/ pc'[q] = "top"
                         \/ pc'[q] = "mark" /\ ending'[q] = "failed"
  <2>1. \/ pc' = [pc EXCEPT ![r] = "mark"] /\ ending' = [ending EXCEPT ![r] = "failed"]
        \/ pc' = [pc EXCEPT ![r] = "top"] /\ ending' = ending
    BY DEF PushBack, Finish, Goto
  <2>2. pc \in [Runs -> Places] /\ ending \in [Runs -> Endings]
    BY DEF Typed, TypeOK, Places
  <2>3. {"mark", "top"} \subseteq Places /\ "failed" \in Endings
    BY DEF Places, InFlight, Endings
  <2> QED  BY <2>1, <2>2, <2>3
<1> QED  BY <1>1, <1>2 DEF PushBack, Typed, TypeOK, AtItsNode, TriesLeft, EndingKnown, Places, shared, world

\* Every action keeps the types, one case for each.
LEMMA TypeStep ==
    ASSUME Typed, [Next]_vars
    PROVE  Typed'
<1> USE DEF Typed, TypeOK, AtItsNode, TriesLeft, EndingKnown, Statuses, Endings, InFlight, Over, At, Goto,
            shared, world, locals
<1>1. CASE UNCHANGED vars
  BY <1>1 DEF vars
<1>2. ASSUME NEW r \in Runs, StartJob(r)
      PROVE  Typed'
  <2>1. Items(StartNodes(wf)) \in Seq(Item)
    BY StartsType, ItemsType
  <2> QED  BY <2>1, <1>2 DEF StartJob
<1>3. ASSUME NEW r \in Runs, AskResume(r)
      PROVE  Typed'
  BY <1>3 DEF AskResume
<1>4. ASSUME NEW r \in Runs, ReadCheckpoint(r)
      PROVE  Typed'
  <2>1. queue' = [queue EXCEPT ![r] = Seed] /\ Seed \in Seq(Item)
    BY <1>4, SeedType DEF ReadCheckpoint
  <2> QED  BY <2>1, <1>4 DEF ReadCheckpoint
<1>5. ASSUME NEW r \in Runs, ResetControl(r)
      PROVE  Typed'
  <2>1. control' \in Control
    BY <1>5 DEF ResetControl, Control
  <2> QED  BY <2>1, <1>5 DEF ResetControl
<1>6. ASSUME NEW r \in Runs, InitializeExecution(r)
      PROVE  Typed'
  BY <1>6 DEF InitializeExecution
<1>7. ASSUME NEW r \in Runs, ReadLock(r)
      PROVE  Typed'
  <2>1. CASE lock \in {None, Me(r)}
    <3>1. Forget({}) /\ pc' = [pc EXCEPT ![r] = "take"] /\ current' = current \cup {r}
      BY <1>7, <2>1 DEF ReadLock
    <3>2. pc' \in [Runs -> Places] /\ UNCHANGED wf
      BY <3>1, <1>7 DEF Places, ReadLock
    <3>3. \A q \in Runs : (q \notin {} /\ pc'[q] = pc[q]) \/ pc'[q] \in {"idle", "take"} \cup Over
      BY <3>1
    <3> HIDE DEF Typed, TypeOK, AtItsNode, TriesLeft, EndingKnown
    <3>4. /\ queue' \in [Runs -> Seq(Item)] /\ input' \in [Runs -> Tokens]
          /\ here' \in [Runs -> Nodes \cup {None}] /\ output' \in [Runs -> Tokens]
          /\ laps' \in [Runs -> 0 .. MaxNodeExecutions]
          /\ tries' \in [Runs -> 0 .. wf.retries + 1]
          /\ ending' \in [Runs -> Endings]
          /\ AtItsNode' /\ TriesLeft' /\ EndingKnown'
      BY <3>1, <3>2, <3>3, ForgottenStep
    <3> QED  BY <3>1, <3>2, <3>4, <1>7 DEF ReadLock, Typed, TypeOK, Places
  <2>2. CASE lock \notin {None, Me(r)}
    <3>1. Forget({r}) /\ pc' = [pc EXCEPT ![r] = "denied"] /\ UNCHANGED current
      BY <1>7, <2>2 DEF ReadLock
    <3>2. pc' \in [Runs -> Places] /\ UNCHANGED wf
      BY <3>1, <1>7 DEF Places, ReadLock
    <3>3. \A q \in Runs : (q \notin {r} /\ pc'[q] = pc[q]) \/ pc'[q] \in {"idle", "take"} \cup Over
      BY <3>1
    <3> HIDE DEF Typed, TypeOK, AtItsNode, TriesLeft, EndingKnown
    <3>4. /\ queue' \in [Runs -> Seq(Item)] /\ input' \in [Runs -> Tokens]
          /\ here' \in [Runs -> Nodes \cup {None}] /\ output' \in [Runs -> Tokens]
          /\ laps' \in [Runs -> 0 .. MaxNodeExecutions]
          /\ tries' \in [Runs -> 0 .. wf.retries + 1]
          /\ ending' \in [Runs -> Endings]
          /\ AtItsNode' /\ TriesLeft' /\ EndingKnown'
      BY <3>1, <3>2, <3>3, ForgottenStep
    <3> QED  BY <3>1, <3>2, <3>4, <1>7 DEF ReadLock, Typed, TypeOK, Places
  <2> QED  BY <2>1, <2>2
<1>8. ASSUME NEW r \in Runs, TakeLock(r)
      PROVE  Typed'
  <2>1. lock' \in Processes \cup {None} /\ current' \subseteq Runs
    BY <1>8, Constants DEF TakeLock
  <2> QED  BY <2>1, <1>8 DEF TakeLock
<1>9. ASSUME NEW r \in Runs, OverBudget(r)
      PROVE  Typed'
  <2>1. incidents' \in 0 .. MaxIncidents[wf]
    BY <1>9, IncidentCounted DEF OverBudget
  <2> QED  BY <2>1, <1>9 DEF OverBudget, Finish
<1>10. ASSUME NEW r \in Runs, TooManyLaps(r)
      PROVE  Typed'
  BY <1>10 DEF TooManyLaps, Finish
<1>11. ASSUME NEW r \in Runs, ObeyControl(r)
      PROVE  Typed'
  <2>1. PICK e \in {"cancelled", "paused"} : Finish(r, e)
    BY <1>11 DEF ObeyControl
  <2> QED  BY <2>1, <1>11 DEF ObeyControl, Finish
<1>12. ASSUME NEW r \in Runs, NextItem(r)
      PROVE  Typed'
  <2>1. queue[r] \in Seq(Item) /\ queue[r] # <<>>
    BY <1>12 DEF NextItem
  <2>2. Tail(queue[r]) \in Seq(Item) /\ Head(queue[r]) \in Item
    BY <2>1
  <2>3. Head(queue[r]).node \in Nodes /\ Head(queue[r]).token \in Tokens
    BY <2>2 DEF Item
  <2>4. queue' \in [Runs -> Seq(Item)]
    BY <2>2, <1>12 DEF NextItem
  <2>5. laps' \in [Runs -> 0 .. MaxNodeExecutions]
    BY <1>12, Constants DEF NextItem, Exhausted
  <2>6. /\ here' \in [Runs -> Nodes \cup {None}] /\ input' \in [Runs -> Tokens]
        /\ tries' \in [Runs -> 0 .. wf.retries + 1]
    <3>1. CASE Known(wf, Head(queue[r]).node)
      <4>1. 0 \in 0 .. wf.retries + 1
        BY Constants
      <4>2. /\ here' = [here EXCEPT ![r] = Head(queue[r]).node]
            /\ input' = [input EXCEPT ![r] = Head(queue[r]).token]
            /\ tries' = [tries EXCEPT ![r] = 0]
        BY <3>1, <1>12 DEF NextItem
      <4> QED  BY <4>1, <4>2, <2>3
    <3>2. CASE ~Known(wf, Head(queue[r]).node)
      BY <3>2, <1>12 DEF NextItem
    <3> QED  BY <3>1, <3>2
  <2>7. AtItsNode' /\ TriesLeft' /\ EndingKnown'
    <3>1. CASE Known(wf, Head(queue[r]).node)
      <4>1. /\ here' = [here EXCEPT ![r] = Head(queue[r]).node]
            /\ tries' = [tries EXCEPT ![r] = 0] /\ pc' = [pc EXCEPT ![r] = "mutex"]
            /\ wf' = wf /\ ending' = ending
        BY <3>1, <1>12 DEF NextItem
      <4>2. 0 <= wf.retries
        BY Constants
      <4> QED  BY <4>1, <4>2, <2>3
    <3>2. CASE ~Known(wf, Head(queue[r]).node)
      BY <3>2, <1>12 DEF NextItem
    <3> QED  BY <3>1, <3>2
  <2> QED  BY <2>4, <2>5, <2>6, <2>7, <1>12 DEF NextItem
<1>13. ASSUME NEW r \in Runs, Complete(r)
      PROVE  Typed'
  BY <1>13 DEF Complete, Finish
<1>14. ASSUME NEW r \in Runs, ReadMutex(r)
      PROVE  Typed'
  <2>1. here[r] \in Nodes
    BY <1>14 DEF ReadMutex
  <2>2. CASE PushBack(r)
    BY <2>1, <2>2, PushedBack
  <2>3. CASE ~PushBack(r)
    BY <2>3, <1>14 DEF ReadMutex
  <2> QED  BY <2>2, <2>3
<1>15. ASSUME NEW r \in Runs, InsertMutex(r)
      PROVE  Typed'
  <2>1. here[r] \in Nodes
    BY <1>15 DEF InsertMutex
  <2>2. CASE PushBack(r)
    BY <2>1, <2>2, PushedBack
  <2>3. CASE ~PushBack(r)
    <3>1. mutex' \in [Nodes -> Processes \cup {"absent", "lapsed"}]
      <4>1. mutex' = [mutex EXCEPT ![here[r]] = Me(r)]
        BY <2>3, <1>15 DEF InsertMutex
      <4> QED  BY <4>1, <2>1, Constants
    <3> QED  BY <3>1, <2>3, <1>15 DEF InsertMutex
  <2> QED  BY <2>2, <2>3
<1>16. ASSUME NEW r \in Runs, UpdateMutex(r)
      PROVE  Typed'
  <2>1. mutex' \in [Nodes -> Processes \cup {"absent", "lapsed"}]
    BY <1>16, Constants DEF UpdateMutex
  <2> QED  BY <2>1, <1>16 DEF UpdateMutex
<1>17. ASSUME NEW r \in Runs, MarkRunning(r)
      PROVE  Typed'
  BY <1>17 DEF MarkRunning
<1>18. ASSUME NEW r \in Runs, Attempt(r)
      PROVE  Typed'
  <2>1. tries[r] <= wf.retries /\ tries[r] \in Nat /\ wf.retries \in Nat
    BY <1>18, Constants DEF Attempt
  <2>2. tries' \in [Runs -> 0 .. wf.retries + 1]
    <3>1. tries[r] + 1 \in 0 .. wf.retries + 1
      BY <2>1
    <3>2. wf' = wf /\ (UNCHANGED tries \/ tries' = [tries EXCEPT ![r] = tries[r] + 1])
      BY <1>18 DEF Attempt
    <3> QED  BY <3>1, <3>2
  <2>3. EndingKnown'
    <3>1. pc' \in {[pc EXCEPT ![r] = "unlock"], [pc EXCEPT ![r] = "call"]}
          /\ \A q \in Runs \ {r} : ending'[q] = ending[q]
      BY <1>18 DEF Attempt
    <3> QED  BY <3>1
  <2>4. pc' \in [Runs -> Places] /\ ending' \in [Runs -> Endings]
    BY <1>18 DEF Attempt, Places
  <2>5. AtItsNode' /\ TriesLeft'
    BY <2>1, <1>18 DEF Attempt
  <2> QED  BY <2>2, <2>3, <2>4, <2>5, <1>18 DEF Attempt, Places
<1>19. ASSUME NEW r \in Runs, Succeeds(r)
      PROVE  Typed'
  <2>1. wf \in Workflow /\ here[r] \in Nodes
    BY <1>19, Constants DEF Succeeds
  <2>2. Passed(r) \in Tokens
    BY <2>1 DEF Passed, Workflow
  <2> QED  BY <2>1, <2>2, <1>19 DEF Succeeds
<1>20. ASSUME NEW r \in Runs, Parks(r)
      PROVE  Typed'
  BY <1>20 DEF Parks
<1>21. ASSUME NEW r \in Runs, Fails(r)
      PROVE  Typed'
  BY <1>21 DEF Fails
<1>22. ASSUME NEW r \in Runs, Throws(r)
      PROVE  Typed'
  <2>1. incidents' \in 0 .. MaxIncidents[wf]
    BY <1>22, IncidentCounted DEF Throws
  <2>2. /\ pc' \in {[pc EXCEPT ![r] = "unlock"], [pc EXCEPT ![r] = "force"]}
        /\ ending' = [ending EXCEPT ![r] = "thrown"]
        /\ At(r, "call") \/ pc' = [pc EXCEPT ![r] = "force"]
    BY <1>22 DEF Throws, Finish
  <2>3. AtItsNode' /\ TriesLeft' /\ EndingKnown'
    BY <2>2, <1>22 DEF Throws
  <2>4. pc' \in [Runs -> Places] /\ ending' \in [Runs -> Endings]
    BY <2>2 DEF Places
  <2> QED  BY <2>1, <2>3, <2>4, <1>22 DEF Throws, Places
<1>23. ASSUME NEW r \in Runs, ReleaseMutex(r)
      PROVE  Typed'
  <2>1. here[r] \in Nodes /\ wf.retries \in Nat
    BY <1>23, Constants DEF ReleaseMutex
  <2>2. /\ mutex' \in [Nodes -> Processes \cup {"absent", "lapsed"}]
        /\ parked' \subseteq Nodes /\ failed' \subseteq Nodes
    BY <2>1, <1>23 DEF ReleaseMutex, Abandon
  <2>3. input' \in [Runs -> Tokens] /\ tries' \in [Runs -> 0 .. wf.retries + 1]
    BY <2>1, <1>23, Constants DEF ReleaseMutex
  <2>4. /\ pc' \in [Runs -> Places]
        /\ \A q \in Runs : IF q = r
               THEN \/ pc'[q] \in {"route", "force"}
                    \/ pc'[q] = "mark" /\ ending[q] \in Endings \ {"none", "thrown"}
               ELSE pc'[q] = pc[q]
    BY <1>23 DEF ReleaseMutex, Places
  <2>5. AtItsNode' /\ TriesLeft' /\ EndingKnown'
    BY <2>1, <2>4, <1>23 DEF ReleaseMutex
  <2> QED  BY <2>2, <2>3, <2>4, <2>5, <1>23 DEF ReleaseMutex, Places
<1>24. ASSUME NEW r \in Runs, RefusePorts(r)
      PROVE  Typed'
  BY <1>24 DEF RefusePorts, Finish, Abandon
<1>25. ASSUME NEW r \in Runs, Route(r)
      PROVE  Typed'
  <2>1. wf \in Workflow /\ here[r] \in Nodes
    BY <1>25, Constants DEF Route
  <2> DEFINE missing == Missing(wf, here[r], Fired(wf, here[r], output[r]), queue[r])
  <2>2. missing \subseteq Nodes
    BY <2>1 DEF Missing, Targets, Positions, Fired, Workflow
  <2>3. Cardinality(missing) \in Nat
    BY <2>2, EngineAssumption, FS_Subset, FS_CardinalityType
  <2>4. PICK s \in Arrangements(missing) : queue' = [queue EXCEPT ![r] =
            @ \o [i \in DOMAIN s |-> [node |-> s[i], token |-> output[r]]]]
    BY <1>25 DEF Route
  <2>5. [i \in DOMAIN s |-> [node |-> s[i], token |-> output[r]]] \in Seq(Item)
    <3>1. s \in [1 .. Cardinality(missing) -> missing] /\ output[r] \in Tokens
      BY <2>4 DEF Arrangements
    <3>2. Cardinality(missing) \in Nat /\ missing \in SUBSET Nodes
      BY <2>2, <2>3
    <3> DEFINE m == Cardinality(missing)
    <3> HIDE DEF missing, m, Typed, TypeOK, AtItsNode, TriesLeft, EndingKnown
    <3>3. m \in Nat /\ missing \in SUBSET Nodes /\ s \in [1 .. m -> missing] /\ output[r] \in Tokens
      BY <3>1, <3>2 DEF m
    <3> QED  BY <3>3, LabelledType
  <2>6. queue' \in [Runs -> Seq(Item)]
    BY <2>4, <2>5
  <2>7. saved' \in Checkpoint
    BY <2>1, <2>6, <1>25 DEF Route, Checkpoint
  <2> QED  BY <2>6, <2>7, <1>25 DEF Route
<1>26. ASSUME NEW r \in Runs, WriteState(r)
      PROVE  Typed'
  <2>1. StatusOf(ending[r]) \in Statuses
    <3>1. ending[r] \in Endings \ {"none", "thrown"}
      BY <1>26 DEF WriteState
    <3> QED  BY <3>1 DEF StatusOf
  <2> QED  BY <2>1, <1>26 DEF WriteState
<1>27. ASSUME NEW r \in Runs, SaveCheckpoint(r)
      PROVE  Typed'
  <2>1. saved' \in Checkpoint
    BY <1>27 DEF SaveCheckpoint, Checkpoint
  <2> QED  BY <2>1, <1>27 DEF SaveCheckpoint
<1>28. ASSUME NEW r \in Runs, ForceFail(r)
      PROVE  Typed'
  BY <1>28 DEF ForceFail
<1>29. ASSUME NEW r \in Runs, ReleaseLock(r)
      PROVE  Typed'
  <2>1. Forget({r}) /\ \E e \in Over : pc' = [pc EXCEPT ![r] = e]
    BY <1>29 DEF ReleaseLock
  <2>2. pc' \in [Runs -> Places] /\ UNCHANGED wf
    BY <2>1, <1>29 DEF Places, ReleaseLock
  <2>3. \A q \in Runs : (q \notin {r} /\ pc'[q] = pc[q]) \/ pc'[q] \in {"idle", "take"} \cup Over
    BY <2>1
  <2> HIDE DEF Typed, TypeOK, AtItsNode, TriesLeft, EndingKnown
  <2>4. /\ queue' \in [Runs -> Seq(Item)] /\ input' \in [Runs -> Tokens]
        /\ here' \in [Runs -> Nodes \cup {None}] /\ output' \in [Runs -> Tokens]
        /\ laps' \in [Runs -> 0 .. MaxNodeExecutions]
        /\ tries' \in [Runs -> 0 .. wf.retries + 1]
        /\ ending' \in [Runs -> Endings]
        /\ AtItsNode' /\ TriesLeft' /\ EndingKnown'
    BY <2>1, <2>2, <2>3, ForgottenStep
  <2> QED  BY <2>2, <2>4, <1>29 DEF ReleaseLock, Typed, TypeOK, Places
<1>30. ASSUME PauseFlags
      PROVE  Typed'
  <2>1. incidents' \in 0 .. MaxIncidents[wf] /\ control' \in Control
    BY <1>30, IncidentCounted DEF PauseFlags, Control
  <2> QED  BY <2>1, <1>30 DEF PauseFlags
<1>31. ASSUME CancelFlags
      PROVE  Typed'
  <2>1. incidents' \in 0 .. MaxIncidents[wf] /\ control' \in Control
    BY <1>31, IncidentCounted DEF CancelFlags, Control
  <2> QED  BY <2>1, <1>31 DEF CancelFlags
<1>32. ASSUME OperatorRow
      PROVE  Typed'
  BY <1>32 DEF OperatorRow
<1>33. ASSUME NEW n \in Nodes, BecomeReady(n)
      PROVE  Typed'
  BY <1>33 DEF BecomeReady
<1>34. ASSUME NEW n \in Nodes, MutexLapses(n)
      PROVE  Typed'
  BY <1>34 DEF MutexLapses
<1>35. ASSUME NEW p \in Processes, Crash(p)
      PROVE  Typed'
  <2>1. incidents' \in 0 .. MaxIncidents[wf]
    BY <1>35, IncidentCounted DEF Crash
  <2>2. Forget({r \in Runs : Me(r) = p}) /\ current' \subseteq Runs
    BY <1>35 DEF Crash
  <2>3. /\ pc' \in [Runs -> Places]
        /\ \A q \in Runs : Me(q) # p => pc'[q] = pc[q]
        /\ \A q \in Runs : Me(q) = p => pc'[q] \in {"idle"} \cup Over
    BY <1>35 DEF Crash, Places
  <2>4. UNCHANGED wf /\ \A q \in Runs :
            (q \notin {r \in Runs : Me(r) = p} /\ pc'[q] = pc[q]) \/ pc'[q] \in {"idle", "take"} \cup Over
    BY <2>3, <1>35 DEF Crash
  <2> HIDE DEF Typed, TypeOK, AtItsNode, TriesLeft, EndingKnown
  <2>5. /\ queue' \in [Runs -> Seq(Item)] /\ input' \in [Runs -> Tokens]
        /\ here' \in [Runs -> Nodes \cup {None}] /\ output' \in [Runs -> Tokens]
        /\ laps' \in [Runs -> 0 .. MaxNodeExecutions]
        /\ tries' \in [Runs -> 0 .. wf.retries + 1]
        /\ ending' \in [Runs -> Endings]
        /\ AtItsNode' /\ TriesLeft' /\ EndingKnown'
    BY <2>2, <2>3, <2>4, ForgottenStep
  <2> QED  BY <2>1, <2>2, <2>3, <2>4, <2>5, <1>35 DEF Crash, Typed, TypeOK, Places
<1>36. ASSUME LockLapses
      PROVE  Typed'
  BY <1>36 DEF LockLapses
<1> QED
  BY <1>1, <1>2, <1>3, <1>4, <1>5, <1>6, <1>7, <1>8, <1>9, <1>10, <1>11, <1>12, <1>13, <1>14, <1>15, <1>16, <1>17, <1>18, <1>19, <1>20, <1>21, <1>22, <1>23, <1>24, <1>25, <1>26, <1>27, <1>28, <1>29, <1>30, <1>31, <1>32, <1>33, <1>34, <1>35, <1>36 DEF Next, Begin, Walk, Environment

\* Nothing has begun: no place, no queue and no lap.
LEMMA TypedInitially == Init => Typed
<1> SUFFICES ASSUME Init  PROVE Typed
  OBVIOUS
<1>1. incidents \in 0 .. MaxIncidents[wf] /\ 0 \in 0 .. wf.retries + 1 /\ 0 \in 0 .. MaxNodeExecutions
  BY Constants DEF Init
<1>2. control \in Control
  BY DEF Init, Control
<1>3. queue \in [Runs -> Seq(Item)]
  <2>1. <<>> \in Seq(Item)
    OBVIOUS
  <2> QED  BY <2>1 DEF Init
<1>4. /\ pc \in [Runs -> {"idle"} \cup InFlight \cup Over]
      /\ AtItsNode /\ TriesLeft /\ EndingKnown
  BY DEF Init, AtItsNode, TriesLeft, EndingKnown
<1>5. saved \in Checkpoint
  BY Constants DEF Init
<1>6. input \in [Runs -> Tokens] /\ output \in [Runs -> Tokens]
  BY Constants DEF Init
<1> QED
  BY <1>1, <1>2, <1>3, <1>4, <1>5, <1>6 DEF Init, Typed, TypeOK, Statuses, Endings

\* The variables have their types, for every set of workflows whatever their
\* graphs: TypeOK needs to know beside that who has a node at hand has one.
THEOREM TypeCorrect == Spec => []TypeOK
<1>1. Typed => TypeOK
  BY DEF Typed
<1> QED  BY <1>1, TypedInitially, TypeStep, PTL DEF Spec
-----------------------------------------------------------------------------
\* The measure of each place.
LEMMA Phases ==
    /\ Phase["read"] = 16 /\ Phase["reset"] = 15 /\ Phase["init"] = 14 /\ Phase["lock"] = 13
    /\ Phase["take"] = 12 /\ Phase["mutex"] = 11 /\ Phase["insert"] = 10 /\ Phase["update"] = 10
    /\ Phase["running"] = 9 /\ Phase["ask"] = 8 /\ Phase["call"] = 8 /\ Phase["unlock"] = 7
    /\ Phase["route"] = 6 /\ Phase["top"] = 5 /\ Phase["mark"] = 4 /\ Phase["save"] = 3
    /\ Phase["force"] = 2 /\ Phase["release"] = 1
BY DEF Phase
\* What a step of one invocation does to the two counters that it may change.
Moved(r) ==
    /\ \A q \in Runs \ {r} : pc'[q] = pc[q] /\ laps'[q] = laps[q]
    /\ Closer(r) \/ (pc'[r] = pc[r] /\ laps'[r] = laps[r])

\* Each action of an invocation lowers its measure and no other's.
LEMMA WalkGetsCloser ==
    ASSUME Typed, NEW r \in Runs, Walk(r)
    PROVE  Moved(r)
<1>1. /\ pc \in [Runs -> Places] /\ laps \in [Runs -> Nat] /\ tries \in [Runs -> Nat]
  <2>1. 0 .. MaxNodeExecutions \subseteq Nat /\ 0 .. wf.retries + 1 \subseteq Nat
    OBVIOUS
  <2> QED  BY <2>1 DEF Typed, TypeOK, Places
<1> USE <1>1, Phases DEF At, Goto, shared, world, locals, Moved, Closer, Over
<1>2. CASE ReadCheckpoint(r)
  BY <1>2 DEF ReadCheckpoint
<1>3. CASE ResetControl(r)
  BY <1>3 DEF ResetControl
<1>4. CASE InitializeExecution(r)
  BY <1>4 DEF InitializeExecution
<1>5. CASE ReadLock(r)
  BY <1>5 DEF ReadLock, Forget
<1>6. CASE TakeLock(r)
  BY <1>6 DEF TakeLock
<1>7. CASE OverBudget(r)
  BY <1>7 DEF OverBudget, Finish
<1>8. CASE TooManyLaps(r)
  BY <1>8 DEF TooManyLaps, Finish
<1>9. CASE ObeyControl(r)
  BY <1>9 DEF ObeyControl, Finish
<1>10. CASE NextItem(r)
  BY <1>10 DEF NextItem
<1>11. CASE Complete(r)
  BY <1>11 DEF Complete, Finish
<1>12. CASE ReadMutex(r)
  BY <1>12 DEF ReadMutex, PushBack, Finish
<1>13. CASE InsertMutex(r)
  BY <1>13 DEF InsertMutex, PushBack, Finish
<1>14. CASE UpdateMutex(r)
  BY <1>14 DEF UpdateMutex
<1>15. CASE MarkRunning(r)
  BY <1>15 DEF MarkRunning
<1>16. CASE Attempt(r)
  BY <1>16 DEF Attempt
<1>17. CASE Succeeds(r)
  BY <1>17 DEF Succeeds
<1>18. CASE Parks(r)
  BY <1>18 DEF Parks
<1>19. CASE Fails(r)
  BY <1>19 DEF Fails
<1>20. CASE Throws(r)
  BY <1>20 DEF Throws, Finish
<1>21. CASE ReleaseMutex(r)
  BY <1>21 DEF ReleaseMutex
<1>22. CASE RefusePorts(r)
  BY <1>22 DEF RefusePorts, Finish
<1>23. CASE Route(r)
  BY <1>23 DEF Route
<1>24. CASE WriteState(r)
  BY <1>24 DEF WriteState
<1>25. CASE SaveCheckpoint(r)
  BY <1>25 DEF SaveCheckpoint
<1>26. CASE ForceFail(r)
  BY <1>26 DEF ForceFail
<1>27. CASE ReleaseLock(r)
  BY <1>27 DEF ReleaseLock, Forget
<1> QED
  BY <1>2, <1>3, <1>4, <1>5, <1>6, <1>7, <1>8, <1>9, <1>10, <1>11, <1>12, <1>13, <1>14, <1>15, <1>16, <1>17, <1>18, <1>19, <1>20, <1>21, <1>22, <1>23, <1>24, <1>25, <1>26, <1>27 DEF Walk

\* Every step of an invocation brings it closer to its end, for any workflow,
\* cyclic or not, and any MAX_NODE_EXECUTIONS: no loop of execute() is endless.
THEOREM Termination == Spec => EveryStepLeadsToTheEnd
<1> DEFINE Down == \A r \in Runs :
              pc[r] \in InFlight /\ (pc'[r] # pc[r] \/ laps'[r] # laps[r]) => Closer(r)
<1>1. Typed /\ [Next]_vars => Down
  <2> SUFFICES ASSUME Typed, [Next]_vars, NEW q \in Runs, pc[q] \in InFlight,
                      pc'[q] # pc[q] \/ laps'[q] # laps[q]
               PROVE  Closer(q)
    OBVIOUS
  <2>1. CASE \E r \in Runs : Walk(r)
    BY <2>1, WalkGetsCloser DEF Moved
  <2>2. CASE \E r \in Runs : Begin(r)
    BY <2>2 DEF Begin, StartJob, AskResume, Typed, TypeOK, InFlight, At, Goto
  <2>3. CASE \E p \in Processes : Crash(p)
    <3>1. PICK p \in Processes : Crash(p)
      BY <2>3
    <3>2. CASE Me(q) = p
      BY <3>1, <3>2 DEF Crash, Closer, Over
    <3>3. CASE Me(q) # p
      BY <3>1, <3>3 DEF Crash, Forget
    <3> QED  BY <3>2, <3>3
  <2>4. CASE PauseFlags \/ CancelFlags \/ OperatorRow \/ LockLapses \/ UNCHANGED vars
    BY <2>4 DEF PauseFlags, CancelFlags, OperatorRow, LockLapses, vars, locals
  <2>5. CASE \E n \in Nodes : BecomeReady(n) \/ MutexLapses(n)
    BY <2>5 DEF BecomeReady, MutexLapses, locals
  <2> QED  BY <2>1, <2>2, <2>3, <2>4, <2>5 DEF Next, Environment
<1>2. Init => Typed
  BY TypedInitially
<1> QED  BY <1>1, <1>2, TypeStep, PTL DEF Spec, EveryStepLeadsToTheEnd
-----------------------------------------------------------------------------
\* The places at which an invocation may own the execution, or a node.
Owning == {"top", "mutex", "insert", "update", "running", "ask", "call", "unlock", "route",
           "mark", "save", "force", "release"}
Busy == {"running", "ask", "call", "unlock"}

LockOwned == lock \in Processes \ dead => \E r \in Runs : Me(r) = lock /\ pc[r] \in Owning

MutexOwned == \A n \in Nodes : mutex[n] \in Processes \ dead =>
                  \E r \in Runs : Me(r) = mutex[n] /\ here[r] = n /\ pc[r] \in Busy

Owned == LockOwned /\ MutexOwned

\* A step after which every owner is still there.
Quiet == /\ UNCHANGED <<lock, mutex, dead>>
         /\ \A q \in Runs : /\ pc[q] \in Owning => pc'[q] \in Owning
                            /\ pc[q] \in Busy => pc'[q] \in Busy /\ here'[q] = here[q]

\* An owner that is still at work is still an owner.
LEMMA QuietKeeps == ASSUME Owned, Quiet  PROVE Owned'
<1>1. LockOwned'
  BY DEF Owned, LockOwned, Quiet
<1>2. MutexOwned'
  BY DEF Owned, MutexOwned, Quiet
<1> QED  BY <1>1, <1>2 DEF Owned

\* Who found a mutex taken keeps the lock and held no mutex.
LEMMA PushBackQuiet ==
    ASSUME Typed, NEW r \in Runs, pc[r] \in {"mutex", "insert"}, PushBack(r)
    PROVE  Quiet
<1>1. \/ pc' = [pc EXCEPT ![r] = "mark"]
      \/ pc' = [pc EXCEPT ![r] = "top"]
  BY DEF PushBack, Finish, Goto
<1>2. pc \in [Runs -> Places]
  BY DEF Typed, TypeOK, Places
<1> QED  BY <1>1, <1>2 DEF PushBack, Quiet, Owning, Busy, shared, world

\* All actions but five leave owners, locks and mutexes as they are.
LEMMA WalkQuiet ==
    ASSUME Typed, NEW r \in Runs, Walk(r)
    PROVE  Quiet \/ TakeLock(r) \/ InsertMutex(r) \/ UpdateMutex(r) \/ ReleaseMutex(r) \/ ReleaseLock(r)
<1>1. pc \in [Runs -> Places] /\ here \in [Runs -> Nodes \cup {None}]
  BY DEF Typed, TypeOK, Places
<1> USE <1>1 DEF At, Goto, shared, world, locals, Quiet, Owning, Busy
<1>2. CASE ReadCheckpoint(r)
  BY <1>2 DEF ReadCheckpoint
<1>3. CASE ResetControl(r)
  BY <1>3 DEF ResetControl
<1>4. CASE InitializeExecution(r)
  BY <1>4 DEF InitializeExecution
<1>5. CASE ReadLock(r)
  BY <1>5 DEF ReadLock, Forget
<1>6. CASE OverBudget(r)
  BY <1>6 DEF OverBudget, Finish
<1>7. CASE TooManyLaps(r)
  BY <1>7 DEF TooManyLaps, Finish
<1>8. CASE ObeyControl(r)
  BY <1>8 DEF ObeyControl, Finish
<1>9. CASE NextItem(r)
  BY <1>9 DEF NextItem
<1>10. CASE Complete(r)
  BY <1>10 DEF Complete, Finish
<1>11. CASE ReadMutex(r)
  <2>1. CASE PushBack(r)
    BY <2>1, <1>11, PushBackQuiet DEF ReadMutex
  <2>2. CASE ~PushBack(r)
    BY <2>2, <1>11 DEF ReadMutex
  <2> QED  BY <2>1, <2>2
<1>12. CASE MarkRunning(r)
  BY <1>12 DEF MarkRunning
<1>13. CASE Attempt(r)
  BY <1>13 DEF Attempt
<1>14. CASE Succeeds(r)
  BY <1>14 DEF Succeeds
<1>15. CASE Parks(r)
  BY <1>15 DEF Parks
<1>16. CASE Fails(r)
  BY <1>16 DEF Fails
<1>17. CASE Throws(r)
  BY <1>17 DEF Throws, Finish
<1>18. CASE RefusePorts(r)
  BY <1>18 DEF RefusePorts, Finish
<1>19. CASE Route(r)
  BY <1>19 DEF Route
<1>20. CASE WriteState(r)
  BY <1>20 DEF WriteState
<1>21. CASE SaveCheckpoint(r)
  BY <1>21 DEF SaveCheckpoint
<1>22. CASE ForceFail(r)
  BY <1>22 DEF ForceFail
<1> QED
  BY <1>2, <1>3, <1>4, <1>5, <1>6, <1>7, <1>8, <1>9, <1>10, <1>11, <1>12, <1>13, <1>14, <1>15, <1>16, <1>17, <1>18, <1>19, <1>20, <1>21, <1>22 DEF Walk

\* Those five, and what processes suffer.
LEMMA OwnedStep ==
    ASSUME Typed, Owned, [Next]_vars
    PROVE  Owned'
<1>1. /\ pc \in [Runs -> Places] /\ here \in [Runs -> Nodes \cup {None}]
      /\ mutex \in [Nodes -> Processes \cup {"absent", "lapsed"}]
      /\ lock \in Processes \cup {None} /\ AtItsNode
  BY DEF Typed, TypeOK, Places
<1>2. /\ "absent" \notin Processes /\ "lapsed" \notin Processes /\ None \notin Processes
      /\ \A r \in Runs : Me(r) \in Processes
  BY EngineAssumption, Constants
<1>3. ASSUME NEW r \in Runs, TakeLock(r)
      PROVE  Owned'
  <2>1. pc' = [pc EXCEPT ![r] = "top"] /\ UNCHANGED <<mutex, here, dead>>
    BY <1>3 DEF TakeLock, Goto, world
  <2>2. lock' = lock \/ lock' = Me(r)
    BY <1>3 DEF TakeLock
  <2>3. At(r, "take")
    BY <1>3 DEF TakeLock
  <2>4. LockOwned'
    BY <2>1, <2>2, <1>1 DEF Owned, LockOwned, Owning
  <2>5. MutexOwned'
    BY <2>1, <2>3, <1>1 DEF Owned, MutexOwned, Busy, At
  <2> QED  BY <2>4, <2>5 DEF Owned
<1>4. ASSUME NEW r \in Runs, InsertMutex(r) \/ UpdateMutex(r)
      PROVE  Owned'
  <2>1. here[r] \in Nodes /\ pc[r] \in {"insert", "update"}
    BY <1>1, <1>4 DEF InsertMutex, UpdateMutex, AtItsNode, At
  <2>2. CASE PushBack(r) /\ pc[r] = "insert"
    BY <2>2, PushBackQuiet, QuietKeeps
  <2>3. CASE ~(PushBack(r) /\ pc[r] = "insert")
    <3>1. /\ pc' = [pc EXCEPT ![r] = "running"] /\ UNCHANGED <<lock, here, dead>>
          /\ mutex' = mutex \/ mutex' = [mutex EXCEPT ![here[r]] = Me(r)]
      BY <2>3, <1>4 DEF InsertMutex, UpdateMutex, At, Goto, world
    <3>2. LockOwned'
      BY <3>1, <2>1, <1>1 DEF Owned, LockOwned, Owning
    <3>3. MutexOwned'
      <4> SUFFICES ASSUME NEW n \in Nodes, mutex'[n] \in Processes \ dead'
                   PROVE  \E q \in Runs : Me(q) = mutex'[n] /\ here'[q] = n /\ pc'[q] \in Busy
        BY DEF MutexOwned
      <4>1. CASE mutex'[n] = mutex[n]
        <5>1. PICK q \in Runs : Me(q) = mutex[n] /\ here[q] = n /\ pc[q] \in Busy
          BY <4>1, <3>1 DEF Owned, MutexOwned
        <5> QED  BY <5>1, <4>1, <3>1, <2>1, <1>1 DEF Busy
      <4>2. CASE mutex'[n] # mutex[n]
        <5>1. n = here[r] /\ mutex'[n] = Me(r)
          BY <4>2, <3>1, <1>1
        <5> QED  BY <5>1, <3>1, <1>1 DEF Busy
      <4> QED  BY <4>1, <4>2
    <3> QED  BY <3>2, <3>3 DEF Owned
  <2> QED  BY <2>2, <2>3
<1>5. ASSUME NEW r \in Runs, ReleaseMutex(r)
      PROVE  Owned'
  <2>1. here[r] \in Nodes /\ pc[r] = "unlock"
    BY <1>1, <1>5 DEF ReleaseMutex, AtItsNode, At
  <2>2. /\ UNCHANGED <<lock, here, dead>> /\ \E p \in Owning : pc' = [pc EXCEPT ![r] = p]
        /\ mutex' = [mutex EXCEPT ![here[r]] = IF @ = Me(r) THEN "absent" ELSE @]
    BY <1>5 DEF ReleaseMutex, Goto, Owning, world
  <2>3. LockOwned'
    BY <2>2, <2>1, <1>1 DEF Owned, LockOwned, Owning
  <2>4. MutexOwned'
    <3> SUFFICES ASSUME NEW n \in Nodes, mutex'[n] \in Processes \ dead'
                 PROVE  \E q \in Runs : Me(q) = mutex'[n] /\ here'[q] = n /\ pc'[q] \in Busy
      BY DEF MutexOwned
    <3>1. mutex'[n] = mutex[n] /\ ~(n = here[r] /\ mutex[n] = Me(r))
      BY <2>2, <1>1, <1>2
    <3>2. PICK q \in Runs : Me(q) = mutex[n] /\ here[q] = n /\ pc[q] \in Busy
      BY <3>1, <2>2 DEF Owned, MutexOwned
    <3>3. q # r
      BY <3>1, <3>2
    <3> QED  BY <3>1, <3>2, <3>3, <2>2, <1>1
  <2> QED  BY <2>3, <2>4 DEF Owned
<1>6. ASSUME NEW r \in Runs, ReleaseLock(r)
      PROVE  Owned'
  <2>1. /\ At(r, "release") /\ UNCHANGED <<mutex, dead>>
        /\ lock' = IF lock = Me(r) THEN None ELSE lock
        /\ \A q \in Runs \ {r} : pc'[q] = pc[q] /\ here'[q] = here[q]
    BY <1>6, <1>1 DEF ReleaseLock, Forget, Goto, world
  <2>2. LockOwned'
    BY <2>1, <1>1, <1>2 DEF Owned, LockOwned
  <2>3. MutexOwned'
    <3> SUFFICES ASSUME NEW n \in Nodes, mutex[n] \in Processes \ dead
                 PROVE  \E q \in Runs : Me(q) = mutex[n] /\ here'[q] = n /\ pc'[q] \in Busy
      BY <2>1 DEF MutexOwned
    <3>1. PICK q \in Runs : Me(q) = mutex[n] /\ here[q] = n /\ pc[q] \in Busy
      BY DEF Owned, MutexOwned
    <3>2. q # r
      BY <3>1, <2>1 DEF Busy, At
    <3> QED  BY <3>1, <3>2, <2>1
  <2> QED  BY <2>2, <2>3 DEF Owned
<1>7. ASSUME NEW p \in Processes, Crash(p)
      PROVE  Owned'
  <2>1. /\ dead' = dead \cup {p} /\ UNCHANGED <<lock, mutex>>
        /\ \A q \in Runs : Me(q) # p => pc'[q] = pc[q] /\ here'[q] = here[q]
    BY <1>7 DEF Crash, Forget
  <2>2. LockOwned'
    BY <2>1 DEF Owned, LockOwned
  <2>3. MutexOwned'
    <3> SUFFICES ASSUME NEW n \in Nodes, mutex[n] \in Processes \ dead, mutex[n] # p
                 PROVE  \E q \in Runs : Me(q) = mutex[n] /\ here'[q] = n /\ pc'[q] \in Busy
      BY <2>1 DEF MutexOwned
    <3>1. PICK q \in Runs : Me(q) = mutex[n] /\ here[q] = n /\ pc[q] \in Busy
      BY DEF Owned, MutexOwned
    <3> QED  BY <3>1, <2>1
  <2> QED  BY <2>2, <2>3 DEF Owned
<1>8. CASE LockLapses
  <2>1. LockOwned' /\ UNCHANGED <<mutex, dead, pc, here>>
    BY <1>8, <1>2 DEF LockLapses, LockOwned, locals, world
  <2> QED  BY <2>1 DEF Owned, MutexOwned
<1>9. ASSUME NEW n \in Nodes, MutexLapses(n)
      PROVE  Owned'
  <2>1. mutex' = [mutex EXCEPT ![n] = "lapsed"] /\ UNCHANGED <<lock, dead, pc, here>>
    BY <1>9 DEF MutexLapses, locals, world
  <2>2. LockOwned'
    BY <2>1 DEF Owned, LockOwned
  <2>3. MutexOwned'
    BY <2>1, <1>1, <1>2 DEF Owned, MutexOwned
  <2> QED  BY <2>2, <2>3 DEF Owned
<1>10. CASE Quiet
  BY <1>10, QuietKeeps
<1>11. ASSUME NEW r \in Runs, Begin(r)
       PROVE  Owned'
  <2>1. /\ pc[r] = "idle" /\ \E p \in Places : pc' = [pc EXCEPT ![r] = p]
        /\ UNCHANGED <<lock, mutex, dead, here>>
    BY <1>11 DEF Begin, StartJob, AskResume, At, Goto, shared, world, Places, InFlight
  <2>2. Quiet
    BY <2>1, <1>1 DEF Quiet, Owning, Busy
  <2> QED  BY <2>2, QuietKeeps
<1>12. CASE PauseFlags \/ CancelFlags \/ OperatorRow \/ UNCHANGED vars \/ \E n \in Nodes : BecomeReady(n)
  <2>1. Quiet
    BY <1>12 DEF Quiet, PauseFlags, CancelFlags, OperatorRow, BecomeReady, vars, shared, locals, world
  <2> QED  BY <2>1, QuietKeeps
<1>13. ASSUME NEW r \in Runs, Walk(r)
       PROVE  Owned'
  BY <1>3, <1>4, <1>5, <1>6, <1>10, <1>13, WalkQuiet
<1> QED
  BY <1>7, <1>8, <1>9, <1>11, <1>12, <1>13 DEF Next, Environment

\* At the start nothing is locked.
LEMMA OwnedInitially == Init => Owned
<1>1. None \notin Processes /\ "absent" \notin Processes
  BY EngineAssumption
<1> QED  BY <1>1 DEF Init, Owned, LockOwned, MutexOwned

\* However its invocations end, the execution and its nodes end up free, but for
\* what the leases of dead processes hold: who holds one is at work under it.
THEOREM LocksReleased == Spec => []LocksAreGivenBack
<1>1. Typed /\ Owned => LocksAreGivenBack
  <2> SUFFICES ASSUME Typed, Owned, \A r \in Runs : pc[r] \notin InFlight
               PROVE  /\ lock \in {None} \cup dead
                      /\ \A n \in Nodes : mutex[n] \in {"absent", "lapsed"} \cup dead
    BY DEF LocksAreGivenBack
  <2>1. lock \in {None} \cup dead
    BY DEF Typed, TypeOK, Owned, LockOwned, Owning, InFlight
  <2>2. ASSUME NEW n \in Nodes  PROVE mutex[n] \in {"absent", "lapsed"} \cup dead
    BY DEF Typed, TypeOK, Owned, MutexOwned, Busy, InFlight
  <2> QED  BY <2>1, <2>2
<1> QED  BY <1>1, TypedInitially, OwnedInitially, TypeStep, OwnedStep, PTL DEF Spec
-----------------------------------------------------------------------------
\* As long as nothing has died, who is at a node has its mutex, and nobody finds
\* a lapsed one to update.
HoldsMutex == dead = {} =>
    /\ \A n \in Nodes : mutex[n] # "lapsed"
    /\ \A r \in Runs : /\ pc[r] # "update"
                       /\ pc[r] \in Busy => here[r] \in Nodes /\ mutex[here[r]] = Me(r)

\* A step that brings nobody to a node and touches no mutex.
Apart == /\ UNCHANGED <<mutex, dead>>
         /\ \A q \in Runs : /\ pc'[q] \in Busy => pc[q] \in Busy /\ here'[q] = here[q]
                            /\ pc'[q] = "update" => pc[q] = "update"

\* A step that brings nobody to a node cannot make two meet.
LEMMA ApartKeeps == ASSUME HoldsMutex, Apart  PROVE HoldsMutex'
BY DEF HoldsMutex, Apart

\* Who found a mutex taken is not at a node.
LEMMA PushBackApart ==
    ASSUME Typed, NEW r \in Runs, pc[r] \in {"mutex", "insert"}, PushBack(r)
    PROVE  Apart
<1>1. \/ pc' = [pc EXCEPT ![r] = "mark"]
      \/ pc' = [pc EXCEPT ![r] = "top"]
  BY DEF PushBack, Finish, Goto
<1>2. pc \in [Runs -> Places]
  BY DEF Typed, TypeOK, Places
<1> QED  BY <1>1, <1>2 DEF PushBack, Apart, Busy, shared, world

\* All actions but four bring nobody to a node and touch no mutex.
LEMMA WalkApart ==
    ASSUME Typed, NEW r \in Runs, Walk(r)
    PROVE  Apart \/ ReadMutex(r) \/ InsertMutex(r) \/ UpdateMutex(r) \/ ReleaseMutex(r)
<1>1. pc \in [Runs -> Places] /\ here \in [Runs -> Nodes \cup {None}]
  BY DEF Typed, TypeOK, Places
<1> USE <1>1 DEF At, Goto, shared, world, locals, Apart, Busy
<1>2. CASE ReadCheckpoint(r)
  BY <1>2 DEF ReadCheckpoint
<1>3. CASE ResetControl(r)
  BY <1>3 DEF ResetControl
<1>4. CASE InitializeExecution(r)
  BY <1>4 DEF InitializeExecution
<1>5. CASE ReadLock(r)
  BY <1>5 DEF ReadLock, Forget
<1>6. CASE TakeLock(r)
  BY <1>6 DEF TakeLock
<1>7. CASE OverBudget(r)
  BY <1>7 DEF OverBudget, Finish
<1>8. CASE TooManyLaps(r)
  BY <1>8 DEF TooManyLaps, Finish
<1>9. CASE ObeyControl(r)
  BY <1>9 DEF ObeyControl, Finish
<1>10. CASE NextItem(r)
  BY <1>10 DEF NextItem
<1>11. CASE Complete(r)
  BY <1>11 DEF Complete, Finish
<1>12. CASE MarkRunning(r)
  BY <1>12 DEF MarkRunning
<1>13. CASE Attempt(r)
  BY <1>13 DEF Attempt
<1>14. CASE Succeeds(r)
  BY <1>14 DEF Succeeds
<1>15. CASE Parks(r)
  BY <1>15 DEF Parks
<1>16. CASE Fails(r)
  BY <1>16 DEF Fails
<1>17. CASE Throws(r)
  BY <1>17 DEF Throws, Finish
<1>18. CASE RefusePorts(r)
  BY <1>18 DEF RefusePorts, Finish
<1>19. CASE Route(r)
  BY <1>19 DEF Route
<1>20. CASE WriteState(r)
  BY <1>20 DEF WriteState
<1>21. CASE SaveCheckpoint(r)
  BY <1>21 DEF SaveCheckpoint
<1>22. CASE ForceFail(r)
  BY <1>22 DEF ForceFail
<1>23. CASE ReleaseLock(r)
  BY <1>23 DEF ReleaseLock, Forget
<1> QED
  BY <1>2, <1>3, <1>4, <1>5, <1>6, <1>7, <1>8, <1>9, <1>10, <1>11, <1>12, <1>13, <1>14, <1>15, <1>16, <1>17, <1>18, <1>19, <1>20, <1>21, <1>22, <1>23 DEF Walk

\* Those four: a mutex is inserted only where none is, and released only by
\* its holder.  With a crash the claim is void.
LEMMA HoldsMutexStep ==
    ASSUME \A q, r \in Runs : Me(q) = Me(r) => q = r,
           Typed, Owned, HoldsMutex, [Next]_vars
    PROVE  HoldsMutex'
<1>1. /\ pc \in [Runs -> Places] /\ here \in [Runs -> Nodes \cup {None}]
      /\ mutex \in [Nodes -> Processes \cup {"absent", "lapsed"}] /\ AtItsNode
  BY DEF Typed, TypeOK, Places
<1>2. /\ "absent" \notin Processes /\ "lapsed" \notin Processes
      /\ \A r \in Runs : Me(r) \in Processes
  BY EngineAssumption, Constants
<1>3. CASE dead' # {}
  BY <1>3 DEF HoldsMutex
<1>4. ASSUME dead' = {}, dead = {}, NEW r \in Runs, ReadMutex(r)
      PROVE  HoldsMutex'
  <2>1. pc[r] = "mutex" /\ here[r] \in Nodes
    BY <1>1, <1>4 DEF ReadMutex, AtItsNode, At
  <2>2. CASE PushBack(r)
    BY <2>1, <2>2, PushBackApart, ApartKeeps
  <2>3. CASE ~PushBack(r)
    <3>1. mutex[here[r]] # Me(r)
      <4> SUFFICES ASSUME mutex[here[r]] = Me(r)  PROVE FALSE
        OBVIOUS
      <4>1. PICK q \in Runs : Me(q) = Me(r) /\ pc[q] \in Busy
        BY <2>1, <1>2, <1>4 DEF Owned, MutexOwned
      <4> QED  BY <4>1, <2>1 DEF Busy
    <3>2. mutex[here[r]] = "absent"
      BY <3>1, <2>1, <2>3, <1>1, <1>4 DEF ReadMutex, HoldsMutex
    <3>3. pc' = [pc EXCEPT ![r] = "insert"] /\ UNCHANGED <<mutex, dead, here>>
      BY <3>2, <2>3, <1>2, <1>4 DEF ReadMutex, Goto, shared, world
    <3>4. Apart
      BY <3>3, <1>1 DEF Apart, Busy
    <3> QED  BY <3>4, ApartKeeps
  <2> QED  BY <2>2, <2>3
<1>5. ASSUME dead' = {}, dead = {}, NEW r \in Runs, InsertMutex(r)
      PROVE  HoldsMutex'
  <2>1. pc[r] = "insert" /\ here[r] \in Nodes
    BY <1>1, <1>5 DEF InsertMutex, AtItsNode, At
  <2>2. CASE PushBack(r)
    BY <2>1, <2>2, PushBackApart, ApartKeeps
  <2>3. CASE ~PushBack(r)
    <3>1. /\ mutex[here[r]] = "absent" /\ mutex' = [mutex EXCEPT ![here[r]] = Me(r)]
          /\ pc' = [pc EXCEPT ![r] = "running"] /\ UNCHANGED <<dead, here>>
      BY <2>3, <1>5 DEF InsertMutex, Goto, world
    <3>2. \A n \in Nodes : mutex'[n] # "lapsed"
      BY <3>1, <1>1, <1>2, <1>5 DEF HoldsMutex
    <3>3. ASSUME NEW q \in Runs
          PROVE  /\ pc'[q] # "update"
                 /\ pc'[q] \in Busy => here'[q] \in Nodes /\ mutex'[here'[q]] = Me(q)
      <4>1. CASE q = r
        BY <4>1, <3>1, <2>1, <1>1
      <4>2. CASE q # r
        <5>1. pc'[q] = pc[q] /\ here'[q] = here[q]
          BY <4>2, <3>1, <1>1
        <5> QED  BY <5>1, <3>1, <1>1, <1>2, <1>5 DEF HoldsMutex
      <4> QED  BY <4>1, <4>2
    <3> QED  BY <3>2, <3>3 DEF HoldsMutex
  <2> QED  BY <2>2, <2>3
<1>6. ASSUME dead' = {}, dead = {}, NEW r \in Runs, ReleaseMutex(r)
      PROVE  HoldsMutex'
  <2>1. pc[r] = "unlock" /\ here[r] \in Nodes
    BY <1>1, <1>6 DEF ReleaseMutex, AtItsNode, At
  <2>2. /\ UNCHANGED <<dead, here>>
        /\ \E p \in {"route", "force", "mark"} : pc' = [pc EXCEPT ![r] = p]
        /\ mutex' = [mutex EXCEPT ![here[r]] = IF @ = Me(r) THEN "absent" ELSE @]
    BY <1>6 DEF ReleaseMutex, Goto, world
  <2>3. \A n \in Nodes : mutex'[n] # "lapsed"
    BY <2>2, <1>1, <1>6 DEF HoldsMutex
  <2>4. ASSUME NEW q \in Runs
        PROVE  /\ pc'[q] # "update"
               /\ pc'[q] \in Busy => here'[q] \in Nodes /\ mutex'[here'[q]] = Me(q)
    <3>1. CASE q = r
      BY <3>1, <2>2, <1>1 DEF Busy
    <3>2. CASE q # r
      <4>1. pc'[q] = pc[q] /\ here'[q] = here[q] /\ Me(q) # Me(r)
        BY <3>2, <2>2, <1>1
      <4> QED  BY <4>1, <2>2, <1>1, <1>6 DEF HoldsMutex
    <3> QED  BY <3>1, <3>2
  <2> QED  BY <2>3, <2>4 DEF HoldsMutex
<1>7. ASSUME dead = {}, NEW r \in Runs, UpdateMutex(r)
      PROVE  HoldsMutex'
  BY <1>7 DEF UpdateMutex, HoldsMutex, At
<1>8. CASE Apart
  BY <1>8, ApartKeeps
<1>9. ASSUME dead' = {}, dead = {}, NEW r \in Runs, Walk(r)
      PROVE  HoldsMutex'
  BY <1>4, <1>5, <1>6, <1>7, <1>8, <1>9, WalkApart
<1>10. ASSUME NEW r \in Runs, Begin(r)
       PROVE  HoldsMutex'
  <2>1. /\ \E p \in {"init", "read"} : pc' = [pc EXCEPT ![r] = p]
        /\ UNCHANGED <<mutex, dead, here>>
    BY <1>10 DEF Begin, StartJob, AskResume, Goto, shared, world
  <2>2. Apart
    BY <2>1, <1>1 DEF Apart, Busy
  <2> QED  BY <2>2, ApartKeeps
<1>11. ASSUME NEW p \in Processes, Crash(p)
       PROVE  dead' # {}
  BY <1>11 DEF Crash
<1>12. CASE LockLapses \/ PauseFlags \/ CancelFlags \/ OperatorRow \/ UNCHANGED vars
            \/ \E n \in Nodes : BecomeReady(n)
  <2>1. Apart
    BY <1>12 DEF Apart, LockLapses, PauseFlags, CancelFlags, OperatorRow, BecomeReady, vars, shared, locals, world
  <2> QED  BY <2>1, ApartKeeps
<1>13. ASSUME NEW n \in Nodes, MutexLapses(n), dead = {}
       PROVE  FALSE
  BY <1>13 DEF MutexLapses
<1>14. dead' = {} => dead = {}
  <2>1. ASSUME NEW r \in Runs, Walk(r)  PROVE dead' = dead
    BY <2>1, WalkApart DEF Apart, ReadMutex, PushBack, InsertMutex, UpdateMutex, ReleaseMutex, world
  <2>2. ASSUME NEW r \in Runs, Begin(r)  PROVE dead' = dead
    BY <2>2 DEF Begin, StartJob, AskResume, world
  <2>3. CASE Environment \/ UNCHANGED vars
    BY <2>3 DEF Environment, LockLapses, PauseFlags, CancelFlags, OperatorRow, BecomeReady,
                MutexLapses, Crash, vars, world
  <2> QED  BY <2>1, <2>2, <2>3 DEF Next
<1> QED
  BY <1>3, <1>9, <1>10, <1>11, <1>12, <1>13, <1>14 DEF Next, Environment

\* Without a crash, and with invocations that are in different processes, two of
\* them never run the same node at once, however many believe that they own the
\* execution: the read and the insert of a mutex are enough.
THEOREM NodesExclusive ==
    ASSUME \A q, r \in Runs : Me(q) = Me(r) => q = r
    PROVE  Spec => []NodesDoNotOverlap
<1>1. Init => HoldsMutex
  BY DEF Init, HoldsMutex, Busy
<1>2. HoldsMutex => NodesDoNotOverlap
  BY DEF HoldsMutex, NodesDoNotOverlap, Busy
<1>3. Typed /\ Owned /\ HoldsMutex /\ [Next]_vars => HoldsMutex'
  BY HoldsMutexStep
<1> QED
  BY <1>1, <1>2, <1>3, TypedInitially, OwnedInitially, TypeStep, OwnedStep, PTL DEF Spec
=============================================================================
