------------------------ MODULE WorkflowGraphProofs -------------------------
(***************************************************************************)
(* What the engine owes to the graph: that it runs only what is called,    *)
(* that a checkpoint leads to all that has still to run, and that          *)
(* WorkflowEngine implements GraphWalk.  The last two on the workflows that*)
(* are straight: elsewhere a branch that a node decided is handed on by the*)
(* nodes behind it, which fire the port of that number and no other.       *)
(***************************************************************************)
EXTENDS WorkflowEngineProofs

(* The parts of the invariant, of a workflow w, the nodes that have run    *)
(* (ran) and those that were dropped.                                      *)

Beyond(w, S) == UNION {GraphOf[w].reach[n] : n \in S}
Called(w, ran) == GraphOf[w].starts \cup UNION {GraphOf[w].next[n] : n \in ran}
Todo(w, q) == {n \in Queued(q) : Known(w, n)}

\* All that has still to run comes of S, or of a node that was dropped.
Covered(w, ran, dropped, S) == Straight(w) =>
    Beyond(w, GraphOf[w].starts) \subseteq ran \cup Beyond(w, S) \cup Beyond(w, dropped)

\* What is queued has been called, and comes with a branch that was decided.
Fits(w, ran, q) ==
    \A i \in DOMAIN q : /\ Known(w, q[i].node) => q[i].node \in Called(w, ran)
                       /\ q[i].token \in Handed(w)
FitsNode(w, ran, n) == n # None => Known(w, n) /\ n \in Called(w, ran)

Leads(S) == Covered(wf, steps, parked \cup failed, S)
Front == {"reset", "init", "lock", "take", "top"}
AtHand == {"mutex", "insert", "update", "running", "ask", "call", "unlock", "route"}
Ran(r) == pc[r] = "route" \/ (pc[r] = "unlock" /\ ending[r] = "none")
\* What is left when an invocation returns.
Left(r) == IF queue[r] # <<>> THEN Todo(wf, queue[r])
           ELSE IF ending[r] = "completed" THEN {} ELSE {here[r]}

RunFits(r) ==
    /\ pc[r] \in {"idle", "read"} \cup Front \cup (AtHand \ {"unlock"}) => ending[r] = "none"
    /\ pc[r] = "unlock" => ending[r] \in {"none", "quit", "waiting", "failed", "thrown"}
    /\ Fits(wf, steps, queue[r]) /\ FitsNode(wf, steps, here[r])
    /\ input[r] \in Handed(wf) /\ output[r] \in Handed(wf)
    /\ Ran(r) => here[r] \in steps /\ (Decides(wf, here[r]) => output[r] = wf.picks[here[r]])
    /\ pc[r] \in Front => Leads(Todo(wf, queue[r]))
    /\ pc[r] \in AtHand => Leads(Todo(wf, queue[r]) \cup {here[r]})
    /\ pc[r] = "save" => ending[r] \notin Unsaved
    /\ pc[r] \in {"mark", "save"} /\ ending[r] \notin Unsaved =>
         /\ Leads(Left(r))
         /\ ending[r] = "completed" => queue[r] = <<>>
         /\ queue[r] = <<>> /\ ending[r] # "completed" => here[r] # None

\* So a resume from the checkpoint is one that loses nothing.
SeedOf(w, s) == IF s.queue # <<>> THEN s.queue
                ELSE IF s.node # None THEN <<[node |-> s.node, token |-> s.token]>>
                ELSE Items(StartNodes(w))
SavedFits ==
    /\ Fits(wf, steps, saved.queue) /\ FitsNode(wf, steps, saved.node)
    /\ saved.token \in Handed(wf)
    /\ Leads(Todo(wf, SeedOf(wf, saved)))

OnGraph == steps \subseteq Reached(wf) /\ SavedFits /\ \A r \in Runs : RunFits(r)
-----------------------------------------------------------------------------
(* The graph of a workflow *)

LEMMA GraphShape ==
    ASSUME NEW w \in Workflows
    PROVE  /\ GraphOf[w].starts = {StartNodes(w)[i] : i \in DOMAIN StartNodes(w)}
           /\ GraphOf[w].next = Follows(w)
           /\ \A n \in Nodes : GraphOf[w].reach[n] =
                {m \in Nodes : \A T \in SUBSET Nodes : n \in T /\ Closed(Follows(w), T) => m \in T}
  BY DEF GraphOf

LEMMA StartsKnown ==
    ASSUME NEW w \in Workflows, NEW n \in GraphOf[w].starts
    PROVE  n \in Nodes /\ Known(w, n)
<1>1. PICK i \in DOMAIN StartNodes(w) : n = StartNodes(w)[i]
  BY GraphShape
<1>2. StartNodes(w) \in Seq({m \in Nodes : Known(w, m)})
  BY StartsAssumption
<1>3. StartNodes(w)[i] \in {m \in Nodes : Known(w, m)}
  BY <1>2
<1> QED  BY <1>1, <1>3

LEMMA FollowsKnown ==
    ASSUME NEW w \in Workflows, NEW n \in Nodes
    PROVE  /\ GraphOf[w].next[n] \subseteq {m \in Nodes : Known(w, m)}
           /\ GraphOf[w].next[n] = {m \in Targets(w, n, Taken(w, n)) : Known(w, m) /\ m \in Nodes}
<1>1. GraphOf[w].next[n] = {m \in Nodes : Known(w, m) /\
        \E p \in Taken(w, n) : \E i \in DOMAIN w.ports[n][p] : w.ports[n][p][i] = m}
  BY GraphShape DEF Follows
<1>2. ASSUME NEW m
      PROVE  m \in Targets(w, n, Taken(w, n)) <=>
               \E p \in Taken(w, n) : \E i \in DOMAIN w.ports[n][p] : w.ports[n][p][i] = m
  <2>1. \A p \in Taken(w, n) : \A i \in DOMAIN w.ports[n][p] : <<p, i>> \in Positions(w, n, Taken(w, n))
    BY DEF Positions
  <2>2. \A a \in Positions(w, n, Taken(w, n)) : a[1] \in Taken(w, n) /\ a[2] \in DOMAIN w.ports[n][a[1]]
    BY DEF Positions
  <2>3. ASSUME m \in Targets(w, n, Taken(w, n))
        PROVE  \E p \in Taken(w, n) : \E i \in DOMAIN w.ports[n][p] : w.ports[n][p][i] = m
    <3>1. PICK a \in Positions(w, n, Taken(w, n)) : m = w.ports[n][a[1]][a[2]]
      BY <2>3 DEF Targets
    <3> QED  BY <2>2, <3>1
  <2>4. ASSUME NEW p \in Taken(w, n), NEW i \in DOMAIN w.ports[n][p], w.ports[n][p][i] = m
        PROVE  m \in Targets(w, n, Taken(w, n))
    <3>1. <<p, i>> \in Positions(w, n, Taken(w, n)) /\ m = w.ports[n][<<p, i>>[1]][<<p, i>>[2]]
      BY <2>1, <2>4
    <3> QED  BY <3>1 DEF Targets
  <2> QED  BY <2>3, <2>4
<1> QED  BY <1>1, <1>2

LEMMA Reach ==
    ASSUME NEW w \in Workflows, NEW n \in Nodes
    PROVE  /\ n \in GraphOf[w].reach[n] /\ GraphOf[w].reach[n] \subseteq Nodes
           /\ \A m \in GraphOf[w].reach[n] : /\ GraphOf[w].next[m] \subseteq GraphOf[w].reach[n]
                                             /\ GraphOf[w].reach[m] \subseteq GraphOf[w].reach[n]
<1> DEFINE F == Follows(w)
           R(k) == {m \in Nodes : \A T \in SUBSET Nodes : k \in T /\ Closed(F, T) => m \in T}
<1>1. \A k \in Nodes : GraphOf[w].reach[k] = R(k)
  BY GraphShape
<1>2. GraphOf[w].next = F /\ \A k \in Nodes : F[k] \subseteq Nodes
  BY GraphShape, FollowsKnown
<1> HIDE DEF F
<1>3. n \in R(n) /\ R(n) \subseteq Nodes
  OBVIOUS
<1>4. ASSUME NEW m \in R(n)
      PROVE  F[m] \subseteq R(n) /\ R(m) \subseteq R(n)
  <2>1. ASSUME NEW k \in F[m]
        PROVE  k \in R(n)
    BY <1>2, <2>1 DEF Closed
  <2>2. ASSUME NEW k \in R(m)
        PROVE  k \in R(n)
    BY <2>2
  <2> QED  BY <2>1, <2>2
<1> QED  BY <1>1, <1>2, <1>3, <1>4

\* What may come of a node is the node, and what may come of those it calls.
LEMMA ReachStep ==
    ASSUME NEW w \in Workflows, NEW n \in Nodes, NEW m \in GraphOf[w].reach[n], m # n
    PROVE  \E k \in GraphOf[w].next[n] : m \in GraphOf[w].reach[k]
<1> DEFINE N == GraphOf[w].next[n]
           T == {n} \cup {x \in Nodes : \E k \in N : x \in GraphOf[w].reach[k]}
<1>1. N \subseteq Nodes
  BY FollowsKnown
<1>2. Closed(Follows(w), T)
  <2>1. ASSUME NEW x \in T, NEW y \in Follows(w)[x]
        PROVE  y \in T
    <3>1. x \in Nodes /\ y \in GraphOf[w].next[x] /\ y \in Nodes
      BY GraphShape, FollowsKnown
    <3>2. CASE x = n
      <4>1. y \in N
        BY <3>1, <3>2
      <4>2. y \in GraphOf[w].reach[y]
        BY <3>1, Reach
      <4> QED  BY <3>1, <4>1, <4>2
    <3>3. CASE x # n
      <4>1. PICK k \in N : x \in GraphOf[w].reach[k]
        BY <3>3
      <4>2. y \in GraphOf[w].reach[k]
        BY <1>1, <3>1, <4>1, Reach
      <4> QED  BY <3>1, <4>1, <4>2
    <3> QED  BY <3>2, <3>3
  <2> QED  BY <2>1 DEF Closed
<1>3. T \in SUBSET Nodes /\ n \in T
  OBVIOUS
<1>4. m \in T
  BY <1>2, <1>3, GraphShape
<1> QED  BY <1>4
-----------------------------------------------------------------------------
(* What covers what *)

LEMMA Covering ==
    ASSUME NEW w, NEW ran, NEW dropped, NEW S, Covered(w, ran, dropped, S)
    PROVE  /\ \A ran2, dropped2, S2 :
                ran \subseteq ran2 /\ dropped \subseteq dropped2 /\ S \subseteq S2
                  => Covered(w, ran2, dropped2, S2)
           /\ \A n, S2 : S \subseteq S2 \cup {n} => Covered(w, ran, dropped \cup {n}, S2)
<1>1. ASSUME Straight(w), NEW x \in Beyond(w, GraphOf[w].starts)
      PROVE  x \in ran \/ (\E n \in S : x \in GraphOf[w].reach[n])
             \/ (\E n \in dropped : x \in GraphOf[w].reach[n])
  BY <1>1 DEF Covered, Beyond
<1>2. ASSUME NEW ran2, NEW dropped2, NEW S2,
             ran \subseteq ran2, dropped \subseteq dropped2, S \subseteq S2
      PROVE  Covered(w, ran2, dropped2, S2)
  <2>1. ASSUME Straight(w), NEW x \in Beyond(w, GraphOf[w].starts)
        PROVE  x \in ran2 \/ (\E n \in S2 : x \in GraphOf[w].reach[n])
               \/ (\E n \in dropped2 : x \in GraphOf[w].reach[n])
    BY <1>1, <1>2, <2>1
  <2> QED  BY <2>1 DEF Covered, Beyond
<1>3. ASSUME NEW n, NEW S2, S \subseteq S2 \cup {n}
      PROVE  Covered(w, ran, dropped \cup {n}, S2)
  <2>1. ASSUME Straight(w), NEW x \in Beyond(w, GraphOf[w].starts)
        PROVE  x \in ran \/ (\E m \in S2 : x \in GraphOf[w].reach[m])
               \/ (\E m \in dropped \cup {n} : x \in GraphOf[w].reach[m])
    BY <1>1, <1>3, <2>1
  <2> QED  BY <2>1 DEF Covered, Beyond
<1> QED  BY <1>2, <1>3

\* A node that has run is covered by those it calls.
LEMMA CoveringStep ==
    ASSUME NEW w \in Workflows, NEW ran, NEW dropped, NEW S, NEW n \in ran \cap Nodes,
           Covered(w, ran, dropped, S \cup {n})
    PROVE  \A S2 : S \cup GraphOf[w].next[n] \subseteq S2 => Covered(w, ran, dropped, S2)
<1>1. ASSUME Straight(w), NEW x \in Beyond(w, GraphOf[w].starts)
      PROVE  x \in ran \/ (\E m \in S \cup {n} : x \in GraphOf[w].reach[m])
             \/ (\E m \in dropped : x \in GraphOf[w].reach[m])
  BY <1>1 DEF Covered, Beyond
<1>2. \A x \in GraphOf[w].reach[n] : x = n \/ \E k \in GraphOf[w].next[n] : x \in GraphOf[w].reach[k]
  BY ReachStep
<1>3. ASSUME NEW S2, S \cup GraphOf[w].next[n] \subseteq S2,
             Straight(w), NEW x \in Beyond(w, GraphOf[w].starts)
      PROVE  x \in ran \/ (\E m \in S2 : x \in GraphOf[w].reach[m])
             \/ (\E m \in dropped : x \in GraphOf[w].reach[m])
  BY <1>1, <1>2, <1>3
<1> QED  BY <1>3 DEF Covered, Beyond

LEMMA CalledGrows ==
    ASSUME NEW w, NEW ran, NEW ran2, ran \subseteq ran2
    PROVE  /\ Called(w, ran) \subseteq Called(w, ran2)
           /\ \A q : Fits(w, ran, q) => Fits(w, ran2, q)
           /\ \A n : FitsNode(w, ran, n) => FitsNode(w, ran2, n)
<1>1. Called(w, ran) \subseteq Called(w, ran2)
  BY DEF Called
<1> QED  BY <1>1 DEF Fits, FitsNode

\* What has been called may run.
LEMMA CalledReached ==
    ASSUME NEW w \in Workflows, NEW ran \in SUBSET Reached(w)
    PROVE  Called(w, ran) \subseteq Reached(w) /\ Called(w, ran) \subseteq {n \in Nodes : Known(w, n)}
<1>1. \A n \in GraphOf[w].starts : n \in Nodes /\ Known(w, n)
  BY StartsKnown
<1>2. GraphOf[w].starts \subseteq Reached(w)
  BY <1>1, Reach DEF Reached
<1>3. ASSUME NEW n \in ran
      PROVE  /\ GraphOf[w].next[n] \subseteq Reached(w)
             /\ GraphOf[w].next[n] \subseteq {m \in Nodes : Known(w, m)}
  <2>1. PICK k \in GraphOf[w].starts : n \in GraphOf[w].reach[k]
    BY DEF Reached
  <2>2. GraphOf[w].next[n] \subseteq GraphOf[w].reach[k] /\ n \in Nodes
    BY <1>1, <2>1, Reach
  <2> QED  BY <2>1, <2>2, FollowsKnown DEF Reached
<1> QED  BY <1>1, <1>2, <1>3 DEF Called

\* A job starts with everything before it.
LEMMA StartsFit ==
    ASSUME NEW w \in Workflows
    PROVE  /\ Todo(w, Items(StartNodes(w))) = GraphOf[w].starts
           /\ \A ran : Fits(w, ran, Items(StartNodes(w)))
           /\ \A ran, dropped : Covered(w, ran, dropped, GraphOf[w].starts)
<1> DEFINE s == StartNodes(w)
<1>1. Items(s) = [i \in DOMAIN s |-> [node |-> s[i], token |-> None]]
  BY DEF Items
<1>2. GraphOf[w].starts = {s[i] : i \in DOMAIN s}
  BY GraphShape
<1> HIDE DEF s
<1>3. DOMAIN Items(s) = DOMAIN s /\ \A i \in DOMAIN s : Items(s)[i].node = s[i] /\ Items(s)[i].token = None
  BY <1>1
<1>4. Queued(Items(s)) = GraphOf[w].starts
  BY <1>2, <1>3 DEF Queued
<1>5. \A n \in GraphOf[w].starts : Known(w, n)
  BY StartsKnown
<1>6. \A i \in DOMAIN s : s[i] \in GraphOf[w].starts
  BY <1>2
<1>7. \A ran : Fits(w, ran, Items(s))
  BY <1>3, <1>6 DEF Fits, Called, Handed
<1>8. \A ran, dropped : Covered(w, ran, dropped, GraphOf[w].starts)
  BY DEF Covered
<1> QED  BY <1>4, <1>5, <1>7, <1>8 DEF Todo, s
-----------------------------------------------------------------------------
(* What a step leaves alone *)

Grows == wf' = wf /\ steps \subseteq steps' /\ parked \subseteq parked' /\ failed \subseteq failed'
Same(r) == /\ pc'[r] = pc[r] /\ queue'[r] = queue[r] /\ input'[r] = input[r]
           /\ here'[r] = here[r] /\ output'[r] = output[r] /\ ending'[r] = ending[r]
Gone(r) == /\ pc'[r] \in {"idle"} \cup Over /\ queue'[r] = <<>> /\ input'[r] = None
           /\ here'[r] = None /\ output'[r] = None /\ ending'[r] = "none"

LEMMA EveryStepGrows ==
    ASSUME [Next]_vars
    PROVE  Grows
<1> USE DEF Grows, shared, world, locals
<1>1. CASE UNCHANGED vars
  BY <1>1 DEF vars
<1>2. ASSUME NEW r \in Runs, Begin(r)
      PROVE  Grows
  BY <1>2 DEF Begin, StartJob, AskResume
<1>3. ASSUME NEW r \in Runs, Walk(r)
      PROVE  Grows
  BY <1>3 DEF Walk, ReadCheckpoint, ResetControl, InitializeExecution, ReadLock, TakeLock,
              OverBudget, TooManyLaps, ObeyControl, NextItem, Complete, ReadMutex, PushBack,
              InsertMutex, UpdateMutex, MarkRunning, Attempt, Succeeds, Parks, Fails, Throws,
              ReleaseMutex, RefusePorts, Abandon, Route, WriteState, SaveCheckpoint, ForceFail,
              ReleaseLock
<1>4. CASE Environment
  BY <1>4 DEF Environment, PauseFlags, CancelFlags, OperatorRow, BecomeReady, MutexLapses, Crash,
              LockLapses
<1> QED  BY <1>1, <1>2, <1>3, <1>4 DEF Next

LEMMA LeadsOn ==
    ASSUME Grows
    PROVE  /\ \A S, S2 : Leads(S) /\ S \subseteq S2
                => Covered(wf', steps', parked' \cup failed', S2)
           /\ \A q : Fits(wf, steps, q) => Fits(wf', steps', q)
           /\ \A n : FitsNode(wf, steps, n) => FitsNode(wf', steps', n)
<1>1. wf' = wf /\ steps \subseteq steps' /\ parked \cup failed \subseteq parked' \cup failed'
  BY DEF Grows
<1>2. \A S, S2 : Leads(S) /\ S \subseteq S2 => Covered(wf', steps', parked' \cup failed', S2)
  BY <1>1, Covering DEF Leads
<1> QED  BY <1>1, <1>2, CalledGrows

\* An invocation that does not move keeps its part of the invariant.
LEMMA RunStands ==
    ASSUME Grows, NEW r \in Runs, RunFits(r), Same(r)
    PROVE  RunFits(r)'
<1>1. wf' = wf /\ steps \subseteq steps'
  BY DEF Grows
<1>2. Left(r)' = Left(r)
  BY <1>1 DEF Same, Left
<1>3. /\ Fits(wf', steps', queue'[r]) /\ FitsNode(wf', steps', here'[r])
      /\ \A S : Leads(S) => Covered(wf', steps', parked' \cup failed', S)
  BY LeadsOn DEF RunFits, Same
<1>4. /\ Leads(Todo(wf, queue[r])) => Leads(Todo(wf, queue[r]))'
      /\ Leads(Todo(wf, queue[r]) \cup {here[r]}) => Leads(Todo(wf, queue[r]) \cup {here[r]})'
      /\ Leads(Left(r)) => Leads(Left(r))'
  BY <1>1, <1>2, <1>3 DEF Leads, Same
<1> QED  BY <1>1, <1>3, <1>4 DEF RunFits, Ran, Same

LEMMA GoneFits ==
    ASSUME NEW r \in Runs, Gone(r)
    PROVE  RunFits(r)'
<1>1. pc'[r] \notin Front \cup AtHand \cup {"mark", "save"} /\ ~Ran(r)' /\ ending'[r] = "none"
  BY DEF Gone, Front, AtHand, Over, Ran
<1>2. pc'[r] # "unlock" /\ "unlock" \in AtHand
  BY <1>1 DEF AtHand
<1>3. Fits(wf', steps', queue'[r]) /\ FitsNode(wf', steps', here'[r])
  BY DEF Gone, Fits, FitsNode
<1>4. input'[r] \in Handed(wf') /\ output'[r] \in Handed(wf')
  BY DEF Gone, Handed
<1> QED  BY <1>1, <1>2, <1>3, <1>4 DEF RunFits

LEMMA SavedStands ==
    ASSUME Grows, SavedFits, saved' = saved
    PROVE  SavedFits'
<1>1. wf' = wf
  BY DEF Grows
<1>2. /\ Fits(wf', steps', saved.queue) /\ FitsNode(wf', steps', saved.node)
      /\ Covered(wf', steps', parked' \cup failed', Todo(wf, SeedOf(wf, saved)))
  BY LeadsOn DEF SavedFits
<1> QED  BY <1>1, <1>2 DEF SavedFits, Leads
-----------------------------------------------------------------------------
(* The steps of an invocation, one group after the other *)

\* The locals stay, or the input is cleared.
LEMMA Settled ==
    ASSUME Grows, NEW r \in Runs, RunFits(r), UNCHANGED <<queue, here, output>>,
           input'[r] \in {input[r], None}
    PROVE  /\ Fits(wf', steps', queue'[r]) /\ FitsNode(wf', steps', here'[r])
           /\ input'[r] \in Handed(wf') /\ output'[r] \in Handed(wf')
           /\ Todo(wf', queue'[r]) = Todo(wf, queue[r]) /\ here'[r] = here[r]
<1>1. wf' = wf
  BY DEF Grows
<1>2. None \in Handed(wf)
  BY DEF Handed
<1> QED  BY <1>1, <1>2, LeadsOn DEF RunFits

\* Before the loop, and on from one place of the loop to the next.
LEMMA Ahead ==
    ASSUME Typed, Grows, NEW r \in Runs, RunFits(r), UNCHANGED <<queue, input, here, output>>,
           \/ pc[r] \in Front /\ pc'[r] \in Front /\ ending'[r] = "none"
           \/ pc[r] \in AtHand \ {"unlock", "route"} /\ pc'[r] \in AtHand \ {"unlock", "route"}
                /\ ending'[r] = "none"
           \/ pc[r] \in AtHand \ {"unlock", "route"} /\ pc'[r] = "unlock"
                /\ ending'[r] \in {"quit", "failed", "thrown"}
    PROVE  RunFits(r)'
<1>1. /\ Fits(wf', steps', queue'[r]) /\ FitsNode(wf', steps', here'[r])
      /\ input'[r] \in Handed(wf') /\ output'[r] \in Handed(wf')
      /\ Todo(wf', queue'[r]) = Todo(wf, queue[r]) /\ here'[r] = here[r]
  BY Settled
<1>2. ~Ran(r)'
  BY DEF Ran, Front, AtHand
<1>3. pc'[r] \in Front => Leads(Todo(wf, queue[r]))'
  <2>1. pc'[r] \in Front => Leads(Todo(wf, queue[r]))
    BY DEF RunFits, Front, AtHand
  <2>2. Leads(Todo(wf, queue[r])) => Covered(wf', steps', parked' \cup failed', Todo(wf, queue[r]))
    BY LeadsOn
  <2> QED  BY <2>1, <2>2, <1>1 DEF Leads
<1>4. pc'[r] \in AtHand => Leads(Todo(wf, queue[r]) \cup {here[r]})'
  <2>1. pc'[r] \in AtHand => Leads(Todo(wf, queue[r]) \cup {here[r]})
    BY DEF RunFits, Front, AtHand
  <2>2. Leads(Todo(wf, queue[r]) \cup {here[r]})
          => Covered(wf', steps', parked' \cup failed', Todo(wf, queue[r]) \cup {here[r]})
    BY LeadsOn
  <2> QED  BY <2>1, <2>2, <1>1 DEF Leads
<1>5. pc'[r] \notin {"mark", "save"}
  BY DEF Front, AtHand
<1>6. pc'[r] = "unlock" => ending'[r] \in {"none", "quit", "waiting", "failed", "thrown"}
  BY DEF Front, AtHand
<1>7. pc'[r] \in {"idle", "read"} \cup Front \cup (AtHand \ {"unlock"}) => ending'[r] = "none"
  BY DEF Front, AtHand
<1> QED  BY <1>1, <1>2, <1>3, <1>4, <1>5, <1>6, <1>7 DEF RunFits, Leads

\* On the way out with what is queued, with nothing, or with the node at hand.
LEMMA Away ==
    ASSUME Typed, Grows, NEW r \in Runs, RunFits(r), UNCHANGED <<queue, here, output>>,
           input'[r] \in {input[r], None},
           pc'[r] \in {"mark", "save", "force", "release"},
           pc'[r] = "save" => ending'[r] \notin Unsaved,
           pc'[r] \in {"mark", "save"} /\ ending'[r] \notin Unsaved =>
             /\ queue[r] # <<>> => Covered(wf', steps', parked' \cup failed', Todo(wf, queue[r]))
             /\ queue[r] # <<>> => ending'[r] # "completed"
             /\ queue[r] = <<>> =>
                  \/ /\ ending'[r] = "completed"
                     /\ Covered(wf', steps', parked' \cup failed', {})
                  \/ /\ ending'[r] # "completed" /\ here[r] # None
                     /\ Covered(wf', steps', parked' \cup failed', {here[r]})
    PROVE  RunFits(r)'
<1>1. /\ Fits(wf', steps', queue'[r]) /\ FitsNode(wf', steps', here'[r])
      /\ input'[r] \in Handed(wf') /\ output'[r] \in Handed(wf')
      /\ Todo(wf', queue'[r]) = Todo(wf, queue[r]) /\ here'[r] = here[r]
      /\ queue'[r] = queue[r]
  BY Settled
<1>2. /\ ~Ran(r)' /\ pc'[r] \notin {"idle", "read", "unlock"} \cup Front \cup AtHand
  BY DEF Ran, Front, AtHand
<1>3. CASE pc'[r] \in {"mark", "save"} /\ ending'[r] \notin Unsaved
  <2>1. Covered(wf', steps', parked' \cup failed', Left(r)')
    <3>1. CASE queue[r] # <<>>
      <4>1. Left(r)' = Todo(wf, queue[r])
        BY <3>1, <1>1 DEF Left
      <4> QED  BY <4>1, <3>1, <1>3
    <3>2. CASE queue[r] = <<>> /\ ending'[r] = "completed"
      <4>1. Left(r)' = {}
        BY <3>2, <1>1 DEF Left
      <4> QED  BY <4>1, <3>2, <1>3
    <3>3. CASE queue[r] = <<>> /\ ending'[r] # "completed"
      <4>1. Left(r)' = {here[r]}
        BY <3>3, <1>1 DEF Left
      <4> QED  BY <4>1, <3>3, <1>3
    <3> QED  BY <3>1, <3>2, <3>3
  <2>2. Leads(Left(r))'
    BY <2>1 DEF Leads
  <2> QED  BY <1>1, <1>2, <1>3, <2>2 DEF RunFits
<1>4. CASE ~(pc'[r] \in {"mark", "save"} /\ ending'[r] \notin Unsaved)
  BY <1>1, <1>2, <1>4 DEF RunFits
<1> QED  BY <1>3, <1>4
-----------------------------------------------------------------------------
(* The actions *)

\* The steps that only move an invocation, or end it.
LEMMA MovesFit ==
    ASSUME Typed, Grows, NEW r \in Runs, RunFits(r),
           \/ ResetControl(r) \/ InitializeExecution(r) \/ ReadLock(r) \/ TakeLock(r)
           \/ InsertMutex(r) /\ mutex[here[r]] = "absent"
           \/ ReadMutex(r) /\ mutex[here[r]] \notin Processes \ {Me(r)}
           \/ UpdateMutex(r) \/ MarkRunning(r) \/ Attempt(r) \/ Fails(r)
           \/ AskResume(r) \/ ReleaseLock(r)
    PROVE  RunFits(r)'
<1> USE DEF At, Goto, shared, world, locals
<1>0. /\ pc \in [Runs -> Places] /\ ending \in [Runs -> Endings]
      /\ pc[r] \in Front \cup (AtHand \ {"unlock"}) => ending[r] = "none"
  BY DEF Typed, TypeOK, RunFits, Places
<1>1. CASE ResetControl(r) \/ InitializeExecution(r) \/ TakeLock(r)
  <2>1. /\ UNCHANGED <<queue, input, here, output>> /\ ending' = ending
        /\ pc[r] \in Front /\ pc'[r] \in Front
    BY <1>0, <1>1 DEF ResetControl, InitializeExecution, TakeLock, Front
  <2> QED  BY <1>0, <2>1, Ahead
<1>2. CASE ReadLock(r)
  <2>1. CASE lock \in {None, Me(r)}
    <3>1. /\ Forget({}) /\ pc[r] \in Front /\ pc'[r] \in Front
      BY <1>0, <1>2, <2>1 DEF ReadLock, Front
    <3>2. UNCHANGED <<queue, input, here, output>> /\ ending' = ending
      BY <3>1 DEF Forget, Typed, TypeOK
    <3> QED  BY <1>0, <3>1, <3>2, Ahead
  <2>2. CASE lock \notin {None, Me(r)}
    <3>1. Forget({r}) /\ pc'[r] = "denied"
      BY <1>0, <1>2, <2>2 DEF ReadLock
    <3>2. Gone(r)
      BY <3>1 DEF Forget, Gone, Over
    <3> QED  BY <3>2, GoneFits
  <2> QED  BY <2>1, <2>2
<1>3. CASE InsertMutex(r) /\ mutex[here[r]] = "absent"
  <2>1. /\ UNCHANGED <<queue, input, here, output>> /\ ending' = ending
        /\ pc[r] = "insert" /\ pc'[r] = "running"
    BY <1>0, <1>3 DEF InsertMutex
  <2> QED  BY <1>0, <2>1, Ahead DEF AtHand
<1>4. CASE ReadMutex(r) /\ mutex[here[r]] \notin Processes \ {Me(r)}
  <2>1. /\ UNCHANGED <<queue, input, here, output>> /\ ending' = ending
        /\ pc[r] = "mutex" /\ pc'[r] \in {"insert", "update"}
    BY <1>0, <1>4 DEF ReadMutex
  <2> QED  BY <1>0, <2>1, Ahead DEF AtHand
<1>5. CASE UpdateMutex(r) \/ MarkRunning(r)
  <2>1. /\ UNCHANGED <<queue, input, here, output>> /\ ending' = ending
        /\ pc[r] \in {"update", "running"} /\ pc'[r] \in {"running", "ask"}
    BY <1>0, <1>5 DEF UpdateMutex, MarkRunning
  <2> QED  BY <1>0, <2>1, Ahead DEF AtHand
<1>6. CASE Attempt(r)
  <2>1. /\ UNCHANGED <<queue, input, here, output>> /\ pc[r] = "ask"
        /\ \/ pc'[r] = "call" /\ ending' = ending
           \/ pc'[r] = "unlock" /\ ending'[r] = "quit"
    BY <1>0, <1>6 DEF Attempt
  <2> QED  BY <1>0, <2>1, Ahead DEF AtHand
<1>7. CASE Fails(r)
  <2>1. /\ UNCHANGED <<queue, input, here, output>> /\ pc[r] = "call"
        /\ \/ pc'[r] = "ask" /\ ending' = ending
           \/ pc'[r] = "unlock" /\ ending'[r] = "failed"
    BY <1>0, <1>7 DEF Fails
  <2> QED  BY <1>0, <2>1, Ahead DEF AtHand
<1>8. CASE AskResume(r)
  <2>1. /\ pc[r] = "idle" /\ pc'[r] = "read"
        /\ UNCHANGED <<queue, input, here, output>> /\ ending' = ending
    BY <1>0, <1>8 DEF AskResume
  <2>2. /\ Fits(wf', steps', queue'[r]) /\ FitsNode(wf', steps', here'[r])
        /\ input'[r] \in Handed(wf') /\ output'[r] \in Handed(wf')
    BY <2>1, Settled
  <2>3. ending'[r] = "none"
    BY <2>1 DEF RunFits
  <2> QED  BY <2>1, <2>2, <2>3 DEF RunFits, Ran, Front, AtHand
<1>9. CASE ReleaseLock(r)
  <2>1. Forget({r}) /\ pc'[r] \in {"threw", "done"}
    BY <1>0, <1>9 DEF ReleaseLock
  <2>2. Gone(r)
    BY <2>1 DEF Forget, Gone, Over
  <2> QED  BY <2>2, GoneFits
<1> QED  BY <1>1, <1>2, <1>3, <1>4, <1>5, <1>6, <1>7, <1>8, <1>9

\* The steps that begin an invocation, or its loop.
LEMMA BeginningsFit ==
    ASSUME Typed, Grows, SavedFits, NEW r \in Runs, RunFits(r), StartJob(r) \/ ReadCheckpoint(r)
    PROVE  RunFits(r)'
<1>1. PICK q : /\ queue' = [queue EXCEPT ![r] = q]
               /\ Fits(wf, steps, q) /\ Leads(Todo(wf, q))
  <2>1. wf \in Workflows
    BY DEF Typed, TypeOK
  <2>2. CASE StartJob(r)
    <3>1. queue' = [queue EXCEPT ![r] = Items(StartNodes(wf))]
      BY <2>2 DEF StartJob
    <3>2. /\ Fits(wf, steps, Items(StartNodes(wf)))
          /\ Leads(Todo(wf, Items(StartNodes(wf))))
      BY <2>1, StartsFit DEF Leads
    <3> QED  BY <3>1, <3>2
  <2>3. CASE ReadCheckpoint(r)
    <3>1. queue' = [queue EXCEPT ![r] = SeedOf(wf, saved)]
      BY <2>3 DEF ReadCheckpoint, Seed, SeedOf
    <3>2. Fits(wf, steps, SeedOf(wf, saved))
      <4>1. CASE saved.queue # <<>>
        BY <4>1 DEF SavedFits, SeedOf
      <4>2. CASE saved.queue = <<>> /\ saved.node # None
        <5>1. SeedOf(wf, saved) = <<[node |-> saved.node, token |-> saved.token]>>
          BY <4>2 DEF SeedOf
        <5>2. \A i \in DOMAIN SeedOf(wf, saved) :
                 SeedOf(wf, saved)[i] = [node |-> saved.node, token |-> saved.token]
          BY <5>1
        <5> QED  BY <4>2, <5>2 DEF SavedFits, FitsNode, Fits
      <4>3. CASE saved.queue = <<>> /\ saved.node = None
        BY <4>3, <2>1, StartsFit DEF SeedOf
      <4> QED  BY <4>1, <4>2, <4>3
    <3> QED  BY <3>1, <3>2 DEF SavedFits
  <2> QED  BY <2>2, <2>3
<1>2. /\ pc'[r] \in {"init", "reset"} /\ queue'[r] = q
      /\ UNCHANGED <<input, here, output, ending>> /\ pc[r] \in {"idle", "read"}
  <2>1. pc \in [Runs -> Places] /\ queue \in [Runs -> Seq(Item)]
    BY DEF Typed, TypeOK, Places
  <2> QED  BY <1>1, <2>1 DEF StartJob, ReadCheckpoint, At, Goto
<1>3. /\ Fits(wf', steps', queue'[r]) /\ FitsNode(wf', steps', here'[r])
      /\ input'[r] \in Handed(wf') /\ output'[r] \in Handed(wf')
      /\ Covered(wf', steps', parked' \cup failed', Todo(wf', queue'[r]))
  <2>1. wf' = wf
    BY DEF Grows
  <2> QED  BY <1>1, <1>2, <2>1, LeadsOn DEF RunFits
<1>4. ending'[r] = "none" /\ ~Ran(r)' /\ pc'[r] \notin AtHand \cup {"mark", "save", "unlock"}
  BY <1>2 DEF RunFits, Ran, AtHand
<1> QED  BY <1>3, <1>4 DEF RunFits, Leads

\* The steps that leave the loop, and those that follow.
LEMMA ReturnsFit ==
    ASSUME Typed, Grows, NEW r \in Runs, RunFits(r),
           \/ OverBudget(r) \/ TooManyLaps(r) \/ ObeyControl(r) \/ Complete(r)
           \/ At(r, "top") /\ queue[r] # <<>> /\ Throws(r)
           \/ WriteState(r) \/ SaveCheckpoint(r) \/ ForceFail(r)
    PROVE  RunFits(r)'
<1> USE DEF At, Goto, shared, world, locals
<1>0. /\ pc \in [Runs -> Places] /\ ending \in [Runs -> Endings]
      /\ \A S : Leads(S) => Covered(wf', steps', parked' \cup failed', S)
  BY LeadsOn DEF Typed, TypeOK, Places
<1>1. CASE \/ OverBudget(r) \/ TooManyLaps(r) \/ ObeyControl(r)
           \/ At(r, "top") /\ queue[r] # <<>> /\ Throws(r)
  <2>1. /\ pc[r] = "top" /\ queue[r] # <<>> /\ UNCHANGED <<queue, input, here, output>>
        /\ \E e \in {"failed", "halted", "cancelled", "paused", "thrown"} : Finish(r, e)
    BY <1>1 DEF OverBudget, TooManyLaps, ObeyControl, Throws
  <2>2. PICK e \in {"failed", "halted", "cancelled", "paused", "thrown"} : Finish(r, e)
    BY <2>1
  <2>3. ending'[r] = e /\ pc'[r] \in {"force", "mark"}
    BY <1>0, <2>2 DEF Finish
  <2>4. Leads(Todo(wf, queue[r]))
    BY <2>1 DEF RunFits, Front
  <2> QED  BY <1>0, <2>1, <2>3, <2>4, Away
<1>2. CASE Complete(r)
  <2>1. /\ pc[r] = "top" /\ queue[r] = <<>> /\ UNCHANGED <<queue, input, here, output>>
        /\ ending'[r] = "completed" /\ pc'[r] = "mark"
    BY <1>0, <1>2 DEF Complete, Finish
  <2>2. Leads(Todo(wf, queue[r]))
    BY <2>1 DEF RunFits, Front
  <2>3. Todo(wf, queue[r]) = {}
    BY <2>1 DEF Todo, Queued
  <2> QED  BY <1>0, <2>1, <2>2, <2>3, Away
<1>3. CASE WriteState(r)
  <2>1. /\ pc[r] = "mark" /\ UNCHANGED <<queue, input, here, output>> /\ ending' = ending
        /\ pc'[r] = IF ending[r] \in Unsaved THEN "force" ELSE "save"
    BY <1>0, <1>3 DEF WriteState
  <2>2. ending[r] \notin Unsaved =>
             /\ queue[r] # <<>> => Leads(Todo(wf, queue[r]))
             /\ queue[r] # <<>> => ending[r] # "completed"
             /\ queue[r] = <<>> =>
                  \/ ending[r] = "completed" /\ Leads({})
                  \/ ending[r] # "completed" /\ here[r] # None /\ Leads({here[r]})
    BY <2>1 DEF RunFits, Left
  <2>3. pc'[r] \in {"mark", "save", "force", "release"} /\ ending'[r] = ending[r]
        /\ (pc'[r] \in {"mark", "save"} => ending[r] \notin Unsaved)
    BY <2>1
  <2> HIDE <1>3
  <2> QED  BY <1>0, <2>1, <2>2, <2>3, Away
<1>4. CASE SaveCheckpoint(r) \/ ForceFail(r)
  <2>1. UNCHANGED <<queue, input, here, output>> /\ pc'[r] \in {"force", "release"}
    BY <1>0, <1>4 DEF SaveCheckpoint, ForceFail
  <2> QED  BY <2>1, Away
<1> QED  BY <1>1, <1>2, <1>3, <1>4

\* The next item is taken off the queue, and comes back if its mutex is held.
LEMMA NextItemFits ==
    ASSUME Typed, Grows, NEW r \in Runs, RunFits(r), NextItem(r)
    PROVE  RunFits(r)'
<1> DEFINE q == queue[r]
           n == Head(q).node
<1>1. /\ pc[r] = "top" /\ q # <<>> /\ q \in Seq(Item) /\ UNCHANGED <<output, ending>>
      /\ wf' = wf /\ queue'[r] = Tail(q)
      /\ pc \in [Runs -> Places] /\ here \in [Runs -> Nodes \cup {None}] /\ input \in [Runs -> Tokens]
  BY DEF NextItem, At, Typed, TypeOK, Places, Grows
<1>2. /\ Len(q) \in Nat /\ Len(q) >= 1 /\ DOMAIN q = 1 .. Len(q) /\ Head(q) = q[1]
      /\ DOMAIN Tail(q) = 1 .. Len(q) - 1
      /\ \A i \in 1 .. Len(q) - 1 : Tail(q)[i] = q[i + 1]
  BY <1>1
<1>3. Queued(q) = Queued(Tail(q)) \cup {n}
  <2>1. \A i \in DOMAIN q : i = 1 \/ i - 1 \in 1 .. Len(q) - 1
    BY <1>2
  <2>2. \A i \in DOMAIN q : q[i].node = n \/ q[i].node \in Queued(Tail(q))
    BY <1>2, <2>1 DEF Queued
  <2>3. \A i \in DOMAIN Tail(q) : Tail(q)[i].node \in Queued(q)
    BY <1>2 DEF Queued
  <2>4. n \in Queued(q)
    BY <1>2 DEF Queued
  <2> QED  BY <2>2, <2>3, <2>4 DEF Queued
<1>4. Fits(wf, steps, Tail(q)) /\ (Known(wf, n) => n \in Called(wf, steps)) /\ Head(q).token \in Handed(wf)
  <2>1. \A i \in 1 .. Len(q) - 1 : i + 1 \in DOMAIN q
    BY <1>2
  <2> QED  BY <1>2, <2>1 DEF RunFits, Fits
<1>5. Leads(Todo(wf, q)) /\ ending[r] = "none"
  BY <1>1 DEF RunFits, Front
<1>6. n \in Nodes /\ n # None
  <2>1. Head(q) \in Item
    BY <1>1
  <2>2. n \in Nodes
    BY <2>1 DEF Item
  <2> QED  BY <2>2, EngineAssumption
<1> HIDE DEF q, n
<1>7. CASE Known(wf, n)
  <2>1. here'[r] = n /\ input'[r] = Head(q).token /\ pc'[r] = "mutex"
    BY <1>1, <1>7 DEF NextItem, Goto, q, n
  <2>2. Todo(wf, q) \subseteq Todo(wf, Tail(q)) \cup {n}
    BY <1>3 DEF Todo
  <2>3. Covered(wf', steps', parked' \cup failed', Todo(wf, Tail(q)) \cup {n})
    BY <1>5, <2>2, LeadsOn
  <2>4. /\ Fits(wf', steps', queue'[r]) /\ FitsNode(wf', steps', here'[r])
        /\ input'[r] \in Handed(wf') /\ output'[r] \in Handed(wf')
    <3>1. FitsNode(wf, steps, n)
      BY <1>4, <1>7 DEF FitsNode
    <3> QED  BY <1>1, <1>4, <2>1, <3>1, LeadsOn DEF RunFits
  <2>5. ~Ran(r)' /\ pc'[r] \notin Front \cup {"mark", "save", "unlock"} /\ ending'[r] = "none"
    BY <1>1, <1>5, <2>1 DEF Ran, Front
  <2> QED  BY <1>1, <2>1, <2>3, <2>4, <2>5 DEF RunFits, Leads
<1>8. CASE ~Known(wf, n)
  <2>1. UNCHANGED <<here, input, pc>>
    BY <1>8 DEF NextItem, q, n
  <2>2. Todo(wf, q) \subseteq Todo(wf, Tail(q))
    BY <1>3, <1>8 DEF Todo
  <2>3. Covered(wf', steps', parked' \cup failed', Todo(wf, Tail(q)))
    BY <1>5, <2>2, LeadsOn
  <2>4. /\ Fits(wf', steps', queue'[r]) /\ FitsNode(wf', steps', here'[r])
        /\ input'[r] \in Handed(wf') /\ output'[r] \in Handed(wf')
    BY <1>1, <1>4, <2>1, LeadsOn DEF RunFits
  <2>5. ~Ran(r)' /\ pc'[r] \notin AtHand \cup {"mark", "save", "unlock"} /\ ending'[r] = "none"
    BY <1>1, <1>5, <2>1 DEF Ran, AtHand
  <2> QED  BY <1>1, <2>1, <2>3, <2>4, <2>5 DEF RunFits, Leads
<1> QED  BY <1>7, <1>8

LEMMA PushBackFits ==
    ASSUME Typed, Grows, NEW r \in Runs, RunFits(r), PushBack(r), pc[r] \in {"mutex", "insert"}
    PROVE  RunFits(r)'
<1> DEFINE q == queue[r]
           x == [node |-> here[r], token |-> input[r]]
<1>1. /\ q \in Seq(Item) /\ UNCHANGED <<here, input, output>> /\ wf' = wf
      /\ queue'[r] = Append(q, x)
  BY DEF PushBack, Typed, TypeOK, Grows
<1>2. here[r] \in Nodes /\ here[r] # None
  BY EngineAssumption DEF Typed, AtItsNode
<1>3. x \in Item
  BY <1>2 DEF Item, Typed, TypeOK
<1>4. /\ Len(q) \in Nat /\ DOMAIN q = 1 .. Len(q) /\ DOMAIN Append(q, x) = 1 .. Len(q) + 1
      /\ \A i \in 1 .. Len(q) : Append(q, x)[i] = q[i]
      /\ Append(q, x)[Len(q) + 1] = x
  BY <1>1, <1>3
<1>5. x.node = here[r] /\ x.token = input[r] /\ Known(wf, here[r])
  BY <1>2 DEF RunFits, FitsNode
<1> HIDE DEF q, x
<1>6. Todo(wf, Append(q, x)) = Todo(wf, q) \cup {here[r]}
  <2>1. Queued(Append(q, x)) = Queued(q) \cup {here[r]}
    BY <1>4, <1>5 DEF Queued
  <2> QED  BY <1>5, <2>1 DEF Todo
<1>7. Fits(wf, steps, Append(q, x))
  <2>1. \A i \in 1 .. Len(q) + 1 : i \in 1 .. Len(q) \/ i = Len(q) + 1
    BY <1>4
  <2>2. Fits(wf, steps, q) /\ input[r] \in Handed(wf) /\ here[r] \in Called(wf, steps)
    BY <1>2 DEF RunFits, FitsNode, q
  <2> QED  BY <1>4, <1>5, <2>1, <2>2 DEF Fits
<1>8. Covered(wf', steps', parked' \cup failed', Todo(wf, Append(q, x)))
  <2>1. Leads(Todo(wf, q) \cup {here[r]})
    BY DEF RunFits, AtHand, q
  <2> QED  BY <1>6, <2>1, LeadsOn
<1>9. /\ Fits(wf', steps', queue'[r]) /\ FitsNode(wf', steps', here'[r])
      /\ input'[r] \in Handed(wf') /\ output'[r] \in Handed(wf')
  BY <1>1, <1>7, LeadsOn DEF RunFits
<1>10. /\ ~Ran(r)' /\ pc'[r] \in {"mark", "top"}
       /\ pc'[r] = "mark" => ending'[r] = "failed"
       /\ pc'[r] = "top" => ending'[r] = "none"
  <2>1. pc \in [Runs -> Places] /\ ending \in [Runs -> Endings] /\ ending[r] = "none"
    BY DEF Typed, TypeOK, Places, RunFits, AtHand
  <2> QED  BY <2>1 DEF PushBack, Finish, Goto, Ran
<1>11. queue'[r] # <<>> /\ (pc'[r] = "mark" => Left(r)' = Todo(wf, Append(q, x)))
  <2>1. queue'[r] # <<>>
    BY <1>1, <1>4
  <2> QED  BY <1>1, <2>1 DEF Left
<1> QED  BY <1>1, <1>8, <1>9, <1>10, <1>11 DEF RunFits, Leads, AtHand, Front

\* The call of a node, and the end of it.
LEMMA CallsFit ==
    ASSUME Typed, Grows, steps \subseteq Reached(wf), NEW r \in Runs, RunFits(r),
           Succeeds(r) \/ Parks(r) \/ (At(r, "call") /\ Throws(r))
    PROVE  RunFits(r)'
<1> USE DEF At, Goto, shared, world, locals
<1>0. /\ pc \in [Runs -> Places] /\ ending \in [Runs -> Endings] /\ output \in [Runs -> Tokens]
      /\ pc[r] = "call" /\ ending[r] = "none" /\ here[r] \in Nodes /\ here[r] # None
      /\ wf \in Workflows /\ wf' = wf
  <2>1. pc[r] = "call"
    BY DEF Succeeds, Parks
  <2> QED  BY <2>1, EngineAssumption DEF Typed, TypeOK, AtItsNode, RunFits, AtHand, Places, Grows
<1>1. here[r] \in Called(wf, steps) /\ here[r] \in Reached(wf)
  BY <1>0, CalledReached DEF RunFits, FitsNode
<1>2. Covered(wf', steps', parked' \cup failed', Todo(wf, queue[r]) \cup {here[r]})
  BY <1>0, LeadsOn DEF RunFits, AtHand
<1>3. CASE Succeeds(r)
  <2>1. /\ UNCHANGED <<queue, input, here>> /\ output'[r] = Passed(r)
        /\ pc'[r] = "unlock" /\ ending'[r] = "none" /\ here[r] \in steps'
    BY <1>0, <1>3 DEF Succeeds
  <2>2. Passed(r) \in Handed(wf)
    <3>1. Decides(wf, here[r]) => wf.picks[here[r]] \in Handed(wf)
      BY <1>1 DEF Handed
    <3> QED  BY <3>1 DEF Passed, RunFits
  <2>3. Ran(r)' => here'[r] \in steps' /\ (Decides(wf', here'[r]) => output'[r] = wf'.picks[here'[r]])
    BY <1>0, <2>1 DEF Passed
  <2>4. /\ Fits(wf', steps', queue'[r]) /\ FitsNode(wf', steps', here'[r])
        /\ input'[r] \in Handed(wf') /\ output'[r] \in Handed(wf')
    BY <1>0, <2>1, <2>2, LeadsOn DEF RunFits
  <2>5. pc'[r] \notin Front \cup {"mark", "save"}
    BY <2>1 DEF Front
  <2>6. Leads(Todo(wf, queue[r]) \cup {here[r]})'
    BY <1>0, <1>2, <2>1 DEF Leads
  <2> QED  BY <2>1, <2>3, <2>4, <2>5, <2>6 DEF RunFits
<1>4. CASE Parks(r)
  <2>1. /\ UNCHANGED <<queue, input, here>> /\ output'[r] = input[r]
        /\ pc'[r] = "unlock" /\ ending'[r] = "waiting"
    BY <1>0, <1>4 DEF Parks
  <2>2. ~Ran(r)' /\ pc'[r] \notin Front \cup {"mark", "save"}
    BY <2>1 DEF Ran, Front
  <2>3. /\ Fits(wf', steps', queue'[r]) /\ FitsNode(wf', steps', here'[r])
        /\ input'[r] \in Handed(wf') /\ output'[r] \in Handed(wf')
    BY <1>0, <2>1, LeadsOn DEF RunFits
  <2>4. Leads(Todo(wf, queue[r]) \cup {here[r]})'
    BY <1>0, <1>2, <2>1 DEF Leads
  <2>5. pc'[r] \notin {"idle", "read"} \cup Front \cup (AtHand \ {"unlock"})
    BY <2>1 DEF Front, AtHand
  <2> QED  BY <2>1, <2>2, <2>3, <2>4, <2>5 DEF RunFits
<1>5. CASE At(r, "call") /\ Throws(r)
  <2>1. /\ UNCHANGED <<queue, input, here, output>>
        /\ pc'[r] = "unlock" /\ ending'[r] = "thrown"
    BY <1>0, <1>5 DEF Throws
  <2> QED  BY <1>0, <2>1, Ahead DEF AtHand
<1> QED  BY <1>3, <1>4, <1>5

\* A node that parks or fails stays to be run, or is dropped.
LEMMA DroppedCovers ==
    ASSUME Grows, NEW r \in Runs, Leads(Todo(wf, queue[r]) \cup {here[r]}),
           queue[r] # <<>> => here[r] \in parked' \cup failed'
    PROVE  /\ queue[r] # <<>> => Covered(wf', steps', parked' \cup failed', Todo(wf, queue[r]))
           /\ queue[r] = <<>> => Covered(wf', steps', parked' \cup failed', {here[r]})
<1> DEFINE D == parked' \cup failed'
<1>1. \A S : Todo(wf, queue[r]) \cup {here[r]} \subseteq S => Covered(wf', steps', D, S)
  BY LeadsOn
<1>2. Covered(wf', steps', D \cup {here[r]}, Todo(wf, queue[r]))
  BY <1>1, Covering
<1>3. queue[r] # <<>> => D \cup {here[r]} = D
  OBVIOUS
<1>4. queue[r] = <<>> => Todo(wf, queue[r]) = {}
  BY DEF Todo, Queued
<1> QED  BY <1>1, <1>2, <1>3, <1>4

LEMMA ReleaseMutexFits ==
    ASSUME Typed, Grows, NEW r \in Runs, RunFits(r), ReleaseMutex(r)
    PROVE  RunFits(r)'
<1>1. /\ pc \in [Runs -> Places] /\ input \in [Runs -> Tokens]
      /\ pc[r] = "unlock" /\ here[r] \in Nodes /\ here[r] # None /\ wf' = wf
      /\ ending[r] \in {"none", "quit", "waiting", "failed", "thrown"}
      /\ Leads(Todo(wf, queue[r]) \cup {here[r]})
  BY EngineAssumption DEF ReleaseMutex, At, Typed, TypeOK, AtItsNode, RunFits, AtHand, Places, Grows
<1>2. /\ UNCHANGED <<queue, here, output>> /\ ending' = ending /\ steps' = steps
      /\ input'[r] \in {input[r], None}
      /\ pc'[r] = CASE ending[r] = "none" -> "route" [] ending[r] = "thrown" -> "force"
                 [] OTHER -> "mark"
  BY <1>1 DEF ReleaseMutex, Goto
<1>3. CASE ending[r] = "none"
  <2>1. pc'[r] = "route" /\ Ran(r)
    BY <1>1, <1>2, <1>3 DEF Ran
  <2>2. /\ Fits(wf', steps', queue'[r]) /\ FitsNode(wf', steps', here'[r])
        /\ input'[r] \in Handed(wf') /\ output'[r] \in Handed(wf')
    BY <1>2, Settled
  <2>3. Covered(wf', steps', parked' \cup failed', Todo(wf, queue[r]) \cup {here[r]})
    BY <1>1, LeadsOn
  <2>4. Leads(Todo(wf, queue[r]) \cup {here[r]})'
    BY <1>1, <1>2, <2>3 DEF Leads
  <2>5. here'[r] \in steps' /\ (Decides(wf', here'[r]) => output'[r] = wf'.picks[here'[r]])
    BY <1>1, <1>2, <2>1 DEF RunFits
  <2> QED  BY <1>2, <1>3, <2>1, <2>2, <2>4, <2>5 DEF RunFits, Front
<1>4. CASE ending[r] = "thrown"
  <2>1. pc'[r] = "force"
    BY <1>2, <1>4
  <2> QED  BY <1>2, <2>1, Away
<1>5. CASE ending[r] = "quit"
  <2>1. pc'[r] = "mark" /\ ending'[r] \in Unsaved
    BY <1>2, <1>5 DEF Unsaved
  <2> QED  BY <1>2, <2>1, Away
<1>6. CASE ending[r] \in {"waiting", "failed"}
  <2>1. pc'[r] = "mark" /\ ending'[r] # "completed"
    BY <1>2, <1>6
  <2>2. queue[r] # <<>> => here[r] \in parked' \cup failed'
    BY <1>6 DEF ReleaseMutex, Abandon
  <2>3. /\ queue[r] # <<>> => Covered(wf', steps', parked' \cup failed', Todo(wf, queue[r]))
        /\ queue[r] = <<>> => Covered(wf', steps', parked' \cup failed', {here[r]})
    BY <1>1, <2>2, DroppedCovers
  <2> QED  BY <1>1, <1>2, <2>1, <2>3, Away
<1> QED  BY <1>1, <1>3, <1>4, <1>5, <1>6

LEMMA RefusePortsFits ==
    ASSUME Typed, Grows, NEW r \in Runs, RunFits(r), RefusePorts(r)
    PROVE  RunFits(r)'
<1>1. /\ pc \in [Runs -> Places] /\ ending \in [Runs -> Endings]
      /\ pc[r] = "route" /\ here[r] \in Nodes /\ here[r] # None
      /\ Leads(Todo(wf, queue[r]) \cup {here[r]})
  BY EngineAssumption DEF RefusePorts, At, Typed, TypeOK, AtItsNode, RunFits, AtHand, Places
<1>2. /\ UNCHANGED <<queue, input, here, output>>
      /\ pc'[r] = "mark" /\ ending'[r] = "failed"
      /\ queue[r] # <<>> => here[r] \in parked' \cup failed'
  BY <1>1 DEF RefusePorts, Finish, Goto, Abandon
<1>3. /\ queue[r] # <<>> => Covered(wf', steps', parked' \cup failed', Todo(wf, queue[r]))
      /\ queue[r] = <<>> => Covered(wf', steps', parked' \cup failed', {here[r]})
  BY <1>1, <1>2, DroppedCovers
<1> QED  BY <1>1, <1>2, <1>3, Away
-----------------------------------------------------------------------------
(* The targets of a node *)

\* An arrangement of a set leaves nothing of it out.
LEMMA Arranged ==
    ASSUME NEW S, IsFiniteSet(S), NEW s \in Arrangements(S)
    PROVE  /\ Cardinality(S) \in Nat /\ DOMAIN s = 1 .. Cardinality(S)
           /\ {s[i] : i \in DOMAIN s} = S
<1> DEFINE m == Cardinality(S)
<1>1. m \in Nat
  BY FS_CardinalityType
<1>2. IsFiniteSet(1 .. m) /\ Cardinality(1 .. m) = m
  BY <1>1, FS_Interval
<1>3. s \in [1 .. m -> S] /\ \A i, j \in 1 .. m : s[i] = s[j] => i = j
  BY DEF Arrangements
<1> HIDE DEF m
<1>4. s \in Injection(1 .. m, S)
  BY <1>3 DEF Injection, IsInjective
<1>5. s \in Surjection(1 .. m, S)
  BY <1>2, <1>4, FS_Injection DEF m
<1>6. \A t \in S : \E i \in 1 .. m : s[i] = t
  BY <1>5 DEF Surjection
<1>7. {s[i] : i \in 1 .. m} = S
  BY <1>3, <1>6
<1> QED  BY <1>1, <1>3, <1>7 DEF m

\* A node that has run fires ports of the edges that are taken, and on a straight
\* workflow all of them.
LEMMA FiresWhatIsTaken ==
    ASSUME NEW w \in Workflows, NEW n \in Reached(w) \cap Nodes, NEW t \in Handed(w),
           Decides(w, n) => t = w.picks[n]
    PROVE  LET known == {m \in Targets(w, n, Fired(w, n, t)) : Known(w, m)}
           IN /\ known \subseteq GraphOf[w].next[n]
              /\ Straight(w) => known = GraphOf[w].next[n]
<1>1. w.ports[n] \in Seq(Seq(Nodes)) /\ w \in Workflow
  BY Constants DEF Workflow
<1>2. Targets(w, n, Taken(w, n)) \subseteq Nodes
  <2>1. \A p \in DOMAIN w.ports[n] : w.ports[n][p] \in Seq(Nodes)
    BY <1>1
  <2>2. Taken(w, n) \subseteq DOMAIN w.ports[n]
    BY DEF Taken
  <2>3. ASSUME NEW a \in Positions(w, n, Taken(w, n))
        PROVE  w.ports[n][a[1]][a[2]] \in Nodes
    <3>1. a[1] \in DOMAIN w.ports[n] /\ a[2] \in DOMAIN w.ports[n][a[1]]
      BY <2>2 DEF Positions
    <3>2. w.ports[n][a[1]] \in Seq(Nodes)
      BY <2>1, <3>1
    <3> QED  BY <3>1, <3>2
  <2> QED  BY <2>3 DEF Targets
<1>3. {m \in Targets(w, n, Taken(w, n)) : Known(w, m)} = GraphOf[w].next[n]
  BY <1>2, FollowsKnown
<1>4. CASE Decides(w, n) \/ t = None
  <2>1. Fired(w, n, t) = Taken(w, n)
    BY <1>4 DEF Fired, Taken, Decides
  <2> QED  BY <1>3, <2>1
<1>5. CASE ~Decides(w, n) /\ t # None
  <2>1. Fired(w, n, t) \subseteq Taken(w, n)
    BY <1>5 DEF Fired, Taken
  <2>2. Positions(w, n, Fired(w, n, t)) \subseteq Positions(w, n, Taken(w, n))
    BY <2>1 DEF Positions
  <2>3. Targets(w, n, Fired(w, n, t)) \subseteq Targets(w, n, Taken(w, n))
    BY <2>2 DEF Targets
  <2>4. Straight(w) => {m \in Targets(w, n, Fired(w, n, t)) : Known(w, m)} = GraphOf[w].next[n]
    BY <1>5, GraphShape DEF Straight
  <2> QED  BY <1>3, <2>3, <2>4
<1> QED  BY <1>4, <1>5

\* What is queued after a node has run: all it was, and all that it calls.
LEMMA Routed ==
    ASSUME Typed, steps \subseteq Reached(wf), NEW r \in Runs, RunFits(r), Route(r)
    PROVE  /\ wf \in Workflows /\ here[r] \in Nodes \cap steps /\ here[r] # None
           /\ Fits(wf, steps, queue'[r])
           /\ Straight(wf) =>
                Todo(wf, queue[r]) \cup GraphOf[wf].next[here[r]] \subseteq Todo(wf, queue'[r])
<1> DEFINE n == here[r]
           t == output[r]
           q == queue[r]
           Old == Queued(q)
           New == Missing(wf, n, Fired(wf, n, t), q)
<1>1. /\ wf \in Workflows /\ wf \in Workflow /\ n \in Nodes /\ n # None /\ q \in Seq(Item)
      /\ pc[r] = "route" /\ queue \in [Runs -> Seq(Item)]
  BY EngineAssumption DEF Route, At, Typed, TypeOK, AtItsNode
<1>2. /\ n \in steps /\ (Decides(wf, n) => t = wf.picks[n]) /\ t \in Handed(wf)
      /\ Fits(wf, steps, q)
  BY <1>1 DEF RunFits, Ran
<1>3. New \subseteq Nodes
  BY <1>1 DEF Missing, Targets, Positions, Fired, Workflow
<1>4. PICK s \in Arrangements(New) : queue' = [queue EXCEPT ![r] =
          @ \o [i \in DOMAIN s |-> [node |-> s[i], token |-> output[r]]]]
  BY DEF Route
<1>5. /\ Cardinality(New) \in Nat /\ DOMAIN s = 1 .. Cardinality(New)
      /\ {s[i] : i \in DOMAIN s} = New
  <2>1. IsFiniteSet(New)
    BY <1>3, EngineAssumption, FS_Subset
  <2> QED  BY <2>1, Arranged
<1>6. LET known == {m \in Targets(wf, n, Fired(wf, n, t)) : Known(wf, m)}
      IN /\ known \subseteq GraphOf[wf].next[n]
         /\ Straight(wf) => known = GraphOf[wf].next[n]
  BY <1>1, <1>2, FiresWhatIsTaken
<1>7. New = Targets(wf, n, Fired(wf, n, t)) \ Old
  BY DEF Missing
<1> DEFINE k == Len(q)
           c == Cardinality(New)
           L == [i \in DOMAIN s |-> [node |-> s[i], token |-> t]]
<1>8. /\ queue'[r] = q \o L /\ k \in Nat /\ c \in Nat /\ DOMAIN q = 1 .. k
      /\ DOMAIN s = 1 .. c
  BY <1>1, <1>4, <1>5
<1> HIDE DEF n, t, q, New, Old, k, c
<1>9. /\ DOMAIN (q \o L) = 1 .. k + c
      /\ \A i \in 1 .. k : (q \o L)[i] = q[i]
      /\ \A i \in 1 .. c : (q \o L)[k + i].node = s[i] /\ (q \o L)[k + i].token = t
      /\ \A i \in 1 .. k + c : i \in 1 .. k \/ i - k \in 1 .. c
  <2>1. L \in Seq(Item) /\ Len(L) = c
    <3>1. s \in [1 .. c -> New] /\ New \in SUBSET Nodes
      BY <1>3, <1>4 DEF Arrangements, c
    <3>2. t \in Tokens
      BY DEF Typed, TypeOK, t
    <3>3. L \in Seq(Item)
      BY <1>8, <3>1, <3>2, LabelledType
    <3> QED  BY <1>8, <3>3
  <2>2. q \in Seq(Item) /\ Len(q) = k /\ k \in Nat /\ c \in Nat
    BY <1>1, <1>8 DEF q, k
  <2>3. \A i \in 1 .. c : L[i].node = s[i] /\ L[i].token = t
    BY <1>8
  <2> HIDE DEF L
  <2>4. \A i \in 1 .. c : (q \o L)[k + i] = L[i]
    BY <2>1, <2>2
  <2>5. DOMAIN (q \o L) = 1 .. k + c /\ \A i \in 1 .. k : (q \o L)[i] = q[i]
    BY <2>1, <2>2
  <2>6. \A i \in 1 .. k + c : i \in 1 .. k \/ i - k \in 1 .. c
    BY <2>2
  <2> QED  BY <2>3, <2>4, <2>5, <2>6
<1> HIDE DEF L
<1>10. Queued(q \o L) = Old \cup New
  <2>1. \A i \in 1 .. k + c : (q \o L)[i].node \in Old \cup New
    <3>1. ASSUME NEW i \in 1 .. k
          PROVE  (q \o L)[i].node \in Old
      BY <1>8, <1>9 DEF Queued, Old
    <3>2. ASSUME NEW i \in 1 .. k + c, i - k \in 1 .. c
          PROVE  (q \o L)[i].node \in New
      <4>1. k + (i - k) = i
        BY <1>8
      <4> QED  BY <1>5, <1>8, <1>9, <3>2, <4>1
    <3> QED  BY <1>9, <3>1, <3>2
  <2>2. ASSUME NEW m \in Old
        PROVE  m \in Queued(q \o L)
    <3>1. PICK i \in 1 .. k : m = q[i].node
      BY <1>8 DEF Old, Queued
    <3>2. i \in 1 .. k + c
      BY <1>8
    <3> QED  BY <1>9, <3>1, <3>2 DEF Queued
  <2>3. ASSUME NEW m \in New
        PROVE  m \in Queued(q \o L)
    <3>1. PICK i \in 1 .. c : m = s[i]
      BY <1>5, <1>8
    <3>2. k + i \in 1 .. k + c
      BY <1>8
    <3> QED  BY <1>9, <3>1, <3>2 DEF Queued
  <2> QED  BY <1>9, <2>1, <2>2, <2>3 DEF Queued
<1>11. Straight(wf) => Todo(wf, q) \cup GraphOf[wf].next[n] \subseteq Todo(wf, q \o L)
  BY <1>6, <1>7, <1>10 DEF Todo, Old
<1>12. Fits(wf, steps, q \o L)
  <2>1. ASSUME NEW i \in 1 .. k
        PROVE  /\ Known(wf, (q \o L)[i].node) => (q \o L)[i].node \in Called(wf, steps)
               /\ (q \o L)[i].token \in Handed(wf)
    BY <1>2, <1>8, <1>9 DEF Fits
  <2>2. ASSUME NEW i \in 1 .. c
        PROVE  /\ Known(wf, (q \o L)[k + i].node) => (q \o L)[k + i].node \in Called(wf, steps)
               /\ (q \o L)[k + i].token \in Handed(wf)
    <3>1. s[i] \in New
      BY <1>5, <1>8
    <3>2. Known(wf, s[i]) => s[i] \in GraphOf[wf].next[n]
      BY <1>6, <1>7, <3>1
    <3> QED  BY <1>2, <1>9, <3>2 DEF Called
  <2>3. ASSUME NEW i \in 1 .. k + c, i - k \in 1 .. c
        PROVE  /\ Known(wf, (q \o L)[i].node) => (q \o L)[i].node \in Called(wf, steps)
               /\ (q \o L)[i].token \in Handed(wf)
    <3>1. k + (i - k) = i
      BY <1>8
    <3> QED  BY <2>2, <2>3, <3>1
  <2> QED  BY <1>9, <2>1, <2>3 DEF Fits
<1> QED  BY <1>1, <1>2, <1>8, <1>11, <1>12 DEF n, q

\* Whatever leads on from what is queued leads on from the checkpoint of it.
LEMMA CheckpointFits ==
    ASSUME NEW q, NEW n, NEW t, wf \in Workflows, saved' = [node |-> n, token |-> t, queue |-> q],
           wf' = wf, UNCHANGED <<steps, parked, failed>>,
           Fits(wf, steps, q), FitsNode(wf, steps, n), t \in Handed(wf),
           q # <<>> => Leads(Todo(wf, q)),
           q = <<>> => Leads({}) \/ (n # None /\ Leads({n}))
    PROVE  SavedFits'
<1>1. saved'.node = n /\ saved'.token = t /\ saved'.queue = q
  OBVIOUS
<1>2. \A S : Leads(S) => Covered(wf', steps', parked' \cup failed', S)
  BY DEF Leads
<1>3. Covered(wf', steps', parked' \cup failed', Todo(wf, SeedOf(wf, saved')))
  <2>1. CASE q # <<>>
    BY <1>1, <1>2, <2>1 DEF SeedOf
  <2>2. CASE q = <<>> /\ Leads({})
    BY <1>2, <2>2, Covering
  <2>3. CASE q = <<>> /\ n # None /\ Leads({n})
    <3>1. SeedOf(wf, saved') = <<[node |-> n, token |-> t]>>
      BY <1>1, <2>3 DEF SeedOf
    <3>2. Queued(<<[node |-> n, token |-> t]>>) = {n}
      BY DEF Queued
    <3>3. Todo(wf, SeedOf(wf, saved')) = {n}
      BY <2>3, <3>1, <3>2 DEF Todo, FitsNode
    <3> QED  BY <1>2, <2>3, <3>3
  <2> QED  BY <2>1, <2>2, <2>3
<1> QED  BY <1>1, <1>3 DEF SavedFits, Leads

LEMMA RouteFits ==
    ASSUME Typed, steps \subseteq Reached(wf), NEW r \in Runs, RunFits(r), Route(r)
    PROVE  RunFits(r)' /\ SavedFits'
<1>1. /\ wf \in Workflows /\ here[r] \in Nodes \cap steps /\ here[r] # None
      /\ Fits(wf, steps, queue'[r])
      /\ Straight(wf) =>
           Todo(wf, queue[r]) \cup GraphOf[wf].next[here[r]] \subseteq Todo(wf, queue'[r])
  BY Routed
<1>2. /\ pc[r] = "route" /\ pc'[r] = "top" /\ wf' = wf
      /\ UNCHANGED <<steps, parked, failed, input, here, output, ending>>
      /\ saved' = [node |-> here[r], token |-> output[r], queue |-> queue'[r]]
  <2>1. pc \in [Runs -> Places]
    BY DEF Typed, TypeOK, Places
  <2> QED  BY <2>1 DEF Route, At, Goto, world
<1>3. Leads(Todo(wf, queue[r]) \cup {here[r]}) /\ ending[r] = "none"
  BY <1>2 DEF RunFits, AtHand
<1>4. Leads(Todo(wf, queue'[r]))
  <2>1. CASE Straight(wf)
    BY <1>1, <1>3, <2>1, CoveringStep DEF Leads
  <2>2. CASE ~Straight(wf)
    BY <2>2 DEF Leads, Covered
  <2> QED  BY <2>1, <2>2
<1>5. FitsNode(wf, steps, here[r]) /\ output[r] \in Handed(wf) /\ input[r] \in Handed(wf)
  BY DEF RunFits
<1>6. RunFits(r)'
  <2>1. Leads(Todo(wf, queue'[r])) => Leads(Todo(wf, queue[r]))'
    BY <1>2 DEF Leads
  <2>2. ~Ran(r)' /\ pc'[r] \notin AtHand \cup {"mark", "save", "unlock"}
    BY <1>2 DEF Ran, AtHand
  <2> QED  BY <1>1, <1>2, <1>3, <1>4, <1>5, <2>1, <2>2 DEF RunFits
<1>7. SavedFits'
  <2>0. Todo(wf, <<>>) = {}
    BY DEF Todo, Queued
  <2>1. queue'[r] = <<>> => Leads({})
    BY <1>4, <2>0
  <2> DEFINE q == queue'[r]
  <2> HIDE DEF q
  <2>2. /\ saved' = [node |-> here[r], token |-> output[r], queue |-> q]
        /\ Fits(wf, steps, q) /\ Leads(Todo(wf, q)) /\ (q = <<>> => Leads({}))
    BY <1>1, <1>2, <1>4, <2>1 DEF q
  <2> QED  BY <1>1, <1>2, <1>5, <2>2, CheckpointFits
<1> QED  BY <1>6, <1>7

LEMMA SaveCheckpointFits ==
    ASSUME Typed, NEW r \in Runs, RunFits(r), SaveCheckpoint(r)
    PROVE  SavedFits'
<1>1. /\ pc[r] = "save" /\ wf \in Workflows /\ wf' = wf /\ UNCHANGED <<steps, parked, failed>>
      /\ ending[r] \notin Unsaved
      /\ saved' = [node |-> here[r], token |-> output[r], queue |-> queue[r]]
  BY DEF SaveCheckpoint, At, Typed, TypeOK, world, RunFits
<1>2. /\ Leads(Left(r))
      /\ ending[r] = "completed" => queue[r] = <<>>
      /\ queue[r] = <<>> /\ ending[r] # "completed" => here[r] # None
  BY <1>1 DEF RunFits
<1>3. queue[r] # <<>> => Leads(Todo(wf, queue[r]))
  BY <1>2 DEF Left
<1>4. queue[r] = <<>> => Leads({}) \/ (here[r] # None /\ Leads({here[r]}))
  BY <1>2 DEF Left
<1>5. Fits(wf, steps, queue[r]) /\ FitsNode(wf, steps, here[r]) /\ output[r] \in Handed(wf)
  BY DEF RunFits
<1> QED  BY <1>1, <1>3, <1>4, <1>5, CheckpointFits
-----------------------------------------------------------------------------
(* The invariant *)

LEMMA OthersStay ==
    ASSUME Typed, NEW r \in Runs, Begin(r) \/ Walk(r)
    PROVE  \A q \in Runs \ {r} : Same(q)
<1>0. /\ pc \in [Runs -> Places] /\ queue \in [Runs -> Seq(Item)] /\ input \in [Runs -> Tokens]
      /\ here \in [Runs -> Nodes \cup {None}] /\ output \in [Runs -> Tokens]
      /\ ending \in [Runs -> Endings]
  BY DEF Typed, TypeOK, Places
<1> USE DEF Same, At, Goto, shared, world, locals
<1>1. CASE StartJob(r) \/ AskResume(r) \/ ReadCheckpoint(r) \/ ResetControl(r)
           \/ InitializeExecution(r) \/ TakeLock(r)
  BY <1>0, <1>1 DEF StartJob, AskResume, ReadCheckpoint, ResetControl, InitializeExecution, TakeLock
<1>2. CASE ReadLock(r) \/ ReleaseLock(r)
  BY <1>0, <1>2 DEF ReadLock, ReleaseLock, Forget
<1>3. CASE OverBudget(r) \/ TooManyLaps(r) \/ ObeyControl(r) \/ NextItem(r) \/ Complete(r)
  BY <1>0, <1>3 DEF OverBudget, TooManyLaps, ObeyControl, NextItem, Complete, Finish
<1>4. CASE ReadMutex(r) \/ InsertMutex(r) \/ UpdateMutex(r) \/ MarkRunning(r)
  BY <1>0, <1>4 DEF ReadMutex, InsertMutex, UpdateMutex, MarkRunning, PushBack, Finish
<1>5. CASE Attempt(r) \/ Succeeds(r) \/ Parks(r) \/ Fails(r) \/ Throws(r)
  BY <1>0, <1>5 DEF Attempt, Succeeds, Parks, Fails, Throws, Finish
<1>6. CASE ReleaseMutex(r) \/ RefusePorts(r) \/ WriteState(r) \/ SaveCheckpoint(r) \/ ForceFail(r)
  BY <1>0, <1>6 DEF ReleaseMutex, RefusePorts, WriteState, SaveCheckpoint, ForceFail, Finish
<1>7. CASE Route(r)
  <2>1. /\ \E q : queue' = [queue EXCEPT ![r] = q]
        /\ UNCHANGED <<input, here, output, ending>> /\ pc' = [pc EXCEPT ![r] = "top"]
    BY <1>7 DEF Route
  <2> QED  BY <1>0, <2>1
<1> QED  BY <1>1, <1>2, <1>3, <1>4, <1>5, <1>6, <1>7 DEF Begin, Walk

\* What the steps of an invocation do to its own part, and to the checkpoint.
LEMMA OwnPart ==
    ASSUME Typed, OnGraph, Grows, NEW r \in Runs, Begin(r) \/ Walk(r)
    PROVE  RunFits(r)' /\ SavedFits'
<1>1. RunFits(r) /\ SavedFits /\ steps \subseteq Reached(wf)
  BY DEF OnGraph
<1> USE DEF shared, world, locals
<1>2. CASE Route(r)
  BY <1>1, <1>2, RouteFits
<1>3. CASE SaveCheckpoint(r)
  BY <1>1, <1>3, SaveCheckpointFits, ReturnsFit
<1>4. CASE (Begin(r) \/ Walk(r)) /\ ~Route(r) /\ ~SaveCheckpoint(r)
  <2>1. saved' = saved
    BY <1>4 DEF Begin, StartJob, AskResume, Walk, ReadCheckpoint, ResetControl,
                InitializeExecution, ReadLock, TakeLock, OverBudget, TooManyLaps, ObeyControl,
                NextItem, Complete, ReadMutex, PushBack, InsertMutex, UpdateMutex, MarkRunning,
                Attempt, Succeeds, Parks, Fails, Throws, ReleaseMutex, RefusePorts, WriteState,
                ForceFail, ReleaseLock
  <2>2. SavedFits'
    BY <1>1, <2>1, SavedStands
  <2>3. CASE \/ ResetControl(r) \/ InitializeExecution(r) \/ ReadLock(r) \/ TakeLock(r)
             \/ UpdateMutex(r) \/ MarkRunning(r) \/ Attempt(r) \/ Fails(r)
             \/ AskResume(r) \/ ReleaseLock(r)
    BY <1>1, <2>2, <2>3, MovesFit
  <2>4. CASE StartJob(r) \/ ReadCheckpoint(r)
    BY <1>1, <2>2, <2>4, BeginningsFit
  <2>5. CASE OverBudget(r) \/ TooManyLaps(r) \/ ObeyControl(r) \/ Complete(r)
             \/ WriteState(r) \/ ForceFail(r)
    BY <1>1, <2>2, <2>5, ReturnsFit
  <2>6. CASE NextItem(r)
    BY <1>1, <2>2, <2>6, NextItemFits
  <2>7. CASE ReadMutex(r)
    <3>1. pc[r] = "mutex"
      BY <2>7 DEF ReadMutex, At
    <3>2. CASE mutex[here[r]] \in Processes \ {Me(r)}
      <4>1. PushBack(r)
        BY <2>7, <3>2 DEF ReadMutex
      <4> QED  BY <1>1, <2>2, <3>1, <4>1, PushBackFits
    <3> QED  BY <1>1, <2>2, <2>7, <3>2, MovesFit
  <2>8. CASE InsertMutex(r)
    <3>1. pc[r] = "insert"
      BY <2>8 DEF InsertMutex, At
    <3>2. CASE mutex[here[r]] # "absent"
      <4>1. PushBack(r)
        BY <2>8, <3>2 DEF InsertMutex
      <4> QED  BY <1>1, <2>2, <3>1, <4>1, PushBackFits
    <3> QED  BY <1>1, <2>2, <2>8, <3>2, MovesFit
  <2>9. CASE Succeeds(r) \/ Parks(r)
    BY <1>1, <2>2, <2>9, CallsFit
  <2>10. CASE Throws(r)
    <3>1. At(r, "call") \/ (At(r, "top") /\ queue[r] # <<>>)
      BY <2>10 DEF Throws
    <3> QED  BY <1>1, <2>2, <2>10, <3>1, CallsFit, ReturnsFit
  <2>11. CASE ReleaseMutex(r)
    BY <1>1, <2>2, <2>11, ReleaseMutexFits
  <2>12. CASE RefusePorts(r)
    BY <1>1, <2>2, <2>12, RefusePortsFits
  <2> QED
    BY <1>4, <2>3, <2>4, <2>5, <2>6, <2>7, <2>8, <2>9, <2>10, <2>11, <2>12 DEF Begin, Walk
<1> QED  BY <1>2, <1>3, <1>4

\* A node that runs is one that was called.
LEMMA StepsCalled ==
    ASSUME Typed, OnGraph, NEW r \in Runs, Succeeds(r)
    PROVE  here[r] \in Nodes /\ here[r] \in Called(wf, steps) /\ here[r] \in Reached(wf)
<1>1. here[r] \in Nodes /\ here[r] # None /\ wf \in Workflows
  BY EngineAssumption DEF Succeeds, At, Typed, TypeOK, AtItsNode
<1>2. here[r] \in Called(wf, steps)
  BY <1>1 DEF OnGraph, RunFits, FitsNode
<1> QED  BY <1>1, <1>2, CalledReached DEF OnGraph

LEMMA StepsStay ==
    ASSUME NEW r \in Runs, Begin(r) \/ Walk(r), ~Succeeds(r)
    PROVE  steps' = steps
BY DEF Begin, StartJob, AskResume, Walk, ReadCheckpoint, ResetControl,
       InitializeExecution, ReadLock, TakeLock, OverBudget, TooManyLaps, ObeyControl,
       NextItem, Complete, ReadMutex, PushBack, InsertMutex, UpdateMutex, MarkRunning,
       Attempt, Parks, Fails, Throws, ReleaseMutex, RefusePorts, Route, WriteState,
       SaveCheckpoint, ForceFail, ReleaseLock, shared, world

LEMMA EnvironmentStays ==
    ASSUME Typed, Environment
    PROVE  /\ UNCHANGED <<steps, parked, failed, saved>>
           /\ \A q \in Runs : Same(q) \/ Gone(q)
<1> USE DEF shared, world, locals
<1>1. UNCHANGED <<steps, parked, failed, saved>>
  BY DEF Environment, PauseFlags, CancelFlags, OperatorRow, BecomeReady, MutexLapses, Crash,
         LockLapses
<1>2. CASE UNCHANGED locals
  BY <1>1, <1>2 DEF Same
<1>3. ASSUME NEW p \in Processes, Crash(p)
      PROVE  \A q \in Runs : Same(q) \/ Gone(q)
  <2>0. pc \in [Runs -> Places]
    BY DEF Typed, TypeOK, Places
  <2>1. ASSUME NEW q \in Runs, Me(q) # p
        PROVE  Same(q)
    BY <1>3, <2>0, <2>1 DEF Crash, Forget, Same
  <2>2. ASSUME NEW q \in Runs, Me(q) = p
        PROVE  Gone(q)
    BY <1>3, <2>0, <2>2 DEF Crash, Forget, Gone, Places, Over
  <2> QED  BY <2>1, <2>2
<1> QED  BY <1>1, <1>2, <1>3 DEF Environment, PauseFlags, CancelFlags, OperatorRow, BecomeReady,
                                 MutexLapses, LockLapses

LEMMA OnGraphStep ==
    ASSUME Typed, OnGraph, [Next]_vars
    PROVE  OnGraph'
<1>1. Grows /\ wf' = wf
  BY EveryStepGrows DEF Grows
<1>2. CASE UNCHANGED vars
  <2>1. saved' = saved /\ steps' = steps /\ \A q \in Runs : Same(q)
    BY <1>2 DEF vars, shared, world, locals, Same
  <2> QED  BY <1>1, <2>1, RunStands, SavedStands DEF OnGraph
<1>3. ASSUME NEW r \in Runs, Begin(r) \/ Walk(r)
      PROVE  OnGraph'
  <2>1. RunFits(r)' /\ SavedFits'
    BY <1>1, <1>3, OwnPart
  <2>2. \A q \in Runs \ {r} : RunFits(q)'
    BY <1>1, <1>3, OthersStay, RunStands DEF OnGraph
  <2>3. steps' \subseteq Reached(wf)
    <3>1. CASE Succeeds(r)
      <4>1. steps' = steps \cup {here[r]}
        BY <3>1 DEF Succeeds
      <4> QED  BY <3>1, <4>1, StepsCalled DEF OnGraph
    <3>2. CASE ~Succeeds(r)
      BY <1>3, <3>2, StepsStay DEF OnGraph
    <3> QED  BY <3>1, <3>2
  <2>4. steps' \subseteq Reached(wf')
    BY <1>1, <2>3
  <2> QED  BY <2>1, <2>2, <2>4 DEF OnGraph
<1>4. CASE Environment
  <2>1. saved' = saved /\ steps' = steps /\ \A q \in Runs : Same(q) \/ Gone(q)
    BY <1>4, EnvironmentStays
  <2>2. \A q \in Runs : RunFits(q)'
    BY <1>1, <2>1, RunStands, GoneFits DEF OnGraph
  <2>3. SavedFits'
    BY <1>1, <2>1, SavedStands DEF OnGraph
  <2> QED  BY <1>1, <2>1, <2>2, <2>3 DEF OnGraph
<1> QED  BY <1>2, <1>3, <1>4 DEF Next

LEMMA OnGraphInitially ==
    ASSUME Init
    PROVE  OnGraph
<1>1. wf \in Workflows /\ steps = {} /\ parked = {} /\ failed = {} /\ saved = NoCheckpoint
  BY DEF Init
<1>2. SavedFits
  <2>1. SeedOf(wf, saved) = Items(StartNodes(wf))
    BY <1>1 DEF SeedOf, NoCheckpoint
  <2>2. Fits(wf, steps, <<>>) /\ FitsNode(wf, steps, None) /\ None \in Handed(wf)
    BY DEF Fits, FitsNode, Handed
  <2> QED  BY <1>1, <2>1, <2>2, StartsFit DEF SavedFits, Leads, NoCheckpoint
<1>3. ASSUME NEW r \in Runs
      PROVE  RunFits(r)
  BY DEF Init, RunFits, Fits, FitsNode, Handed, Ran, Front, AtHand
<1> QED  BY <1>1, <1>2, <1>3 DEF OnGraph
-----------------------------------------------------------------------------
(* Theorems *)

LEMMA GraphInduction == Spec => [](Typed /\ OnGraph)
<1>1. Init => Typed /\ OnGraph
  BY TypedInitially, OnGraphInitially
<1>2. Typed /\ OnGraph /\ [Next]_vars => (Typed /\ OnGraph)'
  BY TypeStep, OnGraphStep
<1> QED  BY <1>1, <1>2, PTL DEF Spec

\* On a straight workflow, a resume from the latest checkpoint leads at every
\* moment to all that has still to run: the checkpoint of a node that completed,
\* of one that parked, and of a run that was paused, failed or ran out of time.
THEOREM CheckpointsComplete == Spec => [](Straight(wf) => CheckpointsLoseNothing)
<1>1. Typed /\ OnGraph => (Straight(wf) => CheckpointsLoseNothing)
  <2> SUFFICES ASSUME Typed, OnGraph, Straight(wf)
               PROVE  CheckpointsLoseNothing
    OBVIOUS
  <2>1. Seed = SeedOf(wf, saved)
    BY DEF Seed, SeedOf
  <2>2. Leads(Queued(SeedOf(wf, saved)))
    <3>1. Todo(wf, SeedOf(wf, saved)) \subseteq Queued(SeedOf(wf, saved))
      BY DEF Todo
    <3> QED  BY <3>1, Covering DEF OnGraph, SavedFits, Leads
  <2>3. \A S : Walked!Beyond(S) = Beyond(wf, S)
    BY DEF Walked!Beyond, Graph, Beyond
  <2> QED  BY <2>1, <2>2, <2>3 DEF CheckpointsLoseNothing, Leads, Covered, Graph
<1> QED  BY <1>1, GraphInduction, PTL

\* What of a step the walk of the graph can see.
LEMMA VisibleSteps ==
    ASSUME [Next]_vars
    PROVE  \/ \E r \in Runs : Succeeds(r) \/ ReleaseMutex(r) \/ RefusePorts(r) \/ WriteState(r)
           \/ /\ UNCHANGED <<wf, steps, parked, failed>>
              /\ status' = status \/ status' # "success"
<1> USE DEF shared, world, locals
<1>1. CASE UNCHANGED vars
  BY <1>1 DEF vars
<1>2. ASSUME NEW r \in Runs, Begin(r)
      PROVE  UNCHANGED <<wf, steps, parked, failed, status>>
  BY <1>2 DEF Begin, StartJob, AskResume
<1>3. ASSUME NEW r \in Runs, Walk(r), ~Succeeds(r), ~ReleaseMutex(r), ~RefusePorts(r), ~WriteState(r)
      PROVE  /\ UNCHANGED <<wf, steps, parked, failed>>
             /\ status' = status \/ status' # "success"
  BY <1>3 DEF Walk, ReadCheckpoint, ResetControl, InitializeExecution, ReadLock, TakeLock,
              OverBudget, TooManyLaps, ObeyControl, NextItem, Complete, ReadMutex, PushBack,
              InsertMutex, UpdateMutex, MarkRunning, Attempt, Parks, Fails, Throws,
              Route, SaveCheckpoint, ForceFail, ReleaseLock
<1>4. CASE Environment
  BY <1>4 DEF Environment, PauseFlags, CancelFlags, OperatorRow, BecomeReady, MutexLapses, Crash,
              LockLapses
<1> QED  BY <1>1, <1>2, <1>3, <1>4 DEF Next

LEMMA WalkMaps ==
    ASSUME Typed, OnGraph, Straight(wf), [Next]_vars
    PROVE  [Walked!Next]_(Walked!vars)
<1> DEFINE D == parked \cup failed
           O == IF status = "success" THEN "success" ELSE "open"
<1>1. wf' = wf /\ wf \in Workflows /\ GraphOf[wf'] = GraphOf[wf]
  BY EveryStepGrows DEF Grows, Typed, TypeOK
<1>2. Walked!Called = Called(wf, steps)
  BY DEF Walked!Called, Graph, Called
<1>3. ASSUME NEW n \in Nodes, n \in Called(wf, steps), steps' = steps \cup {n},
             UNCHANGED <<status, parked, failed>>
      PROVE  Walked!Visit(n)
  BY <1>1, <1>2, <1>3 DEF Walked!Visit, Graph
<1>4. ASSUME NEW n \in Nodes, n \in Called(wf, steps), parked' \cup failed' = parked \cup failed \cup {n},
             UNCHANGED <<status, steps>>
      PROVE  Walked!Drop(n)
  BY <1>1, <1>2, <1>4 DEF Walked!Drop, Graph
<1>5. ASSUME UNCHANGED <<steps, parked, failed>>, status' = status \/ status' # "success"
      PROVE  Walked!Reopen \/ UNCHANGED Walked!vars
  BY <1>1, <1>5 DEF Walked!Reopen, Walked!vars, Graph
<1>6. ASSUME UNCHANGED <<steps, parked, failed>>, status' = "success", Leads({})
      PROVE  Walked!Succeed
  <2>1. Beyond(wf, {}) = {}
    BY DEF Beyond
  <2>2. Beyond(wf, GraphOf[wf].starts) \subseteq steps \cup Beyond(wf, parked \cup failed)
    BY <1>6, <2>1 DEF Leads, Covered
  <2>3. \A S : Walked!Beyond(S) = Beyond(wf, S)
    BY DEF Walked!Beyond, Graph, Beyond
  <2> QED  BY <1>1, <1>6, <2>2, <2>3 DEF Walked!Succeed, Graph
<1>7. ASSUME NEW r \in Runs, Succeeds(r)
      PROVE  Walked!Visit(here[r]) /\ here[r] \in Nodes
  <2>1. here[r] \in Nodes /\ here[r] \in Called(wf, steps)
    BY <1>7, StepsCalled
  <2>2. steps' = steps \cup {here[r]} /\ UNCHANGED <<status, parked, failed>>
    BY <1>7 DEF Succeeds
  <2> QED  BY <1>3, <2>1, <2>2
<1>8. ASSUME NEW r \in Runs, ReleaseMutex(r) \/ RefusePorts(r)
      PROVE  UNCHANGED Walked!vars \/ (Walked!Drop(here[r]) /\ here[r] \in Nodes)
  <2>1. here[r] \in Nodes /\ here[r] # None
    BY <1>8, EngineAssumption DEF ReleaseMutex, RefusePorts, At, Typed, AtItsNode
  <2>2. here[r] \in Called(wf, steps)
    BY <2>1 DEF OnGraph, RunFits, FitsNode
  <2>3. UNCHANGED <<status, steps>>
    BY <1>8 DEF ReleaseMutex, RefusePorts
  <2>4. parked' \cup failed' \in {parked \cup failed, parked \cup failed \cup {here[r]}}
    BY <1>8 DEF ReleaseMutex, RefusePorts, Abandon
  <2>5. CASE parked' \cup failed' = parked \cup failed
    BY <1>1, <2>3, <2>5 DEF Walked!vars, Graph
  <2>6. CASE parked' \cup failed' = parked \cup failed \cup {here[r]}
    BY <1>4, <2>1, <2>2, <2>3, <2>6
  <2> QED  BY <2>4, <2>5, <2>6
<1>9. ASSUME NEW r \in Runs, WriteState(r)
      PROVE  Walked!Succeed \/ Walked!Reopen \/ UNCHANGED Walked!vars
  <2>1. UNCHANGED <<steps, parked, failed>> /\ pc[r] = "mark" /\ status' = StatusOf(ending[r])
    BY <1>9 DEF WriteState, At
  <2>2. CASE ending[r] = "completed"
    <3>1. Leads({})
      BY <2>1, <2>2 DEF OnGraph, RunFits, Left, Unsaved
    <3>2. status' = "success"
      BY <2>1, <2>2 DEF StatusOf
    <3> QED  BY <1>6, <2>1, <3>1, <3>2
  <2>3. CASE ending[r] # "completed"
    <3>1. ending[r] \in Endings
      BY DEF Typed, TypeOK
    <3>2. status' # "success"
      BY <2>1, <2>3, <3>1 DEF StatusOf, Endings
    <3> QED  BY <1>5, <2>1, <3>2
  <2> QED  BY <2>2, <2>3
<1> QED  BY <1>5, <1>7, <1>8, <1>9, VisibleSteps DEF Walked!Next

\* On any workflow, a node runs only when it is a start node, or when an edge that
\* was taken leads to it from a node that has run.
THEOREM OnlyCalled == Spec => [][steps' \ steps \subseteq Called(wf, steps)]_vars
<1> DEFINE Asked == steps' \ steps \subseteq Called(wf, steps)
<1>1. Typed /\ OnGraph /\ [Next]_vars => Asked
  <2> SUFFICES ASSUME Typed, OnGraph, [Next]_vars
               PROVE  Asked
    OBVIOUS
  <2>1. ASSUME NEW r \in Runs, Succeeds(r)
        PROVE  Asked
    BY <2>1, StepsCalled DEF Succeeds
  <2>2. ASSUME NEW r \in Runs, ReleaseMutex(r) \/ RefusePorts(r) \/ WriteState(r)
        PROVE  Asked
    BY <2>2 DEF ReleaseMutex, RefusePorts, WriteState
  <2> QED  BY <2>1, <2>2, VisibleSteps
<1> QED  BY <1>1, GraphInduction, PTL DEF Spec

\* On a straight workflow, whoever runs it and however often it is interrupted,
\* the execution is reported as a success only when all that may come of the start
\* nodes has run, dropped nodes and what lies beyond them excepted, and nothing
\* runs that is not called: WorkflowEngine implements GraphWalk.
THEOREM Refinement == Spec /\ Straight(wf) => ImplementsGraphWalk
<1>1. Init => Walked!Init
  BY DEF Init, Walked!Init
<1>2. Straight(wf) /\ [Next]_vars => Straight(wf)'
  BY EveryStepGrows DEF Grows
<1>3. Typed /\ OnGraph /\ Straight(wf) /\ [Next]_vars => [Walked!Next]_(Walked!vars)
  BY WalkMaps
<1> QED  BY <1>1, <1>2, <1>3, GraphInduction, PTL DEF Spec, ImplementsGraphWalk, Walked!Spec
=============================================================================
