-------------------------- MODULE MCWorkflowEngine --------------------------
(* Small workflows that between them have each shape the engine treats apart. *)
EXTENDS WorkflowEngine, TLC

CONSTANTS j1, u1, p1, p2, a, b, c

MCNodes == {a, b, c}
MCProcessOf == j1 :> p1 @@ u1 :> p2

Shape(order, kinds, edges, pick, retries) ==
    [order |-> order,
     kind |-> kinds @@ [n \in MCNodes |-> "action"],
     ports |-> edges @@ [n \in MCNodes |-> <<>>],
     picks |-> [n \in MCNodes |-> pick],
     retries |-> retries]

\* A review with a sibling queued behind it, and a node behind both.
Parallel == Shape(<<a, b, c>>, a :> "review", a :> << <<c>> >> @@ b :> << <<c>> >>, 0, 0)
\* A branch that has no port.
Half == Shape(<<a, b>>, a :> "if", a :> << <<b>> >>, 1, 0)
\* A branch that leads back to its node, and to one that does not exist.
Loop == Shape(<<a>>, a :> "if", a :> << <<>>, <<a, c>> >>, 1, 0)
\* An ordinary node with two ports, behind a trigger's name.
Forked == Shape(<<b, a>>, a :> "trigger", a :> << <<b>>, <<c>> >>, 0, 1)
\* The second branch goes on behind its first node.
LongBranch == Shape(<<a, b, c>>, a :> "if", a :> << <<>>, <<b>> >> @@ b :> << <<c>> >>, 1, 0)
\* A wait in front of a node.
Line == Shape(<<a, b>>, a :> "wait", a :> << <<b>> >>, 0, 0)

MCWorkflows == {Parallel, Line, Half, Loop, Forked}
MCMaxIncidents == Half :> 2 @@ Line :> 1 @@ Forked :> 1 @@ [w \in MCWorkflows \cup {LongBranch} |-> 0]
MCLongBranch == {LongBranch}

\* The theorems about the graph speak of straight workflows.
ASSUME StraightAssumption == \A w \in Workflows : Straight(w) <=> w # LongBranch
=============================================================================
