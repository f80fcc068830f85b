----------------------------- MODULE GraphWalk -----------------------------
(***************************************************************************)
(* What running a workflow means, whoever runs it and however often it is  *)
(* interrupted: a node runs only when it is a start node or an edge that   *)
(* was taken leads to it, and the workflow succeeds only when everything   *)
(* so called has run.  A node may be dropped; what lies beyond it is then  *)
(* excused.                                                                *)
(***************************************************************************)
CONSTANT Nodes

VARIABLES graph,    \* starts: nodes; next: of a node, those called when it has run;
                    \* reach: of a node, itself and all that may come of it
          ran,      \* the nodes that have run to their end
          dropped,  \* the nodes that were called and given up
          outcome   \* "open" or "success"

vars == <<graph, ran, dropped, outcome>>

Beyond(S) == UNION {graph.reach[n] : n \in S}
Called == graph.starts \cup UNION {graph.next[n] : n \in ran}

Init == ran = {} /\ dropped = {} /\ outcome = "open"

Visit(n) == /\ n \in Called
            /\ ran' = ran \cup {n}
            /\ UNCHANGED <<graph, dropped, outcome>>

Drop(n) == /\ n \in Called
           /\ dropped' = dropped \cup {n}
           /\ UNCHANGED <<graph, ran, outcome>>

Succeed == /\ Beyond(graph.starts) \subseteq ran \cup Beyond(dropped)
           /\ outcome' = "success"
           /\ UNCHANGED <<graph, ran, dropped>>

Reopen == outcome' = "open" /\ UNCHANGED <<graph, ran, dropped>>

Next == (\E n \in Nodes : Visit(n) \/ Drop(n)) \/ Succeed \/ Reopen

Spec == Init /\ [][Next]_vars
=============================================================================
