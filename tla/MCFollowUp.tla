----------------------------- MODULE MCFollowUp -----------------------------
(* Up to three follow-up nodes and two cron requests at a time. *)
EXTENDS FollowUp, TLC

CONSTANTS s1, s2, v1, v2, a, b, c, p, q, x, y, z

Apart == s1 :> v1 @@ s2 :> v2
Together == s1 :> v1 @@ s2 :> v1
Plan(home, seqs, keys, n, polling, size, f) ==
    [home |-> home, seq |-> a :> seqs[1] @@ b :> seqs[2] @@ c :> s1,
     attempt |-> a :> keys[1] @@ b :> keys[2] @@ c :> z,
     calls |-> a :> n[1] @@ b :> n[2] @@ c :> n[3],
     polling |-> polling, mail |-> size, faults |-> f]
ThreeNodes == Plan(Apart, <<s1, s1>>, <<x, y>>, <<1, 1, 1>>, {}, 2, 0)
TwoNodes == Plan(Apart, <<s1, s1>>, <<x, y>>, <<1, 1, 0>>, {p}, 2, 0)
\* Two processes that run the same node.
SameNode == Plan(Apart, <<s1, s1>>, <<x, x>>, <<2, 1, 0>>, {p}, 2, 0)
OneNode == Plan(Apart, <<s1, s1>>, <<x, y>>, <<2, 0, 0>>, {p}, 2, 1)
TwoSequences == Plan(Together, <<s1, s2>>, <<x, y>>, <<1, 1, 0>>, {p}, 2, 0)
TwoPolls == Plan(Apart, <<s1, s1>>, <<x, y>>, <<1, 0, 0>>, {p, q}, 2, 1)
MCPlans == {ThreeNodes, TwoNodes, SameNode, OneNode, TwoSequences, TwoPolls}
MCPolls == {TwoPolls}
=============================================================================
