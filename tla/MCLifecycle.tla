---------------------------- MODULE MCLifecycle ----------------------------
(* Up to three requests, two cron requests, and a clock of two ticks. *)
EXTENDS Lifecycle, TLC

CONSTANTS a, b, c, p, q, x, y

Plan(ops, frozen, live, polling, ticks, f) ==
    [op |-> a :> ops[1] @@ b :> ops[2] @@ c :> ops[3], frozen |-> frozen,
     live |-> live, polling |-> polling, ticks |-> ticks, faults |-> f]
FirstTime == Plan(<<"activate", "activate", "edit">>, x, FALSE, {}, 0, 1)
Republish == Plan(<<"publish", "publish", "edit">>, x, TRUE, {}, 0, 0)
Reactivate == Plan(<<"activate", "publish", "edit">>, x, TRUE, {}, 0, 1)
Paused == Plan(<<"publish", "pause", "resume">>, x, TRUE, {}, 0, 1)
Ended == Plan(<<"activate", "archive", "edit">>, x, TRUE, {}, 0, 1)
Ticking == Plan(<<"activate", "activate", "none">>, y, FALSE, {p, q}, 2, 1)
Resumed == Plan(<<"pause", "resume", "none">>, y, TRUE, {p, q}, 2, 1)
Untimed == Plan(<<"edit", "activate", "none">>, y, TRUE, {p}, 2, 1)
MCPlans == {FirstTime, Republish, Reactivate, Paused, Ended, Ticking, Resumed, Untimed}
MCInert == {Republish}
=============================================================================
