------------------------ MODULE MCExecutionOwnership ------------------------
(* Two invocations in one worker process and one in another. *)
EXTENDS ExecutionOwnership, TLC

CONSTANTS j1, j2, j3, w1, w2

MCJobs == {j1, j2, j3}
MCWorkers == {w1, w2}
MCWorkerOf == j1 :> w1 @@ j2 :> w1 @@ j3 :> w2
=============================================================================
