------------------------ MODULE MCProductionDispatch ------------------------
(* One event of one workflow of one user, delivered as often as the cfg says. *)
EXTENDS ProductionDispatch

CONSTANTS k, w, u

MCKeyOf == [d \in Deliveries |-> k]
MCWorkflowOf == [d \in Deliveries |-> w]
MCUserOf == [d \in Deliveries |-> u]
=============================================================================
