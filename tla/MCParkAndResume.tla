-------------------------- MODULE MCParkAndResume ---------------------------
(* One worker process, and one of the web application. *)
EXTENDS ParkAndResume, TLC

CONSTANTS w, c1, c2, u1, p1, p2, approve

MCProcessOf == w :> p1 @@ [p \in Crons \cup People |-> p2]
\* Where one process may crash, and where none does.
MCFragile == {<<"review">>, <<"timer">>}
MCPaths == MCFragile \cup {<<"review", "timer">>, <<"challenge", "ack">>}
MCReview == {<<"review">>}
MCMaxCrashes == [x \in Paths |-> IF x \in MCFragile /\ PeopleSeeParks THEN 1 ELSE 0]
=============================================================================
