----------------------------- MODULE GatedWalk ------------------------------
(***************************************************************************)
(* What parking promises.  The nodes of a workflow that can park are gates *)
(* in a row.  A gate gets one answer, for good; a deadline answers only    *)
(* once it has passed; and the execution walks through a gate with that    *)
(* answer, once it is through the gate before.  The one exception is a     *)
(* wait whose acknowledgment raced its deadline: a run that cannot read    *)
(* who won may guess that the deadline did.  Nothing is said of rows,      *)
(* claims, jobs or of how often somebody tried.                            *)
(***************************************************************************)
EXTENDS Naturals, Sequences

CONSTANTS Outcomes   \* what a person may decide in a review

VARIABLES path,    \* the kind of each gate, in order
          passed,  \* the gates whose date or deadline has passed
          answer,  \* what each gate was answered
          walked   \* the gates passed through, each with the branch it was left by

vars == <<path, passed, answer, walked>>

Init == /\ passed = {}
        /\ answer = [n \in DOMAIN path |-> "none"]
        /\ walked = {}

DatePasses(n) ==
    /\ n \notin passed
    /\ passed' = passed \cup {n}
    /\ answer' = [answer EXCEPT ![n] = IF path[n] = "timer" THEN "due" ELSE @]
    /\ UNCHANGED <<path, walked>>

Answers(n) == CASE path[n] = "review" -> Outcomes
                [] path[n] = "ack" -> {"acknowledged"} \cup {v \in {"timed_out"} : n \in passed}
                [] path[n] = "challenge" -> {"made"}
                [] OTHER -> {}

Answer(n) ==
    /\ answer[n] = "none"
    /\ \E v \in Answers(n) : answer' = [answer EXCEPT ![n] = v]
    /\ UNCHANGED <<path, passed, walked>>

Ways(n) ==
    {answer[n]} \cup {b \in {"guessed"} : /\ path[n] = "ack" /\ n \in passed
                                          /\ answer[n] = "acknowledged"}

WalkThrough(n) ==
    /\ answer[n] # "none"
    /\ \A m \in 1 .. n - 1 : \E b \in Ways(m) : <<m, b>> \in walked
    /\ \E b \in Ways(n) : walked' = walked \cup {<<n, b>>}
    /\ UNCHANGED <<path, passed, answer>>

Next == \E n \in DOMAIN path : DatePasses(n) \/ Answer(n) \/ WalkThrough(n)

Spec == Init /\ [][Next]_vars
=============================================================================
