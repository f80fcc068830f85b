--------------------------- MODULE OneShotEffect ---------------------------
(***************************************************************************)
(* What the side-effect ledger promises its callers: a provider effect of  *)
(* an execution happens at most once, and an effect the ledger calls       *)
(* settled has happened and stays settled.  Nothing is said of when, of    *)
(* by whom, or of how many processes tried.                                *)
(***************************************************************************)
EXTENDS Naturals

CONSTANT Effects

VARIABLES applied,  \* how often the provider has carried the effect out
          settled   \* the effects known to have happened

vars == <<applied, settled>>

Init == /\ applied = [e \in Effects |-> 0]
        /\ settled = {}

Perform(e) == /\ applied[e] = 0
              /\ e \notin settled
              /\ applied' = [applied EXCEPT ![e] = 1]
              /\ UNCHANGED settled

Settle(e) == /\ applied[e] = 1
             /\ settled' = settled \cup {e}
             /\ UNCHANGED applied

Next == \E e \in Effects : Perform(e) \/ Settle(e)

Spec == Init /\ [][Next]_vars
=============================================================================
