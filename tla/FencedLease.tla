---------------------------- MODULE FencedLease ----------------------------
(***************************************************************************)
(* What a fenced lease promises (the header of the phase 12 migration,     *)
(* supabase/migrations/20260528000001): each grant raises the epoch by     *)
(* one, an epoch has one holder, and no earlier epoch comes back.  A lease *)
(* may lapse and be renewed within its epoch.                              *)
(***************************************************************************)
EXTENDS Naturals

CONSTANT Claimants

VARIABLES epoch,   \* the grants so far
          holder,  \* to whom the last one went
          live     \* is its lease running?

vars == <<epoch, holder, live>>

Init == /\ epoch = 0
        /\ holder \in Claimants
        /\ live = FALSE

Grant(c) == /\ epoch' = epoch + 1
            /\ holder' = c
            /\ live' = TRUE

Lapse == /\ live' = FALSE
         /\ UNCHANGED <<epoch, holder>>

Renew == /\ epoch > 0
         /\ live' = TRUE
         /\ UNCHANGED <<epoch, holder>>

Next == Lapse \/ Renew \/ \E c \in Claimants : Grant(c)

Spec == Init /\ [][Next]_vars
=============================================================================
