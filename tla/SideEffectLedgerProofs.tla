----------------------- MODULE SideEffectLedgerProofs -----------------------
(***************************************************************************)
(* Proofs about SideEffectLedger, for every set of effects, runners and    *)
(* sweep passes.  The safety theorems hold under the three conditions that *)
(* Conditions names; a run of the model checker shows what happens without *)
(* one of them.                                                            *)
(***************************************************************************)
EXTENDS SideEffectLedger, TLAPS

Conditions ==
    /\ LeaseCoversAttempt
    /\ ~BodyMayBeLost
    /\ \A o, p \in Operators : o = p

(* The parts of the inductive invariant. *)

\* A holder's row is in progress, inside its lease, and has no other holder.
HolderOwnsRow ==
    \A r \in Runners, e \in Effects : Holds(r, e) =>
      /\ ledger[e].status = "in_progress"
      /\ ~ledger[e].expired
      /\ \A q \in Runners : Holds(q, e) => q = r

\* A candidate a pass still has to reach names a version the row had; if the
\* row has it still, the lease had run out when it was selected.
CandidatesAreOld ==
    \A s \in Sweepers : \A c \in sweep[s] :
      /\ c.version <= ledger[c.effect].version
      /\ c.version = ledger[c.effect].version => ledger[c.effect].expired

\* What a row says of the provider is so.
RowIsTrue ==
    \A e \in Effects :
      /\ applied[e] \in {0, 1}
      /\ ledger[e].status \in {"absent", "failed"} => applied[e] = 0
      /\ ledger[e].status = "succeeded" => applied[e] = 1

\* What a holder is about to do or record fits the provider's state.
HolderKnows ==
    \A r \in Runners :
      /\ pc[r] = "working" => applied[target[r]] = 0
      /\ pc[r] = "record" /\ outcome[r] = "failed" => applied[target[r]] = 0
      /\ pc[r] = "record" /\ outcome[r] = "succeeded" => applied[target[r]] = 1

\* An operator's answer is about a row nobody has touched since, one answer
\* per row.
ChecksAreFresh ==
    \A o \in Operators : \A c \in check[o] :
      /\ ledger[c.effect].status = "indeterminate"
      /\ c.verified = IF applied[c.effect] > 0 THEN "succeeded" ELSE "failed"
      /\ \A d \in check[o] : d.effect = c.effect => d = c

ReportsAreTrue ==
    \A r \in Runners :
      pc[r] = "done" /\ verdict[r] \in {"success", "suppressed"}
        => applied[target[r]] = 1

IInv ==
    /\ TypeOK
    /\ HolderOwnsRow
    /\ CandidatesAreOld
    /\ RowIsTrue
    /\ HolderKnows
    /\ ChecksAreFresh
    /\ ReportsAreTrue
-----------------------------------------------------------------------------
\* What a write to a row leaves behind: a typed table in which that row has
\* the new status and version and every other row is as it was.
LEMMA WrittenRow ==
    ASSUME TypeOK, NEW e \in Effects, NEW st \in Status
    PROVE  /\ Written(e, st) \in [Effects -> Row]
           /\ Written(e, st)[e].status = st
           /\ Written(e, st)[e].version = ledger[e].version + 1
           /\ ~Written(e, st)[e].expired
           /\ \A d \in Effects \ {e} : Written(e, st)[d] = ledger[d]
<1>1. ledger[e] \in Row
  BY DEF TypeOK
<1>2. ledger[e].version + 1 \in Nat
  BY <1>1 DEF Row
<1> DEFINE row == [status |-> st, version |-> ledger[e].version + 1, expired |-> FALSE]
<1>3. row \in Row
  BY <1>2 DEF Row
<1>4. Written(e, st) = [ledger EXCEPT ![e] = row]
  BY DEF Written
<1>5. /\ row.status = st
      /\ row.version = ledger[e].version + 1
      /\ ~row.expired
  OBVIOUS
<1> HIDE DEF row
<1>6. ledger \in [Effects -> Row]
  BY DEF TypeOK
<1>7. /\ Written(e, st) \in [Effects -> Row]
      /\ Written(e, st)[e] = row
      /\ \A d \in Effects \ {e} : Written(e, st)[d] = ledger[d]
  BY <1>3, <1>4, <1>6
<1>8. QED
  BY <1>5, <1>7

\* Each step keeps every variable in its type.
LEMMA TypeStep == TypeOK /\ [Next]_vars => TypeOK'
<1> USE LedgerAssumption DEF TypeOK, PC, Verdict
<1> SUFFICES ASSUME TypeOK, [Next]_vars PROVE TypeOK'
  OBVIOUS
<1>1. ASSUME NEW r \in Runners, NEW e \in Effects, Insert(r, e) PROVE TypeOK'
  <2>1. Written(e, "in_progress") \in [Effects -> Row]
    BY WrittenRow DEF Status
  <2>2. QED
    BY <1>1, <2>1 DEF Insert, Claimed
<1>2. ASSUME NEW r \in Runners, ReadExisting(r) PROVE TypeOK'
  BY <1>2 DEF ReadExisting, Finish
<1>3. ASSUME NEW r \in Runners, Reclaim(r) PROVE TypeOK'
  <2>1. Written(target[r], "in_progress") \in [Effects -> Row]
    BY WrittenRow DEF Status
  <2>2. QED
    BY <1>3, <2>1 DEF Reclaim, Claimed, Finish
<1>4. ASSUME NEW r \in Runners, Attempt(r) PROVE TypeOK'
  <2>1. applied' \in [Effects -> Nat]
    BY <1>4 DEF Attempt, Applied
  <2>2. tries' \in [Runners -> 0..MaxAttempts]
    BY <1>4 DEF Attempt, Conclude, RetryOrGiveUp
  <2>3. outcome' \in [Runners -> Outcome]
    BY <1>4 DEF Attempt, Conclude, RetryOrGiveUp, Outcome
  <2>4. pc' \in [Runners -> PC]
    BY <1>4 DEF Attempt, Conclude, RetryOrGiveUp
  <2>5. QED
    BY <1>4, <2>1, <2>2, <2>3, <2>4 DEF Attempt
<1>5. ASSUME NEW r \in Runners, Record(r) PROVE TypeOK'
  <2>1. outcome[r] \in Status
    BY DEF Status
  <2>2. Written(target[r], outcome[r]) \in [Effects -> Row]
    BY <2>1, WrittenRow
  <2>3. QED
    BY <1>5, <2>2 DEF Record, Finish
<1>6. ASSUME NEW r \in Runners, Rerun(r) \/ Crash(r) PROVE TypeOK'
  BY <1>6 DEF Rerun, Crash
<1>7. ASSUME NEW e \in Effects, LeaseExpires(e) PROVE TypeOK'
  BY <1>7 DEF LeaseExpires, runnerVars, Row
<1>8. ASSUME NEW s \in Sweepers, SweepSelect(s) PROVE TypeOK'
  BY <1>8 DEF SweepSelect, runnerVars, Row, Candidate
<1>9. ASSUME NEW s \in Sweepers, SweepMark(s) PROVE TypeOK'
  <2>1. PICK c \in sweep[s] :
          /\ ledger' \in {ledger, Written(c.effect, "indeterminate")}
          /\ sweep' = [sweep EXCEPT ![s] = @ \ {c}]
          /\ UNCHANGED <<runnerVars, check, applied>>
    BY <1>9 DEF SweepMark
  <2>2. c.effect \in Effects
    BY DEF Candidate
  <2>3. Written(c.effect, "indeterminate") \in [Effects -> Row]
    BY <2>2, WrittenRow DEF Status, Outcome
  <2>4. sweep' \in [Sweepers -> SUBSET Candidate]
    BY <2>1
  <2>5. QED
    BY <2>1, <2>3, <2>4 DEF runnerVars
<1>10. ASSUME NEW o \in Operators, NEW e \in Effects, OperatorCheck(o, e)
       PROVE TypeOK'
  BY <1>10 DEF OperatorCheck, runnerVars, Check
<1>11. ASSUME NEW o \in Operators, OperatorSubmit(o) PROVE TypeOK'
  <2>1. PICK c \in check[o] :
          /\ ledger' \in {ledger, Written(c.effect, c.verified)}
          /\ check' = [check EXCEPT ![o] = @ \ {c}]
          /\ UNCHANGED <<runnerVars, sweep, applied>>
    BY <1>11 DEF OperatorSubmit
  <2>2. c.effect \in Effects /\ c.verified \in Status
    BY DEF Check, Status, Outcome
  <2>3. Written(c.effect, c.verified) \in [Effects -> Row]
    BY <2>2, WrittenRow
  <2>4. check' \in [Operators -> SUBSET Check]
    BY <2>1
  <2>5. QED
    BY <2>1, <2>3, <2>4 DEF runnerVars
<1>12. CASE UNCHANGED vars
  BY <1>12 DEF vars, runnerVars
<1>13. QED
  BY <1>1, <1>2, <1>3, <1>4, <1>5, <1>6, <1>7, <1>8, <1>9, <1>10, <1>11, <1>12
  DEF Next, RunnerStep

\* Every variable keeps its type, whatever the conditions.
THEOREM TypeCorrect == Spec => []TypeOK
<1>1. Init => TypeOK
  BY LedgerAssumption DEF Init, TypeOK, PC, Verdict, Row, Status, Outcome
<1>2. QED
  BY <1>1, TypeStep, PTL DEF Spec
-----------------------------------------------------------------------------

\* Each step keeps the inductive invariant.
LEMMA InvStep == Conditions /\ IInv /\ [Next]_vars => IInv'
<1> SUFFICES ASSUME Conditions, IInv, [Next]_vars PROVE IInv'
  OBVIOUS
<1>0. TypeOK /\ TypeOK'
  BY TypeStep DEF IInv
<1> USE DEF Holds
<1>1. ASSUME NEW r \in Runners, NEW e \in Effects, Insert(r, e) PROVE IInv'
  <2>1. CASE ledger[e].status = "absent"
    <3>1. /\ ledger' = Written(e, "in_progress")
          /\ pc' = [pc EXCEPT ![r] = "working"]
          /\ target' = [target EXCEPT ![r] = e]
          /\ UNCHANGED <<outcome, verdict, sweep, check, applied>>
      BY <1>1, <2>1 DEF Insert, Claimed
    <3>2. /\ ledger'[e].status = "in_progress"
          /\ ledger'[e].version = ledger[e].version + 1
          /\ ~ledger'[e].expired
          /\ \A d \in Effects \ {e} : ledger'[d] = ledger[d]
      BY <1>0, <3>1, WrittenRow DEF Status
    <3>3. HolderOwnsRow'
      BY <1>0, <2>1, <3>1, <3>2 DEF IInv, HolderOwnsRow, TypeOK
    <3>4. CandidatesAreOld'
      BY <1>0, <2>1, <3>1, <3>2 DEF IInv, CandidatesAreOld, TypeOK, Candidate, Row
    <3>5. RowIsTrue'
      BY <1>0, <2>1, <3>1, <3>2 DEF IInv, RowIsTrue
    <3>6. HolderKnows'
      BY <1>0, <2>1, <3>1, <3>2 DEF IInv, HolderKnows, RowIsTrue, TypeOK
    <3>7. ChecksAreFresh'
      BY <1>0, <2>1, <3>1, <3>2 DEF IInv, ChecksAreFresh, TypeOK, Check
    <3>8. ReportsAreTrue'
      BY <1>0, <2>1, <3>1, <3>2 DEF IInv, ReportsAreTrue, TypeOK
    <3>9. QED
      BY <1>0, <3>3, <3>4, <3>5, <3>6, <3>7, <3>8 DEF IInv
  <2>2. CASE ledger[e].status # "absent"
    BY <1>0, <1>1, <2>2 DEF Insert, IInv, HolderOwnsRow, CandidatesAreOld,
       RowIsTrue, HolderKnows, ChecksAreFresh, ReportsAreTrue, TypeOK
  <2>3. QED
    BY <2>1, <2>2
<1>2. ASSUME NEW r \in Runners, ReadExisting(r) PROVE IInv'
  BY <1>0, <1>2 DEF ReadExisting, Finish, IInv, HolderOwnsRow, CandidatesAreOld,
     RowIsTrue, HolderKnows, ChecksAreFresh, ReportsAreTrue, TypeOK
<1>3. ASSUME NEW r \in Runners, Reclaim(r) PROVE IInv'
  <2> DEFINE e == target[r]
  <2>0. e \in Effects
    BY <1>0 DEF TypeOK
  <2>1. CASE ledger[e].status = "failed"
    <3>1. /\ ledger' = Written(e, "in_progress")
          /\ pc' = [pc EXCEPT ![r] = "working"]
          /\ UNCHANGED <<target, outcome, verdict, sweep, check, applied>>
      BY <1>3, <2>1 DEF Reclaim, Claimed
    <3>2. /\ ledger'[e].status = "in_progress"
          /\ ledger'[e].version = ledger[e].version + 1
          /\ ~ledger'[e].expired
          /\ \A d \in Effects \ {e} : ledger'[d] = ledger[d]
      BY <1>0, <2>0, <3>1, WrittenRow DEF Status
    <3>3. HolderOwnsRow'
      BY <1>0, <2>1, <3>1, <3>2 DEF IInv, HolderOwnsRow, TypeOK
    <3>4. CandidatesAreOld'
      BY <1>0, <2>0, <2>1, <3>1, <3>2 DEF IInv, CandidatesAreOld, TypeOK, Candidate, Row
    <3>5. RowIsTrue'
      BY <1>0, <2>1, <3>1, <3>2 DEF IInv, RowIsTrue
    <3>6. HolderKnows'
      BY <1>0, <2>0, <2>1, <3>1, <3>2 DEF IInv, HolderKnows, RowIsTrue, TypeOK
    <3>7. ChecksAreFresh'
      BY <1>0, <2>1, <3>1, <3>2 DEF IInv, ChecksAreFresh, TypeOK, Check
    <3>8. ReportsAreTrue'
      BY <1>0, <2>1, <3>1, <3>2 DEF IInv, ReportsAreTrue, TypeOK
    <3>9. QED
      BY <1>0, <3>3, <3>4, <3>5, <3>6, <3>7, <3>8 DEF IInv
  <2>2. CASE ledger[e].status # "failed"
    BY <1>0, <1>3, <2>2 DEF Reclaim, Finish, IInv, HolderOwnsRow,
       CandidatesAreOld, RowIsTrue, HolderKnows, ChecksAreFresh, ReportsAreTrue, TypeOK
  <2>3. QED
    BY <2>1, <2>2
<1>4. ASSUME NEW r \in Runners, Attempt(r) PROVE IInv'
  <2> DEFINE e == target[r]
  <2>0. /\ pc[r] = "working"
        /\ e \in Effects
        /\ applied[e] = 0
        /\ UNCHANGED <<ledger, target, verdict, sweep, check>>
        /\ \/ pc' = pc /\ outcome' = outcome /\ applied' = applied
           \/ /\ pc' = [pc EXCEPT ![r] = "record"]
              /\ \/ /\ outcome' = [outcome EXCEPT ![r] = "succeeded"]
                    /\ applied' = [applied EXCEPT ![e] = @ + 1]
                 \/ /\ outcome' = [outcome EXCEPT ![r] = "failed"]
                    /\ applied' = applied
                 \/ /\ outcome' = [outcome EXCEPT ![r] = "indeterminate"]
                    /\ applied' \in {applied, [applied EXCEPT ![e] = @ + 1]}
    BY <1>0, <1>4 DEF Attempt, Applied, Conclude, RetryOrGiveUp, Conditions,
       IInv, HolderKnows, TypeOK
  <2>1. /\ \A d \in Effects \ {e} : applied'[d] = applied[d]
        /\ applied'[e] \in {0, 1}
        /\ pc'[r] = "working" => applied'[e] = 0
        /\ pc'[r] = "record" /\ outcome'[r] = "succeeded" => applied'[e] = 1
        /\ pc'[r] = "record" /\ outcome'[r] = "failed" => applied'[e] = 0
        /\ pc'[r] \in {"working", "record"}
        /\ \A q \in Runners \ {r} : pc'[q] = pc[q] /\ outcome'[q] = outcome[q]
    BY <1>0, <2>0 DEF TypeOK
  <2>2. /\ ledger[e].status = "in_progress"
        /\ \A q \in Runners : Holds(q, e) => q = r
    BY <2>0 DEF IInv, HolderOwnsRow
  <2>3. HolderOwnsRow'
    BY <1>0, <2>0, <2>1, <2>2 DEF IInv, HolderOwnsRow
  <2>4. CandidatesAreOld'
    BY <2>0 DEF IInv, CandidatesAreOld
  <2>5. RowIsTrue'
    BY <2>0, <2>1, <2>2 DEF IInv, RowIsTrue
  <2>6. HolderKnows'
    BY <1>0, <2>0, <2>1, <2>2 DEF IInv, HolderKnows, TypeOK
  <2>7. ChecksAreFresh'
    BY <1>0, <2>0, <2>1, <2>2 DEF IInv, ChecksAreFresh, TypeOK, Check
  <2>8. ReportsAreTrue'
    <3> SUFFICES ASSUME NEW q \in Runners, pc'[q] = "done",
                        verdict[q] \in {"success", "suppressed"}
                 PROVE  applied'[target[q]] = 1
      BY <2>0 DEF ReportsAreTrue
    <3>1. applied[target[q]] = 1 /\ target[q] \in Effects
      BY <1>0, <2>1 DEF IInv, ReportsAreTrue, TypeOK
    <3>2. QED
      BY <2>0, <2>1, <3>1
  <2>9. QED
    BY <1>0, <2>3, <2>4, <2>5, <2>6, <2>7, <2>8 DEF IInv
<1>5. ASSUME NEW r \in Runners, Record(r) PROVE IInv'
  <2> DEFINE e == target[r]
             st == outcome[r]
  <2>0. /\ e \in Effects
        /\ st \in {"succeeded", "failed", "indeterminate"}
        /\ pc[r] = "record"
        /\ ledger[e].status = "in_progress"
        /\ \A q \in Runners : Holds(q, e) => q = r
    BY <1>0, <1>5 DEF TypeOK, Record, IInv, HolderOwnsRow, Outcome
  <2>1. /\ pc' = [pc EXCEPT ![r] = "done"]
        /\ verdict' = [verdict EXCEPT ![r] = IF st = "succeeded" THEN "success"
                                             ELSE "failed"]
        /\ UNCHANGED <<target, tries, outcome, sweep, check, applied>>
    BY <1>5 DEF Record, Finish
  <2>2. CASE UNCHANGED ledger
    BY <1>0, <2>0, <2>1, <2>2 DEF IInv, HolderOwnsRow, CandidatesAreOld,
       RowIsTrue, HolderKnows, ChecksAreFresh, ReportsAreTrue, TypeOK
  <2>3. CASE ledger' = Written(e, st)
    <3>2. /\ ledger'[e].status = st
          /\ ledger'[e].version = ledger[e].version + 1
          /\ ~ledger'[e].expired
          /\ \A d \in Effects \ {e} : ledger'[d] = ledger[d]
      BY <1>0, <2>0, <2>3, WrittenRow DEF Status, Outcome
    <3>3. HolderOwnsRow'
      BY <1>0, <2>0, <2>1, <3>2 DEF IInv, HolderOwnsRow, TypeOK
    <3>4. CandidatesAreOld'
      BY <1>0, <2>0, <2>1, <3>2 DEF IInv, CandidatesAreOld, TypeOK, Candidate, Row
    <3>5. RowIsTrue'
      BY <1>0, <2>0, <2>1, <3>2 DEF IInv, RowIsTrue, HolderKnows
    <3>6. HolderKnows'
      BY <1>0, <2>0, <2>1, <3>2 DEF IInv, HolderKnows, TypeOK
    <3>7. ChecksAreFresh'
      BY <1>0, <2>0, <2>1, <3>2 DEF IInv, ChecksAreFresh, TypeOK, Check
    <3>8. ReportsAreTrue'
      BY <1>0, <2>0, <2>1, <3>2 DEF IInv, ReportsAreTrue, HolderKnows, TypeOK
    <3>9. QED
      BY <1>0, <3>3, <3>4, <3>5, <3>6, <3>7, <3>8 DEF IInv
  <2>4. QED
    BY <1>5, <2>2, <2>3 DEF Record
<1>6. ASSUME NEW r \in Runners, Rerun(r) \/ Crash(r) PROVE IInv'
  BY <1>0, <1>6 DEF Rerun, Crash, IInv, HolderOwnsRow, CandidatesAreOld,
     RowIsTrue, HolderKnows, ChecksAreFresh, ReportsAreTrue, TypeOK
<1>7. ASSUME NEW e \in Effects, LeaseExpires(e) PROVE IInv'
  <2>1. /\ ledger[e].status = "in_progress"
        /\ \A r \in Runners : ~Holds(r, e)
        /\ ledger' = [ledger EXCEPT ![e].expired = TRUE]
        /\ UNCHANGED <<pc, target, outcome, verdict, sweep, check, applied>>
    BY <1>7 DEF LeaseExpires, Conditions, runnerVars
  <2>2. /\ ledger'[e].status = ledger[e].status
        /\ ledger'[e].version = ledger[e].version
        /\ ledger'[e].expired
        /\ \A d \in Effects \ {e} : ledger'[d] = ledger[d]
    BY <1>0, <2>1 DEF TypeOK, Row
  <2>3. HolderOwnsRow'
    BY <1>0, <2>1, <2>2 DEF IInv, HolderOwnsRow
  <2>4. CandidatesAreOld'
    BY <1>0, <2>1, <2>2 DEF IInv, CandidatesAreOld, TypeOK, Candidate
  <2>5. RowIsTrue' /\ HolderKnows' /\ ReportsAreTrue'
    BY <2>1, <2>2 DEF IInv, RowIsTrue, HolderKnows, ReportsAreTrue
  <2>6. ChecksAreFresh'
    BY <1>0, <2>1, <2>2 DEF IInv, ChecksAreFresh, TypeOK, Check
  <2>7. QED
    BY <1>0, <2>3, <2>4, <2>5, <2>6 DEF IInv
<1>8. ASSUME NEW s \in Sweepers, SweepSelect(s) PROVE IInv'
  <2>1. UNCHANGED <<ledger, pc, target, outcome, verdict, check, applied>>
    BY <1>8 DEF SweepSelect, runnerVars
  <2>2. /\ \A t \in Sweepers \ {s} : sweep'[t] = sweep[t]
        /\ \A c \in sweep'[s] : /\ c.effect \in Effects
                                 /\ ledger[c.effect].expired
                                 /\ c.version = ledger[c.effect].version
    BY <1>0, <1>8 DEF SweepSelect, TypeOK
  <2>3. CandidatesAreOld'
    BY <1>0, <2>1, <2>2 DEF IInv, CandidatesAreOld, TypeOK, Row
  <2>4. QED
    BY <1>0, <2>1, <2>3 DEF IInv, HolderOwnsRow, RowIsTrue, HolderKnows,
       ChecksAreFresh, ReportsAreTrue
<1>9. ASSUME NEW s \in Sweepers, SweepMark(s) PROVE IInv'
  <2>1. PICK c \in sweep[s] :
          /\ IF Unchanged(c) THEN ledger' = Written(c.effect, "indeterminate")
                             ELSE UNCHANGED ledger
          /\ sweep' = [sweep EXCEPT ![s] = @ \ {c}]
          /\ UNCHANGED <<runnerVars, check, applied>>
    BY <1>9 DEF SweepMark
  <2>2. /\ UNCHANGED <<pc, target, outcome, verdict, check, applied>>
        /\ \A t \in Sweepers : sweep'[t] \subseteq sweep[t]
    BY <1>0, <2>1 DEF runnerVars, TypeOK
  <2>3. CASE ~Unchanged(c)
    BY <1>0, <2>1, <2>2, <2>3 DEF IInv, HolderOwnsRow, CandidatesAreOld,
       RowIsTrue, HolderKnows, ChecksAreFresh, ReportsAreTrue
  <2>4. CASE Unchanged(c)
    <3> DEFINE e == c.effect
    <3>1. /\ e \in Effects
          /\ ledger[e].status = "in_progress"
          /\ \A q \in Runners : ~Holds(q, e)
      BY <1>0, <2>4 DEF Unchanged, IInv, CandidatesAreOld, HolderOwnsRow, TypeOK,
         Candidate
    <3>2. /\ ledger'[e].status = "indeterminate"
          /\ ledger'[e].version = ledger[e].version + 1
          /\ ~ledger'[e].expired
          /\ \A d \in Effects \ {e} : ledger'[d] = ledger[d]
      BY <1>0, <2>1, <2>4, <3>1, WrittenRow DEF Status, Outcome
    <3>3. HolderOwnsRow'
      BY <1>0, <2>2, <3>1, <3>2 DEF IInv, HolderOwnsRow
    <3>4. CandidatesAreOld'
      <4> SUFFICES ASSUME NEW t \in Sweepers, NEW d \in sweep'[t]
                   PROVE  /\ d.version <= ledger'[d.effect].version
                          /\ d.version = ledger'[d.effect].version
                               => ledger'[d.effect].expired
        BY DEF CandidatesAreOld
      <4>1. /\ d.effect \in Effects /\ d.version \in Nat
            /\ ledger[d.effect].version \in Nat
        BY <1>0, <2>2 DEF TypeOK, Candidate, Row
      <4>2. /\ d.version <= ledger[d.effect].version
            /\ d.version = ledger[d.effect].version => ledger[d.effect].expired
        BY <2>2 DEF IInv, CandidatesAreOld
      <4>3. QED
        BY <3>1, <3>2, <4>1, <4>2
    <3>5. RowIsTrue' /\ HolderKnows' /\ ReportsAreTrue'
      BY <2>2, <3>1, <3>2 DEF IInv, RowIsTrue, HolderKnows, ReportsAreTrue
    <3>6. ChecksAreFresh'
      BY <1>0, <2>2, <3>1, <3>2 DEF IInv, ChecksAreFresh, TypeOK, Check
    <3>7. QED
      BY <1>0, <3>3, <3>4, <3>5, <3>6 DEF IInv
  <2>5. QED
    BY <2>3, <2>4
<1>10. ASSUME NEW o \in Operators, NEW e \in Effects, OperatorCheck(o, e)
       PROVE IInv'
  <2> DEFINE c == [effect |-> e,
                   verified |-> IF applied[e] > 0 THEN "succeeded" ELSE "failed"]
  <2>1. /\ ledger[e].status = "indeterminate"
        /\ \A d \in check[o] : d.effect # e
        /\ check' = [check EXCEPT ![o] = @ \cup {c}]
        /\ UNCHANGED <<ledger, pc, target, outcome, verdict, sweep, applied>>
    BY <1>10 DEF OperatorCheck, runnerVars
  <2>2. /\ check'[o] = check[o] \cup {c}
        /\ \A p \in Operators \ {o} : check'[p] = check[p]
    BY <1>0, <2>1 DEF TypeOK
  <2>3. /\ c.effect = e
        /\ c.verified = IF applied[e] > 0 THEN "succeeded" ELSE "failed"
    OBVIOUS
  <2> HIDE DEF c
  <2>4. ChecksAreFresh'
    BY <1>0, <2>1, <2>2, <2>3 DEF IInv, ChecksAreFresh
  <2>5. QED
    BY <1>0, <2>1, <2>4 DEF IInv, HolderOwnsRow, CandidatesAreOld, RowIsTrue,
       HolderKnows, ReportsAreTrue
<1>11. ASSUME NEW o \in Operators, OperatorSubmit(o) PROVE IInv'
  <2>1. PICK c \in check[o] :
          /\ IF ledger[c.effect].status = "indeterminate"
               THEN ledger' = Written(c.effect, c.verified)
               ELSE UNCHANGED ledger
          /\ check' = [check EXCEPT ![o] = @ \ {c}]
          /\ UNCHANGED <<runnerVars, sweep, applied>>
    BY <1>11 DEF OperatorSubmit
  <2> DEFINE e == c.effect
             st == c.verified
  <2>2. UNCHANGED <<pc, target, outcome, verdict, sweep, applied>>
    BY <2>1 DEF runnerVars
  <2>3. /\ e \in Effects
        /\ ledger[e].status = "indeterminate"
        /\ st = IF applied[e] > 0 THEN "succeeded" ELSE "failed"
        /\ \A d \in check[o] : d.effect = e => d = c
        /\ \A q \in Runners : ~Holds(q, e)
    BY <1>0, <2>1 DEF IInv, ChecksAreFresh, HolderOwnsRow, TypeOK, Check
  <2>4. /\ ledger'[e].status = st
        /\ ledger'[e].version = ledger[e].version + 1
        /\ ~ledger'[e].expired
        /\ \A d \in Effects \ {e} : ledger'[d] = ledger[d]
    BY <1>0, <2>1, <2>3, WrittenRow DEF Status, Outcome
  <2>5. \A p \in Operators : p = o
    BY DEF Conditions
  <2>6. check'[o] = check[o] \ {c}
    BY <1>0, <2>1 DEF TypeOK
  <2>7. ChecksAreFresh'
    BY <1>0, <2>2, <2>3, <2>4, <2>5, <2>6 DEF IInv, ChecksAreFresh, TypeOK, Check
  <2>8. HolderOwnsRow'
    BY <1>0, <2>2, <2>3, <2>4 DEF IInv, HolderOwnsRow
  <2>9. CandidatesAreOld'
    <3> SUFFICES ASSUME NEW t \in Sweepers, NEW d \in sweep[t]
                 PROVE  /\ d.version <= ledger'[d.effect].version
                        /\ d.version = ledger'[d.effect].version
                             => ledger'[d.effect].expired
      BY <2>2 DEF CandidatesAreOld
    <3>1. /\ d.effect \in Effects /\ d.version \in Nat
          /\ ledger[d.effect].version \in Nat
      BY <1>0 DEF TypeOK, Candidate, Row
    <3>2. /\ d.version <= ledger[d.effect].version
          /\ d.version = ledger[d.effect].version => ledger[d.effect].expired
      BY DEF IInv, CandidatesAreOld
    <3>3. QED
      BY <2>3, <2>4, <3>1, <3>2
  <2>10. RowIsTrue' /\ HolderKnows' /\ ReportsAreTrue'
    BY <2>2, <2>3, <2>4 DEF IInv, RowIsTrue, HolderKnows, ReportsAreTrue
  <2>11. QED
    BY <1>0, <2>7, <2>8, <2>9, <2>10 DEF IInv
<1>12. CASE UNCHANGED vars
  BY <1>0, <1>12 DEF vars, runnerVars, IInv, HolderOwnsRow, CandidatesAreOld,
     RowIsTrue, HolderKnows, ChecksAreFresh, ReportsAreTrue
<1>13. QED
  BY <1>1, <1>2, <1>3, <1>4, <1>5, <1>6, <1>7, <1>8, <1>9, <1>10, <1>11, <1>12
  DEF Next, RunnerStep

\* Under the conditions the invariant holds throughout.
THEOREM Invariance == ASSUME Conditions PROVE Spec => []IInv
<1>1. Init => IInv
  <2> SUFFICES ASSUME Init PROVE IInv
    OBVIOUS
  <2>1. TypeOK
    BY LedgerAssumption DEF Init, TypeOK, PC, Verdict, Row, Status, Outcome
  <2>2. QED
    BY <2>1 DEF Init, IInv, HolderOwnsRow, Holds, CandidatesAreOld, RowIsTrue,
       HolderKnows, ChecksAreFresh, ReportsAreTrue
<1>2. Conditions
  OBVIOUS
<1>3. IInv /\ [Next]_vars => IInv'
  BY <1>2, InvStep
<1>4. QED
  BY <1>1, <1>3, PTL DEF Spec

\* The provider carries an effect out at most once.
THEOREM AtMostOnce == ASSUME Conditions PROVE Spec => []AppliedAtMostOnce
<1>1. IInv => AppliedAtMostOnce
  <2> SUFFICES ASSUME IInv, NEW e \in Effects PROVE applied[e] <= 1
    BY DEF AppliedAtMostOnce
  <2>1. applied[e] = 0 \/ applied[e] = 1
    BY DEF IInv, RowIsTrue
  <2>2. QED
    BY <2>1
<1>2. QED
  BY <1>1, Invariance, PTL

\* A run reports success, or suppresses a duplicate, only for an effect that
\* has happened.
THEOREM ReportedSuccess == ASSUME Conditions PROVE Spec => []SuccessIsTrue
<1>1. IInv => SuccessIsTrue
  BY DEF IInv, ReportsAreTrue, SuccessIsTrue
<1>2. QED
  BY <1>1, Invariance, PTL

\* A row that may be claimed again belongs to an effect that never happened.
THEOREM ReclaimIsSafe == ASSUME Conditions PROVE Spec => []FailedMeansNotApplied
<1>1. IInv => FailedMeansNotApplied
  BY DEF IInv, RowIsTrue, FailedMeansNotApplied
<1>2. QED
  BY <1>1, Invariance, PTL

\* The claim of an effect has one holder, and no sweep can still take its row.
THEOREM ExclusiveClaim == ASSUME Conditions PROVE Spec => []ClaimIsExclusive
<1>1. IInv => ClaimIsExclusive
  <2> SUFFICES ASSUME IInv, NEW r \in Runners, NEW e \in Effects, Holds(r, e)
               PROVE  /\ ledger[e].status = "in_progress"
                      /\ \A q \in Runners \ {r} : ~Holds(q, e)
                      /\ \A s \in Sweepers : \A c \in sweep[s] :
                           c.effect = e => ~Unchanged(c)
    BY DEF ClaimIsExclusive
  <2>1. /\ ledger[e].status = "in_progress"
        /\ ~ledger[e].expired
        /\ \A q \in Runners : Holds(q, e) => q = r
    BY DEF IInv, HolderOwnsRow
  <2>2. QED
    BY <2>1 DEF IInv, CandidatesAreOld, Unchanged
<1>2. QED
  BY <1>1, Invariance, PTL

\* A row that says 'succeeded' keeps saying so, and only an operator's verdict
\* takes a row out of 'indeterminate'.
THEOREM KeptVerdicts == ASSUME Conditions PROVE Spec => VerdictsAreKept
<1> DEFINE Kept ==
      \A e \in Effects :
         LET was == ledger[e].status  is == ledger'[e].status IN
         /\ was = "succeeded" => is = "succeeded"
         /\ was = "indeterminate" /\ is # "indeterminate"
              => \E o \in Operators : \E c \in check[o] \ check'[o] :
                   c.effect = e /\ c.verified = is
<1>1. IInv /\ [Next]_vars => [Kept]_vars
  <2> SUFFICES ASSUME IInv, Next PROVE Kept
    OBVIOUS
  <2> USE DEF Holds
  <2>0. TypeOK
    BY DEF IInv
  <2>1. ASSUME NEW r \in Runners, NEW e \in Effects, Insert(r, e) PROVE Kept
    <3>1. CASE ledger[e].status = "absent"
      <4>1. ledger' = Written(e, "in_progress")
        BY <2>1, <3>1 DEF Insert, Claimed
      <4>2. \A d \in Effects \ {e} : ledger'[d] = ledger[d]
        BY <2>0, <4>1, WrittenRow DEF Status
      <4>3. QED
        BY <3>1, <4>2
    <3>2. CASE ledger[e].status # "absent"
      BY <2>1, <3>2 DEF Insert
    <3>3. QED
      BY <3>1, <3>2
  <2>2. ASSUME NEW r \in Runners, Reclaim(r) PROVE Kept
    <3>1. target[r] \in Effects
      BY <2>0 DEF TypeOK
    <3>2. CASE ledger[target[r]].status = "failed"
      <4>1. ledger' = Written(target[r], "in_progress")
        BY <2>2, <3>2 DEF Reclaim, Claimed
      <4>2. \A d \in Effects \ {target[r]} : ledger'[d] = ledger[d]
        BY <2>0, <3>1, <4>1, WrittenRow DEF Status
      <4>3. QED
        BY <3>2, <4>2
    <3>3. CASE ledger[target[r]].status # "failed"
      BY <2>2, <3>3 DEF Reclaim
    <3>4. QED
      BY <3>2, <3>3
  <2>3. ASSUME NEW r \in Runners, Record(r) PROVE Kept
    <3>1. /\ target[r] \in Effects
          /\ outcome[r] \in Status
          /\ ledger[target[r]].status = "in_progress"
      BY <2>0, <2>3 DEF TypeOK, Status, Record, IInv, HolderOwnsRow
    <3>2. CASE UNCHANGED ledger
      BY <3>2
    <3>3. CASE ledger' = Written(target[r], outcome[r])
      <4>1. \A d \in Effects \ {target[r]} : ledger'[d] = ledger[d]
        BY <2>0, <3>1, <3>3, WrittenRow
      <4>2. QED
        BY <3>1, <4>1
    <3>4. QED
      BY <2>3, <3>2, <3>3 DEF Record
  <2>4. ASSUME NEW e \in Effects, LeaseExpires(e) PROVE Kept
    <3>1. \A d \in Effects : ledger'[d].status = ledger[d].status
      BY <2>0, <2>4 DEF LeaseExpires, TypeOK, Row
    <3>2. QED
      BY <3>1
  <2>5. ASSUME NEW s \in Sweepers, SweepMark(s) PROVE Kept
    <3>1. PICK c \in sweep[s] :
            IF Unchanged(c) THEN ledger' = Written(c.effect, "indeterminate")
                            ELSE UNCHANGED ledger
      BY <2>5 DEF SweepMark
    <3>2. c.effect \in Effects
      BY <2>0 DEF TypeOK, Candidate
    <3>3. CASE Unchanged(c)
      <4>1. \A d \in Effects \ {c.effect} : ledger'[d] = ledger[d]
        BY <2>0, <3>1, <3>2, <3>3, WrittenRow DEF Status, Outcome
      <4>2. QED
        BY <3>3, <4>1 DEF Unchanged
    <3>4. QED
      BY <3>1, <3>3
  <2>6. ASSUME NEW o \in Operators, OperatorSubmit(o) PROVE Kept
    <3>1. PICK c \in check[o] :
            /\ IF ledger[c.effect].status = "indeterminate"
                 THEN ledger' = Written(c.effect, c.verified)
                 ELSE UNCHANGED ledger
            /\ check' = [check EXCEPT ![o] = @ \ {c}]
      BY <2>6 DEF OperatorSubmit
    <3>2. c.effect \in Effects /\ c.verified \in Status
      BY <2>0 DEF TypeOK, Check, Status, Outcome
    <3>3. c \in check[o] \ check'[o]
      BY <2>0, <3>1 DEF TypeOK
    <3>4. CASE ledger[c.effect].status = "indeterminate"
      <4>1. /\ ledger'[c.effect].status = c.verified
            /\ \A d \in Effects \ {c.effect} : ledger'[d] = ledger[d]
        BY <2>0, <3>1, <3>2, <3>4, WrittenRow
      <4>2. QED
        BY <3>3, <3>4, <4>1
    <3>5. QED
      BY <3>1, <3>4
  <2>7. ASSUME UNCHANGED ledger PROVE Kept
    BY <2>7
  <2>8. QED
    BY <2>1, <2>2, <2>3, <2>4, <2>5, <2>6, <2>7 DEF Next, RunnerStep, ReadExisting,
       Attempt, Rerun, Crash, SweepSelect, OperatorCheck
<1>2. QED
  BY <1>1, Invariance, PTL DEF Spec, VerdictsAreKept
-----------------------------------------------------------------------------
(* The refinement: the ledger's steps are steps of OneShotEffect. *)

\* A step leaves every status and the provider alone, or is a provider call of
\* a claim's holder, or writes one row that did not say 'succeeded'.
LEMMA StepKinds ==
    ASSUME Conditions, IInv, Next
    PROVE  \/ /\ applied' = applied
              /\ \A d \in Effects : ledger'[d].status = ledger[d].status
           \/ /\ ledger' = ledger
              /\ \E r \in Runners : /\ pc[r] = "working"
                                    /\ applied' \in {applied,
                                         [applied EXCEPT ![target[r]] = @ + 1]}
           \/ /\ applied' = applied
              /\ \E e \in Effects : /\ ledger[e].status # "succeeded"
                                    /\ \A d \in Effects \ {e} : ledger'[d] = ledger[d]
<1> USE DEF Holds
<1> DEFINE Quiet == /\ applied' = applied
                    /\ \A d \in Effects : ledger'[d].status = ledger[d].status
           OneRow == /\ applied' = applied
                     /\ \E e \in Effects :
                          /\ ledger[e].status # "succeeded"
                          /\ \A d \in Effects \ {e} : ledger'[d] = ledger[d]
<1>0. TypeOK
  BY DEF IInv
<1>1. ASSUME NEW r \in Runners, NEW e \in Effects, Insert(r, e) PROVE Quiet \/ OneRow
  <2>1. CASE ledger[e].status = "absent"
    <3>1. ledger' = Written(e, "in_progress") /\ applied' = applied
      BY <1>1, <2>1 DEF Insert, Claimed
    <3>2. \A d \in Effects \ {e} : ledger'[d] = ledger[d]
      BY <1>0, <3>1, WrittenRow DEF Status
    <3>3. QED
      BY <2>1, <3>1, <3>2
  <2>2. QED
    BY <1>1, <2>1 DEF Insert
<1>2. ASSUME NEW r \in Runners, Reclaim(r) PROVE Quiet \/ OneRow
  <2>1. target[r] \in Effects
    BY <1>0 DEF TypeOK
  <2>2. CASE ledger[target[r]].status = "failed"
    <3>1. ledger' = Written(target[r], "in_progress") /\ applied' = applied
      BY <1>2, <2>2 DEF Reclaim, Claimed
    <3>2. \A d \in Effects \ {target[r]} : ledger'[d] = ledger[d]
      BY <1>0, <2>1, <3>1, WrittenRow DEF Status
    <3>3. QED
      BY <2>1, <2>2, <3>1, <3>2
  <2>3. QED
    BY <1>2, <2>2 DEF Reclaim
<1>3. ASSUME NEW r \in Runners, Record(r) PROVE Quiet \/ OneRow
  <2>1. /\ target[r] \in Effects
        /\ outcome[r] \in Status
        /\ ledger[target[r]].status = "in_progress"
        /\ applied' = applied
    BY <1>0, <1>3 DEF TypeOK, Status, Record, IInv, HolderOwnsRow
  <2>2. CASE ledger' = Written(target[r], outcome[r])
    <3>1. \A d \in Effects \ {target[r]} : ledger'[d] = ledger[d]
      BY <1>0, <2>1, <2>2, WrittenRow
    <3>2. QED
      BY <2>1, <3>1
  <2>3. QED
    BY <1>3, <2>1, <2>2 DEF Record
<1>4. ASSUME NEW e \in Effects, LeaseExpires(e) PROVE Quiet
  BY <1>0, <1>4 DEF LeaseExpires, TypeOK, Row
<1>5. ASSUME NEW s \in Sweepers, SweepMark(s) PROVE Quiet \/ OneRow
  <2>1. PICK c \in sweep[s] :
          /\ IF Unchanged(c) THEN ledger' = Written(c.effect, "indeterminate")
                             ELSE UNCHANGED ledger
          /\ applied' = applied
    BY <1>5 DEF SweepMark
  <2>2. c.effect \in Effects
    BY <1>0 DEF TypeOK, Candidate
  <2>3. CASE Unchanged(c)
    <3>1. \A d \in Effects \ {c.effect} : ledger'[d] = ledger[d]
      BY <1>0, <2>1, <2>2, <2>3, WrittenRow DEF Status, Outcome
    <3>2. QED
      BY <2>1, <2>2, <2>3, <3>1 DEF Unchanged
  <2>4. QED
    BY <2>1, <2>3
<1>6. ASSUME NEW o \in Operators, OperatorSubmit(o) PROVE Quiet \/ OneRow
  <2>1. PICK c \in check[o] :
          /\ IF ledger[c.effect].status = "indeterminate"
               THEN ledger' = Written(c.effect, c.verified)
               ELSE UNCHANGED ledger
          /\ applied' = applied
    BY <1>6 DEF OperatorSubmit
  <2>2. c.effect \in Effects /\ c.verified \in Status
    BY <1>0 DEF TypeOK, Check, Status, Outcome
  <2>3. CASE ledger[c.effect].status = "indeterminate"
    <3>1. \A d \in Effects \ {c.effect} : ledger'[d] = ledger[d]
      BY <1>0, <2>1, <2>2, <2>3, WrittenRow
    <3>2. QED
      BY <2>1, <2>2, <2>3, <3>1
  <2>4. QED
    BY <2>1, <2>3
<1>7. ASSUME NEW r \in Runners, Attempt(r)
      PROVE  /\ ledger' = ledger
             /\ pc[r] = "working"
             /\ applied' \in {applied, [applied EXCEPT ![target[r]] = @ + 1]}
  BY <1>7 DEF Attempt, Applied
<1>8. ASSUME NEW r \in Runners, ReadExisting(r) \/ Rerun(r) \/ Crash(r) PROVE Quiet
  BY <1>8 DEF ReadExisting, Rerun, Crash
<1>9. ASSUME NEW s \in Sweepers, SweepSelect(s) PROVE Quiet
  BY <1>9 DEF SweepSelect
<1>10. ASSUME NEW o \in Operators, NEW e \in Effects, OperatorCheck(o, e) PROVE Quiet
  BY <1>10 DEF OperatorCheck
<1>11. QED
  BY <1>1, <1>2, <1>3, <1>4, <1>5, <1>6, <1>7, <1>8, <1>9, <1>10
  DEF Next, RunnerStep

\* Every step performs an effect for the first time, settles one that has
\* happened, or is no step of the abstract specification.
LEMMA OneShotStep ==
    ASSUME Conditions, IInv, IInv', [Next]_vars
    PROVE  [OneShot!Next]_(OneShot!vars)
<1> DEFINE settled == {e \in Effects : ledger[e].status = "succeeded"}
<1> USE DEF OneShot!Next, OneShot!vars, OneShot!Perform, OneShot!Settle
<1>0. TypeOK /\ TypeOK'
  BY DEF IInv
<1>1. CASE UNCHANGED vars
  BY <1>1 DEF vars
<1>2. CASE /\ applied' = applied
           /\ \A d \in Effects : ledger'[d].status = ledger[d].status
  BY <1>2
<1>3. ASSUME ledger' = ledger, NEW r \in Runners, pc[r] = "working",
             applied' \in {applied, [applied EXCEPT ![target[r]] = @ + 1]}
      PROVE  [OneShot!Next]_(OneShot!vars)
  <2>1. /\ target[r] \in Effects
        /\ ledger[target[r]].status = "in_progress"
        /\ applied[target[r]] = 0
    BY <1>0, <1>3 DEF IInv, HolderOwnsRow, HolderKnows, Holds, TypeOK
  <2>2. settled' = settled
    BY <1>3
  <2>3. CASE applied' = applied
    BY <2>2, <2>3
  <2>4. CASE applied' = [applied EXCEPT ![target[r]] = 1]
    BY <2>1, <2>2, <2>4
  <2>5. QED
    BY <1>3, <2>1, <2>3, <2>4
<1>4. ASSUME applied' = applied, NEW e \in Effects, ledger[e].status # "succeeded",
             \A d \in Effects \ {e} : ledger'[d] = ledger[d]
      PROVE  [OneShot!Next]_(OneShot!vars)
  <2>1. CASE ledger'[e].status = "succeeded"
    <3>1. applied[e] = 1
      BY <1>4, <2>1 DEF IInv, RowIsTrue
    <3>2. settled' = settled \cup {e}
      BY <1>4, <2>1
    <3>3. QED
      BY <1>4, <3>1, <3>2
  <2>2. CASE ledger'[e].status # "succeeded"
    <3>1. settled' = settled
      BY <1>4, <2>2
    <3>2. QED
      BY <1>4, <3>1
  <2>3. QED
    BY <2>1, <2>2
<1>5. QED
  BY <1>1, <1>2, <1>3, <1>4, StepKinds

\* The ledger implements the one-shot effect.
THEOREM Refinement == ASSUME Conditions PROVE Spec => ImplementsOneShot
<1>1. Init => OneShot!Init
  BY DEF Init, OneShot!Init
<1>2. IInv /\ IInv' /\ [Next]_vars => [OneShot!Next]_(OneShot!vars)
  BY OneShotStep
<1>3. QED
  BY <1>1, <1>2, Invariance, PTL DEF Spec, ImplementsOneShot, OneShot!Spec
=============================================================================
