---------------------- MODULE ExecutionOwnershipProofs ----------------------
(***************************************************************************)
(* Proofs about ExecutionOwnership, for any number of invocations, worker  *)
(* processes and watchdog passes, and with no bound that matters: the      *)
(* arguments use nothing of MaxFencing.                                    *)
(***************************************************************************)
EXTENDS ExecutionOwnership, TLAPS

(* The parts of the inductive invariant. *)

\* A row that was never inserted has granted nothing.
AbsentRow == row.state = "absent" <=> row.fencing = 0

\* A lease runs only on a row that is there.
LiveRow == row.live => row.state # "absent"

\* Nobody knows of a token that the row has not reached, and only an invocation
\* that claims may know of none.
TokensAreBehind ==
    \A j \in Jobs : /\ token[j] <= row.fencing
                    /\ pc[j] \in Working => token[j] > 0

IInv == TypeOK /\ AbsentRow /\ LiveRow /\ TokensAreBehind
-----------------------------------------------------------------------------
\* What a claim writes into the row.
LEMMA TakenRow ==
    ASSUME NEW j \in Jobs, NEW f \in Nat, Take(j, f)
    PROVE  /\ row' \in Row
           /\ row'.job = j /\ row'.fencing = f
           /\ row'.state = "active" /\ row'.live = TRUE
<1> DEFINE taken == [state |-> "active", job |-> j, fencing |-> f, live |-> TRUE]
<1>1. taken \in Row
  BY DEF Row
<1>2. /\ taken.job = j /\ taken.fencing = f
      /\ taken.state = "active" /\ taken.live = TRUE
  OBVIOUS
<1>3. row' = taken
  BY DEF Take
<1> QED  BY <1>1, <1>2, <1>3

\* The row has its type, and stays in it.
LEMMA TypeStep ==
    ASSUME TypeOK, [Next]_vars
    PROVE  TypeOK'
<1> USE DEF TypeOK, Row, PC, Exec
<1>1. CASE UNCHANGED vars
  BY <1>1 DEF vars
<1>2. ASSUME NEW j \in Jobs, ReadOwner(j)
      PROVE  TypeOK'
  BY <1>2 DEF ReadOwner
<1>3. ASSUME NEW j \in Jobs, InsertOwner(j)
      PROVE  TypeOK'
  <2>1. row' \in Row
    BY <1>3, TakenRow DEF InsertOwner
  <2>2. token' \in [Jobs -> Nat] /\ pc' \in [Jobs -> PC]
    BY <1>3 DEF InsertOwner, Believe, End
  <2> QED  BY <2>1, <2>2, <1>3 DEF InsertOwner
<1>4. ASSUME NEW j \in Jobs, TakeOver(j)
      PROVE  TypeOK'
  <2>1. row' \in Row
    <3>1. CASE Take(j, token[j] + 1)
      <4>1. token[j] + 1 \in Nat
        OBVIOUS
      <4> QED  BY <3>1, <4>1, TakenRow
    <3> QED  BY <3>1, <1>4 DEF TakeOver
  <2>2. token' \in [Jobs -> Nat] /\ pc' \in [Jobs -> PC]
    BY <1>4 DEF TakeOver, Believe
  <2> QED  BY <2>1, <2>2, <1>4 DEF TakeOver
<1>5. ASSUME NEW j \in Jobs, AssertOwnership(j)
      PROVE  TypeOK'
  <2>1. pc' = [pc EXCEPT ![j] = "testing"] \/ pc' = [pc EXCEPT ![j] = "closing"]
    BY <1>5 DEF AssertOwnership
  <2> QED  BY <2>1, <1>5 DEF AssertOwnership
<1>6. ASSUME NEW j \in Jobs, StartRun(j)
      PROVE  TypeOK'
  BY <1>6 DEF StartRun
<1>7. ASSUME NEW j \in Jobs, Finish(j)
      PROVE  TypeOK'
  BY <1>7 DEF Finish
<1>8. ASSUME NEW j \in Jobs, ReleaseOwner(j)
      PROVE  TypeOK'
  BY <1>8 DEF ReleaseOwner, End
<1>9. ASSUME NEW j \in Jobs, RenewOwner(j)
      PROVE  TypeOK'
  BY <1>9 DEF RenewOwner
<1>10. ASSUME NEW j \in Jobs, Crash(j)
       PROVE  TypeOK'
  BY <1>10 DEF Crash, End
<1>11. CASE LeaseExpires
  BY <1>11 DEF LeaseExpires
<1>12. ASSUME NEW w \in Watchdogs,
              SelectOrphan(w) \/ SelectStuck(w) \/ WatchStep(w) \/ WatchdogDies(w)
       PROVE  TypeOK'
  BY <1>12 DEF SelectOrphan, SelectStuck, WatchStep, OrphanOwner, ParkOrphan,
               FailStuck, WatchdogDies, Watch
<1> QED
  BY <1>1, <1>2, <1>3, <1>4, <1>5, <1>6, <1>7, <1>8, <1>9, <1>10, <1>11, <1>12
     DEF Next, JobStep, ClaimStep

\* What a step may do to the row: nothing, a grant of the next token to the
\* invocation that makes it, or a change of state or lease under the same token.
LEMMA RowStep ==
    ASSUME IInv, [Next]_vars
    PROVE  \/ UNCHANGED row
           \/ \E j \in Jobs : /\ row'.fencing = row.fencing + 1
                              /\ row'.job = j
                              /\ row'.live
                              /\ row'.state = "active"
                              /\ token' = [token EXCEPT ![j] = row.fencing + 1]
                              /\ pc' = [pc EXCEPT ![j] = "owner"]
           \/ /\ row.state # "absent" /\ row'.state # "absent"
              /\ row'.fencing = row.fencing /\ row'.job = row.job
<1> USE DEF IInv, TypeOK, Row, AbsentRow, LiveRow
<1>1. ASSUME NEW j \in Jobs, InsertOwner(j)
      PROVE  \/ UNCHANGED row
             \/ /\ row'.fencing = row.fencing + 1
                /\ row'.job = j
                /\ row'.live
                /\ row'.state = "active"
                /\ token' = [token EXCEPT ![j] = row.fencing + 1]
                /\ pc' = [pc EXCEPT ![j] = "owner"]
  <2>1. CASE row.state = "absent" /\ Take(j, 1) /\ Believe(j, 1)
    <3>1. row.fencing = 0 /\ token' = [token EXCEPT ![j] = 1] /\ pc' = [pc EXCEPT ![j] = "owner"]
      BY <2>1 DEF Believe
    <3>2. row'.job = j /\ row'.fencing = 1 /\ row'.state = "active" /\ row'.live = TRUE
      BY <2>1, TakenRow
    <3> QED  BY <3>1, <3>2
  <2> QED  BY <2>1, <1>1 DEF InsertOwner
<1>2. ASSUME NEW j \in Jobs, TakeOver(j)
      PROVE  \/ UNCHANGED row
             \/ /\ row'.fencing = row.fencing + 1
                /\ row'.job = j
                /\ row'.live
                /\ row'.state = "active"
                /\ token' = [token EXCEPT ![j] = row.fencing + 1]
                /\ pc' = [pc EXCEPT ![j] = "owner"]
  <2>1. CASE row.fencing = token[j] /\ Take(j, token[j] + 1)
    <3>1. token[j] + 1 \in Nat
      OBVIOUS
    <3>2. token' = [token EXCEPT ![j] = token[j] + 1] /\ pc' = [pc EXCEPT ![j] = "owner"]
      BY <1>2 DEF TakeOver, Believe
    <3> QED  BY <2>1, <3>1, <3>2, TakenRow
  <2> QED  BY <2>1, <1>2 DEF TakeOver
<1>3. ASSUME NEW j \in Jobs, RenewOwner(j) \/ ReleaseOwner(j)
      PROVE  \/ UNCHANGED row
             \/ /\ row.state # "absent" /\ row'.state # "absent"
                /\ row'.fencing = row.fencing /\ row'.job = row.job
  BY <1>3 DEF RenewOwner, ReleaseOwner, Named
<1>4. CASE LeaseExpires
  BY <1>4 DEF LeaseExpires
<1>5. ASSUME NEW w \in Watchdogs, OrphanOwner(w)
      PROVE  \/ UNCHANGED row
             \/ /\ row.state # "absent" /\ row'.state # "absent"
                /\ row'.fencing = row.fencing /\ row'.job = row.job
  BY <1>5 DEF OrphanOwner
<1>6. ASSUME NEW j \in Jobs, \/ ReadOwner(j) \/ AssertOwnership(j) \/ StartRun(j)
                             \/ Finish(j) \/ Crash(j)
      PROVE  UNCHANGED row
  BY <1>6 DEF ReadOwner, AssertOwnership, StartRun, Finish, Crash
<1>7. ASSUME NEW w \in Watchdogs, \/ SelectOrphan(w) \/ SelectStuck(w) \/ ParkOrphan(w)
                                  \/ FailStuck(w) \/ WatchdogDies(w)
      PROVE  UNCHANGED row
  BY <1>7 DEF SelectOrphan, SelectStuck, ParkOrphan, FailStuck, WatchdogDies
<1>8. CASE UNCHANGED vars
  BY <1>8 DEF vars
<1> QED
  BY <1>1, <1>2, <1>3, <1>4, <1>5, <1>6, <1>7, <1>8
     DEF Next, JobStep, ClaimStep, WatchStep

\* The invariant is inductive.
LEMMA InvStep ==
    ASSUME IInv, [Next]_vars
    PROVE  IInv'
<1>1. TypeOK /\ TypeOK'
  BY TypeStep DEF IInv
<1>2. AbsentRow' /\ LiveRow'
  <2>1. CASE UNCHANGED row
    BY <2>1 DEF IInv, AbsentRow, LiveRow
  <2>2. CASE row'.state = "active" /\ row'.fencing = row.fencing + 1
    BY <2>2, <1>1 DEF AbsentRow, LiveRow, TypeOK, Row
  <2>3. CASE /\ row.state # "absent" /\ row'.state # "absent"
             /\ row'.fencing = row.fencing
    BY <2>3 DEF IInv, AbsentRow, LiveRow
  <2> QED  BY <2>1, <2>2, <2>3, RowStep
<1>3. TokensAreBehind'
  <2> SUFFICES ASSUME NEW k \in Jobs
               PROVE  /\ token'[k] <= row'.fencing
                      /\ pc'[k] \in Working => token'[k] > 0
    BY DEF TokensAreBehind
  <2> USE DEF TypeOK, Row, Working
  <2>1. row'.fencing >= row.fencing /\ row.fencing \in Nat /\ row'.fencing \in Nat
    BY <1>1, RowStep
  <2>2. /\ token[k] \in Nat /\ token[k] <= row.fencing
        /\ pc[k] \in Working => token[k] > 0
    BY <1>1 DEF IInv, TokensAreBehind
  <2>3. CASE token'[k] = token[k] /\ (pc'[k] \in Working => pc[k] \in Working)
    BY <2>1, <2>2, <2>3
  <2>4. CASE token'[k] = 0 /\ pc'[k] \notin Working
    BY <2>1, <2>4
  <2>5. CASE UNCHANGED vars
    BY <2>3, <2>5 DEF vars
  <2>6. ASSUME NEW j \in Jobs, ReadOwner(j)
        PROVE  token'[k] <= row'.fencing /\ (pc'[k] \in Working => token'[k] > 0)
    BY <1>1, <2>2, <2>6 DEF ReadOwner
  <2>7. ASSUME NEW j \in Jobs, InsertOwner(j) \/ TakeOver(j)
        PROVE  token'[k] <= row'.fencing /\ (pc'[k] \in Working => token'[k] > 0)
    <3>1. CASE k # j
      <4>1. token'[k] = token[k] /\ pc'[k] = pc[k]
        BY <1>1, <2>7, <3>1 DEF InsertOwner, TakeOver, Believe, End
      <4> QED  BY <4>1, <2>3
    <3>2. CASE k = j /\ InsertOwner(j) /\ row.state # "absent"
      <4>1. token'[k] = 0 /\ pc'[k] = "idle"
        BY <1>1, <3>2 DEF InsertOwner, End
      <4> QED  BY <4>1, <2>4
    <3>3. CASE k = j /\ InsertOwner(j) /\ row.state = "absent"
      <4>1. token'[k] = 1 /\ Take(j, 1)
        BY <1>1, <3>3 DEF InsertOwner, Believe
      <4>2. row'.fencing = 1
        BY <4>1, TakenRow
      <4> QED  BY <4>1, <4>2
    <3>4. CASE k = j /\ TakeOver(j) /\ row.fencing = token[j]
      <4>1. token'[k] = token[j] + 1 /\ Take(j, token[j] + 1) /\ token[j] + 1 \in Nat
        BY <1>1, <3>4 DEF TakeOver, Believe
      <4>2. row'.fencing = token[j] + 1
        BY <4>1, TakenRow
      <4> QED  BY <4>1, <4>2, <2>2, <3>4
    <3>5. CASE k = j /\ TakeOver(j) /\ row.fencing # token[j]
      <4>1. token'[k] = token[j] + 1 /\ row' = row
        BY <1>1, <3>5 DEF TakeOver, Believe
      <4> QED  BY <4>1, <2>1, <2>2, <3>5
    <3> QED  BY <2>7, <3>1, <3>2, <3>3, <3>4, <3>5
  <2>8. ASSUME NEW j \in Jobs, ReleaseOwner(j) \/ Crash(j)
        PROVE  token'[k] <= row'.fencing /\ (pc'[k] \in Working => token'[k] > 0)
    <3>1. \/ token'[k] = token[k] /\ pc'[k] = pc[k]
          \/ token'[k] = 0 /\ pc'[k] = "idle"
      BY <1>1, <2>8 DEF ReleaseOwner, Crash, End
    <3> QED  BY <3>1, <2>3, <2>4
  <2>9. ASSUME NEW j \in Jobs, AssertOwnership(j) \/ StartRun(j) \/ Finish(j)
        PROVE  token'[k] <= row'.fencing /\ (pc'[k] \in Working => token'[k] > 0)
    <3>1. token'[k] = token[k]
      BY <2>9 DEF AssertOwnership, StartRun, Finish
    <3>2. pc[j] \in Working /\ (k # j => pc'[k] = pc[k])
      BY <1>1, <2>9 DEF AssertOwnership, StartRun, Finish
    <3> QED  BY <3>1, <3>2, <2>3
  <2>10. ASSUME NEW j \in Jobs, RenewOwner(j)
         PROVE  token'[k] <= row'.fencing /\ (pc'[k] \in Working => token'[k] > 0)
    BY <2>3, <2>10 DEF RenewOwner
  <2>11. CASE LeaseExpires
    BY <2>3, <2>11 DEF LeaseExpires
  <2>12. ASSUME NEW w \in Watchdogs,
                SelectOrphan(w) \/ SelectStuck(w) \/ WatchStep(w) \/ WatchdogDies(w)
         PROVE  token'[k] <= row'.fencing /\ (pc'[k] \in Working => token'[k] > 0)
    BY <2>3, <2>12 DEF SelectOrphan, SelectStuck, WatchStep, OrphanOwner, ParkOrphan,
                       FailStuck, WatchdogDies
  <2> QED
    BY <2>5, <2>6, <2>7, <2>8, <2>9, <2>10, <2>11, <2>12 DEF Next, JobStep, ClaimStep
<1> QED  BY <1>1, <1>2, <1>3 DEF IInv

\* An invocation that is at work, and still is after the step, keeps its token.
LEMMA TokenKept ==
    ASSUME TypeOK, [Next]_vars, NEW j \in Jobs, pc[j] \in Working, pc'[j] \in Working
    PROVE  token'[j] = token[j]
<1> USE DEF TypeOK, Working
<1>1. ASSUME NEW k \in Jobs, ReadOwner(k) \/ InsertOwner(k) \/ TakeOver(k)
      PROVE  token'[j] = token[j]
  BY <1>1 DEF ReadOwner, InsertOwner, TakeOver, Believe, End
<1>2. ASSUME NEW k \in Jobs, ReleaseOwner(k) \/ Crash(k)
      PROVE  token'[j] = token[j]
  BY <1>2 DEF ReleaseOwner, Crash, End
<1>3. ASSUME NEW k \in Jobs, \/ AssertOwnership(k) \/ StartRun(k) \/ Finish(k)
                             \/ RenewOwner(k)
      PROVE  token'[j] = token[j]
  BY <1>3 DEF AssertOwnership, StartRun, Finish, RenewOwner
<1>4. CASE LeaseExpires
  BY <1>4 DEF LeaseExpires
<1>5. ASSUME NEW w \in Watchdogs,
             SelectOrphan(w) \/ SelectStuck(w) \/ WatchStep(w) \/ WatchdogDies(w)
      PROVE  token'[j] = token[j]
  BY <1>5 DEF SelectOrphan, SelectStuck, WatchStep, OrphanOwner, ParkOrphan,
              FailStuck, WatchdogDies
<1>6. CASE UNCHANGED vars
  BY <1>6 DEF vars
<1> QED  BY <1>1, <1>2, <1>3, <1>4, <1>5, <1>6 DEF Next, JobStep, ClaimStep

LEMMA InitInv ==
    ASSUME Init
    PROVE  IInv
<1>1. PICK k \in Jobs :
        row = [state |-> "absent", job |-> k, fencing |-> 0, live |-> FALSE]
  BY DEF Init
<1>2. row \in Row /\ row.state = "absent" /\ row.fencing = 0 /\ row.live = FALSE
  BY <1>1 DEF Row
<1>3. TypeOK
  BY <1>2 DEF Init, TypeOK, PC, Exec
<1>4. TokensAreBehind
  BY <1>2 DEF Init, TokensAreBehind, Working
<1> QED  BY <1>2, <1>3, <1>4 DEF IInv, AbsentRow, LiveRow

LEMMA Invariance == Spec => []IInv
BY InitInv, InvStep, PTL DEF Spec
-----------------------------------------------------------------------------
\* The ownership row, the invocations' local state and the watchdog passes keep
\* to their types.
THEOREM TypeCorrect == Spec => []TypeOK
<1>1. IInv => TypeOK
  BY DEF IInv
<1> QED  BY <1>1, Invariance, PTL

\* A claim that validates is the one the row names.
LEMMA ValidIsNamed ==
    ASSUME NEW j \in Jobs, Verdict(j) = "valid"
    PROVE  Named(j)
BY DEF Verdict

\* Whoever passes has the newest fencing_token anybody knows of.
THEOREM NewestAuthority == Spec => []AuthorityIsNewest
<1>1. IInv => AuthorityIsNewest
  BY ValidIsNamed DEF IInv, TokensAreBehind, AuthorityIsNewest, Named
<1> QED  BY <1>1, Invariance, PTL

\* A claim fenced out or replaced never passes again.
THEOREM FencedForGood == Spec => ReplacedForGood
<1>1. ASSUME IInv, [Next]_vars, NEW j \in Jobs,
             pc[j] \in Working, Verdict(j) \in {"FENCED_OUT", "OWNER_REPLACED"},
             pc'[j] \in Working
      PROVE  Verdict(j)' \in {"FENCED_OUT", "OWNER_REPLACED"}
  <2> USE DEF TypeOK, Row
  <2>1. TypeOK /\ token[j] \in Nat /\ row.fencing \in Nat /\ token[j] <= row.fencing
    BY <1>1 DEF IInv, TokensAreBehind
  <2>2. row.state # "absent" /\ ~Named(j)
    BY <1>1, <2>1 DEF Verdict, Named
  <2>3. SUFFICES row'.state # "absent" /\ ~Named(j)'
    BY DEF Verdict
  <2>4. token'[j] = token[j]
    BY <1>1, <2>1, TokenKept
  <2>5. CASE UNCHANGED row
    BY <2>2, <2>4, <2>5 DEF Named
  <2>6. CASE /\ row'.state = "active" /\ row'.fencing = row.fencing + 1
    BY <2>1, <2>4, <2>6 DEF Named
  <2>7. CASE /\ row.state # "absent" /\ row'.state # "absent"
             /\ row'.fencing = row.fencing /\ row'.job = row.job
    BY <2>2, <2>4, <2>7 DEF Named
  <2> QED  BY <1>1, <2>5, <2>6, <2>7, RowStep
<1>2. IInv /\ [Next]_vars =>
        [\A j \in Jobs :
           /\ pc[j] \in Working /\ Verdict(j) \in {"FENCED_OUT", "OWNER_REPLACED"}
           /\ pc'[j] \in Working
           => Verdict(j)' \in {"FENCED_OUT", "OWNER_REPLACED"}]_vars
  BY <1>1
<1> QED  BY <1>2, Invariance, PTL DEF Spec, ReplacedForGood

\* The row implements a fenced lease.
THEOREM Refinement == Spec => ImplementsFencedLease
<1>1. Init => Lease!Init
  BY DEF Init, Lease!Init
<1>2. ASSUME IInv, [Next]_vars
      PROVE  [Lease!Next]_(Lease!vars)
  <2> USE DEF Lease!Next, Lease!vars, Lease!Grant, Lease!Lapse, Lease!Renew
  <2>1. CASE UNCHANGED row
    BY <2>1
  <2>2. ASSUME NEW j \in Jobs,
               row'.fencing = row.fencing + 1, row'.job = j, row'.live
        PROVE  [Lease!Next]_(Lease!vars)
    <3>1. row'.live = TRUE
      BY <1>2, <2>2, TypeStep DEF IInv, TypeOK, Row
    <3> QED  BY <2>2, <3>1
  <2>3. CASE /\ row.state # "absent" /\ row'.state # "absent"
             /\ row'.fencing = row.fencing /\ row'.job = row.job
    <3>1. row'.live \in BOOLEAN /\ row.fencing \in Nat /\ row.fencing # 0
      BY <1>2, <2>3, TypeStep DEF IInv, AbsentRow, TypeOK, Row
    <3>2. CASE row'.live = FALSE
      BY <2>3, <3>2
    <3>3. CASE row'.live = TRUE
      BY <2>3, <3>1, <3>3
    <3> QED  BY <3>1, <3>2, <3>3
  <2> QED  BY <1>2, <2>1, <2>2, <2>3, RowStep
<1> QED  BY <1>1, <1>2, Invariance, PTL DEF Spec, ImplementsFencedLease, Lease!Spec
=============================================================================
