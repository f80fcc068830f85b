---------------------- MODULE ProductionDispatchProofs ----------------------
(***************************************************************************)
(* Proofs about ProductionDispatch, for any number of deliveries, keys,    *)
(* workflows and users, any limits and any number of attempts.             *)
(***************************************************************************)
EXTENDS ProductionDispatch, FiniteSetTheorems, TLAPS

(* The parts of the inductive invariants. *)

\* A job that is not over has an attempt left, and a job is some execution's.
Live == {"waiting", "active", "running", "settled", "thrown", "released", "rethrown"}
JobsAreMade ==
    \A k \in Keys :
      /\ jobs[k].state \in Live => jobs[k].made < Attempts
      /\ jobs[k].state # "none" => jobs[k].exec \in Deliveries
      /\ jobs[k].state = "none" => jobs[k].exec = NoOne

\* Only finitely many reservations are live, so that they can be counted.
Holders == {d \in Deliveries : slots[d] = "held"}

IInv == TypeOK /\ JobsAreMade /\ IsFiniteSet(Holders) /\ WithinLimits

\* The conditions under which a key has one execution, as the run has them:
\* the call is done within its lease, and an error means that nothing was
\* written.
Conditions == LeaseCoversDispatch /\ ~RepliesMayBeLost

\* A key has one row at most, and an execution that exists has kept its key.
KeysAreUnique ==
    \A d, e \in Deliveries :
      KeyOf[d] = KeyOf[e] /\ locks[d] # "none" /\ locks[e] # "none" => d = e
RowsHaveKeys == \A d \in Deliveries : rows[d] # "none" => locks[d] # "none"

\* What a call has done so far, by where it is, and what it has tried to take
\* back in vain.
Orderly(d) ==
    /\ pc[d] = "idle" => locks[d] = "none"
    /\ pc[d] = "refused" => locks[d] = "none" \/ <<"key", d>> \in missed
    /\ pc[d] \in {"slot", "insert"} => locks[d] = "live"
    /\ pc[d] \in {"slot", "insert", "unslot", "unlock", "refused"} => rows[d] = "none"
    /\ pc[d] = "accepted" => rows[d] # "none"
    /\ pc[d] \in {"enqueue", "giveup", "fail"} => rows[d] \in {"queued", "failed"}
    /\ pc[d] = "unavailable" => rows[d] = "failed" \/ (rows[d] = "queued" /\ <<"row", d>> \in missed)
    /\ pc[d] \in {"idle", "slot"} => slots[d] # "held"
    /\ pc[d] \in {"unlock", "refused", "fail", "unavailable"} =>
         slots[d] # "held" \/ <<"slot", d>> \in missed

CallsAreOrderly == \A d \in Deliveries : Orderly(d)

\* A job is there only for a call that has been accepted.
JobsAreAccepted ==
    \A k \in Keys : jobs[k].state # "none" => pc[jobs[k].exec] = "accepted"

\* A key that the sweep is about to delete is one that no call will need.
OrphansAreOver ==
    \A d \in Deliveries :
      <<"key", d>> \in sweeps => rows[d] = "none" /\ pc[d] \notin {"idle", "slot", "insert"}

KeyInv == KeysAreUnique /\ RowsHaveKeys /\ CallsAreOrderly /\ JobsAreAccepted /\ OrphansAreOver
-----------------------------------------------------------------------------
(* Jobs *)

\* What a step makes of a job.
Sound(j) ==
    /\ j.state \in Live => j.made < Attempts
    /\ j.state # "none" => j.exec \in Deliveries
    /\ j.state = "none" => j.exec = NoOne

LEMMA OneJob ==
    ASSUME TypeOK, JobsAreMade, NEW k \in Keys
    PROVE  /\ jobs[k] \in Job /\ Sound(jobs[k])
           /\ jobs[k].made \in Nat /\ Attempts \in Nat
           /\ \A j \in Job : Sound(j) /\ jobs' = [jobs EXCEPT ![k] = j]
                => jobs' \in [Keys -> Job] /\ JobsAreMade'
<1>1. jobs[k] \in Job /\ Sound(jobs[k]) /\ Attempts \in Nat
  BY DispatchAssumption DEF TypeOK, JobsAreMade, Sound
<1>2. jobs[k].made \in Nat
  BY <1>1 DEF Job
<1>3. ASSUME NEW j \in Job, Sound(j), jobs' = [jobs EXCEPT ![k] = j]
      PROVE  jobs' \in [Keys -> Job] /\ JobsAreMade'
  <2>1. jobs \in [Keys -> Job]
    BY DEF TypeOK
  <2>2. jobs' \in [Keys -> Job] /\ \A l \in Keys : jobs'[l] = IF l = k THEN j ELSE jobs[l]
    BY <1>3, <2>1
  <2>3. ASSUME NEW l \in Keys
        PROVE  Sound(jobs'[l])
    BY <1>3, <2>2, <2>3 DEF JobsAreMade, Sound
  <2> QED  BY <2>2, <2>3 DEF JobsAreMade, Sound
<1> QED  BY <1>1, <1>2, <1>3

\* The worker's steps move a job on, and use up an attempt at most.
LEMMA JobMoves ==
    ASSUME TypeOK, JobsAreMade, NEW k \in Keys, RunStep(k) \/ WorkerDies(k)
    PROVE  /\ jobs[k].state \in Live
           /\ \E s \in Live \cup {"completed", "failed"}, m \in 0 .. Attempts, b \in BOOLEAN :
                /\ jobs' = [jobs EXCEPT ![k] = [exec |-> jobs[k].exec, state |-> s,
                                                made |-> m, stalled |-> b]]
                /\ s \in Live => m < Attempts
<1> DEFINE j == jobs[k]
<1>1. j \in Job /\ Attempts \in Nat /\ j.made \in Nat
      /\ (j.state \in Live => j.made < Attempts)
  BY OneJob DEF Sound
<1>2. j = [exec |-> j.exec, state |-> j.state, made |-> j.made, stalled |-> j.stalled]
      /\ j.made \in 0 .. Attempts /\ j.stalled \in BOOLEAN
  BY <1>1 DEF Job
<1>3. j.state \in Live
  BY DEF RunStep, Take, TurnAway, StartRun, EndRun, Throw, ReleaseSlot, Report, WorkerDies,
     JobStep, Live
<1>4. j.made < Attempts
  BY <1>1, <1>3
<1>5. ASSUME NEW s \in Live \cup {"completed", "failed"}, JobTo(k, s)
      PROVE  jobs' = [jobs EXCEPT ![k] = [exec |-> j.exec, state |-> s, made |-> j.made,
                                          stalled |-> j.stalled]]
  <2>1. [j EXCEPT !.state = s] = [exec |-> j.exec, state |-> s, made |-> j.made,
                                  stalled |-> j.stalled]
    BY <1>1 DEF Job
  <2>2. jobs' = [jobs EXCEPT ![k] = [j EXCEPT !.state = s]]
    BY <1>5 DEF JobTo
  <2> QED  BY <2>1, <2>2
<1>6. CASE \E s \in Live \cup {"completed", "failed"} : JobTo(k, s)
  BY <1>2, <1>3, <1>4, <1>5, <1>6
<1>7. CASE UseAttempt(k)
  <2> DEFINE m == j.made + 1
             s == IF m < Attempts THEN "waiting" ELSE "failed"
  <2>1. jobs' = [jobs EXCEPT ![k] = [exec |-> j.exec, state |-> s, made |-> m,
                                     stalled |-> j.stalled]]
    <3>1. jobs' = [jobs EXCEPT ![k].made = m, ![k].state = s]
      BY <1>7 DEF UseAttempt
    <3> DEFINE x == [j EXCEPT !.made = m, !.state = s]
    <3>4. m \in 0 .. Attempts /\ s \in {"waiting", "failed"}
      BY <1>1, <1>4
    <3> HIDE DEF m, s
    <3>5. x \in Job /\ x.exec = j.exec /\ x.state = s /\ x.made = m /\ x.stalled = j.stalled
      BY <1>1, <3>4 DEF Job
    <3>2. x = [exec |-> j.exec, state |-> s, made |-> m, stalled |-> j.stalled]
      <4> HIDE DEF x
      <4> QED  BY <3>5 DEF Job
    <3>3. jobs' = [jobs EXCEPT ![k] = [j EXCEPT !.made = m, !.state = s]]
      BY <3>1 DEF TypeOK
    <3> QED  BY <3>2, <3>3
  <2>2. m \in 0 .. Attempts
    BY <1>1, <1>4
  <2>3. s \in Live \cup {"completed", "failed"} /\ (s \in Live => m < Attempts)
    BY DEF Live
  <2> HIDE DEF s, m
  <2> QED  BY <1>2, <1>3, <2>1, <2>2, <2>3
<1>8. CASE WorkerDies(k)
  <2> DEFINE s == IF j.stalled THEN "failed" ELSE "waiting"
  <2>1. jobs' = [jobs EXCEPT ![k] = [exec |-> j.exec, state |-> s, made |-> j.made,
                                     stalled |-> TRUE]]
    <3>1. jobs' = [jobs EXCEPT ![k].stalled = TRUE, ![k].state = s]
      BY <1>8 DEF WorkerDies
    <3> DEFINE x == [j EXCEPT !.stalled = TRUE, !.state = s]
    <3>4. s \in {"waiting", "failed"}
      OBVIOUS
    <3> HIDE DEF s
    <3>5. x \in Job /\ x.exec = j.exec /\ x.state = s /\ x.made = j.made /\ x.stalled = TRUE
      BY <1>1, <3>4 DEF Job
    <3>2. x = [exec |-> j.exec, state |-> s, made |-> j.made, stalled |-> TRUE]
      <4> HIDE DEF x
      <4> QED  BY <3>5 DEF Job
    <3>3. jobs' = [jobs EXCEPT ![k] = [j EXCEPT !.stalled = TRUE, !.state = s]]
      BY <3>1 DEF TypeOK
    <3> QED  BY <3>2, <3>3
  <2>2. s \in Live \cup {"completed", "failed"}
    BY DEF Live
  <2> HIDE DEF s
  <2> QED  BY <1>2, <1>3, <1>4, <2>1, <2>2
<1>9. (\E s \in Live \cup {"completed", "failed"} : JobTo(k, s)) \/ UseAttempt(k) \/ WorkerDies(k)
  BY DEF RunStep, Take, TurnAway, StartRun, EndRun, Throw, ReleaseSlot, Report, JobStep, Live
<1> QED  BY <1>6, <1>7, <1>8, <1>9

LEMMA JobsMove ==
    ASSUME TypeOK, JobsAreMade, [Next]_vars
    PROVE  jobs' \in [Keys -> Job] /\ JobsAreMade'
<1>1. CASE jobs' = jobs
  BY <1>1 DEF TypeOK, JobsAreMade
<1>2. ASSUME NEW k \in Keys, RunStep(k) \/ WorkerDies(k)
      PROVE  jobs' \in [Keys -> Job] /\ JobsAreMade'
  <2>1. PICK s \in Live \cup {"completed", "failed"}, m \in 0 .. Attempts, b \in BOOLEAN :
          /\ jobs' = [jobs EXCEPT ![k] = [exec |-> jobs[k].exec, state |-> s,
                                          made |-> m, stalled |-> b]]
          /\ s \in Live => m < Attempts
    BY <1>2, JobMoves
  <2> DEFINE j == [exec |-> jobs[k].exec, state |-> s, made |-> m, stalled |-> b]
  <2>2. jobs[k].exec \in Deliveries
    BY <1>2, JobMoves, OneJob DEF Sound, Live
  <2>3. j \in Job /\ Sound(j)
    BY <2>1, <2>2 DEF Job, Sound, Live
  <2> HIDE DEF j
  <2> QED  BY <2>1, <2>3, OneJob DEF j
<1>3. ASSUME NEW k \in Keys, Forget(k)
      PROVE  jobs' \in [Keys -> Job] /\ JobsAreMade'
  <2>1. NoJob \in Job /\ Sound(NoJob)
    BY DispatchAssumption DEF NoJob, Job, Sound, Live
  <2> QED  BY <1>3, <2>1, OneJob DEF Forget
<1>4. ASSUME NEW d \in Deliveries, Enqueue(d), jobs' # jobs
      PROVE  jobs' \in [Keys -> Job] /\ JobsAreMade'
  <2> DEFINE j == [NoJob EXCEPT !.exec = d, !.state = "waiting"]
  <2>1. j \in Job /\ Sound(j)
    <3>1. NoJob \in Job
      BY DispatchAssumption DEF NoJob, Job
    <3>2. j \in Job /\ j.exec = d /\ j.state = "waiting" /\ j.made = 0
      BY <3>1 DEF Job, NoJob
    <3> HIDE DEF j
    <3> QED  BY <3>2, DispatchAssumption DEF Sound, Live
  <2>2. KeyOf[d] \in Keys /\ jobs' = [jobs EXCEPT ![KeyOf[d]] = j]
    BY <1>4 DEF Enqueue, Keys
  <2> HIDE DEF j
  <2> QED  BY <2>1, <2>2, OneJob
<1>5. \/ jobs' = jobs
      \/ \E k \in Keys : RunStep(k) \/ WorkerDies(k) \/ Forget(k)
      \/ \E d \in Deliveries : Enqueue(d)
  BY DEF Next, vars, CallStep, SweepStep, ReserveKey, KeyTaken, FindWinner, ReadWinner, ReserveSlot,
     InsertRow, Unslot, Unlock, GiveUp, FailRow, Crash, LockLapses, SlotLapses, RowAges,
     SelectOrphanKey, DeleteOrphanKey, SelectStuckRun, FailStuckRun, FailQueued, ReclaimSlots
<1> QED  BY <1>1, <1>2, <1>3, <1>4, <1>5
-----------------------------------------------------------------------------
(* Reservations *)

\* Live reservations go away, or one is added where there was room.
LEMMA SlotsMove ==
    ASSUME TypeOK, JobsAreMade, [Next]_vars
    PROVE  /\ slots' \in [Deliveries -> {"none", "held", "lapsed", "released"}]
           /\ \/ \A e \in Deliveries : slots'[e] = "held" => slots[e] = "held"
              \/ \E d \in Deliveries :
                   /\ HasRoom(d)
                   /\ \A e \in Deliveries \ {d} : slots'[e] = "held" => slots[e] = "held"
<1> DEFINE Slots == [Deliveries -> {"none", "held", "lapsed", "released"}]
           Fewer == \A e \in Deliveries : slots'[e] = "held" => slots[e] = "held"
<1>1. slots \in Slots
  BY DEF TypeOK
<1>2. Reclaimed \in Slots /\ \A e \in Deliveries : Reclaimed[e] = "held" => slots[e] = "held"
  BY <1>1 DEF Reclaimed
<1>3. ASSUME NEW d \in Deliveries, slots' = Freed(d)
      PROVE  slots' \in Slots /\ Fewer
  BY <1>1, <1>3 DEF Freed
<1>4. CASE slots' = slots
  BY <1>1, <1>4
<1>5. ASSUME NEW d \in Deliveries, ReserveSlot(d)
      PROVE  /\ slots' \in Slots
             /\ \/ Fewer
                \/ HasRoom(d) /\ \A e \in Deliveries \ {d} : slots'[e] = "held" => slots[e] = "held"
  <2>1. slots' = Reclaimed \/ (HasRoom(d) /\ slots' = [Reclaimed EXCEPT ![d] = "held"])
    BY <1>5 DEF ReserveSlot
  <2> QED  BY <1>2, <2>1
<1>6. ASSUME NEW d \in Deliveries, Unslot(d) \/ GiveUp(d)
      PROVE  slots' \in Slots /\ Fewer
  BY <1>3, <1>4, <1>6 DEF Unslot, GiveUp, FreeSlot
<1>7. ASSUME NEW d \in Deliveries, SlotLapses(d)
      PROVE  slots' \in Slots /\ Fewer
  BY <1>1, <1>7 DEF SlotLapses
<1>8. ASSUME NEW k \in Keys, TurnAway(k) \/ ReleaseSlot(k)
      PROVE  slots' \in Slots /\ Fewer
  <2>1. jobs[k].exec \in Deliveries
    BY <1>8, OneJob DEF TurnAway, ReleaseSlot, JobStep, Sound
  <2>2. slots' = slots \/ slots' = Freed(jobs[k].exec)
    BY <1>8 DEF TurnAway, ReleaseSlot
  <2> QED  BY <1>3, <1>4, <2>1, <2>2
<1>9. CASE ReclaimSlots
  BY <1>2, <1>9 DEF ReclaimSlots
<1>10. \/ slots' = slots \/ ReclaimSlots
       \/ \E k \in Keys : TurnAway(k) \/ ReleaseSlot(k)
       \/ \E d \in Deliveries : ReserveSlot(d) \/ Unslot(d) \/ GiveUp(d) \/ SlotLapses(d)
  BY DEF Next, vars, CallStep, SweepStep, RunStep, ReserveKey, KeyTaken, FindWinner, ReadWinner,
     InsertRow, Enqueue, Unlock, FailRow, Crash, LockLapses, RowAges, SelectOrphanKey,
     DeleteOrphanKey, SelectStuckRun, FailStuckRun, FailQueued, Take, StartRun, EndRun, Throw,
     Report, WorkerDies, Forget
<1> QED  BY <1>4, <1>5, <1>6, <1>7, <1>8, <1>9, <1>10

LEMMA Counted ==
    ASSUME IsFiniteSet(Holders), NEW S \in SUBSET Deliveries
    PROVE  IsFiniteSet({e \in S : slots[e] = "held"}) /\ Held(slots, S) \in Nat
<1>1. IsFiniteSet({e \in S : slots[e] = "held"})
  BY FS_Subset DEF Holders
<1> QED  BY <1>1, FS_CardinalityType DEF Held

\* Nobody in S has been given a reservation.
LEMMA NoneAdded ==
    ASSUME IsFiniteSet(Holders), NEW S \in SUBSET Deliveries,
           \A e \in S : slots'[e] = "held" => slots[e] = "held"
    PROVE  IsFiniteSet({e \in S : slots'[e] = "held"}) /\ Held(slots', S) \in Nat
           /\ Held(slots', S) <= Held(slots, S)
<1> DEFINE A == {e \in S : slots[e] = "held"}
           B == {e \in S : slots'[e] = "held"}
<1>1. IsFiniteSet(A)
  BY Counted
<1>2. B \in SUBSET A
  OBVIOUS
<1>3. IsFiniteSet(B) /\ Cardinality(B) <= Cardinality(A)
  BY <1>1, <1>2, FS_Subset
<1>4. Cardinality(B) \in Nat
  BY <1>3, FS_CardinalityType
<1> QED  BY <1>3, <1>4 DEF Held

\* Nobody in S but d has.
LEMMA OneAdded ==
    ASSUME IsFiniteSet(Holders), NEW S \in SUBSET Deliveries, NEW d,
           \A e \in S \ {d} : slots'[e] = "held" => slots[e] = "held"
    PROVE  IsFiniteSet({e \in S : slots'[e] = "held"}) /\ Held(slots', S) \in Nat
           /\ Held(slots', S) <= Held(slots, S) + 1
<1> DEFINE A == {e \in S : slots[e] = "held"}
           B == {e \in S : slots'[e] = "held"}
<1>1. IsFiniteSet(A) /\ Cardinality(A) \in Nat
  BY Counted DEF Held
<1>2. IsFiniteSet(A \cup {d}) /\ Cardinality(A \cup {d}) <= Cardinality(A) + 1
  <2>1. /\ IsFiniteSet(A \cup {d})
        /\ Cardinality(A \cup {d}) = IF d \in A THEN Cardinality(A) ELSE Cardinality(A) + 1
    BY <1>1, FS_AddElement
  <2> QED  BY <1>1, <2>1
<1>3. B \in SUBSET (A \cup {d})
  OBVIOUS
<1>4. IsFiniteSet(B) /\ Cardinality(B) <= Cardinality(A \cup {d})
  BY <1>2, <1>3, FS_Subset
<1>5. Cardinality(B) \in Nat /\ Cardinality(A \cup {d}) \in Nat
  BY <1>2, <1>4, FS_CardinalityType
<1> HIDE DEF A, B
<1>6. Cardinality(B) <= Cardinality(A) + 1
  BY <1>1, <1>2, <1>4, <1>5
<1> QED  BY <1>4, <1>5, <1>6 DEF A, B, Held

LEMMA LimitsKept ==
    ASSUME IInv, [Next]_vars
    PROVE  IsFiniteSet(Holders') /\ WithinLimits'
<1> USE DEF IInv
<1>1. \A d \in Deliveries : SameUser(d) \in SUBSET Deliveries /\ SameWorkflow(d) \in SUBSET Deliveries
  BY DEF SameUser, SameWorkflow
<1>2. MaxPerUser \in Nat /\ MaxPerWorkflow \in Nat
  BY DispatchAssumption
<1>3. CASE \A e \in Deliveries : slots'[e] = "held" => slots[e] = "held"
  <2>1. IsFiniteSet(Holders')
    BY <1>3, NoneAdded DEF Holders
  <2>2. ASSUME NEW e \in Deliveries
        PROVE  Held(slots', SameUser(e)) <= MaxPerUser
               /\ Held(slots', SameWorkflow(e)) <= MaxPerWorkflow
    <3>1. /\ Held(slots', SameUser(e)) <= Held(slots, SameUser(e))
          /\ Held(slots', SameWorkflow(e)) <= Held(slots, SameWorkflow(e))
          /\ Held(slots', SameUser(e)) \in Nat /\ Held(slots', SameWorkflow(e)) \in Nat
          /\ Held(slots, SameUser(e)) \in Nat /\ Held(slots, SameWorkflow(e)) \in Nat
      BY <1>1, <1>3, NoneAdded, Counted
    <3> QED  BY <1>2, <3>1 DEF WithinLimits
  <2> QED  BY <2>1, <2>2 DEF WithinLimits, SameUser, SameWorkflow
<1>4. ASSUME NEW d \in Deliveries, HasRoom(d),
             \A e \in Deliveries \ {d} : slots'[e] = "held" => slots[e] = "held"
      PROVE  IsFiniteSet(Holders') /\ WithinLimits'
  <2>1. IsFiniteSet(Holders')
    BY <1>4, OneAdded DEF Holders
  <2>2. ASSUME NEW S \in SUBSET Deliveries, NEW limit \in Nat,
               Held(slots, S) <= limit, d \in S => Held(slots, S) < limit
        PROVE  Held(slots', S) <= limit
    <3>1. CASE d \in S
      <4>1. Held(slots', S) <= Held(slots, S) + 1 /\ Held(slots', S) \in Nat /\ Held(slots, S) \in Nat
        BY <1>4, OneAdded, Counted
      <4> QED  BY <2>2, <3>1, <4>1
    <3>2. CASE d \notin S
      <4>1. Held(slots', S) <= Held(slots, S) /\ Held(slots', S) \in Nat /\ Held(slots, S) \in Nat
        BY <1>4, <3>2, NoneAdded, Counted
      <4> QED  BY <2>2, <4>1
    <3> QED  BY <3>1, <3>2
  <2>3. ASSUME NEW e \in Deliveries
        PROVE  /\ d \in SameUser(e) => SameUser(e) = SameUser(d)
               /\ d \in SameWorkflow(e) => SameWorkflow(e) = SameWorkflow(d)
    BY DEF SameUser, SameWorkflow
  <2>4. ASSUME NEW e \in Deliveries
        PROVE  Held(slots', SameUser(e)) <= MaxPerUser
               /\ Held(slots', SameWorkflow(e)) <= MaxPerWorkflow
    <3>1. /\ d \in SameUser(e) => Held(slots, SameUser(e)) < MaxPerUser
          /\ d \in SameWorkflow(e) => Held(slots, SameWorkflow(e)) < MaxPerWorkflow
      BY <1>4, <2>3 DEF HasRoom
    <3>2. Held(slots, SameUser(e)) <= MaxPerUser /\ Held(slots, SameWorkflow(e)) <= MaxPerWorkflow
      BY DEF WithinLimits
    <3> QED  BY <1>1, <1>2, <2>2, <3>1, <3>2
  <2> QED  BY <2>1, <2>4 DEF WithinLimits, SameUser, SameWorkflow
<1> QED  BY <1>3, <1>4, SlotsMove
-----------------------------------------------------------------------------
(* Types *)

LEMMA Running ==
    ASSUME TypeOK, JobsAreMade, NEW k \in Keys, jobs[k].state \in Live
    PROVE  jobs[k].exec \in Deliveries
BY OneJob DEF Sound, Live

LEMMA RowsMove ==
    ASSUME TypeOK, JobsAreMade, [Next]_vars
    PROVE  /\ rows' \in [Deliveries -> {"none", "queued", "running", "waiting", "success", "failed"}]
           /\ aged' \subseteq Deliveries
<1> DEFINE Written ==
             /\ rows' \in [Deliveries -> {"none", "queued", "running", "waiting", "success", "failed"}]
             /\ aged' \subseteq Deliveries
<1>1. /\ rows \in [Deliveries -> {"none", "queued", "running", "waiting", "success", "failed"}]
      /\ aged \subseteq Deliveries
  BY DEF TypeOK
<1>2. ASSUME NEW d \in Deliveries, NEW s \in {"running", "success", "failed", "waiting"}, WriteRow(d, s)
      PROVE  Written
  BY <1>1, <1>2 DEF WriteRow
<1>3. CASE UNCHANGED <<rows, aged>>
  BY <1>1, <1>3
<1>4. ASSUME NEW d \in Deliveries, InsertRow(d) \/ RowAges(d)
      PROVE  Written
  BY <1>1, <1>4 DEF InsertRow, RowAges
<1>5. ASSUME NEW d \in Deliveries, FailRow(d) \/ FailStuckRun(d) \/ FailQueued(d)
      PROVE  Written
  BY <1>2, <1>3, <1>5 DEF FailRow, FailStuckRun, FailQueued, WriteRowOrNot
<1>6. ASSUME NEW k \in Keys, StartRun(k) \/ EndRun(k) \/ Throw(k)
      PROVE  Written
  <2>1. jobs[k].exec \in Deliveries
    BY <1>6, Running DEF StartRun, EndRun, Throw, JobStep, Live
  <2>2. UNCHANGED <<rows, aged>>
        \/ \E s \in {"running", "success", "failed", "waiting"} : WriteRow(jobs[k].exec, s)
    BY <1>6 DEF StartRun, EndRun, Throw, WriteRowOrNot
  <2> QED  BY <1>2, <1>3, <2>1, <2>2
<1>7. \/ UNCHANGED <<rows, aged>>
      \/ \E k \in Keys : StartRun(k) \/ EndRun(k) \/ Throw(k)
      \/ \E d \in Deliveries :
           InsertRow(d) \/ RowAges(d) \/ FailRow(d) \/ FailStuckRun(d) \/ FailQueued(d)
  BY DEF Next, vars, CallStep, SweepStep, RunStep, ReserveKey, KeyTaken, FindWinner, ReadWinner,
     ReserveSlot, Enqueue, Unslot, Unlock, GiveUp, Crash, LockLapses, SlotLapses, SelectOrphanKey,
     DeleteOrphanKey, SelectStuckRun, Take, TurnAway, ReleaseSlot, Report, WorkerDies, Forget,
     ReclaimSlots
<1> QED  BY <1>3, <1>4, <1>5, <1>6, <1>7

LEMMA CallsMove ==
    ASSUME TypeOK, [Next]_vars
    PROVE  /\ locks' \in [Deliveries -> {"none", "live", "lapsed"}]
           /\ pc' \in [Deliveries -> {"idle", "dead"} \cup InCall \cup Answers]
           /\ winner' \in [Deliveries -> Deliveries \cup {NoOne}]
           /\ sweeps' \subseteq {"key", "run"} \X Deliveries
           /\ missed' \subseteq {"key", "slot", "row"} \X Deliveries
<1>1. locks' \in [Deliveries -> {"none", "live", "lapsed"}]
  <2>1. \/ locks' = locks
        \/ \E d \in Deliveries, v \in {"none", "live", "lapsed"} : locks' = [locks EXCEPT ![d] = v]
    BY DEF Next, vars, CallStep, SweepStep, RunStep, ReserveKey, KeyTaken, FindWinner, ReadWinner,
       ReserveSlot, InsertRow, Enqueue, Unslot, Unlock, GiveUp, FailRow, Crash, LockLapses,
       SlotLapses, RowAges, SelectOrphanKey, DeleteOrphanKey, SelectStuckRun, FailStuckRun,
       FailQueued, Take, TurnAway, StartRun, EndRun, Throw, ReleaseSlot, Report, WorkerDies,
       Forget, ReclaimSlots
  <2> QED  BY <2>1 DEF TypeOK
<1>2. pc' \in [Deliveries -> {"idle", "dead"} \cup InCall \cup Answers]
  <2>1. \/ pc' = pc
        \/ \E d \in Deliveries, v \in {"idle", "dead"} \cup InCall \cup Answers :
             pc' = [pc EXCEPT ![d] = v]
    <3>1. ASSUME NEW d \in Deliveries, ReserveKey(d) \/ KeyTaken(d) \/ CallStep(d) \/ Crash(d)
          PROVE  \E v \in {"idle", "dead"} \cup InCall \cup Answers : pc' = [pc EXCEPT ![d] = v]
      BY <3>1 DEF CallStep, ReserveKey, KeyTaken, FindWinner, ReadWinner, ReserveSlot, InsertRow,
         Enqueue, Unslot, Unlock, GiveUp, FailRow, Crash, Step, Goto, InCall, Answers
    <3>2. \/ pc' = pc
          \/ \E d \in Deliveries : ReserveKey(d) \/ KeyTaken(d) \/ CallStep(d) \/ Crash(d)
      BY DEF Next, vars, SweepStep, RunStep, LockLapses, SlotLapses, RowAges, SelectOrphanKey,
         DeleteOrphanKey, SelectStuckRun, FailStuckRun, FailQueued, Take, TurnAway, StartRun,
         EndRun, Throw, ReleaseSlot, Report, WorkerDies, Forget, ReclaimSlots
    <3> QED  BY <3>1, <3>2
  <2> QED  BY <2>1 DEF TypeOK
<1>3. winner' \in [Deliveries -> Deliveries \cup {NoOne}]
  <2>1. winner' = winner \/ \E d, e \in Deliveries : winner' = [winner EXCEPT ![d] = e]
    BY DEF Next, vars, CallStep, SweepStep, RunStep, ReserveKey, KeyTaken, FindWinner, ReadWinner,
       ReserveSlot, InsertRow, Enqueue, Unslot, Unlock, GiveUp, FailRow, Crash, LockLapses,
       SlotLapses, RowAges, SelectOrphanKey, DeleteOrphanKey, SelectStuckRun, FailStuckRun,
       FailQueued, Take, TurnAway, StartRun, EndRun, Throw, ReleaseSlot, Report, WorkerDies,
       Forget, ReclaimSlots, Locked
  <2> QED  BY <2>1 DEF TypeOK
<1>4. sweeps' \subseteq {"key", "run"} \X Deliveries
  <2>1. \/ sweeps' \subseteq sweeps
        \/ \E d \in Deliveries, s \in {"key", "run"} : sweeps' = sweeps \cup {<<s, d>>}
    BY DEF Next, vars, CallStep, SweepStep, RunStep, ReserveKey, KeyTaken, FindWinner, ReadWinner,
       ReserveSlot, InsertRow, Enqueue, Unslot, Unlock, GiveUp, FailRow, Crash, LockLapses,
       SlotLapses, RowAges, SelectOrphanKey, DeleteOrphanKey, SelectStuckRun, FailStuckRun,
       FailQueued, Take, TurnAway, StartRun, EndRun, Throw, ReleaseSlot, Report, WorkerDies,
       Forget, ReclaimSlots
  <2> QED  BY <2>1 DEF TypeOK
<1>5. missed' \subseteq {"key", "slot", "row"} \X Deliveries
  <2>1. \/ missed' = missed
        \/ \E d \in Deliveries, what \in {"key", "slot", "row"} : missed' = missed \cup {<<what, d>>}
    BY DEF Next, vars, CallStep, SweepStep, RunStep, ReserveKey, KeyTaken, FindWinner, ReadWinner,
       ReserveSlot, InsertRow, Enqueue, Unslot, Unlock, GiveUp, FailRow, Crash, LockLapses,
       SlotLapses, RowAges, SelectOrphanKey, DeleteOrphanKey, SelectStuckRun, FailStuckRun,
       FailQueued, Take, TurnAway, StartRun, EndRun, Throw, ReleaseSlot, Report, WorkerDies,
       Forget, ReclaimSlots, FreeSlot, Compensate
  <2> QED  BY <2>1 DEF TypeOK
<1> QED  BY <1>1, <1>2, <1>3, <1>4, <1>5

LEMMA Induction ==
    ASSUME IInv, [Next]_vars
    PROVE  IInv'
<1>1. TypeOK /\ JobsAreMade
  BY DEF IInv
<1>2. TypeOK'
  BY <1>1, JobsMove, SlotsMove, RowsMove, CallsMove DEF TypeOK
<1> QED  BY <1>1, <1>2, JobsMove, LimitsKept DEF IInv

LEMMA InitIsSound ==
    ASSUME Init
    PROVE  IInv /\ KeyInv
<1>1. TypeOK
  BY DispatchAssumption DEF Init, TypeOK, NoJob, Job, InCall, Answers
<1>2. JobsAreMade
  BY DEF Init, JobsAreMade, NoJob, Live
<1>3. \A e \in Deliveries : slots[e] # "held"
  BY DEF Init
<1>4. IsFiniteSet(Holders)
  BY <1>3, FS_EmptySet DEF Holders
<1>5. WithinLimits
  <2>1. ASSUME NEW S \in SUBSET Deliveries
        PROVE  Held(slots, S) = 0
    <3>1. {e \in S : slots[e] = "held"} = {}
      BY <1>3
    <3> QED  BY <3>1, FS_EmptySet DEF Held
  <2> QED  BY <2>1, DispatchAssumption DEF WithinLimits, SameUser, SameWorkflow
<1>6. KeyInv
  BY DEF Init, KeyInv, KeysAreUnique, RowsHaveKeys, CallsAreOrderly, Orderly, JobsAreAccepted,
     OrphansAreOver, NoJob
<1> QED  BY <1>1, <1>2, <1>4, <1>5, <1>6 DEF IInv
-----------------------------------------------------------------------------
(* Keys, rows and jobs *)

\* A call stays in order as long as nothing but its slot is taken from it.
LEMMA OrderKept ==
    ASSUME NEW d \in Deliveries, Orderly(d), pc'[d] = pc[d], locks'[d] = locks[d],
           rows'[d] = rows[d], slots'[d] = "held" => slots[d] = "held", missed \subseteq missed'
    PROVE  Orderly(d)'
BY DEF Orderly

LEMMA KeysOfCalls ==
    ASSUME Conditions, IInv, KeyInv, NEW d \in Deliveries,
           ReserveKey(d) \/ KeyTaken(d) \/ CallStep(d) \/ Crash(d)
    PROVE  KeyInv'
<1> USE DEF Step, Goto, InCall
<1> DEFINE Rest == KeysAreUnique /\ RowsHaveKeys /\ JobsAreAccepted /\ OrphansAreOver
           Others == \A e \in Deliveries \ {d} :
                       /\ pc'[e] = pc[e] /\ locks'[e] = locks[e] /\ rows'[e] = rows[e]
                       /\ slots'[e] = "held" => slots[e] = "held"
<1>0. /\ locks \in [Deliveries -> {"none", "live", "lapsed"}]
      /\ slots \in [Deliveries -> {"none", "held", "lapsed", "released"}]
      /\ rows \in [Deliveries -> {"none", "queued", "running", "waiting", "success", "failed"}]
      /\ pc \in [Deliveries -> {"idle", "dead"} \cup InCall \cup Answers]
      /\ \A k \in Keys : jobs[k].state # "none" => jobs[k].exec \in Deliveries
  BY DEF IInv, TypeOK, JobsAreMade
<1>a. Rest /\ Orderly(d)
  BY DEF KeyInv, CallsAreOrderly
<1>b. ASSUME Others, missed \subseteq missed', Rest', Orderly(d)'
      PROVE  KeyInv'
  <2>1. ASSUME NEW e \in Deliveries
        PROVE  Orderly(e)'
    <3>1. CASE e = d
      BY <1>b, <3>1
    <3>2. CASE e # d
      BY <1>b, <3>2, OrderKept DEF KeyInv, CallsAreOrderly
    <3> QED  BY <3>1, <3>2
  <2> QED  BY <1>b, <2>1 DEF KeyInv, CallsAreOrderly
<1>1. CASE ReserveKey(d)
  <2>1. /\ UNCHANGED <<slots, rows, jobs, sweeps, missed>> /\ Locked(KeyOf[d]) = {}
        /\ pc[d] = "idle" /\ pc' = [pc EXCEPT ![d] = "slot"] /\ locks' = [locks EXCEPT ![d] = "live"]
    BY <1>1 DEF ReserveKey
  <2>2. Others /\ pc'[d] = "slot" /\ locks'[d] = "live"
    BY <1>0, <2>1
  <2>3. Rest'
    BY <1>0, <1>a, <2>1, <2>2 DEF Locked, KeysAreUnique, RowsHaveKeys, JobsAreAccepted, OrphansAreOver
  <2>4. Orderly(d)'
    <3>1. rows[d] = "none" /\ slots[d] # "held"
      BY <1>a, <2>1 DEF Orderly, RowsHaveKeys
    <3> QED  BY <2>1, <2>2, <3>1 DEF Orderly
  <2> QED  BY <1>b, <2>1, <2>2, <2>3, <2>4
<1>2. CASE KeyTaken(d) \/ FindWinner(d) \/ ReadWinner(d) \/ Crash(d)
  <2>1. /\ UNCHANGED <<locks, slots, rows, jobs, sweeps, missed>>
        /\ pc[d] \notin {"accepted", "refused", "unavailable"}
        /\ \E v \in {"lookup", "status", "unlocated", "duplicate", "dead"} : pc' = [pc EXCEPT ![d] = v]
    BY <1>2 DEF KeyTaken, FindWinner, ReadWinner, Crash
  <2>2. Others /\ pc'[d] \in {"lookup", "status", "unlocated", "duplicate", "dead"}
    BY <1>0, <2>1
  <2>3. Rest'
    BY <1>0, <1>a, <2>1, <2>2 DEF KeysAreUnique, RowsHaveKeys, JobsAreAccepted, OrphansAreOver
  <2>4. Orderly(d)'
    BY <2>2 DEF Orderly
  <2> QED  BY <1>b, <2>1, <2>2, <2>3, <2>4
<1>3. CASE ReserveSlot(d)
  <2>1. /\ UNCHANGED <<locks, rows, jobs, sweeps, missed>> /\ pc[d] = "slot"
        /\ \/ pc' = [pc EXCEPT ![d] = "insert"] /\ slots' = [Reclaimed EXCEPT ![d] = "held"]
           \/ pc' = [pc EXCEPT ![d] = "unlock"] /\ slots' = Reclaimed
    BY <1>3 DEF ReserveSlot, Conditions
  <2> DEFINE R == Reclaimed
  <2>2. /\ R \in [Deliveries -> {"none", "held", "lapsed", "released"}]
        /\ \A e \in Deliveries : R[e] = "held" => slots[e] = "held"
    BY <1>0 DEF Reclaimed
  <2> HIDE DEF R
  <2>3. \/ pc' = [pc EXCEPT ![d] = "insert"] /\ slots' = [R EXCEPT ![d] = "held"]
        \/ pc' = [pc EXCEPT ![d] = "unlock"] /\ slots' = R
    BY <2>1 DEF R
  <2>4. R[d] # "held"
    BY <1>a, <2>1, <2>2 DEF Orderly
  <2>5. /\ Others /\ pc'[d] \in {"insert", "unlock"}
        /\ pc'[d] = "unlock" => slots'[d] # "held"
    <3>1. CASE slots' = R
      BY <1>0, <2>1, <2>2, <2>3, <2>4, <3>1
    <3>2. CASE slots' # R
      BY <1>0, <2>1, <2>2, <2>3, <3>2
    <3> QED  BY <3>1, <3>2
  <2>6. Rest'
    BY <1>0, <1>a, <2>1, <2>5 DEF KeysAreUnique, RowsHaveKeys, JobsAreAccepted, OrphansAreOver
  <2>7. Orderly(d)'
    BY <1>a, <2>1, <2>5 DEF Orderly
  <2> QED  BY <1>b, <2>1, <2>5, <2>6, <2>7
<1>4. CASE InsertRow(d)
  <2>1. /\ UNCHANGED <<locks, slots, jobs, sweeps, missed>> /\ pc[d] = "insert"
        /\ \/ pc' = [pc EXCEPT ![d] = "enqueue"] /\ rows' = [rows EXCEPT ![d] = "queued"]
           \/ pc' = [pc EXCEPT ![d] = "unslot"] /\ rows' = rows
    BY <1>4 DEF InsertRow, Conditions
  <2>2. /\ Others /\ rows[d] = "none" /\ locks[d] = "live"
        /\ \/ pc'[d] = "enqueue" /\ rows'[d] = "queued"
           \/ pc'[d] = "unslot" /\ rows'[d] = "none"
    BY <1>0, <1>a, <2>1 DEF Orderly
  <2>3. Rest'
    BY <1>0, <1>a, <2>1, <2>2 DEF KeysAreUnique, RowsHaveKeys, JobsAreAccepted, OrphansAreOver
  <2>4. Orderly(d)'
    BY <2>1, <2>2 DEF Orderly
  <2> QED  BY <1>b, <2>1, <2>2, <2>3, <2>4
<1>5. CASE Enqueue(d)
  <2>1. /\ UNCHANGED <<locks, slots, rows, sweeps, missed>> /\ pc[d] = "enqueue"
        /\ pc' \in {[pc EXCEPT ![d] = "accepted"], [pc EXCEPT ![d] = "giveup"]}
    BY <1>5 DEF Enqueue
  <2>2. Others /\ pc'[d] \in {"accepted", "giveup"}
    BY <1>0, <2>1
  <2>3. JobsAreAccepted'
    <3>1. CASE jobs' = jobs
      BY <1>0, <1>a, <2>1, <2>2, <3>1 DEF JobsAreAccepted
    <3>2. CASE jobs' # jobs
      <4>1. /\ pc' = [pc EXCEPT ![d] = "accepted"] /\ KeyOf[d] \in Keys
            /\ jobs' = [jobs EXCEPT ![KeyOf[d]] = [NoJob EXCEPT !.exec = d, !.state = "waiting"]]
        BY <1>5, <3>2 DEF Enqueue, Keys
      <4>2. \A k \in Keys : jobs'[k] = jobs[k] \/ jobs'[k].exec = d
        BY <4>1 DEF NoJob, IInv, TypeOK
      <4> QED  BY <1>0, <1>a, <4>1, <4>2 DEF JobsAreAccepted
    <3> QED  BY <3>1, <3>2
  <2>4. Rest'
    BY <1>0, <1>a, <2>1, <2>2, <2>3 DEF KeysAreUnique, RowsHaveKeys, OrphansAreOver
  <2>5. Orderly(d)'
    BY <1>a, <2>1, <2>2 DEF Orderly
  <2> QED  BY <1>b, <2>1, <2>2, <2>4, <2>5
<1>6. CASE Unslot(d) \/ GiveUp(d)
  <2>1. /\ UNCHANGED <<locks, rows, jobs, sweeps>>
        /\ \/ slots' = Freed(d) /\ missed' = missed
           \/ slots' = slots /\ missed' = missed \cup {<<"slot", d>>}
        /\ \/ pc[d] = "unslot" /\ pc' = [pc EXCEPT ![d] = "unlock"]
           \/ pc[d] = "giveup" /\ pc' = [pc EXCEPT ![d] = "fail"]
    BY <1>6 DEF Unslot, GiveUp, FreeSlot, Compensate
  <2>2. /\ \A e \in Deliveries : slots'[e] = "held" => slots[e] = "held"
        /\ slots'[d] # "held" \/ <<"slot", d>> \in missed'
        /\ missed \subseteq missed'
    BY <1>0, <2>1 DEF Freed
  <2>3. /\ Others
        /\ pc'[d] = IF pc[d] = "unslot" THEN "unlock" ELSE "fail"
    BY <1>0, <2>1, <2>2
  <2>4. Rest'
    BY <1>0, <1>a, <2>1, <2>3 DEF KeysAreUnique, RowsHaveKeys, JobsAreAccepted, OrphansAreOver
  <2>5. Orderly(d)'
    BY <1>a, <2>1, <2>2, <2>3 DEF Orderly
  <2> QED  BY <1>b, <2>2, <2>3, <2>4, <2>5
<1>7. CASE Unlock(d)
  <2>1. /\ UNCHANGED <<slots, rows, jobs, sweeps>>
        /\ pc[d] = "unlock" /\ pc' = [pc EXCEPT ![d] = "refused"]
        /\ \/ locks' = [locks EXCEPT ![d] = "none"] /\ missed' = missed
           \/ locks' = locks /\ missed' = missed \cup {<<"key", d>>}
    BY <1>7 DEF Unlock, Compensate
  <2>2. /\ missed \subseteq missed'
        /\ locks'[d] = "none" \/ <<"key", d>> \in missed'
    BY <1>0, <2>1
  <2>3. /\ Others /\ pc'[d] = "refused"
        /\ \A e \in Deliveries : locks'[e] # "none" => locks[e] # "none"
    BY <1>0, <2>1
  <2>4. rows[d] = "none"
    BY <1>a, <2>1 DEF Orderly
  <2>5. Rest'
    BY <1>0, <1>a, <2>1, <2>3, <2>4 DEF KeysAreUnique, RowsHaveKeys, JobsAreAccepted, OrphansAreOver
  <2>6. Orderly(d)'
    BY <1>a, <2>1, <2>2, <2>3, <2>4 DEF Orderly
  <2> QED  BY <1>b, <2>2, <2>3, <2>5, <2>6
<1>8. CASE FailRow(d)
  <2>1. /\ UNCHANGED <<locks, slots, jobs, sweeps>>
        /\ pc[d] = "fail" /\ pc' = [pc EXCEPT ![d] = "unavailable"]
        /\ rows' = [rows EXCEPT ![d] = "failed"] \/ rows' = rows
        /\ missed' = IF rows'[d] = "failed" THEN missed ELSE missed \cup {<<"row", d>>}
    BY <1>8 DEF FailRow, WriteRow, WriteRowOrNot, Compensate
  <2>2. /\ missed \subseteq missed'
        /\ rows'[d] = "failed" \/ <<"row", d>> \in missed'
    BY <2>1
  <2>3. /\ Others /\ pc'[d] = "unavailable"
        /\ rows[d] \in {"queued", "failed"} /\ rows'[d] \in {"queued", "failed"}
    BY <1>0, <1>a, <2>1 DEF Orderly
  <2>4. Rest'
    BY <1>0, <1>a, <2>1, <2>3 DEF KeysAreUnique, RowsHaveKeys, JobsAreAccepted, OrphansAreOver
  <2>5. Orderly(d)'
    BY <1>a, <2>1, <2>2, <2>3 DEF Orderly
  <2> QED  BY <1>b, <2>2, <2>3, <2>4, <2>5
<1> QED  BY <1>1, <1>2, <1>3, <1>4, <1>5, <1>6, <1>7, <1>8 DEF CallStep

LEMMA KeysOfRuns ==
    ASSUME IInv, KeyInv, NEW k \in Keys, RunStep(k) \/ WorkerDies(k) \/ Forget(k)
    PROVE  KeyInv'
<1> DEFINE x == jobs[k].exec
<1>0. /\ slots \in [Deliveries -> {"none", "held", "lapsed", "released"}]
      /\ rows \in [Deliveries -> {"none", "queued", "running", "waiting", "success", "failed"}]
      /\ jobs \in [Keys -> Job] /\ jobs[k].state # "none"
  BY DEF IInv, TypeOK, RunStep, Take, TurnAway, StartRun, EndRun, Throw, ReleaseSlot, Report,
     WorkerDies, Forget, JobStep
<1>1. x \in Deliveries /\ pc[x] = "accepted" /\ rows[x] # "none"
  BY <1>0 DEF IInv, JobsAreMade, KeyInv, JobsAreAccepted, CallsAreOrderly, Orderly
<1>2. UNCHANGED <<locks, pc, sweeps, missed>>
  BY DEF RunStep, Take, TurnAway, StartRun, EndRun, Throw, ReleaseSlot, Report, WorkerDies, Forget
<1>3. rows' = rows \/ \E s \in {"running", "success", "failed", "waiting"} : rows' = [rows EXCEPT ![x] = s]
  BY DEF RunStep, Take, TurnAway, StartRun, EndRun, Throw, ReleaseSlot, Report, WorkerDies, Forget,
     WriteRow, WriteRowOrNot
<1>4. slots' = slots \/ slots' = Freed(x)
  BY DEF RunStep, Take, TurnAway, StartRun, EndRun, Throw, ReleaseSlot, Report, WorkerDies, Forget
<1>5. \A l \in Keys : jobs'[l].state # "none" => jobs[l].state # "none" /\ jobs'[l].exec = jobs[l].exec
  <2>1. CASE Forget(k)
    BY <1>0, <2>1 DEF Forget, NoJob
  <2>2. CASE RunStep(k) \/ WorkerDies(k)
    <3>1. \E s, m, b : jobs' = [jobs EXCEPT ![k] = [exec |-> x, state |-> s, made |-> m, stalled |-> b]]
      BY <2>2, JobMoves DEF IInv
    <3> QED  BY <1>0, <3>1
  <2> QED  BY <2>1, <2>2
<1>6. \A d \in Deliveries : slots'[d] = "held" => slots[d] = "held"
  BY <1>0, <1>4 DEF Freed
<1>7. /\ \A d \in Deliveries : rows'[d] = "none" <=> rows[d] = "none"
      /\ \A d \in Deliveries : d # x => rows'[d] = rows[d]
  BY <1>0, <1>1, <1>3
<1>8. KeysAreUnique' /\ RowsHaveKeys' /\ OrphansAreOver'
  BY <1>2, <1>7 DEF KeyInv, KeysAreUnique, RowsHaveKeys, OrphansAreOver
<1>9. CallsAreOrderly'
  BY <1>1, <1>2, <1>6, <1>7 DEF KeyInv, CallsAreOrderly, Orderly
<1>10. JobsAreAccepted'
  BY <1>2, <1>5 DEF KeyInv, JobsAreAccepted
<1> QED  BY <1>8, <1>9, <1>10 DEF KeyInv

LEMMA KeysOfSweeps ==
    ASSUME Conditions, IInv, KeyInv, NEW d \in Deliveries,
           LockLapses(d) \/ SlotLapses(d) \/ RowAges(d) \/ SweepStep(d)
    PROVE  KeyInv'
<1> USE DEF KeyInv, KeysAreUnique, RowsHaveKeys, CallsAreOrderly, Orderly, JobsAreAccepted, OrphansAreOver
<1>0. /\ locks \in [Deliveries -> {"none", "live", "lapsed"}]
      /\ slots \in [Deliveries -> {"none", "held", "lapsed", "released"}]
      /\ rows \in [Deliveries -> {"none", "queued", "running", "waiting", "success", "failed"}]
  BY DEF IInv, TypeOK
<1>1. CASE LockLapses(d)
  BY <1>0, <1>1 DEF LockLapses, Conditions, InCall
<1>2. CASE SlotLapses(d)
  BY <1>0, <1>2 DEF SlotLapses
<1>3. CASE RowAges(d)
  BY <1>3 DEF RowAges
<1>4. CASE SelectOrphanKey(d) \/ SelectStuckRun(d)
  <2>1. UNCHANGED <<locks, slots, rows, jobs, pc, missed>>
        /\ \/ sweeps' = sweeps \cup {<<"key", d>>} /\ rows[d] = "none" /\ locks[d] = "lapsed"
           \/ sweeps' = sweeps \cup {<<"run", d>>}
    BY <1>4 DEF SelectOrphanKey, SelectStuckRun
  <2>2. KeysAreUnique' /\ RowsHaveKeys' /\ CallsAreOrderly' /\ JobsAreAccepted'
    BY <2>1
  <2>3. OrphansAreOver'
    <3>1. ASSUME NEW e \in Deliveries, <<"key", e>> \in sweeps'
          PROVE  <<"key", e>> \in sweeps \/ (e = d /\ rows[d] = "none" /\ locks[d] = "lapsed")
      BY <2>1, <3>1
    <3>2. locks[d] = "lapsed" => pc[d] \notin {"idle", "slot", "insert"}
      OBVIOUS
    <3> QED  BY <2>1, <3>1, <3>2
  <2> QED  BY <2>2, <2>3
<1>5. CASE DeleteOrphanKey(d)
  BY <1>0, <1>5 DEF DeleteOrphanKey
<1>6. CASE FailStuckRun(d) \/ FailQueued(d)
  <2>1. /\ UNCHANGED <<locks, slots, jobs, pc, missed>> /\ sweeps' \subseteq sweeps
        /\ rows' = rows \/ (rows[d] # "none" /\ rows' = [rows EXCEPT ![d] = "failed"])
    BY <1>6 DEF FailStuckRun, FailQueued, WriteRow
  <2> QED  BY <1>0, <2>1
<1> QED  BY <1>1, <1>2, <1>3, <1>4, <1>5, <1>6 DEF SweepStep

LEMMA KeyInduction ==
    ASSUME Conditions, IInv, KeyInv, [Next]_vars
    PROVE  KeyInv'
<1>1. CASE ReclaimSlots
  <2>1. UNCHANGED <<locks, rows, jobs, pc, sweeps, missed>>
        /\ \A d \in Deliveries : slots'[d] = "held" => slots[d] = "held"
    BY <1>1 DEF ReclaimSlots, Reclaimed
  <2> QED  BY <2>1 DEF KeyInv, KeysAreUnique, RowsHaveKeys, CallsAreOrderly, Orderly, JobsAreAccepted,
              OrphansAreOver
<1>2. CASE UNCHANGED vars
  BY <1>2 DEF vars, KeyInv, KeysAreUnique, RowsHaveKeys, CallsAreOrderly, Orderly, JobsAreAccepted,
     OrphansAreOver
<1> QED  BY <1>1, <1>2, KeysOfCalls, KeysOfRuns, KeysOfSweeps DEF Next
-----------------------------------------------------------------------------
(* The theorems *)

\* The invariant that the first two theorems follow from.
THEOREM Invariance == Spec => []IInv
<1>1. Init => IInv
  BY InitIsSound
<1>2. IInv /\ [Next]_vars => IInv'
  BY Induction
<1> QED  BY <1>1, <1>2, PTL DEF Spec

\* Every state is one the program can be in, as far as types tell; no job is
\* ever given more attempts than BullMQ was told.
THEOREM TypeCorrect == Spec => []TypeOK
<1>1. IInv => TypeOK
  BY DEF IInv
<1> QED  BY <1>1, Invariance, PTL

\* reserve_concurrency_slot keeps the limit of every user and every workflow,
\* whatever calls, runs, retries and sweeps overlap, replies that are lost and
\* leases that lapse included.
THEOREM LimitsHold == Spec => []WithinLimits
<1>1. IInv => WithinLimits
  BY DEF IInv
<1> QED  BY <1>1, Invariance, PTL

\* The invariant that the next two follow from, under their conditions.
THEOREM KeyInvariance ==
    ASSUME Conditions
    PROVE  Spec => [](IInv /\ KeyInv)
<1>1. Init => IInv /\ KeyInv
  BY InitIsSound
<1>2. IInv /\ KeyInv /\ [Next]_vars => (IInv /\ KeyInv)'
  BY Induction, KeyInduction
<1> QED  BY <1>1, <1>2, PTL DEF Spec

\* Deliveries of one event have one execution between them, if a call inserts
\* its row within the lease of its key and an error means that nothing was
\* written.
THEOREM OneExecution ==
    ASSUME Conditions
    PROVE  Spec => []OneExecutionPerKey
<1>1. IInv /\ KeyInv => OneExecutionPerKey
  BY DEF KeyInv, KeysAreUnique, RowsHaveKeys, OneExecutionPerKey
<1> QED  BY <1>1, KeyInvariance, PTL

\* What a call that failed has left is what one of its own compensations missed,
\* and no job will ever run the execution of a caller that was told it failed,
\* under the same conditions.
THEOREM CleanRefusals ==
    ASSUME Conditions
    PROVE  Spec => []NothingHalfDone
<1>1. ASSUME IInv, KeyInv
      PROVE  NothingHalfDone
  <2>1. ASSUME NEW d \in Deliveries, pc[d] \in {"refused", "unavailable"}, NEW k \in Keys
        PROVE  jobs[k].exec # d
    <3>1. CASE jobs[k].state = "none"
      BY <1>1, <3>1, DispatchAssumption DEF IInv, JobsAreMade
    <3>2. CASE jobs[k].state # "none"
      BY <1>1, <2>1, <3>2 DEF KeyInv, JobsAreAccepted
    <3> QED  BY <3>1, <3>2
  <2> QED  BY <1>1, <2>1 DEF KeyInv, CallsAreOrderly, Orderly, NothingHalfDone
<1> QED  BY <1>1, KeyInvariance, PTL
=============================================================================
