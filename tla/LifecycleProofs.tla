-------------------------- MODULE LifecycleProofs --------------------------
(***************************************************************************)
(* Proofs about Lifecycle, for any number of requests and polls, any clock *)
(* and any number of faults.                                               *)
(***************************************************************************)
EXTENDS Lifecycle, SequenceTheorems, TLAPS

(* The parts of the inductive invariant. *)

\* Who inserts with a number that is still free finds no active row but those
\* that a supersession has failed on: the last supersession was its own or a
\* later one, and nothing was inserted since.
NoneBeforeInsert ==
    \A r \in Requests :
        pc[r] = "insert" /\ number[r] = Len(versions) + 1 => ActiveRows \subseteq spared

\* A deployment has a number, and after the insert a row with its content.
Numbered ==
    \A r \in Requests : pc[r] \in {"supersede", "insert", "cutover"} => number[r] > 0
Frozen ==
    \A r \in Requests : pc[r] = "cutover" =>
        number[r] <= Len(versions) /\ versions[number[r]].data = seen[r].draft

\* updated_at tells whether the row is the one that was loaded.
StampsTell == \A r \in Requests : seen[r].stamp = wf.stamp => seen[r] = wf

\* A publication goes on only from a status that is executed.
Publishing == {"compare", "guards", "supersede", "insert", "cutover"}
PublishesLive ==
    \A r \in Requests : Op(r) = "publish" /\ pc[r] \in Publishing => Executable(seen[r].status)

\* Only these operations set a status.
SettersSet ==
    \A r \in Requests : pc[r] = "set" => Op(r) \in {"pause", "disable", "archive", "resume"}

\* And a publication claims nothing.
ClaimersActivate == \A r \in Requests : pc[r] = "claim" => Op(r) # "publish"

RowsInv == SettersSet /\ ClaimersActivate /\ NoneBeforeInsert /\ Numbered /\ Frozen /\ StampsTell /\ PublishesLive

\* An occurrence that is being looked at has been due.
DueIsReal == \A p \in Pollers : step[p] # "idle" => due[p] # 0

\* Of two polls that hold a reservation, each has its own.
Keeping == {"lookup", "begin", "run", "release"}
SlotsAreApart ==
    \A p \in Pollers : step[p] \in Keeping =>
        /\ due[p] \in slots
        /\ \A q \in Pollers : step[q] \in Keeping /\ due[q] = due[p] => q = p

\* What the holder of the reservation has found stays so until it begins.
LookupStands ==
    \A p \in Pollers : step[p] = "begin" /\ p \notin blind => first[due[p]] \in {"none", "failed"}
\* And then is its own run, or stays failed.
RunsAreOpen ==
    \A p \in Pollers :
        step[p] = "run" /\ p \notin blind => p \in keyed \/ first[due[p]] = "failed"
KeysAreOfRuns == \A p \in keyed : step[p] = "run" /\ first[due[p]] = "running"

PollInv == DueIsReal /\ SlotsAreApart /\ LookupStands /\ RunsAreOpen /\ KeysAreOfRuns

IInv == TypeOK /\ OneActiveVersion /\ RowsInv /\ PollInv
-----------------------------------------------------------------------------
(* Versions *)

LEMMA Superseded ==
    ASSUME NEW s \in Seq(Version), NEW t,
           t = [v \in DOMAIN s |-> [s[v] EXCEPT !.status = "superseded"]]
    PROVE  /\ t \in Seq(Version) /\ Len(t) = Len(s) /\ DOMAIN t = DOMAIN s
           /\ \A v \in DOMAIN s : t[v].status = "superseded" /\ t[v].data = s[v].data
<1>1. DOMAIN s = 1 .. Len(s) /\ Len(s) \in Nat
  BY LenProperties
<1>2. \A v \in 1 .. Len(s) : s[v] \in Version
  BY ElementOfSeq
<1>3. \A v \in 1 .. Len(s) : t[v] \in Version /\ t[v].status = "superseded" /\ t[v].data = s[v].data
  BY <1>1, <1>2 DEF Version
<1>4. t \in [1 .. Len(s) -> Version]
  BY <1>1, <1>3
<1>5. t \in Seq(Version)
  BY <1>1, <1>4
<1>6. Len(t) = Len(s)
  BY <1>1, <1>4, <1>5, LenProperties
<1> QED  BY <1>1, <1>3, <1>5, <1>6

LEMMA Appended ==
    ASSUME NEW s \in Seq(Version), NEW d \in Contents, NEW t,
           t = Append(s, [status |-> "active", data |-> d])
    PROVE  /\ t \in Seq(Version) /\ Len(t) = Len(s) + 1 /\ DOMAIN t = 1 .. Len(s) + 1
           /\ \A v \in 1 .. Len(s) : t[v] = s[v]
           /\ t[Len(s) + 1] = [status |-> "active", data |-> d]
<1> DEFINE e == [status |-> "active", data |-> d]
<1>1. e \in Version
  BY DEF Version
<1>2. t = Append(s, e)
  OBVIOUS
<1> HIDE DEF e
<1>3. /\ t \in Seq(Version) /\ Len(t) = Len(s) + 1
      /\ \A v \in 1 .. Len(s) : t[v] = s[v] /\ t[Len(s) + 1] = e
  BY <1>1, <1>2, AppendProperties
<1>4. DOMAIN t = 1 .. Len(t)
  BY <1>3, LenProperties
<1>5. t[Len(s) + 1] = e
  BY <1>1, <1>2, AppendProperties
<1> QED  BY <1>3, <1>4, <1>5 DEF e
-----------------------------------------------------------------------------
(* Types *)

LEMMA InitIsSound ==
    ASSUME Init
    PROVE  IInv
<1> USE DEF Init
<1>1. wf \in Workflow /\ (wf.live = IF plan.live THEN 1 ELSE 0) /\ wf.stamp = 0
  BY LifecycleAssumption DEF Workflow, Statuses
<1>2. /\ versions \in Seq(Version) /\ Len(versions) = IF plan.live THEN 1 ELSE 0
      /\ \A v \in DOMAIN versions : v = 1
  <2>1. CASE plan.live
    <3> DEFINE e == [status |-> "active", data |-> plan.frozen]
    <3>1. e \in Version
      BY LifecycleAssumption DEF Version
    <3>2. versions = <<e>>
      BY <2>1
    <3> HIDE DEF e
    <3>3. versions \in Seq(Version) /\ Len(versions) = 1 /\ DOMAIN versions = 1 .. 1
      BY <3>1, <3>2
    <3> QED  BY <2>1, <3>3
  <2>2. CASE ~plan.live
    <3>1. versions = <<>>
      BY <2>2
    <3>2. versions \in Seq(Version) /\ Len(versions) = 0 /\ DOMAIN versions = {}
      BY <3>1
    <3> QED  BY <2>2, <3>2
  <2> QED  BY <2>1, <2>2
<1>3. schedule \in Schedule
  BY DEF Schedule, RowIds
<1>4. pc \in [Requests -> RequestSteps]
  <2>1. \A op : FirstStep(op) \in RequestSteps
    BY DEF FirstStep, RequestSteps
  <2> QED  BY <2>1
<1>5. TypeOK
  <2>1. wf.live <= Len(versions)
    BY <1>1, <1>2
  <2>2. seen \in [Requests -> Workflow] /\ \A r \in Requests : seen[r].stamp <= wf.stamp
    BY <1>1
  <2>3. /\ number \in [Requests -> Nat]
        /\ \A r \in Requests : number[r] <= Len(versions) + 1
    BY <1>2
  <2>4. plan \in Plans /\ plan.ticks \in Nat /\ plan.faults \in Nat
    BY LifecycleAssumption
  <2>5. had \in [Requests -> RowIds] /\ at \in [Requests -> 0 .. plan.ticks]
    BY <2>4 DEF RowIds
  <2>6. step \in [Pollers -> PollSteps]
    BY DEF PollSteps
  <2>7. first \in [1 .. plan.ticks -> RunStatuses]
    BY DEF RunStatuses
  <2>8. due \in [Pollers -> 0 .. plan.ticks] /\ read \in [Pollers -> Nat] /\ slots \subseteq Nat
    BY <2>4
  <2>9. now \in 0 .. plan.ticks /\ faults \in 0 .. plan.faults
    BY <2>4
  <2>10. keyed \subseteq Pollers /\ blind \subseteq Pollers /\ spared \subseteq DOMAIN versions
    OBVIOUS
  <2> QED  BY <1>1, <1>2, <1>3, <1>4, <2>1, <2>2, <2>3, <2>4, <2>5, <2>6, <2>7, <2>8, <2>9, <2>10
             DEF TypeOK
<1>6. OneActiveVersion
  BY <1>2 DEF OneActiveVersion, ActiveRows
<1>7. RowsInv
  <2>1. \A r \in Requests : pc[r] \in {"load", "set", "edit", "done"} /\ seen[r] = wf
    BY DEF FirstStep
  <2>2. SettersSet
    BY DEF SettersSet, FirstStep, Op
  <2> QED  BY <2>1, <2>2 DEF RowsInv, ClaimersActivate, NoneBeforeInsert, Numbered, Frozen, StampsTell,
                       PublishesLive, Publishing
<1>8. PollInv
  BY DEF PollInv, DueIsReal, SlotsAreApart, LookupStands, RunsAreOpen, KeysAreOfRuns, Keeping
<1> QED  BY <1>5, <1>6, <1>7, <1>8 DEF IInv

\* The versions behind a supersession and an insert.
LEMMA SupersededRows ==
    ASSUME TypeOK, NEW r \in Requests, Supersede(r)
    PROVE  /\ versions' \in Seq(Version) /\ Len(versions') = Len(versions)
           /\ DOMAIN versions' = DOMAIN versions
           /\ \A v \in DOMAIN versions : versions'[v].data = versions[v].data
           /\ ActiveRows' \subseteq spared' /\ spared' \subseteq spared \cup DOMAIN versions
<1>1. versions \in Seq(Version)
  BY DEF TypeOK
<1>4. CASE spared' = spared \cup ActiveRows /\ UNCHANGED versions
  BY <1>1, <1>4 DEF ActiveRows
<1>5. CASE ~(spared' = spared \cup ActiveRows /\ UNCHANGED versions)
  <2>1. /\ versions' = [v \in DOMAIN versions |-> [versions[v] EXCEPT !.status = "superseded"]]
        /\ UNCHANGED spared
    BY <1>5 DEF Supersede
  <2>2. /\ versions' \in Seq(Version) /\ Len(versions') = Len(versions)
        /\ DOMAIN versions' = DOMAIN versions
        /\ \A v \in DOMAIN versions :
             versions'[v].status = "superseded" /\ versions'[v].data = versions[v].data
    BY ONLY <1>1, <2>1, Superseded
  <2>3. ActiveRows' = {}
    BY <2>2 DEF ActiveRows
  <2> QED  BY <2>1, <2>2, <2>3
<1> QED  BY <1>4, <1>5

LEMMA InsertedRows ==
    ASSUME TypeOK, NEW r \in Requests, Insert(r)
    PROVE  /\ versions' \in Seq(Version) /\ Len(versions') = Len(versions) + 1
           /\ DOMAIN versions' = 1 .. Len(versions) + 1
           /\ \A v \in 1 .. Len(versions) : versions'[v] = versions[v]
           /\ versions'[Len(versions) + 1] = [status |-> "active", data |-> seen[r].draft]
<1>1. versions \in Seq(Version) /\ seen[r].draft \in Contents
  BY DEF TypeOK, Workflow
<1>2. versions' = Append(versions, [status |-> "active", data |-> seen[r].draft])
  BY DEF Insert
<1> QED  BY ONLY <1>1, <1>2, Appended

\* An update of the row of the workflow: a later stamp, and a row of its type.
LEMMA Written ==
    ASSUME TypeOK, SettersSet, NEW r \in Requests,
           \/ Claim(r) \/ Reject(r) \/ Finish(r) \/ Cutover(r) \/ SetStatus(r) \/ Edit(r)
    PROVE  /\ wf' \in Workflow
           /\ wf' = wf \/ wf'.stamp = wf.stamp + 1
           /\ wf'.live # wf.live => wf'.live = number[r] /\ (Finish(r) \/ Cutover(r))
<1>1. wf \in Workflow /\ wf.stamp + 1 \in Nat /\ number[r] \in Nat
  BY DEF TypeOK, Workflow
<1> USE DEF Write, Workflow, Statuses
<1>2. CASE Claim(r)
  BY <1>1, <1>2 DEF Claim, Finish, Cutover, Move
<1>3. CASE Reject(r)
  BY <1>1, <1>3 DEF Reject, Finish, Cutover, Move
<1>4. CASE Finish(r)
  BY <1>1, <1>4 DEF Finish
<1>5. CASE Cutover(r)
  BY <1>1, <1>5 DEF Cutover
<1>6. CASE SetStatus(r)
  <2>1. StatusOf(Op(r)) \in Statuses
    BY <1>6, <1>1 DEF SetStatus, StatusOf, SettersSet, Move
  <2> QED  BY <1>1, <1>6, <2>1 DEF SetStatus, Finish, Cutover, Move
<1>7. CASE Edit(r)
  <2>1. PICK d \in Contents, s \in {wf.status, "draft"} :
            Write([wf EXCEPT !.draft = d, !.status = s])
    BY <1>7 DEF Edit
  <2>2. s \in Statuses
    BY <1>1
  <2> QED  BY <1>1, <1>7, <2>1, <2>2 DEF Edit, Finish, Cutover, Move
<1> QED  BY <1>2, <1>3, <1>4, <1>5, <1>6, <1>7

\* The steps of a request that change neither the row nor the versions.
Reads(r) ==
    \/ Load(r) \/ Refuse(r) \/ UpToDate(r) \/ Differs(r) \/ ReadMax(r) \/ InsertRefused(r)
    \/ CutoverLost(r) \/ ReadSchedule(r) \/ Sync(r) \/ Enable(r) \/ Disable(r) \/ Abort(r)
Writes(r) ==
    \/ Claim(r) \/ Reject(r) \/ Finish(r) \/ Cutover(r) \/ SetStatus(r) \/ Edit(r)
\* The steps that are no request's.
Elsewhere ==
    \/ \E p \in Pollers : PollStep(p)
    \/ \E k \in slots : SlotLapses(k)
    \/ \E k \in DOMAIN first, status \in {"waiting", "failed"} : Orphaned(k, status)
    \/ Tick

LEMMA StepCases ==
    ASSUME [Next]_vars
    PROVE  \/ \E r \in Requests : Reads(r) \/ Writes(r) \/ Supersede(r) \/ Insert(r)
           \/ Elsewhere
           \/ UNCHANGED vars
BY DEF Next, RequestStep, Deploy, Reads, Writes, Elsewhere

LEMMA RequestFaults ==
    ASSUME TypeOK, NEW r \in Requests, Reads(r) \/ Writes(r) \/ Supersede(r) \/ Insert(r)
    PROVE  faults' \in 0 .. plan.faults
<1>1. faults' = faults \/ (faults < plan.faults /\ faults' = faults + 1)
  BY DEF Reads, Writes, Load, Refuse, UpToDate, Differs, ReadMax, InsertRefused, CutoverLost,
         ReadSchedule, Sync, Enable, Disable, Abort, Claim, Reject, Finish, Cutover, SetStatus,
         Edit, Supersede, Insert, Quiet, Same, Alone, Fault
<1>2. plan.faults \in Nat /\ faults \in 0 .. plan.faults
  BY LifecycleAssumption DEF TypeOK
<1> QED  BY <1>1, <1>2

LEMMA ReadsType ==
    ASSUME TypeOK, NEW r \in Requests, Reads(r)
    PROVE  TypeOK'
<1>0. faults' \in 0 .. plan.faults
  BY RequestFaults
<1> USE DEF TypeOK, Same, Quiet, OnRows, Alone, rows, deployed, poll, runs, Move, RequestSteps
<1>1. Len(versions) \in Nat
  BY LenProperties
<1>2. CASE Load(r)
  <2>1. seen' \in [Requests -> Workflow] /\ \A q \in Requests : seen'[q].stamp <= wf.stamp
    BY <1>2 DEF Load, Workflow
  <2>2. pc' \in [Requests -> RequestSteps]
    BY <1>2 DEF Load
  <2> QED  BY <1>2, <2>1, <2>2 DEF Load
<1>3. CASE Refuse(r) \/ UpToDate(r) \/ Differs(r) \/ InsertRefused(r) \/ CutoverLost(r)
  <2>1. /\ UNCHANGED <<plan, schedule, now, poll, runs, had, at, rows, seen, number>>
        /\ \E b \in RequestSteps : pc' = [pc EXCEPT ![r] = b]
    BY <1>3 DEF Refuse, UpToDate, Differs, InsertRefused, CutoverLost
  <2> QED  BY <1>0, <2>1
<1>4. CASE ReadMax(r)
  <2>1. /\ UNCHANGED <<plan, schedule, now, poll, runs, had, at, rows, seen>>
        /\ pc' = [pc EXCEPT ![r] = "supersede"]
        /\ \E n \in {1, Len(versions) + 1} : number' = [number EXCEPT ![r] = n]
    BY <1>4 DEF ReadMax
  <2>2. number' \in [Requests -> Nat] /\ \A q \in Requests : number'[q] <= Len(versions) + 1
    BY <1>1, <2>1
  <2> QED  BY <1>0, <2>1, <2>2
<1>5. CASE ReadSchedule(r)
  <2>1. schedule.id \in RowIds /\ NoRow \in RowIds
    BY DEF Schedule, RowIds
  <2>2. /\ UNCHANGED <<plan, rows, schedule, now, seen, number, poll, runs>>
        /\ \E b \in RequestSteps : pc' = [pc EXCEPT ![r] = b]
        /\ at' = [at EXCEPT ![r] = now]
        /\ \E i \in RowIds : had' = [had EXCEPT ![r] = i]
    BY <1>5, <2>1 DEF ReadSchedule
  <2> QED  BY <1>0, <2>2
<1>6. CASE Sync(r)
  <2>1. at[r] + 1 \in Nat \ {0} /\ schedule.id \in RowIds /\ r \in RowIds
    BY DEF Schedule, RowIds
  <2>2. schedule' \in Schedule
    <3>1. NoRow \in RowIds
      BY DEF RowIds
    <3>2. CASE seen[r].draft \in Timed
      <4>1. schedule' = [id |-> IF Present THEN schedule.id ELSE r, enabled |-> TRUE,
                         next |-> at[r] + 1]
        BY <1>6, <3>2 DEF Sync
      <4> QED  BY <4>1, <2>1 DEF Schedule
    <3>3. CASE seen[r].draft \notin Timed
      <4>1. \/ schedule' = [schedule EXCEPT !.id = NoRow, !.enabled = FALSE]
            \/ schedule' = schedule
        BY <1>6, <3>3 DEF Sync
      <4> QED  BY <3>1, <4>1 DEF Schedule
    <3> QED  BY <3>2, <3>3
  <2>9. pc' = [pc EXCEPT ![r] = "done"] /\ Alone
    BY <1>6 DEF Sync
  <2> QED  BY <2>2, <2>9
<1>7. CASE Enable(r)
  <2>1. at[r] + 1 \in Nat \ {0}
    OBVIOUS
  <2>2. schedule' \in Schedule
    BY <1>7, <2>1 DEF Enable, Schedule
  <2>9. pc' = [pc EXCEPT ![r] = "done"] /\ Alone
    BY <1>7 DEF Enable
  <2> QED  BY <2>2, <2>9
<1>8. CASE Disable(r)
  <2>1. schedule' \in Schedule
    BY <1>8 DEF Disable, Schedule
  <2> QED  BY <1>8, <2>1 DEF Disable
<1>9. CASE Abort(r)
  BY <1>9, <1>0 DEF Abort
<1> QED  BY <1>2, <1>3, <1>4, <1>5, <1>6, <1>7, <1>8, <1>9 DEF Reads

LEMMA WritesType ==
    ASSUME IInv, NEW r \in Requests, Writes(r)
    PROVE  TypeOK'
<1> USE DEF IInv, RowsInv
<1>1. /\ wf' \in Workflow
      /\ wf' = wf \/ wf'.stamp = wf.stamp + 1
      /\ wf'.live # wf.live => wf'.live = number[r] /\ (Finish(r) \/ Cutover(r))
  BY Written DEF Writes
<1>0. faults' \in 0 .. plan.faults
  BY RequestFaults
<1>2. /\ UNCHANGED <<versions, spared, seen, number, plan, schedule, now, had, at, step, due, read,
                     keyed, blind, slots, first>>
      /\ \E b \in RequestSteps : pc' = [pc EXCEPT ![r] = b]
  BY DEF Writes, Claim, Reject, Finish, Cutover, SetStatus, Edit, Same, OnRows, deployed, poll,
         runs, Move, RequestSteps
<1>3. wf'.live <= Len(versions)
  <2>1. Finish(r) \/ Cutover(r) => number[r] <= Len(versions)
    BY DEF Finish, Cutover, Move, Frozen
  <2> QED  BY <1>1, <2>1 DEF TypeOK
<1>4. \A q \in Requests : seen[q].stamp <= wf'.stamp
  BY <1>1 DEF TypeOK, Workflow
<1> QED  BY <1>0, <1>1, <1>2, <1>3, <1>4 DEF TypeOK

LEMMA VersionsType ==
    ASSUME TypeOK, NEW r \in Requests, Supersede(r) \/ Insert(r)
    PROVE  TypeOK'
<1>1. Len(versions) \in Nat /\ seen[r].draft \in Contents
  BY LenProperties DEF TypeOK, Workflow
<1>2. versions' \in Seq(Version) /\ Len(versions') \in {Len(versions), Len(versions) + 1}
  <2>1. CASE Supersede(r)
    BY <2>1, SupersededRows
  <2>2. CASE Insert(r)
    BY <2>2, InsertedRows
  <2> QED  BY <2>1, <2>2
<1>0. faults' \in 0 .. plan.faults
  BY RequestFaults
<1>5. spared' \subseteq DOMAIN versions'
  <2>1. CASE Supersede(r)
    BY <2>1, SupersededRows DEF TypeOK
  <2>2. CASE Insert(r)
    <3>1. spared' = spared /\ DOMAIN versions' = 1 .. Len(versions) + 1
      BY <2>2, InsertedRows DEF Insert
    <3>2. DOMAIN versions = 1 .. Len(versions) /\ spared \subseteq DOMAIN versions
      BY LenProperties DEF TypeOK
    <3> QED  BY <1>1, <3>1, <3>2
  <2> QED  BY <2>1, <2>2
<1>3. /\ UNCHANGED <<wf, seen, number, plan, schedule, now, had, at, step, due, read,
                     keyed, blind, slots, first>>
      /\ \E b \in RequestSteps : pc' = [pc EXCEPT ![r] = b]
  BY DEF Supersede, Insert, Same, OnRows, poll, runs, Move, RequestSteps
<1>4. wf.live \in Nat /\ \A q \in Requests : number[q] \in Nat
  BY DEF TypeOK, Workflow
<1> QED  BY <1>0, <1>1, <1>2, <1>3, <1>4, <1>5 DEF TypeOK

LEMMA ElsewhereType ==
    ASSUME TypeOK, Elsewhere
    PROVE  TypeOK'
<1> USE DEF TypeOK, Polling, Beside, Within, rows, deployed, request, runs, poll, PollSteps
<1>1. plan.ticks \in Nat /\ plan.faults \in Nat
  BY LifecycleAssumption
<1>2. ASSUME NEW p \in Pollers, PollStep(p)
      PROVE  TypeOK'
  <2> USE DEF Step
  <2>1. CASE Select(p)
    <3>1. schedule.next \in 0 .. plan.ticks
      BY <2>1, <1>1 DEF Select, Schedule
    <3> QED  BY <2>1, <3>1, <1>1 DEF Select
  <2>2. CASE ClaimDue(p)
    <3>1. schedule' \in Schedule
      <4>1. read[p] + 1 \in Nat \ {0} /\ schedule \in Schedule
        OBVIOUS
      <4>2. schedule' = [schedule EXCEPT !.next = read[p] + 1]
        BY <2>2 DEF ClaimDue
      <4> QED  BY <4>1, <4>2 DEF Schedule
    <3>2. step' = [step EXCEPT ![p] = "check"] /\ Polling /\ Within /\ UNCHANGED runs
      BY <2>2 DEF ClaimDue
    <3> QED  BY <3>1, <3>2
  <2>3. CASE ClaimLost(p) \/ CheckStatus(p) \/ ReserveRefused(p)
    BY <2>3 DEF ClaimLost, CheckStatus, ReserveRefused
  <2>8. CASE Lookup(p)
    <3>1. /\ Beside /\ UNCHANGED <<due, read, keyed, schedule, runs>>
          /\ \E b \in {"begin", "release"} : step' = [step EXCEPT ![p] = b]
          /\ blind' \subseteq blind \cup {p}
      BY <2>8 DEF Lookup
    <3>2. faults' \in 0 .. plan.faults
      BY <2>8, <1>1 DEF Lookup, Fault
    <3> QED  BY <3>1, <3>2
  <2>4. CASE Reserve(p) \/ Release(p)
    <3>1. slots' \subseteq Nat
      <4>1. due[p] \in Nat
        BY <1>1
      <4>2. slots' = slots \cup {due[p]} \/ slots' = slots \ {due[p]}
        BY <2>4 DEF Reserve, Release
      <4> QED  BY <4>1, <4>2
    <3>2. /\ \E b \in {"lookup", "idle"} : step' = [step EXCEPT ![p] = b]
          /\ Polling /\ Within /\ UNCHANGED <<schedule, first>>
      BY <2>4 DEF Reserve, Release
    <3> QED  BY <3>1, <3>2
  <2>5. CASE Begin(p)
    <3>1. first' \in [1 .. plan.ticks -> RunStatuses]
      <4>1. first \in [1 .. plan.ticks -> RunStatuses] /\ "running" \in RunStatuses
        BY DEF RunStatuses
      <4>2. first' = first \/ first' = [first EXCEPT ![due[p]] = "running"]
        BY <2>5 DEF Begin
      <4> HIDE DEF TypeOK
      <4> QED  BY <4>1, <4>2
    <3>2. /\ step' = [step EXCEPT ![p] = "run"]
          /\ Polling /\ UNCHANGED <<due, read, blind, schedule, slots>>
          /\ keyed' \subseteq keyed \cup {p}
      BY <2>5 DEF Begin
    <3> QED  BY <3>1, <3>2
  <2>6. CASE Die(p)
    <3>1. faults' \in 0 .. plan.faults
      BY <2>6, <1>1 DEF Die, Fault
    <3> QED  BY <2>6, <3>1 DEF Die, Forget
  <2>7. ASSUME NEW s \in {"success", "waiting", "failed"}, End(p, s)
        PROVE  TypeOK'
    <3>1. faults' \in 0 .. plan.faults
      BY <2>7, <1>1 DEF End, Fault
    <3>2. first' \in [1 .. plan.ticks -> RunStatuses]
      BY <2>7 DEF End, RunStatuses
    <3>3. /\ step' = [step EXCEPT ![p] = "release"]
          /\ Beside /\ Forget(p) /\ UNCHANGED <<schedule, slots>>
      BY <2>7 DEF End
    <3> QED  BY <3>1, <3>2, <3>3 DEF Forget
  <2> QED  BY <1>2, <2>1, <2>2, <2>3, <2>4, <2>5, <2>6, <2>7, <2>8 DEF PollStep
<1>3. ASSUME NEW k \in slots, SlotLapses(k)
      PROVE  TypeOK'
  BY <1>3 DEF SlotLapses
<1>4. ASSUME NEW k \in DOMAIN first, NEW s \in {"waiting", "failed"}, Orphaned(k, s)
      PROVE  TypeOK'
  BY <1>4 DEF Orphaned, RunStatuses
<1>5. CASE Tick
  BY <1>5, <1>1 DEF Tick
<1> QED  BY <1>2, <1>3, <1>4, <1>5 DEF Elsewhere

LEMMA TypeStep ==
    ASSUME IInv, [Next]_vars
    PROVE  TypeOK'
<1>1. TypeOK
  BY DEF IInv
<1>2. CASE UNCHANGED vars
  BY <1>1, <1>2 DEF TypeOK, vars, rows, deployed, request, poll, runs
<1> QED  BY <1>1, <1>2, StepCases, ReadsType, WritesType, VersionsType, ElsewhereType
-----------------------------------------------------------------------------
(* Deployments *)

\* What the parts of RowsInv are about, and which steps leave it alone.
LEMMA ElsewhereRows ==
    ASSUME IInv, Elsewhere \/ UNCHANGED vars
    PROVE  RowsInv' /\ OneActiveVersion'
<1>1. UNCHANGED <<plan, wf, versions, spared, pc, seen, number>>
  BY DEF Elsewhere, PollStep, Select, ClaimDue, ClaimLost, CheckStatus, Reserve, ReserveRefused,
         Lookup, Begin, Release, Die, End, Polling, Beside, SlotLapses, Orphaned, Tick,
         rows, deployed, request, vars
<1> QED  BY <1>1 DEF IInv, RowsInv, SettersSet, ClaimersActivate, NoneBeforeInsert, Numbered, Frozen, StampsTell,
                     PublishesLive, OneActiveVersion, ActiveRows, Op

LEMMA ReadsRows ==
    ASSUME IInv, NEW r \in Requests, Reads(r)
    PROVE  RowsInv' /\ OneActiveVersion'
<1> USE DEF IInv, RowsInv, TypeOK, SettersSet, ClaimersActivate, NoneBeforeInsert, Numbered, Frozen, StampsTell,
            PublishesLive, Publishing, ActiveRows, Op, Move, Same, Quiet, OnRows, Alone, rows, deployed
<1>1. UNCHANGED <<plan, wf, versions, spared>>
  BY DEF Reads, Load, Refuse, UpToDate, Differs, ReadMax, InsertRefused, CutoverLost,
         ReadSchedule, Sync, Enable, Disable, Abort
<1>2. OneActiveVersion'
  BY <1>1 DEF OneActiveVersion
<1>3. CASE Load(r)
  BY <1>1, <1>2, <1>3 DEF Load, Admitted
<1>4. CASE Differs(r)
  BY <1>1, <1>2, <1>4 DEF Differs
<1>5. CASE ReadMax(r)
  <2>1. Len(versions) \in Nat
    BY LenProperties
  <2>2. /\ pc' = [pc EXCEPT ![r] = "supersede"] /\ pc[r] = "guards" /\ UNCHANGED seen
        /\ \E n \in {1, Len(versions) + 1} : number' = [number EXCEPT ![r] = n]
    BY <1>5 DEF ReadMax
  <2> QED  BY <1>1, <1>2, <2>1, <2>2
<1>6. CASE ReadSchedule(r)
  BY <1>1, <1>2, <1>6 DEF ReadSchedule
<1>7. CASE \/ Refuse(r) \/ UpToDate(r) \/ InsertRefused(r) \/ CutoverLost(r)
           \/ Sync(r) \/ Enable(r) \/ Disable(r) \/ Abort(r)
  <2>1. pc' = [pc EXCEPT ![r] = "done"] /\ UNCHANGED <<seen, number>>
    BY <1>7 DEF Refuse, UpToDate, InsertRefused, CutoverLost, Sync, Enable, Disable, Abort
  <2> QED  BY <1>1, <1>2, <2>1
<1> QED  BY <1>3, <1>4, <1>5, <1>6, <1>7 DEF Reads

LEMMA WritesRows ==
    ASSUME IInv, NEW r \in Requests, Writes(r)
    PROVE  RowsInv' /\ OneActiveVersion'
<1>1. /\ wf' \in Workflow /\ (wf' = wf \/ wf'.stamp = wf.stamp + 1)
  BY Written DEF Writes, IInv, RowsInv
<1>2. UNCHANGED <<plan, versions, spared, seen, number>>
  BY DEF Writes, Claim, Reject, Finish, Cutover, SetStatus, Edit, Same, OnRows, deployed
<1>3. OneActiveVersion'
  BY <1>2 DEF IInv, OneActiveVersion, ActiveRows
<1>4. \E b \in {"guards", "done", "read", "disable"} : pc' = [pc EXCEPT ![r] = b]
  BY DEF Writes, Claim, Reject, Finish, Cutover, SetStatus, Edit, Move
<1>5. StampsTell'
  BY <1>1, <1>2 DEF IInv, RowsInv, StampsTell, TypeOK, Workflow
<1>6. PublishesLive'
  <2>1. pc' = [pc EXCEPT ![r] = "guards"] => Op(r) # "publish"
    BY <1>4 DEF Writes, Claim, Reject, Finish, Cutover, SetStatus, Edit, Move, IInv, RowsInv,
                ClaimersActivate, TypeOK
  <2> QED  BY <1>1, <1>2, <1>4, <2>1 DEF IInv, RowsInv, PublishesLive, Publishing, TypeOK, Op
<1>7. SettersSet' /\ ClaimersActivate' /\ NoneBeforeInsert' /\ Numbered' /\ Frozen'
  BY <1>2, <1>4 DEF IInv, RowsInv, SettersSet, ClaimersActivate, NoneBeforeInsert, Numbered, Frozen, TypeOK,
                    ActiveRows, Op
<1> QED  BY <1>3, <1>5, <1>6, <1>7 DEF RowsInv

LEMMA SupersedeRows ==
    ASSUME IInv, NEW r \in Requests, Supersede(r)
    PROVE  RowsInv' /\ OneActiveVersion'
<1>1. /\ versions' \in Seq(Version) /\ Len(versions') = Len(versions)
      /\ DOMAIN versions' = DOMAIN versions
      /\ \A v \in DOMAIN versions : versions'[v].data = versions[v].data
      /\ ActiveRows' \subseteq spared'
  BY SupersededRows DEF IInv
<1>3. UNCHANGED <<plan, wf, seen, number>> /\ pc' = [pc EXCEPT ![r] = "insert"] /\ pc[r] = "supersede"
  BY DEF Supersede, Same, OnRows, Move
<1>4. OneActiveVersion' /\ NoneBeforeInsert'
  BY <1>1 DEF OneActiveVersion, NoneBeforeInsert
<1>5. Frozen'
  <2>1. DOMAIN versions' = 1 .. Len(versions)
    BY <1>1, LenProperties
  <2>2. ASSUME NEW q \in Requests, pc'[q] = "cutover"
        PROVE  number'[q] <= Len(versions') /\ versions'[number'[q]].data = seen'[q].draft
    <3>1. pc[q] = "cutover" /\ number[q] \in Nat /\ number[q] > 0
      BY <2>2, <1>3 DEF IInv, RowsInv, Numbered, TypeOK
    <3>2. number[q] <= Len(versions) /\ versions[number[q]].data = seen[q].draft
      BY <3>1 DEF IInv, RowsInv, Frozen
    <3>3. Len(versions) \in Nat /\ number[q] \in DOMAIN versions'
      BY <2>1, <3>1, <3>2, LenProperties DEF IInv, TypeOK
    <3> QED  BY <1>1, <1>3, <3>2, <3>3
  <2> QED  BY <2>2 DEF Frozen
<1>6. SettersSet' /\ ClaimersActivate' /\ Numbered' /\ StampsTell' /\ PublishesLive'
  BY <1>3 DEF IInv, RowsInv, SettersSet, ClaimersActivate, Numbered, StampsTell, PublishesLive,
              Publishing, TypeOK, Op
<1> QED  BY <1>4, <1>5, <1>6 DEF RowsInv

LEMMA InsertRows ==
    ASSUME IInv, NEW r \in Requests, Insert(r)
    PROVE  RowsInv' /\ OneActiveVersion'
<1>1. /\ versions' \in Seq(Version) /\ Len(versions') = Len(versions) + 1
      /\ DOMAIN versions' = 1 .. Len(versions) + 1
      /\ \A v \in 1 .. Len(versions) : versions'[v] = versions[v]
      /\ versions'[Len(versions) + 1] = [status |-> "active", data |-> seen[r].draft]
  BY InsertedRows DEF IInv
<1>2. /\ UNCHANGED <<plan, wf, spared, seen, number>>
      /\ pc' = [pc EXCEPT ![r] = "cutover"] /\ pc[r] = "insert"
  BY DEF Insert, Same, OnRows, Move
<1>3. Len(versions) \in Nat /\ DOMAIN versions = 1 .. Len(versions)
  BY LenProperties DEF IInv, TypeOK
<1>4. /\ \A q \in Requests : number[q] \in Nat /\ number[q] <= Len(versions) + 1
      /\ number[r] > 0
  BY <1>2 DEF IInv, TypeOK, RowsInv, Numbered
<1>5. number[r] = Len(versions) + 1
  BY <1>3, <1>4 DEF Insert
<1>6. ActiveRows \subseteq spared
  BY <1>2, <1>5 DEF IInv, RowsInv, NoneBeforeInsert
<1>7. ActiveRows' \ spared' \subseteq {Len(versions) + 1}
  BY <1>1, <1>2, <1>3, <1>6 DEF ActiveRows
<1>8. OneActiveVersion'
  BY <1>7 DEF OneActiveVersion
<1>9. NoneBeforeInsert'
  BY <1>1, <1>2, <1>3, <1>4 DEF NoneBeforeInsert
<1>10. Frozen'
  <2>1. ASSUME NEW q \in Requests, pc'[q] = "cutover"
        PROVE  number'[q] <= Len(versions') /\ versions'[number'[q]].data = seen'[q].draft
    <3>1. CASE q = r
      BY <3>1, <1>1, <1>2, <1>3, <1>5
    <3>2. CASE q # r
      <4>1. pc[q] = "cutover"
        BY <3>2, <2>1, <1>2 DEF IInv, TypeOK
      <4>2. /\ number[q] > 0 /\ number[q] <= Len(versions)
            /\ versions[number[q]].data = seen[q].draft
        BY <4>1 DEF IInv, RowsInv, Numbered, Frozen
      <4> QED  BY <4>2, <1>1, <1>2, <1>3, <1>4
    <3> QED  BY <3>1, <3>2
  <2> QED  BY <2>1 DEF Frozen
<1>11. SettersSet' /\ ClaimersActivate' /\ Numbered' /\ StampsTell' /\ PublishesLive'
  BY <1>2 DEF IInv, RowsInv, SettersSet, ClaimersActivate, Numbered, StampsTell, PublishesLive,
              Publishing, TypeOK, Op
<1> QED  BY <1>8, <1>9, <1>10, <1>11 DEF RowsInv
-----------------------------------------------------------------------------
(* Polls *)

LEMMA PollsStand ==
    ASSUME IInv, UNCHANGED <<step, due, keyed, blind, slots, first>>
    PROVE  PollInv'
BY DEF IInv, PollInv, DueIsReal, SlotsAreApart, LookupStands, RunsAreOpen, KeysAreOfRuns

LEMMA RequestsLeavePolls ==
    ASSUME NEW r \in Requests, Reads(r) \/ Writes(r) \/ Supersede(r) \/ Insert(r)
    PROVE  UNCHANGED <<step, due, keyed, blind, slots, first>>
BY DEF Reads, Writes, Load, Refuse, UpToDate, Differs, ReadMax, InsertRefused, CutoverLost,
       ReadSchedule, Sync, Enable, Disable, Abort, Claim, Reject, Finish, Cutover, SetStatus,
       Edit, Supersede, Insert, Quiet, Same, OnRows, Alone, poll, runs

LEMMA ElsewherePolls ==
    ASSUME IInv, Elsewhere
    PROVE  PollInv'
<1> USE DEF IInv, PollInv, DueIsReal, SlotsAreApart, LookupStands, RunsAreOpen, KeysAreOfRuns, Keeping
<1>1. ASSUME NEW p \in Pollers, PollStep(p)
      PROVE  PollInv'
  <2> USE DEF TypeOK, Step, Polling, Beside, Within, runs
  <2>1. CASE Select(p)
    <3>1. schedule.next # 0
      BY DEF Schedule
    <3> QED  BY <2>1, <3>1 DEF Select
  <2>2. CASE ClaimDue(p) \/ ClaimLost(p) \/ CheckStatus(p) \/ ReserveRefused(p)
    <3>1. /\ \E b \in {"check", "idle", "reserve"} : step' = [step EXCEPT ![p] = b]
          /\ step[p] \notin {"idle", "run"} /\ UNCHANGED <<due, keyed, blind, slots, first>>
      BY <2>2 DEF ClaimDue, ClaimLost, CheckStatus, ReserveRefused
    <3> QED  BY <3>1
  <2>8. CASE Die(p)
    <3>1. /\ step' = [step EXCEPT ![p] = "idle"] /\ UNCHANGED <<due, slots, first>>
          /\ keyed' = keyed \ {p} /\ blind' = blind \ {p}
      BY <2>8 DEF Die, Forget
    <3> QED  BY <3>1
  <2>3. CASE Reserve(p)
    BY <2>3 DEF Reserve
  <2>4. CASE Lookup(p)
    BY <2>4 DEF Lookup
  <2>5. CASE Begin(p)
    <3>1. /\ step' = [step EXCEPT ![p] = "run"] /\ step[p] = "begin"
          /\ UNCHANGED <<due, blind, slots>>
      BY <2>5 DEF Begin
    <3>2. due[p] \in DOMAIN first /\ first \in [DOMAIN first -> RunStatuses]
      <4>1. plan.ticks \in Nat
        BY LifecycleAssumption
      <4>2. DOMAIN first = 1 .. plan.ticks /\ first \in [1 .. plan.ticks -> RunStatuses]
        OBVIOUS
      <4>3. due[p] \in 0 .. plan.ticks /\ due[p] # 0
        BY <3>1
      <4> QED  BY <4>1, <4>2, <4>3
    <3>3. \A q \in Pollers : step'[q] \in {"begin", "run"} =>
             q = p \/ (step[q] = step'[q] /\ due[q] # due[p])
      BY <3>1
    <3>4. DueIsReal' /\ SlotsAreApart'
      BY <3>1
    <3>5. CASE first[due[p]] = "none"
      <4>1. first' = [first EXCEPT ![due[p]] = "running"] /\ keyed' = keyed \cup {p}
        BY <2>5, <3>5 DEF Begin
      <4>2. DOMAIN first' = DOMAIN first /\ first'[due[p]] = "running"
            /\ \A k \in DOMAIN first : k # due[p] => first'[k] = first[k]
        BY <3>2, <4>1
      <4>3. LookupStands' /\ RunsAreOpen' /\ KeysAreOfRuns'
        BY <3>1, <3>2, <3>3, <4>1, <4>2
      <4> QED  BY <3>4, <4>3
    <3>6. CASE first[due[p]] # "none"
      <4>1. UNCHANGED <<first, keyed>>
        BY <2>5, <3>6 DEF Begin
      <4>2. LookupStands' /\ RunsAreOpen' /\ KeysAreOfRuns'
        BY <3>1, <3>2, <3>3, <3>6, <4>1
      <4> QED  BY <3>4, <4>2
    <3> QED  BY <3>5, <3>6
  <2>6. CASE Release(p)
    BY <2>6 DEF Release
  <2>7. ASSUME NEW s \in {"success", "waiting", "failed"}, End(p, s)
        PROVE  PollInv'
    <3>1. /\ step' = [step EXCEPT ![p] = "release"] /\ step[p] = "run"
          /\ UNCHANGED <<due, slots>> /\ keyed' = keyed \ {p} /\ blind' = blind \ {p}
          /\ \A k \in DOMAIN first : k # due[p] => first'[k] = first[k]
      BY <2>7 DEF End, Forget
    <3>2. \A q \in Pollers : step'[q] \in {"begin", "run"} =>
             q # p /\ step[q] = step'[q] /\ due[q] \in DOMAIN first /\ due[q] # due[p]
      <4>1. plan.ticks \in Nat
        BY LifecycleAssumption
      <4> QED  BY <3>1, <4>1
    <3>3. LookupStands' /\ RunsAreOpen' /\ KeysAreOfRuns'
      BY <3>1, <3>2
    <3>4. DueIsReal' /\ SlotsAreApart'
      BY <3>1
    <3> QED  BY <3>3, <3>4
  <2> QED  BY <1>1, <2>1, <2>2, <2>3, <2>4, <2>5, <2>6, <2>7, <2>8 DEF PollStep
<1>2. ASSUME NEW k \in slots, SlotLapses(k)
      PROVE  PollInv'
  BY <1>2 DEF SlotLapses, Holds, poll
<1>3. ASSUME NEW k \in DOMAIN first, NEW s \in {"waiting", "failed"}, Orphaned(k, s)
      PROVE  PollInv'
  BY <1>3 DEF Orphaned, poll, TypeOK
<1>4. CASE Tick
  BY <1>4, PollsStand DEF Tick, poll, runs
<1> QED  BY <1>1, <1>2, <1>3, <1>4 DEF Elsewhere
-----------------------------------------------------------------------------
(* The theorems *)

LEMMA Induction ==
    ASSUME IInv, [Next]_vars
    PROVE  IInv'
<1>1. TypeOK'
  BY TypeStep
<1>2. RowsInv' /\ OneActiveVersion'
  BY StepCases, ReadsRows, WritesRows, SupersedeRows, InsertRows, ElsewhereRows
<1>3. PollInv'
  <2>1. CASE \E r \in Requests : Reads(r) \/ Writes(r) \/ Supersede(r) \/ Insert(r)
    BY <2>1, RequestsLeavePolls, PollsStand
  <2>2. CASE Elsewhere
    BY <2>2, ElsewherePolls
  <2>3. CASE UNCHANGED vars
    BY <2>3, PollsStand DEF vars, poll, runs
  <2> QED  BY <2>1, <2>2, <2>3, StepCases
<1> QED  BY <1>1, <1>2, <1>3 DEF IInv

THEOREM Invariance == Spec => []IInv
<1>1. Init => IInv
  BY InitIsSound
<1>2. IInv /\ [Next]_vars => IInv'
  BY Induction
<1> QED  BY <1>1, <1>2, PTL DEF Spec

\* Every variable stays within its type.
THEOREM TypeCorrect == Spec => []TypeOK
<1>1. IInv => TypeOK
  BY DEF IInv
<1> QED  BY <1>1, Invariance, PTL

\* However many deployments overlap, die between their statements or have them
\* fail, at most one version of the workflow is active, besides those that an
\* update of recordDeployment has failed to supersede.
THEOREM NeverTwoActive == Spec => []OneActiveVersion
<1>1. IInv => OneActiveVersion
  BY DEF IInv
<1> QED  BY <1>1, Invariance, PTL

\* A publication puts the draft live that is there at that moment, on an
\* executable workflow, in the place of the version it has seen live.
THEOREM PublishesOverNothing == Spec => PublishReplacesWhatItRead
<1>1. ASSUME IInv, NEW r \in Requests, Cutover(r)
      PROVE  /\ Executable(wf.status) /\ wf.live = seen[r].live
             /\ versions[number[r]].data = wf.draft
  <2>1. seen[r] = wf
    BY <1>1 DEF IInv, RowsInv, StampsTell, Cutover
  <2>2. Executable(seen[r].status) /\ versions[number[r]].data = seen[r].draft
    BY <1>1 DEF IInv, RowsInv, PublishesLive, Publishing, Frozen, Cutover, Move
  <2> QED  BY <2>1, <2>2
<1>2. IInv => [\A r \in Requests : Cutover(r) =>
                 /\ Executable(wf.status) /\ wf.live = seen[r].live
                 /\ versions[number[r]].data = wf.draft]_vars
  BY <1>1
<1> QED  BY <1>2, Invariance, PTL DEF PublishReplacesWhatItRead

\* No occurrence of the schedule is run by two polls together, and what a poll
\* runs is its first run or comes after one that has failed, unless the lookup
\* of the first run has failed.
THEOREM OccurrencesAreRunOnce == Spec => []OccurrencesRunOnce
<1>1. IInv => OccurrencesRunOnce
  BY DEF IInv, PollInv, SlotsAreApart, RunsAreOpen, Keeping, OccurrencesRunOnce
<1> QED  BY <1>1, Invariance, PTL
=============================================================================
