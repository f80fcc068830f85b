------------------------ MODULE ParkAndResumeProofs -------------------------
(***************************************************************************)
(* Proofs about ParkAndResume, for any set of workflows that can park, any *)
(* number of crons, people and processes, and any number of crashes.       *)
(***************************************************************************)
EXTENDS ParkAndResume, TLAPS

(* The parts of the inductive invariant. *)

\* A review has an answer of a review.
ReviewsFit == \A n \in Nodes : path[n] = "review" => item[n] \in {"none", "pending"} \cup Outcomes

\* A branch that a node may be left by: its answer, or the guess that a wait was
\* timed out when its acknowledgment came too late to be read.
Suits(n, b) == \/ b = Verdict(n)
               \/ /\ b = "guessed" /\ path[n] = "ack" /\ n \in passed
                  /\ Verdict(n) = "acknowledged"

\* All nodes before n have been walked through, by branches that suit them still.
Behind(n) == \A m \in 1 .. n - 1 : \E b \in Branches : Suits(m, b) /\ <<m, b>> \in walked

\* What a caller knows by where it is.  The engine is at a node behind which
\* all has been walked, and the branch it is about to take suits the node.
AtItem == {"decide", "acknowledge", "touch", "check", "book"}
CallFits(p) ==
    /\ pc[p] \in Engine => here[p] # 0 /\ Behind(here[p])
    /\ pc[p] \in AtItem => about[p] # 0
    /\ pc[p] = "decide" => path[about[p]] = "review"
    /\ pc[p] = "acknowledge" => path[about[p]] = "ack"
    /\ pc[p] = "expire" => /\ path[here[p]] = "ack" /\ here[p] \in passed
                           /\ item[here[p]] # "none"
    /\ pc[p] = "route" => branch[p] \in Branches /\ Suits(here[p], branch[p])

\* So is the node of the checkpoint that a resume would start from.
IInv == TypeOK /\ ReviewsFit /\ Behind(saved) /\ \A p \in Callers : CallFits(p)
-----------------------------------------------------------------------------
(* Paths, items and answers *)

LEMMA OnePath ==
    ASSUME path \in Paths
    PROVE  /\ Len(path) \in Nat \ {0} /\ Nodes = 1 .. Len(path)
           /\ \A n \in Nodes : path[n] = "challenge" => n + 1 \in Nodes /\ path[n + 1] = "ack"
<1>1. path \in Seq(Kinds) /\ path # <<>>
  BY ParkAssumption
<1>2. Len(path) \in Nat \ {0} /\ Nodes = 1 .. Len(path)
  BY <1>1 DEF Nodes
<1>3. ASSUME NEW n \in Nodes, path[n] = "challenge"
      PROVE  n + 1 \in Nodes /\ path[n + 1] = "ack"
  <2>1. n < Len(path) /\ path[n + 1] = "ack"
    BY <1>3, ParkAssumption DEF Nodes
  <2> QED  BY <1>2, <2>1
<1> QED  BY <1>2, <1>3

\* What a step can write into an item: a row for the node, or its answer.
Fills(n, v) ==
    \/ item[n] = "none" /\ v = "pending" /\ path[n] \in {"review", "ack"}
    \/ item[n] = "pending" /\ path[n] = "review" /\ v \in Outcomes
    \/ item[n] = "pending" /\ path[n] = "ack" /\ v = "acknowledged"
    \/ item[n] = "pending" /\ path[n] = "ack" /\ v = "timed_out" /\ n \in passed

ItemsKept == UNCHANGED <<path, passed, item>>
ItemFilled(n, v) == UNCHANGED <<path, passed>> /\ Fills(n, v) /\ item' = [item EXCEPT ![n] = v]

\* Where an engine or a request stands.
LEMMA Places ==
    ASSUME IInv, NEW p \in Callers
    PROVE  /\ Nodes = 1 .. Len(path) /\ Len(path) \in Nat
           /\ item \in [Nodes -> {"none", "pending"} \cup Answered]
           /\ pc[p] \in Engine => here[p] \in Nodes
           /\ pc[p] \in AtItem => about[p] \in Nodes
<1>1. here[p] \in 0 .. Len(path) /\ about[p] \in 0 .. Len(path)
  BY DEF IInv, TypeOK
<1>2. /\ pc[p] \in Engine => here[p] # 0
      /\ pc[p] \in AtItem => about[p] # 0
  BY DEF IInv, CallFits
<1>3. path \in Paths /\ item \in [Nodes -> {"none", "pending"} \cup Answered]
  BY DEF IInv, TypeOK
<1> QED  BY <1>1, <1>2, <1>3, OnePath

LEMMA ItemSteps ==
    ASSUME IInv, [Next]_vars
    PROVE  \/ ItemsKept
           \/ \E n \in Nodes : DatePasses(n)
           \/ \E n \in Nodes, v \in {"pending"} \cup Answered : ItemFilled(n, v)
<1> DEFINE Filled == \E n \in Nodes, v \in {"pending"} \cup Answered : ItemFilled(n, v)
<1> HIDE DEF Filled
<1>1. ASSUME NEW p \in Callers, RecordDecision(p)
      PROVE  ItemsKept \/ Filled
  <2>1. about[p] \in Nodes /\ path[about[p]] = "review"
    BY <1>1, Places DEF RecordDecision, At, AtItem, IInv, CallFits
  <2>2. UNCHANGED <<path, passed>>
    BY <1>1 DEF RecordDecision, Outside, World, Still
  <2>3. CASE item[about[p]] = "pending"
    <3>1. PICK d \in Outcomes : item' = [item EXCEPT ![about[p]] = d]
      BY <1>1, <2>3 DEF RecordDecision
    <3> QED  BY <2>1, <2>2, <2>3, <3>1 DEF Filled, ItemFilled, Fills, Answered
  <2>4. CASE item[about[p]] # "pending"
    BY <1>1, <2>2, <2>4 DEF RecordDecision, ItemsKept
  <2> QED  BY <2>3, <2>4
<1>2. ASSUME NEW p \in Callers, RecordAcknowledgment(p)
      PROVE  ItemsKept \/ Filled
  <2>1. about[p] \in Nodes /\ path[about[p]] = "ack"
    BY <1>2, Places DEF RecordAcknowledgment, At, AtItem, IInv, CallFits
  <2>2. UNCHANGED <<path, passed>>
    BY <1>2 DEF RecordAcknowledgment, Outside, World, Still
  <2>3. CASE item[about[p]] = "pending"
    BY <1>2, <2>1, <2>2, <2>3 DEF RecordAcknowledgment, Filled, ItemFilled, Fills, Answered
  <2>4. CASE item[about[p]] # "pending"
    BY <1>2, <2>2, <2>4 DEF RecordAcknowledgment, ItemsKept
  <2> QED  BY <2>3, <2>4
<1>3. ASSUME NEW p \in Callers, Review(p) \/ Challenge(p) \/ Await(p) \/ Expire(p)
      PROVE  ItemsKept \/ Filled
  <2> DEFINE n == here[p]
  <2>1. n \in Nodes /\ item[n] \in {"none", "pending"} \cup Answered /\ path \in Paths
        /\ item \in [Nodes -> {"none", "pending"} \cup Answered]
    BY <1>3, Places DEF Review, Challenge, Await, Expire, Handle, At, Engine, IInv, TypeOK
  <2> HIDE DEF n
  <2>2. UNCHANGED <<path, passed>>
    BY <1>3 DEF Review, Challenge, Await, Expire, Outside, World, Still
  <2>3. CASE Review(p)
    <3>1. path[n] = "review" /\ (item' = item \/ (item[n] \notin Outcomes /\ item' = [item EXCEPT ![n] = "pending"]))
      BY <2>3 DEF Review, Handle, Put, n
    <3>2. item[n] \in {"none", "pending"} \cup Outcomes
      BY <2>1, <3>1 DEF IInv, ReviewsFit
    <3>3. CASE item[n] = "none" /\ item' = [item EXCEPT ![n] = "pending"]
      BY <2>1, <2>2, <3>1, <3>3 DEF Filled, ItemFilled, Fills
    <3>4. CASE item[n] = "pending" /\ item' = [item EXCEPT ![n] = "pending"]
      BY <2>1, <2>2, <3>4 DEF ItemsKept
    <3> QED  BY <2>2, <3>1, <3>2, <3>3, <3>4 DEF ItemsKept
  <2>4. CASE Challenge(p)
    <3>1. /\ path[n] = "challenge"
          /\ item' = [item EXCEPT ![n + 1] = IF item[n + 1] = "none" THEN "pending" ELSE item[n + 1]]
      BY <2>4 DEF Challenge, Handle, n
    <3>2. n + 1 \in Nodes /\ path[n + 1] = "ack"
      BY <2>1, <3>1, OnePath
    <3> DEFINE m == n + 1
    <3> HIDE DEF m
    <3>3. /\ m \in Nodes /\ path[m] = "ack"
          /\ item' = [item EXCEPT ![m] = IF item[m] = "none" THEN "pending" ELSE item[m]]
      BY <3>1, <3>2 DEF m
    <3>4. CASE item[m] = "none"
      BY <2>2, <3>3, <3>4 DEF Filled, ItemFilled, Fills
    <3>5. CASE item[m] # "none"
      BY <2>1, <2>2, <3>3, <3>5 DEF ItemsKept
    <3> QED  BY <3>4, <3>5
  <2>5. CASE Await(p)
    <3>1. path[n] = "ack" /\ (item' = item \/ (item[n] = "none" /\ item' = [item EXCEPT ![n] = "pending"]))
      BY <2>1, <2>5 DEF Await, Handle, Put, n
    <3> QED  BY <2>1, <2>2, <3>1 DEF Filled, ItemFilled, Fills, ItemsKept
  <2>6. CASE Expire(p)
    <3>1. path[n] = "ack" /\ n \in passed
      BY <2>6 DEF Expire, At, IInv, CallFits, n
    <3>2. item' = item \/ (item[n] = "pending" /\ item' = [item EXCEPT ![n] = "timed_out"])
      BY <2>6 DEF Expire, Put, n
    <3> QED  BY <2>1, <2>2, <3>1, <3>2 DEF Filled, ItemFilled, Fills, ItemsKept, Answered
  <2> QED  BY <1>3, <2>3, <2>4, <2>5, <2>6
<1>4. ASSUME NEW p \in Callers, Run(p), ~(Review(p) \/ Challenge(p) \/ Await(p) \/ Expire(p))
      PROVE  ItemsKept
  BY <1>4 DEF Run, ReadCheckpoint, InitializeExecution, ReadLock, TakeLock, AcquireMutex, GiveUp,
     MarkRunning, Wait, Route, Complete, ParkRow, SaveCheckpoint, ForceFail, ReleaseLock, ItemsKept,
     Outside, World, Still, RowOnly, tables
<1>5. ASSUME NEW p \in Callers, Serve(p), ~(RecordDecision(p) \/ RecordAcknowledgment(p))
      PROVE  ItemsKept
  BY <1>5 DEF Serve, Claim, Grant, Deny, Revert, EnqueueResume, FailClaim, Touch, Skip, Check, Book,
     ItemsKept, Outside, World, Still, RowOnly, tables
<1>6. ASSUME NEW p \in Callers, Cron(p) \/ Ask(p)
      PROVE  ItemsKept
  BY <1>6 DEF Cron, Ask, PollSelect, SweepSelect, ResumeDue, OpenReview, OpenAcknowledgment, Open,
     ItemsKept, Outside, World, Still, tables
<1>7. CASE (\E k \in DOMAIN jobs : TakeJob(k)) \/ SettleJob \/ Forget \/ LockLapses \/ RecoverOrphan
           \/ SelectStuck \/ FailStuck \/ UNCHANGED vars \/ \E proc \in Processes : Crash(proc)
  BY <1>7 DEF TakeJob, SettleJob, Forget, LockLapses, RecoverOrphan, SelectStuck, FailStuck, Crash,
     vars, ItemsKept, Outside, World, Still, tables
<1> QED  BY <1>1, <1>2, <1>3, <1>4, <1>5, <1>6, <1>7 DEF Next, Run, Serve, Filled

\* What Verdict reads of a node.
LEMMA VerdictOf ==
    ASSUME TypeOK, NEW n \in Nodes
    PROVE  /\ path[n] = "timer" => Verdict(n) = IF n \in passed THEN "due" ELSE "none"
           /\ path[n] = "challenge" =>
                /\ n + 1 \in Nodes /\ path[n + 1] = "ack"
                /\ Verdict(n) = IF item[n + 1] = "none" THEN "none" ELSE "made"
           /\ path[n] \notin {"timer", "challenge"} =>
                Verdict(n) = IF item[n] \in Answered THEN item[n] ELSE "none"
           /\ Verdict(n) \in {"none"} \cup Branches
  BY OnePath DEF TypeOK, Verdict, Branches

LEMMA NoAnswers == {"none", "pending", "due", "made"} \cap Answered = {}
  BY ParkAssumption DEF Answered

\* Filling an item answers one node at most, which had no answer.
NewVerdict(k, u) ==
    /\ Verdict(k) = "none" /\ u \in Gates!Answers(k)
    /\ \A m \in Nodes : Verdict(m)' = IF m = k THEN u ELSE Verdict(m)

LEMMA FillAnswers ==
    ASSUME TypeOK, TypeOK', NEW n \in Nodes, NEW v \in {"pending"} \cup Answered, ItemFilled(n, v)
    PROVE  \/ \A m \in Nodes : Verdict(m)' = Verdict(m)
           \/ \E k \in Nodes, u \in Branches : NewVerdict(k, u)
<1>1. /\ path' = path /\ passed' = passed /\ Nodes' = Nodes /\ Nodes \subseteq Nat
      /\ item \in [Nodes -> {"none", "pending"} \cup Answered]
      /\ item' = [item EXCEPT ![n] = v]
  <2>1. Nodes \subseteq Nat
    BY OnePath DEF TypeOK
  <2> QED  BY <2>1 DEF ItemFilled, TypeOK, Nodes
<1>2. \A m \in Nodes : item'[m] = IF m = n THEN v ELSE item[m]
  BY <1>1
<1>3. ASSUME NEW m \in Nodes
      PROVE  /\ path[m] = "timer" => Verdict(m)' = Verdict(m)
             /\ path[m] = "challenge" /\ m + 1 # n => Verdict(m)' = Verdict(m)
             /\ path[m] \notin {"timer", "challenge"} /\ m # n => Verdict(m)' = Verdict(m)
             /\ path[m] = "challenge" => Verdict(m)' = IF item'[m + 1] = "none" THEN "none" ELSE "made"
             /\ path[m] \notin {"timer", "challenge"} =>
                  Verdict(m)' = IF item'[m] \in Answered THEN item'[m] ELSE "none"
  <2>1. m \in Nodes'
    BY <1>1
  <2>2. /\ path'[m] = "timer" => Verdict(m)' = IF m \in passed' THEN "due" ELSE "none"
        /\ path'[m] = "challenge" =>
             Verdict(m)' = IF item'[m + 1] = "none" THEN "none" ELSE "made"
        /\ path'[m] \notin {"timer", "challenge"} =>
             Verdict(m)' = IF item'[m] \in Answered THEN item'[m] ELSE "none"
    BY <2>1 DEF Verdict
  <2> QED  BY <1>1, <1>2, <2>2, VerdictOf
<1>4. v # "none"
  BY NoAnswers
<1>5. CASE item[n] = "none"
  <2>1. v = "pending" /\ path[n] \in {"review", "ack"}
    BY <1>5 DEF ItemFilled, Fills
  <2>2. Verdict(n)' = Verdict(n)
    BY <1>2, <1>3, <1>5, <2>1, NoAnswers, VerdictOf
  <2>3. CASE \E k \in Nodes : path[k] = "challenge" /\ k + 1 = n
    <3>1. PICK k \in Nodes : path[k] = "challenge" /\ k + 1 = n
      BY <2>3
    <3>2. Verdict(k) = "none" /\ Verdict(k)' = "made"
      BY <1>2, <1>3, <1>4, <1>5, <3>1, VerdictOf
    <3>3. \A m \in Nodes : m # k => Verdict(m)' = Verdict(m)
      BY <1>1, <1>3, <2>2, <3>1
    <3>4. "made" \in Gates!Answers(k) /\ "made" \in Branches
      BY <3>1 DEF Gates!Answers, Branches
    <3>5. NewVerdict(k, "made")
      BY <3>2, <3>3, <3>4 DEF NewVerdict
    <3> QED  BY <3>4, <3>5
  <2>4. CASE ~ \E k \in Nodes : path[k] = "challenge" /\ k + 1 = n
    BY <1>3, <2>2, <2>4
  <2> QED  BY <2>3, <2>4
<1>6. CASE item[n] = "pending"
  <2>1. path[n] \in {"review", "ack"} /\ v \in Gates!Answers(n) /\ v \in Answered
    BY <1>6 DEF ItemFilled, Fills, Gates!Answers, Answered
  <2>2. Verdict(n) = "none" /\ Verdict(n)' = v
    BY <1>2, <1>3, <1>6, <2>1, NoAnswers, VerdictOf
  <2>3. ASSUME NEW m \in Nodes, m # n
        PROVE  Verdict(m)' = Verdict(m)
    <3>1. CASE path[m] = "challenge" /\ m + 1 = n
      BY <1>2, <1>3, <1>4, <1>6, <3>1, VerdictOf
    <3> QED  BY <1>3, <2>3, <3>1
  <2>4. NewVerdict(n, v)
    BY <2>1, <2>2, <2>3 DEF NewVerdict
  <2> QED  BY <2>1, <2>4 DEF Branches
<1> QED  BY <1>5, <1>6 DEF ItemFilled, Fills

\* A date answers the timers it stands for, and nothing else.
LEMMA DateAnswers ==
    ASSUME TypeOK, TypeOK', NEW n \in Nodes, DatePasses(n)
    PROVE  \A m \in Nodes : Verdict(m)' = IF m = n /\ path[n] = "timer" THEN "due" ELSE Verdict(m)
<1>1. path' = path /\ item' = item /\ passed' = passed \cup {n} /\ Nodes' = Nodes
  BY DEF DatePasses, tables, Nodes
<1>2. ASSUME NEW m \in Nodes
      PROVE  Verdict(m)' = IF m = n /\ path[n] = "timer" THEN "due" ELSE Verdict(m)
  <2>1. m \in Nodes'
    BY <1>1
  <2>2. /\ path'[m] = "timer" => Verdict(m)' = IF m \in passed' THEN "due" ELSE "none"
        /\ path'[m] = "challenge" =>
             Verdict(m)' = IF item'[m + 1] = "none" THEN "none" ELSE "made"
        /\ path'[m] \notin {"timer", "challenge"} =>
             Verdict(m)' = IF item'[m] \in Answered THEN item'[m] ELSE "none"
    BY <2>1 DEF Verdict
  <2> QED  BY <1>1, <2>2, VerdictOf
<1> QED  BY <1>2

\* An answer is for good.
LEMMA AnswersStand ==
    ASSUME IInv, TypeOK', [Next]_vars
    PROVE  /\ path' = path /\ Nodes' = Nodes /\ passed \subseteq passed'
           /\ \A n \in Nodes : Verdict(n) # "none" => Verdict(n)' = Verdict(n)
<1>1. TypeOK
  BY DEF IInv
<1>2. CASE ItemsKept
  BY <1>2 DEF ItemsKept, Verdict, Nodes
<1>3. ASSUME NEW n \in Nodes, DatePasses(n)
      PROVE  /\ path' = path /\ Nodes' = Nodes /\ passed \subseteq passed'
             /\ \A m \in Nodes : Verdict(m) # "none" => Verdict(m)' = Verdict(m)
  <2>1. path' = path /\ Nodes' = Nodes /\ passed \subseteq passed' /\ n \notin passed
    BY <1>3 DEF DatePasses, Nodes
  <2>2. path[n] = "timer" => Verdict(n) = "none"
    BY <1>1, <2>1, VerdictOf
  <2> QED  BY <1>1, <1>3, <2>1, <2>2, DateAnswers
<1>4. ASSUME NEW n \in Nodes, NEW v \in {"pending"} \cup Answered, ItemFilled(n, v)
      PROVE  /\ path' = path /\ Nodes' = Nodes /\ passed \subseteq passed'
             /\ \A m \in Nodes : Verdict(m) # "none" => Verdict(m)' = Verdict(m)
  <2>1. path' = path /\ Nodes' = Nodes /\ passed \subseteq passed'
    BY <1>4 DEF ItemFilled, Nodes
  <2> QED  BY <1>1, <1>4, <2>1, FillAnswers DEF NewVerdict
<1> QED  BY <1>2, <1>3, <1>4, ItemSteps

LEMMA SuitsStill ==
    ASSUME IInv, TypeOK', [Next]_vars, NEW n \in Nodes, NEW b \in Branches, Suits(n, b)
    PROVE  Suits(n, b)'
<1>1. Verdict(n) # "none"
  BY ParkAssumption DEF Suits, Branches, Answered
<1> QED  BY <1>1, AnswersStand DEF Suits
-----------------------------------------------------------------------------
(* What a caller does with its own variables *)

\* It goes on where it is, or is done with its call.
Goes(p) ==
    \E s \in Steps \ {"decide", "acknowledge", "expire", "route"} :
      /\ Goto(p, s) /\ Local
      /\ s \in Engine => pc[p] \in Engine
      /\ s \in AtItem => pc[p] \in AtItem
\* It has an answer to go by.
Answering(p) ==
    \E b \in Branches : Succeed(p, b) /\ pc[p] \in Engine /\ Suits(here[p], b)'

LEMMA Runs ==
    ASSUME IInv, NEW p \in Callers, Run(p)
    PROVE  \/ Goes(p) \/ Leave(p) \/ Answering(p)
           \/ ReadCheckpoint(p) \/ Route(p)
           \/ /\ Goto(p, "expire") /\ Local /\ pc[p] \in Engine
              /\ path[here[p]] = "ack" /\ here[p] \in passed /\ item[here[p]] = "pending"
              /\ UNCHANGED <<path, passed, item>>
<1>1. CASE InitializeExecution(p) \/ ReadLock(p) \/ TakeLock(p) \/ AcquireMutex(p) \/ GiveUp(p)
           \/ MarkRunning(p) \/ Complete(p) \/ ParkRow(p) \/ SaveCheckpoint(p) \/ ForceFail(p)
           \/ ReleaseLock(p)
  BY <1>1 DEF InitializeExecution, ReadLock, TakeLock, AcquireMutex, GiveUp, MarkRunning, Complete,
     ParkRow, SaveCheckpoint, ForceFail, ReleaseLock, Goes, Move, At, Goto, Engine, Steps, AtItem
<1>2. CASE ReadCheckpoint(p) \/ Route(p)
  BY <1>2
<1>3. CASE Wait(p) \/ Review(p) \/ Challenge(p) \/ Await(p) \/ Expire(p)
  <2> DEFINE n == here[p]
  <2>1. n \in Nodes /\ pc[p] \in Engine /\ TypeOK
    BY <1>3, Places DEF Wait, Review, Challenge, Await, Expire, Handle, At, Engine, IInv
  <2>2. /\ item \in [Nodes -> {"none", "pending"} \cup Answered]
        /\ path[n] = "challenge" => n + 1 \in Nodes /\ path[n + 1] = "ack"
    BY <2>1, OnePath DEF TypeOK
  <2>3. path' = path /\ passed' = passed /\ here' = here
    BY <1>3 DEF Wait, Review, Challenge, Await, Expire, Outside, World, Still, Park, Succeed, Local
  <2> HIDE DEF n
  <2>4. /\ path[n] = "timer" => Verdict(n)' = IF n \in passed THEN "due" ELSE "none"
        /\ path[n] = "challenge" => Verdict(n)' = IF item'[n + 1] = "none" THEN "none" ELSE "made"
        /\ path[n] \notin {"timer", "challenge"} =>
             Verdict(n)' = IF item'[n] \in Answered THEN item'[n] ELSE "none"
    BY <2>3 DEF Verdict, n
  <2>5. ASSUME Park(p)
        PROVE  Goes(p)
    BY <2>1, <2>5 DEF Park, Goes, Steps, Engine, AtItem
  <2>6. ASSUME NEW b \in Branches, Succeed(p, b), Verdict(n)' = b
        PROVE  Answering(p)
    BY <2>1, <2>6 DEF Answering, Suits, n
  <2>7. CASE Wait(p)
    BY <2>4, <2>5, <2>6, <2>7 DEF Wait, Handle, Branches, n
  <2>8. CASE Review(p)
    <3>1. path[n] = "review"
      BY <2>8 DEF Review, Handle, n
    <3>2. CASE item[n] \in Outcomes
      BY <2>4, <2>6, <2>8, <3>1, <3>2 DEF Review, Branches, Answered, n
    <3>3. CASE item[n] \notin Outcomes
      BY <2>5, <2>8, <3>3 DEF Review, n
    <3> QED  BY <3>2, <3>3
  <2>9. CASE Challenge(p)
    <3>1. /\ path[n] = "challenge" /\ Succeed(p, "made")
          /\ item' = [item EXCEPT ![n + 1] = IF item[n + 1] = "none" THEN "pending" ELSE item[n + 1]]
      BY <2>9 DEF Challenge, Handle, n
    <3>2. item'[n + 1] # "none"
      BY <2>2, <3>1
    <3> QED  BY <2>4, <2>6, <3>1, <3>2 DEF Branches
  <2>10. CASE Await(p)
    <3>1. path[n] = "ack"
      BY <2>10 DEF Await, Handle, n
    <3>2. CASE Park(p)
      BY <2>5, <3>2
    <3>3. CASE item[n] \in Answered
      <4>1. item' = item /\ Succeed(p, item[n])
        BY <2>10, <3>3, NoAnswers DEF Await, n
      <4> QED  BY <2>4, <2>6, <3>1, <3>3, <4>1 DEF Branches
    <3>4. CASE ~Park(p) /\ item[n] \notin Answered
      <4>1. item[n] = "pending" /\ n \in passed /\ Goto(p, "expire") /\ Local /\ item' = item
        BY <2>1, <2>2, <2>10, <3>4 DEF Await, n
      <4> QED  BY <2>1, <2>3, <3>1, <4>1 DEF n
    <3> QED  BY <3>2, <3>3, <3>4
  <2>11. CASE Expire(p)
    <3>1. path[n] = "ack" /\ item[n] # "none"
      BY <2>11 DEF Expire, At, IInv, CallFits, n
    <3>2. CASE item[n] = "pending"
      <4>1. Succeed(p, "timed_out") /\ item' = [item EXCEPT ![n] = "timed_out"]
        BY <2>11, <3>2 DEF Expire, Put, n
      <4> QED  BY <2>1, <2>2, <2>4, <2>6, <3>1, <4>1 DEF Branches, Answered
    <3>3. CASE item[n] # "pending" /\ Succeed(p, item[n])
      <4>1. item' = item /\ item[n] \in Answered
        BY <2>1, <2>2, <2>11, <3>1, <3>3 DEF Expire, n
      <4> QED  BY <2>4, <2>6, <3>1, <3>3, <4>1 DEF Branches
    <3>4. CASE item[n] = "acknowledged" /\ Succeed(p, "guessed")
      <4>1. n \in passed /\ "acknowledged" \in Answered
        BY <2>11 DEF Expire, At, IInv, CallFits, Answered, n
      <4>2. item' = item
        BY <2>11, <3>4 DEF Expire, n
      <4>3. Verdict(n)' = "acknowledged"
        BY <2>4, <3>1, <3>4, <4>1, <4>2
      <4>4. Suits(n, "guessed")'
        BY <2>3, <3>1, <4>1, <4>3 DEF Suits, n
      <4> QED  BY <2>1, <3>4, <4>4 DEF Answering, Branches, n
    <3> QED  BY <2>11, <3>2, <3>3, <3>4 DEF Expire, n
  <2> QED  BY <1>3, <2>7, <2>8, <2>9, <2>10, <2>11
<1> QED  BY <1>1, <1>2, <1>3 DEF Run

LEMMA Serves ==
    ASSUME NEW p \in Callers, Serve(p)
    PROVE  Goes(p) \/ Return(p) \/ Touch(p)
  BY DEF Serve, Claim, Grant, Deny, Revert, EnqueueResume, FailClaim, RecordDecision,
     RecordAcknowledgment, Skip, Check, Book, Goes, Move, At, Goto, Engine, Steps, AtItem
-----------------------------------------------------------------------------
(* What a caller knows stays true *)

LEMMA BehindStands ==
    ASSUME IInv, TypeOK', [Next]_vars, walked \subseteq walked', NEW n \in 0 .. Len(path), Behind(n)
    PROVE  \A m \in 1 .. n - 1 : \E b \in Branches : Suits(m, b)' /\ <<m, b>> \in walked'
<1>1. Nodes = 1 .. Len(path) /\ Len(path) \in Nat
  BY OnePath DEF IInv, TypeOK
<1>2. ASSUME NEW m \in 1 .. n - 1
      PROVE  \E b \in Branches : Suits(m, b)' /\ <<m, b>> \in walked'
  <2>1. PICK b \in Branches : Suits(m, b) /\ <<m, b>> \in walked
    BY <1>2 DEF Behind
  <2>2. m \in Nodes
    BY <1>1, <1>2
  <2>3. Suits(m, b)'
    BY <2>1, <2>2, SuitsStill
  <2> QED  BY <2>1, <2>3
<1> QED  BY <1>2

LEMMA OneStands ==
    ASSUME IInv, TypeOK', [Next]_vars, walked \subseteq walked', NEW q \in Callers,
           pc'[q] = pc[q], here'[q] = here[q], about'[q] = about[q], branch'[q] = branch[q]
    PROVE  CallFits(q)'
<1>1. /\ here[q] \in 0 .. Len(path) /\ about[q] \in 0 .. Len(path) /\ CallFits(q)
      /\ path' = path /\ Nodes' = Nodes /\ passed \subseteq passed'
  BY AnswersStand DEF IInv, TypeOK
<1>2. pc[q] \in Engine => here[q] \in Nodes
  BY Places
<1> PICK n \in 0 .. Len(path) : n = here[q]
  BY <1>1
<1>3. pc[q] \in Engine => n # 0 /\ \A m \in 1 .. n - 1 : \E b \in Branches : Suits(m, b)' /\ <<m, b>> \in walked'
  BY <1>1, BehindStands DEF CallFits
<1>4. pc[q] = "expire" => item'[n] # "none"
  <2>1. ASSUME pc[q] = "expire"
        PROVE  item'[n] # "none"
    <3>1. item[n] # "none" /\ n \in Nodes
      BY <1>1, <1>2, <2>1 DEF CallFits, Engine
    <3>2. item' = item \/ \E m \in Nodes, v \in {"pending"} \cup Answered : item' = [item EXCEPT ![m] = v]
      BY ItemSteps DEF ItemsKept, ItemFilled, DatePasses, tables
    <3> QED  BY <3>1, <3>2, NoAnswers DEF IInv, TypeOK
  <2> QED  BY <2>1
<1>5. pc[q] = "route" => branch[q] \in Branches /\ Suits(n, branch[q])'
  BY <1>1, <1>2, SuitsStill DEF CallFits, Engine
<1>6. pc'[q] = pc[q] /\ here'[q] = n /\ about'[q] = about[q] /\ branch'[q] = branch[q]
  OBVIOUS
<1> QED  BY <1>1, <1>3, <1>4, <1>5, <1>6 DEF CallFits, Behind, Engine

LEMMA WalkedGrows ==
    ASSUME [Next]_vars
    PROVE  walked \subseteq walked'
<1>1. ASSUME NEW p \in Callers, Run(p)
      PROVE  walked \subseteq walked'
  BY <1>1 DEF Run, ReadCheckpoint, InitializeExecution, ReadLock, TakeLock, AcquireMutex, GiveUp,
     MarkRunning, Wait, Review, Challenge, Await, Expire, Route, Complete, ParkRow, SaveCheckpoint,
     ForceFail, ReleaseLock, Outside
<1>2. ASSUME NEW p \in Callers, Serve(p) \/ Cron(p) \/ Ask(p)
      PROVE  walked \subseteq walked'
  BY <1>2 DEF Serve, Claim, Grant, Deny, Revert, EnqueueResume, FailClaim, RecordDecision,
     RecordAcknowledgment, Touch, Skip, Check, Book, Cron, Ask, PollSelect, SweepSelect, ResumeDue,
     OpenReview, OpenAcknowledgment, Open, Outside
<1>3. CASE (\E k \in DOMAIN jobs : TakeJob(k)) \/ SettleJob \/ Forget \/ LockLapses \/ RecoverOrphan
           \/ SelectStuck \/ FailStuck \/ (\E n \in Nodes : DatePasses(n)) \/ UNCHANGED vars
           \/ \E proc \in Processes : Crash(proc)
  BY <1>3 DEF TakeJob, SettleJob, Forget, LockLapses, RecoverOrphan, SelectStuck, FailStuck,
     DatePasses, Crash, vars, Outside
<1> QED  BY <1>1, <1>2, <1>3 DEF Next

\* What the moves of a caller leave it with.
LEMMA Moves ==
    ASSUME IInv, TypeOK', [Next]_vars, NEW p \in Callers
    PROVE  /\ Goes(p) => CallFits(p)'
           /\ pc'[p] \notin Engine \cup AtItem => CallFits(p)'
           /\ Return(p) \/ Leave(p) => CallFits(p)'
           /\ Answering(p) => CallFits(p)'
<1>1. /\ pc \in [Callers -> Steps] /\ here \in [Callers -> 0 .. Len(path)]
      /\ about \in [Callers -> 0 .. Len(path)] /\ branch \in [Callers -> {"none"} \cup Branches]
      /\ CallFits(p)
  BY DEF IInv, TypeOK
<1> PICK n \in 0 .. Len(path) : n = here[p]
  BY <1>1
<1>2. pc[p] \in Engine => n # 0 /\ \A m \in 1 .. n - 1 : \E b \in Branches : Suits(m, b)' /\ <<m, b>> \in walked'
  BY <1>1, BehindStands, WalkedGrows DEF CallFits
<1>3. ASSUME Goes(p)
      PROVE  CallFits(p)'
  <2>1. PICK s \in Steps \ {"decide", "acknowledge", "expire", "route"} :
             /\ Goto(p, s) /\ Local
             /\ s \in Engine => pc[p] \in Engine
             /\ s \in AtItem => pc[p] \in AtItem
    BY <1>3 DEF Goes
  <2>2. pc'[p] = s /\ here'[p] = n /\ about'[p] = about[p]
    BY <1>1, <2>1 DEF Goto, Local
  <2> QED  BY <1>1, <1>2, <2>1, <2>2 DEF CallFits, Behind
<1>4. ASSUME pc'[p] \notin Engine \cup AtItem
      PROVE  CallFits(p)'
  BY <1>4 DEF CallFits, Engine, AtItem
<1>5. ASSUME Return(p) \/ Leave(p)
      PROVE  CallFits(p)'
  <2>1. CASE pc'[p] \notin Engine \cup AtItem
    BY <1>4, <2>1
  <2>2. CASE pc'[p] \in Engine \cup AtItem
    <3>1. pc'[p] = "book" /\ about'[p] = about[p] /\ about[p] # 0
      BY <1>1, <1>5, <2>2 DEF Return, Leave, AfterRun, Goto, Engine, AtItem
    <3> QED  BY <3>1 DEF CallFits, Engine
  <2> QED  BY <2>1, <2>2
<1>6. ASSUME Answering(p)
      PROVE  CallFits(p)'
  <2>1. PICK b \in Branches : Succeed(p, b) /\ pc[p] \in Engine /\ Suits(here[p], b)'
    BY <1>6 DEF Answering
  <2>2. pc'[p] = "route" /\ here'[p] = n /\ branch'[p] = b
    BY <1>1, <2>1 DEF Succeed, Goto
  <2> QED  BY <1>2, <2>1, <2>2 DEF CallFits, Behind, AtItem
<1> QED  BY <1>3, <1>4, <1>5, <1>6

\* The others are left where they are, but for sweeps that have come too late.
Apart(p) ==
    \A q \in Callers \ {p} :
      /\ here'[q] = here[q] /\ about'[q] = about[q] /\ branch'[q] = branch[q]
      /\ pc'[q] = pc[q] \/ pc'[q] = "stale"

LEMMA Others ==
    ASSUME IInv, TypeOK', [Next]_vars, NEW p \in Callers, Apart(p), CallFits(p)'
    PROVE  \A q \in Callers : CallFits(q)'
<1>1. ASSUME NEW q \in Callers, q # p
      PROVE  CallFits(q)'
  <2>1. CASE pc'[q] = pc[q]
    BY <1>1, <2>1, OneStands, WalkedGrows DEF Apart
  <2>2. CASE pc'[q] = "stale"
    BY <2>2, Moves DEF Engine, AtItem
  <2> QED  BY <1>1, <2>1, <2>2 DEF Apart
<1> QED  BY <1>1

LEMMA CallsKept ==
    ASSUME IInv, TypeOK', [Next]_vars
    PROVE  \A q \in Callers : CallFits(q)'
<1>1. /\ pc \in [Callers -> Steps] /\ here \in [Callers -> 0 .. Len(path)]
      /\ about \in [Callers -> 0 .. Len(path)] /\ branch \in [Callers -> {"none"} \cup Branches]
      /\ path \in Paths /\ saved \in 0 .. Len(path)
  BY DEF IInv, TypeOK
<1>2. /\ Len(path) \in Nat \ {0} /\ Nodes = 1 .. Len(path) /\ path' = path /\ passed \subseteq passed'
  BY <1>1, OnePath, AnswersStand
<1>3. ASSUME NEW p \in Callers, Run(p)
      PROVE  \A q \in Callers : CallFits(q)'
  <2>1. CASE Goes(p) \/ Leave(p) \/ Answering(p)
    <3>1. Apart(p)
      BY <1>1, <2>1 DEF Goes, Leave, Answering, Succeed, Return, Goto, Local, Apart
    <3> QED  BY <2>1, <3>1, Moves, Others
  <2>2. CASE ReadCheckpoint(p)
    <3> PICK n \in Nodes : n = IF saved = 0 THEN 1 ELSE saved
      BY <1>1, <1>2
    <3>1. Apart(p) /\ pc'[p] = "init" /\ here'[p] = n
      BY <1>1, <2>2 DEF ReadCheckpoint, Move, Goto, Apart
    <3>2. \A m \in 1 .. n - 1 : \E b \in Branches : Suits(m, b)' /\ <<m, b>> \in walked'
      <4>1. CASE saved = 0
        BY <1>2, <4>1
      <4>2. CASE saved # 0
        BY <1>1, <4>2, BehindStands, WalkedGrows DEF IInv
      <4> QED  BY <4>1, <4>2
    <3>3. n # 0
      BY <1>2
    <3>4. CallFits(p)'
      BY <3>1, <3>2, <3>3 DEF CallFits, Behind, AtItem
    <3> QED  BY <3>1, <3>4, Others
  <2>3. CASE Route(p)
    <3>1. pc[p] = "route" /\ here[p] \in Nodes
      BY <2>3, Places DEF Route, Move, At, Engine
    <3> PICK n \in Nodes : n = here[p]
      BY <3>1
    <3> PICK k \in Nodes : k = IF n < Len(path) THEN n + 1 ELSE n
      BY <1>2
    <3> PICK c \in Branches : c = branch[p]
      BY <3>1 DEF IInv, CallFits, Engine
    <3>2. /\ Apart(p) /\ pc'[p] \in {"enter", "complete"} /\ here'[p] = k
          /\ <<n, c>> \in walked'
      BY <1>1, <2>3 DEF Route, Move, Goto, Apart
    <3>3. Suits(n, c) /\ Behind(n) /\ n \in 0 .. Len(path)
      BY <1>2, <3>1 DEF IInv, CallFits, Engine
    <3>4. Suits(n, c)'
      BY <3>3, SuitsStill
    <3>5. \A m \in 1 .. n - 1 : \E b \in Branches : Suits(m, b)' /\ <<m, b>> \in walked'
      BY <3>3, BehindStands, WalkedGrows
    <3>6. \A m \in 1 .. k - 1 : \E b \in Branches : Suits(m, b)' /\ <<m, b>> \in walked'
      <4>1. ASSUME NEW m \in 1 .. k - 1, m \notin 1 .. n - 1
            PROVE  m = n
        BY <1>2, <4>1
      <4> QED  BY <3>2, <3>4, <3>5, <4>1
    <3>7. k # 0
      BY <1>2
    <3>8. CallFits(p)'
      BY <3>2, <3>6, <3>7 DEF CallFits, Behind, AtItem
    <3> QED  BY <3>2, <3>8, Others
  <2>4. CASE /\ Goto(p, "expire") /\ Local /\ pc[p] \in Engine
             /\ path[here[p]] = "ack" /\ here[p] \in passed /\ item[here[p]] = "pending"
             /\ UNCHANGED <<path, passed, item>>
    <3> PICK n \in Nodes : n = here[p]
      BY <2>4, Places
    <3>1. Apart(p) /\ pc'[p] = "expire" /\ here'[p] = n
      BY <1>1, <2>4 DEF Goto, Local, Apart
    <3>2. n # 0 /\ \A m \in 1 .. n - 1 : \E b \in Branches : Suits(m, b)' /\ <<m, b>> \in walked'
      BY <1>2, <2>4, BehindStands, WalkedGrows DEF IInv, CallFits
    <3>3. CallFits(p)'
      BY <2>4, <3>1, <3>2 DEF CallFits, Behind, AtItem
    <3> QED  BY <3>1, <3>3, Others
  <2> QED  BY <1>3, <2>1, <2>2, <2>3, <2>4, Runs
<1>4. ASSUME NEW p \in Callers, Serve(p)
      PROVE  \A q \in Callers : CallFits(q)'
  <2>1. CASE Goes(p) \/ Return(p)
    <3>1. Apart(p)
      BY <1>1, <2>1 DEF Goes, Return, Goto, Local, Apart
    <3> QED  BY <2>1, <3>1, Moves, Others
  <2>2. CASE Touch(p)
    <3>1. Apart(p)
      BY <1>1, <2>2 DEF Touch, Local, Apart
    <3>2. pc'[p] \in {"check", "stale"} /\ about'[p] = about[p] /\ pc[p] = "touch"
      BY <1>1, <2>2 DEF Touch, Local, At
    <3>3. about[p] # 0
      BY <3>2 DEF IInv, CallFits, AtItem
    <3>4. CallFits(p)'
      BY <3>2, <3>3 DEF CallFits, Engine
    <3> QED  BY <3>1, <3>4, Others
  <2> QED  BY <1>4, <2>1, <2>2, Serves
<1>5. ASSUME NEW p \in Callers, Cron(p) \/ Ask(p)
      PROVE  \A q \in Callers : CallFits(q)'
  <2>1. Apart(p)
    BY <1>1, <1>5 DEF Cron, Ask, PollSelect, SweepSelect, ResumeDue, OpenReview, OpenAcknowledgment,
       Open, Move, Goto, Local, Apart
  <2>2. \/ pc'[p] \in {"claim", "read"}
        \/ \E n \in Nodes : /\ about'[p] = n
                            /\ \/ pc'[p] \in {"touch", "check"}
                               \/ pc'[p] = "decide" /\ path[n] = "review"
                               \/ pc'[p] = "acknowledge" /\ path[n] = "ack"
    BY <1>1, <1>5 DEF Cron, Ask, PollSelect, SweepSelect, ResumeDue, OpenReview, OpenAcknowledgment,
       Open, Move, Goto, Local
  <2>3. CallFits(p)'
    BY <1>2, <2>2 DEF CallFits, Engine, AtItem
  <2> QED  BY <2>1, <2>3, Others
<1>6. ASSUME NEW k \in DOMAIN jobs, TakeJob(k)
      PROVE  \A q \in Callers : CallFits(q)'
  <2>1. /\ Apart(Worker) /\ Worker \in Callers
        /\ pc'[Worker] = "read" \/ (pc'[Worker] = "init" /\ here'[Worker] = 1)
    BY <1>1, <1>6 DEF TakeJob, Goto, Apart, Callers
  <2>2. CallFits(Worker)'
    BY <2>1 DEF CallFits, Behind, Engine, AtItem
  <2> QED  BY <2>1, <2>2, Others
<1>7. ASSUME SettleJob
      PROVE  \A q \in Callers : CallFits(q)'
  <2>1. Apart(Worker) /\ Worker \in Callers
    BY <1>1, <1>7 DEF SettleJob, Return, Goto, Apart, Callers
  <2> QED  BY <1>7, <2>1, Moves, Others DEF SettleJob
<1>8. ASSUME NEW proc \in Processes, Crash(proc)
      PROVE  \A q \in Callers : CallFits(q)'
  <2>1. ASSUME NEW q \in Callers
        PROVE  \/ pc'[q] = "idle"
               \/ pc'[q] = pc[q] /\ here'[q] = here[q] /\ about'[q] = about[q] /\ branch'[q] = branch[q]
    BY <1>8 DEF Crash
  <2> QED  BY <2>1, Moves, OneStands, WalkedGrows DEF Engine, AtItem
<1>9. CASE Forget \/ LockLapses \/ RecoverOrphan \/ SelectStuck \/ FailStuck \/ UNCHANGED vars
           \/ \E n \in Nodes : DatePasses(n)
  <2>1. UNCHANGED locals
    BY <1>9 DEF Forget, LockLapses, RecoverOrphan, SelectStuck, FailStuck, DatePasses, vars
  <2> QED  BY <2>1, OneStands, WalkedGrows DEF locals
<1> QED  BY <1>3, <1>4, <1>5, <1>6, <1>7, <1>8, <1>9 DEF Next
-----------------------------------------------------------------------------
(* Types *)

LEMMA RowMoves ==
    ASSUME IInv, [Next]_vars
    PROVE  row' \in Rows /\ saved' \in 0 .. Len(path)
<1>1. /\ row \in Rows /\ saved \in 0 .. Len(path) /\ path \in Paths
      /\ row.at \in 0 .. Len(path) /\ row.next \in 0 .. Len(path)
  BY DEF IInv, TypeOK, Rows
<1>2. Len(path) \in Nat \ {0} /\ Nodes = 1 .. Len(path) /\ 0 \in 0 .. Len(path)
  BY <1>1, OnePath
<1>3. ASSUME NEW s \in {"queued", "running", "waiting", "success", "failed"}
      PROVE  /\ SetStatus(s) => row' \in Rows
             /\ \A n, m \in 0 .. Len(path) : SetState(s, n, m) => row' \in Rows
  BY <1>1 DEF SetStatus, SetState, Rows
<1>4. ASSUME NEW p \in Callers, Run(p)
      PROVE  row' \in Rows /\ saved' \in 0 .. Len(path)
  <2>1. pc[p] \in Engine => here[p] \in 1 .. Len(path)
    BY <1>2, Places
  <2>2. CASE UNCHANGED row
    <3>1. saved' = saved \/ saved' = here[p] \/ (here[p] < Len(path) /\ saved' = here[p] + 1)
      BY <1>4 DEF Run, ReadCheckpoint, InitializeExecution, ReadLock, TakeLock, AcquireMutex, GiveUp,
         MarkRunning, Wait, Review, Challenge, Await, Expire, Route, Complete, ParkRow,
         SaveCheckpoint, ForceFail, ReleaseLock, RowOnly, tables
    <3>2. here[p] \in 0 .. Len(path)
      BY DEF IInv, TypeOK
    <3> QED  BY <1>1, <1>2, <2>2, <3>1, <3>2
  <2>3. CASE ~UNCHANGED row
    <3>1. InitializeExecution(p) \/ GiveUp(p) \/ MarkRunning(p) \/ Complete(p) \/ ParkRow(p) \/ ForceFail(p)
      BY <1>4, <2>3 DEF Run, ReadCheckpoint, ReadLock, TakeLock, AcquireMutex, Wait, Review,
         Challenge, Await, Expire, Route, SaveCheckpoint, ReleaseLock, tables
    <3>2. saved' = saved
      BY <3>1 DEF InitializeExecution, GiveUp, MarkRunning, Complete, ParkRow, ForceFail, RowOnly
    <3>3. CASE InitializeExecution(p) \/ ForceFail(p)
      <4>1. \E s \in {"running", "failed"} : SetStatus(s)
        BY <2>3, <3>3 DEF InitializeExecution, ForceFail
      <4> QED  BY <1>1, <1>3, <3>2, <4>1
    <3>4. CASE GiveUp(p) \/ MarkRunning(p) \/ Complete(p) \/ ParkRow(p)
      <4>1. here[p] \in 0 .. Len(path)
        BY DEF IInv, TypeOK
      <4>2. PICK s \in {"queued", "running", "waiting", "success", "failed"} :
                   SetState(s, here[p], 0) \/ SetState(s, here[p], here[p])
        BY <3>4 DEF GiveUp, MarkRunning, Complete, ParkRow
      <4>3. CASE SetState(s, here[p], 0)
        BY <1>1, <1>2, <1>3, <3>2, <4>1, <4>3
      <4>4. CASE SetState(s, here[p], here[p])
        BY <1>1, <1>3, <3>2, <4>1, <4>4
      <4> QED  BY <4>2, <4>3, <4>4
    <3> QED  BY <1>1, <3>1, <3>2, <3>3, <3>4
  <2> QED  BY <2>2, <2>3
<1>5. ASSUME NEW p \in Callers, Serve(p)
      PROVE  row' \in Rows /\ saved' \in 0 .. Len(path)
  <2>1. saved' = saved /\ (row' = row \/ \E s \in {"running", "waiting", "failed"} : SetStatus(s))
    BY <1>5 DEF Serve, Claim, Grant, Deny, Revert, EnqueueResume, FailClaim, RecordDecision,
       RecordAcknowledgment, Touch, Skip, Check, Book, PutBack, RowOnly, tables
  <2> QED  BY <1>1, <1>3, <2>1
<1>6. CASE (\E k \in DOMAIN jobs : TakeJob(k)) \/ SettleJob \/ Forget \/ LockLapses \/ RecoverOrphan
           \/ SelectStuck \/ FailStuck \/ (\E n \in Nodes : DatePasses(n)) \/ UNCHANGED vars
           \/ (\E proc \in Processes : Crash(proc)) \/ \E p \in Callers : Cron(p) \/ Ask(p)
  <2>1. saved' = saved /\ (row' = row \/ \E s \in {"running", "waiting", "failed"} : SetStatus(s))
    BY <1>6 DEF TakeJob, SettleJob, Forget, LockLapses, RecoverOrphan, SelectStuck, FailStuck,
       DatePasses, Crash, vars, Cron, Ask, PollSelect, SweepSelect, ResumeDue, OpenReview,
       OpenAcknowledgment, Open, PutBack, tables
  <2> QED  BY <1>1, <1>3, <2>1
<1> QED  BY <1>4, <1>5, <1>6 DEF Next

\* The shared rows beside it.
LEMMA TablesMove ==
    ASSUME IInv, [Next]_vars
    PROVE  /\ path' = path /\ passed' \subseteq Nodes
           /\ item' \in [Nodes -> {"none", "pending"} \cup Answered]
           /\ booked' \subseteq Nodes /\ unread' \subseteq Nodes
           /\ lock' \in Processes \cup {Free, Gone}
           /\ jobs' \in [{"run", "resume"} -> {"none", "waiting", "active", "done"}]
           /\ orphan' \in BOOLEAN /\ stuck' \in BOOLEAN /\ undated' \in BOOLEAN
           /\ crashes' \in 0 .. MaxCrashes[path]
<1>1. /\ passed \subseteq Nodes /\ item \in [Nodes -> {"none", "pending"} \cup Answered]
      /\ booked \subseteq Nodes /\ unread \subseteq Nodes /\ lock \in Processes \cup {Free, Gone}
      /\ jobs \in [{"run", "resume"} -> {"none", "waiting", "active", "done"}]
      /\ orphan \in BOOLEAN /\ stuck \in BOOLEAN /\ undated \in BOOLEAN
      /\ crashes \in 0 .. MaxCrashes[path]
  BY DEF IInv, TypeOK
<1>2. path' = path /\ passed' \subseteq Nodes /\ item' \in [Nodes -> {"none", "pending"} \cup Answered]
  BY <1>1, ItemSteps DEF ItemsKept, ItemFilled, DatePasses, tables
<1>3. booked' \subseteq Nodes
  <2>1. booked' = booked \/ \E p \in Callers : Book(p) \/ Review(p)
    BY DEF Next, vars, tables, Run, Serve, Cron, Ask, ReadCheckpoint, InitializeExecution, ReadLock,
       TakeLock, AcquireMutex, GiveUp, MarkRunning, Wait, Challenge, Await, Expire, Route, Complete,
       ParkRow, SaveCheckpoint, ForceFail, ReleaseLock, Claim, Grant, Deny, Revert, EnqueueResume,
       FailClaim, RecordDecision, RecordAcknowledgment, Touch, Skip, Check, PollSelect, SweepSelect,
       ResumeDue, OpenReview, OpenAcknowledgment, Open, RowOnly, TakeJob, SettleJob, Forget,
       DatePasses, Crash, LockLapses, RecoverOrphan, SelectStuck, FailStuck
  <2>2. ASSUME NEW p \in Callers, Book(p) \/ Review(p)
        PROVE  booked' \subseteq Nodes
    <3>1. CASE Book(p)
      BY <1>1, <3>1, Places DEF Book, At, AtItem
    <3>2. CASE Review(p)
      BY <1>1, <3>2, Places DEF Review, Handle, At, Engine
    <3> QED  BY <2>2, <3>1, <3>2
  <2> QED  BY <1>1, <2>1, <2>2
<1>4. lock' \in Processes \cup {Free, Gone}
  <2>1. lock' \in {lock, Free, Gone} \/ \E p \in Callers : lock' = ProcessOf[p]
    BY DEF Next, vars, tables, Run, Serve, Cron, Ask, ReadCheckpoint, InitializeExecution, ReadLock,
       TakeLock, AcquireMutex, GiveUp, MarkRunning, Wait, Review, Challenge, Await, Expire, Route,
       Complete, ParkRow, SaveCheckpoint, ForceFail, ReleaseLock, Claim, Grant, Deny, Revert,
       EnqueueResume, FailClaim, RecordDecision, RecordAcknowledgment, Touch, Skip, Check, Book,
       PollSelect, SweepSelect, ResumeDue, OpenReview, OpenAcknowledgment, Open, RowOnly, TakeJob,
       SettleJob, Forget, DatePasses, Crash, LockLapses, RecoverOrphan, SelectStuck, FailStuck
  <2> QED  BY <1>1, <2>1 DEF Processes
<1>5. jobs' \in [{"run", "resume"} -> {"none", "waiting", "active", "done"}]
  <2>1. \/ jobs' \in {jobs, Queued}
        \/ \E k \in {"run", "resume"}, s \in {"none", "active"} : jobs' = [jobs EXCEPT ![k] = s]
        \/ \E s \in {"waiting", "done"} :
             jobs' = [k \in DOMAIN jobs |-> IF jobs[k] = "active" THEN s ELSE jobs[k]]
    BY <1>1 DEF Next, vars, tables, Run, Serve, Cron, Ask, ReadCheckpoint, InitializeExecution,
       ReadLock, TakeLock, AcquireMutex, GiveUp, MarkRunning, Wait, Review, Challenge, Await, Expire,
       Route, Complete, ParkRow, SaveCheckpoint, ForceFail, ReleaseLock, Claim, Grant, Deny, Revert,
       EnqueueResume, FailClaim, RecordDecision, RecordAcknowledgment, Touch, Skip, Check, Book,
       PollSelect, SweepSelect, ResumeDue, OpenReview, OpenAcknowledgment, Open, RowOnly, TakeJob,
       SettleJob, Forget, DatePasses, Crash, LockLapses, RecoverOrphan, SelectStuck, FailStuck
  <2> QED  BY <1>1, <2>1 DEF Queued
<1>6. orphan' \in BOOLEAN /\ stuck' \in BOOLEAN /\ undated' \in BOOLEAN
  <2>1. CASE \E proc \in Processes : Crash(proc)
    <3>1. stuck' = stuck /\ undated' = undated
      BY <2>1 DEF Crash
    <3>2. orphan' \in BOOLEAN
      BY <2>1, Zenon DEF Crash
    <3> QED  BY <1>1, <3>1, <3>2
  <2>2. CASE ~ \E proc \in Processes : Crash(proc)
    <3>1. orphan' = orphan \/ orphan' = FALSE
      BY <2>2 DEF Next, vars, tables, Run, Serve, Cron, Ask, ReadCheckpoint, InitializeExecution,
       ReadLock, TakeLock, AcquireMutex, GiveUp, MarkRunning, Wait, Review, Challenge, Await, Expire,
       Route, Complete, ParkRow, SaveCheckpoint, ForceFail, ReleaseLock, Claim, Grant, Deny, Revert,
       EnqueueResume, FailClaim, RecordDecision, RecordAcknowledgment, Touch, Skip, Check, Book,
       PollSelect, SweepSelect, ResumeDue, OpenReview, OpenAcknowledgment, Open, RowOnly, TakeJob,
       SettleJob, Forget, DatePasses, LockLapses, RecoverOrphan, SelectStuck, FailStuck
    <3>2. stuck' = stuck \/ stuck' = TRUE \/ stuck' = FALSE
      BY <2>2 DEF Next, vars, tables, Run, Serve, Cron, Ask, ReadCheckpoint, InitializeExecution,
       ReadLock, TakeLock, AcquireMutex, GiveUp, MarkRunning, Wait, Review, Challenge, Await, Expire,
       Route, Complete, ParkRow, SaveCheckpoint, ForceFail, ReleaseLock, Claim, Grant, Deny, Revert,
       EnqueueResume, FailClaim, RecordDecision, RecordAcknowledgment, Touch, Skip, Check, Book,
       PollSelect, SweepSelect, ResumeDue, OpenReview, OpenAcknowledgment, Open, RowOnly, TakeJob,
       SettleJob, Forget, DatePasses, LockLapses, RecoverOrphan, SelectStuck, FailStuck,
       Outside, World, Still
    <3>3. undated' = undated \/ RecoverOrphan \/ \E p \in Callers : Revert(p)
      BY <2>2 DEF Next, vars, tables, Run, Serve, Cron, Ask, ReadCheckpoint, InitializeExecution,
       ReadLock, TakeLock, AcquireMutex, GiveUp, MarkRunning, Wait, Review, Challenge, Await, Expire,
       Route, Complete, ParkRow, SaveCheckpoint, ForceFail, ReleaseLock, Claim, Grant, Deny, Revert,
       EnqueueResume, FailClaim, RecordDecision, RecordAcknowledgment, Touch, Skip, Check, Book,
       PollSelect, SweepSelect, ResumeDue, OpenReview, OpenAcknowledgment, Open, RowOnly, TakeJob,
       SettleJob, Forget, DatePasses, LockLapses, SelectStuck, FailStuck,
       Outside, World
    <3>4. ASSUME PutBack
          PROVE  undated' \in BOOLEAN
      <4>1. undated' = undated \/ undated' = (undated \/ row.next = 0)
        BY <3>4 DEF PutBack
      <4>2. (undated \/ row.next = 0) \in BOOLEAN
        BY Zenon
      <4> QED  BY <1>1, <4>1, <4>2
    <3> QED  BY <1>1, <3>1, <3>2, <3>3, <3>4 DEF Revert, RecoverOrphan
  <2> QED  BY <2>1, <2>2
<1>7. crashes' \in 0 .. MaxCrashes[path]
  <2>1. crashes' = crashes \/ (crashes < MaxCrashes[path] /\ crashes' = crashes + 1)
    BY DEF Next, vars, tables, Run, Serve, Cron, Ask, ReadCheckpoint, InitializeExecution,
       ReadLock, TakeLock, AcquireMutex, GiveUp, MarkRunning, Wait, Review, Challenge, Await, Expire,
       Route, Complete, ParkRow, SaveCheckpoint, ForceFail, ReleaseLock, Claim, Grant, Deny, Revert,
       EnqueueResume, FailClaim, RecordDecision, RecordAcknowledgment, Touch, Skip, Check, Book,
       PollSelect, SweepSelect, ResumeDue, OpenReview, OpenAcknowledgment, Open, RowOnly, TakeJob,
       SettleJob, Forget, DatePasses, Crash, LockLapses, RecoverOrphan, SelectStuck, FailStuck,
       Outside, World, Still
  <2>2. MaxCrashes[path] \in Nat
    BY ParkAssumption DEF IInv, TypeOK
  <2> QED  BY <1>1, <2>1, <2>2
<1>8. unread' \subseteq Nodes
  <2>1. unread' = unread \/ \E p \in Callers : Check(p)
    BY DEF Next, vars, Run, Serve, Cron, Ask, ReadCheckpoint, InitializeExecution, ReadLock,
       TakeLock, AcquireMutex, GiveUp, MarkRunning, Wait, Review, Challenge, Await, Expire, Route,
       Complete, ParkRow, SaveCheckpoint, ForceFail, ReleaseLock, Claim, Grant, Deny, Revert,
       EnqueueResume, FailClaim, RecordDecision, RecordAcknowledgment, Touch, Skip, Book,
       PollSelect, SweepSelect, ResumeDue, OpenReview, OpenAcknowledgment, Open, TakeJob,
       SettleJob, Forget, DatePasses, Crash, LockLapses, RecoverOrphan, SelectStuck, FailStuck,
       Outside, World
  <2>2. ASSUME NEW p \in Callers, Check(p)
        PROVE  unread' \subseteq Nodes
    BY <1>1, <2>2, Places DEF Check, At, AtItem
  <2> QED  BY <1>1, <2>1, <2>2
<1> QED  BY <1>1, <1>2, <1>3, <1>4, <1>5, <1>6, <1>7, <1>8

LEMMA LocalsMove ==
    ASSUME IInv, [Next]_vars
    PROVE  /\ pc' \in [Callers -> Steps]
           /\ here' \in [Callers -> 0 .. Len(path)] /\ about' \in [Callers -> 0 .. Len(path)]
           /\ branch' \in [Callers -> {"none"} \cup Branches]
<1>1. /\ pc \in [Callers -> Steps] /\ path \in Paths
      /\ here \in [Callers -> 0 .. Len(path)] /\ about \in [Callers -> 0 .. Len(path)]
      /\ branch \in [Callers -> {"none"} \cup Branches]
      /\ row.next \in 0 .. Len(path) /\ saved \in 0 .. Len(path)
  BY DEF IInv, TypeOK, Rows
<1>2. Len(path) \in Nat \ {0} /\ Nodes = 1 .. Len(path)
  BY <1>1, OnePath
<1>3. {0, 1} \subseteq 0 .. Len(path) /\ Nodes \subseteq 0 .. Len(path)
  BY <1>2
<1>4. ASSUME NEW p \in Callers, Goes(p) \/ Return(p) \/ Leave(p) \/ Answering(p) \/ (Goto(p, "expire") /\ Local)
      PROVE  /\ pc' \in [Callers -> Steps]
             /\ here' \in [Callers -> 0 .. Len(path)] /\ about' \in [Callers -> 0 .. Len(path)]
             /\ branch' \in [Callers -> {"none"} \cup Branches]
  <2>1. \E s \in Steps : pc' = [pc EXCEPT ![p] = s]
    BY <1>4 DEF Goes, Return, Leave, AfterRun, Answering, Succeed, Goto, Steps, Engine
  <2>2. /\ here' = here \/ here' = [here EXCEPT ![p] = 0]
        /\ about' = about \/ about' = [about EXCEPT ![p] = 0]
        /\ branch' = branch \/ \E b \in {"none"} \cup Branches : branch' = [branch EXCEPT ![p] = b]
    BY <1>4 DEF Goes, Return, Leave, Answering, Succeed, Local
  <2> QED  BY <1>1, <1>3, <2>1, <2>2
<1>5. ASSUME NEW p \in Callers, Run(p)
      PROVE  /\ pc' \in [Callers -> Steps]
             /\ here' \in [Callers -> 0 .. Len(path)] /\ about' \in [Callers -> 0 .. Len(path)]
             /\ branch' \in [Callers -> {"none"} \cup Branches]
  <2>1. CASE ReadCheckpoint(p)
    BY <1>1, <1>3, <2>1 DEF ReadCheckpoint, Move, Goto, Steps, Engine
  <2>2. CASE Route(p)
    <3>1. here[p] \in Nodes
      BY <2>2, Places DEF Route, Move, At, Engine
    <3> PICK k \in Nodes : k = IF here[p] < Len(path) THEN here[p] + 1 ELSE here[p]
      BY <1>2, <3>1
    <3>2. /\ \E s \in Steps : pc' = [pc EXCEPT ![p] = s]
          /\ here' = [here EXCEPT ![p] = k] /\ branch' = [branch EXCEPT ![p] = "none"]
          /\ about' = about
      BY <2>2 DEF Route, Move, Goto, Steps, Engine
    <3> QED  BY <1>1, <1>3, <3>2
  <2> QED  BY <1>4, <1>5, <2>1, <2>2, Runs
<1>6. ASSUME NEW p \in Callers, Serve(p)
      PROVE  /\ pc' \in [Callers -> Steps]
             /\ here' \in [Callers -> 0 .. Len(path)] /\ about' \in [Callers -> 0 .. Len(path)]
             /\ branch' \in [Callers -> {"none"} \cup Branches]
  <2>1. CASE Touch(p)
    BY <1>1, <2>1 DEF Touch, Local, Steps
  <2> QED  BY <1>4, <1>6, <2>1, Serves
<1>7. ASSUME NEW p \in Callers, Cron(p) \/ Ask(p)
      PROVE  /\ pc' \in [Callers -> Steps]
             /\ here' \in [Callers -> 0 .. Len(path)] /\ about' \in [Callers -> 0 .. Len(path)]
             /\ branch' \in [Callers -> {"none"} \cup Branches]
  <2>1. /\ \E s \in Steps : pc' = [pc EXCEPT ![p] = s]
        /\ here' = here \/ here' = [here EXCEPT ![p] = row.next]
        /\ about' = about \/ \E n \in Nodes : about' = [about EXCEPT ![p] = n]
        /\ branch' = branch
    BY <1>7 DEF Cron, Ask, PollSelect, SweepSelect, ResumeDue, OpenReview, OpenAcknowledgment,
       Open, Move, Goto, Local, Steps
  <2> QED  BY <1>1, <1>3, <2>1
<1>8. CASE SettleJob
  <2>1. Worker \in Callers /\ Return(Worker)
    BY <1>8 DEF SettleJob, Callers
  <2> QED  BY <1>4, <2>1
<1>9. CASE (\E k \in DOMAIN jobs : TakeJob(k)) \/ Forget \/ LockLapses \/ RecoverOrphan
           \/ SelectStuck \/ FailStuck \/ (\E n \in Nodes : DatePasses(n)) \/ UNCHANGED vars
  <2>1. /\ pc' = pc \/ \E s \in Steps : pc' = [pc EXCEPT ![Worker] = s]
        /\ here' = here \/ here' = [here EXCEPT ![Worker] = 1]
        /\ about' = about /\ branch' = branch
    BY <1>9 DEF TakeJob, Goto, Forget, LockLapses, RecoverOrphan, SelectStuck, FailStuck,
       DatePasses, vars, locals, Steps, Engine
  <2> QED  BY <1>1, <1>3, <2>1
<1>10. ASSUME NEW proc \in Processes, Crash(proc)
       PROVE  /\ pc' \in [Callers -> Steps]
              /\ here' \in [Callers -> 0 .. Len(path)] /\ about' \in [Callers -> 0 .. Len(path)]
              /\ branch' \in [Callers -> {"none"} \cup Branches]
  BY <1>1, <1>3, <1>10 DEF Crash, Steps
<1> QED  BY <1>5, <1>6, <1>7, <1>8, <1>9, <1>10 DEF Next

LEMMA WalkedMoves ==
    ASSUME IInv, [Next]_vars
    PROVE  \/ walked' = walked
           \/ \E n \in Nodes, b \in Branches :
                /\ Behind(n) /\ Suits(n, b) /\ ItemsKept
                /\ walked' = walked \cup {<<n, b>>}
<1>1. ASSUME NEW p \in Callers, Route(p)
      PROVE  \E n \in Nodes, b \in Branches :
               /\ Behind(n) /\ Suits(n, b) /\ ItemsKept
               /\ walked' = walked \cup {<<n, b>>}
  <2>1. pc[p] = "route" /\ here[p] \in Nodes
    BY <1>1, Places DEF Route, Move, At, Engine
  <2>2. branch[p] \in Branches /\ Suits(here[p], branch[p]) /\ Behind(here[p])
    BY <2>1 DEF IInv, CallFits, Engine
  <2>3. walked' = walked \cup {<<here[p], branch[p]>>} /\ ItemsKept
    BY <1>1 DEF Route, World, Still, ItemsKept
  <2> QED  BY <2>1, <2>2, <2>3
<1>2. ASSUME ~ \E p \in Callers : Route(p)
      PROVE  walked' = walked
  BY <1>2 DEF Next, vars, tables, Run, Serve, Cron, Ask, ReadCheckpoint, InitializeExecution, ReadLock,
     TakeLock, AcquireMutex, GiveUp, MarkRunning, Wait, Review, Challenge, Await, Expire, Complete,
     ParkRow, SaveCheckpoint, ForceFail, ReleaseLock, Claim, Grant, Deny, Revert, EnqueueResume,
     FailClaim, RecordDecision, RecordAcknowledgment, Touch, Skip, Check, Book, PollSelect, SweepSelect,
     ResumeDue, OpenReview, OpenAcknowledgment, Open, Outside, TakeJob, SettleJob, Forget,
     DatePasses, Crash, LockLapses, RecoverOrphan, SelectStuck, FailStuck
<1> QED  BY <1>1, <1>2

LEMMA TypesMove ==
    ASSUME IInv, [Next]_vars
    PROVE  TypeOK'
<1>1. path' = path /\ path \in Paths /\ Nodes' = Nodes /\ walked \subseteq Nodes \X Branches
  BY TablesMove DEF IInv, TypeOK, Nodes
<1>2. walked' \subseteq Nodes \X Branches
  BY <1>1, WalkedMoves
<1>3. Rows' = Rows
  BY <1>1 DEF Rows
<1> QED  BY <1>1, <1>2, <1>3, RowMoves, TablesMove, LocalsMove DEF TypeOK
-----------------------------------------------------------------------------
(* The invariant *)

LEMMA ReviewsKept ==
    ASSUME IInv, [Next]_vars
    PROVE  ReviewsFit'
<1>1. item \in [Nodes -> {"none", "pending"} \cup Answered] /\ ReviewsFit
  BY DEF IInv, TypeOK
<1>2. CASE ItemsKept
  BY <1>1, <1>2 DEF ItemsKept, ReviewsFit, Nodes
<1>3. CASE \E n \in Nodes : DatePasses(n)
  BY <1>1, <1>3 DEF DatePasses, tables, ReviewsFit, Nodes
<1>4. ASSUME NEW n \in Nodes, NEW v \in {"pending"} \cup Answered, ItemFilled(n, v)
      PROVE  ReviewsFit'
  <2>1. path' = path /\ item' = [item EXCEPT ![n] = v] /\ Nodes' = Nodes
    BY <1>4 DEF ItemFilled, Nodes
  <2>2. path[n] = "review" => v \in {"pending"} \cup Outcomes
    BY <1>4 DEF ItemFilled, Fills
  <2> QED  BY <1>1, <2>1, <2>2 DEF ReviewsFit
<1> QED  BY <1>2, <1>3, <1>4, ItemSteps

LEMMA SavedBehind ==
    ASSUME IInv, TypeOK', [Next]_vars
    PROVE  Behind(saved)'
<1>1. /\ saved \in 0 .. Len(path) /\ Behind(saved) /\ path \in Paths
      /\ Nodes = 1 .. Len(path) /\ Len(path) \in Nat \ {0}
  BY OnePath DEF IInv, TypeOK
<1>2. ASSUME NEW n \in 0 .. Len(path), Behind(n), saved' = n
      PROVE  Behind(saved)'
  BY <1>2, BehindStands, WalkedGrows DEF Behind
<1>3. ASSUME NEW p \in Callers, SaveCheckpoint(p)
      PROVE  Behind(saved)'
  <2>1. pc[p] = "save" /\ here[p] \in Nodes /\ saved' = here[p]
    BY <1>3, Places DEF SaveCheckpoint, Move, At, Engine
  <2>2. Behind(here[p])
    BY <2>1 DEF IInv, CallFits, Engine
  <2> QED  BY <1>1, <1>2, <2>1, <2>2
<1>4. ASSUME NEW p \in Callers, Route(p)
      PROVE  Behind(saved)'
  <2>1. pc[p] = "route" /\ here[p] \in Nodes /\ pc'[p] \in {"enter", "complete"} /\ saved' = here'[p]
    <3>1. pc[p] = "route" /\ here[p] \in Nodes
      BY <1>4, Places DEF Route, Move, At, Engine
    <3>2. pc \in [Callers -> Steps] /\ here \in [Callers -> 0 .. Len(path)]
      BY DEF IInv, TypeOK
    <3> QED  BY <1>4, <3>1, <3>2 DEF Route, Move, Goto
  <2>2. Behind(here[p])'
    BY <2>1, CallsKept DEF CallFits, Engine
  <2> QED  BY <2>1, <2>2 DEF Behind
<1>5. ASSUME ~ \E p \in Callers : Route(p) \/ SaveCheckpoint(p)
      PROVE  saved' = saved
  BY <1>5 DEF Next, vars, tables, Run, Serve, Cron, Ask, ReadCheckpoint, InitializeExecution, ReadLock,
     TakeLock, AcquireMutex, GiveUp, MarkRunning, Wait, Review, Challenge, Await, Expire, Complete,
     ParkRow, ForceFail, ReleaseLock, Claim, Grant, Deny, Revert, EnqueueResume, FailClaim,
     RecordDecision, RecordAcknowledgment, Touch, Skip, Check, Book, PollSelect, SweepSelect,
     ResumeDue, OpenReview, OpenAcknowledgment, Open, RowOnly, TakeJob, SettleJob, Forget,
     DatePasses, Crash, LockLapses, RecoverOrphan, SelectStuck, FailStuck
<1> QED  BY <1>1, <1>2, <1>3, <1>4, <1>5

LEMMA Induction ==
    ASSUME IInv, [Next]_vars
    PROVE  IInv'
<1>1. TypeOK'
  BY TypesMove
<1> QED  BY <1>1, ReviewsKept, SavedBehind, CallsKept DEF IInv

LEMMA InitIsSound ==
    ASSUME Init
    PROVE  IInv
<1>1. path \in Paths /\ Len(path) \in Nat \ {0} /\ Nodes = 1 .. Len(path)
  BY OnePath DEF Init
<1>2. TypeOK
  <2>1. MaxCrashes[path] \in Nat
    BY <1>1, ParkAssumption
  <2>2. row \in Rows
    BY <1>1 DEF Init, Rows
  <2>3. /\ saved \in 0 .. Len(path) /\ crashes \in 0 .. MaxCrashes[path]
        /\ here \in [Callers -> 0 .. Len(path)] /\ about \in [Callers -> 0 .. Len(path)]
    BY <1>1, <2>1 DEF Init
  <2>4. /\ jobs \in [{"run", "resume"} -> {"none", "waiting", "active", "done"}]
        /\ pc \in [Callers -> Steps] /\ branch \in [Callers -> {"none"} \cup Branches]
        /\ item \in [Nodes -> {"none", "pending"} \cup Answered]
    BY DEF Init, Steps
  <2> QED  BY <1>1, <2>2, <2>3, <2>4 DEF Init, TypeOK
<1>3. ReviewsFit /\ Behind(saved)
  BY DEF Init, ReviewsFit, Behind
<1>4. \A p \in Callers : CallFits(p)
  BY DEF Init, CallFits, Engine, AtItem
<1> QED  BY <1>2, <1>3, <1>4 DEF IInv
-----------------------------------------------------------------------------
(* The theorems *)

\* The invariant that both follow from.
THEOREM Invariance == Spec => []IInv
<1>1. Init => IInv
  BY InitIsSound
<1>2. IInv /\ [Next]_vars => IInv'
  BY Induction
<1> QED  BY <1>1, <1>2, PTL DEF Spec

\* Every state is one the program can be in, as far as types tell: no caller,
\* row or checkpoint ever points at a node that the workflow does not have.
THEOREM TypeCorrect == Spec => []TypeOK
<1>1. IInv => TypeOK
  BY DEF IInv
<1> QED  BY <1>1, Invariance, PTL

\* One step of the rows is one step of the gates, or none.
LEMMA StepIsGated ==
    ASSUME IInv, [Next]_vars
    PROVE  [Gates!Next]_(Gates!vars)
<1> DEFINE answer == [n \in Nodes |-> Verdict(n)]
<1>1. TypeOK /\ TypeOK'
  BY TypesMove DEF IInv
<1>2. CASE ItemsKept
  <2>1. UNCHANGED <<path, passed, answer>>
    BY <1>2 DEF ItemsKept, Verdict, Nodes
  <2>2. CASE walked' = walked
    BY <2>1, <2>2 DEF Gates!vars
  <2>3. CASE walked' # walked
    <3>1. PICK n \in Nodes, b \in Branches :
               /\ Behind(n) /\ Suits(n, b)
               /\ walked' = walked \cup {<<n, b>>}
      BY <2>3, WalkedMoves
    <3>2. \A m \in 1 .. n - 1 : m \in Nodes
      BY <1>1, OnePath DEF TypeOK
    <3>3. \A m \in Nodes, c \in Branches : Suits(m, c) => c \in Gates!Ways(m)
      BY DEF Gates!Ways, Suits
    <3>4. Verdict(n) # "none"
      BY <3>1, ParkAssumption DEF Suits, Branches, Answered
    <3>5. \A m \in 1 .. n - 1 : \E c \in Gates!Ways(m) : <<m, c>> \in walked
      BY <3>1, <3>2, <3>3 DEF Behind
    <3>6. \E c \in Gates!Ways(n) : walked' = walked \cup {<<n, c>>}
      BY <3>1, <3>3
    <3>7. Gates!WalkThrough(n)
      BY <2>1, <3>4, <3>5, <3>6 DEF Gates!WalkThrough
    <3> QED  BY <3>7 DEF Gates!Next, Nodes
  <2> QED  BY <2>2, <2>3
<1>3. ASSUME NEW n \in Nodes, DatePasses(n)
      PROVE  [Gates!Next]_(Gates!vars)
  <2>1. /\ path' = path /\ Nodes' = Nodes /\ walked' = walked /\ n \notin passed
        /\ passed' = passed \cup {n}
    BY <1>3 DEF DatePasses, Nodes
  <2>2. answer' = [answer EXCEPT ![n] = IF path[n] = "timer" THEN "due" ELSE answer[n]]
    BY <1>1, <1>3, <2>1, DateAnswers
  <2>3. Gates!DatePasses(n)
    BY <2>1, <2>2 DEF Gates!DatePasses
  <2> QED  BY <2>3 DEF Gates!Next, Nodes
<1>4. ASSUME NEW n \in Nodes, NEW v \in {"pending"} \cup Answered, ItemFilled(n, v)
      PROVE  [Gates!Next]_(Gates!vars)
  <2>1. path' = path /\ passed' = passed /\ Nodes' = Nodes
    BY <1>4 DEF ItemFilled, Nodes
  <2>2. walked' = walked
    <3>1. item'[n] # item[n]
      BY <1>1, <1>4, NoAnswers DEF ItemFilled, Fills, TypeOK, Answered
    <3> QED  BY <3>1, WalkedMoves DEF ItemsKept
  <2>3. CASE \A m \in Nodes : Verdict(m)' = Verdict(m)
    BY <2>1, <2>2, <2>3 DEF Gates!vars
  <2>4. ASSUME NEW k \in Nodes, NEW u \in Branches, NewVerdict(k, u)
        PROVE  [Gates!Next]_(Gates!vars)
    <3>1. answer' = [answer EXCEPT ![k] = u] /\ answer[k] = "none" /\ u \in Gates!Answers(k)
      BY <2>1, <2>4 DEF NewVerdict
    <3>2. Gates!Answer(k)
      BY <2>1, <2>2, <3>1 DEF Gates!Answer
    <3> QED  BY <3>2 DEF Gates!Next, Nodes
  <2> QED  BY <1>1, <1>4, <2>3, <2>4, FillAnswers
<1> QED  BY <1>2, <1>3, <1>4, ItemSteps

\* Whoever resumes, and however often, a node is answered once and for good, a
\* deadline decides only after it has passed, and the execution walks by that
\* answer and behind the nodes before: ParkAndResume implements GatedWalk.
THEOREM Refinement == Spec => ImplementsGates
<1>1. Init => Gates!Init
  <2>1. ASSUME Init, NEW n \in Nodes
        PROVE  Verdict(n) = "none"
    <3>1. TypeOK /\ passed = {} /\ item = [m \in Nodes |-> "none"]
      BY <2>1, InitIsSound DEF IInv, Init
    <3> QED  BY <3>1, VerdictOf, NoAnswers
  <2> QED  BY <2>1 DEF Init, Gates!Init, Nodes
<1>2. IInv /\ [Next]_vars => [Gates!Next]_(Gates!vars)
  BY StepIsGated
<1> QED  BY <1>1, <1>2, Invariance, PTL DEF Spec, ImplementsGates, Gates!Spec
=============================================================================
