-------------------------- MODULE SideEffectLedger --------------------------
(***************************************************************************)
(* The durable side-effect ledger (lib/runtime/side-effect-ledger.ts) and  *)
(* the node runner that claims a row of it around a provider call          *)
(* (runtime/node-runner.ts).  Every database statement is one step: an     *)
(* insert, a read, a compare-and-set.  What a process read is a copy that  *)
(* other processes may have outdated by the time it acts on it.            *)
(***************************************************************************)
EXTENDS Naturals

CONSTANTS
    Effects,      \* ledger keys (execution_id, node_id, effect_key)
    Runners,      \* process invocations that may run the node
    Sweepers,     \* concurrent reconcileStaleSideEffects() passes
    Operators,    \* people using the recovery console
    MaxAttempts,  \* maxRetries + 1, provider calls of one claimed run
    MaxVersion,   \* bound: a row is claimed only below this many writes
    LeaseCoversAttempt,  \* a live attempt never outlasts SIDE_EFFECT_LEASE_MS
    BodyMayBeLost        \* a 2xx reply may lose its body after its headers

ASSUME LedgerAssumption ==
    /\ MaxAttempts \in Nat \ {0}
    /\ MaxVersion \in Nat
    /\ LeaseCoversAttempt \in BOOLEAN
    /\ BodyMayBeLost \in BOOLEAN

VARIABLES
    ledger,    \* the table: status, write count (updated_at), past the lease?
    pc,        \* where each runner is
    target,    \* the effect it runs
    tries,     \* provider calls made under its present claim
    outcome,   \* what it is about to record
    verdict,   \* what its last run() returned
    sweep,     \* the candidates each sweep pass has selected and not reached
    check,     \* what each operator saw at the provider and not submitted
    applied    \* the provider: how often the effect really happened

runnerVars == <<pc, target, tries, outcome, verdict>>
vars == <<ledger, runnerVars, sweep, check, applied>>

Outcome == {"succeeded", "failed", "indeterminate"}
Status == {"absent", "in_progress"} \cup Outcome
PC == {"idle", "conflict", "reclaim", "working", "record", "done"}
Verdict == {"none", "success", "suppressed", "failed"}

Row == [status : Status, version : Nat, expired : BOOLEAN]
Candidate == [effect : Effects, version : Nat]
Check == [effect : Effects, verified : {"succeeded", "failed"}]

TypeOK ==
    /\ ledger \in [Effects -> Row]
    /\ pc \in [Runners -> PC]
    /\ target \in [Runners -> Effects]
    /\ tries \in [Runners -> 0..MaxAttempts]
    /\ outcome \in [Runners -> Outcome]
    /\ verdict \in [Runners -> Verdict]
    /\ sweep \in [Sweepers -> SUBSET Candidate]
    /\ check \in [Operators -> SUBSET Check]
    /\ applied \in [Effects -> Nat]

Init ==
    /\ ledger = [e \in Effects |->
                   [status |-> "absent", version |-> 0, expired |-> FALSE]]
    /\ pc = [r \in Runners |-> "idle"]
    /\ target \in [Runners -> Effects]
    /\ tries = [r \in Runners |-> 0]
    /\ outcome = [r \in Runners |-> "failed"]
    /\ verdict = [r \in Runners |-> "none"]
    /\ sweep = [s \in Sweepers |-> {}]
    /\ check = [o \in Operators |-> {}]
    /\ applied = [e \in Effects |-> 0]

\* Every update of a row stamps updated_at: a new version, not yet stale.
Written(e, status) ==
    [ledger EXCEPT ![e] = [status |-> status, version |-> @.version + 1,
                           expired |-> FALSE]]

\* r holds the claim of e and is still running.
Holds(r, e) == pc[r] \in {"working", "record"} /\ target[r] = e
-----------------------------------------------------------------------------
(* claimSideEffect *)

Claimed(r, e) ==
    /\ ledger' = Written(e, "in_progress")
    /\ pc' = [pc EXCEPT ![r] = "working"]
    /\ tries' = [tries EXCEPT ![r] = 0]

\* Mutant: an upsert, which takes a claim that another caller holds for its own.
InsertUpsert(r, e) ==
    /\ pc[r] = "idle"
    /\ target' = [target EXCEPT ![r] = e]
    /\ ledger[e].status # "succeeded"
    /\ Claimed(r, e)
    /\ UNCHANGED <<outcome, verdict, sweep, check, applied>>

\* The INSERT: the unique key lets one caller in, everyone else gets 23505.
Insert(r, e) ==
    /\ pc[r] = "idle"
    /\ target' = [target EXCEPT ![r] = e]
    /\ \/ /\ ledger[e].status = "absent"
          /\ Claimed(r, e)
       \/ /\ ledger[e].status # "absent"
          /\ pc' = [pc EXCEPT ![r] = "conflict"]
          /\ UNCHANGED <<ledger, tries>>
    /\ UNCHANGED <<outcome, verdict, sweep, check, applied>>

Finish(r, v) ==
    /\ pc' = [pc EXCEPT ![r] = "done"]
    /\ verdict' = [verdict EXCEPT ![r] = v]

\* Mutant: whoever finds a claim takes the effect for done.
ReadSuppresses(r) ==
    LET seen == ledger[target[r]].status IN
    /\ pc[r] = "conflict"
    /\ seen # "absent"
    /\ Finish(r, "suppressed")
    /\ UNCHANGED <<ledger, target, tries, outcome, sweep, check, applied>>

\* The read after 23505: only a 'failed' row may be claimed again, and the
\* other answers are final for this run (shortCircuitUnclaimed).
ReadExisting(r) ==
    LET seen == ledger[target[r]].status IN
    /\ pc[r] = "conflict"
    /\ \/ /\ seen = "failed"
          /\ ledger[target[r]].version < MaxVersion
          /\ pc' = [pc EXCEPT ![r] = "reclaim"]
          /\ UNCHANGED verdict
       \/ /\ seen = "succeeded"
          /\ Finish(r, "suppressed")
       \/ /\ seen \in {"in_progress", "indeterminate"}
          /\ Finish(r, "failed")
    /\ UNCHANGED <<ledger, target, tries, outcome, sweep, check, applied>>

\* Mutant: an update by key, without the compare.
ReclaimUnchecked(r) ==
    /\ pc[r] = "reclaim"
    /\ Claimed(r, target[r])
    /\ UNCHANGED <<target, outcome, verdict, sweep, check, applied>>

\* The compare-and-set on the status that was read.
Reclaim(r) ==
    LET e == target[r] IN
    /\ pc[r] = "reclaim"
    /\ \/ /\ ledger[e].status = "failed"
          /\ Claimed(r, e)
          /\ UNCHANGED verdict
       \/ /\ ledger[e].status # "failed"
          /\ Finish(r, "failed")
          /\ UNCHANGED <<ledger, tries>>
    /\ UNCHANGED <<target, outcome, sweep, check, applied>>
-----------------------------------------------------------------------------
(* runAttempts: one claim covers up to MaxAttempts provider calls *)

\* Mutant: an ambiguous outcome is classified as a plain failure.
ConcludeDefinite(r, o) ==
    /\ pc' = [pc EXCEPT ![r] = "record"]
    /\ outcome' = [outcome EXCEPT ![r] = IF o = "indeterminate" THEN "failed" ELSE o]
    /\ UNCHANGED tries

Conclude(r, o) ==
    /\ pc' = [pc EXCEPT ![r] = "record"]
    /\ outcome' = [outcome EXCEPT ![r] = o]
    /\ UNCHANGED tries

\* Mutant: the retry loop without its budget.
RetryForever(r) ==
    /\ tries' = [tries EXCEPT ![r] = @ + 1]
    /\ UNCHANGED <<pc, outcome>>

\* The handler reported a failure it takes for a plain rejection: call again
\* after the backoff, until the budget is spent.
RetryOrGiveUp(r) ==
    \/ /\ tries[r] + 1 < MaxAttempts
       /\ tries' = [tries EXCEPT ![r] = @ + 1]
       /\ UNCHANGED <<pc, outcome>>
    \/ /\ tries[r] + 1 = MaxAttempts
       /\ Conclude(r, "failed")

Applied(e) == applied' = [applied EXCEPT ![e] = @ + 1]

\* The provider's reply, as the handlers classify it.
Attempt(r) ==
    LET e == target[r] IN
    /\ pc[r] = "working"
    /\ \/ Applied(e) /\ Conclude(r, "succeeded")             \* accepted
       \/ UNCHANGED applied /\ RetryOrGiveUp(r)              \* rejected
       \/ UNCHANGED applied /\ Conclude(r, "failed")         \* 401/403, cancel
       \/ /\ Applied(e) \/ UNCHANGED applied                 \* fetch() threw
          /\ Conclude(r, "indeterminate")
       \/ BodyMayBeLost /\ Applied(e) /\ RetryOrGiveUp(r)    \* body unreadable
    /\ UNCHANGED <<ledger, target, verdict, sweep, check>>

\* recordSideEffectOutcome: an update by key, whatever the row holds by then.
\* Its error is not looked at, so the write may also not happen.
Record(r) ==
    /\ pc[r] = "record"
    /\ \/ ledger' = Written(target[r], outcome[r])
       \/ UNCHANGED ledger
    /\ Finish(r, IF outcome[r] = "succeeded" THEN "success" ELSE "failed")
    /\ UNCHANGED <<target, tries, outcome, sweep, check, applied>>

\* A later resume or retry runs the node again.
Rerun(r) ==
    /\ pc[r] = "done"
    /\ pc' = [pc EXCEPT ![r] = "idle"]
    /\ UNCHANGED <<ledger, target, tries, outcome, verdict, sweep, check, applied>>

\* The process dies, or a node-state write throws out of run().
Crash(r) ==
    /\ pc[r] \in {"conflict", "reclaim", "working", "record"}
    /\ pc' = [pc EXCEPT ![r] = "idle"]
    /\ UNCHANGED <<ledger, target, tries, outcome, verdict, sweep, check, applied>>
-----------------------------------------------------------------------------
(* reconcileStaleSideEffects *)

LeaseExpires(e) ==
    /\ ledger[e].status = "in_progress"
    /\ ~ledger[e].expired
    /\ LeaseCoversAttempt => \A r \in Runners : ~Holds(r, e)
    /\ ledger' = [ledger EXCEPT ![e].expired = TRUE]
    /\ UNCHANGED <<runnerVars, sweep, check, applied>>

\* Mutant: the pass looks for rows that were marked already.
SweepSelectMarked(s) ==
    LET stale == {e \in Effects : ledger[e].status = "indeterminate"} IN
    /\ sweep[s] = {} /\ stale # {}
    /\ sweep' = [sweep EXCEPT ![s] =
                   {[effect |-> e, version |-> ledger[e].version] : e \in stale}]
    /\ UNCHANGED <<ledger, runnerVars, check, applied>>

\* The SELECT of a pass: every stale row, with the updated_at it has.
SweepSelect(s) ==
    LET stale == {e \in Effects : /\ ledger[e].status = "in_progress"
                                  /\ ledger[e].expired} IN
    /\ sweep[s] = {}
    /\ stale # {}
    /\ sweep' = [sweep EXCEPT ![s] =
                   {[effect |-> e, version |-> ledger[e].version] : e \in stale}]
    /\ UNCHANGED <<ledger, runnerVars, check, applied>>

\* Mutant: the compare forgets updated_at.
UnchangedStatus(c) == ledger[c.effect].status = "in_progress"

\* The row of candidate c is still as the pass has read it.
Unchanged(c) ==
    /\ ledger[c.effect].status = "in_progress"
    /\ ledger[c.effect].version = c.version

\* Mutant: the mark without any compare.
SweepMarkUnchecked(s) ==
    \E c \in sweep[s] :
      /\ ledger' = Written(c.effect, "indeterminate")
      /\ sweep' = [sweep EXCEPT ![s] = @ \ {c}]
      /\ UNCHANGED <<runnerVars, check, applied>>

SweepMark(s) ==
    \E c \in sweep[s] :
      /\ IF Unchanged(c) THEN ledger' = Written(c.effect, "indeterminate")
                         ELSE UNCHANGED ledger
      /\ sweep' = [sweep EXCEPT ![s] = @ \ {c}]
      /\ UNCHANGED <<runnerVars, check, applied>>
-----------------------------------------------------------------------------
(* recordOperatorVerifiedOutcome *)

\* The operator sees an indeterminate row and looks the effect up at the
\* provider: a truthful answer, for the moment of the look.
OperatorCheck(o, e) ==
    /\ ledger[e].status = "indeterminate"
    /\ \A c \in check[o] : c.effect # e
    /\ check' = [check EXCEPT ![o] = @ \cup
                   {[effect |-> e,
                     verified |-> IF applied[e] > 0 THEN "succeeded" ELSE "failed"]}]
    /\ UNCHANGED <<ledger, runnerVars, sweep, applied>>

\* The submitted verdict is written only over a row still indeterminate.
OperatorSubmit(o) ==
    \E c \in check[o] :
      /\ IF ledger[c.effect].status = "indeterminate"
           THEN ledger' = Written(c.effect, c.verified)
           ELSE UNCHANGED ledger
      /\ check' = [check EXCEPT ![o] = @ \ {c}]
      /\ UNCHANGED <<runnerVars, sweep, applied>>
-----------------------------------------------------------------------------
RunnerStep(r) == ReadExisting(r) \/ Reclaim(r) \/ Attempt(r) \/ Record(r)

Next ==
    \/ \E r \in Runners : \/ \E e \in Effects : Insert(r, e)
                          \/ RunnerStep(r)
                          \/ Rerun(r)
                          \/ Crash(r)
    \/ \E e \in Effects : LeaseExpires(e)
    \/ \E s \in Sweepers : SweepSelect(s) \/ SweepMark(s)
    \/ \E o \in Operators : OperatorSubmit(o) \/ \E e \in Effects : OperatorCheck(o, e)

Spec == Init /\ [][Next]_vars

\* A provider call ends (its socket times out at the latest) and a claimed run
\* goes on or dies; the self-heal cron keeps sweeping, and a pass that has
\* selected a row reaches its update.  Nothing obliges a person to act, and
\* no run has to start.
Fairness ==
    /\ \A r \in Runners : WF_vars(RunnerStep(r))
    /\ \A e \in Effects : WF_vars(LeaseExpires(e))
    /\ \A s \in Sweepers : WF_vars(SweepSelect(s)) /\ WF_vars(SweepMark(s))

FairSpec == Spec /\ Fairness
-----------------------------------------------------------------------------
(* Properties *)

\* The provider carries an effect out at most once, however many processes
\* run the node, crash in it, sweep it or resolve it by hand.
AppliedAtMostOnce == \A e \in Effects : applied[e] <= 1

\* run() returns success, or suppresses a duplicate, only for an effect that
\* has happened (shortCircuitUnclaimed trusts the row to say so).
SuccessIsTrue ==
    \A r \in Runners :
      pc[r] = "done" /\ verdict[r] \in {"success", "suppressed"}
        => applied[target[r]] > 0

\* A row that says 'failed' may be claimed again, so the provider must not
\* have carried the effect out.
FailedMeansNotApplied ==
    \A e \in Effects : ledger[e].status = "failed" => applied[e] = 0

\* While one process holds the claim of an effect, no other does, and no sweep
\* has a candidate that could still take the row from under it.
ClaimIsExclusive ==
    \A r \in Runners, e \in Effects : Holds(r, e) =>
      /\ ledger[e].status = "in_progress"
      /\ \A q \in Runners \ {r} : ~Holds(q, e)
      /\ \A s \in Sweepers : \A c \in sweep[s] : c.effect = e => ~Unchanged(c)

\* No step changes a row once it says 'succeeded', and only an operator's
\* verdict takes a row out of 'indeterminate'.
VerdictsAreKept ==
    [][\A e \in Effects :
         LET was == ledger[e].status  is == ledger'[e].status IN
         /\ was = "succeeded" => is = "succeeded"
         /\ was = "indeterminate" /\ is # "indeterminate"
              => \E o \in Operators : \E c \in check[o] \ check'[o] :
                   c.effect = e /\ c.verified = is]_vars

\* A claim never stays 'in_progress' for good: its holder records an outcome,
\* or the sweep marks it for an operator.
ClaimsAreResolved ==
    \A e \in Effects :
      ledger[e].status = "in_progress" ~> ledger[e].status # "in_progress"

\* The ledger does what a one-shot effect promises.
OneShot == INSTANCE OneShotEffect WITH
    settled <- {e \in Effects : ledger[e].status = "succeeded"}
ImplementsOneShot == OneShot!Spec
=============================================================================
