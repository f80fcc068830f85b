------------------------------ MODULE FollowUp ------------------------------
(***************************************************************************)
(* Follow-up sequences that stop when the customer replies                 *)
(* (lib/runtime/inbound-reply).  Follow-up nodes send the messages of a    *)
(* sequence (send-followup.ts) under a lease on the sequence; cron         *)
(* requests poll the mailbox (gmail-poll.ts), place each message           *)
(* (correlate.ts) and end the sequence it belongs to (process-reply.ts).   *)
(* Every await of the code is a step here.  Gmail is external: a sent      *)
(* message starts a thread of its own, history lists what was added to the *)
(* mailbox, by the owner too, a page at a time.  No deployment schedules   *)
(* the poller yet: nothing here says that it must run.                     *)
(***************************************************************************)
EXTENDS Naturals, Sequences, FiniteSets

CONSTANTS
    Followups, Conversations,
    Callers,        \* runs of a follow-up node, one process each
    Pollers,        \* cron requests that poll the mailbox
    Plans,          \* what is set up and, as bounds, how much of it happens
    Attempts,       \* attempt keys
    Free, Gone,     \* no lease, and the lease of a process that has died
    NoMatch, Ambiguous,
    MaxMail         \* bound: messages in the mailbox

ASSUME FollowUpAssumption ==
    /\ \A plan \in Plans :
         /\ plan.home \in [Followups -> Conversations]
         /\ plan.seq \in [Callers -> Followups] /\ plan.attempt \in [Callers -> Attempts]
         /\ plan.calls \in [Callers -> Nat]   \* of the node: retries
         /\ plan.polling \subseteq Pollers
         /\ plan.mail \in 0 .. MaxMail       \* messages in the mailbox
         /\ plan.faults \in Nat   \* failures of the network, the database, a process
    /\ \A plan \in Plans : \A c, d \in Callers :
         plan.attempt[c] = plan.attempt[d] => plan.seq[c] = plan.seq[d]
    /\ {Free, Gone} \cap Callers = {} /\ Free # Gone
    /\ "none" \notin Followups \cup {NoMatch, Ambiguous}
    /\ {NoMatch, Ambiguous} \cap Followups = {} /\ NoMatch # Ambiguous
    /\ MaxMail \in Nat

VARIABLES
    plan,
    mailbox,   \* the messages of the mailbox, oldest first
    status,    \* runtime_followup_sequences.status
    lock,      \* its send_lock_token, and whether send_lock_expires_at is ahead
    thread,    \* runtime_conversations.provider_thread_id; 0: the placeholder
    outbound,  \* runtime_outbound_messages
    event,     \* runtime_inbound_reply_events, by message
    cursor,    \* gmail_history_cursor: messages listed so far
    cursorSet,
    pc, calls, sent, raced, outcome,   \* a caller
    step, from, last, ahead, match,    \* a poller
    overrun,   \* history: callers whose lease lapsed while they held it
    late,      \* history: messages sent after the end of their sequence
    dropped,   \* history: placed replies whose request failed before the transition
    due,       \* history: replies that came when the records could place them
    baseline,  \* history: the latest cursor that was set without listing
    beyond,    \* history: messages behind the one page that a saved cursor covered
    misread,   \* history: messages whose senders were looked for by a read that failed
    faults

mail == <<mailbox, due>>
records == <<status, lock, thread, outbound>>
doubts == <<beyond, misread>>
inbox == <<event, cursor, cursorSet, baseline, dropped, doubts>>
sender == <<pc, calls, sent, raced, outcome, overrun, late>>
poller == <<step, from, last, ahead, match>>
vars == <<plan, mail, records, inbox, sender, poller, faults>>

Numbers == 1 .. MaxMail
SeqOf(c) == plan.seq[c]
Thread(i) == mailbox[i].thread
\* The sequence whose message the thread of message i begins with.
Owner(i) == mailbox[Thread(i)].seq

Matches == Followups \cup {NoMatch, Ambiguous}
PollSteps == {"poll", "current", "baseline", "next", "reserve", "transition"}
CallSteps == {"idle", "lock", "send", "check", "record", "thread",
              "release", "done"}

TypeOK ==
    /\ plan \in Plans
    /\ mailbox \in Seq([by : {"us", "them"}, thread : Numbers, seq : Followups])
    /\ Len(mailbox) <= plan.mail
    /\ status \in [Followups -> {"active", "replied"}]
    /\ lock \in [Followups -> [holder : Callers \cup {Free, Gone}, fresh : BOOLEAN]]
    /\ thread \in [Conversations -> 0 .. MaxMail]
    /\ outbound \subseteq [mail : Numbers, seq : Followups, attempt : Attempts,
                           named : BOOLEAN, raced : BOOLEAN]
    /\ \A o, x \in outbound : o.attempt = x.attempt \/ o.mail = x.mail => o = x
    /\ event \in [Numbers -> Matches \cup {"none"}]
    /\ cursor \in 0 .. Len(mailbox) /\ cursorSet \in BOOLEAN
    /\ pc \in [Callers -> CallSteps]
    /\ calls \in [Callers -> Nat] /\ \A c \in Callers : calls[c] <= plan.calls[c]
    /\ sent \in [Callers -> 0 .. Len(mailbox)]
    /\ raced \in [Callers -> BOOLEAN]
    /\ outcome \in [Callers -> {"idle", "done"}]
    /\ step \in [Pollers -> PollSteps]
    /\ {from, last, ahead} \subseteq [Pollers -> 0 .. Len(mailbox)]
    /\ match \in [Pollers -> Matches]
    /\ overrun \subseteq Callers
    /\ {late, due, dropped, beyond, misread} \subseteq SUBSET (DOMAIN mailbox)
    /\ baseline \in 0 .. Len(mailbox) /\ faults \in 0 .. plan.faults

Init ==
    /\ plan \in Plans
    /\ mailbox = <<>> /\ due = {}
    /\ status = [s \in Followups |-> "active"]
    /\ lock = [s \in Followups |-> [holder |-> Free, fresh |-> FALSE]]
    /\ thread = [v \in Conversations |-> 0]
    /\ outbound = {}
    /\ event = [i \in Numbers |-> "none"] /\ dropped = {}
    /\ cursor = 0 /\ cursorSet = FALSE /\ baseline = 0 /\ beyond = {} /\ misread = {}
    /\ pc = [c \in Callers |-> "idle"]
    /\ calls = [c \in Callers |-> 0]
    /\ sent = [c \in Callers |-> 0]
    /\ raced = [c \in Callers |-> FALSE]
    /\ outcome = [c \in Callers |-> "idle"]
    /\ overrun = {} /\ late = {}
    /\ step = [p \in Pollers |-> "poll"]
    /\ from = [p \in Pollers |-> 0]
    /\ last = [p \in Pollers |-> 0]
    /\ ahead = [p \in Pollers |-> 0]
    /\ match = [p \in Pollers |-> NoMatch]
    /\ faults = 0
-----------------------------------------------------------------------------
(* Sending: followUpSendHandler and sendFollowupMessage *)

Move(c, a, b) == pc[c] = a /\ pc' = [pc EXCEPT ![c] = b]
\* Through the finally block; the runner then calls the node again (retry), or
\* is done with it.
Leave(c, a, next) ==
    /\ Move(c, a, "release")
    /\ outcome' = [outcome EXCEPT ![c] = next]
Fault == faults < plan.faults /\ faults' = faults + 1
NotSending == UNCHANGED <<plan, inbox, poller>>
Reads == NotSending /\ UNCHANGED <<mail, records, calls, sent, overrun, late>>

Recorded(k) == \E o \in outbound : o.attempt = k

\* findOutboundMessageByAttemptKey: 'duplicate_attempt' is a success.
Precheck(c) ==
    /\ calls[c] < plan.calls[c]
    /\ Move(c, "idle", IF Recorded(plan.attempt[c]) THEN "done" ELSE "lock")
    /\ calls' = [calls EXCEPT ![c] = @ + 1]
    /\ overrun' = overrun \ {c}
    /\ NotSending /\ UNCHANGED <<mail, records, sent, raced, outcome, late, faults>>

Lockable(s) == status[s] = "active" /\ (lock[s].holder = Free \/ ~lock[s].fresh)
\* assertSequenceSendable, which the lock repeats; then
\* acquire_followup_send_lock_atomic, with a token of its own for each call.
AcquireLock(c) ==
    /\ Lockable(SeqOf(c))
    /\ Move(c, "lock", "send")
    /\ lock' = [lock EXCEPT ![SeqOf(c)] = [holder |-> c, fresh |-> TRUE]]
    /\ NotSending
    /\ UNCHANGED <<mail, status, thread, outbound, calls, sent, raced, outcome, overrun, late,
                   faults>>

\* Held: LOCK_NOT_ACQUIRED, which is retried.  Ended: suppressed, a success.
LockRefused(c) ==
    /\ ~Lockable(SeqOf(c))
    /\ Move(c, "lock", IF status[SeqOf(c)] = "active" THEN "idle" ELSE "done")
    /\ Reads /\ UNCHANGED <<raced, outcome, faults>>

\* Nothing is out: a read or the lock call failed, there are no credentials, or
\* the provider refused.  All are retried but the lock call and the lack of any
\* connection.
NotSent(c) ==
    /\ \/ \E next \in {"idle", "done"} : Move(c, "lock", next) /\ UNCHANGED outcome
       \/ \E next \in {"idle", "done"} : Leave(c, "send", next)
    /\ Fault /\ Reads /\ UNCHANGED raced

Deliver(c) ==
    LET s == SeqOf(c)
        n == Len(mailbox) + 1
    IN  /\ n <= plan.mail
        /\ mailbox' = Append(mailbox, [by |-> "us", thread |-> n, seq |-> s])
        /\ late' = IF status[s] # "active" THEN late \cup {n} ELSE late
        /\ sent' = [sent EXCEPT ![c] = n]

Send(c) ==
    /\ Move(c, "send", "check") /\ Deliver(c)
    /\ NotSending /\ UNCHANGED <<due, records, calls, raced, outcome, overrun, faults>>

\* A timeout: the message may be out, and the node is not tried again.
SendUnknown(c) ==
    /\ Leave(c, "send", "done") /\ Fault
    /\ Deliver(c) \/ UNCHANGED <<mailbox, sent, late>>
    /\ NotSending /\ UNCHANGED <<due, records, calls, raced, overrun>>

\* (The answer of the first look is used again.)
PostCheckReused(c) ==
    /\ Move(c, "check", "record")
    /\ raced' = raced
    /\ Reads /\ UNCHANGED <<outcome, faults>>
PostCheck(c) ==
    /\ Move(c, "check", "record")
    /\ raced' = [raced EXCEPT ![c] = status[SeqOf(c)] # "active"]
    /\ Reads /\ UNCHANGED <<outcome, faults>>
Outbound(c, named) ==
    [mail |-> sent[c], seq |-> SeqOf(c), attempt |-> plan.attempt[c],
     named |-> named, raced |-> raced[c]]

\* (Without the constraint.)
RecordTwice(c) ==
    /\ Move(c, "record", "thread")
    /\ \E named \in BOOLEAN : outbound' = outbound \cup {Outbound(c, named)}
    /\ NotSending
    /\ UNCHANGED <<mail, status, lock, thread, calls, sent, raced, outcome, overrun, late, faults>>
\* recordOutboundMessage; named: the Message-ID header could be fetched.
Record(c) ==
    /\ ~Recorded(plan.attempt[c])
    /\ Move(c, "record", "thread")
    /\ \E named \in BOOLEAN : outbound' = outbound \cup {Outbound(c, named)}
    /\ NotSending
    /\ UNCHANGED <<mail, status, lock, thread, calls, sent, raced, outcome, overrun, late, faults>>

\* UNIQUE (attempt_key): the insert throws, and the node is tried again.
RecordRefused(c) ==
    /\ Recorded(plan.attempt[c])
    /\ Leave(c, "record", "idle")
    /\ Reads /\ UNCHANGED <<raced, faults>>

\* updateConversationProviderThreadId
UpdateThread(c) ==
    /\ Leave(c, "thread", "done")
    /\ thread' = [thread EXCEPT ![plan.home[SeqOf(c)]] = sent[c]]
    /\ NotSending
    /\ UNCHANGED <<mail, status, lock, outbound, calls, sent, raced, overrun, late, faults>>

\* A statement that fails after the message is out: the throw is an ordinary,
\* retried failure of the node.
StatementFails(c) ==
    /\ \E a \in {"check", "record", "thread"} : Leave(c, a, "idle")
    /\ Fault /\ Reads /\ UNCHANGED raced

UnlockWhoever(c) ==
    lock' = [lock EXCEPT ![SeqOf(c)] = [holder |-> Free, fresh |-> FALSE]]
Unlock(c) ==
    LET s == SeqOf(c)
    IN  lock' = IF lock[s].holder = c
                THEN [lock EXCEPT ![s] = [holder |-> Free, fresh |-> FALSE]] ELSE lock
\* release_followup_send_lock_atomic
Release(c) ==
    /\ Move(c, "release", outcome[c])
    /\ Unlock(c)
    /\ sent' = [sent EXCEPT ![c] = 0]
    /\ raced' = [raced EXCEPT ![c] = FALSE]
    /\ NotSending
    /\ UNCHANGED <<mail, status, thread, outbound, calls, outcome, overrun, late, faults>>

\* The 60 s of the lease are over.
Lapse(s) ==
    /\ lock[s].fresh
    /\ lock' = [lock EXCEPT ![s].fresh = FALSE]
    /\ overrun' = overrun \cup ({lock[s].holder} \cap Callers)
    /\ NotSending
    /\ UNCHANGED <<mail, status, thread, outbound, pc, calls, sent, raced, outcome, late, faults>>

\* The process dies; recovery runs the node again, with the same attempt key.
Crash(c) ==
    /\ pc[c] \notin {"idle", "done"} /\ Fault
    /\ pc' = [pc EXCEPT ![c] = "idle"]
    /\ lock' = [s \in Followups |-> IF lock[s].holder = c
                                     THEN [lock[s] EXCEPT !.holder = Gone] ELSE lock[s]]
    /\ sent' = [sent EXCEPT ![c] = 0]
    /\ raced' = [raced EXCEPT ![c] = FALSE]
    /\ overrun' = overrun \ {c}
    /\ NotSending
    /\ UNCHANGED <<mail, status, thread, outbound, calls, outcome, late>>
-----------------------------------------------------------------------------
(* Receiving: pollGmailInboundReplies and processInboundReply *)

At(p, a) == step[p] = a
Step(p, a, b) == At(p, a) /\ step' = [step EXCEPT ![p] = b]
\* The request is over; nothing of it is left.
Return(p) ==
    /\ step' = [step EXCEPT ![p] = "poll"]
    /\ from' = [from EXCEPT ![p] = 0]
    /\ last' = [last EXCEPT ![p] = 0]
    /\ ahead' = [ahead EXCEPT ![p] = 0]
    /\ match' = [match EXCEPT ![p] = NoMatch]
NotPolling == UNCHANGED <<plan, mail, lock, thread, outbound, sender>>
Looks == NotPolling /\ UNCHANGED <<status, inbox>>

Siblings(s) == {x \in Followups : plan.home[x] = plan.home[s]}
EvidenceOfThread(i) == {Siblings(s) : s \in {x \in Followups : thread[plan.home[x]] = Thread(i)}}
\* The lookups of correlateInboundReply, each with the sequences it finds: the
\* conversation that holds the thread, and those of the messages named in
\* In-Reply-To and References.
Evidence(i) ==
    {Siblings(s) : s \in {x \in Followups : thread[plan.home[x]] = Thread(i)}}
    \cup {Siblings(o.seq) : o \in {x \in outbound :
              mailbox[i].by = "them" /\ x.named /\ x.mail = Thread(i)}}
Correlate(heard) ==
    LET found == UNION heard
    IN  IF found = {} THEN NoMatch
        ELSE IF Cardinality(found) > 1 THEN Ambiguous
        ELSE CHOOSE s \in found : TRUE

\* The cursor is read; ensureGmailHistoryCursor and the first poll set one.
FirstPoll(p) ==
    /\ p \in plan.polling /\ ~cursorSet
    /\ Step(p, "poll", "current")
    /\ Looks /\ UNCHANGED <<from, last, ahead, match, faults>>

CurrentHistory(p) ==
    /\ Step(p, "current", "baseline")
    /\ ahead' = [ahead EXCEPT ![p] = Len(mailbox)]
    /\ Looks /\ UNCHANGED <<from, last, match, faults>>

SaveBaseline(p) ==
    /\ At(p, "baseline") /\ Return(p)
    /\ cursor' = ahead[p] /\ cursorSet' = TRUE
    /\ baseline' = IF ahead[p] > baseline THEN ahead[p] ELSE baseline
    /\ NotPolling /\ UNCHANGED <<status, event, dropped, doubts, faults>>

\* One page of what came after the cursor, which ends where Gmail ends it, and
\* the id of the history as it is now.
ListHistory(p) ==
    /\ p \in plan.polling /\ cursorSet
    /\ Step(p, "poll", "next")
    /\ from' = [from EXCEPT ![p] = cursor]
    /\ ahead' = [ahead EXCEPT ![p] = Len(mailbox)]
    /\ \E n \in cursor .. Len(mailbox) : last' = [last EXCEPT ![p] = n]
    /\ Looks /\ UNCHANGED <<match, faults>>

\* getMessage, normalizeGmailMessage, correlateInboundReply.  A lookup that
\* fails has found nothing: its error is dropped.
FetchMessage(p) ==
    LET i == from[p] + 1
    IN  /\ from[p] < last[p]
        /\ Step(p, "next", "reserve")
        /\ \/ /\ match' = [match EXCEPT ![p] = Correlate(Evidence(i))]
              /\ UNCHANGED <<misread, faults>>
           \/ /\ \E heard \in SUBSET Evidence(i) \ {Evidence(i)} :
                    match' = [match EXCEPT ![p] = Correlate(heard)]
              /\ misread' = misread \cup {i} /\ Fault
        /\ NotPolling
        /\ UNCHANGED <<status, event, cursor, cursorSet, baseline, dropped, beyond,
                       from, last, ahead>>

\* getMessage throws: every time, when the message was deleted meanwhile.
MessageGone(p) ==
    /\ At(p, "next") /\ from[p] < last[p]
    /\ Return(p) /\ Looks /\ UNCHANGED faults

\* Over to the next message of the page.
OnTo(p) == from' = [from EXCEPT ![p] = @ + 1] /\ match' = [match EXCEPT ![p] = NoMatch]

\* reserveInboundReplyEvent.  A message that has no sequence, or several, is
\* marked as processed and left; nothing reads that mark.
Reserve(p) ==
    /\ At(p, "reserve") /\ event[from[p] + 1] = "none"
    /\ event' = [event EXCEPT ![from[p] + 1] = match[p]]
    /\ IF match[p] \in Followups
       THEN Step(p, "reserve", "transition") /\ UNCHANGED <<from, match>>
       ELSE Step(p, "reserve", "next") /\ OnTo(p)
    /\ NotPolling /\ UNCHANGED <<status, cursor, cursorSet, baseline, dropped, doubts, last, ahead, faults>>

Duplicate(p) ==
    /\ Step(p, "reserve", "next") /\ OnTo(p)
    /\ event[from[p] + 1] # "none"
    /\ Looks /\ UNCHANGED <<last, ahead, faults>>

\* (Not while a send holds the sequence.)
TransitionIfFree(p) ==
    /\ Step(p, "transition", "next") /\ OnTo(p)
    /\ status' = [status EXCEPT ![match[p]] = IF lock[match[p]].holder = Free THEN "replied" ELSE @]
    /\ NotPolling /\ UNCHANGED <<inbox, last, ahead, faults>>
\* transition_followup_sequence_atomic, then the mark.
Transition(p) ==
    /\ Step(p, "transition", "next") /\ OnTo(p)
    /\ status' = [status EXCEPT ![match[p]] = "replied"]
    /\ NotPolling /\ UNCHANGED <<inbox, last, ahead, faults>>

Drop(p) ==
    /\ dropped' = IF At(p, "transition") THEN dropped \cup {from[p] + 1} ELSE dropped
    /\ NotPolling /\ UNCHANGED <<status, event, cursor, cursorSet, baseline, doubts>>

\* An error of the call reads as ok: false, "already terminal".
TransitionFails(p) ==
    /\ Step(p, "transition", "next") /\ OnTo(p)
    /\ Fault /\ Drop(p) /\ UNCHANGED <<last, ahead>>

PassBeyond(p) == beyond' = beyond \cup (last[p] + 1 .. ahead[p])
SaveLatest(p) ==
    /\ At(p, "next") /\ from[p] >= last[p]
    /\ Return(p) /\ PassBeyond(p)
    /\ cursor' = Len(mailbox)
    /\ NotPolling
    /\ UNCHANGED <<status, event, cursorSet, baseline, dropped, misread, faults>>
SaveCursor(p) ==
    /\ At(p, "next") /\ from[p] >= last[p]
    /\ Return(p) /\ PassBeyond(p)
    /\ cursor' = ahead[p]
    /\ NotPolling
    /\ UNCHANGED <<status, event, cursorSet, baseline, dropped, misread, faults>>

\* A call throws or the request is killed: nothing of it is left.
PollStops(p) ==
    /\ ~At(p, "poll") /\ Fault
    /\ Return(p) /\ Drop(p)

\* The customer answers one of the messages.
Reply(i) ==
    LET n == Len(mailbox) + 1
        s == mailbox[i].seq
    IN  /\ i \in DOMAIN mailbox /\ mailbox[i].by = "us" /\ n <= plan.mail
        /\ mailbox' = Append(mailbox, [by |-> "them", thread |-> i, seq |-> s])
        /\ due' = IF /\ Siblings(s) = {s}
                     /\ \E o \in outbound : o.mail = i /\ o.named
                  THEN due \cup {n} ELSE due
        /\ UNCHANGED <<plan, records, inbox, sender, poller, faults>>
-----------------------------------------------------------------------------
SenderStep(c) ==
    \/ Precheck(c) \/ AcquireLock(c) \/ LockRefused(c)
    \/ NotSent(c) \/ Send(c) \/ SendUnknown(c) \/ PostCheck(c) \/ Record(c)
    \/ RecordRefused(c) \/ UpdateThread(c) \/ StatementFails(c) \/ Release(c)
PollerStep(p) ==
    \/ FirstPoll(p) \/ CurrentHistory(p) \/ SaveBaseline(p) \/ ListHistory(p) \/ FetchMessage(p)
    \/ MessageGone(p) \/ Reserve(p) \/ Duplicate(p) \/ Transition(p) \/ TransitionFails(p)
    \/ SaveCursor(p)

Next ==
    \/ \E c \in Callers : SenderStep(c) \/ Crash(c)
    \/ \E s \in Followups : Lapse(s)
    \/ \E p \in Pollers : PollerStep(p) \/ PollStops(p)
    \/ \E i \in Numbers : Reply(i)

Spec == Init /\ [][Next]_vars
-----------------------------------------------------------------------------
(* Properties *)

Holding == {"send", "check", "record", "thread", "release"}

\* "Two sends for the same sequence can never both proceed": of two calls that
\* have passed the lock of one sequence, one has overrun its lease.
OneSenderInTheLease ==
    \A c, d \in Callers :
        c # d /\ SeqOf(c) = SeqOf(d) /\ {pc[c], pc[d]} \subseteq Holding
        => c \in overrun \/ d \in overrun

\* A message that went out after the end of its sequence is recorded as such
\* (sent_during_race_window), never as an ordinary one.
LateMessagesAreFlagged ==
    \A o \in outbound : o.mail \in late => o.raced

\* What the cursor has passed since it was set has been looked at, or was
\* behind the one page that its poll read, whatever requests overlap, fail or
\* start again.
NoMessageIsSkipped ==
    \A i \in DOMAIN mailbox :
        cursorSet /\ i > baseline /\ i <= cursor => event[i] # "none" \/ i \in beyond

Ending(i) ==
    \/ status[event[i]] # "active"
    \/ \E p \in Pollers : At(p, "transition") /\ from[p] + 1 = i

\* A reply placed with a sequence has ended it or is about to: any later
\* delivery is a duplicate, so nobody else will.  Not so when the request fails
\* between the two.
PlacedRepliesEnd ==
    \A i \in DOMAIN mailbox : event[i] \in Followups => i \in dropped \/ Ending(i)

\* "A crash mid-batch ... safely reprocesses" (gmail-poll.ts:57): so without
\* the exception.
NoReplyIsLost ==
    \A i \in DOMAIN mailbox : event[i] \in Followups => Ending(i)

\* Once the cursor has passed the reply to a message that was recorded in time,
\* its own sequence has been found and has ended, or is about to: unless the
\* reply was behind the page, a lookup for it failed, or a request failed
\* between placing it and ending the sequence.
PassedRepliesEnd ==
    \A i \in due \ (beyond \cup misread \cup dropped) :
        cursorSet /\ i > baseline /\ i <= cursor => event[i] = Owner(i) /\ Ending(i)
=============================================================================
