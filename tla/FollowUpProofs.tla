--------------------------- MODULE FollowUpProofs ---------------------------
(***************************************************************************)
(* Proofs about FollowUp, for any number of follow-up nodes, sequences,    *)
(* conversations and polls, and any number of faults.                      *)
(***************************************************************************)
EXTENDS FollowUp, FiniteSetTheorems, SequenceTheorems, TLAPS

(* The parts of the inductive invariant. *)

\* A message is in the thread of one that is there.
ThreadsExist == \A i \in DOMAIN mailbox : Thread(i) \in DOMAIN mailbox

\* What has been sent and not been recorded is a message of its own.
SentIsThere ==
    /\ \A c \in Callers : pc[c] \in {"check", "record"} =>
         sent[c] # 0 /\ \A o \in outbound : o.mail # sent[c]
    /\ \A c, d \in Callers : c # d /\ {pc[c], pc[d]} \subseteq {"check", "record"}
         => sent[c] # sent[d]
    /\ \A o \in outbound : o.mail <= Len(mailbox)

\* A sender whose lease has not lapsed is the holder, by the row too.
HolderIsKnown ==
    \A c \in Callers : pc[c] \in Holding /\ c \notin overrun =>
        lock[SeqOf(c)] = [holder |-> c, fresh |-> TRUE]

\* The second look at the sequence comes after the send: it finds the sequence
\* ended if the send came too late.
LateIsNoticed ==
    \A c \in Callers : sent[c] \in late =>
        /\ pc[c] = "check" => status[SeqOf(c)] # "active"
        /\ pc[c] = "record" => raced[c]

SendInv == SentIsThere /\ HolderIsKnown /\ LateIsNoticed /\ LateMessagesAreFlagged

\* What a poll has at hand is on the page it has listed.
OnThePage ==
    \A p \in Pollers : step[p] \in {"reserve", "transition"} => from[p] < last[p]

\* What a poll is about to end is what it has reserved.
MatchIsReserved ==
    \A p \in Pollers : step[p] = "transition" =>
        match[p] \in Followups /\ event[from[p] + 1] = match[p]

\* There are events of messages only.
EventsAreOfMail == \A i \in Numbers : i > Len(mailbox) => event[i] = "none"

PollInv == OnThePage /\ MatchIsReserved /\ EventsAreOfMail /\ PlacedRepliesEnd

IInv == TypeOK /\ ThreadsExist /\ SendInv /\ PollInv

\* For the cursor: a poll goes through its page one by one, from where the
\* cursor was, and has left behind what was looked at, by it or by another, and
\* what an earlier poll had found behind its page.
Reading == {"next", "reserve", "transition"}
PageIsRead ==
    \A p \in Pollers : step[p] \in Reading =>
        \A i \in 1 .. from[p] : i > baseline => event[i] # "none" \/ i \in beyond
CursorInv == PageIsRead /\ NoMessageIsSkipped

\* For the replies.  Messages are recorded under their sequence, and the thread
\* of a conversation begins with one of its own.
MessagesTell ==
    /\ \A c \in Callers : sent[c] # 0 => mailbox[sent[c]].seq = SeqOf(c)
    /\ \A o \in outbound : mailbox[o.mail].seq = o.seq
    /\ \A v \in Conversations : thread[v] # 0 =>
         thread[v] \in DOMAIN mailbox /\ plan.home[mailbox[thread[v]].seq] = v

\* A reply that is due is the customer's, to a message whose record names it,
\* in a conversation of one sequence.
DueAreNamed ==
    \A i \in due :
        /\ mailbox[i].by = "them" /\ Siblings(Owner(i)) = {Owner(i)}
        /\ \E o \in outbound : o.mail = Thread(i) /\ o.named

\* So a poll that has looked for it, and an event that is reserved for it, have
\* its sequence.
MatchesTell ==
    \A p \in Pollers : step[p] \in {"reserve", "transition"} /\ from[p] + 1 \in due \ misread =>
        match[p] = Owner(from[p] + 1)
EventsTell == \A i \in due \ misread : event[i] # "none" => event[i] = Owner(i)

HeardInv == MessagesTell /\ DueAreNamed /\ MatchesTell /\ EventsTell
-----------------------------------------------------------------------------
(* Mail *)

Message == [by : {"us", "them"}, thread : Numbers, seq : Followups]

LEMMA Appended ==
    ASSUME NEW s \in Seq(Message), NEW m \in Message
    PROVE  /\ Append(s, m) \in Seq(Message) /\ Len(Append(s, m)) = Len(s) + 1
           /\ DOMAIN s = 1 .. Len(s) /\ DOMAIN Append(s, m) = 1 .. Len(s) + 1
           /\ \A i \in 1 .. Len(s) : Append(s, m)[i] = s[i]
           /\ Append(s, m)[Len(s) + 1] = m
BY AppendProperties, LenProperties

\* What a step may do to the mailbox.
Grown ==
    /\ mailbox' \in Seq(Message)
    /\ Len(mailbox') \in {Len(mailbox), Len(mailbox) + 1} /\ Len(mailbox') <= plan.mail
    /\ DOMAIN mailbox' = 1 .. Len(mailbox')
    /\ \A i \in DOMAIN mailbox : mailbox'[i] = mailbox[i]
    /\ \A i \in DOMAIN mailbox' \ DOMAIN mailbox : mailbox'[i].thread \in DOMAIN mailbox'

LEMMA Sizes ==
    ASSUME TypeOK
    PROVE  /\ plan.mail \in Nat /\ plan.mail <= MaxMail /\ MaxMail \in Nat
           /\ plan.faults \in Nat
           /\ plan.home \in [Followups -> Conversations]
           /\ plan.seq \in [Callers -> Followups] /\ plan.attempt \in [Callers -> Attempts]
           /\ plan.calls \in [Callers -> Nat]
           /\ mailbox \in Seq(Message) /\ Len(mailbox) \in Nat /\ Len(mailbox) <= plan.mail
           /\ DOMAIN mailbox = 1 .. Len(mailbox)
           /\ \A i \in DOMAIN mailbox : mailbox[i] \in Message
<1>1. mailbox \in Seq(Message) /\ Len(mailbox) <= plan.mail
  BY DEF TypeOK, Message
<1>2. Len(mailbox) \in Nat /\ DOMAIN mailbox = 1 .. Len(mailbox)
      /\ \A i \in DOMAIN mailbox : mailbox[i] \in Message
  BY <1>1, LenProperties, ElementOfSeq
<1> QED  BY <1>1, <1>2, FollowUpAssumption DEF TypeOK

LEMMA Delivered ==
    ASSUME TypeOK, NEW c \in Callers, Deliver(c)
    PROVE  /\ Grown /\ Len(mailbox') = Len(mailbox) + 1
           /\ sent' = [sent EXCEPT ![c] = Len(mailbox) + 1]
           /\ late' = IF status[SeqOf(c)] # "active" THEN late \cup {Len(mailbox) + 1} ELSE late
<1> DEFINE n == Len(mailbox) + 1
           m == [by |-> "us", thread |-> n, seq |-> SeqOf(c)]
<1>1. n <= plan.mail /\ mailbox' = Append(mailbox, m)
      /\ sent' = [sent EXCEPT ![c] = n]
      /\ late' = IF status[SeqOf(c)] # "active" THEN late \cup {n} ELSE late
  BY DEF Deliver
<1>2. n \in Numbers /\ m \in Message
  BY <1>1, Sizes DEF Numbers, Message, SeqOf
<1>3. Grown /\ Len(mailbox') = n
  BY <1>1, <1>2, Appended, Sizes DEF Grown
<1> QED  BY <1>1, <1>3

LEMMA Replied ==
    ASSUME TypeOK, ThreadsExist, NEW i \in Numbers, Reply(i)
    PROVE  Grown /\ Len(mailbox') = Len(mailbox) + 1
<1> DEFINE n == Len(mailbox) + 1
           m == [by |-> "them", thread |-> i, seq |-> mailbox[i].seq]
<1>1. i \in DOMAIN mailbox /\ n <= plan.mail /\ mailbox' = Append(mailbox, m)
  BY DEF Reply
<1>2. mailbox[i].seq \in Followups
  BY <1>1, Sizes DEF Message
<1>3. m \in Message
  BY <1>2 DEF Message
<1>4. i \in 1 .. Len(mailbox)
  BY <1>1, Sizes
<1>5. mailbox'[n].thread = i /\ DOMAIN mailbox' = 1 .. n
  BY <1>1, <1>3, Appended, Sizes
<1> QED  BY <1>1, <1>3, <1>4, <1>5, Appended, Sizes DEF Grown

LEMMA MailStays ==
    ASSUME TypeOK, mailbox' = mailbox
    PROVE  Grown
BY Sizes DEF Grown

LEMMA ThreadsStep ==
    ASSUME TypeOK, ThreadsExist, Grown
    PROVE  ThreadsExist'
<1>1. ASSUME NEW i \in DOMAIN mailbox'
      PROVE  mailbox'[i].thread \in DOMAIN mailbox'
  <2>1. DOMAIN mailbox \subseteq DOMAIN mailbox'
    <3> DEFINE k == Len(mailbox)
               l == Len(mailbox')
    <3>1. l = k \/ l = k + 1
      BY DEF Grown
    <3>2. k \in Nat /\ DOMAIN mailbox = 1 .. k /\ DOMAIN mailbox' = 1 .. l
      BY Sizes DEF Grown
    <3> HIDE DEF k, l
    <3>3. 1 .. k \subseteq 1 .. l
      BY <3>1, <3>2
    <3> QED  BY <3>2, <3>3
  <2>2. CASE i \in DOMAIN mailbox
    <3>1. mailbox'[i] = mailbox[i] /\ mailbox[i].thread \in DOMAIN mailbox
      BY <2>2 DEF Grown, ThreadsExist, Thread
    <3> QED  BY <3>1, <2>1
  <2>3. CASE i \notin DOMAIN mailbox
    BY <2>3, <1>1 DEF Grown
  <2> QED  BY <2>2, <2>3
<1> QED  BY <1>1 DEF ThreadsExist, Thread

LEMMA StepGrows ==
    ASSUME TypeOK, ThreadsExist, [Next]_vars
    PROVE  Grown
<1>1. ASSUME NEW c \in Callers, SenderStep(c) \/ Crash(c)
      PROVE  Grown
  <2>1. CASE Send(c)
    BY <2>1, Delivered DEF Send
  <2>2. CASE SendUnknown(c)
    BY <2>2, Delivered, MailStays DEF SendUnknown
  <2>3. CASE ~Send(c) /\ ~SendUnknown(c)
    <3>1. mailbox' = mailbox
      BY <1>1, <2>3 DEF SenderStep, Crash, Precheck, AcquireLock, LockRefused, NotSent, PostCheck,
         Record, RecordRefused, UpdateThread, StatementFails, Release, Reads, mail
    <3> QED  BY <3>1, MailStays
  <2> QED  BY <2>1, <2>2, <2>3
<1>2. ASSUME NEW p \in Pollers, PollerStep(p) \/ PollStops(p)
      PROVE  mailbox' = mailbox
  BY <1>2 DEF PollerStep, PollStops, FirstPoll, CurrentHistory, SaveBaseline, ListHistory,
     FetchMessage, MessageGone, Reserve, Duplicate, Transition, TransitionFails,
     SaveCursor, Drop, Looks,
     NotPolling, mail
<1>3. ASSUME NEW s \in Followups, Lapse(s)
      PROVE  mailbox' = mailbox
  BY <1>3 DEF Lapse, mail
<1>4. CASE UNCHANGED vars
  BY <1>4, MailStays DEF vars, mail
<1> QED  BY <1>1, <1>2, <1>3, <1>4, Replied, MailStays DEF Next
-----------------------------------------------------------------------------
(* Sending *)

\* What the rest of the proof uses of the type invariant.
LEMMA SenderTypes ==
    ASSUME TypeOK
    PROVE  /\ \A c \in Callers : SeqOf(c) \in Followups /\ sent[c] \in 0 .. Len(mailbox)
           /\ lock \in [Followups -> [holder : Callers \cup {Free, Gone}, fresh : BOOLEAN]]
           /\ pc \in [Callers -> CallSteps] /\ sent \in [Callers -> 0 .. Len(mailbox)]
           /\ raced \in [Callers -> BOOLEAN] /\ outcome \in [Callers -> {"idle", "done"}]
           /\ status \in [Followups -> {"active", "replied"}]
           /\ late \subseteq DOMAIN mailbox /\ overrun \subseteq Callers
           /\ Len(mailbox) \in Nat /\ DOMAIN mailbox = 1 .. Len(mailbox)
BY Sizes DEF TypeOK, SeqOf

\* The steps of a sender that send nothing and record nothing.
Prepares(c) ==
    \/ Precheck(c) \/ AcquireLock(c) \/ LockRefused(c) \/ NotSent(c) \/ PostCheck(c)
    \/ RecordRefused(c) \/ UpdateThread(c) \/ StatementFails(c) \/ Release(c) \/ Crash(c)

\* Whoever holds the lease by its own reckoning holds it by the row.
LEMMA HolderStep ==
    ASSUME TypeOK, HolderIsKnown, NEW c \in Callers, SenderStep(c) \/ Crash(c)
    PROVE  HolderIsKnown'
<1> USE SenderTypes DEF HolderIsKnown, Holding, SeqOf
<1>0. plan' = plan /\ (overrun' = overrun \/ overrun' = overrun \ {c})
  BY DEF SenderStep, Crash, Precheck, AcquireLock, LockRefused, NotSent, Send, SendUnknown, PostCheck,
         Record, RecordRefused, UpdateThread, StatementFails, Release, Reads, NotSending
<1>1. CASE Precheck(c)
  <2>1. pc' \in {[pc EXCEPT ![c] = "done"], [pc EXCEPT ![c] = "lock"]} /\ UNCHANGED lock
        /\ overrun' = overrun \ {c}
    BY <1>1 DEF Precheck, Move, records
  <2> QED  BY <1>0, <2>1
<1>2. CASE AcquireLock(c)
  <2>1. /\ pc' = [pc EXCEPT ![c] = "send"] /\ overrun' = overrun /\ Lockable(SeqOf(c))
        /\ lock' = [lock EXCEPT ![SeqOf(c)] = [holder |-> c, fresh |-> TRUE]]
    BY <1>2 DEF AcquireLock, Move
  <2>2. ASSUME NEW d \in Callers, d # c, pc[d] \in Holding, d \notin overrun
        PROVE  SeqOf(d) # SeqOf(c)
    <3>1. lock[SeqOf(d)].holder = d /\ lock[SeqOf(d)].fresh
      <4>1. lock[SeqOf(d)] = [holder |-> d, fresh |-> TRUE]
        BY <2>2 DEF HolderIsKnown
      <4> QED  BY <4>1
    <3>2. d # Free
      BY FollowUpAssumption
    <3> QED  BY <3>1, <3>2, <2>1 DEF Lockable
  <2>3. ASSUME NEW d \in Callers, pc'[d] \in Holding, d \notin overrun'
        PROVE  lock'[plan.seq[d]] = [holder |-> d, fresh |-> TRUE]
    <3>1. CASE d = c
      BY <2>1, <3>1
    <3>2. CASE d # c
      <4>1. pc[d] \in Holding /\ d \notin overrun
        BY <2>1, <2>3, <3>2
      <4>2. plan.seq[d] # plan.seq[c]
        BY <4>1, <2>2, <3>2
      <4> QED  BY <2>1, <4>1, <4>2
    <3> QED  BY <3>1, <3>2
  <2> QED  BY <1>0, <2>3
<1>3. CASE LockRefused(c) \/ NotSent(c) \/ Send(c) \/ SendUnknown(c) \/ PostCheck(c)
           \/ Record(c) \/ RecordRefused(c) \/ UpdateThread(c) \/ StatementFails(c)
  <2>1. /\ UNCHANGED <<lock, overrun>>
        /\ \E a, b \in CallSteps : /\ pc[c] = a /\ pc' = [pc EXCEPT ![c] = b]
                                   /\ b \in Holding => a \in Holding
    BY <1>3 DEF LockRefused, NotSent, Send, SendUnknown, PostCheck, Record, RecordRefused,
       UpdateThread, StatementFails, Reads, records, Move, Leave, CallSteps
  <2> QED  BY <1>0, <2>1
<1>4. CASE Release(c)
  <2>1. /\ pc' = [pc EXCEPT ![c] = outcome[c]] /\ UNCHANGED overrun
        /\ pc[c] = "release"
        /\ lock' = IF lock[SeqOf(c)].holder = c
                   THEN [lock EXCEPT ![SeqOf(c)] = [holder |-> Free, fresh |-> FALSE]] ELSE lock
    BY <1>4 DEF Release, Move, Unlock
  <2>2. outcome[c] \notin Holding
    OBVIOUS
  <2>3. ASSUME NEW d \in Callers, pc'[d] \in Holding, d \notin overrun'
        PROVE  lock'[plan.seq[d]] = [holder |-> d, fresh |-> TRUE]
    <3>1. d # c /\ pc[d] \in Holding /\ d \notin overrun
      BY <2>1, <2>2, <2>3
    <3>2. lock[plan.seq[d]] = [holder |-> d, fresh |-> TRUE]
      BY <3>1
    <3> QED  BY <2>1, <3>1, <3>2
  <2> QED  BY <1>0, <2>3
<1>5. CASE Crash(c)
  <2>1. /\ pc' = [pc EXCEPT ![c] = "idle"] /\ overrun' = overrun \ {c}
        /\ lock' = [s \in Followups |-> IF lock[s].holder = c
                                        THEN [lock[s] EXCEPT !.holder = Gone] ELSE lock[s]]
    BY <1>5 DEF Crash
  <2>3. ASSUME NEW d \in Callers, pc'[d] \in Holding, d \notin overrun'
        PROVE  lock'[plan.seq[d]] = [holder |-> d, fresh |-> TRUE]
    <3>1. d # c /\ pc[d] \in Holding /\ d \notin overrun
      BY <2>1, <2>3
    <3>2. lock[plan.seq[d]] = [holder |-> d, fresh |-> TRUE] /\ plan.seq[d] \in Followups
      BY <3>1
    <3>3. lock'[plan.seq[d]] = lock[plan.seq[d]]
      BY <2>1, <3>1, <3>2
    <3> QED  BY <3>2, <3>3
  <2> QED  BY <1>0, <2>3
<1> QED  BY <1>1, <1>2, <1>3, <1>4, <1>5 DEF SenderStep

LEMMA HolderLapse ==
    ASSUME TypeOK, HolderIsKnown, NEW s \in Followups, Lapse(s)
    PROVE  HolderIsKnown'
<1>1. /\ UNCHANGED <<plan, pc>>
      /\ lock' = [lock EXCEPT ![s].fresh = FALSE]
      /\ overrun' = overrun \cup ({lock[s].holder} \cap Callers)
  BY DEF Lapse, NotSending
<1>2. ASSUME NEW d \in Callers, pc[d] \in Holding, d \notin overrun'
      PROVE  lock'[SeqOf(d)] = [holder |-> d, fresh |-> TRUE]
  <2>1. lock[SeqOf(d)] = [holder |-> d, fresh |-> TRUE]
    BY <1>1, <1>2 DEF HolderIsKnown
  <2>2. SeqOf(d) # s
    BY <1>1, <1>2, <2>1
  <2> QED  BY <1>1, <2>1, <2>2, SenderTypes
<1> QED  BY <1>1, <1>2 DEF HolderIsKnown, SeqOf

LEMMA SenderFrame ==
    ASSUME TypeOK, NEW c \in Callers, SenderStep(c) \/ Crash(c)
    PROVE  /\ UNCHANGED <<plan, status, event, cursor, cursorSet, baseline, dropped, beyond, misread>>
           /\ UNCHANGED <<step, from, last, ahead, match>>
           /\ \A d \in Callers \ {c} : pc'[d] = pc[d] /\ sent'[d] = sent[d] /\ raced'[d] = raced[d]
<1>1. UNCHANGED <<plan, status, inbox, poller>>
  BY DEF SenderStep, Crash, Precheck, AcquireLock, LockRefused, NotSent, Send, SendUnknown, PostCheck,
     Record, RecordRefused, UpdateThread, StatementFails, Release, Reads, NotSending, records
<1>2. \E b : pc' = [pc EXCEPT ![c] = b]
  BY DEF SenderStep, Crash, Precheck, AcquireLock, LockRefused, NotSent, Send, SendUnknown, PostCheck,
     Record, RecordRefused, UpdateThread, StatementFails, Release, Move, Leave
<1>3. sent' = sent \/ \E b : sent' = [sent EXCEPT ![c] = b]
  BY DEF SenderStep, Crash, Precheck, AcquireLock, LockRefused, NotSent, Send, SendUnknown, PostCheck,
     Record, RecordRefused, UpdateThread, StatementFails, Release, Reads, Deliver
<1>4. raced' = raced \/ \E b : raced' = [raced EXCEPT ![c] = b]
  BY DEF SenderStep, Crash, Precheck, AcquireLock, LockRefused, NotSent, Send, SendUnknown, PostCheck,
     Record, RecordRefused, UpdateThread, StatementFails, Release
<1> QED  BY <1>1, <1>2, <1>3, <1>4, SenderTypes DEF inbox, doubts, poller

\* Every other step of a sender leaves it with nothing in hand.
LEMMA Prepared ==
    ASSUME TypeOK, NEW c \in Callers, Prepares(c), ~PostCheck(c)
    PROVE  UNCHANGED <<mailbox, outbound, late>> /\ pc'[c] \notin {"check", "record"}
<1>1. UNCHANGED <<mailbox, outbound, late>>
  BY DEF Prepares, Crash, Precheck, AcquireLock, LockRefused, NotSent, RecordRefused, UpdateThread,
     StatementFails, Release, Reads, records, mail
<1>2. \E b \in {"lock", "done", "idle", "send", "release"} : pc' = [pc EXCEPT ![c] = b]
  <2>1. CASE Release(c)
    BY <2>1, SenderTypes DEF Release, Move
  <2>2. CASE ~Release(c)
    BY <2>2 DEF Prepares, Crash, Precheck, AcquireLock, LockRefused, NotSent, RecordRefused,
       UpdateThread, StatementFails, Move, Leave
  <2> QED  BY <2>1, <2>2
<1> QED  BY <1>1, <1>2, SenderTypes

LEMMA SentStep ==
    ASSUME TypeOK, SentIsThere, NEW c \in Callers, SenderStep(c) \/ Crash(c)
    PROVE  SentIsThere'
<1> DEFINE Carries(d) == pc[d] \in {"check", "record"}
           n == Len(mailbox)
           m == Len(mailbox')
<1>0. /\ n \in Nat
      /\ \A d \in Callers : sent[d] \in 0 .. n
  BY SenderTypes
<1>1. /\ \A d \in Callers : Carries(d) => sent[d] # 0 /\ \A o \in outbound : o.mail # sent[d]
      /\ \A d, e \in Callers : d # e /\ Carries(d) /\ Carries(e) => sent[d] # sent[e]
      /\ \A o \in outbound : o.mail <= n /\ o.mail \in Nat
  BY DEF SentIsThere, TypeOK, Numbers
<1>2. \A d \in Callers \ {c} : pc'[d] = pc[d] /\ sent'[d] = sent[d]
  BY SenderFrame
<1>3. /\ m \in {n, n + 1}
      /\ \A o \in outbound' : o \in outbound \/ (pc[c] = "record" /\ o.mail = sent[c])
      /\ pc'[c] \in {"check", "record"} =>
           /\ outbound' = outbound
           /\ \/ sent'[c] = n + 1 /\ \A o \in outbound : o.mail # n + 1
              \/ Carries(c) /\ sent'[c] = sent[c]
  <2>1. CASE Send(c)
    <3>1. /\ pc'[c] = "check" /\ sent'[c] = n + 1 /\ outbound' = outbound /\ m = n + 1
      BY <2>1, Delivered, SenderTypes DEF Send, Move, records
    <3>2. \A o \in outbound : o.mail # n + 1
      BY <1>0, <1>1
    <3> QED  BY <3>1, <3>2
  <2>2. CASE SendUnknown(c)
    <3>1. pc'[c] = "release" /\ outbound' = outbound /\ m \in {n, n + 1}
      BY <2>2, Delivered, SenderTypes DEF SendUnknown, Leave, Move, records
    <3> QED  BY <3>1
  <2>3. CASE Record(c)
    <3>1. /\ pc[c] = "record" /\ pc'[c] = "thread" /\ mailbox' = mailbox
          /\ \E named \in BOOLEAN : outbound' = outbound \cup {Outbound(c, named)}
      BY <2>3, SenderTypes DEF Record, Move, mail
    <3> QED  BY <3>1 DEF Outbound
  <2>4. CASE PostCheck(c)
    <3>1. /\ pc[c] = "check" /\ pc'[c] = "record" /\ UNCHANGED <<mailbox, outbound, sent>>
      BY <2>4, SenderTypes DEF PostCheck, Move, Reads, mail, records
    <3> QED  BY <3>1
  <2>5. CASE Prepares(c) /\ ~PostCheck(c)
    <3>1. UNCHANGED <<mailbox, outbound>> /\ pc'[c] \notin {"check", "record"}
      BY <2>5, Prepared
    <3> QED  BY <3>1
  <2> QED  BY <2>1, <2>2, <2>3, <2>4, <2>5 DEF SenderStep, Prepares
<1> HIDE DEF n, m
<1>4. ASSUME NEW d \in Callers, pc'[d] \in {"check", "record"}
      PROVE  sent'[d] # 0 /\ \A o \in outbound' : o.mail # sent'[d]
  <2>1. CASE d = c
    BY <2>1, <1>0, <1>1, <1>3, <1>4
  <2>2. CASE d # c
    BY <2>2, <1>1, <1>2, <1>3, <1>4
  <2> QED  BY <2>1, <2>2
<1>5. ASSUME NEW d \in Callers, NEW e \in Callers, d # e,
             pc'[d] \in {"check", "record"}, pc'[e] \in {"check", "record"}
      PROVE  sent'[d] # sent'[e]
  BY <1>0, <1>1, <1>2, <1>3, <1>5
<1>6. ASSUME NEW o \in outbound'
      PROVE  o.mail <= m
  BY <1>0, <1>1, <1>3, <1>6
<1> QED  BY <1>4, <1>5, <1>6 DEF SentIsThere, m

LEMMA LateStep ==
    ASSUME TypeOK, SendInv, NEW c \in Callers, SenderStep(c) \/ Crash(c)
    PROVE  LateIsNoticed' /\ LateMessagesAreFlagged'
<1> DEFINE n == Len(mailbox)
           Ended(d) == status[plan.seq[d]] # "active"
<1>0. /\ n \in Nat /\ late \subseteq 1 .. n
      /\ \A d \in Callers : sent[d] \in 0 .. n
  BY SenderTypes
<1>1. /\ \A d \in Callers : sent[d] \in late /\ pc[d] = "check" => Ended(d)
      /\ \A d \in Callers : sent[d] \in late /\ pc[d] = "record" => raced[d]
      /\ \A o \in outbound : o.mail <= n /\ (o.mail \in late => o.raced)
  BY DEF SendInv, LateIsNoticed, LateMessagesAreFlagged, SentIsThere, SeqOf
<1>2. /\ \A d \in Callers \ {c} : pc'[d] = pc[d] /\ sent'[d] = sent[d] /\ raced'[d] = raced[d]
      /\ UNCHANGED <<plan, status>>
  BY SenderFrame
<1>3. /\ \A k \in late' : k \in late \/ k = n + 1
      /\ \A o \in outbound' : o \in outbound
            \/ (pc[c] = "record" /\ o.mail = sent[c] /\ o.raced = raced[c])
      /\ sent'[c] \in late' /\ pc'[c] = "check" => Ended(c)
      /\ sent'[c] \in late' /\ pc'[c] = "record" => raced'[c]
  <2>1. CASE Send(c)
    <3>1. /\ pc'[c] = "check" /\ sent'[c] = n + 1 /\ outbound' = outbound
          /\ late' = IF Ended(c) THEN late \cup {n + 1} ELSE late
      BY <2>1, Delivered, SenderTypes DEF Send, Move, records, SeqOf
    <3>2. n + 1 \notin late
      BY <1>0
    <3> QED  BY <3>1, <3>2
  <2>2. CASE SendUnknown(c)
    <3>1. /\ pc'[c] = "release" /\ outbound' = outbound
          /\ late' \in {late, late \cup {n + 1}}
      BY <2>2, Delivered, SenderTypes DEF SendUnknown, Leave, Move, records
    <3> QED  BY <3>1
  <2>3. CASE Record(c)
    <3>1. /\ pc[c] = "record" /\ pc'[c] = "thread" /\ late' = late
          /\ \E named \in BOOLEAN : outbound' = outbound \cup {Outbound(c, named)}
      BY <2>3, SenderTypes DEF Record, Move
    <3> QED  BY <3>1 DEF Outbound
  <2>4. CASE PostCheck(c)
    <3>1. /\ pc[c] = "check" /\ pc'[c] = "record" /\ UNCHANGED <<outbound, late, sent>>
      BY <2>4, SenderTypes DEF PostCheck, Move, Reads, records
    <3>2. Ended(c) => raced'[c]
      <4>1. raced' = [raced EXCEPT ![c] = status[plan.seq[c]] # "active"]
        BY <2>4 DEF PostCheck, SeqOf
      <4>2. c \in DOMAIN raced
        BY SenderTypes
      <4> QED  BY <4>1, <4>2, Zenon
    <3>3. sent[c] \in late => Ended(c)
      BY <1>1, <3>1
    <3> QED  BY <3>1, <3>2, <3>3
  <2>5. CASE Prepares(c) /\ ~PostCheck(c)
    <3>1. UNCHANGED <<late, outbound>> /\ pc'[c] \notin {"check", "record"}
      BY <2>5, Prepared
    <3> QED  BY <3>1
  <2> QED  BY <2>1, <2>2, <2>3, <2>4, <2>5 DEF SenderStep, Prepares
<1> HIDE DEF n
<1>4. ASSUME NEW d \in Callers, sent'[d] \in late'
      PROVE  /\ pc'[d] = "check" => status'[plan'.seq[d]] # "active"
             /\ pc'[d] = "record" => raced'[d]
  <2>1. CASE d = c
    BY <2>1, <1>2, <1>3, <1>4
  <2>2. CASE d # c
    <3>1. sent[d] \in late
      <4>1. sent'[d] = sent[d] /\ sent[d] # n + 1
        BY <2>2, <1>0, <1>2
      <4>2. \A k \in late' : k \in late \/ k = n + 1
        BY <1>3
      <4> QED  BY <4>1, <4>2, <1>4, Zenon
    <3>2. pc'[d] = pc[d] /\ raced'[d] = raced[d] /\ status' = status /\ plan' = plan
      BY <2>2, <1>2
    <3> QED  BY <3>1, <3>2, <1>1, Zenon
  <2> QED  BY <2>1, <2>2
<1>5. ASSUME NEW o \in outbound', o.mail \in late'
      PROVE  o.raced
  <2>1. CASE o \in outbound
    BY <2>1, <1>0, <1>1, <1>3, <1>5
  <2>2. CASE o \notin outbound
    <3>1. o.mail = sent[c] /\ o.raced = raced[c] /\ pc[c] = "record"
      BY <2>2, <1>3, <1>5
    <3>2. sent[c] \in late
      BY <3>1, <1>0, <1>3, <1>5
    <3>3. raced[c]
      BY <3>1, <3>2, <1>1
    <3> QED  BY <3>1, <3>3
  <2> QED  BY <2>1, <2>2
<1> QED  BY <1>4, <1>5 DEF LateIsNoticed, LateMessagesAreFlagged, SeqOf

\* What anybody else does: the mailbox may grow, and a sequence may end.
LEMMA SendStands ==
    ASSUME TypeOK, SendInv, Grown, UNCHANGED <<plan, pc, sent, raced, outbound, late, lock, overrun>>,
           \A s \in Followups : status[s] # "active" => status'[s] # "active"
    PROVE  SendInv'
<1>1. \A o \in outbound : o.mail <= Len(mailbox')
  <2>1. Len(mailbox') \in {Len(mailbox), Len(mailbox) + 1}
    BY DEF Grown
  <2>2. \A o \in outbound : o.mail <= Len(mailbox) /\ o.mail \in Nat
    BY DEF SendInv, SentIsThere, TypeOK, Numbers
  <2>3. Len(mailbox) \in Nat
    BY SenderTypes
  <2> QED  BY <2>1, <2>2, <2>3
<1>2. SentIsThere'
  BY <1>1 DEF SendInv, SentIsThere
<1>3. HolderIsKnown' /\ LateIsNoticed' /\ LateMessagesAreFlagged'
  BY SenderTypes DEF SendInv, HolderIsKnown, LateIsNoticed, LateMessagesAreFlagged, SeqOf
<1> QED  BY <1>2, <1>3 DEF SendInv
-----------------------------------------------------------------------------
(* Receiving *)

LEMMA PollTypes ==
    ASSUME TypeOK
    PROVE  /\ step \in [Pollers -> PollSteps] /\ match \in [Pollers -> Matches]
           /\ from \in [Pollers -> 0 .. Len(mailbox)] /\ last \in [Pollers -> 0 .. Len(mailbox)]
           /\ ahead \in [Pollers -> 0 .. Len(mailbox)]
           /\ event \in [Numbers -> Matches \cup {"none"}]
           /\ status \in [Followups -> {"active", "replied"}]
           /\ cursor \in 0 .. Len(mailbox) /\ baseline \in 0 .. Len(mailbox)
           /\ Len(mailbox) \in Nat /\ DOMAIN mailbox = 1 .. Len(mailbox)
           /\ \A i \in 1 .. Len(mailbox) : i \in Numbers
           /\ "none" \notin Matches
<1>1. "none" \notin Matches
  BY FollowUpAssumption DEF Matches
<1>2. \A i \in 1 .. Len(mailbox) : i \in Numbers
  BY Sizes DEF Numbers
<1> QED  BY <1>1, <1>2, Sizes DEF TypeOK

\* Nothing of a poll changes, and the mailbox may grow.
LEMMA PollStands ==
    ASSUME TypeOK, PollInv, Grown,
           UNCHANGED <<status, event, dropped, step, from, last, match, plan>>
    PROVE  PollInv'
<1> DEFINE n == Len(mailbox)
           m == Len(mailbox')
<1>1. /\ n \in Nat /\ (m = n \/ m = n + 1) /\ DOMAIN mailbox = 1 .. n /\ DOMAIN mailbox' = 1 .. m
      /\ m <= plan.mail
  BY Sizes DEF Grown
<1>0. plan.mail \in Nat /\ plan.mail <= MaxMail /\ MaxMail \in Nat
  BY Sizes
<1>6. \A i \in Numbers : i > n => event[i] = "none"
  BY DEF PollInv, EventsAreOfMail
<1> HIDE DEF n, m
<1>2. OnThePage' /\ MatchIsReserved'
  BY DEF PollInv, OnThePage, MatchIsReserved
<1>3. EventsAreOfMail'
  <2>1. ASSUME NEW i \in Numbers, i > m
        PROVE  event[i] = "none"
    BY <1>1, <1>6, <2>1 DEF Numbers
  <2> QED  BY <2>1 DEF EventsAreOfMail, m
<1>4. ASSUME NEW i \in DOMAIN mailbox', event[i] \in Followups
      PROVE  i \in DOMAIN mailbox
  <2>1. i \in Numbers
    BY <1>0, <1>1 DEF Numbers
  <2>2. event[i] # "none"
    BY <1>4, FollowUpAssumption
  <2>3. ~(i > n)
    BY <2>1, <2>2, <1>6
  <2> QED  BY <1>1, <2>3
<1>5. PlacedRepliesEnd'
  BY <1>4 DEF PollInv, PlacedRepliesEnd, Ending, At
<1> QED  BY <1>2, <1>3, <1>5 DEF PollInv

LEMMA PollerFrame ==
    ASSUME TypeOK, NEW p \in Pollers, PollerStep(p) \/ PollStops(p)
    PROVE  /\ UNCHANGED <<plan, mailbox, due, lock, thread, outbound, pc, calls, sent, raced, outcome>>
           /\ UNCHANGED <<overrun, late>>
           /\ \A s \in Followups : status[s] # "active" => status'[s] # "active"
           /\ \A q \in Pollers \ {p} :
                /\ step'[q] = step[q] /\ from'[q] = from[q] /\ last'[q] = last[q]
                /\ ahead'[q] = ahead[q] /\ match'[q] = match[q]
<1>1. UNCHANGED <<plan, mail, lock, thread, outbound, sender>>
  BY DEF PollerStep, PollStops, FirstPoll, CurrentHistory, SaveBaseline, ListHistory, FetchMessage,
     MessageGone, Reserve, Duplicate, Transition, TransitionFails, SaveCursor, Drop, Looks, NotPolling
<1>2. \A s \in Followups : status[s] # "active" => status'[s] # "active"
  <2>1. CASE Transition(p)
    BY <2>1, PollTypes DEF Transition
  <2>2. CASE ~Transition(p)
    <3>1. status' = status
      BY <2>2 DEF PollerStep, PollStops, FirstPoll, CurrentHistory, SaveBaseline, ListHistory,
         FetchMessage, MessageGone, Reserve, Duplicate, TransitionFails, SaveCursor, Drop, Looks
    <3> QED  BY <3>1
  <2> QED  BY <2>1, <2>2
<1>3. \E b : step' = [step EXCEPT ![p] = b]
  BY DEF PollerStep, PollStops, FirstPoll, CurrentHistory, SaveBaseline, ListHistory, FetchMessage,
     MessageGone, Reserve, Duplicate, Transition, TransitionFails, SaveCursor, Step, Return
<1>4. from' = from \/ \E b : from' = [from EXCEPT ![p] = b]
  BY DEF PollerStep, PollStops, FirstPoll, CurrentHistory, SaveBaseline, ListHistory, FetchMessage,
     MessageGone, Reserve, Duplicate, Transition, TransitionFails, SaveCursor, OnTo, Return
<1>5. last' = last \/ \E b : last' = [last EXCEPT ![p] = b]
  BY DEF PollerStep, PollStops, FirstPoll, CurrentHistory, SaveBaseline, ListHistory, FetchMessage,
     MessageGone, Reserve, Duplicate, Transition, TransitionFails, SaveCursor, Return
<1>6. ahead' = ahead \/ \E b : ahead' = [ahead EXCEPT ![p] = b]
  BY DEF PollerStep, PollStops, FirstPoll, CurrentHistory, SaveBaseline, ListHistory, FetchMessage,
     MessageGone, Reserve, Duplicate, Transition, TransitionFails, SaveCursor, Return
<1>7. match' = match \/ \E b : match' = [match EXCEPT ![p] = b]
  BY DEF PollerStep, PollStops, FirstPoll, CurrentHistory, SaveBaseline, ListHistory, FetchMessage,
     MessageGone, Reserve, Duplicate, Transition, TransitionFails, SaveCursor, OnTo, Return
<1> QED  BY <1>1, <1>2, <1>3, <1>4, <1>5, <1>6, <1>7, PollTypes DEF mail, sender

\* What one step of a poll does to the message at hand.
LEMMA AtHand ==
    ASSUME TypeOK, PollInv, NEW p \in Pollers, PollerStep(p) \/ PollStops(p),
           NEW k, k = from[p] + 1
    PROVE  /\ \/ event' = event
              \/ /\ step[p] = "reserve" /\ k \in 1 .. Len(mailbox) /\ event[k] = "none"
                 /\ event' = [event EXCEPT ![k] = match[p]]
                 /\ match[p] \in Followups => step'[p] = "transition"
           /\ step'[p] = "reserve" => from'[p] < last'[p]
           /\ step'[p] = "transition" =>
                /\ step[p] = "reserve" /\ from'[p] = from[p] /\ last'[p] = last[p]
                /\ match'[p] = match[p] /\ match[p] \in Followups
                /\ event' = [event EXCEPT ![k] = match[p]]
           /\ step[p] = "transition" => k \in dropped' \/ status'[match[p]] # "active"
           /\ dropped \subseteq dropped'
<1> USE PollTypes DEF Step, At
<1>1. step[p] = "transition" => match[p] \in Followups /\ k \in 1 .. Len(mailbox)
  <2>1. step[p] = "transition" => from[p] < last[p] /\ match[p] \in Followups
    BY DEF PollInv, OnThePage, MatchIsReserved
  <2> QED  BY <2>1
<1>2. CASE FirstPoll(p) \/ CurrentHistory(p) \/ ListHistory(p) \/ FetchMessage(p) \/ Duplicate(p)
  <2>1. UNCHANGED <<event, dropped>> /\ step[p] # "transition"
        /\ step'[p] \in {"current", "baseline", "next", "reserve"}
    BY <1>2 DEF FirstPoll, CurrentHistory, ListHistory, FetchMessage, Duplicate, Looks, inbox
  <2>2. step'[p] = "reserve" => from'[p] < last'[p]
    BY <1>2 DEF FirstPoll, CurrentHistory, ListHistory, FetchMessage, Duplicate
  <2> QED  BY <2>1, <2>2
<1>3. CASE SaveBaseline(p) \/ SaveCursor(p) \/ MessageGone(p)
  <2>1. UNCHANGED <<event, dropped>> /\ step[p] # "transition" /\ step'[p] = "poll"
    BY <1>3 DEF SaveBaseline, SaveCursor, MessageGone, Looks, inbox, Return
  <2> QED  BY <2>1
<1>4. CASE Reserve(p)
  <2>1. /\ step[p] = "reserve" /\ event[k] = "none" /\ event' = [event EXCEPT ![k] = match[p]]
        /\ UNCHANGED <<dropped, last>>
        /\ match[p] \in Followups => step'[p] = "transition" /\ UNCHANGED <<from, match>>
        /\ match[p] \notin Followups => step'[p] = "next"
    BY <1>4 DEF Reserve
  <2>2. from[p] < last[p]
    BY <2>1 DEF PollInv, OnThePage
  <2>3. k \in 1 .. Len(mailbox)
    BY <2>2
  <2> QED  BY <2>1, <2>3
<1>5. CASE Transition(p)
  <2>1. /\ UNCHANGED <<event, dropped>> /\ step[p] = "transition" /\ step'[p] = "next"
        /\ status' = [status EXCEPT ![match[p]] = "replied"]
    BY <1>5 DEF Transition, inbox
  <2> QED  BY <1>1, <2>1
<1>6. CASE TransitionFails(p) \/ PollStops(p)
  <2>1. /\ UNCHANGED event /\ step'[p] \in {"next", "poll"}
        /\ dropped' = IF step[p] = "transition" THEN dropped \cup {k} ELSE dropped
    BY <1>6 DEF TransitionFails, PollStops, Drop, Return
  <2> QED  BY <2>1
<1> QED  BY <1>2, <1>3, <1>4, <1>5, <1>6 DEF PollerStep

LEMMA PollStep ==
    ASSUME TypeOK, PollInv, NEW p \in Pollers, PollerStep(p) \/ PollStops(p)
    PROVE  PollInv'
<1> DEFINE k == from[p] + 1
<1>1. /\ \/ event' = event
         \/ /\ step[p] = "reserve" /\ k \in 1 .. Len(mailbox) /\ event[k] = "none"
            /\ event' = [event EXCEPT ![k] = match[p]]
            /\ match[p] \in Followups => step'[p] = "transition"
      /\ step'[p] = "reserve" => from'[p] < last'[p]
      /\ step'[p] = "transition" =>
           /\ step[p] = "reserve" /\ from'[p] = from[p] /\ last'[p] = last[p]
           /\ match'[p] = match[p] /\ match[p] \in Followups
           /\ event' = [event EXCEPT ![k] = match[p]]
      /\ step[p] = "transition" => k \in dropped' \/ status'[match[p]] # "active"
      /\ dropped \subseteq dropped'
  BY AtHand
<1>2. /\ mailbox' = mailbox
      /\ \A s \in Followups : status[s] # "active" => status'[s] # "active"
      /\ \A q \in Pollers \ {p} : step'[q] = step[q] /\ from'[q] = from[q] /\ last'[q] = last[q]
                                  /\ match'[q] = match[q]
  BY PollerFrame
<1>3. /\ \A q \in Pollers : step[q] \in {"reserve", "transition"} => from[q] < last[q]
      /\ \A q \in Pollers : step[q] = "transition" =>
           match[q] \in Followups /\ event[from[q] + 1] = match[q]
      /\ \A i \in Numbers : i > Len(mailbox) => event[i] = "none"
      /\ \A i \in DOMAIN mailbox : event[i] \in Followups =>
           \/ i \in dropped \/ status[event[i]] # "active"
           \/ \E q \in Pollers : step[q] = "transition" /\ from[q] + 1 = i
  BY DEF PollInv, OnThePage, MatchIsReserved, EventsAreOfMail, PlacedRepliesEnd, Ending, At
<1>4. /\ Len(mailbox) \in Nat /\ DOMAIN mailbox = 1 .. Len(mailbox)
      /\ \A i \in 1 .. Len(mailbox) : i \in DOMAIN event
      /\ "none" \notin Followups
  BY PollTypes DEF Matches
<1> HIDE DEF k
<1>10. \A i \in DOMAIN event : i # k \/ event[i] # "none" => event'[i] = event[i]
  <2>1. CASE event' = event
    BY <2>1
  <2>2. CASE event[k] = "none" /\ event' = [event EXCEPT ![k] = match[p]]
    BY <2>2
  <2> QED  BY <2>1, <2>2, <1>1
<1>5. OnThePage'
  BY <1>1, <1>2, <1>3 DEF OnThePage
<1>6. ASSUME NEW q \in Pollers, step'[q] = "transition"
      PROVE  match'[q] \in Followups /\ event'[from'[q] + 1] = match'[q]
  <2>1. CASE q = p
    <3>1. /\ from'[p] + 1 = k /\ match'[p] = match[p] /\ match[p] \in Followups
          /\ event' = [event EXCEPT ![k] = match[p]]
      BY <1>1, <1>6, <2>1 DEF k
    <3>2. k \in DOMAIN event
      <4>1. from[p] \in 0 .. Len(mailbox) /\ from[p] < last[p] /\ last[p] \in 0 .. Len(mailbox)
        BY <1>1, <1>3, <1>6, <2>1, PollTypes
      <4> QED  BY <4>1, <1>4 DEF k
    <3> QED  BY <2>1, <3>1, <3>2
  <2>2. CASE q # p
    <3>1. /\ step[q] = "transition" /\ match[q] \in Followups /\ event[from[q] + 1] = match[q]
          /\ match'[q] = match[q] /\ from'[q] = from[q]
      BY <1>2, <1>3, <1>6, <2>2
    <3>2. event[from[q] + 1] # "none"
      BY <3>1, <1>4
    <3>3. from[q] + 1 \in DOMAIN event
      <4>1. from[q] \in 0 .. Len(mailbox) /\ from[q] < last[q] /\ last[q] \in 0 .. Len(mailbox)
        BY <1>3, <3>1, PollTypes
      <4> QED  BY <4>1, <1>4
    <3>4. event'[from[q] + 1] = event[from[q] + 1]
      BY <3>2, <3>3, <1>10
    <3> QED  BY <3>1, <3>4
  <2> QED  BY <2>1, <2>2
<1>7. EventsAreOfMail'
  <2>1. ASSUME NEW i \in Numbers, i > Len(mailbox)
        PROVE  event'[i] = "none"
    <3>1. event[i] = "none" /\ i \in DOMAIN event
      BY <2>1, <1>3, PollTypes
    <3>2. event' = event \/ i # k
      <4>1. CASE k \in 1 .. Len(mailbox)
        BY <4>1, <2>1, <1>4 DEF Numbers
      <4>2. CASE k \notin 1 .. Len(mailbox)
        BY <4>2, <1>1
      <4> QED  BY <4>1, <4>2
    <3> QED  BY <3>1, <3>2, <1>10
  <2> QED  BY <2>1, <1>2 DEF EventsAreOfMail
<1>8. ASSUME NEW i \in DOMAIN mailbox, event'[i] \in Followups
      PROVE  \/ i \in dropped' \/ status'[event'[i]] # "active"
             \/ \E q \in Pollers : step'[q] = "transition" /\ from'[q] + 1 = i
  <2>1. CASE event[i] = event'[i]
    <3>1. CASE i \in dropped \/ status[event[i]] # "active"
      BY <3>1, <2>1, <1>1, <1>2, <1>8
    <3>2. ASSUME NEW q \in Pollers, step[q] = "transition", from[q] + 1 = i
          PROVE  \/ i \in dropped' \/ status'[event'[i]] # "active"
                 \/ \E r \in Pollers : step'[r] = "transition" /\ from'[r] + 1 = i
      <4>1. CASE q = p
        BY <3>2, <4>1, <2>1, <1>1, <1>3 DEF k
      <4>2. CASE q # p
        BY <3>2, <4>2, <1>2
      <4> QED  BY <4>1, <4>2
    <3> QED  BY <3>1, <3>2, <2>1, <1>3, <1>8
  <2>2. CASE event[i] # event'[i]
    <3>1. i = k /\ event'[i] = match[p] /\ step'[p] = "transition"
      BY <2>2, <1>1, <1>4, <1>8
    <3>2. from'[p] + 1 = i
      BY <3>1, <1>1 DEF k
    <3> QED  BY <3>1, <3>2
  <2> QED  BY <2>1, <2>2
<1>9. MatchIsReserved' /\ PlacedRepliesEnd'
  BY <1>2, <1>6, <1>8 DEF MatchIsReserved, PlacedRepliesEnd, Ending, At
<1> QED  BY <1>5, <1>7, <1>9 DEF PollInv
-----------------------------------------------------------------------------
(* The cursor *)

\* What one step of a poll does to the page and the cursor.
LEMMA AtPage ==
    ASSUME TypeOK, PollInv, NEW p \in Pollers, PollerStep(p) \/ PollStops(p)
    PROVE  /\ baseline <= baseline' /\ beyond \subseteq beyond'
           /\ step'[p] \in Reading =>
                \/ step[p] \in Reading /\ from'[p] = from[p]
                \/ step[p] \in Reading /\ from'[p] = from[p] + 1 /\ event'[from[p] + 1] # "none"
                \/ from'[p] = cursor /\ cursorSet
           /\ \/ cursor' = cursor /\ cursorSet' = cursorSet
              \/ cursor' <= baseline'
              \/ /\ step[p] \in Reading
                 /\ \A i \in Nat : i > from[p] /\ i <= cursor' => i \in beyond'
<1> USE PollTypes DEF Step, At, Reading
<1>2. CASE FirstPoll(p) \/ CurrentHistory(p) \/ MessageGone(p) \/ PollStops(p)
  <2>1. /\ UNCHANGED <<cursor, cursorSet, baseline, beyond>>
        /\ step'[p] \in {"current", "baseline", "poll"}
    BY <1>2 DEF FirstPoll, CurrentHistory, MessageGone, PollStops, Looks, inbox, doubts, Drop, Return
  <2> QED  BY <2>1
<1>3. CASE SaveBaseline(p)
  <2>1. step'[p] = "poll" /\ cursor' = ahead[p] /\ beyond' = beyond
        /\ baseline' = IF ahead[p] > baseline THEN ahead[p] ELSE baseline
    BY <1>3 DEF SaveBaseline, doubts, Return
  <2>2. ahead[p] \in Nat /\ baseline \in Nat
    OBVIOUS
  <2> QED  BY <2>1, <2>2
<1>4. CASE ListHistory(p)
  <2>1. UNCHANGED <<cursor, cursorSet, baseline, beyond>> /\ cursorSet /\ from'[p] = cursor
    BY <1>4 DEF ListHistory, Looks, inbox, doubts
  <2> QED  BY <2>1
<1>5. CASE FetchMessage(p)
  <2>1. UNCHANGED <<cursor, cursorSet, baseline, beyond, from>> /\ step[p] = "next"
    BY <1>5 DEF FetchMessage
  <2> QED  BY <2>1
<1>6. CASE Reserve(p)
  <2>1. /\ UNCHANGED <<cursor, cursorSet, baseline, beyond>> /\ step[p] = "reserve"
        /\ event' = [event EXCEPT ![from[p] + 1] = match[p]]
        /\ from'[p] \in {from[p], from[p] + 1}
    BY <1>6 DEF Reserve, OnTo, doubts
  <2>2. from[p] + 1 \in DOMAIN event /\ match[p] # "none"
    <3>1. from[p] < last[p] /\ from[p] \in 0 .. Len(mailbox) /\ last[p] \in 0 .. Len(mailbox)
      BY <2>1 DEF PollInv, OnThePage
    <3>2. from[p] + 1 \in 1 .. Len(mailbox)
      BY <3>1
    <3> QED  BY <3>2
  <2>3. event'[from[p] + 1] # "none"
    BY <2>1, <2>2
  <2> QED  BY <2>1, <2>3
<1>7. CASE Duplicate(p)
  <2>1. /\ UNCHANGED <<cursor, cursorSet, baseline, beyond, event>> /\ step[p] = "reserve"
        /\ event[from[p] + 1] # "none" /\ from'[p] = from[p] + 1
    BY <1>7 DEF Duplicate, OnTo, Looks, inbox, doubts
  <2> QED  BY <2>1
<1>8. CASE Transition(p) \/ TransitionFails(p)
  <2>1. /\ UNCHANGED <<cursor, cursorSet, baseline, beyond, event>> /\ step[p] = "transition"
        /\ from'[p] = from[p] + 1
    BY <1>8 DEF Transition, TransitionFails, OnTo, Drop, inbox, doubts
  <2>2. event[from[p] + 1] # "none"
    BY <2>1, FollowUpAssumption DEF PollInv, MatchIsReserved
  <2> QED  BY <2>1, <2>2
<1>9. CASE SaveCursor(p)
  <2>1. /\ UNCHANGED <<cursorSet, baseline>> /\ step[p] = "next" /\ step'[p] = "poll"
        /\ cursor' = ahead[p] /\ from[p] >= last[p]
        /\ beyond' = beyond \cup (last[p] + 1 .. ahead[p])
    BY <1>9 DEF SaveCursor, PassBeyond, Return
  <2>2. from[p] \in Nat /\ last[p] \in Nat /\ ahead[p] \in Nat /\ baseline \in Nat
    OBVIOUS
  <2>3. \A i \in Nat : i > from[p] /\ i <= ahead[p] => i \in last[p] + 1 .. ahead[p]
    BY <2>1, <2>2
  <2> QED  BY <2>1, <2>2, <2>3
<1> QED  BY <1>2, <1>3, <1>4, <1>5, <1>6, <1>7, <1>8, <1>9 DEF PollerStep

LEMMA CursorStep ==
    ASSUME TypeOK, PollInv, CursorInv, NEW p \in Pollers, PollerStep(p) \/ PollStops(p)
    PROVE  CursorInv'
<1> DEFINE Looked(n) == \A i \in 1 .. n : i > baseline => event[i] # "none" \/ i \in beyond
           LookedNow(n) == \A i \in 1 .. n : i > baseline' => event'[i] # "none" \/ i \in beyond'
<1>1. /\ baseline <= baseline' /\ beyond \subseteq beyond'
      /\ step'[p] \in Reading =>
           \/ step[p] \in Reading /\ from'[p] = from[p]
           \/ step[p] \in Reading /\ from'[p] = from[p] + 1 /\ event'[from[p] + 1] # "none"
           \/ from'[p] = cursor /\ cursorSet
      /\ \/ cursor' = cursor /\ cursorSet' = cursorSet
         \/ cursor' <= baseline'
         \/ /\ step[p] \in Reading
            /\ \A i \in Nat : i > from[p] /\ i <= cursor' => i \in beyond'
  BY AtPage
<1>2. /\ mailbox' = mailbox
      /\ \A q \in Pollers \ {p} : step'[q] = step[q] /\ from'[q] = from[q]
  BY PollerFrame
<1>3. /\ Len(mailbox) \in Nat /\ DOMAIN mailbox = 1 .. Len(mailbox)
      /\ baseline \in 0 .. Len(mailbox) /\ cursor \in 0 .. Len(mailbox)
      /\ \A q \in Pollers : from[q] \in 0 .. Len(mailbox)
  BY PollTypes
<1>4. \A q \in Pollers : step[q] \in Reading => Looked(from[q])
  BY DEF CursorInv, PageIsRead
<1>5. cursorSet => Looked(cursor)
  BY <1>3 DEF CursorInv, NoMessageIsSkipped
<1>6. baseline' \in Nat
  BY PollTypes DEF PollerStep, PollStops, FirstPoll, CurrentHistory, SaveBaseline, ListHistory,
     FetchMessage, MessageGone, Reserve, Duplicate, Transition, TransitionFails,
     SaveCursor, Drop, Looks, inbox
<1>7. ASSUME NEW n \in 0 .. Len(mailbox), Looked(n)
      PROVE  LookedNow(n)
  <2>1. ASSUME NEW i \in 1 .. n, i > baseline', i \notin beyond'
        PROVE  event'[i] # "none"
    <3>1. event[i] # "none"
      <4>1. i > baseline
        BY <1>1, <1>3, <1>6, <1>7, <2>1
      <4> QED  BY <4>1, <1>1, <1>7, <2>1
    <3>2. CASE event' = event
      BY <3>1, <3>2
    <3>3. CASE event[from[p] + 1] = "none" /\ event' = [event EXCEPT ![from[p] + 1] = match[p]]
      <4>1. i \in DOMAIN event
        BY <1>3, <1>7, <2>1, PollTypes
      <4> QED  BY <3>1, <3>3, <4>1
    <3> QED  BY <3>2, <3>3, AtHand
  <2> QED  BY <2>1
<1> HIDE DEF Looked
<1>8. ASSUME NEW q \in Pollers, step'[q] \in Reading
      PROVE  LookedNow(from'[q])
  <2>1. CASE q = p
    <3>1. CASE step[p] \in Reading /\ from'[p] = from[p]
      BY <2>1, <3>1, <1>1, <1>3, <1>4, <1>7, <1>8
    <3>2. CASE step[p] \in Reading /\ from'[p] = from[p] + 1 /\ event'[from[p] + 1] # "none"
      <4>1. LookedNow(from[p])
        BY <3>2, <1>3, <1>4, <1>7
      <4>2. LookedNow(from[p] + 1)
        BY <4>1, <3>2, <1>3
      <4> QED  BY <4>2, <3>2, <2>1, <1>1, <1>8
    <3>3. CASE from'[p] = cursor /\ cursorSet
      BY <2>1, <3>3, <1>1, <1>3, <1>5, <1>7, <1>8
    <3> QED  BY <2>1, <3>1, <3>2, <3>3, <1>1, <1>8
  <2>2. CASE q # p
    BY <2>2, <1>2, <1>3, <1>4, <1>7, <1>8
  <2> QED  BY <2>1, <2>2
<1>9. ASSUME NEW i \in DOMAIN mailbox, cursorSet', i > baseline', i <= cursor'
      PROVE  event'[i] # "none" \/ i \in beyond'
  <2>1. CASE cursor' = cursor /\ cursorSet' = cursorSet
    BY <2>1, <1>3, <1>5, <1>7, <1>9
  <2>2. CASE cursor' <= baseline'
    <3>1. cursor' \in Nat
      BY PollTypes DEF PollerStep, PollStops, FirstPoll, CurrentHistory, SaveBaseline, ListHistory,
         FetchMessage, MessageGone, Reserve, Duplicate, Transition, TransitionFails,
         SaveCursor, Drop, Looks, inbox
    <3> QED  BY <3>1, <2>2, <1>3, <1>6, <1>9
  <2>3. CASE /\ step[p] \in Reading
             /\ \A k \in Nat : k > from[p] /\ k <= cursor' => k \in beyond'
    <3>1. CASE i > from[p]
      BY <3>1, <2>3, <1>3, <1>9
    <3>2. CASE ~(i > from[p])
      <4>1. LookedNow(from[p])
        BY <2>3, <1>3, <1>4, <1>7
      <4>2. i \in 1 .. from[p]
        BY <3>2, <1>3, <1>9
      <4> QED  BY <4>1, <4>2, <1>9
    <3> QED  BY <3>1, <3>2
  <2> QED  BY <2>1, <2>2, <2>3, <1>1
<1>10. PageIsRead'
  BY <1>8 DEF PageIsRead
<1>11. NoMessageIsSkipped'
  BY <1>2, <1>9 DEF NoMessageIsSkipped
<1> QED  BY <1>10, <1>11 DEF CursorInv
-----------------------------------------------------------------------------
(* Types *)

MailType ==
    /\ plan \in Plans /\ mailbox \in Seq(Message) /\ Len(mailbox) <= plan.mail
    /\ late \subseteq DOMAIN mailbox /\ due \subseteq DOMAIN mailbox /\ dropped \subseteq DOMAIN mailbox
    /\ beyond \subseteq DOMAIN mailbox /\ misread \subseteq DOMAIN mailbox
Records ==
    [mail : Numbers, seq : Followups, attempt : Attempts, named : BOOLEAN, raced : BOOLEAN]
TableType ==
    /\ status \in [Followups -> {"active", "replied"}]
    /\ lock \in [Followups -> [holder : Callers \cup {Free, Gone}, fresh : BOOLEAN]]
    /\ thread \in [Conversations -> 0 .. MaxMail]
    /\ outbound \subseteq Records
    /\ \A o, x \in outbound : o.attempt = x.attempt \/ o.mail = x.mail => o = x
InboxType ==
    /\ event \in [Numbers -> Matches \cup {"none"}]
    /\ cursor \in 0 .. Len(mailbox) /\ cursorSet \in BOOLEAN /\ baseline \in 0 .. Len(mailbox)
SenderType ==
    /\ pc \in [Callers -> CallSteps]
    /\ calls \in [Callers -> Nat] /\ \A c \in Callers : calls[c] <= plan.calls[c]
    /\ sent \in [Callers -> 0 .. Len(mailbox)]
    /\ raced \in [Callers -> BOOLEAN]
    /\ outcome \in [Callers -> {"idle", "done"}]
    /\ overrun \subseteq Callers
PollerType ==
    /\ step \in [Pollers -> PollSteps]
    /\ from \in [Pollers -> 0 .. Len(mailbox)] /\ last \in [Pollers -> 0 .. Len(mailbox)]
    /\ ahead \in [Pollers -> 0 .. Len(mailbox)] /\ match \in [Pollers -> Matches]

LEMMA TypeParts ==
    ASSUME TypeOK
    PROVE  MailType /\ TableType /\ InboxType /\ SenderType /\ PollerType
BY DEF TypeOK, MailType, TableType, InboxType, SenderType, PollerType, Message, Records

LEMMA PartsType ==
    ASSUME MailType', TableType', InboxType', SenderType', PollerType', faults' \in 0 .. plan'.faults
    PROVE  TypeOK'
BY DEF TypeOK, MailType, TableType, InboxType, SenderType, PollerType, Message, Records

\* What grows with the mailbox stays within its type.
LEMMA Within ==
    ASSUME TypeOK, Grown
    PROVE  /\ \A k \in 0 .. Len(mailbox) : k \in 0 .. Len(mailbox')
           /\ \A k \in DOMAIN mailbox : k \in DOMAIN mailbox'
           /\ DOMAIN mailbox' = 1 .. Len(mailbox')
<1> DEFINE n == Len(mailbox)
           m == Len(mailbox')
<1>1. n \in Nat /\ DOMAIN mailbox = 1 .. n
  BY Sizes
<1>2. (m = n \/ m = n + 1) /\ DOMAIN mailbox' = 1 .. m
  BY DEF Grown
<1> HIDE DEF n, m
<1>3. /\ \A k \in 0 .. n : k \in 0 .. m
      /\ \A k \in 1 .. n : k \in 1 .. m
  BY <1>1, <1>2
<1> QED  BY <1>1, <1>2, <1>3 DEF n, m

LEMMA PollerTypeStands ==
    ASSUME TypeOK, Grown, UNCHANGED <<plan, event, cursor, cursorSet, baseline>>,
           UNCHANGED <<step, from, last, ahead, match>>
    PROVE  InboxType' /\ PollerType'
BY TypeParts, Within DEF InboxType, PollerType

LEMMA SendersType ==
    ASSUME TypeOK, SentIsThere, NEW c \in Callers, SenderStep(c) \/ Crash(c), Grown
    PROVE  TypeOK'
<1> USE DEF Move, Leave
<1>1. UNCHANGED <<plan, status, event, cursor, cursorSet, baseline, dropped, beyond, misread, due>>
      /\ UNCHANGED <<step, from, last, ahead, match>>
  <2>1. due' = due
    BY DEF SenderStep, Crash, Precheck, AcquireLock, LockRefused, NotSent, Send, SendUnknown,
       PostCheck, Record, RecordRefused, UpdateThread, StatementFails, Release, Reads, mail
  <2> QED  BY <2>1, SenderFrame
<1>2. InboxType' /\ PollerType'
  BY <1>1, PollerTypeStands
<1>3. faults' \in 0 .. plan'.faults
  <2>1. faults' = faults \/ (faults < plan.faults /\ faults' = faults + 1)
    BY DEF SenderStep, Crash, Precheck, AcquireLock, LockRefused, NotSent, Send, SendUnknown,
       PostCheck, Record, RecordRefused, UpdateThread, StatementFails, Release, Reads, Fault
  <2>2. faults \in 0 .. plan.faults /\ plan.faults \in Nat
    BY Sizes DEF TypeOK
  <2>3. plan'.faults = plan.faults
    BY <1>1
  <2> QED  BY <2>1, <2>2, <2>3
<1>4. \A k \in DOMAIN mailbox : k \in DOMAIN mailbox'
  BY Within
<1>5. late' \subseteq DOMAIN mailbox' /\ sent' \in [Callers -> 0 .. Len(mailbox')]
  <2>1. CASE Deliver(c)
    <3>1. /\ Len(mailbox') = Len(mailbox) + 1
          /\ sent' = [sent EXCEPT ![c] = Len(mailbox) + 1]
          /\ late' \in {late, late \cup {Len(mailbox) + 1}}
      BY <2>1, Delivered
    <3>2. Len(mailbox) + 1 \in 0 .. Len(mailbox') /\ Len(mailbox) + 1 \in DOMAIN mailbox'
      BY <3>1, Sizes, Within
    <3>3. late' \subseteq DOMAIN mailbox'
      BY <3>1, <3>2, <1>4, SenderTypes
    <3>4. sent' \in [Callers -> 0 .. Len(mailbox')]
      BY <3>1, <3>2, Within, SenderTypes
    <3> QED  BY <3>3, <3>4
  <2>2. CASE ~Deliver(c)
    <3>1. late' = late /\ (sent' = sent \/ sent' = [sent EXCEPT ![c] = 0])
      BY <2>2 DEF SenderStep, Crash, Precheck, AcquireLock, LockRefused, NotSent, Send, SendUnknown,
         PostCheck, Record, RecordRefused, UpdateThread, StatementFails, Release, Reads
    <3>2. 0 \in 0 .. Len(mailbox)
      BY Sizes
    <3>3. sent' \in [Callers -> 0 .. Len(mailbox)]
      BY <3>1, <3>2, SenderTypes
    <3> QED  BY <3>1, <3>3, <1>4, Within, SenderTypes
  <2> QED  BY <2>1, <2>2
<1>6. MailType'
  <2>1. /\ due \subseteq DOMAIN mailbox /\ dropped \subseteq DOMAIN mailbox /\ plan \in Plans
        /\ beyond \subseteq DOMAIN mailbox /\ misread \subseteq DOMAIN mailbox
    BY TypeParts DEF MailType
  <2> QED  BY <2>1, <1>1, <1>4, <1>5 DEF MailType, Grown
<1>7. SenderType'
  <2>1. pc' \in [Callers -> CallSteps]
    <3>1. \E b \in CallSteps : pc' = [pc EXCEPT ![c] = b]
      <4>1. CASE Release(c)
        BY <4>1, SenderTypes DEF Release, CallSteps
      <4>2. CASE ~Release(c)
        BY <4>2 DEF SenderStep, Crash, Precheck, AcquireLock, LockRefused, NotSent, Send,
           SendUnknown, PostCheck, Record, RecordRefused, UpdateThread, StatementFails, CallSteps
      <4> QED  BY <4>1, <4>2
    <3> QED  BY <3>1, SenderTypes
  <2>2. calls' \in [Callers -> Nat] /\ \A d \in Callers : calls'[d] <= plan.calls[d]
    <3>1. calls' = calls \/ (calls[c] < plan.calls[c] /\ calls' = [calls EXCEPT ![c] = @ + 1])
      BY DEF SenderStep, Crash, Precheck, AcquireLock, LockRefused, NotSent, Send, SendUnknown,
         PostCheck, Record, RecordRefused, UpdateThread, StatementFails, Release, Reads
    <3>2. plan.calls \in [Callers -> Nat] /\ calls \in [Callers -> Nat]
          /\ \A d \in Callers : calls[d] <= plan.calls[d]
      BY Sizes, TypeParts DEF SenderType
    <3> QED  BY <3>1, <3>2
  <2>3. raced' \in [Callers -> BOOLEAN]
    <3>1. \E b \in BOOLEAN : raced' = raced \/ raced' = [raced EXCEPT ![c] = b]
      <4>1. CASE PostCheck(c)
        <5>1. raced' = [raced EXCEPT ![c] = (status[SeqOf(c)] # "active")]
          BY <4>1 DEF PostCheck
        <5>2. (status[SeqOf(c)] # "active") \in BOOLEAN
          OBVIOUS
        <5> QED  BY <5>1, <5>2
      <4>2. CASE ~PostCheck(c)
        <5>1. raced' = raced \/ raced' = [raced EXCEPT ![c] = FALSE]
          BY <4>2 DEF SenderStep, Crash, Precheck, AcquireLock, LockRefused, NotSent, Send,
             SendUnknown, Record, RecordRefused, UpdateThread, StatementFails, Release
        <5> QED  BY <5>1
      <4> QED  BY <4>1, <4>2
    <3> QED  BY <3>1, SenderTypes
  <2>4. outcome' \in [Callers -> {"idle", "done"}]
    <3>1. outcome' = outcome \/ \E b \in {"idle", "done"} : outcome' = [outcome EXCEPT ![c] = b]
      BY DEF SenderStep, Crash, Precheck, AcquireLock, LockRefused, NotSent, Send, SendUnknown,
         PostCheck, Record, RecordRefused, UpdateThread, StatementFails, Release
    <3> QED  BY <3>1, SenderTypes
  <2>5. overrun' \subseteq Callers
    <3>1. overrun' \in {overrun, overrun \ {c}}
      BY DEF SenderStep, Crash, Precheck, AcquireLock, LockRefused, NotSent, Send, SendUnknown,
         PostCheck, Record, RecordRefused, UpdateThread, StatementFails, Release, Reads
    <3> QED  BY <3>1, SenderTypes
  <2> QED  BY <1>1, <1>5, <2>1, <2>2, <2>3, <2>4, <2>5 DEF SenderType
<1>8. TableType'
  <2>1. lock' \in [Followups -> [holder : Callers \cup {Free, Gone}, fresh : BOOLEAN]]
    <3> DEFINE Lock == [holder : Callers \cup {Free, Gone}, fresh : BOOLEAN]
    <3>1. CASE AcquireLock(c)
      <4>1. lock' = [lock EXCEPT ![SeqOf(c)] = [holder |-> c, fresh |-> TRUE]]
        BY <3>1 DEF AcquireLock
      <4> QED  BY <4>1, SenderTypes
    <3>2. CASE Release(c)
      <4>1. lock' \in {lock, [lock EXCEPT ![SeqOf(c)] = [holder |-> Free, fresh |-> FALSE]]}
        BY <3>2 DEF Release, Unlock
      <4>2. [holder |-> Free, fresh |-> FALSE] \in Lock
        OBVIOUS
      <4>3. CASE lock' = lock
        BY <4>3, SenderTypes
      <4>4. CASE lock' = [lock EXCEPT ![SeqOf(c)] = [holder |-> Free, fresh |-> FALSE]]
        <5> HIDE DEF Lock
        <5>1. lock \in [Followups -> Lock]
          BY SenderTypes DEF Lock
        <5>2. lock' \in [Followups -> Lock]
          BY <4>2, <4>4, <5>1
        <5> QED  BY <5>2 DEF Lock
      <4> QED  BY <4>1, <4>3, <4>4
    <3>3. CASE Crash(c)
      <4>1. lock' = [s \in Followups |-> IF lock[s].holder = c
                                       THEN [lock[s] EXCEPT !.holder = Gone] ELSE lock[s]]
        BY <3>3 DEF Crash
      <4>2. ASSUME NEW s \in Followups
            PROVE  /\ lock[s] \in Lock
                   /\ [lock[s] EXCEPT !.holder = Gone] \in Lock
        BY SenderTypes
      <4> QED  BY <4>1, <4>2
    <3>4. CASE ~AcquireLock(c) /\ ~Release(c) /\ ~Crash(c)
      <4>1. lock' = lock
        BY <3>4 DEF SenderStep, Precheck, LockRefused, NotSent, Send, SendUnknown, PostCheck,
           Record, RecordRefused, UpdateThread, StatementFails, Reads, records
      <4> QED  BY <4>1, SenderTypes
    <3> QED  BY <3>1, <3>2, <3>3, <3>4
  <2>2. thread' \in [Conversations -> 0 .. MaxMail]
    <3>1. thread' = thread \/ thread' = [thread EXCEPT ![plan.home[SeqOf(c)]] = sent[c]]
      BY DEF SenderStep, Crash, Precheck, AcquireLock, LockRefused, NotSent, Send, SendUnknown,
         PostCheck, Record, RecordRefused, UpdateThread, StatementFails, Release, Reads, records
    <3>2. sent[c] \in 0 .. MaxMail
      <4>1. /\ sent[c] \in 0 .. Len(mailbox) /\ Len(mailbox) \in Nat /\ Len(mailbox) <= plan.mail
            /\ plan.mail \in Nat /\ plan.mail <= MaxMail /\ MaxMail \in Nat
        BY SenderTypes, Sizes
      <4> QED  BY <4>1
    <3>3. thread \in [Conversations -> 0 .. MaxMail]
      BY TypeParts DEF TableType
    <3> QED  BY <3>1, <3>2, <3>3
  <2>3. /\ outbound' \subseteq Records
        /\ \A o, x \in outbound' : o.attempt = x.attempt \/ o.mail = x.mail => o = x
    <3>1. CASE Record(c)
      <4>1. PICK named \in BOOLEAN : outbound' = outbound \cup {Outbound(c, named)}
        BY <3>1 DEF Record
      <4> DEFINE r == Outbound(c, named)
      <4>2. pc[c] = "record" /\ ~Recorded(plan.attempt[c])
        BY <3>1 DEF Record
      <4>3. /\ \A o \in outbound : o.attempt # r.attempt /\ o.mail # r.mail
            /\ sent[c] # 0
        BY <4>2 DEF Recorded, Outbound, SentIsThere
      <4>4. sent[c] \in Numbers
        <5>1. /\ sent[c] \in 0 .. Len(mailbox) /\ Len(mailbox) \in Nat /\ Len(mailbox) <= plan.mail
              /\ plan.mail \in Nat /\ plan.mail <= MaxMail /\ MaxMail \in Nat
          BY SenderTypes, Sizes
        <5> QED  BY <5>1, <4>3 DEF Numbers
      <4>5. r \in Records
        BY <4>4, SenderTypes, Sizes DEF Outbound, Records
      <4>6. outbound \subseteq Records
            /\ \A o, x \in outbound : o.attempt = x.attempt \/ o.mail = x.mail => o = x
        BY TypeParts DEF TableType
      <4> QED  BY <4>1, <4>3, <4>5, <4>6
    <3>2. CASE ~Record(c)
      <4>1. outbound' = outbound
        BY <3>2 DEF SenderStep, Crash, Precheck, AcquireLock, LockRefused, NotSent, Send, SendUnknown,
           PostCheck, RecordRefused, UpdateThread, StatementFails, Release, Reads, records
      <4> QED  BY <4>1, TypeParts DEF TableType
    <3> QED  BY <3>1, <3>2
  <2> QED  BY <1>1, <2>1, <2>2, <2>3, SenderTypes DEF TableType
<1> QED  BY <1>2, <1>3, <1>6, <1>7, <1>8, PartsType

LEMMA LapseType ==
    ASSUME TypeOK, NEW s \in Followups, Lapse(s)
    PROVE  TypeOK'
<1> DEFINE Lock == [holder : Callers \cup {Free, Gone}, fresh : BOOLEAN]
<1>1. /\ UNCHANGED <<plan, mailbox, due, status, thread, outbound, event, cursor, cursorSet>>
      /\ UNCHANGED <<baseline, dropped, beyond, misread, pc, calls, sent, raced, outcome, late, faults>>
      /\ UNCHANGED <<step, from, last, ahead, match>>
      /\ lock' = [lock EXCEPT ![s].fresh = FALSE]
      /\ overrun' = overrun \cup ({lock[s].holder} \cap Callers)
  BY DEF Lapse, NotSending, mail, inbox, doubts, poller
<1>2. lock' \in [Followups -> Lock]
  <2>1. lock \in [Followups -> Lock]
    BY TypeParts DEF TableType
  <2>2. [lock[s] EXCEPT !.fresh = FALSE] \in Lock
    BY <2>1
  <2> HIDE DEF Lock
  <2> QED  BY <1>1, <2>1, <2>2
<1>3. overrun' \subseteq Callers
  BY <1>1, TypeParts DEF SenderType
<1>4. MailType' /\ TableType' /\ InboxType' /\ PollerType'
  BY <1>1, <1>2, TypeParts DEF MailType, TableType, InboxType, PollerType
<1>5. SenderType'
  BY <1>1, <1>3, TypeParts DEF SenderType
<1>6. faults' \in 0 .. plan'.faults
  BY <1>1 DEF TypeOK
<1> QED  BY <1>4, <1>5, <1>6, PartsType

\* A message is placed with a sequence, with none, or with several, whichever
\* of its lookups are heard.
LEMMA Placed ==
    ASSUME NEW i, NEW heard \in SUBSET Evidence(i)
    PROVE  Correlate(heard) \in Matches
<1> DEFINE found == UNION heard
<1>1. found \subseteq Followups
  <2>1. \A s : Siblings(s) \subseteq Followups
    BY DEF Siblings
  <2> DEFINE A == {Siblings(s) : s \in {x \in Followups : thread[plan.home[x]] = Thread(i)}}
             B == {Siblings(o.seq) : o \in {x \in outbound :
                       mailbox[i].by = "them" /\ x.named /\ x.mail = Thread(i)}}
  <2>2. heard \subseteq A \cup B
    BY DEF Evidence
  <2>3. \A X \in A : X \subseteq Followups
    BY <2>1
  <2>4. \A X \in B : X \subseteq Followups
    BY <2>1
  <2> HIDE DEF A, B
  <2>5. \A x : x \in found => \E X : X \in A \cup B /\ x \in X
    BY <2>2, Zenon
  <2> QED  BY <2>3, <2>4, <2>5, Zenon
<1> HIDE DEF found
<1>2. found # {} => (CHOOSE s \in found : TRUE) \in found
  OBVIOUS
<1>3. Correlate(heard) \in {NoMatch, Ambiguous, CHOOSE s \in found : TRUE}
      /\ (Correlate(heard) \notin {NoMatch, Ambiguous} => found # {})
  BY DEF Correlate, found
<1> QED  BY <1>1, <1>2, <1>3 DEF Matches

LEMMA PollersType ==
    ASSUME TypeOK, PollInv, NEW p \in Pollers, PollerStep(p) \/ PollStops(p)
    PROVE  TypeOK'
<1> DEFINE n == Len(mailbox)
<1>1. /\ UNCHANGED <<plan, mailbox, due, lock, thread, outbound, pc, calls, sent, raced, outcome>>
      /\ UNCHANGED <<overrun, late>>
  BY PollerFrame
<1>2. /\ n \in Nat /\ DOMAIN mailbox = 1 .. n
      /\ from[p] \in 0 .. n /\ last[p] \in 0 .. n /\ ahead[p] \in 0 .. n /\ cursor \in 0 .. n
      /\ match[p] \in Matches
  BY PollTypes
<1>3. step[p] \in {"reserve", "transition"} => from[p] + 1 \in 1 .. n
  <2>1. step[p] \in {"reserve", "transition"} => from[p] < last[p]
    BY DEF PollInv, OnThePage
  <2> QED  BY <1>2, <2>1
<1>4. faults' \in 0 .. plan'.faults
  <2>1. faults' = faults \/ (faults < plan.faults /\ faults' = faults + 1)
    BY DEF PollerStep, PollStops, FirstPoll, CurrentHistory, SaveBaseline, ListHistory, FetchMessage,
       MessageGone, Reserve, Duplicate, Transition, TransitionFails, SaveCursor, Fault
  <2>2. faults \in 0 .. plan.faults /\ plan.faults \in Nat
    BY Sizes DEF TypeOK
  <2>3. plan'.faults = plan.faults
    BY <1>1
  <2> QED  BY <2>1, <2>2, <2>3
<1>5. dropped' \subseteq DOMAIN mailbox
  <2>1. dropped' = dropped \/ (step[p] = "transition" /\ dropped' = dropped \cup {from[p] + 1})
    BY DEF PollerStep, PollStops, FirstPoll, CurrentHistory, SaveBaseline, ListHistory, FetchMessage,
       MessageGone, Reserve, Duplicate, Transition, TransitionFails, SaveCursor, Drop, Looks, inbox, At
  <2>2. dropped \subseteq DOMAIN mailbox
    BY TypeParts DEF MailType
  <2> QED  BY <1>2, <1>3, <2>1, <2>2
<1>11. beyond' \subseteq DOMAIN mailbox
  <2>1. beyond' = beyond \/ beyond' = beyond \cup (last[p] + 1 .. ahead[p])
    BY DEF PollerStep, PollStops, FirstPoll, CurrentHistory, SaveBaseline, ListHistory, FetchMessage,
       MessageGone, Reserve, Duplicate, Transition, TransitionFails, SaveCursor, PassBeyond, Drop,
       Looks, inbox, doubts
  <2>2. last[p] + 1 .. ahead[p] \subseteq 1 .. n
    BY <1>2
  <2>3. beyond \subseteq DOMAIN mailbox
    BY TypeParts DEF MailType
  <2> QED  BY <1>2, <2>1, <2>2, <2>3
<1>12. misread' \subseteq DOMAIN mailbox
  <2>1. misread' = misread \/ (from[p] < last[p] /\ misread' = misread \cup {from[p] + 1})
    BY DEF PollerStep, PollStops, FirstPoll, CurrentHistory, SaveBaseline, ListHistory, FetchMessage,
       MessageGone, Reserve, Duplicate, Transition, TransitionFails, SaveCursor, Drop, Looks, inbox,
       doubts
  <2>2. from[p] < last[p] => from[p] + 1 \in 1 .. n
    BY <1>2
  <2>3. misread \subseteq DOMAIN mailbox
    BY TypeParts DEF MailType
  <2> QED  BY <1>2, <2>1, <2>2, <2>3
<1>6. MailType'
  BY <1>1, <1>5, <1>11, <1>12, TypeParts DEF MailType
<1>7. SenderType'
  BY <1>1, TypeParts DEF SenderType
<1>8. TableType'
  <2>1. status' \in [Followups -> {"active", "replied"}]
    <3>1. status' = status \/ status' = [status EXCEPT ![match[p]] = "replied"]
      BY DEF PollerStep, PollStops, FirstPoll, CurrentHistory, SaveBaseline, ListHistory,
         FetchMessage, MessageGone, Reserve, Duplicate, Transition, TransitionFails,
         SaveCursor, Drop, Looks
    <3> QED  BY <3>1, PollTypes
  <2> QED  BY <1>1, <2>1, TypeParts DEF TableType
<1>9. InboxType'
  <2>1. event' \in [Numbers -> Matches \cup {"none"}]
    <3>1. event' = event \/ event' = [event EXCEPT ![from[p] + 1] = match[p]]
      BY AtHand
    <3> QED  BY <1>2, <3>1, PollTypes
  <2>2. cursor' \in {cursor, ahead[p]} /\ baseline' \in {baseline, ahead[p]}
    BY DEF PollerStep, PollStops, FirstPoll, CurrentHistory, SaveBaseline, ListHistory, FetchMessage,
       MessageGone, Reserve, Duplicate, Transition, TransitionFails, SaveCursor, Drop, Looks, inbox
  <2>3. cursorSet' = cursorSet \/ cursorSet' = TRUE
    BY DEF PollerStep, PollStops, FirstPoll, CurrentHistory, SaveBaseline, ListHistory, FetchMessage,
       MessageGone, Reserve, Duplicate, Transition, TransitionFails, SaveCursor, Drop, Looks, inbox
  <2>4. cursorSet \in BOOLEAN /\ baseline \in 0 .. n
    BY TypeParts DEF InboxType
  <2> QED  BY <1>1, <1>2, <2>1, <2>2, <2>3, <2>4 DEF InboxType
<1>10. PollerType'
  <2>1. step' \in [Pollers -> PollSteps]
    <3>1. \E b \in PollSteps : step' = [step EXCEPT ![p] = b]
      BY DEF PollerStep, PollStops, FirstPoll, CurrentHistory, SaveBaseline, ListHistory,
         FetchMessage, MessageGone, Reserve, Duplicate, Transition, TransitionFails,
         SaveCursor, Step, Return,
         PollSteps
    <3> QED  BY <3>1, PollTypes
  <2>2. from' \in [Pollers -> 0 .. n]
    <3>1. \/ from' = from \/ from' = [from EXCEPT ![p] = 0] \/ from' = [from EXCEPT ![p] = cursor]
          \/ step[p] \in {"reserve", "transition"} /\ from' = [from EXCEPT ![p] = from[p] + 1]
      BY DEF PollerStep, PollStops, FirstPoll, CurrentHistory, SaveBaseline, ListHistory,
         FetchMessage, MessageGone, Reserve, Duplicate, Transition, TransitionFails,
         SaveCursor, OnTo, Return,
         Step, At
    <3>2. 0 \in 0 .. n /\ (from[p] + 1 \in 1 .. n => from[p] + 1 \in 0 .. n)
      BY <1>2
    <3> QED  BY <1>2, <1>3, <3>1, <3>2, PollTypes
  <2>3. last' \in [Pollers -> 0 .. n]
    <3>1. \E b \in 0 .. n : last' = last \/ last' = [last EXCEPT ![p] = b]
      <4>1. CASE ListHistory(p)
        <5>1. PICK b \in cursor .. n : last' = [last EXCEPT ![p] = b]
          BY <4>1 DEF ListHistory
        <5>2. b \in 0 .. n
          BY <1>2
        <5> QED  BY <5>1, <5>2
      <4>2. CASE ~ListHistory(p)
        <5>1. last' = last \/ last' = [last EXCEPT ![p] = 0]
          BY <4>2 DEF PollerStep, PollStops, FirstPoll, CurrentHistory, SaveBaseline, FetchMessage,
             MessageGone, Reserve, Duplicate, Transition, TransitionFails, SaveCursor, Return
        <5>2. 0 \in 0 .. n
          BY <1>2
        <5> QED  BY <5>1, <5>2
      <4> QED  BY <4>1, <4>2
    <3> QED  BY <3>1, PollTypes
  <2>4. ahead' \in [Pollers -> 0 .. n]
    <3>1. \/ ahead' = ahead \/ ahead' = [ahead EXCEPT ![p] = 0]
          \/ ahead' = [ahead EXCEPT ![p] = n]
      BY DEF PollerStep, PollStops, FirstPoll, CurrentHistory, SaveBaseline, ListHistory,
         FetchMessage, MessageGone, Reserve, Duplicate, Transition, TransitionFails, SaveCursor, Return
    <3>2. 0 \in 0 .. n /\ n \in 0 .. n
      BY <1>2
    <3> QED  BY <3>1, <3>2, PollTypes
  <2>5. match' \in [Pollers -> Matches]
    <3>1. \E b \in Matches : match' = match \/ match' = [match EXCEPT ![p] = b]
      <4>1. CASE FetchMessage(p)
        <5>1. PICK heard \in SUBSET Evidence(from[p] + 1) :
                match' = [match EXCEPT ![p] = Correlate(heard)]
          BY <4>1 DEF FetchMessage
        <5>2. Correlate(heard) \in Matches
          BY Placed
        <5> QED  BY <5>1, <5>2
      <4>2. CASE ~FetchMessage(p)
        <5>1. match' = match \/ match' = [match EXCEPT ![p] = NoMatch]
          BY <4>2 DEF PollerStep, PollStops, FirstPoll, CurrentHistory, SaveBaseline, ListHistory,
             MessageGone, Reserve, Duplicate, Transition, TransitionFails, SaveCursor, OnTo, Return
        <5> QED  BY <5>1 DEF Matches
      <4> QED  BY <4>1, <4>2
    <3> QED  BY <3>1, PollTypes
  <2> QED  BY <1>1, <2>1, <2>2, <2>3, <2>4, <2>5 DEF PollerType
<1> QED  BY <1>4, <1>6, <1>7, <1>8, <1>9, <1>10, PartsType

LEMMA ReplyType ==
    ASSUME TypeOK, ThreadsExist, NEW i \in Numbers, Reply(i)
    PROVE  TypeOK'
<1>1. /\ UNCHANGED <<plan, status, lock, thread, outbound, event, cursor, cursorSet, baseline>>
      /\ UNCHANGED <<dropped, beyond, misread, pc, calls, sent, raced, outcome, overrun, late, faults>>
      /\ UNCHANGED <<step, from, last, ahead, match>>
      /\ due' \in {due, due \cup {Len(mailbox) + 1}}
  BY DEF Reply, records, inbox, doubts, sender, poller
<1>2. Grown /\ Len(mailbox') = Len(mailbox) + 1
  BY Replied
<1>3. InboxType' /\ PollerType'
  BY <1>1, <1>2, PollerTypeStands
<1>4. MailType'
  <2>1. /\ late \subseteq DOMAIN mailbox /\ due \subseteq DOMAIN mailbox
        /\ dropped \subseteq DOMAIN mailbox /\ plan \in Plans
        /\ beyond \subseteq DOMAIN mailbox /\ misread \subseteq DOMAIN mailbox
    BY TypeParts DEF MailType
  <2>2. Len(mailbox) + 1 \in DOMAIN mailbox'
    BY <1>2, Within, Sizes
  <2>3. late' \subseteq DOMAIN mailbox' /\ due' \subseteq DOMAIN mailbox'
        /\ dropped' \subseteq DOMAIN mailbox' /\ beyond' \subseteq DOMAIN mailbox'
        /\ misread' \subseteq DOMAIN mailbox'
    BY <1>1, <1>2, <2>1, <2>2, Within
  <2> QED  BY <1>1, <1>2, <2>1, <2>3 DEF MailType, Grown
<1>5. SenderType'
  <2>1. sent' \in [Callers -> 0 .. Len(mailbox')]
    BY <1>1, <1>2, Within, TypeParts DEF SenderType
  <2> QED  BY <1>1, <2>1, TypeParts DEF SenderType
<1>6. TableType'
  BY <1>1, TypeParts DEF TableType
<1>7. faults' \in 0 .. plan'.faults
  BY <1>1 DEF TypeOK
<1> QED  BY <1>3, <1>4, <1>5, <1>6, <1>7, PartsType
-----------------------------------------------------------------------------
(* Replies that are due *)

\* Messages of the mailbox stay as they are.
LEMMA OwnersStand ==
    ASSUME TypeOK, ThreadsExist, Grown, NEW i \in DOMAIN mailbox
    PROVE  /\ i \in DOMAIN mailbox' /\ mailbox'[i] = mailbox[i]
           /\ Thread(i)' = Thread(i) /\ Owner(i)' = Owner(i)
           /\ Thread(i) \in DOMAIN mailbox /\ Owner(i) \in Followups
<1>1. Thread(i) \in DOMAIN mailbox
  BY DEF ThreadsExist
<1>2. \A k \in DOMAIN mailbox : mailbox'[k] = mailbox[k]
  BY DEF Grown
<1>3. Owner(i) \in Followups
  <2>1. mailbox[Thread(i)] \in Message
    BY <1>1, Sizes
  <2> QED  BY <2>1 DEF Owner, Message
<1>4. i \in DOMAIN mailbox'
  <2>1. Len(mailbox) \in Nat /\ DOMAIN mailbox = 1 .. Len(mailbox)
    BY Sizes
  <2>2. DOMAIN mailbox' = 1 .. Len(mailbox') /\ Len(mailbox') \in {Len(mailbox), Len(mailbox) + 1}
    BY DEF Grown
  <2>3. ASSUME NEW k \in Nat, NEW l \in {k, k + 1}
        PROVE  1 .. k \subseteq 1 .. l
    OBVIOUS
  <2>4. DOMAIN mailbox \subseteq DOMAIN mailbox'
    BY <2>1, <2>2, <2>3
  <2> QED  BY <2>4
<1>5. mailbox'[i] = mailbox[i] /\ mailbox'[Thread(i)] = mailbox[Thread(i)]
  BY <1>1, <1>2
<1> QED  BY <1>1, <1>3, <1>4, <1>5 DEF Thread, Owner

\* What is recorded of a message names its sequence, and the thread of a
\* conversation begins with a message of it.
LEMMA SenderTells ==
    ASSUME TypeOK, ThreadsExist, SendInv, Grown, MessagesTell,
           NEW c \in Callers, SenderStep(c) \/ Crash(c)
    PROVE  MessagesTell'
<1> DEFINE n == Len(mailbox)
<1>1. /\ n \in Nat /\ DOMAIN mailbox = 1 .. n
      /\ \A d \in Callers : sent[d] \in 0 .. n /\ SeqOf(d) \in Followups
      /\ sent \in [Callers -> 0 .. n]
      /\ thread \in [Conversations -> 0 .. MaxMail]
      /\ plan.home \in [Followups -> Conversations]
      /\ \A o \in outbound : o.mail \in DOMAIN mailbox
  <2>1. \A o \in outbound : o.mail \in Numbers /\ o.mail <= n
    BY DEF TypeOK, SendInv, SentIsThere
  <2>2. \A o \in outbound : o.mail \in 1 .. n
    BY <2>1, SenderTypes DEF Numbers
  <2> QED  BY <2>2, SenderTypes, Sizes DEF TypeOK
<1>2. /\ UNCHANGED plan
      /\ \A d \in Callers : (SeqOf(d))' = SeqOf(d)
      /\ \A k \in DOMAIN mailbox : k \in DOMAIN mailbox' /\ mailbox'[k] = mailbox[k]
  BY SenderFrame, OwnersStand DEF SeqOf
<1>3. /\ \A d \in Callers : sent[d] # 0 => mailbox[sent[d]].seq = SeqOf(d)
      /\ \A o \in outbound : mailbox[o.mail].seq = o.seq
      /\ \A v \in Conversations : thread[v] # 0 =>
            thread[v] \in DOMAIN mailbox /\ plan.home[mailbox[thread[v]].seq] = v
  BY DEF MessagesTell
<1>4. ASSUME NEW d \in Callers, sent'[d] # 0
      PROVE  mailbox'[sent'[d]].seq = SeqOf(d)
  <2>1. CASE sent'[d] = sent[d]
    BY <2>1, <1>1, <1>2, <1>3, <1>4
  <2>2. CASE sent'[d] # sent[d]
    <3>1. d = c /\ Deliver(c)
      <4>1. d = c
        BY <2>2, SenderFrame
      <4>2. CASE Send(c) \/ SendUnknown(c)
        BY <4>1, <4>2, <2>2 DEF Send, SendUnknown
      <4>3. CASE ~Send(c) /\ ~SendUnknown(c)
        <5>1. sent' = sent \/ sent' = [sent EXCEPT ![c] = 0]
          BY <4>3 DEF SenderStep, Crash, Precheck, AcquireLock, LockRefused, NotSent, PostCheck,
             Record, RecordRefused, UpdateThread, StatementFails, Release, Reads
        <5> QED  BY <5>1, <4>1, <2>2, <1>1, <1>4
      <4> QED  BY <4>1, <4>2, <4>3
    <3> DEFINE m == [by |-> "us", thread |-> n + 1, seq |-> SeqOf(c)]
    <3>2. n + 1 <= plan.mail /\ mailbox' = Append(mailbox, m) /\ sent' = [sent EXCEPT ![c] = n + 1]
      BY <3>1 DEF Deliver
    <3>3. m \in Message
      BY <3>2, <1>1, Sizes DEF Message, Numbers
    <3>4. mailbox'[n + 1] = m
      BY <3>2, <3>3, Appended, Sizes
    <3>5. sent'[c] = n + 1
      BY <3>2, <1>1
    <3> QED  BY <3>1, <3>4, <3>5
  <2> QED  BY <2>1, <2>2
<1>5. ASSUME NEW o \in outbound'
      PROVE  mailbox'[o.mail].seq = o.seq
  <2>1. CASE o \in outbound
    BY <2>1, <1>1, <1>2, <1>3
  <2>2. CASE o \notin outbound
    <3>1. Record(c)
      BY <2>2, <1>5 DEF SenderStep, Crash, Precheck, AcquireLock, LockRefused, NotSent, Send,
         SendUnknown, PostCheck, RecordRefused, UpdateThread, StatementFails, Release, Reads, records
    <3>2. o.mail = sent[c] /\ o.seq = SeqOf(c) /\ pc[c] = "record"
      BY <3>1, <2>2, <1>5 DEF Record, Move, Outbound
    <3>3. sent[c] # 0
      BY <3>2 DEF SendInv, SentIsThere
    <3>4. sent[c] \in DOMAIN mailbox
      BY <3>3, <1>1
    <3> QED  BY <3>2, <3>3, <3>4, <1>2, <1>3
  <2> QED  BY <2>1, <2>2
<1>6. ASSUME NEW v \in Conversations, thread'[v] # 0
      PROVE  thread'[v] \in DOMAIN mailbox' /\ plan.home[mailbox'[thread'[v]].seq] = v
  <2>1. CASE thread'[v] = thread[v]
    BY <2>1, <1>2, <1>3, <1>6
  <2>2. CASE thread'[v] # thread[v]
    <3>1. UpdateThread(c)
      BY <2>2 DEF SenderStep, Crash, Precheck, AcquireLock, LockRefused, NotSent, Send,
         SendUnknown, PostCheck, Record, RecordRefused, StatementFails, Release, Reads, records
    <3>2. thread' = [thread EXCEPT ![plan.home[SeqOf(c)]] = sent[c]]
      BY <3>1 DEF UpdateThread
    <3>3. v = plan.home[SeqOf(c)] /\ thread'[v] = sent[c]
      BY <3>2, <2>2, <1>1
    <3>4. sent[c] \in DOMAIN mailbox /\ mailbox[sent[c]].seq = SeqOf(c)
      BY <3>3, <1>1, <1>3, <1>6
    <3> QED  BY <3>3, <3>4, <1>2
  <2> QED  BY <2>1, <2>2
<1> QED  BY <1>2, <1>4, <1>5, <1>6 DEF MessagesTell

\* Nobody else sends or records.
LEMMA TellsStands ==
    ASSUME TypeOK, ThreadsExist, SendInv, Grown, MessagesTell,
           UNCHANGED <<plan, sent, outbound, thread>>
    PROVE  MessagesTell'
<1>1. \A k \in DOMAIN mailbox : k \in DOMAIN mailbox' /\ mailbox'[k] = mailbox[k]
  BY OwnersStand
<1>2. \A d \in Callers : sent[d] # 0 => sent[d] \in DOMAIN mailbox
  BY SenderTypes
<1>3. \A o \in outbound : o.mail \in DOMAIN mailbox
  <2>1. \A o \in outbound : o.mail \in Numbers /\ o.mail <= Len(mailbox)
    BY DEF TypeOK, SendInv, SentIsThere
  <2> QED  BY <2>1, SenderTypes DEF Numbers
<1> QED  BY <1>1, <1>2, <1>3 DEF MessagesTell, SeqOf

\* Lookups that find one sequence between them place the reply in it.
LEMMA OneFound ==
    ASSUME NEW heard, NEW x, UNION heard = {x}
    PROVE  Correlate(heard) = x
<1> DEFINE y == CHOOSE s \in UNION heard : TRUE
<1>1. y = x
  <2>1. y \in UNION heard
    OBVIOUS
  <2> QED  BY <2>1
<1>2. Cardinality(UNION heard) = 1
  BY FS_Singleton
<1>3. ~(Cardinality(UNION heard) > 1)
  BY <1>2
<1> QED  BY <1>1, <1>3 DEF Correlate

\* All that the lookups find of a reply that is due is its own sequence.
LEMMA DueIsFound ==
    ASSUME TypeOK, ThreadsExist, MessagesTell, DueAreNamed, NEW i \in due
    PROVE  Correlate(Evidence(i)) = Owner(i) /\ Owner(i) \in Followups
<1> DEFINE t == Thread(i)
           S == Siblings(Owner(i))
           A == {Siblings(s) : s \in {x \in Followups : thread[plan.home[x]] = t}}
           B == {Siblings(o.seq) : o \in {x \in outbound :
                     mailbox[i].by = "them" /\ x.named /\ x.mail = t}}
<1>1. /\ t \in DOMAIN mailbox /\ Owner(i) \in Followups /\ t # 0
      /\ plan.home \in [Followups -> Conversations]
  <2>1. i \in DOMAIN mailbox
    BY DEF TypeOK
  <2>2. t \in DOMAIN mailbox
    BY <2>1 DEF ThreadsExist
  <2>3. mailbox[t] \in Message /\ t # 0
    BY <2>2, Sizes
  <2> QED  BY <2>2, <2>3, Sizes DEF Owner, Message
<1>2. \A X \in A : X = S
  <2>1. ASSUME NEW x \in Followups, thread[plan.home[x]] = t
        PROVE  plan.home[Owner(i)] = plan.home[x]
    BY <2>1, <1>1 DEF MessagesTell, Owner
  <2>2. ASSUME NEW x \in Followups, thread[plan.home[x]] = t
        PROVE  Siblings(x) = S
    BY <2>1, <2>2 DEF Siblings
  <2> QED  BY <2>2
<1>3. \A X \in B : X = S
  <2>1. \A o \in outbound : o.mail = t => o.seq = Owner(i)
    BY DEF MessagesTell, Owner
  <2> QED  BY <2>1
<1>4. S \in B
  <2>1. PICK o \in outbound : o.mail = t /\ o.named /\ mailbox[i].by = "them"
    BY DEF DueAreNamed
  <2>2. o.seq = Owner(i)
    BY <2>1 DEF MessagesTell, Owner
  <2> QED  BY <2>1, <2>2
<1>5. Evidence(i) = A \cup B
  BY DEF Evidence
<1> HIDE DEF A, B
<1>6. UNION Evidence(i) = S
  BY <1>2, <1>3, <1>4, <1>5
<1>7. S = {Owner(i)}
  BY DEF DueAreNamed
<1> QED  BY <1>1, <1>6, <1>7, OneFound

\* Once a reply is due it can be placed for good.
LEMMA DueStands ==
    ASSUME TypeOK, ThreadsExist, Grown, DueAreNamed, UNCHANGED <<plan, due>>,
           outbound \subseteq outbound'
    PROVE  DueAreNamed'
<1>1. ASSUME NEW i \in due
      PROVE  /\ mailbox'[i].by = "them" /\ (Siblings(Owner(i)) = {Owner(i)})'
             /\ \E o \in outbound' : o.mail = Thread(i)' /\ o.named
  <2>1. i \in DOMAIN mailbox
    BY <1>1 DEF TypeOK
  <2>2. mailbox'[i] = mailbox[i] /\ Thread(i)' = Thread(i) /\ Owner(i)' = Owner(i)
    BY <2>1, OwnersStand
  <2>3. /\ mailbox[i].by = "them" /\ Siblings(Owner(i)) = {Owner(i)}
        /\ \E o \in outbound : o.mail = Thread(i) /\ o.named
    BY <1>1 DEF DueAreNamed
  <2>4. (Siblings(Owner(i)))' = Siblings(Owner(i))
    BY <2>2 DEF Siblings
  <2> QED  BY <2>2, <2>3, <2>4
<1> QED  BY <1>1 DEF DueAreNamed

\* What a poll has found and reserved for it is not changed by others.
LEMMA MatchesStand ==
    ASSUME TypeOK, ThreadsExist, Grown, MatchesTell, EventsTell, UNCHANGED <<due, misread>>,
           UNCHANGED <<event, step, from, match>>
    PROVE  MatchesTell' /\ EventsTell'
<1>1. \A i \in due : Owner(i)' = Owner(i)
  BY OwnersStand DEF TypeOK
<1> QED  BY <1>1 DEF MatchesTell, EventsTell

LEMMA PollTells ==
    ASSUME IInv, HeardInv, NEW p \in Pollers, PollerStep(p) \/ PollStops(p)
    PROVE  HeardInv'
<1> USE DEF IInv, HeardInv
<1> DEFINE k == from[p] + 1
<1>1. /\ UNCHANGED <<plan, mailbox, due, thread, outbound, sent>>
      /\ \A q \in Pollers \ {p} :
           step'[q] = step[q] /\ from'[q] = from[q] /\ match'[q] = match[q]
  BY PollerFrame
<1>2. (\A i : Owner(i)' = Owner(i)) /\ due \subseteq DOMAIN mailbox
  <2>1. \A i : Owner(i)' = Owner(i)
    BY <1>1 DEF Owner, Thread
  <2>2. TypeOK
    OBVIOUS
  <2> QED  BY <2>1, <2>2 DEF TypeOK
<1>3. Grown
  BY <1>1, MailStays
<1>4. MessagesTell' /\ DueAreNamed'
  BY <1>1, <1>3, TellsStands, DueStands
<1>5. misread \subseteq misread'
  BY DEF PollerStep, PollStops, FirstPoll, CurrentHistory, SaveBaseline, ListHistory, FetchMessage,
     MessageGone, Reserve, Duplicate, Transition, TransitionFails, SaveCursor, Drop, Looks, inbox, doubts
<1>6. \/ event' = event
      \/ step[p] = "reserve" /\ event' = [event EXCEPT ![k] = match[p]]
  BY AtHand
<1>7. EventsTell'
  <2>1. ASSUME NEW i \in due, i \notin misread', event'[i] # "none"
        PROVE  event'[i] = Owner(i)
    <3>1. CASE event'[i] = event[i]
      BY <2>1, <3>1, <1>5 DEF EventsTell
    <3>2. CASE event'[i] # event[i]
      <4>1. step[p] = "reserve" /\ i = k /\ event'[i] = match[p]
        <5>1. event \in [Numbers -> Matches \cup {"none"}] /\ i \in Numbers
          BY <2>1, <1>2, PollTypes
        <5> QED  BY <5>1, <3>2, <1>6
      <4> QED  BY <4>1, <2>1, <1>5 DEF MatchesTell
    <3> QED  BY <3>1, <3>2
  <2> QED  BY <2>1, <1>1, <1>2 DEF EventsTell
<1>8. MatchesTell'
  <2>1. ASSUME NEW q \in Pollers, step'[q] \in {"reserve", "transition"},
               from'[q] + 1 \in due, from'[q] + 1 \notin misread'
        PROVE  match'[q] = Owner(from'[q] + 1)
    <3>1. CASE q # p
      BY <3>1, <2>1, <1>1, <1>5 DEF MatchesTell
    <3>2. CASE q = p /\ step'[p] = "transition"
      <4>1. step[p] = "reserve" /\ from'[p] = from[p] /\ match'[p] = match[p]
        BY <3>2, AtHand
      <4> QED  BY <4>1, <3>2, <2>1, <1>5 DEF MatchesTell
    <3>3. CASE q = p /\ step'[p] = "reserve"
      <4>1. FetchMessage(p)
        BY <3>3, PollTypes DEF PollerStep, PollStops, FirstPoll, CurrentHistory, SaveBaseline,
           ListHistory, MessageGone, Reserve, Duplicate, Transition, TransitionFails, SaveCursor,
           Step, Return
      <4>2. from' = from /\ (k \in misread' \/ match' = [match EXCEPT ![p] = Correlate(Evidence(k))])
        BY <4>1 DEF FetchMessage
      <4>3. match' = [match EXCEPT ![p] = Correlate(Evidence(k))] /\ k \in due
        BY <4>2, <2>1, <3>3
      <4>4. Correlate(Evidence(k)) = Owner(k)
        BY <4>3, DueIsFound
      <4>5. match'[p] = Owner(k)
        BY <4>3, <4>4, PollTypes
      <4> QED  BY <4>2, <4>5, <3>3
    <3> QED  BY <3>1, <3>2, <3>3, <2>1
  <2> QED  BY <2>1, <1>1, <1>2 DEF MatchesTell
<1> QED  BY <1>4, <1>7, <1>8

\* A reply that comes in has not been listed yet.
LEMMA ReplyTells ==
    ASSUME IInv, HeardInv, NEW j \in Numbers, Reply(j)
    PROVE  HeardInv'
<1> USE DEF IInv, HeardInv
<1> DEFINE n == Len(mailbox) + 1
           s == mailbox[j].seq
           m == [by |-> "them", thread |-> j, seq |-> s]
<1>1. /\ UNCHANGED <<plan, sent, outbound, thread, event, misread, step, from, match>>
      /\ j \in DOMAIN mailbox /\ n <= plan.mail /\ mailbox' = Append(mailbox, m)
      /\ due' = IF /\ Siblings(s) = {s}
                   /\ \E o \in outbound : o.mail = j /\ o.named
                THEN due \cup {n} ELSE due
  BY DEF Reply, records, inbox, doubts, sender, poller
<1>2. Grown
  BY Replied
<1>3. MessagesTell'
  BY <1>1, <1>2, TellsStands
<1>4. mailbox'[n] = m /\ mailbox'[j] = mailbox[j] /\ mailbox[j].thread \in DOMAIN mailbox
  <2>1. s \in Followups
    BY <1>1, Sizes DEF Message
  <2>2. m \in Message
    BY <2>1 DEF Message
  <2>3. mailbox'[n] = m
    BY <1>1, <2>2, Appended, Sizes
  <2> QED  BY <2>3, <1>1, <1>2, OwnersStand DEF Thread
<1>5. ASSUME NEW i \in due
      PROVE  /\ Owner(i)' = Owner(i) /\ Thread(i)' = Thread(i) /\ mailbox'[i] = mailbox[i]
             /\ i # n
  <2>1. i \in DOMAIN mailbox
    BY <1>5 DEF TypeOK
  <2> QED  BY <2>1, <1>2, OwnersStand, Sizes
<1>6. DueAreNamed'
  <2>1. ASSUME NEW i \in due
        PROVE  /\ mailbox'[i].by = "them" /\ (Siblings(Owner(i)) = {Owner(i)})'
               /\ \E o \in outbound : o.mail = Thread(i)' /\ o.named
    <3>1. /\ mailbox[i].by = "them" /\ Siblings(Owner(i)) = {Owner(i)}
          /\ \E o \in outbound : o.mail = Thread(i) /\ o.named
      BY <2>1 DEF DueAreNamed
    <3>2. (Siblings(Owner(i)))' = Siblings(Owner(i))
      BY <1>1, <1>5, <2>1 DEF Siblings
    <3> QED  BY <3>1, <3>2, <1>5, <2>1
  <2>2. ASSUME NEW i \in due', i = n
        PROVE  /\ mailbox'[i].by = "them" /\ (Siblings(Owner(i)) = {Owner(i)})'
               /\ \E o \in outbound : o.mail = Thread(i)' /\ o.named
    <3>1. Siblings(s) = {s} /\ \E o \in outbound : o.mail = j /\ o.named
      BY <2>2, <1>1, <1>5
    <3>2. mailbox'[i] = m
      BY <2>2, <1>4
    <3>3. Thread(i)' = j /\ mailbox'[i].by = "them"
      BY <3>2 DEF Thread
    <3>4. Owner(i)' = s
      BY <3>3, <1>4 DEF Owner
    <3> QED  BY <3>1, <3>3, <3>4, <1>1 DEF Siblings
  <2>3. \A i \in due' : i \in due \/ i = n
    BY <1>1
  <2>4. outbound' = outbound
    BY <1>1
  <2> QED  BY <2>1, <2>2, <2>3, <2>4 DEF DueAreNamed
<1>7. event[n] = "none" /\ \A p \in Pollers : step[p] \in {"reserve", "transition"} => from[p] + 1 # n
  <2>1. n \in Numbers /\ Len(mailbox) \in Nat
    BY <1>1, Sizes DEF Numbers
  <2>2. event[n] = "none"
    BY <2>1 DEF PollInv, EventsAreOfMail
  <2>3. ASSUME NEW p \in Pollers, step[p] \in {"reserve", "transition"}
        PROVE  from[p] + 1 # n
    <3>1. from[p] < last[p] /\ from[p] \in 0 .. Len(mailbox) /\ last[p] \in 0 .. Len(mailbox)
      BY <2>3, PollTypes DEF PollInv, OnThePage
    <3> QED  BY <2>1, <3>1
  <2> QED  BY <2>2, <2>3
<1>8. EventsTell'
  BY <1>1, <1>5, <1>7 DEF EventsTell
<1>9. MatchesTell'
  BY <1>1, <1>5, <1>7 DEF MatchesTell
<1> QED  BY <1>3, <1>6, <1>8, <1>9
-----------------------------------------------------------------------------
(* The invariants *)

LEMMA InitIsSound ==
    ASSUME Init
    PROVE  IInv /\ CursorInv /\ HeardInv
<1>1. /\ plan \in Plans /\ mailbox = <<>> /\ due = {} /\ outbound = {} /\ dropped = {} /\ late = {}
      /\ beyond = {} /\ misread = {} /\ overrun = {} /\ cursor = 0
      /\ cursorSet = FALSE /\ baseline = 0 /\ faults = 0
      /\ event = [i \in Numbers |-> "none"]
      /\ status = [s \in Followups |-> "active"] /\ thread = [v \in Conversations |-> 0]
      /\ lock = [s \in Followups |-> [holder |-> Free, fresh |-> FALSE]]
  BY DEF Init
<1>2. /\ pc = [c \in Callers |-> "idle"] /\ calls = [c \in Callers |-> 0]
      /\ sent = [c \in Callers |-> 0] /\ raced = [c \in Callers |-> FALSE]
      /\ outcome = [c \in Callers |-> "idle"]
  BY DEF Init
<1>3. /\ step = [p \in Pollers |-> "poll"] /\ from = [p \in Pollers |-> 0]
      /\ last = [p \in Pollers |-> 0] /\ ahead = [p \in Pollers |-> 0]
      /\ match = [p \in Pollers |-> NoMatch]
  BY DEF Init
<1>4. mailbox \in Seq(Message) /\ Len(mailbox) = 0 /\ DOMAIN mailbox = {}
  <2>1. mailbox \in Seq(Message)
    BY <1>1, EmptySeq
  <2>2. Len(mailbox) = 0 /\ DOMAIN mailbox = 1 .. 0
    BY <1>1, <2>1, EmptySeq, LenProperties
  <2>3. 1 .. 0 = {}
    OBVIOUS
  <2> QED  BY <2>1, <2>2, <2>3
<1>5. /\ plan.mail \in Nat /\ plan.faults \in Nat /\ MaxMail \in Nat
      /\ plan.calls \in [Callers -> Nat]
  BY <1>1, FollowUpAssumption
<1>6. TypeOK
  <2>1. 0 \in 0 .. Len(mailbox) /\ 0 <= plan.mail /\ 0 \in 0 .. plan.faults /\ 0 \in 0 .. MaxMail
    BY <1>4, <1>5
  <2>2. /\ mailbox \in Seq([by : {"us", "them"}, thread : Numbers, seq : Followups])
        /\ Len(mailbox) <= plan.mail
    BY <1>4, <2>1 DEF Message
  <2>3. /\ status \in [Followups -> {"active", "replied"}]
        /\ lock \in [Followups -> [holder : Callers \cup {Free, Gone}, fresh : BOOLEAN]]
        /\ thread \in [Conversations -> 0 .. MaxMail]
        /\ outbound = {}
    <3>1. [holder |-> Free, fresh |-> FALSE] \in [holder : Callers \cup {Free, Gone}, fresh : BOOLEAN]
      OBVIOUS
    <3> QED  BY <1>1, <2>1, <3>1
  <2>4. /\ event \in [Numbers -> Matches \cup {"none"}]
        /\ cursor \in 0 .. Len(mailbox) /\ cursorSet \in BOOLEAN
        /\ baseline \in 0 .. Len(mailbox) /\ faults \in 0 .. plan.faults
    BY <1>1, <2>1
  <2>5. /\ pc \in [Callers -> CallSteps]
        /\ calls \in [Callers -> Nat] /\ \A c \in Callers : calls[c] <= plan.calls[c]
        /\ sent \in [Callers -> 0 .. Len(mailbox)]
        /\ raced \in [Callers -> BOOLEAN] /\ outcome \in [Callers -> {"idle", "done"}]
    <3>1. calls \in [Callers -> Nat] /\ \A c \in Callers : calls[c] <= plan.calls[c]
      BY <1>2, <1>5
    <3> QED  BY <1>2, <2>1, <3>1 DEF CallSteps
  <2>6. /\ step \in [Pollers -> PollSteps]
        /\ {from, last, ahead} \subseteq [Pollers -> 0 .. Len(mailbox)]
        /\ match \in [Pollers -> Matches]
    <3>1. step \in [Pollers -> PollSteps] /\ match \in [Pollers -> Matches]
      BY <1>3 DEF PollSteps, Matches
    <3>2. /\ from \in [Pollers -> 0 .. Len(mailbox)] /\ last \in [Pollers -> 0 .. Len(mailbox)]
          /\ ahead \in [Pollers -> 0 .. Len(mailbox)]
      BY <1>3, <2>1
    <3> QED  BY <3>1, <3>2
  <2>7. /\ overrun \subseteq Callers
        /\ {late, due, dropped, beyond, misread} \subseteq SUBSET (DOMAIN mailbox)
    BY <1>1
  <2> QED  BY <1>1, <2>2, <2>3, <2>4, <2>5, <2>6, <2>7 DEF TypeOK
<1>7. ThreadsExist /\ NoMessageIsSkipped /\ PlacedRepliesEnd
  BY <1>4 DEF ThreadsExist, NoMessageIsSkipped, PlacedRepliesEnd
<1>8. SendInv
  BY <1>1, <1>2 DEF SendInv, SentIsThere, HolderIsKnown, LateIsNoticed, LateMessagesAreFlagged, Holding
<1>9. OnThePage /\ MatchIsReserved /\ PageIsRead
  BY <1>3 DEF OnThePage, MatchIsReserved, PageIsRead, Reading
<1>10. EventsAreOfMail
  BY <1>1 DEF EventsAreOfMail
<1>11. HeardInv
  BY <1>1, <1>2, <1>3 DEF HeardInv, MessagesTell, DueAreNamed, MatchesTell, EventsTell
<1> QED  BY <1>6, <1>7, <1>8, <1>9, <1>10, <1>11 DEF IInv, PollInv, CursorInv

LEMMA Induction ==
    ASSUME IInv, [Next]_vars
    PROVE  IInv'
<1> USE DEF IInv
<1>1. Grown /\ ThreadsExist'
  BY StepGrows, ThreadsStep
<1>2. ASSUME NEW c \in Callers, SenderStep(c) \/ Crash(c)
      PROVE  IInv'
  <2>1. TypeOK'
    BY <1>1, <1>2, SendersType DEF SendInv
  <2>2. SendInv'
    BY <1>2, SentStep, HolderStep, LateStep DEF SendInv
  <2>3. PollInv'
    BY <1>1, <1>2, SenderFrame, PollStands
  <2> QED  BY <1>1, <2>1, <2>2, <2>3
<1>3. ASSUME NEW s \in Followups, Lapse(s)
      PROVE  IInv'
  <2>1. TypeOK'
    BY <1>3, LapseType
  <2>2. /\ UNCHANGED <<plan, mailbox, pc, sent, raced, outbound, late, status, event, dropped>>
        /\ UNCHANGED <<step, from, last, match>>
    BY <1>3 DEF Lapse, NotSending, mail, inbox, poller
  <2>3. HolderIsKnown'
    BY <1>3, HolderLapse DEF SendInv
  <2>4. SentIsThere' /\ LateIsNoticed' /\ LateMessagesAreFlagged'
    BY <2>2 DEF SendInv, SentIsThere, LateIsNoticed, LateMessagesAreFlagged, SeqOf
  <2>5. PollInv'
    BY <1>1, <2>2, PollStands
  <2> QED  BY <1>1, <2>1, <2>3, <2>4, <2>5 DEF SendInv
<1>4. ASSUME NEW p \in Pollers, PollerStep(p) \/ PollStops(p)
      PROVE  IInv'
  <2>1. TypeOK' /\ PollInv'
    BY <1>4, PollersType, PollStep
  <2>2. SendInv'
    BY <1>1, <1>4, PollerFrame, SendStands
  <2> QED  BY <1>1, <2>1, <2>2
<1>5. ASSUME NEW i \in Numbers, Reply(i)
      PROVE  IInv'
  <2>1. TypeOK'
    BY <1>5, ReplyType
  <2>2. /\ UNCHANGED <<plan, pc, sent, raced, outbound, late, lock, overrun, status, event, dropped>>
        /\ UNCHANGED <<step, from, last, match>>
    BY <1>5 DEF Reply, records, inbox, sender, poller
  <2>3. SendInv'
    BY <1>1, <2>2, SendStands
  <2>4. PollInv'
    BY <1>1, <2>2, PollStands
  <2> QED  BY <1>1, <2>1, <2>3, <2>4
<1>6. CASE UNCHANGED vars
  BY <1>6 DEF vars, mail, records, inbox, doubts, sender, poller, TypeOK, ThreadsExist, Thread, SendInv,
     SentIsThere, HolderIsKnown, LateIsNoticed, LateMessagesAreFlagged, SeqOf, PollInv, OnThePage,
     MatchIsReserved, EventsAreOfMail, PlacedRepliesEnd, Ending, At
<1> QED  BY <1>2, <1>3, <1>4, <1>5, <1>6 DEF Next

LEMMA CursorInduction ==
    ASSUME IInv, CursorInv, [Next]_vars
    PROVE  CursorInv'
<1> USE DEF IInv
<1>1. ASSUME NEW p \in Pollers, PollerStep(p) \/ PollStops(p)
      PROVE  CursorInv'
  BY <1>1, CursorStep
<1>2. ASSUME UNCHANGED <<event, cursor, cursorSet, baseline, beyond, step, from>>
      PROVE  CursorInv'
  <2>1. ASSUME NEW i \in DOMAIN mailbox', i <= cursor
        PROVE  i \in DOMAIN mailbox
    <3>1. i \in 1 .. Len(mailbox')  /\ Len(mailbox') \in Nat
      BY <2>1, StepGrows, LenProperties DEF Grown
    <3>2. /\ cursor \in 0 .. Len(mailbox) /\ Len(mailbox) \in Nat
          /\ DOMAIN mailbox = 1 .. Len(mailbox)
      BY PollTypes
    <3> QED  BY <2>1, <3>1, <3>2
  <2>2. NoMessageIsSkipped'
    BY <1>2, <2>1 DEF CursorInv, NoMessageIsSkipped
  <2>3. PageIsRead'
    BY <1>2 DEF CursorInv, PageIsRead
  <2> QED  BY <2>2, <2>3 DEF CursorInv
<1>3. ASSUME NEW c \in Callers, SenderStep(c) \/ Crash(c)
      PROVE  CursorInv'
  BY <1>2, <1>3, SenderFrame
<1>4. ASSUME NEW s \in Followups, Lapse(s)
      PROVE  CursorInv'
  BY <1>2, <1>4 DEF Lapse, NotSending, inbox, doubts, poller
<1>5. ASSUME NEW i \in Numbers, Reply(i)
      PROVE  CursorInv'
  BY <1>2, <1>5 DEF Reply, inbox, doubts, poller
<1>6. CASE UNCHANGED vars
  BY <1>2, <1>6 DEF vars, inbox, doubts, poller
<1> QED  BY <1>1, <1>3, <1>4, <1>5, <1>6 DEF Next

LEMMA HeardInduction ==
    ASSUME IInv, HeardInv, [Next]_vars
    PROVE  HeardInv'
<1> USE DEF IInv
<1>1. Grown
  BY StepGrows
<1>2. ASSUME NEW c \in Callers, SenderStep(c) \/ Crash(c)
      PROVE  HeardInv'
  <2>1. /\ UNCHANGED <<plan, due, misread, event, step, from, match>>
        /\ outbound \subseteq outbound'
    <3>1. UNCHANGED due
      BY <1>2 DEF SenderStep, Crash, Precheck, AcquireLock, LockRefused, NotSent, Send, SendUnknown,
         PostCheck, Record, RecordRefused, UpdateThread, StatementFails, Release, Reads, mail
    <3>2. outbound \subseteq outbound'
      BY <1>2 DEF SenderStep, Crash, Precheck, AcquireLock, LockRefused, NotSent, Send, SendUnknown,
         PostCheck, Record, RecordRefused, UpdateThread, StatementFails, Release, Reads, records
    <3> QED  BY <1>2, <3>1, <3>2, SenderFrame
  <2>2. MessagesTell'
    BY <1>1, <1>2, SenderTells DEF HeardInv
  <2>3. DueAreNamed' /\ MatchesTell' /\ EventsTell'
    BY <1>1, <2>1, DueStands, MatchesStand DEF HeardInv
  <2> QED  BY <2>2, <2>3 DEF HeardInv
<1>3. ASSUME UNCHANGED <<plan, sent, outbound, thread, due, misread, event, step, from, match>>
      PROVE  HeardInv'
  BY <1>1, <1>3, TellsStands, DueStands, MatchesStand DEF HeardInv
<1>4. ASSUME NEW s \in Followups, Lapse(s)
      PROVE  HeardInv'
  BY <1>3, <1>4 DEF Lapse, NotSending, mail, inbox, doubts, poller
<1>5. CASE UNCHANGED vars
  BY <1>3, <1>5 DEF vars, mail, records, inbox, doubts, sender, poller
<1> QED  BY <1>2, <1>4, <1>5, PollTells, ReplyTells DEF Next

\* The invariant from which the theorems follow.
THEOREM Invariance == Spec => []IInv
<1>1. Init => IInv
  BY InitIsSound
<1>2. IInv /\ [Next]_vars => IInv'
  BY Induction
<1> QED  BY <1>1, <1>2, PTL DEF Spec

\* Every state is one the program can be in, as far as types tell: no two
\* recorded messages share an attempt key or a Gmail message, and no cursor
\* and no page points past the end of the mailbox.
THEOREM TypeCorrect == Spec => []TypeOK
<1>1. IInv => TypeOK
  BY DEF IInv
<1> QED  BY <1>1, Invariance, PTL

\* Of two calls of sendFollowupMessage that have passed the lock of one
\* sequence, one has overrun the 60 s of its lease.
THEOREM OneSender == Spec => []OneSenderInTheLease
<1>1. ASSUME IInv
      PROVE  OneSenderInTheLease
  <2>1. ASSUME NEW c \in Callers, NEW d \in Callers, c # d, SeqOf(c) = SeqOf(d),
               pc[c] \in Holding, pc[d] \in Holding, c \notin overrun, d \notin overrun
        PROVE  FALSE
    <3>1. /\ lock[SeqOf(c)] = [holder |-> c, fresh |-> TRUE]
          /\ lock[SeqOf(d)] = [holder |-> d, fresh |-> TRUE]
      BY <1>1, <2>1 DEF IInv, SendInv, HolderIsKnown
    <3>2. lock[SeqOf(c)].holder = c /\ lock[SeqOf(d)].holder = d
      BY <3>1
    <3> QED  BY <2>1, <3>2
  <2> QED  BY <2>1 DEF OneSenderInTheLease
<1> QED  BY <1>1, Invariance, PTL

\* A follow-up message that went out after the end of its sequence, and is
\* recorded, is recorded as sent in the race window.
THEOREM LateFlagged == Spec => []LateMessagesAreFlagged
<1>1. IInv => LateMessagesAreFlagged
  BY DEF IInv, SendInv
<1> QED  BY <1>1, Invariance, PTL

\* A reply that processInboundReply has placed with a sequence has ended the
\* sequence, or the request that placed it is about to, or that request failed
\* between the two.
THEOREM RepliesEnd == Spec => []PlacedRepliesEnd
<1>1. IInv => PlacedRepliesEnd
  BY DEF IInv, PollInv
<1> QED  BY <1>1, Invariance, PTL

\* No poll moves the cursor over a message that nobody has looked at, whatever
\* polls overlap, fail or start again, but for what lay behind the one page that
\* pollGmailInboundReplies reads.
THEOREM NothingSkipped == Spec => []NoMessageIsSkipped
<1>1. Init => IInv /\ CursorInv
  BY InitIsSound
<1>2. IInv /\ CursorInv /\ [Next]_vars => (IInv /\ CursorInv)'
  BY Induction, CursorInduction
<1>3. CursorInv => NoMessageIsSkipped
  BY DEF CursorInv
<1> QED  BY <1>1, <1>2, <1>3, PTL DEF Spec

\* A reply to a message that was recorded in time, once a poll has passed it,
\* has ended its own sequence or is about to: but for one behind the page, one
\* for which a lookup failed, and one whose request failed between placing it
\* and ending the sequence.
THEOREM RepliesHeard == Spec => []PassedRepliesEnd
<1>1. Init => IInv /\ CursorInv /\ HeardInv
  BY InitIsSound
<1>2. IInv /\ CursorInv /\ HeardInv /\ [Next]_vars => (IInv /\ CursorInv /\ HeardInv)'
  BY Induction, CursorInduction, HeardInduction
<1>3. ASSUME IInv, CursorInv, HeardInv
      PROVE  PassedRepliesEnd
  <2>1. ASSUME NEW i \in due, i \notin beyond \cup misread \cup dropped,
               cursorSet, i > baseline, i <= cursor
        PROVE  event[i] = Owner(i) /\ Ending(i)
    <3>1. i \in DOMAIN mailbox
      BY <1>3, <2>1 DEF IInv, TypeOK
    <3>2. event[i] # "none"
      BY <1>3, <2>1, <3>1 DEF CursorInv, NoMessageIsSkipped
    <3>3. event[i] = Owner(i)
      BY <1>3, <2>1, <3>2 DEF HeardInv, EventsTell
    <3>4. Owner(i) \in Followups
      BY <1>3, <2>1, DueIsFound DEF IInv, HeardInv
    <3> QED  BY <1>3, <2>1, <3>1, <3>3, <3>4 DEF IInv, PollInv, PlacedRepliesEnd
  <2> QED  BY <2>1 DEF PassedRepliesEnd
<1> QED  BY <1>1, <1>2, <1>3, PTL DEF Spec
=============================================================================
