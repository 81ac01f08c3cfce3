------------------------------- MODULE Wake -------------------------------
(***************************************************************************)
(* The wake worker (internal/core/wake.go): notices of unhandled messages  *)
(* to the session that holds an inbox, their retries, and the failure of a *)
(* message that stays unhandled after NoticeLimit notices.                 *)
(*                                                                         *)
(* One participant's inbox.  A submission takes several transactions and   *)
(* an external call under the wake lock; acknowledgements and holder       *)
(* changes take the lock too, but sends, reads, lease expiry, the passing  *)
(* of time and a stop of the daemon come in between.  Time is abstract:    *)
(* a message is due or waits, and any wait may end at any step.            *)
(***************************************************************************)
EXTENDS Naturals

CONSTANTS
    Recipient,      \* sessions that may hold the inbox
    NoRecipient,
    First,          \* the holder when the inbox is created, by its first message
    NoticeLimit,    \* wakeNoticeLimit
    MaxSeq,         \* bound: messages sent
    MaxChanges,     \* bound: holder changes
    MaxFaults       \* bound: stops of the daemon and failed transactions

ASSUME WakeAssumption ==
    /\ NoRecipient \notin Recipient /\ First \in Recipient
    /\ NoticeLimit \in Nat \ {0}
    /\ MaxSeq \in Nat /\ MaxChanges \in Nat /\ MaxFaults \in Nat

VARIABLES
    agy,        \* the holders are Antigravity sessions: their Stop hook asks
    holder,     \* the recorded holder
    present,    \* the recorded holder is active and holds the address
    last, acked, read,  \* cursors of the inbox row
    msg,        \* delivery columns of each message
    pc,         \* where the pass of the worker, or the Stop hook, is
    listing,    \* the messages due at the time the pass reads the clock
    batch,      \* the submission's wakeBatch
    submitted,  \* history: notices of each message that may have reached its holder, with
                \* those that its row brought from a former one, capped at NoticeLimit
    changes, faults     \* counts against the bounds

vars == <<agy, holder, present, last, acked, read, msg, pc, listing, batch,
          submitted, changes, faults>>
inboxVars == <<last, acked, read>>
recipientVars == <<agy, holder, present>>
historyVars == <<changes, faults>>

Seqs == 1..MaxSeq

Message == [state : {"waiting", "uncertain", "notified", "failed"},
            inProgress : BOOLEAN,   \* wake_reason is attempt_in_progress
            notices : Nat,          \* wake_notices
            due : BOOLEAN]          \* wake_next_at has passed

Fresh == [state |-> "waiting", inProgress |-> FALSE, notices |-> 0, due |-> TRUE]

\* A batch is the set of its sequence range, with the session it goes to and
\* what the call of the adapter did: it may have put the notice in front of the
\* agent ("reached"), or it did not ("not").
NoBatch == [run |-> {}, target |-> NoRecipient, effect |-> "none"]
Picked(run) == [run |-> run, target |-> holder, effect |-> "none"]

Phase == {"idle", "exhausted", "list", "submit", "limit", "again", "mark", "send", "result"}

\* Mutant of Free: the lock is released before the adapter is called.
FreeEarly == pc \notin {"limit", "again", "mark"}

\* wake.mu is free: no submission is under way.
Free == pc \in {"idle", "exhausted", "list", "submit"}

-----------------------------------------------------------------------------
(* Queries *)

Handled == IF acked > read THEN acked ELSE read

Unhandled == {q \in Seqs : Handled < q /\ q <= last}

\* Mutants of Wakeable: an attempt that a stop interrupted is not retried; a
\* failed message is woken for.
WakeableCertain(q) == msg[q].state \in {"waiting", "notified"}

\* The delivery states of dueWake.
Wakeable(q) == msg[q].state \in {"waiting", "uncertain", "notified"}

DueWake == {q \in Unhandled : Wakeable(q) /\ msg[q].due}

AtLimit(q) == msg[q].notices >= NoticeLimit

\* pendingWake: the first run of due messages, which ends before an unhandled
\* message that is not due; none without an active holder (wakeRecipient).
PendingWake ==
    IF ~present THEN {}
    ELSE {q \in DueWake : ~\E g \in Unhandled \ DueWake, f \in DueWake : f < g /\ g < q}

-----------------------------------------------------------------------------
(* A pass of the worker *)

\* wakeStep: the clock is read once for both lists of inboxes.
ListExhausted ==
    /\ pc = "idle"
    /\ listing' = {q \in Seqs : msg[q].due}
    /\ pc' = IF \E q \in DueWake : AtLimit(q) THEN "exhausted" ELSE "list"
    /\ UNCHANGED <<recipientVars, inboxVars, msg, batch, submitted, historyVars>>

\* failUnhandled, with its own reading of the clock.  The maintainer's notice
\* is part of the same transaction.
FailUnhandled ==
    msg' = [q \in Seqs |-> IF q \in DueWake /\ AtLimit(q)
                          THEN [msg[q] EXCEPT !.state = "failed", !.due = TRUE] ELSE msg[q]]

FailExhausted ==
    /\ pc = "exhausted"
    /\ FailUnhandled
    /\ pc' = "list"
    /\ UNCHANGED <<recipientVars, inboxVars, listing, batch, submitted, historyVars>>

\* The second list leaves Antigravity's inboxes out.
ListDue ==
    /\ pc = "list"
    /\ pc' = IF ~agy /\ DueWake \cap listing # {} THEN "submit" ELSE "idle"
    /\ listing' = {}
    /\ UNCHANGED <<recipientVars, inboxVars, msg, batch, submitted, historyVars>>

\* The Stop hook of an Antigravity session asks for its notice (offerWake).
StopHook ==
    /\ agy /\ present
    /\ pc = "idle"
    /\ pc' = "submit"
    /\ UNCHANGED <<recipientVars, inboxVars, msg, listing, batch, submitted, historyVars>>

-----------------------------------------------------------------------------
(* submitWake *)

\* The batch; one that holds a message at the limit fails such messages first.
Pick ==
    /\ pc = "submit"
    /\ IF PendingWake = {} THEN pc' = "idle" /\ UNCHANGED batch
       ELSE IF \E q \in PendingWake : AtLimit(q) THEN pc' = "limit" /\ UNCHANGED batch
       ELSE /\ pc' = "mark"
            /\ batch' = Picked(PendingWake)
    /\ UNCHANGED <<recipientVars, inboxVars, msg, listing, submitted, historyVars>>

\* A managed context cycle owns the target's pane: the wake waits.
PaneHeld ==
    /\ pc = "submit"
    /\ PendingWake # {}
    /\ pc' = "idle"
    /\ UNCHANGED <<recipientVars, inboxVars, msg, listing, batch, submitted, historyVars>>

FailLimit ==
    /\ pc = "limit"
    /\ FailUnhandled
    /\ pc' = "again"
    /\ UNCHANGED <<recipientVars, inboxVars, listing, batch, submitted, historyVars>>

\* pendingWake once more; its notice count is not looked at again.
PickAgain ==
    /\ pc = "again"
    /\ IF PendingWake = {} THEN pc' = "idle" /\ UNCHANGED batch
       ELSE /\ pc' = "mark"
            /\ batch' = Picked(PendingWake)
    /\ UNCHANGED <<recipientVars, inboxVars, msg, listing, submitted, historyVars>>

\* recordWake of attempt_in_progress: its backoff runs.
Started(q) == [msg[q] EXCEPT !.state = "uncertain", !.inProgress = TRUE, !.due = FALSE]

Mark ==
    /\ pc = "mark"
    /\ msg' = [q \in Seqs |-> IF q \in batch.run \cap DueWake THEN Started(q) ELSE msg[q]]
    /\ pc' = "send"
    /\ UNCHANGED <<recipientVars, inboxVars, listing, batch, submitted, historyVars>>

Capped(n) == IF n < NoticeLimit THEN n ELSE NoticeLimit

\* The notice is in front of the agent, or nobody can tell that it is not.
Submit == submitted' = [q \in Seqs |-> IF q \in batch.run THEN Capped(submitted[q] + 1) ELSE submitted[q]]

\* The adapter's call.
Send(effect) ==
    /\ pc = "send" /\ ~agy
    /\ IF effect = "reached" THEN Submit ELSE UNCHANGED submitted
    /\ batch' = [batch EXCEPT !.effect = effect]
    /\ pc' = "result"
    /\ UNCHANGED <<recipientVars, inboxVars, msg, listing, historyVars>>

\* Mutant of RecordWake: every result counts.
RecordWakeAny(state, reached) ==
    msg' = [q \in Seqs |->
        IF q \in batch.run \cap Unhandled /\ msg[q].state = "uncertain" /\ msg[q].inProgress
        THEN [msg[q] EXCEPT !.state = state, !.inProgress = FALSE, !.due = FALSE, !.notices = @ + 1]
        ELSE msg[q]]

\* recordWake of a result, on the messages that the start marked.  Only a
\* result that may have reached the agent counts (reachedAgent).
RecordWake(state, reached) ==
    msg' = [q \in Seqs |->
        IF q \in batch.run \cap Unhandled /\ msg[q].state = "uncertain" /\ msg[q].inProgress
        THEN [msg[q] EXCEPT !.state = state, !.inProgress = FALSE, !.due = FALSE,
                            !.notices = IF reached THEN @ + 1 ELSE @]
        ELSE msg[q]]

\* The adapter's answer, which is true of what its call did: accepted, not to be
\* confirmed, not given or busy, or none of the adapter's states.
Result(state, reached) ==
    /\ pc = "result"
    /\ reached => batch.effect = "reached"
    /\ state = "waiting" => batch.effect = "not"
    /\ RecordWake(state, reached)
    /\ pc' = "idle"
    /\ batch' = NoBatch
    /\ UNCHANGED <<recipientVars, inboxVars, listing, submitted, historyVars>>

\* The Stop hook's reply carries the notice: stop_offered is uncertain.
Offer ==
    /\ pc = "send" /\ agy
    /\ RecordWake("uncertain", TRUE)
    /\ Submit
    /\ pc' = "idle"
    /\ batch' = NoBatch
    /\ UNCHANGED <<recipientVars, inboxVars, listing, historyVars>>

\* The daemon stops, or a transaction of the pass fails: the pass ends.
Interrupt ==
    /\ pc # "idle"
    /\ faults < MaxFaults
    /\ pc' = "idle"
    /\ listing' = {}
    /\ batch' = NoBatch
    /\ faults' = faults + 1
    /\ UNCHANGED <<recipientVars, inboxVars, msg, submitted, changes>>

-----------------------------------------------------------------------------
(* The inbox and its holder *)

NewMessage ==
    /\ present
    /\ last < MaxSeq
    /\ last' = last + 1
    /\ UNCHANGED <<recipientVars, acked, read, msg, pc, listing, batch, submitted, historyVars>>

\* markRead, without the lock.
Read(q) ==
    /\ present
    /\ Handled < q /\ q <= last
    /\ read' = q
    /\ UNCHANGED <<recipientVars, last, acked, msg, pc, listing, batch, submitted, historyVars>>

\* Acknowledgement by the holder or the maintainer.
Ack(q) ==
    /\ Free
    /\ acked < q /\ q <= last
    /\ acked' = q
    /\ UNCHANGED <<recipientVars, last, read, msg, pc, listing, batch, submitted, historyVars>>

\* setHolder: the messages it lists wait for a wake of the new holder.
ChangeHolder(r) ==
    /\ Free
    /\ r # holder
    /\ changes < MaxChanges
    /\ changes' = changes + 1
    /\ holder' = r
    /\ present' = TRUE
    /\ read' = acked
    /\ msg' = [q \in Seqs |->
          IF q > acked /\ msg[q].state \in {"notified", "uncertain", "failed"}
          THEN Fresh ELSE msg[q]]
    /\ submitted' = [q \in Seqs |-> IF q > acked THEN Capped(msg'[q].notices) ELSE submitted[q]]
    /\ UNCHANGED <<agy, last, acked, pc, listing, batch, faults>>

\* The holder's lease expires, and it registers again.
Expire ==
    /\ present
    /\ present' = FALSE
    /\ UNCHANGED <<agy, holder, inboxVars, msg, pc, listing, batch, submitted, historyVars>>

Register ==
    /\ Free
    /\ ~present
    /\ present' = TRUE
    /\ UNCHANGED <<agy, holder, inboxVars, msg, pc, listing, batch, submitted, historyVars>>

\* A message's wait ends.
Elapse(q) ==
    /\ q <= last
    /\ ~msg[q].due
    /\ msg' = [msg EXCEPT ![q].due = TRUE]
    /\ UNCHANGED <<recipientVars, inboxVars, pc, listing, batch, submitted, historyVars>>

\* checkTurns: a turn of the Codex session that holds the inbox failed after the
\* last notice of these messages; the ones at the limit wait no longer.
CheckTurns(noticed) ==
    /\ ~agy /\ present
    /\ pc = "idle"
    /\ \A q \in noticed : /\ q \in Unhandled /\ msg[q].state \in {"notified", "uncertain"}
                          /\ ~msg[q].inProgress /\ AtLimit(q) /\ ~msg[q].due
    /\ noticed # {}
    /\ msg' = [q \in Seqs |-> IF q \in noticed THEN [msg[q] EXCEPT !.due = TRUE] ELSE msg[q]]
    /\ UNCHANGED <<recipientVars, inboxVars, pc, listing, batch, submitted, historyVars>>

-----------------------------------------------------------------------------
Init ==
    /\ agy \in BOOLEAN
    /\ holder = First /\ present = TRUE
    /\ last = 0 /\ acked = 0 /\ read = 0
    /\ msg = [q \in Seqs |-> Fresh]
    /\ pc = "idle" /\ listing = {} /\ batch = NoBatch
    /\ submitted = [q \in Seqs |-> 0]
    /\ changes = 0 /\ faults = 0

Reached == \E state \in {"notified", "uncertain"} : Result(state, TRUE)
NotReached == \E state \in {"waiting", "uncertain"} : Result(state, FALSE)

Submission ==
    \/ Pick \/ FailLimit \/ PickAgain \/ Mark
    \/ \E effect \in {"reached", "not"} : Send(effect)
    \/ Reached \/ NotReached \/ Offer
Pass == ListExhausted \/ FailExhausted \/ ListDue

Next ==
    \/ Pass \/ StopHook \/ Submission \/ PaneHeld \/ Interrupt
    \/ NewMessage \/ Expire \/ Register
    \/ \E q \in Seqs : Read(q)
    \/ \E q \in Seqs : Ack(q)
    \/ \E q \in Seqs : Elapse(q)
    \/ \E r \in Recipient : ChangeHolder(r)
    \/ \E noticed \in SUBSET Seqs : CheckTurns(noticed)

Spec == Init /\ [][Next]_vars

\* The worker runs a pass every second and a wait ends with its time; a cycle
\* gives the pane back; and an adapter that is called again and again reaches
\* its agent at last, and says so.
WakeFairness ==
    /\ WF_vars(Pass) /\ WF_vars(Submission)
    /\ \A q \in Seqs : WF_vars(Elapse(q))
    /\ SF_vars(Pick) /\ SF_vars(Send("reached")) /\ SF_vars(Reached)

FairSpec == Spec /\ WakeFairness

-----------------------------------------------------------------------------
(* Properties *)

\* Types of the delivery columns; no notice is counted before its message.
WakeTypeOK ==
    /\ agy \in BOOLEAN /\ present \in BOOLEAN
    /\ holder \in Recipient
    /\ acked \in 0..last /\ read \in 0..last /\ last \in 0..MaxSeq
    /\ msg \in [Seqs -> Message]
    /\ pc \in Phase
    /\ batch.run \subseteq 1..last
    /\ batch.target \in Recipient \cup {NoRecipient}
    /\ batch.effect \in {"none", "reached", "not"}

\* The notice that is about to go out is for the session that still holds the
\* inbox, and names no acknowledged message, although it was decided two
\* transactions earlier (submitWake, under the lock of Ack and Register).
SubmissionStillTrue ==
    pc = "send" => batch.target = holder /\ \A q \in batch.run : q > acked

\* The uncertainty is durable before the external effect: a stop at any point
\* of a submission leaves its unhandled messages to be retried (recordWake).
DurableBeforeSend ==
    pc \in {"send", "result"} =>
        \A q \in batch.run \cap Unhandled : msg[q].state = "uncertain" /\ msg[q].inProgress

\* A submission between its transactions and the adapter's call (submitWake, recordWake).
SubmissionSound == SubmissionStillTrue /\ DurableBeforeSend

\* A message fails for its holder only after NoticeLimit notices that may have reached an
\* agent, this holder but for those that the row of a waiting message brought from a former
\* one: attempts that a stop cut off, and calls whose notice the adapter did not give, never
\* count, in whatever order results, stops and holder changes come (recordWake, failUnhandled).
FailedAfterNotices ==
    \A q \in Seqs : msg[q].state = "failed" => submitted[q] = NoticeLimit

\* The worker never forgets a message: while the holder stays, each message is
\* handled or fails in the end, through stops, retries and later messages.
EventuallySettled ==
    \A q \in Seqs :
        (~agy /\ q <= last /\ present)
            ~> (~present \/ q <= Handled \/ msg[q].state = "failed")

\* PROTOCOL.md: a message that is not handled after its last notice's wait
\* becomes failed and its notices stop; no submission takes it again.
NoNoticeBeyondLimit ==
    pc = "send" => \A q \in batch.run : msg[q].notices < NoticeLimit

\* PROTOCOL.md: the notice budget of a participant inbox belongs to its
\* holder; a new holder starts with none of it used.
BudgetBelongsToHolder ==
    [][holder' # holder => \A q \in Seqs : q > acked => msg'[q].notices = 0]_vars
=============================================================================
