---------------------------- MODULE WakeProofs ----------------------------
(***************************************************************************)
(* What the wake worker guarantees for any sessions, any number of         *)
(* messages and any notice limit, and what the pass that tells audiences   *)
(* of work changes guarantees for any items, audiences and events.         *)
(***************************************************************************)
EXTENDS Wake, WorkNotices, FiniteSetTheorems, WellFoundedInduction, TLAPS

\* From the decision to the adapter's call the batch keeps its target, and
\* the lock keeps acknowledgements away.
BatchStillTrue ==
    pc \in {"mark", "send"} => batch.target = holder /\ \A q \in batch.run : q > acked

\* What was due when the batch was picked can only be read before it is marked.
DueUntilMarked ==
    pc = "mark" => \A q \in batch.run \cap Unhandled : Wakeable(q) /\ msg[q].due

\* The adapter's call may have reached the agent, and its result is not recorded yet.
ResultPending(q) == pc = "result" /\ q \in batch.run /\ batch.effect = "reached"

\* No more notices are counted for a message than may have reached an agent; one
\* more may have than is counted while a result is not recorded yet.
CountedWentOut ==
    \A q \in Seqs : submitted[q] < NoticeLimit =>
        msg[q].notices + (IF ResultPending(q) THEN 1 ELSE 0) <= submitted[q]

WakeInv ==
    /\ WakeTypeOK
    /\ submitted \in [Seqs -> 0..NoticeLimit]
    /\ BatchStillTrue
    /\ DueUntilMarked
    /\ DurableBeforeSend
    /\ CountedWentOut
    /\ FailedAfterNotices

LEMMA SeqsNat == Seqs \subseteq Nat
BY DEF Seqs

\* A picked batch is of unhandled messages that are due.
LEMMA PendingIsDue ==
    ASSUME WakeTypeOK
    PROVE  /\ PendingWake \subseteq DueWake /\ DueWake \subseteq Unhandled
           /\ Unhandled \subseteq 1..last
           /\ \A q \in Unhandled : q > acked /\ q > read /\ q \in Seqs
<1>1. acked \in Nat /\ read \in Nat /\ last \in Nat
  BY WakeAssumption DEF WakeTypeOK
<1>2. QED
  BY <1>1, SeqsNat DEF PendingWake, DueWake, Unhandled, Handled, Seqs

LEMMA WakeInitInv == Init => WakeInv
<1>. SUFFICES ASSUME Init PROVE WakeInv
  OBVIOUS
<1>1. Fresh \in Message
  BY DEF Fresh, Message
<1>2. WakeTypeOK
  BY <1>1, WakeAssumption DEF Init, WakeTypeOK, Phase, NoBatch
<1>3. submitted \in [Seqs -> 0..NoticeLimit]
  BY WakeAssumption DEF Init
<1>4. BatchStillTrue /\ DueUntilMarked /\ DurableBeforeSend /\ CountedWentOut /\ FailedAfterNotices
  BY WakeAssumption DEF Init, BatchStillTrue, DueUntilMarked, DurableBeforeSend, CountedWentOut, ResultPending,
     FailedAfterNotices, Fresh
<1>. QED
  BY <1>2, <1>3, <1>4 DEF WakeInv

-----------------------------------------------------------------------------
(* One step keeps the invariant: a lemma for each kind of step *)

\* Steps that leave the messages' columns and the submission alone.
LEMMA PassKeeps ==
    ASSUME WakeInv, ListExhausted \/ ListDue \/ StopHook \/ PaneHeld
    PROVE  WakeInv'
<1>1. WakeTypeOK' /\ (submitted \in [Seqs -> 0..NoticeLimit])'
  BY DEF WakeInv, WakeTypeOK, Phase, ListExhausted, ListDue, StopHook, PaneHeld, recipientVars,
     inboxVars, historyVars
<1>2. pc # "result" /\ pc' \notin {"mark", "send", "result"} /\ msg' = msg /\ submitted' = submitted
  BY DEF ListExhausted, ListDue, StopHook, PaneHeld
<1>3. (BatchStillTrue /\ DueUntilMarked /\ DurableBeforeSend /\ CountedWentOut /\ FailedAfterNotices)'
  BY <1>2 DEF WakeInv, BatchStillTrue, DueUntilMarked, DurableBeforeSend, CountedWentOut, ResultPending,
     FailedAfterNotices
<1>. QED
  BY <1>1, <1>3 DEF WakeInv

\* A batch is picked: its messages are unhandled and due, its target is the holder.
LEMMA PickKeeps ==
    ASSUME WakeInv, Pick \/ PickAgain
    PROVE  WakeInv'
<1>. USE DEF Pick, PickAgain, Picked, recipientVars, inboxVars, historyVars
<1>0. WakeTypeOK
  BY DEF WakeInv
<1>1. \/ pc' \in {"idle", "limit"} /\ batch' = batch
      \/ pc' = "mark" /\ batch' = [run |-> PendingWake, target |-> holder, effect |-> "none"]
  OBVIOUS
<1>2. pc # "result" /\ pc' \notin {"send", "result"} /\ msg' = msg /\ submitted' = submitted
      /\ last' = last /\ acked' = acked /\ read' = read /\ holder' = holder
  OBVIOUS
<1>3. WakeTypeOK' /\ (submitted \in [Seqs -> 0..NoticeLimit])'
  BY <1>0, <1>1, PendingIsDue DEF WakeInv, WakeTypeOK, Phase
<1>4. BatchStillTrue'
  BY <1>0, <1>1, <1>2, PendingIsDue DEF BatchStillTrue
<1>5. DueUntilMarked'
  BY <1>0, <1>1, <1>2, PendingIsDue DEF DueUntilMarked, DueWake, Wakeable
<1>6. (DurableBeforeSend /\ CountedWentOut /\ FailedAfterNotices)'
  BY <1>2 DEF WakeInv, DurableBeforeSend, CountedWentOut, ResultPending, FailedAfterNotices
<1>. QED
  BY <1>3, <1>4, <1>5, <1>6 DEF WakeInv

\* failUnhandled: what fails has reached the limit, and so many notices went out.
LEMMA FailKeeps ==
    ASSUME WakeInv, FailExhausted \/ FailLimit
    PROVE  WakeInv'
<1>. USE DEF FailExhausted, FailLimit, recipientVars, inboxVars, historyVars
<1>1. pc # "result" /\ pc' \notin {"mark", "send", "result"} /\ submitted' = submitted /\ FailUnhandled
  OBVIOUS
<1>2. /\ msg' \in [Seqs -> Message]
      /\ \A q \in Seqs : msg'[q].notices = msg[q].notices
      /\ \A q \in Seqs : msg'[q].state = "failed" => msg[q].state = "failed" \/ AtLimit(q)
  BY <1>1 DEF FailUnhandled, WakeInv, WakeTypeOK, Message
<1>3. WakeTypeOK' /\ (submitted \in [Seqs -> 0..NoticeLimit])'
  BY <1>2 DEF WakeInv, WakeTypeOK, Phase
<1>4. CountedWentOut'
  BY <1>1, <1>2 DEF WakeInv, CountedWentOut, ResultPending
<1>5. FailedAfterNotices'
  <2>. SUFFICES ASSUME NEW q \in Seqs, msg'[q].state = "failed", msg[q].state # "failed"
                PROVE  submitted[q] = NoticeLimit
    BY <1>1 DEF WakeInv, FailedAfterNotices
  <2>1. msg[q].notices >= NoticeLimit /\ msg[q].notices \in Nat /\ submitted[q] \in 0..NoticeLimit
    BY <1>2 DEF AtLimit, WakeInv, WakeTypeOK, Message
  <2>2. submitted[q] < NoticeLimit => msg[q].notices <= submitted[q]
    BY <1>1, <2>1 DEF WakeInv, CountedWentOut, ResultPending
  <2>. QED
    BY <2>1, <2>2, WakeAssumption
<1>6. (BatchStillTrue /\ DueUntilMarked /\ DurableBeforeSend)'
  BY <1>1 DEF BatchStillTrue, DueUntilMarked, DurableBeforeSend
<1>. QED
  BY <1>3, <1>4, <1>5, <1>6 DEF WakeInv

\* The start is recorded for every unhandled message of the batch.
LEMMA MarkKeeps ==
    ASSUME WakeInv, Mark
    PROVE  WakeInv'
<1>. USE DEF Mark, recipientVars, inboxVars, historyVars
<1>0. WakeTypeOK
  BY DEF WakeInv
<1>1. /\ msg' \in [Seqs -> Message]
      /\ \A q \in Seqs : msg'[q].notices = msg[q].notices
      /\ \A q \in Seqs : msg'[q].state = "failed" => msg[q].state = "failed"
      /\ \A q \in batch.run \cap DueWake : q \in Seqs => msg'[q].state = "uncertain" /\ msg'[q].inProgress
  BY <1>0 DEF Started, WakeTypeOK, Message
<1>2. WakeTypeOK' /\ (submitted \in [Seqs -> 0..NoticeLimit])'
  BY <1>1 DEF WakeInv, WakeTypeOK, Phase
<1>3. (CountedWentOut /\ FailedAfterNotices)'
  BY <1>1 DEF WakeInv, CountedWentOut, ResultPending, FailedAfterNotices
<1>4. (BatchStillTrue /\ DueUntilMarked)'
  BY DEF WakeInv, BatchStillTrue, DueUntilMarked
<1>5. DurableBeforeSend'
  <2>1. batch.run \cap Unhandled \subseteq batch.run \cap DueWake
    BY DEF WakeInv, DueUntilMarked, DueWake
  <2>2. Unhandled' = Unhandled /\ batch' = batch
    BY DEF Unhandled, Handled
  <2>. QED
    BY <1>0, <1>1, <2>1, <2>2, PendingIsDue DEF DurableBeforeSend
<1>. QED
  BY <1>2, <1>3, <1>4, <1>5 DEF WakeInv

\* One more notice went out, up to the cap of the history variable.
LEMMA SubmitCounts ==
    ASSUME submitted \in [Seqs -> 0..NoticeLimit], Submit
    PROVE  /\ submitted' \in [Seqs -> 0..NoticeLimit]
           /\ \A q \in Seqs : submitted[q] <= submitted'[q]
           /\ \A q \in Seqs : q \in batch.run /\ submitted'[q] < NoticeLimit => submitted'[q] = submitted[q] + 1
BY WakeAssumption DEF Submit, Capped

LEMMA SendKeeps ==
    ASSUME WakeInv, NEW effect \in {"reached", "not"}, Send(effect)
    PROVE  WakeInv'
<1>. USE DEF recipientVars, inboxVars, historyVars
<1>0. /\ WakeTypeOK /\ submitted \in [Seqs -> 0..NoticeLimit]
      /\ IF effect = "reached" THEN Submit ELSE submitted' = submitted
      /\ batch' = [batch EXCEPT !.effect = effect]
      /\ pc = "send" /\ pc' = "result"
      /\ UNCHANGED <<agy, holder, present, last, acked, read, msg>>
  BY DEF WakeInv, Send
<1>1. batch'.run = batch.run /\ batch'.target = batch.target /\ batch'.effect = effect
  BY <1>0 DEF WakeInv, WakeTypeOK
<1>2. /\ submitted' \in [Seqs -> 0..NoticeLimit]
      /\ \A q \in Seqs : submitted[q] <= submitted'[q]
      /\ effect = "reached" =>
            \A q \in Seqs : q \in batch.run /\ submitted'[q] < NoticeLimit => submitted'[q] = submitted[q] + 1
  BY <1>0, SubmitCounts, WakeAssumption
<1>3. WakeTypeOK'
  BY <1>0, <1>1 DEF WakeTypeOK, Phase
<1>4. CountedWentOut'
  <2>. SUFFICES ASSUME NEW q \in Seqs, submitted'[q] < NoticeLimit
                PROVE  msg[q].notices + (IF q \in batch.run /\ effect = "reached" THEN 1 ELSE 0) <= submitted'[q]
    BY <1>0, <1>1 DEF CountedWentOut, ResultPending
  <2>1. submitted[q] \in Nat /\ submitted'[q] \in Nat /\ msg[q].notices \in Nat
    BY <1>0, <1>2, WakeAssumption DEF WakeTypeOK, Message
  <2>2. submitted[q] < NoticeLimit /\ submitted[q] <= submitted'[q]
    BY <1>2, <2>1, WakeAssumption
  <2>3. msg[q].notices <= submitted[q]
    BY <1>0, <2>1, <2>2 DEF WakeInv, CountedWentOut, ResultPending
  <2>. QED
    BY <1>2, <2>1, <2>2, <2>3
<1>5. FailedAfterNotices'
  <2>1. ASSUME NEW q \in Seqs, submitted[q] = NoticeLimit
        PROVE  submitted'[q] = NoticeLimit
    BY <1>2, <2>1, WakeAssumption
  <2>. QED
    BY <1>0, <2>1 DEF WakeInv, FailedAfterNotices
<1>6. (BatchStillTrue /\ DueUntilMarked)'
  BY <1>0 DEF BatchStillTrue, DueUntilMarked
<1>7. DurableBeforeSend'
  BY <1>0, <1>1 DEF WakeInv, DurableBeforeSend, Unhandled, Handled
<1>. QED
  BY <1>2, <1>3, <1>4, <1>5, <1>6, <1>7 DEF WakeInv

\* What recordWake of a result writes.
LEMMA RecordSound ==
    ASSUME WakeTypeOK, NEW state \in {"waiting", "notified", "uncertain"}, NEW reached \in BOOLEAN,
           RecordWake(state, reached)
    PROVE  /\ msg' \in [Seqs -> Message]
           /\ \A q \in Seqs : msg'[q].state = "failed" => msg[q].state = "failed"
           /\ \A q \in Seqs : \/ msg'[q].notices = msg[q].notices
                              \/ reached /\ q \in batch.run /\ msg'[q].notices = msg[q].notices + 1
<1>. DEFINE next(q) == [msg[q] EXCEPT !.state = state, !.inProgress = FALSE, !.due = FALSE,
                                      !.notices = IF reached THEN @ + 1 ELSE @]
<1>1. ASSUME NEW q \in Seqs
      PROVE  /\ next(q) \in Message /\ next(q).state = state
             /\ next(q).notices = IF reached THEN msg[q].notices + 1 ELSE msg[q].notices
  <2>1. msg[q] \in Message
    BY DEF WakeTypeOK
  <2>2. CASE reached
    <3>1. next(q) = [msg[q] EXCEPT !.state = state, !.inProgress = FALSE, !.due = FALSE,
                                   !.notices = @ + 1]
      BY <2>2
    <3>2. msg[q].notices + 1 \in Nat
      BY <2>1 DEF Message
    <3>. HIDE DEF next
    <3>. QED
      BY <2>1, <2>2, <3>1, <3>2 DEF Message
  <2>3. CASE ~reached
    BY <2>1, <2>3 DEF Message
  <2>. QED
    BY <2>2, <2>3
<1>2. msg' = [q \in Seqs |-> IF q \in batch.run \cap Unhandled /\ msg[q].state = "uncertain" /\ msg[q].inProgress
                             THEN next(q) ELSE msg[q]]
  BY DEF RecordWake
<1>. HIDE DEF next
<1>3. ASSUME NEW q \in Seqs
      PROVE  msg'[q] = msg[q] \/ (q \in batch.run /\ msg'[q] = next(q))
  BY <1>2
<1>4. msg' \in [Seqs -> Message]
  BY <1>1, <1>2 DEF WakeTypeOK
<1>. QED
  BY <1>1, <1>3, <1>4

LEMMA ResultKeeps ==
    ASSUME WakeInv, NEW state \in {"waiting", "notified", "uncertain"}, NEW reached \in BOOLEAN,
           Result(state, reached)
    PROVE  WakeInv'
<1>. USE DEF Result, recipientVars, inboxVars, historyVars
<1>0. WakeTypeOK
  BY DEF WakeInv
<1>1. WakeTypeOK' /\ (submitted \in [Seqs -> 0..NoticeLimit])'
  BY <1>0, RecordSound DEF WakeInv, WakeTypeOK, Phase, NoBatch
<1>2. CountedWentOut'
  <2>. SUFFICES ASSUME NEW q \in Seqs, submitted[q] < NoticeLimit
                PROVE  msg'[q].notices <= submitted[q]
    BY <1>1, WakeAssumption DEF CountedWentOut, ResultPending, WakeTypeOK, Message
  <2>1. /\ reached => batch.effect = "reached"
        /\ msg[q].notices + (IF q \in batch.run /\ batch.effect = "reached" THEN 1 ELSE 0) <= submitted[q]
    BY DEF WakeInv, CountedWentOut, ResultPending
  <2>2. submitted[q] \in Nat /\ msg[q].notices \in Nat /\ msg'[q].notices \in Nat
    BY <1>0, <1>1, WakeAssumption DEF WakeInv, WakeTypeOK, Message
  <2>. QED
    BY <1>0, <2>1, <2>2, RecordSound
<1>3. FailedAfterNotices'
  BY <1>0, RecordSound DEF WakeInv, FailedAfterNotices
<1>4. (BatchStillTrue /\ DueUntilMarked /\ DurableBeforeSend)'
  BY DEF BatchStillTrue, DueUntilMarked, DurableBeforeSend
<1>. QED
  BY <1>1, <1>2, <1>3, <1>4 DEF WakeInv

LEMMA OfferKeeps ==
    ASSUME WakeInv, Offer
    PROVE  WakeInv'
<1>. USE DEF Offer, recipientVars, inboxVars, historyVars
<1>0. WakeTypeOK /\ submitted \in [Seqs -> 0..NoticeLimit]
  BY DEF WakeInv
<1>1. WakeTypeOK' /\ (submitted \in [Seqs -> 0..NoticeLimit])'
  BY <1>0, RecordSound, SubmitCounts DEF WakeTypeOK, Phase, NoBatch
<1>2. CountedWentOut'
  <2>. SUFFICES ASSUME NEW q \in Seqs, submitted'[q] < NoticeLimit
                PROVE  msg'[q].notices <= submitted'[q]
    BY <1>1, WakeAssumption DEF CountedWentOut, ResultPending, WakeTypeOK, Message
  <2>1. submitted[q] \in Nat /\ submitted'[q] \in Nat /\ msg[q].notices \in Nat /\ msg'[q].notices \in Nat
    BY <1>0, <1>1, WakeAssumption DEF WakeTypeOK, Message
  <2>2. submitted[q] < NoticeLimit /\ submitted[q] <= submitted'[q]
    BY <1>0, <2>1, SubmitCounts, WakeAssumption
  <2>3. msg[q].notices <= submitted[q]
    BY <2>1, <2>2 DEF WakeInv, CountedWentOut, ResultPending
  <2>4. q \in batch.run => submitted'[q] = submitted[q] + 1
    BY <1>0, SubmitCounts
  <2>5. msg'[q].notices = msg[q].notices \/ (q \in batch.run /\ msg'[q].notices = msg[q].notices + 1)
    BY <1>0, RecordSound
  <2>. QED
    BY <2>1, <2>2, <2>3, <2>4, <2>5
<1>3. FailedAfterNotices'
  <2>1. \A q \in Seqs : msg'[q].state = "failed" => msg[q].state = "failed"
    BY <1>0, RecordSound
  <2>. QED
    BY <1>0, <1>1, <2>1, SubmitCounts, WakeAssumption DEF WakeInv, FailedAfterNotices
<1>4. (BatchStillTrue /\ DueUntilMarked /\ DurableBeforeSend)'
  BY DEF BatchStillTrue, DueUntilMarked, DurableBeforeSend
<1>. QED
  BY <1>1, <1>2, <1>3, <1>4 DEF WakeInv

LEMMA InterruptKeeps ==
    ASSUME WakeInv, Interrupt
    PROVE  WakeInv'
<1>. USE DEF Interrupt, recipientVars, inboxVars, historyVars
<1>1. WakeTypeOK' /\ (submitted \in [Seqs -> 0..NoticeLimit])'
  BY DEF WakeInv, WakeTypeOK, Phase, NoBatch
<1>2. CountedWentOut'
  <2>. SUFFICES ASSUME NEW q \in Seqs, submitted[q] < NoticeLimit
                PROVE  msg[q].notices <= submitted[q]
    BY <1>1 DEF CountedWentOut, ResultPending, WakeTypeOK, Message
  <2>1. submitted[q] \in Nat /\ msg[q].notices \in Nat
    BY WakeAssumption DEF WakeInv, WakeTypeOK, Message
  <2>. QED
    BY <2>1 DEF WakeInv, CountedWentOut, ResultPending
<1>3. (BatchStillTrue /\ DueUntilMarked /\ DurableBeforeSend /\ FailedAfterNotices)'
  BY DEF WakeInv, BatchStillTrue, DueUntilMarked, DurableBeforeSend, FailedAfterNotices
<1>. QED
  BY <1>1, <1>2, <1>3 DEF WakeInv

\* A new message is in no batch; one that is read only leaves the unhandled.
LEMMA InboxStepKeeps ==
    ASSUME WakeInv, NewMessage \/ (\E q \in Seqs : Read(q)) \/ Expire \/ Register
    PROVE  WakeInv'
<1>. USE DEF recipientVars, inboxVars, historyVars
<1>0. WakeTypeOK
  BY DEF WakeInv
<1>1. /\ msg' = msg /\ submitted' = submitted /\ pc' = pc /\ batch' = batch /\ holder' = holder /\ acked' = acked
      /\ agy' = agy
  BY DEF NewMessage, Read, Expire, Register
<1>2. /\ last \in Nat /\ last' \in 0..MaxSeq /\ last <= last'
      /\ acked' \in 0..last' /\ read' \in 0..last'
  <2>1. /\ last \in Nat /\ last <= MaxSeq /\ acked \in Nat /\ acked <= last
        /\ read \in Nat /\ read <= last
    BY <1>0, WakeAssumption DEF WakeTypeOK
  <2>2. CASE NewMessage
    BY <2>1, <2>2, WakeAssumption DEF NewMessage
  <2>3. CASE \E q \in Seqs : Read(q)
    BY <2>1, <2>3, SeqsNat, WakeAssumption DEF Read
  <2>4. CASE Expire \/ Register
    BY <2>1, <2>4, WakeAssumption DEF Expire, Register
  <2>. QED
    BY <2>2, <2>3, <2>4
<1>2a. present' \in BOOLEAN
  BY <1>0 DEF WakeTypeOK, NewMessage, Read, Expire, Register
<1>3. WakeTypeOK' /\ (submitted \in [Seqs -> 0..NoticeLimit])'
  BY <1>0, <1>1, <1>2, <1>2a DEF WakeInv, WakeTypeOK
<1>4. batch.run \cap Unhandled' \subseteq batch.run \cap Unhandled
  <2>1. /\ last \in Nat /\ acked \in Nat /\ read \in Nat /\ batch.run \subseteq 1..last
    BY <1>0, WakeAssumption DEF WakeTypeOK
  <2>2. CASE NewMessage
    BY <2>1, <2>2 DEF NewMessage, Unhandled, Handled
  <2>3. CASE \E q \in Seqs : Read(q)
    <3>1. PICK p \in Seqs : Read(p)
      BY <2>3
    <3>2. p \in Nat /\ Handled < p /\ read' = p /\ last' = last /\ acked' = acked
      BY <3>1, SeqsNat DEF Read
    <3>3. Handled \in Nat /\ Handled' \in Nat /\ Handled < Handled'
      BY <2>1, <3>2 DEF Handled
    <3>. QED
      BY <2>1, <3>2, <3>3, SeqsNat DEF Unhandled
  <2>4. CASE Expire \/ Register
    BY <2>4 DEF Expire, Register, Unhandled, Handled
  <2>. QED
    BY <2>2, <2>3, <2>4
<1>5. (DueUntilMarked /\ DurableBeforeSend)'
  BY <1>1, <1>4 DEF WakeInv, DueUntilMarked, DurableBeforeSend, Wakeable
<1>6. (BatchStillTrue /\ CountedWentOut /\ FailedAfterNotices)'
  BY <1>1 DEF WakeInv, BatchStillTrue, CountedWentOut, ResultPending, FailedAfterNotices
<1>. QED
  BY <1>3, <1>5, <1>6 DEF WakeInv

\* An acknowledgement waits for the lock: no batch is under way.
LEMMA AckKeeps ==
    ASSUME WakeInv, NEW q \in Seqs, Ack(q)
    PROVE  WakeInv'
<1>. USE DEF Ack, recipientVars, inboxVars, historyVars
<1>1. pc' = pc /\ pc \notin {"mark", "send", "result"} /\ msg' = msg /\ submitted' = submitted
  BY DEF Free
<1>2. WakeTypeOK' /\ (submitted \in [Seqs -> 0..NoticeLimit])'
  BY SeqsNat, WakeAssumption DEF WakeInv, WakeTypeOK
<1>3. (BatchStillTrue /\ DueUntilMarked /\ DurableBeforeSend /\ CountedWentOut /\ FailedAfterNotices)'
  BY <1>1 DEF WakeInv, BatchStillTrue, DueUntilMarked, DurableBeforeSend, CountedWentOut, ResultPending,
     FailedAfterNotices
<1>. QED
  BY <1>2, <1>3 DEF WakeInv

\* A holder change waits for it as well, and starts the listed messages afresh.
LEMMA ChangeHolderKeeps ==
    ASSUME WakeInv, NEW r \in Recipient, ChangeHolder(r)
    PROVE  WakeInv'
<1>. USE DEF ChangeHolder
<1>0. WakeTypeOK /\ submitted \in [Seqs -> 0..NoticeLimit]
  BY DEF WakeInv
<1>1. pc' = pc /\ pc \notin {"mark", "send", "result"}
  BY DEF Free
<1>2. Fresh \in Message /\ Fresh.notices = 0 /\ Fresh.state = "waiting"
  BY DEF Fresh, Message
<1>3. /\ msg' \in [Seqs -> Message]
      /\ \A q \in Seqs : \/ msg'[q] = msg[q] /\ (q > acked => msg[q].state # "failed")
                         \/ msg'[q] = Fresh
  BY <1>0, <1>2 DEF WakeTypeOK
<1>a. \A q \in Seqs : msg'[q].notices \in Nat
  BY <1>3 DEF Message
<1>b. ASSUME NEW n \in Nat
      PROVE  Capped(n) \in 0..NoticeLimit /\ (Capped(n) < NoticeLimit => n = Capped(n))
  BY WakeAssumption DEF Capped
<1>c. submitted' \in [Seqs -> 0..NoticeLimit]
  BY <1>0, <1>a, <1>b
<1>4. WakeTypeOK' /\ (submitted \in [Seqs -> 0..NoticeLimit])'
  BY <1>0, <1>3, <1>c DEF WakeTypeOK
<1>5. CountedWentOut'
  <2>. SUFFICES ASSUME NEW q \in Seqs, submitted'[q] < NoticeLimit
                PROVE  msg'[q].notices <= submitted'[q]
    BY <1>1, <1>a DEF CountedWentOut, ResultPending
  <2>1. CASE q > acked
    <3>1. submitted'[q] = Capped(msg'[q].notices)
      BY <2>1
    <3>. QED
      BY <1>a, <1>b, <3>1
  <2>2. CASE ~(q > acked)
    <3>1. submitted'[q] = submitted[q] /\ msg'[q] = msg[q]
      BY <1>0, <2>2
    <3>2. msg[q].notices \in Nat
      BY <1>0 DEF WakeTypeOK, Message
    <3>. QED
      BY <1>1, <3>1, <3>2 DEF WakeInv, CountedWentOut, ResultPending
  <2>. QED
    BY <2>1, <2>2
<1>6. FailedAfterNotices'
  <2>. SUFFICES ASSUME NEW q \in Seqs, msg'[q].state = "failed"
                PROVE  submitted'[q] = NoticeLimit
    BY DEF FailedAfterNotices
  <2>1. ~(q > acked) /\ msg'[q] = msg[q]
    BY <1>2, <1>3
  <2>2. submitted'[q] = submitted[q]
    BY <1>0, <2>1
  <2>. QED
    BY <2>1, <2>2 DEF WakeInv, FailedAfterNotices
<1>7. (BatchStillTrue /\ DueUntilMarked /\ DurableBeforeSend)'
  BY <1>1 DEF BatchStillTrue, DueUntilMarked, DurableBeforeSend
<1>. QED
  BY <1>4, <1>5, <1>6, <1>7 DEF WakeInv

\* Time only makes messages due.
LEMMA TimeKeeps ==
    ASSUME WakeInv, (\E q \in Seqs : Elapse(q)) \/ (\E noticed \in SUBSET Seqs : CheckTurns(noticed))
    PROVE  WakeInv'
<1>. USE DEF recipientVars, inboxVars, historyVars
<1>0. WakeTypeOK
  BY DEF WakeInv
<1>1. /\ UNCHANGED <<agy, holder, present, last, acked, read, pc, batch, submitted>>
      /\ \E due \in SUBSET Seqs :
            msg' = [q \in Seqs |-> IF q \in due THEN [msg[q] EXCEPT !.due = TRUE] ELSE msg[q]]
  <2>1. CASE \E q \in Seqs : Elapse(q)
    <3>1. PICK p \in Seqs : Elapse(p)
      BY <2>1
    <3>2. msg' = [q \in Seqs |-> IF q \in {p} THEN [msg[q] EXCEPT !.due = TRUE] ELSE msg[q]]
      BY <1>0, <3>1 DEF Elapse, WakeTypeOK
    <3>. QED
      BY <3>1, <3>2 DEF Elapse
  <2>2. CASE \E noticed \in SUBSET Seqs : CheckTurns(noticed)
    BY <2>2 DEF CheckTurns
  <2>. QED
    BY <2>1, <2>2
<1>2. /\ msg' \in [Seqs -> Message]
      /\ \A q \in Seqs : /\ msg'[q].state = msg[q].state /\ msg'[q].notices = msg[q].notices
                         /\ msg'[q].inProgress = msg[q].inProgress
                         /\ msg[q].due => msg'[q].due
  <2>1. PICK due \in SUBSET Seqs :
            msg' = [q \in Seqs |-> IF q \in due THEN [msg[q] EXCEPT !.due = TRUE] ELSE msg[q]]
    BY <1>1
  <2>2. ASSUME NEW q \in Seqs
        PROVE  LET m == [msg[q] EXCEPT !.due = TRUE]
               IN  /\ m \in Message /\ m.state = msg[q].state /\ m.notices = msg[q].notices
                   /\ m.inProgress = msg[q].inProgress /\ m.due
    BY <1>0 DEF WakeTypeOK, Message
  <2>3. msg' \in [Seqs -> Message]
    BY <1>0, <2>1, <2>2 DEF WakeTypeOK
  <2>. QED
    BY <2>1, <2>2, <2>3
<1>3. WakeTypeOK' /\ (submitted \in [Seqs -> 0..NoticeLimit])'
  BY <1>1, <1>2 DEF WakeInv, WakeTypeOK
<1>4. Unhandled' = Unhandled
  BY <1>1 DEF Unhandled, Handled
<1>5. (DueUntilMarked /\ DurableBeforeSend)'
  BY <1>0, <1>1, <1>2, <1>4, PendingIsDue DEF WakeInv, DueUntilMarked, DurableBeforeSend, Wakeable
<1>6. (BatchStillTrue /\ CountedWentOut /\ FailedAfterNotices)'
  BY <1>1, <1>2 DEF WakeInv, BatchStillTrue, CountedWentOut, ResultPending, FailedAfterNotices
<1>. QED
  BY <1>3, <1>5, <1>6 DEF WakeInv

LEMMA WakeStutterKeeps ==
    ASSUME WakeInv, UNCHANGED vars
    PROVE  WakeInv'
BY DEF WakeInv, WakeTypeOK, BatchStillTrue, DueUntilMarked, DurableBeforeSend, CountedWentOut, ResultPending,
   FailedAfterNotices, Unhandled, Handled, Wakeable, vars

\* The wake worker's invariant holds in every reachable state.
LEMMA WakeInvariant == Spec => []WakeInv
<1>1. ASSUME WakeInv, [Next]_vars
      PROVE  WakeInv'
  <2>1. CASE Pass
    BY <1>1, <2>1, PassKeeps, FailKeeps DEF Pass
  <2>2. CASE StopHook \/ PaneHeld
    BY <1>1, <2>2, PassKeeps
  <2>3. CASE Submission
    BY <1>1, <2>3, PickKeeps, FailKeeps, MarkKeeps, SendKeeps, ResultKeeps, OfferKeeps
       DEF Submission, Reached, NotReached
  <2>4. CASE Interrupt
    BY <1>1, <2>4, InterruptKeeps
  <2>5. CASE NewMessage \/ Expire \/ Register \/ (\E q \in Seqs : Read(q))
    BY <1>1, <2>5, InboxStepKeeps
  <2>6. CASE \E q \in Seqs : Ack(q)
    BY <1>1, <2>6, AckKeeps
  <2>7. CASE \E r \in Recipient : ChangeHolder(r)
    BY <1>1, <2>7, ChangeHolderKeeps
  <2>8. CASE (\E q \in Seqs : Elapse(q)) \/ (\E noticed \in SUBSET Seqs : CheckTurns(noticed))
    BY <1>1, <2>8, TimeKeeps
  <2>9. CASE UNCHANGED vars
    BY <1>1, <2>9, WakeStutterKeeps
  <2>. QED
    BY <1>1, <2>1, <2>2, <2>3, <2>4, <2>5, <2>6, <2>7, <2>8, <2>9 DEF Next
<1>. QED
  BY <1>1, WakeInitInv, PTL DEF Spec

\* The notice about to go out is for the session that still holds the inbox and
\* names nothing acknowledged, and its uncertainty is durable before the
\* adapter is called (submitWake, recordWake), whatever came in between.
THEOREM SubmissionSoundThm == Spec => []SubmissionSound
<1>1. WakeInv => SubmissionSound
  BY DEF WakeInv, BatchStillTrue, SubmissionSound, SubmissionStillTrue
<1>. QED
  BY <1>1, WakeInvariant, PTL

\* A message fails only after NoticeLimit notices of it that may have reached an agent
\* (recordWake, failUnhandled): attempts that a stop cut off and calls whose notice the
\* adapter did not give never count, and neither does what a new holder's row left behind.
THEOREM FailedAfterNoticesThm == Spec => []FailedAfterNotices
<1>1. WakeInv => FailedAfterNotices
  BY DEF WakeInv
<1>. QED
  BY <1>1, WakeInvariant, PTL

-----------------------------------------------------------------------------
(* Notices of work changes: the largest of a bounded set *)

LEMMA LeastNatural ==
    ASSUME NEW T \in SUBSET Nat, T # {}
    PROVE  \E x \in T : \A y \in T : x <= y
<1>1. PICK x \in T : \A y \in T : ~(<<y, x>> \in OpToRel(<, Nat))
  BY WFMin, NatLessThanWellFounded, Zenon
<1>2. ASSUME NEW y \in T, y < x
      PROVE  FALSE
  <2>1. <<y, x>> \in OpToRel(<, Nat)
    BY <1>2 DEF OpToRel
  <2>. QED
    BY <2>1, <1>1
<1>. QED
  BY <1>2

\* LastEventOf picks an element of a nonempty set of event numbers.
LEMMA LastEventIsOne ==
    ASSUME NEW n \in Nat, NEW S \in SUBSET (1..n), S # {}
    PROVE  LastEventOf(S) \in S
<1>. DEFINE Below == {d \in Nat : n - d \in S}
<1>1. \A j \in S : n - j \in Below
  OBVIOUS
<1>2. Below \in SUBSET Nat /\ Below # {}
  BY <1>1
<1>. HIDE DEF Below
<1>3. PICK d \in Below : \A e \in Below : d <= e
  BY <1>2, LeastNatural
<1>4. d \in Nat /\ n - d \in S
  BY <1>3 DEF Below
<1>5. ASSUME NEW j \in S
      PROVE  j <= n - d
  <2>1. d <= n - j
    BY <1>1, <1>3
  <2>. QED
    BY <2>1, <1>4
<1>. QED
  BY <1>4, <1>5 DEF LastEventOf

-----------------------------------------------------------------------------
(* The pass *)

WorkEvent == [item : NoticeItems, kind : {"created", "proposed", "touched", "reported", "accepted", "rejected"},
              to : NoticeRoles \cup {NoAudience}, reporter : NoticeRoles \cup {NoAudience}]

AudienceRow == [stored : BOOLEAN, head : Nat, notice : Nat, message : {"none", "pending", "handled"}]

PassType == [step : {"idle", "scan", "unused", "clean", "reconcile"}, head : Nat,
             heads : [Audiences -> Nat], left : SUBSET Audiences]

WorkNoticesTypeOK ==
    /\ events \in Seq(WorkEvent)
    /\ rows \in [Audiences -> AudienceRow]
    /\ pass \in PassType
    /\ told \in [Audiences -> Nat]
    /\ calm \in BOOLEAN

\* What QuietPassTellsAll says of one audience.
IsTold(a) ==
    \/ told[a] >= AudienceHead(a)
    \/ Pending(a)
    \/ a \notin held
    \/ ~rows[a].stored /\ Cardinality(StoredRows) >= MaxAudiences

\* The heads of an undisturbed pass are those of the retained events.
ScannedIsCurrent ==
    calm /\ pass.step \in {"unused", "clean"} => \A a \in Audiences : pass.heads[a] = AudienceHead(a)

\* What such a pass has not left to do, it has done.
DoneIsTold ==
    calm /\ pass.step = "reconcile" =>
        \A a \in Audiences : AudienceHead(a) > 0 =>
            IF a \in pass.left THEN pass.heads[a] = AudienceHead(a) ELSE IsTold(a)

WorkNoticesInv ==
    /\ WorkNoticesTypeOK
    /\ \A a \in Audiences : rows[a].notice <= told[a]
    /\ ScannedIsCurrent
    /\ DoneIsTold
    /\ QuietPassTellsAll

LEMMA EventsOfSubset ==
    ASSUME NEW w, NEW n \in Nat
    PROVE  EventsOf(w, n) \in SUBSET (1..n)
BY DEF EventsOf

LEMMA AudienceHeadNat ==
    ASSUME WorkNoticesTypeOK, NEW a \in Audiences
    PROVE  AudienceHead(a) \in Nat
<1>1. Len(events) \in Nat
  BY DEF WorkNoticesTypeOK
<1>2. ASSUME NEW S \in SUBSET (1..Len(events))
      PROVE  (IF S = {} THEN 0 ELSE LastEventOf(S)) \in Nat
  <2>1. CASE S = {}
    BY <2>1
  <2>2. CASE S # {}
    <3>1. LastEventOf(S) \in S
      BY <1>1, <2>2, LastEventIsOne
    <3>2. LastEventOf(S) \in 1..Len(events)
      BY <3>1
    <3>. HIDE DEF LastEventOf
    <3>. QED
      BY <1>1, <2>2, <3>2
  <2>. QED
    BY <2>1, <2>2
<1>. QED
  BY <1>2 DEF AudienceHead

\* The heads depend on the retained events alone.
LEMMA AudienceHeadKept ==
    ASSUME UNCHANGED <<events, expired>>
    PROVE  \A a \in Audiences : AudienceHead(a)' = AudienceHead(a)
BY DEF AudienceHead, EventRetained, Concerns, Previous, EventsOf

LEMMA WorkNoticesInitInv == WorkNoticesInit => WorkNoticesInv
<1>. SUFFICES ASSUME WorkNoticesInit PROVE WorkNoticesInv
  OBVIOUS
<1>1. NoRow \in AudienceRow /\ NoRow.notice = 0
  BY DEF NoRow, AudienceRow
<1>2. WorkNoticesTypeOK
  <2>1. pass \in PassType
    BY DEF WorkNoticesInit, IdlePass, PassType
  <2>2. calm \in BOOLEAN
    BY DEF WorkNoticesInit
  <2>. QED
    BY <1>1, <2>1, <2>2 DEF WorkNoticesInit, WorkNoticesTypeOK
<1>. QED
  BY <1>1, <1>2 DEF WorkNoticesInit, WorkNoticesInv, ScannedIsCurrent, DoneIsTold, QuietPassTellsAll

\* A step beside the pass needs only to keep the types.
LEMMA DisturbedKeeps ==
    ASSUME WorkNoticesTypeOK', calm' = FALSE, \A a \in Audiences : rows'[a].notice <= told'[a]
    PROVE  WorkNoticesInv'
BY DEF WorkNoticesInv, ScannedIsCurrent, DoneIsTold, QuietPassTellsAll

LEMMA TransitionKeeps ==
    ASSUME WorkNoticesInv, NEW w \in NoticeItems,
           NEW kind \in {"created", "proposed", "touched", "reported", "accepted", "rejected"},
           NEW to \in NoticeRoles \cup {NoAudience}, NEW reporter \in NoticeRoles \cup {NoAudience},
           Transition(w, kind, to, reporter)
    PROVE  WorkNoticesInv'
<1>1. [item |-> w, kind |-> kind, to |-> to, reporter |-> reporter] \in WorkEvent
  BY DEF WorkEvent
<1>2. events' \in Seq(WorkEvent)
  BY <1>1 DEF Transition, WorkNoticesInv, WorkNoticesTypeOK
<1>3. WorkNoticesTypeOK' /\ calm' = FALSE
  BY <1>2 DEF Transition, Other, WorkNoticesInv, WorkNoticesTypeOK
<1>. QED
  BY <1>3, DisturbedKeeps DEF Transition, Other, WorkNoticesInv

LEMMA EventType ==
    ASSUME WorkNoticesTypeOK, NEW i \in 1..Len(events)
    PROVE  /\ events[i].to \in NoticeRoles \cup {NoAudience}
           /\ events[i].reporter \in NoticeRoles \cup {NoAudience}
<1>1. events[i] \in WorkEvent
  BY DEF WorkNoticesTypeOK
<1>. QED
  BY <1>1 DEF WorkEvent

\* The events that the routed transitions look back at exist.
LEMMA AssignedType ==
    ASSUME WorkNoticesTypeOK, NEW w \in NoticeItems, Exists(w)
    PROVE  Assigned(w) \in NoticeRoles \cup {NoAudience}
<1>1. Len(events) \in Nat /\ EventsOf(w, Len(events)) \in SUBSET (1..Len(events))
  BY EventsOfSubset DEF WorkNoticesTypeOK
<1>2. LastEventOf(EventsOf(w, Len(events))) \in 1..Len(events)
  BY <1>1, LastEventIsOne DEF Exists
<1>. QED
  BY <1>2, EventType DEF Assigned

LEMMA ReporterType ==
    ASSUME WorkNoticesTypeOK, NEW w \in NoticeItems, Exists(w), Lifecycle(w) = "reported"
    PROVE  events[LastEvent(w, {"reported"})].reporter \in NoticeRoles \cup {NoAudience}
<1>. DEFINE Of(kinds) == {i \in EventsOf(w, Len(events)) : events[i].kind \in kinds}
<1>1. /\ Len(events) \in Nat
      /\ \A kinds : Of(kinds) \in SUBSET (1..Len(events))
  BY EventsOfSubset DEF WorkNoticesTypeOK
<1>2. Of(Rounds) # {} /\ events[LastEvent(w, Rounds)].kind = "reported"
  BY DEF Lifecycle
<1>3. LastEvent(w, Rounds) \in Of(Rounds)
  BY <1>1, <1>2, LastEventIsOne DEF LastEvent
<1>4. Of({"reported"}) # {}
  BY <1>2, <1>3
<1>5. LastEvent(w, {"reported"}) \in Of({"reported"})
  BY <1>1, <1>4, LastEventIsOne DEF LastEvent
<1>. QED
  BY <1>1, <1>5, EventType

LEMMA RoutedKeeps ==
    ASSUME WorkNoticesInv, CreateItem \/ ProposeItem \/ TouchItem \/ ReportItem \/ DecideItem
    PROVE  WorkNoticesInv'
<1>0. WorkNoticesTypeOK
  BY DEF WorkNoticesInv
<1>1. CASE CreateItem
  BY <1>1, TransitionKeeps DEF CreateItem
<1>2. CASE ProposeItem
  BY <1>2, TransitionKeeps DEF ProposeItem
<1>3. CASE TouchItem
  BY <1>0, <1>3, TransitionKeeps, AssignedType DEF TouchItem
<1>4. CASE ReportItem
  BY <1>0, <1>4, TransitionKeeps, AssignedType DEF ReportItem
<1>5. CASE DecideItem
  BY <1>0, <1>5, TransitionKeeps, AssignedType, ReporterType DEF DecideItem
<1>. QED
  BY <1>1, <1>2, <1>3, <1>4, <1>5

LEMMA OtherKeeps ==
    ASSUME WorkNoticesInv, ExpireItem \/ Handle \/ RecipientChanges
    PROVE  WorkNoticesInv'
<1>1. calm' = FALSE /\ UNCHANGED <<events, pass, told>>
  BY DEF ExpireItem, Handle, RecipientChanges, Other
<1>2. rows' \in [Audiences -> AudienceRow] /\ \A a \in Audiences : rows'[a].notice = rows[a].notice
  <2>1. CASE Handle
    <3>1. PICK a \in Audiences : rows' = [rows EXCEPT ![a].message = "handled"]
      BY <2>1 DEF Handle
    <3>2. rows \in [Audiences -> AudienceRow]
      BY DEF WorkNoticesInv, WorkNoticesTypeOK
    <3>3. [rows[a] EXCEPT !.message = "handled"] \in AudienceRow
      BY <3>2 DEF AudienceRow
    <3>4. rows' \in [Audiences -> AudienceRow]
      BY <3>1, <3>2, <3>3
    <3>. QED
      BY <3>1, <3>2, <3>4 DEF AudienceRow
  <2>2. CASE ExpireItem \/ RecipientChanges
    BY <2>2 DEF ExpireItem, RecipientChanges, WorkNoticesInv, WorkNoticesTypeOK
  <2>. QED
    BY <2>1, <2>2
<1>3. WorkNoticesTypeOK'
  BY <1>1, <1>2 DEF WorkNoticesInv, WorkNoticesTypeOK
<1>. QED
  BY <1>1, <1>2, <1>3, DisturbedKeeps DEF WorkNoticesInv

\* NextKey is one of the keys that are left.
LEMMA NextKeyIsLeft ==
    ASSUME pass.left # {}
    PROVE  NextKey \in pass.left
BY DEF NextKey

LEMMA BrokenPassKeeps ==
    ASSUME WorkNoticesInv, WriteRefused \/ PassStops
    PROVE  WorkNoticesInv'
<1>0. pass \in PassType
  BY DEF WorkNoticesInv, WorkNoticesTypeOK
<1>1. calm' = FALSE /\ UNCHANGED <<events, rows, told>>
  BY DEF WriteRefused, PassStops
<1>2. pass' \in PassType
  <2>1. IdlePass \in PassType
    BY DEF IdlePass, PassType
  <2>2. ToReconcile \in PassType
    BY <1>0 DEF ToReconcile, PassType
  <2>3. ASSUME NEW a \in Audiences PROVE Done(a) \in PassType
    BY <1>0 DEF Done, PassType
  <2>4. pass.left # {} => NextKey \in Audiences
    BY <1>0, NextKeyIsLeft DEF PassType
  <2>. QED
    BY <2>1, <2>2, <2>3, <2>4 DEF WriteRefused, PassStops
<1>3. WorkNoticesTypeOK'
  BY <1>1, <1>2 DEF WorkNoticesInv, WorkNoticesTypeOK
<1>. QED
  BY <1>1, <1>3, DisturbedKeeps DEF WorkNoticesInv

\* The steps before the reconciliation: they change no row that names a head.
LEMMA CleaningKeeps ==
    ASSUME WorkNoticesInv, PassBegin \/ PassScan \/ CleanList \/ CleanOne \/ CleanEnds
    PROVE  WorkNoticesInv'
<1>0. /\ WorkNoticesTypeOK /\ pass \in PassType /\ calm \in BOOLEAN
      /\ Len(events) \in Nat /\ rows \in [Audiences -> AudienceRow] /\ told \in [Audiences -> Nat]
  BY DEF WorkNoticesInv, WorkNoticesTypeOK
<1>1. UNCHANGED <<events, expired, held, told>> /\ (calm' = calm \/ calm' = TRUE)
  BY DEF PassBegin, PassScan, CleanList, CleanOne, CleanEnds
<1>2. \A a \in Audiences : AudienceHead(a)' = AudienceHead(a) /\ AudienceHead(a) \in Nat
  BY <1>0, <1>1, AudienceHeadKept, AudienceHeadNat
<1>3. rows' \in [Audiences -> AudienceRow] /\ \A a \in Audiences : rows'[a].notice <= told[a]
  <2>1. NoRow \in AudienceRow /\ NoRow.notice = 0
    BY DEF NoRow, AudienceRow
  <2>2. CASE CleanOne
    BY <1>0, <2>1, <2>2 DEF CleanOne, WorkNoticesInv, PassType
  <2>3. CASE ~CleanOne
    BY <1>0, <2>3 DEF PassBegin, PassScan, CleanList, CleanEnds, WorkNoticesInv
  <2>. QED
    BY <2>2, <2>3
<1>4. pass' \in PassType
  <2>1. CASE PassBegin
    BY <1>0, <2>1 DEF PassBegin, IdlePass, PassType
  <2>2. CASE PassScan
    BY <1>0, <1>2, <2>2 DEF PassScan, AudienceHeads, PassType
  <2>3. CASE CleanList \/ CleanOne
    BY <1>0, <2>3 DEF CleanList, CleanOne, PassType
  <2>4. CASE CleanEnds
    BY <1>0, <2>4 DEF CleanEnds, ToReconcile, PassType
  <2>. QED
    BY <2>1, <2>2, <2>3, <2>4
<1>5. calm' \in BOOLEAN
  BY <1>0, <1>1
<1>6. WorkNoticesTypeOK'
  BY <1>0, <1>1, <1>3, <1>4, <1>5 DEF WorkNoticesTypeOK
<1>7. ScannedIsCurrent'
  <2>1. CASE PassBegin \/ CleanEnds
    BY <2>1, <1>0 DEF PassBegin, CleanEnds, ToReconcile, IdlePass, ScannedIsCurrent, PassType
  <2>2. CASE PassScan
    BY <1>0, <1>2, <2>2 DEF PassScan, AudienceHeads, ScannedIsCurrent, PassType
  <2>3. CASE CleanList \/ CleanOne
    <3>1. pass.step \in {"unused", "clean"} /\ pass'.heads = pass.heads /\ calm' = calm
      BY <1>0, <2>3 DEF CleanList, CleanOne, PassType
    <3>. QED
      BY <1>2, <3>1 DEF WorkNoticesInv, ScannedIsCurrent
  <2>. QED
    BY <2>1, <2>2, <2>3
<1>8. DoneIsTold'
  <2>1. CASE PassBegin \/ PassScan \/ CleanList \/ CleanOne
    <3>1. pass'.step # "reconcile"
      BY <1>0, <2>1 DEF PassBegin, PassScan, CleanList, CleanOne, IdlePass, PassType
    <3>. QED
      BY <3>1 DEF DoneIsTold
  <2>2. CASE CleanEnds
    <3>1. /\ calm' = calm /\ pass.step = "clean" /\ pass'.heads = pass.heads
          /\ pass'.left = {a \in Audiences : pass.heads[a] > 0}
      BY <1>0, <2>2 DEF CleanEnds, ToReconcile, PassType
    <3>. QED
      BY <1>2, <3>1 DEF DoneIsTold, ScannedIsCurrent, WorkNoticesInv
  <2>. QED
    BY <2>1, <2>2
<1>9. QuietPassTellsAll'
  <2>1. pass'.step # "idle"
    BY <1>0 DEF PassBegin, PassScan, CleanList, CleanOne, CleanEnds, ToReconcile, IdlePass, PassType
  <2>. QED
    BY <2>1 DEF QuietPassTellsAll
<1>. QED
  BY <1>1, <1>3, <1>6, <1>7, <1>8, <1>9 DEF WorkNoticesInv

\* reconcileAudience: whatever it found in the row, the audience is told of the head,
\* or its message is unread, or nobody holds it.
LEMMA ReconciledTells ==
    ASSUME WorkNoticesInv, NEW a \in Audiences, NEW head \in Nat, NEW r,
           r = Reconciled(a, head)
    PROVE  /\ r \in AudienceRow
           /\ rows[a].stored => r.stored
           /\ r.notice >= head \/ r.message = "pending" \/ a \notin held
           /\ \/ r.notice = rows[a].notice
              \/ r.message = "pending" /\ rows[a].message # "pending" /\ r.notice = r.head
<1>. DEFINE h == Later2(rows[a].head, head)
            s == [rows[a] EXCEPT !.stored = TRUE, !.head = h]
<1>1. rows[a] \in AudienceRow
  BY DEF WorkNoticesInv, WorkNoticesTypeOK
<1>2. h \in Nat /\ h >= head
  BY <1>1 DEF Later2, AudienceRow
<1>3. s \in AudienceRow /\ s.stored /\ s.head = h /\ s.notice = rows[a].notice /\ s.message = rows[a].message
  BY <1>1, <1>2 DEF AudienceRow
<1>4. r = CASE s.message = "pending" -> s
            [] s.message # "pending" /\ s.head <= s.notice -> [rows[a] EXCEPT !.message = "none"]
            [] s.message # "pending" /\ s.head > s.notice /\ a \notin held -> [s EXCEPT !.message = "none"]
            [] OTHER -> [s EXCEPT !.notice = s.head, !.message = "pending"]
  BY DEF Reconciled
<1>. HIDE DEF h, s
<1>5. CASE s.message = "pending"
  BY <1>3, <1>4, <1>5
<1>6. CASE s.message # "pending" /\ s.head <= s.notice
  <2>0. ~(s.head > s.notice)
    BY <1>3, <1>6 DEF AudienceRow
  <2>1. r = [rows[a] EXCEPT !.message = "none"]
    BY <1>4, <1>6, <2>0
  <2>2. r \in AudienceRow /\ r.stored = rows[a].stored /\ r.notice = rows[a].notice
    BY <1>1, <2>1 DEF AudienceRow
  <2>3. r.notice >= head
    BY <1>1, <1>2, <1>3, <1>6, <2>2 DEF AudienceRow
  <2>. QED
    BY <2>2, <2>3
<1>7. CASE s.message # "pending" /\ ~(s.head <= s.notice) /\ a \notin held
  <2>1. s.head > s.notice
    BY <1>3, <1>7 DEF AudienceRow
  <2>2. r = [s EXCEPT !.message = "none"]
    BY <1>4, <1>7, <2>1
  <2>. QED
    BY <1>3, <1>7, <2>2 DEF AudienceRow
<1>8. CASE s.message # "pending" /\ ~(s.head <= s.notice) /\ a \in held
  <2>1. r = [s EXCEPT !.notice = s.head, !.message = "pending"]
    BY <1>4, <1>8
  <2>. QED
    BY <1>3, <1>8, <2>1 DEF AudienceRow
<1>. QED
  BY <1>5, <1>6, <1>7, <1>8

\* One audience: it is told, or waits for a free row, and no other row is touched.
LEMMA ReconcileOneKeeps ==
    ASSUME WorkNoticesInv, ReconcileOne
    PROVE  WorkNoticesInv'
<1>a. PICK a : a = NextKey
  OBVIOUS
<1>. DEFINE head == pass.heads[a]
            full == ~rows[a].stored /\ Cardinality(StoredRows) >= MaxAudiences
            row == IF Settled(rows[a], head) \/ full THEN rows[a] ELSE Reconciled(a, head)
<1>0. /\ WorkNoticesTypeOK /\ pass \in PassType /\ calm \in BOOLEAN
      /\ rows \in [Audiences -> AudienceRow] /\ told \in [Audiences -> Nat]
  BY DEF WorkNoticesInv, WorkNoticesTypeOK
<1>1. /\ pass.step = "reconcile" /\ pass.left # {} /\ pass' = Done(a)
      /\ rows' = [rows EXCEPT ![a] = row]
      /\ told' = IF row.message = "pending" /\ rows[a].message # "pending"
                 THEN [told EXCEPT ![a] = Later2(@, row.head)] ELSE told
      /\ UNCHANGED <<events, expired, held, calm>>
  BY <1>a DEF ReconcileOne, Pending
<1>2. a \in pass.left /\ a \in Audiences /\ head \in Nat
  BY <1>0, <1>1, <1>a, NextKeyIsLeft DEF PassType
<1>3. rows[a] \in AudienceRow /\ rows[a].notice <= told[a] /\ told[a] \in Nat
  BY <1>0, <1>2 DEF WorkNoticesInv
<1>4. /\ row \in AudienceRow
      /\ rows[a].stored => row.stored
      /\ row.notice >= head \/ row.message = "pending" \/ a \notin held \/ (full /\ row = rows[a])
      /\ \/ row.notice = rows[a].notice
         \/ row.message = "pending" /\ rows[a].message # "pending" /\ row.notice = row.head
  <2>1. CASE Settled(rows[a], head)
    <3>1. rows[a].notice >= head \/ rows[a].message = "pending"
      BY <1>2, <1>3, <2>1 DEF Settled, AudienceRow
    <3>. QED
      BY <1>3, <2>1, <3>1
  <2>2. CASE ~Settled(rows[a], head) /\ full
    BY <1>3, <2>2
  <2>3. CASE ~Settled(rows[a], head) /\ ~full
    BY <1>2, <2>3, ReconciledTells
  <2>. QED
    BY <2>1, <2>2, <2>3
<1>. HIDE DEF row
<1>5. /\ rows' \in [Audiences -> AudienceRow] /\ rows'[a] = row
      /\ \A b \in Audiences \ {a} : rows'[b] = rows[b]
  BY <1>0, <1>1, <1>2, <1>4
<1>6. /\ told' \in [Audiences -> Nat]
      /\ \A b \in Audiences \ {a} : told'[b] = told[b]
      /\ told'[a] >= row.notice /\ told'[a] >= told[a]
  <2>1. /\ Later2(told[a], row.head) \in Nat
        /\ Later2(told[a], row.head) >= row.head /\ Later2(told[a], row.head) >= told[a]
    BY <1>3, <1>4 DEF Later2, AudienceRow
  <2>2. CASE row.message = "pending" /\ rows[a].message # "pending"
    <3>1. told' = [told EXCEPT ![a] = Later2(@, row.head)]
      BY <1>1, <2>2
    <3>2. told'[a] = Later2(told[a], row.head)
      BY <1>0, <1>2, <3>1
    <3>3. row.notice \in Nat /\ row.head \in Nat /\ rows[a].notice \in Nat
      BY <1>3, <1>4 DEF AudienceRow
    <3>4. told'[a] >= row.notice
      BY <1>3, <1>4, <2>1, <3>2, <3>3
    <3>. QED
      BY <1>0, <1>2, <2>1, <3>1, <3>2, <3>4
  <2>3. CASE ~(row.message = "pending" /\ rows[a].message # "pending")
    <3>1. told' = told /\ row.notice = rows[a].notice
      BY <1>1, <1>4, <2>3
    <3>. QED
      BY <1>0, <1>3, <3>1 DEF AudienceRow
  <2>. QED
    BY <2>2, <2>3
<1>7. /\ pass' \in PassType /\ pass'.step = "reconcile" /\ pass'.left = pass.left \ {a}
      /\ \A b \in Audiences \ {a} : pass'.heads[b] = pass.heads[b]
  BY <1>0, <1>1, <1>2 DEF Done, PassType
<1>8. WorkNoticesTypeOK'
  BY <1>0, <1>1, <1>5, <1>6, <1>7 DEF WorkNoticesTypeOK
<1>9. \A b \in Audiences : rows'[b].notice <= told'[b]
  BY <1>0, <1>4, <1>5, <1>6 DEF WorkNoticesInv, AudienceRow
<1>10. Cardinality(StoredRows) <= Cardinality(StoredRows')
  <2>1. IsFiniteSet(Audiences)
    BY WorkNoticesAssumption, FS_AddElement DEF Audiences
  <2>2. IsFiniteSet(StoredRows') /\ StoredRows \subseteq StoredRows'
    BY <1>2, <1>4, <1>5, <2>1, FS_Subset DEF StoredRows
  <2>. QED
    BY <2>2, FS_Subset
<1>11. Cardinality(StoredRows) \in Nat /\ Cardinality(StoredRows') \in Nat
  <2>1. IsFiniteSet(Audiences)
    BY WorkNoticesAssumption, FS_AddElement DEF Audiences
  <2>2. IsFiniteSet(StoredRows) /\ IsFiniteSet(StoredRows')
    BY <2>1, FS_Subset DEF StoredRows
  <2>. QED
    BY <2>2, FS_CardinalityType
<1>12. \A b \in Audiences : AudienceHead(b)' = AudienceHead(b) /\ AudienceHead(b) \in Nat
  BY <1>0, <1>1, AudienceHeadKept, AudienceHeadNat
<1>13. ASSUME NEW b \in Audiences, b # a, IsTold(b)
       PROVE  IsTold(b)'
  <2>1. told'[b] = told[b] /\ rows'[b] = rows[b] /\ held' = held /\ AudienceHead(b)' = AudienceHead(b)
    BY <1>1, <1>5, <1>6, <1>12, <1>13
  <2>2. Cardinality(StoredRows) >= MaxAudiences => Cardinality(StoredRows') >= MaxAudiences
    BY <1>10, <1>11, WorkNoticesAssumption
  <2>. QED
    BY <1>13, <2>1, <2>2 DEF IsTold, Pending
<1>14. ASSUME head = AudienceHead(a)
       PROVE  IsTold(a)'
  <2>1. held' = held /\ AudienceHead(a)' = head /\ head \in Nat
    BY <1>1, <1>2, <1>12, <1>14
  <2>2. CASE row.notice >= head
    <3>1. told'[a] >= head
      BY <1>2, <1>4, <1>6, <2>1, <2>2 DEF AudienceRow
    <3>. QED
      BY <2>1, <3>1 DEF IsTold
  <2>3. CASE row.message = "pending" \/ a \notin held
    BY <1>5, <2>1, <2>3 DEF IsTold, Pending
  <2>4. CASE full /\ row = rows[a]
    <3>1. ~rows'[a].stored /\ Cardinality(StoredRows') >= MaxAudiences
      BY <1>5, <1>10, <1>11, <2>4, WorkNoticesAssumption
    <3>. QED
      BY <3>1 DEF IsTold
  <2>. QED
    BY <1>4, <2>2, <2>3, <2>4
<1>15. DoneIsTold'
  <2>. SUFFICES ASSUME calm, NEW b \in Audiences, AudienceHead(b) > 0
                PROVE  IF b \in pass'.left THEN pass'.heads[b] = AudienceHead(b) ELSE IsTold(b)'
    BY <1>1, <1>12 DEF DoneIsTold
  <2>1. IF b \in pass.left THEN pass.heads[b] = AudienceHead(b) ELSE IsTold(b)
    BY <1>1 DEF WorkNoticesInv, DoneIsTold
  <2>2. CASE b # a
    BY <1>7, <1>13, <2>1, <2>2
  <2>3. CASE b = a
    BY <1>2, <1>7, <1>14, <2>1, <2>3
  <2>. QED
    BY <2>2, <2>3
<1>16. (ScannedIsCurrent /\ QuietPassTellsAll)'
  BY <1>7 DEF ScannedIsCurrent, QuietPassTellsAll
<1>. QED
  BY <1>8, <1>9, <1>15, <1>16 DEF WorkNoticesInv

LEMMA PassEndsKeeps ==
    ASSUME WorkNoticesInv, PassEnds
    PROVE  WorkNoticesInv'
<1>1. /\ pass.step = "reconcile" /\ pass.left = {} /\ pass' = IdlePass
      /\ UNCHANGED <<events, expired, rows, held, told, calm>>
  BY DEF PassEnds
<1>2. IdlePass \in PassType /\ IdlePass.step = "idle"
  BY DEF IdlePass, PassType
<1>3. WorkNoticesTypeOK'
  BY <1>1, <1>2 DEF WorkNoticesInv, WorkNoticesTypeOK
<1>4. \A a \in Audiences : AudienceHead(a)' = AudienceHead(a)
  BY <1>1, AudienceHeadKept
<1>5. calm => \A a \in Audiences : AudienceHead(a) > 0 => IsTold(a)
  BY <1>1 DEF WorkNoticesInv, DoneIsTold
<1>6. StoredRows' = StoredRows
  BY <1>1 DEF StoredRows
<1>7. QuietPassTellsAll'
  BY <1>1, <1>4, <1>5, <1>6 DEF QuietPassTellsAll, IsTold, Pending
<1>8. (ScannedIsCurrent /\ DoneIsTold)'
  BY <1>1, <1>2 DEF ScannedIsCurrent, DoneIsTold
<1>. QED
  BY <1>1, <1>3, <1>7, <1>8 DEF WorkNoticesInv

LEMMA NoticesStutterKeeps ==
    ASSUME WorkNoticesInv, UNCHANGED noticesOfWorkVars
    PROVE  WorkNoticesInv'
<1>1. UNCHANGED <<events, expired, rows, held, pass, told, calm>>
  BY DEF noticesOfWorkVars
<1>2. \A a \in Audiences : AudienceHead(a)' = AudienceHead(a)
  BY <1>1, AudienceHeadKept
<1>3. StoredRows' = StoredRows
  BY <1>1 DEF StoredRows
<1>4. (ScannedIsCurrent /\ DoneIsTold /\ QuietPassTellsAll)'
  BY <1>1, <1>2, <1>3 DEF WorkNoticesInv, ScannedIsCurrent, DoneIsTold, QuietPassTellsAll, IsTold, Pending
<1>. QED
  BY <1>1, <1>4 DEF WorkNoticesInv, WorkNoticesTypeOK

\* After an undisturbed pass everyone whom a retained change concerns was told of it,
\* has an unread message, has no recipient, or waits for a free row, whatever the
\* passes before it left behind (reconcileAudience, cleanWorkAudiences).
THEOREM QuietPassTellsAllThm == WorkNoticesSpec => []QuietPassTellsAll
<1>1. ASSUME WorkNoticesInv, [WorkNoticesNext]_noticesOfWorkVars
      PROVE  WorkNoticesInv'
  <2>1. CASE CreateItem \/ ProposeItem \/ TouchItem \/ ReportItem \/ DecideItem
    BY <1>1, <2>1, RoutedKeeps
  <2>2. CASE ExpireItem \/ Handle \/ RecipientChanges
    BY <1>1, <2>2, OtherKeeps
  <2>3. CASE PassBegin \/ PassScan \/ CleanList \/ CleanOne \/ CleanEnds
    BY <1>1, <2>3, CleaningKeeps
  <2>4. CASE ReconcileOne
    BY <1>1, <2>4, ReconcileOneKeeps
  <2>5. CASE PassEnds
    BY <1>1, <2>5, PassEndsKeeps
  <2>6. CASE WriteRefused \/ PassStops
    BY <1>1, <2>6, BrokenPassKeeps
  <2>7. CASE UNCHANGED noticesOfWorkVars
    BY <1>1, <2>7, NoticesStutterKeeps
  <2>. QED
    BY <1>1, <2>1, <2>2, <2>3, <2>4, <2>5, <2>6, <2>7 DEF WorkNoticesNext
<1>2. WorkNoticesInv => QuietPassTellsAll
  BY DEF WorkNoticesInv
<1>. QED
  BY <1>1, <1>2, WorkNoticesInitInv, PTL DEF WorkNoticesSpec
=============================================================================
