---------------------------- MODULE InboxProofs ----------------------------
(***************************************************************************)
(* Proofs about Inbox, for every number of sessions, addresses and         *)
(* messages.  The inductive invariant adds to the properties that marks    *)
(* lie between the deleted and the acknowledged messages, and that a read  *)
(* whose mark is still to come was given every message of its page that    *)
(* is not acknowledged by now.                                             *)
(***************************************************************************)
EXTENDS Inbox, TLAPS

\* A mark lies between what was deleted and what was acknowledged.
MarksBounded ==
    \A a \in Address : culled[a] <= mark[a] /\ mark[a] <= acked[a]

\* What a pending mark may count as read was given to its session, or needs
\* no reading any more.
PagesHonest ==
    \A p \in pages :
        /\ p.through <= last[p.a]
        /\ \A q \in p.after + 1 .. p.through : q \in seen[p.a][p.s] \/ q <= acked[p.a]

InboxInv == InboxTypeOK /\ UnackedKept /\ MarksBounded /\ PagesHonest /\ ReadHonest

\* The empty inboxes of a new store satisfy the invariant.
LEMMA InboxInvInit == InboxInit => InboxInv
  BY DEF InboxInit, InboxInv, InboxTypeOK, UnackedKept, MarksBounded, PagesHonest, ReadHonest

\* A change of holder takes back the former holder's read and leaves every
\* other cursor (setHolder and every operation of Participants).
LEMMA HolderStepInv == ASSUME InboxInv, HolderStep PROVE InboxInv'
  <1> USE DEF InboxInv
  <1>1. read' \in [Address -> Nat] /\ \A a \in Address : read'[a] <= last[a]
    BY DEF HolderStep, ReadAfterHolder, InboxTypeOK, UnackedKept
  <1>2. InboxTypeOK'
    BY <1>1 DEF HolderStep, InboxTypeOK
  <1>3. UnackedKept' /\ MarksBounded' /\ PagesHonest'
    BY DEF HolderStep, UnackedKept, MarksBounded, PagesHonest
  <1>4. ReadHonest'
    <2> SUFFICES ASSUME NEW a \in Address, holder'[a] # NoSession,
                        NEW q \in acked'[a] + 1 .. read'[a]
                 PROVE  q \in seen'[a][holder'[a]]
      BY DEF ReadHonest
    <2>1. holder'[a] = holder[a]
      BY DEF HolderStep, ReadAfterHolder, InboxTypeOK
    <2>2. read'[a] = read[a]
      BY <2>1 DEF HolderStep, ReadAfterHolder
    <2> QED BY <2>1, <2>2 DEF HolderStep, ReadHonest
  <1> QED BY <1>2, <1>3, <1>4

\* A page is given and its mark waits (ReadInboxes).
LEMMA ReadPageInv ==
    ASSUME InboxInv, InboxAssumption,
           NEW s \in Session, NEW a \in Address, NEW after \in 0..MaxSeq,
           NEW n \in 1..PageLimit, ReadPage(s, a, after, n)
    PROVE  InboxInv'
  <1> DEFINE from == Larger(after, culled[a])
             through == PageThrough(a, from, n)
             p == [s |-> s, a |-> a, after |-> after, through |-> through]
  <1> USE DEF InboxInv
  <1>1. /\ from \in Nat /\ through \in Nat /\ through <= last[a]
        /\ from = after \/ from = culled[a]
        /\ after \in Nat
    BY DEF Larger, Smaller, PageThrough, InboxTypeOK, InboxAssumption
  <1>2. /\ pages' = pages \cup {p}
        /\ seen' = [seen EXCEPT ![a][s] = @ \cup (from + 1)..through]
        /\ UNCHANGED <<vars, last, acked, read, culled, mark, marked>>
    BY DEF ReadPage
  <1> HIDE DEF from, through
  <1>3. p \in Page
    BY <1>1 DEF Page
  <1>4. seen' \in [Address -> [Session -> SUBSET Nat]]
    BY <1>1, <1>2 DEF InboxTypeOK
  <1>5. \A b \in Address, t \in Session : seen[b][t] \subseteq seen'[b][t]
    BY <1>2 DEF InboxTypeOK
  <1>6. InboxTypeOK'
    BY <1>2, <1>3, <1>4 DEF InboxTypeOK
  <1>7. UnackedKept' /\ MarksBounded'
    BY <1>2 DEF UnackedKept, MarksBounded
  <1>8. PagesHonest'
    <2> SUFFICES ASSUME NEW x \in pages'
                 PROVE  /\ x.through <= last[x.a]
                        /\ \A q \in x.after + 1 .. x.through :
                              q \in seen'[x.a][x.s] \/ q <= acked[x.a]
      BY <1>2 DEF PagesHonest
    <2>1. CASE x \in pages
      BY <2>1, <1>5 DEF PagesHonest, InboxTypeOK, Page
    <2>2. CASE x = p
      <3>1. ASSUME NEW q \in after + 1 .. through PROVE q \in seen'[a][s] \/ q <= acked[a]
        <4>1. CASE q <= culled[a]
          BY <4>1 DEF UnackedKept, InboxTypeOK
        <4>2. CASE q > culled[a]
          <5>1. q \in (from + 1)..through
            BY <4>2, <1>1, <3>1 DEF InboxTypeOK
          <5> QED BY <5>1, <1>2 DEF InboxTypeOK
        <4> QED BY <4>1, <4>2 DEF InboxTypeOK
      <3> QED BY <3>1, <2>2, <1>1
    <2> QED BY <2>1, <2>2, <1>2
  <1>9. ReadHonest'
    <2> SUFFICES ASSUME NEW b \in Address, holder[b] # NoSession,
                        NEW q \in acked[b] + 1 .. read[b]
                 PROVE  q \in seen'[b][holder[b]]
      BY <1>2 DEF ReadHonest, vars
    <2>1. q \in seen[b][holder[b]]
      BY DEF ReadHonest
    <2> QED BY <2>1, <1>2 DEF InboxTypeOK
  <1> QED BY <1>6, <1>7, <1>8, <1>9

\* The mark of a read, written or not, after any other steps (markRead).
LEMMA MarkReadInv ==
    ASSUME InboxInv, NEW p \in pages, MarkRead(p) PROVE InboxInv'
  <1> USE DEF InboxInv
  <1>1. /\ pages' = pages \ {p}
        /\ UNCHANGED <<vars, last, acked, culled, mark, marked, seen>>
    BY DEF MarkRead
  <1>2. UnackedKept' /\ MarksBounded' /\ PagesHonest'
    BY <1>1 DEF UnackedKept, MarksBounded, PagesHonest
  <1>3. CASE ~ReadAdvances(p)
    <2>1. read' = read
      BY <1>3 DEF MarkRead
    <2>2. InboxTypeOK' /\ ReadHonest'
      BY <1>1, <2>1 DEF InboxTypeOK, ReadHonest, vars
    <2> QED BY <2>2, <1>2
  <1>4. CASE ReadAdvances(p)
    <2>1. read' = [read EXCEPT ![p.a] = p.through]
      BY <1>4 DEF MarkRead
    <2>2. p \in Page /\ p.a \in Address /\ p.s \in Session /\ p.through \in Nat /\ p.after \in Nat
      BY DEF InboxTypeOK, Page
    <2>3. holder[p.a] = p.s /\ Handled(p.a) >= p.after
      BY <1>4 DEF ReadAdvances, Acting
    <2>4. p.through <= last[p.a]
      BY DEF PagesHonest
    <2>5. InboxTypeOK'
      BY <1>1, <2>1, <2>2, <2>4 DEF InboxTypeOK
    <2>6. ReadHonest'
      <3> SUFFICES ASSUME NEW b \in Address, holder[b] # NoSession,
                          NEW q \in acked[b] + 1 .. read'[b]
                   PROVE  q \in seen[b][holder[b]]
        BY <1>1 DEF ReadHonest, vars
      <3>1. CASE b # p.a \/ q <= read[b]
        <4>1. q <= read[b]
          BY <3>1, <2>1, <2>2 DEF InboxTypeOK
        <4>2. q \in acked[b] + 1 .. read[b]
          BY <4>1 DEF InboxTypeOK
        <4> QED BY <4>2 DEF ReadHonest
      <3>2. CASE b = p.a /\ q > read[b]
        <4>1. q \in p.after + 1 .. p.through
          BY <3>2, <2>1, <2>2, <2>3 DEF Handled, Larger, InboxTypeOK
        <4>2. q > acked[b]
          BY DEF InboxTypeOK
        <4>3. q \in seen[p.a][p.s] \/ q <= acked[p.a]
          BY <4>1 DEF PagesHonest
        <4> QED BY <4>2, <4>3, <3>2, <2>3 DEF InboxTypeOK
      <3> QED BY <3>1, <3>2 DEF InboxTypeOK
    <2> QED BY <2>5, <2>6, <1>2
  <1> QED BY <1>3, <1>4

\* An acknowledgement, of the holder or of the maintainer, moves one cursor
\* forward within the messages sent (AckParticipant, ackIf).
LEMMA AckInv ==
    ASSUME InboxInv, NEW a \in Address, NEW through \in 1..MaxSeq, MaxSeq \in Nat,
           acked[a] < through, through <= last[a],
           acked' = [acked EXCEPT ![a] = through],
           UNCHANGED <<vars, last, read, culled, mark, marked, pages, seen>>
    PROVE  InboxInv'
  <1> USE DEF InboxInv
  <1>1. through \in Nat /\ acked' \in [Address -> Nat]
    BY DEF InboxTypeOK
  <1>2. \A b \in Address : acked[b] <= acked'[b] /\ acked'[b] <= last[b]
    BY <1>1 DEF InboxTypeOK, UnackedKept
  <1>3. InboxTypeOK'
    BY <1>1 DEF InboxTypeOK
  <1>4. UnackedKept' /\ MarksBounded'
    BY <1>1, <1>2 DEF UnackedKept, MarksBounded, InboxTypeOK
  <1>5. PagesHonest'
    <2> SUFFICES ASSUME NEW x \in pages, NEW q \in x.after + 1 .. x.through
                 PROVE  q \in seen[x.a][x.s] \/ q <= acked'[x.a]
      BY DEF PagesHonest
    <2>1. x.a \in Address /\ x.after \in Nat /\ x.through \in Nat
      BY DEF InboxTypeOK, Page
    <2>2. q \in seen[x.a][x.s] \/ q <= acked[x.a]
      BY DEF PagesHonest
    <2> QED BY <1>1, <1>2, <2>1, <2>2 DEF InboxTypeOK
  <1>6. ReadHonest'
    <2> SUFFICES ASSUME NEW b \in Address, holder[b] # NoSession,
                        NEW q \in acked'[b] + 1 .. read[b]
                 PROVE  q \in seen[b][holder[b]]
      BY DEF ReadHonest, vars
    <2>1. q \in acked[b] + 1 .. read[b]
      BY <1>1, <1>2 DEF InboxTypeOK
    <2> QED BY <2>1 DEF ReadHonest
  <1> QED BY <1>3, <1>4, <1>5, <1>6

\* A message, a mark and a deleted batch keep the cursors in order (sendTx,
\* deleteAcknowledged, deleteMarked).
LEMMA RetentionInv ==
    ASSUME InboxInv, InboxAssumption, NEW a \in Address,
           Send(a) \/ SetMark(a) \/ DeleteMarked(a)
    PROVE  InboxInv'
  <1> USE DEF InboxInv
  <1>1. CASE Send(a)
    <2>1. last' \in [Address -> Nat] /\ \A b \in Address : last[b] <= last'[b]
      BY <1>1 DEF Send, InboxTypeOK
    <2>2. InboxTypeOK' /\ UnackedKept' /\ MarksBounded'
      BY <1>1, <2>1 DEF Send, InboxTypeOK, UnackedKept, MarksBounded
    <2>3. PagesHonest'
      <3> SUFFICES ASSUME NEW x \in pages PROVE x.through <= last'[x.a]
        BY <1>1 DEF Send, PagesHonest
      <3>1. x.a \in Address /\ x.through \in Nat
        BY DEF InboxTypeOK, Page
      <3> QED BY <3>1, <2>1 DEF PagesHonest, InboxTypeOK
    <2>4. ReadHonest'
      BY <1>1 DEF Send, ReadHonest, vars
    <2> QED BY <2>2, <2>3, <2>4
  <1>2. CASE SetMark(a)
    <2>1. InboxTypeOK' /\ UnackedKept' /\ MarksBounded'
      BY <1>2 DEF SetMark, InboxTypeOK, UnackedKept, MarksBounded
    <2>2. PagesHonest' /\ ReadHonest'
      BY <1>2 DEF SetMark, PagesHonest, ReadHonest, vars
    <2> QED BY <2>1, <2>2
  <1>3. CASE DeleteMarked(a)
    <2>1. /\ culled' \in [Address -> Nat] /\ marked' \in [Address -> BOOLEAN]
          /\ \A b \in Address : culled'[b] <= mark[b]
      BY <1>3 DEF DeleteMarked, Due, Larger, Smaller, InboxTypeOK, MarksBounded, InboxAssumption
    <2>2. InboxTypeOK' /\ UnackedKept' /\ MarksBounded'
      BY <1>3, <2>1 DEF DeleteMarked, InboxTypeOK, UnackedKept, MarksBounded
    <2>3. PagesHonest' /\ ReadHonest'
      BY <1>3 DEF DeleteMarked, PagesHonest, ReadHonest, vars
    <2> QED BY <2>2, <2>3
  <1> QED BY <1>1, <1>2, <1>3

\* Every step of the composition keeps the invariant.
LEMMA InboxInvNext ==
    ASSUME InboxInv, InboxAssumption, [InboxNext]_allVars PROVE InboxInv'
  <1>1. CASE HolderStep
    BY <1>1, HolderStepInv
  <1>2. CASE Crash
    <2>1. InboxTypeOK' /\ UnackedKept' /\ MarksBounded'
      BY <1>2 DEF Crash, InboxInv, InboxTypeOK, UnackedKept, MarksBounded
    <2>2. PagesHonest' /\ ReadHonest'
      BY <1>2 DEF Crash, Restart, InboxInv, PagesHonest, ReadHonest
    <2> QED BY <2>1, <2>2 DEF InboxInv
  <1>3. CASE \E s \in Session, a \in Address, after \in 0..MaxSeq, n \in 1..PageLimit :
                ReadPage(s, a, after, n)
    BY <1>3, ReadPageInv
  <1>4. CASE \E p \in pages : MarkRead(p)
    BY <1>4, MarkReadInv
  <1>5. CASE \E p \in pages : LoseMark(p)
    <2>1. InboxTypeOK' /\ UnackedKept' /\ MarksBounded'
      BY <1>5 DEF LoseMark, InboxInv, InboxTypeOK, UnackedKept, MarksBounded
    <2>2. PagesHonest' /\ ReadHonest'
      BY <1>5 DEF LoseMark, InboxInv, PagesHonest, ReadHonest, vars
    <2> QED BY <2>1, <2>2 DEF InboxInv
  <1>6. CASE \E s \in Session, a \in Address, through \in 1..MaxSeq : AckParticipant(s, a, through)
    BY <1>6, AckInv DEF AckParticipant, InboxAssumption
  <1>7. CASE \E a \in Address, through \in 1..MaxSeq : DashboardAck(a, through)
    BY <1>7, AckInv DEF DashboardAck, InboxAssumption
  <1>8. CASE \E a \in Address : Send(a) \/ SetMark(a) \/ DeleteMarked(a)
    BY <1>8, RetentionInv
  <1>9. CASE UNCHANGED allVars
    BY <1>9 DEF allVars, InboxInv, InboxTypeOK, UnackedKept, MarksBounded, PagesHonest, ReadHonest
  <1> QED BY <1>1, <1>2, <1>3, <1>4, <1>5, <1>6, <1>7, <1>8, <1>9 DEF InboxNext

\* The inductive invariant holds in every reachable state.
THEOREM InboxInvariant == InboxSpec => []InboxInv
  <1>1. InboxInv /\ [InboxNext]_allVars => InboxInv'
    BY InboxInvNext, InboxAssumption
  <1> QED BY <1>1, InboxInvInit, PTL DEF InboxSpec

\* Retention never deletes a message that is not acknowledged (deleteMarked).
THEOREM UnackedKeptThm == InboxSpec => []UnackedKept
  <1>1. InboxInv => UnackedKept
    BY DEF InboxInv
  <1> QED BY <1>1, InboxInvariant, PTL

\* A message counts as read only for a holder that was given it, whatever
\* comes between a page and its mark (markRead, setHolder).
THEOREM ReadHonestThm == InboxSpec => []ReadHonest
  <1>1. InboxInv => ReadHonest
    BY DEF InboxInv
  <1> QED BY <1>1, InboxInvariant, PTL

\* No step but the change to another holder takes back a handled message
\* (markRead, AckParticipant, ackIf, setHolder).
THEOREM HandledNeverRegressesThm == InboxSpec => HandledNeverRegresses
  <1> DEFINE Kept == \A a \in Address : holder'[a] \in {NoSession, holder[a]} => Handled(a)' >= Handled(a)
  <1>1. ASSUME InboxInv, [InboxNext]_allVars PROVE Kept \/ UNCHANGED allVars
    <2> SUFFICES ASSUME InboxNext, NEW a \in Address, holder'[a] \in {NoSession, holder[a]}
                 PROVE  Handled(a)' >= Handled(a)
      BY <1>1
    <2>1. read'[a] \in Nat /\ acked'[a] \in Nat /\ read[a] \in Nat /\ acked[a] \in Nat
      BY <1>1, InboxInvNext, InboxAssumption DEF InboxInv, InboxTypeOK
    <2>2. CASE acked' = acked /\ read'[a] >= read[a]
      BY <2>1, <2>2 DEF Handled, Larger
    <2>3. CASE read' = read /\ acked'[a] >= acked[a]
      BY <2>1, <2>3 DEF Handled, Larger
    <2>4. CASE HolderStep
      BY <2>1, <2>2, <2>4 DEF HolderStep, ReadAfterHolder
    <2>5. CASE \E p \in pages : MarkRead(p)
      <3> PICK p \in pages : MarkRead(p)
        BY <2>5
      <3>1. acked' = acked /\ p.through \in Nat
        BY <1>1 DEF MarkRead, InboxInv, InboxTypeOK, Page
      <3>2. read'[a] >= read[a]
        BY <2>1, <3>1, <1>1 DEF MarkRead, ReadAdvances, InboxInv, InboxTypeOK
      <3> QED BY <3>1, <3>2, <2>2
    <2>6. CASE \E s \in Session, b \in Address, through \in 1..MaxSeq : AckParticipant(s, b, through)
      BY <2>1, <2>3, <2>6, <1>1 DEF AckParticipant, InboxInv, InboxTypeOK
    <2>7. CASE \E b \in Address, through \in 1..MaxSeq : DashboardAck(b, through)
      BY <2>1, <2>3, <2>7, <1>1 DEF DashboardAck, InboxInv, InboxTypeOK
    <2>8. CASE acked' = acked /\ read' = read
      BY <2>1, <2>2, <2>8
    <2> QED BY <2>4, <2>5, <2>6, <2>7, <2>8
            DEF InboxNext, Crash, Send, ReadPage, LoseMark, SetMark, DeleteMarked
  <1>2. InboxInv /\ [InboxNext]_allVars => [Kept]_allVars
    BY <1>1
  <1> QED BY <1>2, InboxInvariant, PTL DEF InboxSpec, HandledNeverRegresses

\* Composition: the inboxes never restrict or add to what happens to the
\* participants, so every theorem about Participants holds with inboxes too.
THEOREM InboxImplementsParticipants == InboxSpec => Spec
  <1>1. InboxInit => Init
    BY DEF InboxInit
  <1>2. [InboxNext]_allVars => [Next]_vars
    BY DEF InboxNext, allVars, vars, Next, HolderStep, Crash, Send, ReadPage, MarkRead, LoseMark,
           AckParticipant, DashboardAck, SetMark, DeleteMarked
  <1> QED BY <1>1, <1>2, PTL DEF InboxSpec, Spec
=============================================================================
