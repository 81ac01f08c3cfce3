------------------------------- MODULE Inbox -------------------------------
(***************************************************************************)
(* The inbox of each participant (internal/core/messages.go and the        *)
(* message retention of retention.go), composed with Participants: the     *)
(* inbox outlasts its holders, and every change of holder is a step of     *)
(* both.                                                                   *)
(*                                                                         *)
(* An inbox is its sequence counters; a message is its sequence number.    *)
(* A read is two transactions, the page and the mark, and reads may        *)
(* overlap; neither takes the wake lock, so any other operation may come   *)
(* between.                                                                *)
(***************************************************************************)
EXTENDS Participants, FiniteSets

CONSTANTS
    MaxSeq,     \* bound: messages sent to one address
    MaxReads,   \* bound: reads between their page and their mark
    PageLimit,  \* messages of a page, at most
    CullBatch   \* messages of one deleting transaction, at most

ASSUME InboxAssumption ==
    /\ MaxSeq \in Nat /\ MaxReads \in Nat
    /\ PageLimit \in Nat \ {0} /\ CullBatch \in Nat \ {0}

VARIABLES
    last,       \* last_seq of the participant's inbox row
    acked,      \* acked_through
    read,       \* read_through
    culled,     \* the messages 1..culled were deleted by retention
    mark,       \* ack_mark, the acknowledgement a deletion goes by
    marked,     \* whether ack_mark_at is set: a deletion is to come
    pages,      \* reads whose page was returned and whose mark is to come
    seen        \* history: the messages each session was given

inboxVars == <<last, acked, read, culled, mark, marked, pages, seen>>
allVars == <<sess, holder, conflict, fences, guarded, running,
             last, acked, read, culled, mark, marked, pages, seen>>

Page == [s : Session, a : Address, after : Nat, through : Nat]

Larger(m, n) == IF m > n THEN m ELSE n
Smaller(m, n) == IF m < n THEN m ELSE n

\* The messages through this one are handled; the wake loop gives notice of
\* every later one (the condition unhandled of wake.go).
Handled(a) == Larger(acked[a], read[a])

-----------------------------------------------------------------------------
(* Messages *)

\* send to an address: refused as unheld unless a session acts for it.
Send(a) ==
    /\ last[a] < MaxSeq
    /\ \E s \in Session : Acting(a, s)
    /\ last' = [last EXCEPT ![a] = @ + 1]
    /\ UNCHANGED <<vars, acked, read, culled, mark, marked, pages, seen>>

\* readMessages: the last message of a page of at most n messages after from.
PageThrough(a, from, n) == Smaller(last[a], from + n)

\* ReadInboxes: a page of n messages, or fewer, after a sequence that the
\* caller chose, while it holds the participant.  An empty page has no mark.
ReadPage(s, a, after, n) ==
    LET from == Larger(after, culled[a])
        through == PageThrough(a, from, n)
    IN  /\ Acting(a, s)
        /\ from < last[a]
        /\ Cardinality(pages) < MaxReads
        /\ pages' = pages \cup {[s |-> s, a |-> a, after |-> after, through |-> through]}
        /\ seen' = [seen EXCEPT ![a][s] = @ \cup (from + 1)..through]
        /\ UNCHANGED <<vars, last, acked, read, culled, mark, marked>>

\* Mutants of ReadAdvances: the holder is not checked again; an older read
\* moves the mark back.
ReadAdvancesUnheld(p) ==
    /\ read[p.a] < p.through
    /\ Handled(p.a) >= p.after

ReadAdvancesBack(p) ==
    /\ Acting(p.a, p.s)
    /\ Handled(p.a) >= p.after

\* markRead writes only for the holder, forward, and over no skipped message.
ReadAdvances(p) ==
    /\ Acting(p.a, p.s)
    /\ read[p.a] < p.through
    /\ Handled(p.a) >= p.after

MarkRead(p) ==
    /\ pages' = pages \ {p}
    /\ read' = IF ReadAdvances(p) THEN [read EXCEPT ![p.a] = p.through] ELSE read
    /\ UNCHANGED <<vars, last, acked, culled, mark, marked, seen>>

\* A mark that cannot be written is dropped; the read was returned.
LoseMark(p) ==
    /\ pages' = pages \ {p}
    /\ UNCHANGED <<vars, last, acked, read, culled, mark, marked, seen>>

\* AckParticipant, by the session that holds the participant now.
AckParticipant(s, a, through) ==
    /\ Acting(a, s)
    /\ acked[a] < through /\ through <= last[a]
    /\ acked' = [acked EXCEPT ![a] = through]
    /\ UNCHANGED <<vars, last, read, culled, mark, marked, pages, seen>>

\* ackIf for the dashboard: any inbox, held or not.
DashboardAck(a, through) ==
    /\ acked[a] < through /\ through <= last[a]
    /\ acked' = [acked EXCEPT ![a] = through]
    /\ UNCHANGED <<vars, last, read, culled, mark, marked, pages, seen>>

-----------------------------------------------------------------------------
(* Retention *)

\* deleteAcknowledged: a new mark, when no earlier one waits.
SetMark(a) ==
    /\ ~marked[a]
    /\ acked[a] > mark[a]
    /\ mark' = [mark EXCEPT ![a] = acked[a]]
    /\ marked' = [marked EXCEPT ![a] = TRUE]
    /\ UNCHANGED <<vars, last, acked, read, culled, pages, seen>>

\* Mutant of Due: the batch reaches past the mark.
DueAll(a) == last[a]

\* The last message that a deletion of this mark reaches.
Due(a) == mark[a]

\* deleteMarked: one batch; a batch that is not full finishes the mark.
DeleteMarked(a) ==
    LET through == Smaller(Due(a), culled[a] + CullBatch)
    IN  /\ marked[a]
        /\ culled' = [culled EXCEPT ![a] = Larger(@, through)]
        /\ marked' = [marked EXCEPT ![a] = through = culled[a] + CullBatch]
        /\ UNCHANGED <<vars, last, acked, read, mark, pages, seen>>

-----------------------------------------------------------------------------
(* Composition with Participants *)

\* setHolder: what a former holder read, its successor has not.
ReadAfterHolder ==
    [a \in Address |-> IF holder'[a] \in {NoSession, holder[a]} THEN read[a] ELSE acked[a]]

HolderStep ==
    /\ Operation
    /\ read' = ReadAfterHolder
    /\ UNCHANGED <<last, acked, culled, mark, marked, pages, seen>>

\* The daemon stops between a page and its mark, and starts again.
Crash ==
    /\ Restart
    /\ pages' = {}
    /\ UNCHANGED <<last, acked, read, culled, mark, marked, seen>>

-----------------------------------------------------------------------------
InboxInit ==
    /\ Init
    /\ last = [a \in Address |-> 0]
    /\ acked = [a \in Address |-> 0]
    /\ read = [a \in Address |-> 0]
    /\ culled = [a \in Address |-> 0]
    /\ mark = [a \in Address |-> 0]
    /\ marked = [a \in Address |-> FALSE]
    /\ pages = {}
    /\ seen = [a \in Address |-> [s \in Session |-> {}]]

InboxNext ==
    \/ HolderStep
    \/ Crash
    \/ \E a \in Address : Send(a)
    \/ \E s \in Session, a \in Address, after \in 0..MaxSeq, n \in 1..PageLimit :
          ReadPage(s, a, after, n)
    \/ \E p \in pages : MarkRead(p)
    \/ \E p \in pages : LoseMark(p)
    \/ \E s \in Session, a \in Address, through \in 1..MaxSeq : AckParticipant(s, a, through)
    \/ \E a \in Address, through \in 1..MaxSeq : DashboardAck(a, through)
    \/ \E a \in Address : SetMark(a)
    \/ \E a \in Address : DeleteMarked(a)

InboxSpec == InboxInit /\ [][InboxNext]_allVars

-----------------------------------------------------------------------------
(* Properties *)

\* Types of the inbox rows; a cursor stays within the messages sent.
InboxTypeOK ==
    /\ last \in [Address -> Nat]
    /\ acked \in [Address -> Nat]
    /\ read \in [Address -> Nat]
    /\ \A a \in Address : read[a] <= last[a]
    /\ culled \in [Address -> Nat]
    /\ mark \in [Address -> Nat]
    /\ marked \in [Address -> BOOLEAN]
    /\ pages \subseteq Page
    /\ seen \in [Address -> [Session -> SUBSET Nat]]

\* Retention deletes only acknowledged messages, through every interleaving
\* of acknowledgements, marks and unfinished batches, so no message is lost
\* before its recipient acknowledged it (deleteAcknowledged, deleteMarked).
UnackedKept == \A a \in Address : culled[a] <= acked[a] /\ acked[a] <= last[a]

\* The read cursor is honest: no message counts as read for a holder that was
\* never given it, although a read's mark is written after its page, when the
\* holder may have changed (markRead, setHolder).
ReadHonest ==
    \A a \in Address :
        holder[a] # NoSession =>
            \A q \in acked[a] + 1 .. read[a] : q \in seen[a][holder[a]]

\* What counts as handled is taken back only when another session takes the address over:
\* the marks of overlapping reads, which come in any order, some of them lost, the
\* acknowledgements of the holder and of the dashboard, a stop of the daemon and a holder
\* that leaves never make a handled message due for another notice (markRead, setHolder).
HandledNeverRegresses ==
    [][\A a \in Address :
          holder'[a] \in {NoSession, holder[a]} => Handled(a)' >= Handled(a)]_allVars
=============================================================================
