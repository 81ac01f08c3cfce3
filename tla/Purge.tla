-------------------------------- MODULE Purge --------------------------------
(***************************************************************************)
(* The end of a session's data (internal/core/retention.go, cleanup.go):   *)
(* the maintainer's purge mark, bulk cleanup from the command line, and    *)
(* the retention sweep, which selects without a lock and deletes in one    *)
(* small transaction after another.                                        *)
(*                                                                         *)
(* One session with its inbox, one claim and one room membership.  It      *)
(* registers again, expires, gets messages, acknowledges and works, and    *)
(* the maintainer marks, unmarks and cleans up, between any two steps.     *)
(***************************************************************************)
EXTENDS Naturals, FiniteSets

CONSTANTS
    CullBatch,      \* cullBatch: messages deleted in a transaction
    CullBudget,     \* cullBudget: messages deleted in a sweep
    MaxPurgeMsgs,   \* bound: messages sent
    MaxPurgeActs    \* bound: what the session and the maintainer do

ASSUME PurgeAssumption ==
    /\ CullBatch \in Nat \ {0} /\ CullBudget \in Nat /\ MaxPurgeMsgs \in Nat /\ MaxPurgeActs \in Nat

VARIABLES
    row,        \* the session: state, mark, revision, retention period passed, inbox cursors
    inbox,      \* its stored messages
    lease,      \* its claim: none, live or lapsed, and the revision of the work item
    inRoom,     \* it is a room's current member
    cleanup,    \* the maintainer's request: what it selected, at which revision
    sweep,      \* the retention sweep: step, the claim it read, its budget
    purgeLock,  \* who holds retention.purge
    losses,     \* history: what was taken from the session without cause
    purgeActs

purgeVars == <<row, inbox, lease, inRoom, cleanup, sweep, purgeLock, losses, purgeActs>>

\* No row; a later registration starts a new one.
GoneRow == [state |-> "gone", marked |-> FALSE, past |-> FALSE, rev |-> 0, last |-> 0, acked |-> 0]
NoCleanup == [action |-> "none", rev |-> 0]
NoSweep == [step |-> "idle", seen |-> 0, budget |-> 0]

Unread(m) == m > row.acked
Inactive == row.state \in {"expired", "retired"}
LiveClaim == lease.state # "none"   \* active=1: also a lapsed one, until it is reconciled

PurgeAct ==
    /\ purgeActs < MaxPurgeActs
    /\ purgeActs' = purgeActs + 1

-----------------------------------------------------------------------------
(* The session *)

Register ==
    /\ PurgeAct
    /\ row' = [row EXCEPT !.state = "active", !.past = FALSE, !.rev = @ + 1]
    /\ UNCHANGED <<inbox, lease, inRoom, cleanup, sweep, purgeLock, losses>>

Expires ==
    /\ PurgeAct /\ row.state = "active"
    /\ row' = [row EXCEPT !.state = "expired"]
    /\ UNCHANGED <<inbox, lease, inRoom, cleanup, sweep, purgeLock, losses>>

PeriodPasses ==
    /\ Inactive /\ ~row.past
    /\ row' = [row EXCEPT !.past = TRUE]
    /\ UNCHANGED <<inbox, lease, inRoom, cleanup, sweep, purgeLock, losses, purgeActs>>

MessageArrives ==
    /\ row.last < MaxPurgeMsgs /\ row.state # "gone"
    /\ row' = [row EXCEPT !.last = @ + 1]
    /\ inbox' = inbox \cup {row.last + 1}
    /\ UNCHANGED <<lease, inRoom, cleanup, sweep, purgeLock, losses, purgeActs>>

Acks ==
    /\ PurgeAct /\ row.state = "active" /\ row.acked < row.last
    /\ row' = [row EXCEPT !.acked = row.last]
    /\ UNCHANGED <<inbox, lease, inRoom, cleanup, sweep, purgeLock, losses>>

\* Work on the item: a claim, a renewal or update, or a release; each moves its revision.
ClaimWorks ==
    /\ PurgeAct /\ row.state = "active"
    /\ lease' \in {[state |-> s, rev |-> lease.rev + 1] : s \in {"none", "live"}}
    /\ UNCHANGED <<row, inbox, inRoom, cleanup, sweep, purgeLock, losses>>

\* A lease lapses, and the work sweep reconciles it.
Lapses ==
    /\ \/ lease.state = "live" /\ lease' = [lease EXCEPT !.state = "lapsed"]
       \/ lease.state = "lapsed" /\ lease' = [state |-> "none", rev |-> lease.rev + 1]
    /\ UNCHANGED <<row, inbox, inRoom, cleanup, sweep, purgeLock, losses, purgeActs>>

-----------------------------------------------------------------------------
(* The maintainer: a request selects, then changes at the selected revision *)

\* SelectCleanup, InactiveClaims, InactiveRoomMembers.
Selects(action) ==
    CASE action = "purge" -> row.state # "gone" /\ ~row.marked
      [] action = "unpurge" -> row.state # "gone" /\ row.marked
      [] action = "retire" -> row.state = "active"
      [] action = "clear" -> row.state # "gone"
      [] action = "release" -> Inactive /\ LiveClaim
      [] action = "prune" -> Inactive /\ inRoom

CleanupSelects ==
    /\ PurgeAct /\ cleanup = NoCleanup
    /\ \E action \in {"purge", "unpurge", "retire", "clear", "release", "prune"} :
        /\ Selects(action)
        /\ cleanup' = [action |-> action, rev |-> IF action = "release" THEN lease.rev ELSE row.rev]
    /\ UNCHANGED <<row, inbox, lease, inRoom, sweep, purgeLock, losses>>

Cleanup(action) == cleanup.action = action /\ cleanup' = NoCleanup
CleanupCurrent == row.state # "gone" /\ cleanup.rev = row.rev

\* markPurge takes the purge lock; a mark retires an active session.
MarkPurge(r) ==
    [r EXCEPT !.marked = TRUE, !.rev = @ + 1, !.state = IF @ = "active" THEN "retired" ELSE @]
UnmarkPurge(r) == [r EXCEPT !.marked = FALSE, !.rev = @ + 1]

CleanupMarks ==
    /\ purgeLock = "free"
    /\ \/ Cleanup("purge") /\ row' = IF CleanupCurrent /\ ~row.marked THEN MarkPurge(row) ELSE row
       \/ Cleanup("unpurge") /\ row' = IF CleanupCurrent /\ row.marked THEN UnmarkPurge(row) ELSE row
    /\ UNCHANGED <<inbox, lease, inRoom, sweep, purgeLock, losses, purgeActs>>

CleanupRetires ==
    /\ Cleanup("retire")
    /\ row' = IF CleanupCurrent /\ row.state = "active"
              THEN [row EXCEPT !.state = "retired", !.rev = @ + 1] ELSE row
    /\ UNCHANGED <<inbox, lease, inRoom, sweep, purgeLock, losses, purgeActs>>

CleanupClears ==
    /\ Cleanup("clear")
    /\ row' = IF CleanupCurrent THEN [row EXCEPT !.acked = row.last] ELSE row
    /\ UNCHANGED <<inbox, lease, inRoom, sweep, purgeLock, losses, purgeActs>>

\* work-release as the owner: refused when the item changed or the lease lapsed.
Released(rev) == lease.state = "live" /\ lease.rev = rev
ReleasedLease == [state |-> "none", rev |-> lease.rev + 1]

CleanupReleases ==
    /\ Cleanup("release")
    /\ lease' = IF Released(cleanup.rev) THEN ReleasedLease ELSE lease
    /\ UNCHANGED <<row, inbox, inRoom, sweep, purgeLock, losses, purgeActs>>

CleanupPrunes ==
    /\ Cleanup("prune") /\ inRoom' = FALSE
    /\ UNCHANGED <<row, inbox, lease, sweep, purgeLock, losses, purgeActs>>

\* DeleteRoom: memberships and posts go, inbox copies stay.
RoomDeleted ==
    /\ PurgeAct /\ inRoom /\ inRoom' = FALSE
    /\ UNCHANGED <<row, inbox, lease, cleanup, sweep, purgeLock, losses>>

-----------------------------------------------------------------------------
(* cull: purges, then acknowledged messages, then inactive sessions *)

SweepTo(step) == sweep' = [sweep EXCEPT !.step = step]

\* purgeMarked selects the marked; releasePurged reads the claim.
SweepBegins ==
    /\ sweep.step = "idle" /\ row.state # "gone"
    /\ sweep' = [step |-> IF row.marked THEN "claims" ELSE "acked", seen |-> 0, budget |-> CullBudget]
    /\ UNCHANGED <<row, inbox, lease, inRoom, cleanup, purgeLock, losses, purgeActs>>

\* A lapsed claim keeps the session for a later sweep.
PurgeReads ==
    /\ sweep.step = "claims"
    /\ sweep' = CASE lease.state = "none" -> [sweep EXCEPT !.step = "stands"]
                  [] lease.state = "live" -> [sweep EXCEPT !.step = "mark", !.seen = lease.rev]
                  [] lease.state = "lapsed" -> [sweep EXCEPT !.step = "acked"]
    /\ UNCHANGED <<row, inbox, lease, inRoom, cleanup, purgeLock, losses, purgeActs>>

\* Mutant of LockPurge: the mark is read without the lock.
LockPurgeNever == UNCHANGED purgeLock

\* releaseMarked: the mark is read, and the claim released, under the purge lock.
LockPurge == purgeLock' = "sweep"

PurgeLocks ==
    /\ sweep.step = "mark" /\ purgeLock = "free"
    /\ IF row.state # "gone" /\ row.marked THEN SweepTo("release") /\ LockPurge
       ELSE SweepTo("acked") /\ UNCHANGED purgeLock
    /\ UNCHANGED <<row, inbox, lease, inRoom, cleanup, losses, purgeActs>>

PurgeReleases ==
    /\ sweep.step = "release"
    /\ purgeLock' = "free"
    /\ IF Released(sweep.seen)
       THEN /\ lease' = ReleasedLease /\ SweepTo("stands")
            /\ losses' = IF row.marked THEN losses ELSE losses \cup {"claim"}
       ELSE SweepTo("acked") /\ UNCHANGED <<lease, losses>>
    /\ UNCHANGED <<row, inbox, inRoom, cleanup, purgeActs>>

PurgeStands ==
    /\ sweep.step = "stands"
    /\ SweepTo(IF row.state # "gone" /\ row.marked THEN "batch" ELSE "acked")
    /\ UNCHANGED <<row, inbox, lease, inRoom, cleanup, purgeLock, losses, purgeActs>>

\* The oldest messages, at most n of them.
Oldest(set, n) == {m \in set : Cardinality({k \in set : k < m}) < n}
AtMost(a, b) == IF a < b THEN a ELSE b

PurgeBatch ==
    /\ sweep.step = "batch"
    /\ LET limit == AtMost(CullBatch, sweep.budget)
           batch == IF row.state # "gone" /\ row.marked THEN Oldest(inbox, limit) ELSE {}
           left == sweep.budget - Cardinality(batch)
       IN /\ inbox' = inbox \ batch
          /\ losses' = IF ~row.marked /\ \E m \in batch : Unread(m) THEN losses \cup {"message"} ELSE losses
          \* A budget that is used up ends the whole sweep.
          /\ sweep' = IF left = 0 THEN NoSweep
                      ELSE [sweep EXCEPT !.budget = left,
                                         !.step = IF Cardinality(batch) < limit THEN "purge" ELSE "batch"]
    /\ UNCHANGED <<row, lease, inRoom, cleanup, purgeLock, purgeActs>>

\* deleteSession: no message and no claim, whatever the rule; the conditions are read again.
Deletable == row.state # "gone" /\ ~LiveClaim /\ inbox = {}

PurgeDeletes ==
    /\ sweep.step = "purge" /\ SweepTo("acked")
    /\ IF Deletable /\ row.marked
       THEN row' = GoneRow /\ inRoom' = FALSE
       ELSE UNCHANGED <<row, inRoom>>
    /\ UNCHANGED <<inbox, lease, cleanup, purgeLock, losses, purgeActs>>

\* deleteAcknowledged, after the messages' own period.
DeleteAcknowledged ==
    /\ sweep.step = "acked" /\ SweepTo("inactive")
    /\ inbox' \in {inbox, {m \in inbox : Unread(m)}}
    /\ UNCHANGED <<row, lease, inRoom, cleanup, purgeLock, losses, purgeActs>>

RetentionDue ==
    /\ row.state # "gone" /\ ~row.marked /\ row.last = row.acked /\ Inactive /\ row.past

SelectInactive ==
    /\ sweep.step = "inactive"
    /\ sweep' = IF RetentionDue /\ Deletable THEN [sweep EXCEPT !.step = "delete"] ELSE NoSweep
    /\ UNCHANGED <<row, inbox, lease, inRoom, cleanup, purgeLock, losses, purgeActs>>

\* The conditions are read again.
RetentionDeletes == RetentionDue /\ Deletable

DeleteInactive ==
    /\ sweep.step = "delete" /\ sweep' = NoSweep
    /\ IF RetentionDeletes
       THEN /\ row' = GoneRow /\ inRoom' = FALSE /\ inbox' = {}
            /\ losses' = losses \cup (IF \E m \in inbox : Unread(m) THEN {"message"} ELSE {})
                                \cup (IF LiveClaim THEN {"claim"} ELSE {})
                                \cup (IF row.state = "active" THEN {"session"} ELSE {})
       ELSE UNCHANGED <<row, inbox, inRoom, losses>>
    /\ UNCHANGED <<lease, cleanup, purgeLock, purgeActs>>

-----------------------------------------------------------------------------
PurgeInit ==
    /\ row = [state |-> "active", marked |-> FALSE, past |-> FALSE, rev |-> 1, last |-> 0, acked |-> 0]
    /\ inbox = {} /\ lease = [state |-> "none", rev |-> 0] /\ inRoom = TRUE
    /\ cleanup = NoCleanup /\ sweep = NoSweep /\ purgeLock = "free"
    /\ losses = {} /\ purgeActs = 0

PurgeNext ==
    \/ Register \/ Expires \/ PeriodPasses \/ MessageArrives \/ Acks \/ ClaimWorks \/ Lapses
    \/ CleanupSelects \/ CleanupMarks \/ CleanupRetires \/ CleanupClears \/ CleanupReleases
    \/ CleanupPrunes \/ RoomDeleted
    \/ SweepBegins \/ PurgeReads \/ PurgeLocks \/ PurgeReleases \/ PurgeStands \/ PurgeBatch
    \/ PurgeDeletes \/ DeleteAcknowledged \/ SelectInactive \/ DeleteInactive

PurgeSpec == PurgeInit /\ [][PurgeNext]_purgeVars

-----------------------------------------------------------------------------
\* Only a purge mark that stands at that moment takes a claim or an unread message from a
\* session, and retention never deletes one that came back, got a message or holds a claim,
\* however the sweep's selections have aged.  (PROTOCOL.md: "Removing the mark stops the
\* purge"; releaseMarked, deletePurgedBatch, deleteSession.)
NothingTakenUnmarked == losses = {}

=============================================================================
