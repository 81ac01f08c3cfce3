---------------------------- MODULE WorkNotices ----------------------------
(***************************************************************************)
(* Notices of work changes (internal/core/work_notifications.go).  A work  *)
(* transition commits first; a reconciler reads the retained work events   *)
(* later, without a lock, works out who each one concerns, and puts at     *)
(* most one unread message per audience into its inbox.  A row per         *)
(* audience keeps the last head it concerns and the last head a message    *)
(* named.                                                                  *)
(*                                                                         *)
(* Transitions, acknowledgements, holder changes, the expiry of an item's  *)
(* history, refused writes and stops come between the steps of a pass.     *)
(***************************************************************************)
EXTENDS Naturals, Sequences, FiniteSets

CONSTANTS
    NoticeItems,        \* work items
    NoticeRoles,        \* role audiences: the assignees
    Creator,            \* the consumer audience of the items' creator
    NoAudience,
    MaxAudiences,       \* maxWorkAudiences
    MaxWorkEvents,      \* bound: routed work events
    MaxNoticeFaults     \* bound: refused writes, stops, lost holders

ASSUME WorkNoticesAssumption ==
    /\ IsFiniteSet(NoticeRoles)
    /\ Creator \notin NoticeRoles /\ NoAudience \notin NoticeRoles \cup {Creator}
    /\ MaxAudiences \in Nat /\ MaxWorkEvents \in Nat /\ MaxNoticeFaults \in Nat

Audiences == NoticeRoles \cup {Creator}

VARIABLES
    events,     \* work_events of the routed kinds, in order of seq
    expired,    \* items whose history has expired
    rows,       \* work_audiences: head, notice_head, message_id
    held,       \* audiences that have a recipient now
    pass,       \* the reconciler: step, observed head, heads it scanned, what is left
    told,       \* history: the highest head that a message to the audience named
    calm,       \* history: nothing happened beside the pass since it began
    noticeFaults

noticesOfWorkVars == <<events, expired, rows, held, pass, told, calm, noticeFaults>>

Later2(a, b) == IF a > b THEN a ELSE b

NoRow == [stored |-> FALSE, head |-> 0, notice |-> 0, message |-> "none"]
IdlePass == [step |-> "idle", head |-> 0, heads |-> [a \in Audiences |-> 0], left |-> {}]

-----------------------------------------------------------------------------
(* audienceHeads *)

EventRetained(i) == events[i].item \notin expired
EventsOf(w, n) == {i \in 1..n : events[i].item = w}
LastEventOf(S) == CHOOSE i \in S : \A j \in S : j <= i

\* The assignment before event i.
Previous(i) ==
    LET before == EventsOf(events[i].item, i - 1)
    IN IF before = {} THEN NoAudience ELSE events[LastEventOf(before)].to

\* A report concerns its creator, a decision also its reporter, every other event the
\* assignee, and a new proposal the former assignee as well.
Concerns(i, a) ==
    LET e == events[i]
    IN \/ e.kind # "reported" /\ e.to = a
       \/ e.kind = "proposed" /\ Previous(i) = a
       \/ e.kind = "reported" /\ a = Creator
       \/ e.kind \in {"accepted", "rejected"} /\ e.reporter = a

AudienceHead(a) ==
    LET concerned == {i \in 1..Len(events) : EventRetained(i) /\ Concerns(i, a)}
    IN IF concerned = {} THEN 0 ELSE LastEventOf(concerned)

AudienceHeads == [a \in Audiences |-> AudienceHead(a)]

-----------------------------------------------------------------------------
(* Work transitions, as far as they are routed *)

LastEvent(w, kinds) == LastEventOf({i \in EventsOf(w, Len(events)) : events[i].kind \in kinds})
Exists(w) == EventsOf(w, Len(events)) # {}
Assigned(w) == events[LastEventOf(EventsOf(w, Len(events)))].to
Rounds == {"reported", "accepted", "rejected"}

Lifecycle(w) ==
    IF \A i \in EventsOf(w, Len(events)) : events[i].kind \notin Rounds THEN "open"
    ELSE LET kind == events[LastEvent(w, Rounds)].kind
         IN CASE kind = "reported" -> "reported" [] kind = "accepted" -> "finished" [] OTHER -> "open"

Other == calm' = FALSE /\ UNCHANGED pass

\* A transition is its event; `to` is the assignment after it.
Transition(w, kind, to, reporter) ==
    /\ Len(events) < MaxWorkEvents /\ w \notin expired
    /\ events' = Append(events, [item |-> w, kind |-> kind, to |-> to, reporter |-> reporter])
    /\ Other
    /\ UNCHANGED <<expired, rows, held, told, noticeFaults>>

CreateItem ==
    \E w \in NoticeItems, to \in NoticeRoles \cup {NoAudience} :
        ~Exists(w) /\ Transition(w, "created", to, NoAudience)

ProposeItem ==
    \E w \in NoticeItems, to \in NoticeRoles \cup {NoAudience} :
        /\ Exists(w) /\ Lifecycle(w) # "finished"
        /\ Transition(w, "proposed", to, NoAudience)

\* An edit; an expired lease; overdue progress.
TouchItem ==
    \E w \in NoticeItems :
        /\ Exists(w) /\ Lifecycle(w) = "open"
        /\ Transition(w, "touched", Assigned(w), NoAudience)

\* Whoever holds the claim reports.
ReportItem ==
    \E w \in NoticeItems, reporter \in NoticeRoles :
        /\ Exists(w) /\ Lifecycle(w) = "open"
        /\ Transition(w, "reported", Assigned(w), reporter)

DecideItem ==
    \E w \in NoticeItems, verdict \in {"accepted", "rejected"} :
        /\ Exists(w) /\ Lifecycle(w) = "reported"
        /\ Transition(w, verdict, Assigned(w), events[LastEvent(w, {"reported"})].reporter)

ExpireItem ==
    \E w \in NoticeItems :
        /\ Exists(w) /\ Lifecycle(w) = "finished" /\ w \notin expired
        /\ expired' = expired \cup {w}
        /\ Other
        /\ UNCHANGED <<events, rows, held, told, noticeFaults>>

\* The recipient acknowledges, or its inbox is deleted with the message.
Handle ==
    \E a \in Audiences :
        /\ rows[a].message = "pending"
        /\ rows' = [rows EXCEPT ![a].message = "handled"]
        /\ Other
        /\ UNCHANGED <<events, expired, held, told, noticeFaults>>

RecipientChanges ==
    \E a \in Audiences :
        /\ noticeFaults < MaxNoticeFaults /\ noticeFaults' = noticeFaults + 1
        /\ held' = IF a \in held THEN held \ {a} ELSE held \cup {a}
        /\ Other
        /\ UNCHANGED <<events, expired, rows, told>>

-----------------------------------------------------------------------------
(* ReconcileWorkNotices *)

Pending(a) == rows[a].message = "pending"
StoredRows == {a \in Audiences : rows[a].stored}

PassBegin ==
    /\ pass.step = "idle"
    /\ pass' = [IdlePass EXCEPT !.step = "scan", !.head = Len(events)]
    /\ calm' = TRUE
    /\ UNCHANGED <<events, expired, rows, held, told, noticeFaults>>

\* The retained history, without a lock.
PassScan ==
    /\ pass.step = "scan"
    /\ pass' = [pass EXCEPT !.step = "unused", !.heads = AudienceHeads]
    /\ UNCHANGED <<events, expired, rows, held, told, calm, noticeFaults>>

Unused(a) == rows[a].stored /\ ~Pending(a) /\ pass.heads[a] = 0

\* cleanWorkAudiences lists the rows it may drop, then drops each in its own transaction.
CleanList ==
    /\ pass.step = "unused"
    /\ pass' = [pass EXCEPT !.step = "clean", !.left = {a \in Audiences : Unused(a)}]
    /\ UNCHANGED <<events, expired, rows, held, told, calm, noticeFaults>>

\* A store that moved on since the scan keeps the row.
CleanOne ==
    /\ pass.step = "clean"
    /\ \E a \in pass.left :
        /\ pass' = [pass EXCEPT !.left = @ \ {a}]
        /\ rows' = IF Len(events) = pass.head /\ ~Pending(a) THEN [rows EXCEPT ![a] = NoRow] ELSE rows
    /\ UNCHANGED <<events, expired, held, told, calm, noticeFaults>>

ToReconcile ==
    [pass EXCEPT !.step = "reconcile", !.head = 0, !.left = {a \in Audiences : pass.heads[a] > 0}]

CleanEnds ==
    /\ pass.step = "clean" /\ pass.left = {}
    /\ pass' = ToReconcile
    /\ UNCHANGED <<events, expired, rows, held, told, calm, noticeFaults>>

\* A watermark that needs nothing: the message is unread, or every head was named.
Settled(r, head) ==
    /\ r.stored /\ r.head >= head
    /\ IF r.message = "none" THEN r.head <= r.notice ELSE r.message = "pending"

\* Mutant of Reconciled: a new row counts its first head as named.
ReconciledFromHead(a, head) ==
    LET r == [rows[a] EXCEPT !.stored = TRUE, !.head = Later2(@, head),
                             !.notice = IF rows[a].stored THEN @ ELSE head]
    IN CASE r.message = "pending" -> r
         [] r.message # "pending" /\ r.head <= r.notice -> [r EXCEPT !.message = "none"]
         [] r.message # "pending" /\ r.head > r.notice /\ a \notin held -> [r EXCEPT !.message = "none"]
         [] OTHER -> [r EXCEPT !.notice = r.head, !.message = "pending"]

\* The write of reconcileAudience: while a message is unread only the head moves.
Reconciled(a, head) ==
    LET r == [rows[a] EXCEPT !.stored = TRUE, !.head = Later2(@, head)]
    IN CASE r.message = "pending" -> r
         [] r.message # "pending" /\ r.head <= r.notice -> [rows[a] EXCEPT !.message = "none"]
         [] r.message # "pending" /\ r.head > r.notice /\ a \notin held -> [r EXCEPT !.message = "none"]
         [] OTHER -> [r EXCEPT !.notice = r.head, !.message = "pending"]

\* The keys are taken in a fixed order.
NextKey == CHOOSE a \in pass.left : TRUE
Done(a) == [pass EXCEPT !.left = @ \ {a}, !.heads[a] = 0]

ReconcileOne ==
    /\ pass.step = "reconcile" /\ pass.left # {}
    /\ LET a == NextKey
            head == pass.heads[a]
            full == ~rows[a].stored /\ Cardinality(StoredRows) >= MaxAudiences
            row == IF Settled(rows[a], head) \/ full THEN rows[a] ELSE Reconciled(a, head)
        IN /\ pass' = Done(a)
           /\ rows' = [rows EXCEPT ![a] = row]
           /\ told' = IF row.message = "pending" /\ ~Pending(a)
                      THEN [told EXCEPT ![a] = Later2(@, row.head)] ELSE told
    /\ UNCHANGED <<events, expired, held, calm, noticeFaults>>

PassEnds ==
    /\ pass.step = "reconcile" /\ pass.left = {}
    /\ pass' = IdlePass
    /\ UNCHANGED <<events, expired, rows, held, told, calm, noticeFaults>>

\* A refused write ends the cleaning, or leaves one audience to the next pass.
WriteRefused ==
    /\ noticeFaults < MaxNoticeFaults /\ noticeFaults' = noticeFaults + 1
    /\ pass.left # {}
    /\ \/ pass.step = "clean" /\ pass' = ToReconcile
       \/ /\ pass.step = "reconcile"
          /\ pass' = Done(NextKey)
    /\ calm' = FALSE
    /\ UNCHANGED <<events, expired, rows, held, told>>

PassStops ==
    /\ noticeFaults < MaxNoticeFaults /\ noticeFaults' = noticeFaults + 1
    /\ pass.step # "idle"
    /\ pass' = IdlePass
    /\ calm' = FALSE
    /\ UNCHANGED <<events, expired, rows, held, told>>

-----------------------------------------------------------------------------
WorkNoticesInit ==
    /\ events = <<>> /\ expired = {}
    /\ rows = [a \in Audiences |-> NoRow]
    /\ held = Audiences
    /\ pass = IdlePass
    /\ told = [a \in Audiences |-> 0]
    /\ calm = FALSE /\ noticeFaults = 0

WorkNoticesNext ==
    \/ CreateItem \/ ProposeItem \/ TouchItem \/ ReportItem \/ DecideItem \/ ExpireItem
    \/ Handle \/ RecipientChanges
    \/ PassBegin \/ PassScan \/ CleanList \/ CleanOne \/ CleanEnds
    \/ ReconcileOne \/ PassEnds \/ WriteRefused \/ PassStops

WorkNoticesSpec == WorkNoticesInit /\ [][WorkNoticesNext]_noticesOfWorkVars

-----------------------------------------------------------------------------
\* After a pass that nothing disturbed, whatever earlier passes, stops and refused writes
\* left behind, everyone whom a retained change concerns was told of it, still has an unread
\* message, has no recipient, or waits for a free row.  (reconcileAudience coalesces changes
\* while a message is unread; a change that came after that message must not get lost.)
QuietPassTellsAll ==
    pass.step = "idle" /\ calm =>
        \A a \in Audiences : AudienceHead(a) > 0 =>
            \/ told[a] >= AudienceHead(a)
            \/ Pending(a)
            \/ a \notin held
            \/ ~rows[a].stored /\ Cardinality(StoredRows) >= MaxAudiences

=============================================================================
