---------------------------- MODULE Participants ----------------------------
(***************************************************************************)
(* Participants: which agent session holds which reserved address          *)
(* (internal/core/names.go, participants.go, succession.go, and the        *)
(* registration, renewal and deletion transactions of store.go and         *)
(* retention.go).                                                          *)
(*                                                                         *)
(* One family of agents.  A participant is identified by its reserved      *)
(* address; a launch decides, through its directory and role, which        *)
(* address a session that registers with it is a candidate for, and which  *)
(* host process runs it (a DeepSeek session registers by a command without *)
(* a launch and has no host: that command's directory and role stand for   *)
(* its launch).  Every transaction that changes the holder runs            *)
(* under the store's wake lock and commits at once, so it is one action.   *)
(* The pure operators on a database value d = [sess, holder, conflict,     *)
(* fences] are the Go functions that take the transaction.                 *)
(*                                                                         *)
(* Time is abstract: a lease may expire and a succession guard may elapse  *)
(* at any step.  Revisions are abstract too: a call with a stale revision  *)
(* is refused and changes nothing, which is the step not taken.            *)
(***************************************************************************)
EXTENDS Naturals

CONSTANTS
    Session,        \* native session ids of the family
    Address,        \* reserved participant addresses
    Launch,         \* launch records
    Host,           \* host processes, by process id and start time
    Pane,           \* tmux panes
    NoSession, NoAddress, NoLaunch, NoHost, NoPane,
    LaunchAddress,  \* the participant of a launch's repository and role
    LaunchHost,     \* the host process of a launch, or NoHost
    LaunchSession,  \* the first session id a launch chose, or NoSession
    HostPane,       \* the pane a host process runs in
    Requests,       \* the registration requests each session makes
    Purgeable       \* the sessions that the maintainer may mark for purge

\* How a registration arrives: at a session start or by a hook, through the
\* session's own tool call, or reported by a host that was cleared.
Call == {"start", "tool", "clear"}

\* What the row of the holder's unfinished context cycle says of the caller, under
\* the Enable that admitted it and before its deadlines: its reset in the host's pane
\* proved the caller (cycleResetLink); or, for DeepSeek, it created the caller's session
\* and its pickup was received, or was not yet (hostlessCycleLink).
CycleLinks == {"none", "reset", "linked", "pending"}

\* A registration request, with what the daemon reads while it serves it: the
\* host processes it can read, and the holder's cycle.
Registration == [launch : Launch \cup {NoLaunch}, subagent : BOOLEAN,
                 call : Call, tmux : BOOLEAN,
                 readable : SUBSET Host, link : CycleLinks]

ASSUME ParticipantsAssumption ==
    /\ NoSession \notin Session /\ NoAddress \notin Address
    /\ NoLaunch \notin Launch /\ NoHost \notin Host /\ NoPane \notin Pane
    /\ LaunchAddress \in [Launch -> Address \cup {NoAddress}]
    /\ LaunchHost \in [Launch -> Host \cup {NoHost}]
    /\ LaunchSession \in [Launch -> Session \cup {NoSession}]
    /\ HostPane \in [Host -> Pane \cup {NoPane}]
    /\ Requests \in [Session -> SUBSET Registration]
    /\ Purgeable \subseteq Session

VARIABLES
    sess,       \* the sessions table, one row per native session
    holder,     \* names.holder_id of each address
    conflict,   \* names.conflict of each address: the qualifiers recorded
    fences,     \* participant_fences: the sessions fenced off each address
    guarded,    \* sessions whose last tool call is within the guard setting
    running     \* host processes that still run

vars == <<sess, holder, conflict, fences, guarded, running>>

-----------------------------------------------------------------------------
(* State *)

\* succeed: the evidence that moves a participant from its active holder.
Evidence == {"cycle_session", "cycle_reset", "host_cleared", "same_host", "same_pane"}

Row == [state : {"none", "active", "inactive"},
        launch : Launch \cup {NoLaunch},
        subagent : BOOLEAN,
        host : Host \cup {NoHost},
        pane : Pane \cup {NoPane},
        purge : BOOLEAN]

NoRow == [state |-> "none", launch |-> NoLaunch, subagent |-> FALSE,
          host |-> NoHost, pane |-> NoPane, purge |-> FALSE]

\* The database value a transaction reads and writes.
Db == [sess |-> sess, holder |-> holder, conflict |-> conflict,
       fences |-> fences]

Commit(d) ==
    /\ sess' = d.sess
    /\ holder' = d.holder
    /\ conflict' = d.conflict
    /\ fences' = d.fences

-----------------------------------------------------------------------------
(* Holder rules *)

\* The participant of a row, by the participantQualifier condition: a session
\* without a launch is a plain peer and has none.
AddressOf(row) ==
    IF row.launch = NoLaunch THEN NoAddress ELSE LaunchAddress[row.launch]

\* holds: active, no sub-agent, and registered for this participant.
Qualified(d, s, a) ==
    /\ d.sess[s].state = "active"
    /\ ~d.sess[s].subagent
    /\ AddressOf(d.sess[s]) = a

\* Mutant of Qualifiers: the fences are not read.
QualifiersUnfenced(d, a) == {s \in Session : Qualified(d, s, a)}

Qualifiers(d, a) == {s \in Session : Qualified(d, s, a) /\ s \notin d.fences[a]}

RetireRow(rows, s) ==
    IF rows[s].state = "active" THEN [rows EXCEPT ![s].state = "inactive"] ELSE rows

\* A superseded holder is retired when it is active, and fenced.
Supersede(d, a, former) ==
    [d EXCEPT !.sess = RetireRow(d.sess, former),
              !.fences = [d.fences EXCEPT ![a] = @ \cup {former}]]

\* setHolder; its reset of the participant's inbox is in module Inbox.
SetHolder(d, a, s) ==
    LET former == d.holder[a]
        base == IF former \in {NoSession, s} THEN d ELSE Supersede(d, a, former)
    IN  [base EXCEPT !.holder = [d.holder EXCEPT ![a] = s],
                     !.conflict = [d.conflict EXCEPT ![a] = {}]]

\* The conflict case of assignNames: nobody holds, and a recorded former
\* holder, the caller itself included, is retired and fenced.
RecordConflict(d, a) ==
    LET former == d.holder[a]
        base == IF former = NoSession THEN d ELSE Supersede(d, a, former)
    IN  [base EXCEPT !.holder = [d.holder EXCEPT ![a] = NoSession],
                     !.conflict = [d.conflict EXCEPT ![a] = Qualifiers(d, a)]]

\* releaseAddress: s gives up every address recorded for it, unfenced.
ReleaseAddress(d, s) ==
    [d EXCEPT !.holder =
        [a \in Address |-> IF d.holder[a] = s THEN NoSession ELSE d.holder[a]]]

\* Mutant of AssignAddress: the first to register or renew takes the address.
AssignFirst(d, s, a, wasActive) ==
    LET h == d.holder[a]
    IN  IF s \in d.fences[a] \/ (h \notin {NoSession, s} /\ Qualified(d, h, a))
        THEN d ELSE SetHolder(d, a, s)

\* assignNames of a session that qualifies for address a.
AssignAddress(d, s, a, wasActive) ==
    LET h == d.holder[a]
        q == Qualifiers(d, a)
        kept == \/ h = s /\ wasActive
                \/ h \notin {NoSession, s} /\ Qualified(d, h, a)
    IN  CASE kept -> d
          [] ~kept /\ q = {s} -> IF h = s THEN d ELSE SetHolder(d, a, s)
          [] ~kept /\ \E x, y \in q : x # y ->
                IF h = NoSession /\ d.conflict[a] = q THEN d ELSE RecordConflict(d, a)
          [] OTHER -> d

\* assignNames: the rules of every registration and renewal.
AssignNames(d, s, wasActive) ==
    LET row == d.sess[s]
    IN  IF row.subagent \/ row.launch = NoLaunch THEN ReleaseAddress(d, s)
        ELSE IF AddressOf(row) = NoAddress THEN d
        ELSE AssignAddress(d, s, AddressOf(row), wasActive)

-----------------------------------------------------------------------------
(* Succession *)

\* holdsElsewhere: another active session of s's host is the recorded holder
\* of another address.
HoldsElsewhere(d, s, a) ==
    \E t \in Session \ {s}, b \in Address \ {a} :
        /\ d.holder[b] = t
        /\ d.sess[t].state = "active"
        /\ d.sess[t].host = d.sess[s].host

SameHost(d, s, h) == d.sess[s].host # NoHost /\ d.sess[s].host = d.sess[h].host

SamePane(d, s, h) == d.sess[s].pane # NoPane /\ d.sess[s].pane = d.sess[h].pane

\* Mutant of HostEnded: a process that cannot be read counts as ended.
HostEndedUnread(h, readable) == h \notin readable \/ h \notin running

\* hostEnded: a process that cannot be read is not proven ended.
HostEnded(h, readable) == h \in readable /\ h \notin running

\* hostlessCycleLink, read when neither session has a host: it links no session that is
\* recorded for another address.
HostlessCycleLink(d, s, h, a, r) ==
    IF /\ d.sess[s].host = NoHost /\ d.sess[h].host = NoHost
       /\ \A b \in Address \ {a} : d.holder[b] # s
    THEN r.link ELSE "none"

\* The switch of succeed: the evidence, or the reason of the refusal.
Verdict(d, s, h, a, r) ==
    IF s \in d.fences[a] THEN "fenced"
    ELSE IF d.sess[s].subagent THEN "subagent"
    ELSE IF HostlessCycleLink(d, s, h, a, r) = "linked" THEN "cycle_session"
    ELSE IF HostlessCycleLink(d, s, h, a, r) = "pending" THEN "cycle_receipt_pending"
    ELSE IF NoHost \in {d.sess[s].host, d.sess[h].host} THEN "no_host"
    ELSE IF HoldsElsewhere(d, s, a) THEN "other_participant"
    ELSE IF r.link = "reset" /\ SameHost(d, s, h) /\ SamePane(d, s, h) THEN "cycle_reset"
    ELSE IF SameHost(d, s, h)
         THEN IF r.call = "clear" THEN "host_cleared"
              ELSE IF h \in guarded THEN "holder_active" ELSE "same_host"
    ELSE IF SamePane(d, s, h)
         THEN IF HostEnded(d.sess[h].host, r.readable) THEN "same_pane" ELSE "host_running"
    ELSE "other_pane"

\* A cleared thread that reports no terminal keeps its holder's pane.
KeepPane(d, s, h, verdict) ==
    IF verdict = "host_cleared" /\ d.sess[s].pane = NoPane
    THEN [d EXCEPT !.sess = [d.sess EXCEPT ![s].pane = d.sess[h].pane]]
    ELSE d

\* succeed: s takes its participant from the active holder, on evidence only.
Succeed(d, s, r) ==
    LET a == AddressOf(d.sess[s])
        h == d.holder[a]
        verdict == Verdict(d, s, h, a, r)
    IN  IF /\ r.call # "start" /\ a # NoAddress
           /\ h \notin {NoSession, s} /\ Qualified(d, h, a)
           /\ verdict \in Evidence
        THEN SetHolder(KeepPane(d, s, h, verdict), a, s)
        ELSE d

-----------------------------------------------------------------------------
(* Transactions *)

\* admitLaunch: a launch that chose its first session's id admits only that
\* id until a session has registered through it.
Admitted(s, l) ==
    (l # NoLaunch /\ LaunchSession[l] \notin {NoSession, s})
        => \E t \in Session : sess[t].launch = l

\* The row a registration writes: a sub-agent stays one, a purge mark stays,
\* and a host that cannot be read or has ended leaves no host record.
RegisteredRow(s, r) ==
    LET h == IF r.launch = NoLaunch THEN NoHost ELSE LaunchHost[r.launch]
    IN  [state |-> "active", launch |-> r.launch,
         subagent |-> sess[s].subagent \/ r.subagent,
         host |-> IF h \in running \cap r.readable THEN h ELSE NoHost,
         pane |-> IF h # NoHost /\ r.tmux THEN HostPane[h] ELSE NoPane,
         purge |-> sess[s].purge]

Upsert(s, r) == [Db EXCEPT !.sess = [sess EXCEPT ![s] = RegisteredRow(s, r)]]

\* Register: the row, then the holder rules, then succession.
Register(s, r) ==
    /\ Admitted(s, r.launch)
    /\ Commit(Succeed(AssignNames(Upsert(s, r), s, sess[s].state = "active"), s, r))
    /\ guarded' = IF r.call = "start" THEN guarded ELSE guarded \cup {s}
    /\ UNCHANGED running

\* Mutate with retire false.  A row without a launch also loses its host.
RenewedRow(s) ==
    IF sess[s].launch = NoLaunch
    THEN [sess[s] EXCEPT !.host = NoHost, !.pane = NoPane]
    ELSE sess[s]

\* Mutant of Renew: a renewal extends the lease without the holder rules.
RenewLease(s) ==
    /\ sess[s].state = "active"
    /\ sess' = [sess EXCEPT ![s] = RenewedRow(s)]
    /\ UNCHANGED <<holder, conflict, fences, guarded, running>>

Renew(s) ==
    /\ sess[s].state = "active"
    /\ Commit(AssignNames([Db EXCEPT !.sess = [sess EXCEPT ![s] = RenewedRow(s)]], s, TRUE))
    /\ UNCHANGED <<guarded, running>>

\* Mutate with retire true: the record keeps naming the retired holder.
Retire(s) ==
    /\ sess[s].state = "active"
    /\ sess' = RetireRow(sess, s)
    /\ UNCHANGED <<holder, conflict, fences, guarded, running>>

\* chooseHolder: the maintainer's choice, the only lift of a fence.
ChooseHolder(a, s) ==
    LET lifted == [Db EXCEPT !.fences = [fences EXCEPT ![a] = @ \ {s}]]
    IN  /\ sess[s].state = "active"
        /\ ~sess[s].subagent
        /\ AddressOf(sess[s]) = a
        /\ Commit(IF holder[a] = s THEN lifted
                  ELSE SetHolder(lifted, a, s))
        /\ UNCHANGED <<guarded, running>>

\* markPurge: a mark retires an active session; removing it revives nothing.
MarkPurge(s, mark) ==
    /\ s \in Purgeable
    /\ sess[s].state # "none"
    /\ sess[s].purge # mark
    /\ sess' = [IF mark THEN RetireRow(sess, s) ELSE sess EXCEPT ![s].purge = mark]
    /\ UNCHANGED <<holder, conflict, fences, guarded, running>>

\* deleteSession, for deleteInactive (past its retention, not active) and for
\* purgeMarked (marked, whatever its state).  Its fences stay.
DeleteSession(s) ==
    /\ sess[s].state # "none"
    /\ sess[s].purge \/ sess[s].state # "active"
    /\ Commit(ReleaseAddress([Db EXCEPT !.sess = [sess EXCEPT ![s] = NoRow]], s))
    /\ UNCHANGED <<guarded, running>>

-----------------------------------------------------------------------------
(* Time, processes and the daemon *)

Expire(s) ==
    /\ sess[s].state = "active"
    /\ sess' = [sess EXCEPT ![s].state = "inactive"]
    /\ UNCHANGED <<holder, conflict, fences, guarded, running>>

\* ToolCall: any other tool call of a session.
ToolCall(s) ==
    /\ sess[s].state = "active"
    /\ guarded' = guarded \cup {s}
    /\ UNCHANGED <<sess, holder, conflict, fences, running>>

\* guardLeft of s reaches 0.
GuardElapse(s) ==
    /\ s \in guarded
    /\ guarded' = guarded \ {s}
    /\ UNCHANGED <<sess, holder, conflict, fences, running>>

HostEnd(h) ==
    /\ h \in running
    /\ running' = running \ {h}
    /\ UNCHANGED <<sess, holder, conflict, fences, guarded>>

\* A daemon start counts as an unknown tool call of every session.
Restart ==
    /\ guarded' = Session
    /\ UNCHANGED <<sess, holder, conflict, fences, running>>

-----------------------------------------------------------------------------
Init ==
    /\ sess = [s \in Session |-> NoRow]
    /\ holder = [a \in Address |-> NoSession]
    /\ conflict = [a \in Address |-> {}]
    /\ fences = [a \in Address |-> {}]
    /\ guarded = Session
    /\ running = Host

Operation ==
    \/ \E s \in Session : \E r \in Requests[s] : Register(s, r)
    \/ \E s \in Session : Renew(s)
    \/ \E s \in Session : Retire(s)
    \/ \E s \in Session, mark \in BOOLEAN : MarkPurge(s, mark)
    \/ \E s \in Session : DeleteSession(s)
    \/ \E a \in Address, s \in Session : ChooseHolder(a, s)
    \/ \E s \in Session : Expire(s)
    \/ \E s \in Session : ToolCall(s)
    \/ \E s \in Session : GuardElapse(s)
    \/ \E h \in Host : HostEnd(h)

Next == Operation \/ Restart

Spec == Init /\ [][Next]_vars

\* koinon mcp renews its session on a timer for as long as it runs.
RenewFairness == \A s \in Session : WF_vars(Renew(s))
-----------------------------------------------------------------------------
(* Properties *)

\* Types of the tables of the store.
TypeOK ==
    /\ sess \in [Session -> Row]
    /\ holder \in [Address -> Session \cup {NoSession}]
    /\ conflict \in [Address -> SUBSET Session]
    /\ fences \in [Address -> SUBSET Session]
    /\ guarded \subseteq Session
    /\ running \subseteq Host

\* The session that requireHolder lets act for address a: the recorded holder
\* while it is active and still registered for that participant.
Acting(a, s) == holder[a] = s /\ Qualified(Db, s, a)

\* A fence is never left on a session that is recorded as the holder: a
\* session the daemon superseded acts for the participant again only after
\* the maintainer's choice (setHolder, assignNames, succeed, chooseHolder).
FencedNeverHolds == \A a \in Address : holder[a] \notin fences[a]

\* A recorded conflict means that nobody holds the address (assignNames,
\* setHolder, releaseAddress never leave both).
ConflictMeansUnheld == \A a \in Address : conflict[a] # {} => holder[a] = NoSession

\* Whenever an address passes from one session to another, in one step, the
\* former holder is fenced off it and no longer active (setHolder).
FormerIsFenced ==
    [][\A a \in Address :
          (holder[a] # NoSession /\ holder'[a] \notin {NoSession, holder[a]})
             => /\ holder[a] \in fences'[a]
                /\ sess'[holder[a]].state # "active"]_vars

\* Only proof moves an address away from a session that acts for it: the
\* maintainer's choice, the same host with the holder idle or the host's own
\* report, or the same pane with the holder's host ended; never a host that
\* is another participant's.  Where neither session has a host, the one proof
\* is the holder's cycle, which created this session and has its pickup; never
\* a session recorded for another address (succeed, hostlessCycleLink).
SuccessionIsProven ==
    [][\A a \in Address :
          LET s == holder[a]
              t == holder'[a]
          IN  (s # NoSession /\ t \notin {NoSession, s} /\ Acting(a, s)) =>
                \/ ChooseHolder(a, t)
                \/ /\ sess[s].host = NoHost /\ sess'[t].host = NoHost
                   /\ \A b \in Address \ {a} : holder[b] # t
                   /\ \E r \in Requests[t] : Register(t, r) /\ r.link = "linked"
                \/ /\ NoHost \notin {sess[s].host, sess'[t].host}
                   /\ ~\E u \in Session \ {t}, b \in Address \ {a} :
                         holder[b] = u /\ sess[u].state = "active"
                            /\ sess[u].host = sess'[t].host
                   /\ \/ /\ sess'[t].host = sess[s].host
                         /\ \/ s \notin guarded
                            \/ \E r \in Requests[t] : Register(t, r) /\ (r.link = "reset" \/ r.call = "clear")
                      \/ /\ sess'[t].pane = sess[s].pane
                         /\ sess[s].host \notin running]_vars

\* Registration and renewal order never decide: where no session acts for an
\* address, only the maintainer or being the one session that qualifies gives
\* it to a session (assignNames).
OrderNeverDecides ==
    [][\A a \in Address :
          LET s == holder[a]
              t == holder'[a]
          IN  (t \notin {NoSession, s} /\ (s # NoSession => ~Acting(a, s))) =>
                ChooseHolder(a, t) \/ Qualifiers(Db, a)' = {t}]_vars

\* A fence is lifted only as its session becomes the holder (chooseHolder).
FenceLiftedByChoice ==
    [][\A a \in Address, s \in Session :
          (s \in fences[a] /\ s \notin fences'[a])
             => holder'[a] = s /\ holder[a] # s]_vars

\* A participant with one candidate does not stay without a holder: once one
\* session is and stays the only qualifier, its renewals make it the holder.
SoleQualifierHolds ==
    \A a \in Address, s \in Session :
        <>[](Qualifiers(Db, a) = {s}) => <>[](holder[a] = s)

\* PROTOCOL.md: an active holder keeps the address when another session
\* registers or renews, except for verified succession.
ActiveHolderKeepsAddress ==
    [][\A a \in Address, s, t \in Session :
          /\ s # t /\ Acting(a, s)
          /\ Renew(t) \/ \E r \in Requests[t] : Register(t, r)
          => \/ Acting(a, s)'
             \/ SameHost(Db, t, s)' \/ SamePane(Db, t, s)'
             \/ \E r \in Requests[t] : Register(t, r) /\ r.link = "linked"]_vars
=============================================================================
