------------------------------- MODULE Work -------------------------------
(***************************************************************************)
(* Work items, their claims and the obligations that the store promises    *)
(* with them (internal/core/work.go, claims.go, work_verdict.go,           *)
(* work_maintenance.go), on one store.                                     *)
(*                                                                         *)
(* Every mutation holds memory.op, but is several transactions: memory     *)
(* expiry, the due transition of its target, a reclamation, and the        *)
(* operation itself.  Each transaction is an action; an operation runs     *)
(* only when nothing is due on its target, because reconcile ran before    *)
(* it at the same time.  A refused operation leaves the transactions       *)
(* before it, which are actions of their own.  Revisions are not in the    *)
(* model: a stale one is refused, which is the step not taken.             *)
(*                                                                         *)
(* A lease, a progress deadline, the retention of a finished item and the  *)
(* deadline of a key end at any step.                                      *)
(***************************************************************************)
EXTENDS Integers, FiniteSetsExt, SequencesExt

CONSTANTS
    MaxWorks,           \* bound: items that are created
    Consumers,
    ResourceSets,
    Keys,               \* replay keys, each with its consumer, request and deadline
    EntryLimit,         \* l.entries: entries of the stream, notes and events
    ReservedEntries,    \* l.reservedEntries: kept from ordinary writes
    EventLimit,         \* l.workEvents
    ReplayLimit,        \* l.idem
    ItemLimit,          \* l.workItems
    ScopeLimit,         \* l.workScopes
    ScopesPerItem,      \* l.workScopesPerItem
    MaxBundles,         \* maxBundles
    MaxVerdicts,        \* maxStoreVerdicts
    MaxNotes            \* bound: notes that share the stream

ASSUME WorkAssumption ==
    {MaxWorks, EntryLimit, ReservedEntries, EventLimit, ReplayLimit, ItemLimit, ScopeLimit,
     ScopesPerItem, MaxBundles, MaxVerdicts, MaxNotes} \subseteq Nat

\* The ids that work_counter gives.
Works == 1..MaxWorks

VARIABLES
    item,       \* work_items, with the number of their events and scope revisions
    created,    \* work_counter
    bundle,     \* claim_bundles with their resources: a function on the items that have one
    claims,     \* claim_counter
    finished,   \* finished items, oldest first
    aged,       \* how many of them have outlived their retention
    notes,      \* other entries of the stream
    replays,    \* keys of work_replays
    late,       \* keys whose deadline has passed
    applied,    \* history: how often the request of a key took effect
    noticed     \* history: progress-overdue events of an item's present epoch

vars == <<item, created, bundle, claims, finished, aged, notes, replays, late, applied, noticed>>

\* "active" is also the blocked item, which differs in its text only.
State == {"absent", "open", "active", "reported", "finished"}

Item == [state : State, epoch : Nat, deadline : {"none", "ahead", "passed"},
         reporter : SUBSET Consumers, verdictCredit : BOOLEAN, events : Nat, scopes : Nat]

Bundle == [generation : Nat, consumer : Consumers, resources : ResourceSets,
           active : BOOLEAN, lapsed : BOOLEAN, epoch : Nat,
           recorded : BOOLEAN, overdueCredit : BOOLEAN, endCredit : BOOLEAN]

Absent == [state |-> "absent", epoch |-> 0, deadline |-> "none", reporter |-> {},
           verdictCredit |-> FALSE, events |-> 0, scopes |-> 0]

\* The claims that acquire looks at.
LiveClaims ==
    {[work |-> w, consumer |-> bundle[w].consumer, resources |-> bundle[w].resources,
      generation |-> bundle[w].generation] :
         w \in {v \in DOMAIN bundle : bundle[v].active /\ ~bundle[v].lapsed}}

Own == INSTANCE Ownership WITH live <- LiveClaims, last <- claims

Retained(w) == item[w].state # "absent"
Expired(w) == \E i \in 1..aged : finished[i] = w

\* current: a finished item past its retention is invisible.
Current(w) == Retained(w) /\ ~Expired(w)

Held(w) == w \in DOMAIN bundle
Active(w) == Held(w) /\ bundle[w].active
Live(w) == Active(w) /\ ~bundle[w].lapsed

\* owner, for the generation that is held.
Owner(w, c) == Live(w) /\ bundle[w].consumer = c

\* The due transitions of reconcile: lease expiry wins over overdue progress.
LeaseDue(w) == Active(w) /\ bundle[w].lapsed
OverdueDue(w) ==
    Active(w) /\ ~bundle[w].lapsed /\ item[w].deadline = "passed" /\ ~bundle[w].recorded
Due(w) == LeaseDue(w) \/ OverdueDue(w)

-----------------------------------------------------------------------------
(* The ceilings of the store, after keeping its promised controls free. *)

Count(P(_)) == Cardinality({w \in Works : P(w)})

\* work_events and work_scope_revisions: so many rows of each item.
Rows(n) == UNION {{w} \X (1 .. n[w]) : w \in Works}
Events == Cardinality(Rows([w \in Works |-> item[w].events]))
Scopes == Cardinality(Rows([w \in Works |-> item[w].scopes]))

OverdueDebt == Count(LAMBDA w : Held(w) /\ bundle[w].overdueCredit)
EndDebt == Count(LAMBDA w : Held(w) /\ bundle[w].endCredit)
VerdictDebt == Count(LAMBDA w : item[w].verdictCredit)

\* Each credit keeps one event and one entry free.
Slots == OverdueDebt + EndDebt + VerdictDebt

Reserve(class) == IF class = "control" THEN 0 ELSE ReservedEntries

\* enforce
Fits(class) ==
    /\ notes + Events + Slots <= EntryLimit - Reserve(class)
    /\ Events + Slots <= EventLimit
    /\ Cardinality(replays) + EndDebt + VerdictDebt <= ReplayLimit
    /\ Count(Retained) <= ItemLimit
    /\ Scopes + VerdictDebt <= ScopeLimit
    /\ \A w \in Works : item[w].scopes <= ScopesPerItem
    /\ Cardinality(DOMAIN bundle) <= MaxBundles

\* enforce runs inside the transaction, after its mutation.
Enforce(class) == Fits(class)'

-----------------------------------------------------------------------------
(* A request carries a key or none. *)

Keyed == {{}} \cup {{k} : k \in Keys}

\* replay and storeReplay: a key that is retained answers its retry, one whose
\* deadline has passed is refused; otherwise the request takes effect.
Answer(key) ==
    /\ key \cap (replays \cup late) = {}
    /\ replays' = replays \cup key
    /\ applied' = [k \in Keys |-> IF k \in key THEN applied[k] + 1 ELSE applied[k]]
    /\ UNCHANGED late

\* event: the item is stored with one more event.
Event(w, it) == item' = [item EXCEPT ![w] = [it EXCEPT !.events = @ + 1]]

SetBundle(w, b) == bundle' = [bundle EXCEPT ![w] = b]

Without(w) == [v \in DOMAIN bundle \ {w} |-> bundle[v]]

\* end: the generation is over and its credits are spent.
Ended(b) == [b EXCEPT !.active = FALSE, !.overdueCredit = FALSE, !.endCredit = FALSE]

-----------------------------------------------------------------------------
(* Operations.  Ready is what workMutation has brought about before apply. *)

Ready(w) == Current(w) /\ ~Due(w) /\ item[w].state # "finished"

Create(c, key) ==
    LET w == created + 1
    IN  /\ w \in Works
        /\ Answer(key)
        /\ created' = w
        /\ item' = [item EXCEPT ![w] = [Absent EXCEPT !.state = "open", !.events = 1, !.scopes = 1]]
        /\ UNCHANGED <<bundle, claims, finished, aged, notes, noticed>>
        /\ Enforce("ordinary")

\* A proposal is allowed for a reported item too.
Propose(w, c, key) ==
    /\ Ready(w)
    /\ Answer(key)
    /\ Event(w, item[w])
    /\ UNCHANGED <<created, bundle, claims, finished, aged, notes, noticed>>
    /\ Enforce("ordinary")

\* An edit needs the owner's generation while a claim is live.
Edit(w, c, key) ==
    /\ Ready(w) /\ item[w].state # "reported"
    /\ Live(w) => Owner(w, c)
    /\ Answer(key)
    /\ Event(w, [item[w] EXCEPT !.scopes = @ + 1])
    /\ UNCHANGED <<created, bundle, claims, finished, aged, notes, noticed>>
    /\ Enforce("ordinary")

\* Mutant of NextGeneration: counted from the retained bundles.
NextGenerationRetained ==
    IF DOMAIN bundle = {} THEN 1 ELSE 1 + Max({bundle[w].generation : w \in DOMAIN bundle})

\* counter: the durable counter of the store, not the retained bundles.
NextGeneration == claims + 1

\* start and acquire.  The target's own bundle was reclaimed before, or acquire
\* refuses; a live claim of another item that overlaps refuses.
Start(w, c, names, key) ==
    LET new == [generation |-> NextGeneration, consumer |-> c, resources |-> names,
                active |-> TRUE, lapsed |-> FALSE, epoch |-> item[w].epoch + 1,
                recorded |-> FALSE, overdueCredit |-> TRUE, endCredit |-> TRUE]
    IN  /\ Ready(w) /\ item[w].state # "reported"
        /\ ~Held(w)
        /\ \A v \in DOMAIN bundle : Live(v) =>
               ~\E r \in names, s \in bundle[v].resources : Own!Overlaps(r, s)
        /\ Cardinality(DOMAIN bundle) < MaxBundles
        /\ Answer(key)
        /\ claims' = new.generation
        /\ bundle' = [v \in DOMAIN bundle \cup {w} |-> IF v = w THEN new ELSE bundle[v]]
        /\ Event(w, [item[w] EXCEPT !.state = "active", !.epoch = @ + 1, !.deadline = "ahead"])
        /\ noticed' = [noticed EXCEPT ![w] = 0]
        /\ UNCHANGED <<created, finished, aged, notes>>
        /\ Enforce("ordinary")

\* Mutant of Rearmed: the next overdue event has no credit.
RearmedUnfunded(b) == [b EXCEPT !.epoch = @ + 1, !.recorded = FALSE]

\* progress: the next epoch may be recorded overdue again, and is funded for it.
Rearmed(b) == [b EXCEPT !.epoch = @ + 1, !.recorded = FALSE, !.overdueCredit = TRUE]

Update(w, c, key) ==
    /\ Ready(w) /\ Owner(w, c)
    /\ Answer(key)
    /\ SetBundle(w, Rearmed(bundle[w]))
    /\ Event(w, [item[w] EXCEPT !.state = "active", !.epoch = @ + 1, !.deadline = "ahead"])
    /\ noticed' = [noticed EXCEPT ![w] = 0]
    /\ UNCHANGED <<created, claims, finished, aged, notes>>
    /\ Enforce("ordinary")

\* Mutant of Renewed: a renewal counts as progress.
RenewedAsProgress(b) == [b EXCEPT !.lapsed = FALSE, !.recorded = FALSE, !.overdueCredit = TRUE]

\* renew moves the expiry only; a lease that has ended stays so.
Renewed(b) == [b EXCEPT !.lapsed = FALSE]

\* claim-renew writes no event, but keeps its key.
Renew(w, c, key) ==
    /\ Ready(w) /\ Owner(w, c)
    /\ Answer(key)
    /\ SetBundle(w, Renewed(bundle[w]))
    /\ UNCHANGED <<item, created, claims, finished, aged, notes, noticed>>
    /\ Enforce("ordinary")

\* A release is a promised control, unless it hands a checkout over: then it
\* names an exact resource of the claim and is an ordinary write.  The purge
\* of a session releases as its claims' owner, without a key.
Release(w, c, handoff, key) ==
    /\ Ready(w) /\ Owner(w, c)
    /\ handoff => \E r \in bundle[w].resources : r.kind = "exact"
    /\ Answer(key)
    /\ SetBundle(w, Ended(bundle[w]))
    /\ Event(w, [item[w] EXCEPT !.state = "open", !.deadline = "none"])
    /\ UNCHANGED <<created, claims, finished, aged, notes, noticed>>
    /\ Enforce(IF handoff THEN "ordinary" ELSE "control")

\* Mutant of Finish: the claim goes on.
FinishHeld(w, c, key) ==
    /\ Ready(w) /\ Owner(w, c)
    /\ Answer(key)
    /\ Event(w, [item[w] EXCEPT !.state = "finished", !.deadline = "none"])
    /\ finished' = Append(finished, w)
    /\ UNCHANGED <<created, bundle, claims, aged, notes, noticed>>
    /\ Enforce("control")

Finish(w, c, key) ==
    /\ Ready(w) /\ Owner(w, c)
    /\ Answer(key)
    /\ SetBundle(w, Ended(bundle[w]))
    /\ Event(w, [item[w] EXCEPT !.state = "finished", !.deadline = "none"])
    /\ finished' = Append(finished, w)
    /\ UNCHANGED <<created, claims, aged, notes, noticed>>
    /\ Enforce("control")

\* reserveVerdict: the pending verdicts of the store, and the scope revision
\* that a rejection writes.
VerdictReserved(w) ==
    VerdictDebt < MaxVerdicts /\ item[w].scopes < ScopesPerItem

Report(w, c, key) ==
    /\ Ready(w) /\ Owner(w, c)
    /\ VerdictReserved(w)
    /\ Answer(key)
    /\ SetBundle(w, Ended(bundle[w]))
    /\ Event(w, [item[w] EXCEPT !.state = "reported", !.deadline = "none",
                                !.reporter = {c}, !.verdictCredit = TRUE])
    /\ UNCHANGED <<created, claims, finished, aged, notes, noticed>>
    /\ Enforce("ordinary")

\* A verdict is not the reporting worker's, and spends the credit of its report.
Accept(w, c, key) ==
    /\ Ready(w) /\ item[w].state = "reported" /\ c \notin item[w].reporter
    /\ Answer(key)
    /\ Event(w, [item[w] EXCEPT !.state = "finished", !.verdictCredit = FALSE])
    /\ finished' = Append(finished, w)
    /\ UNCHANGED <<created, bundle, claims, aged, notes, noticed>>
    /\ Enforce("control")

\* A rejection opens the item again, with a scope revision of its own.
Reject(w, c, key) ==
    /\ Ready(w) /\ item[w].state = "reported" /\ c \notin item[w].reporter
    /\ Answer(key)
    /\ Event(w, [item[w] EXCEPT !.state = "open", !.verdictCredit = FALSE, !.scopes = @ + 1])
    /\ UNCHANGED <<created, bundle, claims, finished, aged, notes, noticed>>
    /\ Enforce("control")

-----------------------------------------------------------------------------
(* Maintenance: before an operation, and in the sweep. *)

\* reconcile: at most one due transition of a target, paid with its credit.
Reconcile(w) ==
    /\ Current(w) /\ Due(w)
    /\ SetBundle(w, IF LeaseDue(w) THEN Ended(bundle[w])
                    ELSE [bundle[w] EXCEPT !.recorded = TRUE, !.overdueCredit = FALSE])
    /\ Event(w, item[w])
    /\ noticed' = IF LeaseDue(w) THEN noticed ELSE [noticed EXCEPT ![w] = @ + 1]
    /\ UNCHANGED <<created, claims, finished, aged, notes, replays, late, applied>>
    /\ Enforce("control")

AtItemLimit == Count(Retained) >= ItemLimit

\* reclaimInactive: before a start of the item, or before makeRoom removes it.
ReclaimInactive(w) ==
    /\ Held(w) /\ ~Active(w)
    /\ Current(w) \/ (AtItemLimit /\ finished # << >> /\ w = Head(finished))
    /\ bundle' = Without(w)
    /\ UNCHANGED <<item, created, claims, finished, aged, notes, replays, late, applied, noticed>>
    /\ Enforce("ordinary")

\* Mutant of Reclaimable: the oldest bundle, whether it has ended or not.
ReclaimableOldest ==
    {w \in DOMAIN bundle : /\ ~Active(w)
                           /\ \A v \in DOMAIN bundle : bundle[w].generation <= bundle[v].generation}

\* reclaimOne: the oldest inactive bundle.
Reclaimable ==
    {w \in DOMAIN bundle : /\ ~Active(w)
                           /\ \A v \in DOMAIN bundle :
                                 Active(v) \/ bundle[w].generation <= bundle[v].generation}

ReclaimOne ==
    \E w \in Reclaimable :
        /\ bundle' = Without(w)
        /\ UNCHANGED <<item, created, claims, finished, aged, notes, replays, late, applied, noticed>>
        /\ Enforce("control")

\* reclaimFinished: the oldest finished item, with its history.  It waits for
\* the reclamation of its bundle.
RemoveOldest ==
    /\ ~Held(Head(finished))
    /\ item' = [item EXCEPT ![Head(finished)] = Absent]
    /\ finished' = Tail(finished)
    /\ aged' = IF aged > 0 THEN aged - 1 ELSE 0
    /\ UNCHANGED <<created, bundle, claims, notes, replays, late, applied, noticed>>
    /\ Enforce("control")

SweepFinished == aged > 0 /\ RemoveOldest

\* makeRoom: a create at the item limit removes a finished item early.
MakeRoom == AtItemLimit /\ finished # << >> /\ RemoveOldest

\* Mutant of OutOfWindow: the replay goes before the deadline of its key.
OutOfWindowEarly == replays

\* expireMemory: only keys whose deadline has passed.
OutOfWindow == replays \cap late

ExpireReplays ==
    /\ OutOfWindow # {}
    /\ replays' = replays \ OutOfWindow
    /\ UNCHANGED <<item, created, bundle, claims, finished, aged, notes, late, applied, noticed>>

ExpireNote ==
    /\ notes > 0
    /\ notes' = notes - 1
    /\ UNCHANGED <<item, created, bundle, claims, finished, aged, replays, late, applied, noticed>>

\* memoryWrite: a note; a withdrawal may use the reserve.
WriteNote(class, key) ==
    /\ notes < MaxNotes
    /\ Answer(key)
    /\ notes' = notes + 1
    /\ UNCHANGED <<item, created, bundle, claims, finished, aged, noticed>>
    /\ Enforce(class)

-----------------------------------------------------------------------------
(* Time. *)

LeaseEnds(w) ==
    /\ Live(w)
    /\ bundle' = [bundle EXCEPT ![w].lapsed = TRUE]
    /\ UNCHANGED <<item, created, claims, finished, aged, notes, replays, late, applied, noticed>>

DeadlinePasses(w) ==
    /\ item[w].deadline = "ahead"
    /\ item' = [item EXCEPT ![w].deadline = "passed"]
    /\ UNCHANGED <<created, bundle, claims, finished, aged, notes, replays, late, applied, noticed>>

\* Retention is the same for every item: it ends in the order of finishing.
RetentionEnds ==
    /\ aged < Len(finished)
    /\ aged' = aged + 1
    /\ UNCHANGED <<item, created, bundle, claims, finished, notes, replays, late, applied, noticed>>

KeyEnds(k) ==
    /\ k \notin late
    /\ late' = late \cup {k}
    /\ UNCHANGED <<item, created, bundle, claims, finished, aged, notes, replays, applied, noticed>>

-----------------------------------------------------------------------------
Init ==
    /\ item = [w \in Works |-> Absent]
    /\ bundle = [w \in {} |-> Absent]
    /\ created = 0 /\ claims = 0 /\ aged = 0 /\ notes = 0
    /\ finished = << >>
    /\ replays = {} /\ late = {}
    /\ applied = [k \in Keys |-> 0]
    /\ noticed = [w \in Works |-> 0]

Operation(w, c, key) ==
    \/ Propose(w, c, key) \/ Edit(w, c, key)
    \/ \E names \in ResourceSets : Start(w, c, names, key)
    \/ Update(w, c, key) \/ Renew(w, c, key)
    \/ \E handoff \in BOOLEAN : Release(w, c, handoff, key)
    \/ Finish(w, c, key) \/ Report(w, c, key)
    \/ Accept(w, c, key) \/ Reject(w, c, key)

Next ==
    \/ \E c \in Consumers, key \in Keyed :
          Create(c, key) \/ \E w \in Works : Operation(w, c, key)
    \/ \E class \in {"ordinary", "control"}, key \in Keyed : WriteNote(class, key)
    \/ \E w \in Works : \/ Reconcile(w) \/ ReclaimInactive(w)
                        \/ LeaseEnds(w) \/ DeadlinePasses(w)
    \/ ReclaimOne \/ SweepFinished \/ MakeRoom
    \/ ExpireReplays \/ ExpireNote \/ RetentionEnds
    \/ \E k \in Keys : KeyEnds(k)

\* The sweep runs every 30 seconds, also after an error.
Fairness ==
    /\ \A w \in Works : WF_vars(Reconcile(w))
    /\ WF_vars(ReclaimOne) /\ WF_vars(SweepFinished)

Spec == Init /\ [][Next]_vars
FairSpec == Spec /\ Fairness

-----------------------------------------------------------------------------
WorkTypeOK ==
    /\ item \in [Works -> Item]
    /\ created \in Nat /\ claims \in Nat /\ notes \in Nat
    /\ DOMAIN bundle \subseteq Works
    /\ bundle \in [DOMAIN bundle -> Bundle]
    /\ finished \in Seq(Works) /\ aged \in 0..Len(finished)
    /\ replays \subseteq Keys /\ late \subseteq Keys
    /\ applied \in [Keys -> Nat] /\ noticed \in [Works -> Nat]

\* Two live claims never overlap, over any sequence of lapses, renewals,
\* restarts and reclamations: acquire looks at the live bundles only, so a
\* lapsed claim must not come back (claims.go:228, 279).
LiveClaimsDisjoint == Own!Disjoint

\* The claims of the store are those of Ownership: a start takes a generation
\* that was never given before, and every other step ends one or changes none.
ImplementsOwnership == Own!OwnSpec

\* No sequence of operations reaches a state that the code refuses as an
\* incompatible store (claims.go:319, 339, 390, work.go:1298, 1603, 1614).
StoreCompatible ==
    /\ \A w \in DOMAIN bundle :
          /\ Retained(w)
          /\ bundle[w].active => /\ item[w].state = "active"
                                 /\ bundle[w].epoch = item[w].epoch
          /\ ~bundle[w].active => ~bundle[w].overdueCredit /\ ~bundle[w].endCredit
    /\ \A w \in Works : Retained(w) =>
          item[w].scopes \in 1..ScopesPerItem /\ item[w].events > 0

\* Every promised control has its event, its entry, its replay and its scope
\* revision left, whatever others wrote since the promise: the end of a live or
\* lapsed claim, the overdue event of an epoch, either verdict on a report.
ControlsFunded ==
    \A w \in Works :
        /\ Active(w) =>
              LET own == IF bundle[w].overdueCredit THEN 2 ELSE 1
              IN  /\ bundle[w].endCredit
                  /\ notes + Events + 1 + Slots - own <= EntryLimit
                  /\ Events + 1 + Slots - own <= EventLimit
                  /\ Cardinality(replays) + EndDebt + VerdictDebt <= ReplayLimit
        /\ Active(w) /\ ~bundle[w].recorded =>
              /\ bundle[w].overdueCredit
              /\ notes + Events + Slots <= EntryLimit
              /\ Events + Slots <= EventLimit
        /\ item[w].state = "reported" =>
              /\ item[w].verdictCredit
              /\ Events + Slots <= EventLimit
              /\ Cardinality(replays) + EndDebt + VerdictDebt <= ReplayLimit
              /\ Scopes + VerdictDebt <= ScopeLimit
              /\ item[w].scopes < ScopesPerItem

\* A keyed request takes effect at most once: a retry finds its replay as long
\* as its deadline lets it pass (work.go:1084, memory.go:488).
KeyAppliedOnce == \A k \in Keys : applied[k] <= 1

\* An epoch of progress is recorded overdue at most once, however often the
\* claim is renewed, lapses or the sweep repeats (claims.go:306, 343).
OverdueOncePerEpoch == \A w \in Works : noticed[w] <= 1

\* The sweep records every due transition: no promise of another, no note and
\* no full store can keep a lapsed claim or an overdue epoch unrecorded.
DueIsRecorded == \A w \in Works : Due(w) ~> ~Due(w)

\* A finished item that outlived its retention is removed, although its bundle
\* goes first and other bundles end and start meanwhile.
FinishedIsRemoved == \A w \in Works : Expired(w) ~> ~Retained(w)

\* What the sweep does in the end, at a full store too (maintainStore).
SweepsInTheEnd == DueIsRecorded /\ FinishedIsRemoved
=============================================================================
