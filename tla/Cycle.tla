------------------------------- MODULE Cycle -------------------------------
(***************************************************************************)
(* Context cycles (internal/core/context_cycle.go and its controller): a   *)
(* session whose context is full writes a handoff, its pane is cleared, or *)
(* a successor session is created, and the successor reports its pickup;   *)
(* or the session's own compaction is entered.                             *)
(*                                                                         *)
(* One session.  The controller works on a row it read earlier, enters     *)
(* input under the wake lock and reads receipts from workers; the session, *)
(* its successor, the maintainer, context readings, wakes, the clock and a *)
(* stop of the daemon come in between.  What an adapter sees in a pane or  *)
(* a server is any of its answers; a deadline passes at any step.          *)
(***************************************************************************)
EXTENDS Naturals, FiniteSets

CONSTANTS
    CycleKind,      \* subset of {"pane", "session", "hostless", "compact"}
    MaxCycleEvents, \* maxCycleEvents, as small for each kind as its stages allow
    MaxCycles,      \* bound: cycles of the session, for each kind
    MaxStops,       \* bound: stops of the daemon
    MaxStrays,      \* bound: clears that the user makes, for each kind
    MaxEnables      \* bound: revision up to which the Enable is turned on again, for each kind

ASSUME CycleAssumption ==
    /\ CycleKind \subseteq {"pane", "session", "hostless", "compact"}
    /\ MaxCycleEvents \in [CycleKind -> Nat \ (0 .. 2)]
    /\ MaxCycles \in [CycleKind -> Nat] /\ MaxStrays \in [CycleKind -> Nat]
    /\ MaxStops \in Nat /\ MaxEnables \in [CycleKind -> Nat]

VARIABLES
    kind,       \* how the session's family enters its clear
    cy,         \* the session's newest row of context_cycles
    over,       \* deadlines that passed
    enable,     \* the session's row of context_enables
    carried,    \* the successor's Enable is on
    latched,    \* contextLatches: the epoch already selected, in memory
    ctl,        \* the row that the controller's step read
    mu,         \* who holds wake.mu
    inp,        \* what the holder of wake.mu does, on which row
    reader,     \* the row that an answer, a reading or a report read, and which of them
    work,       \* the cycle's worker and its result
    typing,     \* a wake notice is being entered
    shown, newest,  \* world: the epoch in the pane, and the newest one
    created,    \* world: the session that the cycle created
    made,       \* history: inputs made for the cycle, capped at two
    pending,    \* history: inputs made whose effect is not recorded
    stops, strays

cycleStore == <<cy, over, enable, carried, latched, pending>>
cycleWorld == <<shown, newest, created, made>>
cycleBounds == <<kind, stops, strays>>
cycleVars == <<cycleStore, cycleWorld, cycleBounds, ctl, mu, inp, reader, work, typing>>

StagePages == 280
TerminalPages == 491
CreditPages == (MaxCycleEvents[kind] - 2) * StagePages + TerminalPages

NoCycle == [id |-> 0, state |-> "none", rev |-> 0, events |-> 0, credit |-> 0, from |-> "",
            enRev |-> 0, epoch |-> 0, succ |-> 0, displayed |-> FALSE, selected |-> FALSE,
            entered |-> FALSE]
NoReader == [who |-> "none", row |-> NoCycle]
NoInput == [ph |-> "none", what |-> "", res |-> "", row |-> NoCycle]
NoWork == [run |-> "none", out |-> "none", row |-> NoCycle]

CycleTerminal(s) == s \in {"complete", "cancelled", "failed", "uncertain"}
Unfinished == cy.id > 0 /\ ~CycleTerminal(cy.state)

\* Bound: nothing new happens around a session whose last cycle ended.
Goes == Unfinished \/ cy.id < MaxCycles[kind]

CycleHoldsPane(s) ==
    s \in {"ready", "clear_intent", "clear_received", "reset_verified", "pickup_intent",
           "waiting_pickup", "waiting_prompt", "prompt_intent", "compact_intent", "compact_sent"}

CycleIntent(s) == s \in {"clear_intent", "pickup_intent", "prompt_intent", "compact_intent"}

CycleInputUnproven(s) == CycleIntent(s) \/ s = "clear_received"

AwaitingPickup(c) ==
    \/ c.state = "waiting_pickup"
    \/ c.state \in {"waiting_prompt", "prompt_intent"} /\ c.from = "waiting_pickup"

AcceptsPickupReport(c) ==
    \/ AwaitingPickup(c)
    \/ c.state = "reset_verified"
    \/ c.state \in {"waiting_prompt", "prompt_intent"} /\ c.from = "reset_verified"

\* A pickup sent through the server is unproven until the pane shows it.
CycleUnproven(c) ==
    CycleInputUnproven(c.state) \/ (kind = "session" /\ AwaitingPickup(c) /\ ~c.displayed)

-----------------------------------------------------------------------------
(* The row's writes *)

\* The deadline of the row's stage: readiness has the one of its newest
\* request, the dialogs of a pickup that of the first of them.
StageOver(c) ==
    \/ "cycle" \in over
    \/ IF c.state \in {"waiting_ready", "compact_waiting"} THEN "ask" \in over
       ELSE IF c.state \in {"waiting_prompt", "prompt_intent"} /\ c.from = "waiting_pickup"
       THEN "prompt" \in over \/ (c.state = "prompt_intent" /\ "stage" \in over)
       ELSE "stage" \in over

CycleEnabled(c) == enable.on /\ enable.rev = c.enRev

\* Mutant of SameRow: the row that was read may have moved on.
SameCycle(r) == cy.id = r.id /\ Unfinished

SameRow(r) == cy.id = r.id /\ cy.rev = r.rev /\ cy.state = r.state

\* cycleFence, and the checks of advanceCycle.
CycleFence(r) == SameRow(r) /\ ~StageOver(cy) /\ CycleEnabled(cy)

HasRoom(c) == c.credit >= StagePages + TerminalPages /\ c.events < MaxCycleEvents[kind] - 1

\* The inputs whose effect a stage records.
ProvenInput(from, to) ==
    (IF from = "prompt_intent" THEN {"answer"} ELSE {})
    \cup CASE to = "reset_verified" -> {"clear", "create", "select"}
           [] to = "clear_received" /\ from = "clear_intent" /\ kind # "pane" -> {"create"}
           [] to = "waiting_pickup" /\ (kind # "session" \/ from = "waiting_pickup") -> {"pickup"}
           [] to = "compact_sent" -> {"compact"}
           [] OTHER -> {}

ReadyTimeoutKeeps(out, reason) ==
    /\ out = "failed" /\ cy.state = "waiting_ready" /\ reason = "waiting_ready_timeout"
    /\ ~cy.entered
    /\ CycleEnabled(cy) /\ enable.kept # cy.epoch

CompactionKeeps(reason) ==
    kind = "compact" /\ (cy.state = "compact_waiting" \/ reason = "epoch_changed")

TurnedOff == [on |-> FALSE, rev |-> enable.rev + 1, kept |-> 0, read |-> FALSE]

\* Mutant of KeepEnable: the kept timeout is not recorded.
KeepEnableUnrecorded == enable

KeepEnable == [enable EXCEPT !.kept = cy.epoch, !.read = FALSE]

\* endCycleTx on the row c, with the Enable that a completed cycle leaves.
EndCycleTx(c, outcome, reason, left) ==
    LET out == IF outcome # "complete" /\ CycleUnproven(cy) THEN "uncertain" ELSE outcome
        keepTimeout == ReadyTimeoutKeeps(out, reason)
        keep == CompactionKeeps(reason) /\ out # "complete"
    IN /\ cy' = [c EXCEPT !.state = out, !.rev = @ + 1, !.credit = 0,
                          !.events = @ + (IF keepTimeout THEN 2 ELSE 1)]
       /\ enable' = IF out = "complete" THEN left
                    ELSE IF keep /\ reason # "disabled" THEN enable
                    ELSE IF keepTimeout THEN KeepEnable
                    ELSE IF enable.on THEN TurnedOff ELSE enable
       /\ latched' = IF keep THEN 0 ELSE latched
       /\ UNCHANGED <<over, pending>>

\* endCycle of a row read earlier.
EndCycle(r, outcome, reason) ==
    /\ IF Unfinished /\ cy.id = r.id /\ cy.rev = r.rev
       THEN EndCycleTx(cy, outcome, reason, enable)
       ELSE UNCHANGED <<cy, over, enable, latched, pending>>
    /\ UNCHANGED carried

\* advanceCycle of a row read earlier to the row c at stage to.
AdvanceCycle(r, c, to) ==
    /\ IF ~CycleFence(r) THEN UNCHANGED <<cy, over, enable, latched, pending>>
       ELSE IF ~HasRoom(cy) THEN EndCycleTx(cy, "failed", "event_limit", enable)
       ELSE /\ cy' = [c EXCEPT !.state = to, !.rev = @ + 1, !.events = @ + 1,
                               !.credit = @ - StagePages,
                               !.entered = @ \/ CycleIntent(to)]
            /\ over' = over \ ((IF to = r.state THEN {} ELSE {"stage"})
                                \cup (IF AcceptsPickupReport(cy') THEN {"ask"} ELSE {}))
            /\ pending' = pending \ ProvenInput(r.state, to)
            /\ UNCHANGED <<enable, latched>>
    /\ UNCHANGED carried

Advances(r) == CycleFence(r) /\ HasRoom(cy)

\* repeatCycleRequest: a new request, with its own readiness deadline.
Repeat ==
    /\ cy' = [cy EXCEPT !.state = "waiting_ready", !.rev = @ + 1, !.events = @ + 1,
                        !.credit = @ - StagePages]
    /\ over' = over \ {"stage", "ask"}
    /\ UNCHANGED <<enable, carried, latched, pending>>

CanRepeat(r) == SameRow(r) /\ "cycle" \notin over /\ CycleEnabled(cy)

-----------------------------------------------------------------------------
(* The session: readings, the ready report, the Enable *)

\* awaitingRead: a kept ready timeout of this epoch, and no read of the inbox since.
AwaitingRead == enable.kept = shown /\ ~enable.read

\* SelectContextTrigger: the reading itself (found, counted, fresh, at its threshold)
\* may stand at any step.
SelectContextTrigger == enable.on /\ ~AwaitingRead /\ latched # shown

\* A reading below the threshold forgets the selected epoch (contextLatches.latched);
\* only the next admission sees it, so it is taken between cycles.
ReadingBelow ==
    /\ Goes /\ ~Unfinished /\ latched # 0
    /\ latched' = 0
    /\ UNCHANGED <<cy, over, enable, carried, pending, cycleWorld, cycleBounds, ctl, mu, inp, reader, work, typing>>

\* admitContextCycle.
Admit ==
    /\ ~Unfinished /\ cy.id < MaxCycles[kind]
    /\ SelectContextTrigger
    /\ cy' = [NoCycle EXCEPT !.id = cy.id + 1, !.rev = 1, !.events = 1, !.credit = CreditPages,
                 !.state = IF kind = "compact" THEN "compact_waiting" ELSE "waiting_ready",
                 !.enRev = enable.rev, !.epoch = shown]
    /\ latched' = shown
    /\ over' = {} /\ pending' = {}
    /\ made' = [i \in DOMAIN made |-> 0] /\ created' = 0
    /\ work' = [work EXCEPT !.out = "none"]
    /\ UNCHANGED <<enable, carried, shown, newest, cycleBounds, ctl, mu, inp, reader, typing>>

\* contextObserved reads the row, and ends it later under the row's revision.
ObserveRead ==
    /\ Unfinished /\ reader.who = "none"
    /\ shown # cy.epoch \/ cy.state = "compact_sent"
    /\ reader' = [who |-> "obs", row |-> cy]
    /\ UNCHANGED <<cycleStore, cycleWorld, cycleBounds, ctl, mu, inp, work, typing>>

ObserveEnd ==
    /\ reader.who = "obs"
    /\ IF shown # reader.row.epoch
       THEN IF reader.row.state \in {"waiting_ready", "ready"} \/ kind = "compact"
            THEN EndCycle(reader.row, "cancelled", "epoch_changed")
            ELSE UNCHANGED cycleStore
       ELSE \/ reader.row.state = "compact_sent" /\ ~StageOver(reader.row) /\ EndCycle(reader.row, "complete", "compacted")
            \/ UNCHANGED cycleStore
    /\ reader' = NoReader
    /\ UNCHANGED <<cycleWorld, cycleBounds, ctl, mu, inp, work, typing>>

\* Mutant of ReadyLock: the report does not wait for a wake under way.
ReadyUnlocked == TRUE

ReadyLock == mu = "free"

\* ContextCycleReady, under wake.mu.
ContextCycleReady ==
    /\ ReadyLock
    /\ cy.state = "waiting_ready" /\ shown = cy.epoch
    /\ AdvanceCycle(cy, cy, "ready")
    /\ UNCHANGED <<cycleWorld, cycleBounds, ctl, mu, inp, reader, work, typing>>

\* noteCycleInboxRead.
NoteInboxRead ==
    /\ enable.on /\ enable.kept # 0 /\ ~enable.read
    /\ enable' = [enable EXCEPT !.read = TRUE]
    /\ latched' = 0
    /\ UNCHANGED <<cy, over, carried, pending, cycleWorld, cycleBounds, ctl, mu, inp, reader, work, typing>>

\* fenceCyclesTx: the mode or the holder changes, the session retires, is deleted
\* or purged.
FenceCycles ==
    /\ Unfinished
    /\ EndCycleTx(cy, "cancelled", "fenced", enable)
    /\ UNCHANGED <<carried, cycleWorld, cycleBounds, ctl, mu, inp, reader, work, typing>>

\* SetContextEnable: on arms the crossing again; off, written with the fence of the
\* cycle, is what endCycleTx leaves of any but a compaction's.
SetContextEnable(on) ==
    /\ Goes /\ ~carried /\ enable.on # on
    /\ IF on
       THEN /\ enable.rev <= MaxEnables[kind]
            /\ enable' = [on |-> TRUE, rev |-> enable.rev + 1, kept |-> 0, read |-> FALSE]
            /\ latched' = 0
            /\ UNCHANGED <<cy, over, pending>>
       ELSE IF Unfinished THEN EndCycleTx(cy, "cancelled", "disabled", enable)
       ELSE enable' = TurnedOff /\ UNCHANGED <<cy, over, latched, pending>>
    /\ UNCHANGED <<carried, cycleWorld, cycleBounds, ctl, mu, inp, reader, work, typing>>

-----------------------------------------------------------------------------
(* The successor's report *)

\* ContextCyclePickup reads the row; the display, the harness and the handoff
\* are checked before its write.
PickupRead ==
    /\ reader.who = "none" /\ Unfinished /\ AcceptsPickupReport(cy)
    /\ reader' = [who |-> "rep", row |-> cy]
    /\ UNCHANGED <<cycleStore, cycleWorld, cycleBounds, ctl, mu, inp, work, typing>>

\* A check fails; a wrong model of a proven successor ends the cycle.
PickupRefused ==
    /\ reader.who = "rep"
    /\ \/ UNCHANGED cycleStore
       \/ kind \in {"session", "hostless"} /\ EndCycle(reader.row, "uncertain", "model_changed")
    /\ reader' = NoReader
    /\ UNCHANGED <<cycleWorld, cycleBounds, ctl, mu, inp, work, typing>>

PickupStands(r) ==
    /\ cy.id = r.id /\ cy.succ = r.succ
    /\ AcceptsPickupReport(cy) /\ ~StageOver(cy) /\ CycleEnabled(cy)

\* The write completes the cycle at any revision that still accepts a report;
\* the Enable moves to the successor unless the requester itself was retained.
PickupWrite(retained) ==
    /\ reader.who = "rep"
    /\ IF PickupStands(reader.row)
       THEN /\ EndCycleTx(cy, "complete", "resumed", IF retained THEN enable ELSE TurnedOff)
            /\ carried' = ~retained
       ELSE UNCHANGED cycleStore
    /\ reader' = NoReader
    /\ UNCHANGED <<cycleWorld, cycleBounds, ctl, mu, inp, work, typing>>

-----------------------------------------------------------------------------
(* The controller's step, before it takes the lock *)

\* cycleStep lists the unfinished cycle.
CtlRead ==
    /\ ctl.id = 0 /\ mu # "ctl" /\ Unfinished
    /\ ctl' = cy
    /\ UNCHANGED <<cycleStore, cycleWorld, cycleBounds, mu, inp, reader, work, typing>>

\* Mutant of TimedOut: a dialog wait has no deadline of its own or the cycle's.
TimedOutOutsideDialogs(r) ==
    r.state # "waiting_prompt" /\ StageOver(r) /\ ("cycle" \in over \/ ~CycleInputUnproven(r.state))

TimedOut(r) == "cycle" \in over \/ (StageOver(r) /\ ~CycleInputUnproven(r.state))

\* The deadlines of stepCycle.  A ready session that is not idle is asked again;
\* a compaction that got no input is cancelled.
CtlTimeout(r) ==
    /\ TimedOut(r)
    /\ LET ends == EndCycle(r, IF r.state = "compact_waiting" /\ "cycle" \notin over
                               THEN "cancelled" ELSE "failed",
                            IF r.state = "waiting_ready" /\ "cycle" \notin over
                            THEN "waiting_ready_timeout" ELSE "timeout")
       IN \/ ends
          \/ /\ r.state = "ready" /\ CanRepeat(r)
             /\ IF HasRoom(cy) THEN Repeat ELSE EndCycle(r, "failed", "event_limit")
    /\ ctl' = NoCycle
    /\ UNCHANGED <<cycleWorld, cycleBounds, mu, inp, reader, work, typing>>

CtlDisabled(r) ==
    /\ ~TimedOut(r) /\ ~CycleEnabled(r)
    /\ EndCycle(r, "cancelled", "enable_changed")
    /\ ctl' = NoCycle
    /\ UNCHANGED <<cycleWorld, cycleBounds, mu, inp, reader, work, typing>>

Async == kind \in {"session", "hostless"}

\* pickupReceipt applies what the worker read, or starts one that only reads.
CtlReceipt(r) ==
    /\ ~TimedOut(r) /\ CycleEnabled(r)
    /\ Async /\ r.state = "pickup_intent"
    /\ CASE work.out = "received" -> AdvanceCycle(r, r, "waiting_pickup") /\ UNCHANGED work
         [] work.out = "missing" -> EndCycle(r, "uncertain", "pickup_unreceipted") /\ UNCHANGED work
         [] OTHER -> /\ work' = IF work.run = "none" THEN [work EXCEPT !.run = "receipt", !.row = r] ELSE work
                     /\ UNCHANGED cycleStore
    /\ ctl' = NoCycle
    /\ UNCHANGED <<cycleWorld, cycleBounds, mu, inp, reader, typing>>

\* startPickup: the intent, then a worker that sends; none free, nothing.
StartPickup(r) ==
    \/ UNCHANGED <<cycleStore, work>>
    \/ /\ AdvanceCycle(r, r, "pickup_intent")
       /\ work' = IF Advances(r) THEN [run |-> "send", out |-> "none", row |-> cy'] ELSE work

HostlessStages == {"ready", "reset_verified", "clear_intent", "clear_received", "waiting_pickup"}

\* stepHostless without a result of the row's revision and stage: the select is
\* recorded once, and a worker reads or creates.
CtlHostlessWork(r) ==
    /\ ~TimedOut(r) /\ CycleEnabled(r)
    /\ kind = "hostless" /\ r.state \in HostlessStages
    /\ \/ work.run # "none" \/ work.out = "none" \/ work.row # r
       \/ r.state = "waiting_pickup"
       \/ r.state = "clear_received" /\ ~r.selected
    /\ IF r.state = "clear_received" /\ ~r.selected
       THEN AdvanceCycle(r, [r EXCEPT !.selected = TRUE], "clear_received") /\ UNCHANGED work
       ELSE /\ work' = IF r.state = "waiting_pickup" \/ work.run # "none" THEN work
                       ELSE [run |-> IF r.state = "clear_intent" THEN "create" ELSE "read",
                             out |-> "none", row |-> r]
            /\ UNCHANGED cycleStore
    /\ ctl' = NoCycle
    /\ UNCHANGED <<cycleWorld, cycleBounds, mu, inp, reader, typing>>

\* Not idle after the ready report: a turn asks for a new handoff, the rest waits.
NotIdle(r) ==
    \/ UNCHANGED cycleStore
    \/ /\ r.state = "ready" /\ CanRepeat(r)
       /\ IF HasRoom(cy) THEN Repeat ELSE EndCycle(r, "failed", "event_limit")

\* verifyArtifact: a handoff that changed is asked for again before the clear
\* and fails the cycle after it.
ArtifactChanged(r) ==
    IF r.state = "ready" THEN AdvanceCycle(r, r, "waiting_ready")
    ELSE EndCycle(r, "failed", "artifact_changed")

\* stepHostless with the result that the worker published.
CtlHostlessApply(r) ==
    /\ ~TimedOut(r) /\ CycleEnabled(r)
    /\ kind = "hostless" /\ r.state \in HostlessStages \ {"waiting_pickup"}
    /\ r.state = "clear_received" => r.selected
    /\ work.run = "none" /\ work.out # "none" /\ work.row = r
    /\ CASE r.state = "clear_intent" ->
              /\ CASE work.out = "created" -> AdvanceCycle(r, [r EXCEPT !.succ = created], "clear_received")
                   [] work.out = "unsent" -> AdvanceCycle(r, r, "ready")
                   [] work.out = "conflict" -> EndCycle(r, "failed", "session_conflict")
                   [] OTHER -> IF StageOver(r) THEN EndCycle(r, "uncertain", "reset_unproven")
                               ELSE UNCHANGED cycleStore
              /\ work' = NoWork
         [] r.state = "clear_received" ->
              /\ IF work.out = "idle" THEN AdvanceCycle(r, r, "reset_verified")
                 ELSE IF StageOver(r) THEN EndCycle(r, "uncertain", "reset_unproven")
                 ELSE UNCHANGED cycleStore
              /\ work' = NoWork
         [] OTHER ->
              \/ work.out # "idle" /\ NotIdle(r) /\ work' = NoWork
              \/ work.out = "idle" /\ ArtifactChanged(r) /\ work' = NoWork
              \/ work.out = "idle" /\ EndCycle(r, "failed", "probe") /\ work' = NoWork
              \/ /\ work.out = "idle" /\ r.state = "ready"
                 /\ AdvanceCycle(r, r, "clear_intent") /\ work' = NoWork
              \/ work.out = "idle" /\ r.state = "reset_verified" /\ StartPickup(r)
    /\ ctl' = NoCycle
    /\ UNCHANGED <<cycleWorld, cycleBounds, mu, inp, reader, typing>>

\* Any other stage goes on under wake.mu.
CtlLock(r) ==
    /\ ~TimedOut(r) /\ CycleEnabled(r)
    /\ ~(Async /\ r.state = "pickup_intent")
    /\ ~(kind = "hostless" /\ r.state \in HostlessStages)
    /\ mu = "free"
    /\ mu' = "ctl" /\ ctl' = NoCycle
    /\ inp' = [NoInput EXCEPT !.ph = "act", !.row = r]
    /\ UNCHANGED <<cycleStore, cycleWorld, cycleBounds, reader, work, typing>>

-----------------------------------------------------------------------------
(* The controller under the lock: one look at the pane, one effect *)

Release == mu' = "free" /\ inp' = NoInput

\* The intent is recorded and its input follows on the new row.
Enter(r, to, what) ==
    /\ AdvanceCycle(r, r, to)
    /\ IF Advances(r)
       THEN inp' = [ph |-> "input", what |-> what, res |-> "", row |-> cy'] /\ UNCHANGED mu
       ELSE Release

\* ready and reset_verified: Inspect, the handoff and the probe, then the clear,
\* the create or the pickup.
ActOnPane(r) ==
    \/ NotIdle(r) /\ Release /\ UNCHANGED work
    \/ /\ AdvanceCycle(r, [r EXCEPT !.from = r.state], "waiting_prompt")
       /\ Release /\ UNCHANGED work
    \/ EndCycle(r, "failed", "prompt_unrecognized") /\ Release /\ UNCHANGED work
    \/ ArtifactChanged(r) /\ Release /\ UNCHANGED work
    \/ /\ r.state = "ready"
       /\ Enter(r, "clear_intent", IF kind = "session" THEN "create" ELSE "clear")
       /\ UNCHANGED work
    \/ /\ r.state = "reset_verified" /\ kind = "pane" /\ shown # r.succ
       /\ EndCycle(r, "failed", "epoch_changed") /\ Release /\ UNCHANGED work
    \/ /\ r.state = "reset_verified" /\ kind = "pane" /\ shown = r.succ
       /\ Enter(r, "pickup_intent", "pickup") /\ UNCHANGED work
    \/ r.state = "reset_verified" /\ kind = "session" /\ StartPickup(r) /\ Release

SelectSent(r) == kind # "session" \/ r.selected

\* NewEpoch: nothing can be read, or what the pane or the server shows.
ReadEpochs(r) ==
    {0} \cup (IF kind = "session"
              THEN IF r.state = "clear_intent" THEN {} ELSE {r.succ}
              ELSE {shown})

\* clear_intent and clear_received: the select once, then the proof of the reset.
ActOnReset(r) ==
    IF r.state = "clear_received" /\ ~SelectSent(r)
    THEN /\ AdvanceCycle(r, [r EXCEPT !.selected = TRUE], "clear_received")
         /\ IF Advances(r)
            THEN inp' = [ph |-> "input", what |-> "select", res |-> "", row |-> cy'] /\ UNCHANGED mu
            ELSE Release
    ELSE /\ \E e \in ReadEpochs(r) :
              IF e # 0 /\ e # r.epoch
              THEN AdvanceCycle(r, [r EXCEPT !.succ = e], "reset_verified")
              ELSE IF r.state = "clear_intent" \/ StageOver(r)
              THEN EndCycle(r, "uncertain", "reset_unproven")
              ELSE UNCHANGED cycleStore
         /\ Release

\* waiting_pickup: the display once, then a dialog.
ActOnPickup(r) ==
    /\ \/ UNCHANGED cycleStore
       \/ /\ kind = "session" /\ ~r.displayed /\ shown = r.succ
          /\ AdvanceCycle(r, [r EXCEPT !.displayed = TRUE], "waiting_pickup")
       \/ AdvanceCycle(r, [r EXCEPT !.from = r.state], "waiting_prompt")
    /\ Release

\* waiting_prompt: a dialog that is gone returns the cycle to its stage, except
\* in the successor's pickup, whose report is accepted during the wait.
ActOnPrompt(r) ==
    /\ \/ UNCHANGED cycleStore
       \/ r.from # "waiting_pickup" /\ AdvanceCycle(r, [r EXCEPT !.from = ""], r.from)
    /\ Release

\* stepCompaction.
ActOnCompaction(r) ==
    \/ UNCHANGED cycleStore /\ Release
    \/ EndCycle(r, "cancelled", "reading_stale") /\ Release
    \/ EndCycle(r, "failed", "probe") /\ Release
    \/ Enter(r, "compact_intent", "compact")

\* Mutant of ActOnIntent: a compaction without its receipt is entered again.
ActOnIntentAgain(r) ==
    IF r.state = "compact_intent" THEN Enter(r, "compact_intent", "compact")
    ELSE EndCycle(r, "uncertain", "unreceipted") /\ Release

\* An intent without its receipt is never entered again.
ActOnIntent(r) == EndCycle(r, "uncertain", "unreceipted") /\ Release

CtlAct ==
    /\ mu = "ctl" /\ inp.ph = "act"
    /\ LET r == inp.row IN
       \/ r.state \in {"ready", "reset_verified"} /\ ActOnPane(r)
       \/ r.state \in {"clear_intent", "clear_received"} /\ ActOnReset(r) /\ UNCHANGED work
       \/ r.state = "waiting_pickup" /\ ActOnPickup(r) /\ UNCHANGED work
       \/ r.state = "waiting_prompt" /\ ActOnPrompt(r) /\ UNCHANGED work
       \/ r.state = "compact_waiting" /\ ActOnCompaction(r) /\ UNCHANGED work
       \/ /\ r.state \in {"pickup_intent", "prompt_intent", "compact_intent"}
          /\ ActOnIntent(r) /\ UNCHANGED work
       \/ r.state \in {"waiting_ready", "compact_sent"} /\ UNCHANGED <<cycleStore, work>> /\ Release
    /\ UNCHANGED <<cycleWorld, cycleBounds, ctl, reader, typing>>

-----------------------------------------------------------------------------
(* The maintainer's answer to a dialog *)

\* AnswerCycleDialog reads the row before it waits for the lock.
AnswerRead ==
    /\ reader.who = "none" /\ mu # "ans" /\ cy.state = "waiting_prompt"
    /\ reader' = [who |-> "ans", row |-> cy]
    /\ UNCHANGED <<cycleStore, cycleWorld, cycleBounds, ctl, mu, inp, work, typing>>

\* The pane shows another dialog, or the intent is recorded.
AnswerLock ==
    /\ reader.who = "ans" /\ mu = "free"
    /\ \/ UNCHANGED <<cycleStore, mu, inp>>
       \/ /\ AdvanceCycle(reader.row, reader.row, "prompt_intent")
          /\ IF Advances(reader.row)
             THEN /\ mu' = "ans"
                  /\ inp' = [ph |-> "input", what |-> "answer", res |-> "", row |-> cy']
             ELSE UNCHANGED <<mu, inp>>
    /\ reader' = NoReader
    /\ UNCHANGED <<cycleWorld, cycleBounds, ctl, work, typing>>

-----------------------------------------------------------------------------
(* An input under the lock: the fence, the effect, its record *)

\* The adapter's checks end with the fence; one that fails before the effect may
\* be known to have made none.
InputFence ==
    /\ inp.ph = "input"
    /\ \/ CycleFence(inp.row) /\ inp' = [inp EXCEPT !.ph = "key"]
       \/ /\ inp.what \in {"clear", "create", "select", "compact", "answer"}
          /\ inp' = [inp EXCEPT !.ph = "record", !.res = "unsent"]
       \/ inp.what # "compact" /\ inp' = [inp EXCEPT !.ph = "record", !.res = "error"]
    /\ UNCHANGED <<cycleStore, cycleWorld, cycleBounds, ctl, mu, reader, work, typing>>

\* The history of an input, if it is of the newest cycle.
Make(what, row) ==
    IF row.id = cy.id
    THEN /\ made' = [made EXCEPT ![what] = IF @ < 2 THEN @ + 1 ELSE @]
         /\ pending' = pending \cup {what}
    ELSE UNCHANGED <<made, pending>>

\* The effect, and whether the adapter sees it done.  A session that an earlier
\* create of the cycle made is used again.
InputKey ==
    /\ inp.ph = "key"
    /\ IF inp.what = "create" /\ inp.row.succ # 0
       THEN UNCHANGED <<made, pending, created, newest, shown>>
       ELSE /\ Make(inp.what, inp.row)
            /\ newest' = IF inp.what \in {"clear", "create"} THEN newest + 1 ELSE newest
            /\ created' = IF inp.what = "create" THEN newest + 1 ELSE created
            /\ shown' = CASE inp.what = "clear" -> newest + 1
                          [] inp.what = "select" -> inp.row.succ
                          [] OTHER -> shown
    /\ \E res \in {"ok", "error"} : inp' = [inp EXCEPT !.ph = "record", !.res = res]
    /\ UNCHANGED <<cy, over, enable, carried, latched, cycleBounds, ctl, mu, reader, work, typing>>

\* enterInput, createSuccessor, selectSuccessor, stepCompaction and
\* AnswerCycleDialog after their input.
InputRecord ==
    /\ inp.ph = "record"
    /\ LET r == inp.row
           back == CASE inp.what = "compact" -> "compact_waiting"
                     [] inp.what = "answer" -> "waiting_prompt"
                     [] OTHER -> "ready"
           received == CASE inp.what \in {"clear", "create"} -> "clear_received"
                         [] inp.what = "pickup" -> "waiting_pickup"
                         [] inp.what = "compact" -> "compact_sent"
                         [] OTHER -> IF r.from = "waiting_pickup" THEN "waiting_prompt" ELSE r.from
           row == CASE inp.what = "create" ->
                           [r EXCEPT !.succ = IF r.succ # 0 THEN r.succ ELSE created, !.selected = FALSE]
                    [] inp.what = "answer" /\ r.from # "waiting_pickup" -> [r EXCEPT !.from = ""]
                    [] OTHER -> r
       IN IF inp.res = "unsent"
          THEN AdvanceCycle(r, IF inp.what = "select" THEN [r EXCEPT !.selected = FALSE] ELSE r, back)
          ELSE IF inp.res = "error" THEN EndCycle(r, "uncertain", "unreceived")
          ELSE IF inp.what = "select" THEN UNCHANGED cycleStore
          ELSE AdvanceCycle(r, row, received)
    /\ Release
    /\ UNCHANGED <<cycleWorld, cycleBounds, ctl, reader, work, typing>>

-----------------------------------------------------------------------------
(* Workers *)

\* hostlessWork: a read, or the create of the chosen session: one that exists is
\* the created one, a busy requester or an unreadable harness waits.
WorkerRead ==
    /\ work.run = "read"
    /\ \E out \in {"idle", "busy"} : work' = [work EXCEPT !.run = "none", !.out = out]
    /\ UNCHANGED <<cycleStore, cycleWorld, cycleBounds, ctl, mu, inp, reader, typing>>

WorkerCreate ==
    /\ work.run = "create"
    /\ \/ work' = [work EXCEPT !.run = "none", !.out = "busy"]
       \/ /\ created = 0
          /\ \E out \in {"unsent", "conflict"} : work' = [work EXCEPT !.run = "none", !.out = out]
       \/ created # 0 /\ work' = [work EXCEPT !.run = "none", !.out = "created"]
       \/ created = 0 /\ CycleFence(work.row) /\ work' = [work EXCEPT !.run = "creating"]
    /\ UNCHANGED <<cycleStore, cycleWorld, cycleBounds, ctl, mu, inp, reader, typing>>

WorkerCreating ==
    /\ work.run = "creating"
    /\ Make("create", work.row)
    /\ IF work.row.id = cy.id
       THEN newest' = newest + 1 /\ created' = newest + 1 ELSE UNCHANGED <<newest, created>>
    /\ \E out \in {"created", "busy"} : work' = [work EXCEPT !.run = "none", !.out = out]
    /\ UNCHANGED <<cy, over, enable, carried, latched, shown, cycleBounds, ctl, mu, inp, reader, typing>>

\* SendPickup: its checks and fence, then the request.
WorkerSend ==
    /\ \/ work.run = "send" /\ CycleFence(work.row) /\ work' = [work EXCEPT !.run = "post"]
       \/ work.run = "send" /\ work' = [work EXCEPT !.run = "receipt"]
    /\ UNCHANGED <<cycleStore, cycleWorld, cycleBounds, ctl, mu, inp, reader, typing>>

WorkerPost ==
    /\ work.run = "post"
    /\ Make("pickup", work.row)
    /\ work' = [work EXCEPT !.run = IF work.out = "none" THEN "receipt" ELSE "none"]
    /\ UNCHANGED <<cy, over, enable, carried, latched, shown, newest, created, cycleBounds, ctl, mu, inp, reader, typing>>

\* awaitReceipt: the receipt of a pickup that was made; without it, or after the
\* bound of its reads even while the request runs, none.
WorkerReceipt ==
    /\ work.out = "none"
    /\ \/ /\ work.run = "receipt" /\ made["pickup"] > 0
          /\ work' = [work EXCEPT !.run = "none", !.out = "received"]
       \/ /\ work.run \in {"receipt", "post"}
          /\ work' = [work EXCEPT !.run = IF @ = "post" THEN "post" ELSE "none", !.out = "missing"]
    /\ UNCHANGED <<cycleStore, cycleWorld, cycleBounds, ctl, mu, inp, reader, typing>>

-----------------------------------------------------------------------------
(* Wakes, the clock, the user, a stop *)

\* submitWake under wake.mu: a pane that a cycle holds waits (paneHeldByCycle).
WakeStart ==
    /\ Goes /\ mu = "free" /\ ~CycleHoldsPane(cy.state)
    /\ mu' = "wake" /\ typing' = TRUE
    /\ UNCHANGED <<cycleStore, cycleWorld, cycleBounds, ctl, inp, reader, work>>

WakeEnd ==
    /\ mu = "wake"
    /\ mu' = "free" /\ typing' = FALSE
    /\ UNCHANGED <<cycleStore, cycleWorld, cycleBounds, ctl, inp, reader, work>>

\* A deadline passes.
CycleElapse(d) ==
    /\ Unfinished /\ d \notin over
    /\ d = "prompt" => cy.state \in {"waiting_prompt", "prompt_intent"} /\ cy.from = "waiting_pickup"
    /\ d = "ask" => cy.state \in {"waiting_ready", "ready", "compact_waiting"}
    /\ d = "stage" => cy.state \notin {"waiting_ready", "compact_waiting"}
    /\ over' = over \cup {d}
    /\ UNCHANGED <<cy, enable, carried, latched, pending, cycleWorld, cycleBounds, ctl, mu, inp, reader, work, typing>>

\* The user clears the pane or opens another session in it.
Stray ==
    /\ Goes /\ kind # "hostless" /\ strays < MaxStrays[kind]
    /\ newest' = newest + 1 /\ shown' = newest + 1
    /\ strays' = strays + 1
    /\ UNCHANGED <<cycleStore, created, made, kind, stops, ctl, mu, inp, reader, work, typing>>

\* The daemon stops and starts: its rows, lock, workers and latches are gone.
CycleStop ==
    /\ Goes /\ stops < MaxStops
    /\ stops' = stops + 1
    /\ ctl' = NoCycle /\ reader' = NoReader
    /\ mu' = "free" /\ inp' = NoInput /\ work' = NoWork /\ typing' = FALSE
    /\ latched' = 0
    /\ UNCHANGED <<cy, over, enable, carried, pending, cycleWorld, kind, strays>>

-----------------------------------------------------------------------------
CycleInit ==
    /\ kind \in CycleKind
    /\ cy = NoCycle /\ over = {} /\ latched = 0 /\ carried = FALSE /\ pending = {}
    /\ enable = [on |-> TRUE, rev |-> 1, kept |-> 0, read |-> FALSE]
    /\ ctl = NoCycle /\ reader = NoReader
    /\ mu = "free" /\ inp = NoInput /\ work = NoWork /\ typing = FALSE
    /\ shown = 1 /\ newest = 1 /\ created = 0
    /\ made = [i \in {"clear", "create", "select", "pickup", "compact", "answer"} |-> 0]
    /\ stops = 0 /\ strays = 0

CtlStep ==
    /\ ctl.id > 0
    /\ \/ CtlTimeout(ctl) \/ CtlDisabled(ctl) \/ CtlReceipt(ctl)
       \/ CtlHostlessWork(ctl) \/ CtlHostlessApply(ctl) \/ CtlLock(ctl)

Input == InputFence \/ InputKey \/ InputRecord
Worker == WorkerRead \/ WorkerCreate \/ WorkerCreating \/ WorkerSend \/ WorkerPost \/ WorkerReceipt

CycleNext ==
    \/ Admit \/ ObserveRead \/ ObserveEnd \/ ContextCycleReady \/ NoteInboxRead
    \/ FenceCycles \/ ReadingBelow \/ \E on \in BOOLEAN : SetContextEnable(on)
    \/ PickupRead \/ PickupRefused \/ \E retained \in BOOLEAN : PickupWrite(retained)
    \/ CtlRead \/ CtlStep \/ CtlAct \/ AnswerRead \/ AnswerLock \/ Input \/ Worker
    \/ WakeStart \/ WakeEnd \/ Stray \/ CycleStop
    \/ \E d \in {"stage", "ask", "prompt", "cycle"} : CycleElapse(d)

\* The controller ticks every second, a request and a command end, the lock is
\* given in turn, and the lifetime of a cycle passes.
CycleFairness ==
    /\ WF_cycleVars(CtlRead) /\ SF_cycleVars(CtlStep) /\ WF_cycleVars(CtlAct)
    /\ WF_cycleVars(Input) /\ WF_cycleVars(Worker) /\ WF_cycleVars(WakeEnd)
    /\ WF_cycleVars(CycleElapse("cycle"))

CycleSpec == CycleInit /\ [][CycleNext]_cycleVars /\ CycleFairness

-----------------------------------------------------------------------------
(* Properties *)

\* No input of a cycle is made twice, through lost receipts, refused inputs,
\* returns to an earlier stage and stops of the daemon (enterInput,
\* createSuccessor, selectSuccessor, startPickup, stepCompaction).
InputMadeOnce == \A i \in DOMAIN made \ {"answer"} : made[i] <= 1

\* A cycle that ends failed or cancelled left no input behind whose effect is
\* not recorded; with one it ends uncertain (endCycleTx, cycleUnproven).
EndsHonestly == cy.state \in {"failed", "cancelled"} => pending = {}

\* No wake notice is entered from the ready report, or the intent of a compaction,
\* to the end of the cycle (wake.mu, cycleHoldsPane, ContextCycleReady).
PaneQuiet == typing => ~Unfinished \/ cy.state \in {"waiting_ready", "compact_waiting"}

\* An unfinished cycle can always record its outcome: its pages and its last
\* event are kept for it (cycleEvent, advanceCycle).
OutcomeFunded ==
    Unfinished => cy.credit >= TerminalPages /\ cy.events < MaxCycleEvents[kind]

\* After a failed handoff that kept the Enable, which only a ready timeout does, the
\* same epoch under the same Enable gets another cycle only once the session read its
\* inbox, although the latch of the crossing is lost with the daemon
\* (context_cycle_retry.go).  A compaction asks for no handoff and may be tried again.
RetryAfterRead ==
    [][(cy'.id # cy.id /\ kind # "compact" /\ cy.state = "failed"
            /\ cy'.epoch = cy.epoch /\ cy'.enRev = cy.enRev)
          => enable.read]_cycleVars

\* Every admitted cycle ends (stepCycle's deadlines).
CycleEnds == Unfinished ~> ~Unfinished

\* How a cycle ends: its outcome can always be recorded, and says what its inputs did
\* (cycleEvent, endCycleTx).
OutcomesSound == EndsHonestly /\ OutcomeFunded
=============================================================================
