---------------------------- MODULE CycleProofs ----------------------------
(***************************************************************************)
(* Proofs about context cycles (Cycle): a wake notice and a cycle never    *)
(* use the pane together, a kept ready timeout is tried again only after a *)
(* read of the inbox, no input of a cycle is made twice, and a cycle can   *)
(* always record its outcome, which says what its inputs did.              *)
(*                                                                         *)
(* Every actor works on a row that it read earlier.  The first invariant,  *)
(* CycleRowsInv, says of each such row that it is older than the stored    *)
(* one or equal to it, so what passes the fence is the stored row itself.  *)
(* The second, CycleInputsInv, says for each stage which inputs are made,  *)
(* which are not made yet and which have an effect without a record, and   *)
(* that an input under way belongs to the stored row, or to a cycle that   *)
(* ended without a claim about it.                                         *)
(***************************************************************************)
EXTENDS Cycle, TLAPS

-----------------------------------------------------------------------------
(* The inductive invariant *)

RowForm(r) ==
    r = [id |-> r.id, state |-> r.state, rev |-> r.rev, events |-> r.events, credit |-> r.credit,
         from |-> r.from, enRev |-> r.enRev, epoch |-> r.epoch, succ |-> r.succ,
         displayed |-> r.displayed, selected |-> r.selected, entered |-> r.entered]
EnableForm(e) == e = [on |-> e.on, rev |-> e.rev, kept |-> e.kept, read |-> e.read]
InputForm(i) == i = [ph |-> i.ph, what |-> i.what, res |-> i.res, row |-> i.row]
WorkForm(w) == w = [run |-> w.run, out |-> w.out, row |-> w.row]

CycleShapes ==
    /\ kind \in CycleKind
    /\ RowForm(cy) /\ cy.id \in Nat /\ cy.rev \in Nat /\ cy.events \in Nat /\ cy.credit \in Nat
    /\ cy.id = 0 => cy = NoCycle
    /\ EnableForm(enable) /\ enable.rev \in Nat
    /\ InputForm(inp) /\ WorkForm(work)

\* A row read earlier is the row c, an earlier revision of it, or of an earlier cycle.
RowBefore(x, c) ==
    /\ x.id \in Nat /\ x.rev \in Nat
    /\ x.id <= c.id
    /\ x.id = c.id => x.rev <= c.rev
    /\ x.id = c.id /\ x.rev = c.rev => x = c

RowsAreEarlier ==
    RowBefore(ctl, cy) /\ RowBefore(inp.row, cy) /\ RowBefore(reader.row, cy) /\ RowBefore(work.row, cy)

Outcomes == {"complete", "cancelled", "failed", "uncertain"}
LiveStages ==
    {"waiting_ready", "ready", "clear_intent", "clear_received", "reset_verified", "pickup_intent",
     "waiting_pickup", "waiting_prompt", "prompt_intent", "compact_waiting", "compact_intent", "compact_sent"}

StagesKnown == cy.id > 0 => cy.state \in LiveStages \cup Outcomes

\* The stages that a dialog interrupts, and the stage that the maintainer answers.
PromptsKnown ==
    cy.state \in {"waiting_prompt", "prompt_intent"} => cy.from \in {"ready", "reset_verified", "waiting_pickup"}

AnswersKnown == reader.who = "ans" => reader.row.state = "waiting_prompt"

\* An input under way is the one of its row's stage, and an input is made only under wake.mu.
StageOfInput(what) ==
    CASE what \in {"clear", "create"} -> "clear_intent"
      [] what = "select" -> "clear_received"
      [] what = "pickup" -> "pickup_intent"
      [] what = "compact" -> "compact_intent"
      [] OTHER -> "prompt_intent"
InputPhases == {"input", "key", "record"}
Inputs == {"clear", "create", "select", "pickup", "compact", "answer"}

InputsKnown ==
    inp.ph \in InputPhases => inp.what \in Inputs /\ inp.row.state = StageOfInput(inp.what)

LockHeld ==
    /\ typing => mu = "wake"
    /\ inp.ph # "none" => mu \in {"ctl", "ans"}

\* The Enable under which a cycle was admitted is turned off with a new revision, and a
\* failed cycle that leaves it on recorded its epoch.
EnablesKnown ==
    /\ cy.id > 0 => cy.enRev \in Nat /\ cy.enRev <= enable.rev
    /\ cy.id > 0 /\ cy.enRev = enable.rev => enable.on
    /\ kind # "compact" /\ cy.state = "failed" /\ cy.enRev = enable.rev => enable.kept = cy.epoch

CycleRowsInv ==
    /\ CycleShapes /\ RowsAreEarlier /\ StagesKnown /\ PromptsKnown /\ AnswersKnown /\ InputsKnown /\ LockHeld /\ EnablesKnown
    /\ OutcomeFunded /\ PaneQuiet

-----------------------------------------------------------------------------
(* What a step does to the stored row *)

\* The row ends: endCycleTx.
Ended ==
    /\ Unfinished /\ RowForm(cy') /\ cy'.id = cy.id /\ cy'.rev = cy.rev + 1
    /\ cy'.events \in Nat /\ cy'.credit = 0 /\ cy'.enRev = cy.enRev /\ cy'.epoch = cy.epoch
    /\ cy'.state \in Outcomes
    /\ cy'.state # "complete" /\ CycleUnproven(cy) => cy'.state = "uncertain"
    /\ EnableForm(enable') /\ enable'.rev \in Nat /\ enable.rev <= enable'.rev
    /\ enable'.rev = enable.rev => enable'.on = enable.on
    /\ kind # "compact" /\ cy'.state = "failed" /\ enable.on /\ enable'.rev = enable.rev => enable'.kept = cy.epoch
    /\ pending' = pending

\* The row goes on to the stage to, with the fields that c changes.
Advanced(c, to) ==
    /\ Unfinished /\ HasRoom(cy) /\ CycleEnabled(cy)
    /\ RowForm(cy') /\ cy'.id = cy.id /\ cy'.rev = cy.rev + 1 /\ cy'.state = to
    /\ cy'.events = cy.events + 1 /\ cy'.credit = cy.credit - StagePages
    /\ cy'.enRev = cy.enRev /\ cy'.epoch = cy.epoch
    /\ cy'.from = c.from /\ cy'.succ = c.succ /\ cy'.displayed = c.displayed /\ cy'.selected = c.selected
    /\ enable' = enable
    /\ pending' = pending \ ProvenInput(cy.state, to)

\* The row is as it was.
Kept == cy' = cy /\ enable' = enable /\ pending' = pending

\* A row that differs from the stored one only in what a stage records.
SameBut(c) ==
    /\ RowForm(c) /\ c.id = cy.id /\ c.rev = cy.rev /\ c.events = cy.events /\ c.credit = cy.credit
    /\ c.enRev = cy.enRev /\ c.epoch = cy.epoch

\* What endCycleTx leaves of the Enable.
LEMMA EnableLeft ==
    ASSUME CycleShapes, NEW e,
           \/ e = enable \/ e = TurnedOff \/ e = KeepEnable
    PROVE  /\ EnableForm(e) /\ e.rev \in Nat /\ enable.rev <= e.rev
           /\ e.rev = enable.rev => e.on = enable.on
           /\ e = KeepEnable => e.kept = cy.epoch
           /\ e = TurnedOff => e.rev # enable.rev
<1>1. EnableForm(enable) /\ enable.rev \in Nat
  BY DEF CycleShapes
<1>2. CASE e = enable
  <2>1. e = KeepEnable => e.kept = cy.epoch
    BY <1>1, <1>2 DEF KeepEnable, EnableForm
  <2>2. e = TurnedOff => e.rev # enable.rev
    BY <1>1, <1>2 DEF TurnedOff
  <2> QED
    BY <1>1, <1>2, <2>1, <2>2
<1>3. CASE e = TurnedOff
  <2>1. PICK n : n = enable.rev + 1
    OBVIOUS
  <2>2. e = [on |-> FALSE, rev |-> n, kept |-> 0, read |-> FALSE] /\ n \in Nat /\ n # enable.rev /\ enable.rev <= n
    BY <1>1, <1>3, <2>1 DEF TurnedOff
  <2>3. EnableForm(e) /\ e.rev = n
    BY <2>2 DEF EnableForm
  <2>4. e # KeepEnable
    <3>1. KeepEnable.rev = enable.rev
      BY <1>1 DEF KeepEnable, EnableForm
    <3> QED
      BY <2>2, <2>3, <3>1
  <2> QED
    BY <2>2, <2>3, <2>4
<1>4. CASE e = KeepEnable
  <2>1. EnableForm(e) /\ e.rev = enable.rev /\ e.on = enable.on /\ e.kept = cy.epoch
    BY <1>1, <1>4 DEF KeepEnable, EnableForm
  <2>2. e # TurnedOff
    BY <1>1, <2>1 DEF TurnedOff
  <2> QED
    BY <1>1, <2>1, <2>2
<1> QED
  BY <1>2, <1>3, <1>4

LEMMA EndCycleTxMoves ==
    ASSUME CycleShapes, Unfinished, NEW outcome \in Outcomes, NEW reason, NEW left,
           left = enable \/ left = TurnedOff,
           EndCycleTx(cy, outcome, reason, left)
    PROVE  Ended
<1> DEFINE out == IF outcome # "complete" /\ CycleUnproven(cy) THEN "uncertain" ELSE outcome
           keepTimeout == ReadyTimeoutKeeps(out, reason)
           keep == CompactionKeeps(reason) /\ out # "complete"
<1>1. PICK v, k : v = cy.rev + 1 /\ k = cy.events + (IF keepTimeout THEN 2 ELSE 1)
  OBVIOUS
<1>2. cy' = [cy EXCEPT !.state = out, !.rev = v, !.credit = 0, !.events = k]
  BY <1>1 DEF EndCycleTx
<1>3. /\ enable' = IF out = "complete" THEN left
                    ELSE IF keep /\ reason # "disabled" THEN enable
                    ELSE IF keepTimeout THEN KeepEnable
                    ELSE IF enable.on THEN TurnedOff ELSE enable
      /\ pending' = pending
  BY DEF EndCycleTx
<1>4. out \in Outcomes /\ (out # "complete" /\ CycleUnproven(cy) => out = "uncertain")
  BY DEF Outcomes
<1>5. keep => kind = "compact"
  BY DEF CompactionKeeps
<1> HIDE DEF out, keepTimeout, keep
<1>6. RowForm(cy) /\ cy.rev \in Nat /\ cy.events \in Nat
  BY DEF CycleShapes
<1>7. /\ RowForm(cy') /\ cy'.id = cy.id /\ cy'.state = out /\ cy'.rev = v /\ cy'.credit = 0 /\ cy'.events = k
      /\ cy'.enRev = cy.enRev /\ cy'.epoch = cy.epoch
  BY <1>2, <1>6 DEF RowForm
<1>8. k \in Nat
  BY <1>1, <1>6
<1>9. enable' = enable \/ enable' = TurnedOff \/ enable' = KeepEnable
  BY <1>3
<1>10. /\ EnableForm(enable') /\ enable'.rev \in Nat /\ enable.rev <= enable'.rev
       /\ enable'.rev = enable.rev => enable'.on = enable.on
  BY <1>9, EnableLeft
<1>11. kind # "compact" /\ out = "failed" /\ enable.on /\ enable'.rev = enable.rev => enable'.kept = cy.epoch
  <2> SUFFICES ASSUME kind # "compact", out = "failed", enable.on, enable'.rev = enable.rev
               PROVE  enable'.kept = cy.epoch
    OBVIOUS
  <2>1. enable' = IF keepTimeout THEN KeepEnable ELSE TurnedOff
    BY <1>3, <1>5
  <2>2. enable' # TurnedOff
    BY <1>9, EnableLeft
  <2>3. enable' = KeepEnable
    BY <2>1, <2>2
  <2> QED
    BY <2>3, EnableLeft
<1> QED
  BY <1>1, <1>3, <1>4, <1>7, <1>8, <1>10, <1>11 DEF Ended

\* endCycle ends the stored row, or none.
LEMMA EndCycleMoves ==
    ASSUME CycleShapes, NEW r, NEW outcome \in Outcomes, NEW reason, EndCycle(r, outcome, reason)
    PROVE  Kept \/ Ended
<1>1. CASE Unfinished /\ cy.id = r.id /\ cy.rev = r.rev
  BY <1>1, EndCycleTxMoves DEF EndCycle
<1>2. CASE ~(Unfinished /\ cy.id = r.id /\ cy.rev = r.rev)
  BY <1>2 DEF EndCycle, Kept
<1> QED
  BY <1>1, <1>2

\* What passes the fence is the stored row.
LEMMA FencedIsStored ==
    ASSUME CycleShapes, NEW r, RowBefore(r, cy), SameRow(r)
    PROVE  r = cy
BY DEF RowBefore, SameRow

LEMMA NoCycleIsEmpty == RowForm(NoCycle) /\ NoCycle.id = 0 /\ NoCycle.rev = 0 /\ NoCycle.state = "none"
BY DEF NoCycle, RowForm

LEMMA LiveIsUnfinished ==
    ASSUME CycleShapes, cy.state \in LiveStages
    PROVE  Unfinished
<1>1. cy # NoCycle
  BY NoCycleIsEmpty DEF LiveStages
<1> QED
  BY <1>1 DEF CycleShapes, Unfinished, CycleTerminal, LiveStages

\* advanceCycle moves the stored row, ends it when it has no room, or does nothing.
LEMMA AdvanceCycleMoves ==
    ASSUME CycleShapes, NEW r, RowBefore(r, cy), NEW c, r = cy => SameBut(c), NEW to,
           r.state \in LiveStages,
           AdvanceCycle(r, c, to)
    PROVE  \/ ~Advances(r) /\ (Kept \/ Ended)
           \/ Advances(r) /\ r = cy /\ Advanced(c, to)
<1>1. CASE ~CycleFence(r)
  BY <1>1 DEF AdvanceCycle, Kept, Advances
<1>2. CASE CycleFence(r) /\ ~HasRoom(cy)
  <2>1. r = cy /\ CycleEnabled(cy)
    BY <1>2, FencedIsStored DEF CycleFence
  <2>4. Unfinished
    BY <2>1, LiveIsUnfinished
  <2>2. EndCycleTx(cy, "failed", "event_limit", enable)
    BY <1>2 DEF AdvanceCycle
  <2>3. Ended
    BY <2>4, <2>2, EndCycleTxMoves DEF Outcomes
  <2> QED
    BY <1>2, <2>3 DEF Advances
<1>3. CASE CycleFence(r) /\ HasRoom(cy)
  <2>1. r = cy /\ CycleEnabled(cy)
    BY <1>3, FencedIsStored DEF CycleFence
  <2>2. SameBut(c) /\ Unfinished
    BY <2>1, LiveIsUnfinished
  <2>3. PICK v, k, p, b : v = c.rev + 1 /\ k = c.events + 1 /\ p = c.credit - StagePages /\ b = (c.entered \/ CycleIntent(to))
    OBVIOUS
  <2>4. /\ cy' = [c EXCEPT !.state = to, !.rev = v, !.events = k, !.credit = p, !.entered = b]
        /\ pending' = pending \ ProvenInput(r.state, to) /\ enable' = enable
    BY <1>3, <2>3 DEF AdvanceCycle
  <2>5. /\ RowForm(cy') /\ cy'.id = c.id /\ cy'.state = to /\ cy'.rev = v /\ cy'.credit = p /\ cy'.events = k
        /\ cy'.enRev = c.enRev /\ cy'.epoch = c.epoch /\ cy'.from = c.from /\ cy'.succ = c.succ
        /\ cy'.displayed = c.displayed /\ cy'.selected = c.selected
    BY <2>2, <2>4 DEF RowForm, SameBut
  <2>6. Advanced(c, to)
    BY <1>3, <2>1, <2>2, <2>3, <2>4, <2>5 DEF Advanced, SameBut
  <2> QED
    BY <1>3, <2>1, <2>6 DEF Advances
<1> QED
  BY <1>1, <1>2, <1>3

\* repeatCycleRequest moves the stored row.
LEMMA RepeatMoves ==
    ASSUME CycleShapes, Unfinished, HasRoom(cy), CycleEnabled(cy), cy.state = "ready", Repeat
    PROVE  Advanced(cy, "waiting_ready")
<1>1. PICK v, k, p : v = cy.rev + 1 /\ k = cy.events + 1 /\ p = cy.credit - StagePages
  OBVIOUS
<1>2. cy' = [cy EXCEPT !.state = "waiting_ready", !.rev = v, !.events = k, !.credit = p]
  BY <1>1 DEF Repeat
<1>3. RowForm(cy)
  BY DEF CycleShapes
<1>4. /\ RowForm(cy') /\ cy'.id = cy.id /\ cy'.state = "waiting_ready" /\ cy'.rev = v /\ cy'.credit = p /\ cy'.events = k
      /\ cy'.enRev = cy.enRev /\ cy'.epoch = cy.epoch /\ cy'.from = cy.from /\ cy'.succ = cy.succ
      /\ cy'.displayed = cy.displayed /\ cy'.selected = cy.selected
  BY <1>2, <1>3 DEF RowForm
<1>5. pending' = pending \ ProvenInput("ready", "waiting_ready")
  <2>1. ProvenInput("ready", "waiting_ready") = {}
    BY DEF ProvenInput
  <2> QED
    BY <2>1 DEF Repeat
<1> QED
  BY <1>1, <1>4, <1>5 DEF Advanced, Repeat

-----------------------------------------------------------------------------
(* A step that moves the stored row keeps what is known of it *)

AdvancedWell(c, to) ==
    /\ Advanced(c, to) /\ to \in LiveStages
    /\ to \in {"waiting_prompt", "prompt_intent"} => c.from \in {"ready", "reset_verified", "waiting_pickup"}
    /\ mu = "wake" => cy.state \notin {"waiting_ready", "compact_waiting"}

StoreStep == Kept \/ Ended \/ \E c, to : AdvancedWell(c, to)

\* The stored row after a step.
StoreKeeps ==
    /\ RowForm(cy') /\ cy'.id \in Nat /\ cy'.rev \in Nat /\ cy'.events \in Nat /\ cy'.credit \in Nat
    /\ cy'.id = 0 => cy' = NoCycle
    /\ EnableForm(enable') /\ enable'.rev \in Nat
    /\ \A x : RowBefore(x, cy) => RowBefore(x, cy')
    /\ StagesKnown' /\ PromptsKnown' /\ EnablesKnown' /\ OutcomeFunded'

\* What a reader holds after a step of its own.
ReaderGoesOn ==
    \/ reader' = NoReader
    \/ \E w \in {"obs", "rep", "ans"} :
           reader' = [who |-> w, row |-> cy] /\ (w = "ans" => cy.state = "waiting_prompt")

LEMMA ReaderRests ==
    ASSUME CycleRowsInv, reader' = reader \/ ReaderGoesOn
    PROVE  AnswersKnown' /\ (reader'.row = reader.row \/ reader'.row = cy \/ reader'.row = NoCycle)
BY DEF CycleRowsInv, AnswersKnown, ReaderGoesOn, NoReader

LEMMA EndedKeeps ==
    ASSUME CycleRowsInv, kind' = kind, Ended
    PROVE  StoreKeeps
<1>1. /\ Unfinished /\ cy.id \in Nat /\ cy.rev \in Nat /\ cy.id > 0 /\ enable.rev \in Nat
  BY DEF CycleRowsInv, CycleShapes, Unfinished, Ended
<1>2. \A x : RowBefore(x, cy) => RowBefore(x, cy')
  BY <1>1 DEF Ended, RowBefore
<1>3. StagesKnown' /\ PromptsKnown' /\ OutcomeFunded'
  BY DEF Ended, StagesKnown, PromptsKnown, Outcomes, OutcomeFunded, Unfinished, CycleTerminal
<1>4. cy.enRev \in Nat /\ cy.enRev <= enable.rev /\ (cy.enRev = enable.rev => enable.on)
  BY <1>1 DEF CycleRowsInv, EnablesKnown
<1>5. EnablesKnown'
  <2>1. cy'.enRev \in Nat /\ cy'.enRev <= enable'.rev
    BY <1>1, <1>4 DEF Ended
  <2>2. cy'.enRev = enable'.rev => enable'.rev = enable.rev /\ cy.enRev = enable.rev
    BY <1>1, <1>4 DEF Ended
  <2>3. cy'.enRev = enable'.rev => enable'.on
    BY <1>4, <2>2 DEF Ended
  <2>4. kind # "compact" /\ cy'.state = "failed" /\ cy'.enRev = enable'.rev => enable'.kept = cy'.epoch
    BY <1>4, <2>2 DEF Ended
  <2> QED
    BY <2>1, <2>3, <2>4 DEF EnablesKnown
<1> QED
  BY <1>1, <1>2, <1>3, <1>5 DEF StoreKeeps, Ended

LEMMA PagesLeft ==
    ASSUME CycleAssumption, CycleShapes, HasRoom(cy)
    PROVE  /\ cy.credit - StagePages \in Nat /\ cy.credit - StagePages >= TerminalPages
           /\ cy.events + 1 < MaxCycleEvents[kind]
BY DEF CycleAssumption, CycleShapes, HasRoom, StagePages, TerminalPages

LEMMA AdvancedKeeps ==
    ASSUME CycleRowsInv, kind' = kind, NEW c, NEW to, AdvancedWell(c, to)
    PROVE  StoreKeeps
<1>1. /\ Advanced(c, to) /\ Unfinished /\ cy.id \in Nat /\ cy.rev \in Nat /\ cy.id > 0 /\ cy.events \in Nat /\ cy.credit \in Nat
      /\ CycleShapes /\ EnableForm(enable) /\ enable.rev \in Nat
  BY DEF CycleRowsInv, CycleShapes, Unfinished, Advanced, AdvancedWell
<1>2. \A x : RowBefore(x, cy) => RowBefore(x, cy')
  BY <1>1 DEF Advanced, RowBefore
<1>3. StagesKnown' /\ PromptsKnown'
  BY DEF Advanced, AdvancedWell, PromptsKnown, StagesKnown
<1>4. cy'.credit \in Nat /\ cy'.credit >= TerminalPages /\ cy'.events < MaxCycleEvents[kind] /\ cy'.events \in Nat
  BY <1>1, PagesLeft, CycleAssumption DEF Advanced
<1>5. OutcomeFunded'
  BY <1>4 DEF OutcomeFunded, TerminalPages
<1>6. EnablesKnown'
  <2>1. cy'.state # "failed" /\ enable' = enable /\ cy'.enRev = cy.enRev
    BY DEF Advanced, AdvancedWell, LiveStages
  <2> QED
    BY <1>1, <2>1 DEF CycleRowsInv, EnablesKnown
<1> QED
  BY <1>1, <1>2, <1>3, <1>4, <1>5, <1>6 DEF StoreKeeps, Advanced

LEMMA KeptKeeps ==
    ASSUME CycleRowsInv, kind' = kind, Kept
    PROVE  StoreKeeps
<1>1. RowForm(cy') /\ cy'.id \in Nat /\ cy'.rev \in Nat /\ cy'.events \in Nat /\ cy'.credit \in Nat /\ (cy'.id = 0 => cy' = NoCycle)
  BY DEF CycleRowsInv, CycleShapes, Kept
<1>2. EnableForm(enable') /\ enable'.rev \in Nat
  BY DEF CycleRowsInv, CycleShapes, Kept
<1>3. StagesKnown' /\ PromptsKnown' /\ EnablesKnown' /\ OutcomeFunded'
  BY DEF CycleRowsInv, StagesKnown, PromptsKnown, EnablesKnown, OutcomeFunded, Unfinished, TerminalPages, Kept
<1> QED
  BY <1>1, <1>2, <1>3 DEF StoreKeeps, Kept

LEMMA StoreStepKeeps ==
    ASSUME CycleRowsInv, kind' = kind, StoreStep
    PROVE  StoreKeeps
BY EndedKeeps, AdvancedKeeps, KeptKeeps DEF StoreStep

\* What works on a row goes on with a row read before, the stored one, or none.
LEMMA RowsRest ==
    ASSUME CycleRowsInv, kind' = kind, StoreKeeps, PaneQuiet',
           ctl' = ctl \/ ctl' = cy \/ ctl' = NoCycle,
           reader' = reader \/ ReaderGoesOn,
           inp'.row = inp.row \/ inp'.row = ctl \/ inp'.row = cy' \/ inp'.row = NoCycle,
           work'.row = work.row \/ work'.row = ctl \/ work'.row = cy' \/ work'.row = NoCycle,
           InputForm(inp'), WorkForm(work'), InputsKnown', LockHeld'
    PROVE  CycleRowsInv'
<1>1. CycleShapes'
  BY DEF StoreKeeps, CycleShapes, CycleRowsInv
<1>2. RowBefore(cy', cy') /\ RowBefore(NoCycle, cy') /\ RowBefore(cy, cy')
  <2>1. RowBefore(cy', cy')
    BY DEF StoreKeeps, RowBefore
  <2>2. RowBefore(NoCycle, cy')
    <3>1. CASE cy'.id = 0
      BY <2>1, <3>1 DEF StoreKeeps
    <3>2. CASE cy'.id # 0
      BY <3>2, NoCycleIsEmpty DEF StoreKeeps, RowBefore
    <3> QED
      BY <3>1, <3>2
  <2>3. RowBefore(cy, cy)
    BY DEF CycleRowsInv, CycleShapes, RowBefore
  <2> QED
    BY <2>1, <2>2, <2>3 DEF StoreKeeps
<1>3. RowBefore(ctl, cy') /\ RowBefore(inp.row, cy') /\ RowBefore(reader.row, cy') /\ RowBefore(work.row, cy')
  BY DEF StoreKeeps, CycleRowsInv, RowsAreEarlier
<1>4. RowsAreEarlier' /\ AnswersKnown'
  BY <1>2, <1>3, ReaderRests DEF RowsAreEarlier
<1> QED
  BY <1>1, <1>4 DEF StoreKeeps, CycleRowsInv

\* A step on the stored row leaves the pane to the wake that is being entered.
LEMMA StoreStepQuiet ==
    ASSUME CycleRowsInv, StoreStep, typing' = typing
    PROVE  PaneQuiet'
<1>1. CASE Kept
  BY <1>1 DEF Kept, PaneQuiet, Unfinished, CycleRowsInv
<1>2. CASE Ended
  BY <1>2 DEF Ended, PaneQuiet, Unfinished, CycleTerminal, Outcomes
<1>3. CASE \E c, to : AdvancedWell(c, to)
  <2>1. typing => mu = "wake"
    BY DEF CycleRowsInv, LockHeld
  <2>2. mu = "wake" => Unfinished /\ cy.state \notin {"waiting_ready", "compact_waiting"}
    BY <1>3 DEF AdvancedWell, Advanced
  <2>3. ~typing
    BY <2>1, <2>2 DEF CycleRowsInv, PaneQuiet
  <2> QED
    BY <2>3 DEF PaneQuiet
<1> QED
  BY <1>1, <1>2, <1>3 DEF StoreStep

-----------------------------------------------------------------------------
(* The steps of each actor keep the rows *)

LEMMA RowChanges ==
    ASSUME CycleShapes, NEW c, NEW x,
           \/ c = cy
           \/ c = [cy EXCEPT !.from = x]
           \/ c = [cy EXCEPT !.succ = x]
           \/ c = [cy EXCEPT !.selected = x]
           \/ c = [cy EXCEPT !.displayed = x]
           \/ c = [cy EXCEPT !.succ = x, !.selected = FALSE]
    PROVE  SameBut(c)
BY DEF CycleShapes, RowForm, SameBut

LEMMA FromTurns ==
    ASSUME CycleShapes, NEW c, NEW x, c = [cy EXCEPT !.from = x]
    PROVE  c.from = x /\ c.succ = cy.succ /\ c.displayed = cy.displayed /\ c.selected = cy.selected
BY DEF CycleShapes, RowForm

LEMMA SuccTurns ==
    ASSUME CycleShapes, NEW c, NEW x, c = [cy EXCEPT !.succ = x]
    PROVE  c.from = cy.from /\ c.succ = x /\ c.displayed = cy.displayed /\ c.selected = cy.selected
BY DEF CycleShapes, RowForm

LEMMA SelectedTurns ==
    ASSUME CycleShapes, NEW c, NEW x, c = [cy EXCEPT !.selected = x]
    PROVE  c.from = cy.from /\ c.succ = cy.succ /\ c.displayed = cy.displayed /\ c.selected = x
BY DEF CycleShapes, RowForm

LEMMA DisplayedTurns ==
    ASSUME CycleShapes, NEW c, NEW x, c = [cy EXCEPT !.displayed = x]
    PROVE  c.from = cy.from /\ c.succ = cy.succ /\ c.displayed = x /\ c.selected = cy.selected
BY DEF CycleShapes, RowForm

LEMMA SuccSelectedTurns ==
    ASSUME CycleShapes, NEW c, NEW x, c = [cy EXCEPT !.succ = x, !.selected = FALSE]
    PROVE  c.from = cy.from /\ c.succ = x /\ c.displayed = cy.displayed
BY DEF CycleShapes, RowForm

LEMMA StoredIsBefore ==
    ASSUME CycleShapes
    PROVE  RowBefore(cy, cy) /\ SameBut(cy)
BY DEF CycleShapes, RowBefore, SameBut

LEMMA AdvanceStep ==
    ASSUME CycleRowsInv, NEW r, RowBefore(r, cy), r.state \in LiveStages, NEW c, r = cy => SameBut(c), NEW to \in LiveStages,
           AdvanceCycle(r, c, to),
           r = cy /\ to \in {"waiting_prompt", "prompt_intent"} => c.from \in {"ready", "reset_verified", "waiting_pickup"},
           mu = "wake" => r.state \notin {"waiting_ready", "compact_waiting"}
    PROVE  StoreStep /\ (Advances(r) => cy'.state = to)
<1>1. CycleShapes
  BY DEF CycleRowsInv
<1>2. \/ ~Advances(r) /\ (Kept \/ Ended)
      \/ Advances(r) /\ r = cy /\ Advanced(c, to)
  BY <1>1, AdvanceCycleMoves
<1>3. CASE ~Advances(r) /\ (Kept \/ Ended)
  BY <1>3 DEF StoreStep
<1>4. CASE Advances(r) /\ r = cy /\ Advanced(c, to)
  <2>1. AdvancedWell(c, to)
    BY <1>4 DEF AdvancedWell
  <2> QED
    BY <1>4, <2>1 DEF StoreStep, Advanced
<1> QED
  BY <1>2, <1>3, <1>4

LEMMA EndStep ==
    ASSUME CycleRowsInv, NEW r, NEW outcome \in Outcomes, NEW reason, EndCycle(r, outcome, reason)
    PROVE  StoreStep
BY EndCycleMoves DEF CycleRowsInv, StoreStep

LEMMA StoreRests ==
    ASSUME UNCHANGED cycleStore
    PROVE  StoreStep
BY DEF cycleStore, StoreStep, Kept

\* Only an admission starts another cycle.
RowsKeep == CycleRowsInv' /\ cy'.id = cy.id

LEMMA SameCycleStep ==
    ASSUME StoreStep
    PROVE  cy'.id = cy.id
BY DEF StoreStep, Kept, Ended, AdvancedWell, Advanced

\* A step beside the lock.
LEMMA BesideLockRests ==
    ASSUME CycleRowsInv, UNCHANGED <<kind, mu, inp, typing>>, StoreStep,
           ctl' = ctl \/ ctl' = cy \/ ctl' = NoCycle,
           reader' = reader \/ ReaderGoesOn,
           work'.row = work.row \/ work'.row = ctl \/ work'.row = cy' \/ work'.row = NoCycle,
           WorkForm(work')
    PROVE  RowsKeep
<1>1. InputForm(inp') /\ InputsKnown' /\ LockHeld'
  BY DEF CycleRowsInv, CycleShapes, InputsKnown, LockHeld
<1> QED
  BY <1>1, RowsRest, StoreStepKeeps, StoreStepQuiet, SameCycleStep DEF RowsKeep

\* A step of the holder of the lock, which gives it back.
LEMMA ReleaseRests ==
    ASSUME CycleRowsInv, UNCHANGED <<kind, ctl, reader, typing>>, StoreStep, Release, mu \in {"ctl", "ans"},
           work'.row = work.row \/ work'.row = ctl \/ work'.row = cy' \/ work'.row = NoCycle,
           WorkForm(work')
    PROVE  RowsKeep
<1>1. inp' = NoInput /\ InputForm(NoInput) /\ NoInput.ph = "none" /\ NoInput.row = NoCycle
  BY DEF Release, NoInput, InputForm
<1>2. ~typing
  BY DEF CycleRowsInv, LockHeld
<1>3. InputsKnown' /\ LockHeld'
  BY <1>1, <1>2 DEF InputsKnown, InputPhases, LockHeld
<1> QED
  BY <1>1, <1>3, RowsRest, StoreStepKeeps, StoreStepQuiet, SameCycleStep DEF RowsKeep

LEMMA NoWorkIsIdle == WorkForm(NoWork) /\ NoWork.run = "none" /\ NoWork.out = "none" /\ NoWork.row = NoCycle
BY DEF NoWork, WorkForm

LEMMA CycleInitRows == CycleInit => CycleRowsInv
<1> SUFFICES ASSUME CycleInit PROVE CycleRowsInv
  OBVIOUS
<1>1. InputForm(NoInput) /\ NoInput.ph = "none" /\ NoInput.row = NoCycle /\ NoReader.row = NoCycle
  BY DEF NoInput, InputForm, NoReader
<1>2. RowForm(NoCycle) /\ NoCycle.id = 0 /\ NoCycle.rev = 0 /\ NoCycle.state = "none" /\ NoCycle.events = 0 /\ NoCycle.credit = 0
  BY DEF NoCycle, RowForm
<1>3. EnableForm(enable) /\ enable.rev = 1
  BY DEF CycleInit, EnableForm
<1>4. CycleShapes
  BY <1>1, <1>2, <1>3, NoWorkIsIdle DEF CycleInit, CycleShapes
<1>5. RowsAreEarlier
  BY <1>1, <1>2, NoWorkIsIdle DEF CycleInit, RowsAreEarlier, RowBefore
<1>6. StagesKnown /\ PromptsKnown /\ AnswersKnown /\ InputsKnown /\ EnablesKnown /\ OutcomeFunded /\ PaneQuiet /\ LockHeld
  BY <1>1, <1>2 DEF CycleInit, StagesKnown, PromptsKnown, AnswersKnown, NoReader, InputsKnown, InputPhases, EnablesKnown, OutcomeFunded, PaneQuiet, LockHeld, Unfinished
<1> QED
  BY <1>4, <1>5, <1>6 DEF CycleRowsInv

LEMMA ReaderMoves ==
    ASSUME CycleShapes,
           \/ ObserveRead \/ ObserveEnd \/ PickupRead \/ PickupRefused \/ \E retained \in BOOLEAN : PickupWrite(retained)
           \/ AnswerRead
    PROVE  Kept \/ Ended
<1>1. CASE UNCHANGED cycleStore
  BY <1>1 DEF cycleStore, Kept
<1>2. CASE ObserveRead \/ PickupRead \/ AnswerRead
  BY <1>1, <1>2 DEF ObserveRead, PickupRead, AnswerRead
<1>3. CASE ObserveEnd
  <2>1. \/ UNCHANGED cycleStore
        \/ EndCycle(reader.row, "cancelled", "epoch_changed")
        \/ EndCycle(reader.row, "complete", "compacted")
    BY <1>3 DEF ObserveEnd
  <2> QED
    BY <1>1, <2>1, EndCycleMoves DEF Outcomes
<1>4. CASE PickupRefused
  <2>1. \/ UNCHANGED cycleStore
        \/ EndCycle(reader.row, "uncertain", "model_changed")
    BY <1>4 DEF PickupRefused
  <2> QED
    BY <1>1, <2>1, EndCycleMoves DEF Outcomes
<1>5. ASSUME NEW retained \in BOOLEAN, PickupWrite(retained)
      PROVE  Kept \/ Ended
  <2>1. CASE PickupStands(reader.row)
    <3>1. EndCycleTx(cy, "complete", "resumed", IF retained THEN enable ELSE TurnedOff)
      BY <1>5, <2>1 DEF PickupWrite
    <3>2. cy.state \in LiveStages
      BY <2>1 DEF PickupStands, AcceptsPickupReport, AwaitingPickup, LiveStages
    <3>3. Unfinished
      BY <3>2, LiveIsUnfinished
    <3>4. PICK left : left = (IF retained THEN enable ELSE TurnedOff)
      OBVIOUS
    <3> QED
      BY <3>1, <3>3, <3>4, EndCycleTxMoves DEF Outcomes
  <2>2. CASE ~PickupStands(reader.row)
    BY <1>1, <1>5, <2>2 DEF PickupWrite
  <2> QED
    BY <2>1, <2>2
<1> QED
  BY <1>2, <1>3, <1>4, <1>5

LEMMA ReaderStepsKeep ==
    ASSUME CycleRowsInv,
           \/ ObserveRead \/ ObserveEnd \/ PickupRead \/ PickupRefused \/ \E retained \in BOOLEAN : PickupWrite(retained)
           \/ AnswerRead
    PROVE  RowsKeep
<1>1. CycleShapes /\ WorkForm(work)
  BY DEF CycleRowsInv, CycleShapes
<1>2. UNCHANGED <<kind, mu, inp, typing, ctl, work>>
  BY DEF ObserveRead, ObserveEnd, PickupRead, PickupRefused, PickupWrite, AnswerRead, cycleBounds
<1>3. ReaderGoesOn
  BY DEF ObserveRead, ObserveEnd, PickupRead, PickupRefused, PickupWrite, AnswerRead, ReaderGoesOn
<1>4. StoreStep
  BY <1>1, ReaderMoves DEF StoreStep
<1> QED
  BY <1>1, <1>2, <1>3, <1>4, BesideLockRests

LEMMA AdmitKeeps ==
    ASSUME CycleRowsInv, Admit
    PROVE  CycleRowsInv'
<1>1. /\ CycleShapes /\ cy.id \in Nat /\ enable.rev \in Nat /\ EnableForm(enable)
      /\ InputForm(inp) /\ WorkForm(work)
  BY DEF CycleRowsInv, CycleShapes
<1>2. UNCHANGED <<kind, enable, ctl, mu, inp, reader, typing>> /\ enable.on
  BY DEF Admit, SelectContextTrigger, cycleBounds
<1>3. PICK n, v, e, p, s : /\ n = cy.id + 1 /\ v = enable.rev /\ e = shown /\ p = CreditPages
                           /\ s = IF kind = "compact" THEN "compact_waiting" ELSE "waiting_ready"
  OBVIOUS
<1>4. cy' = [NoCycle EXCEPT !.id = n, !.rev = 1, !.events = 1, !.credit = p, !.state = s, !.enRev = v, !.epoch = e]
  BY <1>3 DEF Admit
<1>5. /\ RowForm(cy') /\ cy'.id = n /\ cy'.rev = 1 /\ cy'.events = 1 /\ cy'.credit = p /\ cy'.state = s
      /\ cy'.enRev = v /\ cy'.epoch = e
  BY <1>4 DEF NoCycle, RowForm
<1>6. n \in Nat /\ n > cy.id /\ n # 0 /\ s \in {"compact_waiting", "waiting_ready"}
  BY <1>1, <1>3
<1>7. p \in Nat /\ p >= TerminalPages /\ 1 < MaxCycleEvents[kind]
  <2>1. MaxCycleEvents[kind] \in Nat \ (0 .. 2)
    BY <1>1, CycleAssumption DEF CycleAssumption, CycleShapes
  <2>2. PICK m : m = MaxCycleEvents[kind]
    OBVIOUS
  <2>3. p = (m - 2) * 280 + 491
    BY <1>3, <2>2 DEF CreditPages, StagePages, TerminalPages
  <2>4. m \in Nat /\ m > 2
    BY <2>1, <2>2
  <2> QED
    BY <2>2, <2>3, <2>4 DEF TerminalPages
<1>8. \A x : RowBefore(x, cy) => RowBefore(x, cy')
  BY <1>1, <1>5, <1>6 DEF RowBefore
<1>9. StagesKnown' /\ PromptsKnown' /\ EnablesKnown' /\ OutcomeFunded'
  <2>1. EnablesKnown'
    BY <1>1, <1>2, <1>3, <1>5, <1>6 DEF EnablesKnown
  <2>2. OutcomeFunded'
    BY <1>2, <1>5, <1>7 DEF OutcomeFunded, TerminalPages
  <2> QED
    BY <1>5, <1>6, <2>1, <2>2 DEF PromptsKnown, StagesKnown, LiveStages
<1>10. StoreKeeps
  BY <1>1, <1>2, <1>5, <1>6, <1>7, <1>8, <1>9 DEF StoreKeeps
<1>11. PaneQuiet'
  BY <1>5, <1>6 DEF PaneQuiet
<1>12. WorkForm(work') /\ work'.row = work.row
  BY <1>1 DEF Admit, WorkForm
<1>13. InputsKnown' /\ LockHeld'
  BY <1>2 DEF CycleRowsInv, InputsKnown, LockHeld
<1> QED
  BY <1>1, <1>2, <1>10, <1>11, <1>12, <1>13, RowsRest

\* A read of the inbox and a change of the Enable leave the row or end it.
LEMMA EnableStepsKeep ==
    ASSUME CycleRowsInv, NoteInboxRead \/ \E on \in BOOLEAN : SetContextEnable(on)
    PROVE  RowsKeep
<1>1. CycleShapes /\ WorkForm(work) /\ InputForm(inp) /\ EnableForm(enable) /\ enable.rev \in Nat
  BY DEF CycleRowsInv, CycleShapes
<1>2. UNCHANGED <<kind, ctl, mu, inp, reader, work, typing>>
  BY DEF NoteInboxRead, SetContextEnable, cycleBounds
<1>3. CASE Ended
  BY <1>1, <1>2, <1>3, BesideLockRests DEF StoreStep
<1>4. CASE /\ cy' = cy /\ EnableForm(enable') /\ enable'.rev \in Nat /\ enable.rev <= enable'.rev
           /\ enable'.rev = enable.rev => enable'.on = enable.on /\ enable'.kept = enable.kept
  <2>1. EnablesKnown
    BY DEF CycleRowsInv
  <2>2. EnablesKnown'
    <3>1. cy.id > 0 => cy.enRev \in Nat /\ cy.enRev <= enable'.rev
      BY <1>1, <1>4, <2>1 DEF EnablesKnown
    <3>2. cy.id > 0 /\ cy.enRev = enable'.rev => enable'.rev = enable.rev /\ cy.enRev = enable.rev
      BY <1>1, <1>4, <2>1 DEF EnablesKnown
    <3>3. cy.state = "failed" => cy.id > 0
      BY <1>1, NoCycleIsEmpty DEF CycleShapes
    <3> QED
      BY <1>2, <1>4, <2>1, <3>1, <3>2, <3>3 DEF EnablesKnown
  <2>3. StagesKnown' /\ PromptsKnown' /\ OutcomeFunded' /\ PaneQuiet'
    BY <1>2, <1>4 DEF CycleRowsInv, StagesKnown, PromptsKnown, OutcomeFunded, PaneQuiet, Unfinished, TerminalPages
  <2>4. StoreKeeps
    BY <1>1, <1>4, <2>2, <2>3 DEF StoreKeeps, CycleShapes
  <2>5. InputsKnown' /\ LockHeld'
    BY <1>2 DEF CycleRowsInv, InputsKnown, LockHeld
  <2> QED
    BY <1>1, <1>2, <1>4, <2>3, <2>4, <2>5, RowsRest DEF RowsKeep
<1>5. CASE NoteInboxRead
  <2>1. EnableForm(enable') /\ enable'.rev = enable.rev /\ enable'.on = enable.on /\ enable'.kept = enable.kept /\ cy' = cy
    BY <1>1, <1>5 DEF NoteInboxRead, EnableForm
  <2> QED
    BY <1>1, <1>4, <2>1
<1>6. ASSUME NEW on \in BOOLEAN, SetContextEnable(on)
      PROVE  RowsKeep
  <2>1. CASE on
    <3>1. cy' = cy /\ enable' = [on |-> TRUE, rev |-> enable.rev + 1, kept |-> 0, read |-> FALSE]
      BY <1>6, <2>1 DEF SetContextEnable
    <3>2. EnableForm(enable') /\ enable'.rev = enable.rev + 1
      BY <3>1 DEF EnableForm
    <3>3. enable'.rev \in Nat /\ enable.rev <= enable'.rev /\ enable'.rev # enable.rev
      BY <1>1, <3>2
    <3> QED
      BY <1>4, <3>1, <3>2, <3>3
  <2>2. CASE ~on /\ Unfinished
    <3>1. EndCycleTx(cy, "cancelled", "disabled", enable)
      BY <1>6, <2>2 DEF SetContextEnable
    <3> QED
      BY <1>1, <1>3, <2>2, <3>1, EndCycleTxMoves DEF Outcomes
  <2>3. CASE ~on /\ ~Unfinished
    <3>1. cy' = cy /\ enable' = TurnedOff
      BY <1>6, <2>3 DEF SetContextEnable
    <3> QED
      BY <1>1, <1>4, <3>1, EnableLeft
  <2> QED
    BY <2>1, <2>2, <2>3
<1> QED
  BY <1>5, <1>6

LEMMA SessionStepsKeep ==
    ASSUME CycleRowsInv, FenceCycles \/ ContextCycleReady \/ ReadingBelow \/ CtlRead
               \/ (\E d \in {"stage", "ask", "prompt", "cycle"} : CycleElapse(d)) \/ Stray
    PROVE  RowsKeep
<1>1. CycleShapes /\ WorkForm(work) /\ RowBefore(cy, cy) /\ SameBut(cy)
  BY StoredIsBefore DEF CycleRowsInv, CycleShapes
<1>2. UNCHANGED <<kind, mu, inp, typing, reader, work>> /\ (ctl' = ctl \/ ctl' = cy)
  BY DEF FenceCycles, ContextCycleReady, ReadingBelow, CtlRead, CycleElapse, Stray, cycleBounds
<1>3. StoreStep
  <2>1. CASE FenceCycles
    <3>1. Unfinished /\ EndCycleTx(cy, "cancelled", "fenced", enable)
      BY <2>1 DEF FenceCycles
    <3> QED
      BY <1>1, <3>1, EndCycleTxMoves DEF StoreStep, Outcomes
  <2>2. CASE ContextCycleReady
    <3>1. AdvanceCycle(cy, cy, "ready") /\ mu = "free" /\ cy.state = "waiting_ready"
      BY <2>2 DEF ContextCycleReady, ReadyLock
    <3> QED
      BY <1>1, <3>1, AdvanceStep DEF LiveStages
  <2>3. CASE ReadingBelow \/ CtlRead \/ Stray \/ (\E d \in {"stage", "ask", "prompt", "cycle"} : CycleElapse(d))
    BY <2>3 DEF ReadingBelow, CtlRead, Stray, CycleElapse, cycleStore, StoreStep, Kept
  <2> QED
    BY <2>1, <2>2, <2>3
<1> QED
  BY <1>1, <1>2, <1>3, BesideLockRests

\* What a look at a pane that is not idle does to the row.
LEMMA NotIdleMoves ==
    ASSUME CycleRowsInv, NEW r, RowBefore(r, cy), r.state \in {"ready", "reset_verified"}, NotIdle(r)
    PROVE  Kept \/ Ended \/ (r = cy /\ cy.state = "ready" /\ Advanced(cy, "waiting_ready"))
<1>1. CycleShapes
  BY DEF CycleRowsInv
<1>2. CASE UNCHANGED cycleStore
  BY <1>2 DEF cycleStore, Kept
<1>3. CASE r.state = "ready" /\ CanRepeat(r) /\ HasRoom(cy) /\ Repeat
  <2>1. r = cy /\ CycleEnabled(cy)
    BY <1>1, <1>3, FencedIsStored DEF CanRepeat
  <2>2. Unfinished
    BY <1>1, <1>3, <2>1, LiveIsUnfinished DEF LiveStages
  <2> QED
    BY <1>1, <1>3, <2>1, <2>2, RepeatMoves
<1>4. CASE EndCycle(r, "failed", "event_limit")
  BY <1>1, <1>4, EndCycleMoves DEF Outcomes
<1> QED
  BY <1>2, <1>3, <1>4 DEF NotIdle

LEMMA NotIdleStep ==
    ASSUME CycleRowsInv, NEW r, RowBefore(r, cy), r.state \in {"ready", "reset_verified"}, NotIdle(r)
    PROVE  StoreStep
<1>1. CASE r = cy /\ cy.state = "ready" /\ Advanced(cy, "waiting_ready")
  BY <1>1 DEF StoreStep, AdvancedWell, LiveStages
<1> QED
  BY <1>1, NotIdleMoves DEF StoreStep

LEMMA ArtifactStep ==
    ASSUME CycleRowsInv, NEW r, RowBefore(r, cy), r.state \in {"ready", "reset_verified"}, ArtifactChanged(r)
    PROVE  StoreStep
<1>1. CASE r.state = "ready"
  <2>1. AdvanceCycle(r, r, "waiting_ready") /\ (r = cy => SameBut(r))
    BY <1>1, StoredIsBefore DEF ArtifactChanged, CycleRowsInv
  <2> QED
    BY <1>1, <2>1, AdvanceStep DEF LiveStages
<1>2. CASE r.state # "ready"
  BY <1>2, EndStep DEF ArtifactChanged, Outcomes
<1> QED
  BY <1>1, <1>2

LEMMA StartPickupStep ==
    ASSUME CycleRowsInv, NEW r, RowBefore(r, cy), r.state = "reset_verified", StartPickup(r)
    PROVE  StoreStep /\ WorkForm(work') /\ (work'.row = work.row \/ work'.row = cy')
<1>1. WorkForm(work) /\ (r = cy => SameBut(r))
  BY StoredIsBefore DEF CycleRowsInv, CycleShapes
<1>2. CASE UNCHANGED <<cycleStore, work>>
  BY <1>1, <1>2, StoreRests
<1>3. CASE /\ AdvanceCycle(r, r, "pickup_intent")
           /\ work' = IF Advances(r) THEN [run |-> "send", out |-> "none", row |-> cy'] ELSE work
  <2>1. StoreStep
    BY <1>1, <1>3, AdvanceStep DEF LiveStages
  <2>2. WorkForm(work') /\ (work'.row = work.row \/ work'.row = cy')
    BY <1>1, <1>3 DEF WorkForm
  <2> QED
    BY <2>1, <2>2
<1> QED
  BY <1>2, <1>3 DEF StartPickup

LEMMA TimeoutStep ==
    ASSUME CycleRowsInv, NEW r, RowBefore(r, cy), CtlTimeout(r)
    PROVE  StoreStep
<1>1. PICK o, w : /\ o = IF r.state = "compact_waiting" /\ "cycle" \notin over THEN "cancelled" ELSE "failed"
                  /\ w = IF r.state = "waiting_ready" /\ "cycle" \notin over THEN "waiting_ready_timeout" ELSE "timeout"
  OBVIOUS
<1>2. CASE EndCycle(r, o, w)
  BY <1>1, <1>2, EndStep DEF Outcomes
<1>3. CASE /\ r.state = "ready" /\ CanRepeat(r)
           /\ IF HasRoom(cy) THEN Repeat ELSE EndCycle(r, "failed", "event_limit")
  <2>1. NotIdle(r)
    BY <1>3 DEF NotIdle
  <2> QED
    BY <1>3, <2>1, NotIdleStep
<1> QED
  BY <1>1, <1>2, <1>3 DEF CtlTimeout

LEMMA HostlessApplyStep ==
    ASSUME CycleRowsInv, NEW r, RowBefore(r, cy), CtlHostlessApply(r)
    PROVE  StoreStep /\ WorkForm(work') /\ (work'.row = work.row \/ work'.row = cy' \/ work'.row = NoCycle)
<1>1. CycleShapes /\ WorkForm(work) /\ (r = cy => SameBut(r))
  BY StoredIsBefore DEF CycleRowsInv, CycleShapes
<1>2. CASE r.state = "clear_intent"
  <2>1. work' = NoWork
    BY <1>2 DEF CtlHostlessApply
  <2>2. PICK c : c = [r EXCEPT !.succ = created]
    OBVIOUS
  <2>3. r = cy => SameBut(c)
    BY <1>1, <2>2, RowChanges
  <2>4. \/ AdvanceCycle(r, c, "clear_received")
        \/ AdvanceCycle(r, r, "ready")
        \/ EndCycle(r, "failed", "session_conflict") \/ EndCycle(r, "uncertain", "reset_unproven")
        \/ UNCHANGED cycleStore
    BY <1>2, <2>2 DEF CtlHostlessApply
  <2>5. StoreStep
    BY <1>1, <1>2, <2>3, <2>4, AdvanceStep, EndStep, StoreRests DEF Outcomes, LiveStages
  <2> QED
    BY <2>1, <2>5, NoWorkIsIdle
<1>3. CASE r.state = "clear_received"
  <2>1. work' = NoWork
    BY <1>3 DEF CtlHostlessApply
  <2>2. \/ AdvanceCycle(r, r, "reset_verified")
        \/ EndCycle(r, "uncertain", "reset_unproven")
        \/ UNCHANGED cycleStore
    BY <1>3 DEF CtlHostlessApply
  <2>3. StoreStep
    BY <1>1, <1>3, <2>2, AdvanceStep, EndStep, StoreRests DEF Outcomes, LiveStages
  <2> QED
    BY <2>1, <2>3, NoWorkIsIdle
<1>4. CASE r.state \in {"ready", "reset_verified"}
  <2>1. \/ NotIdle(r) /\ work' = NoWork
        \/ ArtifactChanged(r) /\ work' = NoWork
        \/ EndCycle(r, "failed", "probe") /\ work' = NoWork
        \/ r.state = "ready" /\ AdvanceCycle(r, r, "clear_intent") /\ work' = NoWork
        \/ r.state = "reset_verified" /\ StartPickup(r)
    BY <1>4 DEF CtlHostlessApply
  <2>2. CASE NotIdle(r) /\ work' = NoWork
    BY <1>4, <2>2, NotIdleStep, NoWorkIsIdle
  <2>3. CASE ArtifactChanged(r) /\ work' = NoWork
    BY <1>4, <2>3, ArtifactStep, NoWorkIsIdle
  <2>4. CASE EndCycle(r, "failed", "probe") /\ work' = NoWork
    BY <2>4, EndStep, NoWorkIsIdle DEF Outcomes
  <2>5. CASE r.state = "ready" /\ AdvanceCycle(r, r, "clear_intent") /\ work' = NoWork
    BY <1>1, <2>5, AdvanceStep, NoWorkIsIdle DEF LiveStages
  <2>6. CASE r.state = "reset_verified" /\ StartPickup(r)
    BY <2>6, StartPickupStep
  <2> QED
    BY <2>1, <2>2, <2>3, <2>4, <2>5, <2>6
<1> QED
  BY <1>2, <1>3, <1>4 DEF CtlHostlessApply, HostlessStages

LEMMA CtlStepKeeps ==
    ASSUME CycleRowsInv, CtlStep
    PROVE  RowsKeep
<1>1. CycleShapes /\ WorkForm(work) /\ InputForm(inp) /\ RowBefore(ctl, cy) /\ (ctl = cy => SameBut(ctl))
  BY StoredIsBefore DEF CycleRowsInv, CycleShapes, RowsAreEarlier
<1>2. CASE CtlTimeout(ctl)
  <2>1. UNCHANGED <<kind, mu, inp, reader, work, typing>> /\ ctl' = NoCycle
    BY <1>2 DEF CtlTimeout, cycleBounds
  <2> QED
    BY <1>1, <1>2, <2>1, TimeoutStep, BesideLockRests
<1>3. CASE CtlDisabled(ctl)
  <2>1. UNCHANGED <<kind, mu, inp, reader, work, typing>> /\ ctl' = NoCycle /\ EndCycle(ctl, "cancelled", "enable_changed")
    BY <1>3 DEF CtlDisabled, cycleBounds
  <2> QED
    BY <1>1, <2>1, EndStep, BesideLockRests DEF Outcomes
<1>4. CASE CtlReceipt(ctl)
  <2>1. UNCHANGED <<kind, mu, inp, reader, typing>> /\ ctl' = NoCycle /\ ctl.state = "pickup_intent"
    BY <1>4 DEF CtlReceipt, cycleBounds
  <2>2. \/ AdvanceCycle(ctl, ctl, "waiting_pickup") /\ UNCHANGED work
        \/ EndCycle(ctl, "uncertain", "pickup_unreceipted") /\ UNCHANGED work
        \/ UNCHANGED cycleStore /\ work' = IF work.run = "none" THEN [work EXCEPT !.run = "receipt", !.row = ctl] ELSE work
    BY <1>4 DEF CtlReceipt
  <2>3. WorkForm(work') /\ (work'.row = work.row \/ work'.row = ctl)
    BY <1>1, <2>2 DEF WorkForm
  <2>4. StoreStep
    BY <1>1, <2>1, <2>2, AdvanceStep, EndStep, StoreRests DEF Outcomes, LiveStages
  <2> QED
    BY <2>1, <2>3, <2>4, BesideLockRests
<1>5. CASE CtlHostlessWork(ctl)
  <2>1. UNCHANGED <<kind, mu, inp, reader, typing>> /\ ctl' = NoCycle /\ ctl.state \in HostlessStages
    BY <1>5 DEF CtlHostlessWork, cycleBounds
  <2>2. PICK c : c = [ctl EXCEPT !.selected = TRUE]
    OBVIOUS
  <2>3. ctl = cy => SameBut(c)
    BY <1>1, <2>2, RowChanges
  <2>4. \/ AdvanceCycle(ctl, c, "clear_received") /\ UNCHANGED work
        \/ UNCHANGED cycleStore /\ (\/ work' = work
                                    \/ \E run \in {"create", "read"} : work' = [run |-> run, out |-> "none", row |-> ctl])
    <3>1. CASE ctl.state = "clear_received" /\ ~ctl.selected
      BY <1>5, <2>2, <3>1 DEF CtlHostlessWork
    <3>2. CASE ~(ctl.state = "clear_received" /\ ~ctl.selected)
      <4>1. /\ work' = IF ctl.state = "waiting_pickup" \/ work.run # "none" THEN work
                       ELSE [run |-> IF ctl.state = "clear_intent" THEN "create" ELSE "read",
                             out |-> "none", row |-> ctl]
            /\ UNCHANGED cycleStore
        BY <1>5, <3>2 DEF CtlHostlessWork
      <4> QED
        BY <4>1
    <3> QED
      BY <3>1, <3>2
  <2>5. WorkForm(work') /\ (work'.row = work.row \/ work'.row = ctl)
    BY <1>1, <2>4 DEF WorkForm
  <2>6. StoreStep
    BY <1>1, <2>1, <2>3, <2>4, AdvanceStep, StoreRests DEF LiveStages, HostlessStages
  <2> QED
    BY <2>1, <2>5, <2>6, BesideLockRests
<1>6. CASE CtlHostlessApply(ctl)
  <2>1. UNCHANGED <<kind, mu, inp, reader, typing>> /\ ctl' = NoCycle
    BY <1>6 DEF CtlHostlessApply, cycleBounds
  <2> QED
    BY <1>1, <1>6, <2>1, HostlessApplyStep, BesideLockRests
<1>7. CASE CtlLock(ctl)
  <2>1. /\ UNCHANGED <<kind, reader, work, typing>> /\ ctl' = NoCycle /\ mu' = "ctl" /\ mu = "free"
        /\ UNCHANGED cycleStore /\ inp' = [NoInput EXCEPT !.ph = "act", !.row = ctl]
    BY <1>7 DEF CtlLock, cycleBounds
  <2>2. InputForm(inp') /\ inp'.ph = "act" /\ inp'.row = ctl
    BY <2>1 DEF NoInput, InputForm
  <2>3. InputsKnown' /\ LockHeld'
    BY <2>1, <2>2 DEF CycleRowsInv, InputsKnown, InputPhases, LockHeld
  <2> QED
    BY <1>1, <2>1, <2>2, <2>3, StoreRests, RowsRest, StoreStepKeeps, StoreStepQuiet, SameCycleStep DEF RowsKeep
<1> QED
  BY <1>2, <1>3, <1>4, <1>5, <1>6, <1>7 DEF CtlStep

\* The holder of the lock recorded an intent, and its input follows.
LEMMA InputBegins ==
    ASSUME CycleRowsInv, UNCHANGED <<kind, work, typing>>, StoreStep,
           ctl' = ctl, reader' = reader \/ reader' = NoReader,
           mu' \in {"ctl", "ans"}, mu # "wake",
           NEW what \in Inputs, inp' = [ph |-> "input", what |-> what, res |-> "", row |-> cy'],
           cy'.state = StageOfInput(what)
    PROVE  RowsKeep
<1>1. InputForm(inp') /\ inp'.ph = "input" /\ inp'.what = what /\ inp'.row = cy'
  BY DEF InputForm
<1>2. ~typing /\ WorkForm(work)
  BY DEF CycleRowsInv, LockHeld, CycleShapes
<1>3. InputsKnown' /\ LockHeld'
  BY <1>1, <1>2 DEF InputsKnown, StageOfInput, Inputs, LockHeld
<1> QED
  BY <1>1, <1>2, <1>3, RowsRest, StoreStepKeeps, StoreStepQuiet, SameCycleStep DEF RowsKeep, ReaderGoesOn

LEMMA EnterKeeps ==
    ASSUME CycleRowsInv, mu = "ctl", NEW to, NEW what \in Inputs, to = StageOfInput(what), inp.row.state \in LiveStages,
           Enter(inp.row, to, what), to \in LiveStages \ {"prompt_intent"}, UNCHANGED <<kind, ctl, reader, work, typing>>
    PROVE  RowsKeep
<1>1. /\ CycleShapes /\ WorkForm(work) /\ RowBefore(inp.row, cy) /\ (inp.row = cy => SameBut(inp.row))
  BY StoredIsBefore DEF CycleRowsInv, CycleShapes, RowsAreEarlier
<1>2. PICK r : r = inp.row
  OBVIOUS
<1>3. AdvanceCycle(r, r, to)
  BY <1>2 DEF Enter
<1>4. to # "waiting_prompt"
  BY DEF StageOfInput, Inputs
<1>5. StoreStep /\ (Advances(r) => cy'.state = to)
  BY <1>1, <1>2, <1>3, <1>4, AdvanceStep
<1>6. CASE Advances(r)
  BY <1>1, <1>2, <1>5, <1>6, InputBegins DEF Enter
<1>7. CASE ~Advances(r)
  BY <1>1, <1>2, <1>5, <1>7, ReleaseRests DEF Enter
<1> QED
  BY <1>6, <1>7

LEMMA ActOnPaneKeeps ==
    ASSUME CycleRowsInv, mu = "ctl", inp.row.state \in {"ready", "reset_verified"}, ActOnPane(inp.row),
           UNCHANGED <<kind, ctl, reader, typing>>
    PROVE  RowsKeep
<1>1. /\ CycleShapes /\ WorkForm(work) /\ RowBefore(inp.row, cy) /\ inp.row.state \in LiveStages
  BY DEF CycleRowsInv, CycleShapes, RowsAreEarlier, LiveStages
<1>2. PICK r : r = inp.row
  OBVIOUS
<1>3. CASE StoreStep /\ Release /\ UNCHANGED work
  BY <1>1, <1>3, ReleaseRests
<1>4. CASE NotIdle(r) /\ Release /\ UNCHANGED work
  BY <1>1, <1>2, <1>3, <1>4, NotIdleStep
<1>5. CASE AdvanceCycle(r, [r EXCEPT !.from = r.state], "waiting_prompt") /\ Release /\ UNCHANGED work
  <2>1. PICK c : c = [r EXCEPT !.from = r.state]
    OBVIOUS
  <2>2. AdvanceCycle(r, c, "waiting_prompt")
    BY <1>5, <2>1
  <2>3. r = cy => SameBut(c) /\ c.from = r.state
    BY <1>1, <2>1, RowChanges, FromTurns
  <2>4. StoreStep
    BY <1>1, <1>2, <2>2, <2>3, AdvanceStep DEF LiveStages
  <2> QED
    BY <1>3, <1>5, <2>4
<1>6. CASE /\ EndCycle(r, "failed", "prompt_unrecognized") \/ EndCycle(r, "failed", "epoch_changed")
           /\ Release /\ UNCHANGED work
  BY <1>3, <1>6, EndStep DEF Outcomes
<1>7. CASE ArtifactChanged(r) /\ Release /\ UNCHANGED work
  BY <1>1, <1>2, <1>3, <1>7, ArtifactStep
<1>8. CASE Enter(r, "clear_intent", IF kind = "session" THEN "create" ELSE "clear") /\ UNCHANGED work
  <2>1. PICK w : w = IF kind = "session" THEN "create" ELSE "clear"
    OBVIOUS
  <2>2. w \in Inputs /\ StageOfInput(w) = "clear_intent" /\ "clear_intent" \in LiveStages \ {"prompt_intent"}
    BY <2>1 DEF Inputs, StageOfInput, LiveStages
  <2> QED
    BY <1>1, <1>2, <1>8, <2>1, <2>2, EnterKeeps
<1>9. CASE Enter(r, "pickup_intent", "pickup") /\ UNCHANGED work
  <2>1. "pickup" \in Inputs /\ StageOfInput("pickup") = "pickup_intent" /\ "pickup_intent" \in LiveStages \ {"prompt_intent"}
    BY DEF Inputs, StageOfInput, LiveStages
  <2> QED
    BY <1>1, <1>2, <1>9, <2>1, EnterKeeps
<1>10. CASE r.state = "reset_verified" /\ StartPickup(r) /\ Release
  BY <1>1, <1>2, <1>10, StartPickupStep, ReleaseRests
<1> QED
  BY <1>2, <1>4, <1>5, <1>6, <1>7, <1>8, <1>9, <1>10 DEF ActOnPane

LEMMA ActOnResetKeeps ==
    ASSUME CycleRowsInv, mu = "ctl", inp.row.state \in {"clear_intent", "clear_received"}, ActOnReset(inp.row),
           UNCHANGED <<kind, ctl, reader, work, typing>>
    PROVE  RowsKeep
<1>1. /\ CycleShapes /\ WorkForm(work) /\ RowBefore(inp.row, cy) /\ inp.row.state \in LiveStages
  BY DEF CycleRowsInv, CycleShapes, RowsAreEarlier, LiveStages
<1>2. PICK r : r = inp.row
  OBVIOUS
<1>3. CASE r.state = "clear_received" /\ ~SelectSent(r)
  <2>1. PICK c : c = [r EXCEPT !.selected = TRUE]
    OBVIOUS
  <2>2. /\ AdvanceCycle(r, c, "clear_received")
        /\ IF Advances(r)
           THEN inp' = [ph |-> "input", what |-> "select", res |-> "", row |-> cy'] /\ UNCHANGED mu
           ELSE Release
    BY <1>2, <1>3, <2>1 DEF ActOnReset
  <2>3. r = cy => SameBut(c)
    BY <1>1, <2>1, RowChanges
  <2>4. StoreStep /\ (Advances(r) => cy'.state = "clear_received")
    BY <1>1, <1>2, <2>2, <2>3, AdvanceStep DEF LiveStages
  <2>5. CASE Advances(r)
    <3>1. "select" \in Inputs /\ StageOfInput("select") = "clear_received"
      BY DEF Inputs, StageOfInput
    <3> QED
      BY <1>1, <2>2, <2>4, <2>5, <3>1, InputBegins
  <2>6. CASE ~Advances(r)
    BY <1>1, <2>2, <2>4, <2>6, ReleaseRests
  <2> QED
    BY <2>5, <2>6
<1>4. CASE ~(r.state = "clear_received" /\ ~SelectSent(r))
  <2>1. /\ Release
        /\ \/ \E e \in ReadEpochs(r) : AdvanceCycle(r, [r EXCEPT !.succ = e], "reset_verified")
           \/ EndCycle(r, "uncertain", "reset_unproven")
           \/ UNCHANGED cycleStore
    BY <1>2, <1>4 DEF ActOnReset
  <2>2. ASSUME NEW e \in ReadEpochs(r), AdvanceCycle(r, [r EXCEPT !.succ = e], "reset_verified")
        PROVE  StoreStep
    <3>1. PICK c : c = [r EXCEPT !.succ = e]
      OBVIOUS
    <3>2. r = cy => SameBut(c)
      BY <1>1, <3>1, RowChanges
    <3> QED
      BY <1>1, <1>2, <2>2, <3>1, <3>2, AdvanceStep DEF LiveStages
  <2>3. StoreStep
    BY <2>1, <2>2, EndStep, StoreRests DEF Outcomes
  <2> QED
    BY <1>1, <2>1, <2>3, ReleaseRests
<1> QED
  BY <1>3, <1>4

LEMMA ActOnPickupKeeps ==
    ASSUME CycleRowsInv, mu = "ctl", UNCHANGED <<kind, ctl, reader, work, typing>>,
           \/ inp.row.state = "waiting_pickup" /\ ActOnPickup(inp.row)
           \/ inp.row.state = "waiting_prompt" /\ ActOnPrompt(inp.row)
    PROVE  RowsKeep
<1>1. /\ CycleShapes /\ WorkForm(work) /\ RowBefore(inp.row, cy) /\ inp.row.state \in LiveStages
  BY DEF CycleRowsInv, CycleShapes, RowsAreEarlier, LiveStages
<1>2. PICK r : r = inp.row
  OBVIOUS
<1>3. Release
  BY DEF ActOnPickup, ActOnPrompt
<1>4. CASE UNCHANGED cycleStore
  BY <1>1, <1>3, <1>4, StoreRests, ReleaseRests
<1>5. CASE r.state = "waiting_pickup" /\ AdvanceCycle(r, [r EXCEPT !.displayed = TRUE], "waiting_pickup")
  <2>1. PICK c : c = [r EXCEPT !.displayed = TRUE]
    OBVIOUS
  <2>2. r = cy => SameBut(c)
    BY <1>1, <2>1, RowChanges
  <2>3. StoreStep
    BY <1>1, <1>2, <1>5, <2>1, <2>2, AdvanceStep DEF LiveStages
  <2> QED
    BY <1>1, <1>3, <2>3, ReleaseRests
<1>6. CASE r.state = "waiting_pickup" /\ AdvanceCycle(r, [r EXCEPT !.from = r.state], "waiting_prompt")
  <2>1. PICK c : c = [r EXCEPT !.from = r.state]
    OBVIOUS
  <2>2. r = cy => SameBut(c) /\ c.from = r.state
    BY <1>1, <2>1, RowChanges, FromTurns
  <2>3. AdvanceCycle(r, c, "waiting_prompt")
    BY <1>6, <2>1
  <2>4. StoreStep
    BY <1>1, <1>2, <1>6, <2>2, <2>3, AdvanceStep DEF LiveStages
  <2> QED
    BY <1>1, <1>3, <2>4, ReleaseRests
<1>7. CASE r.state = "waiting_prompt" /\ r.from # "waiting_pickup" /\ AdvanceCycle(r, [r EXCEPT !.from = ""], r.from)
  <2>1. PICK c : c = [r EXCEPT !.from = ""]
    OBVIOUS
  <2>2. r = cy => SameBut(c)
    BY <1>1, <2>1, RowChanges
  <2>3. PICK f : f = r.from
    OBVIOUS
  <2>4. AdvanceCycle(r, c, f)
    BY <1>7, <2>1, <2>3
  <2>5. CASE r = cy
    <3>1. f \in {"ready", "reset_verified"}
      BY <1>7, <2>3, <2>5 DEF CycleRowsInv, PromptsKnown
    <3>2. StoreStep
      BY <1>1, <1>2, <1>7, <2>2, <2>4, <3>1, AdvanceStep DEF LiveStages
    <3> QED
      BY <1>1, <1>3, <3>2, ReleaseRests
  <2>6. CASE r # cy
    <3>1. ~CycleFence(r)
      BY <1>1, <1>2, <2>6, FencedIsStored DEF CycleFence
    <3>2. StoreStep
      BY <2>4, <3>1 DEF AdvanceCycle, StoreStep, Kept
    <3> QED
      BY <1>1, <1>3, <3>2, ReleaseRests
  <2> QED
    BY <2>5, <2>6
<1> QED
  BY <1>2, <1>4, <1>5, <1>6, <1>7 DEF ActOnPickup, ActOnPrompt

LEMMA CtlActKeeps ==
    ASSUME CycleRowsInv, CtlAct
    PROVE  RowsKeep
<1>1. /\ CycleShapes /\ WorkForm(work) /\ RowBefore(inp.row, cy) /\ mu = "ctl" /\ UNCHANGED <<kind, ctl, reader, typing>>
  BY DEF CycleRowsInv, CycleShapes, RowsAreEarlier, CtlAct, cycleBounds
<1>2. PICK r : r = inp.row
  OBVIOUS
<1>3. CASE r.state \in {"ready", "reset_verified"} /\ ActOnPane(r)
  BY <1>1, <1>2, <1>3, ActOnPaneKeeps
<1>4. CASE r.state \in {"clear_intent", "clear_received"} /\ ActOnReset(r) /\ UNCHANGED work
  BY <1>1, <1>2, <1>4, ActOnResetKeeps
<1>5. CASE \/ r.state = "waiting_pickup" /\ ActOnPickup(r) /\ UNCHANGED work
           \/ r.state = "waiting_prompt" /\ ActOnPrompt(r) /\ UNCHANGED work
  BY <1>1, <1>2, <1>5, ActOnPickupKeeps
<1>6. CASE /\ \/ UNCHANGED cycleStore \/ EndCycle(r, "cancelled", "reading_stale") \/ EndCycle(r, "failed", "probe")
              \/ EndCycle(r, "uncertain", "unreceipted")
           /\ Release /\ UNCHANGED work
  <2>1. StoreStep
    BY <1>6, EndStep, StoreRests DEF Outcomes
  <2> QED
    BY <1>1, <1>6, <2>1, ReleaseRests
<1>7. CASE r.state = "compact_waiting" /\ Enter(r, "compact_intent", "compact") /\ UNCHANGED work
  <2>1. "compact" \in Inputs /\ StageOfInput("compact") = "compact_intent" /\ "compact_intent" \in LiveStages \ {"prompt_intent"}
    BY DEF Inputs, StageOfInput, LiveStages
  <2>2. r.state \in LiveStages
    BY <1>7 DEF LiveStages
  <2> QED
    BY <1>1, <1>2, <1>7, <2>1, <2>2, EnterKeeps
<1> QED
  BY <1>2, <1>3, <1>4, <1>5, <1>6, <1>7 DEF CtlAct, ActOnCompaction, ActOnIntent

LEMMA AnswerLockKeeps ==
    ASSUME CycleRowsInv, AnswerLock
    PROVE  RowsKeep
<1>1. /\ CycleShapes /\ WorkForm(work) /\ InputForm(inp) /\ RowBefore(reader.row, cy) /\ UNCHANGED <<kind, ctl, work, typing>> /\ mu = "free"
      /\ reader' = NoReader /\ ReaderGoesOn
  BY DEF CycleRowsInv, CycleShapes, RowsAreEarlier, AnswerLock, cycleBounds, ReaderGoesOn
<1>2. CASE UNCHANGED <<cycleStore, mu, inp>>
  BY <1>1, <1>2, StoreRests, BesideLockRests
<1>3. CASE /\ AdvanceCycle(reader.row, reader.row, "prompt_intent")
           /\ IF Advances(reader.row)
              THEN /\ mu' = "ans"
                   /\ inp' = [ph |-> "input", what |-> "answer", res |-> "", row |-> cy']
              ELSE UNCHANGED <<mu, inp>>
  <2>1. PICK r : r = reader.row
    OBVIOUS
  <2>2. CASE r = cy /\ cy.state = "waiting_prompt"
    <3>1. SameBut(r) /\ r.state \in LiveStages /\ r.from \in {"ready", "reset_verified", "waiting_pickup"}
      BY <1>1, <2>2, StoredIsBefore DEF CycleRowsInv, PromptsKnown, LiveStages
    <3>2. StoreStep /\ (Advances(r) => cy'.state = "prompt_intent")
      BY <1>1, <1>3, <2>1, <3>1, AdvanceStep DEF LiveStages
    <3>3. CASE Advances(r)
      <4>1. "answer" \in Inputs /\ StageOfInput("answer") = "prompt_intent"
        BY DEF Inputs, StageOfInput
      <4> QED
        BY <1>1, <1>3, <2>1, <3>2, <3>3, <4>1, InputBegins
    <3>4. CASE ~Advances(r)
      BY <1>1, <1>3, <2>1, <3>2, <3>4, BesideLockRests
    <3> QED
      BY <3>3, <3>4
  <2>3. CASE r # cy
    <3>1. ~CycleFence(r)
      BY <1>1, <2>1, <2>3, FencedIsStored DEF CycleFence
    <3>2. StoreStep
      BY <1>3, <2>1, <3>1 DEF AdvanceCycle, StoreStep, Kept
    <3>3. UNCHANGED <<mu, inp>>
      BY <1>3, <2>1, <3>1 DEF Advances
    <3> QED
      BY <1>1, <3>2, <3>3, BesideLockRests
  <2>4. r = cy => cy.state = "waiting_prompt"
    BY <2>1 DEF CycleRowsInv, AnswersKnown, AnswerLock
  <2> QED
    BY <2>2, <2>3, <2>4
<1> QED
  BY <1>2, <1>3 DEF AnswerLock

LEMMA InputFenceKeeps ==
    ASSUME CycleRowsInv, InputFence
    PROVE  RowsKeep
<1>1. UNCHANGED <<kind, ctl, mu, reader, work, typing>> /\ UNCHANGED cycleStore /\ InputForm(inp) /\ WorkForm(work) /\ inp.ph = "input"
  BY DEF CycleRowsInv, CycleShapes, InputFence, cycleBounds
<1>2. InputForm(inp') /\ inp'.row = inp.row /\ inp'.what = inp.what /\ inp'.ph \in InputPhases
  BY <1>1 DEF InputFence, InputForm, InputPhases
<1>3. InputsKnown' /\ LockHeld'
  BY <1>1, <1>2 DEF CycleRowsInv, InputsKnown, InputPhases, LockHeld
<1> QED
  BY <1>1, <1>2, <1>3, StoreRests, RowsRest, StoreStepKeeps, StoreStepQuiet, SameCycleStep DEF RowsKeep

\* A step of an input or a worker that changes no row.
LEMMA MakingRests ==
    ASSUME CycleRowsInv, UNCHANGED <<kind, cy, enable, ctl, mu, reader, typing>>,
           InputForm(inp'), inp'.row = inp.row, inp'.what = inp.what, (inp'.ph = inp.ph \/ (inp.ph = "key" /\ inp'.ph = "record")),
           WorkForm(work'), work'.row = work.row
    PROVE  RowsKeep
<1>1. StoreKeeps
  <2>1. \A x : RowBefore(x, cy) => RowBefore(x, cy')
    OBVIOUS
  <2>2. StagesKnown' /\ PromptsKnown' /\ EnablesKnown' /\ OutcomeFunded'
    BY DEF CycleRowsInv, StagesKnown, PromptsKnown, EnablesKnown, OutcomeFunded, Unfinished, TerminalPages
  <2> QED
    BY <2>1, <2>2 DEF StoreKeeps, CycleRowsInv, CycleShapes
<1>2. PaneQuiet'
  BY DEF CycleRowsInv, PaneQuiet, Unfinished
<1>3. InputsKnown' /\ LockHeld'
  BY DEF CycleRowsInv, InputsKnown, InputPhases, LockHeld
<1> QED
  BY <1>1, <1>2, <1>3, RowsRest DEF RowsKeep

LEMMA InputKeyKeeps ==
    ASSUME CycleRowsInv, InputKey
    PROVE  RowsKeep
<1>1. UNCHANGED <<kind, cy, enable, ctl, mu, reader, work, typing>> /\ InputForm(inp) /\ WorkForm(work) /\ inp.ph = "key"
  BY DEF CycleRowsInv, CycleShapes, InputKey, cycleBounds
<1>2. InputForm(inp') /\ inp'.row = inp.row /\ inp'.what = inp.what /\ inp'.ph = "record"
  BY <1>1 DEF InputKey, InputForm
<1> QED
  BY <1>1, <1>2, MakingRests

LEMMA WorkerKeeps ==
    ASSUME CycleRowsInv, Worker
    PROVE  RowsKeep
<1>1. UNCHANGED <<kind, cy, enable, ctl, mu, inp, reader, typing>> /\ InputForm(inp) /\ WorkForm(work)
  BY DEF CycleRowsInv, CycleShapes, Worker, WorkerRead, WorkerCreate, WorkerCreating, WorkerSend, WorkerPost, WorkerReceipt,
         cycleStore, cycleBounds
<1>2. WorkForm(work') /\ work'.row = work.row
  BY <1>1 DEF Worker, WorkerRead, WorkerCreate, WorkerCreating, WorkerSend, WorkerPost, WorkerReceipt, WorkForm
<1> QED
  BY <1>1, <1>2, MakingRests

LEMMA WakeStepsKeep ==
    ASSUME CycleRowsInv, WakeStart \/ WakeEnd \/ CycleStop
    PROVE  RowsKeep
<1>1. UNCHANGED <<kind, cy, enable, pending>> /\ WorkForm(work) /\ InputForm(inp) /\ CycleShapes
  BY DEF CycleRowsInv, CycleShapes, WakeStart, WakeEnd, CycleStop, cycleStore, cycleBounds
<1>2. StoreKeeps
  BY <1>1, StoreStepKeeps DEF StoreStep, Kept
<1>3. InputForm(NoInput) /\ NoInput.ph = "none" /\ NoInput.row = NoCycle /\ NoReader.row = NoCycle
  BY DEF NoInput, InputForm, NoReader
<1>4. CASE WakeStart
  <2>1. UNCHANGED <<ctl, inp, reader, work>> /\ mu = "free" /\ mu' = "wake" /\ ~CycleHoldsPane(cy.state)
    BY <1>4 DEF WakeStart
  <2>2. InputsKnown' /\ LockHeld'
    BY <2>1 DEF CycleRowsInv, InputsKnown, LockHeld
  <2>3. ~CycleHoldsPane(cy.state) /\ Unfinished => cy.state \in {"waiting_ready", "compact_waiting"}
    BY DEF CycleRowsInv, StagesKnown, CycleHoldsPane, Unfinished, CycleTerminal, LiveStages, Outcomes
  <2>4. PaneQuiet'
    BY <1>1, <2>1, <2>3 DEF PaneQuiet, Unfinished
  <2> QED
    BY <1>1, <1>2, <2>1, <2>2, <2>4, RowsRest DEF RowsKeep
<1>5. CASE WakeEnd
  <2>1. UNCHANGED <<ctl, inp, reader, work>> /\ mu = "wake" /\ mu' = "free" /\ typing' = FALSE
    BY <1>5 DEF WakeEnd
  <2>2. InputsKnown' /\ LockHeld' /\ PaneQuiet'
    BY <2>1 DEF CycleRowsInv, InputsKnown, LockHeld, PaneQuiet
  <2> QED
    BY <1>1, <1>2, <2>1, <2>2, RowsRest DEF RowsKeep
<1>6. CASE CycleStop
  <2>1. ctl' = NoCycle /\ reader' = NoReader /\ inp' = NoInput /\ work' = NoWork /\ typing' = FALSE /\ mu' = "free"
    BY <1>6 DEF CycleStop
  <2>2. InputsKnown' /\ LockHeld' /\ PaneQuiet'
    BY <1>3, <2>1 DEF InputsKnown, InputPhases, LockHeld, PaneQuiet
  <2> QED
    BY <1>1, <1>2, <1>3, <2>1, <2>2, NoWorkIsIdle, RowsRest DEF RowsKeep, ReaderGoesOn
<1> QED
  BY <1>4, <1>5, <1>6

\* The record of an input, for each input.
LEMMA RecordCases ==
    ASSUME InputRecord, inp.what \in Inputs, NEW r, r = inp.row
    PROVE  \/ inp.res = "error" /\ EndCycle(r, "uncertain", "unreceived")
           \/ inp.res = "unsent" /\ inp.what = "select" /\ AdvanceCycle(r, [r EXCEPT !.selected = FALSE], "ready")
           \/ inp.res = "unsent" /\ inp.what = "compact" /\ AdvanceCycle(r, r, "compact_waiting")
           \/ inp.res = "unsent" /\ inp.what = "answer" /\ AdvanceCycle(r, r, "waiting_prompt")
           \/ inp.res = "unsent" /\ inp.what \in {"clear", "create", "pickup"} /\ AdvanceCycle(r, r, "ready")
           \/ inp.res \notin {"error", "unsent"} /\
                \/ inp.what = "select" /\ UNCHANGED cycleStore
                \/ inp.what = "clear" /\ AdvanceCycle(r, r, "clear_received")
                \/ /\ inp.what = "create"
                   /\ AdvanceCycle(r, [r EXCEPT !.succ = IF r.succ # 0 THEN r.succ ELSE created, !.selected = FALSE], "clear_received")
                \/ inp.what = "pickup" /\ AdvanceCycle(r, r, "waiting_pickup")
                \/ inp.what = "compact" /\ AdvanceCycle(r, r, "compact_sent")
                \/ inp.what = "answer" /\ r.from = "waiting_pickup" /\ AdvanceCycle(r, r, "waiting_prompt")
                \/ inp.what = "answer" /\ r.from # "waiting_pickup" /\ AdvanceCycle(r, [r EXCEPT !.from = ""], r.from)
<1>1. CASE inp.res = "unsent"
  <2>1. CASE inp.what = "select"
    BY <1>1, <2>1 DEF InputRecord
  <2>2. CASE inp.what = "compact"
    BY <1>1, <2>2 DEF InputRecord
  <2>3. CASE inp.what = "answer"
    BY <1>1, <2>3 DEF InputRecord
  <2>4. CASE inp.what \in {"clear", "create", "pickup"}
    BY <1>1, <2>4 DEF InputRecord
  <2> QED
    BY <2>1, <2>2, <2>3, <2>4 DEF Inputs
<1>2. CASE inp.res = "error"
  BY <1>2 DEF InputRecord
<1>3. CASE inp.res \notin {"error", "unsent"}
  <2>1. CASE inp.what = "select"
    BY <1>3, <2>1 DEF InputRecord
  <2>2. CASE inp.what = "clear"
    BY <1>3, <2>2 DEF InputRecord
  <2>3. CASE inp.what = "create"
    BY <1>3, <2>3 DEF InputRecord
  <2>4. CASE inp.what = "pickup"
    BY <1>3, <2>4 DEF InputRecord
  <2>5. CASE inp.what = "compact"
    BY <1>3, <2>5 DEF InputRecord
  <2>6. CASE inp.what = "answer" /\ r.from = "waiting_pickup"
    BY <1>3, <2>6 DEF InputRecord
  <2>7. CASE inp.what = "answer" /\ r.from # "waiting_pickup"
    BY <1>3, <2>7 DEF InputRecord
  <2> QED
    BY <2>1, <2>2, <2>3, <2>4, <2>5, <2>6, <2>7 DEF Inputs
<1> QED
  BY <1>1, <1>2, <1>3

\* A stale row changes nothing.
LEMMA StaleStep ==
    ASSUME CycleRowsInv, NEW r, RowBefore(r, cy), r # cy, NEW c, NEW to, AdvanceCycle(r, c, to)
    PROVE  Kept /\ ~Advances(r)
<1>1. ~CycleFence(r)
  BY FencedIsStored DEF CycleFence, CycleRowsInv
<1> QED
  BY <1>1 DEF AdvanceCycle, Kept, Advances

LEMMA InputRecordKeeps ==
    ASSUME CycleRowsInv, InputRecord
    PROVE  RowsKeep
<1>1. /\ CycleShapes /\ WorkForm(work) /\ RowBefore(inp.row, cy) /\ UNCHANGED <<kind, ctl, reader, work, typing>>
      /\ Release /\ inp.ph = "record"
  BY DEF CycleRowsInv, CycleShapes, RowsAreEarlier, InputRecord, cycleBounds
<1>2. mu \in {"ctl", "ans"} /\ inp.what \in Inputs /\ inp.row.state = StageOfInput(inp.what)
  BY <1>1 DEF CycleRowsInv, LockHeld, InputsKnown, InputPhases
<1>3. inp.row.state \in LiveStages
  BY <1>2 DEF StageOfInput, Inputs, LiveStages
<1>4. PICK r : r = inp.row
  OBVIOUS
<1>5. PICK c1, c2, c3, n : /\ c1 = [r EXCEPT !.selected = FALSE] /\ c2 = [r EXCEPT !.from = ""]
                           /\ n = (IF r.succ # 0 THEN r.succ ELSE created)
                           /\ c3 = [r EXCEPT !.succ = IF r.succ # 0 THEN r.succ ELSE created, !.selected = FALSE]
  OBVIOUS
<1>6. c3 = [r EXCEPT !.succ = n, !.selected = FALSE]
  BY <1>5
<1>7. r = cy => SameBut(c1) /\ SameBut(c2) /\ SameBut(c3) /\ SameBut(r)
  <2>1. r = cy => SameBut(c1)
    BY <1>1, <1>5, RowChanges
  <2>2. r = cy => SameBut(c2)
    BY <1>1, <1>5, RowChanges
  <2>3. r = cy => SameBut(c3)
    BY <1>1, <1>6, RowChanges
  <2> QED
    BY <1>1, <2>1, <2>2, <2>3, StoredIsBefore
<1>8. r = cy /\ inp.what = "answer" => r.from \in {"ready", "reset_verified", "waiting_pickup"}
  BY <1>2, <1>4 DEF CycleRowsInv, PromptsKnown, StageOfInput
<1>9. \/ EndCycle(r, "uncertain", "unreceived") \/ UNCHANGED cycleStore
      \/ \E to \in {"ready", "compact_waiting", "clear_received", "waiting_pickup", "compact_sent"} : AdvanceCycle(r, r, to)
      \/ inp.what = "answer" /\ AdvanceCycle(r, r, "waiting_prompt")
      \/ AdvanceCycle(r, c1, "ready") \/ AdvanceCycle(r, c3, "clear_received")
      \/ inp.what = "answer" /\ r.from # "waiting_pickup" /\ AdvanceCycle(r, c2, r.from)
  BY <1>2, <1>4, <1>5, RecordCases
<1>10. StoreStep
  <2>1. CASE EndCycle(r, "uncertain", "unreceived") \/ UNCHANGED cycleStore
    BY <2>1, EndStep, StoreRests DEF Outcomes
  <2>2. ASSUME NEW to \in {"ready", "compact_waiting", "clear_received", "waiting_pickup", "compact_sent"}, AdvanceCycle(r, r, to)
        PROVE  StoreStep
    BY <1>1, <1>2, <1>3, <1>4, <1>7, <2>2, AdvanceStep DEF LiveStages
  <2>3. CASE inp.what = "answer" /\ AdvanceCycle(r, r, "waiting_prompt")
    BY <1>1, <1>2, <1>3, <1>4, <1>7, <1>8, <2>3, AdvanceStep DEF LiveStages
  <2>4. CASE AdvanceCycle(r, c1, "ready")
    BY <1>1, <1>2, <1>3, <1>4, <1>7, <2>4, AdvanceStep DEF LiveStages
  <2>5. CASE AdvanceCycle(r, c3, "clear_received")
    BY <1>1, <1>2, <1>3, <1>4, <1>7, <2>5, AdvanceStep DEF LiveStages
  <2>6. CASE inp.what = "answer" /\ r.from # "waiting_pickup" /\ AdvanceCycle(r, c2, r.from)
    <3>1. PICK f : f = r.from
      OBVIOUS
    <3>2. CASE r = cy
      <4>1. f \in {"ready", "reset_verified"}
        BY <1>8, <2>6, <3>1, <3>2
      <4> QED
        BY <1>1, <1>2, <1>3, <1>4, <1>7, <2>6, <3>1, <4>1, AdvanceStep DEF LiveStages
    <3>3. CASE r # cy
      BY <1>1, <1>4, <2>6, <3>3, StaleStep DEF StoreStep
    <3> QED
      BY <3>2, <3>3
  <2> QED
    BY <1>9, <2>1, <2>2, <2>3, <2>4, <2>5, <2>6
<1> QED
  BY <1>1, <1>2, <1>10, ReleaseRests

LEMMA CycleStepRows == CycleRowsInv /\ [CycleNext]_cycleVars => CycleRowsInv' /\ (Admit \/ cy'.id = cy.id)
<1> SUFFICES ASSUME CycleRowsInv, [CycleNext]_cycleVars
             PROVE  Admit \/ RowsKeep
  BY AdmitKeeps DEF RowsKeep
<1>1. CASE UNCHANGED cycleVars
  <2>1. UNCHANGED <<kind, cy, enable, ctl, mu, inp, reader, work, typing>>
    BY <1>1 DEF cycleVars, cycleStore, cycleBounds
  <2> QED
    BY <2>1, MakingRests DEF CycleRowsInv, CycleShapes
<1>2. CASE Admit
  BY <1>2
<1>3. CASE \/ ObserveRead \/ ObserveEnd \/ PickupRead \/ PickupRefused \/ AnswerRead
           \/ \E retained \in BOOLEAN : PickupWrite(retained)
  BY <1>3, ReaderStepsKeep
<1>4. CASE NoteInboxRead \/ \E on \in BOOLEAN : SetContextEnable(on)
  BY <1>4, EnableStepsKeep
<1>5. CASE \/ FenceCycles \/ ContextCycleReady \/ ReadingBelow \/ CtlRead \/ Stray
           \/ \E d \in {"stage", "ask", "prompt", "cycle"} : CycleElapse(d)
  BY <1>5, SessionStepsKeep
<1>6. CASE CtlStep \/ CtlAct \/ AnswerLock
  BY <1>6, CtlStepKeeps, CtlActKeeps, AnswerLockKeeps
<1>7. CASE Input \/ Worker
  BY <1>7, InputFenceKeeps, InputKeyKeeps, InputRecordKeeps, WorkerKeeps DEF Input
<1>8. CASE WakeStart \/ WakeEnd \/ CycleStop
  BY <1>8, WakeStepsKeep
<1> QED
  BY <1>1, <1>2, <1>3, <1>4, <1>5, <1>6, <1>7, <1>8 DEF CycleNext

LEMMA CycleRowsHold == CycleSpec => []CycleRowsInv
BY CycleInitRows, CycleStepRows, PTL DEF CycleSpec

\* From the ready report, or the intent of a compaction, to the end of a cycle no wake
\* notice is entered in the session's pane, however wakes, reports, controller steps and
\* stops interleave (wake.mu, cycleHoldsPane, ContextCycleReady).
THEOREM PaneQuietThm == CycleSpec => []PaneQuiet
<1>1. CycleRowsInv => PaneQuiet
  BY DEF CycleRowsInv
<1> QED
  BY <1>1, CycleRowsHold, PTL

\* A ready timeout that kept the Enable is tried again on the same epoch only after the
\* session read its inbox (context_cycle_retry.go).
THEOREM RetryAfterReadThm == CycleSpec => RetryAfterRead
<1> DEFINE A == (cy'.id # cy.id /\ kind # "compact" /\ cy.state = "failed"
                    /\ cy'.epoch = cy.epoch /\ cy'.enRev = cy.enRev) => enable.read
<1>1. CycleRowsInv /\ CycleRowsInv' /\ [CycleNext]_cycleVars => [A]_cycleVars
  <2> SUFFICES ASSUME CycleRowsInv, CycleNext, cy'.id # cy.id, kind # "compact", cy.state = "failed",
                      cy'.epoch = cy.epoch, cy'.enRev = cy.enRev
               PROVE  enable.read
    OBVIOUS
  <2>1. Admit
    BY CycleStepRows
  <2>2. cy'.epoch = shown /\ cy'.enRev = enable.rev /\ ~AwaitingRead
    BY <2>1 DEF Admit, NoCycle, SelectContextTrigger
  <2>3. enable.kept = cy.epoch
    BY <2>2 DEF CycleRowsInv, EnablesKnown
  <2> QED
    BY <2>2, <2>3 DEF AwaitingRead
<1> QED
  BY <1>1, CycleRowsHold, PTL DEF CycleSpec, RetryAfterRead

-----------------------------------------------------------------------------
(* What the inputs of a cycle have done *)

\* The stage of a row, under the dialog that interrupts it.
AtStage(c, s) == c.state = s \/ (c.state \in {"waiting_prompt", "prompt_intent"} /\ c.from = s)
BeforeClear(c) == c.state = "waiting_ready" \/ AtStage(c, "ready")

\* The stages that each kind of cycle has, and what their rows say.
StageKinds ==
    /\ kind = "compact" => cy.state \notin LiveStages \ {"compact_waiting", "compact_intent", "compact_sent"}
    /\ kind # "compact" => cy.state \notin {"compact_waiting", "compact_intent", "compact_sent"}
    /\ kind = "hostless" => cy.state \notin {"waiting_prompt", "prompt_intent"}
    /\ Unfinished /\ ~AwaitingPickup(cy) => ~cy.displayed
    /\ kind = "session" /\ cy.state = "clear_received" => cy.succ # 0

\* The input i may have been made without a record of its effect in the row c.
Unproven(i, c) ==
    \/ i = "clear" /\ kind = "pane" /\ c.state \in {"clear_intent", "clear_received"}
    \/ i = "create" /\ c.state = "clear_intent" /\ (kind = "hostless" \/ (kind = "session" /\ c.succ = 0))
    \/ i = "select" /\ kind = "session" /\ c.state = "clear_received"
    \/ i = "pickup" /\ (c.state = "pickup_intent" \/ (kind = "session" /\ AwaitingPickup(c) /\ ~c.displayed))
    \/ i = "compact" /\ c.state = "compact_intent"
    \/ i = "answer" /\ c.state = "prompt_intent"

MadeKnown ==
    /\ made \in [Inputs -> 0 .. 2] /\ newest \in Nat
    /\ \A i \in pending : i \in Inputs /\ made[i] # 0

PendingKnown == Unfinished => \A i \in pending : Unproven(i, cy)

\* The inputs that come after the row's stage are not made.
NotYetMade ==
    /\ BeforeClear(cy) =>
          /\ made["select"] = 0 /\ made["pickup"] = 0
          /\ kind = "pane" => made["clear"] = 0
          /\ kind = "session" /\ cy.succ = 0 => made["create"] = 0
          /\ kind = "hostless" => created = 0
    /\ cy.state = "clear_intent" => made["select"] = 0 /\ made["pickup"] = 0
    /\ cy.state = "clear_received" => made["pickup"] = 0 /\ (~cy.selected => made["select"] = 0)
    /\ AtStage(cy, "reset_verified") => made["pickup"] = 0
    /\ cy.state = "compact_waiting" => made["compact"] = 0

\* A row that is worked on is the stored one, or one that ended without a claim about
\* its inputs.
UnderWay(x, c) == x.id = c.id => x = c \/ c.state \in {"uncertain", "complete"}

\* The input that is under way is the row's own and, until it is made, was not made before.
InputUnderWay ==
    inp.ph \in InputPhases =>
        /\ UnderWay(inp.row, cy)
        /\ kind # "hostless"
        /\ inp.what = "clear" => kind = "pane"
        /\ inp.what \in {"create", "select"} => kind = "session"
        /\ inp.what = "pickup" => kind = "pane" /\ inp.res # "unsent"
        /\ inp.what = "select" => inp.row.selected
        /\ /\ inp.row.id = cy.id /\ inp.what # "answer"
           /\ inp.ph # "record" \/ inp.res = "unsent"
           /\ ~(inp.what = "create" /\ inp.row.succ # 0)
           => made[inp.what] = 0
        /\ /\ inp.row.id = cy.id /\ inp.what = "create" /\ inp.row.succ = 0
           /\ inp.ph = "record" /\ inp.res \notin {"error", "unsent"}
           => created # 0

\* What the controller looks at under the lock is not a worker's stage.
ActKnown ==
    kind = "hostless" /\ inp.ph = "act" => inp.row.state \notin HostlessStages \cup {"pickup_intent"}

\* The same for the pickup that a worker sends, and the session that it creates.
SendUnderWay ==
    work.run \in {"send", "post"} =>
        /\ kind \in {"session", "hostless"} /\ work.row.state = "pickup_intent"
        /\ UnderWay(work.row, cy) /\ work.out \in {"none", "missing"}
        /\ work.row.id = cy.id => made["pickup"] = 0

CreateUnderWay ==
    /\ work.run \in {"create", "creating"} => kind = "hostless" /\ work.row.state = "clear_intent"
    /\ work.run = "creating" => UnderWay(work.row, cy) /\ (work.row.id = cy.id => created = 0)
    /\ kind = "hostless" /\ work.run = "none" /\ work.out = "unsent" /\ work.row.id = cy.id => created = 0
    /\ kind = "hostless" /\ created = 0 => made["create"] = 0

ReceiptKnown == work.out = "received" => made["pickup"] # 0

CycleInputsInv ==
    /\ StageKinds /\ MadeKnown /\ PendingKnown /\ NotYetMade
    /\ InputUnderWay /\ ActKnown /\ SendUnderWay /\ CreateUnderWay /\ ReceiptKnown
    /\ EndsHonestly /\ InputMadeOnce

-----------------------------------------------------------------------------
(* What a step does to the stages *)

SameFields(c) ==
    c.from = cy.from /\ c.succ = cy.succ /\ c.displayed = cy.displayed /\ c.selected = cy.selected

\* The moves of a row from stage to stage, each with what the row records.
RequestMove(c, to) ==
    \/ cy.state = "waiting_ready" /\ to = "ready" /\ SameFields(c)
    \/ cy.state = "ready" /\ to = "waiting_ready" /\ SameFields(c)
    \/ cy.state = "ready" /\ to = "clear_intent" /\ SameFields(c)

DialogMove(c, to) ==
    /\ kind # "hostless" /\ c.succ = cy.succ /\ c.displayed = cy.displayed /\ c.selected = cy.selected
    /\ \/ cy.state \in {"ready", "reset_verified", "waiting_pickup"} /\ to = "waiting_prompt" /\ c.from = cy.state
       \/ cy.state = "waiting_prompt" /\ to = "prompt_intent" /\ c.from = cy.from
       \/ cy.state = "prompt_intent" /\ to = "waiting_prompt" /\ c.from = cy.from
       \/ cy.state \in {"waiting_prompt", "prompt_intent"} /\ cy.from # "waiting_pickup" /\ to = cy.from /\ c.from = ""

\* The clear was not made; the select was not.
BackMove(c, to) ==
    /\ to = "ready" /\ c.from = cy.from /\ c.succ = cy.succ /\ c.displayed = cy.displayed
    /\ \/ cy.state = "clear_intent" /\ made["clear"] = 0 /\ kind = "pane"
       \/ cy.state = "clear_intent" /\ (cy.succ = 0 => made["create"] = 0) /\ kind = "session"
       \/ cy.state = "clear_intent" /\ created = 0 /\ kind = "hostless"
       \/ cy.state = "clear_received" /\ made["select"] = 0 /\ kind = "session"

ClearMove(c, to) ==
    /\ c.from = cy.from /\ c.displayed = cy.displayed
    /\ \/ cy.state = "clear_intent" /\ to = "clear_received" /\ (kind = "session" => c.succ # 0)
       \/ cy.state = "clear_received" /\ to = "clear_received" /\ c.selected /\ c.succ = cy.succ
       \/ cy.state \in {"clear_intent", "clear_received"} /\ to = "reset_verified"

PickupMove(c, to) ==
    /\ c.from = cy.from
    /\ \/ cy.state = "reset_verified" /\ to = "pickup_intent" /\ SameFields(c)
       \/ cy.state = "pickup_intent" /\ to = "waiting_pickup" /\ SameFields(c)
       \/ cy.state = "waiting_pickup" /\ to = "waiting_pickup" /\ kind = "session" /\ c.displayed

CompactMove(c, to) ==
    /\ SameFields(c)
    /\ \/ cy.state = "compact_waiting" /\ to = "compact_intent"
       \/ cy.state = "compact_intent" /\ to = "compact_sent"
       \/ cy.state = "compact_intent" /\ to = "compact_waiting" /\ made["compact"] = 0

StageMove(c, to) ==
    \/ RequestMove(c, to) \/ DialogMove(c, to) \/ BackMove(c, to) \/ ClearMove(c, to) \/ PickupMove(c, to)
    \/ CompactMove(c, to)

StagesKept == StageKinds' /\ PendingKnown' /\ NotYetMade'

LEMMA RequestMoveKeeps ==
    ASSUME CycleRowsInv, CycleInputsInv, UNCHANGED <<kind, made, created>>, NEW c, NEW to, Advanced(c, to), RequestMove(c, to)
    PROVE  StagesKept
<1>1. /\ cy'.state = to /\ cy'.from = c.from /\ cy'.succ = c.succ /\ cy'.displayed = c.displayed /\ cy'.selected = c.selected
      /\ Unfinished /\ pending' = pending \ ProvenInput(cy.state, to)
  BY DEF Advanced
<1>2. StageKinds'
  BY <1>1 DEF CycleInputsInv, StageKinds, RequestMove, SameFields, AwaitingPickup, LiveStages
<1>3. pending = {}
  BY <1>1 DEF CycleInputsInv, PendingKnown, Unproven, RequestMove, AwaitingPickup
<1>4. PendingKnown'
  BY <1>1, <1>3 DEF PendingKnown
<1>5. NotYetMade'
  BY <1>1 DEF CycleInputsInv, NotYetMade, RequestMove, SameFields, BeforeClear, AtStage
<1> QED
  BY <1>2, <1>4, <1>5 DEF StagesKept

LEMMA DialogMoveKeeps ==
    ASSUME CycleRowsInv, CycleInputsInv, UNCHANGED <<kind, made, created>>, NEW c, NEW to, Advanced(c, to), DialogMove(c, to)
    PROVE  StagesKept
<1>1. /\ cy'.state = to /\ cy'.from = c.from /\ cy'.succ = c.succ /\ cy'.displayed = c.displayed /\ cy'.selected = c.selected
      /\ Unfinished /\ pending' = pending \ ProvenInput(cy.state, to) /\ PromptsKnown
  BY DEF Advanced, CycleRowsInv
<1>2. StageKinds'
  BY <1>1 DEF CycleInputsInv, StageKinds, DialogMove, AwaitingPickup, LiveStages, PromptsKnown
<1>3. PendingKnown'
  <2>1. SUFFICES ASSUME NEW i \in pending' PROVE Unproven(i, cy)'
    BY DEF PendingKnown
  <2>2. Unproven(i, cy) /\ (cy.state = "prompt_intent" => i # "answer")
    BY <1>1, <2>1 DEF CycleInputsInv, PendingKnown, ProvenInput
  <2> QED
    BY <1>1, <2>2 DEF Unproven, DialogMove, AwaitingPickup, PromptsKnown
<1>4. NotYetMade'
  BY <1>1 DEF CycleInputsInv, NotYetMade, DialogMove, BeforeClear, AtStage, PromptsKnown
<1> QED
  BY <1>2, <1>3, <1>4 DEF StagesKept

LEMMA BackMoveKeeps ==
    ASSUME CycleRowsInv, CycleInputsInv, UNCHANGED <<kind, made, created>>, NEW c, NEW to, Advanced(c, to), BackMove(c, to)
    PROVE  StagesKept
<1>1. /\ cy'.state = "ready" /\ cy'.from = c.from /\ cy'.succ = c.succ /\ cy'.displayed = c.displayed /\ cy'.selected = c.selected
      /\ Unfinished /\ pending' \subseteq pending
  BY DEF Advanced, BackMove
<1>2. StageKinds'
  BY <1>1 DEF CycleInputsInv, StageKinds, BackMove, AwaitingPickup, LiveStages
<1>3. ASSUME NEW i \in pending PROVE FALSE
  <2>1. Unproven(i, cy) /\ made[i] # 0
    BY <1>1, <1>3 DEF CycleInputsInv, PendingKnown, MadeKnown
  <2>2. kind = "hostless" /\ created = 0 => made["create"] = 0
    BY DEF CycleInputsInv, CreateUnderWay
  <2> QED
    BY <2>1, <2>2 DEF BackMove, Unproven, AwaitingPickup
<1>4. PendingKnown'
  BY <1>1, <1>3 DEF PendingKnown
<1>5. NotYetMade'
  <2>1. made["select"] = 0 /\ made["pickup"] = 0 /\ (kind = "pane" => made["clear"] = 0) /\ (kind = "hostless" => created = 0)
    BY DEF CycleInputsInv, NotYetMade, BackMove
  <2>2. kind = "session" /\ cy.succ = 0 => made["create"] = 0
    BY DEF CycleInputsInv, StageKinds, BackMove
  <2> QED
    BY <1>1, <2>1, <2>2 DEF NotYetMade, BackMove, BeforeClear, AtStage
<1> QED
  BY <1>2, <1>4, <1>5 DEF StagesKept

LEMMA ClearMoveKeeps ==
    ASSUME CycleRowsInv, CycleInputsInv, UNCHANGED <<kind, made, created>>, NEW c, NEW to, Advanced(c, to), ClearMove(c, to)
    PROVE  StagesKept
<1>1. /\ cy'.state = to /\ cy'.from = c.from /\ cy'.succ = c.succ /\ cy'.displayed = c.displayed /\ cy'.selected = c.selected
      /\ Unfinished /\ pending' = pending \ ProvenInput(cy.state, to) /\ kind \in {"pane", "session", "hostless", "compact"}
  BY CycleAssumption DEF Advanced, CycleRowsInv, CycleShapes, CycleAssumption
<1>2. StageKinds'
  BY <1>1 DEF CycleInputsInv, StageKinds, ClearMove, AwaitingPickup, LiveStages
<1>3. PendingKnown'
  <2>1. SUFFICES ASSUME NEW i \in pending' PROVE Unproven(i, cy)'
    BY DEF PendingKnown
  <2>2. Unproven(i, cy) /\ i \notin ProvenInput(cy.state, to)
    BY <1>1, <2>1 DEF CycleInputsInv, PendingKnown
  <2>3. CASE to = "reset_verified"
    <3>1. i \notin {"clear", "create", "select"}
      BY <2>2, <2>3 DEF ProvenInput
    <3> QED
      BY <2>2, <2>3, <3>1 DEF Unproven, ClearMove, AwaitingPickup
  <2>4. CASE cy.state = "clear_intent" /\ to = "clear_received"
    <3>1. kind # "pane" => i # "create"
      BY <2>2, <2>4 DEF ProvenInput
    <3> QED
      BY <1>1, <2>2, <2>4, <3>1 DEF Unproven, AwaitingPickup
  <2>5. CASE cy.state = "clear_received" /\ to = "clear_received"
    BY <1>1, <2>2, <2>5 DEF Unproven, AwaitingPickup
  <2> QED
    BY <2>3, <2>4, <2>5 DEF ClearMove
<1>4. NotYetMade'
  BY <1>1 DEF CycleInputsInv, NotYetMade, ClearMove, BeforeClear, AtStage
<1> QED
  BY <1>2, <1>3, <1>4 DEF StagesKept

LEMMA PickupMoveKeeps ==
    ASSUME CycleRowsInv, CycleInputsInv, UNCHANGED <<kind, made, created>>, NEW c, NEW to, Advanced(c, to), PickupMove(c, to)
    PROVE  StagesKept
<1>1. /\ cy'.state = to /\ cy'.from = c.from /\ cy'.succ = c.succ /\ cy'.displayed = c.displayed /\ cy'.selected = c.selected
      /\ Unfinished /\ pending' = pending \ ProvenInput(cy.state, to) /\ kind \in {"pane", "session", "hostless", "compact"}
  BY CycleAssumption DEF Advanced, CycleRowsInv, CycleShapes, CycleAssumption
<1>2. StageKinds'
  BY <1>1 DEF CycleInputsInv, StageKinds, PickupMove, SameFields, AwaitingPickup, LiveStages
<1>3. PendingKnown'
  <2>1. SUFFICES ASSUME NEW i \in pending' PROVE Unproven(i, cy)'
    BY DEF PendingKnown
  <2>2. Unproven(i, cy) /\ i \notin ProvenInput(cy.state, to)
    BY <1>1, <2>1 DEF CycleInputsInv, PendingKnown
  <2>3. CASE cy.state = "reset_verified" /\ to = "pickup_intent"
    BY <2>2, <2>3 DEF Unproven, AwaitingPickup
  <2>4. CASE cy.state = "pickup_intent" /\ to = "waiting_pickup" /\ SameFields(c)
    <3>1. kind # "session" => i # "pickup"
      BY <2>2, <2>4 DEF ProvenInput
    <3>2. i = "pickup"
      BY <2>2, <2>4 DEF Unproven, AwaitingPickup
    <3>3. ~cy.displayed
      BY <1>1, <2>4 DEF CycleInputsInv, StageKinds, AwaitingPickup
    <3> QED
      BY <1>1, <2>4, <3>1, <3>2, <3>3 DEF Unproven, AwaitingPickup, SameFields
  <2>5. CASE cy.state = "waiting_pickup" /\ to = "waiting_pickup"
    <3>1. i # "pickup"
      BY <2>2, <2>5 DEF ProvenInput
    <3> QED
      BY <2>2, <2>5, <3>1 DEF Unproven
  <2> QED
    BY <2>3, <2>4, <2>5 DEF PickupMove
<1>4. NotYetMade'
  BY <1>1 DEF CycleInputsInv, NotYetMade, PickupMove, BeforeClear, AtStage
<1> QED
  BY <1>2, <1>3, <1>4 DEF StagesKept

LEMMA CompactMoveKeeps ==
    ASSUME CycleRowsInv, CycleInputsInv, UNCHANGED <<kind, made, created>>, NEW c, NEW to, Advanced(c, to), CompactMove(c, to)
    PROVE  StagesKept
<1>1. /\ cy'.state = to /\ cy'.from = c.from /\ cy'.succ = c.succ /\ cy'.displayed = c.displayed /\ cy'.selected = c.selected
      /\ Unfinished /\ pending' = pending \ ProvenInput(cy.state, to)
  BY DEF Advanced
<1>2. StageKinds'
  BY <1>1 DEF CycleInputsInv, StageKinds, CompactMove, SameFields, AwaitingPickup, LiveStages
<1>3. PendingKnown'
  <2>1. SUFFICES ASSUME NEW i \in pending' PROVE Unproven(i, cy)'
    BY DEF PendingKnown
  <2>2. Unproven(i, cy) /\ i \notin ProvenInput(cy.state, to) /\ made[i] # 0
    BY <1>1, <2>1 DEF CycleInputsInv, PendingKnown, MadeKnown
  <2>3. cy.state = "compact_intent" /\ i = "compact"
    BY <2>2 DEF Unproven, AwaitingPickup, CompactMove
  <2>4. to # "compact_sent"
    BY <2>2, <2>3 DEF ProvenInput
  <2> QED
    BY <2>2, <2>3, <2>4 DEF CompactMove
<1>4. NotYetMade'
  BY <1>1 DEF CycleInputsInv, NotYetMade, CompactMove, BeforeClear, AtStage
<1> QED
  BY <1>2, <1>3, <1>4 DEF StagesKept

\* An input without a record of its effect makes an outcome uncertain.
LEMMA UnprovenIsUncertain ==
    ASSUME CycleRowsInv, NEW i, Unproven(i, cy)
    PROVE  CycleUnproven(cy)
BY DEF Unproven, CycleUnproven, CycleInputUnproven, CycleIntent

LEMMA EndedInputs ==
    ASSUME CycleRowsInv, CycleInputsInv, UNCHANGED <<kind, made, created>>, Ended
    PROVE  StagesKept /\ EndsHonestly'
<1>1. cy'.state \in Outcomes /\ Unfinished /\ pending' = pending
  BY DEF Ended
<1>2. StageKinds' /\ PendingKnown' /\ NotYetMade'
  BY <1>1 DEF StageKinds, PendingKnown, NotYetMade, BeforeClear, AtStage, Outcomes, LiveStages, Unfinished, CycleTerminal
<1>3. EndsHonestly'
  <2>1. SUFFICES ASSUME cy'.state \in {"failed", "cancelled"}, NEW i \in pending PROVE FALSE
    BY <1>1 DEF EndsHonestly
  <2>2. Unproven(i, cy)
    BY <1>1, <2>1 DEF CycleInputsInv, PendingKnown
  <2> QED
    BY <2>1, <2>2, UnprovenIsUncertain DEF Ended
<1> QED
  BY <1>2, <1>3 DEF StagesKept

\* The row stays, ends, or moves to another stage.
RowStays == cy' = cy /\ pending' = pending
InputsStep == RowStays \/ Ended \/ \E c, to : Advanced(c, to) /\ to \in LiveStages /\ StageMove(c, to)

LEMMA InputsStepKeeps ==
    ASSUME CycleRowsInv, CycleInputsInv, UNCHANGED <<kind, made, created, newest>>, InputsStep
    PROVE  StagesKept /\ MadeKnown' /\ EndsHonestly' /\ InputMadeOnce'
<1>1. InputMadeOnce'
  BY DEF CycleInputsInv, InputMadeOnce
<1>2. CASE RowStays
  <2>1. StagesKept
    BY <1>2 DEF RowStays, CycleInputsInv, StagesKept, StageKinds, PendingKnown, NotYetMade, BeforeClear, AtStage, Unfinished,
                Unproven, AwaitingPickup
  <2>2. MadeKnown' /\ EndsHonestly'
    BY <1>2 DEF RowStays, CycleInputsInv, MadeKnown, EndsHonestly
  <2> QED
    BY <1>1, <2>1, <2>2
<1>3. CASE Ended
  <2>1. MadeKnown'
    BY <1>3 DEF Ended, CycleInputsInv, MadeKnown
  <2> QED
    BY <1>1, <1>3, <2>1, EndedInputs
<1>4. ASSUME NEW c, NEW to \in LiveStages, Advanced(c, to), StageMove(c, to)
      PROVE  StagesKept /\ MadeKnown' /\ EndsHonestly'
  <2>1. StagesKept
    BY <1>4, RequestMoveKeeps, DialogMoveKeeps, BackMoveKeeps, ClearMoveKeeps, PickupMoveKeeps, CompactMoveKeeps DEF StageMove
  <2>2. MadeKnown'
    BY <1>4 DEF Advanced, CycleInputsInv, MadeKnown
  <2>3. EndsHonestly'
    BY <1>4 DEF Advanced, EndsHonestly, LiveStages
  <2> QED
    BY <2>1, <2>2, <2>3
<1> QED
  BY <1>1, <1>2, <1>3, <1>4 DEF InputsStep

\* A row that is worked on at a stage whose input is unproven stays under way.
LEMMA UnderWayRests ==
    ASSUME CycleRowsInv, NEW x, UnderWay(x, cy), x = cy => CycleInputUnproven(cy.state),
           RowStays \/ Ended
    PROVE  UnderWay(x, cy')
<1>1. CASE RowStays
  BY <1>1 DEF RowStays
<1>2. CASE Ended
  <2>1. Unfinished /\ cy'.id = cy.id /\ cy'.state \in Outcomes
        /\ (cy'.state # "complete" /\ CycleUnproven(cy) => cy'.state = "uncertain")
    BY <1>2 DEF Ended
  <2> QED
    BY <2>1 DEF UnderWay, Unfinished, CycleTerminal, CycleUnproven
<1> QED
  BY <1>1, <1>2

\* A row that is worked on at another stage is not the stored one.
LEMMA ElsewhereRests ==
    ASSUME CycleRowsInv, NEW x, UnderWay(x, cy), x.state # cy.state, NEW c, NEW to, Advanced(c, to)
    PROVE  x.id # cy'.id
BY DEF UnderWay, Advanced, Unfinished, CycleTerminal

LEMMA InputRests ==
    ASSUME CycleRowsInv, CycleInputsInv, UNCHANGED <<kind, made, created, inp>>, InputsStep,
           inp.ph \in InputPhases /\ cy.state = inp.row.state => RowStays \/ Ended
    PROVE  InputUnderWay' /\ ActKnown'
<1>1. ActKnown'
  BY DEF CycleInputsInv, ActKnown, HostlessStages
<1>2. InputUnderWay'
  <2>1. CASE inp.ph \notin InputPhases
    BY <2>1 DEF InputUnderWay
  <2>2. CASE inp.ph \in InputPhases /\ (RowStays \/ Ended)
    <3>1. inp.row.state = StageOfInput(inp.what) /\ inp.what \in Inputs
      BY <2>2 DEF CycleRowsInv, InputsKnown
    <3>2. inp.row = cy => CycleInputUnproven(cy.state)
      BY <3>1 DEF StageOfInput, Inputs, CycleInputUnproven, CycleIntent
    <3>3. UnderWay(inp.row, cy)
      BY <2>2 DEF CycleInputsInv, InputUnderWay
    <3>4. UnderWay(inp.row, cy')
      BY <2>2, <3>2, <3>3, UnderWayRests
    <3>5. cy'.id = cy.id
      BY <2>2 DEF RowStays, Ended
    <3> QED
      BY <2>2, <3>4, <3>5 DEF CycleInputsInv, InputUnderWay
  <2>3. CASE inp.ph \in InputPhases /\ inp.row.state # cy.state /\ \E c, to : Advanced(c, to)
    <3>1. UnderWay(inp.row, cy)
      BY <2>3 DEF CycleInputsInv, InputUnderWay
    <3>2. inp.row.id # cy'.id
      BY <2>3, <3>1, ElsewhereRests
    <3> QED
      BY <2>3, <3>2 DEF CycleInputsInv, InputUnderWay, UnderWay
  <2> QED
    BY <2>1, <2>2, <2>3 DEF InputsStep
<1> QED
  BY <1>1, <1>2

LEMMA NoInputRests ==
    ASSUME inp'.ph \notin InputPhases \cup {"act"}
    PROVE  InputUnderWay' /\ ActKnown'
BY DEF InputUnderWay, ActKnown

LEMMA WorkRests ==
    ASSUME CycleRowsInv, CycleInputsInv, UNCHANGED <<kind, made, created, work>>, InputsStep,
           work.run \in {"send", "post", "creating"} /\ cy.state = work.row.state => RowStays \/ Ended
    PROVE  SendUnderWay' /\ CreateUnderWay' /\ ReceiptKnown'
<1>1. cy'.id = cy.id
  BY DEF InputsStep, RowStays, Ended, Advanced
<1>2. ReceiptKnown'
  BY DEF CycleInputsInv, ReceiptKnown
<1>3. ASSUME work.run \in {"send", "post", "creating"}
      PROVE  UnderWay(work.row, cy')
  <2>1. UnderWay(work.row, cy) /\ work.row.state \in {"pickup_intent", "clear_intent"}
    BY <1>3 DEF CycleInputsInv, SendUnderWay, CreateUnderWay
  <2>2. CASE RowStays \/ Ended
    <3>1. work.row = cy => CycleInputUnproven(cy.state)
      BY <2>1 DEF CycleInputUnproven, CycleIntent
    <3> QED
      BY <2>1, <2>2, <3>1, UnderWayRests
  <2>3. CASE work.row.state # cy.state /\ \E c, to : Advanced(c, to)
    BY <2>1, <2>3, ElsewhereRests DEF UnderWay
  <2> QED
    BY <1>3, <2>2, <2>3 DEF InputsStep
<1>4. SendUnderWay'
  BY <1>1, <1>3 DEF CycleInputsInv, SendUnderWay
<1>5. CreateUnderWay'
  BY <1>1, <1>3 DEF CycleInputsInv, CreateUnderWay
<1> QED
  BY <1>2, <1>4, <1>5

\* The worker rests, or reads.
LEMMA OtherWorkRests ==
    ASSUME CycleInputsInv, UNCHANGED <<kind, made, created>>, work'.run \in {"none", "read", "receipt"},
           work'.out \notin {"unsent", "received"} \/ (work'.run = "receipt" /\ work'.out = work.out)
    PROVE  SendUnderWay' /\ CreateUnderWay' /\ ReceiptKnown'
BY DEF CycleInputsInv, SendUnderWay, CreateUnderWay, ReceiptKnown

\* A step beside the lock that leaves the worker.
LEMMA BesideInputs ==
    ASSUME CycleRowsInv, CycleInputsInv, UNCHANGED <<kind, made, created, newest, inp, work>>, InputsStep,
           inp.ph \in InputPhases /\ cy.state = inp.row.state => RowStays \/ Ended,
           work.run \in {"send", "post", "creating"} /\ cy.state = work.row.state => RowStays \/ Ended
    PROVE  CycleInputsInv'
BY InputsStepKeeps, InputRests, WorkRests DEF CycleInputsInv, StagesKept

LEMMA CycleInitInputs == CycleInit => CycleInputsInv
<1> SUFFICES ASSUME CycleInit PROVE CycleInputsInv
  OBVIOUS
<1>1. NoCycle.id = 0 /\ NoCycle.state = "none" /\ NoInput.ph = "none"
  BY DEF NoCycle, NoInput
<1>2. ~Unfinished /\ cy.state = "none" /\ pending = {} /\ inp.ph = "none" /\ work.run = "none" /\ work.out = "none"
  BY <1>1, NoWorkIsIdle DEF CycleInit, Unfinished
<1>3. made = [i \in Inputs |-> 0] /\ newest = 1
  BY DEF CycleInit, Inputs
<1>4. made \in [Inputs -> 0 .. 2] /\ \A i \in Inputs : made[i] = 0
  BY <1>3
<1>5. MadeKnown /\ PendingKnown
  BY <1>2, <1>3, <1>4 DEF MadeKnown, PendingKnown
<1>6. StageKinds /\ NotYetMade
  BY <1>2 DEF StageKinds, NotYetMade, BeforeClear, AtStage, LiveStages
<1>7. InputUnderWay /\ ActKnown /\ SendUnderWay /\ ReceiptKnown
  BY <1>2 DEF InputUnderWay, ActKnown, SendUnderWay, ReceiptKnown, InputPhases
<1>8. CreateUnderWay
  BY <1>2, <1>4 DEF CreateUnderWay, Inputs
<1>9. EndsHonestly /\ InputMadeOnce
  BY <1>2, <1>3, <1>4 DEF EndsHonestly, InputMadeOnce
<1> QED
  BY <1>5, <1>6, <1>7, <1>8, <1>9 DEF CycleInputsInv

-----------------------------------------------------------------------------
(* The steps of each actor keep what is known of the inputs *)

\* A step that leaves or ends the row, and no input or worker moves.
LEMMA QuietInputs ==
    ASSUME CycleRowsInv, CycleInputsInv, UNCHANGED <<kind, made, created, newest, inp, work>>,
           RowStays \/ Ended
    PROVE  CycleInputsInv'
BY BesideInputs DEF InputsStep

LEMMA AdvanceInputs ==
    ASSUME CycleRowsInv, NEW r, RowBefore(r, cy), r.state \in LiveStages, NEW c, r = cy => SameBut(c), NEW to,
           AdvanceCycle(r, c, to), r = cy => StageMove(c, to) /\ to \in LiveStages
    PROVE  /\ InputsStep
           /\ ~Advances(r) => RowStays \/ Ended
           /\ Advances(r) => r = cy /\ Advanced(c, to)
<1>1. \/ ~Advances(r) /\ (Kept \/ Ended)
      \/ Advances(r) /\ r = cy /\ Advanced(c, to)
  BY AdvanceCycleMoves DEF CycleRowsInv
<1> QED
  BY <1>1 DEF InputsStep, Kept, RowStays

LEMMA EndInputs ==
    ASSUME CycleRowsInv, NEW r, NEW outcome \in Outcomes, NEW reason, EndCycle(r, outcome, reason)
    PROVE  RowStays \/ Ended
BY EndCycleMoves DEF CycleRowsInv, Kept, RowStays

LEMMA QuietStepsInputs ==
    ASSUME CycleRowsInv, CycleInputsInv,
           \/ ObserveRead \/ ObserveEnd \/ PickupRead \/ PickupRefused \/ (\E retained \in BOOLEAN : PickupWrite(retained))
           \/ AnswerRead \/ NoteInboxRead \/ (\E on \in BOOLEAN : SetContextEnable(on)) \/ FenceCycles
           \/ ReadingBelow \/ CtlRead \/ WakeStart \/ WakeEnd \/ CtlDisabled(ctl)
           \/ (\E d \in {"stage", "ask", "prompt", "cycle"} : CycleElapse(d))
    PROVE  CycleInputsInv'
<1>1. UNCHANGED <<kind, made, created, newest, inp, work>>
  BY DEF ObserveRead, ObserveEnd, PickupRead, PickupRefused, PickupWrite, AnswerRead, NoteInboxRead, SetContextEnable,
         FenceCycles, ReadingBelow, CtlRead, WakeStart, WakeEnd, CtlDisabled, CycleElapse, cycleWorld, cycleBounds
<1>2. CASE \/ ObserveRead \/ ObserveEnd \/ PickupRead \/ PickupRefused \/ (\E retained \in BOOLEAN : PickupWrite(retained))
           \/ AnswerRead
  BY <1>1, <1>2, ReaderMoves, QuietInputs DEF CycleRowsInv, Kept, RowStays
<1>3. CASE FenceCycles
  <2>1. Ended
    BY <1>3, EndCycleTxMoves DEF FenceCycles, CycleRowsInv, Outcomes
  <2> QED
    BY <1>1, <2>1, QuietInputs
<1>4. CASE CtlDisabled(ctl)
  <2>1. RowStays \/ Ended
    BY <1>4, EndInputs DEF CtlDisabled, Outcomes
  <2> QED
    BY <1>1, <2>1, QuietInputs
<1>5. ASSUME NEW on \in BOOLEAN, SetContextEnable(on)
      PROVE  CycleInputsInv'
  <2>1. CASE ~on /\ Unfinished
    <3>1. EndCycleTx(cy, "cancelled", "disabled", enable)
      BY <1>5, <2>1 DEF SetContextEnable
    <3>2. Ended
      BY <2>1, <3>1, EndCycleTxMoves DEF CycleRowsInv, Outcomes
    <3> QED
      BY <1>1, <3>2, QuietInputs
  <2>2. CASE on \/ ~Unfinished
    <3>1. RowStays
      BY <1>5, <2>2 DEF SetContextEnable, RowStays
    <3> QED
      BY <1>1, <3>1, QuietInputs
  <2> QED
    BY <2>1, <2>2
<1>6. CASE \/ NoteInboxRead \/ ReadingBelow \/ CtlRead \/ WakeStart \/ WakeEnd
           \/ (\E d \in {"stage", "ask", "prompt", "cycle"} : CycleElapse(d))
  <2>1. RowStays
    BY <1>6 DEF NoteInboxRead, ReadingBelow, CtlRead, WakeStart, WakeEnd, CycleElapse, cycleStore, RowStays
  <2> QED
    BY <1>1, <2>1, QuietInputs
<1> QED
  BY <1>2, <1>3, <1>4, <1>5, <1>6

\* What was read before an admission is of another cycle.
LEMMA AdmitInputs ==
    ASSUME CycleRowsInv, CycleInputsInv, Admit
    PROVE  CycleInputsInv'
<1>1. /\ UNCHANGED <<kind, newest, inp>> /\ pending' = {} /\ created' = 0 /\ made' = [i \in DOMAIN made |-> 0]
      /\ work' = [work EXCEPT !.out = "none"] /\ WorkForm(work) /\ cy.id \in Nat
  BY DEF Admit, cycleBounds, CycleRowsInv, CycleShapes
<1>2. work'.run = work.run /\ work'.row = work.row /\ work'.out = "none"
  BY <1>1 DEF WorkForm
<1>3. made' \in [Inputs -> 0 .. 2] /\ \A i \in Inputs : made'[i] = 0
  BY <1>1 DEF CycleInputsInv, MadeKnown
<1>4. PICK n, v, e, p, s : /\ n = cy.id + 1 /\ v = enable.rev /\ e = shown /\ p = CreditPages
                           /\ s = IF kind = "compact" THEN "compact_waiting" ELSE "waiting_ready"
  OBVIOUS
<1>5. cy' = [NoCycle EXCEPT !.id = n, !.rev = 1, !.events = 1, !.credit = p, !.state = s, !.enRev = v, !.epoch = e]
  BY <1>4 DEF Admit
<1>6. cy'.id = n /\ cy'.state = s /\ cy'.displayed = FALSE
  BY <1>5 DEF NoCycle
<1>7. inp.row.id # n /\ work.row.id # n
  BY <1>1, <1>4 DEF CycleRowsInv, RowsAreEarlier, RowBefore
<1>8. StageKinds'
  BY <1>1, <1>4, <1>6 DEF StageKinds, LiveStages
<1>9. MadeKnown' /\ PendingKnown' /\ EndsHonestly' /\ InputMadeOnce'
  BY <1>1, <1>3 DEF CycleInputsInv, MadeKnown, PendingKnown, EndsHonestly, InputMadeOnce
<1>10. NotYetMade'
  BY <1>1, <1>3 DEF NotYetMade, Inputs
<1>11. InputUnderWay' /\ ActKnown'
  BY <1>1, <1>6, <1>7 DEF CycleInputsInv, InputUnderWay, ActKnown, UnderWay, HostlessStages
<1>12. SendUnderWay' /\ CreateUnderWay' /\ ReceiptKnown'
  BY <1>1, <1>2, <1>3, <1>6, <1>7 DEF CycleInputsInv, SendUnderWay, CreateUnderWay, ReceiptKnown, UnderWay, Inputs
<1> QED
  BY <1>8, <1>9, <1>10, <1>11, <1>12 DEF CycleInputsInv

LEMMA StrayAndStopInputs ==
    ASSUME CycleRowsInv, CycleInputsInv, Stray \/ CycleStop
    PROVE  CycleInputsInv'
<1>1. UNCHANGED <<kind, made, created>> /\ RowStays
  BY DEF Stray, CycleStop, cycleStore, cycleWorld, RowStays
<1>2. newest' \in Nat
  BY DEF Stray, CycleStop, cycleWorld, CycleInputsInv, MadeKnown
<1>3. StagesKept /\ EndsHonestly' /\ InputMadeOnce' /\ MadeKnown'
  <2>1. StagesKept
    BY <1>1 DEF RowStays, CycleInputsInv, StagesKept, StageKinds, PendingKnown, NotYetMade, BeforeClear, AtStage, Unfinished,
                Unproven, AwaitingPickup
  <2>2. EndsHonestly' /\ InputMadeOnce' /\ MadeKnown'
    BY <1>1, <1>2 DEF RowStays, CycleInputsInv, MadeKnown, EndsHonestly, InputMadeOnce
  <2> QED
    BY <2>1, <2>2
<1>4. CASE Stray
  <2>1. UNCHANGED <<inp, work>>
    BY <1>4 DEF Stray
  <2>2. InputUnderWay' /\ ActKnown' /\ SendUnderWay' /\ CreateUnderWay' /\ ReceiptKnown'
    BY <1>1, <2>1, InputRests, WorkRests DEF InputsStep
  <2> QED
    BY <1>3, <2>2 DEF CycleInputsInv, StagesKept
<1>5. CASE CycleStop
  <2>1. inp' = NoInput /\ work' = NoWork
    BY <1>5 DEF CycleStop
  <2>2. inp'.ph = "none"
    BY <2>1 DEF NoInput
  <2>3. InputUnderWay' /\ ActKnown'
    BY <2>2, NoInputRests DEF InputPhases
  <2>4. SendUnderWay' /\ CreateUnderWay' /\ ReceiptKnown'
    BY <1>1, <2>1, NoWorkIsIdle, OtherWorkRests
  <2> QED
    BY <1>3, <2>3, <2>4 DEF CycleInputsInv, StagesKept
<1> QED
  BY <1>4, <1>5

\* The stages at which an input or a worker is under way.
LEMMA StagesUnderWay ==
    ASSUME CycleRowsInv, CycleInputsInv
    PROVE  /\ inp.ph \in InputPhases => inp.row.state \in
                 {"clear_intent", "clear_received", "pickup_intent", "compact_intent", "prompt_intent"}
           /\ inp.ph \in InputPhases /\ inp.row.state = "pickup_intent" => kind = "pane"
           /\ work.run \in {"send", "post"} => work.row.state = "pickup_intent"
           /\ work.run = "creating" => work.row.state = "clear_intent"
<1>1. inp.ph \in InputPhases => inp.what \in Inputs /\ inp.row.state = StageOfInput(inp.what)
  BY DEF CycleRowsInv, InputsKnown
<1>2. /\ inp.ph \in InputPhases => inp.row.state \in
            {"clear_intent", "clear_received", "pickup_intent", "compact_intent", "prompt_intent"}
      /\ inp.ph \in InputPhases /\ inp.row.state = "pickup_intent" => inp.what = "pickup"
  BY <1>1 DEF StageOfInput, Inputs
<1> QED
  BY <1>2 DEF CycleInputsInv, InputUnderWay, SendUnderWay, CreateUnderWay

LEMMA NotIdleInputs ==
    ASSUME CycleRowsInv, NEW r, RowBefore(r, cy), r.state \in {"ready", "reset_verified"}, NotIdle(r)
    PROVE  InputsStep /\ (RowStays \/ Ended \/ cy.state = "ready")
<1>1. Kept \/ Ended \/ (r = cy /\ cy.state = "ready" /\ Advanced(cy, "waiting_ready"))
  BY NotIdleMoves
<1>2. cy.state = "ready" => StageMove(cy, "waiting_ready") /\ "waiting_ready" \in LiveStages
  BY DEF StageMove, RequestMove, SameFields, LiveStages
<1> QED
  BY <1>1, <1>2 DEF InputsStep, Kept, RowStays

LEMMA ArtifactInputs ==
    ASSUME CycleRowsInv, NEW r, RowBefore(r, cy), r.state \in {"ready", "reset_verified"}, ArtifactChanged(r)
    PROVE  InputsStep /\ (RowStays \/ Ended \/ cy.state = "ready")
<1>1. CASE r.state = "ready"
  <2>1. AdvanceCycle(r, r, "waiting_ready") /\ (r = cy => SameBut(r))
    BY <1>1, StoredIsBefore DEF ArtifactChanged, CycleRowsInv
  <2>2. r = cy => StageMove(r, "waiting_ready") /\ "waiting_ready" \in LiveStages
    BY <1>1 DEF StageMove, RequestMove, SameFields, LiveStages
  <2>3. r.state \in LiveStages
    BY <1>1 DEF LiveStages
  <2>4. InputsStep /\ (~Advances(r) => RowStays \/ Ended) /\ (Advances(r) => r = cy)
    BY <2>1, <2>2, <2>3, AdvanceInputs
  <2> QED
    BY <1>1, <2>4
<1>2. CASE r.state # "ready"
  <2>1. RowStays \/ Ended
    BY <1>2, EndInputs DEF ArtifactChanged, Outcomes
  <2> QED
    BY <2>1 DEF InputsStep
<1> QED
  BY <1>1, <1>2

\* The pickup's intent, and the worker that sends it.
LEMMA StartPickupInputs ==
    ASSUME CycleRowsInv, CycleInputsInv, NEW r, RowBefore(r, cy), r.state = "reset_verified", StartPickup(r),
           kind \in {"session", "hostless"}, UNCHANGED <<kind, made, created>>
    PROVE  /\ InputsStep /\ (RowStays \/ Ended \/ cy.state = "reset_verified")
           /\ SendUnderWay' /\ CreateUnderWay' /\ ReceiptKnown'
<1>1. CASE UNCHANGED <<cycleStore, work>>
  <2>1. RowStays
    BY <1>1 DEF RowStays, cycleStore
  <2> QED
    BY <1>1, <2>1, WorkRests DEF InputsStep
<1>2. CASE /\ AdvanceCycle(r, r, "pickup_intent")
           /\ work' = IF Advances(r) THEN [run |-> "send", out |-> "none", row |-> cy'] ELSE work
  <2>1. r = cy => StageMove(r, "pickup_intent") /\ "pickup_intent" \in LiveStages /\ SameBut(r)
    BY StoredIsBefore DEF StageMove, PickupMove, SameFields, LiveStages, CycleRowsInv
  <2>2. r.state \in LiveStages
    BY DEF LiveStages
  <2>3. InputsStep /\ (~Advances(r) => RowStays \/ Ended) /\ (Advances(r) => r = cy /\ Advanced(r, "pickup_intent"))
    BY <1>2, <2>1, <2>2, AdvanceInputs
  <2>4. CASE Advances(r)
    <3>1. work'.run = "send" /\ work'.out = "none" /\ work'.row = cy' /\ cy'.state = "pickup_intent" /\ cy'.id = cy.id
      BY <1>2, <2>3, <2>4 DEF Advanced
    <3>2. made["pickup"] = 0
      BY <2>3, <2>4 DEF CycleInputsInv, NotYetMade, AtStage
    <3>3. SendUnderWay' /\ ReceiptKnown'
      BY <3>1, <3>2 DEF SendUnderWay, UnderWay, ReceiptKnown
    <3>4. CreateUnderWay'
      BY <3>1 DEF CycleInputsInv, CreateUnderWay
    <3> QED
      BY <2>3, <2>4, <3>3, <3>4
  <2>5. CASE ~Advances(r)
    BY <1>2, <2>3, <2>5, WorkRests
  <2> QED
    BY <2>4, <2>5
<1> QED
  BY <1>1, <1>2 DEF StartPickup

LEMMA TimeoutInputs ==
    ASSUME CycleRowsInv, CycleInputsInv, CtlTimeout(ctl)
    PROVE  CycleInputsInv'
<1>0. UNCHANGED <<kind, made, created, newest, inp, work>> /\ RowBefore(ctl, cy)
  BY DEF CtlTimeout, cycleWorld, cycleBounds, CycleRowsInv, RowsAreEarlier
<1>1. PICK o, w : /\ o = IF ctl.state = "compact_waiting" /\ "cycle" \notin over THEN "cancelled" ELSE "failed"
                  /\ w = IF ctl.state = "waiting_ready" /\ "cycle" \notin over THEN "waiting_ready_timeout" ELSE "timeout"
  OBVIOUS
<1>2. CASE EndCycle(ctl, o, w)
  <2>1. RowStays \/ Ended
    BY <1>1, <1>2, EndInputs DEF Outcomes
  <2> QED
    BY <1>0, <2>1, QuietInputs
<1>3. CASE /\ ctl.state = "ready" /\ CanRepeat(ctl)
           /\ IF HasRoom(cy) THEN Repeat ELSE EndCycle(ctl, "failed", "event_limit")
  <2>1. NotIdle(ctl)
    BY <1>3 DEF NotIdle
  <2>2. InputsStep /\ (RowStays \/ Ended \/ cy.state = "ready")
    BY <1>0, <1>3, <2>1, NotIdleInputs
  <2> QED
    BY <1>0, <2>2, StagesUnderWay, BesideInputs
<1> QED
  BY <1>1, <1>2, <1>3 DEF CtlTimeout

LEMMA ReadyAndReceiptInputs ==
    ASSUME CycleRowsInv, CycleInputsInv, ContextCycleReady \/ CtlReceipt(ctl)
    PROVE  CycleInputsInv'
<1>1. /\ UNCHANGED <<kind, made, created, newest, inp>> /\ RowBefore(ctl, cy) /\ WorkForm(work)
      /\ RowBefore(cy, cy) /\ SameBut(cy) /\ CycleShapes
  BY StoredIsBefore DEF ContextCycleReady, CtlReceipt, cycleWorld, cycleBounds, CycleRowsInv, CycleShapes, RowsAreEarlier
<1>2. CASE ContextCycleReady
  <2>1. AdvanceCycle(cy, cy, "ready") /\ cy.state = "waiting_ready" /\ work' = work
    BY <1>2 DEF ContextCycleReady
  <2>2. StageMove(cy, "ready") /\ "ready" \in LiveStages /\ cy.state \in LiveStages
    BY <2>1 DEF StageMove, RequestMove, SameFields, LiveStages
  <2>3. InputsStep
    BY <1>1, <2>1, <2>2, AdvanceInputs
  <2> QED
    BY <1>1, <2>1, <2>3, StagesUnderWay, BesideInputs
<1>3. CASE CtlReceipt(ctl)
  <2>1. ctl.state = "pickup_intent" /\ kind \in {"session", "hostless"} /\ ctl.state \in LiveStages
    BY <1>3 DEF CtlReceipt, Async, LiveStages
  <2>2. CASE work.out = "received"
    <3>1. AdvanceCycle(ctl, ctl, "waiting_pickup") /\ work' = work
      BY <1>3, <2>2 DEF CtlReceipt
    <3>2. ctl = cy => StageMove(ctl, "waiting_pickup") /\ "waiting_pickup" \in LiveStages
      BY <2>1 DEF StageMove, PickupMove, SameFields, LiveStages
    <3>3. InputsStep /\ (~Advances(ctl) => RowStays \/ Ended) /\ (Advances(ctl) => ctl = cy)
      BY <1>1, <2>1, <3>1, <3>2, AdvanceInputs
    <3>4. work.run \notin {"send", "post"}
      BY <2>2 DEF CycleInputsInv, SendUnderWay
    <3> QED
      BY <1>1, <2>1, <3>1, <3>3, <3>4, StagesUnderWay, BesideInputs
  <2>3. CASE work.out = "missing"
    <3>1. EndCycle(ctl, "uncertain", "pickup_unreceipted") /\ work' = work
      BY <1>3, <2>3 DEF CtlReceipt
    <3>2. RowStays \/ Ended
      BY <3>1, EndInputs DEF Outcomes
    <3> QED
      BY <1>1, <3>1, <3>2, QuietInputs
  <2>4. CASE work.out \notin {"received", "missing"}
    <3>1. /\ work' = IF work.run = "none" THEN [work EXCEPT !.run = "receipt", !.row = ctl] ELSE work
          /\ UNCHANGED cycleStore
      BY <1>3, <2>4 DEF CtlReceipt
    <3>2. RowStays
      BY <3>1 DEF RowStays, cycleStore
    <3>3. CASE work' = work
      BY <1>1, <3>2, <3>3, QuietInputs
    <3>4. CASE work' = [work EXCEPT !.run = "receipt", !.row = ctl]
      <4>1. work'.run = "receipt" /\ work'.out = work.out
        BY <1>1, <3>4 DEF WorkForm
      <4>2. SendUnderWay' /\ CreateUnderWay' /\ ReceiptKnown'
        BY <1>1, <4>1, OtherWorkRests
      <4> QED
        BY <1>1, <3>2, <4>2, InputsStepKeeps, InputRests DEF InputsStep, CycleInputsInv, StagesKept
    <3> QED
      BY <3>1, <3>3, <3>4
  <2> QED
    BY <2>2, <2>3, <2>4
<1> QED
  BY <1>2, <1>3

\* A session without a pane has no input under way.
LEMMA HostlessInput ==
    ASSUME CycleRowsInv, CycleInputsInv, kind = "hostless"
    PROVE  inp.ph \notin InputPhases
BY DEF CycleInputsInv, InputUnderWay

\* A step of the controller for a session without a pane.
LEMMA HostlessRests ==
    ASSUME CycleRowsInv, CycleInputsInv, UNCHANGED <<kind, made, created, newest, inp>>, kind = "hostless", InputsStep,
           SendUnderWay', CreateUnderWay', ReceiptKnown'
    PROVE  CycleInputsInv'
BY HostlessInput, InputsStepKeeps, InputRests DEF CycleInputsInv, StagesKept

LEMMA HostlessWorkInputs ==
    ASSUME CycleRowsInv, CycleInputsInv, CtlHostlessWork(ctl)
    PROVE  CycleInputsInv'
<1>1. /\ UNCHANGED <<kind, made, created, newest, inp>> /\ RowBefore(ctl, cy) /\ WorkForm(work) /\ CycleShapes
      /\ kind = "hostless" /\ ctl.state \in HostlessStages /\ ctl.state \in LiveStages
  BY DEF CtlHostlessWork, cycleWorld, cycleBounds, CycleRowsInv, CycleShapes, RowsAreEarlier, LiveStages, HostlessStages
<1>2. CASE ctl.state = "clear_received" /\ ~ctl.selected
  <2>1. PICK c : c = [ctl EXCEPT !.selected = TRUE]
    OBVIOUS
  <2>2. AdvanceCycle(ctl, c, "clear_received") /\ work' = work
    BY <1>2, <2>1 DEF CtlHostlessWork
  <2>3. ctl = cy => SameBut(c) /\ c.from = cy.from /\ c.succ = cy.succ /\ c.displayed = cy.displayed /\ c.selected = TRUE
    BY <1>1, <2>1, RowChanges, SelectedTurns
  <2>4. ctl = cy => StageMove(c, "clear_received") /\ "clear_received" \in LiveStages
    BY <1>2, <2>3 DEF StageMove, ClearMove, LiveStages
  <2>5. InputsStep /\ (~Advances(ctl) => RowStays \/ Ended) /\ (Advances(ctl) => ctl = cy)
    BY <1>1, <2>2, <2>3, <2>4, AdvanceInputs
  <2> QED
    BY <1>1, <1>2, <2>2, <2>5, StagesUnderWay, HostlessInput, BesideInputs
<1>3. CASE ~(ctl.state = "clear_received" /\ ~ctl.selected)
  <2>1. /\ work' = IF ctl.state = "waiting_pickup" \/ work.run # "none" THEN work
                   ELSE [run |-> IF ctl.state = "clear_intent" THEN "create" ELSE "read",
                         out |-> "none", row |-> ctl]
        /\ UNCHANGED cycleStore
    BY <1>3 DEF CtlHostlessWork
  <2>2. RowStays
    BY <2>1 DEF RowStays, cycleStore
  <2>3. CASE work' = work
    BY <1>1, <2>2, <2>3, QuietInputs
  <2>4. CASE work' # work
    <3>1. work'.out = "none" /\ work'.row = ctl /\ work'.run = IF ctl.state = "clear_intent" THEN "create" ELSE "read"
      BY <2>1, <2>4
    <3>2. SendUnderWay' /\ CreateUnderWay' /\ ReceiptKnown'
      BY <1>1, <3>1 DEF CycleInputsInv, SendUnderWay, CreateUnderWay, ReceiptKnown
    <3> QED
      BY <1>1, <2>2, <3>2, HostlessRests DEF InputsStep
  <2> QED
    BY <2>3, <2>4
<1> QED
  BY <1>2, <1>3

LEMMA HostlessApplyInputs ==
    ASSUME CycleRowsInv, CycleInputsInv, CtlHostlessApply(ctl)
    PROVE  CycleInputsInv'
<1>1. /\ UNCHANGED <<kind, made, created, newest, inp>> /\ RowBefore(ctl, cy) /\ WorkForm(work) /\ CycleShapes
      /\ kind = "hostless" /\ ctl.state \in HostlessStages \ {"waiting_pickup"} /\ ctl.state \in LiveStages
      /\ work.run = "none" /\ work.row = ctl
  BY DEF CtlHostlessApply, cycleWorld, cycleBounds, CycleRowsInv, CycleShapes, RowsAreEarlier, LiveStages, HostlessStages
<1>2. PICK r : r = ctl
  OBVIOUS
<1>3. r = cy => SameBut(r) /\ SameFields(r)
  BY <1>1, StoredIsBefore DEF SameFields
<1>4. CASE InputsStep /\ work' = NoWork
  <2>1. SendUnderWay' /\ CreateUnderWay' /\ ReceiptKnown'
    BY <1>1, <1>4, NoWorkIsIdle, OtherWorkRests
  <2> QED
    BY <1>1, <1>4, <2>1, HostlessRests
<1>5. CASE r.state = "clear_intent"
  <2>1. work' = NoWork
    BY <1>2, <1>5 DEF CtlHostlessApply
  <2>2. PICK c : c = [r EXCEPT !.succ = created]
    OBVIOUS
  <2>3. r = cy => SameBut(c) /\ c.from = cy.from /\ c.displayed = cy.displayed
    BY <1>1, <2>2, RowChanges, SuccTurns
  <2>4. \/ AdvanceCycle(r, c, "clear_received")
        \/ work.out = "unsent" /\ AdvanceCycle(r, r, "ready")
        \/ EndCycle(r, "failed", "session_conflict") \/ EndCycle(r, "uncertain", "reset_unproven")
        \/ UNCHANGED cycleStore
    BY <1>2, <1>5, <2>2 DEF CtlHostlessApply
  <2>5. CASE AdvanceCycle(r, c, "clear_received")
    <3>1. r = cy => StageMove(c, "clear_received") /\ "clear_received" \in LiveStages
      BY <1>1, <1>5, <2>3 DEF StageMove, ClearMove, LiveStages
    <3>2. InputsStep
      BY <1>1, <1>2, <2>3, <2>5, <3>1, AdvanceInputs
    <3> QED
      BY <1>4, <2>1, <3>2
  <2>6. CASE work.out = "unsent" /\ AdvanceCycle(r, r, "ready")
    <3>1. r = cy => created = 0
      BY <1>1, <1>2, <2>6 DEF CycleInputsInv, CreateUnderWay
    <3>2. r = cy => StageMove(r, "ready") /\ "ready" \in LiveStages
      BY <1>1, <1>3, <1>5, <3>1 DEF StageMove, BackMove, SameFields, LiveStages
    <3>3. InputsStep
      BY <1>1, <1>2, <1>3, <2>6, <3>2, AdvanceInputs
    <3> QED
      BY <1>4, <2>1, <3>3
  <2>7. CASE EndCycle(r, "failed", "session_conflict") \/ EndCycle(r, "uncertain", "reset_unproven") \/ UNCHANGED cycleStore
    <3>1. InputsStep
      BY <2>7, EndInputs DEF InputsStep, Outcomes, RowStays, cycleStore
    <3> QED
      BY <1>4, <2>1, <3>1
  <2> QED
    BY <2>4, <2>5, <2>6, <2>7
<1>6. CASE r.state = "clear_received"
  <2>1. work' = NoWork
    BY <1>2, <1>6 DEF CtlHostlessApply
  <2>2. \/ AdvanceCycle(r, r, "reset_verified")
        \/ EndCycle(r, "uncertain", "reset_unproven")
        \/ UNCHANGED cycleStore
    BY <1>2, <1>6 DEF CtlHostlessApply
  <2>3. CASE AdvanceCycle(r, r, "reset_verified")
    <3>1. r = cy => StageMove(r, "reset_verified") /\ "reset_verified" \in LiveStages
      BY <1>3, <1>6 DEF StageMove, ClearMove, SameFields, LiveStages
    <3>2. InputsStep
      BY <1>1, <1>2, <1>3, <2>3, <3>1, AdvanceInputs
    <3> QED
      BY <1>4, <2>1, <3>2
  <2>4. CASE EndCycle(r, "uncertain", "reset_unproven") \/ UNCHANGED cycleStore
    <3>1. InputsStep
      BY <2>4, EndInputs DEF InputsStep, Outcomes, RowStays, cycleStore
    <3> QED
      BY <1>4, <2>1, <3>1
  <2> QED
    BY <2>2, <2>3, <2>4
<1>7. CASE r.state \in {"ready", "reset_verified"}
  <2>1. \/ NotIdle(r) /\ work' = NoWork
        \/ ArtifactChanged(r) /\ work' = NoWork
        \/ EndCycle(r, "failed", "probe") /\ work' = NoWork
        \/ r.state = "ready" /\ AdvanceCycle(r, r, "clear_intent") /\ work' = NoWork
        \/ r.state = "reset_verified" /\ StartPickup(r)
    BY <1>2, <1>7 DEF CtlHostlessApply
  <2>2. CASE NotIdle(r) /\ work' = NoWork
    BY <1>1, <1>2, <1>4, <1>7, <2>2, NotIdleInputs
  <2>3. CASE ArtifactChanged(r) /\ work' = NoWork
    BY <1>1, <1>2, <1>4, <1>7, <2>3, ArtifactInputs
  <2>4. CASE EndCycle(r, "failed", "probe") /\ work' = NoWork
    <3>1. InputsStep
      BY <2>4, EndInputs DEF InputsStep, Outcomes
    <3> QED
      BY <1>4, <2>4, <3>1
  <2>5. CASE r.state = "ready" /\ AdvanceCycle(r, r, "clear_intent") /\ work' = NoWork
    <3>1. r = cy => StageMove(r, "clear_intent") /\ "clear_intent" \in LiveStages
      BY <1>3, <2>5 DEF StageMove, RequestMove, LiveStages
    <3>2. InputsStep
      BY <1>1, <1>2, <1>3, <2>5, <3>1, AdvanceInputs
    <3> QED
      BY <1>4, <2>5, <3>2
  <2>6. CASE r.state = "reset_verified" /\ StartPickup(r)
    BY <1>1, <1>2, <2>6, StartPickupInputs, HostlessRests
  <2> QED
    BY <2>1, <2>2, <2>3, <2>4, <2>5, <2>6
<1> QED
  BY <1>1, <1>2, <1>5, <1>6, <1>7 DEF HostlessStages

LEMMA CtlStepInputs ==
    ASSUME CycleRowsInv, CycleInputsInv, CtlStep
    PROVE  CycleInputsInv'
<1>1. CASE CtlLock(ctl)
  <2>1. /\ UNCHANGED <<kind, made, created, newest, work>> /\ UNCHANGED cycleStore
        /\ inp' = [NoInput EXCEPT !.ph = "act", !.row = ctl]
        /\ ~(kind \in {"session", "hostless"} /\ ctl.state = "pickup_intent") /\ ~(kind = "hostless" /\ ctl.state \in HostlessStages)
    BY <1>1 DEF CtlLock, Async, cycleWorld, cycleBounds
  <2>2. RowStays
    BY <2>1 DEF RowStays, cycleStore
  <2>3. inp'.ph = "act" /\ inp'.row = ctl
    BY <2>1 DEF NoInput
  <2>4. InputUnderWay' /\ ActKnown'
    BY <2>1, <2>3 DEF InputUnderWay, InputPhases, ActKnown, HostlessStages
  <2> QED
    BY <2>1, <2>2, <2>4, InputsStepKeeps, WorkRests DEF InputsStep, CycleInputsInv, StagesKept
<1> QED
  BY <1>1, TimeoutInputs, QuietStepsInputs, ReadyAndReceiptInputs, HostlessWorkInputs, HostlessApplyInputs DEF CtlStep

\* The holder of the lock gives it back.
LEMMA ReleaseInputs ==
    ASSUME CycleRowsInv, CycleInputsInv, UNCHANGED <<kind, made, created, newest>>, InputsStep, Release,
           SendUnderWay', CreateUnderWay', ReceiptKnown'
    PROVE  CycleInputsInv'
<1>1. inp'.ph = "none"
  BY DEF Release, NoInput
<1> QED
  BY <1>1, InputsStepKeeps, NoInputRests DEF InputPhases, CycleInputsInv, StagesKept

LEMMA ReleaseRow ==
    ASSUME CycleRowsInv, CycleInputsInv, UNCHANGED <<kind, made, created, newest, work>>, InputsStep, Release,
           RowStays \/ Ended \/ kind \in {"pane", "compact"} \/ cy.state \notin {"pickup_intent", "clear_intent"}
               \/ (kind = "session" /\ cy.state = "clear_intent")
    PROVE  CycleInputsInv'
<1>1. work.run \in {"send", "post", "creating"} /\ cy.state = work.row.state => RowStays \/ Ended
  BY StagesUnderWay DEF CycleInputsInv, SendUnderWay, CreateUnderWay
<1> QED
  BY <1>1, WorkRests, ReleaseInputs

\* What an input that is entered needs of its row.
Enterable(what, c) ==
    /\ what \in Inputs /\ kind # "hostless"
    /\ what = "clear" => kind = "pane"
    /\ what \in {"create", "select"} => kind = "session"
    /\ what = "pickup" => kind = "pane"
    /\ what = "select" => c.selected
    /\ what # "answer" /\ ~(what = "create" /\ c.succ # 0) => made[what] = 0

LEMMA EnteredInputs ==
    ASSUME CycleRowsInv, CycleInputsInv, UNCHANGED <<kind, made, created, newest, work>>,
           NEW c, NEW to \in LiveStages, Advanced(c, to), StageMove(c, to), cy.state \notin {"pickup_intent", "clear_intent"},
           NEW what, Enterable(what, c), inp' = [ph |-> "input", what |-> what, res |-> "", row |-> cy']
    PROVE  CycleInputsInv'
<1>1. inp'.ph = "input" /\ inp'.what = what /\ inp'.res = "" /\ inp'.row = cy' /\ cy'.selected = c.selected /\ cy'.succ = c.succ
  BY DEF Advanced
<1>2. InputUnderWay' /\ ActKnown'
  BY <1>1 DEF InputUnderWay, UnderWay, Enterable, ActKnown
<1>3. SendUnderWay' /\ CreateUnderWay' /\ ReceiptKnown'
  BY StagesUnderWay, WorkRests DEF InputsStep
<1> QED
  BY <1>2, <1>3, InputsStepKeeps DEF InputsStep, CycleInputsInv, StagesKept

LEMMA EnterInputs ==
    ASSUME CycleRowsInv, CycleInputsInv, UNCHANGED <<kind, made, created, newest, work>>,
           NEW r, RowBefore(r, cy), r.state \in LiveStages \ {"pickup_intent", "clear_intent"},
           NEW to \in LiveStages, NEW what, Enter(r, to, what), r = cy => StageMove(r, to) /\ Enterable(what, r)
    PROVE  CycleInputsInv'
<1>1. AdvanceCycle(r, r, to) /\ (r = cy => SameBut(r))
  BY StoredIsBefore DEF Enter, CycleRowsInv
<1>2. InputsStep /\ (~Advances(r) => RowStays \/ Ended) /\ (Advances(r) => r = cy /\ Advanced(r, to))
  BY <1>1, AdvanceInputs
<1>3. CASE Advances(r)
  <2>1. inp' = [ph |-> "input", what |-> what, res |-> "", row |-> cy']
    BY <1>3 DEF Enter
  <2> QED
    BY <1>2, <1>3, <2>1, EnteredInputs
<1>4. CASE ~Advances(r)
  BY <1>2, <1>4, ReleaseRow DEF Enter
<1> QED
  BY <1>3, <1>4

LEMMA ActOnPaneInputs ==
    ASSUME CycleRowsInv, CycleInputsInv, inp.ph = "act", inp.row.state \in {"ready", "reset_verified"}, ActOnPane(inp.row),
           UNCHANGED <<kind, made, created, newest>>
    PROVE  CycleInputsInv'
<1>1. /\ CycleShapes /\ RowBefore(inp.row, cy) /\ inp.row.state \in LiveStages \ {"pickup_intent", "clear_intent"}
      /\ kind # "hostless" /\ kind \in {"pane", "session", "hostless", "compact"}
  BY CycleAssumption DEF CycleRowsInv, CycleShapes, RowsAreEarlier, LiveStages, CycleInputsInv, ActKnown, HostlessStages, CycleAssumption
<1>2. PICK r : r = inp.row
  OBVIOUS
<1>3. r = cy => SameBut(r) /\ SameFields(r) /\ kind # "compact"
  BY <1>1, <1>2, StoredIsBefore DEF SameFields, CycleInputsInv, StageKinds
<1>4. CASE NotIdle(r) /\ Release /\ work' = work
  BY <1>1, <1>2, <1>4, NotIdleInputs, ReleaseRow
<1>5. CASE AdvanceCycle(r, [r EXCEPT !.from = r.state], "waiting_prompt") /\ Release /\ work' = work
  <2>1. PICK c : c = [r EXCEPT !.from = r.state]
    OBVIOUS
  <2>2. AdvanceCycle(r, c, "waiting_prompt")
    BY <1>5, <2>1
  <2>3. r = cy => SameBut(c) /\ c.from = cy.state /\ c.succ = cy.succ /\ c.displayed = cy.displayed /\ c.selected = cy.selected
    <3>1. r = cy => SameBut(c)
      BY <1>1, <2>1, RowChanges
    <3>2. r = cy => c.from = cy.state /\ c.succ = cy.succ /\ c.displayed = cy.displayed /\ c.selected = cy.selected
      BY <1>1, <2>1, FromTurns
    <3> QED
      BY <3>1, <3>2
  <2>4. r = cy => StageMove(c, "waiting_prompt") /\ "waiting_prompt" \in LiveStages
    BY <1>1, <1>2, <2>3 DEF StageMove, DialogMove, LiveStages
  <2>5. InputsStep /\ (~Advances(r) => RowStays \/ Ended) /\ (Advances(r) => r = cy)
    BY <1>1, <1>2, <2>2, <2>3, <2>4, AdvanceInputs
  <2> QED
    BY <1>1, <1>2, <1>5, <2>5, ReleaseRow
<1>6. CASE /\ EndCycle(r, "failed", "prompt_unrecognized") \/ EndCycle(r, "failed", "epoch_changed")
           /\ Release /\ work' = work
  <2>1. RowStays \/ Ended
    BY <1>6, EndInputs DEF Outcomes
  <2> QED
    BY <1>6, <2>1, ReleaseRow DEF InputsStep
<1>7. CASE ArtifactChanged(r) /\ Release /\ work' = work
  BY <1>1, <1>2, <1>7, ArtifactInputs, ReleaseRow
<1>8. CASE r.state = "ready" /\ Enter(r, "clear_intent", IF kind = "session" THEN "create" ELSE "clear") /\ work' = work
  <2>1. PICK w : w = IF kind = "session" THEN "create" ELSE "clear"
    OBVIOUS
  <2>2. r = cy => StageMove(r, "clear_intent")
    BY <1>3, <1>8 DEF StageMove, RequestMove
  <2>3. r = cy => Enterable(w, r)
    BY <1>1, <1>3, <1>8, <2>1 DEF Enterable, Inputs, CycleInputsInv, NotYetMade, BeforeClear, AtStage
  <2>4. Enter(r, "clear_intent", w) /\ "clear_intent" \in LiveStages
    BY <1>8, <2>1 DEF LiveStages
  <2> QED
    BY <1>1, <1>2, <1>8, <2>2, <2>3, <2>4, EnterInputs
<1>9. CASE r.state = "reset_verified" /\ kind = "pane" /\ Enter(r, "pickup_intent", "pickup") /\ work' = work
  <2>1. r = cy => StageMove(r, "pickup_intent")
    BY <1>3, <1>9 DEF StageMove, PickupMove, SameFields
  <2>2. r = cy => Enterable("pickup", r)
    BY <1>9 DEF Enterable, Inputs, CycleInputsInv, NotYetMade, AtStage
  <2>3. "pickup_intent" \in LiveStages
    BY DEF LiveStages
  <2> QED
    BY <1>1, <1>2, <1>9, <2>1, <2>2, <2>3, EnterInputs
<1>10. CASE r.state = "reset_verified" /\ kind = "session" /\ StartPickup(r) /\ Release
  BY <1>1, <1>2, <1>10, StartPickupInputs, ReleaseInputs
<1> QED
  BY <1>2, <1>4, <1>5, <1>6, <1>7, <1>8, <1>9, <1>10 DEF ActOnPane

LEMMA ActOnResetInputs ==
    ASSUME CycleRowsInv, CycleInputsInv, inp.ph = "act", inp.row.state \in {"clear_intent", "clear_received"}, ActOnReset(inp.row),
           UNCHANGED <<kind, made, created, newest, work>>
    PROVE  CycleInputsInv'
<1>1. /\ CycleShapes /\ RowBefore(inp.row, cy) /\ inp.row.state \in LiveStages
      /\ kind # "hostless" /\ kind \in {"pane", "session", "hostless", "compact"}
  BY CycleAssumption DEF CycleRowsInv, CycleShapes, RowsAreEarlier, LiveStages, CycleInputsInv, ActKnown, HostlessStages, CycleAssumption
<1>2. PICK r : r = inp.row
  OBVIOUS
<1>3. CASE r.state = "clear_received" /\ ~SelectSent(r)
  <2>1. PICK c : c = [r EXCEPT !.selected = TRUE]
    OBVIOUS
  <2>2. /\ AdvanceCycle(r, c, "clear_received")
        /\ IF Advances(r)
           THEN inp' = [ph |-> "input", what |-> "select", res |-> "", row |-> cy'] /\ UNCHANGED mu
           ELSE Release
        /\ kind = "session" /\ ~r.selected
    BY <1>2, <1>3, <2>1 DEF ActOnReset, SelectSent
  <2>3. r = cy => SameBut(c) /\ c.from = cy.from /\ c.succ = cy.succ /\ c.displayed = cy.displayed /\ c.selected = TRUE
    BY <1>1, <2>1, RowChanges, SelectedTurns
  <2>4. r = cy => StageMove(c, "clear_received")
    BY <1>3, <2>3 DEF StageMove, ClearMove
  <2>5. "clear_received" \in LiveStages
    BY DEF LiveStages
  <2>6. InputsStep /\ (~Advances(r) => RowStays \/ Ended) /\ (Advances(r) => r = cy /\ Advanced(c, "clear_received"))
    BY <1>1, <1>2, <2>2, <2>3, <2>4, <2>5, AdvanceInputs
  <2>7. r = cy => Enterable("select", c)
    BY <1>3, <2>2, <2>3 DEF Enterable, Inputs, CycleInputsInv, NotYetMade
  <2>8. CASE Advances(r)
    BY <1>2, <1>3, <2>2, <2>4, <2>5, <2>6, <2>7, <2>8, EnteredInputs
  <2>9. CASE ~Advances(r)
    BY <2>2, <2>6, <2>9, ReleaseRow
  <2> QED
    BY <2>8, <2>9
<1>4. CASE ~(r.state = "clear_received" /\ ~SelectSent(r))
  <2>1. /\ Release
        /\ \/ \E e \in ReadEpochs(r) : AdvanceCycle(r, [r EXCEPT !.succ = e], "reset_verified")
           \/ EndCycle(r, "uncertain", "reset_unproven")
           \/ UNCHANGED cycleStore
    BY <1>2, <1>4 DEF ActOnReset
  <2>2. ASSUME NEW e \in ReadEpochs(r), AdvanceCycle(r, [r EXCEPT !.succ = e], "reset_verified")
        PROVE  InputsStep
    <3>1. PICK c : c = [r EXCEPT !.succ = e]
      OBVIOUS
    <3>2. r = cy => SameBut(c) /\ c.from = cy.from /\ c.displayed = cy.displayed
      BY <1>1, <3>1, RowChanges, SuccTurns
    <3>3. r = cy => StageMove(c, "reset_verified") /\ "reset_verified" \in LiveStages
      BY <1>2, <3>2 DEF StageMove, ClearMove, LiveStages
    <3> QED
      BY <1>1, <1>2, <2>2, <3>1, <3>2, <3>3, AdvanceInputs
  <2>3. InputsStep
    BY <2>1, <2>2, EndInputs DEF Outcomes, InputsStep, RowStays, cycleStore
  <2>5. RowStays \/ Ended \/ cy.state \in {"clear_intent", "clear_received"}
    <3>1. ASSUME NEW e \in ReadEpochs(r), AdvanceCycle(r, [r EXCEPT !.succ = e], "reset_verified"), r # cy
          PROVE  RowStays
      BY <1>1, <1>2, <3>1, StaleStep DEF Kept, RowStays
    <3> QED
      BY <1>2, <2>1, <3>1, EndInputs DEF Outcomes, RowStays, cycleStore
  <2> QED
    BY <1>1, <2>1, <2>3, <2>5, ReleaseRow
<1> QED
  BY <1>3, <1>4

LEMMA ActOnPickupInputs ==
    ASSUME CycleRowsInv, CycleInputsInv, inp.ph = "act", UNCHANGED <<kind, made, created, newest, work>>,
           \/ inp.row.state = "waiting_pickup" /\ ActOnPickup(inp.row)
           \/ inp.row.state = "waiting_prompt" /\ ActOnPrompt(inp.row)
    PROVE  CycleInputsInv'
<1>1. /\ CycleShapes /\ RowBefore(inp.row, cy) /\ inp.row.state \in LiveStages /\ Release
  BY DEF CycleRowsInv, CycleShapes, RowsAreEarlier, LiveStages, ActOnPickup, ActOnPrompt
<1>2. PICK r : r = inp.row
  OBVIOUS
<1>3. CASE UNCHANGED cycleStore
  <2>1. RowStays
    BY <1>3 DEF RowStays, cycleStore
  <2> QED
    BY <1>1, <2>1, ReleaseRow DEF InputsStep
<1>4. ASSUME NEW c, NEW to, AdvanceCycle(r, c, to), r # cy
      PROVE  CycleInputsInv'
  <2>1. RowStays
    BY <1>1, <1>2, <1>4, StaleStep DEF Kept, RowStays
  <2> QED
    BY <1>1, <2>1, ReleaseRow DEF InputsStep
<1>5. ASSUME NEW c, NEW to \in LiveStages, AdvanceCycle(r, c, to), r = cy, SameBut(c), StageMove(c, to)
      PROVE  CycleInputsInv'
  <2>1. InputsStep
    BY <1>1, <1>2, <1>5, AdvanceInputs
  <2>2. cy.state \notin {"pickup_intent", "clear_intent"}
    BY <1>2, <1>5
  <2> QED
    BY <1>1, <2>1, <2>2, ReleaseRow
<1>6. CASE r.state = "waiting_pickup" /\ kind = "session" /\ AdvanceCycle(r, [r EXCEPT !.displayed = TRUE], "waiting_pickup")
  <2>1. PICK c : c = [r EXCEPT !.displayed = TRUE]
    OBVIOUS
  <2>2. r = cy => SameBut(c)
    BY <1>1, <2>1, RowChanges
  <2>3. r = cy => c.from = cy.from /\ c.displayed
    BY <1>1, <2>1, DisplayedTurns
  <2>4. r = cy => StageMove(c, "waiting_pickup")
    BY <1>6, <2>3 DEF StageMove, PickupMove
  <2>5. "waiting_pickup" \in LiveStages /\ AdvanceCycle(r, c, "waiting_pickup")
    BY <1>6, <2>1 DEF LiveStages
  <2> QED
    BY <1>4, <1>5, <2>2, <2>4, <2>5
<1>7. CASE r.state = "waiting_pickup" /\ AdvanceCycle(r, [r EXCEPT !.from = r.state], "waiting_prompt")
  <2>1. PICK c : c = [r EXCEPT !.from = r.state]
    OBVIOUS
  <2>2. r = cy => SameBut(c)
    BY <1>1, <2>1, RowChanges
  <2>3. r = cy => c.from = cy.state /\ c.succ = cy.succ /\ c.displayed = cy.displayed /\ c.selected = cy.selected
    BY <1>1, <2>1, FromTurns
  <2>4. kind # "hostless"
    BY <1>2, <1>7 DEF CycleInputsInv, ActKnown, HostlessStages
  <2>5. r = cy => StageMove(c, "waiting_prompt")
    BY <1>7, <2>3, <2>4 DEF StageMove, DialogMove
  <2>6. "waiting_prompt" \in LiveStages /\ AdvanceCycle(r, c, "waiting_prompt")
    BY <1>7, <2>1 DEF LiveStages
  <2> QED
    BY <1>4, <1>5, <2>2, <2>5, <2>6
<1>8. CASE r.state = "waiting_prompt" /\ r.from # "waiting_pickup" /\ AdvanceCycle(r, [r EXCEPT !.from = ""], r.from)
  <2>1. PICK c, f : c = [r EXCEPT !.from = ""] /\ f = r.from
    OBVIOUS
  <2>2. AdvanceCycle(r, c, f)
    BY <1>8, <2>1
  <2>3. CASE r = cy
    <3>1. f \in {"ready", "reset_verified"} /\ kind # "hostless"
      BY <1>8, <2>1, <2>3 DEF CycleRowsInv, PromptsKnown, CycleInputsInv, StageKinds
    <3>2. SameBut(c)
      BY <1>1, <2>1, <2>3, RowChanges
    <3>3. c.from = "" /\ c.succ = cy.succ /\ c.displayed = cy.displayed /\ c.selected = cy.selected
      BY <1>1, <2>1, <2>3, FromTurns
    <3>4. StageMove(c, f) /\ f \in LiveStages
      BY <1>8, <2>1, <2>3, <3>1, <3>3 DEF StageMove, DialogMove, LiveStages
    <3> QED
      BY <1>5, <2>2, <2>3, <3>2, <3>4
  <2> QED
    BY <1>4, <2>2, <2>3
<1> QED
  BY <1>2, <1>3, <1>6, <1>7, <1>8 DEF ActOnPickup, ActOnPrompt

LEMMA CtlActInputs ==
    ASSUME CycleRowsInv, CycleInputsInv, CtlAct
    PROVE  CycleInputsInv'
<1>1. /\ CycleShapes /\ RowBefore(inp.row, cy) /\ inp.ph = "act" /\ UNCHANGED <<kind, made, created, newest>>
  BY DEF CycleRowsInv, CycleShapes, RowsAreEarlier, CtlAct, cycleBounds, cycleWorld
<1>2. PICK r : r = inp.row
  OBVIOUS
<1>3. CASE r.state \in {"ready", "reset_verified"} /\ ActOnPane(r)
  BY <1>1, <1>2, <1>3, ActOnPaneInputs
<1>4. CASE r.state \in {"clear_intent", "clear_received"} /\ ActOnReset(r) /\ UNCHANGED work
  BY <1>1, <1>2, <1>4, ActOnResetInputs
<1>5. CASE \/ r.state = "waiting_pickup" /\ ActOnPickup(r) /\ UNCHANGED work
           \/ r.state = "waiting_prompt" /\ ActOnPrompt(r) /\ UNCHANGED work
  BY <1>1, <1>2, <1>5, ActOnPickupInputs
<1>6. CASE /\ \/ UNCHANGED cycleStore \/ EndCycle(r, "cancelled", "reading_stale") \/ EndCycle(r, "failed", "probe")
              \/ EndCycle(r, "uncertain", "unreceipted")
           /\ Release /\ UNCHANGED work
  <2>1. RowStays \/ Ended
    BY <1>6, EndInputs DEF Outcomes, RowStays, cycleStore
  <2> QED
    BY <1>1, <1>6, <2>1, ReleaseRow DEF InputsStep
<1>7. CASE r.state = "compact_waiting" /\ Enter(r, "compact_intent", "compact") /\ UNCHANGED work
  <2>1. r.state \in LiveStages \ {"pickup_intent", "clear_intent"} /\ "compact_intent" \in LiveStages
    BY <1>7 DEF LiveStages
  <2>2. r = cy => StageMove(r, "compact_intent")
    BY <1>7 DEF StageMove, CompactMove, SameFields
  <2>3. r = cy => Enterable("compact", r)
    BY <1>7 DEF Enterable, Inputs, CycleInputsInv, NotYetMade, StageKinds
  <2> QED
    BY <1>1, <1>2, <1>7, <2>1, <2>2, <2>3, EnterInputs
<1> QED
  BY <1>2, <1>3, <1>4, <1>5, <1>6, <1>7 DEF CtlAct, ActOnCompaction, ActOnIntent

LEMMA AnswerLockInputs ==
    ASSUME CycleRowsInv, CycleInputsInv, AnswerLock
    PROVE  CycleInputsInv'
<1>1. /\ CycleShapes /\ RowBefore(reader.row, cy) /\ UNCHANGED <<kind, made, created, newest, work>>
      /\ reader.row.state = "waiting_prompt"
  BY DEF CycleRowsInv, CycleShapes, RowsAreEarlier, AnswerLock, cycleBounds, cycleWorld, AnswersKnown
<1>2. CASE UNCHANGED <<cycleStore, mu, inp>>
  BY <1>1, <1>2, QuietInputs DEF RowStays, cycleStore
<1>3. CASE /\ AdvanceCycle(reader.row, reader.row, "prompt_intent")
           /\ IF Advances(reader.row)
              THEN /\ mu' = "ans"
                   /\ inp' = [ph |-> "input", what |-> "answer", res |-> "", row |-> cy']
              ELSE UNCHANGED <<mu, inp>>
  <2>1. PICK r : r = reader.row
    OBVIOUS
  <2>2. r = cy => kind # "hostless" /\ SameBut(r)
    BY <1>1, <2>1, StoredIsBefore DEF CycleInputsInv, StageKinds
  <2>3. r = cy => StageMove(r, "prompt_intent")
    BY <1>1, <2>1, <2>2 DEF StageMove, DialogMove
  <2>4. r = cy => Enterable("answer", r)
    BY <2>2 DEF Enterable, Inputs
  <2>5. "prompt_intent" \in LiveStages /\ r.state \in LiveStages
    BY <1>1, <2>1 DEF LiveStages
  <2>6. (~Advances(r) => RowStays \/ Ended) /\ (Advances(r) => r = cy /\ Advanced(r, "prompt_intent"))
    BY <1>1, <1>3, <2>1, <2>2, <2>3, <2>5, AdvanceInputs
  <2>7. CASE Advances(r)
    <3>1. cy.state \notin {"pickup_intent", "clear_intent"}
      BY <1>1, <2>1, <2>6, <2>7
    <3> QED
      BY <1>1, <1>3, <2>1, <2>3, <2>4, <2>5, <2>6, <2>7, <3>1, EnteredInputs
  <2>8. CASE ~Advances(r)
    BY <1>1, <1>3, <2>1, <2>6, <2>8, QuietInputs
  <2> QED
    BY <2>7, <2>8
<1> QED
  BY <1>2, <1>3 DEF AnswerLock

-----------------------------------------------------------------------------
(* An input is made, and its effect recorded *)

LEMMA InputFenceInputs ==
    ASSUME CycleRowsInv, CycleInputsInv, InputFence
    PROVE  CycleInputsInv'
<1>1. /\ UNCHANGED <<kind, made, created, newest, work>> /\ RowStays /\ inp.ph = "input" /\ InputForm(inp)
  BY DEF CycleRowsInv, CycleShapes, InputFence, cycleBounds, cycleWorld, cycleStore, RowStays
<1>2. \/ inp'.ph = "key" /\ inp'.res = inp.res
      \/ inp'.ph = "record" /\ inp'.res = "unsent" /\ inp.what # "pickup"
      \/ inp'.ph = "record" /\ inp'.res = "error"
  BY <1>1 DEF InputFence, InputForm
<1>3. inp'.row = inp.row /\ inp'.what = inp.what
  BY <1>1 DEF InputFence, InputForm
<1>4. InputUnderWay' /\ ActKnown'
  BY <1>1, <1>2, <1>3 DEF CycleInputsInv, InputUnderWay, InputPhases, UnderWay, RowStays, ActKnown
<1>5. SendUnderWay' /\ CreateUnderWay' /\ ReceiptKnown'
  BY <1>1, WorkRests DEF InputsStep
<1> QED
  BY <1>1, <1>4, <1>5, InputsStepKeeps DEF InputsStep, CycleInputsInv, StagesKept

\* An input of the stored row is counted once, and stays pending until its effect is recorded.
LEMMA MakeInputs ==
    ASSUME CycleRowsInv, CycleInputsInv, UNCHANGED <<kind, cy>>, newest' \in Nat,
           NEW what \in Inputs, NEW row, Make(what, row), UnderWay(row, cy), row.state = StageOfInput(what),
           row.id = cy.id /\ what # "answer" => made[what] = 0,
           row = cy => Unproven(what, cy), what = "select" => row.selected,
           kind = "hostless" /\ BeforeClear(cy) => created' = created
    PROVE  /\ StagesKept /\ MadeKnown' /\ EndsHonestly' /\ InputMadeOnce'
           /\ \A i \in Inputs \ {what} : made'[i] = made[i]
           /\ \A i \in Inputs : made[i] # 0 => made'[i] # 0
<1>1. /\ made \in [Inputs -> 0 .. 2] /\ \A i \in pending : i \in Inputs /\ made[i] # 0
  BY DEF CycleInputsInv, MadeKnown
<1>2. CASE row.id # cy.id
  <2>1. made' = made /\ pending' = pending
    BY <1>2 DEF Make
  <2>2. StageKinds' /\ PendingKnown'
    BY <2>1 DEF CycleInputsInv, StageKinds, PendingKnown, Unproven, AwaitingPickup, Unfinished
  <2>3. NotYetMade'
    BY <2>1 DEF CycleInputsInv, NotYetMade, BeforeClear, AtStage
  <2>4. MadeKnown' /\ EndsHonestly' /\ InputMadeOnce'
    BY <1>1, <2>1 DEF CycleInputsInv, MadeKnown, EndsHonestly, InputMadeOnce
  <2> QED
    BY <2>1, <2>2, <2>3, <2>4 DEF StagesKept
<1>3. CASE row.id = cy.id
  <2>1. /\ made' = [made EXCEPT ![what] = IF made[what] < 2 THEN made[what] + 1 ELSE made[what]]
        /\ pending' = pending \cup {what}
    BY <1>3 DEF Make
  <2>2. /\ made' \in [Inputs -> 0 .. 2] /\ made'[what] # 0 /\ (what # "answer" => made'[what] = 1)
        /\ \A i \in Inputs \ {what} : made'[i] = made[i]
    BY <1>1, <1>3, <2>1
  <2>3. MadeKnown'
    BY <1>1, <2>1, <2>2 DEF MadeKnown
  <2>4. InputMadeOnce'
    BY <1>1, <2>2 DEF CycleInputsInv, InputMadeOnce
  <2>5. row = cy \/ cy.state \in {"uncertain", "complete"}
    BY <1>3 DEF UnderWay
  <2>6. StageKinds'
    BY DEF CycleInputsInv, StageKinds, AwaitingPickup, Unfinished
  <2>7. PendingKnown'
    <3>1. Unfinished => \A i \in pending \cup {what} : Unproven(i, cy)
      BY <2>5 DEF CycleInputsInv, PendingKnown, Unfinished, CycleTerminal
    <3> QED
      BY <2>1, <3>1 DEF PendingKnown, Unfinished, Unproven, AwaitingPickup
  <2>8. NotYetMade'
    <3>1. CASE cy.state \in {"uncertain", "complete"}
      BY <3>1 DEF NotYetMade, BeforeClear, AtStage
    <3>2. CASE row = cy
      <4>1. CASE what \in {"clear", "create"}
        BY <2>2, <3>2, <4>1 DEF CycleInputsInv, NotYetMade, BeforeClear, AtStage, StageOfInput, Inputs
      <4>2. CASE what = "select"
        BY <2>2, <3>2, <4>2 DEF CycleInputsInv, NotYetMade, BeforeClear, AtStage, StageOfInput, Inputs
      <4>3. CASE what \in {"pickup", "compact"}
        BY <3>2, <4>3 DEF NotYetMade, BeforeClear, AtStage, StageOfInput, Inputs
      <4>4. CASE what = "answer"
        BY <2>2, <3>2, <4>4 DEF CycleInputsInv, NotYetMade, BeforeClear, AtStage, StageOfInput, Inputs
      <4> QED
        BY <4>1, <4>2, <4>3, <4>4 DEF Inputs
    <3> QED
      BY <2>5, <3>1, <3>2
  <2>9. EndsHonestly'
    BY <2>5 DEF EndsHonestly, StageOfInput, Inputs
  <2> QED
    BY <1>1, <2>2, <2>3, <2>4, <2>6, <2>7, <2>8, <2>9 DEF StagesKept
<1> QED
  BY <1>2, <1>3

LEMMA InputKeyInputs ==
    ASSUME CycleRowsInv, CycleInputsInv, InputKey
    PROVE  CycleInputsInv'
<1>1. /\ UNCHANGED <<kind, cy, work>> /\ inp.ph = "key" /\ InputForm(inp)
  BY DEF CycleRowsInv, CycleShapes, InputKey, cycleBounds
<1>2. inp'.ph = "record" /\ inp'.res \in {"ok", "error"} /\ inp'.row = inp.row /\ inp'.what = inp.what
  BY <1>1 DEF InputKey, InputForm
<1>3. /\ inp.what \in Inputs /\ inp.row.state = StageOfInput(inp.what) /\ UnderWay(inp.row, cy) /\ kind # "hostless"
      /\ inp.what = "clear" => kind = "pane"
      /\ inp.what \in {"create", "select"} => kind = "session"
      /\ inp.what = "pickup" => kind = "pane"
      /\ inp.what = "select" => inp.row.selected
      /\ inp.row.id = cy.id /\ inp.what # "answer" /\ ~(inp.what = "create" /\ inp.row.succ # 0) => made[inp.what] = 0
  BY <1>1 DEF CycleRowsInv, InputsKnown, CycleInputsInv, InputUnderWay, InputPhases
<1>4. CASE inp.what = "create" /\ inp.row.succ # 0
  <2>1. UNCHANGED <<made, pending, created, newest>>
    BY <1>4 DEF InputKey
  <2>2. InputUnderWay' /\ ActKnown'
    BY <1>1, <1>2, <1>3, <1>4, <2>1 DEF InputUnderWay, UnderWay, ActKnown
  <2>3. InputsStep
    BY <1>1, <2>1 DEF InputsStep, RowStays
  <2>4. SendUnderWay' /\ CreateUnderWay' /\ ReceiptKnown'
    BY <1>1, <2>1, <2>3, WorkRests DEF RowStays
  <2> QED
    BY <1>1, <2>1, <2>2, <2>3, <2>4, InputsStepKeeps DEF CycleInputsInv, StagesKept
<1>5. CASE ~(inp.what = "create" /\ inp.row.succ # 0)
  <2>1. PICK w, r : w = inp.what /\ r = inp.row
    OBVIOUS
  <2>2. /\ Make(w, r)
        /\ newest' = IF w \in {"clear", "create"} THEN newest + 1 ELSE newest
        /\ created' = IF w = "create" THEN newest + 1 ELSE created
    BY <1>5, <2>1 DEF InputKey
  <2>3. newest \in Nat /\ newest' \in Nat /\ (w = "create" => created' # 0)
    BY <2>2 DEF CycleInputsInv, MadeKnown
  <2>4. r = cy => Unproven(w, cy)
    BY <1>3, <1>5, <2>1 DEF Unproven, StageOfInput, Inputs
  <2>5. /\ StagesKept /\ MadeKnown' /\ EndsHonestly' /\ InputMadeOnce'
        /\ \A i \in Inputs \ {w} : made'[i] = made[i]
        /\ \A i \in Inputs : made[i] # 0 => made'[i] # 0
    BY <1>1, <1>3, <1>5, <2>1, <2>2, <2>3, <2>4, MakeInputs
  <2>6. InputUnderWay' /\ ActKnown'
    BY <1>1, <1>2, <1>3, <2>1, <2>3 DEF InputUnderWay, UnderWay, ActKnown
  <2>7. SendUnderWay'
    <3>1. work.run \in {"send", "post"} => made'["pickup"] = made["pickup"]
      BY <1>3, <2>1, <2>5 DEF CycleInputsInv, SendUnderWay, Inputs
    <3> QED
      BY <1>1, <3>1 DEF CycleInputsInv, SendUnderWay, UnderWay
  <2>8. CreateUnderWay'
    BY <1>1, <1>3 DEF CycleInputsInv, CreateUnderWay
  <2>9. ReceiptKnown'
    BY <1>1, <2>5 DEF CycleInputsInv, ReceiptKnown, Inputs
  <2> QED
    BY <2>5, <2>6, <2>7, <2>8, <2>9 DEF CycleInputsInv, StagesKept
<1> QED
  BY <1>4, <1>5

LEMMA InputRecordInputs ==
    ASSUME CycleRowsInv, CycleInputsInv, InputRecord
    PROVE  CycleInputsInv'
<1>1. /\ CycleShapes /\ RowBefore(inp.row, cy) /\ UNCHANGED <<kind, made, created, newest, work>>
      /\ Release /\ inp.ph = "record" /\ kind \in {"pane", "session", "hostless", "compact"}
  BY CycleAssumption DEF CycleRowsInv, CycleShapes, RowsAreEarlier, InputRecord, cycleBounds, cycleWorld, CycleAssumption
<1>2. inp.what \in Inputs /\ inp.row.state = StageOfInput(inp.what)
  BY <1>1 DEF CycleRowsInv, InputsKnown, InputPhases
<1>3. PICK r : r = inp.row
  OBVIOUS
<1>4. /\ r.state \in LiveStages
      /\ inp.what \in {"clear", "create"} => r.state = "clear_intent"
      /\ inp.what = "select" => r.state = "clear_received"
      /\ inp.what = "pickup" => r.state = "pickup_intent"
      /\ inp.what = "compact" => r.state = "compact_intent"
      /\ inp.what = "answer" => r.state = "prompt_intent"
  BY <1>2, <1>3 DEF StageOfInput, Inputs, LiveStages
<1>5. /\ kind # "hostless"
      /\ inp.what = "clear" => kind = "pane"
      /\ inp.what \in {"create", "select"} => kind = "session"
      /\ inp.what = "pickup" => kind = "pane" /\ inp.res # "unsent"
      /\ r = cy /\ inp.what # "answer" /\ inp.res = "unsent" /\ ~(inp.what = "create" /\ r.succ # 0) => made[inp.what] = 0
      /\ r = cy /\ inp.what = "create" /\ r.succ = 0 /\ inp.res \notin {"error", "unsent"} => created # 0
  BY <1>1, <1>3 DEF CycleInputsInv, InputUnderWay, InputPhases
<1>6. CASE RowStays \/ Ended
  BY <1>1, <1>6, ReleaseRow DEF InputsStep
<1>7. ASSUME NEW c, NEW to, AdvanceCycle(r, c, to), r = cy => SameBut(c) /\ to \in LiveStages /\ StageMove(c, to)
      PROVE  CycleInputsInv'
  <2>1. CASE r = cy
    <3>1. InputsStep
      BY <1>1, <1>3, <1>4, <1>7, <2>1, AdvanceInputs
    <3>2. \/ kind \in {"pane", "compact"} \/ cy.state \notin {"pickup_intent", "clear_intent"}
          \/ (kind = "session" /\ cy.state = "clear_intent")
      BY <1>1, <1>2, <1>4, <1>5, <2>1 DEF Inputs
    <3> QED
      BY <1>1, <3>1, <3>2, ReleaseRow
  <2>2. CASE r # cy
    BY <1>1, <1>3, <1>6, <1>7, <2>2, StaleStep DEF Kept, RowStays
  <2> QED
    BY <2>1, <2>2
<1>8. r = cy => SameBut(r) /\ SameFields(r)
  BY <1>1, StoredIsBefore DEF SameFields
<1>9. CASE EndCycle(r, "uncertain", "unreceived") \/ UNCHANGED cycleStore
  BY <1>6, <1>9, EndInputs DEF Outcomes, RowStays, cycleStore
<1>10. CASE inp.res = "unsent" /\ inp.what = "select" /\ AdvanceCycle(r, [r EXCEPT !.selected = FALSE], "ready")
  <2>1. PICK c : c = [r EXCEPT !.selected = FALSE]
    OBVIOUS
  <2>2. r = cy => SameBut(c)
    BY <1>1, <2>1, RowChanges
  <2>3. r = cy => c.from = cy.from /\ c.succ = cy.succ /\ c.displayed = cy.displayed
    BY <1>1, <2>1, SelectedTurns
  <2>4. r = cy => StageMove(c, "ready") /\ "ready" \in LiveStages
    BY <1>4, <1>5, <1>10, <2>3 DEF StageMove, BackMove, LiveStages
  <2> QED
    BY <1>7, <1>10, <2>1, <2>2, <2>4
<1>11. CASE inp.res = "unsent" /\ inp.what = "compact" /\ AdvanceCycle(r, r, "compact_waiting")
  <2>1. r = cy => StageMove(r, "compact_waiting") /\ "compact_waiting" \in LiveStages
    BY <1>4, <1>5, <1>8, <1>11 DEF StageMove, CompactMove, LiveStages
  <2> QED
    BY <1>7, <1>8, <1>11, <2>1
<1>12. CASE inp.what = "answer" /\ AdvanceCycle(r, r, "waiting_prompt")
  <2>1. r = cy => StageMove(r, "waiting_prompt") /\ "waiting_prompt" \in LiveStages
    BY <1>4, <1>5, <1>12 DEF StageMove, DialogMove, LiveStages
  <2> QED
    BY <1>7, <1>8, <1>12, <2>1
<1>13. CASE inp.res = "unsent" /\ inp.what \in {"clear", "create", "pickup"} /\ AdvanceCycle(r, r, "ready")
  <2>1. r = cy => StageMove(r, "ready") /\ "ready" \in LiveStages
    BY <1>4, <1>5, <1>8, <1>13 DEF StageMove, BackMove, SameFields, LiveStages
  <2> QED
    BY <1>7, <1>8, <1>13, <2>1
<1>14. CASE inp.what = "clear" /\ AdvanceCycle(r, r, "clear_received")
  <2>1. r = cy => StageMove(r, "clear_received") /\ "clear_received" \in LiveStages
    BY <1>4, <1>5, <1>8, <1>14 DEF StageMove, ClearMove, SameFields, LiveStages
  <2> QED
    BY <1>7, <1>8, <1>14, <2>1
<1>15. CASE /\ inp.res \notin {"error", "unsent"} /\ inp.what = "create"
            /\ AdvanceCycle(r, [r EXCEPT !.succ = IF r.succ # 0 THEN r.succ ELSE created, !.selected = FALSE], "clear_received")
  <2>1. PICK n, c : /\ n = (IF r.succ # 0 THEN r.succ ELSE created)
                    /\ c = [r EXCEPT !.succ = IF r.succ # 0 THEN r.succ ELSE created, !.selected = FALSE]
    OBVIOUS
  <2>2. c = [r EXCEPT !.succ = n, !.selected = FALSE] /\ AdvanceCycle(r, c, "clear_received")
    BY <1>15, <2>1
  <2>3. r = cy => n # 0
    BY <1>5, <1>15, <2>1
  <2>4. r = cy => SameBut(c)
    BY <1>1, <2>2, RowChanges
  <2>5. r = cy => c.from = cy.from /\ c.succ = n /\ c.displayed = cy.displayed
    BY <1>1, <2>2, SuccSelectedTurns
  <2>6. r = cy => StageMove(c, "clear_received") /\ "clear_received" \in LiveStages
    BY <1>4, <1>15, <2>3, <2>5 DEF StageMove, ClearMove, LiveStages
  <2> QED
    BY <1>7, <2>2, <2>4, <2>6
<1>16. CASE inp.what = "pickup" /\ AdvanceCycle(r, r, "waiting_pickup")
  <2>1. r = cy => StageMove(r, "waiting_pickup") /\ "waiting_pickup" \in LiveStages
    BY <1>4, <1>8, <1>16 DEF StageMove, PickupMove, SameFields, LiveStages
  <2> QED
    BY <1>7, <1>8, <1>16, <2>1
<1>17. CASE inp.what = "compact" /\ AdvanceCycle(r, r, "compact_sent")
  <2>1. r = cy => StageMove(r, "compact_sent") /\ "compact_sent" \in LiveStages
    BY <1>4, <1>8, <1>17 DEF StageMove, CompactMove, LiveStages
  <2> QED
    BY <1>7, <1>8, <1>17, <2>1
<1>18. CASE inp.what = "answer" /\ r.from # "waiting_pickup" /\ AdvanceCycle(r, [r EXCEPT !.from = ""], r.from)
  <2>1. PICK c, f : c = [r EXCEPT !.from = ""] /\ f = r.from
    OBVIOUS
  <2>2. AdvanceCycle(r, c, f)
    BY <1>18, <2>1
  <2>3. r = cy => SameBut(c)
    BY <1>1, <2>1, RowChanges
  <2>4. r = cy => c.from = "" /\ c.succ = cy.succ /\ c.displayed = cy.displayed /\ c.selected = cy.selected
    <3>1. ASSUME r = cy
          PROVE  c.from = "" /\ c.succ = cy.succ /\ c.displayed = cy.displayed /\ c.selected = cy.selected
      <4>1. c = [cy EXCEPT !.from = ""]
        BY <2>1, <3>1
      <4> QED
        BY <1>1, <4>1, FromTurns
    <3> QED
      BY <3>1
  <2>5. r = cy => f \in {"ready", "reset_verified"}
    BY <1>4, <1>18, <2>1 DEF CycleRowsInv, PromptsKnown
  <2>6. r = cy => StageMove(c, f) /\ f \in LiveStages
    BY <1>4, <1>5, <1>18, <2>1, <2>4, <2>5 DEF StageMove, DialogMove, LiveStages
  <2> QED
    BY <1>7, <2>2, <2>3, <2>6
<1> QED
  BY <1>2, <1>3, <1>9, <1>10, <1>11, <1>12, <1>13, <1>14, <1>15, <1>16, <1>17, <1>18, RecordCases

LEMMA WorkerInputs ==
    ASSUME CycleRowsInv, CycleInputsInv, Worker
    PROVE  CycleInputsInv'
<1>1. /\ UNCHANGED <<kind, cy, inp>> /\ WorkForm(work)
  BY DEF CycleRowsInv, CycleShapes, Worker, WorkerRead, WorkerCreate, WorkerCreating, WorkerSend, WorkerPost, WorkerReceipt,
         cycleStore, cycleBounds
<1>2. ASSUME UNCHANGED <<made, created, newest, pending>>, SendUnderWay', CreateUnderWay', ReceiptKnown'
      PROVE  CycleInputsInv'
  BY <1>1, <1>2, InputsStepKeeps, InputRests DEF InputsStep, RowStays, CycleInputsInv, StagesKept
<1>3. CASE WorkerRead
  <2>1. UNCHANGED <<made, created, newest, pending>> /\ work'.run = "none" /\ work'.out \in {"idle", "busy"}
    BY <1>1, <1>3 DEF WorkerRead, cycleStore, cycleWorld, WorkForm
  <2> QED
    BY <1>1, <1>2, <2>1, OtherWorkRests
<1>4. CASE WorkerCreate
  <2>1. UNCHANGED <<made, created, newest, pending>> /\ work.run = "create" /\ work'.row = work.row
    BY <1>1, <1>4 DEF WorkerCreate, cycleStore, cycleWorld, WorkForm
  <2>2. \/ work'.run = "none" /\ work'.out \in {"busy", "conflict", "created"}
        \/ work'.run = "none" /\ work'.out = "unsent" /\ created = 0
        \/ work'.run = "creating" /\ work'.out = work.out /\ created = 0 /\ CycleFence(work.row)
    BY <1>1, <1>4 DEF WorkerCreate, WorkForm
  <2>3. SendUnderWay'
    BY <2>2 DEF SendUnderWay
  <2>4. work'.run = "creating" => work.row = cy
    BY <2>2, FencedIsStored DEF CycleFence, CycleRowsInv, RowsAreEarlier
  <2>5. CreateUnderWay' /\ ReceiptKnown'
    BY <1>1, <2>1, <2>2, <2>4 DEF CycleInputsInv, CreateUnderWay, UnderWay, ReceiptKnown
  <2> QED
    BY <1>2, <2>1, <2>3, <2>5
<1>5. CASE WorkerCreating
  <2>1. /\ work.run = "creating" /\ work'.run = "none" /\ work'.out \in {"created", "busy"}
        /\ Make("create", work.row)
        /\ IF work.row.id = cy.id THEN newest' = newest + 1 /\ created' = newest + 1 ELSE UNCHANGED <<newest, created>>
    BY <1>1, <1>5 DEF WorkerCreating, WorkForm
  <2>2. /\ kind = "hostless" /\ work.row.state = "clear_intent" /\ UnderWay(work.row, cy)
        /\ work.row.id = cy.id => created = 0 /\ made["create"] = 0
    BY <2>1 DEF CycleInputsInv, CreateUnderWay
  <2>3. newest \in Nat /\ newest' \in Nat /\ (work.row.id = cy.id => created' # 0)
    BY <2>1 DEF CycleInputsInv, MadeKnown
  <2>4. "create" \in Inputs /\ StageOfInput("create") = "clear_intent"
    BY DEF Inputs, StageOfInput
  <2>5. work.row = cy => Unproven("create", cy)
    BY <2>2 DEF Unproven
  <2>6. BeforeClear(cy) => created' = created
    BY <2>1, <2>2 DEF BeforeClear, AtStage, UnderWay
  <2>7. /\ StagesKept /\ MadeKnown' /\ EndsHonestly' /\ InputMadeOnce'
        /\ \A i \in Inputs \ {"create"} : made'[i] = made[i]
    BY <1>1, <2>1, <2>2, <2>3, <2>4, <2>5, <2>6, MakeInputs
  <2>8. inp.ph \notin InputPhases
    BY <2>2, HostlessInput
  <2>9. InputUnderWay' /\ ActKnown'
    BY <1>1, <2>8 DEF InputUnderWay, CycleInputsInv, ActKnown
  <2>10. SendUnderWay' /\ ReceiptKnown'
    BY <2>1 DEF SendUnderWay, ReceiptKnown
  <2>11. CreateUnderWay'
    BY <1>1, <2>1, <2>3 DEF CycleInputsInv, CreateUnderWay, Make
  <2> QED
    BY <2>7, <2>9, <2>10, <2>11 DEF CycleInputsInv, StagesKept
<1>6. CASE WorkerSend
  <2>1. UNCHANGED <<made, created, newest, pending>> /\ work.run = "send" /\ work'.row = work.row /\ work'.out = work.out
        /\ work'.run \in {"post", "receipt"}
    BY <1>1, <1>6 DEF WorkerSend, cycleStore, cycleWorld, WorkForm
  <2>2. SendUnderWay' /\ CreateUnderWay' /\ ReceiptKnown'
    BY <1>1, <2>1 DEF CycleInputsInv, SendUnderWay, CreateUnderWay, ReceiptKnown
  <2> QED
    BY <1>2, <2>1, <2>2
<1>7. CASE WorkerPost
  <2>1. /\ work.run = "post" /\ Make("pickup", work.row) /\ UNCHANGED <<newest, created>>
        /\ work'.run \in {"receipt", "none"} /\ work'.out = work.out
    BY <1>1, <1>7 DEF WorkerPost, WorkForm
  <2>2. /\ kind \in {"session", "hostless"} /\ work.row.state = "pickup_intent" /\ UnderWay(work.row, cy)
        /\ work.out \in {"none", "missing"} /\ (work.row.id = cy.id => made["pickup"] = 0)
    BY <2>1 DEF CycleInputsInv, SendUnderWay
  <2>3. "pickup" \in Inputs /\ StageOfInput("pickup") = "pickup_intent" /\ newest' \in Nat
    BY <2>1 DEF Inputs, StageOfInput, CycleInputsInv, MadeKnown
  <2>4. work.row = cy => Unproven("pickup", cy)
    BY <2>2 DEF Unproven
  <2>5. /\ StagesKept /\ MadeKnown' /\ EndsHonestly' /\ InputMadeOnce'
        /\ \A i \in Inputs \ {"pickup"} : made'[i] = made[i]
    BY <1>1, <2>1, <2>2, <2>3, <2>4, MakeInputs
  <2>6. inp.ph \in InputPhases => made'[inp.what] = made[inp.what]
    BY <2>2, <2>5 DEF CycleInputsInv, InputUnderWay, CycleRowsInv, InputsKnown
  <2>7. InputUnderWay' /\ ActKnown'
    BY <1>1, <2>1, <2>6 DEF CycleInputsInv, InputUnderWay, UnderWay, ActKnown
  <2>8. SendUnderWay' /\ ReceiptKnown'
    BY <2>1, <2>2 DEF SendUnderWay, ReceiptKnown
  <2>9. CreateUnderWay'
    BY <1>1, <2>1, <2>2, <2>5 DEF CycleInputsInv, CreateUnderWay, Inputs
  <2> QED
    BY <2>5, <2>7, <2>8, <2>9 DEF CycleInputsInv, StagesKept
<1>8. CASE WorkerReceipt
  <2>1. /\ UNCHANGED <<made, created, newest, pending>> /\ work'.row = work.row
        /\ \/ work'.run = "none" /\ work'.out = "received" /\ made["pickup"] > 0
           \/ work'.run = "none" /\ work'.out = "missing"
           \/ work'.run = "post" /\ work.run = "post" /\ work'.out = "missing"
    BY <1>1, <1>8 DEF WorkerReceipt, cycleStore, cycleWorld, WorkForm
  <2>2. SendUnderWay' /\ CreateUnderWay' /\ ReceiptKnown'
    BY <1>1, <2>1 DEF CycleInputsInv, SendUnderWay, CreateUnderWay, ReceiptKnown
  <2> QED
    BY <1>2, <2>1, <2>2
<1> QED
  BY <1>3, <1>4, <1>5, <1>6, <1>7, <1>8 DEF Worker

-----------------------------------------------------------------------------
(* The inputs of every cycle *)

LEMMA CycleStepInputs == CycleRowsInv /\ CycleInputsInv /\ [CycleNext]_cycleVars => CycleInputsInv'
<1> SUFFICES ASSUME CycleRowsInv, CycleInputsInv, [CycleNext]_cycleVars
             PROVE  CycleInputsInv'
  OBVIOUS
<1>1. CASE UNCHANGED cycleVars
  BY <1>1, QuietInputs DEF cycleVars, cycleStore, cycleWorld, cycleBounds, RowStays
<1>2. CASE \/ ObserveRead \/ ObserveEnd \/ PickupRead \/ PickupRefused \/ (\E retained \in BOOLEAN : PickupWrite(retained))
           \/ AnswerRead \/ NoteInboxRead \/ (\E on \in BOOLEAN : SetContextEnable(on)) \/ FenceCycles
           \/ ReadingBelow \/ CtlRead \/ WakeStart \/ WakeEnd
           \/ (\E d \in {"stage", "ask", "prompt", "cycle"} : CycleElapse(d))
  BY <1>2, QuietStepsInputs
<1>3. CASE Admit \/ ContextCycleReady \/ Stray \/ CycleStop
  BY <1>3, AdmitInputs, ReadyAndReceiptInputs, StrayAndStopInputs
<1>4. CASE CtlStep \/ CtlAct \/ AnswerLock
  BY <1>4, CtlStepInputs, CtlActInputs, AnswerLockInputs
<1>5. CASE Input \/ Worker
  BY <1>5, InputFenceInputs, InputKeyInputs, InputRecordInputs, WorkerInputs DEF Input
<1> QED
  BY <1>1, <1>2, <1>3, <1>4, <1>5 DEF CycleNext

LEMMA CycleInputsHold == CycleSpec => []CycleInputsInv
BY CycleInitInputs, CycleRowsHold, CycleStepInputs, PTL DEF CycleSpec

\* No input of a cycle is made twice, for any number of cycles, events, stops of the daemon and
\* clears of the user: not after a lost receipt, a refused input, a return to an earlier stage, a
\* stop between an input and its record, or a worker that works on an older row (enterInput,
\* createSuccessor, selectSuccessor, startPickup, stepCompaction, hostlessWork).
THEOREM InputMadeOnceThm == CycleSpec => []InputMadeOnce
<1>1. CycleInputsInv => InputMadeOnce
  BY DEF CycleInputsInv
<1> QED
  BY <1>1, CycleInputsHold, PTL

\* A cycle that ends failed or cancelled left no input whose effect is not recorded, and an
\* unfinished one keeps the pages and the event that its outcome needs (endCycleTx,
\* cycleUnproven, cycleEvent, advanceCycle).
THEOREM OutcomesSoundThm == CycleSpec => []OutcomesSound
<1>1. CycleRowsInv /\ CycleInputsInv => OutcomesSound
  BY DEF CycleRowsInv, CycleInputsInv, OutcomesSound
<1> QED
  BY <1>1, CycleRowsHold, CycleInputsHold, PTL

=============================================================================
