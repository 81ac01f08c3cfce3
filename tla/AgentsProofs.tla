---------------------------- MODULE AgentsProofs ----------------------------
(***************************************************************************)
(* What holds for any number of messages, attempts and interventions of    *)
(* the end of a session's data, of the wake adapters' verdicts, of the     *)
(* keys that a cycle's adapter sends to a pane, of the readings on which   *)
(* cycles are admitted and compactions made, and of the logs in which an   *)
(* adapter looks for a turn.                                               *)
(***************************************************************************)
EXTENDS Purge, Notices, Keys, Readings, Transcript, WellFoundedInduction, TLAPS

-----------------------------------------------------------------------------
(* The end of a session's data *)

\* The records have their fields, and the claim one of its states.
RowShape(r) == r = [state |-> r.state, marked |-> r.marked, past |-> r.past, rev |-> r.rev,
                    last |-> r.last, acked |-> r.acked]
SweepShape(s) == s = [step |-> s.step, seen |-> s.seen, budget |-> s.budget]
LeaseType == [state : {"none", "live", "lapsed"}, rev : Nat]
PurgeShapes == RowShape(row) /\ SweepShape(sweep) /\ lease \in LeaseType

\* The purge lock keeps the mark from its reading to the release of the claim.
LockKeepsMark == sweep.step = "release" => row.marked /\ purgeLock = "sweep"

PurgeInv == PurgeShapes /\ LockKeepsMark /\ NothingTakenUnmarked

LEMMA PurgeInitInv == PurgeInit => PurgeInv
BY DEF PurgeInit, PurgeInv, PurgeShapes, RowShape, SweepShape, LeaseType, RowShape, SweepShape, LockKeepsMark, NothingTakenUnmarked, NoSweep

\* What the session and the maintainer do leaves the sweep alone, and the mark while it
\* holds the lock.
LEMMA SessionStepsKeep ==
    ASSUME PurgeInv, \/ Register \/ Expires \/ PeriodPasses \/ MessageArrives \/ Acks \/ ClaimWorks \/ Lapses
                     \/ CleanupSelects \/ CleanupMarks \/ CleanupRetires \/ CleanupClears
                     \/ CleanupReleases \/ CleanupPrunes \/ RoomDeleted
    PROVE  PurgeInv'
<1>. USE DEF PurgeInv, PurgeShapes, RowShape, SweepShape
<1>1. UNCHANGED <<sweep, purgeLock, losses>>
  BY DEF Register, Expires, PeriodPasses, MessageArrives, Acks, ClaimWorks, Lapses, CleanupSelects, CleanupMarks,
     CleanupRetires, CleanupClears, CleanupReleases, CleanupPrunes, RoomDeleted
<1>2. /\ RowShape(row')
      /\ purgeLock # "free" => row'.marked = row.marked
  <2>1. CASE Register \/ Expires \/ PeriodPasses \/ MessageArrives \/ Acks
    BY <2>1 DEF Register, Expires, PeriodPasses, MessageArrives, Acks
  <2>2. CASE CleanupMarks
    BY <2>2 DEF CleanupMarks, MarkPurge, UnmarkPurge
  <2>3. CASE CleanupRetires \/ CleanupClears
    BY <2>3 DEF CleanupRetires, CleanupClears
  <2>4. CASE ClaimWorks \/ Lapses \/ CleanupSelects \/ CleanupReleases \/ CleanupPrunes \/ RoomDeleted
    BY <2>4 DEF ClaimWorks, Lapses, CleanupSelects, CleanupReleases, CleanupPrunes, RoomDeleted
  <2>. QED
    BY <2>1, <2>2, <2>3, <2>4
<1>3. lease' \in LeaseType
  BY DEF LeaseType, Register, Expires, PeriodPasses, MessageArrives, Acks, ClaimWorks, Lapses, CleanupSelects,
     CleanupMarks, CleanupRetires, CleanupClears, CleanupReleases, ReleasedLease, CleanupPrunes, RoomDeleted
<1>. QED
  BY <1>1, <1>2, <1>3 DEF LockKeepsMark, NothingTakenUnmarked

\* The sweep's own steps: each one reads the mark again before it takes anything.
LEMMA SweepStepsKeep ==
    ASSUME PurgeInv, \/ SweepBegins \/ PurgeReads \/ PurgeLocks \/ PurgeReleases \/ PurgeStands \/ PurgeBatch
                     \/ PurgeDeletes \/ DeleteAcknowledged \/ SelectInactive \/ DeleteInactive
    PROVE  PurgeInv'
<1>. USE DEF PurgeInv, PurgeShapes, RowShape, SweepShape, SweepTo, NothingTakenUnmarked
<1>0. SweepShape(NoSweep) /\ NoSweep.step = "idle"
  BY DEF NoSweep
<1>1. CASE SweepBegins \/ PurgeReads \/ PurgeStands \/ DeleteAcknowledged \/ SelectInactive
  <2>1. UNCHANGED <<row, lease, purgeLock, losses>>
    BY <1>1 DEF SweepBegins, PurgeReads, PurgeStands, DeleteAcknowledged, SelectInactive
  <2>2. SweepShape(sweep') /\ sweep'.step # "release"
    <3>1. CASE SweepBegins
      BY <3>1 DEF SweepBegins
    <3>2. CASE PurgeReads
      BY <3>2 DEF PurgeReads, LeaseType
    <3>3. CASE PurgeStands \/ DeleteAcknowledged
      BY <3>3 DEF PurgeStands, DeleteAcknowledged
    <3>4. CASE SelectInactive
      BY <1>0, <3>4 DEF SelectInactive
    <3>. QED
      BY <1>1, <3>1, <3>2, <3>3, <3>4
  <2>. QED
    BY <2>1, <2>2 DEF LockKeepsMark
<1>2. CASE PurgeLocks
  BY <1>2 DEF PurgeLocks, LockPurge, LockKeepsMark
<1>3. CASE PurgeReleases
  <2>1. row.marked /\ UNCHANGED row
    BY <1>3 DEF PurgeReleases, LockKeepsMark
  <2>2. losses' = losses
    BY <1>3, <2>1 DEF PurgeReleases
  <2>3. SweepShape(sweep') /\ sweep'.step # "release"
    BY <1>3 DEF PurgeReleases
  <2>4. lease' \in LeaseType
    BY <1>3 DEF PurgeReleases, ReleasedLease, LeaseType
  <2>. QED
    BY <2>1, <2>2, <2>3, <2>4 DEF LockKeepsMark
<1>4. CASE PurgeBatch
  <2>. DEFINE limit == AtMost(CullBatch, sweep.budget)
              taken == IF row.state # "gone" /\ row.marked THEN Oldest(inbox, limit) ELSE {}
              left == sweep.budget - Cardinality(taken)
  <2>1. UNCHANGED <<row, lease, purgeLock>>
    BY <1>4 DEF PurgeBatch
  <2>2. /\ losses' = IF ~row.marked /\ \E m \in taken : Unread(m) THEN losses \cup {"message"} ELSE losses
        /\ sweep' = IF left = 0 THEN NoSweep
                    ELSE [sweep EXCEPT !.budget = left,
                                       !.step = IF Cardinality(taken) < limit THEN "purge" ELSE "batch"]
    BY <1>4 DEF PurgeBatch
  <2>3. ~row.marked => taken = {}
    OBVIOUS
  <2>. HIDE DEF limit, taken, left
  <2>4. losses' = losses
    BY <2>2, <2>3
  <2>5. SweepShape(sweep') /\ sweep'.step # "release"
    BY <1>0, <2>2
  <2>. QED
    BY <2>1, <2>4, <2>5 DEF LockKeepsMark
<1>5. CASE PurgeDeletes
  <2>1. SweepShape(sweep') /\ sweep'.step # "release" /\ UNCHANGED <<lease, purgeLock, losses>>
    BY <1>5 DEF PurgeDeletes
  <2>2. RowShape(row')
    BY <1>5 DEF PurgeDeletes, GoneRow
  <2>. QED
    BY <2>1, <2>2 DEF LockKeepsMark
<1>6. CASE DeleteInactive
  <2>1. SweepShape(sweep') /\ sweep'.step # "release" /\ UNCHANGED <<lease, purgeLock>>
    BY <1>0, <1>6 DEF DeleteInactive
  <2>2. RowShape(row')
    BY <1>6 DEF DeleteInactive, GoneRow
  <2>3. RetentionDeletes => inbox = {} /\ ~LiveClaim /\ row.state # "active"
    BY DEF RetentionDeletes, RetentionDue, Deletable, Inactive
  <2>4. losses' = losses
    BY <1>6, <2>3 DEF DeleteInactive
  <2>. QED
    BY <2>1, <2>2, <2>4 DEF LockKeepsMark
<1>. QED
  BY <1>1, <1>2, <1>3, <1>4, <1>5, <1>6

\* Only a purge mark that stands at that moment takes a claim or an unread message, and
\* retention deletes nothing that came back, got a message or holds a claim, however the
\* sweep's selections have aged (releaseMarked, deletePurgedBatch, deleteSession).
THEOREM NothingTakenUnmarkedThm == PurgeSpec => []NothingTakenUnmarked
<1>1. ASSUME PurgeInv, [PurgeNext]_purgeVars
      PROVE  PurgeInv'
  <2>1. CASE UNCHANGED purgeVars
    BY <1>1, <2>1 DEF purgeVars, PurgeInv, PurgeShapes, RowShape, SweepShape, LockKeepsMark, NothingTakenUnmarked
  <2>. QED
    BY <1>1, <2>1, SessionStepsKeep, SweepStepsKeep DEF PurgeNext
<1>2. PurgeInv => NothingTakenUnmarked
  BY DEF PurgeInv
<1>. QED
  BY <1>1, <1>2, PurgeInitInv, PTL DEF PurgeSpec

-----------------------------------------------------------------------------
(* The wake adapters' verdicts *)

TargetShape(t) == t = [family |-> t.family, launched |-> t.launched, paned |-> t.paned,
                       inbox |-> t.inbox, holds |-> t.holds]
HostShape(h) == h = [recorded |-> h.recorded, front |-> h.front, line |-> h.line, running |-> h.running,
                     prompts |-> h.prompts, lastIsNotice |-> h.lastIsNotice, shown |-> h.shown]
AttemptShape(a) == a = [step |-> a.step, verdict |-> a.verdict, before |-> a.before,
                        lastBefore |-> a.lastBefore]
TimesType == [now : Nat, call : Nat, event : Nat, server : Nat, attempts : Nat]

NoticesShapes ==
    /\ TargetShape(target) /\ target.family \in NoticeFamilies
    /\ HostShape(host) /\ host.prompts \in Nat
    /\ AttemptShape(attempt) /\ attempt.before \in Nat
    /\ times \in TimesType

\* The steps at which nothing of the attempt has left the worker yet.
BeforeNotice ==
    {"activity", "thread", "queue", "prove", "look", "type", "registry", "connect", "frame",
     "status", "destination", "post"}
AfterLook == {"type", "readback", "enter", "confirm"}

\* Until then, and after a verdict of waiting, the notice is not in the line either, where
\* the user could submit it.
NothingLeft ==
    attempt.step \in BeforeNotice \/ (attempt.step = "done" /\ attempt.verdict \in {"none", "waiting"}) =>
        ~reached /\ ~Ours(host.line)

\* After the look only this attempt's notice adds a prompt of its text.
NoOtherPrompt ==
    attempt.step \in AfterLook =>
        /\ host.line # "stale"
        /\ ~reached => host.prompts <= attempt.before /\ (host.lastIsNotice => attempt.lastBefore)

NotifiedReached ==
    attempt.step = "done" /\ attempt.verdict = "notified" /\ target.family # "grok" => reached

PaneFamilies ==
    attempt.step \in AfterLook \cup {"activity", "prove", "look"} => target.family \in {"codex", "grok"}

NoticeClock ==
    times.now >= 1 /\ times.call <= times.now /\ times.event <= times.now + RolloutMargin

\* A hidden thread's server is not older than the holder's proof, unless a turn was queued
\* into that thread after a race.
HiddenIsUnproven ==
    target.launched /\ target.holds /\ host.shown = "other" => ServerMayBeNewer \/ race

QueuedIsShown ==
    attempt.step = "queue" /\ target.launched /\ target.holds /\ host.shown = "other" => race

NoticesInv ==
    /\ NoticesShapes /\ NothingLeft /\ NoOtherPrompt /\ NotifiedReached /\ PaneFamilies
    /\ NoticeClock /\ HiddenIsUnproven /\ QueuedIsShown /\ HiddenOnlyByRace

LEMMA NoticesInitInv == NoticesInit => NoticesInv
<1>. SUFFICES ASSUME NoticesInit PROVE NoticesInv
  OBVIOUS
<1>1. TargetShape(target) /\ target.family \in NoticeFamilies
  BY DEF NoticesInit, Targets, TargetShape
<1>2. HostShape(host) /\ host.prompts = 0 /\ host.line = "empty" /\ host.shown = "holder"
  BY DEF NoticesInit, HostShape
<1>3. /\ AttemptShape(attempt) /\ attempt.before = 0 /\ attempt.step = "done" /\ attempt.verdict = "none"
  BY DEF NoticesInit, NoAttempt, AttemptShape
<1>4. times \in TimesType /\ NoticeClock
  BY DEF NoticesInit, TimesType, NoticeClock, RolloutMargin
<1>5. ~reached /\ ~hidden
  BY DEF NoticesInit
<1>. QED
  BY <1>1, <1>2, <1>3, <1>4, <1>5 DEF NoticesInv, NoticesShapes, NothingLeft, NoOtherPrompt, NotifiedReached,
     PaneFamilies, HiddenIsUnproven, QueuedIsShown, HiddenOnlyByRace, BeforeNotice, AfterLook, Ours

\* What does not look at the attempt stays when only the attempt changes.
LEMMA QuietlyKeeps ==
    ASSUME NoticesInv, Quietly, AttemptShape(attempt'), attempt'.before \in Nat,
           NothingLeft', NoOtherPrompt', NotifiedReached', PaneFamilies', QueuedIsShown'
    PROVE  NoticesInv'
BY DEF NoticesInv, NoticesShapes, Quietly, NoticeClock, HiddenIsUnproven, HiddenOnlyByRace,
   ServerMayBeNewer, CodexProof, TargetShape, HostShape

\* A step before the look, to another such step or to a verdict of waiting.
LEMMA EarlyStepKeeps ==
    ASSUME NoticesInv, Quietly, attempt.step \in BeforeNotice,
           \/ Verdict("waiting")
           \/ \E s \in BeforeNotice \ {"type"} :
                /\ NoticeStep(s)
                /\ s \in {"activity", "prove", "look"} => target.family \in {"codex", "grok"}
                /\ s = "queue" /\ target.launched /\ target.holds /\ host.shown = "other" => race
    PROVE  NoticesInv'
<1>1. /\ attempt = [step |-> attempt.step, verdict |-> attempt.verdict, before |-> attempt.before,
                    lastBefore |-> attempt.lastBefore]
      /\ attempt.before \in Nat
  BY DEF NoticesInv, NoticesShapes, AttemptShape
<1>2. ~reached /\ ~Ours(host.line) /\ UNCHANGED <<reached, host, target, race>>
  BY DEF NoticesInv, NothingLeft, Quietly
<1>3. CASE Verdict("waiting")
  <2>1. AttemptShape(attempt') /\ attempt'.before = attempt.before /\ attempt'.step = "done"
        /\ attempt'.verdict = "waiting"
    BY <1>1, <1>3 DEF Verdict, AttemptShape
  <2>. QED
    BY <1>1, <1>2, <2>1, QuietlyKeeps DEF NothingLeft, NoOtherPrompt, NotifiedReached, PaneFamilies,
       QueuedIsShown, BeforeNotice, AfterLook
<1>4. ASSUME NEW s \in BeforeNotice \ {"type"}, NoticeStep(s),
             s \in {"activity", "prove", "look"} => target.family \in {"codex", "grok"},
             s = "queue" /\ target.launched /\ target.holds /\ host.shown = "other" => race
      PROVE  NoticesInv'
  <2>1. AttemptShape(attempt') /\ attempt'.before = attempt.before /\ attempt'.step = s
    BY <1>1, <1>4 DEF NoticeStep, AttemptShape
  <2>2. s \notin AfterLook /\ s # "done"
    BY DEF BeforeNotice, AfterLook
  <2>. QED
    BY <1>1, <1>2, <1>4, <2>1, <2>2, QuietlyKeeps DEF NothingLeft, NoOtherPrompt, NotifiedReached,
       PaneFamilies, QueuedIsShown
<1>. QED
  BY <1>3, <1>4

LEMMA EarlyStepsKeep ==
    ASSUME NoticesInv, \/ CodexActivity \/ CodexThread \/ ProvePane \/ ClaudeRegistry \/ ClaudeConnect
                       \/ OpenCodeStatus \/ DeepSeekDestination
    PROVE  NoticesInv'
<1>. USE DEF At, BeforeNotice
<1>1. CASE CodexActivity
  <2>. DEFINE typed == target.launched /\ target.paned /\ target.inbox = "participant"
              next == IF typed THEN "prove" ELSE IF target.launched THEN "thread" ELSE "queue"
  <2>1. target.family \in {"codex", "grok"} /\ Quietly /\ attempt.step = "activity"
    BY <1>1 DEF CodexActivity, NoticesInv, PaneFamilies
  <2>2. Verdict("waiting") \/ NoticeStep(next)
    BY <1>1 DEF CodexActivity
  <2>3. next \in BeforeNotice \ {"type"} /\ (next = "queue" => ~target.launched)
    OBVIOUS
  <2>. HIDE DEF next
  <2>. QED
    BY <2>1, <2>2, <2>3, EarlyStepKeeps
<1>2. CASE CodexThread
  <2>1. ~CodexThreadUnproven /\ target.launched /\ target.holds /\ host.shown = "other" => race
    BY DEF NoticesInv, HiddenIsUnproven, CodexThreadUnproven
  <2>. QED
    BY <1>2, <2>1, EarlyStepKeeps DEF CodexThread
<1>3. CASE ProvePane
  BY <1>3, EarlyStepKeeps DEF ProvePane, NoticesInv, PaneFamilies, AfterLook
<1>4. CASE ClaudeRegistry \/ ClaudeConnect
  BY <1>4, EarlyStepKeeps DEF ClaudeRegistry, ClaudeConnect
<1>5. CASE OpenCodeStatus \/ DeepSeekDestination
  BY <1>5, EarlyStepKeeps DEF OpenCodeStatus, DeepSeekDestination
<1>. QED
  BY <1>1, <1>2, <1>3, <1>4, <1>5

LEMMA ProviderWakeKeeps ==
    ASSUME NoticesInv, ProviderWake
    PROVE  NoticesInv'
<1>1. /\ HostShape(host) /\ host.prompts \in Nat /\ target.family \in NoticeFamilies /\ times \in TimesType
  BY DEF NoticesInv, NoticesShapes
<1>2. /\ AttemptShape(attempt') /\ attempt'.before = 0 /\ attempt'.step = FirstStep(target.family)
  BY DEF ProviderWake, NoAttempt, AttemptShape
<1>3. /\ HostShape(host') /\ host'.prompts = host.prompts /\ host'.line = Aged(host.line)
      /\ host'.shown = host.shown
  BY <1>1 DEF ProviderWake, HostShape
<1>4. /\ times' \in TimesType /\ times'.now = times.now /\ times'.call = times.call
      /\ times'.event = times.event /\ times'.server = times.server
  BY <1>1 DEF ProviderWake, TimesType
<1>5. ~reached' /\ UNCHANGED <<target, hidden, race>>
  BY DEF ProviderWake
<1>6. ~Ours(Aged(host.line))
  BY DEF Ours, Aged
<1>7. /\ FirstStep(target.family) \in BeforeNotice \ {"type", "queue"}
      /\ FirstStep(target.family) \in {"activity", "prove", "look"} => target.family \in {"codex", "grok"}
  BY <1>1, NoticesAssumption DEF FirstStep, BeforeNotice
<1>8. FirstStep(target.family) \notin AfterLook \cup {"done", "queue"}
  BY <1>7 DEF AfterLook, BeforeNotice
<1>. HIDE DEF FirstStep, Aged
<1>9. NoticesShapes'
  BY <1>1, <1>2, <1>3, <1>4, <1>5 DEF NoticesInv, NoticesShapes
<1>10. (NothingLeft /\ NoOtherPrompt /\ NotifiedReached /\ PaneFamilies /\ QueuedIsShown)'
  BY <1>2, <1>3, <1>5, <1>6, <1>7, <1>8 DEF NothingLeft, NoOtherPrompt, NotifiedReached, PaneFamilies, QueuedIsShown
<1>11. NoticeClock'
  BY <1>4 DEF NoticesInv, NoticeClock
<1>12. HiddenIsUnproven' /\ HiddenOnlyByRace'
  BY <1>3, <1>4, <1>5 DEF NoticesInv, HiddenIsUnproven, HiddenOnlyByRace, ServerMayBeNewer, CodexProof
<1>. QED
  BY <1>9, <1>10, <1>11, <1>12 DEF NoticesInv

\* A queued turn moves the holder's last event: it was shown, or the race is recorded.
LEMMA CodexQueueKeeps ==
    ASSUME NoticesInv, CodexQueue
    PROVE  NoticesInv'
<1>1. PICK answer \in {"exit0", "not_started", "failed", "timeout", "drain", "signal"}, took \in BOOLEAN :
        /\ took \in CodexQueueTakes(answer)
        /\ Verdict(CodexQueueVerdict(answer))
        /\ reached' = took
        /\ hidden' = (hidden \/ (took /\ target.launched /\ target.holds /\ host.shown = "other"))
        /\ times' = IF took THEN [times EXCEPT !.event = times.now] ELSE times
  BY DEF CodexQueue
<1>2. attempt.step = "queue" /\ UNCHANGED <<target, host, race>>
  BY DEF CodexQueue, At
<1>3. /\ AttemptShape(attempt) /\ attempt.before \in Nat /\ times \in TimesType
  BY DEF NoticesInv, NoticesShapes
<1>4. /\ AttemptShape(attempt') /\ attempt'.before = attempt.before /\ attempt'.step = "done"
      /\ attempt'.verdict = CodexQueueVerdict(answer)
  BY <1>1, <1>3 DEF Verdict, AttemptShape
<1>5. /\ CodexQueueVerdict(answer) \in {"none", "waiting"} => ~took
      /\ CodexQueueVerdict(answer) = "notified" => took
  BY <1>1 DEF CodexQueueVerdict, CodexQueueTakes
<1>6. ~Ours(host.line)
  BY <1>2 DEF NoticesInv, NothingLeft, BeforeNotice
<1>7. /\ times' \in TimesType /\ times'.now = times.now /\ times'.call = times.call
      /\ times'.server = times.server /\ times'.event \in {times.event, times.now}
  BY <1>1, <1>3 DEF TimesType
<1>8. ~took => times' = times
  BY <1>1
<1>. HIDE DEF CodexQueueVerdict, CodexQueueTakes
<1>9. NoticesShapes'
  BY <1>2, <1>3, <1>4, <1>7 DEF NoticesInv, NoticesShapes
<1>10. (NothingLeft /\ NoOtherPrompt /\ NotifiedReached /\ PaneFamilies /\ QueuedIsShown)'
  BY <1>1, <1>2, <1>4, <1>5, <1>6 DEF NothingLeft, NoOtherPrompt, NotifiedReached, PaneFamilies, QueuedIsShown,
     BeforeNotice, AfterLook
<1>11. NoticeClock'
  BY <1>3, <1>7 DEF NoticesInv, NoticeClock, TimesType, RolloutMargin
<1>12. target.launched /\ target.holds /\ host.shown = "other" => race
  BY <1>2 DEF NoticesInv, QueuedIsShown
<1>13. HiddenIsUnproven' /\ HiddenOnlyByRace'
  BY <1>1, <1>2, <1>12 DEF NoticesInv, HiddenIsUnproven, HiddenOnlyByRace
<1>. QED
  BY <1>9, <1>10, <1>11, <1>13 DEF NoticesInv

LEMMA LookIdleKeeps ==
    ASSUME NoticesInv, LookIdle
    PROVE  NoticesInv'
<1>1. attempt.step = "look" /\ Quietly
  BY DEF LookIdle, At
<1>2. CASE Verdict("waiting")
  BY <1>1, <1>2, EarlyStepKeeps DEF BeforeNotice
<1>3. CASE PaneIdle /\ attempt' = [attempt EXCEPT !.step = "type", !.before = host.prompts,
                                                  !.lastBefore = host.lastIsNotice]
  <2>1. /\ AttemptShape(attempt') /\ attempt'.before = host.prompts /\ attempt'.step = "type"
        /\ attempt'.lastBefore = host.lastIsNotice
    BY <1>3 DEF NoticesInv, NoticesShapes, AttemptShape
  <2>2. host.line = "empty"
    BY <1>3 DEF PaneIdle, CodexIdle, GrokIdle
  <2>3. host.prompts \in Nat /\ UNCHANGED <<host, reached, target, race>>
    BY <1>1 DEF NoticesInv, NoticesShapes, Quietly
  <2>4. ~reached /\ target.family \in {"codex", "grok"}
    BY <1>1 DEF NoticesInv, NothingLeft, BeforeNotice, PaneFamilies
  <2>. QED
    BY <1>1, <2>1, <2>2, <2>3, <2>4, QuietlyKeeps DEF NothingLeft, NoOtherPrompt, NotifiedReached,
       PaneFamilies, QueuedIsShown, Ours
<1>. QED
  BY <1>2, <1>3 DEF LookIdle

\* A step after the look, to another such step or to a verdict of uncertain; the input line
\* may have got the notice, or have been submitted.
LEMMA TypedStepKeeps ==
    ASSUME NoticesInv, attempt.step \in AfterLook, UNCHANGED <<target, times, hidden, race>>,
           \/ Verdict("uncertain")
           \/ \E s \in {"readback", "enter", "confirm"} : NoticeStep(s),
           HostShape(host'), host'.prompts \in Nat, host'.shown = host.shown, host'.line # "stale",
           ~reached' => host'.prompts <= attempt.before /\ (host'.lastIsNotice => attempt.lastBefore)
    PROVE  NoticesInv'
<1>1. AttemptShape(attempt) /\ attempt.before \in Nat /\ target.family \in {"codex", "grok"}
  BY DEF NoticesInv, NoticesShapes, PaneFamilies
<1>2. /\ AttemptShape(attempt') /\ attempt'.before = attempt.before /\ attempt'.lastBefore = attempt.lastBefore
      /\ attempt'.step \in {"readback", "enter", "confirm"}
            \/ (attempt'.step = "done" /\ attempt'.verdict = "uncertain")
  BY <1>1 DEF Verdict, NoticeStep, AttemptShape
<1>3. NoticesShapes'
  BY <1>1, <1>2 DEF NoticesInv, NoticesShapes, TargetShape
<1>4. (NothingLeft /\ NoOtherPrompt /\ NotifiedReached /\ PaneFamilies /\ QueuedIsShown)'
  BY <1>1, <1>2 DEF NothingLeft, NoOtherPrompt, NotifiedReached, PaneFamilies, QueuedIsShown, BeforeNotice, AfterLook
<1>5. (NoticeClock /\ HiddenIsUnproven /\ HiddenOnlyByRace)'
  BY DEF NoticesInv, NoticeClock, HiddenIsUnproven, HiddenOnlyByRace, ServerMayBeNewer, CodexProof
<1>. QED
  BY <1>3, <1>4, <1>5 DEF NoticesInv

\* What a submitted line leaves: a prompt of the notice's text only if the notice was in it.
LEMMA SubmittedSound ==
    ASSUME HostShape(host), host.prompts \in Nat, MaxNotices \in Nat
    PROVE  LET h == Submitted(host)
           IN  /\ HostShape(h) /\ h.prompts \in Nat /\ h.shown = host.shown /\ h.line = "empty"
               /\ host.line \notin {"notice", "stale"} => h.prompts = host.prompts /\ h.lastIsNotice = FALSE
<1>. DEFINE notice == host.line \in {"notice", "stale"}
            count == IF notice /\ host.prompts < MaxNotices THEN host.prompts + 1 ELSE host.prompts
<1>1. count \in Nat /\ (~notice => count = host.prompts)
  OBVIOUS
<1>2. Submitted(host) = [host EXCEPT !.line = "empty", !.running = TRUE, !.lastIsNotice = notice,
                                     !.prompts = count]
  BY DEF Submitted
<1>. HIDE DEF count
<1>3. Submitted(host) = [recorded |-> host.recorded, front |-> host.front, line |-> "empty", running |-> TRUE,
                         prompts |-> count, lastIsNotice |-> notice, shown |-> host.shown]
  BY <1>2 DEF HostShape
<1>4. ~notice => notice = FALSE
  OBVIOUS
<1>. HIDE DEF notice
<1>5. /\ HostShape(Submitted(host)) /\ Submitted(host).prompts = count /\ Submitted(host).shown = host.shown
      /\ Submitted(host).line = "empty" /\ Submitted(host).lastIsNotice = notice
  BY <1>3 DEF HostShape
<1>6. ~notice => Submitted(host).lastIsNotice = FALSE
  BY <1>4, <1>5
<1>. QED
  BY <1>1, <1>5, <1>6 DEF notice

LEMMA TypedStepsKeep ==
    ASSUME NoticesInv, TypeNotice \/ ReadBack \/ EnterNotice
    PROVE  NoticesInv'
<1>0. attempt.step \in AfterLook
  BY DEF TypeNotice, ReadBack, EnterNotice, At, AfterLook
<1>1. /\ HostShape(host) /\ host.prompts \in Nat /\ host.line # "stale"
      /\ ~reached => host.prompts <= attempt.before /\ (host.lastIsNotice => attempt.lastBefore)
  BY <1>0 DEF NoticesInv, NoticesShapes, NoOtherPrompt
<1>2. CASE TypeNotice
  <2>1. PICK failed \in BOOLEAN, typed \in BOOLEAN :
            /\ host' = IF typed /\ host.front THEN [host EXCEPT !.line = WithNotice(@)] ELSE host
            /\ IF failed THEN Verdict("uncertain") ELSE NoticeStep(IF Codex THEN "readback" ELSE "enter")
    BY <1>2 DEF TypeNotice
  <2>2. /\ HostShape(host') /\ host'.prompts = host.prompts /\ host'.shown = host.shown
        /\ host'.lastIsNotice = host.lastIsNotice /\ host'.line # "stale"
    BY <1>1, <2>1 DEF HostShape, WithNotice
  <2>3. Verdict("uncertain") \/ NoticeStep("readback") \/ NoticeStep("enter")
    BY <2>1
  <2>4. UNCHANGED <<target, times, reached, hidden, race>>
    BY <1>2 DEF TypeNotice
  <2>. QED
    BY <1>0, <1>1, <2>2, <2>3, <2>4, TypedStepKeeps
<1>3. CASE ReadBack
  BY <1>0, <1>1, <1>3, TypedStepKeeps DEF ReadBack, Quietly
<1>4. CASE EnterNotice
  <2>1. PICK failed \in BOOLEAN, pressed \in BOOLEAN :
            LET submits == pressed /\ host.front /\ host.line # "empty"
            IN  /\ host' = IF submits THEN Submitted(host) ELSE host
                /\ reached' = (reached \/ (submits /\ Ours(host.line)))
                /\ IF failed THEN Verdict("uncertain") ELSE NoticeStep("confirm")
    BY <1>4 DEF EnterNotice
  <2>2. UNCHANGED <<target, times, hidden, race>>
    BY <1>4 DEF EnterNotice
  <2>3. Verdict("uncertain") \/ NoticeStep("confirm")
    BY <2>1
  <2>4. /\ HostShape(host') /\ host'.prompts \in Nat /\ host'.shown = host.shown /\ host'.line # "stale"
        /\ ~reached' => host'.prompts <= attempt.before /\ (host'.lastIsNotice => attempt.lastBefore)
        /\ reached => reached'
    <3>1. CASE pressed /\ host.front /\ host.line # "empty"
      <4>1. host' = Submitted(host) /\ reached' = (reached \/ Ours(host.line))
        BY <2>1, <3>1
      <4>2. ~reached' => ~reached /\ host.line \notin {"notice", "stale"}
        BY <1>1, <4>1 DEF Ours
      <4>. QED
        BY <1>1, <4>1, <4>2, SubmittedSound, NoticesAssumption
    <3>2. CASE ~(pressed /\ host.front /\ host.line # "empty")
      <4>1. host' = host /\ reached' = (reached \/ FALSE)
        BY <2>1, <3>2
      <4>. QED
        BY <1>1, <4>1
    <3>. QED
      BY <3>1, <3>2
  <2>. QED
    BY <1>0, <2>2, <2>3, <2>4, TypedStepKeeps
<1>. QED
  BY <1>2, <1>3, <1>4

\* Only a prompt that this attempt added confirms a Codex notice.
LEMMA ConfirmKeeps ==
    ASSUME NoticesInv, Confirm
    PROVE  NoticesInv'
<1>0. attempt.step = "confirm" /\ Quietly
  BY DEF Confirm, At
<1>1. /\ AttemptShape(attempt) /\ attempt.before \in Nat /\ host.prompts \in Nat
      /\ HostShape(host) /\ host.line # "stale"
      /\ ~reached => host.prompts <= attempt.before /\ (host.lastIsNotice => attempt.lastBefore)
      /\ target.family \in {"codex", "grok"}
  BY <1>0 DEF NoticesInv, NoticesShapes, NoOtherPrompt, PaneFamilies, AfterLook
<1>2. CASE Verdict("uncertain")
  BY <1>0, <1>1, <1>2, TypedStepKeeps DEF Quietly, AfterLook
<1>3. CASE PaneSubmitted /\ Verdict("notified")
  <2>1. /\ AttemptShape(attempt') /\ attempt'.before = attempt.before
        /\ attempt'.step = "done" /\ attempt'.verdict = "notified"
    BY <1>1, <1>3 DEF Verdict, AttemptShape
  <2>2. target.family # "grok" => reached
    BY <1>1, <1>3 DEF PaneSubmitted, CodexSubmitted, Codex
  <2>. QED
    BY <1>0, <1>1, <2>1, <2>2, QuietlyKeeps DEF Quietly, NothingLeft, NoOtherPrompt, NotifiedReached,
       PaneFamilies, QueuedIsShown, BeforeNotice, AfterLook
<1>. QED
  BY <1>2, <1>3 DEF Confirm

\* The adapters that write or post the notice in one step: what the verdict says of it.
LEMMA PostedKeeps ==
    ASSUME NoticesInv, attempt.step \in {"frame", "post"}, UNCHANGED <<target, host, times, hidden, race>>,
           NEW v \in {"waiting", "notified", "uncertain"}, Verdict(v),
           v = "waiting" => ~reached', v = "notified" => reached'
    PROVE  NoticesInv'
<1>1. AttemptShape(attempt) /\ attempt.before \in Nat
  BY DEF NoticesInv, NoticesShapes
<1>2. /\ AttemptShape(attempt') /\ attempt'.before = attempt.before
      /\ attempt'.step = "done" /\ attempt'.verdict = v
  BY <1>1 DEF Verdict, AttemptShape
<1>3. ~Ours(host.line)
  BY DEF NoticesInv, NothingLeft, BeforeNotice
<1>4. NoticesShapes'
  BY <1>1, <1>2 DEF NoticesInv, NoticesShapes, TargetShape, HostShape
<1>5. (NothingLeft /\ NoOtherPrompt /\ NotifiedReached /\ PaneFamilies /\ QueuedIsShown)'
  BY <1>2, <1>3 DEF NothingLeft, NoOtherPrompt, NotifiedReached, PaneFamilies, QueuedIsShown, BeforeNotice, AfterLook
<1>6. (NoticeClock /\ HiddenIsUnproven /\ HiddenOnlyByRace)'
  BY DEF NoticesInv, NoticeClock, HiddenIsUnproven, HiddenOnlyByRace, ServerMayBeNewer, CodexProof
<1>. QED
  BY <1>4, <1>5, <1>6 DEF NoticesInv

LEMMA PostsKeep ==
    ASSUME NoticesInv, ClaudeFrame \/ PostNotice
    PROVE  NoticesInv'
<1>1. CASE ClaudeFrame
  BY <1>1, PostedKeeps DEF ClaudeFrame, At
<1>2. CASE PostNotice
  <2>1. PICK answer \in PostAnswers : Verdict(PostVerdict(answer)) /\ reached' \in PostTakes(answer)
    BY <1>2 DEF PostNotice
  <2>2. answer \in {"accepted", "busy", "auth", "dial", "reset", "unclear", "refused"}
    BY DEF PostAnswers
  <2>3. /\ PostVerdict(answer) \in {"waiting", "notified", "uncertain"}
        /\ PostVerdict(answer) = "waiting" => PostTakes(answer) = {FALSE}
        /\ PostVerdict(answer) = "notified" => PostTakes(answer) = {TRUE}
    BY <2>2 DEF PostVerdict, PostTakes, SubmissionError
  <2>4. /\ PostVerdict(answer) = "waiting" => ~reached'
        /\ PostVerdict(answer) = "notified" => reached'
    <3>1. reached' \in {FALSE} => ~reached'
      OBVIOUS
    <3>2. reached' \in {TRUE} => reached'
      OBVIOUS
    <3>. QED
      BY <2>1, <2>3, <3>1, <3>2
  <2>5. attempt.step = "post" /\ UNCHANGED <<target, host, times, hidden, race>>
    BY <1>2 DEF PostNotice, At
  <2>. QED
    BY <2>1, <2>3, <2>4, <2>5, PostedKeeps
<1>. QED
  BY <1>1, <1>2

\* What the user and the output do to the line and the prompts in view.
LEMMA HostStepKeeps ==
    ASSUME NoticesInv, UNCHANGED <<target, attempt, times, hidden, race>>,
           HostShape(host'), host'.prompts \in Nat, host'.shown = host.shown,
           reached => reached',
           ~Ours(host.line) => ~Ours(host'.line) /\ (reached' => reached),
           host.line # "stale" => host'.line # "stale",
           ~reached' /\ host.line # "stale" =>
                host'.prompts <= host.prompts /\ (host'.lastIsNotice => host.lastIsNotice)
    PROVE  NoticesInv'
<1>1. host.prompts \in Nat /\ attempt.before \in Nat
  BY DEF NoticesInv, NoticesShapes
<1>2. NoticesShapes'
  BY DEF NoticesInv, NoticesShapes, TargetShape, AttemptShape
<1>3. NothingLeft' /\ NotifiedReached' /\ PaneFamilies' /\ QueuedIsShown'
  BY DEF NoticesInv, NothingLeft, NotifiedReached, PaneFamilies, QueuedIsShown
<1>4. NoOtherPrompt'
  BY <1>1 DEF NoticesInv, NoOtherPrompt
<1>5. (NoticeClock /\ HiddenIsUnproven /\ HiddenOnlyByRace)'
  BY DEF NoticesInv, NoticeClock, HiddenIsUnproven, HiddenOnlyByRace, ServerMayBeNewer, CodexProof
<1>. QED
  BY <1>2, <1>3, <1>4, <1>5 DEF NoticesInv

LEMMA UserStepsKeep ==
    ASSUME NoticesInv, \/ HostUserTypes \/ UserErases \/ UserSubmits \/ Scrolls \/ TurnEnds
                       \/ FrontChanges \/ HostReplaced
    PROVE  NoticesInv'
<1>0. /\ HostShape(host) /\ host.prompts \in Nat
      /\ UNCHANGED <<target, attempt, times, hidden, race>>
  BY DEF NoticesInv, NoticesShapes, HostAct, HostUserTypes, UserErases, UserSubmits, Scrolls, TurnEnds,
     FrontChanges, HostReplaced
<1>1. CASE HostUserTypes
  <2>1. /\ HostShape(host') /\ host'.prompts = host.prompts /\ host'.shown = host.shown
        /\ host'.lastIsNotice = host.lastIsNotice
        /\ host'.line = IF host.line = "notice" THEN "mixed" ELSE IF host.line = "mixed" THEN host.line ELSE "user"
    BY <1>0, <1>1 DEF HostUserTypes, HostShape
  <2>2. reached' = reached
    BY <1>1 DEF HostUserTypes
  <2>. QED
    BY <1>0, <2>1, <2>2, HostStepKeeps DEF Ours
<1>2. CASE UserErases
  <2>1. /\ HostShape(host') /\ host'.prompts = host.prompts /\ host'.shown = host.shown
        /\ host'.lastIsNotice = host.lastIsNotice /\ host'.line = "empty" /\ reached' = reached
    BY <1>0, <1>2 DEF UserErases, HostShape
  <2>. QED
    BY <1>0, <2>1, HostStepKeeps DEF Ours
<1>3. CASE UserSubmits
  <2>1. host' = Submitted(host) /\ reached' = (reached \/ Ours(host.line))
    BY <1>3 DEF UserSubmits
  <2>2. ~reached' /\ host.line # "stale" => host.line \notin {"notice", "stale"}
    BY <2>1 DEF Ours
  <2>3. reached => reached'
    BY <2>1
  <2>4. ~Ours(host.line) => (reached' => reached)
    BY <2>1
  <2>5. /\ HostShape(host') /\ host'.prompts \in Nat /\ host'.shown = host.shown /\ host'.line = "empty"
        /\ host.line \notin {"notice", "stale"} => host'.prompts = host.prompts /\ host'.lastIsNotice = FALSE
    BY <1>0, <2>1, SubmittedSound, NoticesAssumption
  <2>6. ~Ours(host'.line)
    BY <2>5 DEF Ours
  <2>. QED
    BY <1>0, <2>2, <2>3, <2>4, <2>5, <2>6, HostStepKeeps
<1>4. CASE Scrolls
  <2>1. /\ HostShape(host') /\ host'.prompts = host.prompts - 1 /\ host'.shown = host.shown
        /\ host'.lastIsNotice = (host.lastIsNotice /\ host.prompts > 1)
        /\ host'.line = host.line /\ reached' = reached /\ host.prompts > 0
    BY <1>0, <1>4 DEF Scrolls, HostShape
  <2>2. host'.prompts \in Nat /\ host'.prompts <= host.prompts
    BY <1>0, <2>1
  <2>. QED
    BY <1>0, <2>1, <2>2, HostStepKeeps
<1>5. CASE TurnEnds \/ FrontChanges \/ HostReplaced
  <2>1. /\ HostShape(host') /\ host'.prompts = host.prompts /\ host'.shown = host.shown
        /\ host'.lastIsNotice = host.lastIsNotice /\ host'.line = host.line /\ reached' = reached
    BY <1>0, <1>5 DEF TurnEnds, FrontChanges, HostReplaced, HostShape
  <2>. QED
    BY <1>0, <2>1, HostStepKeeps
<1>. QED
  BY <1>1, <1>2, <1>3, <1>4, <1>5

\* Time, and what moves the times of the thread proof while the holder is shown.
LEMMA TimesStepKeeps ==
    ASSUME NoticesInv, UNCHANGED <<target, host, attempt, reached, hidden, race>>,
           times' \in TimesType, NoticeClock',
           ServerMayBeNewer => ServerMayBeNewer' \/ host.shown = "holder"
    PROVE  NoticesInv'
<1>1. NoticesShapes'
  BY DEF NoticesInv, NoticesShapes, TargetShape, AttemptShape, HostShape
<1>2. (NothingLeft /\ NoOtherPrompt /\ NotifiedReached /\ PaneFamilies /\ QueuedIsShown)'
  BY DEF NoticesInv, NothingLeft, NoOtherPrompt, NotifiedReached, PaneFamilies, QueuedIsShown
<1>3. HiddenIsUnproven' /\ HiddenOnlyByRace'
  BY DEF NoticesInv, HiddenIsUnproven, HiddenOnlyByRace
<1>. QED
  BY <1>1, <1>2, <1>3 DEF NoticesInv

\* A server that starts now cannot be older than the proof.
LEMMA NewServerIsNewer ==
    ASSUME times' \in TimesType, NoticeClock', NEW start \in ServerStart, times.now \in Nat,
           times'.server = start, times'.now = times.now
    PROVE  ServerMayBeNewer'
BY DEF ServerMayBeNewer, CodexProof, Later, NoticeClock, ServerStart, TimesType, RolloutMargin, StartUncertainty

LEMMA ClockStepsKeep ==
    ASSUME NoticesInv, HolderWorks \/ SubAgent \/ WakeTime
    PROVE  NoticesInv'
<1>0. times \in TimesType /\ NoticeClock /\ times.now \in Nat
  BY DEF NoticesInv, NoticesShapes, TimesType
<1>. USE DEF TimesType, NoticeClock, RolloutMargin
<1>1. CASE HolderWorks
  <2>1. times' \in TimesType /\ NoticeClock'
    BY <1>0, <1>1 DEF HolderWorks
  <2>. QED
    BY <1>1, <2>1, TimesStepKeeps DEF HolderWorks, HostAct
<1>2. CASE SubAgent
  <2>1. PICK start \in ServerStart : times' = [times EXCEPT !.server = start]
    BY <1>2 DEF SubAgent
  <2>2. start \in Nat
    BY <1>0 DEF ServerStart
  <2>3. times' \in TimesType /\ NoticeClock' /\ times'.server = start /\ times'.now = times.now
    BY <1>0, <2>1, <2>2
  <2>4. ServerMayBeNewer'
    BY <1>0, <2>3, NewServerIsNewer
  <2>. QED
    BY <1>2, <2>3, <2>4, TimesStepKeeps DEF SubAgent, HostAct
<1>3. CASE WakeTime
  <2>1. times' \in TimesType /\ NoticeClock' /\ times'.server = times.server /\ times'.call = times.call
        /\ times'.event = times.event
    BY <1>0, <1>3 DEF WakeTime
  <2>2. ServerMayBeNewer' = ServerMayBeNewer
    BY <2>1 DEF ServerMayBeNewer, CodexProof
  <2>. QED
    BY <1>3, <2>1, <2>2, TimesStepKeeps DEF WakeTime
<1>. QED
  BY <1>1, <1>2, <1>3

\* After a clear the new thread's server is as new as any proof of the holder.
LEMMA ClearKeeps ==
    ASSUME NoticesInv, Clear
    PROVE  NoticesInv'
<1>0. /\ times \in TimesType /\ NoticeClock /\ times.now \in Nat /\ HostShape(host) /\ attempt.before \in Nat
  BY DEF NoticesInv, NoticesShapes, TimesType
<1>1. PICK start \in ServerStart, end \in {times.event} \cup (times.now..(times.now + RolloutMargin)) :
        times' = [times EXCEPT !.server = start, !.event = end]
  BY DEF Clear
<1>2. start \in Nat /\ end \in Nat /\ end <= times.now + RolloutMargin
  BY <1>0 DEF ServerStart, NoticeClock, TimesType, RolloutMargin
<1>3. /\ times' \in TimesType /\ NoticeClock' /\ times'.server = start /\ times'.now = times.now
  BY <1>0, <1>1, <1>2 DEF TimesType, NoticeClock
<1>4. ServerMayBeNewer'
  BY <1>0, <1>3, NewServerIsNewer
<1>5. /\ HostShape(host') /\ host'.prompts = 0 /\ host'.line = "empty" /\ host'.lastIsNotice = FALSE
  BY <1>0 DEF Clear, HostShape
<1>6. UNCHANGED <<target, attempt, reached, hidden>> /\ race' = (race \/ At("queue"))
  BY DEF Clear, HostAct
<1>7. NoticesShapes'
  BY <1>3, <1>5, <1>6 DEF NoticesInv, NoticesShapes, TargetShape, AttemptShape
<1>8. (NothingLeft /\ NotifiedReached /\ PaneFamilies /\ QueuedIsShown)'
  BY <1>5, <1>6 DEF NoticesInv, NothingLeft, NotifiedReached, PaneFamilies, QueuedIsShown, Ours, At
<1>9. NoOtherPrompt'
  BY <1>0, <1>5, <1>6 DEF NoOtherPrompt
<1>10. HiddenIsUnproven' /\ HiddenOnlyByRace'
  BY <1>4, <1>6 DEF NoticesInv, HiddenIsUnproven, HiddenOnlyByRace
<1>. QED
  BY <1>3, <1>7, <1>8, <1>9, <1>10 DEF NoticesInv

LEMMA NewThreadTurnKeeps ==
    ASSUME NoticesInv, NewThreadTurn
    PROVE  NoticesInv'
<1>1. /\ TargetShape(target') /\ target'.family = target.family /\ target'.launched = target.launched
      /\ target'.holds = FALSE
  BY DEF NoticesInv, NoticesShapes, NewThreadTurn, TargetShape
<1>2. UNCHANGED <<host, times, attempt, reached, hidden, race>>
  BY DEF NewThreadTurn
<1>3. NoticesShapes'
  BY <1>1, <1>2 DEF NoticesInv, NoticesShapes, HostShape, AttemptShape
<1>. QED
  BY <1>1, <1>2, <1>3 DEF NoticesInv, NothingLeft, NoOtherPrompt, NotifiedReached, PaneFamilies, QueuedIsShown,
     NoticeClock, HiddenIsUnproven, HiddenOnlyByRace

\* A verdict tells the truth about its notice whatever the user and the pane did meanwhile,
\* and a queued notice runs in a thread that the host had stopped showing only when a clear
\* came after codexThreadUnproven looked (wakeResult, wakeCodex).
THEOREM NoticesSoundThm == NoticesSpec => []NoticesSound
<1>1. ASSUME NoticesInv, [NoticesNext]_noticeVars
      PROVE  NoticesInv'
  <2>1. CASE UNCHANGED noticeVars
    <3>1. UNCHANGED <<target, host, times, attempt, reached, hidden, race>>
      BY <2>1 DEF noticeVars
    <3>. QED
      BY <1>1, <3>1 DEF NoticesInv, NoticesShapes, TargetShape, HostShape, AttemptShape, NothingLeft, NoOtherPrompt,
         NotifiedReached, PaneFamilies, QueuedIsShown, NoticeClock, HiddenIsUnproven, HiddenOnlyByRace,
         ServerMayBeNewer, CodexProof
  <2>. QED
    BY <1>1, <2>1, ProviderWakeKeeps, EarlyStepsKeep, CodexQueueKeeps, LookIdleKeeps, TypedStepsKeep,
       ConfirmKeeps, PostsKeep, UserStepsKeep, ClockStepsKeep, ClearKeeps, NewThreadTurnKeeps DEF NoticesNext
<1>2. NoticesInv => NoticesSound
  BY DEF NoticesInv, NothingLeft, NotifiedReached, NoticesSound, VerdictHonest
<1>. QED
  BY <1>1, <1>2, NoticesInitInv, PTL DEF NoticesSpec

-----------------------------------------------------------------------------
(* The keys of a cycle's adapter *)

PaneShape(p) == p = [line |-> p.line, menu |-> p.menu, dialog |-> p.dialog, selected |-> p.selected,
                     turn |-> p.turn, running |-> p.running, queued |-> p.queued, fence |-> p.fence]
OpShape(o) == o = [fam |-> o.fam, cmd |-> o.cmd, at |-> o.at, err |-> o.err, clean |-> o.clean, res |-> o.res]
HistShape(h) == h = [sent |-> h.sent, erased |-> h.erased, ran |-> h.ran, answered |-> h.answered, raced |-> h.raced]

KeyErrors == {"error", "unsubmitted"} \cup UnsentCodes

KeysShapes ==
    /\ PaneShape(pane) /\ OpShape(op) /\ HistShape(hist)
    /\ pane.line \in {"empty", "draft", "ours", "mixed"}
    /\ op.fam = "none" => op.cmd = "" /\ op.at = 1 /\ op.err = "" /\ op.res = "" /\ hist.answered = "none"
    /\ op.fam # "none" => /\ op.fam \in KeyFamilies /\ op.cmd \in Commands(op.fam)
                          /\ op.at \in DOMAIN Program(op.fam, op.cmd)
    /\ op.err \in KeyErrors \cup {""}
    /\ op.err # "" => op.clean \in {"erase", "erased", "unerased"}
    /\ window \in {"same", "touched"}

\* A key is under way only at a step that sends one.
KeySteps == {"type", "enter", "erase", "digit", "select", "confirm"}
KeyPlaced == key # "none" => Running /\ Step \in KeySteps

\* As long as nobody touches the pane it is as the look found it.
AsLooked(step) ==
    /\ step \in {"enter", "erase"} => pane.dialog = 0 /\ pane.line = "ours"
    /\ step \in {"digit", "select", "confirm"} => pane.dialog = 1
LookStillTrue == key # "none" /\ window = "same" => AsLooked(Step)

\* While text of the adapter stands in the line, nobody has run the command.
OursNotRun == pane.line \in {"ours", "mixed"} => hist.ran = "none"

\* Before the text is typed there is none of it, and there is no error to clean up after.
NotTypedYet ==
    op.cmd # "choose" /\ op.at <= 2 =>
        pane.line \in {"empty", "draft"} /\ hist.ran = "none" /\ op.err = ""

\* What was erased was not run, and does not come back.
ErasedNotRun ==
    op.err # "" /\ op.clean = "erased" /\ hist.raced = "no" =>
        pane.line \in {"empty", "draft"} /\ hist.ran = "none"

\* The keys that answer a dialog come last.
Answering(f) == IF f = "agy" THEN 3 ELSE 1
AnsweredLast == op.cmd = "choose" /\ hist.answered # "none" => op.at > Answering(op.fam)

KeysInv ==
    /\ KeysShapes /\ KeyPlaced /\ LookStillTrue
    /\ OursNotRun /\ NotTypedYet /\ ErasedNotRun /\ AnsweredLast
    /\ UserTextSafe /\ RefusalLeavesNothing

\* The programs of keys: what stands where.
TypingProgram(p) ==
    /\ 1 \in DOMAIN p /\ DOMAIN p \subseteq Nat
    /\ \A i \in DOMAIN p : /\ i = 1 => p[i] = "inspect"
                           /\ i = 2 => p[i] = "type"
                           /\ i > 2 => p[i] \in {"typed", "menu", "escape", "closed", "enter", "receipt"}
                           /\ i >= 1
                           /\ p[i] # "receipt" => i + 1 \in DOMAIN p

ChoosingProgram(p, n) ==
    /\ 1 \in DOMAIN p /\ DOMAIN p \subseteq Nat
    /\ \A i \in DOMAIN p : /\ p[i] \in {"digit", "select", "selected", "confirm", "gone"}
                           /\ p[i] # "gone" => i + 1 \in DOMAIN p /\ i <= n
                           /\ p[i] \in {"digit", "confirm"} => i + 1 > n

LEMMA ProgramTable ==
    ASSUME NEW f \in {"claude", "codex", "agy", "grok"}, NEW c \in Commands(f)
    PROVE  /\ c # "choose" => TypingProgram(Program(f, c))
           /\ c = "choose" => ChoosingProgram(Program(f, c), Answering(f))
<1>1. /\ TypingProgram(<<"inspect", "type", "typed", "menu", "escape", "closed", "enter", "receipt">>)
      /\ TypingProgram(<<"inspect", "type", "typed", "enter", "receipt">>)
  BY DEF TypingProgram
<1>2. /\ ChoosingProgram(<<"digit", "gone">>, 1)
      /\ ChoosingProgram(<<"select", "selected", "confirm", "gone">>, 3)
  BY DEF ChoosingProgram
<1>3. c # "choose" => Program(f, c) \in {<<"inspect", "type", "typed", "menu", "escape", "closed", "enter", "receipt">>,
                                          <<"inspect", "type", "typed", "enter", "receipt">>}
  BY DEF Program, Commands, ClaudeCommand, CodexCommand, CodexPickup, CodexCompact, AgyCommand, GrokCommand
<1>4. c = "choose" => Program(f, c) = IF f = "agy" THEN <<"select", "selected", "confirm", "gone">>
                                      ELSE <<"digit", "gone">>
  BY DEF Program, ClaudeChoose, CodexChoose, AgyChoose, GrokChoose
<1>. QED
  BY <1>1, <1>2, <1>3, <1>4 DEF Answering

\* Where the adapter is at each kind of step.
LEMMA StepsPlaced ==
    ASSUME KeysInv, Running
    PROVE  /\ op.at \in Nat
           /\ Step \in {"erase", "erased", "unerased"} => op.err # "" /\ op.clean = Step
           /\ Step \in {"inspect", "type"} => op.err = "" /\ op.cmd # "choose" /\ op.at <= 2
           /\ Step = "inspect" => op.at + 1 <= 2
           /\ Step = "type" => op.at + 1 > 2
           /\ Step \in {"typed", "menu", "escape", "closed", "enter", "receipt"} =>
                op.err = "" /\ op.cmd # "choose" /\ op.at > 2
           /\ Step \in {"digit", "select", "selected", "confirm", "gone"} => op.err = "" /\ op.cmd = "choose"
           /\ Step \in {"digit", "select", "selected", "confirm"} => op.at <= Answering(op.fam)
           /\ Step \in {"digit", "confirm"} => op.at + 1 > Answering(op.fam)
           /\ op.err = "" /\ Step \notin {"receipt", "gone"} => op.at + 1 \in DOMAIN Program(op.fam, op.cmd)
<1>1. /\ op.fam \in {"claude", "codex", "agy", "grok"} /\ op.cmd \in Commands(op.fam)
      /\ op.at \in DOMAIN Program(op.fam, op.cmd)
      /\ op.err # "" => op.clean \in {"erase", "erased", "unerased"}
  BY KeysAssumption DEF KeysInv, KeysShapes, Running
<1>2. CASE op.err # ""
  <2>1. op.at \in Nat
    BY <1>1, ProgramTable DEF TypingProgram, ChoosingProgram
  <2>2. Step = op.clean /\ Step \in {"erase", "erased", "unerased"}
    BY <1>1, <1>2 DEF Step
  <2>. QED
    BY <1>2, <2>1, <2>2
<1>3. CASE op.err = "" /\ op.cmd # "choose"
  <2>1. Step = Program(op.fam, op.cmd)[op.at]
    BY <1>3 DEF Step
  <2>2. TypingProgram(Program(op.fam, op.cmd))
    BY <1>1, <1>3, ProgramTable
  <2>3. /\ op.at \in Nat /\ op.at >= 1
        /\ op.at = 1 => Step = "inspect"
        /\ op.at = 2 => Step = "type"
        /\ op.at > 2 => Step \in {"typed", "menu", "escape", "closed", "enter", "receipt"}
        /\ Step # "receipt" => op.at + 1 \in DOMAIN Program(op.fam, op.cmd)
    BY <1>1, <2>1, <2>2 DEF TypingProgram
  <2>4. op.at = 1 \/ op.at = 2 \/ op.at > 2
    BY <2>3
  <2>5. CASE op.at = 1
    <3>1. Step = "inspect" /\ op.at + 1 <= 2 /\ op.at <= 2
      BY <2>3, <2>5
    <3>. QED
      BY <1>3, <2>3, <3>1
  <2>6. CASE op.at = 2
    <3>1. Step = "type" /\ op.at + 1 > 2 /\ op.at <= 2
      BY <2>3, <2>6
    <3>. QED
      BY <1>3, <2>3, <3>1
  <2>7. CASE op.at > 2
    BY <1>3, <2>3, <2>7
  <2>. QED
    BY <2>4, <2>5, <2>6, <2>7
<1>4. CASE op.err = "" /\ op.cmd = "choose"
  <2>1. Step = Program(op.fam, op.cmd)[op.at]
    BY <1>4 DEF Step
  <2>2. ChoosingProgram(Program(op.fam, op.cmd), Answering(op.fam))
    BY <1>1, <1>4, ProgramTable
  <2>3. /\ op.at \in Nat
        /\ Step \in {"digit", "select", "selected", "confirm", "gone"}
        /\ Step # "gone" => op.at + 1 \in DOMAIN Program(op.fam, op.cmd) /\ op.at <= Answering(op.fam)
        /\ Step \in {"digit", "confirm"} => op.at + 1 > Answering(op.fam)
    BY <1>1, <2>1, <2>2 DEF ChoosingProgram
  <2>. HIDE DEF Step, Program, Answering
  <2>. QED
    BY <1>4, <2>3
<1>. QED
  BY <1>2, <1>3, <1>4

LEMMA KeysInitInv == KeysInit => KeysInv
<1>. SUFFICES ASSUME KeysInit PROVE KeysInv
  OBVIOUS
<1>1. KeysShapes
  BY DEF KeysInit, KeysShapes, PaneShape, OpShape, HistShape, KeyErrors
<1>2. KeyPlaced /\ LookStillTrue
  BY DEF KeysInit, KeyPlaced, LookStillTrue
<1>3. OursNotRun /\ NotTypedYet /\ ErasedNotRun /\ AnsweredLast /\ UserTextSafe /\ RefusalLeavesNothing
  BY DEF KeysInit, OursNotRun, NotTypedYet, ErasedNotRun, AnsweredLast, UserTextSafe, RefusalLeavesNothing, UnsentCodes
<1>. QED
  BY <1>1, <1>2, <1>3 DEF KeysInv

\* What the three ways to go on write.
LEMMA OpWrites ==
    ASSUME OpShape(op), NEW x
    PROVE  /\ Goto => /\ OpShape(op') /\ op'.at = op.at + 1
                      /\ op'.fam = op.fam /\ op'.cmd = op.cmd /\ op'.err = op.err /\ op'.clean = op.clean /\ op'.res = op.res
           /\ Return(x) => /\ OpShape(op') /\ op'.res = x
                           /\ op'.fam = op.fam /\ op'.cmd = op.cmd /\ op'.at = op.at /\ op'.err = op.err
                           /\ op'.clean = op.clean
           /\ Abandon(x) => /\ OpShape(op') /\ op'.err = x /\ op'.clean = "erase"
                            /\ op'.fam = op.fam /\ op'.cmd = op.cmd /\ op'.at = op.at /\ op'.res = op.res
<1>1. Goto => /\ OpShape(op') /\ op'.at = op.at + 1
              /\ op'.fam = op.fam /\ op'.cmd = op.cmd /\ op'.err = op.err /\ op'.clean = op.clean /\ op'.res = op.res
  BY DEF OpShape, Goto
<1>2. Return(x) => /\ OpShape(op') /\ op'.res = x
                   /\ op'.fam = op.fam /\ op'.cmd = op.cmd /\ op'.at = op.at /\ op'.err = op.err
                   /\ op'.clean = op.clean
  BY DEF OpShape, Return
<1>3. Abandon(x) => /\ OpShape(op') /\ op'.err = x /\ op'.clean = "erase"
                    /\ op'.fam = op.fam /\ op'.cmd = op.cmd /\ op'.at = op.at /\ op'.res = op.res
  BY DEF OpShape, Abandon
<1>. QED
  BY <1>1, <1>2, <1>3

\* Without a key under way there is no look to be true to.
LEMMA NoKeyPlaced ==
    ASSUME key' = "none"
    PROVE  KeyPlaced' /\ LookStillTrue'
BY DEF KeyPlaced, LookStillTrue

\* The steps that send no key find none under way.
LEMMA NoKeyUnderWay ==
    ASSUME KeysInv, Step \notin KeySteps
    PROVE  key = "none"
BY DEF KeysInv, KeyPlaced

\* The parts that do not speak of the key.
LEMMA SameKept ==
    ASSUME KeysInv, UNCHANGED <<op, pane, window, hist>>
    PROVE  /\ KeysShapes' /\ OursNotRun' /\ NotTypedYet' /\ ErasedNotRun' /\ AnsweredLast'
           /\ UserTextSafe' /\ RefusalLeavesNothing'
<1>1. KeysShapes'
  BY DEF KeysInv, KeysShapes
<1>2. OursNotRun' /\ NotTypedYet'
  BY Zenon DEF KeysInv, OursNotRun, NotTypedYet
<1>3. ErasedNotRun' /\ AnsweredLast'
  BY Zenon DEF KeysInv, ErasedNotRun, AnsweredLast
<1>4. UserTextSafe' /\ RefusalLeavesNothing'
  BY DEF KeysInv, UserTextSafe, RefusalLeavesNothing
<1>. QED
  BY <1>1, <1>2, <1>3, <1>4

\* A look admits a key: it says of the pane what the look found.
LEMMA KeyLookKeeps ==
    ASSUME KeysInv, Running, UNCHANGED <<op, pane, window, hist>>, Step \in KeySteps,
           window = "same" => AsLooked(Step)
    PROVE  KeysInv'
<1>1. Step' = Step /\ Running'
  BY DEF Step, Running
<1>2. KeyPlaced' /\ LookStillTrue'
  BY <1>1 DEF KeyPlaced, LookStillTrue, AsLooked
<1>3. KeysShapes' /\ OursNotRun' /\ NotTypedYet' /\ ErasedNotRun' /\ AnsweredLast' /\ UserTextSafe' /\ RefusalLeavesNothing'
  BY SameKept
<1>. QED
  BY <1>2, <1>3 DEF KeysInv

\* A result that refuses nothing, or refuses what was not done.
LEMMA ReturnKeeps ==
    ASSUME KeysInv, Running, NEW r, Return(r), UNCHANGED <<pane, hist, window>>, key' = "none",
           op.cmd = "clear" /\ r \in UnsentCodes /\ hist.raced = "no" =>
                hist.ran = "none" /\ pane.line \in {"empty", "draft"},
           r = "dialog_changed" => hist.answered = "none"
    PROVE  KeysInv'
<1>1. /\ OpShape(op') /\ op'.res = r
      /\ op'.fam = op.fam /\ op'.cmd = op.cmd /\ op'.at = op.at /\ op'.err = op.err /\ op'.clean = op.clean
  BY OpWrites DEF KeysInv, KeysShapes
<1>2. KeysShapes'
  BY <1>1 DEF KeysInv, KeysShapes, Running
<1>3. OursNotRun' /\ NotTypedYet' /\ ErasedNotRun' /\ AnsweredLast' /\ UserTextSafe'
  BY <1>1 DEF KeysInv, OursNotRun, NotTypedYet, ErasedNotRun, AnsweredLast, UserTextSafe
<1>4. RefusalLeavesNothing'
  BY <1>1 DEF RefusalLeavesNothing
<1>. QED
  BY <1>2, <1>3, <1>4, NoKeyPlaced DEF KeysInv

\* An error after the text was typed is cleaned up after.
LEMMA AbandonKeeps ==
    ASSUME KeysInv, Running, NEW e \in KeyErrors, Abandon(e), UNCHANGED <<pane, hist>>, key' = "none",
           window' \in {"same", "touched"}, op.cmd # "choose", op.at > 2
    PROVE  KeysInv'
<1>1. /\ OpShape(op') /\ op'.err = e /\ op'.clean = "erase"
      /\ op'.fam = op.fam /\ op'.cmd = op.cmd /\ op'.at = op.at /\ op'.res = ""
  BY OpWrites DEF KeysInv, KeysShapes, Running
<1>2. op.at \in Nat
  BY StepsPlaced
<1>3. KeysShapes'
  BY <1>1 DEF KeysInv, KeysShapes, Running
<1>4. OursNotRun' /\ UserTextSafe' /\ ErasedNotRun' /\ AnsweredLast'
  BY <1>1 DEF KeysInv, OursNotRun, ErasedNotRun, UserTextSafe, AnsweredLast
<1>5. NotTypedYet'
  <2>1. ~(op.at <= 2)
    BY <1>2
  <2>. QED
    BY <1>1, <2>1, Zenon DEF NotTypedYet
<1>6. RefusalLeavesNothing'
  BY <1>1 DEF RefusalLeavesNothing, UnsentCodes
<1>. QED
  BY <1>3, <1>4, <1>5, <1>6, NoKeyPlaced DEF KeysInv

LEMMA NotPast == \A a, b \in Nat : a <= b => ~(a > b)
  OBVIOUS

LEMMA PastTwo == \A a \in Nat : a > 2 \/ a + 1 > 2 => ~(a + 1 <= 2)
  OBVIOUS

LEMMA NextIsPast == \A a, b \in Nat : a > b => a + 1 > b
  OBVIOUS

\* The next step of the program of keys, with the line and the history that it leaves.
LEMMA GotoKeeps ==
    ASSUME KeysInv, Running, Goto, op.err = "", op.at + 1 \in DOMAIN Program(op.fam, op.cmd), op.at \in Nat,
           key' = "none", window' \in {"same", "touched"},
           PaneShape(pane'), HistShape(hist'), pane'.line \in {"empty", "draft", "ours", "mixed"},
           pane'.line \in {"ours", "mixed"} => hist'.ran = "none",
           op.cmd # "choose" /\ op.at + 1 <= 2 => pane'.line \in {"empty", "draft"} /\ hist'.ran = "none",
           op.cmd = "choose" /\ hist'.answered # "none" => op.at > Answering(op.fam) \/ op.at + 1 > Answering(op.fam),
           UserTextSafe'
    PROVE  KeysInv'
<1>1. /\ OpShape(op') /\ op'.at = op.at + 1
      /\ op'.fam = op.fam /\ op'.cmd = op.cmd /\ op'.err = "" /\ op'.clean = op.clean /\ op'.res = ""
  BY OpWrites DEF KeysInv, KeysShapes, Running
<1>2. KeysShapes'
  BY <1>1 DEF KeysInv, KeysShapes, Running
<1>3. OursNotRun' /\ NotTypedYet' /\ ErasedNotRun'
  BY <1>1 DEF OursNotRun, NotTypedYet, ErasedNotRun
<1>4. AnsweredLast'
  <2>1. Answering(op.fam) \in Nat
    BY DEF Answering
  <2>2. op.at > Answering(op.fam) => op.at + 1 > Answering(op.fam)
    BY <2>1, NextIsPast, Zenon
  <2>3. Answering(op'.fam) = Answering(op.fam)
    BY <1>1
  <2>. QED
    BY <1>1, <2>1, <2>2, <2>3, Zenon DEF AnsweredLast
<1>5. RefusalLeavesNothing'
  BY <1>1 DEF RefusalLeavesNothing, UnsentCodes
<1>. QED
  BY <1>2, <1>3, <1>4, <1>5, NoKeyPlaced DEF KeysInv

\* A step on that leaves the text in the line and the history as they are.
LEMMA GotoQuiet ==
    ASSUME KeysInv, Running, Goto, op.err = "", op.at + 1 \in DOMAIN Program(op.fam, op.cmd), op.at \in Nat,
           op.cmd # "choose" /\ op.at + 1 <= 2 => op.at <= 2,
           key' = "none", window' \in {"same", "touched"}, PaneShape(pane'), pane'.line = pane.line, UNCHANGED hist
    PROVE  KeysInv'
<1>1. /\ HistShape(hist') /\ pane'.line \in {"empty", "draft", "ours", "mixed"}
      /\ UserTextSafe'
  BY DEF KeysInv, KeysShapes, UserTextSafe
<1>2. pane'.line \in {"ours", "mixed"} => hist'.ran = "none"
  BY DEF KeysInv, OursNotRun
<1>3. op.cmd # "choose" /\ op.at + 1 <= 2 => pane'.line \in {"empty", "draft"} /\ hist'.ran = "none"
  BY DEF KeysInv, NotTypedYet
<1>4. op.cmd = "choose" /\ hist'.answered # "none" => op.at > Answering(op.fam) \/ op.at + 1 > Answering(op.fam)
  BY Zenon DEF KeysInv, AnsweredLast
<1>. QED
  BY <1>1, <1>2, <1>3, <1>4, GotoKeeps

LEMMA InspectKeeps ==
    ASSUME KeysInv, InspectStep
    PROVE  KeysInv'
<1>1. /\ op.err = "" /\ op.at \in Nat /\ op.at <= 2 /\ op.at + 1 \in DOMAIN Program(op.fam, op.cmd)
      /\ Running /\ UNCHANGED <<pane, hist, window>> /\ key' = "none"
      /\ PaneShape(pane') /\ window' \in {"same", "touched"}
  BY StepsPlaced, NoKeyUnderWay DEF InspectStep, NoKey, KeySteps, KeysInv, KeysShapes
<1>2. Goto \/ Return("not_idle")
  BY DEF InspectStep
<1>3. CASE Goto
  BY <1>1, <1>3, GotoQuiet
<1>4. CASE Return("not_idle")
  BY <1>1, <1>4, ReturnKeeps DEF UnsentCodes
<1>. QED
  BY <1>2, <1>3, <1>4

LEMMA TypeLookKeeps ==
    ASSUME KeysInv, TypeLook
    PROVE  KeysInv'
<1>1. /\ op.at <= 2 /\ Running /\ op.cmd # "choose" /\ UNCHANGED <<pane, hist, window>> /\ key = "none"
      /\ Step = "type"
  BY StepsPlaced DEF TypeLook, Looked, NoKey
<1>2. pane.line \in {"empty", "draft"} /\ hist.ran = "none"
  BY <1>1 DEF KeysInv, NotTypedYet
<1>3. CASE Looked("send")
  BY <1>1, <1>3, KeyLookKeeps DEF Looked, KeySteps, AsLooked
<1>4. CASE \E r \in TypeRefusals(pane) : Return(r) /\ NoKey
  <2>1. PICK r \in TypeRefusals(pane) : Return(r) /\ NoKey
    BY <1>4
  <2>2. r # "dialog_changed"
    BY DEF TypeRefusals
  <2>3. key' = "none"
    BY <1>1, <2>1 DEF NoKey
  <2>. QED
    BY <1>1, <1>2, <2>1, <2>2, <2>3, ReturnKeeps
<1>. QED
  BY <1>3, <1>4 DEF TypeLook

LEMMA TypeKeyKeeps ==
    ASSUME KeysInv, TypeKey
    PROVE  KeysInv'
<1>1. /\ op.err = "" /\ op.at \in Nat /\ op.at <= 2 /\ op.at + 1 > 2 /\ op.at + 1 \in DOMAIN Program(op.fam, op.cmd)
      /\ Running /\ op.cmd # "choose" /\ UNCHANGED hist /\ Goto /\ key' = "none" /\ window' \in {"same", "touched"}
  BY StepsPlaced DEF TypeKey, Sent
<1>2. pane.line \in {"empty", "draft"} /\ hist.ran = "none" /\ PaneShape(pane) /\ HistShape(hist)
  BY <1>1 DEF KeysInv, NotTypedYet, KeysShapes
<1>3. PaneShape(pane') /\ pane'.line \in {"empty", "draft", "ours", "mixed"}
  BY <1>2 DEF PaneShape, TypeKey
<1>4. ~(op.at + 1 <= 2)
  BY <1>1, PastTwo, Zenon
<1>5. UserTextSafe'
  BY <1>1 DEF KeysInv, UserTextSafe
<1>. QED
  BY <1>1, <1>2, <1>3, <1>4, <1>5, GotoKeeps

LEMMA AwaitKeeps ==
    ASSUME KeysInv, AwaitStep
    PROVE  KeysInv'
<1>1. /\ op.err = "" /\ op.at \in Nat /\ op.at > 2 /\ op.cmd # "choose"
      /\ Step # "receipt" => op.at + 1 \in DOMAIN Program(op.fam, op.cmd)
      /\ Running /\ UNCHANGED <<pane, hist, window>> /\ key' = "none"
      /\ PaneShape(pane') /\ window' \in {"same", "touched"}
  BY StepsPlaced, NoKeyUnderWay DEF AwaitStep, NoKey, KeySteps, KeysInv, KeysShapes
<1>2. \/ Step # "receipt" /\ Goto
      \/ \E e \in KeyErrors : Abandon(e)
      \/ Return("ok") \/ Return("error")
  BY DEF AwaitStep, KeyErrors, UnsentCodes
<1>3. CASE Step # "receipt" /\ Goto
  <2>1. ~(op.at + 1 <= 2)
    BY <1>1, PastTwo, Zenon
  <2>. QED
    BY <1>1, <1>3, <2>1, GotoQuiet
<1>4. CASE \E e \in KeyErrors : Abandon(e)
  BY <1>1, <1>4, AbandonKeeps
<1>5. CASE Return("ok")
  BY <1>1, <1>5, ReturnKeeps DEF UnsentCodes
<1>6. CASE Return("error")
  BY <1>1, <1>6, ReturnKeeps DEF UnsentCodes
<1>. QED
  BY <1>2, <1>3, <1>4, <1>5, <1>6

LEMMA EscapeKeeps ==
    ASSUME KeysInv, EscapeStep
    PROVE  KeysInv'
<1>1. /\ op.err = "" /\ op.at \in Nat /\ op.at > 2 /\ op.cmd # "choose" /\ op.at + 1 \in DOMAIN Program(op.fam, op.cmd)
      /\ Running /\ UNCHANGED <<hist, window>> /\ key' = "none" /\ window' \in {"same", "touched"}
  BY StepsPlaced, NoKeyUnderWay DEF EscapeStep, NoKey, KeySteps, KeysInv, KeysShapes
<1>2. CASE Goto /\ pane' = Escaped(pane)
  <2>1. PaneShape(pane') /\ pane'.line = pane.line
    BY <1>2 DEF KeysInv, KeysShapes, PaneShape, Escaped
  <2>2. ~(op.at + 1 <= 2)
    BY <1>1, PastTwo, Zenon
  <2>. QED
    BY <1>1, <1>2, <2>1, <2>2, GotoQuiet
<1>3. CASE Abandon("error") /\ UNCHANGED pane
  BY <1>1, <1>3, AbandonKeeps DEF KeyErrors
<1>. QED
  BY <1>2, <1>3 DEF EscapeStep

\* What a look for turns can find.
LEMMA QuietCodes ==
    ASSUME NEW f \in {"claude", "codex", "agy", "grok"}, NEW seen \in Quiet(f, pane)
    PROVE  seen \in UnsentCodes \cup {""}
BY DEF Quiet, ClaudeQuiet, CodexQuiet, AgyQuiet, GrokTurns, UnsentCodes

LEMMA EnterLookKeeps ==
    ASSUME KeysInv, EnterLook \/ FinalRead
    PROVE  KeysInv'
<1>1. /\ op.at > 2 /\ op.cmd # "choose" /\ Running /\ Step = "enter" /\ UNCHANGED <<pane, hist>>
      /\ window' \in {"same", "touched"}
  BY StepsPlaced DEF EnterLook, FinalRead, NoKey, Looked, Sent, KeysInv, KeysShapes
<1>2. CASE \E e \in KeyErrors : Abandon(e) /\ key' = "none"
  BY <1>1, <1>2, AbandonKeeps
<1>3. CASE EnterLook /\ MayEnter(pane) /\ UNCHANGED <<op, window>>
  <2>1. pane.line = "ours" /\ pane.dialog = 0
    BY <1>3 DEF MayEnter, Typed, AgyMenuReady, GrokMenuReady, Shows
  <2>. QED
    BY <1>1, <1>3, <2>1, KeyLookKeeps DEF KeySteps, AsLooked
<1>4. CASE FinalRead /\ UNCHANGED <<op, window>>
  <2>1. window = "same" => AsLooked(Step)
    BY <1>4 DEF KeysInv, LookStillTrue, FinalRead
  <2>. QED
    BY <1>1, <1>4, <2>1, KeyLookKeeps DEF KeySteps
<1>5. EnterLook => \/ \E e \in KeyErrors : Abandon(e) /\ key' = "none"
                   \/ MayEnter(pane) /\ UNCHANGED <<op, window>>
  BY DEF EnterLook, NoKey, Looked, KeyErrors, UnsentCodes
<1>6. FinalRead => \/ \E e \in KeyErrors : Abandon(e) /\ key' = "none"
                   \/ UNCHANGED <<op, window>>
  <2>1. \A seen \in Quiet(op.fam, pane) : seen \in UnsentCodes \cup {""}
    BY <1>1, QuietCodes, KeysAssumption DEF KeysInv, KeysShapes, Running
  <2>. QED
    BY <2>1 DEF FinalRead, Looked, Sent, KeyErrors
<1>. QED
  BY <1>2, <1>3, <1>4, <1>5, <1>6

\* The key of a pane that nobody touched meets it as it was looked at.
LEMMA UnracedKey ==
    ASSUME KeysInv, key = "send", Raced = "no"
    PROVE  hist.raced = "no" /\ AsLooked(Step)
BY DEF Raced, KeysInv, KeysShapes, LookStillTrue

LEMMA EnterKeyKeeps ==
    ASSUME KeysInv, EnterKey
    PROVE  KeysInv'
<1>1. /\ op.err = "" /\ op.at \in Nat /\ op.at + 1 \in DOMAIN Program(op.fam, op.cmd) /\ Running /\ Goto
      /\ key' = "none" /\ window' \in {"same", "touched"} /\ key = "send"
      /\ Step = "enter" => op.cmd # "choose" /\ op.at > 2
      /\ Step = "confirm" => op.cmd = "choose" /\ op.at + 1 > Answering(op.fam)
      /\ Step \in {"enter", "confirm"}
  BY StepsPlaced DEF EnterKey, Sent
<1>2. op.cmd # "choose" => ~(op.at + 1 <= 2)
  BY <1>1, PastTwo, Zenon
<1>3. op.cmd = "choose" => op.at + 1 > Answering(op.fam)
  BY <1>1, Zenon
<1>4. PaneShape(pane) /\ HistShape(hist) /\ pane.line \in {"empty", "draft", "ours", "mixed"}
  BY DEF KeysInv, KeysShapes
<1>5. CASE /\ pane.dialog # 0 /\ pane' = DialogAnswered(pane)
           /\ hist' = [hist EXCEPT !.answered = AnswerOf(pane), !.raced = Raced]
  <2>1. PaneShape(pane') /\ pane'.line = pane.line
    BY <1>4, <1>5 DEF PaneShape, DialogAnswered
  <2>2. /\ HistShape(hist') /\ hist'.sent = hist.sent /\ hist'.erased = hist.erased /\ hist'.ran = hist.ran
        /\ hist'.answered = AnswerOf(pane) /\ hist'.raced = Raced
    BY <1>4, <1>5 DEF HistShape
  <2>3. UserTextSafe'
    <3>. SUFFICES ASSUME Raced = "no"
                  PROVE  /\ hist.sent \in {"none", "ours"} /\ hist.erased \in {"none", "ours"}
                         /\ AnswerOf(pane) = "chosen"
      BY <2>2 DEF UserTextSafe
    <3>1. hist.raced = "no" /\ AsLooked(Step)
      BY <1>1, UnracedKey
    <3>2. Step = "confirm" /\ pane.dialog = 1
      BY <1>1, <1>5, <3>1 DEF AsLooked
    <3>. QED
      BY <1>1, <3>1, <3>2 DEF KeysInv, UserTextSafe, AnswerOf
  <2>4. pane'.line \in {"ours", "mixed"} => hist'.ran = "none"
    BY <2>1, <2>2 DEF KeysInv, OursNotRun
  <2>. QED
    BY <1>1, <1>2, <1>3, <1>4, <2>1, <2>2, <2>3, <2>4, GotoKeeps
<1>6. CASE /\ pane.dialog = 0 /\ pane' = Entered(pane)
           /\ hist' = [hist EXCEPT !.sent = IF pane.line = "empty" THEN @ ELSE pane.line,
                                   !.ran = IF pane.line = "ours" THEN "adapter" ELSE @, !.raced = Raced]
  <2>1. PaneShape(pane') /\ pane'.line = "empty"
    BY <1>4, <1>6 DEF PaneShape, Entered
  <2>2. /\ HistShape(hist') /\ hist'.erased = hist.erased
        /\ hist'.sent = IF pane.line = "empty" THEN hist.sent ELSE pane.line
        /\ hist'.answered = hist.answered /\ hist'.raced = Raced
    BY <1>4, <1>6 DEF HistShape
  <2>3. UserTextSafe'
    <3>. SUFFICES ASSUME Raced = "no"
                  PROVE  /\ hist'.sent = "ours" /\ hist.erased \in {"none", "ours"}
                         /\ hist.answered \in {"none", "chosen"}
      BY <2>2 DEF UserTextSafe
    <3>1. hist.raced = "no" /\ AsLooked(Step)
      BY <1>1, UnracedKey
    <3>2. Step # "confirm"
      BY <1>6, <3>1 DEF AsLooked
    <3>3. Step = "enter"
      BY <1>1, <3>2
    <3>4. pane.line = "ours"
      BY <3>1, <3>3 DEF AsLooked
    <3>. QED
      BY <2>2, <3>1, <3>4 DEF KeysInv, UserTextSafe
  <2>. QED
    BY <1>1, <1>2, <1>3, <1>4, <2>1, <2>2, <2>3, GotoKeeps
<1>. QED
  BY <1>5, <1>6 DEF EnterKey

LEMMA CleanWrites ==
    ASSUME KeysInv, NEW c \in {"erased", "unerased"}, op' = [op EXCEPT !.clean = c]
    PROVE  /\ OpShape(op') /\ op'.clean = c
           /\ op'.fam = op.fam /\ op'.cmd = op.cmd /\ op'.at = op.at /\ op'.err = op.err /\ op'.res = op.res
BY DEF KeysInv, KeysShapes, OpShape

LEMMA EraseLookKeeps ==
    ASSUME KeysInv, EraseLook
    PROVE  KeysInv'
<1>1. /\ op.err # "" /\ Running /\ op.res = "" /\ Step = "erase" /\ key = "none" /\ UNCHANGED <<pane, hist, window>>
  BY StepsPlaced DEF EraseLook, Running, Looked, NoKey
<1>2. CASE Looked("send") /\ MayErase(pane)
  BY <1>1, <1>2, KeyLookKeeps DEF Looked, KeySteps, AsLooked, MayErase, Shows
<1>3. CASE op' = [op EXCEPT !.clean = "unerased"] /\ NoKey
  <2>1. /\ OpShape(op') /\ op'.fam = op.fam /\ op'.cmd = op.cmd /\ op'.at = op.at /\ op'.err = op.err
        /\ op'.clean = "unerased" /\ op'.res = ""
    BY <1>1, <1>3, CleanWrites
  <2>2. KeysShapes'
    BY <1>1, <2>1 DEF KeysInv, KeysShapes
  <2>3. OursNotRun' /\ ErasedNotRun' /\ UserTextSafe' /\ NotTypedYet' /\ AnsweredLast'
    BY <1>1, <2>1 DEF KeysInv, OursNotRun, ErasedNotRun, UserTextSafe, NotTypedYet, AnsweredLast
  <2>4. RefusalLeavesNothing'
    BY <2>1 DEF RefusalLeavesNothing, UnsentCodes
  <2>5. key' = "none"
    BY <1>1, <1>3 DEF NoKey
  <2>. QED
    BY <2>2, <2>3, <2>4, <2>5, NoKeyPlaced DEF KeysInv
<1>. QED
  BY <1>2, <1>3 DEF EraseLook

LEMMA EraseKeyKeeps ==
    ASSUME KeysInv, EraseKey
    PROVE  KeysInv'
<1>1. /\ op.err # "" /\ op.at \in Nat /\ Running /\ op.res = "" /\ Step = "erase" /\ key = "send"
      /\ key' = "none" /\ window' = "same" /\ op' = [op EXCEPT !.clean = "erased"]
  BY StepsPlaced DEF EraseKey, Running, Sent
<1>2. op.cmd # "choose" => ~(op.at <= 2)
  BY <1>1 DEF KeysInv, NotTypedYet
<1>3. /\ OpShape(op') /\ op'.fam = op.fam /\ op'.cmd = op.cmd /\ op'.at = op.at /\ op'.err = op.err
      /\ op'.clean = "erased" /\ op'.res = ""
  BY <1>1, CleanWrites
<1>4. PaneShape(pane) /\ HistShape(hist) /\ pane.line \in {"empty", "draft", "ours", "mixed"}
  BY DEF KeysInv, KeysShapes
<1>5. /\ PaneShape(pane') /\ pane'.line \in {pane.line, "empty", "draft"}
      /\ pane.dialog = 0 => pane'.line \in {"empty", "draft"}
  <2>1. CASE pane.dialog # 0
    BY <1>4, <2>1 DEF EraseKey
  <2>2. CASE pane.dialog = 0
    <3>1. PICK left \in Leftovers(pane.line) : pane' = [pane EXCEPT !.line = left, !.menu = "none"]
      BY <2>2 DEF EraseKey
    <3>2. left \in {"empty", "draft"}
      BY DEF Leftovers
    <3>. QED
      BY <1>4, <3>1, <3>2 DEF PaneShape
  <2>. QED
    BY <2>1, <2>2
<1>6. /\ HistShape(hist') /\ hist'.sent = hist.sent /\ hist'.ran = hist.ran /\ hist'.answered = hist.answered
      /\ hist'.raced = Raced /\ hist'.erased \in {hist.erased, pane.line}
  <2>1. CASE pane.dialog # 0
    BY <1>4, <2>1 DEF EraseKey, HistShape
  <2>2. CASE pane.dialog = 0
    <3>1. hist' = [hist EXCEPT !.erased = IF pane.line = "empty" THEN @ ELSE pane.line, !.raced = Raced]
      BY <2>2 DEF EraseKey
    <3>. QED
      BY <1>4, <3>1 DEF HistShape
  <2>. QED
    BY <2>1, <2>2
<1>7. Raced = "no" => hist.raced = "no" /\ pane.line = "ours" /\ pane.dialog = 0 /\ hist.ran = "none"
  <2>1. Raced = "no" => hist.raced = "no" /\ AsLooked(Step)
    BY <1>1, UnracedKey
  <2>. QED
    BY <1>1, <2>1 DEF AsLooked, KeysInv, OursNotRun
<1>8. KeysShapes'
  BY <1>1, <1>3, <1>4, <1>5, <1>6 DEF KeysInv, KeysShapes, Running
<1>9. OursNotRun' /\ ErasedNotRun' /\ UserTextSafe'
  BY <1>5, <1>6, <1>7 DEF KeysInv, OursNotRun, ErasedNotRun, UserTextSafe
<1>10. NotTypedYet' /\ AnsweredLast'
  BY <1>2, <1>3, <1>6, Zenon DEF KeysInv, NotTypedYet, AnsweredLast
<1>11. RefusalLeavesNothing'
  BY <1>3 DEF RefusalLeavesNothing, UnsentCodes
<1>. QED
  BY <1>1, <1>8, <1>9, <1>10, <1>11, NoKeyPlaced DEF KeysInv

LEMMA EraseReturnKeeps ==
    ASSUME KeysInv, EraseReturn
    PROVE  KeysInv'
<1>1. /\ op.err # "" /\ op.clean = Step /\ Running /\ UNCHANGED <<pane, hist, window>> /\ op.err \in KeyErrors
      /\ key' = "none"
  BY StepsPlaced, NoKeyUnderWay DEF EraseReturn, NoKey, KeySteps, KeysInv, KeysShapes
<1>2. CASE Step = "erased" /\ Return(AbandonResult(TRUE))
  <2>1. hist.raced = "no" => hist.ran = "none" /\ pane.line \in {"empty", "draft"}
    <3>1. op.err # "" /\ op.clean = "erased"
      BY <1>1, <1>2, Zenon
    <3>. QED
      BY <3>1, Zenon DEF KeysInv, ErasedNotRun
  <2>2. AbandonResult(TRUE) = op.err /\ op.err # "dialog_changed"
    BY <1>1 DEF AbandonResult, KeyErrors, UnsentCodes
  <2>. QED
    BY <1>1, <1>2, <2>1, <2>2, ReturnKeeps
<1>3. CASE Return(AbandonResult(FALSE))
  <2>1. AbandonResult(FALSE) \notin UnsentCodes /\ AbandonResult(FALSE) # "dialog_changed"
    BY <1>1 DEF AbandonResult, KeyErrors, UnsentCodes
  <2>. QED
    BY <1>1, <1>3, <2>1, ReturnKeeps
<1>. QED
  BY <1>2, <1>3 DEF EraseReturn

\* Before the last key of a choice nothing is answered.
LEMMA NotAnsweredYet ==
    ASSUME KeysInv, op.cmd = "choose", op.at \in Nat, op.at <= Answering(op.fam)
    PROVE  hist.answered = "none"
<1>1. Answering(op.fam) \in Nat
  BY DEF Answering
<1>2. ~(op.at > Answering(op.fam))
  BY <1>1, NotPast, Zenon
<1>. QED
  BY <1>2, Zenon DEF KeysInv, AnsweredLast

LEMMA ChooseLookKeeps ==
    ASSUME KeysInv, ChooseLook
    PROVE  KeysInv'
<1>1. /\ op.cmd = "choose" /\ Running /\ op.at \in Nat /\ op.at <= Answering(op.fam)
      /\ UNCHANGED <<pane, hist, window>> /\ key = "none"
      /\ Step \in {"digit", "select", "confirm"}
  BY StepsPlaced DEF ChooseLook, Looked, NoKey
<1>2. CASE Looked("send") /\ Chosen
  BY <1>1, <1>2, KeyLookKeeps DEF Looked, Chosen, KeySteps, AsLooked
<1>3. CASE \E r \in {"dialog_changed", "error"} : Return(r) /\ NoKey
  <2>1. hist.answered = "none" /\ (NoKey => key' = "none")
    BY <1>1, NotAnsweredYet DEF NoKey
  <2>. QED
    BY <1>1, <1>3, <2>1, ReturnKeeps DEF UnsentCodes
<1>. QED
  BY <1>2, <1>3 DEF ChooseLook

LEMMA DigitKeyKeeps ==
    ASSUME KeysInv, DigitKey
    PROVE  KeysInv'
<1>1. /\ op.err = "" /\ op.at \in Nat /\ op.at + 1 \in DOMAIN Program(op.fam, op.cmd) /\ Running /\ Goto
      /\ key' = "none" /\ window' \in {"same", "touched"} /\ key = "send" /\ op.cmd = "choose"
      /\ op.at <= Answering(op.fam) /\ Step \in {"digit", "select"}
      /\ Step = "digit" => op.at + 1 > Answering(op.fam)
  BY StepsPlaced DEF DigitKey, Sent
<1>2. hist.answered = "none"
  BY <1>1, NotAnsweredYet
<1>3. PaneShape(pane) /\ HistShape(hist) /\ pane.line \in {"empty", "draft", "ours", "mixed"}
  BY DEF KeysInv, KeysShapes
<1>4. CASE pane' = [pane EXCEPT !.line = "draft"] /\ UNCHANGED hist
  <2>1. PaneShape(pane') /\ pane'.line = "draft"
    BY <1>3, <1>4 DEF PaneShape
  <2>2. UserTextSafe'
    BY <1>4 DEF KeysInv, UserTextSafe
  <2>. QED
    BY <1>1, <1>2, <1>3, <1>4, <2>1, <2>2, GotoKeeps
<1>5. CASE pane' = [pane EXCEPT !.selected = TRUE] /\ UNCHANGED hist
  <2>1. PaneShape(pane') /\ pane'.line = pane.line
    BY <1>3, <1>5 DEF PaneShape
  <2>. QED
    BY <1>1, <1>5, <2>1, GotoQuiet
<1>6. CASE /\ Step = "digit" /\ pane' = DialogAnswered(pane)
           /\ hist' = [hist EXCEPT !.answered = AnswerOf(pane), !.raced = Raced]
  <2>1. PaneShape(pane') /\ pane'.line = pane.line
    BY <1>3, <1>6 DEF PaneShape, DialogAnswered
  <2>2. /\ HistShape(hist') /\ hist'.sent = hist.sent /\ hist'.erased = hist.erased /\ hist'.ran = hist.ran
        /\ hist'.answered = AnswerOf(pane) /\ hist'.raced = Raced
    BY <1>3, <1>6 DEF HistShape
  <2>3. UserTextSafe'
    <3>. SUFFICES ASSUME Raced = "no"
                  PROVE  /\ hist.sent \in {"none", "ours"} /\ hist.erased \in {"none", "ours"}
                         /\ AnswerOf(pane) = "chosen"
      BY <2>2 DEF UserTextSafe
    <3>1. hist.raced = "no" /\ AsLooked(Step)
      BY <1>1, UnracedKey
    <3>. QED
      BY <1>1, <3>1 DEF AsLooked, KeysInv, UserTextSafe, AnswerOf
  <2>4. pane'.line \in {"ours", "mixed"} => hist'.ran = "none"
    BY <2>1, <2>2 DEF KeysInv, OursNotRun
  <2>5. op.at + 1 > Answering(op.fam)
    BY <1>1, <1>6, Zenon
  <2>. QED
    BY <1>1, <1>3, <2>1, <2>2, <2>3, <2>4, <2>5, GotoKeeps
<1>7. \/ pane' = [pane EXCEPT !.line = "draft"] /\ UNCHANGED hist
      \/ pane' = [pane EXCEPT !.selected = TRUE] /\ UNCHANGED hist
      \/ /\ Step = "digit" /\ pane' = DialogAnswered(pane)
         /\ hist' = [hist EXCEPT !.answered = AnswerOf(pane), !.raced = Raced]
  BY DEF DigitKey
<1>. QED
  BY <1>4, <1>5, <1>6, <1>7

LEMMA ChooseReadsKeep ==
    ASSUME KeysInv, ChooseReads
    PROVE  KeysInv'
<1>1. /\ op.err = "" /\ op.at \in Nat /\ op.cmd = "choose" /\ Running
      /\ Step # "gone" => op.at + 1 \in DOMAIN Program(op.fam, op.cmd)
      /\ UNCHANGED <<pane, hist, window>> /\ key' = "none"
      /\ PaneShape(pane') /\ window' \in {"same", "touched"}
  BY StepsPlaced, NoKeyUnderWay DEF ChooseReads, NoKey, KeySteps, KeysInv, KeysShapes
<1>2. CASE \E r \in {"ok", "error"} : Return(r)
  BY <1>1, <1>2, ReturnKeeps DEF UnsentCodes
<1>3. CASE Step # "gone" /\ Goto
  BY <1>1, <1>3, GotoQuiet
<1>. QED
  BY <1>2, <1>3 DEF ChooseReads

LEMMA StartKeeps ==
    ASSUME KeysInv, KeysStart
    PROVE  KeysInv'
<1>0. PICK f \in KeyFamilies : \E c \in Commands(f) :
         /\ op' = [op EXCEPT !.fam = f, !.cmd = c]
         /\ pane' = [pane EXCEPT !.dialog = IF c = "choose" THEN 1 ELSE 0]
  BY DEF KeysStart
<1>1. PICK c \in Commands(f) :
         /\ op' = [op EXCEPT !.fam = f, !.cmd = c]
         /\ pane' = [pane EXCEPT !.dialog = IF c = "choose" THEN 1 ELSE 0]
  BY <1>0
<1>2. /\ op.fam = "none" /\ UNCHANGED <<hist, window>> /\ op.cmd = "" /\ op.at = 1 /\ op.err = "" /\ op.res = ""
      /\ hist.answered = "none"
  BY DEF KeysStart, NoKey, KeysInv, KeysShapes
<1>a. key' = "none"
  BY <1>2 DEF KeysStart, NoKey, KeysInv, KeyPlaced, Running
<1>3. pane.line \in {"empty", "draft"} /\ hist.ran = "none"
  <2>1. op.cmd # "choose"
    BY <1>2
  <2>2. 1 <= 2
    OBVIOUS
  <2>3. op.at <= 2
    BY <1>2, <2>2, Zenon
  <2>. QED
    BY <2>1, <2>3, Zenon DEF KeysInv, NotTypedYet
<1>5. OpShape(op') /\ op'.fam = f /\ op'.cmd = c /\ op'.at = 1 /\ op'.err = "" /\ op'.res = ""
  BY <1>1, <1>2 DEF KeysInv, KeysShapes, OpShape
<1>6. PaneShape(pane') /\ pane'.line = pane.line
  BY <1>1 DEF KeysInv, KeysShapes, PaneShape
<1>7. KeysShapes'
  <2>1. f \in {"claude", "codex", "agy", "grok"} /\ f # "none"
    BY KeysAssumption
  <2>2. 1 \in DOMAIN Program(f, c)
    BY <2>1, ProgramTable DEF TypingProgram, ChoosingProgram
  <2>. QED
    BY <1>2, <1>3, <1>5, <1>6, <2>1, <2>2 DEF KeysInv, KeysShapes
<1>8. OursNotRun' /\ NotTypedYet' /\ ErasedNotRun' /\ UserTextSafe'
  BY <1>2, <1>3, <1>5, <1>6 DEF KeysInv, OursNotRun, NotTypedYet, ErasedNotRun, UserTextSafe
<1>9. AnsweredLast' /\ RefusalLeavesNothing'
  BY <1>2, <1>5 DEF AnsweredLast, RefusalLeavesNothing, UnsentCodes
<1>. QED
  BY <1>a, <1>7, <1>8, <1>9, NoKeyPlaced DEF KeysInv

\* What the user and the program do while the adapter is at work: the line goes between
\* empty and a draft, or between the adapter's own text and a mixed one, until it is entered;
\* while a key is under way the line and the dialog stay as they are, or the pane is touched.
LEMMA PaneActKeeps ==
    ASSUME KeysInv, Running, UNCHANGED <<op, key>>, PaneShape(pane'), HistShape(hist'),
           hist'.sent = hist.sent, hist'.erased = hist.erased, hist'.answered = hist.answered, hist'.raced = hist.raced,
           \/ hist' = hist /\ pane'.line = pane.line
           \/ hist' = hist /\ pane.line \in {"empty", "draft"} /\ pane'.line \in {"empty", "draft"}
           \/ hist' = hist /\ pane.line \in {"ours", "mixed"} /\ pane'.line \in {"ours", "mixed", "empty"}
           \/ pane.line = "ours" /\ pane'.line = "empty",
           \/ Touch
           \/ window' = window /\ pane'.line = pane.line /\ pane'.dialog = pane.dialog
    PROVE  KeysInv'
<1>1. KeysShapes'
  BY DEF KeysInv, KeysShapes, Touch
<1>2. OursNotRun' /\ NotTypedYet' /\ ErasedNotRun' /\ UserTextSafe'
  BY DEF KeysInv, KeysShapes, OursNotRun, NotTypedYet, ErasedNotRun, UserTextSafe
<1>3. AnsweredLast'
  BY Zenon DEF KeysInv, AnsweredLast
<1>4. RefusalLeavesNothing'
  BY DEF RefusalLeavesNothing, UnsentCodes, Running
<1>5. Step' = Step /\ Running'
  BY DEF Step, Running
<1>6. KeyPlaced' /\ LookStillTrue'
  BY <1>5 DEF KeysInv, KeyPlaced, LookStillTrue, AsLooked, Touch
<1>. QED
  BY <1>1, <1>2, <1>3, <1>4, <1>6 DEF KeysInv

LEMMA PaneActsKeep ==
    ASSUME KeysInv, UserTypes \/ UserEnters \/ ProgramRuns \/ DialogShows \/ ProgramShows
    PROVE  KeysInv'
<1>1. /\ Running /\ UNCHANGED <<op, key>> /\ PaneShape(pane) /\ HistShape(hist)
      /\ pane.line \in {"empty", "draft", "ours", "mixed"}
  BY DEF UserTypes, UserEnters, ProgramRuns, DialogShows, ProgramShows, Act, KeysInv, KeysShapes
<1>2. ASSUME UserTypes PROVE KeysInv'
  <2>1. UNCHANGED hist /\ PaneShape(pane') /\ Touch
    BY <1>1, <1>2 DEF UserTypes, PaneShape
  <2>2. \/ pane.line \in {"empty", "draft"} /\ pane'.line \in {"empty", "draft"}
        \/ pane.line \in {"ours", "mixed"} /\ pane'.line \in {"ours", "mixed"}
    BY <1>1, <1>2 DEF UserTypes, PaneShape
  <2>. QED
    BY <1>1, <2>1, <2>2, PaneActKeeps
<1>3. ASSUME UserEnters PROVE KeysInv'
  <2>1. PaneShape(pane') /\ pane'.line = "empty" /\ Touch
    BY <1>1, <1>3 DEF UserEnters, Entered, PaneShape
  <2>2. /\ HistShape(hist') /\ hist'.sent = hist.sent /\ hist'.erased = hist.erased /\ hist'.answered = hist.answered
        /\ hist'.raced = hist.raced
    BY <1>1, <1>3 DEF UserEnters, HistShape
  <2>3. pane.line = "ours" \/ hist' = hist
    BY <1>3 DEF UserEnters
  <2>. QED
    BY <1>1, <2>1, <2>2, <2>3, PaneActKeeps
<1>4. ASSUME ProgramRuns \/ ProgramShows PROVE KeysInv'
  <2>1. UNCHANGED <<hist, window>>
    BY <1>4 DEF ProgramRuns, ProgramShows
  <2>2. PaneShape(pane') /\ pane'.line = pane.line /\ pane'.dialog = pane.dialog
    BY <1>1, <1>4 DEF ProgramRuns, ProgramShows, PaneShape
  <2>. QED
    BY <1>1, <2>1, <2>2, PaneActKeeps
<1>5. ASSUME DialogShows PROVE KeysInv'
  <2>1. UNCHANGED hist /\ Touch
    BY <1>5 DEF DialogShows
  <2>2. PaneShape(pane') /\ pane'.line = pane.line
    BY <1>1, <1>5 DEF DialogShows, PaneShape
  <2>. QED
    BY <1>1, <2>1, <2>2, PaneActKeeps
<1>. QED
  BY <1>2, <1>3, <1>4, <1>5

\* What the keys of an adapter do to a pane that its user types into as well: they submit and
\* erase its own text and answer the chosen dialog only, and a refusal means that nothing was
\* done (keyIf, final, abandon), for every family and however often the user and the program
\* act, unless the user typed or a dialog came or went between a key and the look that
\* admitted it.
THEOREM KeysSafeThm == KeysSpec => []KeysSafe
<1>1. KeysInv /\ [KeysNext]_keyVars => KeysInv'
  <2>. SUFFICES ASSUME KeysInv, [KeysNext]_keyVars PROVE KeysInv'
    OBVIOUS
  <2>1. CASE UNCHANGED keyVars
    <3>1. UNCHANGED <<pane, op, key, window, hist>>
      BY <2>1 DEF keyVars
    <3>2. Step' = Step /\ Running' = Running
      BY <3>1 DEF Step, Running
    <3>3. /\ KeysShapes' /\ OursNotRun' /\ NotTypedYet' /\ ErasedNotRun' /\ AnsweredLast'
          /\ UserTextSafe' /\ RefusalLeavesNothing'
      BY <3>1, SameKept
    <3>4. KeyPlaced' /\ LookStillTrue'
      BY <3>1, <3>2 DEF KeysInv, KeyPlaced, LookStillTrue, AsLooked
    <3>. QED
      BY <3>3, <3>4 DEF KeysInv
  <2>. QED
    BY <2>1, StartKeeps, InspectKeeps, TypeLookKeeps, TypeKeyKeeps, AwaitKeeps, EscapeKeeps, EnterLookKeeps,
       EnterKeyKeeps, EraseLookKeeps, EraseKeyKeeps, EraseReturnKeeps, ChooseLookKeeps, DigitKeyKeeps,
       ChooseReadsKeep, PaneActsKeep DEF KeysNext
<1>2. KeysInv => KeysSafe
  BY DEF KeysInv, KeysSafe
<1>. QED
  BY <1>1, <1>2, KeysInitInv, PTL DEF KeysSpec

-----------------------------------------------------------------------------
(* The readings of a session's transcript *)

\* Every nonempty set of numbers has a least one.
LEMMA LeastNumber ==
    ASSUME NEW T \in SUBSET Nat, T # {}
    PROVE  \E x \in T : \A y \in T : x <= y
<1>1. PICK x \in T : \A y \in T : ~(<<y, x>> \in OpToRel(<, Nat))
  BY WFMin, NatLessThanWellFounded, Zenon
<1>2. ASSUME NEW y \in T PROVE x <= y
  <2>1. CASE y < x
    <3>1. <<y, x>> \in OpToRel(<, Nat)
      BY <2>1 DEF OpToRel
    <3>. QED
      BY <1>1, <3>1
  <2>. QED
    BY <2>1
<1>. QED
  BY <1>2

\* The reader's run over the log from where r stands to piece k.
IsRun(g, r, k) == g = [i \in r.off .. k |-> IF i = r.off THEN r ELSE RolloutEvent(g[i - 1], i)]

LEMMA RunExists ==
    ASSUME NEW r, r.off \in Nat, NEW n \in Nat, r.off <= n
    PROVE  \E g : IsRun(g, r, n)
<1>. DEFINE Bad == {k \in Nat : k >= r.off /\ ~\E g : IsRun(g, r, k)}
<1>1. SUFFICES ASSUME Bad # {} PROVE FALSE
  OBVIOUS
<1>2. PICK k \in Bad : \A y \in Bad : k <= y
  BY <1>1, LeastNumber
<1>3. CASE k = r.off
  <2>. DEFINE g == [i \in r.off .. k |-> r]
  <2>1. IsRun(g, r, k)
    BY <1>3 DEF IsRun
  <2>. QED
    BY <2>1
<1>4. CASE k # r.off
  <2>1. k - 1 \in Nat /\ k - 1 >= r.off /\ k - 1 \notin Bad
    BY <1>2, <1>4
  <2>2. PICK g : IsRun(g, r, k - 1)
    BY <2>1
  <2>. DEFINE h == [i \in r.off .. k |-> IF i = k THEN RolloutEvent(g[k - 1], k) ELSE g[i]]
  <2>3. ASSUME NEW i \in r.off .. k
        PROVE  h[i] = IF i = r.off THEN r ELSE RolloutEvent(h[i - 1], i)
    <3>1. CASE i = k
      BY <1>4, <2>1, <3>1
    <3>2. CASE i # k /\ i = r.off
      BY <2>1, <2>2, <3>2 DEF IsRun
    <3>3. CASE i # k /\ i # r.off
      <4>1. i \in r.off .. k - 1 /\ i - 1 \in r.off .. k - 1 /\ i - 1 # k
        BY <2>1, <3>3
      <4>2. h[i] = g[i] /\ h[i - 1] = g[i - 1]
        BY <3>3, <4>1
      <4>3. g[i] = RolloutEvent(g[i - 1], i)
        BY <2>2, <3>3, <4>1 DEF IsRun
      <4>. QED
        BY <3>3, <4>2, <4>3
    <3>. QED
      BY <3>1, <3>2, <3>3
  <2>4. IsRun(h, r, k)
    BY <2>3 DEF IsRun
  <2>. QED
    BY <2>4
<1>. QED
  BY <1>3, <1>4

StartOf == IF follow.file = rollout.file THEN follow ELSE [NewRollout EXCEPT !.file = rollout.file]
EndOf(r) == IF r.off + RolloutBatch < Len(rollout.log) THEN r.off + RolloutBatch ELSE Len(rollout.log)

Caught(r, x) == /\ EndOf(r) = Len(rollout.log) /\ EndOf(r) < r.off + RolloutBatch
                /\ ~rollout.torn /\ ~x.skip

RunOf(r, k) == CHOOSE g : IsRun(g, r, k)

LEMMA ConsumeIsRun ==
    Consume = [RunOf(StartOf, EndOf(StartOf))[EndOf(StartOf)] EXCEPT !.caught =
                  Caught(StartOf, RunOf(StartOf, EndOf(StartOf))[EndOf(StartOf)])]
BY DEF Consume, StartOf, EndOf, IsRun, RunOf, Caught

-----------------------------------------------------------------------------
(* What was read *)

LogPieces == [kind : {"use", "start", "end", "head", "tail"}, used : {"none", "low", "high"},
              turn : Nat, at : Nat]

\* The last usage among the first n pieces of the log.
IsLastUse(l, n, i) ==
    /\ i \in DOMAIN l /\ i <= n /\ l[i].kind = "use"
    /\ \A j \in DOMAIN l : j <= n /\ l[j].kind = "use" => j <= i
UseRead(l, n, u) ==
    \/ u = Nothing /\ \A j \in DOMAIN l : j <= n => l[j].kind # "use"
    \/ u.used # "none" /\ \E i \in DOMAIN l : IsLastUse(l, n, i) /\ u = [used |-> l[i].used, at |-> l[i].at]

FollowForm(f) ==
    f = [file |-> f.file, off |-> f.off, skip |-> f.skip, caught |-> f.caught, turn |-> f.turn,
         idle |-> f.idle, use |-> f.use]
ReadTo(f, l, file, n) == FollowForm(f) /\ f.file = file /\ f.off = n /\ UseRead(l, n, f.use)

LogShape(l) ==
    /\ l \in Seq(LogPieces)
    /\ \A i \in DOMAIN l : l[i].kind = "use" => l[i].used # "none"

\* The next piece of the log is read.
LEMMA EventReads ==
    ASSUME NEW l, l = rollout.log, LogShape(l), NEW x, NEW file, NEW n \in Nat, n + 1 \in DOMAIN l,
           ReadTo(x, l, file, n)
    PROVE  ReadTo(RolloutEvent(x, n + 1), l, file, n + 1)
<1>. DEFINE p == l[n + 1]
<1>0. p \in LogPieces /\ DOMAIN l \subseteq Nat /\ DOMAIN l = 1 .. Len(l) /\ Len(l) \in Nat
  BY DEF LogShape
<1>1. PICK y : y = [x EXCEPT !.off = n + 1]
  OBVIOUS
<1>2. FollowForm(y) /\ y.file = file /\ y.off = n + 1 /\ y.use = x.use
  BY <1>1 DEF ReadTo, FollowForm
<1>3. ASSUME p.kind # "use" PROVE UseRead(l, n + 1, x.use)
  <2>1. CASE x.use = Nothing /\ \A j \in DOMAIN l : j <= n => l[j].kind # "use"
    <3>1. \A j \in DOMAIN l : j <= n + 1 => j <= n \/ j = n + 1
      BY <1>0
    <3>. QED
      BY <1>3, <2>1, <3>1 DEF UseRead
  <2>2. CASE x.use.used # "none" /\ \E i \in DOMAIN l : IsLastUse(l, n, i) /\ x.use = [used |-> l[i].used, at |-> l[i].at]
    <3>1. PICK i \in DOMAIN l : IsLastUse(l, n, i) /\ x.use = [used |-> l[i].used, at |-> l[i].at]
      BY <2>2
    <3>2. IsLastUse(l, n + 1, i)
      BY <1>0, <1>3, <3>1 DEF IsLastUse
    <3>. QED
      BY <2>2, <3>1, <3>2 DEF UseRead
  <2>. QED
    BY <2>1, <2>2 DEF ReadTo, UseRead
<1>4. CASE p.kind = "use"
  <2>1. RolloutEvent(x, n + 1) = [y EXCEPT !.use = [used |-> p.used, at |-> p.at]]
    BY <1>1, <1>4 DEF RolloutEvent
  <2>2. PICK u : u = [used |-> p.used, at |-> p.at]
    OBVIOUS
  <2>3. PICK z : z = [y EXCEPT !.use = u]
    OBVIOUS
  <2>4. FollowForm(z) /\ z.file = file /\ z.off = n + 1 /\ z.use = u
    BY <1>2, <2>3 DEF FollowForm
  <2>5. IsLastUse(l, n + 1, n + 1)
    BY <1>0, <1>4 DEF IsLastUse
  <2>6. u.used # "none"
    BY <1>4, <2>2 DEF LogShape
  <2>7. UseRead(l, n + 1, u)
    BY <2>2, <2>5, <2>6 DEF UseRead
  <2>8. ReadTo(z, l, file, n + 1)
    BY <2>4, <2>7 DEF ReadTo
  <2>. QED
    BY <2>1, <2>2, <2>3, <2>8
<1>5. CASE p.kind # "use"
  <2>1. PICK z : z = RolloutEvent(x, n + 1)
    OBVIOUS
  <2>2. \E a, b, c : \/ z = [y EXCEPT !.skip = a]
                     \/ z = [y EXCEPT !.turn = b, !.idle = c]
                     \/ z = [y EXCEPT !.idle = c]
    <3>1. CASE p.kind = "head"
      <4>1. z = [y EXCEPT !.skip = TRUE]
        BY <1>1, <2>1, <3>1 DEF RolloutEvent
      <4>. QED
        BY <4>1
    <3>2. CASE p.kind = "tail"
      <4>1. z = [y EXCEPT !.skip = FALSE]
        BY <1>1, <2>1, <3>2 DEF RolloutEvent
      <4>. QED
        BY <4>1
    <3>3. CASE p.kind = "start"
      <4>1. z = [y EXCEPT !.turn = n + 1, !.idle = FALSE]
        BY <1>1, <2>1, <3>3 DEF RolloutEvent
      <4>. QED
        BY <4>1
    <3>4. CASE p.kind = "end"
      <4>1. z = [y EXCEPT !.idle = @ \/ p.turn = x.turn]
        BY <1>1, <2>1, <3>4 DEF RolloutEvent
      <4>2. PICK c : c = (y.idle \/ p.turn = x.turn)
        OBVIOUS
      <4>3. z = [y EXCEPT !.idle = c]
        BY <4>1, <4>2
      <4>. QED
        BY <4>3
    <3>. QED
      BY <1>0, <1>5, <3>1, <3>2, <3>3, <3>4 DEF LogPieces
  <2>3. FollowForm(z) /\ z.file = y.file /\ z.off = y.off /\ z.use = y.use
    <3>1. PICK a, b, c : \/ z = [y EXCEPT !.skip = a]
                         \/ z = [y EXCEPT !.turn = b, !.idle = c]
                         \/ z = [y EXCEPT !.idle = c]
      BY <2>2
    <3>. QED
      BY <1>2, <3>1 DEF FollowForm
  <2>. QED
    BY <1>2, <1>3, <1>5, <2>1, <2>3 DEF ReadTo
<1>. QED
  BY <1>4, <1>5

\* A look at the rollout reads on, and is caught up only at its end.
LEMMA ConsumeReads ==
    ASSUME NEW l, l = rollout.log, LogShape(l), NEW n \in Nat, n <= Len(l), ReadTo(StartOf, l, rollout.file, n)
    PROVE  \E m \in Nat : /\ m <= Len(l) /\ ReadTo(Consume, l, rollout.file, m)
                          /\ Consume.caught => m = Len(l)
<1>. DEFINE e == EndOf(StartOf)
            g == RunOf(StartOf, e)
            Bad == {k \in Nat : k \in n .. e /\ ~ReadTo(g[k], l, rollout.file, k)}
<1>0. Len(l) \in Nat /\ DOMAIN l = 1 .. Len(l) /\ StartOf.off = n /\ RolloutBatch \in Nat
  BY ReadingsAssumption DEF LogShape, ReadTo
<1>1. e \in Nat /\ n <= e /\ e <= Len(l) /\ (e = n + RolloutBatch \/ e = Len(l))
  BY <1>0 DEF EndOf
<1>2. IsRun(g, StartOf, e)
  <2>1. \E x : IsRun(x, StartOf, e)
    BY <1>0, <1>1, RunExists
  <2>. QED
    BY <2>1 DEF RunOf
<1>. HIDE DEF e, g
<1>3. /\ g[n] = StartOf
      /\ \A k \in n .. e : k # n => g[k] = RolloutEvent(g[k - 1], k)
  BY <1>0, <1>1, <1>2 DEF IsRun
<1>4. Bad = {}
  <2>1. SUFFICES ASSUME Bad # {} PROVE FALSE
    OBVIOUS
  <2>2. PICK k \in Bad : \A y \in Bad : k <= y
    BY <2>1, LeastNumber
  <2>3. k # n
    BY <1>3, <2>2
  <2>4. k - 1 \in Nat /\ k - 1 \in n .. e /\ k - 1 \notin Bad
    BY <1>1, <2>2, <2>3
  <2>5. PICK x : x = g[k - 1]
    OBVIOUS
  <2>6. PICK m \in Nat : m = k - 1 /\ k = m + 1
    BY <2>4
  <2>7. ReadTo(x, l, rollout.file, m) /\ m + 1 \in DOMAIN l
    BY <1>0, <1>1, <2>2, <2>4, <2>5, <2>6
  <2>8. ReadTo(RolloutEvent(x, m + 1), l, rollout.file, m + 1)
    BY <2>7, EventReads
  <2>9. g[k] = RolloutEvent(x, m + 1)
    BY <1>3, <2>2, <2>3, <2>5, <2>6
  <2>. QED
    BY <2>2, <2>6, <2>8, <2>9
<1>5. PICK x : x = g[e]
  OBVIOUS
<1>6. ReadTo(x, l, rollout.file, e)
  BY <1>1, <1>4, <1>5
<1>7. PICK c : c = Caught(StartOf, x)
  OBVIOUS
<1>8. Consume = [x EXCEPT !.caught = c]
  BY <1>5, <1>7, ConsumeIsRun DEF e, g
<1>9. PICK z : z = Consume
  OBVIOUS
<1>10. FollowForm(z) /\ z.file = x.file /\ z.off = x.off /\ z.use = x.use /\ z.caught = c
  BY <1>6, <1>8, <1>9 DEF ReadTo, FollowForm
<1>11. ReadTo(z, l, rollout.file, e)
  BY <1>6, <1>10 DEF ReadTo
<1>12. z.caught => e = Len(l)
  BY <1>7, <1>10 DEF Caught, e
<1>. QED
  BY <1>1, <1>9, <1>11, <1>12

-----------------------------------------------------------------------------
(* The inductive invariant, of the rollout R, the clock m and the origin o *)

Ends == [file : Nat, size : Nat]

\* The readings of the log are in the order of their times, which have passed.
RolloutForm(R) == R = [file |-> R.file, own |-> R.own, log |-> R.log, torn |-> R.torn]
RolloutGood(R, m) ==
    /\ RolloutForm(R) /\ R.file \in Nat \ {0} /\ LogShape(R.log)
    /\ \A i \in DOMAIN R.log : R.log[i].kind = "use" => R.log[i].at <= m
    /\ \A i, j \in DOMAIN R.log :
          i <= j /\ R.log[i].kind = "use" /\ R.log[j].kind = "use" => R.log[i].at <= R.log[j].at

LastReading(R, i) == IsLastUse(R.log, Len(R.log), i)

\* No reading is newer than the last one of the file that has one.
NotNewer(R, at) == \A i \in DOMAIN R.log : LastReading(R, i) => at <= R.log[i].at

\* A mark lies in this file or in an earlier one; a mark at the end of this file is of its
\* last reading.
Placed(R, end) == end \in Ends /\ end.file <= R.file /\ (end.file = R.file => end.size <= Len(R.log))
MarkIsTrue(R, used, at, end) ==
    end.file = R.file /\ end.size = Len(R.log) =>
        \E i \in DOMAIN R.log : LastReading(R, i) /\ R.log[i].used = used /\ R.log[i].at = at

ReadingGood(R, m, o, used, at, end) ==
    /\ used \in {"low", "high"} /\ at \in Nat /\ at <= m
    /\ o = "codex" => NotNewer(R, at) /\ Placed(R, end) /\ MarkIsTrue(R, used, at, end)

\* What is newer than the reading was not written before t.
NewerSince(R, at, t) == \A i \in DOMAIN R.log : R.log[i].kind = "use" /\ R.log[i].at > at => R.log[i].at >= t

FollowGood(f, R, o) ==
    o = "codex" => /\ f.file \in Nat /\ f.file <= R.file
                   /\ f.file = R.file => \E n \in Nat : n <= Len(R.log) /\ ReadTo(f, R.log, R.file, n)

ReportForm(f) == f = [used |-> f.used, at |-> f.at, end |-> f.end, sent |-> f.sent]
ReportGood(f, R, m, o) ==
    f.used # "none" => o = "codex" /\ ReportForm(f) /\ ReadingGood(R, m, o, f.used, f.at, f.end)

\* A marked report on its way was looked up within this unit of the clock.
ReportDue(f, R, m) == f.used # "none" /\ f.end # NoEnd => NewerSince(R, f.at, m)

StoredForm(s) == s = [used |-> s.used, at |-> s.at, end |-> s.end, seen |-> s.seen, proof |-> s.proof]
StoredGood(s, R, m, o) ==
    s.used # "none" =>
        /\ StoredForm(s) /\ ReadingGood(R, m, o, s.used, s.at, s.end) /\ s.seen \in Nat /\ s.seen <= m
        /\ (o = "codex" /\ s.end # NoEnd) \/ (o # "codex" /\ s.proof) => NewerSince(R, s.at, s.seen)

PollForm(p) == p = [st |-> p.st, used |-> p.used, at |-> p.at, index |-> p.index, size |-> p.size, newest |-> p.newest]
PollGood(p, R, m, o) ==
    p # NoPoll => /\ o # "codex" /\ PollForm(p) /\ p.used \in {"low", "high"} /\ p.at \in Nat /\ p.at <= m
                  /\ NewerSince(R, p.at, m)

\* The reading of a recorded intent, when it goes on a mark.
CompactionForm(c) == c = [st |-> c.st, mark |-> c.mark, src |-> c.src]
CompactionGood(c, R, o) ==
    /\ CompactionForm(c)
    /\ c.st = "intent" => /\ o = "codex" /\ c.mark \in Ends
                          /\ c.mark # NoEnd => Placed(R, c.mark) /\ MarkIsTrue(R, "high", c.src, c.mark)

ReadingsInv ==
    /\ minute \in Nat
    /\ RolloutGood(rollout, minute)
    /\ FollowGood(follow, rollout, origin)
    /\ ReportGood(delivered, rollout, minute, origin)
    /\ ReportGood(flight, rollout, minute, origin) /\ ReportDue(flight, rollout, minute)
    /\ ReportGood(lateReport, rollout, minute, origin) /\ ReportDue(lateReport, rollout, minute)
    /\ StoredGood(stored, rollout, minute, origin)
    /\ PollGood(polling, rollout, minute, origin)
    /\ CompactionGood(compaction, rollout, origin)

-----------------------------------------------------------------------------
(* The agent's log *)

PieceGood(p, m) ==
    p \in LogPieces /\ (p.kind = "use" => p.used # "none" /\ p.at = m)

RolloutStep(R, S, m, o) ==
    /\ RolloutForm(S)
    /\ \/ S.file = R.file /\ S.log = R.log
       \/ S.file = R.file /\ \E p : PieceGood(p, m) /\ S.log = Append(R.log, p)
       \/ S.file = R.file + 1 /\ S.log = <<>>
       \/ o # "codex" /\ S.file = R.file /\ \E n \in 1 .. Len(R.log) - 1 : S.log = SubSeq(R.log, 1, n)

\* What a step of the agent keeps of the log and of what was read of it.
LogKept(R, S, m, o) ==
    /\ RolloutGood(S, m)
    /\ \A used, at, end : ReadingGood(R, m, o, used, at, end) => ReadingGood(S, m, o, used, at, end)
    /\ \A at : \A t \in Nat : t <= m /\ NewerSince(R, at, t) => NewerSince(S, at, t)
    /\ \A f : FollowGood(f, R, o) => FollowGood(f, S, o)
    /\ o = "codex" => \A src, mark : /\ Placed(R, mark) => Placed(S, mark)
                                     /\ Placed(R, mark) /\ MarkIsTrue(R, "high", src, mark) => MarkIsTrue(S, "high", src, mark)

LEMMA SameLogKept ==
    ASSUME NEW R, NEW S, NEW m \in Nat, NEW o, RolloutGood(R, m), RolloutForm(S),
           S.file = R.file, S.log = R.log
    PROVE  LogKept(R, S, m, o)
BY DEF LogKept, RolloutGood, ReadingGood, NewerSince, FollowGood, Placed, MarkIsTrue, NotNewer, LastReading

LEMMA ReplacedLogKept ==
    ASSUME NEW R, NEW S, NEW m \in Nat, NEW o, RolloutGood(R, m), RolloutForm(S),
           S.file = R.file + 1, S.log = <<>>
    PROVE  LogKept(R, S, m, o)
<1>1. DOMAIN S.log = {} /\ S.log \in Seq(LogPieces) /\ Len(S.log) = 0
  OBVIOUS
<1>2. R.file \in Nat /\ S.file \in Nat \ {0} /\ \A k \in Nat : k <= R.file => k < S.file /\ k # S.file /\ k <= S.file
  BY DEF RolloutGood
<1>3. RolloutGood(S, m)
  BY <1>1, <1>2 DEF RolloutGood, LogShape
<1>4. \A end : Placed(R, end) => Placed(S, end) /\ end.file # S.file
  BY <1>2 DEF Placed, Ends
<1>5. \A f : FollowGood(f, R, o) => FollowGood(f, S, o)
  BY <1>2 DEF FollowGood
<1>. QED
  BY <1>1, <1>3, <1>4, <1>5 DEF LogKept, ReadingGood, NewerSince, MarkIsTrue, NotNewer

LEMMA RevertedLogKept ==
    ASSUME NEW R, NEW S, NEW m \in Nat, NEW o, RolloutGood(R, m), RolloutForm(S), o # "codex",
           S.file = R.file, NEW n \in 1 .. Len(R.log) - 1, S.log = SubSeq(R.log, 1, n)
    PROVE  LogKept(R, S, m, o)
<1>1. R.log \in Seq(LogPieces) /\ Len(R.log) \in Nat /\ DOMAIN R.log = 1 .. Len(R.log)
  BY DEF RolloutGood, LogShape
<1>2. /\ S.log \in Seq(LogPieces)
      /\ \A i \in DOMAIN S.log : i \in DOMAIN R.log /\ S.log[i] = R.log[i]
  BY <1>1
<1>3. RolloutGood(S, m)
  BY <1>2 DEF RolloutGood, LogShape
<1>. QED
  BY <1>2, <1>3 DEF LogKept, ReadingGood, NewerSince, FollowGood

LEMMA AppendedLogKept ==
    ASSUME NEW R, NEW S, NEW m \in Nat, NEW o, RolloutGood(R, m), RolloutForm(S),
           S.file = R.file, NEW p, PieceGood(p, m), S.log = Append(R.log, p)
    PROVE  LogKept(R, S, m, o)
<1>1. R.log \in Seq(LogPieces) /\ Len(R.log) \in Nat /\ DOMAIN R.log = 1 .. Len(R.log) /\ p \in LogPieces
  BY DEF RolloutGood, LogShape, PieceGood
<1>2. PICK n \in Nat : n = Len(R.log) /\ DOMAIN R.log = 1 .. n
  BY <1>1
<1>3. /\ S.log \in Seq(LogPieces) /\ Len(S.log) = n + 1 /\ DOMAIN S.log = 1 .. n + 1
      /\ S.log[n + 1] = p
      /\ \A i \in 1 .. n : S.log[i] = R.log[i]
  BY <1>1, <1>2
<1>4. RolloutGood(S, m)
  <2>1. LogShape(S.log)
    BY <1>2, <1>3 DEF RolloutGood, LogShape, PieceGood
  <2>2. \A i \in DOMAIN S.log : S.log[i].kind = "use" => S.log[i].at <= m
    BY <1>2, <1>3 DEF RolloutGood, PieceGood
  <2>3. ASSUME NEW i \in DOMAIN S.log, NEW j \in DOMAIN S.log,
               i <= j, S.log[i].kind = "use", S.log[j].kind = "use"
        PROVE  S.log[i].at <= S.log[j].at
    <3>1. CASE j = n + 1
      BY <1>3, <2>2, <2>3, <3>1 DEF PieceGood
    <3>2. CASE j # n + 1
      BY <1>2, <1>3, <2>3, <3>2 DEF RolloutGood
    <3>. QED
      BY <3>1, <3>2
  <2>. QED
    BY <2>1, <2>2, <2>3 DEF RolloutGood
<1>5. ASSUME NEW at \in Nat, at <= m, NotNewer(R, at) PROVE NotNewer(S, at)
  <2>1. SUFFICES ASSUME NEW i \in DOMAIN S.log, LastReading(S, i) PROVE at <= S.log[i].at
    BY DEF NotNewer
  <2>2. CASE i = n + 1
    BY <1>3, <1>5, <2>1, <2>2 DEF LastReading, IsLastUse, PieceGood
  <2>3. CASE i # n + 1
    <3>1. i \in 1 .. n
      BY <1>3, <2>3
    <3>2. LastReading(R, i)
      BY <1>2, <1>3, <2>1, <3>1 DEF LastReading, IsLastUse
    <3>. QED
      BY <1>2, <1>3, <1>5, <3>1, <3>2 DEF NotNewer
  <2>. QED
    BY <2>2, <2>3
<1>6. \A end : Placed(R, end) => Placed(S, end) /\ ~(end.file = S.file /\ end.size = Len(S.log))
  BY <1>2, <1>3 DEF Placed, Ends, RolloutGood
<1>7. ASSUME NEW at, NEW t \in Nat, t <= m, NewerSince(R, at, t) PROVE NewerSince(S, at, t)
  BY <1>2, <1>3, <1>7 DEF NewerSince, PieceGood
<1>8. ASSUME NEW f, FollowGood(f, R, o) PROVE FollowGood(f, S, o)
  <2>1. SUFFICES ASSUME o = "codex", f.file = S.file
                 PROVE  \E k \in Nat : k <= Len(S.log) /\ ReadTo(f, S.log, S.file, k)
    BY <1>8 DEF FollowGood
  <2>2. PICK k \in Nat : k <= n /\ ReadTo(f, R.log, R.file, k)
    BY <1>2, <1>8, <2>1 DEF FollowGood
  <2>3. UseRead(S.log, k, f.use)
    <3>1. \A j \in DOMAIN S.log : j <= k => j \in DOMAIN R.log /\ S.log[j] = R.log[j]
      BY <1>2, <1>3, <2>2
    <3>2. CASE f.use = Nothing /\ \A j \in DOMAIN R.log : j <= k => R.log[j].kind # "use"
      BY <3>1, <3>2 DEF UseRead
    <3>3. CASE f.use.used # "none" /\ \E i \in DOMAIN R.log : IsLastUse(R.log, k, i) /\ f.use = [used |-> R.log[i].used, at |-> R.log[i].at]
      <4>1. PICK i \in DOMAIN R.log : IsLastUse(R.log, k, i) /\ f.use = [used |-> R.log[i].used, at |-> R.log[i].at]
        BY <3>3
      <4>2. i \in DOMAIN S.log /\ S.log[i] = R.log[i] /\ IsLastUse(S.log, k, i)
        BY <1>2, <1>3, <3>1, <4>1 DEF IsLastUse
      <4>. QED
        BY <3>3, <4>1, <4>2 DEF UseRead
    <3>. QED
      BY <2>2, <3>2, <3>3 DEF ReadTo, UseRead
  <2>. QED
    BY <1>3, <2>2, <2>3 DEF ReadTo
<1>. QED
  BY <1>4, <1>5, <1>6, <1>7, <1>8 DEF LogKept, ReadingGood, MarkIsTrue

LEMMA RolloutStepKept ==
    ASSUME NEW R, NEW S, NEW m \in Nat, NEW o, RolloutGood(R, m), RolloutStep(R, S, m, o)
    PROVE  LogKept(R, S, m, o)
<1>1. RolloutForm(S)
  BY DEF RolloutStep
<1>2. CASE S.file = R.file /\ S.log = R.log
  BY <1>1, <1>2, SameLogKept
<1>3. CASE S.file = R.file /\ \E p : PieceGood(p, m) /\ S.log = Append(R.log, p)
  BY <1>1, <1>3, AppendedLogKept
<1>4. CASE S.file = R.file + 1 /\ S.log = <<>>
  BY <1>1, <1>4, ReplacedLogKept
<1>5. CASE o # "codex" /\ S.file = R.file /\ \E n \in 1 .. Len(R.log) - 1 : S.log = SubSeq(R.log, 1, n)
  BY <1>1, <1>5, RevertedLogKept
<1>. QED
  BY <1>2, <1>3, <1>4, <1>5 DEF RolloutStep

\* The agent's steps write only the rollout.
LEMMA AgentKeeps ==
    ASSUME ReadingsInv, RolloutStep(rollout, rollout', minute, origin),
           UNCHANGED <<origin, minute, serverReader, flight, lateReport, stored, asking, crossing,
                       cycleOnReading, daemonReader>>
    PROVE  ReadingsInv'
<1>1. PICK R, S, m, o : R = rollout /\ S = rollout' /\ m = minute /\ o = origin
  OBVIOUS
<1>2. m \in Nat /\ RolloutGood(R, m)
  BY <1>1 DEF ReadingsInv
<1>3. LogKept(R, S, m, o)
  BY <1>1, <1>2, RolloutStepKept
<1>4. /\ \A used, at, end : ReadingGood(R, m, o, used, at, end) => ReadingGood(S, m, o, used, at, end)
      /\ \A at : \A t \in Nat : t <= m /\ NewerSince(R, at, t) => NewerSince(S, at, t)
      /\ RolloutGood(S, m)
      /\ \A f : FollowGood(f, R, o) => FollowGood(f, S, o)
      /\ o = "codex" => \A src, mark : /\ Placed(R, mark) => Placed(S, mark)
                                       /\ Placed(R, mark) /\ MarkIsTrue(R, "high", src, mark) => MarkIsTrue(S, "high", src, mark)
  BY <1>3 DEF LogKept
<1>5. \A f : ReportGood(f, R, m, o) => ReportGood(f, S, m, o)
  BY <1>4 DEF ReportGood
<1>6. \A f : ReportDue(f, R, m) => ReportDue(f, S, m)
  BY <1>2, <1>4 DEF ReportDue
<1>7. ASSUME NEW s, StoredGood(s, R, m, o) PROVE StoredGood(s, S, m, o)
  BY <1>4, <1>7 DEF StoredGood
<1>8. ASSUME NEW p, PollGood(p, R, m, o) PROVE PollGood(p, S, m, o)
  <2>1. m <= m
    BY <1>2
  <2>2. NewerSince(R, p.at, m) => NewerSince(S, p.at, m)
    BY <1>2, <1>4, <2>1
  <2>. QED
    BY <1>8, <2>2 DEF PollGood
<1>9. \A c : CompactionGood(c, R, o) => CompactionGood(c, S, o)
  BY <1>4 DEF CompactionGood
<1>10. /\ R = rollout /\ S = rollout' /\ m = minute /\ m = minute' /\ o = origin /\ o = origin'
       /\ follow' = follow /\ delivered' = delivered /\ flight' = flight /\ lateReport' = lateReport
       /\ stored' = stored /\ polling' = polling /\ compaction' = compaction
  BY <1>1 DEF serverReader, cycleOnReading, daemonReader
<1>. QED
  BY <1>2, <1>4, <1>5, <1>6, <1>7, <1>8, <1>9, <1>10 DEF ReadingsInv

\* The last of some places of the log.
LEMMA LastOfPlaces ==
    ASSUME NEW n \in Nat, NEW T \in SUBSET (1 .. n)
    PROVE  /\ LastOf(T) \in Nat
           /\ T # {} => LastOf(T) \in T /\ \A j \in T : j <= LastOf(T)
<1>1. CASE T = {}
  BY <1>1 DEF LastOf
<1>2. CASE T # {}
  <2>. DEFINE D == {d \in Nat : n - d \in T}
  <2>1. D # {}
    <3>1. PICK i \in T : TRUE
      BY <1>2
    <3>2. n - i \in Nat /\ n - (n - i) = i
      BY <3>1
    <3>. QED
      BY <3>1, <3>2
  <2>2. PICK d \in D : \A y \in D : d <= y
    BY <2>1, LeastNumber
  <2>3. ASSUME NEW j \in T PROVE j <= n - d
    <3>1. n - j \in Nat /\ n - (n - j) = j /\ j \in Nat
      OBVIOUS
    <3>2. n - j \in D
      BY <3>1
    <3>. QED
      BY <2>2, <3>1, <3>2
  <2>4. \E i \in T : \A j \in T : j <= i
    BY <2>2, <2>3
  <2>5. LastOf(T) = CHOOSE i \in T : \A j \in T : j <= i
    BY <1>2, Zenon DEF LastOf
  <2>6. LastOf(T) \in T /\ \A j \in T : j <= LastOf(T)
    BY <2>4, <2>5, Zenon
  <2>7. PICK i \in T : i = LastOf(T)
    BY <2>6, Zenon
  <2>8. i \in Nat
    OBVIOUS
  <2>. QED
    BY <2>6, <2>7, <2>8, Zenon
<1>. QED
  BY <1>1, <1>2

LEMMA AgentStepsKeep ==
    ASSUME ReadingsInv, AgentWrites \/ AgentTears \/ AgentReverts \/ \E own \in BOOLEAN : RolloutReplaced(own)
    PROVE  ReadingsInv'
<1>0. minute \in Nat /\ RolloutForm(rollout) /\ LogShape(rollout.log) /\ Len(rollout.log) \in Nat
      /\ DOMAIN rollout.log = 1 .. Len(rollout.log)
  BY DEF ReadingsInv, RolloutGood, LogShape
<1>1. PICK R : R = rollout
  OBVIOUS
<1>2. ASSUME NEW p, AgentAppends(p), PieceGood(p, minute) PROVE ReadingsInv'
  <2>1. rollout' = [R EXCEPT !.log = Append(@, p), !.torn = FALSE]
    BY <1>1, <1>2 DEF AgentAppends
  <2>2. PICK S : S = [R EXCEPT !.log = Append(@, p), !.torn = FALSE]
    OBVIOUS
  <2>3. RolloutForm(S) /\ S.file = R.file /\ S.log = Append(R.log, p)
    BY <1>0, <1>1, <2>2 DEF RolloutForm
  <2>4. RolloutStep(rollout, rollout', minute, origin)
    BY <1>1, <1>2, <2>1, <2>2, <2>3 DEF RolloutStep
  <2>. QED
    BY <1>2, <2>4, AgentKeeps DEF AgentAppends
<1>3. ASSUME AgentWrites PROVE ReadingsInv'
  <2>1. LastStart \in Nat
    <3>1. Pieces("start") \subseteq 1 .. Len(rollout.log)
      BY <1>0 DEF Pieces
    <3>. QED
      BY <1>0, <3>1, LastOfPlaces DEF LastStart
  <2>. QED
    BY <1>0, <1>2, <1>3, <2>1 DEF AgentWrites, Piece, PieceGood, LogPieces
<1>4. ASSUME AgentTears PROVE ReadingsInv'
  <2>1. rollout' = [R EXCEPT !.torn = TRUE]
    BY <1>1, <1>4 DEF AgentTears
  <2>2. PICK S : S = [R EXCEPT !.torn = TRUE]
    OBVIOUS
  <2>3. RolloutForm(S) /\ S.file = R.file /\ S.log = R.log
    BY <1>0, <1>1, <2>2 DEF RolloutForm
  <2>4. RolloutStep(rollout, rollout', minute, origin)
    BY <1>1, <2>1, <2>2, <2>3 DEF RolloutStep
  <2>. QED
    BY <1>4, <2>4, AgentKeeps DEF AgentTears
<1>5. ASSUME AgentReverts PROVE ReadingsInv'
  <2>1. PICK n \in 1 .. Len(R.log) - 1 : rollout' = [R EXCEPT !.log = SubSeq(@, 1, n)]
    BY <1>1, <1>5 DEF AgentReverts
  <2>2. PICK S : S = [R EXCEPT !.log = SubSeq(@, 1, n)]
    OBVIOUS
  <2>3. RolloutForm(S) /\ S.file = R.file /\ S.log = SubSeq(R.log, 1, n)
    BY <1>0, <1>1, <2>2 DEF RolloutForm
  <2>4. RolloutStep(rollout, rollout', minute, origin)
    BY <1>1, <1>5, <2>1, <2>2, <2>3 DEF RolloutStep, AgentReverts
  <2>. QED
    BY <1>5, <2>4, AgentKeeps DEF AgentReverts
<1>6. ASSUME NEW own \in BOOLEAN, RolloutReplaced(own) PROVE ReadingsInv'
  <2>1. rollout' = [file |-> R.file + 1, own |-> own, log |-> <<>>, torn |-> FALSE]
    BY <1>1, <1>6 DEF RolloutReplaced
  <2>2. PICK S : S = [file |-> R.file + 1, own |-> own, log |-> <<>>, torn |-> FALSE]
    OBVIOUS
  <2>3. RolloutForm(S) /\ S.file = R.file + 1 /\ S.log = <<>>
    BY <2>2 DEF RolloutForm
  <2>4. RolloutStep(rollout, rollout', minute, origin)
    BY <1>1, <2>1, <2>2, <2>3 DEF RolloutStep
  <2>. QED
    BY <1>6, <2>4, AgentKeeps DEF RolloutReplaced
<1>. QED
  BY <1>3, <1>4, <1>5, <1>6

-----------------------------------------------------------------------------
(* The looks and the reports *)

\* What a look sends.
SentGood(v, R, m, o) ==
    v.used # "none" => o = "codex" /\ ReadingGood(R, m, o, v.used, v.at, v.end)
                       /\ (v.end # NoEnd => NewerSince(R, v.at, m))

LEMMA SendsGood ==
    ASSUME NEW v, SentGood(v, rollout, minute, origin), Sends(v)
    PROVE  ReportGood(flight', rollout, minute, origin) /\ ReportDue(flight', rollout, minute)
<1>1. CASE flight' = Nothing
  BY <1>1 DEF ReportGood, ReportDue, Nothing
<1>2. CASE v.used # "none" /\ flight' = [used |-> v.used, at |-> v.at, end |-> v.end, sent |-> minute]
  <2>1. PICK f : f = [used |-> v.used, at |-> v.at, end |-> v.end, sent |-> minute]
    OBVIOUS
  <2>2. ReportForm(f) /\ f.used = v.used /\ f.at = v.at /\ f.end = v.end
    BY <2>1 DEF ReportForm
  <2>. QED
    BY <1>2, <2>1, <2>2 DEF SentGood, ReportGood, ReportDue
<1>. QED
  BY <1>1, <1>2 DEF Sends

LEMMA UnmarkedGood ==
    ASSUME ReadingsInv
    PROVE  SentGood(Unmarked, rollout, minute, origin)
<1>1. CASE Unmarked = Nothing
  BY <1>1 DEF SentGood, Nothing
<1>2. CASE delivered.used # "none" /\ Unmarked = [used |-> delivered.used, at |-> delivered.at, end |-> NoEnd]
  <2>1. rollout.file \in Nat \ {0} /\ Placed(rollout, NoEnd) /\ NoEnd.file # rollout.file
    BY DEF ReadingsInv, RolloutGood, Placed, NoEnd, Ends
  <2>2. PICK v : v = Unmarked
    OBVIOUS
  <2>3. v.used = delivered.used /\ v.at = delivered.at /\ v.end = NoEnd
    BY <1>2, <2>2
  <2>. QED
    BY <1>2, <2>1, <2>2, <2>3 DEF ReadingsInv, ReportGood, ReadingGood, MarkIsTrue, SentGood
<1>. QED
  BY <1>1, <1>2 DEF Unmarked

\* What a look at the session's own rollout read goes out with a mark only at its end.
LEMMA RolloutReadingGood ==
    ASSUME ReadingsInv, origin = "codex", NEW f, f.use.used # "none",
           NEW n \in Nat, n <= Len(rollout.log), ReadTo(f, rollout.log, rollout.file, n),
           f.caught => n = Len(rollout.log)
    PROVE  SentGood(RolloutReading(f), rollout, minute, origin)
<1>0. /\ rollout.log \in Seq(LogPieces) /\ rollout.file \in Nat \ {0} /\ Len(rollout.log) \in Nat
      /\ RolloutGood(rollout, minute) /\ minute \in Nat
  BY DEF ReadingsInv, RolloutGood, LogShape
<1>1. PICK i \in DOMAIN rollout.log : IsLastUse(rollout.log, n, i) /\ f.use = [used |-> rollout.log[i].used, at |-> rollout.log[i].at]
  BY DEF ReadTo, UseRead, Nothing
<1>2. PICK p : p = rollout.log[i] /\ p \in LogPieces
  BY <1>0, <1>1
<1>3. p.kind = "use" /\ p.used \in {"low", "high"} /\ p.at \in Nat /\ p.at <= minute /\ f.use.used = p.used /\ f.use.at = p.at
  BY <1>1, <1>2 DEF IsLastUse, LogPieces, RolloutGood, ReadingsInv
<1>4. NotNewer(rollout, p.at)
  <2>1. \A j \in DOMAIN rollout.log : LastReading(rollout, j) => i <= j /\ rollout.log[j].kind = "use"
    BY <1>0, <1>1 DEF LastReading, IsLastUse
  <2>. QED
    BY <1>0, <1>1, <1>2, <1>3, <2>1 DEF RolloutGood, NotNewer
<1>5. PICK v : v = RolloutReading(f)
  OBVIOUS
<1>6. PICK e : e = IF f.caught /\ f.turn > 0 /\ f.idle THEN [file |-> f.file, size |-> f.off] ELSE NoEnd
  OBVIOUS
<1>7. v.used = p.used /\ v.at = p.at /\ v.end = e
  BY <1>3, <1>5, <1>6 DEF RolloutReading
<1>8. CASE e = NoEnd
  <2>1. Placed(rollout, e) /\ e.file # rollout.file
    BY <1>0, <1>8 DEF Placed, NoEnd, Ends
  <2>. QED
    BY <1>3, <1>4, <1>5, <1>7, <1>8, <2>1 DEF SentGood, ReadingGood, MarkIsTrue
<1>9. CASE e # NoEnd
  <2>1. f.caught /\ e = [file |-> rollout.file, size |-> n]
    BY <1>6, <1>9 DEF ReadTo
  <2>2. n = Len(rollout.log) /\ Placed(rollout, e)
    BY <1>0, <2>1 DEF Placed, Ends
  <2>3. LastReading(rollout, i)
    BY <1>1, <2>2 DEF LastReading
  <2>4. MarkIsTrue(rollout, p.used, p.at, e)
    BY <1>2, <2>3 DEF MarkIsTrue
  <2>5. NewerSince(rollout, p.at, minute)
    <3>1. SUFFICES ASSUME NEW j \in DOMAIN rollout.log, rollout.log[j].kind = "use" PROVE ~(rollout.log[j].at > p.at)
      BY DEF NewerSince
    <3>2. j <= i /\ rollout.log[j] \in LogPieces
      BY <1>0, <2>3, <3>1 DEF LastReading, IsLastUse
    <3>3. rollout.log[j].at <= p.at /\ rollout.log[j].at \in Nat
      BY <1>0, <1>1, <1>2, <1>3, <3>1, <3>2 DEF RolloutGood, LogPieces
    <3>. QED
      BY <1>3, <3>3
  <2>. QED
    BY <1>3, <1>4, <1>5, <1>7, <2>2, <2>4, <2>5 DEF SentGood, ReadingGood
<1>. QED
  BY <1>8, <1>9

LEMMA NewRolloutIsNew ==
    /\ NewRollout.file = 0 /\ FollowForm(NewRollout) /\ NewRollout.off = 0 /\ NewRollout.use = Nothing
BY DEF NewRollout, FollowForm

\* The server's looks.
LEMMA LookKeeps ==
    ASSUME ReadingsInv, Look
    PROVE  ReadingsInv'
<1>0. /\ origin = "codex" /\ UNCHANGED <<origin, minute, rollout, delivered, lateReport, stored, compaction, polling>>
      /\ rollout.file \in Nat \ {0} /\ LogShape(rollout.log) /\ Len(rollout.log) \in Nat
  BY DEF Look, readingWorld, cycleOnReading, daemonReader, ReadingsInv, RolloutGood, LogShape
<1>1. ASSUME FollowGood(follow', rollout, origin), ReportGood(flight', rollout, minute, origin), ReportDue(flight', rollout, minute)
      PROVE  ReadingsInv'
  BY <1>0, <1>1 DEF ReadingsInv
<1>2. CASE FailLook
  <2>1. FollowGood(follow', rollout, origin)
    BY <1>0, <1>2, NewRolloutIsNew DEF FailLook, FollowGood
  <2>2. ReportGood(flight', rollout, minute, origin) /\ ReportDue(flight', rollout, minute)
    BY <1>2, UnmarkedGood, SendsGood DEF FailLook
  <2>. QED
    BY <1>1, <2>1, <2>2
<1>3. CASE ReadRollout
  <2>1. \E n \in Nat : n <= Len(rollout.log) /\ ReadTo(StartOf, rollout.log, rollout.file, n)
    <3>1. CASE follow.file = rollout.file
      BY <1>0, <3>1 DEF ReadingsInv, FollowGood, StartOf
    <3>2. CASE follow.file # rollout.file
      <4>1. PICK r : r = [NewRollout EXCEPT !.file = rollout.file]
        OBVIOUS
      <4>2. FollowForm(r) /\ r.file = rollout.file /\ r.off = 0 /\ r.use = Nothing
        BY <4>1 DEF NewRollout, FollowForm
      <4>3. UseRead(rollout.log, 0, Nothing)
        BY <1>0 DEF UseRead, LogShape
      <4>4. ReadTo(r, rollout.log, rollout.file, 0)
        BY <4>2, <4>3 DEF ReadTo
      <4>5. StartOf = r
        BY <3>2, <4>1 DEF StartOf
      <4>. QED
        BY <1>0, <4>4, <4>5
    <3>. QED
      BY <3>1, <3>2
  <2>2. \E m \in Nat : /\ m <= Len(rollout.log) /\ ReadTo(Consume, rollout.log, rollout.file, m)
                       /\ Consume.caught => m = Len(rollout.log)
    BY <1>0, <2>1, ConsumeReads
  <2>3. PICK m \in Nat : /\ m <= Len(rollout.log) /\ ReadTo(Consume, rollout.log, rollout.file, m)
                         /\ Consume.caught => m = Len(rollout.log)
    BY <2>2
  <2>4. follow' = Consume
    BY <1>3 DEF ReadRollout
  <2>5. PICK f : f = Consume /\ f = follow'
    BY <2>4
  <2>6. ReadTo(f, rollout.log, rollout.file, m) /\ (f.caught => m = Len(rollout.log)) /\ f.file = rollout.file
    BY <2>3, <2>5 DEF ReadTo
  <2>7. FollowGood(f, rollout, origin)
    BY <1>0, <2>3, <2>6 DEF FollowGood
  <2>8. SentGood(IF f.use.used = "none" THEN Unmarked ELSE RolloutReading(f), rollout, minute, origin)
    <3>1. CASE f.use.used = "none"
      BY <3>1, UnmarkedGood
    <3>2. CASE f.use.used # "none"
      BY <1>0, <2>3, <2>6, <3>2, RolloutReadingGood
    <3>. QED
      BY <3>1, <3>2
  <2>9. Sends(IF f.use.used = "none" THEN Unmarked ELSE RolloutReading(f))
    BY <1>3, <2>5 DEF ReadRollout
  <2>10. PICK v : v = IF f.use.used = "none" THEN Unmarked ELSE RolloutReading(f)
    OBVIOUS
  <2>11. ReportGood(flight', rollout, minute, origin) /\ ReportDue(flight', rollout, minute)
    BY <2>8, <2>9, <2>10, SendsGood
  <2>. QED
    BY <1>1, <2>5, <2>7, <2>11
<1>. QED
  BY <1>2, <1>3 DEF Look

-----------------------------------------------------------------------------
(* The store of readings *)

\* A value that is observed: a report of a Codex session, or a reading of the daemon's own.
ValueForm(v) == v = [used |-> v.used, at |-> v.at, end |-> v.end, newest |-> v.newest, proof |-> v.proof]
ValueGood(v, R, m, o) ==
    /\ ValueForm(v) /\ ReadingGood(R, m, o, v.used, v.at, v.end)
    /\ o = "codex" => ~v.newest /\ (v.end # NoEnd => NewerSince(R, v.at, m))
    /\ o # "codex" => v.newest /\ NewerSince(R, v.at, m)

\* What a value has of the times and the mark, whatever its proof.
Takes(s, used, at, end, seen) == StoredForm(s) /\ s.used = used /\ s.at = at /\ s.end = end /\ s.seen = seen

LEMMA ObservedGood ==
    ASSUME ReadingsInv, NEW v, ValueGood(v, rollout, minute, origin)
    PROVE  StoredGood(Observed(v), rollout, minute, origin)
<1>0. /\ minute \in Nat /\ RolloutGood(rollout, minute) /\ StoredGood(stored, rollout, minute, origin)
      /\ ValueForm(v) /\ v.used \in {"low", "high"} /\ v.at \in Nat /\ v.at <= minute
      /\ ReadingGood(rollout, minute, origin, v.used, v.at, v.end)
  BY DEF ReadingsInv, ValueGood, ReadingGood
<1>1. PICK s : s = Observed(v)
  OBVIOUS
<1>2. CASE Replaces(v)
  <2>0. ~Outdated(v) /\ ~Unmarks(v) /\ ~Confirms(v)
    BY <1>2 DEF Outdated, Unmarks, Confirms, SameValue
  <2>1. PICK c : c = v.proof
    OBVIOUS
  <2>2. s = [used |-> v.used, at |-> v.at, end |-> v.end, seen |-> minute, proof |-> c]
    BY <1>1, <1>2, <2>0, <2>1 DEF Observed
  <2>3. Takes(s, v.used, v.at, v.end, minute)
    BY <2>2 DEF Takes, StoredForm
  <2>4. (origin = "codex" /\ s.end # NoEnd) \/ origin # "codex" => NewerSince(rollout, s.at, s.seen)
    BY <2>3 DEF ValueGood, Takes
  <2>. QED
    BY <1>0, <1>1, <2>3, <2>4 DEF Takes, StoredGood
<1>3. CASE ~Replaces(v)
  <2>1. /\ stored.used # "none" /\ stored.at \in Nat /\ stored.used \in {"low", "high"} /\ v.at <= stored.at
        /\ StoredForm(stored) /\ ReadingGood(rollout, minute, origin, stored.used, stored.at, stored.end)
        /\ stored.seen \in Nat /\ stored.seen <= minute
    BY <1>0, <1>3 DEF Replaces, StoredGood, ReadingGood
  <2>2. CASE Outdated(v)
    <3>0. ~Unmarks(v) /\ ~Confirms(v)
      BY <2>2 DEF Unmarks, Confirms, SameValue
    <3>1. s = [stored EXCEPT !.proof = FALSE]
      BY <1>1, <1>3, <2>2, <3>0 DEF Observed
    <3>2. Takes(s, stored.used, stored.at, stored.end, stored.seen) /\ ~s.proof
      BY <2>1, <3>1 DEF Takes, StoredForm
    <3>3. origin # "codex"
      BY <2>2 DEF Outdated, ValueGood
    <3>. QED
      BY <1>1, <2>1, <3>2, <3>3 DEF Takes, StoredGood
  <2>3. CASE Unmarks(v)
    <3>0. ~Outdated(v) /\ ~Confirms(v)
      BY <2>3 DEF Unmarks, Confirms, SameValue
    <3>1. s = [stored EXCEPT !.end = NoEnd]
      BY <1>1, <1>3, <2>3, <3>0 DEF Observed, Unmark
    <3>2. Takes(s, stored.used, stored.at, NoEnd, stored.seen) /\ (s.proof => stored.proof)
      BY <2>1, <3>1 DEF Takes, StoredForm
    <3>3. Placed(rollout, NoEnd) /\ NoEnd.file # rollout.file
      BY <1>0 DEF RolloutGood, Placed, NoEnd, Ends
    <3>4. ReadingGood(rollout, minute, origin, stored.used, stored.at, NoEnd)
      BY <2>1, <3>3 DEF ReadingGood, MarkIsTrue
    <3>5. origin # "codex" /\ s.proof => NewerSince(rollout, stored.at, stored.seen)
      BY <1>0, <2>1, <3>2 DEF StoredGood
    <3>. QED
      BY <1>1, <2>1, <3>2, <3>4, <3>5 DEF Takes, StoredGood
  <2>4. CASE Confirms(v)
    <3>1. PICK c : c = v.proof
      OBVIOUS
    <3>0. ~Outdated(v) /\ ~Unmarks(v)
      BY <2>4 DEF Confirms, SameValue
    <3>2. s = [stored EXCEPT !.seen = minute, !.end = v.end, !.proof = c]
      BY <1>1, <1>3, <2>4, <3>0, <3>1 DEF Observed
    <3>3. Takes(s, stored.used, stored.at, v.end, minute)
      BY <2>1, <3>2 DEF Takes, StoredForm
    <3>4. v.used = stored.used
      BY <2>4 DEF Confirms, SameValue
    <3>5. CASE origin # "codex"
      <4>1. v.at = stored.at
        BY <1>0, <1>3, <2>1, <2>4, <3>5 DEF Confirms, SameValue, Outdated, ValueGood
      <4>2. NewerSince(rollout, s.at, s.seen)
        BY <3>3, <3>5, <4>1 DEF ValueGood, Takes
      <4>3. ReadingGood(rollout, minute, origin, s.used, s.at, s.end)
        BY <2>1, <3>3, <3>5 DEF ReadingGood, Takes
      <4>. QED
        BY <1>0, <1>1, <3>3, <4>2, <4>3 DEF Takes, StoredGood
    <3>6. CASE origin = "codex"
      <4>1. NotNewer(rollout, stored.at) /\ Placed(rollout, v.end) /\ MarkIsTrue(rollout, v.used, v.at, v.end)
        BY <1>0, <2>1, <3>6 DEF ReadingGood
      <4>2. MarkIsTrue(rollout, stored.used, stored.at, v.end)
        <5>1. SUFFICES ASSUME v.end.file = rollout.file /\ v.end.size = Len(rollout.log)
                       PROVE  \E i \in DOMAIN rollout.log : LastReading(rollout, i) /\ rollout.log[i].used = stored.used
                                                            /\ rollout.log[i].at = stored.at
          BY DEF MarkIsTrue
        <5>2. PICK i \in DOMAIN rollout.log : LastReading(rollout, i) /\ rollout.log[i].used = v.used /\ rollout.log[i].at = v.at
          BY <4>1, <5>1 DEF MarkIsTrue
        <5>3. stored.at <= v.at
          BY <4>1, <5>2 DEF NotNewer
        <5>4. stored.at = v.at
          BY <1>0, <2>1, <5>3
        <5>. QED
          BY <3>4, <5>2, <5>4
      <4>3. ReadingGood(rollout, minute, origin, s.used, s.at, s.end)
        BY <2>1, <3>3, <4>1, <4>2 DEF ReadingGood, Takes
      <4>4. s.end # NoEnd => NewerSince(rollout, s.at, s.seen)
        <5>1. SUFFICES ASSUME v.end # NoEnd PROVE NewerSince(rollout, stored.at, minute)
          BY <3>3 DEF Takes
        <5>2. NewerSince(rollout, v.at, minute)
          BY <3>6, <5>1 DEF ValueGood
        <5>3. ASSUME NEW i \in DOMAIN rollout.log PROVE rollout.log[i].at \in Nat
          <6>1. rollout.log[i] \in LogPieces
            BY <1>0 DEF RolloutGood, LogShape
          <6>. QED
            BY <6>1 DEF LogPieces
        <5>. QED
          BY <1>0, <2>1, <5>2, <5>3 DEF NewerSince
      <4>. QED
        BY <1>0, <1>1, <3>3, <3>6, <4>3, <4>4 DEF Takes, StoredGood
    <3>. QED
      BY <3>5, <3>6
  <2>5. CASE ~Outdated(v) /\ ~Unmarks(v) /\ ~Confirms(v)
    <3>1. s = stored
      BY <1>1, <1>3, <2>5 DEF Observed
    <3>. QED
      BY <1>0, <1>1, <3>1
  <2>. QED
    BY <2>2, <2>3, <2>4, <2>5
<1>. QED
  BY <1>2, <1>3

\* A report that arrives is stored.
LEMMA ReportedGood ==
    ASSUME ReadingsInv, NEW f, f.used # "none", ReportGood(f, rollout, minute, origin), ReportDue(f, rollout, minute)
    PROVE  ValueGood(Reported(f), rollout, minute, origin)
<1>1. PICK v : v = [used |-> f.used, at |-> f.at, end |-> f.end, newest |-> FALSE, proof |-> FALSE]
  OBVIOUS
<1>2. ValueForm(v) /\ v.used = f.used /\ v.at = f.at /\ v.end = f.end /\ ~v.newest
  BY <1>1 DEF ValueForm
<1>3. ValueGood(v, rollout, minute, origin)
  BY <1>2 DEF ValueGood, ReportGood, ReportDue
<1>. QED
  BY <1>1, <1>3 DEF Reported

LEMMA ReportStepsKeep ==
    ASSUME ReadingsInv, Answered \/ Unanswered \/ LateArrives \/ TrimSent
    PROVE  ReadingsInv'
<1>0. ReportGood(Nothing, rollout, minute, origin) /\ ReportDue(Nothing, rollout, minute)
  BY DEF ReportGood, ReportDue, Nothing
<1>1. ASSUME NEW f, f.used # "none", ReportGood(f, rollout, minute, origin), ReportDue(f, rollout, minute), Observe(Reported(f))
      PROVE  StoredGood(stored', rollout, minute, origin)
  BY <1>1, ReportedGood, ObservedGood DEF Observe
<1>2. CASE Answered
  <2>1. StoredGood(stored', rollout, minute, origin)
    BY <1>1, <1>2 DEF Answered, ReadingsInv
  <2>. QED
    BY <1>0, <1>2, <2>1 DEF ReadingsInv, Answered, readingWorld, daemonReader
<1>3. CASE Unanswered
  <2>1. UNCHANGED <<origin, minute, rollout, follow, delivered, compaction, polling>> /\ flight' = Nothing
    BY <1>3 DEF Unanswered, readingWorld, serverReader, daemonReader
  <2>2. CASE Observe(Reported(flight)) /\ UNCHANGED lateReport
    <3>1. StoredGood(stored', rollout, minute, origin)
      BY <1>1, <1>3, <2>2 DEF Unanswered, ReadingsInv
    <3>. QED
      BY <1>0, <2>1, <2>2, <3>1 DEF ReadingsInv
  <2>3. CASE UNCHANGED <<stored, lateReport>>
    BY <1>0, <2>1, <2>3 DEF ReadingsInv
  <2>4. CASE lateReport' = flight /\ UNCHANGED stored
    BY <1>0, <2>1, <2>4 DEF ReadingsInv
  <2>. QED
    BY <1>3, <2>2, <2>3, <2>4 DEF Unanswered
<1>4. CASE LateArrives
  <2>1. StoredGood(stored', rollout, minute, origin)
    BY <1>1, <1>4 DEF LateArrives, ReadingsInv
  <2>. QED
    BY <1>0, <1>4, <2>1 DEF ReadingsInv, LateArrives, readingWorld, serverReader, daemonReader
<1>5. CASE TrimSent
  BY <1>0, <1>5 DEF ReadingsInv, TrimSent, readingWorld, cycleOnReading, daemonReader
<1>. QED
  BY <1>2, <1>3, <1>4, <1>5

-----------------------------------------------------------------------------
(* The daemon's own reader *)

LEMMA ProofCleared ==
    ASSUME ReadingsInv, NEW s, StoredGood(s, rollout, minute, origin), origin # "codex", s.used # "none",
           NEW t, t = [s EXCEPT !.proof = FALSE]
    PROVE  StoredGood(t, rollout, minute, origin)
<1>1. StoredForm(s)
  BY DEF StoredGood
<1>2. Takes(t, s.used, s.at, s.end, s.seen) /\ ~t.proof
  BY <1>1 DEF StoredForm, Takes
<1>. QED
  BY <1>2 DEF Takes, StoredGood

LEMMA DropReadingGood ==
    ASSUME ReadingsInv, origin # "codex", DropReading
    PROVE  StoredGood(stored', rollout, minute, origin)
<1>1. CASE stored.used = "none"
  BY <1>1 DEF DropReading, ClearContextProof, ReadingsInv
<1>2. CASE stored.used # "none"
  <2>1. PICK t : t = [stored EXCEPT !.proof = FALSE]
    OBVIOUS
  <2>2. StoredGood(t, rollout, minute, origin)
    BY <1>2, <2>1, ProofCleared DEF ReadingsInv
  <2>. QED
    BY <1>2, <2>1, <2>2 DEF DropReading, ClearContextProof
<1>. QED
  BY <1>1, <1>2

LEMMA RecordedGood ==
    ASSUME ReadingsInv, polling # NoPoll, NEW proof \in BOOLEAN, Recorded(proof)
    PROVE  StoredGood(stored', rollout, minute, origin)
<1>0. PollGood(polling, rollout, minute, origin) /\ StoredGood(stored, rollout, minute, origin) /\ origin # "codex"
  BY DEF ReadingsInv, PollGood
<1>1. PICK v : v = [used |-> polling.used, at |-> polling.at, end |-> NoEnd, newest |-> TRUE, proof |-> proof]
  OBVIOUS
<1>2. ValueForm(v) /\ v.used = polling.used /\ v.at = polling.at /\ v.newest
  BY <1>1 DEF ValueForm
<1>3. ValueGood(v, rollout, minute, origin)
  BY <1>0, <1>2 DEF ValueGood, PollGood, ReadingGood
<1>4. StoredGood(Observed(v), rollout, minute, origin)
  BY <1>3, ObservedGood
<1>5. \/ stored' = stored
      \/ stored' = Observed(v)
      \/ stored' = [Observed(v) EXCEPT !.proof = FALSE] /\ ~(Observed(v).used = v.used /\ Observed(v).at = v.at)
      \/ DropReading
  BY <1>1 DEF Recorded, Observe
<1>6. CASE stored' = [Observed(v) EXCEPT !.proof = FALSE] /\ ~(Observed(v).used = v.used /\ Observed(v).at = v.at)
  <2>1. Observed(v).used # "none"
    <3>1. CASE Replaces(v)
      <4>1. ~Outdated(v) /\ ~Unmarks(v) /\ ~Confirms(v)
        BY <3>1 DEF Outdated, Unmarks, Confirms, SameValue
      <4>2. PICK c : c = v.proof
        OBVIOUS
      <4>3. Observed(v) = [used |-> v.used, at |-> v.at, end |-> v.end, seen |-> minute, proof |-> c]
        BY <3>1, <4>1, <4>2 DEF Observed
      <4>. QED
        BY <1>6, <4>3
    <3>2. CASE ~Replaces(v)
      <4>1. stored.used # "none" /\ StoredForm(stored)
        BY <1>0, <3>2 DEF Replaces, StoredGood
      <4>2. PICK c : c = v.proof
        OBVIOUS
      <4>3. \/ Observed(v) = stored
            \/ Observed(v) = [stored EXCEPT !.proof = FALSE]
            \/ Observed(v) = [stored EXCEPT !.end = NoEnd]
            \/ Observed(v) = [stored EXCEPT !.seen = minute, !.end = v.end, !.proof = c]
        <5>1. CASE Outdated(v)
          <6>1. ~Unmarks(v) /\ ~Confirms(v)
            BY <5>1 DEF Unmarks, Confirms, SameValue
          <6>. QED
            BY <3>2, <5>1, <6>1 DEF Observed
        <5>2. CASE Unmarks(v)
          <6>1. ~Outdated(v) /\ ~Confirms(v)
            BY <5>2 DEF Unmarks, Confirms, SameValue
          <6>. QED
            BY <3>2, <5>2, <6>1 DEF Observed, Unmark
        <5>3. CASE Confirms(v)
          <6>1. ~Outdated(v) /\ ~Unmarks(v)
            BY <5>3 DEF Confirms, SameValue
          <6>. QED
            BY <3>2, <4>2, <5>3, <6>1 DEF Observed
        <5>4. CASE ~Outdated(v) /\ ~Unmarks(v) /\ ~Confirms(v)
          BY <3>2, <5>4 DEF Observed
        <5>. QED
          BY <5>1, <5>2, <5>3, <5>4
      <4>4. Observed(v).used = stored.used
        <5>1. PICK s : s = Observed(v)
          OBVIOUS
        <5>2. \/ s = stored
              \/ s = [stored EXCEPT !.proof = FALSE]
              \/ s = [stored EXCEPT !.end = NoEnd]
              \/ s = [stored EXCEPT !.seen = minute, !.end = v.end, !.proof = c]
          BY <4>3, <5>1
        <5>3. s.used = stored.used
          BY <4>1, <5>2 DEF StoredForm
        <5>. QED
          BY <5>1, <5>3
      <4>. QED
        BY <4>1, <4>4
    <3>. QED
      BY <3>1, <3>2
  <2>2. PICK s : s = Observed(v)
    OBVIOUS
  <2>3. PICK t : t = [s EXCEPT !.proof = FALSE]
    OBVIOUS
  <2>4. StoredGood(t, rollout, minute, origin)
    BY <1>0, <1>4, <2>1, <2>2, <2>3, ProofCleared
  <2>. QED
    BY <1>6, <2>2, <2>3, <2>4
<1>. QED
  BY <1>0, <1>4, <1>5, <1>6, DropReadingGood

\* The newest usage is the newest reading of the log.
LEMMA UsageReadGood ==
    ASSUME ReadingsInv, origin # "codex", LastUse > 0
    PROVE  PollGood(UsageRead, rollout, minute, origin)
<1>0. /\ rollout.log \in Seq(LogPieces) /\ DOMAIN rollout.log = 1 .. Len(rollout.log) /\ Len(rollout.log) \in Nat
      /\ RolloutGood(rollout, minute) /\ minute \in Nat
  BY DEF ReadingsInv, RolloutGood, LogShape
<1>1. Pieces("use") \in SUBSET (1 .. Len(rollout.log))
  BY <1>0 DEF Pieces
<1>2. Pieces("use") # {}
  BY DEF LastUse, LastOf
<1>3. LastUse \in Pieces("use") /\ \A j \in Pieces("use") : j <= LastUse
  BY <1>0, <1>1, <1>2, LastOfPlaces DEF LastUse
<1>4. PICK i \in DOMAIN rollout.log : i = LastUse /\ rollout.log[i].kind = "use"
  BY <1>3 DEF Pieces
<1>5. PICK p \in LogPieces : p = rollout.log[i]
  BY <1>0, <1>4
<1>6. PICK w : w = [st |-> "read", used |-> p.used, at |-> p.at, index |-> i, size |-> Len(rollout.log), newest |-> NewestUse]
  OBVIOUS
<1>7. w = UsageRead
  BY <1>4, <1>5, <1>6 DEF UsageRead
<1>8. PollForm(w) /\ w.used = p.used /\ w.at = p.at
  BY <1>6 DEF PollForm
<1>9. p.used \in {"low", "high"} /\ p.at \in Nat /\ p.at <= minute
  BY <1>0, <1>4, <1>5 DEF LogPieces, RolloutGood, LogShape
<1>10. ASSUME NEW j \in DOMAIN rollout.log, rollout.log[j].kind = "use" PROVE ~(rollout.log[j].at > p.at)
  <2>1. j <= i /\ rollout.log[j] \in LogPieces
    BY <1>0, <1>3, <1>4, <1>10 DEF Pieces
  <2>2. rollout.log[j].at <= p.at /\ rollout.log[j].at \in Nat
    BY <1>0, <1>4, <1>5, <1>10, <2>1 DEF RolloutGood, LogPieces
  <2>. QED
    BY <1>9, <2>2
<1>. QED
  BY <1>7, <1>8, <1>9, <1>10 DEF PollGood, NewerSince

LEMMA PollStepsKeep ==
    ASSUME ReadingsInv, PollRead \/ PollStatus \/ PollAgain
    PROVE  ReadingsInv'
<1>0. UNCHANGED <<origin, minute, rollout, follow, delivered, flight, lateReport, compaction>>
  BY DEF PollRead, PollStatus, PollAgain, readingWorld, serverReader
<1>1. ASSUME StoredGood(stored', rollout, minute, origin), PollGood(polling', rollout, minute, origin)
      PROVE  ReadingsInv'
  BY <1>0, <1>1 DEF ReadingsInv
<1>2. PollGood(NoPoll, rollout, minute, origin)
  BY DEF PollGood
<1>3. CASE PollRead
  <2>1. CASE LastUse > 0 /\ polling' = UsageRead /\ stored' = stored
    BY <1>1, <1>3, <2>1, UsageReadGood DEF PollRead, ReadingsInv
  <2>2. CASE DropReading /\ polling' = polling
    BY <1>1, <1>3, <2>2, DropReadingGood DEF PollRead, ReadingsInv
  <2>. QED
    BY <1>3, <2>1, <2>2 DEF PollRead
<1>4. CASE PollStatus
  <2>0. polling # NoPoll
    BY <1>4 DEF PollStatus, NoPoll
  <2>1. CASE polling' = [polling EXCEPT !.st = "idle"] /\ stored' = stored
    <3>1. PICK p : p = [polling EXCEPT !.st = "idle"]
      OBVIOUS
    <3>2. PollForm(p) /\ p.used = polling.used /\ p.at = polling.at
      BY <2>0, <3>1 DEF ReadingsInv, PollGood, PollForm
    <3>3. PollGood(p, rollout, minute, origin)
      BY <2>0, <3>2 DEF ReadingsInv, PollGood
    <3>. QED
      BY <1>1, <2>1, <3>1, <3>3 DEF ReadingsInv
  <2>2. CASE Recorded(FALSE) /\ polling' = NoPoll
    BY <1>1, <1>2, <2>0, <2>2, RecordedGood
  <2>. QED
    BY <1>4, <2>1, <2>2 DEF PollStatus
<1>5. CASE PollAgain
  <2>0. polling # NoPoll
    BY <1>5 DEF PollAgain, NoPoll
  <2>1. PICK proof \in BOOLEAN : proof = (IF origin = "opencode" THEN OpenCodeAgain ELSE DeepSeekAgain)
    BY DEF OpenCodeAgain, DeepSeekAgain, NewestUse
  <2>2. Recorded(proof) /\ polling' = NoPoll
    BY <1>5, <2>1 DEF PollAgain
  <2>. QED
    BY <1>1, <1>2, <2>0, <2>2, RecordedGood
<1>. QED
  BY <1>3, <1>4, <1>5

-----------------------------------------------------------------------------
(* The cycle, the stops and the clock *)

LEMMA CycleStepsKeep ==
    ASSUME ReadingsInv, ContextObserved \/ CycleOver \/ StepCompaction \/ Compact
    PROVE  ReadingsInv' /\ (compaction.st = "none" /\ compaction'.st = "waiting" => ContextObserved /\ Selected)
                        /\ (compaction.st = "intent" /\ compaction'.st = "sent" =>
                               /\ compaction.mark = NoEnd \/ RolloutUnchanged(compaction.mark))
<1>0. UNCHANGED <<origin, minute, rollout, follow, delivered, flight, lateReport, stored, polling>>
  BY DEF ContextObserved, CycleOver, StepCompaction, Compact, readingWorld, serverReader, daemonReader
<1>1. ASSUME CompactionGood(compaction', rollout, origin) PROVE ReadingsInv'
  BY <1>0, <1>1 DEF ReadingsInv
<1>2. CompactionForm(compaction) /\ CompactionGood(compaction, rollout, origin)
  BY DEF ReadingsInv, CompactionGood
<1>3. CompactionGood(NoCompaction, rollout, origin) /\ NoCompaction.st = "none"
  BY DEF NoCompaction, CompactionGood, CompactionForm
<1>4. PICK w : w = [NoCompaction EXCEPT !.st = "waiting"]
  OBVIOUS
<1>5. CompactionGood(w, rollout, origin) /\ w.st = "waiting"
  BY <1>4 DEF NoCompaction, CompactionGood, CompactionForm
<1>6. CASE ContextObserved
  <2>1. CASE compaction' \in {NoCompaction, compaction}
    BY <1>1, <1>2, <1>3, <2>1
  <2>2. CASE compaction.st = "none" /\ Selected /\ compaction' = w
    BY <1>1, <1>5, <1>6, <2>2
  <2>. QED
    BY <1>4, <1>6, <2>1, <2>2 DEF ContextObserved
<1>7. CASE CycleOver
  BY <1>1, <1>3, <1>7 DEF CycleOver
<1>8. CASE StepCompaction
  <2>1. CASE compaction' = NoCompaction \/ compaction' = compaction
    BY <1>1, <1>2, <1>3, <2>1
  <2>2. CASE /\ ~StaleEnds
             /\ compaction' = [st |-> "intent", src |-> stored.at, mark |-> IF SourceOld THEN stored.end ELSE NoEnd]
    <3>1. Selected /\ stored.used # "none" /\ origin = "codex"
      BY <1>8, <2>2 DEF StepCompaction, StaleEnds, StaleWaits
    <3>2. PICK e : e = IF SourceOld THEN stored.end ELSE NoEnd
      OBVIOUS
    <3>3. PICK c : c = [st |-> "intent", src |-> stored.at, mark |-> e]
      OBVIOUS
    <3>4. ReadingGood(rollout, minute, origin, "high", stored.at, stored.end)
      BY <3>1 DEF Selected, ReadingsInv, StoredGood
    <3>5. e \in Ends /\ (e # NoEnd => Placed(rollout, e) /\ MarkIsTrue(rollout, "high", stored.at, e))
      <4>1. NoEnd \in Ends
        BY DEF NoEnd, Ends
      <4>. QED
        BY <3>1, <3>2, <3>4, <4>1 DEF ReadingGood, Placed
    <3>6. CompactionForm(c) /\ c.st = "intent" /\ c.src = stored.at /\ c.mark = e
      BY <3>3 DEF CompactionForm
    <3>7. CompactionGood(c, rollout, origin)
      BY <3>1, <3>5, <3>6 DEF CompactionGood
    <3>. QED
      BY <1>1, <1>8, <2>2, <3>2, <3>3, <3>6, <3>7 DEF StepCompaction
  <2>. QED
    BY <1>8, <2>1, <2>2 DEF StepCompaction
<1>9. CASE Compact
  <2>1. CASE compaction' = NoCompaction \/ compaction' = w
    BY <1>1, <1>3, <1>5, <1>9, <2>1 DEF Compact
  <2>2. CASE /\ IF compaction.mark = NoEnd THEN TurnEnded ELSE RolloutUnchanged(compaction.mark)
             /\ compaction' = [compaction EXCEPT !.st = "sent", !.src = minute]
    <3>1. PICK c : c = [compaction EXCEPT !.st = "sent", !.src = minute]
      OBVIOUS
    <3>2. CompactionForm(c) /\ c.st = "sent"
      BY <1>2, <3>1 DEF CompactionForm
    <3>3. CompactionGood(c, rollout, origin)
      BY <3>2 DEF CompactionGood
    <3>. QED
      BY <1>1, <1>9, <2>2, <3>1, <3>2, <3>3 DEF Compact
  <2>. QED
    BY <1>4, <1>9, <2>1, <2>2 DEF Compact
<1>. QED
  BY <1>6, <1>7, <1>8, <1>9

\* The stops and the clock leave every stored reading as it is.
LEMMA OtherStepsKeepReadings ==
    ASSUME ReadingsInv, ServerStops \/ DaemonStops \/ ReadingTick \/ UNCHANGED readingVars
    PROVE  ReadingsInv' /\ (compaction' = compaction \/ compaction' = NoCompaction)
<1>0. ReportGood(Nothing, rollout, minute, origin) /\ ReportDue(Nothing, rollout, minute)
      /\ StoredGood(Nothing, rollout, minute, origin) /\ PollGood(NoPoll, rollout, minute, origin)
  BY DEF ReportGood, ReportDue, StoredGood, PollGood, Nothing
<1>1. CASE ServerStops
  <2>1. FollowGood(NewRollout, rollout, origin)
    BY NewRolloutIsNew DEF FollowGood, ReadingsInv, RolloutGood
  <2>. QED
    BY <1>0, <1>1, <2>1 DEF ReadingsInv, ServerStops, readingWorld, cycleOnReading, daemonReader
<1>2. CASE DaemonStops
  <2>1. UNCHANGED <<origin, minute, rollout, follow, delivered>> /\ stored' = Nothing /\ lateReport' = Nothing
        /\ flight' = Nothing /\ polling' = NoPoll /\ (compaction' = compaction \/ compaction' = NoCompaction)
    BY <1>2 DEF DaemonStops, readingWorld, serverReader
  <2>2. CompactionGood(NoCompaction, rollout, origin)
    BY DEF NoCompaction, CompactionGood, CompactionForm
  <2>. QED
    BY <1>0, <2>1, <2>2 DEF ReadingsInv
<1>3. CASE ReadingTick
  <2>1. /\ UNCHANGED <<origin, rollout, follow, delivered, flight, lateReport, stored, compaction, polling>>
        /\ minute' = minute + 1 /\ flight.used = "none" /\ lateReport.used = "none" /\ polling = NoPoll /\ minute \in Nat
    BY <1>3 DEF ReadingTick, serverReader, cycleOnReading, daemonReader, ReadingsInv
  <2>2. PICK R, m, n, o : R = rollout /\ m = minute /\ n = minute' /\ o = origin
    OBVIOUS
  <2>3. m \in Nat /\ n = m + 1 /\ RolloutGood(R, m)
    BY <2>1, <2>2 DEF ReadingsInv
  <2>4. RolloutGood(R, n)
    <3>1. ASSUME NEW i \in DOMAIN R.log, R.log[i].kind = "use" PROVE R.log[i].at <= n
      <4>1. R.log[i] \in LogPieces /\ R.log[i].at <= m
        BY <2>3, <3>1 DEF RolloutGood, LogShape
      <4>. QED
        BY <2>3, <4>1 DEF LogPieces
    <3>. QED
      BY <2>3, <3>1 DEF RolloutGood
  <2>5. \A used, at, end : ReadingGood(R, m, o, used, at, end) => ReadingGood(R, n, o, used, at, end)
    BY <2>3 DEF ReadingGood
  <2>6. ASSUME NEW f, ReportGood(f, R, m, o) PROVE ReportGood(f, R, n, o)
    BY <2>5, <2>6 DEF ReportGood
  <2>7. ASSUME NEW s, StoredGood(s, R, m, o) PROVE StoredGood(s, R, n, o)
    BY <2>3, <2>5, <2>7 DEF StoredGood
  <2>. QED
    BY <2>1, <2>2, <2>3, <2>4, <2>6, <2>7 DEF ReadingsInv, ReportDue, PollGood
<1>4. CASE UNCHANGED readingVars
  BY <1>4 DEF readingVars, ReadingsInv, readingWorld, serverReader, cycleOnReading, daemonReader
<1>. QED
  BY <1>1, <1>2, <1>3, <1>4

LEMMA ReadingsInitInv == ReadingsInit => ReadingsInv
<1>. SUFFICES ASSUME ReadingsInit PROVE ReadingsInv
  OBVIOUS
<1>1. PICK p \in LogPieces : p = [kind |-> "start", used |-> "none", turn |-> 0, at |-> 0]
  BY DEF LogPieces
<1>2. PICK q \in LogPieces : q = [kind |-> "use", used |-> "high", turn |-> 0, at |-> 1]
  BY DEF LogPieces
<1>3. PICK e \in LogPieces : e = [kind |-> "end", used |-> "none", turn |-> 1, at |-> 0]
  BY DEF LogPieces
<1>4. PICK l : l = <<p, q, e>>
  OBVIOUS
<1>5. l \in Seq(LogPieces) /\ DOMAIN l = 1 .. 3 /\ Len(l) = 3 /\ l[1] = p /\ l[2] = q /\ l[3] = e
  BY <1>4
<1>6. PICK R : R = [file |-> 1, own |-> TRUE, torn |-> FALSE, log |-> l]
  OBVIOUS
<1>7. R = rollout /\ minute = 1
  BY <1>1, <1>2, <1>3, <1>4, <1>6 DEF ReadingsInit
<1>8. RolloutForm(R) /\ R.file = 1 /\ R.log = l
  BY <1>6 DEF RolloutForm
<1>9. RolloutGood(R, 1)
  <2>1. \A i \in DOMAIN l : l[i].kind = "use" => i = 2
    <3>1. \A i \in 1 .. 3 : i = 1 \/ i = 2 \/ i = 3
      OBVIOUS
    <3>. QED
      BY <1>1, <1>3, <1>5, <3>1
  <2>2. LogShape(l)
    BY <1>2, <1>5, <2>1 DEF LogShape
  <2>3. l[2].at = 1
    BY <1>2, <1>5
  <2>4. \A i \in DOMAIN R.log : R.log[i].kind = "use" => R.log[i].at = 1
    BY <1>8, <2>1, <2>3
  <2>. QED
    BY <1>8, <2>2, <2>4 DEF RolloutGood
<1>10. /\ FollowGood(NewRollout, R, origin) /\ PollGood(NoPoll, R, 1, origin)
       /\ CompactionGood(NoCompaction, R, origin)
  BY <1>8, NewRolloutIsNew DEF FollowGood, PollGood, NoCompaction, CompactionGood, CompactionForm
<1>11. ReportGood(Nothing, R, 1, origin) /\ ReportDue(Nothing, R, 1) /\ StoredGood(Nothing, R, 1, origin)
  BY DEF ReportGood, ReportDue, StoredGood, Nothing
<1>. QED
  BY <1>7, <1>9, <1>10, <1>11 DEF ReadingsInit, ReadingsInv

\* A step that admits a cycle or makes a compaction's input is the handler's.
OnReadings ==
    /\ compaction.st = "none" /\ compaction'.st = "waiting" => ContextObserved /\ Selected
    /\ compaction.st = "intent" /\ compaction'.st = "sent" =>
          compaction.mark = NoEnd \/ RolloutUnchanged(compaction.mark)

LEMMA ReadingsStep ==
    ASSUME ReadingsInv, [ReadingsNext]_readingVars
    PROVE  ReadingsInv' /\ OnReadings
<1>1. CASE AgentWrites \/ AgentTears \/ AgentReverts \/ \E own \in BOOLEAN : RolloutReplaced(own)
  <2>1. compaction' = compaction
    BY <1>1 DEF AgentWrites, AgentAppends, AgentTears, AgentReverts, RolloutReplaced, cycleOnReading
  <2>. QED
    BY <1>1, <2>1, AgentStepsKeep DEF OnReadings
<1>2. CASE Look
  BY <1>2, LookKeeps DEF OnReadings, Look, cycleOnReading
<1>3. CASE Answered \/ Unanswered \/ LateArrives \/ TrimSent
  BY <1>3, ReportStepsKeep DEF OnReadings, Answered, Unanswered, LateArrives, TrimSent, cycleOnReading
<1>4. CASE PollRead \/ PollStatus \/ PollAgain
  BY <1>4, PollStepsKeep DEF OnReadings, PollRead, PollStatus, PollAgain
<1>5. CASE ContextObserved \/ CycleOver \/ StepCompaction \/ Compact
  BY <1>5, CycleStepsKeep DEF OnReadings
<1>6. CASE ServerStops \/ DaemonStops \/ ReadingTick \/ UNCHANGED readingVars
  BY <1>6, OtherStepsKeepReadings DEF OnReadings, NoCompaction
<1>. QED
  BY <1>1, <1>2, <1>3, <1>4, <1>5, <1>6 DEF ReadingsNext

LEMMA ReadingsHold == ReadingsSpec => []ReadingsInv
<1>1. ReadingsInv /\ [ReadingsNext]_readingVars => ReadingsInv'
  BY ReadingsStep
<1>. QED
  BY <1>1, ReadingsInitInv, PTL DEF ReadingsSpec

\* In every instance, a cycle admitted on a reading older than the source age rests on a look
\* that was recent: whatever stands in the log beyond that reading was written since that look.
THEOREM AdmittedOnCurrentThm == ReadingsSpec => AdmittedOnCurrent
<1>. DEFINE Current == compaction.st = "none" /\ compaction'.st = "waiting" /\ SourceOld
       => \A i \in Pieces("use") :
             rollout.log[i].at > stored.at => rollout.log[i].at >= minute - ConfirmAge
<1>1. ASSUME ReadingsInv, [ReadingsNext]_readingVars PROVE Current
  <2>1. SUFFICES ASSUME compaction.st = "none", compaction'.st = "waiting", SourceOld, NEW i \in Pieces("use"),
                        rollout.log[i].at > stored.at
                 PROVE  rollout.log[i].at >= minute - ConfirmAge
    OBVIOUS
  <2>2. Selected
    BY <1>1, <2>1, ReadingsStep DEF OnReadings
  <2>3. stored.used # "none" /\ CurrentReading /\ ~(minute - stored.seen > ConfirmAge)
    BY <2>1, <2>2 DEF Selected, ConfirmOld
  <2>4. StoredGood(stored, rollout, minute, origin) /\ minute \in Nat /\ RolloutGood(rollout, minute)
    BY <1>1 DEF ReadingsInv
  <2>5. (origin = "codex" /\ stored.end # NoEnd) \/ (origin # "codex" /\ stored.proof)
    BY <2>3 DEF CurrentReading
  <2>6. NewerSince(rollout, stored.at, stored.seen) /\ stored.seen \in Nat
    BY <2>3, <2>4, <2>5 DEF StoredGood
  <2>7. i \in DOMAIN rollout.log /\ rollout.log[i].kind = "use" /\ rollout.log[i] \in LogPieces
    BY <2>1, <2>4 DEF Pieces, RolloutGood, LogShape
  <2>8. rollout.log[i].at >= stored.seen /\ rollout.log[i].at \in Nat
    BY <2>1, <2>6, <2>7 DEF NewerSince, LogPieces
  <2>9. ConfirmAge \in Nat
    BY ReadingsAssumption
  <2>. QED
    BY <2>3, <2>4, <2>6, <2>8, <2>9
<1>2. ReadingsSpec => [][Current]_readingVars
  <2>1. ReadingsInv /\ [ReadingsNext]_readingVars => [Current]_readingVars
    BY <1>1
  <2>. QED
    BY <2>1, ReadingsHold, PTL DEF ReadingsSpec
<1>. QED
  BY <1>2 DEF AdmittedOnCurrent

\* In every instance, a compaction that goes on a caught-up mark goes to a session whose newest
\* reading is the full one that was chosen, and whose last turn has ended.
THEOREM CompactsNewestThm == ReadingsSpec => CompactsNewest
<1>. DEFINE OnNewest == compaction.st = "intent" /\ compaction'.st = "sent" /\ compaction.mark # NoEnd
       => /\ TurnEnded /\ LastUse > 0
          /\ rollout.log[LastUse].used = "high" /\ rollout.log[LastUse].at = compaction.src
<1>1. ASSUME ReadingsInv, [ReadingsNext]_readingVars PROVE OnNewest
  <2>1. SUFFICES ASSUME compaction.st = "intent", compaction'.st = "sent", compaction.mark # NoEnd
                 PROVE  /\ TurnEnded /\ LastUse > 0
                        /\ rollout.log[LastUse].used = "high" /\ rollout.log[LastUse].at = compaction.src
    OBVIOUS
  <2>2. TurnEnded /\ compaction.mark.file = rollout.file /\ compaction.mark.size = Len(rollout.log)
    BY <1>1, <2>1, ReadingsStep DEF OnReadings, RolloutUnchanged
  <2>3. MarkIsTrue(rollout, "high", compaction.src, compaction.mark)
    BY <1>1, <2>1 DEF ReadingsInv, CompactionGood
  <2>4. PICK i \in DOMAIN rollout.log : LastReading(rollout, i) /\ rollout.log[i].used = "high" /\ rollout.log[i].at = compaction.src
    BY <2>2, <2>3 DEF MarkIsTrue
  <2>5. rollout.log \in Seq(LogPieces) /\ DOMAIN rollout.log = 1 .. Len(rollout.log) /\ Len(rollout.log) \in Nat
    BY <1>1 DEF ReadingsInv, RolloutGood, LogShape
  <2>6. i \in Pieces("use") /\ \A j \in Pieces("use") : j <= i
    BY <2>4, <2>5 DEF LastReading, IsLastUse, Pieces
  <2>7. Pieces("use") \in SUBSET (1 .. Len(rollout.log))
    BY <2>5 DEF Pieces
  <2>8. LastUse \in Pieces("use") /\ i <= LastUse /\ LastUse \in Nat
    BY <2>5, <2>6, <2>7, LastOfPlaces DEF LastUse
  <2>9. LastUse = i /\ LastUse > 0
    BY <2>5, <2>6, <2>7, <2>8
  <2>. QED
    BY <2>2, <2>4, <2>9
<1>2. ReadingsSpec => [][OnNewest]_readingVars
  <2>1. ReadingsInv /\ [ReadingsNext]_readingVars => [OnNewest]_readingVars
    BY <1>1
  <2>. QED
    BY <2>1, ReadingsHold, PTL DEF ReadingsSpec
<1>. QED
  BY <1>2 DEF CompactsNewest

-----------------------------------------------------------------------------
(* A quiet answer *)

\* The greatest and the least of a bounded set of numbers.
LEMMA MaxOf ==
    ASSUME NEW b \in Nat, NEW S \in SUBSET Nat, S # {}, \A x \in S : x <= b
    PROVE  Max(S) \in S /\ \A y \in S : Max(S) >= y
<1>. DEFINE U == {u \in Nat : \A x \in S : x <= u}
<1>1. U \in SUBSET Nat /\ b \in U
  OBVIOUS
<1>2. PICK u \in U : \A v \in U : ~(<<v, u>> \in OpToRel(<, Nat))
  <2>. HIDE DEF U
  <2>. QED
    BY <1>1, WFMin, NatLessThanWellFounded, Zenon
<1>3. u \in S
  <2>. SUFFICES ASSUME u \notin S PROVE FALSE
    OBVIOUS
  <2>1. PICK x \in S : TRUE
    OBVIOUS
  <2>2. u \in Nat /\ \A y \in S : y <= u
    OBVIOUS
  <2>3. u # 0
    BY <2>1, <2>2
  <2>4. u - 1 \in Nat /\ u - 1 < u
    BY <2>2, <2>3
  <2>5. u - 1 \in U
    BY <2>2, <2>4
  <2>6. <<u - 1, u>> \in OpToRel(<, Nat)
    BY <2>2, <2>4 DEF OpToRel
  <2>. QED
    BY <1>2, <2>5, <2>6, Zenon
<1>4. \A y \in S : u >= y
  OBVIOUS
<1>. HIDE DEF U
<1>5. \E x \in S : \A y \in S : x >= y
  BY <1>3, <1>4
<1>. QED
  BY <1>5, Zenon DEF Max

LEMMA MinOf ==
    ASSUME NEW S \in SUBSET Nat, S # {}
    PROVE  Min(S) \in S /\ \A y \in S : Min(S) <= y
<1>1. PICK u \in S : \A v \in S : ~(<<v, u>> \in OpToRel(<, Nat))
  BY WFMin, NatLessThanWellFounded, Zenon
<1>2. ASSUME NEW y \in S PROVE u <= y
  <2>1. y < u => <<y, u>> \in OpToRel(<, Nat)
    BY DEF OpToRel
  <2>2. ~(y < u)
    BY <1>1, <2>1, Zenon
  <2>. QED
    BY <2>2
<1>3. \E x \in S : \A y \in S : x <= y
  BY <1>2
<1>. QED
  BY <1>3, Zenon DEF Min

\* The records, and the last of a kind.
LogRecord == [kind : {"turn", "ready", "other", "bad", "end", "cstart", "cend"}, when : Nat]
Records == Seq(LogRecord)

LEMMA WhenIsNat == ASSUME NEW s \in Records, NEW i \in 1 .. Len(s) PROVE s[i].when \in Nat
<1>1. \A R : s \in Seq(R) => s[i] \in R
  OBVIOUS
<1>2. s[i] \in LogRecord
  BY <1>1, Zenon DEF Records
<1>. QED
  BY <1>2 DEF LogRecord

LEMMA LastIs ==
    ASSUME NEW s \in Records, NEW k
    PROVE  /\ LastRecord(s, k) \in 0 .. Len(s)
           /\ LastRecord(s, k) > 0 => s[LastRecord(s, k)].kind = k
           /\ \A i \in DOMAIN s : s[i].kind = k => i <= LastRecord(s, k)
<1>. DEFINE S == {0} \cup {i \in DOMAIN s : s[i].kind = k}
<1>1. Len(s) \in Nat /\ DOMAIN s = 1 .. Len(s)
  BY DEF Records
<1>2. S \in SUBSET Nat /\ S # {} /\ \A x \in S : x <= Len(s)
  BY <1>1
<1>3. Max(S) \in S /\ \A y \in S : Max(S) >= y
  <2>. HIDE DEF S
  <2>. QED
    BY <1>1, <1>2, MaxOf
<1>4. LastRecord(s, k) = Max(S)
  BY DEF LastRecord
<1>. QED
  BY <1>1, <1>3, <1>4

LEMMA MarkIs ==
    ASSUME NEW s \in Records
    PROVE  /\ MarkOf(s) \in 0 .. Len(s)
           /\ MarkOf(s) > 0 => /\ TurnRecord(s[MarkOf(s)]).ok /\ TurnRecord(s[MarkOf(s)]).timed
                               /\ s[MarkOf(s)].when <= ReadyAt
<1>. DEFINE S == {0} \cup {i \in DOMAIN s : /\ TurnRecord(s[i]).ok /\ TurnRecord(s[i]).timed
                                            /\ s[i].when <= ReadyAt}
<1>1. Len(s) \in Nat /\ DOMAIN s = 1 .. Len(s)
  BY DEF Records
<1>2. S \in SUBSET Nat /\ S # {} /\ \A x \in S : x <= Len(s)
  BY <1>1
<1>3. Max(S) \in S
  <2>. HIDE DEF S
  <2>. QED
    BY <1>1, <1>2, MaxOf
<1>4. MarkOf(s) = Max(S)
  BY DEF MarkOf
<1>5. MarkOf(s) \in S
  BY <1>3, <1>4
<1>6. MarkOf(s) \in 0 .. Len(s) /\ (MarkOf(s) # 0 => MarkOf(s) \in DOMAIN s)
  BY <1>1, <1>5
<1>7. MarkOf(s) # 0 => /\ TurnRecord(s[MarkOf(s)]).ok /\ TurnRecord(s[MarkOf(s)]).timed
                        /\ s[MarkOf(s)].when <= ReadyAt
  BY <1>5, Zenon
<1>. QED
  BY <1>6, <1>7

LEMMA PartIs ==
    ASSUME NEW s \in Records, NEW m \in 1 .. Len(s) + 1
    PROVE  /\ SubSeq(s, m, Len(s)) \in Records
           /\ Len(SubSeq(s, m, Len(s))) = Len(s) - m + 1
           /\ \A i \in 1 .. Len(s) - m + 1 : SubSeq(s, m, Len(s))[i] = s[m + i - 1]
<1>1. \A R : s \in Seq(R) =>
          /\ SubSeq(s, m, Len(s)) \in Seq(R)
          /\ Len(SubSeq(s, m, Len(s))) = Len(s) - m + 1
          /\ \A i \in 1 .. Len(s) - m + 1 : SubSeq(s, m, Len(s))[i] = s[m + i - 1]
  OBVIOUS
<1>. QED
  BY <1>1, Zenon DEF Records

\* What every family makes of a record.
LEMMA TurnRecordIs ==
    ASSUME NEW r
    PROVE  /\ TurnRecord(r).starts <=> r.kind = "turn"
           /\ TurnRecord(r).ok => r.kind # "bad"
           /\ TurnRecord(r).ok /\ TurnRecord(r).timed => r.when # 0
           /\ logOf = "grok" => (TurnRecord(r).ok <=> r.kind # "bad" /\ r.when # 0)
<1>1. TurnRecord(r) = ClaudeTurnRecord(r) \/ TurnRecord(r) = GrokTurnRecord(r)
  BY DEF TurnRecord, CodexTurnRecord
<1>2. logOf = "grok" => TurnRecord(r) = GrokTurnRecord(r)
  BY DEF TurnRecord
<1>3. LET c == ClaudeTurnRecord(r)
          g == GrokTurnRecord(r)
      IN  /\ c.starts = (r.kind = "turn") /\ c.ok = (r.kind # "bad") /\ c.timed = (r.when # 0)
          /\ g.starts = (r.kind = "turn") /\ g.ok = (r.kind # "bad" /\ r.when # 0) /\ g.timed
  BY Zenon DEF ClaudeTurnRecord, GrokTurnRecord
<1>. QED
  BY <1>1, <1>2, <1>3, Zenon

LEMMA NoTurn ==
    ASSUME NEW s, FirstTurn(s) = "quiet"
    PROVE  \A i \in DOMAIN s : s[i].kind # "turn"
<1>. DEFINE told == {i \in DOMAIN s : ~TurnRecord(s[i]).ok \/ TurnRecord(s[i]).starts}
<1>1. told = {}
  <2>. DEFINE T == told
  <2>1. FirstTurn(s) = IF T = {} THEN "quiet" ELSE IF TurnRecord(s[Min(T)]).ok THEN "turn" ELSE "unread"
    BY Zenon DEF FirstTurn
  <2>. HIDE DEF T
  <2>2. T = {}
    BY <2>1
  <2>. QED
    BY <2>2 DEF T
<1>. QED
  BY <1>1, TurnRecordIs

LEMMA AfterMark ==
    ASSUME NEW s \in Records, FirstTurn(SubSeq(s, MarkOf(s) + 1, Len(s))) = "quiet"
    PROVE  \A i \in DOMAIN s : i > MarkOf(s) => s[i].kind # "turn"
<1>. DEFINE m == MarkOf(s) + 1
            t == SubSeq(s, m, Len(s))
<1>1. m \in 1 .. Len(s) + 1 /\ MarkOf(s) \in Nat /\ DOMAIN s = 1 .. Len(s) /\ Len(s) \in Nat
  BY MarkIs DEF Records
<1>. HIDE DEF m
<1>2. /\ t \in Records /\ Len(t) = Len(s) - m + 1
      /\ \A i \in 1 .. Len(s) - m + 1 : t[i] = s[m + i - 1]
  BY <1>1, PartIs
<1>3. FirstTurn(t) = "quiet"
  BY DEF m
<1>. HIDE DEF t
<1>4. \A i \in DOMAIN t : t[i].kind # "turn"
  BY <1>3, NoTurn
<1>5. DOMAIN t = 1 .. Len(s) - m + 1
  BY <1>2 DEF Records
<1>6. ASSUME NEW i \in DOMAIN s, i > MarkOf(s) PROVE s[i].kind # "turn"
  <2>1. MarkOf(s) = m - 1
    BY <1>1 DEF m
  <2>2. i - m + 1 \in 1 .. Len(s) - m + 1 /\ m + (i - m + 1) - 1 = i
    BY <1>1, <1>6, <2>1
  <2>3. t[i - m + 1] = s[i]
    BY <1>2, <2>2
  <2>. QED
    BY <1>4, <1>5, <2>2, <2>3
<1>. QED
  BY <1>6

LEMMA WindowIs ==
    ASSUME NEW s \in Records, NEW w \in {2, 4, 5}
    PROVE  /\ Window(s, w) \in Records
           /\ Len(Window(s, w)) <= Len(s)
           /\ \A i \in DOMAIN Window(s, w) : Window(s, w)[i] = s[Len(s) - Len(Window(s, w)) + i]
           /\ Len(s) <= w => Window(s, w) = s
<1>1. Len(s) \in Nat /\ DOMAIN s = 1 .. Len(s)
  BY DEF Records
<1>2. CASE Len(s) > w
  <2>. DEFINE m == Len(s) - w + 2
  <2>1. m \in 1 .. Len(s) + 1 /\ Len(s) - m + 1 <= Len(s) /\ ~(Len(s) <= w)
    BY <1>1, <1>2
  <2>2. Window(s, w) = SubSeq(s, m, Len(s))
    BY <1>2 DEF Window
  <2>. HIDE DEF m
  <2>3. /\ Window(s, w) \in Records /\ Len(Window(s, w)) = Len(s) - m + 1
        /\ \A i \in 1 .. Len(s) - m + 1 : Window(s, w)[i] = s[m + i - 1]
    BY <2>1, <2>2, PartIs
  <2>4. DOMAIN Window(s, w) = 1 .. Len(s) - m + 1
    BY <2>3 DEF Records
  <2>5. \A i \in 1 .. Len(s) - m + 1 : m + i - 1 = Len(s) - (Len(s) - m + 1) + i
    BY <1>1, <2>1
  <2>. QED
    BY <2>1, <2>3, <2>4, <2>5
<1>3. CASE ~(Len(s) > w)
  <2>1. Window(s, w) = s
    BY <1>3 DEF Window
  <2>2. \A i \in DOMAIN s : s[i] = s[Len(s) - Len(s) + i]
    BY <1>1
  <2>. QED
    BY <1>1, <2>1, <2>2
<1>. QED
  BY <1>2, <1>3

\* A quiet window reaches back to a record at or before the report, or to the log's start, and
\* has no turn after it.
LEMMA QuietWindow ==
    ASSUME NEW s \in Records, logOf \in {"claude", "codex", "grok"}, NEW part, NEW ordered \in BOOLEAN,
           RecordTurnRead(s, part, ordered) = "quiet"
    PROVE  \E w \in {2, 4, 5} :
               /\ logOf = "grok" => w >= 4
               /\ Len(s) <= w \/ MarkOf(Window(s, w)) > 0
               /\ ordered => ~TimeGoesBack(Window(s, w))
               /\ \A i \in DOMAIN Window(s, w) : i > MarkOf(Window(s, w)) => Window(s, w)[i].kind # "turn"
<1>. DEFINE fit == {w \in RecordWindows : Len(s) <= w \/ MarkOf(Window(s, w)) > 0}
            win == Window(s, Min(fit))
            answer == FirstTurn(SubSeq(win, MarkOf(win) + 1, Len(win)))
<1>1. RecordTurnRead(s, part, ordered) =
          IF part \/ fit = {} THEN "unread" ELSE IF ordered /\ TimeGoesBack(win) THEN "unread" ELSE answer
  BY Zenon DEF RecordTurnRead
<1>2. RecordWindows \in SUBSET {2, 4, 5} /\ \A w \in RecordWindows : logOf = "grok" => w >= 4
  BY DEF RecordWindows
<1>3. fit # {} /\ ~(ordered /\ TimeGoesBack(win)) /\ answer = "quiet"
  <2>. HIDE DEF fit, win, answer
  <2>. QED
    BY <1>1
<1>4. Min(fit) \in fit
  <2>1. fit \in SUBSET RecordWindows
    BY Zenon
  <2>. HIDE DEF fit
  <2>2. fit \in SUBSET Nat
    BY <1>2, <2>1
  <2>. QED
    BY <1>3, <2>2, MinOf
<1>. DEFINE w == Min(fit)
<1>5. w \in {2, 4, 5} /\ (logOf = "grok" => w >= 4) /\ (Len(s) <= w \/ MarkOf(Window(s, w)) > 0)
  <2>1. ASSUME NEW v \in fit
        PROVE  v \in {2, 4, 5} /\ (logOf = "grok" => v >= 4) /\ (Len(s) <= v \/ MarkOf(Window(s, v)) > 0)
    BY <1>2
  <2>. HIDE DEF fit
  <2>. QED
    BY <1>4, <2>1, Zenon
<1>6. (ordered => ~TimeGoesBack(Window(s, w))) /\ FirstTurn(SubSeq(Window(s, w), MarkOf(Window(s, w)) + 1, Len(Window(s, w)))) = "quiet"
  <2>. HIDE DEF fit
  <2>. QED
    BY <1>3, Zenon
<1>. HIDE DEF w
<1>7. Window(s, w) \in Records
  BY <1>5, WindowIs
<1>. DEFINE v == Window(s, w)
<1>8. \A i \in DOMAIN v : i > MarkOf(v) => v[i].kind # "turn"
  <2>1. v \in Records /\ FirstTurn(SubSeq(v, MarkOf(v) + 1, Len(v))) = "quiet"
    BY <1>6, <1>7
  <2>. HIDE DEF v
  <2>. QED
    BY <2>1, AfterMark
<1>. QED
  BY <1>5, <1>6, <1>8, Zenon

\* The log: the report is its second record, and no other record is one.
Begins(s) ==
    Len(s) >= 2 /\ s[1].kind = "turn" /\ s[2].kind = "ready" /\ \A i \in 3 .. Len(s) : s[i].kind # "ready"

\* A later turn has the time at which it began, or no time, and so have the records after it; in
\* Grok's log only as long as its windows still hold every record.
TurnsLater(s) ==
    \A i \in 3 .. Len(s) : s[i].kind = "turn" =>
        /\ s[i].when > ReadyAt \/ (s[i].when = 0 /\ logOf \notin {"grok", "opencode", "deepseek"})
        /\ logOf \in {"claude", "codex", "opencode"} =>
              \A j \in i .. Len(s) : s[j].when = 0 \/ s[j].when > ReadyAt
BackInWindow(s) == logOf = "grok" /\ TimeGoesBack(s) => Len(s) <= 4

\* A turn begins when the compactions before it have ended.
CompactionsEnd(s) ==
    /\ \A i \in 1 .. Len(s) : s[i].kind = "cstart" => logOf = "deepseek"
    /\ \A i \in 1 .. Len(s) : s[i].kind = "turn" =>
          \A c \in 1 .. i - 1 : s[c].kind = "cstart" => \E j \in c + 1 .. i - 1 : s[j].kind = "cend"

LogInv(s) == s \in Records /\ Begins(s) /\ TurnsLater(s) /\ BackInWindow(s) /\ CompactionsEnd(s)

LEMMA RecordQuiet ==
    ASSUME NEW s, LogInv(s), NEW part, NEW ordered \in BOOLEAN, logOf \in {"claude", "codex", "grok"},
           logOf = "grok" => ordered, RecordTurnRead(s, part, ordered) = "quiet"
    PROVE  \A i \in 3 .. Len(s) : s[i].kind # "turn"
<1>1. s \in Records /\ Len(s) \in Nat /\ DOMAIN s = 1 .. Len(s) /\ TurnsLater(s) /\ BackInWindow(s)
  BY DEF LogInv, Records
<1>2. PICK w \in {2, 4, 5} :
          /\ logOf = "grok" => w >= 4
          /\ Len(s) <= w \/ MarkOf(Window(s, w)) > 0
          /\ ordered => ~TimeGoesBack(Window(s, w))
          /\ \A i \in DOMAIN Window(s, w) : i > MarkOf(Window(s, w)) => Window(s, w)[i].kind # "turn"
  BY <1>1, QuietWindow
<1>. DEFINE v == Window(s, w)
            m == MarkOf(v)
            off == Len(s) - Len(v)
<1>3. /\ v \in Records /\ Len(v) <= Len(s) /\ \A i \in DOMAIN v : v[i] = s[off + i]
      /\ Len(s) <= w => v = s
  BY <1>1, WindowIs
<1>4. Len(v) \in Nat /\ DOMAIN v = 1 .. Len(v) /\ off \in Nat /\ off + Len(v) = Len(s)
  <2>1. Len(v) \in Nat /\ DOMAIN v = 1 .. Len(v)
    BY <1>3 DEF Records
  <2>. HIDE DEF v
  <2>. QED
    BY <1>1, <1>3, <2>1
<1>5. /\ Len(s) <= w \/ m > 0
      /\ ordered => ~TimeGoesBack(v)
      /\ \A i \in DOMAIN v : i > m => v[i].kind # "turn"
  BY <1>2
<1>6. m \in 0 .. Len(v) /\ (m > 0 => /\ TurnRecord(v[m]).ok /\ TurnRecord(v[m]).timed /\ v[m].when <= ReadyAt)
  BY <1>3, MarkIs
<1>. HIDE DEF v, m
<1>7. SUFFICES ASSUME NEW i \in 3 .. Len(s), s[i].kind = "turn" PROVE FALSE
  OBVIOUS
<1>8. ASSUME m = 0 PROVE FALSE
  <2>1. v = s /\ i \in DOMAIN v /\ i > m
    BY <1>1, <1>3, <1>5, <1>8
  <2>. QED
    BY <1>5, <1>7, <2>1
<1>9. ASSUME m > 0 PROVE FALSE
  <2>. DEFINE q == off + m
  <2>1. q \in 1 .. Len(s) /\ s[q] = v[m]
    BY <1>1, <1>3, <1>4, <1>6, <1>9
  <2>2. s[q].when # 0 /\ s[q].when <= ReadyAt /\ TurnRecord(s[q]).ok
    BY <1>6, <1>9, <2>1, TurnRecordIs
  <2>3. i <= q
    <3>1. ASSUME i > q PROVE FALSE
      <4>1. i - off \in DOMAIN v /\ i - off > m /\ off + (i - off) = i
        BY <1>1, <1>4, <1>6, <3>1
      <4>2. v[i - off] = s[i]
        BY <1>3, <4>1
      <4>. QED
        BY <1>5, <1>7, <4>1, <4>2
    <3>. QED
      BY <2>1, <3>1
  <2>. HIDE DEF q
  <2>4. CASE logOf \in {"claude", "codex"}
    <3>1. \A j \in i .. Len(s) : s[j].when = 0 \/ s[j].when > ReadyAt
      BY <1>1, <1>7, <2>4 DEF TurnsLater
    <3>2. q \in i .. Len(s)
      BY <1>1, <2>1, <2>3
    <3>3. s[q].when > ReadyAt
      BY <2>2, <3>1, <3>2
    <3>. QED
      BY <1>1, <2>1, <2>2, <3>3, WhenIsNat DEF ReadyAt
  <2>5. CASE logOf = "grok"
    <3>1. s[i].when > ReadyAt
      BY <1>1, <1>7, <2>5 DEF TurnsLater
    <3>2. i < q /\ s[q].when < s[i].when /\ s[i].when # 0
      <4>1. s[i].when \in Nat /\ s[q].when \in Nat
        BY <1>1, <1>7, <2>1, WhenIsNat
      <4>2. i # q
        BY <2>2, <3>1, <4>1 DEF ReadyAt
      <4>. QED
        BY <2>1, <2>2, <2>3, <3>1, <4>1, <4>2 DEF ReadyAt
    <3>3. TurnRecord(s[i]).ok
      BY <1>7, <2>5, <3>2, TurnRecordIs
    <3>4. TimeGoesBack(s)
      <4>1. i \in DOMAIN s /\ q \in DOMAIN s
        BY <1>1, <1>7, <2>1
      <4>. QED
        BY <2>2, <3>2, <3>3, <4>1, Zenon DEF TimeGoesBack
    <3>5. v = s
      BY <1>1, <1>2, <1>3, <2>5, <3>4 DEF BackInWindow
    <3>. QED
      BY <1>5, <2>5, <3>4, <3>5
  <2>. QED
    BY <2>4, <2>5
<1>. QED
  BY <1>6, <1>8, <1>9

LEMMA AgyTurnQuiet ==
    ASSUME NEW s, LogInv(s), NEW part, AgyTurnSince(s, part) = "quiet"
    PROVE  \A i \in 3 .. Len(s) : s[i].kind # "turn"
<1>1. s \in Records /\ Len(s) \in Nat /\ Len(s) >= 2 /\ DOMAIN s = 1 .. Len(s) /\ Begins(s)
  BY DEF LogInv, Records, Begins
<1>2. LastRecord(s, "ready") = 2
  BY <1>1, LastIs DEF Begins
<1>. DEFINE t == SubSeq(s, 3, Len(s))
<1>3. FirstTurn(t) = "quiet"
  <2>1. FirstTurn(SubSeq(s, LastRecord(s, "ready") + 1, Len(s))) = "quiet"
    <3>. DEFINE call == LastRecord(s, "ready")
                refused == part \/ call = 0 \/ \E i \in 1 .. call : s[i].kind = "bad"
                answer == FirstTurn(SubSeq(s, call + 1, Len(s)))
    <3>1. AgyTurnSince(s, part) = IF refused THEN "unread" ELSE answer
      BY Zenon DEF AgyTurnSince
    <3>. HIDE DEF refused, answer
    <3>2. answer = "quiet"
      BY <3>1
    <3>. QED
      BY <3>2 DEF answer
  <2>. QED
    BY <1>2, <2>1
<1>4. /\ t \in Records /\ Len(t) = Len(s) - 3 + 1 /\ \A i \in 1 .. Len(s) - 3 + 1 : t[i] = s[3 + i - 1]
  BY <1>1, PartIs
<1>. HIDE DEF t
<1>5. \A i \in DOMAIN t : t[i].kind # "turn"
  BY <1>3, NoTurn
<1>6. DOMAIN t = 1 .. Len(s) - 2
  BY <1>1, <1>4 DEF Records
<1>7. ASSUME NEW i \in 3 .. Len(s) PROVE s[i].kind # "turn"
  <2>1. i - 2 \in 1 .. Len(s) - 2 /\ 3 + (i - 2) - 1 = i /\ i - 2 \in 1 .. Len(s) - 3 + 1
    BY <1>1
  <2>2. t[i - 2] = s[i]
    BY <1>4, <2>1
  <2>. QED
    BY <1>5, <1>6, <2>1, <2>2
<1>. QED
  BY <1>7

LEMMA OpenCodeQuiet ==
    ASSUME NEW s, LogInv(s), logOf = "opencode", OpenCodeTurnSince(s) = "quiet"
    PROVE  \A i \in 3 .. Len(s) : s[i].kind # "turn"
<1>1. s \in Records /\ Len(s) \in Nat /\ DOMAIN s = 1 .. Len(s) /\ TurnsLater(s)
  BY DEF LogInv, Records
<1>. DEFINE b == IF Len(s) > ScanBound THEN Len(s) - ScanBound + 1 ELSE 1
            v == SubSeq(s, b, Len(s))
            m == MarkOf(v)
            off == b - 1
<1>2. b \in 1 .. Len(s) + 1 /\ off \in Nat
  BY <1>1 DEF ScanBound
<1>3. (m > 0 \/ Len(v) >= Len(s)) /\ FirstTurn(SubSeq(v, m + 1, Len(v))) = "quiet"
  <2>. DEFINE bad == \E i \in DOMAIN v : ~TurnRecord(v[i]).ok
              answer == FirstTurn(SubSeq(v, m + 1, Len(v)))
  <2>1. OpenCodeTurnSince(s) = IF bad \/ TimeGoesBack(v) \/ (m = 0 /\ Len(v) < Len(s)) THEN "unread" ELSE answer
    BY Zenon DEF OpenCodeTurnSince
  <2>2. Len(v) \in Nat /\ m \in Nat
    <3>1. v \in Records
      BY <1>1, <1>2, PartIs, Zenon
    <3>. HIDE DEF v
    <3>2. Len(v) \in Nat
      BY <3>1 DEF Records
    <3>. QED
      BY <3>1, <3>2, MarkIs
  <2>. HIDE DEF bad, answer, v, m
  <2>3. ~(m = 0 /\ Len(v) < Len(s)) /\ answer = "quiet"
    BY <2>1
  <2>4. m > 0 \/ Len(v) >= Len(s)
    BY <1>1, <2>2, <2>3
  <2>. QED
    BY <2>3, <2>4 DEF answer
<1>4. /\ v \in Records /\ Len(v) = Len(s) - b + 1
      /\ \A i \in 1 .. Len(s) - b + 1 : v[i] = s[b + i - 1]
  <2>. HIDE DEF b
  <2>. QED
    BY <1>1, <1>2, PartIs
<1>. HIDE DEF v
<1>5. m \in 0 .. Len(v) /\ (m > 0 => /\ TurnRecord(v[m]).ok /\ TurnRecord(v[m]).timed /\ v[m].when <= ReadyAt)
  BY <1>4, MarkIs
<1>6. \A i \in DOMAIN v : i > m => v[i].kind # "turn"
  BY <1>3, <1>4, AfterMark
<1>7. DOMAIN v = 1 .. Len(v) /\ Len(v) = Len(s) - off
  <2>1. DOMAIN v = 1 .. Len(v)
    BY <1>4 DEF Records
  <2>. HIDE DEF b
  <2>. QED
    BY <1>1, <1>2, <1>4, <2>1
<1>8. \A i \in 1 .. Len(v) : v[i] = s[off + i]
  <2>. HIDE DEF b
  <2>. QED
    BY <1>1, <1>2, <1>4
<1>. HIDE DEF m, b, off
<1>9. ASSUME NEW i \in 3 .. Len(s), s[i].kind = "turn" PROVE FALSE
  <2>1. i <= off + m
    <3>1. ASSUME i > off + m PROVE FALSE
      <4>1. i - off \in 1 .. Len(v) /\ i - off > m /\ off + (i - off) = i
        BY <1>1, <1>2, <1>5, <1>7, <3>1
      <4>2. v[i - off] = s[i]
        BY <1>8, <4>1
      <4>. QED
        BY <1>6, <1>7, <1>9, <4>1, <4>2
    <3>. QED
      BY <1>1, <1>2, <1>5, <3>1
  <2>2. m > 0
    BY <1>1, <1>2, <1>3, <1>5, <1>7, <2>1
  <2>. DEFINE q == off + m
  <2>3. q \in 1 .. Len(s) /\ q \in i .. Len(s) /\ s[q] = v[m]
    BY <1>1, <1>2, <1>5, <1>7, <1>8, <2>1, <2>2
  <2>4. s[q].when # 0 /\ s[q].when <= ReadyAt
    BY <1>5, <2>2, <2>3, TurnRecordIs
  <2>. HIDE DEF q
  <2>5. \A j \in i .. Len(s) : s[j].when = 0 \/ s[j].when > ReadyAt
    BY <1>1, <1>9 DEF TurnsLater
  <2>6. s[q].when > ReadyAt
    BY <2>3, <2>4, <2>5
  <2>. QED
    BY <1>1, <2>3, <2>4, <2>6, WhenIsNat DEF ReadyAt
<1>. QED
  BY <1>9

\* Where the visit of DeepSeek's history stops is the last of the stops.
LEMMA HistoryIs ==
    ASSUME NEW s \in Records, NEW stops \in SUBSET (1 .. Len(s))
    PROVE  \/ DeepSeekHistory(s, stops) = 0 - 1
           \/ DeepSeekHistory(s, stops) = 0 /\ stops = {}
           \/ DeepSeekHistory(s, stops) \in stops /\ \A i \in stops : i <= DeepSeekHistory(s, stops)
<1>. DEFINE S == {0} \cup stops
            at == Max(S)
<1>1. Len(s) \in Nat
  BY DEF Records
<1>2. S \in SUBSET Nat /\ S # {} /\ \A x \in S : x <= Len(s)
  BY <1>1
<1>3. at \in S /\ \A y \in S : at >= y
  <2>. HIDE DEF S
  <2>. QED
    BY <1>1, <1>2, MaxOf
<1>4. DeepSeekHistory(s, stops) = IF Len(s) > ScanBound /\ at + ScanBound <= Len(s) THEN 0 - 1 ELSE at
  BY Zenon DEF DeepSeekHistory
<1>. HIDE DEF at
<1>5. DeepSeekHistory(s, stops) \in {0 - 1, at}
  BY <1>4
<1>6. at = 0 => stops = {}
  <2>1. ASSUME at = 0, NEW x \in stops PROVE FALSE
    <3>1. x \in S /\ x >= 1
      OBVIOUS
    <3>. QED
      BY <1>3, <2>1, <3>1
  <2>. QED
    BY <2>1
<1>7. at # 0 => at \in stops /\ \A i \in stops : i <= at
  BY <1>2, <1>3
<1>. QED
  BY <1>5, <1>6, <1>7

LEMMA DeepSeekTurnQuiet ==
    ASSUME NEW s, LogInv(s), logOf = "deepseek", DeepSeekTurnSince(s) = "quiet"
    PROVE  \A i \in 3 .. Len(s) : s[i].kind # "turn"
<1>1. s \in Records /\ Len(s) \in Nat /\ DOMAIN s = 1 .. Len(s) /\ TurnsLater(s)
  BY DEF LogInv, Records
<1>. DEFINE unread == {i \in DOMAIN s : \/ s[i].when = 0 \/ s[i].kind = "bad"
                                        \/ i < Len(s) /\ s[i].when > s[i + 1].when}
            turns == {i \in DOMAIN s : s[i].kind = "turn"}
            at == DeepSeekHistory(s, unread \cup turns)
            ends == {j \in DOMAIN s : s[j].kind = "end" /\ (at < 0 \/ j > at)}
            late == ends # {} /\ s[Min(ends)].when <= ReadyAt
<1>2. DeepSeekTurnSince(s) = IF at < 0 THEN "unread" ELSE IF at = 0 THEN "quiet"
                             ELSE IF at \in unread THEN "unread" ELSE IF s[at].when > ReadyAt THEN "turn"
                             ELSE IF late THEN "unread" ELSE "quiet"
  BY Zenon DEF DeepSeekTurnSince
<1>3. unread \cup turns \in SUBSET (1 .. Len(s))
  BY <1>1
<1>4. \/ at = 0 - 1
      \/ at = 0 /\ unread \cup turns = {}
      \/ at \in unread \cup turns /\ \A i \in unread \cup turns : i <= at
  <2>. DEFINE S == unread \cup turns
  <2>1. S \in SUBSET (1 .. Len(s))
    BY <1>3
  <2>. HIDE DEF S
  <2>2. \/ DeepSeekHistory(s, S) = 0 - 1
        \/ DeepSeekHistory(s, S) = 0 /\ S = {}
        \/ DeepSeekHistory(s, S) \in S /\ \A i \in S : i <= DeepSeekHistory(s, S)
    BY <1>1, <2>1, HistoryIs
  <2>. QED
    BY <2>2 DEF S
<1>. HIDE DEF at, late, unread
<1>5. CASE at = 0 - 1
  BY <1>2, <1>5
<1>6. CASE at = 0 /\ unread \cup turns = {}
  <2>1. turns = {}
    BY <1>6
  <2>. QED
    BY <1>1, <2>1
<1>7. CASE at \in unread \cup turns /\ \A i \in unread \cup turns : i <= at
  <2>1. at \in 1 .. Len(s)
    BY <1>3, <1>7
  <2>2. at \in turns /\ ~(s[at].when > ReadyAt)
    <3>1. ~(at < 0) /\ at # 0
      BY <2>1
    <3>. HIDE DEF turns
    <3>. QED
      BY <1>2, <1>7, <3>1
  <2>3. at < 3
    <3>1. at \in 3 .. Len(s) => s[at].when > ReadyAt
      BY <1>1, <2>2 DEF TurnsLater
    <3>. QED
      BY <1>1, <2>1, <2>2, <3>1
  <2>4. \A i \in turns : i <= at
    BY <1>7
  <2>. QED
    BY <1>1, <2>1, <2>3, <2>4
<1>. QED
  BY <1>4, <1>5, <1>6, <1>7

LEMMA CodexIdleQuiet ==
    ASSUME NEW s, LogInv(s), logOf = "codex", NEW part, CodexRolloutUnchanged(s, part) = "quiet"
    PROVE  /\ LastRecord(s, "end") > LastRecord(s, "turn")
           /\ LastRecord(s, "cend") >= LastRecord(s, "cstart")
<1>1. s \in Records /\ Len(s) \in Nat /\ DOMAIN s = 1 .. Len(s) /\ CompactionsEnd(s)
  BY DEF LogInv, Records
<1>. DEFINE v == Window(s, 4)
            off == Len(s) - Len(v)
            e == LastRecord(v, "end")
            t == LastRecord(v, "turn")
<1>2. e > t
  <2>1. CodexTurnEndedIn(s)
    BY DEF CodexRolloutUnchanged
  <2>. QED
    BY <2>1, Zenon DEF CodexTurnEndedIn, ScanBound
<1>3. v \in Records /\ Len(v) <= Len(s) /\ \A i \in DOMAIN v : v[i] = s[off + i]
  BY <1>1, WindowIs
<1>4. Len(v) \in Nat /\ DOMAIN v = 1 .. Len(v)
  BY <1>3 DEF Records
<1>5. /\ e \in 0 .. Len(v) /\ t \in 0 .. Len(v) /\ (e > 0 => v[e].kind = "end")
      /\ \A i \in DOMAIN v : v[i].kind = "turn" => i <= t
  BY <1>3, LastIs
<1>. HIDE DEF v, e, t
<1>6. /\ LastRecord(s, "end") \in Nat /\ LastRecord(s, "turn") \in 0 .. Len(s)
      /\ \A i \in DOMAIN s : s[i].kind = "end" => i <= LastRecord(s, "end")
      /\ LastRecord(s, "turn") > 0 => s[LastRecord(s, "turn")].kind = "turn"
  BY <1>1, LastIs
<1>7. off + e \in DOMAIN s /\ s[off + e].kind = "end"
  BY <1>1, <1>2, <1>3, <1>4, <1>5
<1>8. off + e <= LastRecord(s, "end")
  BY <1>6, <1>7
<1>. DEFINE l == LastRecord(s, "turn")
<1>9. l < off + e
  <2>1. ASSUME l > off PROVE l - off <= t
    <3>1. l - off \in DOMAIN v /\ off + (l - off) = l /\ l > 0
      BY <1>1, <1>3, <1>4, <1>6, <2>1
    <3>2. v[l - off].kind = "turn"
      BY <1>3, <1>6, <3>1
    <3>. QED
      BY <1>5, <3>1, <3>2
  <2>2. l \in Nat /\ off \in Nat
    BY <1>1, <1>3, <1>4, <1>6
  <2>. HIDE DEF l, off
  <2>. QED
    BY <1>2, <1>4, <1>5, <2>1, <2>2
<1>10. LastRecord(s, "cstart") = 0 /\ LastRecord(s, "cend") \in Nat
  <2>1. /\ LastRecord(s, "cstart") \in 0 .. Len(s) /\ LastRecord(s, "cend") \in 0 .. Len(s)
        /\ LastRecord(s, "cstart") > 0 => s[LastRecord(s, "cstart")].kind = "cstart"
    BY <1>1, LastIs
  <2>. QED
    BY <1>1, <2>1 DEF CompactionsEnd
<1>11. off + e \in Nat
  BY <1>1, <1>7
<1>. HIDE DEF l, off
<1>12. l < LastRecord(s, "end")
  BY <1>6, <1>8, <1>9, <1>11 DEF l
<1>. QED
  BY <1>10, <1>12 DEF l

LEMMA DeepSeekIdleQuiet ==
    ASSUME NEW s, LogInv(s), logOf = "deepseek", DeepSeekQuiet(s) = "quiet"
    PROVE  /\ LastRecord(s, "end") > LastRecord(s, "turn")
           /\ LastRecord(s, "cend") >= LastRecord(s, "cstart")
<1>1. s \in Records /\ Len(s) \in Nat /\ DOMAIN s = 1 .. Len(s) /\ CompactionsEnd(s) /\ Begins(s)
  BY DEF LogInv, Records
<1>. DEFINE over(i) == \E j \in DOMAIN s : /\ j > i /\ s[j].kind = "cend"
                                           /\ \A k \in (i + 1) .. (j - 1) : s[k].kind # "cstart"
            runs == {i \in DOMAIN s : s[i].kind = "cstart" /\ ~over(i)}
            turns == {i \in DOMAIN s : s[i].kind = "turn"}
            at == DeepSeekHistory(s, runs \cup turns)
            bad == \E i \in DOMAIN s : s[i].kind = "bad"
<1>2. DeepSeekQuiet(s) = IF at < 0 \/ bad THEN "unread" ELSE IF at = 0 THEN "quiet"
                         ELSE IF at \in runs THEN "compaction_running"
                         ELSE IF LastRecord(s, "end") < at THEN "turn_open" ELSE "quiet"
  BY Zenon DEF DeepSeekQuiet
<1>3. runs \cup turns \in SUBSET (1 .. Len(s)) /\ 1 \in turns
  BY <1>1 DEF Begins
<1>4. \/ at = 0 - 1
      \/ at = 0 /\ runs \cup turns = {}
      \/ at \in runs \cup turns /\ \A i \in runs \cup turns : i <= at
  <2>. DEFINE S == runs \cup turns
  <2>1. S \in SUBSET (1 .. Len(s))
    BY <1>3
  <2>. HIDE DEF S
  <2>2. \/ DeepSeekHistory(s, S) = 0 - 1
        \/ DeepSeekHistory(s, S) = 0 /\ S = {}
        \/ DeepSeekHistory(s, S) \in S /\ \A i \in S : i <= DeepSeekHistory(s, S)
    BY <1>1, <2>1, HistoryIs
  <2>. QED
    BY <2>2 DEF S
<1>. HIDE DEF at, bad
<1>5. at \in runs \cup turns /\ at \in 1 .. Len(s) /\ \A i \in runs \cup turns : i <= at
  <2>1. runs \cup turns # {}
    BY <1>3
  <2>. HIDE DEF runs, turns
  <2>2. at # 0 - 1
    BY <1>2
  <2>3. at \in runs \cup turns /\ \A i \in runs \cup turns : i <= at
    BY <1>4, <2>1, <2>2
  <2>. QED
    BY <1>3, <2>3
<1>6. at \in turns /\ ~(LastRecord(s, "end") < at)
  <2>. HIDE DEF runs, turns
  <2>. QED
    BY <1>2, <1>5
<1>7. s[at].kind = "turn"
  BY <1>6
<1>8. LastRecord(s, "end") > LastRecord(s, "turn")
  <2>1. /\ LastRecord(s, "end") \in 0 .. Len(s) /\ LastRecord(s, "turn") \in 0 .. Len(s)
        /\ LastRecord(s, "end") > 0 => s[LastRecord(s, "end")].kind = "end"
        /\ LastRecord(s, "turn") > 0 => s[LastRecord(s, "turn")].kind = "turn"
    BY <1>1, LastIs
  <2>2. LastRecord(s, "turn") <= at
    <3>1. LastRecord(s, "turn") > 0 => LastRecord(s, "turn") \in turns
      BY <1>1, <2>1
    <3>. HIDE DEF runs, turns
    <3>. QED
      BY <1>5, <2>1, <3>1
  <2>3. LastRecord(s, "end") # at
    BY <1>5, <1>7, <2>1
  <2>. QED
    BY <1>5, <1>6, <2>1, <2>2, <2>3
<1>9. LastRecord(s, "cend") >= LastRecord(s, "cstart")
  <2>. DEFINE c == LastRecord(s, "cstart")
  <2>1. /\ c \in 0 .. Len(s) /\ LastRecord(s, "cend") \in 0 .. Len(s) /\ (c > 0 => s[c].kind = "cstart")
        /\ \A i \in DOMAIN s : s[i].kind = "cend" => i <= LastRecord(s, "cend")
    BY <1>1, LastIs
  <2>. HIDE DEF c
  <2>2. ASSUME c > 0 PROVE \E j \in DOMAIN s : j > c /\ s[j].kind = "cend"
    <3>1. CASE c < at
      <4>1. \E j \in c + 1 .. at - 1 : s[j].kind = "cend"
        BY <1>1, <1>5, <1>7, <2>1, <2>2, <3>1 DEF CompactionsEnd
      <4>. QED
        BY <1>1, <1>5, <2>1, <4>1
    <3>2. CASE c >= at
      <4>1. c # at /\ c \in DOMAIN s /\ s[c].kind = "cstart"
        BY <1>1, <1>7, <2>1, <2>2
      <4>2. c \notin runs
        <5>. HIDE DEF runs, turns
        <5>. QED
          BY <1>5, <2>1, <3>2, <4>1
      <4>3. over(c)
        BY <4>1, <4>2
      <4>. QED
        BY <4>3
    <3>. QED
      BY <1>5, <2>1, <3>1, <3>2
  <2>3. ASSUME c > 0 PROVE c < LastRecord(s, "cend")
    <3>1. PICK j \in DOMAIN s : j > c /\ s[j].kind = "cend"
      BY <2>2, <2>3
    <3>. QED
      BY <1>1, <2>1, <3>1
  <2>4. c <= LastRecord(s, "cend")
    BY <2>1, <2>3
  <2>. QED
    BY <2>1, <2>4 DEF c
<1>. QED
  BY <1>8, <1>9

Subagents == [changed : {1, 3}, meta : {"none", "running", "bad", "finished"}, metaChanged : {1, 3}]

LEMMA SubagentQuiet ==
    ASSUME subagent \in Subagents, ClaudeSubagentsSince(subagent) = "quiet"
    PROVE  ~(subagent.meta = "finished" /\ subagent.metaChanged > ReadyAt)
<1>. SUFFICES ASSUME subagent.meta = "finished", subagent.metaChanged > ReadyAt PROVE FALSE
  OBVIOUS
<1>. DEFINE S == {subagent.changed, subagent.metaChanged}
<1>1. S \in SUBSET Nat /\ S # {} /\ \A x \in S : x <= 3
  BY DEF Subagents
<1>2. Max(S) \in S /\ \A y \in S : Max(S) >= y
  <2>. HIDE DEF S
  <2>. QED
    BY <1>1, MaxOf
<1>3. Max(S) >= subagent.metaChanged /\ Max(S) \in Nat /\ subagent.metaChanged \in Nat
  BY <1>1, <1>2
<1>4. ~(Max(S) <= ReadyAt)
  <2>. HIDE DEF S
  <2>. QED
    BY <1>3 DEF ReadyAt
<1>5. ClaudeSubagentsSince(subagent) = "turn"
  <2>1. subagent.meta # "none" /\ subagent.meta # "bad"
    OBVIOUS
  <2>. QED
    BY <1>4, <2>1, Zenon DEF ClaudeSubagentsSince
<1>. QED
  BY <1>5

\* The times of a log have a bound.
TimesBounded(s) == \E b \in Nat : \A i \in DOMAIN s : s[i].when <= b

LEMMA NewestIs ==
    ASSUME NEW s \in Records, Len(s) >= 1, TimesBounded(s)
    PROVE  NewestWhen(s) \in Nat /\ \A i \in DOMAIN s : NewestWhen(s) >= s[i].when
<1>. DEFINE S == {s[i].when : i \in DOMAIN s}
<1>1. PICK b \in Nat : \A i \in DOMAIN s : s[i].when <= b
  BY DEF TimesBounded
<1>2. DOMAIN s = 1 .. Len(s) /\ Len(s) \in Nat
  BY DEF Records
<1>3. S \in SUBSET Nat /\ S # {} /\ \A x \in S : x <= b
  BY <1>1, <1>2, WhenIsNat
<1>4. Max(S) \in S /\ \A y \in S : Max(S) >= y
  <2>. HIDE DEF S
  <2>. QED
    BY <1>3, MaxOf
<1>5. NewestWhen(s) = Max(S)
  BY DEF NewestWhen
<1>6. \A i \in DOMAIN s : s[i].when \in S
  OBVIOUS
<1>. HIDE DEF S
<1>. QED
  BY <1>3, <1>4, <1>5, <1>6

Families == {"claude", "codex", "agy", "grok", "opencode", "deepseek"}

LEMMA TimesAre ==
    ASSUME logOf \in Families, LogInv(written), TimesBounded(written), NEW k, NEW t \in Times(k)
    PROVE  /\ t \in Nat
           /\ k = "turn" => t > ReadyAt \/ (t = 0 /\ logOf \notin {"grok", "opencode", "deepseek"})
           /\ logOf = "grok" => t \in {0, 1} \/ \A i \in DOMAIN written : t >= written[i].when
           /\ logOf \in {"claude", "codex", "opencode"} =>
                 t = 0 \/ \A i \in 3 .. Len(written) : written[i].kind = "turn" => t > ReadyAt
<1>1. /\ written \in Records /\ Len(written) \in Nat /\ Len(written) >= 1
      /\ DOMAIN written = 1 .. Len(written)
  BY DEF LogInv, Records, Begins
<1>. DEFINE a == NewestWhen(written)
            c == IF LastRecord(written, "turn") > 2 THEN ReadyAt + 1 ELSE 0
            S == {a, c}
            last == Max(S)
            now == {last, last + 1}
<1>2. a \in Nat /\ \A i \in DOMAIN written : a >= written[i].when
  BY <1>1, NewestIs
<1>3. c \in Nat
  BY DEF ReadyAt
<1>. HIDE DEF a
<1>4. last \in Nat /\ last >= a /\ last >= c
  <2>1. S \in SUBSET Nat /\ S # {} /\ \A x \in S : x <= a + c
    <3>. HIDE DEF c
    <3>. QED
      BY <1>2, <1>3
  <2>2. a + c \in Nat /\ a \in S /\ c \in S
    <3>. HIDE DEF c
    <3>. QED
      BY <1>2, <1>3
  <2>. HIDE DEF S, c
  <2>. QED
    BY <2>1, <2>2, MaxOf
<1>5. Times(k) = CASE logOf = "agy" -> {0}
         [] logOf # "agy" /\ k = "turn" -> {x \in now : x > ReadyAt} \cup (IF Files /\ logOf # "grok" THEN {0} ELSE {})
         [] OTHER -> now \cup {0} \cup (IF logOf \in {"grok", "deepseek"} THEN {1} ELSE {})
  BY Zenon DEF Times, a
<1>. HIDE DEF last, S
<1>6. /\ logOf = "agy" => t = 0
      /\ logOf # "agy" /\ k = "turn" =>
            (t \in {last, last + 1} /\ t > ReadyAt) \/ (t = 0 /\ Files /\ logOf # "grok")
      /\ logOf # "agy" /\ k # "turn" => t \in {last, last + 1, 0} \/ (t = 1 /\ logOf \in {"grok", "deepseek"})
  <2>1. CASE logOf = "agy"
    <3>1. Times(k) = {0}
      <4>. HIDE DEF now
      <4>. QED
        BY <1>5, <2>1
    <3>. QED
      BY <2>1, <3>1
  <2>2. CASE logOf # "agy" /\ k = "turn"
    <3>1. Times(k) = {x \in now : x > ReadyAt} \cup (IF Files /\ logOf # "grok" THEN {0} ELSE {})
      <4>. HIDE DEF now
      <4>. QED
        BY <1>5, <2>2
    <3>. QED
      BY <2>2, <3>1
  <2>3. CASE logOf # "agy" /\ k # "turn"
    <3>1. Times(k) = now \cup {0} \cup (IF logOf \in {"grok", "deepseek"} THEN {1} ELSE {})
      <4>. HIDE DEF now
      <4>. QED
        BY <1>5, <2>3
    <3>. QED
      BY <2>3, <3>1
  <2>. QED
    BY <2>1, <2>2, <2>3
<1>7. t \in Nat
  BY <1>4, <1>6
<1>8. k = "turn" => t > ReadyAt \/ (t = 0 /\ logOf \notin {"grok", "opencode", "deepseek"})
  BY <1>6 DEF Files
<1>9. logOf = "grok" => t \in {0, 1} \/ \A i \in DOMAIN written : t >= written[i].when
  <2>1. logOf = "grok" => t \in {0, 1} \/ t \in {last, last + 1}
    BY <1>6
  <2>2. \A i \in DOMAIN written : written[i].when \in Nat /\ last >= written[i].when
    BY <1>1, <1>2, <1>4, WhenIsNat
  <2>. HIDE DEF c
  <2>. QED
    BY <1>4, <2>1, <2>2
<1>10. logOf \in {"claude", "codex", "opencode"} =>
           t = 0 \/ \A i \in 3 .. Len(written) : written[i].kind = "turn" => t > ReadyAt
  <2>1. logOf \in {"claude", "codex", "opencode"} => t = 0 \/ t >= last
    BY <1>4, <1>6
  <2>2. ASSUME NEW i \in 3 .. Len(written), written[i].kind = "turn" PROVE last > ReadyAt
    <3>1. i <= LastRecord(written, "turn") /\ LastRecord(written, "turn") \in Nat
      BY <1>1, <2>2, LastIs
    <3>2. c = ReadyAt + 1
      BY <3>1
    <3>. QED
      BY <1>4, <3>2 DEF ReadyAt
  <2>. HIDE DEF c
  <2>. QED
    BY <1>4, <1>7, <2>1, <2>2 DEF ReadyAt
<1>. QED
  BY <1>7, <1>8, <1>9, <1>10

LEMMA AppendKeepsLog ==
    ASSUME logOf \in Families, LogInv(written), TimesBounded(written),
           NEW k \in {"turn", "other", "bad", "end", "cstart", "cend"}, NEW t \in Times(k),
           Writable(k), InWindow(t)
    PROVE  /\ LogInv(Append(written, [kind |-> k, when |-> t]))
           /\ TimesBounded(Append(written, [kind |-> k, when |-> t]))
<1>. DEFINE s == written
            n == Len(s) + 1
            r == [kind |-> k, when |-> t]
            z == Append(s, r)
<1>1. /\ s \in Records /\ Len(s) \in Nat /\ Len(s) >= 2 /\ DOMAIN s = 1 .. Len(s) /\ n \in Nat
      /\ Begins(s) /\ TurnsLater(s) /\ BackInWindow(s) /\ CompactionsEnd(s)
  BY DEF LogInv, Records, Begins
<1>2. /\ t \in Nat
      /\ k = "turn" => t > ReadyAt \/ (t = 0 /\ logOf \notin {"grok", "opencode", "deepseek"})
      /\ logOf = "grok" => t \in {0, 1} \/ \A i \in DOMAIN s : t >= s[i].when
      /\ logOf \in {"claude", "codex", "opencode"} =>
            t = 0 \/ \A i \in 3 .. Len(s) : s[i].kind = "turn" => t > ReadyAt
  BY TimesAre
<1>3. r.kind = k /\ r.when = t
  OBVIOUS
<1>4. /\ z \in Records /\ Len(z) = n /\ z[n] = r /\ \A i \in 1 .. Len(s) : z[i] = s[i]
  <2>1. r \in LogRecord
    BY <1>2 DEF LogRecord
  <2>2. ASSUME NEW R, s \in Seq(R), NEW x \in R
        PROVE  /\ Append(s, x) \in Seq(R) /\ Len(Append(s, x)) = Len(s) + 1
               /\ Append(s, x)[Len(s) + 1] = x /\ \A i \in 1 .. Len(s) : Append(s, x)[i] = s[i]
    BY <2>2
  <2>3. s \in Seq(LogRecord)
    BY <1>1 DEF Records
  <2>. HIDE DEF r, s
  <2>. QED
    BY <2>1, <2>2, <2>3, Zenon DEF Records
<1>. HIDE DEF r, z
<1>5. \A i \in 1 .. n : i \in 1 .. Len(s) \/ i = n
  BY <1>1
<1>6. Begins(z)
  <2>1. Len(z) >= 2 /\ z[1] = s[1] /\ z[2] = s[2] /\ 1 .. n = (1 .. Len(s)) \cup {n}
    BY <1>1, <1>4
  <2>2. \A i \in 3 .. n : i \in 3 .. Len(s) \/ i = n
    BY <1>1
  <2>. QED
    BY <1>1, <1>3, <1>4, <2>1, <2>2 DEF Begins
<1>7. TurnsLater(z)
  <2>1. SUFFICES ASSUME NEW i \in 3 .. n, z[i].kind = "turn"
        PROVE  /\ z[i].when > ReadyAt \/ (z[i].when = 0 /\ logOf \notin {"grok", "opencode", "deepseek"})
               /\ logOf \in {"claude", "codex", "opencode"} =>
                     \A j \in i .. n : z[j].when = 0 \/ z[j].when > ReadyAt
    BY <1>4 DEF TurnsLater
  <2>2. CASE i = n
    <3>1. z[i] = r /\ k = "turn"
      BY <1>3, <1>4, <2>1, <2>2
    <3>2. i .. n = {n}
      BY <1>1, <2>2
    <3>. QED
      BY <1>2, <1>3, <1>4, <2>2, <3>1, <3>2
  <2>3. CASE i # n
    <3>1. i \in 3 .. Len(s) /\ z[i] = s[i] /\ \A j \in i .. n : j \in i .. Len(s) \/ j = n
      BY <1>1, <1>4, <2>3
    <3>2. \A j \in i .. Len(s) : z[j] = s[j]
      BY <1>1, <1>4
    <3>3. /\ s[i].when > ReadyAt \/ (s[i].when = 0 /\ logOf \notin {"grok", "opencode", "deepseek"})
          /\ logOf \in {"claude", "codex", "opencode"} =>
                \A j \in i .. Len(s) : s[j].when = 0 \/ s[j].when > ReadyAt
      BY <1>1, <2>1, <3>1 DEF TurnsLater
    <3>4. logOf \in {"claude", "codex", "opencode"} => z[n].when = 0 \/ z[n].when > ReadyAt
      BY <1>2, <1>3, <1>4, <2>1, <3>1
    <3>. QED
      BY <3>1, <3>2, <3>3, <3>4
  <2>. QED
    BY <2>2, <2>3
<1>8. BackInWindow(z)
  <2>1. SUFFICES ASSUME logOf = "grok", TimeGoesBack(z) PROVE n <= 4
    BY <1>4 DEF BackInWindow
  <2>2. Min(RecordWindows) = 4
    <3>1. RecordWindows = {4, 5}
      BY <2>1 DEF RecordWindows
    <3>2. Min({4, 5}) \in {4, 5} /\ Min({4, 5}) <= 4
      BY MinOf
    <3>. QED
      BY <3>1, <3>2
  <2>3. t \in {1} \/ TimeGoesBack(s) => Len(s) < 4
    BY <2>1, <2>2, Zenon DEF InWindow
  <2>4. t = 1 \/ TimeGoesBack(s)
    <3>1. PICK i, j \in DOMAIN z : i < j /\ z[j].when < z[i].when /\ TurnRecord(z[i]).ok /\ TurnRecord(z[j]).ok
      BY <2>1, Zenon DEF TimeGoesBack
    <3>2. i \in 1 .. n /\ j \in 1 .. n
      BY <1>4 DEF Records
    <3>3. i \in 1 .. Len(s) /\ z[i] = s[i]
      BY <1>1, <1>4, <3>1, <3>2
    <3>4. CASE j = n
      <4>1. t # 0 /\ t < s[i].when
        BY <1>3, <1>4, <2>1, <3>1, <3>3, <3>4, TurnRecordIs
      <4>2. s[i].when \in Nat
        BY <1>1, <3>3, WhenIsNat
      <4>. QED
        BY <1>1, <1>2, <2>1, <3>3, <4>1, <4>2
    <3>5. CASE j # n
      <4>1. j \in 1 .. Len(s) /\ z[j] = s[j] /\ i \in DOMAIN s /\ j \in DOMAIN s
        BY <1>1, <1>4, <3>2, <3>3, <3>5
      <4>. QED
        BY <3>1, <3>3, <4>1, Zenon DEF TimeGoesBack
    <3>. QED
      BY <3>4, <3>5
  <2>. QED
    BY <1>1, <2>3, <2>4
<1>9. CompactionsEnd(z)
  <2>1. k = "cstart" => logOf = "deepseek"
    BY DEF Writable
  <2>2. k = "turn" => LastRecord(s, "cend") >= LastRecord(s, "cstart")
    BY DEF Writable
  <2>3. /\ LastRecord(s, "cend") \in 0 .. Len(s) /\ LastRecord(s, "cstart") \in 0 .. Len(s)
        /\ LastRecord(s, "cend") > 0 => s[LastRecord(s, "cend")].kind = "cend"
        /\ \A i \in DOMAIN s : s[i].kind = "cstart" => i <= LastRecord(s, "cstart")
    BY <1>1, LastIs
  <2>4. ASSUME NEW i \in 1 .. n, z[i].kind = "turn", NEW c \in 1 .. i - 1, z[c].kind = "cstart"
        PROVE  \E j \in c + 1 .. i - 1 : z[j].kind = "cend"
    <3>1. c \in 1 .. Len(s) /\ z[c] = s[c] /\ c \in Nat
      BY <1>1, <1>4
    <3>2. CASE i = n
      <4>1. k = "turn"
        BY <1>3, <1>4, <2>4, <3>2
      <4>. DEFINE j == LastRecord(s, "cend")
      <4>2. c <= j /\ j > 0
        <5>1. c <= LastRecord(s, "cstart")
          BY <1>1, <2>3, <2>4, <3>1
        <5>. QED
          BY <2>2, <2>3, <3>1, <4>1, <5>1
      <4>3. s[j].kind = "cend" /\ c # j
        BY <2>3, <2>4, <3>1, <4>2
      <4>4. j \in c + 1 .. i - 1 /\ z[j] = s[j]
        BY <1>1, <1>4, <2>3, <3>1, <3>2, <4>2, <4>3
      <4>. QED
        BY <4>3, <4>4
    <3>3. CASE i # n
      <4>1. i \in 1 .. Len(s) /\ z[i] = s[i]
        BY <1>1, <1>4, <3>3
      <4>2. \E j \in c + 1 .. i - 1 : s[j].kind = "cend"
        BY <1>1, <2>4, <3>1, <4>1 DEF CompactionsEnd
      <4>. QED
        BY <1>1, <1>4, <3>1, <4>1, <4>2
    <3>. QED
      BY <3>2, <3>3
  <2>5. \A i \in 1 .. n : z[i].kind = "cstart" => logOf = "deepseek"
    BY <1>1, <1>3, <1>4, <1>5, <2>1 DEF CompactionsEnd
  <2>. QED
    BY <1>4, <2>4, <2>5 DEF CompactionsEnd
<1>10. TimesBounded(z)
  <2>1. PICK b \in Nat : \A i \in DOMAIN s : s[i].when <= b
    BY DEF TimesBounded
  <2>2. b + t \in Nat /\ DOMAIN z = 1 .. n
    BY <1>2, <1>4 DEF Records
  <2>3. ASSUME NEW i \in 1 .. n PROVE z[i].when <= b + t
    <3>1. CASE i = n
      BY <1>2, <1>3, <1>4, <3>1
    <3>2. CASE i # n
      <4>1. i \in 1 .. Len(s) /\ z[i] = s[i] /\ s[i].when \in Nat
        BY <1>1, <1>4, <3>2, WhenIsNat
      <4>. QED
        BY <1>1, <1>2, <2>1, <4>1
    <3>. QED
      BY <3>1, <3>2
  <2>. QED
    BY <2>2, <2>3 DEF TimesBounded
<1>. QED
  BY <1>4, <1>6, <1>7, <1>8, <1>9, <1>10 DEF LogInv, z, r

ScanShape(m) == m = [goal |-> m.goal, end |-> m.end, reads |-> m.reads, answer |-> m.answer, at |-> m.at]

TranscriptInv ==
    /\ logOf \in Families
    /\ LogInv(written) /\ TimesBounded(written)
    /\ subagent \in Subagents
    /\ ScanShape(scan) /\ scan.goal \in {""} \cup Goals
    /\ QuietIsTrue

\* What the families see in a log that has not changed is true of it.
LEMMA SeenTrue ==
    ASSUME TranscriptInv, scan.goal # "", NEW s, scan.goal # "subagents" => s = written, NEW part,
           Seen(s, part) = "quiet"
    PROVE  /\ scan.goal = "turns" => \A i \in 3 .. Len(written) : written[i].kind # "turn"
           /\ scan.goal = "idle" => /\ LastRecord(written, "end") > LastRecord(written, "turn")
                                    /\ LastRecord(written, "cend") >= LastRecord(written, "cstart")
           /\ scan.goal = "subagents" => ~(subagent.meta = "finished" /\ subagent.metaChanged > ReadyAt)
<1>1. logOf \in Families /\ LogInv(written) /\ subagent \in Subagents /\ scan.goal \in {""} \cup Goals
  BY DEF TranscriptInv
<1>2. ASSUME scan.goal = "turns" PROVE \A i \in 3 .. Len(written) : written[i].kind # "turn"
  <2>1. s = written
    BY <1>2
  <2>8. LogInv(s)
    BY <1>1, <2>1
  <2>2. CASE logOf = "claude"
    <3>1. RecordTurnRead(s, part, FALSE) = "quiet"
      BY <1>2, <2>2 DEF Seen, ClaudeTurnSince
    <3>. QED
      <4>1. logOf \in {"claude", "codex", "grok"} /\ (logOf = "grok" => FALSE)
        BY <2>2
      <4>2. \A i \in 3 .. Len(s) : s[i].kind # "turn"
        BY <2>8, <3>1, <4>1, RecordQuiet
      <4>. QED
        BY <2>1, <4>2
  <2>3. CASE logOf = "codex"
    <3>1. RecordTurnRead(s, part, FALSE) = "quiet"
      BY <1>2, <2>3 DEF Seen, CodexTurnSince
    <3>. QED
      <4>1. logOf \in {"claude", "codex", "grok"} /\ (logOf = "grok" => FALSE)
        BY <2>3
      <4>2. \A i \in 3 .. Len(s) : s[i].kind # "turn"
        BY <2>8, <3>1, <4>1, RecordQuiet
      <4>. QED
        BY <2>1, <4>2
  <2>4. CASE logOf = "grok"
    <3>1. RecordTurnRead(s, part, TRUE) = "quiet"
      BY <1>2, <2>4 DEF Seen, GrokTurnSince
    <3>. QED
      <4>1. logOf \in {"claude", "codex", "grok"} /\ (logOf = "grok" => TRUE)
        BY <2>4
      <4>2. \A i \in 3 .. Len(s) : s[i].kind # "turn"
        BY <2>8, <3>1, <4>1, RecordQuiet
      <4>. QED
        BY <2>1, <4>2
  <2>5. CASE logOf = "agy"
    <3>1. AgyTurnSince(s, part) = "quiet"
      BY <1>2, <2>5 DEF Seen
    <3>. QED
      BY <1>1, <2>1, <3>1, AgyTurnQuiet
  <2>6. CASE logOf = "opencode"
    <3>1. OpenCodeTurnSince(s) = "quiet"
      BY <1>2, <2>6 DEF Seen
    <3>. QED
      BY <1>1, <2>1, <2>6, <3>1, OpenCodeQuiet
  <2>7. CASE logOf = "deepseek"
    <3>1. DeepSeekTurnSince(s) = "quiet"
      BY <1>2, <2>7 DEF Seen
    <3>. QED
      BY <1>1, <2>1, <2>7, <3>1, DeepSeekTurnQuiet
  <2>. QED
    BY <1>1, <2>2, <2>3, <2>4, <2>5, <2>6, <2>7 DEF Families
<1>3. ASSUME scan.goal = "idle"
      PROVE  /\ LastRecord(written, "end") > LastRecord(written, "turn")
             /\ LastRecord(written, "cend") >= LastRecord(written, "cstart")
  <2>1. s = written /\ logOf \in {"codex", "deepseek"}
    BY <1>1, <1>3 DEF Goals
  <2>2. CASE logOf = "codex"
    <3>1. CodexRolloutUnchanged(s, part) = "quiet"
      BY <1>3, <2>2 DEF Seen
    <3>. QED
      BY <1>1, <2>1, <2>2, <3>1, CodexIdleQuiet
  <2>3. CASE logOf = "deepseek"
    <3>1. DeepSeekQuiet(s) = "quiet"
      BY <1>3, <2>3 DEF Seen
    <3>. QED
      BY <1>1, <2>1, <2>3, <3>1, DeepSeekIdleQuiet
  <2>. QED
    BY <2>1, <2>2, <2>3
<1>4. ASSUME scan.goal = "subagents" PROVE ~(subagent.meta = "finished" /\ subagent.metaChanged > ReadyAt)
  <2>1. ClaudeSubagentsSince(subagent) = "quiet"
    BY <1>4 DEF Seen
  <2>. QED
    BY <1>1, <2>1, SubagentQuiet
<1>. QED
  BY <1>2, <1>3, <1>4

LEMMA TranscriptInitInv == TranscriptInit => TranscriptInv
<1>. SUFFICES ASSUME TranscriptInit PROVE TranscriptInv
  OBVIOUS
<1>. DEFINE a == [kind |-> "turn", when |-> 1]
            b == [kind |-> "ready", when |-> ReadyAt]
<1>1. logOf \in Families
  BY TranscriptAssumption DEF TranscriptInit, Families
<1>2. written = <<a, b>> /\ scan = NoScan
  BY DEF TranscriptInit
<1>3. /\ a \in LogRecord /\ b \in LogRecord /\ a.kind = "turn" /\ b.kind = "ready"
      /\ a.when = 1 /\ b.when = 2
  BY DEF LogRecord, ReadyAt
<1>. HIDE DEF a, b
<1>4. /\ written \in Records /\ Len(written) = 2 /\ written[1] = a /\ written[2] = b /\ DOMAIN written = 1 .. 2
  BY <1>2, <1>3 DEF Records
<1>5. 1 .. 2 = {1, 2} /\ 3 .. 2 = {}
  OBVIOUS
<1>6. Begins(written) /\ TurnsLater(written) /\ BackInWindow(written)
  BY <1>3, <1>4, <1>5 DEF Begins, TurnsLater, BackInWindow
<1>7. CompactionsEnd(written)
  <2>1. \A i \in 1 .. 2 : written[i].kind # "cstart"
    BY <1>3, <1>4
  <2>2. ASSUME NEW i \in 1 .. 2, NEW c \in 1 .. i - 1 PROVE written[c].kind # "cstart"
    BY <2>1
  <2>. QED
    BY <1>4, <2>1, <2>2 DEF CompactionsEnd
<1>8. TimesBounded(written)
  <2>1. \A i \in DOMAIN written : written[i].when <= 2
    BY <1>3, <1>4
  <2>. QED
    BY <2>1 DEF TimesBounded
<1>9. subagent \in Subagents
  BY DEF TranscriptInit, Subagents
<1>10. ScanShape(scan) /\ scan.goal = "" /\ scan.answer = ""
  BY <1>2 DEF NoScan, ScanShape
<1>. QED
  BY <1>1, <1>4, <1>6, <1>7, <1>8, <1>9, <1>10 DEF TranscriptInv, LogInv, QuietIsTrue

LEMMA TranscriptNextInv == TranscriptInv /\ [TranscriptNext]_logVars => TranscriptInv'
<1>. SUFFICES ASSUME TranscriptInv, [TranscriptNext]_logVars PROVE TranscriptInv'
  OBVIOUS
<1>1. /\ logOf \in Families /\ LogInv(written) /\ TimesBounded(written) /\ subagent \in Subagents
      /\ ScanShape(scan) /\ scan.goal \in {""} \cup Goals /\ QuietIsTrue
  BY DEF TranscriptInv
<1>2. UNCHANGED logOf => Goals' = Goals
  BY DEF Goals
<1>3. ASSUME UNCHANGED logOf, LogInv(written'), TimesBounded(written'), subagent' \in Subagents,
             UNCHANGED scan, scan.answer = ""
      PROVE  TranscriptInv'
  <2>1. LogInv(written)' /\ TimesBounded(written)'
    BY <1>3 DEF LogInv, TurnsLater, BackInWindow, CompactionsEnd, TimeGoesBack, TimesBounded, TurnRecord,
       Begins, ClaudeTurnRecord, CodexTurnRecord, GrokTurnRecord
  <2>. QED
    BY <1>1, <1>2, <1>3, <2>1 DEF TranscriptInv, QuietIsTrue, ScanShape
<1>4. ASSUME UNCHANGED <<logOf, written, partial, subagent>>, ScanShape(scan'), scan'.goal \in {""} \cup Goals,
             QuietIsTrue'
      PROVE  TranscriptInv'
  <2>1. LogInv(written') /\ TimesBounded(written')
    BY <1>1, <1>4, Zenon
  <2>2. LogInv(written)' /\ TimesBounded(written)'
    BY <1>4, <2>1 DEF LogInv, TurnsLater, BackInWindow, CompactionsEnd, TimeGoesBack, TimesBounded, TurnRecord,
       Begins, ClaudeTurnRecord, CodexTurnRecord, GrokTurnRecord
  <2>. QED
    BY <1>1, <1>2, <1>4, <2>2 DEF TranscriptInv, ScanShape
<1>5. ASSUME NEW g \in Goals, BeginRead(g) PROVE TranscriptInv'
  <2>1. scan' = [goal |-> g, end |-> SizeOfLog, reads |-> 1, answer |-> "", at |-> 0]
        /\ UNCHANGED <<logOf, written, partial, subagent>>
    BY <1>5 DEF BeginRead
  <2>2. ScanShape(scan') /\ scan'.goal = g /\ scan'.answer = ""
    BY <2>1 DEF ScanShape
  <2>. QED
    BY <1>4, <2>1, <2>2 DEF QuietIsTrue
<1>6. ASSUME ReadAgain PROVE TranscriptInv'
  <2>1. scan' = [scan EXCEPT !.end = SizeOfLog, !.reads = @ + 1] /\ scan.answer = ""
        /\ UNCHANGED <<logOf, written, partial, subagent>>
    BY <1>6 DEF ReadAgain
  <2>2. ScanShape(scan') /\ scan'.goal = scan.goal /\ scan'.answer = ""
    BY <1>1, <2>1 DEF ScanShape
  <2>. QED
    BY <1>1, <1>4, <2>1, <2>2 DEF QuietIsTrue
<1>7. ASSUME EndRead PROVE TranscriptInv'
  <2>. DEFINE s == SubSeq(written, 1, scan.end[1])
              seen == Seen(s, scan.end[2])
              grew == ~LogUnchanged /\ scan.goal # "subagents"
              answer == IF seen = "quiet" /\ grew THEN "unread" ELSE seen
  <2>1. /\ scan.goal # "" /\ scan' = [scan EXCEPT !.answer = answer, !.at = Len(written)]
        /\ UNCHANGED <<logOf, written, partial, subagent>>
    BY <1>7, Zenon DEF EndRead
  <2>2. ASSUME answer = "quiet"
        PROVE  /\ scan.goal = "turns" => \A i \in 3 .. Len(written) : written[i].kind # "turn"
               /\ scan.goal = "idle" => /\ LastRecord(written, "end") > LastRecord(written, "turn")
                                        /\ LastRecord(written, "cend") >= LastRecord(written, "cstart")
               /\ scan.goal = "subagents" => ~(subagent.meta = "finished" /\ subagent.metaChanged > ReadyAt)
    <3>1. seen = "quiet" /\ (scan.goal # "subagents" => LogUnchanged)
      <4>. HIDE DEF seen
      <4>. QED
        BY <2>2
    <3>2. scan.goal # "subagents" => s = written
      <4>1. ASSUME LogUnchanged PROVE s = written
        <5>1. scan.end[1] = Len(written)
          BY <4>1 DEF LogUnchanged, SizeOfLog
        <5>2. written \in Seq(LogRecord)
          BY <1>1 DEF LogInv, Records
        <5>3. SubSeq(written, 1, Len(written)) = written
          BY <5>2
        <5>. QED
          BY <5>1, <5>3
      <4>. QED
        BY <3>1, <4>1
    <3>. HIDE DEF s
    <3>. QED
      BY <2>1, <3>1, <3>2, SeenTrue
  <2>. HIDE DEF answer
  <2>3. ScanShape(scan') /\ scan'.goal = scan.goal /\ scan'.answer = answer /\ scan'.at = Len(written)
    BY <1>1, <2>1 DEF ScanShape
  <2>4. /\ LastRecord(written, "end")' = LastRecord(written, "end")
        /\ LastRecord(written, "turn")' = LastRecord(written, "turn")
        /\ LastRecord(written, "cend")' = LastRecord(written, "cend")
        /\ LastRecord(written, "cstart")' = LastRecord(written, "cstart")
    BY <2>1 DEF LastRecord
  <2>5. QuietIsTrue'
    <3>1. scan.goal \in {"turns", "idle", "subagents"}
      BY <1>1, <2>1 DEF Goals
    <3>2. UNCHANGED <<written, subagent>>
      BY <2>1
    <3>. QED
      BY <2>2, <2>3, <2>4, <3>1, <3>2 DEF QuietIsTrue, ReadyAt
  <2>. QED
    BY <1>1, <1>4, <2>1, <2>3, <2>5
<1>8. ASSUME NEW k \in {"turn", "other", "bad", "end", "cstart", "cend"}, NEW t \in Times(k), AppendRecord(k, t)
      PROVE  TranscriptInv'
  <2>1. /\ scan.answer = "" /\ Writable(k) /\ InWindow(t) /\ UNCHANGED <<logOf, subagent, scan>>
        /\ written' = Append(written, [kind |-> k, when |-> t])
    BY <1>8 DEF AppendRecord
  <2>2. LogInv(written') /\ TimesBounded(written')
    BY <1>1, <2>1, AppendKeepsLog
  <2>. QED
    BY <1>1, <1>3, <2>1, <2>2
<1>9. ASSUME AppendPart PROVE TranscriptInv'
  <2>1. scan.answer = "" /\ UNCHANGED <<logOf, written, subagent, scan>>
    BY <1>9 DEF AppendPart
  <2>. QED
    BY <1>1, <1>3, <2>1
<1>10. ASSUME SubagentStep PROVE TranscriptInv'
  <2>1. scan.answer = "" /\ UNCHANGED <<logOf, written, scan>> /\ subagent' \in Subagents
    BY <1>10 DEF SubagentStep, Subagents
  <2>. QED
    BY <1>1, <1>3, <2>1
<1>11. ASSUME UNCHANGED logVars PROVE TranscriptInv'
  <2>1. UNCHANGED <<logOf, written, partial, subagent, scan>>
    BY <1>11 DEF logVars
  <2>2. QuietIsTrue'
    <3>1. /\ LastRecord(written, "end")' = LastRecord(written, "end")
          /\ LastRecord(written, "turn")' = LastRecord(written, "turn")
          /\ LastRecord(written, "cend")' = LastRecord(written, "cend")
          /\ LastRecord(written, "cstart")' = LastRecord(written, "cstart")
      BY <2>1 DEF LastRecord
    <3>. QED
      BY <1>1, <2>1, <3>1 DEF QuietIsTrue, ReadyAt
  <2>. QED
    BY <1>1, <1>4, <2>1, <2>2
<1>. QED
  BY <1>5, <1>6, <1>7, <1>8, <1>9, <1>10, <1>11 DEF TranscriptNext

\* A quiet answer is true of the log at the moment it is given: a read fixes what it can see, its
\* window reaches back to the report, and it ends only when the log did not grow (cycle_claude.go:459).
THEOREM QuietIsTrueThm == TranscriptSpec => []QuietIsTrue
<1>1. TranscriptInv => QuietIsTrue
  BY DEF TranscriptInv
<1>. QED
  BY <1>1, TranscriptInitInv, TranscriptNextInv, PTL DEF TranscriptSpec
=============================================================================
