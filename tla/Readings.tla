------------------------------ MODULE Readings ------------------------------
(***************************************************************************)
(* Context readings and what is done on them: a session's MCP server       *)
(* follows its Codex rollout and reports the newest reading, with a mark   *)
(* when it read the rollout to its end while no turn ran                   *)
(* (internal/mcp/observe.go); the daemon polls an OpenCode or DeepSeek     *)
(* session itself and proves a reading by reading twice                    *)
(* (opencode_context.go, deepseek_context.go); the daemon stores reports   *)
(* (observations.go), admits a cycle at the threshold (context_policy.go)  *)
(* and enters a compaction on a reading that it confirmed again            *)
(* (context_cycle_controller.go).                                          *)
(*                                                                         *)
(* One session.  The agent writes its log, the reader looks, a report is   *)
(* lost, unanswered or late, the daemon or the server stops, and the clock *)
(* runs, in any order.  A unit of the clock is a minute; a report, a       *)
(* handler and a poll end within the unit in which they began.             *)
(***************************************************************************)
EXTENDS Integers, Sequences, SequencesExt

CONSTANTS
    ReadingSources,   \* subset of {"codex", "opencode", "deepseek"}
    SourceAge,        \* contextSourceMaxAge, in units of the clock
    ConfirmAge,       \* contextConfirmationMaxAge
    ConfirmEvery,     \* confirmEvery, openCodeContextConfirm
    MarkKept,         \* markKept
    RolloutBatch,     \* rolloutBatch, in pieces of the log
    MaxReadingTime,   \* bound: the clock
    MaxRollout,       \* bound: pieces that the agent writes, the first three included
    MaxReadingFaults  \* bound: stops, failed looks, lost answers, reverts,
                      \* replaced files, torn and long records

ASSUME ReadingsAssumption ==
    /\ ReadingSources \subseteq {"codex", "opencode", "deepseek"}
    /\ {SourceAge, ConfirmAge, ConfirmEvery, MarkKept, MaxReadingTime, MaxRollout, MaxReadingFaults} \subseteq Nat
    /\ RolloutBatch \in Nat \ {0}
    /\ ConfirmEvery <= ConfirmAge /\ ConfirmAge <= SourceAge /\ ConfirmAge < MarkKept

VARIABLES
    origin,      \* the session's family: its rollout is followed, or it is polled
    minute,      \* the clock
    rollout,     \* the agent's log: its file, whose thread it names, its pieces, a torn tail
    follow,      \* the server's rollout: where it read to and what it read
    delivered,   \* the server's sent["context"]
    flight,      \* the report on its way
    lateReport,  \* a report that its sender gave up on, still in its handler
    stored,      \* the daemon's stored context value
    asking,      \* a stored observation has not yet tried an admission
    crossing,    \* contextLatches: the epoch's crossing was selected
    compaction,  \* the session's cycle row and the reading that its input goes on
    chosen,      \* compactChoices
    polling,     \* the daemon's reader in its round
    polled,      \* openCodeContextState.sent
    readingFaults

readingWorld == <<origin, minute, rollout>>
serverReader == <<follow, delivered>>
daemonReader == <<polling, polled>>
cycleOnReading == <<compaction, chosen>>
readingVars == <<readingWorld, serverReader, flight, lateReport, stored, asking, crossing,
                 cycleOnReading, daemonReader, readingFaults>>

Nothing == [used |-> "none", at |-> 0]
Fault == readingFaults < MaxReadingFaults /\ readingFaults' = readingFaults + 1

-----------------------------------------------------------------------------
(* The agent's log *)

\* A piece: a reading of a level, the start or the end of a turn (by the number of
\* its start), or the head or the tail of a record longer than rolloutLine.
Piece(kind, used, turn) == [kind |-> kind, used |-> used, turn |-> turn, at |-> IF kind = "use" THEN minute ELSE 0]

Pieces(kind) == {i \in DOMAIN rollout.log : rollout.log[i].kind = kind}
LastOf(S) == IF S = {} THEN 0 ELSE CHOOSE i \in S : \A j \in S : j <= i
LastUse == LastOf(Pieces("use"))
LastStart == LastOf(Pieces("start"))

\* codexTurnEndedIn, and an idle answer of a polled session.
TurnEnded == \E i \in Pieces("end") : rollout.log[i].turn = LastStart

InLong == Len(rollout.log) > 0 /\ Last(rollout.log).kind = "head"

\* The first file starts with the three pieces of ReadingsInit.
MayWrite == Len(rollout.log) + 3 * (rollout.file - 1) < MaxRollout

AgentAppends(p) ==
    /\ MayWrite
    /\ rollout' = [rollout EXCEPT !.log = Append(@, p), !.torn = FALSE]
    /\ UNCHANGED <<origin, minute, serverReader, flight, lateReport, stored, asking, crossing,
                   cycleOnReading, daemonReader>>

\* External: the agent program appends to its log.  A polled session's log is what its
\* server answers from.
AgentWrites ==
    \/ /\ UNCHANGED readingFaults
       /\ \/ ~InLong /\ TurnEnded /\ AgentAppends(Piece("start", "none", 0))
          \/ ~InLong /\ ~TurnEnded /\ LastStart > 0 /\ AgentAppends(Piece("end", "none", LastStart))
          \/ ~InLong /\ \E u \in {"low", "high"} : AgentAppends(Piece("use", u, 0))
          \/ InLong /\ AgentAppends(Piece("tail", "none", 0))
    \/ origin = "codex" /\ ~InLong /\ Fault /\ AgentAppends(Piece("head", "none", 0))

\* External: an OpenCode session takes its newest messages back.
AgentReverts ==
    /\ origin = "opencode" /\ Fault
    /\ \E n \in 1..Len(rollout.log) - 1 : rollout' = [rollout EXCEPT !.log = SubSeq(@, 1, n)]
    /\ UNCHANGED <<origin, minute, serverReader, flight, lateReport, stored, asking, crossing,
                   cycleOnReading, daemonReader>>

\* External: a record is written in parts.
AgentTears ==
    /\ origin = "codex" /\ ~rollout.torn /\ MayWrite /\ Fault
    /\ rollout' = [rollout EXCEPT !.torn = TRUE]
    /\ UNCHANGED <<origin, minute, serverReader, flight, lateReport, stored, asking, crossing,
                   cycleOnReading, daemonReader>>

\* External: another file takes the rollout's path; its first record names a thread.
RolloutReplaced(own) ==
    /\ origin = "codex" /\ Fault
    /\ rollout' = [file |-> rollout.file + 1, own |-> own, log |-> <<>>, torn |-> FALSE]
    /\ UNCHANGED <<origin, minute, serverReader, flight, lateReport, stored, asking, crossing,
                   cycleOnReading, daemonReader>>

-----------------------------------------------------------------------------
(* The server's reader *)

NewRollout == [file |-> 0, off |-> 0, skip |-> FALSE, caught |-> FALSE, turn |-> 0,
               idle |-> FALSE, use |-> Nothing]

\* event, and the records that consume discards.
RolloutEvent(r, i) ==
    LET p == rollout.log[i]
        read == [r EXCEPT !.off = i]
    IN CASE p.kind = "head" -> [read EXCEPT !.skip = TRUE]
         [] p.kind = "tail" -> [read EXCEPT !.skip = FALSE]
         [] p.kind = "use" -> [read EXCEPT !.use = [used |-> p.used, at |-> p.at]]
         [] p.kind = "start" -> [read EXCEPT !.turn = i, !.idle = FALSE]
         [] p.kind = "end" -> [read EXCEPT !.idle = @ \/ p.turn = r.turn]

\* consume: one batch, from the start of a file that it does not know, and caught up
\* only at the end of the file after a complete record, within the batch.
Consume ==
    LET r == IF follow.file = rollout.file THEN follow ELSE [NewRollout EXCEPT !.file = rollout.file]
        size == Len(rollout.log)
        end == IF r.off + RolloutBatch < size THEN r.off + RolloutBatch ELSE size
        upTo[i \in r.off .. end] == IF i = r.off THEN r ELSE RolloutEvent(upTo[i - 1], i)
        read == upTo[end]
    IN [read EXCEPT !.caught = /\ end = size /\ end < r.off + RolloutBatch
                               /\ ~rollout.torn /\ ~read.skip]

NoEnd == [file |-> 0, size |-> 0]

\* codexRollout: the reading, with the mark of a caught-up read after a turn's end.
RolloutReading(r) ==
    [used |-> r.use.used, at |-> r.use.at,
     end |-> IF r.caught /\ r.turn > 0 /\ r.idle THEN [file |-> r.file, size |-> r.off]
             ELSE NoEnd]

\* unmarked: the delivered context without its mark, while it carried one.
Unmarked == IF delivered.used # "none" /\ delivered.end # NoEnd
            THEN [used |-> delivered.used, at |-> delivered.at, end |-> NoEnd]
            ELSE Nothing

\* report: what changed since the last delivered report, and the same once a minute.
Unsent(v) ==
    \/ delivered.used = "none"
    \/ v # [used |-> delivered.used, at |-> delivered.at, end |-> delivered.end]
    \/ minute - delivered.sent >= ConfirmEvery

Sends(v) == flight' = IF v.used # "none" /\ Unsent(v)
                      THEN [used |-> v.used, at |-> v.at, end |-> v.end, sent |-> minute]
                      ELSE Nothing

ReadRollout ==
    /\ follow' = Consume
    /\ Sends(IF follow'.use.used = "none" THEN Unmarked ELSE RolloutReading(follow'))

FailLook ==
    /\ follow' = NewRollout
    /\ Sends(Unmarked)

\* observeOnce for the session: a rollout that fails, is not found or names another
\* thread gives no reading.
Look ==
    /\ origin = "codex" /\ flight.used = "none"
    /\ \/ rollout.own /\ ReadRollout /\ UNCHANGED readingFaults
       \/ ~rollout.own /\ FailLook /\ UNCHANGED readingFaults
       \/ Fault /\ FailLook
    /\ UNCHANGED <<readingWorld, delivered, lateReport, stored, asking, crossing,
                   cycleOnReading, daemonReader>>

\* report forgets a server's many sessions, but for marks that may still admit.
TrimSent ==
    /\ delivered.used # "none"
    /\ delivered.end = NoEnd \/ minute - delivered.sent >= MarkKept
    /\ Fault
    /\ delivered' = Nothing
    /\ UNCHANGED <<readingWorld, follow, flight, lateReport, stored, asking, crossing,
                   cycleOnReading, daemonReader>>

-----------------------------------------------------------------------------
(* The daemon's store of readings *)

\* Mutant of Unmark: any report of the same content confirms the reading with its mark.
UnmarkConfirms == [stored EXCEPT !.seen = minute]

\* A report without the mark of a marked value only ends the mark.
Unmark == [stored EXCEPT !.end = NoEnd]

\* Observe's cases, for a report or a reading of the daemon's own reader (v.newest).
Replaces(v) == stored.used = "none" \/ v.at > stored.at
               \/ (v.newest /\ v.at = stored.at /\ v.used # stored.used)
Outdated(v) == ~Replaces(v) /\ v.newest /\ v.at < stored.at
SameValue(v) == ~Replaces(v) /\ ~Outdated(v) /\ v.used = stored.used
Unmarks(v) == SameValue(v) /\ stored.end # NoEnd /\ v.end = NoEnd
Confirms(v) == SameValue(v) /\ ~Unmarks(v)

Observed(v) ==
    CASE Replaces(v) -> [used |-> v.used, at |-> v.at, end |-> v.end, seen |-> minute, proof |-> v.proof]
      [] Outdated(v) -> [stored EXCEPT !.proof = FALSE]
      [] Unmarks(v) -> Unmark
      [] Confirms(v) -> [stored EXCEPT !.seen = minute, !.end = v.end, !.proof = v.proof]
      [] OTHER -> stored

\* The choice of a mark knows a confirmation that came after it.
Observe(v) ==
    /\ stored' = Observed(v)
    /\ asking' = TRUE
    /\ chosen' = IF chosen.src > 0 /\ (Replaces(v) \/ Confirms(v)) THEN [chosen EXCEPT !.later = TRUE] ELSE chosen

Reported(f) == [used |-> f.used, at |-> f.at, end |-> f.end, newest |-> FALSE, proof |-> FALSE]

\* report's answer, or none: the daemon refused or never got it, or its answer is lost.
Answered ==
    /\ flight.used # "none"
    /\ Observe(Reported(flight)) /\ delivered' = flight
    /\ flight' = Nothing
    /\ UNCHANGED <<readingWorld, follow, lateReport, crossing, compaction, daemonReader, readingFaults>>

Unanswered ==
    /\ flight.used # "none" /\ Fault
    /\ \/ Observe(Reported(flight)) /\ UNCHANGED lateReport
       \/ UNCHANGED <<stored, asking, chosen, lateReport>>
       \/ lateReport.used = "none" /\ lateReport' = flight /\ UNCHANGED <<stored, asking, chosen>>
    /\ flight' = Nothing
    /\ UNCHANGED <<readingWorld, serverReader, crossing, compaction, daemonReader>>

LateArrives ==
    /\ lateReport.used # "none"
    /\ Observe(Reported(lateReport))
    /\ lateReport' = Nothing
    /\ UNCHANGED <<readingWorld, serverReader, flight, crossing, compaction, daemonReader, readingFaults>>

-----------------------------------------------------------------------------
(* The daemon's own reader *)

\* newestMessage: no newer message or unfinished reply follows the reading.
NewestUse == \A i \in DOMAIN rollout.log : i > LastUse => rollout.log[i].kind = "end"

ClearContextProof == IF stored.used = "none" THEN stored ELSE [stored EXCEPT !.proof = FALSE]

DropReading ==
    /\ polled' = Nothing
    /\ stored' = ClearContextProof
    /\ UNCHANGED <<asking, chosen>>

NoPoll == [st |-> "none"]

\* The newest usage, with its own time (deepSeekUsageTime) and its place in the log.
UsageRead == [st |-> "read", used |-> rollout.log[LastUse].used, at |-> rollout.log[LastUse].at,
              index |-> LastUse, size |-> Len(rollout.log), newest |-> NewestUse]

\* openCodeContext, the first read; before a usage, or failed, it ends the stored proof.
PollRead ==
    /\ origin # "codex" /\ polling = NoPoll
    /\ \/ /\ LastUse > 0 /\ polling' = UsageRead
          /\ UNCHANGED <<polled, stored, asking, chosen, readingFaults>>
       \/ LastUse = 0 /\ DropReading /\ UNCHANGED <<polling, readingFaults>>
       \/ Fault /\ DropReading /\ UNCHANGED polling
    /\ UNCHANGED <<readingWorld, serverReader, flight, lateReport, crossing, compaction>>

\* recordReading: what changed, with its proof, and the same once a minute; a reading that
\* the store did not take (holdsReading) is forgotten.
Recorded(proof) ==
    LET v == [used |-> polling.used, at |-> polling.at, end |-> NoEnd, newest |-> TRUE, proof |-> proof]
        mark == IF origin = "deepseek" THEN polling.index ELSE 0
        known == /\ polled.used = v.used /\ polled.at = v.at /\ polled.mark = mark /\ polled.proof = proof
                 /\ minute - polled.sent < ConfirmEvery
        held == Observed(v).used = v.used /\ Observed(v).at = v.at
    IN \/ polled.used # "none" /\ known /\ UNCHANGED <<polled, stored, asking, chosen, readingFaults>>
       \/ /\ polled.used = "none" \/ ~known
          /\ \/ /\ held /\ Observe(v)
                /\ polled' = [used |-> v.used, at |-> v.at, mark |-> mark, proof |-> proof,
                              sent |-> minute]
                /\ UNCHANGED readingFaults
             \/ /\ ~held
                /\ stored' = [Observed(v) EXCEPT !.proof = FALSE]
                /\ polled' = Nothing /\ asking' = TRUE
                /\ UNCHANGED <<chosen, readingFaults>>
             \/ Fault /\ DropReading

\* The status read: without an idle session there is no proof.
PollStatus ==
    /\ polling.st = "read"
    /\ \/ /\ polling.newest /\ TurnEnded
          /\ polling' = [polling EXCEPT !.st = "idle"]
          /\ UNCHANGED <<polled, stored, asking, chosen, readingFaults>>
       \/ Recorded(FALSE) /\ polling' = NoPoll
    /\ UNCHANGED <<readingWorld, serverReader, flight, lateReport, crossing, compaction>>

\* The second read: the same reading, still the newest, or the same position of the log.
OpenCodeAgain == LastUse = polling.index /\ NewestUse
DeepSeekAgain == Len(rollout.log) = polling.size

PollAgain ==
    /\ polling.st = "idle"
    /\ Recorded(IF origin = "opencode" THEN OpenCodeAgain ELSE DeepSeekAgain)
    /\ polling' = NoPoll
    /\ UNCHANGED <<readingWorld, serverReader, flight, lateReport, crossing, compaction>>

-----------------------------------------------------------------------------
(* Admission at the threshold, and the compaction *)

NoCompaction == [st |-> "none", mark |-> NoEnd, src |-> 0]
NoChoice == [end |-> NoEnd, src |-> 0, later |-> FALSE]

\* currentReading: a Codex mark, or a daemon reader's proof in a handoff cycle.
CurrentReading == IF origin = "codex" THEN stored.end # NoEnd ELSE stored.proof

SourceOld == minute - stored.at > SourceAge
ConfirmOld == minute - stored.seen > ConfirmAge

\* SelectContextTrigger, of the reading itself.
Selected == /\ stored.used = "high"
            /\ SourceOld => CurrentReading
            /\ ~ConfirmOld

\* compactionObserved: a fresh low reading, recorded after the submission, confirms it.
Compacted == /\ compaction.st = "sent" /\ stored.used = "low"
             /\ ~SourceOld /\ ~ConfirmOld /\ stored.at > compaction.src

\* contextObserved with admitContextCycle; a session that is not enabled, or that the
\* adapter's probe refuses, is not admitted.
ContextObserved ==
    /\ asking /\ asking' = FALSE
    /\ stored.used # "none"
    /\ LET latched == crossing /\ stored.used # "low"
       IN \/ crossing' = latched
             /\ compaction' = IF Compacted THEN NoCompaction ELSE compaction
          \/ /\ compaction.st = "none" /\ Selected /\ ~latched
             /\ compaction' = [NoCompaction EXCEPT !.st = "waiting"]
             /\ crossing' = TRUE
    /\ UNCHANGED <<readingWorld, serverReader, flight, lateReport, stored, chosen, daemonReader, readingFaults>>

\* A cycle that ends before its input arms the crossing again (rearm); a handoff cycle's
\* stages are the Cycle module's.
CycleOver ==
    /\ compaction.st \in {"waiting", "sent"}
    /\ crossing' = (compaction.st = "sent" /\ crossing)
    /\ compaction' = NoCompaction /\ chosen' = NoChoice
    /\ UNCHANGED <<readingWorld, serverReader, flight, lateReport, stored, asking, daemonReader, readingFaults>>

\* compactionStale: a reading that waits, or one that no longer selects the compaction.
StaleWaits == stored.used = "none" \/ (ConfirmOld /\ (SourceOld => CurrentReading))
StaleEnds == ~StaleWaits /\ ~Selected

\* compactChoices.confirmed: the same reading and mark, confirmed after the choice.
ChoiceHolds == chosen.end = stored.end /\ chosen.src = stored.at

\* stepCompaction, up to the recorded intent.
StepCompaction ==
    /\ origin = "codex" /\ compaction.st = "waiting" /\ ~StaleWaits
    /\ \/ StaleEnds /\ compaction' = NoCompaction /\ crossing' = FALSE /\ chosen' = NoChoice
       \/ /\ ~StaleEnds /\ SourceOld /\ ~ChoiceHolds
          /\ chosen' = [end |-> stored.end, src |-> stored.at, later |-> FALSE]
          /\ UNCHANGED <<compaction, crossing>>
       \/ /\ ~StaleEnds /\ (SourceOld => ChoiceHolds /\ chosen.later)
          /\ compaction' = [st |-> "intent", src |-> stored.at,
                            mark |-> IF SourceOld THEN stored.end ELSE NoEnd]
          /\ UNCHANGED <<crossing, chosen>>
    /\ UNCHANGED <<readingWorld, serverReader, flight, lateReport, stored, asking, daemonReader, readingFaults>>

\* Mutant of RolloutUnchanged: the file may have grown.
RolloutUnchangedFile(mark) == rollout.file = mark.file /\ TurnEnded

\* codexRolloutUnchanged.
RolloutUnchanged(mark) ==
    /\ rollout.file = mark.file /\ Len(rollout.log) = mark.size /\ ~rollout.torn
    /\ TurnEnded

\* Compact: the adapter reads the rollout at its first key; what it refuses was not
\* submitted.  An input that may have been made ends the cycle.
Compact ==
    /\ compaction.st = "intent"
    /\ LET ready == IF compaction.mark = NoEnd THEN TurnEnded ELSE RolloutUnchanged(compaction.mark)
       IN \/ ready /\ compaction' = [compaction EXCEPT !.st = "sent", !.src = minute] /\ UNCHANGED chosen
          \/ ready /\ compaction' = NoCompaction /\ chosen' = NoChoice
          \/ compaction' = [NoCompaction EXCEPT !.st = "waiting"] /\ UNCHANGED chosen
    /\ UNCHANGED <<readingWorld, serverReader, flight, lateReport, stored, asking, crossing, daemonReader, readingFaults>>

-----------------------------------------------------------------------------
(* Stops and the clock *)

ServerStops ==
    /\ origin = "codex" /\ Fault
    /\ follow' = NewRollout /\ delivered' = Nothing /\ flight' = Nothing
    /\ UNCHANGED <<readingWorld, lateReport, stored, asking, crossing, cycleOnReading, daemonReader>>

\* The readings, the choices and the latches are in memory; an unproven input ends.
DaemonStops ==
    /\ Fault
    /\ stored' = Nothing /\ lateReport' = Nothing /\ flight' = Nothing /\ asking' = FALSE
    /\ crossing' = FALSE /\ chosen' = NoChoice /\ polling' = NoPoll /\ polled' = Nothing
    /\ compaction' = IF compaction.st = "intent" THEN NoCompaction ELSE compaction
    /\ UNCHANGED <<readingWorld, serverReader>>

ReadingTick ==
    /\ minute < MaxReadingTime
    /\ flight.used = "none" /\ lateReport.used = "none" /\ ~asking
    /\ polling = NoPoll /\ compaction.st # "intent"
    /\ minute' = minute + 1
    /\ UNCHANGED <<origin, rollout, serverReader, flight, lateReport, stored, asking, crossing,
                   cycleOnReading, daemonReader, readingFaults>>

-----------------------------------------------------------------------------
\* A session that filled its context in a turn that ended.
ReadingsInit ==
    /\ origin \in ReadingSources /\ minute = 1
    /\ rollout = [file |-> 1, own |-> TRUE, torn |-> FALSE,
                  log |-> << [kind |-> "start", used |-> "none", turn |-> 0, at |-> 0],
                             [kind |-> "use", used |-> "high", turn |-> 0, at |-> 1],
                             [kind |-> "end", used |-> "none", turn |-> 1, at |-> 0] >>]
    /\ follow = NewRollout /\ delivered = Nothing /\ flight = Nothing /\ lateReport = Nothing
    /\ stored = Nothing /\ asking = FALSE /\ crossing = FALSE
    /\ compaction = NoCompaction /\ chosen = NoChoice
    /\ polling = NoPoll /\ polled = Nothing /\ readingFaults = 0

ReadingsNext ==
    \/ AgentWrites
    \/ AgentTears
    \/ AgentReverts
    \/ \E own \in BOOLEAN : RolloutReplaced(own)
    \/ Look
    \/ TrimSent
    \/ Answered
    \/ Unanswered
    \/ LateArrives
    \/ PollRead
    \/ PollStatus
    \/ PollAgain
    \/ ContextObserved
    \/ CycleOver
    \/ StepCompaction
    \/ Compact
    \/ ServerStops
    \/ DaemonStops
    \/ ReadingTick

ReadingsSpec == ReadingsInit /\ [][ReadingsNext]_readingVars

-----------------------------------------------------------------------------
\* A cycle admitted on a reading older than the source age rests on a look that was
\* recent: no newer reading had stood in the agent's log for longer than the
\* confirmation age, whatever reports were lost, late or unmarked (Observe,
\* currentReading, SelectContextTrigger, recordReading).
AdmittedOnCurrent ==
    [][compaction.st = "none" /\ compaction'.st = "waiting" /\ SourceOld
       => \A i \in Pieces("use") :
             rollout.log[i].at > stored.at => rollout.log[i].at >= minute - ConfirmAge]_readingVars

\* A compaction entered on a caught-up mark goes to a session whose newest reading is
\* still the full one that was chosen, and whose last turn has ended, at the adapter's
\* first key (compactChoices, codexRolloutUnchanged).
CompactsNewest ==
    [][compaction.st = "intent" /\ compaction'.st = "sent" /\ compaction.mark # NoEnd
       => /\ TurnEnded /\ LastUse > 0
          /\ rollout.log[LastUse].used = "high" /\ rollout.log[LastUse].at = compaction.src]_readingVars
=============================================================================
