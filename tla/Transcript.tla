----------------------------- MODULE Transcript -----------------------------
(***************************************************************************)
(* How the adapters of context cycles prove that a session was quiet since *)
(* its ready report (cycle_claude.go, cycle_codex.go, cycle_agy.go,        *)
(* cycle_grok.go, cycle_opencode.go and cycle_deepseek.go): they read the  *)
(* session's own log while the agent program appends to it.                *)
(*                                                                         *)
(* A log only grows, and the pages of a read are anchored to its end when  *)
(* the read began, so a read is its beginning, which fixes the records it  *)
(* can see, and its last check, which gives the answer.                    *)
(***************************************************************************)
EXTENDS Integers, Sequences, FiniteSetsExt

CONSTANTS
    LogFamilies,    \* subset of {"claude", "codex", "agy", "grok", "opencode", "deepseek"}
    MaxLog          \* bound: records of the log

ASSUME TranscriptAssumption ==
    /\ LogFamilies \subseteq {"claude", "codex", "agy", "grok", "opencode", "deepseek"}
    /\ MaxLog \in Nat

VARIABLES
    logOf,      \* the family of the session
    written,    \* the complete records
    partial,    \* a record is being written
    subagent,   \* the background subagent: its files and their times
    scan        \* the read under way: goal, end of the log at its beginning, reads, answer

logVars == <<logOf, written, partial, subagent, scan>>

ReadyAt == 2                \* time of the report, which is the second record
ScanBound == 4              \* records that the pages of one scan hold
RecordReads == 3

\* recordTailMin doubled up to recordTailMax, in records; Grok's smallest holds a turn and a
\* record whose time went back.
RecordWindows == IF logOf = "grok" THEN {4, 5} ELSE {2, 4}

SizeOfLog == <<Len(written), partial>>
NewestWhen(s) == Max({s[i].when : i \in DOMAIN s})
LastRecord(s, k) == Max({0} \cup {i \in DOMAIN s : s[i].kind = k})

-----------------------------------------------------------------------------
(* One record, as each family reads it *)

\* A record without a time is read; one that does not parse is not.
ClaudeTurnRecord(r) == [timed |-> r.when # 0, starts |-> r.kind = "turn", ok |-> r.kind # "bad"]
CodexTurnRecord(r) == ClaudeTurnRecord(r)
\* Every event of Grok has a time.
GrokTurnRecord(r) == [timed |-> TRUE, starts |-> r.kind = "turn",
                      ok |-> r.kind # "bad" /\ r.when # 0]

TurnRecord(r) ==
    CASE logOf = "claude" -> ClaudeTurnRecord(r)
      [] logOf = "codex" -> CodexTurnRecord(r)
      [] OTHER -> GrokTurnRecord(r)

\* The first of the records that is a turn or cannot be read decides.
FirstTurn(s) ==
    LET told == {i \in DOMAIN s : ~TurnRecord(s[i]).ok \/ TurnRecord(s[i]).starts}
    IN IF told = {} THEN "quiet" ELSE IF TurnRecord(s[Min(told)]).ok THEN "turn" ELSE "unread"

-----------------------------------------------------------------------------
(* recordTurnSince: Claude Code, Codex and Grok *)

\* The first record of a window that does not begin at the start of the file is partial.
Window(s, w) == IF Len(s) > w THEN SubSeq(s, Len(s) - w + 2, Len(s)) ELSE s

MarkOf(s) ==
    Max({0} \cup {i \in DOMAIN s : /\ TurnRecord(s[i]).ok /\ TurnRecord(s[i]).timed
                                   /\ s[i].when <= ReadyAt})

TimeGoesBack(s) ==
    \E i, j \in DOMAIN s : /\ i < j /\ s[j].when < s[i].when
                           /\ TurnRecord(s[i]).ok /\ TurnRecord(s[j]).ok

RecordTurnRead(s, part, ordered) ==
    LET fit == {w \in RecordWindows : Len(s) <= w \/ MarkOf(Window(s, w)) > 0}
        win == Window(s, Min(fit))
    IN IF part \/ fit = {} THEN "unread"
       ELSE IF ordered /\ TimeGoesBack(win) THEN "unread"
       ELSE FirstTurn(SubSeq(win, MarkOf(win) + 1, Len(win)))

ClaudeTurnSince(s, part) == RecordTurnRead(s, part, FALSE)
CodexTurnSince(s, part) == RecordTurnRead(s, part, FALSE)
GrokTurnSince(s, part) == RecordTurnRead(s, part, TRUE)

-----------------------------------------------------------------------------
(* The families with a scan of their own *)

\* The steps after the one that is the session's ready call.
AgyTurnSince(s, part) ==
    LET call == LastRecord(s, "ready")
    IN IF part \/ call = 0 \/ \E i \in 1 .. call : s[i].kind = "bad" THEN "unread"
       ELSE FirstTurn(SubSeq(s, call + 1, Len(s)))

\* Back to a message at or before the report, page by page; the times must not go back.
OpenCodeTurnSince(s) ==
    LET win == SubSeq(s, IF Len(s) > ScanBound THEN Len(s) - ScanBound + 1 ELSE 1, Len(s))
        seen == SubSeq(win, MarkOf(win) + 1, Len(win))
    IN IF \/ \E i \in DOMAIN win : ~TurnRecord(win[i]).ok
          \/ TimeGoesBack(win)
          \/ MarkOf(win) = 0 /\ Len(win) < Len(s) THEN "unread"
       ELSE FirstTurn(seen)

\* The events from the newest back to the one where the visit stops; 0: the log's start,
\* -1: the pages ended before either.
DeepSeekHistory(s, stops) ==
    LET at == Max({0} \cup stops)
    IN IF Len(s) > ScanBound /\ at + ScanBound <= Len(s) THEN 0 - 1 ELSE at

DeepSeekTurnSince(s) ==
    LET unread == {i \in DOMAIN s : \/ s[i].when = 0 \/ s[i].kind = "bad"
                                    \/ i < Len(s) /\ s[i].when > s[i + 1].when}
        turns == {i \in DOMAIN s : s[i].kind = "turn"}
        at == DeepSeekHistory(s, unread \cup turns)
        ends == {j \in DOMAIN s : s[j].kind = "end" /\ (at < 0 \/ j > at)}
    IN IF at < 0 THEN "unread"
       ELSE IF at = 0 THEN "quiet"
       ELSE IF at \in unread THEN "unread"
       ELSE IF s[at].when > ReadyAt THEN "turn"
       ELSE IF ends # {} /\ s[Min(ends)].when <= ReadyAt THEN "unread" ELSE "quiet"

\* The newest turn is closed and no compaction runs, read back to that turn's start.
DeepSeekQuiet(s) ==
    LET over(i) == \E j \in DOMAIN s : /\ j > i /\ s[j].kind = "cend"
                                       /\ \A k \in (i + 1) .. (j - 1) : s[k].kind # "cstart"
        runs == {i \in DOMAIN s : s[i].kind = "cstart" /\ ~over(i)}
        at == DeepSeekHistory(s, runs \cup {i \in DOMAIN s : s[i].kind = "turn"})
    IN IF at < 0 \/ \E i \in DOMAIN s : s[i].kind = "bad" THEN "unread"
       ELSE IF at = 0 THEN "quiet"
       ELSE IF at \in runs THEN "compaction_running"
       ELSE IF LastRecord(s, "end") < at THEN "turn_open" ELSE "quiet"

\* The newest turn of a rollout ended; a tail with endings only is ended as well.
CodexTurnEndedIn(s) ==
    LET win == Window(s, ScanBound)
    IN LastRecord(win, "end") > LastRecord(win, "turn")

\* A compaction is entered only on the file and size of its caught-up reading.
CodexRolloutUnchanged(s, part) == IF CodexTurnEndedIn(s) THEN "quiet" ELSE "turn_not_ended"

\* The transcript and the meta file of a subagent: running ones are left to the successor.
ClaudeSubagentsSince(a) ==
    IF a.meta = "none" THEN IF a.changed > ReadyAt THEN "turn" ELSE "quiet"
    ELSE IF Max({a.changed, a.metaChanged}) <= ReadyAt THEN "quiet"
    ELSE IF a.meta = "bad" THEN "unread"
    ELSE IF a.meta = "finished" THEN "turn" ELSE "quiet"

-----------------------------------------------------------------------------
(* A read *)

Goals ==
    {"turns"} \cup (IF logOf \in {"codex", "deepseek"} THEN {"idle"} ELSE {})
              \cup (IF logOf = "claude" THEN {"subagents"} ELSE {})

NoScan == [goal |-> "", end |-> <<0, FALSE>>, reads |-> 0, answer |-> "", at |-> 0]

Seen(s, part) ==
    CASE scan.goal = "subagents" -> ClaudeSubagentsSince(subagent)
      [] scan.goal = "idle" /\ logOf = "codex" -> CodexRolloutUnchanged(s, part)
      [] scan.goal = "idle" /\ logOf = "deepseek" -> DeepSeekQuiet(s)
      [] scan.goal = "turns" /\ logOf = "claude" -> ClaudeTurnSince(s, part)
      [] scan.goal = "turns" /\ logOf = "codex" -> CodexTurnSince(s, part)
      [] scan.goal = "turns" /\ logOf = "agy" -> AgyTurnSince(s, part)
      [] scan.goal = "turns" /\ logOf = "grok" -> GrokTurnSince(s, part)
      [] scan.goal = "turns" /\ logOf = "opencode" -> OpenCodeTurnSince(s)
      [] scan.goal = "turns" /\ logOf = "deepseek" -> DeepSeekTurnSince(s)

\* Mutant of LogUnchanged: the end of the log is not compared again.
LogUnchangedUnread == TRUE

\* The file's size, the newest message or the log's last sequence is still the one that the
\* read began with.
LogUnchanged == SizeOfLog = scan.end

ReadsAgain == logOf \in {"claude", "codex", "grok"} /\ scan.reads < RecordReads

BeginRead(goal) ==
    /\ scan.goal = "" /\ goal \in Goals
    /\ scan' = [goal |-> goal, end |-> SizeOfLog, reads |-> 1, answer |-> "", at |-> 0]
    /\ UNCHANGED <<logOf, written, partial, subagent>>

\* recordTurnReads: a log that grew during a quiet read is read again; the other families
\* give up.
ReadAgain ==
    /\ scan.goal = "turns" /\ scan.answer = ""
    /\ ~LogUnchanged /\ ReadsAgain
    /\ Seen(SubSeq(written, 1, scan.end[1]), scan.end[2]) = "quiet"
    /\ scan' = [scan EXCEPT !.end = SizeOfLog, !.reads = @ + 1]
    /\ UNCHANGED <<logOf, written, partial, subagent>>

EndRead ==
    LET seen == Seen(SubSeq(written, 1, scan.end[1]), scan.end[2])
        grew == ~LogUnchanged /\ scan.goal # "subagents"
    IN /\ scan.goal # "" /\ scan.answer = ""
       /\ ~(grew /\ seen = "quiet" /\ ReadsAgain /\ scan.goal = "turns")
       /\ scan' = [scan EXCEPT !.answer = IF seen = "quiet" /\ grew THEN "unread" ELSE seen,
                               !.at = Len(written)]
       /\ UNCHANGED <<logOf, written, partial, subagent>>

-----------------------------------------------------------------------------
(* The agent program *)

Files == logOf \in {"claude", "codex", "agy", "grok"}

\* A compaction runs between turns; turns and their ends come in order.
Writable(k) ==
    CASE k \in {"turn", "cstart"} -> LastRecord(written, "cend") >= LastRecord(written, "cstart")
                                     /\ (k = "cstart" => logOf = "deepseek")
      [] k = "cend" -> LastRecord(written, "cstart") > LastRecord(written, "cend")
      [] k = "end" -> logOf \in {"codex", "deepseek"} /\ LastRecord(written, "turn") > LastRecord(written, "end")
      [] OTHER -> TRUE

\* The times that a record may carry: a turn began after the report; any other record may
\* have no time, and in Grok's and DeepSeek's logs an earlier one.  Grok's order check sees
\* the records of the window only: its log ends there once a time went back.
Times(k) ==
    LET last == Max({NewestWhen(written), IF LastRecord(written, "turn") > 2 THEN ReadyAt + 1 ELSE 0})
        now == {last, last + 1}
    IN CASE logOf = "agy" -> {0}
         [] logOf # "agy" /\ k = "turn" ->
              {t \in now : t > ReadyAt} \cup (IF Files /\ logOf # "grok" THEN {0} ELSE {})
         [] OTHER -> now \cup {0} \cup (IF logOf \in {"grok", "deepseek"} THEN {1} ELSE {})

InWindow(when) ==
    (logOf = "grok" /\ (when \in {1} \/ TimeGoesBack(written))) => Len(written) < Min(RecordWindows)

AppendRecord(k, when) ==
    /\ scan.answer = "" /\ scan.goal # "subagents" /\ Len(written) < MaxLog
    /\ Writable(k) /\ when \in Times(k) /\ InWindow(when)
    /\ written' = Append(written, [kind |-> k, when |-> when])
    /\ partial' = FALSE
    /\ UNCHANGED <<logOf, subagent, scan>>

AppendPart ==
    /\ scan.answer = "" /\ scan.goal # "subagents" /\ Files /\ ~partial /\ Len(written) < MaxLog
    /\ partial' = TRUE
    /\ UNCHANGED <<logOf, written, subagent, scan>>

\* The files of a subagent are none of the log's: they change while they are looked for.
\* The subagent works, has its meta file written, and ends.
SubagentStep ==
    /\ scan.goal = "subagents" /\ scan.answer = ""
    /\ \E s \in [changed : {1, 3}, meta : {"none", "running", "bad", "finished"},
                 metaChanged : {1, 3}] :
          /\ s # subagent /\ s.changed >= subagent.changed
          /\ s.metaChanged >= subagent.metaChanged
          /\ subagent.meta # "none" => s.meta \in {subagent.meta, "bad", "finished"}
          /\ subagent.meta = "finished" => s.meta = "finished"
          /\ s.meta # subagent.meta => s.metaChanged = 3
          /\ s.meta = "none" => s.metaChanged = 1
          /\ subagent' = s
    /\ UNCHANGED <<logOf, written, partial, scan>>

TranscriptInit ==
    /\ logOf \in LogFamilies
    /\ written = << [kind |-> "turn", when |-> 1], [kind |-> "ready", when |-> ReadyAt] >>
    /\ partial = FALSE
    /\ subagent = [changed |-> 1, meta |-> "none", metaChanged |-> 1]
    /\ scan = NoScan

TranscriptNext ==
    \/ \E g \in Goals : BeginRead(g)
    \/ ReadAgain
    \/ EndRead
    \/ \E k \in {"turn", "other", "bad", "end", "cstart", "cend"} :
          \E when \in Times(k) : AppendRecord(k, when)
    \/ AppendPart
    \/ SubagentStep

TranscriptSpec == TranscriptInit /\ [][TranscriptNext]_logVars

-----------------------------------------------------------------------------
(* Properties *)

(* A quiet answer is true of the log at the moment it is given: no turn of *)
(* the session began after its ready report, whatever the agent program    *)
(* wrote while the log was read; for the idle question of Codex and        *)
(* DeepSeek the newest turn ended and no compaction runs; and for Claude   *)
(* Code's subagents none of them finished after the report.                *)
QuietIsTrue ==
    scan.answer = "quiet" =>
        CASE scan.goal = "turns" -> \A i \in 3 .. scan.at : written[i].kind # "turn"
          [] scan.goal = "idle" -> /\ LastRecord(written, "end") > LastRecord(written, "turn")
                                   /\ LastRecord(written, "cend") >= LastRecord(written, "cstart")
          [] scan.goal = "subagents" -> ~(subagent.meta = "finished" /\ subagent.metaChanged > ReadyAt)
=============================================================================
