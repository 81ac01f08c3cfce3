------------------------------- MODULE Notices -------------------------------
(***************************************************************************)
(* The wake adapters (internal/core/wake_providers.go, wake_codex.go,      *)
(* wake_grok.go, wake_deepseek.go): how one notice of the wake worker is   *)
(* given to a running agent, and the verdict the worker records.  The      *)
(* verdict decides what follows: "waiting" is no notice and is tried       *)
(* again, "notified" and "uncertain" count against the notice limit.       *)
(*                                                                         *)
(* While an attempt runs, the user types, submits, erases and clears, the  *)
(* pane changes its foreground program, and the agent starts servers.      *)
(* Time, for Codex's thread proof only, is counted in seconds.             *)
(***************************************************************************)
EXTENDS Naturals

CONSTANTS
    NoticeFamilies,     \* subset of {"claude", "codex", "deepseek", "grok", "opencode"}
    MaxNotices,         \* bound: attempts
    MaxWakeTime,        \* bound: seconds
    MaxHostActs         \* bound: what the user and the host do

\* rolloutMargin and startUncertainty, in seconds.
RolloutMargin == 2
StartUncertainty == 1

ASSUME NoticesAssumption ==
    /\ NoticeFamilies \subseteq {"claude", "codex", "deepseek", "grok", "opencode"}
    /\ MaxNotices \in Nat /\ MaxWakeTime \in Nat /\ MaxHostActs \in Nat

VARIABLES
    target,     \* the session: family, and what its row and wake target record
    host,       \* the agent's process, pane, input line and visible thread
    times,      \* the clock, and what Codex's thread proof reads
    attempt,    \* the attempt under way: step, verdict, prompts seen before typing
    reached,    \* history: this attempt's notice was submitted to the agent
    hidden,     \* history: a turn ran in a thread that the host no longer shows
    race,       \* history: a clear came between the thread check and the queue command
    hostActs    \* count against the bound

noticeVars == <<target, host, times, attempt, reached, hidden, race, hostActs>>

Codex == target.family = "codex"

NoticeStep(s) == attempt' = [attempt EXCEPT !.step = s]
Verdict(v) == attempt' = [attempt EXCEPT !.step = "done", !.verdict = v]
At(s) == attempt.step = s

\* Nothing outside the attempt changes.
Quietly == UNCHANGED <<target, host, times, reached, hidden, race, hostActs>>

-----------------------------------------------------------------------------
(* Codex's thread proof *)

Later(a, b) == IF a > b THEN a ELSE b

\* The holder's latest proof: registration, tool call, or rollout event less the margin.
CodexProof ==
    Later(times.call, IF times.event > RolloutMargin THEN times.event - RolloutMargin ELSE 0)

\* A koinon mcp server under the host that may have started after the proof.
ServerMayBeNewer == times.server + StartUncertainty >= CodexProof

\* Mutant of CodexThreadUnproven: the recorded host is taken for the proof of its thread.
CodexThreadOfHost == target.holds /\ ~host.recorded

CodexThreadUnproven ==
    /\ target.holds
    /\ ~host.recorded \/ ServerMayBeNewer

-----------------------------------------------------------------------------
(* What a look at the pane shows *)

\* codexForeground, provePane: the pane holds the recorded host, which reads its input.
CodexForeground == host.recorded /\ host.front
ProvenPane == host.recorded

HolderProven == IF Codex THEN CodexForeground ELSE ProvenPane

CodexIdle == host.front /\ host.line = "empty" /\ ~host.running
GrokIdle == host.front /\ host.line = "empty" /\ ~host.running
PaneIdle == IF Codex THEN CodexIdle ELSE GrokIdle

\* codexSubmitted: the latest prompt is the notice; when it was before typing too, a new one.
CodexSubmitted ==
    /\ host.front /\ host.line = "empty" /\ host.lastIsNotice
    /\ attempt.lastBefore => host.prompts > attempt.before

\* grokSubmitted: any prompt of this text in view.
GrokSubmitted == host.front /\ host.line = "empty" /\ host.prompts > 0
PaneSubmitted == IF Codex THEN CodexSubmitted ELSE GrokSubmitted

-----------------------------------------------------------------------------
(* providerWake *)

NoAttempt == [step |-> "done", verdict |-> "none", before |-> 0, lastBefore |-> FALSE]

FirstStep(f) ==
    CASE f = "codex" -> "activity"
      [] f = "claude" -> "registry"
      [] f = "deepseek" -> "destination"
      [] f = "opencode" -> "status"
      [] f = "grok" -> "prove"

\* Text of an earlier attempt that is still in the line is no longer this attempt's.
Aged(line) ==
    CASE line = "notice" -> "stale" [] line = "mixed" -> "user" [] OTHER -> line

ProviderWake ==
    /\ At("done") /\ times.attempts < MaxNotices
    /\ attempt' = [NoAttempt EXCEPT !.step = FirstStep(target.family)]
    /\ times' = [times EXCEPT !.attempts = @ + 1]
    /\ host' = [host EXCEPT !.line = Aged(@)]
    /\ reached' = FALSE
    /\ UNCHANGED <<target, hidden, race, hostActs>>

\* A busy Codex waits.  A participant's notice to a launched session with a pane is typed,
\* and then only at an observed idle; the others go to the queue.
CodexActivity ==
    /\ At("activity")
    /\ \E view \in {"busy", "idle", "unknown"} :
        LET typed == target.launched /\ target.paned /\ target.inbox = "participant"
        IN IF view = "busy" \/ (typed /\ view # "idle") THEN Verdict("waiting")
           ELSE NoticeStep(IF typed THEN "prove" ELSE IF target.launched THEN "thread" ELSE "queue")
    /\ Quietly

CodexThread ==
    /\ At("thread")
    /\ IF CodexThreadUnproven THEN Verdict("waiting") ELSE NoticeStep("queue")
    /\ Quietly

\* `codex queue`: its launch row or program may be missing; a non-zero exit took nothing,
\* and a timeout, a late drain or a signal may have queued the notice.
CodexQueueVerdict(answer) ==
    CASE answer = "exit0" -> "notified"
      [] answer \in {"not_started", "failed"} -> "waiting"
      [] OTHER -> "uncertain"

CodexQueueTakes(answer) ==
    CASE answer = "exit0" -> {TRUE}
      [] answer \in {"not_started", "failed"} -> {FALSE}
      [] OTHER -> BOOLEAN

CodexQueue ==
    /\ At("queue")
    /\ \E answer \in {"exit0", "not_started", "failed", "timeout", "drain", "signal"},
          took \in BOOLEAN :
        /\ took \in CodexQueueTakes(answer)
        /\ Verdict(CodexQueueVerdict(answer))
        /\ reached' = took
        /\ hidden' = (hidden \/ (took /\ target.launched /\ target.holds /\ host.shown = "other"))
        \* The turn's events, in whichever thread, are the session's.
        /\ times' = IF took THEN [times EXCEPT !.event = times.now] ELSE times
    /\ UNCHANGED <<target, host, race, hostActs>>

-----------------------------------------------------------------------------
(* wakeCodexPane and wakeGrok *)

\* A tmux that does not run leaves the pane unproven or unread.
ProvePane ==
    /\ At("prove")
    /\ \/ HolderProven /\ NoticeStep("look")
       \/ Verdict("waiting")
    /\ Quietly

LookIdle ==
    /\ At("look")
    /\ \/ PaneIdle /\ attempt' = [attempt EXCEPT !.step = "type", !.before = host.prompts,
                                                 !.lastBefore = host.lastIsNotice]
       \/ Verdict("waiting")
    /\ Quietly

\* The notice as literal keys: another program in the foreground takes them instead.
WithNotice(line) == IF line = "empty" THEN "notice" ELSE "mixed"
TypeNotice ==
    /\ At("type")
    /\ \E failed, typed \in BOOLEAN :
        /\ failed \/ typed
        /\ host' = IF typed /\ host.front THEN [host EXCEPT !.line = WithNotice(@)] ELSE host
        /\ IF failed THEN Verdict("uncertain") ELSE NoticeStep(IF Codex THEN "readback" ELSE "enter")
    /\ UNCHANGED <<target, times, reached, hidden, race, hostActs>>

ReadBack ==
    /\ At("readback")
    /\ \/ host.front /\ host.line = "notice" /\ CodexForeground /\ NoticeStep("enter")
       \/ Verdict("uncertain")
    /\ Quietly

\* A line that is submitted becomes the last prompt in view.
Submitted(h) ==
    LET notice == h.line \in {"notice", "stale"}
    IN [h EXCEPT !.line = "empty", !.running = TRUE, !.lastIsNotice = notice,
                 !.prompts = IF notice /\ @ < MaxNotices THEN @ + 1 ELSE @]
Ours(line) == line \in {"notice", "mixed"}

EnterNotice ==
    /\ At("enter")
    /\ \E failed, pressed \in BOOLEAN :
        LET submits == pressed /\ host.front /\ host.line # "empty"
        IN /\ failed \/ pressed
           /\ host' = IF submits THEN Submitted(host) ELSE host
           /\ reached' = (reached \/ (submits /\ Ours(host.line)))
           /\ IF failed THEN Verdict("uncertain") ELSE NoticeStep("confirm")
    /\ UNCHANGED <<target, times, hidden, race, hostActs>>

Confirm ==
    /\ At("confirm")
    /\ \/ PaneSubmitted /\ Verdict("notified")
       \/ Verdict("uncertain")
    /\ Quietly

-----------------------------------------------------------------------------
(* wakeClaude, wakeOpenCode, wakeDeepSeek *)

\* The registry entry is the session's while it names the session or the recorded process.
ClaudeRegistry ==
    /\ At("registry")
    /\ \E status \in {"unreadable", "idle", "shell", "busy", "waiting", "other"} :
        IF /\ host.recorded \* sameHost, when a clear changed the entry's session
           /\ status \in {"idle", "shell", "busy"}
        THEN NoticeStep("connect") ELSE Verdict("waiting")
    /\ Quietly

\* The peer's process, the reply endpoint and the credential come before the first write.
ClaudeConnect ==
    /\ At("connect")
    /\ \/ host.recorded /\ NoticeStep("frame")
       \/ Verdict("waiting")
    /\ Quietly

\* The transport has no acknowledgement, so a written frame is uncertain as well.
ClaudeFrame ==
    /\ At("frame")
    /\ Verdict("uncertain")
    /\ reached' \in (IF host.recorded THEN BOOLEAN ELSE {FALSE})
    /\ UNCHANGED <<target, host, times, hidden, race, hostActs>>

OpenCodeStatus ==
    /\ At("status")
    /\ \E status \in {"no_target", "unknown", "busy", "idle"} :
        IF status = "idle" THEN NoticeStep("post") ELSE Verdict("waiting")
    /\ Quietly

DeepSeekDestination ==
    /\ At("destination")
    /\ \/ NoticeStep("post")
       \/ Verdict("waiting")   \* an origin that is not loopback, no credential
    /\ Quietly

\* A failed dial sent nothing; any other transport error may have sent the request.
SubmissionError(answer) == IF answer = "dial" THEN "waiting" ELSE "uncertain"

PostVerdict(answer) ==
    CASE answer = "accepted" -> "notified"
      [] answer \in {"busy", "auth", "refused"} -> "waiting"
      [] answer \in {"dial", "reset"} -> SubmissionError(answer)
      [] answer = "unclear" -> "uncertain"

\* The services: what an answer says of the prompt.
PostTakes(answer) ==
    CASE answer = "accepted" -> {TRUE}
      [] answer \in {"busy", "auth", "refused", "dial"} -> {FALSE}
      [] answer \in {"reset", "unclear"} -> BOOLEAN

\* "refused": ok or accepted is false in DeepSeek's answer; OpenCode has no such answer.
PostAnswers ==
    {"accepted", "busy", "auth", "dial", "reset", "unclear"}
      \cup (IF target.family = "deepseek" THEN {"refused"} ELSE {})

PostNotice ==
    /\ At("post")
    /\ \E answer \in PostAnswers :
        /\ Verdict(PostVerdict(answer))
        /\ reached' \in PostTakes(answer)
    /\ UNCHANGED <<target, host, times, hidden, race, hostActs>>

-----------------------------------------------------------------------------
(* The user, the host and time *)

HostAct ==
    /\ hostActs < MaxHostActs
    /\ hostActs' = hostActs + 1
    /\ UNCHANGED <<target, attempt>>

InPane == target.family \in {"codex", "grok"} /\ host.front

HostUserTypes ==
    /\ HostAct /\ InPane
    /\ host' = [host EXCEPT !.line = IF @ = "notice" THEN "mixed" ELSE IF @ = "mixed" THEN @ ELSE "user"]
    /\ UNCHANGED <<times, reached, hidden, race>>

UserErases ==
    /\ HostAct /\ InPane /\ host.line # "empty"
    /\ host' = [host EXCEPT !.line = "empty"]
    /\ UNCHANGED <<times, reached, hidden, race>>

UserSubmits ==
    /\ HostAct /\ InPane /\ host.line # "empty"
    /\ host' = Submitted(host)
    /\ reached' = (reached \/ Ours(host.line))
    /\ UNCHANGED <<times, hidden, race>>

\* Output moves a prompt out of view.
Scrolls ==
    /\ HostAct /\ InPane /\ host.prompts > 0
    /\ host' = [host EXCEPT !.prompts = @ - 1, !.lastIsNotice = @ /\ host.prompts > 1]
    /\ UNCHANGED <<times, reached, hidden, race>>

TurnEnds ==
    /\ HostAct /\ host.running
    /\ host' = [host EXCEPT !.running = FALSE]
    /\ UNCHANGED <<times, reached, hidden, race>>

FrontChanges ==
    /\ HostAct /\ target.family \in {"codex", "grok"}
    /\ host' = [host EXCEPT !.front = ~@]
    /\ UNCHANGED <<times, reached, hidden, race>>

HostReplaced ==
    /\ HostAct /\ host.recorded
    /\ host' = [host EXCEPT !.recorded = FALSE]
    /\ UNCHANGED <<times, reached, hidden, race>>

\* A tool call or a rollout event of the visible holder.
HolderWorks ==
    /\ HostAct /\ Codex /\ host.shown = "holder"
    /\ \/ times' = [times EXCEPT !.call = times.now]
       \/ times' = [times EXCEPT !.event = times.now]
    /\ UNCHANGED <<host, reached, hidden, race>>

\* A read start time may lie a second before the start.
ServerStart == {times.now, times.now - 1}

\* A sub-agent's server starts in the same way as the one of a new thread.
SubAgent ==
    /\ HostAct /\ Codex
    /\ \E start \in ServerStart : times' = [times EXCEPT !.server = start]
    /\ UNCHANGED <<host, reached, hidden, race>>

\* /clear: a new thread is shown and its server starts; the end of the turn that it ends
\* is recorded at most RolloutMargin later.
Clear ==
    /\ HostAct /\ Codex /\ host.shown = "holder"
    /\ host' = [host EXCEPT !.shown = "other", !.line = "empty", !.running = FALSE,
                            !.prompts = 0, !.lastIsNotice = FALSE]
    /\ \E start \in ServerStart, end \in {times.event} \cup (times.now..(times.now + RolloutMargin)) :
        times' = [times EXCEPT !.server = start, !.event = end]
    /\ race' = (race \/ At("queue"))
    /\ UNCHANGED <<reached, hidden>>

\* The new thread's first turn moves the participant (host_cleared).
NewThreadTurn ==
    /\ hostActs < MaxHostActs /\ hostActs' = hostActs + 1
    /\ Codex /\ host.shown = "other" /\ target.holds
    /\ target' = [target EXCEPT !.holds = FALSE]
    /\ UNCHANGED <<host, times, attempt, reached, hidden, race>>

WakeTime ==
    /\ Codex /\ times.now < MaxWakeTime
    /\ times' = [times EXCEPT !.now = @ + 1]
    /\ UNCHANGED <<target, host, attempt, reached, hidden, race, hostActs>>

-----------------------------------------------------------------------------
Targets ==
    {t \in [family : NoticeFamilies, launched : BOOLEAN, paned : BOOLEAN,
            inbox : {"participant", "session"}, holds : BOOLEAN] :
        /\ t.inbox = "participant" => t.holds
        /\ t.family # "codex" => ~t.launched /\ ~t.paned /\ t.inbox = "participant"
        /\ t.paned => t.launched}

NoticesInit ==
    /\ target \in Targets
    /\ host = [recorded |-> TRUE, front |-> TRUE, line |-> "empty", running |-> FALSE,
               prompts |-> 0, lastIsNotice |-> FALSE, shown |-> "holder"]
    \* The session's own server started before its registration, its first proof.
    /\ times = [now |-> 2, call |-> 2, event |-> 0, server |-> 0, attempts |-> 0]
    /\ attempt = NoAttempt
    /\ reached = FALSE /\ hidden = FALSE /\ race = FALSE /\ hostActs = 0

NoticesNext ==
    \/ ProviderWake \/ CodexActivity \/ CodexThread \/ CodexQueue
    \/ ProvePane \/ LookIdle \/ TypeNotice \/ ReadBack \/ EnterNotice \/ Confirm
    \/ ClaudeRegistry \/ ClaudeConnect \/ ClaudeFrame
    \/ OpenCodeStatus \/ DeepSeekDestination \/ PostNotice
    \/ HostUserTypes \/ UserErases \/ UserSubmits \/ Scrolls \/ TurnEnds \/ FrontChanges
    \/ HostReplaced \/ HolderWorks \/ SubAgent \/ Clear \/ NewThreadTurn \/ WakeTime

NoticesSpec == NoticesInit /\ [][NoticesNext]_noticeVars

-----------------------------------------------------------------------------
\* A verdict tells the truth about the notice: "waiting", which is tried again without
\* counting, is never given to a notice that reached the agent, and "notified" never to one
\* that did not, whatever the user and the pane did meanwhile.  (wakeResult; Grok's check
\* accepts an earlier prompt of the same text and promises less.)
VerdictHonest ==
    attempt.step = "done" =>
        /\ attempt.verdict = "waiting" => ~reached
        /\ attempt.verdict = "notified" /\ target.family # "grok" => reached

\* `codex queue` never runs a participant's notice in a thread that the host had stopped
\* showing before codexThreadUnproven looked: only a clear after that look gets past it.
HiddenOnlyByRace == hidden => race

\* What the worker learns of a notice, and where a queued one may run (wakeCodex).
NoticesSound == VerdictHonest /\ HiddenOnlyByRace
=============================================================================
