------------------------------ MODULE MCAgents ------------------------------
(***************************************************************************)
(* What the daemon does about its agents: work items with their credits,   *)
(* the pass that tells them of changes of work, the purge of sessions, the *)
(* adapters that give a notice to an agent program, the keys that they     *)
(* type into a pane, and the transcripts and context readings of the       *)
(* programs. Each part runs by itself from each of its initial states,     *)
(* with the others at rest.                                                *)
(***************************************************************************)
EXTENDS MCWork, WorkNotices, Purge, Notices, Keys, Transcript, Readings

VARIABLE part   \* the part that takes steps; the others stay as they start

Parts == {"work", "changes", "purge", "notices", "keys", "transcript", "readings"}
partVars == <<part, vars, noticesOfWorkVars, purgeVars, noticeVars, keyVars, logVars, readingVars>>

Alone(p) ==
    /\ part = p /\ UNCHANGED part
    /\ IF p = "work" THEN TRUE ELSE UNCHANGED vars
    /\ IF p = "changes" THEN TRUE ELSE UNCHANGED noticesOfWorkVars
    /\ IF p = "purge" THEN TRUE ELSE UNCHANGED purgeVars
    /\ IF p = "notices" THEN TRUE ELSE UNCHANGED noticeVars
    /\ IF p = "keys" THEN TRUE ELSE UNCHANGED keyVars
    /\ IF p = "transcript" THEN TRUE ELSE UNCHANGED logVars
    /\ IF p = "readings" THEN TRUE ELSE UNCHANGED readingVars

PartsInit ==
    /\ part \in Parts
    /\ Init
    /\ WorkNoticesInit
    /\ PurgeInit
    /\ NoticesInit
    /\ part # "notices" => target.family = "claude" /\ target.holds
    /\ KeysInit
    /\ TranscriptInit
    /\ part # "transcript" => logOf = "grok"
    /\ ReadingsInit
    /\ part # "readings" => origin = "codex"

PartsNext ==
    \/ Alone("work") /\ Next
    \/ Alone("changes") /\ WorkNoticesNext
    \/ Alone("purge") /\ PurgeNext
    \/ Alone("notices") /\ NoticesNext
    \/ Alone("keys") /\ KeysNext
    \/ Alone("transcript") /\ TranscriptNext
    \/ Alone("readings") /\ ReadingsNext

PartsSpec == PartsInit /\ [][PartsNext]_partVars
=============================================================================
