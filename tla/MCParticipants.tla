--------------------------- MODULE MCParticipants ---------------------------
(***************************************************************************)
(* Small instances of Participants.  Launches l1 and l2 are of participant *)
(* a1, l3 is of participant a2; host h2 started in the pane of host h1 and *)
(* runs l2 and l3.                                                         *)
(***************************************************************************)
EXTENDS Participants

CONSTANTS s1, s2, s3, a1, a2, l1, l2, l3, h1, h2, p1

Addresses == [l \in Launch |-> IF l = l3 THEN a2 ELSE a1]
Panes == [h \in Host |-> p1]
Unchosen == [l \in Launch |-> NoSession]
Chosen == [l \in Launch |-> IF l = l1 THEN s1 ELSE NoSession]

\* Succession: a holder, a session of its host and of the host after it, and a
\* session of the other participant on that second host.
\* A start, a tool call in the pane and a cleared host without a pane; the tool
\* calls of s2 also with a cycle behind them, or without a reading of the holder's
\* host.  The other participant's session only starts.  A session whose host has
\* ended leaves no host record, as a DeepSeek session does.
Hosts == [l \in Launch |-> IF l = l1 THEN h1 ELSE h2]
LaunchesOf == [s \in Session |-> CASE s = s1 -> {l1} [] s = s2 -> {l1, l2} [] s = s3 -> {l3}]
Successions == [s \in Session |-> {r \in Registration :
    /\ r.launch \in LaunchesOf[s] /\ ~r.subagent
    /\ r.readable \in {Host, {LaunchHost[r.launch]}}
    /\ r.readable # Host => r.call = "tool" /\ s = s2
    /\ r.link # "none" => r.call = "tool" /\ s = s2 /\ r.readable = Host
    /\ r.call # "start" => s # s3
    /\ r.tmux <=> r.call # "clear"}]

\* Moves: sessions without host records that register for either participant,
\* as plain peers and as sub-agents.
Hostless == [l \in Launch |-> NoHost]
Moves == [s \in Session |-> {r \in Registration :
    /\ r.link = "none" /\ r.call = "start" /\ ~r.tmux
    /\ r.subagent => r.launch = l1 /\ s = s1}]
=============================================================================
