------------------------------ MODULE MCInbox ------------------------------
(***************************************************************************)
(* One participant and two sessions without host records that register for *)
(* it.                                                                     *)
(***************************************************************************)
EXTENDS Inbox, TLC

CONSTANTS a1, l1, s1, s2

Addresses == [l \in Launch |-> a1]
Hostless == [l \in Launch |-> NoHost]
Unchosen == [l \in Launch |-> NoSession]
NoPanes == [h \in Host |-> NoPane]

\* A session start with the launch.
Starts == [s \in Session |-> {r \in Registration :
    r.launch = l1 /\ ~r.subagent /\ r.link = "none" /\ ~r.tmux /\ r.call = "start"}]

\* The sessions have the same requests.
Sessions == Permutations(Session)
=============================================================================
