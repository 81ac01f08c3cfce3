------------------------------ MODULE MCCycles ------------------------------
(***************************************************************************)
(* Context cycles and their controller, and the moves of sessions between  *)
(* participants. Each part runs by itself from each of its initial states, *)
(* with the other at rest. The actions that are scheduled fairly are       *)
(* disabled in the initial states of their part, so the fairness of a part *)
(* at rest asks for nothing.                                               *)
(***************************************************************************)
EXTENDS MCParticipants, Cycle

VARIABLE part   \* the part that takes steps; the others stay as they start

Parts == {"moves", "cycle"}
partVars == <<part, vars, cycleVars>>

\* A second cycle for a session without a host record; a second Enable for compactions;
\* one more event for a session that the controller creates; the user's input at panes.
EventBounds == [k \in CycleKind |-> IF k = "session" THEN 10 ELSE 9]
EnableBounds == [k \in CycleKind |-> IF k = "compact" THEN 2 ELSE 1]
CycleBounds == [k \in CycleKind |-> IF k = "hostless" THEN 2 ELSE 1]
StrayBounds == [k \in CycleKind |-> IF k \in {"pane", "compact"} THEN 1 ELSE 0]

Alone(p) ==
    /\ part = p /\ UNCHANGED part
    /\ IF p = "moves" THEN TRUE ELSE UNCHANGED vars
    /\ IF p = "cycle" THEN TRUE ELSE UNCHANGED cycleVars

PartsInit ==
    /\ part \in Parts
    /\ Init
    /\ CycleInit
    /\ part # "cycle" => kind = "pane"

PartsNext ==
    \/ Alone("moves") /\ Next
    \/ Alone("cycle") /\ CycleNext

PartsSpec == PartsInit /\ [][PartsNext]_partVars /\ CycleFairness /\ RenewFairness
=============================================================================
