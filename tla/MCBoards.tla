------------------------------ MODULE MCBoards ------------------------------
(***************************************************************************)
(* What a participant and the maintainer receive and read: an inbox across *)
(* a change of holder, rooms, decisions and their archive, the memory of a *)
(* project, and the logins that the dashboard accepts. Each part runs by   *)
(* itself from each of its initial states, with the others at rest.        *)
(***************************************************************************)
EXTENDS MCInbox, Rooms, Decisions, Memory, Login

VARIABLE part   \* the part that takes steps; the others stay as they start

Parts == {"inbox", "rooms", "decisions", "memory", "login"}
partVars == <<part, allVars, roomVars, boardVars, memVars, loginVars>>

Alone(p) ==
    /\ part = p /\ UNCHANGED part
    /\ IF p = "inbox" THEN TRUE ELSE UNCHANGED allVars
    /\ IF p = "rooms" THEN TRUE ELSE UNCHANGED roomVars
    /\ IF p = "decisions" THEN TRUE ELSE UNCHANGED boardVars
    /\ IF p = "memory" THEN TRUE ELSE UNCHANGED memVars
    /\ IF p = "login" THEN TRUE ELSE UNCHANGED loginVars

PartsInit ==
    /\ part \in Parts
    /\ InboxInit
    /\ RoomsInit
    /\ DecisionsInit
    /\ MemoryInit
    /\ LoginInit

PartsNext ==
    \/ Alone("inbox") /\ InboxNext
    \/ Alone("rooms") /\ RoomsNext
    \/ Alone("decisions") /\ DecisionsNext
    \/ Alone("memory") /\ MemoryNext
    \/ Alone("login") /\ LoginNext

PartsSpec == PartsInit /\ [][PartsNext]_partVars
=============================================================================
