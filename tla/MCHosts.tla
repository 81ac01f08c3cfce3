------------------------------ MODULE MCHosts ------------------------------
(***************************************************************************)
(* What happens on one machine: successions of a participant's sessions,   *)
(* the leases of agents and their launches, the setup of agent programs,   *)
(* the upgrade from Python, the installation and the system service. Each  *)
(* part runs by itself from each of its initial states, with the others at *)
(* rest.                                                                   *)
(***************************************************************************)
EXTENDS MCParticipants, MCLease, Setup, Upgrade, Install, SystemMode

VARIABLE part   \* the part that takes steps; the others stay as they start

Parts == {"participants", "lease", "setup", "upgrade", "install", "system"}
partVars == <<part, vars, leaseVars, setupVars, upgradeVars, installVars, systemVars>>

Alone(p) ==
    /\ part = p /\ UNCHANGED part
    /\ IF p = "participants" THEN TRUE ELSE UNCHANGED vars
    /\ IF p = "lease" THEN TRUE ELSE UNCHANGED leaseVars
    /\ IF p = "setup" THEN TRUE ELSE UNCHANGED setupVars
    /\ IF p = "upgrade" THEN TRUE ELSE UNCHANGED upgradeVars
    /\ IF p = "install" THEN TRUE ELSE UNCHANGED installVars
    /\ IF p = "system" THEN TRUE ELSE UNCHANGED systemVars

PartsInit ==
    /\ part \in Parts
    /\ Init
    /\ LeaseInit
    /\ part # "lease" => leaseKind = "foreground"
    /\ SetupInit
    /\ part # "setup" => agent = "codex" /\ user.status = NoEntry
    /\ UpgradeInit
    /\ InstallInit
    /\ part # "install" => manager /\ linkAt = "none"
    /\ SystemInit
    /\ part # "system" => domain /\ agentSvc.plist = "none" /\ ~agentSvc.disabled /\ system.plist = "none"

PartsNext ==
    \/ Alone("participants") /\ Next
    \/ Alone("lease") /\ LeaseNext
    \/ Alone("setup") /\ SetupNext
    \/ Alone("upgrade") /\ UpgradeNext
    \/ Alone("install") /\ InstallNext
    \/ Alone("system") /\ SystemNext

PartsSpec == PartsInit /\ [][PartsNext]_partVars
=============================================================================
