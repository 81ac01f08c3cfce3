---------------------------- MODULE SystemMode ----------------------------
(***************************************************************************)
(* System mode on macOS (internal/platform/system.go): the move of the     *)
(* daemon from the user's launchd agent to a LaunchDaemon, its rollback,   *)
(* the reconciliation of an existing system installation and its removal.  *)
(*                                                                         *)
(* Each privileged launchctl or file command is one step; it can fail and  *)
(* the install can be killed after any of them.  The person logs in and    *)
(* out, which makes the gui domain come and go: a login loads an enabled   *)
(* agent.  launchd is external and modelled by how its answers are used.   *)
(* Texts, staging files and the plist's fields are left out.               *)
(***************************************************************************)
EXTENDS Naturals, Sequences

CONSTANTS
    MaxTransitions,   \* bound: installs and removals
    MaxLogins         \* bound: logins and logouts

ASSUME SystemModeAssumption == MaxTransitions \in Nat /\ MaxLogins \in Nat

VARIABLES
    domain,       \* the user's gui domain exists: a desktop login
    agentSvc,     \* the user agent: its plist, loaded, disabled
    system,       \* the LaunchDaemon: its plist, loaded
    answering,       \* who answers: "none", "agent" or "system"
    move,         \* the running transition, reconciliation or removal
    transitions,  \* installs and removals so far
    logins        \* logins and logouts so far

systemVars == <<domain, agentSvc, system, answering, move, transitions, logins>>

NoMove == [op |-> "none", at |-> "end", seen |-> [loaded |-> FALSE, disabled |-> FALSE, noDomain |-> FALSE],
           undo |-> <<>>, started |-> FALSE]

MoveAt(at) == move' = [move EXCEPT !.at = at]
\* launchd: bootout ends the process, which frees the daemon lock.
Freed(who) == answering' = IF answering = who THEN "none" ELSE answering

-----------------------------------------------------------------------------
(* The commands *)

\* ReadSystem and CheckSystem: a hand-written plist of another daemon refuses the install.
SystemBegin ==
    /\ move.at = "end" /\ transitions < MaxTransitions /\ system.plist # "foreign"
    /\ transitions' = transitions + 1
    /\ move' = [NoMove EXCEPT !.op = IF system.plist = "none" THEN "first" ELSE "reconcile", !.at = "observe"]
    /\ UNCHANGED <<domain, agentSvc, system, answering, logins>>

\* observeAgent, or the domain alone for a reconciliation; stopAgent refuses a foreign agent
\* plist that would start at the next login.
ObserveAgent ==
    /\ move.at = "observe"
    /\ move' = [move EXCEPT !.seen = [loaded |-> domain /\ agentSvc.loaded, disabled |-> domain /\ agentSvc.disabled,
                                      noDomain |-> ~domain],
                            !.at = IF domain THEN "disable"
                                   ELSE IF agentSvc.plist = "foreign" THEN "fail" ELSE "stopped"]
    /\ UNCHANGED <<domain, agentSvc, system, answering, transitions, logins>>

\* stopAgent: disable, boot out, then verify both; the domain can go in between.
DisableAgent ==
    /\ move.at = "disable" /\ domain
    /\ agentSvc' = [agentSvc EXCEPT !.disabled = TRUE]
    /\ MoveAt("bootout")
    /\ UNCHANGED <<domain, system, answering, transitions, logins>>
BootoutAgent ==
    /\ move.at = "bootout" /\ domain
    /\ agentSvc' = [agentSvc EXCEPT !.loaded = FALSE] /\ Freed("agent")
    /\ MoveAt("verify")
    /\ UNCHANGED <<domain, system, transitions, logins>>
VerifyStopped ==
    /\ move.at = "verify" /\ domain
    /\ MoveAt(IF agentSvc.disabled /\ ~agentSvc.loaded THEN "stopped" ELSE "fail")
    /\ UNCHANGED <<domain, agentSvc, system, answering, transitions, logins>>

\* reconcileSystem: a changed plist needs the loaded one out first.
ReplacePlist ==
    /\ move.at = "stopped" /\ move.op = "reconcile" /\ system.plist = "stale" /\ system.loaded
    /\ system' = [system EXCEPT !.loaded = FALSE] /\ Freed("system")
    /\ UNCHANGED <<domain, agentSvc, move, transitions, logins>>
InstallPlist ==
    /\ move.at = "stopped"
    /\ move.op = "first" \/ (system.plist = "stale" /\ ~system.loaded)
    /\ system' = [system EXCEPT !.plist = "owned"]
    /\ move' = [move EXCEPT !.at = "bootstrap", !.started = TRUE]
    /\ UNCHANGED <<domain, agentSvc, answering, transitions, logins>>
PlistCurrent ==
    /\ move.at = "stopped" /\ move.op = "reconcile" /\ system.plist # "stale"
    /\ MoveAt("bootstrap")
    /\ UNCHANGED <<domain, agentSvc, system, answering, transitions, logins>>
Bootstrap ==
    /\ move.at = "bootstrap"
    /\ system' = [system EXCEPT !.loaded = TRUE]
    /\ MoveAt("kickstart")
    /\ UNCHANGED <<domain, agentSvc, answering, transitions, logins>>
Kickstart ==
    /\ move.at = "kickstart"
    /\ Freed("system")
    /\ MoveAt("owner")
    /\ UNCHANGED <<domain, agentSvc, system, transitions, logins>>
\* verifyOwner: the daemon that answers is the system service's process.
VerifyOwner ==
    /\ move.at = "owner" /\ answering = "system"
    /\ MoveAt("unplist")
    /\ UNCHANGED <<domain, agentSvc, system, answering, transitions, logins>>
RemoveAgentPlist ==
    /\ move.at = "unplist"
    /\ agentSvc' = [agentSvc EXCEPT !.plist = IF @ = "owned" THEN "none" ELSE @]
    /\ MoveAt("done")
    /\ UNCHANGED <<domain, system, answering, transitions, logins>>

\* A command fails, or a wait ends; the steps from the first install_plist on count as started.
\* A failed observation, and a failure after the owner is verified, are reported and undo nothing.
StepFails ==
    /\ move.at \in {"observe", "disable", "bootout", "verify", "stopped", "bootstrap", "kickstart", "owner"}
    /\ move' = [move EXCEPT !.at = IF move.at = "observe" THEN "failed" ELSE "fail",
                            !.started = @ \/ move.at = "stopped"]
    /\ UNCHANGED <<domain, agentSvc, system, answering, transitions, logins>>

-----------------------------------------------------------------------------
(* The rollback of a first transition *)

RollbackStepsEnabled(seen, started) ==
    (IF started THEN <<"bootout", "rm">> ELSE <<>>)
    \o (IF ~seen.noDomain THEN <<"enable">> ELSE <<>>)
    \o (IF ~seen.noDomain /\ seen.loaded THEN <<"bootstrap">> ELSE <<>>)
\* rollbackSystem: an agent that was loaded while disabled is enabled for its bootstrap only;
\* without a gui domain nothing about the agent changed.
RollbackSteps(seen, started) ==
    (IF started THEN <<"bootout", "rm">> ELSE <<>>)
    \o (IF ~seen.noDomain /\ (~seen.disabled \/ seen.loaded) THEN <<"enable">> ELSE <<>>)
    \o (IF ~seen.noDomain /\ seen.loaded THEN <<"bootstrap">> ELSE <<>>)
    \o (IF ~seen.noDomain /\ seen.loaded /\ seen.disabled THEN <<"disable">> ELSE <<>>)

RollbackBegin ==
    /\ move.at = "fail"
    /\ move' = IF move.op = "first"
               THEN [move EXCEPT !.at = "undo", !.undo = RollbackSteps(move.seen, move.started)]
               ELSE [move EXCEPT !.at = "failed"]
    /\ UNCHANGED <<domain, agentSvc, system, answering, transitions, logins>>

\* One rollback command: launchctl refuses every command on a domain that is gone, a bootstrap of
\* a loaded or disabled agent, and one without a plist; a failed command ends the rollback.
CanUndo(step) ==
    CASE step \in {"enable", "disable"} -> domain
      [] step = "bootstrap" -> domain /\ ~agentSvc.loaded /\ ~agentSvc.disabled /\ agentSvc.plist # "none"
      [] OTHER -> TRUE
RollbackStep ==
    /\ move.at = "undo" /\ move.undo # <<>>
    /\ LET step == Head(move.undo)
       IN IF CanUndo(step)
          THEN /\ move' = [move EXCEPT !.undo = Tail(@)]
               /\ system' = CASE step = "bootout" -> [system EXCEPT !.loaded = FALSE]
                              [] step = "rm" -> [system EXCEPT !.plist = "none"]
                              [] OTHER -> system
               /\ agentSvc' = CASE step = "enable" -> [agentSvc EXCEPT !.disabled = FALSE]
                                [] step = "disable" -> [agentSvc EXCEPT !.disabled = TRUE]
                                [] step = "bootstrap" -> [agentSvc EXCEPT !.loaded = TRUE]
                                [] OTHER -> agentSvc
               /\ IF step = "bootout" THEN Freed("system") ELSE UNCHANGED answering
          ELSE MoveAt("stuck") /\ UNCHANGED <<agentSvc, system, answering>>
    /\ UNCHANGED <<domain, transitions, logins>>
RollbackFails ==
    /\ move.at = "undo" /\ move.undo # <<>>
    /\ MoveAt("stuck")
    /\ UNCHANGED <<domain, agentSvc, system, answering, transitions, logins>>
RolledBack ==
    /\ move.at = "undo" /\ move.undo = <<>>
    /\ MoveAt("rolledback")
    /\ UNCHANGED <<domain, agentSvc, system, answering, transitions, logins>>

-----------------------------------------------------------------------------
(* The removal, and the world around *)

\* RemoveSystem refuses a plist that is not this user's; the service is out before the plist.
RemoveSystem ==
    /\ move.at = "end" /\ transitions < MaxTransitions /\ system.plist \in {"owned", "stale"}
    /\ transitions' = transitions + 1
    /\ system' = [system EXCEPT !.loaded = FALSE] /\ Freed("system")
    /\ move' = [NoMove EXCEPT !.op = "remove", !.at = "rm"]
    /\ UNCHANGED <<domain, agentSvc, logins>>
RemoveSystemPlist ==
    /\ move.at = "rm"
    /\ system' = [system EXCEPT !.plist = "none"]
    /\ MoveAt("end")
    /\ UNCHANGED <<domain, agentSvc, answering, transitions, logins>>

\* The command ends, or is killed where it is.
MoveEnds ==
    /\ move.at # "end"
    /\ move' = NoMove
    /\ UNCHANGED <<domain, agentSvc, system, answering, transitions, logins>>

\* A loaded service runs the daemon, which takes the free lock.
TakeLock(who) ==
    /\ answering = "none" /\ IF who = "agent" THEN agentSvc.loaded ELSE system.loaded
    /\ answering' = who
    /\ UNCHANGED <<domain, agentSvc, system, move, transitions, logins>>

LogIn ==
    /\ ~domain /\ logins < MaxLogins
    /\ domain' = TRUE /\ logins' = logins + 1
    /\ agentSvc' = [agentSvc EXCEPT !.loaded = agentSvc.plist # "none" /\ ~agentSvc.disabled]
    /\ UNCHANGED <<system, answering, move, transitions>>
LogOut ==
    /\ domain /\ logins < MaxLogins
    /\ domain' = FALSE /\ logins' = logins + 1
    /\ agentSvc' = [agentSvc EXCEPT !.loaded = FALSE] /\ Freed("agent")
    /\ UNCHANGED <<system, move, transitions>>

-----------------------------------------------------------------------------
SystemInit ==
    /\ domain \in BOOLEAN
    /\ agentSvc \in [plist : {"none", "owned", "foreign"}, loaded : BOOLEAN, disabled : BOOLEAN]
    /\ agentSvc.loaded => domain /\ agentSvc.plist # "none"
    /\ system \in [plist : {"none", "stale", "hand", "foreign"}, loaded : BOOLEAN]
    /\ system.loaded => system.plist # "none"
    /\ answering = "none" /\ move = NoMove /\ transitions = 0 /\ logins = 0

SystemNext ==
    \/ SystemBegin \/ ObserveAgent \/ DisableAgent \/ BootoutAgent \/ VerifyStopped
    \/ ReplacePlist \/ InstallPlist \/ PlistCurrent \/ Bootstrap \/ Kickstart \/ VerifyOwner
    \/ RemoveAgentPlist \/ StepFails
    \/ RollbackBegin \/ RollbackStep \/ RollbackFails \/ RolledBack
    \/ RemoveSystem \/ RemoveSystemPlist \/ MoveEnds
    \/ TakeLock("agent") \/ TakeLock("system") \/ LogIn \/ LogOut

SystemSpec == SystemInit /\ [][SystemNext]_systemVars

-----------------------------------------------------------------------------
(* Correctness *)

\* A transition that succeeds leaves no user agent that a later login would start beside the
\* system service, and one that reports its rollback left no system service and the agent as it
\* was observed: enabled or disabled, and loaded while the login session lasted (InstallSystem,
\* reconcileSystem, rollbackSystem).
TransitionHonest ==
    /\ move.at = "done" => agentSvc.plist = "none" \/ agentSvc.disabled
    /\ move.at = "rolledback" =>
         /\ system.plist = "none" /\ ~system.loaded
         /\ ~move.seen.noDomain => agentSvc.disabled = move.seen.disabled
         /\ logins = 0 /\ ~move.seen.noDomain => agentSvc.loaded = move.seen.loaded
=============================================================================
