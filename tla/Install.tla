------------------------------ MODULE Install ------------------------------
(***************************************************************************)
(* koinon install and uninstall (internal/install/install.go) with the     *)
(* daemon they start (cmd/koinon/main.go serve) through the user's service *)
(* manager (internal/platform/service.go) or, where none answers, in the   *)
(* background: the installed binary, the koinon link with its marker, the  *)
(* service artifact, and the processes that serve or wait for the daemon   *)
(* lock of one state directory.                                            *)
(*                                                                         *)
(* A process keeps the build it was started from; a serving daemon whose   *)
(* executable changed exits, and the manager starts its unit again.  An    *)
(* answer to a status request may be lost.  An install may be killed at    *)
(* any step.  What it tells the person, the skill files, the dashboard's   *)
(* questions and the set-up of the agents (module Setup) are left out.     *)
(***************************************************************************)
EXTENDS Naturals, FiniteSets

CONSTANTS
    MaxDaemons,      \* bound: daemon processes ever started
    MaxInstalls,     \* bound: installs and uninstalls
    MaxLost,         \* bound: lost answers and crashes of a daemon
    MaxLinkEdits     \* bound: changes the person makes to the link

ASSUME InstallAssumption ==
    MaxDaemons \in Nat /\ MaxInstalls \in Nat /\ MaxLost \in Nat /\ MaxLinkEdits \in Nat

VARIABLES
    manager,     \* the user's service manager answers
    disk,        \* the build of the installed binary, 0 for none
    unit,        \* the service artifact is written
    daemons,     \* process -> its build, its state and whether the manager runs it
    linkAt,      \* the koinon link: "none", "created" by an install, or "other"
    marker,      \* the marker that records the link
    install,     \* the running install or uninstall
    installs,    \* installs and uninstalls so far
    lost,        \* lost answers and daemon crashes so far
    linkEdits    \* changes of the link so far

installVars == <<manager, disk, unit, daemons, linkAt, marker, install, installs, lost, linkEdits>>

Pids == 1..MaxDaemons
NoDaemon == [build |-> 0, st |-> "unborn", managed |-> FALSE]
NoInstall == [op |-> "none", at |-> "end", build |-> 0, before |-> 0, old |-> 0, started |-> 0,
              changed |-> FALSE, network |-> FALSE]

\* platform.Lock: one process holds the daemon lock, and only it answers.
Serving == {p \in Pids : daemons[p].st = "serving"}
Running(p) == daemons[p].st \in {"waiting", "serving"}
Free == {p \in Pids : daemons[p].st = "unborn"}
NextPid == CHOOSE p \in Free : \A q \in Free : p <= q
Gone(S) == [p \in Pids |-> IF p \in S /\ Running(p) THEN [daemons[p] EXCEPT !.st = "gone"] ELSE daemons[p]]
Launched(ds, managed) == [ds EXCEPT ![NextPid] = [build |-> disk, st |-> "waiting", managed |-> managed]]

\* readStatus: the answering daemon, or 0; an answer may be lost.
Status == IF Serving = {} THEN 0 ELSE CHOOSE p \in Serving : TRUE
Answers == IF lost < MaxLost THEN {Status, 0} ELSE {Status}
ReadStatus(s) == s \in Answers /\ lost' = IF s = Status THEN lost ELSE lost + 1
Current(p) == p # 0 /\ daemons[p].build = install.build

InstallAt(at) == install' = [install EXCEPT !.at = at]
Installed == InstallAt("end")
InstallFailed == InstallAt("failed")

-----------------------------------------------------------------------------
(* The install *)

InstallBegin(b, network) ==
    /\ install.at \in {"end", "failed"} /\ installs < MaxInstalls
    /\ installs' = installs + 1
    /\ \E s \in Answers :
         /\ ReadStatus(s)
         /\ install' = [NoInstall EXCEPT !.op = "install", !.at = "place", !.build = b, !.before = s,
                                         !.network = network]
    /\ UNCHANGED <<manager, disk, unit, daemons, linkAt, marker, linkEdits>>

\* place and placeLink replace the binary atomically.
Place ==
    /\ install.at = "place"
    /\ disk' = install.build
    /\ install' = [install EXCEPT !.at = "link", !.changed = disk # install.build]
    /\ UNCHANGED <<manager, unit, daemons, linkAt, marker, installs, lost, linkEdits>>

\* link: an occupied place is left alone; otherwise the marker comes first.
LinkObserve ==
    /\ install.at = "link"
    /\ InstallAt(IF linkAt = "none" THEN "marker" ELSE "unit")
    /\ UNCHANGED <<manager, disk, unit, daemons, linkAt, marker, installs, lost, linkEdits>>

WriteMarker ==
    /\ install.at = "marker"
    /\ marker' = TRUE
    /\ InstallAt("symlink")
    /\ UNCHANGED <<manager, disk, unit, daemons, linkAt, installs, lost, linkEdits>>

Symlink ==
    /\ install.at = "symlink"
    /\ IF linkAt = "none"
       THEN linkAt' = "created" /\ UNCHANGED marker /\ InstallAt("unit")
       ELSE marker' = FALSE /\ UNCHANGED linkAt /\ InstallFailed
    /\ UNCHANGED <<manager, disk, unit, daemons, installs, lost, linkEdits>>

\* startAgent: WriteDaemon, then StartDaemon restarts the unit, or no manager answers.
StartAgent ==
    /\ install.at = "unit"
    /\ unit' = TRUE
    /\ IF manager
       THEN /\ Free # {}
            /\ daemons' = Launched(Gone({p \in Pids : daemons[p].managed}), TRUE)
            /\ InstallAt("wait")
       ELSE UNCHANGED daemons /\ InstallAt("background")
    /\ UNCHANGED <<manager, disk, linkAt, marker, installs, lost, linkEdits>>

WaitForDaemon ==
    /\ install.at = "wait"
    /\ \/ Status # 0 /\ Installed
       \/ InstallFailed
    /\ UNCHANGED <<manager, disk, unit, daemons, linkAt, marker, installs, lost, linkEdits>>

\* startBackground: a daemon of this version that is not the one from before the change counts.
Counts(s) == Current(s) /\ (~install.changed \/ install.before = 0 \/ s # install.before)
StartBackground ==
    /\ install.at = "background"
    /\ \E s \in Answers :
         /\ ReadStatus(s)
         /\ \/ s = 0 /\ InstallAt("start")
            \/ s # 0 /\ install.network /\ install' = [install EXCEPT !.at = "stop", !.old = s]
            \/ s # 0 /\ ~install.network /\ Counts(s) /\ Installed
            \/ /\ s # 0 /\ ~install.network /\ ~Counts(s)
               /\ install' = [install EXCEPT !.at = "replacement",
                                             !.old = IF install.before # 0 THEN install.before ELSE s]
    /\ UNCHANGED <<manager, disk, unit, daemons, linkAt, marker, installs, linkEdits>>

\* stopDaemon signals the process and waits until none answers, or gives up.
StopDaemon ==
    /\ install.at = "stop"
    /\ daemons' = Gone({install.old})
    /\ InstallAt("stopped")
    /\ UNCHANGED <<manager, disk, unit, linkAt, marker, installs, lost, linkEdits>>

WaitStopped ==
    /\ install.at = "stopped"
    /\ \/ \E s \in Answers : s = 0 /\ ReadStatus(s) /\ InstallAt(IF install.op = "install" THEN "start" ELSE "files")
       \/ Status # 0 /\ InstallFailed /\ UNCHANGED lost
    /\ UNCHANGED <<manager, disk, unit, daemons, linkAt, marker, installs, linkEdits>>

WaitForReplacement ==
    /\ install.at = "replacement"
    /\ \E s \in Answers :
         /\ ReadStatus(s)
         /\ \/ s = 0 /\ InstallAt("start")
            \/ s # 0 /\ s # install.old /\ Current(s) /\ Installed
            \/ s # 0 /\ InstallFailed
    /\ UNCHANGED <<manager, disk, unit, daemons, linkAt, marker, installs, linkEdits>>

Background ==
    /\ install.at = "start" /\ Free # {}
    /\ daemons' = Launched(daemons, FALSE)
    /\ install' = [install EXCEPT !.at = "version", !.started = NextPid]
    /\ UNCHANGED <<manager, disk, unit, linkAt, marker, installs, lost, linkEdits>>

WaitForVersion ==
    /\ install.at = "version"
    /\ \/ Current(Status) /\ Installed
       \/ InstallAt("abort")
    /\ UNCHANGED <<manager, disk, unit, daemons, linkAt, marker, installs, lost, linkEdits>>

\* The start ends, also one that still waits for the lock, before the failure is reported.
AbortServing ==
    /\ install.at = "abort"
    /\ daemons' = Gone({install.started} \cap Serving)
    /\ InstallFailed
    /\ UNCHANGED <<manager, disk, unit, linkAt, marker, installs, lost, linkEdits>>
Abort ==
    /\ install.at = "abort"
    /\ daemons' = Gone({install.started})
    /\ InstallFailed
    /\ UNCHANGED <<manager, disk, unit, linkAt, marker, installs, lost, linkEdits>>

\* A failed step, or a killed install: it leaves what it did.
InstallStopped ==
    /\ install.at \notin {"end", "failed"}
    /\ install' = NoInstall
    /\ UNCHANGED <<manager, disk, unit, daemons, linkAt, marker, installs, lost, linkEdits>>

-----------------------------------------------------------------------------
(* The uninstall *)

UninstallBegin ==
    /\ install.at \in {"end", "failed"} /\ installs < MaxInstalls
    /\ installs' = installs + 1
    /\ install' = [NoInstall EXCEPT !.op = "uninstall", !.at = "remove"]
    /\ UNCHANGED <<manager, disk, unit, daemons, linkAt, marker, lost, linkEdits>>

\* RemoveDaemon stops the unit and removes its artifact; an absent one is a no-op.
RemoveDaemon ==
    /\ install.at = "remove"
    /\ unit' = FALSE
    /\ daemons' = IF unit /\ manager THEN Gone({p \in Pids : daemons[p].managed}) ELSE daemons
    /\ InstallAt("unmanaged")
    /\ UNCHANGED <<manager, disk, linkAt, marker, installs, lost, linkEdits>>

StopUnmanaged ==
    /\ install.at = "unmanaged"
    /\ \E s \in Answers :
         /\ ReadStatus(s)
         /\ IF s = 0 THEN InstallAt("files") ELSE install' = [install EXCEPT !.at = "stop", !.old = s]
    /\ UNCHANGED <<manager, disk, unit, daemons, linkAt, marker, installs, linkEdits>>

RemoveBinary ==
    /\ install.at = "files"
    /\ disk' = 0
    /\ InstallAt("unlink")
    /\ UNCHANGED <<manager, unit, daemons, linkAt, marker, installs, lost, linkEdits>>

\* unlink: the recorded link goes while it still points at the binary, then the marker.
Unlink ==
    /\ install.at = "unlink"
    /\ linkAt' = IF marker /\ linkAt = "created" THEN "none" ELSE linkAt
    /\ InstallAt(IF marker THEN "unmark" ELSE "end")
    /\ UNCHANGED <<manager, disk, unit, daemons, marker, installs, lost, linkEdits>>

Unmark ==
    /\ install.at = "unmark"
    /\ marker' = FALSE
    /\ InstallAt("end")
    /\ UNCHANGED <<manager, disk, unit, daemons, linkAt, installs, lost, linkEdits>>

-----------------------------------------------------------------------------
(* The daemons, the manager and the person *)

\* serve: a waiting daemon takes the free lock, or exits when its wait is over.
DaemonStarts(p) ==
    /\ daemons[p].st = "waiting" /\ Serving = {}
    /\ daemons' = [daemons EXCEPT ![p].st = "serving"]
    /\ UNCHANGED <<manager, disk, unit, linkAt, marker, install, installs, lost, linkEdits>>
DaemonGivesUp(p) ==
    /\ daemons[p].st = "waiting" /\ Serving # {}
    /\ daemons' = [daemons EXCEPT ![p].st = "gone"]
    /\ UNCHANGED <<manager, disk, unit, linkAt, marker, install, installs, lost, linkEdits>>

\* watchExecutable: a daemon whose executable changed exits; a crash ends it as well.  The
\* manager starts its unit again after either.
Restarted(ds, p) == IF daemons[p].managed /\ unit /\ manager /\ disk # 0 THEN Launched(ds, TRUE) ELSE ds
DaemonReplaced(p) ==
    /\ daemons[p].st = "serving" /\ daemons[p].build # disk /\ Free # {}
    /\ daemons' = Restarted(Gone({p}), p)
    /\ UNCHANGED <<manager, disk, unit, linkAt, marker, install, installs, lost, linkEdits>>
DaemonCrashes(p) ==
    /\ Running(p) /\ lost < MaxLost /\ Free # {}
    /\ daemons' = Restarted(Gone({p}), p)
    /\ lost' = lost + 1
    /\ UNCHANGED <<manager, disk, unit, linkAt, marker, install, installs, linkEdits>>

ManagerAnswers ==
    /\ ~manager /\ install.at \in {"end", "failed"}
    /\ manager' = TRUE
    /\ UNCHANGED <<disk, unit, daemons, linkAt, marker, install, installs, lost, linkEdits>>

EditLink(l) ==
    /\ linkEdits < MaxLinkEdits /\ l # linkAt
    /\ linkAt' = l /\ linkEdits' = linkEdits + 1
    /\ UNCHANGED <<manager, disk, unit, daemons, marker, install, installs, lost>>

-----------------------------------------------------------------------------
InstallInit ==
    /\ manager \in BOOLEAN /\ disk = 0 /\ unit = FALSE
    /\ daemons = [p \in Pids |-> NoDaemon]
    /\ linkAt \in {"none", "other"} /\ marker = FALSE
    /\ install = NoInstall /\ installs = 0 /\ lost = 0 /\ linkEdits = 0

InstallNext ==
    \/ \E b \in 1..2, network \in BOOLEAN : InstallBegin(b, network)
    \/ Place \/ LinkObserve \/ WriteMarker \/ Symlink \/ StartAgent \/ WaitForDaemon
    \/ StartBackground \/ StopDaemon \/ WaitStopped \/ WaitForReplacement
    \/ Background \/ WaitForVersion \/ Abort \/ InstallStopped
    \/ UninstallBegin \/ RemoveDaemon \/ StopUnmanaged \/ RemoveBinary \/ Unlink \/ Unmark
    \/ \E p \in Pids : DaemonStarts(p) \/ DaemonGivesUp(p) \/ DaemonReplaced(p) \/ DaemonCrashes(p)
    \/ ManagerAnswers
    \/ \E l \in {"none", "other"} : EditLink(l)

InstallSpec == InstallInit /\ [][InstallNext]_installVars

-----------------------------------------------------------------------------
(* Correctness *)

\* An install that reports a failure left no start of its own behind, not even one that waits for
\* the lock and would take the state directory later (startBackground, Abort).
NoStrayStart ==
    install.at = "failed" /\ install.started # 0 => ~Running(install.started)

\* A link that an install created is recorded, through any kill between the two writes of an
\* install or the two removals of an uninstall, so that an uninstall can take it back (link, unlink).
LinkRecorded == linkAt = "created" => marker

\* What an install leaves behind, complete, failed or killed (Install, Uninstall).
InstallSound == NoStrayStart /\ LinkRecorded
=============================================================================
