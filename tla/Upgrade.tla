------------------------------ MODULE Upgrade ------------------------------
(***************************************************************************)
(* The upgrade of a Python-era installation (internal/upgrade/upgrade.go)  *)
(* and the import on its own (internal/upgrade/import.go), over the files  *)
(* of internal/legacy and internal/importer: install.json with its upgrade *)
(* marker, the Python services and their state, the journals, the staging  *)
(* and the target database.                                                *)
(*                                                                         *)
(* Each durable effect is one step, and the process can fail or be killed  *)
(* between any two; a later run resumes from the journal.  A journal's     *)
(* intent is not read by any code and is left out.  Under the marker the   *)
(* Python runtime refuses to start a memory service; a session, and a      *)
(* process that is no service, can start.  What the sources hold is a      *)
(* version of the memory stores and one of the session stores; the mapping *)
(* of their rows is left out.                                              *)
(***************************************************************************)
EXTENDS Naturals, FiniteSets

CONSTANTS
    PyUnits,          \* services of the Python installation
    MemoryUnits,      \* the memory services among them; the others are sessions
    MaxAttempts,      \* bound: attempts of an upgrade or an import
    MaxFaults,        \* bound: failed steps and killed processes
    MaxPyWrites       \* bound: writes to each kind of Python store and changes of the configuration

ASSUME UpgradeAssumption ==
    /\ MaxAttempts \in Nat /\ MaxFaults \in Nat /\ MaxPyWrites \in Nat
    /\ "stray" \notin PyUnits /\ MemoryUnits \subseteq PyUnits

VARIABLES
    python,      \* install.json, its services and state
    target,      \* the Go state database
    staging,     \* the attempts whose staging database exists
    goUp,        \* a Go daemon runs and holds daemon.lock
    journal,     \* upgrade/journal.json
    run,         \* the running upgrade and its journal in memory
    record,      \* import/journal.json: the attempt of an import, or 0
    import,      \* the running import
    attempts,    \* attempts so far
    faults,      \* failed steps and killed processes so far
    late         \* history: a Python process started under a marker since the upgrade's capture

upgradeVars == <<python, target, staging, goUp, journal, run, record, import, attempts, faults, late>>

NoData == [memory |-> 0, session |-> 0]
NoJournal == [phase |-> "none", attempt |-> 0, config |-> 0, was |-> {}, stopped |-> {}, report |-> NoData]
NoRun == [at |-> "off", j |-> NoJournal, tried |-> {}, unit |-> "none", locked |-> FALSE]
NoImport == [at |-> "off", attempt |-> 0, data |-> NoData]

\* platform.Lock on daemon.lock.
DaemonLockFree == ~goUp /\ ~run.locked /\ import.at = "off"
UpgradeOf(a) == python.state = "upgrading" /\ python.op = a

RunAt(at) == run' = [run EXCEPT !.at = at]
Failed == run' = [run EXCEPT !.at = "failed", !.locked = FALSE]
Phase(p) == run' = [run EXCEPT !.at = "save", !.j.phase = p, !.locked = FALSE, !.tried = {}]

-----------------------------------------------------------------------------
(* The run of an upgrade *)

UpgradeBegin ==
    /\ run.at = "off" /\ journal.phase \in {"none", "ended"} /\ attempts < MaxAttempts
    /\ python.state = "installed" /\ DaemonLockFree /\ target.holds = "empty"
    /\ LET j == [NoJournal EXCEPT !.phase = "preflight", !.attempt = attempts + 1,
                                  !.config = python.config, !.was = python.running \cap PyUnits]
       IN journal' = j /\ run' = [NoRun EXCEPT !.at = "advance", !.j = j]
    /\ attempts' = attempts + 1
    /\ UNCHANGED <<python, target, staging, goUp, record, import, faults, late>>

\* sameSource: the configuration that this attempt inspected.
SameSource == python.state # "gone" /\ python.config = run.j.config

UpgradeResume ==
    /\ run.at = "off" /\ journal.phase \notin {"none", "ended", "complete"}
    /\ \/ journal.phase \in {"swapped", "python_removed"}
       \/ python.state # "gone" /\ python.config = journal.config
    /\ run' = [NoRun EXCEPT !.at = "advance", !.j = journal]
    /\ UNCHANGED <<python, target, staging, goUp, journal, record, import, attempts, faults, late>>

UpgradeSave ==
    /\ run.at = "save"
    /\ journal' = run.j
    /\ IF run.j.phase = "complete" THEN run' = NoRun ELSE RunAt("advance")
    /\ UNCHANGED <<python, target, staging, goUp, record, import, attempts, faults, late>>

PublishMarker(a, config) ==
    /\ python.config = config
    /\ python.state = "installed" \/ UpgradeOf(a)

UpgradeMarker ==
    /\ run.at = "advance" /\ run.j.phase = "preflight"
    /\ IF PublishMarker(run.j.attempt, run.j.config)
       THEN python' = [python EXCEPT !.state = "upgrading", !.op = run.j.attempt] /\ Phase("excluded")
       ELSE Failed /\ UNCHANGED python
    /\ UNCHANGED <<target, staging, goUp, journal, record, import, attempts, faults, late>>

\* Mutant of RecordStop: the unit is recorded once its stop is done.
RecordStopLate(u) == UNCHANGED journal

\* The unit is this attempt's to restart from the moment its stop may begin.
RecordStop(u) == journal' = [run.j EXCEPT !.stopped = @ \cup {u}]

UpgradeStopping(u) ==
    /\ run.at = "advance" /\ run.j.phase = "excluded"
    /\ UpgradeOf(run.j.attempt) /\ SameSource
    /\ u \in (PyUnits \cap python.running) \ run.tried
    /\ RecordStop(u)
    /\ run' = [run EXCEPT !.at = "stop", !.unit = u, !.tried = @ \cup {u}, !.j.stopped = @ \cup {u}]
    /\ UNCHANGED <<python, target, staging, goUp, record, import, attempts, faults, late>>

\* A stop that returns may leave a unit running.
UpgradeStop ==
    /\ run.at = "stop"
    /\ \/ python' = [python EXCEPT !.running = @ \ {run.unit}]
       \/ UNCHANGED python
    /\ RunAt("advance")
    /\ UNCHANGED <<target, staging, goUp, journal, record, import, attempts, faults, late>>

UpgradeStopped ==
    /\ run.at = "advance" /\ run.j.phase = "excluded"
    /\ ~UpgradeOf(run.j.attempt) \/ ~SameSource \/ (PyUnits \cap python.running) \subseteq run.tried
    /\ IF UpgradeOf(run.j.attempt) /\ SameSource /\ PyUnits \cap python.running = {}
       THEN Phase("stopped") ELSE Failed
    /\ UNCHANGED <<python, target, staging, goUp, journal, record, import, attempts, faults, late>>

\* What the target holds.  A target is ours when its import records equal the report
\* this attempt saved before its rename and a new capture verifies against it; a Go
\* daemon that used the import may or may not have changed what is verified.  The new
\* capture needs the writer locks: while a Python process runs, the check is an error.
TargetState(j) ==
    IF target.holds = "empty" THEN {"empty"}
    ELSE IF j.report = NoData \/ target.holds # "import" \/ target.of # j.report THEN {"other"}
    ELSE IF python.running # {} THEN {"error"}
    ELSE IF python.data # j.report THEN {"other"}
    ELSE IF target.used THEN {"ours", "other"} ELSE {"ours"}

\* Every writer lock of the Python state is free.
HoldWriters == python.running = {}

UpgradeCapture ==
    /\ run.at = "advance" /\ run.j.phase = "stopped"
    /\ IF ~DaemonLockFree THEN Failed /\ UNCHANGED late
       ELSE \E state \in TargetState(run.j) :
            CASE state = "ours" -> Phase("swapped") /\ UNCHANGED late
              [] state \in {"other", "error"} -> Failed /\ UNCHANGED late
              [] state = "empty" ->
                    IF HoldWriters
                    THEN /\ run' = [run EXCEPT !.at = "stage", !.locked = TRUE, !.j.report = python.data]
                         /\ late' = FALSE
                    ELSE Failed /\ UNCHANGED late
    /\ UNCHANGED <<python, target, staging, goUp, journal, record, import, attempts, faults>>

\* The staged import is verified, and its report is saved before the rename.
UpgradeStage ==
    /\ run.at = "stage"
    /\ staging' = staging \cup {run.j.attempt}
    /\ journal' = run.j
    /\ RunAt("swap")
    /\ UNCHANGED <<python, target, goUp, record, import, attempts, faults, late>>

SwapTarget(a, data) ==
    /\ target' = [holds |-> "import", of |-> data, used |-> FALSE]
    /\ staging' = staging \ {a}

\* The rename is the point of no return; what follows it can still fail.
UpgradeSwap ==
    /\ run.at = "swap"
    /\ SwapTarget(run.j.attempt, run.j.report)
    /\ Phase("swapped") \/ (faults < MaxFaults /\ Failed)
    /\ UNCHANGED <<python, goUp, journal, record, import, attempts, faults, late>>

UpgradeRemoving ==
    /\ run.at = "advance" /\ run.j.phase = "swapped"
    /\ IF python.state \in {"removing", "gone"} \/ UpgradeOf(run.j.attempt)
       THEN /\ python' = IF python.state = "gone" THEN python
                         ELSE [python EXCEPT !.state = "removing", !.op = 0]
            /\ RunAt("uninstall")
       ELSE Failed /\ UNCHANGED python
    /\ UNCHANGED <<target, staging, goUp, journal, record, import, attempts, faults, late>>

\* ClearDeadEndpoints, under the writer locks of the sessions.  A process that holds one
\* stops the run before uninstall.py; a later run tries again.
UpgradeClearEndpoints ==
    /\ run.at = "uninstall"
    /\ CASE python.state = "gone" -> Phase("python_removed")
         [] python.state # "gone" /\ ~(python.running \subseteq MemoryUnits) -> Failed
         [] python.state # "gone" /\ python.running \subseteq MemoryUnits -> RunAt("remove")
    /\ UNCHANGED <<python, target, staging, goUp, journal, record, import, attempts, faults, late>>

\* uninstall.py, which stops what runs.
UpgradeUninstall ==
    /\ run.at = "remove"
    /\ python' = [python EXCEPT !.state = "gone", !.op = 0, !.running = {}]
    /\ Phase("python_removed")
    /\ UNCHANGED <<target, staging, goUp, journal, record, import, attempts, faults, late>>

UpgradeInstall ==
    /\ run.at = "advance" /\ run.j.phase = "python_removed"
    /\ goUp' = TRUE
    /\ Phase("complete")
    /\ UNCHANGED <<python, target, staging, journal, record, import, attempts, faults, late>>

-----------------------------------------------------------------------------
(* A failed run: the files decide whether the swap was made; when they cannot be  *)
(* checked, the Python runtime stays excluded                                      *)

UpgradeFailed ==
    /\ run.at = "failed"
    /\ CASE run.j.phase \in {"swapped", "python_removed", "complete"} ->
              run' = NoRun /\ UNCHANGED journal
         [] run.j.phase \in {"preflight", "excluded"} -> RunAt("end") /\ UNCHANGED journal
         [] run.j.phase = "stopped" ->
              IF ~DaemonLockFree THEN run' = NoRun /\ UNCHANGED journal
              ELSE \E state \in TargetState(run.j) :
                   CASE state = "ours" ->
                          run' = NoRun /\ journal' = [run.j EXCEPT !.phase = "swapped"]
                     [] state = "error" -> run' = NoRun /\ UNCHANGED journal
                     [] state \in {"empty", "other"} -> RunAt("end") /\ UNCHANGED journal
    /\ UNCHANGED <<python, target, staging, goUp, record, import, attempts, faults, late>>

\* The attempt's staging goes and install.json gets its bytes back.
UpgradeEnd ==
    /\ run.at = "end"
    /\ staging' = staging \ {run.j.attempt}
    /\ python' = IF UpgradeOf(run.j.attempt) THEN [python EXCEPT !.state = "installed", !.op = 0]
                 ELSE python
    /\ RunAt("restart")
    /\ UNCHANGED <<target, goUp, journal, record, import, attempts, faults, late>>

\* The services that the attempt stopped start again.  One that does not start keeps
\* the attempt open.
UpgradeRestart ==
    /\ run.at = "restart"
    /\ python' = [python EXCEPT !.running = @ \cup run.j.stopped]
    /\ journal' = [run.j EXCEPT !.phase = "ended"]
    /\ run' = NoRun
    /\ UNCHANGED <<target, staging, goUp, record, import, attempts, faults, late>>

\* A step fails: before the swap the attempt is ended, after it a later run resumes.
UpgradeFails ==
    /\ run.at \notin {"off", "failed", "end", "restart"} /\ faults < MaxFaults
    /\ Failed
    /\ faults' = faults + 1
    /\ UNCHANGED <<python, target, staging, goUp, journal, record, import, attempts, late>>

\* The process is killed, or cannot give the Python runtime back.
UpgradeKilled ==
    /\ run.at # "off" /\ faults < MaxFaults
    /\ run' = NoRun
    /\ faults' = faults + 1
    /\ UNCHANGED <<python, target, staging, goUp, journal, record, import, attempts, late>>

-----------------------------------------------------------------------------
(* The import on its own, which holds daemon.lock throughout *)

\* recoverImport gives back what an interrupted import left, then removes its record.
RecoverConfig(a) ==
    /\ python' = IF UpgradeOf(a) THEN [python EXCEPT !.state = "installed", !.op = 0] ELSE python
    /\ staging' = staging \ {a}

ImportRun ==
    /\ DaemonLockFree /\ attempts < MaxAttempts
    /\ IF record = 0 THEN UNCHANGED <<python, staging>> ELSE RecoverConfig(record)
    /\ import' = [NoImport EXCEPT !.at = "recovered"]
    /\ UNCHANGED <<target, goUp, journal, run, record, attempts, faults, late>>

\* A service that runs, or another operation on the installation, refuses the import.
ImportBegin ==
    /\ import.at = "recovered"
    /\ attempts' = attempts + 1
    /\ CASE python.state = "gone" ->
              import' = [NoImport EXCEPT !.at = "capture", !.attempt = attempts + 1] /\ record' = 0
         [] python.state = "installed" /\ PyUnits \cap python.running = {} ->
              import' = [NoImport EXCEPT !.at = "marker", !.attempt = attempts + 1]
              /\ record' = attempts + 1
         [] OTHER -> import' = NoImport /\ record' = 0
    /\ UNCHANGED <<python, target, staging, goUp, journal, run, faults, late>>

ImportMarker ==
    /\ import.at = "marker"
    /\ IF PublishMarker(import.attempt, python.config)
       THEN /\ python' = [python EXCEPT !.state = "upgrading", !.op = import.attempt]
            /\ import' = [import EXCEPT !.at = "capture"]
            /\ UNCHANGED record
       ELSE import' = NoImport /\ record' = 0 /\ UNCHANGED python
    /\ UNCHANGED <<target, staging, goUp, journal, run, attempts, faults, late>>

\* An error of PublishMarker after its rename: the import removes its record.
ImportMarkerUnsynced ==
    /\ import.at = "marker" /\ faults < MaxFaults
    /\ PublishMarker(import.attempt, python.config)
    /\ python' = [python EXCEPT !.state = "upgrading", !.op = import.attempt]
    /\ import' = NoImport /\ record' = 0
    /\ faults' = faults + 1
    /\ UNCHANGED <<target, staging, goUp, journal, run, attempts, late>>

ImportCapture ==
    /\ import.at = "capture"
    /\ import' = IF HoldWriters /\ target.holds = "empty"
                 THEN [import EXCEPT !.at = "swap", !.data = python.data]
                 ELSE [import EXCEPT !.at = "restore"]
    /\ staging' = IF HoldWriters /\ target.holds = "empty" THEN staging \cup {import.attempt} ELSE staging
    /\ UNCHANGED <<python, target, goUp, journal, run, record, attempts, faults, late>>

ImportSwap ==
    /\ import.at = "swap"
    /\ SwapTarget(import.attempt, import.data)
    /\ import' = [import EXCEPT !.at = "restore"]
    /\ UNCHANGED <<python, goUp, journal, run, record, attempts, faults, late>>

ImportRestore ==
    /\ import.at = "restore"
    /\ RecoverConfig(import.attempt)
    /\ import' = [import EXCEPT !.at = "forget"]
    /\ UNCHANGED <<target, goUp, journal, run, record, attempts, faults, late>>

ImportForget ==
    /\ import.at = "forget"
    /\ record' = 0
    /\ import' = NoImport
    /\ UNCHANGED <<python, target, staging, goUp, journal, run, attempts, faults, late>>

ImportKilled ==
    /\ import.at # "off" /\ faults < MaxFaults
    /\ import' = NoImport
    /\ faults' = faults + 1
    /\ UNCHANGED <<python, target, staging, goUp, journal, run, record, attempts, late>>

-----------------------------------------------------------------------------
(* The world *)

\* A service starts, or a process that is no service.  A marker keeps only the memory
\* services from it.
PythonStarts(u) ==
    /\ python.state # "gone" /\ u \notin python.running
    /\ u \in MemoryUnits => python.state = "installed"
    /\ python' = [python EXCEPT !.running = @ \cup {u}]
    /\ late' = IF python.state = "installed" THEN late ELSE TRUE
    /\ UNCHANGED <<target, staging, goUp, journal, run, record, import, attempts, faults>>

StrayEnds ==
    /\ "stray" \in python.running
    /\ python' = [python EXCEPT !.running = @ \ {"stray"}]
    /\ UNCHANGED <<target, staging, goUp, journal, run, record, import, attempts, faults, late>>

PythonWrites ==
    /\ \/ /\ python.running \cap MemoryUnits # {} /\ python.data.memory < MaxPyWrites
          /\ python' = [python EXCEPT !.data.memory = @ + 1]
       \/ /\ ~(python.running \subseteq MemoryUnits) /\ python.data.session < MaxPyWrites
          /\ python' = [python EXCEPT !.data.session = @ + 1]
    /\ UNCHANGED <<target, staging, goUp, journal, run, record, import, attempts, faults, late>>

PythonReconfigured ==
    /\ python.state = "installed" /\ python.config < MaxPyWrites
    /\ python' = [python EXCEPT !.config = @ + 1]
    /\ UNCHANGED <<target, staging, goUp, journal, run, record, import, attempts, faults, late>>

GoDaemon ==
    /\ \/ goUp' = FALSE /\ goUp /\ UNCHANGED target
       \/ DaemonLockFree /\ goUp' = TRUE /\ UNCHANGED target
       \/ /\ goUp /\ UNCHANGED goUp
          /\ target' = IF target.holds = "empty" THEN [target EXCEPT !.holds = "other"]
                       ELSE [target EXCEPT !.used = TRUE]
    /\ UNCHANGED <<python, staging, journal, run, record, import, attempts, faults, late>>

-----------------------------------------------------------------------------

UpgradeInit ==
    /\ python = [state |-> "installed", op |-> 0, config |-> 1, running |-> PyUnits,
                 data |-> [memory |-> 1, session |-> 1]]
    /\ target = [holds |-> "empty", of |-> NoData, used |-> FALSE]
    /\ staging = {}
    /\ goUp = FALSE
    /\ journal = NoJournal
    /\ run = NoRun
    /\ record = 0
    /\ import = NoImport
    /\ attempts = 0
    /\ faults = 0
    /\ late = FALSE

UpgradeNext ==
    \/ UpgradeBegin \/ UpgradeResume \/ UpgradeSave \/ UpgradeMarker
    \/ \E u \in PyUnits : UpgradeStopping(u)
    \/ UpgradeStop \/ UpgradeStopped \/ UpgradeCapture \/ UpgradeStage \/ UpgradeSwap
    \/ UpgradeRemoving \/ UpgradeClearEndpoints \/ UpgradeUninstall \/ UpgradeInstall
    \/ UpgradeFailed \/ UpgradeEnd \/ UpgradeRestart \/ UpgradeFails \/ UpgradeKilled
    \/ ImportRun \/ ImportBegin \/ ImportMarker \/ ImportMarkerUnsynced \/ ImportCapture
    \/ ImportSwap \/ ImportRestore \/ ImportForget \/ ImportKilled
    \/ \E u \in PyUnits \cup {"stray"} : PythonStarts(u)
    \/ StrayEnds \/ PythonWrites \/ PythonReconfigured \/ GoDaemon

UpgradeSpec == UpgradeInit /\ [][UpgradeNext]_upgradeVars

-----------------------------------------------------------------------------
(* Properties *)

\* An attempt that ends before the swap gives the Python runtime back: its marker is
\* gone and every service that ran when the attempt began runs again, also after a
\* kill between the stop of a service and the next save of the journal.
EndedGivesBack ==
    journal.phase = "ended" => ~UpgradeOf(journal.attempt) /\ journal.was \subseteq python.running

\* The Python installation is removed only once its state is in the Go database, whatever
\* step failed or was killed before: the import is in place, no write to a memory store came
\* after its capture, and no write to any store did unless a session started under the marker.
PythonRemovedAfterImport ==
    python.state \in {"removing", "gone"} =>
      /\ target.holds = "import" /\ target.of.memory = python.data.memory
      /\ late \/ target.of = python.data

\* Where an upgrade leaves the machine, however it ends: with the runtime it had, or with
\* its state in the Go database (end, commit).
UpgradeSound == EndedGivesBack /\ PythonRemovedAfterImport
=============================================================================
