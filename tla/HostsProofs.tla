---------------------------- MODULE HostsProofs ----------------------------
(***************************************************************************)
(* Proofs about a host: its installation (module Install), the move of the *)
(* service to the system domain (SystemMode), the leases of its sessions   *)
(* (Lease), the set-up of an agent program (Setup) and the upgrade from    *)
(* the Python runtime (Upgrade).                                           *)
(***************************************************************************)
EXTENDS Lease, Setup, Upgrade, Install, SystemMode, WellFoundedInduction, TLAPS

-----------------------------------------------------------------------------
(* The installation *)

DaemonForm(d) == d = [build |-> d.build, st |-> d.st, managed |-> d.managed]
InstallForm(i) ==
    i = [op |-> i.op, at |-> i.at, build |-> i.build, before |-> i.before, old |-> i.old, started |-> i.started,
         changed |-> i.changed, network |-> i.network]
OnPids(f) == f = [p \in Pids |-> f[p]]

InstallShapes == InstallForm(install) /\ OnPids(daemons) /\ \A p \in Pids : DaemonForm(daemons[p])

\* The install's own start is known from its launch on, and only these places follow it.
StartIsKnown ==
    install.started # 0 => /\ install.at \in {"version", "abort", "end", "failed"}
                           /\ install.started \in Pids /\ daemons[install.started].st # "unborn"

\* The two writes of a link and the two removals, as a kill may leave them.
LinkUnderWay ==
    /\ install.at \in {"marker", "symlink", "unmark"} => linkAt # "created"
    /\ install.at = "symlink" => marker

InstallInv == InstallShapes /\ StartIsKnown /\ LinkUnderWay /\ NoStrayStart /\ LinkRecorded

LEMMA InstallInitInv == InstallInit => InstallInv
<1>. SUFFICES ASSUME InstallInit PROVE InstallInv
  OBVIOUS
<1>1. InstallForm(install) /\ install.started = 0 /\ install.at = "end"
  BY DEF InstallInit, NoInstall, InstallForm
<1>2. OnPids(daemons) /\ \A p \in Pids : DaemonForm(daemons[p])
  BY DEF InstallInit, NoDaemon, OnPids, DaemonForm
<1>. QED
  BY <1>1, <1>2 DEF InstallInit, InstallInv, InstallShapes, StartIsKnown, LinkUnderWay, NoStrayStart, LinkRecorded

\* A process that is gone stays gone, and one that was started stays known.
DaemonsGoOn ==
    /\ OnPids(daemons') /\ \A p \in Pids : DaemonForm(daemons'[p])
    /\ \A p \in Pids : daemons[p].st # "unborn" =>
         daemons'[p].st # "unborn" /\ (~Running(p) => daemons'[p] = daemons[p])

LEMMA GoneGoesOn ==
    ASSUME InstallShapes, NEW S
    PROVE  /\ OnPids(Gone(S)) /\ \A p \in Pids : DaemonForm(Gone(S)[p])
           /\ \A p \in Pids : (daemons[p].st # "unborn" =>
                Gone(S)[p].st # "unborn" /\ (~Running(p) => Gone(S)[p] = daemons[p]))
           /\ \A p \in Pids : p \in S => Gone(S)[p].st \notin {"waiting", "serving"}
           /\ \A p \in Pids : Gone(S)[p].st = "unborn" <=> daemons[p].st = "unborn"
<1>. DEFINE f == Gone(S)
<1>1. f = [p \in Pids |-> IF p \in S /\ Running(p) THEN [daemons[p] EXCEPT !.st = "gone"] ELSE daemons[p]]
  BY DEF Gone
<1>2. \A p \in Pids : DaemonForm(daemons[p])
  BY DEF InstallShapes
<1>. HIDE DEF f
<1>3. OnPids(f)
  BY <1>1 DEF OnPids
<1>4. ASSUME NEW p \in Pids
      PROVE  /\ DaemonForm(f[p])
             /\ \/ f[p] = daemons[p] /\ ~(p \in S /\ Running(p))
                \/ Running(p) /\ f[p].st = "gone"
  <2>1. CASE p \in S /\ Running(p)
    <3>1. f[p] = [daemons[p] EXCEPT !.st = "gone"]
      BY <1>1, <2>1
    <3>2. DaemonForm(f[p]) /\ f[p].st = "gone"
      BY <1>2, <3>1 DEF DaemonForm
    <3>. QED
      BY <2>1, <3>2
  <2>2. CASE ~(p \in S /\ Running(p))
    BY <1>1, <1>2, <2>2
  <2>. QED
    BY <2>1, <2>2
<1>. QED
  BY <1>3, <1>4 DEF f, Running

LEMMA SameDaemonsGoOn ==
    ASSUME InstallShapes, UNCHANGED daemons
    PROVE  DaemonsGoOn
BY DEF InstallShapes, DaemonsGoOn, OnPids

LEMMA NextPidIsFree ==
    ASSUME Free # {}
    PROVE  NextPid \in Pids /\ daemons[NextPid].st = "unborn"
<1>1. Free \in SUBSET Nat /\ Free \subseteq Pids
  BY InstallAssumption DEF Free, Pids
<1>2. PICK x \in Free : \A y \in Free : ~(<<y, x>> \in OpToRel(<, Nat))
  BY <1>1, WFMin, NatLessThanWellFounded, Zenon
<1>3. ASSUME NEW y \in Free PROVE x <= y
  <2>1. CASE y < x
    <3>1. <<y, x>> \in OpToRel(<, Nat)
      BY <1>1, <2>1 DEF OpToRel
    <3>. QED
      BY <3>1, <1>2
  <2>2. CASE ~(y < x)
    BY <1>1, <2>2
  <2>. QED
    BY <2>1, <2>2
<1>4. NextPid \in Free
  BY <1>3 DEF NextPid
<1>. QED
  BY <1>1, <1>4 DEF Free

\* A start takes a process that never ran.
LEMMA LaunchGoesOn ==
    ASSUME InstallShapes, Free # {}, NEW ds, NEW m, daemons' = Launched(ds, m), OnPids(ds),
           \A p \in Pids : DaemonForm(ds[p]),
           \A p \in Pids : (daemons[p].st # "unborn" =>
                ds[p].st # "unborn" /\ (~Running(p) => ds[p] = daemons[p]))
    PROVE  /\ DaemonsGoOn /\ NextPid \in Pids /\ daemons'[NextPid].st = "waiting"
           /\ daemons[NextPid].st = "unborn"
<1>. DEFINE d == [build |-> disk, st |-> "waiting", managed |-> m]
<1>1. NextPid \in Pids /\ daemons[NextPid].st = "unborn"
  BY NextPidIsFree
<1>2. daemons' = [ds EXCEPT ![NextPid] = d]
  BY DEF Launched
<1>3. DaemonForm(d) /\ d.st = "waiting"
  BY DEF DaemonForm
<1>. HIDE DEF d
<1>4. /\ OnPids(daemons') /\ daemons'[NextPid] = d
      /\ \A p \in Pids : p # NextPid => daemons'[p] = ds[p]
  BY <1>1, <1>2 DEF OnPids
<1>. QED
  BY <1>1, <1>3, <1>4 DEF DaemonsGoOn

\* Steps that leave the link alone and have no start of their own.
LEMMA InstallGoesOn ==
    ASSUME InstallInv, DaemonsGoOn, UNCHANGED <<linkAt, marker>>, InstallForm(install'), install'.started = 0,
           install'.at \notin {"marker", "symlink", "unmark"}
    PROVE  InstallInv'
BY DEF InstallInv, InstallShapes, DaemonsGoOn, StartIsKnown, LinkUnderWay, NoStrayStart, LinkRecorded

\* The steps before a start of one's own.
LEMMA EarlyKeeps ==
    ASSUME InstallInv,
           \/ \E b \in 1..2, network \in BOOLEAN : InstallBegin(b, network)
           \/ Place \/ WaitForDaemon \/ StartBackground \/ WaitStopped \/ WaitForReplacement
           \/ InstallStopped \/ UninstallBegin \/ StopUnmanaged \/ RemoveBinary
    PROVE  InstallInv'
<1>1. InstallForm(install) /\ InstallShapes /\ StartIsKnown
  BY DEF InstallInv, InstallShapes
<1>2. UNCHANGED <<linkAt, marker, daemons>>
  BY DEF InstallBegin, Place, WaitForDaemon, StartBackground, WaitStopped, WaitForReplacement, InstallStopped,
         UninstallBegin, StopUnmanaged, RemoveBinary
<1>3. InstallForm(install') /\ install'.started = 0 /\ install'.at \notin {"marker", "symlink", "unmark"}
  <2>0. ASSUME NEW o, NEW at \in {"end", "place", "remove"}, NEW b, NEW s, NEW n,
               install' = [NoInstall EXCEPT !.op = o, !.at = at, !.build = b, !.before = s, !.network = n]
        PROVE  InstallForm(install') /\ install'.started = 0 /\ install'.at \notin {"marker", "symlink", "unmark"}
    BY <2>0 DEF NoInstall, InstallForm
  <2>1. CASE \/ \E b \in 1..2, network \in BOOLEAN : InstallBegin(b, network)
             \/ InstallStopped \/ UninstallBegin
    <3>1. CASE \E b \in 1..2, network \in BOOLEAN : InstallBegin(b, network)
      <4>1. PICK b, s, n : install' = [NoInstall EXCEPT !.op = "install", !.at = "place", !.build = b, !.before = s,
                                                     !.network = n]
        BY <3>1, Zenon DEF InstallBegin
      <4>. QED
        BY <2>0, <4>1
    <3>2. CASE InstallStopped
      BY <3>2 DEF InstallStopped, NoInstall, InstallForm
    <3>3. CASE UninstallBegin
      BY <3>3 DEF UninstallBegin, NoInstall, InstallForm
    <3>. QED
      BY <2>1, <3>1, <3>2, <3>3
  <2>2. CASE Place \/ WaitForDaemon \/ RemoveBinary
    BY <1>1, <2>2 DEF Place, WaitForDaemon, RemoveBinary, InstallAt, Installed, InstallFailed, InstallForm, StartIsKnown
  <2>3. CASE WaitStopped \/ WaitForReplacement
    BY <1>1, <2>3 DEF WaitStopped, WaitForReplacement, InstallAt, Installed, InstallFailed, InstallForm, StartIsKnown
  <2>4. CASE StartBackground \/ StopUnmanaged
    BY <1>1, <2>4 DEF StartBackground, StopUnmanaged, InstallAt, Installed, InstallForm, StartIsKnown
  <2>. QED
    BY <2>1, <2>2, <2>3, <2>4
<1>. QED
  BY <1>1, <1>2, <1>3, SameDaemonsGoOn, InstallGoesOn

\* The steps that end daemons, or have the manager start one.
LEMMA DaemonStepsKeep ==
    ASSUME InstallInv, StartAgent \/ StopDaemon \/ RemoveDaemon
    PROVE  InstallInv'
<1>1. InstallForm(install) /\ InstallShapes /\ StartIsKnown
  BY DEF InstallInv, InstallShapes
<1>2. /\ UNCHANGED <<linkAt, marker>>
      /\ InstallForm(install') /\ install'.started = 0 /\ install'.at \notin {"marker", "symlink", "unmark"}
  BY <1>1 DEF StartAgent, StopDaemon, RemoveDaemon, InstallAt, InstallForm, StartIsKnown
<1>3. DaemonsGoOn
  <2>1. CASE UNCHANGED daemons
    BY <1>1, <2>1, SameDaemonsGoOn
  <2>2. CASE \E S : daemons' = Gone(S)
    BY <1>1, <2>2, GoneGoesOn DEF DaemonsGoOn
  <2>3. CASE Free # {} /\ daemons' = Launched(Gone({p \in Pids : daemons[p].managed}), TRUE)
    BY <1>1, <2>3, GoneGoesOn, LaunchGoesOn
  <2>. QED
    BY <2>1, <2>2, <2>3 DEF StartAgent, StopDaemon, RemoveDaemon
<1>. QED
  BY <1>2, <1>3, InstallGoesOn

\* The install's own start, and its end.
LEMMA OwnStartKeeps ==
    ASSUME InstallInv, Background \/ WaitForVersion \/ Abort
    PROVE  InstallInv'
<1>1. InstallForm(install) /\ InstallShapes /\ StartIsKnown
  BY DEF InstallInv, InstallShapes
<1>2. UNCHANGED <<linkAt, marker>>
  BY DEF Background, WaitForVersion, Abort
<1>3. CASE Background
  <2>1. InstallForm(install') /\ install'.at = "version" /\ install'.started = NextPid
    BY <1>1, <1>3 DEF Background, InstallForm
  <2>2. Free # {} /\ daemons' = Launched(daemons, FALSE)
    BY <1>3 DEF Background
  <2>3. DaemonsGoOn /\ NextPid \in Pids /\ daemons'[NextPid].st = "waiting"
    BY <1>1, <2>2, LaunchGoesOn DEF InstallShapes
  <2>. QED
    BY <1>2, <2>1, <2>3 DEF InstallInv, InstallShapes, DaemonsGoOn, StartIsKnown, LinkUnderWay, NoStrayStart,
                            LinkRecorded
<1>4. CASE WaitForVersion
  <2>1. InstallForm(install') /\ install'.at \in {"end", "abort"} /\ install'.started = install.started
    BY <1>1, <1>4 DEF WaitForVersion, InstallForm, Installed, InstallAt
  <2>2. UNCHANGED daemons
    BY <1>4 DEF WaitForVersion
  <2>. QED
    BY <1>2, <2>1, <2>2 DEF InstallInv, InstallShapes, StartIsKnown, LinkUnderWay, NoStrayStart, LinkRecorded
<1>5. CASE Abort
  <2>1. InstallForm(install') /\ install'.at = "failed" /\ install'.started = install.started
    BY <1>1, <1>5 DEF Abort, InstallForm, InstallFailed, InstallAt
  <2>2. daemons' = Gone({install.started})
    BY <1>5 DEF Abort
  <2>3. /\ OnPids(daemons') /\ \A p \in Pids : DaemonForm(daemons'[p])
        /\ \A p \in Pids : daemons'[p].st = "unborn" <=> daemons[p].st = "unborn"
        /\ \A p \in Pids : p = install.started => daemons'[p].st \notin {"waiting", "serving"}
    BY <1>1, <2>2, GoneGoesOn
  <2>. QED
    BY <1>2, <2>1, <2>3 DEF InstallInv, InstallShapes, StartIsKnown, LinkUnderWay, NoStrayStart, LinkRecorded, Running
<1>. QED
  BY <1>3, <1>4, <1>5

LEMMA LinkStepsKeep ==
    ASSUME InstallInv, LinkObserve \/ WriteMarker \/ Symlink \/ Unlink \/ Unmark
    PROVE  InstallInv'
<1>1. InstallForm(install) /\ InstallShapes /\ StartIsKnown
  BY DEF InstallInv, InstallShapes
<1>2. UNCHANGED daemons
  BY DEF LinkObserve, WriteMarker, Symlink, Unlink, Unmark
<1>3. InstallShapes' /\ install'.started = 0
  BY <1>1, <1>2 DEF InstallShapes, LinkObserve, WriteMarker, Symlink, Unlink, Unmark, InstallAt, InstallFailed,
                    InstallForm, StartIsKnown
<1>4. StartIsKnown' /\ NoStrayStart'
  BY <1>3 DEF StartIsKnown, NoStrayStart
<1>5. LinkUnderWay' /\ LinkRecorded'
  <2>1. CASE LinkObserve
    BY <1>1, <2>1 DEF LinkObserve, InstallAt, InstallForm, LinkUnderWay, LinkRecorded, InstallInv
  <2>2. CASE WriteMarker
    BY <1>1, <2>2 DEF WriteMarker, InstallAt, InstallForm, LinkUnderWay, LinkRecorded, InstallInv
  <2>3. CASE Symlink
    BY <1>1, <2>3 DEF Symlink, InstallAt, InstallFailed, InstallForm, LinkUnderWay, LinkRecorded, InstallInv
  <2>4. CASE Unlink
    BY <1>1, <2>4 DEF Unlink, InstallAt, InstallForm, LinkUnderWay, LinkRecorded, InstallInv
  <2>5. CASE Unmark
    BY <1>1, <2>5 DEF Unmark, InstallAt, InstallForm, LinkUnderWay, LinkRecorded, InstallInv
  <2>. QED
    BY <2>1, <2>2, <2>3, <2>4, <2>5
<1>. QED
  BY <1>3, <1>4, <1>5 DEF InstallInv

\* The daemons' own steps.
LEMMA DaemonsKeep ==
    ASSUME InstallInv, NEW p \in Pids,
           DaemonStarts(p) \/ DaemonGivesUp(p) \/ DaemonReplaced(p) \/ DaemonCrashes(p)
    PROVE  InstallInv'
<1>1. InstallShapes /\ DaemonForm(daemons[p]) /\ OnPids(daemons)
  BY DEF InstallInv, InstallShapes
<1>2. UNCHANGED <<linkAt, marker, install>>
  BY DEF DaemonStarts, DaemonGivesUp, DaemonReplaced, DaemonCrashes
<1>3. DaemonsGoOn
  <2>1. CASE DaemonStarts(p) \/ DaemonGivesUp(p)
    <3>1. PICK st \in {"serving", "gone"} : daemons' = [daemons EXCEPT ![p] = [daemons[p] EXCEPT !.st = st]]
      BY <2>1 DEF DaemonStarts, DaemonGivesUp
    <3>2. PICK d : d = [daemons[p] EXCEPT !.st = st]
      OBVIOUS
    <3>3. DaemonForm(d) /\ d.st = st
      BY <1>1, <3>2 DEF DaemonForm
    <3>4. OnPids(daemons') /\ daemons'[p] = d /\ \A q \in Pids : q # p => daemons'[q] = daemons[q]
      BY <1>1, <3>1, <3>2 DEF OnPids
    <3>5. Running(p)
      BY <2>1 DEF DaemonStarts, DaemonGivesUp, Running
    <3>. QED
      BY <1>1, <3>3, <3>4, <3>5 DEF DaemonsGoOn, InstallShapes
  <2>2. CASE DaemonReplaced(p) \/ DaemonCrashes(p)
    <3>1. Free # {} /\ (daemons' = Gone({p}) \/ daemons' = Launched(Gone({p}), TRUE))
      BY <2>2 DEF DaemonReplaced, DaemonCrashes, Restarted
    <3>2. CASE daemons' = Gone({p})
      BY <1>1, <3>2, GoneGoesOn DEF DaemonsGoOn
    <3>3. CASE daemons' = Launched(Gone({p}), TRUE)
      BY <1>1, <3>1, <3>3, GoneGoesOn, LaunchGoesOn
    <3>. QED
      BY <3>1, <3>2, <3>3
  <2>. QED
    BY <2>1, <2>2
<1>. QED
  BY <1>2, <1>3 DEF InstallInv, InstallShapes, DaemonsGoOn, StartIsKnown, LinkUnderWay, NoStrayStart, LinkRecorded,
                    Running

\* An install that failed left no daemon of its own behind, also none that still waits for the lock,
\* and every link that an install made is on record, however often installs and uninstalls were
\* killed, whatever answers were lost and whatever the person did to the link (Install, Uninstall).
THEOREM InstallSoundThm == InstallSpec => []InstallSound
<1>1. InstallInv /\ [InstallNext]_installVars => InstallInv'
  <2>. SUFFICES ASSUME InstallInv, [InstallNext]_installVars PROVE InstallInv'
    OBVIOUS
  <2>1. CASE UNCHANGED <<daemons, install>> /\ linkAt' \in {linkAt, "none", "other"} /\ UNCHANGED marker
    BY <2>1 DEF InstallInv, InstallShapes, StartIsKnown, LinkUnderWay, NoStrayStart, LinkRecorded, Running
  <2>2. CASE UNCHANGED installVars \/ ManagerAnswers \/ \E l \in {"none", "other"} : EditLink(l)
    BY <2>1, <2>2 DEF installVars, ManagerAnswers, EditLink
  <2>. QED
    BY <2>2, EarlyKeeps, DaemonStepsKeep, OwnStartKeeps, LinkStepsKeep, DaemonsKeep DEF InstallNext
<1>2. InstallInv => InstallSound
  BY DEF InstallInv, InstallSound
<1>. QED
  BY <1>1, <1>2, InstallInitInv, PTL DEF InstallSpec

-----------------------------------------------------------------------------
(* The system service *)

AgentForm(a) == a = [plist |-> a.plist, loaded |-> a.loaded, disabled |-> a.disabled]
ServiceForm(s) == s = [plist |-> s.plist, loaded |-> s.loaded]
MoveForm(m) == m = [op |-> m.op, at |-> m.at, seen |-> m.seen, undo |-> m.undo, started |-> m.started]
SeenForm(s) == s.loaded \in BOOLEAN /\ s.disabled \in BOOLEAN /\ s.noDomain \in BOOLEAN

SystemShapes ==
    /\ AgentForm(agentSvc) /\ agentSvc.plist \in {"none", "owned", "foreign"}
    /\ agentSvc.loaded \in BOOLEAN /\ agentSvc.disabled \in BOOLEAN
    /\ ServiceForm(system) /\ domain \in BOOLEAN /\ logins \in Nat
    /\ MoveForm(move) /\ SeenForm(move.seen)

\* A system service is never loaded without its plist, and a first transition starts without either.
Clear == system.plist = "none" /\ ~system.loaded
ServiceHasPlist ==
    /\ system.loaded => system.plist # "none"
    /\ move.op = "reconcile" \/ move.at = "bootstrap" => system.plist # "none"
    /\ move.at = "rm" => ~system.loaded /\ move.op = "remove"
    /\ move.op = "first" /\ move.at \in {"observe", "disable", "bootout", "verify", "stopped", "fail"} =>
         move.started \/ Clear
    /\ move.op = "first" /\ move.at \in {"bootstrap", "kickstart", "owner"} => move.started

\* The agent that was stopped will not start at a login, or its plist is one that goes.
AgentIsStopped ==
    /\ move.at \in {"bootout", "verify"} => agentSvc.disabled
    /\ move.at \in {"stopped", "bootstrap", "kickstart", "owner", "unplist"} =>
         agentSvc.disabled \/ agentSvc.plist # "foreign"
    /\ move.at = "done" => agentSvc.disabled \/ agentSvc.plist = "none"

\* What a transition did to the agent by now, against what it observed.
Kept ==
    ~move.seen.noDomain => /\ move.seen.disabled => agentSvc.disabled
                           /\ logins = 0 /\ ~move.seen.loaded => ~agentSvc.loaded
KeptUntilUndo ==
    move.at \in {"disable", "bootout", "verify", "stopped", "bootstrap", "kickstart", "owner", "fail"} => Kept
Settled ==
    ~move.seen.noDomain => /\ agentSvc.disabled = move.seen.disabled
                           /\ logins = 0 => agentSvc.loaded = move.seen.loaded

\* The rollback: the service goes first, then the agent comes back.
AgentPlan(seen) ==
    IF seen.noDomain THEN <<>>
    ELSE IF seen.loaded THEN IF seen.disabled THEN <<"enable", "bootstrap", "disable">> ELSE <<"enable", "bootstrap">>
    ELSE IF seen.disabled THEN <<>> ELSE <<"enable">>
UndoStages ==
    \/ Kept /\ move.undo = <<"bootout", "rm">> \o AgentPlan(move.seen)
    \/ Kept /\ move.undo = <<"rm">> \o AgentPlan(move.seen) /\ ~system.loaded
    \/ Kept /\ move.undo = AgentPlan(move.seen) /\ Clear
    \/ /\ Clear /\ ~move.seen.noDomain /\ move.seen.loaded /\ ~agentSvc.disabled
       /\ move.undo = IF move.seen.disabled THEN <<"bootstrap", "disable">> ELSE <<"bootstrap">>
    \/ /\ Clear /\ ~move.seen.noDomain /\ move.seen.loaded /\ move.seen.disabled
       /\ move.undo = <<"disable">>
       /\ logins = 0 => agentSvc.loaded
    \/ Clear /\ move.undo = <<>> /\ Settled
UndoGoesOn == move.at = "undo" => move.op = "first" /\ UndoStages
RolledBackIsClean == move.at = "rolledback" => Clear /\ Settled

SystemInv ==
    SystemShapes /\ ServiceHasPlist /\ AgentIsStopped /\ KeptUntilUndo /\ UndoGoesOn /\ RolledBackIsClean

LEMMA SystemInitInv == SystemInit => SystemInv
<1>. SUFFICES ASSUME SystemInit PROVE SystemInv
  OBVIOUS
<1>1. /\ MoveForm(move) /\ move.at = "end" /\ move.op = "none" /\ SeenForm(move.seen)
  BY DEF SystemInit, NoMove, MoveForm, SeenForm
<1>2. /\ AgentForm(agentSvc) /\ agentSvc.plist \in {"none", "owned", "foreign"}
      /\ agentSvc.loaded \in BOOLEAN /\ agentSvc.disabled \in BOOLEAN /\ ServiceForm(system)
  <2>1. PICK a \in [plist : {"none", "owned", "foreign"}, loaded : BOOLEAN, disabled : BOOLEAN] : a = agentSvc
    BY DEF SystemInit
  <2>2. PICK s \in [plist : {"none", "stale", "hand", "foreign"}, loaded : BOOLEAN] : s = system
    BY DEF SystemInit
  <2>. QED
    BY <2>1, <2>2 DEF AgentForm, ServiceForm
<1>3. SystemShapes
  BY <1>1, <1>2 DEF SystemInit, SystemShapes
<1>. QED
  BY <1>1, <1>3 DEF SystemInit, SystemInv, ServiceHasPlist, AgentIsStopped, KeptUntilUndo, UndoGoesOn, RolledBackIsClean

LEMMA MoveChanges ==
    ASSUME MoveForm(move), NEW at, MoveAt(at)
    PROVE  /\ MoveForm(move') /\ move'.at = at /\ move'.op = move.op /\ move'.seen = move.seen /\ move'.undo = move.undo
           /\ move'.started = move.started
BY DEF MoveForm, MoveAt

LEMMA NothingMoves == MoveForm(NoMove) /\ NoMove.at = "end" /\ NoMove.op = "none" /\ SeenForm(NoMove.seen)
BY DEF NoMove, MoveForm, SeenForm

\* A place of the command where no part of the invariant says more than the service's plist.
LEMMA MoveRests ==
    ASSUME SystemInv, UNCHANGED <<domain, agentSvc, system, logins>>, MoveForm(move'), SeenForm(move'.seen),
           move'.at \in {"end", "failed", "stuck"}, move'.op \in {move.op, "none"}
    PROVE  SystemInv'
<1>1. SystemShapes'
  BY DEF SystemInv, SystemShapes
<1>. QED
  BY <1>1 DEF SystemInv, ServiceHasPlist, AgentIsStopped, KeptUntilUndo, UndoGoesOn, RolledBackIsClean

LEMMA BeginKeeps ==
    ASSUME SystemInv, SystemBegin
    PROVE  SystemInv'
<1>1. UNCHANGED <<domain, agentSvc, system, logins>>
  BY DEF SystemBegin
<1>2. /\ MoveForm(move') /\ move'.at = "observe" /\ SeenForm(move'.seen)
      /\ move'.op = IF system.plist = "none" THEN "first" ELSE "reconcile"
  BY DEF SystemBegin, NoMove, MoveForm, SeenForm
<1>3. SystemShapes'
  BY <1>1, <1>2 DEF SystemInv, SystemShapes
<1>4. ServiceHasPlist'
  BY <1>1, <1>2 DEF SystemInv, ServiceHasPlist, Clear
<1>. QED
  BY <1>1, <1>2, <1>3, <1>4 DEF SystemInv, AgentIsStopped, KeptUntilUndo, UndoGoesOn, RolledBackIsClean

LEMMA ObserveKeeps ==
    ASSUME SystemInv, ObserveAgent
    PROVE  SystemInv'
<1>. DEFINE seen == [loaded |-> domain /\ agentSvc.loaded, disabled |-> domain /\ agentSvc.disabled, noDomain |-> ~domain]
            at == IF domain THEN "disable" ELSE IF agentSvc.plist = "foreign" THEN "fail" ELSE "stopped"
<1>1. UNCHANGED <<domain, agentSvc, system, logins>> /\ move.at = "observe"
  BY DEF ObserveAgent
<1>2. move' = [move EXCEPT !.seen = seen, !.at = at]
  BY DEF ObserveAgent
<1>3. SystemShapes
  BY DEF SystemInv
<1>4. /\ seen.loaded = (domain /\ agentSvc.loaded) /\ seen.disabled = (domain /\ agentSvc.disabled)
      /\ seen.noDomain = ~domain /\ SeenForm(seen)
  BY <1>3 DEF SystemShapes, SeenForm
<1>. HIDE DEF seen
<1>5. /\ MoveForm(move') /\ move'.at = at /\ move'.seen = seen /\ move'.op = move.op /\ move'.started = move.started
  BY <1>2, <1>3 DEF SystemShapes, MoveForm
<1>6. SystemShapes'
  BY <1>1, <1>3, <1>4, <1>5 DEF SystemShapes
<1>7. ServiceHasPlist'
  BY <1>1, <1>5 DEF SystemInv, ServiceHasPlist, Clear
<1>8. AgentIsStopped'
  BY <1>1, <1>3, <1>5 DEF AgentIsStopped, SystemShapes
<1>9. Kept'
  BY <1>1, <1>3, <1>4, <1>5 DEF Kept, SystemShapes
<1>10. UndoGoesOn' /\ RolledBackIsClean'
  BY <1>5 DEF UndoGoesOn, RolledBackIsClean
<1>. QED
  BY <1>6, <1>7, <1>8, <1>9, <1>10 DEF SystemInv, KeptUntilUndo

\* The next place of a transition, with nothing else changed.
LEMMA AheadKeeps ==
    ASSUME SystemInv, VerifyStopped \/ PlistCurrent \/ Kickstart \/ VerifyOwner
    PROVE  SystemInv'
<1>1. UNCHANGED <<domain, agentSvc, system, logins>> /\ SystemShapes
  BY DEF VerifyStopped, PlistCurrent, Kickstart, VerifyOwner, SystemInv
<1>2. PICK at : MoveAt(at) /\ \/ move.at = "verify" /\ at \in {"stopped", "fail"}
                              \/ move.at = "stopped" /\ at = "bootstrap" /\ move.op = "reconcile"
                              \/ move.at = "kickstart" /\ at = "owner"
                              \/ move.at = "owner" /\ at = "unplist"
  BY DEF VerifyStopped, PlistCurrent, Kickstart, VerifyOwner
<1>3. /\ MoveForm(move') /\ move'.at = at /\ move'.op = move.op /\ move'.seen = move.seen /\ move'.undo = move.undo
      /\ move'.started = move.started
  BY <1>1, <1>2, MoveChanges DEF SystemShapes
<1>4. SystemShapes'
  BY <1>1, <1>3 DEF SystemShapes
<1>5. ServiceHasPlist'
  BY <1>1, <1>2, <1>3 DEF SystemInv, ServiceHasPlist, Clear
<1>6. AgentIsStopped'
  BY <1>1, <1>2, <1>3 DEF SystemInv, AgentIsStopped
<1>7. KeptUntilUndo'
  BY <1>1, <1>2, <1>3 DEF SystemInv, KeptUntilUndo, Kept
<1>. QED
  BY <1>2, <1>3, <1>4, <1>5, <1>6, <1>7 DEF SystemInv, UndoGoesOn, RolledBackIsClean

LEMMA FailsKeeps ==
    ASSUME SystemInv, StepFails
    PROVE  SystemInv'
<1>1. UNCHANGED <<domain, agentSvc, system, logins>> /\ SystemShapes
  BY DEF StepFails, SystemInv
<1>2. /\ move.at \in {"observe", "disable", "bootout", "verify", "stopped", "bootstrap", "kickstart", "owner"}
      /\ move' = [move EXCEPT !.at = IF move.at = "observe" THEN "failed" ELSE "fail",
                              !.started = move.started \/ move.at = "stopped"]
  BY DEF StepFails
<1>3. /\ MoveForm(move') /\ move'.at = (IF move.at = "observe" THEN "failed" ELSE "fail") /\ move'.op = move.op
      /\ move'.seen = move.seen /\ move'.undo = move.undo /\ move'.started = (move.started \/ move.at = "stopped")
  BY <1>1, <1>2 DEF SystemShapes, MoveForm
<1>4. CASE move.at = "observe"
  BY <1>1, <1>3, <1>4, MoveRests DEF SystemShapes
<1>5. CASE move.at # "observe"
  <2>1. SystemShapes'
    BY <1>1, <1>3 DEF SystemShapes
  <2>2. ServiceHasPlist'
    <3>1. move'.at = "fail" /\ (move.at = "stopped" => move'.started) /\ (move.started => move'.started)
      BY <1>3, <1>5, Zenon
    <3>2. move.op = "first" => move'.started \/ Clear
      BY <1>2, <1>5, <3>1 DEF SystemInv, ServiceHasPlist
    <3>. QED
      BY <1>1, <1>3, <3>1, <3>2 DEF SystemInv, ServiceHasPlist, Clear
  <2>3. KeptUntilUndo'
    BY <1>1, <1>2, <1>3, <1>5 DEF SystemInv, KeptUntilUndo, Kept
  <2>. QED
    BY <1>3, <1>5, <2>1, <2>2, <2>3 DEF SystemInv, AgentIsStopped, UndoGoesOn, RolledBackIsClean
<1>. QED
  BY <1>4, <1>5

\* The steps on the agent and on the service.
LEMMA AgentStepsKeep ==
    ASSUME SystemInv, DisableAgent \/ BootoutAgent \/ RemoveAgentPlist
    PROVE  SystemInv'
<1>1. UNCHANGED <<domain, system, logins>> /\ SystemShapes
  BY DEF DisableAgent, BootoutAgent, RemoveAgentPlist, SystemInv
<1>2. PICK at : /\ MoveAt(at)
                /\ \/ /\ move.at = "disable" /\ at = "bootout"
                      /\ agentSvc' = [agentSvc EXCEPT !.disabled = TRUE]
                   \/ /\ move.at = "bootout" /\ at = "verify"
                      /\ agentSvc' = [agentSvc EXCEPT !.loaded = FALSE]
                   \/ /\ move.at = "unplist" /\ at = "done"
                      /\ agentSvc' = [agentSvc EXCEPT !.plist = IF @ = "owned" THEN "none" ELSE @]
  BY DEF DisableAgent, BootoutAgent, RemoveAgentPlist
<1>3. /\ MoveForm(move') /\ move'.at = at /\ move'.op = move.op /\ move'.seen = move.seen /\ move'.undo = move.undo
      /\ move'.started = move.started
  BY <1>1, <1>2, MoveChanges DEF SystemShapes
<1>4. CASE move.at = "disable"
  <2>1. /\ at = "bootout" /\ AgentForm(agentSvc') /\ agentSvc'.disabled = TRUE /\ agentSvc'.loaded = agentSvc.loaded
        /\ agentSvc'.plist = agentSvc.plist
    BY <1>1, <1>2, <1>4 DEF SystemShapes, AgentForm
  <2>2. SystemShapes'
    BY <1>1, <1>3, <2>1 DEF SystemShapes
  <2>3. ServiceHasPlist'
    BY <1>1, <1>3, <1>4, <2>1 DEF SystemInv, ServiceHasPlist, Clear
  <2>4. Kept'
    BY <1>1, <1>3, <1>4, <2>1 DEF SystemInv, KeptUntilUndo, Kept
  <2>. QED
    BY <1>3, <2>1, <2>2, <2>3, <2>4 DEF SystemInv, AgentIsStopped, KeptUntilUndo, UndoGoesOn, RolledBackIsClean
<1>5. CASE move.at = "bootout"
  <2>1. /\ at = "verify" /\ AgentForm(agentSvc') /\ agentSvc'.disabled = agentSvc.disabled /\ agentSvc'.loaded = FALSE
        /\ agentSvc'.plist = agentSvc.plist
    BY <1>1, <1>2, <1>5 DEF SystemShapes, AgentForm
  <2>2. SystemShapes'
    BY <1>1, <1>3, <2>1 DEF SystemShapes
  <2>3. ServiceHasPlist'
    BY <1>1, <1>3, <1>5, <2>1 DEF SystemInv, ServiceHasPlist, Clear
  <2>4. Kept'
    BY <1>1, <1>3, <1>5, <2>1 DEF SystemInv, KeptUntilUndo, Kept
  <2>5. AgentIsStopped'
    BY <1>3, <1>5, <2>1 DEF SystemInv, AgentIsStopped
  <2>. QED
    BY <1>3, <2>1, <2>2, <2>3, <2>4, <2>5 DEF SystemInv, KeptUntilUndo, UndoGoesOn, RolledBackIsClean
<1>6. CASE move.at = "unplist"
  <2>1. /\ at = "done" /\ AgentForm(agentSvc') /\ agentSvc'.disabled = agentSvc.disabled
        /\ agentSvc'.loaded = agentSvc.loaded
        /\ agentSvc'.plist = IF agentSvc.plist = "owned" THEN "none" ELSE agentSvc.plist
    BY <1>1, <1>2, <1>6 DEF SystemShapes, AgentForm
  <2>2. SystemShapes'
    BY <1>1, <1>3, <2>1 DEF SystemShapes
  <2>3. ServiceHasPlist'
    BY <1>1, <1>3, <1>6, <2>1 DEF SystemInv, ServiceHasPlist, Clear
  <2>4. AgentIsStopped'
    BY <1>1, <1>3, <1>6, <2>1 DEF SystemInv, AgentIsStopped, SystemShapes
  <2>. QED
    BY <1>3, <2>1, <2>2, <2>3, <2>4 DEF SystemInv, KeptUntilUndo, UndoGoesOn, RolledBackIsClean
<1>. QED
  BY <1>2, <1>4, <1>5, <1>6

LEMMA ServiceStepsKeep ==
    ASSUME SystemInv, ReplacePlist \/ InstallPlist \/ Bootstrap \/ RemoveSystem \/ RemoveSystemPlist
    PROVE  SystemInv'
<1>1. /\ UNCHANGED <<domain, agentSvc, logins>> /\ SystemShapes /\ ServiceForm(system) /\ MoveForm(move)
      /\ SeenForm(move.seen)
  BY DEF ReplacePlist, InstallPlist, Bootstrap, RemoveSystem, RemoveSystemPlist, SystemInv, SystemShapes
<1>2. ASSUME ServiceForm(system'), MoveForm(move'), SeenForm(move'.seen)
      PROVE  SystemShapes'
  BY <1>1, <1>2 DEF SystemShapes
<1>3. CASE ReplacePlist
  <2>1. /\ UNCHANGED move /\ move.op = "reconcile" /\ move.at = "stopped"
        /\ ServiceForm(system') /\ system'.loaded = FALSE /\ system'.plist = system.plist
    BY <1>1, <1>3 DEF ReplacePlist, ServiceForm
  <2>2. ServiceHasPlist'
    BY <2>1 DEF SystemInv, ServiceHasPlist
  <2>3. AgentIsStopped' /\ KeptUntilUndo'
    BY <1>1, <2>1 DEF SystemInv, AgentIsStopped, KeptUntilUndo, Kept
  <2>. QED
    BY <1>1, <1>2, <2>1, <2>2, <2>3 DEF SystemInv, UndoGoesOn, RolledBackIsClean
<1>4. CASE InstallPlist
  <2>1. /\ move.at = "stopped" /\ system' = [system EXCEPT !.plist = "owned"]
        /\ move' = [move EXCEPT !.at = "bootstrap", !.started = TRUE]
    BY <1>4 DEF InstallPlist
  <2>2. ServiceForm(system') /\ system'.loaded = system.loaded /\ system'.plist = "owned"
    BY <1>1, <2>1 DEF ServiceForm
  <2>3. /\ MoveForm(move') /\ move'.at = "bootstrap" /\ move'.started = TRUE /\ move'.op = move.op
        /\ move'.seen = move.seen
    BY <1>1, <2>1 DEF MoveForm
  <2>4. ServiceHasPlist'
    BY <2>2, <2>3 DEF SystemInv, ServiceHasPlist
  <2>5. AgentIsStopped' /\ KeptUntilUndo'
    BY <1>1, <2>1, <2>3 DEF SystemInv, AgentIsStopped, KeptUntilUndo, Kept
  <2>. QED
    BY <1>1, <1>2, <2>2, <2>3, <2>4, <2>5 DEF SystemInv, UndoGoesOn, RolledBackIsClean
<1>5. CASE Bootstrap
  <2>1. /\ move.at = "bootstrap" /\ system' = [system EXCEPT !.loaded = TRUE] /\ MoveAt("kickstart")
    BY <1>5 DEF Bootstrap
  <2>2. ServiceForm(system') /\ system'.loaded = TRUE /\ system'.plist = system.plist
    BY <1>1, <2>1 DEF ServiceForm
  <2>3. /\ MoveForm(move') /\ move'.at = "kickstart" /\ move'.started = move.started /\ move'.op = move.op
        /\ move'.seen = move.seen
    BY <1>1, <2>1, MoveChanges
  <2>4. ServiceHasPlist'
    BY <2>1, <2>2, <2>3 DEF SystemInv, ServiceHasPlist
  <2>5. AgentIsStopped' /\ KeptUntilUndo'
    BY <1>1, <2>1, <2>3 DEF SystemInv, AgentIsStopped, KeptUntilUndo, Kept
  <2>. QED
    BY <1>1, <1>2, <2>2, <2>3, <2>4, <2>5 DEF SystemInv, UndoGoesOn, RolledBackIsClean
<1>6. CASE RemoveSystem
  <2>1. /\ system' = [system EXCEPT !.loaded = FALSE] /\ move' = [NoMove EXCEPT !.op = "remove", !.at = "rm"]
    BY <1>6 DEF RemoveSystem
  <2>2. ServiceForm(system') /\ system'.loaded = FALSE /\ system'.plist = system.plist
    BY <1>1, <2>1 DEF ServiceForm
  <2>3. MoveForm(move') /\ move'.at = "rm" /\ move'.op = "remove" /\ SeenForm(move'.seen)
    BY <2>1 DEF MoveForm, NoMove, SeenForm
  <2>4. ServiceHasPlist'
    BY <2>2, <2>3 DEF SystemInv, ServiceHasPlist
  <2>. QED
    BY <1>1, <1>2, <2>2, <2>3, <2>4 DEF SystemInv, AgentIsStopped, KeptUntilUndo, UndoGoesOn, RolledBackIsClean
<1>7. CASE RemoveSystemPlist
  <2>1. /\ move.at = "rm" /\ system' = [system EXCEPT !.plist = "none"] /\ MoveAt("end")
    BY <1>7 DEF RemoveSystemPlist
  <2>2. ServiceForm(system') /\ system'.loaded = system.loaded /\ system'.plist = "none"
    BY <1>1, <2>1 DEF ServiceForm
  <2>3. /\ MoveForm(move') /\ move'.at = "end" /\ move'.op = move.op /\ move'.seen = move.seen
    BY <1>1, <2>1, MoveChanges
  <2>4. ServiceHasPlist'
    BY <2>1, <2>2, <2>3 DEF SystemInv, ServiceHasPlist
  <2>. QED
    BY <1>1, <1>2, <2>2, <2>3, <2>4 DEF SystemInv, AgentIsStopped, KeptUntilUndo, UndoGoesOn, RolledBackIsClean
<1>. QED
  BY <1>3, <1>4, <1>5, <1>6, <1>7

\* The lists of the rollback's commands.
RollbackCommands == {"bootout", "rm", "enable", "bootstrap", "disable"}
Plans == {<<>>, <<"enable">>, <<"enable", "bootstrap">>, <<"enable", "bootstrap", "disable">>}

LEMMA PlanParts ==
    ASSUME NEW T \in Plans
    PROVE  /\ <<"bootout", "rm">> \o T # <<>> /\ Head(<<"bootout", "rm">> \o T) = "bootout"
           /\ Tail(<<"bootout", "rm">> \o T) = <<"rm">> \o T
           /\ <<"rm">> \o T # <<>> /\ Head(<<"rm">> \o T) = "rm" /\ Tail(<<"rm">> \o T) = T
<1>1. /\ <<>> \in Seq(RollbackCommands) /\ <<"enable">> \in Seq(RollbackCommands) /\ <<"enable", "bootstrap">> \in Seq(RollbackCommands)
      /\ <<"enable", "bootstrap", "disable">> \in Seq(RollbackCommands)
  BY DEF RollbackCommands
<1>2. T \in Seq(RollbackCommands)
  BY <1>1, Zenon DEF Plans
<1>. QED
  BY <1>2 DEF RollbackCommands

LEMMA PlanOfRollback ==
    ASSUME NEW seen, SeenForm(seen), NEW started
    PROVE  /\ AgentPlan(seen) \in Plans
           /\ started => RollbackSteps(seen, started) = <<"bootout", "rm">> \o AgentPlan(seen)
           /\ ~started => RollbackSteps(seen, started) = AgentPlan(seen)
<1>. DEFINE A == IF started THEN <<"bootout", "rm">> ELSE <<>>
            B == IF ~seen.noDomain /\ (~seen.disabled \/ seen.loaded) THEN <<"enable">> ELSE <<>>
            C == IF ~seen.noDomain /\ seen.loaded THEN <<"bootstrap">> ELSE <<>>
            D == IF ~seen.noDomain /\ seen.loaded /\ seen.disabled THEN <<"disable">> ELSE <<>>
<1>1. RollbackSteps(seen, started) = ((A \o B) \o C) \o D
  BY DEF RollbackSteps
<1>2. AgentPlan(seen) \in Plans
  BY DEF AgentPlan, Plans
<1>3. ASSUME NEW P \in {<<>>, <<"bootout", "rm">>}
      PROVE  /\ ((P \o <<>>) \o <<>>) \o <<>> = P \o <<>>
             /\ ((P \o <<"enable">>) \o <<>>) \o <<>> = P \o <<"enable">>
             /\ ((P \o <<"enable">>) \o <<"bootstrap">>) \o <<>> = P \o <<"enable", "bootstrap">>
             /\ ((P \o <<"enable">>) \o <<"bootstrap">>) \o <<"disable">> = P \o <<"enable", "bootstrap", "disable">>
  OBVIOUS
<1>4. \A T \in Plans : <<>> \o T = T
  BY DEF Plans
<1>5. A \in {<<>>, <<"bootout", "rm">>}
  OBVIOUS
<1>6. ((A \o B) \o C) \o D = A \o AgentPlan(seen)
  <2>. HIDE DEF A
  <2>. QED
    BY <1>3, <1>5 DEF AgentPlan
<1>7. (started => A = <<"bootout", "rm">>) /\ (~started => A = <<>>)
  OBVIOUS
<1>. HIDE DEF A, B, C, D
<1>. QED
  BY <1>1, <1>2, <1>4, <1>6, <1>7, Zenon

LEMMA RollbackBeginKeeps ==
    ASSUME SystemInv, RollbackBegin
    PROVE  SystemInv'
<1>1. UNCHANGED <<domain, agentSvc, system, logins>> /\ SystemShapes /\ move.at = "fail" /\ MoveForm(move) /\ SeenForm(move.seen)
  BY DEF RollbackBegin, SystemInv, SystemShapes
<1>2. CASE move.op = "first"
  <2>1. move' = [move EXCEPT !.at = "undo", !.undo = RollbackSteps(move.seen, move.started)]
    BY <1>2 DEF RollbackBegin
  <2>2. /\ MoveForm(move') /\ move'.at = "undo" /\ move'.undo = RollbackSteps(move.seen, move.started)
        /\ move'.op = "first" /\ move'.seen = move.seen
    BY <1>1, <1>2, <2>1 DEF MoveForm
  <2>3. SystemShapes'
    BY <1>1, <2>2 DEF SystemShapes
  <2>4. Kept' /\ (move.started \/ Clear)
    BY <1>1, <1>2, <2>2 DEF SystemInv, KeptUntilUndo, Kept, ServiceHasPlist
  <2>5. UndoStages'
    <3>1. CASE move.started
      <4>1. move'.undo = <<"bootout", "rm">> \o AgentPlan(move'.seen)
        BY <1>1, <2>2, <3>1, PlanOfRollback
      <4>. QED
        BY <2>4, <4>1, Zenon DEF UndoStages
    <3>2. CASE ~move.started
      <4>1. move'.undo = AgentPlan(move'.seen) /\ Clear'
        BY <1>1, <2>2, <2>4, <3>2, PlanOfRollback DEF Clear
      <4>. QED
        BY <2>4, <4>1, Zenon DEF UndoStages
    <3>. QED
      BY <3>1, <3>2
  <2>6. ServiceHasPlist'
    BY <1>1, <2>2 DEF SystemInv, ServiceHasPlist
  <2>. QED
    BY <2>2, <2>3, <2>5, <2>6 DEF SystemInv, AgentIsStopped, KeptUntilUndo, UndoGoesOn, RolledBackIsClean
<1>3. CASE move.op # "first"
  <2>1. move' = [move EXCEPT !.at = "failed"]
    BY <1>3 DEF RollbackBegin
  <2>2. MoveForm(move') /\ move'.at = "failed" /\ move'.op = move.op /\ move'.seen = move.seen
    BY <1>1, <2>1 DEF MoveForm
  <2>. QED
    BY <1>1, <2>2, MoveRests
<1>. QED
  BY <1>2, <1>3

LEMMA RollbackEndsKeep ==
    ASSUME SystemInv, RollbackFails \/ RolledBack \/ MoveEnds
    PROVE  SystemInv'
<1>1. UNCHANGED <<domain, agentSvc, system, logins>> /\ SystemShapes /\ MoveForm(move) /\ SeenForm(move.seen)
  BY DEF RollbackFails, RolledBack, MoveEnds, SystemInv, SystemShapes
<1>2. CASE RollbackFails
  BY <1>1, <1>2, MoveChanges, MoveRests DEF RollbackFails
<1>3. CASE MoveEnds
  BY <1>1, <1>3, NothingMoves, MoveRests DEF MoveEnds
<1>4. CASE RolledBack
  <2>1. /\ MoveForm(move') /\ move'.at = "rolledback" /\ move'.op = move.op /\ move'.seen = move.seen
        /\ move.at = "undo" /\ move.undo = <<>>
    BY <1>1, <1>4, MoveChanges DEF RolledBack
  <2>2. Clear /\ Settled
    <3>1. AgentPlan(move.seen) \in Plans
      BY <1>1, PlanOfRollback
    <3>2. /\ <<"bootout", "rm">> \o AgentPlan(move.seen) # <<>>
          /\ <<"rm">> \o AgentPlan(move.seen) # <<>>
      BY <3>1, PlanParts
    <3>3. \/ Kept /\ AgentPlan(move.seen) = <<>> /\ Clear
          \/ Clear /\ Settled
      <4>1. /\ (IF move.seen.disabled THEN <<"bootstrap", "disable">> ELSE <<"bootstrap">>) # <<>>
            /\ <<"disable">> # <<>>
        OBVIOUS
      <4>2. UndoStages
        BY <2>1 DEF SystemInv, UndoGoesOn
      <4>. QED
        BY <2>1, <3>2, <4>1, <4>2, Zenon DEF UndoStages
    <3>4. ASSUME AgentPlan(move.seen) = <<>>, Kept PROVE Settled
      <4>1. ~move.seen.noDomain => ~move.seen.loaded /\ move.seen.disabled
        BY <3>4 DEF AgentPlan
      <4>. QED
        BY <1>1, <3>4, <4>1 DEF Kept, Settled, SystemShapes, SeenForm
    <3>. QED
      BY <3>3, <3>4
  <2>3. SystemShapes'
    BY <1>1, <2>1 DEF SystemShapes
  <2>4. ServiceHasPlist'
    BY <1>1, <2>1 DEF SystemInv, ServiceHasPlist
  <2>5. RolledBackIsClean'
    BY <1>1, <2>1, <2>2 DEF RolledBackIsClean, Clear, Settled
  <2>. QED
    BY <2>1, <2>3, <2>4, <2>5 DEF SystemInv, AgentIsStopped, KeptUntilUndo, UndoGoesOn
<1>. QED
  BY <1>2, <1>3, <1>4

\* A login loads an enabled agent and a logout unloads it; neither enables or disables one.
LEMMA LoginsKeep ==
    ASSUME SystemInv, LogIn \/ LogOut
    PROVE  SystemInv'
<1>1. /\ UNCHANGED <<system, move>> /\ logins' = logins + 1 /\ SystemShapes /\ AgentForm(agentSvc) /\ domain' \in BOOLEAN
      /\ logins \in Nat
  BY DEF LogIn, LogOut, SystemInv, SystemShapes
<1>2. PICK l \in BOOLEAN : agentSvc' = [agentSvc EXCEPT !.loaded = l]
  BY DEF LogIn, LogOut
<1>3. /\ AgentForm(agentSvc') /\ agentSvc'.loaded = l /\ agentSvc'.disabled = agentSvc.disabled
      /\ agentSvc'.plist = agentSvc.plist
  BY <1>1, <1>2 DEF AgentForm
<1>4. logins' \in Nat /\ logins' # 0
  BY <1>1
<1>5. SystemShapes'
  BY <1>1, <1>3, <1>4 DEF SystemShapes
<1>6. ServiceHasPlist' /\ AgentIsStopped'
  BY <1>1, <1>3 DEF SystemInv, ServiceHasPlist, AgentIsStopped, Clear
<1>7. (Kept => Kept') /\ (Settled => Settled') /\ Clear' = Clear
  BY <1>1, <1>3, <1>4 DEF Kept, Settled, Clear
<1>8. KeptUntilUndo' /\ RolledBackIsClean'
  BY <1>1, <1>7 DEF SystemInv, KeptUntilUndo, RolledBackIsClean
<1>9. UndoGoesOn'
  BY <1>1, <1>3, <1>4, <1>7 DEF SystemInv, UndoGoesOn, UndoStages
<1>. QED
  BY <1>5, <1>6, <1>8, <1>9 DEF SystemInv

\* One command of the rollback.  Each stage leads to the next one.
LEMMA RollbackStepKeeps ==
    ASSUME SystemInv, RollbackStep
    PROVE  SystemInv'
<1>. DEFINE step == Head(move.undo)
<1>1. /\ UNCHANGED <<domain, logins>> /\ SystemShapes /\ MoveForm(move) /\ SeenForm(move.seen) /\ AgentForm(agentSvc)
      /\ ServiceForm(system) /\ move.at = "undo" /\ move.op = "first" /\ UndoStages /\ move.undo # <<>>
  BY DEF RollbackStep, SystemInv, SystemShapes, UndoGoesOn
<1>2. CASE ~CanUndo(step)
  BY <1>1, <1>2, MoveChanges, MoveRests DEF RollbackStep
<1>3. CASE CanUndo(step)
  <2>1. /\ move' = [move EXCEPT !.undo = Tail(@)]
        /\ system' = CASE step = "bootout" -> [system EXCEPT !.loaded = FALSE]
                       [] step = "rm" -> [system EXCEPT !.plist = "none"]
                       [] OTHER -> system
        /\ agentSvc' = CASE step = "enable" -> [agentSvc EXCEPT !.disabled = FALSE]
                         [] step = "disable" -> [agentSvc EXCEPT !.disabled = TRUE]
                         [] step = "bootstrap" -> [agentSvc EXCEPT !.loaded = TRUE]
                         [] OTHER -> agentSvc
    BY <1>3 DEF RollbackStep
  <2>2. MoveForm(move') /\ move'.at = "undo" /\ move'.op = "first" /\ move'.seen = move.seen /\ move'.undo = Tail(move.undo)
    BY <1>1, <2>1 DEF MoveForm
  <2>3. ASSUME AgentForm(agentSvc'), agentSvc'.plist = agentSvc.plist, agentSvc'.loaded \in BOOLEAN,
               agentSvc'.disabled \in BOOLEAN, ServiceForm(system'), system'.loaded => system'.plist # "none",
               UndoStages'
        PROVE  SystemInv'
    <3>1. SystemShapes'
      BY <1>1, <2>2, <2>3 DEF SystemShapes
    <3>2. ServiceHasPlist'
      BY <2>2, <2>3 DEF ServiceHasPlist
    <3>. QED
      BY <2>2, <2>3, <3>1, <3>2 DEF SystemInv, AgentIsStopped, KeptUntilUndo, UndoGoesOn, RolledBackIsClean
  <2>4. AgentPlan(move.seen) \in Plans
    BY <1>1, PlanOfRollback
  <2>5. /\ agentSvc.loaded \in BOOLEAN /\ agentSvc.disabled \in BOOLEAN /\ move.seen.loaded \in BOOLEAN
        /\ move.seen.disabled \in BOOLEAN /\ (system.loaded => system.plist # "none")
    BY <1>1 DEF SystemShapes, SeenForm, SystemInv, ServiceHasPlist
  <2>6. CASE Kept /\ move.undo = <<"bootout", "rm">> \o AgentPlan(move.seen)
    <3>1. step = "bootout" /\ Tail(move.undo) = <<"rm">> \o AgentPlan(move.seen)
      BY <2>4, <2>6, PlanParts
    <3>2. /\ agentSvc' = agentSvc /\ system' = [system EXCEPT !.loaded = FALSE]
      BY <2>1, <3>1
    <3>3. ServiceForm(system') /\ system'.loaded = FALSE
      BY <1>1, <3>2 DEF ServiceForm
    <3>4. Kept'
      BY <1>1, <2>2, <2>6, <3>2 DEF Kept
    <3>5. UndoStages'
      BY <2>2, <3>1, <3>3, <3>4 DEF UndoStages
    <3>. QED
      BY <1>1, <2>3, <2>5, <3>2, <3>3, <3>5
  <2>7. CASE Kept /\ move.undo = <<"rm">> \o AgentPlan(move.seen) /\ ~system.loaded
    <3>1. step = "rm" /\ Tail(move.undo) = AgentPlan(move.seen)
      BY <2>4, <2>7, PlanParts
    <3>2. /\ agentSvc' = agentSvc /\ system' = [system EXCEPT !.plist = "none"]
      BY <2>1, <3>1
    <3>3. ServiceForm(system') /\ system'.loaded = system.loaded /\ system'.plist = "none"
      BY <1>1, <3>2 DEF ServiceForm
    <3>4. Kept' /\ Clear'
      BY <1>1, <2>2, <2>7, <3>2, <3>3 DEF Kept, Clear
    <3>5. UndoStages'
      BY <2>2, <3>1, <3>4 DEF UndoStages
    <3>. QED
      BY <1>1, <2>3, <2>5, <2>7, <3>2, <3>3, <3>5
  <2>8. CASE Kept /\ move.undo = AgentPlan(move.seen) /\ Clear
    <3>1. /\ ~move.seen.noDomain /\ step = "enable"
          /\ move.seen.loaded => Tail(move.undo) = IF move.seen.disabled THEN <<"bootstrap", "disable">> ELSE <<"bootstrap">>
          /\ ~move.seen.loaded => Tail(move.undo) = <<>> /\ ~move.seen.disabled
      BY <1>1, <2>8 DEF AgentPlan
    <3>2. /\ agentSvc' = [agentSvc EXCEPT !.disabled = FALSE] /\ system' = system
      BY <2>1, <3>1
    <3>3. /\ AgentForm(agentSvc') /\ agentSvc'.disabled = FALSE /\ agentSvc'.loaded = agentSvc.loaded
          /\ agentSvc'.plist = agentSvc.plist
      BY <1>1, <3>2 DEF AgentForm
    <3>4. Clear'
      BY <2>8, <3>2 DEF Clear
    <3>5. CASE move.seen.loaded
      <4>1. UndoStages'
        BY <2>2, <3>1, <3>3, <3>4, <3>5 DEF UndoStages
      <4>. QED
        BY <1>1, <2>3, <2>5, <3>2, <3>3, <4>1
    <3>6. CASE ~move.seen.loaded
      <4>1. Settled'
        BY <1>1, <2>2, <2>5, <2>8, <3>1, <3>3, <3>6 DEF Settled, Kept
      <4>2. UndoStages'
        BY <2>2, <3>1, <3>4, <3>6, <4>1 DEF UndoStages
      <4>. QED
        BY <1>1, <2>3, <2>5, <3>2, <3>3, <4>2
    <3>. QED
      BY <3>5, <3>6
  <2>9. CASE /\ Clear /\ ~move.seen.noDomain /\ move.seen.loaded /\ ~agentSvc.disabled
             /\ move.undo = IF move.seen.disabled THEN <<"bootstrap", "disable">> ELSE <<"bootstrap">>
    <3>1. /\ step = "bootstrap" /\ Tail(move.undo) = IF move.seen.disabled THEN <<"disable">> ELSE <<>>
      BY <2>9
    <3>2. /\ agentSvc' = [agentSvc EXCEPT !.loaded = TRUE] /\ system' = system
      BY <2>1, <3>1
    <3>3. /\ AgentForm(agentSvc') /\ agentSvc'.loaded = TRUE /\ agentSvc'.disabled = agentSvc.disabled
          /\ agentSvc'.plist = agentSvc.plist
      BY <1>1, <3>2 DEF AgentForm
    <3>4. Clear'
      BY <2>9, <3>2 DEF Clear
    <3>5. CASE move.seen.disabled
      <4>1. UndoStages'
        BY <2>2, <2>9, <3>1, <3>3, <3>4, <3>5 DEF UndoStages
      <4>. QED
        BY <1>1, <2>3, <2>5, <3>2, <3>3, <4>1
    <3>6. CASE ~move.seen.disabled
      <4>1. Settled'
        BY <1>1, <2>2, <2>5, <2>9, <3>3, <3>6 DEF Settled
      <4>2. UndoStages'
        BY <2>2, <3>1, <3>4, <3>6, <4>1 DEF UndoStages
      <4>. QED
        BY <1>1, <2>3, <2>5, <3>2, <3>3, <4>2
    <3>. QED
      BY <3>5, <3>6
  <2>10. CASE /\ Clear /\ ~move.seen.noDomain /\ move.seen.loaded /\ move.seen.disabled
              /\ move.undo = <<"disable">>
              /\ logins = 0 => agentSvc.loaded
    <3>1. step = "disable" /\ Tail(move.undo) = <<>>
      BY <2>10
    <3>2. /\ agentSvc' = [agentSvc EXCEPT !.disabled = TRUE] /\ system' = system
      BY <2>1, <3>1
    <3>3. /\ AgentForm(agentSvc') /\ agentSvc'.loaded = agentSvc.loaded /\ agentSvc'.disabled = TRUE
          /\ agentSvc'.plist = agentSvc.plist
      BY <1>1, <3>2 DEF AgentForm
    <3>4. Clear' /\ Settled'
      BY <1>1, <2>2, <2>5, <2>10, <3>2, <3>3 DEF Clear, Settled
    <3>5. UndoStages'
      BY <2>2, <3>1, <3>4 DEF UndoStages
    <3>. QED
      BY <1>1, <2>3, <2>5, <3>2, <3>3, <3>5
  <2>. QED
    BY <1>1, <2>6, <2>7, <2>8, <2>9, <2>10, Zenon DEF UndoStages
<1>. QED
  BY <1>2, <1>3

\* A transition to the system service that succeeds leaves no agent that a login would start beside
\* it; one that reports its rollback left no system service and the agent as it was observed,
\* whatever command failed and whenever the person logged in or out (InstallSystem, rollbackSystem).
THEOREM TransitionHonestThm == SystemSpec => []TransitionHonest
<1>1. SystemInv /\ [SystemNext]_systemVars => SystemInv'
  <2>. SUFFICES ASSUME SystemInv, [SystemNext]_systemVars PROVE SystemInv'
    OBVIOUS
  <2>1. CASE UNCHANGED <<domain, agentSvc, system, move, logins>>
    BY <2>1 DEF SystemInv, SystemShapes, ServiceHasPlist, AgentIsStopped, KeptUntilUndo, UndoGoesOn, RolledBackIsClean,
                UndoStages, Kept, Settled, Clear
  <2>2. CASE UNCHANGED systemVars \/ TakeLock("agent") \/ TakeLock("system")
    BY <2>1, <2>2 DEF systemVars, TakeLock
  <2>. QED
    BY <2>2, BeginKeeps, ObserveKeeps, AheadKeeps, FailsKeeps, AgentStepsKeep, ServiceStepsKeep, RollbackBeginKeeps,
       RollbackStepKeeps, RollbackEndsKeep, LoginsKeep DEF SystemNext
<1>2. SystemInv => TransitionHonest
  BY DEF SystemInv, AgentIsStopped, RolledBackIsClean, Clear, Settled, TransitionHonest
<1>. QED
  BY <1>1, <1>2, SystemInitInv, PTL DEF SystemSpec

-----------------------------------------------------------------------------
(* The lease of a launched session *)

CallForm(c) == c = [st |-> c.st, op |-> c.op, answer |-> c.answer, rev |-> c.rev, renewal |-> c.renewal]
LeaseForm(l) == l = [st |-> l.st, rev |-> l.rev, exp |-> l.exp, host |-> l.host]
SweptForm(s) == s = [st |-> s.st, rev |-> s.rev, host |-> s.host, exp |-> s.exp, life |-> s.life]

LeaseShapes ==
    /\ clock \in Nat \ {0} /\ setting \in LeaseSettings
    /\ CallForm(toolCall) /\ CallForm(renewCall)
    /\ LeaseForm(lease) /\ lease.rev \in Nat /\ lease.exp \in Nat /\ lease.host \in {0, 1}
    /\ SweptForm(swept) /\ swept.st \in {"none", "read", "due"} /\ swept.rev \in Nat /\ swept.exp \in Nat
    /\ sweptAt \in Nat /\ sweptAt <= clock
    /\ endedAt \in Nat /\ endedAt <= clock /\ process \in {0, 1, 2}

\* Before the host starts nothing was registered; after its end it does not start again, and what it
\* sent arrives within the unit of the clock in which it ended.
HostOnce ==
    /\ launcher \in {"start", "exec", "settings"} =>
         process = 0 /\ endedAt = 0 /\ lease.host = 0 /\ toolCall.st = "none" /\ renewCall.st = "none"
    /\ endedAt > 0 => launcher = "done" /\ process # 1
    /\ process = 2 => endedAt > 0 /\ endedAt < clock
    /\ endedAt > 0 /\ endedAt < clock => toolCall.st # "sent" /\ renewCall.st # "sent" /\ swept.st # "due"

\* A session that needs the sweep to stay active.
NeedsSweep == lease.st = "live" /\ lease.host = 1 /\ HostRuns /\ ~outage

\* The sweep takes no time: the row that it read is still there, or was written within this unit of
\* the clock, and then it has a new lifetime.
SweepInTime ==
    swept.st # "none" =>
        /\ daemonUp /\ sweptAt < clock /\ swept.host = 1 /\ swept.exp > clock
        /\ \E v \in LeaseSettings : swept.life = v.life
        /\ \/ lease.rev = swept.rev /\ lease.exp = swept.exp /\ lease.host = 1
           \/ lease.rev > swept.rev /\ (lease.st = "live" => lease.exp > clock + 1)

\* A finished sweep that saw the host leaves a lease that lasts until the next one.
SweptIsSafe == daemonUp /\ sweptAt = clock /\ NeedsSweep /\ ~missed => lease.exp > clock + 1

Longest(v) == \A w \in LeaseSettings : w.life <= v.life
LeaseBounded ==
    \A v \in LeaseSettings : Longest(v) => lease.exp <= (IF endedAt > 0 THEN endedAt ELSE clock) + v.life

LeaseInv ==
    /\ LeaseShapes /\ HostOnce /\ SweepInTime /\ SweptIsSafe /\ LeaseBounded /\ RunningNeverLapses
    /\ ~daemonUp => outage

LEMMA Lifetimes ==
    ASSUME NEW v \in LeaseSettings
    PROVE  v.life \in Nat /\ v.life > 1
<1>1. SweepEvery \in Nat \ {0} /\ v.life \in Nat /\ v.life >= 2 * SweepEvery
  BY LeaseAssumption
<1>. QED
  BY <1>1

LEMMA LeaseInitInv == LeaseInit => LeaseInv
<1>. SUFFICES ASSUME LeaseInit PROVE LeaseInv
  OBVIOUS
<1>1. /\ CallForm(NoCall) /\ NoCall.st = "none" /\ LeaseForm(NoLease) /\ NoLease.st = "none" /\ NoLease.rev = 0
      /\ NoLease.exp = 0 /\ NoLease.host = 0
      /\ SweptForm(NoSweep) /\ NoSweep.st = "none" /\ NoSweep.rev = 0 /\ NoSweep.exp = 0
  BY DEF NoCall, NoLease, NoSweep, CallForm, LeaseForm, SweptForm
<1>2. /\ clock = 1 /\ setting = DefaultLease /\ launcher = "start" /\ process = 0 /\ endedAt = 0 /\ lease = NoLease
      /\ toolCall = NoCall /\ renewCall = NoCall /\ swept = NoSweep /\ sweptAt = 0 /\ daemonUp
  BY DEF LeaseInit
<1>3. LeaseShapes
  BY <1>1, <1>2, LeaseAssumption DEF LeaseShapes
<1>4. HostOnce /\ SweepInTime /\ SweptIsSafe /\ RunningNeverLapses
  BY <1>1, <1>2 DEF HostOnce, SweepInTime, SweptIsSafe, RunningNeverLapses, NeedsSweep
<1>5. LeaseBounded
  BY <1>1, <1>2, Lifetimes DEF LeaseBounded
<1>. QED
  BY <1>2, <1>3, <1>4, <1>5 DEF LeaseInv

\* Steps of the launcher, of the server and of the settings: a call is sent only while the host runs.
LEMMA CallsKeep ==
    ASSUME LeaseInv, UNCHANGED <<clock, process, endedAt, lease, swept, sweptAt, missed, daemonUp, outage>>,
           setting' \in LeaseSettings, CallForm(toolCall'), CallForm(renewCall'),
           toolCall'.st \in {toolCall.st, "none"} \/ HostRuns,
           renewCall'.st \in {renewCall.st, "none"} \/ HostRuns,
           launcher' = launcher \/ (launcher' \in {"done", "retire"} /\ launcher # "done")
    PROVE  LeaseInv'
<1>1. LeaseShapes'
  BY DEF LeaseInv, LeaseShapes
<1>2. HostOnce'
  BY DEF LeaseInv, HostOnce, HostRuns
<1>. QED
  BY <1>1, <1>2 DEF LeaseInv, SweepInTime, SweptIsSafe, NeedsSweep, HostRuns, LeaseBounded, RunningNeverLapses

LEMMA ServerStepsKeep ==
    ASSUME LeaseInv, \/ SetLaunchJob \/ RetireLaunch \/ ToolCallRegisters \/ ToolCallReplies \/ RenewFires
                     \/ RenewReplies \/ CallLost \/ SetSettings
    PROVE  LeaseInv'
<1>1. CallForm(toolCall) /\ CallForm(renewCall) /\ setting \in LeaseSettings
  BY DEF LeaseInv, LeaseShapes
<1>2. UNCHANGED <<clock, process, endedAt, lease, swept, sweptAt, missed, daemonUp, outage>>
  BY DEF SetLaunchJob, RetireLaunch, ToolCallRegisters, ToolCallReplies, RenewFires, RenewReplies, CallLost, SetSettings,
         hostProcess, sweepVars
<1>3. setting' \in LeaseSettings
  BY <1>1 DEF SetLaunchJob, RetireLaunch, ToolCallRegisters, ToolCallReplies, RenewFires, RenewReplies, CallLost, SetSettings
<1>4. launcher' = launcher \/ (launcher' \in {"done", "retire"} /\ launcher # "done")
  BY DEF SetLaunchJob, RetireLaunch, ToolCallRegisters, ToolCallReplies, RenewFires, RenewReplies, CallLost, SetSettings,
         launchVars
<1>5. CallForm(NoCall) /\ NoCall.st = "none"
  BY DEF NoCall, CallForm
<1>6. \/ UNCHANGED <<toolCall, renewCall>>
      \/ UNCHANGED renewCall /\ toolCall' = NoCall
      \/ UNCHANGED toolCall /\ renewCall' = NoCall
      \/ HostRuns /\ UNCHANGED renewCall /\ toolCall' = [NoCall EXCEPT !.st = "sent", !.op = "register"]
      \/ HostRuns /\ UNCHANGED toolCall /\ renewCall' = [NoCall EXCEPT !.st = "sent", !.op = "register"]
      \/ HostRuns /\ UNCHANGED toolCall /\ renewCall' = [NoCall EXCEPT !.st = "sent", !.op = "renew", !.rev = known.rev]
  BY DEF SetLaunchJob, RetireLaunch, ToolCallRegisters, ToolCallReplies, RenewFires, RenewReplies, CallLost, SetSettings,
         serverCalls
<1>7. /\ CallForm([NoCall EXCEPT !.st = "sent", !.op = "register"])
      /\ CallForm([NoCall EXCEPT !.st = "sent", !.op = "renew", !.rev = known.rev])
  <2>1. ASSUME NEW c, NEW o, NEW n, c = [NoCall EXCEPT !.st = "sent", !.op = o, !.rev = n]
        PROVE  CallForm(c)
    BY <2>1 DEF NoCall, CallForm
  <2>2. ASSUME NEW c, NEW o, c = [NoCall EXCEPT !.st = "sent", !.op = o]
        PROVE  CallForm(c)
    BY <2>2 DEF NoCall, CallForm
  <2>. QED
    BY <2>1, <2>2
<1>8. /\ CallForm(toolCall') /\ CallForm(renewCall')
      /\ toolCall'.st \in {toolCall.st, "none"} \/ HostRuns
      /\ renewCall'.st \in {renewCall.st, "none"} \/ HostRuns
  BY <1>1, <1>5, <1>6, <1>7
<1>. QED
  BY <1>2, <1>3, <1>4, <1>8, CallsKeep

\* The host starts, once.
LEMMA StartsKeep ==
    ASSUME LeaseInv, CreateLaunch \/ LaunchExec \/ StartJob
    PROVE  LeaseInv'
<1>1. UNCHANGED <<clock, setting, endedAt, lease, toolCall, renewCall, swept, sweptAt, missed, daemonUp, outage>>
  BY DEF CreateLaunch, LaunchExec, StartJob, otherCalls, sweepVars
<1>2. /\ launcher \in {"start", "exec", "settings"}
      /\ \/ process' = 1 /\ launcher' \in {"done", "job", "retire"}
         \/ process' = process /\ launcher' \in {"exec", "settings", "retire"}
  BY DEF CreateLaunch, LaunchExec, StartJob, HostStarts
<1>3. process = 0 /\ endedAt = 0 /\ lease.host = 0 /\ toolCall.st = "none" /\ renewCall.st = "none"
  BY <1>2 DEF LeaseInv, HostOnce
<1>4. LeaseShapes'
  BY <1>1, <1>2 DEF LeaseInv, LeaseShapes
<1>5. HostOnce'
  BY <1>1, <1>2, <1>3 DEF HostOnce
<1>6. SweepInTime' /\ LeaseBounded'
  BY <1>1 DEF LeaseInv, SweepInTime, LeaseBounded
<1>7. SweptIsSafe' /\ RunningNeverLapses'
  BY <1>1, <1>3 DEF SweptIsSafe, RunningNeverLapses, NeedsSweep
<1>. QED
  BY <1>1, <1>4, <1>5, <1>6, <1>7 DEF LeaseInv

\* A write of the row with a new lifetime, or one that retires it.
LEMMA RowKeeps ==
    ASSUME LeaseInv, UNCHANGED <<clock, setting, launcher, process, endedAt, swept, sweptAt, daemonUp>>,
           CallForm(toolCall'), CallForm(renewCall'),
           toolCall'.st \in {toolCall.st, "answer"}, renewCall'.st \in {renewCall.st, "answer"},
           toolCall'.st # toolCall.st => toolCall.st = "sent", renewCall'.st # renewCall.st => renewCall.st = "sent",
           LeaseForm(lease'), lease'.rev = lease.rev + 1, lease'.host \in {0, 1},
           launcher \in {"start", "exec", "settings"} => lease'.host = lease.host,
           daemonUp, outage' \in {outage, FALSE},
           \/ lease'.st # "live" /\ lease'.exp = lease.exp
           \/ lease'.exp = clock + setting.life /\ (endedAt > 0 => endedAt = clock)
    PROVE  LeaseInv'
<1>1. /\ clock \in Nat /\ lease.rev \in Nat /\ lease.exp \in Nat /\ setting \in LeaseSettings /\ swept.rev \in Nat
      /\ endedAt \in Nat
  BY DEF LeaseInv, LeaseShapes
<1>2. setting.life \in Nat /\ setting.life > 1
  BY <1>1, Lifetimes
<1>3. lease'.st = "live" => lease'.exp > clock + 1 /\ lease'.exp > clock
  BY <1>1, <1>2
<1>4. lease'.exp \in Nat /\ lease'.rev \in Nat /\ (lease.rev >= swept.rev => lease'.rev > swept.rev)
  BY <1>1, <1>2
<1>5. LeaseShapes'
  BY <1>4 DEF LeaseInv, LeaseShapes
<1>6. HostOnce'
  BY DEF LeaseInv, HostOnce
<1>7. SweepInTime'
  <2>1. swept.st # "none" => lease.rev >= swept.rev
    BY <1>1 DEF LeaseInv, SweepInTime
  <2>. QED
    BY <1>3, <1>4, <2>1 DEF LeaseInv, SweepInTime
<1>8. SweptIsSafe' /\ RunningNeverLapses'
  BY <1>3 DEF SweptIsSafe, RunningNeverLapses, NeedsSweep
<1>9. LeaseBounded'
  <2>. SUFFICES ASSUME NEW v \in LeaseSettings, Longest(v)
                PROVE  lease'.exp <= (IF endedAt > 0 THEN endedAt ELSE clock) + v.life
    BY DEF LeaseBounded, Longest
  <2>1. v.life \in Nat /\ setting.life <= v.life /\ lease.exp <= (IF endedAt > 0 THEN endedAt ELSE clock) + v.life
    BY <1>1, Lifetimes DEF LeaseInv, LeaseBounded, Longest
  <2>. QED
    BY <1>1, <1>2, <2>1
<1>. QED
  BY <1>5, <1>6, <1>7, <1>8, <1>9 DEF LeaseInv

LEMMA CallAnswered ==
    ASSUME NEW c, CallForm(c), NEW answer
    PROVE  CallForm(Answered(c, answer)) /\ Answered(c, answer).st = "answer"
<1>1. PICK a : a = Answered(c, answer)
  OBVIOUS
<1>2. a = [c EXCEPT !.st = "answer", !.answer = answer, !.rev = lease'.rev, !.renewal = setting.renewal]
  BY <1>1 DEF Answered
<1>3. CallForm(a) /\ a.st = "answer"
  BY <1>2 DEF CallForm
<1>. QED
  BY <1>1, <1>3

\* Calls arrive while the host runs, or within the unit in which it ended.
LEMMA ArrivesKeeps ==
    ASSUME LeaseInv, ToolCallArrives \/ RenewArrives
    PROVE  LeaseInv'
<1>1. /\ UNCHANGED <<clock, setting, launcher, process, endedAt, swept, sweptAt, daemonUp>> /\ daemonUp
      /\ toolCall.st = "sent" \/ renewCall.st = "sent"
  BY DEF ToolCallArrives, RenewArrives, launchVars, hostProcess, sweepVars
<1>2. /\ CallForm(toolCall) /\ CallForm(renewCall) /\ LeaseForm(lease) /\ process \in {0, 1, 2} /\ lease.host \in {0, 1}
      /\ endedAt \in Nat /\ clock \in Nat /\ endedAt <= clock
  BY DEF LeaseInv, LeaseShapes
<1>3. (endedAt > 0 => endedAt = clock) /\ launcher \notin {"start", "exec", "settings"}
  BY <1>1, <1>2 DEF LeaseInv, HostOnce
<1>4. process \in {0, 1}
  BY <1>2, <1>3 DEF LeaseInv, HostOnce
<1>5. /\ CallForm(toolCall') /\ CallForm(renewCall')
      /\ toolCall'.st \in {toolCall.st, "answer"} /\ renewCall'.st \in {renewCall.st, "answer"}
      /\ toolCall'.st # toolCall.st => toolCall.st = "sent"
      /\ renewCall'.st # renewCall.st => renewCall.st = "sent"
  BY <1>2, CallAnswered DEF ToolCallArrives, RenewArrives
<1>6. \/ (\E host \in {0, process} : lease' = Registered(host)) /\ outage' = FALSE
      \/ lease' = Renewed /\ UNCHANGED outage
      \/ UNCHANGED <<lease, outage, missed>>
  <2>1. RegisterLease => \/ (\E host \in {0, process} : lease' = Registered(host)) /\ outage' = FALSE
                         \/ UNCHANGED <<lease, outage, missed>>
    BY DEF RegisterLease
  <2>2. ToolCallArrives => RegisterLease
    BY DEF ToolCallArrives
  <2>3. RenewArrives => \/ RegisterLease
                        \/ lease' = Renewed /\ UNCHANGED outage
                        \/ UNCHANGED <<lease, outage, missed>>
    BY DEF RenewArrives
  <2>. QED
    BY <2>1, <2>2, <2>3
<1>7. CASE (\E host \in {0, process} : lease' = Registered(host)) /\ outage' = FALSE
  <2>1. /\ LeaseForm(lease') /\ lease'.rev = lease.rev + 1 /\ lease'.exp = clock + setting.life /\ lease'.host \in {0, 1}
    BY <1>4, <1>7 DEF Registered, LeaseForm
  <2>. QED
    BY <1>1, <1>3, <1>5, <1>7, <2>1, RowKeeps
<1>8. CASE lease' = Renewed /\ UNCHANGED outage
  <2>1. /\ LeaseForm(lease') /\ lease'.rev = lease.rev + 1 /\ lease'.exp = clock + setting.life /\ lease'.host = lease.host
    BY <1>2, <1>8 DEF Renewed, LeaseForm
  <2>. QED
    BY <1>1, <1>2, <1>3, <1>5, <1>8, <2>1, RowKeeps
<1>9. CASE UNCHANGED <<lease, outage, missed>>
  <2>1. LeaseShapes'
    BY <1>1, <1>5, <1>9 DEF LeaseInv, LeaseShapes
  <2>2. HostOnce'
    BY <1>1, <1>5, <1>9 DEF LeaseInv, HostOnce
  <2>. QED
    BY <1>1, <1>9, <2>1, <2>2 DEF LeaseInv, SweepInTime, SweptIsSafe, NeedsSweep, HostRuns, LeaseBounded, RunningNeverLapses
<1>. QED
  BY <1>6, <1>7, <1>8, <1>9

LEMMA RetireKeeps ==
    ASSUME LeaseInv, RetireSession
    PROVE  LeaseInv'
<1>1. /\ UNCHANGED <<clock, setting, launcher, process, endedAt, swept, sweptAt, missed, daemonUp, toolCall, renewCall, outage>>
      /\ daemonUp /\ lease' = [lease EXCEPT !.st = "retired", !.rev = @ + 1]
  BY DEF RetireSession, launchVars, hostProcess, sweepVars, serverCalls
<1>2. CallForm(toolCall) /\ CallForm(renewCall) /\ LeaseForm(lease) /\ lease.host \in {0, 1}
  BY DEF LeaseInv, LeaseShapes
<1>3. /\ LeaseForm(lease') /\ lease'.rev = lease.rev + 1 /\ lease'.exp = lease.exp /\ lease'.host = lease.host
      /\ lease'.st = "retired"
  BY <1>1, <1>2 DEF LeaseForm
<1>. QED
  BY <1>1, <1>2, <1>3, RowKeeps

\* The sweep reads, looks and writes within one unit of the clock.
LEMMA SweepReadKeeps ==
    ASSUME LeaseInv, SweepReads
    PROVE  LeaseInv'
<1>1. /\ UNCHANGED <<clock, setting, launcher, process, endedAt, lease, toolCall, renewCall, missed, daemonUp, outage>>
      /\ daemonUp /\ swept.st = "none" /\ sweptAt < clock
  BY DEF SweepReads, launchVars, hostProcess, serverCalls
<1>2. /\ clock \in Nat \ {0} /\ lease.rev \in Nat /\ lease.exp \in Nat /\ lease.host \in {0, 1} /\ setting \in LeaseSettings
  BY DEF LeaseInv, LeaseShapes
<1>3. CASE LeaseActive /\ lease.host > 0
  <2>1. /\ swept' = [st |-> "read", rev |-> lease.rev, host |-> lease.host, exp |-> lease.exp, life |-> setting.life]
        /\ UNCHANGED sweptAt
    BY <1>3 DEF SweepReads
  <2>2. /\ SweptForm(swept') /\ swept'.st = "read" /\ swept'.rev = lease.rev /\ swept'.host = lease.host
        /\ swept'.exp = lease.exp /\ swept'.life = setting.life
    BY <2>1 DEF SweptForm
  <2>3. LeaseShapes'
    BY <1>1, <1>2, <2>1, <2>2 DEF LeaseInv, LeaseShapes
  <2>4. HostOnce'
    BY <1>1, <2>2 DEF LeaseInv, HostOnce
  <2>5. lease.host = 1 /\ lease.exp > clock
    BY <1>2, <1>3 DEF LeaseActive
  <2>6. SweepInTime'
    BY <1>1, <1>2, <2>1, <2>2, <2>5 DEF SweepInTime
  <2>. QED
    BY <1>1, <2>1, <2>3, <2>4, <2>6 DEF LeaseInv, SweptIsSafe, NeedsSweep, HostRuns, LeaseBounded, RunningNeverLapses
<1>4. CASE ~(LeaseActive /\ lease.host > 0)
  <2>1. sweptAt' = clock /\ UNCHANGED swept
    BY <1>4 DEF SweepReads
  <2>2. LeaseShapes'
    BY <1>1, <1>2, <2>1 DEF LeaseInv, LeaseShapes
  <2>3. ~(NeedsSweep /\ ~missed)
    BY <1>2, <1>4 DEF LeaseInv, RunningNeverLapses, NeedsSweep, LeaseActive, HostRuns
  <2>4. SweptIsSafe'
    BY <1>1, <2>3 DEF SweptIsSafe, NeedsSweep, HostRuns
  <2>. QED
    BY <1>1, <2>1, <2>2, <2>4 DEF LeaseInv, HostOnce, SweepInTime, HostRuns, LeaseBounded, RunningNeverLapses
<1>. QED
  BY <1>3, <1>4

\* A sweep that did not see the host, or failed, writes nothing.
LEMMA SweepMissedKeeps ==
    ASSUME LeaseInv, UNCHANGED <<clock, setting, launcher, process, endedAt, lease, toolCall, renewCall, daemonUp, outage>>,
           swept' = NoSweep, sweptAt' = clock, missed' = TRUE
    PROVE  LeaseInv'
<1>1. SweptForm(swept') /\ swept'.st = "none" /\ swept'.rev \in Nat /\ swept'.exp \in Nat
  BY DEF NoSweep, SweptForm
<1>2. LeaseShapes'
  BY <1>1 DEF LeaseInv, LeaseShapes
<1>3. HostOnce' /\ SweepInTime'
  BY <1>1 DEF LeaseInv, HostOnce, SweepInTime
<1>. QED
  BY <1>2, <1>3 DEF LeaseInv, SweptIsSafe, RunningNeverLapses, LeaseBounded, Longest

LEMMA SweepFailKeeps ==
    ASSUME LeaseInv, SweepFails
    PROVE  LeaseInv'
<1>1. /\ UNCHANGED <<clock, setting, launcher, process, endedAt, lease, toolCall, renewCall, daemonUp, outage>>
      /\ swept' = NoSweep /\ sweptAt' = clock /\ missed' = TRUE
  BY DEF SweepFails, launchVars, hostProcess, serverCalls
<1>. QED
  BY <1>1, SweepMissedKeeps

LEMMA SweepLookKeeps ==
    ASSUME LeaseInv, SweepLooks
    PROVE  LeaseInv'
<1>1. /\ UNCHANGED <<clock, setting, launcher, process, endedAt, lease, toolCall, renewCall, daemonUp, outage>>
      /\ swept.st = "read"
  BY DEF SweepLooks, launchVars, hostProcess, serverCalls
<1>2. /\ clock \in Nat \ {0} /\ lease.rev \in Nat /\ lease.exp \in Nat /\ lease.host \in {0, 1} /\ SweptForm(swept)
      /\ swept.exp \in Nat /\ endedAt \in Nat /\ endedAt <= clock
  BY DEF LeaseInv, LeaseShapes
<1>c. CASE swept' = NoSweep /\ sweptAt' = clock /\ missed' = TRUE
  BY <1>1, <1>c, SweepMissedKeeps
<1>3. CASE /\ HostUnchanged(swept) /\ SweepDue(swept)
           /\ swept' = [swept EXCEPT !.st = "due"] /\ UNCHANGED <<sweptAt, missed>>
  <2>1. swept' = [swept EXCEPT !.st = "due"] /\ UNCHANGED <<sweptAt, missed>>
    BY <1>3
  <2>2. /\ SweptForm(swept') /\ swept'.st = "due" /\ swept'.rev = swept.rev /\ swept'.host = swept.host
        /\ swept'.exp = swept.exp /\ swept'.life = swept.life
    BY <1>2, <2>1 DEF SweptForm
  <2>3. LeaseShapes'
    BY <1>1, <2>1, <2>2 DEF LeaseInv, LeaseShapes
  <2>4. process = 1
    BY <1>1, <1>3 DEF LeaseInv, SweepInTime, HostUnchanged
  <2>5. HostOnce'
    BY <1>1, <2>2, <2>4 DEF LeaseInv, HostOnce
  <2>6. SweepInTime'
    BY <1>1, <2>1, <2>2 DEF LeaseInv, SweepInTime
  <2>. QED
    BY <1>1, <2>1, <2>3, <2>5, <2>6 DEF LeaseInv, SweptIsSafe, NeedsSweep, HostRuns, LeaseBounded, RunningNeverLapses
<1>4. CASE ~(HostUnchanged(swept) /\ SweepDue(swept)) /\ swept' = NoSweep /\ sweptAt' = clock
  <2>1. swept' = NoSweep /\ sweptAt' = clock
    BY <1>4
  <2>2. SweptForm(swept') /\ swept'.st = "none" /\ swept'.rev \in Nat /\ swept'.exp \in Nat
    BY <2>1 DEF NoSweep, SweptForm
  <2>3. LeaseShapes'
    BY <1>1, <1>2, <2>1, <2>2 DEF LeaseInv, LeaseShapes
  <2>4. HostOnce' /\ SweepInTime'
    BY <1>1, <2>2 DEF LeaseInv, HostOnce, SweepInTime
  <2>5. NeedsSweep => lease.exp > clock + 1
    <3>. SUFFICES ASSUME NeedsSweep PROVE lease.exp > clock + 1
      OBVIOUS
    <3>1. swept.host = 1 /\ (lease.exp = swept.exp \/ lease.exp > clock + 1)
      BY <1>1 DEF LeaseInv, SweepInTime, NeedsSweep
    <3>2. ~SweepDue(swept)
      BY <1>4, <3>1 DEF NeedsSweep, HostRuns, HostUnchanged
    <3>3. PICK v \in LeaseSettings : swept.life = v.life
      BY <1>1 DEF LeaseInv, SweepInTime
    <3>4. swept.exp - clock >= 2 * SweepEvery
      <4>. DEFINE half == swept.life \div 2
      <4>1. half \in Nat /\ SweepEvery \in Nat \ {0}
        BY <3>3, Lifetimes, LeaseAssumption
      <4>2. ~(swept.exp - clock < IF half > 2 * SweepEvery THEN half ELSE 2 * SweepEvery)
        BY <3>2 DEF SweepDue
      <4>. HIDE DEF half
      <4>. QED
        BY <1>2, <4>1, <4>2
    <3>5. swept.exp > clock + 1
      BY <1>2, <3>4, LeaseAssumption
    <3>. QED
      BY <3>1, <3>5
  <2>6. SweptIsSafe'
    BY <1>1, <2>5 DEF SweptIsSafe, NeedsSweep, HostRuns
  <2>7. RunningNeverLapses'
    <3>1. NeedsSweep => lease.exp > clock
      BY <1>2, <2>5
    <3>. QED
      BY <1>1, <3>1 DEF RunningNeverLapses, NeedsSweep, HostRuns
  <2>. QED
    BY <1>1, <2>3, <2>4, <2>6, <2>7 DEF LeaseInv, HostRuns, LeaseBounded
<1>5. \/ /\ HostUnchanged(swept) /\ SweepDue(swept)
         /\ swept' = [swept EXCEPT !.st = "due"] /\ UNCHANGED <<sweptAt, missed>>
      \/ ~(HostUnchanged(swept) /\ SweepDue(swept)) /\ swept' = NoSweep /\ sweptAt' = clock
      \/ swept' = NoSweep /\ sweptAt' = clock /\ missed' = TRUE
  BY DEF SweepLooks
<1>. QED
  BY <1>c, <1>3, <1>4, <1>5

LEMMA SweepWriteKeeps ==
    ASSUME LeaseInv, SweepWrites
    PROVE  LeaseInv'
<1>1. /\ UNCHANGED <<clock, setting, launcher, process, endedAt, toolCall, renewCall, daemonUp, outage>>
      /\ swept.st = "due" /\ daemonUp /\ swept' = NoSweep /\ sweptAt' = clock
  BY DEF SweepWrites, launchVars, hostProcess, serverCalls
<1>2. /\ clock \in Nat \ {0} /\ lease.rev \in Nat /\ lease.exp \in Nat /\ lease.host \in {0, 1} /\ LeaseForm(lease)
      /\ swept.rev \in Nat /\ swept.exp \in Nat /\ endedAt \in Nat /\ endedAt <= clock
  BY DEF LeaseInv, LeaseShapes
<1>3. PICK v \in LeaseSettings : swept.life = v.life
  BY <1>1 DEF LeaseInv, SweepInTime
<1>4. swept.life \in Nat /\ swept.life > 1
  BY <1>3, Lifetimes
<1>5. SweptForm(swept') /\ swept'.st = "none" /\ swept'.rev \in Nat /\ swept'.exp \in Nat
  BY <1>1 DEF NoSweep, SweptForm
<1>6. endedAt > 0 => endedAt = clock
  BY <1>1, <1>2 DEF LeaseInv, HostOnce
<1>7. CASE StillDue(swept)
  <2>1. lease' = [lease EXCEPT !.exp = clock + swept.life]
    BY <1>7 DEF SweepWrites
  <2>2. /\ LeaseForm(lease') /\ lease'.exp = clock + swept.life /\ lease'.rev = lease.rev /\ lease'.host = lease.host
        /\ lease'.st = lease.st
    BY <1>2, <2>1 DEF LeaseForm
  <2>3. lease'.exp \in Nat /\ lease'.exp > clock /\ lease'.exp > clock + 1
    BY <1>2, <1>4, <2>2
  <2>4. LeaseShapes'
    BY <1>1, <1>2, <1>5, <2>2, <2>3 DEF LeaseInv, LeaseShapes
  <2>5. HostOnce' /\ SweepInTime'
    BY <1>1, <1>5, <2>2 DEF LeaseInv, HostOnce, SweepInTime
  <2>6. SweptIsSafe' /\ RunningNeverLapses'
    BY <1>1, <2>3 DEF SweptIsSafe, RunningNeverLapses
  <2>7. LeaseBounded'
    <3>. SUFFICES ASSUME NEW w \in LeaseSettings, Longest(w)
                  PROVE  lease'.exp <= (IF endedAt > 0 THEN endedAt ELSE clock) + w.life
      BY <1>1 DEF LeaseBounded, Longest
    <3>1. w.life \in Nat /\ swept.life <= w.life
      BY <1>3, Lifetimes DEF Longest
    <3>. QED
      BY <1>2, <1>4, <1>6, <2>2, <3>1
  <2>. QED
    BY <1>1, <2>4, <2>5, <2>6, <2>7 DEF LeaseInv
<1>8. CASE ~StillDue(swept)
  <2>1. UNCHANGED lease
    BY <1>8 DEF SweepWrites
  <2>2. LeaseShapes'
    BY <1>1, <1>2, <1>5, <2>1 DEF LeaseInv, LeaseShapes
  <2>3. HostOnce' /\ SweepInTime'
    BY <1>1, <1>5, <2>1 DEF LeaseInv, HostOnce, SweepInTime
  <2>4. NeedsSweep => lease.exp > clock + 1
    <3>. SUFFICES ASSUME NeedsSweep, ~(lease.exp > clock + 1) PROVE FALSE
      OBVIOUS
    <3>1. lease.rev = swept.rev /\ lease.exp = swept.exp /\ lease.host = swept.host /\ swept.exp > clock
      BY <1>1 DEF LeaseInv, SweepInTime, NeedsSweep
    <3>2. lease.exp < clock + swept.life
      BY <1>2, <1>4
    <3>. QED
      BY <1>8, <3>1, <3>2 DEF StillDue
  <2>5. SweptIsSafe'
    BY <1>1, <2>1, <2>4 DEF SweptIsSafe, NeedsSweep, HostRuns
  <2>6. RunningNeverLapses'
    <3>1. NeedsSweep => lease.exp > clock
      BY <1>2, <2>4
    <3>. QED
      BY <1>1, <2>1, <3>1 DEF RunningNeverLapses, NeedsSweep, HostRuns
  <2>. QED
    BY <1>1, <2>1, <2>2, <2>3, <2>5, <2>6 DEF LeaseInv, HostRuns, LeaseBounded
<1>. QED
  BY <1>7, <1>8

LEMMA HostStepsKeep ==
    ASSUME LeaseInv, HostEnds \/ PidReused
    PROVE  LeaseInv'
<1>1. UNCHANGED <<clock, setting, launcher, lease, toolCall, renewCall, swept, sweptAt, missed, daemonUp, outage>>
  BY DEF HostEnds, PidReused, launchVars, serverCalls, sweepVars
<1>2. clock \in Nat \ {0} /\ endedAt \in Nat
  BY DEF LeaseInv, LeaseShapes
<1>3. \/ process = 1 /\ launcher = "done" /\ process' = 0 /\ endedAt' = clock
      \/ process = 0 /\ endedAt > 0 /\ endedAt < clock /\ process' = 2 /\ endedAt' = endedAt
  BY DEF HostEnds, PidReused, HostRuns
<1>4. LeaseShapes'
  BY <1>1, <1>2, <1>3 DEF LeaseInv, LeaseShapes
<1>5. HostOnce'
  BY <1>1, <1>2, <1>3 DEF LeaseInv, HostOnce
<1>6. SweepInTime'
  BY <1>1 DEF LeaseInv, SweepInTime
<1>7. SweptIsSafe' /\ RunningNeverLapses'
  BY <1>3 DEF SweptIsSafe, RunningNeverLapses, NeedsSweep, HostRuns
<1>8. LeaseBounded'
  <2>1. endedAt > 0 => process # 1
    BY DEF LeaseInv, HostOnce
  <2>2. (IF endedAt' > 0 THEN endedAt' ELSE clock) = (IF endedAt > 0 THEN endedAt ELSE clock)
    BY <1>2, <1>3, <2>1
  <2>. QED
    BY <1>1, <2>2 DEF LeaseInv, LeaseBounded, Longest
<1>. QED
  BY <1>1, <1>4, <1>5, <1>6, <1>7, <1>8 DEF LeaseInv

LEMMA DaemonGoesKeeps ==
    ASSUME LeaseInv, DaemonGoes \/ DaemonReturns
    PROVE  LeaseInv'
<1>1. UNCHANGED <<clock, setting, launcher, process, endedAt, lease, toolCall, renewCall>>
  BY DEF DaemonGoes, DaemonReturns, launchVars, hostProcess, serverCalls
<1>2. outage' /\ swept'.st = "none" /\ SweptForm(swept') /\ swept'.rev \in Nat /\ swept'.exp \in Nat
  <2>1. CASE DaemonGoes
    BY <2>1 DEF DaemonGoes, NoSweep, SweptForm
  <2>2. CASE DaemonReturns
    BY <2>2 DEF DaemonReturns, LeaseInv, SweepInTime, LeaseShapes
  <2>. QED
    BY <2>1, <2>2
<1>3. sweptAt' \in Nat /\ sweptAt' <= clock
  BY DEF DaemonGoes, DaemonReturns, LeaseInv, LeaseShapes
<1>4. LeaseShapes'
  BY <1>1, <1>2, <1>3 DEF LeaseInv, LeaseShapes
<1>5. HostOnce'
  BY <1>1, <1>2 DEF LeaseInv, HostOnce
<1>. QED
  BY <1>1, <1>2, <1>4, <1>5 DEF LeaseInv, SweepInTime, SweptIsSafe, NeedsSweep, LeaseBounded, RunningNeverLapses

\* The clock moves on only when the sweep of the unit is over.
LEMMA TickKeeps ==
    ASSUME LeaseInv, LeaseTick
    PROVE  LeaseInv'
<1>1. /\ UNCHANGED <<setting, launcher, process, endedAt, lease, toolCall, renewCall, swept, sweptAt, missed, daemonUp, outage>>
      /\ clock' = clock + 1 /\ (daemonUp => sweptAt = clock) /\ toolCall.st # "sent" /\ renewCall.st # "sent"
  BY DEF LeaseTick, NothingInFlight, launchVars, hostProcess, serverCalls, sweepVars
<1>2. /\ clock \in Nat \ {0} /\ endedAt \in Nat /\ sweptAt \in Nat /\ lease.exp \in Nat /\ endedAt <= clock
      /\ sweptAt <= clock
  BY DEF LeaseInv, LeaseShapes
<1>3. swept.st = "none"
  BY <1>1, <1>2 DEF LeaseInv, SweepInTime
<1>4. clock' \in Nat \ {0} /\ endedAt <= clock' /\ sweptAt <= clock' /\ sweptAt # clock' /\ (endedAt < clock => endedAt < clock')
  BY <1>1, <1>2
<1>5. LeaseShapes'
  BY <1>1, <1>4 DEF LeaseInv, LeaseShapes
<1>6. HostOnce'
  BY <1>1, <1>3, <1>4 DEF LeaseInv, HostOnce
<1>7. SweepInTime' /\ SweptIsSafe'
  BY <1>1, <1>3, <1>4 DEF SweepInTime, SweptIsSafe
<1>8. RunningNeverLapses'
  <2>1. NeedsSweep /\ ~missed => lease.exp > clock + 1
    BY <1>1 DEF LeaseInv, SweptIsSafe, NeedsSweep
  <2>. QED
    BY <1>1, <2>1 DEF RunningNeverLapses, NeedsSweep, HostRuns
<1>9. LeaseBounded'
  <2>. SUFFICES ASSUME NEW v \in LeaseSettings, Longest(v)
                PROVE  lease.exp <= (IF endedAt > 0 THEN endedAt ELSE clock') + v.life
    BY <1>1 DEF LeaseBounded, Longest
  <2>1. v.life \in Nat /\ lease.exp <= (IF endedAt > 0 THEN endedAt ELSE clock) + v.life
    BY Lifetimes DEF LeaseInv, LeaseBounded
  <2>. QED
    BY <1>1, <1>2, <2>1
<1>. QED
  BY <1>1, <1>5, <1>6, <1>7, <1>8, <1>9 DEF LeaseInv

LEMMA LeaseInvHolds == LeaseSpec => []LeaseInv
<1>1. LeaseInv /\ [LeaseNext]_leaseVars => LeaseInv'
  <2>. SUFFICES ASSUME LeaseInv, [LeaseNext]_leaseVars PROVE LeaseInv'
    OBVIOUS
  <2>1. CASE UNCHANGED leaseVars
    <3>1. /\ UNCHANGED <<clock, setting, launcher, process, endedAt, lease, toolCall, renewCall, swept, sweptAt, missed,
                         daemonUp, outage>>
      BY <2>1 DEF leaseVars, launchVars, hostProcess, serverCalls, sweepVars
    <3>2. setting' \in LeaseSettings /\ CallForm(toolCall') /\ CallForm(renewCall')
      BY <3>1 DEF LeaseInv, LeaseShapes
    <3>. QED
      BY <3>1, <3>2, CallsKeep
  <2>. QED
    BY <2>1, ServerStepsKeep, StartsKeep, ArrivesKeeps, RetireKeeps, SweepReadKeeps, SweepLookKeeps, SweepWriteKeeps,
       SweepFailKeeps, HostStepsKeep, DaemonGoesKeeps, TickKeeps DEF LeaseNext
<1>. QED
  BY <1>1, LeaseInitInv, PTL DEF LeaseSpec

\* A launched session whose host runs lapses only after the daemon was down, or right after a sweep
\* that could not read the host or failed, whatever its server's calls do between the sweep's read
\* and its write and for every lifetime that the settings allow (MaintainLiveness).
THEOREM RunningNeverLapsesThm == LeaseSpec => []RunningNeverLapses
<1>1. LeaseInv => RunningNeverLapses
  BY DEF LeaseInv
<1>. QED
  BY <1>1, LeaseInvHolds, PTL

\* No sweep, renewal or late call extends a session by more than one lifetime past its host's end,
\* also when the process ID is used again (MaintainLiveness).
THEOREM LeaseEndsWithHostThm == LeaseSpec => []LeaseEndsWithHost
<1>1. LeaseInv => LeaseEndsWithHost
  BY DEF LeaseInv, LeaseBounded, Longest, LeaseEndsWithHost
<1>. QED
  BY <1>1, LeaseInvHolds, PTL
-----------------------------------------------------------------------------
(* The set-up of an agent program *)

EntryForm(e) == e = [by |-> e.by, cmd |-> e.cmd, interval |-> e.interval, edited |-> e.edited]
SettingsForm(s) == s = [status |-> s.status, rules |-> s.rules, rest |-> s.rest] /\ EntryForm(s.status)
RecordForm(r) ==
    r = [state |-> r.state, original |-> r.original, wrapper |-> r.wrapper] /\ EntryForm(r.original) /\ EntryForm(r.wrapper)
CommandForm(c) ==
    /\ c = [op |-> c.op, at |-> c.at, read |-> c.read, groups |-> c.groups, original |-> c.original,
            entry |-> c.entry, out |-> c.out]
    /\ SettingsForm(c.read) /\ EntryForm(c.original) /\ EntryForm(c.entry)
UserForm(u) == u = [status |-> u.status, rules |-> u.rules, rest |-> u.rest, guessed |-> u.guessed] /\ EntryForm(u.status)

SetupShapes ==
    /\ SettingsForm(settings) /\ RecordForm(saved) /\ CommandForm(command) /\ UserForm(user)
    /\ binary \in Binaries /\ settings.rules \in {"missing", "present", "different"} /\ user.guessed \in BOOLEAN

\* The record of a wrapped status line: an unedited wrapper around the person's own entry.  A record
\* that setup is about to use was never saved before setup owned the interval.
RecordKeepsEntry ==
    /\ SetupActive(saved) => /\ IsWrapper(saved.wrapper) /\ saved.wrapper.edited = FALSE
                             /\ ~IsWrapper(saved.original) /\ saved.original.cmd = saved.wrapper.cmd
    /\ saved.state = "pending" => ~GrokLegacy(saved)

\* Unless a set-up had to guess, an entry of the person's is the one last written, and the record of
\* the wrapper that is in the file restores it.
OwnIsUsers == ~IsWrapper(settings.status) /\ ~user.guessed => settings.status = user.status
WrappedIsUsers ==
    LET v == View(saved, settings.status)
    IN SetupActive(saved) /\ v.now = saved.wrapper /\ ~user.guessed => v.original = user.status

\* What a set-up between its read and its save is about to write, and for whom.
SetUpUnderWay ==
    /\ command.op \in {"setup", "complete"} /\ command.at = "write" =>
         /\ IsWrapper(command.entry) /\ command.entry.cmd = command.read.status.cmd
         /\ ~IsWrapper(command.read.status) => command.original = command.read.status
         /\ IsWrapper(command.read.status) => PlainWrapper(command.read.status)
         /\ settings.status = command.read.status /\ ~user.guessed => command.original = user.status
    /\ command.op \in {"setup", "complete"} /\ command.at \in {"write", "save"} =>
         saved.state = "pending" /\ saved.original = command.original /\ saved.wrapper = command.entry

\* The same of a removal; what it read is an unedited wrapper, which no edit of the person's brings back.
RemovalUnderWay ==
    /\ command.op \in {"remove", "decline"} /\ command.at = "write" =>
         /\ IsWrapper(command.read.status) /\ PlainWrapper(command.read.status)
         /\ ~IsWrapper(command.entry) /\ command.entry.cmd = command.read.status.cmd
         /\ settings.status = command.read.status /\ ~user.guessed => command.entry = user.status
    /\ command.op \in {"remove", "decline"} /\ command.at = "save" => ~IsWrapper(settings.status)

OfferUnderWay ==
    /\ command.at = "rules" => command.op = "offer"
    /\ command.at = "write" /\ command.op = "offer" => command.read.rules = "missing"

RestoredIsOwn == command.out = "restored" => command.at = "end" /\ ~IsWrapper(settings.status)

SetupInv ==
    /\ SetupShapes /\ RecordKeepsEntry /\ OwnIsUsers /\ WrappedIsUsers /\ SetUpUnderWay /\ RemovalUnderWay
    /\ OfferUnderWay /\ RestoredIsOwn /\ UserSettingsKept

LEMMA SetupInitInv == SetupInit => SetupInv
<1>. SUFFICES ASSUME SetupInit PROVE SetupInv
  OBVIOUS
<1>1. /\ binary = "b1" /\ command = Idle
  BY DEF SetupInit
<1>2. PICK e \in OwnEntries :
        \E legacy \in BOOLEAN :
         /\ legacy => agent = "grok" /\ e.cmd # "none"
         /\ user = [status |-> e, rules |-> "missing", rest |-> 0, guessed |-> FALSE]
         /\ LET o == [e EXCEPT !.interval = 0]
            IN /\ settings = [status |-> IF legacy THEN [LegacyWrapper(e) EXCEPT !.interval = e.interval] ELSE e,
                              rules |-> "missing", rest |-> 0]
               /\ saved = IF legacy THEN [state |-> "enabled", original |-> o, wrapper |-> LegacyWrapper(e)]
                                    ELSE NoRecord
  BY DEF SetupInit
<1>3. PICK legacy \in BOOLEAN :
         /\ legacy => agent = "grok" /\ e.cmd # "none"
         /\ user = [status |-> e, rules |-> "missing", rest |-> 0, guessed |-> FALSE]
         /\ settings = [status |-> IF legacy THEN [LegacyWrapper(e) EXCEPT !.interval = e.interval] ELSE e,
                        rules |-> "missing", rest |-> 0]
         /\ saved = IF legacy THEN [state |-> "enabled", original |-> [e EXCEPT !.interval = 0], wrapper |-> LegacyWrapper(e)]
                    ELSE NoRecord
  BY <1>2
<1>4. EntryForm(e) /\ e.by = "own" /\ e.edited = FALSE
  BY DEF OwnEntries, NoEntry, EntryForm
<1>5. CommandForm(command) /\ command.at = "end" /\ command.out = "none"
  BY <1>1 DEF Idle, NoEntry, CommandForm, SettingsForm, EntryForm
<1>6. UserForm(user) /\ user.status = e /\ user.guessed = FALSE /\ user.rest = 0 /\ user.rules = "missing"
  BY <1>3, <1>4 DEF UserForm
<1>7. CASE ~legacy
  <2>1. settings.status = e /\ settings.rest = 0 /\ settings.rules = "missing" /\ SettingsForm(settings)
    BY <1>3, <1>4, <1>7 DEF SettingsForm
  <2>2. saved = NoRecord /\ RecordForm(saved) /\ saved.state = "none"
    BY <1>3, <1>7 DEF NoRecord, RecordForm, NoEntry, EntryForm
  <2>. QED
    BY <1>1, <1>4, <1>5, <1>6, <2>1, <2>2 DEF SetupInv, SetupShapes, RecordKeepsEntry, OwnIsUsers, WrappedIsUsers, SetUpUnderWay,
       RemovalUnderWay, OfferUnderWay, RestoredIsOwn, UserSettingsKept, SetupActive, Binaries
<1>8. CASE legacy
  <2>1. /\ settings.status = [by |-> "b1", cmd |-> e.cmd, interval |-> e.interval, edited |-> FALSE]
        /\ settings.rest = 0 /\ settings.rules = "missing" /\ SettingsForm(settings)
    BY <1>3, <1>4, <1>8 DEF SettingsForm, LegacyWrapper, EntryForm
  <2>2. /\ saved.state = "enabled" /\ saved.wrapper = [by |-> "b1", cmd |-> e.cmd, interval |-> 0, edited |-> FALSE]
        /\ saved.original = [by |-> "own", cmd |-> e.cmd, interval |-> 0, edited |-> FALSE] /\ RecordForm(saved)
    BY <1>3, <1>4, <1>8 DEF LegacyWrapper, RecordForm, EntryForm
  <2>3. GrokLegacy(saved)
    BY <1>3, <1>8, <2>2 DEF GrokLegacy, SetupActive
  <2>4. user.status = [by |-> "own", cmd |-> e.cmd, interval |-> e.interval, edited |-> FALSE]
    BY <1>4, <1>6 DEF EntryForm
  <2>5. View(saved, settings.status).original = user.status
    <3>1. View(saved, settings.status).original = [saved.original EXCEPT !.interval = settings.status.interval]
      BY <2>3, Zenon DEF View, LegacyView
    <3>2. settings.status.interval = e.interval
      BY <2>1
    <3>3. ASSUME NEW t, t = [saved.original EXCEPT !.interval = e.interval] PROVE t = user.status
      <4>1. EntryForm(saved.original)
        BY <2>2 DEF RecordForm
      <4>2. /\ t = [by |-> t.by, cmd |-> t.cmd, interval |-> t.interval, edited |-> t.edited] /\ t.interval = e.interval
            /\ t.by = saved.original.by /\ t.cmd = saved.original.cmd /\ t.edited = saved.original.edited
        BY <3>3, <4>1 DEF EntryForm
      <4>. QED
        BY <2>2, <2>4, <4>2
    <3>. QED
      BY <3>1, <3>2, <3>3, Zenon
  <2>6. SetupShapes
    BY <1>1, <1>5, <1>6, <2>1, <2>2 DEF SetupShapes, Binaries
  <2>7. RecordKeepsEntry /\ OwnIsUsers /\ UserSettingsKept
    BY <1>6, <2>1, <2>2, <2>4 DEF RecordKeepsEntry, OwnIsUsers, UserSettingsKept, IsWrapper
  <2>. QED
    BY <1>5, <2>5, <2>6, <2>7 DEF SetupInv, WrappedIsUsers, SetUpUnderWay, RemovalUnderWay, OfferUnderWay, RestoredIsOwn
<1>. QED
  BY <1>7, <1>8

\* A command that neither writes the status line nor concludes leaves the files and the record alone.
LEMMA CommandRests ==
    ASSUME SetupInv, UNCHANGED <<agent, settings, saved, user>>, binary' \in Binaries, CommandForm(command'),
           command'.at \notin {"write", "save"}, command'.at = "rules" => command'.op = "offer",
           command'.out = "restored" => command'.at = "end" /\ ~IsWrapper(settings.status)
    PROVE  SetupInv'
<1>1. SetupShapes'
  BY DEF SetupInv, SetupShapes
<1>2. RecordKeepsEntry' /\ WrappedIsUsers' /\ OwnIsUsers' /\ UserSettingsKept'
  BY DEF SetupInv, RecordKeepsEntry, WrappedIsUsers, OwnIsUsers, UserSettingsKept, View, LegacyView, GrokLegacy, IsWrapper
<1>. QED
  BY <1>1, <1>2 DEF SetupInv, SetUpUnderWay, RemovalUnderWay, OfferUnderWay, RestoredIsOwn

LEMMA CommandTurns ==
    ASSUME CommandForm(command), NEW at, command' = [command EXCEPT !.at = at]
    PROVE  /\ CommandForm(command') /\ command'.at = at /\ command'.op = command.op /\ command'.out = command.out
           /\ command'.read = command.read /\ command'.original = command.original /\ command'.entry = command.entry
BY DEF CommandForm

LEMMA OtherStepsKeep ==
    ASSUME SetupInv,
           \/ ServerGet \/ ServerReplace \/ ServerAdd \/ ServerRemove \/ HookRead \/ HookWrite \/ RecordCLI
           \/ Stopped \/ MoveBinary \/ \E op \in {"setup", "remove", "decline", "complete", "offer", "adopt"} : Begin(op)
    PROVE  SetupInv'
<1>1. UNCHANGED <<agent, settings, saved, user>> /\ CommandForm(command) /\ binary \in Binaries
  BY DEF ServerGet, ServerReplace, ServerAdd, ServerRemove, HookRead, HookWrite, RecordCLI, Stopped, MoveBinary, Begin,
     SetupInv, SetupShapes
<1>2. command.at # "end" => command.out # "restored"
  BY DEF SetupInv, RestoredIsOwn
<1>3. ASSUME NEW at, command' = [command EXCEPT !.at = at], at \notin {"write", "save", "rules"}, UNCHANGED binary,
             command.at # "end"
      PROVE  SetupInv'
  BY <1>1, <1>2, <1>3, CommandTurns, CommandRests
<1>4. AfterServer \notin {"write", "save", "rules"} /\ AfterHook \notin {"write", "save", "rules"}
  BY DEF AfterServer, AfterHook, AfterStatus
<1>5. CASE ServerGet
  BY <1>3, <1>4, <1>5 DEF ServerGet, CommandAt
<1>6. CASE ServerReplace
  BY <1>3, <1>6 DEF ServerReplace, CommandAt
<1>7. CASE ServerAdd
  BY <1>3, <1>4, <1>7 DEF ServerAdd, CommandAt
<1>8. CASE ServerRemove
  BY <1>3, <1>4, <1>8 DEF ServerRemove, CommandAt
<1>9. CASE HookRead
  <2>1. UNCHANGED binary /\ command.at = "hook"
    BY <1>9 DEF HookRead
  <2>2. CASE command' = [command EXCEPT !.at = AfterHook]
    BY <1>3, <1>4, <2>1, <2>2
  <2>3. ASSUME NEW g, command' = [command EXCEPT !.at = "hookwrite", !.groups = g]
        PROVE  SetupInv'
    <3>1. CommandForm(command') /\ command'.at = "hookwrite" /\ command'.out = command.out
      BY <1>1, <2>3 DEF CommandForm
    <3>. QED
      BY <1>1, <1>2, <2>1, <3>1, CommandRests
  <2>. QED
    BY <1>9, <2>2, <2>3 DEF HookRead
<1>10. CASE HookWrite
  BY <1>3, <1>4, <1>10 DEF HookWrite, CommandAt
<1>11. CASE RecordCLI
  BY <1>3, <1>11 DEF RecordCLI, CommandAt
<1>12. CommandForm(Idle) /\ Idle.at = "end" /\ Idle.out = "none"
  BY DEF Idle, NoEntry, CommandForm, SettingsForm, EntryForm
<1>13. CASE Stopped
  BY <1>1, <1>12, <1>13, CommandRests DEF Stopped
<1>14. CASE MoveBinary
  BY <1>1, <1>14, CommandRests DEF MoveBinary, Binaries, SetupInv, RestoredIsOwn
<1>15. ASSUME NEW op \in {"setup", "remove", "decline", "complete", "offer", "adopt"}, Begin(op)
       PROVE  SetupInv'
  <2>1. command' = [Idle EXCEPT !.op = op, !.at = First(op)] /\ UNCHANGED binary
    BY <1>15 DEF Begin
  <2>2. CommandForm(command') /\ command'.at = First(op) /\ command'.out = "none" /\ command'.op = op
    BY <1>12, <2>1 DEF CommandForm
  <2>3. First(op) \notin {"write", "save"} /\ (First(op) = "rules" => op = "offer")
    BY DEF First
  <2>. QED
    BY <1>1, <2>1, <2>2, <2>3, CommandRests
<1>. QED
  BY <1>5, <1>6, <1>7, <1>8, <1>9, <1>10, <1>11, <1>13, <1>14, <1>15

\* The entry that setUp takes for the person's: it runs the same command as the entry in the file, and
\* is the one last written unless it had to be taken out of a wrapper with no record.
LEMMA OriginalIsUsers ==
    ASSUME SetupInv
    PROVE  LET e == settings.status
               o == Original(saved, e)
           IN /\ EntryForm(o) /\ ~IsWrapper(o) /\ o.cmd = e.cmd
              /\ ~IsWrapper(e) => o = e
              /\ ~LeftAlone(saved, e) /\ IsWrapper(e) => PlainWrapper(e)
              /\ ~LeftAlone(saved, e) /\ ~user.guessed /\ ~Guessed(saved, e) => o = user.status
<1>. DEFINE e == settings.status
            v == View(saved, e)
            o == Original(saved, e)
<1>1. EntryForm(e) /\ RecordForm(saved) /\ EntryForm(saved.original) /\ EntryForm(saved.wrapper)
  BY DEF SetupInv, SetupShapes, SettingsForm, RecordForm
<1>2. /\ EntryForm(v.now) /\ EntryForm(v.original) /\ v.now.by = e.by /\ v.now.cmd = e.cmd /\ v.now.edited = e.edited
      /\ v.original.by = saved.original.by /\ v.original.cmd = saved.original.cmd
      /\ ~GrokLegacy(saved) => v.now = e /\ v.original = saved.original
  BY <1>1 DEF View, LegacyView, EntryForm
<1>3. /\ SetupActive(saved) => /\ IsWrapper(saved.wrapper) /\ saved.wrapper.edited = FALSE
                               /\ ~IsWrapper(saved.original) /\ saved.original.cmd = saved.wrapper.cmd
      /\ saved.state = "pending" => ~GrokLegacy(saved) /\ SetupActive(saved)
  BY DEF SetupInv, RecordKeepsEntry, SetupActive
<1>4. /\ ~IsWrapper(e) /\ ~user.guessed => e = user.status
      /\ SetupActive(saved) /\ v.now = saved.wrapper /\ ~user.guessed => v.original = user.status
  BY DEF SetupInv, OwnIsUsers, WrappedIsUsers
<1>. HIDE DEF v
<1>5. o = CASE SetupActive(saved) /\ v.now = saved.wrapper -> v.original
            [] saved.state = "pending" /\ v.now = saved.original -> v.original
            [] ~IsWrapper(e) -> e
            [] OTHER -> Unwrap(e)
  BY DEF Original, v
<1>6. LeftAlone(saved, e) <=>
        /\ IsWrapper(e)
        /\ IF SetupActive(saved)
           THEN v.now # saved.wrapper /\ ~(saved.state = "pending" /\ v.now = saved.original)
           ELSE ~PlainWrapper(e)
  BY DEF LeftAlone, v
<1>. HIDE DEF e, o
<1>7. CASE SetupActive(saved) /\ v.now = saved.wrapper
  <2>1. IsWrapper(e) /\ v.now # saved.original
    BY <1>2, <1>3, <1>7 DEF IsWrapper
  <2>2. o = v.original
    BY <1>5, <1>7, <2>1
  <2>. QED
    BY <1>1, <1>2, <1>3, <1>4, <1>7, <2>1, <2>2 DEF e, o, IsWrapper, PlainWrapper
<1>8. CASE ~(SetupActive(saved) /\ v.now = saved.wrapper) /\ saved.state = "pending" /\ v.now = saved.original
  <2>1. v.original = e /\ ~IsWrapper(e)
    BY <1>2, <1>3, <1>8 DEF IsWrapper
  <2>2. o = e
    BY <1>5, <1>8, <2>1
  <2>. QED
    BY <1>1, <1>4, <2>1, <2>2 DEF e, o
<1>9. CASE /\ ~(SetupActive(saved) /\ v.now = saved.wrapper) /\ ~(saved.state = "pending" /\ v.now = saved.original)
           /\ ~IsWrapper(e)
  <2>1. o = e
    BY <1>5, <1>9
  <2>. QED
    BY <1>1, <1>4, <1>9, <2>1 DEF e, o
<1>10. CASE /\ ~(SetupActive(saved) /\ v.now = saved.wrapper) /\ ~(saved.state = "pending" /\ v.now = saved.original)
            /\ IsWrapper(e)
  <2>1. o = Unwrap(e)
    BY <1>5, <1>10
  <2>2. EntryForm(o) /\ ~IsWrapper(o) /\ o.cmd = e.cmd
    BY <1>1, <2>1 DEF Unwrap, NoEntry, EntryForm, IsWrapper, e
  <2>3. ~LeftAlone(saved, e) => Guessed(saved, e) /\ PlainWrapper(e)
    BY <1>6, <1>10 DEF Guessed
  <2>. QED
    BY <1>10, <2>2, <2>3 DEF e, o
<1>. QED
  BY <1>7, <1>8, <1>9, <1>10

LEMMA WrapperIsOurs ==
    ASSUME binary \in Binaries, NEW x
    PROVE  /\ EntryForm(WrapperEntry(x)) /\ IsWrapper(WrapperEntry(x)) /\ WrapperEntry(x).cmd = x.cmd
           /\ WrapperEntry(x).edited = FALSE /\ (agent = "grok" => WrapperEntry(x).interval = 1)
BY DEF WrapperEntry, EntryForm, IsWrapper, Binaries, Refresh, ValidRefresh

\* An active record of one wrapper and one entry views the file as it is, unless it is an old Grok record.
LEMMA PlainView ==
    ASSUME NEW r, NEW e, ~GrokLegacy(r)
    PROVE  View(r, e).now = e /\ View(r, e).original = r.original
BY DEF View

LEMMA StatusSetUpKeeps ==
    ASSUME SetupInv, StatusSetUp
    PROVE  SetupInv'
<1>. DEFINE e == settings.status
            o == Original(saved, e)
            w == WrapperEntry(o)
<1>1. /\ UNCHANGED <<agent, binary, settings>> /\ SetupShapes /\ CommandForm(command) /\ UserForm(user) /\ EntryForm(e)
      /\ binary \in Binaries /\ user.guessed \in BOOLEAN /\ command.at = "status" /\ command.op \in {"setup", "complete"}
      /\ SettingsForm(settings)
  BY DEF StatusSetUp, SetupInv, SetupShapes, SettingsForm
<1>2. /\ EntryForm(o) /\ ~IsWrapper(o) /\ o.cmd = e.cmd
      /\ ~IsWrapper(e) => o = e
      /\ ~LeftAlone(saved, e) /\ IsWrapper(e) => PlainWrapper(e)
      /\ ~LeftAlone(saved, e) /\ ~user.guessed /\ ~Guessed(saved, e) => o = user.status
  BY OriginalIsUsers
<1>3. EntryForm(w) /\ IsWrapper(w) /\ w.cmd = e.cmd /\ w.edited = FALSE /\ (agent = "grok" => w.interval = 1)
  BY <1>1, <1>2, WrapperIsOurs
<1>4. AfterStatus(command.op) \in {"record", "end"}
  BY DEF AfterStatus
<1>5. \/ LeftAlone(saved, e) /\ Concluded("changed") /\ UNCHANGED <<saved, user>>
      \/ /\ ~LeftAlone(saved, e) /\ w = e
         /\ user' = [user EXCEPT !.guessed = @ \/ Guessed(saved, e)]
         /\ saved' = [state |-> "enabled", original |-> o, wrapper |-> e]
         /\ Concluded("unchanged")
      \/ /\ ~LeftAlone(saved, e) /\ w # e
         /\ user' = [user EXCEPT !.guessed = @ \/ Guessed(saved, e)]
         /\ saved' = [state |-> "pending", original |-> o, wrapper |-> w]
         /\ command' = [command EXCEPT !.at = "write", !.read = settings, !.original = o, !.entry = w]
  BY DEF StatusSetUp
<1>. HIDE DEF e, o, w
<1>6. CASE LeftAlone(saved, e) /\ Concluded("changed") /\ UNCHANGED <<saved, user>>
  <2>1. CommandForm(command') /\ command'.at = AfterStatus(command.op) /\ command'.out = "changed"
    BY <1>1, <1>6 DEF Concluded, CommandForm
  <2>. QED
    BY <1>1, <1>4, <1>6, <2>1, CommandRests
<1>7. ASSUME user' = [user EXCEPT !.guessed = @ \/ Guessed(saved, e)]
      PROVE  /\ UserForm(user') /\ user'.guessed \in BOOLEAN /\ user'.status = user.status /\ user'.rest = user.rest
             /\ user'.rules = user.rules /\ (~user'.guessed => ~user.guessed /\ ~Guessed(saved, e))
  <2>1. PICK b \in BOOLEAN : b = (user.guessed \/ Guessed(saved, e))
    OBVIOUS
  <2>2. UserForm(user') /\ user'.guessed = b /\ user'.status = user.status /\ user'.rest = user.rest /\ user'.rules = user.rules
    BY <1>1, <1>7, <2>1 DEF UserForm
  <2>. QED
    BY <2>1, <2>2
<1>8. ASSUME UserForm(user'), user'.status = user.status, user'.rest = user.rest, user'.rules = user.rules
      PROVE  UserSettingsKept'
  BY <1>1, <1>8 DEF SetupInv, UserSettingsKept
<1>9. ASSUME ~LeftAlone(saved, e), user' = [user EXCEPT !.guessed = @ \/ Guessed(saved, e)]
      PROVE  /\ ~user'.guessed => o = user'.status
             /\ OwnIsUsers'
  <2>1. ~user'.guessed => o = user'.status
    BY <1>2, <1>7, <1>9
  <2>. QED
    BY <1>1, <1>7, <1>9, <2>1 DEF SetupInv, OwnIsUsers
<1>10. CASE /\ ~LeftAlone(saved, e) /\ w = e
            /\ user' = [user EXCEPT !.guessed = @ \/ Guessed(saved, e)]
            /\ saved' = [state |-> "enabled", original |-> o, wrapper |-> e]
            /\ Concluded("unchanged")
  <2>1. CommandForm(command') /\ command'.at = AfterStatus(command.op) /\ command'.out = "unchanged"
    BY <1>1, <1>10 DEF Concluded, CommandForm
  <2>2. saved'.state = "enabled" /\ saved'.original = o /\ saved'.wrapper = w /\ RecordForm(saved')
    BY <1>2, <1>3, <1>10 DEF RecordForm
  <2>3. SetupShapes'
    BY <1>1, <1>7, <1>10, <2>1, <2>2 DEF SetupShapes
  <2>4. RecordKeepsEntry' /\ ~GrokLegacy(saved)'
    BY <1>1, <1>2, <1>3, <2>2 DEF RecordKeepsEntry, GrokLegacy
  <2>5. WrappedIsUsers'
    <3>1. View(saved, settings.status)'.original = o
      BY <2>2, <2>4, PlainView DEF View, GrokLegacy
    <3>. QED
      BY <1>9, <1>10, <3>1 DEF WrappedIsUsers
  <2>. QED
    BY <1>4, <1>7, <1>8, <1>9, <1>10, <2>1, <2>3, <2>4, <2>5
       DEF SetupInv, SetUpUnderWay, RemovalUnderWay, OfferUnderWay, RestoredIsOwn
<1>11. CASE /\ ~LeftAlone(saved, e) /\ w # e
            /\ user' = [user EXCEPT !.guessed = @ \/ Guessed(saved, e)]
            /\ saved' = [state |-> "pending", original |-> o, wrapper |-> w]
            /\ command' = [command EXCEPT !.at = "write", !.read = settings, !.original = o, !.entry = w]
  <2>1. /\ CommandForm(command') /\ command'.at = "write" /\ command'.out = command.out /\ command'.op = command.op
        /\ command'.read = settings /\ command'.original = o /\ command'.entry = w
    BY <1>1, <1>2, <1>3, <1>11 DEF CommandForm
  <2>2. saved'.state = "pending" /\ saved'.original = o /\ saved'.wrapper = w /\ RecordForm(saved')
    BY <1>2, <1>3, <1>11 DEF RecordForm
  <2>3. SetupShapes'
    BY <1>1, <1>7, <1>11, <2>1, <2>2 DEF SetupShapes
  <2>4. RecordKeepsEntry' /\ ~GrokLegacy(saved)'
    BY <1>1, <1>2, <1>3, <2>2 DEF RecordKeepsEntry, GrokLegacy
  <2>5. WrappedIsUsers'
    <3>1. View(saved, settings.status)'.now = e
      BY <1>1, <2>4, PlainView DEF View, GrokLegacy, e
    <3>. QED
      BY <1>11, <2>2, <3>1 DEF WrappedIsUsers
  <2>6. SetUpUnderWay'
    BY <1>1, <1>2, <1>3, <1>9, <1>11, <2>1, <2>2 DEF SetUpUnderWay, e
  <2>7. command.out # "restored"
    BY <1>1 DEF SetupInv, RestoredIsOwn
  <2>8. RemovalUnderWay' /\ OfferUnderWay' /\ RestoredIsOwn'
    BY <1>1, <2>1, <2>7 DEF RemovalUnderWay, OfferUnderWay, RestoredIsOwn
  <2>. QED
    BY <1>7, <1>8, <1>9, <1>11, <2>3, <2>4, <2>5, <2>6, <2>8 DEF SetupInv
<1>. QED
  BY <1>5, <1>6, <1>10, <1>11

\* writeRaw: the file is as it was read and takes the next entry, or it changed and the command ends.
LEMMA WriteRawWrites ==
    ASSUME SettingsForm(settings), CommandForm(command), settings.rules \in {"missing", "present", "different"},
           NEW e, EntryForm(e), WriteRaw(Replaced(command.read, e), "save")
    PROVE  \/ /\ settings = command.read /\ command' = [command EXCEPT !.at = "save"]
              /\ SettingsForm(settings') /\ settings'.status = e /\ settings'.rest = settings.rest
              /\ settings'.rules = settings.rules
           \/ UNCHANGED settings /\ command' = [command EXCEPT !.at = "end", !.out = "conflict"]
<1>1. CASE settings = command.read
  <2>1. command' = [command EXCEPT !.at = "save"] /\ settings' = [settings EXCEPT !.status = e]
    BY <1>1, Zenon DEF WriteRaw, Compared, Replaced, GrokEdit, CommandAt
  <2>2. SettingsForm(settings') /\ settings'.status = e /\ settings'.rest = settings.rest /\ settings'.rules = settings.rules
    BY <2>1 DEF SettingsForm
  <2>. QED
    BY <1>1, <2>1, <2>2
<1>2. CASE settings # command.read
  BY <1>2 DEF WriteRaw, Compared, EndWith
<1>. QED
  BY <1>1, <1>2

LEMMA ConflictKeeps ==
    ASSUME SetupInv, UNCHANGED <<agent, binary, settings, saved, user>>,
           command' = [command EXCEPT !.at = "end", !.out = "conflict"]
    PROVE  SetupInv'
<1>1. CommandForm(command) /\ binary' \in Binaries
  BY DEF SetupInv, SetupShapes
<1>2. CommandForm(command') /\ command'.at = "end" /\ command'.out = "conflict"
  BY <1>1 DEF CommandForm
<1>. QED
  BY <1>1, <1>2, CommandRests

LEMMA StatusWriteKeeps ==
    ASSUME SetupInv, StatusWrite
    PROVE  SetupInv'
<1>1. /\ UNCHANGED <<agent, binary, saved, user>> /\ SettingsForm(settings) /\ CommandForm(command) /\ RecordForm(saved)
      /\ UserForm(user) /\ settings.rules \in {"missing", "present", "different"} /\ command.at = "write"
      /\ command.op \in {"setup", "complete"} /\ EntryForm(command.entry)
      /\ WriteRaw(Replaced(command.read, command.entry), "save") /\ binary \in Binaries /\ user.guessed \in BOOLEAN
  BY DEF StatusWrite, SetupInv, SetupShapes, CommandForm
<1>2. CASE UNCHANGED settings /\ command' = [command EXCEPT !.at = "end", !.out = "conflict"]
  BY <1>1, <1>2, ConflictKeeps
<1>3. CASE /\ settings = command.read /\ command' = [command EXCEPT !.at = "save"]
           /\ SettingsForm(settings') /\ settings'.status = command.entry /\ settings'.rest = settings.rest
           /\ settings'.rules = settings.rules
  <2>1. /\ CommandForm(command') /\ command'.at = "save" /\ command'.op = command.op /\ command'.out = command.out
        /\ command'.original = command.original /\ command'.entry = command.entry
    BY <1>1, <1>3, CommandTurns
  <2>2. /\ IsWrapper(command.entry) /\ command.entry.cmd = settings.status.cmd
        /\ ~user.guessed => command.original = user.status
        /\ saved.state = "pending" /\ saved.original = command.original /\ saved.wrapper = command.entry
    BY <1>1, <1>3 DEF SetupInv, SetUpUnderWay
  <2>3. SetupShapes'
    BY <1>1, <1>3, <2>1 DEF SetupShapes
  <2>4. ~GrokLegacy(saved)
    BY <2>2 DEF SetupInv, RecordKeepsEntry
  <2>5. RecordKeepsEntry'
    BY <1>1 DEF SetupInv, RecordKeepsEntry, GrokLegacy
  <2>6. WrappedIsUsers'
    <3>1. View(saved, settings.status)'.original = command.original
      BY <1>1, <2>2, <2>4 DEF View, GrokLegacy
    <3>. QED
      BY <1>1, <2>2, <3>1 DEF WrappedIsUsers
  <2>7. OwnIsUsers' /\ UserSettingsKept'
    BY <1>1, <1>3, <2>2 DEF SetupInv, OwnIsUsers, UserSettingsKept
  <2>8. SetUpUnderWay'
    BY <1>1, <2>1, <2>2 DEF SetUpUnderWay
  <2>9. RemovalUnderWay' /\ OfferUnderWay' /\ RestoredIsOwn'
    BY <1>1, <2>1 DEF SetupInv, RemovalUnderWay, OfferUnderWay, RestoredIsOwn
  <2>. QED
    BY <2>3, <2>5, <2>6, <2>7, <2>8, <2>9 DEF SetupInv
<1>. QED
  BY <1>1, <1>2, <1>3, WriteRawWrites

LEMMA StatusSaveKeeps ==
    ASSUME SetupInv, StatusSave
    PROVE  SetupInv'
<1>1. /\ UNCHANGED <<agent, binary, settings, user>> /\ CommandForm(command) /\ command.at = "save"
      /\ command.op \in {"setup", "complete"} /\ SetupShapes
      /\ saved' = [state |-> "enabled", original |-> command.original, wrapper |-> command.entry]
      /\ Concluded("set_up")
  BY DEF StatusSave, SetupInv, SetupShapes
<1>2. CommandForm(command') /\ command'.at = AfterStatus(command.op) /\ command'.out = "set_up"
  BY <1>1 DEF Concluded, CommandForm
<1>3. AfterStatus(command.op) \in {"record", "end"}
  BY DEF AfterStatus
<1>4. saved.state = "pending" /\ saved.original = command.original /\ saved.wrapper = command.entry
  BY <1>1 DEF SetupInv, SetUpUnderWay
<1>5. saved'.state = "enabled" /\ saved'.original = saved.original /\ saved'.wrapper = saved.wrapper /\ RecordForm(saved')
  BY <1>1, <1>4 DEF RecordForm, CommandForm
<1>6. SetupShapes'
  BY <1>1, <1>2, <1>5 DEF SetupShapes
<1>7. /\ SetupActive(saved) /\ IsWrapper(saved.wrapper) /\ saved.wrapper.edited = FALSE
      /\ ~IsWrapper(saved.original) /\ saved.original.cmd = saved.wrapper.cmd /\ ~GrokLegacy(saved)
  BY <1>4 DEF SetupInv, RecordKeepsEntry, SetupActive
<1>8. RecordKeepsEntry'
  BY <1>5, <1>7 DEF RecordKeepsEntry
<1>9. WrappedIsUsers'
  <2>1. ~GrokLegacy(saved)'
    BY <1>1, <1>5, <1>7 DEF GrokLegacy
  <2>2. View(saved, settings.status)'.now = settings.status /\ View(saved, settings.status)'.original = saved.original
    BY <1>1, <1>5, <2>1 DEF View, GrokLegacy
  <2>3. View(saved, settings.status).now = settings.status /\ View(saved, settings.status).original = saved.original
    BY <1>7, PlainView
  <2>. QED
    BY <1>1, <1>5, <1>7, <2>2, <2>3 DEF SetupInv, WrappedIsUsers
<1>10. OwnIsUsers' /\ UserSettingsKept'
  BY <1>1 DEF SetupInv, OwnIsUsers, UserSettingsKept
<1>. QED
  BY <1>2, <1>3, <1>6, <1>8, <1>9, <1>10 DEF SetupInv, SetUpUnderWay, RemovalUnderWay, OfferUnderWay, RestoredIsOwn

\* A removal that is done, or finds nothing of its own to restore: the record is declined.
LEMMA DeclinedKeeps ==
    ASSUME SetupInv, UNCHANGED <<agent, binary, settings, user>>, saved' = Declined, NEW out, Concluded(out),
           command.op \in {"remove", "decline"}, out = "restored" => ~IsWrapper(settings.status)
    PROVE  SetupInv'
<1>1. CommandForm(command) /\ SetupShapes
  BY DEF SetupInv, SetupShapes
<1>2. CommandForm(command') /\ command'.at = "end" /\ command'.out = out
  BY <1>1 DEF Concluded, CommandForm, AfterStatus
<1>3. saved'.state = "declined" /\ RecordForm(saved')
  <2>1. ASSUME NEW r, r = [NoRecord EXCEPT !.state = "declined"]
        PROVE  r.state = "declined" /\ RecordForm(r)
    BY <2>1 DEF NoRecord, NoEntry, RecordForm, EntryForm
  <2>. QED
    BY <2>1 DEF Declined
<1>4. SetupShapes'
  BY <1>1, <1>2, <1>3 DEF SetupShapes
<1>5. OwnIsUsers' /\ UserSettingsKept' /\ RestoredIsOwn'
  BY <1>2 DEF SetupInv, OwnIsUsers, UserSettingsKept, RestoredIsOwn
<1>. QED
  BY <1>2, <1>3, <1>4, <1>5 DEF SetupInv, RecordKeepsEntry, WrappedIsUsers, SetUpUnderWay, RemovalUnderWay, OfferUnderWay,
     SetupActive

LEMMA StatusRemoveKeeps ==
    ASSUME SetupInv, StatusRemove
    PROVE  SetupInv'
<1>. DEFINE e == settings.status
            v == View(saved, e)
<1>1. /\ UNCHANGED <<agent, binary, settings, user>> /\ SetupShapes /\ CommandForm(command) /\ EntryForm(e) /\ RecordForm(saved)
      /\ command.at = "status" /\ command.op \in {"remove", "decline"} /\ SettingsForm(settings)
      /\ EntryForm(saved.original)
  BY DEF StatusRemove, SetupInv, SetupShapes, SettingsForm, RecordForm
<1>2. /\ EntryForm(v.original) /\ v.now.by = e.by /\ v.now.cmd = e.cmd /\ v.now.edited = e.edited
      /\ v.original.by = saved.original.by /\ v.original.cmd = saved.original.cmd
  BY <1>1 DEF View, LegacyView, EntryForm
<1>3. /\ SetupActive(saved) => /\ IsWrapper(saved.wrapper) /\ saved.wrapper.edited = FALSE
                               /\ ~IsWrapper(saved.original) /\ saved.original.cmd = saved.wrapper.cmd
      /\ saved.state = "pending" => SetupActive(saved)
      /\ SetupActive(saved) /\ v.now = saved.wrapper /\ ~user.guessed => v.original = user.status
  BY DEF SetupInv, RecordKeepsEntry, WrappedIsUsers, SetupActive
<1>4. \/ saved' = Declined /\ Concluded("not_set_up")
      \/ saved.state = "pending" /\ v.now = saved.original /\ saved' = Declined /\ Concluded("restored")
      \/ saved' = Declined /\ Concluded("changed")
      \/ /\ SetupActive(saved) /\ v.now = saved.wrapper
         /\ command' = [command EXCEPT !.at = "write", !.read = settings, !.entry = v.original]
         /\ UNCHANGED saved
  BY DEF StatusRemove
<1>. HIDE DEF v
<1>5. CASE saved' = Declined /\ (Concluded("not_set_up") \/ Concluded("changed"))
  BY <1>1, <1>5, DeclinedKeeps
<1>6. CASE saved.state = "pending" /\ v.now = saved.original /\ saved' = Declined /\ Concluded("restored")
  <2>1. ~IsWrapper(settings.status)
    BY <1>2, <1>3, <1>6 DEF IsWrapper
  <2>. QED
    BY <1>1, <1>6, <2>1, DeclinedKeeps
<1>7. CASE /\ SetupActive(saved) /\ v.now = saved.wrapper
           /\ command' = [command EXCEPT !.at = "write", !.read = settings, !.entry = v.original]
           /\ UNCHANGED saved
  <2>1. /\ CommandForm(command') /\ command'.at = "write" /\ command'.out = command.out /\ command'.op = command.op
        /\ command'.read = settings /\ command'.entry = v.original
    BY <1>1, <1>2, <1>7 DEF CommandForm
  <2>2. SetupShapes'
    BY <1>1, <1>7, <2>1 DEF SetupShapes
  <2>3. RecordKeepsEntry' /\ WrappedIsUsers' /\ OwnIsUsers' /\ UserSettingsKept'
    BY <1>1, <1>7 DEF SetupInv, RecordKeepsEntry, WrappedIsUsers, OwnIsUsers, UserSettingsKept, View, LegacyView, GrokLegacy, IsWrapper
  <2>4. RemovalUnderWay'
    BY <1>1, <1>2, <1>3, <1>7, <2>1 DEF RemovalUnderWay, IsWrapper, PlainWrapper
  <2>5. command.out # "restored"
    BY <1>1 DEF SetupInv, RestoredIsOwn
  <2>6. SetUpUnderWay' /\ OfferUnderWay' /\ RestoredIsOwn'
    BY <1>1, <2>1, <2>5 DEF SetUpUnderWay, OfferUnderWay, RestoredIsOwn
  <2>. QED
    BY <2>2, <2>3, <2>4, <2>6 DEF SetupInv
<1>. QED
  BY <1>4, <1>5, <1>6, <1>7

LEMMA StatusRestoreKeeps ==
    ASSUME SetupInv, StatusRestore
    PROVE  SetupInv'
<1>1. /\ UNCHANGED <<agent, binary, saved, user>> /\ SettingsForm(settings) /\ CommandForm(command)
      /\ settings.rules \in {"missing", "present", "different"} /\ command.at = "write" /\ RecordForm(saved)
      /\ UserForm(user) /\ binary \in Binaries /\ user.guessed \in BOOLEAN
      /\ command.op \in {"remove", "decline"} /\ EntryForm(command.entry)
      /\ WriteRaw(Replaced(command.read, command.entry), "save")
  BY DEF StatusRestore, SetupInv, SetupShapes, CommandForm
<1>2. CASE UNCHANGED settings /\ command' = [command EXCEPT !.at = "end", !.out = "conflict"]
  BY <1>1, <1>2, ConflictKeeps
<1>3. CASE /\ settings = command.read /\ command' = [command EXCEPT !.at = "save"]
           /\ SettingsForm(settings') /\ settings'.status = command.entry /\ settings'.rest = settings.rest
           /\ settings'.rules = settings.rules
  <2>1. CommandForm(command') /\ command'.at = "save" /\ command'.op = command.op /\ command'.out = command.out
    BY <1>1, <1>3, CommandTurns
  <2>2. /\ ~IsWrapper(command.entry) /\ command.entry.cmd = settings.status.cmd
        /\ ~user.guessed => command.entry = user.status
    BY <1>1, <1>3 DEF SetupInv, RemovalUnderWay
  <2>3. SetupShapes'
    BY <1>1, <1>3, <2>1 DEF SetupShapes
  <2>4. RecordKeepsEntry'
    BY <1>1 DEF SetupInv, RecordKeepsEntry, GrokLegacy
  <2>5. WrappedIsUsers'
    <3>1. View(saved, settings.status)'.now.by = command.entry.by
      BY <1>1, <1>3 DEF View, LegacyView, EntryForm
    <3>2. SetupActive(saved) => IsWrapper(saved.wrapper)
      BY DEF SetupInv, RecordKeepsEntry
    <3>. QED
      BY <1>1, <2>2, <3>1, <3>2 DEF WrappedIsUsers, IsWrapper
  <2>6. OwnIsUsers' /\ UserSettingsKept'
    BY <1>1, <1>3, <2>2 DEF SetupInv, OwnIsUsers, UserSettingsKept
  <2>7. RemovalUnderWay'
    BY <1>3, <2>1, <2>2 DEF RemovalUnderWay
  <2>8. SetUpUnderWay' /\ OfferUnderWay' /\ RestoredIsOwn'
    BY <1>1, <2>1 DEF SetupInv, SetUpUnderWay, OfferUnderWay, RestoredIsOwn
  <2>. QED
    BY <2>3, <2>4, <2>5, <2>6, <2>7, <2>8 DEF SetupInv
<1>. QED
  BY <1>1, <1>2, <1>3, WriteRawWrites

LEMMA OfferStepsKeep ==
    ASSUME SetupInv, OfferRules \/ AddRules
    PROVE  SetupInv'
<1>1. /\ UNCHANGED <<agent, binary, saved, user>> /\ SetupShapes /\ SettingsForm(settings) /\ CommandForm(command)
      /\ settings.rules \in {"missing", "present", "different"}
  BY DEF OfferRules, AddRules, SetupInv, SetupShapes
<1>2. command.at # "end" => command.out # "restored"
  BY DEF SetupInv, RestoredIsOwn
<1>3. CASE OfferRules
  <2>1. /\ UNCHANGED settings /\ command.at = "rules" /\ command.op = "offer"
        /\ command' = [command EXCEPT !.at = Conclude, !.read = settings, !.out = Rules]
    BY <1>3 DEF OfferRules, SetupInv, OfferUnderWay
  <2>2. /\ CommandForm(command') /\ command'.at = Conclude /\ command'.op = "offer" /\ command'.out = Rules
        /\ command'.read = settings
    BY <1>1, <2>1 DEF CommandForm
  <2>3. Rules \in {"missing", "present", "different", "unreadable", "manual"} /\ (Rules = "missing" => settings.rules = "missing")
    BY <1>1 DEF Rules, CodexApproval, OpenCodePermission, AllowList
  <2>4. Conclude \in {"write", "end"} /\ (Conclude = "write" => settings.rules = "missing")
    BY <2>3 DEF Conclude
  <2>5. SetupShapes'
    BY <1>1, <2>1, <2>2 DEF SetupShapes
  <2>6. RecordKeepsEntry' /\ WrappedIsUsers' /\ OwnIsUsers' /\ UserSettingsKept'
    BY <1>1, <2>1 DEF SetupInv, RecordKeepsEntry, WrappedIsUsers, OwnIsUsers, UserSettingsKept, View, LegacyView, GrokLegacy, IsWrapper
  <2>. QED
    BY <2>2, <2>3, <2>4, <2>5, <2>6 DEF SetupInv, SetUpUnderWay, RemovalUnderWay, OfferUnderWay, RestoredIsOwn
<1>4. CASE AddRules
  <2>1. command.at = "write" /\ command.op = "offer" /\ WriteRaw([command.read EXCEPT !.rules = "present"], "end")
    BY <1>4 DEF AddRules
  <2>2. CASE settings # command.read
    BY <1>1, <2>1, <2>2, ConflictKeeps DEF WriteRaw, Compared, EndWith
  <2>3. CASE settings = command.read
    <3>1. settings' = [settings EXCEPT !.rules = "present"] /\ command' = [command EXCEPT !.at = "end"]
      BY <2>1, <2>3, Zenon DEF WriteRaw, Compared, CommandAt
    <3>2. /\ SettingsForm(settings') /\ settings'.rules = "present" /\ settings'.status = settings.status
          /\ settings'.rest = settings.rest
      BY <1>1, <3>1 DEF SettingsForm
    <3>3. CommandForm(command') /\ command'.at = "end" /\ command'.out = command.out
      BY <1>1, <3>1, CommandTurns
    <3>4. user.rules # "different"
      BY <2>1, <2>3 DEF SetupInv, OfferUnderWay, UserSettingsKept
    <3>5. SetupShapes'
      BY <1>1, <3>2, <3>3 DEF SetupShapes
    <3>6. RecordKeepsEntry' /\ WrappedIsUsers' /\ OwnIsUsers'
      BY <1>1, <3>2 DEF SetupInv, RecordKeepsEntry, WrappedIsUsers, OwnIsUsers, View, LegacyView, GrokLegacy, IsWrapper
    <3>7. UserSettingsKept'
      BY <1>1, <3>2, <3>4 DEF SetupInv, UserSettingsKept
    <3>. QED
      BY <1>2, <2>1, <3>3, <3>5, <3>6, <3>7 DEF SetupInv, SetUpUnderWay, RemovalUnderWay, OfferUnderWay, RestoredIsOwn
  <2>. QED
    BY <2>2, <2>3
<1>. QED
  BY <1>3, <1>4

\* The person writes a status entry of their own: no record and no command under way takes it for a wrapper.
LEMMA UserStatusKeeps ==
    ASSUME SetupInv, UserWritesStatus
    PROVE  SetupInv'
<1>1. PICK e \in OwnEntries :
        /\ settings' = [settings EXCEPT !.status = e] /\ user' = [user EXCEPT !.status = e, !.guessed = FALSE]
        /\ UNCHANGED <<agent, binary, saved, command>>
  BY DEF UserWritesStatus, UserEdits
<1>2. EntryForm(e) /\ e.by = "own"
  BY DEF OwnEntries, NoEntry, EntryForm
<1>3. SettingsForm(settings) /\ UserForm(user) /\ SetupShapes
  BY DEF SetupInv, SetupShapes
<1>4. SettingsForm(settings') /\ settings'.status = e /\ settings'.rules = settings.rules /\ settings'.rest = settings.rest
  BY <1>1, <1>2, <1>3 DEF SettingsForm
<1>5. UserForm(user') /\ user'.status = e /\ user'.rules = user.rules /\ user'.rest = user.rest /\ user'.guessed = FALSE
  BY <1>1, <1>2, <1>3 DEF UserForm
<1>6. SetupShapes'
  BY <1>1, <1>3, <1>4, <1>5 DEF SetupShapes
<1>7. RecordKeepsEntry'
  BY <1>1 DEF SetupInv, RecordKeepsEntry, GrokLegacy
<1>8. WrappedIsUsers'
  <2>1. View(saved, settings.status)'.now.by = "own"
    BY <1>1, <1>2, <1>4 DEF View, LegacyView, EntryForm
  <2>2. SetupActive(saved) => IsWrapper(saved.wrapper)
    BY DEF SetupInv, RecordKeepsEntry
  <2>. QED
    BY <1>1, <2>1, <2>2 DEF WrappedIsUsers, IsWrapper
<1>9. OwnIsUsers' /\ UserSettingsKept'
  BY <1>4, <1>5 DEF SetupInv, OwnIsUsers, UserSettingsKept
<1>10. SetUpUnderWay'
  BY <1>1, <1>2, <1>4, <1>5 DEF SetupInv, SetUpUnderWay, IsWrapper
<1>11. RemovalUnderWay'
  BY <1>1, <1>2, <1>4, <1>5 DEF SetupInv, RemovalUnderWay, IsWrapper
<1>12. OfferUnderWay' /\ RestoredIsOwn'
  BY <1>1, <1>2, <1>4 DEF SetupInv, OfferUnderWay, RestoredIsOwn, IsWrapper
<1>. QED
  BY <1>6, <1>7, <1>8, <1>9, <1>10, <1>11, <1>12 DEF SetupInv

\* The other edits: an edited wrapper is no longer the recorded one, and the rest is not Koinon's.
LEMMA UserEditsKeep ==
    ASSUME SetupInv, UserEditsWrapper \/ UserWritesRules \/ UserWritesRest \/ UserEditsHooks \/ UserEditsServer
    PROVE  SetupInv'
<1>1. /\ UNCHANGED <<agent, binary, saved, command>> /\ SettingsForm(settings) /\ UserForm(user) /\ SetupShapes
      /\ CommandForm(command) /\ EntryForm(settings.status)
  BY DEF UserEditsWrapper, UserWritesRules, UserWritesRest, UserEditsHooks, UserEditsServer, UserEdits, SetupInv, SetupShapes,
     SettingsForm
<1>2. RecordKeepsEntry'
  BY <1>1 DEF SetupInv, RecordKeepsEntry, GrokLegacy
<1>3. OfferUnderWay'
  BY <1>1 DEF SetupInv, OfferUnderWay
<1>4. CASE UserEditsWrapper
  <2>1. /\ IsWrapper(settings.status) /\ UNCHANGED user
        /\ settings' = [settings EXCEPT !.status.edited = TRUE]
    BY <1>4 DEF UserEditsWrapper, UserEdits
  <2>2. PICK f : f = [settings.status EXCEPT !.edited = TRUE]
    OBVIOUS
  <2>3. EntryForm(f) /\ f.by = settings.status.by /\ f.cmd = settings.status.cmd /\ f.edited = TRUE
    BY <1>1, <2>2 DEF EntryForm
  <2>4. settings' = [settings EXCEPT !.status = f]
    BY <1>1, <2>1, <2>2 DEF SettingsForm
  <2>5. SettingsForm(settings') /\ settings'.status = f /\ settings'.rules = settings.rules /\ settings'.rest = settings.rest
    BY <1>1, <2>3, <2>4 DEF SettingsForm
  <2>6. SetupShapes'
    BY <1>1, <2>1, <2>5 DEF SetupShapes
  <2>7. WrappedIsUsers'
    <3>1. View(saved, settings.status)'.now.edited = TRUE
      BY <1>1, <2>3, <2>5 DEF View, LegacyView, EntryForm
    <3>2. SetupActive(saved) => saved.wrapper.edited = FALSE
      BY DEF SetupInv, RecordKeepsEntry
    <3>. QED
      BY <1>1, <3>1, <3>2 DEF WrappedIsUsers
  <2>8. OwnIsUsers' /\ UserSettingsKept'
    BY <2>1, <2>3, <2>5 DEF SetupInv, OwnIsUsers, UserSettingsKept, IsWrapper
  <2>9. RestoredIsOwn'
    BY <1>1, <2>1 DEF SetupInv, RestoredIsOwn
  <2>10. SetUpUnderWay'
    BY <1>1, <2>1, <2>3, <2>5 DEF SetupInv, SetUpUnderWay, IsWrapper, PlainWrapper
  <2>11. RemovalUnderWay'
    BY <1>1, <2>1, <2>3, <2>5 DEF SetupInv, RemovalUnderWay, IsWrapper, PlainWrapper
  <2>. QED
    BY <1>2, <1>3, <2>6, <2>7, <2>8, <2>9, <2>10, <2>11 DEF SetupInv
<1>5. ASSUME SettingsForm(settings'), settings'.status = settings.status, settings'.rules \in {"missing", "present", "different"},
             UserForm(user'), user'.status = user.status, user'.guessed = user.guessed, UserSettingsKept'
      PROVE  SetupInv'
  <2>1. SetupShapes'
    BY <1>1, <1>5 DEF SetupShapes
  <2>2. WrappedIsUsers' /\ OwnIsUsers' /\ RestoredIsOwn'
    BY <1>1, <1>5 DEF SetupInv, WrappedIsUsers, OwnIsUsers, RestoredIsOwn, View, LegacyView, GrokLegacy, IsWrapper
  <2>3. SetUpUnderWay' /\ RemovalUnderWay'
    BY <1>1, <1>5 DEF SetupInv, SetUpUnderWay, RemovalUnderWay
  <2>. QED
    BY <1>2, <1>3, <1>5, <2>1, <2>2, <2>3 DEF SetupInv
<1>6. CASE UserWritesRules
  <2>1. settings' = [settings EXCEPT !.rules = "different"] /\ user' = [user EXCEPT !.rules = "different"]
    BY <1>6 DEF UserWritesRules, UserEdits
  <2>2. /\ SettingsForm(settings') /\ settings'.status = settings.status /\ settings'.rules = "different"
        /\ settings'.rest = settings.rest
    BY <1>1, <2>1 DEF SettingsForm
  <2>3. UserForm(user') /\ user'.status = user.status /\ user'.rest = user.rest /\ user'.guessed = user.guessed
    BY <1>1, <2>1 DEF UserForm
  <2>4. UserSettingsKept'
    BY <2>2, <2>3 DEF SetupInv, UserSettingsKept
  <2>. QED
    BY <1>5, <2>2, <2>3, <2>4
<1>7. CASE UserWritesRest
  <2>1. settings' = [settings EXCEPT !.rest = 1 - @] /\ user' = [user EXCEPT !.rest = 1 - @]
    BY <1>7 DEF UserWritesRest, UserEdits
  <2>2. PICK x, y : x = 1 - settings.rest /\ y = 1 - user.rest
    OBVIOUS
  <2>3. /\ SettingsForm(settings') /\ settings'.status = settings.status /\ settings'.rules = settings.rules
        /\ settings'.rest = x
    BY <1>1, <2>1, <2>2 DEF SettingsForm
  <2>4. /\ UserForm(user') /\ user'.status = user.status /\ user'.rest = y /\ user'.guessed = user.guessed
        /\ user'.rules = user.rules
    BY <1>1, <2>1, <2>2 DEF UserForm
  <2>5. UserSettingsKept'
    BY <2>2, <2>3, <2>4 DEF SetupInv, UserSettingsKept
  <2>. QED
    BY <1>1, <1>5, <2>3, <2>4, <2>5 DEF SetupShapes
<1>8. CASE UserEditsHooks \/ UserEditsServer
  <2>1. UNCHANGED <<settings, user>>
    BY <1>8 DEF UserEditsHooks, UserEditsServer, UserEdits
  <2>2. UserSettingsKept'
    BY <2>1 DEF SetupInv, UserSettingsKept
  <2>. QED
    BY <1>1, <1>5, <2>1, <2>2 DEF SetupShapes
<1>. QED
  BY <1>4, <1>6, <1>7, <1>8

\* What set-up and removal leave in a person's files: the command, the rest and the rules the person
\* last wrote, and after a removal that says so the whole entry with its interval (setUp, remove,
\* writeRaw, conclude).
THEOREM SetupSoundThm == SetupSpec => []SetupSound
<1>1. SetupInv /\ [SetupNext]_setupVars => SetupInv'
  <2>. SUFFICES ASSUME SetupInv, [SetupNext]_setupVars PROVE SetupInv'
    OBVIOUS
  <2>1. CASE UNCHANGED setupVars
    <3>1. /\ UNCHANGED <<agent, binary, settings, saved, command, user>>
      BY <2>1 DEF setupVars
    <3>. QED
      BY <3>1 DEF SetupInv, SetupShapes, RecordKeepsEntry, WrappedIsUsers, OwnIsUsers, UserSettingsKept, SetUpUnderWay,
         RemovalUnderWay, OfferUnderWay, RestoredIsOwn, View, LegacyView, GrokLegacy
  <2>2. CASE StatusDecline
    <3>1. ~IsWrapper(settings.status)
      BY <2>2 DEF StatusDecline, SetupInv, RemovalUnderWay
    <3>. QED
      BY <2>2, <3>1, DeclinedKeeps DEF StatusDecline
  <2>. QED
    BY <2>1, <2>2, OtherStepsKeep, StatusSetUpKeeps, StatusWriteKeeps, StatusSaveKeeps, StatusRemoveKeeps, StatusRestoreKeeps,
       OfferStepsKeep, UserStatusKeeps, UserEditsKeep, Zenon DEF SetupNext
<1>2. SetupInv => SetupSound
  BY DEF SetupInv, SetupSound, RestoredIsUsers, RestoredIsOwn, OwnIsUsers
<1>. QED
  BY <1>1, <1>2, SetupInitInv, PTL DEF SetupSpec

-----------------------------------------------------------------------------
(* The upgrade from the Python runtime *)

PythonForm(p) ==
    p = [state |-> p.state, op |-> p.op, config |-> p.config, running |-> p.running, data |-> p.data]
TargetForm(t) == t = [holds |-> t.holds, of |-> t.of, used |-> t.used]
JournalForm(j) ==
    j = [phase |-> j.phase, attempt |-> j.attempt, config |-> j.config, was |-> j.was, stopped |-> j.stopped,
         report |-> j.report]
RunForm(r) ==
    r = [at |-> r.at, j |-> r.j, tried |-> r.tried, unit |-> r.unit, locked |-> r.locked] /\ JournalForm(r.j)
ImportForm(i) == i = [at |-> i.at, attempt |-> i.attempt, data |-> i.data]

UpgradeShapes ==
    /\ PythonForm(python) /\ TargetForm(target) /\ JournalForm(journal) /\ RunForm(run) /\ ImportForm(import)
    /\ attempts \in Nat /\ goUp \in BOOLEAN /\ late \in BOOLEAN

PhasesBefore == {"preflight", "excluded", "stopped"}
PhasesAfter == {"swapped", "python_removed"}

\* No attempt of an import is the attempt of the journal, and a new one is neither.
AttemptsDiffer ==
    /\ journal.attempt \in 0 .. attempts /\ record \in 0 .. attempts /\ import.attempt \in 0 .. attempts
    /\ record # 0 => record # journal.attempt
    /\ import.at \notin {"off", "recovered"} => import.attempt # journal.attempt

\* What a run holds in memory against the journal on the disk, which a kill leaves.
RunFollowsJournal ==
    /\ journal.phase \in {"none", "ended", "complete"} \cup PhasesBefore \cup PhasesAfter
    /\ run.at # "off" =>
         /\ run.at \in {"advance", "save", "stop", "stage", "swap", "uninstall", "remove", "failed", "end", "restart"}
         /\ journal.phase \in PhasesBefore \cup PhasesAfter
         /\ run.j.phase \in PhasesBefore \cup PhasesAfter \cup {"complete"}
         /\ journal.phase \in PhasesAfter => run.j.phase \notin PhasesBefore
         /\ run.j.attempt = journal.attempt /\ run.j.was = journal.was /\ run.j.stopped = journal.stopped
         /\ run.tried \subseteq journal.stopped
    /\ run.at \in {"advance", "stop", "stage", "swap", "uninstall", "remove"} => journal.phase = run.j.phase
    /\ run.at = "stop" => run.j.phase = "excluded" /\ run.unit \in journal.stopped
    /\ run.at \in {"stage", "swap"} => run.j.phase = "stopped"
    /\ run.at \in {"uninstall", "remove"} => run.j.phase = "swapped" /\ python.state \in {"removing", "gone"}
    /\ run.at \in {"end", "restart"} => run.j.phase \in PhasesBefore
    /\ run.at = "restart" => ~UpgradeOf(journal.attempt)

\* A service that ran runs still or is recorded for its restart.
ServicesKnown ==
    /\ journal.was \subseteq PyUnits
    /\ journal.phase \in PhasesBefore => journal.was \subseteq python.running \cup journal.stopped

\* daemon.lock: the installation of the Go daemon takes none, but then the import is over.
LocksExclude ==
    /\ run.at \in {"stage", "swap"} => run.locked = TRUE
    /\ run.at \notin {"stage", "swap"} => run.locked = FALSE
    /\ import.at # "off" => run.at \notin {"stage", "swap"} /\ (goUp => python.state = "gone")
    /\ import.at = "swap" => target.holds = "empty"

\* What the capture of a version data leaves, under this attempt's marker: no memory service runs or
\* writes after it, and nothing does unless a session started late.
HoldsWrites(data) ==
    /\ data.memory = python.data.memory /\ MemoryUnits \cap python.running = {}
    /\ late = FALSE => data = python.data /\ python.running = {}
Imported == target.holds = "import" /\ HoldsWrites(target.of)
CaptureIsCurrent == run.at \in {"stage", "swap"} /\ UpgradeOf(journal.attempt) => HoldsWrites(run.j.report)
SwappedIsImported ==
    (journal.phase = "swapped" \/ (run.at # "off" /\ run.j.phase = "swapped")) /\ UpgradeOf(journal.attempt) => Imported
RemovedIsImported ==
    /\ python.state \in {"removing", "gone"} => Imported /\ journal.phase \in PhasesAfter \cup {"complete"}
    /\ journal.phase \in {"python_removed", "complete"} => python.state = "gone"
    /\ run.at # "off" /\ run.j.phase \in {"python_removed", "complete"} => python.state = "gone"

UpgradeInv ==
    /\ UpgradeShapes /\ AttemptsDiffer /\ RunFollowsJournal /\ ServicesKnown /\ EndedGivesBack /\ LocksExclude
    /\ CaptureIsCurrent /\ SwappedIsImported /\ RemovedIsImported

LEMMA NoRunIsOff ==
    /\ RunForm(NoRun) /\ NoRun.at = "off" /\ NoRun.locked = FALSE /\ NoRun.j = NoJournal /\ NoRun.tried = {}
    /\ JournalForm(NoJournal) /\ ImportForm(NoImport) /\ NoImport.at = "off" /\ NoImport.attempt = 0
    /\ NoJournal.attempt = 0 /\ NoJournal.was = {} /\ NoJournal.stopped = {} /\ NoJournal.phase = "none"
BY DEF RunForm, NoRun, JournalForm, NoJournal, ImportForm, NoImport

LEMMA UpgradeInitInv == UpgradeInit => UpgradeInv
<1>. SUFFICES ASSUME UpgradeInit PROVE UpgradeInv
  OBVIOUS
<1>1. /\ python = [state |-> "installed", op |-> 0, config |-> 1, running |-> PyUnits,
                   data |-> [memory |-> 1, session |-> 1]]
      /\ target = [holds |-> "empty", of |-> NoData, used |-> FALSE] /\ goUp = FALSE /\ late = FALSE
      /\ journal = NoJournal /\ run = NoRun /\ record = 0 /\ import = NoImport /\ attempts = 0
  BY DEF UpgradeInit
<1>2. PythonForm(python) /\ TargetForm(target) /\ python.state = "installed"
  BY <1>1 DEF PythonForm, TargetForm
<1>3. UpgradeShapes
  BY <1>1, <1>2, NoRunIsOff DEF UpgradeShapes
<1>4. RunFollowsJournal /\ ServicesKnown /\ EndedGivesBack
  BY <1>1, <1>2, NoRunIsOff DEF RunFollowsJournal, ServicesKnown, EndedGivesBack, PhasesBefore
<1>5. LocksExclude
  BY <1>1, NoRunIsOff DEF LocksExclude
<1>6. AttemptsDiffer
  <2>1. journal.attempt = 0 /\ record = 0 /\ import.attempt = 0 /\ attempts = 0 /\ import.at = "off"
    BY <1>1, NoRunIsOff
  <2>. QED
    BY <2>1 DEF AttemptsDiffer
<1>. QED
  BY <1>1, <1>2, <1>3, <1>4, <1>5, <1>6, NoRunIsOff DEF UpgradeInv, CaptureIsCurrent, HoldsWrites, SwappedIsImported, RemovedIsImported

\* What the changes of a run in memory leave of it.
LEMMA RunTurns ==
    ASSUME RunForm(run), NEW at, RunAt(at)
    PROVE  RunForm(run') /\ run'.at = at /\ run'.j = run.j /\ run'.tried = run.tried /\ run'.locked = run.locked
BY DEF RunAt, RunForm

LEMMA RunFails ==
    ASSUME RunForm(run), Failed
    PROVE  RunForm(run') /\ run'.at = "failed" /\ run'.j = run.j /\ run'.tried = run.tried /\ run'.locked = FALSE
BY DEF Failed, RunForm

LEMMA PhaseTurns ==
    ASSUME RunForm(run), NEW p, Phase(p)
    PROVE  /\ RunForm(run') /\ run'.at = "save" /\ run'.tried = {} /\ run'.locked = FALSE
           /\ run'.j.phase = p /\ run'.j.attempt = run.j.attempt /\ run'.j.was = run.j.was
           /\ run'.j.stopped = run.j.stopped /\ run'.j.report = run.j.report
<1>1. PICK j : j = [run.j EXCEPT !.phase = p]
  OBVIOUS
<1>2. run' = [run EXCEPT !.at = "save", !.j = j, !.locked = FALSE, !.tried = {}]
  BY <1>1 DEF Phase, RunForm
<1>3. /\ JournalForm(j) /\ j.phase = p /\ j.attempt = run.j.attempt /\ j.was = run.j.was /\ j.stopped = run.j.stopped
      /\ j.report = run.j.report
  BY <1>1 DEF RunForm, JournalForm
<1>4. RunForm(run') /\ run'.at = "save" /\ run'.tried = {} /\ run'.locked = FALSE /\ run'.j = j
  BY <1>2, <1>3 DEF RunForm
<1>. QED
  BY <1>3, <1>4

\* A step of the run that leaves every file alone and is not between a capture and its swap.
LEMMA RunRests ==
    ASSUME UpgradeInv, UNCHANGED <<python, target, goUp, journal, record, import, attempts, late>>, RunForm(run'),
           run'.locked = FALSE, run'.at \notin {"stage", "swap"}, RunFollowsJournal',
           \/ run'.at = "off" \/ run'.j.phase \in PhasesBefore \/ run'.j.phase = journal.phase
           \/ run.at # "off" /\ run'.j.phase = run.j.phase
    PROVE  UpgradeInv'
<1>1. UpgradeShapes' /\ AttemptsDiffer' /\ ServicesKnown' /\ EndedGivesBack'
  BY DEF UpgradeInv, UpgradeShapes, AttemptsDiffer, ServicesKnown, EndedGivesBack, UpgradeOf
<1>2. LocksExclude'
  BY DEF UpgradeInv, LocksExclude
<1>3. CaptureIsCurrent' /\ SwappedIsImported'
  BY DEF UpgradeInv, CaptureIsCurrent, SwappedIsImported, UpgradeOf, Imported, HoldsWrites, PhasesBefore
<1>4. RemovedIsImported'
  BY DEF UpgradeInv, RemovedIsImported, Imported, HoldsWrites, PhasesBefore
<1>. QED
  BY <1>1, <1>2, <1>3, <1>4 DEF UpgradeInv

LEMMA RunOff ==
    ASSUME UpgradeInv, UNCHANGED <<python, target, goUp, journal, record, import, attempts, late>>, run' = NoRun
    PROVE  UpgradeInv'
<1>1. RunFollowsJournal'
  BY NoRunIsOff DEF UpgradeInv, RunFollowsJournal
<1>. QED
  BY <1>1, NoRunIsOff, RunRests

LEMMA RunFailed ==
    ASSUME UpgradeInv, UNCHANGED <<python, target, goUp, journal, record, import, attempts, late>>, Failed,
           run.at \notin {"off", "end", "restart"}
    PROVE  UpgradeInv'
<1>1. RunForm(run') /\ run'.at = "failed" /\ run'.j = run.j /\ run'.tried = run.tried /\ run'.locked = FALSE
  BY RunFails DEF UpgradeInv, UpgradeShapes
<1>2. RunFollowsJournal'
  BY <1>1 DEF UpgradeInv, RunFollowsJournal
<1>. QED
  BY <1>1, <1>2, RunRests

LEMMA QuietRunStepsKeep ==
    ASSUME UpgradeInv, UpgradeResume \/ UpgradeStopped \/ UpgradeFails \/ UpgradeKilled
    PROVE  UpgradeInv'
<1>1. UNCHANGED <<python, target, goUp, journal, record, import, attempts, late>> /\ RunForm(run) /\ JournalForm(journal)
  BY DEF UpgradeResume, UpgradeStopped, UpgradeFails, UpgradeKilled, UpgradeInv, UpgradeShapes
<1>2. CASE UpgradeResume
  <2>1. run' = [NoRun EXCEPT !.at = "advance", !.j = journal] /\ journal.phase \notin {"none", "ended", "complete"}
    BY <1>2 DEF UpgradeResume
  <2>2. RunForm(run') /\ run'.at = "advance" /\ run'.j = journal /\ run'.tried = {} /\ run'.locked = FALSE
    BY <1>1, <2>1 DEF RunForm, NoRun
  <2>3. journal.phase \in PhasesBefore \cup PhasesAfter
    BY <2>1 DEF UpgradeInv, RunFollowsJournal
  <2>4. RunFollowsJournal'
    BY <1>1, <2>2, <2>3 DEF RunFollowsJournal, PhasesBefore, PhasesAfter
  <2>. QED
    BY <1>1, <2>2, <2>4, RunRests
<1>3. CASE UpgradeStopped
  <2>1. run.at = "advance" /\ run.j.phase = "excluded" /\ (Phase("stopped") \/ Failed)
    BY <1>3 DEF UpgradeStopped
  <2>2. CASE Failed
    BY <1>1, <2>1, <2>2, RunFailed
  <2>3. CASE Phase("stopped")
    <3>1. /\ RunForm(run') /\ run'.at = "save" /\ run'.tried = {} /\ run'.locked = FALSE
          /\ run'.j.phase = "stopped" /\ run'.j.attempt = run.j.attempt /\ run'.j.was = run.j.was
          /\ run'.j.stopped = run.j.stopped
      BY <1>1, <2>3, PhaseTurns
    <3>2. RunFollowsJournal'
      BY <1>1, <2>1, <3>1 DEF UpgradeInv, RunFollowsJournal, PhasesBefore, PhasesAfter
    <3>. QED
      BY <1>1, <3>1, <3>2, RunRests DEF PhasesBefore
  <2>. QED
    BY <2>1, <2>2, <2>3
<1>4. CASE UpgradeFails
  BY <1>1, <1>4, RunFailed DEF UpgradeFails
<1>5. CASE UpgradeKilled
  BY <1>1, <1>5, RunOff DEF UpgradeKilled
<1>. QED
  BY <1>2, <1>3, <1>4, <1>5

\* Steps of an import and of the world that change neither what runs nor what it wrote.
LEMMA ImportRests ==
    ASSUME UpgradeInv, UNCHANGED <<goUp, journal, run, target, late>>, PythonForm(python'),
           python'.running = python.running, python'.data = python.data,
           \/ python'.state = python.state /\ python'.op = python.op
           \/ python.state \notin {"removing", "gone"} /\ python'.state = "installed"
           \/ python.state \notin {"removing", "gone"} /\ python'.state = "upgrading" /\ python'.op # journal.attempt,
           ImportForm(import'), attempts' \in Nat, AttemptsDiffer',
           import'.at # "off" => run.at \notin {"stage", "swap"} /\ (goUp => python.state = "gone"),
           import'.at = "swap" => target.holds = "empty"
    PROVE  UpgradeInv'
<1>1. UpgradeShapes'
  BY DEF UpgradeInv, UpgradeShapes
<1>2. UpgradeOf(journal.attempt)' => UpgradeOf(journal.attempt)
  BY DEF UpgradeOf
<1>3. python'.state \in {"removing", "gone"} <=> python.state \in {"removing", "gone"}
  OBVIOUS
<1>4. python.state = "gone" => python'.state = "gone"
  OBVIOUS
<1>5. RunFollowsJournal' /\ ServicesKnown' /\ EndedGivesBack'
  BY <1>2, <1>3 DEF UpgradeInv, RunFollowsJournal, ServicesKnown, EndedGivesBack
<1>6. LocksExclude'
  BY <1>4 DEF UpgradeInv, LocksExclude
<1>7. CaptureIsCurrent' /\ SwappedIsImported'
  BY <1>2 DEF UpgradeInv, CaptureIsCurrent, HoldsWrites, SwappedIsImported, Imported
<1>8. RemovedIsImported'
  BY <1>3, <1>4 DEF UpgradeInv, RemovedIsImported, Imported, HoldsWrites
<1>. QED
  BY <1>1, <1>5, <1>6, <1>7, <1>8 DEF UpgradeInv

LEMMA RecoverGivesBack ==
    ASSUME PythonForm(python), NEW a, RecoverConfig(a)
    PROVE  /\ PythonForm(python') /\ python'.running = python.running /\ python'.data = python.data
           /\ \/ python'.state = python.state /\ python'.op = python.op
              \/ python.state \notin {"removing", "gone"} /\ python'.state = "installed"
<1>1. CASE UpgradeOf(a)
  BY <1>1 DEF RecoverConfig, PythonForm, UpgradeOf
<1>2. CASE ~UpgradeOf(a)
  BY <1>2 DEF RecoverConfig
<1>. QED
  BY <1>1, <1>2

LEMMA MarkerPublished ==
    ASSUME PythonForm(python), NEW a, NEW config, PublishMarker(a, config),
           python' = [python EXCEPT !.state = "upgrading", !.op = a]
    PROVE  /\ PythonForm(python') /\ python'.running = python.running /\ python'.data = python.data
           /\ python.state \notin {"removing", "gone"} /\ python'.state = "upgrading" /\ python'.op = a
BY DEF PublishMarker, PythonForm, UpgradeOf

LEMMA ImportTurns ==
    ASSUME ImportForm(import), NEW at, import' = [import EXCEPT !.at = at]
    PROVE  ImportForm(import') /\ import'.at = at /\ import'.attempt = import.attempt
BY DEF ImportForm

LEMMA ImportStepsKeep ==
    ASSUME UpgradeInv,
           \/ ImportRun \/ ImportBegin \/ ImportMarker \/ ImportMarkerUnsynced \/ ImportCapture \/ ImportRestore
           \/ ImportForget \/ ImportKilled
    PROVE  UpgradeInv'
<1>1. /\ UNCHANGED <<goUp, journal, run, target, late>> /\ PythonForm(python) /\ ImportForm(import) /\ attempts \in Nat
      /\ RunForm(run) /\ goUp \in BOOLEAN
  BY DEF ImportRun, ImportBegin, ImportMarker, ImportMarkerUnsynced, ImportCapture, ImportRestore, ImportForget, ImportKilled,
     UpgradeInv, UpgradeShapes
<1>2. /\ journal.attempt \in 0 .. attempts /\ record \in 0 .. attempts /\ import.attempt \in 0 .. attempts
      /\ record # 0 => record # journal.attempt
      /\ import.at \notin {"off", "recovered"} => import.attempt # journal.attempt
  BY DEF UpgradeInv, AttemptsDiffer
<1>3. import.at # "off" => run.at \notin {"stage", "swap"} /\ (goUp => python.state = "gone")
  BY DEF UpgradeInv, LocksExclude
<1>4. ASSUME import' = NoImport, record' \in {0, record}, attempts' \in {attempts, attempts + 1}
      PROVE  ImportForm(import') /\ import'.at = "off" /\ AttemptsDiffer' /\ attempts' \in Nat
  <2>1. ImportForm(import') /\ import'.at = "off" /\ import'.attempt = 0
    BY <1>4, NoRunIsOff
  <2>. QED
    BY <1>1, <1>2, <1>4, <2>1 DEF AttemptsDiffer
<1>5. CASE ImportRun
  <2>1. /\ ~goUp /\ run.locked # TRUE /\ UNCHANGED <<record, attempts, late>> /\ import' = [NoImport EXCEPT !.at = "recovered"]
        /\ IF record = 0 THEN UNCHANGED python ELSE RecoverConfig(record)
    BY <1>5 DEF ImportRun, DaemonLockFree
  <2>2. ImportForm(import') /\ import'.at = "recovered" /\ import'.attempt = 0
    BY <2>1 DEF ImportForm, NoImport
  <2>3. AttemptsDiffer'
    BY <1>1, <1>2, <2>1, <2>2 DEF AttemptsDiffer
  <2>4. run.at \notin {"stage", "swap"}
    BY <2>1 DEF UpgradeInv, LocksExclude
  <2>5. /\ PythonForm(python') /\ python'.running = python.running /\ python'.data = python.data
        /\ \/ python'.state = python.state /\ python'.op = python.op
           \/ python.state \notin {"removing", "gone"} /\ python'.state = "installed"
    BY <1>1, <2>1, RecoverGivesBack
  <2>. QED
    BY <1>1, <2>1, <2>2, <2>3, <2>4, <2>5, ImportRests
<1>6. CASE ImportBegin
  <2>1. /\ UNCHANGED python /\ import.at = "recovered" /\ attempts' = attempts + 1
        /\ \/ import' = [NoImport EXCEPT !.at = "capture", !.attempt = attempts + 1] /\ record' = 0
           \/ import' = [NoImport EXCEPT !.at = "marker", !.attempt = attempts + 1] /\ record' = attempts + 1
           \/ import' = NoImport /\ record' = 0
    BY <1>6 DEF ImportBegin
  <2>2. CASE import' = NoImport /\ record' = 0
    BY <1>1, <1>4, <2>1, <2>2, ImportRests
  <2>3. ASSUME NEW at \in {"capture", "marker"}, import' = [NoImport EXCEPT !.at = at, !.attempt = attempts + 1],
               record' \in {0, attempts + 1}
        PROVE  UpgradeInv'
    <3>1. ImportForm(import') /\ import'.at = at /\ import'.attempt = attempts + 1
      BY <2>3 DEF ImportForm, NoImport
    <3>2. AttemptsDiffer' /\ attempts' \in Nat
      BY <1>1, <1>2, <2>1, <2>3, <3>1 DEF AttemptsDiffer
    <3>. QED
      BY <1>1, <1>3, <2>1, <3>1, <3>2, ImportRests
  <2>. QED
    BY <2>1, <2>2, <2>3
<1>7. CASE ImportMarker \/ ImportMarkerUnsynced
  <2>1. import.at = "marker" /\ UNCHANGED attempts
    BY <1>7 DEF ImportMarker, ImportMarkerUnsynced
  <2>2. CASE UNCHANGED python
    <3>1. CASE import' = NoImport /\ record' = 0
      BY <1>1, <1>4, <2>1, <2>2, <3>1, ImportRests
    <3>2. CASE ~(import' = NoImport /\ record' = 0)
      <4>1. import' = [import EXCEPT !.at = "capture"] /\ UNCHANGED record
        BY <1>7, <3>2 DEF ImportMarker, ImportMarkerUnsynced
      <4>2. ImportForm(import') /\ import'.at = "capture" /\ import'.attempt = import.attempt
        BY <1>1, <4>1, ImportTurns
      <4>3. AttemptsDiffer'
        BY <1>1, <1>2, <2>1, <4>1, <4>2 DEF AttemptsDiffer
      <4>. QED
        BY <1>1, <1>3, <2>1, <2>2, <4>2, <4>3, ImportRests
    <3>. QED
      BY <3>1, <3>2
  <2>3. CASE python' # python
    <3>1. /\ PublishMarker(import.attempt, python.config) /\ python' = [python EXCEPT !.state = "upgrading", !.op = import.attempt]
          /\ \/ import' = [import EXCEPT !.at = "capture"] /\ UNCHANGED record
             \/ import' = NoImport /\ record' = 0
      BY <1>7, <2>3 DEF ImportMarker, ImportMarkerUnsynced
    <3>2. /\ PythonForm(python') /\ python'.running = python.running /\ python'.data = python.data
          /\ python.state \notin {"removing", "gone"} /\ python'.state = "upgrading" /\ python'.op # journal.attempt
      BY <1>1, <1>2, <2>1, <3>1, MarkerPublished
    <3>3. CASE import' = NoImport /\ record' = 0
      BY <1>1, <1>4, <2>1, <3>2, <3>3, ImportRests
    <3>4. CASE import' = [import EXCEPT !.at = "capture"] /\ UNCHANGED record
      <4>1. ImportForm(import') /\ import'.at = "capture" /\ import'.attempt = import.attempt
        BY <1>1, <3>4, ImportTurns
      <4>2. AttemptsDiffer'
        BY <1>1, <1>2, <2>1, <3>4, <4>1 DEF AttemptsDiffer
      <4>. QED
        BY <1>1, <1>3, <2>1, <3>2, <4>1, <4>2, ImportRests
    <3>. QED
      BY <3>1, <3>3, <3>4
  <2>. QED
    BY <2>2, <2>3
<1>8. CASE ImportCapture
  <2>1. import.at = "capture" /\ UNCHANGED <<python, record, attempts, late>>
    BY <1>8 DEF ImportCapture
  <2>2. \/ import' = [import EXCEPT !.at = "swap", !.data = python.data] /\ target.holds = "empty"
        \/ import' = [import EXCEPT !.at = "restore"]
    BY <1>8 DEF ImportCapture
  <2>3. /\ ImportForm(import') /\ import'.at \in {"swap", "restore"} /\ import'.attempt = import.attempt
        /\ import'.at = "swap" => target.holds = "empty"
    BY <1>1, <2>2 DEF ImportForm
  <2>4. AttemptsDiffer'
    BY <1>1, <1>2, <2>1, <2>3 DEF AttemptsDiffer
  <2>. QED
    BY <1>1, <1>3, <2>1, <2>3, <2>4, ImportRests
<1>9. CASE ImportRestore
  <2>1. import.at = "restore" /\ UNCHANGED <<record, attempts, late>> /\ RecoverConfig(import.attempt)
        /\ import' = [import EXCEPT !.at = "forget"]
    BY <1>9 DEF ImportRestore
  <2>2. ImportForm(import') /\ import'.at = "forget" /\ import'.attempt = import.attempt
    BY <1>1, <2>1, ImportTurns
  <2>3. AttemptsDiffer'
    BY <1>1, <1>2, <2>1, <2>2 DEF AttemptsDiffer
  <2>4. /\ PythonForm(python') /\ python'.running = python.running /\ python'.data = python.data
        /\ \/ python'.state = python.state /\ python'.op = python.op
           \/ python.state \notin {"removing", "gone"} /\ python'.state = "installed"
    BY <1>1, <2>1, RecoverGivesBack
  <2>. QED
    BY <1>1, <1>3, <2>1, <2>2, <2>3, <2>4, ImportRests
<1>10. CASE ImportForget \/ ImportKilled
  BY <1>1, <1>4, <1>10, ImportRests DEF ImportForget, ImportKilled
<1>. QED
  BY <1>5, <1>6, <1>7, <1>8, <1>9, <1>10

\* The import holds the lock: the target that it found empty is empty still.
LEMMA ImportSwapKeeps ==
    ASSUME UpgradeInv, ImportSwap
    PROVE  UpgradeInv'
<1>1. /\ UNCHANGED <<python, goUp, journal, run, record, attempts, late>> /\ import.at = "swap" /\ ImportForm(import)
      /\ target' = [holds |-> "import", of |-> import.data, used |-> FALSE] /\ import' = [import EXCEPT !.at = "restore"]
  BY DEF ImportSwap, SwapTarget, UpgradeInv, UpgradeShapes
<1>2. TargetForm(target') /\ ImportForm(import') /\ import'.at = "restore" /\ import'.attempt = import.attempt
  BY <1>1, ImportTurns DEF TargetForm
<1>3. ~Imported
  BY <1>1 DEF UpgradeInv, LocksExclude, Imported, HoldsWrites
<1>4. UpgradeShapes' /\ AttemptsDiffer' /\ LocksExclude'
  BY <1>1, <1>2 DEF UpgradeInv, UpgradeShapes, AttemptsDiffer, LocksExclude
<1>5. RunFollowsJournal' /\ ServicesKnown' /\ EndedGivesBack' /\ CaptureIsCurrent'
  BY <1>1 DEF UpgradeInv, RunFollowsJournal, ServicesKnown, EndedGivesBack, CaptureIsCurrent, HoldsWrites, UpgradeOf
<1>6. SwappedIsImported' /\ RemovedIsImported'
  BY <1>1, <1>3 DEF UpgradeInv, SwappedIsImported, RemovedIsImported, UpgradeOf
<1>. QED
  BY <1>4, <1>5, <1>6 DEF UpgradeInv

LEMMA WorldKeeps ==
    ASSUME UpgradeInv,
           \/ \E u \in PyUnits \cup {"stray"} : PythonStarts(u)
           \/ StrayEnds \/ PythonWrites \/ PythonReconfigured \/ GoDaemon
    PROVE  UpgradeInv'
<1>1. /\ UNCHANGED <<journal, run, record, import, attempts>> /\ PythonForm(python) /\ TargetForm(target) /\ goUp \in BOOLEAN
      /\ ImportForm(import) /\ attempts \in Nat /\ late \in BOOLEAN
  BY DEF PythonStarts, StrayEnds, PythonWrites, PythonReconfigured, GoDaemon, UpgradeInv, UpgradeShapes
<1>2. AttemptsDiffer'
  BY <1>1 DEF UpgradeInv, AttemptsDiffer
<1>3. ASSUME UNCHANGED <<target, goUp>>, NEW R, python' = [python EXCEPT !.running = R],
             journal.was \cap python.running \subseteq R, late' \in BOOLEAN,
             python.state # "installed" => /\ R \cap MemoryUnits \subseteq python.running
                                           /\ late' = FALSE => late = FALSE /\ R \subseteq python.running
      PROVE  UpgradeInv'
  <2>1. PythonForm(python') /\ python'.running = R /\ python'.state = python.state /\ python'.op = python.op /\ python'.data = python.data
    BY <1>1, <1>3 DEF PythonForm
  <2>2. ASSUME NEW d, HoldsWrites(d), python.state # "installed" PROVE HoldsWrites(d)'
    BY <1>3, <2>1, <2>2 DEF HoldsWrites
  <2>3. UpgradeOf(journal.attempt)' <=> UpgradeOf(journal.attempt)
    BY <1>1, <2>1 DEF UpgradeOf
  <2>4. UpgradeShapes' /\ LocksExclude'
    BY <1>1, <1>3, <2>1 DEF UpgradeInv, UpgradeShapes, LocksExclude
  <2>5. RunFollowsJournal'
    BY <1>1, <2>1, <2>3 DEF UpgradeInv, RunFollowsJournal
  <2>6. ServicesKnown' /\ EndedGivesBack'
    BY <1>1, <1>3, <2>1, <2>3 DEF UpgradeInv, ServicesKnown, EndedGivesBack
  <2>7. CaptureIsCurrent'
    BY <1>1, <2>1, <2>2, <2>3 DEF UpgradeInv, CaptureIsCurrent, UpgradeOf
  <2>8. Imported /\ python.state # "installed" => Imported'
    BY <1>3, <2>2 DEF Imported
  <2>9. SwappedIsImported' /\ RemovedIsImported'
    BY <1>1, <2>1, <2>8, <2>3 DEF UpgradeInv, SwappedIsImported, RemovedIsImported, UpgradeOf
  <2>. QED
    BY <1>2, <2>4, <2>5, <2>6, <2>7, <2>9 DEF UpgradeInv
<1>4. ASSUME NEW u, PythonStarts(u)
      PROVE  UpgradeInv'
  <2>1. /\ UNCHANGED <<target, goUp>> /\ python' = [python EXCEPT !.running = python.running \cup {u}]
        /\ u \in MemoryUnits => python.state = "installed"
        /\ late' = IF python.state = "installed" THEN late ELSE TRUE
    BY <1>4 DEF PythonStarts
  <2>2. late' \in BOOLEAN /\ (python.state # "installed" => late' # FALSE)
    BY <1>1, <2>1
  <2>. QED
    BY <1>3, <2>1, <2>2
<1>5. CASE StrayEnds
  <2>1. UNCHANGED <<target, goUp, late>> /\ python' = [python EXCEPT !.running = python.running \ {"stray"}]
    BY <1>5 DEF StrayEnds
  <2>2. "stray" \notin journal.was
    BY UpgradeAssumption DEF UpgradeInv, ServicesKnown
  <2>. QED
    BY <1>1, <1>3, <2>1, <2>2
<1>6. CASE PythonWrites
  <2>1. UNCHANGED <<target, goUp, late>>
    BY <1>6 DEF PythonWrites
  <2>2. PICK d : /\ python' = [python EXCEPT !.data = d]
                 /\ python.running # {} /\ (python.running \cap MemoryUnits = {} => d.memory = python.data.memory)
    <3>1. CASE python.running \cap MemoryUnits # {}
      <4>1. \E d : python' = [python EXCEPT !.data = d]
        BY <1>1, <1>6 DEF PythonWrites, PythonForm
      <4>. QED
        BY <3>1, <4>1
    <3>2. CASE python.running \cap MemoryUnits = {}
      <4>1. ~(python.running \subseteq MemoryUnits) /\ python' = [python EXCEPT !.data.session = @ + 1]
        BY <1>6, <3>2 DEF PythonWrites
      <4>2. PICK d : d = [python.data EXCEPT !.session = @ + 1]
        OBVIOUS
      <4>3. d.memory = python.data.memory
        BY <4>2
      <4>4. python' = [python EXCEPT !.data = d]
        BY <1>1, <4>1, <4>2 DEF PythonForm
      <4>. QED
        BY <4>1, <4>3, <4>4
    <3>. QED
      BY <3>1, <3>2
  <2>3. /\ PythonForm(python') /\ python'.running = python.running /\ python'.state = python.state /\ python'.op = python.op
        /\ python'.data = d
    BY <1>1, <2>2 DEF PythonForm
  <2>4. ASSUME NEW c, HoldsWrites(c) PROVE HoldsWrites(c)'
    BY <2>1, <2>2, <2>3, <2>4 DEF HoldsWrites
  <2>5. UpgradeOf(journal.attempt)' <=> UpgradeOf(journal.attempt)
    BY <1>1, <2>3 DEF UpgradeOf
  <2>6. UpgradeShapes' /\ LocksExclude'
    BY <1>1, <2>1, <2>3 DEF UpgradeInv, UpgradeShapes, LocksExclude
  <2>7. RunFollowsJournal' /\ ServicesKnown' /\ EndedGivesBack'
    BY <1>1, <2>3, <2>5 DEF UpgradeInv, RunFollowsJournal, ServicesKnown, EndedGivesBack
  <2>8. Imported => Imported'
    BY <2>1, <2>4 DEF Imported
  <2>9. CaptureIsCurrent'
    BY <1>1, <2>4, <2>5 DEF UpgradeInv, CaptureIsCurrent
  <2>10. SwappedIsImported' /\ RemovedIsImported'
    BY <1>1, <2>3, <2>5, <2>8 DEF UpgradeInv, SwappedIsImported, RemovedIsImported
  <2>. QED
    BY <1>2, <2>6, <2>7, <2>9, <2>10 DEF UpgradeInv
<1>7. CASE PythonReconfigured
  <2>1. UNCHANGED <<target, goUp, late>> /\ python' = [python EXCEPT !.config = @ + 1]
    BY <1>7 DEF PythonReconfigured
  <2>2. PICK c : c = python.config + 1
    OBVIOUS
  <2>3. /\ PythonForm(python') /\ python'.running = python.running /\ python'.state = python.state /\ python'.op = python.op
        /\ python'.data = python.data
    BY <1>1, <2>1, <2>2 DEF PythonForm
  <2>4. /\ import.at # "off" => run.at \notin {"stage", "swap"} /\ (goUp => python.state = "gone")
        /\ import.at = "swap" => target.holds = "empty"
    BY DEF UpgradeInv, LocksExclude
  <2>. QED
    BY <1>1, <1>2, <2>1, <2>3, <2>4, ImportRests
<1>8. CASE GoDaemon
  <2>1. UNCHANGED <<python, late>> /\ goUp' \in BOOLEAN
    BY <1>1, <1>8 DEF GoDaemon
  <2>2. /\ goUp' => goUp \/ import.at = "off"
        /\ target' # target => goUp
        /\ \/ target' = target
           \/ target.holds = "empty" /\ target' = [target EXCEPT !.holds = "other"]
           \/ target.holds # "empty" /\ target' = [target EXCEPT !.used = TRUE]
    BY <1>8 DEF GoDaemon, DaemonLockFree
  <2>3. /\ TargetForm(target') /\ target'.of = target.of
        /\ target'.holds = target.holds \/ (target.holds = "empty" /\ goUp)
    BY <1>1, <2>2 DEF TargetForm
  <2>4. Imported => Imported'
    BY <2>1, <2>3 DEF Imported, HoldsWrites
  <2>5. UpgradeShapes'
    BY <1>1, <2>1, <2>3 DEF UpgradeInv, UpgradeShapes
  <2>6. LocksExclude'
    <3>1. import.at = "swap" /\ goUp => FALSE
      BY DEF UpgradeInv, LocksExclude, RemovedIsImported, Imported, HoldsWrites
    <3>. QED
      BY <1>1, <2>1, <2>2, <2>3, <3>1 DEF UpgradeInv, LocksExclude
  <2>7. RunFollowsJournal' /\ ServicesKnown' /\ EndedGivesBack' /\ CaptureIsCurrent'
    BY <1>1, <2>1 DEF UpgradeInv, RunFollowsJournal, ServicesKnown, EndedGivesBack, CaptureIsCurrent, HoldsWrites, UpgradeOf
  <2>8. SwappedIsImported' /\ RemovedIsImported'
    BY <1>1, <2>1, <2>4 DEF UpgradeInv, SwappedIsImported, RemovedIsImported, UpgradeOf
  <2>. QED
    BY <1>2, <2>5, <2>6, <2>7, <2>8 DEF UpgradeInv
<1>. QED
  BY <1>4, <1>5, <1>6, <1>7, <1>8

LEMMA UpgradeBeginKeeps ==
    ASSUME UpgradeInv, UpgradeBegin
    PROVE  UpgradeInv'
<1>1. PICK j : /\ j = [NoJournal EXCEPT !.phase = "preflight", !.attempt = attempts + 1,
                                        !.config = python.config, !.was = python.running \cap PyUnits]
               /\ journal' = j /\ run' = [NoRun EXCEPT !.at = "advance", !.j = j]
  BY DEF UpgradeBegin
<1>2. /\ UNCHANGED <<python, target, goUp, record, import, late>> /\ attempts' = attempts + 1 /\ python.state = "installed"
      /\ import.at = "off" /\ attempts \in Nat /\ ImportForm(import)
  BY DEF UpgradeBegin, DaemonLockFree, UpgradeInv, UpgradeShapes
<1>3. /\ JournalForm(j) /\ j.phase = "preflight" /\ j.attempt = attempts + 1 /\ j.was = python.running \cap PyUnits
      /\ j.stopped = {}
  BY <1>1 DEF JournalForm, NoJournal
<1>4. RunForm(run') /\ run'.at = "advance" /\ run'.j = j /\ run'.tried = {} /\ run'.locked = FALSE
  BY <1>1, <1>3 DEF RunForm, NoRun
<1>5. UpgradeShapes'
  BY <1>1, <1>2, <1>3, <1>4 DEF UpgradeInv, UpgradeShapes
<1>6. AttemptsDiffer'
  BY <1>1, <1>2, <1>3 DEF UpgradeInv, AttemptsDiffer
<1>7. RunFollowsJournal' /\ ServicesKnown' /\ EndedGivesBack'
  BY <1>1, <1>2, <1>3, <1>4 DEF RunFollowsJournal, ServicesKnown, EndedGivesBack, PhasesBefore, PhasesAfter
<1>8. LocksExclude'
  BY <1>2, <1>4 DEF UpgradeInv, LocksExclude
<1>. QED
  BY <1>1, <1>2, <1>3, <1>4, <1>5, <1>6, <1>7, <1>8 DEF UpgradeInv, CaptureIsCurrent, HoldsWrites, SwappedIsImported, RemovedIsImported

LEMMA UpgradeSaveKeeps ==
    ASSUME UpgradeInv, UpgradeSave
    PROVE  UpgradeInv'
<1>1. /\ UNCHANGED <<python, target, goUp, record, import, attempts, late>> /\ run.at = "save" /\ journal' = run.j /\ RunForm(run)
      /\ JournalForm(run.j)
  BY DEF UpgradeSave, UpgradeInv, UpgradeShapes, RunForm
<1>2. /\ run.j.attempt = journal.attempt /\ run.j.was = journal.was /\ run.j.stopped = journal.stopped
      /\ run.tried \subseteq journal.stopped /\ journal.phase \in PhasesBefore \cup PhasesAfter
      /\ run.j.phase \in PhasesBefore \cup PhasesAfter \cup {"complete"}
      /\ journal.phase \in PhasesAfter => run.j.phase \notin PhasesBefore
  BY <1>1 DEF UpgradeInv, RunFollowsJournal
<1>3. /\ RunForm(run') /\ run'.locked = FALSE
      /\ run.j.phase = "complete" => run' = NoRun
      /\ run.j.phase # "complete" => run'.at = "advance" /\ run'.j = run.j /\ run'.tried = run.tried
  <2>1. run.locked = FALSE
    BY <1>1 DEF UpgradeInv, LocksExclude
  <2>2. CASE run.j.phase = "complete"
    BY <2>2, NoRunIsOff DEF UpgradeSave
  <2>3. CASE run.j.phase # "complete"
    BY <1>1, <2>1, <2>3, RunTurns DEF UpgradeSave
  <2>. QED
    BY <2>2, <2>3
<1>4. run'.at \in {"off", "advance"} /\ (run'.at # "off" => run'.j = run.j)
  BY <1>3, NoRunIsOff
<1>5. UpgradeShapes' /\ AttemptsDiffer'
  BY <1>1, <1>2, <1>3 DEF UpgradeInv, UpgradeShapes, AttemptsDiffer
<1>6. RunFollowsJournal'
  BY <1>1, <1>2, <1>3, NoRunIsOff DEF RunFollowsJournal, PhasesBefore, PhasesAfter
<1>7. ServicesKnown' /\ EndedGivesBack'
  BY <1>1, <1>2 DEF UpgradeInv, ServicesKnown, EndedGivesBack, PhasesBefore, PhasesAfter
<1>8. LocksExclude'
  BY <1>1, <1>3, <1>4 DEF UpgradeInv, LocksExclude
<1>9. CaptureIsCurrent' /\ SwappedIsImported'
  BY <1>1, <1>2, <1>4 DEF UpgradeInv, CaptureIsCurrent, HoldsWrites, SwappedIsImported, UpgradeOf, Imported
<1>10. RemovedIsImported'
  BY <1>1, <1>2, <1>4 DEF UpgradeInv, RemovedIsImported, Imported, HoldsWrites, PhasesBefore, PhasesAfter
<1>. QED
  BY <1>5, <1>6, <1>7, <1>8, <1>9, <1>10 DEF UpgradeInv

LEMMA UpgradeMarkerKeeps ==
    ASSUME UpgradeInv, UpgradeMarker
    PROVE  UpgradeInv'
<1>1. /\ UNCHANGED <<target, goUp, journal, record, import, attempts, late>> /\ run.at = "advance" /\ run.j.phase = "preflight"
      /\ RunForm(run) /\ PythonForm(python)
  BY DEF UpgradeMarker, UpgradeInv, UpgradeShapes
<1>2. CASE Failed /\ UNCHANGED python
  BY <1>1, <1>2, RunFailed
<1>3. CASE /\ PublishMarker(run.j.attempt, run.j.config)
           /\ python' = [python EXCEPT !.state = "upgrading", !.op = run.j.attempt] /\ Phase("excluded")
  <2>1. /\ PythonForm(python') /\ python'.running = python.running /\ python'.data = python.data
        /\ python.state \notin {"removing", "gone"} /\ python'.state = "upgrading"
    BY <1>1, <1>3, MarkerPublished
  <2>2. /\ RunForm(run') /\ run'.at = "save" /\ run'.tried = {} /\ run'.locked = FALSE
        /\ run'.j.phase = "excluded" /\ run'.j.attempt = run.j.attempt /\ run'.j.was = run.j.was
        /\ run'.j.stopped = run.j.stopped
    BY <1>1, <1>3, PhaseTurns
  <2>3. /\ journal.phase = "preflight" /\ run.j.attempt = journal.attempt /\ run.j.was = journal.was
        /\ run.j.stopped = journal.stopped
    BY <1>1 DEF UpgradeInv, RunFollowsJournal
  <2>4. UpgradeShapes' /\ AttemptsDiffer'
    BY <1>1, <2>1, <2>2 DEF UpgradeInv, UpgradeShapes, AttemptsDiffer
  <2>5. RunFollowsJournal'
    BY <1>1, <2>2, <2>3 DEF RunFollowsJournal, PhasesBefore, PhasesAfter
  <2>6. ServicesKnown' /\ EndedGivesBack'
    BY <1>1, <2>1, <2>3 DEF UpgradeInv, ServicesKnown, EndedGivesBack
  <2>7. LocksExclude'
    BY <1>1, <2>1, <2>2 DEF UpgradeInv, LocksExclude
  <2>8. CaptureIsCurrent' /\ SwappedIsImported' /\ RemovedIsImported'
    BY <1>1, <2>1, <2>2, <2>3 DEF CaptureIsCurrent, HoldsWrites, SwappedIsImported, RemovedIsImported
  <2>. QED
    BY <2>4, <2>5, <2>6, <2>7, <2>8 DEF UpgradeInv
<1>. QED
  BY <1>2, <1>3 DEF UpgradeMarker

LEMMA UpgradeStopStepsKeep ==
    ASSUME UpgradeInv, UpgradeStop \/ \E u \in PyUnits : UpgradeStopping(u)
    PROVE  UpgradeInv'
<1>1. /\ UNCHANGED <<target, goUp, record, import, attempts, late>> /\ RunForm(run) /\ JournalForm(run.j)
      /\ PythonForm(python)
  BY DEF UpgradeStop, UpgradeStopping, UpgradeInv, UpgradeShapes, RunForm
<1>2. ASSUME NEW u \in PyUnits, UpgradeStopping(u)
      PROVE  UpgradeInv'
  <2>1. PICK j : j = [run.j EXCEPT !.stopped = @ \cup {u}]
    OBVIOUS
  <2>2. PICK t : t = run.tried \cup {u}
    OBVIOUS
  <2>3. /\ UNCHANGED python /\ run.at = "advance" /\ run.j.phase = "excluded" /\ journal' = j
        /\ run' = [run EXCEPT !.at = "stop", !.unit = u, !.tried = t, !.j = j]
    BY <1>1, <1>2, <2>1, <2>2 DEF UpgradeStopping, RecordStop, RunForm
  <2>4. /\ JournalForm(j) /\ j.phase = "excluded" /\ j.attempt = run.j.attempt /\ j.was = run.j.was
        /\ j.stopped = run.j.stopped \cup {u}
    BY <1>1, <2>1, <2>3 DEF JournalForm
  <2>5. RunForm(run') /\ run'.at = "stop" /\ run'.unit = u /\ run'.tried = t /\ run'.j = j /\ run'.locked = run.locked
    BY <1>1, <2>3, <2>4 DEF RunForm
  <2>6. /\ journal.phase = "excluded" /\ run.j.attempt = journal.attempt /\ run.j.was = journal.was
        /\ run.j.stopped = journal.stopped /\ run.tried \subseteq journal.stopped
    BY <2>3 DEF UpgradeInv, RunFollowsJournal
  <2>7. UpgradeShapes' /\ AttemptsDiffer'
    BY <1>1, <2>3, <2>4, <2>5, <2>6 DEF UpgradeInv, UpgradeShapes, AttemptsDiffer
  <2>8. RunFollowsJournal'
    BY <2>2, <2>3, <2>4, <2>5, <2>6 DEF RunFollowsJournal, PhasesBefore, PhasesAfter
  <2>9. ServicesKnown' /\ EndedGivesBack'
    BY <2>3, <2>4, <2>6 DEF UpgradeInv, ServicesKnown, EndedGivesBack, PhasesBefore
  <2>10. LocksExclude'
    BY <1>1, <2>3, <2>5 DEF UpgradeInv, LocksExclude
  <2>11. CaptureIsCurrent' /\ SwappedIsImported'
    BY <2>3, <2>4, <2>5 DEF CaptureIsCurrent, HoldsWrites, SwappedIsImported
  <2>12. RemovedIsImported'
    BY <1>1, <2>3, <2>4, <2>5, <2>6 DEF UpgradeInv, RemovedIsImported, PhasesAfter
  <2>. QED
    BY <2>7, <2>8, <2>9, <2>10, <2>11, <2>12 DEF UpgradeInv
<1>3. CASE UpgradeStop
  <2>1. UNCHANGED journal /\ run.at = "stop" /\ RunAt("advance")
    BY <1>3 DEF UpgradeStop
  <2>2. RunForm(run') /\ run'.at = "advance" /\ run'.j = run.j /\ run'.tried = run.tried /\ run'.locked = run.locked
    BY <1>1, <2>1, RunTurns
  <2>3. /\ run.j.phase = "excluded" /\ journal.phase = "excluded" /\ run.j.attempt = journal.attempt
        /\ run.j.was = journal.was /\ run.j.stopped = journal.stopped /\ run.tried \subseteq journal.stopped
        /\ run.unit \in journal.stopped
    BY <2>1 DEF UpgradeInv, RunFollowsJournal
  <2>4. /\ PythonForm(python') /\ python'.state = python.state /\ python'.op = python.op /\ python'.data = python.data
        /\ python.running \ {run.unit} \subseteq python'.running
    <3>1. python' = [python EXCEPT !.running = python.running \ {run.unit}] \/ UNCHANGED python
      BY <1>3 DEF UpgradeStop
    <3>. QED
      BY <1>1, <3>1 DEF PythonForm
  <2>5. UpgradeShapes' /\ AttemptsDiffer'
    BY <1>1, <2>1, <2>2, <2>4 DEF UpgradeInv, UpgradeShapes, AttemptsDiffer
  <2>6. RunFollowsJournal'
    BY <2>1, <2>2, <2>3 DEF UpgradeInv, RunFollowsJournal, PhasesBefore, PhasesAfter
  <2>7. ServicesKnown' /\ EndedGivesBack'
    BY <2>1, <2>3, <2>4 DEF UpgradeInv, ServicesKnown, EndedGivesBack, PhasesBefore
  <2>8. LocksExclude'
    BY <1>1, <2>1, <2>2, <2>4 DEF UpgradeInv, LocksExclude
  <2>9. CaptureIsCurrent' /\ SwappedIsImported' /\ RemovedIsImported'
    BY <2>1, <2>2, <2>3, <2>4 DEF UpgradeInv, CaptureIsCurrent, HoldsWrites, SwappedIsImported, RemovedIsImported, PhasesAfter
  <2>. QED
    BY <2>5, <2>6, <2>7, <2>8, <2>9 DEF UpgradeInv
<1>. QED
  BY <1>2, <1>3

\* A target that is ours holds what the Python state holds now, and no process runs.
LEMMA OursIsImported ==
    ASSUME NEW j, "ours" \in TargetState(j)
    PROVE  Imported
BY DEF TargetState, Imported, HoldsWrites

LEMMA SwappedPhaseKeeps ==
    ASSUME UpgradeInv, UNCHANGED <<python, goUp, journal, record, import, attempts, late>>, Phase("swapped"),
           run.at \in {"advance", "swap"}, run.j.phase = "stopped", TargetForm(target'),
           UpgradeOf(journal.attempt) => Imported', import.at = "swap" => target'.holds = "empty"
    PROVE  UpgradeInv'
<1>1. RunForm(run)
  BY DEF UpgradeInv, UpgradeShapes
<1>2. /\ RunForm(run') /\ run'.at = "save" /\ run'.tried = {} /\ run'.locked = FALSE
      /\ run'.j.phase = "swapped" /\ run'.j.attempt = run.j.attempt /\ run'.j.was = run.j.was
      /\ run'.j.stopped = run.j.stopped
  BY <1>1, PhaseTurns
<1>3. /\ journal.phase = "stopped" /\ run.j.attempt = journal.attempt /\ run.j.was = journal.was
      /\ run.j.stopped = journal.stopped
  BY DEF UpgradeInv, RunFollowsJournal
<1>4. UpgradeShapes' /\ AttemptsDiffer' /\ ServicesKnown' /\ EndedGivesBack'
  BY <1>2 DEF UpgradeInv, UpgradeShapes, AttemptsDiffer, ServicesKnown, EndedGivesBack, UpgradeOf
<1>5. RunFollowsJournal'
  BY <1>2, <1>3 DEF RunFollowsJournal, PhasesBefore, PhasesAfter
<1>6. LocksExclude'
  BY <1>2 DEF UpgradeInv, LocksExclude
<1>7. CaptureIsCurrent' /\ SwappedIsImported'
  BY <1>2 DEF CaptureIsCurrent, HoldsWrites, SwappedIsImported, UpgradeOf
<1>8. RemovedIsImported'
  BY <1>2, <1>3 DEF UpgradeInv, RemovedIsImported, PhasesAfter
<1>. QED
  BY <1>4, <1>5, <1>6, <1>7, <1>8 DEF UpgradeInv

LEMMA UpgradeCaptureKeeps ==
    ASSUME UpgradeInv, UpgradeCapture
    PROVE  UpgradeInv'
<1>1. /\ UNCHANGED <<python, target, goUp, journal, record, import, attempts>> /\ run.at = "advance" /\ run.j.phase = "stopped"
      /\ RunForm(run) /\ JournalForm(run.j) /\ TargetForm(target)
  BY DEF UpgradeCapture, UpgradeInv, UpgradeShapes, RunForm
<1>2. \/ Failed /\ UNCHANGED late
      \/ DaemonLockFree /\ "ours" \in TargetState(run.j) /\ Phase("swapped") /\ UNCHANGED late
      \/ /\ DaemonLockFree /\ python.running = {} /\ late' = FALSE
         /\ run' = [run EXCEPT !.at = "stage", !.locked = TRUE, !.j.report = python.data]
  <2>1. CASE ~DaemonLockFree
    BY <2>1 DEF UpgradeCapture
  <2>2. CASE DaemonLockFree
    <3>1. PICK state \in TargetState(run.j) :
            CASE state = "ours" -> Phase("swapped") /\ UNCHANGED late
              [] state \in {"other", "error"} -> Failed /\ UNCHANGED late
              [] state = "empty" ->
                    IF HoldWriters
                    THEN /\ run' = [run EXCEPT !.at = "stage", !.locked = TRUE, !.j.report = python.data]
                         /\ late' = FALSE
                    ELSE Failed /\ UNCHANGED late
      BY <2>2 DEF UpgradeCapture
    <3>2. state \in {"ours", "other", "error", "empty"}
      BY DEF TargetState
    <3>. QED
      BY <2>2, <3>1, <3>2 DEF HoldWriters
  <2>. QED
    BY <2>1, <2>2
<1>3. CASE Failed /\ UNCHANGED late
  BY <1>1, <1>3, RunFailed
<1>4. CASE DaemonLockFree /\ "ours" \in TargetState(run.j) /\ Phase("swapped") /\ UNCHANGED late
  <2>1. Imported'
    BY <1>1, <1>4, OursIsImported DEF Imported, HoldsWrites
  <2>2. import.at # "swap"
    BY <1>4 DEF DaemonLockFree
  <2>. QED
    BY <1>1, <1>4, <2>1, <2>2, SwappedPhaseKeeps
<1>5. CASE /\ DaemonLockFree /\ python.running = {} /\ late' = FALSE
           /\ run' = [run EXCEPT !.at = "stage", !.locked = TRUE, !.j.report = python.data]
  <2>1. PICK j : j = [run.j EXCEPT !.report = python.data]
    OBVIOUS
  <2>2. run' = [run EXCEPT !.at = "stage", !.locked = TRUE, !.j = j]
    BY <1>1, <1>5, <2>1 DEF RunForm
  <2>3. /\ JournalForm(j) /\ j.phase = "stopped" /\ j.attempt = run.j.attempt /\ j.was = run.j.was
        /\ j.stopped = run.j.stopped /\ j.report = python.data
    BY <1>1, <2>1 DEF JournalForm
  <2>4. RunForm(run') /\ run'.at = "stage" /\ run'.tried = run.tried /\ run'.j = j /\ run'.locked = TRUE
    BY <1>1, <2>2, <2>3 DEF RunForm
  <2>5. /\ journal.phase = "stopped" /\ run.j.attempt = journal.attempt /\ run.j.was = journal.was
        /\ run.j.stopped = journal.stopped /\ run.tried \subseteq journal.stopped
    BY <1>1 DEF UpgradeInv, RunFollowsJournal
  <2>6. UpgradeShapes' /\ AttemptsDiffer' /\ ServicesKnown' /\ EndedGivesBack'
    BY <1>1, <1>5, <2>4 DEF UpgradeInv, UpgradeShapes, AttemptsDiffer, ServicesKnown, EndedGivesBack, UpgradeOf
  <2>7. RunFollowsJournal'
    BY <1>1, <2>3, <2>4, <2>5 DEF RunFollowsJournal, PhasesBefore, PhasesAfter
  <2>8. LocksExclude'
    <3>1. import.at = "off"
      BY <1>5 DEF DaemonLockFree
    <3>. QED
      BY <1>1, <2>4, <3>1 DEF LocksExclude
  <2>9. CaptureIsCurrent' /\ SwappedIsImported'
    BY <1>1, <1>5, <2>3, <2>4, <2>5 DEF CaptureIsCurrent, HoldsWrites, SwappedIsImported
  <2>10. RemovedIsImported'
    BY <1>1, <2>3, <2>4, <2>5 DEF UpgradeInv, RemovedIsImported, PhasesAfter
  <2>. QED
    BY <2>6, <2>7, <2>8, <2>9, <2>10 DEF UpgradeInv
<1>. QED
  BY <1>2, <1>3, <1>4, <1>5

LEMMA UpgradeStageKeeps ==
    ASSUME UpgradeInv, UpgradeStage
    PROVE  UpgradeInv'
<1>1. /\ UNCHANGED <<python, target, goUp, record, import, attempts, late>> /\ run.at = "stage" /\ journal' = run.j
      /\ RunAt("swap") /\ RunForm(run) /\ JournalForm(run.j)
  BY DEF UpgradeStage, UpgradeInv, UpgradeShapes, RunForm
<1>2. RunForm(run') /\ run'.at = "swap" /\ run'.j = run.j /\ run'.tried = run.tried /\ run'.locked = run.locked
  BY <1>1, RunTurns
<1>3. /\ journal.phase = "stopped" /\ run.j.phase = "stopped" /\ run.j.attempt = journal.attempt /\ run.j.was = journal.was
      /\ run.j.stopped = journal.stopped /\ run.tried \subseteq journal.stopped
  BY <1>1 DEF UpgradeInv, RunFollowsJournal
<1>4. UpgradeShapes' /\ AttemptsDiffer'
  BY <1>1, <1>2, <1>3 DEF UpgradeInv, UpgradeShapes, AttemptsDiffer
<1>5. RunFollowsJournal'
  BY <1>1, <1>2, <1>3 DEF RunFollowsJournal, PhasesBefore, PhasesAfter
<1>6. ServicesKnown' /\ EndedGivesBack'
  BY <1>1, <1>3 DEF UpgradeInv, ServicesKnown, EndedGivesBack, PhasesBefore
<1>7. LocksExclude'
  BY <1>1, <1>2 DEF UpgradeInv, LocksExclude
<1>8. CaptureIsCurrent' /\ SwappedIsImported'
  BY <1>1, <1>2, <1>3 DEF UpgradeInv, CaptureIsCurrent, HoldsWrites, SwappedIsImported, UpgradeOf
<1>9. RemovedIsImported'
  BY <1>1, <1>2, <1>3 DEF UpgradeInv, RemovedIsImported, PhasesAfter
<1>. QED
  BY <1>4, <1>5, <1>6, <1>7, <1>8, <1>9 DEF UpgradeInv

\* The rename puts the captured state in place; under the marker it is the Python state still.
LEMMA UpgradeSwapKeeps ==
    ASSUME UpgradeInv, UpgradeSwap
    PROVE  UpgradeInv'
<1>1. /\ UNCHANGED <<python, goUp, journal, record, import, attempts, late>> /\ run.at = "swap" /\ RunForm(run)
      /\ target' = [holds |-> "import", of |-> run.j.report, used |-> FALSE] /\ (Phase("swapped") \/ Failed)
  BY DEF UpgradeSwap, SwapTarget, UpgradeInv, UpgradeShapes
<1>2. TargetForm(target') /\ target'.holds = "import" /\ target'.of = run.j.report
  BY <1>1 DEF TargetForm
<1>3. run.j.phase = "stopped" /\ journal.phase = "stopped" /\ import.at # "swap"
  BY <1>1 DEF UpgradeInv, RunFollowsJournal, LocksExclude
<1>4. UpgradeOf(journal.attempt) => Imported'
  BY <1>1, <1>2 DEF UpgradeInv, CaptureIsCurrent, Imported, HoldsWrites
<1>5. CASE Phase("swapped")
  BY <1>1, <1>2, <1>3, <1>4, <1>5, SwappedPhaseKeeps
<1>6. CASE Failed
  <2>1. RunForm(run') /\ run'.at = "failed" /\ run'.j = run.j /\ run'.tried = run.tried /\ run'.locked = FALSE
    BY <1>1, <1>6, RunFails
  <2>2. UpgradeShapes' /\ AttemptsDiffer' /\ ServicesKnown' /\ EndedGivesBack'
    BY <1>1, <1>2, <2>1 DEF UpgradeInv, UpgradeShapes, AttemptsDiffer, ServicesKnown, EndedGivesBack, UpgradeOf
  <2>3. RunFollowsJournal'
    BY <1>1, <2>1 DEF UpgradeInv, RunFollowsJournal
  <2>4. LocksExclude'
    BY <1>1, <1>3, <2>1 DEF UpgradeInv, LocksExclude
  <2>5. CaptureIsCurrent' /\ SwappedIsImported'
    BY <1>1, <1>3, <2>1 DEF CaptureIsCurrent, HoldsWrites, SwappedIsImported
  <2>6. RemovedIsImported'
    BY <1>1, <1>3, <2>1 DEF UpgradeInv, RemovedIsImported, PhasesAfter
  <2>. QED
    BY <2>2, <2>3, <2>4, <2>5, <2>6 DEF UpgradeInv
<1>. QED
  BY <1>1, <1>5, <1>6

LEMMA RemovalStepsKeep ==
    ASSUME UpgradeInv, UpgradeRemoving \/ UpgradeClearEndpoints \/ UpgradeUninstall \/ UpgradeInstall
    PROVE  UpgradeInv'
<1>1. /\ UNCHANGED <<target, journal, record, import, attempts, late>> /\ RunForm(run) /\ PythonForm(python) /\ goUp \in BOOLEAN
  BY DEF UpgradeRemoving, UpgradeClearEndpoints, UpgradeUninstall, UpgradeInstall, UpgradeInv, UpgradeShapes
<1>2. CASE UpgradeRemoving
  <2>1. UNCHANGED goUp /\ run.at = "advance" /\ run.j.phase = "swapped"
    BY <1>2 DEF UpgradeRemoving
  <2>2. CASE Failed /\ UNCHANGED python
    BY <1>1, <2>1, <2>2, RunFailed
  <2>3. CASE /\ python.state \in {"removing", "gone"} \/ UpgradeOf(run.j.attempt)
             /\ python' = IF python.state = "gone" THEN python ELSE [python EXCEPT !.state = "removing", !.op = 0]
             /\ RunAt("uninstall")
    <3>1. RunForm(run') /\ run'.at = "uninstall" /\ run'.j = run.j /\ run'.tried = run.tried /\ run'.locked = run.locked
      BY <1>1, <2>3, RunTurns
    <3>2. /\ PythonForm(python') /\ python'.running = python.running /\ python'.data = python.data
          /\ python'.state \in {"removing", "gone"} /\ (python.state = "gone" => python'.state = "gone")
      BY <1>1, <2>3 DEF PythonForm
    <3>3. /\ journal.phase = "swapped" /\ run.j.attempt = journal.attempt /\ run.j.was = journal.was
          /\ run.j.stopped = journal.stopped /\ run.tried \subseteq journal.stopped
      BY <2>1 DEF UpgradeInv, RunFollowsJournal
    <3>4. Imported'
      <4>1. Imported
        BY <2>3, <3>3 DEF UpgradeInv, RemovedIsImported, SwappedIsImported
      <4>. QED
        BY <1>1, <3>2, <4>1 DEF Imported, HoldsWrites
    <3>5. UpgradeShapes' /\ AttemptsDiffer'
      BY <1>1, <2>1, <3>1, <3>2 DEF UpgradeInv, UpgradeShapes, AttemptsDiffer
    <3>6. RunFollowsJournal'
      BY <1>1, <2>1, <3>1, <3>2, <3>3 DEF RunFollowsJournal, PhasesBefore, PhasesAfter
    <3>7. ServicesKnown' /\ EndedGivesBack'
      BY <1>1, <3>2, <3>3 DEF UpgradeInv, ServicesKnown, EndedGivesBack, PhasesBefore
    <3>8. LocksExclude'
      BY <1>1, <2>1, <3>1, <3>2 DEF UpgradeInv, LocksExclude
    <3>9. CaptureIsCurrent' /\ SwappedIsImported' /\ RemovedIsImported'
      BY <1>1, <2>1, <3>1, <3>2, <3>3, <3>4 DEF CaptureIsCurrent, HoldsWrites, SwappedIsImported, RemovedIsImported, PhasesAfter
    <3>. QED
      BY <3>5, <3>6, <3>7, <3>8, <3>9 DEF UpgradeInv
  <2>. QED
    BY <1>2, <2>2, <2>3 DEF UpgradeRemoving
<1>3. ASSUME run.at \in {"uninstall", "remove"}, UNCHANGED goUp, Phase("python_removed"),
             PythonForm(python'), python'.data = python.data, python'.state = "gone",
             python'.running = {} \/ python'.running = python.running
      PROVE  UpgradeInv'
  <2>3. /\ RunForm(run') /\ run'.at = "save" /\ run'.tried = {} /\ run'.locked = FALSE
        /\ run'.j.phase = "python_removed" /\ run'.j.attempt = run.j.attempt /\ run'.j.was = run.j.was
        /\ run'.j.stopped = run.j.stopped
    BY <1>1, <1>3, PhaseTurns
  <2>4. /\ journal.phase = "swapped" /\ run.j.attempt = journal.attempt /\ run.j.was = journal.was
        /\ run.j.stopped = journal.stopped /\ python.state \in {"removing", "gone"}
    BY <1>3 DEF UpgradeInv, RunFollowsJournal
  <2>5. Imported'
    BY <1>1, <1>3, <2>4 DEF UpgradeInv, RemovedIsImported, Imported, HoldsWrites
  <2>6. UpgradeShapes' /\ AttemptsDiffer'
    BY <1>1, <1>3, <2>3 DEF UpgradeInv, UpgradeShapes, AttemptsDiffer
  <2>7. RunFollowsJournal'
    BY <1>1, <2>3, <2>4 DEF RunFollowsJournal, PhasesBefore, PhasesAfter
  <2>8. ServicesKnown' /\ EndedGivesBack'
    BY <1>1, <2>4 DEF UpgradeInv, ServicesKnown, EndedGivesBack, PhasesBefore
  <2>9. LocksExclude'
    BY <1>1, <1>3, <2>3 DEF UpgradeInv, LocksExclude
  <2>10. CaptureIsCurrent' /\ SwappedIsImported' /\ RemovedIsImported'
    BY <1>1, <1>3, <2>3, <2>4, <2>5 DEF CaptureIsCurrent, HoldsWrites, SwappedIsImported, RemovedIsImported, UpgradeOf, PhasesAfter
  <2>. QED
    BY <2>6, <2>7, <2>8, <2>9, <2>10 DEF UpgradeInv
<1>5. CASE UpgradeUninstall
  <2>1. /\ UNCHANGED goUp /\ run.at = "remove" /\ Phase("python_removed")
        /\ python' = [python EXCEPT !.state = "gone", !.op = 0, !.running = {}]
    BY <1>5 DEF UpgradeUninstall
  <2>2. PythonForm(python') /\ python'.running = {} /\ python'.data = python.data /\ python'.state = "gone"
    BY <1>1, <2>1 DEF PythonForm
  <2>. QED
    BY <1>3, <2>1, <2>2
<1>6. CASE UpgradeClearEndpoints
  <2>1. UNCHANGED <<goUp, python>> /\ run.at = "uninstall"
    BY <1>6 DEF UpgradeClearEndpoints
  <2>2. CASE python.state = "gone"
    <3>1. Phase("python_removed")
      BY <1>6, <2>2 DEF UpgradeClearEndpoints
    <3>. QED
      BY <1>1, <1>3, <2>1, <2>2, <3>1
  <2>3. CASE python.state # "gone" /\ ~(python.running \subseteq MemoryUnits)
    <3>1. Failed
      BY <1>6, <2>3 DEF UpgradeClearEndpoints
    <3>. QED
      BY <1>1, <2>1, <3>1, RunFailed
  <2>4. CASE python.state # "gone" /\ python.running \subseteq MemoryUnits
    <3>1. RunAt("remove")
      BY <1>6, <2>4 DEF UpgradeClearEndpoints
    <3>2. RunForm(run') /\ run'.at = "remove" /\ run'.j = run.j /\ run'.tried = run.tried /\ run'.locked = run.locked
      BY <1>1, <3>1, RunTurns
    <3>3. run.locked = FALSE
      BY <2>1 DEF UpgradeInv, LocksExclude
    <3>4. RunFollowsJournal'
      BY <1>1, <2>1, <3>2 DEF UpgradeInv, RunFollowsJournal
    <3>. QED
      BY <1>1, <2>1, <3>2, <3>3, <3>4, RunRests
  <2>. QED
    BY <2>2, <2>3, <2>4
<1>4. CASE UpgradeInstall
  <2>1. UNCHANGED python /\ goUp' = TRUE /\ run.at = "advance" /\ run.j.phase = "python_removed" /\ Phase("complete")
    BY <1>4 DEF UpgradeInstall
  <2>2. /\ RunForm(run') /\ run'.at = "save" /\ run'.tried = {} /\ run'.locked = FALSE
        /\ run'.j.phase = "complete" /\ run'.j.attempt = run.j.attempt /\ run'.j.was = run.j.was
        /\ run'.j.stopped = run.j.stopped
    BY <1>1, <2>1, PhaseTurns
  <2>3. /\ journal.phase = "python_removed" /\ run.j.attempt = journal.attempt /\ run.j.was = journal.was
        /\ run.j.stopped = journal.stopped
    BY <2>1 DEF UpgradeInv, RunFollowsJournal
  <2>4. python.state = "gone"
    BY <2>3 DEF UpgradeInv, RemovedIsImported
  <2>5. UpgradeShapes' /\ AttemptsDiffer'
    BY <1>1, <2>1, <2>2 DEF UpgradeInv, UpgradeShapes, AttemptsDiffer
  <2>6. RunFollowsJournal'
    BY <1>1, <2>2, <2>3 DEF RunFollowsJournal, PhasesBefore, PhasesAfter
  <2>7. ServicesKnown' /\ EndedGivesBack'
    BY <1>1, <2>1 DEF UpgradeInv, ServicesKnown, EndedGivesBack, UpgradeOf
  <2>8. LocksExclude'
    BY <1>1, <2>1, <2>2, <2>4 DEF UpgradeInv, LocksExclude
  <2>9. CaptureIsCurrent' /\ SwappedIsImported'
    BY <1>1, <2>1, <2>2, <2>4 DEF CaptureIsCurrent, HoldsWrites, SwappedIsImported, UpgradeOf
  <2>10. RemovedIsImported'
    BY <1>1, <2>1, <2>4 DEF UpgradeInv, RemovedIsImported, Imported, HoldsWrites
  <2>. QED
    BY <2>5, <2>6, <2>7, <2>8, <2>9, <2>10 DEF UpgradeInv
<1>. QED
  BY <1>2, <1>4, <1>5, <1>6

LEMMA UpgradeFailedKeeps ==
    ASSUME UpgradeInv, UpgradeFailed
    PROVE  UpgradeInv'
<1>1. /\ UNCHANGED <<python, target, goUp, record, import, attempts, late>> /\ run.at = "failed" /\ RunForm(run) /\ JournalForm(run.j)
  BY DEF UpgradeFailed, UpgradeInv, UpgradeShapes, RunForm
<1>2. /\ journal.phase \in PhasesBefore \cup PhasesAfter /\ run.j.phase \in PhasesBefore \cup PhasesAfter \cup {"complete"}
      /\ journal.phase \in PhasesAfter => run.j.phase \notin PhasesBefore
      /\ run.j.attempt = journal.attempt /\ run.j.was = journal.was /\ run.j.stopped = journal.stopped
      /\ run.tried \subseteq journal.stopped
  BY <1>1 DEF UpgradeInv, RunFollowsJournal
<1>3. \/ run' = NoRun /\ UNCHANGED journal
      \/ run.j.phase \in PhasesBefore /\ RunAt("end") /\ UNCHANGED journal
      \/ /\ run.j.phase = "stopped" /\ "ours" \in TargetState(run.j)
         /\ run' = NoRun /\ journal' = [run.j EXCEPT !.phase = "swapped"]
  <2>1. CASE run.j.phase \in PhasesAfter \cup {"complete"}
    BY <2>1 DEF UpgradeFailed, PhasesAfter
  <2>2. CASE run.j.phase \in {"preflight", "excluded"}
    BY <2>2 DEF UpgradeFailed, PhasesBefore
  <2>3. CASE run.j.phase = "stopped"
    <3>1. IF ~DaemonLockFree THEN run' = NoRun /\ UNCHANGED journal
          ELSE \E state \in TargetState(run.j) :
               CASE state = "ours" -> run' = NoRun /\ journal' = [run.j EXCEPT !.phase = "swapped"]
                 [] state = "error" -> run' = NoRun /\ UNCHANGED journal
                 [] state \in {"empty", "other"} -> RunAt("end") /\ UNCHANGED journal
      BY <2>3 DEF UpgradeFailed
    <3>2. \A state \in TargetState(run.j) : state \in {"ours", "other", "error", "empty"}
      BY DEF TargetState
    <3>. QED
      BY <2>3, <3>1, <3>2 DEF PhasesBefore
  <2>. QED
    BY <1>2, <2>1, <2>2, <2>3 DEF PhasesBefore
<1>4. CASE run' = NoRun /\ UNCHANGED journal
  BY <1>1, <1>4, RunOff
<1>5. CASE run.j.phase \in PhasesBefore /\ RunAt("end") /\ UNCHANGED journal
  <2>1. RunForm(run') /\ run'.at = "end" /\ run'.j = run.j /\ run'.tried = run.tried /\ run'.locked = run.locked
    BY <1>1, <1>5, RunTurns
  <2>2. RunFollowsJournal'
    BY <1>1, <1>2, <1>5, <2>1 DEF UpgradeInv, RunFollowsJournal
  <2>3. run.locked = FALSE
    BY <1>1 DEF UpgradeInv, LocksExclude
  <2>. QED
    BY <1>1, <1>5, <2>1, <2>2, <2>3, RunRests
<1>6. CASE /\ run.j.phase = "stopped" /\ "ours" \in TargetState(run.j)
           /\ run' = NoRun /\ journal' = [run.j EXCEPT !.phase = "swapped"]
  <2>1. /\ JournalForm(journal') /\ journal'.phase = "swapped" /\ journal'.attempt = journal.attempt
        /\ journal'.was = journal.was /\ journal'.stopped = journal.stopped
    BY <1>1, <1>2, <1>6 DEF JournalForm
  <2>2. RunForm(run') /\ run'.at = "off" /\ run'.locked = FALSE
    BY <1>6, NoRunIsOff
  <2>3. Imported'
    BY <1>1, <1>6, OursIsImported DEF Imported, HoldsWrites
  <2>4. journal.phase \in PhasesBefore
    BY <1>2, <1>6 DEF PhasesBefore
  <2>5. UpgradeShapes' /\ AttemptsDiffer'
    BY <1>1, <2>1, <2>2 DEF UpgradeInv, UpgradeShapes, AttemptsDiffer
  <2>6. RunFollowsJournal' /\ ServicesKnown' /\ EndedGivesBack'
    BY <2>1, <2>2 DEF UpgradeInv, RunFollowsJournal, ServicesKnown, EndedGivesBack, PhasesBefore, PhasesAfter
  <2>7. LocksExclude'
    BY <1>1, <2>2 DEF UpgradeInv, LocksExclude
  <2>8. CaptureIsCurrent' /\ SwappedIsImported' /\ RemovedIsImported'
    BY <1>1, <2>1, <2>2, <2>3 DEF CaptureIsCurrent, HoldsWrites, SwappedIsImported, RemovedIsImported, PhasesAfter
  <2>. QED
    BY <2>5, <2>6, <2>7, <2>8 DEF UpgradeInv
<1>. QED
  BY <1>3, <1>4, <1>5, <1>6

\* The attempt ends before its swap: the marker goes, and the recorded services start again.
LEMMA UpgradeEndsKeep ==
    ASSUME UpgradeInv, UpgradeEnd \/ UpgradeRestart
    PROVE  UpgradeInv'
<1>1. /\ UNCHANGED <<target, goUp, record, import, attempts, late>> /\ RunForm(run) /\ JournalForm(run.j) /\ PythonForm(python)
      /\ run.at \in {"end", "restart"}
  BY DEF UpgradeEnd, UpgradeRestart, UpgradeInv, UpgradeShapes, RunForm
<1>2. /\ journal.phase \in PhasesBefore /\ run.j.phase \in PhasesBefore
      /\ run.j.attempt = journal.attempt /\ run.j.was = journal.was /\ run.j.stopped = journal.stopped
      /\ run.tried \subseteq journal.stopped
  BY <1>1 DEF UpgradeInv, RunFollowsJournal
<1>3. python.state \notin {"removing", "gone"}
  BY <1>2 DEF UpgradeInv, RemovedIsImported, PhasesBefore, PhasesAfter
<1>4. CASE UpgradeEnd
  <2>1. /\ UNCHANGED journal /\ run.at = "end" /\ RunAt("restart")
        /\ python' = IF UpgradeOf(run.j.attempt) THEN [python EXCEPT !.state = "installed", !.op = 0] ELSE python
    BY <1>4 DEF UpgradeEnd
  <2>2. RunForm(run') /\ run'.at = "restart" /\ run'.j = run.j /\ run'.tried = run.tried /\ run'.locked = run.locked
    BY <1>1, <2>1, RunTurns
  <2>3. /\ PythonForm(python') /\ python'.running = python.running /\ python'.data = python.data
        /\ python'.state \notin {"removing", "gone"} /\ ~(python'.state = "upgrading" /\ python'.op = journal.attempt)
    BY <1>1, <1>2, <1>3, <2>1 DEF PythonForm, UpgradeOf
  <2>4. UpgradeShapes' /\ AttemptsDiffer'
    BY <1>1, <2>1, <2>2, <2>3 DEF UpgradeInv, UpgradeShapes, AttemptsDiffer
  <2>5. RunFollowsJournal'
    BY <1>2, <2>1, <2>2, <2>3 DEF UpgradeInv, RunFollowsJournal, UpgradeOf
  <2>6. ServicesKnown' /\ EndedGivesBack'
    BY <1>2, <2>1, <2>3 DEF UpgradeInv, ServicesKnown, EndedGivesBack, PhasesBefore
  <2>7. LocksExclude'
    BY <1>1, <1>3, <2>1, <2>2 DEF UpgradeInv, LocksExclude
  <2>8. CaptureIsCurrent' /\ SwappedIsImported' /\ RemovedIsImported'
    BY <1>2, <2>1, <2>2, <2>3 DEF CaptureIsCurrent, HoldsWrites, SwappedIsImported, RemovedIsImported, UpgradeOf, PhasesBefore
  <2>. QED
    BY <2>4, <2>5, <2>6, <2>7, <2>8 DEF UpgradeInv
<1>5. CASE UpgradeRestart
  <2>1. /\ run.at = "restart" /\ run' = NoRun /\ journal' = [run.j EXCEPT !.phase = "ended"]
        /\ python' = [python EXCEPT !.running = python.running \cup run.j.stopped]
    BY <1>5 DEF UpgradeRestart
  <2>2. /\ JournalForm(journal') /\ journal'.phase = "ended" /\ journal'.attempt = journal.attempt
        /\ journal'.was = journal.was /\ journal'.stopped = journal.stopped
    BY <1>1, <1>2, <2>1 DEF JournalForm
  <2>3. RunForm(run') /\ run'.at = "off" /\ run'.locked = FALSE
    BY <2>1, NoRunIsOff
  <2>4. /\ PythonForm(python') /\ python'.running = python.running \cup journal.stopped /\ python'.state = python.state
        /\ python'.op = python.op
    BY <1>1, <1>2, <2>1 DEF PythonForm
  <2>5. ~(python.state = "upgrading" /\ python.op = journal.attempt)
    BY <2>1 DEF UpgradeInv, RunFollowsJournal, UpgradeOf
  <2>6. UpgradeShapes' /\ AttemptsDiffer'
    BY <1>1, <2>2, <2>3, <2>4 DEF UpgradeInv, UpgradeShapes, AttemptsDiffer
  <2>7. RunFollowsJournal'
    BY <2>2, <2>3 DEF RunFollowsJournal
  <2>8. ServicesKnown' /\ EndedGivesBack'
    BY <1>2, <2>2, <2>4, <2>5 DEF UpgradeInv, ServicesKnown, EndedGivesBack, UpgradeOf, PhasesBefore
  <2>9. LocksExclude'
    BY <1>1, <2>3, <2>4 DEF UpgradeInv, LocksExclude
  <2>10. CaptureIsCurrent' /\ SwappedIsImported' /\ RemovedIsImported'
    BY <1>3, <2>2, <2>3, <2>4 DEF CaptureIsCurrent, HoldsWrites, SwappedIsImported, RemovedIsImported
  <2>. QED
    BY <2>6, <2>7, <2>8, <2>9, <2>10 DEF UpgradeInv
<1>. QED
  BY <1>4, <1>5

\* However an upgrade ends, through failures, kills and imports in between: with the runtime the
\* machine had and every service that ran, or with the Python state in the Go database: all of its
\* memory stores, and its session stores up to what a session that started under the marker wrote
\* (end, importState).
THEOREM UpgradeSoundThm == UpgradeSpec => []UpgradeSound
<1>1. UpgradeInv /\ [UpgradeNext]_upgradeVars => UpgradeInv'
  <2>. SUFFICES ASSUME UpgradeInv, [UpgradeNext]_upgradeVars PROVE UpgradeInv'
    OBVIOUS
  <2>1. CASE UNCHANGED upgradeVars
    <3>1. UNCHANGED <<python, target, goUp, journal, run, record, import, attempts, late>>
      BY <2>1 DEF upgradeVars
    <3>2. UpgradeShapes' /\ AttemptsDiffer' /\ RunFollowsJournal' /\ ServicesKnown' /\ EndedGivesBack' /\ LocksExclude'
      BY <3>1 DEF UpgradeInv, UpgradeShapes, AttemptsDiffer, RunFollowsJournal, ServicesKnown, EndedGivesBack, LocksExclude,
         UpgradeOf
    <3>3. CaptureIsCurrent' /\ SwappedIsImported' /\ RemovedIsImported'
      BY <3>1 DEF UpgradeInv, CaptureIsCurrent, HoldsWrites, SwappedIsImported, RemovedIsImported, UpgradeOf, Imported
    <3>. QED
      BY <3>2, <3>3 DEF UpgradeInv
  <2>. QED
    BY <2>1, QuietRunStepsKeep, ImportStepsKeep, ImportSwapKeeps, WorldKeeps, UpgradeBeginKeeps, UpgradeSaveKeeps,
       UpgradeMarkerKeeps, UpgradeStopStepsKeep, UpgradeCaptureKeeps, UpgradeStageKeeps, UpgradeSwapKeeps, RemovalStepsKeep,
       UpgradeFailedKeeps, UpgradeEndsKeep, Zenon DEF UpgradeNext
<1>2. UpgradeInv => UpgradeSound
  BY DEF UpgradeInv, UpgradeSound, RemovedIsImported, PythonRemovedAfterImport, Imported, HoldsWrites
<1>. QED
  BY <1>1, <1>2, UpgradeInitInv, PTL DEF UpgradeSpec

=============================================================================
