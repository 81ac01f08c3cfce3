------------------------------- MODULE Lease -------------------------------
(***************************************************************************)
(* How a running agent keeps its session: the launcher records a launch    *)
(* and starts the agent (internal/launcher, launch.go), the agent's MCP    *)
(* server registers at tool calls and renews on a timer (mcp/tools.go),    *)
(* and the daemon's sweep extends the lease of a launched session whose    *)
(* host process still runs (liveness.go), under lifetime and renewal       *)
(* settings that the maintainer changes (settings.go).                     *)
(*                                                                         *)
(* One session.  The server's tool call and its renewal are two calls that *)
(* overlap; answers are lost; the sweep reads the row, looks at the host   *)
(* and writes later, and may not read the host or may fail; the host ends and its process ID is used again; the   *)
(* daemon stops for a while.  A unit of the clock is the sweep's interval. *)
(***************************************************************************)
EXTENDS Naturals

CONSTANTS
    LeaseKinds,      \* subset of {"plain", "foreground", "background"}
    LeaseSettings,   \* the settings: a lifetime and a renewal interval
    DefaultLease,    \* DefaultSettings
    SweepEvery,      \* workSweepInterval
    MaxLeaseTime,    \* bound: the clock
    MaxToolCalls,    \* bound: registrations that a tool call makes
    MaxLeaseFaults   \* bound: lost calls, failed jobs, outages and retirements

ASSUME LeaseAssumption ==
    /\ LeaseKinds \subseteq {"plain", "foreground", "background"}
    /\ SweepEvery \in Nat \ {0} /\ MaxLeaseTime \in Nat /\ MaxToolCalls \in Nat /\ MaxLeaseFaults \in Nat
    /\ DefaultLease \in LeaseSettings
    /\ \A v \in LeaseSettings : /\ v.life \in Nat /\ v.life >= 2 * SweepEvery
                                /\ v.renewal \in Nat \ {0} /\ 2 * v.renewal <= v.life

VARIABLES
    leaseKind,   \* how the agent was started
    clock,
    setting,     \* the Settings in force
    launch,      \* the row of launches: none, made or retired, and its job
    launcher,    \* what the launcher does next
    process,     \* the process that has the host's ID, by its start; 0 is none
    endedAt,     \* history: when the host ended, or 0
    lease,       \* the row of sessions
    known,       \* the server's sessions[caller], its interval and its timer
    toolCall,    \* the registration of a tool call
    toolCalls,   \* how many there were
    renewCall,   \* the call of the renewal loop
    swept,       \* the sweep's stage, and the row that it read
    sweptAt,     \* when the last sweep ended
    daemonUp,
    outage,      \* history: the daemon was down since the registration
    missed,      \* history: the last sweep since the deadline was set did not see the host, or failed
    leaseFaults

serverCalls == <<known, toolCall, toolCalls, renewCall>>
hostProcess == <<process, endedAt>>
launchVars == <<launch, launcher>>
sweepVars == <<swept, sweptAt, missed>>
leaseVars == <<leaseKind, clock, setting, launchVars, hostProcess, lease, serverCalls, sweepVars,
               daemonUp, outage, leaseFaults>>

NoLease == [st |-> "none", rev |-> 0, exp |-> 0, host |-> 0]
NoCall == [st |-> "none", op |-> "none", answer |-> "none", rev |-> 0, renewal |-> 0]
NoSweep == [st |-> "none", rev |-> 0, host |-> 0, exp |-> 0, life |-> 0]
LeaseActive == lease.st = "live" /\ lease.exp > clock
HostRuns == process = 1
LeaseFault == leaseFaults < MaxLeaseFaults /\ leaseFaults' = leaseFaults + 1

-----------------------------------------------------------------------------
(* The launcher *)

\* The agent starts its MCP server, whose renewal loop waits its first interval.
HostStarts == process' = 1 /\ known' = [known EXCEPT !.next = clock + known.interval]
otherCalls == <<toolCall, toolCalls, renewCall>>

\* Run: the daemon must answer; a launch is recorded, and the agent takes the
\* launcher's process.
CreateLaunch ==
    /\ launcher = "start" /\ daemonUp
    /\ IF leaseKind = "plain"
       THEN launcher' = "done" /\ HostStarts /\ UNCHANGED launch
       ELSE /\ launch' = [st |-> "made", job |-> FALSE]
            /\ launcher' = IF leaseKind = "foreground" THEN "exec" ELSE "settings"
            /\ UNCHANGED <<process, known>>
    /\ UNCHANGED <<leaseKind, clock, setting, endedAt, lease, otherCalls, sweepVars, daemonUp, outage, leaseFaults>>

LaunchExec ==
    /\ launcher = "exec"
    /\ HostStarts /\ launcher' = "done"
    /\ UNCHANGED <<leaseKind, clock, setting, launch, endedAt, lease, otherCalls, sweepVars, daemonUp, outage, leaseFaults>>

\* runBackground: the job runs before its ID is recorded; without an ID the launch is
\* retired.
StartJob ==
    /\ launcher = "settings"
    /\ \/ HostStarts /\ launcher' = "job" /\ UNCHANGED leaseFaults
       \/ LeaseFault /\ launcher' = "retire" /\ (HostStarts \/ UNCHANGED <<process, known>>)
    /\ UNCHANGED <<leaseKind, clock, setting, launch, endedAt, lease, otherCalls, sweepVars, daemonUp, outage>>

SetLaunchJob ==
    /\ launcher = "job"
    /\ \/ /\ daemonUp /\ launch.st = "made"
          /\ launch' = [launch EXCEPT !.job = TRUE]
          /\ \/ launcher' = "done" /\ UNCHANGED leaseFaults
             \/ LeaseFault /\ launcher' = "retire"
       \/ ~daemonUp /\ launcher' = "retire" /\ UNCHANGED <<launch, leaseFaults>>
    /\ UNCHANGED <<leaseKind, clock, setting, hostProcess, lease, serverCalls, sweepVars, daemonUp, outage>>

\* retire: what the daemon answers is not looked at; a launch with a job stays.
RetireLaunch ==
    /\ launcher = "retire"
    /\ launcher' = "done"
    /\ launch' = IF daemonUp /\ ~launch.job THEN [launch EXCEPT !.st = "gone"] ELSE launch
    /\ UNCHANGED <<leaseKind, clock, setting, hostProcess, lease, serverCalls, sweepVars, daemonUp, outage, leaseFaults>>

\* admitLaunch: a supplied launch must match, and a background job must be recorded.
AdmitLaunch ==
    leaseKind # "plain" => launch.st = "made" /\ (leaseKind = "background" => launch.job)

-----------------------------------------------------------------------------
(* The daemon: registrations, renewals, retirement and settings *)

\* Register: it takes a new lifetime, and a launched session gets a host record when its
\* host's start can be read (recordHost).
Registered(host) ==
    [st |-> "live", rev |-> lease.rev + 1, exp |-> clock + setting.life, host |-> host]

RegisterLease ==
    IF AdmitLaunch
    THEN /\ \E host \in IF leaseKind = "plain" THEN {0} ELSE {0, process} : lease' = Registered(host)
         /\ outage' = FALSE /\ missed' = FALSE
    ELSE UNCHANGED <<lease, outage, missed>>

\* Mutate, for a renewal at the revision that the caller knows: an expired session is told
\* from one that changed.
RenewAnswer(rev) ==
    CASE lease.st = "live" /\ lease.exp <= clock -> "expired"
      [] LeaseActive /\ lease.rev = rev -> "ok"
      [] OTHER -> "conflict"

Renewed == [lease EXCEPT !.rev = @ + 1, !.exp = clock + setting.life]

\* Each reply carries the renewal setting.
Answered(call, answer) ==
    [call EXCEPT !.st = "answer", !.answer = answer, !.rev = lease'.rev, !.renewal = setting.renewal]
Admission == IF AdmitLaunch THEN "ok" ELSE "conflict"

ToolCallArrives ==
    /\ toolCall.st = "sent" /\ daemonUp
    /\ RegisterLease
    /\ toolCall' = Answered(toolCall, Admission)
    /\ UNCHANGED <<leaseKind, clock, setting, launchVars, hostProcess, known, toolCalls, renewCall, swept, sweptAt, daemonUp, leaseFaults>>

RenewArrives ==
    /\ renewCall.st = "sent" /\ daemonUp
    /\ \/ renewCall.op = "register" /\ RegisterLease /\ renewCall' = Answered(renewCall, Admission)
       \/ /\ renewCall.op = "renew"
          /\ lease' = IF RenewAnswer(renewCall.rev) = "ok" THEN Renewed ELSE lease
          /\ renewCall' = Answered(renewCall, RenewAnswer(renewCall.rev))
          /\ missed' = IF RenewAnswer(renewCall.rev) = "ok" THEN FALSE ELSE missed
          /\ UNCHANGED outage
    /\ UNCHANGED <<leaseKind, clock, setting, launchVars, hostProcess, known, toolCall, toolCalls, swept, sweptAt, daemonUp, leaseFaults>>

RetireSession ==
    /\ daemonUp /\ LeaseActive /\ LeaseFault
    /\ lease' = [lease EXCEPT !.st = "retired", !.rev = @ + 1]
    /\ UNCHANGED <<leaseKind, clock, setting, launchVars, hostProcess, serverCalls, sweepVars, daemonUp, outage>>

SetSettings ==
    /\ daemonUp
    /\ setting' \in LeaseSettings \ {setting}
    /\ UNCHANGED <<leaseKind, clock, launchVars, hostProcess, lease, serverCalls, sweepVars, daemonUp, outage, leaseFaults>>

-----------------------------------------------------------------------------
(* The session's server *)

\* ensure: a tool call registers a caller that was not registered within the interval.
ToolCallRegisters ==
    /\ HostRuns /\ toolCall.st = "none" /\ toolCalls < MaxToolCalls
    /\ ~known.found \/ clock - known.at >= known.interval
    /\ toolCalls' = toolCalls + 1
    /\ toolCall' = [NoCall EXCEPT !.st = "sent", !.op = "register"]
    /\ UNCHANGED <<leaseKind, clock, setting, launchVars, hostProcess, lease, known, renewCall, sweepVars, daemonUp, outage, leaseFaults>>

\* setInterval: a changed interval replaces the pending wait.
Tuned(call) ==
    [found |-> TRUE, rev |-> call.rev, at |-> clock, interval |-> call.renewal,
     next |-> IF call.renewal = known.interval THEN known.next ELSE clock + call.renewal]

\* registerAs: a refused or failed registration changes nothing here.
ToolCallReplies ==
    /\ toolCall.st = "answer" /\ HostRuns
    /\ known' = IF toolCall.answer = "ok" THEN Tuned(toolCall) ELSE known
    /\ toolCall' = NoCall
    /\ UNCHANGED <<leaseKind, clock, setting, launchVars, hostProcess, lease, toolCalls, renewCall, sweepVars, daemonUp, outage, leaseFaults>>

\* renewLoop: without a registered session the wait starts again.
RenewFires ==
    /\ HostRuns /\ renewCall.st = "none" /\ clock >= known.next
    /\ IF known.found
       THEN renewCall' = [NoCall EXCEPT !.st = "sent", !.op = "renew", !.rev = known.rev] /\ UNCHANGED known
       ELSE known' = [known EXCEPT !.next = clock + known.interval] /\ UNCHANGED renewCall
    /\ UNCHANGED <<leaseKind, clock, setting, launchVars, hostProcess, lease, toolCall, toolCalls, sweepVars, daemonUp, outage, leaseFaults>>

\* What renew leaves in the renewal set: final deletes the session, a success stores the
\* reply over what a tool call stored meanwhile.
AfterRenew(call) ==
    CASE call.answer = "ok" -> [Tuned(call) EXCEPT !.next = clock + call.renewal]
      [] OTHER -> [known EXCEPT !.found = FALSE, !.next = clock + known.interval]

\* renew: a session that expired registers again at once; any other refusal is final.
RenewReplies ==
    /\ renewCall.st = "answer" /\ HostRuns
    /\ IF renewCall.answer = "expired"
       THEN renewCall' = [NoCall EXCEPT !.st = "sent", !.op = "register"] /\ UNCHANGED known
       ELSE renewCall' = NoCall /\ known' = AfterRenew(renewCall)
    /\ UNCHANGED <<leaseKind, clock, setting, launchVars, hostProcess, lease, toolCall, toolCalls, sweepVars, daemonUp, outage, leaseFaults>>

\* A call or its answer is lost, or the daemon is down: renew tries again at the next
\* interval.
CallLost ==
    /\ \/ LeaseFault
       \/ ~daemonUp /\ UNCHANGED leaseFaults
    /\ \/ /\ toolCall.st # "none" /\ toolCall' = NoCall
          /\ UNCHANGED <<renewCall, known>>
       \/ /\ renewCall.st # "none" /\ renewCall' = NoCall
          /\ known' = [known EXCEPT !.next = clock + known.interval]
          /\ UNCHANGED toolCall
    /\ UNCHANGED <<leaseKind, clock, setting, launchVars, hostProcess, lease, toolCalls, sweepVars, daemonUp, outage>>

-----------------------------------------------------------------------------
(* The daemon's sweep *)

\* MaintainLiveness reads the active sessions of launches, then each host's start: a
\* candidate whose host runs and whose lease is near its end is due.
SweepReads ==
    /\ daemonUp /\ swept.st = "none" /\ sweptAt < clock
    /\ IF LeaseActive /\ lease.host > 0
       THEN /\ swept' = [st |-> "read", rev |-> lease.rev, host |-> lease.host, exp |-> lease.exp, life |-> setting.life]
            /\ UNCHANGED sweptAt
       ELSE sweptAt' = clock /\ UNCHANGED swept
    /\ UNCHANGED <<leaseKind, clock, setting, launchVars, hostProcess, lease, serverCalls, missed, daemonUp, outage, leaseFaults>>

\* Mutant of HostUnchanged: any process with the ID counts as the host.
HostUnchangedAnyStart(c) == process # 0
HostUnchanged(c) == process = c.host
\* Mutant of SweepDue: only half of the lifetime counts.
SweepDueHalf(c) == c.exp - clock < c.life \div 2
SweepDue(c) == LET half == c.life \div 2
               IN c.exp - clock < IF half > 2 * SweepEvery THEN half ELSE 2 * SweepEvery

\* A host that another process replaced is left to its deadline, and so is one that runs
\* and cannot be read.
SweepLooks ==
    /\ swept.st = "read" /\ daemonUp
    /\ \/ /\ IF HostUnchanged(swept) /\ SweepDue(swept)
             THEN swept' = [swept EXCEPT !.st = "due"] /\ UNCHANGED <<sweptAt, missed>>
             ELSE swept' = NoSweep /\ sweptAt' = clock /\ missed' = FALSE
          /\ UNCHANGED leaseFaults
       \/ LeaseFault /\ swept' = NoSweep /\ sweptAt' = clock /\ missed' = TRUE
    /\ UNCHANGED <<leaseKind, clock, setting, launchVars, hostProcess, lease, serverCalls, daemonUp, outage>>

\* The write reads the row again: a session that changed or expired meanwhile is left.
StillDue(c) ==
    /\ lease.rev = c.rev /\ lease.host = c.host
    /\ lease.exp > clock /\ lease.exp < clock + c.life

SweepWrites ==
    /\ swept.st = "due" /\ daemonUp
    /\ lease' = IF StillDue(swept) THEN [lease EXCEPT !.exp = clock + swept.life] ELSE lease
    /\ swept' = NoSweep /\ sweptAt' = clock /\ missed' = FALSE
    /\ UNCHANGED <<leaseKind, clock, setting, launchVars, hostProcess, serverCalls, daemonUp, outage, leaseFaults>>

\* The query, the begin, the update or the commit fails: nothing is written, and the error
\* goes nowhere; the next sweep comes an interval later.
SweepFails ==
    /\ daemonUp /\ sweptAt < clock /\ LeaseFault
    /\ swept' = NoSweep /\ sweptAt' = clock /\ missed' = TRUE
    /\ UNCHANGED <<leaseKind, clock, setting, launchVars, hostProcess, lease, serverCalls, daemonUp, outage>>

-----------------------------------------------------------------------------
(* The host, the daemon and the clock *)

\* The server ends with its host; what it sent can still arrive.
HostEnds ==
    /\ HostRuns /\ launcher = "done"
    /\ process' = 0 /\ endedAt' = clock
    /\ UNCHANGED <<leaseKind, clock, setting, launchVars, lease, serverCalls, sweepVars, daemonUp, outage, leaseFaults>>

\* A process ID is not used again within a call's time.
PidReused ==
    /\ process = 0 /\ endedAt > 0 /\ endedAt < clock
    /\ process' = 2
    /\ UNCHANGED <<leaseKind, clock, setting, launchVars, endedAt, lease, serverCalls, sweepVars, daemonUp, outage, leaseFaults>>

\* The settings and the rows are stored; a sweep that was under way is not.  A start sweeps
\* at once.
DaemonGoes ==
    /\ daemonUp /\ LeaseFault
    /\ daemonUp' = FALSE /\ outage' = TRUE /\ swept' = NoSweep
    /\ UNCHANGED <<leaseKind, clock, setting, launchVars, hostProcess, lease, serverCalls, sweptAt, missed>>

DaemonReturns ==
    /\ ~daemonUp
    /\ daemonUp' = TRUE /\ sweptAt' = 0
    /\ UNCHANGED <<leaseKind, clock, setting, launchVars, hostProcess, lease, serverCalls, swept, missed, outage, leaseFaults>>

\* Time: calls, due renewals and the sweep take less than a unit.
NothingInFlight ==
    /\ HostRuns => toolCall.st = "none" /\ renewCall.st = "none" /\ clock < known.next
    /\ toolCall.st # "sent" /\ renewCall.st # "sent"

LeaseTick ==
    /\ clock < MaxLeaseTime /\ NothingInFlight
    /\ daemonUp => sweptAt = clock
    /\ clock' = clock + 1
    /\ UNCHANGED <<leaseKind, setting, launchVars, hostProcess, lease, serverCalls, sweepVars, daemonUp, outage, leaseFaults>>

LeaseInit ==
    /\ leaseKind \in LeaseKinds
    /\ clock = 1 /\ setting = DefaultLease
    /\ launch = [st |-> "none", job |-> FALSE] /\ launcher = "start"
    /\ process = 0 /\ endedAt = 0
    /\ lease = NoLease
    /\ known = [found |-> FALSE, rev |-> 0, at |-> 0, interval |-> DefaultLease.renewal, next |-> 0]
    /\ toolCall = NoCall /\ toolCalls = 0 /\ renewCall = NoCall
    /\ swept = NoSweep /\ sweptAt = 0 /\ missed = FALSE
    /\ daemonUp = TRUE /\ outage = FALSE /\ leaseFaults = 0

LeaseNext ==
    \/ CreateLaunch \/ LaunchExec \/ StartJob \/ SetLaunchJob \/ RetireLaunch
    \/ ToolCallRegisters \/ ToolCallArrives \/ ToolCallReplies
    \/ RenewFires \/ RenewArrives \/ RenewReplies \/ CallLost
    \/ RetireSession \/ SetSettings
    \/ SweepReads \/ SweepLooks \/ SweepWrites \/ SweepFails
    \/ HostEnds \/ PidReused \/ DaemonGoes \/ DaemonReturns \/ LeaseTick

LeaseSpec == LeaseInit /\ [][LeaseNext]_leaseVars

-----------------------------------------------------------------------------
(* Properties *)

\* A launched session whose host still runs stays active without any renewal of its own: one
\* sweep that sees its host carries it past the next one, whatever that sweep raced with and
\* with the shortest lifetime that Settings allows.  Its lease ends only after the daemon was
\* down, or right after a sweep that could not read the host or failed (MaintainLiveness,
\* Settings.Valid).
RunningNeverLapses ==
    lease.st = "live" /\ lease.host = 1 /\ HostRuns /\ ~outage /\ ~missed => lease.exp > clock

\* A session ends within one lifetime of its host's end: no sweep, renewal or late call
\* extends it past that, also when another process gets the host's ID (MaintainLiveness
\* compares the start, and again in its write).
LeaseEndsWithHost ==
    endedAt > 0 => \A v \in LeaseSettings :
        (\A w \in LeaseSettings : w.life <= v.life) => lease.exp <= endedAt + v.life

\* The comment at mcp/tools.go:636-638: one failure of a renewal does not lose an idle
\* session.  A session whose server runs is active, or the server still renews it.
IdleNotLost ==
    lease.st = "live" /\ HostRuns /\ known.at > 0 /\ ~outage => LeaseActive \/ known.found
=============================================================================
