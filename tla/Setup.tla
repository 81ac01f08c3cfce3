------------------------------- MODULE Setup -------------------------------
(***************************************************************************)
(* The set-up of an agent program (internal/setup): the koinon MCP server  *)
(* through the program's own CLI, its hook or plugin, the wrapped status   *)
(* line with the record of the entry it replaced, the permission rules and *)
(* the launcher's record of the CLI; and their removal.                    *)
(*                                                                         *)
(* One command runs at a time, step by step, and can fail or be killed     *)
(* between two durable effects; the person edits the same files at any     *)
(* moment.  A settings file is its status entry, its permission rules and  *)
(* the rest; the comparison that guards a replacement and the rename after *)
(* it are one step, as the code takes no lock on the file.  The texts of   *)
(* the files, the places they are kept in and the reports are left out.    *)
(***************************************************************************)
EXTENDS Naturals

CONSTANTS
    SetupFamilies,    \* the agent families of this instance
    MaxCommands,      \* bound: commands run
    MaxUserEdits      \* bound: edits the person makes

Binaries == {"b1", "b2"}
Commands == {"none", "c1", "c2"}

ASSUME SetupAssumption ==
    /\ SetupFamilies \subseteq {"claude", "codex", "agy", "opencode", "grok"}
    /\ MaxCommands \in Nat /\ MaxUserEdits \in Nat

VARIABLES
    agent,       \* the family that is set up
    binary,      \* the koinon binary in use; an upgrade can move it
    settings,    \* the settings file: status entry, permission rules, the rest
    hooks,       \* the hooks or plugin file: Koinon's and edited groups, the rest
    server,      \* the agent's MCP entry named koinon
    saved,       \* the status record in the state directory
    recorded,    \* launchers.json names the agent's CLI
    command,     \* the running command
    user,        \* history: what the person last wrote, and whether a set-up had to guess it
    commands,    \* commands so far
    edits        \* edits so far

setupVars == <<agent, binary, settings, hooks, server, saved, recorded, command, user, commands, edits>>

-----------------------------------------------------------------------------
(* The status entry: the hook's binary, or "own" for the person's entry,    *)
(* the person's command, the refresh interval (0 none, 1 short enough, 2    *)
(* too long) and whether the wrapper has another spelling than setup's.     *)

NoEntry == [by |-> "own", cmd |-> "none", interval |-> 0, edited |-> FALSE]
OwnEntries ==
    {[by |-> "own", cmd |-> c, interval |-> i, edited |-> FALSE] : c \in Commands \ {"none"}, i \in {0, 2}} \cup {NoEntry}
NoRecord == [state |-> "none", original |-> NoEntry, wrapper |-> NoEntry]
Idle == [op |-> "idle", at |-> "end", read |-> [status |-> NoEntry, rules |-> "missing", rest |-> 0],
         groups |-> [koinon |-> {}, rest |-> 0], original |-> NoEntry, entry |-> NoEntry, out |-> "none"]

StatusFamilies == {"claude", "agy", "grok"}
IsWrapper(e) == e.by # "own"
PlainWrapper(e) == ~e.edited
ValidRefresh(i) == i = 1
Refresh(i) == IF agent = "agy" \/ ValidRefresh(i) THEN i ELSE 1
WrapperEntry(o) == [by |-> binary, cmd |-> o.cmd, interval |-> Refresh(o.interval), edited |-> FALSE]
Unwrap(e) == IF e.cmd = "none" THEN NoEntry ELSE [e EXCEPT !.by = "own"]
SetupActive(r) == r.state \in {"enabled", "pending"}

\* A Grok record saved before setup owned the interval is compared without it, and the interval
\* the file has now is the one it restores.
GrokLegacy(r) == agent = "grok" /\ SetupActive(r) /\ r.wrapper.interval = 0
LegacyView(r, e) == [now |-> [e EXCEPT !.interval = 0], original |-> [r.original EXCEPT !.interval = e.interval]]
View(r, e) == IF GrokLegacy(r) THEN LegacyView(r, e) ELSE [now |-> e, original |-> r.original]

-----------------------------------------------------------------------------
(* Reading and replacing the settings *)

CommandAt(at) == command' = [command EXCEPT !.at = at]
EndWith(out) == command' = [command EXCEPT !.at = "end", !.out = out]
AfterStatus(op) == IF op = "setup" THEN "record" ELSE "end"
Concluded(out) == command' = [command EXCEPT !.at = AfterStatus(command.op), !.out = out]

Compared == settings = command.read
\* The grok editor changes only the owned keys, and its write refuses another meaning.
GrokEdit(f, e) == [f EXCEPT !.status = e]
Replaced(f, e) == IF agent = "grok" THEN GrokEdit(f, e) ELSE [f EXCEPT !.status = e]
WriteRawUncompared(next, at) == settings' = next /\ CommandAt(at)
\* writeRaw refuses a file that changed since it was read; the other change is kept.
WriteRaw(next, at) ==
    IF Compared
    THEN settings' = next /\ CommandAt(at)
    ELSE UNCHANGED settings /\ EndWith("conflict")

-----------------------------------------------------------------------------
(* The status line *)

\* setUp decides which entry is the original; "changed" leaves an edited wrapper alone.
Original(r, e) ==
    LET v == View(r, e)
    IN CASE SetupActive(r) /\ v.now = r.wrapper -> v.original
         [] r.state = "pending" /\ v.now = r.original -> v.original
         [] ~IsWrapper(e) -> e
         [] OTHER -> Unwrap(e)
\* The original is taken out of a wrapper whose record is gone: its own interval is not known.
Guessed(r, e) == ~SetupActive(r) /\ IsWrapper(e)
LeftAlone(r, e) ==
    /\ IsWrapper(e)
    /\ IF SetupActive(r)
       THEN View(r, e).now # r.wrapper /\ ~(r.state = "pending" /\ View(r, e).now = r.original)
       ELSE ~PlainWrapper(e)

StatusSetUp ==
    /\ command.at = "status" /\ command.op \in {"setup", "complete"}
    /\ LET e == settings.status
           o == Original(saved, e)
           w == WrapperEntry(o)
       IN \/ /\ LeftAlone(saved, e)
             /\ Concluded("changed") /\ UNCHANGED <<saved, user>>
          \/ /\ ~LeftAlone(saved, e) /\ w = e
             /\ user' = [user EXCEPT !.guessed = @ \/ Guessed(saved, e)]
             /\ saved' = [state |-> "enabled", original |-> o, wrapper |-> e]
             /\ Concluded("unchanged")
          \/ /\ ~LeftAlone(saved, e) /\ w # e
             /\ user' = [user EXCEPT !.guessed = @ \/ Guessed(saved, e)]
             /\ saved' = [state |-> "pending", original |-> o, wrapper |-> w]
             /\ command' = [command EXCEPT !.at = "write", !.read = settings, !.original = o, !.entry = w]
    /\ UNCHANGED <<agent, binary, settings, hooks, server, recorded, commands, edits>>

StatusWrite ==
    /\ command.at = "write" /\ command.op \in {"setup", "complete"}
    /\ WriteRaw(Replaced(command.read, command.entry), "save")
    /\ UNCHANGED <<agent, binary, hooks, server, saved, recorded, user, commands, edits>>

StatusSave ==
    /\ command.at = "save" /\ command.op \in {"setup", "complete"}
    /\ saved' = [state |-> "enabled", original |-> command.original, wrapper |-> command.entry]
    /\ Concluded("set_up")
    /\ UNCHANGED <<agent, binary, settings, hooks, server, recorded, user, commands, edits>>

Declined == [NoRecord EXCEPT !.state = "declined"]
StatusRemove ==
    /\ command.at = "status" /\ command.op \in {"remove", "decline"}
    /\ LET v == View(saved, settings.status)
       IN \/ /\ ~SetupActive(saved)
             /\ saved' = Declined /\ Concluded("not_set_up")
          \/ /\ saved.state = "pending" /\ v.now = saved.original
             /\ saved' = Declined /\ Concluded("restored")
          \/ /\ SetupActive(saved) /\ v.now # saved.wrapper
             /\ ~(saved.state = "pending" /\ v.now = saved.original)
             /\ saved' = Declined /\ Concluded("changed")
          \/ /\ SetupActive(saved) /\ v.now = saved.wrapper
             /\ ~(saved.state = "pending" /\ v.now = saved.original)
             /\ command' = [command EXCEPT !.at = "write", !.read = settings, !.entry = v.original]
             /\ UNCHANGED saved
    /\ UNCHANGED <<agent, binary, settings, hooks, server, recorded, user, commands, edits>>

StatusRestore ==
    /\ command.at = "write" /\ command.op \in {"remove", "decline"}
    /\ WriteRaw(Replaced(command.read, command.entry), "save")
    /\ UNCHANGED <<agent, binary, hooks, server, saved, recorded, user, commands, edits>>

StatusDecline ==
    /\ command.at = "save" /\ command.op \in {"remove", "decline"}
    /\ saved' = Declined
    /\ Concluded("restored")
    /\ UNCHANGED <<agent, binary, settings, hooks, server, recorded, user, commands, edits>>

-----------------------------------------------------------------------------
(* The MCP entry, through the agent's own CLI; the CLI is external.         *)

\* matches: the entry runs this binary; Claude Code and OpenCode show no enabled mark.
Matches(enabled) == server.by = binary /\ (server.on \/ ~enabled \/ agent \in {"claude", "opencode"})
AfterServer == IF agent = "claude" \/ agent = "grok" THEN "status" ELSE "hook"
Removes == agent \in {"claude", "codex", "grok"} /\ server.by # "none"

\* `opencode mcp` has no remove command: the entry is taken out of the configuration file.
OpenCodeServerRemoved == IF Matches(FALSE) THEN [by |-> "none", on |-> FALSE] ELSE server

ServerGet ==
    /\ command.at = "mcp" /\ command.op = "setup"
    /\ CommandAt(IF Matches(TRUE) THEN AfterServer ELSE IF Removes THEN "replace" ELSE "add")
    /\ UNCHANGED <<agent, binary, settings, hooks, server, saved, recorded, user, commands, edits>>

ServerReplace ==
    /\ command.at = "replace"
    /\ server' = [by |-> "none", on |-> FALSE]
    /\ CommandAt("add")
    /\ UNCHANGED <<agent, binary, settings, hooks, saved, recorded, user, commands, edits>>

ServerAdd ==
    /\ command.at = "add"
    /\ server' = [by |-> binary, on |-> TRUE]
    /\ CommandAt(AfterServer)
    /\ UNCHANGED <<agent, binary, settings, hooks, saved, recorded, user, commands, edits>>

ServerRemove ==
    /\ command.at = "mcp" /\ command.op = "remove"
    /\ server' = IF Matches(FALSE) THEN [by |-> "none", on |-> FALSE] ELSE server
    /\ CommandAt(AfterServer)
    /\ UNCHANGED <<agent, binary, settings, hooks, saved, recorded, user, commands, edits>>

-----------------------------------------------------------------------------
(* Hooks and the identity plugin: read, then written without a comparison.  *)

KoinonGroup == IF agent = "opencode" THEN "plugin" ELSE binary
AfterHook == IF agent = "agy" THEN "status" ELSE AfterStatus(command.op)
\* Codex: one Koinon group, for this binary; the person's groups stay.
CodexHook(g) == (g \ Binaries) \cup {KoinonGroup}
RemoveCodexHook(g) == g \ {KoinonGroup}
\* agy: the koinon key takes setup's value, also over an edited one; a removal leaves an edited one.
AgyHook(g) == {KoinonGroup}
RemoveAgyHook(g) == IF g = {KoinonGroup} THEN {} ELSE g
\* OpenCode: the plugin file, in the same way.
OpenCodePlugin(g) == {KoinonGroup}
RemoveOpenCode(g) == IF g = {KoinonGroup} THEN {} ELSE g

HookSetUp(g) ==
    CASE agent = "codex" -> CodexHook(g) [] agent = "agy" -> AgyHook(g) [] OTHER -> OpenCodePlugin(g)
HookRemoved(g) ==
    CASE agent = "codex" -> RemoveCodexHook(g) [] agent = "agy" -> RemoveAgyHook(g) [] OTHER -> RemoveOpenCode(g)

HookRead ==
    /\ command.at = "hook"
    /\ LET groups == IF command.op = "setup" THEN HookSetUp(hooks.koinon) ELSE HookRemoved(hooks.koinon)
       IN command' = IF groups = hooks.koinon
                     THEN [command EXCEPT !.at = AfterHook]
                     ELSE [command EXCEPT !.at = "hookwrite", !.groups = [hooks EXCEPT !.koinon = groups]]
    /\ UNCHANGED <<agent, binary, settings, hooks, server, saved, recorded, user, commands, edits>>

HookWrite ==
    /\ command.at = "hookwrite"
    /\ hooks' = command.groups
    /\ CommandAt(AfterHook)
    /\ UNCHANGED <<agent, binary, settings, server, saved, recorded, user, commands, edits>>

-----------------------------------------------------------------------------
(* The permission rules and the launcher's record *)

\* The rules of Claude Code and Antigravity are a list, which no entry of the person's contradicts.
AllowList == settings.rules
\* Codex keeps its rule in the server's own table, so without the server nothing can be added.
CodexApproval == IF server.by = "none" THEN "unreadable" ELSE settings.rules
OpenCodePermission == settings.rules
Rules ==
    CASE agent = "codex" -> CodexApproval [] agent = "opencode" -> OpenCodePermission
      [] agent = "grok" -> "manual" [] OTHER -> AllowList
\* conclude: only missing rules are added, and never beside one the person set otherwise.
Conclude == IF Rules = "missing" THEN "write" ELSE "end"

\* The person accepts the offer; the rules are read again for the addition.
OfferRules ==
    /\ command.at = "rules"
    /\ command' = [command EXCEPT !.at = Conclude, !.read = settings, !.out = Rules]
    /\ UNCHANGED <<agent, binary, settings, hooks, server, saved, recorded, user, commands, edits>>

AddRules ==
    /\ command.at = "write" /\ command.op = "offer"
    /\ WriteRaw([command.read EXCEPT !.rules = "present"], "end")
    /\ UNCHANGED <<agent, binary, hooks, server, saved, recorded, user, commands, edits>>

RecordCLI ==
    /\ command.at = "record"
    /\ recorded' = TRUE
    /\ CommandAt("end")
    /\ UNCHANGED <<agent, binary, settings, hooks, server, saved, user, commands, edits>>

-----------------------------------------------------------------------------
(* Commands *)

\* The commands: setup, uninstall's removal, --remove-status-line, and the steps of an install
\* that completes a status line, adopts a CLI or offers the rules.
First(op) ==
    CASE op \in {"setup", "remove"} -> IF op = "remove" /\ agent = "opencode" THEN "hook" ELSE "mcp"
      [] op \in {"decline", "complete"} -> "status"
      [] op = "offer" -> "rules"
      [] op = "adopt" -> "record"
\* An install completes only a status line that setUp would change and the person did not remove.
StatusLineNeeded ==
    /\ saved.state # "declined" /\ ~LeftAlone(saved, settings.status)
    /\ WrapperEntry(Original(saved, settings.status)) # settings.status
Completes == agent \in StatusFamilies /\ Matches(TRUE) /\ StatusLineNeeded
Adopts == ~recorded /\ Matches(TRUE)
Applies(op) ==
    CASE op = "decline" -> agent \in StatusFamilies
      [] op = "complete" -> Completes
      [] op = "offer" -> Rules = "missing"
      [] op = "adopt" -> Adopts
      [] OTHER -> TRUE

Begin(op) ==
    /\ command.at = "end" /\ commands < MaxCommands /\ Applies(op)
    /\ command' = [Idle EXCEPT !.op = op, !.at = First(op)]
    /\ server' = IF op = "remove" /\ agent = "opencode" THEN OpenCodeServerRemoved ELSE server
    /\ commands' = commands + 1
    /\ UNCHANGED <<agent, binary, settings, hooks, saved, recorded, user, edits>>

\* A refused file, a failed CLI call or write, or a kill: the command ends where it is.
Stopped ==
    /\ command.at # "end"
    /\ command' = Idle
    /\ UNCHANGED <<agent, binary, settings, hooks, server, saved, recorded, user, commands, edits>>

-----------------------------------------------------------------------------
(* The person, and an upgrade that moves the binary *)

UserEdits(e) ==
    /\ edits < MaxUserEdits /\ edits' = edits + 1
    /\ e
    /\ UNCHANGED <<agent, binary, saved, recorded, command, commands>>

UserWritesStatus ==
    \E e \in OwnEntries : UserEdits(
        /\ agent \in StatusFamilies /\ e # settings.status
        /\ settings' = [settings EXCEPT !.status = e] /\ user' = [user EXCEPT !.status = e, !.guessed = FALSE]
        /\ UNCHANGED <<hooks, server>>)
\* The person edits Koinon's wrapper in place: another spelling, the same command.
UserEditsWrapper ==
    UserEdits(
        /\ IsWrapper(settings.status) /\ ~settings.status.edited
        /\ settings' = [settings EXCEPT !.status.edited = TRUE]
        /\ UNCHANGED <<user, hooks, server>>)
UserWritesRules ==
    UserEdits(
        /\ agent \in {"codex", "opencode"} /\ settings.rules # "different"
        /\ settings' = [settings EXCEPT !.rules = "different"] /\ user' = [user EXCEPT !.rules = "different"]
        /\ UNCHANGED <<hooks, server>>)
UserWritesRest ==
    UserEdits(
        /\ settings' = [settings EXCEPT !.rest = 1 - @] /\ user' = [user EXCEPT !.rest = 1 - @]
        /\ UNCHANGED <<hooks, server>>)
UserEditsHooks ==
    UserEdits(
        /\ agent \in {"codex", "agy", "opencode"}
        /\ hooks' = [koinon |-> {"edited"}, rest |-> 1]
        /\ UNCHANGED <<settings, user, server>>)
UserEditsServer ==
    \E s \in {[by |-> "other", on |-> TRUE], [server EXCEPT !.on = FALSE]} : UserEdits(
        /\ server' = s /\ s # server
        /\ UNCHANGED <<settings, user, hooks>>)

MoveBinary ==
    /\ binary = "b1" /\ command.at = "end"
    /\ binary' = "b2"
    /\ UNCHANGED <<agent, settings, hooks, server, saved, recorded, command, user, commands, edits>>

-----------------------------------------------------------------------------
(* A Grok installation can hold a record from before the interval was owned. *)
LegacyWrapper(o) == [by |-> "b1", cmd |-> o.cmd, interval |-> 0, edited |-> FALSE]

SetupInit ==
    /\ agent \in SetupFamilies
    /\ binary = "b1" /\ server = [by |-> "none", on |-> FALSE]
    /\ hooks = [koinon |-> {}, rest |-> 0]
    /\ recorded = FALSE /\ command = Idle /\ commands = 0 /\ edits = 0
    /\ \E e \in OwnEntries, legacy \in BOOLEAN :
         /\ legacy => agent = "grok" /\ e.cmd # "none"
         /\ agent \notin StatusFamilies => e = NoEntry
         /\ user = [status |-> e, rules |-> "missing", rest |-> 0, guessed |-> FALSE]
         /\ LET o == [e EXCEPT !.interval = 0]
            IN /\ settings = [status |-> IF legacy THEN [LegacyWrapper(e) EXCEPT !.interval = e.interval] ELSE e,
                              rules |-> "missing", rest |-> 0]
               /\ saved = IF legacy THEN [state |-> "enabled", original |-> o, wrapper |-> LegacyWrapper(e)]
                                    ELSE NoRecord

SetupNext ==
    \/ \E op \in {"setup", "remove", "decline", "complete", "offer", "adopt"} : Begin(op)
    \/ StatusSetUp \/ StatusWrite \/ StatusSave \/ StatusRemove \/ StatusRestore \/ StatusDecline
    \/ ServerGet \/ ServerReplace \/ ServerAdd \/ ServerRemove
    \/ HookRead \/ HookWrite
    \/ OfferRules \/ AddRules \/ RecordCLI \/ Stopped
    \/ UserWritesStatus \/ UserEditsWrapper \/ UserWritesRules \/ UserWritesRest
    \/ UserEditsHooks \/ UserEditsServer \/ MoveBinary

SetupSpec == SetupInit /\ [][SetupNext]_setupVars

-----------------------------------------------------------------------------
(* Correctness *)

\* Whatever is killed, retried or edited in between, the status entry runs the command the person
\* last chose, alone or inside Koinon's hook, every other setting is the person's, and a rule the
\* person set otherwise is never overwritten (setUp, remove, writeRaw, conclude).
UserSettingsKept ==
    /\ settings.status.cmd = user.status.cmd
    /\ settings.rest = user.rest
    /\ user.rules = "different" => settings.rules = "different"

\* A removal that reports "restored" gave back exactly the entry the person last wrote, with its
\* interval, however often set-up ran again, from a moved binary or after a kill; the exception is
\* an entry that a set-up had to take out of a wrapper with no record (remove, setUp, legacyView).
RestoredIsUsers ==
    command.at = "end" /\ command.out = "restored" /\ ~user.guessed => settings.status = user.status

\* What set-up and removal leave in a person's files (setUp, remove).
SetupSound == UserSettingsKept /\ RestoredIsUsers
=============================================================================
