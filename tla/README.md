# Koinon: a TLA+ verification project

Koinon is a local daemon through which coding agents (Codex, Claude Code, Grok, OpenCode,
DeepSeek, Antigravity) talk to each other: sessions register, hold reserved addresses, send and
read messages, are woken for them, claim work, share memory and let the maintainer decide. All
state is one SQLite database with one writer; concurrency comes from requests, timers and workers
whose operations take several transactions, from external calls between transactions, from
people who type into the same terminals, from leases that end at any time and from stops of the
daemon. Around the daemon are the launcher, the MCP server of each session, the installer, the
upgrade from the earlier Python runtime and the set-up of the agent programs, each of which can
be killed between two writes. This project models the parts where those interleavings decide
correctness.

## Inventory

| Component (source) | State | Operations | What makes it hard | What makes it correct |
|---|---|---|---|---|
| Participants (`names.go`, `participants.go`) | address, recorded holder, conflict, fences | register, renew, choose, release | several sessions qualify, in any order; a session recorded on two addresses | one holder; order never decides; a superseded session stays out |
| Succession (`succession.go`) | host and pane records, last tool calls | the end of a tool-call registration | evidence read at different times, unreadable processes | only proof moves an address from an active holder |
| Sessions, liveness, launcher, MCP server (`store.go`, `liveness.go`, `launch.go`, `mcp/tools.go`, `launcher.go`) | lease, launch record, host process, renewal set | register, renew, sweep, retire, launch | lost answers, restarts, reused process IDs, changed settings | a running agent keeps its session, an ended one loses it |
| Retention (`retention.go`, `cleanup.go`) | purge mark, sweep budget | mark, unmark, clean up, sweep | selection without a lock, deletion in batches | nothing is taken from a session without a mark that stands |
| Inboxes (`messages.go`) | last, acknowledged, read cursors; retention mark | send, read (page, then mark), acknowledge, delete in batches | page and mark are two transactions | nothing unacknowledged deleted; the read cursor is honest |
| Wake worker (`wake.go`) | delivery state, notices, waits of each message | pass, submission, Stop offer, turn failures | external call between two transactions; crash; new holder | retried after a stop; fails only after its notices; never forgotten |
| Wake adapters (`wake_*.go`) | none of their own | submit to a pane, a thread, a server | the user types, clears, restarts in between | a verdict is true of the agent program |
| Storage boundary (`storage.go`) | page count, free pages, page debt, log, block | begin, commit, reclaim, recover | failed or cancelled log proofs; promised controls | promised controls are funded; writes start from an empty log |
| Work and claims (`work.go`, `claims.go`, `work_maintenance.go`) | items, bundles, generations, epochs, credits | start, claim, progress, renew, finish, sweep | lease end against renewal; replay of requests | one owner of a resource; promises kept when due; a retry applied once |
| Notices of work (`work_notifications.go`) | audiences with heads, message ids | the pass over audiences | events and handovers during the pass | a quiet pass has told every audience its newest event |
| Memory (`memory.go`) | entries, floor, cursors, snapshots | record, sync, acknowledge, expire | expiry during a paged snapshot, lost answers | a consumer that is caught up has the current entries |
| Context cycles (`context_cycle*.go`) | cycle rows, revisions, credits, workers | admit, ready, advance, input, pickup, end | controller, agent and terminal act on rows read earlier; stops between intent and input | every input once; every cycle ends, with an honest outcome |
| Context readings (`observations.go`, `context_*.go`, `*_context.go`) | stored reading, marks, latch | report, poll, confirm, admit | late reports, torn logs, a reading that is stale when used | a compaction goes only on the newest reading |
| Cycle adapters (`cycle_*.go`) | none of their own | keys into a pane, reading a program's log | the user's own input, menus, partial records | the user's text survives; quiet means quiet |
| Decisions (`decisions.go`, `decision_*.go`) | items, verdicts, deliveries, deep archive | edit, decide, deliver, move, restore, export | a move is three transactions and a file | nothing moved is lost; an export that saw no change is complete |
| Rooms (`rooms.go`, `room_posts.go`) | members, posts, cursors, retry records | join, leave, post, read, cull | an address changes hands, posts are culled | a read is honest; a post is made once |
| Maintainer login (`maintainer_secret.go`, `dashboard_auth.go`) | key, links, logins, failures | set, change, check, log in | a slow check against a change | no login outlives its secret |
| Set-up of programs (`setup/`) | settings files, saved record | set up, remove | kills between record and file; the person's edits | the person's own settings come back |
| Install, service mode (`install/`, `platform/`) | binary, link, unit, daemons | install, uninstall, change mode, roll back | lost answers, a daemon that still starts | what is reported is what runs |
| Upgrade (`upgrade/`, `importer/`, `legacy/`) | journals, marker, services, staging | stop, hold, import, publish, end, resume | kills at every step; Python that writes on | Python is removed only after the import; an ended attempt gives everything back |
| Dashboard, HTTP routes, library, command line | none of their own | I/O | | enter the models as requests |

The components interact through the database and two locks: `wake.mu` (registrations,
acknowledgements, holder changes, submissions, a cycle's input) and `storage.mu` (one write at a
time). A holder change is one transaction that also resets the participant's inbox and its
messages' delivery; the worker reads holder and inbox before an external call and writes after it.

## Modules

| Module | Models | State and actions |
|---|---|---|
| `Participants` | names, participants, succession, session transactions | `sess`, `holder`, `conflict`, `fences` are the tables; `guarded` the last tool calls; `running` the host processes. A transaction is one action; the Go functions that take the transaction are operators on the database value `d` |
| `Inbox` | messages and their retention; EXTENDS `Participants` | cursors of each participant's inbox; `pages` are reads between their two transactions; `HolderStep` makes each step of Participants a step of the inbox too |
| `Wake` | the wake worker on one inbox | `msg` the delivery columns; `pc` the place in the pass or the Stop hook; `batch` the submission |
| `Notices` | the adapters that give a notice to a program | `attempt` is the call of `Submit`, step by step; `host` the program, its pane and thread; `times` what Codex's thread proof reads; the user acts between steps |
| `Storage` | the storage boundary | `pages`, `free`, `debt`, `log`, `blocked`; `tx` the open write; `step` a vacuum whose log proof is to come |
| `Work` | work items, claim bundles, credits and the sweep, on one store | `item` and `bundle` are the tables; `claims`, `created` the durable counters; `finished` the finished items in the order of their expiry; `replays` the retained keys. Each operation of `apply` is an action, and so is each transaction that `workMutation` or the sweep runs before it |
| `Ownership` | the promise of the lease engine, abstractly: disjoint claims under generations that are given once | `live`, `last`; a claim is taken or ends. `Work` implements it with its live bundles |
| `WorkNotices` | the reconciler of notices about work | `events` and `rows` are the tables; `pass` the reconciler between its transactions |
| `Memory` | the cursor and snapshot protocol | `mem` the tables; `told` what each consumer was told; calls whose answer is lost |
| `Cycle` | the context cycle, its controller, its workers and the input under `wake.mu` | `cy` the row; `ctl`, `inp`, `reader`, `work` each actor between its transactions, with the row it read; `made` and `pending` the real inputs |
| `Keys` | the keys an adapter types into a pane | `op` the input step by step; `pane` the screen, which user and program change between steps |
| `Transcript` | the reading of a program's log for a quiet turn | `written`, `partial`, `subagent` the files; `scan` the read under way |
| `Readings` | the context reading of a session, from the log or the program to the admission of a compaction | `rollout`, `follow`, `flight`, `stored`, `polling`, `compaction`, ...: the agent's file, the server's reader, the report, the daemon's value, the cycle |
| `Decisions` | decision items, deliveries, deep archive, export | `items`, `deep`, `lines`; `sweep` the move between its three transactions; `restores`, `export` the clients |
| `Rooms` | rooms, posts, cursors | `room` the tables; `heard` what each session has read |
| `Login` | the maintainer's secret and logins | `secret`, `links`, `logins`; `request` and `change` each client between its steps; `gate` the lock of a check |
| `Purge` | the purge of a session and the clean-up requests | `row`, `inbox`, `lease`; `cleanup` and `sweep` with what they selected |
| `Lease` | the lease of a session from launch to end | `lease` the row; `toolCall`, `renewCall` the server's calls; `swept` the liveness sweep with the row it read; `process` the host |
| `Setup` | set-up and removal of an agent program's settings | `settings`, `hooks`, `server` the files; `saved` the record; `command` the running command |
| `Install` | install and uninstall | `disk`, `linkAt`, `marker`, `unit`, `daemons`; `install` the running command |
| `SystemMode` | the change between the user's agent and the system service | `agentSvc`, `system`, `answering`; `move` the running transition with its rollback |
| `Upgrade` | the upgrade from Python with its import | `journal`, `record`, `python`, `target`, `staging`; `run`, `import` the processes |
| `ParticipantsProofs`, `InboxProofs`, `WorkProofs` (also of `Storage`), `WakeProofs` (also of `WorkNotices`), `AgentsProofs` (`Purge`, `Notices`, `Keys`, `Readings`, `Transcript`), `BoardsProofs` (`Login`, `Rooms`, `Decisions`, `Memory`), `HostsProofs` (`Lease`, `Setup`, `Upgrade`, `Install`, `SystemMode`), `CycleProofs` | theorems | |
| `MCParticipants`, `MCInbox`, `MCWake`, `MCWork`, `MCLease` | instances of one module | |
| `MCHosts`, `MCCycles`, `MCBoards`, `MCAgents`, `MCClaims` | instances of several modules side by side | `part` names the one that takes steps; the others stay in an initial state. The parts share no state, so a property of a part is checked on exactly the behaviours of its module. Each module was also run alone with these bounds: every action of it fires |

Definitions that a comment calls a mutant, and the operators that PROJECT.json lists under
"mutants" (`QualifiersUnfenced`, `FitsUnfunded`, `LockPurgeNever`, ...), are plausible mistakes in
the code. Each property is checked to fail when its mutant replaces the definition. A property
named `...Sound` is the conjunction of two named parts.

What the abstractions leave out:

* Time. Except in `Lease`, `Readings` and `Notices`, a lease may expire, a wait may end and a guard
  may elapse at any step; durations and backoffs are not modelled. The properties hold for every
  choice of them. The three exceptions count a clock, because their properties are about margins.
* Revisions of requests. A stale one is refused and changes nothing, which is the step not taken.
* `Participants` has one family. `Registration.readable` and `.link` are what the daemon reads while
  it serves a request: which processes it can read, and what the holder's unfinished context cycle
  says of the caller. A cycle links in two ways: its reset in the host's pane proved the caller
  (`reset`), or, where neither session has a host (DeepSeek), it created the caller's session and its
  pickup was received (`linked`) or not yet (`pending`, a refusal). The row of the cycle itself is in
  `Cycle`, so here each request may carry any link.
* `Inbox` has participants' inboxes. A native inbox runs the same code and never changes holder.
* `Wake` has one participant's inbox, so not the limit of 16 inboxes for a pass. A pass and a Stop
  hook do not overlap: for Antigravity the pass only fails messages, in a transaction that reads
  everything again. `submitted` is a history of the calls that may have reached the agent: a call
  that the adapter ends as busy or not given does not count, one that is cut off before its answer may.
  A new holder starts with what the row brings it.
* `Notices`: observed activity is any value; the answers of queue commands and services are external.
* `Storage` takes SQLite as external: `Taken`, `Unused` and the vacuum. A commit may add up to
  `CommitSlack` pages (pointer maps) that the count before it does not show. `AdmittedWrite` is any
  mutation: the pages it takes and frees, the credits it spends and promises.
* `Work` counts ceilings in slots (events, entries, replays, scope revisions, bundles, items); the
  logical bytes have the same form. `active` stands for `blocked` too. The caller is its consumer
  key: roles and native sessions are left out, and so are the two limits over all stores. A second
  request cannot come between `reconcile` and the operation, since each holds `memory.op`;
  interleaving the transactions allows more behaviours than the lock does, which is safe.
* `WorkNotices`: an audience is a role or the creator; the recipients are the set `held`.
* `Memory`: keyed writes and the limits of the store are in `Work`; work-item views, recall and
  status only read.
* `Cycle`: bootstrap cycles of earlier versions, the slot of a ready refusal, the number of worker
  slots, the identity of the hand-off file, and texts. One outside reader at a time.
* `Keys`: the look at the screen, for a clear the last reading of the turns, and the key itself are
  three steps, and the user and the program may act between them. `window` records that the user typed
  or a dialog came or went after the look; there the code does not promise anything (the comment at
  cycle_claude.go:755-756 holds outside that window only), and `KeysSafe` says that nothing else breaks
  it. An Escape goes after the fence alone, without a look, and cancels whatever dialog it meets;
  `KeysSafe` does not speak of it. The `/status` that follows Codex's clear is left out.
* `Readings`: one session and the context group; policies do not change; a report or a poll ends
  within a clock unit; the delay of the search for a rollout and a file that shrinks and grows back
  between two looks are left out.
* `Decisions`, `Rooms`: idempotency receipts of decisions, permissions, names, list and member views.
* `Login`: cookies, CSRF tokens, the lifetime of a login, limits of texts.
* `Purge`: one session, one claim, one membership; the messages' own period ends at any time.
* `Lease`: repository discovery, tmux names and succession (in `Participants`); a process ID is not
  reused within one call; calls and a sweep end within a clock unit. A sweep may find a running host
  that it cannot read, or fail at its query or its write; `missed` says so until a sweep, a renewal or a registration goes well.
* `Setup`: texts and TOML; comparing a file and renaming over it is one step, as in the code nothing
  but the operating system comes between. `Install`: skill files, questions, two builds with one
  version; SIGTERM ends a process at once. `SystemMode`: plist fields, staging; launchd is external.
  `Upgrade`: what an import converts; the services do not end by themselves while an attempt runs.
  The marker keeps only the memory services from starting: other Python processes start under it and
  write, before and after the capture, and `late` records that one did. The guard before `uninstall.py`
  (`ClearDeadEndpoints`) refuses while such a process runs. A target that cannot be read keeps the
  Python runtime excluded instead of giving it back.

## Runs

| Run | Shows | Instance |
|---|---|---|
| `HostsAndSessions` | participants: a fenced session never holds; only proof takes an address from an acting holder. Lease: a running agent does not lapse unless a sweep missed it, an ended host's lease ends. Set-up keeps and restores the person's settings; an upgrade that ends gives back what it stopped, and removes Python only after the import, which has every write but those of a session started under the marker; an install leaves no stray start and records its link; a change of service mode reports what answers | 3 sessions, 2 participants, 2 hosts in one pane; leases of 2 and 4 units, a sweep each unit, 4 units; 5 families, 3 commands; 2 Python units, 2 attempts, 2 faults, 2 writes of each kind; 4 daemons, 3 installs; 2 transitions. 2,829,934 states |
| `CyclesAndMoves` | each cycle input is made once; an outcome is honest and funded; no wake input into a fenced pane; a kept Enable gets another cycle only after a read; every cycle ends. Participants: order never decides, a sole qualifier ends up as the holder | cycles of the four kinds, 1 stop of the daemon, 9 or 10 events, a second cycle for hostless ones; 2 sessions that move between 2 participants, with purge. 465,000 states, with liveness |
| `InboxesAndBoards` | nothing unacknowledged is deleted; the read cursor is honest; what counts as handled never becomes unhandled for the same holder; room reads are honest and posts made once; a moved decision is kept, an undisturbed export complete; a caught-up consumer is current; no login of a former secret | 2 sessions (symmetric), 2 messages, 2 overlapping reads; 2 posts, 4 revisions; 2 items, 2 failures, 5 operations; 2 entries, 2 snapshots, 3 cuts; 2 clients, 2 secrets. 1,292,000 states |
| `WakesAndNotices` | a notice goes to the present holder, for unacknowledged messages, and is durable first; a message fails only after its holder may have got the limit of notices; each message is settled | 2 messages, limit 2, 1 holder change, 1 stop; 606,644 states, with liveness |
| `WorkClaims` | live claims are disjoint; Work implements Ownership; an epoch is recorded overdue once; due transitions are recorded and expired items removed. Storage: a funded control is never refused | 2 items, 2 consumers, a directory, a file in it and no resource; 8 events, 9 entries with 1 note; 10 pages, reserve 2, credits of 2 and 3; 228,701 states, with liveness |
| `WorkAndAgents` | work: no incompatible store, promised controls funded, a key takes effect once. Notices of work: a pass that nothing disturbs has told everyone concerned. Nothing is taken from an unmarked session; a notice's verdict is honest and a hidden turn comes only from the known race; the user's text survives an adapter's keys, unless it changed between the look and the key, and a refusal leaves nothing behind; a log found quiet is quiet; a compaction is admitted on a current reading and goes on the newest | 2 items, 2 consumers (symmetric), 1 key; 3 work events, 2 roles and the creator, room for 2 audiences, 1 fault; 2 messages, 5 acts; 5, 4 and 6 families; 4 acts of the user, 5 records, a rollout of 4 pieces in batches of 3. 1,629,163 states |
| `ParticipantsKeep`, `WakeLimit`, `WakeBudget`, `StorageReclaim`, `DecisionQueued`, `LeaseLost` | divergences (below) | `LeaseLost`: a session without a launch, a life of 3 units, renewed each unit |

The bounds. Succession needs a holder, a candidate on the same host or in its pane, and a third
session that makes the candidate's host another participant's: three sessions, two addresses, two
hosts. Only the second session's requests carry cycle links or an unreadable host: that is the one
that follows a holder of its participant. Read anomalies need two reads that overlap and a page that skips one message: two messages.
A batch of one splits every deletion of two. The notice limit is 2 instead of 4: one notice that
does not end the budget and one that does. Storage has room for a promise, an ordinary write and a
control at the same time, and a growth of 4 pages reaches the engine's limit. Work has two items,
so that one's promise meets the other's writes, and ceilings that two items with a claim each, a
restart and a note fill. A cycle's event bound lets it go through its longest way, a refused input
and a stop included, and reach the place that is kept for its outcome. A lease of 4 units is
extended by the sweep at half its life; one of 2 is the shortest, where half of it is one sweep. A rollout of 4
pieces in batches of 3 makes the reader stop in the middle; batches of 4 and rollouts of 5 and 6 were
checked as well. A session without a host whose Enable is turned on a second time was
checked apart (728,000 states). Two faults let a second kill meet the resumption of the first. Theorems lift the
bounds where they exist.

Deadlock is checked in `WakesAndNotices` and `WorkClaims`: some timer, expiry or request is always
possible. The other runs set CHECK_DEADLOCK FALSE, because commands, clocks and acts of a user end
at their bounds.

Fairness. `CycleEnds` assumes that the controller's pass goes on (`CtlRead`, `CtlAct`: a ticker runs
it each second, also after an error), that an input or a worker that has begun ends (`Input`,
`Worker`, `WakeEnd`: each has a timeout in its context), that deadlines pass, and strong fairness of
`CtlStep`, since readers and wake notices take `wake.mu` again and again but also release it.
`SweepsInTheEnd` assumes the sweep (every 30 seconds, also after an error): weak fairness of
`Reconcile` of each item, `ReclaimOne` and `SweepFinished`; that no full store disables them is part
of the result. `SoleQualifierHolds` assumes that an active session renews (`koinon mcp` does, on a
timer). `EventuallySettled` assumes that the worker's pass goes on, that a wait ends, that a cycle
gives the pane back so that a submission is picked again and again (strong fairness of `Pick`), and
that an adapter that is called for ever reaches its agent at last (strong fairness of `Reached`);
otherwise the code retries for ever, by design. It speaks of holders that stay present and not of
Antigravity, whose notices come from its own Stop hook. Stops of the daemon are bounded. In
`MCCycles` and `MCClaims` the fair actions are disabled in the initial state of a part at rest, so their fairness
asks nothing of the others.

## Divergences between documents and code

1. `ParticipantsKeep`. PROTOCOL.md:189 says that an active holder keeps the address when another
   session registers or renews, except for succession. A session that moved to another
   repository stays recorded on its earlier address; when another session takes that one,
   `setHolder` (names.go:285) retires the moved session, which was acting for its new participant.
2. `WakeLimit`. PROTOCOL.md:1525 says that notices stop after the last one's wait. `submitWake`
   (wake.go:230) picks again after it failed the messages at the limit, and does not look at the
   notices of the new batch; a wait that ends in between gives a message one more notice.
3. `WakeBudget`. PROTOCOL.md:1262 says that the notice budget belongs to the holder. `setHolder`
   (names.go:301) does not reset a message that a busy answer put back to `waiting`.
4. `StorageReclaim`. PROTOCOL.md:1652 says that the log never holds more than one transaction.
   The reclaim at the end of memory expiry (memory.go:508) proves the log only after its vacuum.
5. `DecisionQueued`. PROTOCOL.md:2199 says that the sweep moves an item once every delivery is
   acknowledged or skipped. `archiveDecisions` (decision_archive.go:233) counts the queued
   deliveries outside the transaction that marks the item; a verdict in between is moved queued.
6. `LeaseLost`. The comment at mcp/tools.go:637 says that an idle session is not lost to one failure.
   A renewal whose answer is lost leaves the server a revision behind; the next one is answered
   with session_conflict (store.go:1311), which `final` takes as the end of the registration
   (tools.go:643), so the session is renewed no more and lapses.

Met while modelling, outside the properties, and not settled by a run:

* Upgrade: a kill between `RestoreRaw` and the saving of `ended` is resumed without a new look at the
  marker; an error of `PublishMarker` after its rename leaves a marker without an attempt.
* Setup: the binary moves after a set-up, the next set-up is killed after it saved its pending
  record; later commands answer "changed" and the original entry is not restored (statusline.go,
  grok_status.go), so `RestoredIsUsers` speaks only of a removal that reports "restored".
* Install: a daemon of the same version that still starts from the old build is taken for the new.
* Notices: Grok's Enter is not checked, and an earlier prompt with the same text counts as submitted;
  a queue command that races `/clear` runs a turn the user does not see (`HiddenOnlyByRace`).
* WorkNotices: an unread message that is deleted with its inbox counts as handled.
* Purge: pruning a room member and releasing a claim from a clean-up do not look at the session's
  activity again; clearing an inbox also acknowledges messages that came after the selection.
* Login: an error of the commit after the key changed leaves earlier logins alive.
* Readings: a late marked report can mark a newer reading of the same level again; the adapter's
  own look at the rollout (`RolloutUnchanged`) stops the compaction.
* Lease: a job that was recorded and whose answer was lost is reported as not a Koinon session.

## Proofs

The theorems hold for every value of the constants allowed by the ASSUMEs: any sets of sessions,
addresses, launches, hosts and requests; any numbers of messages, reads, pages, attempts and faults.
The bounds that the runs give to clocks and counters are constants too, so a theorem holds for each
of them. All proofs have one shape: an inductive invariant, a lemma that the initial states satisfy
it, one lemma per action or group of like actions, and the theorem that joins them.

* `ParticipantsProofs`. The inductive invariant `IInv` is `TypeOK`, `FencedNeverHolds` and
  `ConflictMeansUnheld`. The lemmas follow the code's call tree: what `SetHolder`,
  `RecordConflict`, `ReleaseAddress`, `AssignNames` and `Succeed` do to a sound database value,
  then one step per action. Typing is needed because holders index the session table; the fence
  part because a qualifier is by definition unfenced, which is why `SetHolder` by `AssignAddress`
  and by `Succeed` keeps it. From it: `TypeCorrect`, `FencedNeverHoldsThm`,
  `ConflictMeansUnheldThm`, and the action properties `FormerIsFencedThm`,
  `FenceLiftedByChoiceThm`, `SuccessionIsProvenThm` and `OrderNeverDecidesThm`. The last two need no
  stronger invariant but the order of a registration's parts: `AssignNamesPasses` lists what the
  holder rules do to an address, `SucceedPasses` what succession does after them, and
  `RegisterPasses` shows that succession moves an address only where the rules left the database as
  it was, so that its evidence, a hostless cycle link included, is about the holder that acted before
  the step; `SoleQualifier` says
  that fencing the former holder leaves the new one the only qualifier.
* `InboxProofs`. `UnackedKept` is not inductive without `MarksBounded` (a retention mark never
  exceeds the acknowledgement), and `ReadHonest` not without `PagesHonest` (every message of a
  pending page was given to its reader, so that a mark may be written later). `InboxInv` joins
  them. `HandledNeverRegressesThm` follows from it: acknowledgements, reads marked late and deletions
  in batches only raise what counts as handled, until another session holds the address. `InboxImplementsParticipants` shows that the composition implements `Spec` of
  Participants, so its theorems hold of inboxes with their holders.
* `WorkProofs`, of work items. `WorkInv` joins the properties with what they rest on. `CountedItems`
  (ids above the counter are free) makes a create meet no bundle; `RecordedIfNoticed` ties the
  history of overdue events to the durable mark; `AppliedIsRetained` says that a key that took effect
  is retained or late, which is why neither expiry nor a removal lets a retry through.
  `StoreCompatible` is needed for itself: an update moves the two epochs together only if they
  agree. `EventStep` is the lemma for every step that writes one event; `StepIsOwnStep` shows that
  each step takes a claim, ends one or changes none, and disjointness follows in `Ownership`,
  since conflicts are symmetric. `Overlaps` stays abstract in its prefix test. From it:
  `WorkTypes`, `ClaimsStayDisjoint`, `StoreStaysCompatible`, `KeysApplyOnce`, `OverdueOnce` and the
  refinement `WorkImplementsOwnership`.
* `WorkProofs`, of the promised controls. `FundedInv` joins the credits of a live claim
  (`BundleFunded`) and of a report (`ItemFunded`) with the ceilings as a control sees them. A
  transaction that writes ends with the check, so it keeps the ceilings by itself (`EnforcedFits`);
  the steps without a check only take away (`FewerFit`). Events and scope revisions are counted as
  sets of rows, so that a count needs no sum over the items: `RowsAre` and `OneMoreRow` follow from
  the library's theorems on cardinality. `ControlsFundedThm` says that the room is kept, and
  `PromisedControlsFit` that it is enough: what the end of a claim, the record of an overdue epoch or
  a verdict writes passes the check in every state with `WorkInv` and `FundedInv`.
* `WorkProofs`, of the storage boundary. `Solvent` needs `TxSound`: an open transaction started from
  the committed pages and debt with an empty log, and its debt is what it spent and promised. From
  `StorageInv`: `SolventThm`, `FundedNeverRefusedThm`, `WritesStartFromEmptyLogThm`.
* `WakeProofs`, of the worker. `SubmissionSound` needs `BatchStillTrue` (from the decision to the
  call the lock keeps the holder and the acknowledgements of the batch) and `DueUntilMarked` (what
  was picked as due can only be read before it is marked). `FailedAfterNotices` needs
  `CountedWentOut`: no more notices are counted than may have reached this holder, and one more may
  have than is counted while the result of a call that reached it is not recorded yet.
* `WakeProofs`, of notices about work. `QuietPassTellsAll` is about a pass of many transactions that
  no event disturbed: `ScannedIsCurrent` says that its heads are those of the retained events, and
  `DoneIsTold` that what the pass has not left to do it has done. The last event of an item is a
  maximum over a finite set, which the lemmas take from the library's theorems on finite sets and on
  well-founded relations.
* `AgentsProofs`. `NothingTakenUnmarked` needs that the purge lock keeps the mark from its reading to
  the release of the claim (`LockKeepsMark`). `NoticesSound` needs, for the verdicts, what has left
  the worker at each step (`NothingLeft`, `NoOtherPrompt`: after the look only this attempt adds a
  prompt of its text) and, for a hidden Codex thread, the order of the clock's readings
  (`NoticeClock`, `HiddenIsUnproven`). `KeysSafe` is proved over the programs of keys of all families
  at once: `ProgramTable` says which key stands where, and `NotTypedYet`, `OursNotRun`, `ErasedNotRun`
  and `AnsweredLast` say what the line can hold at each place; `LookStillTrue` carries what the look
  found to the key, for as long as neither the user nor a dialog touched the pane.
* `AgentsProofs`, of readings. `ReadingsInv` follows a reading from the log to the decision: a mark
  lies in this file or an earlier one, and at the end of this file it is that of its last reading
  (`MarkIsTrue`); no stored reading is newer than the last of the file (`NotNewer`, needed because a
  late report may confirm with the mark of an older reading); what is newer than a stored current
  reading was written after it was seen (`NewerSince`). The reader's pass over a batch of lines is a
  recursive function: `RunExists` and `ConsumeReads` reach every line of it by the least line at
  which they would fail, for want of induction. From it: `AdmittedOnCurrentThm` and
  `CompactsNewestThm`.
* `AgentsProofs`, of logs. A quiet answer is given only while the log is the one that the read began
  with, so `QuietIsTrue` comes down to what each family sees in a log of any length. `LogInv` says what
  it may rely on: the ready report is the second record, a later turn and what follows it carry no
  earlier time (`TurnsLater`), Grok's log still fits its window when a time went back
  (`BackInWindow`), and a turn begins when the compactions before it ended (`CompactionsEnd`). The
  first, last and newest record of a kind are maxima and minima of bounded sets (`MaxOf`, `MinOf`).
* `BoardsProofs`. `LoginsAreCurrent` needs `GateHeld` (a check that has begun and the login that it
  starts hold the gate that a change of the secret takes) and `LinksApart` (a one-time link is
  outstanding, consumed by one request, or at one login). `RoomsSound` needs `MembersSeeTheirs` and
  `AcceptedOnRecord` (the retry record of a post is kept until its deadline). `ArchiveSound` needs
  `MarkedLineIsCurrent`: a line that a mark names holds the item's history as it still is, so a crash
  between the append, the mark and the deletion loses nothing; and for the export, that its pages are
  `Given`, a set whose cardinality is what was sent, which is why no item comes twice.
* `BoardsProofs`, of memory. The idea of `MemoryInv` is `Shown(m, view, k)`: the view is that of a
  reader who has seen the entries up to `k`, in the store as it is now. It holds of each frozen
  snapshot at its head (`SnapsGood`), of a consumer at its cursor and, once it was told a delta, at
  the delta's end (`PlaceGood`), so an acknowledgement, a lost reply or a cut leaves it at one of the
  two; what it holds of a snapshot are the pages up to its token (`PagesGood`). `ShownLater` carries
  `Shown` from a store to any later one. `EntriesGood` (above the floor every entry is there, and a
  target carries the number of its first replacement) then gives `CaughtUpIsCurrentThm`: a cursor at
  or above the floor with nothing after it has missed no replacement. A handler is a list of stores,
  one for each of its transactions, and `FitAnswer` says that each of them is good.
* `HostsProofs`. `LeaseInv`: a finished sweep that did not miss its host leaves a lease that lasts
  until the next one (`SweptIsSafe`), and what a sweep read is still there or was renewed since (`SweepInTime`); from it
  `RunningNeverLapsesThm` and `LeaseEndsWithHostThm`. `SetupInv`: what each command between its read and its save is about to write, and that
  the record of a wrapped status line restores the person's entry. `UpgradeInv`: what a run holds in
  memory against the journal that a kill leaves; that after a capture no memory store is written, and
  no store at all unless a process started under the marker (`CaptureIsCurrent`); and that this is
  carried to the swap and past it (`SwappedIsImported`, `RemovedIsImported`). `InstallInv` and `SystemInv`: the daemon or the link that the command under way
  is responsible for, and the stages of the rollback (`UndoStages`).
* `CycleProofs`. Each actor of a cycle works on a row that it read earlier. `CycleRowsInv` says of each
  such row that it is an earlier one or equal to the stored one, so what passes the revision's fence is
  the stored row; with the lock's owner this gives `PaneQuietThm` and `RetryAfterReadThm`.
  `CycleInputsInv` says for each stage which inputs are made, which are not yet, and which may have an
  effect that no row records, and that an input under way belongs to the stored row or to a cycle
  that ended without a claim about it; it gives `InputMadeOnceThm` and `OutcomesSoundThm`.

The proof of `RetryAfterRead` corrected the property: it had demanded a read of the inbox before the
retry of a compaction too, which asks for no handoff, and the bound on cycles had hidden that two
compactions in a row refute it. The proof of `ControlsFunded` made the end credit of every live
claim part of the property, and that of `QuietIsTrue` found two guards of `Times` that overlapped,
so that the times of a turn were not determined for one family. Three assumptions were added for the
proofs, all about what the code has by construction: the roles that get notices are a finite set, no
client of a login is named like a change of the secret, the other owner of the gate, and no consumer
of memory has the empty name, which marks the place of a deleted snapshot.

Proved and not part of a run: `ConflictMeansUnheld`, `FormerIsFenced`, `FenceLiftedByChoice`,
`Solvent`, `WritesStartFromEmptyLog` and the type invariants.

Only model-checked are the liveness properties (`SoleQualifierHolds`, `CycleEnds`,
`EventuallySettled`, `SweepsInTheEnd`), which need fairness and ENABLED. Every invariant and action
property of a passing run is a theorem.

## Plan

1. Done: the modules above, model-checked, and a theorem for every safety property of a run.
2. More about the proved modules: that what was promised is never refused, as `PromisedControlsFit`
   says of work, and the orders of steps that the liveness properties rest on, as action properties.
3. The places of a wake pass: 16 inboxes in key order, and whether an inbox can be passed over.
4. `Work` further: role claims and native sessions, the limits over all stores.

## Not modelled

Presentation (dashboard, library, command line), HTTP decoding and dispatch, schema migrations,
the conversion of imported data, the parsing of screens and records, and terminal names: they are
I/O or pure conversion whose results the models take as any answer. SQLite, launchd, systemd, tmux
and the agent programs are external; the models take what the code can see of them. The 16 places
of a wake pass (wake.go:445) need more inboxes than an instance can hold.
