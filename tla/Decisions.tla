----------------------------- MODULE Decisions -----------------------------
(***************************************************************************)
(* The decision board (internal/core/decisions.go, decision_verdicts.go),  *)
(* the sweep that moves archived items into the deep archive and the       *)
(* restore that brings them back (decision_archive.go), and the paged      *)
(* export (decision_export.go).                                            *)
(*                                                                         *)
(* An item's rows are one record; its text, recipients and keys are left   *)
(* out, and one delivery stands for those of a verdict.  Each transaction  *)
(* is one step.  The sweep, under its mutex, and a restore take several,   *)
(* so every other operation can come in between; an error or a stop of the *)
(* daemon ends a sweep anywhere.  The monthly log is a sequence of lines,  *)
(* an offset is a line's place in it, and a line cut short is Partial.     *)
(***************************************************************************)
EXTENDS Naturals, Sequences, FiniteSets
LOCAL INSTANCE FiniteSetsExt

CONSTANTS
    MaxItems,         \* bound: items created; item i has reference i
    MaxRevision,      \* bound: revisions of an item
    MaxLines,         \* bound: lines of the deep-archive log
    MaxFailures,      \* bound: writes refused for capacity and sweeps cut short
    MaxRestores,      \* bound: restores at a time
    MaxBoardOps       \* bound: operations of agents and of the maintainer

ASSUME DecisionsAssumption ==
    /\ MaxItems \in Nat /\ MaxRevision \in Nat /\ MaxLines \in Nat
    /\ MaxFailures \in Nat /\ MaxRestores \in Nat /\ MaxBoardOps \in Nat

VARIABLES
    items,       \* decision_items and its tables: the rows of each item, or NoRows
    deep,        \* decision_deep_archive: the offset of each moved item's line, or 0
    lines,       \* the deep-archive log
    sweep,       \* the running sweep
    restores,    \* restores that have read their line and not yet written
    export,      \* the client that exports the board
    removed,     \* history: the rows of each item as its move deleted them
    failures,    \* refused writes and cut sweeps so far
    ops          \* operations of agents and of the maintainer so far

boardVars == <<items, deep, lines, sweep, restores, export, removed, failures, ops>>

Items == 1..MaxItems
NoRows == [state |-> "none"]
NoMark == [revision |-> 0, offset |-> 0]
NoExport == [phase |-> "", after |-> 0, got |-> <<>>]
Partial == [id |-> 0, revision |-> 0, rows |-> NoRows]
Exists(i) == items[i] # NoRows

\* Odd items are decisions and even ones fyi items: a task differs from a decision
\* only in the name of the verdict that archives it.
KindVerdicts(i) == IF i % 2 = 1 THEN {"approved", "declined", "feedback"} ELSE {"acknowledged"}

VerdictState(v) ==
    CASE v = "approved" -> "in_progress"
      [] v = "feedback" -> "returned"
      [] OTHER -> "archived"

\* No verdict of the history stays current.
Superseded(verdicts) == [k \in DOMAIN verdicts |-> [verdicts[k] EXCEPT !.over = TRUE]]
Queued(i) == \E k \in DOMAIN items[i].verdicts : items[i].verdicts[k].sent = "queued"

\* A change of the board: the next page of a running export names another version, so
\* its client starts again.
BumpChange == export' = NoExport

SetItem(i, rows) == items' = [items EXCEPT ![i] = rows]
BoardOp == ops < MaxBoardOps /\ ops' = ops + 1

-----------------------------------------------------------------------------
(* The operations of agents and of the maintainer; each names the revision it read *)

DecisionCreate(i) ==
    /\ ~Exists(i) /\ deep[i] = 0
    /\ \A j \in Items : j < i => Exists(j) \/ deep[j] # 0
    /\ SetItem(i, [state |-> "active", revision |-> 1, verdicts |-> <<>>, withdrawn |-> "no",
                   aged |-> FALSE, mark |-> NoMark])
    /\ BumpChange
    /\ BoardOp
    /\ UNCHANGED <<deep, lines, sweep, restores, removed, failures>>

\* An edit of an item that is not active reopens it and ends its withdrawal.
EditedRows(r) ==
    IF r.state = "active" THEN [r EXCEPT !.revision = @ + 1]
    ELSE [r EXCEPT !.revision = @ + 1, !.state = "active", !.aged = FALSE, !.mark = NoMark,
                   !.verdicts = Superseded(r.verdicts),
                   !.withdrawn = IF r.withdrawn = "open" THEN "ended" ELSE r.withdrawn]

DecisionEdit(i) ==
    /\ Exists(i) /\ items[i].revision < MaxRevision
    /\ SetItem(i, EditedRows(items[i]))
    /\ BumpChange
    /\ BoardOp
    /\ UNCHANGED <<deep, lines, sweep, restores, removed, failures>>

\* deliverVerdict: a recipient whose name is unknown or inactive is skipped.
DeliverVerdict == {"queued", "skipped"}

DecisionVerdict(i, v) ==
    /\ Exists(i) /\ items[i].state = "active" /\ v \in KindVerdicts(i)
    /\ \E sent \in DeliverVerdict :
        SetItem(i, [items[i] EXCEPT
            !.state = VerdictState(v), !.aged = FALSE, !.mark = NoMark,
            !.verdicts = Append(@, [revision |-> items[i].revision, verdict |-> v,
                                    over |-> FALSE, sent |-> sent])])
    /\ BumpChange
    /\ BoardOp
    /\ UNCHANGED <<deep, lines, sweep, restores, removed, failures>>

DecisionAck(i, k) ==
    /\ Exists(i) /\ k \in DOMAIN items[i].verdicts /\ items[i].verdicts[k].sent = "queued"
    /\ SetItem(i, [items[i] EXCEPT !.verdicts[k].sent = "acknowledged"])
    /\ BoardOp
    /\ UNCHANGED <<deep, lines, sweep, restores, export, removed, failures>>

DecisionClose(i) ==
    /\ Exists(i) /\ items[i].state = "in_progress"
    /\ SetItem(i, [items[i] EXCEPT !.state = "archived", !.aged = FALSE])
    /\ BumpChange
    /\ BoardOp
    /\ UNCHANGED <<deep, lines, sweep, restores, removed, failures>>

DecisionWithdraw(i) ==
    /\ Exists(i) /\ items[i].state \in {"active", "returned"}
    /\ SetItem(i, [items[i] EXCEPT !.state = "archived", !.aged = FALSE, !.withdrawn = "open",
                                   !.verdicts = Superseded(@)])
    /\ BumpChange
    /\ BoardOp
    /\ UNCHANGED <<deep, lines, sweep, restores, removed, failures>>

\* A restore first tries to reopen an archived item that an agent withdrew.
ReopenWithdrawn(i) ==
    /\ Exists(i) /\ items[i].state = "archived" /\ items[i].withdrawn = "open"
    /\ items[i].revision < MaxRevision
    /\ SetItem(i, [items[i] EXCEPT !.state = "active", !.aged = FALSE, !.mark = NoMark,
                                   !.revision = @ + 1, !.withdrawn = "ended"])
    /\ BumpChange
    /\ BoardOp
    /\ UNCHANGED <<deep, lines, sweep, restores, removed, failures>>

\* 30 days pass: every archived item is old enough for the sweep.
DecisionsAge ==
    /\ \E i \in Items : Exists(i) /\ items[i].state = "archived" /\ ~items[i].aged
    /\ items' = [i \in Items |-> IF Exists(i) /\ items[i].state = "archived"
                                 THEN [items[i] EXCEPT !.aged = TRUE] ELSE items[i]]
    /\ UNCHANGED <<deep, lines, sweep, restores, export, removed, failures, ops>>

-----------------------------------------------------------------------------
(* The sweep: archiveDecisions, moveDecision, finishMove, deleteMoved *)

SweepIdle == [at |-> "idle", left |-> <<>>, offset |-> 0, mark |-> NoMark, rows |-> NoRows]
SweepItem == Head(sweep.left)
InOrder(S) == CHOOSE q \in [1..Cardinality(S) -> S] : \A a, b \in DOMAIN q : a < b => q[a] < q[b]

\* The item's turn of the sweep is over; the next item of the same loop follows.
SweepOn(stage) == sweep' = [SweepIdle EXCEPT !.at = stage, !.left = Tail(sweep.left)]
StageOf == IF sweep.mark = NoMark THEN "move" ELSE "finish"

\* readDecisionRecord: every row of the item, as it is now.
ReadDecisionRecord(i) == [items[i] EXCEPT !.mark = NoMark, !.aged = FALSE]

\* The end of the log.  A partial line before it gets its newline.
OpenDecisionLog == Len(lines) + 1

ArchiveStart ==
    /\ sweep.at = "idle"
    /\ \E i \in Items : Exists(i) /\ items[i].state = "archived" /\ items[i].aged
    /\ sweep' = [SweepIdle EXCEPT !.at = "finish",
                   !.left = InOrder({i \in Items : Exists(i) /\ items[i].mark # NoMark})]
    /\ UNCHANGED <<items, deep, lines, restores, export, removed, failures, ops>>

\* The marked moves are finished: the sweep reads its candidates.
ArchiveCandidates ==
    /\ sweep.at = "finish" /\ sweep.left = <<>>
    /\ sweep' = [SweepIdle EXCEPT !.at = "move",
                   !.left = InOrder({i \in Items : Exists(i) /\ items[i].state = "archived"
                                                              /\ items[i].aged})]
    /\ UNCHANGED <<items, deep, lines, restores, export, removed, failures, ops>>

ArchiveEnd ==
    /\ sweep.at = "move" /\ sweep.left = <<>>
    /\ sweep' = SweepIdle
    /\ UNCHANGED <<items, deep, lines, restores, export, removed, failures, ops>>

\* A candidate with a queued delivery waits for its acknowledgement.
ArchivePick ==
    /\ sweep.at = "move" /\ sweep.left # <<>>
    /\ IF Exists(SweepItem) /\ Queued(SweepItem)
       THEN SweepOn("move")
       ELSE sweep' = [sweep EXCEPT !.at = "mark", !.offset = OpenDecisionLog]
    /\ UNCHANGED <<items, deep, lines, restores, export, removed, failures, ops>>

\* moveDecision's first transaction.
MoveDecision ==
    /\ sweep.at = "mark"
    /\ IF Exists(SweepItem) /\ items[SweepItem].state = "archived" /\ items[SweepItem].mark = NoMark
       THEN /\ SetItem(SweepItem, [items[SweepItem] EXCEPT
                !.mark = [revision |-> items[SweepItem].revision, offset |-> sweep.offset]])
            /\ sweep' = [sweep EXCEPT !.at = "read"]
       ELSE SweepOn("move") /\ UNCHANGED items
    /\ UNCHANGED <<deep, lines, restores, export, removed, failures, ops>>

ArchiveRead ==
    /\ sweep.at = "read" /\ Exists(SweepItem)
    /\ sweep' = [sweep EXCEPT !.at = "append", !.rows = ReadDecisionRecord(SweepItem)]
    /\ UNCHANGED <<items, deep, lines, restores, export, removed, failures, ops>>

LineOf(i, rows) == [id |-> i, revision |-> rows.revision, rows |-> rows]

AppendAndDelete ==
    /\ sweep.at = "append" /\ Len(lines) < MaxLines
    /\ lines' = Append(lines, LineOf(SweepItem, sweep.rows))
    /\ sweep' = [sweep EXCEPT !.at = "delete"]
    /\ UNCHANGED <<items, deep, restores, export, removed, failures, ops>>

\* Mutant of StillMarked: the rows are deleted while the item is archived.
StillMarkedAnyRevision(i) == Exists(i) /\ items[i].state = "archived"

\* deleteMoved's guard: the revision, the state and the mark of the line.
StillMarked(i) ==
    /\ Exists(i) /\ items[i].state = "archived" /\ items[i].revision = sweep.rows.revision
    /\ items[i].mark = [revision |-> sweep.rows.revision, offset |-> sweep.offset]

MovedBump == BumpChange

DeleteMoved ==
    /\ sweep.at = "delete"
    /\ IF StillMarked(SweepItem)
       THEN /\ SetItem(SweepItem, NoRows)
            /\ deep' = [deep EXCEPT ![SweepItem] = sweep.offset]
            /\ removed' = [removed EXCEPT ![SweepItem] = ReadDecisionRecord(SweepItem)]
            /\ MovedBump
       ELSE UNCHANGED <<items, deep, removed, export>>
    /\ SweepOn(StageOf)
    /\ UNCHANGED <<lines, restores, failures, ops>>

\* readDecisionLine: a complete line of the log, or none.
ReadDecisionLine(offset) == IF offset \in DOMAIN lines THEN lines[offset] ELSE Partial

LineFinishes(i) ==
    LET line == ReadDecisionLine(items[i].mark.offset) IN
    line.id = i /\ line.revision = items[i].mark.revision

\* finishMove reads the mark and the line it names.
FinishMove ==
    /\ sweep.at = "finish" /\ sweep.left # <<>>
    /\ IF ~Exists(SweepItem) \/ items[SweepItem].mark = NoMark
       THEN SweepOn("finish")
       ELSE sweep' = IF LineFinishes(SweepItem)
                     THEN [sweep EXCEPT !.at = "delete", !.mark = items[SweepItem].mark,
                             !.offset = items[SweepItem].mark.offset,
                             !.rows = [revision |-> items[SweepItem].mark.revision]]
                     ELSE [sweep EXCEPT !.at = "remark", !.mark = items[SweepItem].mark,
                             !.offset = OpenDecisionLog]
    /\ UNCHANGED <<items, deep, lines, restores, export, removed, failures, ops>>

\* Without its line the move is marked again at the end of the log.
FinishRemark ==
    /\ sweep.at = "remark"
    /\ IF Exists(SweepItem) /\ items[SweepItem].mark = sweep.mark
       THEN /\ SetItem(SweepItem, [items[SweepItem] EXCEPT !.mark.offset = sweep.offset])
            /\ sweep' = [sweep EXCEPT !.at = "read"]
       ELSE SweepOn("finish") /\ UNCHANGED items
    /\ UNCHANGED <<deep, lines, restores, export, removed, failures, ops>>

\* The store is full: the item keeps its rows and mark, and the sweep goes on.
SweepRefused ==
    /\ sweep.at \in {"mark", "remark", "delete"} /\ failures < MaxFailures
    /\ SweepOn(StageOf)
    /\ failures' = failures + 1
    /\ UNCHANGED <<items, deep, lines, restores, export, removed, ops>>

\* An error or a stop of the daemon ends the sweep.  A write that it cuts short
\* leaves nothing, a part of the line or, before the sync, all of it.
SweepCut ==
    /\ sweep.at # "idle" /\ failures < MaxFailures
    /\ \/ UNCHANGED lines
       \/ /\ sweep.at = "append" /\ Len(lines) < MaxLines
          /\ \E line \in {Partial, LineOf(SweepItem, sweep.rows)} : lines' = Append(lines, line)
    /\ sweep' = SweepIdle
    /\ failures' = failures + 1
    /\ UNCHANGED <<items, deep, restores, export, removed, ops>>

-----------------------------------------------------------------------------
(* The restore of a moved item, in two steps *)

RestoreRead(i) ==
    /\ deep[i] # 0
    /\ ReadDecisionLine(deep[i]).id = i
    /\ LET free == (1..MaxRestores) \ {r.call : r \in restores}
       IN /\ free # {}
          /\ restores' = restores \cup {[call |-> Min(free), id |-> i, offset |-> deep[i],
                                         rows |-> ReadDecisionLine(deep[i]).rows]}
    /\ BoardOp
    /\ UNCHANGED <<items, deep, lines, sweep, export, removed, failures>>

\* A locator that another restore took, or that a later move wrote, refuses this one.
SameLocator(r) == deep[r.id] = r.offset

DecisionRestore(r) ==
    /\ IF SameLocator(r)
       THEN /\ deep' = [deep EXCEPT ![r.id] = 0]
            /\ SetItem(r.id, [r.rows EXCEPT !.state = "archived"])
            /\ BumpChange
       ELSE UNCHANGED <<items, deep, export>>
    /\ restores' = restores \ {r}
    /\ UNCHANGED <<lines, sweep, removed, failures, ops>>

-----------------------------------------------------------------------------
(* The export: the moved items by reference, then the live ones by ID, a page each *)

DecisionExport ==
    LET next == IF export.phase = "deep" THEN {i \in Items : i > export.after /\ deep[i] # 0}
                ELSE {i \in Items : i > export.after /\ Exists(i)}
    IN
    /\ export.phase # "done"
    /\ export' =
        CASE export.phase = "" -> [NoExport EXCEPT !.phase = "deep"]
          [] export.phase # "" /\ next # {} ->
                [export EXCEPT !.after = Min(next), !.got = Append(@, Min(next))]
          [] export.phase = "deep" /\ next = {} -> [export EXCEPT !.phase = "live", !.after = 0]
          [] export.phase = "live" /\ next = {} -> [export EXCEPT !.phase = "done", !.after = 0]
    /\ UNCHANGED <<items, deep, lines, sweep, restores, removed, failures, ops>>

-----------------------------------------------------------------------------

DecisionsInit ==
    /\ items = [i \in Items |-> NoRows]
    /\ deep = [i \in Items |-> 0]
    /\ lines = <<>>
    /\ sweep = SweepIdle
    /\ restores = {}
    /\ export = NoExport
    /\ removed = [i \in Items |-> NoRows]
    /\ failures = 0
    /\ ops = 0

DecisionsNext ==
    \/ \E i \in Items :
        \/ DecisionCreate(i) \/ DecisionEdit(i) \/ DecisionClose(i) \/ DecisionWithdraw(i)
        \/ ReopenWithdrawn(i) \/ RestoreRead(i)
        \/ \E v \in KindVerdicts(i) : DecisionVerdict(i, v)
        \/ \E k \in 1..MaxRevision : DecisionAck(i, k)
    \/ DecisionsAge
    \/ ArchiveStart \/ ArchiveCandidates \/ ArchiveEnd \/ ArchivePick \/ MoveDecision
    \/ ArchiveRead \/ AppendAndDelete \/ DeleteMoved \/ FinishMove \/ FinishRemark
    \/ SweepRefused \/ SweepCut
    \/ \E r \in restores : DecisionRestore(r)
    \/ DecisionExport

DecisionsSpec == DecisionsInit /\ [][DecisionsNext]_boardVars

-----------------------------------------------------------------------------
(* Properties *)

\* The history of an item without the outcomes of its deliveries.
History(r) ==
    [revision |-> r.revision, withdrawn |-> r.withdrawn,
     verdicts |-> [k \in DOMAIN r.verdicts |->
                    <<r.verdicts[k].revision, r.verdicts[k].verdict, r.verdicts[k].over>>]]

\* A moved item is never lost or mixed up: it has its rows or its locator, never both, and
\* the locator names a complete line of the log that holds the item with the revision,
\* verdicts and withdrawals its rows had when the move deleted them, whatever edits,
\* verdicts, restores, refused writes and crashes came between the move's transactions.
MovedItemIsKept ==
    \A i \in Items : deep[i] # 0 =>
        /\ ~Exists(i)
        /\ ReadDecisionLine(deep[i]).id = i
        /\ History(ReadDecisionLine(deep[i]).rows) = History(removed[i])

\* A client whose pages all name one version of the board has every item exactly once,
\* although moves and restores carry items between the two phases of the export.
StableExportIsComplete ==
    export.phase = "done" =>
        /\ {export.got[k] : k \in DOMAIN export.got} = {i \in Items : Exists(i) \/ deep[i] # 0}
        /\ Len(export.got) = Cardinality({i \in Items : Exists(i) \/ deep[i] # 0})

\* PROTOCOL.md on the sweep: it moves an item "once every delivery is acknowledged or
\* skipped".  archiveDecisions reads the deliveries before the transaction that marks
\* the item, which does not read them again.
QueuedItemStays ==
    \A i \in Items : deep[i] # 0 =>
        \A k \in DOMAIN ReadDecisionLine(deep[i]).rows.verdicts :
            ReadDecisionLine(deep[i]).rows.verdicts[k].sent # "queued"

\* The archive as its readers see it: by a locator, and by an export that saw one version
\* of the board (moveDecision, DecisionsExport).
ArchiveSound == MovedItemIsKept /\ StableExportIsComplete
=============================================================================
