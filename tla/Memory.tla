------------------------------- MODULE Memory -------------------------------
(***************************************************************************)
(* The memory store of a repository (internal/core/memory.go): entries in  *)
(* sequence, which supersede or revoke earlier ones and may expire, and    *)
(* the cursor of each consumer, which it moves by acknowledging a frozen   *)
(* snapshot read page by page, or a delta.                                 *)
(*                                                                         *)
(* s.memory.op makes the handlers atomic among each other; each is several *)
(* transactions, a stop of the daemon ends it after any of them, and its   *)
(* reply can be lost.  Pages hold one entry.  The store's limits on        *)
(* entries and bytes are those of module Work; the frozen views of work    *)
(* items in a snapshot are left out.                                       *)
(***************************************************************************)
EXTENDS Naturals, Sequences, FiniteSets
LOCAL INSTANCE FiniteSetsExt

CONSTANTS
    MemoryConsumers,
    MaxHead,        \* bound: entries recorded
    MaxSnapshots,   \* bound: snapshots frozen
    MaxCuts,        \* bound: calls cut short, replies lost and lifetimes passed
    SnapshotsPerConsumer,
    MemoryTail      \* memoryTails: status entries that a snapshot keeps

ASSUME MemoryAssumption ==
    /\ MaxHead \in Nat /\ MaxSnapshots \in Nat /\ MaxCuts \in Nat
    /\ SnapshotsPerConsumer \in Nat /\ MemoryTail \in Nat
    /\ "" \notin MemoryConsumers     \* memory.go:171

VARIABLES
    mem,        \* the store's rows: head, floor, entries, cursors and retired ones, snapshots
    told,       \* world: what each consumer was told, and the snapshot it pages through
    cuts        \* calls cut short and lifetimes passed so far

memVars == <<mem, told, cuts>>

NoCursor == [state |-> "none", seq |-> 0, issued |-> 0, snap |-> 0, boot |-> FALSE,
             resnap |-> FALSE, old |-> FALSE]

\* The row of a snapshot that expired is deleted; its ID is not used again.
NoSnapshot == [consumer |-> "", head |-> 0, items |-> <<>>, issued |-> 0, acked |-> FALSE,
               old |-> TRUE]

\* Times are compared with one clock each: "old" is past the row's lifetime.
Live(m) == {e \in m.entries : e.by = 0 /\ e.expires # "past"}
After(m, seq) == {e.seq : e \in {x \in m.entries : x.seq > seq}}
EntryOf(m, q) == CHOOSE e \in m.entries : e.seq = q
Owned(m, c, id) == id \in DOMAIN m.snaps /\ m.snaps[id].consumer = c
Expired(m, id) == ~m.snaps[id].acked /\ m.snaps[id].old

-----------------------------------------------------------------------------
(* The transactions of the handlers, as functions of the store *)

WithCursor(m, c, x) == [m EXCEPT !.cur = [k \in DOMAIN m.cur |-> IF k = c THEN x ELSE m.cur[k]]]
WithSnap(m, id, x) == [m EXCEPT !.snaps = [i \in DOMAIN m.snaps |-> IF i = id THEN x ELSE m.snaps[i]]]

\* Mutant of RaiseFloor: an expired entry leaves the floor alone.
RaiseFloorNever(m, gone) == m.floor

RaiseFloor(m, gone) == Max({m.floor} \cup {e.seq : e \in gone})

ExpireEntries(m) ==
    LET gone == {e \in m.entries : e.expires = "past"}
    IN [m EXCEPT !.entries = @ \ gone, !.floor = RaiseFloor(m, gone)]

\* Snapshots past their lifetime, tombstones, and cursors that no one used.
ExpireRows(m) ==
    LET snap(x) == IF x.old THEN NoSnapshot ELSE x
        cursor(x) == IF ~x.old THEN x
                     ELSE IF x.state = "on" THEN [NoCursor EXCEPT !.state = "retired"] ELSE NoCursor
    IN [m EXCEPT !.snaps = [i \in DOMAIN m.snaps |-> snap(m.snaps[i])],
                 !.cur = [c \in DOMAIN m.cur |-> cursor(m.cur[c])]]

RegisterConsumer(m, c) ==
    IF m.cur[c].state = "none" THEN WithCursor(m, c, [NoCursor EXCEPT !.state = "on"]) ELSE m

Touch(m, c) == WithCursor(m, c, [m.cur[c] EXCEPT !.old = FALSE])

\* The obligation to finish a snapshot stays; only the unusable snapshot goes.
DropSnapshot(m, c) ==
    LET id == m.cur[c].snap
    IN IF id # 0 /\ (~Owned(m, c, id) \/ Expired(m, id))
       THEN WithCursor(m, c, [m.cur[c] EXCEPT !.snap = 0, !.resnap = TRUE]) ELSE m

NeedsSnapshot(m, c) ==
    m.cur[c].snap # 0 \/ m.cur[c].resnap \/ ~m.cur[c].boot \/ m.cur[c].seq < m.floor

SnapshotCapacity(m, c) ==
    Cardinality({i \in DOMAIN m.snaps : Owned(m, c, i) /\ ~m.snaps[i].old}) >= SnapshotsPerConsumer

NewestFirst(T) == CHOOSE s \in [1 .. Cardinality(T) -> T] : \A i, j \in DOMAIN s : i < j => s[i] > s[j]

LiveSeqs(m, type) == {e.seq : e \in {x \in Live(m) : x.type = type}}

\* Notes first, newest first, then the newest status entries.
Members(m) ==
    LET tail == NewestFirst(LiveSeqs(m, "status"))
    IN NewestFirst(LiveSeqs(m, "note")) \o SubSeq(tail, 1, Min({MemoryTail, Len(tail)}))

Freeze(m, c) ==
    LET frozen == [consumer |-> c, head |-> m.head, items |-> Members(m), issued |-> 0,
                   acked |-> FALSE, old |-> FALSE]
    IN WithCursor([m EXCEPT !.snaps = Append(m.snaps, frozen)], c,
                  [m.cur[c] EXCEPT !.snap = Len(m.snaps) + 1])

IssuePage(m, id, token) ==
    LET next == Min({token + 1, Len(m.snaps[id].items)})
    IN WithSnap(m, id, [m.snaps[id] EXCEPT !.issued = Max({m.snaps[id].issued, next})])

DeltaEnd(m, c) == IF After(m, m.cur[c].seq) = {} THEN m.cur[c].seq ELSE Min(After(m, m.cur[c].seq))

IssueDelta(m, c) == WithCursor(m, c, [m.cur[c] EXCEPT !.issued = Max({m.cur[c].issued, DeltaEnd(m, c)})])

AckSnapshot(m, c, id) ==
    LET head == m.snaps[id].head
    IN WithCursor(WithSnap(m, id, [m.snaps[id] EXCEPT !.acked = TRUE, !.old = FALSE]), c,
                  [m.cur[c] EXCEPT !.seq = head, !.issued = Max({m.cur[c].issued, head}),
                                   !.snap = 0, !.boot = TRUE, !.resnap = FALSE])

-----------------------------------------------------------------------------
(* The handlers: the store after each of their transactions, and the reply *)

\* maybeExpire, register and touch begin every call of a consumer.
Begun(c, due) ==
    LET a == ExpireEntries(mem)
        b == ExpireRows(a)
        m == IF due THEN b ELSE mem
        opened == IF m.cur[c].state = "retired" THEN <<>> ELSE <<RegisterConsumer(m, c), Touch(RegisterConsumer(m, c), c)>>
    IN (IF due THEN <<a, b>> ELSE <<mem>>) \o opened

\* The store when every transaction has committed.
Final(states) == states[Len(states)]

Answer(states, reply) == [states |-> states, reply |-> reply]
Error == [kind |-> "error"]

\* snapshotPage: a page of the consumer's current snapshot, in order.
SnapshotPage(m, c, sid, token, before) ==
    LET id == m.cur[c].snap
        now == IssuePage(m, id, token)
        next == Min({token + 1, Len(m.snaps[id].items)})
    IN IF \/ sid # 0 /\ sid # id
          \/ token # 0 /\ sid = 0
          \/ token > m.snaps[id].issued THEN Answer(before, Error)
       ELSE Answer(Append(before, now),
                   [kind |-> "page", id |-> id, token |-> token, next |-> next,
                    seqs |-> {m.snaps[id].items[i] : i \in (token + 1) .. next},
                    more |-> next < Len(m.snaps[id].items)])

Delta(m, c, before) ==
    Answer(Append(before, IssueDelta(m, c)),
           [kind |-> "delta", seqs |-> {q \in {DeltaEnd(m, c)} : q > m.cur[c].seq},
            next |-> DeltaEnd(m, c)])

SyncAnswer(c, sid, token, due) ==
    LET begun == Begun(c, due)
        m == DropSnapshot(Final(begun), c)
        f == IF m.cur[c].snap = 0 THEN Freeze(m, c) ELSE m
        states == begun \o <<m, f>>
    IN IF Final(begun).cur[c].state = "retired" THEN Answer(begun, Error)
       ELSE IF ~NeedsSnapshot(m, c) THEN Delta(m, c, Append(begun, m))
       ELSE IF m.cur[c].snap = 0 /\ (SnapshotCapacity(m, c) \/ Len(m.snaps) = MaxSnapshots)
            THEN Answer(Append(begun, m), Error)
       ELSE SnapshotPage(f, c, sid, token, states)

AckSnapshotOK(m, c, id) ==
    /\ m.cur[c].snap = id /\ ~Expired(m, id)
    /\ m.snaps[id].issued = Len(m.snaps[id].items)

AckAnswer(c, sid, through, due) ==
    LET begun == Begun(c, due)
        m == Final(begun)
        cu == m.cur[c]
    IN IF cu.state = "retired" THEN Answer(begun, Error)
       ELSE IF sid # 0
            THEN IF ~Owned(m, c, sid) THEN Answer(begun, Error)
                 ELSE IF m.snaps[sid].acked THEN Answer(begun, [kind |-> "acked"])
                 ELSE IF ~AckSnapshotOK(m, c, sid) THEN Answer(begun, Error)
                 ELSE Answer(Append(begun, AckSnapshot(m, c, sid)), [kind |-> "acked"])
       ELSE IF cu.snap # 0 \/ cu.resnap \/ ~cu.boot \/ through > cu.issued THEN Answer(begun, Error)
       ELSE IF through < cu.seq THEN Answer(begun, [kind |-> "acked"])
       ELSE Answer(Append(begun, WithCursor(m, c, [cu EXCEPT !.seq = through])), [kind |-> "acked"])

-----------------------------------------------------------------------------
(* Actions *)

NothingTold == [view |-> {}, got |-> {}, sid |-> 0, token |-> 0, done |-> FALSE, through |-> 0]

\* A consumer installs a snapshot when it has the last page, and a delta at once.
Learns(t, r) ==
    CASE r.kind = "page" ->
             LET got == (IF r.token = 0 THEN {} ELSE t.got) \cup r.seqs
             IN [view |-> IF r.more THEN t.view ELSE got, got |-> got,
                 sid |-> r.id, token |-> r.next, done |-> ~r.more, through |-> 0]
      [] r.kind = "delta" ->
             [NothingTold EXCEPT !.view = (t.view \cup r.seqs) \ {EntryOf(mem, q).target : q \in r.seqs},
                                 !.through = r.next]
      [] OTHER -> [NothingTold EXCEPT !.view = t.view]

\* The call commits all its transactions and the reply arrives or is lost; or the daemon
\* stops after one of them.
Handle(c, answer) ==
    \/ /\ mem' = Final(answer.states)
       /\ told' = [x \in MemoryConsumers |-> IF x = c THEN Learns(told[c], answer.reply) ELSE told[x]]
       /\ UNCHANGED cuts
    \/ /\ cuts < MaxCuts /\ cuts' = cuts + 1
       /\ mem' \in {answer.states[i] : i \in DOMAIN answer.states}
       /\ UNCHANGED told

\* A consumer asks for the next page, or begins again.
MemorySync(c, due) ==
    \E again \in BOOLEAN :
        Handle(c, IF again THEN SyncAnswer(c, 0, 0, due)
                  ELSE SyncAnswer(c, told[c].sid, told[c].token, due))

\* It acknowledges what it was told, once or again.
MemoryAck(c, due) ==
    /\ told[c].done \/ told[c].through > 0
    /\ Handle(c, AckAnswer(c, told[c].sid, told[c].through, due))

\* Only the first replacement marks its target; a competing one is kept as well.
MemoryRecord(type, target, expires, due) ==
    LET m == IF due THEN ExpireRows(ExpireEntries(mem)) ELSE mem
        seq == m.head + 1
        new == [seq |-> seq, type |-> type, target |-> target, by |-> 0, expires |-> expires]
        marked == {IF e.seq = target /\ e.by = 0 THEN [e EXCEPT !.by = seq] ELSE e : e \in m.entries}
    IN /\ mem.head < MaxHead
       /\ target = 0 \/ \E e \in m.entries : e.seq = target
       /\ mem' = [m EXCEPT !.head = seq, !.entries = marked \cup {new}]
       /\ UNCHANGED <<told, cuts>>

\* An expiry time, a snapshot's lifetime or a consumer's inactivity passes.
MemoryElapse ==
    /\ \/ \E e \in mem.entries :
             /\ e.expires = "ahead"
             /\ mem' = [mem EXCEPT !.entries = (@ \ {e}) \cup {[e EXCEPT !.expires = "past"]}]
       \/ \E i \in DOMAIN mem.snaps :
             /\ ~mem.snaps[i].old
             /\ mem' = [mem EXCEPT !.snaps[i].old = TRUE]
       \/ \E c \in MemoryConsumers :
             /\ ~mem.cur[c].old /\ mem.cur[c].state # "none"
             /\ mem' = [mem EXCEPT !.cur[c].old = TRUE]
    /\ cuts < MaxCuts /\ cuts' = cuts + 1
    /\ UNCHANGED told

MemoryInit ==
    /\ mem = [head |-> 0, floor |-> 0, entries |-> {}, snaps |-> <<>>,
              cur |-> [c \in MemoryConsumers |-> NoCursor]]
    /\ told = [c \in MemoryConsumers |-> NothingTold]
    /\ cuts = 0

MemoryNext ==
    \/ \E c \in MemoryConsumers, due \in BOOLEAN : MemorySync(c, due) \/ MemoryAck(c, due)
    \/ \E t \in {"note", "status"}, target \in 0 .. MaxHead, x \in {"never", "ahead"}, due \in BOOLEAN :
          MemoryRecord(t, target, x, due)
    \/ MemoryElapse

-----------------------------------------------------------------------------
(* Properties *)

MemorySpec == MemoryInit /\ [][MemoryNext]_memVars

(* A consumer whose next sync would be an empty delta has the store's      *)
(* current memory: what it was told and did not see expire or replaced is  *)
(* still live, and every live note was told to it; whatever entries        *)
(* superseded, revoked or expired, snapshots expired or were replaced,     *)
(* calls were cut short and replies lost meanwhile.                        *)
CaughtUpIsCurrent ==
    \A c \in MemoryConsumers :
        (/\ mem.cur[c].state = "on" /\ ~NeedsSnapshot(mem, c)
         /\ After(mem, mem.cur[c].seq) = {}) =>
            /\ \A e \in mem.entries : e.seq \in told[c].view => e \in Live(mem) \/ e.expires = "past"
            /\ \A e \in Live(mem) : e.type = "note" => e.seq \in told[c].view
=============================================================================
