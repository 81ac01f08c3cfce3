------------------------------ MODULE Storage ------------------------------
(***************************************************************************)
(* The storage boundary of the state database (internal/core/storage.go):  *)
(* one write at a time, a proof before each write that the write-ahead log *)
(* is empty, a page ceiling for each class of writes, and page credits     *)
(* that promised control writes are funded with.                           *)
(*                                                                         *)
(* The database is its page count, its free pages and its page debt; the   *)
(* log is the number of transactions in it.  SQLite is external: a vacuum  *)
(* returns the free pages, a commit may add up to CommitSlack pages that   *)
(* the count inside the transaction does not show, and a growth beyond     *)
(* MaxPages is refused as full.                                            *)
(***************************************************************************)
EXTENDS Integers

CONSTANTS
    MaxPages,           \* max_page_count of the engine
    ReservePages,       \* reservePages: kept from ordinary writes
    CommitSlack,        \* commitSlack
    AppendAllowance,    \* appendAllowance: room that admission asks for
    Credit,             \* the page credits of promised controls
    FirstPages,         \* pages of a new database
    MaxGrowth           \* bound: pages that one write takes or frees

ASSUME StorageAssumption ==
    /\ MaxPages \in Nat /\ ReservePages \in Nat /\ CommitSlack \in Nat
    /\ AppendAllowance \in Nat /\ MaxGrowth \in Nat
    /\ Credit \subseteq Nat
    /\ FirstPages \in 0..MaxPages

VARIABLES
    pages,      \* page_count
    free,       \* free pages of the file
    debt,       \* debtPages: the credits of the promised controls
    log,        \* transactions in the write-ahead log
    blocked,    \* storage.blocked is set
    tx,         \* the open write transaction
    step        \* the vacuum whose log proof is to come

storageVars == <<pages, free, debt, log, blocked, tx, step>>

Class == {"ordinary", "control"}

\* An open transaction has its own view of the pages and of the debt.
Tx == [open : BOOLEAN, class : Class, wrote : BOOLEAN,
       pages : Nat, free : Nat, debt : Nat, spent : Nat, added : Nat]

NoTx == [open |-> FALSE, class |-> "control", wrote |-> FALSE,
         pages |-> 0, free |-> 0, debt |-> 0, spent |-> 0, added |-> 0]

Opened(class, count, unused) ==
    [open |-> TRUE, class |-> class, wrote |-> FALSE,
     pages |-> count, free |-> unused, debt |-> debt, spent |-> 0, added |-> 0]

\* storage.mu is free.
Idle == ~tx.open /\ step = "none"

Ceiling(class) ==
    IF class = "control" THEN MaxPages - CommitSlack
    ELSE MaxPages - ReservePages - CommitSlack

\* The admission of an ordinary write.
AdmittedWrite(count) == count <= Ceiling("ordinary") - debt - AppendAllowance

-----------------------------------------------------------------------------
(* begin *)

\* enter: the log is proven empty, and an ordinary write is admitted.
Begin(class) ==
    /\ Idle /\ ~blocked
    /\ class = "ordinary" => AdmittedWrite(pages)
    /\ log' = 0
    /\ tx' = Opened(class, pages, free)
    /\ UNCHANGED <<pages, free, debt, blocked, step>>

\* The proof fails: every write is refused from now on.  (A proof that ended
\* with its request refuses that request and changes nothing.)
BeginFails ==
    /\ Idle /\ ~blocked
    /\ blocked' = TRUE
    /\ UNCHANGED <<pages, free, debt, log, tx, step>>

\* incremental_vacuum is a transaction of its own when it has pages to return.
Vacuum(before) ==
    /\ pages' = pages - free
    /\ free' = 0
    /\ log' = IF free > 0 THEN before + 1 ELSE before

\* An ordinary write that is not admitted reclaims, after the log proof.
BeginReclaim ==
    /\ Idle /\ ~blocked
    /\ ~AdmittedWrite(pages)
    /\ Vacuum(0)
    /\ step' = "admit"
    /\ UNCHANGED <<debt, blocked, tx>>

\* expireMemory ends with a reclaim of its own, under the lock.
MemoryReclaim ==
    /\ Idle /\ ~blocked
    /\ Vacuum(log)
    /\ step' = "memory"
    /\ UNCHANGED <<debt, blocked, tx>>

\* Recover proves the log empty before its vacuum.
Recover ==
    /\ Idle
    /\ Vacuum(0)
    /\ step' = "recover"
    /\ UNCHANGED <<debt, blocked, tx>>

\* The log proof after a vacuum: the write is admitted or refused, or the
\* recovery ends the block.
Proven ==
    /\ step # "none"
    /\ log' = 0
    /\ step' = "none"
    /\ tx' = IF step = "admit" /\ AdmittedWrite(pages) THEN Opened("ordinary", pages, free) ELSE tx
    /\ blocked' = IF step = "recover" THEN FALSE ELSE blocked
    /\ UNCHANGED <<pages, free, debt>>

\* It fails, or its request ends first and leaves the log as it is.
ProofFails(cancelled) ==
    /\ step # "none"
    /\ step' = "none"
    /\ blocked' = IF cancelled THEN blocked ELSE TRUE
    /\ UNCHANGED <<pages, free, debt, log, tx>>

-----------------------------------------------------------------------------
(* The transaction *)

\* The pages by which a write of n pages grows the file, and the free pages it
\* leaves.
Taken(n) == IF n > tx.free THEN n - tx.free ELSE 0
Unused(n, freed) == IF n > tx.free THEN freed ELSE tx.free - n + freed

\* A write takes n pages, free ones first, frees some, and spends and adds
\* credits.
Write(n, freed, spent, added) ==
    /\ tx.open /\ ~tx.wrote
    /\ spent <= debt
    /\ tx.pages + Taken(n) <= MaxPages
    /\ Unused(n, freed) <= tx.pages + Taken(n)
    /\ tx' = [open |-> TRUE, class |-> tx.class, wrote |-> TRUE,
              pages |-> tx.pages + Taken(n), free |-> Unused(n, freed),
              debt |-> tx.debt - spent + added, spent |-> spent, added |-> added]
    /\ UNCHANGED <<pages, free, debt, log, blocked, step>>

\* The engine is full: a refused control write blocks the store (full).
EngineFull(n) ==
    /\ tx.open /\ ~tx.wrote
    /\ tx.pages + Taken(n) > MaxPages
    /\ tx' = NoTx
    /\ blocked' = IF tx.class = "control" THEN TRUE ELSE blocked
    /\ UNCHANGED <<pages, free, debt, log, step>>

\* Mutant of FitsCeiling: the debt is left to control writes.
FitsUnfunded(t) == t.pages <= Ceiling(t.class)

\* Commit: the ceiling of the class, with the debt after the mutation.
FitsCeiling(t) == t.pages <= Ceiling(t.class) - t.debt

CommitWrite(extra) ==
    /\ tx.open /\ FitsCeiling(tx)
    /\ pages' = tx.pages + extra
    /\ free' = tx.free
    /\ debt' = tx.debt
    /\ log' = log + 1
    /\ tx' = NoTx
    /\ UNCHANGED <<blocked, step>>

\* A refused commit, an error of the write or its Rollback.
Rollback ==
    /\ tx.open
    /\ tx' = NoTx
    /\ UNCHANGED <<pages, free, debt, log, blocked, step>>

\* The daemon stops at any point and opens the store again: an open
\* transaction is gone, the log is checkpointed, the block was in memory.
Reopen ==
    /\ tx' = NoTx
    /\ step' = "none"
    /\ blocked' = FALSE
    /\ log' = 0
    /\ UNCHANGED <<pages, free, debt>>

-----------------------------------------------------------------------------
StorageInit ==
    /\ pages = FirstPages /\ free = 0 /\ debt = 0
    /\ log = 0 /\ blocked = FALSE
    /\ tx = NoTx /\ step = "none"

StorageNext ==
    \/ \E class \in Class : Begin(class)
    \/ BeginFails
    \/ BeginReclaim
    \/ MemoryReclaim
    \/ Recover
    \/ Proven
    \/ \E cancelled \in BOOLEAN : ProofFails(cancelled)
    \/ \E n, freed \in 0..MaxGrowth, spent, added \in Credit \cup {0} :
          Write(n, freed, spent, added)
    \/ \E n \in 0..MaxGrowth : EngineFull(n)
    \/ \E extra \in 0..CommitSlack : CommitWrite(extra)
    \/ Rollback
    \/ Reopen

StorageSpec == StorageInit /\ [][StorageNext]_storageVars

-----------------------------------------------------------------------------
(* Properties *)

\* Types of the boundary's state.
StorageTypeOK ==
    /\ pages \in Nat /\ free \in 0..pages /\ debt \in Nat /\ log \in Nat
    /\ blocked \in BOOLEAN
    /\ tx \in Tx
    /\ step \in {"none", "admit", "memory", "recover"}

\* The store stays solvent: below the engine's ceiling every page of the debt
\* is still free to allocate, whichever class of write came before, so no
\* write of another uses up what a control was promised (Commit, debtPages).
Solvent == pages + debt <= MaxPages

\* A control write that spends a credit and promises no other is never
\* refused for capacity while it stays within the credit, less the slack
\* that commits before it may have used (Commit, full).
FundedNeverRefused ==
    (/\ tx.open /\ tx.class = "control" /\ tx.wrote /\ tx.added = 0
     /\ tx.pages - pages + CommitSlack <= tx.spent)
        => tx.pages + tx.debt <= MaxPages - CommitSlack

\* Every write starts from an empty log, also after failed or cancelled
\* proofs, reclaims, recoveries and stops (begin, resetLog).
WritesStartFromEmptyLog == tx.open => log = 0

\* PROTOCOL.md: the log never holds more than one transaction.
LogHoldsOneTransaction == log <= 1
=============================================================================
