----------------------------- MODULE Ownership -----------------------------
(***************************************************************************)
(* What the lease engine promises of claims (internal/core/claims.go): at  *)
(* any time the live claims are disjoint, each is a generation that was    *)
(* given once, and a claim that ended never comes back.  Work implements   *)
(* it: there a claim ends with a lease, a release, a finish or a report.   *)
(***************************************************************************)
EXTENDS Integers, SequencesExt

CONSTANTS
    Works,          \* ids of work items
    Consumers,      \* consumer keys of the callers
    ResourceSets    \* the sets of optional resources that a start may name

\* A resource is a path, as the sequence of its components (the repository
\* itself is the empty one), or an exact key.

\* Mutant of Overlaps: a claim of a directory is not compared with one that
\* is held above it.
OverlapsBelow(a, b) ==
    /\ a.kind = b.kind
    /\ IF a.kind = "path" THEN IsPrefix(a.key, b.key) ELSE a.key = b.key

\* Paths overlap when one is the other or lies above it.
Overlaps(a, b) ==
    /\ a.kind = b.kind
    /\ IF a.kind = "path" THEN IsPrefix(a.key, b.key) \/ IsPrefix(b.key, a.key)
       ELSE a.key = b.key

\* The writer resource of an item is the item itself.
Conflicts(a, b) ==
    \/ a.work = b.work
    \/ \E r \in a.resources, s \in b.resources : Overlaps(r, s)

VARIABLES
    live,       \* the live claims
    last        \* the last generation that was given

ownVars == <<live, last>>

Claim == [work : Works, consumer : Consumers, resources : ResourceSets, generation : Nat]

OwnInit == live = {} /\ last = 0

\* A caller takes all its resources or none, under a generation of its own.
Take(w, c, names) ==
    LET new == [work |-> w, consumer |-> c, resources |-> names, generation |-> last + 1]
    IN  /\ \A old \in live : ~Conflicts(new, old)
        /\ live' = live \cup {new}
        /\ last' = last + 1

End(claim) == live' = live \ {claim} /\ UNCHANGED last

OwnNext ==
    \/ \E w \in Works, c \in Consumers, names \in ResourceSets : Take(w, c, names)
    \/ \E claim \in live : End(claim)

OwnSpec == OwnInit /\ [][OwnNext]_ownVars

OwnTypeOK == live \subseteq Claim /\ last \in Nat

\* No two live claims overlap: a path, a key and an item have one writer.
Disjoint == \A a, b \in live : a # b => ~Conflicts(a, b)

\* A generation that is live was given, and only to one claim.
GenerationsGiven ==
    /\ \A a \in live : a.generation \in 1..last
    /\ \A a, b \in live : a.generation = b.generation => a = b
=============================================================================
