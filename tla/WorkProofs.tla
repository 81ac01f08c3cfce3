---------------------------- MODULE WorkProofs ----------------------------
(***************************************************************************)
(* What Work guarantees for any number of items, consumers, resources,     *)
(* keys and any limits, and what the storage boundary of Storage, with its *)
(* page credits and recovery, guarantees for any limits and transactions.  *)
(***************************************************************************)
EXTENDS Work, Storage, FiniteSetTheorems, WellFoundedInduction, TLAPS

\* Ids above the counter are free: a create never meets an item or a bundle.
CountedItems == \A w \in Works : w > created => item[w].state = "absent"

\* An epoch that is not recorded overdue has no overdue event yet.
RecordedIfNoticed ==
    \A w \in Works : /\ noticed[w] <= 1
                     /\ Active(w) /\ ~bundle[w].recorded => noticed[w] = 0

\* A key that took effect is retained as long as it may be used again.
AppliedIsRetained ==
    \A k \in Keys : /\ applied[k] <= 1
                    /\ applied[k] = 1 => k \in replays \cup late

WorkInv ==
    /\ WorkTypeOK
    /\ StoreCompatible
    /\ CountedItems
    /\ RecordedIfNoticed
    /\ AppliedIsRetained
    /\ LiveClaimsDisjoint

LEMMA WorksNat == Works \subseteq Nat
BY DEF Works

\* enforce keeps the scope revisions of each item bounded.
LEMMA EnforceBounds ==
    ASSUME NEW class, Enforce(class)
    PROVE  \A w \in Works : item'[w].scopes <= ScopesPerItem
BY DEF Enforce, Fits

\* Answer keeps the keys typed and applied once.
LEMMA AnswerSound ==
    ASSUME NEW key \in Keyed, WorkInv, Answer(key)
    PROVE  /\ replays' \subseteq Keys /\ late' \subseteq Keys /\ applied' \in [Keys -> Nat]
           /\ AppliedIsRetained'
BY DEF Answer, WorkInv, WorkTypeOK, AppliedIsRetained, Keyed

\* What an event does to the items, and a change to the bundles.
LEMMA EventSound ==
    ASSUME item \in [Works -> Item], NEW w \in Works, NEW it \in Item, Event(w, it)
    PROVE  /\ item' \in [Works -> Item]
           /\ \A v \in Works : v # w => item'[v] = item[v]
           /\ item'[w].state = it.state /\ item'[w].epoch = it.epoch
           /\ item'[w].scopes = it.scopes /\ item'[w].events = it.events + 1
<1>1. [it EXCEPT !.events = @ + 1] \in Item
  BY DEF Item
<1>2. QED
  BY <1>1 DEF Event, Item

LEMMA SetBundleSound ==
    ASSUME WorkTypeOK, NEW w \in DOMAIN bundle, NEW b \in Bundle, SetBundle(w, b)
    PROVE  /\ DOMAIN bundle' = DOMAIN bundle /\ DOMAIN bundle' \subseteq Works
           /\ bundle' \in [DOMAIN bundle' -> Bundle]
           /\ bundle'[w] = b
           /\ \A v \in DOMAIN bundle : v # w => bundle'[v] = bundle[v]
BY DEF SetBundle, WorkTypeOK

LEMMA AppendSound ==
    ASSUME finished \in Seq(Works), aged \in 0..Len(finished), NEW w \in Works
    PROVE  /\ Append(finished, w) \in Seq(Works)
           /\ aged \in 0..Len(Append(finished, w))
<1>1. Len(Append(finished, w)) = Len(finished) + 1 /\ Len(finished) \in Nat
  OBVIOUS
<1>2. QED
  BY <1>1

\* What every step has to keep, apart from the claims' disjointness.
Local ==
    WorkTypeOK /\ StoreCompatible /\ CountedItems /\ RecordedIfNoticed /\ AppliedIsRetained

LEMMA CreateKeeps ==
    ASSUME WorkInv, NEW c \in Consumers, NEW key \in Keyed, Create(c, key)
    PROVE  Local'
<1> DEFINE w == created + 1
           new == [Absent EXCEPT !.state = "open", !.events = 1, !.scopes = 1]
<1>1. \A v \in Works : item'[v].scopes <= ScopesPerItem
  BY EnforceBounds DEF Create
<1>2. /\ replays' \subseteq Keys /\ late' \subseteq Keys /\ applied' \in [Keys -> Nat]
      /\ AppliedIsRetained'
  BY AnswerSound DEF Create
<1>3. new \in Item /\ new.state = "open" /\ new.scopes = 1 /\ new.events = 1
  BY DEF Item, State, Absent
<1>4. w \in Works /\ w \notin DOMAIN bundle
  <2>1. w \in Works
    BY DEF Create
  <2>2. w > created
    BY DEF WorkInv, WorkTypeOK
  <2>3. item[w].state = "absent"
    BY <2>1, <2>2 DEF WorkInv, CountedItems
  <2>4. QED
    BY <2>1, <2>3 DEF WorkInv, StoreCompatible, Retained
<1>5. /\ item' = [item EXCEPT ![w] = new] /\ created' = w
      /\ UNCHANGED <<bundle, claims, finished, aged, notes, noticed>>
  BY DEF Create
<1> HIDE DEF new
<1>6. /\ item' \in [Works -> Item] /\ item'[w] = new
      /\ \A v \in Works : v # w => item'[v] = item[v]
  BY <1>3, <1>4, <1>5 DEF WorkInv, WorkTypeOK
<1>7. WorkTypeOK'
  BY <1>2, <1>5, <1>6 DEF WorkInv, WorkTypeOK
<1>8. StoreCompatible'
  <2>1. \A v \in DOMAIN bundle' : item'[v] = item[v] /\ bundle'[v] = bundle[v]
    BY <1>4, <1>5, <1>6 DEF WorkInv, WorkTypeOK
  <2>2. \A v \in Works : Retained(v)' => item'[v].scopes >= 1 /\ item'[v].events > 0
    BY <1>3, <1>4, <1>6 DEF WorkInv, StoreCompatible, Retained
  <2>3. \A v \in Works : item'[v].scopes \in Nat
    BY <1>6 DEF Item
  <2>4. QED
    BY <1>1, <1>5, <2>1, <2>2, <2>3, WorkAssumption DEF WorkInv, StoreCompatible, Retained
<1>9. CountedItems' /\ RecordedIfNoticed'
  BY <1>4, <1>5, <1>6, WorksNat
  DEF WorkInv, WorkTypeOK, CountedItems, RecordedIfNoticed, Active, Held
<1>10. QED
  BY <1>2, <1>7, <1>8, <1>9 DEF Local

\* A bundle agrees with an item it is stored with.
Agrees(b, it) ==
    /\ b.active => it.state = "active" /\ b.epoch = it.epoch
    /\ ~b.active => ~b.overdueCredit /\ ~b.endCredit

\* Keys are kept by a step.
KeysKept ==
    /\ replays' \subseteq Keys /\ late' \subseteq Keys /\ applied' \in [Keys -> Nat]
    /\ AppliedIsRetained'

\* A step that writes one event of one item, and its bundle at most, keeps Local.
LEMMA EventStep ==
    ASSUME WorkInv, NEW w \in Works, NEW it \in Item, NEW class,
           KeysKept, Event(w, it), Enforce(class), UNCHANGED created,
           claims' \in Nat, notes' \in Nat,
           Retained(w), it.state # "absent", it.scopes >= item[w].scopes,
           it.events = item[w].events,
           DOMAIN bundle' \subseteq Works, bundle' \in [DOMAIN bundle' -> Bundle],
           \A v \in DOMAIN bundle' : v # w => v \in DOMAIN bundle /\ bundle'[v] = bundle[v],
           w \in DOMAIN bundle' => Agrees(bundle'[w], it),
           finished' \in Seq(Works), aged' \in 0..Len(finished'),
           noticed' \in [Works -> Nat],
           \A v \in Works : v # w => noticed'[v] = noticed[v],
           noticed'[w] <= 1,
           w \in DOMAIN bundle' /\ bundle'[w].active /\ ~bundle'[w].recorded => noticed'[w] = 0
    PROVE  Local'
<1>1. \A v \in Works : item'[v].scopes <= ScopesPerItem
  BY EnforceBounds
<1>2. /\ item' \in [Works -> Item]
      /\ \A v \in Works : v # w => item'[v] = item[v]
      /\ item'[w].state = it.state /\ item'[w].epoch = it.epoch
      /\ item'[w].scopes = it.scopes /\ item'[w].events = it.events + 1
  BY EventSound DEF WorkInv, WorkTypeOK
<1>3. WorkTypeOK'
  BY <1>2 DEF WorkInv, WorkTypeOK, KeysKept
<1>4. StoreCompatible'
  <2>1. \A v \in DOMAIN bundle' :
           /\ item'[v].state # "absent"
           /\ bundle'[v].active => item'[v].state = "active" /\ bundle'[v].epoch = item'[v].epoch
           /\ ~bundle'[v].active => ~bundle'[v].overdueCredit /\ ~bundle'[v].endCredit
    BY <1>2 DEF WorkInv, StoreCompatible, Retained, Agrees
  <2>2. \A v \in Works : item'[v].scopes \in Nat /\ item'[v].events \in Nat
    BY <1>2 DEF Item
  <2>3. item[w].scopes \in Nat /\ it.scopes \in Nat /\ it.events \in Nat
    BY DEF WorkInv, WorkTypeOK, Item
  <2>4. \A v \in Works : item'[v].state # "absent" => item'[v].scopes >= 1 /\ item'[v].events > 0
    <3>1. \A v \in Works : item[v].state # "absent" => item[v].scopes >= 1 /\ item[v].events > 0
      BY WorkAssumption DEF WorkInv, StoreCompatible, Retained
    <3>2. it.scopes >= 1 /\ it.events > 0
      BY <2>3, <3>1 DEF Retained
    <3>3. item'[w].scopes >= 1 /\ item'[w].events > 0
      BY <1>2, <2>3, <3>2
    <3>4. \A v \in Works : v # w /\ item'[v].state # "absent" => item'[v].scopes >= 1 /\ item'[v].events > 0
      BY <1>2, <3>1
    <3>5. QED
      BY <3>3, <3>4, Zenon
  <2>5. QED
    BY <1>1, <2>1, <2>2, <2>4, WorkAssumption DEF StoreCompatible, Retained
<1>5. CountedItems'
  BY <1>2 DEF WorkInv, CountedItems, Retained
<1>6. RecordedIfNoticed'
  BY DEF WorkInv, RecordedIfNoticed, Active, Held
<1>7. QED
  BY <1>3, <1>4, <1>5, <1>6 DEF Local, KeysKept

\* A proposal, an edit and a verdict leave the claim alone.
LEMMA TextKeeps ==
    ASSUME WorkInv, NEW w \in Works, NEW c \in Consumers, NEW key \in Keyed,
           Propose(w, c, key) \/ Edit(w, c, key) \/ Accept(w, c, key) \/ Reject(w, c, key)
    PROVE  Local'
<1>1. KeysKept
  BY AnswerSound DEF KeysKept, Propose, Edit, Accept, Reject
<1>2. item[w] \in Item /\ Retained(w)
  BY DEF WorkInv, WorkTypeOK, Propose, Edit, Accept, Reject, Ready, Current
<1>3. \E it \in Item, class \in {"ordinary", "control"} :
         /\ Event(w, it) /\ Enforce(class)
         /\ it.epoch = item[w].epoch /\ it.events = item[w].events
         /\ it.scopes >= item[w].scopes /\ it.state # "absent"
         /\ item[w].state # "reported" => it.state = item[w].state
  <2>1. CASE Propose(w, c, key)
    BY <1>2, <2>1 DEF Propose, Item, Retained
  <2>2. CASE Edit(w, c, key)
    <3>1. [item[w] EXCEPT !.scopes = @ + 1] \in Item
      BY <1>2 DEF Item
    <3>2. QED
      BY <1>2, <2>2, <3>1 DEF Edit, Item, Retained
  <2>3. CASE Accept(w, c, key)
    <3> DEFINE new == [item[w] EXCEPT !.state = "finished", !.verdictCredit = FALSE]
    <3>1. new \in Item
      <4>1. item[w].scopes + 1 \in Nat
        BY <1>2 DEF Item
      <4>2. QED
        BY <1>2, <4>1 DEF Item, State
    <3>2. /\ new.epoch = item[w].epoch /\ new.events = item[w].events
          /\ new.scopes >= item[w].scopes /\ new.state # "absent"
      BY <1>2 DEF Item
    <3>3. Event(w, new) /\ Enforce("control") /\ item[w].state = "reported"
      BY <2>3 DEF Accept
    <3> HIDE DEF new
    <3>4. QED
      BY <3>1, <3>2, <3>3
  <2>4. CASE Reject(w, c, key)
    <3> DEFINE new == [item[w] EXCEPT !.state = "open", !.verdictCredit = FALSE, !.scopes = @ + 1]
    <3>1. new \in Item
      <4>1. item[w].scopes + 1 \in Nat
        BY <1>2 DEF Item
      <4>2. QED
        BY <1>2, <4>1 DEF Item, State
    <3>2. /\ new.epoch = item[w].epoch /\ new.events = item[w].events
          /\ new.scopes >= item[w].scopes /\ new.state # "absent"
      BY <1>2 DEF Item
    <3>3. Event(w, new) /\ Enforce("control") /\ item[w].state = "reported"
      BY <2>4 DEF Reject
    <3> HIDE DEF new
    <3>4. QED
      BY <3>1, <3>2, <3>3
  <2>5. QED
    BY <2>1, <2>2, <2>3, <2>4
<1>4. PICK it \in Item, class \in {"ordinary", "control"} :
         /\ Event(w, it) /\ Enforce(class)
         /\ it.epoch = item[w].epoch /\ it.events = item[w].events
         /\ it.scopes >= item[w].scopes /\ it.state # "absent"
         /\ item[w].state # "reported" => it.state = item[w].state
  BY <1>3
<1>5. UNCHANGED <<created, bundle, claims, notes, noticed>>
  BY DEF Propose, Edit, Accept, Reject
<1>6. finished' \in Seq(Works) /\ aged' \in 0..Len(finished')
  <2>1. aged' = aged /\ (finished' = finished \/ finished' = Append(finished, w))
    BY DEF Propose, Edit, Accept, Reject
  <2>2. QED
    BY <2>1, AppendSound DEF WorkInv, WorkTypeOK
<1>7. w \in DOMAIN bundle' => Agrees(bundle'[w], it)
  BY <1>4, <1>5 DEF WorkInv, StoreCompatible, Agrees
<1>8. QED
  BY <1>1, <1>2, <1>4, <1>5, <1>6, <1>7, EventStep
  DEF WorkInv, WorkTypeOK, RecordedIfNoticed, Active, Held

LEMMA StartKeeps ==
    ASSUME WorkInv, NEW w \in Works, NEW c \in Consumers, NEW names \in ResourceSets,
           NEW key \in Keyed, Start(w, c, names, key)
    PROVE  Local'
<1> DEFINE new == [generation |-> NextGeneration, consumer |-> c, resources |-> names,
                   active |-> TRUE, lapsed |-> FALSE, epoch |-> item[w].epoch + 1,
                   recorded |-> FALSE, overdueCredit |-> TRUE, endCredit |-> TRUE]
           it == [item[w] EXCEPT !.state = "active", !.epoch = @ + 1, !.deadline = "ahead"]
<1>1. KeysKept
  BY AnswerSound DEF KeysKept, Start
<1>2. item[w] \in Item /\ Retained(w) /\ item[w].epoch + 1 \in Nat
  BY DEF WorkInv, WorkTypeOK, Start, Ready, Current, Item
<1>3. NextGeneration \in Nat
  BY DEF NextGeneration, WorkInv, WorkTypeOK
<1>4. it \in Item
  BY <1>2 DEF Item, State
<1>5. /\ it.state = "active" /\ it.epoch = item[w].epoch + 1
      /\ it.scopes >= item[w].scopes /\ it.events = item[w].events
  BY <1>2 DEF Item
<1>6. new \in Bundle
  BY <1>2, <1>3 DEF Bundle
<1>7. Agrees(new, it) /\ ~new.recorded
  BY <1>5 DEF Agrees
<1>8. new.generation = NextGeneration
  OBVIOUS
<1>9. /\ Event(w, it) /\ Enforce("ordinary") /\ claims' = new.generation
      /\ bundle' = [v \in DOMAIN bundle \cup {w} |-> IF v = w THEN new ELSE bundle[v]]
      /\ noticed' = [noticed EXCEPT ![w] = 0]
      /\ UNCHANGED <<created, finished, aged, notes>>
  BY DEF Start
<1> HIDE DEF new, it
<1>10. /\ DOMAIN bundle' \subseteq Works /\ bundle' \in [DOMAIN bundle' -> Bundle]
       /\ \A v \in DOMAIN bundle' : v # w => v \in DOMAIN bundle /\ bundle'[v] = bundle[v]
       /\ bundle'[w] = new
  BY <1>6, <1>9 DEF WorkInv, WorkTypeOK
<1>11. /\ noticed' \in [Works -> Nat] /\ noticed'[w] = 0
       /\ \A v \in Works : v # w => noticed'[v] = noticed[v]
  BY <1>9 DEF WorkInv, WorkTypeOK
<1>12. claims' \in Nat /\ notes' \in Nat /\ finished' \in Seq(Works) /\ aged' \in 0..Len(finished')
  BY <1>3, <1>8, <1>9 DEF WorkInv, WorkTypeOK
<1>13. it.state # "absent" /\ noticed'[w] <= 1
  BY <1>5, <1>11
<1>14. QED
  BY <1>1, <1>2, <1>4, <1>5, <1>7, <1>9, <1>10, <1>11, <1>12, <1>13, EventStep

\* A renewal writes no event.
LEMMA RenewKeeps ==
    ASSUME WorkInv, NEW w \in Works, NEW c \in Consumers, NEW key \in Keyed, Renew(w, c, key)
    PROVE  Local'
<1>1. KeysKept
  BY AnswerSound DEF KeysKept, Renew
<1>2. w \in DOMAIN bundle /\ bundle[w] \in Bundle
  BY DEF Renew, Owner, Live, Active, Held, WorkInv, WorkTypeOK
<1> DEFINE new == Renewed(bundle[w])
<1>3. new \in Bundle
  BY <1>2 DEF Renewed, Bundle
<1>4. /\ new.active = bundle[w].active /\ new.epoch = bundle[w].epoch
      /\ new.recorded = bundle[w].recorded
      /\ new.overdueCredit = bundle[w].overdueCredit /\ new.endCredit = bundle[w].endCredit
  BY <1>2 DEF Renewed, Bundle
<1>5. SetBundle(w, new) /\ UNCHANGED <<item, created, claims, finished, aged, notes, noticed>>
  BY DEF Renew
<1> HIDE DEF new
<1>6. /\ DOMAIN bundle' = DOMAIN bundle /\ bundle' \in [DOMAIN bundle' -> Bundle]
      /\ bundle'[w] = new
      /\ \A v \in DOMAIN bundle : v # w => bundle'[v] = bundle[v]
  BY <1>2, <1>3, <1>5, SetBundleSound DEF WorkInv
<1>7. WorkTypeOK'
  BY <1>1, <1>5, <1>6 DEF WorkInv, WorkTypeOK, KeysKept
<1>8. StoreCompatible'
  BY <1>4, <1>5, <1>6 DEF WorkInv, StoreCompatible, Retained
<1>9. CountedItems' /\ RecordedIfNoticed'
  BY <1>4, <1>5, <1>6 DEF WorkInv, CountedItems, RecordedIfNoticed, Active, Held
<1>10. QED
  BY <1>1, <1>7, <1>8, <1>9 DEF Local, KeysKept

\* A release, a finish and a report end the claim; the item is not active then.
LEMMA EndKeeps ==
    ASSUME WorkInv, NEW w \in Works, NEW c \in Consumers, NEW key \in Keyed,
           NEW handoff \in BOOLEAN,
           Release(w, c, handoff, key) \/ Finish(w, c, key) \/ Report(w, c, key)
    PROVE  Local'
<1>1. KeysKept
  BY AnswerSound DEF KeysKept, Release, Finish, Report
<1>2. item[w] \in Item /\ Retained(w) /\ w \in DOMAIN bundle /\ bundle[w] \in Bundle
  BY DEF WorkInv, WorkTypeOK, Release, Finish, Report, Ready, Current, Owner, Live, Active, Held
<1> DEFINE new == Ended(bundle[w])
<1>3. new \in Bundle /\ ~new.active /\ ~new.overdueCredit /\ ~new.endCredit
  BY <1>2 DEF Ended, Bundle
<1>4. /\ SetBundle(w, new) /\ UNCHANGED <<created, claims, aged, notes, noticed>>
      /\ finished' = finished \/ finished' = Append(finished, w)
  BY DEF Release, Finish, Report
<1>5. \E it \in Item, class \in {"ordinary", "control"} :
         /\ Event(w, it) /\ Enforce(class)
         /\ it.events = item[w].events /\ it.scopes >= item[w].scopes /\ it.state # "absent"
  <2>1. CASE Release(w, c, handoff, key)
    <3> DEFINE it == [item[w] EXCEPT !.state = "open", !.deadline = "none"]
    <3>1. it \in Item
      BY <1>2 DEF Item, State
    <3>2. it.events = item[w].events /\ it.scopes >= item[w].scopes /\ it.state # "absent"
      BY <1>2 DEF Item
    <3>3. Event(w, it) /\ (Enforce("ordinary") \/ Enforce("control"))
      BY <2>1 DEF Release
    <3> HIDE DEF it
    <3>4. QED
      BY <3>1, <3>2, <3>3
  <2>2. CASE Finish(w, c, key)
    <3> DEFINE it == [item[w] EXCEPT !.state = "finished", !.deadline = "none"]
    <3>1. it \in Item
      BY <1>2 DEF Item, State
    <3>2. it.events = item[w].events /\ it.scopes >= item[w].scopes /\ it.state # "absent"
      BY <1>2 DEF Item
    <3>3. Event(w, it) /\ Enforce("control")
      BY <2>2 DEF Finish
    <3> HIDE DEF it
    <3>4. QED
      BY <3>1, <3>2, <3>3
  <2>3. CASE Report(w, c, key)
    <3> DEFINE it == [item[w] EXCEPT !.state = "reported", !.deadline = "none",
                                     !.reporter = {c}, !.verdictCredit = TRUE]
    <3>1. it \in Item
      BY <1>2 DEF Item, State
    <3>2. it.events = item[w].events /\ it.scopes >= item[w].scopes /\ it.state # "absent"
      BY <1>2 DEF Item
    <3>3. Event(w, it) /\ Enforce("ordinary")
      BY <2>3 DEF Report
    <3> HIDE DEF it
    <3>4. QED
      BY <3>1, <3>2, <3>3
  <2>4. QED
    BY <2>1, <2>2, <2>3
<1> HIDE DEF new
<1>6. PICK it \in Item, class \in {"ordinary", "control"} :
         /\ Event(w, it) /\ Enforce(class)
         /\ it.events = item[w].events /\ it.scopes >= item[w].scopes /\ it.state # "absent"
  BY <1>5
<1>7. /\ DOMAIN bundle' = DOMAIN bundle /\ DOMAIN bundle' \subseteq Works
      /\ bundle' \in [DOMAIN bundle' -> Bundle] /\ bundle'[w] = new
      /\ \A v \in DOMAIN bundle : v # w => bundle'[v] = bundle[v]
  BY <1>2, <1>3, <1>4, SetBundleSound DEF WorkInv
<1>8. Agrees(bundle'[w], it)
  BY <1>3, <1>7 DEF Agrees
<1>9. finished' \in Seq(Works) /\ aged' \in 0..Len(finished')
  BY <1>4, AppendSound DEF WorkInv, WorkTypeOK
<1>10. noticed' \in [Works -> Nat] /\ noticed'[w] <= 1 /\ claims' \in Nat /\ notes' \in Nat
  BY <1>4 DEF WorkInv, WorkTypeOK, RecordedIfNoticed
<1>11. QED
  BY <1>1, <1>2, <1>3, <1>4, <1>6, <1>7, <1>8, <1>9, <1>10, EventStep

\* Progress moves the epoch of the item and of its claim together.
LEMMA UpdateKeeps ==
    ASSUME WorkInv, NEW w \in Works, NEW c \in Consumers, NEW key \in Keyed, Update(w, c, key)
    PROVE  Local'
<1> DEFINE new == Rearmed(bundle[w])
           it == [item[w] EXCEPT !.state = "active", !.epoch = @ + 1, !.deadline = "ahead"]
<1>1. KeysKept
  BY AnswerSound DEF KeysKept, Update
<1>2. /\ item[w] \in Item /\ Retained(w) /\ item[w].epoch + 1 \in Nat
      /\ w \in DOMAIN bundle /\ bundle[w] \in Bundle /\ bundle[w].active
      /\ bundle[w].epoch = item[w].epoch
  BY DEF WorkInv, WorkTypeOK, StoreCompatible, Update, Ready, Current, Owner, Live, Active, Held, Item
<1>3. /\ it \in Item /\ it.state = "active" /\ it.epoch = item[w].epoch + 1
      /\ it.scopes >= item[w].scopes /\ it.events = item[w].events
  <2>1. it \in Item
    BY <1>2 DEF Item, State
  <2>2. QED
    BY <1>2, <2>1 DEF Item
<1>4. new \in Bundle /\ new.active /\ new.epoch = item[w].epoch + 1
  <2>1. bundle[w].epoch + 1 \in Nat
    BY <1>2
  <2>2. new \in Bundle
    BY <1>2, <2>1 DEF Rearmed, Bundle
  <2>3. QED
    BY <1>2 DEF Rearmed, Bundle
<1>5. Agrees(new, it)
  BY <1>3, <1>4 DEF Agrees
<1>6. /\ Event(w, it) /\ Enforce("ordinary") /\ SetBundle(w, new)
      /\ noticed' = [noticed EXCEPT ![w] = 0]
      /\ UNCHANGED <<created, claims, finished, aged, notes>>
  BY DEF Update
<1> HIDE DEF new, it
<1>7. /\ DOMAIN bundle' = DOMAIN bundle /\ DOMAIN bundle' \subseteq Works
      /\ bundle' \in [DOMAIN bundle' -> Bundle] /\ bundle'[w] = new
      /\ \A v \in DOMAIN bundle : v # w => bundle'[v] = bundle[v]
  BY <1>2, <1>4, <1>6, SetBundleSound DEF WorkInv
<1>8. /\ noticed' \in [Works -> Nat] /\ noticed'[w] = 0
      /\ \A v \in Works : v # w => noticed'[v] = noticed[v]
  BY <1>6 DEF WorkInv, WorkTypeOK
<1>9. claims' \in Nat /\ notes' \in Nat /\ finished' \in Seq(Works) /\ aged' \in 0..Len(finished')
  BY <1>6 DEF WorkInv, WorkTypeOK
<1>10. it.state # "absent" /\ noticed'[w] <= 1
  BY <1>3, <1>8
<1>11. QED
  BY <1>1, <1>2, <1>3, <1>5, <1>6, <1>7, <1>8, <1>9, <1>10, EventStep

\* The overdue event is the first of its epoch, because the mark is set with it.
LEMMA ReconcileKeeps ==
    ASSUME WorkInv, NEW w \in Works, Reconcile(w)
    PROVE  Local'
<1> DEFINE new == IF LeaseDue(w) THEN Ended(bundle[w])
                  ELSE [bundle[w] EXCEPT !.recorded = TRUE, !.overdueCredit = FALSE]
<1>1. KeysKept
  BY DEF KeysKept, Reconcile, WorkInv, WorkTypeOK, AppliedIsRetained
<1>2. /\ item[w] \in Item /\ Retained(w) /\ w \in DOMAIN bundle /\ bundle[w] \in Bundle
      /\ bundle[w].active /\ bundle[w].epoch = item[w].epoch /\ item[w].state = "active"
      /\ item[w].scopes \in Nat
  BY DEF WorkInv, WorkTypeOK, StoreCompatible, Reconcile, Current, Due, LeaseDue, OverdueDue,
     Active, Held, Item
<1>3. new \in Bundle /\ Agrees(new, item[w]) /\ (new.active => new.recorded)
  <2>1. CASE LeaseDue(w)
    BY <1>2, <2>1 DEF Ended, Bundle, Agrees
  <2>2. CASE ~LeaseDue(w)
    BY <1>2, <2>2 DEF Bundle, Agrees
  <2>3. QED
    BY <2>1, <2>2
<1>4. /\ Event(w, item[w]) /\ Enforce("control") /\ SetBundle(w, new)
      /\ UNCHANGED <<created, claims, finished, aged, notes>>
  BY DEF Reconcile
<1> HIDE DEF new
<1>5. /\ DOMAIN bundle' = DOMAIN bundle /\ DOMAIN bundle' \subseteq Works
      /\ bundle' \in [DOMAIN bundle' -> Bundle] /\ bundle'[w] = new
      /\ \A v \in DOMAIN bundle : v # w => bundle'[v] = bundle[v]
  BY <1>2, <1>3, <1>4, SetBundleSound DEF WorkInv
<1>6. /\ noticed' \in [Works -> Nat] /\ noticed'[w] <= 1
      /\ \A v \in Works : v # w => noticed'[v] = noticed[v]
  <2>1. CASE LeaseDue(w)
    BY <2>1 DEF Reconcile, WorkInv, WorkTypeOK, RecordedIfNoticed
  <2>2. CASE ~LeaseDue(w)
    <3>1. noticed[w] = 0 /\ noticed \in [Works -> Nat]
      BY <2>2 DEF Reconcile, Due, OverdueDue, WorkInv, WorkTypeOK, RecordedIfNoticed
    <3>2. noticed' = [noticed EXCEPT ![w] = noticed[w] + 1]
      BY <2>2 DEF Reconcile
    <3>3. QED
      BY <3>1, <3>2
  <2>3. QED
    BY <2>1, <2>2
<1>7. claims' \in Nat /\ notes' \in Nat /\ finished' \in Seq(Works) /\ aged' \in 0..Len(finished')
  BY <1>4 DEF WorkInv, WorkTypeOK
<1>8. item[w].state # "absent" /\ item[w].scopes >= item[w].scopes
  BY <1>2
<1>9. QED
  BY <1>1, <1>2, <1>3, <1>4, <1>5, <1>6, <1>7, <1>8, EventStep

\* A reclamation forgets a bundle that has ended.
LEMMA ReclaimKeeps ==
    ASSUME WorkInv, ReclaimOne \/ \E w \in Works : ReclaimInactive(w)
    PROVE  Local'
<1>1. PICK w : /\ bundle' = Without(w)
               /\ UNCHANGED <<item, created, claims, finished, aged, notes, replays, late,
                              applied, noticed>>
  BY DEF ReclaimOne, ReclaimInactive
<1>2. /\ DOMAIN bundle' \subseteq DOMAIN bundle /\ bundle' \in [DOMAIN bundle' -> Bundle]
      /\ \A v \in DOMAIN bundle' : bundle'[v] = bundle[v]
  BY <1>1 DEF Without, WorkInv, WorkTypeOK
<1>3. WorkTypeOK'
  BY <1>1, <1>2 DEF WorkInv, WorkTypeOK
<1>4. StoreCompatible'
  BY <1>1, <1>2 DEF WorkInv, StoreCompatible, Retained
<1>5. CountedItems' /\ RecordedIfNoticed' /\ AppliedIsRetained'
  BY <1>1, <1>2 DEF WorkInv, CountedItems, RecordedIfNoticed, AppliedIsRetained, Active, Held
<1>6. QED
  BY <1>3, <1>4, <1>5 DEF Local

\* The removal of an item waits for its bundle, so no bundle is left alone.
LEMMA RemovalKeeps ==
    ASSUME WorkInv, SweepFinished \/ MakeRoom
    PROVE  Local'
<1> DEFINE w == Head(finished)
<1>1. RemoveOldest /\ finished # << >>
  BY DEF SweepFinished, MakeRoom, WorkInv, WorkTypeOK
<1>2. w \in Works /\ Tail(finished) \in Seq(Works) /\ Len(Tail(finished)) = Len(finished) - 1
  BY <1>1 DEF WorkInv, WorkTypeOK
<1>3. finished' \in Seq(Works) /\ aged' \in 0..Len(finished')
  BY <1>1, <1>2 DEF RemoveOldest, WorkInv, WorkTypeOK
<1>4. Absent \in Item /\ Absent.state = "absent"
  BY DEF Absent, Item, State
<1>5. /\ item' \in [Works -> Item] /\ item'[w] = Absent
      /\ \A v \in Works : v # w => item'[v] = item[v]
  BY <1>1, <1>2, <1>4 DEF RemoveOldest, WorkInv, WorkTypeOK
<1>6. /\ w \notin DOMAIN bundle
      /\ UNCHANGED <<created, bundle, claims, notes, replays, late, applied, noticed>>
  BY <1>1 DEF RemoveOldest, Held
<1> HIDE DEF w
<1>7. WorkTypeOK'
  BY <1>3, <1>5, <1>6 DEF WorkInv, WorkTypeOK
<1>8. StoreCompatible'
  <2>1. \A v \in DOMAIN bundle : item'[v] = item[v]
    BY <1>5, <1>6 DEF WorkInv, WorkTypeOK
  <2>2. QED
    BY <1>4, <1>5, <1>6, <2>1 DEF WorkInv, StoreCompatible, Retained
<1>9. CountedItems'
  BY <1>4, <1>5, <1>6 DEF WorkInv, CountedItems
<1>10. RecordedIfNoticed' /\ AppliedIsRetained'
  BY <1>6 DEF WorkInv, RecordedIfNoticed, AppliedIsRetained, Active, Held
<1>11. QED
  BY <1>7, <1>8, <1>9, <1>10 DEF Local

\* A note, an expiry and the passing of a deadline touch no claim's agreement.
LEMMA OthersKeep ==
    ASSUME WorkInv,
           \/ \E class \in {"ordinary", "control"}, key \in Keyed : WriteNote(class, key)
           \/ ExpireReplays \/ ExpireNote \/ RetentionEnds
           \/ \E k \in Keys : KeyEnds(k)
           \/ UNCHANGED vars
    PROVE  Local'
<1>1. UNCHANGED <<item, created, bundle, claims, finished, noticed>>
  BY DEF WriteNote, ExpireReplays, ExpireNote, RetentionEnds, KeyEnds, vars
<1>2. KeysKept
  <2>1. CASE \E class \in {"ordinary", "control"}, key \in Keyed : WriteNote(class, key)
    BY <2>1, AnswerSound DEF WriteNote, KeysKept
  <2>2. CASE ExpireReplays
    BY <2>2 DEF ExpireReplays, OutOfWindow, KeysKept, WorkInv, WorkTypeOK, AppliedIsRetained
  <2>3. CASE \E k \in Keys : KeyEnds(k)
    BY <2>3 DEF KeyEnds, KeysKept, WorkInv, WorkTypeOK, AppliedIsRetained
  <2>4. CASE ExpireNote \/ RetentionEnds \/ UNCHANGED vars
    BY <2>4 DEF ExpireNote, RetentionEnds, vars, KeysKept, WorkInv, WorkTypeOK, AppliedIsRetained
  <2>5. QED
    BY <2>1, <2>2, <2>3, <2>4
<1>3. notes' \in Nat /\ aged' \in 0..Len(finished')
  <2>1. notes \in Nat /\ aged \in 0..Len(finished) /\ Len(finished) \in Nat
    BY DEF WorkInv, WorkTypeOK
  <2>2. /\ notes' = notes \/ notes' = notes + 1 \/ (notes > 0 /\ notes' = notes - 1)
        /\ aged' = aged \/ (aged < Len(finished) /\ aged' = aged + 1)
    BY DEF WriteNote, ExpireReplays, ExpireNote, RetentionEnds, KeyEnds, vars
  <2>3. QED
    BY <1>1, <2>1, <2>2
<1>4. WorkTypeOK'
  BY <1>1, <1>2, <1>3 DEF WorkInv, WorkTypeOK, KeysKept
<1>5. StoreCompatible' /\ CountedItems' /\ RecordedIfNoticed'
  BY <1>1 DEF WorkInv, StoreCompatible, Retained, CountedItems, RecordedIfNoticed, Active, Held
<1>6. QED
  BY <1>2, <1>4, <1>5 DEF Local, KeysKept

\* A lease ends.
LEMMA LeaseEndsKeeps ==
    ASSUME WorkInv, NEW w \in Works, LeaseEnds(w)
    PROVE  Local'
<1> DEFINE new == [bundle[w] EXCEPT !.lapsed = TRUE]
<1>1. w \in DOMAIN bundle /\ bundle[w] \in Bundle
  BY DEF LeaseEnds, Live, Active, Held, WorkInv, WorkTypeOK
<1>2. /\ new \in Bundle /\ new.active = bundle[w].active /\ new.epoch = bundle[w].epoch
      /\ new.recorded = bundle[w].recorded
      /\ new.overdueCredit = bundle[w].overdueCredit /\ new.endCredit = bundle[w].endCredit
  BY <1>1 DEF Bundle
<1>3. /\ SetBundle(w, new)
      /\ UNCHANGED <<item, created, claims, finished, aged, notes, replays, late, applied, noticed>>
  BY DEF LeaseEnds, SetBundle
<1> HIDE DEF new
<1>4. /\ DOMAIN bundle' = DOMAIN bundle /\ bundle' \in [DOMAIN bundle' -> Bundle]
      /\ bundle'[w] = new
      /\ \A v \in DOMAIN bundle : v # w => bundle'[v] = bundle[v]
  BY <1>1, <1>2, <1>3, SetBundleSound DEF WorkInv
<1>5. WorkTypeOK'
  BY <1>3, <1>4 DEF WorkInv, WorkTypeOK
<1>6. StoreCompatible'
  BY <1>2, <1>3, <1>4 DEF WorkInv, StoreCompatible, Retained
<1>7. CountedItems' /\ RecordedIfNoticed' /\ AppliedIsRetained'
  BY <1>2, <1>3, <1>4
  DEF WorkInv, CountedItems, RecordedIfNoticed, AppliedIsRetained, Active, Held
<1>8. QED
  BY <1>5, <1>6, <1>7 DEF Local

\* A progress deadline passes.
LEMMA DeadlineKeeps ==
    ASSUME WorkInv, NEW w \in Works, DeadlinePasses(w)
    PROVE  Local'
<1> DEFINE new == [item[w] EXCEPT !.deadline = "passed"]
<1>1. item[w] \in Item
  BY DEF WorkInv, WorkTypeOK
<1>2. /\ new \in Item /\ new.state = item[w].state /\ new.epoch = item[w].epoch
      /\ new.scopes = item[w].scopes /\ new.events = item[w].events
  BY <1>1 DEF Item
<1>3. /\ item' = [item EXCEPT ![w] = new]
      /\ UNCHANGED <<created, bundle, claims, finished, aged, notes, replays, late, applied, noticed>>
  BY DEF DeadlinePasses
<1> HIDE DEF new
<1>4. /\ item' \in [Works -> Item] /\ item'[w] = new
      /\ \A v \in Works : v # w => item'[v] = item[v]
  BY <1>2, <1>3 DEF WorkInv, WorkTypeOK
<1>5. WorkTypeOK'
  BY <1>3, <1>4 DEF WorkInv, WorkTypeOK
<1>6. StoreCompatible'
  BY <1>2, <1>3, <1>4 DEF WorkInv, WorkTypeOK, StoreCompatible, Retained
<1>7. CountedItems' /\ RecordedIfNoticed' /\ AppliedIsRetained'
  BY <1>2, <1>3, <1>4
  DEF WorkInv, CountedItems, RecordedIfNoticed, AppliedIsRetained, Active, Held
<1>8. QED
  BY <1>5, <1>6, <1>7 DEF Local

\* Every step keeps Local.
LEMMA StepKeepsLocal ==
    ASSUME WorkInv, [Next]_vars
    PROVE  Local'
<1>1. ASSUME NEW c \in Consumers, NEW key \in Keyed, Create(c, key)
      PROVE  Local'
  BY <1>1, CreateKeeps
<1>2. ASSUME NEW c \in Consumers, NEW key \in Keyed, NEW w \in Works, Operation(w, c, key)
      PROVE  Local'
  <2>1. CASE Propose(w, c, key) \/ Edit(w, c, key) \/ Accept(w, c, key) \/ Reject(w, c, key)
    BY <2>1, TextKeeps
  <2>2. CASE \E names \in ResourceSets : Start(w, c, names, key)
    BY <2>2, StartKeeps
  <2>3. CASE Update(w, c, key) \/ Renew(w, c, key)
    BY <2>3, UpdateKeeps, RenewKeeps
  <2>4. CASE \E handoff \in BOOLEAN : Release(w, c, handoff, key)
    BY <2>4, EndKeeps
  <2>5. CASE Finish(w, c, key) \/ Report(w, c, key)
    BY <2>5, EndKeeps
  <2>6. QED
    BY <1>2, <2>1, <2>2, <2>3, <2>4, <2>5 DEF Operation
<1>3. ASSUME NEW w \in Works,
             Reconcile(w) \/ ReclaimInactive(w) \/ LeaseEnds(w) \/ DeadlinePasses(w)
      PROVE  Local'
  BY <1>3, ReconcileKeeps, ReclaimKeeps, LeaseEndsKeeps, DeadlineKeeps
<1>4. CASE ReclaimOne \/ SweepFinished \/ MakeRoom
  BY <1>4, ReclaimKeeps, RemovalKeeps
<1>5. CASE \/ \E class \in {"ordinary", "control"}, key \in Keyed : WriteNote(class, key)
           \/ ExpireReplays \/ ExpireNote \/ RetentionEnds
           \/ \E k \in Keys : KeyEnds(k)
           \/ UNCHANGED vars
  BY <1>5, OthersKeep
<1>6. QED
  BY <1>1, <1>2, <1>3, <1>4, <1>5 DEF Next

-----------------------------------------------------------------------------
(* The claims: every step is one of Ownership. *)

ClaimOf(w) == [work |-> w, consumer |-> bundle[w].consumer,
               resources |-> bundle[w].resources, generation |-> bundle[w].generation]

IsLive(w) == w \in DOMAIN bundle /\ bundle[w].active /\ ~bundle[w].lapsed

LEMMA LiveClaimsAre ==
    /\ \A x : x \in LiveClaims <=> \E w : IsLive(w) /\ x = ClaimOf(w)
    /\ \A x : x \in LiveClaims' <=> \E w : IsLive(w)' /\ x = ClaimOf(w)'
<1>1. \A x : x \in LiveClaims <=> \E w : IsLive(w) /\ x = ClaimOf(w)
  BY DEF LiveClaims, IsLive, ClaimOf
<1>2. \A x : x \in LiveClaims' <=> \E w : IsLive(w)' /\ x = ClaimOf(w)'
  BY DEF LiveClaims, IsLive, ClaimOf
<1>3. QED
  BY <1>1, <1>2

\* The live claims stay when each live bundle keeps its owner, its resources and
\* its generation.
LEMMA ClaimsStay ==
    ASSUME UNCHANGED claims,
           \A w : IsLive(w)' <=> IsLive(w),
           \A w : IsLive(w) => ClaimOf(w)' = ClaimOf(w)
    PROVE  UNCHANGED Own!ownVars
<1>1. \A x : x \in LiveClaims' <=> x \in LiveClaims
  BY LiveClaimsAre
<1>2. LiveClaims' = LiveClaims
  BY <1>1
<1>3. QED
  BY <1>2 DEF Own!ownVars

\* A claim ends when its bundle is no longer live and the others stay.
LEMMA ClaimEnds ==
    ASSUME UNCHANGED claims, NEW w, IsLive(w), ~IsLive(w)',
           \A v : v # w => (IsLive(v)' <=> IsLive(v)),
           \A v : v # w /\ IsLive(v) => ClaimOf(v)' = ClaimOf(v)
    PROVE  Own!OwnNext
<1>1. ClaimOf(w) \in LiveClaims
  BY LiveClaimsAre
<1>2. \A v : v # w => ClaimOf(v) # ClaimOf(w)
  BY DEF ClaimOf
<1>3. \A x : x \in LiveClaims' <=> x \in LiveClaims /\ x # ClaimOf(w)
  BY <1>2, LiveClaimsAre
<1>4. LiveClaims' = LiveClaims \ {ClaimOf(w)}
  BY <1>3
<1>5. QED
  BY <1>1, <1>4 DEF Own!OwnNext, Own!End

\* A start takes resources that no live claim overlaps: a claim of the same
\* item cannot be live, because the item has no bundle.
LEMMA StartTakes ==
    ASSUME WorkInv, NEW w \in Works, NEW c \in Consumers, NEW names \in ResourceSets,
           NEW key \in Keyed, Start(w, c, names, key)
    PROVE  Own!OwnNext
<1> DEFINE new == [work |-> w, consumer |-> c, resources |-> names, generation |-> claims + 1]
<1>1. /\ w \notin DOMAIN bundle /\ claims' = claims + 1
      /\ DOMAIN bundle' = DOMAIN bundle \cup {w}
      /\ \A v \in DOMAIN bundle : bundle'[v] = bundle[v]
  BY DEF Start, Held, NextGeneration
<1>2. /\ bundle'[w].active /\ ~bundle'[w].lapsed /\ bundle'[w].consumer = c
      /\ bundle'[w].resources = names /\ bundle'[w].generation = claims + 1
  BY DEF Start, NextGeneration
<1>3. IsLive(w)' /\ ~IsLive(w) /\ ClaimOf(w)' = new
  BY <1>1, <1>2 DEF IsLive, ClaimOf
<1>4. \A v : v # w => (IsLive(v)' <=> IsLive(v))
  BY <1>1 DEF IsLive
<1>5. \A v : v # w /\ IsLive(v) => ClaimOf(v)' = ClaimOf(v)
  BY <1>1 DEF IsLive, ClaimOf
<1>6. \A x : x \in LiveClaims' <=> x \in LiveClaims \/ x = new
  <2> HIDE DEF new
  <2>1. QED
    BY <1>3, <1>4, <1>5, LiveClaimsAre
<1>7. LiveClaims' = LiveClaims \cup {new}
  BY <1>6
<1>8. \A old \in LiveClaims : ~Own!Conflicts(new, old)
  <2>1. TAKE old \in LiveClaims
  <2>2. PICK v : IsLive(v) /\ old = ClaimOf(v)
    BY <2>1, LiveClaimsAre
  <2>3. v # w /\ old.work = v /\ old.resources = bundle[v].resources
    BY <1>3, <2>2 DEF ClaimOf
  <2>4. ~\E r \in names, s \in bundle[v].resources : Own!Overlaps(r, s)
    BY <2>2 DEF Start, IsLive, Live, Active, Held
  <2>5. new.work = w /\ new.resources = names
    OBVIOUS
  <2> HIDE DEF new
  <2>6. QED
    BY <2>3, <2>4, <2>5 DEF Own!Conflicts
<1>9. Own!Take(w, c, names)
  BY <1>1, <1>7, <1>8 DEF Own!Take
<1>10. QED
  BY <1>9 DEF Own!OwnNext

\* A release, a finish, a report and the end of a lease end the claim.
LEMMA EndsEnd ==
    ASSUME WorkInv, NEW w \in Works, NEW new \in Bundle, SetBundle(w, new), UNCHANGED claims,
           Live(w), ~new.active \/ new.lapsed
    PROVE  Own!OwnNext
<1>1. IsLive(w) /\ w \in DOMAIN bundle
  BY DEF Live, Active, Held, IsLive
<1>2. /\ DOMAIN bundle' = DOMAIN bundle /\ bundle'[w] = new
      /\ \A v \in DOMAIN bundle : v # w => bundle'[v] = bundle[v]
  BY <1>1, SetBundleSound DEF WorkInv
<1>3. ~IsLive(w)'
  BY <1>2 DEF IsLive
<1>4. \A v : v # w => (IsLive(v)' <=> IsLive(v))
  BY <1>2 DEF IsLive
<1>5. \A v : v # w /\ IsLive(v) => ClaimOf(v)' = ClaimOf(v)
  BY <1>2 DEF IsLive, ClaimOf
<1>6. QED
  BY <1>1, <1>3, <1>4, <1>5, ClaimEnds

\* Progress, a renewal and a due transition change no live claim.
LEMMA BundleStays ==
    ASSUME WorkInv, NEW w \in DOMAIN bundle, NEW new \in Bundle, SetBundle(w, new),
           UNCHANGED claims,
           (new.active /\ ~new.lapsed) <=> (bundle[w].active /\ ~bundle[w].lapsed),
           new.consumer = bundle[w].consumer, new.resources = bundle[w].resources,
           new.generation = bundle[w].generation
    PROVE  UNCHANGED Own!ownVars
<1>1. /\ DOMAIN bundle' = DOMAIN bundle /\ bundle'[w] = new
      /\ \A v \in DOMAIN bundle : v # w => bundle'[v] = bundle[v]
  BY SetBundleSound DEF WorkInv
<1>2. \A v : IsLive(v)' <=> IsLive(v)
  BY <1>1 DEF IsLive
<1>3. \A v : IsLive(v) => ClaimOf(v)' = ClaimOf(v)
  BY <1>1 DEF IsLive, ClaimOf
<1>4. QED
  BY <1>2, <1>3, ClaimsStay

LEMMA OwnerStays ==
    ASSUME WorkInv, NEW w \in Works, NEW c \in Consumers, NEW key \in Keyed,
           Update(w, c, key) \/ Renew(w, c, key)
    PROVE  UNCHANGED Own!ownVars
<1>1. w \in DOMAIN bundle /\ bundle[w] \in Bundle /\ UNCHANGED claims /\ Live(w)
  BY DEF Update, Renew, Owner, Live, Active, Held, WorkInv, WorkTypeOK
<1>2. CASE Update(w, c, key)
  <2>1. bundle[w].epoch + 1 \in Nat
    BY <1>1 DEF Bundle
  <2>2. Rearmed(bundle[w]) \in Bundle
    BY <1>1, <2>1 DEF Rearmed, Bundle
  <2>3. /\ Rearmed(bundle[w]).active = bundle[w].active
        /\ Rearmed(bundle[w]).lapsed = bundle[w].lapsed
        /\ Rearmed(bundle[w]).consumer = bundle[w].consumer
        /\ Rearmed(bundle[w]).resources = bundle[w].resources
        /\ Rearmed(bundle[w]).generation = bundle[w].generation
    BY <1>1 DEF Rearmed, Bundle
  <2>4. SetBundle(w, Rearmed(bundle[w]))
    BY <1>2 DEF Update
  <2>5. QED
    BY <1>1, <2>2, <2>3, <2>4, BundleStays
<1>3. CASE Renew(w, c, key)
  <2>1. Renewed(bundle[w]) \in Bundle
    BY <1>1 DEF Renewed, Bundle
  <2>2. /\ Renewed(bundle[w]).active = bundle[w].active
        /\ ~Renewed(bundle[w]).lapsed
        /\ Renewed(bundle[w]).consumer = bundle[w].consumer
        /\ Renewed(bundle[w]).resources = bundle[w].resources
        /\ Renewed(bundle[w]).generation = bundle[w].generation
    BY <1>1 DEF Renewed, Bundle
  <2>3. SetBundle(w, Renewed(bundle[w])) /\ ~bundle[w].lapsed
    BY <1>1, <1>3 DEF Renew, Live
  <2>4. QED
    BY <1>1, <2>1, <2>2, <2>3, BundleStays
<1>4. QED
  BY <1>2, <1>3

LEMMA ReconcileStays ==
    ASSUME WorkInv, NEW w \in Works, Reconcile(w)
    PROVE  UNCHANGED Own!ownVars
<1> DEFINE new == IF LeaseDue(w) THEN Ended(bundle[w])
                  ELSE [bundle[w] EXCEPT !.recorded = TRUE, !.overdueCredit = FALSE]
<1>1. w \in DOMAIN bundle /\ bundle[w] \in Bundle /\ UNCHANGED claims /\ SetBundle(w, new)
  BY DEF Reconcile, Due, LeaseDue, OverdueDue, Active, Held, WorkInv, WorkTypeOK
<1>2. /\ new \in Bundle
      /\ (new.active /\ ~new.lapsed) <=> (bundle[w].active /\ ~bundle[w].lapsed)
      /\ new.consumer = bundle[w].consumer /\ new.resources = bundle[w].resources
      /\ new.generation = bundle[w].generation
  <2>1. CASE LeaseDue(w)
    BY <1>1, <2>1 DEF Ended, Bundle, LeaseDue
  <2>2. CASE ~LeaseDue(w)
    BY <1>1, <2>2 DEF Bundle
  <2>3. QED
    BY <2>1, <2>2
<1> HIDE DEF new
<1>3. QED
  BY <1>1, <1>2, BundleStays

\* A bundle that is reclaimed has ended.
LEMMA ReclaimStays ==
    ASSUME WorkInv, ReclaimOne \/ \E w \in Works : ReclaimInactive(w)
    PROVE  UNCHANGED Own!ownVars
<1>1. PICK w : bundle' = Without(w) /\ w \in DOMAIN bundle /\ ~bundle[w].active /\ UNCHANGED claims
  BY DEF ReclaimOne, ReclaimInactive, Reclaimable, Active, Held
<1>2. /\ DOMAIN bundle' = DOMAIN bundle \ {w}
      /\ \A v \in DOMAIN bundle : v # w => bundle'[v] = bundle[v]
  BY <1>1 DEF Without
<1>3. \A v : IsLive(v)' <=> IsLive(v)
  BY <1>1, <1>2 DEF IsLive
<1>4. \A v : IsLive(v) => ClaimOf(v)' = ClaimOf(v)
  BY <1>1, <1>2 DEF IsLive, ClaimOf
<1>5. QED
  BY <1>1, <1>3, <1>4, ClaimsStay

\* Every step takes a claim, ends one or changes none.
LEMMA StepIsOwnStep ==
    ASSUME WorkInv, [Next]_vars
    PROVE  [Own!OwnNext]_(Own!ownVars)
<1>1. ASSUME UNCHANGED <<bundle, claims>>
      PROVE  UNCHANGED Own!ownVars
  <2>1. LiveClaims' = LiveClaims
    BY <1>1 DEF LiveClaims
  <2>2. QED
    BY <1>1, <2>1 DEF Own!ownVars
<1>2. ASSUME NEW c \in Consumers, NEW key \in Keyed, Create(c, key)
      PROVE  UNCHANGED Own!ownVars
  BY <1>1, <1>2 DEF Create
<1>3. ASSUME NEW c \in Consumers, NEW key \in Keyed, NEW w \in Works, Operation(w, c, key)
      PROVE  [Own!OwnNext]_(Own!ownVars)
  <2>1. CASE Propose(w, c, key) \/ Edit(w, c, key) \/ Accept(w, c, key) \/ Reject(w, c, key)
    BY <1>1, <2>1 DEF Propose, Edit, Accept, Reject
  <2>2. CASE \E names \in ResourceSets : Start(w, c, names, key)
    BY <2>2, StartTakes
  <2>3. CASE Update(w, c, key) \/ Renew(w, c, key)
    BY <2>3, OwnerStays
  <2>4. CASE \/ \E handoff \in BOOLEAN : Release(w, c, handoff, key)
             \/ Finish(w, c, key) \/ Report(w, c, key)
    <3>1. Live(w) /\ SetBundle(w, Ended(bundle[w])) /\ UNCHANGED claims
      BY <2>4 DEF Release, Finish, Report, Owner
    <3>2. bundle[w] \in Bundle
      BY <3>1 DEF Live, Active, Held, WorkInv, WorkTypeOK
    <3>3. Ended(bundle[w]) \in Bundle /\ ~Ended(bundle[w]).active
      BY <3>2 DEF Ended, Bundle
    <3>4. QED
      BY <3>1, <3>3, EndsEnd
  <2>5. QED
    BY <1>3, <2>1, <2>2, <2>3, <2>4 DEF Operation
<1>4. ASSUME NEW w \in Works, LeaseEnds(w)
      PROVE  Own!OwnNext
  <2> DEFINE new == [bundle[w] EXCEPT !.lapsed = TRUE]
  <2>1. Live(w) /\ SetBundle(w, new) /\ UNCHANGED claims
    BY <1>4 DEF LeaseEnds, SetBundle
  <2>2. bundle[w] \in Bundle
    BY <2>1 DEF Live, Active, Held, WorkInv, WorkTypeOK
  <2>3. new \in Bundle /\ new.lapsed
    BY <2>2 DEF Bundle
  <2> HIDE DEF new
  <2>4. QED
    BY <2>1, <2>3, EndsEnd
<1>5. ASSUME NEW w \in Works, Reconcile(w) \/ ReclaimInactive(w) \/ DeadlinePasses(w)
      PROVE  UNCHANGED Own!ownVars
  BY <1>1, <1>5, ReconcileStays, ReclaimStays DEF DeadlinePasses
<1>6. CASE ReclaimOne \/ SweepFinished \/ MakeRoom
  BY <1>1, <1>6, ReclaimStays DEF SweepFinished, MakeRoom, RemoveOldest
<1>7. CASE \/ \E class \in {"ordinary", "control"}, key \in Keyed : WriteNote(class, key)
           \/ ExpireReplays \/ ExpireNote \/ RetentionEnds
           \/ \E k \in Keys : KeyEnds(k)
           \/ UNCHANGED vars
  BY <1>1, <1>7 DEF WriteNote, ExpireReplays, ExpireNote, RetentionEnds, KeyEnds, vars
<1>8. QED
  BY <1>2, <1>3, <1>4, <1>5, <1>6, <1>7 DEF Next

\* A step of Ownership keeps the live claims disjoint.
LEMMA OwnStepDisjoint ==
    ASSUME LiveClaimsDisjoint, [Own!OwnNext]_(Own!ownVars)
    PROVE  LiveClaimsDisjoint'
<1>1. \A a, b : Own!Conflicts(a, b) <=> Own!Conflicts(b, a)
  BY DEF Own!Conflicts, Own!Overlaps
<1>2. \E new : /\ LiveClaims' \subseteq LiveClaims \cup {new}
               /\ new \in LiveClaims' /\ new \notin LiveClaims =>
                     \A old \in LiveClaims : ~Own!Conflicts(new, old)
  <2>1. CASE \E w \in Works, c \in Consumers, names \in ResourceSets : Own!Take(w, c, names)
    <3>1. PICK w \in Works, c \in Consumers, names \in ResourceSets : Own!Take(w, c, names)
      BY <2>1
    <3> DEFINE new == [work |-> w, consumer |-> c, resources |-> names, generation |-> claims + 1]
    <3>2. /\ LiveClaims' = LiveClaims \cup {new}
          /\ \A old \in LiveClaims : ~Own!Conflicts(new, old)
      BY <3>1 DEF Own!Take
    <3> HIDE DEF new
    <3>3. QED
      BY <3>2
  <2>2. CASE \E claim \in LiveClaims : Own!End(claim)
    BY <2>2 DEF Own!End
  <2>3. CASE UNCHANGED Own!ownVars
    BY <2>3 DEF Own!ownVars
  <2>4. QED
    BY <2>1, <2>2, <2>3 DEF Own!OwnNext
<1>3. \A a, b \in LiveClaims : a # b => ~Own!Conflicts(a, b)
  BY DEF LiveClaimsDisjoint, Own!Disjoint
<1>4. ASSUME NEW a \in LiveClaims', NEW b \in LiveClaims', a # b
      PROVE  ~Own!Conflicts(a, b)
  <2>1. PICK new : /\ LiveClaims' \subseteq LiveClaims \cup {new}
                   /\ new \in LiveClaims' /\ new \notin LiveClaims =>
                         \A old \in LiveClaims : ~Own!Conflicts(new, old)
    BY <1>2
  <2>2. CASE a \in LiveClaims /\ b \in LiveClaims
    BY <1>3, <1>4, <2>2
  <2>3. CASE a \notin LiveClaims
    <3>1. a = new /\ b \in LiveClaims
      BY <1>4, <2>1, <2>3
    <3>2. QED
      BY <1>4, <2>1, <2>3, <3>1
  <2>4. CASE b \notin LiveClaims
    <3>1. b = new /\ a \in LiveClaims
      BY <1>4, <2>1, <2>4
    <3>2. QED
      BY <1>1, <1>4, <2>1, <2>4, <3>1
  <2>5. QED
    BY <2>2, <2>3, <2>4
<1>5. QED
  BY <1>4 DEF LiveClaimsDisjoint, Own!Disjoint, Own!Conflicts, Own!Overlaps

-----------------------------------------------------------------------------
LEMMA InitWorkInv == Init => WorkInv
<1> SUFFICES ASSUME Init PROVE WorkInv
  OBVIOUS
<1>1. Absent \in Item /\ Absent.state = "absent"
  BY DEF Absent, Item, State
<1>2. DOMAIN bundle = {} /\ bundle \in [DOMAIN bundle -> Bundle]
  BY DEF Init
<1>3. item = [w \in Works |-> Absent]
  BY DEF Init
<1>4. WorkTypeOK
  BY <1>1, <1>2, <1>3 DEF Init, WorkTypeOK
<1>5. StoreCompatible /\ CountedItems
  BY <1>1, <1>2, <1>3 DEF StoreCompatible, CountedItems, Retained
<1>6. RecordedIfNoticed /\ AppliedIsRetained
  BY <1>2 DEF Init, RecordedIfNoticed, AppliedIsRetained, Active, Held
<1>7. LiveClaims = {}
  BY <1>2 DEF LiveClaims
<1>8. LiveClaimsDisjoint
  BY <1>7 DEF LiveClaimsDisjoint, Own!Disjoint
<1>9. QED
  BY <1>4, <1>5, <1>6, <1>8 DEF WorkInv

LEMMA NextWorkInv == WorkInv /\ [Next]_vars => WorkInv'
<1> SUFFICES ASSUME WorkInv, [Next]_vars PROVE WorkInv'
  OBVIOUS
<1>1. Local'
  BY StepKeepsLocal
<1>2. LiveClaimsDisjoint'
  BY StepIsOwnStep, OwnStepDisjoint DEF WorkInv
<1>3. QED
  BY <1>1, <1>2 DEF WorkInv, Local

\* The inductive invariant of the module.
THEOREM WorkInvHolds == Spec => []WorkInv
BY InitWorkInv, NextWorkInv, PTL DEF Spec

\* Types: item, bundle and key tables stay well formed, and no more items are
\* counted as expired than are finished.
THEOREM WorkTypes == Spec => []WorkTypeOK
<1>1. WorkInv => WorkTypeOK
  BY DEF WorkInv
<1>2. QED
  BY <1>1, WorkInvHolds, PTL

\* Two live claims never overlap, for any resources and any number of items.
THEOREM ClaimsStayDisjoint == Spec => []LiveClaimsDisjoint
<1>1. WorkInv => LiveClaimsDisjoint
  BY DEF WorkInv
<1>2. QED
  BY <1>1, WorkInvHolds, PTL

\* No operation reaches a store that the code refuses as incompatible.
THEOREM StoreStaysCompatible == Spec => []StoreCompatible
<1>1. WorkInv => StoreCompatible
  BY DEF WorkInv
<1>2. QED
  BY <1>1, WorkInvHolds, PTL

\* A keyed request takes effect at most once.
THEOREM KeysApplyOnce == Spec => []KeyAppliedOnce
<1>1. WorkInv => KeyAppliedOnce
  BY DEF WorkInv, AppliedIsRetained, KeyAppliedOnce
<1>2. QED
  BY <1>1, WorkInvHolds, PTL

\* An epoch of progress is recorded overdue at most once.
THEOREM OverdueOnce == Spec => []OverdueOncePerEpoch
<1>1. WorkInv => OverdueOncePerEpoch
  BY DEF WorkInv, RecordedIfNoticed, OverdueOncePerEpoch
<1>2. QED
  BY <1>1, WorkInvHolds, PTL

\* The store's live bundles implement the abstract claims of Ownership.
THEOREM WorkImplementsOwnership == Spec => ImplementsOwnership
<1>1. Init => Own!OwnInit
  <2> SUFFICES ASSUME Init PROVE Own!OwnInit
    OBVIOUS
  <2>1. DOMAIN bundle = {} /\ claims = 0
    BY DEF Init
  <2>2. LiveClaims = {}
    BY <2>1 DEF LiveClaims
  <2>3. QED
    BY <2>1, <2>2 DEF Own!OwnInit
<1>2. WorkInv /\ [Next]_vars => [Own!OwnNext]_(Own!ownVars)
  BY StepIsOwnStep
<1>3. QED
  BY <1>1, <1>2, WorkInvHolds, PTL DEF Spec, ImplementsOwnership, Own!OwnSpec

-----------------------------------------------------------------------------
(* The ceilings: numbers of rows and of credits. *)

LEMMA WorksFinite == ASSUME NEW S \in SUBSET Works PROVE IsFiniteSet(S) /\ Cardinality(S) \in Nat
<1>1. MaxWorks \in Nat
  BY WorkAssumption
<1>2. IsFiniteSet(Works)
  BY <1>1, FS_Interval DEF Works
<1>. QED
  BY <1>2, FS_Subset, FS_CardinalityType

\* Numbers of items have a bound: the least number of items without one would need none.
LEMMA Bounded ==
    ASSUME NEW n \in [Works -> Nat]
    PROVE  \E b \in Nat : \A w \in Works : n[w] <= b
<1>. DEFINE Unbounded == {k \in Nat : k <= MaxWorks /\ ~\E b \in Nat : \A w \in 1 .. k : n[w] <= b}
<1>1. MaxWorks \in Nat /\ Works = 1 .. MaxWorks
  BY WorkAssumption DEF Works
<1>2. ASSUME Unbounded # {} PROVE FALSE
  <2>1. Unbounded \in SUBSET Nat
    OBVIOUS
  <2>. HIDE DEF Unbounded
  <2>2. PICK k \in Unbounded : \A j \in Unbounded : ~(<<j, k>> \in OpToRel(<, Nat))
    BY <1>2, <2>1, WFMin, NatLessThanWellFounded, Zenon
  <2>3. k \in Nat /\ k <= MaxWorks /\ ~\E b \in Nat : \A w \in 1 .. k : n[w] <= b
    BY DEF Unbounded
  <2>4. k # 0
    BY <2>3
  <2>5. k - 1 \in Nat /\ k - 1 < k /\ k - 1 <= MaxWorks
    BY <1>1, <2>3, <2>4
  <2>6. k - 1 \notin Unbounded
    BY <2>2, <2>3, <2>5 DEF OpToRel
  <2>7. PICK b \in Nat : \A w \in 1 .. k - 1 : n[w] <= b
    BY <2>5, <2>6 DEF Unbounded
  <2>8. n[k] \in Nat
    BY <1>1, <2>3, <2>4
  <2>9. PICK c \in Nat : b <= c /\ n[k] <= c
    BY <2>8
  <2>10. ASSUME NEW w \in 1 .. k PROVE n[w] <= c
    <3>1. CASE w = k
      BY <2>9, <3>1
    <3>2. CASE w # k
      <4>1. w \in 1 .. k - 1 /\ n[w] \in Nat
        BY <1>1, <2>3, <3>2
      <4>. QED
        BY <2>7, <2>9, <4>1
    <3>. QED
      BY <3>1, <3>2
  <2>. QED
    BY <2>3, <2>10
<1>3. MaxWorks \notin Unbounded
  <2>. HIDE DEF Unbounded
  <2>. QED
    BY <1>2
<1>4. \E b \in Nat : \A w \in 1 .. MaxWorks : n[w] <= b
  BY <1>1, <1>3
<1>. QED
  BY <1>1, <1>4, Zenon

LEMMA RowsAre ==
    ASSUME NEW n \in [Works -> Nat]
    PROVE  IsFiniteSet(Rows(n)) /\ Cardinality(Rows(n)) \in Nat
<1>1. PICK b \in Nat : \A w \in Works : n[w] <= b
  BY Bounded
<1>2. IsFiniteSet(Works) /\ IsFiniteSet(1 .. b)
  BY WorksFinite, FS_Interval
<1>3. IsFiniteSet(Works \X (1 .. b))
  BY <1>2, FS_Product
<1>4. Rows(n) \in SUBSET (Works \X (1 .. b))
  <2>1. ASSUME NEW r \in Rows(n) PROVE r \in Works \X (1 .. b)
    <3>1. PICK w \in Works : r \in {w} \X (1 .. n[w])
      BY Zenon DEF Rows
    <3>2. PICK i \in 1 .. n[w] : r = <<w, i>>
      BY <3>1
    <3>3. i \in 1 .. b
      BY <1>1
    <3>. QED
      BY <3>2, <3>3
  <2>. QED
    BY <2>1, Zenon
<1>. QED
  BY <1>3, <1>4, FS_Subset, FS_CardinalityType

\* Every count of a well-formed store is a number.
Numbers ==
    /\ Events \in Nat /\ Scopes \in Nat
    /\ OverdueDebt \in Nat /\ EndDebt \in Nat /\ VerdictDebt \in Nat /\ Count(Retained) \in Nat
    /\ notes \in Nat /\ Cardinality(replays) \in Nat

LEMMA FieldsAre ==
    ASSUME NEW it, it \in [Works -> Item]
    PROVE  /\ [w \in Works |-> it[w].events] \in [Works -> Nat]
           /\ [w \in Works |-> it[w].scopes] \in [Works -> Nat]
BY DEF Item

LEMMA NumbersNow ==
    ASSUME WorkTypeOK, IsFiniteSet(replays)
    PROVE  Numbers
<1>1. Events \in Nat /\ Scopes \in Nat
  BY FieldsAre, RowsAre DEF WorkTypeOK, Events, Scopes
<1>2. Cardinality(replays) \in Nat
  BY FS_CardinalityType
<1>3. /\ {w \in Works : Held(w) /\ bundle[w].overdueCredit} \in SUBSET Works
      /\ {w \in Works : Held(w) /\ bundle[w].endCredit} \in SUBSET Works
      /\ {w \in Works : item[w].verdictCredit} \in SUBSET Works
      /\ {w \in Works : Retained(w)} \in SUBSET Works
  OBVIOUS
<1>4. OverdueDebt \in Nat /\ EndDebt \in Nat /\ VerdictDebt \in Nat /\ Count(Retained) \in Nat
  BY <1>3, WorksFinite, Zenon DEF OverdueDebt, EndDebt, VerdictDebt, Count
<1>. QED
  BY <1>1, <1>2, <1>4 DEF Numbers, WorkTypeOK

LEMMA NumbersLater ==
    ASSUME WorkTypeOK', IsFiniteSet(replays')
    PROVE  Numbers'
<1>1. Events' \in Nat /\ Scopes' \in Nat
  BY FieldsAre, RowsAre DEF WorkTypeOK, Events, Scopes
<1>2. Cardinality(replays') \in Nat
  BY FS_CardinalityType
<1>3. /\ {w \in Works : Held(w)' /\ bundle'[w].overdueCredit} \in SUBSET Works
      /\ {w \in Works : Held(w)' /\ bundle'[w].endCredit} \in SUBSET Works
      /\ {w \in Works : item'[w].verdictCredit} \in SUBSET Works
      /\ {w \in Works : Retained(w)'} \in SUBSET Works
  OBVIOUS
<1>4. OverdueDebt' \in Nat /\ EndDebt' \in Nat /\ VerdictDebt' \in Nat /\ Count(Retained)' \in Nat
  BY <1>3, WorksFinite, Zenon DEF OverdueDebt, EndDebt, VerdictDebt, Count
<1>. QED
  BY <1>1, <1>2, <1>4 DEF Numbers, WorkTypeOK

\* A live or lapsed claim has the credit of its end, and of its overdue event until that is recorded;
\* a report has the credit of its verdict and room for the scope revision of a rejection.
BundleFunded(b) == b.active => b.endCredit /\ (b.recorded \/ b.overdueCredit)
ItemFunded(it) == it.state = "reported" => it.verdictCredit /\ it.scopes < ScopesPerItem

FundedInv ==
    /\ \A w \in DOMAIN bundle : BundleFunded(bundle[w])
    /\ \A w \in Works : ItemFunded(item[w])
    /\ IsFiniteSet(replays)
    /\ Fits("control")

LEMMA EventFunds ==
    ASSUME WorkInv, FundedInv, NEW w \in Works, NEW it \in Item, ItemFunded(it), Event(w, it)
    PROVE  \A v \in Works : ItemFunded(item'[v])
<1>. DEFINE new == [it EXCEPT !.events = @ + 1]
<1>1. new.state = it.state /\ new.verdictCredit = it.verdictCredit /\ new.scopes = it.scopes
  BY DEF Item
<1>2. item' = [item EXCEPT ![w] = new] /\ item \in [Works -> Item]
  BY DEF Event, WorkInv, WorkTypeOK
<1>. HIDE DEF new
<1>. QED
  BY <1>1, <1>2 DEF FundedInv, ItemFunded

LEMMA SetFunds ==
    ASSUME WorkInv, FundedInv, NEW w \in DOMAIN bundle, NEW b, BundleFunded(b), SetBundle(w, b)
    PROVE  \A v \in DOMAIN bundle' : BundleFunded(bundle'[v])
BY DEF SetBundle, WorkInv, WorkTypeOK, FundedInv

LEMMA AnswerIsFinite ==
    ASSUME FundedInv, NEW key \in Keyed, Answer(key)
    PROVE  IsFiniteSet(replays')
<1>1. replays' = replays \/ \E k \in Keys : replays' = replays \cup {k}
  BY DEF Answer, Keyed
<1>. QED
  BY <1>1, FS_AddElement DEF FundedInv

\* The ends of a claim.
LEMMA EndedFunded ==
    ASSUME NEW b \in Bundle
    PROVE  /\ BundleFunded(Ended(b)) /\ ~Ended(b).active /\ ~Ended(b).overdueCredit /\ ~Ended(b).endCredit
           /\ Ended(b) \in Bundle
BY DEF Ended, Bundle, BundleFunded

Kept ==
    /\ \A w \in DOMAIN bundle' : BundleFunded(bundle'[w])
    /\ \A w \in Works : ItemFunded(item'[w])
    /\ IsFiniteSet(replays')

LEMMA OperationFunds ==
    ASSUME WorkInv, FundedInv, NEW w \in Works, NEW c \in Consumers, NEW key \in Keyed, Operation(w, c, key)
    PROVE  Kept /\ \E class \in {"ordinary", "control"} : Enforce(class)
<1>1. item[w] \in Item /\ item \in [Works -> Item] /\ ItemFunded(item[w])
  BY DEF WorkInv, WorkTypeOK, FundedInv
<1>2. UNCHANGED bundle => \A v \in DOMAIN bundle' : BundleFunded(bundle'[v])
  BY DEF FundedInv
<1>3. Answer(key)
  BY Zenon DEF Operation, Propose, Edit, Start, Update, Renew, Release, Finish, Report, Accept, Reject
<1>4. IsFiniteSet(replays')
  BY <1>3, AnswerIsFinite
<1>5. ASSUME Owner(w, c)
      PROVE  w \in DOMAIN bundle /\ bundle[w] \in Bundle /\ BundleFunded(bundle[w]) /\ bundle[w].active
  BY <1>5 DEF Owner, Live, Active, Held, WorkInv, WorkTypeOK, FundedInv
<1>6. CASE Propose(w, c, key)
  <2>1. Event(w, item[w]) /\ UNCHANGED bundle /\ Enforce("ordinary")
    BY <1>6 DEF Propose
  <2>. QED
    BY <1>1, <1>2, <1>4, <2>1, EventFunds DEF Kept
<1>7. CASE Edit(w, c, key)
  <2>. DEFINE it == [item[w] EXCEPT !.scopes = @ + 1]
  <2>1. Event(w, it) /\ UNCHANGED bundle /\ Enforce("ordinary") /\ item[w].state # "reported"
    BY <1>7 DEF Edit
  <2>2. it \in Item /\ it.state = item[w].state
    BY <1>1 DEF Item
  <2>. HIDE DEF it
  <2>3. ItemFunded(it)
    BY <2>1, <2>2 DEF ItemFunded
  <2>. QED
    BY <1>2, <1>4, <2>1, <2>2, <2>3, EventFunds DEF Kept
<1>8. ASSUME NEW names \in ResourceSets, Start(w, c, names, key)
      PROVE  Kept /\ Enforce("ordinary")
  <2>. DEFINE new == [generation |-> NextGeneration, consumer |-> c, resources |-> names,
                      active |-> TRUE, lapsed |-> FALSE, epoch |-> item[w].epoch + 1,
                      recorded |-> FALSE, overdueCredit |-> TRUE, endCredit |-> TRUE]
              it == [item[w] EXCEPT !.state = "active", !.epoch = @ + 1, !.deadline = "ahead"]
  <2>1. /\ Event(w, it) /\ Enforce("ordinary")
        /\ bundle' = [v \in DOMAIN bundle \cup {w} |-> IF v = w THEN new ELSE bundle[v]]
    BY <1>8 DEF Start
  <2>2. it \in Item /\ it.state = "active"
    <3>1. item[w].epoch + 1 \in Nat
      BY <1>1 DEF Item
    <3>2. it \in Item
      BY <1>1, <3>1 DEF Item, State
    <3>. QED
      BY <1>1, <3>2 DEF Item
  <2>3. BundleFunded(new)
    BY DEF BundleFunded
  <2>. HIDE DEF it, new
  <2>4. ItemFunded(it)
    BY <2>2 DEF ItemFunded
  <2>5. \A v \in DOMAIN bundle' : BundleFunded(bundle'[v])
    BY <2>1, <2>3 DEF FundedInv
  <2>. QED
    BY <1>4, <2>1, <2>2, <2>4, <2>5, EventFunds DEF Kept
<1>9. CASE Update(w, c, key)
  <2>. DEFINE it == [item[w] EXCEPT !.state = "active", !.epoch = @ + 1, !.deadline = "ahead"]
              new == Rearmed(bundle[w])
  <2>1. Event(w, it) /\ Enforce("ordinary") /\ SetBundle(w, new) /\ Owner(w, c)
    BY <1>9 DEF Update
  <2>2. it \in Item /\ it.state = "active"
    <3>1. item[w].epoch + 1 \in Nat
      BY <1>1 DEF Item
    <3>2. it \in Item
      BY <1>1, <3>1 DEF Item, State
    <3>. QED
      BY <1>1, <3>2 DEF Item
  <2>3. w \in DOMAIN bundle /\ bundle[w] \in Bundle /\ BundleFunded(bundle[w]) /\ bundle[w].active
    BY <1>5, <2>1
  <2>4. new.overdueCredit /\ new.endCredit = bundle[w].endCredit
    BY <2>3 DEF Rearmed, Bundle
  <2>. HIDE DEF it, new
  <2>5. ItemFunded(it) /\ BundleFunded(new)
    BY <2>2, <2>3, <2>4 DEF ItemFunded, BundleFunded
  <2>. QED
    BY <1>4, <2>1, <2>2, <2>3, <2>5, EventFunds, SetFunds DEF Kept
<1>10. CASE Renew(w, c, key)
  <2>. DEFINE new == Renewed(bundle[w])
  <2>1. UNCHANGED item /\ Enforce("ordinary") /\ SetBundle(w, new) /\ Owner(w, c)
    BY <1>10 DEF Renew
  <2>3. w \in DOMAIN bundle /\ bundle[w] \in Bundle /\ BundleFunded(bundle[w]) /\ bundle[w].active
    BY <1>5, <2>1
  <2>4. new.overdueCredit = bundle[w].overdueCredit /\ new.endCredit = bundle[w].endCredit
        /\ new.recorded = bundle[w].recorded
    BY <2>3 DEF Renewed, Bundle
  <2>. HIDE DEF new
  <2>5. BundleFunded(new)
    BY <2>3, <2>4 DEF BundleFunded
  <2>. QED
    BY <1>4, <2>1, <2>3, <2>5, SetFunds DEF Kept, FundedInv
<1>11. ASSUME NEW handoff \in BOOLEAN, Release(w, c, handoff, key)
       PROVE  Kept /\ \E class \in {"ordinary", "control"} : Enforce(class)
  <2>. DEFINE it == [item[w] EXCEPT !.state = "open", !.deadline = "none"]
  <2>1. /\ Event(w, it) /\ SetBundle(w, Ended(bundle[w])) /\ Owner(w, c)
        /\ Enforce("ordinary") \/ Enforce("control")
    BY <1>11 DEF Release
  <2>2. it \in Item /\ it.state = "open"
    BY <1>1 DEF Item, State
  <2>. HIDE DEF it
  <2>3. ItemFunded(it)
    BY <2>2 DEF ItemFunded
  <2>. QED
    BY <1>4, <1>5, <2>1, <2>2, <2>3, EndedFunded, EventFunds, SetFunds DEF Kept
<1>12. CASE Finish(w, c, key)
  <2>. DEFINE it == [item[w] EXCEPT !.state = "finished", !.deadline = "none"]
  <2>1. Event(w, it) /\ SetBundle(w, Ended(bundle[w])) /\ Owner(w, c) /\ Enforce("control")
    BY <1>12 DEF Finish
  <2>2. it \in Item /\ it.state = "finished"
    BY <1>1 DEF Item, State
  <2>. HIDE DEF it
  <2>3. ItemFunded(it)
    BY <2>2 DEF ItemFunded
  <2>. QED
    BY <1>4, <1>5, <2>1, <2>2, <2>3, EndedFunded, EventFunds, SetFunds DEF Kept
<1>13. CASE Report(w, c, key)
  <2>. DEFINE it == [item[w] EXCEPT !.state = "reported", !.deadline = "none",
                                    !.reporter = {c}, !.verdictCredit = TRUE]
  <2>1. /\ Event(w, it) /\ SetBundle(w, Ended(bundle[w])) /\ Owner(w, c) /\ Enforce("ordinary")
        /\ item[w].scopes < ScopesPerItem
    BY <1>13 DEF Report, VerdictReserved
  <2>2. it \in Item
    BY <1>1 DEF Item, State
  <2>3. it.verdictCredit /\ it.scopes = item[w].scopes
    BY <1>1 DEF Item
  <2>. HIDE DEF it
  <2>4. ItemFunded(it)
    BY <2>1, <2>3 DEF ItemFunded
  <2>. QED
    BY <1>4, <1>5, <2>1, <2>2, <2>4, EndedFunded, EventFunds, SetFunds DEF Kept
<1>14. CASE Accept(w, c, key)
  <2>. DEFINE it == [item[w] EXCEPT !.state = "finished", !.verdictCredit = FALSE]
  <2>1. Event(w, it) /\ UNCHANGED bundle /\ Enforce("control")
    BY <1>14 DEF Accept
  <2>2. it \in Item /\ it.state = "finished"
    BY <1>1 DEF Item, State
  <2>. HIDE DEF it
  <2>3. ItemFunded(it)
    BY <2>2 DEF ItemFunded
  <2>. QED
    BY <1>2, <1>4, <2>1, <2>2, <2>3, EventFunds DEF Kept
<1>15. CASE Reject(w, c, key)
  <2>. DEFINE it == [item[w] EXCEPT !.state = "open", !.verdictCredit = FALSE, !.scopes = @ + 1]
  <2>1. Event(w, it) /\ UNCHANGED bundle /\ Enforce("control")
    BY <1>15 DEF Reject
  <2>2. it \in Item /\ it.state = "open"
    <3>1. item[w].scopes + 1 \in Nat
      BY <1>1 DEF Item
    <3>. QED
      BY <1>1, <3>1 DEF Item, State
  <2>. HIDE DEF it
  <2>3. ItemFunded(it)
    BY <2>2 DEF ItemFunded
  <2>. QED
    BY <1>2, <1>4, <2>1, <2>2, <2>3, EventFunds DEF Kept
<1>. QED
  BY <1>6, <1>7, <1>8, <1>9, <1>10, <1>11, <1>12, <1>13, <1>14, <1>15 DEF Operation

LEMMA OtherStepsFund ==
    ASSUME WorkInv, FundedInv
    PROVE  /\ \A c \in Consumers, key \in Keyed : Create(c, key) => Kept /\ Enforce("ordinary")
           /\ \A w \in Works : Reconcile(w) => Kept /\ Enforce("control")
           /\ \A w \in Works : ReclaimInactive(w) => Kept /\ Enforce("ordinary")
           /\ ReclaimOne \/ SweepFinished \/ MakeRoom => Kept /\ Enforce("control")
           /\ \A class \in {"ordinary", "control"}, key \in Keyed : WriteNote(class, key) => Kept /\ Enforce(class)
<1>0. /\ item \in [Works -> Item] /\ \A w \in Works : ItemFunded(item[w])
      /\ \A w \in DOMAIN bundle : bundle[w] \in Bundle /\ BundleFunded(bundle[w])
      /\ DOMAIN bundle \subseteq Works /\ IsFiniteSet(replays)
  BY DEF WorkInv, WorkTypeOK, FundedInv
<1>1. ASSUME NEW c \in Consumers, NEW key \in Keyed, Create(c, key)
      PROVE  Kept /\ Enforce("ordinary")
  <2>. DEFINE it == [Absent EXCEPT !.state = "open", !.events = 1, !.scopes = 1]
              w == created + 1
  <2>1. w \in Works /\ item' = [item EXCEPT ![w] = it] /\ UNCHANGED bundle /\ Enforce("ordinary") /\ Answer(key)
    BY <1>1 DEF Create
  <2>2. it.state = "open"
    BY DEF Absent
  <2>. HIDE DEF it, w
  <2>3. \A v \in Works : ItemFunded(item'[v])
    BY <1>0, <2>1, <2>2 DEF ItemFunded
  <2>4. IsFiniteSet(replays')
    BY <2>1, AnswerIsFinite
  <2>. QED
    BY <1>0, <2>1, <2>3, <2>4 DEF Kept
<1>2. ASSUME NEW w \in Works, Reconcile(w)
      PROVE  Kept /\ Enforce("control")
  <2>. DEFINE new == IF LeaseDue(w) THEN Ended(bundle[w])
                     ELSE [bundle[w] EXCEPT !.recorded = TRUE, !.overdueCredit = FALSE]
  <2>1. SetBundle(w, new) /\ Event(w, item[w]) /\ UNCHANGED replays /\ Enforce("control")
    BY <1>2 DEF Reconcile
  <2>2. w \in DOMAIN bundle
    BY <1>2 DEF Reconcile, Due, LeaseDue, OverdueDue, Active, Held
  <2>3. BundleFunded(new)
    <3>1. bundle[w] \in Bundle /\ BundleFunded(bundle[w])
      BY <1>0, <2>2
    <3>2. BundleFunded(Ended(bundle[w]))
      BY <3>1, EndedFunded
    <3>3. BundleFunded([bundle[w] EXCEPT !.recorded = TRUE, !.overdueCredit = FALSE])
      BY <3>1 DEF Bundle, BundleFunded
    <3>. QED
      BY <3>2, <3>3
  <2>. HIDE DEF new
  <2>4. \A v \in Works : ItemFunded(item'[v])
    BY <1>0, <2>1, EventFunds
  <2>5. \A v \in DOMAIN bundle' : BundleFunded(bundle'[v])
    BY <2>1, <2>2, <2>3, SetFunds
  <2>. QED
    BY <1>0, <2>1, <2>4, <2>5 DEF Kept
<1>3. ASSUME NEW w, bundle' = Without(w), UNCHANGED <<item, replays>>
      PROVE  Kept
  BY <1>0, <1>3 DEF Without, Kept
<1>4. ASSUME NEW w \in Works, ReclaimInactive(w)
      PROVE  Kept /\ Enforce("ordinary")
  BY <1>3, <1>4 DEF ReclaimInactive
<1>5. ASSUME ReclaimOne
      PROVE  Kept /\ Enforce("control")
  BY <1>3, <1>5 DEF ReclaimOne
<1>6. ASSUME SweepFinished \/ MakeRoom
      PROVE  Kept /\ Enforce("control")
  <2>1. item' = [item EXCEPT ![Head(finished)] = Absent] /\ UNCHANGED <<bundle, replays>> /\ Enforce("control")
    BY <1>6 DEF SweepFinished, MakeRoom, RemoveOldest
  <2>2. Absent.state = "absent"
    BY DEF Absent
  <2>3. \A v \in Works : item'[v] = item[v] \/ item'[v] = Absent
    BY <1>0, <2>1
  <2>4. \A v \in Works : ItemFunded(item'[v])
    BY <1>0, <2>2, <2>3 DEF ItemFunded
  <2>. QED
    BY <1>0, <2>1, <2>4 DEF Kept
<1>7. ASSUME NEW class \in {"ordinary", "control"}, NEW key \in Keyed, WriteNote(class, key)
      PROVE  Kept /\ Enforce(class)
  <2>1. Answer(key) /\ UNCHANGED <<item, bundle>> /\ Enforce(class)
    BY <1>7 DEF WriteNote
  <2>2. IsFiniteSet(replays')
    BY <2>1, AnswerIsFinite
  <2>. QED
    BY <1>0, <2>1, <2>2 DEF Kept
<1>. QED
  BY <1>1, <1>2, <1>4, <1>5, <1>6, <1>7

\* A store that fits below the reserve fits without it.
LEMMA EnforcedFits ==
    ASSUME WorkTypeOK', Kept, NEW class, Enforce(class)
    PROVE  Fits("control")'
<1>1. Numbers'
  BY NumbersLater DEF Kept
<1>2. ReservedEntries \in Nat /\ EntryLimit \in Nat
  BY WorkAssumption
<1>3. /\ notes' + Events' + Slots' <= EntryLimit - Reserve(class)
      /\ Reserve(class) \in {0, ReservedEntries}
  BY Zenon DEF Enforce, Fits, Reserve
<1>4. notes' + Events' + Slots' \in Int
  BY <1>1 DEF Numbers, Slots
<1>. HIDE DEF Slots
<1>5. notes' + Events' + Slots' <= EntryLimit - Reserve("control")
  BY <1>2, <1>3, <1>4 DEF Reserve
<1>. QED
  BY <1>5, Zenon DEF Enforce, Fits

\* The totals depend on the rows and on the credits only.
LEMMA SameTotals ==
    ASSUME WorkTypeOK, WorkTypeOK', DOMAIN bundle' = DOMAIN bundle,
           \A w \in Works : /\ item'[w].state = item[w].state /\ item'[w].events = item[w].events
                            /\ item'[w].scopes = item[w].scopes /\ item'[w].verdictCredit = item[w].verdictCredit,
           \A w \in DOMAIN bundle : /\ bundle'[w].overdueCredit = bundle[w].overdueCredit
                                    /\ bundle'[w].endCredit = bundle[w].endCredit
    PROVE  /\ Events' = Events /\ Scopes' = Scopes /\ Slots' = Slots
           /\ EndDebt' = EndDebt /\ VerdictDebt' = VerdictDebt /\ Count(Retained)' = Count(Retained)
<1>1. /\ [w \in Works |-> item'[w].events] = [w \in Works |-> item[w].events]
      /\ [w \in Works |-> item'[w].scopes] = [w \in Works |-> item[w].scopes]
  OBVIOUS
<1>2. Events' = Events /\ Scopes' = Scopes
  BY <1>1, Zenon DEF Events, Scopes, Rows
<1>3. /\ {w \in Works : w \in DOMAIN bundle' /\ bundle'[w].overdueCredit}
           = {w \in Works : w \in DOMAIN bundle /\ bundle[w].overdueCredit}
      /\ {w \in Works : w \in DOMAIN bundle' /\ bundle'[w].endCredit}
           = {w \in Works : w \in DOMAIN bundle /\ bundle[w].endCredit}
      /\ {w \in Works : item'[w].verdictCredit} = {w \in Works : item[w].verdictCredit}
      /\ {w \in Works : item'[w].state # "absent"} = {w \in Works : item[w].state # "absent"}
  OBVIOUS
<1>4. /\ OverdueDebt' = OverdueDebt /\ EndDebt' = EndDebt /\ VerdictDebt' = VerdictDebt
      /\ Count(Retained)' = Count(Retained)
  BY <1>3 DEF OverdueDebt, EndDebt, VerdictDebt, Count, Held, Retained
<1>. QED
  BY <1>2, <1>4 DEF Slots

\* A step that only takes away keeps the ceilings.
LEMMA FewerFit ==
    ASSUME Fits("control"), Numbers, notes' \in Nat, notes' <= notes,
           Cardinality(replays') \in Nat, Cardinality(replays') <= Cardinality(replays),
           Events' = Events, Scopes' = Scopes, Slots' = Slots, EndDebt' = EndDebt, VerdictDebt' = VerdictDebt,
           Count(Retained)' = Count(Retained), DOMAIN bundle' = DOMAIN bundle,
           \A w \in Works : item'[w].scopes = item[w].scopes
    PROVE  Fits("control")'
<1>1. Slots \in Int
  BY DEF Numbers, Slots
<1>2. ReservedEntries \in Nat /\ EntryLimit \in Nat /\ ReplayLimit \in Nat
  BY WorkAssumption
<1>3. /\ notes + Events + Slots <= EntryLimit
      /\ Cardinality(replays) + EndDebt + VerdictDebt <= ReplayLimit
  BY <1>2 DEF Fits, Reserve
<1>4. /\ notes' + Events + Slots <= EntryLimit - Reserve("control")
      /\ Cardinality(replays') + EndDebt + VerdictDebt <= ReplayLimit
  <2>1. ASSUME NEW a \in Nat, NEW b \in Nat, NEW p \in Int, NEW q \in Int, NEW l \in Nat, a <= b, b + p + q <= l
        PROVE  a + p + q <= l
    BY <2>1
  <2>2. /\ Events \in Nat /\ EndDebt \in Nat /\ VerdictDebt \in Nat /\ notes \in Nat
        /\ Cardinality(replays) \in Nat
    BY DEF Numbers
  <2>. DEFINE l == EntryLimit  e == Events  s == Slots  m == notes'  n == notes
  <2>3. m + e + s <= l
    <3>1. m \in Nat /\ n \in Nat /\ e \in Int /\ s \in Int /\ l \in Nat /\ m <= n /\ n + e + s <= l
      BY <1>1, <1>2, <1>3, <2>2
    <3>. HIDE DEF l, e, s, m, n
    <3>. QED
      BY <2>1, <3>1, Zenon
  <2>4. Cardinality(replays') + EndDebt + VerdictDebt <= ReplayLimit
    BY <1>2, <1>3, <2>1, <2>2
  <2>5. EntryLimit - Reserve("control") = EntryLimit
    BY <1>2 DEF Reserve
  <2>. QED
    BY <2>3, <2>4, <2>5
<1>5. /\ Events + Slots <= EventLimit
      /\ Count(Retained) <= ItemLimit
      /\ Scopes + VerdictDebt <= ScopeLimit
      /\ \A w \in Works : item[w].scopes <= ScopesPerItem
      /\ Cardinality(DOMAIN bundle) <= MaxBundles
  BY Zenon DEF Fits
<1>. QED
  BY <1>4, <1>5 DEF Fits

\* A bundle without its lease, an item without its deadline: the credits stay.
LEMMA TimeFunds ==
    ASSUME WorkInv, FundedInv, NEW w \in Works, LeaseEnds(w) \/ DeadlinePasses(w)
    PROVE  /\ DOMAIN bundle' = DOMAIN bundle
           /\ \A v \in DOMAIN bundle : /\ bundle'[v].overdueCredit = bundle[v].overdueCredit
                                       /\ bundle'[v].endCredit = bundle[v].endCredit
                                       /\ BundleFunded(bundle'[v])
           /\ \A v \in Works : /\ item'[v].state = item[v].state /\ item'[v].events = item[v].events
                               /\ item'[v].scopes = item[v].scopes
                               /\ item'[v].verdictCredit = item[v].verdictCredit
           /\ UNCHANGED <<notes, replays>>
<1>1. /\ item \in [Works -> Item] /\ \A v \in DOMAIN bundle : bundle[v] \in Bundle /\ BundleFunded(bundle[v])
  BY DEF WorkInv, WorkTypeOK, FundedInv
<1>2. CASE LeaseEnds(w)
  <2>1. ASSUME NEW h PROVE LET b == [bundle[w] EXCEPT !.lapsed = h]
                           IN  bundle[w] \in Bundle =>
                                   /\ b.overdueCredit = bundle[w].overdueCredit
                                   /\ b.endCredit = bundle[w].endCredit /\ b.active = bundle[w].active
                                   /\ b.recorded = bundle[w].recorded
    BY DEF Bundle
  <2>. DEFINE b == [bundle[w] EXCEPT !.lapsed = TRUE]
  <2>2. w \in DOMAIN bundle /\ bundle' = [bundle EXCEPT ![w] = b] /\ UNCHANGED <<item, notes, replays>>
    BY <1>2 DEF LeaseEnds, Live, Active, Held
  <2>3. /\ b.overdueCredit = bundle[w].overdueCredit /\ b.endCredit = bundle[w].endCredit
        /\ b.active = bundle[w].active /\ b.recorded = bundle[w].recorded
    BY <1>1, <2>1, <2>2, Zenon
  <2>. HIDE DEF b
  <2>4. BundleFunded(b)
    BY <1>1, <2>2, <2>3 DEF BundleFunded
  <2>5. ASSUME NEW v \in DOMAIN bundle
        PROVE  /\ bundle'[v].overdueCredit = bundle[v].overdueCredit
               /\ bundle'[v].endCredit = bundle[v].endCredit /\ BundleFunded(bundle'[v])
    <3>1. CASE v = w
      <4>1. bundle'[v] = b
        BY <2>2, <3>1
      <4>. QED
        BY <2>3, <2>4, <3>1, <4>1
    <3>2. CASE v # w
      <4>1. bundle'[v] = bundle[v]
        BY <2>2, <3>2
      <4>. QED
        BY <1>1, <4>1
    <3>. QED
      BY <3>1, <3>2
  <2>. QED
    BY <2>2, <2>5
<1>3. CASE DeadlinePasses(w)
  <2>. DEFINE it == [item[w] EXCEPT !.deadline = "passed"]
  <2>1. item' = [item EXCEPT ![w] = it] /\ UNCHANGED <<bundle, notes, replays>>
    BY <1>3 DEF DeadlinePasses
  <2>2. /\ it.state = item[w].state /\ it.events = item[w].events /\ it.scopes = item[w].scopes
        /\ it.verdictCredit = item[w].verdictCredit
    BY <1>1 DEF Item
  <2>. HIDE DEF it
  <2>. QED
    BY <1>1, <2>1, <2>2
<1>. QED
  BY <1>2, <1>3

LEMMA NotEnforcedFunds ==
    ASSUME WorkInv, WorkInv', FundedInv,
           \/ ExpireReplays \/ ExpireNote \/ RetentionEnds \/ \E k \in Keys : KeyEnds(k)
           \/ \E w \in Works : LeaseEnds(w) \/ DeadlinePasses(w)
           \/ UNCHANGED vars
    PROVE  FundedInv'
<1>1. /\ DOMAIN bundle' = DOMAIN bundle
      /\ \A v \in DOMAIN bundle : /\ bundle'[v].overdueCredit = bundle[v].overdueCredit
                                  /\ bundle'[v].endCredit = bundle[v].endCredit
                                  /\ BundleFunded(bundle'[v])
      /\ \A v \in Works : /\ item'[v].state = item[v].state /\ item'[v].events = item[v].events
                          /\ item'[v].scopes = item[v].scopes
                          /\ item'[v].verdictCredit = item[v].verdictCredit
  <2>1. CASE \E w \in Works : LeaseEnds(w) \/ DeadlinePasses(w)
    BY <2>1, TimeFunds, Zenon
  <2>2. CASE ExpireReplays \/ ExpireNote \/ RetentionEnds \/ (\E k \in Keys : KeyEnds(k)) \/ UNCHANGED vars
    <3>1. UNCHANGED <<item, bundle>>
      BY <2>2 DEF ExpireReplays, ExpireNote, RetentionEnds, KeyEnds, vars
    <3>. QED
      BY <3>1 DEF FundedInv
  <2>. QED
    BY <2>1, <2>2
<1>2. IsFiniteSet(replays) /\ notes \in Nat
  BY DEF FundedInv, WorkInv, WorkTypeOK
<1>3. /\ notes' \in Nat /\ notes' <= notes /\ IsFiniteSet(replays')
      /\ Cardinality(replays') \in Nat /\ Cardinality(replays') <= Cardinality(replays)
  <2>1. notes' = notes \/ (notes > 0 /\ notes' = notes - 1)
    <3>1. ASSUME NEW w \in Works, LeaseEnds(w) \/ DeadlinePasses(w) PROVE notes' = notes
      BY <3>1, TimeFunds
    <3>. QED
      BY <3>1 DEF ExpireReplays, ExpireNote, RetentionEnds, KeyEnds, vars
  <2>2. replays' \in SUBSET replays
    <3>1. ASSUME NEW w \in Works, LeaseEnds(w) \/ DeadlinePasses(w) PROVE replays' = replays
      BY <3>1, TimeFunds
    <3>. QED
      BY <3>1 DEF ExpireReplays, ExpireNote, RetentionEnds, KeyEnds, vars
  <2>3. IsFiniteSet(replays') /\ Cardinality(replays') <= Cardinality(replays)
    BY <1>2, <2>2, FS_Subset
  <2>. QED
    BY <1>2, <2>1, <2>3, FS_CardinalityType
<1>4. WorkTypeOK /\ WorkTypeOK'
  BY DEF WorkInv
<1>5. /\ Events' = Events /\ Scopes' = Scopes /\ Slots' = Slots
      /\ EndDebt' = EndDebt /\ VerdictDebt' = VerdictDebt /\ Count(Retained)' = Count(Retained)
  BY <1>1, <1>4, SameTotals
<1>6. Numbers /\ Fits("control")
  BY <1>2, <1>4, NumbersNow DEF FundedInv
<1>7. Fits("control")'
  BY <1>1, <1>3, <1>5, <1>6, FewerFit
<1>8. \A w \in Works : ItemFunded(item'[w])
  BY <1>1 DEF FundedInv, ItemFunded
<1>. QED
  BY <1>1, <1>3, <1>7, <1>8 DEF FundedInv

LEMMA InitFunded == ASSUME Init PROVE FundedInv
<1>1. WorkTypeOK
  BY InitWorkInv DEF WorkInv
<1>2. /\ \A w \in Works : item[w] = Absent
      /\ DOMAIN bundle = {} /\ replays = {} /\ notes = 0
  BY DEF Init
<1>3. IsFiniteSet(replays) /\ Cardinality(replays) = 0
  BY <1>2, FS_EmptySet
<1>4. Rows([w \in Works |-> item[w].events]) = {} /\ Rows([w \in Works |-> item[w].scopes]) = {}
  BY <1>2 DEF Rows, Absent
<1>5. Events = 0 /\ Scopes = 0
  BY <1>4, FS_EmptySet DEF Events, Scopes
<1>6. /\ {w \in Works : Held(w) /\ bundle[w].overdueCredit} = {}
      /\ {w \in Works : Held(w) /\ bundle[w].endCredit} = {}
  BY <1>2 DEF Held
<1>7. {w \in Works : item[w].verdictCredit} = {}
  <2>1. ~Absent.verdictCredit
    BY DEF Absent
  <2>. QED
    BY <1>2, <2>1
<1>8. {w \in Works : Retained(w)} = {}
  BY <1>2 DEF Retained, Absent
<1>9. Cardinality({}) = 0
  BY FS_EmptySet
<1>10. OverdueDebt = 0 /\ EndDebt = 0 /\ VerdictDebt = 0 /\ Count(Retained) = 0
  BY <1>6, <1>7, <1>8, <1>9, Zenon DEF OverdueDebt, EndDebt, VerdictDebt, Count
<1>11. {EntryLimit, EventLimit, ReplayLimit, ItemLimit, ScopeLimit, ScopesPerItem, MaxBundles} \subseteq Nat
  BY WorkAssumption
<1>12. Slots = 0
  BY <1>10 DEF Slots
<1>13. \A w \in Works : item[w].scopes = 0 /\ item[w].state = "absent"
  BY <1>2 DEF Absent
<1>14. Fits("control")
  BY <1>2, <1>3, <1>5, <1>9, <1>10, <1>11, <1>12, <1>13 DEF Fits, Reserve
<1>. QED
  BY <1>2, <1>3, <1>13, <1>14 DEF FundedInv, ItemFunded

LEMMA NextFunded == ASSUME WorkInv, WorkInv', FundedInv, [Next]_vars PROVE FundedInv'
<1>1. ASSUME Kept, NEW class \in {"ordinary", "control"}, Enforce(class) PROVE FundedInv'
  BY <1>1, EnforcedFits DEF WorkInv, Kept, FundedInv
<1>2. ASSUME NEW c \in Consumers, NEW key \in Keyed, Create(c, key) PROVE FundedInv'
  BY <1>1, <1>2, OtherStepsFund
<1>3. ASSUME NEW c \in Consumers, NEW key \in Keyed, NEW w \in Works, Operation(w, c, key) PROVE FundedInv'
  BY <1>1, <1>3, OperationFunds
<1>4. ASSUME NEW class \in {"ordinary", "control"}, NEW key \in Keyed, WriteNote(class, key) PROVE FundedInv'
  BY <1>1, <1>4, OtherStepsFund
<1>5. ASSUME NEW w \in Works, Reconcile(w) \/ ReclaimInactive(w) PROVE FundedInv'
  BY <1>1, <1>5, OtherStepsFund
<1>6. CASE ReclaimOne \/ SweepFinished \/ MakeRoom
  BY <1>1, <1>6, OtherStepsFund
<1>7. CASE \/ ExpireReplays \/ ExpireNote \/ RetentionEnds \/ \E k \in Keys : KeyEnds(k)
           \/ \E w \in Works : LeaseEnds(w) \/ DeadlinePasses(w)
           \/ UNCHANGED vars
  BY <1>7, NotEnforcedFunds
<1>. QED
  BY <1>2, <1>3, <1>4, <1>5, <1>6, <1>7, Zenon DEF Next

LEMMA FundedHolds == Spec => []FundedInv
<1>1. Spec => []WorkInv
  BY WorkInvHolds
<1>2. Init => FundedInv
  BY InitFunded
<1>3. WorkInv /\ WorkInv' /\ FundedInv /\ [Next]_vars => FundedInv'
  BY NextFunded
<1>. QED
  BY <1>1, <1>2, <1>3, PTL DEF Spec

\* A promised control finds its event, its entry, its replay and its scope
\* revision: every transaction that writes ends with enforce, which counts the
\* credits of the others, and every other step only takes away (work.go:774).
THEOREM ControlsFundedThm == Spec => []ControlsFunded
<1>1. ASSUME WorkInv, FundedInv PROVE ControlsFunded
  <2>1. Numbers
    BY <1>1, NumbersNow DEF WorkInv, FundedInv
  <2>2. /\ notes + Events + Slots <= EntryLimit
        /\ Events + Slots <= EventLimit
        /\ Cardinality(replays) + EndDebt + VerdictDebt <= ReplayLimit
        /\ Scopes + VerdictDebt <= ScopeLimit
    BY <1>1, WorkAssumption DEF FundedInv, Fits, Reserve
  <2>3. {EntryLimit, EventLimit} \subseteq Nat
    BY WorkAssumption
  <2>4. Slots \in Nat
    BY <2>1 DEF Numbers, Slots
  <2>5. ASSUME NEW own \in {1, 2}
        PROVE  notes + Events + 1 + Slots - own <= EntryLimit /\ Events + 1 + Slots - own <= EventLimit
    BY <2>1, <2>2, <2>3, <2>4 DEF Numbers
  <2>6. ASSUME NEW w \in Works, Active(w)
        PROVE  bundle[w].endCredit /\ (bundle[w].recorded \/ bundle[w].overdueCredit)
    BY <1>1, <2>6 DEF Active, Held, FundedInv, BundleFunded
  <2>7. ASSUME NEW w \in Works, item[w].state = "reported"
        PROVE  item[w].verdictCredit /\ item[w].scopes < ScopesPerItem
    BY <1>1, <2>7 DEF FundedInv, ItemFunded
  <2>. QED
    BY <2>2, <2>5, <2>6, <2>7, Zenon DEF ControlsFunded
<1>. QED
  BY <1>1, WorkInvHolds, FundedHolds, PTL

LEMMA OneMoreRow ==
    ASSUME NEW n \in [Works -> Nat], NEW w \in Works
    PROVE  Cardinality(Rows([n EXCEPT ![w] = @ + 1])) = Cardinality(Rows(n)) + 1
<1>. DEFINE m == [n EXCEPT ![w] = @ + 1]
            r == <<w, n[w] + 1>>
<1>1. /\ m \in [Works -> Nat] /\ m[w] = n[w] + 1 /\ n[w] \in Nat
      /\ \A v \in Works : v # w => m[v] = n[v]
  OBVIOUS
<1>. HIDE DEF m
<1>2. 1 .. m[w] = (1 .. n[w]) \cup {n[w] + 1}
  BY <1>1
<1>3. {w} \X (1 .. m[w]) = ({w} \X (1 .. n[w])) \cup {r}
  BY <1>2
<1>4. r \notin Rows(n)
  <2>1. ASSUME NEW v \in Works, r \in {v} \X (1 .. n[v]) PROVE FALSE
    <3>1. v = w /\ n[w] + 1 \in 1 .. n[w]
      BY <2>1
    <3>. QED
      BY <1>1, <3>1
  <2>. QED
    BY <2>1, Zenon DEF Rows
<1>5. Rows(m) = Rows(n) \cup {r}
  <2>1. ASSUME NEW x \in Rows(m) PROVE x \in Rows(n) \cup {r}
    <3>1. PICK v \in Works : x \in {v} \X (1 .. m[v])
      BY Zenon DEF Rows
    <3>2. v = w => x \in ({w} \X (1 .. n[w])) \cup {r}
      BY <1>3, <3>1
    <3>3. v # w => x \in {v} \X (1 .. n[v])
      BY <1>1, <3>1
    <3>. QED
      BY <3>2, <3>3, Zenon DEF Rows
  <2>2. ASSUME NEW x \in Rows(n) PROVE x \in Rows(m)
    <3>1. PICK v \in Works : x \in {v} \X (1 .. n[v])
      BY Zenon DEF Rows
    <3>2. v = w => x \in {w} \X (1 .. m[w])
      BY <1>3, <3>1
    <3>3. v # w => x \in {v} \X (1 .. m[v])
      BY <1>1, <3>1
    <3>. QED
      BY <3>1, <3>2, <3>3, Zenon DEF Rows
  <2>3. r \in Rows(m)
    <3>1. r \in {w} \X (1 .. m[w])
      BY <1>3
    <3>. QED
      BY <3>1, Zenon DEF Rows
  <2>. QED
    BY <2>1, <2>2, <2>3
<1>. HIDE DEF r
<1>6. Cardinality(Rows(n) \cup {r}) = Cardinality(Rows(n)) + 1
  BY <1>4, RowsAre, FS_AddElement
<1>. QED
  BY <1>5, <1>6 DEF m

\* A credit that is spent, and one that is not.
LEMMA OneCreditLess ==
    ASSUME NEW S \in SUBSET Works, NEW w \in S
    PROVE  Cardinality(S \ {w}) = Cardinality(S) - 1
BY WorksFinite, FS_RemoveElement

LEMMA FewerCredits ==
    ASSUME NEW S \in SUBSET Works, NEW T \in SUBSET S
    PROVE  Cardinality(T) \in Nat /\ Cardinality(T) <= Cardinality(S)
BY WorksFinite, FS_Subset, FS_CardinalityType

\* One more event, and one credit less at least.
LEMMA PaidFits ==
    ASSUME Numbers, Fits("control"), notes' = notes, DOMAIN bundle' = DOMAIN bundle,
           Events' = Events + 1, Slots' \in Nat, Slots' <= Slots - 1,
           NEW r \in Nat, NEW d \in Nat, NEW s \in Nat,
           Cardinality(replays') + EndDebt' + VerdictDebt' = r,
           r <= Cardinality(replays) + EndDebt + VerdictDebt,
           Scopes' + VerdictDebt' = s, s <= Scopes + VerdictDebt,
           Count(Retained)' = d, d <= Count(Retained),
           \A w \in Works : item'[w].scopes <= ScopesPerItem
    PROVE  Enforce("control")
<1>1. {EntryLimit, EventLimit, ReplayLimit, ItemLimit, ScopeLimit} \subseteq Nat
  BY WorkAssumption
<1>2. /\ notes + Events + Slots <= EntryLimit
      /\ Events + Slots <= EventLimit
      /\ Cardinality(replays) + EndDebt + VerdictDebt <= ReplayLimit
      /\ Count(Retained) <= ItemLimit
      /\ Scopes + VerdictDebt <= ScopeLimit
      /\ Cardinality(DOMAIN bundle) <= MaxBundles
  BY <1>1 DEF Fits, Reserve
<1>3. Slots \in Nat
  BY DEF Numbers, Slots
<1>4. /\ notes' + Events' + Slots' <= EntryLimit
      /\ Events' + Slots' <= EventLimit
  BY <1>1, <1>2, <1>3 DEF Numbers
<1>5. r <= ReplayLimit /\ d <= ItemLimit /\ s <= ScopeLimit
  BY <1>1, <1>2 DEF Numbers
<1>6. Reserve("control")' = 0 /\ EntryLimit - 0 = EntryLimit
  BY <1>1 DEF Reserve
<1>. QED
  BY <1>2, <1>4, <1>5, <1>6 DEF Enforce, Fits, Reserve

LEMMA EventTotals ==
    ASSUME WorkInv, NEW w \in Works, NEW it \in Item, Event(w, it), it.events = item[w].events,
           it.state # "absent", Retained(w)
    PROVE  /\ Events' = Events + 1 /\ Count(Retained)' = Count(Retained)
           /\ it.scopes = item[w].scopes => Scopes' = Scopes
           /\ it.scopes = item[w].scopes + 1 => Scopes' = Scopes + 1
           /\ it.verdictCredit = item[w].verdictCredit => VerdictDebt' = VerdictDebt
           /\ item[w].verdictCredit /\ ~it.verdictCredit => VerdictDebt' = VerdictDebt - 1
           /\ item'[w].scopes = it.scopes /\ \A v \in Works : v # w => item'[v] = item[v]
<1>. DEFINE new == [it EXCEPT !.events = @ + 1]
            es == [v \in Works |-> item[v].events]
            ss == [v \in Works |-> item[v].scopes]
            S == {v \in Works : item[v].verdictCredit}
<1>1. item' = [item EXCEPT ![w] = new] /\ item \in [Works -> Item]
  BY DEF Event, WorkInv, WorkTypeOK
<1>2. /\ new.events = it.events + 1 /\ new.state = it.state /\ new.scopes = it.scopes
      /\ new.verdictCredit = it.verdictCredit
  BY DEF Item
<1>3. es \in [Works -> Nat] /\ ss \in [Works -> Nat]
  BY <1>1, FieldsAre
<1>. HIDE DEF new
<1>4. item'[w] = new /\ \A v \in Works : v # w => item'[v] = item[v]
  BY <1>1
<1>5. [v \in Works |-> item'[v].events] = [es EXCEPT ![w] = @ + 1]
  BY <1>2, <1>4
<1>6. /\ it.scopes = item[w].scopes => [v \in Works |-> item'[v].scopes] = ss
      /\ it.scopes = item[w].scopes + 1 => [v \in Works |-> item'[v].scopes] = [ss EXCEPT ![w] = @ + 1]
  BY <1>2, <1>4
<1>7. Events = Cardinality(Rows(es)) /\ Events' = Cardinality(Rows([v \in Works |-> item'[v].events]))
  BY DEF Events, Rows
<1>8. Scopes = Cardinality(Rows(ss)) /\ Scopes' = Cardinality(Rows([v \in Works |-> item'[v].scopes]))
  BY DEF Scopes, Rows
<1>9. Events' = Events + 1
  <2>. HIDE DEF es
  <2>. QED
    BY <1>3, <1>5, <1>7, OneMoreRow
<1>10. /\ it.scopes = item[w].scopes => Scopes' = Scopes
       /\ it.scopes = item[w].scopes + 1 => Scopes' = Scopes + 1
  <2>. HIDE DEF ss
  <2>. QED
    BY <1>3, <1>6, <1>8, OneMoreRow
<1>11. {v \in Works : item'[v].state # "absent"} = {v \in Works : item[v].state # "absent"}
  BY <1>2, <1>4 DEF Retained
<1>12. Count(Retained)' = Count(Retained)
  BY <1>11 DEF Count, Retained
<1>13. /\ it.verdictCredit = item[w].verdictCredit => {v \in Works : item'[v].verdictCredit} = S
       /\ item[w].verdictCredit /\ ~it.verdictCredit => {v \in Works : item'[v].verdictCredit} = S \ {w}
  BY <1>2, <1>4
<1>14. VerdictDebt = Cardinality(S) /\ VerdictDebt' = Cardinality({v \in Works : item'[v].verdictCredit})
  BY DEF VerdictDebt, Count
<1>15. item[w].verdictCredit => Cardinality(S \ {w}) = Cardinality(S) - 1
  <2>1. S \in SUBSET Works /\ (item[w].verdictCredit => w \in S)
    OBVIOUS
  <2>. HIDE DEF S
  <2>. QED
    BY <2>1, OneCreditLess
<1>. QED
  BY <1>2, <1>4, <1>9, <1>10, <1>12, <1>13, <1>14, <1>15

\* The credits of the bundles when one bundle gives some of its own back.
LEMMA BundleTotals ==
    ASSUME WorkInv, NEW w \in DOMAIN bundle, NEW b, SetBundle(w, b),
           b.overdueCredit => bundle[w].overdueCredit, b.endCredit => bundle[w].endCredit
    PROVE  /\ DOMAIN bundle' = DOMAIN bundle
           /\ OverdueDebt' \in Nat /\ OverdueDebt' <= OverdueDebt
           /\ EndDebt' \in Nat /\ EndDebt' <= EndDebt
           /\ bundle[w].overdueCredit /\ ~b.overdueCredit => OverdueDebt' = OverdueDebt - 1
           /\ bundle[w].endCredit /\ ~b.endCredit => EndDebt' = EndDebt - 1
           /\ bundle[w].endCredit /\ b.endCredit => EndDebt' = EndDebt
<1>. DEFINE O == {v \in Works : v \in DOMAIN bundle /\ bundle[v].overdueCredit}
            P == {v \in Works : v \in DOMAIN bundle' /\ bundle'[v].overdueCredit}
            E == {v \in Works : v \in DOMAIN bundle /\ bundle[v].endCredit}
            F == {v \in Works : v \in DOMAIN bundle' /\ bundle'[v].endCredit}
<1>1. /\ bundle' = [bundle EXCEPT ![w] = b] /\ w \in Works
      /\ DOMAIN bundle' = DOMAIN bundle /\ bundle'[w] = b
      /\ \A v \in DOMAIN bundle : v # w => bundle'[v] = bundle[v]
  BY DEF SetBundle, WorkInv, WorkTypeOK
<1>2. O \in SUBSET Works /\ E \in SUBSET Works /\ P \in SUBSET O /\ F \in SUBSET E
  BY <1>1
<1>3. /\ bundle[w].overdueCredit /\ ~b.overdueCredit => P = O \ {w} /\ w \in O
      /\ bundle[w].endCredit /\ ~b.endCredit => F = E \ {w} /\ w \in E
      /\ bundle[w].endCredit /\ b.endCredit => F = E
  BY <1>1
<1>4. /\ OverdueDebt = Cardinality(O) /\ OverdueDebt' = Cardinality(P)
      /\ EndDebt = Cardinality(E) /\ EndDebt' = Cardinality(F)
  BY Zenon DEF OverdueDebt, EndDebt, Count, Held
<1>. HIDE DEF O, P, E, F
<1>. QED
  BY <1>1, <1>2, <1>3, <1>4, OneCreditLess, FewerCredits

\* What a control writes before the check that ends its transaction: the end of
\* a claim (release, finish, and reconcile of a lapsed lease), the record of an
\* overdue epoch (reconcile), a verdict (accept and reject).
WritesEnd(w, it) ==
    /\ Active(w) /\ SetBundle(w, Ended(bundle[w]))
    /\ it.scopes = item[w].scopes /\ it.verdictCredit = item[w].verdictCredit

WritesOverdue(w, it) ==
    /\ OverdueDue(w) /\ SetBundle(w, [bundle[w] EXCEPT !.recorded = TRUE, !.overdueCredit = FALSE])
    /\ it = item[w] /\ UNCHANGED replays

WritesVerdict(w, it) ==
    /\ item[w].state = "reported" /\ UNCHANGED bundle
    /\ ~it.verdictCredit /\ it.scopes \in {item[w].scopes, item[w].scopes + 1}

\* A promised control is never refused at a ceiling, in any state the store
\* reaches: with at most one replay key, whatever it writes to its item, its
\* transaction passes the check (memory.go:313, 339, work.go:774).
THEOREM PromisedControlsFit ==
    ASSUME WorkInv, FundedInv, NEW w \in Works, NEW it \in Item, NEW k,
           it.state # "absent", it.events = item[w].events, Event(w, it),
           UNCHANGED notes, replays' \in {replays, replays \cup {k}},
           WritesEnd(w, it) \/ WritesOverdue(w, it) \/ WritesVerdict(w, it)
    PROVE  Enforce("control")
<1>1. Numbers /\ Fits("control") /\ IsFiniteSet(replays)
  BY NumbersNow DEF WorkInv, FundedInv
<1>2. Retained(w)
  BY DEF WritesEnd, WritesOverdue, WritesVerdict, Active, OverdueDue, Held, Retained, WorkInv, StoreCompatible
<1>3. /\ Events' = Events + 1 /\ Count(Retained)' = Count(Retained)
      /\ it.scopes = item[w].scopes => Scopes' = Scopes
      /\ it.scopes = item[w].scopes + 1 => Scopes' = Scopes + 1
      /\ it.verdictCredit = item[w].verdictCredit => VerdictDebt' = VerdictDebt
      /\ item[w].verdictCredit /\ ~it.verdictCredit => VerdictDebt' = VerdictDebt - 1
      /\ item'[w].scopes = it.scopes /\ \A v \in Works : v # w => item'[v] = item[v]
  BY <1>2, EventTotals
<1>4. Cardinality(replays') \in Nat /\ Cardinality(replays') <= Cardinality(replays) + 1
  <2>1. Cardinality(replays \cup {k}) \in {Cardinality(replays), Cardinality(replays) + 1}
    BY <1>1, FS_AddElement
  <2>. QED
    BY <1>1, <2>1 DEF Numbers
<1>5. \A v \in Works : item[v].scopes <= ScopesPerItem
  BY <1>1, Zenon DEF Fits
<1>6. /\ Events \in Nat /\ Scopes \in Nat /\ OverdueDebt \in Nat /\ EndDebt \in Nat
      /\ VerdictDebt \in Nat /\ Count(Retained) \in Nat /\ Cardinality(replays) \in Nat
  BY <1>1 DEF Numbers
<1>7. CASE WritesEnd(w, it) \/ WritesOverdue(w, it)
  <2>1. /\ DOMAIN bundle' = DOMAIN bundle
        /\ OverdueDebt' \in Nat /\ EndDebt' \in Nat /\ OverdueDebt' <= OverdueDebt /\ EndDebt' <= EndDebt
        /\ OverdueDebt' + EndDebt' <= OverdueDebt + EndDebt - 1
        /\ Cardinality(replays') + EndDebt' <= Cardinality(replays) + EndDebt
    <3>1. w \in DOMAIN bundle /\ bundle[w] \in Bundle /\ BundleFunded(bundle[w]) /\ bundle[w].active
      BY <1>7 DEF WritesEnd, WritesOverdue, OverdueDue, Active, Held, WorkInv, WorkTypeOK, FundedInv
    <3>2. CASE WritesEnd(w, it)
      <4>1. /\ DOMAIN bundle' = DOMAIN bundle /\ OverdueDebt' \in Nat /\ OverdueDebt' <= OverdueDebt
            /\ EndDebt' = EndDebt - 1 /\ EndDebt' \in Nat
        BY <3>1, <3>2, EndedFunded, BundleTotals DEF WritesEnd, BundleFunded
      <4>2. OverdueDebt' + EndDebt' <= OverdueDebt + EndDebt - 1 /\ EndDebt' <= EndDebt
        BY <1>6, <4>1
      <4>3. Cardinality(replays') + EndDebt' <= Cardinality(replays) + EndDebt
        <5>1. ASSUME NEW a \in Nat, NEW b \in Nat, NEW x \in Nat, NEW y \in Nat, x <= a + 1, y = b - 1
              PROVE  x + y <= a + b
          BY <5>1
        <5>. QED
          BY <1>4, <1>6, <4>1, <5>1, Zenon
      <4>. QED
        BY <4>1, <4>2, <4>3
    <3>3. CASE WritesOverdue(w, it)
      <4>. DEFINE b == [bundle[w] EXCEPT !.recorded = TRUE, !.overdueCredit = FALSE]
      <4>1. ~b.overdueCredit /\ b.endCredit = bundle[w].endCredit
        BY <3>1 DEF Bundle
      <4>2. SetBundle(w, b) /\ bundle[w].overdueCredit /\ bundle[w].endCredit /\ replays' = replays
        BY <3>1, <3>3 DEF WritesOverdue, OverdueDue, BundleFunded
      <4>. HIDE DEF b
      <4>3. /\ DOMAIN bundle' = DOMAIN bundle /\ OverdueDebt' \in Nat /\ OverdueDebt' = OverdueDebt - 1
            /\ EndDebt' = EndDebt /\ EndDebt' \in Nat
        BY <3>1, <4>1, <4>2, BundleTotals
      <4>. QED
        BY <1>6, <4>2, <4>3
    <3>. QED
      BY <1>7, <3>2, <3>3
  <2>2. it.scopes = item[w].scopes /\ it.verdictCredit = item[w].verdictCredit
    BY <1>7 DEF WritesEnd, WritesOverdue
  <2>3. VerdictDebt' = VerdictDebt /\ Scopes' = Scopes
    BY <1>3, <2>2
  <2>4. Slots' \in Nat /\ Slots' <= Slots - 1
    BY <1>6, <2>1, <2>3 DEF Slots
  <2>5. \A v \in Works : item'[v].scopes <= ScopesPerItem
    BY <1>3, <1>5, <2>2
  <2>. DEFINE r == Cardinality(replays') + EndDebt' + VerdictDebt'
              s == Scopes' + VerdictDebt'
              d == Count(Retained)'
  <2>6. /\ r \in Nat /\ r <= Cardinality(replays) + EndDebt + VerdictDebt
        /\ s \in Nat /\ s <= Scopes + VerdictDebt /\ d \in Nat /\ d <= Count(Retained)
    BY <1>3, <1>4, <1>6, <2>1, <2>3
  <2>. QED
    BY <1>1, <1>3, <2>1, <2>4, <2>5, <2>6, PaidFits
<1>8. CASE WritesVerdict(w, it)
  <2>1. item[w].verdictCredit /\ item[w].scopes < ScopesPerItem /\ item[w] \in Item
    BY <1>8 DEF WritesVerdict, FundedInv, ItemFunded, WorkInv, WorkTypeOK
  <2>2. bundle' = bundle /\ ~it.verdictCredit /\ it.scopes \in {item[w].scopes, item[w].scopes + 1}
    BY <1>8 DEF WritesVerdict
  <2>3. VerdictDebt' = VerdictDebt - 1 /\ Scopes' \in {Scopes, Scopes + 1}
    BY <1>3, <2>1, <2>2
  <2>4. OverdueDebt' = OverdueDebt /\ EndDebt' = EndDebt
    BY <2>2, Zenon DEF OverdueDebt, EndDebt, Count, Held
  <2>5. VerdictDebt # 0
    <3>1. w \in {v \in Works : item[v].verdictCredit} /\ {v \in Works : item[v].verdictCredit} \in SUBSET Works
      BY <2>1
    <3>. DEFINE S == {v \in Works : item[v].verdictCredit}
    <3>. HIDE DEF S
    <3>2. S \in SUBSET Works /\ w \in S
      BY <3>1 DEF S
    <3>3. Cardinality(S) # 0
      BY <3>2, WorksFinite, FS_EmptySet
    <3>. QED
      BY <3>3, Zenon DEF S, VerdictDebt, Count
  <2>6. VerdictDebt' \in Nat
    BY <1>6, <2>3, <2>5
  <2>7. Slots' \in Nat /\ Slots' <= Slots - 1
    BY <1>6, <2>3, <2>4, <2>6 DEF Slots
  <2>8. \A v \in Works : item'[v].scopes <= ScopesPerItem
    <3>1. item[w].scopes \in Nat /\ ScopesPerItem \in Nat
      BY <2>1, WorkAssumption DEF Item
    <3>2. item'[w].scopes <= ScopesPerItem
      BY <1>3, <2>1, <2>2, <3>1
    <3>. QED
      BY <1>3, <1>5, <3>2
  <2>. DEFINE r == Cardinality(replays') + EndDebt' + VerdictDebt'
              s == Scopes' + VerdictDebt'
              d == Count(Retained)'
  <2>9. /\ r \in Nat /\ r <= Cardinality(replays) + EndDebt + VerdictDebt
        /\ s \in Nat /\ s <= Scopes + VerdictDebt /\ d \in Nat /\ d <= Count(Retained)
    <3>1. EndDebt' \in Nat /\ Scopes' \in Nat /\ d \in Nat /\ d <= Count(Retained)
      BY <1>3, <1>6, <2>3, <2>4
    <3>2. r \in Nat /\ r <= Cardinality(replays) + EndDebt + VerdictDebt
      BY <1>4, <1>6, <2>3, <2>4, <2>6, <3>1
    <3>3. s \in Nat /\ s <= Scopes + VerdictDebt
      <4>1. ASSUME NEW a \in Nat, NEW b \in Nat, NEW c \in Nat, NEW e \in Nat, c \in {a, a + 1}, e = b - 1
            PROVE  c + e \in Nat /\ c + e <= a + b
        BY <4>1
      <4>. HIDE DEF r, d
      <4>. QED
        BY <1>6, <2>3, <2>6, <3>1, <4>1, Zenon
    <3>. QED
      BY <3>1, <3>2, <3>3
  <2>10. DOMAIN bundle' = DOMAIN bundle
    BY <2>2
  <2>. QED
    BY <1>1, <1>3, <2>7, <2>8, <2>9, <2>10, PaidFits
<1>. QED
  BY <1>7, <1>8

-----------------------------------------------------------------------------
(* Storage, for every ceiling, reserve, slack and credit.  The inductive invariant says of an open *)
(* transaction that it started from the present pages and debt and an empty log.                   *)

\* The open transaction's view, against the committed state.
TxSound ==
    tx.open =>
        /\ log = 0
        /\ tx.free <= tx.pages
        /\ tx.debt = debt - tx.spent + tx.added
        /\ tx.spent <= debt
        /\ ~tx.wrote => tx.spent = 0 /\ tx.added = 0
        /\ step = "none"

StorageInv == StorageTypeOK /\ Solvent /\ TxSound

\* The closed transaction is one.
LEMMA NoTxSound == NoTx \in Tx /\ ~NoTx.open
  BY DEF NoTx, Tx, Class

\* A new database satisfies the invariant.
LEMMA StorageInvInit == ASSUME StorageAssumption, StorageInit PROVE StorageInv
  <1>1. blocked \in BOOLEAN /\ step \in {"none", "admit", "memory", "recover"}
    BY DEF StorageInit
  <1>2. tx \in Tx /\ ~tx.open
    BY NoTxSound DEF StorageInit
  <1>3. /\ pages \in Nat /\ free \in 0..pages /\ debt \in Nat /\ log \in Nat
        /\ pages + debt <= MaxPages
    BY DEF StorageInit, StorageAssumption
  <1> QED BY <1>1, <1>2, <1>3 DEF StorageInv, StorageTypeOK, Solvent, TxSound

\* Opening a transaction on the committed pages, with an empty log.
LEMMA OpenedSound ==
    ASSUME NEW class \in Class, StorageTypeOK
    PROVE  LET t == Opened(class, pages, free)
           IN  /\ t \in Tx /\ t.free <= t.pages /\ t.debt = debt - t.spent + t.added
               /\ t.spent = 0 /\ t.added = 0 /\ t.spent <= debt
  BY DEF Opened, Tx, StorageTypeOK

\* A vacuum shrinks the database (reclaim, Recover).
LEMMA VacuumSound ==
    ASSUME StorageInv, StorageAssumption, NEW before \in Nat, Vacuum(before), debt' = debt
    PROVE  /\ pages' \in Nat /\ free' \in 0..pages' /\ log' \in Nat /\ pages' <= pages
           /\ Solvent'
  BY DEF StorageInv, StorageTypeOK, Solvent, Vacuum, StorageAssumption

\* Every step of the boundary keeps the invariant.
LEMMA StorageInvNext ==
    ASSUME StorageAssumption, StorageInv, [StorageNext]_storageVars
    PROVE  StorageInv'
  <1> USE DEF StorageInv
  <1>1. CASE \E class \in Class : Begin(class)
    <2> PICK class \in Class : Begin(class)
      BY <1>1
    <2>1. tx' = Opened(class, pages, free) /\ log' = 0 /\ UNCHANGED <<pages, free, debt, blocked, step>>
      BY DEF Begin
    <2>2. StorageTypeOK' /\ Solvent'
      BY <2>1, OpenedSound DEF StorageTypeOK, Solvent
    <2>3. TxSound'
      BY <2>1, OpenedSound DEF TxSound, Begin, Idle
    <2> QED BY <2>2, <2>3
  <1>2. CASE BeginFails
    BY <1>2 DEF BeginFails, StorageTypeOK, Solvent, TxSound
  <1>3. CASE BeginReclaim \/ MemoryReclaim \/ Recover
    <2>1. PICK before \in Nat : Vacuum(before)
      BY <1>3 DEF BeginReclaim, MemoryReclaim, Recover, StorageTypeOK
    <2>2. /\ ~tx.open /\ step' \in {"admit", "memory", "recover"}
          /\ UNCHANGED <<debt, blocked, tx>>
      BY <1>3 DEF BeginReclaim, MemoryReclaim, Recover, Idle
    <2>3. /\ pages' \in Nat /\ free' \in 0..pages' /\ log' \in Nat
          /\ Solvent'
      BY <2>1, <2>2, VacuumSound
    <2>4. StorageTypeOK'
      BY <2>2, <2>3 DEF StorageTypeOK
    <2>5. TxSound'
      BY <2>2 DEF TxSound
    <2> QED BY <2>3, <2>4, <2>5
  <1>4. CASE Proven
    <2>1. CASE tx' = tx
      BY <1>4, <2>1 DEF Proven, StorageTypeOK, Solvent, TxSound
    <2>2. CASE tx' = Opened("ordinary", pages, free)
      <3>1. StorageTypeOK' /\ Solvent'
        BY <1>4, <2>2, OpenedSound DEF Proven, StorageTypeOK, Solvent, Class
      <3>2. TxSound'
        BY <1>4, <2>2, OpenedSound DEF Proven, TxSound, Class
      <3> QED BY <3>1, <3>2
    <2> QED BY <1>4, <2>1, <2>2 DEF Proven
  <1>5. CASE \E cancelled \in BOOLEAN : ProofFails(cancelled)
    BY <1>5 DEF ProofFails, StorageTypeOK, Solvent, TxSound
  <1>6. CASE \E n, freed \in 0..MaxGrowth, spent, added \in Credit \cup {0} :
                Write(n, freed, spent, added)
    <2> PICK n \in 0..MaxGrowth, freed \in 0..MaxGrowth,
             spent \in Credit \cup {0}, added \in Credit \cup {0} :
             Write(n, freed, spent, added)
      BY <1>6
    <2>1. /\ n \in Nat /\ freed \in Nat /\ spent \in Nat /\ added \in Nat
          /\ tx \in Tx /\ tx.pages \in Nat /\ tx.free \in Nat /\ tx.debt \in Nat
          /\ debt \in Nat /\ tx.spent \in Nat /\ tx.added \in Nat
      BY DEF StorageAssumption, StorageTypeOK, Tx
    <2>2. tx.open /\ ~tx.wrote /\ spent <= debt
      BY DEF Write
    <2> DEFINE grown == tx.pages + Taken(n)
               left == Unused(n, freed)
    <2>3. grown \in Nat /\ left \in Nat /\ left <= grown
      BY <2>1 DEF Taken, Unused, Write
    <2>4. tx.debt = debt /\ step = "none" /\ log = 0
      BY <2>1, <2>2 DEF TxSound
    <2>5. tx' = [open |-> TRUE, class |-> tx.class, wrote |-> TRUE, pages |-> grown, free |-> left,
                 debt |-> tx.debt - spent + added, spent |-> spent, added |-> added]
      BY DEF Write
    <2>6. UNCHANGED <<pages, free, debt, log, blocked, step>>
      BY DEF Write
    <2> HIDE DEF grown, left
    <2>7. tx.debt - spent + added \in Nat
      BY <2>1, <2>2, <2>4
    <2>8. tx' \in Tx
      BY <2>1, <2>3, <2>5, <2>7 DEF Tx
    <2>9. StorageTypeOK' /\ Solvent'
      BY <2>6, <2>8 DEF StorageTypeOK, Solvent
    <2>10. TxSound'
      BY <2>1, <2>2, <2>3, <2>4, <2>5, <2>6 DEF TxSound, Tx
    <2> QED BY <2>9, <2>10
  <1>7. CASE \E n \in 0..MaxGrowth : EngineFull(n)
    <2>1. StorageTypeOK' /\ Solvent'
      BY <1>7, NoTxSound DEF EngineFull, StorageTypeOK, Solvent
    <2>2. TxSound'
      BY <1>7, NoTxSound DEF EngineFull, TxSound
    <2> QED BY <2>1, <2>2
  <1>8. CASE \E extra \in 0..CommitSlack : CommitWrite(extra)
    <2> PICK extra \in 0..CommitSlack : CommitWrite(extra)
      BY <1>8
    <2>1. /\ pages' = tx.pages + extra /\ free' = tx.free /\ debt' = tx.debt /\ log' = log + 1
          /\ tx' = NoTx /\ UNCHANGED <<blocked, step>>
          /\ tx.open /\ FitsCeiling(tx)
      BY DEF CommitWrite
    <2>2. /\ tx.pages \in Nat /\ tx.free \in Nat /\ tx.debt \in Nat /\ tx.class \in Class
          /\ extra \in Nat /\ extra <= CommitSlack
          /\ CommitSlack \in Nat /\ MaxPages \in Nat /\ ReservePages \in Nat
      BY DEF StorageTypeOK, Tx, StorageAssumption
    <2>3. tx.free <= tx.pages
      BY <2>1 DEF TxSound
    <2>4. Solvent'
      BY <2>1, <2>2 DEF Solvent, FitsCeiling, Ceiling, Class
    <2>5. StorageTypeOK'
      BY <2>1, <2>2, <2>3, NoTxSound DEF StorageTypeOK
    <2>6. TxSound'
      BY <2>1, NoTxSound DEF TxSound
    <2> QED BY <2>4, <2>5, <2>6
  <1>9. CASE Rollback \/ Reopen
    <2>1. /\ blocked' \in BOOLEAN /\ step' \in {"none", "admit", "memory", "recover"}
          /\ log' \in Nat /\ UNCHANGED <<pages, free, debt>>
      <3>1. CASE Rollback
        BY <3>1 DEF Rollback, StorageTypeOK
      <3>2. CASE Reopen
        <4>1. blocked' \in BOOLEAN
          BY <3>2, Zenon DEF Reopen
        <4> QED BY <3>2, <4>1 DEF Reopen
      <3> QED BY <1>9, <3>1, <3>2
    <2>2. tx' \in Tx /\ ~tx'.open
      BY <1>9, NoTxSound DEF Rollback, Reopen
    <2>3. StorageTypeOK' /\ Solvent'
      BY <2>1, <2>2 DEF StorageTypeOK, Solvent
    <2>4. TxSound'
      BY <2>2 DEF TxSound
    <2> QED BY <2>3, <2>4
  <1>10. CASE UNCHANGED storageVars
    BY <1>10 DEF storageVars, StorageTypeOK, Solvent, TxSound
  <1> QED BY <1>1, <1>2, <1>3, <1>4, <1>5, <1>6, <1>7, <1>8, <1>9, <1>10 DEF StorageNext

\* The inductive invariant holds in every reachable state.
THEOREM StorageInvariant == StorageSpec => []StorageInv
  <1>1. StorageInit => StorageInv
    BY StorageInvInit, StorageAssumption
  <1>2. StorageInv /\ [StorageNext]_storageVars => StorageInv'
    BY StorageInvNext, StorageAssumption
  <1> QED BY <1>1, <1>2, PTL DEF StorageSpec

\* The pages of the debt stay allocatable below the engine's ceiling, for
\* every order of ordinary and control writes, reclaims and stops (Commit).
THEOREM SolventThm == StorageSpec => []Solvent
  <1>1. StorageInv => Solvent
    BY DEF StorageInv
  <1> QED BY <1>1, StorageInvariant, PTL

\* A promised control write within its credit always fits (Commit, full).
THEOREM FundedNeverRefusedThm == StorageSpec => []FundedNeverRefused
  <1>1. ASSUME StorageInv PROVE FundedNeverRefused
    <2> SUFFICES ASSUME tx.open, tx.added = 0, tx.pages - pages + CommitSlack <= tx.spent
                 PROVE  tx.pages + tx.debt <= MaxPages - CommitSlack
      BY DEF FundedNeverRefused
    <2>1. tx.debt = debt - tx.spent /\ pages + debt <= MaxPages
      BY <1>1 DEF StorageInv, TxSound, Solvent, StorageTypeOK, Tx
    <2>2. /\ tx.pages \in Nat /\ tx.spent \in Nat /\ tx.debt \in Nat
          /\ pages \in Nat /\ debt \in Nat /\ MaxPages \in Nat /\ CommitSlack \in Nat
      BY <1>1, StorageAssumption DEF StorageInv, StorageTypeOK, Tx, StorageAssumption
    <2> QED BY <2>1, <2>2
  <1> QED BY <1>1, StorageInvariant, PTL

\* Every write transaction starts from a log that was proven empty (begin).
THEOREM WritesStartFromEmptyLogThm == StorageSpec => []WritesStartFromEmptyLog
  <1>1. StorageInv => WritesStartFromEmptyLog
    BY DEF StorageInv, TxSound, WritesStartFromEmptyLog
  <1> QED BY <1>1, StorageInvariant, PTL
=============================================================================
