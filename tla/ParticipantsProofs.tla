------------------------- MODULE ParticipantsProofs -------------------------
(***************************************************************************)
(* Proofs about Participants, for every set of sessions, addresses,        *)
(* launches and hosts.  Each transaction is a composition of the pure      *)
(* operators on a database value, so the inductive step is carried by one  *)
(* lemma per operator: it maps a sound database value to a sound one.  The *)
(* same composition says, at the end, how an address passes from a session *)
(* to another: the outcomes of the holder rules and then of succession.    *)
(***************************************************************************)
EXTENDS Participants, TLAPS

DbType == [sess : [Session -> Row],
           holder : [Address -> Session \cup {NoSession}],
           conflict : [Address -> SUBSET Session],
           fences : [Address -> SUBSET Session]]

\* What every transaction keeps of the tables: no fenced holder, and no holder
\* beside a recorded conflict.
Sound(d) ==
    /\ d \in DbType
    /\ \A a \in Address : /\ d.holder[a] \notin d.fences[a]
                          /\ d.conflict[a] # {} => d.holder[a] = NoSession

\* Retiring an active session keeps the sessions table's type.
LEMMA RetireRowType ==
    ASSUME NEW rows \in [Session -> Row], NEW s \in Session
    PROVE  RetireRow(rows, s) \in [Session -> Row]
  <1>1. [rows[s] EXCEPT !.state = "inactive"] \in Row
    BY DEF Row
  <1>2. [rows EXCEPT ![s].state = "inactive"] = [rows EXCEPT ![s] = [rows[s] EXCEPT !.state = "inactive"]]
    OBVIOUS
  <1> QED BY <1>1, <1>2 DEF RetireRow

\* Superseding a session keeps the types, and only adds fences.
LEMMA SupersedeType ==
    ASSUME NEW d \in DbType, NEW a \in Address, NEW f \in Session
    PROVE  /\ Supersede(d, a, f) \in DbType
           /\ Supersede(d, a, f).holder = d.holder
           /\ Supersede(d, a, f).conflict = d.conflict
           /\ Supersede(d, a, f).fences = [d.fences EXCEPT ![a] = @ \cup {f}]
           /\ Supersede(d, a, f).sess = RetireRow(d.sess, f)
  <1>1. d.sess \in [Session -> Row] /\ d.fences \in [Address -> SUBSET Session]
    BY DEF DbType
  <1>2. RetireRow(d.sess, f) \in [Session -> Row]
    BY <1>1, RetireRowType
  <1>3. [d.fences EXCEPT ![a] = @ \cup {f}] \in [Address -> SUBSET Session]
    BY <1>1
  <1> QED BY <1>2, <1>3 DEF Supersede, DbType

\* setHolder of a session that is not fenced keeps the tables sound: the former
\* holder that it fences is no longer the holder (names.go setHolder).
LEMMA SetHolderSound ==
    ASSUME NEW d, Sound(d), NEW a \in Address, NEW s \in Session, s \notin d.fences[a]
    PROVE  Sound(SetHolder(d, a, s))
  <1> DEFINE former == d.holder[a]
             base == IF former \in {NoSession, s} THEN d ELSE Supersede(d, a, former)
             e == SetHolder(d, a, s)
  <1>1. d \in DbType /\ former \in Session \cup {NoSession}
    BY DEF Sound, DbType
  <1>2. /\ base \in DbType
        /\ base.fences \in {d.fences, [d.fences EXCEPT ![a] = @ \cup {former}]}
        /\ former = s => base.fences = d.fences
    <2>1. CASE former \in {NoSession, s}
      BY <1>1, <2>1
    <2>2. CASE former \notin {NoSession, s}
      BY <1>1, <2>2, SupersedeType
    <2> QED BY <2>1, <2>2
  <1>3. e = [base EXCEPT !.holder = [d.holder EXCEPT ![a] = s],
                         !.conflict = [d.conflict EXCEPT ![a] = {}]]
    BY DEF SetHolder
  <1> HIDE DEF base, e
  <1>4. /\ e \in DbType
        /\ e.fences = base.fences
        /\ e.holder = [d.holder EXCEPT ![a] = s]
        /\ e.conflict = [d.conflict EXCEPT ![a] = {}]
    BY <1>1, <1>2, <1>3 DEF DbType
  <1>5. ASSUME NEW b \in Address
        PROVE  e.holder[b] \notin e.fences[b] /\ (e.conflict[b] # {} => e.holder[b] = NoSession)
    BY <1>1, <1>2, <1>4 DEF Sound, DbType
  <1> QED BY <1>4, <1>5 DEF Sound, e

\* A recorded conflict leaves nobody holding, whoever held (assignNames).
LEMMA RecordConflictSound ==
    ASSUME NEW d, Sound(d), NEW a \in Address, NoSession \notin Session
    PROVE  Sound(RecordConflict(d, a))
  <1> DEFINE former == d.holder[a]
             base == IF former = NoSession THEN d ELSE Supersede(d, a, former)
             e == RecordConflict(d, a)
  <1>1. d \in DbType /\ former \in Session \cup {NoSession} /\ Qualifiers(d, a) \subseteq Session
    BY DEF Sound, DbType, Qualifiers
  <1>2. /\ base \in DbType
        /\ base.fences \in {d.fences, [d.fences EXCEPT ![a] = @ \cup {former}]}
    <2>1. CASE former = NoSession
      BY <1>1, <2>1
    <2>2. CASE former # NoSession
      BY <1>1, <2>2, SupersedeType
    <2> QED BY <2>1, <2>2
  <1>3. e = [base EXCEPT !.holder = [d.holder EXCEPT ![a] = NoSession],
                         !.conflict = [d.conflict EXCEPT ![a] = Qualifiers(d, a)]]
    BY DEF RecordConflict
  <1> HIDE DEF base, e
  <1>4. /\ e \in DbType
        /\ e.fences = base.fences
        /\ e.holder = [d.holder EXCEPT ![a] = NoSession]
        /\ e.conflict = [d.conflict EXCEPT ![a] = Qualifiers(d, a)]
    BY <1>1, <1>2, <1>3 DEF DbType
  <1>5. ASSUME NEW b \in Address
        PROVE  e.holder[b] \notin e.fences[b] /\ (e.conflict[b] # {} => e.holder[b] = NoSession)
    <2>1. e.fences[b] \subseteq Session
      BY <1>4 DEF DbType
    <2>2. CASE b = a
      BY <1>1, <1>4, <2>1, <2>2 DEF DbType
    <2>3. CASE b # a
      BY <1>1, <1>2, <1>4, <2>3 DEF Sound, DbType
    <2> QED BY <2>2, <2>3
  <1> QED BY <1>4, <1>5 DEF Sound, e

\* Releasing addresses only empties holders (names.go releaseAddress).
LEMMA ReleaseAddressSound ==
    ASSUME NEW d, Sound(d), NEW s \in Session, NoSession \notin Session
    PROVE  Sound(ReleaseAddress(d, s))
  BY DEF Sound, DbType, ReleaseAddress

\* The holder rules of registration and renewal keep the tables sound: a
\* session takes an address only as its one qualifier, which is not fenced.
LEMMA AssignNamesSound ==
    ASSUME NEW d, Sound(d), NEW s \in Session, NEW w \in BOOLEAN, ParticipantsAssumption
    PROVE  Sound(AssignNames(d, s, w))
  <1> DEFINE a == AddressOf(d.sess[s])
  <1>0. d.sess[s] \in Row /\ NoSession \notin Session
    BY DEF Sound, DbType, ParticipantsAssumption
  <1>1. CASE d.sess[s].subagent \/ d.sess[s].launch = NoLaunch
    BY <1>0, <1>1, ReleaseAddressSound DEF AssignNames
  <1>2. CASE ~(d.sess[s].subagent \/ d.sess[s].launch = NoLaunch) /\ a = NoAddress
    BY <1>2 DEF AssignNames
  <1>3. CASE ~(d.sess[s].subagent \/ d.sess[s].launch = NoLaunch) /\ a # NoAddress
    <2>1. a \in Address
      BY <1>0, <1>3 DEF AddressOf, Row, ParticipantsAssumption
    <2>2. AssignNames(d, s, w) = AssignAddress(d, s, a, w)
      BY <1>3 DEF AssignNames
    <2>3. Qualifiers(d, a) = {s} => Sound(SetHolder(d, a, s))
      BY <2>1, SetHolderSound DEF Qualifiers
    <2>4. Sound(RecordConflict(d, a))
      BY <1>0, <2>1, RecordConflictSound
    <2> DEFINE h == d.holder[a]
               q == Qualifiers(d, a)
               kept == \/ h = s /\ w
                       \/ h \notin {NoSession, s} /\ Qualified(d, h, a)
    <2>5. CASE kept
      BY <2>2, <2>5 DEF AssignAddress
    <2>6. CASE ~kept /\ q = {s}
      BY <2>2, <2>3, <2>6 DEF AssignAddress
    <2>7. CASE ~kept /\ q # {s} /\ \E x, y \in q : x # y
      BY <2>2, <2>4, <2>7 DEF AssignAddress
    <2>8. CASE ~kept /\ q # {s} /\ ~\E x, y \in q : x # y
      BY <2>2, <2>8 DEF AssignAddress
    <2> QED BY <2>5, <2>6, <2>7, <2>8
  <1> QED BY <1>1, <1>2, <1>3

\* Keeping the holder's pane touches only the candidate's row.
LEMMA KeepPaneSound ==
    ASSUME NEW d, Sound(d), NEW s \in Session, NEW h \in Session, NEW v
    PROVE  Sound(KeepPane(d, s, h, v)) /\ KeepPane(d, s, h, v).fences = d.fences
           /\ KeepPane(d, s, h, v).holder = d.holder
  <1>1. d \in DbType /\ d.sess \in [Session -> Row]
    BY DEF Sound, DbType
  <1> DEFINE rows == [d.sess EXCEPT ![s] = [d.sess[s] EXCEPT !.pane = d.sess[h].pane]]
  <1>2. rows \in [Session -> Row]
    BY <1>1 DEF Row
  <1>3. KeepPane(d, s, h, v) \in {d, [d EXCEPT !.sess = rows]}
    BY DEF KeepPane
  <1> HIDE DEF rows
  <1> QED BY <1>1, <1>2, <1>3 DEF Sound, DbType

\* Succession keeps the tables sound: a fenced candidate is refused first.
LEMMA SucceedSound ==
    ASSUME NEW d, Sound(d), NEW s \in Session, NEW r \in Registration, ParticipantsAssumption
    PROVE  Sound(Succeed(d, s, r))
  <1> DEFINE a == AddressOf(d.sess[s])
             h == d.holder[a]
             v == Verdict(d, s, h, a, r)
             k == KeepPane(d, s, h, v)
             taken == /\ r.call # "start" /\ a # NoAddress
                      /\ h \notin {NoSession, s} /\ Qualified(d, h, a)
                      /\ v \in Evidence
  <1>1. CASE ~taken
    BY <1>1 DEF Succeed
  <1>2. CASE taken
    <2>1. d \in DbType /\ d.sess[s] \in Row
      BY DEF Sound, DbType
    <2>2. a \in Address
      BY <1>2, <2>1 DEF AddressOf, Row, ParticipantsAssumption
    <2>3. h \in Session
      BY <1>2, <2>1, <2>2 DEF DbType
    <2>4. s \notin d.fences[a]
      BY <1>2 DEF Verdict, Evidence
    <2>5. Sound(k) /\ k.fences = d.fences
      BY <2>1, <2>3, KeepPaneSound
    <2>6. Sound(SetHolder(k, a, s))
      <3> HIDE DEF k
      <3> QED BY <2>2, <2>4, <2>5, SetHolderSound
    <2> QED BY <1>2, <2>6 DEF Succeed
  <1> QED BY <1>1, <1>2

-----------------------------------------------------------------------------
\* Every reachable database value is sound, with the daemon's other state.
IInv ==
    /\ Sound(Db)
    /\ guarded \subseteq Session
    /\ running \subseteq Host

\* Committing a sound value is a step to a sound database.
LEMMA CommitSound ==
    ASSUME NEW d, Sound(d), Commit(d)
    PROVE  Sound(Db')
  <1>1. Db' = [sess |-> d.sess, holder |-> d.holder, conflict |-> d.conflict, fences |-> d.fences]
    BY DEF Commit, Db
  <1>2. d = [sess |-> d.sess, holder |-> d.holder, conflict |-> d.conflict, fences |-> d.fences]
    BY DEF Sound, DbType
  <1> QED BY <1>1, <1>2

\* A step that writes only the sessions table keeps the tables sound.
LEMMA RowSound ==
    ASSUME Sound(Db), NEW rows \in [Session -> Row]
    PROVE  Sound([Db EXCEPT !.sess = rows])
  BY DEF Sound, DbType, Db

\* An empty store satisfies the inductive invariant.
LEMMA IInvInit == ASSUME ParticipantsAssumption PROVE Init => IInv
  BY DEF Init, IInv, Sound, DbType, Db, NoRow, Row, ParticipantsAssumption

\* Every step of the participants keeps the inductive invariant.
LEMMA IInvNext ==
    ASSUME ParticipantsAssumption, IInv, [Next]_vars
    PROVE  IInv'
  <1> USE DEF IInv
  <1>0. /\ sess \in [Session -> Row]
        /\ fences \in [Address -> SUBSET Session]
        /\ holder \in [Address -> Session \cup {NoSession}]
        /\ NoSession \notin Session
    BY DEF Sound, DbType, Db, ParticipantsAssumption
  <1>1. ASSUME NEW s \in Session, NEW r \in Requests[s], Register(s, r)
        PROVE  IInv'
    <2>1. r \in Registration
      BY DEF ParticipantsAssumption
    <2>2. RegisteredRow(s, r) \in Row
      BY <1>0, <2>1 DEF RegisteredRow, Row, Registration, ParticipantsAssumption
    <2>3. Sound(Upsert(s, r))
      BY <1>0, <2>2, RowSound DEF Upsert
    <2>4. Sound(AssignNames(Upsert(s, r), s, sess[s].state = "active"))
      BY <2>3, AssignNamesSound
    <2>5. Sound(Succeed(AssignNames(Upsert(s, r), s, sess[s].state = "active"), s, r))
      BY <2>1, <2>4, SucceedSound
    <2>6. Sound(Db')
      BY <1>1, <2>5, CommitSound DEF Register
    <2> QED BY <1>1, <2>6 DEF Register
  <1>2. ASSUME NEW s \in Session, Renew(s)
        PROVE  IInv'
    <2>1. RenewedRow(s) \in Row
      <3>1. sess[s] \in Row
        BY <1>0
      <3>2. [sess[s] EXCEPT !.host = NoHost, !.pane = NoPane] \in Row
        BY <3>1 DEF Row
      <3> QED BY <3>1, <3>2 DEF RenewedRow
    <2>2. Sound([Db EXCEPT !.sess = [sess EXCEPT ![s] = RenewedRow(s)]])
      BY <1>0, <2>1, RowSound
    <2>3. Sound(AssignNames([Db EXCEPT !.sess = [sess EXCEPT ![s] = RenewedRow(s)]], s, TRUE))
      BY <2>2, AssignNamesSound
    <2>4. Sound(Db')
      BY <1>2, <2>3, CommitSound DEF Renew
    <2> QED BY <1>2, <2>4 DEF Renew
  <1>3. ASSUME NEW s \in Session, Retire(s)
        PROVE  IInv'
    <2>1. RetireRow(sess, s) \in [Session -> Row]
      BY <1>0, RetireRowType
    <2> QED BY <1>3, <2>1, RowSound DEF Retire, Sound, DbType, Db
  <1>4. ASSUME NEW s \in Session, NEW mark \in BOOLEAN, MarkPurge(s, mark)
        PROVE  IInv'
    <2> DEFINE rows == IF mark THEN RetireRow(sess, s) ELSE sess
    <2>1. rows \in [Session -> Row]
      BY <1>0, RetireRowType
    <2>2. sess' = [rows EXCEPT ![s] = [rows[s] EXCEPT !.purge = mark]]
      BY <1>4 DEF MarkPurge
    <2> HIDE DEF rows
    <2>3. sess' \in [Session -> Row]
      BY <2>1, <2>2 DEF Row
    <2> QED BY <1>4, <2>3 DEF MarkPurge, Sound, DbType, Db
  <1>5. ASSUME NEW s \in Session, DeleteSession(s)
        PROVE  IInv'
    <2>1. NoRow \in Row
      BY DEF NoRow, Row
    <2>2. Sound([Db EXCEPT !.sess = [sess EXCEPT ![s] = NoRow]])
      BY <1>0, <2>1, RowSound
    <2>3. Sound(ReleaseAddress([Db EXCEPT !.sess = [sess EXCEPT ![s] = NoRow]], s))
      BY <1>0, <2>2, ReleaseAddressSound
    <2>4. Sound(Db')
      BY <1>5, <2>3, CommitSound DEF DeleteSession
    <2> QED BY <1>5, <2>4 DEF DeleteSession
  <1>6. ASSUME NEW a \in Address, NEW s \in Session, ChooseHolder(a, s)
        PROVE  IInv'
    <2> DEFINE lifted == [Db EXCEPT !.fences = [fences EXCEPT ![a] = @ \ {s}]]
    <2>1. Sound(lifted) /\ s \notin lifted.fences[a]
      BY <1>0 DEF Sound, DbType, Db
    <2>2. Commit(IF holder[a] = s THEN lifted ELSE SetHolder(lifted, a, s))
      BY <1>6 DEF ChooseHolder
    <2> HIDE DEF lifted
    <2>3. Sound(IF holder[a] = s THEN lifted ELSE SetHolder(lifted, a, s))
      BY <2>1, SetHolderSound
    <2>4. Sound(Db')
      BY <2>2, <2>3, CommitSound
    <2> QED BY <1>6, <2>4 DEF ChooseHolder
  <1>7. ASSUME NEW s \in Session, Expire(s)
        PROVE  IInv'
    <2>1. sess' = [sess EXCEPT ![s] = [sess[s] EXCEPT !.state = "inactive"]]
      BY <1>7 DEF Expire
    <2>2. [sess[s] EXCEPT !.state = "inactive"] \in Row
      BY <1>0 DEF Row
    <2>3. sess' \in [Session -> Row]
      BY <1>0, <2>1, <2>2
    <2> QED BY <1>7, <2>3 DEF Expire, Sound, DbType, Db
  <1>8. ASSUME NEW s \in Session, ToolCall(s) \/ GuardElapse(s)
        PROVE  IInv'
    BY <1>8 DEF ToolCall, GuardElapse, Db
  <1>9. ASSUME NEW h \in Host, HostEnd(h)
        PROVE  IInv'
    BY <1>9 DEF HostEnd, Db
  <1>10. CASE Restart
    BY <1>10 DEF Restart, Db
  <1>11. CASE UNCHANGED vars
    BY <1>11 DEF vars, Db
  <1> QED BY <1>1, <1>2, <1>3, <1>4, <1>5, <1>6, <1>7, <1>8, <1>9, <1>10, <1>11 DEF Next, Operation

\* The tables are sound in every reachable state.
LEMMA IInvHolds == Spec => []IInv
  <1>1. Init => IInv
    BY IInvInit, ParticipantsAssumption
  <1>2. IInv /\ [Next]_vars => IInv'
    BY IInvNext, ParticipantsAssumption
  <1> QED BY <1>1, <1>2, PTL DEF Spec

\* Type correctness of the tables, for every instance.
THEOREM TypeCorrect == Spec => []TypeOK
  <1>1. IInv => TypeOK
    BY DEF IInv, Sound, DbType, Db, TypeOK
  <1> QED BY <1>1, IInvHolds, PTL

\* A fenced session is never the recorded holder, in any instance: neither the
\* holder rules nor succession give an address back to a superseded session.
THEOREM FencedNeverHoldsThm == Spec => []FencedNeverHolds
  <1>1. IInv => FencedNeverHolds
    BY DEF IInv, Sound, Db, FencedNeverHolds
  <1> QED BY <1>1, IInvHolds, PTL

\* A conflict and a holder are never recorded together, in any instance.
THEOREM ConflictMeansUnheldThm == Spec => []ConflictMeansUnheld
  <1>1. IInv => ConflictMeansUnheld
    BY DEF IInv, Sound, Db, ConflictMeansUnheld
  <1> QED BY <1>1, IInvHolds, PTL

-----------------------------------------------------------------------------
(* What a transaction may do to fences and to a former holder *)

\* From d to e: fences only grow, no session becomes active, and an address
\* that passes to another session leaves its former holder fenced and not
\* active.
Fencing(d, e) ==
    /\ \A a \in Address : d.fences[a] \subseteq e.fences[a]
    /\ \A s \in Session : d.sess[s].state # "active" => e.sess[s].state # "active"
    /\ \A a \in Address :
          (d.holder[a] # NoSession /\ e.holder[a] \notin {NoSession, d.holder[a]})
             => /\ d.holder[a] \in e.fences[a]
                /\ e.sess[d.holder[a]].state # "active"

\* Retiring a row changes no other state than its own (setHolder).
LEMMA RetireRowState ==
    ASSUME NEW rows \in [Session -> Row], NEW f \in Session
    PROVE  /\ RetireRow(rows, f)[f].state # "active"
           /\ \A s \in Session : rows[s].state # "active" => RetireRow(rows, f)[s].state # "active"
  <1>1. [rows[f] EXCEPT !.state = "inactive"].state = "inactive"
    BY DEF Row
  <1>2. [rows EXCEPT ![f].state = "inactive"] = [rows EXCEPT ![f] = [rows[f] EXCEPT !.state = "inactive"]]
    OBVIOUS
  <1> QED BY <1>1, <1>2 DEF RetireRow

\* setHolder fences and retires the holder it replaces, and lifts no fence.
LEMMA SetHolderFencing ==
    ASSUME NEW d \in DbType, NEW a \in Address, NEW s \in Session
    PROVE  /\ Fencing(d, SetHolder(d, a, s))
           /\ \A b \in Address : b # a => SetHolder(d, a, s).holder[b] = d.holder[b]
           /\ SetHolder(d, a, s).holder[a] = s
  <1> DEFINE former == d.holder[a]
             base == IF former \in {NoSession, s} THEN d ELSE Supersede(d, a, former)
             e == SetHolder(d, a, s)
  <1>1. /\ former \in Session \cup {NoSession}
        /\ d.sess \in [Session -> Row]
        /\ d.fences \in [Address -> SUBSET Session]
        /\ d.holder \in [Address -> Session \cup {NoSession}]
    BY DEF DbType
  <1>2. /\ base \in DbType
        /\ IF former \in {NoSession, s} THEN base.fences = d.fences /\ base.sess = d.sess
           ELSE /\ base.fences = [d.fences EXCEPT ![a] = @ \cup {former}]
                /\ base.sess = RetireRow(d.sess, former)
    <2>1. CASE former \in {NoSession, s}
      BY <2>1
    <2>2. CASE former \notin {NoSession, s}
      BY <1>1, <2>2, SupersedeType
    <2> QED BY <2>1, <2>2
  <1>3. e = [base EXCEPT !.holder = [d.holder EXCEPT ![a] = s],
                         !.conflict = [d.conflict EXCEPT ![a] = {}]]
    BY DEF SetHolder
  <1> HIDE DEF base, e
  <1>4. e.fences = base.fences /\ e.sess = base.sess /\ e.holder = [d.holder EXCEPT ![a] = s]
    BY <1>2, <1>3 DEF DbType
  <1>5. CASE former \in {NoSession, s}
    <2>1. Fencing(d, e)
      BY <1>1, <1>2, <1>4, <1>5 DEF Fencing
    <2> QED BY <1>1, <1>4, <2>1 DEF e
  <1>6. CASE former \notin {NoSession, s}
    <2>1. /\ \A t \in Session : d.sess[t].state # "active" => e.sess[t].state # "active"
          /\ e.sess[former].state # "active"
      BY <1>1, <1>2, <1>4, <1>6, RetireRowState
    <2>2. \A b \in Address : d.fences[b] \subseteq e.fences[b]
      BY <1>1, <1>2, <1>4, <1>6
    <2>3. former \in e.fences[a]
      BY <1>1, <1>2, <1>4, <1>6
    <2>4. \A b \in Address : b # a => e.holder[b] = d.holder[b]
      BY <1>1, <1>4
    <2>5. Fencing(d, e)
      BY <2>1, <2>2, <2>3, <2>4 DEF Fencing
    <2> QED BY <1>1, <1>4, <2>4, <2>5 DEF e
  <1> QED BY <1>5, <1>6

\* A recorded conflict leaves no holder and lifts no fence (assignNames).
LEMMA RecordConflictFencing ==
    ASSUME NEW d \in DbType, NEW a \in Address
    PROVE  Fencing(d, RecordConflict(d, a))
  <1> DEFINE former == d.holder[a]
             base == IF former = NoSession THEN d ELSE Supersede(d, a, former)
             e == RecordConflict(d, a)
  <1>1. /\ former \in Session \cup {NoSession}
        /\ d.sess \in [Session -> Row]
        /\ d.fences \in [Address -> SUBSET Session]
        /\ d.holder \in [Address -> Session \cup {NoSession}]
    BY DEF DbType
  <1>2. /\ base \in DbType
        /\ \/ base.fences = d.fences /\ base.sess = d.sess
           \/ /\ former \in Session
              /\ base.fences = [d.fences EXCEPT ![a] = @ \cup {former}]
              /\ base.sess = RetireRow(d.sess, former)
    <2>1. CASE former = NoSession
      BY <2>1
    <2>2. CASE former # NoSession
      BY <1>1, <2>2, SupersedeType
    <2> QED BY <2>1, <2>2
  <1>3. e = [base EXCEPT !.holder = [d.holder EXCEPT ![a] = NoSession],
                         !.conflict = [d.conflict EXCEPT ![a] = Qualifiers(d, a)]]
    BY DEF RecordConflict
  <1> HIDE DEF base, e
  <1>4. e.fences = base.fences /\ e.sess = base.sess /\ e.holder = [d.holder EXCEPT ![a] = NoSession]
    BY <1>2, <1>3 DEF DbType
  <1>5. \A t \in Session : d.sess[t].state # "active" => e.sess[t].state # "active"
    BY <1>1, <1>2, <1>4, RetireRowState
  <1>6. \A b \in Address : d.fences[b] \subseteq e.fences[b]
    BY <1>1, <1>2, <1>4
  <1>7. \A b \in Address : e.holder[b] \in {NoSession, d.holder[b]}
    BY <1>1, <1>4
  <1>8. Fencing(d, e)
    BY <1>5, <1>6, <1>7 DEF Fencing
  <1> QED BY <1>8 DEF e

\* A released address passes to nobody and keeps its fences (releaseAddress).
LEMMA ReleaseAddressFencing ==
    ASSUME NEW d \in DbType, NEW s \in Session
    PROVE  Fencing(d, ReleaseAddress(d, s))
  BY DEF Fencing, ReleaseAddress, DbType

\* A transaction that leaves the database alone moves nothing.
LEMMA SameFencing ==
    ASSUME NEW d \in DbType
    PROVE  Fencing(d, d)
  BY DEF Fencing

\* The holder rules fence and retire every holder they replace (assignNames).
LEMMA AssignNamesFencing ==
    ASSUME NEW d \in DbType, NEW s \in Session, NEW w \in BOOLEAN, ParticipantsAssumption
    PROVE  Fencing(d, AssignNames(d, s, w))
  <1> DEFINE a == AddressOf(d.sess[s])
  <1>0. d.sess[s] \in Row
    BY DEF DbType
  <1>1. CASE d.sess[s].subagent \/ d.sess[s].launch = NoLaunch
    BY <1>1, ReleaseAddressFencing DEF AssignNames
  <1>2. CASE ~(d.sess[s].subagent \/ d.sess[s].launch = NoLaunch) /\ a = NoAddress
    BY <1>2, SameFencing DEF AssignNames
  <1>3. CASE ~(d.sess[s].subagent \/ d.sess[s].launch = NoLaunch) /\ a # NoAddress
    <2>1. a \in Address
      BY <1>0, <1>3 DEF AddressOf, Row, ParticipantsAssumption
    <2>2. AssignNames(d, s, w) = AssignAddress(d, s, a, w)
      BY <1>3 DEF AssignNames
    <2>3. Fencing(d, SetHolder(d, a, s)) /\ Fencing(d, RecordConflict(d, a)) /\ Fencing(d, d)
      BY <2>1, SetHolderFencing, RecordConflictFencing, SameFencing
    <2> DEFINE h == d.holder[a]
               q == Qualifiers(d, a)
               kept == \/ h = s /\ w
                       \/ h \notin {NoSession, s} /\ Qualified(d, h, a)
    <2>5. CASE kept
      BY <2>2, <2>3, <2>5 DEF AssignAddress
    <2>6. CASE ~kept /\ q = {s}
      BY <2>2, <2>3, <2>6 DEF AssignAddress
    <2>7. CASE ~kept /\ q # {s} /\ \E x, y \in q : x # y
      BY <2>2, <2>3, <2>7 DEF AssignAddress
    <2>8. CASE ~kept /\ q # {s} /\ ~\E x, y \in q : x # y
      BY <2>2, <2>3, <2>8 DEF AssignAddress
    <2> QED BY <2>5, <2>6, <2>7, <2>8
  <1> QED BY <1>1, <1>2, <1>3

\* Succession passes one address, from a session that acts for it.
LEMMA SucceedFencing ==
    ASSUME NEW d, Sound(d), NEW s \in Session, NEW r \in Registration, ParticipantsAssumption
    PROVE  /\ Fencing(d, Succeed(d, s, r))
           /\ \A b \in Address : d.holder[b] = NoSession => Succeed(d, s, r).holder[b] = NoSession
  <1> DEFINE a == AddressOf(d.sess[s])
             h == d.holder[a]
             v == Verdict(d, s, h, a, r)
             k == KeepPane(d, s, h, v)
             e == SetHolder(k, a, s)
             taken == /\ r.call # "start" /\ a # NoAddress
                      /\ h \notin {NoSession, s} /\ Qualified(d, h, a)
                      /\ v \in Evidence
  <1>0. d \in DbType /\ d.sess[s] \in Row
    BY DEF Sound, DbType
  <1>1. CASE ~taken
    BY <1>0, <1>1, SameFencing DEF Succeed
  <1>2. CASE taken
    <2>2. a \in Address
      BY <1>0, <1>2 DEF AddressOf, Row, ParticipantsAssumption
    <2>3. h \in Session
      BY <1>0, <1>2, <2>2 DEF DbType
    <2>4. /\ k \in DbType /\ k.fences = d.fences /\ k.holder = d.holder
          /\ \A t \in Session : k.sess[t].state = d.sess[t].state
      <3>1. k \in DbType /\ k.fences = d.fences /\ k.holder = d.holder
        BY <2>3, KeepPaneSound DEF Sound
      <3>2. k \in {d, [d EXCEPT !.sess = [d.sess EXCEPT ![s] = [d.sess[s] EXCEPT !.pane = d.sess[h].pane]]]}
        BY DEF KeepPane
      <3>3. [d.sess[s] EXCEPT !.pane = d.sess[h].pane].state = d.sess[s].state
        BY <1>0 DEF Row
      <3> HIDE DEF k
      <3>4. CASE k = d
        BY <3>1, <3>4
      <3>5. CASE k # d
        <4> DEFINE row == [d.sess[s] EXCEPT !.pane = d.sess[h].pane]
        <4>1. k.sess = [d.sess EXCEPT ![s] = row] /\ d.sess \in [Session -> Row]
          BY <1>0, <3>2, <3>5 DEF DbType
        <4>2. row.state = d.sess[s].state
          BY <3>3
        <4> HIDE DEF row
        <4>3. \A t \in Session : k.sess[t].state = d.sess[t].state
          BY <4>1, <4>2
        <4> QED BY <3>1, <4>3
      <3> QED BY <3>4, <3>5
    <2> HIDE DEF k
    <2>5. /\ Fencing(k, e)
          /\ \A b \in Address : b # a => e.holder[b] = k.holder[b]
      BY <2>2, <2>4, SetHolderFencing
    <2> HIDE DEF e
    <2>6. Fencing(d, e)
      BY <2>4, <2>5 DEF Fencing
    <2>7. Succeed(d, s, r) = e
      BY <1>2 DEF Succeed, e, k
    <2>8. \A b \in Address : d.holder[b] = NoSession => e.holder[b] = NoSession
      BY <1>2, <2>4, <2>5
    <2> QED BY <2>6, <2>7, <2>8
  <1> QED BY <1>1, <1>2

\* Two stages compose where the second takes no address nobody holds.
LEMMA FencingComposes ==
    ASSUME NEW d \in DbType, NEW e \in DbType, NEW f \in DbType,
           Fencing(d, e), Fencing(e, f),
           \A b \in Address : e.holder[b] = NoSession => f.holder[b] = NoSession
    PROVE  Fencing(d, f)
  <1>1. /\ d.holder \in [Address -> Session \cup {NoSession}]
        /\ e.holder \in [Address -> Session \cup {NoSession}]
    BY DEF DbType
  <1>2. ASSUME NEW a \in Address,
               d.holder[a] # NoSession, f.holder[a] \notin {NoSession, d.holder[a]}
        PROVE  d.holder[a] \in f.fences[a] /\ f.sess[d.holder[a]].state # "active"
    <2>1. d.holder[a] \in Session /\ e.holder[a] # NoSession
      BY <1>1, <1>2
    <2>2. CASE e.holder[a] = d.holder[a]
      BY <1>2, <2>1, <2>2 DEF Fencing
    <2>3. CASE e.holder[a] # d.holder[a]
      <3>1. d.holder[a] \in e.fences[a] /\ e.sess[d.holder[a]].state # "active"
        BY <1>2, <2>1, <2>3 DEF Fencing
      <3>2. e.fences[a] \subseteq f.fences[a]
        BY DEF Fencing
      <3>3. f.sess[d.holder[a]].state # "active"
        BY <2>1, <3>1 DEF Fencing
      <3> QED BY <3>1, <3>2, <3>3
    <2> QED BY <2>2, <2>3
  <1>3. \A a \in Address : d.fences[a] \subseteq f.fences[a]
    BY DEF Fencing
  <1>4. \A s \in Session : d.sess[s].state # "active" => f.sess[s].state # "active"
    BY DEF Fencing
  <1> QED BY <1>2, <1>3, <1>4 DEF Fencing

\* What Fencing says of a committed transaction that began by writing rows.
LEMMA CommitFencing ==
    ASSUME Sound(Db), NEW rows \in [Session -> Row], NEW e,
           Fencing([Db EXCEPT !.sess = rows], e), Commit(e)
    PROVE  /\ \A a \in Address : fences[a] \subseteq fences'[a]
           /\ \A a \in Address :
                (holder[a] # NoSession /\ holder'[a] \notin {NoSession, holder[a]})
                  => /\ holder[a] \in fences'[a]
                     /\ sess'[holder[a]].state # "active"
  <1> DEFINE d == [Db EXCEPT !.sess = rows]
  <1>1. d.fences = fences /\ d.holder = holder
    BY DEF Db
  <1>2. e.fences = fences' /\ e.holder = holder' /\ e.sess = sess'
    BY DEF Commit
  <1> HIDE DEF d
  <1>3. Fencing(d, e)
    BY DEF d
  <1> QED BY <1>1, <1>2, <1>3 DEF Fencing

\* The two action properties, step by step.
Passing == \A a \in Address :
    (holder[a] # NoSession /\ holder'[a] \notin {NoSession, holder[a]})
       => /\ holder[a] \in fences'[a]
          /\ sess'[holder[a]].state # "active"

Lifting == \A a \in Address, s \in Session :
    (s \in fences[a] /\ s \notin fences'[a]) => holder'[a] = s /\ holder[a] # s

\* What one step does to holders and fences, for every step of the participants.
LEMMA StepFences ==
    ASSUME ParticipantsAssumption, IInv, [Next]_vars
    PROVE  Passing /\ Lifting
  <1> USE DEF IInv
  <1>0. /\ sess \in [Session -> Row]
        /\ fences \in [Address -> SUBSET Session]
        /\ holder \in [Address -> Session \cup {NoSession}]
        /\ NoSession \notin Session
    BY DEF Sound, DbType, Db, ParticipantsAssumption
  <1>a. ASSUME UNCHANGED <<holder, fences>> PROVE Passing /\ Lifting
    BY <1>a DEF Passing, Lifting
  <1>1. ASSUME NEW s \in Session, NEW r \in Requests[s], Register(s, r)
        PROVE  Passing /\ Lifting
    <2> DEFINE rows == [sess EXCEPT ![s] = RegisteredRow(s, r)]
               d == Upsert(s, r)
               e == AssignNames(d, s, sess[s].state = "active")
               f == Succeed(e, s, r)
    <2>1. r \in Registration
      BY DEF ParticipantsAssumption
    <2>2. RegisteredRow(s, r) \in Row
      BY <1>0, <2>1 DEF RegisteredRow, Row, Registration, ParticipantsAssumption
    <2>3. rows \in [Session -> Row]
      BY <1>0, <2>2
    <2>4. Sound(d)
      BY <2>3, RowSound DEF Upsert
    <2>5. Sound(e) /\ Fencing(d, e)
      <3>1. d \in DbType
        BY <2>4 DEF Sound
      <3> HIDE DEF d
      <3> QED BY <2>4, <3>1, AssignNamesSound, AssignNamesFencing
    <2>6. Sound(f) /\ Fencing(e, f)
          /\ \A b \in Address : e.holder[b] = NoSession => f.holder[b] = NoSession
      <3> HIDE DEF e
      <3> QED BY <2>1, <2>5, SucceedSound, SucceedFencing
    <2>7. Commit(f)
      BY <1>1 DEF Register
    <2>8. d = [Db EXCEPT !.sess = rows]
      BY DEF Upsert
    <2> HIDE DEF d, e, f, rows
    <2>9. Fencing(d, f)
      BY <2>4, <2>5, <2>6, FencingComposes DEF Sound
    <2>10. Fencing([Db EXCEPT !.sess = rows], f)
      BY <2>8, <2>9
    <2> QED BY <2>3, <2>7, <2>10, CommitFencing DEF Passing, Lifting
  <1>2. ASSUME NEW s \in Session, Renew(s)
        PROVE  Passing /\ Lifting
    <2> DEFINE rows == [sess EXCEPT ![s] = RenewedRow(s)]
               d == [Db EXCEPT !.sess = rows]
               e == AssignNames(d, s, TRUE)
    <2>1. sess[s] \in Row
      BY <1>0
    <2>2. [sess[s] EXCEPT !.host = NoHost, !.pane = NoPane] \in Row
      BY <2>1 DEF Row
    <2>3. rows \in [Session -> Row]
      BY <1>0, <2>1, <2>2 DEF RenewedRow
    <2>4. Commit(e)
      BY <1>2 DEF Renew
    <2> HIDE DEF rows
    <2>5. Sound(d)
      BY <2>3, RowSound
    <2>6. Fencing(d, e)
      BY <2>5, AssignNamesFencing DEF Sound
    <2> HIDE DEF e
    <2> QED BY <2>3, <2>4, <2>6, CommitFencing DEF Passing, Lifting
  <1>3. ASSUME NEW s \in Session, DeleteSession(s)
        PROVE  Passing /\ Lifting
    <2>1. /\ fences' = fences
          /\ holder' = [a \in Address |-> IF holder[a] = s THEN NoSession ELSE holder[a]]
      BY <1>3 DEF DeleteSession, Commit, ReleaseAddress, Db
    <2> QED BY <1>0, <2>1 DEF Passing, Lifting
  <1>4. ASSUME NEW a \in Address, NEW s \in Session, ChooseHolder(a, s)
        PROVE  Passing /\ Lifting
    <2> DEFINE d == [Db EXCEPT !.fences = [fences EXCEPT ![a] = @ \ {s}]]
               e == SetHolder(d, a, s)
    <2>1. /\ d \in DbType /\ d.holder = holder /\ d.sess = sess
          /\ d.fences = [fences EXCEPT ![a] = @ \ {s}]
      BY <1>0 DEF Sound, DbType, Db
    <2>2. Commit(IF holder[a] = s THEN d ELSE e)
      BY <1>4 DEF ChooseHolder
    <2>3. holder[a] \notin fences[a]
      BY DEF Sound, Db
    <2> HIDE DEF d
    <2>4. CASE holder[a] = s
      <3>1. holder' = holder /\ fences' = [fences EXCEPT ![a] = @ \ {s}]
        BY <2>1, <2>2, <2>4 DEF Commit
      <3>2. fences' = fences
        BY <1>0, <2>3, <2>4, <3>1
      <3> QED BY <1>a, <3>1, <3>2
    <2>5. CASE holder[a] # s
      <3>1. /\ Fencing(d, e)
            /\ \A b \in Address : b # a => e.holder[b] = d.holder[b]
            /\ e.holder[a] = s
        BY <2>1, SetHolderFencing
      <3> HIDE DEF e
      <3>2. e.fences = fences' /\ e.holder = holder' /\ e.sess = sess'
        BY <2>2, <2>5 DEF Commit
      <3>3. Passing
        BY <2>1, <3>1, <3>2 DEF Fencing, Passing
      <3>4. \A b \in Address : d.fences[b] \subseteq fences'[b]
        BY <3>1, <3>2 DEF Fencing
      <3>5. ASSUME NEW b \in Address, NEW t \in Session, t \in fences[b], t \notin fences'[b]
            PROVE  b = a /\ t = s
        BY <1>0, <2>1, <3>4, <3>5
      <3>6. Lifting
        BY <2>5, <3>1, <3>2, <3>5 DEF Lifting
      <3> QED BY <3>3, <3>6
    <2> QED BY <2>4, <2>5
  <1>5. ASSUME NEW s \in Session, NEW mark \in BOOLEAN,
               Retire(s) \/ MarkPurge(s, mark) \/ Expire(s) \/ ToolCall(s) \/ GuardElapse(s)
        PROVE  Passing /\ Lifting
    BY <1>a, <1>5 DEF Retire, MarkPurge, Expire, ToolCall, GuardElapse
  <1>6. ASSUME NEW h \in Host, HostEnd(h)
        PROVE  Passing /\ Lifting
    BY <1>a, <1>6 DEF HostEnd
  <1>7. CASE Restart \/ UNCHANGED vars
    BY <1>a, <1>7 DEF Restart, vars
  <1> QED BY <1>1, <1>2, <1>3, <1>4, <1>5, <1>6, <1>7 DEF Next, Operation

\* In every instance, a session that loses an address to another session is
\* fenced off it and left inactive by that same transaction.
THEOREM FormerIsFencedThm == Spec => FormerIsFenced
  <1>1. IInv /\ [Next]_vars => [Passing]_vars
    BY StepFences, ParticipantsAssumption
  <1>2. Spec => [][Passing]_vars
    BY <1>1, IInvHolds, PTL DEF Spec
  <1> QED BY <1>2 DEF FormerIsFenced, Passing

\* In every instance, a fence is lifted only by making its session the holder.
THEOREM FenceLiftedByChoiceThm == Spec => FenceLiftedByChoice
  <1>1. IInv /\ [Next]_vars => [Lifting]_vars
    BY StepFences, ParticipantsAssumption
  <1>2. Spec => [][Lifting]_vars
    BY <1>1, IInvHolds, PTL DEF Spec
  <1> QED BY <1>2 DEF FenceLiftedByChoice, Lifting

-----------------------------------------------------------------------------
(* How an address passes from session to session *)

\* setHolder touches the row of the holder that it replaces and no other.
LEMMA SetHolderRows ==
    ASSUME NEW d \in DbType, NEW a \in Address, NEW s \in Session
    PROVE  /\ \A t \in Session : t # d.holder[a] \/ t = s => SetHolder(d, a, s).sess[t] = d.sess[t]
           /\ SetHolder(d, a, s).fences[a] \subseteq d.fences[a] \cup ({d.holder[a]} \ {s})
  <1> DEFINE former == d.holder[a]
             base == IF former \in {NoSession, s} THEN d ELSE Supersede(d, a, former)
             e == SetHolder(d, a, s)
  <1>1. /\ former \in Session \cup {NoSession}
        /\ d.sess \in [Session -> Row]
        /\ d.fences \in [Address -> SUBSET Session]
    BY DEF DbType
  <1>2. /\ base \in DbType
        /\ IF former \in {NoSession, s} THEN base.fences = d.fences /\ base.sess = d.sess
           ELSE /\ base.fences = [d.fences EXCEPT ![a] = @ \cup {former}]
                /\ base.sess = RetireRow(d.sess, former)
    <2>1. CASE former \in {NoSession, s}
      BY <2>1
    <2>2. CASE former \notin {NoSession, s}
      BY <1>1, <2>2, SupersedeType
    <2> QED BY <2>1, <2>2
  <1>3. e = [base EXCEPT !.holder = [d.holder EXCEPT ![a] = s],
                         !.conflict = [d.conflict EXCEPT ![a] = {}]]
    BY DEF SetHolder
  <1> HIDE DEF base, e
  <1>4. e.fences = base.fences /\ e.sess = base.sess
    BY <1>2, <1>3 DEF DbType
  <1>5. \A t \in Session : t # former => RetireRow(d.sess, former)[t] = d.sess[t]
    BY <1>1 DEF RetireRow
  <1>6. \A t \in Session : t # former \/ t = s => e.sess[t] = d.sess[t]
    BY <1>2, <1>4, <1>5
  <1>7. e.fences[a] \subseteq d.fences[a] \cup ({former} \ {s})
    BY <1>1, <1>2, <1>4
  <1> QED BY <1>6, <1>7 DEF e

\* The outcomes of the holder rules for the caller's participant a.
AssignOutcome(d, s, a, e) ==
    \/ e = d
    \/ (d.sess[s].subagent \/ d.sess[s].launch = NoLaunch) /\ e = ReleaseAddress(d, s)
    \/ a \in Address /\ e = RecordConflict(d, a)
    \/ /\ a \in Address /\ e = SetHolder(d, a, s) /\ Qualifiers(d, a) = {s} /\ d.holder[a] # s
       /\ d.holder[a] # NoSession => ~Qualified(d, d.holder[a], a)

\* The holder rules give an address to the caller only as its one qualifier, and never while
\* the recorded holder qualifies (assignNames).
LEMMA AssignNamesCases ==
    ASSUME NEW d \in DbType, NEW s \in Session, NEW w \in BOOLEAN, ParticipantsAssumption,
           NEW e, e = AssignNames(d, s, w)
    PROVE  AssignOutcome(d, s, AddressOf(d.sess[s]), e)
  <1> DEFINE a == AddressOf(d.sess[s])
  <1>0. d.sess[s] \in Row
    BY DEF DbType
  <1>1. CASE d.sess[s].subagent \/ d.sess[s].launch = NoLaunch
    BY <1>1 DEF AssignNames, AssignOutcome
  <1>2. CASE ~(d.sess[s].subagent \/ d.sess[s].launch = NoLaunch) /\ a = NoAddress
    BY <1>2 DEF AssignNames, AssignOutcome
  <1>3. CASE ~(d.sess[s].subagent \/ d.sess[s].launch = NoLaunch) /\ a # NoAddress
    <2>1. a \in Address
      BY <1>0, <1>3 DEF AddressOf, Row, ParticipantsAssumption
    <2>2. e = AssignAddress(d, s, a, w)
      BY <1>3 DEF AssignNames
    <2> DEFINE h == d.holder[a]
               q == Qualifiers(d, a)
               kept == \/ h = s /\ w
                       \/ h \notin {NoSession, s} /\ Qualified(d, h, a)
    <2>3. CASE kept
      BY <2>2, <2>3 DEF AssignAddress, AssignOutcome
    <2>4. CASE ~kept /\ q = {s}
      BY <2>1, <2>2, <2>4 DEF AssignAddress, AssignOutcome
    <2>5. CASE ~kept /\ q # {s} /\ \E x, y \in q : x # y
      BY <2>1, <2>2, <2>5 DEF AssignAddress, AssignOutcome
    <2>6. CASE ~kept /\ q # {s} /\ ~\E x, y \in q : x # y
      BY <2>2, <2>6 DEF AssignAddress, AssignOutcome
    <2> QED BY <2>3, <2>4, <2>5, <2>6
  <1> QED BY <1>1, <1>2, <1>3

\* What the holder rules of the caller s do to address a.
RulesOutcome(d, s, a, e) ==
    \/ e.holder[a] = NoSession
    \/ /\ e.holder[a] = d.holder[a]
       /\ AddressOf(d.sess[s]) = a /\ ~d.sess[s].subagent /\ d.holder[a] # s => e = d
    \/ /\ e.holder[a] = s /\ d.holder[a] # s /\ a = AddressOf(d.sess[s]) /\ e = SetHolder(d, a, s)
       /\ Qualifiers(d, a) = {s}
       /\ d.holder[a] # NoSession => ~Qualified(d, d.holder[a], a)

\* The holder rules have one of these outcomes for every address.
LEMMA AssignNamesPasses ==
    ASSUME NEW d \in DbType, NEW s \in Session, NEW w \in BOOLEAN, ParticipantsAssumption,
           NEW e, e = AssignNames(d, s, w), NEW a \in Address
    PROVE  RulesOutcome(d, s, a, e)
  <1> USE DEF RulesOutcome
  <1>0. PICK b : b = AddressOf(d.sess[s])
    OBVIOUS
  <1>1. \/ e = d
        \/ (d.sess[s].subagent \/ d.sess[s].launch = NoLaunch) /\ e = ReleaseAddress(d, s)
        \/ b \in Address /\ e = RecordConflict(d, b)
        \/ /\ b \in Address /\ e = SetHolder(d, b, s) /\ Qualifiers(d, b) = {s} /\ d.holder[b] # s
           /\ d.holder[b] # NoSession => ~Qualified(d, d.holder[b], b)
    <2>1. AssignOutcome(d, s, b, e)
      BY <1>0, AssignNamesCases
    <2> QED BY <2>1 DEF AssignOutcome
  <1>2. CASE e = d
    BY <1>2
  <1>3. CASE (d.sess[s].subagent \/ d.sess[s].launch = NoLaunch) /\ e = ReleaseAddress(d, s)
    <2>1. e.holder[a] \in {NoSession, d.holder[a]}
      BY <1>3 DEF ReleaseAddress, DbType
    <2>2. AddressOf(d.sess[s]) = a => d.sess[s].launch # NoLaunch
      BY DEF AddressOf, ParticipantsAssumption
    <2> QED BY <1>3, <2>1, <2>2
  <1>4. CASE b \in Address /\ e = RecordConflict(d, b)
    <2> DEFINE former == d.holder[b]
               base == IF former = NoSession THEN d ELSE Supersede(d, b, former)
    <2>1. base \in DbType
      <3>1. former \in Session \cup {NoSession}
        BY <1>4 DEF DbType
      <3>2. former # NoSession => Supersede(d, b, former) \in DbType
        BY <1>4, <3>1, SupersedeType
      <3> QED BY <3>2
    <2>2. e = [base EXCEPT !.holder = [d.holder EXCEPT ![b] = NoSession],
                           !.conflict = [d.conflict EXCEPT ![b] = Qualifiers(d, b)]]
      BY <1>4 DEF RecordConflict
    <2> HIDE DEF base
    <2>3. e.holder = [d.holder EXCEPT ![b] = NoSession]
      BY <2>1, <2>2 DEF DbType
    <2>4. CASE a = b
      BY <1>4, <2>3, <2>4 DEF DbType
    <2>5. CASE a # b
      BY <1>0, <1>4, <2>3, <2>5 DEF DbType
    <2> QED BY <2>4, <2>5
  <1>5. CASE /\ b \in Address /\ e = SetHolder(d, b, s) /\ Qualifiers(d, b) = {s} /\ d.holder[b] # s
             /\ d.holder[b] # NoSession => ~Qualified(d, d.holder[b], b)
    <2>1. e.holder[b] = s /\ (a # b => e.holder[a] = d.holder[a])
      BY <1>5, SetHolderFencing
    <2> QED BY <1>0, <1>5, <2>1
  <1> QED BY <1>1, <1>2, <1>3, <1>4, <1>5

\* Succession moves the caller's own participant from an acting holder, on evidence, and leaves
\* the caller's host and, where it has one, its pane (succeed).
SucceedOutcome(d, s, r, a, e) ==
    \/ e.holder[a] = d.holder[a]
    \/ /\ a = AddressOf(d.sess[s]) /\ d.holder[a] \in Session \ {s} /\ Qualified(d, d.holder[a], a)
       /\ e.holder[a] = s /\ Verdict(d, s, d.holder[a], a, r) \in Evidence
       /\ e.sess[s].host = d.sess[s].host
       /\ d.sess[s].pane # NoPane => e.sess[s].pane = d.sess[s].pane

LEMMA SucceedPasses ==
    ASSUME NEW d, Sound(d), NEW s \in Session, NEW r \in Registration, ParticipantsAssumption,
           NEW a \in Address
    PROVE  /\ SucceedOutcome(d, s, r, a, Succeed(d, s, r))
           /\ a = AddressOf(d.sess[s]) /\ d.holder[a] = s => Succeed(d, s, r) = d
  <1> DEFINE b == AddressOf(d.sess[s])
             h == d.holder[b]
             v == Verdict(d, s, h, b, r)
             k == KeepPane(d, s, h, v)
             e == SetHolder(k, b, s)
             taken == /\ r.call # "start" /\ b # NoAddress
                      /\ h \notin {NoSession, s} /\ Qualified(d, h, b)
                      /\ v \in Evidence
  <1>0. d \in DbType /\ d.sess[s] \in Row /\ d.sess \in [Session -> Row]
    BY DEF Sound, DbType
  <1>1. CASE ~taken
    BY <1>1 DEF Succeed, SucceedOutcome
  <1>2. CASE taken
    <2>1. b \in Address
      BY <1>0, <1>2 DEF AddressOf, Row, ParticipantsAssumption
    <2>2. h \in Session /\ h # s
      BY <1>0, <1>2, <2>1 DEF DbType
    <2>3. k \in DbType /\ k.holder = d.holder
      BY <2>2, KeepPaneSound DEF Sound
    <2>4. k.sess[s].host = d.sess[s].host /\ (d.sess[s].pane # NoPane => k.sess[s].pane = d.sess[s].pane)
      <3>1. CASE k = d
        BY <3>1
      <3>2. CASE k # d
        <4>1. d.sess[s].pane = NoPane /\ k = [d EXCEPT !.sess = [d.sess EXCEPT ![s].pane = d.sess[h].pane]]
          BY <3>2 DEF KeepPane
        <4>2. PICK p : p = d.sess[h].pane
          OBVIOUS
        <4>3. PICK row : row = [d.sess[s] EXCEPT !.pane = p]
          OBVIOUS
        <4>4. row.host = d.sess[s].host
          BY <1>0, <4>3 DEF Row
        <4>5. k.sess = [d.sess EXCEPT ![s] = row]
          BY <1>0, <4>1, <4>2, <4>3 DEF DbType
        <4>6. k.sess[s] = row
          BY <1>0, <4>5
        <4> QED BY <4>1, <4>4, <4>6
      <3> QED BY <3>1, <3>2
    <2> HIDE DEF k
    <2>5. e.holder[b] = s /\ (a # b => e.holder[a] = k.holder[a])
      BY <2>1, <2>3, SetHolderFencing
    <2>6. e.sess[s] = k.sess[s]
      BY <2>1, <2>3, SetHolderRows
    <2> HIDE DEF e
    <2>7. Succeed(d, s, r) = e
      BY <1>2 DEF Succeed, e, k
    <2>8. SucceedOutcome(d, s, r, a, e)
      BY <1>2, <2>2, <2>3, <2>4, <2>5, <2>6 DEF SucceedOutcome
    <2> QED BY <2>2, <2>7, <2>8
  <1> QED BY <1>1, <1>2

\* What a step does to the holder of one address.
Passed(a) == holder'[a] \notin {NoSession, holder[a]}
Supplants(a) == holder[a] # NoSession /\ Passed(a) /\ Acting(a, holder[a])
Assigned(a) == Passed(a) /\ (holder[a] # NoSession => ~Acting(a, holder[a]))

ProvenBy(a, s, t) ==
    \/ ChooseHolder(a, t)
    \/ /\ sess[s].host = NoHost /\ sess'[t].host = NoHost
       /\ \A b \in Address \ {a} : holder[b] # t
       /\ \E r \in Requests[t] : Register(t, r) /\ r.link = "linked"
    \/ /\ NoHost \notin {sess[s].host, sess'[t].host}
       /\ ~\E u \in Session \ {t}, b \in Address \ {a} :
             holder[b] = u /\ sess[u].state = "active"
                /\ sess[u].host = sess'[t].host
       /\ \/ /\ sess'[t].host = sess[s].host
             /\ \/ s \notin guarded
                \/ \E r \in Requests[t] : Register(t, r) /\ (r.link = "reset" \/ r.call = "clear")
          \/ /\ sess'[t].pane = sess[s].pane
             /\ sess[s].host \notin running

\* Evidence on the written row is the proof that the property asks for.
LEMMA EvidenceProves ==
    ASSUME IInv, ParticipantsAssumption, NEW s \in Session, NEW r \in Requests[s], Register(s, r), NEW a \in Address,
           NEW rows, rows = [sess EXCEPT ![s] = RegisteredRow(s, r)],
           NEW d, d = [sess |-> rows, holder |-> holder, conflict |-> conflict, fences |-> fences],
           holder[a] \in Session \ {s},
           Verdict(d, s, holder[a], a, r) \in Evidence,
           sess'[s].host = rows[s].host, rows[s].pane # NoPane => sess'[s].pane = rows[s].pane
    PROVE  ProvenBy(a, holder[a], s)
  <1> DEFINE h == holder[a]
  <1>0. sess \in [Session -> Row] /\ d.sess = rows /\ d.holder = holder
    BY DEF IInv, Sound, DbType, Db
  <1>1. \A u \in Session \ {s} : rows[u] = sess[u]
    BY <1>0
  <1>s. CASE Verdict(d, s, h, a, r) = "cycle_session"
    <2>1. HostlessCycleLink(d, s, h, a, r) = "linked"
      BY <1>s DEF Verdict
    <2>2. /\ rows[s].host = NoHost /\ rows[h].host = NoHost /\ r.link = "linked"
          /\ \A b \in Address \ {a} : holder[b] # s
      BY <1>0, <2>1 DEF HostlessCycleLink
    <2>3. sess[h].host = NoHost /\ sess'[s].host = NoHost
      BY <1>1, <2>2
    <2> QED BY <2>2, <2>3 DEF ProvenBy
  <1>n. CASE Verdict(d, s, h, a, r) # "cycle_session"
    <2>1. Verdict(d, s, h, a, r) \in {"cycle_reset", "host_cleared", "same_host", "same_pane"}
      BY <1>n DEF Evidence
    <2>2. /\ NoHost \notin {rows[s].host, rows[h].host} /\ ~HoldsElsewhere(d, s, a)
          /\ \/ r.link = "reset" /\ SameHost(d, s, h)
             \/ SameHost(d, s, h) /\ r.call = "clear"
             \/ SameHost(d, s, h) /\ h \notin guarded
             \/ SamePane(d, s, h) /\ HostEnded(rows[h].host, r.readable)
      BY <1>0, <2>1 DEF Verdict
    <2>3. NoHost \notin {sess[h].host, sess'[s].host}
      BY <1>1, <2>2
    <2>4. ~\E u \in Session \ {s}, b \in Address \ {a} :
             holder[b] = u /\ sess[u].state = "active" /\ sess[u].host = sess'[s].host
      BY <1>0, <1>1, <2>2 DEF HoldsElsewhere
    <2>5. \/ /\ sess'[s].host = sess[h].host
             /\ h \notin guarded \/ r.link = "reset" \/ r.call = "clear"
          \/ /\ sess'[s].pane = sess[h].pane
             /\ sess[h].host \notin running
      BY <1>0, <1>1, <2>2 DEF SameHost, SamePane, HostEnded
    <2> QED BY <2>3, <2>4, <2>5 DEF ProvenBy
  <1> QED BY <1>s, <1>n

\* The one qualifier of an address is still the one after it became the holder.
LEMMA SoleQualifier ==
    ASSUME ParticipantsAssumption, NEW d \in DbType, NEW a \in Address, NEW s \in Session,
           Qualifiers(d, a) = {s}
    PROVE  Qualifiers(SetHolder(d, a, s), a) = {s}
  <1> DEFINE e == SetHolder(d, a, s)
  <1>1. /\ Fencing(d, e) /\ e.holder[a] = s
        /\ \A t \in Session : t # d.holder[a] \/ t = s => e.sess[t] = d.sess[t]
        /\ e.fences[a] \subseteq d.fences[a] \cup ({d.holder[a]} \ {s})
    BY SetHolderFencing, SetHolderRows
  <1> HIDE DEF e
  <1>2. s \in Qualifiers(e, a)
    BY <1>1 DEF Qualifiers, Qualified
  <1>3. ASSUME NEW t \in Qualifiers(e, a) PROVE t = s
    <2>1. t \in Session /\ e.sess[t].state = "active" /\ t \notin e.fences[a]
      BY DEF Qualifiers, Qualified
    <2>2. CASE t = d.holder[a]
      <3>1. CASE d.holder[a] # NoSession /\ t # s
        <4>1. s # NoSession
          BY DEF ParticipantsAssumption
        <4>2. e.holder[a] \notin {NoSession, d.holder[a]}
          BY <1>1, <2>2, <3>1, <4>1
        <4>3. d.holder[a] \in e.fences[a]
          BY <1>1, <3>1, <4>2 DEF Fencing
        <4> QED BY <2>1, <2>2, <4>3
      <3>3. CASE d.holder[a] = NoSession
        <4>1. SetHolder(d, a, s).sess = d.sess
          BY <3>3 DEF SetHolder, DbType
        <4>2. e.sess[t] = d.sess[t] /\ t \notin d.fences[a]
          BY <1>1, <2>1, <4>1 DEF e, Fencing
        <4> QED BY <2>1, <4>2 DEF Qualifiers, Qualified
      <3> QED BY <3>1, <3>3
    <2>3. CASE t # d.holder[a]
      <3>1. e.sess[t] = d.sess[t] /\ t \notin d.fences[a]
        BY <1>1, <2>1, <2>3 DEF Fencing
      <3>2. t \in Qualifiers(d, a)
        BY <2>1, <3>1 DEF Qualifiers, Qualified
      <3> QED BY <3>2
    <2> QED BY <2>2, <2>3
  <1> QED BY <1>2, <1>3 DEF e

\* Retiring a row keeps its participant and its kind.
LEMMA RetireRowKeeps ==
    ASSUME NEW rows \in [Session -> Row], NEW f \in Session, NEW t \in Session
    PROVE  /\ RetireRow(rows, f)[t].launch = rows[t].launch
           /\ rows[t].subagent => RetireRow(rows, f)[t].subagent
  <1>1. PICK row : row = [rows[f] EXCEPT !.state = "inactive"]
    OBVIOUS
  <1>2. row.launch = rows[f].launch /\ (rows[f].subagent => row.subagent)
    BY <1>1 DEF Row
  <1>3. [rows EXCEPT ![f].state = "inactive"] = [rows EXCEPT ![f] = row]
    BY <1>1
  <1>4. CASE t = f
    BY <1>2, <1>3, <1>4 DEF RetireRow
  <1>5. CASE t # f
    BY <1>5 DEF RetireRow
  <1> QED BY <1>4, <1>5

\* From d to e, s stays registered for its participant, and a sub-agent stays one.
KeepsKind(d, s, e) ==
    /\ e.sess[s].launch = d.sess[s].launch
    /\ d.sess[s].subagent => e.sess[s].subagent

\* The holder rules keep the caller's participant and its kind.
LEMMA AssignNamesKeeps ==
    ASSUME NEW d \in DbType, NEW s \in Session, NEW w \in BOOLEAN, ParticipantsAssumption,
           NEW e, e = AssignNames(d, s, w)
    PROVE  KeepsKind(d, s, e)
  <1> USE DEF KeepsKind
  <1>0. PICK b : b = AddressOf(d.sess[s])
    OBVIOUS
  <1>1. AssignOutcome(d, s, b, e)
    BY <1>0, AssignNamesCases
  <1>2. CASE e = d \/ e = ReleaseAddress(d, s)
    <2>1. e.sess = d.sess
      BY <1>2 DEF ReleaseAddress, DbType
    <2> QED BY <2>1
  <1>3. CASE b \in Address /\ e = RecordConflict(d, b)
    <2> DEFINE former == d.holder[b]
               base == IF former = NoSession THEN d ELSE Supersede(d, b, former)
    <2>1. former \in Session \cup {NoSession} /\ d.sess \in [Session -> Row]
      BY <1>3 DEF DbType
    <2>2. base \in DbType /\ (base.sess = d.sess \/ (former \in Session /\ base.sess = RetireRow(d.sess, former)))
      <3>1. CASE former = NoSession
        BY <3>1
      <3>2. CASE former # NoSession
        <4>1. former \in Session /\ base = Supersede(d, b, former)
          BY <2>1, <3>2
        <4>2. Supersede(d, b, former) \in DbType
          BY <1>3, <4>1, SupersedeType
        <4>3. Supersede(d, b, former).sess = RetireRow(d.sess, former)
          BY DEF Supersede, DbType
        <4> QED BY <4>1, <4>2, <4>3
      <3> QED BY <3>1, <3>2
    <2>3. e = [base EXCEPT !.holder = [d.holder EXCEPT ![b] = NoSession],
                           !.conflict = [d.conflict EXCEPT ![b] = Qualifiers(d, b)]]
      BY <1>3 DEF RecordConflict
    <2> HIDE DEF base
    <2>4. e.sess = base.sess
      BY <2>2, <2>3 DEF DbType
    <2> QED BY <2>1, <2>2, <2>4, RetireRowKeeps
  <1>4. CASE b \in Address /\ e = SetHolder(d, b, s)
    <2>1. e.sess[s] = d.sess[s]
      BY <1>4, SetHolderRows
    <2> QED BY <2>1
  <1> QED BY <1>1, <1>2, <1>3, <1>4 DEF AssignOutcome

PassesRightly(a) ==
    /\ Supplants(a) => ProvenBy(a, holder[a], holder'[a])
    /\ Assigned(a) => ChooseHolder(a, holder'[a]) \/ Qualifiers(Db, a)' = {holder'[a]}

\* A holder other than the caller that qualifies on the written rows acts for the address.
LEMMA WrittenHolderActs ==
    ASSUME Sound(Db), NEW s \in Session, NEW rows \in [Session -> Row],
           \A t \in Session \ {s} : rows[t] = sess[t],
           NEW d, d = [Db EXCEPT !.sess = rows], NEW a \in Address, holder[a] \in Session \ {s}
    PROVE  /\ Qualified(d, holder[a], a) => Acting(a, holder[a])
           /\ Acting(a, holder[a]) => Qualified(d, holder[a], a)
  <1>1. d.sess = rows /\ Db.sess = sess
    BY DEF Sound, DbType, Db
  <1>2. d.sess[holder[a]] = Db.sess[holder[a]]
    BY <1>1
  <1> QED BY <1>2 DEF Acting, Qualified

\* The holder rules, committed, pass an address only to its one qualifier, and from no
\* session that acts for it.
LEMMA RulesPassRightly ==
    ASSUME ParticipantsAssumption, Sound(Db), NEW s \in Session, NEW rows \in [Session -> Row],
           \A t \in Session \ {s} : rows[t] = sess[t],
           NEW d, d = [Db EXCEPT !.sess = rows], Sound(d), NEW a \in Address,
           d.holder[a] # s, Qualifiers(d, a) = {s},
           d.holder[a] # NoSession => ~Qualified(d, d.holder[a], a),
           Commit(SetHolder(d, a, s))
    PROVE  PassesRightly(a)
  <1> DEFINE e == SetHolder(d, a, s)
  <1>0. d \in DbType /\ d.holder = holder /\ holder \in [Address -> Session \cup {NoSession}]
    BY DEF Sound, DbType, Db
  <1>1. Qualifiers(e, a) = {s} /\ e.holder[a] = s
    <2>1. Qualifiers(e, a) = {s}
      BY <1>0, SoleQualifier
    <2>2. e.holder[a] = s
      BY <1>0, SetHolderFencing
    <2> QED BY <2>1, <2>2
  <1> HIDE DEF e
  <1>2. sess' = e.sess /\ fences' = e.fences /\ holder' = e.holder
    BY DEF Commit, e
  <1>3. Qualifiers(Db, a)' = {s}
    <2>1. Qualifiers(Db, a)' = Qualifiers(e, a)
      BY <1>2 DEF Qualifiers, Qualified, Db
    <2> QED BY <1>1, <2>1
  <1>4. ~Supplants(a)
    BY <1>0, WrittenHolderActs DEF Supplants
  <1> QED BY <1>1, <1>2, <1>3, <1>4 DEF PassesRightly

\* A registration passes an address by its holder rules or, on evidence, by succession.
LEMMA RegisterPasses ==
    ASSUME ParticipantsAssumption, IInv, NEW s \in Session, NEW r \in Requests[s], Register(s, r),
           NEW a \in Address
    PROVE  PassesRightly(a)
  <1> DEFINE rows == [sess EXCEPT ![s] = RegisteredRow(s, r)]
             d == Upsert(s, r)
  <1>0. /\ sess \in [Session -> Row] /\ Sound(Db)
        /\ holder \in [Address -> Session \cup {NoSession}]
        /\ NoSession \notin Session
    BY DEF IInv, Sound, DbType, Db, ParticipantsAssumption
  <1>1. r \in Registration
    BY DEF ParticipantsAssumption
  <1>2. RegisteredRow(s, r) \in Row
    BY <1>0, <1>1 DEF IInv, RegisteredRow, Row, Registration, ParticipantsAssumption
  <1>3. rows \in [Session -> Row] /\ \A t \in Session \ {s} : rows[t] = sess[t]
    BY <1>0, <1>2
  <1>4. Sound(d) /\ d \in DbType /\ d = [Db EXCEPT !.sess = rows] /\ d.holder = holder /\ d.sess = rows
    BY <1>0, <1>3, RowSound DEF Upsert, Sound, DbType, Db
  <1>5. d = [sess |-> rows, holder |-> holder, conflict |-> conflict, fences |-> fences]
    BY <1>4 DEF Db, Upsert
  <1>w. PICK w \in BOOLEAN : w = (sess[s].state = "active")
    OBVIOUS
  <1>e. PICK e : e = AssignNames(d, s, w)
    OBVIOUS
  <1> DEFINE f == Succeed(e, s, r)
  <1>6. Commit(f)
    BY <1>w, <1>e DEF Register
  <1> HIDE DEF d, rows
  <1>7. Sound(e) /\ RulesOutcome(d, s, a, e)
    <2>1. Sound(e)
      BY <1>4, <1>e, AssignNamesSound
    <2>2. RulesOutcome(d, s, a, e)
      BY <1>4, <1>e, AssignNamesPasses
    <2> QED BY <2>1, <2>2
  <1>8. e.sess[s].launch = d.sess[s].launch /\ (d.sess[s].subagent => e.sess[s].subagent)
    <2>1. KeepsKind(d, s, e)
      BY <1>4, <1>e, AssignNamesKeeps
    <2> QED BY <2>1 DEF KeepsKind
  <1>9. AddressOf(e.sess[s]) = AddressOf(d.sess[s])
    BY <1>8 DEF AddressOf
  <1>10. /\ e.holder[a] = NoSession => f.holder[a] = NoSession
         /\ SucceedOutcome(e, s, r, a, f)
         /\ a = AddressOf(e.sess[s]) /\ e.holder[a] = s => f = e
    BY <1>1, <1>7, SucceedFencing, SucceedPasses
  <1> HIDE DEF f
  <1>11. sess' = f.sess /\ holder' = f.holder
    BY <1>6 DEF Commit
  <1>12. CASE e.holder[a] = NoSession
    BY <1>10, <1>11, <1>12 DEF PassesRightly, Supplants, Assigned, Passed
  <1>13. CASE /\ e.holder[a] = d.holder[a]
              /\ AddressOf(d.sess[s]) = a /\ ~d.sess[s].subagent /\ d.holder[a] # s => e = d
    <2>1. CASE f.holder[a] = e.holder[a]
      BY <1>4, <1>11, <1>13, <2>1 DEF PassesRightly, Supplants, Assigned, Passed
    <2>2. CASE f.holder[a] # e.holder[a]
      <3>1. /\ a = AddressOf(e.sess[s]) /\ e.holder[a] \in Session \ {s} /\ Qualified(e, e.holder[a], a)
            /\ f.holder[a] = s /\ Verdict(e, s, e.holder[a], a, r) \in Evidence
            /\ f.sess[s].host = e.sess[s].host
            /\ e.sess[s].pane # NoPane => f.sess[s].pane = e.sess[s].pane
        BY <1>10, <2>2 DEF SucceedOutcome
      <3>2. ~e.sess[s].subagent
        BY <3>1 DEF Verdict, Evidence
      <3>3. e = d
        BY <1>8, <1>9, <1>13, <3>1, <3>2
      <3>4. holder[a] \in Session \ {s} /\ Qualified(d, holder[a], a)
        BY <1>4, <3>1, <3>3
      <3>5. Acting(a, holder[a])
        BY <1>0, <1>3, <1>4, <3>4, WrittenHolderActs
      <3>6. ~Assigned(a)
        BY <3>4, <3>5, <1>0 DEF Assigned
      <3>7. ProvenBy(a, holder[a], s)
        <4>1. Verdict(d, s, holder[a], a, r) \in Evidence
          BY <1>4, <3>1, <3>3
        <4>2. sess'[s].host = rows[s].host /\ (rows[s].pane # NoPane => sess'[s].pane = rows[s].pane)
          BY <1>4, <1>11, <3>1, <3>3
        <4> QED BY <1>5, <3>4, <4>1, <4>2, EvidenceProves DEF rows
      <3> QED BY <1>11, <3>1, <3>6, <3>7 DEF PassesRightly
    <2> QED BY <2>1, <2>2
  <1>14. CASE /\ e.holder[a] = s /\ d.holder[a] # s /\ a = AddressOf(d.sess[s]) /\ e = SetHolder(d, a, s)
              /\ Qualifiers(d, a) = {s}
              /\ d.holder[a] # NoSession => ~Qualified(d, d.holder[a], a)
    <2>1. f = e
      BY <1>9, <1>10, <1>14
    <2>2. Commit(SetHolder(d, a, s))
      BY <1>6, <1>14, <2>1
    <2> QED BY <1>0, <1>3, <1>4, <1>14, <2>2, RulesPassRightly
  <1> QED BY <1>7, <1>12, <1>13, <1>14 DEF RulesOutcome

\* Every step passes an address only by the maintainer's choice, by the holder rules to its
\* one qualifier, or by succession on evidence.
LEMMA StepPasses ==
    ASSUME ParticipantsAssumption, IInv, [Next]_vars, NEW a \in Address
    PROVE  PassesRightly(a)
  <1>0. /\ sess \in [Session -> Row] /\ Sound(Db)
        /\ holder \in [Address -> Session \cup {NoSession}]
        /\ NoSession \notin Session
    BY DEF IInv, Sound, DbType, Db, ParticipantsAssumption
  <1>a. ASSUME holder'[a] \in {NoSession, holder[a]} PROVE PassesRightly(a)
    BY <1>a DEF PassesRightly, Supplants, Assigned, Passed
  <1>1. ASSUME NEW s \in Session, NEW r \in Requests[s], Register(s, r)
        PROVE  PassesRightly(a)
    BY <1>1, RegisterPasses
  <1>2. ASSUME NEW s \in Session, Renew(s)
        PROVE  PassesRightly(a)
    <2> DEFINE rows == [sess EXCEPT ![s] = RenewedRow(s)]
               d == [Db EXCEPT !.sess = rows]
    <2>0. sess[s] \in Row
      BY <1>0
    <2>1. [sess[s] EXCEPT !.host = NoHost, !.pane = NoPane] \in Row
      BY <2>0 DEF Row
    <2>2. rows \in [Session -> Row] /\ \A t \in Session \ {s} : rows[t] = sess[t]
      BY <1>0, <2>1 DEF RenewedRow
    <2>3. PICK e : e = AssignNames(d, s, TRUE)
      OBVIOUS
    <2>4. Commit(e)
      BY <1>2, <2>3 DEF Renew
    <2> HIDE DEF rows
    <2>5. Sound(d) /\ d \in DbType /\ d.holder = holder
      BY <1>0, <2>2, RowSound DEF Sound, DbType, Db
    <2>6. PICK g : g = d
      OBVIOUS
    <2> HIDE DEF d
    <2>7. RulesOutcome(g, s, a, e)
      BY <2>3, <2>5, <2>6, AssignNamesPasses
    <2>8. holder' = e.holder
      BY <2>4 DEF Commit
    <2>9. CASE e.holder[a] \in {NoSession, g.holder[a]}
      BY <1>a, <2>5, <2>6, <2>8, <2>9
    <2>10. CASE /\ g.holder[a] # s /\ e = SetHolder(g, a, s) /\ Qualifiers(g, a) = {s}
                /\ g.holder[a] # NoSession => ~Qualified(g, g.holder[a], a)
      <3>1. Commit(SetHolder(g, a, s)) /\ Sound(g) /\ g = [Db EXCEPT !.sess = rows]
        BY <2>4, <2>5, <2>6, <2>10 DEF d
      <3> QED BY <1>0, <2>2, <2>10, <3>1, RulesPassRightly
    <2> QED BY <2>7, <2>9, <2>10 DEF RulesOutcome
  <1>3. ASSUME NEW s \in Session, DeleteSession(s)
        PROVE  PassesRightly(a)
    <2>1. holder' = [b \in Address |-> IF holder[b] = s THEN NoSession ELSE holder[b]]
      BY <1>3 DEF DeleteSession, Commit, ReleaseAddress, Db
    <2> QED BY <1>a, <2>1
  <1>4. ASSUME NEW b \in Address, NEW s \in Session, ChooseHolder(b, s)
        PROVE  PassesRightly(a)
    <2> DEFINE d == [Db EXCEPT !.fences = [fences EXCEPT ![b] = @ \ {s}]]
    <2>1. d \in DbType /\ d.holder = holder
      BY <1>0 DEF Sound, DbType, Db
    <2>2. Commit(IF holder[b] = s THEN d ELSE SetHolder(d, b, s))
      BY <1>4 DEF ChooseHolder
    <2> HIDE DEF d
    <2>3. CASE holder[b] = s
      BY <1>a, <2>1, <2>2, <2>3 DEF Commit
    <2>4. CASE holder[b] # s
      <3>1. holder'[b] = s /\ (a # b => holder'[a] = holder[a])
        BY <2>1, <2>2, <2>4, SetHolderFencing DEF Commit
      <3>2. CASE a # b
        BY <1>a, <3>1, <3>2
      <3>3. CASE a = b
        BY <1>4, <3>1, <3>3 DEF PassesRightly, ProvenBy
      <3> QED BY <3>2, <3>3
    <2> QED BY <2>3, <2>4
  <1>5. ASSUME NEW s \in Session, NEW mark \in BOOLEAN,
               Retire(s) \/ MarkPurge(s, mark) \/ Expire(s) \/ ToolCall(s) \/ GuardElapse(s)
        PROVE  PassesRightly(a)
    BY <1>a, <1>5 DEF Retire, MarkPurge, Expire, ToolCall, GuardElapse
  <1>6. ASSUME NEW h \in Host, HostEnd(h)
        PROVE  PassesRightly(a)
    BY <1>a, <1>6 DEF HostEnd
  <1>7. CASE Restart \/ UNCHANGED vars
    BY <1>a, <1>7 DEF Restart, vars
  <1> QED BY <1>1, <1>2, <1>3, <1>4, <1>5, <1>6, <1>7 DEF Next, Operation

\* In every instance, an address leaves a session that acts for it only by the maintainer's
\* choice or on the evidence of succeed: the same host, with the holder idle or the host's own
\* report, or the same pane with the holder's host ended, and no other participant's host; or,
\* where neither has a host, the holder's cycle, whose pickup was received, created the session.
THEOREM SuccessionIsProvenThm == Spec => SuccessionIsProven
  <1> DEFINE Proven == \A a \in Address : Supplants(a) => ProvenBy(a, holder[a], holder'[a])
  <1>1. IInv /\ [Next]_vars => [Proven]_vars
    BY StepPasses, ParticipantsAssumption DEF PassesRightly
  <1>2. Spec => [][Proven]_vars
    BY <1>1, IInvHolds, PTL DEF Spec
  <1> QED BY <1>2 DEF SuccessionIsProven, Supplants, Passed, ProvenBy

\* In every instance, an address without an acting holder goes to a session only by the
\* maintainer's choice, or because it is then the one qualifier (assignNames).
THEOREM OrderNeverDecidesThm == Spec => OrderNeverDecides
  <1> DEFINE Undecided == \A a \in Address :
                 Assigned(a) => ChooseHolder(a, holder'[a]) \/ Qualifiers(Db, a)' = {holder'[a]}
  <1>1. IInv /\ [Next]_vars => [Undecided]_vars
    BY StepPasses, ParticipantsAssumption DEF PassesRightly
  <1>2. Spec => [][Undecided]_vars
    BY <1>1, IInvHolds, PTL DEF Spec
  <1> QED BY <1>2 DEF OrderNeverDecides, Assigned, Passed
=============================================================================
