------------------------------- MODULE Rooms -------------------------------
(***************************************************************************)
(* One room (internal/core/rooms.go, room_posts.go): its members, its      *)
(* posts with an inbox copy for each active member, the retry records that *)
(* make a post happen once, the culling of posts and records, and a client *)
(* that reads the transcript page by page.                                 *)
(*                                                                         *)
(* A member is a session or the participant at an address; who holds the   *)
(* address (module Participants), which sessions are active and when an    *)
(* inbox copy is deleted (module Inbox) are the world's choices here.      *)
(* A post checks its members and key in a read and again in its write: the *)
(* write decides, so a post is one step.  Posts to a room count as posts   *)
(* of the store.                                                           *)
(***************************************************************************)
EXTENDS Naturals, Sequences, FiniteSets
LOCAL INSTANCE FiniteSetsExt

CONSTANTS
    RoomSessions,     \* sessions, each of them a reader of the room
    PostKeys,         \* idempotency keys of posts; each is of one session
    MaxPosts,         \* bound: posts accepted
    MaxRevisions,     \* bound: changes of the roster
    MaxRoomPosts,     \* maxRoomPosts: retained posts
    MaxRoomReplays    \* maxRoomReplays: retry records

ASSUME RoomsAssumption ==
    /\ MaxPosts \in Nat /\ MaxRevisions \in Nat /\ MaxRoomPosts \in Nat /\ MaxRoomReplays \in Nat
    /\ "address" \notin RoomSessions

VARIABLES
    room,       \* revision, post_head, membership rows, posts, retry records
    notices,    \* the last notice of a change that each member was sent
    roomHolder,     \* world: the session that holds the address, or "none"
    up,         \* world: the active sessions
    due,        \* world: the keys whose retry deadline has passed
    heard       \* world: what each session has read of the transcript

roomVars == <<room, notices, roomHolder, up, due, heard>>

MemberIds == RoomSessions \cup {"address"}
NoMember == [state |-> "none", start |-> 0]
NothingRead == [after |-> 0, begun |-> 0, got |-> {}, gaps |-> {}, outside |-> {}]

\* participantState and active: the member's inbox takes a message now.
Reachable(m) == IF m = "address" THEN roomHolder \in up ELSE m \in up

HeldAddress(s) == IF roomHolder = s THEN {"address"} ELSE {}
CallerMemberships(s) == {s} \cup HeldAddress(s)
Current(m) == room.rows[m].state = "active"

-----------------------------------------------------------------------------
(* The maintainer's changes of the roster *)

RoomNotice(m, event) ==
    notices' = IF Reachable(m) THEN [notices EXCEPT ![m] = event] ELSE notices

\* An initial add or a re-add starts the membership at the current post head.
MembershipStart(m) == room.head

\* The session is added as the participant whose address it holds, or as itself.
AddRoomMember(s) ==
    LET m == IF roomHolder = s THEN "address" ELSE s IN
    /\ s \in up /\ ~Current(m) /\ room.revision < MaxRevisions
    /\ room' = [room EXCEPT !.revision = @ + 1,
                            !.rows[m] = [state |-> "active", start |-> MembershipStart(m)]]
    /\ RoomNotice(m, "added")
    /\ UNCHANGED <<roomHolder, up, due, heard>>

RemoveRoomMember(m) ==
    /\ Current(m) /\ room.revision < MaxRevisions
    /\ room' = [room EXCEPT !.revision = @ + 1, !.rows[m].state = "removed"]
    /\ RoomNotice(m, "removed")
    /\ UNCHANGED <<roomHolder, up, due, heard>>

-----------------------------------------------------------------------------
(* Posts *)

\* One outcome for each current member but the poster's own memberships.
FanOut(senders) ==
    [m \in {x \in MemberIds : Current(x)} \ senders |-> IF Reachable(m) THEN "queued" ELSE "skipped"]

\* roomPostRepeat: an agent must be a member now, even to repeat a post.
MayPost(s) == s = "maintainer" \/ (s \in up /\ \E m \in CallerMemberships(s) : Current(m))

PostLimits ==
    /\ Cardinality(room.posts) < MaxRoomPosts
    /\ Cardinality(room.replays) < MaxRoomReplays

\* A repeat returns the first receipt and writes nothing.
RoomPost(s, k) ==
    /\ MayPost(s) /\ k \notin due
    /\ \A r \in room.replays : r # <<s, k>>
    /\ PostLimits /\ room.head < MaxPosts
    /\ LET senders == IF s = "maintainer" THEN {} ELSE CallerMemberships(s) IN
       room' = [room EXCEPT
           !.head = @ + 1,
           !.posts = @ \cup {[seq |-> room.head + 1, by |-> s, key |-> k, copies |-> FanOut(senders),
                              members |-> {m \in MemberIds : Current(m)}]},
           !.replays = @ \cup {<<s, k>>},
           !.accepted = Append(@, <<s, k>>)]
    /\ UNCHANGED <<notices, roomHolder, up, due, heard>>

\* An inbox copy is deleted by retention, a purge or a deletion of its inbox.
CopyGone(p, m) ==
    /\ p \in room.posts /\ m \in DOMAIN p.copies /\ p.copies[m] = "queued"
    /\ room' = [room EXCEPT !.posts = (@ \ {p}) \cup {[p EXCEPT !.copies[m] = "gone"]}]
    /\ UNCHANGED <<notices, roomHolder, up, due, heard>>

\* A post goes when its copies are all gone, or when it had none and is old.
Cullable(p) == \A m \in DOMAIN p.copies : p.copies[m] # "queued"

ReplayExpired(r) == r[2] \in due

CullRoomPosts ==
    /\ \E S \in SUBSET {p \in room.posts : Cullable(p)} :
        room' = [room EXCEPT !.posts = @ \ S,
                             !.replays = {r \in @ : ~ReplayExpired(r)}]
    /\ UNCHANGED <<notices, roomHolder, up, due, heard>>

-----------------------------------------------------------------------------
(* The transcript *)

\* Mutant of CurrentStarts: a former membership also gives access.
CurrentStartsFormer(s) ==
    {room.rows[m].start : m \in {x \in CallerMemberships(s) : room.rows[x].state # "none"}}

\* The starts of the caller's current memberships.
CurrentStarts(s) == {room.rows[m].start : m \in {x \in CallerMemberships(s) : Current(x)}}

\* A page holds one post.  Its range ends at that post while more follow, else at the
\* head; the sequences of the range without a post are gaps.
RoomRead(s) ==
    LET start == Min(CurrentStarts(s))
        from  == Max({heard[s].after, start})
        later == {p \in room.posts : p.seq > from}
        page  == {p \in later : \A q \in later : p.seq <= q.seq}
        end   == IF later # page THEN Max({p.seq : p \in page}) ELSE room.head
        range == {q \in 1..room.head : q > from /\ q <= end}
    IN
    /\ s \in up /\ CurrentStarts(s) # {}
    /\ range # {}
    /\ heard' = [heard EXCEPT ![s] =
         [after   |-> end,
          begun   |-> IF from = @.after THEN @.begun ELSE from,
          got     |-> @.got \cup {p.seq : p \in page},
          gaps    |-> @.gaps \cup (range \ {p.seq : p \in page}),
          outside |-> @.outside \cup {p.seq : p \in {x \in page :
                          x.members \cap CallerMemberships(s) = {}}}]]
    /\ UNCHANGED <<room, notices, roomHolder, up, due>>

-----------------------------------------------------------------------------
(* The world *)

HolderMoves(h) ==
    /\ h # roomHolder
    /\ roomHolder' = h
    /\ UNCHANGED <<room, notices, up, due, heard>>

SessionChanges(s) ==
    /\ up' = IF s \in up THEN up \ {s} ELSE up \cup {s}
    /\ UNCHANGED <<room, notices, roomHolder, due, heard>>

DeadlinePasses(k) ==
    /\ k \notin due
    /\ due' = due \cup {k}
    /\ UNCHANGED <<room, notices, roomHolder, up, heard>>

-----------------------------------------------------------------------------

RoomsInit ==
    /\ room = [revision |-> 1, head |-> 0, rows |-> [m \in MemberIds |-> NoMember],
               posts |-> {}, replays |-> {}, accepted |-> <<>>]
    /\ notices = [m \in MemberIds |-> "none"]
    /\ roomHolder = "none"
    /\ up = RoomSessions
    /\ due = {}
    /\ heard = [s \in RoomSessions |-> NothingRead]

RoomsNext ==
    \/ \E s \in RoomSessions :
        \/ AddRoomMember(s) \/ RoomRead(s) \/ SessionChanges(s) \/ HolderMoves(s)
    \/ HolderMoves("none")
    \/ \E m \in MemberIds : RemoveRoomMember(m)
    \/ \E s \in RoomSessions \cup {"maintainer"}, k \in PostKeys : RoomPost(s, k)
    \/ \E p \in room.posts : \E m \in DOMAIN p.copies : CopyGone(p, m)
    \/ CullRoomPosts
    \/ \E k \in PostKeys : DeadlinePasses(k)

RoomsSpec == RoomsInit /\ [][RoomsNext]_roomVars

-----------------------------------------------------------------------------
(* Properties *)

\* What room_read tells a reader is complete and belongs to it: across its pages, every
\* sequence since it began was given as a post or named as a gap, whatever was posted
\* and culled in between, and each post it got was made while a member that the reader
\* still is, itself or as the address's holder, was in the room; a removal and a new add
\* never open the posts made in between.
RoomReadHonest ==
    \A s \in RoomSessions :
        /\ \A q \in 1..heard[s].after : q > heard[s].begun => q \in heard[s].got \cup heard[s].gaps
        /\ heard[s].outside = {}

\* A post that the sender repeats with its key, because the reply was lost, is posted
\* once: the retry record lives as long as the key's deadline lets a repeat in, although
\* the post and its inbox copies may be culled before.
PostedOnce ==
    \A i, j \in DOMAIN room.accepted : room.accepted[i] = room.accepted[j] => i = j

\* What the reader of a room and the sender of a post may rely on (RoomRead, RoomPost).
RoomsSound == RoomReadHonest /\ PostedOnce
=============================================================================
