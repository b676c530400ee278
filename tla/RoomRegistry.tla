----------------------------- MODULE RoomRegistry -----------------------------
(***************************************************************************)
(* The room directory of internal/room (registry.go, room.go, the curRoom  *)
(* pointer of peer.go) together with the part of the WebSocket sessions of *)
(* internal/ws/dispatch.go that drives it: create, join, leave and         *)
(* disconnect.                                                             *)
(*                                                                         *)
(* A step is what one goroutine does inside one critical section of        *)
(* Registry.mu and Room.mu, or one atomic store, so sessions, timers and   *)
(* timer callbacks interleave between the unlock of one section and the    *)
(* lock of the next.  The lengths of the delays (60 s after a create, 30 s *)
(* after the last leave) are abstracted: an armed timer may fire at any    *)
(* later moment.                                                           *)
(*                                                                         *)
(* Requests the dispatcher refuses before it touches a room (rate limits,  *)
(* malformed data, "leave first", "not in room") change nothing here.  The *)
(* room-list callbacks only reach ws.DeltaBroker, which has no subscriber. *)
(***************************************************************************)
EXTENDS Naturals, FiniteSets

CONSTANTS
  Spellings,  \* room names as clients write them
  Keys,       \* lower-cased room names: the keys of Registry.rooms
  Lower,      \* [Spellings -> Keys]: strings.ToLower
  Peers,      \* the peers of the authenticated sessions
  Rooms,      \* the Room objects the process may allocate
  Protected,  \* those that are created with a password
  NoKey,      \* the name of a Room that has not been allocated
  NoRoom,     \* a nil *Room
  MaxRooms,   \* NewRegistry's maxRooms
  MaxPeers,   \* NewRegistry's maxPeersPerRoom
  GenBound    \* bound: a room is not joined again once its generation is here

ASSUME ConstantsAssumption ==
  /\ Lower \in [Spellings -> Keys]
  /\ NoKey \notin Keys
  /\ NoRoom \notin Rooms
  /\ Protected \subseteq Rooms
  /\ IsFiniteSet(Keys)
  /\ IsFiniteSet(Peers)
  /\ MaxRooms \in Nat
  /\ MaxPeers \in Nat
  /\ GenBound \in Nat

VARIABLES
  rooms,      \* Registry.rooms, with NoRoom for an absent key
  key,        \* Room.NameLower, NoKey before the object is allocated
  peers,      \* Room.peers, as the set of its members
  destroyed,  \* Room.destroyed
  timer,      \* Room.destroyTimer: 0 for nil, else the generation its callback
              \*   captured
  gen,        \* Room.destroyGeneration
  armed,      \* runtime timers that have not fired: <<room, generation>>
  calls,      \* callbacks that fired and have not locked yet: <<room, generation>>
  pc,         \* where each session's goroutine is
  at,         \* the room the session's current handler works on
  curRoom,    \* Peer.curRoom
  live        \* FALSE once the session's read loop has failed

roomVars == <<rooms, key, peers, destroyed, timer, gen, armed>>
sessionVars == <<pc, at, curRoom, live>>
vars == <<rooms, key, peers, destroyed, timer, gen, armed, calls,
          pc, at, curRoom, live>>

(* Where a session may stand:                                              *)
(*   "idle"       in conn.read, between two messages                       *)
(*   "arm"        Create has published the room and released the lock      *)
(*   "check"      Find has returned a room whose password must be compared *)
(*   "add"        about to call Room.Add                                   *)
(*   "set"        Add has unlocked; setRoom(r) is next                     *)
(*   "clear"      Remove has unlocked, others remain; setRoom(nil) is next *)
(*   "clearLast"  the same, but the removed peer was the last one          *)
(*   "sched"      scheduleEmptyDestroy is next                             *)
PCs == {"idle", "arm", "check", "add", "set", "clear", "clearLast", "sched"}

TypeOK ==
  /\ rooms \in [Keys -> Rooms \cup {NoRoom}]
  /\ key \in [Rooms -> Keys \cup {NoKey}]
  /\ peers \in [Rooms -> SUBSET Peers]
  /\ destroyed \in [Rooms -> BOOLEAN]
  /\ timer \in [Rooms -> Nat]
  /\ gen \in [Rooms -> Nat]
  /\ armed \subseteq Rooms \X Nat
  /\ calls \subseteq Rooms \X Nat
  /\ pc \in [Peers -> PCs]
  /\ at \in [Peers -> Rooms \cup {NoRoom}]
  /\ \A p \in Peers : pc[p] # "idle" => at[p] \in Rooms
  /\ curRoom \in [Peers -> Rooms \cup {NoRoom}]
  /\ live \in [Peers -> BOOLEAN]

Init ==
  /\ rooms = [k \in Keys |-> NoRoom]
  /\ key = [r \in Rooms |-> NoKey]
  /\ peers = [r \in Rooms |-> {}]
  /\ destroyed = [r \in Rooms |-> FALSE]
  /\ timer = [r \in Rooms |-> 0]
  /\ gen = [r \in Rooms |-> 0]
  /\ armed = {}
  /\ calls = {}
  /\ pc = [p \in Peers |-> "idle"]
  /\ at = [p \in Peers |-> NoRoom]
  /\ curRoom = [p \in Peers |-> NoRoom]
  /\ live = [p \in Peers |-> TRUE]

-----------------------------------------------------------------------------
(* Helpers over the state *)

PublishedKeys == {k \in Keys : rooms[k] # NoRoom}

Published(r) == key[r] # NoKey /\ rooms[key[r]] = r

GoTo(p, label, r) ==
  /\ pc' = [pc EXCEPT ![p] = label]
  /\ at' = [at EXCEPT ![p] = r]

\* The handler returns to the read loop.
Return(p) == GoTo(p, "idle", NoRoom)

\* A session between two messages; a session whose connection is gone reads none.
Reads(p) == pc[p] = "idle" /\ live[p]

-----------------------------------------------------------------------------
(* Registry.Create, under Registry.mu; then Room.start and the idle timer  *)

ServerFull == Cardinality(PublishedKeys) >= MaxRooms

\* A peer that is in no room asks for a new room: the name is free and the
\* server has space, so the room is published under the lower-cased name.  A
\* refusal (name taken, server full) leaves everything as it was.
Create(p, s, r) ==
  /\ Reads(p)
  /\ curRoom[p] = NoRoom
  /\ rooms[Lower[s]] = NoRoom
  /\ ~ServerFull
  /\ key[r] = NoKey
  /\ key' = [key EXCEPT ![r] = Lower[s]]
  /\ rooms' = [rooms EXCEPT ![Lower[s]] = r]
  /\ GoTo(p, "arm", r)
  /\ UNCHANGED <<peers, destroyed, timer, gen, armed, calls, curRoom, live>>

\* The recheck of scheduleDestroyIfEmpty, made under Room.mu.
MayArm(r) == ~destroyed[r] /\ peers[r] = {} /\ timer[r] = 0

\* scheduleDestroyIfEmpty: one critical section of Room.mu.
ScheduleDestroyIfEmpty(r) ==
  IF MayArm(r)
  THEN /\ gen' = [gen EXCEPT ![r] = @ + 1]
       /\ timer' = [timer EXCEPT ![r] = gen[r] + 1]
       /\ armed' = armed \cup {<<r, gen[r] + 1>>}
  ELSE UNCHANGED <<gen, timer, armed>>

\* Room.start and startIdleDestroyTimer; the creator then joins its own room.
ArmIdleTimer_Forgotten(p) ==
  /\ pc[p] = "arm"
  /\ GoTo(p, "add", at[p])
  /\ UNCHANGED <<rooms, key, peers, destroyed, timer, gen, armed, calls,
                 curRoom, live>>
ArmIdleTimer(p) ==
  /\ pc[p] = "arm"
  /\ ScheduleDestroyIfEmpty(at[p])
  /\ GoTo(p, "add", at[p])
  /\ UNCHANGED <<rooms, key, peers, destroyed, calls, curRoom, live>>

-----------------------------------------------------------------------------
(* handleRoomJoin: Registry.Find, the password, Room.Add, setRoom          *)

\* Find under the registry's read lock; an absent name is refused.  The room is
\* used after the unlock, a protected one only after bcrypt has run, which takes
\* a long time.
FindRoom(p, s) ==
  LET r == rooms[Lower[s]] IN
  /\ Reads(p)
  /\ curRoom[p] = NoRoom
  /\ r # NoRoom
  /\ gen[r] < GenBound
  /\ GoTo(p, IF r \in Protected THEN "check" ELSE "add", r)
  /\ UNCHANGED <<roomVars, calls, curRoom, live>>

PasswordAccepted(p) ==
  /\ pc[p] = "check"
  /\ GoTo(p, "add", at[p])
  /\ UNCHANGED <<roomVars, calls, curRoom, live>>

\* A wrong password, or no bcrypt slot free.
PasswordRefused(p) ==
  /\ pc[p] = "check"
  /\ Return(p)
  /\ UNCHANGED <<roomVars, calls, curRoom, live>>

\* Room.Add's first two checks, with Registry.mu held for reading and Room.mu.
Expired_Unchecked(r) == FALSE
Expired(r) == rooms[key[r]] # r \/ destroyed[r]

Full_OffByOne(r) == Cardinality(peers[r]) > MaxPeers
Full(r) == Cardinality(peers[r]) >= MaxPeers

\* Stop takes an armed timer away; one that has fired is already a callback,
\* and only the new generation tells it that it is stale.
CancelTimer(r) ==
  IF timer[r] # 0
  THEN /\ armed' = armed \ {<<r, timer[r]>>}
       /\ timer' = [timer EXCEPT ![r] = 0]
       /\ gen' = [gen EXCEPT ![r] = @ + 1]
  ELSE UNCHANGED <<timer, gen, armed>>

Add(p) ==
  LET r == at[p] IN
  /\ pc[p] = "add"
  /\ ~Expired(r)
  /\ ~Full(r)
  /\ peers' = [peers EXCEPT ![r] = @ \cup {p}]
  /\ CancelTimer(r)
  /\ GoTo(p, "set", r)
  /\ UNCHANGED <<rooms, key, destroyed, calls, curRoom, live>>

\* ErrRoomNotFound ("room expired before join").
AddExpired(p) ==
  /\ pc[p] = "add"
  /\ Expired(at[p])
  /\ Return(p)
  /\ UNCHANGED <<roomVars, calls, curRoom, live>>

\* ErrRoomFull; the creator of a room may be the one who hears it.
AddFull(p) ==
  /\ pc[p] = "add"
  /\ ~Expired(at[p])
  /\ Full(at[p])
  /\ Return(p)
  /\ UNCHANGED <<roomVars, calls, curRoom, live>>

SetRoom(p) ==
  /\ pc[p] = "set"
  /\ curRoom' = [curRoom EXCEPT ![p] = at[p]]
  /\ Return(p)
  /\ UNCHANGED <<roomVars, calls, live>>

-----------------------------------------------------------------------------
(* cleanupPeer: Room.Remove, setRoom(nil), scheduleEmptyDestroy            *)

\* Remove under Room.mu: a peer that is not a member is left alone, otherwise
\* "empty" is computed for use after the unlock.
AfterRemove_NeverEmpty(p, r) ==
  IF p \notin peers[r] THEN Return(p) ELSE GoTo(p, "clear", r)
AfterRemove(p, r) ==
  IF p \notin peers[r] THEN Return(p)
  ELSE GoTo(p, IF peers[r] = {p} THEN "clearLast" ELSE "clear", r)

Remove(p) ==
  LET r == curRoom[p] IN
  /\ peers' = [peers EXCEPT ![r] = @ \ {p}]
  /\ AfterRemove(p, r)
  /\ UNCHANGED <<rooms, key, destroyed, timer, gen, armed, calls, curRoom>>

Leave(p) ==
  /\ Reads(p)
  /\ curRoom[p] # NoRoom
  /\ Remove(p)
  /\ UNCHANGED live

\* conn.read fails.
Disconnect(p) ==
  /\ Reads(p)
  /\ live' = [live EXCEPT ![p] = FALSE]
  /\ IF curRoom[p] # NoRoom
     THEN Remove(p)
     ELSE UNCHANGED <<roomVars, calls, pc, at, curRoom>>

ClearRoom_Forgotten(p) ==
  /\ pc[p] \in {"clear", "clearLast"}
  /\ IF pc[p] = "clearLast" THEN GoTo(p, "sched", at[p]) ELSE Return(p)
  /\ UNCHANGED <<roomVars, calls, curRoom, live>>
ClearRoom_RereadsRoom(p) ==
  /\ pc[p] \in {"clear", "clearLast"}
  /\ curRoom' = [curRoom EXCEPT ![p] = NoRoom]
  /\ IF pc[p] = "clearLast" THEN GoTo(p, "sched", curRoom'[p]) ELSE Return(p)
  /\ UNCHANGED <<roomVars, calls, live>>
ClearRoom(p) ==
  /\ pc[p] \in {"clear", "clearLast"}
  /\ curRoom' = [curRoom EXCEPT ![p] = NoRoom]
  /\ IF pc[p] = "clearLast" THEN GoTo(p, "sched", at[p]) ELSE Return(p)
  /\ UNCHANGED <<roomVars, calls, live>>

ArmEmptyTimer(p) ==
  /\ pc[p] = "sched"
  /\ ScheduleDestroyIfEmpty(at[p])
  /\ Return(p)
  /\ UNCHANGED <<rooms, key, peers, destroyed, calls, curRoom, live>>

-----------------------------------------------------------------------------
(* Timers: time.AfterFunc's goroutine and Registry.destroy                 *)

TimerFires(c) ==
  /\ c \in armed
  /\ armed' = armed \ {c}
  /\ calls' = calls \cup {c}
  /\ UNCHANGED <<rooms, key, peers, destroyed, timer, gen, sessionVars>>

\* What destroy rechecks with Registry.mu and Room.mu held.
MayDestroy_AnyGeneration(r, g) ==
  /\ rooms[key[r]] = r
  /\ ~destroyed[r]
  /\ timer[r] # 0
  /\ peers[r] = {}
MayDestroy(r, g) ==
  /\ rooms[key[r]] = r
  /\ ~destroyed[r]
  /\ timer[r] # 0
  /\ gen[r] = g
  /\ peers[r] = {}

Unpublish(r) == rooms' = [rooms EXCEPT ![key[r]] = NoRoom]

Destroy(c) ==
  LET r == c[1] IN
  /\ c \in calls
  /\ MayDestroy(r, c[2])
  /\ destroyed' = [destroyed EXCEPT ![r] = TRUE]
  /\ timer' = [timer EXCEPT ![r] = 0]
  /\ gen' = [gen EXCEPT ![r] = @ + 1]
  /\ Unpublish(r)
  /\ calls' = calls \ {c}
  /\ UNCHANGED <<key, peers, armed, sessionVars>>

DestroyStale(c) ==
  /\ c \in calls
  /\ ~MayDestroy(c[1], c[2])
  /\ calls' = calls \ {c}
  /\ UNCHANGED <<roomVars, sessionVars>>

-----------------------------------------------------------------------------
\* What a session's goroutine does once it has begun a request.
Continue(p) ==
  \/ ArmIdleTimer(p)
  \/ PasswordAccepted(p)
  \/ PasswordRefused(p)
  \/ Add(p)
  \/ AddExpired(p)
  \/ AddFull(p)
  \/ SetRoom(p)
  \/ ClearRoom(p)
  \/ ArmEmptyTimer(p)

\* What a client may ask for.
Request(p) ==
  \/ \E s \in Spellings, r \in Rooms : Create(p, s, r)
  \/ \E s \in Spellings : FindRoom(p, s)
  \/ Leave(p)
  \/ Disconnect(p)

TimerStep(c) == TimerFires(c) \/ Destroy(c) \/ DestroyStale(c)

Next ==
  \/ \E p \in Peers : Continue(p) \/ Request(p)
  \/ \E c \in armed \cup calls : TimerStep(c)

Spec == Init /\ [][Next]_vars

\* The Go scheduler runs every goroutine that is not blocked, the locks are
\* held for a few instructions, and a running timer fires.  Nothing is assumed
\* of the clients: they may stay silent, or connected, for ever.
Fairness ==
  /\ \A p \in Peers : WF_vars(Continue(p))
  /\ \A r \in Rooms : WF_vars(\E c \in armed \cup calls : c[1] = r /\ TimerStep(c))

FairSpec == Spec /\ Fairness

-----------------------------------------------------------------------------
(* Safety *)

\* A peer is only ever a member of a room that is published and not destroyed:
\* a racing Add either cancels the deletion or is refused, it never joins an
\* orphaned room (destroy and Add, registry.go:117-121, room.go:115-118).
NoOrphanedMember ==
  \A r \in Rooms : peers[r] # {} => Published(r) /\ ~destroyed[r]

\* A room that was created and not destroyed is the one its name finds, so a
\* creator or joiner is told "room expired" only of a room that is gone
\* (Create, destroy and the identity checks in Add and destroy).
NameFindsLiveRoom ==
  \A r \in Rooms : key[r] # NoKey => (Published(r) <=> ~destroyed[r])

\* scheduleDestroyIfEmpty "installs exactly one identified timer" (room.go:195):
\* a room's destroyTimer exists only while the room is empty, it carries the
\* room's current generation, and it is either still running or its callback is
\* in flight; no other timer of the room runs.
OneIdentifiedTimer ==
  /\ \A r \in Rooms : timer[r] # 0 =>
        /\ peers[r] = {}
        /\ timer[r] = gen[r]
        /\ <<r, timer[r]>> \in armed \cup calls
  /\ \A c \in armed : timer[c[1]] = c[2] /\ c \notin calls

\* Session p is about to call scheduleDestroyIfEmpty on r.
WillSchedule(p, r) == at[p] = r /\ pc[p] \in {"arm", "clearLast", "sched"}

\* No empty room is leaked: a published room without members has its destroy
\* timer, or a session that is on its way to arm it (Create's idle timer for the
\* ghost room of a creator that never joined, Remove's empty timer), through
\* every interleaving of leaves, joins and stale timers.
EmptyRoomWillExpire ==
  \A r \in Rooms :
    Published(r) /\ peers[r] = {} /\ timer[r] = 0
      => \E p \in Peers : WillSchedule(p, r)

\* The peer's own pointer and the room's member map agree whenever the session
\* is between messages, and a peer is in one room at most: what "leave first"
\* and the audio paths rely on (dispatch.go:425, 486, 640; room.go:166, 182).
MembershipAgrees ==
  /\ \A p \in Peers, r \in Rooms :
       pc[p] = "idle" => (p \in peers[r] <=> curRoom[p] = r)
  /\ \A p \in Peers, r, q \in Rooms :
       p \in peers[r] /\ p \in peers[q] => r = q

\* The limits hold although Create and Add are called with decisions made
\* outside the locks (registry.go:72-80, room.go:135).
WithinLimits ==
  /\ Cardinality(PublishedKeys) <= MaxRooms
  /\ \A r \in Rooms : Cardinality(peers[r]) <= MaxPeers

-----------------------------------------------------------------------------
(* The promise of AbstractRooms, kept *)

lifeBar == [r \in Rooms |->
              IF key[r] = NoKey THEN "unborn"
              ELSE IF destroyed[r] THEN "closed" ELSE "open"]

countdownBar == [r \in Rooms |->
                   IF timer[r] = 0 THEN "off"
                   ELSE IF <<r, timer[r]>> \in armed THEN "running" ELSE "over"]

Promise == INSTANCE AbstractRooms
             WITH dir <- rooms, life <- lifeBar, members <- peers,
                  countdown <- countdownBar

\* Every behaviour is one of AbstractRooms: in particular a room is destroyed
\* only when the countdown that began after its last member left has run out
\* with nobody joining since, whatever callbacks of earlier timers are still on
\* their way to the registry lock (destroy's generation check, registry.go:133).
ImplementsPromise == Promise!Spec

-----------------------------------------------------------------------------
(* Liveness *)

\* Once every connection is gone the registry drains to empty.
DrainsAfterLastDisconnect ==
  (\A p \in Peers : ~live[p]) ~> (\A k \in Keys : rooms[k] = NoRoom)
=============================================================================
