-------------------------- MODULE RoomRegistryProofs --------------------------
(***************************************************************************)
(* Proofs about RoomRegistry for every number of sessions, rooms, names    *)
(* and limits.                                                             *)
(*                                                                         *)
(* None of the safety properties is inductive: that a room with members is *)
(* not destroyed rests on the fact that a timer exists only for an empty   *)
(* room, which rests on where every session stands between its critical    *)
(* sections, and so on.  Inv is the conjunction that is inductive.         *)
(***************************************************************************)
EXTENDS RoomRegistry, FiniteSetTheorems, TLAPS

\* The directory and the rooms' own fields agree.
DirectoryInv ==
  /\ \A k \in Keys : rooms[k] # NoRoom =>
        /\ key[rooms[k]] = k
        /\ ~destroyed[rooms[k]]
  /\ \A r \in Rooms : key[r] # NoKey /\ ~destroyed[r] => rooms[key[r]] = r
  /\ \A r \in Rooms : peers[r] # {} \/ timer[r] # 0 => key[r] # NoKey /\ ~destroyed[r]
  /\ \A r \in Rooms : destroyed[r] => key[r] # NoKey

\* Where each session stands determines which room it is a member of.
SessionInv ==
  /\ \A p \in Peers :
        /\ pc[p] # "idle" => key[at[p]] # NoKey
        /\ pc[p] \in {"arm", "check", "add", "set", "sched"} => curRoom[p] = NoRoom
        /\ pc[p] \in {"clear", "clearLast"} => curRoom[p] = at[p]
  /\ \A p \in Peers, r \in Rooms :
        p \in peers[r] <=> \/ pc[p] = "idle" /\ curRoom[p] = r
                           \/ pc[p] = "set" /\ at[p] = r

\* Timers and callbacks carry generations the room has reached.
TimerInv ==
  /\ \A r \in Rooms : timer[r] # 0 =>
        /\ peers[r] = {}
        /\ timer[r] = gen[r]
        /\ <<r, timer[r]>> \in armed \cup calls
  /\ \A c \in armed : timer[c[1]] = c[2] /\ c[2] # 0 /\ c \notin calls
  /\ \A c \in calls : c[2] <= gen[c[1]] /\ c[2] # 0 /\ key[c[1]] # NoKey

Inv == TypeOK /\ DirectoryInv /\ SessionInv /\ TimerInv

-----------------------------------------------------------------------------
(* The inductive invariant *)

\* The empty registry and idle sessions satisfy the invariant.
LEMMA InitInv == Init => Inv
  <1> SUFFICES ASSUME Init PROVE Inv
    OBVIOUS
  <1> USE ConstantsAssumption DEF Init
  <1>1. TypeOK
    BY DEF TypeOK, PCs
  <1>2. DirectoryInv
    BY DEF DirectoryInv
  <1>3. SessionInv
    BY DEF SessionInv
  <1>4. TimerInv
    BY DEF TimerInv
  <1> QED
    BY <1>1, <1>2, <1>3, <1>4 DEF Inv

\* Create publishes a fresh room under a free key (registry.go:71-99).
LEMMA CreateInv ==
  ASSUME Inv, NEW p \in Peers, NEW s \in Spellings, NEW r \in Rooms, Create(p, s, r)
  PROVE  Inv'
  <1> USE ConstantsAssumption DEF Inv, Create, GoTo, Reads
  <1>1. TypeOK'
    BY DEF TypeOK, PCs
  <1>2. DirectoryInv'
    BY DEF TypeOK, DirectoryInv
  <1>3. SessionInv'
    BY DEF TypeOK, PCs, DirectoryInv, SessionInv
  <1>4. TimerInv'
    BY DEF TypeOK, DirectoryInv, TimerInv
  <1> QED
    BY <1>1, <1>2, <1>3, <1>4

\* The idle timer of a new room takes the next generation (room.go:301-303).
LEMMA ArmIdleTimerInv ==
  ASSUME Inv, NEW p \in Peers, ArmIdleTimer(p)
  PROVE  Inv'
  <1> USE ConstantsAssumption DEF Inv, ArmIdleTimer, ScheduleDestroyIfEmpty, MayArm, GoTo
  <1>1. TypeOK'
    BY DEF TypeOK, PCs
  <1>2. DirectoryInv'
    BY DEF TypeOK, DirectoryInv, SessionInv
  <1>3. SessionInv'
    BY DEF TypeOK, PCs, DirectoryInv, SessionInv
  <1>4. TimerInv'
    BY DEF TypeOK, DirectoryInv, TimerInv
  <1> QED
    BY <1>1, <1>2, <1>3, <1>4

\* Add makes a member of a live room and retires its timer (room.go:142-147).
LEMMA AddInv ==
  ASSUME Inv, NEW p \in Peers, Add(p)
  PROVE  Inv'
  <1> USE ConstantsAssumption DEF Inv, Add, Expired, CancelTimer, GoTo
  <1>1. TypeOK'
    BY DEF TypeOK, PCs
  <1>2. DirectoryInv'
    BY DEF TypeOK, DirectoryInv, SessionInv
  <1>3. SessionInv'
    BY DEF TypeOK, PCs, DirectoryInv, SessionInv
  <1>4. TimerInv'
    BY DEF TypeOK, DirectoryInv, TimerInv
  <1> QED
    BY <1>1, <1>2, <1>3, <1>4

\* Remove takes a member away; its session still has the pointer to clear
\* (room.go:171-180).
LEMMA RemoveInv ==
  ASSUME Inv, NEW p \in Peers, Reads(p) /\ curRoom[p] # NoRoom /\ Remove(p) /\ live' \in [Peers -> BOOLEAN]
  PROVE  Inv'
  <1> USE ConstantsAssumption DEF Inv, Remove, AfterRemove, Reads, Return, GoTo, roomVars
  <1>1. TypeOK'
    BY DEF TypeOK, PCs
  <1>2. DirectoryInv'
    BY DEF TypeOK, DirectoryInv
  <1>3. SessionInv'
    BY DEF TypeOK, PCs, DirectoryInv, SessionInv
  <1>4. TimerInv'
    BY DEF TypeOK, DirectoryInv, TimerInv
  <1> QED
    BY <1>1, <1>2, <1>3, <1>4

\* setRoom(nil) after Remove (room.go:182).
LEMMA ClearRoomInv ==
  ASSUME Inv, NEW p \in Peers, ClearRoom(p)
  PROVE  Inv'
  <1> USE ConstantsAssumption DEF Inv, ClearRoom, Return, GoTo, roomVars
  <1>1. TypeOK'
    BY DEF TypeOK, PCs
  <1>2. DirectoryInv'
    BY DEF TypeOK, DirectoryInv
  <1>3. SessionInv'
    BY DEF TypeOK, PCs, DirectoryInv, SessionInv
  <1>4. TimerInv'
    BY DEF TypeOK, DirectoryInv, TimerInv
  <1> QED
    BY <1>1, <1>2, <1>3, <1>4

\* Only the callback of the current timer unpublishes the room (registry.go:122-146).
LEMMA DestroyInv ==
  ASSUME Inv, NEW c \in calls, Destroy(c)
  PROVE  Inv'
  <1> USE ConstantsAssumption DEF Inv, Destroy, Unpublish, MayDestroy, sessionVars
  <1>0. c[1] \in Rooms /\ c[2] \in Nat /\ key[c[1]] \in Keys
    BY DEF TypeOK, TimerInv
  <1>1. TypeOK'
    BY <1>0 DEF TypeOK, PCs
  <1>2. DirectoryInv'
    BY <1>0 DEF TypeOK, DirectoryInv
  <1>3. SessionInv'
    BY <1>0 DEF TypeOK, PCs, DirectoryInv, SessionInv
  <1>4. TimerInv'
    BY <1>0 DEF TypeOK, DirectoryInv, TimerInv
  <1> QED
    BY <1>1, <1>2, <1>3, <1>4

\* Find hands a session a room that may be gone by the time it is used
\* (registry.go:111-115).
LEMMA FindRoomInv ==
  ASSUME Inv, NEW p \in Peers, NEW s \in Spellings, FindRoom(p, s)
  PROVE  Inv'
  <1> USE ConstantsAssumption DEF Inv, FindRoom, Reads, GoTo, roomVars
  <1>1. TypeOK'
    BY DEF TypeOK, PCs
  <1>2. DirectoryInv'
    BY DEF TypeOK, DirectoryInv, SessionInv
  <1>3. SessionInv'
    BY DEF TypeOK, PCs, DirectoryInv, SessionInv
  <1>4. TimerInv'
    BY DEF TypeOK, DirectoryInv, TimerInv
  <1> QED
    BY <1>1, <1>2, <1>3, <1>4

\* The password comparison moves the session only (dispatch.go:509-519).
LEMMA CheckPasswordInv ==
  ASSUME Inv, NEW p \in Peers, PasswordAccepted(p) \/ PasswordRefused(p)
  PROVE  Inv'
  <1> USE ConstantsAssumption DEF Inv, PasswordAccepted, PasswordRefused, Return, GoTo, roomVars
  <1>1. TypeOK'
    BY DEF TypeOK, PCs
  <1>2. DirectoryInv'
    BY DEF TypeOK, DirectoryInv, SessionInv
  <1>3. SessionInv'
    BY DEF TypeOK, PCs, DirectoryInv, SessionInv
  <1>4. TimerInv'
    BY DEF TypeOK, DirectoryInv, TimerInv
  <1> QED
    BY <1>1, <1>2, <1>3, <1>4

\* A refused Add returns to the read loop (room.go:122-141).
LEMMA AddRefusedInv ==
  ASSUME Inv, NEW p \in Peers, AddExpired(p) \/ AddFull(p)
  PROVE  Inv'
  <1> USE ConstantsAssumption DEF Inv, AddExpired, AddFull, Return, GoTo, roomVars
  <1>1. TypeOK'
    BY DEF TypeOK, PCs
  <1>2. DirectoryInv'
    BY DEF TypeOK, DirectoryInv, SessionInv
  <1>3. SessionInv'
    BY DEF TypeOK, PCs, DirectoryInv, SessionInv
  <1>4. TimerInv'
    BY DEF TypeOK, DirectoryInv, TimerInv
  <1> QED
    BY <1>1, <1>2, <1>3, <1>4

\* The pointer catches up with the membership Add has made (room.go:166).
LEMMA SetRoomInv ==
  ASSUME Inv, NEW p \in Peers, SetRoom(p)
  PROVE  Inv'
  <1> USE ConstantsAssumption DEF Inv, SetRoom, Return, GoTo, roomVars
  <1>1. TypeOK'
    BY DEF TypeOK, PCs
  <1>2. DirectoryInv'
    BY DEF TypeOK, DirectoryInv, SessionInv
  <1>3. SessionInv'
    BY DEF TypeOK, PCs, DirectoryInv, SessionInv
  <1>4. TimerInv'
    BY DEF TypeOK, DirectoryInv, TimerInv
  <1> QED
    BY <1>1, <1>2, <1>3, <1>4

\* scheduleEmptyDestroy after the last member has left (room.go:184-210).
LEMMA ArmEmptyTimerInv ==
  ASSUME Inv, NEW p \in Peers, ArmEmptyTimer(p)
  PROVE  Inv'
  <1> USE ConstantsAssumption DEF Inv, ArmEmptyTimer, ScheduleDestroyIfEmpty, MayArm, Return, GoTo
  <1>1. TypeOK'
    BY DEF TypeOK, PCs
  <1>2. DirectoryInv'
    BY DEF TypeOK, DirectoryInv, SessionInv
  <1>3. SessionInv'
    BY DEF TypeOK, PCs, DirectoryInv, SessionInv
  <1>4. TimerInv'
    BY DEF TypeOK, DirectoryInv, TimerInv
  <1> QED
    BY <1>1, <1>2, <1>3, <1>4

\* A timer that fires becomes a callback with the same generation (room.go:206).
LEMMA TimerFiresInv ==
  ASSUME Inv, NEW c \in armed, TimerFires(c)
  PROVE  Inv'
  <1> USE ConstantsAssumption DEF Inv, TimerFires, sessionVars
  <1>0. c[1] \in Rooms /\ c[2] \in Nat
    BY DEF TypeOK
  <1>1. TypeOK'
    BY <1>0 DEF TypeOK, PCs
  <1>2. DirectoryInv'
    BY <1>0 DEF TypeOK, DirectoryInv, SessionInv
  <1>3. SessionInv'
    BY <1>0 DEF TypeOK, PCs, DirectoryInv, SessionInv
  <1>4. TimerInv'
    BY <1>0 DEF TypeOK, DirectoryInv, TimerInv
  <1> QED
    BY <1>1, <1>2, <1>3, <1>4

\* A stale callback changes nothing but itself (registry.go:133-137).
LEMMA DestroyStaleInv ==
  ASSUME Inv, NEW c \in calls, DestroyStale(c)
  PROVE  Inv'
  <1> USE ConstantsAssumption DEF Inv, DestroyStale, MayDestroy, roomVars, sessionVars
  <1>0. c[1] \in Rooms /\ c[2] \in Nat
    BY DEF TypeOK
  <1>1. TypeOK'
    BY <1>0 DEF TypeOK, PCs
  <1>2. DirectoryInv'
    BY <1>0 DEF TypeOK, DirectoryInv, SessionInv
  <1>3. SessionInv'
    BY <1>0 DEF TypeOK, PCs, DirectoryInv, SessionInv
  <1>4. TimerInv'
    BY <1>0 DEF TypeOK, DirectoryInv, TimerInv
  <1> QED
    BY <1>1, <1>2, <1>3, <1>4

\* Remove is called by a leave and by a lost connection.
LEMMA LeaveInv ==
  ASSUME Inv, NEW p \in Peers, Leave(p) \/ Disconnect(p)
  PROVE  Inv'
  <1> USE DEF Leave, Disconnect
  <1>1. live' \in [Peers -> BOOLEAN]
    BY DEF Inv, TypeOK
  <1>2. CASE curRoom[p] # NoRoom
    BY <1>1, <1>2, RemoveInv
  <1>3. CASE curRoom[p] = NoRoom
    BY <1>1, <1>3 DEF Inv, TypeOK, PCs, DirectoryInv, SessionInv, TimerInv, roomVars
  <1> QED
    BY <1>2, <1>3

\* The invariant does not depend on what the actions leave alone.
LEMMA StutterInv ==
  ASSUME Inv, UNCHANGED vars
  PROVE  Inv'
  BY DEF Inv, TypeOK, DirectoryInv, SessionInv, TimerInv, vars

\* Inv holds in every reachable state: what all the theorems below rest on.
THEOREM InductiveInvariant == Spec => []Inv
  <1>1. Init => Inv
    BY InitInv
  <1>2. Inv /\ [Next]_vars => Inv'
    <2> SUFFICES ASSUME Inv, [Next]_vars PROVE Inv'
      OBVIOUS
    <2>1. ASSUME NEW p \in Peers, Continue(p) PROVE Inv'
      BY <2>1, ArmIdleTimerInv, CheckPasswordInv, AddInv, AddRefusedInv, SetRoomInv,
         ClearRoomInv, ArmEmptyTimerInv DEF Continue
    <2>2. ASSUME NEW p \in Peers, Request(p) PROVE Inv'
      BY <2>2, CreateInv, FindRoomInv, LeaveInv DEF Request
    <2>3. ASSUME NEW c \in armed \cup calls, TimerStep(c) PROVE Inv'
      <3>1. CASE TimerFires(c)
        BY <3>1, TimerFiresInv DEF TimerFires
      <3>2. CASE Destroy(c)
        BY <3>2, DestroyInv DEF Destroy
      <3>3. CASE DestroyStale(c)
        BY <3>3, DestroyStaleInv DEF DestroyStale
      <3> QED
        BY <2>3, <3>1, <3>2, <3>3 DEF TimerStep
    <2>4. CASE UNCHANGED vars
      BY <2>4, StutterInv
    <2> QED
      BY <2>1, <2>2, <2>3, <2>4 DEF Next
  <1> QED
    BY <1>1, <1>2, PTL DEF Spec

-----------------------------------------------------------------------------
(* What it says of the rooms *)

\* Every variable keeps its type, and a session inside a handler holds a room.
THEOREM TypeCorrect == Spec => []TypeOK
  <1>1. Inv => TypeOK
    BY DEF Inv
  <1> QED
    BY <1>1, InductiveInvariant, PTL

\* No peer joins, or stays in, a room that destroy has unpublished: the comment
\* on Registry.destroy (registry.go:117-121).
THEOREM NoPeerIsOrphaned == Spec => []NoOrphanedMember
  <1>1. Inv => NoOrphanedMember
    BY DEF Inv, DirectoryInv, NoOrphanedMember, Published
  <1> QED
    BY <1>1, InductiveInvariant, PTL

\* A name resolves to its room from Create to destroy (registry.go:97, 141).
THEOREM LiveRoomsAreFound == Spec => []NameFindsLiveRoom
  <1>1. Inv => NameFindsLiveRoom
    BY ConstantsAssumption DEF Inv, DirectoryInv, TypeOK, NameFindsLiveRoom, Published
  <1> QED
    BY <1>1, InductiveInvariant, PTL

\* The destroy timer of a room is unique, current and set for an empty room only
\* (scheduleDestroyIfEmpty, room.go:195-210; Add, room.go:143-147).
THEOREM TimerIsIdentified == Spec => []OneIdentifiedTimer
  <1>1. Inv => OneIdentifiedTimer
    BY DEF Inv, TimerInv, OneIdentifiedTimer
  <1> QED
    BY <1>1, InductiveInvariant, PTL

\* A peer is in one room at most, the one its own pointer names (room.go:142-182).
THEOREM PointerMatchesMembership == Spec => []MembershipAgrees
  <1>1. Inv => MembershipAgrees
    BY DEF Inv, SessionInv, MembershipAgrees
  <1> QED
    BY <1>1, InductiveInvariant, PTL

-----------------------------------------------------------------------------
(* No empty room is leaked *)

\* A step by session p on room r0 (or by a timer callback on it) cannot strand
\* another room: the sessions that will schedule that one have not moved.
LEMMA OtherRoomKeepsScheduler ==
  ASSUME EmptyRoomWillExpire,
         NEW r \in Rooms,
         Published(r), peers[r] = {}, timer[r] = 0,
         \A q \in Peers : WillSchedule(q, r) => WillSchedule(q, r)'
  PROVE  \E q \in Peers : WillSchedule(q, r)'
  BY DEF EmptyRoomWillExpire

\* No step of a session strands an empty room.
LEMMA SessionStepKeepsScheduler ==
  ASSUME Inv, EmptyRoomWillExpire, NEW p \in Peers, Continue(p) \/ Request(p)
  PROVE  EmptyRoomWillExpire'
  <1> SUFFICES ASSUME NEW r \in Rooms, Published(r)', peers'[r] = {}, timer'[r] = 0
               PROVE  \E q \in Peers : WillSchedule(q, r)'
    BY DEF EmptyRoomWillExpire
  <1> USE ConstantsAssumption DEF Inv, TypeOK, WillSchedule, Published, GoTo, Return, roomVars, Reads
  <1>1. ASSUME NEW s \in Spellings, NEW n \in Rooms, Create(p, s, n)
        PROVE  \E q \in Peers : WillSchedule(q, r)'
    <2>1. CASE r = n
      BY <1>1, <2>1 DEF Create
    <2>2. CASE r # n
      BY <1>1, <2>2, OtherRoomKeepsScheduler DEF Create, DirectoryInv
    <2> QED
      BY <2>1, <2>2
  <1>2. CASE ArmIdleTimer(p) \/ ArmEmptyTimer(p)
    <2>1. Published(r) /\ peers[r] = {} /\ ~destroyed[r] /\ ScheduleDestroyIfEmpty(at[p])
      BY <1>2 DEF ArmIdleTimer, ArmEmptyTimer, DirectoryInv
    <2>2. at[p] # r /\ timer[r] = 0
      BY <1>2, <2>1 DEF ScheduleDestroyIfEmpty, MayArm
    <2>3. PICK q \in Peers : WillSchedule(q, r)
      BY <2>1, <2>2 DEF EmptyRoomWillExpire
    <2>4. WillSchedule(q, r)'
      BY <1>2, <2>2, <2>3 DEF ArmIdleTimer, ArmEmptyTimer
    <2> QED
      BY <2>4
  <1>3. CASE Add(p)
    <2>1. at[p] # r
      BY <1>3 DEF Add
    <2>2. peers[r] = {} /\ timer[r] = 0
      BY <1>3, <2>1 DEF Add, CancelTimer
    <2>3. PICK q \in Peers : WillSchedule(q, r)
      BY <1>3, <2>2 DEF EmptyRoomWillExpire, Add
    <2>4. WillSchedule(q, r)'
      BY <1>3, <2>1, <2>3 DEF Add
    <2> QED
      BY <2>4
  <1>4. CASE ClearRoom(p)
    <2>1. peers[r] = {} /\ timer[r] = 0
      BY <1>4 DEF ClearRoom
    <2>2. PICK q \in Peers : WillSchedule(q, r)
      BY <1>4, <2>1 DEF EmptyRoomWillExpire, ClearRoom
    <2>3. WillSchedule(q, r)'
      BY <1>4, <2>2 DEF ClearRoom
    <2> QED
      BY <2>3
  <1>5. CASE Leave(p) \/ Disconnect(p)
    <2>1. CASE curRoom[p] = r
      <3>1. p \in peers[r]
        BY <1>5, <2>1 DEF Leave, Disconnect, SessionInv
      <3>2. peers[r] = {p}
        BY <1>5, <2>1, <3>1 DEF Leave, Disconnect, Remove
      <3> QED
        BY <1>5, <2>1, <3>1, <3>2 DEF Leave, Disconnect, Remove, AfterRemove
    <2>2. CASE curRoom[p] # r
      BY <1>5, <2>2, OtherRoomKeepsScheduler DEF Leave, Disconnect, Remove, AfterRemove
    <2> QED
      BY <2>1, <2>2
  <1>6. ASSUME NEW s \in Spellings, FindRoom(p, s)
        PROVE  \E q \in Peers : WillSchedule(q, r)'
    BY <1>6, OtherRoomKeepsScheduler DEF FindRoom
  <1>7. CASE PasswordAccepted(p) \/ PasswordRefused(p) \/ AddExpired(p) \/ AddFull(p)
             \/ SetRoom(p)
    BY <1>7, OtherRoomKeepsScheduler
       DEF PasswordAccepted, PasswordRefused, AddExpired, AddFull, SetRoom
  <1> QED
    BY <1>1, <1>2, <1>3, <1>4, <1>5, <1>6, <1>7 DEF Continue, Request

\* No timer strands an empty room: destroy removes the room it was set for.
LEMMA TimerStepKeepsScheduler ==
  ASSUME Inv, EmptyRoomWillExpire, NEW c \in armed \cup calls, TimerStep(c)
  PROVE  EmptyRoomWillExpire'
  <1> SUFFICES ASSUME NEW r \in Rooms, Published(r)', peers'[r] = {}, timer'[r] = 0
               PROVE  \E q \in Peers : WillSchedule(q, r)'
    BY DEF EmptyRoomWillExpire
  <1> USE ConstantsAssumption DEF Inv, TypeOK, WillSchedule, Published, roomVars, sessionVars
  <1>1. CASE TimerFires(c) \/ DestroyStale(c)
    BY <1>1, OtherRoomKeepsScheduler DEF TimerFires, DestroyStale
  <1>2. CASE Destroy(c)
    <2>1. c[1] \in Rooms /\ key[c[1]] \in Keys
      BY <1>2 DEF Destroy, TimerInv
    <2>2. r # c[1]
      BY <1>2, <2>1 DEF Destroy, Unpublish
    <2> QED
      BY <1>2, <2>1, <2>2, OtherRoomKeepsScheduler DEF Destroy, Unpublish
  <1> QED
    BY <1>1, <1>2 DEF TimerStep

\* Whatever joins, leaves and stale timers interleave, an empty published room
\* has a timer or a session about to arm one (room.go:179-210).
THEOREM NoRoomIsLeaked == Spec => []EmptyRoomWillExpire
  <1>1. Init => EmptyRoomWillExpire
    BY DEF Init, EmptyRoomWillExpire, Published
  <1>2. Inv /\ EmptyRoomWillExpire /\ [Next]_vars => EmptyRoomWillExpire'
    <2>1. Inv /\ EmptyRoomWillExpire /\ Next => EmptyRoomWillExpire'
      BY SessionStepKeepsScheduler, TimerStepKeepsScheduler DEF Next
    <2>2. EmptyRoomWillExpire /\ UNCHANGED vars => EmptyRoomWillExpire'
      BY DEF EmptyRoomWillExpire, WillSchedule, Published, vars
    <2> QED
      BY <2>1, <2>2
  <1> QED
    BY <1>1, <1>2, InductiveInvariant, PTL DEF Spec

-----------------------------------------------------------------------------
(* The limits hold *)

\* The count is taken and raised in one critical section (registry.go:78-97).
LEMMA CreateWithinLimits ==
  ASSUME Inv, WithinLimits, NEW p \in Peers, NEW s \in Spellings, NEW r \in Rooms,
         Create(p, s, r)
  PROVE  WithinLimits'
  <1> USE ConstantsAssumption
  <1>1. IsFiniteSet(PublishedKeys)
    BY FS_Subset DEF PublishedKeys
  <1>2. PublishedKeys' = PublishedKeys \cup {Lower[s]} /\ Lower[s] \notin PublishedKeys
    BY DEF Create, Inv, TypeOK, PublishedKeys
  <1>3. Cardinality(PublishedKeys') = Cardinality(PublishedKeys) + 1
    BY <1>1, <1>2, FS_AddElement
  <1>4. Cardinality(PublishedKeys') <= MaxRooms
    BY <1>1, <1>3, FS_CardinalityType DEF Create, ServerFull
  <1> QED
    BY <1>4 DEF WithinLimits, Create

\* The member count is read and raised in one critical section (room.go:135-142).
LEMMA AddWithinLimits ==
  ASSUME Inv, WithinLimits, NEW p \in Peers, Add(p)
  PROVE  WithinLimits'
  <1> USE ConstantsAssumption DEF Inv, TypeOK
  <1>1. at[p] \in Rooms /\ PublishedKeys' = PublishedKeys
    BY DEF Add, PublishedKeys
  <1>2. ASSUME NEW r \in Rooms PROVE Cardinality(peers'[r]) <= MaxPeers
    <2>1. CASE r = at[p]
      <3>1. IsFiniteSet(peers[r]) /\ Cardinality(peers[r]) \in Nat
        BY FS_Subset, FS_CardinalityType
      <3>2. peers'[r] = peers[r] \cup {p}
        BY <1>1, <2>1 DEF Add
      <3>3. Cardinality(peers'[r]) \in {Cardinality(peers[r]), Cardinality(peers[r]) + 1}
        BY <3>1, <3>2, FS_AddElement, Zenon
      <3>4. Cardinality(peers[r]) < MaxPeers
        BY <2>1, <3>1 DEF Add, Full
      <3>5. Cardinality(peers'[r]) \in Nat
        BY <3>1, <3>2, FS_AddElement, FS_CardinalityType
      <3> QED
        BY <3>1, <3>3, <3>4, <3>5
    <2>2. CASE r # at[p]
      BY <1>1, <2>2 DEF Add, WithinLimits
    <2> QED
      BY <2>1, <2>2
  <1> QED
    BY <1>1, <1>2 DEF WithinLimits

\* Steps that publish nothing and add no member keep the limits.
LEMMA ShrinkWithinLimits ==
  ASSUME Inv, WithinLimits,
         PublishedKeys' \subseteq PublishedKeys,
         \A r \in Rooms : peers'[r] \subseteq peers[r]
  PROVE  WithinLimits'
  <1> USE ConstantsAssumption DEF Inv, TypeOK
  <1>1. IsFiniteSet(PublishedKeys) /\ Cardinality(PublishedKeys) \in Nat
    BY FS_Subset, FS_CardinalityType DEF PublishedKeys
  <1>2. Cardinality(PublishedKeys') <= Cardinality(PublishedKeys)
        /\ Cardinality(PublishedKeys') \in Nat
    BY <1>1, FS_Subset, FS_CardinalityType
  <1>3. ASSUME NEW r \in Rooms PROVE Cardinality(peers'[r]) <= MaxPeers
    <2>1. IsFiniteSet(peers[r]) /\ Cardinality(peers[r]) \in Nat
      BY FS_Subset, FS_CardinalityType
    <2>2. Cardinality(peers'[r]) <= Cardinality(peers[r])
          /\ Cardinality(peers'[r]) \in Nat
      BY <2>1, FS_Subset, FS_CardinalityType
    <2> QED
      BY <2>1, <2>2 DEF WithinLimits
  <1> QED
    BY <1>1, <1>2, <1>3 DEF WithinLimits

\* MaxRooms and MaxPeers are never exceeded (registry.go:78, room.go:135).
THEOREM LimitsHold == Spec => []WithinLimits
  <1>1. Init => WithinLimits
    <2> SUFFICES ASSUME Init PROVE WithinLimits
      OBVIOUS
    <2>1. PublishedKeys = {} /\ \A r \in Rooms : peers[r] = {}
      BY DEF Init, PublishedKeys
    <2> QED
      BY <2>1, FS_EmptySet, ConstantsAssumption DEF WithinLimits
  <1>2. Inv /\ WithinLimits /\ [Next]_vars => WithinLimits'
    <2> SUFFICES ASSUME Inv, WithinLimits, [Next]_vars PROVE WithinLimits'
      OBVIOUS
    <2> USE ConstantsAssumption DEF Inv, TypeOK, roomVars, sessionVars
    <2>1. ASSUME NEW p \in Peers, Continue(p) PROVE WithinLimits'
      <3>1. CASE Add(p)
        BY <3>1, AddWithinLimits
      <3>2. CASE ~Add(p)
        <4>1. PublishedKeys' = PublishedKeys /\ peers' = peers
          BY <2>1, <3>2 DEF Continue, ArmIdleTimer, PasswordAccepted, PasswordRefused,
             AddExpired, AddFull, SetRoom, ClearRoom, ArmEmptyTimer, PublishedKeys
        <4> QED
          BY <4>1, ShrinkWithinLimits
      <3> QED
        BY <3>1, <3>2
    <2>2. ASSUME NEW p \in Peers, Leave(p) \/ Disconnect(p) PROVE WithinLimits'
      <3>1. PublishedKeys' = PublishedKeys
        BY <2>2 DEF Leave, Disconnect, Remove, PublishedKeys
      <3>2. \A r \in Rooms : peers'[r] \subseteq peers[r]
        BY <2>2 DEF Leave, Disconnect, Remove
      <3> QED
        BY <3>1, <3>2, ShrinkWithinLimits
    <2>3. ASSUME NEW p \in Peers, NEW s \in Spellings, FindRoom(p, s) PROVE WithinLimits'
      <3>1. PublishedKeys' = PublishedKeys /\ peers' = peers
        BY <2>3 DEF FindRoom, PublishedKeys
      <3> QED
        BY <3>1, ShrinkWithinLimits
    <2>4. ASSUME NEW c \in armed \cup calls, TimerStep(c) PROVE WithinLimits'
      <3>1. PublishedKeys' \subseteq PublishedKeys
        <4>1. \A k \in Keys : rooms'[k] # NoRoom => rooms[k] # NoRoom
          BY <2>4 DEF TimerStep, TimerFires, Destroy, Unpublish, DestroyStale
        <4> QED
          BY <4>1 DEF PublishedKeys
      <3>2. peers' = peers
        BY <2>4 DEF TimerStep, TimerFires, Destroy, Unpublish, DestroyStale
      <3> QED
        BY <3>1, <3>2, ShrinkWithinLimits
    <2>5. CASE UNCHANGED vars
      <3>1. PublishedKeys' = PublishedKeys /\ peers' = peers
        BY <2>5 DEF vars, PublishedKeys
      <3> QED
        BY <3>1, ShrinkWithinLimits
    <2> QED
      BY <2>1, <2>2, <2>3, <2>4, <2>5, CreateWithinLimits DEF Next, Request
  <1> QED
    BY <1>1, <1>2, InductiveInvariant, PTL DEF Spec

-----------------------------------------------------------------------------
(* The registry implements AbstractRooms *)

\* AbstractRooms counts as RoomRegistry does.
LEMMA SameCardinality == \A S : Promise!Cardinality(S) = Cardinality(S)
  BY Zenon DEF Promise!Cardinality, Cardinality

\* Create is the opening of a room.
LEMMA CreateOpens ==
  ASSUME Inv, NEW p \in Peers, NEW s \in Spellings, NEW r \in Rooms, Create(p, s, r)
  PROVE  Promise!Open(Lower[s], r)
  <1> USE ConstantsAssumption DEF Inv, TypeOK, Create
  <1>1. lifeBar[r] = "unborn" /\ ~destroyed[r]
    BY DEF lifeBar, DirectoryInv
  <1>2. lifeBar' = [lifeBar EXCEPT ![r] = "open"]
    BY <1>1 DEF lifeBar
  <1>3. countdownBar' = countdownBar
    BY DEF countdownBar
  <1>4. Cardinality(PublishedKeys) \in Nat
    BY FS_Subset, FS_CardinalityType DEF PublishedKeys
  <1>5. Cardinality({n \in Keys : rooms[n] # NoRoom}) < MaxRooms
    BY <1>4 DEF ServerFull, PublishedKeys
  <1> QED
    BY <1>1, <1>2, <1>3, <1>5, SameCardinality DEF Promise!Open

\* A timer that is armed starts the countdown; a recheck that fails is a stutter.
LEMMA ArmStartsCountdown ==
  ASSUME Inv, NEW p \in Peers, ArmIdleTimer(p) \/ ArmEmptyTimer(p)
  PROVE  [Promise!StartCountdown(at[p])]_(Promise!avars)
  <1> DEFINE r == at[p]
  <1> USE ConstantsAssumption DEF Inv, TypeOK
  <1>1. /\ r \in Rooms /\ key[r] # NoKey
        /\ ScheduleDestroyIfEmpty(r)
        /\ UNCHANGED <<rooms, key, peers, destroyed, calls>>
    BY DEF ArmIdleTimer, ArmEmptyTimer, SessionInv
  <1>2. lifeBar' = lifeBar
    BY <1>1 DEF lifeBar
  <1>3. CASE MayArm(r)
    <2>1. lifeBar[r] = "open" /\ countdownBar[r] = "off"
      BY <1>1, <1>3 DEF lifeBar, countdownBar, MayArm
    <2>2. \A q \in Rooms \ {r} :
             <<q, timer[q]>> \in armed' <=> <<q, timer[q]>> \in armed
      BY <1>1, <1>3 DEF ScheduleDestroyIfEmpty
    <2>3. timer'[r] # 0 /\ <<r, timer'[r]>> \in armed'
      BY <1>1, <1>3 DEF ScheduleDestroyIfEmpty
    <2>4. countdownBar' = [countdownBar EXCEPT ![r] = "running"]
      BY <1>1, <1>3, <2>2, <2>3 DEF countdownBar, ScheduleDestroyIfEmpty
    <2> QED
      BY <1>1, <1>2, <1>3, <2>1, <2>4 DEF MayArm, Promise!StartCountdown
  <1>4. CASE ~MayArm(r)
    <2>1. countdownBar' = countdownBar
      BY <1>1, <1>4 DEF countdownBar, ScheduleDestroyIfEmpty
    <2> QED
      BY <1>1, <1>2, <2>1 DEF Promise!avars
  <1> QED
    BY <1>3, <1>4

\* Add is the joining of a room, and calls its countdown off.
LEMMA AddJoins ==
  ASSUME Inv, NEW p \in Peers, Add(p)
  PROVE  Promise!Join(p, at[p])
  <1> DEFINE r == at[p]
  <1> USE ConstantsAssumption DEF Inv, TypeOK
  <1>1. r \in Rooms /\ key[r] # NoKey /\ ~destroyed[r]
    BY DEF Add, Expired, SessionInv
  <1>2. lifeBar[r] = "open" /\ lifeBar' = lifeBar
    BY <1>1 DEF lifeBar, Add
  <1>3. \A q \in Rooms : p \notin peers[q]
    BY DEF Add, SessionInv
  <1>4. IsFiniteSet(peers[r]) /\ Cardinality(peers[r]) \in Nat
    BY <1>1, FS_Subset, FS_CardinalityType
  <1>5. Cardinality(peers[r]) < MaxPeers
    BY <1>4 DEF Add, Full
  <1>6. countdownBar' = [countdownBar EXCEPT ![r] = "off"]
    BY <1>1 DEF countdownBar, Add, CancelTimer
  <1> QED
    BY <1>2, <1>3, <1>5, <1>6, SameCardinality DEF Add, Promise!Join

\* Remove is the leaving of a room, by request or by disconnect.
LEMMA RemoveLeaves ==
  ASSUME Inv, NEW p \in Peers, Leave(p) \/ Disconnect(p), curRoom[p] # NoRoom
  PROVE  Promise!Leave(p, curRoom[p])
  <1> USE DEF Inv, TypeOK
  <1>1. p \in peers[curRoom[p]]
    BY DEF Leave, Disconnect, Reads, SessionInv
  <1>2. lifeBar' = lifeBar /\ countdownBar' = countdownBar
    BY DEF lifeBar, countdownBar, Leave, Disconnect, Remove
  <1> QED
    BY <1>1, <1>2 DEF Leave, Disconnect, Remove, Promise!Leave

\* The firing of a timer is the end of the countdown it belongs to.
LEMMA TimerEndsCountdown ==
  ASSUME Inv, NEW c \in armed, TimerFires(c)
  PROVE  Promise!CountdownEnds(c[1])
  <1> DEFINE r == c[1]
  <1> USE DEF Inv, TypeOK
  <1>1. r \in Rooms /\ c = <<r, timer[r]>> /\ timer[r] # 0
    BY DEF TimerInv
  <1>2. countdownBar[r] = "running"
    BY <1>1 DEF countdownBar
  <1>3. countdownBar' = [countdownBar EXCEPT ![r] = "over"]
    <2>1. \A q \in Rooms \ {r} :
             <<q, timer[q]>> \in armed' <=> <<q, timer[q]>> \in armed
      BY <1>1 DEF TimerFires
    <2>2. timer' = timer /\ <<r, timer[r]>> \notin armed'
      BY <1>1 DEF TimerFires
    <2> QED
      BY <1>1, <2>1, <2>2 DEF countdownBar
  <1>4. lifeBar' = lifeBar
    BY DEF lifeBar, TimerFires
  <1> QED
    BY <1>2, <1>3, <1>4 DEF TimerFires, Promise!CountdownEnds

\* The generation is what rules out the callback of an earlier timer: the one
\* that matches is the callback of the timer the room has now, and that timer
\* has fired.
LEMMA DestroyCloses ==
  ASSUME Inv, NEW c \in calls, Destroy(c)
  PROVE  Promise!Close(key[c[1]], c[1])
  <1> DEFINE r == c[1]
  <1> USE ConstantsAssumption DEF Inv, TypeOK
  <1>1. r \in Rooms /\ key[r] \in Keys /\ timer[r] # 0 /\ gen[r] = c[2]
    BY DEF Destroy, MayDestroy, TimerInv
  <1>2. c = <<r, timer[r]>> /\ c \notin armed
    <2>1. c = <<c[1], c[2]>>
      OBVIOUS
    <2>2. timer[r] = c[2] /\ c \notin armed
      BY <1>1 DEF TimerInv
    <2> QED
      BY <2>1, <2>2
  <1>3. countdownBar[r] = "over"
    BY <1>1, <1>2 DEF countdownBar
  <1>4. countdownBar' = [countdownBar EXCEPT ![r] = "off"]
    BY <1>1 DEF countdownBar, Destroy
  <1>5. lifeBar' = [lifeBar EXCEPT ![r] = "closed"]
    BY <1>1 DEF lifeBar, Destroy
  <1> QED
    BY <1>3, <1>4, <1>5 DEF Destroy, Unpublish, MayDestroy, Promise!Close

\* The other steps move a session or a callback and leave the directory alone.
LEMMA OtherStepsStutter ==
  ASSUME UNCHANGED roomVars
  PROVE  UNCHANGED Promise!avars
  BY DEF roomVars, lifeBar, countdownBar, Promise!avars

\* Every step of the registry is a step of AbstractRooms or leaves it as it was.
LEMMA StepKeepsPromise == Inv /\ [Next]_vars => [Promise!Next]_(Promise!avars)
  <1> SUFFICES ASSUME Inv, [Next]_vars PROVE [Promise!Next]_(Promise!avars)
    OBVIOUS
  <1>1. ASSUME NEW p \in Peers, Continue(p) PROVE [Promise!Next]_(Promise!avars)
    <2>1. at[p] \in Rooms
      BY <1>1 DEF Inv, TypeOK, Continue, ArmIdleTimer, PasswordAccepted, PasswordRefused,
         Add, AddExpired, AddFull, SetRoom, ClearRoom, ArmEmptyTimer
    <2>2. CASE ArmIdleTimer(p) \/ ArmEmptyTimer(p)
      BY <2>1, <2>2, ArmStartsCountdown DEF Promise!Next
    <2>3. CASE Add(p)
      BY <2>1, <2>3, AddJoins DEF Promise!Next
    <2>4. CASE UNCHANGED roomVars
      BY <2>4, OtherStepsStutter
    <2> QED
      BY <1>1, <2>2, <2>3, <2>4 DEF Continue, PasswordAccepted, PasswordRefused,
         AddExpired, AddFull, SetRoom, ClearRoom
  <1>2. ASSUME NEW p \in Peers, Request(p) PROVE [Promise!Next]_(Promise!avars)
    <2>1. ASSUME NEW s \in Spellings, NEW r \in Rooms, Create(p, s, r)
          PROVE  Promise!Next
      BY <2>1, CreateOpens, ConstantsAssumption DEF Promise!Next
    <2>2. CASE (Leave(p) \/ Disconnect(p)) /\ curRoom[p] # NoRoom
      <3>1. curRoom[p] \in Rooms
        BY <2>2 DEF Inv, TypeOK
      <3> QED
        BY <2>2, <3>1, RemoveLeaves DEF Promise!Next
    <2>3. CASE UNCHANGED roomVars
      BY <2>3, OtherStepsStutter
    <2> QED
      BY <1>2, <2>1, <2>2, <2>3 DEF Request, FindRoom, Leave, Disconnect
  <1>3. ASSUME NEW c \in armed \cup calls, TimerStep(c)
        PROVE  [Promise!Next]_(Promise!avars)
    <2>1. c[1] \in Rooms
      BY DEF Inv, TypeOK
    <2>2. CASE TimerFires(c)
      BY <2>1, <2>2, TimerEndsCountdown DEF TimerFires, Promise!Next
    <2>3. CASE Destroy(c)
      <3>1. key[c[1]] \in Keys
        BY <2>1, <2>3 DEF Inv, TypeOK, TimerInv, Destroy
      <3> QED
        BY <2>1, <2>3, <3>1, DestroyCloses DEF Destroy, Promise!Next
    <2>4. CASE DestroyStale(c)
      BY <2>4, OtherStepsStutter DEF DestroyStale
    <2> QED
      BY <1>3, <2>2, <2>3, <2>4 DEF TimerStep
  <1>4. CASE UNCHANGED vars
    BY <1>4, OtherStepsStutter DEF vars, roomVars
  <1> QED
    BY <1>1, <1>2, <1>3, <1>4 DEF Next

\* Every behaviour of the registry is one AbstractRooms allows: a room is closed
\* only after the countdown of its present emptiness has run out (registry.go:133).
THEOREM RegistryImplementsPromise == Spec => ImplementsPromise
  <1>1. Init => Promise!Init
    BY DEF Init, Promise!Init, lifeBar, countdownBar
  <1>2. Inv /\ [Next]_vars => [Promise!Next]_(Promise!avars)
    BY StepKeepsPromise
  <1> QED
    BY <1>1, <1>2, InductiveInvariant, PTL DEF Spec, ImplementsPromise, Promise!Spec
=============================================================================
