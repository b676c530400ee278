-------------------------------- MODULE Roster --------------------------------
(***************************************************************************)
(* What the sessions of a room tell each other (internal/ws/dispatch.go):  *)
(* the roster in room_joined, and peer_joined, peer_left and               *)
(* peer_mute_changed; and what a client that reads its frames in the order *)
(* in which they come makes of them.                                       *)
(*                                                                         *)
(* Each session handles its requests one after the other in its own        *)
(* goroutine, and a handler is several steps: a critical section of the    *)
(* room, a reply on its own connection, another critical section that      *)
(* lists the other members (ForEachPeer), and one send to each of those,   *)
(* which may wait for a slow connection.  The steps of different sessions  *)
(* interleave, so that                                                     *)
(*   - news of others may be queued for a joiner before its room_joined,   *)
(*     which holds the older snapshot, and                                 *)
(*   - one who was listed may have left, and be in another room, when its  *)
(*     turn comes.  The messages do not say which room they are about.     *)
(* A connection may also bring its frames out of order: an audio frame     *)
(* that finds the queue full puts a control frame at its head to the tail. *)
(* All three leave the client with a wrong roster.                         *)
(*                                                                         *)
(* A send is queued, or the connection it was meant for is closed (a full  *)
(* queue for the time of ConnQueue's timeout, a failed write).  A closed   *)
(* session leaves its room when its current handler is done.               *)
(*                                                                         *)
(* That rooms come and go, and refuse to be joined, is in RoomRegistry,    *)
(* and so is the moment between the insertion in Room.peers and the store  *)
(* to curRoom, which only the session itself reads on these paths.  Of the *)
(* frames in a queue only those above are modelled: requests that change   *)
(* nothing here are left out, with their answers.                          *)
(***************************************************************************)
EXTENDS Naturals, Sequences

CONSTANTS
  Peers,     \* the peers of the authenticated sessions
  Rooms,     \* rooms that exist meanwhile
  NoRoom,    \* not in a room
  Clients,   \* the peers whose clients and queues are looked at; a frame for one of
             \*   the others is read at once, and what it says is nobody's concern
  QueueDepth \* connWriteQueueDepth

ASSUME RosterAssumption ==
  /\ NoRoom \notin Rooms
  /\ Clients \subseteq Peers
  /\ QueueDepth \in Nat

VARIABLES
  room,   \* [Peers -> Rooms or NoRoom]: the room whose Room.peers has the peer
  muted,  \* [Peers -> BOOLEAN]: Peer.muted
  closed, \* [Peers -> BOOLEAN]: the peer's connection is closed
  step,   \* [Peers -> Steps]: where the session's goroutine is
  out,    \* [Peers -> Frames]: the frame it has encoded and will send next
  about,  \* [Peers -> Rooms or NoRoom]: the room the handler is about
  to,     \* [Peers -> SUBSET Peers]: the listed members it has not sent to yet
  box,    \* [Peers -> Seq(Frames)]: queued for the client, and not read by it
  view,   \* [Peers -> Rosters]: what the client has made of the frames it read
  doubt,  \* [Peers -> SUBSET Peers]: history: those of whom the client was told in
          \*   an order that need not be right since it joined, with nothing to settle it
  named   \* [Peers -> SUBSET Peers]: history: those whom frames that were queued
          \*   for the client in its room name as members, and not as gone since

handler == <<step, out, about, to>>
connection == <<closed, box, view>>
history == <<doubt, named>>
vars == <<room, muted, connection, handler, history>>

Steps == {"idle", "reply", "list", "send", "gone"}
Kinds == {"none", "room_joined", "room_left", "peer_joined", "peer_left", "peer_mute_changed"}

\* The peers a frame is about, and those of them it says are muted.
Frames == {f \in [kind : Kinds, who : SUBSET Peers, quiet : SUBSET Peers] : f.quiet \subseteq f.who}
Rosters == [who : SUBSET Peers, quiet : SUBSET Peers]

NoFrame == [kind |-> "none", who |-> {}, quiet |-> {}]
RoomLeft == [kind |-> "room_left", who |-> {}, quiet |-> {}]
Nobody == [who |-> {}, quiet |-> {}]

Init ==
  /\ room = [p \in Peers |-> NoRoom]
  /\ muted = [p \in Peers |-> FALSE]
  /\ closed = [p \in Peers |-> FALSE]
  /\ step = [p \in Peers |-> "idle"]
  /\ out = [p \in Peers |-> NoFrame]
  /\ about = [p \in Peers |-> NoRoom]
  /\ to = [p \in Peers |-> {}]
  /\ box = [p \in Peers |-> <<>>]
  /\ view = [p \in Peers |-> Nobody]
  /\ doubt = [p \in Peers |-> {}]
  /\ named = [p \in Peers |-> {}]

TypeOK ==
  /\ room \in [Peers -> Rooms \cup {NoRoom}]
  /\ muted \in [Peers -> BOOLEAN]
  /\ closed \in [Peers -> BOOLEAN]
  /\ step \in [Peers -> Steps]
  /\ out \in [Peers -> Frames]
  /\ about \in [Peers -> Rooms \cup {NoRoom}]
  /\ to \in [Peers -> SUBSET Peers]
  /\ box \in [Peers -> Seq(Frames)]
  /\ view \in [Peers -> Rosters]
  /\ doubt \in [Peers -> SUBSET Peers]
  /\ named \in [Peers -> SUBSET Peers]

-----------------------------------------------------------------------------
(* The client *)

\* Frames that bear on what a client knows of b.
Concerns(f, b) == f.kind \in {"room_joined", "room_left"} \/ b \in f.who

\* The roster r once f has been read; news of the flag of one who is not in it is
\* for nobody.
Applied(r, f) ==
  CASE f.kind \in {"room_joined", "room_left"} -> [who |-> f.who, quiet |-> f.quiet]
    [] f.kind = "peer_joined" ->
         [who |-> r.who \cup f.who, quiet |-> (r.quiet \ f.who) \cup f.quiet]
    [] f.kind = "peer_left" -> [who |-> r.who \ f.who, quiet |-> r.quiet \ f.who]
    [] OTHER -> [who |-> r.who, quiet |-> r.who \cap ((r.quiet \ f.who) \cup f.quiet)]

\* What a roster shows of b.
Shows(r, b) == IF b \notin r.who THEN "absent" ELSE IF b \in r.quiet THEN "muted" ELSE "heard"

\* writeLoop writes the oldest frame and the client reads it.
Receive(q) ==
  /\ box[q] # <<>>
  /\ box' = [box EXCEPT ![q] = Tail(@)]
  /\ view' = [view EXCEPT ![q] = Applied(@, Head(box[q]))]
  /\ UNCHANGED <<room, muted, closed, handler, history>>

-----------------------------------------------------------------------------
(* The connection *)

\* Nothing that is still queued will be written.
Close(q) ==
  /\ ~closed[q]
  /\ closed' = [closed EXCEPT ![q] = TRUE]
  /\ box' = [box EXCEPT ![q] = <<>>]
  /\ view' = [view EXCEPT ![q] = Nobody]

\* Conn.write takes the frame.
Queued(q, f) ==
  /\ ~closed[q]
  /\ IF q \in Clients
     THEN /\ Len(box[q]) < QueueDepth
          /\ box' = [box EXCEPT ![q] = Append(@, f)]
     ELSE UNCHANGED box
  /\ UNCHANGED <<closed, view>>

\* It does not: the connection is closed, or is closed for it.
Refused(q) == Close(q) \/ (closed[q] /\ UNCHANGED connection)

\* An audio frame finds the queue full and a control frame at its head, which goes
\* to the tail: past others that may be about the same peer.
Overtaken(q) ==
  {b \in Peers \ {q} : /\ Concerns(Head(box[q]), b)
                       /\ \E i \in 2..Len(box[q]) : Concerns(box[q][i], b)}

Rotate(q) ==
  /\ Len(box[q]) > 1
  /\ box' = [box EXCEPT ![q] = Append(Tail(@), Head(@))]
  /\ doubt' = IF room[q] = NoRoom \/ step[q] = "reply" THEN doubt
              ELSE [doubt EXCEPT ![q] = @ \cup Overtaken(q)]
  /\ UNCHANGED <<room, muted, closed, handler, view, named>>

\* The client disconnects, or a read or write fails.
Fail(p) ==
  /\ step[p] # "gone"
  /\ Close(p)
  /\ UNCHANGED <<room, muted, handler, history>>

-----------------------------------------------------------------------------
(* Handlers *)

\* The next message has been read.
Reads(p) == step[p] = "idle" /\ ~closed[p]

\* A handler that has encoded f and is about room r.
Begin(p, s, f, r) ==
  /\ step' = [step EXCEPT ![p] = s]
  /\ out' = [out EXCEPT ![p] = f]
  /\ about' = [about EXCEPT ![p] = r]
  /\ UNCHANGED to

Quiet(who) == {b \in who : muted[b]}

\* room_joined, with the snapshot Room.Add takes of the others under the lock it
\* inserts p under.
SnapshotOf_WithoutFlags(p, r) ==
  [kind |-> "room_joined", who |-> {b \in Peers : room[b] = r} \ {p}, quiet |-> {}]
SnapshotOf(p, r) ==
  LET others == {b \in Peers : room[b] = r} \ {p} IN
  [kind |-> "room_joined", who |-> others, quiet |-> Quiet(others)]

\* room_join, or room_create once the room exists; refused with "leave first" by
\* one who is in a room.
Join(p, r) ==
  /\ Reads(p)
  /\ room[p] = NoRoom
  /\ room' = [room EXCEPT ![p] = r]
  /\ Begin(p, "reply", SnapshotOf(p, r), r)
  /\ UNCHANGED <<muted, connection, history>>

\* cleanupPeer: out of the room first, then the news.
Withdraw(p) ==
  /\ room[p] # NoRoom
  /\ room' = [room EXCEPT ![p] = NoRoom]
  /\ Begin(p, "list", [kind |-> "peer_left", who |-> {p}, quiet |-> {}], room[p])
  /\ doubt' = [doubt EXCEPT ![p] = {}]
  /\ named' = [named EXCEPT ![p] = {}]
  /\ UNCHANGED <<muted, connection>>

Leave(p) == Reads(p) /\ Withdraw(p)

\* The flag first, then the news; outside a room there is nobody to tell.
Mute(p, m) ==
  /\ Reads(p)
  /\ muted' = [muted EXCEPT ![p] = m]
  /\ IF room[p] = NoRoom THEN UNCHANGED handler
     ELSE Begin(p, "list", [kind |-> "peer_mute_changed", who |-> {p},
                            quiet |-> IF m THEN {p} ELSE {}], room[p])
  /\ UNCHANGED <<room, connection, history>>

\* room_joined goes out behind whatever was queued since the snapshot; whatever
\* comes of it, peer_joined is encoded next.
Reply(p) ==
  /\ step[p] = "reply"
  /\ \/ /\ Queued(p, out[p])
        /\ named' = IF p \in Clients THEN [named EXCEPT ![p] = @ \cup out[p].who] ELSE named
     \/ Refused(p) /\ UNCHANGED named
  /\ Begin(p, "list", [kind |-> "peer_joined", who |-> {p}, quiet |-> Quiet({p})], about[p])
  /\ UNCHANGED <<room, muted, doubt>>

\* ForEachPeer lists the members there are now.
Listed_WhoGotTheirs(p) == {q \in Peers : room[q] = about[p] /\ step[q] # "reply"} \ {p}
Listed(p) == {q \in Peers : room[q] = about[p]} \ {p}

List(p) ==
  /\ step[p] = "list"
  /\ step' = [step EXCEPT ![p] = "send"]
  /\ to' = [to EXCEPT ![p] = Listed(p)]
  /\ UNCHANGED <<room, muted, connection, out, about, history>>

\* News of p that gets ahead of a room_joined which does not have it leaves q with
\* the older state; a peer_joined from a room q has left leaves it with a stranger;
\* any other that says where p is settles what was wrong.
DoubtAfter(p, q) ==
  LET news == out[p] IN
  IF step[q] = "reply"
  THEN IF about[p] = room[q] /\ Shows(Applied(out[q], news), p) # Shows(out[q], p)
       THEN doubt[q] \cup {p} ELSE doubt[q]
  ELSE IF news.kind = "peer_joined" /\ about[p] # room[q] THEN doubt[q] \cup {p}
  ELSE IF news.kind = "peer_mute_changed" THEN doubt[q]
  ELSE doubt[q] \ {p}

NamedAfter(p, q) ==
  IF out[p].kind = "peer_joined" /\ about[p] = room[q] THEN named[q] \cup {p}
  ELSE IF out[p].kind = "peer_left" THEN named[q] \ {p}
  ELSE named[q]

\* Peer.SendText, whichever room q is in by now.
Tell(p, q) ==
  /\ step[p] = "send"
  /\ q \in to[p]
  /\ to' = [to EXCEPT ![p] = @ \ {q}]
  /\ \/ /\ Queued(q, out[p])
        /\ IF room[q] = NoRoom \/ q \notin Clients THEN UNCHANGED history
           ELSE /\ doubt' = [doubt EXCEPT ![q] = DoubtAfter(p, q)]
                /\ named' = [named EXCEPT ![q] = NamedAfter(p, q)]
     \/ Refused(q) /\ UNCHANGED history
  /\ UNCHANGED <<room, muted, step, out, about>>

\* The last has been sent to.  A room_left follows a leave.
Return(p) ==
  /\ step[p] = "send"
  /\ to[p] = {}
  /\ IF out[p].kind = "peer_left" THEN Queued(p, RoomLeft) \/ Refused(p)
     ELSE UNCHANGED connection
  /\ Begin(p, "idle", NoFrame, NoRoom)
  /\ UNCHANGED <<room, muted, history>>

-----------------------------------------------------------------------------
(* The end of a session *)

\* readLoop returns, and run cleans up.
Disconnect_Silently(p) ==
  /\ step[p] = "idle" /\ closed[p] /\ room[p] # NoRoom
  /\ room' = [room EXCEPT ![p] = NoRoom]
  /\ UNCHANGED <<muted, connection, handler, history>>
Disconnect(p) == step[p] = "idle" /\ closed[p] /\ Withdraw(p)

HangUp(p) ==
  /\ step[p] = "idle"
  /\ closed[p]
  /\ room[p] = NoRoom
  /\ step' = [step EXCEPT ![p] = "gone"]
  /\ UNCHANGED <<room, muted, connection, out, about, to, history>>

-----------------------------------------------------------------------------
Request(p) ==
  \/ \E r \in Rooms : Join(p, r)
  \/ Leave(p)
  \/ \E m \in BOOLEAN : Mute(p, m)

Continue(p) ==
  \/ Reply(p)
  \/ List(p)
  \/ \E q \in Peers : Tell(p, q)
  \/ Return(p)

CleanUp(p) == Disconnect(p) \/ HangUp(p)

Next ==
  \E p \in Peers :
    Request(p) \/ Continue(p) \/ CleanUp(p) \/ Fail(p) \/ Receive(p) \/ Rotate(p)

Spec == Init /\ [][Next]_vars

\* Handlers run to their end (a control send returns, ConnQueue), and a closed
\* connection ends its read loop.  Clients need not ask for anything, nor read.
FairSpec == Spec /\ \A p \in Peers : WF_vars(Continue(p)) /\ WF_vars(CleanUp(p))

-----------------------------------------------------------------------------
(* Safety *)

\* q is in a room, and its room_joined has been queued.
Joined(q) == room[q] # NoRoom /\ ~closed[q] /\ step[q] # "reply"

\* What b's session announces has still to be queued for q.
Expects(q, b) == q \in to[b] \/ (step[b] \in {"reply", "list"} /\ about[b] = room[q])

\* b as q should see it.
Actual(q, b) ==
  IF room[b] # room[q] THEN "absent" ELSE IF muted[b] THEN "muted" ELSE "heard"

\* A client that has read everything sees the members of its room, and which of them
\* are muted, in whatever order joins, leaves, mutes and broadcasts interleaved, but
\* for the peers of whom it was told out of order: in news that got ahead of its
\* room_joined, in a peer_joined from a room it had left, or in frames of its queue
\* that changed places (dispatch.go:534-564, 605-612, 644-664, room.go:147-160,
\* conn.go:115-133).
RosterIsExact ==
  \A q \in Clients, b \in Peers :
    b # q /\ Joined(q) /\ box[q] = <<>> /\ ~Expects(q, b) /\ b \notin doubt[q]
      => Shows(view[q], b) = Actual(q, b)

\* Of two members of a room each is named to the other, in room_joined or in
\* peer_joined: whichever of the two is inserted first, and wherever the other is
\* when the members are listed, nobody is in neither (dispatch.go:534-564,
\* 653-666).
EveryMemberIsNamed ==
  \A q \in Clients, b \in Peers :
    Joined(q) /\ b # q /\ room[b] = room[q] /\ ~Expects(q, b) => b \in named[q]

-----------------------------------------------------------------------------
(* Liveness *)

\* A session whose connection is closed, by its client or by somebody's broadcast
\* that could not be queued, leaves its room, and for good every roster but those in
\* which it was in doubt (dispatch.go:639-651).
DeadSessionIsForgotten ==
  \A p \in Peers :
    closed[p] ~> [](/\ room[p] = NoRoom
                    /\ \A q \in Clients :
                         Joined(q) /\ box[q] = <<>> /\ p \notin doubt[q]
                           => p \notin view[q].who)
=============================================================================
