------------------------------- MODULE RoomAudio -------------------------------
(***************************************************************************)
(* The audio path of one room: how a frame gets from a peer to the others. *)
(*                                                                         *)
(*   ws.handleAudio (the peer's session) --+                               *)
(*                                         +--> audioCh --> forwardLoop    *)
(*   udp.handleAudio (the one readLoop) ---+                  --> fanOut   *)
(*                                                                         *)
(* Membership comes and goes while frames are on their way: a session      *)
(* joins, mutes, subscribes and leaves in its own goroutine, readLoop      *)
(* carries the room it looked up from one critical section to the next,    *)
(* fanOut sends outside the room lock to the members it saw inside it, and *)
(* the registry closes the room when it is empty.  When that may happen is *)
(* RoomRegistry's concern; here an empty room may be destroyed at any time.*)
(*                                                                         *)
(* The frame's Done callback is modelled: it "is called once the frame is  *)
(* no longer needed by any consumer" (room.go:33).                         *)
(***************************************************************************)
EXTENDS Naturals, Sequences, FiniteSets

CONSTANTS
  Peers,       \* the peers that may be in the room
  NoJob,       \* fanOut has nothing in hand
  NoPeer,      \* readLoop has nothing in hand
  Subscriptions, \* the sets of peers a client may subscribe to
  Depth,       \* audioChBuffer
  FrameBound   \* bound: frames sent in all

Frame == [n : 1..FrameBound, src : Peers, via : {"ws", "udp"}]
Job == [frame : Frame, to : SUBSET Peers]

ASSUME AudioAssumption ==
  /\ Depth \in Nat \ {0}
  /\ FrameBound \in Nat
  /\ NoPeer \notin Peers
  /\ NoJob \notin Job
  /\ Subscriptions \subseteq SUBSET Peers

VARIABLES
  members,     \* Room.peers
  curRoom,     \* the peers whose curRoom pointer is this room
  pc,          \* where each session's goroutine is: "idle", "set" or "clear"
  muted,       \* the peers that are muted
  subscribed,  \* [Peers -> SUBSET Peers]: whom each peer wants to hear
  reader,      \* what readLoop is doing
  audioCh,     \* frames accepted and not yet received by the forwarder
  forwarder,   \* forwardLoop: "loop", "drain" or "gone"
  job,         \* the frame fanOut is sending and to whom, or NoJob
  registry,    \* the room's end: "open", "destroyed", "closing" or "closed"
  made,        \* number of frames made so far
  done,        \* [1..FrameBound -> Nat]: how often each frame's Done was called
  lateFrom,    \* history: frames of a peer sent on since it fell silent
  lateTo       \* history: frames sent to a peer that does not want them, since it last
               \*   joined, left or subscribed

membership == <<members, curRoom, pc, registry>>
frames == <<audioCh, forwarder, job, made, done>>
history == <<lateFrom, lateTo>>
vars == <<membership, muted, subscribed, reader, frames, history>>

Reader == {[step |-> "read", peer |-> NoPeer]}
          \cup [step : {"look", "forward"}, peer : Peers]

\* Types; and between messages a session's pointer agrees with its membership.
TypeOK ==
  /\ members \subseteq Peers /\ curRoom \subseteq Peers
  /\ pc \in [Peers -> {"idle", "set", "clear"}]
  /\ muted \subseteq Peers
  /\ subscribed \in [Peers -> SUBSET Peers]
  /\ reader \in Reader
  /\ audioCh \in Seq(Frame) /\ Len(audioCh) <= Depth
  /\ forwarder \in {"loop", "drain", "gone"}
  /\ job \in Job \cup {NoJob}
  /\ registry \in {"open", "destroyed", "closing", "closed"}
  /\ made \in 0..FrameBound
  /\ done \in [1..FrameBound -> Nat]
  /\ lateFrom \in [Peers -> SUBSET (1..FrameBound)]
  /\ lateTo \in [Peers -> SUBSET (1..FrameBound)]
  /\ \A p \in Peers : pc[p] = "idle" => (p \in members <=> p \in curRoom)

Idle == [step |-> "read", peer |-> NoPeer]

\* Registry.Create has started the forwarder; a nil subscription hears everybody.
Init ==
  /\ members = {} /\ curRoom = {}
  /\ pc = [p \in Peers |-> "idle"]
  /\ muted = {}
  /\ subscribed = [p \in Peers |-> Peers]
  /\ reader = Idle
  /\ audioCh = <<>>
  /\ forwarder = "loop"
  /\ job = NoJob
  /\ registry = "open"
  /\ made = 0
  /\ done = [n \in 1..FrameBound |-> 0]
  /\ lateFrom = [p \in Peers |-> {}]
  /\ lateTo = [p \in Peers |-> {}]

-----------------------------------------------------------------------------
(* The sessions: Room.Add and Room.Remove with the pointer set after the   *)
(* unlock, SetMuted, SetSubscribed                                         *)

MoveTo(p, from, to) ==
  /\ pc[p] = from
  /\ pc' = [pc EXCEPT ![p] = to]

\* A member that is not muted may be heard, and hears whom it subscribed to: the
\* histories count what goes out although that no longer holds, lateFrom since the
\* peer was last heard, lateTo since its last change of mind.
Forget(late, S) == [p \in Peers |-> IF p \in S THEN {} ELSE late[p]]

Add(p) ==
  /\ MoveTo(p, "idle", "set")
  /\ p \notin curRoom
  /\ registry = "open"
  /\ members' = members \cup {p}
  /\ lateFrom' = Forget(lateFrom, {p})
  /\ lateTo' = Forget(lateTo, {p})
  /\ UNCHANGED <<curRoom, registry, muted, subscribed, reader, frames>>

SetRoom(p) ==
  /\ MoveTo(p, "set", "idle")
  /\ curRoom' = curRoom \cup {p}
  /\ UNCHANGED <<members, registry, muted, subscribed, reader, frames, history>>

Remove(p) ==
  /\ MoveTo(p, "idle", "clear")
  /\ p \in curRoom
  /\ members' = members \ {p}
  /\ lateTo' = Forget(lateTo, {p})
  /\ UNCHANGED <<curRoom, registry, muted, subscribed, reader, frames, lateFrom>>

ClearRoom_Forgotten(p) ==
  /\ MoveTo(p, "clear", "idle")
  /\ UNCHANGED <<members, curRoom, registry, muted, subscribed, reader, frames, history>>
ClearRoom(p) ==
  /\ MoveTo(p, "clear", "idle")
  /\ curRoom' = curRoom \ {p}
  /\ UNCHANGED <<members, registry, muted, subscribed, reader, frames, history>>

PeerMute(p, on) ==
  /\ pc[p] = "idle"
  /\ muted' = IF on THEN muted \cup {p} ELSE muted \ {p}
  /\ lateFrom' = IF on THEN lateFrom ELSE Forget(lateFrom, {p})
  /\ UNCHANGED <<membership, subscribed, reader, frames, lateTo>>

Subscribe(p, S) ==
  /\ pc[p] = "idle"
  /\ subscribed' = [subscribed EXCEPT ![p] = S]
  /\ lateTo' = Forget(lateTo, {p})
  /\ UNCHANGED <<membership, muted, reader, frames, lateFrom>>

-----------------------------------------------------------------------------
(* Forward: audioCh is never waited for *)

Release(n) == done' = [done EXCEPT ![n] = @ + 1]

Forward(p, via) ==
  /\ made < FrameBound
  /\ made' = made + 1
  /\ IF Len(audioCh) < Depth
     THEN /\ audioCh' = Append(audioCh, [n |-> made + 1, src |-> p, via |-> via])
          /\ UNCHANGED done
     ELSE /\ Release(made + 1)
          /\ UNCHANGED audioCh
  /\ UNCHANGED <<forwarder, job>>

\* ws.handleAudio runs in the goroutine that also joins, leaves and mutes.
WsAudio(p) ==
  /\ pc[p] = "idle"
  /\ p \in curRoom
  /\ p \notin muted
  /\ Forward(p, "ws")
  /\ UNCHANGED <<membership, muted, subscribed, reader, history>>

\* udp.handleAudio runs in readLoop: the mute flag, the room pointer and Forward
\* are three moments between which the session moves on.
ReadUdp(p) ==
  /\ reader = Idle
  /\ p \notin muted
  /\ reader' = [step |-> "look", peer |-> p]
  /\ UNCHANGED <<membership, muted, subscribed, frames, history>>

LookUpRoom(p) ==
  /\ reader = [step |-> "look", peer |-> p]
  /\ reader' = IF p \in curRoom THEN [step |-> "forward", peer |-> p] ELSE Idle
  /\ UNCHANGED <<membership, muted, subscribed, frames, history>>

UdpAudio(p) ==
  /\ reader = [step |-> "forward", peer |-> p]
  /\ reader' = Idle
  /\ Forward(p, "udp")
  /\ UNCHANGED <<membership, muted, subscribed, history>>

-----------------------------------------------------------------------------
(* forwardLoop and fanOut *)

Receive == audioCh' = Tail(audioCh)

\* fanOut's recheck under the room lock.
Audible_MemberOnly(p) == p \in members
Audible(p) == p \in members /\ p \notin muted

Listeners(p) == {q \in members \ {p} : p \in subscribed[q]}

BeginFanOut ==
  LET f == Head(audioCh) IN
  /\ forwarder = "loop" /\ job = NoJob
  /\ audioCh # <<>>
  /\ Receive
  /\ IF Audible(f.src)
     THEN /\ job' = [frame |-> f, to |-> Listeners(f.src)]
          /\ UNCHANGED done
     ELSE /\ Release(f.n)
          /\ UNCHANGED job
  /\ UNCHANGED <<membership, muted, subscribed, reader, forwarder, made, history>>

\* SendBinary, one listener after the other, in the order of a Go map.
SendTo(q) ==
  LET f == job.frame
      silent == f.src \notin members \/ f.src \in muted
      unwanted == q \notin members \/ f.src \notin subscribed[q] IN
  /\ job # NoJob
  /\ q \in job.to
  /\ job' = [job EXCEPT !.to = @ \ {q}]
  /\ lateFrom' = IF silent THEN [lateFrom EXCEPT ![f.src] = @ \cup {f.n}] ELSE lateFrom
  /\ lateTo' = IF unwanted THEN [lateTo EXCEPT ![q] = @ \cup {f.n}] ELSE lateTo
  /\ UNCHANGED <<membership, muted, subscribed, reader, audioCh, forwarder, made, done>>

EndFanOut ==
  /\ job # NoJob
  /\ job.to = {}
  /\ Release(job.frame.n)
  /\ job' = NoJob
  /\ UNCHANGED <<membership, muted, subscribed, reader, audioCh, forwarder, made, history>>

\* The other case of the select; both may be ready.
BeginDrain ==
  /\ forwarder = "loop" /\ job = NoJob
  /\ registry \in {"closing", "closed"}
  /\ forwarder' = "drain"
  /\ UNCHANGED <<membership, muted, subscribed, reader, audioCh, job, made, done, history>>

DrainFrame_Silently ==
  /\ forwarder = "drain"
  /\ audioCh # <<>>
  /\ Receive
  /\ UNCHANGED <<membership, muted, subscribed, reader, forwarder, job, made, done, history>>
DrainFrame ==
  /\ forwarder = "drain"
  /\ audioCh # <<>>
  /\ Receive
  /\ Release(Head(audioCh).n)
  /\ UNCHANGED <<membership, muted, subscribed, reader, forwarder, job, made, history>>

EndDrain_BreaksSelectOnly ==
  /\ forwarder = "drain"
  /\ audioCh = <<>>
  /\ forwarder' = "loop"
  /\ UNCHANGED <<membership, muted, subscribed, reader, audioCh, job, made, done, history>>
EndDrain ==
  /\ forwarder = "drain"
  /\ audioCh = <<>>
  /\ forwarder' = "gone"
  /\ UNCHANGED <<membership, muted, subscribed, reader, audioCh, job, made, done, history>>

-----------------------------------------------------------------------------
(* Registry.destroy and Room.close *)

End(from, to) ==
  /\ registry = from
  /\ registry' = to
  /\ UNCHANGED <<members, curRoom, pc, muted, subscribed, reader, frames, history>>

\* When the room's timer has run out; members is rechecked under both locks.
MayDestroy_AtAnyTime == TRUE
MayDestroy == members = {}

Destroy == MayDestroy /\ End("open", "destroyed")

\* close(closeCh), then wg.Wait for the forwarder.
CloseRoom == End("destroyed", "closing")
Closed == forwarder = "gone" /\ End("closing", "closed")

-----------------------------------------------------------------------------
Session(p) ==
  \/ Add(p) \/ SetRoom(p) \/ Remove(p) \/ ClearRoom(p)
  \/ \E on \in BOOLEAN : PeerMute(p, on)
  \/ \E S \in Subscriptions : Subscribe(p, S)
  \/ WsAudio(p)

Reading == \E p \in Peers : LookUpRoom(p) \/ UdpAudio(p)

Forwarding == BeginFanOut \/ (\E q \in Peers : SendTo(q)) \/ EndFanOut \/ DrainFrame \/ EndDrain

Next ==
  \/ \E p \in Peers : Session(p) \/ ReadUdp(p)
  \/ Reading
  \/ Forwarding
  \/ BeginDrain
  \/ Destroy
  \/ CloseRoom \/ Closed

Spec == Init /\ [][Next]_vars

\* Goroutines run; a select with two ready cases picks either again and again.
Fairness ==
  /\ WF_vars(Reading)
  /\ WF_vars(Forwarding)
  /\ SF_vars(BeginDrain)
  /\ WF_vars(CloseRoom \/ Closed)

FairSpec == Spec /\ Fairness

-----------------------------------------------------------------------------
(* Safety *)

InHand(n) == job # NoJob /\ job.frame.n = n
Queued(n) == Cardinality({i \in 1..Len(audioCh) : audioCh[i].n = n})

\* A frame is in one place at a time and its Done is called exactly when it has
\* left the last one, be it sent, refused, dropped or drained (room.go:27-36).
DoneMeansNoLongerNeeded ==
  \A n \in 1..made : done[n] + Queued(n) + (IF InHand(n) THEN 1 ELSE 0) = 1

\* A change of mind bites at once, however many frames are queued: of a peer that
\* mutes itself or leaves one more frame is sent on at most, the one fanOut has in
\* hand, and so is one to a peer that leaves or unsubscribes, each time it does
\* (room.go:264-293).
StopsAtOnce ==
  \A p \in Peers : Cardinality(lateFrom[p]) <= 1 /\ Cardinality(lateTo[p]) <= 1

\* After the forwarder has drained and gone, no session can have put a frame into
\* the channel: a frame left there came from a readLoop that had looked the room
\* up before its peer left (room.go:240-260, dispatch.go:387-410).
OnlyStaleFramesAreStranded ==
  forwarder = "gone" => \A i \in 1..Len(audioCh) : audioCh[i].via = "udp"

-----------------------------------------------------------------------------
(* Liveness *)

\* destroy's wait for the forwarder ends (room.go:231-238).
CloseReturns == registry = "destroyed" ~> registry = "closed"
=============================================================================
