------------------------------- MODULE ConnQueue -------------------------------
(***************************************************************************)
(* The outgoing side of one WebSocket connection: internal/ws/conn.go.     *)
(*                                                                         *)
(* A bounded channel (writeCh) stands between the goroutines that send to  *)
(* the peer and writeLoop, which writes to the network.  Sessions send     *)
(* control frames, which wait for room; room forwarders send audio frames, *)
(* which make room by taking the head of the channel out themselves.       *)
(*                                                                         *)
(* writeCh has the semantics of a buffered Go channel: a sender that finds *)
(* it full may park, and whoever receives from the full channel moves the  *)
(* value of the first parked sender into the buffer in the same step.  A   *)
(* select with two ready cases picks either.                               *)
(***************************************************************************)
EXTENDS Naturals, FiniteSets, Sequences, SequencesExt

CONSTANTS
  Sessions,    \* goroutines that send control frames to this peer
  Forwarders,  \* goroutines that send audio frames to this peer
  Depth,       \* connWriteQueueDepth
  SendBound,   \* bound: control frames each session sends
  AudioBound,  \* bound: audio frames each forwarder sends
  Nobody       \* writes nothing

Senders == Sessions \cup Forwarders

\* A frame is known by its sender and its place among that sender's frames.
Frame == [by : Sessions, n : 1..SendBound] \cup [by : Forwarders, n : 1..AudioBound]

ASSUME ConnAssumption ==
  /\ Sessions \cap Forwarders = {}
  /\ Depth \in Nat \ {0}
  /\ SendBound \in Nat
  /\ AudioBound \in Nat
  /\ Nobody \notin Frame

VARIABLES
  queue,    \* the buffer of writeCh
  parked,   \* senders parked on writeCh, in order of arrival
  done,     \* doneCh is closed
  pc,       \* where each sending goroutine is
  sent,     \* frames each goroutine has begun to send
  held,     \* the control frame a forwarder has taken out, or Nobody
  loop,     \* where writeLoop is: "take", "write" or "gone"
  writing,  \* the frame writeLoop is writing, or Nobody
  wire      \* the frames written, in order

vars == <<queue, parked, done, pc, sent, held, loop, writing, wire>>

\* The frame a sender is sending.
Current(s) == [by |-> s, n |-> sent[s]]
IsAudio(f) == f.by \in Forwarders
BoundOf(s) == IF s \in Forwarders THEN AudioBound ELSE SendBound

(* Where a sender may be:                                                  *)
(*   "idle"     between two sends                                          *)
(*   "full"     writeControl found the channel full; its second select is  *)
(*              next                                                       *)
(*   "parked"   blocked in that select                                     *)
(*   "try"      writeAudio, first select                                   *)
(*   "pop"      writeAudio found the channel full; about to receive        *)
(*   "requeue"  it received a control frame and is about to put it back    *)

\* Types; the channel never holds more than its capacity although a receive and a
\* parked send are one step, and a forwarder has a frame in hand exactly between
\* taking it out and putting it back (conn.go:76-139).
TypeOK ==
  /\ queue \in Seq(Frame) /\ Len(queue) <= Depth
  /\ parked \in Seq(Sessions)
  /\ done \in BOOLEAN
  /\ pc \in [Senders -> {"idle", "full", "parked", "try", "pop", "requeue"}]
  /\ sent \in [Senders -> Nat] /\ \A s \in Senders : sent[s] <= BoundOf(s)
  /\ held \in [Forwarders -> Frame \cup {Nobody}]
  /\ \A f \in Forwarders : held[f] = Nobody <=> pc[f] # "requeue"
  /\ loop \in {"take", "write", "gone"}
  /\ writing \in Frame \cup {Nobody}
  /\ wire \in Seq(Frame)

Init ==
  /\ queue = <<>>
  /\ parked = <<>>
  /\ done = FALSE
  /\ pc = [s \in Senders |-> "idle"]
  /\ sent = [s \in Senders |-> 0]
  /\ held = [f \in Forwarders |-> Nobody]
  /\ loop = "take"
  /\ writing = Nobody
  /\ wire = <<>>

-----------------------------------------------------------------------------
(* The channel *)

HasRoom_OffByOne == Len(queue) <= Depth
HasRoom == Len(queue) < Depth
Enqueue(f) == queue' = Append(queue, f)

\* Receive from a non-empty channel: the first parked sender is served at once.
\* next is pc with the receiver's own move already made.
ReceiveThen(next) ==
  IF parked = <<>>
  THEN /\ queue' = Tail(queue)
       /\ pc' = next
       /\ UNCHANGED parked
  ELSE /\ queue' = Append(Tail(queue), Current(Head(parked)))
       /\ pc' = [next EXCEPT ![Head(parked)] = "idle"]
       /\ parked' = Tail(parked)

\* close: every goroutine waiting on doneCh returns with an error.
CloseThen(next) ==
  /\ done' = TRUE
  /\ parked' = <<>>
  /\ pc' = [s \in Senders |-> IF s \in Range(parked) THEN "idle" ELSE next[s]]

Moved(s, label) == [pc EXCEPT ![s] = label]
Move(s, label) == pc' = Moved(s, label)

-----------------------------------------------------------------------------
(* writeControl *)

Begin(s) ==
  /\ pc[s] = "idle"
  /\ sent[s] < BoundOf(s)
  /\ sent' = [sent EXCEPT ![s] = @ + 1]

\* First select: enqueue, give up on a closed connection, or fall through.
SendControl(s) ==
  /\ Begin(s)
  /\ \/ /\ HasRoom
        /\ queue' = Append(queue, [by |-> s, n |-> sent[s] + 1])
        /\ UNCHANGED pc
     \/ /\ done
        /\ UNCHANGED <<queue, pc>>
     \/ /\ ~HasRoom /\ ~done
        /\ Move(s, "full")
        /\ UNCHANGED queue
  /\ UNCHANGED <<parked, done, held, loop, writing, wire>>

\* Second select: the same, but it parks until the timer expires.
AwaitRoom(s) ==
  /\ pc[s] = "full"
  /\ \/ /\ HasRoom
        /\ Enqueue(Current(s))
        /\ Move(s, "idle")
        /\ UNCHANGED parked
     \/ /\ done
        /\ Move(s, "idle")
        /\ UNCHANGED <<queue, parked>>
     \/ /\ ~HasRoom /\ ~done
        /\ Move(s, "parked")
        /\ parked' = Append(parked, s)
        /\ UNCHANGED queue
  /\ UNCHANGED <<done, sent, held, loop, writing, wire>>

\* writeTimeout: "control write queue stuck".
ControlTimeout_Forgotten(s) == FALSE /\ UNCHANGED vars
ControlTimeout(s) ==
  /\ pc[s] = "parked"
  /\ CloseThen(pc)
  /\ UNCHANGED <<queue, sent, held, loop, writing, wire>>

-----------------------------------------------------------------------------
(* writeAudio *)

SendAudio(f) ==
  /\ Begin(f)
  /\ Move(f, "try")
  /\ UNCHANGED <<queue, parked, done, held, loop, writing, wire>>

TryAudio(f) ==
  /\ pc[f] = "try"
  /\ \/ /\ HasRoom
        /\ Enqueue(Current(f))
        /\ Move(f, "idle")
     \/ /\ done
        /\ Move(f, "idle")
        /\ UNCHANGED queue
     \/ /\ ~HasRoom /\ ~done
        /\ Move(f, "pop")
        /\ UNCHANGED queue
  /\ UNCHANGED <<parked, done, sent, held, loop, writing, wire>>

\* What the head of a full channel may be dropped for.
Droppable_Anything(m) == TRUE
Droppable_Nothing(m) == FALSE
Droppable(m) == IsAudio(m)

\* Take the head out: an audio frame is dropped, a control frame is held.
PopHead(f) ==
  /\ pc[f] = "pop"
  /\ queue # <<>>
  /\ IF Droppable(Head(queue))
     THEN /\ ReceiveThen(Moved(f, "try"))
          /\ UNCHANGED held
     ELSE /\ ReceiveThen(Moved(f, "requeue"))
          /\ held' = [held EXCEPT ![f] = Head(queue)]
  /\ UNCHANGED <<done, sent, loop, writing, wire>>

\* The other two cases of that select: the connection is closed, or writeLoop
\* has emptied the channel in the meantime.
PopNothing(f) ==
  /\ pc[f] = "pop"
  /\ \/ done /\ Move(f, "idle")
     \/ ~done /\ queue = <<>> /\ Move(f, "try")
  /\ UNCHANGED <<queue, parked, done, sent, held, loop, writing, wire>>

\* The control frame goes to the tail, or the connection is given up.
Requeue(f) ==
  /\ pc[f] = "requeue"
  /\ held' = [held EXCEPT ![f] = Nobody]
  /\ \/ /\ HasRoom
        /\ Enqueue(held[f])
        /\ Move(f, "try")
        /\ UNCHANGED <<parked, done>>
     \/ /\ ~HasRoom
        /\ CloseThen(Moved(f, "idle"))
        /\ UNCHANGED queue
  /\ UNCHANGED <<sent, loop, writing, wire>>

-----------------------------------------------------------------------------
(* writeLoop, and the end of the session *)

TakeFrame ==
  /\ loop = "take"
  /\ queue # <<>>
  /\ writing' = Head(queue)
  /\ loop' = "write"
  /\ ReceiveThen(pc)
  /\ UNCHANGED <<done, sent, held, wire>>

WriteSucceeds ==
  /\ loop = "write"
  /\ wire' = Append(wire, writing)
  /\ writing' = Nobody
  /\ loop' = "take"
  /\ UNCHANGED <<queue, parked, done, pc, sent, held>>

\* A network error, or writeTimeout.
WriteFails ==
  /\ loop = "write"
  /\ writing' = Nobody
  /\ loop' = "gone"
  /\ CloseThen(pc)
  /\ UNCHANGED <<queue, sent, held, wire>>

LoopExits_Never == FALSE /\ UNCHANGED vars
LoopExits ==
  /\ loop = "take"
  /\ done
  /\ loop' = "gone"
  /\ UNCHANGED <<queue, parked, done, pc, sent, held, writing, wire>>

\* conn.read has failed: HandleHTTP returns and its deferred close runs.
SessionEnds ==
  /\ ~done
  /\ CloseThen(pc)
  /\ UNCHANGED <<queue, sent, held, loop, writing, wire>>

-----------------------------------------------------------------------------
\* What a sender does on its own once it has begun to send.
Continue(s) ==
  \/ s \in Sessions /\ AwaitRoom(s)
  \/ s \in Forwarders /\ (TryAudio(s) \/ PopHead(s) \/ PopNothing(s) \/ Requeue(s))

Expire(s) == s \in Sessions /\ ControlTimeout(s)

Loop == TakeFrame \/ WriteSucceeds \/ WriteFails \/ LoopExits

Next ==
  \/ \E s \in Sessions : SendControl(s)
  \/ \E f \in Forwarders : SendAudio(f)
  \/ \E s \in Senders : Continue(s) \/ Expire(s)
  \/ Loop
  \/ SessionEnds

Spec == Init /\ [][Next]_vars

\* Goroutines that can run do, and timers expire.
FairSenders == \A s \in Senders : WF_vars(Continue(s)) /\ WF_vars(Expire(s))

\* writeLoop runs, and a receiver parked on the channel is handed the next frame,
\* but the network is not helped: while the peer's TCP window is shut a write that
\* has begun need not return, unless the connection is closed under it.
Fairness ==
  /\ FairSenders
  /\ SF_vars(TakeFrame \/ LoopExits)
  /\ WF_vars(done /\ Loop)

FairSpec == Spec /\ Fairness

-----------------------------------------------------------------------------
(* Safety *)

\* Every frame that is still on its way or was written, in delivery order.
Pipeline == wire \o (IF writing = Nobody THEN <<>> ELSE <<writing>>) \o queue

Copies(f) ==
  Cardinality({i \in DOMAIN Pipeline : Pipeline[i] = f})
  + Cardinality({a \in Forwarders : held[a] = f})

Accepted(s, n) == n < sent[s] \/ (n = sent[s] /\ pc[s] = "idle")

\* "Control frames (text) MUST be delivered" (conn.go:17-18): as long as the
\* connection is open, each control frame whose send has returned exists exactly
\* once, in the channel, at writeLoop, on the wire, or in the hands of a
\* forwarder that will put it back.
NoControlFrameLost ==
  ~done => \A s \in Sessions : \A n \in 1..sent[s] :
             Accepted(s, n) => Copies([by |-> s, n |-> n]) = 1

\* What is dropped is always the oldest: of one forwarder's frames none overtakes
\* another, however many control frames are taken out and put back (conn.go:19-20).
AudioInOrder ==
  \A i, j \in 1..Len(Pipeline) :
    i < j /\ IsAudio(Pipeline[i]) /\ Pipeline[i].by = Pipeline[j].by
      => Pipeline[i].n < Pipeline[j].n

-----------------------------------------------------------------------------
(* Liveness *)

\* A control send returns, with the frame accepted or the connection closed,
\* although the peer reads nothing and writeLoop's own write hangs
\* (conn.go:76-79).
ControlSendReturns ==
  \A s \in Sessions : pc[s] # "idle" ~> pc[s] = "idle"

\* After close no goroutine stays behind on this connection (conn.go:142-175).
CloseReleasesAll ==
  done ~> (loop = "gone" /\ \A s \in Senders : pc[s] = "idle")

-----------------------------------------------------------------------------
(* What the comments say and the code does not do *)

\* "if the head happens to be a control frame we leave it" (conn.go:116-117): if
\* it were left, one session's control frames would be written in the order sent.
ControlInOrder ==
  \A i, j \in 1..Len(wire) :
    i < j /\ ~IsAudio(wire[i]) /\ wire[i].by = wire[j].by => wire[i].n < wire[j].n

\* writeAudio "Never blocks" (conn.go:102), however long writeLoop's write takes.
AudioSendReturns ==
  \A f \in Forwarders : pc[f] # "idle" ~> pc[f] = "idle"
=============================================================================
