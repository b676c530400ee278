---------------------------- MODULE RoomAudioProofs ----------------------------
(***************************************************************************)
(* Proofs about RoomAudio, for every set of peers, depth of the channel    *)
(* and number of frames.                                                   *)
(*                                                                         *)
(* Frames are numbered in the order they are made, so that the channel is  *)
(* sorted, and the frame in hand comes before those in it: a frame is in   *)
(* one place at most, and its Done has been called if it is in none.       *)
(***************************************************************************)
EXTENDS RoomAudio, FiniteSetTheorems, TLAPS

InQueue(n) == \E i \in 1..Len(audioCh) : audioCh[i].n = n

ChannelInv ==
  /\ \A i \in 1..Len(audioCh) : audioCh[i].n <= made
  /\ \A i, j \in 1..Len(audioCh) : i < j => audioCh[i].n < audioCh[j].n
  /\ job # NoJob =>
       job.frame.n <= made /\ \A i \in 1..Len(audioCh) : job.frame.n < audioCh[i].n

DoneInv ==
  \A n \in 1..FrameBound :
    done[n] = IF n > made \/ InQueue(n) \/ InHand(n) THEN 0 ELSE 1

\* Who is inside a handler, and that a room which ends is empty.
RoomInv ==
  /\ \A p \in Peers : pc[p] = "set" => p \in members
  /\ \A p \in Peers : pc[p] = "clear" => p \notin members
  /\ registry # "open" => members = {}
  /\ forwarder # "loop" => registry \in {"closing", "closed"}
  /\ OnlyStaleFramesAreStranded

\* One late frame at most since the last change of mind, the one in hand.
LateFromInv(p) ==
  /\ Audible(p) => lateFrom[p] = {}
  /\ job # NoJob /\ job.frame.src = p => lateFrom[p] \subseteq {job.frame.n}
  /\ \E n \in Nat : lateFrom[p] \subseteq {n}

Wants(q, p) == q \in members /\ p \in subscribed[q]

LateToInv(q) ==
  /\ job # NoJob /\ q \in job.to /\ ~Wants(q, job.frame.src) => lateTo[q] = {}
  /\ \E n \in Nat : lateTo[q] \subseteq {n}

IInv == TypeOK /\ ChannelInv /\ DoneInv /\ RoomInv

LateInv == \A p \in Peers : LateFromInv(p) /\ LateToInv(p)

-----------------------------------------------------------------------------
(* The channel *)

LEMMA FrameFields ==
  ASSUME NEW f \in Frame
  PROVE  f.n \in 1..FrameBound /\ f.src \in Peers /\ f.via \in {"ws", "udp"}
BY DEF Frame

LEMMA QueuedFrames ==
  ASSUME NEW q \in Seq(Frame)
  PROVE  Len(q) \in Nat /\ \A i \in 1..Len(q) : q[i] \in Frame /\ q[i].n \in 1..FrameBound
<1>1. Len(q) \in Nat /\ \A i \in 1..Len(q) : q[i] \in Frame
  OBVIOUS
<1> QED BY <1>1, FrameFields

\* Receiving takes the least number out of the channel.
LEMMA ReceiveTakesHead ==
  ASSUME TypeOK, ChannelInv, audioCh # <<>>, Receive
  PROVE  /\ Head(audioCh) \in Frame /\ Head(audioCh).n \in 1..FrameBound
         /\ Head(audioCh).n <= made /\ InQueue(Head(audioCh).n)
         /\ audioCh' \in Seq(Frame) /\ Len(audioCh') = Len(audioCh) - 1
         /\ \A i \in 1..Len(audioCh') : audioCh'[i] = audioCh[i + 1] /\ i + 1 \in 1..Len(audioCh)
         /\ \A i \in 1..Len(audioCh') : Head(audioCh).n < audioCh'[i].n
         /\ \A n \in 1..FrameBound : InQueue(n)' <=> InQueue(n) /\ n # Head(audioCh).n
<1> USE DEF TypeOK
<1>1. Len(audioCh) \in Nat /\ Len(audioCh) >= 1 /\ Head(audioCh) = audioCh[1]
  OBVIOUS
<1>2. audioCh[1] \in Frame /\ audioCh[1].n \in 1..FrameBound
  BY <1>1, QueuedFrames
<1>3. audioCh' \in Seq(Frame) /\ Len(audioCh') = Len(audioCh) - 1
  BY <1>1 DEF Receive
<1>4. \A i \in 1..Len(audioCh') : audioCh'[i] = audioCh[i + 1] /\ i + 1 \in 1..Len(audioCh)
  BY <1>1, <1>3 DEF Receive
<1>5. \A i \in 1..Len(audioCh') : audioCh[1].n < audioCh'[i].n
  BY <1>1, <1>3, <1>4 DEF ChannelInv
<1>6. ASSUME NEW n \in 1..FrameBound PROVE InQueue(n)' <=> InQueue(n) /\ n # audioCh[1].n
  <2>1. InQueue(n)' => InQueue(n) /\ n # audioCh[1].n
    BY <1>2, <1>4, <1>5 DEF InQueue
  <2>2. ASSUME InQueue(n), n # audioCh[1].n PROVE InQueue(n)'
    <3>1. PICK i \in 1..Len(audioCh) : audioCh[i].n = n
      BY <2>2 DEF InQueue
    <3>2. i - 1 \in 1..Len(audioCh') /\ (i - 1) + 1 = i
      BY <1>1, <1>3, <2>2, <3>1
    <3> QED BY <1>4, <3>1, <3>2 DEF InQueue
  <2> QED BY <2>1, <2>2
<1>7. audioCh[1].n <= made /\ InQueue(audioCh[1].n)
  BY <1>1 DEF ChannelInv, InQueue
<1> QED BY <1>1, <1>2, <1>3, <1>4, <1>5, <1>6, <1>7

\* Forward puts the next number at the end, or releases it at once.
LEMMA ForwardKeepsChannel ==
  ASSUME TypeOK, ChannelInv, DoneInv, NEW p \in Peers, NEW via \in {"ws", "udp"}, Forward(p, via)
  PROVE  /\ audioCh' \in Seq(Frame) /\ Len(audioCh') <= Depth
         /\ made' \in 0..FrameBound /\ done' \in [1..FrameBound -> Nat]
         /\ ChannelInv' /\ DoneInv'
         /\ \A i \in 1..Len(audioCh') : audioCh'[i].via = via \/ (i \in 1..Len(audioCh) /\ audioCh'[i] = audioCh[i])
<1> USE AudioAssumption DEF TypeOK
<1>1. made' = made + 1 /\ made + 1 \in 1..FrameBound /\ UNCHANGED job
  BY DEF Forward
<1>2. job # NoJob => job.frame.n \in 1..FrameBound
  BY DEF Job, Frame
<1>3. \A i \in 1..Len(audioCh) : audioCh[i].n \in 1..FrameBound
  BY QueuedFrames
<1>4. CASE Len(audioCh) < Depth
  <2> DEFINE f == [n |-> made + 1, src |-> p, via |-> via]
  <2>1. f \in Frame
    BY <1>1 DEF Frame
  <2>2. audioCh' = Append(audioCh, f) /\ done' = done
    BY <1>4 DEF Forward
  <2> HIDE DEF f
  <2>3. /\ audioCh' \in Seq(Frame) /\ Len(audioCh') = Len(audioCh) + 1
        /\ audioCh'[Len(audioCh) + 1] = f
        /\ \A i \in 1..Len(audioCh) : audioCh'[i] = audioCh[i]
    BY <2>1, <2>2
  <2>4. \A i \in 1..Len(audioCh') : i \in 1..Len(audioCh) \/ i = Len(audioCh) + 1
    BY <2>3
  <2>5. f.n = made + 1 /\ f.via = via
    BY DEF f
  <2> DEFINE k == Len(audioCh)
  <2>a. k \in Nat
    BY QueuedFrames
  <2>6. ChannelInv'
    <3>1. ASSUME NEW i \in 1..Len(audioCh') PROVE audioCh'[i].n <= made'
      <4>1. CASE i \in 1..k
        <5>1. audioCh'[i] = audioCh[i] /\ audioCh[i].n <= made
          BY <2>3, <4>1 DEF ChannelInv
        <5>2. audioCh[i].n \in 1..FrameBound
          BY <1>3, <4>1
        <5> QED BY <1>1, <5>1, <5>2
      <4>2. CASE i = k + 1
        BY <1>1, <2>3, <2>5, <4>2
      <4> QED BY <2>4, <4>1, <4>2
    <3>2. \A i, j \in 1..Len(audioCh') : i < j => audioCh'[i].n < audioCh'[j].n
      <4> SUFFICES ASSUME NEW i \in 1..Len(audioCh'), NEW j \in 1..Len(audioCh'), i < j
                   PROVE  audioCh'[i].n < audioCh'[j].n
        OBVIOUS
      <4>1. i \in 1..k /\ audioCh'[i] = audioCh[i]
        BY <2>a, <2>3
      <4>2. CASE j \in 1..k
        BY <2>3, <4>1, <4>2 DEF ChannelInv
      <4>3. CASE j = k + 1
        BY <1>1, <1>3, <2>3, <2>5, <4>1, <4>3 DEF ChannelInv
      <4> QED BY <2>4, <4>2, <4>3
    <3>3. job' # NoJob => job'.frame.n <= made' /\
            \A i \in 1..Len(audioCh') : job'.frame.n < audioCh'[i].n
      <4> SUFFICES ASSUME job # NoJob
                   PROVE  job.frame.n <= made + 1 /\
                          \A i \in 1..Len(audioCh') : job.frame.n < audioCh'[i].n
        BY <1>1
      <4>1. job.frame.n <= made
        BY DEF ChannelInv
      <4>2. ASSUME NEW i \in 1..k PROVE job.frame.n < audioCh'[i].n
        BY <2>3, <4>2 DEF ChannelInv
      <4>3. job.frame.n < audioCh'[k + 1].n
        BY <1>1, <1>2, <2>3, <2>5, <4>1
      <4> QED BY <1>1, <1>2, <2>4, <4>1, <4>2, <4>3
    <3> QED BY <3>1, <3>2, <3>3 DEF ChannelInv
  <2>7. \A n \in 1..FrameBound : InQueue(n)' <=> InQueue(n) \/ n = made + 1
    <3> SUFFICES ASSUME NEW n \in 1..FrameBound PROVE InQueue(n)' <=> InQueue(n) \/ n = made + 1
      OBVIOUS
    <3>1. InQueue(n)' => InQueue(n) \/ n = made + 1
      BY <2>3, <2>4, <2>5 DEF InQueue
    <3>2. InQueue(n) => InQueue(n)'
      BY <2>a, <2>3 DEF InQueue
    <3>3. n = made + 1 => InQueue(n)'
      <4>1. k + 1 \in 1..Len(audioCh') /\ audioCh'[k + 1].n = made + 1
        BY <2>a, <2>3, <2>5
      <4> QED BY <4>1 DEF InQueue
    <3> QED BY <3>1, <3>2, <3>3
  <2>8. ~InQueue(made + 1) /\ ~InHand(made + 1)
    BY <1>2, <1>3 DEF ChannelInv, InQueue, InHand
  <2>9. \A n \in 1..FrameBound : InHand(n)' = InHand(n)
    BY <1>1 DEF InHand
  <2>10. DoneInv'
    BY <1>1, <2>2, <2>7, <2>8, <2>9 DEF DoneInv
  <2>11. \A i \in 1..Len(audioCh') :
           audioCh'[i].via = via \/ (i \in 1..Len(audioCh) /\ audioCh'[i] = audioCh[i])
    <3>1. ASSUME NEW i \in 1..k PROVE audioCh'[i] = audioCh[i]
      BY <2>3, <3>1
    <3>2. audioCh'[k + 1].via = via
      BY <2>3, <2>5
    <3> SUFFICES ASSUME NEW i \in 1..Len(audioCh')
                 PROVE  audioCh'[i].via = via \/ (i \in 1..Len(audioCh) /\ audioCh'[i] = audioCh[i])
      OBVIOUS
    <3>3. CASE i \in 1..k
      BY <3>1, <3>3
    <3>4. CASE i = k + 1
      BY <3>2, <3>4
    <3> QED BY <2>4, <3>3, <3>4
  <2>12. Len(audioCh') <= Depth
    BY <1>4, <2>a, <2>3
  <2> QED BY <1>1, <2>2, <2>3, <2>6, <2>10, <2>11, <2>12
<1>5. CASE ~(Len(audioCh) < Depth)
  <2>1. audioCh' = audioCh /\ done' = [done EXCEPT ![made + 1] = @ + 1]
    BY <1>5 DEF Forward, Release
  <2>2. ChannelInv'
    BY <1>1, <1>2, <1>3, <2>1 DEF ChannelInv
  <2>3. ~InQueue(made + 1) /\ ~InHand(made + 1)
    BY <1>2, <1>3 DEF ChannelInv, InQueue, InHand
  <2>4. \A n \in 1..FrameBound : (InHand(n)' <=> InHand(n)) /\ (InQueue(n)' <=> InQueue(n))
    BY <1>1, <2>1 DEF InHand, InQueue
  <2>5. DoneInv'
    BY <1>1, <2>1, <2>3, <2>4 DEF DoneInv
  <2> QED BY <1>1, <2>1, <2>2, <2>5
<1> QED BY <1>4, <1>5

-----------------------------------------------------------------------------
(* Frames and membership: one lemma for each kind of step *)

LEMMA FramesUntouched ==
  ASSUME ChannelInv, DoneInv, UNCHANGED <<audioCh, job, made, done>>
  PROVE  ChannelInv' /\ DoneInv'
<1>1. \A n \in 1..FrameBound : (InQueue(n)' <=> InQueue(n)) /\ (InHand(n)' <=> InHand(n))
  BY DEF InQueue, InHand
<1> QED BY <1>1 DEF ChannelInv, DoneInv

\* Steps of the sessions, readLoop and destroy that touch no frame.
LEMMA MembershipKeepsIInv ==
  ASSUME IInv, NEW p \in Peers,
         \/ Add(p) \/ SetRoom(p) \/ Remove(p) \/ ClearRoom(p)
         \/ (\E on \in BOOLEAN : PeerMute(p, on))
         \/ (\E S \in Subscriptions : Subscribe(p, S))
         \/ ReadUdp(p) \/ LookUpRoom(p)
  PROVE  IInv'
<1> USE AudioAssumption DEF IInv, membership, frames, history
<1>1. UNCHANGED <<audioCh, forwarder, job, made, done, registry>>
  BY DEF Add, SetRoom, Remove, ClearRoom, PeerMute, Subscribe, ReadUdp, LookUpRoom, MoveTo
<1>2. ChannelInv' /\ DoneInv'
  BY <1>1, FramesUntouched
<1>3. RoomInv'
  BY <1>1 DEF Add, SetRoom, Remove, ClearRoom, PeerMute, Subscribe, ReadUdp, LookUpRoom, MoveTo,
     RoomInv, OnlyStaleFramesAreStranded, TypeOK
<1>4. TypeOK'
  <2>1. CASE Add(p) \/ SetRoom(p) \/ Remove(p) \/ ClearRoom(p)
    BY <2>1 DEF Add, SetRoom, Remove, ClearRoom, MoveTo, Forget, TypeOK, RoomInv
  <2>2. CASE \E on \in BOOLEAN : PeerMute(p, on)
    BY <2>2 DEF PeerMute, Forget, TypeOK
  <2>3. CASE \E S \in Subscriptions : Subscribe(p, S)
    BY <2>3 DEF Subscribe, Forget, TypeOK
  <2>4. CASE ReadUdp(p) \/ LookUpRoom(p)
    BY <2>4 DEF ReadUdp, LookUpRoom, TypeOK, Reader, Idle
  <2> QED BY <2>1, <2>2, <2>3, <2>4
<1> QED BY <1>2, <1>3, <1>4

LEMMA EndingKeepsIInv ==
  ASSUME IInv, Destroy \/ CloseRoom \/ Closed \/ BeginDrain \/ EndDrain
  PROVE  IInv'
<1> USE DEF IInv, membership, frames, history
<1>1. UNCHANGED <<members, curRoom, pc, audioCh, job, made, done>>
  BY DEF Destroy, CloseRoom, Closed, End, BeginDrain, EndDrain
<1>2. ChannelInv' /\ DoneInv'
  BY <1>1, FramesUntouched
<1>3. RoomInv'
  BY <1>1 DEF Destroy, MayDestroy, CloseRoom, Closed, End, BeginDrain, EndDrain,
     RoomInv, OnlyStaleFramesAreStranded, TypeOK
<1>4. TypeOK'
  BY <1>1 DEF Destroy, CloseRoom, Closed, End, BeginDrain, EndDrain, TypeOK
<1> QED BY <1>2, <1>3, <1>4

\* A session's frame is accepted only in a room that is open; readLoop's always.
LEMMA AudioKeepsIInv ==
  ASSUME IInv, NEW p \in Peers, WsAudio(p) \/ UdpAudio(p)
  PROVE  IInv'
<1> USE DEF IInv, membership, history
<1>1. \/ WsAudio(p) /\ Forward(p, "ws")
      \/ UdpAudio(p) /\ Forward(p, "udp")
  BY DEF WsAudio, UdpAudio
<1>2. PICK via \in {"ws", "udp"} : Forward(p, via) /\ (via = "ws" => WsAudio(p))
  BY <1>1
<1>3. /\ audioCh' \in Seq(Frame) /\ Len(audioCh') <= Depth
      /\ made' \in 0..FrameBound /\ done' \in [1..FrameBound -> Nat]
      /\ ChannelInv' /\ DoneInv'
      /\ \A i \in 1..Len(audioCh') :
           audioCh'[i].via = via \/ (i \in 1..Len(audioCh) /\ audioCh'[i] = audioCh[i])
  BY <1>2, ForwardKeepsChannel
<1>4. UNCHANGED <<members, curRoom, pc, registry, muted, subscribed, forwarder, job,
                  lateFrom, lateTo>>
      /\ reader' \in Reader
  BY DEF WsAudio, UdpAudio, Forward, TypeOK, Reader, Idle
<1>5. TypeOK'
  BY <1>3, <1>4 DEF TypeOK
<1>6. via = "ws" => forwarder = "loop"
  BY <1>2 DEF WsAudio, RoomInv, TypeOK
<1>7. OnlyStaleFramesAreStranded'
  BY <1>3, <1>4, <1>6 DEF OnlyStaleFramesAreStranded, RoomInv
<1> QED BY <1>3, <1>4, <1>5, <1>7 DEF RoomInv

\* The forwarder takes a frame: into its hand, or out of the way.
LEMMA ReceivingKeepsIInv ==
  ASSUME IInv, BeginFanOut \/ DrainFrame
  PROVE  IInv'
<1> USE DEF IInv, membership, history
<1> DEFINE f == Head(audioCh)
<1>1. audioCh # <<>> /\ Receive
  BY DEF BeginFanOut, DrainFrame
<1>2. /\ f \in Frame /\ f.n \in 1..FrameBound /\ f.n <= made /\ InQueue(f.n)
      /\ audioCh' \in Seq(Frame) /\ Len(audioCh') = Len(audioCh) - 1
      /\ \A i \in 1..Len(audioCh') : audioCh'[i] = audioCh[i + 1] /\ i + 1 \in 1..Len(audioCh)
      /\ \A i \in 1..Len(audioCh') : f.n < audioCh'[i].n
      /\ \A n \in 1..FrameBound : InQueue(n)' <=> InQueue(n) /\ n # f.n
  BY <1>1, ReceiveTakesHead
<1>3. ~InHand(f.n)
  <2>1. audioCh[1] = f /\ 1 \in 1..Len(audioCh)
    BY <1>1 DEF TypeOK
  <2> QED BY <1>2, <2>1 DEF ChannelInv, InHand
<1>4. \/ /\ job = NoJob
         /\ job' = [frame |-> f, to |-> Listeners(f.src)] /\ Audible(f.src)
         /\ done' = done
      \/ job' = job /\ done' = [done EXCEPT ![f.n] = @ + 1]
  BY DEF BeginFanOut, DrainFrame, Release
<1>5. UNCHANGED <<members, curRoom, pc, registry, muted, subscribed, reader, forwarder, made,
                  lateFrom, lateTo>>
  BY DEF BeginFanOut, DrainFrame
<1> HIDE DEF f
<1>6. [frame |-> f, to |-> Listeners(f.src)] \in Job
  BY <1>2 DEF Job, Listeners, TypeOK
<1>7. TypeOK'
  <2>1. Len(audioCh') <= Depth
    BY <1>2, QueuedFrames, AudioAssumption DEF TypeOK
  <2>2. job' \in Job \cup {NoJob} /\ done' \in [1..FrameBound -> Nat]
    BY <1>2, <1>4, <1>6 DEF TypeOK
  <2> QED BY <1>2, <1>5, <2>1, <2>2 DEF TypeOK
<1>8. ChannelInv'
  <2>1. \A i \in 1..Len(audioCh') : audioCh'[i].n <= made'
    BY <1>2, <1>5 DEF ChannelInv
  <2>2. \A i, j \in 1..Len(audioCh') : i < j => audioCh'[i].n < audioCh'[j].n
    <3> SUFFICES ASSUME NEW i \in 1..Len(audioCh'), NEW j \in 1..Len(audioCh'), i < j
                 PROVE  audioCh'[i].n < audioCh'[j].n
      OBVIOUS
    <3>1. i + 1 \in 1..Len(audioCh) /\ j + 1 \in 1..Len(audioCh) /\ i + 1 < j + 1
      BY <1>2
    <3> QED BY <1>2, <3>1 DEF ChannelInv
  <2>3. job' # NoJob => job'.frame.n <= made' /\
          \A i \in 1..Len(audioCh') : job'.frame.n < audioCh'[i].n
    BY <1>2, <1>4, <1>5 DEF ChannelInv
  <2> QED BY <2>1, <2>2, <2>3 DEF ChannelInv
<1>9. DoneInv'
  <2> SUFFICES ASSUME NEW n \in 1..FrameBound
               PROVE  done'[n] = IF n > made' \/ InQueue(n)' \/ InHand(n)' THEN 0 ELSE 1
    BY DEF DoneInv
  <2>1. done[n] = IF n > made \/ InQueue(n) \/ InHand(n) THEN 0 ELSE 1
    BY DEF DoneInv
  <2>2. InQueue(n)' <=> InQueue(n) /\ n # f.n
    BY <1>2
  <2>3. CASE job = NoJob /\ job' = [frame |-> f, to |-> Listeners(f.src)] /\ done' = done
    <3>1. ~InHand(n) /\ (InHand(n)' <=> n = f.n)
      BY <1>6, <2>3, AudioAssumption DEF InHand
    <3> QED BY <1>2, <1>5, <2>1, <2>2, <2>3, <3>1
  <2>4. CASE job' = job /\ done' = [done EXCEPT ![f.n] = @ + 1]
    <3>1. InHand(n)' <=> InHand(n)
      BY <2>4 DEF InHand
    <3>2. CASE n = f.n
      <4>1. done[n] = 0 /\ ~InHand(n) /\ ~(n > made)
        BY <1>2, <1>3, <2>1, <3>2 DEF TypeOK
      <4> QED BY <1>2, <1>5, <2>2, <2>4, <3>1, <3>2, <4>1 DEF TypeOK
    <3>3. CASE n # f.n
      BY <1>5, <2>1, <2>2, <2>4, <3>1, <3>3 DEF TypeOK
    <3> QED BY <3>2, <3>3
  <2> QED BY <1>4, <2>3, <2>4
<1>10. RoomInv'
  BY <1>2, <1>5 DEF RoomInv, OnlyStaleFramesAreStranded
<1> QED BY <1>7, <1>8, <1>9, <1>10

\* A frame in hand goes to one listener after the other, then is released.
LEMMA SendingKeepsIInv ==
  ASSUME IInv, (\E q \in Peers : SendTo(q)) \/ EndFanOut
  PROVE  IInv'
<1> USE AudioAssumption DEF IInv, membership, history
<1>1. job \in Job /\ job # NoJob /\ job.frame \in Frame /\ job.frame.n \in 1..FrameBound
  BY FrameFields DEF SendTo, EndFanOut, TypeOK, Job
<1>2. UNCHANGED <<members, curRoom, pc, registry, muted, subscribed, reader, audioCh, forwarder,
                  made>>
  BY DEF SendTo, EndFanOut
<1>3. RoomInv'
  BY <1>2 DEF RoomInv, OnlyStaleFramesAreStranded
<1>4. CASE \E q \in Peers : SendTo(q)
  <2> PICK q \in Peers : SendTo(q)
    BY <1>4
  <2>1. job' = [job EXCEPT !.to = @ \ {q}] /\ done' = done
    BY DEF SendTo
  <2>2. job' \in Job /\ job'.frame = job.frame
    BY <1>1, <2>1 DEF Job
  <2>3. lateFrom' \in [Peers -> SUBSET (1..FrameBound)] /\ lateTo' \in [Peers -> SUBSET (1..FrameBound)]
    BY <1>1 DEF SendTo, TypeOK
  <2>4. TypeOK'
    BY <1>2, <2>1, <2>2, <2>3 DEF TypeOK
  <2>5. job' # NoJob
    BY <2>2
  <2>6. ChannelInv'
    BY <1>1, <1>2, <2>2, <2>5 DEF ChannelInv
  <2>7. \A n \in 1..FrameBound : (InQueue(n)' <=> InQueue(n)) /\ (InHand(n)' <=> InHand(n))
    BY <1>1, <1>2, <2>2, <2>5 DEF InQueue, InHand
  <2>8. DoneInv'
    BY <1>2, <2>1, <2>7 DEF DoneInv
  <2> QED BY <1>3, <2>4, <2>6, <2>8
<1>5. CASE EndFanOut
  <2> DEFINE m == job.frame.n
  <2>1. job' = NoJob /\ done' = [done EXCEPT ![m] = @ + 1] /\ UNCHANGED <<lateFrom, lateTo>>
    BY <1>5 DEF EndFanOut, Release
  <2>2. TypeOK'
    BY <1>1, <1>2, <2>1 DEF TypeOK
  <2>3. ChannelInv'
    BY <1>2, <2>1 DEF ChannelInv
  <2>4. ~InQueue(m) /\ InHand(m) /\ m <= made
    BY <1>1, QueuedFrames DEF ChannelInv, InQueue, InHand, TypeOK
  <2>5. \A n \in 1..FrameBound :
          (InQueue(n)' <=> InQueue(n)) /\ ~InHand(n)' /\ (n # m => ~InHand(n))
    BY <1>1, <1>2, <2>1 DEF InQueue, InHand
  <2>6. DoneInv'
    BY <1>1, <1>2, <2>1, <2>4, <2>5 DEF DoneInv, TypeOK
  <2> QED BY <1>3, <2>2, <2>3, <2>6
<1> QED BY <1>4, <1>5

-----------------------------------------------------------------------------
(* Late frames *)

\* A change of mind starts the count again, or makes nobody heard or listening.
LEMMA ChangeOfMindKeepsLate ==
  ASSUME TypeOK, LateInv, NEW p \in Peers,
         \/ Add(p) \/ Remove(p)
         \/ (\E on \in BOOLEAN : PeerMute(p, on))
         \/ (\E S \in Subscriptions : Subscribe(p, S))
  PROVE  LateInv'
<1> USE DEF TypeOK, membership, frames, history
<1> SUFFICES ASSUME NEW q \in Peers PROVE LateFromInv(q)' /\ LateToInv(q)'
  BY DEF LateInv
<1>1. LateFromInv(q) /\ LateToInv(q) /\ UNCHANGED job
  BY DEF LateInv, Add, Remove, PeerMute, Subscribe
<1>2. CASE Add(p)
  BY <1>1, <1>2 DEF Add, Forget, LateFromInv, LateToInv, Audible, Wants
<1>3. CASE Remove(p)
  BY <1>1, <1>3 DEF Remove, Forget, LateFromInv, LateToInv, Audible, Wants
<1>4. CASE \E on \in BOOLEAN : PeerMute(p, on)
  BY <1>1, <1>4 DEF PeerMute, Forget, LateFromInv, LateToInv, Audible, Wants
<1>5. CASE \E S \in Subscriptions : Subscribe(p, S)
  BY <1>1, <1>5 DEF Subscribe, Forget, LateFromInv, LateToInv, Audible, Wants
<1> QED BY <1>2, <1>3, <1>4, <1>5

\* fanOut begins only with a frame of a peer that is heard, for those that want it.
LEMMA BeginFanOutKeepsLate ==
  ASSUME TypeOK, ChannelInv, LateInv, BeginFanOut
  PROVE  LateInv'
<1> DEFINE f == Head(audioCh)
<1>1. f \in Frame /\ f.n \in Nat
  BY ReceiveTakesHead DEF BeginFanOut
<1>2. \/ /\ job' = [frame |-> f, to |-> Listeners(f.src)]
         /\ Audible(f.src)
      \/ job' = NoJob
  BY DEF BeginFanOut
<1>3. UNCHANGED <<members, muted, subscribed, lateFrom, lateTo>>
  BY DEF BeginFanOut, membership, history
<1> HIDE DEF f
<1> SUFFICES ASSUME NEW q \in Peers PROVE LateFromInv(q)' /\ LateToInv(q)'
  BY DEF LateInv
<1>4. LateFromInv(q) /\ LateToInv(q)
  BY DEF LateInv
<1> QED BY <1>1, <1>2, <1>3, <1>4
        DEF LateFromInv, LateToInv, Audible, Wants, Listeners

LEMMA SendToKeepsLate ==
  ASSUME TypeOK, LateInv, NEW q \in Peers, SendTo(q)
  PROVE  LateInv'
<1> USE DEF TypeOK
<1> DEFINE f == job.frame
<1>1. job \in Job /\ f \in Frame /\ f.n \in Nat /\ f.src \in Peers
  BY FrameFields DEF SendTo, Job
<1>2. job # NoJob /\ q \in job.to /\ job' = [job EXCEPT !.to = @ \ {q}]
  BY DEF SendTo
<1>3. job'.frame = f /\ job'.to = job.to \ {q}
  BY <1>1, <1>2 DEF Job
<1>4. UNCHANGED <<members, muted, subscribed>>
  BY DEF SendTo, membership
<1>5. lateFrom' = IF Audible(f.src) THEN lateFrom ELSE [lateFrom EXCEPT ![f.src] = @ \cup {f.n}]
  BY DEF SendTo, Audible
<1>6. lateTo' = IF Wants(q, f.src) THEN lateTo ELSE [lateTo EXCEPT ![q] = @ \cup {f.n}]
  BY DEF SendTo, Wants
<1> HIDE DEF f
<1> SUFFICES ASSUME NEW r \in Peers PROVE LateFromInv(r)' /\ LateToInv(r)'
  BY DEF LateInv
<1>7. LateFromInv(r) /\ LateToInv(r)
  BY DEF LateInv
<1>8. LateFromInv(r)'
  <2>1. CASE r = f.src
    BY <1>1, <1>2, <1>3, <1>4, <1>5, <1>7, <2>1 DEF LateFromInv, Audible, f
  <2>2. CASE r # f.src
    BY <1>1, <1>2, <1>3, <1>4, <1>5, <1>7, <2>2 DEF LateFromInv, Audible, f
  <2> QED BY <2>1, <2>2
<1>9. LateToInv(r)'
  <2>1. CASE r = q
    BY <1>1, <1>2, <1>3, <1>4, <1>6, <1>7, <2>1 DEF LateToInv, Wants, f
  <2>2. CASE r # q
    BY <1>1, <1>2, <1>3, <1>4, <1>6, <1>7, <2>2 DEF LateToInv, Wants, f
  <2> QED BY <2>1, <2>2
<1> QED BY <1>8, <1>9

\* Nothing else touches the histories.
LEMMA RestKeepsLate ==
  ASSUME LateInv, UNCHANGED <<members, muted, subscribed, lateFrom, lateTo>>,
         job' \in {job, NoJob}
  PROVE  LateInv'
BY DEF LateInv, LateFromInv, LateToInv, Audible, Wants

-----------------------------------------------------------------------------
(* The theorems *)

LEMMA InitInvs == Init => IInv /\ LateInv
<1> SUFFICES ASSUME Init PROVE IInv /\ LateInv
  OBVIOUS
<1>1. TypeOK
  BY AudioAssumption DEF Init, TypeOK, Reader, Idle
<1>2. ChannelInv /\ DoneInv
  BY DEF Init, ChannelInv, DoneInv, InQueue, InHand
<1>3. RoomInv
  BY DEF Init, RoomInv, OnlyStaleFramesAreStranded
<1>4. LateInv
  BY DEF Init, LateInv, LateFromInv, LateToInv
<1> QED BY <1>1, <1>2, <1>3, <1>4 DEF IInv

LEMMA NextKeepsIInv == IInv /\ [Next]_vars => IInv'
<1> SUFFICES ASSUME IInv, [Next]_vars PROVE IInv'
  OBVIOUS
<1>1. CASE UNCHANGED vars
  <2>1. ChannelInv' /\ DoneInv'
    BY <1>1, FramesUntouched DEF vars, frames, IInv
  <2>2. TypeOK' /\ RoomInv'
    BY <1>1 DEF vars, membership, frames, history, IInv, TypeOK, RoomInv, OnlyStaleFramesAreStranded
  <2> QED BY <2>1, <2>2 DEF IInv
<1>2. ASSUME NEW p \in Peers, Session(p) \/ ReadUdp(p) PROVE IInv'
  BY <1>2, MembershipKeepsIInv, AudioKeepsIInv DEF Session
<1>3. CASE Reading
  BY <1>3, MembershipKeepsIInv, AudioKeepsIInv DEF Reading
<1>4. CASE Forwarding
  BY <1>4, ReceivingKeepsIInv, SendingKeepsIInv, EndingKeepsIInv DEF Forwarding
<1>5. CASE BeginDrain \/ Destroy \/ CloseRoom \/ Closed
  BY <1>5, EndingKeepsIInv
<1> QED BY <1>1, <1>2, <1>3, <1>4, <1>5 DEF Next

LEMMA NextKeepsLate == IInv /\ LateInv /\ [Next]_vars => LateInv'
<1> SUFFICES ASSUME IInv, LateInv, [Next]_vars PROVE LateInv'
  OBVIOUS
<1> USE DEF IInv, membership, frames, history
<1>1. CASE UNCHANGED vars
  BY <1>1, RestKeepsLate DEF vars
<1>2. ASSUME NEW p \in Peers, Session(p) \/ ReadUdp(p) PROVE LateInv'
  <2>1. CASE SetRoom(p) \/ ClearRoom(p) \/ WsAudio(p) \/ ReadUdp(p)
    BY <2>1, RestKeepsLate DEF SetRoom, ClearRoom, WsAudio, ReadUdp, Forward
  <2> QED BY <1>2, <2>1, ChangeOfMindKeepsLate DEF Session
<1>3. CASE Reading
  BY <1>3, RestKeepsLate DEF Reading, LookUpRoom, UdpAudio, Forward
<1>4. CASE Forwarding
  <2>1. CASE EndFanOut \/ DrainFrame \/ EndDrain
    BY <2>1, RestKeepsLate DEF EndFanOut, DrainFrame, EndDrain
  <2> QED BY <1>4, <2>1, BeginFanOutKeepsLate, SendToKeepsLate DEF Forwarding
<1>5. CASE BeginDrain \/ Destroy \/ CloseRoom \/ Closed
  BY <1>5, RestKeepsLate DEF BeginDrain, Destroy, CloseRoom, Closed, End
<1> QED BY <1>1, <1>2, <1>3, <1>4, <1>5 DEF Next

\* The invariant of every reachable state; it includes the types.
THEOREM AudioInvariant == Spec => [](IInv /\ LateInv)
BY InitInvs, NextKeepsIInv, NextKeepsLate, PTL DEF Spec

\* A frame's Done is called once, when the frame has left the last place it was in
\* (room.go:27-36).
THEOREM DoneIsCalledOnce == Spec => []DoneMeansNoLongerNeeded
<1>1. IInv => DoneMeansNoLongerNeeded
  <2> SUFFICES ASSUME IInv, NEW n \in 1..made
               PROVE  done[n] + Queued(n) + (IF InHand(n) THEN 1 ELSE 0) = 1
    BY DEF DoneMeansNoLongerNeeded
  <2> USE DEF IInv
  <2> DEFINE S == {i \in 1..Len(audioCh) : audioCh[i].n = n}
  <2>1. n \in 1..FrameBound /\ ~(n > made)
    BY AudioAssumption DEF TypeOK
  <2>2. done[n] = IF InQueue(n) \/ InHand(n) THEN 0 ELSE 1
    BY <2>1 DEF DoneInv
  <2>3. Len(audioCh) \in Nat /\ \A i \in 1..Len(audioCh) : audioCh[i].n \in 1..FrameBound
    BY QueuedFrames DEF TypeOK
  <2>4. CASE InQueue(n)
    <3>1. PICK i \in 1..Len(audioCh) : audioCh[i].n = n
      BY <2>4 DEF InQueue
    <3>2. \A j \in 1..Len(audioCh) : audioCh[j].n = n => j = i
      <4> SUFFICES ASSUME NEW j \in 1..Len(audioCh), audioCh[j].n = n, j # i PROVE FALSE
        OBVIOUS
      <4>1. i < j \/ j < i
        BY <2>3
      <4> QED BY <2>1, <3>1, <4>1 DEF ChannelInv
    <3>3. S = {i}
      BY <3>1, <3>2
    <3>4. Queued(n) = 1
      BY <3>3, FS_Singleton DEF Queued
    <3>5. ~InHand(n)
      BY <2>1, <3>1 DEF ChannelInv, InHand
    <3> QED BY <2>2, <2>4, <3>4, <3>5
  <2>5. CASE ~InQueue(n)
    <3>1. S = {}
      BY <2>5 DEF InQueue
    <3>2. Queued(n) = 0
      BY <3>1, FS_EmptySet DEF Queued
    <3> QED BY <2>2, <2>5, <3>2
  <2> QED BY <2>4, <2>5
<1> QED BY AudioInvariant, <1>1, PTL

\* One late frame at most after a change of mind (room.go:264-293).
THEOREM ChangesBiteAtOnce == Spec => []StopsAtOnce
<1>1. LateInv => StopsAtOnce
  <2>1. ASSUME NEW S, NEW n \in Nat, S \subseteq {n} PROVE Cardinality(S) <= 1
    <3>1. S = {} \/ S = {n}
      BY <2>1
    <3> QED BY <3>1, FS_EmptySet, FS_Singleton
  <2> SUFFICES ASSUME LateInv, NEW p \in Peers
               PROVE  Cardinality(lateFrom[p]) <= 1 /\ Cardinality(lateTo[p]) <= 1
    BY DEF StopsAtOnce
  <2>2. PICK n \in Nat : lateFrom[p] \subseteq {n}
    BY DEF LateInv, LateFromInv
  <2>3. PICK m \in Nat : lateTo[p] \subseteq {m}
    BY DEF LateInv, LateToInv
  <2> QED BY <2>1, <2>2, <2>3
<1> QED BY AudioInvariant, <1>1, PTL

\* What the forwarder leaves behind came from readLoop (room.go:240-260,
\* dispatch.go:387-410).
THEOREM SessionsStrandNothing == Spec => []OnlyStaleFramesAreStranded
<1>1. IInv => OnlyStaleFramesAreStranded
  BY DEF IInv, RoomInv
<1> QED BY AudioInvariant, <1>1, PTL
=============================================================================
