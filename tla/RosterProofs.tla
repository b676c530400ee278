----------------------------- MODULE RosterProofs -----------------------------
(***************************************************************************)
(* Proofs about Roster, for every set of peers, of rooms and of clients    *)
(* looked at, and every depth of their queues.                             *)
(*                                                                         *)
(* RosterIsExact is not inductive: it speaks of empty queues, and says     *)
(* nothing of a pair while news is on its way.  PairInv speaks of what the *)
(* client will make of all it has coming.  That is a fold over its queue,  *)
(* which is unfolded here into the last frame of a set: Ends(s, R, V, x)   *)
(* is what becomes of a truth x that each frame of R sets, to TRUE if it   *)
(* is one of V.  Whether b is in the roster is set by the frames that      *)
(* place it, and its flag by all that concern it.                          *)
(***************************************************************************)
EXTENDS Roster, TLAPS

Ends(s, R, V, x) ==
  \/ \E i \in 1..Len(s) : s[i] \in V /\ \A j \in 1..Len(s) : j > i => s[j] \notin R
  \/ x /\ \A i \in 1..Len(s) : s[i] \notin R

Concerning(b) == {f \in Frames : Concerns(f, b)}
Placing(b) == {f \in Concerning(b) : f.kind \notin {"peer_mute_changed", "none"}}
Placed(b) == {f \in Placing(b) : b \in f.who /\ f.kind # "peer_left"}
Quieting(b) == {f \in Concerning(b) : b \in f.quiet /\ f.kind # "peer_left"}

\* The sight of b that a queue s turns the roster r into.
Sight(s, r, b) ==
  IF ~Ends(s, Placing(b), Placed(b), b \in r.who) THEN "absent"
  ELSE IF Ends(s, Concerning(b), Quieting(b), b \in r.quiet) THEN "muted" ELSE "heard"

\* What q will see of b when it has read what it has coming.
Due(q, b) == IF step[q] = "reply" THEN Shows(out[q], b) ELSE Sight(box[q], view[q], b)

\* Where a handler is, and what it has changed by then.
HandlerInv(p) ==
  /\ step[p] \in {"idle", "gone"} => about[p] = NoRoom /\ to[p] = {}
  /\ step[p] \in {"reply", "list", "send"} => about[p] \in Rooms
  /\ step[p] \in {"reply", "list"} => to[p] = {}
  /\ p \notin to[p]
  /\ step[p] = "reply" => out[p].kind = "room_joined" /\ room[p] = about[p]
  /\ step[p] \in {"list", "send"} =>
       \/ /\ out[p].kind \in {"peer_joined", "peer_mute_changed"}
          /\ out[p].who = {p}
          /\ out[p].quiet = IF muted[p] THEN {p} ELSE {}
          /\ room[p] = about[p]
       \/ out[p].kind = "peer_left" /\ out[p].who = {p} /\ room[p] = NoRoom

\* News of b is on its way to q in the room it is about.
Coming(q, b) == Expects(q, b) /\ about[b] = room[q]

PairInv(q, b) ==
  b # q /\ room[q] # NoRoom /\ ~closed[q] /\ b \notin doubt[q] =>
    \/ Due(q, b) = Actual(q, b)
    \/ Coming(q, b) /\ (out[b].kind = "peer_mute_changed" => Due(q, b) # "absent")

NamedInv(q, b) ==
  b # q /\ room[q] # NoRoom /\ ~closed[q] /\ room[b] = room[q] =>
    \/ b \in named[q]
    \/ step[q] = "reply" /\ b \in out[q].who
    \/ Coming(q, b) /\ out[b].kind \in {"room_joined", "peer_joined"}

IInv ==
  /\ TypeOK
  /\ \A p \in Peers : HandlerInv(p)
  /\ \A q \in Clients, b \in Peers : PairInv(q, b) /\ NamedInv(q, b)

-----------------------------------------------------------------------------
(* The last frame that counts *)

\* A queue of frames, and a set of them that counts.
QueueOf(s, R, V) == s \in Seq(Frames) /\ V \subseteq R

\* A frame at the end that does not count changes nothing.
LEMMA EndsSkips ==
  ASSUME NEW s, NEW R, NEW V, NEW x, QueueOf(s, R, V), NEW f \in Frames, f \notin R
  PROVE  Ends(Append(s, f), R, V, x) <=> Ends(s, R, V, x)
<1> DEFINE t == Append(s, f)
<1>1. /\ s \in Seq(Frames) /\ V \subseteq R /\ Len(s) \in Nat
      /\ Len(t) = Len(s) + 1 /\ t[Len(s) + 1] = f
      /\ \A i \in 1..Len(s) : t[i] = s[i]
  BY DEF QueueOf
<1> HIDE DEF t
<1>2. \A i \in 1..Len(t) : i \in 1..Len(s) \/ i = Len(s) + 1
  BY <1>1
<1>3. \A i \in 1..Len(s) : i \in 1..Len(t)
  BY <1>1
<1>4. ASSUME NEW i \in 1..Len(s)
      PROVE  (s[i] \in V /\ \A j \in 1..Len(s) : j > i => s[j] \notin R)
             <=> (t[i] \in V /\ \A j \in 1..Len(t) : j > i => t[j] \notin R)
  BY <1>1, <1>2, <1>3
<1>5. (\A i \in 1..Len(s) : s[i] \notin R) <=> (\A i \in 1..Len(t) : t[i] \notin R)
  BY <1>1, <1>2, <1>3
<1>6. t[Len(s) + 1] \notin V
  BY <1>1
<1>7. (\E i \in 1..Len(t) : t[i] \in V /\ \A j \in 1..Len(t) : j > i => t[j] \notin R)
      <=> (\E i \in 1..Len(s) : s[i] \in V /\ \A j \in 1..Len(s) : j > i => s[j] \notin R)
  BY <1>2, <1>3, <1>4, <1>6
<1>8. Ends(t, R, V, x) <=> Ends(s, R, V, x)
  BY <1>5, <1>7 DEF Ends
<1> QED BY <1>8 DEF t

\* One that counts has the last word.
LEMMA EndsWith ==
  ASSUME NEW s, NEW R, NEW V, NEW x, QueueOf(s, R, V), NEW f \in Frames, f \in R
  PROVE  Ends(Append(s, f), R, V, x) <=> f \in V
<1> DEFINE t == Append(s, f)
<1>1. /\ s \in Seq(Frames) /\ V \subseteq R /\ Len(s) \in Nat
      /\ Len(t) = Len(s) + 1 /\ t[Len(s) + 1] = f
  BY DEF QueueOf
<1> HIDE DEF t
<1>2. Len(t) \in 1..Len(t) /\ t[Len(t)] = f
  BY <1>1
<1>3. ASSUME f \in V PROVE Ends(t, R, V, x)
  <2>1. \A j \in 1..Len(t) : ~(j > Len(t))
    BY <1>1
  <2> QED BY <1>2, <1>3, <2>1 DEF Ends
<1>4. ASSUME f \notin V PROVE ~Ends(t, R, V, x)
  <2>1. ASSUME NEW i \in 1..Len(t), t[i] \in V PROVE \E j \in 1..Len(t) : j > i /\ t[j] \in R
    <3>1. i # Len(t)
      BY <1>2, <1>4, <2>1
    <3>2. Len(t) > i
      BY <1>1, <3>1
    <3> QED BY <1>2, <3>2
  <2> QED BY <1>2, <2>1 DEF Ends
<1>5. Ends(t, R, V, x) <=> f \in V
  BY <1>3, <1>4
<1> QED BY <1>5 DEF t

\* A frame that is read leaves its mark on x.
LEMMA EndsOfTail ==
  ASSUME NEW s, NEW R, NEW V, NEW x, QueueOf(s, R, V), s # <<>>
  PROVE  Ends(s, R, V, x) <=> Ends(Tail(s), R, V, IF Head(s) \in R THEN Head(s) \in V ELSE x)
<1> DEFINE t == Tail(s)
           y == IF Head(s) \in R THEN Head(s) \in V ELSE x
<1>1. /\ s \in Seq(Frames) /\ V \subseteq R /\ Len(s) \in Nat \ {0}
      /\ Len(t) = Len(s) - 1 /\ Head(s) = s[1]
      /\ \A i \in 1..Len(t) : t[i] = s[i + 1]
  BY DEF QueueOf
<1> HIDE DEF t
<1>2. \A i \in 1..Len(t) : i + 1 \in 1..Len(s) /\ i + 1 > 1
  BY <1>1
<1>3. \A i \in 1..Len(s) : i = 1 \/ (i - 1 \in 1..Len(t) /\ t[i - 1] = s[i])
  BY <1>1
<1>4. (\A i \in 1..Len(t) : t[i] \notin R) <=> (\A i \in 1..Len(s) : i > 1 => s[i] \notin R)
  BY <1>1, <1>2, <1>3
<1>5. (\A i \in 1..Len(s) : s[i] \notin R) <=> (s[1] \notin R /\ \A i \in 1..Len(t) : t[i] \notin R)
  <2>1. 1 \in 1..Len(s)
    BY <1>1
  <2>2. \A i \in 1..Len(s) : i = 1 \/ i > 1
    BY <1>1
  <2> QED BY <1>4, <2>1, <2>2
<1>6. ASSUME NEW i \in 1..Len(t)
      PROVE  (t[i] \in V /\ \A j \in 1..Len(t) : j > i => t[j] \notin R)
             <=> (s[i + 1] \in V /\ \A j \in 1..Len(s) : j > i + 1 => s[j] \notin R)
  <2>1. ASSUME \A j \in 1..Len(t) : j > i => t[j] \notin R, NEW j \in 1..Len(s), j > i + 1
        PROVE  s[j] \notin R
    <3>1. j - 1 \in 1..Len(t) /\ j - 1 > i /\ t[j - 1] = s[j]
      BY <1>1, <1>3, <2>1
    <3> QED BY <2>1, <3>1
  <2>2. ASSUME \A j \in 1..Len(s) : j > i + 1 => s[j] \notin R, NEW j \in 1..Len(t), j > i
        PROVE  t[j] \notin R
    <3>1. j + 1 \in 1..Len(s) /\ j + 1 > i + 1 /\ t[j] = s[j + 1]
      BY <1>1, <1>2, <2>2
    <3> QED BY <2>2, <3>1
  <2> QED BY <1>1, <2>1, <2>2
<1>7. (\E i \in 1..Len(s) : s[i] \in V /\ \A j \in 1..Len(s) : j > i => s[j] \notin R)
      <=> \/ \E i \in 1..Len(t) : t[i] \in V /\ \A j \in 1..Len(t) : j > i => t[j] \notin R
          \/ s[1] \in V /\ \A i \in 1..Len(t) : t[i] \notin R
  <2>1. ASSUME NEW i \in 1..Len(s), s[i] \in V, \A j \in 1..Len(s) : j > i => s[j] \notin R, i # 1
        PROVE  \E k \in 1..Len(t) : t[k] \in V /\ \A j \in 1..Len(t) : j > k => t[j] \notin R
    <3>1. i - 1 \in 1..Len(t) /\ (i - 1) + 1 = i
      BY <1>3, <2>1
    <3> QED BY <1>6, <2>1, <3>1
  <2>2. ASSUME NEW i \in 1..Len(t), t[i] \in V, \A j \in 1..Len(t) : j > i => t[j] \notin R
        PROVE  \E k \in 1..Len(s) : s[k] \in V /\ \A j \in 1..Len(s) : j > k => s[j] \notin R
    BY <1>2, <1>6, <2>2
  <2>3. 1 \in 1..Len(s)
    BY <1>1
  <2> QED BY <1>4, <2>1, <2>2, <2>3
<1>8. Ends(s, R, V, x) <=> Ends(t, R, V, y)
  BY <1>1, <1>5, <1>7 DEF Ends
<1> QED BY <1>8 DEF t

\* A head that goes to the tail changes nothing, unless it and another count.
LEMMA EndsOfRotation ==
  ASSUME NEW s, NEW R, NEW V, NEW x, QueueOf(s, R, V), s # <<>>,
         Head(s) \notin R \/ \A i \in 2..Len(s) : s[i] \notin R
  PROVE  Ends(Append(Tail(s), Head(s)), R, V, x) <=> Ends(s, R, V, x)
<1>1. /\ s \in Seq(Frames) /\ V \subseteq R /\ Head(s) \in Frames /\ Tail(s) \in Seq(Frames)
      /\ QueueOf(Tail(s), R, V)
  BY DEF QueueOf
<1>2. CASE Head(s) \notin R
  BY <1>1, <1>2, EndsSkips, EndsOfTail
<1>3. CASE Head(s) \in R /\ \A i \in 2..Len(s) : s[i] \notin R
  <2>1. \A i \in 1..Len(Tail(s)) : Tail(s)[i] \notin R
    <3>1. \A i \in 1..Len(Tail(s)) : i + 1 \in 2..Len(s) /\ Tail(s)[i] = s[i + 1]
      BY <1>1
    <3> QED BY <1>3, <3>1
  <2>2. Ends(Tail(s), R, V, Head(s) \in V) <=> Head(s) \in V
    BY <1>1, <2>1 DEF Ends
  <2>3. Ends(s, R, V, x) <=> Ends(Tail(s), R, V, Head(s) \in V)
    BY <1>3, EndsOfTail
  <2>4. Ends(Append(Tail(s), Head(s)), R, V, x) <=> Head(s) \in V
    BY <1>1, <1>3, EndsWith
  <2> QED BY <2>2, <2>3, <2>4
<1> QED BY <1>2, <1>3

-----------------------------------------------------------------------------
(* What a client will see *)

\* Frames that count for the roster count for the flag.
LEMMA Counting ==
  ASSUME NEW b \in Peers, NEW s \in Seq(Frames)
  PROVE  QueueOf(s, Placing(b), Placed(b)) /\ QueueOf(s, Concerning(b), Quieting(b))
BY DEF QueueOf, Placing, Placed, Quieting

\* A queued frame that does not concern b.
LEMMA SightSkips ==
  ASSUME NEW s \in Seq(Frames), NEW r, NEW b \in Peers, NEW f \in Frames, ~Concerns(f, b)
  PROVE  Sight(Append(s, f), r, b) = Sight(s, r, b)
<1>1. f \notin Placing(b) /\ f \notin Concerning(b)
  BY DEF Placing, Concerning
<1> QED BY <1>1, Counting, EndsSkips DEF Sight

\* One that says where b is.
LEMMA SightWith ==
  ASSUME NEW s \in Seq(Frames), NEW r, NEW b \in Peers, NEW f \in Placing(b)
  PROVE  Sight(Append(s, f), r, b) =
           IF b \notin f.who \/ f.kind = "peer_left" THEN "absent"
           ELSE IF b \in f.quiet THEN "muted" ELSE "heard"
<1>1. f \in Frames /\ f \in Concerning(b)
  BY DEF Placing, Concerning
<1>2. f \in Placed(b) <=> b \in f.who /\ f.kind # "peer_left"
  BY DEF Placed
<1>3. f \in Quieting(b) <=> b \in f.quiet /\ f.kind # "peer_left"
  BY <1>1 DEF Quieting
<1>4. Ends(Append(s, f), Placing(b), Placed(b), b \in r.who) <=> f \in Placed(b)
  BY <1>1, Counting, EndsWith
<1>5. Ends(Append(s, f), Concerning(b), Quieting(b), b \in r.quiet) <=> f \in Quieting(b)
  BY <1>1, Counting, EndsWith
<1> QED BY <1>2, <1>3, <1>4, <1>5 DEF Sight

\* One that says whether b is muted.
LEMMA SightWithFlag ==
  ASSUME NEW s \in Seq(Frames), NEW r, NEW b \in Peers, NEW f \in Frames,
         f.kind = "peer_mute_changed", b \in f.who
  PROVE  Sight(Append(s, f), r, b) =
           IF Sight(s, r, b) = "absent" THEN "absent"
           ELSE IF b \in f.quiet THEN "muted" ELSE "heard"
<1>1. f \notin Placing(b) /\ f \in Concerning(b) /\ (f \in Quieting(b) <=> b \in f.quiet)
  BY DEF Placing, Concerning, Concerns, Quieting
<1>2. Ends(Append(s, f), Placing(b), Placed(b), b \in r.who)
      <=> Ends(s, Placing(b), Placed(b), b \in r.who)
  BY <1>1, Counting, EndsSkips
<1>3. Ends(Append(s, f), Concerning(b), Quieting(b), b \in r.quiet) <=> f \in Quieting(b)
  BY <1>1, Counting, EndsWith
<1> QED BY <1>1, <1>2, <1>3 DEF Sight

\* An empty queue leaves the roster as it is.
LEMMA SightOfNone ==
  ASSUME NEW r, NEW b PROVE Sight(<<>>, r, b) = Shows(r, b)
BY DEF Sight, Ends, Shows

\* Reading a frame changes nothing of what the client is going to see.
LEMMA SightOfTail ==
  ASSUME NEW s \in Seq(Frames), s # <<>>, NEW r \in Rosters, NEW b \in Peers
  PROVE  Sight(Tail(s), Applied(r, Head(s)), b) = Sight(s, r, b)
<1> DEFINE f == Head(s)
           t == Tail(s)
           n == Applied(r, f)
<1>1. f \in Frames /\ t \in Seq(Frames)
  OBVIOUS
<1> HIDE DEF f, t
<1>2. b \in n.who <=> IF f \in Placing(b) THEN f \in Placed(b) ELSE b \in r.who
  BY <1>1 DEF Applied, Placing, Placed, Concerning, Concerns, Frames, Kinds, Rosters
<1>3. b \in n.who =>
        (b \in n.quiet <=> IF f \in Concerning(b) THEN f \in Quieting(b) ELSE b \in r.quiet)
  BY <1>1 DEF Applied, Quieting, Concerning, Concerns, Frames, Kinds, Rosters
<1>4. Ends(s, Placing(b), Placed(b), b \in r.who) <=> Ends(t, Placing(b), Placed(b), b \in n.who)
  BY <1>2, Counting, EndsOfTail DEF f, t
<1>5. Ends(s, Concerning(b), Quieting(b), b \in r.quiet)
      <=> Ends(t, Concerning(b), Quieting(b),
               IF f \in Concerning(b) THEN f \in Quieting(b) ELSE b \in r.quiet)
  BY Counting, EndsOfTail DEF f, t
<1>6. ASSUME Ends(t, Placing(b), Placed(b), b \in n.who)
      PROVE  Ends(s, Concerning(b), Quieting(b), b \in r.quiet)
             <=> Ends(t, Concerning(b), Quieting(b), b \in n.quiet)
  <2>1. CASE b \in n.who
    BY <1>3, <1>5, <2>1
  <2>2. CASE b \notin n.who
    <3>1. PICK i \in 1..Len(t) : t[i] \in Placed(b)
      BY <1>6, <2>2 DEF Ends
    <3>2. t[i] \in Concerning(b)
      BY <3>1 DEF Placed, Placing
    <3> QED BY <1>5, <3>2 DEF Ends
  <2> QED BY <2>1, <2>2
<1>7. Sight(t, n, b) = Sight(s, r, b)
  BY <1>4, <1>6 DEF Sight
<1> QED BY <1>7 DEF f, t

\* Nor does a frame that changes places with others, if they do not concern b.
LEMMA SightOfRotation ==
  ASSUME NEW s \in Seq(Frames), s # <<>>, NEW r, NEW b \in Peers,
         ~Concerns(Head(s), b) \/ \A i \in 2..Len(s) : ~Concerns(s[i], b)
  PROVE  Sight(Append(Tail(s), Head(s)), r, b) = Sight(s, r, b)
<1>1. Head(s) \notin Concerning(b) \/ \A i \in 2..Len(s) : s[i] \notin Concerning(b)
  BY DEF Concerning
<1>2. Head(s) \notin Placing(b) \/ \A i \in 2..Len(s) : s[i] \notin Placing(b)
  BY <1>1 DEF Placing
<1>3. Ends(Append(Tail(s), Head(s)), Placing(b), Placed(b), b \in r.who)
      <=> Ends(s, Placing(b), Placed(b), b \in r.who)
  BY <1>2, Counting, EndsOfRotation
<1>4. Ends(Append(Tail(s), Head(s)), Concerning(b), Quieting(b), b \in r.quiet)
      <=> Ends(s, Concerning(b), Quieting(b), b \in r.quiet)
  BY <1>1, Counting, EndsOfRotation
<1> QED BY <1>3, <1>4 DEF Sight

-----------------------------------------------------------------------------
(* Types and handlers *)

LEMMA InitIInv == Init => IInv
<1> SUFFICES ASSUME Init PROVE IInv
  OBVIOUS
<1>1. NoFrame \in Frames /\ Nobody \in Rosters
  BY DEF NoFrame, Nobody, Frames, Kinds, Rosters
<1>2. TypeOK
  BY <1>1 DEF Init, TypeOK, Steps
<1>3. \A p \in Peers : HandlerInv(p)
  BY DEF Init, HandlerInv
<1>4. \A q \in Clients, b \in Peers : PairInv(q, b) /\ NamedInv(q, b)
  BY RosterAssumption DEF Init, PairInv, NamedInv
<1> QED BY <1>2, <1>3, <1>4 DEF IInv

\* The frames the handlers encode.
LEMMA FrameTypes ==
  ASSUME TypeOK, NEW p \in Peers
  PROVE  /\ \A r \in Rooms : SnapshotOf(p, r) \in Frames
         /\ \A m \in BOOLEAN : [kind |-> "peer_mute_changed", who |-> {p},
                               quiet |-> IF m THEN {p} ELSE {}] \in Frames
         /\ [kind |-> "peer_joined", who |-> {p}, quiet |-> Quiet({p})] \in Frames
         /\ [kind |-> "peer_left", who |-> {p}, quiet |-> {}] \in Frames
         /\ RoomLeft \in Frames /\ NoFrame \in Frames
BY DEF TypeOK, SnapshotOf, Quiet, Frames, Kinds, RoomLeft, NoFrame

\* The state of a connection keeps its types.
LEMMA ConnectionTypes ==
  ASSUME TypeOK, NEW q \in Peers, NEW f \in Frames,
         Queued(q, f) \/ Close(q) \/ Refused(q) \/ UNCHANGED connection
  PROVE  /\ closed' \in [Peers -> BOOLEAN]
         /\ box' \in [Peers -> Seq(Frames)]
         /\ view' \in [Peers -> Rosters]
<1> USE DEF TypeOK
<1>1. CASE Queued(q, f)
  <2>1. Append(box[q], f) \in Seq(Frames)
    OBVIOUS
  <2> QED BY <1>1, <2>1 DEF Queued
<1>2. CASE Close(q)
  <2>1. Nobody \in Rosters /\ <<>> \in Seq(Frames)
    BY DEF Nobody, Rosters
  <2> QED BY <1>2, <2>1 DEF Close
<1>3. CASE UNCHANGED connection
  BY <1>3 DEF connection
<1> QED BY <1>1, <1>2, <1>3 DEF Refused

\* The state of a handler keeps its types.
LEMMA BeginTypes ==
  ASSUME TypeOK, NEW p \in Peers, NEW s \in Steps, NEW f \in Frames,
         NEW r \in Rooms \cup {NoRoom}, Begin(p, s, f, r)
  PROVE  /\ step' \in [Peers -> Steps]
         /\ out' \in [Peers -> Frames]
         /\ about' \in [Peers -> Rooms \cup {NoRoom}]
         /\ to' \in [Peers -> SUBSET Peers]
BY DEF TypeOK, Begin

LEMMA TypePreserved == TypeOK /\ [Next]_vars => TypeOK'
<1> SUFFICES ASSUME TypeOK, [Next]_vars PROVE TypeOK'
  OBVIOUS
<1> USE DEF TypeOK
<1>0. {"idle", "reply", "list", "send", "gone"} = Steps
  BY DEF Steps
<1>1. ASSUME NEW p \in Peers, NEW r \in Rooms, Join(p, r) PROVE TypeOK'
  <2>1. Begin(p, "reply", SnapshotOf(p, r), r) /\ SnapshotOf(p, r) \in Frames
    BY <1>1, FrameTypes DEF Join
  <2> QED BY <1>0, <1>1, <2>1, BeginTypes DEF Join, connection, history
<1>2. ASSUME NEW p \in Peers, Withdraw(p) PROVE TypeOK'
  <2> DEFINE f == [kind |-> "peer_left", who |-> {p}, quiet |-> {}]
  <2>1. Begin(p, "list", f, room[p]) /\ f \in Frames
    BY <1>2, FrameTypes DEF Withdraw
  <2> HIDE DEF f
  <2> QED BY <1>0, <1>2, <2>1, BeginTypes DEF Withdraw, connection
<1>3. ASSUME NEW p \in Peers, NEW m \in BOOLEAN, Mute(p, m) PROVE TypeOK'
  <2> DEFINE f == [kind |-> "peer_mute_changed", who |-> {p}, quiet |-> IF m THEN {p} ELSE {}]
  <2>1. f \in Frames
    BY FrameTypes
  <2>2. UNCHANGED handler \/ Begin(p, "list", f, room[p])
    BY <1>3 DEF Mute
  <2> HIDE DEF f
  <2>3. /\ step' \in [Peers -> Steps] /\ out' \in [Peers -> Frames]
        /\ about' \in [Peers -> Rooms \cup {NoRoom}] /\ to' \in [Peers -> SUBSET Peers]
    BY <1>0, <2>1, <2>2, BeginTypes DEF handler
  <2> QED BY <1>3, <2>3 DEF Mute, connection, history
<1>4. ASSUME NEW p \in Peers, Reply(p) PROVE TypeOK'
  <2> DEFINE f == [kind |-> "peer_joined", who |-> {p}, quiet |-> Quiet({p})]
  <2>1. Begin(p, "list", f, about[p]) /\ f \in Frames
    BY <1>4, FrameTypes DEF Reply
  <2> HIDE DEF f
  <2>2. out[p] \in Frames /\ (Queued(p, out[p]) \/ Refused(p))
    BY <1>4 DEF Reply
  <2>3. named' \in [Peers -> SUBSET Peers]
    <3>1. out[p].who \in SUBSET Peers
      BY <2>2 DEF Frames
    <3>2. named' = named \/ named' = [named EXCEPT ![p] = named[p] \cup out[p].who]
      BY <1>4 DEF Reply
    <3>3. named[p] \cup out[p].who \in SUBSET Peers
      BY <3>1
    <3> QED BY <3>2, <3>3
  <2> QED BY <1>0, <1>4, <2>1, <2>2, <2>3, BeginTypes, ConnectionTypes DEF Reply
<1>5. ASSUME NEW p \in Peers, List(p) PROVE TypeOK'
  BY <1>5, <1>0 DEF List, Listed, connection, history
<1>6. ASSUME NEW p \in Peers, NEW q \in Peers, Tell(p, q) PROVE TypeOK'
  <2>1. out[p] \in Frames /\ (Queued(q, out[p]) \/ Refused(q))
    BY <1>6 DEF Tell
  <2>2. DoubtAfter(p, q) \in SUBSET Peers /\ NamedAfter(p, q) \in SUBSET Peers
    BY DEF DoubtAfter, NamedAfter
  <2>3. doubt' \in [Peers -> SUBSET Peers] /\ named' \in [Peers -> SUBSET Peers]
    BY <1>6, <2>2 DEF Tell, history
  <2> QED BY <1>6, <2>1, <2>3, ConnectionTypes DEF Tell
<1>7. ASSUME NEW p \in Peers, Return(p) PROVE TypeOK'
  <2>1. Begin(p, "idle", NoFrame, NoRoom) /\ NoFrame \in Frames /\ RoomLeft \in Frames
    BY <1>7, FrameTypes DEF Return
  <2>2. Queued(p, RoomLeft) \/ Refused(p) \/ UNCHANGED connection
    BY <1>7 DEF Return
  <2> QED BY <1>0, <1>7, <2>1, <2>2, BeginTypes, ConnectionTypes DEF Return, history
<1>8. ASSUME NEW p \in Peers, Fail(p) PROVE TypeOK'
  <2>1. NoFrame \in Frames
    BY FrameTypes
  <2> QED BY <1>8, <2>1, ConnectionTypes DEF Fail, handler, history
<1>9. ASSUME NEW p \in Peers, HangUp(p) PROVE TypeOK'
  BY <1>9, <1>0 DEF HangUp, connection, history
<1>10. ASSUME NEW p \in Peers, Receive(p) PROVE TypeOK'
  <2>1. box[p] # <<>> /\ Head(box[p]) \in Frames /\ Tail(box[p]) \in Seq(Frames)
    BY <1>10 DEF Receive
  <2>2. Applied(view[p], Head(box[p])) \in Rosters
    BY <2>1 DEF Applied, Rosters, Frames
  <2> QED BY <1>10, <2>1, <2>2 DEF Receive, handler, history
<1>11. ASSUME NEW p \in Peers, Rotate(p) PROVE TypeOK'
  <2>1. Head(box[p]) \in Frames /\ Append(Tail(box[p]), Head(box[p])) \in Seq(Frames)
    <3>1. box[p] # <<>> /\ box[p] \in Seq(Frames)
      BY <1>11 DEF Rotate
    <3> QED BY <3>1
  <2>2. doubt' \in [Peers -> SUBSET Peers]
    BY <1>11 DEF Rotate, Overtaken
  <2> QED BY <1>11, <2>1, <2>2 DEF Rotate, handler
<1>12. CASE UNCHANGED vars
  BY <1>12 DEF vars, handler, connection, history
<1> QED
  BY <1>1, <1>2, <1>3, <1>4, <1>5, <1>6, <1>7, <1>8, <1>9, <1>10, <1>11, <1>12
     DEF Next, Request, Continue, CleanUp, Leave, Disconnect

\* Each handler keeps to its own order of steps.
LEMMA HandlersPreserved ==
  IInv /\ [Next]_vars => \A p \in Peers : HandlerInv(p)'
<1> SUFFICES ASSUME IInv, [Next]_vars PROVE \A p \in Peers : HandlerInv(p)'
  OBVIOUS
<1> USE DEF IInv, TypeOK, HandlerInv
<1>1. ASSUME NEW p \in Peers, NEW r \in Rooms, Join(p, r) PROVE \A b \in Peers : HandlerInv(b)'
  BY <1>1 DEF Join, Reads, Begin, SnapshotOf
<1>2. ASSUME NEW p \in Peers, Withdraw(p), step[p] = "idle" PROVE \A b \in Peers : HandlerInv(b)'
  BY <1>2 DEF Withdraw, Begin
<1>3. ASSUME NEW p \in Peers, NEW m \in BOOLEAN, Mute(p, m) PROVE \A b \in Peers : HandlerInv(b)'
  <2>1. CASE room[p] = NoRoom
    <3>1. handler' = handler /\ room' = room /\ muted' = [muted EXCEPT ![p] = m] /\ step[p] = "idle"
      BY <1>3, <2>1 DEF Mute, Reads
    <3> QED BY <3>1 DEF handler
  <2>2. CASE room[p] # NoRoom
    <3> DEFINE f == [kind |-> "peer_mute_changed", who |-> {p}, quiet |-> IF m THEN {p} ELSE {}]
    <3>1. /\ room' = room /\ muted' = [muted EXCEPT ![p] = m] /\ step[p] = "idle"
          /\ Begin(p, "list", f, room[p])
      BY <1>3, <2>2 DEF Mute, Reads
    <3>2. f.kind = "peer_mute_changed" /\ f.who = {p} /\ f.quiet = IF m THEN {p} ELSE {}
      OBVIOUS
    <3> HIDE DEF f
    <3> QED BY <2>2, <3>1, <3>2 DEF Begin
  <2> QED BY <2>1, <2>2
<1>4. ASSUME NEW p \in Peers, Reply(p) PROVE \A b \in Peers : HandlerInv(b)'
  <2>1. Quiet({p}) = IF muted[p] THEN {p} ELSE {}
    BY DEF Quiet
  <2> QED BY <1>4, <2>1 DEF Reply, Begin
<1>5. ASSUME NEW p \in Peers, List(p) PROVE \A b \in Peers : HandlerInv(b)'
  BY <1>5 DEF List, Listed
<1>6. ASSUME NEW p \in Peers, NEW q \in Peers, Tell(p, q) PROVE \A b \in Peers : HandlerInv(b)'
  BY <1>6 DEF Tell
<1>7. ASSUME NEW p \in Peers, Return(p) PROVE \A b \in Peers : HandlerInv(b)'
  BY <1>7 DEF Return, Begin
<1>8. ASSUME NEW p \in Peers, Fail(p) \/ HangUp(p) \/ Receive(p) \/ Rotate(p)
      PROVE  \A b \in Peers : HandlerInv(b)'
  BY <1>8 DEF Fail, HangUp, Receive, Rotate, handler
<1>9. CASE UNCHANGED vars
  BY <1>9 DEF vars, handler
<1> QED
  BY <1>1, <1>2, <1>3, <1>4, <1>5, <1>6, <1>7, <1>8, <1>9
     DEF Next, Request, Continue, CleanUp, Leave, Disconnect, Reads

-----------------------------------------------------------------------------
(* The pairs *)

Both(q, b) == PairInv(q, b) /\ NamedInv(q, b)

\* Of a closed connection nothing is claimed.
LEMMA ClosedIsOut ==
  ASSUME NEW q \in Peers, NEW b \in Peers, closed'[q]
  PROVE  Both(q, b)'
BY DEF Both, PairInv, NamedInv

\* What becomes of the connection of c is nothing to the others.
LEMMA OtherConnections ==
  ASSUME TypeOK, NEW c \in Peers, NEW f \in Frames, Queued(c, f) \/ Refused(c)
  PROVE  /\ \A q \in Peers \ {c} : box'[q] = box[q] /\ view'[q] = view[q] /\ closed'[q] = closed[q]
         /\ Refused(c) => closed'[c]
BY DEF TypeOK, Queued, Refused, Close, connection

\* What q is going to see depends on its connection, and on whether it awaits its
\* room_joined.
LEMMA DueUntouched ==
  ASSUME NEW q \in Peers, NEW b \in Peers, box'[q] = box[q], view'[q] = view[q],
         \/ step'[q] = step[q] /\ out'[q] = out[q]
         \/ step[q] # "reply" /\ step'[q] # "reply"
  PROVE  Due(q, b)' = Due(q, b)
BY DEF Due, Sight, Shows, Ends, Placing, Placed, Quieting, Concerning, Concerns

\* A step that touches neither what q will see of b, nor where they are, nor the
\* handler of b keeps the pair.
LEMMA PairUntouched ==
  ASSUME NEW q \in Peers, NEW b \in Peers, Both(q, b),
         room'[q] = room[q], room'[b] = room[b], muted'[b] = muted[b],
         closed[q] => closed'[q],
         Due(q, b)' = Due(q, b),
         Coming(q, b) => Coming(q, b)' /\ out'[b].kind = out[b].kind,
         b \in doubt[q] => b \in doubt'[q],
         b \in named[q] => b \in named'[q],
         step[q] = "reply" /\ b \in out[q].who =>
           b \in named'[q] \/ (step'[q] = "reply" /\ b \in out'[q].who)
  PROVE  Both(q, b)'
<1>1. Actual(q, b)' = Actual(q, b)
  BY DEF Actual
<1>2. PairInv(q, b)'
  BY <1>1 DEF Both, PairInv
<1>3. NamedInv(q, b)'
  BY DEF Both, NamedInv
<1> QED BY <1>2, <1>3 DEF Both

\* Room.Add takes the snapshot in the step that inserts the joiner: its room_joined
\* has what there is, and who is there already will hear of it.
LEMMA JoinKeepsPairs ==
  ASSUME IInv, NEW p \in Peers, NEW r \in Rooms, Join(p, r), NEW q \in Clients, NEW b \in Peers
  PROVE  Both(q, b)'
<1> USE DEF IInv, TypeOK
<1>0. q \in Peers /\ Both(q, b) /\ HandlerInv(b) /\ r # NoRoom
  BY RosterAssumption DEF Both
<1>1. /\ room' = [room EXCEPT ![p] = r] /\ muted' = muted /\ closed' = closed
      /\ box' = box /\ view' = view /\ doubt' = doubt /\ named' = named
      /\ step' = [step EXCEPT ![p] = "reply"] /\ out' = [out EXCEPT ![p] = SnapshotOf(p, r)]
      /\ about' = [about EXCEPT ![p] = r] /\ to' = to
      /\ room[p] = NoRoom /\ step[p] = "idle" /\ ~closed[p]
  BY DEF Join, Reads, Begin, connection, history
<1>2. CASE q = p /\ b # p
  <2>1. Due(p, b)' = Shows(SnapshotOf(p, r), b)
    BY <1>1 DEF Due, Shows
  <2>2. Shows(SnapshotOf(p, r), b) = Actual(p, b)'
    BY <1>1, <1>2 DEF SnapshotOf, Quiet, Shows, Actual
  <2>3. room'[b] = room'[p] => b \in out'[p].who
    BY <1>1, <1>2 DEF SnapshotOf
  <2> QED BY <1>1, <1>2, <2>1, <2>2, <2>3 DEF Both, PairInv, NamedInv
<1>3. CASE q # p /\ b = p
  <2>1. ~Coming(q, p)
    BY <1>0, <1>1, <1>3 DEF Coming, Expects, HandlerInv
  <2>2. Due(q, p)' = Due(q, p)
    BY <1>0, <1>1, <1>3, DueUntouched
  <2>3. room[q] # NoRoom /\ ~closed[q] /\ p \notin doubt[q] => Due(q, p) = "absent"
    BY <1>0, <1>1, <1>3, <2>1 DEF Both, PairInv, Actual
  <2>4. room[q] = r => Coming(q, p)' /\ out'[p].kind = "room_joined"
    BY <1>0, <1>1, <1>3 DEF Coming, Expects, SnapshotOf
  <2>5. room[q] # r => Actual(q, p)' = "absent"
    BY <1>0, <1>1, <1>3 DEF Actual
  <2> QED BY <1>0, <1>1, <1>3, <2>2, <2>3, <2>4, <2>5 DEF Both, PairInv, NamedInv
<1>4. CASE q # p /\ b # p
  <2>1. Due(q, b)' = Due(q, b)
    BY <1>0, <1>1, <1>4, DueUntouched
  <2>2. Coming(q, b) => Coming(q, b)'
    BY <1>0, <1>1, <1>4 DEF Coming, Expects
  <2> QED BY <1>0, <1>1, <1>4, <2>1, <2>2, PairUntouched
<1>5. CASE q = b
  BY <1>5 DEF Both, PairInv, NamedInv
<1> QED BY <1>2, <1>3, <1>4, <1>5

\* Who is still in the room when the leaver is out of it will hear of it.
LEMMA WithdrawKeepsPairs ==
  ASSUME IInv, NEW p \in Peers, Withdraw(p), step[p] = "idle", NEW q \in Clients, NEW b \in Peers
  PROVE  Both(q, b)'
<1> USE DEF IInv, TypeOK
<1>0. q \in Peers /\ Both(q, b) /\ HandlerInv(b)
  BY RosterAssumption DEF Both
<1> DEFINE f == [kind |-> "peer_left", who |-> {p}, quiet |-> {}]
<1>1. /\ room' = [room EXCEPT ![p] = NoRoom] /\ muted' = muted /\ closed' = closed
      /\ box' = box /\ view' = view
      /\ doubt' = [doubt EXCEPT ![p] = {}] /\ named' = [named EXCEPT ![p] = {}]
      /\ step' = [step EXCEPT ![p] = "list"] /\ out' = [out EXCEPT ![p] = f]
      /\ about' = [about EXCEPT ![p] = room[p]] /\ to' = to /\ room[p] # NoRoom
  BY DEF Withdraw, Begin, connection
<1>2. CASE q = p
  BY <1>1, <1>2 DEF Both, PairInv, NamedInv
<1>3. CASE q # p /\ b = p
  <2>1. ~Coming(q, p)
    BY <1>0, <1>3 DEF Coming, Expects, HandlerInv
  <2>2. Due(q, p)' = Due(q, p)
    BY <1>0, <1>1, <1>3, DueUntouched
  <2>3. room[q] # NoRoom /\ ~closed[q] /\ p \notin doubt[q] => Due(q, p) = Actual(q, p)
    BY <1>0, <1>3, <2>1 DEF Both, PairInv
  <2>4. room[q] = room[p] => Coming(q, p)' /\ out'[p].kind = "peer_left"
    BY <1>0, <1>1, <1>3 DEF Coming, Expects
  <2>5. room[q] # NoRoom => Actual(q, p)' = "absent"
    BY <1>0, <1>1, <1>3 DEF Actual
  <2>6. room[q] # room[p] => Actual(q, p) = "absent"
    BY DEF Actual
  <2> QED BY <1>0, <1>1, <1>3, <2>2, <2>3, <2>4, <2>5, <2>6 DEF Both, PairInv, NamedInv
<1>4. CASE q # p /\ b # p
  <2>1. Due(q, b)' = Due(q, b)
    BY <1>0, <1>1, <1>4, DueUntouched
  <2>2. Coming(q, b) => Coming(q, b)'
    BY <1>0, <1>1, <1>4 DEF Coming, Expects
  <2> QED BY <1>0, <1>1, <1>4, <2>1, <2>2, PairUntouched
<1> QED BY <1>2, <1>3, <1>4

\* The flag changes for all at once, and all in the room will hear of it.
LEMMA MuteKeepsPairs ==
  ASSUME IInv, NEW p \in Peers, NEW m \in BOOLEAN, Mute(p, m), NEW q \in Clients, NEW b \in Peers
  PROVE  Both(q, b)'
<1> USE DEF IInv, TypeOK
<1>0. q \in Peers /\ Both(q, b) /\ HandlerInv(b)
  BY RosterAssumption DEF Both
<1> DEFINE f == [kind |-> "peer_mute_changed", who |-> {p}, quiet |-> IF m THEN {p} ELSE {}]
<1>1. /\ room' = room /\ muted' = [muted EXCEPT ![p] = m] /\ closed' = closed
      /\ box' = box /\ view' = view /\ doubt' = doubt /\ named' = named
      /\ to' = to /\ step[p] = "idle"
      /\ \/ room[p] = NoRoom /\ step' = step /\ out' = out /\ about' = about
         \/ /\ room[p] # NoRoom
            /\ step' = [step EXCEPT ![p] = "list"] /\ out' = [out EXCEPT ![p] = f]
            /\ about' = [about EXCEPT ![p] = room[p]]
  BY DEF Mute, Reads, Begin, connection, history, handler
<1>2. f.kind = "peer_mute_changed"
  OBVIOUS
<1> HIDE DEF f
<1>3. Due(q, b)' = Due(q, b)
  <2>1. \/ step'[q] = step[q] /\ out'[q] = out[q]
        \/ step[q] # "reply" /\ step'[q] # "reply"
    BY <1>0, <1>1
  <2> QED BY <1>0, <1>1, <2>1, DueUntouched
<1>4. CASE b = p /\ q # p
  <2>1. ~Coming(q, p)
    BY <1>0, <1>1, <1>4 DEF Coming, Expects, HandlerInv
  <2>2. room[q] # NoRoom /\ ~closed[q] /\ p \notin doubt[q] => Due(q, p) = Actual(q, p)
    BY <1>0, <1>4, <2>1 DEF Both, PairInv
  <2>3. step'[q] = step[q] /\ out'[q] = out[q]
    BY <1>0, <1>1, <1>4
  <2>4. NamedInv(q, p)'
    BY <1>0, <1>1, <1>4, <2>1, <2>3 DEF Both, NamedInv
  <2>5. CASE room[p] = room[q] /\ room[q] # NoRoom
    <3>1. Coming(q, p)' /\ out'[p].kind = "peer_mute_changed"
      BY <1>0, <1>1, <1>2, <1>4, <2>5 DEF Coming, Expects
    <3>2. Actual(q, p) # "absent"
      BY <2>5 DEF Actual
    <3> QED BY <1>1, <1>3, <1>4, <2>2, <2>4, <3>1, <3>2 DEF Both, PairInv
  <2>6. CASE room[p] # room[q] \/ room[q] = NoRoom
    <3>1. room[q] # NoRoom => Actual(q, p)' = Actual(q, p)
      BY <1>1, <2>6 DEF Actual
    <3> QED BY <1>1, <1>3, <1>4, <2>2, <2>4, <3>1 DEF Both, PairInv
  <2> QED BY <2>5, <2>6
<1>5. CASE b # p
  <2>1. Coming(q, b) => Coming(q, b)' /\ out'[b].kind = out[b].kind
    BY <1>0, <1>1, <1>5 DEF Coming, Expects
  <2>2. step[q] = "reply" => step'[q] = step[q] /\ out'[q] = out[q]
    BY <1>0, <1>1
  <2>3. muted'[b] = muted[b]
    BY <1>1, <1>5
  <2> QED BY <1>0, <1>1, <1>3, <2>1, <2>2, <2>3, PairUntouched
<1>6. CASE q = b
  BY <1>6 DEF Both, PairInv, NamedInv
<1> QED BY <1>4, <1>5, <1>6

\* room_joined is queued behind all there is, and has the last word.
LEMMA ReplyKeepsPairs ==
  ASSUME IInv, NEW p \in Peers, Reply(p), NEW q \in Clients, NEW b \in Peers
  PROVE  Both(q, b)'
<1> USE DEF IInv, TypeOK
<1>0. q \in Peers /\ Both(q, b) /\ HandlerInv(b) /\ HandlerInv(p) /\ out[p] \in Frames
  BY RosterAssumption DEF Both
<1> DEFINE f == [kind |-> "peer_joined", who |-> {p}, quiet |-> Quiet({p})]
<1>1. /\ room' = room /\ muted' = muted /\ doubt' = doubt /\ to' = to
      /\ step[p] = "reply" /\ out[p].kind = "room_joined" /\ room[p] = about[p] /\ about[p] \in Rooms
      /\ step' = [step EXCEPT ![p] = "list"] /\ out' = [out EXCEPT ![p] = f]
      /\ about' = [about EXCEPT ![p] = about[p]]
  BY <1>0 DEF Reply, Begin, HandlerInv
<1>2. \/ /\ Queued(p, out[p])
         /\ named' = IF p \in Clients THEN [named EXCEPT ![p] = named[p] \cup out[p].who] ELSE named
      \/ Refused(p) /\ named' = named
  BY DEF Reply
<1>3. f.kind = "peer_joined"
  OBVIOUS
<1> HIDE DEF f
<1>4. CASE q = p /\ Refused(p)
  BY <1>0, <1>4, OtherConnections, ClosedIsOut
<1>5. CASE q = p /\ b # p /\ Queued(p, out[p]) /\ named' = [named EXCEPT ![p] = named[p] \cup out[p].who]
  <2>1. box'[p] = Append(box[p], out[p]) /\ view'[p] = view[p] /\ closed' = closed
    BY <1>5 DEF Queued
  <2>2. out[p] \in Placing(b)
    BY <1>0, <1>1 DEF Placing, Concerning, Concerns
  <2>3. Sight(Append(box[p], out[p]), view[p], b) = Shows(out[p], b)
    <3>1. out[p].quiet \subseteq out[p].who
      BY <1>0 DEF Frames
    <3>2. Sight(Append(box[p], out[p]), view[p], b) =
            IF b \notin out[p].who \/ out[p].kind = "peer_left" THEN "absent"
            ELSE IF b \in out[p].quiet THEN "muted" ELSE "heard"
      <4>1. box[p] \in Seq(Frames)
        OBVIOUS
      <4> QED BY <2>2, <4>1, SightWith
    <3> QED BY <1>1, <3>1, <3>2 DEF Shows
  <2>4. Due(p, b)' = Due(p, b)
    <3>1. Due(p, b)' = Sight(box'[p], view'[p], b)
      BY <1>1 DEF Due, Sight, Ends, Placing, Placed, Quieting, Concerning, Concerns
    <3> QED BY <1>1, <2>1, <2>3, <3>1 DEF Due
  <2>5. Coming(p, b) => Coming(p, b)' /\ out'[b].kind = out[b].kind
    BY <1>0, <1>1, <1>5 DEF Coming, Expects
  <2>6. named'[p] = named[p] \cup out[p].who
    BY <1>5
  <2> QED BY <1>0, <1>1, <1>5, <2>1, <2>4, <2>5, <2>6, PairUntouched
<1>6. CASE q # p
  <2>1. box'[q] = box[q] /\ view'[q] = view[q] /\ closed'[q] = closed[q]
    BY <1>0, <1>2, <1>6, OtherConnections
  <2>2. step'[q] = step[q] /\ out'[q] = out[q] /\ named'[q] = named[q]
    BY <1>0, <1>1, <1>2, <1>6
  <2>3. Due(q, b)' = Due(q, b)
    BY <1>0, <2>1, <2>2, DueUntouched
  <2>4. CASE b # p
    <3>1. Coming(q, b) => Coming(q, b)' /\ out'[b].kind = out[b].kind
      BY <1>0, <1>1, <1>6, <2>4 DEF Coming, Expects
    <3> QED BY <1>0, <1>1, <2>1, <2>2, <2>3, <3>1, PairUntouched
  <2>5. CASE b = p
    <3>1. Coming(q, p) => Coming(q, p)'
      BY <1>0, <1>1, <1>6, <2>5 DEF Coming, Expects
    <3>2. out'[p].kind = "peer_joined"
      BY <1>0, <1>1, <1>3, <2>5
    <3>3. Actual(q, p)' = Actual(q, p)
      BY <1>1 DEF Actual
    <3> QED BY <1>0, <1>1, <1>6, <2>1, <2>2, <2>3, <2>5, <3>1, <3>2, <3>3 DEF Both, PairInv, NamedInv
  <2> QED BY <2>4, <2>5
<1>7. CASE q = b
  BY <1>7 DEF Both, PairInv, NamedInv
<1> QED BY <1>0, <1>2, <1>4, <1>5, <1>6, <1>7

\* Whoever is in the room when its members are listed is listed, and when the last
\* has been sent to nobody expects anything.
LEMMA ContinuingKeepsPairs ==
  ASSUME IInv, NEW p \in Peers, List(p) \/ Return(p) \/ Fail(p) \/ HangUp(p),
         NEW q \in Clients, NEW b \in Peers
  PROVE  Both(q, b)'
<1> USE DEF IInv, TypeOK
<1>0. q \in Peers /\ Both(q, b) /\ HandlerInv(b) /\ HandlerInv(p) /\ NoFrame \in Frames /\ RoomLeft \in Frames
  BY RosterAssumption, FrameTypes DEF Both
<1>1. room' = room /\ muted' = muted /\ doubt' = doubt /\ named' = named
  BY DEF List, Return, Fail, HangUp, history
<1>2. CASE b # q /\ List(p)
  <2>1. /\ step[p] = "list" /\ step' = [step EXCEPT ![p] = "send"]
        /\ to' = [to EXCEPT ![p] = Listed(p)] /\ out' = out /\ about' = about
        /\ closed' = closed /\ box' = box /\ view' = view
    BY <1>2 DEF List, connection
  <2>2. Due(q, b)' = Due(q, b)
    BY <1>0, <2>1, DueUntouched
  <2>3. Coming(q, b) => Coming(q, b)'
    <3>1. CASE b # p
      BY <1>0, <1>1, <2>1, <3>1 DEF Coming, Expects
    <3>2. CASE b = p
      <4>1. Coming(q, p) => q \in Listed(p)
        BY <1>0, <1>2, <3>2 DEF Coming, Listed
      <4> QED BY <1>1, <2>1, <3>2, <4>1 DEF Coming, Expects
    <3> QED BY <3>1, <3>2
  <2>4. step[q] = "reply" => step'[q] = "reply"
    BY <1>0, <2>1
  <2> QED BY <1>0, <1>1, <2>1, <2>2, <2>3, <2>4, PairUntouched
<1>3. CASE b # q /\ Return(p)
  <2>1. /\ step[p] = "send" /\ to[p] = {} /\ to' = to
        /\ step' = [step EXCEPT ![p] = "idle"] /\ out' = [out EXCEPT ![p] = NoFrame]
        /\ about' = [about EXCEPT ![p] = NoRoom]
    BY <1>3 DEF Return, Begin
  <2>2. CASE q = p /\ out[p].kind = "peer_left"
    BY <1>0, <1>1, <2>1, <2>2 DEF Both, PairInv, NamedInv, HandlerInv
  <2>3. CASE q # p \/ out[p].kind # "peer_left"
    <3>1. box'[q] = box[q] /\ view'[q] = view[q] /\ closed'[q] = closed[q]
      BY <1>0, <1>3, <2>3, OtherConnections DEF Return, connection
    <3>2. \/ step'[q] = step[q] /\ out'[q] = out[q]
          \/ step[q] # "reply" /\ step'[q] # "reply"
      BY <1>0, <2>1
    <3>3. Due(q, b)' = Due(q, b)
      BY <1>0, <3>1, <3>2, DueUntouched
    <3>4. Coming(q, b) => Coming(q, b)' /\ out'[b].kind = out[b].kind
      BY <1>0, <1>1, <2>1 DEF Coming, Expects
    <3> QED BY <1>0, <1>1, <3>1, <3>2, <3>3, <3>4, PairUntouched
  <2> QED BY <2>2, <2>3
<1>4. CASE Fail(p)
  <2>1. /\ closed' = [closed EXCEPT ![p] = TRUE] /\ box' = [box EXCEPT ![p] = <<>>]
        /\ view' = [view EXCEPT ![p] = Nobody]
        /\ step' = step /\ out' = out /\ about' = about /\ to' = to
    BY <1>4 DEF Fail, Close, handler
  <2>2. CASE q = p
    BY <1>0, <2>1, <2>2, ClosedIsOut
  <2>3. CASE q # p
    <3>1. Due(q, b)' = Due(q, b)
      BY <1>0, <2>1, <2>3, DueUntouched
    <3>2. Coming(q, b) => Coming(q, b)'
      BY <1>1, <2>1 DEF Coming, Expects
    <3> QED BY <1>0, <1>1, <2>1, <2>3, <3>1, <3>2, PairUntouched
  <2> QED BY <2>2, <2>3
<1>5. CASE HangUp(p)
  <2>1. /\ closed' = closed /\ box' = box /\ view' = view /\ step[p] = "idle"
        /\ step' = [step EXCEPT ![p] = "gone"] /\ out' = out /\ about' = about /\ to' = to
    BY <1>5 DEF HangUp, connection
  <2>2. \/ step'[q] = step[q] /\ out'[q] = out[q]
        \/ step[q] # "reply" /\ step'[q] # "reply"
    BY <1>0, <2>1
  <2>3. Due(q, b)' = Due(q, b)
    BY <1>0, <2>1, <2>2, DueUntouched
  <2>4. Coming(q, b) => Coming(q, b)'
    BY <1>0, <1>1, <2>1 DEF Coming, Expects
  <2> QED BY <1>0, <1>1, <2>1, <2>2, <2>3, <2>4, PairUntouched
<1>6. CASE q = b
  BY <1>6 DEF Both, PairInv, NamedInv
<1> QED BY <1>2, <1>3, <1>4, <1>5, <1>6

\* Reading changes nothing of what will have been read, and frames that change places
\* put those in doubt to whom it matters.
LEMMA QueueStepsKeepPairs ==
  ASSUME IInv, NEW c \in Peers, Receive(c) \/ Rotate(c), NEW q \in Clients, NEW b \in Peers
  PROVE  Both(q, b)'
<1> USE DEF IInv, TypeOK
<1>0. q \in Peers /\ Both(q, b)
  BY RosterAssumption DEF Both
<1>1. /\ room' = room /\ muted' = muted /\ closed' = closed /\ named' = named
      /\ step' = step /\ out' = out /\ about' = about /\ to' = to
  BY DEF Receive, Rotate, handler, history
<1>2. Coming(q, b) => Coming(q, b)'
  BY <1>1 DEF Coming, Expects
<1>3. SUFFICES ASSUME b # q, room[q] # NoRoom
               PROVE  (b \in doubt[q] => b \in doubt'[q]) /\ (b \notin doubt'[q] => Due(q, b)' = Due(q, b))
  <2>1. Actual(q, b)' = Actual(q, b)
    BY <1>1 DEF Actual
  <2>2. b # q /\ room[q] # NoRoom => PairInv(q, b)'
    BY <1>0, <1>1, <1>2, <1>3, <2>1 DEF Both, PairInv
  <2>3. NamedInv(q, b)'
    BY <1>0, <1>1, <1>2 DEF Both, NamedInv
  <2> QED BY <1>1, <2>2, <2>3 DEF Both, PairInv
<1>4. CASE q # c
  <2>1. box'[q] = box[q] /\ view'[q] = view[q] /\ doubt'[q] = doubt[q]
    BY <1>0, <1>4 DEF Receive, Rotate, history
  <2> QED BY <1>0, <1>1, <2>1, DueUntouched
<1>5. CASE step[q] = "reply"
  <2>1. Due(q, b)' = Due(q, b)
    BY <1>1, <1>5 DEF Due, Shows
  <2>2. b \in doubt[q] => b \in doubt'[q]
    <3>1. doubt' = doubt \/ doubt' = [doubt EXCEPT ![c] = doubt[c] \cup Overtaken(c)]
      BY DEF Receive, Rotate, history
    <3>2. doubt \in [Peers -> SUBSET Peers] /\ q \in Peers
      BY <1>0
    <3>3. doubt'[q] = doubt[q] \/ doubt'[q] = doubt[q] \cup Overtaken(c)
      <4> HIDE DEF IInv, TypeOK
      <4> QED BY <3>1, <3>2
    <3> QED BY <3>3
  <2> QED BY <2>1, <2>2
<1>6. CASE q = c /\ step[q] # "reply" /\ Receive(c)
  <2>1. box[q] # <<>> /\ box'[q] = Tail(box[q]) /\ view'[q] = Applied(view[q], Head(box[q]))
        /\ doubt' = doubt
    BY <1>0, <1>6 DEF Receive, history
  <2>2. Sight(Tail(box[q]), Applied(view[q], Head(box[q])), b) = Sight(box[q], view[q], b)
    BY <1>0, <2>1, SightOfTail
  <2>3. Due(q, b)' = Sight(box'[q], view'[q], b)
    BY <1>1, <1>6 DEF Due, Sight, Ends, Placing, Placed, Quieting, Concerning, Concerns
  <2> QED BY <1>6, <2>1, <2>2, <2>3 DEF Due
<1>7. CASE q = c /\ step[q] # "reply" /\ Rotate(c)
  <2>1. Len(box[q]) > 1 /\ box'[q] = Append(Tail(box[q]), Head(box[q])) /\ view' = view
        /\ doubt'[q] = doubt[q] \cup Overtaken(q)
    BY <1>0, <1>3, <1>7 DEF Rotate
  <2>2. box[q] # <<>> /\ box[q] \in Seq(Frames)
    BY <1>0, <2>1
  <2>3. b \notin doubt'[q] =>
          ~Concerns(Head(box[q]), b) \/ \A i \in 2..Len(box[q]) : ~Concerns(box[q][i], b)
    BY <1>3, <2>1 DEF Overtaken
  <2>4. b \notin doubt'[q] => Sight(box'[q], view'[q], b) = Sight(box[q], view[q], b)
    BY <2>1, <2>2, <2>3, SightOfRotation
  <2>5. Due(q, b)' = Sight(box'[q], view'[q], b)
    BY <1>1, <1>7 DEF Due, Sight, Ends, Placing, Placed, Quieting, Concerning, Concerns
  <2> QED BY <1>7, <2>1, <2>4, <2>5 DEF Due
<1> QED BY <1>4, <1>5, <1>6, <1>7

\* News of p that is queued for q, which is in a room: unless it puts p in doubt, q is
\* going to see p as it is.
LEMMA NewsIsRight ==
  ASSUME IInv, NEW p \in Peers, NEW q \in Clients, Tell(p, q), Queued(q, out[p]),
         room[q] # NoRoom, p \notin DoubtAfter(p, q)
  PROVE  Due(q, p)' = Actual(q, p)
<1> USE DEF IInv, TypeOK
<1>0. /\ q \in Peers /\ PairInv(q, p) /\ HandlerInv(p) /\ HandlerInv(q) /\ out[p] \in Frames
      /\ step[p] = "send" /\ q \in to[p] /\ q # p /\ ~closed[q] /\ about[p] \in Rooms
  BY RosterAssumption DEF Tell, HandlerInv, Queued
<1>1. step' = step /\ out' = out /\ box'[q] = Append(box[q], out[p]) /\ view' = view
  BY <1>0 DEF Tell, Queued
<1>2. out[p].who = {p} /\ out[p].kind \in {"peer_joined", "peer_left", "peer_mute_changed"}
  BY <1>0 DEF HandlerInv
<1>3. Coming(q, p) <=> about[p] = room[q]
  BY <1>0 DEF Coming, Expects
<1>4. out[p].kind # "peer_left" =>
        /\ room[p] = about[p]
        /\ p \in out[p].quiet <=> muted[p]
  BY <1>0 DEF HandlerInv
<1>5. out[p].kind = "peer_left" => Actual(q, p) = "absent"
  BY <1>0 DEF HandlerInv, Actual
<1>6. out[p].kind # "peer_left" =>
        Actual(q, p) = IF about[p] # room[q] THEN "absent"
                       ELSE IF p \in out[p].quiet THEN "muted" ELSE "heard"
  BY <1>4 DEF Actual
\* What is expected of the flag of one who is there.
<1>7. p \notin doubt[q] /\ out[p].kind = "peer_mute_changed" =>
        (Due(q, p) = "absent" <=> about[p] # room[q])
  BY <1>0, <1>3, <1>6 DEF PairInv
<1>8. CASE step[q] = "reply"
  <2>1. Due(q, p)' = Shows(out[q], p) /\ Due(q, p) = Shows(out[q], p)
    BY <1>1, <1>8 DEF Due, Shows
  <2>2. CASE about[p] # room[q]
    <3>1. p \notin doubt[q]
      BY <1>8, <2>2 DEF DoubtAfter
    <3> QED BY <1>0, <1>3, <2>1, <2>2, <3>1 DEF PairInv
  <2>3. CASE about[p] = room[q]
    <3>1. p \notin doubt[q] /\ Shows(Applied(out[q], out[p]), p) = Shows(out[q], p)
      BY <1>0, <1>8, <2>3 DEF DoubtAfter
    <3>2. CASE out[p].kind = "peer_joined"
      <4>1. Shows(Applied(out[q], out[p]), p) = IF p \in out[p].quiet THEN "muted" ELSE "heard"
        BY <1>2, <3>2 DEF Shows, Applied
      <4> QED BY <1>6, <2>1, <2>3, <3>1, <3>2, <4>1
    <3>3. CASE out[p].kind = "peer_left"
      <4>1. Shows(Applied(out[q], out[p]), p) = "absent"
        BY <1>2, <3>3 DEF Shows, Applied
      <4> QED BY <1>5, <2>1, <3>1, <3>3, <4>1
    <3>4. CASE out[p].kind = "peer_mute_changed"
      <4>1. Shows(out[q], p) # "absent"
        BY <1>7, <2>1, <2>3, <3>1, <3>4
      <4>2. Shows(Applied(out[q], out[p]), p) = IF p \in out[p].quiet THEN "muted" ELSE "heard"
        BY <1>2, <3>4, <4>1 DEF Shows, Applied
      <4> QED BY <1>6, <2>1, <2>3, <3>1, <3>4, <4>2
    <3> QED BY <1>2, <3>2, <3>3, <3>4
  <2> QED BY <2>2, <2>3
<1>9. CASE step[q] # "reply"
  <2> DEFINE s == Append(box[q], out[p])
  <2>1. Due(q, p)' = Sight(s, view[q], p) /\ Due(q, p) = Sight(box[q], view[q], p)
    BY <1>1, <1>9 DEF Due, Sight, Ends, Placing, Placed, Quieting, Concerning, Concerns
  <2>2. box[q] \in Seq(Frames)
    BY <1>0
  <2>3. CASE out[p].kind = "peer_joined" \/ out[p].kind = "peer_left"
    <3>1. out[p] \in Placing(p)
      BY <1>0, <1>2, <2>3 DEF Placing, Concerning, Concerns
    <3>2. Sight(s, view[q], p) = IF p \notin out[p].who \/ out[p].kind = "peer_left" THEN "absent"
                                 ELSE IF p \in out[p].quiet THEN "muted" ELSE "heard"
      BY <2>2, <3>1, SightWith
    <3>3. out[p].kind = "peer_joined" => about[p] = room[q]
      BY <1>9 DEF DoubtAfter
    <3> QED BY <1>2, <1>5, <1>6, <2>1, <2>3, <3>2, <3>3
  <2>4. CASE out[p].kind = "peer_mute_changed"
    <3>1. p \notin doubt[q]
      BY <1>9, <2>4 DEF DoubtAfter
    <3>2. p \in out[p].who
      BY <1>2
    <3>3. Sight(s, view[q], p) = IF Sight(box[q], view[q], p) = "absent" THEN "absent"
                                 ELSE IF p \in out[p].quiet THEN "muted" ELSE "heard"
      BY <1>0, <2>2, <2>4, <3>2, SightWithFlag
    <3> QED BY <1>6, <1>7, <2>1, <2>4, <3>1, <3>3
  <2> QED BY <1>2, <2>3, <2>4
<1> QED BY <1>8, <1>9

\* News of p leaves what q will see of the others.
LEMMA NewsSparesOthers ==
  ASSUME IInv, NEW p \in Peers, NEW q \in Clients, Tell(p, q), Queued(q, out[p]),
         NEW b \in Peers, b # p
  PROVE  Due(q, b)' = Due(q, b)
<1> USE DEF IInv, TypeOK
<1>0. q \in Peers /\ HandlerInv(p) /\ out[p] \in Frames /\ step[p] = "send"
  BY RosterAssumption DEF Tell
<1>1. step' = step /\ out' = out /\ box'[q] = Append(box[q], out[p]) /\ view' = view
  BY <1>0 DEF Tell, Queued
<1>2. ~Concerns(out[p], b)
  BY <1>0 DEF HandlerInv, Concerns
<1>3. Sight(Append(box[q], out[p]), view[q], b) = Sight(box[q], view[q], b)
  <2>1. box[q] \in Seq(Frames)
    BY <1>0
  <2> QED BY <1>0, <1>2, <2>1, SightSkips
<1>4. step[q] # "reply" => Due(q, b)' = Sight(box'[q], view'[q], b)
  BY <1>1 DEF Due, Sight, Ends, Placing, Placed, Quieting, Concerning, Concerns
<1>5. step[q] = "reply" => Due(q, b)' = Due(q, b)
  BY <1>1 DEF Due, Shows
<1> QED BY <1>1, <1>3, <1>4, <1>5 DEF Due

LEMMA TellKeepsPairs ==
  ASSUME IInv, NEW p \in Peers, NEW c \in Peers, Tell(p, c), NEW q \in Clients, NEW b \in Peers
  PROVE  Both(q, b)'
<1> USE DEF IInv, TypeOK
<1>0. /\ q \in Peers /\ Both(q, b) /\ HandlerInv(p) /\ out[p] \in Frames
      /\ step[p] = "send" /\ c \in to[p] /\ c # p
  BY RosterAssumption DEF Tell, HandlerInv, Both
<1>1. /\ room' = room /\ muted' = muted /\ step' = step /\ out' = out /\ about' = about
      /\ to' = [to EXCEPT ![p] = to[p] \ {c}]
  BY DEF Tell
<1>2. Actual(q, b)' = Actual(q, b)
  BY <1>1 DEF Actual
<1>3. ~(q = c /\ b = p) => (Coming(q, b) => Coming(q, b)')
  BY <1>0, <1>1 DEF Coming, Expects
<1>4. CASE q # c
  <2>1. box'[q] = box[q] /\ view'[q] = view[q] /\ closed'[q] = closed[q]
    BY <1>0, <1>4, OtherConnections DEF Tell
  <2>2. doubt'[q] = doubt[q] /\ named'[q] = named[q]
    <3>1. /\ doubt' = doubt \/ doubt' = [doubt EXCEPT ![c] = DoubtAfter(p, c)]
          /\ named' = named \/ named' = [named EXCEPT ![c] = NamedAfter(p, c)]
      BY DEF Tell, history
    <3> QED BY <1>0, <1>4, <3>1
  <2>3. Due(q, b)' = Due(q, b)
    BY <1>0, <1>1, <2>1, DueUntouched
  <2> QED BY <1>0, <1>1, <1>3, <1>4, <2>1, <2>2, <2>3, PairUntouched
<1>5. CASE q = c /\ Refused(c)
  BY <1>0, <1>5, OtherConnections, ClosedIsOut
<1>6. CASE q = c /\ room[c] = NoRoom
  BY <1>1, <1>6 DEF Both, PairInv, NamedInv
<1>7. CASE q = c /\ room[c] # NoRoom /\ Queued(c, out[p])
           /\ doubt' = [doubt EXCEPT ![c] = DoubtAfter(p, c)]
           /\ named' = [named EXCEPT ![c] = NamedAfter(p, c)]
  <2>1. doubt'[q] = DoubtAfter(p, q) /\ named'[q] = NamedAfter(p, q) /\ closed' = closed
    BY <1>0, <1>7 DEF Queued
  <2>2. CASE b # p
    <3>1. Due(q, b)' = Due(q, b)
      BY <1>7, <2>2, NewsSparesOthers
    <3>2. b \in doubt[q] => b \in doubt'[q]
      BY <2>1, <2>2 DEF DoubtAfter
    <3>3. b \in named[q] => b \in named'[q]
      BY <2>1, <2>2 DEF NamedAfter
    <3> QED BY <1>0, <1>1, <1>3, <2>1, <2>2, <3>1, <3>2, <3>3, PairUntouched
  <2>3. CASE b = p
    <3>1. p \notin doubt'[q] => Due(q, p)' = Actual(q, p)
      BY <1>7, <2>1, NewsIsRight
    <3>2. PairInv(q, b)'
      BY <1>2, <2>3, <3>1 DEF PairInv
    <3>3. NamedInv(q, b)'
      <4>1. SUFFICES ASSUME room[p] = room[q], room[q] # NoRoom, ~closed[q]
                     PROVE  p \in named'[q] \/ (step[q] = "reply" /\ p \in out[q].who)
        BY <1>1, <2>1, <2>3 DEF NamedInv
      <4>2. out[p].kind \in {"peer_joined", "peer_mute_changed"} /\ room[p] = about[p]
        BY <1>0, <4>1 DEF HandlerInv
      <4>3. CASE out[p].kind = "peer_joined"
        BY <2>1, <4>1, <4>2, <4>3 DEF NamedAfter
      <4>4. CASE out[p].kind = "peer_mute_changed"
        <5>1. p \in named[q] \/ (step[q] = "reply" /\ p \in out[q].who)
          BY <1>0, <1>7, <2>3, <4>1, <4>4 DEF Both, NamedInv
        <5> QED BY <2>1, <4>4, <5>1 DEF NamedAfter
      <4> QED BY <4>2, <4>3, <4>4
    <3> QED BY <3>2, <3>3 DEF Both
  <2> QED BY <2>2, <2>3
<1>8. \/ Refused(c)
      \/ room[c] = NoRoom \/ c \notin Clients
      \/ /\ Queued(c, out[p])
         /\ doubt' = [doubt EXCEPT ![c] = DoubtAfter(p, c)]
         /\ named' = [named EXCEPT ![c] = NamedAfter(p, c)]
  BY DEF Tell
<1> QED BY <1>4, <1>5, <1>6, <1>7, <1>8

-----------------------------------------------------------------------------
(* The theorems *)

LEMMA NextPreservesIInv == IInv /\ [Next]_vars => IInv'
<1> SUFFICES ASSUME IInv, [Next]_vars PROVE IInv'
  OBVIOUS
<1>1. TypeOK' /\ \A p \in Peers : HandlerInv(p)'
  BY TypePreserved, HandlersPreserved DEF IInv
<1>2. ASSUME NEW q \in Clients, NEW b \in Peers PROVE Both(q, b)'
  <2>1. CASE UNCHANGED vars
    <3>1. Both(q, b) /\ q \in Peers
      BY RosterAssumption DEF IInv, Both
    <3>2. /\ room' = room /\ muted' = muted /\ closed' = closed /\ box' = box /\ view' = view
          /\ step' = step /\ out' = out /\ about' = about /\ to' = to
          /\ doubt' = doubt /\ named' = named
      BY <2>1 DEF vars, connection, handler, history
    <3>3. Due(q, b)' = Due(q, b)
      BY <3>1, <3>2, DueUntouched
    <3>4. Coming(q, b) => Coming(q, b)'
      BY <3>2 DEF Coming, Expects
    <3> QED BY <3>1, <3>2, <3>3, <3>4, PairUntouched
  <2>2. ASSUME NEW p \in Peers, Request(p) \/ CleanUp(p) PROVE Both(q, b)'
    BY <2>2, JoinKeepsPairs, WithdrawKeepsPairs, MuteKeepsPairs, ContinuingKeepsPairs
       DEF Request, CleanUp, Leave, Disconnect, Reads
  <2>3. ASSUME NEW p \in Peers, Continue(p) PROVE Both(q, b)'
    BY <2>3, ReplyKeepsPairs, ContinuingKeepsPairs, TellKeepsPairs DEF Continue
  <2>4. ASSUME NEW p \in Peers, Fail(p) \/ Receive(p) \/ Rotate(p) PROVE Both(q, b)'
    BY <2>4, ContinuingKeepsPairs, QueueStepsKeepPairs
  <2> QED BY <2>1, <2>2, <2>3, <2>4 DEF Next
<1> QED BY <1>1, <1>2 DEF IInv, Both

\* The invariant of every reachable state; it includes the types.
THEOREM RosterInvariant == Spec => [](TypeOK /\ IInv)
<1>1. IInv => TypeOK
  BY DEF IInv
<1> QED BY InitIInv, NextPreservesIInv, <1>1, PTL DEF Spec

\* A client that has read what was queued for it sees the members of its room and
\* their flags, but for those of whom it was told out of order
\* (dispatch.go:534-564, 605-612, 644-664, conn.go:115-133).
THEOREM RostersAreExact == Spec => []RosterIsExact
<1>1. IInv => RosterIsExact
  <2> SUFFICES ASSUME IInv, NEW q \in Clients, NEW b \in Peers,
                      b # q, Joined(q), box[q] = <<>>, ~Expects(q, b), b \notin doubt[q]
               PROVE  Shows(view[q], b) = Actual(q, b)
    BY DEF RosterIsExact
  <2>1. Due(q, b) = Actual(q, b)
    BY DEF IInv, PairInv, Joined, Coming
  <2> QED BY <2>1, SightOfNone DEF Due, Joined
<1> QED BY RosterInvariant, <1>1, PTL

\* Of two members of a room each is named to the other, whichever came first
\* (dispatch.go:534-564, 653-666).
THEOREM MembersAreNamed == Spec => []EveryMemberIsNamed
<1>1. IInv => EveryMemberIsNamed
  BY DEF IInv, EveryMemberIsNamed, NamedInv, Joined, Coming
<1> QED BY RosterInvariant, <1>1, PTL
=============================================================================
