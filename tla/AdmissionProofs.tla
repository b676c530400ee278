---------------------------- MODULE AdmissionProofs ----------------------------
(***************************************************************************)
(* Proofs about Admission, for any finite set of sessions, any cap and any *)
(* capacity of the semaphore.                                              *)
(*                                                                         *)
(* The argument is about one stack.  However a session ends, its deferred  *)
(* calls are a prefix of Calls, so that their number says what it still    *)
(* holds; the stage says how many there are, except on the way out.  The   *)
(* counters count the sessions whose stack is long enough.                 *)
(***************************************************************************)
EXTENDS Admission, FiniteSetTheorems, SequenceTheorems, TLAPS

TypeOK ==
  /\ gated \in BOOLEAN /\ udp \in BOOLEAN
  /\ stage \in [Sessions -> Stages]
  /\ defers \in [Sessions -> Seq(Deferred)]
  /\ shown \in [Sessions -> Passwords]
  /\ curConns \in Nat /\ passwordSem \in Nat /\ activePeers \in Nat
  /\ open \subseteq Sessions /\ senders \subseteq Sessions
  /\ tokens \subseteq Sessions /\ attached \subseteq Sessions /\ promised \subseteq Sessions

\* The deferred calls of a session that has come all the way.
Calls == <<"count", "conn", "gauge", "sender", "udp">>

Held(s) == Len(defers[s])

StackInv(s) ==
  /\ Held(s) \in 0..5
  /\ \A i \in 1..Held(s) : defers[s][i] = Calls[i]

\* How far the session is determines what it holds.
StageInv(s) ==
  /\ stage[s] \in {"new", "refused", "gone"} => Held(s) = 0
  /\ stage[s] = "accept" => Held(s) = 1
  /\ stage[s] \in {"hello", "checking", "peer"} => Held(s) = 2
  /\ stage[s] \in {"mint", "attach"} => udp /\ Held(s) = 4
  /\ stage[s] \in {"welcome", "serving", "hashing"} => Held(s) = IF udp THEN 5 ELSE 4

\* What it holds is what it has still to give back.
HoldInv(s) ==
  /\ s \in open <=> Held(s) >= 2
  /\ s \in senders <=> Held(s) >= 4
  /\ s \in attached <=> Held(s) = 5
  /\ s \in tokens => stage[s] = "attach" \/ Held(s) = 5
  /\ s \in promised => stage[s] \in {"serving", "hashing", "leaving", "gone"}
  /\ stage[s] \in {"serving", "hashing"} => (s \in promised <=> s \in tokens)

\* Behind the password are those who have shown it.
GateInv(s) ==
  gated /\ (\/ stage[s] \in {"peer", "mint", "attach", "welcome", "serving", "hashing"}
            \/ s \in senders \cup promised)
    => shown[s] = "right"

SessionInv(s) == StackInv(s) /\ StageInv(s) /\ HoldInv(s) /\ GateInv(s)

InSlots == {s \in Sessions : Held(s) >= 1}
InGauge == {s \in Sessions : Held(s) >= 3}
InBcrypt == {s \in Sessions : stage[s] \in {"checking", "hashing"}}

\* A number that counts a set.
Counts(n, S) == n \in Nat /\ n = Cardinality(S)

CountInv ==
  /\ Counts(curConns, InSlots) /\ curConns <= MaxConnections
  /\ Counts(activePeers, InGauge)
  /\ Counts(passwordSem, InBcrypt)

Sound == TypeOK /\ \A s \in Sessions : SessionInv(s)

IInv == Sound /\ CountInv

-----------------------------------------------------------------------------
(* Stacks *)

\* Pushing the next calls of Calls keeps a prefix a prefix.
LEMMA PushOne ==
  ASSUME NEW d \in Seq(Deferred), NEW n \in 0..4, Len(d) = n,
         \A i \in 1..n : d[i] = Calls[i], NEW c, c = Calls[n + 1]
  PROVE  /\ d \o <<c>> \in Seq(Deferred)
         /\ Len(d \o <<c>>) = n + 1
         /\ \A i \in 1..(n + 1) : (d \o <<c>>)[i] = Calls[i]
<1>1. c \in Deferred
  BY DEF Calls, Deferred
<1>2. d \o <<c>> = [i \in 1..(n + 1) |-> IF i <= n THEN d[i] ELSE c]
  BY <1>1
<1>3. \A i \in 1..(n + 1) : i <= n \/ i = n + 1
  OBVIOUS
<1> QED BY <1>1, <1>2, <1>3

LEMMA PushTwo ==
  ASSUME NEW d \in Seq(Deferred), Len(d) = 2, \A i \in 1..2 : d[i] = Calls[i]
  PROVE  /\ d \o <<"gauge", "sender">> \in Seq(Deferred)
         /\ Len(d \o <<"gauge", "sender">>) = 4
         /\ \A i \in 1..4 : (d \o <<"gauge", "sender">>)[i] = Calls[i]
<1> DEFINE e == d \o <<"gauge">>
<1>1. Calls[3] = "gauge" /\ Calls[4] = "sender"
  BY DEF Calls
<1>2. /\ e \in Seq(Deferred) /\ Len(e) = 3
      /\ \A i \in 1..3 : e[i] = Calls[i]
  <2> DEFINE n == 2
  <2>1. n \in 0..4 /\ Len(d) = n /\ \A i \in 1..n : d[i] = Calls[i]
    OBVIOUS
  <2>2. "gauge" = Calls[n + 1] /\ n + 1 = 3
    BY <1>1
  <2> HIDE DEF n
  <2> QED BY <2>1, <2>2, PushOne
<1>3. d \o <<"gauge", "sender">> = e \o <<"sender">>
  BY DEF Deferred
<1> HIDE DEF e
<1>4. /\ e \o <<"sender">> \in Seq(Deferred)
      /\ Len(e \o <<"sender">>) = 4
      /\ \A i \in 1..4 : (e \o <<"sender">>)[i] = Calls[i]
  <2> DEFINE n == 3
  <2>1. n \in 0..4 /\ Len(e) = n /\ \A i \in 1..n : e[i] = Calls[i]
    BY <1>2
  <2>2. "sender" = Calls[n + 1] /\ n + 1 = 4
    BY <1>1
  <2> HIDE DEF n
  <2> QED BY <1>2, <2>1, <2>2, PushOne
<1> QED BY <1>3, <1>4

\* The last call is the one its position says.
LEMMA PopOne ==
  ASSUME NEW d \in Seq(Deferred), NEW n \in 1..5, Len(d) = n,
         \A i \in 1..n : d[i] = Calls[i]
  PROVE  /\ NextCall(d) = <<Calls[n], Front(d)>>
         /\ Front(d) \in Seq(Deferred)
         /\ Len(Front(d)) = n - 1
         /\ \A i \in 1..(n - 1) : Front(d)[i] = Calls[i]
BY DEF NextCall, Front, Last

\* All that is said of a session but for its stack.
PlaceInv(s) == StageInv(s) /\ HoldInv(s) /\ GateInv(s)

LEMMA HeldStays ==
  ASSUME Sound, UNCHANGED defers
  PROVE  \A t \in Sessions : Held(t)' = Held(t) /\ StackInv(t)'
BY DEF Sound, SessionInv, StackInv, Held

\* What a step that pushes calls for s, or pops one, does to the stacks.
Restacks(s, n) ==
  /\ defers' \in [Sessions -> Seq(Deferred)]
  /\ \A t \in Sessions \ {s} : defers'[t] = defers[t]
  /\ Len(defers'[s]) = n
  /\ \A i \in 1..n : defers'[s][i] = Calls[i]

LEMMA HeldRestacked ==
  ASSUME Sound, NEW s \in Sessions, NEW n \in 0..5, Restacks(s, n)
  PROVE  /\ Held(s)' = n
         /\ \A t \in Sessions \ {s} : Held(t)' = Held(t)
         /\ \A t \in Sessions : StackInv(t)'
<1>1. Held(s)' = n /\ \A t \in Sessions \ {s} : Held(t)' = Held(t)
  BY DEF Restacks, Held
<1>2. StackInv(s)'
  BY DEF Restacks, StackInv, Held
<1>3. ASSUME NEW t \in Sessions \ {s} PROVE StackInv(t)'
  BY DEF Restacks, Sound, SessionInv, StackInv, Held
<1> QED BY <1>1, <1>2, <1>3

LEMMA Replaced ==
  ASSUME Sound, NEW s \in Sessions, NEW d \in Seq(Deferred), NEW n \in 0..5, Len(d) = n,
         \A i \in 1..n : d[i] = Calls[i], defers' = [defers EXCEPT ![s] = d]
  PROVE  Restacks(s, n)
<1>1. defers' \in [Sessions -> Seq(Deferred)] /\ defers'[s] = d
  BY DEF Sound, TypeOK
<1>2. \A t \in Sessions \ {s} : defers'[t] = defers[t]
  BY DEF Sound, TypeOK
<1> QED BY <1>1, <1>2 DEF Restacks

LEMMA PushRestacks ==
  ASSUME Sound, NEW s \in Sessions, NEW n \in 0..4, Held(s) = n, Defer(s, <<Calls[n + 1]>>)
  PROVE  Restacks(s, n + 1)
<1> DEFINE d == defers[s] \o <<Calls[n + 1]>>
<1>0. /\ defers[s] \in Seq(Deferred) /\ Len(defers[s]) = n
      /\ \A i \in 1..n : defers[s][i] = Calls[i]
  BY DEF Sound, TypeOK, SessionInv, StackInv, Held
<1>1. /\ d \in Seq(Deferred)
      /\ Len(d) = n + 1
      /\ \A i \in 1..(n + 1) : d[i] = Calls[i]
  BY <1>0, PushOne
<1>2. defers' = [defers EXCEPT ![s] = d]
  BY DEF Sound, TypeOK, Defer
<1> HIDE DEF d
<1>3. n + 1 \in 0..5
  OBVIOUS
<1> QED BY <1>1, <1>2, <1>3, Replaced

-----------------------------------------------------------------------------
(* Sessions: one lemma for each kind of step *)

LEMMA PlaceAndStack ==
  ASSUME Sound
  PROVE  \A t \in Sessions : PlaceInv(t) /\ StackInv(t) /\ Held(t) \in 0..5
BY DEF Sound, SessionInv, StackInv, PlaceInv

LEMMA SessionInvOf ==
  ASSUME NEW t \in Sessions, PlaceInv(t)', StackInv(t)'
  PROVE  SessionInv(t)'
BY DEF SessionInv, PlaceInv

\* Steps that defer and undo nothing.
LEMMA MovesKeepSound ==
  ASSUME Sound, NEW s \in Sessions,
         \/ Forbidden(s) \/ (\E pw \in Passwords : Hello(s, pw)) \/ HelloFails(s)
         \/ Checked(s) \/ Fails(s) \/ HashRoomPassword(s) \/ Hashed(s)
         \/ Disconnect(s) \/ Gone(s)
  PROVE  (\A t \in Sessions : SessionInv(t)') /\ (passwordSem' \in Nat => TypeOK')
<1> USE DEF TypeOK, config, counters, registered, Goto
<1>0. TypeOK
  BY DEF Sound
<1>1. UNCHANGED defers
  BY DEF Forbidden, Hello, HelloFails, Checked, Fails, HashRoomPassword, Hashed, Disconnect, Gone
<1>2. \A t \in Sessions : Held(t)' = Held(t) /\ StackInv(t)'
  BY <1>1, HeldStays
<1>3. \A t \in Sessions : PlaceInv(t) /\ Held(t) \in 0..5
  BY PlaceAndStack
<1>4. CASE Forbidden(s) \/ HelloFails(s) \/ Fails(s) \/ Disconnect(s) \/ Gone(s)
  <2>1. TypeOK'
    BY <1>0, <1>4 DEF Forbidden, HelloFails, Fails, Disconnect, Gone, Stages
  <2>2. Gone(s) => Held(s) = 0
    BY DEF Gone, Held
  <2>3. /\ stage' = [stage EXCEPT ![s] = stage'[s]]
        /\ \/ stage[s] = "new" /\ stage'[s] = "refused"
           \/ stage[s] \in {"hello", "accept", "mint", "welcome", "serving"}
              /\ stage'[s] = "leaving"
           \/ stage[s] = "leaving" /\ stage'[s] = "gone" /\ Held(s) = 0
        /\ UNCHANGED <<gated, udp, shown, open, senders, tokens, attached, promised>>
    BY <1>0, <1>4, <2>2 DEF Forbidden, HelloFails, Fails, Disconnect, Gone
  <2>4. ASSUME NEW t \in Sessions PROVE PlaceInv(t)'
    <3>1. CASE t = s
      BY <1>0, <1>2, <1>3, <2>3, <3>1 DEF PlaceInv, StageInv, HoldInv, GateInv
    <3>2. CASE t # s
      <4>1. stage'[t] = stage[t]
        BY <1>0, <2>3, <3>2
      <4> QED BY <1>2, <1>3, <2>3, <4>1 DEF PlaceInv, StageInv, HoldInv, GateInv
    <3> QED BY <3>1, <3>2
  <2> QED BY <1>2, <2>1, <2>4, SessionInvOf
<1>5. CASE \E pw \in Passwords : Hello(s, pw)
  <2> PICK pw \in Passwords : Hello(s, pw)
    BY <1>5
  <2>1. passwordSem' \in Nat => TypeOK'
    BY <1>0 DEF Hello, AfterHello, Stages
  <2>2. /\ stage[s] = "hello" /\ stage'[s] \in {"peer", "checking"}
        /\ stage'[s] = "peer" => ~gated
        /\ UNCHANGED <<gated, udp, open, senders, tokens, attached, promised>>
        /\ \A t \in Sessions \ {s} : stage'[t] = stage[t] /\ shown'[t] = shown[t]
    BY <1>0 DEF Hello, AfterHello
  <2>3. ASSUME NEW t \in Sessions PROVE PlaceInv(t)'
    <3>1. CASE t = s
      BY <1>2, <1>3, <2>2, <3>1 DEF PlaceInv, StageInv, HoldInv, GateInv
    <3>2. CASE t # s
      BY <1>2, <1>3, <2>2, <3>2 DEF PlaceInv, StageInv, HoldInv, GateInv
    <3> QED BY <3>1, <3>2
  <2> QED BY <1>2, <2>1, <2>3, SessionInvOf
<1>6. CASE Checked(s) \/ HashRoomPassword(s) \/ Hashed(s)
  <2>1. passwordSem' \in Nat => TypeOK'
    BY <1>0, <1>6 DEF Checked, HashRoomPassword, Hashed, Stages
  <2>2. /\ \/ stage[s] = "checking" /\ stage'[s] = "peer" /\ shown[s] = "right"
           \/ stage[s] = "checking" /\ stage'[s] = "leaving"
           \/ stage[s] \in {"serving", "hashing"} /\ stage'[s] \in {"serving", "hashing"}
        /\ UNCHANGED <<gated, udp, shown, open, senders, tokens, attached, promised>>
        /\ \A t \in Sessions \ {s} : stage'[t] = stage[t]
    BY <1>0, <1>6 DEF Checked, HashRoomPassword, Hashed
  <2>3. ASSUME NEW t \in Sessions PROVE PlaceInv(t)'
    <3>1. CASE t = s
      BY <1>2, <1>3, <2>2, <3>1 DEF PlaceInv, StageInv, HoldInv, GateInv
    <3>2. CASE t # s
      BY <1>2, <1>3, <2>2, <3>2 DEF PlaceInv, StageInv, HoldInv, GateInv
    <3> QED BY <3>1, <3>2
  <2> QED BY <1>2, <2>1, <2>3, SessionInvOf
<1> QED BY <1>4, <1>5, <1>6

\* MintToken and Welcome fill tokens and promised.
LEMMA TokensKeepSound ==
  ASSUME Sound, NEW s \in Sessions,
         (\E endpoint \in BOOLEAN : MintToken(s, endpoint)) \/ Welcome(s)
  PROVE  Sound'
<1> USE DEF TypeOK, config, counters, registered, Goto
<1>0. TypeOK
  BY DEF Sound
<1>1. TypeOK'
  BY <1>0 DEF MintToken, Welcome, Stages
<1>2. UNCHANGED defers
  BY DEF MintToken, Welcome
<1>3. \A t \in Sessions : Held(t)' = Held(t) /\ StackInv(t)'
  BY <1>2, HeldStays
<1>4. \A t \in Sessions : PlaceInv(t) /\ Held(t) \in 0..5
  BY PlaceAndStack
<1>5. /\ \/ /\ stage[s] = "mint" /\ stage'[s] = "attach"
            /\ tokens' \in {tokens, tokens \cup {s}} /\ promised' = promised
         \/ /\ stage[s] = "welcome" /\ stage'[s] = "serving" /\ tokens' = tokens
            /\ promised' = IF s \in tokens THEN promised \cup {s} ELSE promised
      /\ UNCHANGED <<gated, udp, shown, open, senders, attached>>
      /\ \A t \in Sessions \ {s} : stage'[t] = stage[t]
  BY <1>0 DEF MintToken, Welcome
<1>6. ASSUME NEW t \in Sessions PROVE PlaceInv(t)'
  <2>1. CASE t = s
    BY <1>3, <1>4, <1>5, <2>1 DEF PlaceInv, StageInv, HoldInv, GateInv
  <2>2. CASE t # s
    BY <1>3, <1>4, <1>5, <2>2 DEF PlaceInv, StageInv, HoldInv, GateInv
  <2> QED BY <2>1, <2>2
<1> QED BY <1>1, <1>3, <1>6, SessionInvOf DEF Sound

\* The way in, one call deferred at a time.
LEMMA RequestKeepsSound ==
  ASSUME Sound, NEW s \in Sessions, Request(s)
  PROVE  Sound' /\ Held(s) = 0 /\ Restacks(s, 1)
<1> USE DEF TypeOK, config, registered, Goto
<1>0. TypeOK
  BY DEF Sound
<1>1. \A t \in Sessions : PlaceInv(t) /\ Held(t) \in 0..5
  BY PlaceAndStack
<1>2. Held(s) = 0
  BY <1>1 DEF Request, PlaceInv, StageInv
<1>3. Restacks(s, 1)
  BY <1>2, PushRestacks DEF Request, Calls
<1>4. Held(s)' = 1 /\ (\A t \in Sessions \ {s} : Held(t)' = Held(t)) /\ \A t \in Sessions : StackInv(t)'
  BY <1>3, HeldRestacked
<1>5. TypeOK'
  <2>1. defers' \in [Sessions -> Seq(Deferred)]
    BY <1>3 DEF Restacks
  <2> QED BY <1>0, <2>1 DEF Request, Stages
<1>6. /\ stage[s] = "new" /\ stage'[s] = "accept"
      /\ UNCHANGED <<gated, udp, shown, open, senders, tokens, attached, promised>>
      /\ \A t \in Sessions \ {s} : stage'[t] = stage[t]
  BY <1>0 DEF Request
<1>7. ASSUME NEW t \in Sessions PROVE PlaceInv(t)'
  <2>1. CASE t = s
    BY <1>1, <1>2, <1>4, <1>6, <2>1 DEF PlaceInv, StageInv, HoldInv, GateInv
  <2>2. CASE t # s
    BY <1>1, <1>4, <1>6, <2>2 DEF PlaceInv, StageInv, HoldInv, GateInv
  <2> QED BY <2>1, <2>2
<1> QED BY <1>2, <1>3, <1>4, <1>5, <1>7, SessionInvOf DEF Sound

LEMMA AcceptKeepsSound ==
  ASSUME Sound, NEW s \in Sessions, Accept(s)
  PROVE  Sound' /\ Held(s) = 1 /\ Restacks(s, 2)
<1> USE DEF TypeOK, config, registered, Goto
<1>0. TypeOK
  BY DEF Sound
<1>1. \A t \in Sessions : PlaceInv(t) /\ Held(t) \in 0..5
  BY PlaceAndStack
<1>2. Held(s) = 1
  BY <1>1 DEF Accept, PlaceInv, StageInv
<1>3. Restacks(s, 2)
  BY <1>2, PushRestacks DEF Accept, Calls
<1>4. Held(s)' = 2 /\ (\A t \in Sessions \ {s} : Held(t)' = Held(t)) /\ \A t \in Sessions : StackInv(t)'
  BY <1>3, HeldRestacked
<1>5. TypeOK'
  <2>1. defers' \in [Sessions -> Seq(Deferred)]
    BY <1>3 DEF Restacks
  <2> QED BY <1>0, <2>1 DEF Accept, Stages
<1>6. /\ stage[s] = "accept" /\ stage'[s] = "hello" /\ open' = open \cup {s}
      /\ UNCHANGED <<gated, udp, shown, senders, tokens, attached, promised>>
      /\ \A t \in Sessions \ {s} : stage'[t] = stage[t]
  BY <1>0 DEF Accept
<1>7. ASSUME NEW t \in Sessions PROVE PlaceInv(t)'
  <2>1. CASE t = s
    BY <1>1, <1>2, <1>4, <1>6, <2>1 DEF PlaceInv, StageInv, HoldInv, GateInv
  <2>2. CASE t # s
    BY <1>1, <1>4, <1>6, <2>2 DEF PlaceInv, StageInv, HoldInv, GateInv
  <2> QED BY <2>1, <2>2
<1> QED BY <1>2, <1>3, <1>4, <1>5, <1>7, SessionInvOf DEF Sound

LEMMA AttachPeerKeepsSound ==
  ASSUME Sound, NEW s \in Sessions, AttachPeer(s)
  PROVE  Sound' /\ Held(s) = 4 /\ Restacks(s, 5)
<1> USE DEF TypeOK, config, counters, Goto
<1>0. TypeOK
  BY DEF Sound
<1>1. \A t \in Sessions : PlaceInv(t) /\ Held(t) \in 0..5
  BY PlaceAndStack
<1>2. Held(s) = 4
  BY <1>1 DEF AttachPeer, PlaceInv, StageInv
<1>3. Restacks(s, 5)
  BY <1>2, PushRestacks DEF AttachPeer, Calls
<1>4. Held(s)' = 5 /\ (\A t \in Sessions \ {s} : Held(t)' = Held(t)) /\ \A t \in Sessions : StackInv(t)'
  BY <1>3, HeldRestacked
<1>5. TypeOK'
  <2>1. defers' \in [Sessions -> Seq(Deferred)]
    BY <1>3 DEF Restacks
  <2> QED BY <1>0, <2>1 DEF AttachPeer, Stages
<1>6. /\ stage[s] = "attach" /\ stage'[s] = "welcome" /\ attached' = attached \cup {s}
      /\ UNCHANGED <<gated, udp, shown, open, senders, tokens, promised>>
      /\ \A t \in Sessions \ {s} : stage'[t] = stage[t]
  BY <1>0 DEF AttachPeer
<1>7. ASSUME NEW t \in Sessions PROVE PlaceInv(t)'
  <2>1. CASE t = s
    BY <1>1, <1>2, <1>4, <1>6, <2>1 DEF PlaceInv, StageInv, HoldInv, GateInv
  <2>2. CASE t # s
    BY <1>1, <1>4, <1>6, <2>2 DEF PlaceInv, StageInv, HoldInv, GateInv
  <2> QED BY <2>1, <2>2
<1> QED BY <1>2, <1>3, <1>4, <1>5, <1>7, SessionInvOf DEF Sound

\* NewPeer defers two.
LEMMA NewPeerKeepsSound ==
  ASSUME Sound, NEW s \in Sessions, NewPeer(s)
  PROVE  Sound' /\ Held(s) = 2 /\ Restacks(s, 4)
<1> USE DEF TypeOK, config, registered, Goto
<1>0. TypeOK
  BY DEF Sound
<1>1. \A t \in Sessions : PlaceInv(t) /\ Held(t) \in 0..5
  BY PlaceAndStack
<1>2. Held(s) = 2
  BY <1>1 DEF NewPeer, PlaceInv, StageInv
<1>3. Restacks(s, 4)
  <2> DEFINE d == defers[s] \o <<"gauge", "sender">>
  <2>1. /\ defers[s] \in Seq(Deferred) /\ Len(defers[s]) = 2
        /\ \A i \in 1..2 : defers[s][i] = Calls[i]
    BY <1>0, <1>2 DEF Sound, SessionInv, StackInv, Held
  <2>2. d \in Seq(Deferred) /\ Len(d) = 4 /\ \A i \in 1..4 : d[i] = Calls[i]
    BY <2>1, PushTwo
  <2>3. defers' = [defers EXCEPT ![s] = d]
    BY <1>0 DEF NewPeer, Defer
  <2>4. 4 \in 0..5
    OBVIOUS
  <2> HIDE DEF d
  <2> QED BY <2>2, <2>3, <2>4, Replaced
<1>4. Held(s)' = 4 /\ (\A t \in Sessions \ {s} : Held(t)' = Held(t)) /\ \A t \in Sessions : StackInv(t)'
  BY <1>3, HeldRestacked
<1>5. TypeOK'
  <2>1. defers' \in [Sessions -> Seq(Deferred)]
    BY <1>3 DEF Restacks
  <2> QED BY <1>0, <2>1 DEF NewPeer, Stages
<1>6. /\ stage[s] = "peer" /\ stage'[s] = (IF udp THEN "mint" ELSE "welcome")
      /\ senders' = senders \cup {s}
      /\ UNCHANGED <<gated, udp, shown, open, tokens, attached, promised>>
      /\ \A t \in Sessions \ {s} : stage'[t] = stage[t]
  BY <1>0 DEF NewPeer
<1>7. ASSUME NEW t \in Sessions PROVE PlaceInv(t)'
  <2>1. CASE t = s
    BY <1>1, <1>2, <1>4, <1>6, <2>1 DEF PlaceInv, StageInv, HoldInv, GateInv
  <2>2. CASE t # s
    BY <1>1, <1>4, <1>6, <2>2 DEF PlaceInv, StageInv, HoldInv, GateInv
  <2> QED BY <2>1, <2>2
<1> QED BY <1>2, <1>3, <1>4, <1>5, <1>7, SessionInvOf DEF Sound

\* The way out, from the top of the stack.
LEMMA UnwindKeepsSound ==
  ASSUME Sound, NEW s \in Sessions, Unwind(s)
  PROVE  /\ Held(s) \in 1..5 /\ NextCall(defers[s])[1] = Calls[Held(s)]
         /\ Restacks(s, Held(s) - 1)
         /\ \A t \in Sessions : SessionInv(t)'
         /\ curConns' \in Nat /\ activePeers' \in Nat => TypeOK'
<1> USE DEF TypeOK, config
<1> DEFINE n == Held(s)
<1>0. TypeOK
  BY DEF Sound
<1>1. /\ n \in 1..5 /\ Len(defers[s]) = n /\ defers[s] \in Seq(Deferred)
      /\ \A i \in 1..n : defers[s][i] = Calls[i]
  BY <1>0 DEF Unwind, Sound, SessionInv, StackInv, Held
<1> HIDE DEF n
<1>2. /\ NextCall(defers[s]) = <<Calls[n], Front(defers[s])>>
      /\ Front(defers[s]) \in Seq(Deferred)
      /\ Len(Front(defers[s])) = n - 1
      /\ \A i \in 1..(n - 1) : Front(defers[s])[i] = Calls[i]
  BY <1>1, PopOne
<1>3. NextCall(defers[s])[1] = Calls[n] /\ NextCall(defers[s])[2] = Front(defers[s])
  BY <1>2
<1>4. defers' = [defers EXCEPT ![s] = Front(defers[s])]
  BY <1>3 DEF Unwind
<1>5. Restacks(s, n - 1)
  <2>1. n - 1 \in 0..5
    BY <1>1
  <2> QED BY <1>2, <1>4, <2>1, Replaced
<1>6. n = 1 \/ n = 2 \/ n = 3 \/ n = 4 \/ n = 5
  BY <1>1
<1>7. /\ n = 5 <=> Calls[n] = "udp"
      /\ n = 4 <=> Calls[n] = "sender"
      /\ n = 2 <=> Calls[n] = "conn"
  BY <1>6 DEF Calls
<1>8. /\ tokens' = IF n = 5 THEN tokens \ {s} ELSE tokens
      /\ attached' = IF n = 5 THEN attached \ {s} ELSE attached
      /\ senders' = IF n = 4 THEN senders \ {s} ELSE senders
      /\ open' = IF n = 2 THEN open \ {s} ELSE open
      /\ UNCHANGED <<config, stage, shown, passwordSem, promised>>
  BY <1>3, <1>7 DEF Unwind
<1>9. stage[s] = "leaving"
  BY DEF Unwind
<1>10. /\ Held(s)' = n - 1 /\ (\A t \in Sessions \ {s} : Held(t)' = Held(t))
       /\ \A t \in Sessions : StackInv(t)'
  <2>1. n - 1 \in 0..5
    BY <1>1
  <2> QED BY <1>5, <2>1, HeldRestacked
<1>11. \A t \in Sessions : PlaceInv(t) /\ Held(t) \in 0..5
  BY PlaceAndStack
<1>12. Held(s) = n
  BY DEF n
<1>13. ASSUME NEW t \in Sessions PROVE PlaceInv(t)'
  <2>1. CASE t = s
    BY <1>1, <1>8, <1>9, <1>10, <1>11, <1>12, <2>1 DEF PlaceInv, StageInv, HoldInv, GateInv
  <2>2. CASE t # s
    BY <1>8, <1>10, <1>11, <2>2 DEF PlaceInv, StageInv, HoldInv, GateInv
  <2> QED BY <2>1, <2>2
<1>14. curConns' \in Nat /\ activePeers' \in Nat => TypeOK'
  <2>1. defers' \in [Sessions -> Seq(Deferred)]
    BY <1>5 DEF Restacks
  <2> QED BY <1>0, <1>8, <2>1
<1> QED BY <1>1, <1>3, <1>5, <1>10, <1>12, <1>13, <1>14, SessionInvOf

-----------------------------------------------------------------------------
(* Counters *)

\* One more in a set of sessions, or one less.
LEMMA CountUp ==
  ASSUME NEW n, NEW S \in SUBSET Sessions, Counts(n, S), NEW s \in Sessions \ S
  PROVE  Counts(n + 1, S \cup {s})
<1>1. IsFiniteSet(S) /\ Cardinality(S \cup {s}) = Cardinality(S) + 1
  BY FS_Subset, FS_AddElement, AdmissionAssumption
<1> QED BY <1>1 DEF Counts

LEMMA CountDown ==
  ASSUME NEW n, NEW S \in SUBSET Sessions, Counts(n, S), NEW s \in S
  PROVE  Counts(n - 1, S \ {s})
<1>1. IsFiniteSet(S) /\ Cardinality(S \ {s}) = Cardinality(S) - 1
  BY FS_Subset, FS_RemoveElement, AdmissionAssumption
<1>2. Cardinality(S \ {s}) \in Nat
  BY FS_Subset, FS_CardinalityType, AdmissionAssumption
<1> QED BY <1>1, <1>2 DEF Counts

LEMMA SetsRestacked ==
  ASSUME Sound, NEW s \in Sessions, NEW n \in 0..5, Restacks(s, n)
  PROVE  /\ InSlots' = IF n >= 1 THEN InSlots \cup {s} ELSE InSlots \ {s}
         /\ InGauge' = IF n >= 3 THEN InGauge \cup {s} ELSE InGauge \ {s}
BY HeldRestacked DEF InSlots, InGauge

\* bcrypt: a slot is taken on the way in and given back on the way out.
LEMMA BcryptCounts ==
  ASSUME Sound, CountInv, NEW s \in Sessions,
         \/ (\E pw \in Passwords : Hello(s, pw))
         \/ Checked(s) \/ HashRoomPassword(s) \/ Hashed(s)
  PROVE  CountInv'
<1> USE DEF Sound, TypeOK, counters, Goto
<1>1. InBcrypt \in SUBSET Sessions
  BY DEF InBcrypt
<1>2. InSlots' = InSlots /\ InGauge' = InGauge /\ UNCHANGED <<curConns, activePeers>>
  BY DEF InSlots, InGauge, Held, Hello, Checked, HashRoomPassword, Hashed
<1>3. CASE passwordSem' = passwordSem + 1
  <2>1. s \notin InBcrypt /\ InBcrypt' = InBcrypt \cup {s}
    BY <1>3 DEF InBcrypt, Hello, AfterHello, Checked, Released, HashRoomPassword, Hashed
  <2> QED BY <1>1, <1>2, <1>3, <2>1, CountUp DEF CountInv, Counts
<1>4. CASE passwordSem' = passwordSem - 1
  <2>1. s \in InBcrypt /\ InBcrypt' = InBcrypt \ {s}
    BY <1>4 DEF InBcrypt, Hello, AfterHello, Checked, Released, HashRoomPassword, Hashed
  <2> QED BY <1>1, <1>2, <1>4, <2>1, CountDown DEF CountInv, Counts
<1>5. CASE passwordSem' = passwordSem
  <2>1. InBcrypt' = InBcrypt
    BY <1>5 DEF InBcrypt, Hello, AfterHello, Checked, Released, HashRoomPassword, Hashed
  <2> QED BY <1>2, <1>5, <2>1 DEF CountInv, Counts
<1> QED BY <1>3, <1>4, <1>5 DEF Hello, AfterHello, Checked, Released, HashRoomPassword, Hashed

\* Request compares and raises the count in one critical section.
LEMMA RequestCounts ==
  ASSUME Sound, CountInv, NEW s \in Sessions, Request(s)
  PROVE  CountInv'
<1>0. TypeOK
  BY DEF Sound
<1>1. Held(s) = 0 /\ Restacks(s, 1) /\ 1 \in 0..5
  BY RequestKeepsSound
<1>2. s \in Sessions \ InSlots /\ s \notin InGauge /\ InSlots \in SUBSET Sessions
  BY <1>1 DEF InSlots, InGauge
<1>3. InSlots' = InSlots \cup {s} /\ InGauge' = InGauge
  BY <1>1, <1>2, SetsRestacked
<1>4. InBcrypt' = InBcrypt
  BY <1>0 DEF TypeOK, Request, Goto, InBcrypt
<1>5. curConns' = curConns + 1 /\ curConns < MaxConnections /\ UNCHANGED <<activePeers, passwordSem>>
  BY <1>0, AdmissionAssumption DEF TypeOK, Request, Full
<1>6. Counts(curConns', InSlots') /\ curConns' <= MaxConnections
  <2>1. Counts(curConns + 1, InSlots \cup {s})
    BY <1>2, CountUp DEF CountInv
  <2> QED BY <1>0, <1>3, <1>5, <2>1, AdmissionAssumption DEF TypeOK
<1> QED BY <1>3, <1>4, <1>5, <1>6 DEF CountInv, Counts

\* NewPeer enters the gauge.
LEMMA NewPeerCounts ==
  ASSUME Sound, CountInv, NEW s \in Sessions, NewPeer(s)
  PROVE  CountInv'
<1>0. TypeOK
  BY DEF Sound
<1>1. Held(s) = 2 /\ Restacks(s, 4) /\ 4 \in 0..5
  BY NewPeerKeepsSound
<1>2. s \in Sessions \ InGauge /\ s \in InSlots /\ InGauge \in SUBSET Sessions
  BY <1>1 DEF InSlots, InGauge
<1>3. InSlots' = InSlots /\ InGauge' = InGauge \cup {s}
  BY <1>1, <1>2, SetsRestacked
<1>4. InBcrypt' = InBcrypt
  BY <1>0 DEF TypeOK, NewPeer, Goto, InBcrypt
<1>5. activePeers' = activePeers + 1 /\ UNCHANGED <<curConns, passwordSem>>
  BY DEF NewPeer
<1>6. Counts(activePeers', InGauge')
  BY <1>2, <1>3, <1>5, CountUp DEF CountInv
<1> QED BY <1>3, <1>4, <1>5, <1>6 DEF CountInv, Counts

\* Accept and AttachPeer push calls that nothing counts.
LEMMA UncountedPush ==
  ASSUME Sound, CountInv, NEW s \in Sessions, Accept(s) \/ AttachPeer(s)
  PROVE  CountInv'
<1>0. TypeOK
  BY DEF Sound
<1>1. \/ Held(s) = 1 /\ Restacks(s, 2)
      \/ Held(s) = 4 /\ Restacks(s, 5)
  BY AcceptKeepsSound, AttachPeerKeepsSound
<1>2. InSlots' = InSlots /\ InGauge' = InGauge
  <2>1. 2 \in 0..5 /\ 5 \in 0..5
    OBVIOUS
  <2>2. CASE Held(s) = 1 /\ Restacks(s, 2)
    <3>1. s \in InSlots /\ s \notin InGauge
      BY <2>2 DEF InSlots, InGauge
    <3> QED BY <2>1, <2>2, <3>1, SetsRestacked
  <2>3. CASE Held(s) = 4 /\ Restacks(s, 5)
    <3>1. s \in InSlots /\ s \in InGauge
      BY <2>3 DEF InSlots, InGauge
    <3> QED BY <2>1, <2>3, <3>1, SetsRestacked
  <2> QED BY <1>1, <2>2, <2>3
<1>3. InBcrypt' = InBcrypt
  BY <1>0 DEF TypeOK, Accept, AttachPeer, Goto, InBcrypt
<1> QED BY <1>2, <1>3 DEF Accept, AttachPeer, counters, CountInv, Counts

\* Unwind gives back what the popped call stands for.
LEMMA UnwindCounts ==
  ASSUME Sound, CountInv, NEW s \in Sessions, Unwind(s)
  PROVE  CountInv'
<1> USE DEF TypeOK
<1> DEFINE n == Held(s)
<1>0. TypeOK
  BY DEF Sound
<1>1. n \in 1..5 /\ NextCall(defers[s])[1] = Calls[n] /\ Restacks(s, n - 1)
  BY UnwindKeepsSound
<1>2. n = 1 \/ n = 2 \/ n = 3 \/ n = 4 \/ n = 5
  BY <1>1
<1>3. (n = 1 <=> Calls[n] = "count") /\ (n = 3 <=> Calls[n] = "gauge")
  BY <1>2 DEF Calls
<1>4. /\ curConns' = IF n = 1 THEN curConns - 1 ELSE curConns
      /\ activePeers' = IF n = 3 THEN activePeers - 1 ELSE activePeers
      /\ UNCHANGED <<stage, passwordSem>>
  BY <1>1, <1>3 DEF Unwind
<1>5. s \in InSlots /\ (s \in InGauge <=> n >= 3)
  BY <1>1 DEF InSlots, InGauge
<1>6. /\ InSlots' = IF n = 1 THEN InSlots \ {s} ELSE InSlots
      /\ InGauge' = IF n = 3 THEN InGauge \ {s} ELSE InGauge
  <2>1. n - 1 \in 0..5
    BY <1>1
  <2> HIDE DEF n
  <2> QED BY <1>1, <1>2, <1>5, <2>1, SetsRestacked
<1>7. InBcrypt' = InBcrypt
  BY <1>4 DEF InBcrypt
<1>8. Counts(curConns', InSlots') /\ curConns' <= MaxConnections
  <2>1. CASE n = 1
    <3>1. Counts(curConns - 1, InSlots \ {s})
      BY <1>5, CountDown DEF CountInv, InSlots
    <3> QED BY <1>0, <1>4, <1>6, <2>1, <3>1, AdmissionAssumption DEF CountInv, Counts
  <2>2. CASE n # 1
    BY <1>4, <1>6, <2>2 DEF CountInv, Counts
  <2> QED BY <2>1, <2>2
<1>9. Counts(activePeers', InGauge')
  <2>1. CASE n = 3
    <3>1. Counts(activePeers - 1, InGauge \ {s})
      BY <1>5, <2>1, CountDown DEF CountInv, InGauge
    <3> QED BY <1>4, <1>6, <2>1, <3>1
  <2>2. CASE n # 3
    BY <1>4, <1>6, <2>2 DEF CountInv, Counts
  <2> QED BY <2>1, <2>2
<1> QED BY <1>4, <1>7, <1>8, <1>9 DEF CountInv, Counts

\* The other steps count nothing.
LEMMA UncountedMove ==
  ASSUME Sound, CountInv, NEW s \in Sessions,
         \/ Forbidden(s) \/ HelloFails(s) \/ Fails(s) \/ Disconnect(s) \/ Gone(s)
         \/ (\E endpoint \in BOOLEAN : MintToken(s, endpoint)) \/ Welcome(s)
  PROVE  CountInv'
<1>1. UNCHANGED <<defers, curConns, activePeers, passwordSem>>
  BY DEF Forbidden, HelloFails, Fails, Disconnect, Gone, MintToken, Welcome, counters
<1>2. InSlots' = InSlots /\ InGauge' = InGauge
  BY <1>1 DEF InSlots, InGauge, Held
<1>3. InBcrypt' = InBcrypt
  BY DEF Sound, TypeOK, Forbidden, HelloFails, Fails, Disconnect, Gone, MintToken, Welcome,
     Goto, InBcrypt
<1> QED BY <1>1, <1>2, <1>3 DEF CountInv, Counts

-----------------------------------------------------------------------------
(* The theorems *)

LEMMA InitIInv == Init => IInv
<1> SUFFICES ASSUME Init PROVE Sound /\ CountInv
  BY DEF IInv
<1>1. Sound
  BY DEF Init, Sound, TypeOK, Stages, Passwords, Deferred, SessionInv, StackInv, StageInv,
     HoldInv, GateInv, Held
<1>2. InSlots = {} /\ InGauge = {} /\ InBcrypt = {}
  BY DEF Init, InSlots, InGauge, InBcrypt, Held
<1>3. CountInv
  BY <1>2, FS_EmptySet, AdmissionAssumption DEF Init, CountInv, Counts
<1> QED BY <1>1, <1>3

LEMMA NextKeepsIInv == IInv /\ [Next]_vars => IInv'
<1> SUFFICES ASSUME Sound, CountInv, [Next]_vars PROVE Sound' /\ CountInv'
  BY DEF IInv
<1>1. ASSUME NEW s \in Sessions, Request(s) \/ NewPeer(s) PROVE Sound' /\ CountInv'
  BY <1>1, RequestKeepsSound, RequestCounts, NewPeerKeepsSound, NewPeerCounts
<1>2. ASSUME NEW s \in Sessions, Accept(s) \/ AttachPeer(s) PROVE Sound' /\ CountInv'
  BY <1>2, AcceptKeepsSound, AttachPeerKeepsSound, UncountedPush
<1>3. ASSUME NEW s \in Sessions,
             (\E endpoint \in BOOLEAN : MintToken(s, endpoint)) \/ Welcome(s)
      PROVE  Sound' /\ CountInv'
  BY <1>3, TokensKeepSound, UncountedMove
<1>4. ASSUME NEW s \in Sessions,
             (\E pw \in Passwords : Hello(s, pw)) \/ Checked(s) \/ HashRoomPassword(s) \/ Hashed(s)
      PROVE  Sound' /\ CountInv'
  <2>1. CountInv'
    BY <1>4, BcryptCounts
  <2> QED BY <1>4, <2>1, MovesKeepSound DEF CountInv, Counts, Sound
<1>5. ASSUME NEW s \in Sessions,
             Forbidden(s) \/ HelloFails(s) \/ Fails(s) \/ Disconnect(s) \/ Gone(s)
      PROVE  Sound' /\ CountInv'
  <2>1. CountInv'
    BY <1>5, UncountedMove
  <2> QED BY <1>5, <2>1, MovesKeepSound DEF CountInv, Counts, Sound
<1>6. ASSUME NEW s \in Sessions, Unwind(s) PROVE Sound' /\ CountInv'
  <2>1. CountInv'
    BY <1>6, UnwindCounts
  <2> QED BY <1>6, <2>1, UnwindKeepsSound DEF CountInv, Counts, Sound
<1>7. CASE UNCHANGED vars
  BY <1>7 DEF vars, config, counters, registered, Sound, TypeOK, SessionInv, StackInv, StageInv,
     HoldInv, GateInv, Held, CountInv, Counts, InSlots, InGauge, InBcrypt
<1> QED BY <1>1, <1>2, <1>3, <1>4, <1>5, <1>6, <1>7 DEF Next, Handshake, Leave

\* The invariant of every reachable state; it includes the types.
THEOREM AdmissionInvariant == Spec => []IInv
BY InitIInv, NextKeepsIInv, PTL DEF Spec

\* The cap holds also on the way out: the slot is under the connection in the stack
\* (dispatch.go:138-174).
THEOREM CapHolds == Spec => []ConnectionsWithinCap
<1>1. IInv => ConnectionsWithinCap
  <2> SUFFICES ASSUME IInv PROVE Cardinality(open) <= MaxConnections
    BY DEF ConnectionsWithinCap
  <2>1. InSlots \subseteq Sessions /\ open \subseteq InSlots
    BY DEF IInv, Sound, TypeOK, SessionInv, HoldInv, StackInv, InSlots
  <2>2. IsFiniteSet(InSlots) /\ Cardinality(open) <= Cardinality(InSlots)
    BY <2>1, FS_Subset, AdmissionAssumption
  <2>3. Cardinality(open) \in Nat /\ Cardinality(InSlots) \in Nat
    BY <2>1, <2>2, FS_Subset, FS_CardinalityType
  <2> QED BY <2>2, <2>3, AdmissionAssumption DEF IInv, CountInv, Counts
<1> QED BY AdmissionInvariant, <1>1, PTL

\* Nobody gets past the password who has not shown it (dispatch.go:228-256).
THEOREM PasswordIsChecked == Spec => []OnlyCheckedAreServed
<1>1. IInv => OnlyCheckedAreServed
  BY DEF IInv, Sound, TypeOK, SessionInv, StackInv, HoldInv, StageInv, GateInv, OnlyCheckedAreServed
<1> QED BY AdmissionInvariant, <1>1, PTL

\* The counters are the sessions that have still to give back (dispatch.go:138-156,
\* 258-260, 744-753).
THEOREM CountersCount == Spec => []CountersAreExact
<1>1. IInv => CountersAreExact
  <2> SUFFICES ASSUME IInv PROVE CountersAreExact
    OBVIOUS
  <2>1. ASSUME NEW s \in Sessions
        PROVE  /\ Contains(defers[s], "count") <=> Held(s) >= 1
               /\ Contains(defers[s], "gauge") <=> Held(s) >= 3
    <3>1. Held(s) \in 0..5 /\ \A i \in 1..Held(s) : defers[s][i] = Calls[i]
      BY DEF IInv, Sound, SessionInv, StackInv
    <3>2. /\ Calls[1] = "count" /\ Calls[2] = "conn" /\ Calls[3] = "gauge"
          /\ Calls[4] = "sender" /\ Calls[5] = "udp"
      BY DEF Calls
    <3>3. \A i \in 1..5 : i = 1 \/ i = 2 \/ i = 3 \/ i = 4 \/ i = 5
      OBVIOUS
    <3> QED BY <3>1, <3>2, <3>3 DEF Contains, Held
  <2>2. /\ InSlots = {s \in Sessions : Contains(defers[s], "count")}
        /\ InGauge = {s \in Sessions : Contains(defers[s], "gauge")}
    BY <2>1 DEF InSlots, InGauge
  <2> QED BY <2>2 DEF IInv, CountInv, Counts, CountersAreExact, InBcrypt
<1> QED BY AdmissionInvariant, <1>1, PTL

\* A token that was told is good while the session is served, and not after it
\* (dispatch.go:283-297).
THEOREM TokensAreGood == Spec => []PromisedTokensAreGood
<1>1. IInv => PromisedTokensAreGood
  BY DEF IInv, Sound, TypeOK, SessionInv, StackInv, HoldInv, StageInv, PromisedTokensAreGood
<1> QED BY AdmissionInvariant, <1>1, PTL
=============================================================================
