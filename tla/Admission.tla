------------------------------- MODULE Admission -------------------------------
(***************************************************************************)
(* How a WebSocket session gets in and out: HandleHTTP and run in          *)
(* internal/ws/dispatch.go, up to the message loop and after it.           *)
(*                                                                         *)
(* A session takes things one after the other (a connection slot, the      *)
(* connection, a place in the gauge, a sender, the UDP registration) and   *)
(* may end at any point between; Go runs its deferred calls in the reverse *)
(* order.  They are modelled as the stack the runtime keeps.               *)
(*                                                                         *)
(* Sessions share the connection count and the semaphore for bcrypt, which *)
(* the hello takes and, later on, the handlers of room_create and          *)
(* room_join.  What happens in rooms is RoomRegistry's, and what UDP does  *)
(* with a registered peer UdpPlane's.                                      *)
(***************************************************************************)
EXTENDS Naturals, Sequences, FiniteSets, SequencesExt

CONSTANTS
  Sessions,         \* HTTP requests
  MaxConnections,   \* the cap
  PasswordChecks    \* capacity of passwordSem

ASSUME AdmissionAssumption ==
  /\ IsFiniteSet(Sessions)
  /\ MaxConnections \in Nat
  /\ PasswordChecks \in Nat \ {0}

VARIABLES
  gated,       \* ServerPasswordHash is set; fixed at startup
  udp,         \* Udp is set; fixed at startup
  stage,       \* [Sessions -> where the session's goroutine is]
  defers,      \* [Sessions -> its deferred calls, the last to run first]
  shown,       \* [Sessions -> the server password in its hello]
  curConns,    \* the connection count
  open,        \* sessions whose connection is open
  passwordSem, \* slots of the semaphore that are taken
  activePeers, \* the gauge nu_active_peers
  senders,     \* sessions whose peer has its sender
  tokens,      \* sessions whose peer has a token in udp.tokenByID
  attached,    \* sessions whose peer is in udp.peerByID
  promised     \* sessions that were told a token in their welcome

config == <<gated, udp>>
counters == <<curConns, open, activePeers, senders>>
registered == <<tokens, attached>>
vars == <<config, stage, defers, shown, counters, passwordSem, registered, promised>>

Stages == {"new", "refused", "accept", "hello", "checking", "peer", "mint", "attach",
           "welcome", "serving", "hashing", "leaving", "gone"}
Deferred == {"count", "conn", "gauge", "sender", "udp"}
Passwords == {"none", "wrong", "right"}

Init ==
  /\ gated \in BOOLEAN
  /\ udp \in BOOLEAN
  /\ stage = [s \in Sessions |-> "new"]
  /\ defers = [s \in Sessions |-> <<>>]
  /\ shown = [s \in Sessions |-> "none"]
  /\ curConns = 0
  /\ open = {}
  /\ passwordSem = 0
  /\ activePeers = 0
  /\ senders = {}
  /\ tokens = {}
  /\ attached = {}
  /\ promised = {}

-----------------------------------------------------------------------------
Goto(s, from, to) == stage[s] = from /\ stage' = [stage EXCEPT ![s] = to]
Defer(s, calls) == defers' = [defers EXCEPT ![s] = @ \o calls]

\* The cap, compared under the lock that guards the count.
Full == curConns >= MaxConnections

\* HandleHTTP; a browser's Origin is forbidden, and so is the one too many.
Request_NoDefer(s) ==
  /\ ~Full
  /\ Goto(s, "new", "accept")
  /\ curConns' = curConns + 1
  /\ UNCHANGED <<config, defers, shown, open, activePeers, senders, passwordSem, registered,
                 promised>>
Request(s) ==
  /\ ~Full
  /\ Goto(s, "new", "accept")
  /\ curConns' = curConns + 1
  /\ Defer(s, <<"count">>)
  /\ UNCHANGED <<config, shown, open, activePeers, senders, passwordSem, registered, promised>>

Forbidden(s) ==
  /\ Goto(s, "new", "refused")
  /\ UNCHANGED <<config, defers, shown, counters, passwordSem, registered, promised>>

\* websocket.Accept and newConn.
Accept(s) ==
  /\ Goto(s, "accept", "hello")
  /\ open' = open \cup {s}
  /\ Defer(s, <<"conn">>)
  /\ UNCHANGED <<config, shown, curConns, activePeers, senders, passwordSem, registered,
                 promised>>

-----------------------------------------------------------------------------
(* doPasswordWork: never waits *)

Busy == passwordSem >= PasswordChecks

\* A good hello within its budget.  Without a server password nothing is checked,
\* and with one a hello without any is refused: see HelloFails.
AfterHello_BusyPasses(s, pw) ==
  IF ~gated \/ Busy THEN Goto(s, "hello", "peer") /\ UNCHANGED passwordSem
  ELSE /\ pw # "none"
       /\ Goto(s, "hello", "checking")
       /\ passwordSem' = passwordSem + 1
AfterHello(s, pw) ==
  IF ~gated THEN Goto(s, "hello", "peer") /\ UNCHANGED passwordSem
  ELSE /\ pw # "none"
       /\ ~Busy
       /\ Goto(s, "hello", "checking")
       /\ passwordSem' = passwordSem + 1

Hello(s, pw) ==
  /\ AfterHello(s, pw)
  /\ shown' = [shown EXCEPT ![s] = pw]
  /\ UNCHANGED <<config, defers, counters, registered, promised>>

\* bcrypt has compared; the deferred receive frees the slot whatever it found.
Released_OnSuccess(s) ==
  passwordSem' = IF shown[s] = "right" THEN passwordSem - 1 ELSE passwordSem
Released(s) == passwordSem' = passwordSem - 1

Checked(s) ==
  /\ Goto(s, "checking", IF shown[s] = "right" THEN "peer" ELSE "leaving")
  /\ Released(s)
  /\ UNCHANGED <<config, defers, shown, counters, registered, promised>>

\* room_create and room_join with a password: hashed or compared, or refused with
\* nothing changed.
HashRoomPassword(s) ==
  /\ ~Busy
  /\ Goto(s, "serving", "hashing")
  /\ passwordSem' = passwordSem + 1
  /\ UNCHANGED <<config, defers, shown, counters, registered, promised>>

Hashed(s) ==
  /\ Goto(s, "hashing", "serving")
  /\ passwordSem' = passwordSem - 1
  /\ UNCHANGED <<config, defers, shown, counters, registered, promised>>

-----------------------------------------------------------------------------
(* The rest of run *)

NewPeer(s) ==
  /\ Goto(s, "peer", IF udp THEN "mint" ELSE "welcome")
  /\ activePeers' = activePeers + 1
  /\ senders' = senders \cup {s}
  /\ Defer(s, <<"gauge", "sender">>)
  /\ UNCHANGED <<config, shown, curConns, open, passwordSem, registered, promised>>

\* A token for the welcome, if there is an endpoint to advertise with it.
MintToken(s, endpoint) ==
  /\ Goto(s, "mint", "attach")
  /\ tokens' = IF endpoint THEN tokens \cup {s} ELSE tokens
  /\ UNCHANGED <<config, defers, shown, counters, passwordSem, attached, promised>>

AttachPeer_NoDefer(s) ==
  /\ Goto(s, "attach", "welcome")
  /\ attached' = attached \cup {s}
  /\ UNCHANGED <<config, defers, shown, counters, passwordSem, tokens, promised>>
AttachPeer(s) ==
  /\ Goto(s, "attach", "welcome")
  /\ attached' = attached \cup {s}
  /\ Defer(s, <<"udp">>)
  /\ UNCHANGED <<config, shown, counters, passwordSem, tokens, promised>>

Welcome(s) ==
  /\ Goto(s, "welcome", "serving")
  /\ promised' = IF s \in tokens THEN promised \cup {s} ELSE promised
  /\ UNCHANGED <<config, defers, shown, counters, passwordSem, registered>>

\* A session ends where an error makes it return: no upgrade, no or a bad hello or
\* one too many, a password that is missing or cannot be checked now, no
\* randomness, no way to send the welcome; or the connection is lost.
HelloFails_NoTimeout(s) ==
  /\ gated /\ Busy
  /\ Goto(s, "hello", "leaving")
  /\ UNCHANGED <<config, defers, shown, counters, passwordSem, registered, promised>>
HelloFails(s) ==
  /\ Goto(s, "hello", "leaving")
  /\ UNCHANGED <<config, defers, shown, counters, passwordSem, registered, promised>>

Fails(s) ==
  /\ \E from \in {"accept", "mint", "welcome"} : Goto(s, from, "leaving")
  /\ UNCHANGED <<config, defers, shown, counters, passwordSem, registered, promised>>

Disconnect(s) ==
  /\ Goto(s, "serving", "leaving")
  /\ UNCHANGED <<config, defers, shown, counters, passwordSem, registered, promised>>

-----------------------------------------------------------------------------
(* The deferred calls *)

NextCall_FirstFirst(calls) == <<Head(calls), Tail(calls)>>
NextCall(calls) == <<Last(calls), Front(calls)>>

Unwind(s) ==
  LET call == NextCall(defers[s])[1]
      without(S, name) == IF call = name THEN S \ {s} ELSE S
      less(n, name) == IF call = name THEN n - 1 ELSE n IN
  /\ stage[s] = "leaving"
  /\ defers[s] # <<>>
  /\ defers' = [defers EXCEPT ![s] = NextCall(defers[s])[2]]
  /\ tokens' = without(tokens, "udp")
  /\ attached' = without(attached, "udp")
  /\ senders' = without(senders, "sender")
  /\ activePeers' = less(activePeers, "gauge")
  /\ open' = without(open, "conn")
  /\ curConns' = less(curConns, "count")
  /\ UNCHANGED <<config, stage, shown, passwordSem, promised>>

Gone(s) ==
  /\ defers[s] = <<>>
  /\ Goto(s, "leaving", "gone")
  /\ UNCHANGED <<config, defers, shown, counters, passwordSem, registered, promised>>

-----------------------------------------------------------------------------
Handshake(s) ==
  \/ Accept(s) \/ Checked(s) \/ NewPeer(s)
  \/ \E endpoint \in BOOLEAN : MintToken(s, endpoint)
  \/ AttachPeer(s) \/ Welcome(s) \/ Fails(s)

Leave(s) == Unwind(s) \/ Gone(s)

Next ==
  \E s \in Sessions :
    \/ Request(s) \/ Forbidden(s)
    \/ \E pw \in Passwords : Hello(s, pw)
    \/ HelloFails(s)
    \/ Handshake(s)
    \/ HashRoomPassword(s) \/ Hashed(s)
    \/ Disconnect(s)
    \/ Leave(s)

Spec == Init /\ [][Next]_vars

\* Goroutines run, bcrypt ends, and the wait for a hello is bounded by helloTimeout.
Fairness ==
  \A s \in Sessions :
    /\ WF_vars(HelloFails(s))
    /\ WF_vars(Handshake(s))
    /\ WF_vars(Hashed(s))
    /\ WF_vars(Leave(s))

FairSpec == Spec /\ Fairness

-----------------------------------------------------------------------------
(* Safety *)

\* No more connections are open than the cap allows, also while sessions are on
\* their way out: a slot is given back after its connection is closed
\* (dispatch.go:138-174).
ConnectionsWithinCap == Cardinality(open) <= MaxConnections

\* With a server password nobody is served, nor counted, nor registered for UDP,
\* who has not shown it, however busy the server is (dispatch.go:228-256).
OnlyCheckedAreServed ==
  gated => \A s \in senders \cup tokens \cup attached \cup promised : shown[s] = "right"

\* The counters the limits are compared with are exact in every state: a slot of
\* the cap and a place in the gauge belong to a session that has still to give it
\* back, and a slot of the semaphore to a goroutine in bcrypt, however many
\* sessions fail at once (dispatch.go:138-156, 258-260, 744-753).
CountersAreExact ==
  /\ curConns = Cardinality({s \in Sessions : Contains(defers[s], "count")})
  /\ activePeers = Cardinality({s \in Sessions : Contains(defers[s], "gauge")})
  /\ passwordSem = Cardinality({s \in Sessions : stage[s] \in {"checking", "hashing"}})

\* The token in a welcome can be redeemed at once and as long as the session is
\* served, and it cannot afterwards (dispatch.go:283-297).
PromisedTokensAreGood ==
  \A s \in Sessions :
    /\ stage[s] \in {"serving", "hashing"} => (s \in promised <=> s \in tokens)
    /\ s \in promised /\ stage[s] \in {"serving", "hashing"} => s \in attached
    /\ stage[s] = "gone" => s \notin tokens \cup attached

-----------------------------------------------------------------------------
(* Liveness *)

\* A connection does not stay in the handshake: it is served, or everything it
\* took is given back (dispatch.go:192-199).
HandshakeEnds ==
  \A s \in Sessions : stage[s] = "accept" ~> stage[s] \in {"serving", "gone"}
=============================================================================
