------------------------------- MODULE UdpPlane -------------------------------
(***************************************************************************)
(* The routing state of the UDP data plane, internal/udp/server.go: which  *)
(* authenticated peer owns which source address, for how long, and who may *)
(* still use its token.                                                    *)
(*                                                                         *)
(* Every handler holds Server.mu once; each such section is one step.      *)
(* What happens outside it is separate: the two halves of AttachPeer and   *)
(* DetachPeer, the moment gcLoop reads the clock, the moment a room        *)
(* forwarder picks up a peer's UDP sender, and its WriteToUDP.             *)
(*                                                                         *)
(* Datagrams may be lost, duplicated, delayed and reordered, and a peer's  *)
(* source address may change: any hello, ping or audio frame of a peer     *)
(* whose token was sent out may arrive at any time from any address.  A    *)
(* datagram that fails a check (malformed, wrong token, rate limited,      *)
(* wrong peer id) is dropped and changes nothing here.  Peer ids and       *)
(* tokens are random and never reused: one session, one peer, one token.   *)
(***************************************************************************)
EXTENDS Naturals

CONSTANTS
  Peers,        \* peers, one per WebSocket session
  Addrs,        \* UDP source addresses
  Forwarders,   \* room forwarder goroutines
  NoPeer,       \* no binding for an address
  NoAddr,       \* a nil *net.UDPAddr
  IdleTimeout,  \* peerIdleTimeout, in clock ticks
  LagBound      \* bound: ticks between gcLoop's reading of the clock and its lock

ASSUME UdpAssumption ==
  /\ NoPeer \notin Peers
  /\ NoAddr \notin Addrs
  /\ IdleTimeout \in Nat \ {0}
  /\ LagBound \in Nat

VARIABLES
  session,   \* [Peers -> Stages]: where the peer's session is in ws.run
  attached,  \* the peers in peerByID
  token,     \* the peers in tokenByID
  udpAddr,   \* Peer.udpAddr
  route,     \* peerByAddr: the peer of the binding, NoPeer for none
  age,       \* ticks since binding.lastSeen
  sender,    \* the peers whose udpSend is set
  sweep,     \* what gcLoop is doing: Waiting, or the ticks since it read the clock
  fwd        \* [Forwarders -> jobs]: what each forwarder is sending

vars == <<session, attached, token, udpAddr, route, age, sender, sweep, fwd>>

\* "new", MintToken done, in peerByID, serving (the welcome is on its way),
\* AttachUdpSender(nil) done, detached.
Stages == {"new", "minted", "listed", "serving", "leaving", "gone"}

Waiting == LagBound + 1

\* A forwarder is idle, holds the sender closure of a peer, or has passed the
\* lease check and is about to write to an address.
NoJob == [step |-> "idle"]
Jobs == {NoJob}
        \cup [step : {"check"}, peer : Peers]
        \cup [step : {"write"}, peer : Peers, addr : Addrs]

\* Ages are exact up to the oldest a lagging sweep can tell apart.
MaxAge == IdleTimeout + LagBound

\* Types, and what a session has registered at each stage.
TypeOK ==
  /\ session \in [Peers -> Stages]
  /\ attached \subseteq Peers
  /\ token \subseteq Peers
  /\ udpAddr \in [Peers -> Addrs \cup {NoAddr}]
  /\ route \in [Addrs -> Peers \cup {NoPeer}]
  /\ age \in [Addrs -> 0..MaxAge]
  /\ sender \subseteq Peers
  /\ sweep \in 0..Waiting
  /\ fwd \in [Forwarders -> Jobs]
  /\ attached = {p \in Peers : session[p] \in {"listed", "serving", "leaving"}}
  /\ sender = {p \in Peers : session[p] = "serving"}
  /\ \A p \in token : session[p] \notin {"new", "gone"}

Init ==
  /\ session = [p \in Peers |-> "new"]
  /\ attached = {}
  /\ token = {}
  /\ udpAddr = [p \in Peers |-> NoAddr]
  /\ route = [a \in Addrs |-> NoPeer]
  /\ age = [a \in Addrs |-> 0]
  /\ sender = {}
  /\ sweep = Waiting
  /\ fwd = [f \in Forwarders |-> NoJob]

MoveTo(p, from, to) ==
  /\ session[p] = from
  /\ session' = [session EXCEPT ![p] = to]

-----------------------------------------------------------------------------
(* The WebSocket session: MintToken, AttachPeer, DetachPeer *)

MintToken(p) ==
  /\ MoveTo(p, "new", "minted")
  /\ token' = token \cup {p}
  /\ UNCHANGED <<attached, udpAddr, route, age, sender, sweep, fwd>>

AttachPeer(p) ==
  /\ MoveTo(p, "minted", "listed")
  /\ attached' = attached \cup {p}
  /\ UNCHANGED <<token, udpAddr, route, age, sender, sweep, fwd>>

AttachUdpSender(p) ==
  /\ MoveTo(p, "listed", "serving")
  /\ sender' = sender \cup {p}
  /\ UNCHANGED <<attached, token, udpAddr, route, age, sweep, fwd>>

DetachUdpSender(p) ==
  /\ MoveTo(p, "serving", "leaving")
  /\ sender' = sender \ {p}
  /\ UNCHANGED <<attached, token, udpAddr, route, age, sweep, fwd>>

\* The binding is found through the peer's own address, and removed if it is
\* still the peer's.
RoutesWithout_KeepRoute(p) == route
RoutesWithout(p) == [a \in Addrs |->
                       IF a = udpAddr[p] /\ route[a] = p THEN NoPeer ELSE route[a]]

DetachPeer_KeepsToken(p) ==
  /\ MoveTo(p, "leaving", "gone")
  /\ attached' = attached \ {p}
  /\ route' = RoutesWithout(p)
  /\ udpAddr' = [udpAddr EXCEPT ![p] = NoAddr]
  /\ UNCHANGED <<token, age, sender, sweep, fwd>>
DetachPeer(p) ==
  /\ MoveTo(p, "leaving", "gone")
  /\ attached' = attached \ {p}
  /\ token' = token \ {p}
  /\ route' = RoutesWithout(p)
  /\ udpAddr' = [udpAddr EXCEPT ![p] = NoAddr]
  /\ UNCHANGED <<age, sender, sweep, fwd>>

-----------------------------------------------------------------------------
(* Datagrams *)

\* The peer has been sent its token and may have sent datagrams.
Known(p) == session[p] \in {"serving", "leaving", "gone"}

HelloAccepted_Steals(p, a) ==
  /\ p \in attached /\ p \in token
  /\ udpAddr[p] \in {a, NoAddr}
HelloAccepted_Detached(p, a) ==
  /\ udpAddr[p] \in {a, NoAddr}
  /\ route[a] \in {p, NoPeer}
HelloAccepted(p, a) ==
  /\ p \in attached /\ p \in token
  /\ udpAddr[p] \in {a, NoAddr}
  /\ route[a] \in {p, NoPeer}

\* handleHello: a fresh binding, also when the hello is a retry.
Hello(p, a) ==
  /\ Known(p)
  /\ HelloAccepted(p, a)
  /\ udpAddr' = [udpAddr EXCEPT ![p] = a]
  /\ route' = [route EXCEPT ![a] = p]
  /\ age' = [age EXCEPT ![a] = 0]
  /\ UNCHANGED <<session, attached, token, sender, sweep, fwd>>

\* handlePing and the first half of handleAudio: the binding of the source
\* address must be the named peer's.  Its lease is renewed, also one that has run
\* out and has not been swept.
Refresh(p, a) ==
  /\ Known(p)
  /\ route[a] = p
  /\ age' = [age EXCEPT ![a] = 0]
  /\ UNCHANGED <<session, attached, token, udpAddr, route, sender, sweep, fwd>>

-----------------------------------------------------------------------------
(* The clock, and gcLoop with expireIdle *)

Older(n, cap) == IF n < cap THEN n + 1 ELSE n

\* A tick; a sweep that has read the clock gets the lock within LagBound ticks.
Tick ==
  /\ sweep # LagBound
  /\ age' = [a \in Addrs |->
               IF route[a] = NoPeer THEN age[a] ELSE Older(age[a], MaxAge)]
  /\ sweep' = IF sweep = Waiting THEN Waiting ELSE sweep + 1
  /\ UNCHANGED <<session, attached, token, udpAddr, route, sender, fwd>>

\* The ticker fires: s.now() is evaluated before the lock is taken.
ReadClock ==
  /\ sweep = Waiting
  /\ sweep' = 0
  /\ UNCHANGED <<session, attached, token, udpAddr, route, age, sender, fwd>>

\* The bindings that were idle for the timeout when the clock was read.
Idle_EndedSessions == {a \in Addrs : route[a] # NoPeer /\ route[a] \notin attached}
Idle == {a \in Addrs : route[a] # NoPeer /\ age[a] >= IdleTimeout + sweep}

\* The peers that lose their address, and with it their token.
Lapsed == {p \in Peers : udpAddr[p] \in Idle /\ route[udpAddr[p]] = p}

ExpireIdle_KeepsToken ==
  /\ sweep # Waiting
  /\ sweep' = Waiting
  /\ route' = [a \in Addrs |-> IF a \in Idle THEN NoPeer ELSE route[a]]
  /\ udpAddr' = [p \in Peers |-> IF p \in Lapsed THEN NoAddr ELSE udpAddr[p]]
  /\ UNCHANGED <<session, attached, token, age, sender, fwd>>
ExpireIdle ==
  /\ sweep # Waiting
  /\ sweep' = Waiting
  /\ route' = [a \in Addrs |-> IF a \in Idle THEN NoPeer ELSE route[a]]
  /\ udpAddr' = [p \in Peers |-> IF p \in Lapsed THEN NoAddr ELSE udpAddr[p]]
  /\ token' = token \ Lapsed
  /\ UNCHANGED <<session, attached, age, sender, fwd>>

-----------------------------------------------------------------------------
(* A room forwarder sends to a peer: Peer.SendBinary and makeUdpSender *)

Assign(f, job) == fwd' = [fwd EXCEPT ![f] = job]

\* SendBinary reads udpSend under Peer.mu and uses it afterwards.
PickSender(f, p) ==
  /\ fwd[f] = NoJob
  /\ p \in sender
  /\ Assign(f, [step |-> "check", peer |-> p])
  /\ UNCHANGED <<session, attached, token, udpAddr, route, age, sender, sweep>>

Leased(p) == route[udpAddr[p]] = p /\ age[udpAddr[p]] < IdleTimeout

\* The closure takes Server.mu and finds a live lease: it will write to it.
CheckLease(f, p) ==
  /\ fwd[f] = [step |-> "check", peer |-> p]
  /\ udpAddr[p] # NoAddr
  /\ Leased(p)
  /\ Assign(f, [step |-> "write", peer |-> p, addr |-> udpAddr[p]])
  /\ UNCHANGED <<session, attached, token, udpAddr, route, age, sender, sweep>>

\* It finds none: it removes what has run out and the frame goes by WebSocket.
DropLease(f, p) ==
  /\ fwd[f] = [step |-> "check", peer |-> p]
  /\ udpAddr[p] # NoAddr
  /\ ~Leased(p)
  /\ route' = RoutesWithout(p)
  /\ udpAddr' = [udpAddr EXCEPT ![p] = NoAddr]
  /\ token' = IF route[udpAddr[p]] = p THEN token \ {p} ELSE token
  /\ Assign(f, NoJob)
  /\ UNCHANGED <<session, attached, age, sender, sweep>>

NoUdpRoute(f, p) ==
  /\ fwd[f] = [step |-> "check", peer |-> p]
  /\ udpAddr[p] = NoAddr
  /\ Assign(f, NoJob)
  /\ UNCHANGED <<session, attached, token, udpAddr, route, age, sender, sweep>>

\* WriteToUDP, after the unlock; an error sends the frame by WebSocket.
WriteToUDP(f) ==
  /\ fwd[f].step = "write"
  /\ Assign(f, NoJob)
  /\ UNCHANGED <<session, attached, token, udpAddr, route, age, sender, sweep>>

-----------------------------------------------------------------------------
Session(p) ==
  \/ MintToken(p)
  \/ AttachPeer(p)
  \/ AttachUdpSender(p)
  \/ DetachUdpSender(p)
  \/ DetachPeer(p)

Datagram(p) == \E a \in Addrs : Hello(p, a) \/ Refresh(p, a)

Send(f, p) ==
  \/ PickSender(f, p)
  \/ CheckLease(f, p)
  \/ DropLease(f, p)
  \/ NoUdpRoute(f, p)

Next ==
  \/ \E p \in Peers : Session(p) \/ Datagram(p)
  \/ \E f \in Forwarders, p \in Peers : Send(f, p)
  \/ \E f \in Forwarders : WriteToUDP(f)
  \/ Tick
  \/ ReadClock
  \/ ExpireIdle

Spec == Init /\ [][Next]_vars

\* Time passes, the ticker of gcLoop fires and the mutex is granted.  No client
\* sends anything it does not want to send.
FairSpec == Spec /\ WF_vars(Tick) /\ WF_vars(ReadClock) /\ WF_vars(ExpireIdle)

-----------------------------------------------------------------------------
(* Safety *)

\* peerByAddr and the peers' own addresses are inverse to each other at every
\* unlock: audio arriving from an address and audio sent to a peer agree on who
\* is where, and no entry is left that its peer can no longer find
\* (server.go:206-216, 236-241, 340-352, 472-478).
RoutesMatchPeers ==
  \A p \in Peers, a \in Addrs : route[a] = p <=> udpAddr[p] = a

\* Only a peer whose session lasts and whose token is valid is routed, so a hello
\* that arrives late binds nothing and DetachPeer leaves nothing behind
\* (server.go:198-217, 316-323).
RoutedPeersAreAttached ==
  \A a \in Addrs : route[a] # NoPeer => route[a] \in attached /\ route[a] \in token

\* A frame that has passed the lease check is written to the peer's own address,
\* unless the peer's lease or session has ended since the unlock
\* (server.go:225-248).
InFlightIsOwn ==
  \A f \in Forwarders : fwd[f].step = "write" =>
    \/ route[fwd[f].addr] = fwd[f].peer
    \/ fwd[f].peer \notin token

-----------------------------------------------------------------------------
(* Action properties *)

\* A token "can never rebind a live WS peer to a different source address"
\* (server.go:338-339): a peer's address changes only by being given up, and then
\* the token is given up with it.
TokenBindsOneAddress ==
  [][\A p \in Peers :
       udpAddr[p] # NoAddr /\ udpAddr'[p] # udpAddr[p]
         => udpAddr'[p] = NoAddr /\ p \notin token']_vars

\* A token that has been given up stays so, and without one a peer is not bound
\* again (TestExpiredTokenCannotRebindAfterLeaseExpiry, TestDetachInvalidatesToken).
SpentTokenStaysSpent ==
  [][\A p \in Peers :
       p \notin token /\ session[p] # "new" => p \notin token' /\ udpAddr'[p] = NoAddr]_vars

\* An address passes from one peer to another only after the first has lost it
\* (server.go:345-349).
NoRouteIsTaken ==
  [][\A a \in Addrs : route[a] # NoPeer => route'[a] \in {route[a], NoPeer}]_vars

-----------------------------------------------------------------------------
(* Liveness *)

\* A binding that hears nothing is removed, so that sending falls back to
\* WebSocket (README.md:18, server.go:50-56).
SilentRouteExpires ==
  \A a \in Addrs :
    route[a] # NoPeer /\ age[a] >= IdleTimeout ~> (route[a] = NoPeer \/ age[a] = 0)
=============================================================================
