---------------------------- MODULE UdpPlaneProofs ----------------------------
(***************************************************************************)
(* Proofs about UdpPlane for any number of peers, addresses and            *)
(* forwarders.  The address maps are inverse to each other only because a  *)
(* routed peer is always attached with a valid token, and a frame in       *)
(* flight goes to its peer's own address only because a spent token is     *)
(* never valid again; Inv says all of it at once.                          *)
(***************************************************************************)
EXTENDS UdpPlane, TLAPS

\* A forwarder works for peers whose sender has once been attached.
ForwardersKnowPeers ==
  \A f \in Forwarders : fwd[f] # NoJob => Known(fwd[f].peer)

Inv ==
  /\ TypeOK
  /\ RoutesMatchPeers
  /\ RoutedPeersAreAttached
  /\ ForwardersKnowPeers
  /\ InFlightIsOwn

-----------------------------------------------------------------------------
\* No peer, no route, no forwarder at work.
LEMMA InitInv == Init => Inv
  <1> SUFFICES ASSUME Init PROVE Inv
    OBVIOUS
  <1>1. TypeOK
    BY UdpAssumption DEF Init, TypeOK, Stages, Waiting, MaxAge, Jobs
  <1>2. RoutesMatchPeers /\ RoutedPeersAreAttached
    BY UdpAssumption DEF Init, RoutesMatchPeers, RoutedPeersAreAttached
  <1>3. ForwardersKnowPeers /\ InFlightIsOwn
    BY DEF Init, ForwardersKnowPeers, InFlightIsOwn, NoJob
  <1> QED
    BY <1>1, <1>2, <1>3 DEF Inv

\* The record of a job determines its fields.
LEMMA JobFields ==
  /\ NoJob.step = "idle"
  /\ \A j \in Jobs :
       /\ j.step \in {"idle", "check", "write"}
       /\ j.step = "idle" => j = NoJob
       /\ j.step # "idle" => j.peer \in Peers
       /\ j.step = "write" => j.addr \in Addrs
  BY DEF Jobs, NoJob

\* The steps of a session register and remove only the session's own peer.
LEMMA SessionInv ==
  ASSUME Inv, NEW p \in Peers, Session(p)
  PROVE  Inv'
  <1> USE UdpAssumption, JobFields DEF Inv, Session, MintToken, AttachPeer, AttachUdpSender, DetachUdpSender, DetachPeer, RoutesWithout, MoveTo
  <1>1. TypeOK'
    BY DEF TypeOK, Stages, Waiting, MaxAge, Jobs, Known
  <1>2. RoutesMatchPeers'
    BY DEF TypeOK, RoutesMatchPeers
  <1>3. RoutedPeersAreAttached'
    BY DEF TypeOK, RoutesMatchPeers, RoutedPeersAreAttached
  <1>4. ForwardersKnowPeers'
    BY DEF TypeOK, ForwardersKnowPeers, Known
  <1>5. InFlightIsOwn'
    BY DEF TypeOK, RoutesMatchPeers, ForwardersKnowPeers, Known, InFlightIsOwn
  <1> QED
    BY <1>1, <1>2, <1>3, <1>4, <1>5

\* A hello binds an attached peer with a valid token to a free address (server.go:314-353).
LEMMA HelloInv ==
  ASSUME Inv, NEW p \in Peers, NEW a \in Addrs, Hello(p, a)
  PROVE  Inv'
  <1> USE UdpAssumption, JobFields DEF Inv, Hello, HelloAccepted
  <1>1. TypeOK'
    BY DEF TypeOK, Stages, Waiting, MaxAge, Jobs, Known
  <1>2. RoutesMatchPeers'
    BY DEF TypeOK, RoutesMatchPeers
  <1>3. RoutedPeersAreAttached'
    BY DEF TypeOK, RoutesMatchPeers, RoutedPeersAreAttached
  <1>4. ForwardersKnowPeers'
    BY DEF TypeOK, ForwardersKnowPeers, Known
  <1>5. InFlightIsOwn'
    BY DEF TypeOK, RoutesMatchPeers, ForwardersKnowPeers, Known, InFlightIsOwn
  <1> QED
    BY <1>1, <1>2, <1>3, <1>4, <1>5

\* A ping or an audio frame only renews a lease (server.go:373-381, 392-421).
LEMMA RefreshInv ==
  ASSUME Inv, NEW p \in Peers, NEW a \in Addrs, Refresh(p, a)
  PROVE  Inv'
  <1> USE UdpAssumption, JobFields DEF Inv, Refresh
  <1>1. TypeOK'
    BY DEF TypeOK, Stages, Waiting, MaxAge, Jobs, Known
  <1>2. RoutesMatchPeers'
    BY DEF TypeOK, RoutesMatchPeers
  <1>3. RoutedPeersAreAttached'
    BY DEF TypeOK, RoutesMatchPeers, RoutedPeersAreAttached
  <1>4. ForwardersKnowPeers'
    BY DEF TypeOK, ForwardersKnowPeers, Known
  <1>5. InFlightIsOwn'
    BY DEF TypeOK, RoutesMatchPeers, ForwardersKnowPeers, Known, InFlightIsOwn
  <1> QED
    BY <1>1, <1>2, <1>3, <1>4, <1>5

\* Time only ages the leases.
LEMMA TickInv ==
  ASSUME Inv, Tick \/ ReadClock
  PROVE  Inv'
  <1> USE UdpAssumption, JobFields DEF Inv, Tick, ReadClock, Older
  <1>1. TypeOK'
    BY DEF TypeOK, Stages, Waiting, MaxAge, Jobs, Known
  <1>2. RoutesMatchPeers'
    BY DEF TypeOK, RoutesMatchPeers
  <1>3. RoutedPeersAreAttached'
    BY DEF TypeOK, RoutesMatchPeers, RoutedPeersAreAttached
  <1>4. ForwardersKnowPeers'
    BY DEF TypeOK, ForwardersKnowPeers, Known
  <1>5. InFlightIsOwn'
    BY DEF TypeOK, RoutesMatchPeers, ForwardersKnowPeers, Known, InFlightIsOwn
  <1> QED
    BY <1>1, <1>2, <1>3, <1>4, <1>5

\* The sweep takes route, address and token away together (server.go:460-482).
LEMMA ExpireIdleInv ==
  ASSUME Inv, ExpireIdle
  PROVE  Inv'
  <1> USE UdpAssumption, JobFields DEF Inv, ExpireIdle, Idle, Lapsed
  <1>1. TypeOK'
    BY DEF TypeOK, Stages, Waiting, MaxAge, Jobs, Known
  <1>2. RoutesMatchPeers'
    BY DEF TypeOK, RoutesMatchPeers
  <1>3. RoutedPeersAreAttached'
    BY DEF TypeOK, RoutesMatchPeers, RoutedPeersAreAttached
  <1>4. ForwardersKnowPeers'
    BY DEF TypeOK, ForwardersKnowPeers, Known
  <1>5. InFlightIsOwn'
    BY DEF TypeOK, RoutesMatchPeers, ForwardersKnowPeers, Known, InFlightIsOwn
  <1> QED
    BY <1>1, <1>2, <1>3, <1>4, <1>5

\* A send checks the lease, and drops one that has run out (server.go:225-247).
LEMMA SendInv ==
  ASSUME Inv, NEW f \in Forwarders, NEW p \in Peers, Send(f, p)
  PROVE  Inv'
  <1> USE UdpAssumption, JobFields DEF Inv, Send, PickSender, CheckLease, DropLease, NoUdpRoute, RoutesWithout, Assign, Leased
  <1>1. TypeOK'
    BY DEF TypeOK, Stages, Waiting, MaxAge, Jobs, Known
  <1>2. RoutesMatchPeers'
    BY DEF TypeOK, RoutesMatchPeers
  <1>3. RoutedPeersAreAttached'
    BY DEF TypeOK, RoutesMatchPeers, RoutedPeersAreAttached
  <1>4. ForwardersKnowPeers'
    BY DEF TypeOK, ForwardersKnowPeers, Known
  <1>5. InFlightIsOwn'
    BY DEF TypeOK, RoutesMatchPeers, ForwardersKnowPeers, Known, InFlightIsOwn
  <1> QED
    BY <1>1, <1>2, <1>3, <1>4, <1>5

\* The write happens outside the lock and changes no map (server.go:248-259).
LEMMA WriteInv ==
  ASSUME Inv, NEW f \in Forwarders, WriteToUDP(f)
  PROVE  Inv'
  <1> USE UdpAssumption, JobFields DEF Inv, WriteToUDP, Assign
  <1>1. TypeOK'
    BY DEF TypeOK, Stages, Waiting, MaxAge, Jobs, Known
  <1>2. RoutesMatchPeers'
    BY DEF TypeOK, RoutesMatchPeers
  <1>3. RoutedPeersAreAttached'
    BY DEF TypeOK, RoutesMatchPeers, RoutedPeersAreAttached
  <1>4. ForwardersKnowPeers'
    BY DEF TypeOK, ForwardersKnowPeers, Known
  <1>5. InFlightIsOwn'
    BY DEF TypeOK, RoutesMatchPeers, ForwardersKnowPeers, Known, InFlightIsOwn
  <1> QED
    BY <1>1, <1>2, <1>3, <1>4, <1>5

\* Inv does not depend on what a step leaves alone.
LEMMA StutterInv ==
  ASSUME Inv, UNCHANGED vars
  PROVE  Inv'
  BY DEF Inv, TypeOK, RoutesMatchPeers, RoutedPeersAreAttached, ForwardersKnowPeers,
     InFlightIsOwn, Known, vars

\* Every step keeps Inv.
LEMMA NextInv == Inv /\ [Next]_vars => Inv'
  <1> SUFFICES ASSUME Inv, [Next]_vars PROVE Inv'
    OBVIOUS
  <1>1. ASSUME NEW p \in Peers, Session(p) \/ Datagram(p) PROVE Inv'
    BY <1>1, SessionInv, HelloInv, RefreshInv DEF Datagram
  <1>2. ASSUME NEW f \in Forwarders, NEW p \in Peers, Send(f, p) PROVE Inv'
    BY <1>2, SendInv
  <1>3. ASSUME NEW f \in Forwarders, WriteToUDP(f) PROVE Inv'
    BY <1>3, WriteInv
  <1>4. CASE Tick \/ ReadClock
    BY <1>4, TickInv
  <1>5. CASE ExpireIdle
    BY <1>5, ExpireIdleInv
  <1>6. CASE UNCHANGED vars
    BY <1>6, StutterInv
  <1> QED
    BY <1>1, <1>2, <1>3, <1>4, <1>5, <1>6 DEF Next

\* Inv holds in every reachable state.
THEOREM InductiveInvariant == Spec => []Inv
  BY InitInv, NextInv, PTL DEF Spec

-----------------------------------------------------------------------------
\* Types, and what each stage of a session has registered (server.go:175-217).
THEOREM TypeCorrect == Spec => []TypeOK
  <1>1. Inv => TypeOK
    BY DEF Inv
  <1> QED
    BY <1>1, InductiveInvariant, PTL

\* The address map and the peers' addresses are inverse to each other at every
\* unlock (server.go:206-216, 236-241, 350-352, 472-478).
THEOREM AddressMapsAgree == Spec => []RoutesMatchPeers
  <1>1. Inv => RoutesMatchPeers
    BY DEF Inv
  <1> QED
    BY <1>1, InductiveInvariant, PTL

\* After DetachPeer no address is bound to the peer, and no late hello binds one
\* (server.go:198-217, 316-323).
THEOREM NothingSurvivesDetach == Spec => []RoutedPeersAreAttached
  <1>1. Inv => RoutedPeersAreAttached
    BY DEF Inv
  <1> QED
    BY <1>1, InductiveInvariant, PTL

\* A checked frame goes to its peer's own address unless lease or session ended
\* after the check (server.go:225-248).
THEOREM FramesGoToTheirPeer == Spec => []InFlightIsOwn
  <1>1. Inv => InFlightIsOwn
    BY DEF Inv
  <1> QED
    BY <1>1, InductiveInvariant, PTL

\* A token binds one address in its life: "it can never rebind a live WS peer to a
\* different source address" (server.go:338-339).
THEOREM OneAddressPerToken == Spec => TokenBindsOneAddress
  <1>1. Inv /\ [Next]_vars =>
          \A p \in Peers :
            udpAddr[p] # NoAddr /\ udpAddr'[p] # udpAddr[p]
              => udpAddr'[p] = NoAddr /\ p \notin token'
    <2> SUFFICES ASSUME Inv, [Next]_vars, NEW p \in Peers,
                        udpAddr[p] # NoAddr, udpAddr'[p] # udpAddr[p]
                 PROVE  udpAddr'[p] = NoAddr /\ p \notin token'
      OBVIOUS
    <2> USE DEF Inv, TypeOK, RoutesMatchPeers
    <2>1. ASSUME NEW q \in Peers, Session(q)
          PROVE  udpAddr'[p] = NoAddr /\ p \notin token'
      BY <2>1 DEF Session, MintToken, AttachPeer, AttachUdpSender, DetachUdpSender,
         DetachPeer, MoveTo
    <2>2. ASSUME NEW q \in Peers, Datagram(q)
          PROVE  udpAddr'[p] = NoAddr /\ p \notin token'
      BY <2>2 DEF Datagram, Hello, HelloAccepted, Refresh
    <2>3. ASSUME NEW f \in Forwarders, NEW q \in Peers, Send(f, q)
          PROVE  udpAddr'[p] = NoAddr /\ p \notin token'
      BY <2>3 DEF Send, PickSender, CheckLease, DropLease, NoUdpRoute
    <2>4. CASE ExpireIdle
      BY <2>4 DEF ExpireIdle
    <2> QED
      BY <2>1, <2>2, <2>3, <2>4 DEF Next, WriteToUDP, Tick, ReadClock, vars
  <1> QED
    BY <1>1, InductiveInvariant, PTL DEF Spec, TokenBindsOneAddress

\* An address changes hands only by way of being free (server.go:345-349).
THEOREM RoutesAreNotTaken == Spec => NoRouteIsTaken
  <1>1. Inv /\ [Next]_vars =>
          \A a \in Addrs : route[a] # NoPeer => route'[a] \in {route[a], NoPeer}
    <2> SUFFICES ASSUME Inv, [Next]_vars, NEW a \in Addrs, route[a] # NoPeer
                 PROVE  route'[a] \in {route[a], NoPeer}
      OBVIOUS
    <2> USE DEF Inv, TypeOK, RoutesWithout
    <2>1. ASSUME NEW p \in Peers, Session(p) PROVE route'[a] \in {route[a], NoPeer}
      BY <2>1 DEF Session, MintToken, AttachPeer, AttachUdpSender, DetachUdpSender, DetachPeer
    <2>2. ASSUME NEW p \in Peers, Datagram(p) PROVE route'[a] \in {route[a], NoPeer}
      BY <2>2 DEF Datagram, Hello, HelloAccepted, Refresh
    <2>3. ASSUME NEW f \in Forwarders, NEW p \in Peers, Send(f, p)
          PROVE  route'[a] \in {route[a], NoPeer}
      BY <2>3 DEF Send, PickSender, CheckLease, DropLease, NoUdpRoute
    <2>4. CASE ExpireIdle
      BY <2>4 DEF ExpireIdle
    <2> QED
      BY <2>1, <2>2, <2>3, <2>4 DEF Next, WriteToUDP, Tick, ReadClock, vars
  <1> QED
    BY <1>1, InductiveInvariant, PTL DEF Spec, NoRouteIsTaken

\* A token that has lapsed or was detached is not valid again, and nothing binds
\* its peer any more (server.go:316-323).
THEOREM TokensAreSpentOnce == Spec => SpentTokenStaysSpent
  <1>1. Inv /\ [Next]_vars =>
          \A p \in Peers :
            p \notin token /\ session[p] # "new" => p \notin token' /\ udpAddr'[p] = NoAddr
    <2> SUFFICES ASSUME Inv, [Next]_vars, NEW p \in Peers, p \notin token, session[p] # "new"
                 PROVE  p \notin token' /\ udpAddr'[p] = NoAddr
      OBVIOUS
    <2> USE DEF Inv, TypeOK
    <2>1. udpAddr[p] = NoAddr
      BY UdpAssumption DEF RoutesMatchPeers, RoutedPeersAreAttached
    <2>2. ASSUME NEW q \in Peers, Session(q)
          PROVE  p \notin token' /\ udpAddr'[p] = NoAddr
      BY <2>1, <2>2 DEF Session, MintToken, AttachPeer, AttachUdpSender, DetachUdpSender,
         DetachPeer, MoveTo
    <2>3. ASSUME NEW q \in Peers, Datagram(q)
          PROVE  p \notin token' /\ udpAddr'[p] = NoAddr
      BY <2>1, <2>3 DEF Datagram, Hello, HelloAccepted, Refresh
    <2>4. ASSUME NEW f \in Forwarders, NEW q \in Peers, Send(f, q)
          PROVE  p \notin token' /\ udpAddr'[p] = NoAddr
      BY <2>1, <2>4 DEF Send, PickSender, CheckLease, DropLease, NoUdpRoute
    <2>5. CASE ExpireIdle
      BY <2>1, <2>5 DEF ExpireIdle
    <2> QED
      BY <2>1, <2>2, <2>3, <2>4, <2>5 DEF Next, WriteToUDP, Tick, ReadClock, vars
  <1> QED
    BY <1>1, InductiveInvariant, PTL DEF Spec, SpentTokenStaysSpent
=============================================================================
