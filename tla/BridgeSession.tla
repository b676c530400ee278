----------------------------- MODULE BridgeSession -----------------------------
(***************************************************************************)
(* One plugin session of the local bridge, cmd/bridge/main.go:             *)
(*                                                                         *)
(*   plugin --ws--> handlePlugin --ws--> server                            *)
(*   plugin --udp-> loopFromPlugin --udp-> server                          *)
(*   plugin <-udp-- loopFromUpstream <-udp-- server                        *)
(*                                                                         *)
(* Two relay goroutines copy WebSocket messages.  The one from the server  *)
(* rewrites the first welcome, so that the plugin sends its UDP to a proxy *)
(* which is opened for this session only.  The proxy's two loops share     *)
(* pendingAddr and pluginAddr under a mutex; each locked section is a step *)
(* and the write that follows it is another.  Either relay may fail at any *)
(* time, which ends the session: the other relay is cancelled, and the     *)
(* deferred calls close the proxy and both connections.                    *)
(*                                                                         *)
(* UDP may lose and delay datagrams.  The server answers the hellos it has *)
(* received with welcomes and may then send audio; datagrams from other    *)
(* sources, on either side, may arrive at any time.                        *)
(***************************************************************************)
EXTENDS Naturals, FiniteSets

CONSTANTS
  Locals,      \* UDP source addresses on the plugin's machine
  PluginAddrs, \* those the plugin itself sends from
  NoAddr       \* a nil *net.UDPAddr

ASSUME BridgeAssumption ==
  /\ PluginAddrs \subseteq Locals
  /\ NoAddr \notin Locals

VARIABLES
  session,     \* handlePlugin: see Stages
  relay,       \* [Relays -> {"new", "run", "write", "done"}]
  cancelled,   \* relayCtx
  message,     \* what relayWithRewrite has in hand
  sniffed,     \* sniffOnce; the server sends one welcome
  told,        \* the UDP metadata of the welcome the plugin received
  proxy,       \* rewriter.proxy: "none", "open", "closing" or "closed"
  pendingAddr, \* the source of an accepted hello
  pluginAddr,  \* the bound source
  outLoop,     \* loopFromPlugin
  inLoop,      \* loopFromUpstream
  helloed,     \* a hello of this session has reached the server
  passedUp,    \* history: the local sources whose datagrams went upstream
  heard        \* history: [Locals -> SUBSET kinds]: what was sent back to each

wsVars == <<session, relay, cancelled, message, sniffed, told>>
udpVars == <<pendingAddr, pluginAddr, outLoop, inLoop, helloed, passedUp, heard>>
vars == <<wsVars, proxy, udpVars>>

Stages == {"dialing", "relaying", "closing", "closed"}

(* UDP metadata in a welcome: none; incomplete or malformed; complete, with *)
(* an endpoint that can or cannot be used; the proxy's own.                 *)
Metadata == {"none", "partial", "unusable", "server", "local"}

\* A welcome in hand is known by its metadata.
Messages == {"nothing", "other"} \cup Metadata

Relays == {"out", "in"}
Kinds == {"welcome", "audio"}

Reading == [step |-> "read", addr |-> NoAddr, kind |-> "audio"]
Gone == [step |-> "gone", addr |-> NoAddr, kind |-> "audio"]
Loop == {Reading, Gone} \cup [step : {"write"}, addr : Locals, kind : Kinds \cup {"hello"}]

Init ==
  /\ session = "dialing"
  /\ relay = [r \in Relays |-> "new"]
  /\ cancelled = FALSE
  /\ message = "nothing"
  /\ sniffed = FALSE
  /\ told = "none"
  /\ proxy = "none"
  /\ pendingAddr = NoAddr
  /\ pluginAddr = NoAddr
  /\ outLoop = Gone
  /\ inLoop = Gone
  /\ helloed = FALSE
  /\ passedUp = {}
  /\ heard = [a \in Locals |-> {}]

-----------------------------------------------------------------------------
(* handlePlugin *)

\* The plugin has been accepted; websocket.Dial succeeds and the relays start.
DialSucceeds ==
  /\ session = "dialing"
  /\ session' = "relaying"
  /\ relay' = [r \in Relays |-> "run"]
  /\ UNCHANGED <<cancelled, message, sniffed, told, proxy, udpVars>>

\* It fails or takes too long: the plugin is told and the session is over.
DialFails ==
  /\ session = "dialing"
  /\ session' = "closed"
  /\ UNCHANGED <<relay, cancelled, message, sniffed, told, proxy, udpVars>>

\* A relay returns, on an error of either connection or because the other has
\* returned, and cancels the context they share.
RelayEnds(r) ==
  /\ relay[r] \in {"run", "write"}
  /\ relay' = [relay EXCEPT ![r] = "done"]
  /\ cancelled' = TRUE
  /\ message' = IF r = "in" THEN "nothing" ELSE message
  /\ UNCHANGED <<session, sniffed, told, proxy, udpVars>>

\* wg.Wait returns; the deferred rewriter.close starts with the proxy's sockets.
BothRelaysDone ==
  /\ session = "relaying"
  /\ \A r \in Relays : relay[r] = "done"
  /\ session' = "closing"
  /\ proxy' = IF proxy = "open" THEN "closing" ELSE proxy
  /\ UNCHANGED <<relay, cancelled, message, sniffed, told, udpVars>>

\* udpProxy.close has waited for its loops, and the two connections are closed.
LoopsGone_NotAwaited == TRUE
LoopsGone == outLoop = Gone /\ inLoop = Gone

SessionEnds ==
  /\ session = "closing"
  /\ LoopsGone
  /\ session' = "closed"
  /\ proxy' = IF proxy = "closing" THEN "closed" ELSE proxy
  /\ UNCHANGED <<relay, cancelled, message, sniffed, told, udpVars>>

-----------------------------------------------------------------------------
(* relayWithRewrite; what relayPassthrough copies is not looked at *)

\* What becomes of the metadata: without any the welcome passes unchanged, and
\* what is not one complete usable set is stripped.
Rewritten_PartialKept(m) == IF m = "server" THEN "local" ELSE m
Rewritten(m) == IF m = "server" THEN "local" ELSE "none"

OpenProxy ==
  /\ proxy' = "open"
  /\ outLoop' = Reading
  /\ inLoop' = Reading

\* A message is read from the server.  The first welcome is rewritten, and the
\* proxy opened for it, before it is passed on.
ReadWelcome(m) ==
  /\ relay["in"] = "run"
  /\ ~sniffed
  /\ sniffed' = TRUE
  /\ message' = Rewritten(m)
  /\ relay' = [relay EXCEPT !["in"] = "write"]
  /\ IF m = "server" THEN OpenProxy ELSE UNCHANGED <<proxy, outLoop, inLoop>>
  /\ UNCHANGED <<session, cancelled, told, pendingAddr, pluginAddr, helloed,
                 passedUp, heard>>

ReadOther ==
  /\ relay["in"] = "run"
  /\ message' = "other"
  /\ relay' = [relay EXCEPT !["in"] = "write"]
  /\ UNCHANGED <<session, cancelled, sniffed, told, proxy, udpVars>>

PassOn ==
  /\ relay["in"] = "write"
  /\ told' = IF message = "other" THEN told ELSE message
  /\ message' = "nothing"
  /\ relay' = [relay EXCEPT !["in"] = "run"]
  /\ UNCHANGED <<session, cancelled, sniffed, proxy, udpVars>>

-----------------------------------------------------------------------------
(* The proxy: loopFromPlugin *)

\* A hello with the session's peer id and token can come from the plugin only,
\* after it has heard of the proxy.
HelloValid(a) == a \in PluginAddrs /\ told = "local"

\* Before the binding: a valid hello, from the source of the first one.
HelloFits_AnySource(a) == TRUE
HelloFits(a) == pendingAddr \in {NoAddr, a}

\* After it: the bound source only.
Accepted_WithoutToken(a, hello) ==
  IF pluginAddr # NoAddr THEN a = pluginAddr ELSE HelloFits(a)
Accepted(a, hello) ==
  IF pluginAddr # NoAddr THEN a = pluginAddr ELSE hello /\ HelloFits(a)

FromPlugin(a, hello) ==
  /\ proxy = "open"
  /\ outLoop = Reading
  /\ hello => HelloValid(a)
  /\ Accepted(a, hello)
  /\ pendingAddr' = IF pluginAddr = NoAddr THEN a ELSE pendingAddr
  /\ outLoop' = [step |-> "write", addr |-> a,
                 kind |-> IF hello THEN "hello" ELSE "audio"]
  /\ UNCHANGED <<wsVars, proxy, pluginAddr, inLoop, helloed, passedUp, heard>>

\* The datagram reaches the server, or it does not.
WriteUpstream(arrives) ==
  /\ proxy = "open"
  /\ outLoop.step = "write"
  /\ outLoop' = Reading
  /\ passedUp' = passedUp \cup {outLoop.addr}
  /\ helloed' = (helloed \/ (arrives /\ outLoop.kind = "hello"))
  /\ UNCHANGED <<wsVars, proxy, pendingAddr, pluginAddr, inLoop, heard>>

-----------------------------------------------------------------------------
(* The proxy: loopFromUpstream *)

\* What completes the binding.
Completes(kind) == kind = "welcome" /\ pendingAddr # NoAddr

\* A datagram from the resolved upstream address; any other source is dropped.
FromUpstream(kind) ==
  LET dst == IF pluginAddr # NoAddr THEN pluginAddr ELSE pendingAddr IN
  /\ proxy = "open"
  /\ inLoop = Reading
  /\ helloed
  /\ pluginAddr # NoAddr \/ Completes(kind)
  /\ pluginAddr' = dst
  /\ pendingAddr' = IF pluginAddr = NoAddr THEN NoAddr ELSE pendingAddr
  /\ inLoop' = [step |-> "write", addr |-> dst, kind |-> kind]
  /\ UNCHANGED <<wsVars, proxy, outLoop, helloed, passedUp, heard>>

WriteToPlugin ==
  /\ proxy = "open"
  /\ inLoop.step = "write"
  /\ inLoop' = Reading
  /\ heard' = [heard EXCEPT ![inLoop.addr] = @ \cup {inLoop.kind}]
  /\ UNCHANGED <<wsVars, proxy, pendingAddr, pluginAddr, outLoop, helloed, passedUp>>

\* A loop returns for good on any error of its read: because its socket is closed,
\* after what it was writing, or while the session goes on (on Windows also for a
\* datagram that does not fit the buffer, whoever has sent it).
MayReturn(loop) == loop = Reading \/ (loop # Gone /\ proxy = "closing")

OutLoopReturns_Never == FALSE /\ UNCHANGED vars
OutLoopReturns ==
  /\ MayReturn(outLoop)
  /\ outLoop' = Gone
  /\ UNCHANGED <<wsVars, proxy, pendingAddr, pluginAddr, inLoop, helloed, passedUp, heard>>

InLoopReturns ==
  /\ MayReturn(inLoop)
  /\ inLoop' = Gone
  /\ UNCHANGED <<wsVars, proxy, pendingAddr, pluginAddr, outLoop, helloed, passedUp, heard>>

-----------------------------------------------------------------------------
HandlePlugin == DialSucceeds \/ DialFails \/ BothRelaysDone \/ SessionEnds

Relay ==
  \/ \E m \in {"none", "partial", "unusable", "server"} : ReadWelcome(m)
  \/ ReadOther
  \/ PassOn
  \/ \E r \in Relays : RelayEnds(r)

Proxy ==
  \/ \E a \in Locals, hello \in BOOLEAN : FromPlugin(a, hello)
  \/ \E arrives \in BOOLEAN : WriteUpstream(arrives)
  \/ \E kind \in Kinds : FromUpstream(kind)
  \/ WriteToPlugin
  \/ OutLoopReturns
  \/ InLoopReturns

Next == HandlePlugin \/ Relay \/ Proxy

Spec == Init /\ [][Next]_vars

\* Goroutines run, and what waits on a cancelled context or a closed socket is
\* woken.  Connections and reads need not fail.
Fairness ==
  /\ WF_vars(HandlePlugin)
  /\ \A r \in Relays : WF_vars(cancelled /\ RelayEnds(r))
  /\ WF_vars(proxy = "closing" /\ OutLoopReturns)
  /\ WF_vars(proxy = "closing" /\ InLoopReturns)

\* A plugin repeats its hello from each of its addresses until it is answered, and
\* some of the datagrams arrive.
Persistence ==
  /\ WF_vars(PassOn)
  /\ \A a \in PluginAddrs : SF_vars(FromPlugin(a, TRUE))
  /\ SF_vars(outLoop.kind = "hello" /\ WriteUpstream(TRUE))
  /\ WF_vars(\E arrives \in BOOLEAN : WriteUpstream(arrives))
  /\ SF_vars(FromUpstream("welcome"))

FairSpec == Spec /\ Fairness
PersistentSpec == FairSpec /\ Persistence

-----------------------------------------------------------------------------
(* Safety *)

\* In a session the server hears one local source, and only that source hears the
\* server, its welcome first: no other process on the machine gets in between
\* hello, welcome and binding, and audio that overtakes the welcome completes
\* nothing (main.go:93-97, 186-208, 217-247).
OneWelcomedSource ==
  /\ Cardinality(passedUp) <= 1
  /\ \A a \in Locals : heard[a] # {} => a \in passedUp /\ "welcome" \in heard[a]

\* The plugin is offered UDP only through this session's proxy, and only with
\* complete credentials; otherwise all metadata is gone and it stays with
\* WebSocket audio (main.go:568-571, 610-612).
OfferedUdpIsProxied ==
  /\ told \in {"none", "local"}
  /\ told = "local" => proxy # "none"

\* When the session is over nothing of it is left running (main.go:255-265, 522,
\* 536), whichever relay failed and whatever it was doing.
NothingOutlivesSession ==
  session = "closed" =>
    /\ proxy \in {"none", "closed"}
    /\ outLoop = Gone /\ inLoop = Gone
    /\ \A r \in Relays : relay[r] \in {"new", "done"}

-----------------------------------------------------------------------------
(* Liveness *)

\* Once a relay has returned, the session comes to its end (main.go:517-538).
SessionTearsDown == cancelled ~> session = "closed"

\* A plugin that was offered UDP and does not give up an address gets its binding,
\* although datagrams are lost and other processes send to the proxy, as long as no
\* read of the proxy fails; no loop is started again, so that after an error the
\* plugin keeps an offer nobody serves until the session ends (main.go:176-208,
\* 223-247).
PersistentPluginIsBound ==
  told = "local" ~> (pluginAddr # NoAddr \/ cancelled \/ Gone \in {outLoop, inLoop})
=============================================================================
