----------------------------- MODULE BridgeProofs -----------------------------
(***************************************************************************)
(* Proofs about the bridge: a plugin session (BridgeSession), for any      *)
(* local addresses and any number of messages and datagrams, and the life  *)
(* of the processes (BridgeProcess), for any number of bridges, of other   *)
(* programs, of process ids and of probes.                                 *)
(*                                                                         *)
(* That one local source is served rests on the candidate: the binding if  *)
(* there is one, else the pending address.  Once it is set it never        *)
(* changes, every datagram that is passed up comes from it, and the server *)
(* answers only when it has heard of it.  That nothing outlives the        *)
(* session rests on the order in which relays, proxy and loops end.        *)
(*                                                                         *)
(* The reclaim: while b has a handle open, what keeps ids from being used  *)
(* again (IdsAreUnique) makes the owner that is listed at the recheck the  *)
(* process of the handle.  Serving: ServeInv says how far main and the     *)
(* goroutine of Serve can be apart, and who owns the listener meanwhile.   *)
(***************************************************************************)
EXTENDS BridgeSession, BridgeProcess, FiniteSetTheorems, TLAPS

-----------------------------------------------------------------------------
(* BridgeSession: what is invariant *)

Types ==
  /\ session \in Stages
  /\ relay \in [Relays -> {"new", "run", "write", "done"}]
  /\ message \in {"nothing", "other", "none", "local"}
  /\ told \in {"none", "local"}
  /\ proxy \in {"none", "open", "closing", "closed"}
  /\ pendingAddr \in Locals \cup {NoAddr}
  /\ pluginAddr \in Locals \cup {NoAddr}
  /\ outLoop \in Loop /\ inLoop \in Loop
  /\ inLoop.step = "write" => inLoop.kind \in Kinds
  /\ passedUp \subseteq Locals
  /\ heard \in [Locals -> SUBSET Kinds]

\* How far the session is determines what of it is running.
StageInv ==
  /\ session = "dialing" =>
       /\ \A r \in Relays : relay[r] = "new"
       /\ proxy = "none" /\ ~sniffed
  /\ session = "relaying" => proxy \in {"none", "open"}
  /\ session \in {"closing", "closed"} => \A r \in Relays : relay[r] \in {"new", "done"}
  /\ session = "closing" => proxy \in {"none", "closing"}
  /\ session = "closed" => proxy \in {"none", "closed"}
  /\ proxy \in {"none", "closed"} => outLoop = Gone /\ inLoop = Gone
  /\ proxy # "none" => sniffed
  /\ relay["in"] = "write" => message # "nothing"
  /\ message = "local" \/ told = "local" => proxy # "none"

\* The only local source there is.
Candidate == IF pluginAddr # NoAddr THEN pluginAddr ELSE pendingAddr

BindingInv ==
  /\ passedUp \subseteq {Candidate}
  /\ outLoop.step = "write" => outLoop.addr = Candidate
  /\ helloed => Candidate \in passedUp
  /\ pluginAddr # NoAddr => helloed /\ proxy # "none"
  /\ inLoop.step = "write" =>
       /\ inLoop.addr = pluginAddr
       /\ inLoop.kind = "welcome" \/ "welcome" \in heard[pluginAddr]
  /\ pluginAddr # NoAddr /\ proxy = "open" =>
       \/ inLoop.step = "write" /\ inLoop.kind = "welcome"
       \/ "welcome" \in heard[pluginAddr]
  /\ \A a \in Locals : heard[a] # {} => a = pluginAddr /\ "welcome" \in heard[a]

SessionInv == Types /\ StageInv /\ BindingInv

-----------------------------------------------------------------------------
(* The inductive invariant *)

\* What a loop may be doing.
LEMMA LoopFields ==
  /\ Reading \in Loop /\ Reading.step = "read"
  /\ Gone \in Loop /\ Gone.step = "gone"
  /\ Reading # Gone
  /\ \A a \in Locals, k \in Kinds \cup {"hello"} :
       [step |-> "write", addr |-> a, kind |-> k] \in Loop
  /\ \A l \in Loop : l.step = "write" => l.addr \in Locals
  BY DEF Loop, Reading, Gone

\* A session that is dialing has no proxy and no source.
LEMMA InitSessionInv == Init => SessionInv
  <1> SUFFICES ASSUME Init PROVE SessionInv
    OBVIOUS
  <1> USE BridgeAssumption, LoopFields DEF Init
  <1>1. Types
    BY DEF Types, Stages, Relays
  <1>2. StageInv
    BY DEF StageInv, Relays
  <1>3. BindingInv
    BY DEF BindingInv, Candidate
  <1> QED
    BY <1>1, <1>2, <1>3 DEF SessionInv

\* handlePlugin's own steps (main.go:483-538).
LEMMA HandlePluginInv ==
  ASSUME SessionInv, HandlePlugin PROVE SessionInv'
  <1> USE BridgeAssumption, LoopFields
      DEF SessionInv, HandlePlugin, DialSucceeds, DialFails, BothRelaysDone, SessionEnds,
          LoopsGone, udpVars
  <1>1. Types'
    BY DEF Types, Stages, Relays
  <1>2. StageInv'
    BY DEF Types, Stages, StageInv, Relays
  <1>3. BindingInv'
    BY DEF Types, StageInv, BindingInv, Candidate
  <1> QED
    BY <1>1, <1>2, <1>3

\* The relays' steps; only the first welcome opens the proxy.
LEMMA RelayInv ==
  ASSUME SessionInv, Relay PROVE SessionInv'
  <1> USE BridgeAssumption, LoopFields
      DEF SessionInv, Relay, ReadWelcome, ReadOther, PassOn, RelayEnds, OpenProxy, Rewritten,
          udpVars
  <1>1. Types'
    BY DEF Types, Stages, StageInv, Relays
  <1>2. StageInv'
    BY DEF Types, Stages, StageInv, Relays
  <1>3. BindingInv'
    BY DEF Types, StageInv, BindingInv, Candidate
  <1> QED
    BY <1>1, <1>2, <1>3

\* A datagram from a local source: the candidate is chosen once (main.go:186-208).
LEMMA FromPluginInv ==
  ASSUME SessionInv, NEW a \in Locals, NEW hello \in BOOLEAN, FromPlugin(a, hello)
  PROVE  SessionInv'
  <1> USE BridgeAssumption, LoopFields DEF SessionInv, FromPlugin, Accepted, HelloFits, wsVars
  <1>1. Types'
    BY DEF Types, Kinds
  <1>2. StageInv'
    BY DEF Types, StageInv
  <1>3. BindingInv'
    BY DEF Types, BindingInv, Candidate, Kinds
  <1> QED
    BY <1>1, <1>2, <1>3

\* It is passed up, and a hello makes the server answer (main.go:211-213).
LEMMA WriteUpstreamInv ==
  ASSUME SessionInv, NEW arrives \in BOOLEAN, WriteUpstream(arrives)
  PROVE  SessionInv'
  <1> USE BridgeAssumption, LoopFields DEF SessionInv, WriteUpstream, wsVars
  <1>1. Types'
    BY DEF Types, Kinds
  <1>2. StageInv'
    BY DEF Types, StageInv
  <1>3. BindingInv'
    BY DEF Types, BindingInv, Candidate, Kinds
  <1> QED
    BY <1>1, <1>2, <1>3

\* A welcome turns the candidate into the binding (main.go:217-247).
LEMMA FromUpstreamInv ==
  ASSUME SessionInv, NEW kind \in Kinds, FromUpstream(kind)
  PROVE  SessionInv'
  <1> USE BridgeAssumption, LoopFields DEF SessionInv, FromUpstream, Completes, wsVars
  <1>1. Types'
    BY DEF Types, Kinds
  <1>2. StageInv'
    BY DEF Types, StageInv
  <1>3. BindingInv'
    BY DEF Types, BindingInv, Candidate, Kinds
  <1> QED
    BY <1>1, <1>2, <1>3

\* Only the bound source is written to (main.go:249-251).
LEMMA WriteToPluginInv ==
  ASSUME SessionInv, WriteToPlugin
  PROVE  SessionInv'
  <1> USE BridgeAssumption, LoopFields DEF SessionInv, WriteToPlugin, wsVars
  <1>1. Types'
    BY DEF Types, Kinds
  <1>2. StageInv'
    BY DEF Types, StageInv
  <1>3. BindingInv'
    BY DEF Types, BindingInv, Candidate, Kinds
  <1> QED
    BY <1>1, <1>2, <1>3

\* A loop returns on an error of its read (main.go:176-182, 223-229).
LEMMA LoopReturnsInv ==
  ASSUME SessionInv, OutLoopReturns \/ InLoopReturns
  PROVE  SessionInv'
  <1> USE BridgeAssumption, LoopFields
      DEF SessionInv, OutLoopReturns, InLoopReturns, MayReturn, wsVars
  <1>1. Types'
    BY DEF Types, Kinds
  <1>2. StageInv'
    BY DEF Types, StageInv
  <1>3. BindingInv'
    BY DEF Types, BindingInv, Candidate, Kinds
  <1> QED
    BY <1>1, <1>2, <1>3

\* Nothing that matters changes in a stuttering step.
LEMMA StutterInv == SessionInv /\ UNCHANGED vars => SessionInv'
  BY DEF SessionInv, Types, StageInv, BindingInv, Candidate, vars, wsVars, udpVars

\* SessionInv holds in every reachable state.
THEOREM SessionInvariant == Spec => []SessionInv
  <1>1. SessionInv /\ [Next]_vars => SessionInv'
    <2> SUFFICES ASSUME SessionInv, [Next]_vars PROVE SessionInv'
      OBVIOUS
    <2>1. CASE HandlePlugin
      BY <2>1, HandlePluginInv
    <2>2. CASE Relay
      BY <2>2, RelayInv
    <2>3. CASE Proxy
      BY <2>3, FromPluginInv, WriteUpstreamInv, FromUpstreamInv, WriteToPluginInv,
         LoopReturnsInv DEF Proxy
    <2>4. CASE UNCHANGED vars
      BY <2>4, StutterInv
    <2> QED
      BY <2>1, <2>2, <2>3, <2>4 DEF Next
  <1> QED
    BY InitSessionInv, <1>1, PTL DEF Spec

-----------------------------------------------------------------------------
(* The safety properties *)

\* One local source is heard by the server, it alone hears the server, and its
\* welcome comes first (main.go:186-247).
THEOREM OneSourceIsServed == Spec => []OneWelcomedSource
  <1>1. SessionInv => OneWelcomedSource
    <2> SUFFICES ASSUME SessionInv PROVE OneWelcomedSource
      OBVIOUS
    <2>1. IsFiniteSet({Candidate}) /\ Cardinality({Candidate}) = 1
      BY FS_Singleton
    <2>2. Cardinality(passedUp) <= 1
      <3>1. passedUp \subseteq {Candidate}
        BY DEF SessionInv, BindingInv
      <3>2. Cardinality(passedUp) <= Cardinality({Candidate})
        BY <2>1, <3>1, FS_Subset
      <3> QED
        BY <2>1, <3>2
    <2>3. \A a \in Locals : heard[a] # {} => a \in passedUp /\ "welcome" \in heard[a]
      BY BridgeAssumption DEF SessionInv, BindingInv, Candidate
    <2> QED
      BY <2>2, <2>3 DEF OneWelcomedSource
  <1> QED
    BY <1>1, SessionInvariant, PTL

\* The plugin is told of UDP only when this session's proxy is there
\* (main.go:568-612).
THEOREM UdpIsProxied == Spec => []OfferedUdpIsProxied
  <1>1. SessionInv => OfferedUdpIsProxied
    BY DEF SessionInv, Types, StageInv, OfferedUdpIsProxied
  <1> QED
    BY <1>1, SessionInvariant, PTL

\* A session that is over leaves no relay, no loop and no proxy
\* (main.go:255-265, 522-536).
THEOREM SessionLeavesNothing == Spec => []NothingOutlivesSession
  <1>1. SessionInv => NothingOutlivesSession
    BY DEF SessionInv, StageInv, NothingOutlivesSession
  <1> QED
    BY <1>1, SessionInvariant, PTL

-----------------------------------------------------------------------------
(* BridgeProcess: what is invariant *)

IdsAreUnique ==
  /\ holder # NoProc => life[holder] # "unborn"
  /\ \A x \in Procs : Pinned(x) => pid[x] \in Pids
  /\ \A x, y \in Procs : Pinned(x) /\ Pinned(y) /\ pid[x] = pid[y] => x = y

BeforeKill == {"none", "check", "enumerate", "open", "recheck", "terminate"}
BeforeBind == BeforeKill \cup {"wait", "settle", "last", "bind"}

ReclaimInv(b) ==
  /\ life[b] = "unborn" => pc[b] = "none"
  /\ pc[b] \in {"none", "check", "enumerate", "open"} => handle[b] = NoProc
  /\ pc[b] \in {"recheck", "terminate", "wait"} => handle[b] \in Bridges \ {b}
  /\ pc[b] = "terminate" => confirmed[b] = handle[b]
  /\ pc[b] \in BeforeKill => victim[b] = NoProc
  /\ victim[b] # NoProc => victim[b] = confirmed[b] /\ victim[b] \in Bridges \ {b}

Listening(b) == server[b] \in {"starting", "accepting"}

ServeInv(b) ==
  /\ pc[b] \in BeforeBind => server[b] = "none"
  /\ pc[b] = "gate" => server[b] \in {"starting", "accepting", "failed"}
  /\ pc[b] \in {"serve", "shutdown"} => server[b] \in {"accepting", "failed"}
  /\ pc[b] = "drain" => server[b] \in {"failed", "closed"}
  /\ pc[b] = "done" => server[b] \in {"none", "failed", "closed"}
  /\ life[b] = "live" /\ Listening(b) => holder = b
  /\ life[b] = "live" /\ holder = b => Listening(b) \/ pc[b] \in {"check", "settle", "last"}
  /\ stop[b] => asked[b]
  /\ pc[b] \in {"shutdown", "drain", "done"} /\ code[b] = 0 => asked[b]
  /\ pc[b] = "done" /\ code[b] = 0 => server[b] # "none"

ProcessInv ==
  /\ TypeOK
  /\ IdsAreUnique
  /\ \A b \in Bridges : ReclaimInv(b)
  /\ \A b \in Bridges : ServeInv(b)

-----------------------------------------------------------------------------
LEMMA InitProcessInv == ProcessInit => ProcessInv
<1> SUFFICES ASSUME ProcessInit PROVE ProcessInv
  OBVIOUS
<1> USE BridgeProcessAssumption DEF ProcessInit, Procs
<1>1. TypeOK
  BY DEF TypeOK, Steps, Servers, Codes
<1>2. \A x \in Procs : ~Pinned(x)
  BY DEF Pinned, Exists
<1>3. IdsAreUnique
  BY <1>2 DEF IdsAreUnique
<1>4. \A b \in Bridges : ReclaimInv(b) /\ ServeInv(b)
  BY DEF ReclaimInv, ServeInv, Listening, BeforeKill, BeforeBind
<1> QED BY <1>1, <1>3, <1>4 DEF ProcessInv

\* Types: every step keeps them.
LEMMA TypePreserved == ProcessInv /\ [ProcessNext]_processVars => TypeOK'
<1> SUFFICES ASSUME ProcessInv, [ProcessNext]_processVars PROVE TypeOK'
  OBVIOUS
<1>0. TypeOK
  BY DEF ProcessInv
<1> USE <1>0 DEF TypeOK, Steps, Servers, Codes, reclaim, serving
<1>1. ASSUME NEW b \in Bridges, Reclaim(b) PROVE TypeOK'
  <2>1. ASSUME ProbeBinds(b) \/ ProbeFree(b) \/ FoundBusy(b) \/ GiveUp(b) PROVE TypeOK'
    BY <2>1 DEF ProbeBinds, ProbeFree, FoundBusy, GiveUp, Goto, Procs
  <2>2. ASSUME Enumerate(b) PROVE TypeOK'
    BY <2>2 DEF Enumerate, Goto
  <2>3. ASSUME NEW x \in Bridges, Open(b, x) PROVE TypeOK'
    BY <2>3 DEF Open, Goto, Procs
  <2>4. ASSUME Recheck(b) \/ Wait(b) PROVE TypeOK'
    BY <2>4 DEF Recheck, Wait, Goto
  <2>5. ASSUME Terminate(b) PROVE TypeOK'
    BY <2>5 DEF Terminate, Goto
  <2>6. ASSUME ReclaimFails(b) \/ LastBusy(b) PROVE TypeOK'
    BY <2>6 DEF ReclaimFails, LastBusy, Returns, Goto
  <2>7. ASSUME StillBusy(b) PROVE TypeOK'
    BY <2>7, BridgeProcessAssumption DEF StillBusy, Settle
  <2> QED BY <1>1, <2>1, <2>2, <2>3, <2>4, <2>5, <2>6, <2>7 DEF Reclaim
<1>2. ASSUME NEW b \in Bridges, ServeBridge(b) PROVE TypeOK'
  <2>1. ASSUME Binds(b) PROVE TypeOK'
    BY <2>1 DEF Binds, AfterBind, Goto, Procs
  <2>2. ASSUME BindFails(b) \/ FailedAtOnce(b) \/ Drained(b) PROVE TypeOK'
    BY <2>2 DEF BindFails, FailedAtOnce, Drained, Returns, CodeOfLostBind, Goto
  <2>3. ASSUME Ready(b) \/ Stopped(b) PROVE TypeOK'
    BY <2>3 DEF Ready, Stopped, Goto
  <2>5. ASSUME ServeError(b) PROVE TypeOK'
    BY <2>5 DEF ServeError, Goto
  <2>4. ASSUME Shutdown(b) \/ Exits(b) PROVE TypeOK'
    BY <2>4 DEF Shutdown, Exits, Goto, Procs
  <2> QED BY <1>2, <2>1, <2>2, <2>3, <2>4, <2>5 DEF ServeBridge
<1>3. ASSUME NEW b \in Bridges, ServeStarts(b) \/ ServeFails(b) \/ Signal(b) PROVE TypeOK'
  BY <1>3 DEF ServeStarts, ServeFails, Signal, Kept
<1>4. ASSUME NEW x \in Procs, NEW n \in Pids, Start(x, n) PROVE TypeOK'
  BY <1>4 DEF Start, Goto
<1>5. ASSUME NEW x \in Procs, Dies(x) PROVE TypeOK'
  BY <1>5 DEF Dies
<1>6. ASSUME NEW o \in Others, OtherBinds(o) \/ OtherCloses(o) PROVE TypeOK'
  BY <1>6 DEF OtherBinds, OtherCloses, Procs
<1>7. CASE Freed
  BY <1>7 DEF Freed
<1>8. CASE UNCHANGED processVars
  BY <1>8 DEF processVars
<1> QED BY <1>1, <1>2, <1>3, <1>4, <1>5, <1>6, <1>7, <1>8 DEF ProcessNext, Machine

-----------------------------------------------------------------------------
(* Process ids *)

\* A step that starts no process, and gives the address and handles only to and of
\* processes that exist already.
LEMMA PinsShrink ==
  ASSUME TypeOK, TypeOK', IdsAreUnique, pid' = pid,
         \A x \in Procs : Exists(x)' => Exists(x),
         \A x \in Procs : life'[x] = "unborn" => life[x] = "unborn",
         holder' \in {holder, NoProc} \/ Exists(holder'),
         \A b \in Bridges : handle'[b] \in {handle[b], NoProc} \/ Pinned(handle'[b])
  PROVE  IdsAreUnique'
<1>1. ASSUME NEW x \in Procs, Pinned(x)' PROVE Pinned(x)
  <2>1. x # NoProc
    BY BridgeProcessAssumption
  <2>2. CASE Exists(x)'
    BY <2>2 DEF Pinned
  <2>3. CASE holder' = x
    BY <2>1, <2>3 DEF Pinned
  <2>4. ASSUME NEW b \in Bridges, Exists(b)', handle'[b] = x PROVE Pinned(x)
    BY <2>1, <2>4 DEF Pinned, Procs
  <2> QED BY <1>1, <2>2, <2>3, <2>4 DEF Pinned
<1>2. holder' # NoProc => life'[holder'] # "unborn"
  BY DEF IdsAreUnique, Exists, TypeOK
<1> QED BY <1>1, <1>2 DEF IdsAreUnique

\* Only a start makes another process, and its id is not in use.
LEMMA IdsPreserved == ProcessInv /\ [ProcessNext]_processVars => IdsAreUnique'
<1> SUFFICES ASSUME ProcessInv, [ProcessNext]_processVars PROVE IdsAreUnique'
  OBVIOUS
<1>0. TypeOK /\ TypeOK' /\ IdsAreUnique
  BY TypePreserved DEF ProcessInv
<1>1. ASSUME NEW x \in Procs, NEW n \in Pids, Start(x, n) PROVE IdsAreUnique'
  <2>1. pid' = [pid EXCEPT ![x] = n] /\ \A y \in Procs : pid[y] = n => ~Pinned(y)
    BY <1>1 DEF Start
  <2>2. ASSUME NEW y \in Procs, y # x, Pinned(y)' PROVE Pinned(y)
    <3>1. holder' = holder /\ handle' = handle /\ life' = [life EXCEPT ![x] = "live"]
      BY <1>1 DEF Start, reclaim
    <3>2. ASSUME NEW b \in Bridges, Exists(b)', handle[b] = y PROVE Pinned(y)
      <4>1. b \in Procs /\ y # NoProc
        BY BridgeProcessAssumption DEF Procs
      <4>2. b # x
        BY <1>1, <3>2, <4>1 DEF Start, ProcessInv, ReclaimInv
      <4> QED BY <1>0, <3>1, <3>2, <4>1, <4>2 DEF Pinned, Exists, TypeOK
    <3> QED BY <1>0, <2>2, <3>1, <3>2 DEF Pinned, Exists, TypeOK
  <2>3. holder' # NoProc => life'[holder'] # "unborn"
    BY <1>0, <1>1 DEF Start, IdsAreUnique, TypeOK
  <2> QED BY <1>0, <2>1, <2>2, <2>3 DEF IdsAreUnique, TypeOK
<1>2. ASSUME NEW b \in Bridges, Reclaim(b) PROVE IdsAreUnique'
  <2> USE <1>0, PinsShrink DEF reclaim, serving
  <2>1. ASSUME NEW x \in Bridges, Open(b, x) PROVE IdsAreUnique'
    BY <2>1 DEF Open, TypeOK, Exists
  <2>2. ASSUME ProbeBinds(b) PROVE IdsAreUnique'
    BY <2>2 DEF ProbeBinds, Probing, Exists
  <2>3. ASSUME ProbeFree(b) \/ FoundBusy(b) \/ GiveUp(b) \/ StillBusy(b) PROVE IdsAreUnique'
    BY <2>3 DEF ProbeFree, FoundBusy, GiveUp, StillBusy, Exists
  <2>4. ASSUME Enumerate(b) \/ Recheck(b) PROVE IdsAreUnique'
    BY <2>4 DEF Enumerate, Recheck, Exists
  <2>5. ASSUME Wait(b) PROVE IdsAreUnique'
    BY <2>5 DEF Wait, TypeOK, Exists
  <2>6. ASSUME Terminate(b) PROVE IdsAreUnique'
    BY <2>6 DEF Terminate, TypeOK, Exists
  <2>7. ASSUME ReclaimFails(b) PROVE IdsAreUnique'
    BY <2>7 DEF ReclaimFails, Returns, TypeOK, Exists
  <2>8. ASSUME LastBusy(b) PROVE IdsAreUnique'
    BY <2>8 DEF LastBusy, Returns, TypeOK, Exists
  <2> QED BY <1>2, <2>1, <2>2, <2>3, <2>4, <2>5, <2>6, <2>7, <2>8 DEF Reclaim
<1>3. ASSUME NEW b \in Bridges, ServeBridge(b) PROVE IdsAreUnique'
  <2> USE <1>0, PinsShrink DEF reclaim, serving
  <2>1. ASSUME Binds(b) PROVE IdsAreUnique'
    BY <2>1 DEF Binds, At, Exists
  <2>2. ASSUME BindFails(b) PROVE IdsAreUnique'
    BY <2>2 DEF BindFails, Returns, TypeOK, Exists
  <2>3. ASSUME FailedAtOnce(b) PROVE IdsAreUnique'
    BY <2>3 DEF FailedAtOnce, Returns, TypeOK, Exists
  <2>4. ASSUME Drained(b) PROVE IdsAreUnique'
    BY <2>4 DEF Drained, Returns, TypeOK, Exists
  <2>5. ASSUME Ready(b) \/ Stopped(b) \/ ServeError(b) \/ Shutdown(b) PROVE IdsAreUnique'
    BY <2>5 DEF Ready, Stopped, ServeError, Shutdown, Exists
  <2>6. ASSUME Exits(b) PROVE IdsAreUnique'
    BY <2>6 DEF Exits, TypeOK, Exists
  <2> QED BY <1>3, <2>1, <2>2, <2>3, <2>4, <2>5, <2>6 DEF ServeBridge
<1>4. ASSUME NEW b \in Bridges, ServeStarts(b) \/ ServeFails(b) PROVE IdsAreUnique'
  BY <1>0, <1>4, PinsShrink DEF ServeStarts, ServeFails, Exists, reclaim
<1>5. ASSUME NEW b \in Bridges, Signal(b) PROVE IdsAreUnique'
  BY <1>0, <1>5, PinsShrink DEF Signal, TypeOK, Exists, reclaim
<1>6. ASSUME NEW x \in Procs, Dies(x) PROVE IdsAreUnique'
  BY <1>0, <1>6, PinsShrink DEF Dies, TypeOK, Exists, reclaim
<1>7. ASSUME NEW o \in Others, OtherBinds(o) \/ OtherCloses(o) PROVE IdsAreUnique'
  BY <1>0, <1>7, PinsShrink DEF OtherBinds, OtherCloses, Exists, reclaim
<1>8. CASE Freed
  BY <1>0, <1>8, PinsShrink DEF Freed, Exists, reclaim
<1>9. CASE UNCHANGED processVars
  BY <1>0, <1>9, PinsShrink DEF processVars, Exists, reclaim
<1> QED BY <1>1, <1>2, <1>3, <1>4, <1>5, <1>6, <1>7, <1>8, <1>9 DEF ProcessNext, Machine

-----------------------------------------------------------------------------
(* The reclaim *)

LEMMA ReclaimUntouched ==
  ASSUME NEW b \in Bridges, ReclaimInv(b), life'[b] = "unborn" => life[b] = "unborn",
         pc'[b] = pc[b], handle'[b] = handle[b], confirmed'[b] = confirmed[b],
         victim'[b] = victim[b]
  PROVE  ReclaimInv(b)'
BY DEF ReclaimInv

\* A step of main of c, of any kind, leaves the reclaim of another alone.
LEMMA ReclaimOfOthers ==
  ASSUME TypeOK, NEW c \in Bridges, Reclaim(c) \/ ServeBridge(c), NEW b \in Bridges, b # c,
         ReclaimInv(b)
  PROVE  ReclaimInv(b)'
<1> USE DEF TypeOK, Goto, Returns, reclaim
<1>1. ASSUME Reclaim(c) PROVE ReclaimInv(b)'
  <2>1. ASSUME NEW x \in Bridges, Open(c, x) PROVE ReclaimInv(b)'
    BY <2>1, ReclaimUntouched DEF Open
  <2>2. ASSUME ProbeBinds(c) \/ ProbeFree(c) \/ FoundBusy(c) \/ GiveUp(c) PROVE ReclaimInv(b)'
    BY <2>2, ReclaimUntouched DEF ProbeBinds, ProbeFree, FoundBusy, GiveUp
  <2>3. ASSUME Enumerate(c) \/ Recheck(c) \/ StillBusy(c) PROVE ReclaimInv(b)'
    BY <2>3, ReclaimUntouched DEF Enumerate, Recheck, StillBusy
  <2>4. ASSUME Terminate(c) PROVE ReclaimInv(b)'
    BY <2>4, ReclaimUntouched DEF Terminate
  <2>5. ASSUME Wait(c) PROVE ReclaimInv(b)'
    BY <2>5, ReclaimUntouched DEF Wait
  <2>6. ASSUME ReclaimFails(c) \/ LastBusy(c) PROVE ReclaimInv(b)'
    BY <2>6, ReclaimUntouched DEF ReclaimFails, LastBusy
  <2> QED BY <1>1, <2>1, <2>2, <2>3, <2>4, <2>5, <2>6 DEF Reclaim
<1>2. ASSUME ServeBridge(c) PROVE ReclaimInv(b)'
  <2>1. ASSUME Binds(c) \/ Ready(c) \/ Stopped(c) \/ ServeError(c) PROVE ReclaimInv(b)'
    BY <2>1, ReclaimUntouched DEF Binds, Ready, Stopped, ServeError
  <2>2. ASSUME BindFails(c) \/ FailedAtOnce(c) \/ Drained(c) PROVE ReclaimInv(b)'
    BY <2>2, ReclaimUntouched DEF BindFails, FailedAtOnce, Drained
  <2>3. ASSUME Shutdown(c) PROVE ReclaimInv(b)'
    BY <2>3, ReclaimUntouched DEF Shutdown
  <2>4. ASSUME Exits(c) PROVE ReclaimInv(b)'
    BY <2>4, ReclaimUntouched DEF Exits, Procs
  <2> QED BY <1>2, <2>1, <2>2, <2>3, <2>4 DEF ServeBridge
<1> QED BY <1>1, <1>2

\* The recheck: of the listed owner and the open handle only one can have the id.
LEMMA RecheckConfirmsHandle ==
  ASSUME ProcessInv, NEW b \in Bridges, Recheck(b)
  PROVE  holder = handle[b]
<1>1. /\ At(b, "recheck") /\ holder # NoProc /\ pid[holder] = pid[handle[b]]
      /\ TypeOK /\ IdsAreUnique /\ ReclaimInv(b)
  BY DEF Recheck, StillHolding, ProcessInv
<1>2. handle[b] \in Bridges /\ Exists(b)
  BY <1>1 DEF At, ReclaimInv, Exists
<1>3. handle[b] \in Procs /\ holder \in Procs
  BY <1>1, <1>2 DEF Procs, TypeOK
<1>4. Pinned(handle[b]) /\ Pinned(holder)
  BY <1>2, <1>3 DEF Pinned
<1> QED BY <1>1, <1>3, <1>4 DEF IdsAreUnique

LEMMA OwnReclaim ==
  ASSUME ProcessInv, NEW b \in Bridges, Reclaim(b) PROVE ReclaimInv(b)'
<1>0. TypeOK /\ ReclaimInv(b)
  BY DEF ProcessInv
<1> USE <1>0 DEF TypeOK, ReclaimInv, At, Goto, Returns, BeforeKill, reclaim
<1>1. ASSUME ProbeBinds(b) \/ StillBusy(b) PROVE ReclaimInv(b)'
  BY <1>1 DEF ProbeBinds, StillBusy
<1>2. ASSUME ProbeFree(b) PROVE ReclaimInv(b)'
  BY <1>2 DEF ProbeFree, Probing
<1>3. ASSUME FoundBusy(b) \/ GiveUp(b) PROVE ReclaimInv(b)'
  BY <1>3 DEF FoundBusy, GiveUp
<1>4. ASSUME Enumerate(b) PROVE ReclaimInv(b)'
  BY <1>4 DEF Enumerate
<1>5. ASSUME NEW x \in Bridges, Open(b, x) PROVE ReclaimInv(b)'
  BY <1>5 DEF Open
<1>6. ASSUME Recheck(b) PROVE ReclaimInv(b)'
  BY <1>6, RecheckConfirmsHandle DEF Recheck
<1>7. ASSUME Terminate(b) PROVE ReclaimInv(b)'
  <2>1. victim'[b] = handle[b] /\ confirmed' = confirmed /\ handle' = handle /\ pc'[b] = "wait"
    BY <1>7 DEF Terminate
  <2> QED BY <1>7, <2>1 DEF Terminate
<1>8. ASSUME Wait(b) PROVE ReclaimInv(b)'
  BY <1>8 DEF Wait
<1>9. ASSUME ReclaimFails(b) \/ LastBusy(b) PROVE ReclaimInv(b)'
  BY <1>9 DEF ReclaimFails, LastBusy
<1> QED BY <1>1, <1>2, <1>3, <1>4, <1>5, <1>6, <1>7, <1>8, <1>9 DEF Reclaim

LEMMA ServingKeepsReclaim ==
  ASSUME ProcessInv, NEW b \in Bridges, ServeBridge(b) PROVE ReclaimInv(b)'
<1>0. TypeOK /\ ReclaimInv(b)
  BY DEF ProcessInv
<1> USE <1>0 DEF TypeOK, ReclaimInv, At, Goto, Returns, BeforeKill, reclaim
<1>1. ASSUME Binds(b) \/ Ready(b) \/ Stopped(b) \/ ServeError(b) PROVE ReclaimInv(b)'
  BY <1>1 DEF Binds, AfterBind, Ready, Stopped, ServeError
<1>2. ASSUME BindFails(b) \/ FailedAtOnce(b) \/ Drained(b) PROVE ReclaimInv(b)'
  BY <1>2 DEF BindFails, FailedAtOnce, Drained
<1>3. ASSUME Shutdown(b) PROVE ReclaimInv(b)'
  BY <1>3 DEF Shutdown
<1>4. ASSUME Exits(b) PROVE ReclaimInv(b)'
  BY <1>4 DEF Exits
<1> QED BY <1>1, <1>2, <1>3, <1>4 DEF ServeBridge

LEMMA ReclaimPreserved == ProcessInv /\ [ProcessNext]_processVars => \A b \in Bridges : ReclaimInv(b)'
<1> SUFFICES ASSUME ProcessInv, [ProcessNext]_processVars, NEW b \in Bridges PROVE ReclaimInv(b)'
  OBVIOUS
<1>0. TypeOK /\ ReclaimInv(b) /\ b \in Procs
  BY DEF ProcessInv, Procs
<1> USE <1>0 DEF reclaim
<1>1. ASSUME NEW c \in Bridges, Reclaim(c) \/ ServeBridge(c) PROVE ReclaimInv(b)'
  BY <1>1, ReclaimOfOthers, OwnReclaim, ServingKeepsReclaim
<1>2. ASSUME NEW c \in Bridges, ServeStarts(c) \/ ServeFails(c) PROVE ReclaimInv(b)'
  BY <1>2, ReclaimUntouched DEF ServeStarts, ServeFails
<1>3. ASSUME NEW c \in Bridges, Signal(c) PROVE ReclaimInv(b)'
  BY <1>3, ReclaimUntouched DEF Signal, TypeOK, Procs
<1>4. ASSUME NEW x \in Procs, NEW n \in Pids, Start(x, n) PROVE ReclaimInv(b)'
  <2>1. life' = [life EXCEPT ![x] = "live"] /\ handle' = handle /\ confirmed' = confirmed
        /\ victim' = victim /\ life[x] = "unborn"
    BY <1>4 DEF Start
  <2>2. CASE b = x
    <3>1. pc'[b] \in {"check", "bind"}
      BY <1>4, <2>2 DEF Start, Goto, TypeOK
    <3> QED BY <2>1, <2>2, <3>1 DEF ReclaimInv, BeforeKill, TypeOK
  <2>3. CASE b # x
    BY <1>4, <2>1, <2>3, ReclaimUntouched DEF Start, Goto, TypeOK
  <2> QED BY <2>2, <2>3
<1>5. ASSUME NEW x \in Procs, Dies(x) PROVE ReclaimInv(b)'
  BY <1>5, ReclaimUntouched DEF Dies, TypeOK
<1>6. ASSUME NEW o \in Others, OtherBinds(o) \/ OtherCloses(o) PROVE ReclaimInv(b)'
  BY <1>6, ReclaimUntouched DEF OtherBinds, OtherCloses
<1>7. CASE Freed \/ UNCHANGED processVars
  BY <1>7, ReclaimUntouched DEF Freed, processVars
<1> QED BY <1>1, <1>2, <1>3, <1>4, <1>5, <1>6, <1>7 DEF ProcessNext, Machine

-----------------------------------------------------------------------------
(* Serving *)

\* Whoever else moves leaves b's listener to b.
LEMMA ServeUntouched ==
  ASSUME NEW b \in Bridges, ServeInv(b), life'[b] = "live" => life[b] = "live",
         pc'[b] = pc[b], server'[b] = server[b], stop'[b] = stop[b], asked'[b] = asked[b],
         code'[b] = code[b], life[b] = "live" => (holder' = b <=> holder = b)
  PROVE  ServeInv(b)'
BY DEF ServeInv, Listening

LEMMA ServeOfOthers ==
  ASSUME TypeOK, NEW c \in Bridges, ServeInv(c), NEW b \in Bridges, b # c, ServeInv(b),
         \/ Reclaim(c)
         \/ ServeBridge(c)
         \/ ServeStarts(c) \/ ServeFails(c) \/ Signal(c)
  PROVE  ServeInv(b)'
<1>0. b # NoProc
  BY BridgeProcessAssumption DEF Procs
<1> USE <1>0 DEF TypeOK, Goto, Returns, At, serving
<1>1. ASSUME Reclaim(c) PROVE ServeInv(b)'
  <2>1. ASSUME NEW x \in Bridges, Open(c, x) PROVE ServeInv(b)'
    BY <2>1, ServeUntouched DEF Open
  <2>2. ASSUME ProbeBinds(c) PROVE ServeInv(b)'
    BY <2>2, ServeUntouched DEF ProbeBinds
  <2>3. ASSUME ProbeFree(c) PROVE ServeInv(b)'
    BY <2>3, ServeUntouched DEF ProbeFree
  <2>4. ASSUME FoundBusy(c) \/ GiveUp(c) \/ StillBusy(c) PROVE ServeInv(b)'
    BY <2>4, ServeUntouched DEF FoundBusy, GiveUp, StillBusy
  <2>5. ASSUME Enumerate(c) \/ Recheck(c) \/ Wait(c) PROVE ServeInv(b)'
    BY <2>5, ServeUntouched DEF Enumerate, Recheck, Wait
  <2>6. ASSUME Terminate(c) PROVE ServeInv(b)'
    <3>1. life'[b] = "live" => life[b] = "live"
      BY <2>6, BridgeProcessAssumption DEF Terminate, Procs
    <3> QED BY <2>6, <3>1, ServeUntouched DEF Terminate
  <2>7. ASSUME ReclaimFails(c) \/ LastBusy(c) PROVE ServeInv(b)'
    BY <2>7, ServeUntouched DEF ReclaimFails, LastBusy
  <2> QED BY <1>1, <2>1, <2>2, <2>3, <2>4, <2>5, <2>6, <2>7 DEF Reclaim
<1>2. ASSUME ServeBridge(c) PROVE ServeInv(b)'
  <2>1. ASSUME Binds(c) PROVE ServeInv(b)'
    BY <2>1, ServeUntouched DEF Binds
  <2>2. ASSUME BindFails(c) \/ FailedAtOnce(c) \/ Drained(c) PROVE ServeInv(b)'
    BY <2>2, ServeUntouched DEF BindFails, FailedAtOnce, Drained
  <2>3. ASSUME Ready(c) \/ Stopped(c) \/ ServeError(c) PROVE ServeInv(b)'
    BY <2>3, ServeUntouched DEF Ready, Stopped, ServeError
  <2>4. ASSUME Shutdown(c) PROVE ServeInv(b)'
    <3>1. server[c] = "accepting" => holder = c
      BY <2>4 DEF Shutdown, ServeInv, Listening
    <3> QED BY <2>4, <3>1, ServeUntouched DEF Shutdown
  <2>5. ASSUME Exits(c) PROVE ServeInv(b)'
    BY <2>5, ServeUntouched DEF Exits, Procs
  <2> QED BY <1>2, <2>1, <2>2, <2>3, <2>4, <2>5 DEF ServeBridge
<1>3. ASSUME ServeStarts(c) \/ ServeFails(c) PROVE ServeInv(b)'
  <2>1. holder = c
    BY <1>3 DEF ServeStarts, ServeFails, ServeInv, Listening
  <2> QED BY <1>3, <2>1, ServeUntouched DEF ServeStarts, ServeFails
<1>4. ASSUME Signal(c) PROVE ServeInv(b)'
  BY <1>4, ServeUntouched DEF Signal, Procs
<1> QED BY <1>1, <1>2, <1>3, <1>4

LEMMA OwnServe ==
  ASSUME TypeOK, NEW b \in Bridges, ServeInv(b), ServeBridge(b)
  PROVE  ServeInv(b)'
<1>0. b # NoProc
  BY BridgeProcessAssumption DEF Procs
<1> USE <1>0 DEF TypeOK, ServeInv, Listening, BeforeBind, BeforeKill, At, Goto, Returns, serving
<1>1. ASSUME Binds(b) PROVE ServeInv(b)'
  BY <1>1 DEF Binds, AfterBind
<1>2. ASSUME BindFails(b) PROVE ServeInv(b)'
  BY <1>2 DEF BindFails, CodeOfLostBind
<1>3. ASSUME Ready(b) PROVE ServeInv(b)'
  BY <1>3 DEF Ready
<1>4. ASSUME FailedAtOnce(b) PROVE ServeInv(b)'
  BY <1>4 DEF FailedAtOnce
<1>5. ASSUME Stopped(b) PROVE ServeInv(b)'
  BY <1>5 DEF Stopped
<1>6. ASSUME ServeError(b) PROVE ServeInv(b)'
  BY <1>6 DEF ServeError
<1>7. ASSUME Shutdown(b) PROVE ServeInv(b)'
  BY <1>7 DEF Shutdown
<1>8. ASSUME Drained(b) PROVE ServeInv(b)'
  BY <1>8 DEF Drained
<1>9. ASSUME Exits(b) PROVE ServeInv(b)'
  BY <1>9 DEF Exits, Procs
<1> QED BY <1>1, <1>2, <1>3, <1>4, <1>5, <1>6, <1>7, <1>8, <1>9 DEF ServeBridge

LEMMA ReclaimKeepsServe ==
  ASSUME TypeOK, NEW b \in Bridges, ReclaimInv(b), ServeInv(b), Reclaim(b)
  PROVE  ServeInv(b)'
<1>0. b # NoProc
  BY BridgeProcessAssumption DEF Procs
<1> USE <1>0 DEF TypeOK, ServeInv, Listening, BeforeBind, BeforeKill, At, Goto, Returns, serving
<1>1. ASSUME ProbeBinds(b) \/ ProbeFree(b) PROVE ServeInv(b)'
  BY <1>1 DEF ProbeBinds, ProbeFree, Probing
<1>2. ASSUME FoundBusy(b) \/ GiveUp(b) \/ StillBusy(b) PROVE ServeInv(b)'
  BY <1>2 DEF FoundBusy, GiveUp, StillBusy, Busy
<1>3. ASSUME Enumerate(b) \/ Wait(b) \/ Recheck(b) PROVE ServeInv(b)'
  BY <1>3 DEF Enumerate, Wait, Recheck
<1>4. ASSUME NEW x \in Bridges, Open(b, x) PROVE ServeInv(b)'
  BY <1>4 DEF Open
<1>5. ASSUME Terminate(b) PROVE ServeInv(b)'
  <2>1. life'[b] = "live" => life[b] = "live"
    BY <1>5 DEF Terminate, Procs
  <2> QED BY <1>5, <2>1 DEF Terminate
<1>6. ASSUME ReclaimFails(b) PROVE ServeInv(b)'
  BY <1>6 DEF ReclaimFails
<1>7. ASSUME LastBusy(b) PROVE ServeInv(b)'
  BY <1>7 DEF LastBusy, Busy
<1> QED BY <1>1, <1>2, <1>3, <1>4, <1>5, <1>6, <1>7 DEF Reclaim

LEMMA ServePreserved == ProcessInv /\ [ProcessNext]_processVars => \A b \in Bridges : ServeInv(b)'
<1> SUFFICES ASSUME ProcessInv, [ProcessNext]_processVars, NEW b \in Bridges PROVE ServeInv(b)'
  OBVIOUS
<1>0. TypeOK /\ ReclaimInv(b) /\ ServeInv(b) /\ b \in Procs /\ b # NoProc
  BY BridgeProcessAssumption DEF ProcessInv, Procs
<1>1. ASSUME NEW c \in Bridges, c # b,
             \/ Reclaim(c)
             \/ ServeBridge(c)
             \/ ServeStarts(c) \/ ServeFails(c) \/ Signal(c)
      PROVE  ServeInv(b)'
  BY <1>0, <1>1, ServeOfOthers DEF ProcessInv
<1>2. ASSUME Reclaim(b) \/ ServeBridge(b) PROVE ServeInv(b)'
  BY <1>0, <1>2, ReclaimKeepsServe, OwnServe
<1>3. ASSUME ServeStarts(b) \/ ServeFails(b) PROVE ServeInv(b)'
  BY <1>0, <1>3 DEF ServeStarts, ServeFails, TypeOK, ServeInv, Listening, BeforeBind, BeforeKill
<1>4. ASSUME Signal(b) PROVE ServeInv(b)'
  BY <1>0, <1>4 DEF Signal, Kept, TypeOK, ServeInv, Listening
<1>5. ASSUME NEW x \in Procs, NEW n \in Pids, Start(x, n) PROVE ServeInv(b)'
  <2>1. life' = [life EXCEPT ![x] = "live"] /\ holder' = holder /\ server' = server
        /\ stop' = stop /\ asked' = asked /\ code' = code /\ life[x] = "unborn"
    BY <1>5 DEF Start, serving
  <2>2. holder # x
    BY <1>0, <1>5, BridgeProcessAssumption DEF Start, ProcessInv, IdsAreUnique
  <2>3. CASE b = x
    <3>1. pc'[b] \in {"check", "bind"} /\ pc[b] = "none"
      BY <1>0, <1>5, <2>3 DEF Start, Goto, TypeOK, ReclaimInv
    <3> QED
      BY <1>0, <2>1, <2>2, <2>3, <3>1 DEF ServeInv, Listening, BeforeBind, BeforeKill
  <2>4. CASE b # x
    BY <1>0, <1>5, <2>1, <2>4, ServeUntouched DEF Start, Goto, TypeOK
  <2> QED BY <2>3, <2>4
<1>6. ASSUME NEW x \in Procs, Dies(x) PROVE ServeInv(b)'
  BY <1>0, <1>6, ServeUntouched DEF Dies, TypeOK, serving
<1>7. ASSUME NEW o \in Others, OtherBinds(o) \/ OtherCloses(o) PROVE ServeInv(b)'
  BY <1>0, <1>7, BridgeProcessAssumption, ServeUntouched DEF OtherBinds, OtherCloses, serving
<1>8. CASE Freed \/ UNCHANGED processVars
  BY <1>0, <1>8, ServeUntouched DEF Freed, processVars, serving
<1> QED BY <1>1, <1>2, <1>3, <1>4, <1>5, <1>6, <1>7, <1>8 DEF ProcessNext, Machine

-----------------------------------------------------------------------------
(* The theorems *)

LEMMA NextPreservesProcessInv == ProcessInv /\ [ProcessNext]_processVars => ProcessInv'
BY TypePreserved, IdsPreserved, ReclaimPreserved, ServePreserved DEF ProcessInv

\* The invariant of every reachable state; it includes the types.
THEOREM ProcessInvariant == ProcessSpec => [](TypeOK /\ ProcessInv)
<1>1. ProcessInv => TypeOK
  BY DEF ProcessInv
<1> QED BY InitProcessInv, NextPreservesProcessInv, <1>1, PTL DEF ProcessSpec

\* The process that is terminated is a bridge that had the address at the recheck,
\* however ids and the address are passed on meanwhile (reclaim_windows.go:73-153).
THEOREM OnlyHoldersDie == ProcessSpec => []OnlyConfirmedHolderDies
<1>1. ProcessInv => OnlyConfirmedHolderDies
  BY DEF ProcessInv, ReclaimInv, OnlyConfirmedHolderDies
<1> QED BY ProcessInvariant, <1>1, PTL

\* No listener outlives serveBridge, whenever the signal comes (main.go:386-420).
THEOREM AddressIsReleased == ProcessSpec => []ReturnReleasesAddress
<1>1. ProcessInv => ReturnReleasesAddress
  BY DEF ProcessInv, ServeInv, Listening, ReturnReleasesAddress, At
<1> QED BY ProcessInvariant, <1>1, PTL

\* Exit code 0 is that of a bridge that has served and was asked to stop
\* (main.go:380-443).
THEOREM ExitCodeIsTrue == ProcessSpec => []ZeroMeansServed
<1>1. ProcessInv => ZeroMeansServed
  BY DEF ProcessInv, TypeOK, Servers, ServeInv, ZeroMeansServed, At
<1> QED BY ProcessInvariant, <1>1, PTL
=============================================================================
