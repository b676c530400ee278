---------------------------- MODULE BridgeProcess ----------------------------
(***************************************************************************)
(* The life of a bridge process (cmd/bridge/main.go:287-443): it may be    *)
(* asked to reclaim the listen address from a stale bridge first           *)
(* (reclaim_windows.go:63-199), then binds it, serves until it is asked to *)
(* stop or Serve fails, and shuts down.                                    *)
(*                                                                         *)
(* Several bridges and other programs come and go on one machine.  They    *)
(* share the listen address, and process ids, which are used again.  The   *)
(* reclaim looks at both in one call after the other, and anything may     *)
(* happen in between.                                                      *)
(*                                                                         *)
(* Of Windows it is assumed that the id of a process is not used again     *)
(* while a handle to it is open or a socket of it is listed, and that the  *)
(* sockets of a process are closed at some time after its end.             *)
(***************************************************************************)
EXTENDS Naturals

CONSTANTS
  Bridges, \* processes of the bridge's own executable
  Others,  \* processes of other programs
  Pids,    \* process ids
  Probes,  \* how often the address is tried after a reclaim: 20
  NoProc, NoPid

Procs == Bridges \cup Others

ASSUME BridgeProcessAssumption ==
  /\ Bridges \cap Others = {}
  /\ Probes \in Nat
  /\ NoProc \notin Procs
  /\ NoPid \notin Pids

VARIABLES
  life,      \* [Procs -> "unborn", "live", "dying" or "dead"]
  pid,       \* [Procs -> Pids or NoPid]: the id it has, or had
  holder,    \* the process whose listener has the address, or NoProc
  pc,        \* [Bridges -> Steps]: where main is
  seen,      \* [Bridges -> Pids or NoPid]: the listed owner of the address
  handle,    \* [Bridges -> Procs or NoProc]: the verified process
  tries,     \* [Bridges -> 0..Probes]: the probes of the settle loop
  server,    \* [Bridges -> the state of the goroutine that calls Serve]
  stop,      \* [Bridges -> BOOLEAN]: a signal is in the channel
  asked,     \* [Bridges -> BOOLEAN]: history: it was sent a signal
  code,      \* [Bridges -> Codes]: what run returns
  confirmed, \* [Bridges -> Procs or NoProc]: history: the holder at the recheck
  victim     \* [Bridges -> Procs or NoProc]: history: whom it terminated

reclaim == <<seen, handle, tries, confirmed, victim>>
serving == <<server, stop, asked, code>>
processVars == <<life, pid, holder, pc, reclaim, serving>>

Steps == {"none", "check", "enumerate", "open", "recheck", "terminate", "wait",
          "settle", "last", "bind", "gate", "serve", "shutdown", "drain", "done"}
Servers == {"none", "starting", "accepting", "failed", "closed"}
Codes == 0..2

TypeOK ==
  /\ life \in [Procs -> {"unborn", "live", "dying", "dead"}]
  /\ pid \in [Procs -> Pids \cup {NoPid}]
  /\ holder \in Procs \cup {NoProc}
  /\ pc \in [Bridges -> Steps]
  /\ seen \in [Bridges -> Pids \cup {NoPid}]
  /\ handle \in [Bridges -> Procs \cup {NoProc}]
  /\ tries \in [Bridges -> 0..Probes]
  /\ server \in [Bridges -> Servers]
  /\ stop \in [Bridges -> BOOLEAN]
  /\ asked \in [Bridges -> BOOLEAN]
  /\ code \in [Bridges -> Codes]
  /\ confirmed \in [Bridges -> Procs \cup {NoProc}]
  /\ victim \in [Bridges -> Procs \cup {NoProc}]

ProcessInit ==
  /\ life = [x \in Procs |-> "unborn"]
  /\ pid = [x \in Procs |-> NoPid]
  /\ holder = NoProc
  /\ pc = [b \in Bridges |-> "none"]
  /\ seen = [b \in Bridges |-> NoPid]
  /\ handle = [b \in Bridges |-> NoProc]
  /\ tries = [b \in Bridges |-> 0]
  /\ server = [b \in Bridges |-> "none"]
  /\ stop = [b \in Bridges |-> FALSE]
  /\ asked = [b \in Bridges |-> FALSE]
  /\ code = [b \in Bridges |-> 0]
  /\ confirmed = [b \in Bridges |-> NoProc]
  /\ victim = [b \in Bridges |-> NoProc]

-----------------------------------------------------------------------------
(* The machine *)

Goto(b, s) == pc' = [pc EXCEPT ![b] = s]

Exists(x) == life[x] \in {"live", "dying"}

\* What keeps the id of a process from being used again.
Pinned(x) ==
  \/ Exists(x)
  \/ holder = x
  \/ \E b \in Bridges : Exists(b) /\ handle[b] = x

\* With -reclaim-stale-listener main checks the address first, else it goes straight
\* to the bind.
Start(x, n) ==
  /\ life[x] = "unborn"
  /\ \A y \in Procs : pid[y] = n => ~Pinned(y)
  /\ life' = [life EXCEPT ![x] = "live"]
  /\ pid' = [pid EXCEPT ![x] = n]
  /\ IF x \in Bridges THEN Goto(x, "check") \/ Goto(x, "bind") ELSE UNCHANGED pc
  /\ UNCHANGED <<holder, reclaim, serving>>

OtherBinds(o) ==
  /\ life[o] = "live"
  /\ holder = NoProc
  /\ holder' = o
  /\ UNCHANGED <<life, pid, pc, reclaim, serving>>

OtherCloses(o) ==
  /\ life[o] = "live"
  /\ holder = o
  /\ holder' = NoProc
  /\ UNCHANGED <<life, pid, pc, reclaim, serving>>

\* A crash at any time, the end of another program, or of one that was terminated.
Dies(x) ==
  /\ Exists(x)
  /\ life' = [life EXCEPT ![x] = "dead"]
  /\ UNCHANGED <<pid, holder, pc, reclaim, serving>>

\* Windows frees the address of a process that is dead.
Freed ==
  /\ holder # NoProc
  /\ life[holder] = "dead"
  /\ holder' = NoProc
  /\ UNCHANGED <<life, pid, pc, reclaim, serving>>

-----------------------------------------------------------------------------
(* main: reclaim of a stale listener *)

At(b, s) == life[b] = "live" /\ pc[b] = s
\* run returns c; the deferred calls close the handles.
Returns(b, c) ==
  /\ Goto(b, "done")
  /\ code' = [code EXCEPT ![b] = c]
  /\ handle' = [handle EXCEPT ![b] = NoProc]

Probing(b) == life[b] = "live" /\ pc[b] \in {"check", "settle", "last"}

\* portIsFree: the bind succeeds, and is closed at once; others see it meanwhile.
ProbeBinds(b) ==
  /\ Probing(b)
  /\ holder = NoProc
  /\ holder' = b
  /\ UNCHANGED <<life, pid, pc, reclaim, serving>>

ProbeFree(b) ==
  /\ Probing(b)
  /\ holder = b
  /\ holder' = NoProc
  /\ Goto(b, IF pc[b] = "settle" THEN "last" ELSE "bind")
  /\ UNCHANGED <<life, pid, reclaim, serving>>

Busy(b) == holder \notin {b, NoProc}

FoundBusy(b) ==
  /\ At(b, "check")
  /\ Busy(b)
  /\ Goto(b, "enumerate")
  /\ UNCHANGED <<life, pid, holder, reclaim, serving>>

\* pidsHoldingAddr
Enumerate(b) ==
  /\ At(b, "enumerate")
  /\ holder # NoProc
  /\ seen' = [seen EXCEPT ![b] = pid[holder]]
  /\ Goto(b, "open")
  /\ UNCHANGED <<life, pid, holder, handle, tries, confirmed, victim, serving>>

\* Whoever has that id now is opened, and has to be the same executable.
Open(b, x) ==
  /\ At(b, "open")
  /\ pid[x] = seen[b]
  /\ Pinned(x)
  /\ x \in Bridges \ {b}
  /\ handle' = [handle EXCEPT ![b] = x]
  /\ Goto(b, "recheck")
  /\ UNCHANGED <<life, pid, holder, seen, tries, confirmed, victim, serving>>

\* allPIDsStillHolding, asked again with the handle open.
StillHolding_NotAsked(b) == TRUE

StillHolding(b) == holder # NoProc /\ pid[holder] = pid[handle[b]]

Recheck(b) ==
  /\ At(b, "recheck")
  /\ StillHolding(b)
  /\ confirmed' = [confirmed EXCEPT ![b] = holder]
  /\ Goto(b, "terminate")
  /\ UNCHANGED <<life, pid, holder, seen, handle, tries, victim, serving>>

Terminate(b) ==
  /\ At(b, "terminate")
  /\ life[handle[b]] = "live"
  /\ life' = [life EXCEPT ![handle[b]] = "dying"]
  /\ victim' = [victim EXCEPT ![b] = handle[b]]
  /\ Goto(b, "wait")
  /\ UNCHANGED <<pid, holder, seen, handle, tries, confirmed, serving>>

\* WaitForSingleObject
Wait(b) ==
  /\ At(b, "wait")
  /\ life[handle[b]] = "dead"
  /\ handle' = [handle EXCEPT ![b] = NoProc]
  /\ Goto(b, "settle")
  /\ UNCHANGED <<life, pid, holder, seen, tries, confirmed, victim, serving>>

\* Any of these calls fails: no holder, a foreign program, one that cannot be
\* opened or terminated, another holder at the recheck, five seconds are over.
\* On other systems than Windows the first one does.
ReclaimFails(b) ==
  /\ life[b] = "live"
  /\ pc[b] \in {"enumerate", "open", "recheck", "terminate", "wait"}
  /\ Returns(b, 2)
  /\ UNCHANGED <<life, pid, holder, seen, tries, confirmed, victim, server, stop, asked>>

Settle_Forever(b) == tries' = tries

\* The settle loop tries again, for a while.
Settle(b) == tries[b] < Probes /\ tries' = [tries EXCEPT ![b] = @ + 1]

StillBusy(b) ==
  /\ At(b, "settle")
  /\ Busy(b)
  /\ Settle(b)
  /\ UNCHANGED <<life, pid, holder, pc, seen, handle, confirmed, victim, serving>>

GiveUp(b) ==
  /\ At(b, "settle")
  /\ Busy(b)
  /\ tries[b] = Probes
  /\ Goto(b, "last")
  /\ UNCHANGED <<life, pid, holder, reclaim, serving>>

\* The probe after the loop, and the end of the reclaim without the address.
LastBusy(b) ==
  /\ At(b, "last")
  /\ Busy(b)
  /\ Returns(b, 2)
  /\ UNCHANGED <<life, pid, holder, seen, tries, confirmed, victim, server, stop, asked>>

-----------------------------------------------------------------------------
(* main: serveBridge *)

\* Without the ready gate main goes on at once.
AfterBind_Ungated == "serve"
AfterBind == "gate"

Binds(b) ==
  /\ At(b, "bind")
  /\ holder = NoProc
  /\ holder' = b
  /\ server' = [server EXCEPT ![b] = "starting"]
  /\ Goto(b, AfterBind)
  /\ UNCHANGED <<life, pid, reclaim, stop, asked, code>>

\* net.Listen fails: the address is taken, or for another reason.
CodeOfLostBind_Zero == 0
CodeOfLostBind == 1

BindFails(b) ==
  /\ At(b, "bind")
  /\ Returns(b, CodeOfLostBind)
  /\ UNCHANGED <<life, pid, holder, seen, tries, confirmed, victim, server, stop, asked>>

\* The goroutine: Serve enters Accept for the first time, which opens the gate,
\* unless Shutdown was called before; then it closes the listener and returns.
ServeStarts(b) ==
  /\ life[b] = "live"
  /\ server[b] = "starting"
  /\ IF pc[b] \in {"drain", "done"}
     THEN server' = [server EXCEPT ![b] = "closed"] /\ holder' = NoProc
     ELSE server' = [server EXCEPT ![b] = "accepting"] /\ UNCHANGED holder
  /\ UNCHANGED <<life, pid, pc, reclaim, stop, asked, code>>

\* Accept fails for good: Serve closes the listener and its error is in errCh.
ServeFails(b) ==
  /\ life[b] = "live"
  /\ server[b] = "accepting"
  /\ pc[b] \in {"gate", "serve", "shutdown"}
  /\ server' = [server EXCEPT ![b] = "failed"]
  /\ holder' = NoProc
  /\ UNCHANGED <<life, pid, pc, reclaim, stop, asked, code>>

\* select: ready, or the error; both may be there.
Ready(b) ==
  /\ At(b, "gate")
  /\ server[b] \in {"accepting", "failed"}
  /\ Goto(b, "serve")
  /\ UNCHANGED <<life, pid, holder, reclaim, serving>>

FailedAtOnce(b) ==
  /\ At(b, "gate")
  /\ server[b] = "failed"
  /\ Returns(b, 1)
  /\ UNCHANGED <<life, pid, holder, seen, tries, confirmed, victim, server, stop, asked>>

\* waitForBridgeTermination
Stopped(b) ==
  /\ At(b, "serve")
  /\ stop[b]
  /\ stop' = [stop EXCEPT ![b] = FALSE]
  /\ Goto(b, "shutdown")
  /\ UNCHANGED <<life, pid, holder, reclaim, server, asked, code>>

ServeError(b) ==
  /\ At(b, "serve")
  /\ server[b] = "failed"
  /\ code' = [code EXCEPT ![b] = 1]
  /\ Goto(b, "shutdown")
  /\ UNCHANGED <<life, pid, holder, reclaim, server, stop, asked>>

\* Shutdown closes the listener that Serve has tracked, and waits for requests.
Shutdown(b) ==
  /\ At(b, "shutdown")
  /\ Goto(b, "drain")
  /\ IF server[b] = "accepting"
     THEN server' = [server EXCEPT ![b] = "closed"] /\ holder' = NoProc
     ELSE UNCHANGED <<server, holder>>
  /\ UNCHANGED <<life, pid, reclaim, stop, asked, code>>

\* All of them are done, or five seconds are over.
Drained(b) ==
  /\ At(b, "drain")
  /\ \/ Returns(b, code[b])
     \/ Returns(b, 1)
  /\ UNCHANGED <<life, pid, holder, seen, tries, confirmed, victim, server, stop, asked>>

Exits(b) ==
  /\ At(b, "done")
  /\ life' = [life EXCEPT ![b] = "dead"]
  /\ UNCHANGED <<pid, holder, pc, reclaim, serving>>

\* SIGINT or SIGTERM.  From signal.Notify on it waits in a channel that has room for
\* one; before that it ends the process.
Kept_IfReceived(b) == pc[b] = "serve"
Kept(b) == TRUE

Signal(b) ==
  /\ life[b] = "live"
  /\ ~asked[b]
  /\ asked' = [asked EXCEPT ![b] = TRUE]
  /\ IF pc[b] \in {"bind", "gate", "serve", "shutdown", "drain", "done"}
     THEN stop' = [stop EXCEPT ![b] = Kept(b)] /\ UNCHANGED life
     ELSE life' = [life EXCEPT ![b] = "dead"] /\ UNCHANGED stop
  /\ UNCHANGED <<pid, holder, pc, reclaim, server, code>>

-----------------------------------------------------------------------------
Reclaim(b) ==
  \/ ProbeBinds(b) \/ ProbeFree(b) \/ FoundBusy(b)
  \/ Enumerate(b)
  \/ \E x \in Bridges : Open(b, x)
  \/ Recheck(b) \/ Terminate(b) \/ Wait(b) \/ ReclaimFails(b)
  \/ StillBusy(b) \/ GiveUp(b) \/ LastBusy(b)

ServeBridge(b) ==
  \/ Binds(b) \/ BindFails(b) \/ Ready(b) \/ FailedAtOnce(b)
  \/ Stopped(b) \/ ServeError(b) \/ Shutdown(b) \/ Drained(b) \/ Exits(b)

Machine ==
  \/ \E x \in Procs : Dies(x) \/ \E n \in Pids : Start(x, n)
  \/ \E o \in Others : OtherBinds(o) \/ OtherCloses(o)
  \/ Freed

ProcessNext ==
  \/ \E b \in Bridges : Reclaim(b) \/ ServeBridge(b)
                        \/ ServeStarts(b) \/ ServeFails(b) \/ Signal(b)
  \/ Machine

ProcessSpec == ProcessInit /\ [][ProcessNext]_processVars

\* The main goroutine and the one that serves are scheduled, and the waits of main
\* have timeouts.  Nobody has to start, fail, close the address or send a signal.
ProcessFairSpec ==
  ProcessSpec /\ \A b \in Bridges :
            /\ WF_processVars(Reclaim(b)) /\ WF_processVars(ServeBridge(b))
            /\ WF_processVars(ServeStarts(b))

-----------------------------------------------------------------------------
(* Safety *)

\* Nothing is terminated but another bridge that had the address when its owner was
\* looked up again with the handle open, though ids were used again, bridges came
\* and went, and the address changed hands (reclaim_windows.go:73-153).
OnlyConfirmedHolderDies ==
  \A b \in Bridges :
    victim[b] # NoProc => victim[b] = confirmed[b] /\ victim[b] \in Bridges \ {b}

\* When serveBridge has returned the address is free: no listener of its goroutine
\* outlives it, whenever the signal came (main.go:386-401, 411-420).
ReturnReleasesAddress ==
  \A b \in Bridges : At(b, "done") => holder # b

\* Exit code 0 means that the bridge has served and that somebody asked it to stop:
\* a bridge that never got the address, or lost it, says so (main.go:380-443).
ZeroMeansServed ==
  \A b \in Bridges :
    At(b, "done") /\ code[b] = 0 => asked[b] /\ server[b] \in {"failed", "closed"}

-----------------------------------------------------------------------------
(* Liveness *)

\* Every bridge comes to serve or ends, and ends if it is asked to or Serve fails:
\* no reclaim goes on for ever, and no signal is lost (main.go:358-377, 390-409).
EveryBridgeServesOrEnds ==
  \A b \in Bridges :
    life[b] = "live" /\ (asked[b] \/ server[b] # "accepting")
      ~> life[b] # "live" \/ (~asked[b] /\ server[b] = "accepting")
=============================================================================
