# Network Ultra server: TLA+ specifications and proofs

`network-ultra-server` is a Go server for low-latency jamming: musicians connect
over WebSocket, enter rooms, and send audio frames to each other over WebSocket
or UDP. Beside it the repository has a local bridge (a WebSocket/UDP proxy that
runs next to an audio plugin) and the shell scripts that install and update the
server. This directory models the parts of that code where goroutines, timers,
datagrams and failures meet, model-checks them with TLC, and proves their safety with
TLAPS for every number of sessions, rooms, addresses, processes and scripts and every
limit.

All line numbers are those of the source at the commit these files stand beside.

1. [The system](#1-the-system)
2. [The modules](#2-the-modules)
3. [The runs](#3-the-runs)
4. [Bounds](#4-bounds)
5. [Fairness](#5-fairness)
6. [What is proved](#6-what-is-proved)
7. [Disagreements with the comments](#7-disagreements-with-the-comments)
8. [What is not modelled](#8-what-is-not-modelled)
9. [Plan](#9-plan)

## 1. The system

### Components

| Component | Source | State it keeps | Operations |
|---|---|---|---|
| Room registry | `internal/room/registry.go`, `room.go`, `peer.go` | name -> room map; per room: members, destroyed flag, destroy timer and its generation; per peer: current room | `Create`, `Find`, `Add`, `Remove`, `scheduleDestroyIfEmpty`, `scheduleEmptyDestroy`, `destroy` |
| Room audio path | `internal/room/room.go`, audio handlers of `ws` and `udp` | `audioCh`, forwarder goroutine, mute flag and subscription of each peer | `Forward`, `forwardLoop`, `fanOut`, `close`, `SetMuted`, `SetSubscribed` |
| Connection queue | `internal/ws/conn.go` | `writeCh`, `doneCh` | `writeControl`, `writeAudio`, `writeLoop`, `close` |
| Session admission | `internal/ws/dispatch.go` (`HandleHTTP`, `run`, `doPasswordWork`) | connection count, bcrypt semaphore, each session's stage and deferred calls | accept, hello, password check, UDP registration, welcome, unwinding |
| Control dispatch | `internal/ws/dispatch.go` (`handle*`) | none of its own; each client keeps a roster of its room | create, join, leave, list, mute, subscribe, audio; replies, rosters and broadcasts to other peers |
| UDP data plane | `internal/udp/server.go` | `tokenByID`, `peerByID`, `peerByAddr`, lease times, per-peer senders | `MintToken`, `AttachPeer`, `DetachPeer`, hello, ping, audio, `gcLoop` |
| Rate limiter | `internal/ratelimit/limiter.go` | fixed-window entries | `Allow`, `AllowPair` |
| Client address | `internal/ws/client_ip.go` | none (a function of a request) | the address a request is logged and rate-limited by |
| Bridge process | `cmd/bridge/main.go`, `reclaim_windows.go` | listener, `Serve` goroutine, signal channel; a handle to a stale bridge | reclaim of the address, bind, ready gate, serve, shutdown |
| Bridge session | `cmd/bridge/main.go` | relays, rewritten welcome, UDP proxy and its binding | `handlePlugin`, `relayPassthrough`, `relayWithRewrite`, `loopFromPlugin`, `loopFromUpstream` |
| Operator scripts | `scripts/update-server.sh`, `set-password.sh`, `install-from-source.sh`, `install.sh` | installed tree, binary, unit, configuration, account, running service, lock | update, two kinds of installation and change of password, each with its rollback |
| Others | `delta.go`, `proto`, `config`, `httpapi`, `metrics`, `cmd/server`, test clients | see section 8 | |

### How they interact

* An HTTP request becomes a session goroutine (`HandleHTTP` -> `run`). It passes
  the connection cap, the hello, possibly bcrypt under a semaphore, and the UDP
  registration, then reads messages until the connection fails, when its deferred
  calls undo everything in reverse order.
* A session's handlers call the room registry. The registry and each room have a
  lock; timers of `time.AfterFunc` call back into the registry from goroutines of
  their own, identified by a generation.
* Audio enters a room's channel from session goroutines and from the one UDP
  `readLoop`; the room's forwarder goroutine takes it out and calls the senders of
  the other members, which are either a UDP send or the connection queue.
* The connection queue is shared by the forwarder of the room and by every
  session that sends a control message to its peer.
* A session tells the other members of its room what it does, on their connections,
  one after the other, from a list it took in a critical section of its own.
* The budget of `hello` is charged to the address that `ClientIP` finds for the
  request.
* The bridge is a client of the server: it relays WebSocket messages, rewrites the
  welcome so that the plugin uses the bridge's own UDP proxy, and tears both down
  together.

### What is hard here, and what must hold

| Component | Hard behaviour | What makes it correct |
|---|---|---|
| Room registry | a join races the destroy callback; stale timers; the gaps between unlock and the next step (`Remove` and the timer, `Add` and the room pointer); ghost rooms whose creator never joined | no member of a destroyed room; no leaked empty room; one room per peer; limits; destroyed only after a countdown with nobody joining |
| Room audio path | frames queued while their sender mutes, leaves or the room closes; `readLoop` uses a room it looked up earlier; the forwarder's drain against new frames | every frame is released once; mute, leave and unsubscribe bite at once; closing ends |
| Connection queue | senders park on a full channel; a forwarder takes frames out of the channel it sends to; time-outs against slots that become free; close with everybody blocked | accepted control frames are kept exactly once; audio stays in order; control sends return; nobody is left blocked |
| Session admission | failures at every point of the handshake; shared cap and semaphore | the cap counts open connections; counters are exact; nobody is served without the password; promised tokens work |
| Control dispatch | a handler is four steps (change, reply, list, one send after the other) and those of several sessions interleave; news gets ahead of `room_joined`; a listed member has moved to another room; control frames change places in a queue; a connection dies inside a broadcast | a client's roster is the membership of its room whenever it was told in order; nobody in the room goes unnamed; the dead disappear |
| UDP data plane | delayed, duplicated and reordered datagrams; changing source addresses; leases swept with a stale clock; sends after the lease check | two maps stay inverse; a token binds one address once; a frame goes to its peer; silent bindings expire |
| Rate limiter | clocks read before the lock; capacity; cleanup; two budgets charged together | no budget is forgotten early; a refusal charges nothing |
| Client address | headers the client wrote itself, trusted proxies that append to them, several spellings of one address | a client behind trusted proxies is charged as itself, whatever it writes |
| Bridge process | the owner of an address, its process id and its handle are looked up in calls between which processes end, ids are used again and the address changes hands; a signal before `Serve` accepts | only another bridge that holds the address is terminated; the address is free after the return; every bridge serves or ends |
| Bridge session | either relay fails at any time; other local processes send to the proxy; audio overtakes the welcome; incomplete metadata | one local source; UDP offered only through the proxy; nothing outlives the session; a persistent plugin is bound |
| Operator scripts | a command fails between two renames; signals, also in the rollback; a first installation that has to undo only what it has made; two operators | source, binary and unit belong together; failure changes nothing; nothing is lost |

`PROJECT.json` lists the hazards line by line, with the properties that address
each.

## 2. The modules

```
AbstractRooms <-- implemented by -- RoomRegistry  <-- RoomRegistryProofs
                                    RoomAudio     <-- RoomAudioProofs
                                    Roster        <-- RosterProofs
                                    Admission     <-- AdmissionProofs
                                    UdpPlane      <-- UdpPlaneProofs
                                    ServerOps     <-- ServerOpsProofs
                                    ConnQueue     <--+
        MCRateLimiter ------------> RateLimiter   <--+- ConnectionProofs
              \-------------------> ClientAddress <--+
                                    BridgeSession <--+- BridgeProofs
                                    BridgeProcess <--+
```

Each module `M` has an `MCM` that names its model values and a `.cfg` per run.
Operators called `X_Something` directly above a definition `X` are variants of `X`
with a plausible mistake; nothing uses them in the specifications. They record which
mistake each property has been seen to detect.

Two modelling rules hold throughout. A step is what one goroutine does in one
critical section, one channel operation or one atomic store; everything the code
does between an unlock and the next lock is another step, so that others may come
in between. A failed check that changes no modelled state is not an action.

### AbstractRooms

What sessions may rely on: a directory in which a room is opened under a free
name, joined and left while it is open, and closed only when the countdown that
began while it was empty has run out with nobody joining. No locks, callbacks or
generations.

### RoomRegistry

`registry.go`, `room.go`, `peer.go` and the session code that drives them. The
variables are the fields: `rooms`, `peers`, `destroyed`, `timer` (`destroyTimer`,
by the generation its callback captured), `gen` (`destroyGeneration`), `curRoom`;
`armed` and `calls` are the runtime's timers before and after they fire; `pc` and
`at` say where a session stands between two locks.

| Action | Code |
|---|---|
| `Create`, `ArmIdleTimer` | `Registry.Create` up to its unlock; `scheduleIdleDestroy` after it |
| `FindRoom`, `PasswordAccepted`, `PasswordRefused` | `Registry.Find`; bcrypt outside any lock, with either outcome |
| `Add`, `AddExpired`, `AddFull`, `SetRoom` | `Room.Add` inside its locks (identity check, `destroyed`, capacity, stop the timer, bump the generation); `setRoom(r)` after the unlock |
| `Leave` and `Disconnect` (both `Remove`), `ClearRoom`, `ArmEmptyTimer` | `Room.Remove`; `setRoom(nil)`; `scheduleEmptyDestroy` |
| `TimerFires`, `Destroy`, `DestroyStale` | the runtime starts the callback; `Registry.destroy` with its generation check, or its early return |

### RoomAudio

One room. `WsAudio` is `ws.handleAudio`; `ReadUdp`, `LookUpRoom` and `UdpAudio` are
the three moments of `udp.handleAudio`, between which the session may move on.
`BeginFanOut`/`SendTo`/`EndFanOut` are `fanOut`: the recheck and the copy of the
listeners under the lock, one send after the other outside it, and `Done`.
`BeginDrain`/`DrainFrame`/`EndDrain` are the `closeCh` branch of `forwardLoop`.
`Destroy`/`CloseRoom`/`Closed` are the end of the room. When a room is destroyed is
`RoomRegistry`'s question; here an empty room may be destroyed at any time. The
histories `lateFrom` and `lateTo` count frames that are sent on although their
sender has fallen silent or their receiver no longer wants them.

### Roster

What the handlers of `dispatch.go` tell other sessions, and what a client makes of it.
A handler is `Join`, `Leave` or `Mute` (the critical section of the room or the peer),
`Reply` (`room_joined` on its own connection; the payload of `peer_joined` is encoded
right after it), `List` (`ForEachPeer` in `broadcastToOthers`), one `Tell` for each listed
member and `Return` (with `room_left` after a leave). `out` is the frame as it was encoded,
before the listing. `Disconnect` is the leave of a session whose connection is closed. A
send is `Queued` in `box`, the frames of the connection's channel that bear on a roster, or
`Refused`, when the connection is closed or is closed for it; `ConnQueue` has how that
comes about. `Receive` is a write and the client's read: `view` is the roster of a
client that applies its frames in the order in which they come (`Applied`). `Rotate` is
what `writeAudio` does to a full queue with a control frame at its head.

Rosters are not always right, and the model says when. The history `doubt` has the peers
of whom a client was told out of order:

* News that is queued between `Room.Add` and `room_joined`. The snapshot in `room_joined`
  is older and undoes it: a `peer_left(b)` in front of a `room_joined` that lists b leaves b
  in that roster for good, a `peer_mute_changed` there leaves the wrong flag.
* A `peer_joined` that reaches one who has left the sender's room and is in another.
  Messages name no room, and the client takes the stranger for a member.
* Frames about the same peer that `Rotate` has put in another order (section 7).

News that says where the peer is, in the client's room and behind all that, settles it;
so does joining again. Everybody else's entry is exact (`RosterIsExact`). Nothing in the
messages tells a client which entries are in doubt. These are limits of the code.

`Clients` says whose queue and roster are looked at. A frame for somebody else is read at
once: what others make of their frames changes nothing for the server, and that a send
may wait or fail is in `Fail` and `Refused` for everybody.

### ConnQueue

`conn.go` with the semantics of a buffered Go channel: a sender parks on a full
channel, and whoever receives from it moves the first parked sender's value into
the buffer in the same step (`ReceiveThen`). `SendControl`, `AwaitRoom` and
`ControlTimeout` are the two selects of `writeControl`; `TryAudio`, `PopHead`,
`PopNothing` and `Requeue` the loop of `writeAudio`; `TakeFrame`, `WriteSucceeds`,
`WriteFails` and `LoopExits` are `writeLoop`; `SessionEnds` is the deferred `close`.

### Admission

`HandleHTTP` and `run`. `stage` is where the goroutine is, and `defers` the stack of
deferred calls as the runtime keeps it; `Unwind` runs the next of them. `Hello`,
`Checked`, `HashRoomPassword` and `Hashed` share `passwordSem` as `doPasswordWork`
does: a slot is tried, never waited for, and freed whatever the comparison found.
Whether a server password and UDP are configured is chosen in `Init`, so that one
run has all four servers.

### UdpPlane

`udp/server.go`. `route` is `peerByAddr`, `attached` `peerByID`, `token` `tokenByID`,
`udpAddr` the peer's own copy, `age` the time since `lastSeen`. `MintToken`,
`AttachPeer`, `AttachUdpSender`, `DetachUdpSender`, `DetachPeer` are a session's
steps; `Hello` and `Refresh` (ping and audio) are accepted datagrams, which may
arrive at any time from any address of any peer whose token was sent out, during or
after its session. `ReadClock`/`ExpireIdle` are the two moments of `gcLoop`;
`PickSender`, `CheckLease`, `DropLease`, `NoUdpRoute` and `WriteToUDP` those of a
send.

### RateLimiter

`ReadClock` is `l.now()` before the lock; `Refuse` and `Decide` are the critical
section with `currentEntry`, `ensureCapacity`, `afterConsume` and `cleanupExpired`.
`Allow(k)` is `AllowPair(k, k)`. `admitted`, the times at which a key was admitted, and
`charged`, how many of them its last entry has counted, are histories.

### ClientAddress

`client_ip.go` as operators (`Chain`, `Advertised`, `NearestUntrusted`, `ClientIP`) and
the way of a request: `Send` with anything in both headers, `Pass` over a trusted
proxy, which appends where it was called from, and `Serve`. A text is one element of
a header or a transport address, and `Canonical` its address if it has one. A client
whose transport address has a zone (`Zoned`) is known by that text as it is, with its
port (`client_ip.go:16-21`), or counted with its proxy. The proxies are external: that
they use one header and leave nothing of the other is what the repository's README
asks of them (`README.md:247`). `MCRateLimiter` runs it before the limiter, with the
addresses the limiter knows.

### BridgeProcess

`main` and `serveBridge` of the bridge, with `reclaimStaleListener` of Windows, several
bridges, other programs and the operating system. `FoundBusy`, `Enumerate`, `Open`,
`Recheck`, `Terminate`, `Wait` are the calls of the reclaim; `Settle`, `StillBusy`,
`GiveUp`, `LastBusy` the probes after it; `Binds`/`BindFails`; `ServeStarts`,
`ServeFails`, `Ready`, `FailedAtOnce` the ready gate; `Stopped`, `ServeError`,
`Shutdown`, `Drained`, `Exits` the end. `Dies` and `Freed` are the system's: a process may
crash at any time, its socket is closed later, and its id may be used again. `Pinned`
is the assumption about Windows that the code relies on: not while a handle is open
or a socket is listed. The check that the owner is a bridge compares its executable
only, so that two bridges that reclaim at the same moment may terminate one
that has just started; it is a confirmed holder, and the property allows it.

### BridgeSession

One session of the bridge with its relays and its UDP proxy. `ReadWelcome` rewrites
the first welcome (`Rewritten`) and opens the proxy; `FromPlugin`, `WriteUpstream`,
`FromUpstream`, `WriteToPlugin` are the two proxy loops with their locked sections
and the writes after them; `RelayEnds` may happen at any time, and
`BothRelaysDone`/`SessionEnds` are the deferred teardown. Either proxy loop returns for
good on any read error (`OutLoopReturns`, `InLoopReturns`), also while the session goes on:
nothing starts it again, and nothing takes back the offer of UDP. Under Windows a loopback
datagram that does not fit the buffer, from any process, is such an error.

### ServerOps

The disk (source tree, binary, unit, configuration, enabled flag, account), the running
service, and the scripts' steps: one per command of `update-server.sh`,
`install-from-source.sh` and `install.sh` that changes either, one per command of their
rollbacks, and those of `set-password.sh`. The three that deploy share their steps and
differ in which they take and in what order (`UpdateOrder`, `InstallOrder` and
`ReleaseOrder` say what follows each step, also in the rollback); `Pass` goes to the next. `Stops` is a failing command or
INT/TERM, `Killed` a second signal in the rollback, whose traps have been reset.
`Sound` says which commit starts with which configuration. A script may run any number
of times; when its process ends, its variables go.

## 3. The runs

| Run | Question | Answer |
|---|---|---|
| `registry` | Do sessions that create, join, leave and disconnect, with timers firing at any later moment, ever orphan a member, leak a room or destroy a room early? Does the registry implement `AbstractRooms`? Does a registry that everybody has left become empty, also of rooms their creator never entered or was shut out of? | All hold; the last under fair scheduling of goroutines and timers. The generation check of `destroy` is needed: without it the refinement fails (`MayDestroy_AnyGeneration`). |
| `roomaudio` | Are frames released exactly once, and do mute, leave and unsubscribe bite at once? Does closing a room end while frames keep coming? | Yes. One frame, the one in `fanOut`'s hand, may still go out after a change. After the forwarder has gone, a frame from a `readLoop` that had looked the room up earlier may stay in the channel for ever and its `Done` would never be called (both audio handlers leave `Done` nil today; the tests set it). No frame of a WebSocket session can be stranded. |
| `connqueue` | Does a full queue lose or duplicate accepted control frames, or reorder audio? Do control sends return, and does close release everybody? | No control frame is lost while the connection is open, audio keeps its order, control sends return, close releases all. |
| `connqueue_order`, `connqueue_spin` | Do two comments of `conn.go` describe the code? | No: section 7. |
| `admission` | Cap, password gate, counters and tokens with sessions failing at every point of the handshake, in all four configurations | All hold; every connection that was accepted is served or gives everything back. |
| `udpplane` | Do the two address maps, tokens and leases stay consistent with datagrams arriving late, repeatedly and from other addresses, a stale sweep and sends in flight? | Yes. A frame that has passed its lease check may still be written to the old address of a peer whose lease ends meanwhile, and to nobody else's. |
| `roster` | With replies and broadcasts of two sessions interleaving over two rooms, and a client that reads its frames in order, is its roster the membership of its room? Of two members, is either ever left unnamed to the other? Does a dead session stay in a roster? | It is, but for peers in `doubt`, of whom it was told out of order (section 2). Each member is named to the other. A dead session leaves its room and every roster that was not in doubt about it. |
| `ratelimiter` | Is a budget ever forgotten early, or charged by a refusal? Is a request charged to its client, whatever its headers say? | No: at most twice the limit in any window less the time a caller may have waited with an old clock. Yes, with proxies that behave as the README asks. |
| `bridgesession` | Can another local process get in between hello, welcome and binding? Is UDP offered without a proxy? Does anything outlive the session? Is a persistent plugin bound? | No, no, no; yes, as long as no read of the proxy fails. |
| `bridgeprocess` | Can the reclaim terminate anything but another bridge that holds the address? Does a listener outlive `serveBridge`? Does every bridge come to serve or end, and end when asked? | No, no, yes. |
| `serverops` | Do failures and signals anywhere leave a mixture of versions, lose a backup, or change a service that was well? | No. A stopped service is updated without a health check; nothing is promised for its next start, and the property says so. A first installation that is stopped between `useradd` and the flag that records it (`install-from-source.sh:288-289`) leaves the account behind, and nothing else (`Restored`). A successful deployment repairs what a killed rollback has left. |

Each property was also checked against a mutated definition (`PROJECT.json`,
"mutants"), under the same configuration, and fails there.

## 4. Bounds

| Module | Instance | Why it is enough to be interesting |
|---|---|---|
| RoomRegistry | 2 peers, 2 `Room` objects, two names of which one in two spellings, `MaxRooms` 2, `MaxPeers` 1, `GenBound` 2; one room has a password | Two generations of a timer coexist with a callback of the first, a second room reuses the name, a creator is shut out of its own room, which then is nobody's but the other's. Two members of one room are too many states for a run with liveness; the theorems cover them. No symmetry, which would be unsound for liveness. |
| RoomAudio | 2 peers, channel of 2, 2 frames | One frame in hand and one queued, or two queued, while either peer changes its mind and the room closes. |
| ConnQueue | 2 sessions with 2 control frames each, 1 forwarder with 3 audio frames, channel of 2 | The queue fills with control frames only, with a mixture, and with a parked sender behind; a popped frame's slot can be taken by another sender. It takes three audio frames of one forwarder to reorder two. |
| Admission | 3 sessions, cap 2, 1 bcrypt slot | One session is refused, two compete for bcrypt, one unwinds while another enters. |
| UdpPlane | 3 peers, 2 addresses, 1 forwarder, `IdleTimeout` 2 ticks, sweep lag 1 | Fewer addresses than peers: every address is contended, inherited and presented with old tokens. Ages are saturated at `IdleTimeout + LagBound`, beyond which nothing distinguishes them. |
| Roster | 2 peers, 2 rooms, the queue of one client looked at, 2 frames deep | Either may be in the other's room, on its way into or out of it, or dead, while messages of several handlers are under way; two frames can overtake `room_joined` or each other. The two peers are alike, so that one client stands for both. The safety properties were also checked with queues of 3. |
| ClientAddress | 6 texts: two clients, one of them in two spellings, two trusted proxies and one transport address with a zone, which is no address to the server; `PrefixBound` 2, `HopBound` 2; only before the limiter is first used | The client writes what a proxy would append, in front of what the proxies append, in both headers. |
| RateLimiter | 2 callers, 3 kinds of request over 4 keys, map of 3, cleanup every 2 admissions, clock to 4, lag 1 | Two peers share an address; the map is too small; windows end at different times. |
| BridgeSession | 3 local addresses, 2 of the plugin | The plugin changes its port, and a stranger sends too. The state space has no other bound. |
| BridgeProcess | 2 bridges, 1 other program, 2 process ids, `Probes` 1, one signal per bridge | Fewer ids than processes: an id is used again by another program while a reclaim is between its calls. |
| ServerOps | one script of each kind, run again and again, 3 commits, 2 configurations; any machine to begin with | One commit never starts, one configuration breaks one of the commits, and a password change or the other kind of installation can come between. The lock admits one at a time, so that a second script of a kind adds nothing. The state space has no other bound. |

`GenBound`, `SendBound`, `AudioBound`, `FrameBound`, `LagBound`, `ClockBound`, `PrefixBound`
and `HopBound` are the only bounds that are not the code's; each is a guard of the action it limits. `LagBound`
is also an assumption about the system: nobody waits longer than that for a mutex
after reading the clock. In the proofs they are arbitrary naturals.

## 5. Fairness

* `RoomRegistry`: weak fairness of each session's `Continue` (a goroutine inside a
  handler is not blocked except by locks held for a few instructions), and of each
  room's timer steps. Nothing is assumed of clients.
* `RoomAudio`: weak fairness of `readLoop`, the forwarder and `destroy`; strong
  fairness of `BeginDrain`, because `select` picks among ready cases at random, so
  that `closeCh` is not passed over for ever.
* `ConnQueue`: senders that can run do, the timer of `writeControl` expires,
  `writeLoop` is served by the channel (strong, for the same reason). The network
  need not take a single byte: a write that has begun need not return unless the
  connection is closed under it.
* `Admission`: goroutines run, bcrypt ends, and the wait for a hello is bounded by
  `helloTimeout` (`HelloFails`).
* `Roster`: a handler runs to its end (a send to another connection returns, by
  `ConnQueue`), and a closed connection ends its session's read loop. Nothing is
  assumed of clients, not even that they read.
* `BridgeProcess`: `main` and the `Serve` goroutine are scheduled. Nothing is assumed of
  the end of a terminated process or of the address becoming free: every wait of `main` has a timeout (`Wait`, `Settle`, the shutdown context).
* `UdpPlane`: time passes and `gcLoop`'s ticker fires.
* `BridgeSession`: goroutines run; a cancelled context or a closed socket wakes
  whoever waits on it, and no read need fail before (the fairness of the loops' returns is
  conditioned on the socket being closed). `PersistentPluginIsBound` also assumes that the plugin repeats
  its hello from every address it has used, and that some of the datagrams and the
  server's answers arrive. That is an assumption about the environment, and it is
  needed: `pendingAddr` has no timeout (`main.go:205`), so a plugin that abandons
  the port of its first hello before the answer stays unbound until the session ends.
  Once a read error has ended a loop nothing is claimed either (`main.go:176-182`,
  `223-229`): the plugin keeps its offer of UDP and is not served.

## 6. What is proved

Every safety property that a run checks, invariant, action property and refinement, is
a theorem for every value of the constants: peers, rooms, keys, addresses, sessions,
processes, scripts and forwarders are arbitrary sets (those whose cardinality is
compared are finite), the limits and bounds arbitrary naturals. The eight proof modules
rest on the named assumption of each module about its constants, which TLC evaluates in
the runs, and on nothing else.
Some theorems state more than the runs check (`TypeCorrect`, `LimiterTypes`,
`WithinLimits`, `TokenBindsOneAddress`, `NoRouteIsTaken`, `NameFindsLiveRoom`,
`OneIdentifiedTimer`, `ZeroMeansServed`).

### RoomRegistryProofs

From `ConstantsAssumption` (names map to keys, the nil values are outside their
sets, `Keys` and `Peers` are finite, the limits are naturals):

* `TypeCorrect`, `NoPeerIsOrphaned`, `LiveRoomsAreFound`, `TimerIsIdentified`,
  `PointerMatchesMembership`: from the inductive invariant `Inv`.
* `NoRoomIsLeaked`: `Spec => []EmptyRoomWillExpire`, relative to `Inv`.
* `LimitsHold`: `Spec => []WithinLimits`, relative to `Inv`, with the library's
  facts about cardinalities.
* `RegistryImplementsPromise`: `Spec => ImplementsPromise`, the refinement of
  `AbstractRooms` under the mapping `lifeBar`, `countdownBar`.

None of these is inductive alone. That no member is orphaned rests on `destroy`
seeing an empty room when the timer's generation is current; that rests on a timer
existing only while its room is empty; that on `Add` stopping it and bumping the
generation under the lock; and what a room's members are rests on where each session
stands between its critical sections. `Inv` says it in four parts: `TypeOK`;
`DirectoryInv`, the map and the rooms' own fields agree; `SessionInv`, a session's
place determines which room it is a member of (including the window in which `Add`
has unlocked and the pointer is not yet set); `TimerInv`, timers and callbacks carry
generations their room has reached, and an armed or fired current timer implies an
empty room. There is one lemma per action, with one step per part. For the
refinement each action is mapped to the abstract step it takes
(`CreateOpens`, `ArmStartsCountdown`, `AddJoins`, `RemoveLeaves`,
`TimerEndsCountdown`, `DestroyCloses`), all others to stuttering.

### UdpPlaneProofs

From `UdpAssumption`: `TypeCorrect`, `AddressMapsAgree`, `NothingSurvivesDetach`,
`FramesGoToTheirPeer`, and the action properties `OneAddressPerToken`,
`RoutesAreNotTaken`, `TokensAreSpentOnce`. The invariant `Inv` is the conjunction of
`TypeOK`, `RoutesMatchPeers`, `RoutedPeersAreAttached`, `InFlightIsOwn` and
`ForwardersKnowPeers`. The maps are inverse only because a hello is accepted from
attached peers with a valid token alone; a frame in flight is its peer's own only
because a spent token never becomes valid again; so they are proved together.

### RosterProofs

From `RosterAssumption`, for any peers, rooms, clients looked at and depth of the queues:
`RostersAreExact` and `MembersAreNamed`. `RosterIsExact` speaks of a client that has read
everything, and says nothing about a pair while news is on its way, so it is not
inductive. `PairInv` speaks of what the client is going to see (`Due`): the snapshot it
awaits, or its roster with everything in its queue applied. That is right, or will be
corrected by the handler that is still under way, or the pair is in doubt. `HandlerInv`
says that what a handler has encoded agrees with where its peer is, and `NamedInv` is the
same argument for `EveryMemberIsNamed`.

Applying a queue is a fold, about which the prover cannot reason by induction. `Ends`
takes its place: what becomes of a truth that each frame of one set decides is said by the
last such frame. The lemmas `EndsSkips`, `EndsWith`, `EndsOfTail` and `EndsOfRotation` say
what a frame at the end, the reading of one and the rotation do to it, `SightSkips` to
`SightOfRotation` what that is for a client's sight of a peer; so the invariant speaks
of the same roster that `Receive` computes frame by frame (`SightOfTail`, `SightOfNone`).
There is one lemma per action; `NewsIsRight` is the step that delivers.

### AdmissionProofs

From `AdmissionAssumption`: `CapHolds`, `PasswordIsChecked`, `CountersCount`,
`TokensAreGood`. All four follow from one idea: the deferred calls of a session are a
prefix of one sequence (`Calls`), whose length is given by its stage. So the stack
says which resources a session holds (`Held`), in every stage and while it unwinds, and
the three counters are the cardinalities of the sets of sessions that hold one
(`CountInv`). The lemmas `PushOne`, `PushTwo` and `PopOne` are the facts about stacks,
`CountUp` and `CountDown` those about counters.

### RoomAudioProofs

From `AudioAssumption`: `DoneIsCalledOnce`, `ChangesBiteAtOnce`,
`SessionsStrandNothing`. Frames are numbered in the order they enter the channel.
`ChannelInv`: the numbers in the channel are sorted and above the one in the forwarder's
hand, so that a frame is in one place; `DoneInv`: it is released if it is in none;
`RoomInv`: who is inside a handler, and that a room that ends is empty. `LateInv` says of
each peer that at most one frame passes since its last change of mind, the one in the
forwarder's hand.

### BridgeProofs

The session, from `BridgeAssumption` (the plugin's addresses are local addresses, nil is none):
`OneSourceIsServed`, `UdpIsProxied`, `SessionLeavesNothing`. `Inv` has three parts:
`Types`; `StageInv`, how far `handlePlugin` is determines which relays, proxy and loops
run; `BindingInv`, about the candidate (the binding, else the pending address), which
once set never changes: what has gone up came from it, the server answers only when
it has heard of it, and a loop about to write to the binding carries its welcome or
has delivered it.

The processes, from `BridgeProcessAssumption`: `OnlyHoldersDie`, `AddressIsReleased`, `ExitCodeIsTrue`.
`IdsAreUnique`: two processes that exist have different ids, and one that a handle or a
listed socket pins keeps its id. `ReclaimInv`: from the open handle to the terminate call
the handle is of a bridge, and the holder at the recheck was that process because
their ids are equal. `ServeInv` ties the place of `main`, the state of the `Serve`
goroutine and the listener to each other.

### ConnectionProofs

What a connection is known by, what its requests are admitted by, and what is written
to it.

The client's address, from `ClientAddressAssumption`: `RequestsAreKeyed`. `RequestInv` says what the header
of a request looks like after any number of hops: what the client wrote, then
the client's own address, then trusted proxies only. The nearest untrusted element is
therefore the client's, if its own address is not trusted; a client that writes
something unreadable into the header is counted with its proxy, and so is one whose own
address has a zone.

The budgets, from `LimiterAssumption` (requests that share a key have its window and its
limit): `LimiterTypes`, `BudgetsHold`, `CountsAreTrue`. `BudgetHolds` counts admissions in
a span of time, but the code counts them per entry and forgets entries when they expire,
when they are cleaned up and when a caller with an old clock finds them. `LimiterInv`
connects the two. `EntryInv`: an entry counts the last `charged[k]` admissions, and it
ends, or has ended, at least `Apart(k)` (the window less the lag) after the first of them
(`FirstOf(k)`). `LogInv`: admissions are noted in order; any that comes `LimitOf(k)` before
the first of the present entry is `Apart(k)` before it, so any two with twice the limit
between them are. A decision does one of three things to each key (`NotCharged`,
`ChargedAgain`, `ChargedFirst`), and there is a lemma for each. That a span holds at most
twice the limit (`BudgetFromLog`) follows from the first admission in it, which the lemma
`Least` finds through the library's well-founded relation on the naturals.

The queue, from `ConnAssumption` (sessions and forwarders are different goroutines, the
depth is not 0): `QueueTypes`, `QueueInvariant`, `ControlFramesAreKept`,
`AudioStaysInOrder`. Both properties speak of the whole pipeline, wire, `writeLoop` and
channel, from which forwarders take frames out at the head and put them back at the
tail. `ConnInv` orders it by `Precedes` (`OrderInv`): a frame differs from all behind it,
and one forwarder's audio is sorted. Control frames may overtake each other, but what a
forwarder has in its hands is a control frame and nowhere in line (`HandInv`), so that it
may go behind everything. No frame has a number that its sender has not issued yet
(`IssuedInv`), so a new frame, which gets the next one, may go behind everything too. While
the connection is open, every control frame with an issued number is somewhere
(`PresentInv`). That it is there once is then a matter of `OrderInv` and `HandInv`: the set
of its places has one element. `AppendInOrder`, `TailInOrder` and `ConcatInOrder` are the
facts about sequences, `Received` and `ReceivedSenders` those about the channel, in which
one step takes the head out and serves a parked sender; `PlacesAreKept` says what a step
must show to keep the last two parts.

### ServerOpsProofs

From `OpsAssumption`: `OneVersionIsInstalled`, `HealthIsKept`, `CopiesAreComplete` and
the action property `FailuresAreUndone`. The lock admits one script at a time (`LockInv`), so
the invariant `IInv` describes the state of its holder: at each of its steps it compares every
part of the disk, the source tree, the binary, the unit, the configuration, the enabled
flag, the account and the running service, with what was there when the lock was taken
(`before`), with what is to be installed and with the copies made so far. Between
operations the parts belong together (`Whole`), unless a rollback was killed; then the
next deployment starts from any disk. Every command has a lemma. A rollback may begin at any
step, so the invariant says of its steps only which parts are what they were, and of the
rest that the copies have them.

### Only model-checked

Every liveness property: `DrainsAfterLastDisconnect`, `ControlSendReturns`,
`CloseReleasesAll`, `SilentRouteExpires`, `CloseReturns`, `SessionTearsDown`,
`PersistentPluginIsBound`, `HandshakeEnds`, `DeadSessionIsForgotten` and
`EveryBridgeServesOrEnds`. They rest on fairness, and what fairness says of an action rests
on when it is ENABLED, of which the prover knows nothing. TLC checks them on the instances
of section 4. The two comments of section 7 are refuted by runs.

## 7. Disagreements with the comments

Both are in `writeAudio` of `internal/ws/conn.go`, which runs in the goroutine
that forwards a whole room, when the peer's queue is full:

1. `connqueue_order`. "if the head happens to be a control frame we leave it"
   (116-117). The code has already received the head; it puts it back at the tail
   (119-133), so that a later control frame is written first.
2. `connqueue_spin`. "Never blocks" (102). With the queue full of control frames and
   the network write stalled the loop takes one out, puts it back and starts again,
   until the write ends, which may be `writeTimeout` later.

In the same place: if another sender takes the slot before the control frame is put
back, `writeAudio` closes the session (125-131). The comment there says so (128-130),
although the one above the function speaks of "not killing the whole session"
(102-105).

## 8. What is not modelled

* `DeltaBroker` and the room-list callbacks: no subscriber in production
  (`delta.go:9-16`), so the order in which deltas fire is not observable.
* Real time: the 30 s and 60 s delays, the timeouts and the 50 ms of
  `flushWriteQueue` are "at some later moment". A frame that is queued after the flush
  has looked is dropped by the close; the model allows the session to end at any
  moment, flushed or not.
* `proto` (stateless encodings), `config` (parsed at startup), `metrics` and
  `httpapi` (counters that nothing depends on, except the gauge in `Admission`).
* In `ClientAddress`, how a header is split into elements and an element into an
  address: `Canonical` is given, and so is which transport addresses have a zone. A client
  on the same link that comes directly is known by its address with zone and port, another
  one for each connection, although the comment speaks of an unzoned IP
  (`client_ip.go:11`); the next one says why (19).
* `cmd/server`: wiring, flags and one shutdown. What `http.Server.Shutdown` does not
  wait for (hijacked WebSockets, `gcLoop`) ends with the process, and nothing is kept on
  disk.
* In `ServerOps`: directories and their modes, the fetch, tests and build on the side
  (they change nothing that is installed), and the fixture modes of the scripts.
  `systemctl stop` and the commands of a rollback are taken to work. Signals to
  `set-password.sh` are left out (it has no trap for them, and what its EXIT trap finds
  in `$?` is the shell's business).
* The test clients, fixtures and build files.

## 9. Plan

Every component with state that changes over time has its module. What could be added:

1. **What the operators are promised**: an abstract machine whose version changes in one
   step or not at all, and `ServerOps` shown to implement it from `OpsInvariant`.
2. **What a sender is promised**: an abstract lossy connection, which `ConnQueue`
   implements, from `QueueInvariant`.
3. **Rosters that heal**: if messages come to name their room, or `room_joined` its place
   in the order of the news, `doubt` can be emptied from `Roster`, and `RosterIsExact`
   proved without it.
4. **Server process**: start and shutdown, if the server should come to wait for its
   sessions.
