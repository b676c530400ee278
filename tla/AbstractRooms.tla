---------------------------- MODULE AbstractRooms ----------------------------
(***************************************************************************)
(* What the room directory of internal/room promises to the sessions that  *)
(* use it, with no locks, no local variables, no timer generations and no  *)
(* callbacks in flight.                                                    *)
(*                                                                         *)
(* A room is opened once under a free name, is joined and left while it is *)
(* open, and is closed for good.  It may be closed only after a countdown  *)
(* that began when the room was empty has run to its end with nobody       *)
(* joining in between.                                                     *)
(***************************************************************************)
EXTENDS Naturals, FiniteSets

CONSTANTS
  Keys,       \* lower-cased room names
  Peers,      \* peers that may join rooms
  Rooms,      \* rooms that may be opened, each at most once
  NoRoom,     \* what a free name maps to
  MaxRooms,   \* rooms that may be open at once
  MaxPeers    \* peers that may be in one room at once

VARIABLES
  dir,        \* [Keys -> Rooms \cup {NoRoom}]: who holds each name
  life,       \* [Rooms -> {"unborn", "open", "closed"}]
  members,    \* [Rooms -> SUBSET Peers]
  countdown   \* [Rooms -> {"off", "running", "over"}]

avars == <<dir, life, members, countdown>>

Init ==
  /\ dir = [k \in Keys |-> NoRoom]
  /\ life = [r \in Rooms |-> "unborn"]
  /\ members = [r \in Rooms |-> {}]
  /\ countdown = [r \in Rooms |-> "off"]

Open(k, r) ==
  /\ dir[k] = NoRoom
  /\ life[r] = "unborn"
  /\ Cardinality({n \in Keys : dir[n] # NoRoom}) < MaxRooms
  /\ dir' = [dir EXCEPT ![k] = r]
  /\ life' = [life EXCEPT ![r] = "open"]
  /\ UNCHANGED <<members, countdown>>

\* A peer is in one room at most, and joining calls the countdown off.
Join(p, r) ==
  /\ life[r] = "open"
  /\ \A q \in Rooms : p \notin members[q]
  /\ Cardinality(members[r]) < MaxPeers
  /\ members' = [members EXCEPT ![r] = @ \cup {p}]
  /\ countdown' = [countdown EXCEPT ![r] = "off"]
  /\ UNCHANGED <<dir, life>>

Leave(p, r) ==
  /\ p \in members[r]
  /\ members' = [members EXCEPT ![r] = @ \ {p}]
  /\ UNCHANGED <<dir, life, countdown>>

StartCountdown(r) ==
  /\ life[r] = "open"
  /\ members[r] = {}
  /\ countdown[r] = "off"
  /\ countdown' = [countdown EXCEPT ![r] = "running"]
  /\ UNCHANGED <<dir, life, members>>

CountdownEnds(r) ==
  /\ countdown[r] = "running"
  /\ countdown' = [countdown EXCEPT ![r] = "over"]
  /\ UNCHANGED <<dir, life, members>>

Close(k, r) ==
  /\ dir[k] = r
  /\ members[r] = {}
  /\ countdown[r] = "over"
  /\ dir' = [dir EXCEPT ![k] = NoRoom]
  /\ life' = [life EXCEPT ![r] = "closed"]
  /\ countdown' = [countdown EXCEPT ![r] = "off"]
  /\ UNCHANGED members

Next ==
  \E r \in Rooms :
    \/ StartCountdown(r)
    \/ CountdownEnds(r)
    \/ \E k \in Keys : Open(k, r) \/ Close(k, r)
    \/ \E p \in Peers : Join(p, r) \/ Leave(p, r)

Spec == Init /\ [][Next]_avars
=============================================================================
