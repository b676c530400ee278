----------------------------- MODULE ClientAddress -----------------------------
(***************************************************************************)
(* The address a client is known and rate-limited by                       *)
(* (internal/ws/client_ip.go), for a request that travels from the client  *)
(* over reverse proxies to the server.                                     *)
(*                                                                         *)
(* A client writes what it likes into Forwarded and X-Forwarded-For.  The  *)
(* proxies are external: as the README asks of them (README.md:247), each  *)
(* appends the address it was called from to the header it uses and leaves *)
(* nothing of the other, and all of them use the same one.  They are the   *)
(* trusted proxies of the configuration.                                   *)
(*                                                                         *)
(* A text is one element of a header.  Canonical gives the address it is   *)
(* for, of which it may be one of several spellings (IPv4 in IPv6, ports,  *)
(* quotes); a text that is not in its domain is not the address of a node. *)
(* A client on the same link may come from an address with a zone, which   *)
(* the server does not take for an address either.                         *)
(***************************************************************************)
EXTENDS Naturals, Sequences, SequencesExt

CONSTANTS
  Texts,       \* elements of a header, and spellings of transport addresses
  Canonical,   \* addresses of the texts that have one
  Zoned,       \* transport addresses with a zone (fe80::1%eth0)
  Trusted,     \* the addresses in trusted_proxies
  PrefixBound, \* bound: elements a client writes
  HopBound,    \* bound: proxies on the way
  Bad          \* not an address

Addrs == {Canonical[t] : t \in DOMAIN Canonical}
Headers == {"Forwarded", "X-Forwarded-For"}

ASSUME ClientAddressAssumption ==
  /\ DOMAIN Canonical \subseteq Texts
  /\ Zoned \subseteq Texts \ (DOMAIN Canonical \cup Addrs)
  /\ Trusted \subseteq Addrs
  /\ Bad \notin Addrs \cup Zoned
  /\ PrefixBound \in Nat
  /\ HopBound \in Nat

VARIABLES
  stage,  \* where the request is: "none", "sent" or "served"
  uses,   \* the header the proxies use
  origin, \* the client: its address, or the text of the one with a zone
  remote, \* the transport address the request comes from, as a text
  header, \* [Headers -> Seq(Texts)]: empty for a header that is not there
  hops,   \* the proxies it has passed
  key     \* what the server knows the client by

request == <<stage, uses, origin, remote, header, hops, key>>

RequestTypeOK ==
  /\ stage \in {"none", "sent", "served"}
  /\ uses \in Headers
  /\ origin \in Addrs \cup Zoned \cup {Bad}
  /\ remote \in Texts \cup {Bad}
  /\ header \in [Headers -> Seq(Texts)]
  /\ hops \in 0..HopBound
  /\ key \in Addrs \cup Zoned \cup {Bad}

RequestInit ==
  /\ stage = "none"
  /\ uses = "Forwarded"
  /\ origin = Bad
  /\ remote = Bad
  /\ header = [h \in Headers |-> <<>>]
  /\ hops = 0
  /\ key = Bad

-----------------------------------------------------------------------------
(* The server *)

\* The address of a text without zone and with a valid port, IPv4 unmapped.
Node(text) == IF text \in DOMAIN Canonical THEN Canonical[text] ELSE Bad

IsTrusted(addr) == addr \in Trusted

\* One element that is not for an address, and the header is worth nothing.
Chain(values) ==
  IF \E i \in DOMAIN values : Node(values[i]) = Bad
  THEN <<>> ELSE [i \in DOMAIN values |-> Node(values[i])]

\* X-Forwarded-For counts only without Forwarded.
Advertised(hdr) ==
  Chain(hdr[IF hdr["Forwarded"] # <<>> THEN "Forwarded" ELSE "X-Forwarded-For"])

\* From the nearest hop to the origin, the first that is not trusted.
NearestUntrusted_FromOrigin(chain) ==
  LET untrusted == {i \in DOMAIN chain : ~IsTrusted(chain[i])} IN
  chain[IF untrusted = {} THEN 1 ELSE CHOOSE i \in untrusted : \A j \in untrusted : i <= j]
NearestUntrusted(chain) ==
  LET untrusted == {i \in DOMAIN chain : ~IsTrusted(chain[i])} IN
  chain[IF untrusted = {} THEN 1 ELSE Max(untrusted)]

\* A transport address that cannot be parsed is taken as it is, with its port.
ClientIP(from, hdr) ==
  LET direct == Node(from)
      chain == Advertised(hdr) IN
  IF direct = Bad THEN from
  ELSE IF IsTrusted(direct) /\ chain # <<>> THEN NearestUntrusted(chain)
  ELSE direct

-----------------------------------------------------------------------------
(* The way of a request *)

\* A client writes a request from t; h is what the proxies on its way use.
Send(t, hdr, h) ==
  /\ stage = "none"
  /\ stage' = "sent"
  /\ uses' = h
  /\ origin' = IF t \in Zoned THEN t ELSE Canonical[t]
  /\ remote' = t
  /\ header' = hdr
  /\ UNCHANGED <<hops, key>>

\* A trusted proxy passes it on.
Pass(t) ==
  /\ stage = "sent"
  /\ hops < HopBound
  /\ IsTrusted(Canonical[t])
  /\ hops' = hops + 1
  /\ header' = [h \in Headers |-> IF h = uses THEN Append(header[h], remote) ELSE <<>>]
  /\ remote' = t
  /\ UNCHANGED <<stage, uses, origin, key>>

\* HandleHTTP
Serve ==
  /\ stage = "sent"
  /\ stage' = "served"
  /\ key' = ClientIP(remote, header)
  /\ UNCHANGED <<uses, origin, remote, header, hops>>

\* The next request.
Again ==
  /\ stage = "served"
  /\ stage' = "none"
  /\ uses' = "Forwarded"
  /\ origin' = Bad
  /\ remote' = Bad
  /\ header' = [h \in Headers |-> <<>>]
  /\ hops' = 0
  /\ key' = Bad

Written == UNION {[1..n -> Texts] : n \in 0..PrefixBound}

RequestNext ==
  \/ \E t \in DOMAIN Canonical \cup Zoned, hdr \in [Headers -> Written], h \in Headers :
       Send(t, hdr, h)
  \/ \E t \in DOMAIN Canonical : Pass(t)
  \/ Serve
  \/ Again

RequestSpec == RequestInit /\ [][RequestNext]_request

-----------------------------------------------------------------------------
(* Safety *)

\* Whatever a client has written into the headers, in whatever spelling its address
\* and the proxies' are passed on, the server knows it by its own address and no
\* other.  A client that spoils the header is counted with its proxy, and so is one
\* whose own address has a zone (client_ip.go:11-45).
KeyedByClient ==
  stage = "served" /\ ~IsTrusted(origin) =>
    \/ key = origin
    \/ /\ hops > 0
       /\ key = Node(remote)
       /\ \/ origin \in Zoned
          \/ \E i \in 1..(Len(header[uses]) - hops) : Node(header[uses][i]) = Bad
=============================================================================
