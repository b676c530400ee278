---------------------------- MODULE ConnectionProofs ----------------------------
(***************************************************************************)
(* Proofs about a connection: what it is known by (ClientAddress), what    *)
(* its requests are admitted by (RateLimiter), and the queue it is written *)
(* through (ConnQueue), for any values of their constants.                 *)
(*                                                                         *)
(* The client's address: the header the proxies use ends with the client's *)
(* own address and those of all proxies but the last, whatever is before   *)
(* them.                                                                   *)
(*                                                                         *)
(* The budgets: an entry counts the last admissions of its key.  The first *)
(* admissions of two successive entries are a window, less what a caller's *)
(* clock lags, apart, so every admission but the last "limit" of those     *)
(* before an entry is as far from the entry's first.  A stretch of time    *)
(* shorter than that sees the admissions of two entries at most.           *)
(*                                                                         *)
(* The queue: every frame in line (on the wire, with writeLoop, in the     *)
(* channel) differs from those behind it and, if it is audio, is older     *)
(* than its sender's frames behind it.  A frame that a forwarder has taken *)
(* out is a control frame and is not in line.  The number a frame gets is  *)
(* above all its sender's before it, so what is enqueued may stand behind  *)
(* everything; and as long as the connection is open, every control frame  *)
(* that has its number is somewhere.                                       *)
(***************************************************************************)
EXTENDS ConnQueue, RateLimiter, ClientAddress, FiniteSetTheorems, WellFoundedInduction, TLAPS

-----------------------------------------------------------------------------
(* ClientAddress: what is invariant *)

\* How many elements the client wrote into the header that counts.
Prefix == Len(header[uses]) - hops

\* A text for client a.
Spells(t, a) ==
  \/ t \in DOMAIN Canonical /\ Canonical[t] = a
  \/ t \in Zoned /\ t = a
SpellsTrusted(t) == t \in DOMAIN Canonical /\ IsTrusted(Canonical[t])

OnTheWay ==
  /\ hops = 0 => Spells(remote, origin)
  /\ hops > 0 =>
       /\ Prefix \in Nat
       /\ Spells(header[uses][Prefix + 1], origin)
       /\ \A i \in 1..Len(header[uses]) : i > Prefix + 1 => SpellsTrusted(header[uses][i])
       /\ SpellsTrusted(remote)
       /\ \A h \in Headers \ {uses} : header[h] = <<>>

\* RequestTypeOK but for key, which RequestInv says more of.
TypesOnTheWay ==
  /\ stage \in {"none", "sent", "served"}
  /\ uses \in Headers
  /\ header \in [Headers -> Seq(Texts)]
  /\ hops \in 0..HopBound

RequestInv ==
  /\ TypesOnTheWay
  /\ stage = "none" => hops = 0
  /\ stage # "none" => OnTheWay
  /\ stage = "served" => key = ClientIP(remote, header)

-----------------------------------------------------------------------------
(* ClientAddress: texts *)

LEMMA NodeOfSpelling ==
  ASSUME NEW t \in DOMAIN Canonical
  PROVE  Node(t) = Canonical[t] /\ Canonical[t] \in Addrs /\ Node(t) # Bad /\ t \in Texts
BY ClientAddressAssumption DEF Node, Addrs

LEMMA NodeOfZoned ==
  ASSUME NEW t \in Zoned
  PROVE  Node(t) = Bad /\ t \notin DOMAIN Canonical
BY ClientAddressAssumption DEF Node

LEMMA WrittenIsSeq == Written \subseteq Seq(Texts)
BY ClientAddressAssumption DEF Written

-----------------------------------------------------------------------------
(* ClientAddress: a request on its way *)

LEMMA SendKeepsRequestInv ==
  ASSUME RequestInv, NEW t \in DOMAIN Canonical \cup Zoned,
         NEW hdr \in [Headers -> Written], NEW h \in Headers,
         Send(t, hdr, h)
  PROVE  RequestInv'
<1>1. TypesOnTheWay'
  BY WrittenIsSeq DEF Send, RequestInv, TypesOnTheWay
<1>2. hops' = 0 /\ Spells(remote', origin') /\ stage' = "sent"
  BY DEF Send, RequestInv, Spells
<1> QED BY <1>1, <1>2 DEF RequestInv, OnTheWay

\* A proxy appends the address it was called from, and is itself trusted.
LEMMA PassKeepsRequestInv ==
  ASSUME RequestInv, NEW t \in DOMAIN Canonical, Pass(t)
  PROVE  RequestInv'
<1> USE ClientAddressAssumption
<1> DEFINE v == header[uses]
           w == header'[uses]
           n == Len(v)
<1>1. /\ stage = "sent" /\ UNCHANGED <<stage, uses, origin, key>>
      /\ hops < HopBound /\ hops' = hops + 1 /\ hops \in Nat
      /\ remote' = t /\ SpellsTrusted(t)
      /\ OnTheWay
  BY DEF Pass, RequestInv, TypesOnTheWay, SpellsTrusted
<1>2. remote \in Texts
  BY <1>1 DEF OnTheWay, Spells, SpellsTrusted
<1>3. v \in Seq(Texts) /\ n \in Nat /\ uses \in Headers
  BY DEF RequestInv, TypesOnTheWay
<1>4. header' = [h \in Headers |-> IF h = uses THEN Append(v, remote) ELSE <<>>]
  BY DEF Pass
<1>5. w = Append(v, remote)
  BY <1>3, <1>4
<1>6. w \in Seq(Texts) /\ Len(w) = n + 1 /\ w[n + 1] = remote /\ \A i \in 1..n : w[i] = v[i]
  BY <1>2, <1>3, <1>5
<1>7. \A h \in Headers \ {uses} : header'[h] = <<>>
  BY <1>4
<1>8. TypesOnTheWay'
  <2>1. header' \in [Headers -> Seq(Texts)]
    BY <1>3, <1>4, <1>5, <1>6
  <2> QED BY <1>1, <2>1 DEF RequestInv, TypesOnTheWay
<1> HIDE DEF v, w, n
<1>9. Prefix' = Len(w) - (hops + 1) /\ Prefix = n - hops
  BY <1>1 DEF Prefix, v, w, n
<1>10. CASE hops = 0
  <2>1. Prefix' = n /\ Spells(w[n + 1], origin)
    BY <1>1, <1>2, <1>3, <1>6, <1>9, <1>10 DEF OnTheWay, Spells
  <2>2. OnTheWay'
    BY <1>1, <1>3, <1>6, <1>7, <2>1 DEF OnTheWay, Spells, SpellsTrusted, w
  <2> QED BY <1>1, <1>8, <2>2 DEF RequestInv
<1>11. CASE hops > 0
  <2>1. /\ Prefix \in Nat /\ Spells(v[Prefix + 1], origin)
        /\ \A i \in 1..n : i > Prefix + 1 => SpellsTrusted(v[i])
        /\ SpellsTrusted(remote)
    BY <1>1, <1>11 DEF OnTheWay, v, n
  <2>2. Prefix' = Prefix /\ Prefix + 1 \in 1..n
    BY <1>1, <1>3, <1>6, <1>9, <1>11, <2>1
  <2>3. Spells(w[Prefix + 1], origin)
    BY <1>6, <2>1, <2>2
  <2>4. ASSUME NEW i \in 1..Len(w), i > Prefix + 1 PROVE SpellsTrusted(w[i])
    <3>1. i \in 1..n \/ i = n + 1
      BY <1>3, <1>6
    <3> QED BY <1>6, <2>1, <2>4, <3>1
  <2>5. OnTheWay'
    BY <1>1, <1>7, <2>1, <2>2, <2>3, <2>4 DEF OnTheWay, Spells, SpellsTrusted, w
  <2> QED BY <1>1, <1>8, <2>5 DEF RequestInv
<1> QED BY <1>1, <1>10, <1>11

LEMMA NextKeepsRequestInv == RequestInv /\ [RequestNext]_request => RequestInv'
<1> SUFFICES ASSUME RequestInv, [RequestNext]_request PROVE RequestInv'
  OBVIOUS
<1>1. CASE Serve
  BY <1>1 DEF Serve, RequestInv, TypesOnTheWay, OnTheWay, Prefix, Spells, SpellsTrusted
<1>2. CASE Again
  BY <1>2, ClientAddressAssumption DEF Again, RequestInv, TypesOnTheWay, Headers
<1>3. CASE UNCHANGED request
  BY <1>3 DEF request, RequestInv, TypesOnTheWay, OnTheWay, Prefix, Spells, SpellsTrusted
<1> QED BY <1>1, <1>2, <1>3, SendKeepsRequestInv, PassKeepsRequestInv DEF RequestNext

-----------------------------------------------------------------------------
(* ClientAddress: what the server makes of it *)

\* The nearest hop that is not trusted is the client.
LEMMA NearestIsOrigin ==
  ASSUME NEW chain, NEW n \in Nat, DOMAIN chain = 1..n, NEW k \in 1..n,
         ~IsTrusted(chain[k]), \A i \in 1..n : i > k => IsTrusted(chain[i])
  PROVE  NearestUntrusted(chain) = chain[k]
<1> DEFINE untrusted == {i \in DOMAIN chain : ~IsTrusted(chain[i])}
<1>1. k \in untrusted /\ \A i \in untrusted : i \in Nat /\ k >= i
  OBVIOUS
<1>2. \A m \in untrusted : (\A i \in untrusted : m >= i) => m = k
  BY <1>1
<1>3. Max(untrusted) = k
  BY <1>1, <1>2 DEF Max
<1> QED BY <1>1, <1>3 DEF NearestUntrusted

LEMMA RequestInvImpliesKeyed == RequestInv => KeyedByClient
<1> SUFFICES ASSUME RequestInv, stage = "served", ~IsTrusted(origin)
             PROVE  \/ key = origin
                    \/ /\ hops > 0
                       /\ key = Node(remote)
                       /\ \/ origin \in Zoned
                          \/ \E i \in 1..(Len(header[uses]) - hops) : Node(header[uses][i]) = Bad
  BY DEF KeyedByClient
<1>1. OnTheWay /\ key = ClientIP(remote, header) /\ TypesOnTheWay
  BY DEF RequestInv
<1>2. hops > 0 => Node(remote) = Canonical[remote] /\ Node(remote) # Bad
  BY <1>1, NodeOfSpelling DEF OnTheWay, SpellsTrusted
<1>3. CASE hops = 0
  <2>1. Spells(remote, origin)
    BY <1>1, <1>3 DEF OnTheWay
  <2>2. CASE remote \in DOMAIN Canonical /\ Canonical[remote] = origin
    BY <1>1, <2>2, NodeOfSpelling DEF ClientIP
  <2>3. CASE remote \in Zoned /\ remote = origin
    BY <1>1, <2>3, NodeOfZoned DEF ClientIP
  <2> QED BY <2>1, <2>2, <2>3 DEF Spells
<1>4. CASE hops > 0
  <2> DEFINE v == header[uses]
             n == Len(v)
             k == Prefix + 1
  <2>1. /\ v \in Seq(Texts) /\ n \in Nat /\ DOMAIN v = 1..n /\ hops \in Nat /\ uses \in Headers
    BY <1>1 DEF TypesOnTheWay
  <2>2. k \in 1..n /\ Spells(v[k], origin) /\ \A i \in 1..n : i > k => SpellsTrusted(v[i])
    BY <1>1, <1>4, <2>1 DEF OnTheWay, Prefix
  <2>3. IsTrusted(Node(remote))
    BY <1>1, <1>2, <1>4 DEF OnTheWay, SpellsTrusted
  <2>4. Advertised(header) = Chain(v)
    <3>1. v # <<>>
      BY <2>1, <2>2
    <3>2. uses # "Forwarded" => uses = "X-Forwarded-For" /\ header["Forwarded"] = <<>>
      BY <1>1, <1>4, <2>1 DEF OnTheWay, Headers
    <3> QED BY <3>1, <3>2 DEF Advertised
  <2>5. \A i \in 1..n : i > k => IsTrusted(Node(v[i])) /\ Node(v[i]) # Bad
    BY <2>2, NodeOfSpelling DEF SpellsTrusted
  <2>6. IF origin \in Zoned THEN Node(v[k]) = Bad ELSE Node(v[k]) = origin /\ Node(v[k]) # Bad
    <3>1. CASE v[k] \in Zoned /\ v[k] = origin
      BY <3>1, NodeOfZoned
    <3>2. CASE v[k] \in DOMAIN Canonical /\ Canonical[v[k]] = origin
      <4>1. origin \notin Zoned
        BY <3>2, NodeOfSpelling, ClientAddressAssumption
      <4> QED BY <3>2, <4>1, NodeOfSpelling
    <3> QED BY <2>2, <3>1, <3>2 DEF Spells
  <2> HIDE DEF v
  <2>7. CASE \E i \in 1..n : Node(v[i]) = Bad
    <3>1. PICK i \in 1..n : Node(v[i]) = Bad
      BY <2>7
    <3>2. origin \in Zoned \/ i \in 1..(n - hops)
      BY <2>1, <2>2, <2>5, <2>6, <3>1 DEF Prefix, v
    <3>3. Chain(v) = <<>>
      BY <2>1, <3>1 DEF Chain
    <3>4. key = Node(remote)
      BY <1>1, <1>2, <1>4, <2>4, <3>3 DEF ClientIP
    <3> QED BY <1>4, <3>1, <3>2, <3>4 DEF v
  <2>8. CASE \A i \in 1..n : Node(v[i]) # Bad
    <3> DEFINE chain == [i \in DOMAIN v |-> Node(v[i])]
    <3>1. Chain(v) = chain /\ DOMAIN chain = 1..n /\ \A i \in 1..n : chain[i] = Node(v[i])
      BY <2>1, <2>8 DEF Chain
    <3>2. chain # <<>>
      <4>1. DOMAIN <<>> = {} /\ k \in DOMAIN chain
        BY <2>2, <3>1
      <4> QED BY <4>1
    <3> HIDE DEF chain
    <3>3. NearestUntrusted(chain) = chain[k]
      <4>1. chain[k] = origin
        BY <2>2, <2>6, <2>8, <3>1
      <4>2. \A i \in 1..n : i > k => IsTrusted(chain[i])
        BY <2>5, <3>1
      <4> QED BY <2>1, <2>2, <3>1, <4>1, <4>2, NearestIsOrigin
    <3>4. key = origin
      BY <1>1, <1>2, <1>4, <2>2, <2>3, <2>4, <2>6, <2>8, <3>1, <3>2, <3>3 DEF ClientIP
    <3> QED BY <3>4
  <2> QED BY <2>7, <2>8
<1> QED BY <1>1, <1>3, <1>4 DEF TypesOnTheWay

-----------------------------------------------------------------------------
\* Every request is known by its client's address, however many proxies it passed,
\* however its addresses are spelled and whatever the client wrote into its headers,
\* unless what it wrote, or its own address with a zone, cannot be read
\* (client_ip.go:11-45).
THEOREM RequestsAreKeyed == RequestSpec => []KeyedByClient
<1>1. RequestInit => RequestInv
  BY ClientAddressAssumption DEF RequestInit, RequestInv, TypesOnTheWay, Headers
<1> QED BY <1>1, NextKeepsRequestInv, RequestInvImpliesKeyed, PTL DEF RequestSpec

-----------------------------------------------------------------------------
(* RateLimiter: what is invariant *)

\* A caller decides with a time that has come, and not long ago.
TicketInv(c) ==
  asking[c] # Nothing => asking[c].now <= clock /\ clock - asking[c].now <= LagBound

\* The first admission that the last entry of a key has counted.
FirstOf(k) == Len(admitted[k]) + 1 - charged[k]

\* The least distance of the first admissions of two entries.
Apart(k) == WindowOf(k) - LagBound

\* An entry counts the last admissions of its key.
EntryInv(k) ==
  /\ charged[k] <= LimitOf(k) /\ charged[k] <= Len(admitted[k])
  /\ charged[k] = 0 => admitted[k] = <<>>
  /\ k \in DOMAIN entries =>
       /\ entries[k].count = charged[k] /\ charged[k] > 0
       /\ entries[k].resetAt >= admitted[k][FirstOf(k)] + Apart(k)
  /\ k \notin DOMAIN entries /\ charged[k] > 0 => clock >= admitted[k][FirstOf(k)] + Apart(k)

\* Admissions are noted in order; those of two entries ago are far from the last
\* entry's, and so are any two that have twice the limit between them.
LogInv(k) ==
  LET log == admitted[k]
      n == Len(log) IN
  /\ \A i, j \in 1..n : i <= j => log[i] <= log[j]
  /\ \A i \in 1..n : log[i] <= clock
  /\ charged[k] > 0 =>
       \A i \in 1..n : i <= FirstOf(k) - LimitOf(k) => log[FirstOf(k)] - log[i] >= Apart(k)
  /\ \A i, j \in 1..n : j - i >= 2 * LimitOf(k) => log[j] - log[i] >= Apart(k)

LimiterInv ==
  /\ LimiterTypeOK /\ IsFiniteSet(DOMAIN entries)
  /\ \A c \in Callers : TicketInv(c)
  /\ \A k \in Keys : EntryInv(k) /\ LogInv(k)

-----------------------------------------------------------------------------
(* RateLimiter: limits, windows and sets of numbers *)

\* All requests of a key have its limit and its window.
LEMMA LimitsOfRequest ==
  ASSUME NEW q \in Requests, NEW k \in {q.first, q.second}
  PROVE  k \in Keys /\ LimitOf(k) = q.limit /\ WindowOf(k) = q.window
<1> DEFINE r == CHOOSE p \in Requests : k \in {p.first, p.second}
<1>1. r \in Requests /\ k \in {r.first, r.second}
  OBVIOUS
<1> HIDE DEF r
<1>2. {q.first, q.second} \cap {r.first, r.second} # {}
  BY <1>1
<1>3. q.window = r.window /\ q.limit = r.limit
  BY <1>1, <1>2, LimiterAssumption
<1> QED BY <1>3 DEF Keys, LimitOf, WindowOf, r

LEMMA KeyNumbers ==
  ASSUME NEW k \in Keys
  PROVE  LimitOf(k) \in Nat \ {0} /\ WindowOf(k) \in Nat \ {0} /\ Apart(k) \in Int
<1>1. PICK q \in Requests : k \in {q.first, q.second}
  BY DEF Keys
<1>2. LimitOf(k) = q.limit /\ WindowOf(k) = q.window
  BY <1>1, LimitsOfRequest
<1> QED BY <1>2, LimiterAssumption DEF Apart

LEMMA NatIsWellFounded == IsWellFoundedOn({ss \in Nat \X Nat : ss[1] < ss[2]}, Nat)
BY NatLessThanWellFounded DEF OpToRel

LEMMA Least ==
  ASSUME NEW S \in SUBSET Nat, S # {}
  PROVE  \E m \in S : \A i \in S : m <= i
<1> DEFINE Less == {ss \in Nat \X Nat : ss[1] < ss[2]}
<1>1. \A i, j \in Nat : i < j => <<i, j>> \in Less
  OBVIOUS
<1> HIDE DEF Less
<1>2. PICK m \in S : \A i \in S : ~(<<i, m>> \in Less)
  BY NatIsWellFounded, WFMin DEF Less
<1>3. ASSUME NEW i \in S PROVE m <= i
  <2>1. m \in Nat /\ i \in Nat
    OBVIOUS
  <2>2. ~(<<i, m>> \in Less)
    BY <1>2
  <2>3. ~(i < m)
    BY <1>1, <2>1, <2>2
  <2> QED BY <2>1, <2>3
<1> QED BY <1>3

-----------------------------------------------------------------------------
(* RateLimiter: what a step may do to a key *)

\* It is not charged; its entry stays, or is removed when it has expired.
NotCharged(k) ==
  /\ admitted'[k] = admitted[k] /\ charged'[k] = charged[k]
  /\ clock <= clock'
  /\ k \in DOMAIN entries' => k \in DOMAIN entries /\ entries'[k] = entries[k]
  /\ k \in DOMAIN entries /\ k \notin DOMAIN entries' => clock' >= entries[k].resetAt

\* It is charged to its entry.
ChargedAgain(k) ==
  /\ k \in DOMAIN entries /\ entries[k].count < LimitOf(k)
  /\ clock' = clock
  /\ admitted'[k] = Append(admitted[k], clock) /\ charged'[k] = charged[k] + 1
  /\ k \in DOMAIN entries' => entries'[k] = [entries[k] EXCEPT !.count = @ + 1]
  /\ k \notin DOMAIN entries' => clock >= entries[k].resetAt

\* It had no entry any more and gets a new one.
ChargedFirst(k) ==
  /\ k \in DOMAIN entries => clock >= entries[k].resetAt
  /\ clock' = clock
  /\ admitted'[k] = Append(admitted[k], clock) /\ charged'[k] = 1
  /\ k \in DOMAIN entries' /\ entries'[k] \in Entry
  /\ entries'[k].count = 1 /\ entries'[k].resetAt >= clock + Apart(k)

KeyTypes(k) ==
  /\ clock \in Nat
  /\ admitted[k] \in Seq(Nat) /\ charged[k] \in Nat
  /\ k \in DOMAIN entries => entries[k] \in Entry

LEMMA NotChargedKeeps ==
  ASSUME NEW k \in Keys, KeyTypes(k), clock' \in Nat, EntryInv(k), LogInv(k), NotCharged(k)
  PROVE  EntryInv(k)' /\ LogInv(k)'
<1> USE KeyNumbers DEF KeyTypes
<1>1. FirstOf(k)' = FirstOf(k)
  BY DEF NotCharged, FirstOf
<1>2. charged[k] > 0 => FirstOf(k) \in 1..Len(admitted[k]) /\ admitted[k][FirstOf(k)] \in Nat
  <2> SUFFICES ASSUME charged[k] > 0
               PROVE  FirstOf(k) \in 1..Len(admitted[k]) /\ admitted[k][FirstOf(k)] \in Nat
    OBVIOUS
  <2>1. Len(admitted[k]) \in Nat /\ charged[k] <= Len(admitted[k])
    BY DEF EntryInv
  <2>2. FirstOf(k) \in 1..Len(admitted[k])
    BY <2>1 DEF FirstOf
  <2> QED BY <2>2
<1>3. EntryInv(k)'
  <2> DEFINE first == admitted[k][FirstOf(k)]
  <2>1. /\ admitted'[k] = admitted[k] /\ charged'[k] = charged[k]
        /\ admitted'[k][FirstOf(k)'] = first
    BY <1>1 DEF NotCharged
  <2>2. /\ charged[k] <= LimitOf(k) /\ charged[k] <= Len(admitted[k])
        /\ charged[k] = 0 => admitted[k] = <<>>
    BY DEF EntryInv
  <2>3. ASSUME k \in DOMAIN entries'
        PROVE  entries'[k].count = charged[k] /\ charged[k] > 0 /\ entries'[k].resetAt >= first + Apart(k)
    BY <2>3 DEF NotCharged, EntryInv
  <2>4. ASSUME k \notin DOMAIN entries', charged[k] > 0
        PROVE  clock' >= first + Apart(k)
    <3>1. first \in Nat /\ Apart(k) \in Int /\ clock \in Nat /\ clock' \in Nat /\ clock <= clock'
      BY <1>2, <2>4 DEF NotCharged
    <3> HIDE DEF first
    <3>2. CASE k \notin DOMAIN entries
      <4>1. clock >= first + Apart(k)
        BY <2>4, <3>2 DEF EntryInv, first
      <4> QED BY <3>1, <4>1
    <3>3. CASE k \in DOMAIN entries
      <4>1. clock' >= entries[k].resetAt /\ entries[k].resetAt >= first + Apart(k)
        BY <2>4, <3>3 DEF NotCharged, EntryInv, first
      <4>2. entries[k].resetAt \in Nat
        BY <3>3 DEF Entry
      <4> QED BY <3>1, <4>1, <4>2
    <3> QED BY <3>2, <3>3
  <2> HIDE DEF first
  <2> QED BY <2>1, <2>2, <2>3, <2>4 DEF EntryInv
<1>4. LogInv(k)'
  <2> DEFINE n == Len(admitted[k])
  <2>1. /\ \A i, j \in 1..n : i <= j => admitted[k][i] <= admitted[k][j]
        /\ \A i \in 1..n : admitted[k][i] <= clock
    BY DEF LogInv
  <2>2. ASSUME NEW i \in 1..n PROVE admitted[k][i] <= clock'
    <3>1. admitted[k][i] \in Nat /\ clock <= clock' /\ clock \in Nat
      BY DEF NotCharged
    <3> QED BY <2>1, <3>1
  <2>3. /\ admitted'[k] = admitted[k] /\ charged'[k] = charged[k]
    BY DEF NotCharged
  <2> QED BY <1>1, <2>1, <2>2, <2>3 DEF LogInv
<1> QED BY <1>3, <1>4

\* The log with one more admission.
LEMMA LongerLog ==
  ASSUME NEW k \in Keys, KeyTypes(k), LogInv(k), admitted'[k] = Append(admitted[k], clock)
  PROVE  LET n == Len(admitted[k]) IN
         /\ n \in Nat /\ Len(admitted'[k]) = n + 1
         /\ \A i \in 1..n : admitted[k][i] \in Nat /\ admitted'[k][i] = admitted[k][i]
         /\ admitted'[k][n + 1] = clock
         /\ \A i, j \in 1..(n + 1) : i <= j => admitted'[k][i] <= admitted'[k][j]
         /\ \A i \in 1..(n + 1) : admitted'[k][i] <= clock
<1> DEFINE log == admitted[k]
           n == Len(log)
<1>1. log \in Seq(Nat) /\ n \in Nat /\ clock \in Nat
  BY DEF KeyTypes
<1>2. Len(admitted'[k]) = n + 1 /\ admitted'[k][n + 1] = clock
  BY <1>1
<1>3. \A i \in 1..n : log[i] \in Nat /\ admitted'[k][i] = log[i] /\ log[i] <= clock
  BY <1>1 DEF LogInv
<1>4. \A i, j \in 1..n : i <= j => log[i] <= log[j]
  BY DEF LogInv
<1> HIDE DEF log, n
<1>5. \A i \in 1..(n + 1) : i \in 1..n \/ i = n + 1
  BY <1>1
<1>6. /\ \A i, j \in 1..(n + 1) : i <= j => admitted'[k][i] <= admitted'[k][j]
      /\ \A i \in 1..(n + 1) : admitted'[k][i] <= clock
  <2>1. ASSUME NEW i \in 1..(n + 1) PROVE admitted'[k][i] <= clock
    BY <1>1, <1>2, <1>3, <1>5
  <2>2. ASSUME NEW i \in 1..(n + 1), NEW j \in 1..(n + 1), i <= j
        PROVE  admitted'[k][i] <= admitted'[k][j]
    <3>1. CASE j \in 1..n
      <4>1. i \in 1..n
        BY <1>1, <2>2, <3>1
      <4> QED BY <1>3, <1>4, <2>2, <3>1, <4>1
    <3>2. CASE j = n + 1
      BY <1>2, <2>1, <3>2
    <3> QED BY <1>5, <3>1, <3>2
  <2> QED BY <2>1, <2>2
<1> QED BY <1>1, <1>2, <1>3, <1>6 DEF log, n

LEMMA ChargedAgainKeeps ==
  ASSUME NEW k \in Keys, KeyTypes(k), EntryInv(k), LogInv(k), ChargedAgain(k)
  PROVE  EntryInv(k)' /\ LogInv(k)'
<1> DEFINE log == admitted[k]
           n == Len(log)
           c == charged[k]
           f == FirstOf(k)
           limit == LimitOf(k)
           apart == Apart(k)
<1>1. limit \in Nat \ {0} /\ apart \in Int /\ clock \in Nat /\ c \in Nat /\ clock' = clock
  BY KeyNumbers DEF KeyTypes, ChargedAgain
<1>2. /\ n \in Nat /\ Len(admitted'[k]) = n + 1
      /\ \A i \in 1..n : log[i] \in Nat /\ admitted'[k][i] = log[i]
      /\ admitted'[k][n + 1] = clock
      /\ \A i, j \in 1..(n + 1) : i <= j => admitted'[k][i] <= admitted'[k][j]
      /\ \A i \in 1..(n + 1) : admitted'[k][i] <= clock
  BY LongerLog DEF ChargedAgain
<1>3. c > 0 /\ c < limit /\ c <= n /\ charged'[k] = c + 1
  BY <1>1 DEF EntryInv, ChargedAgain
<1>4. f = n + 1 - c /\ f \in 1..n /\ FirstOf(k)' = f
  <2>1. f = n + 1 - c /\ FirstOf(k)' = n + 1 + 1 - (c + 1)
    BY <1>2, <1>3 DEF FirstOf
  <2> HIDE DEF log, n, c, f
  <2> QED BY <1>1, <1>2, <1>3, <2>1
<1>5. /\ entries[k].resetAt >= log[f] + apart
      /\ \A i \in 1..n : i <= f - limit => log[f] - log[i] >= apart
      /\ \A i, j \in 1..n : j - i >= 2 * limit => log[j] - log[i] >= apart
  BY <1>3 DEF EntryInv, LogInv, ChargedAgain
<1>6. EntryInv(k)'
  <2>1. admitted'[k] # <<>>
    BY <1>2
  <2>2. k \in DOMAIN entries' => /\ entries'[k].count = c + 1
                                 /\ entries'[k].resetAt = entries[k].resetAt
    BY <1>1 DEF ChargedAgain, EntryInv, KeyTypes, Entry
  <2>3. k \notin DOMAIN entries' => clock >= log[f] + apart
    <3>1. entries[k].resetAt \in Nat /\ (k \notin DOMAIN entries' => clock >= entries[k].resetAt)
      BY DEF ChargedAgain, KeyTypes, Entry
    <3>2. log[f] \in Nat
      BY <1>2, <1>4
    <3> HIDE DEF log, n, c, f, limit, apart
    <3> QED BY <1>1, <1>5, <3>1, <3>2
  <2> HIDE DEF log, n, c, f, limit, apart
  <2>4. admitted'[k][f] = log[f]
    BY <1>2, <1>4
  <2> QED BY <1>1, <1>2, <1>3, <1>4, <1>5, <2>1, <2>2, <2>3, <2>4 DEF EntryInv, limit, apart
<1>7. LogInv(k)'
  <2> HIDE DEF log, n, c, f, limit, apart
  <2>1. ASSUME NEW i \in 1..(n + 1), i <= f - limit
        PROVE  admitted'[k][f] - admitted'[k][i] >= apart
    <3>1. i \in 1..n
      BY <1>1, <1>2, <1>4, <2>1
    <3>2. admitted'[k][f] = log[f] /\ admitted'[k][i] = log[i]
      BY <1>2, <1>4, <3>1
    <3> QED BY <1>5, <2>1, <3>1, <3>2
  <2>2. ASSUME NEW i \in 1..(n + 1), NEW j \in 1..(n + 1), j - i >= 2 * limit
        PROVE  admitted'[k][j] - admitted'[k][i] >= apart
    <3>1. (i \in 1..n /\ i <= f - limit) \/ j \in 1..n
      BY <1>1, <1>2, <1>3, <1>4, <2>2
    <3>2. CASE j \in 1..n
      <4>1. i \in 1..n
        BY <1>1, <1>2, <2>2, <3>2
      <4> QED BY <1>2, <1>5, <2>2, <3>2, <4>1
    <3>3. CASE j = n + 1 /\ i \in 1..n /\ i <= f - limit
      <4>1. admitted'[k][f] <= admitted'[k][j]
        BY <1>2, <1>4, <3>3
      <4>2. admitted'[k][f] - admitted'[k][i] >= apart
        BY <2>1, <3>3
      <4>3. admitted'[k][f] \in Nat /\ admitted'[k][i] \in Nat /\ admitted'[k][j] \in Nat
        BY <1>1, <1>2, <1>4, <3>3
      <4> QED BY <1>1, <4>1, <4>2, <4>3
    <3> QED BY <1>2, <3>1, <3>2, <3>3
  <2> QED BY <1>1, <1>2, <1>3, <1>4, <2>1, <2>2 DEF LogInv, limit, apart
<1> QED BY <1>6, <1>7

LEMMA ChargedFirstKeeps ==
  ASSUME NEW k \in Keys, KeyTypes(k), EntryInv(k), LogInv(k), ChargedFirst(k)
  PROVE  EntryInv(k)' /\ LogInv(k)'
<1> DEFINE log == admitted[k]
           n == Len(log)
           c == charged[k]
           f == FirstOf(k)
           limit == LimitOf(k)
           apart == Apart(k)
<1>1. limit \in Nat \ {0} /\ apart \in Int /\ clock \in Nat /\ c \in Nat /\ clock' = clock
  BY KeyNumbers DEF KeyTypes, ChargedFirst
<1>2. /\ n \in Nat /\ Len(admitted'[k]) = n + 1
      /\ \A i \in 1..n : log[i] \in Nat /\ admitted'[k][i] = log[i]
      /\ admitted'[k][n + 1] = clock
      /\ \A i, j \in 1..(n + 1) : i <= j => admitted'[k][i] <= admitted'[k][j]
      /\ \A i \in 1..(n + 1) : admitted'[k][i] <= clock
  BY LongerLog DEF ChargedFirst
<1>3. c <= limit /\ c <= n /\ (c = 0 => n = 0) /\ charged'[k] = 1
  BY DEF EntryInv, ChargedFirst
<1>4. f = n + 1 - c /\ FirstOf(k)' = n + 1
  BY <1>1, <1>2, <1>3 DEF FirstOf
<1>5. \A i, j \in 1..n : j - i >= 2 * limit => log[j] - log[i] >= apart
  BY DEF LogInv
<1>6. c > 0 => f \in 1..n /\ clock >= log[f] + apart
  <2> SUFFICES ASSUME c > 0 PROVE f \in 1..n /\ clock >= log[f] + apart
    OBVIOUS
  <2>1. f \in 1..n
    BY <1>1, <1>2, <1>3, <1>4
  <2>2. CASE k \in DOMAIN entries
    <3>1. entries[k].resetAt >= log[f] + apart /\ clock >= entries[k].resetAt
      BY <2>2 DEF EntryInv, ChargedFirst
    <3>2. entries[k].resetAt \in Nat /\ log[f] \in Nat
      BY <1>2, <2>1, <2>2 DEF KeyTypes, Entry
    <3> QED BY <1>1, <2>1, <3>1, <3>2
  <2>3. CASE k \notin DOMAIN entries
    BY <2>1, <2>3 DEF EntryInv
  <2> QED BY <2>2, <2>3
<1>7. EntryInv(k)'
  <2>1. admitted'[k] # <<>>
    BY <1>2
  <2> HIDE DEF log, n, c, f
  <2> QED BY <1>1, <1>2, <1>3, <1>4, <2>1 DEF EntryInv, ChargedFirst
<1>8. LogInv(k)'
  <2> HIDE DEF log, n, c, f, limit, apart
  <2>1. ASSUME NEW i \in 1..n, i <= n + 1 - limit
        PROVE  clock - admitted'[k][i] >= apart
    <3>1. c > 0 /\ i <= f /\ f \in 1..n /\ clock >= log[f] + apart
      BY <1>1, <1>2, <1>3, <1>4, <1>6, <2>1
    <3>2. admitted'[k][i] <= admitted'[k][f] /\ admitted'[k][f] = log[f]
      BY <1>2, <3>1
    <3>3. admitted'[k][i] \in Nat /\ log[f] \in Nat
      BY <1>2, <3>1
    <3> QED BY <1>1, <3>1, <3>2, <3>3
  <2>2. ASSUME NEW i \in 1..(n + 1), NEW j \in 1..(n + 1), j - i >= 2 * limit
        PROVE  admitted'[k][j] - admitted'[k][i] >= apart
    <3>1. i \in 1..n /\ (j \in 1..n \/ j = n + 1)
      BY <1>1, <1>2, <2>2
    <3>2. CASE j \in 1..n
      BY <1>1, <1>2, <1>5, <2>2, <3>1, <3>2
    <3>3. CASE j = n + 1
      <4>1. i <= n + 1 - limit
        BY <1>1, <1>2, <2>2, <3>1, <3>3
      <4> QED BY <1>2, <2>1, <3>1, <3>3, <4>1
    <3> QED BY <3>1, <3>2, <3>3
  <2>3. \A i \in 1..(n + 1) : i <= n + 1 - limit =>
          admitted'[k][n + 1] - admitted'[k][i] >= apart
    <3>1. \A i \in 1..(n + 1) : i <= n + 1 - limit => i \in 1..n
      BY <1>1, <1>2
    <3> QED BY <1>2, <2>1, <3>1
  <2>4. \A first \in Nat : first = n + 1 => \A i \in 1..(n + 1) : i <= first - limit =>
          admitted'[k][first] - admitted'[k][i] >= apart
    BY <1>1, <1>2, <2>3
  <2>5. charged'[k] > 0 => \A i \in 1..Len(admitted'[k]) : i <= FirstOf(k)' - limit =>
          admitted'[k][FirstOf(k)'] - admitted'[k][i] >= apart
    BY <1>2, <1>4, <2>4 DEF FirstOf
  <2> QED BY <1>1, <1>2, <2>2, <2>5 DEF LogInv, limit, apart
<1> QED BY <1>7, <1>8

-----------------------------------------------------------------------------
(* RateLimiter: a decision *)

\* What the caller has read and asks, and the map as it finds it.
LEMMA TicketFacts ==
  ASSUME LimiterInv, NEW c \in Callers, asking[c] # Nothing
  PROVE  /\ asking[c].req \in Requests
         /\ asking[c].now \in Nat /\ clock \in Nat /\ LagBound \in Nat
         /\ asking[c].now <= clock /\ clock - asking[c].now <= LagBound
         /\ asking[c].req.window \in Nat \ {0} /\ asking[c].req.limit \in Nat \ {0}
<1>1. asking[c] \in Ticket
  BY DEF LimiterInv, LimiterTypeOK
<1> QED BY <1>1, LimiterAssumption DEF LimiterInv, TicketInv, Ticket, LimiterTypeOK

LEMMA SeqOfSubset ==
  ASSUME NEW S, NEW T, S \subseteq T, NEW s \in Seq(S)
  PROVE  s \in Seq(T)
<1> DEFINE n == Len(s)
<1>1. n \in Nat /\ s \in [1..n -> S]
  OBVIOUS
<1> HIDE DEF n
<1>2. s \in [1..n -> T]
  BY <1>1
<1> QED BY <1>1, <1>2

LEMMA TypesOfKeys == LimiterInv => \A k \in Keys : KeyTypes(k)
<1> SUFFICES ASSUME LimiterInv, NEW k \in Keys PROVE KeyTypes(k)
  OBVIOUS
<1>1. clock \in Nat /\ admitted[k] \in Seq(0..ClockBound) /\ charged[k] \in Nat
  BY LimiterAssumption DEF LimiterInv, LimiterTypeOK
<1>2. admitted[k] \in Seq(Nat)
  <2>1. 0..ClockBound \subseteq Nat
    BY LimiterAssumption
  <2> QED BY <1>1, <2>1, SeqOfSubset
<1> QED BY <1>1, <1>2 DEF LimiterInv, LimiterTypeOK, KeyTypes

\* What is removed from a map has expired.
LEMMA UnexpiredMap ==
  ASSUME NEW m, NEW now
  PROVE  /\ DOMAIN Unexpired(m, now) \subseteq DOMAIN m
         /\ \A k \in DOMAIN Unexpired(m, now) : Unexpired(m, now)[k] = m[k]
         /\ \A k \in DOMAIN m \ DOMAIN Unexpired(m, now) : now >= m[k].resetAt
BY DEF Unexpired, Restrict, Expired

LEMMA LookedMap ==
  ASSUME NEW ks, NEW now
  PROVE  /\ DOMAIN Looked(ks, now) \subseteq DOMAIN entries
         /\ \A k \in DOMAIN Looked(ks, now) : Looked(ks, now)[k] = entries[k]
         /\ \A k \in DOMAIN entries \ DOMAIN Looked(ks, now) : now >= entries[k].resetAt
         /\ \A k \in ks \cap DOMAIN Looked(ks, now) : ~(now >= entries[k].resetAt)
BY DEF Looked, Restrict, Expired

\* A full map is cleaned, of which the keys that are asked for are no part.
LEMMA RoomyMap ==
  ASSUME NEW ks, NEW needed, NEW now
  PROVE  LET m == Looked(ks, now)
             r == Roomy(m, needed, now) IN
         /\ DOMAIN r \subseteq DOMAIN entries
         /\ \A k \in DOMAIN r : r[k] = entries[k]
         /\ \A k \in DOMAIN entries \ DOMAIN r : now >= entries[k].resetAt
         /\ \A k \in ks : k \in DOMAIN r <=> k \in DOMAIN m
<1> DEFINE m == Looked(ks, now)
           r == Roomy(m, needed, now)
<1>1. /\ DOMAIN m \subseteq DOMAIN entries
      /\ \A k \in DOMAIN m : m[k] = entries[k]
      /\ \A k \in DOMAIN entries \ DOMAIN m : now >= entries[k].resetAt
      /\ \A k \in ks \cap DOMAIN m : ~(now >= entries[k].resetAt)
  BY LookedMap
<1>2. r = m \/ r = Unexpired(m, now)
  BY DEF Roomy
<1>3. /\ DOMAIN Unexpired(m, now) \subseteq DOMAIN m
      /\ \A k \in DOMAIN Unexpired(m, now) : Unexpired(m, now)[k] = m[k]
      /\ \A k \in DOMAIN m \ DOMAIN Unexpired(m, now) : now >= m[k].resetAt
  BY UnexpiredMap
<1> HIDE DEF m, r
<1>4. CASE r = m
  BY <1>1, <1>4 DEF m, r
<1>5. CASE r = Unexpired(m, now)
  <2>1. /\ DOMAIN r \subseteq DOMAIN entries /\ \A k \in DOMAIN r : r[k] = entries[k]
        /\ \A k \in ks : k \in DOMAIN r <=> k \in DOMAIN m
    BY <1>1, <1>3, <1>5
  <2>2. ASSUME NEW k \in DOMAIN entries \ DOMAIN r PROVE now >= entries[k].resetAt
    BY <1>1, <1>3, <1>5, <2>2
  <2> QED BY <2>1, <2>2 DEF m, r
<1> QED BY <1>2, <1>4, <1>5

LEMMA RefuseKeys ==
  ASSUME LimiterInv, NEW c \in Callers, Refuse(c), NEW k \in Keys
  PROVE  NotCharged(k)
<1> DEFINE now == asking[c].now
           ks == {asking[c].req.first, asking[c].req.second}
<1>1. now <= clock /\ now \in Nat /\ clock \in Nat
  BY TicketFacts DEF Refuse
<1>2. /\ entries' = Looked(ks, now)
      /\ clock' = clock /\ admitted' = admitted /\ charged' = charged
  BY DEF Refuse, Refused
<1>3. k \in DOMAIN entries => entries[k].resetAt \in Nat
  BY TypesOfKeys DEF KeyTypes, Entry
<1> HIDE DEF now, ks
<1>4. k \in DOMAIN entries' => k \in DOMAIN entries /\ entries'[k] = entries[k]
  BY <1>2, LookedMap
<1>5. k \in DOMAIN entries /\ k \notin DOMAIN entries' => now >= entries[k].resetAt
  BY <1>2, LookedMap
<1> QED BY <1>1, <1>2, <1>3, <1>4, <1>5 DEF NotCharged

\* A decision with room in the map, taken apart.
Admits(c, roomy) ==
  LET now == asking[c].now
      q == asking[c].req
      ks == {q.first, q.second}
      fresh == ks \ DOMAIN Looked(ks, now) IN
  /\ roomy = Roomy(Looked(ks, now), Cardinality(fresh), now)
  /\ Cardinality(DOMAIN roomy) + Cardinality(fresh) <= MaxEntries
  /\ \A k \in ks : ~(CountIn(Looked(ks, now), k) >= q.limit)
  /\ entries' = AfterConsume(Charge(roomy, ks, now, q.window), now)
  /\ admitted' = [k \in Keys |-> IF k \in ks THEN Append(admitted[k], clock) ELSE admitted[k]]
  /\ charged' = [k \in Keys |->
       IF k \in fresh THEN 1 ELSE IF k \in ks THEN charged[k] + 1 ELSE charged[k]]
  /\ clock' = clock

\* The map after an admission: what was charged, and what had expired then.
Consumed(roomy, ks, now, window) ==
  /\ DOMAIN entries' \subseteq DOMAIN roomy \cup ks
  /\ \A k \in DOMAIN entries' :
       /\ k \notin ks => entries'[k] = roomy[k]
       /\ k \in ks /\ k \in DOMAIN roomy => entries'[k] = [roomy[k] EXCEPT !.count = @ + 1]
       /\ k \in ks /\ k \notin DOMAIN roomy =>
            entries'[k] = [resetAt |-> now + window, count |-> 1]
  /\ \A k \in (DOMAIN roomy \cup ks) \ DOMAIN entries' :
       /\ k \notin ks => now >= roomy[k].resetAt
       /\ k \in ks /\ k \in DOMAIN roomy =>
            now >= [roomy[k] EXCEPT !.count = @ + 1].resetAt
       /\ k \in ks /\ k \notin DOMAIN roomy =>
            now >= [resetAt |-> now + window, count |-> 1].resetAt

LEMMA ConsumedMap ==
  ASSUME NEW roomy, NEW ks, NEW now, NEW window,
         entries' = AfterConsume(Charge(roomy, ks, now, window), now)
  PROVE  Consumed(roomy, ks, now, window)
<1> DEFINE m == Charge(roomy, ks, now, window)
<1>1. /\ DOMAIN m = DOMAIN roomy \cup ks
      /\ \A k \in DOMAIN m :
           /\ k \notin ks => m[k] = roomy[k]
           /\ k \in ks /\ k \in DOMAIN roomy => m[k] = [roomy[k] EXCEPT !.count = @ + 1]
           /\ k \in ks /\ k \notin DOMAIN roomy => m[k] = [resetAt |-> now + window, count |-> 1]
  BY DEF Charge
<1>2. entries' = m \/ entries' = Unexpired(m, now)
  BY DEF AfterConsume
<1>3. /\ DOMAIN Unexpired(m, now) \subseteq DOMAIN m
      /\ \A k \in DOMAIN Unexpired(m, now) : Unexpired(m, now)[k] = m[k]
      /\ \A k \in DOMAIN m \ DOMAIN Unexpired(m, now) : now >= m[k].resetAt
  BY UnexpiredMap
<1> HIDE DEF m
<1>4. /\ DOMAIN entries' \subseteq DOMAIN m
      /\ \A k \in DOMAIN entries' : entries'[k] = m[k]
      /\ \A k \in DOMAIN m \ DOMAIN entries' : now >= m[k].resetAt
  BY <1>2, <1>3
<1>5. \A k \in (DOMAIN roomy \cup ks) \ DOMAIN entries' : k \in DOMAIN m /\ now >= m[k].resetAt
  BY <1>1, <1>4
<1> QED BY <1>1, <1>4, <1>5 DEF Consumed

LEMMA AdmitKeys ==
  ASSUME LimiterInv, NEW c \in Callers, asking[c] # Nothing, NEW roomy, Admits(c, roomy),
         NEW k \in Keys
  PROVE  NotCharged(k) \/ ChargedAgain(k) \/ ChargedFirst(k)
<1> DEFINE now == asking[c].now
           q == asking[c].req
           ks == {q.first, q.second}
           m == Looked(ks, now)
<1>1. now <= clock /\ clock - now <= LagBound /\ now \in Nat /\ clock \in Nat /\ LagBound \in Nat
      /\ q \in Requests /\ q.window \in Nat \ {0} /\ q.limit \in Nat \ {0}
  BY TicketFacts
<1>2. KeyTypes(k)
  BY TypesOfKeys
<1>3. /\ DOMAIN roomy \subseteq DOMAIN entries
      /\ \A l \in DOMAIN roomy : roomy[l] = entries[l]
      /\ \A l \in DOMAIN entries \ DOMAIN roomy : now >= entries[l].resetAt
      /\ \A l \in ks : l \in DOMAIN roomy <=> l \in DOMAIN m
  <2>1. roomy = Roomy(m, Cardinality(ks \ DOMAIN m), now)
    BY DEF Admits
  <2> HIDE DEF now, ks, m
  <2> QED BY <2>1, RoomyMap DEF m
<1>4. /\ entries' = AfterConsume(Charge(roomy, ks, now, q.window), now)
      /\ admitted'[k] = IF k \in ks THEN Append(admitted[k], clock) ELSE admitted[k]
      /\ charged'[k] = IF k \in ks \ DOMAIN m THEN 1
                       ELSE IF k \in ks THEN charged[k] + 1 ELSE charged[k]
      /\ clock' = clock
      /\ k \in ks => ~(CountIn(m, k) >= q.limit)
  BY DEF Admits
<1>5. \A l \in DOMAIN m : m[l] = entries[l]
  BY LookedMap
<1>6. k \in ks => LimitOf(k) = q.limit /\ WindowOf(k) = q.window
  BY <1>1, LimitsOfRequest
<1> HIDE DEF now, q, ks, m
<1>7. Consumed(roomy, ks, now, q.window)
  BY <1>4, ConsumedMap
<1>8. k \in DOMAIN entries => entries[k].resetAt \in Nat /\ entries[k] \in Entry
  BY <1>2 DEF KeyTypes, Entry
<1>9. CASE k \notin ks
  <2>1. k \in DOMAIN entries' => k \in DOMAIN roomy /\ entries'[k] = roomy[k]
    BY <1>9, <1>7 DEF Consumed
  <2>2. k \in DOMAIN roomy /\ k \notin DOMAIN entries' => now >= roomy[k].resetAt
    BY <1>9, <1>7 DEF Consumed
  <2>3. k \in DOMAIN entries /\ k \notin DOMAIN entries' => now >= entries[k].resetAt
    BY <1>3, <2>2
  <2> QED BY <1>1, <1>3, <1>4, <1>8, <1>9, <2>1, <2>3 DEF NotCharged
<1>10. CASE k \in ks /\ k \in DOMAIN m
  <2>1. k \in DOMAIN roomy /\ k \in DOMAIN entries /\ roomy[k] = entries[k]
    BY <1>3, <1>10
  <2>2. k \in DOMAIN entries' => entries'[k] = [entries[k] EXCEPT !.count = @ + 1]
    BY <1>10, <1>7, <2>1 DEF Consumed
  <2>3. k \notin DOMAIN entries' => now >= [entries[k] EXCEPT !.count = @ + 1].resetAt
    BY <1>10, <1>7, <2>1 DEF Consumed
  <2>4. [entries[k] EXCEPT !.count = @ + 1].resetAt = entries[k].resetAt
    BY <1>8, <2>1 DEF Entry
  <2>5. k \notin DOMAIN entries' => clock >= entries[k].resetAt
    BY <1>1, <1>8, <2>1, <2>3, <2>4
  <2>6. entries[k].count < LimitOf(k)
    <3>1. CountIn(m, k) = entries[k].count /\ entries[k].count \in Nat
      BY <1>5, <1>8, <1>10, <2>1 DEF CountIn, Entry
    <3> QED BY <1>1, <1>4, <1>6, <1>10, <3>1
  <2> QED BY <1>4, <1>10, <2>1, <2>2, <2>5, <2>6 DEF ChargedAgain
<1>11. CASE k \in ks /\ k \notin DOMAIN m
  <2>1. k \notin DOMAIN roomy
    BY <1>3, <1>11
  <2>2. k \in DOMAIN entries => clock >= entries[k].resetAt
    BY <1>1, <1>3, <1>8, <2>1
  <2>3. k \in DOMAIN entries'
    <3>1. k \notin DOMAIN entries' => now >= [resetAt |-> now + q.window, count |-> 1].resetAt
      BY <1>11, <1>7, <2>1 DEF Consumed
    <3> QED BY <1>1, <3>1
  <2>4. entries'[k] = [resetAt |-> now + q.window, count |-> 1]
    BY <1>11, <1>7, <2>1, <2>3 DEF Consumed
  <2>5. entries'[k].count = 1 /\ entries'[k].resetAt >= clock + Apart(k)
    BY <1>1, <1>6, <1>11, <2>4 DEF Apart
  <2>6. entries'[k] \in Entry
    BY <1>1, <2>4 DEF Entry
  <2> QED BY <1>4, <1>11, <2>2, <2>3, <2>5, <2>6 DEF ChargedFirst
<1> QED BY <1>9, <1>10, <1>11

LEMMA DecideCases ==
  ASSUME NEW c \in Callers, Decide(c)
  PROVE  \/ \E roomy : Admits(c, roomy) /\ calls' = (calls + 1) % CleanupEvery
         \/ /\ \E ks, needed : entries' = Roomy(Looked(ks, asking[c].now), needed, asking[c].now)
            /\ UNCHANGED <<clock, calls, admitted, charged>>
<1> DEFINE now == asking[c].now
           q == asking[c].req
           ks == {q.first, q.second}
           m == Looked(ks, now)
           fresh == ks \ DOMAIN m
           roomy == Roomy(m, Cardinality(fresh), now)
<1>1. CASE Cardinality(DOMAIN roomy) + Cardinality(fresh) <= MaxEntries
  <2>1. \A k \in ks : ~(CountIn(m, k) >= q.limit)
    BY DEF Decide, Exhausted
  <2>2. Admits(c, roomy)
    BY <1>1, <2>1 DEF Decide, Admits
  <2>3. calls' = (calls + 1) % CleanupEvery
    BY <1>1 DEF Decide
  <2> QED BY <2>2, <2>3
<1>2. CASE ~(Cardinality(DOMAIN roomy) + Cardinality(fresh) <= MaxEntries)
  BY <1>2 DEF Decide
<1> QED BY <1>1, <1>2

\* Nothing is charged in a map that stays too full.
LEMMA OverflowKeys ==
  ASSUME LimiterInv, NEW c \in Callers, asking[c] # Nothing, NEW ks, NEW needed,
         entries' = Roomy(Looked(ks, asking[c].now), needed, asking[c].now),
         UNCHANGED <<clock, admitted, charged>>, NEW k \in Keys
  PROVE  NotCharged(k)
<1>1. asking[c].now <= clock /\ asking[c].now \in Nat /\ clock \in Nat
  BY TicketFacts
<1>2. k \in DOMAIN entries => entries[k].resetAt \in Nat
  BY TypesOfKeys DEF KeyTypes, Entry
<1>3. /\ DOMAIN entries' \subseteq DOMAIN entries
      /\ \A l \in DOMAIN entries' : entries'[l] = entries[l]
      /\ \A l \in DOMAIN entries \ DOMAIN entries' : asking[c].now >= entries[l].resetAt
  BY RoomyMap
<1> QED BY <1>1, <1>2, <1>3 DEF NotCharged

\* The map never holds more than maxEntries.
LEMMA AdmitFits ==
  ASSUME LimiterInv, NEW c \in Callers, asking[c] # Nothing, NEW roomy, Admits(c, roomy)
  PROVE  /\ DOMAIN entries' \subseteq Keys /\ IsFiniteSet(DOMAIN entries')
         /\ Cardinality(DOMAIN entries') <= MaxEntries
<1> DEFINE now == asking[c].now
           q == asking[c].req
           ks == {q.first, q.second}
           m == Looked(ks, now)
           fresh == ks \ DOMAIN m
<1>1. q \in Requests /\ ks \subseteq Keys
  <2>1. q \in Requests
    BY TicketFacts
  <2> QED BY <2>1 DEF Keys
<1>2. /\ DOMAIN roomy \subseteq DOMAIN entries
      /\ \A l \in ks : l \in DOMAIN roomy <=> l \in DOMAIN m
  <2>1. roomy = Roomy(m, Cardinality(fresh), now)
    BY DEF Admits
  <2> HIDE DEF now, ks, m, fresh
  <2> QED BY <2>1, RoomyMap DEF m
<1>3. /\ entries' = AfterConsume(Charge(roomy, ks, now, q.window), now)
      /\ Cardinality(DOMAIN roomy) + Cardinality(fresh) <= MaxEntries
  BY DEF Admits
<1>4. IsFiniteSet(fresh)
  <2>1. ks = {q.first} \cup {q.second} /\ IsFiniteSet({q.first}) /\ IsFiniteSet({q.second})
    BY FS_Singleton
  <2>2. IsFiniteSet(ks)
    BY <2>1, FS_Union
  <2> QED BY <2>2, FS_Subset
<1> HIDE DEF now, q, ks, m
<1>5. DOMAIN entries' \subseteq DOMAIN roomy \cup fresh
  <2>1. Consumed(roomy, ks, now, q.window)
    BY <1>3, ConsumedMap
  <2>2. \A l \in ks : l \in DOMAIN roomy \/ l \in fresh
    BY <1>2
  <2> QED BY <2>1, <2>2 DEF Consumed
<1>6. IsFiniteSet(DOMAIN entries) /\ DOMAIN entries \subseteq Keys
  BY DEF LimiterInv, LimiterTypeOK
<1>7. IsFiniteSet(DOMAIN roomy)
  BY <1>2, <1>6, FS_Subset
<1> HIDE DEF fresh
<1>8. /\ IsFiniteSet(DOMAIN roomy \cup fresh)
      /\ Cardinality(DOMAIN roomy \cup fresh) =
           Cardinality(DOMAIN roomy) + Cardinality(fresh) - Cardinality(DOMAIN roomy \cap fresh)
  BY <1>4, <1>7, FS_Union
<1>9. /\ Cardinality(DOMAIN roomy) \in Nat /\ Cardinality(fresh) \in Nat
      /\ Cardinality(DOMAIN roomy \cap fresh) \in Nat
  BY <1>4, <1>7, FS_CardinalityType, FS_Intersection
<1>10. /\ IsFiniteSet(DOMAIN entries') /\ Cardinality(DOMAIN entries') \in Nat
       /\ Cardinality(DOMAIN entries') <= Cardinality(DOMAIN roomy \cup fresh)
  BY <1>5, <1>8, FS_Subset, FS_CardinalityType
<1>11. DOMAIN entries' \subseteq Keys
  BY <1>1, <1>2, <1>5, <1>6 DEF fresh
<1> QED BY <1>3, <1>8, <1>9, <1>10, <1>11, LimiterAssumption

LEMMA ShrinkFits ==
  ASSUME LimiterInv, DOMAIN entries' \subseteq DOMAIN entries
  PROVE  /\ DOMAIN entries' \subseteq Keys /\ IsFiniteSet(DOMAIN entries')
         /\ Cardinality(DOMAIN entries') <= MaxEntries
<1>1. IsFiniteSet(DOMAIN entries) /\ DOMAIN entries \subseteq Keys
      /\ Cardinality(DOMAIN entries) <= MaxEntries
  BY DEF LimiterInv, LimiterTypeOK
<1>2. /\ IsFiniteSet(DOMAIN entries') /\ Cardinality(DOMAIN entries') <= Cardinality(DOMAIN entries)
      /\ Cardinality(DOMAIN entries') \in Nat /\ Cardinality(DOMAIN entries) \in Nat
  BY <1>1, FS_Subset, FS_CardinalityType
<1> QED BY <1>1, <1>2, LimiterAssumption

-----------------------------------------------------------------------------
(* RateLimiter: the invariant *)

LEMMA InitLimiterInv == LimiterInit => LimiterInv
<1> SUFFICES ASSUME LimiterInit PROVE LimiterInv
  OBVIOUS
<1> USE DEF LimiterInit
<1>1. DOMAIN entries = {} /\ IsFiniteSet({}) /\ Cardinality({}) = 0
  BY FS_EmptySet
<1>2. LimiterTypeOK
  BY <1>1, LimiterAssumption DEF LimiterTypeOK, Nothing
<1>3. \A k \in Keys : EntryInv(k) /\ LogInv(k)
  BY <1>1, KeyNumbers DEF EntryInv, LogInv
<1> QED BY <1>1, <1>2, <1>3 DEF LimiterInv, TicketInv

\* Whatever a step does to the keys is one of the three.
LEMMA KeysAreKept ==
  ASSUME LimiterInv, clock' \in Nat,
         \A k \in Keys : NotCharged(k) \/ ChargedAgain(k) \/ ChargedFirst(k),
         DOMAIN entries' \subseteq Keys
  PROVE  /\ \A k \in Keys : EntryInv(k)' /\ LogInv(k)'
         /\ \A k \in DOMAIN entries' : entries'[k] \in Entry /\ entries'[k].count \in 1..LimitOf(k)
<1>1. ASSUME NEW k \in Keys
      PROVE  /\ EntryInv(k)' /\ LogInv(k)'
             /\ k \in DOMAIN entries' => entries'[k] \in Entry
  <2>1. KeyTypes(k) /\ EntryInv(k) /\ LogInv(k)
    BY TypesOfKeys DEF LimiterInv
  <2>2. EntryInv(k)' /\ LogInv(k)'
    BY <2>1, NotChargedKeeps, ChargedAgainKeeps, ChargedFirstKeeps
  <2>3. k \in DOMAIN entries' => entries'[k] \in Entry
    <3>1. NotCharged(k) => (k \in DOMAIN entries' => entries'[k] \in Entry)
      BY <2>1 DEF NotCharged, KeyTypes
    <3>2. ChargedAgain(k) => (k \in DOMAIN entries' => entries'[k] \in Entry)
      BY <2>1 DEF ChargedAgain, KeyTypes, Entry
    <3> QED BY <3>1, <3>2 DEF ChargedFirst
  <2> QED BY <2>2, <2>3
<1>2. ASSUME NEW k \in DOMAIN entries'
      PROVE  entries'[k] \in Entry /\ entries'[k].count \in 1..LimitOf(k)
  <2>1. k \in Keys /\ entries'[k] \in Entry /\ EntryInv(k)'
    BY <1>1, <1>2
  <2>2. entries'[k].count = charged'[k] /\ charged'[k] > 0 /\ charged'[k] <= LimitOf(k)
    BY <2>1, <1>2 DEF EntryInv
  <2>3. entries'[k].count \in Nat /\ LimitOf(k) \in Nat
    BY <2>1, KeyNumbers DEF Entry
  <2> QED BY <2>1, <2>2, <2>3
<1> QED BY <1>1, <1>2

LEMMA ReadClockKeeps ==
  ASSUME LimiterInv, NEW c \in Callers, NEW q \in Requests, ReadClock(c, q)
  PROVE  LimiterInv'
<1>1. clock \in Nat /\ clock \in 0..ClockBound /\ LagBound \in Nat
  BY LimiterAssumption DEF LimiterInv, LimiterTypeOK
<1>2. asking' \in [Callers -> Ticket \cup {Nothing}]
  BY <1>1 DEF LimiterInv, LimiterTypeOK, ReadClock, Ticket
<1>3. \A d \in Callers : TicketInv(d)'
  BY <1>1, <1>2 DEF LimiterInv, LimiterTypeOK, ReadClock, TicketInv, Ticket
<1> QED BY <1>2, <1>3
  DEF ReadClock, LimiterInv, LimiterTypeOK, EntryInv, LogInv, FirstOf, Apart

LEMMA TickKeeps ==
  ASSUME LimiterInv, Tick
  PROVE  LimiterInv'
<1>1. clock \in 0..ClockBound /\ clock' = clock + 1 /\ clock' \in 0..ClockBound
      /\ clock \in Nat /\ clock' \in Nat /\ LagBound \in Nat
      /\ UNCHANGED <<asking, entries, calls, admitted, charged>>
  BY LimiterAssumption DEF LimiterInv, LimiterTypeOK, Tick
<1>2. ASSUME NEW d \in Callers PROVE TicketInv(d)'
  <2> SUFFICES ASSUME asking[d] # Nothing
               PROVE  asking[d].now <= clock' /\ clock' - asking[d].now <= LagBound
    BY <1>1 DEF TicketInv
  <2>1. asking[d].now \in Nat /\ asking[d].now <= clock
    BY TicketFacts
  <2>2. clock - asking[d].now < LagBound
    BY DEF Tick
  <2> QED BY <1>1, <2>1, <2>2
<1>3. ASSUME NEW k \in Keys PROVE NotCharged(k)
  BY <1>1 DEF NotCharged
<1>4. \A k \in Keys : EntryInv(k)' /\ LogInv(k)'
  <2>1. DOMAIN entries' \subseteq Keys
    BY <1>1 DEF LimiterInv, LimiterTypeOK
  <2> QED BY <1>1, <1>3, <2>1, KeysAreKept
<1> QED BY <1>1, <1>2, <1>4 DEF LimiterInv, LimiterTypeOK

\* The caller has its answer; what remains is about the map.
LEMMA AnswerKeeps ==
  ASSUME LimiterInv, NEW c \in Callers, Answered(c), clock' = clock,
         \A k \in Keys : NotCharged(k) \/ ChargedAgain(k) \/ ChargedFirst(k),
         DOMAIN entries' \subseteq Keys, IsFiniteSet(DOMAIN entries'),
         Cardinality(DOMAIN entries') <= MaxEntries,
         calls' \in 0..(CleanupEvery - 1),
         admitted' \in [Keys -> Seq(0..ClockBound)], charged' \in [Keys -> Nat]
  PROVE  LimiterInv'
<1>1. clock' \in Nat /\ clock' \in 0..ClockBound
  BY LimiterAssumption DEF LimiterInv, LimiterTypeOK
<1>2. /\ \A k \in Keys : EntryInv(k)' /\ LogInv(k)'
      /\ \A k \in DOMAIN entries' : entries'[k] \in Entry /\ entries'[k].count \in 1..LimitOf(k)
  BY <1>1, KeysAreKept
<1>3. asking' \in [Callers -> Ticket \cup {Nothing}] /\ \A d \in Callers : TicketInv(d)'
  BY DEF Answered, LimiterInv, LimiterTypeOK, TicketInv
<1> QED BY <1>1, <1>2, <1>3 DEF LimiterInv, LimiterTypeOK

LEMMA RefuseKeeps ==
  ASSUME LimiterInv, NEW c \in Callers, Refuse(c)
  PROVE  LimiterInv'
<1>1. \A k \in Keys : NotCharged(k)
  BY RefuseKeys
<1>2. Answered(c) /\ UNCHANGED <<clock, calls, admitted, charged>>
  BY DEF Refuse
<1>3. DOMAIN entries' \subseteq DOMAIN entries
  <2>1. entries' = Looked({asking[c].req.first, asking[c].req.second}, asking[c].now)
    BY DEF Refuse, Refused
  <2> QED BY <2>1, LookedMap
<1>4. /\ DOMAIN entries' \subseteq Keys /\ IsFiniteSet(DOMAIN entries')
      /\ Cardinality(DOMAIN entries') <= MaxEntries
  BY <1>3, ShrinkFits
<1>5. /\ calls \in 0..(CleanupEvery - 1)
      /\ admitted \in [Keys -> Seq(0..ClockBound)] /\ charged \in [Keys -> Nat]
  BY DEF LimiterInv, LimiterTypeOK
<1> QED BY <1>1, <1>2, <1>4, <1>5, AnswerKeeps

LEMMA DecideKeeps ==
  ASSUME LimiterInv, NEW c \in Callers, Decide(c)
  PROVE  LimiterInv'
<1>1. asking[c] # Nothing /\ Answered(c) /\ clock' = clock
  BY DEF Decide
<1>2. /\ calls \in 0..(CleanupEvery - 1) /\ clock \in 0..ClockBound
      /\ admitted \in [Keys -> Seq(0..ClockBound)] /\ charged \in [Keys -> Nat]
  BY DEF LimiterInv, LimiterTypeOK
<1>3. CASE \E roomy : Admits(c, roomy) /\ calls' = (calls + 1) % CleanupEvery
  <2>1. PICK roomy : Admits(c, roomy) /\ calls' = (calls + 1) % CleanupEvery
    BY <1>3
  <2>2. \A k \in Keys : NotCharged(k) \/ ChargedAgain(k) \/ ChargedFirst(k)
    BY <1>1, <2>1, AdmitKeys
  <2>3. /\ DOMAIN entries' \subseteq Keys /\ IsFiniteSet(DOMAIN entries')
        /\ Cardinality(DOMAIN entries') <= MaxEntries
    BY <1>1, <2>1, AdmitFits
  <2>4. calls' \in 0..(CleanupEvery - 1)
    BY <1>2, <2>1, LimiterAssumption
  <2>5. admitted' \in [Keys -> Seq(0..ClockBound)]
    <3>1. \A k \in Keys : Append(admitted[k], clock) \in Seq(0..ClockBound)
      BY <1>2
    <3> QED BY <1>2, <2>1, <3>1 DEF Admits
  <2>6. charged' \in [Keys -> Nat]
    BY <1>2, <2>1 DEF Admits
  <2> QED BY <1>1, <2>2, <2>3, <2>4, <2>5, <2>6, AnswerKeeps
<1>4. CASE /\ \E ks, needed : entries' = Roomy(Looked(ks, asking[c].now), needed, asking[c].now)
           /\ UNCHANGED <<clock, calls, admitted, charged>>
  <2>1. PICK ks, needed : entries' = Roomy(Looked(ks, asking[c].now), needed, asking[c].now)
    BY <1>4
  <2>2. \A k \in Keys : NotCharged(k)
    BY <1>1, <1>4, <2>1, OverflowKeys
  <2>3. DOMAIN entries' \subseteq DOMAIN entries
    BY <2>1, RoomyMap
  <2>4. /\ DOMAIN entries' \subseteq Keys /\ IsFiniteSet(DOMAIN entries')
        /\ Cardinality(DOMAIN entries') <= MaxEntries
    BY <2>3, ShrinkFits
  <2> QED BY <1>1, <1>2, <1>4, <2>2, <2>4, AnswerKeeps
<1> QED BY <1>3, <1>4, DecideCases

LEMMA NextKeepsLimiterInv == LimiterInv /\ [LimiterNext]_limiterVars => LimiterInv'
<1>1. ASSUME LimiterInv, UNCHANGED limiterVars PROVE LimiterInv'
  BY <1>1 DEF limiterVars, LimiterInv, LimiterTypeOK, TicketInv, EntryInv, LogInv, FirstOf, Apart
<1> QED BY <1>1, ReadClockKeeps, RefuseKeeps, DecideKeeps, TickKeeps DEF LimiterNext

\* Twice the limit is all that fits between two admissions that are near.
LEMMA BudgetFromLog ==
  ASSUME LimiterInv, NEW k \in Keys, NEW t \in 0..ClockBound
  PROVE  AdmittedIn(k, t, t + WindowOf(k) - LagBound - 1) <= 2 * LimitOf(k)
<1> DEFINE log == admitted[k]
           n == Len(log)
           limit == LimitOf(k)
           last == t + WindowOf(k) - LagBound - 1
           S == {i \in DOMAIN log : log[i] \in t..last}
<1>1. limit \in Nat \ {0} /\ Apart(k) \in Int /\ t \in Nat /\ last = t + Apart(k) - 1
  BY KeyNumbers, LimiterAssumption DEF Apart
<1>2. n \in Nat /\ DOMAIN log = 1..n /\ \A i \in 1..n : log[i] \in Nat
  BY TypesOfKeys DEF KeyTypes
<1>3. \A i, j \in 1..n : j - i >= 2 * limit => log[j] - log[i] >= Apart(k)
  BY DEF LimiterInv, LogInv
<1>4. AdmittedIn(k, t, last) = Cardinality(S)
  BY DEF AdmittedIn
<1>5. \A i \in S : i \in 1..n /\ t <= log[i] /\ log[i] <= t + Apart(k) - 1
  BY <1>1, <1>2
<1>6. S \in SUBSET Nat
  BY <1>2
<1> HIDE DEF S, n, log, limit
<1>7. Cardinality(S) <= 2 * limit
  <2>1. CASE S = {}
    BY <1>1, <2>1, FS_EmptySet
  <2>2. CASE S # {}
    <3>1. PICK m \in S : \A i \in S : m <= i
      BY <1>6, <2>2, Least
    <3>2. ASSUME NEW i \in S PROVE i \in m..(m + 2 * limit - 1)
      <4>1. /\ m \in 1..n /\ i \in 1..n /\ m <= i
            /\ t <= log[m] /\ log[i] <= t + Apart(k) - 1 /\ log[m] \in Nat /\ log[i] \in Nat
        BY <1>2, <1>5, <3>1
      <4>2. ~(log[i] - log[m] >= Apart(k))
        BY <1>1, <4>1
      <4>3. ~(i - m >= 2 * limit)
        BY <1>3, <4>1, <4>2
      <4> QED BY <1>1, <1>2, <4>1, <4>3
    <3>3. m \in Nat
      BY <1>6
    <3>4. /\ IsFiniteSet(m..(m + 2 * limit - 1))
          /\ Cardinality(m..(m + 2 * limit - 1)) = 2 * limit
      <4>1. m \in Int /\ m + 2 * limit - 1 \in Int /\ ~(m > m + 2 * limit - 1)
            /\ (m + 2 * limit - 1) - m + 1 = 2 * limit
        BY <1>1, <3>3
      <4> QED BY <4>1, FS_Interval
    <3>5. Cardinality(S) <= Cardinality(m..(m + 2 * limit - 1))
      BY <3>2, <3>4, FS_Subset
    <3> QED BY <3>4, <3>5
  <2> QED BY <2>1, <2>2
<1> QED BY <1>4, <1>7 DEF limit

\* The types; no map outgrows maxEntries and no count its limit (limiter.go:16-28).
THEOREM LimiterTypes == LimiterSpec => []LimiterTypeOK
<1>1. LimiterInv => LimiterTypeOK
  BY DEF LimiterInv
<1> QED BY <1>1, InitLimiterInv, NextKeepsLimiterInv, PTL DEF LimiterSpec

\* No budget is forgotten early, for any limits, windows, number of callers and of
\* keys, size of the map and lag of a clock (limiter.go:102-135).
THEOREM BudgetsHold == LimiterSpec => []BudgetHolds
<1>1. LimiterInv => BudgetHolds
  BY BudgetFromLog DEF BudgetHolds
<1> QED BY <1>1, InitLimiterInv, NextKeepsLimiterInv, PTL DEF LimiterSpec

\* A refusal charges neither key, and every admission is counted (limiter.go:52-93).
THEOREM CountsAreTrue == LimiterSpec => []CountsAreAdmissions
<1>1. LimiterInv => CountsAreAdmissions
  BY DEF LimiterInv, LimiterTypeOK, EntryInv, CountsAreAdmissions
<1> QED BY <1>1, InitLimiterInv, NextKeepsLimiterInv, PTL DEF LimiterSpec

-----------------------------------------------------------------------------
(* ConnQueue: what is invariant *)

\* How many frames of a sender have been accepted, or refused by a closed connection.
Issued(s) == IF pc[s] = "idle" THEN sent[s] ELSE sent[s] - 1

\* Of one forwarder's frames the older one is first, and no frame is there twice.
Precedes(x, y) == x # y /\ (IsAudio(x) /\ x.by = y.by => x.n < y.n)
InOrder(s) == \A i, j \in DOMAIN s : i < j => Precedes(s[i], s[j])

\* The places of a frame, and all frames there are.
OnWire == Range(wire)
InLoop == {writing} \ {Nobody}
Queued == Range(queue)
InHand == {held[f] : f \in Forwarders} \ {Nobody}
Line == OnWire \cup InLoop \cup Queued
Somewhere == Line \cup InHand

\* Who is parked waits there, once; whoever sends has begun; what writeLoop has taken
\* it is writing.
SenderInv ==
  /\ writing # Nobody <=> loop = "write"
  /\ \A i \in DOMAIN parked : pc[parked[i]] = "parked"
  /\ \A i, j \in DOMAIN parked : parked[i] = parked[j] => i = j
  /\ \A s \in Senders : pc[s] # "idle" => sent[s] > 0

OrderInv ==
  /\ InOrder(wire) /\ InOrder(queue)
  /\ \A x \in OnWire, y \in InLoop \cup Queued : Precedes(x, y)
  /\ \A x \in InLoop, y \in Queued : Precedes(x, y)

\* A frame in a forwarder's hands is a control frame and nowhere else.
HandInv ==
  \A f \in Forwarders : held[f] # Nobody =>
    /\ ~IsAudio(held[f]) /\ held[f] \notin Line
    /\ \A g \in Forwarders : held[g] = held[f] => f = g

\* There is no frame that was not issued, and no issued control frame is gone.
IssuedInv == \A x \in Somewhere : x.n <= Issued(x.by)
PresentInv ==
  ~done => \A s \in Sessions : \A n \in 1..Issued(s) : [by |-> s, n |-> n] \in Somewhere

ConnInv ==
  /\ TypeOK /\ SenderInv /\ OrderInv /\ HandInv
  /\ IssuedInv /\ PresentInv

-----------------------------------------------------------------------------
(* ConnQueue: sequences of frames *)

LEMMA AppendInOrder ==
  ASSUME NEW s \in Seq(Frame), NEW x \in Frame, InOrder(s), \A y \in Range(s) : Precedes(y, x)
  PROVE  /\ Append(s, x) \in Seq(Frame) /\ Len(Append(s, x)) = Len(s) + 1
         /\ InOrder(Append(s, x)) /\ Range(Append(s, x)) = Range(s) \cup {x}
<1> DEFINE n == Len(s)
           t == Append(s, x)
<1>1. /\ n \in Nat /\ DOMAIN s = 1..n
      /\ t \in Seq(Frame) /\ Len(t) = n + 1 /\ DOMAIN t = 1..(n + 1)
      /\ t[n + 1] = x /\ \A i \in 1..n : t[i] = s[i]
  OBVIOUS
<1> HIDE DEF n, t
<1>2. \A i \in 1..(n + 1) : i \in 1..n \/ i = n + 1
  BY <1>1
<1>3. InOrder(t)
  <2> SUFFICES ASSUME NEW i \in 1..(n + 1), NEW j \in 1..(n + 1), i < j
               PROVE  Precedes(t[i], t[j])
    BY <1>1 DEF InOrder
  <2>1. i \in 1..n /\ s[i] \in Range(s)
    BY <1>1 DEF Range
  <2>2. CASE j \in 1..n
    BY <1>1, <2>1, <2>2 DEF InOrder
  <2>3. CASE j = n + 1
    BY <1>1, <2>1, <2>3
  <2> QED BY <1>2, <2>2, <2>3
<1>4. Range(t) = Range(s) \cup {x}
  BY <1>1, <1>2 DEF Range
<1> QED BY <1>1, <1>3, <1>4 DEF n, t

LEMMA TailInOrder ==
  ASSUME NEW s \in Seq(Frame), s # <<>>, InOrder(s)
  PROVE  /\ Head(s) \in Frame
         /\ Tail(s) \in Seq(Frame) /\ Len(Tail(s)) = Len(s) - 1
         /\ InOrder(Tail(s)) /\ Range(s) = {Head(s)} \cup Range(Tail(s))
         /\ \A y \in Range(Tail(s)) : Precedes(Head(s), y)
<1> DEFINE n == Len(s)
           t == Tail(s)
<1>1. /\ n \in Nat \ {0} /\ DOMAIN s = 1..n
      /\ t \in Seq(Frame) /\ Len(t) = n - 1 /\ DOMAIN t = 1..(n - 1)
      /\ Head(s) = s[1] /\ s[1] \in Frame /\ \A i \in 1..(n - 1) : t[i] = s[i + 1]
  OBVIOUS
<1> HIDE DEF n, t
<1>2. InOrder(t)
  <2> SUFFICES ASSUME NEW i \in 1..(n - 1), NEW j \in 1..(n - 1), i < j
               PROVE  Precedes(t[i], t[j])
    BY <1>1 DEF InOrder
  <2>1. i + 1 \in 1..n /\ j + 1 \in 1..n /\ i + 1 < j + 1
    BY <1>1
  <2> QED BY <1>1, <2>1 DEF InOrder
<1>3. \A i \in 1..(n - 1) : i + 1 \in 1..n /\ 1 \in 1..n /\ 1 < i + 1
  BY <1>1
<1>4. \A y \in Range(t) : Precedes(Head(s), y)
  BY <1>1, <1>3 DEF InOrder, Range
<1>5. Range(s) = {Head(s)} \cup Range(t)
  <2>1. ASSUME NEW i \in 1..n PROVE s[i] \in {Head(s)} \cup Range(t)
    <3>1. CASE i = 1
      BY <1>1, <3>1
    <3>2. CASE i # 1
      <4>1. i - 1 \in 1..(n - 1) /\ (i - 1) + 1 = i
        BY <1>1, <3>2
      <4>2. t[i - 1] = s[i]
        BY <1>1, <4>1
      <4> QED BY <1>1, <4>1, <4>2 DEF Range
    <3> QED BY <3>1, <3>2
  <2>2. ASSUME NEW i \in 1..(n - 1) PROVE t[i] \in Range(s)
    BY <1>1, <1>3 DEF Range
  <2>3. Head(s) \in Range(s)
    BY <1>1 DEF Range
  <2> QED BY <1>1, <2>1, <2>2, <2>3 DEF Range
<1> QED BY <1>1, <1>2, <1>4, <1>5 DEF n, t

LEMMA ConcatInOrder ==
  ASSUME NEW s \in Seq(Frame), NEW t \in Seq(Frame), InOrder(s), InOrder(t),
         \A x \in Range(s), y \in Range(t) : Precedes(x, y)
  PROVE  /\ s \o t \in Seq(Frame) /\ InOrder(s \o t)
         /\ Range(s \o t) = Range(s) \cup Range(t)
<1> DEFINE n == Len(s)
           m == Len(t)
           u == s \o t
<1>1. /\ n \in Nat /\ m \in Nat /\ DOMAIN s = 1..n /\ DOMAIN t = 1..m
      /\ u \in Seq(Frame) /\ DOMAIN u = 1..(n + m)
      /\ \A i \in 1..(n + m) : u[i] = IF i <= n THEN s[i] ELSE t[i - n]
  OBVIOUS
<1> HIDE DEF n, m, u
<1>2. \A i \in 1..(n + m) : \/ i \in 1..n /\ u[i] = s[i]
                            \/ i > n /\ i - n \in 1..m /\ u[i] = t[i - n]
  BY <1>1
<1>3. InOrder(u)
  <2> SUFFICES ASSUME NEW i \in 1..(n + m), NEW j \in 1..(n + m), i < j
               PROVE  Precedes(u[i], u[j])
    BY <1>1 DEF InOrder
  <2>1. CASE i \in 1..n /\ j \in 1..n
    BY <1>1, <2>1 DEF InOrder
  <2>2. CASE i \in 1..n /\ j > n /\ j - n \in 1..m
    <3>1. u[i] = s[i] /\ u[j] = t[j - n]
      BY <1>1, <1>2, <2>2
    <3>2. u[i] \in Range(s) /\ u[j] \in Range(t)
      BY <1>1, <2>2, <3>1 DEF Range
    <3> QED BY <3>2
  <2>3. CASE i > n /\ i - n \in 1..m /\ j > n /\ j - n \in 1..m
    <3>1. i - n < j - n /\ u[i] = t[i - n] /\ u[j] = t[j - n]
      BY <1>1, <1>2, <2>3
    <3> QED BY <1>1, <2>3, <3>1 DEF InOrder
  <2> QED BY <1>1, <1>2, <2>1, <2>2, <2>3
<1>4. Range(u) = Range(s) \cup Range(t)
  <2>1. Range(u) \subseteq Range(s) \cup Range(t)
    BY <1>1, <1>2 DEF Range
  <2>2. ASSUME NEW i \in 1..n PROVE s[i] \in Range(u)
    <3>1. i \in 1..(n + m) /\ u[i] = s[i]
      BY <1>1
    <3> QED BY <1>1, <3>1 DEF Range
  <2>3. ASSUME NEW j \in 1..m PROVE t[j] \in Range(u)
    <3>1. n + j \in 1..(n + m) /\ u[n + j] = t[j]
      BY <1>1
    <3> QED BY <1>1, <3>1 DEF Range
  <2> QED BY <1>1, <2>1, <2>2, <2>3 DEF Range
<1> QED BY <1>1, <1>3, <1>4 DEF u

-----------------------------------------------------------------------------
(* ConnQueue: frames and their numbers *)

LEMMA FrameFacts ==
  /\ \A x \in Frame : x.by \in Senders /\ x.n \in Nat /\ x # Nobody
  /\ \A x \in Frame : IsAudio(x) <=> x.by \notin Sessions
  /\ \A s \in Senders : \A n \in 1..BoundOf(s) : [by |-> s, n |-> n] \in Frame
BY ConnAssumption DEF Frame, Senders, BoundOf, IsAudio

\* Every frame there is has been issued by its sender.
LEMMA Places ==
  ASSUME ConnInv
  PROVE  /\ Somewhere \subseteq Frame
         /\ \A s \in Senders : sent[s] \in Nat /\ Issued(s) \in Nat /\ Issued(s) <= sent[s]
         /\ \A s \in Senders : sent[s] <= BoundOf(s) /\ BoundOf(s) \in Nat
<1>1. Somewhere \subseteq Frame
  BY DEF ConnInv, TypeOK, Somewhere, Line, OnWire, InLoop, Queued, InHand, Range
<1>2. ASSUME NEW s \in Senders
      PROVE  sent[s] \in Nat /\ Issued(s) \in Nat /\ Issued(s) <= sent[s]
  BY DEF ConnInv, TypeOK, SenderInv, Issued
<1>3. \A s \in Senders : sent[s] <= BoundOf(s) /\ BoundOf(s) \in Nat
  BY ConnAssumption DEF ConnInv, TypeOK, BoundOf
<1> QED BY <1>1, <1>2, <1>3

\* The next frame of a sender is behind all others and nowhere yet.
LEMMA NextFrame ==
  ASSUME ConnInv, NEW s \in Senders, Issued(s) < BoundOf(s)
  PROVE  LET x == [by |-> s, n |-> Issued(s) + 1] IN
         /\ x \in Frame
         /\ \A y \in Somewhere : Precedes(y, x)
<1> DEFINE x == [by |-> s, n |-> Issued(s) + 1]
<1>1. Issued(s) \in Nat /\ BoundOf(s) \in Nat
  BY Places
<1>2. x \in Frame
  BY <1>1, FrameFacts
<1>3. ASSUME NEW y \in Somewhere PROVE Precedes(y, x)
  <2>1. y.n <= Issued(y.by) /\ y \in Frame /\ y.n \in Nat
    BY Places, FrameFacts DEF ConnInv, IssuedInv
  <2>2. y.by = s => y.n < x.n
    BY <1>1, <2>1
  <2> QED BY <2>1, <2>2 DEF Precedes
<1> QED BY <1>2, <1>3

\* A sender that is on its way is about to issue its current frame.
LEMMA CurrentFrame ==
  ASSUME ConnInv, NEW s \in Senders, pc[s] # "idle"
  PROVE  /\ Issued(s) + 1 = sent[s] /\ Issued(s) < BoundOf(s)
         /\ Current(s) \in Frame /\ Current(s) = [by |-> s, n |-> Issued(s) + 1]
         /\ \A y \in Somewhere : Precedes(y, Current(s))
<1>1. sent[s] \in Nat /\ sent[s] <= BoundOf(s) /\ BoundOf(s) \in Nat /\ sent[s] > 0
  BY Places DEF ConnInv, SenderInv
<1>2. Issued(s) + 1 = sent[s] /\ Issued(s) < BoundOf(s)
  BY <1>1 DEF Issued
<1>3. Current(s) = [by |-> s, n |-> Issued(s) + 1]
  BY <1>2 DEF Current
<1> QED BY <1>2, <1>3, NextFrame

\* A frame in somebody's hands is behind all that is in line.
LEMMA HeldFrame ==
  ASSUME ConnInv, NEW f \in Forwarders, held[f] # Nobody
  PROVE  /\ held[f] \in Frame /\ held[f].by \in Sessions
         /\ \A y \in Line : Precedes(y, held[f])
<1>1. held[f] \in Frame /\ ~IsAudio(held[f]) /\ held[f] \notin Line
  BY DEF ConnInv, TypeOK, HandInv
<1> QED BY <1>1, FrameFacts DEF Precedes, IsAudio

-----------------------------------------------------------------------------
(* ConnQueue: what a step may do to the line *)

\* A frame that is behind all in line is appended to the queue.
LEMMA Arrives ==
  ASSUME ConnInv, NEW x \in Frame, \A y \in Line : Precedes(y, x),
         queue' = Append(queue, x), UNCHANGED <<wire, writing>>
  PROVE  /\ queue' \in Seq(Frame) /\ Len(queue') = Len(queue) + 1
         /\ OrderInv' /\ Line' = Line \cup {x}
<1>1. queue \in Seq(Frame) /\ OrderInv /\ \A y \in Range(queue) : Precedes(y, x)
  BY DEF ConnInv, TypeOK, Line, Queued
<1>2. /\ queue' \in Seq(Frame) /\ Len(queue') = Len(queue) + 1
      /\ InOrder(queue') /\ Queued' = Queued \cup {x}
  BY <1>1, AppendInOrder DEF OrderInv, Queued
<1>3. OnWire' = OnWire /\ InLoop' = InLoop
  BY DEF OnWire, InLoop
<1>4. OrderInv'
  BY <1>1, <1>2, <1>3 DEF OrderInv, Line
<1> QED BY <1>2, <1>3, <1>4 DEF Line

\* Who is served while he is parked.
Served == IF parked = <<>> THEN {} ELSE {Current(Head(parked))}

\* The head of the queue is received, and a parked sender's frame comes after all.
LEMMA Received ==
  ASSUME ConnInv, queue # <<>>, NEW next, ReceiveThen(next)
  PROVE  /\ queue' \in Seq(Frame) /\ Len(queue') <= Depth
         /\ InOrder(queue')
         /\ Head(queue) \in Queued /\ Head(queue) \in Frame
         /\ Queued' = (Queued \ {Head(queue)}) \cup Served
         /\ \A x \in Served : x \in Frame /\ ~IsAudio(x) /\ \A y \in Somewhere : Precedes(y, x)
         /\ \A y \in Queued \ {Head(queue)} : Precedes(Head(queue), y)
<1>1. queue \in Seq(Frame) /\ InOrder(queue) /\ Len(queue) <= Depth /\ Len(queue) \in Nat
      /\ Depth \in Nat
  BY ConnAssumption DEF ConnInv, TypeOK, OrderInv
<1>2. /\ Head(queue) \in Frame
      /\ Tail(queue) \in Seq(Frame) /\ Len(Tail(queue)) = Len(queue) - 1
      /\ InOrder(Tail(queue)) /\ Queued = {Head(queue)} \cup Range(Tail(queue))
      /\ \A y \in Range(Tail(queue)) : Precedes(Head(queue), y)
  BY <1>1, TailInOrder DEF Queued
<1>3. Range(Tail(queue)) = Queued \ {Head(queue)}
  BY <1>2 DEF Precedes
<1>4. CASE parked = <<>>
  <2>1. queue' = Tail(queue) /\ Served = {}
    BY <1>4 DEF ReceiveThen, Served
  <2> QED BY <1>1, <1>2, <1>3, <2>1 DEF Queued
<1>5. CASE parked # <<>>
  <2> DEFINE s == Head(parked)
  <2>1. queue' = Append(Tail(queue), Current(s)) /\ Served = {Current(s)}
    BY <1>5 DEF ReceiveThen, Served
  <2>2. s \in Sessions /\ s \in Senders /\ pc[s] = "parked"
    <3>1. parked \in Seq(Sessions) /\ 1 \in DOMAIN parked /\ s = parked[1]
      BY <1>5 DEF ConnInv, TypeOK
    <3> QED BY <3>1 DEF ConnInv, SenderInv, Senders
  <2> HIDE DEF s
  <2>3. Current(s) \in Frame /\ \A y \in Somewhere : Precedes(y, Current(s))
    BY <2>2, CurrentFrame
  <2>4. ~IsAudio(Current(s))
    BY <2>2, ConnAssumption DEF IsAudio, Current
  <2>5. \A y \in Range(Tail(queue)) : Precedes(y, Current(s))
    BY <1>2, <2>3 DEF Somewhere, Line
  <2>6. /\ queue' \in Seq(Frame) /\ Len(queue') = Len(Tail(queue)) + 1
        /\ InOrder(queue') /\ Queued' = Range(Tail(queue)) \cup {Current(s)}
    BY <1>2, <2>1, <2>3, <2>5, AppendInOrder DEF Queued
  <2> QED BY <1>1, <1>2, <1>3, <2>1, <2>3, <2>4, <2>6
<1> QED BY <1>4, <1>5

-----------------------------------------------------------------------------
(* ConnQueue: what a step may do to the senders *)

At == {"idle", "full", "parked", "try", "pop", "requeue"}

\* Nothing is gone but audio frames, and what is new has just been issued.
LEMMA PlacesAreKept ==
  ASSUME ConnInv, NEW New,
         Somewhere' \subseteq Somewhere \cup New,
         \A x \in New : x.n <= Issued(x.by)',
         \A s \in Senders : Issued(s)' \in Nat /\ Issued(s) <= Issued(s)',
         ~done' => /\ ~done
                   /\ \A x \in Somewhere : ~IsAudio(x) => x \in Somewhere'
                   /\ New \subseteq Somewhere'
                   /\ \A s \in Sessions :
                        \/ Issued(s)' = Issued(s)
                        \/ /\ Issued(s)' = Issued(s) + 1
                           /\ [by |-> s, n |-> Issued(s) + 1] \in New
  PROVE  IssuedInv' /\ PresentInv'
<1>1. IssuedInv'
  <2> SUFFICES ASSUME NEW x \in Somewhere', x \in Somewhere PROVE x.n <= Issued(x.by)'
    BY DEF IssuedInv
  <2>1. x.n <= Issued(x.by) /\ x.n \in Nat /\ x.by \in Senders
    BY Places, FrameFacts DEF ConnInv, IssuedInv
  <2> QED BY <2>1, Places
<1>2. PresentInv'
  <2> SUFFICES ASSUME ~done', NEW s \in Sessions, NEW n \in 1..Issued(s)'
               PROVE  [by |-> s, n |-> n] \in Somewhere'
    BY DEF PresentInv
  <2> DEFINE x == [by |-> s, n |-> n]
  <2>1. s \in Senders /\ Issued(s) \in Nat /\ n \in Nat
    BY Places DEF Senders
  <2>2. CASE n \in 1..Issued(s)
    <3>1. x \in Somewhere
      BY <2>2 DEF ConnInv, PresentInv
    <3>2. ~IsAudio(x)
      BY ConnAssumption DEF IsAudio
    <3> QED BY <3>1, <3>2
  <2>3. CASE n = Issued(s) + 1 /\ x \in New
    BY <2>3
  <2>4. \/ Issued(s)' = Issued(s)
        \/ Issued(s)' = Issued(s) + 1 /\ [by |-> s, n |-> Issued(s) + 1] \in New
    BY DEF Issued
  <2>5. n \in 1..Issued(s) \/ (n = Issued(s) + 1 /\ n = Issued(s)')
    BY <2>1, <2>4 DEF Issued
  <2>6. n \in 1..Issued(s) \/ (n = Issued(s) + 1 /\ x \in New)
    BY <2>1, <2>4, <2>5
  <2> QED BY <2>2, <2>3, <2>6
<1> QED BY <1>1, <1>2

\* Who receives serves the first who is parked, and moves on himself.
LEMMA ReceivedSenders ==
  ASSUME ConnInv, NEW next \in [Senders -> At], ReceiveThen(next), sent' = sent,
         \A s \in Sessions : next[s] = pc[s],
         \A f \in Forwarders : next[f] = "idle" <=> pc[f] = "idle"
  PROVE  /\ parked' \in Seq(Sessions) /\ pc' \in [Senders -> At]
         /\ \A f \in Forwarders : pc'[f] = next[f]
         /\ \A i \in DOMAIN parked' : pc'[parked'[i]] = "parked"
         /\ \A i, j \in DOMAIN parked' : parked'[i] = parked'[j] => i = j
         /\ \A s \in Senders : pc'[s] # "idle" => sent'[s] > 0
         /\ \A s \in Senders : Issued(s)' \in Nat /\ Issued(s) <= Issued(s)'
         /\ \A x \in Served : x.n <= Issued(x.by)'
         /\ \A s \in Sessions :
              \/ Issued(s)' = Issued(s)
              \/ Issued(s)' = Issued(s) + 1 /\ [by |-> s, n |-> Issued(s) + 1] \in Served
<1>1. /\ parked \in Seq(Sessions)
      /\ \A i \in DOMAIN parked : pc[parked[i]] = "parked"
      /\ \A i, j \in DOMAIN parked : parked[i] = parked[j] => i = j
      /\ \A s \in Senders : pc[s] # "idle" => sent[s] > 0
      /\ pc \in [Senders -> At]
  BY DEF ConnInv, TypeOK, SenderInv, At
<1>2. \A s \in Senders : next[s] = "idle" <=> pc[s] = "idle"
  BY DEF Senders
<1>3. \A s \in Senders : sent[s] \in Nat /\ Issued(s) \in Nat
  BY Places
<1>4. CASE parked = <<>>
  <2>1. pc' = next /\ parked' = parked /\ Served = {}
    BY <1>4 DEF ReceiveThen, Served
  <2>2. \A s \in Senders : Issued(s)' = Issued(s)
    BY <1>2, <2>1 DEF Issued
  <2>3. DOMAIN parked' = {}
    BY <1>4, <2>1
  <2> QED BY <1>1, <1>2, <1>3, <2>1, <2>2, <2>3 DEF Senders
<1>5. CASE parked # <<>>
  <2>0. PICK p \in Sessions : p = Head(parked) /\ p = parked[1] /\ 1 \in DOMAIN parked
    BY <1>1, <1>5
  <2>1. pc' = [next EXCEPT ![p] = "idle"] /\ parked' = Tail(parked) /\ Served = {Current(p)}
    BY <1>5, <2>0 DEF ReceiveThen, Served
  <2>2. p \in Sessions /\ p \in Senders /\ p \notin Forwarders /\ pc[p] = "parked"
    BY <1>1, <2>0, ConnAssumption DEF Senders
  <2>3. \A i \in DOMAIN parked' : i + 1 \in DOMAIN parked /\ parked'[i] = parked[i + 1] /\ i + 1 # 1
                                  /\ i \in Nat
    BY <1>1, <1>5, <2>1
  <2>4. parked' \in Seq(Sessions)
    BY <1>1, <1>5, <2>1
  <2>5. pc' \in [Senders -> At] /\ \A s \in Senders : pc'[s] = IF s = p THEN "idle" ELSE next[s]
    BY <2>1, <2>2 DEF At
  <2>6. \A i \in DOMAIN parked' : pc'[parked'[i]] = "parked"
    <3> SUFFICES ASSUME NEW i \in DOMAIN parked' PROVE pc'[parked'[i]] = "parked"
      OBVIOUS
    <3>1. parked[i + 1] # p /\ parked[i + 1] \in Sessions /\ pc[parked[i + 1]] = "parked"
      BY <1>1, <2>0, <2>3
    <3> QED BY <2>3, <2>5, <3>1 DEF Senders
  <2>7. \A i, j \in DOMAIN parked' : parked'[i] = parked'[j] => i = j
    BY <1>1, <2>3
  <2>8. \A s \in Senders : Issued(s)' = IF s = p THEN sent[s] ELSE Issued(s)
    BY <1>2, <2>5 DEF Issued
  <2>9. Issued(p) + 1 = sent[p] /\ Current(p) = [by |-> p, n |-> Issued(p) + 1]
    BY <2>2, CurrentFrame
  <2>10. Issued(p)' = sent[p]
    BY <2>2, <2>8
  <2>11. \A s \in Senders : pc'[s] # "idle" => sent'[s] > 0
    BY <1>1, <1>2, <2>5
  <2>12. \A f \in Forwarders : pc'[f] = next[f]
    BY <2>2, <2>5 DEF Senders
  <2>13. \A s \in Senders : Issued(s)' \in Nat /\ Issued(s) <= Issued(s)'
    BY <1>3, <2>2, <2>8, <2>9
  <2>14. \A s \in Sessions :
           \/ Issued(s)' = Issued(s)
           \/ Issued(s)' = Issued(s) + 1 /\ [by |-> s, n |-> Issued(s) + 1] \in Served
    BY <2>1, <2>8, <2>9 DEF Senders
  <2>15. ASSUME NEW x \in Served PROVE x.n <= Issued(x.by)'
    <3>1. x.n = sent[p] /\ x.by = p
      BY <2>1 DEF Current
    <3> QED BY <1>3, <2>2, <2>10, <3>1
  <2> QED BY <2>4, <2>5, <2>6, <2>7, <2>11, <2>12, <2>13, <2>14, <2>15
<1> QED BY <1>4, <1>5

\* After close nobody is parked.
LEMMA ClosedSenders ==
  ASSUME ConnInv, NEW next \in [Senders -> At], CloseThen(next), sent' = sent,
         \A s \in Senders : pc[s] = "idle" => next[s] = "idle"
  PROVE  /\ done' = TRUE /\ parked' = <<>> /\ pc' \in [Senders -> At]
         /\ \A f \in Forwarders : pc'[f] = next[f]
         /\ \A s \in Senders : pc'[s] # "idle" => sent'[s] > 0
         /\ \A s \in Senders : Issued(s)' \in Nat /\ Issued(s) <= Issued(s)'
<1>1. parked \in Seq(Sessions) /\ pc \in [Senders -> At]
  BY DEF ConnInv, TypeOK, At
<1>2. Range(parked) \cap Forwarders = {}
  BY <1>1, ConnAssumption DEF Range
<1>3. /\ done' = TRUE /\ parked' = <<>>
      /\ pc' = [s \in Senders |-> IF s \in Range(parked) THEN "idle" ELSE next[s]]
  BY DEF CloseThen
<1>4. \A s \in Senders : pc[s] = "idle" => pc'[s] = "idle"
  BY <1>3
<1>5. \A s \in Senders : sent[s] \in Nat /\ (pc[s] # "idle" => sent[s] > 0)
  BY Places DEF ConnInv, SenderInv
<1>6. \A s \in Senders : Issued(s)' \in Nat /\ Issued(s) <= Issued(s)'
  BY <1>4, <1>5 DEF Issued
<1> QED BY <1>2, <1>3, <1>4, <1>5, <1>6 DEF Senders, At

-----------------------------------------------------------------------------
(* ConnQueue: what is in hand, and what does not move *)

LEMMA HandsAreKept ==
  ASSUME ConnInv, NEW New, held' = held, Line' \subseteq Line \cup New,
         \A x \in New : \A y \in Somewhere : Precedes(y, x)
  PROVE  HandInv' /\ InHand' = InHand
<1>1. InHand' = InHand
  BY DEF InHand
<1>2. \A f \in Forwarders : held[f] # Nobody => held[f] \in Somewhere
  BY DEF InHand, Somewhere
<1> QED BY <1>1, <1>2 DEF ConnInv, HandInv, Precedes, IsAudio

LEMMA NothingMoves ==
  ASSUME ConnInv, UNCHANGED <<queue, held, writing, wire>>
  PROVE  OrderInv' /\ HandInv' /\ Line' = Line /\ Somewhere' = Somewhere
<1>1. OrderInv' /\ Line' = Line
  BY DEF ConnInv, OrderInv, Line, OnWire, InLoop, Queued
<1>2. HandInv' /\ InHand' = InHand
  <2> DEFINE New == {}
  <2>1. Line' \subseteq Line \cup New /\ \A x \in New : \A y \in Somewhere : Precedes(y, x)
    BY <1>1
  <2> HIDE DEF New
  <2> QED BY <2>1, HandsAreKept
<1> QED BY <1>1, <1>2 DEF Somewhere

\* One sender moves on: what the others have issued is as it was.
LEMMA OthersStay ==
  ASSUME ConnInv, NEW s \in Senders, NEW label \in At,
         pc' = [pc EXCEPT ![s] = label], sent' = sent, parked' = parked,
         pc[s] \notin {"idle", "parked"}
  PROVE  /\ pc' \in [Senders -> At]
         /\ \A t \in Senders : pc'[t] = IF t = s THEN label ELSE pc[t]
         /\ \A i \in DOMAIN parked' : pc'[parked'[i]] = "parked"
         /\ \A i, j \in DOMAIN parked' : parked'[i] = parked'[j] => i = j
         /\ \A t \in Senders : pc'[t] # "idle" => sent'[t] > 0
         /\ \A t \in Senders : Issued(t)' = IF t = s /\ label = "idle" THEN Issued(t) + 1
                                                                      ELSE Issued(t)
         /\ \A t \in Senders : Issued(t)' \in Nat /\ Issued(t) <= Issued(t)'
<1>1. /\ parked \in Seq(Sessions) /\ pc \in [Senders -> At]
      /\ \A i \in DOMAIN parked : pc[parked[i]] = "parked"
      /\ \A i, j \in DOMAIN parked : parked[i] = parked[j] => i = j
      /\ \A t \in Senders : pc[t] # "idle" => sent[t] > 0
  BY DEF ConnInv, TypeOK, SenderInv, At
<1>2. /\ pc' \in [Senders -> At]
      /\ \A t \in Senders : pc'[t] = IF t = s THEN label ELSE pc[t]
  BY <1>1
<1>3. \A i \in DOMAIN parked' : pc'[parked'[i]] = "parked"
  <2> SUFFICES ASSUME NEW i \in DOMAIN parked PROVE pc'[parked[i]] = "parked"
    OBVIOUS
  <2>1. parked[i] \in Senders /\ pc[parked[i]] = "parked"
    BY <1>1 DEF Senders
  <2> QED BY <1>2, <2>1
<1>4. \A t \in Senders : pc'[t] # "idle" => sent'[t] > 0
  BY <1>1, <1>2
<1>5. \A t \in Senders : sent[t] \in Nat /\ Issued(t) \in Nat
  BY Places
<1>6. \A t \in Senders : Issued(t)' = IF t = s /\ label = "idle" THEN Issued(t) + 1
                                                                ELSE Issued(t)
  BY <1>2, <1>5 DEF Issued
<1> QED BY <1>1, <1>2, <1>3, <1>4, <1>5, <1>6

-----------------------------------------------------------------------------
(* ConnQueue: the steps of writeControl *)

LEMMA SendControlKeeps ==
  ASSUME ConnInv, NEW s \in Sessions, SendControl(s)
  PROVE  ConnInv'
<1> DEFINE x == [by |-> s, n |-> sent[s] + 1]
<1>1. /\ s \in Senders /\ s \notin Forwarders
      /\ pc[s] = "idle" /\ sent[s] < BoundOf(s) /\ sent' = [sent EXCEPT ![s] = @ + 1]
      /\ UNCHANGED <<parked, done, held, loop, writing, wire>>
  BY ConnAssumption DEF SendControl, Begin, Senders
<1>2. /\ parked \in Seq(Sessions) /\ pc \in [Senders -> At] /\ sent \in [Senders -> Nat]
      /\ \A t \in Senders : sent[t] <= BoundOf(t) /\ BoundOf(t) \in Nat
      /\ \A i \in DOMAIN parked : pc[parked[i]] = "parked"
      /\ \A t \in Senders : pc[t] # "idle" => sent[t] > 0
  BY Places DEF ConnInv, TypeOK, SenderInv, At
<1>3. /\ sent' \in [Senders -> Nat] /\ \A t \in Senders : sent'[t] <= BoundOf(t)
      /\ \A t \in Senders : sent'[t] = IF t = s THEN sent[t] + 1 ELSE sent[t]
  BY <1>1, <1>2
<1>4. (pc' = pc \/ pc' = [pc EXCEPT ![s] = "full"])
  BY DEF SendControl, Move, Moved
<1>5. /\ pc' \in [Senders -> At]
      /\ \A t \in Senders : t # s => pc'[t] = pc[t]
      /\ \A f \in Forwarders : pc'[f] = pc[f]
  BY <1>1, <1>2, <1>4 DEF At, Senders
<1>6. SenderInv'
  <2>1. \A i \in DOMAIN parked : parked[i] \in Senders /\ parked[i] # s
    BY <1>1, <1>2 DEF Senders
  <2>2. \A i \in DOMAIN parked : pc'[parked[i]] = "parked"
    BY <1>2, <1>5, <2>1
  <2>3. \A t \in Senders : pc'[t] # "idle" => sent'[t] > 0
    <3>1. sent[s] + 1 > 0
      BY <1>1, <1>2
    <3> QED BY <1>1, <1>2, <1>3, <1>5, <3>1
  <2> QED BY <1>1, <2>2, <2>3 DEF ConnInv, SenderInv
<1>7. /\ \A t \in Senders : t # s => Issued(t)' = Issued(t)
      /\ Issued(s) = sent[s]
      /\ Issued(s)' = IF pc'[s] = "idle" THEN sent[s] + 1 ELSE sent[s]
      /\ \A t \in Senders : Issued(t)' \in Nat /\ Issued(t) <= Issued(t)'
  <2>1. \A t \in Senders : t # s => Issued(t)' = Issued(t)
    BY <1>3, <1>5 DEF Issued
  <2>2. Issued(s) = sent[s] /\ Issued(s)' = IF pc'[s] = "idle" THEN sent[s] + 1 ELSE sent[s]
    BY <1>1, <1>2, <1>3 DEF Issued
  <2> QED BY <1>1, <1>2, <2>1, <2>2, Places
<1>8. queue' \in Seq(Frame) /\ Len(queue') <= Depth => TypeOK'
  BY <1>1, <1>3, <1>5 DEF ConnInv, TypeOK, At
<1>9. CASE queue' = Append(queue, x) /\ HasRoom /\ pc' = pc
  <2>1. x \in Frame /\ \A y \in Somewhere : Precedes(y, x)
    BY <1>1, <1>7, NextFrame
  <2> HIDE DEF x
  <2>2. /\ queue' \in Seq(Frame) /\ Len(queue') = Len(queue) + 1
        /\ OrderInv' /\ Line' = Line \cup {x}
    BY <1>1, <1>9, <2>1, Arrives DEF Somewhere
  <2>3. Len(queue') <= Depth
    BY <1>9, <2>2, ConnAssumption DEF HasRoom, ConnInv, TypeOK
  <2>4. HandInv' /\ InHand' = InHand
    <3> DEFINE New == {x}
    <3>1. /\ Line' \subseteq Line \cup New
          /\ \A y \in New : \A z \in Somewhere : Precedes(z, y)
      BY <2>1, <2>2
    <3> HIDE DEF New
    <3> QED BY <1>1, <3>1, HandsAreKept
  <2>5. Somewhere' = Somewhere \cup {x}
    BY <2>2, <2>4 DEF Somewhere
  <2>6. x = [by |-> s, n |-> Issued(s) + 1] /\ Issued(s)' = Issued(s) + 1
        /\ Issued(s)' = sent[s] + 1
    BY <1>1, <1>7, <1>9 DEF x
  <2>7. \A y \in {x} : y.n <= Issued(y.by)'
    <3> SUFFICES ASSUME NEW y, y = [by |-> s, n |-> sent[s] + 1] PROVE y.n <= Issued(y.by)'
      BY DEF x
    <3> QED BY <1>1, <1>2, <2>6
  <2>8. \A t \in Sessions : \/ Issued(t)' = Issued(t)
                            \/ /\ Issued(t)' = Issued(t) + 1
                               /\ [by |-> t, n |-> Issued(t) + 1] \in {x}
    BY <1>7, <2>6 DEF Senders
  <2>9. IssuedInv' /\ PresentInv'
    <3> DEFINE New == {x}
    <3>1. /\ Somewhere' \subseteq Somewhere \cup New
          /\ \A y \in New : y.n <= Issued(y.by)'
          /\ \A t \in Senders : Issued(t)' \in Nat /\ Issued(t) <= Issued(t)'
          /\ \A y \in Somewhere : ~IsAudio(y) => y \in Somewhere'
          /\ New \subseteq Somewhere'
          /\ \A t \in Sessions :
               \/ Issued(t)' = Issued(t)
               \/ /\ Issued(t)' = Issued(t) + 1
                  /\ [by |-> t, n |-> Issued(t) + 1] \in New
      BY <1>7, <2>5, <2>7, <2>8
    <3> HIDE DEF New
    <3> QED BY <1>1, <3>1, PlacesAreKept
  <2> QED BY <1>6, <1>8, <2>2, <2>3, <2>4, <2>9 DEF ConnInv
<1>10. CASE queue' = queue /\ (done \/ pc' = [pc EXCEPT ![s] = "full"])
  <2>1. OrderInv' /\ HandInv' /\ Somewhere' = Somewhere
    BY <1>1, <1>10, NothingMoves
  <2>2. ~done => \A t \in Sessions : Issued(t)' = Issued(t)
    BY <1>1, <1>2, <1>7, <1>10 DEF Senders
  <2>3. IssuedInv' /\ PresentInv'
    <3> DEFINE New == {}
    <3>1. /\ Somewhere' \subseteq Somewhere \cup New
          /\ \A y \in New : y.n <= Issued(y.by)'
          /\ New \subseteq Somewhere'
          /\ \A y \in Somewhere : ~IsAudio(y) => y \in Somewhere'
      BY <2>1
    <3> HIDE DEF New
    <3> QED BY <1>1, <1>7, <2>2, <3>1, PlacesAreKept
  <2> QED BY <1>6, <1>8, <1>10, <2>1, <2>3 DEF ConnInv, TypeOK
<1> QED BY <1>9, <1>10 DEF SendControl, Move, Moved

\* A sender that is on its way enqueues its frame and is done.
LEMMA EnqueueKeeps ==
  ASSUME ConnInv, NEW s \in Senders, pc[s] \notin {"idle", "parked", "requeue"},
         HasRoom, Enqueue(Current(s)), Move(s, "idle"),
         UNCHANGED <<parked, done, sent, held, loop, writing, wire>>
  PROVE  ConnInv'
<1> PICK x \in Frame : x = Current(s) /\ x.by = s /\ x.n = sent[s]
  BY CurrentFrame DEF Current
<1>1. /\ Issued(s) + 1 = sent[s] /\ x = [by |-> s, n |-> Issued(s) + 1]
      /\ \A y \in Somewhere : Precedes(y, x)
  BY CurrentFrame
<1>2. /\ queue' \in Seq(Frame) /\ Len(queue') = Len(queue) + 1
      /\ OrderInv' /\ Line' = Line \cup {x}
  BY <1>1, Arrives DEF Somewhere, Enqueue
<1>3. Len(queue') <= Depth
  BY <1>2, ConnAssumption DEF HasRoom, ConnInv, TypeOK
<1>4. /\ pc' \in [Senders -> At]
      /\ \A t \in Senders : pc'[t] = IF t = s THEN "idle" ELSE pc[t]
      /\ \A i \in DOMAIN parked' : pc'[parked'[i]] = "parked"
      /\ \A i, j \in DOMAIN parked' : parked'[i] = parked'[j] => i = j
      /\ \A t \in Senders : pc'[t] # "idle" => sent'[t] > 0
      /\ \A t \in Senders : Issued(t)' = IF t = s THEN Issued(t) + 1 ELSE Issued(t)
      /\ \A t \in Senders : Issued(t)' \in Nat /\ Issued(t) <= Issued(t)'
  <2> DEFINE label == "idle"
  <2>1. label \in At /\ pc' = [pc EXCEPT ![s] = label]
    BY DEF At, Move, Moved
  <2>2. /\ pc' \in [Senders -> At]
        /\ \A t \in Senders : pc'[t] = IF t = s THEN label ELSE pc[t]
        /\ \A i \in DOMAIN parked' : pc'[parked'[i]] = "parked"
        /\ \A i, j \in DOMAIN parked' : parked'[i] = parked'[j] => i = j
        /\ \A t \in Senders : pc'[t] # "idle" => sent'[t] > 0
        /\ \A t \in Senders : Issued(t)' = IF t = s /\ label = "idle" THEN Issued(t) + 1
                                                                     ELSE Issued(t)
        /\ \A t \in Senders : Issued(t)' \in Nat /\ Issued(t) <= Issued(t)'
    <3> HIDE DEF label
    <3> QED BY <2>1, OthersStay
  <2> QED BY <2>2
<1>5. TypeOK' /\ SenderInv'
  BY <1>2, <1>3, <1>4 DEF ConnInv, TypeOK, SenderInv, At, Senders
<1> DEFINE New == {x}
<1>6. /\ Line' \subseteq Line \cup New
      /\ \A y \in New : \A z \in Somewhere : Precedes(z, y)
  BY <1>1, <1>2
<1>7. \A y \in New : y.n <= Issued(y.by)'
  <2>1. Issued(s)' = sent[s] /\ sent[s] \in Nat
    BY <1>1, <1>4, Places
  <2> SUFFICES ASSUME NEW y \in New PROVE y.n <= Issued(y.by)'
    OBVIOUS
  <2>2. y.n = sent[s] /\ y.by = s
    OBVIOUS
  <2> QED BY <2>1, <2>2
<1>8. \A t \in Sessions : \/ Issued(t)' = Issued(t)
                          \/ /\ Issued(t)' = Issued(t) + 1
                             /\ [by |-> t, n |-> Issued(t) + 1] \in New
  BY <1>1, <1>4 DEF Senders
<1>9. x \in New
  OBVIOUS
<1> HIDE DEF New
<1>10. HandInv' /\ InHand' = InHand
  BY <1>6, HandsAreKept
<1>11. /\ Somewhere' \subseteq Somewhere \cup New /\ New \subseteq Somewhere'
       /\ Somewhere \subseteq Somewhere'
  BY <1>2, <1>10 DEF Somewhere, New
<1>12. IssuedInv' /\ PresentInv'
  BY <1>4, <1>7, <1>8, <1>11, PlacesAreKept
<1> QED BY <1>2, <1>5, <1>10, <1>12 DEF ConnInv

\* A sender changes its place, and gives its frame up only if the connection is closed.
LEMMA MoveKeeps ==
  ASSUME ConnInv, NEW s \in Senders, pc[s] \notin {"idle", "parked", "requeue"},
         NEW label \in At \ {"requeue"}, done \/ label # "idle", Move(s, label),
         UNCHANGED <<queue, parked, done, sent, held, loop, writing, wire>>
  PROVE  ConnInv'
<1>1. /\ pc' \in [Senders -> At]
      /\ \A t \in Senders : pc'[t] = IF t = s THEN label ELSE pc[t]
      /\ \A i \in DOMAIN parked' : pc'[parked'[i]] = "parked"
      /\ \A i, j \in DOMAIN parked' : parked'[i] = parked'[j] => i = j
      /\ \A t \in Senders : pc'[t] # "idle" => sent'[t] > 0
      /\ \A t \in Senders : Issued(t)' = IF t = s /\ label = "idle" THEN Issued(t) + 1
                                                                   ELSE Issued(t)
      /\ \A t \in Senders : Issued(t)' \in Nat /\ Issued(t) <= Issued(t)'
  BY OthersStay DEF Move, Moved
<1>2. TypeOK' /\ SenderInv'
  <2>1. \A f \in Forwarders : held[f] = Nobody <=> pc'[f] # "requeue"
    BY <1>1 DEF ConnInv, TypeOK, Senders
  <2>2. SenderInv'
    BY <1>1 DEF ConnInv, SenderInv
  <2> QED BY <1>1, <2>1, <2>2 DEF ConnInv, TypeOK, At
<1>3. OrderInv' /\ HandInv' /\ Somewhere' = Somewhere
  BY NothingMoves
<1>4. ~done => \A t \in Sessions : Issued(t)' = Issued(t)
  BY <1>1 DEF Senders
<1>5. IssuedInv' /\ PresentInv'
  <2> DEFINE New == {}
  <2>1. /\ Somewhere' \subseteq Somewhere \cup New
        /\ \A y \in New : y.n <= Issued(y.by)'
        /\ New \subseteq Somewhere'
        /\ \A y \in Somewhere : ~IsAudio(y) => y \in Somewhere'
    BY <1>3
  <2> HIDE DEF New
  <2> QED BY <1>1, <1>4, <2>1, PlacesAreKept
<1> QED BY <1>2, <1>3, <1>5 DEF ConnInv

LEMMA AwaitRoomKeeps ==
  ASSUME ConnInv, NEW s \in Sessions, AwaitRoom(s)
  PROVE  ConnInv'
<1>1. s \in Senders /\ s \notin Forwarders /\ pc[s] = "full"
      /\ UNCHANGED <<done, sent, held, loop, writing, wire>>
  BY ConnAssumption DEF AwaitRoom, Senders
<1>2. CASE HasRoom /\ Enqueue(Current(s)) /\ Move(s, "idle") /\ UNCHANGED parked
  BY <1>1, <1>2, EnqueueKeeps
<1>3. CASE done /\ Move(s, "idle") /\ UNCHANGED <<queue, parked>>
  <2> DEFINE label == "idle"
  <2>1. label \in At \ {"requeue"} /\ Move(s, label)
    BY <1>3 DEF At
  <2> HIDE DEF label
  <2> QED BY <1>1, <1>3, <2>1, MoveKeeps
<1>4. CASE Move(s, "parked") /\ parked' = Append(parked, s) /\ UNCHANGED queue
  <2>1. /\ parked \in Seq(Sessions) /\ pc \in [Senders -> At]
        /\ \A i \in DOMAIN parked : pc[parked[i]] = "parked"
        /\ \A i, j \in DOMAIN parked : parked[i] = parked[j] => i = j
        /\ \A t \in Senders : pc[t] # "idle" => sent[t] > 0
    BY DEF ConnInv, TypeOK, SenderInv, At
  <2>2. /\ pc' \in [Senders -> At]
        /\ \A t \in Senders : pc'[t] = IF t = s THEN "parked" ELSE pc[t]
    BY <1>4, <2>1 DEF Move, Moved, At
  <2> DEFINE m == Len(parked)
  <2>3. /\ m \in Nat /\ DOMAIN parked = 1..m /\ parked' \in Seq(Sessions)
        /\ DOMAIN parked' = 1..(m + 1) /\ parked'[m + 1] = s
        /\ \A i \in 1..m : parked'[i] = parked[i]
    BY <1>4, <2>1
  <2> HIDE DEF m
  <2>4. \A i \in 1..(m + 1) : i = m + 1 \/ i \in 1..m
    BY <2>3
  <2>5. \A i \in 1..m : parked[i] # s /\ parked[i] \in Senders /\ pc[parked[i]] = "parked"
    BY <1>1, <2>1, <2>3 DEF Senders
  <2>6. \A i \in DOMAIN parked' : pc'[parked'[i]] = "parked"
    BY <1>1, <2>2, <2>3, <2>4, <2>5
  <2>7. \A i, j \in DOMAIN parked' : parked'[i] = parked'[j] => i = j
    BY <2>1, <2>3, <2>4, <2>5
  <2>8. \A t \in Senders : pc'[t] # "idle" => sent'[t] > 0
    BY <1>1, <2>1, <2>2
  <2>9. TypeOK' /\ SenderInv'
    <3>1. \A f \in Forwarders : held[f] = Nobody <=> pc'[f] # "requeue"
      BY <1>1, <2>2 DEF ConnInv, TypeOK, Senders
    <3>2. SenderInv'
      BY <1>1, <2>6, <2>7, <2>8 DEF ConnInv, SenderInv
    <3> QED BY <1>1, <1>4, <2>2, <2>3, <3>1, <3>2 DEF ConnInv, TypeOK, At
  <2>10. OrderInv' /\ HandInv' /\ Somewhere' = Somewhere
    BY <1>1, <1>4, NothingMoves
  <2>11. \A t \in Senders : Issued(t)' = Issued(t)
    BY <1>1, <2>2 DEF Issued
  <2>12. IssuedInv' /\ PresentInv'
    <3> DEFINE New == {}
    <3>1. /\ Somewhere' \subseteq Somewhere \cup New
          /\ \A y \in New : y.n <= Issued(y.by)'
          /\ New \subseteq Somewhere'
          /\ \A y \in Somewhere : ~IsAudio(y) => y \in Somewhere'
          /\ \A t \in Senders : Issued(t)' \in Nat /\ Issued(t) <= Issued(t)'
          /\ \A t \in Sessions : Issued(t)' = Issued(t)
      BY <2>10, <2>11, Places DEF Senders
    <3> HIDE DEF New
    <3> QED BY <1>1, <3>1, PlacesAreKept
  <2> QED BY <2>9, <2>10, <2>12 DEF ConnInv
<1> QED BY <1>2, <1>3, <1>4 DEF AwaitRoom

-----------------------------------------------------------------------------
(* ConnQueue: the steps of writeAudio that leave the channel alone, or enqueue *)

LEMMA SendAudioKeeps ==
  ASSUME ConnInv, NEW f \in Forwarders, SendAudio(f)
  PROVE  ConnInv'
<1>1. /\ f \in Senders /\ f \notin Sessions /\ pc[f] = "idle" /\ sent[f] < BoundOf(f)
      /\ sent' = [sent EXCEPT ![f] = @ + 1] /\ pc' = [pc EXCEPT ![f] = "try"]
      /\ UNCHANGED <<queue, parked, done, held, loop, writing, wire>>
  BY ConnAssumption DEF SendAudio, Begin, Move, Moved, Senders
<1>2. /\ parked \in Seq(Sessions) /\ pc \in [Senders -> At] /\ sent \in [Senders -> Nat]
      /\ \A t \in Senders : sent[t] <= BoundOf(t) /\ BoundOf(t) \in Nat
      /\ \A i \in DOMAIN parked : pc[parked[i]] = "parked"
      /\ \A t \in Senders : pc[t] # "idle" => sent[t] > 0
  BY Places DEF ConnInv, TypeOK, SenderInv, At
<1>3. /\ sent' \in [Senders -> Nat] /\ \A t \in Senders : sent'[t] <= BoundOf(t)
      /\ \A t \in Senders : sent'[t] = IF t = f THEN sent[t] + 1 ELSE sent[t]
      /\ sent[f] + 1 > 0
  BY <1>1, <1>2
<1>4. /\ pc' \in [Senders -> At]
      /\ \A t \in Senders : pc'[t] = IF t = f THEN "try" ELSE pc[t]
  BY <1>1, <1>2 DEF At
<1>5. \A i \in DOMAIN parked : pc'[parked[i]] = "parked"
  BY <1>1, <1>2, <1>4 DEF Senders
<1>6. \A t \in Senders : pc'[t] # "idle" => sent'[t] > 0
  BY <1>1, <1>2, <1>3, <1>4
<1>7. TypeOK' /\ SenderInv'
  BY <1>1, <1>3, <1>4, <1>5, <1>6 DEF ConnInv, TypeOK, SenderInv, At, Senders
<1>8. OrderInv' /\ HandInv' /\ Somewhere' = Somewhere
  BY <1>1, NothingMoves
<1>9. \A t \in Senders : Issued(t)' = Issued(t)
  BY <1>1, <1>2, <1>3, <1>4 DEF Issued
<1>10. IssuedInv' /\ PresentInv'
  <2> DEFINE New == {}
  <2>1. /\ Somewhere' \subseteq Somewhere \cup New
        /\ \A y \in New : y.n <= Issued(y.by)'
        /\ New \subseteq Somewhere'
        /\ \A y \in Somewhere : ~IsAudio(y) => y \in Somewhere'
        /\ \A t \in Senders : Issued(t)' \in Nat /\ Issued(t) <= Issued(t)'
        /\ \A t \in Sessions : Issued(t)' = Issued(t)
    BY <1>8, <1>9, Places DEF Senders
  <2> HIDE DEF New
  <2> QED BY <1>1, <2>1, PlacesAreKept
<1> QED BY <1>7, <1>8, <1>10 DEF ConnInv

LEMMA TryAudioKeeps ==
  ASSUME ConnInv, NEW f \in Forwarders, TryAudio(f)
  PROVE  ConnInv'
<1>1. f \in Senders /\ pc[f] = "try"
      /\ UNCHANGED <<parked, done, sent, held, loop, writing, wire>>
  BY DEF TryAudio, Senders
<1>2. CASE HasRoom /\ Enqueue(Current(f)) /\ Move(f, "idle")
  BY <1>1, <1>2, EnqueueKeeps
<1>3. ASSUME NEW label \in {"idle", "pop"}, done \/ label # "idle", Move(f, label),
             UNCHANGED queue
      PROVE  ConnInv'
  <2>1. label \in At \ {"requeue"}
    BY <1>3 DEF At
  <2> QED BY <1>1, <1>3, <2>1, MoveKeeps
<1> QED BY <1>2, <1>3 DEF TryAudio

LEMMA PopNothingKeeps ==
  ASSUME ConnInv, NEW f \in Forwarders, PopNothing(f)
  PROVE  ConnInv'
<1>1. f \in Senders /\ pc[f] = "pop"
      /\ UNCHANGED <<queue, parked, done, sent, held, loop, writing, wire>>
  BY DEF PopNothing, Senders
<1>2. ASSUME NEW label \in {"idle", "try"}, done \/ label # "idle", Move(f, label)
      PROVE  ConnInv'
  <2>1. label \in At \ {"requeue"}
    BY <1>2 DEF At
  <2> QED BY <1>1, <1>2, <2>1, MoveKeeps
<1> QED BY <1>2 DEF PopNothing

-----------------------------------------------------------------------------
(* ConnQueue: the steps that receive from the channel *)

LEMMA PopHeadKeeps ==
  ASSUME ConnInv, NEW f \in Forwarders, PopHead(f)
  PROVE  ConnInv'
<1>1. /\ f \in Senders /\ f \notin Sessions /\ pc[f] = "pop" /\ queue # <<>> /\ held[f] = Nobody
      /\ UNCHANGED <<done, sent, loop, writing, wire>>
  BY ConnAssumption DEF PopHead, Senders, ConnInv, TypeOK
<1>2. PICK label \in {"try", "requeue"} :
        /\ ReceiveThen(Moved(f, label))
        /\ IF label = "try" THEN IsAudio(Head(queue)) /\ held' = held
           ELSE ~IsAudio(Head(queue)) /\ held' = [held EXCEPT ![f] = Head(queue)]
  BY DEF PopHead, Droppable
<1> DEFINE next == Moved(f, label)
<1>3. /\ next \in [Senders -> At] /\ \A s \in Senders : next[s] = IF s = f THEN label ELSE pc[s]
      /\ \A s \in Sessions : next[s] = pc[s]
      /\ \A g \in Forwarders : next[g] = "idle" <=> pc[g] = "idle"
      /\ ReceiveThen(next)
  BY <1>1, <1>2 DEF Moved, ConnInv, TypeOK, At, Senders
<1> HIDE DEF next
<1>4. PICK h \in Frame : h = Head(queue)
  BY <1>1, <1>3, Received
<1>5. /\ queue' \in Seq(Frame) /\ Len(queue') <= Depth /\ InOrder(queue')
      /\ h \in Queued /\ Queued' = (Queued \ {h}) \cup Served
      /\ \A x \in Served : x \in Frame /\ ~IsAudio(x) /\ \A y \in Somewhere : Precedes(y, x)
      /\ \A y \in Queued \ {h} : Precedes(h, y)
  BY <1>1, <1>3, <1>4, Received
<1>6. /\ parked' \in Seq(Sessions) /\ pc' \in [Senders -> At]
      /\ \A g \in Forwarders : pc'[g] = next[g]
      /\ \A i \in DOMAIN parked' : pc'[parked'[i]] = "parked"
      /\ \A i, j \in DOMAIN parked' : parked'[i] = parked'[j] => i = j
      /\ \A s \in Senders : pc'[s] # "idle" => sent'[s] > 0
      /\ \A s \in Senders : Issued(s)' \in Nat /\ Issued(s) <= Issued(s)'
      /\ \A x \in Served : x.n <= Issued(x.by)'
      /\ \A s \in Sessions :
           \/ Issued(s)' = Issued(s)
           \/ Issued(s)' = Issued(s) + 1 /\ [by |-> s, n |-> Issued(s) + 1] \in Served
  BY <1>1, <1>3, ReceivedSenders
<1>7. OnWire' = OnWire /\ InLoop' = InLoop
  BY <1>1 DEF OnWire, InLoop
<1>8. Line' = (Line \ {h}) \cup Served
  <2>1. h \notin OnWire /\ h \notin InLoop
    BY <1>5 DEF ConnInv, OrderInv, Precedes
  <2> QED BY <1>5, <1>7, <2>1 DEF Line
<1>9. OrderInv'
  BY <1>1, <1>5, <1>7 DEF ConnInv, OrderInv, Somewhere, Line
<1>10. held' \in [Forwarders -> Frame \cup {Nobody}]
       /\ \A g \in Forwarders : held'[g] = IF g = f /\ label = "requeue" THEN h ELSE held[g]
  BY <1>2, <1>4 DEF ConnInv, TypeOK
<1>11. h \in Line /\ h # Nobody /\ h \notin Line'
  BY <1>4, <1>5, <1>8, FrameFacts DEF Somewhere, Line, Precedes
<1>12. HandInv'
  <2>1. \A g \in Forwarders : held[g] # Nobody =>
          /\ ~IsAudio(held[g]) /\ held[g] \notin Line /\ held[g] \notin Line' /\ held[g] # h
          /\ \A k \in Forwarders : held[k] = held[g] => g = k
    <3> SUFFICES ASSUME NEW g \in Forwarders, held[g] # Nobody
                 PROVE  /\ ~IsAudio(held[g]) /\ held[g] \notin Line
                        /\ held[g] \notin Line' /\ held[g] # h
                        /\ \A k \in Forwarders : held[k] = held[g] => g = k
      OBVIOUS
    <3>1. /\ ~IsAudio(held[g]) /\ held[g] \notin Line
          /\ \A k \in Forwarders : held[k] = held[g] => g = k
      BY DEF ConnInv, HandInv
    <3>2. held[g] \notin Served
      BY <1>5 DEF Precedes, Somewhere, InHand
    <3> QED BY <1>8, <1>11, <3>1, <3>2
  <2> SUFFICES ASSUME NEW g \in Forwarders, held'[g] # Nobody
               PROVE  /\ ~IsAudio(held'[g]) /\ held'[g] \notin Line'
                      /\ \A k \in Forwarders : held'[k] = held'[g] => g = k
    BY DEF HandInv, IsAudio
  <2>2. CASE g = f /\ label = "requeue"
    <3>1. held'[g] = h /\ ~IsAudio(h)
      BY <1>2, <1>4, <1>10, <2>2
    <3>2. \A k \in Forwarders : k # f => held'[k] = held[k] /\ held[k] # h
      BY <1>10, <1>11, <2>1
    <3> QED BY <1>11, <2>2, <3>1, <3>2
  <2>3. CASE ~(g = f /\ label = "requeue")
    <3>1. held'[g] = held[g]
      BY <1>10, <2>3
    <3>2. \A k \in Forwarders : held'[k] = held'[g] => held[k] = held[g]
      BY <1>10, <2>1, <3>1
    <3> QED BY <2>1, <3>1, <3>2
  <2> QED BY <2>2, <2>3
<1>13. InHand' = InHand \cup IF label = "requeue" THEN {h} ELSE {}
  BY <1>1, <1>10, <1>11 DEF InHand
<1>14. TypeOK' /\ SenderInv'
  <2>1. \A g \in Forwarders : held'[g] = Nobody <=> pc'[g] # "requeue"
    BY <1>1, <1>3, <1>6, <1>10, <1>11 DEF ConnInv, TypeOK, Senders
  <2>2. SenderInv'
    BY <1>1, <1>6 DEF ConnInv, SenderInv
  <2> QED BY <1>1, <1>5, <1>6, <1>10, <2>1, <2>2 DEF ConnInv, TypeOK, At
<1>15. /\ Somewhere' \subseteq Somewhere \cup Served /\ Served \subseteq Somewhere'
       /\ \A x \in Somewhere : ~IsAudio(x) => x \in Somewhere'
  <2>1. label = "requeue" \/ IsAudio(h)
    BY <1>2, <1>4
  <2> QED BY <1>8, <1>11, <1>13, <2>1 DEF Somewhere
<1>16. IssuedInv' /\ PresentInv'
  BY <1>1, <1>6, <1>15, PlacesAreKept
<1> QED BY <1>9, <1>12, <1>14, <1>16 DEF ConnInv

LEMMA TakeFrameKeeps ==
  ASSUME ConnInv, TakeFrame
  PROVE  ConnInv'
<1>1. /\ loop = "take" /\ queue # <<>> /\ writing = Nobody /\ InLoop = {}
      /\ writing' = Head(queue) /\ loop' = "write" /\ ReceiveThen(pc)
      /\ UNCHANGED <<done, sent, held, wire>>
  BY DEF TakeFrame, ConnInv, SenderInv, InLoop
<1>2. pc \in [Senders -> At]
  BY DEF ConnInv, TypeOK, At
<1>3. PICK h \in Frame : h = Head(queue)
  BY <1>1, Received
<1>4. /\ queue' \in Seq(Frame) /\ Len(queue') <= Depth /\ InOrder(queue')
      /\ h \in Queued /\ Queued' = (Queued \ {h}) \cup Served
      /\ \A x \in Served : x \in Frame /\ ~IsAudio(x) /\ \A y \in Somewhere : Precedes(y, x)
      /\ \A y \in Queued \ {h} : Precedes(h, y)
  BY <1>1, <1>3, Received
<1>5. /\ parked' \in Seq(Sessions) /\ pc' \in [Senders -> At]
      /\ \A g \in Forwarders : pc'[g] = pc[g]
      /\ \A i \in DOMAIN parked' : pc'[parked'[i]] = "parked"
      /\ \A i, j \in DOMAIN parked' : parked'[i] = parked'[j] => i = j
      /\ \A s \in Senders : pc'[s] # "idle" => sent'[s] > 0
      /\ \A s \in Senders : Issued(s)' \in Nat /\ Issued(s) <= Issued(s)'
      /\ \A x \in Served : x.n <= Issued(x.by)'
      /\ \A s \in Sessions :
           \/ Issued(s)' = Issued(s)
           \/ Issued(s)' = Issued(s) + 1 /\ [by |-> s, n |-> Issued(s) + 1] \in Served
  BY <1>1, <1>2, ReceivedSenders
<1>6. OnWire' = OnWire /\ InLoop' = {h} /\ h # Nobody
  BY <1>1, <1>3, FrameFacts DEF OnWire, InLoop
<1>7. Line' = Line \cup Served
  BY <1>1, <1>4, <1>6 DEF Line
<1>8. OrderInv'
  <2>1. /\ InOrder(wire) /\ \A x \in OnWire : \A y \in Queued : Precedes(x, y)
    BY DEF ConnInv, OrderInv
  <2>2. \A y \in Queued' : Precedes(h, y)
    BY <1>4 DEF Somewhere, Line
  <2>3. \A x \in OnWire : \A y \in InLoop' \cup Queued' : Precedes(x, y)
    BY <1>4, <1>6, <2>1 DEF Somewhere, Line
  <2> QED BY <1>1, <1>4, <1>6, <2>1, <2>2, <2>3 DEF OrderInv
<1>9. HandInv' /\ InHand' = InHand
  BY <1>1, <1>4, <1>7, HandsAreKept
<1>10. TypeOK' /\ SenderInv'
  <2>1. SenderInv'
    BY <1>1, <1>3, <1>5, FrameFacts DEF SenderInv
  <2> QED BY <1>1, <1>3, <1>4, <1>5, <2>1 DEF ConnInv, TypeOK, At
<1>11. Somewhere' = Somewhere \cup Served
  BY <1>7, <1>9 DEF Somewhere
<1>12. IssuedInv' /\ PresentInv'
  BY <1>1, <1>5, <1>11, PlacesAreKept
<1> QED BY <1>8, <1>9, <1>10, <1>12 DEF ConnInv

-----------------------------------------------------------------------------
(* ConnQueue: the steps of writeLoop and of close *)

LEMMA WriteSucceedsKeeps ==
  ASSUME ConnInv, WriteSucceeds
  PROVE  ConnInv'
<1>1. /\ loop = "write" /\ writing # Nobody /\ writing \in Frame
      /\ wire' = Append(wire, writing) /\ writing' = Nobody /\ loop' = "take"
      /\ UNCHANGED <<queue, parked, done, pc, sent, held>>
  BY DEF WriteSucceeds, ConnInv, SenderInv, TypeOK
<1>2. InLoop = {writing} /\ InLoop' = {} /\ Queued' = Queued
  BY <1>1 DEF InLoop, Queued
<1>3. wire \in Seq(Frame) /\ InOrder(wire) /\ \A y \in Range(wire) : Precedes(y, writing)
  BY <1>2 DEF ConnInv, TypeOK, OrderInv, OnWire
<1>4. wire' \in Seq(Frame) /\ InOrder(wire') /\ OnWire' = OnWire \cup {writing}
  BY <1>1, <1>3, AppendInOrder DEF OnWire
<1>5. OrderInv' /\ Line' = Line
  BY <1>1, <1>2, <1>4 DEF ConnInv, OrderInv, Line
<1>6. HandInv' /\ Somewhere' = Somewhere
  BY <1>1, <1>5 DEF ConnInv, HandInv, Somewhere, InHand
<1>7. TypeOK' /\ SenderInv'
  BY <1>1, <1>4 DEF ConnInv, TypeOK, SenderInv
<1>8. IssuedInv' /\ PresentInv'
  BY <1>1, <1>6 DEF ConnInv, IssuedInv, PresentInv, Issued
<1> QED BY <1>5, <1>6, <1>7, <1>8 DEF ConnInv

LEMMA LoopExitsKeeps ==
  ASSUME ConnInv, LoopExits
  PROVE  ConnInv'
<1>1. /\ loop = "take" /\ loop' = "gone"
      /\ UNCHANGED <<queue, parked, done, pc, sent, held, writing, wire>>
  BY DEF LoopExits
<1>2. OrderInv' /\ HandInv' /\ Somewhere' = Somewhere
  BY <1>1, NothingMoves
<1>3. TypeOK' /\ SenderInv'
  BY <1>1 DEF ConnInv, TypeOK, SenderInv
<1>4. IssuedInv' /\ PresentInv'
  BY <1>1, <1>2 DEF ConnInv, IssuedInv, PresentInv, Issued
<1> QED BY <1>2, <1>3, <1>4 DEF ConnInv

\* The connection is closed, and at most what writeLoop was writing is gone.
LEMMA CloseKeeps ==
  ASSUME ConnInv, CloseThen(pc), UNCHANGED <<queue, sent, held, wire>>,
         \/ UNCHANGED <<loop, writing>>
         \/ writing' = Nobody /\ loop' = "gone"
  PROVE  ConnInv'
<1>1. pc \in [Senders -> At]
  BY DEF ConnInv, TypeOK, At
<1>2. /\ done' = TRUE /\ parked' = <<>> /\ pc' \in [Senders -> At]
      /\ \A f \in Forwarders : pc'[f] = pc[f]
      /\ \A s \in Senders : pc'[s] # "idle" => sent'[s] > 0
      /\ \A s \in Senders : Issued(s)' \in Nat /\ Issued(s) <= Issued(s)'
  BY <1>1, ClosedSenders
<1>3. OnWire' = OnWire /\ InLoop' \subseteq InLoop /\ Queued' = Queued /\ InHand' = InHand
  BY DEF OnWire, InLoop, Queued, InHand
<1>4. OrderInv' /\ HandInv' /\ Somewhere' \subseteq Somewhere
  BY <1>3 DEF ConnInv, OrderInv, HandInv, Somewhere, Line, IsAudio
<1>5. TypeOK' /\ SenderInv'
  BY <1>2 DEF ConnInv, TypeOK, SenderInv, At
<1>6. IssuedInv' /\ PresentInv'
  <2> DEFINE New == {}
  <2>1. Somewhere' \subseteq Somewhere \cup New /\ \A y \in New : y.n <= Issued(y.by)'
    BY <1>4
  <2> HIDE DEF New
  <2> QED BY <1>2, <2>1, PlacesAreKept
<1> QED BY <1>4, <1>5, <1>6 DEF ConnInv

LEMMA RequeueKeeps ==
  ASSUME ConnInv, NEW f \in Forwarders, Requeue(f)
  PROVE  ConnInv'
<1>1. /\ f \in Senders /\ f \notin Sessions /\ pc[f] = "requeue" /\ held[f] # Nobody
      /\ held' = [held EXCEPT ![f] = Nobody]
      /\ UNCHANGED <<sent, loop, writing, wire>>
  BY ConnAssumption DEF Requeue, Senders, ConnInv, TypeOK
<1>2. PICK h \in Frame : h = held[f] /\ \A y \in Line : Precedes(y, h)
  BY <1>1, HeldFrame
<1>3. /\ held' \in [Forwarders -> Frame \cup {Nobody}]
      /\ \A g \in Forwarders : held'[g] = IF g = f THEN Nobody ELSE held[g]
  BY <1>1 DEF ConnInv, TypeOK
<1>4. h # Nobody /\ h \in InHand /\ h \notin Line
      /\ \A g \in Forwarders : held[g] = h => g = f
  BY <1>1, <1>2 DEF InHand, ConnInv, HandInv
<1>5. InHand' = InHand \ {h}
  BY <1>2, <1>3, <1>4 DEF InHand
<1>6. CASE HasRoom /\ Enqueue(held[f]) /\ Move(f, "try") /\ UNCHANGED <<parked, done>>
  <2>1. /\ queue' \in Seq(Frame) /\ Len(queue') = Len(queue) + 1
        /\ OrderInv' /\ Line' = Line \cup {h}
    BY <1>1, <1>2, <1>6, Arrives DEF Enqueue
  <2>2. Len(queue') <= Depth
    BY <1>6, <2>1, ConnAssumption DEF HasRoom, ConnInv, TypeOK
  <2>3. /\ pc' \in [Senders -> At]
        /\ \A t \in Senders : pc'[t] = IF t = f THEN "try" ELSE pc[t]
        /\ \A i \in DOMAIN parked' : pc'[parked'[i]] = "parked"
        /\ \A i, j \in DOMAIN parked' : parked'[i] = parked'[j] => i = j
        /\ \A t \in Senders : pc'[t] # "idle" => sent'[t] > 0
        /\ \A t \in Senders : Issued(t)' = Issued(t)
    <3> DEFINE label == "try"
    <3>1. label \in At /\ pc' = [pc EXCEPT ![f] = label] /\ label # "idle"
      BY <1>6 DEF At, Move, Moved
    <3>2. /\ pc' \in [Senders -> At]
          /\ \A t \in Senders : pc'[t] = IF t = f THEN label ELSE pc[t]
          /\ \A i \in DOMAIN parked' : pc'[parked'[i]] = "parked"
          /\ \A i, j \in DOMAIN parked' : parked'[i] = parked'[j] => i = j
          /\ \A t \in Senders : pc'[t] # "idle" => sent'[t] > 0
          /\ \A t \in Senders : Issued(t)' = Issued(t)
      <4> HIDE DEF label
      <4> QED BY <1>1, <1>6, <3>1, OthersStay
    <3> QED BY <3>2
  <2>4. TypeOK' /\ SenderInv'
    <3>1. \A g \in Forwarders : held'[g] = Nobody <=> pc'[g] # "requeue"
      BY <1>3, <2>3 DEF ConnInv, TypeOK, Senders
    <3>2. SenderInv'
      BY <1>1, <2>3 DEF ConnInv, SenderInv
    <3> QED BY <1>1, <1>3, <1>6, <2>1, <2>2, <2>3, <3>1, <3>2 DEF ConnInv, TypeOK, At
  <2>5. HandInv'
    BY <1>2, <1>3, <1>4, <2>1 DEF ConnInv, HandInv, IsAudio
  <2>6. Somewhere' = Somewhere
    BY <1>4, <1>5, <2>1 DEF Somewhere
  <2>7. IssuedInv' /\ PresentInv'
    <3>1. IssuedInv'
      <4> SUFFICES ASSUME NEW x \in Somewhere PROVE x.n <= Issued(x.by)'
        BY <2>6 DEF IssuedInv
      <4>1. x.by \in Senders /\ x.n <= Issued(x.by)
        BY Places, FrameFacts DEF ConnInv, IssuedInv
      <4> QED BY <2>3, <4>1
    <3>2. PresentInv'
      <4> SUFFICES ASSUME ~done', NEW s \in Sessions, NEW n \in 1..Issued(s)'
                   PROVE  [by |-> s, n |-> n] \in Somewhere'
        BY DEF PresentInv
      <4>1. n \in 1..Issued(s)
        BY <2>3 DEF Senders
      <4> QED BY <1>6, <2>6, <4>1 DEF ConnInv, PresentInv
    <3> QED BY <3>1, <3>2
  <2> QED BY <2>1, <2>4, <2>5, <2>7 DEF ConnInv
<1>7. CASE CloseThen(Moved(f, "idle")) /\ UNCHANGED queue
  <2> DEFINE next == Moved(f, "idle")
  <2>1. /\ next \in [Senders -> At] /\ \A s \in Senders : next[s] = IF s = f THEN "idle" ELSE pc[s]
        /\ CloseThen(next)
    BY <1>1, <1>7 DEF Moved, ConnInv, TypeOK, At
  <2> HIDE DEF next
  <2>2. /\ done' = TRUE /\ parked' = <<>> /\ pc' \in [Senders -> At]
        /\ \A g \in Forwarders : pc'[g] = next[g]
        /\ \A s \in Senders : pc'[s] # "idle" => sent'[s] > 0
        /\ \A s \in Senders : Issued(s)' \in Nat /\ Issued(s) <= Issued(s)'
    BY <1>1, <2>1, ClosedSenders
  <2>3. OrderInv' /\ Line' = Line
    BY <1>1, <1>7 DEF ConnInv, OrderInv, Line, OnWire, InLoop, Queued
  <2>4. HandInv' /\ Somewhere' \subseteq Somewhere
    BY <1>3, <1>5, <2>3 DEF ConnInv, HandInv, IsAudio, Somewhere
  <2>5. TypeOK' /\ SenderInv'
    <3>1. \A g \in Forwarders : held'[g] = Nobody <=> pc'[g] # "requeue"
      BY <1>3, <2>1, <2>2 DEF ConnInv, TypeOK, Senders
    <3>2. SenderInv'
      BY <1>1, <2>2 DEF ConnInv, SenderInv
    <3> QED BY <1>1, <1>3, <1>7, <2>2, <3>1, <3>2 DEF ConnInv, TypeOK, At
  <2>6. IssuedInv' /\ PresentInv'
    <3> DEFINE New == {}
    <3>1. Somewhere' \subseteq Somewhere \cup New /\ \A y \in New : y.n <= Issued(y.by)'
      BY <2>4
    <3> HIDE DEF New
    <3> QED BY <2>2, <3>1, PlacesAreKept
  <2> QED BY <2>3, <2>4, <2>5, <2>6 DEF ConnInv
<1> QED BY <1>6, <1>7 DEF Requeue

-----------------------------------------------------------------------------
(* ConnQueue: the theorems *)

LEMMA ConnInvInitially == Init => ConnInv
<1> SUFFICES ASSUME Init PROVE ConnInv
  OBVIOUS
<1>1. Somewhere = {} /\ Line = {} /\ OnWire = {} /\ InLoop = {} /\ Queued = {}
  BY DEF Init, Somewhere, Line, OnWire, InLoop, Queued, InHand, Range
<1>2. TypeOK
  <2>1. /\ pc = [s \in Senders |-> "idle"] /\ sent = [s \in Senders |-> 0]
        /\ held = [f \in Forwarders |-> Nobody]
    BY DEF Init
  <2>2. \A s \in Senders : sent[s] <= BoundOf(s)
    BY <2>1, ConnAssumption DEF BoundOf
  <2>3. \A f \in Forwarders : held[f] = Nobody <=> pc[f] # "requeue"
    BY <2>1 DEF Senders
  <2>4. queue \in Seq(Frame) /\ Len(queue) <= Depth
    BY ConnAssumption DEF Init
  <2>5. parked \in Seq(Sessions) /\ wire \in Seq(Frame)
    BY DEF Init
  <2>6. /\ pc \in [Senders -> {"idle", "full", "parked", "try", "pop", "requeue"}]
        /\ sent \in [Senders -> Nat] /\ held \in [Forwarders -> Frame \cup {Nobody}]
    BY <2>1
  <2>7. done \in BOOLEAN /\ loop \in {"take", "write", "gone"} /\ writing \in Frame \cup {Nobody}
    BY DEF Init
  <2> QED BY <2>2, <2>3, <2>4, <2>5, <2>6, <2>7 DEF TypeOK
<1>3. SenderInv /\ OrderInv /\ HandInv
  BY <1>1 DEF Init, SenderInv, OrderInv, HandInv, InOrder
<1>4. \A s \in Senders : Issued(s) = 0
  BY DEF Init, Issued
<1>5. IssuedInv /\ PresentInv
  BY <1>1, <1>4 DEF IssuedInv, PresentInv, Senders
<1> QED BY <1>2, <1>3, <1>5 DEF ConnInv

LEMMA StepKeepsConnInv == ConnInv /\ [Next]_vars => ConnInv'
<1> SUFFICES ASSUME ConnInv, [Next]_vars PROVE ConnInv'
  OBVIOUS
<1>1. ASSUME NEW s \in Sessions, SendControl(s) PROVE ConnInv'
  BY <1>1, SendControlKeeps
<1>2. ASSUME NEW f \in Forwarders, SendAudio(f) PROVE ConnInv'
  BY <1>2, SendAudioKeeps
<1>3. ASSUME NEW s \in Senders, Continue(s) PROVE ConnInv'
  BY <1>3, AwaitRoomKeeps, TryAudioKeeps, PopHeadKeeps, PopNothingKeeps, RequeueKeeps DEF Continue
<1>4. ASSUME NEW s \in Sessions, ControlTimeout(s) PROVE ConnInv'
  BY <1>4, CloseKeeps DEF ControlTimeout
<1>5. CASE Loop
  <2>1. CASE WriteFails
    BY <2>1, CloseKeeps DEF WriteFails
  <2> QED BY <1>5, <2>1, TakeFrameKeeps, WriteSucceedsKeeps, LoopExitsKeeps DEF Loop
<1>6. CASE SessionEnds
  BY <1>6, CloseKeeps DEF SessionEnds
<1>7. CASE UNCHANGED vars
  <2>1. OrderInv' /\ HandInv' /\ Somewhere' = Somewhere
    BY <1>7, NothingMoves DEF vars
  <2>2. TypeOK' /\ SenderInv'
    BY <1>7 DEF ConnInv, TypeOK, SenderInv, vars
  <2>3. IssuedInv' /\ PresentInv'
    BY <1>7, <2>1 DEF ConnInv, IssuedInv, PresentInv, Issued, vars
  <2> QED BY <2>1, <2>2, <2>3 DEF ConnInv
<1> QED BY <1>1, <1>2, <1>3, <1>4, <1>5, <1>6, <1>7 DEF Next, Expire

\* conn.go: whatever the interleaving of senders, timeouts and writeLoop, the channel
\* keeps its capacity, every frame there is has its place in the order and one place
\* only, and control frames that were accepted are somewhere.
THEOREM QueueInvariant == Spec => []ConnInv
BY ConnInvInitially, StepKeepsConnInv, PTL DEF Spec

\* conn.go:76-139: the channel is never over its capacity, and a forwarder holds a frame
\* exactly between taking it out and putting it back.
THEOREM QueueTypes == Spec => []TypeOK
<1>1. ConnInv => TypeOK
  BY DEF ConnInv
<1> QED BY <1>1, QueueInvariant, PTL

\* What is on its way and was written is in order, and all of it.
LEMMA PipelineInOrder ==
  ASSUME ConnInv
  PROVE  Pipeline \in Seq(Frame) /\ InOrder(Pipeline) /\ Range(Pipeline) = Line
<1> DEFINE w == IF writing = Nobody THEN <<>> ELSE <<writing>>
<1>1. w \in Seq(Frame) /\ InOrder(w) /\ Range(w) = InLoop
  <2>1. CASE writing = Nobody
    BY <2>1 DEF InOrder, Range, InLoop
  <2>2. CASE writing # Nobody
    <3>1. writing \in Frame /\ w = <<writing>> /\ DOMAIN w = {1} /\ w[1] = writing
      BY <2>2 DEF ConnInv, TypeOK
    <3> HIDE DEF w
    <3>2. Range(w) = InLoop
      BY <2>2, <3>1 DEF Range, InLoop
    <3> QED BY <3>1, <3>2 DEF InOrder
  <2> QED BY <2>1, <2>2
<1> HIDE DEF w
<1>2. /\ wire \in Seq(Frame) /\ queue \in Seq(Frame) /\ InOrder(wire) /\ InOrder(queue)
      /\ \A x \in OnWire : \A y \in InLoop \cup Queued : Precedes(x, y)
      /\ \A x \in InLoop : \A y \in Queued : Precedes(x, y)
  BY DEF ConnInv, TypeOK, OrderInv
<1>3. wire \o w \in Seq(Frame) /\ InOrder(wire \o w) /\ Range(wire \o w) = OnWire \cup InLoop
  BY <1>1, <1>2, ConcatInOrder DEF OnWire
<1>4. /\ (wire \o w) \o queue \in Seq(Frame) /\ InOrder((wire \o w) \o queue)
      /\ Range((wire \o w) \o queue) = (OnWire \cup InLoop) \cup Queued
  <2> DEFINE u == wire \o w
  <2>1. \A x \in Range(u) : \A y \in Range(queue) : Precedes(x, y)
    BY <1>2, <1>3 DEF Queued
  <2>2. u \in Seq(Frame) /\ InOrder(u)
    BY <1>3
  <2> HIDE DEF u
  <2>3. /\ u \o queue \in Seq(Frame) /\ InOrder(u \o queue)
        /\ Range(u \o queue) = Range(u) \cup Queued
    BY <1>2, <2>1, <2>2, ConcatInOrder DEF Queued
  <2> QED BY <1>3, <2>3 DEF u
<1> QED BY <1>4 DEF Pipeline, Line, w

\* conn.go:19-20, 101-139: however often forwarders take control frames out and put them
\* back, no audio frame of a forwarder overtakes an older one.
THEOREM AudioStaysInOrder == Spec => []AudioInOrder
<1>1. ASSUME ConnInv PROVE AudioInOrder
  <2>1. InOrder(Pipeline) /\ DOMAIN Pipeline = 1..Len(Pipeline)
    BY <1>1, PipelineInOrder
  <2> QED BY <2>1 DEF AudioInOrder, InOrder, Precedes
<1> QED BY <1>1, QueueInvariant, PTL

\* conn.go:17-18, 76-139: as long as the connection is open, a control frame whose send
\* has returned exists exactly once.
THEOREM ControlFramesAreKept == Spec => []NoControlFrameLost
<1>1. ASSUME ConnInv PROVE NoControlFrameLost
  <2> SUFFICES ASSUME ~done, NEW s \in Sessions, NEW n \in 1..sent[s], Accepted(s, n)
               PROVE  Copies([by |-> s, n |-> n]) = 1
    BY DEF NoControlFrameLost
  <2>1. s \in Senders /\ sent[s] \in Nat /\ BoundOf(s) \in Nat /\ sent[s] <= BoundOf(s)
    BY <1>1, Places DEF Senders
  <2>2. n \in 1..Issued(s)
    BY <2>1 DEF Accepted, Issued
  <2> PICK x \in Frame : x = [by |-> s, n |-> n]
    <3>1. n \in 1..BoundOf(s)
      BY <2>1
    <3> QED BY <2>1, <3>1, FrameFacts
  <2>3. x \in Somewhere /\ x # Nobody
    BY <1>1, <2>2, FrameFacts DEF ConnInv, PresentInv
  <2> DEFINE P == {i \in DOMAIN Pipeline : Pipeline[i] = x}
             H == {a \in Forwarders : held[a] = x}
  <2>4. \A i, j \in P : i = j
    <3>1. InOrder(Pipeline) /\ DOMAIN Pipeline \subseteq Nat
      BY <1>1, PipelineInOrder
    <3>2. ASSUME NEW i \in P, NEW j \in P, i < j PROVE FALSE
      BY <3>1, <3>2 DEF InOrder, Precedes
    <3>3. \A i, j \in P : i \in Nat /\ j \in Nat
      BY <3>1
    <3> HIDE DEF P
    <3> QED BY <3>2, <3>3
  <2>5. x \in Line <=> P # {}
    BY <1>1, PipelineInOrder DEF Range
  <2>6. \A a, b \in H : a = b
    BY <1>1, <2>3 DEF ConnInv, HandInv
  <2>7. H # {} => x \notin Line
    BY <1>1, <2>3 DEF ConnInv, HandInv
  <2>8. x \notin Line => H # {}
    BY <2>3 DEF Somewhere, InHand
  <2>9. Copies(x) = Cardinality(P) + Cardinality(H)
    BY DEF Copies
  <2> HIDE DEF P, H
  <2>10. CASE x \in Line
    <3>1. PICK i : P = {i}
      BY <2>4, <2>5, <2>10
    <3>2. H = {}
      BY <2>7, <2>10
    <3>3. Cardinality(P) = 1 /\ Cardinality(H) = 0
      BY <3>1, <3>2, FS_Singleton, FS_EmptySet
    <3> QED BY <2>9, <3>3
  <2>11. CASE x \notin Line
    <3>1. PICK a : H = {a}
      BY <2>6, <2>8, <2>11
    <3>2. P = {}
      BY <2>5, <2>11
    <3>3. Cardinality(P) = 0 /\ Cardinality(H) = 1
      BY <3>1, <3>2, FS_Singleton, FS_EmptySet
    <3> QED BY <2>9, <3>3
  <2> QED BY <2>10, <2>11
<1> QED BY <1>1, QueueInvariant, PTL
================================================================================
