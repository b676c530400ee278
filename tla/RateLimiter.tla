------------------------------ MODULE RateLimiter ------------------------------
(***************************************************************************)
(* The fixed-window limiter of internal/ratelimit/limiter.go, shared by    *)
(* every session: Allow(k) and AllowPair(k, l), which charges a peer's and *)
(* its address's budget together.                                          *)
(*                                                                         *)
(* A caller reads the clock before it takes the mutex, so the time it      *)
(* decides with may be older than the time another caller has already      *)
(* used.  The whole decision, with the removal of expired entries when the *)
(* map is full or on every 1024th admission, is one critical section.      *)
(*                                                                         *)
(* Allow(k) is the pair (k, k): the two functions then decide and charge   *)
(* alike.  A limit of zero admits everything and never gets here.          *)
(***************************************************************************)
EXTENDS Integers, FiniteSets, Sequences, Functions

CONSTANTS
  Callers,      \* goroutines
  Requests,     \* what they ask: records [first, second, limit, window]
  MaxEntries,   \* maxEntries
  CleanupEvery, \* 1024: admissions between two cleanups
  LagBound,     \* bound: ticks from reading the clock to taking the mutex
  ClockBound    \* bound: the clock

Keys == {q.first : q \in Requests} \cup {q.second : q \in Requests}

ASSUME LimiterAssumption ==
  /\ \A q \in Requests : q.window \in Nat \ {0} /\ q.limit \in Nat \ {0}
  /\ \A q, r \in Requests :
       {q.first, q.second} \cap {r.first, r.second} # {} =>
         q.window = r.window /\ q.limit = r.limit
  /\ MaxEntries \in Nat \ {0}
  /\ CleanupEvery \in Nat \ {0}
  /\ LagBound \in Nat
  /\ ClockBound \in Nat

VARIABLES
  clock,    \* the time
  asking,   \* [Callers -> a request with the clock it read, or Nothing]
  entries,  \* the map: keys to [resetAt, count]
  calls,    \* admissions since the last cleanup, modulo CleanupEvery
  admitted, \* history: [Keys -> Seq(0..ClockBound)]: when it was admitted, in order
  charged   \* history: [Keys -> Nat]: admissions since the key's entry was made

limiterVars == <<clock, asking, entries, calls, admitted, charged>>

Nothing == [now |-> -1]
Ticket == [now : 0..ClockBound, req : Requests]
Entry == [resetAt : Nat, count : Nat]

\* The limit and the window of a key: a key's requests have the same.
LimitOf(k) == (CHOOSE q \in Requests : k \in {q.first, q.second}).limit
WindowOf(k) == (CHOOSE q \in Requests : k \in {q.first, q.second}).window

\* Types; the map is bounded by maxEntries and a count by its limit.
LimiterTypeOK ==
  /\ clock \in 0..ClockBound
  /\ asking \in [Callers -> Ticket \cup {Nothing}]
  /\ DOMAIN entries \subseteq Keys
  /\ \A k \in DOMAIN entries : entries[k] \in Entry /\ entries[k].count \in 1..LimitOf(k)
  /\ Cardinality(DOMAIN entries) <= MaxEntries
  /\ calls \in 0..(CleanupEvery - 1)
  /\ admitted \in [Keys -> Seq(0..ClockBound)]
  /\ charged \in [Keys -> Nat]

LimiterInit ==
  /\ clock = 0
  /\ asking = [c \in Callers |-> Nothing]
  /\ entries = [k \in {} |-> Nothing]
  /\ calls = 0
  /\ admitted = [k \in Keys |-> <<>>]
  /\ charged = [k \in Keys |-> 0]

-----------------------------------------------------------------------------
\* l.now(), before the mutex is taken.
ReadClock(c, q) ==
  /\ asking[c] = Nothing
  /\ asking' = [asking EXCEPT ![c] = [now |-> clock, req |-> q]]
  /\ UNCHANGED <<clock, entries, calls, admitted, charged>>

\* Time passes, but nobody waits for the mutex longer than LagBound.
Tick ==
  /\ clock < ClockBound
  /\ \A c \in Callers : asking[c] # Nothing => clock - asking[c].now < LagBound
  /\ clock' = clock + 1
  /\ UNCHANGED <<asking, entries, calls, admitted, charged>>

-----------------------------------------------------------------------------
(* The critical section *)

Expired_OneEarly(m, k, now) == now >= m[k].resetAt - 1
Expired(m, k, now) == now >= m[k].resetAt

\* cleanupExpired
Unexpired(m, now) == Restrict(m, {k \in DOMAIN m : ~Expired(m, k, now)})

\* currentEntry for the keys of a request: an expired entry is deleted.
Looked(ks, now) ==
  Restrict(entries, {k \in DOMAIN entries : k \in ks => ~Expired(entries, k, now)})

CountIn(m, k) == IF k \in DOMAIN m THEN m[k].count ELSE 0

\* ensureCapacity: the map after it, which is full still if nothing has expired.
Roomy(m, needed, now) ==
  IF needed = 0 \/ Cardinality(DOMAIN m) + needed <= MaxEntries THEN m ELSE Unexpired(m, now)

\* What happens to the keys that are charged.
Charge(m, ks, now, window) ==
  [k \in DOMAIN m \cup ks |->
     IF k \notin ks THEN m[k]
     ELSE IF k \in DOMAIN m THEN [m[k] EXCEPT !.count = @ + 1]
     ELSE [resetAt |-> now + window, count |-> 1]]

\* afterConsume
AfterConsume(m, now) == IF (calls + 1) % CleanupEvery = 0 THEN Unexpired(m, now) ELSE m

Exhausted_FirstOnly(m, q) == CountIn(m, q.first) >= q.limit
Exhausted(m, q) == \E k \in {q.first, q.second} : CountIn(m, k) >= q.limit

\* What a refusal leaves in the map: it charges neither key.
Refused_ChargesFirst(m, q, now) ==
  IF CountIn(m, q.first) < q.limit
  THEN Charge(m, {q.first}, now, q.window) ELSE m
Refused(m, q, now) == m

Answered(c) == asking' = [asking EXCEPT ![c] = Nothing]

\* A budget is exhausted.
Refuse(c) ==
  LET now == asking[c].now
      q == asking[c].req
      m == Looked({q.first, q.second}, now) IN
  /\ asking[c] # Nothing
  /\ Exhausted(m, q)
  /\ entries' = Refused(m, q, now)
  /\ Answered(c)
  /\ UNCHANGED <<clock, calls, admitted, charged>>

Decide(c) ==
  LET now == asking[c].now
      q == asking[c].req
      ks == {q.first, q.second}
      m == Looked(ks, now)
      fresh == ks \ DOMAIN m
      roomy == Roomy(m, Cardinality(fresh), now) IN
  /\ asking[c] # Nothing
  /\ ~Exhausted(m, q)
  /\ Answered(c)
  /\ IF Cardinality(DOMAIN roomy) + Cardinality(fresh) <= MaxEntries
     THEN /\ entries' = AfterConsume(Charge(roomy, ks, now, q.window), now)
          /\ calls' = (calls + 1) % CleanupEvery
          /\ admitted' = [k \in Keys |->
               IF k \in ks THEN Append(admitted[k], clock) ELSE admitted[k]]
          /\ charged' = [k \in Keys |->
               IF k \in fresh THEN 1 ELSE IF k \in ks THEN charged[k] + 1 ELSE charged[k]]
     ELSE /\ entries' = roomy
          /\ UNCHANGED <<calls, admitted, charged>>
  /\ UNCHANGED clock

LimiterNext ==
  \/ \E c \in Callers :
       \/ \E q \in Requests : ReadClock(c, q)
       \/ Refuse(c)
       \/ Decide(c)
  \/ Tick

LimiterSpec == LimiterInit /\ [][LimiterNext]_limiterVars

-----------------------------------------------------------------------------
(* Safety *)

AdmittedIn(k, first, last) ==
  Cardinality({i \in DOMAIN admitted[k] : admitted[k][i] \in first..last})

\* No key is admitted more often than a fixed window allows, twice the limit
\* across a boundary, in any span of its window less the time a caller may have
\* waited for the mutex: whatever cleanups, other keys' windows and stale clocks
\* do, a budget is not forgotten early (limiter.go:102-135).
BudgetHolds ==
  \A k \in Keys, t \in 0..ClockBound :
    AdmittedIn(k, t, t + WindowOf(k) - LagBound - 1) <= 2 * LimitOf(k)

\* An entry counts the admissions since it was made, no more: a refused pair has
\* charged neither key (limiter.go:52-54), and no fewer.
CountsAreAdmissions ==
  \A k \in DOMAIN entries : entries[k].count = charged[k]
=============================================================================
