---------------------------- MODULE MCRateLimiter ----------------------------
(* RateLimiter and ClientAddress for TLC: two peers behind one address, and *)
(* a key that is charged alone and has a shorter window; and what address   *)
(* the requests are charged to that come directly or over a proxy or two.   *)
(* The limiter does not look into its keys, so that a request is on its way *)
(* only before the limiter is first used.                                   *)
EXTENDS RateLimiter, ClientAddress, TLC

CONSTANTS c1, c2, p1, p2, ip, hello

MCCallers == {c1, c2}
MCRequests == {[first |-> p1, second |-> ip, limit |-> 2, window |-> 3],
               [first |-> p2, second |-> ip, limit |-> 2, window |-> 3],
               [first |-> hello, second |-> hello, limit |-> 1, window |-> 2]}
CallersAlike == Permutations(MCCallers)

\* Two clients, one of which has an address of two spellings, two proxies, and a
\* client on the same link; in a header its address is no address.
MCTexts == {"192.0.2.9", "::ffff:192.0.2.9", "198.51.100.7", "127.0.0.1", "10.1.2.3", "fe80::1%eth0"}
MCZoned == {"fe80::1%eth0"}
MCCanonical ==
  [t \in MCTexts \ MCZoned |-> IF t = "::ffff:192.0.2.9" THEN "192.0.2.9" ELSE t]
MCTrusted == {"127.0.0.1", "10.1.2.3"}

MCInit == LimiterInit /\ RequestInit

MCNext ==
  \/ stage = "none" /\ LimiterNext /\ UNCHANGED request
  \/ LimiterInit /\ RequestNext /\ UNCHANGED limiterVars

MCSpec == MCInit /\ [][MCNext]_<<limiterVars, request>>
=============================================================================
