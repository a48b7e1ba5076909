----------------------------- MODULE MCRateLimiter -----------------------------
(* A small instance of RateLimiter: one client behind a trusted proxy, and *)
(* one that names that client without being trusted.                       *)
EXTENDS RateLimiter, TLC

CONSTANTS q1, q2, q3, alice, bob, proxy, noHeader, none

MCRequests == {q1, q2, q3}
MCTwo == {q1, q2}
MCAddresses == {alice, bob, proxy}
MCTrustedPeers == {proxy}
MCSources == {[peer |-> proxy, xff |-> alice], [peer |-> bob, xff |-> alice]}

Symmetry == Permutations(Requests)
===============================================================================
