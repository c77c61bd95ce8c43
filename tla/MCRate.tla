------------------------------- MODULE MCRate -------------------------------
(* Instances of the rate limiter for TLC; clients are interchangeable. *)
EXTENDS RateLimiter, TLC

SymmetricClients == Permutations(Clients)
=============================================================================
