------------------------------ MODULE MCClient ------------------------------
(* Instances of the client and the API for TLC. *)
EXTENDS ClientInvariant, TLC

Symmetric ==
    Permutations(Sends) \cup Permutations(Tokens) \cup Permutations(Hosts)
    \cup Permutations(Loaders)
=============================================================================
