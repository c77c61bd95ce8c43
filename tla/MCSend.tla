------------------------------- MODULE MCSend -------------------------------
(* Instances of the send store for TLC.  Ids are model values: sends,      *)
(* requests and tokens are each interchangeable among themselves.          *)
EXTENDS SendInvariant, TLC

Symmetric ==
    Permutations(Sends) \cup Permutations(Requests) \cup Permutations(Tokens)
=============================================================================
