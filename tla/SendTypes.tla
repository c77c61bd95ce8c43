----------------------------- MODULE SendTypes -----------------------------
(***************************************************************************)
(* The parameters shared by every module about the send store: identities  *)
(* as model values, durations as whole clock units, and the bounds that    *)
(* keep the instances finite.                                              *)
(***************************************************************************)
EXTENDS Integers, FiniteSets

CONSTANTS
    Sends,           \* send ids (NewSendID: a time and 80 random bits)
    Parts,           \* part ids a manifest may declare
    Requests,        \* goroutines serving requests at the same time
    Tokens,          \* redeem tokens (NewRedeemToken: 192 random bits)
    None,            \* no send, no part, no token
    Nobody,          \* owner of a temp file whose process has died
    TTLs,            \* lifetimes a create may ask for
    GrantTTL,        \* lifetime of a download grant (10 minutes)
    CreatingMaxAge,  \* age at which an unfinished send is stale (15 minutes)
    MaxTime,         \* bound: the clock stops here
    MaxFaults        \* bound: crashes, failed sweeps and failed purges

ASSUME IdsAssumption ==
    /\ None \notin Sends \cup Parts \cup Tokens
    /\ Nobody \notin Requests

ASSUME TimesAssumption ==
    /\ TTLs \subseteq Nat          \* whole seconds: one below a second is 0
    /\ GrantTTL \in Nat \ {0}
    /\ CreatingMaxAge \in Nat \ {0}
    /\ MaxTime \in Nat
    /\ MaxFaults \in Nat

Time == Nat
Null == -1                      \* SQL NULL in a time column

(* StorageKey: "<sendID>/<partID>"; the pair, which the '/' keeps injective. *)
Keys == Sends \X Parts
StorageKey(s, p) == <<s, p>>
SendOf(k) == k[1]
PartOf(k) == k[2]
KeysOf(s) == {s} \X Parts

(* A create declares at least one part, and none twice (handleCreate). *)
Manifests == (SUBSET Parts) \ {{}}
=============================================================================
