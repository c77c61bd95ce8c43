---------------------------- MODULE RateLimiter ----------------------------
(***************************************************************************)
(* The in-memory token-bucket limiter (internal/ratelimit/ratelimit.go)    *)
(* that the API asks before it serves a request.  Allow runs under the     *)
(* limiter's mutex and reads the clock there, so a call is one step.       *)
(*                                                                         *)
(* The code counts tokens in float64 at a rate of perWindow / window; here *)
(* a token is Window units and PerWindow units arrive per unit of time, so *)
(* that a refill is exact.  A limiter with PerWindow = 0 is disabled and   *)
(* allows everything; it is not modelled.                                  *)
(***************************************************************************)
EXTENDS Integers, FiniteSets

CONSTANTS
    Clients,     \* hashed client addresses
    PerWindow,   \* events a client may make per window, and its burst
    Window,      \* length of the window
    MaxKeys,     \* maxKeys: buckets held before eviction is tried
    NoReply,     \* nobody has been answered since the clock moved
    MaxTime      \* bound: the clock stops here

ASSUME LimitsAssumption ==
    /\ PerWindow \in Nat \ {0}
    /\ Window \in Nat \ {0}
    /\ MaxKeys \in Nat \ {0}
    /\ MaxTime \in Nat
    /\ NoReply \notin Clients \X BOOLEAN

VARIABLES
    now,       \* the clock behind l.now()
    known,     \* keys of l.buckets
    tokens,    \* units in each bucket; not read for a key that is not known
    last,      \* when each bucket was last refilled; likewise
    reply,     \* observation: last answer since the clock moved
    spent      \* history: units spent by a client since each instant

rateVars == <<now, known, tokens, last, reply, spent>>

Instants == 0 .. MaxTime
Burst == PerWindow * Window

RateTypeOK ==
    /\ now \in Instants
    /\ known \subseteq Clients
    /\ tokens \in [Clients -> 0 .. Burst]
    /\ last \in [Clients -> Instants]
    /\ reply \in (Clients \X BOOLEAN) \cup {NoReply}
    /\ spent \in [Clients -> [Instants -> Nat]]

RateInit ==
    /\ now = 0
    /\ known = {}
    /\ tokens = [c \in Clients |-> 0]
    /\ last = [c \in Clients |-> 0]
    /\ reply = NoReply
    /\ spent = [c \in Clients |-> [t \in Instants |-> 0]]

-----------------------------------------------------------------------------
(* What bucket c holds once the time since its last use is credited; the   *)
(* mutant forgets that it holds a burst at most.                           *)
Refilled_Uncapped(c) == tokens[c] + (now - last[c]) * PerWindow
Refilled(c) ==
    LET sum == tokens[c] + (now - last[c]) * PerWindow
    IN  IF sum <= Burst THEN sum ELSE Burst

(* Idle long enough to have refilled; the mutant is a unit impatient. *)
Idle_Early(c) == now - last[c] >= Window - 1
Idle(c) == now - last[c] >= Window

(* What eviction leaves, when the map is full enough to try it; the mutant *)
(* never tries.                                                            *)
Kept_Never == known
Kept ==
    IF Cardinality(known) >= MaxKeys THEN {c \in known : ~Idle(c)} ELSE known

Spend(c, left) ==
    /\ tokens' = [tokens EXCEPT ![c] = left]
    /\ last' = [last EXCEPT ![c] = now]
    /\ reply' = <<c, TRUE>>
    /\ spent' = [spent EXCEPT ![c] =
                   [t \in Instants |-> IF t <= now THEN @[t] + Window ELSE @[t]]]

(* Allow, first event of a key: its bucket is created, full less one. *)
AllowNew(c) ==
    /\ c \notin known
    /\ known' = Kept \cup {c}
    /\ Spend(c, Burst - Window)
    /\ UNCHANGED now

(* Allow, a key with a token left; the mutant takes one it has not got. *)
AllowKnown_Unchecked(c) ==
    /\ c \in known
    /\ Spend(c, Refilled(c) - Window)
    /\ UNCHANGED <<now, known>>
AllowKnown(c) ==
    /\ c \in known
    /\ Refilled(c) >= Window
    /\ Spend(c, Refilled(c) - Window)
    /\ UNCHANGED <<now, known>>

(* Allow, a key without: the refill is stored all the same. *)
Deny(c) ==
    /\ c \in known
    /\ Refilled(c) < Window
    /\ tokens' = [tokens EXCEPT ![c] = Refilled(c)]
    /\ last' = [last EXCEPT ![c] = now]
    /\ reply' = <<c, FALSE>>
    /\ UNCHANGED <<now, known, spent>>

RateTick ==
    /\ now < MaxTime
    /\ now' = now + 1
    /\ reply' = NoReply
    /\ UNCHANGED <<known, tokens, last, spent>>

RateNext ==
    \/ \E c \in Clients : AllowNew(c) \/ AllowKnown(c) \/ Deny(c)
    \/ RateTick

RateSpec == RateInit /\ [][RateNext]_rateVars

-----------------------------------------------------------------------------
(* What a client could spend now. *)
Credit(c) == IF c \in known THEN Refilled(c) ELSE Burst

(* The rate holds over every interval, not only over aligned windows: from *)
(* any instant t to now a client is allowed a burst and what refills since *)
(* then, and no more, although its bucket is dropped and recreated full.   *)
RateBound ==
    \A c \in Clients, t \in Instants :
        t <= now => spent[c][t] <= Burst + (now - t) * PerWindow

(* ... because what it spent and what it could spend are bounded together. *)
RateInv ==
    /\ RateTypeOK
    /\ \A c \in Clients : last[c] <= now
    /\ \A c \in Clients, t \in Instants :
        IF t <= now
        THEN spent[c][t] + Credit(c) <= Burst + (now - t) * PerWindow
        ELSE spent[c][t] = 0

(* ratelimit.go:71: "dropping them changes nothing observable": every      *)
(* answer is the one RateContract gives, which forgets no client.          *)
Ideal == INSTANCE RateContract WITH
    credit <- [c \in Clients |-> Credit(c)],
    Cost <- Window,
    Refill <- PerWindow
EvictionUnobservable == Ideal!RSpec

(* A new key is inserted whether or not eviction has made room for it, so  *)
(* the map is not capped at MaxKeys, as ratelimit.go:2 has it.  But it     *)
(* grows beyond that only while every client in it was seen within the     *)
(* last window: the busy clients of a window bound it, not all there were. *)
GrowsOnlyBusy ==
    [][Cardinality(known') > MaxKeys /\ known' # known =>
          \A c \in known' : now - last'[c] < Window]_rateVars
=============================================================================
