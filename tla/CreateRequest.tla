---------------------------- MODULE CreateRequest ----------------------------
(***************************************************************************)
(* Validation of POST /v1/sends: handleCreate (internal/api/handlers.go)   *)
(* under a configuration that config.validate accepted, up to the times    *)
(* CreateSend stores.  Durations are counted in ticks, Second of them to a *)
(* second (nanoseconds in the code); int64 arithmetic wraps modulo Word.   *)
(***************************************************************************)
EXTENDS Integers, Sequences

CONSTANTS
    DefaultTTL, MaxTTL, HardMaxTTL,             \* Config, in ticks
    MaxPartBytes, MaxTotalBytes, MaxPartCount,  \* Config, in bytes and parts
    Second,      \* time.Second
    Word,        \* 2^64
    PartIds,     \* ids a request may declare
    Sizes,       \* encrypted sizes it may state
    AskedTTLs,   \* ttl_seconds it may state
    Instants     \* when it may arrive, in ticks

(* config.validate *)
ValidConfig ==
    /\ DefaultTTL > 0 /\ MaxTTL > 0
    /\ MaxTTL <= HardMaxTTL
    /\ DefaultTTL <= MaxTTL
    /\ MaxPartBytes > 0
    /\ MaxPartBytes <= MaxTotalBytes
    /\ MaxPartCount > 0

Half == Word \div 2
Int64 == -Half .. Half - 1
Wrap(n) == ((n + Half) % Word) - Half

ASSUME ConfigAssumption ==
    /\ {DefaultTTL, MaxTTL, MaxPartBytes, MaxTotalBytes, MaxPartCount} \subseteq Int
    /\ ValidConfig

ASSUME WordAssumption ==
    /\ Word \in Nat /\ Word % 2 = 0
    /\ Second \in Nat \ {0}
    /\ HardMaxTTL \in Nat /\ HardMaxTTL < Half
    /\ MaxTotalBytes < Half
    /\ Sizes \cup AskedTTLs \subseteq Int64
    /\ Instants \subseteq Nat

(* A part declaration; a blank one lacks its id or its hash. *)
Declaration == [id : PartIds, blank : BOOLEAN, size : Sizes]

Versions == {"send.v1", "other"}

Request(parts) ==
    [readable : BOOLEAN, version : Versions, ttl : AskedTTLs, parts : {parts}]

VARIABLES
    req,     \* the decoded body
    arrived, \* when it arrived
    step,    \* "decode", "ttl", "parts" or "done"
    index,   \* next part of the loop
    seen,    \* part ids so far
    total,   \* their sizes so far
    ttl,     \* lifetime granted
    stored,  \* <<created_at, expires_at>>, in seconds
    answer   \* error code, or "CREATED"

createVars == <<req, arrived, step, index, seen, total, ttl, stored, answer>>

CreateInit ==
    /\ \E parts \in UNION {[1 .. n -> Declaration] : n \in 0 .. MaxPartCount + 1} :
        req \in Request(parts)
    /\ arrived \in Instants
    /\ step = "decode"
    /\ index = 1
    /\ seen = {}
    /\ total = 0
    /\ ttl = 0
    /\ stored = <<0, 0>>
    /\ answer = "none"

(* The sum of n sizes within their cap is an int64: true of the default    *)
(* caps, 64 parts of 25 MiB, but validate does not ask it of others.       *)
Fits(n) == n * MaxPartBytes < Half

CreateTypeOK ==
    /\ step \in {"decode", "ttl", "parts", "done"}
    /\ index \in 1 .. Len(req.parts) + 1
    /\ seen \subseteq PartIds
    /\ total \in Int64
    /\ Fits(index - 1) => total \in 0 .. (index - 1) * MaxPartBytes
    /\ ttl \in Int64
    /\ answer \in {"none", "CREATED", "BAD_REQUEST", "UNSUPPORTED_VERSION",
                   "PAYLOAD_TOO_LARGE"}

-----------------------------------------------------------------------------
Refuse(code) ==
    /\ answer' = code
    /\ step' = "done"
    /\ UNCHANGED <<req, arrived, index, seen, total, ttl, stored>>

Decode ==
    /\ step = "decode"
    /\ \/ ~req.readable /\ Refuse("BAD_REQUEST")
       \/ req.readable /\ req.version # "send.v1" /\ Refuse("UNSUPPORTED_VERSION")
       \/ /\ req.readable /\ req.version = "send.v1"
          /\ Len(req.parts) \notin 1 .. MaxPartCount
          /\ Refuse("BAD_REQUEST")
       \/ /\ req.readable /\ req.version = "send.v1"
          /\ Len(req.parts) \in 1 .. MaxPartCount
          /\ step' = "ttl"
          /\ UNCHANGED <<req, arrived, index, seen, total, ttl, stored, answer>>

(* time.Duration(req.TTLSeconds) * time.Second, or the default; the mutant *)
(* has no default.                                                         *)
Lifetime_AsAsked(asked) == Wrap(asked * Second)
Lifetime(asked) ==
    LET d == Wrap(asked * Second) IN IF d <= 0 THEN DefaultTTL ELSE d

CheckTTL ==
    /\ step = "ttl"
    /\ \/ Lifetime(req.ttl) > MaxTTL /\ Refuse("BAD_REQUEST")
       \/ /\ Lifetime(req.ttl) <= MaxTTL
          /\ ttl' = Lifetime(req.ttl)
          /\ step' = "parts"
          /\ UNCHANGED <<req, arrived, index, seen, total, stored, answer>>

Malformed(p) == p.blank \/ p.size <= 0

(* The mutant skips the declaration after this one. *)
Count_Skip(p) ==
    /\ seen' = seen \cup {p.id}
    /\ total' = Wrap(total + p.size)
    /\ index' = index + 2
    /\ UNCHANGED <<req, arrived, step, ttl, stored, answer>>
Count(p) ==
    /\ seen' = seen \cup {p.id}
    /\ total' = Wrap(total + p.size)
    /\ index' = index + 1
    /\ UNCHANGED <<req, arrived, step, ttl, stored, answer>>

(* One turn of the loop; the mutant accepts a part declared twice.         *)
CheckPart_Twice(p) ==
    \/ Malformed(p) /\ Refuse("BAD_REQUEST")
    \/ ~Malformed(p) /\ p.size > MaxPartBytes /\ Refuse("PAYLOAD_TOO_LARGE")
    \/ ~Malformed(p) /\ p.size <= MaxPartBytes /\ Count(p)
CheckPart(p) ==
    \/ (Malformed(p) \/ p.id \in seen) /\ Refuse("BAD_REQUEST")
    \/ /\ ~Malformed(p) /\ p.id \notin seen
       /\ \/ p.size > MaxPartBytes /\ Refuse("PAYLOAD_TOO_LARGE")
          \/ p.size <= MaxPartBytes /\ Count(p)

NextPart ==
    /\ step = "parts"
    /\ index <= Len(req.parts)
    /\ CheckPart(req.parts[index])

(* CreateSend stores whole seconds: now.Unix() and now.Add(ttl).Unix().    *)
Store ==
    /\ step = "parts"
    /\ index > Len(req.parts)
    /\ \/ total > MaxTotalBytes /\ Refuse("PAYLOAD_TOO_LARGE")
       \/ /\ total <= MaxTotalBytes
          /\ stored' = <<arrived \div Second, (arrived + ttl) \div Second>>
          /\ answer' = "CREATED"
          /\ step' = "done"
          /\ UNCHANGED <<req, arrived, index, seen, total, ttl>>

Answered == step = "done" /\ UNCHANGED createVars

CreateNext == Decode \/ CheckTTL \/ NextPart \/ Store \/ Answered

CreateSpec == CreateInit /\ [][CreateNext]_createVars

-----------------------------------------------------------------------------
(* What a create request should be, said without a loop, an order of       *)
(* checks or int64: its parts are few, distinct, well-formed, small, and   *)
(* small together: there are running sums of their sizes within the cap.   *)
Adds(sums, parts, n) ==
    /\ sums[0] = 0
    /\ \A i \in 1 .. n : sums[i] = sums[i - 1] + parts[i].size

FitIn(parts, cap) ==
    \E sums \in [0 .. Len(parts) -> 0 .. cap] : Adds(sums, parts, Len(parts))

FitTogether(parts) == FitIn(parts, MaxTotalBytes)

PartsWellFormed(r) ==
    /\ r.readable /\ r.version = "send.v1"
    /\ Len(r.parts) \in 1 .. MaxPartCount
    /\ \A i \in DOMAIN r.parts :
        /\ ~r.parts[i].blank
        /\ r.parts[i].size \in 1 .. MaxPartBytes
        /\ \A j \in DOMAIN r.parts : i # j => r.parts[i].id # r.parts[j].id

WellFormed(r) == PartsWellFormed(r) /\ FitTogether(r.parts)

(* A request is accepted if it is well-formed and its lifetime, as the     *)
(* server computes it, is within the maximum; and only then, but for parts *)
(* whose sizes add up to more than an int64 holds (handleCreate).          *)
AcceptsWellFormed ==
    step = "done" =>
        /\ WellFormed(req) /\ Lifetime(req.ttl) <= MaxTTL => answer = "CREATED"
        /\ answer = "CREATED" =>
            /\ PartsWellFormed(req) /\ Lifetime(req.ttl) <= MaxTTL
            /\ FitTogether(req.parts) \/ ~FitIn(req.parts, Half - 1)

(* However many seconds were asked for, what is stored never expires       *)
(* before it was created nor after the configured maximum; and it is not   *)
(* born expired if a whole second was asked for and did not wrap.          *)
StoredLifetime ==
    answer = "CREATED" =>
        LET life == stored[2] - stored[1] IN
        /\ life >= 0
        /\ life * Second < MaxTTL + Second
        /\ req.ttl * Second \in 1 .. MaxTTL => life >= req.ttl

(* backend-http-api.spec.md:42: the server MUST validate ttl <= max; so a  *)
(* request for more is refused.                                            *)
LongTTLRefused == answer = "CREATED" => req.ttl * Second <= MaxTTL
=============================================================================
