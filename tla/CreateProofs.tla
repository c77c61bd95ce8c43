---------------------------- MODULE CreateProofs ----------------------------
(***************************************************************************)
(* What create validation stores, for every configuration it accepts,      *)
(* every width of the integers and every request.                          *)
(***************************************************************************)
EXTENDS CreateRequest, TLAPS

-----------------------------------------------------------------------------
(* Arithmetic: whole seconds of a time, and int64.                         *)

LEMMA WholeSeconds ==
    ASSUME NEW n \in Nat
    PROVE  /\ n \div Second \in Nat
           /\ Second * (n \div Second) <= n
           /\ n < Second * (n \div Second) + Second
  BY WordAssumption

LEMMA WrapFits ==
    ASSUME NEW n \in Int, -Half <= n, n < Half
    PROVE  Wrap(n) = n
  BY WordAssumption DEF Wrap, Half

LEMMA WrapType ==
    ASSUME NEW n \in Int
    PROVE  Wrap(n) \in Int64 /\ Wrap(n) \in Int
  <1>1. Half \in Nat /\ Word = 2 * Half
    BY WordAssumption DEF Half
  <1>2. CASE Word = 0
    BY <1>1, <1>2, WordAssumption, ConfigAssumption DEF ValidConfig
  <1>3. CASE Word > 0
    BY <1>1, <1>3 DEF Wrap, Int64
  <1> QED
    BY <1>1, <1>2, <1>3

(* The lifetime granted is positive; and what was asked for, when that is  *)
(* a number of seconds within the maximum.                                 *)
LEMMA LifetimeGranted ==
    ASSUME NEW asked \in Int
    PROVE  /\ Lifetime(asked) \in Int
           /\ Lifetime(asked) > 0
           /\ asked * Second \in 1 .. MaxTTL => Lifetime(asked) = asked * Second
  <1>1. asked * Second \in Int
    BY WordAssumption
  <1>2. Wrap(asked * Second) \in Int
    BY <1>1, WrapType
  <1>3. ASSUME asked * Second \in 1 .. MaxTTL
        PROVE  Wrap(asked * Second) = asked * Second
    <2>1. asked * Second < Half /\ -Half <= asked * Second
      BY <1>1, <1>3, WordAssumption, ConfigAssumption DEF ValidConfig, Half
    <2> QED
      BY <1>1, <2>1, WrapFits
  <1> QED
    BY <1>1, <1>2, <1>3, ConfigAssumption DEF Lifetime, ValidConfig

LEMMA LifetimeFits ==
    ASSUME NEW asked \in Int
    PROVE  Lifetime(asked) \in Int64
  <1>1. Wrap(asked * Second) \in Int64
    BY WordAssumption, WrapType
  <1>2. DefaultTTL \in Int64
    BY ConfigAssumption, WordAssumption DEF ValidConfig, Int64, Half
  <1> QED
    BY <1>1, <1>2 DEF Lifetime

-----------------------------------------------------------------------------
(* What the checks have established by the time the times are stored.      *)
Granted ==
    /\ ttl = Lifetime(req.ttl)
    /\ ttl <= MaxTTL

CreateInv ==
    /\ arrived \in Nat
    /\ req.ttl \in Int
    /\ step # "done" => answer = "none"
    /\ step = "parts" => Granted
    /\ answer = "CREATED" =>
        /\ Granted
        /\ stored = <<arrived \div Second, (arrived + ttl) \div Second>>

LEMMA CreateInvStep == CreateInv /\ [CreateNext]_createVars => CreateInv'
  <1> SUFFICES ASSUME CreateInv, [CreateNext]_createVars
               PROVE  CreateInv'
    OBVIOUS
  <1> USE DEF CreateInv, Granted
  <1>1. ASSUME NEW code \in {"BAD_REQUEST", "UNSUPPORTED_VERSION",
                             "PAYLOAD_TOO_LARGE"},
               Refuse(code)
        PROVE  CreateInv'
    BY <1>1 DEF Refuse
  <1>2. CASE Decode
    BY <1>1, <1>2 DEF Decode
  <1>3. CASE CheckTTL
    BY <1>1, <1>3 DEF CheckTTL
  <1>4. CASE NextPart
    <2>1. CASE Count(req.parts[index])
      BY <1>4, <2>1 DEF Count, NextPart
    <2> QED
      BY <1>1, <1>4, <2>1 DEF NextPart, CheckPart
  <1>5. CASE Store
    BY <1>1, <1>5 DEF Store
  <1>6. CASE UNCHANGED createVars
    BY <1>6 DEF createVars
  <1> QED
    BY <1>2, <1>3, <1>4, <1>5, <1>6 DEF CreateNext, Answered

(* From the invariant to the times: whole seconds lose less than one.      *)
LEMMA StoredInOrder == CreateInv => StoredLifetime
  <1> SUFFICES ASSUME CreateInv, answer = "CREATED"
               PROVE  LET life == stored[2] - stored[1] IN
                      /\ life >= 0
                      /\ life * Second < MaxTTL + Second
                      /\ req.ttl * Second \in 1 .. MaxTTL => life >= req.ttl
    BY DEF StoredLifetime
  <1> DEFINE a == arrived \div Second
             b == (arrived + ttl) \div Second
  <1>1. /\ ttl \in Nat /\ ttl > 0 /\ ttl <= MaxTTL
        /\ req.ttl * Second \in 1 .. MaxTTL => ttl = req.ttl * Second
    BY LifetimeGranted DEF CreateInv, Granted
  <1>2. /\ a \in Nat /\ Second * a <= arrived
        /\ arrived < Second * a + Second
    BY WholeSeconds DEF CreateInv
  <1>3. /\ b \in Nat /\ Second * b <= arrived + ttl
        /\ arrived + ttl < Second * b + Second
    BY <1>1, WholeSeconds DEF CreateInv
  <1>4. stored[1] = a /\ stored[2] = b
    BY DEF CreateInv
  <1> HIDE DEF a, b
  <1>5. arrived \in Nat /\ MaxTTL \in Int /\ Second \in Nat \ {0}
    BY WordAssumption, ConfigAssumption DEF CreateInv
  <1>6. Second * a < Second * (b + 1)
    BY <1>1, <1>2, <1>3, <1>5
  <1>7. a <= b
    BY <1>2, <1>3, <1>5, <1>6
  <1>8. (b - a) * Second < MaxTTL + Second
    BY <1>1, <1>2, <1>3, <1>5
  <1>9. ASSUME req.ttl * Second \in 1 .. MaxTTL
        PROVE  b - a >= req.ttl
    <2>1. req.ttl \in Int
      BY DEF CreateInv
    <2>2. Second * (a + req.ttl) < Second * (b + 1)
      BY <1>1, <1>2, <1>3, <1>5, <1>9, <2>1
    <2> QED
      BY <1>2, <1>3, <1>5, <2>1, <2>2
  <1> QED
    <2>1. stored[2] - stored[1] = b - a
      BY <1>4
    <2>2. b - a >= 0
      BY <1>2, <1>3, <1>7
    <2> QED
      BY <2>1, <2>2, <1>8, <1>9

LEMMA CreateInvInit == CreateInit => CreateInv
  BY WordAssumption DEF CreateInit, CreateInv, Request, Int64

(* What is stored never expires before it was created nor later than the   *)
(* maximum, and holds as long as was asked (handleCreate, CreateSend).     *)
THEOREM LifetimeInOrder == CreateSpec => []StoredLifetime
  BY CreateInvInit, CreateInvStep, StoredInOrder, PTL DEF CreateSpec

-----------------------------------------------------------------------------
(* The loop over the parts. *)

Parsed ==
    /\ req.readable /\ req.version = "send.v1"
    /\ Len(req.parts) \in 1 .. MaxPartCount

(* What the turns so far have established. *)
Checked ==
    /\ index \in 1 .. Len(req.parts) + 1
    /\ seen = {req.parts[i].id : i \in 1 .. index - 1}
    /\ \A i \in 1 .. index - 1 :
        /\ ~req.parts[i].blank
        /\ req.parts[i].size \in 1 .. MaxPartBytes
        /\ \A j \in 1 .. index - 1 : i # j => req.parts[i].id # req.parts[j].id

LoopInv ==
    /\ req.parts \in Seq(Declaration) /\ req.ttl \in Int
    /\ step \in {"decode", "ttl", "parts", "done"}
    /\ step \in {"decode", "ttl"} => index = 1 /\ seen = {} /\ total = 0
    /\ step \in {"ttl", "parts"} \/ answer = "CREATED" => Parsed
    /\ step = "parts" \/ answer = "CREATED" => Checked
    /\ answer = "CREATED" => index > Len(req.parts) /\ total <= MaxTotalBytes
    /\ step # "done" => answer = "none"
    /\ CreateTypeOK

(* As long as the parts fit an integer at their cap, so do their sizes.    *)
LEMMA SumFits ==
    ASSUME NEW n \in Nat, Fits(n + 1), NEW size \in 1 .. MaxPartBytes,
           NEW sum \in Int, Fits(n) => sum \in 0 .. n * MaxPartBytes
    PROVE  /\ sum \in Nat
           /\ Wrap(sum + size) = sum + size
           /\ sum + size \in 0 .. (n + 1) * MaxPartBytes
  <1> USE ConfigAssumption
  <1> MaxPartBytes \in Nat /\ n * MaxPartBytes \in Nat
    BY DEF ValidConfig
  <1>1. (n + 1) * MaxPartBytes = n * MaxPartBytes + MaxPartBytes
    OBVIOUS
  <1>2. Half \in Int /\ (n + 1) * MaxPartBytes < Half
    BY WordAssumption DEF Fits, Half
  <1>3. sum \in 0 .. n * MaxPartBytes
    BY <1>1, <1>2 DEF Fits
  <1>4. sum + size \in 0 .. (n + 1) * MaxPartBytes
    BY <1>1, <1>3
  <1>5. sum + size \in Int /\ -Half <= sum + size /\ sum + size < Half
    BY <1>2, <1>3, <1>4
  <1> QED
    BY <1>3, <1>4, <1>5, WrapFits

(* A part that passes the checks is well-formed, and its size is added     *)
(* without wrapping if so many parts fit.                                  *)
LEMMA PartCounts ==
    ASSUME LoopInv, step = "parts", index <= Len(req.parts),
           NEW p, p = req.parts[index], ~Malformed(p), p.size <= MaxPartBytes
    PROVE  /\ index \in 1 .. Len(req.parts) /\ p \in Declaration
           /\ p.size \in 1 .. MaxPartBytes /\ p.size \in Nat
           /\ ~p.blank /\ p.id \in PartIds
           /\ total \in Int
           /\ Fits(index) =>
                /\ total \in Nat
                /\ Wrap(total + p.size) = total + p.size
                /\ total + p.size \in 0 .. index * MaxPartBytes
  <1>1. Parsed /\ Checked
    BY DEF LoopInv
  <1>2. Len(req.parts) \in 1 .. MaxPartCount
    BY <1>1 DEF Parsed
  <1>3. /\ index \in 1 .. Len(req.parts) + 1
        /\ Fits(index - 1) => total \in 0 .. (index - 1) * MaxPartBytes
    BY <1>1 DEF Checked, LoopInv, CreateTypeOK
  <1>4. MaxPartCount \in Nat /\ MaxPartBytes \in Nat
    BY ConfigAssumption DEF ValidConfig
  <1>5. index \in 1 .. Len(req.parts) /\ index - 1 \in Nat
    BY <1>2, <1>3, <1>4
  <1>6. p \in Declaration
    BY <1>5 DEF LoopInv
  <1>7. Half \in Int /\ p.size \in Int64 /\ p.id \in PartIds
    BY <1>6, WordAssumption DEF Declaration, Half
  <1>8. p.size \in 1 .. MaxPartBytes /\ p.size \in Nat /\ ~p.blank
    BY <1>4, <1>7 DEF Int64, Malformed
  <1>9. total \in Int
    BY <1>7 DEF LoopInv, CreateTypeOK, Int64
  <1>10. PICK n \in Nat : n = index - 1 /\ n + 1 = index
    BY <1>5
  <1>11. Fits(index) =>
            /\ total \in Nat
            /\ Wrap(total + p.size) = total + p.size
            /\ total + p.size \in 0 .. (n + 1) * MaxPartBytes
    BY <1>3, <1>8, <1>9, <1>10, SumFits
  <1> QED
    BY <1>5, <1>6, <1>7, <1>8, <1>9, <1>10, <1>11

LEMMA LoopStep == LoopInv /\ [CreateNext]_createVars => LoopInv'
  <1> SUFFICES ASSUME LoopInv, [CreateNext]_createVars
               PROVE  LoopInv'
    OBVIOUS
  <1> USE DEF LoopInv, CreateTypeOK, Parsed, Checked
  <1>1. ASSUME NEW code \in {"BAD_REQUEST", "UNSUPPORTED_VERSION",
                             "PAYLOAD_TOO_LARGE"},
               Refuse(code)
        PROVE  LoopInv'
    BY <1>1 DEF Refuse
  <1>2. CASE Decode
    BY <1>1, <1>2 DEF Decode
  <1>3. CASE CheckTTL
    <2>1. CASE Lifetime(req.ttl) > MaxTTL /\ Refuse("BAD_REQUEST")
      BY <1>1, <2>1
    <2>2. CASE /\ Lifetime(req.ttl) <= MaxTTL
               /\ ttl' = Lifetime(req.ttl)
               /\ step' = "parts"
               /\ UNCHANGED <<req, arrived, index, seen, total, stored, answer>>
      <3>1. ttl' \in Int64
        BY <2>2, LifetimeFits
      <3>2. Checked'
        <4>1. index = 1 /\ seen = {} /\ total = 0 /\ Len(req.parts) \in Nat
          BY <1>3 DEF CheckTTL
        <4>2. 0 * MaxPartBytes = 0 /\ {req.parts[i].id : i \in 1 .. 0} = {}
          BY ConfigAssumption
        <4> QED
          BY <2>2, <4>1, <4>2
      <3> QED
        BY <1>3, <2>2, <3>1, <3>2 DEF CheckTTL
    <2> QED
      BY <1>3, <2>1, <2>2 DEF CheckTTL
  <1>4. CASE NextPart
    <2> DEFINE p == req.parts[index]
    <2>1. CASE \E code \in {"BAD_REQUEST", "PAYLOAD_TOO_LARGE"} : Refuse(code)
      BY <1>1, <2>1
    <2>2. CASE /\ ~Malformed(p) /\ p.id \notin seen
               /\ p.size <= MaxPartBytes /\ Count(p)
      <3>1. /\ step = "parts" /\ index \in 1 .. Len(req.parts)
            /\ p \in Declaration
            /\ p.size \in 1 .. MaxPartBytes /\ p.size \in Nat
            /\ ~p.blank /\ p.id \in PartIds
            /\ total \in Int
            /\ Fits(index) =>
                /\ Wrap(total + p.size) = total + p.size
                /\ total + p.size \in 0 .. index * MaxPartBytes
        <4> HIDE DEF LoopInv, p
        <4>1. step = "parts" /\ index <= Len(req.parts)
          BY <1>4 DEF NextPart
        <4> QED
          BY <2>2, <4>1, PartCounts DEF p
      <3>3. Fits(index) => total' \in 0 .. index * MaxPartBytes
        BY <2>2, <3>1 DEF Count
      <3>4. total' \in Int64
        <4>1. total + p.size \in Int
          BY <3>1
        <4> QED
          BY <2>2, <4>1, WrapType DEF Count
      <3>5. /\ index' = index + 1 /\ seen' = seen \cup {p.id}
            /\ UNCHANGED <<req, arrived, step, ttl, stored, answer>>
        BY <2>2 DEF Count
      <3>6. seen' = {req.parts[i].id : i \in 1 .. index}
        BY <3>1, <3>5
      <3>7. \A i \in 1 .. index :
              /\ ~req.parts[i].blank
              /\ req.parts[i].size \in 1 .. MaxPartBytes
              /\ \A j \in 1 .. index :
                    i # j => req.parts[i].id # req.parts[j].id
        <4>1. \A i \in 1 .. index - 1 : req.parts[i].id # p.id
          BY <2>2, <3>1
        <4>2. \A i \in 1 .. index : i = index \/ i \in 1 .. index - 1
          BY <3>1
        <4> QED
          BY <3>1, <4>1, <4>2
      <3>8. Checked'
        <4>1. index' - 1 = index /\ index' \in 1 .. Len(req.parts) + 1
          BY <3>1, <3>5
        <4>2. req' = req
          BY <3>5
        <4> HIDE DEF LoopInv, p
        <4> QED
          BY <3>6, <3>7, <4>1, <4>2
      <3>9. Fits(index' - 1) => total' \in 0 .. (index' - 1) * MaxPartBytes
        <4>1. index' - 1 = index
          BY <3>1, <3>5
        <4> QED
          BY <3>3, <4>1
      <3> QED
        BY <3>1, <3>4, <3>5, <3>8, <3>9 DEF Fits
    <2>3. CheckPart(p)
      BY <1>4 DEF NextPart
    <2> QED
      BY <2>1, <2>2, <2>3 DEF CheckPart
  <1>5. CASE Store
    BY <1>1, <1>5 DEF Store
  <1>6. CASE UNCHANGED createVars
    BY <1>6 DEF createVars
  <1> QED
    BY <1>2, <1>3, <1>4, <1>5, <1>6 DEF CreateNext, Answered

LEMMA LoopInit == CreateInit => LoopInv
  <1> SUFFICES ASSUME CreateInit
               PROVE  LoopInv
    OBVIOUS
  <1>1. PICK parts \in UNION {[1 .. n -> Declaration] : n \in 0 .. MaxPartCount + 1} :
            req \in Request(parts)
    BY DEF CreateInit
  <1>2. parts \in Seq(Declaration)
    <2>1. PICK n \in 0 .. MaxPartCount + 1 : parts \in [1 .. n -> Declaration]
      BY <1>1
    <2> QED
      BY <2>1, ConfigAssumption
  <1>3. req.parts = parts /\ req.ttl \in Int
    BY <1>1, WordAssumption DEF Request, Int64
  <1>4. 0 \in Int64
    <2>1. Half \in Nat /\ Half > 0
      BY WordAssumption, ConfigAssumption DEF Half, ValidConfig
    <2> QED
      BY <2>1 DEF Int64
  <1>5. 0 \in 0 .. (1 - 1) * MaxPartBytes
    BY ConfigAssumption
  <1> QED
    BY <1>2, <1>3, <1>4, <1>5 DEF CreateInit, LoopInv, CreateTypeOK

THEOREM LoopInvariance == CreateSpec => []LoopInv
  BY LoopInit, LoopStep, PTL DEF CreateSpec

(* Every variable keeps its type: no lifetime leaves int64, and as long as *)
(* so many parts fit at their cap the sum of their sizes has not wrapped.  *)
THEOREM CreateTypes == CreateSpec => []CreateTypeOK
  <1>1. LoopInv => CreateTypeOK
    BY DEF LoopInv
  <1> QED
    BY <1>1, LoopInvariance, PTL

(* Whatever is accepted declared few, distinct and well-formed parts, each *)
(* within its cap and together within theirs (handleCreate's loop).        *)
LEMMA AllChecked ==
    ASSUME LoopInv, step = "parts" \/ answer = "CREATED", index > Len(req.parts)
    PROVE  PartsWellFormed(req) /\ index - 1 = Len(req.parts)
  <1>1. /\ Parsed /\ Checked
        /\ index = Len(req.parts) + 1
        /\ DOMAIN req.parts = 1 .. Len(req.parts)
    BY DEF LoopInv, Checked
  <1>2. DOMAIN req.parts = 1 .. index - 1
    BY <1>1 DEF Checked, Parsed
  <1> QED
    BY <1>1, <1>2 DEF PartsWellFormed, Parsed, Checked

-----------------------------------------------------------------------------
(* The sum of the sizes.  Whatever has running sums of the request that    *)
(* are integers has the loop's; and if there are any, or so many parts fit *)
(* at their cap, the turns of the loop give such sums.                     *)
RunsTo(parts, n, sum) ==
    \E sums \in [0 .. n -> 0 .. sum] : Adds(sums, parts, n) /\ sums[n] = sum

Agrees(sums) == Adds(sums, req.parts, Len(req.parts)) => sums[index - 1] = total

Exact == FitIn(req.parts, Half - 1) \/ Fits(Len(req.parts))

SumInv ==
    step = "parts" \/ answer = "CREATED" =>
        /\ Exact => total \in Nat /\ RunsTo(req.parts, index - 1, total)
        /\ \A sums \in [0 .. Len(req.parts) -> 0 .. Half - 1] : Agrees(sums)

(* What was refused deserved it. *)
Deserving == WellFormed(req) /\ Lifetime(req.ttl) <= MaxTTL
RefusedInv == step = "done" /\ answer # "CREATED" => ~Deserving

AcceptInv == CreateInv /\ LoopInv /\ SumInv /\ RefusedInv

(* One more part: its size is added to both.                               *)
LEMMA SumsGrow ==
    ASSUME NEW parts, NEW n \in Nat, NEW size \in Nat,
           parts[n + 1].size = size,
           NEW sum \in Nat, RunsTo(parts, n, sum)
    PROVE  RunsTo(parts, n + 1, sum + size)
  <1> PICK sums \in [0 .. n -> 0 .. sum] : Adds(sums, parts, n) /\ sums[n] = sum
    BY DEF RunsTo
  <1> DEFINE more == [i \in 0 .. n + 1 |-> IF i = n + 1 THEN sum + size ELSE sums[i]]
  <1>1. \A i \in 0 .. n : more[i] = sums[i] /\ sums[i] \in 0 .. sum
    OBVIOUS
  <1>2. more[n + 1] = sum + size
    OBVIOUS
  <1>3. more \in [0 .. n + 1 -> 0 .. sum + size]
    OBVIOUS
  <1> HIDE DEF more
  <1>4. ASSUME NEW i \in 1 .. n + 1
        PROVE  more[i] = more[i - 1] + parts[i].size
    <2>1. CASE i = n + 1
      <3>1. i - 1 = n /\ n \in 0 .. n
        BY <2>1
      <3>2. more[i - 1] = sum
        BY <1>1, <3>1
      <3> QED
        BY <1>2, <2>1, <3>2
    <2>2. CASE i \in 1 .. n
      <3>1. i - 1 \in 0 .. n /\ i \in 0 .. n
        BY <2>2
      <3> QED
        BY <1>1, <2>2, <3>1 DEF Adds
    <2> QED
      BY <2>1, <2>2
  <1>5. more[0] = 0
    BY <1>1 DEF Adds
  <1> QED
    BY <1>2, <1>3, <1>4, <1>5 DEF Adds, RunsTo

LEMMA SumsCounted ==
    ASSUME LoopInv, SumInv, step = "parts", index <= Len(req.parts),
           ~Malformed(req.parts[index]), req.parts[index].size <= MaxPartBytes,
           Count(req.parts[index])
    PROVE  SumInv'
  <1> PICK n \in Nat : n = index - 1
    BY DEF LoopInv, CreateTypeOK
  <1> PICK p : p = req.parts[index]
    OBVIOUS
  <1>1. /\ index \in 1 .. Len(req.parts) /\ p \in Declaration
        /\ p.size \in Nat /\ total \in Int
        /\ index = n + 1 /\ p = req.parts[n + 1]
        /\ Fits(index) => total \in Nat /\ Wrap(total + p.size) = total + p.size
    <2>1. index <= Len(req.parts) /\ ~Malformed(p) /\ p.size <= MaxPartBytes
      OBVIOUS
    <2>2. /\ index \in 1 .. Len(req.parts) /\ p \in Declaration
          /\ p.size \in Nat /\ total \in Int
          /\ Fits(index) => total \in Nat /\ Wrap(total + p.size) = total + p.size
      BY <2>1, PartCounts
    <2> QED
      BY <2>2
  <1>2. Half \in Nat
    BY WordAssumption DEF Half
  <1>3. total' = Wrap(total + p.size)
    BY <1>1 DEF Count
  <1>4. index' = n + 2 /\ UNCHANGED <<req, step, answer>>
    BY <1>1 DEF Count
  <1>5. ASSUME NEW sums \in [0 .. Len(req.parts) -> 0 .. Half - 1],
               Adds(sums, req.parts, Len(req.parts))
        PROVE  /\ total \in Nat /\ total' = total + p.size
               /\ sums[n + 1] = total'
    <2>1. sums[n] = total
      BY <1>5 DEF SumInv, Agrees
    <2>2. sums[index] = sums[index - 1] + p.size
      BY <1>1, <1>5 DEF Adds
    <2>3. sums[n] \in 0 .. Half - 1 /\ sums[n + 1] \in 0 .. Half - 1
      BY <1>1, <1>5
    <2>4. total + p.size \in 0 .. Half - 1 /\ total \in Nat
      BY <1>1, <2>1, <2>2, <2>3
    <2>5. Wrap(total + p.size) = total + p.size
      BY <1>2, <2>4, WrapFits
    <2> QED
      BY <1>1, <1>3, <2>1, <2>2, <2>4, <2>5
  <1>6. ASSUME Exact
        PROVE  total' \in Nat /\ RunsTo(req.parts, n + 1, total')
    <2>1. total \in Nat /\ total' = total + p.size
      <3>1. CASE FitIn(req.parts, Half - 1)
        BY <1>5, <3>1 DEF FitIn
      <3>2. CASE Fits(Len(req.parts))
        <4>1. index \in Nat /\ Len(req.parts) \in Nat /\ index <= Len(req.parts)
          BY <1>1 DEF LoopInv
        <4>2. index * MaxPartBytes <= Len(req.parts) * MaxPartBytes
          BY <4>1, ConfigAssumption DEF ValidConfig
        <4>3. Fits(index)
          BY <1>2, <3>2, <4>1, <4>2, ConfigAssumption DEF Fits
        <4> QED
          BY <1>1, <1>3, <4>3
      <3> QED
        BY <1>6, <3>1, <3>2 DEF Exact
    <2>2. RunsTo(req.parts, n, total)
      BY <1>1, <1>6 DEF SumInv
    <2>3. p.size \in Nat /\ req.parts[n + 1].size = p.size
      BY <1>1
    <2>4. RunsTo(req.parts, n + 1, total + p.size)
      BY <2>1, <2>2, <2>3, SumsGrow
    <2> QED
      BY <2>1, <2>3, <2>4
  <1>7. index' - 1 = n + 1
    BY <1>1, <1>4
  <1> QED
    BY <1>4, <1>5, <1>6, <1>7 DEF SumInv, Agrees, Exact

(* A part that ends the loop makes its request ill-formed.                 *)
LEMMA RefusedPart ==
    ASSUME LoopInv, step = "parts", index <= Len(req.parts),
           \/ Malformed(req.parts[index])
           \/ req.parts[index].id \in seen
           \/ req.parts[index].size > MaxPartBytes
    PROVE  ~PartsWellFormed(req)
  <1>1. /\ index \in 1 .. Len(req.parts)
        /\ index \in DOMAIN req.parts
        /\ seen = {req.parts[i].id : i \in 1 .. index - 1}
        /\ 1 .. index - 1 \subseteq DOMAIN req.parts
    BY DEF LoopInv, Checked, Parsed
  <1>2. ASSUME PartsWellFormed(req)
        PROVE  /\ ~req.parts[index].blank
               /\ req.parts[index].size \in 1 .. MaxPartBytes
               /\ \A j \in DOMAIN req.parts :
                    index # j => req.parts[index].id # req.parts[j].id
    BY <1>1, <1>2 DEF PartsWellFormed
  <1>3. CASE Malformed(req.parts[index]) \/ req.parts[index].size > MaxPartBytes
    BY <1>2, <1>3, ConfigAssumption DEF Malformed
  <1>4. CASE req.parts[index].id \in seen
    <2>1. PICK i \in 1 .. index - 1 : req.parts[index].id = req.parts[i].id
      BY <1>1, <1>4
    <2>2. i # index /\ i \in DOMAIN req.parts
      BY <1>1
    <2> QED
      BY <1>2, <2>1, <2>2
  <1> QED
    BY <1>3, <1>4

(* With the loop over, the sum it has is the only one there is.            *)
LEMMA SumDecides ==
    ASSUME LoopInv, SumInv, step = "parts" \/ answer = "CREATED",
           index > Len(req.parts)
    PROVE  /\ FitTogether(req.parts) => total <= MaxTotalBytes
           /\ Exact /\ total <= MaxTotalBytes => FitTogether(req.parts)
  <1>1. index - 1 = Len(req.parts) /\ Len(req.parts) \in Nat
    BY AllChecked DEF LoopInv, Parsed
  <1>2. MaxTotalBytes \in Int /\ Half \in Int /\ MaxTotalBytes <= Half - 1
    BY ConfigAssumption, WordAssumption DEF Half
  <1>3. ASSUME Exact, total <= MaxTotalBytes
        PROVE  FitTogether(req.parts)
    <2>1. RunsTo(req.parts, Len(req.parts), total) /\ total \in Nat
      BY <1>1, <1>3 DEF SumInv
    <2>2. PICK sums \in [0 .. Len(req.parts) -> 0 .. total] :
                Adds(sums, req.parts, Len(req.parts))
      BY <2>1 DEF RunsTo
    <2>3. sums \in [0 .. Len(req.parts) -> 0 .. MaxTotalBytes]
      BY <1>1, <1>2, <1>3, <2>1, <2>2
    <2> QED
      BY <2>2, <2>3 DEF FitTogether, FitIn
  <1>4. ASSUME FitTogether(req.parts)
        PROVE  total <= MaxTotalBytes
    <2>1. PICK sums \in [0 .. Len(req.parts) -> 0 .. MaxTotalBytes] :
                Adds(sums, req.parts, Len(req.parts))
      BY <1>4 DEF FitTogether, FitIn
    <2>2. sums \in [0 .. Len(req.parts) -> 0 .. Half - 1]
      BY <1>2, <2>1
    <2>3. sums[Len(req.parts)] = total
      BY <1>1, <2>1, <2>2 DEF SumInv, Agrees
    <2>4. sums[Len(req.parts)] \in 0 .. MaxTotalBytes
      BY <1>1, <2>1
    <2> QED
      BY <1>2, <2>3, <2>4
  <1> QED
    BY <1>3, <1>4

LEMMA AcceptStep == AcceptInv /\ [CreateNext]_createVars => AcceptInv'
  <1> SUFFICES ASSUME AcceptInv, [CreateNext]_createVars
               PROVE  SumInv' /\ RefusedInv'
    BY LoopStep, CreateInvStep DEF AcceptInv
  <1> CreateInv /\ LoopInv /\ SumInv /\ RefusedInv
    BY DEF AcceptInv
  <1>1. ASSUME NEW code \in {"BAD_REQUEST", "UNSUPPORTED_VERSION",
                             "PAYLOAD_TOO_LARGE"},
               Refuse(code), ~Deserving
        PROVE  SumInv' /\ RefusedInv'
    <2>1. /\ step' = "done" /\ answer' # "CREATED" /\ answer' # "none"
          /\ UNCHANGED req
      BY <1>1 DEF Refuse
    <2>2. ~Deserving'
      BY <1>1, <2>1 DEF Deserving
    <2> QED
      BY <2>1, <2>2 DEF SumInv, RefusedInv
  <1>2. ASSUME step' # "done", answer' = answer, step # "done"
        PROVE  RefusedInv'
    BY <1>2 DEF RefusedInv
  <1>3. CASE Decode
    <2>1. CASE /\ step' = "ttl"
               /\ UNCHANGED <<req, arrived, index, seen, total, ttl, stored, answer>>
      BY <1>2, <1>3, <2>1 DEF Decode, SumInv, LoopInv, RefusedInv
    <2>2. CASE ~req.readable \/ req.version # "send.v1"
               \/ Len(req.parts) \notin 1 .. MaxPartCount
      <3>1. ~Deserving
        BY <2>2 DEF Deserving, WellFormed, PartsWellFormed
      <3> QED
        BY <1>1, <1>3, <2>2, <3>1 DEF Decode
    <2> QED
      BY <1>3, <2>1, <2>2 DEF Decode
  <1>4. CASE CheckTTL
    <2>1. CASE Lifetime(req.ttl) > MaxTTL /\ Refuse("BAD_REQUEST")
      <3>1. ~Deserving
        <4>1. Lifetime(req.ttl) \in Int /\ MaxTTL \in Int
          BY LifetimeGranted, ConfigAssumption DEF LoopInv
        <4> QED
          BY <2>1, <4>1 DEF Deserving
      <3> QED
        BY <1>1, <2>1, <3>1
    <2>2. CASE /\ step' = "parts"
               /\ UNCHANGED <<req, arrived, index, seen, total, stored, answer>>
      <3>1. index = 1 /\ total = 0
        BY <1>4 DEF CheckTTL, LoopInv
      <3>2. \A sums \in [0 .. Len(req.parts) -> 0 .. Half - 1] : Agrees(sums)
        BY <3>1 DEF Agrees, Adds
      <3>3. RunsTo(req.parts, index - 1, total)
        <4> DEFINE zero == [i \in 0 .. 0 |-> 0]
        <4>1. /\ zero \in [0 .. 0 -> 0 .. 0] /\ zero[0] = 0
              /\ Adds(zero, req.parts, 0)
          BY DEF Adds
        <4>2. RunsTo(req.parts, 0, 0)
          BY <4>1 DEF RunsTo
        <4> QED
          BY <3>1, <4>2
      <3>5. SumInv'
        BY <2>2, <3>1, <3>2, <3>3 DEF SumInv, Agrees, Exact
      <3> QED
        BY <1>2, <1>4, <2>2, <3>5 DEF CheckTTL
    <2> QED
      BY <1>4, <2>1, <2>2 DEF CheckTTL
  <1>5. CASE NextPart
    <2> DEFINE p == req.parts[index]
    <2>1. step = "parts" /\ index <= Len(req.parts) /\ CheckPart(p)
      BY <1>5 DEF NextPart
    <2>2. CASE \E code \in {"BAD_REQUEST", "PAYLOAD_TOO_LARGE"} :
                /\ Malformed(p) \/ p.id \in seen \/ p.size > MaxPartBytes
                /\ Refuse(code)
      <3>1. ~Deserving
        BY <2>1, <2>2, RefusedPart DEF Deserving, WellFormed
      <3> QED
        BY <1>1, <2>2, <3>1
    <2>3. CASE ~Malformed(p) /\ p.size <= MaxPartBytes /\ Count(p)
      <3>1. SumInv'
        BY <2>1, <2>3, SumsCounted
      <3> QED
        BY <1>2, <2>1, <2>3, <3>1 DEF Count
    <2> QED
      BY <2>1, <2>2, <2>3 DEF CheckPart
  <1>6. CASE Store
    <2>1. step = "parts" /\ index > Len(req.parts)
      BY <1>6 DEF Store
    <2>2. CASE total > MaxTotalBytes /\ Refuse("PAYLOAD_TOO_LARGE")
      <3>1. total \in Int /\ MaxTotalBytes \in Int
        BY <2>1, ConfigAssumption, WordAssumption
        DEF LoopInv, CreateTypeOK, Int64, Half
      <3>2. ~FitTogether(req.parts)
        BY <2>1, <2>2, <3>1, SumDecides
      <3> QED
        BY <1>1, <2>2, <3>2 DEF Deserving, WellFormed
    <2>3. CASE /\ answer' = "CREATED"
               /\ UNCHANGED <<req, arrived, index, seen, total, ttl>>
      BY <2>1, <2>3 DEF SumInv, RefusedInv, Agrees, Exact
    <2> QED
      BY <1>6, <2>2, <2>3 DEF Store
  <1>7. CASE UNCHANGED createVars
    BY <1>7 DEF createVars, SumInv, RefusedInv, Agrees, Exact, Deserving
  <1> QED
    BY <1>3, <1>4, <1>5, <1>6, <1>7 DEF CreateNext, Answered

LEMMA AcceptInvariance == CreateSpec => []AcceptInv
  <1>1. CreateInit => AcceptInv
    BY CreateInvInit, LoopInit DEF CreateInit, AcceptInv, SumInv, RefusedInv
  <1> QED
    BY <1>1, AcceptStep, PTL DEF CreateSpec

LEMMA Accepted ==
    ASSUME AcceptInv, answer = "CREATED"
    PROVE  /\ PartsWellFormed(req) /\ Lifetime(req.ttl) <= MaxTTL
           /\ Exact => FitTogether(req.parts)
  <1>1. PartsWellFormed(req)
    BY AllChecked DEF AcceptInv, LoopInv
  <1>2. Exact => FitTogether(req.parts)
    BY SumDecides DEF AcceptInv, LoopInv
  <1> QED
    BY <1>1, <1>2 DEF AcceptInv, CreateInv, Granted

(* A well-formed request whose lifetime, as the server computes it, is     *)
(* within the maximum is accepted, and no other is, but for parts whose    *)
(* sizes add up to more than an int64 holds: neither the loop nor its      *)
(* order of checks refuses or lets through another (handleCreate).         *)
THEOREM AcceptedExactly == CreateSpec => []AcceptsWellFormed
  <1>1. AcceptInv => AcceptsWellFormed
    BY Accepted
    DEF AcceptInv, RefusedInv, AcceptsWellFormed, Deserving, Exact
  <1> QED
    BY <1>1, AcceptInvariance, PTL

(* And none at all if as many parts as were declared fit an int64 at their *)
(* cap, as any number that MaxPartCount allows does with the default caps. *)
THEOREM AcceptedUnderCaps ==
    CreateSpec =>
        [](step = "done" /\ Fits(Len(req.parts)) =>
               ((answer = "CREATED") <=> Deserving))
  <1>1. AcceptInv =>
            (step = "done" /\ Fits(Len(req.parts)) =>
                 ((answer = "CREATED") <=> Deserving))
    BY Accepted DEF AcceptInv, RefusedInv, Deserving, WellFormed, Exact
  <1> QED
    BY <1>1, AcceptInvariance, PTL

(* A lifetime beyond the maximum is accepted only by wrapping: as long as  *)
(* the seconds asked for fit an int64 of ticks, none is (handleCreate).    *)
THEOREM OnlyOverflowEscapes ==
    CreateSpec => [](req.ttl * Second < Half => LongTTLRefused)
  <1>1. CreateInv => (req.ttl * Second < Half => LongTTLRefused)
    <2> SUFFICES ASSUME CreateInv, req.ttl * Second < Half, answer = "CREATED",
                        req.ttl * Second > MaxTTL
                 PROVE  FALSE
      BY WordAssumption, ConfigAssumption DEF LongTTLRefused, CreateInv
    <2> DEFINE asked == req.ttl * Second
    <2>1. asked \in Int /\ asked > 0 /\ -Half <= asked
      BY WordAssumption, ConfigAssumption DEF CreateInv, ValidConfig, Half
    <2>2. Wrap(asked) = asked
      BY <2>1, WrapFits
    <2>3. Lifetime(req.ttl) = asked
      BY <2>1, <2>2 DEF Lifetime
    <2> QED
      BY <2>1, <2>3, ConfigAssumption DEF CreateInv, Granted
  <1> QED
    BY <1>1, CreateInvInit, CreateInvStep, PTL DEF CreateSpec
=============================================================================
