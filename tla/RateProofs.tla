----------------------------- MODULE RateProofs -----------------------------
(***************************************************************************)
(* Proofs about the rate limiter, for every set of clients, rate, window,  *)
(* map size and length of run.                                             *)
(***************************************************************************)
EXTENDS RateLimiter, FiniteSetTheorems, TLAPS

(* The arithmetic of refills: they add up, grow with the time waited, and  *)
(* fill the bucket within a window.                                        *)
LEMMA RefillGrows ==
    ASSUME NEW p \in Nat, NEW a \in Nat, NEW b \in Nat, a <= b
    PROVE  a * p <= b * p
  <1>1. PICK d \in Nat : b = a + d
    <2>1. b - a \in Nat /\ b = a + (b - a)
      OBVIOUS
    <2> QED BY <2>1
  <1>2. d * p >= 0
    OBVIOUS
  <1> QED BY <1>1, <1>2

LEMMA RefillStep ==
    ASSUME NEW p \in Nat, NEW a \in Int
    PROVE  (a + 1) * p = a * p + p
  OBVIOUS

LEMMA Numbers ==
    /\ PerWindow \in Nat \ {0} /\ Window \in Nat \ {0} /\ MaxTime \in Nat
    /\ Burst \in Nat
    /\ Burst >= Window
  <1>1. PerWindow \in Nat \ {0} /\ Window \in Nat \ {0} /\ MaxTime \in Nat
    BY LimitsAssumption
  <1>2. PerWindow * Window \in Nat
    BY <1>1
  <1>3. 1 * Window <= PerWindow * Window
    BY <1>1, RefillGrows
  <1> QED BY <1>1, <1>2, <1>3 DEF Burst

(* A bucket holds between nothing and a burst after a refill, and a full   *)
(* burst when it has been idle for a window.                               *)
LEMMA RefilledBounds ==
    ASSUME RateInv, NEW c \in Clients
    PROVE  /\ Refilled(c) \in 0 .. Burst
           /\ Idle(c) => Refilled(c) = Burst
  <1> USE Numbers
  <1>1. /\ tokens[c] \in 0 .. Burst
        /\ now - last[c] \in Nat
    BY DEF RateInv, RateTypeOK, Instants
  <1>2. (now - last[c]) * PerWindow \in Nat
    BY <1>1
  <1>3. Idle(c) => Window * PerWindow <= (now - last[c]) * PerWindow
    BY <1>1, RefillGrows DEF Idle
  <1>4. Window * PerWindow = Burst
    BY DEF Burst
  <1>5. Idle(c) => Refilled(c) = Burst
    BY <1>1, <1>2, <1>3, <1>4 DEF Refilled
  <1> QED BY <1>1, <1>2, <1>5 DEF Refilled

LEMMA CreditBounds ==
    ASSUME RateInv, NEW c \in Clients
    PROVE  Credit(c) \in 0 .. Burst
  BY RefilledBounds, Numbers DEF Credit

-----------------------------------------------------------------------------
(* How each step moves the credits.  Creating a bucket for c, and dropping *)
(* idle ones to make room, costs c one event and nobody else anything.     *)
LEMMA CreditNew ==
    ASSUME RateInv, NEW c \in Clients, AllowNew(c)
    PROVE  \A d \in Clients :
             Credit(d)' = IF d = c THEN Credit(d) - Window ELSE Credit(d)
  <1> SUFFICES ASSUME NEW d \in Clients
               PROVE  Credit(d)' = IF d = c THEN Credit(d) - Window
                                            ELSE Credit(d)
    OBVIOUS
  <1> USE Numbers
  <1>1. /\ tokens' = [tokens EXCEPT ![c] = Burst - Window]
        /\ last' = [last EXCEPT ![c] = now]
        /\ now' = now /\ c \notin known /\ known' = Kept \cup {c}
    BY DEF AllowNew, Spend
  <1>2. tokens \in [Clients -> 0 .. Burst] /\ last \in [Clients -> Instants]
    BY DEF RateInv, RateTypeOK
  <1>3. CASE d = c
    <2>1. d \in known' /\ tokens'[d] = Burst - Window /\ last'[d] = now
      BY <1>1, <1>2, <1>3
    <2>2. now \in Nat /\ (now - now) * PerWindow = 0
      BY DEF RateInv, RateTypeOK, Instants
    <2>3. Refilled(d)' = Burst - Window
      BY <2>1, <2>2, <1>1 DEF Refilled
    <2> QED BY <2>1, <2>3, <1>1, <1>3 DEF Credit
  <1>4. CASE d # c
    <2>1. Refilled(d)' = Refilled(d)
      BY <1>1, <1>2, <1>4 DEF Refilled
    <2>2. CASE d \in Kept
      BY <2>1, <2>2, <1>1, <1>4 DEF Credit, Kept
    <2>3. CASE d \notin known
      BY <2>3, <1>1, <1>4 DEF Credit, Kept
    <2>4. CASE d \in known /\ d \notin Kept
      <3>1. Idle(d) /\ d \notin known'
        BY <2>4, <1>1, <1>4 DEF Kept
      <3> QED BY <3>1, <2>4, <1>4, RefilledBounds DEF Credit
    <2> QED BY <2>2, <2>3, <2>4
  <1> QED BY <1>3, <1>4

LEMMA CreditKnown ==
    ASSUME RateInv, NEW c \in Clients, AllowKnown(c)
    PROVE  \A d \in Clients :
             Credit(d)' = IF d = c THEN Credit(d) - Window ELSE Credit(d)
  <1> SUFFICES ASSUME NEW d \in Clients
               PROVE  Credit(d)' = IF d = c THEN Credit(d) - Window
                                            ELSE Credit(d)
    OBVIOUS
  <1> USE Numbers
  <1>1. /\ tokens' = [tokens EXCEPT ![c] = Refilled(c) - Window]
        /\ last' = [last EXCEPT ![c] = now]
        /\ now' = now /\ c \in known /\ known' = known
        /\ Refilled(c) >= Window
    BY DEF AllowKnown, Spend
  <1>2. tokens \in [Clients -> 0 .. Burst] /\ last \in [Clients -> Instants]
    BY DEF RateInv, RateTypeOK
  <1>3. CASE d = c
    <2>1. tokens'[d] = Refilled(d) - Window /\ last'[d] = now
      BY <1>1, <1>2, <1>3
    <2>2. now \in Nat /\ (now - now) * PerWindow = 0
      BY DEF RateInv, RateTypeOK, Instants
    <2>3. Refilled(d) \in 0 .. Burst
      BY RefilledBounds
    <2>4. Refilled(d)' = Refilled(d) - Window
      BY <2>1, <2>2, <2>3, <1>1 DEF Refilled
    <2> QED BY <2>4, <1>1, <1>3 DEF Credit
  <1>4. CASE d # c
    BY <1>1, <1>2, <1>4 DEF Refilled, Credit
  <1> QED BY <1>3, <1>4

LEMMA CreditDeny ==
    ASSUME RateInv, NEW c \in Clients, Deny(c)
    PROVE  \A d \in Clients : Credit(d)' = Credit(d)
  <1> SUFFICES ASSUME NEW d \in Clients
               PROVE  Credit(d)' = Credit(d)
    OBVIOUS
  <1> USE Numbers
  <1>1. /\ tokens' = [tokens EXCEPT ![c] = Refilled(c)]
        /\ last' = [last EXCEPT ![c] = now]
        /\ now' = now /\ c \in known /\ known' = known
    BY DEF Deny
  <1>2. tokens \in [Clients -> 0 .. Burst] /\ last \in [Clients -> Instants]
    BY DEF RateInv, RateTypeOK
  <1>3. CASE d = c
    <2>1. tokens'[d] = Refilled(d) /\ last'[d] = now
      BY <1>1, <1>2, <1>3
    <2>2. now \in Nat /\ (now - now) * PerWindow = 0
      BY DEF RateInv, RateTypeOK, Instants
    <2>3. Refilled(d) \in 0 .. Burst
      BY RefilledBounds
    <2>4. Refilled(d)' = Refilled(d)
      BY <2>1, <2>2, <2>3, <1>1 DEF Refilled
    <2> QED BY <2>4, <1>1, <1>3 DEF Credit
  <1>4. CASE d # c
    BY <1>1, <1>2, <1>4 DEF Refilled, Credit
  <1> QED BY <1>3, <1>4

LEMMA CreditTick ==
    ASSUME RateInv, RateTick
    PROVE  \A d \in Clients :
             Credit(d)' = IF Credit(d) + PerWindow <= Burst
                          THEN Credit(d) + PerWindow ELSE Burst
  <1> SUFFICES ASSUME NEW d \in Clients
               PROVE  Credit(d)' = IF Credit(d) + PerWindow <= Burst
                                   THEN Credit(d) + PerWindow ELSE Burst
    OBVIOUS
  <1> USE Numbers
  <1>1. now' = now + 1 /\ known' = known /\ tokens' = tokens /\ last' = last
    BY DEF RateTick
  <1>2. tokens[d] \in 0 .. Burst /\ now - last[d] \in Nat
    BY DEF RateInv, RateTypeOK, Instants
  <1>3. /\ now' - last'[d] = (now - last[d]) + 1
        /\ ((now - last[d]) + 1) * PerWindow
             = (now - last[d]) * PerWindow + PerWindow
    <2>1. now \in Nat /\ last[d] \in Nat
      BY DEF RateInv, RateTypeOK, Instants
    <2> QED BY <2>1, <1>1, <1>2, RefillStep
  <1>4. (now - last[d]) * PerWindow \in Nat
    BY <1>2
  <1>5. Refilled(d)' = IF Refilled(d) + PerWindow <= Burst
                       THEN Refilled(d) + PerWindow ELSE Burst
    BY <1>1, <1>2, <1>3, <1>4 DEF Refilled
  <1> QED BY <1>1, <1>5 DEF Credit

-----------------------------------------------------------------------------
(* The invariant, step by step. *)
LEMMA RateInitial == RateInit => RateInv
  <1> SUFFICES ASSUME RateInit PROVE RateInv
    OBVIOUS
  <1> USE Numbers
  <1>1. RateTypeOK
    BY DEF RateInit, RateTypeOK, Instants
  <1>2. ASSUME NEW c \in Clients PROVE Credit(c) = Burst
    BY DEF RateInit, Credit
  <1>3. ASSUME NEW c \in Clients, NEW t \in Instants
        PROVE  IF t <= now
               THEN spent[c][t] + Credit(c) <= Burst + (now - t) * PerWindow
               ELSE spent[c][t] = 0
    <2>1. now = 0 /\ spent[c][t] = 0 /\ t \in Nat
      BY <1>3 DEF RateInit, Instants
    <2>2. t <= now => (now - t) * PerWindow = 0
      BY <2>1
    <2>3. Credit(c) = Burst
      BY <1>2, <1>3
    <2> QED BY <2>1, <2>2, <2>3
  <1>4. \A c \in Clients : last[c] <= now
    BY DEF RateInit
  <1> QED BY <1>1, <1>3, <1>4 DEF RateInv

(* An event allowed: what c spends since any instant, its credit loses. *)
LEMMA SpendKeeps ==
    ASSUME RateInv, NEW c \in Clients, NEW left \in 0 .. Burst,
           Spend(c, left), known' \subseteq Clients, now' = now,
           \A d \in Clients :
             Credit(d)' = IF d = c THEN Credit(d) - Window ELSE Credit(d)
    PROVE  RateInv'
  <1> USE Numbers
  <1>1. /\ tokens' = [tokens EXCEPT ![c] = left]
        /\ last' = [last EXCEPT ![c] = now]
        /\ reply' = <<c, TRUE>>
        /\ spent' = [spent EXCEPT ![c] =
              [t \in Instants |->
                 IF t <= now THEN spent[c][t] + Window ELSE spent[c][t]]]
    BY DEF Spend
  <1>2. RateTypeOK
    BY DEF RateInv
  <1>3. RateTypeOK'
    <2>1. [t \in Instants |-> IF t <= now THEN spent[c][t] + Window
                                          ELSE spent[c][t]]
            \in [Instants -> Nat]
      BY <1>2 DEF RateTypeOK
    <2>2. spent' \in [Clients -> [Instants -> Nat]]
      BY <1>1, <1>2, <2>1 DEF RateTypeOK
    <2> QED BY <1>1, <1>2, <2>2 DEF RateTypeOK
  <1>4. \A d \in Clients : last'[d] <= now'
    BY <1>1, <1>2 DEF RateInv, RateTypeOK, Instants
  <1>5. ASSUME NEW d \in Clients, NEW t \in Instants
        PROVE  IF t <= now'
               THEN spent'[d][t] + Credit(d)' <= Burst + (now' - t) * PerWindow
               ELSE spent'[d][t] = 0
    <2>1. spent'[d][t] = IF d = c /\ t <= now THEN spent[d][t] + Window
                                              ELSE spent[d][t]
      BY <1>1, <1>2, <1>5 DEF RateTypeOK
    <2>2. Credit(d) \in 0 .. Burst /\ spent[d][t] \in Nat
      BY <1>2, <1>5, CreditBounds DEF RateTypeOK
    <2>3. IF t <= now
          THEN spent[d][t] + Credit(d) <= Burst + (now - t) * PerWindow
          ELSE spent[d][t] = 0
      BY <1>5 DEF RateInv
    <2>4. Credit(d)' = IF d = c THEN Credit(d) - Window ELSE Credit(d)
      BY <1>5
    <2>5. t \in Nat /\ now \in Nat /\ (now - t) * PerWindow \in Int
      BY <1>2, <1>5 DEF RateTypeOK, Instants
    <2> QED BY <2>1, <2>2, <2>3, <2>4, <2>5
  <1> QED BY <1>3, <1>4, <1>5 DEF RateInv

LEMMA DenyKeeps ==
    ASSUME RateInv, NEW c \in Clients, Deny(c)
    PROVE  RateInv'
  <1> USE Numbers
  <1>1. /\ tokens' = [tokens EXCEPT ![c] = Refilled(c)]
        /\ last' = [last EXCEPT ![c] = now]
        /\ reply' = <<c, FALSE>>
        /\ now' = now /\ known' = known /\ spent' = spent
    BY DEF Deny
  <1>2. RateTypeOK /\ Refilled(c) \in 0 .. Burst
    BY RefilledBounds DEF RateInv
  <1>3. RateTypeOK'
    BY <1>1, <1>2 DEF RateTypeOK
  <1>4. \A d \in Clients : last'[d] <= now'
    BY <1>1, <1>2 DEF RateInv, RateTypeOK, Instants
  <1>5. \A d \in Clients : Credit(d)' = Credit(d)
    BY CreditDeny
  <1> QED BY <1>1, <1>3, <1>4, <1>5 DEF RateInv

LEMMA TickKeeps ==
    ASSUME RateInv, RateTick
    PROVE  RateInv'
  <1> USE Numbers
  <1>1. /\ now < MaxTime /\ now' = now + 1 /\ reply' = NoReply
        /\ known' = known /\ tokens' = tokens /\ last' = last /\ spent' = spent
    BY DEF RateTick
  <1>2. RateTypeOK
    BY DEF RateInv
  <1>3. now \in Nat /\ now' \in Instants
    BY <1>1, <1>2 DEF RateTypeOK, Instants
  <1>4. RateTypeOK'
    BY <1>1, <1>2, <1>3 DEF RateTypeOK
  <1>5. \A d \in Clients : last'[d] <= now'
    BY <1>1, <1>2 DEF RateInv, RateTypeOK, Instants
  <1>6. ASSUME NEW d \in Clients, NEW t \in Instants
        PROVE  IF t <= now'
               THEN spent'[d][t] + Credit(d)' <= Burst + (now' - t) * PerWindow
               ELSE spent'[d][t] = 0
    <2>1. /\ Credit(d) \in 0 .. Burst /\ Credit(d)' <= Burst
          /\ Credit(d)' <= Credit(d) + PerWindow
          /\ Credit(d)' \in Int
      BY <1>6, CreditTick, CreditBounds
    <2>2. IF t <= now
          THEN spent[d][t] + Credit(d) <= Burst + (now - t) * PerWindow
          ELSE spent[d][t] = 0
      BY <1>6 DEF RateInv
    <2>3. spent[d][t] \in Nat /\ t \in Nat
      BY <1>2, <1>6 DEF RateTypeOK, Instants
    <2>4. CASE t <= now
      <3>1. (now - t + 1) * PerWindow = (now - t) * PerWindow + PerWindow
        BY <1>3, <2>3, RefillStep
      <3>2. now' - t = now - t + 1
        BY <1>1, <1>3, <2>3
      <3>3. (now - t) * PerWindow \in Int
        BY <1>3, <2>3
      <3> QED BY <3>1, <3>2, <3>3, <2>1, <2>2, <2>3, <2>4, <1>1, <1>3
    <2>5. CASE t = now + 1
      <3>1. (now' - t) * PerWindow = 0
        BY <2>5, <1>1, <1>3
      <3> QED BY <3>1, <2>1, <2>2, <2>3, <2>5, <1>1, <1>3
    <2>6. CASE t > now + 1
      BY <2>2, <2>3, <2>6, <1>1, <1>3
    <2> QED BY <2>4, <2>5, <2>6, <2>3, <1>3
  <1> QED BY <1>4, <1>5, <1>6 DEF RateInv

LEMMA RateNextKeeps == RateInv /\ [RateNext]_rateVars => RateInv'
  <1> SUFFICES ASSUME RateInv, [RateNext]_rateVars PROVE RateInv'
    OBVIOUS
  <1> USE Numbers
  <1>0. RateTypeOK
    BY DEF RateInv
  <1>1. ASSUME NEW c \in Clients, AllowNew(c) PROVE RateInv'
    <2>1. Spend(c, Burst - Window) /\ now' = now /\ known' \subseteq Clients
      BY <1>0, <1>1 DEF AllowNew, Kept, RateTypeOK
    <2> QED BY <2>1, <1>1, CreditNew, SpendKeeps
  <1>2. ASSUME NEW c \in Clients, AllowKnown(c) PROVE RateInv'
    <2>1. /\ Spend(c, Refilled(c) - Window)
          /\ now' = now /\ known' \subseteq Clients
          /\ Refilled(c) >= Window
      BY <1>0, <1>2 DEF AllowKnown, RateTypeOK
    <2>2. Refilled(c) - Window \in 0 .. Burst
      BY <2>1, <1>2, RefilledBounds
    <2> QED BY <2>1, <2>2, <1>2, CreditKnown, SpendKeeps
  <1>3. ASSUME NEW c \in Clients, Deny(c) PROVE RateInv'
    BY <1>3, DenyKeeps
  <1>4. CASE RateTick
    BY <1>4, TickKeeps
  <1>5. CASE UNCHANGED rateVars
    <2>1. \A c \in Clients : Credit(c)' = Credit(c)
      BY <1>5 DEF rateVars, Credit, Refilled
    <2> QED BY <2>1, <1>5 DEF rateVars, RateInv, RateTypeOK
  <1> QED BY <1>1, <1>2, <1>3, <1>4, <1>5 DEF RateNext

(* What a client spent since any instant and what it could still spend are *)
(* together at most a burst and the refill since.                          *)
THEOREM RateInvariance == RateSpec => []RateInv
  <1> QED BY RateInitial, RateNextKeeps, PTL DEF RateSpec

(* No client is allowed more, over any interval, than a burst and what     *)
(* refills meanwhile, however its bucket is evicted and created again      *)
(* (Limiter.Allow and evict).                                              *)
THEOREM RateHolds == RateSpec => []RateBound
  <1>1. RateInv => RateBound
    <2> SUFFICES ASSUME RateInv, NEW c \in Clients, NEW t \in Instants,
                        t <= now
                 PROVE  spent[c][t] <= Burst + (now - t) * PerWindow
      BY DEF RateBound
    <2>1. Credit(c) \in 0 .. Burst /\ spent[c][t] \in Nat
      BY CreditBounds DEF RateInv, RateTypeOK
    <2>2. spent[c][t] + Credit(c) <= Burst + (now - t) * PerWindow
      BY DEF RateInv
    <2>3. (now - t) * PerWindow \in Int /\ Burst \in Nat
      BY Numbers DEF RateInv, RateTypeOK, Instants
    <2> QED BY <2>1, <2>2, <2>3
  <1> QED BY <1>1, RateInvariance, PTL

-----------------------------------------------------------------------------
(* Every answer is the ideal limiter's: evicting idle buckets changes      *)
(* nothing observable (the comment on evict).                              *)
THEOREM EvictionHides == RateSpec => EvictionUnobservable
  <1> USE Numbers
  <1>1. RateInit => Ideal!RInit
    BY DEF RateInit, Ideal!RInit, Credit
  <1>2. RateInv /\ [RateNext]_rateVars => [Ideal!RNext]_Ideal!rvars
    <2> SUFFICES ASSUME RateInv, [RateNext]_rateVars
                 PROVE  Ideal!RNext \/ UNCHANGED Ideal!rvars
      OBVIOUS
    <2> DEFINE credits == [c \in Clients |-> Credit(c)]
    <2>1. ASSUME NEW c \in Clients, AllowNew(c) PROVE Ideal!Grant(c)
      <3>1. credits' = [credits EXCEPT ![c] = @ - Window]
        BY <2>1, CreditNew
      <3>2. reply' = <<c, TRUE>> /\ credits[c] >= Window
        BY <2>1 DEF AllowNew, Spend, Credit
      <3> QED BY <3>1, <3>2 DEF Ideal!Grant
    <2>2. ASSUME NEW c \in Clients, AllowKnown(c) PROVE Ideal!Grant(c)
      <3>1. credits' = [credits EXCEPT ![c] = @ - Window]
        BY <2>2, CreditKnown
      <3>2. reply' = <<c, TRUE>> /\ credits[c] >= Window
        BY <2>2 DEF AllowKnown, Spend, Credit
      <3> QED BY <3>1, <3>2 DEF Ideal!Grant
    <2>3. ASSUME NEW c \in Clients, Deny(c) PROVE Ideal!Refuse(c)
      <3>1. credits' = credits
        BY <2>3, CreditDeny
      <3>2. reply' = <<c, FALSE>> /\ credits[c] < Window
        BY <2>3 DEF Deny, Credit
      <3> QED BY <3>1, <3>2 DEF Ideal!Refuse
    <2>4. CASE RateTick
      <3>1. credits' = [c \in Clients |->
                          IF credits[c] + PerWindow <= Burst
                          THEN credits[c] + PerWindow ELSE Burst]
        BY <2>4, CreditTick
      <3>2. reply' = NoReply
        BY <2>4 DEF RateTick
      <3>3. Ideal!Earn
        BY <3>1, <3>2 DEF Ideal!Earn
      <3> QED BY <3>3 DEF Ideal!RNext
    <2>5. CASE UNCHANGED rateVars
      <3>1. credits' = credits
        BY <2>5 DEF rateVars, Credit, Refilled
      <3> QED BY <3>1, <2>5 DEF rateVars, Ideal!rvars
    <2> QED BY <2>1, <2>2, <2>3, <2>4, <2>5 DEF RateNext, Ideal!RNext
  <1> QED BY <1>1, <1>2, RateInvariance, PTL
          DEF RateSpec, EvictionUnobservable, Ideal!RSpec

-----------------------------------------------------------------------------
(* The map is finite at any time, though the clients need not be. *)
LEMMA FiniteMap == RateSpec => []IsFiniteSet(known)
  <1>1. RateInit => IsFiniteSet(known)
    BY FS_EmptySet DEF RateInit
  <1>2. IsFiniteSet(known) /\ [RateNext]_rateVars => IsFiniteSet(known)'
    <2> SUFFICES ASSUME IsFiniteSet(known), [RateNext]_rateVars
                 PROVE  IsFiniteSet(known')
      OBVIOUS
    <2>1. ASSUME NEW c \in Clients, AllowNew(c)
          PROVE  IsFiniteSet(known')
      <3>1. Kept \subseteq known
        BY DEF Kept
      <3>2. IsFiniteSet(Kept \cup {c})
        BY <3>1, FS_Subset, FS_AddElement
      <3> QED BY <2>1, <3>2 DEF AllowNew
    <2>2. CASE known' = known
      BY <2>2
    <2> QED
      BY <2>1, <2>2 DEF RateNext, AllowKnown, Deny, RateTick, rateVars
  <1> QED BY <1>1, <1>2, PTL DEF RateSpec

(* The map outgrows its cap only with clients of the last window: Allow    *)
(* makes room by dropping every idle bucket before it adds one too many.   *)
THEOREM GrowthIsBusy == RateSpec => GrowsOnlyBusy
  <1> DEFINE Grows ==
        Cardinality(known') > MaxKeys /\ known' # known =>
          \A c \in known' : now - last'[c] < Window
  <1>1. RateInv /\ IsFiniteSet(known) /\ [RateNext]_rateVars => [Grows]_rateVars
    <2> SUFFICES ASSUME RateInv, IsFiniteSet(known), NEW c \in Clients,
                        AllowNew(c), Cardinality(known') > MaxKeys,
                        NEW d \in known'
                 PROVE  now - last'[d] < Window
      BY DEF RateNext, AllowKnown, Deny, RateTick, rateVars
    <2>1. /\ known' = Kept \cup {c} /\ c \notin known
          /\ last' = [last EXCEPT ![c] = now]
      BY DEF AllowNew, Spend
    <2>2. /\ last \in [Clients -> Instants] /\ known \subseteq Clients
          /\ now \in Nat /\ Window \in Nat \ {0} /\ MaxKeys \in Nat
      BY LimitsAssumption DEF RateInv, RateTypeOK, Instants
    <2>3. Cardinality(known) >= MaxKeys
      <3> SUFFICES ASSUME ~(Cardinality(known) >= MaxKeys) PROVE FALSE
        OBVIOUS
      <3>1. known' = known \cup {c}
        BY <2>1 DEF Kept
      <3>2. Cardinality(known') = Cardinality(known) + 1
        BY <2>1, <3>1, FS_AddElement
      <3> QED BY <2>2, <3>2, FS_CardinalityType
    <2>4. CASE d = c
      BY <2>1, <2>2, <2>4
    <2>5. CASE d # c
      <3>1. d \in known /\ ~Idle(d)
        BY <2>1, <2>3, <2>5 DEF Kept
      <3> QED BY <2>1, <2>2, <2>5, <3>1 DEF Idle, Instants
    <2> QED BY <2>4, <2>5
  <1> QED BY <1>1, RateInvariance, FiniteMap, PTL
          DEF RateSpec, GrowsOnlyBusy
=============================================================================
