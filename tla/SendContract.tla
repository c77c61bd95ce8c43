---------------------------- MODULE SendContract ----------------------------
(***************************************************************************)
(* What the send store promises its clients, with no requests, statements, *)
(* files or sweeps: a send is opened with some parts missing, is sealed    *)
(* once none is, is handed to those who redeem it before it expires, to    *)
(* one of them only if it is one-time, and is discarded, for good, only    *)
(* when it was due.                                                        *)
(***************************************************************************)
EXTENDS Integers, TLAPS

CONSTANTS Sends, Parts, Tokens, TTLs, GrantTTL, CreatingMaxAge

VARIABLES
    now,        \* the store's clock
    status,     \* life of each send
    oneTime,    \* whether its link opens once
    created,    \* when it was asked for
    expires,    \* when it ends
    consumed,   \* when the link of a one-time send was spent
    missing,    \* declared parts the store does not hold yet
    condemned,  \* sends that were due, and may be discarded at any time
    issued      \* grants ever handed out

cvars == <<now, status, oneTime, created, expires, consumed, missing,
           condemned, issued>>

Null == -1

CInit ==
    /\ now = 0
    /\ status = [s \in Sends |-> "absent"]
    /\ oneTime = [s \in Sends |-> FALSE]
    /\ created = [s \in Sends |-> 0]
    /\ expires = [s \in Sends |-> 0]
    /\ consumed = [s \in Sends |-> Null]
    /\ missing = [s \in Sends |-> {}]
    /\ condemned = {}
    /\ issued = {}

(* What was asked at time t takes effect now: every promise about time     *)
(* counts from t, however long the request waited in between.              *)
Open(s, parts, once, life, t) ==
    /\ status[s] = "absent"
    /\ parts # {}
    /\ status' = [status EXCEPT ![s] = "creating"]
    /\ oneTime' = [oneTime EXCEPT ![s] = once]
    /\ created' = [created EXCEPT ![s] = t]
    /\ expires' = [expires EXCEPT ![s] = t + life]
    /\ missing' = [missing EXCEPT ![s] = parts]
    /\ UNCHANGED <<now, consumed, condemned, issued>>

Supply(s, p) ==
    /\ status[s] = "creating"
    /\ p \in missing[s]
    /\ missing' = [missing EXCEPT ![s] = @ \ {p}]
    /\ UNCHANGED <<now, status, oneTime, created, expires, consumed, condemned,
                   issued>>

Seal(s) ==
    /\ status[s] = "creating"
    /\ missing[s] = {}
    /\ status' = [status EXCEPT ![s] = "finalized"]
    /\ UNCHANGED <<now, oneTime, created, expires, consumed, missing,
                   condemned, issued>>

(* The link of a one-time send is spent once, and may be for nobody.       *)
Spend(s, t) ==
    /\ status[s] = "finalized"
    /\ oneTime[s]
    /\ consumed[s] = Null
    /\ t < expires[s]
    /\ consumed' = [consumed EXCEPT ![s] = t]
    /\ UNCHANGED <<now, status, oneTime, created, expires, missing, condemned,
                   issued>>

(* Otherwise for one token, granted from the moment it was spent.          *)
HandOut(s, tok, t) ==
    /\ status[s] = "finalized"
    /\ t < expires[s]
    /\ \A g \in issued : g.token # tok
    /\ oneTime[s] =>
        /\ consumed[s] \in {Null, t}
        /\ \A g \in issued : g.send # s
    /\ consumed' = [consumed EXCEPT ![s] = IF oneTime[s] THEN t ELSE @]
    /\ issued' = issued \cup
        {[send |-> s, token |-> tok, expires |-> t + GrantTTL]}
    /\ UNCHANGED <<now, status, oneTime, created, expires, missing, condemned>>

Over(s) == expires[s] <= now
Used(s) == oneTime[s] /\ consumed[s] # Null /\ consumed[s] + GrantTTL <= now
Old(s) == created[s] + CreatingMaxAge <= now
Live(s) == status[s] \in {"creating", "finalized"}
Due(s) ==
    Live(s) /\ (Over(s) \/ Used(s) \/ (status[s] = "creating" /\ Old(s)))

(* The store notices that sends are due, or forgets that it did. *)
Condemn ==
    /\ condemned' \in SUBSET {s \in Sends : Due(s)}
    /\ UNCHANGED <<now, status, oneTime, created, expires, consumed, missing,
                   issued>>

(* Several sends may be discarded at once. *)
Discard(S) ==
    /\ S # {}
    /\ \A s \in S : Live(s) /\ (s \in condemned \/ Due(s))
    /\ status' = [s \in Sends |-> IF s \in S THEN "gone" ELSE status[s]]
    /\ missing' = [s \in Sends |-> IF s \in S THEN {} ELSE missing[s]]
    /\ condemned' = {}
    /\ UNCHANGED <<now, oneTime, created, expires, consumed, issued>>

CTick ==
    /\ now' = now + 1
    /\ UNCHANGED <<status, oneTime, created, expires, consumed, missing,
                   condemned, issued>>

CNext ==
    \/ \E s \in Sends :
        \/ \E parts \in SUBSET Parts, once \in BOOLEAN, life \in TTLs,
              t \in 0 .. now : Open(s, parts, once, life, t)
        \/ \E p \in Parts : Supply(s, p)
        \/ Seal(s)
        \/ \E t \in 0 .. now : Spend(s, t)
        \/ \E tok \in Tokens, t \in 0 .. now : HandOut(s, tok, t)
    \/ Condemn
    \/ \E S \in SUBSET Sends : Discard(S)
    \/ CTick

CSpec == CInit /\ [][CNext]_cvars

-----------------------------------------------------------------------------
(* What these rules come to. *)

(* A one-time link is handed to one token, on a grant that begins when the *)
(* link is spent; no token opens two sends; what is handed out is complete.*)
Promises ==
    /\ \A g, h \in issued :
        /\ g.token = h.token => g = h
        /\ g.send = h.send /\ oneTime[g.send] => g = h
    /\ \A g \in issued :
        /\ oneTime[g.send] => g.expires = consumed[g.send] + GrantTTL
        /\ g.expires < expires[g.send] + GrantTTL
        /\ status[g.send] \in {"finalized", "gone"} /\ missing[g.send] = {}

(* The send of g is there, and no decision to discard it has been taken.   *)
Held(g) == Live(g.send) /\ g.send \notin condemned

(* A grant on a send that is not condemned when it is given outlasts every *)
(* sweep: its send is condemned or discarded only once the grant, or the   *)
(* send, is over.                                                          *)
GrantsLast ==
    [][\A g \in issued :
        Held(g) => Held(g)' \/ g.expires <= now \/ Over(g.send)]_cvars

-----------------------------------------------------------------------------
(* The rules keep the promises. *)

Durations ==
    TTLs \subseteq Nat /\ GrantTTL \in Nat /\ CreatingMaxAge \in Nat

CTypeOK ==
    /\ now \in Nat
    /\ status \in [Sends -> {"absent", "creating", "finalized", "gone"}]
    /\ oneTime \in [Sends -> BOOLEAN]
    /\ created \in [Sends -> Nat]
    /\ expires \in [Sends -> Nat]
    /\ consumed \in [Sends -> Nat \cup {Null}]
    /\ missing \in [Sends -> SUBSET Parts]
    /\ condemned \subseteq Sends
    /\ issued \subseteq [send : Sends, token : Tokens, expires : Nat]

Past(s) == status[s] \in {"finalized", "gone"}

CInv ==
    /\ CTypeOK
    /\ Promises
    /\ \A s \in Sends :
        /\ Past(s) => missing[s] = {}
        /\ consumed[s] # Null => Past(s)
    /\ \A s \in condemned : status[s] # "absent" /\ (Over(s) \/ Used(s) \/ Old(s))
    /\ \A g \in issued : oneTime[g.send] => consumed[g.send] # Null

LEMMA CTypeStep == Durations /\ CTypeOK /\ [CNext]_cvars => CTypeOK'
  <1> SUFFICES ASSUME Durations, CTypeOK, [CNext]_cvars
               PROVE  CTypeOK'
    OBVIOUS
  <1> USE DEF CTypeOK, Durations
  <1>1. ASSUME NEW s \in Sends, NEW parts \in SUBSET Parts, NEW once \in BOOLEAN,
               NEW life \in TTLs, NEW t \in 0 .. now, Open(s, parts, once, life, t)
        PROVE  CTypeOK'
    BY <1>1 DEF Open
  <1>2. ASSUME NEW s \in Sends, NEW p \in Parts, Supply(s, p)
        PROVE  CTypeOK'
    BY <1>2 DEF Supply
  <1>3. ASSUME NEW s \in Sends, Seal(s)
        PROVE  CTypeOK'
    BY <1>3 DEF Seal
  <1>4. ASSUME NEW s \in Sends, NEW t \in 0 .. now, Spend(s, t)
        PROVE  CTypeOK'
    BY <1>4 DEF Spend
  <1>5. ASSUME NEW s \in Sends, NEW tok \in Tokens, NEW t \in 0 .. now,
               HandOut(s, tok, t)
        PROVE  CTypeOK'
    BY <1>5 DEF HandOut
  <1>6. CASE Condemn
    BY <1>6 DEF Condemn
  <1>7. ASSUME NEW S \in SUBSET Sends, Discard(S)
        PROVE  CTypeOK'
    BY <1>7 DEF Discard
  <1>8. CASE CTick
    BY <1>8 DEF CTick
  <1>9. CASE UNCHANGED cvars
    BY <1>9 DEF cvars
  <1> QED
    BY <1>1, <1>2, <1>3, <1>4, <1>5, <1>6, <1>7, <1>8, <1>9 DEF CNext

(* A step that hands nothing out and leaves the sends that were handed out *)
(* as they are, or gone, breaks no promise about grants.                   *)
LEMMA PromisesStay ==
    ASSUME CTypeOK, CTypeOK', CInv, UNCHANGED issued,
           \A s \in Sends : Past(s) =>
                /\ Past(s)' /\ missing'[s] = {}
                /\ oneTime'[s] = oneTime[s] /\ expires'[s] = expires[s]
                /\ consumed[s] # Null => consumed'[s] = consumed[s]
    PROVE  /\ Promises'
           /\ \A g \in issued' : oneTime'[g.send] => consumed'[g.send] # Null
  <1>1. ASSUME NEW g \in issued
        PROVE  /\ g.send \in Sends /\ Past(g.send)
               /\ oneTime[g.send] => consumed[g.send] # Null
    BY DEF CInv, CTypeOK, Promises, Past
  <1> QED
    BY <1>1 DEF CInv, Promises, Past

(* The rest of the invariant, of one send. *)
Settled(s) ==
    /\ Past(s) => missing[s] = {}
    /\ consumed[s] # Null => Past(s)
    /\ s \in condemned => status[s] # "absent" /\ (Over(s) \/ Used(s) \/ Old(s))

LEMMA CInvStep == Durations /\ CInv /\ [CNext]_cvars => CInv'
  <1> SUFFICES ASSUME Durations, CInv, [CNext]_cvars
               PROVE  CInv'
    OBVIOUS
  <1> CTypeOK /\ CTypeOK'
    BY CTypeStep DEF CInv
  <1> DEFINE Opened == \A g \in issued : oneTime[g.send] => consumed[g.send] # Null
  <1>1. (\A s \in Sends : Settled(s)') /\ Promises' /\ Opened' => CInv'
    BY DEF CInv, Settled, CTypeOK
  <1>2. \A s \in Sends : Settled(s)
    BY DEF CInv, Settled
  <1> USE DEF CTypeOK, Past, Settled
  <1>3. ASSUME NEW s \in Sends, NEW parts \in SUBSET Parts, NEW once \in BOOLEAN,
               NEW life \in TTLs, NEW t \in 0 .. now, Open(s, parts, once, life, t)
        PROVE  CInv'
    <2>1. ASSUME NEW u \in Sends PROVE Settled(u)'
      BY <1>2, <1>3 DEF Open, Over, Used, Old
    <2>2. Promises' /\ Opened'
      BY <1>3, PromisesStay DEF Open, CInv
    <2> QED
      BY <1>1, <2>1, <2>2
  <1>4. ASSUME NEW s \in Sends, NEW p \in Parts, Supply(s, p)
        PROVE  CInv'
    <2>1. ASSUME NEW u \in Sends PROVE Settled(u)'
      BY <1>2, <1>4 DEF Supply, Over, Used, Old
    <2>2. Promises' /\ Opened'
      BY <1>4, PromisesStay DEF Supply, CInv
    <2> QED
      BY <1>1, <2>1, <2>2
  <1>5. ASSUME NEW s \in Sends, Seal(s)
        PROVE  CInv'
    <2>1. ASSUME NEW u \in Sends PROVE Settled(u)'
      BY <1>2, <1>5 DEF Seal, Over, Used, Old
    <2>2. Promises' /\ Opened'
      BY <1>5, PromisesStay DEF Seal, CInv
    <2> QED
      BY <1>1, <2>1, <2>2
  <1>6. ASSUME NEW s \in Sends, NEW t \in 0 .. now, Spend(s, t)
        PROVE  CInv'
    <2>1. ASSUME NEW u \in Sends PROVE Settled(u)'
      BY <1>2, <1>6 DEF Spend, Over, Used, Old
    <2>2. Promises' /\ Opened'
      BY <1>6, PromisesStay DEF Spend, CInv
    <2> QED
      BY <1>1, <2>1, <2>2
  <1>7. ASSUME NEW s \in Sends, NEW tok \in Tokens, NEW t \in 0 .. now,
               HandOut(s, tok, t)
        PROVE  CInv'
    <2> DEFINE g == [send |-> s, token |-> tok, expires |-> t + GrantTTL]
    <2>1. ASSUME NEW u \in Sends PROVE Settled(u)'
      BY <1>2, <1>7 DEF HandOut, Over, Used, Old
    <2>2. g.send = s /\ g.token = tok /\ g.expires = t + GrantTTL
      OBVIOUS
    <2>3. /\ issued' = issued \cup {g}
          /\ \A h \in issued : h.token # tok
          /\ oneTime[s] => consumed[s] \in {Null, t} /\ \A h \in issued : h.send # s
          /\ consumed' = [consumed EXCEPT ![s] = IF oneTime[s] THEN t ELSE @]
          /\ UNCHANGED <<status, oneTime, expires, missing>>
          /\ status[s] = "finalized" /\ t < expires[s]
      BY <1>7 DEF HandOut
    <2> HIDE DEF g
    <2>4. \A h \in issued : h.send \in Sends
      OBVIOUS
    <2>5. Opened'
      <3>1. t # Null
        BY DEF Null
      <3>2. ASSUME NEW h \in issued, oneTime[h.send]
            PROVE  consumed'[h.send] # Null
        BY <2>3, <2>4, <3>1, <3>2 DEF CInv
      <3>3. oneTime[s] => consumed'[s] # Null
        BY <2>3, <3>1
      <3> QED
        BY <2>2, <2>3, <3>2, <3>3
    <2>6. Promises'
      <3>1. \A h, k \in issued' :
                /\ h.token = k.token => h = k
                /\ h.send = k.send /\ oneTime'[h.send] => h = k
        BY <2>2, <2>3 DEF CInv, Promises
      <3>2. ASSUME NEW h \in issued
            PROVE  /\ oneTime'[h.send] => h.expires = consumed'[h.send] + GrantTTL
                   /\ h.expires < expires'[h.send] + GrantTTL
                   /\ Past(h.send)' /\ missing'[h.send] = {}
        BY <2>3, <2>4 DEF CInv, Promises
      <3>3. /\ oneTime'[g.send] => g.expires = consumed'[g.send] + GrantTTL
            /\ g.expires < expires'[g.send] + GrantTTL
            /\ Past(g.send)' /\ missing'[g.send] = {}
        BY <1>2, <2>2, <2>3 DEF Durations
      <3> QED
        BY <2>3, <3>1, <3>2, <3>3 DEF Promises
    <2> QED
      BY <1>1, <2>1, <2>5, <2>6
  <1>8. CASE Condemn
    <2>1. ASSUME NEW u \in Sends PROVE Settled(u)'
      BY <1>2, <1>8 DEF Condemn, Due, Live, Over, Used, Old
    <2>2. Promises' /\ Opened'
      BY <1>8, PromisesStay DEF Condemn, CInv
    <2> QED
      BY <1>1, <2>1, <2>2
  <1>9. ASSUME NEW S \in SUBSET Sends, Discard(S)
        PROVE  CInv'
    <2>1. ASSUME NEW u \in Sends PROVE Settled(u)'
      BY <1>2, <1>9 DEF Discard
    <2>2. Promises' /\ Opened'
      BY <1>9, PromisesStay DEF Discard, CInv
    <2> QED
      BY <1>1, <2>1, <2>2
  <1>10. CASE CTick
    <2>1. ASSUME NEW u \in Sends PROVE Settled(u)'
      BY <1>2, <1>10 DEF CTick, Over, Used, Old, Durations
    <2>2. Promises' /\ Opened'
      BY <1>10, PromisesStay DEF CTick, CInv
    <2> QED
      BY <1>1, <2>1, <2>2
  <1>11. CASE UNCHANGED cvars
    BY <1>11 DEF cvars, CInv, Promises, Over, Used, Old
  <1> QED
    BY <1>3, <1>4, <1>5, <1>6, <1>7, <1>8, <1>9, <1>10, <1>11 DEF CNext

LEMMA CInvAlways == Durations => (CSpec => []CInv)
  <1> SUFFICES ASSUME Durations
               PROVE  CSpec => []CInv
    OBVIOUS
  <1>1. CInit => CInv
    BY DEF CInit, CInv, CTypeOK, Promises, Past, Null
  <1>2. CInv /\ [CNext]_cvars => CInv'
    BY CInvStep
  <1> QED
    BY <1>1, <1>2, PTL DEF CSpec

(* Whatever follows the rules hands a one-time link to one token, only     *)
(* complete sends, and grants that begin before the send expires.          *)
THEOREM KeepsPromises == Durations => (CSpec => []Promises)
  <1>1. CInv => Promises
    BY DEF CInv
  <1> QED
    BY <1>1, CInvAlways, PTL

(* And whoever was handed a send that was not condemned keeps it until the *)
(* grant is over, unless the send expires.                                 *)
THEOREM GrantsKept == Durations => (CSpec => GrantsLast)
  <1> SUFFICES ASSUME Durations
               PROVE  CSpec => GrantsLast
    OBVIOUS
  <1> DEFINE Outlasted(g) == Held(g)' \/ g.expires <= now \/ Over(g.send)
  <1>1. ASSUME CInv, CNext, NEW g \in issued, Held(g)
        PROVE  Outlasted(g)
    <2> DEFINE s == g.send
    <2>1. /\ s \in Sends /\ status[s] = "finalized" /\ s \notin condemned
          /\ oneTime[s] => g.expires = consumed[s] + GrantTTL
      BY <1>1 DEF CInv, CTypeOK, Promises, Held, Live
    <2>2. Due(s) => g.expires <= now \/ Over(s)
      BY <2>1 DEF Due, Used
    <2>3. CASE Due(s)
      BY <2>2, <2>3
    <2>4. CASE ~Due(s)
      <3>1. ~(\E S \in SUBSET Sends : s \in S /\ Discard(S))
        BY <2>1, <2>4 DEF Discard
      <3>2. status'[s] = "finalized" /\ s \notin condemned'
        BY <1>1, <2>1, <2>4, <3>1
        DEF CNext, Open, Supply, Seal, Spend, HandOut, Condemn, Discard,
            CTick, CInv, CTypeOK
      <3> QED
        BY <3>2 DEF Held, Live
    <2> QED
      BY <2>3, <2>4
  <1>2. CInv /\ [CNext]_cvars =>
            [\A g \in issued : Held(g) => Outlasted(g)]_cvars
    BY <1>1
  <1> QED
    BY <1>2, CInvAlways, PTL DEF CSpec, GrantsLast
=============================================================================
