--------------------------- MODULE ContractProofs ---------------------------
(***************************************************************************)
(* The send store implements SendContract: each step of a handler, of the  *)
(* collector or of the clock is a step of the contract or invisible to it. *)
(***************************************************************************)
EXTENDS SendProofs

missing == [s \in Sends |-> Missing(s)]

LEMMA InitImplements == Init => Contract!CInit
  BY DEF Init, StateInit, Contract!CInit, Contract!Null, Missing, Null

(* What the contract does not look at may move freely.                     *)
LEMMA Invisible ==
    ASSUME UNCHANGED <<now, stateVars, gcIds>>
    PROVE  UNCHANGED Contract!cvars
  BY DEF stateVars, terms, Contract!cvars, Missing

(* When a request makes its statement it has read the clock before.        *)
LEMMA Earlier ==
    ASSUME IInv, NEW r \in Requests
    PROVE  req[r].time \in 0 .. now
  BY DEF IInv, TypeOK, StateTypeOK, Locals, Time, RequestsInv

LEMMA InsertImplements ==
    ASSUME IInv, NEW r \in Requests, NEW s \in Sends,
           NEW parts \in Manifests, NEW once \in BOOLEAN,
           NEW ttl \in TTLs, InsertStep(r, s, parts, once, ttl)
    PROVE  Contract!Open(s, parts, once, ttl, req[r].time)
  <1> TypeOK /\ RowsInv
    BY DEF IInv
  <1>1. uploaded[s] = {}
    BY DEF InsertStep, InsertSend, RowsInv, Stored
  <1>2. missing' = [missing EXCEPT ![s] = parts]
    BY <1>1
    DEF missing, Missing, InsertStep, InsertSend, TypeOK, StateTypeOK
  <1>3. status[s] = "absent" /\ parts # {}
    BY DEF InsertStep, InsertSend, Manifests
  <1>4. /\ status' = [status EXCEPT ![s] = "creating"]
        /\ oneTime' = [oneTime EXCEPT ![s] = once]
        /\ created' = [created EXCEPT ![s] = req[r].time]
        /\ expires' = [expires EXCEPT ![s] = req[r].time + ttl]
        /\ UNCHANGED <<now, consumed, gcIds, issued>>
    BY DEF InsertStep, InsertSend, Rest, gcLocals
  <1> QED
    BY <1>2, <1>3, <1>4 DEF Contract!Open, missing

LEMMA MarkImplements ==
    ASSUME IInv, NEW r \in Requests, PutMark(r)
    PROVE  Contract!Supply(Send(r), req[r].part) \/ UNCHANGED Contract!cvars
  <1> TypeOK /\ RowsInv /\ FinalizedComplete
    BY DEF IInv
  <1> DEFINE s == Send(r)
             p == req[r].part
  <1>1. s \in Sends
    BY DEF IInv, PutMark, RequestsInv, OnSend, PutAny, PutBlob
  <1>2. UNCHANGED <<now, status, oneTime, created, expires, consumed, gcIds,
                    issued>>
    BY DEF PutMark, MarkUploaded, terms, Rest, gcLocals
  <1>3. /\ uploaded' = [uploaded EXCEPT ![s] = @ \cup ({p} \cap declared[s])]
        /\ UNCHANGED declared
    BY DEF PutMark, MarkUploaded
  <1> HIDE DEF s, p
  <1>4. CASE p \in Missing(s)
    <2>1. status[s] = "creating"
      BY <1>1, <1>4 DEF RowsInv, Stored, FinalizedComplete, Missing
    <2>2. missing' = [missing EXCEPT ![s] = @ \ {p}]
      BY <1>1, <1>3, <1>4 DEF missing, Missing, TypeOK, StateTypeOK
    <2>3. Contract!Supply(s, p)
      BY <1>1, <1>2, <1>4, <2>1, <2>2 DEF Contract!Supply, missing
    <2> QED
      BY <2>3 DEF s, p
  <1>5. CASE p \notin Missing(s)
    <2>1. UNCHANGED missing
      BY <1>1, <1>3, <1>5 DEF missing, Missing, TypeOK, StateTypeOK
    <2> QED
      BY <1>2, <2>1 DEF Contract!cvars, missing
  <1> QED
    BY <1>4, <1>5

LEMMA FinalizeImplements ==
    ASSUME IInv, NEW r \in Requests, FinUpdate(r)
    PROVE  Contract!Seal(Send(r)) \/ UNCHANGED Contract!cvars
  <1>1. Send(r) \in Sends /\ Missing(Send(r)) = {}
    BY DEF IInv, FinUpdate, RequestsInv, OnSend, FinAny
  <1>2. UNCHANGED <<now, gcIds>>
    BY DEF FinUpdate, Rest, gcLocals
  <1>3. CASE SetFinalized(Send(r))
    BY <1>1, <1>2, <1>3 DEF SetFinalized, Contract!Seal, Missing, terms
  <1>4. CASE UNCHANGED stateVars
    BY <1>2, <1>4, Invisible
  <1> QED
    BY <1>3, <1>4 DEF FinUpdate

LEMMA ConsumeImplements ==
    ASSUME IInv, NEW r \in Requests, RedConsume(r)
    PROVE  \/ Contract!Spend(Send(r), req[r].time)
           \/ UNCHANGED Contract!cvars
  <1>1. UNCHANGED <<now, gcIds>>
    BY DEF RedConsume, Rest, gcLocals
  <1>2. CASE Consume(Send(r), req[r].time)
    <2>1. expires[Send(r)] \in Nat /\ req[r].time \in Nat
      BY DEF IInv, TypeOK, StateTypeOK, Locals, Time, RedConsume,
             RequestsInv, OnSend, RedAny
    <2> QED
      BY <1>1, <1>2, <2>1
      DEF Consume, Consumable, Redeemable, Contract!Spend, Contract!Null,
          Missing, Null, terms
  <1>3. CASE UNCHANGED stateVars
    BY <1>1, <1>3, Invisible
  <1> QED
    BY <1>2, <1>3 DEF RedConsume

LEMMA GrantImplements ==
    ASSUME IInv, NEW r \in Requests, NEW tok \in Tokens, RedGrant(r, tok)
    PROVE  \/ Contract!HandOut(Send(r), tok, req[r].time)
           \/ UNCHANGED Contract!cvars
  <1> TypeOK
    BY DEF IInv
  <1> DEFINE s == Send(r)
             t == req[r].time
  <1>1. s \in Sends /\ Past(s) /\ t < expires[s]
    BY DEF IInv, RedGrant, RequestsInv, OnSend, RedAny, InTime
  <1>2. UNCHANGED <<now, gcIds>>
    BY DEF RedGrant, Rest, gcLocals
  <1>3. CASE UNCHANGED stateVars
    BY <1>2, <1>3, Invisible
  <1>4. CASE InsertGrant(s, tok, t)
    <2>1. status[s] = "finalized"
      BY <1>1, <1>4 DEF InsertGrant, Stored, Past
    <2>2. oneTime[s] => consumed[s] = t /\ \A g \in issued : g.send # s
      BY <1>1 DEF IInv, OneTimeInv, Entitled, RedGrant
    <2>3. \A g \in issued : g.token # tok
      BY DEF RedGrant
    <2>4. /\ issued' = issued \cup
                {[send |-> s, token |-> tok, expires |-> t + GrantTTL]}
          /\ UNCHANGED <<status, oneTime, created, expires, consumed, missing>>
      BY <1>4 DEF InsertGrant, terms, missing, Missing
    <2> HIDE DEF s, t
    <2>5. consumed' = [consumed EXCEPT ![s] = IF oneTime[s] THEN t ELSE @]
      BY <1>1, <2>2, <2>4 DEF TypeOK, StateTypeOK
    <2>6. Contract!HandOut(s, tok, t)
      BY <1>1, <1>2, <2>1, <2>2, <2>3, <2>4, <2>5
      DEF Contract!HandOut, missing
    <2> QED
      BY <2>6 DEF s, t
  <1> QED
    BY <1>3, <1>4 DEF RedGrant

(* What the collector selects is due; an aborted sweep forgets it.         *)
LEMMA SelectImplements ==
    ASSUME IInv, UNCHANGED <<now, stateVars>>, GcSelect \/ GcRestart
    PROVE  Contract!Condemn
  <1>1. UNCHANGED <<now, status, oneTime, created, expires, consumed, missing,
                    issued>>
    BY DEF stateVars, terms, missing, Missing
  <1>2. CASE GcRestart
    BY <1>1, <1>2 DEF GcRestart, Contract!Condemn, missing
  <1>3. CASE GcSelect
    <2>1. ASSUME NEW s \in Sends, Reapable(s, now)
          PROVE  Contract!Due(s)
      <3>1. /\ now \in Nat /\ created[s] \in Nat /\ expires[s] \in Nat
            /\ consumed[s] \in Nat \cup {-1}
            /\ GrantTTL \in Nat /\ CreatingMaxAge \in Nat
        BY TimesAssumption DEF IInv, TypeOK, StateTypeOK, Time, Null
      <3> QED
        BY <2>1, <3>1
        DEF Reapable, Stored, Spent, Stale, Null, Contract!Due,
            Contract!Live, Contract!Over, Contract!Used, Contract!Old,
            Contract!Null
    <2> QED
      BY <1>1, <1>3, <2>1 DEF GcSelect, Contract!Condemn, missing
  <1> QED
    BY <1>2, <1>3

(* The DELETE discards the sends of gcIds that are stored, and condemns no *)
(* more; were none of them stored, only the latter would show.             *)
LEMMA DeleteImplements ==
    ASSUME IInv, GcDelete
    PROVE  \/ \E S \in SUBSET Sends : Contract!Discard(S)
           \/ Contract!Condemn
  <1> TypeOK /\ RowsInv /\ GcInv
    BY DEF IInv
  <1> DEFINE S == {s \in gcIds : Stored(s)}
  <1>1. S \subseteq Sends /\ S \subseteq gcIds /\ \A s \in S : Stored(s)
    BY DEF TypeOK
  <1>2. status' = [s \in Sends |-> IF s \in S THEN "gone" ELSE status[s]]
    BY DEF GcDelete, DeleteSends, GcInv, Stored, TypeOK, StateTypeOK, Statuses
  <1>3. missing' = [s \in Sends |-> IF s \in S THEN {} ELSE missing[s]]
    BY DEF GcDelete, DeleteSends, RowsInv, missing, Missing
  <1>4. /\ UNCHANGED <<now, oneTime, created, expires, consumed, issued>>
        /\ gcIds' = {}
    BY DEF GcDelete, DeleteSends, terms, Others
  <1> HIDE DEF S
  <1>5. CASE S # {}
    <2>1. Contract!Discard(S)
      BY <1>1, <1>2, <1>3, <1>4, <1>5
      DEF Contract!Discard, Contract!Live, missing, Stored
    <2> QED
      BY <1>1, <2>1
  <1>6. CASE S = {}
    <2>1. status' = status /\ missing' = missing
      BY <1>2, <1>3, <1>6 DEF TypeOK, StateTypeOK, missing
    <2> QED
      BY <1>4, <2>1 DEF Contract!Condemn, missing
  <1> QED
    BY <1>5, <1>6

LEMMA RequestImplements ==
    ASSUME IInv, [Next]_vars, NEW r \in Requests, RequestStep(r)
    PROVE  [Contract!CNext]_Contract!cvars
  <1>1. UNCHANGED <<now, gcIds>>
    BY DEF RequestStep, Create, InsertStep, PutStep, PutStatus, PutDeclared,
           PutMkdir, PutTemp, PutCopy, PutPublish, PutMark, FinalizeStep,
           FinStatus, FinCount, FinUpdate, RedeemStep, Redeem, RedLoad,
           RedConsume, RedGrant, GetStep, GetGrant, GetDeclared, GetOpen,
           Abort, Rest, gcLocals
  <1>2. CASE UNCHANGED stateVars
    BY <1>1, <1>2, Invisible
  <1>3. ASSUME NEW s \in Sends, NEW parts \in Manifests,
               NEW once \in BOOLEAN, NEW ttl \in TTLs,
               InsertStep(r, s, parts, once, ttl)
        PROVE  Contract!CNext
    BY <1>3, InsertImplements, Earlier DEF Contract!CNext, Manifests
  <1>4. ASSUME PutMark(r)
        PROVE  Contract!CNext \/ UNCHANGED Contract!cvars
    <2>1. Send(r) \in Sends /\ req[r].part \in Parts
      BY <1>4 DEF IInv, PutMark, RequestsInv, OnSend, PutAny, PutBlob
    <2> QED
      BY <1>4, <2>1, MarkImplements DEF Contract!CNext
  <1>5. ASSUME FinUpdate(r)
        PROVE  Contract!CNext \/ UNCHANGED Contract!cvars
    <2>1. Send(r) \in Sends
      BY <1>5 DEF IInv, FinUpdate, RequestsInv, OnSend, FinAny
    <2> QED
      BY <1>5, <2>1, FinalizeImplements DEF Contract!CNext
  <1>6. ASSUME RedConsume(r)
        PROVE  Contract!CNext \/ UNCHANGED Contract!cvars
    <2>1. Send(r) \in Sends
      BY <1>6 DEF IInv, RedConsume, RequestsInv, OnSend, RedAny
    <2> QED
      BY <1>6, <2>1, ConsumeImplements, Earlier DEF Contract!CNext
  <1>7. ASSUME NEW tok \in Tokens, RedGrant(r, tok)
        PROVE  Contract!CNext \/ UNCHANGED Contract!cvars
    <2>1. Send(r) \in Sends
      BY <1>7 DEF IInv, RedGrant, RequestsInv, OnSend, RedAny
    <2> QED
      BY <1>7, <2>1, GrantImplements, Earlier DEF Contract!CNext
  <1>8. \/ UNCHANGED stateVars
        \/ \E s \in Sends, parts \in Manifests, once \in BOOLEAN, ttl \in TTLs :
              InsertStep(r, s, parts, once, ttl)
        \/ PutMark(r) \/ FinUpdate(r) \/ RedConsume(r)
        \/ \E tok \in Tokens : RedGrant(r, tok)
    BY DEF RequestStep, Create, PutStep, PutStatus, PutDeclared, PutMkdir,
           PutTemp, PutCopy, PutPublish, FinalizeStep, FinStatus, FinCount,
           RedeemStep, Redeem, RedLoad, GetStep, GetGrant, GetDeclared,
           GetOpen, Abort
  <1> QED
    BY <1>2, <1>3, <1>4, <1>5, <1>6, <1>7, <1>8

LEMMA StepImplements ==
    ASSUME IInv, [Next]_vars
    PROVE  [Contract!CNext]_Contract!cvars
  <1>1. ASSUME NEW r \in Requests, RequestStep(r)
        PROVE  [Contract!CNext]_Contract!cvars
    BY <1>1, RequestImplements
  <1>2. CASE GcSelect \/ GcAbort \/ Crash
    <2>1. /\ GcSelect \/ GcRestart
          /\ UNCHANGED <<now, stateVars>>
      BY <1>2 DEF GcSelect, GcAbort, Crash, Others
    <2> QED
      BY <2>1, SelectImplements DEF Contract!CNext
  <1>3. CASE GcDelete
    BY <1>3, DeleteImplements DEF Contract!CNext
  <1>4. CASE GcStep /\ ~GcSelect /\ ~GcDelete
    BY <1>4, Invisible
    DEF GcStep, GcKeys, GcPurge, GcSweep, GcLive, GcList, GcWalk, GcDone,
        Others
  <1>5. ASSUME NEW k \in Keys, GcSkips(k)
        PROVE  UNCHANGED Contract!cvars
    BY <1>5, Invisible DEF GcSkips
  <1>6. CASE Tick
    <2>1. now' = now + 1 /\ UNCHANGED <<stateVars, gcIds>>
      BY <1>6 DEF Tick, gcLocals
    <2> QED
      BY <2>1
      DEF Contract!CNext, Contract!CTick, stateVars, terms, Missing
  <1>7. CASE UNCHANGED vars
    BY <1>7, Invisible DEF vars, gcLocals
  <1> QED
    BY <1>1, <1>2, <1>3, <1>4, <1>5, <1>6, <1>7 DEF Next

(* Handlers, stores and collector together implement the contract.         *)
THEOREM Refinement == Spec => ImplementsContract
  <1>1. IInv /\ [Next]_vars => [Contract!CNext]_Contract!cvars
    BY StepImplements
  <1> QED
    BY <1>1, InitImplements, Invariance, PTL
    DEF Spec, ImplementsContract, Contract!CSpec

-----------------------------------------------------------------------------
(* What the store inherits from the contract. *)

LEMMA DurationsHold == Contract!Durations
  BY TimesAssumption DEF Contract!Durations

(* One token for a one-time link, complete sends only, and grants that     *)
(* begin when the link is consumed and before the send expires.            *)
THEOREM PromisesKept == Spec => []Contract!Promises
  BY Refinement, DurationsHold, Contract!KeepsPromises, PTL
  DEF ImplementsContract

(* A grant given on a send that the collector has not selected outlasts    *)
(* its sweeps: the send is selected or deleted only once the grant, or the *)
(* send, is over (RedeemSend, DeleteExpired).                              *)
THEOREM GrantsOutlast == Spec => Contract!GrantsLast
  BY Refinement, DurationsHold, Contract!GrantsKept, PTL
  DEF ImplementsContract
=============================================================================
