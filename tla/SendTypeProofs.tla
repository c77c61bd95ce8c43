--------------------------- MODULE SendTypeProofs ---------------------------
(***************************************************************************)
(* Type correctness of the send store, for every value of the constants.   *)
(***************************************************************************)
EXTENDS SendInvariant, TLAPS

LEMMA InitType == Init => TypeOK
  BY TimesAssumption
  DEF Init, StateInit, BlobInit, TypeOK, StateTypeOK, BlobTypeOK,
      Statuses, Grant, Time, Null, Contents, Bodies, Steps, GcSteps,
      Locals, Blank, Args

(* A step that only moves a request on, or makes it return. *)
LEMMA MoveType ==
    ASSUME TypeOK, NEW r \in Requests, NEW step \in Steps,
           GoTo(r, step) \/ Return(r),
           UNCHANGED <<Rest, stateVars, blobVars, bornInSweep>>
    PROVE  TypeOK'
  <1>1. pc' \in [Requests -> Steps]
    BY DEF TypeOK, GoTo, Return, Steps
  <1>2. req' \in [Requests -> Locals]
    BY DEF TypeOK, GoTo, Return, Locals, Blank, Args, Contents, Time
  <1> QED
    BY <1>1, <1>2
    DEF TypeOK, StateTypeOK, BlobTypeOK, Rest, stateVars, terms, blobVars,
        gcLocals

LEMMA InsertType ==
    ASSUME TypeOK, NEW r \in Requests, NEW s \in Sends,
           NEW parts \in Manifests, NEW once \in BOOLEAN,
           NEW ttl \in TTLs, InsertStep(r, s, parts, once, ttl)
    PROVE  TypeOK'
  <1>1. req[r].time \in Nat /\ req[r].time + ttl \in Nat
    BY TimesAssumption DEF TypeOK, Locals, Time
  <1>2. StateTypeOK'
    BY <1>1
    DEF InsertStep, InsertSend, TypeOK, StateTypeOK, Rest, Statuses, Time,
        Manifests
  <1>3. pc' \in [Requests -> Steps] /\ req' \in [Requests -> Locals]
    BY DEF InsertStep, Return, TypeOK, Steps, Locals, Blank, Args,
           Contents, Time
  <1> QED
    BY <1>2, <1>3
    DEF InsertStep, TypeOK, Rest, gcLocals, BlobTypeOK, blobVars

LEMMA PutType ==
    ASSUME TypeOK, RequestsInv, NEW r \in Requests, PutStep(r)
    PROVE  TypeOK'
  <1> USE DEF TypeOK, StateTypeOK, BlobTypeOK, Rest, stateVars, terms,
              blobVars, gcLocals, Steps, Locals, Args, Blank,
              Contents, Bodies, Time, Arrive, GoTo, Return, Send
  <1>1. ASSUME NEW s \in Sends, NEW p \in Parts, PutStatus(r, s, p)
        PROVE  TypeOK'
    BY <1>1 DEF PutStatus
  <1>2. ASSUME NEW agrees \in BOOLEAN, PutDeclared(r, agrees)
        PROVE  TypeOK'
    <2>1. GoTo(r, "put_mkdir") \/ Return(r)
      BY <1>2 DEF PutDeclared
    <2>2. pc' \in [Requests -> Steps]
      BY <2>1
    <2>3. req' \in [Requests -> Locals]
      BY <2>1
    <2> QED
      BY <1>2, <2>2, <2>3 DEF PutDeclared
  <1>3. CASE PutMkdir(r)
    BY <1>3 DEF PutMkdir, Mkdir, RequestsInv, OnSend, PutAny, PutBlob
  <1>4. CASE PutTemp(r)
    BY <1>4 DEF PutTemp, CreateTemp, RequestsInv, OnSend, PutAny, PutBlob
  <1>5. ASSUME NEW body \in Bodies, PutCopy(r, body)
        PROVE  TypeOK'
    <2>1. CASE Verified(body)
      BY <1>5, <2>1 DEF PutCopy, RequestsInv, OnSend, PutAny, PutBlob
    <2>2. CASE ~Verified(body)
      BY <1>5, <2>2 DEF PutCopy, RemoveTemp, TempsAfter
    <2> QED
      BY <2>1, <2>2
  <1>6. CASE PutPublish(r)
    BY <1>6 DEF PutPublish, Publish, TempsAfter
  <1>7. CASE PutMark(r)
    BY <1>7 DEF PutMark, MarkUploaded
  <1> QED
    BY <1>1, <1>2, <1>3, <1>4, <1>5, <1>6, <1>7 DEF PutStep

LEMMA FinalizeType ==
    ASSUME TypeOK, NEW r \in Requests, FinalizeStep(r)
    PROVE  TypeOK'
  <1> USE DEF TypeOK, StateTypeOK, BlobTypeOK, Rest, stateVars, terms,
              blobVars, gcLocals, Steps, Locals, Args, Blank,
              Contents, Time, Arrive, GoTo, Return
  <1>1. ASSUME NEW s \in Sends, FinStatus(r, s)
        PROVE  TypeOK'
    BY <1>1 DEF FinStatus
  <1>2. CASE FinCount(r)
    BY <1>2 DEF FinCount
  <1>3. CASE FinUpdate(r)
    BY <1>3 DEF FinUpdate, SetFinalized, Statuses
  <1> QED
    BY <1>1, <1>2, <1>3 DEF FinalizeStep

LEMMA RedeemType ==
    ASSUME TypeOK, RequestsInv, NEW r \in Requests, RedeemStep(r)
    PROVE  TypeOK'
  <1> USE DEF TypeOK, StateTypeOK, BlobTypeOK, Rest, stateVars, terms,
              blobVars, gcLocals, Steps, Locals, Args, Blank,
              Contents, Time, Arrive, GoTo, Return
  <1>1. ASSUME NEW s \in Sends, Redeem(r, s)
        PROVE  TypeOK'
    BY <1>1 DEF Redeem
  <1>2. CASE RedLoad(r)
    BY <1>2, MoveType DEF RedLoad
  <1>3. CASE RedConsume(r)
    BY <1>3 DEF RedConsume, Consume
  <1>4. ASSUME NEW tok \in Tokens, RedGrant(r, tok)
        PROVE  TypeOK'
    <2>1. Send(r) \in Sends /\ req[r].time + GrantTTL \in Nat
      BY <1>4, TimesAssumption
      DEF RedGrant, RequestsInv, OnSend, RedAny, Send
    <2>2. grants' \subseteq Grant /\ issued' \subseteq Grant
      BY <1>4, <2>1 DEF RedGrant, InsertGrant, Grant
    <2> QED
      BY <1>4, <2>2 DEF RedGrant, InsertGrant
  <1> QED
    BY <1>1, <1>2, <1>3, <1>4 DEF RedeemStep

LEMMA GetType ==
    ASSUME TypeOK, NEW r \in Requests, GetStep(r)
    PROVE  TypeOK'
  <1> USE DEF TypeOK, StateTypeOK, BlobTypeOK, Rest, stateVars, terms,
              blobVars, gcLocals, Steps, Locals, Args, Blank,
              Contents, Time, Arrive, GoTo, Return
  <1>1. ASSUME NEW s \in Sends, NEW p \in Parts, NEW tok \in Tokens,
               GetGrant(r, s, p, tok)
        PROVE  TypeOK'
    BY <1>1 DEF GetGrant
  <1>2. CASE GetDeclared(r)
    BY <1>2, MoveType DEF GetDeclared
  <1>3. CASE GetOpen(r)
    BY <1>3 DEF GetOpen
  <1> QED
    BY <1>1, <1>2, <1>3 DEF GetStep

LEMMA RequestType ==
    ASSUME TypeOK, RequestsInv, NEW r \in Requests, RequestStep(r)
    PROVE  TypeOK'
  <1>1. CASE Create(r)
    BY <1>1
    DEF Create, Arrive, Args, TypeOK, StateTypeOK, BlobTypeOK, Rest,
        stateVars, terms, blobVars, gcLocals, Steps, Locals, Contents, Time
  <1>2. CASE Abort(r)
    BY <1>2
    DEF Abort, RemoveTemp, TempsAfter, Return, Blank, Args, TypeOK,
        StateTypeOK, BlobTypeOK, Rest, stateVars, terms, gcLocals, Steps,
        Locals, Contents, Time
  <1> QED
    BY <1>1, <1>2, InsertType, PutType, FinalizeType, RedeemType, GetType
    DEF RequestStep

LEMMA GcType ==
    ASSUME TypeOK, GcStep
    PROVE  TypeOK'
  <1> USE DEF TypeOK, StateTypeOK, BlobTypeOK, Others, stateVars, terms,
              blobVars, reqVars, GcSteps
  <1>1. CASE GcSelect
    BY <1>1 DEF GcSelect
  <1>2. CASE GcKeys
    BY <1>2 DEF GcKeys, KeysFor
  <1>3. CASE GcDelete
    BY <1>3 DEF GcDelete, DeleteSends, Statuses
  <1>4. ASSUME NEW k \in Keys, GcPurge(k) \/ GcSweep(k)
        PROVE  TypeOK'
    BY <1>4 DEF GcPurge, GcSweep, DeleteBlob, Contents
  <1>5. CASE GcLive
    BY <1>5 DEF GcLive, LiveStorageKeys, KeysFor
  <1>6. CASE GcList
    BY <1>6 DEF GcList
  <1>7. ASSUME NEW s \in Sends, GcWalk(s)
        PROVE  TypeOK'
    BY <1>7 DEF GcWalk, Listed, KeysOf, Keys
  <1>8. CASE GcDone
    BY <1>8 DEF GcDone
  <1> QED
    BY <1>1, <1>2, <1>3, <1>4, <1>5, <1>6, <1>7, <1>8 DEF GcStep

LEMMA FaultType ==
    ASSUME TypeOK, GcAbort \/ Crash \/ \E k \in Keys : GcSkips(k)
    PROVE  TypeOK'
  <1> USE TimesAssumption
      DEF TypeOK, StateTypeOK, BlobTypeOK, stateVars, terms, blobVars,
          reqVars, GcSteps, Fault, GcRestart
  <1>1. CASE GcAbort
    BY <1>1 DEF GcAbort
  <1>2. ASSUME NEW k \in Keys, GcSkips(k)
        PROVE  TypeOK'
    BY <1>2 DEF GcSkips
  <1>3. CASE Crash
    BY <1>3
    DEF Crash, AbandonTemps, Blank, Args, Locals, Steps, Contents, Time
  <1> QED
    BY <1>1, <1>2, <1>3

(* Every step from a well-typed state, with requests that hold the ids     *)
(* their handlers checked, ends in a well-typed state.                     *)
LEMMA TypeStep ==
    ASSUME TypeOK, RequestsInv, [Next]_vars
    PROVE  TypeOK'
  <1>1. CASE Tick
    BY <1>1
    DEF Tick, TypeOK, StateTypeOK, BlobTypeOK, stateVars, terms, blobVars,
        reqVars, gcLocals, Time
  <1>2. CASE UNCHANGED vars
    BY <1>2
    DEF vars, TypeOK, StateTypeOK, BlobTypeOK, stateVars, terms, blobVars,
        reqVars, gcLocals
  <1> QED
    BY <1>1, <1>2, RequestType, GcType, FaultType DEF Next
=============================================================================
