----------------------------- MODULE SendProofs -----------------------------
(***************************************************************************)
(* The safety properties of the send store, for every value of the         *)
(* constants: IInv holds initially, every step preserves each of its       *)
(* parts, and it implies the properties.                                   *)
(***************************************************************************)
EXTENDS SendTypeProofs

(* The steps that write the tables; all others leave them alone.           *)
LEMMA TableWrites ==
    ASSUME [Next]_vars
    PROVE  \/ UNCHANGED stateVars /\ now' \in {now, now + 1}
           \/ /\ now' = now
              /\ \/ \E r \in Requests :
                      \/ \E s \in Sends, parts \in Manifests,
                            once \in BOOLEAN, ttl \in TTLs :
                              InsertStep(r, s, parts, once, ttl)
                      \/ PutMark(r)
                      \/ FinUpdate(r)
                      \/ RedConsume(r)
                      \/ \E tok \in Tokens : RedGrant(r, tok)
                 \/ GcDelete
  <1>1. ASSUME NEW r \in Requests, PutStep(r)
        PROVE  (UNCHANGED <<stateVars, now>>) \/ (PutMark(r) /\ now' = now)
    BY <1>1
    DEF PutStep, PutStatus, PutDeclared, PutMkdir, PutTemp, PutCopy,
        PutPublish, PutMark, Rest
  <1>2. ASSUME NEW r \in Requests, FinalizeStep(r)
        PROVE  (UNCHANGED <<stateVars, now>>) \/ (FinUpdate(r) /\ now' = now)
    BY <1>2 DEF FinalizeStep, FinStatus, FinCount, FinUpdate, Rest
  <1>3. ASSUME NEW r \in Requests, RedeemStep(r)
        PROVE  \/ UNCHANGED <<stateVars, now>>
               \/ /\ now' = now
                  /\ RedConsume(r) \/ \E tok \in Tokens : RedGrant(r, tok)
    BY <1>3 DEF RedeemStep, Redeem, RedLoad, RedConsume, RedGrant, Rest
  <1>4. ASSUME NEW r \in Requests, GetStep(r)
        PROVE  UNCHANGED <<stateVars, now>>
    BY <1>4 DEF GetStep, GetGrant, GetDeclared, GetOpen, Rest
  <1>5. ASSUME NEW r \in Requests, Create(r) \/ Abort(r)
        PROVE  UNCHANGED <<stateVars, now>>
    BY <1>5 DEF Create, Abort, Rest
  <1>6. ASSUME GcStep
        PROVE  (UNCHANGED <<stateVars, now>>) \/ (GcDelete /\ now' = now)
    BY <1>6
    DEF GcStep, GcSelect, GcKeys, GcDelete, GcPurge, GcSweep, GcLive, GcList,
        GcWalk, GcDone, Others
  <1>7. ASSUME GcAbort \/ Crash \/ \E k \in Keys : GcSkips(k)
        PROVE  UNCHANGED <<stateVars, now>>
    BY <1>7 DEF GcAbort, Crash, GcSkips
  <1>8. CASE Tick
    BY <1>8 DEF Tick
  <1>9. CASE UNCHANGED vars
    BY <1>9 DEF vars
  <1>10. ASSUME NEW r \in Requests, NEW s \in Sends,
                NEW parts \in Manifests, NEW once \in BOOLEAN,
                NEW ttl \in TTLs, InsertStep(r, s, parts, once, ttl)
         PROVE  now' = now
    BY <1>10 DEF InsertStep, Rest
  <1> QED
    BY <1>1, <1>2, <1>3, <1>4, <1>5, <1>6, <1>7, <1>8, <1>9, <1>10
    DEF Next, RequestStep

(* How the tables may move: the life of a send only goes forward, its      *)
(* terms are fixed, a consumed link stays consumed, and parts, once        *)
(* declared, stay and get uploaded until the send is deleted.              *)
Evolves(s) ==
    status[s] # "absent" =>
        /\ status'[s] # "absent"
        /\ Past(s) => Past(s)'
        /\ Stored(s)' => /\ Stored(s)
                         /\ declared'[s] = declared[s]
                         /\ uploaded[s] \subseteq uploaded'[s]
        /\ Missing(s)' \subseteq Missing(s)
        /\ oneTime'[s] <=> oneTime[s]
        /\ created'[s] = created[s]
        /\ expires'[s] = expires[s]
        /\ consumed[s] # Null => consumed'[s] = consumed[s]

LEMMA EvolvesStep ==
    ASSUME TypeOK, RowsInv, [Next]_vars, NEW s \in Sends
    PROVE  Evolves(s)
  <1> USE DEF TypeOK, StateTypeOK, Evolves, Stored, Past, Missing, terms
  <1>1. CASE UNCHANGED stateVars
    BY <1>1 DEF stateVars
  <1>2. ASSUME NEW r \in Requests, NEW u \in Sends,
               NEW parts \in Manifests, NEW once \in BOOLEAN,
               NEW ttl \in TTLs, InsertStep(r, u, parts, once, ttl)
        PROVE  Evolves(s)
    BY <1>2 DEF InsertStep, InsertSend
  <1>3. ASSUME NEW r \in Requests, PutMark(r)
        PROVE  Evolves(s)
    BY <1>3 DEF PutMark, MarkUploaded
  <1>4. ASSUME NEW r \in Requests, FinUpdate(r)
        PROVE  Evolves(s)
    BY <1>4 DEF FinUpdate, SetFinalized, stateVars
  <1>5. ASSUME NEW r \in Requests, RedConsume(r)
        PROVE  Evolves(s)
    BY <1>5 DEF RedConsume, Consume, Consumable, stateVars
  <1>6. ASSUME NEW r \in Requests, NEW tok \in Tokens, RedGrant(r, tok)
        PROVE  Evolves(s)
    BY <1>6 DEF RedGrant, InsertGrant, stateVars
  <1>7. CASE GcDelete
    BY <1>7 DEF GcDelete, DeleteSends
  <1> QED
    BY <1>1, <1>2, <1>3, <1>4, <1>5, <1>6, <1>7, TableWrites

LEMMA ClockStep ==
    ASSUME TypeOK, [Next]_vars
    PROVE  now \in Nat /\ now' \in Nat /\ now <= now'
  BY TableWrites DEF TypeOK, StateTypeOK, Time

-----------------------------------------------------------------------------
(* Tables *)

LEMMA RowsStep ==
    ASSUME IInv, [Next]_vars
    PROVE  RowsInv'
  <1> USE DEF IInv, TypeOK, StateTypeOK, Stored, Past, terms, Time
  <1>1. CASE UNCHANGED stateVars
    BY <1>1, ClockStep DEF stateVars, RowsInv, Null
  <1>2. ASSUME NEW r \in Requests, NEW u \in Sends,
               NEW parts \in Manifests, NEW once \in BOOLEAN,
               NEW ttl \in TTLs, InsertStep(r, u, parts, once, ttl)
        PROVE  RowsInv'
    BY <1>2, ClockStep
    DEF InsertStep, InsertSend, RowsInv, Grant, Rest, Null
  <1>3. ASSUME NEW r \in Requests, PutMark(r)
        PROVE  RowsInv'
    BY <1>3, ClockStep DEF PutMark, MarkUploaded, RowsInv, Grant, Rest
  <1>4. ASSUME NEW r \in Requests, FinUpdate(r)
        PROVE  RowsInv'
    BY <1>4 DEF FinUpdate, SetFinalized, stateVars, RowsInv, Grant, Rest
  <1>5. ASSUME NEW r \in Requests, RedConsume(r)
        PROVE  RowsInv'
    BY <1>5, ClockStep
    DEF RedConsume, Consume, Consumable, Redeemable, stateVars, RowsInv,
        RequestsInv, Locals, Rest
  <1>6. ASSUME NEW r \in Requests, NEW tok \in Tokens, RedGrant(r, tok)
        PROVE  RowsInv'
    BY <1>6, ClockStep
    DEF RedGrant, InsertGrant, stateVars, RowsInv, RequestsInv, OnSend,
        RedAny, Rest
  <1>7. CASE GcDelete
    BY <1>7, ClockStep
    DEF GcDelete, DeleteSends, RowsInv, GcInv, Grant, Others
  <1> QED
    BY <1>1, <1>2, <1>3, <1>4, <1>5, <1>6, <1>7, TableWrites

-----------------------------------------------------------------------------
(* Requests *)

(* What RequestsInv says of one request. *)
Sound(r) ==
    /\ req[r].time <= now
    /\ pc[r] \in OnSend =>
        /\ Send(r) \in Sends
        /\ status[Send(r)] # "absent"
    /\ pc[r] \in PutAny \cup GetAny => req[r].part \in Parts
    /\ pc[r] \in PutBlob \cup {"get_open"} =>
        (Stored(Send(r)) => req[r].part \in declared[Send(r)])
    /\ pc[r] = "fin_update" => Missing(Send(r)) = {}
    /\ pc[r] \in {"red_consume", "red_grant"} \cup GetAny => Past(Send(r))

(* A request that does not move stays sound, whatever moves around it.     *)
LEMMA StaysSound ==
    ASSUME IInv, [Next]_vars, NEW r \in Requests,
           pc'[r] = pc[r], req'[r] = req[r]
    PROVE  Sound(r)'
  <1>1. Sound(r) /\ TypeOK /\ RowsInv
    BY DEF IInv, RequestsInv, Sound
  <1>2. now' >= now /\ req[r].time \in Nat /\ now \in Nat /\ now' \in Nat
    BY <1>1, ClockStep DEF TypeOK, Locals, Time
  <1>3. CASE pc[r] \notin OnSend
    BY <1>1, <1>2, <1>3 DEF Sound, OnSend, PutAny, PutBlob, FinAny, RedAny, GetAny
  <1>4. CASE pc[r] \in OnSend
    <2>1. Send(r)' = Send(r) /\ Send(r) \in Sends
      BY <1>1, <1>4 DEF Send, Sound
    <2>2. Evolves(Send(r))
      BY <1>1, <2>1, EvolvesStep
    <2> QED
      BY <1>1, <1>2, <1>4, <2>1, <2>2
      DEF Sound, Evolves, Send, Stored, Past, Missing
  <1> QED
    BY <1>3, <1>4

(* A request step moves one request, to a place where it is sound.         *)
LEMMA OneMoves ==
    ASSUME TypeOK, NEW r \in Requests, RequestStep(r),
           NEW q \in Requests, q # r
    PROVE  pc'[q] = pc[q] /\ req'[q] = req[q]
  <1> USE DEF TypeOK, Arrive, GoTo, Return
  <1>1. CASE Create(r) \/ Abort(r)
    BY <1>1 DEF Create, Abort
  <1>2. ASSUME NEW s \in Sends, NEW parts \in Manifests,
               NEW once \in BOOLEAN, NEW ttl \in TTLs,
               InsertStep(r, s, parts, once, ttl)
        PROVE  pc'[q] = pc[q] /\ req'[q] = req[q]
    BY <1>2 DEF InsertStep
  <1>3. CASE PutStep(r)
    BY <1>3
    DEF PutStep, PutStatus, PutDeclared, PutMkdir, PutTemp, PutCopy,
        PutPublish, PutMark
  <1>4. CASE FinalizeStep(r)
    BY <1>4 DEF FinalizeStep, FinStatus, FinCount, FinUpdate
  <1>5. CASE RedeemStep(r)
    BY <1>5 DEF RedeemStep, Redeem, RedLoad, RedConsume, RedGrant
  <1>6. CASE GetStep(r)
    BY <1>6 DEF GetStep, GetGrant, GetDeclared, GetOpen
  <1> QED
    BY <1>1, <1>2, <1>3, <1>4, <1>5, <1>6 DEF RequestStep

LEMMA MoverSound ==
    ASSUME IInv, NEW r \in Requests, RequestStep(r)
    PROVE  Sound(r)'
  <1> [Next]_vars /\ TypeOK /\ RowsInv /\ Sound(r)
    BY DEF Next, IInv, RequestsInv, Sound
  <1>idle. ASSUME pc'[r] = "idle", req'[r] = Blank
           PROVE  Sound(r)'
    BY <1>idle, ClockStep
    DEF Sound, Blank, Args, OnSend, PutAny, PutBlob, FinAny, RedAny, GetAny
  <1>return. ASSUME Return(r)
             PROVE  Sound(r)'
    BY <1>return, <1>idle DEF Return, TypeOK
  <1> USE DEF OnSend, PutAny, PutBlob, FinAny, RedAny, GetAny
  <1>1. CASE Create(r)
    BY <1>1, ClockStep DEF Create, Arrive, Args, Sound, TypeOK, Rest
  <1>2. ASSUME NEW s \in Sends, NEW parts \in Manifests,
               NEW once \in BOOLEAN, NEW ttl \in TTLs,
               InsertStep(r, s, parts, once, ttl)
        PROVE  Sound(r)'
    BY <1>2, <1>return DEF InsertStep
  <1>3. CASE PutStep(r)
    <2> USE DEF Sound, TypeOK, Arrive, GoTo, Args, Rest, stateVars, Send,
                Stored, Past, Missing
    <2>1. ASSUME NEW s \in Sends, NEW p \in Parts, PutStatus(r, s, p)
          PROVE  Sound(r)'
      BY <2>1, ClockStep DEF PutStatus
    <2>2. ASSUME NEW agrees \in BOOLEAN, PutDeclared(r, agrees)
          PROVE  Sound(r)'
      BY <2>2, <1>return DEF PutDeclared
    <2>3. CASE PutMkdir(r)
      BY <2>3 DEF PutMkdir
    <2>4. CASE PutTemp(r)
      BY <2>4, <1>return DEF PutTemp
    <2>5. ASSUME NEW body \in Bodies, PutCopy(r, body)
          PROVE  Sound(r)'
      BY <2>5, <1>return, ClockStep DEF PutCopy
    <2>6. CASE PutPublish(r)
      BY <2>6 DEF PutPublish
    <2>7. CASE PutMark(r)
      BY <2>7, <1>return DEF PutMark
    <2> QED
      BY <1>3, <2>1, <2>2, <2>3, <2>4, <2>5, <2>6, <2>7 DEF PutStep
  <1>4. CASE FinalizeStep(r)
    <2> USE DEF Sound, TypeOK, Arrive, GoTo, Args, Rest, stateVars, Send,
                Stored, Past, Missing
    <2>1. ASSUME NEW s \in Sends, FinStatus(r, s)
          PROVE  Sound(r)'
      BY <2>1, ClockStep DEF FinStatus
    <2>2. CASE FinCount(r)
      BY <2>2, <1>return DEF FinCount
    <2>3. CASE FinUpdate(r)
      BY <2>3, <1>return DEF FinUpdate
    <2> QED
      BY <1>4, <2>1, <2>2, <2>3 DEF FinalizeStep
  <1>5. CASE RedeemStep(r)
    <2> USE DEF Sound, TypeOK, Arrive, GoTo, Args, Rest, stateVars, terms,
                Send, Stored, Past, Missing
    <2>1. ASSUME NEW s \in Sends, Redeem(r, s)
          PROVE  Sound(r)'
      BY <2>1, ClockStep DEF Redeem
    <2>2. CASE RedLoad(r)
      BY <2>2, <1>return DEF RedLoad, Redeemable
    <2>3. CASE RedConsume(r)
      BY <2>3, <1>return DEF RedConsume, Consume, Consumable, Redeemable
    <2>4. ASSUME NEW tok \in Tokens, RedGrant(r, tok)
          PROVE  Sound(r)'
      BY <2>4, <1>return DEF RedGrant
    <2> QED
      BY <1>5, <2>1, <2>2, <2>3, <2>4 DEF RedeemStep
  <1>6. CASE GetStep(r)
    <2> USE DEF Sound, TypeOK, Arrive, GoTo, Args, Rest, stateVars, Send,
                Stored, Past, Missing
    <2>1. ASSUME NEW s \in Sends, NEW p \in Parts, NEW tok \in Tokens,
                 GetGrant(r, s, p, tok)
          PROVE  Sound(r)'
      BY <2>1, ClockStep DEF GetGrant, Validates, RowsInv
    <2>2. CASE GetDeclared(r)
      BY <2>2, <1>return DEF GetDeclared
    <2>3. CASE GetOpen(r)
      BY <2>3, <1>return DEF GetOpen
    <2> QED
      BY <1>6, <2>1, <2>2, <2>3 DEF GetStep
  <1>7. CASE Abort(r)
    BY <1>7, <1>return DEF Abort
  <1> QED
    BY <1>1, <1>2, <1>3, <1>4, <1>5, <1>6, <1>7 DEF RequestStep

LEMMA CrashSound ==
    ASSUME IInv, Crash, NEW r \in Requests
    PROVE  Sound(r)'
  BY ClockStep
  DEF IInv, TypeOK, StateTypeOK, Time, Crash, Sound, Blank, Args, OnSend,
      PutAny, PutBlob, FinAny, RedAny, GetAny

(* The steps that are not a request's move none, a crash ends them all.    *)
LEMMA Unmoved ==
    ASSUME [Next]_vars
    PROVE  \/ UNCHANGED reqVars
           \/ Crash
           \/ \E r \in Requests : RequestStep(r)
  BY DEF Next, GcStep, GcSelect, GcKeys, GcDelete, GcPurge, GcSweep, GcLive,
         GcList, GcWalk, GcDone, Others, GcAbort, GcSkips, Tick, vars

LEMMA RequestsStep ==
    ASSUME IInv, [Next]_vars
    PROVE  RequestsInv'
  <1>1. SUFFICES ASSUME NEW r \in Requests
                 PROVE  Sound(r)'
    BY DEF RequestsInv, Sound
  <1>2. CASE UNCHANGED reqVars
    BY <1>2, StaysSound DEF reqVars
  <1>3. CASE Crash
    BY <1>3, CrashSound
  <1>4. ASSUME NEW q \in Requests, RequestStep(q)
        PROVE  Sound(r)'
    BY <1>4, MoverSound, OneMoves, StaysSound DEF IInv
  <1> QED
    BY <1>2, <1>3, <1>4, Unmoved

-----------------------------------------------------------------------------
(* One-time links *)

(* Only consuming the link entitles a request to a grant on a one-time     *)
(* send, and inserting the grant ends its entitlement.                     *)
LEMMA Entitlement ==
    ASSUME IInv, [Next]_vars, NEW s \in Sends, oneTime'[s],
           NEW q \in Requests, Entitled(q, s)'
    PROVE  \/ Entitled(q, s) /\ req'[q] = req[q]
           \/ RedConsume(q) /\ Consume(s, req[q].time) /\ req'[q] = req[q]
  <1> USE DEF Entitled, Send
  <1>1. CASE pc'[q] = pc[q] /\ req'[q] = req[q]
    BY <1>1
  <1>2. CASE Crash
    BY <1>2 DEF Crash
  <1>3. CASE RequestStep(q)
    <2> TypeOK
      BY DEF IInv
    <2> USE DEF Arrive, GoTo, Return, TypeOK
    <2>1. ASSUME ~RedeemStep(q)
          PROVE  FALSE
      BY <1>3, <2>1
      DEF RequestStep, Create, InsertStep, Abort, PutStep, PutStatus,
          PutDeclared, PutMkdir, PutTemp, PutCopy, PutPublish, PutMark,
          FinalizeStep, FinStatus, FinCount, FinUpdate,
          GetStep, GetGrant, GetDeclared, GetOpen
    <2>2. CASE RedConsume(q)
      BY <2>2 DEF RedConsume
    <2>3. CASE RedLoad(q)
      BY <2>3 DEF RedLoad, stateVars, terms
    <2>4. ASSUME NEW u \in Sends, Redeem(q, u)
          PROVE  FALSE
      BY <2>4 DEF Redeem
    <2>5. ASSUME NEW tok \in Tokens, RedGrant(q, tok)
          PROVE  FALSE
      BY <2>5 DEF RedGrant
    <2> QED
      BY <2>1, <2>2, <2>3, <2>4, <2>5 DEF RedeemStep
  <1> QED
    BY <1>1, <1>2, <1>3, Unmoved, OneMoves DEF reqVars, IInv

(* Grants are only added, by a request entitled to its own send.           *)
LEMMA Issuing ==
    ASSUME IInv, [Next]_vars, NEW g \in issued', g \notin issued
    PROVE  \E r \in Requests :
              /\ Entitled(r, g.send)
              /\ pc'[r] = "idle"
              /\ Stored(g.send)
              /\ g.expires = req[r].time + GrantTTL
              /\ issued' = issued \cup {g}
              /\ UNCHANGED <<status, oneTime, consumed, now>>
  <1> USE DEF stateVars, terms
  <1>1. PICK r \in Requests, tok \in Tokens : RedGrant(r, tok) /\ now' = now
    BY TableWrites
    DEF InsertStep, InsertSend, PutMark, MarkUploaded, FinUpdate,
        SetFinalized, RedConsume, Consume, GcDelete, DeleteSends
  <1> QED
    BY <1>1 DEF RedGrant, InsertGrant, Entitled, Return, IInv, TypeOK

LEMMA OneTimeStep ==
    ASSUME IInv, [Next]_vars
    PROVE  OneTimeInv'
  <1> TypeOK /\ RowsInv /\ RequestsInv /\ OneTimeInv
    BY DEF IInv
  <1>1. SUFFICES ASSUME NEW s \in Sends, oneTime'[s]
        PROVE  /\ \A g \in issued' : g.send = s =>
                   /\ consumed'[s] # Null
                   /\ g.expires = consumed'[s] + GrantTTL
               /\ \A r \in Requests : Entitled(r, s)' =>
                   /\ consumed'[s] = req'[r].time
                   /\ \A g \in issued' : g.send # s
                   /\ \A q \in Requests : Entitled(q, s)' => q = r
    BY DEF OneTimeInv, Entitled, Send
  <1>2. Evolves(s)
    BY EvolvesStep
  <1>3. \A r \in Requests : Entitled(r, s) =>
            status[s] # "absent" /\ req[r].time # Null
    BY DEF Entitled, RequestsInv, OnSend, RedAny, TypeOK, Locals, Time, Null
  <1>4. \A g \in issued : g.send = s => status[s] # "absent"
    BY DEF RowsInv, Past
  <1>5. ASSUME NEW g \in issued', g.send = s
        PROVE  consumed'[s] # Null /\ g.expires = consumed'[s] + GrantTTL
    <2>1. CASE g \in issued
      BY <1>1, <1>2, <1>4, <1>5, <2>1 DEF Evolves, OneTimeInv
    <2>2. CASE g \notin issued
      BY <1>1, <1>3, <1>5, <2>2, Issuing DEF OneTimeInv
    <2> QED
      BY <2>1, <2>2
  <1>6. ASSUME NEW r \in Requests, Entitled(r, s)'
        PROVE  /\ consumed'[s] = req'[r].time
               /\ \A g \in issued' : g.send # s
               /\ \A q \in Requests : Entitled(q, s)' => q = r
    <2>1. CASE RedConsume(r) /\ Consume(s, req[r].time) /\ req'[r] = req[r]
      <3>1. oneTime[s] /\ consumed[s] = Null
        BY <2>1 DEF Consume, Consumable
      <3>2. \A g \in issued : g.send # s
        BY <3>1 DEF OneTimeInv
      <3>3. \A q \in Requests : ~Entitled(q, s)
        BY <3>1, <1>3 DEF OneTimeInv
      <3>4. ASSUME NEW q \in Requests, Entitled(q, s)', q # r
            PROVE  FALSE
        <4>1. Entitled(q, s)
          BY <1>1, <2>1, <3>4, Entitlement, OneMoves
          DEF RequestStep, RedeemStep, Entitled, RedConsume, Send
        <4> QED
          BY <3>3, <4>1
      <3> QED
        BY <2>1, <3>2, <3>4 DEF Consume, TypeOK, StateTypeOK
    <2>2. CASE Entitled(r, s) /\ req'[r] = req[r]
      <3>1. oneTime[s] /\ consumed'[s] = req'[r].time
        BY <1>1, <1>2, <1>3, <2>2 DEF Evolves, OneTimeInv
      <3>2. ASSUME NEW g \in issued', g.send = s
            PROVE  FALSE
        <4>1. g \notin issued
          BY <2>2, <3>1, <3>2 DEF OneTimeInv
        <4>2. PICK q \in Requests : Entitled(q, s) /\ pc'[q] = "idle"
          BY <3>2, <4>1, Issuing
        <4>3. q = r
          BY <2>2, <3>1, <4>2 DEF OneTimeInv
        <4> QED
          BY <1>6, <4>2, <4>3 DEF Entitled
      <3>3. ASSUME NEW q \in Requests, Entitled(q, s)'
            PROVE  q = r
        <4>1. CASE Entitled(q, s)
          BY <2>2, <3>1, <4>1 DEF OneTimeInv
        <4>2. CASE Consume(s, req[q].time)
          BY <1>3, <2>2, <3>1, <4>2 DEF Consume, Consumable, OneTimeInv
        <4> QED
          BY <1>1, <3>3, <4>1, <4>2, Entitlement
      <3> QED
        BY <3>1, <3>2, <3>3
    <2> QED
      BY <1>1, <1>6, <2>1, <2>2, Entitlement
  <1> QED
    BY <1>5, <1>6

(* Two grants on a one-time send would have to be issued one after the     *)
(* other; the second finds no request entitled to it.                      *)
LEMMA OneRedemptionStep ==
    ASSUME IInv, [Next]_vars
    PROVE  OneRedemption'
  <1> TypeOK /\ RowsInv /\ OneTimeInv /\ OneRedemption
    BY DEF IInv
  <1>1. SUFFICES ASSUME NEW g \in issued', NEW h \in issued',
                        g.send = h.send, oneTime'[g.send]
                 PROVE  g.token = h.token
    BY DEF OneRedemption
  <1>2. g.send \in Sends
    BY TypeStep DEF IInv, TypeOK, StateTypeOK, Grant
  <1>3. oneTime[g.send]
    BY <1>1, <1>2, EvolvesStep, Issuing DEF Evolves, RowsInv, Past
  <1>4. CASE g \in issued /\ h \in issued
    BY <1>1, <1>3, <1>4 DEF OneRedemption
  <1>5. CASE g \notin issued /\ h \notin issued
    BY <1>5, Issuing
  <1>6. CASE g \in issued /\ h \notin issued
    BY <1>1, <1>2, <1>3, <1>6, Issuing DEF OneTimeInv
  <1>7. CASE g \notin issued /\ h \in issued
    BY <1>1, <1>2, <1>3, <1>7, Issuing DEF OneTimeInv
  <1> QED
    BY <1>4, <1>5, <1>6, <1>7

-----------------------------------------------------------------------------
(* Redeems in time *)

(* What a redeem found of its send does not change while it waits.         *)
LEMMA StaysInTime ==
    ASSUME IInv, [Next]_vars, NEW r \in Requests,
           pc'[r] = pc[r], req'[r] = req[r]
    PROVE  InTime(r)'
  <1> TypeOK /\ RowsInv /\ RequestsInv /\ InTime(r)
    BY DEF IInv
  <1> SUFFICES ASSUME pc[r] \in {"red_consume", "red_grant"}
               PROVE  InTime(r)'
    BY DEF InTime
  <1>1. Send(r) \in Sends /\ status[Send(r)] # "absent"
    BY DEF RequestsInv, OnSend, RedAny
  <1>2. Evolves(Send(r))
    BY <1>1, EvolvesStep
  <1> QED
    BY <1>1, <1>2 DEF InTime, Evolves, Send

LEMMA MoverInTime ==
    ASSUME IInv, NEW r \in Requests, RequestStep(r)
    PROVE  InTime(r)'
  <1> TypeOK /\ InTime(r)
    BY DEF IInv
  <1>1. CASE RedLoad(r)
    BY <1>1
    DEF RedLoad, Redeemable, GoTo, Return, InTime, Send, TypeOK, StateTypeOK,
        Locals, Time, stateVars, terms
  <1>2. CASE RedConsume(r)
    BY <1>2
    DEF RedConsume, Consume, GoTo, Return, InTime, Send, TypeOK, stateVars,
        terms
  <1>3. CASE pc'[r] \notin {"red_consume", "red_grant"}
    BY <1>3 DEF InTime
  <1>4. \/ RedLoad(r) \/ RedConsume(r)
        \/ pc'[r] \notin {"red_consume", "red_grant"}
    BY DEF RequestStep, Create, InsertStep, PutStep, PutStatus, PutDeclared,
           PutMkdir, PutTemp, PutCopy, PutPublish, PutMark, FinalizeStep,
           FinStatus, FinCount, FinUpdate, RedeemStep, Redeem, RedGrant,
           GetStep, GetGrant, GetDeclared, GetOpen, Abort, Arrive, GoTo,
           Return, TypeOK
  <1> QED
    BY <1>1, <1>2, <1>3, <1>4

LEMMA InTimeStep ==
    ASSUME IInv, [Next]_vars, NEW r \in Requests
    PROVE  InTime(r)'
  <1>1. CASE UNCHANGED reqVars
    BY <1>1, StaysInTime DEF reqVars
  <1>2. CASE Crash
    BY <1>2 DEF Crash, InTime
  <1>3. ASSUME NEW q \in Requests, RequestStep(q)
        PROVE  InTime(r)'
    BY <1>3, MoverInTime, OneMoves, StaysInTime DEF IInv
  <1> QED
    BY <1>1, <1>2, <1>3, Unmoved

-----------------------------------------------------------------------------
(* The collector *)

(* What was a reason to delete a send remains one.                         *)
LEMMA StaysDoomed ==
    ASSUME IInv, [Next]_vars, NEW s \in Sends,
           status[s] # "absent", Doomed(s)
    PROVE  Doomed(s)'
  <1>1. Evolves(s)
    BY EvolvesStep DEF IInv
  <1>2. /\ now \in Nat /\ now' \in Nat /\ now <= now'
        /\ created[s] \in Nat /\ expires[s] \in Nat
        /\ consumed[s] \in Nat \cup {Null}
        /\ GrantTTL \in Nat /\ CreatingMaxAge \in Nat
    BY ClockStep, TimesAssumption DEF IInv, TypeOK, StateTypeOK, Time
  <1> QED
    BY <1>1, <1>2 DEF Doomed, Spent, Evolves, Null

LEMMA StaysGone ==
    ASSUME IInv, [Next]_vars, NEW s \in Sends, status[s] = "gone"
    PROVE  status'[s] = "gone"
  BY EvolvesStep DEF IInv, Evolves, Past, Stored

(* The live keys that a sweep read cover every send it may not have seen   *)
(* born.                                                                   *)
Covered == \A s \in Sends \ bornInSweep : KeysFor({s}) \subseteq gcLive

LEMMA BornGrows ==
    ASSUME [Next]_vars
    PROVE  bornInSweep \subseteq bornInSweep'
  BY DEF Next, RequestStep, Create, InsertStep, PutStep, PutStatus,
         PutDeclared, PutMkdir, PutTemp, PutCopy, PutPublish, PutMark,
         FinalizeStep, FinStatus, FinCount, FinUpdate, RedeemStep, Redeem,
         RedLoad, RedConsume, RedGrant, GetStep, GetGrant, GetDeclared,
         GetOpen, Abort, GcStep, GcSelect, GcKeys, GcDelete, GcPurge,
         GcSweep, GcLive, GcList, GcWalk, GcDone, Others, GcAbort, GcSkips,
         Crash, Tick, vars

LEMMA StaysCovered ==
    ASSUME IInv, [Next]_vars, Covered, gcPc \in {"list", "walk"},
           gcLive' = gcLive
    PROVE  Covered'
  <1> TypeOK /\ RowsInv
    BY DEF IInv
  <1>1. SUFFICES ASSUME NEW s \in Sends, s \notin bornInSweep',
                        NEW k \in Keys, SendOf(k) = s,
                        PartOf(k) \in declared'[s]
                 PROVE  k \in gcLive
    BY DEF Covered, KeysFor
  <1>2. s \notin bornInSweep
    BY <1>1, BornGrows
  <1>3. CASE status[s] # "absent"
    <2>1. declared'[s] = {} \/ declared'[s] = declared[s]
      BY <1>3, EvolvesStep, RowsStep DEF Evolves, RowsInv
    <2> QED
      BY <1>1, <1>2, <2>1 DEF Covered, KeysFor
  <1>4. CASE status[s] = "absent"
    <2>1. declared[s] = {}
      BY <1>4 DEF RowsInv, Stored
    <2>2. declared'[s] = {}
      <3>1. CASE UNCHANGED stateVars
        BY <2>1, <3>1 DEF stateVars
      <3>2. ASSUME NEW r \in Requests, NEW u \in Sends,
                   NEW parts \in Manifests, NEW once \in BOOLEAN,
                   NEW ttl \in TTLs, InsertStep(r, u, parts, once, ttl)
            PROVE  declared'[s] = {}
        <4>1. u # s
          BY <1>1, <3>2 DEF InsertStep
        <4> QED
          BY <2>1, <3>2, <4>1
          DEF InsertStep, InsertSend, TypeOK, StateTypeOK
      <3>3. ASSUME NEW r \in Requests, NEW tok \in Tokens, RedGrant(r, tok)
            PROVE  declared'[s] = {}
        BY <2>1, <3>3 DEF RedGrant, InsertGrant, stateVars
      <3>4. ASSUME NEW r \in Requests,
                   PutMark(r) \/ FinUpdate(r) \/ RedConsume(r)
            PROVE  declared'[s] = {}
        BY <2>1, <3>4
        DEF PutMark, MarkUploaded, FinUpdate, SetFinalized, RedConsume,
            Consume, stateVars
      <3>5. CASE GcDelete
        BY <2>1, <3>5 DEF GcDelete, DeleteSends
      <3> QED
        BY <3>1, <3>2, <3>3, <3>4, <3>5, TableWrites
    <2> QED
      BY <1>1, <2>2
  <1> QED
    BY <1>3, <1>4

LEMMA GcMoves ==
    ASSUME [Next]_vars
    PROVE  \/ UNCHANGED gcLocals
           \/ GcStep
           \/ GcRestart
           \/ \E k \in Keys : GcSkips(k)
  BY DEF Next, RequestStep, Create, InsertStep, PutStep, PutStatus,
         PutDeclared, PutMkdir, PutTemp, PutCopy, PutPublish, PutMark,
         FinalizeStep, FinStatus, FinCount, FinUpdate, RedeemStep, Redeem,
         RedLoad, RedConsume, RedGrant, GetStep, GetGrant, GetDeclared,
         GetOpen, Abort, Rest, GcAbort, Crash, Tick, vars

LEMMA GcInvStep ==
    ASSUME IInv, [Next]_vars
    PROVE  GcInv'
  <1> TypeOK /\ GcInv
    BY DEF IInv
  <1>ids. \A s \in gcIds : status'[s] # "absent" /\ Doomed(s)'
    BY StaysDoomed, EvolvesStep DEF GcInv, Evolves, TypeOK, IInv
  <1>gone. \A k \in Keys : status[SendOf(k)] = "gone"
                               => status'[SendOf(k)] = "gone"
    BY StaysGone DEF Keys, SendOf
  <1>live. gcPc \in {"list", "walk"} => Covered
    BY DEF GcInv, Covered
  <1>cover. ASSUME gcPc \in {"list", "walk"}, gcLive' = gcLive
            PROVE  Covered'
    BY <1>cover, <1>live, StaysCovered
  <1>1. CASE UNCHANGED gcLocals
    BY <1>1, <1>ids, <1>gone, <1>cover
    DEF gcLocals, GcInv, TypeOK, Covered
  <1>2. CASE GcRestart
    BY <1>2 DEF GcRestart, GcInv
  <1>3. ASSUME NEW k \in Keys, GcSkips(k)
        PROVE  GcInv'
    BY <1>3, <1>ids, <1>gone, <1>cover DEF GcSkips, GcInv, TypeOK, Covered
  <1>4. CASE GcSelect
    BY <1>4 DEF GcSelect, GcInv, Reapable, Stored, Doomed, Spent, Stale,
                Others, stateVars, terms
  <1>5. CASE GcKeys
    BY <1>5, <1>ids DEF GcKeys, GcInv, KeysFor
  <1>6. CASE GcDelete
    <2>1. \A k \in gcTodo : status'[SendOf(k)] = "gone"
      BY <1>6 DEF GcDelete, DeleteSends, GcInv, TypeOK
    <2> QED
      BY <1>6, <2>1 DEF GcDelete, GcInv
  <1>7. ASSUME NEW k \in Keys, GcPurge(k)
        PROVE  GcInv'
    BY <1>7, <1>gone DEF GcPurge, GcInv, TypeOK
  <1>8. CASE GcLive
    <2>1. Covered'
      BY <1>8 DEF GcLive, LiveStorageKeys, KeysFor, Covered, stateVars
    <2> QED
      BY <1>8, <2>1 DEF GcLive, GcInv, Covered
  <1>9. CASE GcList
    BY <1>9, <1>cover DEF GcList, GcInv, Covered
  <1>10. ASSUME NEW s \in Sends, GcWalk(s)
         PROVE  GcInv'
    BY <1>10, <1>cover DEF GcWalk, GcInv, Covered
  <1>11. ASSUME NEW k \in Keys, GcSweep(k)
         PROVE  GcInv'
    BY <1>11, <1>cover DEF GcSweep, GcInv, Covered
  <1>12. CASE GcDone
    BY <1>12 DEF GcDone, GcInv
  <1> QED
    BY <1>1, <1>2, <1>3, <1>4, <1>5, <1>6, <1>7, <1>8, <1>9, <1>10, <1>11,
       <1>12, GcMoves DEF GcStep

-----------------------------------------------------------------------------
(* Blobs *)

(* The steps that write blobs: publishing one, or the collector deleting   *)
(* one whose send is gone or was not live.                                 *)
LEMMA BlobWrites ==
    ASSUME [Next]_vars
    PROVE  \/ UNCHANGED blobs
           \/ \E r \in Requests : PutPublish(r)
           \/ \E k \in Keys : GcPurge(k) \/ GcSweep(k)
  <1>1. ASSUME NEW r \in Requests, RequestStep(r)
        PROVE  (UNCHANGED blobs) \/ PutPublish(r)
    BY <1>1
    DEF RequestStep, Create, InsertStep, PutStep, PutStatus, PutDeclared,
        PutMkdir, Mkdir, PutTemp, CreateTemp, PutCopy, RemoveTemp, PutMark,
        FinalizeStep, FinStatus, FinCount, FinUpdate, RedeemStep, Redeem,
        RedLoad, RedConsume, RedGrant, GetStep, GetGrant, GetDeclared,
        GetOpen, Abort, blobVars
  <1> QED
    BY <1>1
    DEF Next, GcStep, GcSelect, GcKeys, GcDelete, GcLive, GcList, GcWalk,
        GcDone, GcAbort, GcSkips, Crash, AbandonTemps, Tick, vars, blobVars

(* The collector deletes no blob declared for a send that is stored and    *)
(* was not born in a sweep.                                                *)
LEMMA SparesStored ==
    ASSUME IInv, NEW k \in Keys, GcPurge(k) \/ GcSweep(k),
           NEW s \in Sends \ bornInSweep, NEW p \in declared[s], Stored(s)
    PROVE  StorageKey(s, p) # k
  <1>1. StorageKey(s, p) \in KeysFor({s})
    BY DEF IInv, TypeOK, StateTypeOK, StorageKey, Keys, KeysFor, SendOf, PartOf
  <1>2. SendOf(StorageKey(s, p)) = s
    BY DEF StorageKey, SendOf
  <1> QED
    BY <1>1, <1>2 DEF GcPurge, GcSweep, IInv, GcInv, Stored

LEMMA BlobsStep ==
    ASSUME IInv, [Next]_vars
    PROVE  BlobsInv'
  <1> TypeOK /\ RequestsInv /\ BlobsInv
    BY DEF IInv
  <1>1. \A k \in Keys : blobs'[k] # "other"
    BY BlobWrites
    DEF PutPublish, Publish, GcPurge, GcSweep, DeleteBlob, BlobsInv, TypeOK,
        BlobTypeOK
  <1>2. ASSUME NEW q \in Requests, pc'[q] = pc[q], req'[q] = req[q],
               pc[q] = "put_mark", Stored(Send(q))',
               Send(q) \notin bornInSweep'
        PROVE  blobs'[Key(q)] = "match"
    <2>1. /\ Send(q) \in Sends
          /\ status[Send(q)] # "absent"
          /\ Send(q) \notin bornInSweep
      BY <1>2, BornGrows
      DEF RequestsInv, OnSend, PutAny, PutBlob
    <2>2. Stored(Send(q)) /\ req[q].part \in declared[Send(q)]
      BY <1>2, <2>1, EvolvesStep
      DEF IInv, RequestsInv, PutBlob, Evolves, Stored, Send
    <2>3. blobs[Key(q)] = "match" /\ Key(q) \in Keys
      BY <1>2, <2>1, <2>2
      DEF BlobsInv, Key, Send, StorageKey, Keys, TypeOK, StateTypeOK
    <2>4. CASE \E r \in Requests : PutPublish(r)
      BY <2>3, <2>4
      DEF PutPublish, Publish, BlobsInv, TypeOK, BlobTypeOK
    <2>5. ASSUME NEW k \in Keys, GcPurge(k) \/ GcSweep(k)
          PROVE  blobs'[Key(q)] = "match"
      <3>1. k # Key(q)
        BY <2>1, <2>2, <2>5, SparesStored DEF Key, Send
      <3> QED
        BY <2>3, <2>5, <3>1
        DEF GcPurge, GcSweep, DeleteBlob, TypeOK, BlobTypeOK
    <2> QED
      BY <2>3, <2>4, <2>5, BlobWrites
  <1>3. ASSUME NEW q \in Requests, pc'[q] = pc[q], req'[q] = req[q]
        PROVE  /\ pc'[q] = "put_publish" => req'[q].body = "match"
               /\ (/\ pc'[q] = "put_mark"
                   /\ Stored(Send(q))'
                   /\ Send(q)' \notin bornInSweep')
                    => blobs'[Key(q)'] = "match"
    BY <1>2, <1>3 DEF BlobsInv, Send, Key, Stored
  <1>4. ASSUME NEW q \in Requests, RequestStep(q)
        PROVE  /\ pc'[q] = "put_publish" => req'[q].body = "match"
               /\ pc'[q] = "put_mark" => blobs'[Key(q)'] = "match"
    <2> USE DEF TypeOK, Arrive, GoTo, Return
    <2>1. ASSUME pc'[q] \in {"put_publish", "put_mark"}
          PROVE  PutPublish(q) \/ \E body \in Bodies : PutCopy(q, body)
      BY <1>4, <2>1
      DEF RequestStep, Create, InsertStep, PutStep, PutStatus, PutDeclared,
          PutMkdir, PutTemp, PutMark, FinalizeStep, FinStatus,
          FinCount, FinUpdate, RedeemStep, Redeem, RedLoad, RedConsume,
          RedGrant, GetStep, GetGrant, GetDeclared, GetOpen, Abort
    <2>2. ASSUME PutPublish(q)
          PROVE  pc'[q] = "put_mark" /\ blobs'[Key(q)'] = "match"
      BY <2>2
      DEF PutPublish, Publish, BlobsInv, BlobTypeOK, StateTypeOK, Key, Send,
          StorageKey, Keys, RequestsInv, OnSend, PutAny, PutBlob
    <2>3. ASSUME NEW body \in Bodies, PutCopy(q, body),
                 pc'[q] \in {"put_publish", "put_mark"}
          PROVE  pc'[q] = "put_publish" /\ req'[q].body = "match"
      BY <2>3 DEF PutCopy, Verified, Args
    <2> QED
      BY <2>1, <2>2, <2>3
  <1>5. ASSUME NEW q \in Requests, Crash
        PROVE  pc'[q] = "idle"
    BY <1>5 DEF Crash
  <1> QED
    BY <1>1, <1>3, <1>4, <1>5, Unmoved, OneMoves
    DEF BlobsInv, reqVars

LEMMA UploadSurvivesStep ==
    ASSUME IInv, [Next]_vars
    PROVE  UploadSurvives'
  <1> TypeOK /\ RowsInv /\ UploadSurvives
    BY DEF IInv
  <1> RowsInv' /\ TypeOK'
    BY RowsStep, TypeStep DEF IInv
  <1>1. SUFFICES ASSUME NEW s \in Sends, s \notin bornInSweep',
                        NEW p \in uploaded'[s]
                 PROVE  blobs'[StorageKey(s, p)] = "match"
    BY DEF UploadSurvives
  <1>2. s \notin bornInSweep /\ Stored(s)' /\ p \in Parts
    BY <1>1, BornGrows DEF RowsInv, TypeOK, StateTypeOK
  <1>3. StorageKey(s, p) \in Keys
    BY <1>2 DEF StorageKey, Keys
  <1>4. CASE p \in uploaded[s]
    <2>1. Stored(s) /\ p \in declared[s]
      BY <1>4 DEF RowsInv
    <2>2. blobs[StorageKey(s, p)] = "match"
      BY <1>2, <1>4 DEF UploadSurvives
    <2>3. CASE \E r \in Requests : PutPublish(r)
      BY <1>3, <2>2, <2>3
      DEF PutPublish, Publish, IInv, BlobsInv, TypeOK, BlobTypeOK
    <2>4. ASSUME NEW k \in Keys, GcPurge(k) \/ GcSweep(k)
          PROVE  blobs'[StorageKey(s, p)] = "match"
      BY <1>2, <1>3, <2>1, <2>2, <2>4, SparesStored
      DEF GcPurge, GcSweep, DeleteBlob, TypeOK, BlobTypeOK
    <2> QED
      BY <2>2, <2>3, <2>4, BlobWrites
  <1>5. CASE p \notin uploaded[s]
    <2>1. PICK r \in Requests : PutMark(r)
      <3>1. ASSUME NEW r \in Requests, NEW tok \in Tokens, RedGrant(r, tok)
            PROVE  FALSE
        BY <1>1, <1>5, <3>1 DEF RedGrant, InsertGrant, stateVars
      <3>2. ASSUME NEW r \in Requests, NEW u \in Sends,
                   NEW parts \in Manifests, NEW once \in BOOLEAN,
                   NEW ttl \in TTLs, InsertStep(r, u, parts, once, ttl)
            PROVE  FALSE
        BY <1>1, <1>5, <3>2 DEF InsertStep, InsertSend
      <3>3. CASE GcDelete
        BY <1>1, <1>5, <3>3 DEF GcDelete, DeleteSends
      <3> QED
        BY <1>1, <1>5, <3>1, <3>2, <3>3, TableWrites
        DEF FinUpdate, SetFinalized, RedConsume, Consume, stateVars
    <2>2. s = Send(r) /\ p = req[r].part
      BY <1>1, <1>5, <2>1 DEF PutMark, MarkUploaded, TypeOK, StateTypeOK
    <2>3. Stored(s) /\ blobs'[StorageKey(s, p)] = blobs[StorageKey(s, p)]
      BY <1>2, <2>1 DEF PutMark, MarkUploaded, Stored, blobVars
    <2> QED
      BY <1>2, <2>1, <2>2, <2>3 DEF PutMark, IInv, BlobsInv, Key, Send
  <1> QED
    BY <1>4, <1>5

-----------------------------------------------------------------------------
(* Completeness and readers *)

LEMMA FinalizedCompleteStep ==
    ASSUME IInv, [Next]_vars
    PROVE  FinalizedComplete'
  <1> TypeOK /\ RowsInv /\ RequestsInv
    BY DEF IInv
  <1>1. SUFFICES ASSUME NEW s \in Sends, status'[s] = "finalized"
                 PROVE  Missing(s)' = {}
    BY DEF FinalizedComplete
  <1>2. CASE status[s] = "finalized"
    BY <1>2, EvolvesStep DEF Evolves, IInv, FinalizedComplete
  <1>3. CASE status[s] # "finalized"
    <2>1. PICK r \in Requests : FinUpdate(r)
      <3>1. ASSUME NEW r \in Requests, NEW u \in Sends,
                   NEW parts \in Manifests, NEW once \in BOOLEAN,
                   NEW ttl \in TTLs, InsertStep(r, u, parts, once, ttl)
            PROVE  FALSE
        BY <1>1, <1>3, <3>1
        DEF InsertStep, InsertSend, TypeOK, StateTypeOK
      <3>2. ASSUME NEW r \in Requests, NEW tok \in Tokens, RedGrant(r, tok)
            PROVE  FALSE
        BY <1>1, <1>3, <3>2 DEF RedGrant, InsertGrant, stateVars
      <3>3. CASE GcDelete
        BY <1>1, <1>3, <3>3 DEF GcDelete, DeleteSends
      <3> QED
        BY <1>1, <1>3, <3>1, <3>2, <3>3, TableWrites
        DEF PutMark, MarkUploaded, RedConsume, Consume, stateVars
    <2>2. s = Send(r)
      BY <1>1, <1>3, <2>1
      DEF FinUpdate, SetFinalized, stateVars, TypeOK, StateTypeOK
    <2>3. Missing(s) = {}
      BY <2>1, <2>2 DEF FinUpdate, RequestsInv
    <2> QED
      BY <1>1, <1>3, <2>1, <2>3
      DEF FinUpdate, SetFinalized, stateVars, Missing
  <1> QED
    BY <1>2, <1>3

LEMMA HoldersGrow ==
    ASSUME [Next]_vars, NEW s
    PROVE  HoldersOf(s) \subseteq HoldersOf(s)'
  <1>1. issued \subseteq issued'
    BY TableWrites
    DEF InsertStep, InsertSend, PutMark, MarkUploaded, FinUpdate,
        SetFinalized, RedConsume, Consume, RedGrant, InsertGrant, GcDelete,
        DeleteSends, stateVars
  <1> QED
    BY <1>1 DEF HoldersOf

(* What OneReader says of a download by request r. *)
Reads(r) ==
    oneTime[Send(r)] =>
        /\ req[r].token \in HoldersOf(Send(r))
        /\ consumed[Send(r)] # Null
        /\ consumed[Send(r)] <= req[r].time
        /\ req[r].time < consumed[Send(r)] + GrantTTL

LEMMA StaysReading ==
    ASSUME IInv, [Next]_vars, NEW r \in Requests, pc[r] \in GetAny,
           req'[r] = req[r]
    PROVE  Reads(r)'
  <1>1. Send(r) \in Sends /\ status[Send(r)] # "absent"
    BY DEF IInv, RequestsInv, OnSend
  <1>2. Evolves(Send(r))
    BY <1>1, EvolvesStep DEF IInv
  <1>3. Reads(r)
    BY DEF IInv, OneReader, Reads, GetAny
  <1>4. \A s \in Sends :
            HoldersOf(s) \subseteq {g.token : g \in {h \in issued' : h.send = s}}
    BY HoldersGrow DEF HoldersOf
  <1>5. Send(r)' = Send(r)
    BY DEF Send
  <1> QED
    BY <1>1, <1>2, <1>3, <1>4, <1>5 DEF Reads, Evolves, HoldersOf

LEMMA OneReaderStep ==
    ASSUME IInv, [Next]_vars
    PROVE  OneReader'
  <1> TypeOK /\ RowsInv /\ OneTimeInv
    BY DEF IInv
  <1>1. SUFFICES ASSUME NEW q \in Requests, pc'[q] \in GetAny
                 PROVE  Reads(q)'
    BY DEF OneReader, Reads, GetAny
  <1>2. CASE pc'[q] = pc[q] /\ req'[q] = req[q]
    BY <1>1, <1>2, StaysReading
  <1>3. CASE Crash
    BY <1>1, <1>3 DEF Crash, GetAny
  <1>4. CASE RequestStep(q)
    <2> USE DEF Arrive, GoTo, Return
    <2>1. CASE GetStep(q)
      <3>1. ASSUME NEW s \in Sends, NEW p \in Parts, NEW tok \in Tokens,
                   GetGrant(q, s, p, tok)
            PROVE  Reads(q)'
        <4>1. PICK g \in grants :
                  g.token = tok /\ g.send = s /\ g.expires > now
          BY <3>1 DEF GetGrant, Validates
        <4>2. /\ req'[q].send = s /\ req'[q].token = tok
              /\ req'[q].time = now
              /\ UNCHANGED <<oneTime, consumed, issued>>
          BY <3>1 DEF GetGrant, Args, TypeOK, stateVars, terms
        <4>3. g \in issued /\ tok \in HoldersOf(s)
          BY <4>1 DEF RowsInv, HoldersOf
        <4>4. oneTime[s] => /\ consumed[s] # Null
                            /\ now < consumed[s] + GrantTTL
          BY <4>1, <4>3 DEF OneTimeInv
        <4>5. consumed[s] <= now
          BY DEF RowsInv
        <4> QED
          BY <4>2, <4>3, <4>4, <4>5 DEF Reads, Send, HoldersOf
      <3>2. CASE GetDeclared(q)
        BY <1>1, <3>2, StaysReading DEF GetDeclared, GetAny, TypeOK
      <3>3. CASE GetOpen(q)
        BY <1>1, <3>3 DEF GetOpen, GetAny, TypeOK
      <3> QED
        BY <2>1, <3>1, <3>2, <3>3 DEF GetStep
    <2>2. CASE ~GetStep(q)
      BY <1>1, <1>4, <2>2
      DEF RequestStep, Create, InsertStep, Abort, PutStep, PutStatus,
          PutDeclared, PutMkdir, PutTemp, PutCopy, PutPublish, PutMark,
          FinalizeStep, FinStatus, FinCount, FinUpdate, RedeemStep, Redeem,
          RedLoad, RedConsume, RedGrant, GetAny, TypeOK
    <2> QED
      BY <2>1, <2>2
  <1> QED
    BY <1>2, <1>3, <1>4, Unmoved, OneMoves DEF reqVars

-----------------------------------------------------------------------------
(* Directories *)

(* The file system calls a step makes; all other steps touch no file.      *)
LEMMA FileCalls ==
    ASSUME [Next]_vars
    PROVE  \/ UNCHANGED blobVars /\ UNCHANGED reqVars
           \/ \E k \in Keys : DeleteBlob(k) /\ UNCHANGED reqVars
           \/ Crash
           \/ \E r \in Requests : RequestStep(r)
  BY DEF Next, GcStep, GcSelect, GcKeys, GcDelete, GcPurge, GcSweep, GcLive,
         GcList, GcWalk, GcDone, Others, GcAbort, GcSkips, Tick, vars

(* Of a request's calls those of Put: up to the creation of its temp file  *)
(* it has none, and after that it copies, publishes or gives up.           *)
LEMMA RequestCalls ==
    ASSUME NEW r \in Requests, RequestStep(r)
    PROVE  \/ UNCHANGED blobVars /\ pc[r] \notin {"put_copy", "put_publish"}
           \/ PutMkdir(r)
           \/ PutTemp(r)
           \/ \E body \in Bodies : PutCopy(r, body)
           \/ PutPublish(r)
           \/ Abort(r)
  BY DEF RequestStep, Create, InsertStep, PutStep, PutStatus, PutDeclared,
         PutMark, FinalizeStep, FinStatus, FinCount, FinUpdate, RedeemStep,
         Redeem, RedLoad, RedConsume, RedGrant, GetStep, GetGrant,
         GetDeclared, GetOpen, Arrive

(* Every file is in a directory that exists. *)
Housed ==
    /\ \A x \in temps : x[1] \in dirs
    /\ \A k \in Keys : Present(k) => SendOf(k) \in dirs

(* The upload of request q has its temp file. *)
Holding(q) ==
    pc[q] \in {"put_copy", "put_publish"} => <<Send(q), q>> \in temps

LEMMA RequestHoused ==
    ASSUME IInv, NEW r \in Requests, RequestStep(r)
    PROVE  Housed'
  <1> TypeOK /\ Housed /\ Holding(r)
    BY DEF IInv, DirsInv, Housed, Holding
  <1> USE DEF Housed, Present
  <1>1. CASE UNCHANGED blobVars
    BY <1>1 DEF blobVars
  <1>2. CASE PutMkdir(r)
    BY <1>2 DEF PutMkdir, Mkdir
  <1>3. CASE PutTemp(r)
    BY <1>3 DEF PutTemp, CreateTemp, blobVars
  <1>4. ASSUME NEW body \in Bodies, PutCopy(r, body)
        PROVE  Housed'
    BY <1>4 DEF PutCopy, RemoveTemp, TempsAfter, blobVars
  <1>5. CASE PutPublish(r)
    <2>1. Send(r) \in dirs /\ dirs' = dirs /\ temps' \subseteq temps
      BY <1>5 DEF PutPublish, Publish, TempsAfter, Holding
    <2>2. \A k \in Keys : blobs'[k] # "none" =>
              k = Key(r) \/ blobs[k] # "none"
      BY <1>5 DEF PutPublish, Publish, TypeOK, BlobTypeOK
    <2>3. SendOf(Key(r)) = Send(r)
      BY DEF SendOf, Key, StorageKey, Send
    <2> QED
      BY <2>1, <2>2, <2>3
  <1>6. CASE Abort(r)
    BY <1>6 DEF Abort, RemoveTemp, TempsAfter
  <1> QED
    BY <1>1, <1>2, <1>3, <1>4, <1>5, <1>6, RequestCalls

LEMMA MoverHolding ==
    ASSUME IInv, NEW r \in Requests, RequestStep(r)
    PROVE  Holding(r)'
  <1> TypeOK /\ Holding(r)
    BY DEF IInv, DirsInv, Holding
  <1>1. SUFFICES ASSUME pc'[r] \in {"put_copy", "put_publish"}
                 PROVE  <<Send(r), r>>' \in temps'
    BY DEF Holding, Send
  <1>2. PutTemp(r) \/ \E body \in Bodies : PutCopy(r, body)
    BY <1>1
    DEF RequestStep, Create, InsertStep, PutStep, PutStatus, PutDeclared,
        PutMkdir, PutPublish, PutMark, FinalizeStep, FinStatus, FinCount,
        FinUpdate, RedeemStep, Redeem, RedLoad, RedConsume, RedGrant,
        GetStep, GetGrant, GetDeclared, GetOpen, Abort, Arrive, GoTo,
        Return, TypeOK
  <1>3. CASE PutTemp(r)
    BY <1>1, <1>3
    DEF PutTemp, CreateTemp, GoTo, Return, TypeOK, Send
  <1>4. ASSUME NEW body \in Bodies, PutCopy(r, body)
        PROVE  <<Send(r), r>>' \in temps'
    BY <1>1, <1>4
    DEF PutCopy, Return, Args, Holding, blobVars, TypeOK, Send
  <1> QED
    BY <1>2, <1>3, <1>4

LEMMA BystanderHolding ==
    ASSUME IInv, NEW r \in Requests, RequestStep(r),
           NEW q \in Requests, q # r
    PROVE  Holding(q)'
  <1>1. \A x \in temps : x[2] = q => x \in temps'
    BY RequestCalls
    DEF PutMkdir, Mkdir, PutTemp, CreateTemp, PutCopy, RemoveTemp,
        TempsAfter, PutPublish, Publish, Abort, blobVars
  <1>2. pc'[q] = pc[q] /\ req'[q] = req[q]
    BY OneMoves DEF IInv
  <1> QED
    BY <1>1, <1>2 DEF IInv, DirsInv, Holding, Send

(* The collector empties a directory before it removes it.                 *)
LEMMA DeleteHoused ==
    ASSUME TypeOK, Housed, NEW k \in Keys, DeleteBlob(k)
    PROVE  Housed'
  <1>1. temps' = temps /\ \A j \in Keys :
            blobs'[j] # "none" => blobs[j] # "none" /\ j # k
    BY DEF DeleteBlob, TypeOK, BlobTypeOK
  <1>2. CASE ~Emptied(k)
    BY <1>1, <1>2 DEF DeleteBlob, Housed, Present
  <1>3. CASE Emptied(k)
    <2>1. \A j \in Keys : SendOf(j) = SendOf(k) => j \in KeysOf(SendOf(k))
      BY DEF Keys, KeysOf, SendOf
    <2>2. \A j \in Keys : blobs'[j] # "none" => SendOf(j) # SendOf(k)
      BY <1>1, <1>3, <2>1 DEF Emptied, Present
    <2>3. \A x \in temps : x[1] # SendOf(k)
      BY <1>3 DEF Emptied
    <2> QED
      BY <1>1, <1>3, <2>2, <2>3 DEF DeleteBlob, Housed, Present
  <1> QED
    BY <1>2, <1>3

LEMMA DirsStep ==
    ASSUME IInv, [Next]_vars
    PROVE  DirsInv'
  <1>1. SUFFICES Housed' /\ \A q \in Requests : Holding(q)'
    BY DEF DirsInv, Housed, Holding
  <1>2. TypeOK /\ Housed /\ \A q \in Requests : Holding(q)
    BY DEF IInv, DirsInv, Housed, Holding
  <1>3. CASE UNCHANGED blobVars /\ UNCHANGED reqVars
    BY <1>2, <1>3 DEF Housed, Holding, Present, Send, blobVars, reqVars
  <1>4. ASSUME NEW k \in Keys, DeleteBlob(k), UNCHANGED reqVars
        PROVE  Housed' /\ \A q \in Requests : Holding(q)'
    BY <1>2, <1>4, DeleteHoused DEF DeleteBlob, Holding, Send, reqVars
  <1>5. CASE Crash
    BY <1>2, <1>5 DEF Crash, AbandonTemps, Housed, Holding, Present
  <1>6. ASSUME NEW r \in Requests, RequestStep(r)
        PROVE  Housed' /\ \A q \in Requests : Holding(q)'
    BY <1>6, RequestHoused, MoverHolding, BystanderHolding
  <1> QED
    BY <1>3, <1>4, <1>5, <1>6, FileCalls

-----------------------------------------------------------------------------
(* The theorems *)

LEMMA InitInv == Init => IInv
  <1> SUFFICES ASSUME Init PROVE IInv
    OBVIOUS
  <1>1. TypeOK
    BY InitType
  <1> USE DEF Init, StateInit, BlobInit
  <1>2. RowsInv
    BY DEF RowsInv, Stored, Null
  <1>3. RequestsInv
    BY DEF RequestsInv, Blank, Args, OnSend, PutAny, PutBlob, FinAny, RedAny,
           GetAny
  <1>4. OneTimeInv /\ OneRedemption
    BY DEF OneTimeInv, OneRedemption
  <1>5. BlobsInv /\ DirsInv /\ GcInv
    BY DEF BlobsInv, DirsInv, Present, GcInv
  <1>6. FinalizedComplete /\ UploadSurvives
    BY DEF FinalizedComplete, UploadSurvives
  <1>7. OneReader /\ \A r \in Requests : InTime(r)
    BY DEF OneReader, InTime
  <1> QED
    BY <1>1, <1>2, <1>3, <1>4, <1>5, <1>6, <1>7 DEF IInv

LEMMA InvStep == IInv /\ [Next]_vars => IInv'
  <1> SUFFICES ASSUME IInv, [Next]_vars PROVE IInv'
    OBVIOUS
  <1>1. TypeOK'
    BY TypeStep DEF IInv
  <1> QED
    BY <1>1, RowsStep, RequestsStep, OneTimeStep, InTimeStep, BlobsStep,
       DirsStep, GcInvStep, OneRedemptionStep, FinalizedCompleteStep,
       UploadSurvivesStep, OneReaderStep
    DEF IInv

(* Every reachable state of the send store satisfies the inductive         *)
(* invariant, for any number of sends, parts, requests and faults.         *)
THEOREM Invariance == Spec => []IInv
  BY InitInv, InvStep, PTL DEF Spec

(* Type correctness of the tables, files, handlers and collector.          *)
THEOREM TypeCorrect == Spec => []TypeOK
  <1>1. IInv => TypeOK
    BY DEF IInv
  <1> QED
    BY <1>1, Invariance, PTL

(* A one-time link is redeemed at most once (RedeemSend).                  *)
THEOREM RedeemedOnce == Spec => []OneRedemption
  <1>1. IInv => OneRedemption
    BY DEF IInv
  <1> QED
    BY <1>1, Invariance, PTL

(* No send is finalized with a declared part missing (FinalizeSend).       *)
THEOREM Completeness == Spec => []FinalizedComplete
  <1>1. IInv => FinalizedComplete
    BY DEF IInv
  <1> QED
    BY <1>1, Invariance, PTL

(* Neither purge nor orphan sweep deletes a recorded part of a send that   *)
(* was not inserted between the sweep's two reads (PutPart, OrphanSweep).  *)
THEOREM UploadsSafe == Spec => []UploadSurvives
  <1>1. IInv => UploadSurvives
    BY DEF IInv
  <1> QED
    BY <1>1, Invariance, PTL

(* A download with an accepted grant finds its verified bytes (GetPart).   *)
THEOREM Readable == Spec => []GrantedPartReadable
  <1>1. IInv => GrantedPartReadable
    <2> SUFFICES ASSUME IInv, NEW r \in Requests, pc[r] = "get_open",
                        Stored(Send(r)), Send(r) \notin bornInSweep
                 PROVE  blobs[Key(r)] = "match"
      BY DEF GrantedPartReadable
    <2>1. Send(r) \in Sends /\ status[Send(r)] = "finalized"
      BY DEF IInv, RequestsInv, OnSend, GetAny, Past, Stored
    <2>2. req[r].part \in uploaded[Send(r)]
      BY <2>1
      DEF IInv, RequestsInv, GetAny, FinalizedComplete, Missing
    <2> QED
      BY <2>1, <2>2 DEF IInv, UploadSurvives, Key, Send
  <1> QED
    BY <1>1, Invariance, PTL

(* Bytes of a one-time send reach only the session that redeemed it, and   *)
(* only within its grant (ValidateGrant, GetPart).                         *)
THEOREM ReadByRedeemer == Spec => []OneReader
  <1>1. IInv => OneReader
    BY DEF IInv
  <1> QED
    BY <1>1, Invariance, PTL

(* A link consumed GrantTTL ago has no grant that runs. *)
LEMMA SpentIsOver ==
    ASSUME IInv, NEW s \in Sends, Spent(s, now)
    PROVE  GrantsOver(s)
  <1> TypeOK /\ OneTimeInv
    BY DEF IInv
  <1>1. ASSUME NEW g \in issued, g.send = s
        PROVE  g.expires <= now
    <2>1. g.expires = consumed[s] + GrantTTL
      BY <1>1 DEF OneTimeInv, Spent
    <2>2. consumed[s] \in Nat /\ now \in Nat /\ GrantTTL \in Nat
      BY TimesAssumption DEF TypeOK, StateTypeOK, Spent, Time
    <2> QED
      BY <2>1, <2>2 DEF Spent
  <1> QED
    BY <1>1 DEF Spent, GrantsOver

(* The collector selects only sends that are expired, unfinished at        *)
(* CreatingMaxAge, or consumed with every grant over, and deletes no other *)
(* than those, none with a grant that runs unless it is of that age        *)
(* (DeleteExpired).                                                        *)
THEOREM ReapsDead == Spec => ReapOnlyDead
  <1>1. ASSUME IInv, [Next]_vars, NEW s \in Sends
        PROVE  SelectsDead(s)
    <2> SUFFICES ASSUME s \in gcIds' \ gcIds
                 PROVE  SelectsDead(s)
      BY DEF SelectsDead
    <2>1. GcSelect
      BY <1>1, GcMoves
      DEF GcStep, GcKeys, GcDelete, GcPurge, GcSweep, GcLive, GcList, GcWalk,
          GcDone, GcRestart, GcSkips, gcLocals
    <2>2. Reapable(s, now)
      BY <2>1 DEF GcSelect
    <2> QED
      BY <1>1, <2>2, SpentIsOver DEF SelectsDead, Reapable, Stale, Aged
  <1>2. ASSUME IInv, [Next]_vars, NEW s \in Sends
        PROVE  DeletesDead(s)
    <2> SUFFICES ASSUME Reaped(s)
                 PROVE  DeletesDead(s)
      BY DEF DeletesDead
    <2> TypeOK
      BY <1>2 DEF IInv
    <2>1. GcDelete /\ s \in gcIds
      <3>1. ASSUME NEW r \in Requests, NEW u \in Sends,
                   NEW parts \in Manifests, NEW once \in BOOLEAN,
                   NEW ttl \in TTLs, InsertStep(r, u, parts, once, ttl)
            PROVE  FALSE
        BY <1>2, <3>1
        DEF InsertStep, InsertSend, TypeOK, StateTypeOK, Reaped, Stored
      <3>2. ASSUME NEW r \in Requests, NEW tok \in Tokens, RedGrant(r, tok)
            PROVE  FALSE
        BY <1>2, <3>2 DEF RedGrant, InsertGrant, stateVars, Reaped, Stored
      <3>3. ASSUME NEW r \in Requests, FinUpdate(r)
            PROVE  FALSE
        BY <1>2, <3>3
        DEF FinUpdate, SetFinalized, stateVars, TypeOK, StateTypeOK, Reaped,
            Stored
      <3> QED
        BY <1>2, <3>1, <3>2, <3>3, TableWrites
        DEF PutMark, MarkUploaded, RedConsume, Consume, GcDelete,
            DeleteSends, stateVars, Reaped, Stored
    <2>2. Doomed(s)
      BY <1>2, <2>1 DEF IInv, GcInv
    <2> QED
      BY <1>2, <2>1, <2>2, SpentIsOver DEF DeletesDead, Doomed, Aged
  <1>3. IInv /\ [Next]_vars =>
            [\A s \in Sends : SelectsDead(s) /\ DeletesDead(s)]_vars
    BY <1>1, <1>2
  <1> QED
    BY <1>3, Invariance, PTL DEF Spec, ReapOnlyDead

(* "Already redeemed" is said of a link that was redeemed, or whose send   *)
(* the collector has deleted (RedeemSend's UPDATE).                        *)
THEOREM RefusalsAreRight == Spec => []RefusedLinkWasSpent
  <1>1. IInv => RefusedLinkWasSpent
    BY DEF IInv, RequestsInv, InTime, Past, Consumable, Redeemable,
           RefusedLinkWasSpent
  <1> QED
    BY <1>1, Invariance, PTL

-----------------------------------------------------------------------------
(* Temp files *)

(* What TempsOwned says of one request: it owns a temp file only where it  *)
(* is about to copy into it or to publish it.                              *)
Tidy(r) ==
    \A x \in temps : x[2] = r =>
        pc[r] \in {"put_copy", "put_publish"} /\ Send(r) = x[1]

LEMMA TidyIsOwned ==
    ASSUME TypeOK
    PROVE  TempsOwned <=> \A r \in Requests : Tidy(r)
  BY IdsAssumption DEF TypeOK, BlobTypeOK, TempsOwned, Tidy

LEMMA MoverTidy ==
    ASSUME TypeOK, NEW r \in Requests, RequestStep(r), Tidy(r)
    PROVE  Tidy(r)'
  <1> USE DEF TypeOK, BlobTypeOK, Tidy, Send, blobVars
  <1>1. CASE /\ UNCHANGED blobVars \/ PutMkdir(r)
             /\ pc[r] \notin {"put_copy", "put_publish"}
    BY <1>1 DEF PutMkdir, Mkdir
  <1>2. CASE PutTemp(r)
    BY <1>2 DEF PutTemp, CreateTemp, GoTo, Return
  <1>3. ASSUME NEW body \in Bodies, PutCopy(r, body)
        PROVE  Tidy(r)'
    <2>1. CASE Verified(body)
      BY <1>3, <2>1 DEF PutCopy, Args
    <2>2. CASE ~Verified(body)
      BY <1>3, <2>2 DEF PutCopy, RemoveTemp, TempsAfter
    <2> QED
      BY <2>1, <2>2
  <1>4. CASE PutPublish(r) \/ Abort(r)
    BY <1>4 DEF PutPublish, Publish, Abort, RemoveTemp, TempsAfter
  <1> QED
    BY <1>1, <1>2, <1>3, <1>4, RequestCalls DEF PutMkdir

(* A request creates no temp file for another.                             *)
LEMMA BystanderTidy ==
    ASSUME TypeOK, NEW r \in Requests, RequestStep(r),
           NEW q \in Requests, q # r, Tidy(q)
    PROVE  Tidy(q)'
  <1>1. \A x \in temps' : x[2] = q => x \in temps
    BY RequestCalls
    DEF PutMkdir, Mkdir, PutTemp, CreateTemp, PutCopy, RemoveTemp, TempsAfter, PutPublish,
        Publish, Abort, blobVars
  <1>2. pc'[q] = pc[q] /\ req'[q] = req[q]
    BY OneMoves
  <1> QED
    BY <1>1, <1>2 DEF Tidy, Send

(* Whatever fails, only uploads under way own temp files (Put's defer).    *)
THEOREM TempsHaveOwners == Spec => []TempsOwned
  <1>1. Init => TempsOwned
    BY DEF Init, BlobInit, TempsOwned
  <1>2. ASSUME IInv, TempsOwned, [Next]_vars
        PROVE  TempsOwned'
    <2> TypeOK
      BY <1>2 DEF IInv
    <2> SUFFICES ASSUME NEW q \in Requests
                 PROVE  Tidy(q)'
      <3>1. TypeOK'
        BY <1>2, InvStep DEF IInv
      <3> QED
        BY <3>1, IdsAssumption DEF TypeOK, BlobTypeOK, TempsOwned, Tidy
    <2>1. Tidy(q)
      BY <1>2, TidyIsOwned
    <2>2. CASE UNCHANGED <<temps, reqVars>>
      BY <2>1, <2>2 DEF Tidy, Send, reqVars
    <2>3. CASE Crash
      BY <2>3, IdsAssumption DEF Crash, AbandonTemps, Tidy
    <2>4. ASSUME NEW r \in Requests, RequestStep(r)
          PROVE  Tidy(q)'
      BY <2>1, <2>4, MoverTidy, BystanderTidy
    <2> QED
      BY <1>2, <2>2, <2>3, <2>4, FileCalls DEF DeleteBlob, blobVars
  <1> QED
    BY <1>1, <1>2, Invariance, PTL DEF Spec

-----------------------------------------------------------------------------
(* Progress of the collector, given that it gets to the end of a sweep     *)
(* again and again (SweepsGoOn)                                            *)

(* The sweep under way will delete s, or has not selected yet.             *)
Picked(s) ==
    gcPc = "select" \/ (gcPc \in {"keys", "delete"} /\ s \in gcIds)

LEMMA StaysPicked ==
    ASSUME IInv, [Next]_vars, NEW s \in Sends, Reapable(s, now), Picked(s)
    PROVE  Picked(s)' \/ ~Reapable(s, now)'
  <1>1. CASE UNCHANGED gcLocals
    BY <1>1 DEF Picked, gcLocals
  <1>2. CASE GcRestart
    BY <1>2 DEF GcRestart, Picked
  <1>3. CASE GcSelect
    BY <1>3 DEF GcSelect, Picked
  <1>4. CASE GcKeys
    BY <1>4 DEF GcKeys, Picked
  <1>5. CASE GcDelete
    BY <1>5 DEF GcDelete, DeleteSends, Picked, Reapable, Stored
  <1>6. CASE GcLive \/ GcList \/ GcDone
    BY <1>6 DEF GcLive, GcList, GcDone, Picked
  <1>7. ASSUME NEW k \in Keys, GcPurge(k) \/ GcSweep(k) \/ GcSkips(k)
        PROVE  FALSE
    BY <1>7 DEF GcPurge, GcSweep, GcSkips, Picked
  <1>8. ASSUME NEW u \in Sends, GcWalk(u)
        PROVE  FALSE
    BY <1>8 DEF GcWalk, Picked
  <1> QED
    BY <1>1, <1>2, <1>3, <1>4, <1>5, <1>6, <1>7, <1>8, GcMoves DEF GcStep

(* If sweeps go on, a send that is due does not stay due (DeleteExpired).  *)
THEOREM DueGoes == Spec /\ SweepsGoOn => DueIsReaped
  <1> SUFFICES ASSUME NEW s \in Sends
               PROVE  Spec /\ SweepsGoOn =>
                        (Reapable(s, now) ~> ~Reapable(s, now))
    BY DEF DueIsReaped
  <1>1. IInv /\ [Next]_vars /\ Reapable(s, now) /\ Picked(s)
            => Picked(s)' \/ ~Reapable(s, now)'
    BY StaysPicked
  <1>2. <<GcDone>>_vars => Picked(s)'
    BY DEF GcDone, Picked
  <1>3. Picked(s) => ~<<GcDone>>_vars
    BY DEF GcDone, Picked
  <1> QED
    BY <1>1, <1>2, <1>3, Invariance, PTL DEF Spec, SweepsGoOn

(* The sweep under way will meet the blob of k, or has not listed its      *)
(* directory yet, and will not take it for live.                           *)
Tracked(k) ==
    /\ gcPc \in {"list", "walk"} => k \notin gcLive
    /\ gcPc = "walk" => SendOf(k) \in gcDirs \/ k \in gcTodo

Orphan(k) == Present(k) /\ status[SendOf(k)] = "gone"

LEMMA StaysTracked ==
    ASSUME IInv, [Next]_vars, NEW k \in Keys, Orphan(k), Tracked(k),
           ~GcDeleteFails
    PROVE  Tracked(k)' \/ ~Orphan(k)'
  <1> TypeOK
    BY DEF IInv
  <1>k. SendOf(k) \in Sends /\ k \in KeysOf(SendOf(k))
    BY DEF Keys, KeysOf, SendOf
  <1>1. CASE UNCHANGED gcLocals
    BY <1>1 DEF Tracked, gcLocals
  <1>2. CASE GcRestart
    BY <1>2 DEF GcRestart, Tracked
  <1>3. CASE GcSelect \/ GcKeys \/ GcDelete \/ GcDone
    BY <1>3 DEF GcSelect, GcKeys, GcDelete, GcDone, Tracked
  <1>4. CASE GcLive
    <2>1. k \notin LiveStorageKeys
      BY <1>k DEF IInv, RowsInv, Orphan, Stored, LiveStorageKeys, KeysFor
    <2> QED
      BY <1>4, <2>1 DEF GcLive, Tracked
  <1>5. CASE GcList
    BY <1>5 DEF GcList, Tracked, Orphan, IInv, DirsInv
  <1>6. ASSUME NEW s \in Sends, GcWalk(s)
        PROVE  Tracked(k)'
    <2>1. s = SendOf(k) => k \in Listed(s)
      BY <1>k DEF Listed, Orphan
    <2> QED
      BY <1>6, <2>1 DEF GcWalk, Tracked
  <1>7. ASSUME NEW j \in Keys, GcPurge(j) \/ GcSweep(j)
        PROVE  Tracked(k)' \/ ~Orphan(k)'
    <2>1. CASE j = k
      BY <1>7, <2>1
      DEF GcPurge, GcSweep, DeleteBlob, Orphan, Present, TypeOK, BlobTypeOK
    <2>2. CASE j # k
      BY <1>7, <2>2 DEF GcPurge, GcSweep, Tracked
    <2> QED
      BY <2>1, <2>2
  <1> QED
    BY <1>1, <1>2, <1>3, <1>4, <1>5, <1>6, <1>7, GcMoves
    DEF GcStep, GcDeleteFails

(* If sweeps go on and deletions do not fail for ever, the blob of a send  *)
(* that is gone does not stay (OrphanSweep).                               *)
THEOREM OrphansGo == Spec /\ SweepsGoOn => OrphanCollected
  <1> SUFFICES ASSUME NEW k \in Keys
               PROVE  Spec /\ SweepsGoOn =>
                        ((Present(k) /\ status[SendOf(k)] = "gone")
                            ~> ~Present(k))
    BY DEF OrphanCollected
  <1>1. IInv /\ [Next]_vars /\ [~GcDeleteFails]_vars
        /\ Orphan(k) /\ Tracked(k) => Tracked(k)' \/ ~Orphan(k)'
    <2>1. CASE UNCHANGED vars
      BY <2>1 DEF vars, gcLocals, Tracked
    <2> QED
      BY <2>1, StaysTracked
  <1>2. <<GcDone>>_vars => Tracked(k)'
    BY DEF GcDone, Tracked
  <1>3. Tracked(k) => ~<<GcDone>>_vars
    BY DEF GcDone, Tracked
  <1>4. IInv /\ [Next]_vars /\ Orphan(k) => Orphan(k)' \/ ~Present(k)'
    <2>1. SendOf(k) \in Sends
      BY DEF Keys, SendOf
    <2> QED
      BY <2>1, StaysGone DEF Orphan
  <1>5. Orphan(k) <=> Present(k) /\ status[SendOf(k)] = "gone"
    BY DEF Orphan
  <1> QED
    BY <1>1, <1>2, <1>3, <1>4, <1>5, Invariance, PTL DEF Spec, SweepsGoOn
=============================================================================
