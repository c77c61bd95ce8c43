---------------------------- MODULE ClientProofs ----------------------------
(***************************************************************************)
(* Proofs about the shell client and the API, for any number of loaders,   *)
(* hosts, sends, parts, retries and late requests.                         *)
(***************************************************************************)
EXTENDS ClientInvariant, FiniteSetTheorems, TLAPS

-----------------------------------------------------------------------------
(* Tables *)

Due == {s \in Sends : Reapable(s, now)}

(* The ways in which an endpoint, or the collector, changes the tables.    *)
Writes(s) ==
    \/ InsertSend(s, wish.parts, wish.once, wish.ttl, now)
    \/ \E p : status[s] = "creating" /\ MarkUploaded(s, p)
    \/ Missing(s) = {} /\ SetFinalized(s)
    \/ Consume(s, now)
    \/ \E tok \in Tokens :
        (\A g \in issued : g.token # tok) /\ OpenGrant(s, tok)

TableStep ==
    \/ UNCHANGED stateVars /\ now' \in {now, now + 1}
    \/ UNCHANGED now /\ \E s \in Sends : Writes(s)
    \/ UNCHANGED now /\ DeleteSends(Due)

LEMMA TablesType ==
    ASSUME StateTypeOK, wish \in Wishes, TableStep
    PROVE  StateTypeOK'
  <1> USE TimesAssumption
      DEF StateTypeOK, Time, terms, stateVars, Statuses, Grant
  <1>1. CASE UNCHANGED stateVars /\ now' \in {now, now + 1}
    BY <1>1
  <1>2. ASSUME NEW s \in Sends, UNCHANGED now,
               InsertSend(s, wish.parts, wish.once, wish.ttl, now)
        PROVE  StateTypeOK'
    <2>1. wish.parts \in SUBSET Parts /\ wish.once \in BOOLEAN /\ wish.ttl \in Nat
      BY DEF Wishes, Manifests
    <2> QED
      BY <1>2, <2>1 DEF InsertSend
  <1>3. ASSUME NEW s \in Sends, UNCHANGED now, NEW p, MarkUploaded(s, p)
        PROVE  StateTypeOK'
    BY <1>3 DEF MarkUploaded
  <1>4. ASSUME NEW s \in Sends, UNCHANGED now, SetFinalized(s)
        PROVE  StateTypeOK'
    BY <1>4 DEF SetFinalized
  <1>5. ASSUME NEW s \in Sends, UNCHANGED now, Consume(s, now)
        PROVE  StateTypeOK'
    BY <1>5 DEF Consume
  <1>6. ASSUME NEW s \in Sends, UNCHANGED now, NEW tok \in Tokens,
               OpenGrant(s, tok)
        PROVE  StateTypeOK'
    BY <1>6 DEF OpenGrant
  <1>7. CASE UNCHANGED now /\ DeleteSends(Due)
    BY <1>7 DEF DeleteSends
  <1> QED
    BY <1>1, <1>2, <1>3, <1>4, <1>5, <1>6, <1>7 DEF TableStep, Writes

LEMMA TablesKeep ==
    ASSUME StateTypeOK, TablesInv, wish \in Wishes, TableStep, UNCHANGED wish
    PROVE  TablesInv'
  <1> USE TimesAssumption
      DEF StateTypeOK, TablesInv, Time, Null, terms, stateVars, Missing, Stored,
          Grant
  <1>1. CASE UNCHANGED stateVars /\ now' \in {now, now + 1}
    BY <1>1
  <1>2. ASSUME NEW s \in Sends, UNCHANGED now,
               InsertSend(s, wish.parts, wish.once, wish.ttl, now)
        PROVE  TablesInv'
    BY <1>2 DEF InsertSend, Wishes
  <1>3. ASSUME NEW s \in Sends, UNCHANGED now, NEW p, status[s] = "creating",
               MarkUploaded(s, p)
        PROVE  TablesInv'
    BY <1>3 DEF MarkUploaded
  <1>4. ASSUME NEW s \in Sends, UNCHANGED now, Missing(s) = {}, SetFinalized(s)
        PROVE  TablesInv'
    BY <1>4 DEF SetFinalized
  <1>5. ASSUME NEW s \in Sends, UNCHANGED now, Consume(s, now)
        PROVE  TablesInv'
    BY <1>5 DEF Consume, Consumable
  <1>6. ASSUME NEW s \in Sends, UNCHANGED now, NEW tok \in Tokens,
               OpenGrant(s, tok)
        PROVE  TablesInv'
    BY <1>6 DEF OpenGrant, Consumable, Redeemable
  <1>7. CASE UNCHANGED now /\ DeleteSends(Due)
    BY <1>7 DEF DeleteSends, Due, Reapable
  <1> QED
    BY <1>1, <1>2, <1>3, <1>4, <1>5, <1>6, <1>7 DEF TableStep, Writes

(* What was once finalized stays so, or is given up for a reason.          *)
LEMMA KeptStays ==
    ASSUME StateTypeOK, TablesInv, wish \in Wishes, TableStep, NEW s \in Sends,
           Kept(s)
    PROVE  Kept(s)'
  <1> USE TimesAssumption
      DEF StateTypeOK, TablesInv, Time, Null, terms, stateVars, Kept, Grant
  <1>1. CASE UNCHANGED stateVars /\ now' \in {now, now + 1}
    BY <1>1
  <1>2. ASSUME NEW u \in Sends, UNCHANGED now,
               InsertSend(u, wish.parts, wish.once, wish.ttl, now)
        PROVE  Kept(s)'
    BY <1>2 DEF InsertSend, Wishes
  <1>3. ASSUME NEW u \in Sends, UNCHANGED now, NEW p, MarkUploaded(u, p)
        PROVE  Kept(s)'
    BY <1>3 DEF MarkUploaded
  <1>4. ASSUME NEW u \in Sends, UNCHANGED now, SetFinalized(u)
        PROVE  Kept(s)'
    BY <1>4 DEF SetFinalized
  <1>5. ASSUME NEW u \in Sends, UNCHANGED now, Consume(u, now)
        PROVE  Kept(s)'
    BY <1>5 DEF Consume, Consumable, Redeemable
  <1>6. ASSUME NEW u \in Sends, UNCHANGED now, NEW tok \in Tokens,
               OpenGrant(u, tok)
        PROVE  Kept(s)'
    BY <1>6 DEF OpenGrant, Redeemable
  <1>7. CASE UNCHANGED now /\ DeleteSends(Due)
    BY <1>7 DEF DeleteSends, Due, Reapable, Stored, Spent, Stale
  <1> QED
    BY <1>1, <1>2, <1>3, <1>4, <1>5, <1>6, <1>7 DEF TableStep, Writes

LEMMA IssuedGrows ==
    ASSUME TableStep
    PROVE  issued \subseteq issued'
  BY DEF TableStep, Writes, InsertSend, MarkUploaded, SetFinalized, Consume,
         OpenGrant, DeleteSends, stateVars

-----------------------------------------------------------------------------
(* Answers *)

LEMMA OkFields ==
    ASSUME NEW s, NEW tok
    PROVE  Ok(s, tok).http = 200 /\ Ok(s, tok).token = tok
  BY Zenon DEF Ok, Answer

LEMMA ErrorFields ==
    ASSUME NEW http, NEW code
    PROVE  WriteError(http, code).http = http
  BY Zenon DEF WriteError, Answer

(* What curl reports when it was told nothing that the server said. *)
LEMMA NoAnswer ==
    Silence.http = -1 /\ Gateway.http = 504 /\ Reset.http = 0
  <1>1. Silence.http = -1
    BY ErrorFields, Zenon DEF Silence
  <1>2. Gateway.http = 504
    BY ErrorFields, ZenonT(60) DEF Gateway
  <1>3. Reset.http = 0
    BY ErrorFields, Zenon DEF Reset
  <1> QED
    BY <1>1, <1>2, <1>3

LEMMA RefusalCodes == \A e \in Refusals : e[1] # 201
  BY SMTT(60) DEF Refusals

LEMMA CreatedSend ==
    ASSUME NEW ans \in Answers \cup {Silence, Gateway, Reset}, ans.http = 201
    PROVE  ans.send \in Sends
  <1>e. \A a \in Errors : \E e \in Refusals : a = WriteError(e[1], e[2])
    BY DEF Errors
  <1>c. \A a \in Creations : \E s \in Sends : a = Answer(201, "", s, None)
    BY Zenon DEF Creations
  <1>o. \A a \in Successes :
            \E s \in Sends, tok \in Tokens \cup {None} : a = Ok(s, tok)
    BY DEF Successes
  <1>4. \A e \in Refusals : ans # WriteError(e[1], e[2])
    BY RefusalCodes, ErrorFields
  <1>5. ASSUME NEW s \in Sends, ans = Answer(201, "", s, None)
        PROVE  ans.send \in Sends
    BY <1>5, Zenon DEF Answer
  <1>6. ASSUME NEW s, NEW tok, ans = Ok(s, tok)
        PROVE  FALSE
    BY <1>6, OkFields
  <1>7. ans \notin {Silence, Gateway, Reset}
    BY NoAnswer
  <1> QED
    <2>1. ans \in Errors \/ ans \in Creations \/ ans \in Successes
      BY <1>7 DEF Answers
    <2>2. ans \notin Errors
      BY <1>e, <1>4
    <2>3. ans \notin Successes
      BY <1>o, <1>6
    <2>4. ASSUME ans \in Creations
          PROVE  ans.send \in Sends
      BY <2>4, <1>c, <1>5
    <2> QED
      BY <2>1, <2>2, <2>3, <2>4

LEMMA RefusedFacts ==
    ASSUME NEW err, NEW ans, Fails(err, ans)
    PROVE  ans.http \notin {200, 201} /\ UNCHANGED stateVars
  <1>1. MapStoreError(err)[1] \notin {200, 201}
    BY DEF MapStoreError
  <1> QED
    BY <1>1 DEF Fails, WriteError, Answer

(* What a 200 to the calls that matter says, when its request was served.  *)
Means(q, ans) ==
    /\ q.kind = "finalize" /\ ans.http = 200 => status'[q.send] = "finalized"
    /\ q.kind = "redeem" /\ ans.http = 200 =>
        /\ \A g \in issued : g.token # ans.token
        /\ \E g \in issued' :
            g.token = ans.token /\ g.send = q.send /\ g.expires = now + GrantTTL

LEMMA ServeMeans ==
    ASSUME ClientTypeOK, NEW q \in Query, q.kind # "create" => q.send \in Sends,
           NEW ans, Serve(q, ans)
    PROVE  /\ (UNCHANGED stateVars) \/ \E s \in Sends : Writes(s)
           /\ Means(q, ans)
  <1> USE RefusedFacts DEF Means, ClientTypeOK
  <1>1. ASSUME Declines(ans) \/ Unauthorized(ans)
        PROVE  (UNCHANGED stateVars) /\ ans.http # 200
    BY <1>1 DEF Declines, Unauthorized, WriteError, Answer
  <1>2. ASSUME q.kind = "create", NEW s \in Sends,
               HandleCreate(s, wish.parts, wish.once, wish.ttl, ans)
        PROVE  Writes(s)
    BY <1>2 DEF HandleCreate, Writes
  <1>3. ASSUME q.kind = "upload", HandleUpload(q.send, q.part, ans)
        PROVE  (UNCHANGED stateVars) \/ Writes(q.send)
    BY <1>3 DEF HandleUpload, Writes
  <1>4. ASSUME q.kind = "finalize", HandleFinalize(q.send, ans)
        PROVE  /\ (UNCHANGED stateVars) \/ Writes(q.send)
               /\ ans.http = 200 => status'[q.send] = "finalized"
    <2>1. CASE Missing(q.send) = {} /\ SetFinalized(q.send)
      BY <1>4, <2>1 DEF SetFinalized, StateTypeOK, Writes
    <2>2. CASE status[q.send] = "finalized" /\ UNCHANGED stateVars
      BY <2>2 DEF stateVars
    <2> QED
      BY <1>4, <2>1, <2>2 DEF HandleFinalize
  <1>5. ASSUME q.kind = "redeem", NEW tok \in Tokens,
               HandleRedeem(q.send, tok, ans)
        PROVE  /\ (UNCHANGED stateVars) \/ Writes(q.send)
               /\ Means(q, ans)
    <2>1. CASE /\ \A g \in issued : g.token # tok
               /\ OpenGrant(q.send, tok)
               /\ ans \in {Ok(q.send, tok), WriteError(500, "STORAGE_ERROR")}
      <3>1. Writes(q.send)
        BY <2>1 DEF Writes
      <3>2. ans.http = 200 => ans.token = tok
        BY <2>1, OkFields, ErrorFields
      <3>3. ASSUME ans.http = 200
            PROVE  \E g \in issued' :
                        /\ g.token = tok /\ g.send = q.send
                        /\ g.expires = now + GrantTTL
        <4> DEFINE g == [send |-> q.send, token |-> tok, expires |-> now + GrantTTL]
        <4>1. g \in issued'
          BY <2>1 DEF OpenGrant
        <4> QED
          BY <4>1
      <3> QED
        BY <1>5, <2>1, <3>1, <3>2, <3>3
    <2>2. CASE Consume(q.send, now) /\ ans = WriteError(500, "STORAGE_ERROR")
      BY <1>5, <2>2 DEF Writes, WriteError, Answer
    <2> QED
      BY <1>5, <2>1, <2>2 DEF HandleRedeem
  <1>6. ASSUME q.kind = "get", HandleDownload(q.send, q.part, q.token, ans)
        PROVE  UNCHANGED stateVars
    BY <1>6 DEF HandleDownload
  <1> QED
    BY <1>1, <1>2, <1>3, <1>4, <1>5, <1>6 DEF Serve, Handle

-----------------------------------------------------------------------------
(* One attempt of curl *)

LEMMA QueryFacts ==
    ASSUME ClientTypeOK, CallsInv, NEW p \in Procs, Calling(p)
    PROVE  /\ QueryOf(p) \in Query
           /\ QueryOf(p).kind = step[p]
           /\ QueryOf(p).send = IF p = Saver THEN draft ELSE link
           /\ step[p] # "create" => QueryOf(p).send \in Sends
  <1> USE DEF ClientTypeOK, CallsInv, Procs, Calling, QueryOf
  <1>1. step[p] \in Calls /\ part[p] \in Parts \cup {None}
    OBVIOUS
  <1>2. CASE p = Saver
    <2>1. draft \in Sends \cup {None}
      OBVIOUS
    <2>2. step[p] # "create" => draft \in Sends
      BY <1>1, <1>2 DEF Gated, Ends, Calls
    <2> QED
      BY <1>1, <1>2, <2>1, <2>2 DEF Query
  <1>3. CASE p \in Loaders /\ p # Saver
    <2>1. link \in Sends
      BY <1>1, <1>3 DEF Loading, Ends, Calls
    <2>2. token[p] \in Tokens \cup {None}
      BY <1>3
    <2> QED
      BY <1>1, <1>3, <2>1, <2>2 DEF Query
  <1> QED
    BY <1>2, <1>3

(* What an attempt does: the server may have written, and curl has got an  *)
(* answer, which means what it says, or tries again.                       *)
Attempt(p) ==
    /\ Calling(p)
    /\ UNCHANGED Network
    /\ (UNCHANGED stateVars) \/ \E s \in Sends : Writes(s)
    /\ \E ans \in Answers \cup {Gateway, Reset} :
        Get(p, ans) /\ Means(QueryOf(p), ans)
    /\ late' \in {late, late \cup {QueryOf(p)}}

LEMMA ProcAttempts ==
    ASSUME ClientTypeOK, CallsInv, NEW p \in Procs, ProcStep(p)
    PROVE  Attempt(p)
  <1>1. ASSUME NEW told \in {Gateway, Reset}
        PROVE  Means(QueryOf(p), told)
    BY <1>1, NoAnswer DEF Means
  <1>2. CASE Answered(p)
    <2>1. PICK ans \in Answers : Serve(QueryOf(p), ans) /\ Get(p, ans)
      BY <1>2 DEF Answered
    <2> QED
      BY <1>2, <2>1, QueryFacts, ServeMeans DEF Answered, Attempt
  <1>3. CASE Lost(p)
    <2>1. PICK ans \in Answers : Serve(QueryOf(p), ans)
      BY <1>3 DEF Lost
    <2> QED
      BY <1>1, <1>3, <2>1, QueryFacts, ServeMeans DEF Lost, Attempt
  <1>4. CASE Delayed(p)
    BY <1>1, <1>4 DEF Delayed, Attempt, Network
  <1> QED
    BY <1>2, <1>3, <1>4 DEF ProcStep

LEMMA LateWrites ==
    ASSUME ClientTypeOK, CallsInv, NEW q \in late, ServeLate(q)
    PROVE  (UNCHANGED stateVars) \/ \E s \in Sends : Writes(s)
  BY ServeMeans DEF ServeLate, ClientTypeOK, CallsInv

(* Every step is a step of the tables, and nobody changes their wish.      *)
LEMMA EveryStep ==
    ASSUME ClientTypeOK, CallsInv, [ClientNext]_allVars
    PROVE  TableStep /\ UNCHANGED wish
  <1> USE DEF TableStep, Network, saverVars, apiVars
  <1>1. ASSUME NEW p \in Procs, ProcStep(p)
        PROVE  TableStep /\ UNCHANGED wish
    BY <1>1, ProcAttempts DEF Attempt
  <1>2. CASE Created \/ Uploaded \/ Finalized \/ SaveFails
    BY <1>2 DEF Created, Uploaded, Finalized, SaveFails
  <1>3. ASSUME NEW l \in Loaders,
               Redeemed(l) \/ RedeemFails(l) \/ Downloaded(l) \/ DownloadFails(l)
        PROVE  TableStep /\ UNCHANGED wish
    BY <1>3 DEF Redeemed, RedeemFails, Downloaded, DownloadFails
  <1>4. ASSUME NEW l \in Loaders, NEW h \in Hosts, Begin(l, h)
        PROVE  TableStep /\ UNCHANGED wish
    BY <1>4 DEF Begin
  <1>5. ASSUME NEW q \in late, ServeLate(q)
        PROVE  TableStep /\ UNCHANGED wish
    BY <1>5, LateWrites DEF ServeLate
  <1>6. CASE Sweep /\ UNCHANGED clientVars
    BY <1>6 DEF Sweep, Due, clientVars
  <1>7. CASE ClientTick
    BY <1>7 DEF ClientTick, clientVars
  <1>8. CASE UNCHANGED allVars
    BY <1>8 DEF allVars, clientVars
  <1> QED
    BY <1>1, <1>2, <1>3, <1>4, <1>5, <1>6, <1>7, <1>8
    DEF ClientNext, SaverStep, LoaderStep, Procs

-----------------------------------------------------------------------------
(* Types *)

LEMMA RetriesType == \A call : Retries(call) \in Nat
  BY ClientAssumption DEF Retries

Heard == Answers \cup {Silence, Gateway, Reset}

(* The part of ClientTypeOK about the calls in progress.                   *)
CallTypes ==
    /\ step \in [Procs -> Calls \cup Ends]
    /\ part \in [Procs -> Parts \cup {None}]
    /\ todo \in [Procs -> SUBSET Parts]
    /\ DOMAIN tries = Procs
    /\ \A p \in Procs : tries[p] \in 0 .. Retries(step[p])
    /\ inbox \in [Procs -> Heard]

LEMMA MoveType ==
    ASSUME CallTypes, NEW p \in Procs, NEW next \in Calls \cup Ends,
           NEW nextPart \in Parts \cup {None}, NEW rest \in SUBSET Parts,
           MoveTo(p, next, nextPart, rest)
    PROVE  CallTypes'
  <1>1. \A q \in Procs : tries'[q] \in 0 .. Retries(step'[q])
    <2> SUFFICES ASSUME NEW q \in Procs
                 PROVE  tries'[q] \in 0 .. Retries(step'[q])
      OBVIOUS
    <2>1. CASE q = p
      BY <2>1, RetriesType DEF MoveTo, CallTypes
    <2>2. CASE q # p
      BY <2>2 DEF MoveTo, CallTypes
    <2> QED
      BY <2>1, <2>2
  <1>2. Silence \in Heard
    BY DEF Heard
  <1> QED
    BY <1>1, <1>2 DEF MoveTo, CallTypes

LEMMA GetType ==
    ASSUME CallTypes, NEW p \in Procs, NEW ans \in Answers \cup {Gateway, Reset},
           Get(p, ans), UNCHANGED <<step, part, todo>>
    PROVE  CallTypes'
  <1>1. ans \in Heard
    BY DEF Heard
  <1>2. tries[p] \in Nat /\ Retries(step[p]) \in Nat
    BY RetriesType DEF CallTypes
  <1>3. \A q \in Procs : tries'[q] \in 0 .. Retries(step[q])
    BY <1>2 DEF Get, CallTypes
  <1> QED
    BY <1>1, <1>3 DEF Get, CallTypes

(* ... and about what the saver and the loaders know.                      *)
KnownTypes ==
    /\ wish \in Wishes
    /\ draft \in Sends \cup {None}
    /\ link \in Sends \cup {None}
    /\ host \in [Loaders -> Hosts \cup {None}]
    /\ started \in [Loaders -> Time]
    /\ token \in [Loaders -> Tokens \cup {None}]
    /\ said \in [Loaders -> BOOLEAN]
    /\ cache \in [Hosts -> [exp : Time, token : Tokens \cup {None}]]
    /\ read \subseteq Hosts

LEMMA TypeParts ==
    ClientTypeOK <=> /\ StateTypeOK
                     /\ CallTypes
                     /\ KnownTypes
                     /\ late \subseteq Query
  BY DEF ClientTypeOK, CallTypes, KnownTypes, Heard

LEMMA ExitType ==
    ASSUME CallTypes, KnownTypes, NEW l \in Loaders, NEW end \in Ends,
           NEW printed \in BOOLEAN, Exit(l, end, printed),
           UNCHANGED <<saverVars, cache>>, read' \subseteq Hosts
    PROVE  CallTypes' /\ KnownTypes'
  <1>1. CallTypes'
    BY MoveType DEF Exit, Procs
  <1>2. KnownTypes'
    BY DEF Exit, KnownTypes, saverVars, Time
  <1> QED
    BY <1>1, <1>2

LEMMA SaverType ==
    ASSUME ClientTypeOK, Created \/ Uploaded \/ Finalized \/ SaveFails
    PROVE  CallTypes' /\ KnownTypes' /\ late' \subseteq Query
  <1> CallTypes /\ KnownTypes /\ late \subseteq Query /\ Saver \in Procs
    BY TypeParts DEF Procs
  <1> USE DEF KnownTypes, saverVars, loaderVars
  <1>0. /\ {"upload", "finalize", "done", "failed"} \subseteq Calls \cup Ends
        /\ {} \in SUBSET Parts /\ None \in Parts \cup {None}
    BY DEF Calls, Ends
  <1>1. CASE Created
    <2>1. inbox[Saver].send \in Sends
      BY <1>1, CreatedSend DEF Created, Status, CallTypes, Heard
    <2>2. wish.parts \ {Manifest} \in SUBSET Parts
      BY DEF Wishes, Manifests
    <2>3. CallTypes'
      BY <1>0, <1>1, <2>2, MoveType, ClientAssumption DEF Created
    <2> QED
      BY <1>1, <2>1, <2>3 DEF Created
  <1>2. CASE Uploaded
    <2>1. todo[Saver] \in SUBSET Parts
      BY DEF CallTypes
    <2>2. CASE MoveTo(Saver, "finalize", None, {})
      BY <1>0, <1>2, <2>2, MoveType DEF Uploaded
    <2>3. ASSUME NEW p \in todo[Saver], MoveTo(Saver, "upload", p, todo[Saver] \ {p})
          PROVE  CallTypes'
      BY <1>0, <2>1, <2>3, MoveType
    <2> QED
      BY <1>2, <2>2, <2>3 DEF Uploaded
  <1>3. CASE Finalized
    <2>1. CallTypes'
      BY <1>0, <1>3, MoveType DEF Finalized
    <2> QED
      BY <1>3, <2>1 DEF Finalized
  <1>4. CASE SaveFails
    <2>1. CallTypes'
      BY <1>0, <1>4, MoveType DEF SaveFails
    <2> QED
      BY <1>4, <2>1 DEF SaveFails
  <1> QED
    BY <1>1, <1>2, <1>3, <1>4

(* Having downloaded a part, a loader is done or goes on to another one. *)
LEMMA DownloadChoice ==
    ASSUME NEW l, Downloaded(l)
    PROVE  \E wanted \in IF part[l] = Manifest
                         THEN SUBSET (wish.parts \ {Manifest}) ELSE {todo[l]} :
               \/ Exit(l, "done", TRUE)
               \/ /\ \E p \in wanted : MoveTo(l, "get", p, wanted \ {p})
                  /\ UNCHANGED <<host, started, token, said>>
  BY ZenonT(60) DEF Downloaded

LEMMA DownloadMoves ==
    ASSUME NEW l \in Loaders, CallTypes, KnownTypes, Downloaded(l)
    PROVE  \E wanted \in SUBSET Parts :
               \/ Exit(l, "done", TRUE)
               \/ /\ \E p \in wanted : MoveTo(l, "get", p, wanted \ {p})
                  /\ UNCHANGED <<host, started, token, said>>
  <1> DEFINE choice == IF part[l] = Manifest
                       THEN SUBSET (wish.parts \ {Manifest}) ELSE {todo[l]}
  <1>1. wish.parts \in SUBSET Parts /\ todo[l] \in SUBSET Parts
    BY DEF KnownTypes, Wishes, Manifests, CallTypes, Procs
  <1>2. choice \subseteq SUBSET Parts
    BY <1>1
  <1>3. \E wanted \in choice :
            \/ Exit(l, "done", TRUE)
            \/ /\ \E p \in wanted : MoveTo(l, "get", p, wanted \ {p})
               /\ UNCHANGED <<host, started, token, said>>
    BY DownloadChoice, ZenonT(60)
  <1> HIDE DEF choice
  <1> QED
    BY <1>2, <1>3, ZenonT(60)

LEMMA LoaderType ==
    ASSUME ClientTypeOK, CallsInv, TokensInv, NEW l \in Loaders,
           \/ \E h \in Hosts : Begin(l, h)
           \/ Redeemed(l) \/ RedeemFails(l)
           \/ Downloaded(l) \/ DownloadFails(l)
    PROVE  CallTypes' /\ KnownTypes' /\ late' \subseteq Query
  <1> /\ CallTypes /\ KnownTypes /\ late \subseteq Query /\ l \in Procs
      /\ now \in Time
    BY TypeParts DEF Procs, StateTypeOK
  <1>0. /\ {"get", "redeem"} \subseteq Calls \cup Ends
        /\ {"done", "failed"} \subseteq Ends
        /\ {} \in SUBSET Parts /\ None \in Parts \cup {None}
        /\ Manifest \in Parts \cup {None}
    BY ClientAssumption DEF Calls, Ends
  <1>1. ASSUME NEW h \in Hosts, Begin(l, h)
        PROVE  CallTypes' /\ KnownTypes' /\ late' \subseteq Query
    <2>1. CallTypes'
      BY <1>0, <1>1, MoveType DEF Begin
    <2>2. cache[h].token \in Tokens \cup {None}
      BY DEF KnownTypes
    <2> QED
      BY <1>1, <2>1, <2>2 DEF Begin, KnownTypes, saverVars
  <1>2. CASE Redeemed(l)
    <2>1. CallTypes'
      BY <1>0, <1>2, MoveType DEF Redeemed
    <2>2. inbox[l].token \in Tokens /\ host[l] \in Hosts
      <3>1. step[l] = "redeem" /\ inbox[l].http = 200
        BY <1>2 DEF Redeemed, Returned, Status
      <3>2. GrantedUntil(inbox[l].token, started[l] + GrantTTL)
        BY <3>1 DEF TokensInv, Answering, Status
      <3>3. issued \subseteq Grant
        BY TypeParts DEF StateTypeOK
      <3>4. inbox[l].token \in Tokens
        BY <3>2, <3>3 DEF GrantedUntil, Grant
      <3> QED
        BY <3>1, <3>4 DEF CallsInv, Loading
    <2>3. CacheUntil(l) \in Time
      BY ClientAssumption DEF CacheUntil, KnownTypes, Time
    <2> QED
      BY <1>2, <2>1, <2>2, <2>3 DEF Redeemed, KnownTypes, saverVars
  <1>3. CASE RedeemFails(l)
    <2>1. Exit(l, "failed", Status(l) # 0 \/ tries[l] > 0)
      BY <1>3 DEF RedeemFails
    <2>2. read' \subseteq Hosts /\ UNCHANGED <<saverVars, cache, late>>
      BY <1>3 DEF RedeemFails, KnownTypes
    <2> QED
      BY <1>0, <2>1, <2>2, ExitType
  <1>4. CASE Downloaded(l)
    <2>1. host[l] \in Hosts
      BY <1>4 DEF Downloaded, Returned, CallsInv, Loading
    <2>2. read' \subseteq Hosts /\ UNCHANGED <<saverVars, cache, late>>
      BY <1>4, <2>1 DEF Downloaded, KnownTypes
    <2>3. CASE Exit(l, "done", TRUE)
      BY <1>0, <2>2, <2>3, ExitType
    <2>4. ASSUME NEW wanted \in SUBSET Parts, NEW p \in wanted,
                 MoveTo(l, "get", p, wanted \ {p}),
                 UNCHANGED <<host, started, token, said>>
          PROVE  CallTypes' /\ KnownTypes' /\ late' \subseteq Query
      <3>1. wanted \ {p} \in SUBSET Parts /\ p \in Parts \cup {None}
        OBVIOUS
      <3>2. CallTypes'
        BY <1>0, <2>4, <3>1, MoveType
      <3> QED
        BY <2>2, <2>4, <3>2 DEF KnownTypes, saverVars
    <2>5. PICK wanted \in SUBSET Parts :
              \/ Exit(l, "done", TRUE)
              \/ /\ \E p \in wanted : MoveTo(l, "get", p, wanted \ {p})
                 /\ UNCHANGED <<host, started, token, said>>
      BY <1>4, DownloadMoves
    <2> QED
      BY <2>3, <2>4, <2>5
  <1>5. CASE DownloadFails(l)
    <2>1. Exit(l, "failed", FALSE)
      BY <1>5 DEF DownloadFails
    <2>2. read' \subseteq Hosts /\ UNCHANGED <<saverVars, cache, late>>
      BY <1>5 DEF DownloadFails, KnownTypes
    <2> QED
      BY <1>0, <2>1, <2>2, ExitType
  <1> QED
    BY <1>1, <1>2, <1>3, <1>4, <1>5

LEMMA TypeStep ==
    ASSUME ClientInv, [ClientNext]_allVars
    PROVE  ClientTypeOK'
  <1> /\ ClientTypeOK /\ CallsInv /\ TokensInv
      /\ CallTypes /\ KnownTypes /\ late \subseteq Query
    BY TypeParts DEF ClientInv
  <1>1. StateTypeOK'
    BY EveryStep, TablesType, TypeParts DEF KnownTypes
  <1> SUFFICES CallTypes' /\ KnownTypes' /\ late' \subseteq Query
    BY <1>1 DEF ClientTypeOK, CallTypes, KnownTypes, Heard
  <1>2. ASSUME NEW p \in Procs, ProcStep(p)
        PROVE  CallTypes' /\ KnownTypes' /\ late' \subseteq Query
    <2>1. Attempt(p)
      BY <1>2, ProcAttempts
    <2>2. CallTypes'
      BY <2>1, GetType DEF Attempt, Network
    <2>3. KnownTypes'
      BY <2>1 DEF Attempt, Network, KnownTypes, saverVars, loaderVars
    <2>4. late' \subseteq Query
      BY <2>1, QueryFacts DEF Attempt
    <2> QED
      BY <2>2, <2>3, <2>4
  <1>3. ASSUME NEW q \in late, ServeLate(q)
        PROVE  CallTypes' /\ KnownTypes' /\ late' \subseteq Query
    BY <1>3 DEF ServeLate, Network, CallTypes, KnownTypes, saverVars, loaderVars
  <1>4. ASSUME UNCHANGED clientVars
        PROVE  CallTypes' /\ KnownTypes' /\ late' \subseteq Query
    BY <1>4 DEF clientVars, CallTypes, KnownTypes, saverVars, loaderVars
  <1> QED
    BY <1>2, <1>3, <1>4, SaverType, LoaderType
    DEF ClientNext, SaverStep, LoaderStep, ClientTick, allVars, Procs

-----------------------------------------------------------------------------
(* Calls *)

LEMMA ClockStep ==
    ASSUME ClientInv, [ClientNext]_allVars
    PROVE  now \in Nat /\ now' \in Nat /\ now <= now'
  <1>1. TableStep /\ now \in Nat
    BY EveryStep, TypeParts DEF ClientInv, StateTypeOK, Time
  <1> QED
    BY <1>1 DEF TableStep

LEMMA KeptStep ==
    ASSUME ClientInv, [ClientNext]_allVars, NEW s \in Sends, Kept(s)
    PROVE  Kept(s)'
  BY EveryStep, KeptStays, TypeParts DEF ClientInv, KnownTypes

LEMMA CallsStep ==
    ASSUME ClientInv, [ClientNext]_allVars
    PROVE  CallsInv'
  <1> /\ ClientTypeOK /\ TablesInv /\ CallsInv
      /\ StateTypeOK /\ CallTypes /\ KnownTypes
      /\ now \in Nat /\ now' \in Nat /\ now <= now'
    BY TypeParts, ClockStep DEF ClientInv
  <1>0. \A s \in Sends : Kept(s) => Kept(s)'
    BY KeptStep
  <1>1. \A l \in Loaders : started[l] \in Nat /\ started[l] <= now'
    BY DEF KnownTypes, Time, CallsInv
  <1>2. ASSUME UNCHANGED <<step, draft, link, host, started>>,
               step[Saver] = "finalize" /\ inbox'[Saver].http = 200
                    => Kept(draft)',
               \A q \in late' : q.kind # "create" => q.send \in Sends
        PROVE  CallsInv'
    BY <1>0, <1>1, <1>2 DEF CallsInv, KnownTypes, Status, Loading
  <1>3. ASSUME NEW p \in Procs, ProcStep(p)
        PROVE  CallsInv'
    <2>1. Attempt(p)
      BY <1>3, ProcAttempts
    <2>2. PICK ans \in Answers \cup {Gateway, Reset} :
              Get(p, ans) /\ Means(QueryOf(p), ans)
      BY <2>1 DEF Attempt
    <2>3. \A q \in late' : q.kind # "create" => q.send \in Sends
      BY <2>1, QueryFacts DEF Attempt, CallsInv
    <2>4. \/ inbox'[Saver] = inbox[Saver]
          \/ p = Saver /\ inbox'[Saver] = ans
      BY <2>2 DEF Get, CallTypes, Procs
    <2>5. ASSUME p = Saver, step[Saver] = "finalize", ans.http = 200
          PROVE  Kept(draft)'
      <3>1. QueryOf(p).kind = "finalize" /\ QueryOf(p).send = draft
        BY <2>1, <2>5, QueryFacts DEF Attempt
      <3>2. status'[draft] = "finalized"
        BY <2>2, <2>5, <3>1 DEF Means
      <3>3. draft' = draft
        BY <2>1 DEF Attempt, Network, saverVars
      <3> QED
        BY <3>2, <3>3 DEF Kept
    <2>6. step[Saver] = "finalize" /\ inbox'[Saver].http = 200 => Kept(draft)'
      <3>1. draft' = draft
        BY <2>1 DEF Attempt, Network, saverVars
      <3>2. step[Saver] = "finalize" /\ inbox[Saver].http = 200 => Kept(draft)'
        BY <1>0, <3>1 DEF CallsInv, Status, Kept
      <3> QED
        BY <2>4, <2>5, <3>2
    <2> QED
      BY <2>1, <2>3, <2>6, <1>2 DEF Attempt, Network, saverVars, loaderVars
  <1>4. ASSUME NEW q \in late, ServeLate(q)
        PROVE  CallsInv'
    BY <1>0, <1>2, <1>4
    DEF ServeLate, Network, saverVars, loaderVars, CallsInv, Status
  <1>5. CASE UNCHANGED clientVars
    BY <1>0, <1>2, <1>5 DEF clientVars, saverVars, loaderVars, CallsInv, Status
  <1>6. CASE Created \/ Uploaded \/ Finalized \/ SaveFails
    <2>1. \A l \in Loaders : step'[l] = step[l]
      BY <1>6, ClientAssumption
      DEF Created, Uploaded, Finalized, SaveFails, MoveTo, CallTypes, Procs
    <2>2. UNCHANGED <<late, host, started>> /\ inbox'[Saver] = Silence
      BY <1>6
      DEF Created, Uploaded, Finalized, SaveFails, MoveTo, CallTypes, Procs,
          loaderVars
    <2>3. Silence.http # 200 /\ step[Saver] # "done"
      BY <1>6, NoAnswer
      DEF Created, Uploaded, Finalized, SaveFails, Returned, Gated
    <2>4. link = None /\ \A l \in Loaders : ~Loading(l)
      BY <2>3 DEF CallsInv
    <2>5. /\ step'[Saver] \in Gated \cup Ends
          /\ step'[Saver] \in {"upload", "finalize"} => draft' \in Sends
          /\ link' # None => step'[Saver] = "done" /\ Kept(link)'
      <3>1. CASE Created
        <4>1. inbox[Saver].send \in Sends
          BY <3>1, CreatedSend DEF Created, Status, CallTypes, Heard, Procs
        <4> QED
          BY <2>4, <3>1, <4>1
          DEF Created, MoveTo, CallTypes, Procs, Gated
      <3>2. CASE Uploaded
        <4>1. draft \in Sends
          BY <3>2 DEF Uploaded, Returned, CallsInv
        <4> QED
          BY <2>4, <3>2, <4>1
          DEF Uploaded, MoveTo, CallTypes, Procs, Gated, saverVars
      <3>3. CASE Finalized
        <4>1. draft \in Sends /\ Kept(draft)
          BY <3>3 DEF Finalized, Returned, CallsInv
        <4> QED
          BY <1>0, <3>3, <4>1
          DEF Finalized, MoveTo, CallTypes, Procs, Ends, Kept, apiVars,
              stateVars, terms
      <3>4. CASE SaveFails
        BY <2>4, <3>4
        DEF SaveFails, MoveTo, CallTypes, Procs, Ends, saverVars
      <3> QED
        BY <1>6, <3>1, <3>2, <3>3, <3>4
    <2> QED
      BY <1>1, <2>1, <2>2, <2>3, <2>4, <2>5 DEF CallsInv, Loading, Status
  <1>7. ASSUME NEW l \in Loaders, UNCHANGED <<draft, link, late>>,
               step'[l] \in {"redeem", "get"} \cup Ends,
               started'[l] \in Nat, started'[l] <= now',
               Loading(l)' => link # None /\ host'[l] \in Hosts,
               \A p \in Procs \ {l} :
                    step'[p] = step[p] /\ inbox'[p] = inbox[p],
               \A m \in Loaders \ {l} :
                    started'[m] = started[m] /\ host'[m] = host[m]
        PROVE  CallsInv'
    <2>1. step'[Saver] = step[Saver] /\ inbox'[Saver] = inbox[Saver]
      BY <1>7, ClientAssumption DEF Procs
    <2>2. ASSUME NEW m \in Loaders
          PROVE  /\ step'[m] \in {"redeem", "get"} \cup Ends
                 /\ started'[m] <= now'
                 /\ Loading(m)' => link' # None /\ host'[m] \in Hosts
      BY <1>1, <1>7 DEF CallsInv, Loading, Procs
    <2> QED
      BY <1>0, <1>7, <2>1, <2>2 DEF CallsInv, Status, KnownTypes
  <1>8. ASSUME NEW l \in Loaders, NEW next, NEW nextPart, NEW rest,
               MoveTo(l, next, nextPart, rest)
        PROVE  /\ step'[l] = next
               /\ \A p \in Procs \ {l} :
                    step'[p] = step[p] /\ inbox'[p] = inbox[p]
    BY <1>8 DEF MoveTo, CallTypes, Procs
  <1>9. ASSUME NEW l \in Loaders, NEW end \in Ends, NEW printed,
               Exit(l, end, printed), UNCHANGED <<draft, link, late>>
        PROVE  CallsInv'
    <2>1. /\ started'[l] = 0
          /\ \A m \in Loaders \ {l} :
                started'[m] = started[m] /\ host'[m] = host[m]
      BY <1>9 DEF Exit, KnownTypes
    <2>2. MoveTo(l, end, None, {})
      BY <1>9 DEF Exit
    <2>3. step'[l] \in Ends /\ ~Loading(l)'
      BY <1>8, <2>2 DEF Loading, Ends
    <2> QED
      BY <1>7, <1>8, <1>9, <2>1, <2>2, <2>3
  <1>10. ASSUME NEW l \in Loaders, NEW h \in Hosts, Begin(l, h)
         PROVE  CallsInv'
    <2>1. /\ started'[l] = now /\ host'[l] = h
          /\ \A m \in Loaders \ {l} :
                started'[m] = started[m] /\ host'[m] = host[m]
      BY <1>10 DEF Begin, KnownTypes
    <2>2. MoveTo(l, "get", Manifest, {}) \/ MoveTo(l, "redeem", None, {})
      BY <1>10 DEF Begin
    <2>3. link # None /\ UNCHANGED <<draft, link, late, now>>
      BY <1>10 DEF Begin, saverVars, apiVars
    <2>4. step'[l] \in {"redeem", "get"}
      BY <1>8, <2>2
    <2> QED
      BY <1>7, <1>8, <2>1, <2>2, <2>3, <2>4
  <1>11. ASSUME NEW l \in Loaders, NEW p, NEW rest, Loading(l),
                MoveTo(l, "get", p, rest),
                UNCHANGED <<draft, link, late, host, started>>
         PROVE  CallsInv'
    BY <1>1, <1>7, <1>8, <1>11 DEF CallsInv
  <1>12. ASSUME NEW l \in Loaders, LoaderStep(l), ~ProcStep(l)
         PROVE  CallsInv'
    <2> {"done", "failed"} \subseteq Ends
      BY DEF Ends
    <2>1. CASE Redeemed(l)
      BY <1>11, <2>1 DEF Redeemed, Returned, Loading, saverVars
    <2>2. CASE RedeemFails(l) \/ DownloadFails(l)
      BY <1>9, <2>2 DEF RedeemFails, DownloadFails, saverVars
    <2>3. CASE Downloaded(l)
      <3>1. \/ Exit(l, "done", TRUE)
            \/ /\ \E p, rest : MoveTo(l, "get", p, rest)
               /\ UNCHANGED <<host, started, token, said>>
        BY <2>3, DownloadMoves
      <3>2. Loading(l) /\ UNCHANGED <<draft, link, late>>
        BY <2>3 DEF Downloaded, Returned, Loading, saverVars
      <3>3. ASSUME NEW p, NEW rest, MoveTo(l, "get", p, rest),
                   UNCHANGED <<host, started, token, said>>
            PROVE  CallsInv'
        BY <1>11, <3>2, <3>3
      <3> QED
        BY <1>9, <3>1, <3>2, <3>3
    <2> QED
      BY <1>12, <2>1, <2>2, <2>3 DEF LoaderStep
  <1> QED
    BY <1>3, <1>4, <1>5, <1>6, <1>10, <1>12
    DEF ClientNext, SaverStep, LoaderStep, ClientTick, allVars, Procs

-----------------------------------------------------------------------------
(* Tokens *)

LEMMA GrantedStays ==
    ASSUME ClientInv, [ClientNext]_allVars, link' = link,
           NEW tok, NEW t, GrantedUntil(tok, t)
    PROVE  \E g \in issued' : g.token = tok /\ g.send = link' /\ t <= g.expires
  <1>1. issued \subseteq issued'
    BY EveryStep, IssuedGrows DEF ClientInv
  <1> QED
    BY <1>1 DEF GrantedUntil

(* A step that puts no token anywhere new.                                 *)
LEMMA NoNewToken ==
    ASSUME ClientInv, [ClientNext]_allVars, UNCHANGED <<link, cache>>,
           read' \subseteq read \cup {h \in Hosts : cache[h].token # None},
           \A l \in Loaders :
                /\ Answering(l)' => /\ Answering(l)
                                    /\ inbox'[l] = inbox[l]
                                    /\ started'[l] = started[l]
                /\ step'[l] = "get" => cache[host'[l]].token # None
    PROVE  TokensInv'
  <1> TokensInv
    BY DEF ClientInv
  <1>1. ASSUME NEW l \in Loaders
        PROVE  /\ Answering(l)' =>
                    GrantedUntil(inbox[l].token, started[l] + GrantTTL)'
               /\ Answering(l)' => \A h \in Hosts : cache'[h].token # inbox'[l].token
               /\ \A m \in Loaders \ {l} :
                    Answering(l)' /\ Answering(m)' => inbox'[l].token # inbox'[m].token
               /\ step'[l] = "get" => cache'[host'[l]].token # None
    <2>1. Answering(l)' => GrantedUntil(inbox[l].token, started[l] + GrantTTL)'
      BY GrantedStays DEF TokensInv, GrantedUntil
    <2> QED
      BY <2>1 DEF TokensInv
  <1>2. ASSUME NEW h \in Hosts, cache'[h].token # None
        PROVE  /\ GrantedUntil(cache[h].token, Begun(h) + GrantTTL)'
               /\ \A k \in Hosts : cache'[k].token = cache'[h].token => k = h
    BY <1>2, GrantedStays DEF TokensInv, GrantedUntil, Begun
  <1>3. \A h \in read' : cache'[h].token # None
    BY DEF TokensInv
  <1> QED
    BY <1>1, <1>2, <1>3 DEF TokensInv

(* A token that was never issued is nowhere.                               *)
LEMMA FreshToken ==
    ASSUME ClientInv, NEW tok \in Tokens, \A g \in issued : g.token # tok
    PROVE  /\ \A h \in Hosts : cache[h].token # tok
           /\ \A l \in Loaders : Answering(l) => inbox[l].token # tok
  BY IdsAssumption DEF ClientInv, TokensInv, GrantedUntil

LEMMA AttemptTokens ==
    ASSUME ClientInv, [ClientNext]_allVars, NEW p \in Procs, ProcStep(p)
    PROVE  TokensInv'
  <1> /\ ClientTypeOK /\ CallsInv /\ TokensInv
      /\ StateTypeOK /\ CallTypes /\ KnownTypes
    BY TypeParts DEF ClientInv
  <1>1. Attempt(p)
    BY ProcAttempts
  <1>2. UNCHANGED <<now, step, link, host, started, token, cache, read>>
    BY <1>1 DEF Attempt, Network, saverVars, loaderVars
  <1>3. PICK ans \in Answers \cup {Gateway, Reset} :
            Get(p, ans) /\ Means(QueryOf(p), ans)
    BY <1>1 DEF Attempt
  <1>4. /\ \A q \in Procs \ {p} : inbox'[q] = inbox[q]
        /\ inbox'[p] = inbox[p] \/ inbox'[p] = ans
    BY <1>3 DEF Get, CallTypes
  <1>5. ~(p \in Loaders /\ Answering(p))
    BY <1>1, NoAnswer DEF Attempt, Calling, Answering, Status
  <1>6. CASE ~(p \in Loaders /\ step[p] = "redeem" /\ inbox'[p] = ans /\ ans.http = 200)
    <2>1. ASSUME NEW l \in Loaders, Answering(l)'
          PROVE  Answering(l) /\ inbox'[l] = inbox[l] /\ started'[l] = started[l]
      BY <1>2, <1>4, <1>6, <2>1 DEF Answering, Status, Procs
    <2> QED
      BY <1>2, <2>1, NoNewToken DEF TokensInv
  <1>7. CASE p \in Loaders /\ step[p] = "redeem" /\ inbox'[p] = ans /\ ans.http = 200
    <2>1. QueryOf(p).kind = "redeem" /\ QueryOf(p).send = link
      BY <1>1, <1>7, QueryFacts, ClientAssumption DEF Attempt, Procs
    <2>2. PICK g \in issued' :
              g.token = ans.token /\ g.send = link /\ g.expires = now + GrantTTL
      BY <1>3, <1>7, <2>1 DEF Means
    <2>3. \A h \in issued : h.token # ans.token
      BY <1>3, <1>7, <2>1 DEF Means
    <2>4. StateTypeOK'
      BY EveryStep, TablesType DEF KnownTypes
    <2>5. ans.token \in Tokens
      BY <2>2, <2>4 DEF StateTypeOK, Grant
    <2>6. /\ \A h \in Hosts : cache[h].token # ans.token
          /\ \A l \in Loaders : Answering(l) => inbox[l].token # ans.token
      BY <2>3, <2>5, FreshToken
    <2>7. started[p] + GrantTTL <= now + GrantTTL
      BY <1>7, TimesAssumption DEF CallsInv, KnownTypes, StateTypeOK, Time
    <2>8. GrantedUntil(inbox[p].token, started[p] + GrantTTL)'
      BY <1>2, <1>7, <2>2, <2>7 DEF GrantedUntil
    <2>9. \A l \in Loaders \ {p} :
              inbox'[l] = inbox[l] /\ (Answering(l)' <=> Answering(l))
      BY <1>2, <1>4 DEF Procs, Answering, Status
    <2>10. ASSUME NEW l \in Loaders
           PROVE  /\ Answering(l)' =>
                       GrantedUntil(inbox[l].token, started[l] + GrantTTL)'
                  /\ Answering(l)' => \A h \in Hosts : cache'[h].token # inbox'[l].token
                  /\ \A m \in Loaders \ {l} :
                       Answering(l)' /\ Answering(m)' => inbox'[l].token # inbox'[m].token
                  /\ step'[l] = "get" => cache'[host'[l]].token # None
      <3>1. CASE l = p
        BY <1>2, <1>7, <2>6, <2>8, <2>9, <3>1 DEF TokensInv
      <3>2. CASE l # p
        <4>1. Answering(l)' => GrantedUntil(inbox[l].token, started[l] + GrantTTL)'
          BY <1>2, <2>9, <3>2, GrantedStays DEF TokensInv, GrantedUntil
        <4> QED
          BY <1>2, <1>7, <2>6, <2>9, <3>2, <4>1 DEF TokensInv
      <3> QED
        BY <3>1, <3>2
    <2>11. ASSUME NEW h \in Hosts, cache'[h].token # None
           PROVE  /\ GrantedUntil(cache[h].token, Begun(h) + GrantTTL)'
                  /\ \A k \in Hosts : cache'[k].token = cache'[h].token => k = h
      BY <1>2, <2>11, GrantedStays DEF TokensInv, GrantedUntil, Begun
    <2> QED
      BY <1>2, <2>10, <2>11 DEF TokensInv
  <1> QED
    BY <1>4, <1>6, <1>7

(* A redeem is answered: its token goes into the cache of its host, with   *)
(* the time at which the client looked at its clock.                       *)
LEMMA RedeemedTokens ==
    ASSUME ClientInv, [ClientNext]_allVars, NEW l \in Loaders, Redeemed(l)
    PROVE  TokensInv'
  <1> /\ ClientTypeOK /\ CallsInv /\ TokensInv
      /\ StateTypeOK /\ CallTypes /\ KnownTypes
    BY TypeParts DEF ClientInv
  <1> DEFINE tok == inbox[l].token
             h == host[l]
  <1>1. Answering(l) /\ h \in Hosts
    BY DEF Redeemed, Returned, Answering, Status, CallsInv, Loading
  <1>2. GrantedUntil(tok, started[l] + GrantTTL)
    BY <1>1 DEF TokensInv
  <1>3. CacheUntil(l) - GrantWindow = started[l]
    BY ClientAssumption DEF CacheUntil, KnownTypes, Time
  <1>4. tok \in Tokens
    BY <1>2 DEF GrantedUntil, StateTypeOK, Grant
  <1>5. /\ cache' = [cache EXCEPT ![h] = [exp |-> CacheUntil(l), token |-> tok]]
        /\ UNCHANGED <<link, host, started, read, issued>>
    BY DEF Redeemed, saverVars, apiVars, stateVars
  <1>6. /\ step'[l] = "get"
        /\ \A m \in Loaders \ {l} : step'[m] = step[m] /\ inbox'[m] = inbox[m]
    BY DEF Redeemed, MoveTo, CallTypes, Procs
  <1>7. ~Answering(l)'
    BY <1>6 DEF Answering
  <1>8. \A m \in Loaders \ {l} : Answering(m)' <=> Answering(m)
    BY <1>6 DEF Answering, Status
  <1>9. /\ cache'[h] = [exp |-> CacheUntil(l), token |-> tok]
        /\ \A k \in Hosts \ {h} : cache'[k] = cache[k]
    BY <1>1, <1>5 DEF KnownTypes
  <1>10. tok # None
    BY <1>4, IdsAssumption
  <1>11. ASSUME NEW m \in Loaders
         PROVE  /\ Answering(m)' =>
                     GrantedUntil(inbox[m].token, started[m] + GrantTTL)'
                /\ Answering(m)' => \A k \in Hosts : cache'[k].token # inbox'[m].token
                /\ \A n \in Loaders \ {m} :
                     Answering(m)' /\ Answering(n)' => inbox'[m].token # inbox'[n].token
                /\ step'[m] = "get" => cache'[host'[m]].token # None
    <2>1. CASE m = l
      BY <1>5, <1>7, <1>9, <1>10, <2>1
    <2>2. CASE m # l
      <3>1. Answering(m)' => GrantedUntil(inbox[m].token, started[m] + GrantTTL)'
        BY <1>5, <1>6, <1>8, <2>2 DEF TokensInv, GrantedUntil
      <3>2. ASSUME Answering(m)', NEW k \in Hosts
            PROVE  cache'[k].token # inbox'[m].token
        BY <1>1, <1>6, <1>8, <1>9, <2>2, <3>2 DEF TokensInv
      <3>3. step'[m] = "get" => cache'[host'[m]].token # None
        BY <1>5, <1>6, <1>9, <1>10, <2>2 DEF TokensInv, CallsInv, Loading
      <3> QED
        BY <1>6, <1>7, <1>8, <2>2, <3>1, <3>2, <3>3 DEF TokensInv
    <2> QED
      BY <2>1, <2>2
  <1>12. ASSUME NEW k \in Hosts, cache'[k].token # None
         PROVE  /\ GrantedUntil(cache[k].token, Begun(k) + GrantTTL)'
                /\ \A j \in Hosts : cache'[j].token = cache'[k].token => j = k
    <2>1. GrantedUntil(cache[k].token, Begun(k) + GrantTTL)'
      <3>1. CASE k = h
        <4>1. cache'[k].token = tok /\ Begun(k)' = started[l]
          BY <1>3, <1>9, <3>1 DEF Begun
        <4> QED
          BY <1>2, <1>5, <4>1 DEF GrantedUntil
      <3>2. CASE k # h
        <4>1. cache'[k] = cache[k] /\ Begun(k)' = Begun(k)
          BY <1>9, <3>2 DEF Begun
        <4> QED
          BY <1>5, <1>12, <4>1 DEF TokensInv, GrantedUntil
      <3> QED
        BY <3>1, <3>2
    <2>2. ASSUME NEW j \in Hosts, cache'[j].token = cache'[k].token, j # k
          PROVE  FALSE
      BY <1>1, <1>9, <1>12, <2>2 DEF TokensInv
    <2> QED
      BY <2>1, <2>2
  <1>13. \A k \in read' : cache'[k].token # None
    BY <1>5, <1>9, <1>10 DEF TokensInv, KnownTypes
  <1> QED
    BY <1>11, <1>12, <1>13 DEF TokensInv

(* The step of one loader that learns no token. *)
LEMMA LoaderMoves ==
    ASSUME ClientInv, [ClientNext]_allVars, NEW l \in Loaders,
           UNCHANGED <<link, cache>>,
           step'[l] = "redeem" => inbox'[l] = Silence,
           step'[l] = "get" => cache[host'[l]].token # None,
           read' \subseteq read \cup {h \in Hosts : cache[h].token # None},
           \A m \in Loaders \ {l} :
                /\ step'[m] = step[m] /\ inbox'[m] = inbox[m]
                /\ host'[m] = host[m] /\ started'[m] = started[m]
    PROVE  TokensInv'
  <1>1. ASSUME NEW m \in Loaders
        PROVE  /\ Answering(m)' => /\ Answering(m)
                                   /\ inbox'[m] = inbox[m]
                                   /\ started'[m] = started[m]
               /\ step'[m] = "get" => cache[host'[m]].token # None
    <2>1. CASE m = l
      BY <2>1, NoAnswer DEF Answering, Status
    <2>2. CASE m # l
      BY <2>2 DEF Answering, Status, ClientInv, TokensInv
    <2> QED
      BY <2>1, <2>2
  <1> QED
    BY <1>1, NoNewToken

LEMMA MovedLoader ==
    ASSUME CallTypes, NEW l \in Loaders, NEW next, NEW nextPart, NEW rest,
           MoveTo(l, next, nextPart, rest)
    PROVE  /\ step'[l] = next /\ inbox'[l] = Silence
           /\ \A m \in Loaders \ {l} : step'[m] = step[m] /\ inbox'[m] = inbox[m]
  BY DEF MoveTo, CallTypes, Procs

LEMMA ExitTokens ==
    ASSUME ClientInv, [ClientNext]_allVars, NEW l \in Loaders,
           NEW end \in Ends, NEW printed, Exit(l, end, printed),
           UNCHANGED <<link, cache>>,
           read' \subseteq read \cup {h \in Hosts : cache[h].token # None}
    PROVE  TokensInv'
  <1> CallTypes /\ KnownTypes
    BY TypeParts DEF ClientInv
  <1>1. MoveTo(l, end, None, {})
    BY DEF Exit
  <1>2. step'[l] \notin {"redeem", "get"}
    BY <1>1, MovedLoader DEF Ends
  <1>3. \A m \in Loaders \ {l} : host'[m] = host[m] /\ started'[m] = started[m]
    BY DEF Exit, KnownTypes
  <1> QED
    BY <1>1, <1>2, <1>3, MovedLoader, LoaderMoves

(* The link is printed: until then no loader has begun, nobody has a grant *)
(* on it.                                                                  *)
LEMMA FinalizedTokens ==
    ASSUME ClientInv, Finalized
    PROVE  TokensInv'
  <1> /\ CallsInv /\ TokensInv /\ StateTypeOK /\ CallTypes /\ KnownTypes
    BY TypeParts DEF ClientInv
  <1>1. link = None /\ \A l \in Loaders : ~Loading(l)
    BY DEF Finalized, Returned, CallsInv
  <1>2. \A tok, t : ~GrantedUntil(tok, t)
    BY <1>1, IdsAssumption DEF GrantedUntil, StateTypeOK, Grant
  <1>3. \A h \in Hosts : cache[h].token = None
    BY <1>2 DEF TokensInv
  <1>4. read = {}
    BY <1>3 DEF TokensInv, KnownTypes
  <1>5. \A l \in Loaders : step'[l] = step[l]
    BY ClientAssumption DEF Finalized, MoveTo, CallTypes, Procs
  <1>6. UNCHANGED <<cache, read>>
    BY DEF Finalized, loaderVars
  <1>7. \A l \in Loaders : ~Answering(l)' /\ step'[l] # "get"
    BY <1>1, <1>5 DEF Answering, Loading
  <1> QED
    BY <1>3, <1>4, <1>6, <1>7 DEF TokensInv

LEMMA BeginTokens ==
    ASSUME ClientInv, [ClientNext]_allVars, NEW l \in Loaders, NEW h \in Hosts,
           Begin(l, h)
    PROVE  TokensInv'
  <1> CallTypes /\ KnownTypes
    BY TypeParts DEF ClientInv
  <1>1. \/ MoveTo(l, "get", Manifest, {}) /\ cache[h].token # None
        \/ MoveTo(l, "redeem", None, {})
    BY DEF Begin, Usable
  <1>2. UNCHANGED <<link, cache, read>>
    BY DEF Begin, saverVars
  <1>3. /\ host'[l] = h
        /\ \A m \in Loaders \ {l} : host'[m] = host[m] /\ started'[m] = started[m]
    BY DEF Begin, KnownTypes
  <1>4. /\ step'[l] = "redeem" => inbox'[l] = Silence
        /\ step'[l] = "get" => cache[host'[l]].token # None
        /\ \A m \in Loaders \ {l} : step'[m] = step[m] /\ inbox'[m] = inbox[m]
    BY <1>1, <1>3, MovedLoader
  <1> QED
    BY <1>2, <1>3, <1>4, LoaderMoves

LEMMA DownloadedTokens ==
    ASSUME ClientInv, [ClientNext]_allVars, NEW l \in Loaders, Downloaded(l)
    PROVE  TokensInv'
  <1> /\ CallsInv /\ TokensInv /\ CallTypes /\ KnownTypes
    BY TypeParts DEF ClientInv
  <1>1. UNCHANGED <<link, cache>>
    BY DEF Downloaded, saverVars
  <1>2. host[l] \in Hosts /\ cache[host[l]].token # None
    BY DEF Downloaded, Returned, CallsInv, Loading, TokensInv
  <1>3. read' \subseteq read \cup {h \in Hosts : cache[h].token # None}
    BY <1>2 DEF Downloaded
  <1>4. \/ Exit(l, "done", TRUE)
        \/ /\ \E p, rest : MoveTo(l, "get", p, rest)
           /\ UNCHANGED <<host, started, token, said>>
    BY DownloadMoves
  <1>5. CASE Exit(l, "done", TRUE)
    BY <1>1, <1>3, <1>5, ExitTokens DEF Ends
  <1>6. ASSUME NEW p, NEW rest, MoveTo(l, "get", p, rest),
               UNCHANGED <<host, started>>
        PROVE  TokensInv'
    <2>1. /\ step'[l] = "get"
          /\ \A m \in Loaders \ {l} : step'[m] = step[m] /\ inbox'[m] = inbox[m]
      BY <1>6, MovedLoader
    <2> QED
      BY <1>1, <1>2, <1>3, <1>6, <2>1, LoaderMoves
  <1> QED
    BY <1>4, <1>5, <1>6

LEMMA TokensStep ==
    ASSUME ClientInv, [ClientNext]_allVars
    PROVE  TokensInv'
  <1> /\ CallTypes /\ KnownTypes /\ TokensInv
    BY TypeParts DEF ClientInv
  <1>1. ASSUME UNCHANGED <<step, host, started, link, cache, read>>,
               \A l \in Loaders : inbox'[l] = inbox[l]
        PROVE  TokensInv'
    BY <1>1, NoNewToken DEF Answering, Status, TokensInv
  <1>2. ASSUME NEW q \in late, ServeLate(q)
        PROVE  TokensInv'
    BY <1>1, <1>2 DEF ServeLate, Network, saverVars, loaderVars
  <1>3. CASE UNCHANGED clientVars
    BY <1>1, <1>3 DEF clientVars, saverVars, loaderVars
  <1>4. CASE Created \/ Uploaded \/ SaveFails
    <2>1. UNCHANGED <<host, started, link, cache, read>>
      BY <1>4 DEF Created, Uploaded, SaveFails, saverVars, loaderVars
    <2>2. \A l \in Loaders : step'[l] = step[l] /\ inbox'[l] = inbox[l]
      BY <1>4, ClientAssumption
      DEF Created, Uploaded, SaveFails, MoveTo, CallTypes, Procs
    <2> QED
      BY <2>1, <2>2, NoNewToken DEF Answering, Status, TokensInv
  <1>5. ASSUME NEW l \in Loaders, RedeemFails(l) \/ DownloadFails(l)
        PROVE  TokensInv'
    BY <1>5, ExitTokens DEF RedeemFails, DownloadFails, saverVars, Ends
  <1> QED
    BY <1>2, <1>3, <1>4, <1>5, AttemptTokens, RedeemedTokens, FinalizedTokens,
       BeginTokens, DownloadedTokens
    DEF ClientNext, SaverStep, LoaderStep, ClientTick, allVars, Procs

-----------------------------------------------------------------------------
(* Theorems *)

LEMMA InitInv ==
    ASSUME ClientInit
    PROVE  ClientInv
  <1> USE ClientAssumption, TimesAssumption, IdsAssumption DEF ClientInit
  <1>1. StateTypeOK
    BY DEF StateInit, StateTypeOK, Time, Statuses
  <1>2. CallTypes
    <2>1. Silence \in Heard /\ \A call : 0 \in 0 .. Retries(call)
      BY RetriesType DEF Heard
    <2> QED
      BY <2>1 DEF CallTypes, Calls, Ends, Procs
  <1>3. KnownTypes
    BY DEF KnownTypes, NoGrant, Time
  <1>4. TablesInv
    BY DEF TablesInv, StateInit, Missing
  <1>5. CallsInv
    BY NoAnswer
    DEF CallsInv, StateInit, Gated, Ends, Procs, Loading, Status
  <1>6. TokensInv
    BY DEF TokensInv, Procs, Answering, NoGrant
  <1> QED
    BY <1>1, <1>2, <1>3, <1>4, <1>5, <1>6, TypeParts DEF ClientInv

(* ClientInv holds for every number of loaders, hosts, sends and retries.  *)
THEOREM ClientInvariance == ClientSpec => []ClientInv
  <1>1. ClientInit => ClientInv
    BY InitInv
  <1>2. ClientInv /\ [ClientNext]_allVars => ClientInv'
    <2> SUFFICES ASSUME ClientInv, [ClientNext]_allVars
                 PROVE  ClientInv'
      OBVIOUS
    <2>1. TablesInv'
      BY EveryStep, TablesKeep, TypeParts DEF ClientInv, KnownTypes
    <2> QED
      BY <2>1, TypeStep, CallsStep, TokensStep DEF ClientInv
  <1> QED
    BY <1>1, <1>2, PTL DEF ClientSpec

(* Every variable keeps its type (send.sh and the stores).                 *)
THEOREM ClientTypeSafe == ClientSpec => []ClientTypeOK
  <1>1. ClientInv => ClientTypeOK
    BY DEF ClientInv
  <1> QED
    BY <1>1, ClientInvariance, PTL

(* A link that is printed opens a complete send (cmd_send): however often  *)
(* requests are repeated, lost or delivered late.                          *)
THEOREM PrintedLinkIsComplete == ClientSpec => []LinkIsComplete
  <1>1. ClientInv => LinkIsComplete
    <2> SUFFICES ASSUME ClientInv, link # None
                 PROVE  \/ status[link] = "finalized" /\ Missing(link) = {}
                        \/ /\ status[link] = "gone"
                           /\ expires[link] <= now \/ consumed[link] # Null
      BY DEF LinkIsComplete
    <2>1. link \in Sends /\ Kept(link)
      BY TypeParts DEF ClientInv, CallsInv, KnownTypes
    <2> QED
      BY <2>1 DEF ClientInv, TablesInv, Kept
  <1> QED
    BY <1>1, ClientInvariance, PTL

(* A one-time link is read on one machine at most, whoever was passed it   *)
(* (get_grant against RedeemSend).                                         *)
THEOREM OneTimeMeansOneMachine == ClientSpec => []OneMachineReads
  <1>1. ClientInv => OneMachineReads
    <2> SUFFICES ASSUME ClientInv, wish.once
                 PROVE  Cardinality(read) <= 1
      BY DEF OneMachineReads
    <2>1. \A h, k \in read : h = k
      <3> SUFFICES ASSUME NEW h \in read, NEW k \in read
                   PROVE  h = k
        OBVIOUS
      <3>1. h \in Hosts /\ k \in Hosts
        BY TypeParts DEF ClientInv, KnownTypes
      <3>2. cache[h].token # None /\ cache[k].token # None
        BY DEF ClientInv, TokensInv
      <3>3. PICK f \in issued : f.token = cache[h].token /\ f.send = link
        BY <3>1, <3>2 DEF ClientInv, TokensInv, GrantedUntil
      <3>4. PICK g \in issued : g.token = cache[k].token /\ g.send = link
        BY <3>1, <3>2 DEF ClientInv, TokensInv, GrantedUntil
      <3>5. link \in Sends /\ status[link] # "absent"
        BY <3>3 DEF ClientInv, TablesInv, ClientTypeOK, StateTypeOK, Grant
      <3>6. f = g
        BY <3>3, <3>4, <3>5 DEF ClientInv, TablesInv
      <3> QED
        BY <3>1, <3>2, <3>3, <3>4, <3>6 DEF ClientInv, TokensInv
    <2>2. CASE read = {}
      BY <2>2, FS_EmptySet
    <2>3. ASSUME NEW h \in read
          PROVE  Cardinality(read) <= 1
      <3>1. read = {h}
        BY <2>1
      <3>2. Cardinality({h}) = 1
        BY FS_Singleton, Zenon
      <3> QED
        BY <3>1, <3>2
    <2> QED
      BY <2>2, <2>3
  <1> QED
    BY <1>1, ClientInvariance, PTL

(* A cached grant is honoured for GrantTTL from the moment the client      *)
(* began the redeem, unless the send itself has expired (get_grant against *)
(* ValidateGrant and the collector).                                       *)
THEOREM CacheIsHonoured == ClientSpec => []CachedGrantWorks
  <1>1. ClientInv => CachedGrantWorks
    <2> SUFFICES ASSUME ClientInv, NEW h \in Hosts, cache[h].token # None,
                        now < Begun(h) + GrantTTL
                 PROVE  Honoured(h)
      BY DEF CachedGrantWorks
    <2> /\ StateTypeOK /\ KnownTypes /\ TablesInv /\ CallsInv
      BY TypeParts DEF ClientInv
    <2>1. PICK g \in issued :
              /\ g.token = cache[h].token /\ g.send = link
              /\ Begun(h) + GrantTTL <= g.expires
      BY DEF ClientInv, TokensInv, GrantedUntil
    <2>2. now \in Nat /\ Begun(h) + GrantTTL \in Int /\ g \in Grant /\ g.expires \in Nat
      BY ClientAssumption, TimesAssumption
      DEF StateTypeOK, KnownTypes, Grant, Time, Begun
    <2>3. now < g.expires
      BY <2>1, <2>2
    <2>4. CASE g \in grants
      BY <2>1, <2>2, <2>3, <2>4 DEF Validates, Honoured
    <2>5. CASE status[link] = "gone"
      <3>1. Kept(link)
        BY <2>1, <2>2, IdsAssumption DEF CallsInv, Grant
      <3>2. ~(g.expires <= now)
        BY <2>2, <2>3
      <3> QED
        BY <2>1, <2>5, <3>1, <3>2 DEF Kept, Honoured
    <2> QED
      BY <2>1, <2>4, <2>5 DEF TablesInv
  <1> QED
    BY <1>1, ClientInvariance, PTL

(* So where the window is no longer than the server's grants, every cached *)
(* grant that the client takes for good is.                                *)
THEOREM WindowIsHonoured ==
    GrantWindow <= GrantTTL =>
        (ClientSpec => [](\A h \in Hosts : Usable(h) => Honoured(h)))
  <1> SUFFICES ASSUME GrantWindow <= GrantTTL
               PROVE  ClientSpec => [](\A h \in Hosts : Usable(h) => Honoured(h))
    OBVIOUS
  <1>1. ClientInv /\ CachedGrantWorks => \A h \in Hosts : Usable(h) => Honoured(h)
    <2> SUFFICES ASSUME ClientInv, CachedGrantWorks, NEW h \in Hosts, Usable(h)
                 PROVE  Honoured(h)
      OBVIOUS
    <2>1. now \in Int /\ cache[h].exp \in Int /\ now < cache[h].exp
      BY TypeParts DEF ClientInv, StateTypeOK, KnownTypes, Time, Usable
    <2>2. now < Begun(h) + GrantTTL
      BY <2>1, ClientAssumption, TimesAssumption DEF Begun
    <2> QED
      BY <2>2 DEF CachedGrantWorks, Usable
  <1> QED
    BY <1>1, ClientInvariance, CacheIsHonoured, PTL

-----------------------------------------------------------------------------
(* The endpoints implement the contract. *)

missing == [s \in Sends |-> Missing(s)]

LEMMA InitImplements == ClientInit => Contract!CInit
  BY DEF ClientInit, StateInit, Contract!CInit, Contract!Null, Missing, Null

LEMMA InsertImplements ==
    ASSUME ClientInv, NEW s \in Sends, UNCHANGED now,
           InsertSend(s, wish.parts, wish.once, wish.ttl, now)
    PROVE  Contract!Open(s, wish.parts, wish.once, wish.ttl, now)
  <1> StateTypeOK /\ TablesInv /\ wish \in Wishes
    BY DEF ClientInv, ClientTypeOK
  <1>1. status[s] = "absent" /\ wish.parts # {} /\ uploaded[s] = {}
    BY DEF InsertSend, Wishes, Manifests, TablesInv, Stored
  <1>2. missing' = [missing EXCEPT ![s] = wish.parts]
    BY <1>1 DEF missing, Missing, InsertSend, StateTypeOK
  <1> QED
    BY <1>1, <1>2 DEF InsertSend, Contract!Open, missing

LEMMA MarkImplements ==
    ASSUME ClientInv, NEW s \in Sends, NEW p, UNCHANGED now,
           status[s] = "creating", MarkUploaded(s, p)
    PROVE  \/ p \in Parts /\ Contract!Supply(s, p)
           \/ UNCHANGED Contract!cvars
  <1> StateTypeOK
    BY DEF ClientInv, ClientTypeOK
  <1>1. CASE p \in Missing(s)
    <2>1. p \in Parts
      BY <1>1 DEF Missing, StateTypeOK
    <2>2. missing' = [missing EXCEPT ![s] = @ \ {p}]
      BY <1>1 DEF missing, Missing, MarkUploaded, StateTypeOK
    <2> QED
      BY <1>1, <2>1, <2>2 DEF MarkUploaded, Contract!Supply, missing, terms
  <1>2. CASE p \notin Missing(s)
    <2>1. UNCHANGED missing
      BY <1>2 DEF missing, Missing, MarkUploaded, StateTypeOK
    <2> QED
      BY <2>1 DEF MarkUploaded, Contract!cvars, missing, terms
  <1> QED
    BY <1>1, <1>2

LEMMA SealImplements ==
    ASSUME NEW s \in Sends, UNCHANGED now, Missing(s) = {}, SetFinalized(s)
    PROVE  Contract!Seal(s)
  BY DEF SetFinalized, Contract!Seal, Missing, terms

LEMMA SpendImplements ==
    ASSUME ClientInv, NEW s \in Sends, UNCHANGED now, Consume(s, now)
    PROVE  Contract!Spend(s, now)
  <1>1. expires[s] \in Nat /\ now \in Nat
    BY DEF ClientInv, ClientTypeOK, StateTypeOK, Time
  <1> QED
    BY <1>1
    DEF Consume, Consumable, Redeemable, Contract!Spend, Contract!Null, Null,
        Missing, terms

LEMMA GrantImplements ==
    ASSUME ClientInv, NEW s \in Sends, NEW tok \in Tokens, UNCHANGED now,
           \A g \in issued : g.token # tok, OpenGrant(s, tok)
    PROVE  Contract!HandOut(s, tok, now)
  <1>1. expires[s] \in Nat /\ now \in Nat
    BY DEF ClientInv, ClientTypeOK, StateTypeOK, Time
  <1>2. status[s] = "finalized" /\ now < expires[s]
    BY <1>1 DEF OpenGrant, Redeemable
  <1>3. oneTime[s] => consumed[s] = -1 /\ \A g \in issued : g.send # s
    BY DEF OpenGrant, Consumable, ClientInv, TablesInv, Null
  <1>4. /\ consumed' = [consumed EXCEPT ![s] = IF oneTime[s] THEN now ELSE @]
        /\ issued' = issued \cup
              {[send |-> s, token |-> tok, expires |-> now + GrantTTL]}
        /\ UNCHANGED <<status, oneTime, created, expires, missing>>
    BY DEF OpenGrant, terms, missing, Missing
  <1> QED
    BY <1>2, <1>3, <1>4 DEF Contract!HandOut, Contract!Null, missing

LEMMA DeleteImplements ==
    ASSUME ClientInv, UNCHANGED now, DeleteSends(Due)
    PROVE  \/ \E S \in SUBSET Sends : Contract!Discard(S)
           \/ UNCHANGED Contract!cvars
  <1> StateTypeOK /\ TablesInv
    BY DEF ClientInv, ClientTypeOK
  <1>1. ASSUME NEW s \in Due
        PROVE  s \in Sends /\ Contract!Live(s) /\ Contract!Due(s)
    <2>1. /\ now \in Nat /\ created[s] \in Nat /\ expires[s] \in Nat
          /\ consumed[s] \in Nat \cup {-1}
          /\ GrantTTL \in Nat /\ CreatingMaxAge \in Nat
      BY TimesAssumption DEF StateTypeOK, Time, Null, Due
    <2> QED
      BY <2>1
      DEF Due, Reapable, Stored, Spent, Stale, Null, Contract!Due,
          Contract!Live, Contract!Over, Contract!Used, Contract!Old,
          Contract!Null
  <1>2. /\ status' = [s \in Sends |-> IF s \in Due THEN "gone" ELSE status[s]]
        /\ UNCHANGED <<now, oneTime, created, expires, consumed, issued>>
    BY DEF DeleteSends, terms
  <1>3. missing' = [s \in Sends |-> IF s \in Due THEN {} ELSE missing[s]]
    BY DEF DeleteSends, missing, Missing
  <1>4. CASE Due # {}
    <2>1. Due \in SUBSET Sends
      BY DEF Due
    <2>2. Contract!Discard(Due)
      BY <1>1, <1>2, <1>3, <1>4 DEF Contract!Discard, missing
    <2> QED
      BY <2>1, <2>2
  <1>5. CASE Due = {}
    <2>1. status' = status /\ missing' = missing
      BY <1>2, <1>3, <1>5 DEF StateTypeOK, missing
    <2> QED
      BY <1>2, <2>1 DEF Contract!cvars, missing
  <1> QED
    BY <1>4, <1>5

LEMMA StepImplements ==
    ASSUME ClientInv, [ClientNext]_allVars
    PROVE  [Contract!CNext]_Contract!cvars
  <1> StateTypeOK /\ wish \in Wishes /\ TableStep
    BY EveryStep DEF ClientInv, ClientTypeOK
  <1>1. now \in 0 .. now
    BY DEF StateTypeOK, Time
  <1>2. CASE UNCHANGED stateVars /\ now' \in {now, now + 1}
    BY <1>2
    DEF stateVars, terms, Missing, Contract!cvars, Contract!CNext,
        Contract!CTick
  <1>3. ASSUME NEW s \in Sends, UNCHANGED now, Writes(s)
        PROVE  [Contract!CNext]_Contract!cvars
    <2>1. CASE InsertSend(s, wish.parts, wish.once, wish.ttl, now)
      <3>1. /\ wish.parts \in SUBSET Parts /\ wish.once \in BOOLEAN
            /\ wish.ttl \in TTLs
        BY DEF Wishes, Manifests
      <3> QED
        BY <1>1, <1>3, <2>1, <3>1, InsertImplements DEF Contract!CNext
    <2>2. ASSUME NEW p, status[s] = "creating", MarkUploaded(s, p)
          PROVE  [Contract!CNext]_Contract!cvars
      BY <1>3, <2>2, MarkImplements DEF Contract!CNext
    <2>3. CASE Missing(s) = {} /\ SetFinalized(s)
      BY <1>3, <2>3, SealImplements DEF Contract!CNext
    <2>4. CASE Consume(s, now)
      BY <1>1, <1>3, <2>4, SpendImplements DEF Contract!CNext
    <2>5. ASSUME NEW tok \in Tokens, \A g \in issued : g.token # tok,
                 OpenGrant(s, tok)
          PROVE  [Contract!CNext]_Contract!cvars
      BY <1>1, <1>3, <2>5, GrantImplements DEF Contract!CNext
    <2> QED
      BY <1>3, <2>1, <2>2, <2>3, <2>4, <2>5 DEF Writes
  <1>4. CASE UNCHANGED now /\ DeleteSends(Due)
    BY <1>4, DeleteImplements DEF Contract!CNext
  <1> QED
    BY <1>2, <1>3, <1>4 DEF TableStep

(* However requests are repeated, lost or delivered late, the endpoints    *)
(* keep to the contract that the store underneath them keeps to.           *)
THEOREM ApiRefinement == ClientSpec => ApiImplementsContract
  <1>1. ClientInv /\ [ClientNext]_allVars => [Contract!CNext]_Contract!cvars
    BY StepImplements
  <1> QED
    BY <1>1, InitImplements, ClientInvariance, PTL
    DEF ClientSpec, ApiImplementsContract, Contract!CSpec
=============================================================================
