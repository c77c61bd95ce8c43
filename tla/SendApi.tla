------------------------------- MODULE SendApi -------------------------------
(***************************************************************************)
(* The /v1 endpoints a client calls (internal/api), each as one step of    *)
(* the state store with the answer it yields.  Coordinator splits the same *)
(* handlers into their statements; here an endpoint is atomic, so that     *)
(* what clients and the network do around it can be explored.              *)
(***************************************************************************)
EXTENDS StateStore

CONSTANT TeamMode    \* SEND_TEAM_TOKEN is set

apiVars == <<now, stateVars>>

(* What mapStoreError answers to the sentinel errors of the stores. *)
MapStoreError(err) ==
    CASE err = "ErrNotFound"        -> <<404, "SEND_NOT_FOUND">>
      [] err = "ErrNotFinalized"    -> <<409, "SEND_NOT_FINALIZED">>
      [] err = "ErrConflict"        -> <<409, "SEND_FINALIZED">>
      [] err = "ErrAlreadyRedeemed" -> <<410, "SEND_ALREADY_REDEEMED">>
      [] err = "ErrExpired"         -> <<410, "SEND_EXPIRED">>
      [] err = "ErrIncomplete"      -> <<400, "INCOMPLETE">>
      [] err = "ErrUnknownPart"     -> <<400, "BAD_REQUEST">>
      [] err = "ErrIntegrity"       -> <<422, "INTEGRITY_FAILED">>
      [] err = "ErrPartTooLarge"    -> <<413, "PAYLOAD_TOO_LARGE">>
      [] err = "ErrInvalidGrant"    -> <<403, "INVALID_REDEEM">>
      [] OTHER                      -> <<500, "STORAGE_ERROR">>

Answer(http, code, s, tok) ==
    [http |-> http, code |-> code, send |-> s, token |-> tok]
WriteError(http, code) == Answer(http, code, None, None)
Ok(s, tok) == Answer(200, "", s, tok)

(* A handler that returns on err, having changed nothing. *)
Fails(err, ans) ==
    /\ ans = WriteError(MapStoreError(err)[1], MapStoreError(err)[2])
    /\ UNCHANGED stateVars

-----------------------------------------------------------------------------
(* What any handler may answer before it begins: the rate limiter refuses, *)
(* or a statement fails before one has changed anything.                   *)
Declines(ans) ==
    \/ ans = WriteError(429, "RATE_LIMITED") /\ UNCHANGED stateVars
    \/ Fails("other", ans)

(* requireTeamToken, in front of create, upload and finalize. *)
Unauthorized(ans) ==
    /\ ans = WriteError(401, "UNAUTHORIZED")
    /\ UNCHANGED stateVars

Authorized(bearer) == TeamMode => bearer

HandleCreate(s, parts, once, ttl, ans) ==
    /\ InsertSend(s, parts, once, ttl, now)
    /\ ans = Answer(201, "", s, None)

(* The blob store may refuse the bytes that arrive for a declared part.    *)
HandleUpload(s, p, ans) ==
    \/ ~Stored(s) /\ Fails("ErrNotFound", ans)
    \/ status[s] = "finalized" /\ Fails("ErrConflict", ans)
    \/ status[s] = "creating" /\ p \notin declared[s] /\ Fails("ErrUnknownPart", ans)
    \/ /\ status[s] = "creating" /\ p \in declared[s]
       /\ \E err \in {"ErrIntegrity", "ErrPartTooLarge"} : Fails(err, ans)
    \/ /\ status[s] = "creating" /\ p \in declared[s]
       /\ MarkUploaded(s, p)
       /\ ans = Ok(s, None)

(* Finalizing a finalized send succeeds again, unless it was finalized, or *)
(* reaped, between the statements: then the UPDATE conflicts.  The answer  *)
(* is read back, and that may fail after the send was finalized.  The      *)
(* mutant lets a send that is gone succeed too.                            *)
HandleFinalize_Lenient(s, ans) ==
    \/ status[s] # "creating" /\ ans = Ok(s, None) /\ UNCHANGED stateVars
    \/ status[s] = "creating" /\ Missing(s) # {} /\ Fails("ErrIncomplete", ans)
    \/ Missing(s) = {} /\ SetFinalized(s) /\ ans = Ok(s, None)
HandleFinalize(s, ans) ==
    \/ ~Stored(s) /\ Fails("ErrNotFound", ans)
    \/ status[s] = "finalized" /\ ans = Ok(s, None) /\ UNCHANGED stateVars
    \/ status[s] # "creating" /\ Fails("ErrConflict", ans)
    \/ status[s] = "creating" /\ Missing(s) # {} /\ Fails("ErrIncomplete", ans)
    \/ /\ Missing(s) = {}
       /\ SetFinalized(s)
       /\ ans \in {Ok(s, None), WriteError(500, "STORAGE_ERROR")}

(* RedeemSend: consumes a one-time link and inserts the grant. *)
OpenGrant(s, tok) ==
    LET g == [send |-> s, token |-> tok, expires |-> now + GrantTTL]
    IN  /\ Redeemable(s, now)
        /\ oneTime[s] => Consumable(s, now)
        /\ consumed' = [consumed EXCEPT ![s] = IF oneTime[s] THEN now ELSE @]
        /\ grants' = grants \cup {g}
        /\ issued' = issued \cup {g}
        /\ UNCHANGED <<status, terms, declared, uploaded>>

(* Refused, served, or failed with an error half way: after the link was   *)
(* consumed, or after the grant was inserted, when its parts are read.     *)
HandleRedeem(s, tok, ans) ==
    \/ ~Stored(s) /\ Fails("ErrNotFound", ans)
    \/ status[s] = "creating" /\ Fails("ErrNotFinalized", ans)
    \/ status[s] = "finalized" /\ expires[s] <= now /\ Fails("ErrExpired", ans)
    \/ /\ Redeemable(s, now)
       /\ oneTime[s] /\ ~Consumable(s, now)
       /\ Fails("ErrAlreadyRedeemed", ans)
    \/ Consume(s, now) /\ ans = WriteError(500, "STORAGE_ERROR")
    \/ /\ \A g \in issued : g.token # tok
       /\ OpenGrant(s, tok)
       /\ ans \in {Ok(s, tok), WriteError(500, "STORAGE_ERROR")}

(* An unknown part is 404 here, not mapStoreError's 400. *)
HandleDownload(s, p, tok, ans) ==
    \/ ~Validates(s, tok, now) /\ Fails("ErrInvalidGrant", ans)
    \/ /\ Validates(s, tok, now) /\ p \notin declared[s]
       /\ ans = WriteError(404, "SEND_NOT_FOUND")
       /\ UNCHANGED stateVars
    \/ /\ Validates(s, tok, now) /\ p \in declared[s]
       /\ ans = Ok(s, tok)
       /\ UNCHANGED stateVars

(* Worker.Sweep, as far as the tables go. *)
Sweep ==
    LET due == {s \in Sends : Reapable(s, now)}
    IN  due # {} /\ DeleteSends(due) /\ UNCHANGED now
=============================================================================
