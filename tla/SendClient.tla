------------------------------ MODULE SendClient ------------------------------
(***************************************************************************)
(* The shell client (skill/send/scripts/send.sh) against the API, over a   *)
(* network and a proxy that lose answers and deliver requests late: one    *)
(* saver (cmd_send) and any number of invocations of load or load-detail   *)
(* (cmd_load, cmd_load_detail) on the hosts that were passed its link.     *)
(*                                                                         *)
(* step[p] is the call process p is making, inbox[p] what curl has got for *)
(* its current attempt, tries[p] the retries it has used up.  curl retries *)
(* what it takes for transient: 429 and 5xx, a proxy's 502 and 504         *)
(* included, but not a connection that breaks.                             *)
(***************************************************************************)
EXTENDS SendApi

CONSTANTS
    Saver,           \* the process that saves
    Loaders,         \* processes that load, one invocation after another
    Hosts,           \* machines they run on, each with its grant cache
    Manifest,        \* transport id of the manifest
    PostRetries,     \* curl --retry of create, upload, finalize, download
    RedeemRetries,   \* curl --retry of redeem
    GrantWindow,     \* GRANT_WINDOW_SECONDS
    MaxLate          \* bound: requests delayed at the same time

Procs == {Saver} \cup Loaders

ASSUME ClientAssumption ==
    /\ Saver \notin Loaders
    /\ Manifest \in Parts
    /\ PostRetries \in Nat /\ RedeemRetries \in Nat /\ MaxLate \in Nat
    /\ GrantWindow \in Nat

VARIABLES
    step,     \* the call each process makes, or how it ended
    part,     \* the part it uploads or downloads
    todo,     \* parts to follow
    tries,    \* retries used in the current call
    inbox,    \* what the current attempt got
    wish,     \* what the saver asks for
    draft,    \* id the saver was given
    link,     \* the send whose link was printed and passed on
    host,     \* where an invocation of load runs
    started,  \* when it looked at its clock
    token,    \* REDEEM_TOKEN
    said,     \* whether it has printed its JSON object
    cache,    \* $GRANT_DIR/$SEND_ID of each host
    late,     \* requests delivered after their sender was answered for them
    read      \* hosts that were served a part

saverVars == <<wish, draft, link>>
loaderVars == <<host, started, token, said, cache, read>>
clientVars == <<step, part, todo, tries, inbox, saverVars, loaderVars, late>>
allVars == <<apiVars, clientVars>>

Silence == WriteError(-1, "")
Gateway == WriteError(504, "")
Reset == WriteError(0, "")

Refusals ==
    { <<404, "SEND_NOT_FOUND">>, <<409, "SEND_NOT_FINALIZED">>,
      <<409, "SEND_FINALIZED">>, <<410, "SEND_ALREADY_REDEEMED">>,
      <<410, "SEND_EXPIRED">>, <<400, "INCOMPLETE">>, <<400, "BAD_REQUEST">>,
      <<403, "INVALID_REDEEM">>, <<401, "UNAUTHORIZED">>,
      <<422, "INTEGRITY_FAILED">>, <<413, "PAYLOAD_TOO_LARGE">>,
      <<429, "RATE_LIMITED">>, <<500, "STORAGE_ERROR">> }

Errors == {WriteError(e[1], e[2]) : e \in Refusals}
Creations == {Answer(201, "", s, None) : s \in Sends}
Successes == {Ok(s, tok) : s \in Sends, tok \in Tokens \cup {None}}
Answers == Errors \cup Creations \cup Successes

Calls == {"create", "upload", "finalize", "redeem", "get"}
Ends == {"idle", "done", "failed"}

Wishes ==
    [parts : {ps \in Manifests : Manifest \in ps}, once : BOOLEAN, ttl : TTLs,
     bearer : BOOLEAN]

Query ==
    [kind : Calls, send : Sends \cup {None}, part : Parts \cup {None},
     token : Tokens \cup {None}]
NoGrant == [exp |-> 0, token |-> None]

(* curl --retry *)
Retries(call) == IF call = "redeem" THEN RedeemRetries ELSE PostRetries

ClientTypeOK ==
    /\ StateTypeOK
    /\ step \in [Procs -> Calls \cup Ends]
    /\ part \in [Procs -> Parts \cup {None}]
    /\ todo \in [Procs -> SUBSET Parts]
    /\ DOMAIN tries = Procs /\ \A p \in Procs : tries[p] \in 0 .. Retries(step[p])
    /\ inbox \in [Procs -> Answers \cup {Silence, Gateway, Reset}]
    /\ wish \in Wishes
    /\ draft \in Sends \cup {None}
    /\ link \in Sends \cup {None}
    /\ host \in [Loaders -> Hosts \cup {None}]
    /\ started \in [Loaders -> Time]
    /\ token \in [Loaders -> Tokens \cup {None}]
    /\ said \in [Loaders -> BOOLEAN]
    /\ cache \in [Hosts -> [exp : Time, token : Tokens \cup {None}]]
    /\ late \subseteq Query
    /\ read \subseteq Hosts

ClientInit ==
    /\ StateInit
    /\ step = [p \in Procs |-> IF p = Saver THEN "create" ELSE "idle"]
    /\ part = [p \in Procs |-> None]
    /\ todo = [p \in Procs |-> {}]
    /\ tries = [p \in Procs |-> 0]
    /\ inbox = [p \in Procs |-> Silence]
    /\ wish \in Wishes
    /\ draft = None
    /\ link = None
    /\ host = [l \in Loaders |-> None]
    /\ started = [l \in Loaders |-> 0]
    /\ token = [l \in Loaders |-> None]
    /\ said = [l \in Loaders |-> FALSE]
    /\ cache = [h \in Hosts |-> NoGrant]
    /\ late = {}
    /\ read = {}

-----------------------------------------------------------------------------
(* The server's side of a call. *)

Gated == {"create", "upload", "finalize"}

QueryOf(p) ==
    [kind |-> step[p], send |-> IF p = Saver THEN draft ELSE link,
     part |-> part[p], token |-> IF p = Saver THEN None ELSE token[p]]

Handle(q, ans) ==
    \/ Declines(ans)
    \/ /\ q.kind = "create"
       /\ \E s \in Sends : HandleCreate(s, wish.parts, wish.once, wish.ttl, ans)
    \/ q.kind = "upload" /\ HandleUpload(q.send, q.part, ans)
    \/ q.kind = "finalize" /\ HandleFinalize(q.send, ans)
    \/ q.kind = "redeem" /\ \E tok \in Tokens : HandleRedeem(q.send, tok, ans)
    \/ q.kind = "get" /\ HandleDownload(q.send, q.part, q.token, ans)

Serve(q, ans) ==
    IF q.kind \in Gated /\ ~Authorized(wish.bearer)
    THEN Unauthorized(ans)
    ELSE Handle(q, ans)

-----------------------------------------------------------------------------
(* One attempt of curl: answered, served with the answer lost, or left in  *)
(* the network when the client has already been told 504, or nothing.      *)

Calling(p) == step[p] \in Calls /\ inbox[p] = Silence

Transient(http) == http \in {429, 500, 502, 503, 504}

(* The mutant retries once too often. *)
Get_OnceMore(p, ans) ==
    IF Transient(ans.http) /\ tries[p] <= Retries(step[p])
    THEN tries' = [tries EXCEPT ![p] = @ + 1] /\ UNCHANGED inbox
    ELSE inbox' = [inbox EXCEPT ![p] = ans] /\ UNCHANGED tries
Get(p, ans) ==
    IF Transient(ans.http) /\ tries[p] < Retries(step[p])
    THEN tries' = [tries EXCEPT ![p] = @ + 1] /\ UNCHANGED inbox
    ELSE inbox' = [inbox EXCEPT ![p] = ans] /\ UNCHANGED tries

Network == <<now, step, part, todo, saverVars, loaderVars>>

Answered(p) ==
    /\ Calling(p)
    /\ \E ans \in Answers : Serve(QueryOf(p), ans) /\ Get(p, ans)
    /\ UNCHANGED <<Network, late>>

Lost(p) ==
    /\ Calling(p)
    /\ \E ans \in Answers : Serve(QueryOf(p), ans)
    /\ \E told \in {Gateway, Reset} : Get(p, told)
    /\ UNCHANGED <<Network, late>>

Delayed(p) ==
    /\ Calling(p)
    /\ Cardinality(late) < MaxLate
    /\ late' = late \cup {QueryOf(p)}
    /\ \E told \in {Gateway, Reset} : Get(p, told)
    /\ UNCHANGED <<Network, stateVars>>

ServeLate(q) ==
    /\ q \in late
    /\ late' = late \ {q}
    /\ \E ans \in Answers : Serve(q, ans)
    /\ UNCHANGED <<Network, tries, inbox>>

(* curl returns to the script, which goes on to its next call or exits.    *)
Returned(p, call) == step[p] = call /\ inbox[p] # Silence
Status(p) == inbox[p].http

MoveTo(p, next, nextPart, rest) ==
    /\ step' = [step EXCEPT ![p] = next]
    /\ part' = [part EXCEPT ![p] = nextPart]
    /\ todo' = [todo EXCEPT ![p] = rest]
    /\ tries' = [tries EXCEPT ![p] = 0]
    /\ inbox' = [inbox EXCEPT ![p] = Silence]

-----------------------------------------------------------------------------
(* cmd_send: create, upload every part, finalize, print the link. *)

Created ==
    /\ Returned(Saver, "create")
    /\ Status(Saver) = 201
    /\ draft' = inbox[Saver].send
    /\ MoveTo(Saver, "upload", Manifest, wish.parts \ {Manifest})
    /\ UNCHANGED <<apiVars, wish, link, loaderVars, late>>

Uploaded ==
    /\ Returned(Saver, "upload")
    /\ Status(Saver) = 200
    /\ \/ todo[Saver] = {} /\ MoveTo(Saver, "finalize", None, {})
       \/ \E p \in todo[Saver] : MoveTo(Saver, "upload", p, todo[Saver] \ {p})
    /\ UNCHANGED <<apiVars, saverVars, loaderVars, late>>

Finalized ==
    /\ Returned(Saver, "finalize")
    /\ Status(Saver) = 200
    /\ link' = draft
    /\ MoveTo(Saver, "done", None, {})
    /\ UNCHANGED <<apiVars, wish, draft, loaderVars, late>>

SaveFails ==
    /\ \E call \in Gated : Returned(Saver, call)
    /\ Status(Saver) \notin {200, 201}
    /\ MoveTo(Saver, "failed", None, {})
    /\ UNCHANGED <<apiVars, saverVars, loaderVars, late>>

-----------------------------------------------------------------------------
(* cmd_load and cmd_load_detail: a cached grant or a redeem, the manifest, *)
(* then the parts it makes the command want.                               *)

(* The script exits, having printed its object or not. *)
Exit(l, end, printed) ==
    /\ said' = [said EXCEPT ![l] = printed]
    /\ host' = [host EXCEPT ![l] = None]
    /\ started' = [started EXCEPT ![l] = 0]
    /\ token' = [token EXCEPT ![l] = None]
    /\ MoveTo(l, end, None, {})

(* The clock is read before the cache is, and before any redeem.           *)
Usable(h) == cache[h].token # None /\ now < cache[h].exp

Begin(l, h) ==
    /\ step[l] \in Ends
    /\ link # None
    /\ host' = [host EXCEPT ![l] = h]
    /\ started' = [started EXCEPT ![l] = now]
    /\ said' = [said EXCEPT ![l] = FALSE]
    /\ IF Usable(h)
       THEN /\ token' = [token EXCEPT ![l] = cache[h].token]
            /\ MoveTo(l, "get", Manifest, {})
       ELSE /\ token' = [token EXCEPT ![l] = None]
            /\ MoveTo(l, "redeem", None, {})
    /\ UNCHANGED <<apiVars, saverVars, cache, late, read>>

(* The mutant counts the window from the answer, a retry or two later.     *)
CacheUntil_Answer(l) == now + GrantWindow
CacheUntil(l) == started[l] + GrantWindow

Redeemed(l) ==
    /\ Returned(l, "redeem")
    /\ Status(l) = 200
    /\ token' = [token EXCEPT ![l] = inbox[l].token]
    /\ cache' = [cache EXCEPT ![host[l]] =
                   [exp |-> CacheUntil(l), token |-> inbox[l].token]]
    /\ MoveTo(l, "get", Manifest, {})
    /\ UNCHANGED <<apiVars, saverVars, host, started, said, late, read>>

(* A broken connection leaves curl's output 000 and the script's 000: the  *)
(* case for it is missed, and without a body from an earlier attempt the   *)
(* shell dies before it prints anything.                                   *)
RedeemFails(l) ==
    /\ Returned(l, "redeem")
    /\ Status(l) # 200
    /\ Exit(l, "failed", Status(l) # 0 \/ tries[l] > 0)
    /\ UNCHANGED <<apiVars, saverVars, cache, late, read>>

(* The manifest names the parts; load wants those loaded by default,       *)
(* load-detail the one that was asked for.                                 *)
Downloaded(l) ==
    /\ Returned(l, "get")
    /\ Status(l) = 200
    /\ read' = read \cup {host[l]}
    /\ \E wanted \in IF part[l] = Manifest
                     THEN SUBSET (wish.parts \ {Manifest}) ELSE {todo[l]} :
        \/ wanted = {} /\ Exit(l, "done", TRUE)
        \/ /\ \E p \in wanted : MoveTo(l, "get", p, wanted \ {p})
           /\ UNCHANGED <<host, started, token, said>>
    /\ UNCHANGED <<apiVars, saverVars, cache, late>>

(* fetch_decrypt prints its error object into the file or the variable     *)
(* that was to take the part.                                              *)
DownloadFails(l) ==
    /\ Returned(l, "get")
    /\ Status(l) # 200
    /\ Exit(l, "failed", FALSE)
    /\ UNCHANGED <<apiVars, saverVars, cache, late, read>>

-----------------------------------------------------------------------------
ProcStep(p) ==
    \/ Answered(p)
    \/ Lost(p)
    \/ Delayed(p)

SaverStep ==
    \/ ProcStep(Saver)
    \/ Created
    \/ Uploaded
    \/ Finalized
    \/ SaveFails

LoaderStep(l) ==
    \/ ProcStep(l)
    \/ Redeemed(l)
    \/ RedeemFails(l)
    \/ Downloaded(l)
    \/ DownloadFails(l)

ClientTick ==
    /\ now < MaxTime
    /\ now' = now + 1
    /\ UNCHANGED <<stateVars, clientVars>>

ClientNext ==
    \/ SaverStep
    \/ \E l \in Loaders : LoaderStep(l)
    \/ \E l \in Loaders, h \in Hosts : Begin(l, h)
    \/ \E q \in late : ServeLate(q)
    \/ Sweep /\ UNCHANGED clientVars
    \/ ClientTick

ClientSpec == ClientInit /\ [][ClientNext]_allVars

-----------------------------------------------------------------------------
(* A link that is printed opens a complete send: whatever requests were    *)
(* repeated, lost or delivered late, the send was finalized, and it is     *)
(* gone only because it expired or was opened (cmd_send).                  *)
LinkIsComplete ==
    link # None =>
        \/ status[link] = "finalized" /\ Missing(link) = {}
        \/ /\ status[link] = "gone"
           /\ expires[link] <= now \/ consumed[link] # Null

(* A one-time link is read on one machine, whoever else was passed it and  *)
(* however often either tries (get_grant against RedeemSend).              *)
OneMachineReads == wish.once => Cardinality(read) <= 1

(* A cached grant is good for GrantTTL from the moment the client began    *)
(* the redeem, as its cache reckons it, however late the answer came: the  *)
(* server honours it, unless the send itself has expired (get_grant's      *)
(* clock against ValidateGrant's and the collector's).  The client takes   *)
(* it for good for GrantWindow, which SEND_GRANT_TTL may be shorter than.  *)
Begun(h) == cache[h].exp - GrantWindow
Honoured(h) == Validates(link, cache[h].token, now) \/ expires[link] <= now
CachedGrantWorks ==
    \A h \in Hosts :
        cache[h].token # None /\ now < Begun(h) + GrantTTL => Honoured(h)

(* Whatever clients and the network do, the endpoints keep the promises of *)
(* SendContract too; a sweep that is one step condemns nothing beforehand. *)
Contract == INSTANCE SendContract WITH
    missing <- [s \in Sends |-> Missing(s)],
    condemned <- {}
ApiImplementsContract == Contract!CSpec

(* send.sh:13: exactly one JSON object on stdout.                          *)
OneObject == \A l \in Loaders : step[l] \in {"done", "failed"} => said[l]
=============================================================================
