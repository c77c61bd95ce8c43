----------------------------- MODULE Coordinator -----------------------------
(***************************************************************************)
(* The send store: request handlers and the garbage collector running over *)
(* the SQLite state store and the filesystem blob store.                   *)
(*                                                                         *)
(* A handler is the sequence of its statements and system calls, one       *)
(* action each; pc[r] names the call that request r makes next and req[r]  *)
(* holds its local variables.  A request whose first check refuses it      *)
(* changes nothing and is not modelled; one refused later goes back to     *)
(* "idle".  What happens inside one statement, one transaction or one      *)
(* system call is atomic: the database has a single connection.            *)
(***************************************************************************)
EXTENDS StateStore, BlobStore

VARIABLES
    pc,           \* next call of each request
    req,          \* its local variables
    gcPc,         \* next call of the garbage collector
    gcIds,        \* ids: the sends DeleteExpired selected
    gcTodo,       \* keys whose blob is to be deleted (purge or orphan sweep)
    gcLive,       \* liveSet: the storage keys OrphanSweep read
    gcDirs,       \* directories WalkDir found and has not read yet
    faults,       \* bound: faults so far
    bornInSweep   \* history: sends inserted between a sweep's two reads

reqVars == <<pc, req>>
gcLocals == <<gcPc, gcIds, gcTodo, gcLive, gcDirs>>
vars == <<now, stateVars, blobVars, reqVars, gcLocals, faults, bornInSweep>>

Steps == {"idle", "insert_send",
          "put_declared", "put_mkdir", "put_temp", "put_copy", "put_publish",
          "put_mark",
          "fin_count", "fin_update",
          "red_load", "red_consume", "red_grant",
          "get_declared", "get_open"}
GcSteps == {"select", "keys", "delete", "purge", "list", "walk"}

Locals == [send : Sends \cup {None}, part : Parts \cup {None},
           token : Tokens \cup {None}, body : Contents, time : Time]
Args(s, p, tok, body, t) ==
    [send |-> s, part |-> p, token |-> tok, body |-> body, time |-> t]
Blank == Args(None, None, None, "none", 0)

TypeOK ==
    /\ StateTypeOK
    /\ BlobTypeOK
    /\ pc \in [Requests -> Steps]
    /\ req \in [Requests -> Locals]
    /\ gcPc \in GcSteps
    /\ gcIds \subseteq Sends
    /\ gcTodo \subseteq Keys
    /\ gcLive \subseteq Keys
    /\ gcDirs \subseteq Sends
    /\ faults \in 0 .. MaxFaults
    /\ bornInSweep \subseteq Sends

Init ==
    /\ StateInit
    /\ BlobInit
    /\ pc = [r \in Requests |-> "idle"]
    /\ req = [r \in Requests |-> Blank]
    /\ gcPc = "select"
    /\ gcIds = {}
    /\ gcTodo = {}
    /\ gcLive = {}
    /\ gcDirs = {}
    /\ faults = 0
    /\ bornInSweep = {}

-----------------------------------------------------------------------------
(* How a request moves: it arrives, goes on to its next call, or returns. *)

Arrive(r, step, locals) ==
    /\ pc[r] = "idle"
    /\ pc' = [pc EXCEPT ![r] = step]
    /\ req' = [req EXCEPT ![r] = locals]

GoTo(r, step) ==
    /\ pc' = [pc EXCEPT ![r] = step]
    /\ UNCHANGED req

Return(r) ==
    /\ pc' = [pc EXCEPT ![r] = "idle"]
    /\ req' = [req EXCEPT ![r] = Blank]

Send(r) == req[r].send
Key(r) == StorageKey(req[r].send, req[r].part)

(* What every request step leaves alone. *)
Rest == <<now, gcLocals, faults>>

-----------------------------------------------------------------------------
(* CreateSend: s.now(), then one transaction, for which it may have to     *)
(* wait.  A send inserted while OrphanSweep is between its two reads is    *)
(* recorded in bornInSweep.                                                *)

Create(r) ==
    /\ Arrive(r, "insert_send", Args(None, None, None, "none", now))
    /\ UNCHANGED <<Rest, stateVars, blobVars, bornInSweep>>

InsertStep(r, s, parts, once, ttl) ==
    /\ pc[r] = "insert_send"
    /\ InsertSend(s, parts, once, ttl, req[r].time)
    /\ bornInSweep' = IF gcPc \in {"list", "walk"}
                      THEN bornInSweep \cup {s} ELSE bornInSweep
    /\ Return(r)
    /\ UNCHANGED <<Rest, blobVars>>

-----------------------------------------------------------------------------
(* PutPart: SendStatusOf, DeclaredPart, blob.Put, MarkUploaded. *)

PutStatus(r, s, p) ==
    /\ status[s] = "creating"
    /\ Arrive(r, "put_declared", Args(s, p, None, "none", 0))
    /\ UNCHANGED <<Rest, stateVars, blobVars, bornInSweep>>

PutDeclared(r, headerAgrees) ==
    /\ pc[r] = "put_declared"
    /\ IF req[r].part \in declared[Send(r)] /\ headerAgrees
       THEN GoTo(r, "put_mkdir")
       ELSE Return(r)
    /\ UNCHANGED <<Rest, stateVars, blobVars, bornInSweep>>

PutMkdir(r) ==
    /\ pc[r] = "put_mkdir"
    /\ Mkdir(Send(r))
    /\ GoTo(r, "put_temp")
    /\ UNCHANGED <<Rest, stateVars, bornInSweep>>

(* The collector may have removed the empty directory in between. *)
PutTemp(r) ==
    /\ pc[r] = "put_temp"
    /\ \/ CreateTemp(Send(r), r) /\ GoTo(r, "put_copy")
       \/ Send(r) \notin dirs /\ Return(r) /\ UNCHANGED blobVars
    /\ UNCHANGED <<Rest, stateVars, bornInSweep>>

PutCopy(r, body) ==
    /\ pc[r] = "put_copy"
    /\ \/ /\ Verified(body)
          /\ pc' = [pc EXCEPT ![r] = "put_publish"]
          /\ req' = [req EXCEPT ![r] =
                       Args(Send(r), req[r].part, None, body, 0)]
          /\ UNCHANGED blobVars
       \/ ~Verified(body) /\ RemoveTemp(r) /\ Return(r)
    /\ UNCHANGED <<Rest, stateVars, bornInSweep>>

PutPublish(r) ==
    /\ pc[r] = "put_publish"
    /\ Publish(Key(r), r, req[r].body)
    /\ GoTo(r, "put_mark")
    /\ UNCHANGED <<Rest, stateVars, bornInSweep>>

PutMark(r) ==
    /\ pc[r] = "put_mark"
    /\ MarkUploaded(Send(r), req[r].part)
    /\ Return(r)
    /\ UNCHANGED <<Rest, blobVars, bornInSweep>>

PutStep(r) ==
    \/ \E s \in Sends, p \in Parts : PutStatus(r, s, p)
    \/ \E agrees \in BOOLEAN : PutDeclared(r, agrees)
    \/ PutMkdir(r)
    \/ PutTemp(r)
    \/ \E body \in Bodies : PutCopy(r, body)
    \/ PutPublish(r)
    \/ PutMark(r)

-----------------------------------------------------------------------------
(* FinalizeSend: SELECT status, COUNT the parts still missing, UPDATE. *)

FinStatus(r, s) ==
    /\ status[s] = "creating"
    /\ Arrive(r, "fin_count", Args(s, None, None, "none", 0))
    /\ UNCHANGED <<Rest, stateVars, blobVars, bornInSweep>>

(* The parts of a send deleted meanwhile are gone too: none is missing.    *)
(* The mutant is content with one uploaded part.                           *)
FinCount_Any(r) ==
    /\ pc[r] = "fin_count"
    /\ IF uploaded[Send(r)] # {} THEN GoTo(r, "fin_update") ELSE Return(r)
    /\ UNCHANGED <<Rest, stateVars, blobVars, bornInSweep>>
FinCount(r) ==
    /\ pc[r] = "fin_count"
    /\ IF Missing(Send(r)) = {} THEN GoTo(r, "fin_update") ELSE Return(r)
    /\ UNCHANGED <<Rest, stateVars, blobVars, bornInSweep>>

FinUpdate(r) ==
    /\ pc[r] = "fin_update"
    /\ \/ SetFinalized(Send(r))
       \/ status[Send(r)] # "creating" /\ UNCHANGED stateVars
    /\ Return(r)
    /\ UNCHANGED <<Rest, blobVars, bornInSweep>>

FinalizeStep(r) ==
    \/ \E s \in Sends : FinStatus(r, s)
    \/ FinCount(r)
    \/ FinUpdate(r)

-----------------------------------------------------------------------------
(* RedeemSend: s.now(), SELECT the send, consume a one-time link, INSERT   *)
(* the grant.  The time read first serves every later statement.  The      *)
(* final SELECT of the parts changes nothing and is left out.              *)

Redeem(r, s) ==
    /\ Stored(s)
    /\ Arrive(r, "red_load", Args(s, None, None, "none", now))
    /\ UNCHANGED <<Rest, stateVars, blobVars, bornInSweep>>

RedLoad(r) ==
    /\ pc[r] = "red_load"
    /\ IF ~Redeemable(Send(r), req[r].time) THEN Return(r)
       ELSE GoTo(r, IF oneTime[Send(r)] THEN "red_consume"
                                              ELSE "red_grant")
    /\ UNCHANGED <<Rest, stateVars, blobVars, bornInSweep>>

(* No row matched: the link is answered SEND_ALREADY_REDEEMED. *)
RedConsume(r) ==
    /\ pc[r] = "red_consume"
    /\ \/ Consume(Send(r), req[r].time) /\ GoTo(r, "red_grant")
       \/ /\ ~Consumable(Send(r), req[r].time)
          /\ Return(r)
          /\ UNCHANGED stateVars
    /\ UNCHANGED <<Rest, blobVars, bornInSweep>>

RedGrant(r, tok) ==
    /\ pc[r] = "red_grant"
    /\ \A g \in issued : g.token # tok
    /\ \/ InsertGrant(Send(r), tok, req[r].time)
       \/ ~Stored(Send(r)) /\ UNCHANGED stateVars
    /\ Return(r)
    /\ UNCHANGED <<Rest, blobVars, bornInSweep>>

RedeemStep(r) ==
    \/ \E s \in Sends : Redeem(r, s)
    \/ RedLoad(r)
    \/ RedConsume(r)
    \/ \E tok \in Tokens : RedGrant(r, tok)

-----------------------------------------------------------------------------
(* GetPart: ValidateGrant, DeclaredPart, blob.Open.  The client may send   *)
(* any token, one it was given for another send included.                  *)

GetGrant(r, s, p, tok) ==
    /\ Validates(s, tok, now)
    /\ Arrive(r, "get_declared", Args(s, p, tok, "none", now))
    /\ UNCHANGED <<Rest, stateVars, blobVars, bornInSweep>>

GetDeclared(r) ==
    /\ pc[r] = "get_declared"
    /\ IF req[r].part \in declared[Send(r)]
       THEN GoTo(r, "get_open") ELSE Return(r)
    /\ UNCHANGED <<Rest, stateVars, blobVars, bornInSweep>>

GetOpen(r) ==
    /\ pc[r] = "get_open"
    /\ Return(r)
    /\ UNCHANGED <<Rest, stateVars, blobVars, bornInSweep>>

GetStep(r) ==
    \/ \E s \in Sends, p \in Parts, tok \in Tokens : GetGrant(r, s, p, tok)
    \/ GetDeclared(r)
    \/ GetOpen(r)

-----------------------------------------------------------------------------
(* A call fails, or the client hangs up and cancels the context the next   *)
(* statement runs under: the handler returns, its defers run, and what it  *)
(* did before stays done.                                                  *)

Abort(r) ==
    /\ pc[r] # "idle"
    /\ RemoveTemp(r)
    /\ Return(r)
    /\ UNCHANGED <<Rest, stateVars, bornInSweep>>

RequestStep(r) ==
    \/ Create(r)
    \/ \E s \in Sends, parts \in Manifests, once \in BOOLEAN,
          ttl \in TTLs : InsertStep(r, s, parts, once, ttl)
    \/ PutStep(r)
    \/ FinalizeStep(r)
    \/ RedeemStep(r)
    \/ GetStep(r)
    \/ Abort(r)

-----------------------------------------------------------------------------
(* The collector: Worker.Sweep calls DeleteExpired, then OrphanSweep.      *)

(* What a collector step leaves alone. *)
Others == <<now, reqVars, faults, bornInSweep>>

(* w.now() and SELECT the ids; with none, there is nothing to purge.  The  *)
(* mutant never selects an unfinished send for its age.                    *)
GcSelect_NoStale ==
    /\ gcPc = "select"
    /\ gcIds' = {s \in Sends : Stored(s) /\ (expires[s] <= now \/ Spent(s, now))}
    /\ gcPc' = IF gcIds' = {} THEN "purge" ELSE "keys"
    /\ UNCHANGED <<Others, stateVars, blobVars, gcTodo, gcLive, gcDirs>>
GcSelect ==
    /\ gcPc = "select"
    /\ gcIds' = {s \in Sends : Reapable(s, now)}
    /\ gcPc' = IF gcIds' = {} THEN "purge" ELSE "keys"
    /\ UNCHANGED <<Others, stateVars, blobVars, gcTodo, gcLive, gcDirs>>

GcKeys ==
    /\ gcPc = "keys"
    /\ gcTodo' = KeysFor(gcIds)
    /\ gcPc' = "delete"
    /\ UNCHANGED <<Others, stateVars, blobVars, gcIds, gcLive, gcDirs>>

GcDelete ==
    /\ gcPc = "delete"
    /\ DeleteSends(gcIds)
    /\ gcIds' = {}
    /\ gcPc' = "purge"
    /\ UNCHANGED <<Others, blobVars, gcTodo, gcLive, gcDirs>>

GcPurge(k) ==
    /\ gcPc = "purge"
    /\ k \in gcTodo
    /\ DeleteBlob(k)
    /\ gcTodo' = gcTodo \ {k}
    /\ UNCHANGED <<Others, stateVars, gcPc, gcIds, gcLive, gcDirs>>

(* OrphanSweep reads the live keys ... *)
GcLive ==
    /\ gcPc = "purge"
    /\ gcTodo = {}
    /\ gcLive' = LiveStorageKeys
    /\ gcPc' = "list"
    /\ UNCHANGED <<Others, stateVars, blobVars, gcIds, gcTodo, gcDirs>>

(* ... then walks the blob directory, one directory read at a time. *)
GcList ==
    /\ gcPc = "list"
    /\ gcDirs' = dirs
    /\ gcPc' = "walk"
    /\ UNCHANGED <<Others, stateVars, blobVars, gcIds, gcTodo, gcLive>>

GcWalk(s) ==
    /\ gcPc = "walk"
    /\ s \in gcDirs
    /\ gcDirs' = gcDirs \ {s}
    /\ gcTodo' = gcTodo \cup (Listed(s) \ gcLive)
    /\ UNCHANGED <<Others, stateVars, blobVars, gcPc, gcIds, gcLive>>

GcSweep(k) ==
    /\ gcPc = "walk"
    /\ gcDirs = {}
    /\ k \in gcTodo
    /\ DeleteBlob(k)
    /\ gcTodo' = gcTodo \ {k}
    /\ UNCHANGED <<Others, stateVars, gcPc, gcIds, gcLive, gcDirs>>

GcDone ==
    /\ gcPc = "walk"
    /\ gcDirs = {}
    /\ gcTodo = {}
    /\ gcLive' = {}
    /\ gcPc' = "select"
    /\ UNCHANGED <<Others, stateVars, blobVars, gcIds, gcTodo, gcDirs>>

GcStep ==
    \/ GcSelect
    \/ GcKeys
    \/ GcDelete
    \/ \E k \in Keys : GcPurge(k) \/ GcSweep(k)
    \/ GcLive
    \/ GcList
    \/ \E s \in Sends : GcWalk(s)
    \/ GcDone

-----------------------------------------------------------------------------
(* Faults, at most MaxFaults of them, and time. *)

Fault == faults < MaxFaults /\ faults' = faults + 1

(* A sweep given up leaves nothing to the next.  After the mutant's failed *)
(* sweep the worker waits for no further tick.                             *)
GcRestart_Dies ==
    /\ gcPc' = "stopped"
    /\ UNCHANGED <<gcIds, gcTodo, gcLive, gcDirs>>
GcRestart ==
    /\ gcPc' = "select"
    /\ gcIds' = {}
    /\ gcTodo' = {}
    /\ gcLive' = {}
    /\ gcDirs' = {}

(* A statement or the walk fails: Sweep reports it and returns. *)
GcAbort ==
    /\ Fault
    /\ gcPc \in {"keys", "delete", "list", "walk"}
    /\ GcRestart
    /\ UNCHANGED <<now, stateVars, blobVars, reqVars, bornInSweep>>

(* blob.Delete fails: best effort, the error is dropped. *)
GcSkips(k) ==
    /\ Fault
    /\ gcPc \in {"purge", "walk"}
    /\ gcPc = "walk" => gcDirs = {}
    /\ k \in gcTodo
    /\ gcTodo' = gcTodo \ {k}
    /\ UNCHANGED <<now, stateVars, blobVars, reqVars, bornInSweep,
                   gcPc, gcIds, gcLive, gcDirs>>

(* The process dies and is started again on the same files. *)
Crash ==
    /\ Fault
    /\ pc' = [r \in Requests |-> "idle"]
    /\ req' = [r \in Requests |-> Blank]
    /\ AbandonTemps
    /\ GcRestart
    /\ UNCHANGED <<now, stateVars, bornInSweep>>

Tick ==
    /\ now < MaxTime
    /\ now' = now + 1
    /\ UNCHANGED <<stateVars, blobVars, reqVars, gcLocals, faults, bornInSweep>>

Next ==
    \/ \E r \in Requests : RequestStep(r)
    \/ GcStep
    \/ GcAbort
    \/ \E k \in Keys : GcSkips(k)
    \/ Crash
    \/ Tick

Spec == Init /\ [][Next]_vars

(* Only the collector is driven by the program itself: Worker.Run sweeps   *)
(* at once and on every tick.  Nothing makes a client go on.               *)
FairSpec == Spec /\ WF_vars(GcStep)
=============================================================================
