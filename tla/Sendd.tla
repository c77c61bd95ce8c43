------------------------------- MODULE Sendd --------------------------------
(***************************************************************************)
(* The server process: cmd/sendd.Run from opening the stores to the exit,  *)
(* with the goroutines it shares the one database connection with, the     *)
(* handlers of http.Server and the collector.  What they do to the tables  *)
(* is Coordinator's matter; here a statement only holds the connection and *)
(* may leave pages in the write-ahead log.  The collector's statements     *)
(* carry the context the signal cancels, a handler's do not; database/sql  *)
(* begins no statement whose context is done.                              *)
(***************************************************************************)
EXTENDS Integers

CONSTANTS
    Conns,        \* client connections
    GC,           \* the collector's goroutine
    Run,          \* the main goroutine
    Nobody,       \* the connection is in the pool
    Statements    \* bound: statements of one request, and of one sweep

ASSUME SenddAssumption ==
    /\ GC \notin Conns /\ Run \notin Conns /\ Nobody \notin Conns
    /\ GC # Run /\ GC # Nobody /\ Run # Nobody
    /\ Statements \in Nat

VARIABLES
    main,     \* where Run is
    why,      \* why it returns
    ctxDone,  \* SIGINT or SIGTERM has arrived
    client,   \* each connection: "closed", "idle" or "active"
    gc,       \* "none", "sweep", "wait" or "stopped"
    left,     \* statements a request or the sweep may still make
    holder,   \* who holds the database connection
    db,       \* "closed" or "open"
    wal,      \* the write-ahead log holds pages the .db file lacks
    unfolded  \* history: the steps of Close that failed to empty the log

files == <<wal, unfolded>>
senddVars == <<main, why, ctxDone, client, gc, left, holder, db, files>>

Users == Conns \cup {GC}

SenddTypeOK ==
    /\ main \in {"open", "listen", "serve", "drain", "close", "checkpoint",
                 "close_db", "return", "exited"}
    /\ why \in {"none", "drained", "late", "open", "listen", "serve"}
    /\ ctxDone \in BOOLEAN
    /\ client \in [Conns -> {"closed", "idle", "active"}]
    /\ gc \in {"none", "sweep", "wait", "stopped"}
    /\ left \in [Users -> 0 .. Statements]
    /\ holder \in Users \cup {Run, Nobody}
    /\ db \in {"closed", "open"}
    /\ wal \in BOOLEAN
    /\ unfolded \subseteq {"checkpoint", "close_db"}

(* The database is open from OpenStores to the end of Close. *)
Opened == {"listen", "serve", "drain", "close", "checkpoint", "close_db"}

(* A log left by an earlier process is still there.                        *)
SenddInit ==
    /\ main = "open"
    /\ why = "none"
    /\ ctxDone = FALSE
    /\ client = [c \in Conns |-> "closed"]
    /\ gc = "none"
    /\ left = [u \in Users |-> 0]
    /\ holder = Nobody
    /\ db = "closed"
    /\ wal \in BOOLEAN
    /\ unfolded = {}

-----------------------------------------------------------------------------
(* Run. *)

(* The deferred state.Close runs on every return after the state is open.  *)
Return(reason) == main' = "close" /\ why' = reason

OpenStores ==
    /\ main = "open"
    /\ main' = "listen"
    /\ db' = "open"
    /\ gc' = "sweep"
    /\ left' = [left EXCEPT ![GC] = Statements]
    /\ UNCHANGED <<why, ctxDone, client, holder, files>>

(* Configuration, request log or state store; or the blob store, after     *)
(* the state store was opened.                                             *)
OpenFails ==
    /\ main = "open"
    /\ \/ main' = "return" /\ why' = "open" /\ UNCHANGED db
       \/ Return("open") /\ db' = "open"
    /\ UNCHANGED <<ctxDone, client, gc, left, holder, files>>

Listen ==
    /\ main = "listen"
    /\ \/ main' = "serve" /\ UNCHANGED why
       \/ Return("listen")
    /\ UNCHANGED <<ctxDone, client, gc, left, holder, db, files>>

ServeFails ==
    /\ main = "serve"
    /\ Return("serve")
    /\ UNCHANGED <<ctxDone, client, gc, left, holder, db, files>>

BeginShutdown ==
    /\ main = "serve" /\ ctxDone
    /\ main' = "drain"
    /\ UNCHANGED <<why, ctxDone, client, gc, left, holder, db, files>>

(* Shutdown closes idle connections and waits for the others; the mutant   *)
(* does not wait.                                                          *)
Drained_AtOnce ==
    /\ main = "drain"
    /\ client' = [c \in Conns |-> IF client[c] = "idle" THEN "closed" ELSE client[c]]
    /\ Return("drained")
    /\ UNCHANGED <<ctxDone, gc, left, holder, db, files>>
Drained ==
    /\ main = "drain"
    /\ \A c \in Conns : client[c] # "active"
    /\ client' = [c \in Conns |-> "closed"]
    /\ Return("drained")
    /\ UNCHANGED <<ctxDone, gc, left, holder, db, files>>

(* shutdownCtx; the mutant waits without a limit.                          *)
DeadlinePasses_Never == FALSE /\ UNCHANGED senddVars
DeadlinePasses ==
    /\ main = "drain"
    /\ Return("late")
    /\ UNCHANGED <<ctxDone, client, gc, left, holder, db, files>>

(* SQLiteState.Close: the checkpoint needs the connection as any other     *)
(* statement does, and its context has no deadline.                        *)
CloseTakesConn ==
    /\ main = "close" /\ holder = Nobody
    /\ holder' = Run
    /\ main' = "checkpoint"
    /\ UNCHANGED <<why, ctxDone, client, gc, left, db, files>>

(* SQLite copies its log into the file and empties it, or reports an error *)
(* or that it is busy; Close drops the one and Run's defer the other, and  *)
(* both go on.                                                             *)
Fold(step) ==
    \/ wal' = FALSE /\ UNCHANGED unfolded
    \/ wal' = wal /\ unfolded' = unfolded \cup {step}

Checkpoint ==
    /\ main = "checkpoint"
    /\ Fold("checkpoint")
    /\ holder' = Nobody
    /\ main' = "close_db"
    /\ UNCHANGED <<why, ctxDone, client, gc, left, db>>

(* db.Close closes a free connection, with which SQLite folds its log into *)
(* the file; one in use is closed when it is released.                     *)
CloseDB ==
    /\ main = "close_db"
    /\ db' = "closed"
    /\ IF holder = Nobody THEN Fold("close_db") ELSE UNCHANGED files
    /\ main' = "return"
    /\ UNCHANGED <<why, ctxDone, client, gc, left, holder>>

(* main ends, and every goroutine with it; status 0 if why is "drained".   *)
Exit ==
    /\ main = "return"
    /\ main' = "exited"
    /\ UNCHANGED <<why, ctxDone, client, gc, left, holder, db, files>>

-----------------------------------------------------------------------------
(* The others, as long as the process lives. *)

Alive == main # "exited"
ShuttingDown == main = "drain" \/ why \in {"drained", "late"}

Signal ==
    /\ Alive /\ ~ctxDone
    /\ ctxDone' = TRUE
    /\ UNCHANGED <<main, why, client, gc, left, holder, db, files>>

Connect(c) ==
    /\ main = "serve" /\ client[c] = "closed"
    /\ client' = [client EXCEPT ![c] = "idle"]
    /\ UNCHANGED <<main, why, ctxDone, gc, left, holder, db, files>>

Request(c) ==
    /\ Alive /\ client[c] = "idle"
    /\ client' = [client EXCEPT ![c] = "active"]
    /\ left' = [left EXCEPT ![c] = Statements]
    /\ UNCHANGED <<main, why, ctxDone, gc, holder, db, files>>

(* The handler returns, having released the connection; the mutant forgets *)
(* to close the rows it was reading.                                       *)
Respond_Leaking(c) ==
    /\ Alive /\ client[c] = "active"
    /\ \E next \in IF ShuttingDown THEN {"closed"} ELSE {"idle", "closed"} :
        client' = [client EXCEPT ![c] = next]
    /\ left' = [left EXCEPT ![c] = 0]
    /\ UNCHANGED <<main, why, ctxDone, gc, holder, db, files>>
Respond(c) ==
    /\ Alive /\ client[c] = "active" /\ holder # c
    /\ \E next \in IF ShuttingDown THEN {"closed"} ELSE {"idle", "closed"} :
        client' = [client EXCEPT ![c] = next]
    /\ left' = [left EXCEPT ![c] = 0]
    /\ UNCHANGED <<main, why, ctxDone, gc, holder, db, files>>

(* Worker.Run and Sweep: a refused statement ends the sweep, a done        *)
(* context the worker, unless select takes one more tick.                  *)
EndSweep ==
    /\ Alive /\ gc = "sweep" /\ holder # GC
    /\ gc' = "wait"
    /\ left' = [left EXCEPT ![GC] = 0]
    /\ UNCHANGED <<main, why, ctxDone, client, holder, db, files>>

Tick ==
    /\ Alive /\ gc = "wait"
    /\ gc' = "sweep"
    /\ left' = [left EXCEPT ![GC] = Statements]
    /\ UNCHANGED <<main, why, ctxDone, client, holder, db, files>>

StopWorker ==
    /\ Alive /\ gc = "wait" /\ ctxDone
    /\ gc' = "stopped"
    /\ UNCHANGED <<main, why, ctxDone, client, left, holder, db, files>>

Busy(u) == IF u = GC THEN gc = "sweep" ELSE client[u] = "active"

(* A statement begins, a reading or a writing one; the mutant gives the    *)
(* collector's a context of their own.                                     *)
BeginStatement_Detached(u) ==
    /\ Alive /\ Busy(u) /\ left[u] > 0
    /\ db = "open" /\ holder = Nobody
    /\ holder' = u
    /\ wal' \in {wal, TRUE}
    /\ left' = [left EXCEPT ![u] = @ - 1]
    /\ UNCHANGED <<main, why, ctxDone, client, gc, db, unfolded>>
BeginStatement(u) ==
    /\ Alive /\ Busy(u) /\ left[u] > 0
    /\ db = "open" /\ holder = Nobody
    /\ u = GC => ~ctxDone
    /\ holder' = u
    /\ wal' \in {wal, TRUE}
    /\ left' = [left EXCEPT ![u] = @ - 1]
    /\ UNCHANGED <<main, why, ctxDone, client, gc, db, unfolded>>

(* A connection released after db.Close is closed, with the log or not.    *)
EndStatement(u) ==
    /\ Alive /\ holder = u
    /\ holder' = Nobody
    /\ wal' \in IF db = "open" THEN {wal} ELSE {wal, FALSE}
    /\ UNCHANGED <<main, why, ctxDone, client, gc, left, db, unfolded>>

-----------------------------------------------------------------------------
RunStep ==
    \/ OpenStores
    \/ OpenFails
    \/ Listen
    \/ BeginShutdown
    \/ Drained
    \/ DeadlinePasses
    \/ CloseTakesConn
    \/ Checkpoint
    \/ CloseDB
    \/ Exit

ConnStep(c) == Connect(c) \/ Request(c) \/ Respond(c)
WorkerStep == EndSweep \/ Tick \/ StopWorker

SenddNext ==
    \/ RunStep
    \/ ServeFails
    \/ Signal
    \/ \E c \in Conns : ConnStep(c)
    \/ WorkerStep
    \/ \E u \in Users : BeginStatement(u) \/ EndStatement(u)

(* Run goes on, its deadline passes, statements end; handlers may hang.    *)
(* database/sql hands a released connection to a waiter picked at random,  *)
(* so that Close is not passed over for ever.                              *)
SenddSpec ==
    /\ SenddInit /\ [][SenddNext]_senddVars
    /\ WF_senddVars(RunStep)
    /\ SF_senddVars(CloseTakesConn)
    /\ \A u \in Users : WF_senddVars(EndStatement(u))

-----------------------------------------------------------------------------
(* When the process stops gracefully no request is cut off: the database   *)
(* is not closed under a handler, nor under a statement of the collector,  *)
(* which nothing waits for (Run's Shutdown and deferred Close).            *)
NothingCutOff ==
    why = "drained" /\ db = "closed" =>
        /\ \A c \in Conns : client[c] = "closed"
        /\ holder = Nobody

(* ... because whoever holds the connection is at work with it, and once   *)
(* Shutdown has drained the server nobody is left who may take it before   *)
(* Close, or between Close's checkpoint and its end; what the log still    *)
(* holds then is what these two could not fold.                            *)
SenddInv ==
    /\ SenddTypeOK
    /\ holder = Run <=> main = "checkpoint"
    /\ holder \in Conns => client[holder] = "active"
    /\ holder = GC => gc = "sweep"
    /\ db = "open" <=> main \in Opened
    /\ main = "drain" => ctxDone
    /\ why = "drained" =>
        /\ ctxDone
        /\ main \in {"close", "checkpoint", "close_db", "return", "exited"}
        /\ \A c \in Conns : client[c] = "closed"
        /\ main \in {"close_db", "return", "exited"} =>
            holder = Nobody /\ (wal => "checkpoint" \in unfolded)
        /\ main \in {"return", "exited"} =>
            (wal => "close_db" \in unfolded)

(* sqlite.go:107: after a graceful stop a copy of the .db file alone is a  *)
(* complete backup, although the collector may be sweeping as Close runs - *)
(* unless neither Close's checkpoint nor the closing of the connection     *)
(* could empty the log, which nobody is told (sqlite.go:109, sendd.go:49). *)
CompleteBackup ==
    main = "exited" /\ why = "drained" /\ wal =>
        unfolded = {"checkpoint", "close_db"}

(* A signal ends the process, whatever handlers and clients do.            *)
ShutdownEnds == ctxDone ~> main = "exited"
=============================================================================
