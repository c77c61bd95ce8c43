----------------------------- MODULE SenddProofs -----------------------------
(***************************************************************************)
(* Proofs about the server process, for any number of connections and any  *)
(* number of statements a request or a sweep makes.                        *)
(***************************************************************************)
EXTENDS Sendd, TLAPS

LEMMA InvInitial == SenddInit => SenddInv
  <1> SUFFICES ASSUME SenddInit PROVE SenddInv
    OBVIOUS
  <1>1. left \in [Users -> 0 .. Statements]
    BY SenddAssumption DEF SenddInit
  <1>2. client \in [Conns -> {"closed", "idle", "active"}]
    BY DEF SenddInit
  <1>3. SenddTypeOK
    BY <1>1, <1>2 DEF SenddInit, SenddTypeOK
  <1> QED
    BY <1>3, SenddAssumption DEF SenddInit, SenddInv, Opened

-----------------------------------------------------------------------------
(* Run's own steps. *)
LEMMA RunKeeps ==
    ASSUME SenddInv, RunStep \/ ServeFails
    PROVE  SenddInv'
  <1> USE SenddAssumption
      DEF SenddInv, SenddTypeOK, Opened, Users, Return, files
  <1>1. CASE OpenStores
    BY <1>1 DEF OpenStores
  <1>2. CASE OpenFails
    BY <1>2 DEF OpenFails
  <1>3. CASE Listen
    BY <1>3 DEF Listen
  <1>4. CASE ServeFails
    BY <1>4 DEF ServeFails
  <1>5. CASE BeginShutdown
    BY <1>5 DEF BeginShutdown
  <1>6. CASE Drained
    <2>1. holder \notin Conns
      BY <1>6 DEF Drained
    <2>2. client' \in [Conns -> {"closed", "idle", "active"}]
      BY <1>6 DEF Drained
    <2>3. ctxDone
      BY <1>6 DEF Drained
    <2>4. SenddTypeOK'
      BY <1>6, <2>2 DEF Drained
    <2> QED BY <1>6, <2>1, <2>3, <2>4 DEF Drained
  <1>7. CASE DeadlinePasses
    BY <1>7 DEF DeadlinePasses
  <1>8. CASE CloseTakesConn
    BY <1>8 DEF CloseTakesConn
  <1>9. CASE Checkpoint
    BY <1>9 DEF Checkpoint, Fold
  <1>10. CASE CloseDB
    BY <1>10 DEF CloseDB, Fold
  <1>11. CASE Exit
    BY <1>11 DEF Exit
  <1> QED
    BY <1>1, <1>2, <1>3, <1>4, <1>5, <1>6, <1>7, <1>8, <1>9, <1>10, <1>11
    DEF RunStep

(* The handlers' and the collector's. *)
LEMMA OthersKeep ==
    ASSUME SenddInv,
           Signal \/ WorkerStep \/ (\E c \in Conns : ConnStep(c))
    PROVE  SenddInv'
  <1> USE SenddAssumption
      DEF SenddInv, SenddTypeOK, Opened, Users, files
  <1>1. CASE Signal
    BY <1>1 DEF Signal
  <1>2. ASSUME NEW c \in Conns, Connect(c) PROVE SenddInv'
    BY <1>2 DEF Connect
  <1>3. ASSUME NEW c \in Conns, Request(c) PROVE SenddInv'
    BY <1>3 DEF Request
  <1>4. ASSUME NEW c \in Conns, Respond(c) PROVE SenddInv'
    BY <1>4 DEF Respond
  <1>5. CASE EndSweep
    BY <1>5 DEF EndSweep
  <1>6. CASE Tick
    BY <1>6 DEF Tick
  <1>7. CASE StopWorker
    BY <1>7 DEF StopWorker
  <1> QED
    BY <1>1, <1>2, <1>3, <1>4, <1>5, <1>6, <1>7 DEF ConnStep, WorkerStep

(* A statement: after a graceful drain nobody may begin one. *)
LEMMA StatementsKeep ==
    ASSUME SenddInv, NEW u \in Users, BeginStatement(u) \/ EndStatement(u)
    PROVE  SenddInv'
  <1> USE SenddAssumption
      DEF SenddInv, SenddTypeOK, Opened, Users, files
  <1>1. CASE BeginStatement(u)
    <2>1. why # "drained"
      <3>1. CASE u = GC
        BY <1>1, <3>1 DEF BeginStatement
      <3>2. CASE u \in Conns
        <4>1. u # GC
          BY <3>2
        <4>2. client[u] = "active"
          BY <1>1, <4>1 DEF BeginStatement, Busy
        <4>3. why = "drained" => client[u] = "closed"
          BY <3>2
        <4> QED BY <4>2, <4>3
      <3> QED BY <3>1, <3>2
    <2>2. wal' \in BOOLEAN
      BY <1>1 DEF BeginStatement
    <2>3. left' \in [Users -> 0 .. Statements]
      BY <1>1 DEF BeginStatement
    <2>4. /\ holder' = u /\ db = "open" /\ holder = Nobody
          /\ u = GC => gc = "sweep"
          /\ u \in Conns => client[u] = "active"
          /\ UNCHANGED <<main, why, ctxDone, client, gc, db, unfolded>>
      BY <1>1 DEF BeginStatement, Busy
    <2> HIDE DEF Users
    <2>5. SenddTypeOK'
      BY <2>2, <2>3, <2>4
    <2> QED BY <2>1, <2>4, <2>5 DEF Users
  <1>2. CASE EndStatement(u)
    BY <1>2 DEF EndStatement
  <1> QED BY <1>1, <1>2

-----------------------------------------------------------------------------
(* Whoever holds the database connection is at work with it, and after a   *)
(* graceful drain nobody takes it before the process ends.                 *)
THEOREM SenddInvariance == SenddSpec => []SenddInv
  <1>1. SenddInv /\ [SenddNext]_senddVars => SenddInv'
    <2> SUFFICES ASSUME SenddInv, [SenddNext]_senddVars PROVE SenddInv'
      OBVIOUS
    <2>1. CASE UNCHANGED senddVars
      BY <2>1 DEF senddVars, files, SenddInv, SenddTypeOK, Opened
    <2>2. CASE SenddNext
      BY <2>2, RunKeeps, OthersKeep, StatementsKeep DEF SenddNext
    <2> QED BY <2>1, <2>2
  <1> QED BY <1>1, InvInitial, PTL DEF SenddSpec

(* A graceful stop closes the database under nobody. *)
THEOREM GracefulClose == SenddSpec => []NothingCutOff
  <1>1. SenddInv => NothingCutOff
    BY DEF SenddInv, SenddTypeOK, NothingCutOff, Opened
  <1> QED BY <1>1, SenddInvariance, PTL

(* A graceful stop leaves a complete database file (Close's comment),      *)
(* unless both of Close's attempts to empty the log failed.                *)
THEOREM BackupIsComplete == SenddSpec => []CompleteBackup
  <1>1. SenddInv => CompleteBackup
    <2> SUFFICES ASSUME SenddInv, main = "exited", why = "drained", wal
                 PROVE  unfolded = {"checkpoint", "close_db"}
      BY DEF CompleteBackup
    <2>1. "checkpoint" \in unfolded /\ "close_db" \in unfolded
      BY DEF SenddInv
    <2>2. unfolded \subseteq {"checkpoint", "close_db"}
      BY DEF SenddInv, SenddTypeOK
    <2> QED
      BY <2>1, <2>2
  <1> QED BY <1>1, SenddInvariance, PTL

-----------------------------------------------------------------------------
(* The end of a shutdown, given that Run and the statements go on.         *)

(* The fairness of SenddSpec with the guards of its actions written out:   *)
(* Run steps where it is never held up, statements end, and Close gets a   *)
(* connection that is free again and again.                                *)
RunReady ==
    \/ main \in {"open", "listen", "drain", "checkpoint", "close_db", "return"}
    \/ main = "serve" /\ ctxDone
UserHolds == Alive /\ holder \in Users
UserReleases == \E u \in Users : EndStatement(u)
RunGoesOn ==
    /\ <>[]RunReady => []<><<RunStep>>_senddVars
    /\ <>[]UserHolds => []<><<UserReleases>>_senddVars
    /\ []<>(main = "close" /\ holder = Nobody) =>
           []<><<CloseTakesConn>>_senddVars

(* How main moves: forward, one step of Run at a time, or because serving  *)
(* failed; and out of "close" only with the connection.                    *)
LEMMA MainMoves ==
    ASSUME [SenddNext]_senddVars
    PROVE  \/ main' = main
           \/ main = "open" /\ main' \in {"listen", "close", "return"}
           \/ main = "listen" /\ main' \in {"serve", "close"}
           \/ main = "serve" /\ main' \in {"drain", "close"}
           \/ main = "drain" /\ main' = "close"
           \/ main = "close" /\ main' = "checkpoint"
           \/ main = "checkpoint" /\ main' = "close_db"
           \/ main = "close_db" /\ main' = "return"
           \/ main = "return" /\ main' = "exited"
  BY DEF SenddNext, RunStep, OpenStores, OpenFails, Return, Listen,
         ServeFails, BeginShutdown, Drained, DeadlinePasses, CloseTakesConn,
         Checkpoint, CloseDB, Exit, Signal, ConnStep, Connect, Request,
         Respond, WorkerStep, EndSweep, Tick, StopWorker, BeginStatement,
         EndStatement, senddVars

LEMMA RunMoves ==
    ASSUME RunStep
    PROVE  main' # main
  BY DEF RunStep, OpenStores, OpenFails, Return, Listen, BeginShutdown,
         Drained, DeadlinePasses, CloseTakesConn, Checkpoint, CloseDB, Exit

LEMMA SignalStays ==
    ASSUME [SenddNext]_senddVars, ctxDone
    PROVE  ctxDone'
  BY DEF SenddNext, RunStep, OpenStores, OpenFails, Return, Listen,
         ServeFails, BeginShutdown, Drained, DeadlinePasses, CloseTakesConn,
         Checkpoint, CloseDB, Exit, Signal, ConnStep, Connect, Request,
         Respond, WorkerStep, EndSweep, Tick, StopWorker, BeginStatement,
         EndStatement, senddVars

(* Run is at m, and at m with the signal received.                         *)
At(m) == main = m
Stopping(m) == main = m /\ ctxDone

(* Close gets the connection: whoever has it releases it again and again,  *)
(* and it is not passed over for ever.                                     *)
LEMMA CloseLeaves ==
    SenddSpec /\ RunGoesOn =>
        (Stopping("close") ~> Stopping("checkpoint"))
  <1>1. SenddInv /\ At("close") =>
            UserHolds \/ (main = "close" /\ holder = Nobody)
    BY DEF SenddInv, SenddTypeOK, At, UserHolds, Alive
  <1>2. <<UserReleases>>_senddVars => (holder = Nobody)'
    BY DEF UserReleases, EndStatement
  <1>3. ~(UserHolds /\ holder = Nobody)
    BY SenddAssumption DEF UserHolds, Users
  <1>4. At("close") <=> main = "close"
    BY DEF At
  <1>5. <<CloseTakesConn>>_senddVars => At("checkpoint")'
    BY DEF CloseTakesConn, At
  <1>6. At("close") /\ [SenddNext]_senddVars
            => At("close")' \/ At("checkpoint")'
    BY MainMoves DEF At
  <1>7. ctxDone /\ [SenddNext]_senddVars => ctxDone'
    BY SignalStays
  <1>8. /\ Stopping("close") <=> At("close") /\ ctxDone
        /\ Stopping("checkpoint") <=> At("checkpoint") /\ ctxDone
        /\ ~(At("close") /\ At("checkpoint"))
    BY DEF Stopping, At
  <1> QED
    BY <1>1, <1>2, <1>3, <1>4, <1>5, <1>6, <1>7, <1>8, SenddInvariance, PTL
    DEF SenddSpec, RunGoesOn

(* If Run and the statements go on, a signal ends the process.             *)
THEOREM SignalEnds == SenddSpec /\ RunGoesOn => ShutdownEnds
  <1>1. SenddInv => \/ At("open") \/ At("listen") \/ At("serve")
                    \/ At("drain") \/ At("close") \/ At("checkpoint")
                    \/ At("close_db") \/ At("return") \/ main = "exited"
    BY DEF SenddInv, SenddTypeOK, At
  <1>2. [SenddNext]_senddVars =>
          /\ At("open") => \/ At("open")' \/ At("listen")'
                           \/ At("close")' \/ At("return")'
          /\ At("listen") => At("listen")' \/ At("serve")' \/ At("close")'
          /\ At("serve") => At("serve")' \/ At("drain")' \/ At("close")'
          /\ At("drain") => At("drain")' \/ At("close")'
          /\ At("checkpoint") => At("checkpoint")' \/ At("close_db")'
          /\ At("close_db") => At("close_db")' \/ At("return")'
          /\ At("return") => At("return")' \/ (main = "exited")'
    BY MainMoves DEF At
  <1>3. ASSUME NEW m
        PROVE  At(m) /\ <<RunStep>>_senddVars => ~At(m)'
    BY RunMoves DEF At
  <1>4. ctxDone /\ [SenddNext]_senddVars => ctxDone'
    BY SignalStays
  <1>5. At("open") \/ At("listen") \/ At("drain") \/ At("checkpoint")
        \/ At("close_db") \/ At("return") \/ (At("serve") /\ ctxDone)
            => RunReady
    BY DEF At, RunReady
  <1>6. Stopping("close") <=> At("close") /\ ctxDone
    BY DEF Stopping, At
  <1>7. Stopping("checkpoint") <=> At("checkpoint") /\ ctxDone
    BY DEF Stopping, At
  <1>return. SenddSpec /\ RunGoesOn =>
                 (At("return") ~> main = "exited")
    <2>1. At("return") /\ <<RunStep>>_senddVars => ~At("return")'
      BY <1>3
    <2> QED
      BY <1>2, <1>5, <2>1, PTL DEF SenddSpec, RunGoesOn
  <1>close_db. SenddSpec /\ RunGoesOn =>
                   (At("close_db") ~> main = "exited")
    <2>1. At("close_db") /\ <<RunStep>>_senddVars => ~At("close_db")'
      BY <1>3
    <2> QED
      BY <1>2, <1>5, <1>return, <2>1, PTL DEF SenddSpec, RunGoesOn
  <1>checkpoint. SenddSpec /\ RunGoesOn =>
                     (At("checkpoint") ~> main = "exited")
    <2>1. At("checkpoint") /\ <<RunStep>>_senddVars => ~At("checkpoint")'
      BY <1>3
    <2> QED
      BY <1>2, <1>5, <1>close_db, <2>1, PTL DEF SenddSpec, RunGoesOn
  <1>close. SenddSpec /\ RunGoesOn =>
                (At("close") /\ ctxDone ~> main = "exited")
    BY <1>6, <1>7, <1>checkpoint, CloseLeaves, PTL
  <1>drain. SenddSpec /\ RunGoesOn =>
                (At("drain") /\ ctxDone ~> main = "exited")
    <2>1. At("drain") /\ <<RunStep>>_senddVars => ~At("drain")'
      BY <1>3
    <2> QED
      BY <1>2, <1>4, <1>5, <1>close, <2>1, PTL DEF SenddSpec, RunGoesOn
  <1>serve. SenddSpec /\ RunGoesOn =>
                (At("serve") /\ ctxDone ~> main = "exited")
    <2>1. At("serve") /\ <<RunStep>>_senddVars => ~At("serve")'
      BY <1>3
    <2> QED
      BY <1>2, <1>4, <1>5, <1>close, <1>drain, <2>1, PTL
      DEF SenddSpec, RunGoesOn
  <1>listen. SenddSpec /\ RunGoesOn =>
                 (At("listen") /\ ctxDone ~> main = "exited")
    <2>1. At("listen") /\ <<RunStep>>_senddVars => ~At("listen")'
      BY <1>3
    <2> QED
      BY <1>2, <1>4, <1>5, <1>close, <1>serve, <2>1, PTL
      DEF SenddSpec, RunGoesOn
  <1>open. SenddSpec /\ RunGoesOn =>
               (At("open") /\ ctxDone ~> main = "exited")
    <2>1. At("open") /\ <<RunStep>>_senddVars => ~At("open")'
      BY <1>3
    <2> QED
      BY <1>2, <1>4, <1>5, <1>close, <1>listen, <1>return, <2>1, PTL
      DEF SenddSpec, RunGoesOn
  <1> QED
    BY <1>1, <1>return, <1>close_db, <1>checkpoint, <1>close, <1>drain,
       <1>serve, <1>listen, <1>open, SenddInvariance, PTL
    DEF SenddSpec, ShutdownEnds
=============================================================================
