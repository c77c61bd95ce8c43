---------------------------- MODULE SendInvariant ----------------------------
(***************************************************************************)
(* The inductive invariant behind the safety properties: what each part of *)
(* the state, and each local variable a handler or the collector carries   *)
(* from one statement to the next, says about the rest.                    *)
(***************************************************************************)
EXTENDS SendProperties

PutBlob == {"put_mkdir", "put_temp", "put_copy", "put_publish", "put_mark"}
PutAny == PutBlob \cup {"put_declared"}
FinAny == {"fin_count", "fin_update"}
RedAny == {"red_load", "red_consume", "red_grant"}
GetAny == {"get_declared", "get_open"}
OnSend == PutAny \cup FinAny \cup RedAny \cup GetAny
Past(s) == status[s] \in {"finalized", "gone"}

(* Tables: parts belong to stored sends, live grants to finalized ones.    *)
RowsInv ==
    /\ \A s \in Sends :
        /\ uploaded[s] \subseteq declared[s]
        /\ ~Stored(s) => declared[s] = {}
        /\ status[s] = "absent" => consumed[s] = Null
        /\ consumed[s] <= now
    /\ grants \subseteq issued
    /\ \A g \in grants : status[g.send] = "finalized"
    /\ \A g \in issued : Past(g.send)

(* Requests: what a handler has already checked is still true of its send, *)
(* or the send is gone.                                                    *)
RequestsInv ==
    \A r \in Requests :
        /\ req[r].time <= now
        /\ pc[r] \in OnSend =>
            /\ Send(r) \in Sends
            /\ status[Send(r)] # "absent"
        /\ pc[r] \in PutAny \cup GetAny => req[r].part \in Parts
        /\ pc[r] \in PutBlob \cup {"get_open"} =>
            (Stored(Send(r)) => req[r].part \in declared[Send(r)])
        /\ pc[r] = "fin_update" => Missing(Send(r)) = {}
        /\ pc[r] \in {"red_consume", "red_grant"} \cup GetAny => Past(Send(r))

(* One-time links: consuming the link is what entitles a request to insert *)
(* the grant, and only one request is ever entitled.                       *)
Entitled(r, s) == pc[r] = "red_grant" /\ Send(r) = s

OneTimeInv ==
    \A s \in Sends : oneTime[s] =>
        /\ \A g \in issued : g.send = s =>
            /\ consumed[s] # Null
            /\ g.expires = consumed[s] + GrantTTL
        /\ \A r \in Requests : Entitled(r, s) =>
            /\ consumed[s] = req[r].time
            /\ \A g \in issued : g.send # s
            /\ \A q \in Requests : Entitled(q, s) => q = r

(* Redeems: a request past RedeemSend's first SELECT found the send live   *)
(* at the time it read, and consumes only the links of one-time sends.     *)
InTime(r) ==
    /\ pc[r] \in {"red_consume", "red_grant"} =>
        req[r].time < expires[Send(r)]
    /\ pc[r] = "red_consume" => oneTime[Send(r)]

(* Blobs: a recorded part has its bytes, and so has one about to be.       *)
BlobsInv ==
    /\ \A k \in Keys : blobs[k] # "other"
    /\ \A r \in Requests :
        /\ pc[r] = "put_publish" => req[r].body = "match"
        /\ (pc[r] = "put_mark" /\ Stored(Send(r)) /\ Send(r) \notin bornInSweep)
            => blobs[Key(r)] = "match"

(* Directories: an upload's temp file is there until it is published, and  *)
(* a directory with a file in it is not removed, so that a walk finds it.  *)
DirsInv ==
    /\ \A x \in temps : x[1] \in dirs
    /\ \A k \in Keys : Present(k) => SendOf(k) \in dirs
    /\ \A r \in Requests :
        pc[r] \in {"put_copy", "put_publish"} => <<Send(r), r>> \in temps

(* The collector: why a send was selected stays true of it, and the keys   *)
(* it is about to delete belong to sends selected, gone, or not live.      *)
Doomed(s) ==
    \/ expires[s] <= now
    \/ created[s] <= now - CreatingMaxAge
    \/ Spent(s, now)

GcInv ==
    /\ gcPc \in {"select", "keys"} => gcTodo = {}
    /\ gcPc \in {"select", "purge", "list", "walk"} => gcIds = {}
    /\ gcPc = "list" => gcTodo = {}
    /\ \A s \in gcIds : status[s] # "absent" /\ Doomed(s)
    /\ gcPc = "delete" => \A k \in gcTodo : SendOf(k) \in gcIds
    /\ gcPc = "purge" => \A k \in gcTodo : status[SendOf(k)] = "gone"
    /\ gcPc \in {"list", "walk"} =>
        /\ gcTodo \cap gcLive = {}
        /\ \A s \in Sends \ bornInSweep : KeysFor({s}) \subseteq gcLive

IInv ==
    /\ TypeOK
    /\ RowsInv
    /\ RequestsInv
    /\ OneTimeInv
    /\ \A r \in Requests : InTime(r)
    /\ BlobsInv
    /\ DirsInv
    /\ GcInv
    /\ OneRedemption
    /\ FinalizedComplete
    /\ UploadSurvives
    /\ OneReader
=============================================================================
