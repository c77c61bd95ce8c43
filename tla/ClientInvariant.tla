--------------------------- MODULE ClientInvariant ---------------------------
(***************************************************************************)
(* The inductive invariant behind the safety properties of SendClient:     *)
(* what the tables say of the grants issued, where each process may be,    *)
(* and which host knows which token.                                       *)
(***************************************************************************)
EXTENDS SendClient

(* Once finalized, a send is given up only for what LinkIsComplete allows, *)
(* and then every grant on it is over.                                     *)
Kept(s) ==
    \/ status[s] = "finalized"
    \/ /\ status[s] = "gone"
       /\ \/ expires[s] <= now
          \/ /\ consumed[s] # Null
             /\ \A g \in issued : g.send = s => g.expires <= now

(* Tables: a grant lives as long as its send, and a one-time send has one. *)
TablesInv ==
    /\ \A s \in Sends :
        /\ uploaded[s] \subseteq declared[s]
        /\ ~Stored(s) => declared[s] = {}
        /\ status[s] = "finalized" => Missing(s) = {}
        /\ status[s] # "absent" => (oneTime[s] <=> wish.once)
    /\ \A g \in issued :
        /\ status[g.send] \in {"finalized", "gone"}
        /\ g \in grants \/ status[g.send] = "gone"
        /\ oneTime[g.send] =>
            /\ consumed[g.send] # Null
            /\ g.expires = consumed[g.send] + GrantTTL
            /\ \A h \in issued : h.send = g.send => h = g

(* Processes: what each call was made about, and what its answer means.    *)
Loading(l) == step[l] \in {"redeem", "get"}

CallsInv ==
    /\ step[Saver] \in Gated \cup Ends
    /\ step[Saver] \in {"upload", "finalize"} => draft \in Sends
    /\ step[Saver] = "finalize" /\ Status(Saver) = 200 => Kept(draft)
    /\ link # None => step[Saver] = "done" /\ Kept(link)
    /\ \A l \in Loaders :
        /\ step[l] \in {"redeem", "get"} \cup Ends
        /\ started[l] <= now
        /\ Loading(l) => link # None /\ host[l] \in Hosts
    /\ \A q \in late : q.kind # "create" => q.send \in Sends

(* Tokens: one that a host caches, or a loader has just been answered, was *)
(* issued for the link, lasts GrantTTL from when the client asked for it,  *)
(* and is nowhere else.                                                    *)
Answering(l) == step[l] = "redeem" /\ Status(l) = 200
GrantedUntil(tok, t) ==
    \E g \in issued : g.token = tok /\ g.send = link /\ t <= g.expires

TokensInv ==
    /\ \A l \in Loaders :
        /\ Answering(l) => GrantedUntil(inbox[l].token, started[l] + GrantTTL)
        /\ Answering(l) => \A h \in Hosts : cache[h].token # inbox[l].token
        /\ \A m \in Loaders \ {l} :
            Answering(l) /\ Answering(m) => inbox[l].token # inbox[m].token
        /\ step[l] = "get" => cache[host[l]].token # None
    /\ \A h \in Hosts :
        cache[h].token # None =>
            /\ GrantedUntil(cache[h].token, Begun(h) + GrantTTL)
            /\ \A k \in Hosts : cache[k].token = cache[h].token => k = h
    /\ \A h \in read : cache[h].token # None

ClientInv ==
    /\ ClientTypeOK
    /\ TablesInv
    /\ CallsInv
    /\ TokensInv
=============================================================================
