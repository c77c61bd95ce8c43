--------------------------- MODULE SendProperties ---------------------------
(***************************************************************************)
(* What the send store must, must never and must eventually do.            *)
(***************************************************************************)
EXTENDS Coordinator

(* Tokens ever issued for a send. *)
HoldersOf(s) == {g.token : g \in {h \in issued : h.send = s}}

(* A one-time link opens once: however many redeem requests race over it,  *)
(* and whatever crashes or is reaped in between, at most one token is ever *)
(* issued for it (RedeemSend's conditional UPDATE).                        *)
OneRedemption ==
    \A g, h \in issued :
        (g.send = h.send /\ oneTime[g.send]) => g.token = h.token

(* A finalized send is complete: finalize counts the missing parts in one  *)
(* statement and flips the status in another, and no upload, abort, crash  *)
(* or collector step in between may leave a declared part unrecorded.      *)
FinalizedComplete ==
    \A s \in Sends : status[s] = "finalized" => Missing(s) = {}

(* A part recorded as uploaded has its verified bytes in the blob store,   *)
(* whatever the collector does meanwhile - unless the send was inserted    *)
(* between the two reads of an orphan sweep, which UploadedHasBlob is      *)
(* about.                                                                  *)
UploadSurvives ==
    \A s \in Sends \ bornInSweep :
        \A p \in uploaded[s] : blobs[StorageKey(s, p)] = "match"

(* A download whose grant was accepted finds the verified bytes of its     *)
(* part, unless the send has been reaped since (or was born in a sweep).   *)
GrantedPartReadable ==
    \A r \in Requests :
        ( /\ pc[r] = "get_open"
          /\ Stored(Send(r))
          /\ Send(r) \notin bornInSweep ) => blobs[Key(r)] = "match"

(* Bytes of a one-time send go only to the session that redeemed it: a     *)
(* download past its grant check carries a token issued for that very send *)
(* and was checked within GrantTTL of the moment the link was consumed.    *)
OneReader ==
    \A r \in Requests :
        (pc[r] \in {"get_declared", "get_open"} /\ oneTime[Send(r)]) =>
            /\ req[r].token \in HoldersOf(Send(r))
            /\ consumed[Send(r)] # Null
            /\ consumed[Send(r)] <= req[r].time
            /\ req[r].time < consumed[Send(r)] + GrantTTL

(* A redeem that loses is told SEND_ALREADY_REDEEMED rightly: when its     *)
(* UPDATE matches no row the link was consumed by another, however late    *)
(* the statement runs after the clock was read - or the send was reaped,   *)
(* which the comment at sqlite.go:267 does not think of.                   *)
RefusedLinkWasSpent ==
    \A r \in Requests :
        (pc[r] = "red_consume" /\ ~Consumable(Send(r), req[r].time)) =>
            consumed[Send(r)] # Null \/ status[Send(r)] = "gone"

(* A temp file belongs to an upload under way to that very send, or to a   *)
(* process that died: an upload that fails, is refused or is given up at   *)
(* any step leaves none behind (Put's deferred removal).                   *)
TempsOwned ==
    \A x \in temps :
        x[2] # Nobody =>
            pc[x[2]] \in {"put_copy", "put_publish"} /\ Send(x[2]) = x[1]

Reaped(s) == Stored(s) /\ status'[s] = "gone"

GrantsOver(s) ==
    consumed[s] # Null /\ \A g \in issued : g.send = s => g.expires <= now
Aged(s) == created[s] <= now - CreatingMaxAge

SelectsDead(s) ==
    s \in gcIds' \ gcIds =>
        \/ expires[s] <= now
        \/ GrantsOver(s)
        \/ status[s] = "creating" /\ Aged(s)
DeletesDead(s) ==
    Reaped(s) =>
        /\ s \in gcIds
        /\ expires[s] <= now \/ GrantsOver(s) \/ Aged(s)

(* The collector takes a send only when nobody may need it any more.  What *)
(* it selects has expired, or was consumed and every grant issued for it   *)
(* is over, or is unfinished at CreatingMaxAge; it deletes nothing it has  *)
(* not selected, and whatever finalizes and redeems do to the send in      *)
(* between, no grant that runs on a send of lesser age is cut short, one   *)
(* given on an earlier clock included (DeleteExpired, RedeemSend).         *)
ReapOnlyDead == [][\A s \in Sends : SelectsDead(s) /\ DeletesDead(s)]_vars

(* A blob whose send is gone is eventually deleted, though its purge may   *)
(* fail, its upload may be published after the send was deleted, and the   *)
(* process may die (OrphanSweep as the backstop).                          *)
OrphanCollected ==
    \A k \in Keys :
        (Present(k) /\ status[SendOf(k)] = "gone") ~> ~Present(k)

(* A send that is due for deletion does not stay due: the next sweeps reap *)
(* it, in spite of crashes and failed sweeps.                              *)
DueIsReaped ==
    \A s \in Sends : Reapable(s, now) ~> ~Reapable(s, now)

(* The collector gets to the end of a sweep again and again, and its       *)
(* deletions of blobs do not fail for ever: what Run's loop, which logs a  *)
(* failed sweep and waits for the next tick, makes of fair scheduling.     *)
GcDeleteFails == \E k \in Keys : GcSkips(k)
SweepsGoOn ==
    /\ []<><<GcDone>>_vars
    /\ <>[][~GcDeleteFails]_vars

(* The handlers, the two stores and the collector together keep the        *)
(* promises of SendContract; what the collector has selected is condemned. *)
Contract == INSTANCE SendContract WITH
    missing <- [s \in Sends |-> Missing(s)],
    condemned <- gcIds
ImplementsContract == Contract!CSpec

-----------------------------------------------------------------------------
(* Statements of the repository that the code does not keep.               *)

(* sqlite.go:341: DeleteExpired removes expired sends, consumed one-time   *)
(* sends past their grant window, and unfinished sends older than          *)
(* creatingMaxAge - and, one reads, no other.                              *)
ReapAsDocumented ==
    [][\A s \in Sends : Reaped(s) => Reapable(s, now)]_vars

(* coordinator.go:35: publishing first avoids "a part row with missing     *)
(* bytes".                                                                 *)
UploadedHasBlob ==
    \A s \in Sends : \A p \in uploaded[s] : Present(StorageKey(s, p))

(* practical-one-time-redemption.adr.md:14: the first redeem atomically    *)
(* consumes the link and opens a grant; so a consumed link has one, once   *)
(* no redeem is under way.                                                 *)
ConsumedHasGrant ==
    \A s \in Sends :
        ( /\ Stored(s)
          /\ consumed[s] # Null
          /\ \A r \in Requests : pc[r] # "red_grant" ) => HoldersOf(s) # {}
=============================================================================
