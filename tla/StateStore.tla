----------------------------- MODULE StateStore -----------------------------
(***************************************************************************)
(* The SQLite state store (internal/store/sqlite.go), one operator per SQL *)
(* statement.  The pool holds a single connection, so a statement, or a    *)
(* transaction, is atomic and everything between two of them is not.       *)
(*                                                                         *)
(* Table sends is kept column by column.  The row of s exists when its     *)
(* status is "creating" or "finalized"; an "absent" one was never inserted *)
(* and a "gone" one was deleted.  The other columns of a gone row are      *)
(* history for the properties to speak about: no statement matches them.   *)
(***************************************************************************)
EXTENDS SendTypes

VARIABLES
    now,        \* the clock behind s.now(), in whole units
    status,     \* table sends, one function per column
    oneTime,
    created,
    expires,
    consumed,
    declared,   \* table send_parts: the parts declared for a send
    uploaded,   \* ... and those whose uploaded_at is not NULL
    grants,     \* table redeem_grants
    issued      \* history: every row ever inserted into redeem_grants

terms == <<oneTime, created, expires>>    \* columns set once, by the INSERT
stateVars == <<status, terms, consumed, declared, uploaded, grants, issued>>

Statuses == {"absent", "creating", "finalized", "gone"}

Grant == [send : Sends, token : Tokens, expires : Time]

StateTypeOK ==
    /\ now \in Time
    /\ status \in [Sends -> Statuses]
    /\ oneTime \in [Sends -> BOOLEAN]
    /\ created \in [Sends -> Time]
    /\ expires \in [Sends -> Time]
    /\ consumed \in [Sends -> Time \cup {Null}]
    /\ declared \in [Sends -> SUBSET Parts]
    /\ uploaded \in [Sends -> SUBSET Parts]
    /\ grants \subseteq Grant
    /\ issued \subseteq Grant

StateInit ==
    /\ now = 0
    /\ status = [s \in Sends |-> "absent"]
    /\ oneTime = [s \in Sends |-> FALSE]
    /\ created = [s \in Sends |-> 0]
    /\ expires = [s \in Sends |-> 0]
    /\ consumed = [s \in Sends |-> Null]
    /\ declared = [s \in Sends |-> {}]
    /\ uploaded = [s \in Sends |-> {}]
    /\ grants = {}
    /\ issued = {}

-----------------------------------------------------------------------------
(* Reads *)

Stored(s) == status[s] \in {"creating", "finalized"}

Missing(s) == declared[s] \ uploaded[s]

(* RedeemSend's SELECT and the checks on the row it returns; the mutant    *)
(* redeems a send that was never finalized.                                *)
Redeemable_AnyStatus(s, t) == Stored(s) /\ expires[s] > t
Redeemable(s, t) == status[s] = "finalized" /\ expires[s] > t

(* The WHERE clause of the conditional UPDATE that consumes a link; its    *)
(* mutants forget consumed_at IS NULL, or ask the database for the time.   *)
Consumable_Again(s, t) == oneTime[s] /\ Redeemable(s, t)
Consumable_Reread(s, t) ==
    oneTime[s] /\ consumed[s] = Null /\ Redeemable(s, now)
Consumable(s, t) == oneTime[s] /\ consumed[s] = Null /\ Redeemable(s, t)

(* The grant lookup; its mutant forgets the expiry. *)
Validates_NoExpiry(s, tok, t) ==
    \E g \in grants : g.token = tok /\ g.send = s
Validates(s, tok, t) ==
    \E g \in grants : g.token = tok /\ g.send = s /\ g.expires > t

(* Consumed, and past the grant window; the mutant forgets the window.     *)
Spent_AtOnce(s, t) ==
    oneTime[s] /\ consumed[s] # Null /\ consumed[s] <= t
Spent(s, t) ==
    oneTime[s] /\ consumed[s] # Null /\ consumed[s] <= t - GrantTTL

(* Unfinished at CreatingMaxAge; the mutant does not ask for the status.   *)
Stale_AnyStatus(s, t) == Stored(s) /\ created[s] <= t - CreatingMaxAge
Stale(s, t) ==
    status[s] = "creating" /\ created[s] <= t - CreatingMaxAge

(* The WHERE clause of DeleteExpired's SELECT. *)
Reapable(s, t) ==
    Stored(s) /\ (expires[s] <= t \/ Spent(s, t) \/ Stale(s, t))

(* storageKeysFor *)
KeysFor(S) == {k \in Keys : SendOf(k) \in S /\ PartOf(k) \in declared[SendOf(k)]}

(* The keys OrphanSweep spares; the mutant takes those of uploaded parts.  *)
LiveStorageKeys_Uploaded ==
    {k \in Keys : PartOf(k) \in uploaded[SendOf(k)]}
LiveStorageKeys == KeysFor(Sends)

-----------------------------------------------------------------------------
(* Writes.  Each is guarded by "the statement affects a row", except where *)
(* the code does not look: MarkUploaded succeeds on a row that is gone.    *)

InsertSend(s, parts, once, ttl, t) ==
    /\ status[s] = "absent"
    /\ status' = [status EXCEPT ![s] = "creating"]
    /\ oneTime' = [oneTime EXCEPT ![s] = once]
    /\ created' = [created EXCEPT ![s] = t]
    /\ expires' = [expires EXCEPT ![s] = t + ttl]
    /\ declared' = [declared EXCEPT ![s] = parts]
    /\ UNCHANGED <<consumed, uploaded, grants, issued>>

(* The mutant's WHERE clause forgets the part. *)
MarkUploaded_All(s, p) ==
    /\ uploaded' = [uploaded EXCEPT ![s] = declared[s]]
    /\ UNCHANGED <<status, terms, consumed, declared, grants, issued>>
MarkUploaded(s, p) ==
    /\ uploaded' = [uploaded EXCEPT ![s] = @ \cup ({p} \cap declared[s])]
    /\ UNCHANGED <<status, terms, consumed, declared, grants, issued>>

SetFinalized(s) ==
    /\ status[s] = "creating"
    /\ status' = [status EXCEPT ![s] = "finalized"]
    /\ UNCHANGED <<terms, consumed, declared, uploaded, grants, issued>>

Consume(s, t) ==
    /\ Consumable(s, t)
    /\ consumed' = [consumed EXCEPT ![s] = t]
    /\ UNCHANGED <<status, terms, declared, uploaded, grants, issued>>

(* The foreign key of redeem_grants.send_id refuses a grant on a gone      *)
(* send; the mutant subtracts the grant's lifetime.                        *)
InsertGrant_Before(s, tok, t) ==
    LET g == [send |-> s, token |-> tok, expires |-> t - GrantTTL]
    IN  /\ Stored(s)
        /\ grants' = grants \cup {g}
        /\ issued' = issued \cup {g}
        /\ UNCHANGED <<status, terms, consumed, declared, uploaded>>
InsertGrant(s, tok, t) ==
    LET g == [send |-> s, token |-> tok, expires |-> t + GrantTTL]
    IN  /\ Stored(s)
        /\ grants' = grants \cup {g}
        /\ issued' = issued \cup {g}
        /\ UNCHANGED <<status, terms, consumed, declared, uploaded>>

(* DELETE FROM sends WHERE id IN S, with its ON DELETE CASCADEs.  Nothing  *)
(* else deletes a row, so the sends of S are stored when it runs.  The     *)
(* mutant has foreign keys off.                                            *)
DeleteSends_NoCascade(S) ==
    /\ status' = [s \in Sends |-> IF s \in S THEN "gone" ELSE status[s]]
    /\ UNCHANGED <<terms, consumed, declared, uploaded, grants, issued>>
DeleteSends(S) ==
    /\ status' = [s \in Sends |-> IF s \in S THEN "gone" ELSE status[s]]
    /\ declared' = [s \in Sends |-> IF s \in S THEN {} ELSE declared[s]]
    /\ uploaded' = [s \in Sends |-> IF s \in S THEN {} ELSE uploaded[s]]
    /\ grants' = {g \in grants : g.send \notin S}
    /\ UNCHANGED <<terms, consumed, issued>>
=============================================================================
