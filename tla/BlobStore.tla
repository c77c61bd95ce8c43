------------------------------ MODULE BlobStore ------------------------------
(***************************************************************************)
(* The filesystem blob store (internal/store/fsblob.go), one operator per  *)
(* system call that matters.  A part of send s is the file <s>/<part>; an  *)
(* upload in progress is a file <s>/.tmp-* owned by its request.           *)
(***************************************************************************)
EXTENDS SendTypes

VARIABLES
    blobs,   \* what is stored under each key
    dirs,    \* the send directories that exist
    temps    \* temp files, as <<send directory, owner>>

blobVars == <<blobs, dirs, temps>>

(* The bytes of a blob, compared with the size and sha256 of the create. *)
Bodies == {"match", "other"}
Contents == Bodies \cup {"none"}

BlobTypeOK ==
    /\ blobs \in [Keys -> Contents]
    /\ dirs \subseteq Sends
    /\ temps \subseteq Sends \X (Requests \cup {Nobody})

BlobInit ==
    /\ blobs = [k \in Keys |-> "none"]
    /\ dirs = {}
    /\ temps = {}

-----------------------------------------------------------------------------
Present(k) == blobs[k] # "none"

Mkdir(s) ==
    /\ dirs' = dirs \cup {s}
    /\ UNCHANGED <<blobs, temps>>

CreateTemp(s, r) ==
    /\ s \in dirs
    /\ temps' = temps \cup {<<s, r>>}
    /\ UNCHANGED <<blobs, dirs>>

(* The deferred removal of a temp file that was not published; the mutant  *)
(* leaves it to the collector.                                             *)
TempsAfter_Kept(r) == temps
TempsAfter(r) == {x \in temps : x[2] # r}

RemoveTemp(r) ==
    /\ temps' = TempsAfter(r)
    /\ UNCHANGED <<blobs, dirs>>

(* The process died: its temp files stay, and nobody will remove them. *)
AbandonTemps ==
    /\ temps' = {<<x[1], Nobody>> : x \in temps}
    /\ UNCHANGED <<blobs, dirs>>

(* A stream is accepted only if its size and hash are the declared ones. *)
Verified(body) == body = "match"

(* os.Rename of the temp file onto the final name. *)
Publish(k, r, body) ==
    /\ blobs' = [blobs EXCEPT ![k] = body]
    /\ temps' = TempsAfter(r)
    /\ UNCHANGED dirs

(* Delete removes the file, absent or not, then the directory if empty. *)
Emptied(k) ==
    /\ \A j \in KeysOf(SendOf(k)) : j = k \/ ~Present(j)
    /\ \A x \in temps : x[1] # SendOf(k)

DeleteBlob(k) ==
    /\ blobs' = [blobs EXCEPT ![k] = "none"]
    /\ dirs' = IF Emptied(k) THEN dirs \ {SendOf(k)} ELSE dirs
    /\ UNCHANGED temps

(* What WalkDir reports of one directory: temp files are skipped. *)
Listed(s) == {k \in KeysOf(s) : Present(k)}
=============================================================================
