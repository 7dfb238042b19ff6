------------------------------- MODULE Uploads -------------------------------
(***************************************************************************)
(* Files and their objects: src/services/storage.rs over the table files   *)
(* and a storage backend, and the reaper of src/main.rs.  A row and its    *)
(* object live in different systems, so every operation is a sequence of   *)
(* steps on one or the other that requests and the reaper interleave.      *)
(*                                                                         *)
(* Contents are abstracted to their length; MaxBytes + 1 stands for every  *)
(* length over max_upload_bytes.  age[f] is the age of the reservation:    *)
(* fresh while its signed URL is valid, expired after that, stale after    *)
(* twice the URL's lifetime.                                               *)
(***************************************************************************)
EXTENDS Integers, FiniteSets

CONSTANTS
    FileIds,        \* the ids Uuid::now_v7 may hand out
    Requests,       \* requests that may be under way at the same time
    None,           \* no object, no file
    MaxBytes,       \* max_upload_bytes
    Backends,       \* the storage backends the configuration may choose
    MaxArriving,    \* bound: PUTs to the backend under way at the same time
    MaxFaults       \* bound: crashes and failed statements

ASSUME UploadNoneAssumption == None \notin FileIds /\ None \notin Nat
ASSUME UploadBoundsAssumption ==
    MaxBytes \in Nat \ {0} /\ MaxArriving \in Nat /\ MaxFaults \in Nat
ASSUME BackendsAssumption == Backends \subseteq {"local", "s3"}

VARIABLES
    backend,   \* the storage backend, chosen at startup
    row,       \* [FileIds -> row of files: status, deleted_at set, size_bytes]
    object,    \* [FileIds -> length of the stored object or None]
    age,       \* [FileIds -> {"fresh", "expired", "stale"}]
    granted,   \* the files with a signed upload URL
    arriving,  \* PUTs of a length to a file that the backend has let in
    pc,        \* [Requests -> the step a request takes next]
    file,      \* [Requests -> the file it works on]
    len,       \* [Requests -> the length it writes or has read]
    todo,      \* the stale uploads the reaper selected
    reaping,   \* the upload whose object the reaper has just removed
    faults,    \* crashes and failed statements so far
    unheard,   \* history: the files whose INSERT took effect and was answered by an error
    cleared    \* history: the files whose object the reaper has removed

store == <<row, object>>
urls == <<age, granted, arriving>>
requestVars == <<pc, file, len>>
reaperVars == <<todo, reaping>>
history == <<unheard, cleared>>
vars == <<backend, store, urls, requestVars, reaperVars, faults, history>>

Lengths == 0..(MaxBytes + 1)

NoRow == [status |-> "none", deleted |-> FALSE, size |-> 0]

TypeOK ==
    /\ backend \in Backends
    /\ row \in [FileIds -> [status : {"none", "pending", "ready"}, deleted : BOOLEAN,
                            size : Lengths]]
    /\ object \in [FileIds -> Lengths \cup {None}]
    /\ age \in [FileIds -> {"fresh", "expired", "stale"}]
    /\ granted \in SUBSET FileIds
    /\ arriving \in SUBSET (FileIds \X Lengths)
    /\ pc \in [Requests -> {"idle", "truncate", "write", "head", "flip", "drop",
                            "tombstone", "insert", "undo", "dropObject"}]
    /\ file \in [Requests -> FileIds \cup {None}]
    /\ len \in [Requests -> Lengths]
    /\ todo \in SUBSET FileIds
    /\ reaping \in FileIds \cup {None}
    /\ faults \in 0..MaxFaults
    /\ unheard \in SUBSET FileIds /\ cleared \in SUBSET FileIds

Init ==
    /\ backend \in Backends
    /\ row = [f \in FileIds |-> NoRow]
    /\ object = [f \in FileIds |-> None]
    /\ age = [f \in FileIds |-> "fresh"]
    /\ granted = {} /\ arriving = {}
    /\ pc = [r \in Requests |-> "idle"]
    /\ file = [r \in Requests |-> None]
    /\ len = [r \in Requests |-> 0]
    /\ todo = {}
    /\ reaping = None
    /\ faults = 0
    /\ unheard = {} /\ cleared = {}

-----------------------------------------------------------------------------
Begin(r, label, f, n) ==
    /\ pc[r] = "idle"
    /\ pc' = [pc EXCEPT ![r] = label]
    /\ file' = [file EXCEPT ![r] = f]
    /\ len' = [len EXCEPT ![r] = n]

Goto(r, label) == pc' = [pc EXCEPT ![r] = label] /\ UNCHANGED <<file, len>>

Finish(r) ==
    /\ pc' = [pc EXCEPT ![r] = "idle"]
    /\ file' = [file EXCEPT ![r] = None]
    /\ len' = [len EXCEPT ![r] = 0]

\* presign_put of the S3 backend; local disk has none and the API signs the URL.
NativePresign == backend = "s3"

Fault == faults < MaxFaults /\ faults' = faults + 1

Put(f, n) == object' = [object EXCEPT ![f] = n]

\* storage.delete, best effort: a failure is logged or ignored.
DeleteObject(f) ==
    \/ Put(f, None) /\ UNCHANGED faults
    \/ Fault /\ UNCHANGED object

Tombstone(f) == row' = [row EXCEPT ![f].deleted = TRUE]

Pending(f) == row[f].status = "pending" /\ ~row[f].deleted
Readable(f) == row[f].status = "ready" /\ ~row[f].deleted

\* An id no request has used: Uuid::now_v7 is unique.
Unused(f) ==
    /\ row[f].status = "none" /\ object[f] = None
    /\ \A r \in Requests : file[r] # f

-----------------------------------------------------------------------------
\* save_upload_field, once the temporary file is complete and its type allowed:
\* the object goes to the backend before its row exists.
SavePut(r, f, n) ==
    /\ Unused(f)
    /\ Begin(r, "insert", f, n)
    /\ Put(f, n)
    /\ UNCHANGED <<row, urls, reaperVars, faults, history>>

Insert(r) ==
    row' = [row EXCEPT ![file[r]] = [status |-> "ready", deleted |-> FALSE, size |-> len[r]]]

SaveInsert(r) ==
    /\ pc[r] = "insert"
    /\ Insert(r)
    /\ Finish(r)
    /\ UNCHANGED <<object, urls, reaperVars, faults, history>>

\* normalize_visibility refuses the form's visibility: an early return.
SaveBadVisibility(r) ==
    /\ pc[r] = "insert"
    /\ Finish(r)
    /\ UNCHANGED <<store, urls, reaperVars, faults, history>>

\* The INSERT returns an error, without effect or with the connection lost after
\* it took effect: the object is removed again.
SaveInsertFails(r) ==
    /\ pc[r] = "insert"
    /\ Fault
    /\ \/ UNCHANGED <<row, unheard>>
       \/ Insert(r) /\ unheard' = unheard \cup {file[r]}
    /\ Goto(r, "undo")
    /\ UNCHANGED <<object, urls, reaperVars, cleared>>

SaveUndo(r) ==
    /\ pc[r] = "undo"
    /\ DeleteObject(file[r])
    /\ Finish(r)
    /\ UNCHANGED <<row, urls, reaperVars, history>>

-----------------------------------------------------------------------------
\* generate_presigned_upload: the pending row first, then the signed URL.  An
\* error of presign_put, or a lost answer of the INSERT, leaves the row without
\* a client that could use it.
Reserve(f) ==
    /\ Unused(f)
    /\ row' = [row EXCEPT ![f].status = "pending"]
    /\ \/ granted' = granted \cup {f} /\ UNCHANGED faults
       \/ Fault /\ UNCHANGED granted
    /\ UNCHANGED <<object, age, arriving, requestVars, reaperVars, history>>

\* A PUT to a URL the backend signed: nothing but its expiry restricts it, and
\* that is tested when the PUT begins ...
NativePutStart(f, n) ==
    /\ NativePresign
    /\ f \in granted /\ age[f] = "fresh"
    /\ Cardinality(arriving) < MaxArriving
    /\ arriving' = arriving \cup {<<f, n>>}
    /\ UNCHANGED <<store, age, granted, requestVars, reaperVars, faults, history>>

\* ... while its object appears when all bytes are there, however late.
NativePutLands(f, n) ==
    /\ NativePresign
    /\ <<f, n>> \in arriving
    /\ Put(f, n)
    /\ arriving' = arriving \ {<<f, n>>}
    /\ UNCHANGED <<row, age, granted, requestVars, reaperVars, faults, history>>

\* accept_signed_upload: signature, length and the pending row are checked ...
SignedPutCheck(r, f, n) ==
    /\ ~NativePresign
    /\ f \in granted /\ age[f] = "fresh"
    /\ n <= MaxBytes
    /\ Pending(f)
    /\ Begin(r, "truncate", f, n)
    /\ UNCHANGED <<store, urls, reaperVars, faults, history>>

\* ... and put_bytes writes the file, which fs::write first truncates.
SignedPutTruncate(r) ==
    /\ pc[r] = "truncate"
    /\ Put(file[r], 0)
    /\ Goto(r, "write")
    /\ UNCHANGED <<row, urls, reaperVars, faults, history>>

SignedPutWrite(r) ==
    /\ pc[r] = "write"
    /\ Put(file[r], len[r])
    /\ Finish(r)
    /\ UNCHANGED <<row, urls, reaperVars, faults, history>>

\* complete_upload, the SELECT; a ready file is returned as it is.
CompleteRead(r, f) ==
    /\ Pending(f)
    /\ Begin(r, "head", f, 0)
    /\ UNCHANGED <<store, urls, reaperVars, faults, history>>

\* Mutant of HeadVerdict: an object that is not there is not an error.
HeadVerdictMissingIsFine(n) == IF n = None \/ n \in 1..MaxBytes THEN "flip" ELSE "idle"

\* What complete_upload does after storage.head: no or an empty object is an
\* error, one over the limit is removed.
HeadVerdict(n) ==
    IF n = None \/ n = 0 THEN "idle" ELSE IF n > MaxBytes THEN "drop" ELSE "flip"

CompleteHead(r) ==
    /\ pc[r] = "head"
    /\ LET n == object[file[r]] IN
        CASE HeadVerdict(n) = "idle" -> Finish(r)
          [] HeadVerdict(n) = "drop" -> Goto(r, "drop")
          [] HeadVerdict(n) = "flip" ->
                /\ pc' = [pc EXCEPT ![r] = "flip"]
                /\ len' = [len EXCEPT ![r] = n]
                /\ UNCHANGED file
    /\ UNCHANGED <<store, urls, reaperVars, faults, history>>

\* Mutant of Flips: the UPDATE does not ask for status = 'pending'.
FlipsAlways(f) == TRUE

\* The WHERE clause of the UPDATE; deleted_at is not looked at.
Flips(f) == row[f].status = "pending"

\* The row it leaves: deleted_at stays what it was.
Completed(f, n) == [status |-> "ready", deleted |-> row[f].deleted, size |-> n]

\* complete_upload, the UPDATE; if it finds no row the old record is returned.
CompleteFlip(r) ==
    /\ pc[r] = "flip"
    /\ row' = IF Flips(file[r])
              THEN [row EXCEPT ![file[r]] = Completed(file[r], len[r])]
              ELSE row
    /\ Finish(r)
    /\ UNCHANGED <<object, urls, reaperVars, faults, history>>

\* complete_upload over the limit: the object, then the row.
CompleteDrop(r) ==
    /\ pc[r] = "drop"
    /\ DeleteObject(file[r])
    /\ Goto(r, "tombstone")
    /\ UNCHANGED <<row, urls, reaperVars, history>>

CompleteTombstone(r) ==
    /\ pc[r] = "tombstone"
    /\ Tombstone(file[r])
    /\ Finish(r)
    /\ UNCHANGED <<object, urls, reaperVars, faults, history>>

\* delete_file of a ready file: the row, then the object.
DeleteRow(r, f) ==
    /\ Readable(f)
    /\ Begin(r, "dropObject", f, 0)
    /\ Tombstone(f)
    /\ UNCHANGED <<object, urls, reaperVars, faults, history>>

DeleteStored(r) ==
    /\ pc[r] = "dropObject"
    /\ DeleteObject(file[r])
    /\ Finish(r)
    /\ UNCHANGED <<row, urls, reaperVars, history>>

-----------------------------------------------------------------------------
\* Mutant of Abandoned: the grace period is the URL's lifetime.
AbandonedAtExpiry(f) == Pending(f) /\ age[f] # "fresh"

\* Mutant of Abandoned: only uploads that left an object are looked at.
AbandonedWithObject(f) == Pending(f) /\ age[f] = "stale" /\ object[f] # None

\* The WHERE clause of reap_abandoned_uploads.
Abandoned(f) == Pending(f) /\ age[f] = "stale"

ReaperIdle == todo = {} /\ reaping = None

ReapSelect ==
    /\ ReaperIdle
    /\ \E f \in FileIds : Abandoned(f)
    /\ todo' = {f \in FileIds : Abandoned(f)}
    /\ UNCHANGED <<store, urls, requestVars, reaping, faults, history>>

ReapObject(f) ==
    /\ f \in todo /\ reaping = None
    /\ DeleteObject(f)
    /\ cleared' = IF object'[f] = None THEN cleared \cup {f} ELSE cleared \ {f}
    /\ todo' = todo \ {f}
    /\ reaping' = f
    /\ UNCHANGED <<row, urls, requestVars, unheard>>

\* The UPDATE names the row by its id alone.
ReapRow ==
    /\ reaping # None
    /\ Tombstone(reaping)
    /\ reaping' = None
    /\ UNCHANGED <<object, urls, requestVars, todo, faults, history>>

\* The UPDATE fails: logged, and the loop goes on.
ReapRowFails ==
    /\ reaping # None
    /\ Fault
    /\ reaping' = None
    /\ UNCHANGED <<store, urls, requestVars, todo, history>>

\* The replica stops in the middle of a cleanup.
ReaperCrashes ==
    /\ ~ReaperIdle
    /\ Fault
    /\ todo' = {} /\ reaping' = None
    /\ UNCHANGED <<store, urls, requestVars, history>>

\* The timeout layer drops a request, or its replica stops.
RequestDies(r) ==
    /\ pc[r] # "idle"
    /\ Fault
    /\ Finish(r)
    /\ UNCHANGED <<store, urls, reaperVars, history>>

\* Time passes.  The request timeout is shorter than the URL's lifetime, so a
\* write that began under a valid URL is over before the upload is stale.
Writing(f) == \E r \in Requests : file[r] = f /\ pc[r] \in {"truncate", "write"}

GrowOlder(f) ==
    /\ f \in granted \/ Pending(f)
    /\ \/ age[f] = "fresh" /\ age' = [age EXCEPT ![f] = "expired"]
       \/ age[f] = "expired" /\ ~Writing(f) /\ age' = [age EXCEPT ![f] = "stale"]
    /\ UNCHANGED <<store, granted, arriving, requestVars, reaperVars, faults, history>>

-----------------------------------------------------------------------------
Proceed(r) ==
    \/ SaveInsert(r)
    \/ SaveBadVisibility(r)
    \/ SaveInsertFails(r)
    \/ SaveUndo(r)
    \/ SignedPutTruncate(r)
    \/ SignedPutWrite(r)
    \/ CompleteHead(r)
    \/ CompleteFlip(r)
    \/ CompleteDrop(r)
    \/ CompleteTombstone(r)
    \/ DeleteStored(r)

Arrive(r, f) ==
    \/ \E n \in 1..MaxBytes : SavePut(r, f, n)
    \/ \E n \in 0..MaxBytes : SignedPutCheck(r, f, n)
    \/ CompleteRead(r, f)
    \/ DeleteRow(r, f)

Reaper ==
    \/ ReapSelect
    \/ \E f \in FileIds : ReapObject(f)
    \/ ReapRow

Step ==
    \/ \E r \in Requests, f \in FileIds : Arrive(r, f)
    \/ \E r \in Requests : Proceed(r)
    \/ \E r \in Requests : RequestDies(r)
    \/ \E f \in FileIds : Reserve(f)
    \/ \E f \in FileIds, n \in Lengths : NativePutStart(f, n)
    \/ \E f \in FileIds, n \in Lengths : NativePutLands(f, n)
    \/ \E f \in FileIds : GrowOlder(f)
    \/ Reaper
    \/ ReapRowFails
    \/ ReaperCrashes

\* The backend stays what the configuration made it.
Next == Step /\ UNCHANGED backend

Spec == Init /\ [][Next]_vars

\* Requests under way proceed, time passes, and the hourly cleanup runs.
Fairness ==
    /\ \A r \in Requests : WF_vars(Proceed(r) /\ UNCHANGED backend)
    /\ \A f \in FileIds : WF_vars(GrowOlder(f) /\ UNCHANGED backend)
    /\ WF_vars(Reaper /\ UNCHANGED backend)

FairSpec == Spec /\ Fairness

-----------------------------------------------------------------------------
\* The file its users see: a tombstone hides the rest of the row.
Life(f) ==
    IF row[f].deleted
    THEN "gone"
    ELSE [none |-> "none", pending |-> "reserved", ready |-> "readable"][row[f].status]

Size(f) == IF Readable(f) THEN row[f].size ELSE 0

File == INSTANCE AbstractFile WITH
    Files <- FileIds,
    SizeLimit <- MaxBytes,
    life <- [f \in FileIds |-> Life(f)],
    size <- [f \in FileIds |-> Size(f)]

\* However completions, replaced objects, deletions and the reaper overlap, a row
\* goes through the life of AbstractFile: it becomes readable once, with a size
\* within the limit that no later completion changes (Flips, HeadVerdict), and a
\* tombstoned file is never readable again.
RefinesFile == File!Spec

\* On local disk, until an upload is stale, a readable file has its object:
\* neither overlapping writes nor completions nor deletions leave a row that
\* cannot be served.  The one exception is an INSERT whose answer was lost: its
\* object is removed although the row is there (save_upload_field).
ReadableHasObject ==
    \A f \in FileIds \ unheard :
        (Readable(f) /\ age[f] # "stale" /\ backend = "local") => object[f] # None

\* The grace period works on local disk: what the reaper has removed stays
\* removed, although a signed PUT checks URL and row before it writes
\* (accept_signed_upload).  A PUT that S3 let in may come after the reaper.
ReapedLeavesNoObject ==
    backend = "local" => \A f \in cleared : object[f] = None

\* An upload that was reserved does not stay pending for ever.
ReservationIsSettled ==
    \A f \in FileIds : Pending(f) ~> ~Pending(f)
=============================================================================
