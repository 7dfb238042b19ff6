---------------------------- MODULE UploadsProofs ----------------------------
(***************************************************************************)
(* Files implement AbstractFile, for any number of files, requests and     *)
(* faults.  A row is written without looking at all of it: save_upload_    *)
(* field inserts it, the completion over the limit and the reaper          *)
(* tombstone it by its id alone, and the size written comes from an        *)
(* earlier step.  What makes that harmless is what is known of the row     *)
(* since the request or the reaper chose it (IInv).  Then, with what is    *)
(* known of the objects (ObjectInv): a readable file on local disk has     *)
(* its object, and the reaper leaves none behind.                          *)
(***************************************************************************)
EXTENDS Uploads, TLAPS

USE DEF urls, history

\* The steps of requests that were given an existing row.
OnRows == {"truncate", "write", "head", "flip", "drop", "tombstone", "dropObject"}

\* A request under way has a file.
BusyHasFile == \A r \in Requests : pc[r] # "idle" => file[r] \in FileIds

\* An id without a row has nothing that a row would have.
NoRowIsBlank == \A f \in FileIds : row[f].status = "none" => row[f] = NoRow

\* Until its INSERT the id of an upload is known to its request alone: no row,
\* and no other request, has it.
InsertOwnsId ==
    \A r \in Requests : pc[r] = "insert" =>
        /\ row[file[r]].status = "none"
        /\ \A q \in Requests \ {r} : file[q] # file[r]

\* The other requests and the reaper only have files whose row was there when
\* they read it, and rows are never removed.
ChosenRowExists ==
    /\ \A r \in Requests : pc[r] \in OnRows => row[file[r]].status # "none"
    /\ \A f \in todo : row[f].status # "none"
    /\ reaping # None => row[reaping].status # "none"

\* The size a request is about to write is within the limit.
SizeIsChecked ==
    \A r \in Requests : pc[r] \in {"insert", "flip"} => len[r] \in 1..MaxBytes

IInv ==
    /\ TypeOK
    /\ BusyHasFile
    /\ NoRowIsBlank
    /\ InsertOwnsId
    /\ ChosenRowExists
    /\ SizeIsChecked

\* No rows and no requests: the invariant holds to begin with.
LEMMA InitIInv == Init => IInv
  BY UploadNoneAssumption, UploadBoundsAssumption
  DEF Init, IInv, TypeOK, BusyHasFile, NoRowIsBlank, InsertOwnsId, ChosenRowExists,
      SizeIsChecked, OnRows, NoRow, Lengths

-----------------------------------------------------------------------------
Row == [status : {"none", "pending", "ready"}, deleted : BOOLEAN, size : Lengths]

\* A tombstone only sets deleted_at.
LEMMA TombstoneRow ==
    ASSUME TypeOK, NEW f \in FileIds, Tombstone(f)
    PROVE  /\ row' = [row EXCEPT ![f] = [row[f] EXCEPT !.deleted = TRUE]]
           /\ row' \in [FileIds -> Row]
           /\ row'[f].deleted /\ row'[f].status = row[f].status
<1>1. row[f] \in Row
  BY DEF TypeOK, Row
<1>2. [row[f] EXCEPT !.deleted = TRUE] \in Row
  BY <1>1 DEF Row
<1> QED
  BY <1>1, <1>2 DEF TypeOK, Row, Tombstone

\* An INSERT adds the row of a file.
LEMMA InsertRow ==
    ASSUME TypeOK, NEW r \in Requests, file[r] \in FileIds, Insert(r)
    PROVE  /\ row' \in [FileIds -> Row]
           /\ row'[file[r]].status = "ready"
           /\ row' = [row EXCEPT ![file[r]] = row'[file[r]]]
<1>1. [status |-> "ready", deleted |-> FALSE, size |-> len[r]] \in Row
  BY DEF TypeOK, Row
<1>2. row' = [row EXCEPT ![file[r]] = [status |-> "ready", deleted |-> FALSE, size |-> len[r]]]
  BY DEF Insert
<1> HIDE DEF Insert
<1> QED
  BY <1>1, <1>2 DEF TypeOK, Row

\* The types of what a step leaves behind.
LEMMA TypeStep == ASSUME IInv, [Next]_vars PROVE TypeOK'
<1> USE UploadNoneAssumption, UploadBoundsAssumption DEF Lengths
<1>1. ASSUME NEW r \in Requests, NEW f \in FileIds, Arrive(r, f), UNCHANGED backend
      PROVE  TypeOK'
  <2>1. CASE \E n \in 1..MaxBytes : SavePut(r, f, n)
    BY <1>1, <2>1 DEF SavePut, Begin, Put, reaperVars, IInv, TypeOK
  <2>2. CASE \E n \in 0..MaxBytes : SignedPutCheck(r, f, n)
    BY <1>1, <2>2 DEF SignedPutCheck, Begin, store, reaperVars, IInv, TypeOK
  <2>3. CASE CompleteRead(r, f)
    BY <1>1, <2>3 DEF CompleteRead, Begin, store, reaperVars, IInv, TypeOK
  <2>4. CASE DeleteRow(r, f)
    <3>1. row' \in [FileIds -> Row]
      BY <2>4, TombstoneRow DEF DeleteRow, IInv
    <3> QED
      BY <1>1, <2>4, <3>1 DEF DeleteRow, Begin, Row, reaperVars, IInv, TypeOK
  <2> QED
    BY <1>1, <2>1, <2>2, <2>3, <2>4 DEF Arrive
<1>2. ASSUME NEW r \in Requests, Proceed(r), UNCHANGED backend
      PROVE  TypeOK'
  <2>0. pc[r] # "idle" => file[r] \in FileIds /\ len[r] \in Lengths
    BY DEF IInv, TypeOK, BusyHasFile
  <2>1. CASE SaveInsert(r)
    <3>2. row' \in [FileIds -> Row]
      BY <2>0, <2>1, InsertRow DEF SaveInsert, IInv
    <3> QED
      BY <1>2, <2>1, <3>2 DEF SaveInsert, Finish, Row, reaperVars, IInv, TypeOK
  <2>2. CASE SaveBadVisibility(r)
    BY <1>2, <2>2 DEF SaveBadVisibility, Finish, store, reaperVars, IInv, TypeOK
  <2>11. CASE SaveInsertFails(r)
    <3>1. row' \in [FileIds -> Row] /\ unheard' \in SUBSET FileIds
      BY <2>0, <2>11, InsertRow DEF SaveInsertFails, Row, IInv, TypeOK
    <3> QED
      BY <1>2, <2>11, <3>1 DEF SaveInsertFails, Goto, Fault, Row, reaperVars, IInv, TypeOK
  <2>3. CASE SaveUndo(r)
    BY <1>2, <2>3 DEF SaveUndo, Finish, DeleteObject, Put, Fault, reaperVars, IInv, TypeOK
  <2>4. CASE SignedPutTruncate(r)
    BY <1>2, <2>0, <2>4 DEF SignedPutTruncate, Goto, Put, reaperVars, IInv, TypeOK
  <2>5. CASE SignedPutWrite(r)
    BY <1>2, <2>0, <2>5 DEF SignedPutWrite, Finish, Put, reaperVars, IInv, TypeOK
  <2>6. CASE CompleteHead(r)
    <3>1. object[file[r]] \in Lengths \cup {None}
      BY <2>0, <2>6 DEF CompleteHead, IInv, TypeOK
    <3>2. \/ Finish(r)
          \/ Goto(r, "drop")
          \/ /\ pc' = [pc EXCEPT ![r] = "flip"]
             /\ len' = [len EXCEPT ![r] = object[file[r]]]
             /\ object[file[r]] \in Lengths
             /\ UNCHANGED file
      BY <2>6, <3>1 DEF CompleteHead, HeadVerdict
    <3> QED
      BY <1>2, <2>6, <3>2 DEF CompleteHead, Finish, Goto, store, reaperVars, IInv, TypeOK
  <2>7. CASE CompleteFlip(r)
    <3>1. Completed(file[r], len[r]) \in Row
      BY <2>0, <2>7 DEF CompleteFlip, Completed, Row, IInv, TypeOK
    <3>2. row' \in [FileIds -> Row]
      BY <2>0, <2>7, <3>1 DEF CompleteFlip, Row, IInv, TypeOK
    <3> QED
      BY <1>2, <2>7, <3>2 DEF CompleteFlip, Finish, Row, reaperVars, IInv, TypeOK
  <2>8. CASE CompleteDrop(r)
    BY <1>2, <2>8 DEF CompleteDrop, Goto, DeleteObject, Put, Fault, reaperVars, IInv, TypeOK
  <2>9. CASE CompleteTombstone(r)
    <3>1. row' \in [FileIds -> Row]
      BY <2>0, <2>9, TombstoneRow DEF CompleteTombstone, IInv
    <3> QED
      BY <1>2, <2>9, <3>1 DEF CompleteTombstone, Finish, Row, reaperVars, IInv, TypeOK
  <2>10. CASE DeleteStored(r)
    BY <1>2, <2>10 DEF DeleteStored, Finish, DeleteObject, Put, Fault, reaperVars, IInv, TypeOK
  <2> QED
    BY <1>2, <2>1, <2>2, <2>3, <2>4, <2>5, <2>6, <2>7, <2>8, <2>9, <2>10, <2>11 DEF Proceed
<1>3. ASSUME NEW r \in Requests, RequestDies(r), UNCHANGED backend
      PROVE  TypeOK'
  BY <1>3 DEF RequestDies, Finish, Fault, store, reaperVars, IInv, TypeOK
<1>4. ASSUME NEW f \in FileIds, Reserve(f), UNCHANGED backend
      PROVE  TypeOK'
  BY <1>4 DEF Reserve, Fault, requestVars, reaperVars, IInv, TypeOK
<1>5. ASSUME NEW f \in FileIds, NEW n \in Lengths,
             NativePutStart(f, n) \/ NativePutLands(f, n), UNCHANGED backend
      PROVE  TypeOK'
  BY <1>5 DEF NativePutStart, NativePutLands, Put, store, requestVars, reaperVars, IInv, TypeOK
<1>6. ASSUME NEW f \in FileIds, GrowOlder(f), UNCHANGED backend
      PROVE  TypeOK'
  BY <1>6 DEF GrowOlder, store, requestVars, reaperVars, IInv, TypeOK
<1>7. ASSUME Reaper, UNCHANGED backend
      PROVE  TypeOK'
  <2>1. CASE ReapSelect
    BY <1>7, <2>1 DEF ReapSelect, store, requestVars, IInv, TypeOK
  <2>2. CASE \E f \in FileIds : ReapObject(f)
    BY <1>7, <2>2 DEF ReapObject, DeleteObject, Put, Fault, requestVars, IInv, TypeOK
  <2>3. CASE ReapRow
    <3>1. row' \in [FileIds -> Row]
      BY <2>3, TombstoneRow DEF ReapRow, IInv, TypeOK
    <3> QED
      BY <1>7, <2>3, <3>1 DEF ReapRow, Row, requestVars, IInv, TypeOK
  <2> QED
    BY <1>7, <2>1, <2>2, <2>3 DEF Reaper
<1>8. ASSUME ReapRowFails \/ ReaperCrashes, UNCHANGED backend
      PROVE  TypeOK'
  BY <1>8 DEF ReapRowFails, ReaperCrashes, Fault, store, requestVars, IInv, TypeOK
<1>9. CASE UNCHANGED vars
  BY <1>9 DEF vars, store, requestVars, reaperVars, IInv, TypeOK
<1> QED
  BY <1>1, <1>2, <1>3, <1>4, <1>5, <1>6, <1>7, <1>8, <1>9 DEF Next, Step

-----------------------------------------------------------------------------
\* A step changes rows that are there, and leaves them there.
RowsStay ==
    \A f \in FileIds :
        row'[f] # row[f] => row[f].status # "none" /\ row'[f].status # "none"

\* Neither the requests nor the reaper move.
LEMMA OutsideKeepsIInv ==
    ASSUME IInv, TypeOK', UNCHANGED <<row, pc, file, len, todo, reaping>>
    PROVE  IInv'
  BY DEF IInv, BusyHasFile, NoRowIsBlank, InsertOwnsId, ChosenRowExists, SizeIsChecked

\* A request ends, and may have changed its row.
LEMMA FinishKeepsIInv ==
    ASSUME IInv, TypeOK', NEW r \in Requests, Finish(r), RowsStay, UNCHANGED <<todo, reaping>>
    PROVE  IInv'
<1>1. \A q \in Requests : /\ pc'[q] = IF q = r THEN "idle" ELSE pc[q]
                          /\ file'[q] = IF q = r THEN None ELSE file[q]
                          /\ len'[q] = IF q = r THEN 0 ELSE len[q]
  BY DEF Finish, IInv, TypeOK
<1>2. BusyHasFile' /\ NoRowIsBlank' /\ SizeIsChecked'
  BY <1>1 DEF IInv, BusyHasFile, NoRowIsBlank, SizeIsChecked, RowsStay
<1>3. InsertOwnsId'
  BY <1>1, UploadNoneAssumption DEF IInv, InsertOwnsId, BusyHasFile, RowsStay
<1>4. ChosenRowExists'
  BY <1>1 DEF IInv, TypeOK, ChosenRowExists, BusyHasFile, OnRows, RowsStay
<1> QED
  BY <1>2, <1>3, <1>4 DEF IInv

\* A request goes on, with a file it has read the row of or without writing one.
LEMMA GotoKeepsIInv ==
    ASSUME IInv, TypeOK', NEW r \in Requests, NEW label, Goto(r, label),
           label \in OnRows \ {"flip"}, pc[r] \in OnRows, UNCHANGED <<row, todo, reaping>>
    PROVE  IInv'
<1>1. \A q \in Requests : /\ pc'[q] = IF q = r THEN label ELSE pc[q]
                          /\ file'[q] = file[q] /\ len'[q] = len[q]
  BY DEF Goto, IInv, TypeOK
<1>2. BusyHasFile' /\ NoRowIsBlank' /\ SizeIsChecked'
  BY <1>1 DEF IInv, BusyHasFile, NoRowIsBlank, SizeIsChecked, OnRows
<1>3. InsertOwnsId'
  BY <1>1 DEF IInv, InsertOwnsId, OnRows
<1>4. ChosenRowExists'
  BY <1>1 DEF IInv, ChosenRowExists, OnRows
<1> QED
  BY <1>2, <1>3, <1>4 DEF IInv

\* A request begins to work on a row that is there, and may change it.
LEMMA BeginKeepsIInv ==
    ASSUME IInv, TypeOK', NEW r \in Requests, NEW f \in FileIds, NEW n,
           NEW label \in OnRows \ {"flip"}, Begin(r, label, f, n), row[f].status # "none",
           RowsStay, UNCHANGED <<todo, reaping>>
    PROVE  IInv'
<1>1. \A q \in Requests : /\ pc'[q] = IF q = r THEN label ELSE pc[q]
                          /\ file'[q] = IF q = r THEN f ELSE file[q]
                          /\ len'[q] = IF q = r THEN n ELSE len[q]
  BY DEF Begin, IInv, TypeOK
<1>2. BusyHasFile' /\ NoRowIsBlank' /\ SizeIsChecked'
  BY <1>1 DEF IInv, BusyHasFile, NoRowIsBlank, SizeIsChecked, OnRows, RowsStay
<1>3. InsertOwnsId'
  BY <1>1 DEF IInv, InsertOwnsId, BusyHasFile, OnRows, RowsStay
<1>4. ChosenRowExists'
  BY <1>1 DEF IInv, TypeOK, ChosenRowExists, BusyHasFile, OnRows, RowsStay
<1> QED
  BY <1>2, <1>3, <1>4 DEF IInv

\* The reaper moves among rows that are there, and may change one.
LEMMA ReaperKeepsIInv ==
    ASSUME IInv, TypeOK', RowsStay, UNCHANGED <<pc, file, len>>,
           \A f \in todo' : row[f].status # "none",
           reaping' # None => row[reaping'].status # "none"
    PROVE  IInv'
<1>1. BusyHasFile' /\ NoRowIsBlank' /\ SizeIsChecked'
  BY DEF IInv, BusyHasFile, NoRowIsBlank, SizeIsChecked, RowsStay
<1>2. InsertOwnsId'
  BY DEF IInv, InsertOwnsId, BusyHasFile, RowsStay
<1>3. ChosenRowExists'
  BY DEF IInv, TypeOK, ChosenRowExists, BusyHasFile, OnRows, RowsStay
<1> QED
  BY <1>1, <1>2, <1>3 DEF IInv

\* An id that nobody has is taken by an upload.
LEMMA SavePutKeepsIInv ==
    ASSUME IInv, TypeOK', NEW r \in Requests, NEW f \in FileIds, NEW n \in 1..MaxBytes,
           SavePut(r, f, n)
    PROVE  IInv'
<1>1. /\ \A q \in Requests : /\ pc'[q] = IF q = r THEN "insert" ELSE pc[q]
                             /\ file'[q] = IF q = r THEN f ELSE file[q]
                             /\ len'[q] = IF q = r THEN n ELSE len[q]
      /\ UNCHANGED <<row, todo, reaping>>
      /\ row[f].status = "none" /\ \A q \in Requests : file[q] # f
  BY DEF SavePut, Unused, Begin, reaperVars, IInv, TypeOK
<1>2. BusyHasFile' /\ NoRowIsBlank' /\ SizeIsChecked'
  BY <1>1 DEF IInv, BusyHasFile, NoRowIsBlank, SizeIsChecked
<1>3. InsertOwnsId'
  BY <1>1 DEF IInv, InsertOwnsId
<1>4. ChosenRowExists'
  BY <1>1 DEF IInv, ChosenRowExists, OnRows
<1> QED
  BY <1>2, <1>3, <1>4 DEF IInv

\* A row appears under an id that no other request has.
LEMMA NewRowKeepsIInv ==
    ASSUME IInv, TypeOK', NEW f \in FileIds, row' = [row EXCEPT ![f] = row'[f]],
           row'[f].status # "none", UNCHANGED <<todo, reaping>>,
           \/ UNCHANGED <<pc, file, len>> /\ \A q \in Requests : file[q] # f
           \/ \E r \in Requests : /\ pc[r] = "insert" /\ file[r] = f
                                  /\ Finish(r) \/ Goto(r, "undo")
    PROVE  IInv'
<1>1. \A g \in FileIds \ {f} : row'[g] = row[g]
  BY DEF IInv, TypeOK
<1>2. \A q \in Requests :
        \/ pc'[q] = "idle"
        \/ pc'[q] = "undo" /\ file'[q] = f
        \/ pc'[q] = pc[q] /\ file'[q] = file[q] /\ len'[q] = len[q] /\ file[q] # f
  <2>1. CASE UNCHANGED <<pc, file, len>> /\ \A q \in Requests : file[q] # f
    BY <2>1
  <2>2. ASSUME NEW r \in Requests, pc[r] = "insert", file[r] = f, Finish(r) \/ Goto(r, "undo")
        PROVE  \A q \in Requests :
                 \/ pc'[q] = "idle"
                 \/ pc'[q] = "undo" /\ file'[q] = f
                 \/ /\ pc'[q] = pc[q] /\ file'[q] = file[q] /\ len'[q] = len[q]
                    /\ file[q] # f
    <3>1. \A q \in Requests \ {r} : file[q] # f
      BY <2>2 DEF IInv, InsertOwnsId
    <3>2. DOMAIN pc = Requests /\ DOMAIN file = Requests /\ DOMAIN len = Requests
      BY DEF IInv, TypeOK
    <3>3. \A q \in Requests \ {r} : pc'[q] = pc[q] /\ file'[q] = file[q] /\ len'[q] = len[q]
      BY <2>2, <3>2 DEF Finish, Goto
    <3>4. pc'[r] = "idle" \/ (pc'[r] = "undo" /\ file'[r] = f)
      BY <2>2, <3>2 DEF Finish, Goto
    <3> QED
      BY <3>1, <3>3, <3>4
  <2>3. CASE \E r \in Requests : pc[r] = "insert" /\ file[r] = f /\ (Finish(r) \/ Goto(r, "undo"))
    <3>1. PICK r \in Requests : pc[r] = "insert" /\ file[r] = f /\ (Finish(r) \/ Goto(r, "undo"))
      BY <2>3
    <3> QED
      BY <2>2, <3>1
  <2> QED
    BY <2>1, <2>3
<1>3. \A q \in Requests : file'[q] = file[q] \/ file'[q] = None
  BY DEF Finish, Goto, IInv, TypeOK
<1>4. BusyHasFile' /\ SizeIsChecked'
  BY <1>2 DEF IInv, BusyHasFile, SizeIsChecked
<1>5. NoRowIsBlank'
  BY <1>1 DEF IInv, NoRowIsBlank
<1>6. InsertOwnsId'
  BY <1>1, <1>2, <1>3, UploadNoneAssumption DEF IInv, InsertOwnsId, BusyHasFile
<1>7. \A g \in FileIds : row[g].status # "none" => row'[g].status # "none"
  BY <1>1
<1>8. \A q \in Requests : pc'[q] \in OnRows => row'[file'[q]].status # "none"
  BY <1>2, <1>7 DEF IInv, ChosenRowExists, BusyHasFile, OnRows
<1>9. ChosenRowExists'
  BY <1>7, <1>8 DEF IInv, TypeOK, ChosenRowExists
<1> QED
  BY <1>4, <1>5, <1>6, <1>9 DEF IInv

\* Every step keeps the invariant.
LEMMA NextKeepsIInv == ASSUME IInv, [Next]_vars PROVE IInv'
<1>0. TypeOK'
  BY TypeStep
<1>1. ASSUME NEW r \in Requests, NEW f \in FileIds, Arrive(r, f)
      PROVE  IInv'
  <2>1. CASE \E n \in 1..MaxBytes : SavePut(r, f, n)
    BY <1>0, <2>1, SavePutKeepsIInv
  <2>2. CASE \E n \in 0..MaxBytes : SignedPutCheck(r, f, n)
    BY <1>0, <2>2, BeginKeepsIInv
    DEF SignedPutCheck, Pending, OnRows, RowsStay, store, reaperVars
  <2>3. CASE CompleteRead(r, f)
    BY <1>0, <2>3, BeginKeepsIInv
    DEF CompleteRead, Pending, OnRows, RowsStay, store, reaperVars
  <2>4. CASE DeleteRow(r, f)
    <3>1. RowsStay
      BY <2>4, TombstoneRow DEF DeleteRow, Readable, RowsStay, IInv, TypeOK
    <3> QED
      BY <1>0, <2>4, <3>1, BeginKeepsIInv DEF DeleteRow, Readable, OnRows, reaperVars
  <2> QED
    BY <1>1, <2>1, <2>2, <2>3, <2>4 DEF Arrive
<1>2. ASSUME NEW r \in Requests, Proceed(r)
      PROVE  IInv'
  <2>0. pc[r] # "idle" => file[r] \in FileIds
    BY DEF IInv, BusyHasFile
  <2>1. CASE SaveInsert(r)
    <3>1. pc[r] = "insert" /\ file[r] \in FileIds /\ TypeOK /\ Insert(r)
      BY <2>0, <2>1 DEF SaveInsert, IInv
    <3>2. row' = [row EXCEPT ![file[r]] = row'[file[r]]] /\ row'[file[r]].status # "none"
      BY <3>1, InsertRow
    <3> QED
      BY <1>0, <2>1, <3>1, <3>2, NewRowKeepsIInv DEF SaveInsert, reaperVars
  <2>2. CASE SaveBadVisibility(r) \/ SaveUndo(r) \/ SignedPutWrite(r) \/ DeleteStored(r)
    BY <1>0, <2>2, FinishKeepsIInv
    DEF SaveBadVisibility, SaveUndo, SignedPutWrite, DeleteStored, RowsStay, store, reaperVars
  <2>3. CASE SaveInsertFails(r)
    <3>1. CASE UNCHANGED row
      <4>1. /\ pc[r] = "insert" /\ UNCHANGED <<row, todo, reaping>>
            /\ \A q \in Requests : /\ pc'[q] = IF q = r THEN "undo" ELSE pc[q]
                                   /\ file'[q] = file[q] /\ len'[q] = len[q]
        BY <2>3, <3>1 DEF SaveInsertFails, Goto, reaperVars, IInv, TypeOK
      <4>2. BusyHasFile' /\ NoRowIsBlank' /\ SizeIsChecked'
        BY <4>1 DEF IInv, BusyHasFile, NoRowIsBlank, SizeIsChecked
      <4>3. InsertOwnsId' /\ ChosenRowExists'
        BY <4>1 DEF IInv, InsertOwnsId, ChosenRowExists, OnRows
      <4> QED
        BY <1>0, <4>2, <4>3 DEF IInv
    <3>2. CASE Insert(r)
      <4>1. pc[r] = "insert" /\ file[r] \in FileIds /\ TypeOK
        BY <2>0, <2>3 DEF SaveInsertFails, IInv
      <4>2. row' = [row EXCEPT ![file[r]] = row'[file[r]]] /\ row'[file[r]].status # "none"
        BY <3>2, <4>1, InsertRow
      <4> QED
        BY <1>0, <2>3, <4>1, <4>2, NewRowKeepsIInv DEF SaveInsertFails, reaperVars
    <3> QED
      BY <2>3, <3>1, <3>2 DEF SaveInsertFails
  <2>4. CASE SignedPutTruncate(r) \/ CompleteDrop(r)
    BY <1>0, <2>4, GotoKeepsIInv DEF SignedPutTruncate, CompleteDrop, OnRows, reaperVars
  <2>5. CASE CompleteHead(r)
    <3>1. object[file[r]] \in Lengths \cup {None} /\ UNCHANGED <<row, todo, reaping>>
      BY <2>0, <2>5 DEF CompleteHead, store, reaperVars, IInv, TypeOK
    <3>2. CASE Finish(r)
      BY <1>0, <3>1, <3>2, FinishKeepsIInv DEF RowsStay
    <3>3. CASE Goto(r, "drop")
      BY <1>0, <2>5, <3>1, <3>3, GotoKeepsIInv DEF CompleteHead, OnRows
    <3>4. CASE /\ pc' = [pc EXCEPT ![r] = "flip"]
               /\ len' = [len EXCEPT ![r] = object[file[r]]]
               /\ object[file[r]] \in 1..MaxBytes
               /\ UNCHANGED file
      <4>1. \A q \in Requests : /\ pc'[q] = IF q = r THEN "flip" ELSE pc[q]
                                /\ file'[q] = file[q]
                                /\ len'[q] = IF q = r THEN object[file[r]] ELSE len[q]
        BY <3>4 DEF IInv, TypeOK
      <4>2. BusyHasFile' /\ NoRowIsBlank' /\ SizeIsChecked'
        BY <2>0, <2>5, <3>1, <3>4, <4>1
        DEF CompleteHead, IInv, BusyHasFile, NoRowIsBlank, SizeIsChecked
      <4>3. InsertOwnsId'
        BY <3>1, <4>1 DEF IInv, InsertOwnsId
      <4>4. ChosenRowExists'
        BY <2>5, <3>1, <4>1 DEF CompleteHead, IInv, ChosenRowExists, OnRows
      <4> QED
        BY <1>0, <4>2, <4>3, <4>4 DEF IInv
    <3>5. CASE HeadVerdict(object[file[r]]) = "flip"
      <4>1. object[file[r]] \in 1..MaxBytes
        BY <3>1, <3>5, UploadBoundsAssumption DEF HeadVerdict, Lengths
      <4> QED
        BY <2>5, <3>4, <3>5, <4>1 DEF CompleteHead
    <3>6. CASE HeadVerdict(object[file[r]]) # "flip"
      BY <2>5, <3>2, <3>3, <3>6 DEF CompleteHead, HeadVerdict
    <3> QED
      BY <3>5, <3>6
  <2>6. CASE CompleteFlip(r)
    <3>1. RowsStay
      <4>1. CASE Flips(file[r])
        BY <2>0, <2>6, <4>1 DEF CompleteFlip, Completed, Flips, RowsStay, IInv, TypeOK
      <4>2. CASE ~Flips(file[r])
        BY <2>6, <4>2 DEF CompleteFlip, RowsStay
      <4> QED
        BY <4>1, <4>2
    <3> QED
      BY <1>0, <2>6, <3>1, FinishKeepsIInv DEF CompleteFlip, reaperVars
  <2>7. CASE CompleteTombstone(r)
    <3>1. file[r] \in FileIds /\ row[file[r]].status # "none"
      BY <2>0, <2>7 DEF CompleteTombstone, IInv, ChosenRowExists, OnRows
    <3>2. RowsStay
      BY <2>7, <3>1, TombstoneRow DEF CompleteTombstone, RowsStay, IInv, TypeOK
    <3> QED
      BY <1>0, <2>7, <3>2, FinishKeepsIInv DEF CompleteTombstone, reaperVars
  <2> QED
    BY <1>2, <2>1, <2>2, <2>3, <2>4, <2>5, <2>6, <2>7 DEF Proceed
<1>3. ASSUME NEW r \in Requests, RequestDies(r)
      PROVE  IInv'
  BY <1>0, <1>3, FinishKeepsIInv DEF RequestDies, RowsStay, store, reaperVars
<1>4. ASSUME NEW f \in FileIds, Reserve(f)
      PROVE  IInv'
  <2>1. row' = [row EXCEPT ![f] = row'[f]] /\ row'[f].status = "pending"
    BY <1>4 DEF Reserve, IInv, TypeOK
  <2> QED
    BY <1>0, <1>4, <2>1, NewRowKeepsIInv DEF Reserve, Unused, requestVars, reaperVars
<1>5. CASE \/ \E f \in FileIds, n \in Lengths : NativePutStart(f, n) \/ NativePutLands(f, n)
           \/ \E f \in FileIds : GrowOlder(f)
  BY <1>0, <1>5, OutsideKeepsIInv
  DEF NativePutStart, NativePutLands, GrowOlder, store, requestVars, reaperVars
<1>6. CASE ReapSelect
  BY <1>0, <1>6, ReaperKeepsIInv
  DEF ReapSelect, ReaperIdle, Abandoned, Pending, RowsStay, store, requestVars
<1>7. ASSUME NEW f \in FileIds, ReapObject(f)
      PROVE  IInv'
  BY <1>0, <1>7, ReaperKeepsIInv DEF ReapObject, RowsStay, requestVars, IInv, ChosenRowExists
<1>8. CASE ReapRow
  <2>1. reaping \in FileIds /\ row[reaping].status # "none"
    BY <1>8 DEF ReapRow, IInv, TypeOK, ChosenRowExists
  <2>2. RowsStay
    BY <1>8, <2>1, TombstoneRow DEF ReapRow, RowsStay, IInv, TypeOK
  <2> QED
    BY <1>0, <1>8, <2>2, ReaperKeepsIInv DEF ReapRow, requestVars, IInv, ChosenRowExists
<1>9. CASE ReapRowFails \/ ReaperCrashes
  BY <1>0, <1>9, ReaperKeepsIInv
  DEF ReapRowFails, ReaperCrashes, RowsStay, store, requestVars, IInv, ChosenRowExists
<1>10. CASE UNCHANGED vars
  BY <1>0, <1>10, OutsideKeepsIInv DEF vars, store, requestVars, reaperVars
<1> QED
  BY <1>1, <1>2, <1>3, <1>4, <1>5, <1>6, <1>7, <1>8, <1>9, <1>10 DEF Next, Step, Reaper

\* What is known of rows, requests and the reaper in every state of the storage
\* service: the invariant the refinement rests on.
THEOREM FileInvariant == Spec => []IInv
<1>1. IInv /\ [Next]_vars => IInv'
  BY NextKeepsIInv
<1> QED
  BY InitIInv, <1>1, PTL DEF Spec

\* Rows and requests of the storage service keep their types.
THEOREM TypeCorrect == Spec => []TypeOK
<1>1. IInv => TypeOK
  BY DEF IInv
<1> QED
  BY <1>1, FileInvariant, PTL

-----------------------------------------------------------------------------
LifeOf == [f \in FileIds |-> Life(f)]
SizeOf == [f \in FileIds |-> Size(f)]

\* The life of a file, case by case.
LEMMA LifeByCase ==
    ASSUME NEW f \in FileIds
    PROVE  /\ row[f].deleted => Life(f) = "gone"
           /\ ~row[f].deleted /\ row[f].status = "none" => Life(f) = "none"
           /\ ~row[f].deleted /\ row[f].status = "pending" => Life(f) = "reserved"
           /\ ~row[f].deleted /\ row[f].status = "ready" => Life(f) = "readable"
  BY DEF Life

\* A step that changes one row changes the life and the size of that file only.
LEMMA OneFileChanges ==
    ASSUME NEW f \in FileIds, \A g \in FileIds \ {f} : row'[g] = row[g]
    PROVE  /\ LifeOf' = [LifeOf EXCEPT ![f] = Life(f)']
           /\ SizeOf' = [SizeOf EXCEPT ![f] = Size(f)']
  BY DEF LifeOf, SizeOf, Life, Size, Readable

\* A tombstone on a row that is there ends the file, or changes nothing.
LEMMA TombstoneRemoves ==
    ASSUME IInv, NEW f \in FileIds, row[f].status # "none", Tombstone(f)
    PROVE  [File!Next]_(File!fileVars)
<1>1. /\ \A g \in FileIds \ {f} : row'[g] = row[g]
      /\ row'[f].deleted /\ row'[f].status = row[f].status
      /\ row[f].deleted \in BOOLEAN /\ row[f].status \in {"pending", "ready"}
  BY TombstoneRow DEF IInv, TypeOK
<1>2. Life(f)' = "gone" /\ Size(f)' = 0
  BY <1>1 DEF Life, Size, Readable
<1>3. CASE row[f].deleted
  <2>1. Life(f) = "gone" /\ Size(f) = 0
    BY <1>3 DEF Life, Size, Readable
  <2> QED
    BY <1>1, <1>2, <2>1, OneFileChanges DEF LifeOf, SizeOf, File!fileVars
<1>4. CASE ~row[f].deleted
  <2>1. Life(f) \in {"reserved", "readable"}
    BY <1>1, <1>4, LifeByCase
  <2>2. File!Remove(f)
    BY <1>1, <1>2, <2>1, OneFileChanges DEF LifeOf, SizeOf, File!Remove
  <2> QED
    BY <2>2 DEF File!Next
<1> QED
  BY <1>1, <1>3, <1>4

\* A row that becomes ready, from nothing or from pending, publishes the file.
LEMMA ReadyPublishes ==
    ASSUME NEW f \in FileIds, NEW n \in 1..MaxBytes,
           ~row[f].deleted, row[f].status \in {"none", "pending"},
           row' = [row EXCEPT ![f] = [status |-> "ready", deleted |-> FALSE, size |-> n]],
           IInv
    PROVE  [File!Next]_(File!fileVars)
<1>1. /\ \A g \in FileIds \ {f} : row'[g] = row[g]
      /\ row'[f] = [status |-> "ready", deleted |-> FALSE, size |-> n]
  BY DEF IInv, TypeOK
<1>2. Life(f)' = "readable" /\ Size(f)' = n
  BY <1>1 DEF Life, Size, Readable
<1>3. Life(f) \in {"none", "reserved"}
  BY LifeByCase
<1>4. File!Publish(f, n)
  BY <1>1, <1>2, <1>3, OneFileChanges DEF LifeOf, SizeOf, File!Publish
<1> QED
  BY <1>4 DEF File!Next

\* Rows that stay as they are.
LEMMA NoRowChanges == UNCHANGED row => UNCHANGED File!fileVars
  BY DEF File!fileVars, Life, Size, Readable

\* Every step of files and requests is a step of the abstract file, or none.
LEMMA StepRefines ==
    ASSUME IInv, [Next]_vars
    PROVE  [File!Next]_(File!fileVars)
<1>1. ASSUME NEW r \in Requests, NEW f \in FileIds, Arrive(r, f)
      PROVE  [File!Next]_(File!fileVars)
  <2>1. CASE DeleteRow(r, f)
    BY <2>1, TombstoneRemoves DEF DeleteRow, Readable
  <2>2. CASE UNCHANGED row
    BY <2>2, NoRowChanges
  <2> QED
    BY <1>1, <2>1, <2>2 DEF Arrive, SavePut, SignedPutCheck, CompleteRead, store
<1>2. ASSUME NEW r \in Requests, Proceed(r)
      PROVE  [File!Next]_(File!fileVars)
  <2>0. pc[r] # "idle" => file[r] \in FileIds
    BY DEF IInv, BusyHasFile
  <2>1. CASE (SaveInsert(r) \/ SaveInsertFails(r)) /\ Insert(r)
    <3>1. /\ file[r] \in FileIds /\ len[r] \in 1..MaxBytes
          /\ row[file[r]].status = "none" /\ row[file[r]] = NoRow
      BY <2>0, <2>1
      DEF SaveInsert, SaveInsertFails, IInv, InsertOwnsId, SizeIsChecked, NoRowIsBlank
    <3>2. ~row[file[r]].deleted
      BY <3>1 DEF NoRow
    <3>3. row' = [row EXCEPT ![file[r]] =
                     [status |-> "ready", deleted |-> FALSE, size |-> len[r]]]
      BY <2>1 DEF Insert
    <3> QED
      BY <3>1, <3>2, <3>3, ReadyPublishes
  <2>2. CASE CompleteFlip(r) /\ Flips(file[r])
    <3>1. file[r] \in FileIds /\ len[r] \in 1..MaxBytes /\ row[file[r]].deleted \in BOOLEAN
      BY <2>0, <2>2 DEF CompleteFlip, IInv, TypeOK, SizeIsChecked
    <3>2. CASE ~row[file[r]].deleted
      <4>1. row' = [row EXCEPT ![file[r]] =
                       [status |-> "ready", deleted |-> FALSE, size |-> len[r]]]
        <5>1. row[file[r]].deleted = FALSE
          BY <3>1, <3>2
        <5> QED
          BY <2>2, <5>1 DEF CompleteFlip, Completed
      <4> QED
        BY <2>2, <3>1, <3>2, <4>1, ReadyPublishes DEF Flips
    <3>3. CASE row[file[r]].deleted
      <4>1. /\ \A g \in FileIds \ {file[r]} : row'[g] = row[g]
            /\ row'[file[r]].deleted
        BY <2>2, <3>1, <3>3 DEF CompleteFlip, Completed, IInv, TypeOK
      <4>2. \A g \in FileIds : Life(g)' = Life(g) /\ Size(g)' = Size(g)
        BY <3>1, <3>3, <4>1 DEF Life, Size, Readable
      <4> QED
        BY <4>2 DEF File!fileVars
    <3> QED
      BY <3>1, <3>2, <3>3
  <2>3. CASE CompleteTombstone(r)
    <3>1. file[r] \in FileIds /\ row[file[r]].status # "none"
      BY <2>0, <2>3 DEF CompleteTombstone, IInv, ChosenRowExists, OnRows
    <3> QED
      BY <2>3, <3>1, TombstoneRemoves DEF CompleteTombstone
  <2>4. CASE UNCHANGED row
    BY <2>4, NoRowChanges
  <2> QED
    BY <1>2, <2>1, <2>2, <2>3, <2>4
    DEF Proceed, SaveInsert, SaveBadVisibility, SaveInsertFails, SaveUndo, SignedPutTruncate,
        SignedPutWrite, CompleteHead, CompleteFlip, CompleteDrop, DeleteStored, store
<1>3. ASSUME NEW f \in FileIds, Reserve(f)
      PROVE  [File!Next]_(File!fileVars)
  <2>1. row[f] = NoRow
    BY <1>3 DEF Reserve, Unused, IInv, NoRowIsBlank
  <2>2. /\ \A g \in FileIds \ {f} : row'[g] = row[g]
        /\ row'[f].status = "pending" /\ ~row'[f].deleted
    BY <1>3, <2>1 DEF Reserve, NoRow, IInv, TypeOK
  <2>3. /\ Life(f) = "none" /\ Size(f) = 0
        /\ Life(f)' = "reserved" /\ Size(f)' = 0
    BY <2>1, <2>2 DEF Life, Size, Readable, NoRow
  <2>4. File!Reserve(f)
    BY <2>2, <2>3, OneFileChanges DEF LifeOf, SizeOf, File!Reserve
  <2> QED
    BY <2>4 DEF File!Next
<1>4. CASE ReapRow
  <2>1. reaping \in FileIds /\ row[reaping].status # "none"
    BY <1>4 DEF ReapRow, IInv, TypeOK, ChosenRowExists
  <2> QED
    BY <1>4, <2>1, TombstoneRemoves DEF ReapRow
<1>5. CASE UNCHANGED row
  BY <1>5, NoRowChanges
<1> QED
  BY <1>1, <1>2, <1>3, <1>4, <1>5
  DEF Next, Step, Reaper, RequestDies, NativePutStart, NativePutLands, GrowOlder, ReapSelect, ReapObject,
      ReapRowFails, ReaperCrashes, vars, store

\* Rows, objects, requests and the reaper implement the files of AbstractFile: a
\* file becomes readable once, within the limit, its size stays, and it does not
\* come back, for any number of files, requests and faults.
THEOREM Implements == Spec => RefinesFile
<1>1. Init => File!Init
  BY DEF Init, NoRow, Life, Size, Readable, File!Init
<1>2. IInv /\ [Next]_vars => [File!Next]_(File!fileVars)
  BY StepRefines
<1> QED
  BY <1>1, <1>2, FileInvariant, PTL DEF Spec, RefinesFile, File!Spec

-----------------------------------------------------------------------------
\* Objects.  A row says nothing of its object, so that what the object is follows
\* from who may still write or remove it.

\* The reaper only has, and only cleared, stale uploads, and no write is under way
\* for a stale one.
ReapsStale ==
    /\ \A f \in todo : age[f] = "stale"
    /\ reaping # None => age[reaping] = "stale"
    /\ \A f \in cleared : age[f] = "stale" /\ row[f].status # "none"

WritersAreInTime ==
    \A r \in Requests : pc[r] \in {"truncate", "write"} => age[file[r]] # "stale"

\* An object is removed for an id without a row, or with one that its request has
\* not heard of, or after its row.
UndoHasNoRow ==
    \A r \in Requests : pc[r] = "undo" => row[file[r]].status = "none" \/ file[r] \in unheard

DeletesTombstoned == \A r \in Requests : pc[r] = "dropObject" => row[file[r]].deleted

\* On local disk every length is checked before it is written, so that no
\* completion finds an object over the limit.
LocalIsChecked ==
    backend = "local" =>
        /\ \A f \in FileIds : object[f] # None => object[f] <= MaxBytes
        /\ \A r \in Requests : pc[r] # "drop" /\ len[r] <= MaxBytes

\* What is about to be readable has its object.
InsertHasObject == \A r \in Requests : pc[r] = "insert" => object[file[r]] # None

FlipHasObject ==
    \A r \in Requests :
        (/\ pc[r] = "flip" /\ age[file[r]] # "stale" /\ backend = "local"
         /\ ~row[file[r]].deleted /\ file[r] \notin unheard) => object[file[r]] # None

ObjectInv ==
    /\ ReapsStale
    /\ WritersAreInTime
    /\ UndoHasNoRow
    /\ DeletesTombstoned
    /\ LocalIsChecked
    /\ InsertHasObject
    /\ FlipHasObject
    /\ ReadableHasObject
    /\ ReapedLeavesNoObject

\* An upload under a new id.
LEMMA SavePutKeepsObjects ==
    ASSUME IInv, ObjectInv, NEW r \in Requests, NEW f \in FileIds, NEW n \in 1..MaxBytes,
           SavePut(r, f, n), UNCHANGED backend
    PROVE  ObjectInv'
<1>1. /\ \A q \in Requests : /\ pc'[q] = IF q = r THEN "insert" ELSE pc[q]
                             /\ file'[q] = IF q = r THEN f ELSE file[q]
                             /\ len'[q] = IF q = r THEN n ELSE len[q]
      /\ UNCHANGED <<row, age, todo, reaping, backend, unheard, cleared>>
      /\ row[f].status = "none" /\ \A q \in Requests : file[q] # f
      /\ \A g \in FileIds : object'[g] = IF g = f THEN n ELSE object[g]
      /\ n # None
  BY UploadNoneAssumption DEF SavePut, Unused, Begin, Put, reaperVars, IInv, TypeOK
<1>2. ReapsStale' /\ WritersAreInTime'
  BY <1>1 DEF IInv, TypeOK, ObjectInv, ReapsStale, WritersAreInTime
<1>3. UndoHasNoRow' /\ DeletesTombstoned'
  BY <1>1 DEF IInv, TypeOK, ObjectInv, UndoHasNoRow, DeletesTombstoned
<1>4. LocalIsChecked'
  BY <1>1 DEF IInv, TypeOK, ObjectInv, LocalIsChecked
<1>5. InsertHasObject' /\ FlipHasObject' /\ ReadableHasObject'
  <2>1. InsertHasObject'
    BY <1>1, UploadNoneAssumption
    DEF IInv, TypeOK, BusyHasFile, ObjectInv, InsertHasObject
  <2>2. FlipHasObject'
    BY <1>1, UploadNoneAssumption
    DEF IInv, TypeOK, BusyHasFile, ObjectInv, FlipHasObject, ChosenRowExists, OnRows
  <2>3. ReadableHasObject'
    BY <1>1, UploadNoneAssumption
    DEF IInv, TypeOK, BusyHasFile, ObjectInv, ReadableHasObject, Readable, InsertHasObject
  <2> QED
    BY <2>1, <2>2, <2>3
<1>6. ReapedLeavesNoObject'
  BY <1>1 DEF IInv, TypeOK, ObjectInv, ReapsStale, ReapedLeavesNoObject
<1> QED
  BY <1>2, <1>3, <1>4, <1>5, <1>6 DEF ObjectInv

\* A request that has read a row.
LEMMA ReadKeepsObjects ==
    ASSUME IInv, ObjectInv, NEW r \in Requests, NEW f \in FileIds, NEW n \in 0..MaxBytes,
           SignedPutCheck(r, f, n) \/ (CompleteRead(r, f) /\ n = 0), UNCHANGED backend
    PROVE  ObjectInv'
<1>1. PICK l \in {"truncate", "head"} :
        /\ \A q \in Requests : /\ pc'[q] = IF q = r THEN l ELSE pc[q]
                               /\ file'[q] = IF q = r THEN f ELSE file[q]
                               /\ len'[q] = IF q = r THEN n ELSE len[q]
        /\ UNCHANGED <<row, object, age, todo, reaping, backend, unheard, cleared>>
        /\ row[f].status # "none" /\ (l = "truncate" => age[f] = "fresh")
  BY DEF SignedPutCheck, CompleteRead, Pending, Begin, store, reaperVars, IInv, TypeOK
<1>2. ReapsStale' /\ WritersAreInTime'
  BY <1>1 DEF IInv, TypeOK, ObjectInv, ReapsStale, WritersAreInTime
<1>3. UndoHasNoRow' /\ DeletesTombstoned'
  BY <1>1 DEF IInv, TypeOK, ObjectInv, UndoHasNoRow, DeletesTombstoned
<1>4. LocalIsChecked'
  BY <1>1 DEF IInv, TypeOK, ObjectInv, LocalIsChecked
<1>5. InsertHasObject' /\ FlipHasObject' /\ ReadableHasObject'
  BY <1>1
  DEF IInv, TypeOK, ObjectInv, InsertHasObject, FlipHasObject, ReadableHasObject, Readable
<1>6. ReapedLeavesNoObject'
  BY <1>1 DEF IInv, TypeOK, ObjectInv, ReapedLeavesNoObject
<1> QED
  BY <1>2, <1>3, <1>4, <1>5, <1>6 DEF ObjectInv

\* A deletion, which begins with the row.
LEMMA DeleteRowKeepsObjects ==
    ASSUME IInv, ObjectInv, NEW r \in Requests, NEW f \in FileIds, DeleteRow(r, f),
           UNCHANGED backend
    PROVE  ObjectInv'
<1>1. /\ \A q \in Requests : /\ pc'[q] = IF q = r THEN "dropObject" ELSE pc[q]
                             /\ file'[q] = IF q = r THEN f ELSE file[q]
                             /\ len'[q] = IF q = r THEN 0 ELSE len[q]
      /\ UNCHANGED <<object, age, todo, reaping, backend, unheard, cleared>>
      /\ row[f].status = "ready" /\ row'[f].deleted /\ row'[f].status = "ready"
      /\ \A g \in FileIds \ {f} : row'[g] = row[g]
  BY TombstoneRow DEF DeleteRow, Readable, Begin, reaperVars, IInv, TypeOK
<1>2. ReapsStale' /\ WritersAreInTime'
  BY <1>1 DEF IInv, TypeOK, ObjectInv, ReapsStale, WritersAreInTime
<1>3. UndoHasNoRow' /\ DeletesTombstoned'
  <2>1. UndoHasNoRow'
    BY <1>1, UploadNoneAssumption
    DEF IInv, TypeOK, BusyHasFile, ObjectInv, UndoHasNoRow, ChosenRowExists, OnRows
  <2>2. DeletesTombstoned'
    BY <1>1, UploadNoneAssumption
    DEF IInv, TypeOK, BusyHasFile, ObjectInv, DeletesTombstoned
  <2> QED
    BY <2>1, <2>2
<1>4. LocalIsChecked'
  BY <1>1, UploadNoneAssumption, UploadBoundsAssumption
  DEF IInv, TypeOK, BusyHasFile, NoRowIsBlank, NoRow, InsertOwnsId, ChosenRowExists,
      ObjectInv, LocalIsChecked
<1>5. InsertHasObject' /\ FlipHasObject' /\ ReadableHasObject'
  <2>1. InsertHasObject'
    BY <1>1, UploadNoneAssumption
    DEF IInv, TypeOK, BusyHasFile, ObjectInv, InsertHasObject
  <2>2. FlipHasObject'
    BY <1>1, UploadNoneAssumption
    DEF IInv, TypeOK, BusyHasFile, ObjectInv, FlipHasObject, ChosenRowExists, OnRows
  <2>3. ReadableHasObject'
    BY <1>1, UploadNoneAssumption
    DEF IInv, TypeOK, BusyHasFile, ObjectInv, ReadableHasObject, Readable, InsertHasObject
  <2> QED
    BY <2>1, <2>2, <2>3
<1>6. ReapedLeavesNoObject'
  BY <1>1 DEF IInv, TypeOK, ObjectInv, ReapedLeavesNoObject
<1> QED
  BY <1>2, <1>3, <1>4, <1>5, <1>6 DEF ObjectInv

\* The row of an upload.
LEMMA SaveInsertKeepsObjects ==
    ASSUME IInv, ObjectInv, NEW r \in Requests, SaveInsert(r), UNCHANGED backend
    PROVE  ObjectInv'
<1>1. /\ \A q \in Requests : /\ pc'[q] = IF q = r THEN "idle" ELSE pc[q]
                             /\ file'[q] = IF q = r THEN None ELSE file[q]
                             /\ len'[q] = IF q = r THEN 0 ELSE len[q]
      /\ UNCHANGED <<object, age, todo, reaping, backend, unheard, cleared>>
      /\ pc[r] = "insert" /\ file[r] \in FileIds
      /\ row'[file[r]].status = "ready"
      /\ \A g \in FileIds \ {file[r]} : row'[g] = row[g]
  <2>1. pc[r] = "insert" /\ file[r] \in FileIds /\ TypeOK /\ Insert(r)
    BY DEF SaveInsert, BusyHasFile, IInv
  <2>2. row'[file[r]].status = "ready" /\ row' = [row EXCEPT ![file[r]] = row'[file[r]]]
    BY <2>1, InsertRow
  <2>3. \A g \in FileIds \ {file[r]} : row'[g] = row[g]
    BY <2>1, <2>2 DEF TypeOK
  <2> QED
    BY <2>1, <2>2, <2>3 DEF SaveInsert, Finish, reaperVars, TypeOK
<1>2. ReapsStale' /\ WritersAreInTime'
  BY <1>1 DEF IInv, TypeOK, ObjectInv, ReapsStale, WritersAreInTime
<1>3. UndoHasNoRow' /\ DeletesTombstoned'
  BY <1>1, UploadNoneAssumption, UploadBoundsAssumption
  DEF IInv, TypeOK, BusyHasFile, NoRowIsBlank, NoRow, InsertOwnsId, ChosenRowExists,
      ObjectInv, UndoHasNoRow, DeletesTombstoned, OnRows
<1>4. LocalIsChecked'
  BY <1>1, UploadNoneAssumption, UploadBoundsAssumption
  DEF IInv, TypeOK, BusyHasFile, NoRowIsBlank, NoRow, InsertOwnsId, ChosenRowExists,
      ObjectInv, LocalIsChecked
<1>5. InsertHasObject' /\ FlipHasObject' /\ ReadableHasObject'
  <2>1. InsertHasObject'
    BY <1>1, UploadNoneAssumption
    DEF IInv, TypeOK, BusyHasFile, ObjectInv, InsertHasObject
  <2>2. FlipHasObject'
    BY <1>1, UploadNoneAssumption
    DEF IInv, TypeOK, BusyHasFile, ObjectInv, FlipHasObject, ChosenRowExists, OnRows, InsertOwnsId
  <2>3. ReadableHasObject'
    BY <1>1, UploadNoneAssumption
    DEF IInv, TypeOK, BusyHasFile, ObjectInv, ReadableHasObject, Readable, InsertHasObject
  <2> QED
    BY <2>1, <2>2, <2>3
<1>6. ReapedLeavesNoObject'
  BY <1>1 DEF IInv, TypeOK, ObjectInv, ReapedLeavesNoObject
<1> QED
  BY <1>2, <1>3, <1>4, <1>5, <1>6 DEF ObjectInv

\* A request that ends without touching row or object.
LEMMA EndKeepsObjects ==
    ASSUME IInv, ObjectInv, NEW r \in Requests, Finish(r),
           UNCHANGED <<row, object, age, todo, reaping, backend, unheard, cleared>>
    PROVE  ObjectInv'
<1>1. /\ \A q \in Requests : /\ pc'[q] = IF q = r THEN "idle" ELSE pc[q]
                             /\ file'[q] = IF q = r THEN None ELSE file[q]
                             /\ len'[q] = IF q = r THEN 0 ELSE len[q]
      /\ UNCHANGED <<row, object, age, todo, reaping, backend, unheard, cleared>>
  BY DEF Finish, IInv, TypeOK
<1>2. ReapsStale' /\ WritersAreInTime'
  BY <1>1 DEF IInv, TypeOK, ObjectInv, ReapsStale, WritersAreInTime
<1>3. UndoHasNoRow' /\ DeletesTombstoned'
  BY <1>1, UploadNoneAssumption
  DEF IInv, TypeOK, BusyHasFile, ObjectInv, UndoHasNoRow, DeletesTombstoned
<1>4. LocalIsChecked'
  BY <1>1, UploadNoneAssumption, UploadBoundsAssumption
  DEF IInv, TypeOK, BusyHasFile, NoRowIsBlank, NoRow, InsertOwnsId, ChosenRowExists,
      ObjectInv, LocalIsChecked
<1>5. InsertHasObject' /\ FlipHasObject' /\ ReadableHasObject'
  BY <1>1
  DEF IInv, TypeOK, ObjectInv, InsertHasObject, FlipHasObject, ReadableHasObject, Readable
<1>6. ReapedLeavesNoObject'
  BY <1>1 DEF IInv, TypeOK, ObjectInv, ReapedLeavesNoObject
<1> QED
  BY <1>2, <1>3, <1>4, <1>5, <1>6 DEF ObjectInv

\* The INSERT fails.
LEMMA SaveInsertFailsKeepsObjects ==
    ASSUME IInv, ObjectInv, NEW r \in Requests, SaveInsertFails(r), UNCHANGED backend
    PROVE  ObjectInv'
<1>1. /\ \A q \in Requests : /\ pc'[q] = IF q = r THEN "undo" ELSE pc[q]
                             /\ file'[q] = IF q = r THEN file[q] ELSE file[q]
                             /\ len'[q] = IF q = r THEN len[q] ELSE len[q]
      /\ UNCHANGED <<object, age, todo, reaping, backend, cleared>>
      /\ pc[r] = "insert" /\ file[r] \in FileIds /\ unheard \subseteq unheard'
      /\ \A g \in FileIds \ {file[r]} : row'[g] = row[g]
      /\ row'[file[r]] # row[file[r]] =>
            row'[file[r]].status = "ready" /\ file[r] \in unheard'
  <2>1. pc[r] = "insert" /\ file[r] \in FileIds
    BY DEF SaveInsertFails, IInv, BusyHasFile
  <2>2. /\ \A g \in FileIds \ {file[r]} : row'[g] = row[g]
        /\ row'[file[r]] # row[file[r]] =>
              row'[file[r]].status = "ready" /\ file[r] \in unheard'
    <3>1. CASE UNCHANGED row
      BY <3>1
    <3>2. CASE Insert(r) /\ unheard' = unheard \cup {file[r]}
      <4>1. row'[file[r]].status = "ready" /\ row' = [row EXCEPT ![file[r]] = row'[file[r]]]
        BY <2>1, <3>2, InsertRow DEF IInv
      <4> QED
        BY <2>1, <3>2, <4>1 DEF IInv, TypeOK
    <3> QED
      BY <3>1, <3>2 DEF SaveInsertFails
  <2> QED
    BY <2>1, <2>2 DEF SaveInsertFails, Goto, reaperVars, IInv, TypeOK
<1>2. ReapsStale' /\ WritersAreInTime'
  BY <1>1 DEF IInv, TypeOK, ObjectInv, ReapsStale, WritersAreInTime
<1>3. UndoHasNoRow' /\ DeletesTombstoned'
  BY <1>1, UploadNoneAssumption
  DEF IInv, TypeOK, BusyHasFile, InsertOwnsId, ChosenRowExists, ObjectInv, UndoHasNoRow,
      DeletesTombstoned, OnRows
<1>4. LocalIsChecked'
  BY <1>1 DEF IInv, TypeOK, ObjectInv, LocalIsChecked
<1>5. InsertHasObject' /\ FlipHasObject' /\ ReadableHasObject'
  <2>1. InsertHasObject'
    BY <1>1 DEF IInv, TypeOK, ObjectInv, InsertHasObject
  <2>2. FlipHasObject'
    BY <1>1 DEF IInv, TypeOK, BusyHasFile, InsertOwnsId, ObjectInv, FlipHasObject
  <2>3. ReadableHasObject'
    BY <1>1 DEF IInv, TypeOK, ObjectInv, ReadableHasObject, Readable
  <2> QED
    BY <2>1, <2>2, <2>3
<1>6. ReapedLeavesNoObject'
  BY <1>1 DEF IInv, TypeOK, ObjectInv, ReapedLeavesNoObject
<1> QED
  BY <1>2, <1>3, <1>4, <1>5, <1>6 DEF ObjectInv

\* An upload is undone, or a deletion removes its object.
LEMMA RemoveKeepsObjects ==
    ASSUME IInv, ObjectInv, NEW r \in Requests, SaveUndo(r) \/ DeleteStored(r), UNCHANGED backend
    PROVE  ObjectInv'
<1>1. /\ \A q \in Requests : /\ pc'[q] = IF q = r THEN "idle" ELSE pc[q]
                             /\ file'[q] = IF q = r THEN None ELSE file[q]
                             /\ len'[q] = IF q = r THEN 0 ELSE len[q]
      /\ UNCHANGED <<row, age, todo, reaping, backend, unheard, cleared>>
      /\ pc[r] \in {"undo", "dropObject"} /\ file[r] \in FileIds
      /\ object'[file[r]] \in {object[file[r]], None}
      /\ \A g \in FileIds \ {file[r]} : object'[g] = object[g]
  BY DEF SaveUndo, DeleteStored, DeleteObject, Put, Fault, Finish, BusyHasFile, reaperVars,
         IInv, TypeOK
<1>2. ReapsStale' /\ WritersAreInTime'
  BY <1>1 DEF IInv, TypeOK, ObjectInv, ReapsStale, WritersAreInTime
<1>3. UndoHasNoRow' /\ DeletesTombstoned'
  BY <1>1, UploadNoneAssumption
  DEF IInv, TypeOK, BusyHasFile, ObjectInv, UndoHasNoRow, DeletesTombstoned
<1>4. LocalIsChecked'
  BY <1>1, UploadNoneAssumption, UploadBoundsAssumption
  DEF IInv, TypeOK, BusyHasFile, NoRowIsBlank, NoRow, InsertOwnsId, ChosenRowExists,
      ObjectInv, LocalIsChecked
<1>5. InsertHasObject' /\ FlipHasObject' /\ ReadableHasObject'
  BY <1>1, UploadNoneAssumption, UploadBoundsAssumption
  DEF IInv, TypeOK, BusyHasFile, NoRowIsBlank, NoRow, InsertOwnsId, ChosenRowExists,
      ObjectInv, InsertHasObject, FlipHasObject, ReadableHasObject, Readable, UndoHasNoRow,
      DeletesTombstoned, LocalIsChecked, ReapsStale, OnRows
<1>6. ReapedLeavesNoObject'
  BY <1>1 DEF IInv, TypeOK, ObjectInv, ReapedLeavesNoObject
<1> QED
  BY <1>2, <1>3, <1>4, <1>5, <1>6 DEF ObjectInv

\* A signed upload begins to write.
LEMMA TruncateKeepsObjects ==
    ASSUME IInv, ObjectInv, NEW r \in Requests, SignedPutTruncate(r), UNCHANGED backend
    PROVE  ObjectInv'
<1>1. /\ \A q \in Requests : /\ pc'[q] = IF q = r THEN "write" ELSE pc[q]
                             /\ file'[q] = IF q = r THEN file[q] ELSE file[q]
                             /\ len'[q] = IF q = r THEN len[q] ELSE len[q]
      /\ UNCHANGED <<row, age, todo, reaping, backend, unheard, cleared>>
      /\ pc[r] = "truncate" /\ file[r] \in FileIds
      /\ \A g \in FileIds : object'[g] = IF g = file[r] THEN 0 ELSE object[g]
  BY DEF SignedPutTruncate, Put, Goto, BusyHasFile, reaperVars, IInv, TypeOK
<1>2. ReapsStale' /\ WritersAreInTime'
  BY <1>1 DEF IInv, TypeOK, ObjectInv, ReapsStale, WritersAreInTime
<1>3. UndoHasNoRow' /\ DeletesTombstoned'
  BY <1>1 DEF IInv, TypeOK, ObjectInv, UndoHasNoRow, DeletesTombstoned
<1>4. LocalIsChecked'
  BY <1>1, UploadNoneAssumption, UploadBoundsAssumption
  DEF IInv, TypeOK, BusyHasFile, NoRowIsBlank, NoRow, InsertOwnsId, ChosenRowExists,
      ObjectInv, LocalIsChecked
<1>5. InsertHasObject' /\ FlipHasObject' /\ ReadableHasObject'
  BY <1>1, UploadNoneAssumption
  DEF IInv, TypeOK, BusyHasFile, ObjectInv, InsertHasObject, FlipHasObject, ReadableHasObject,
      Readable
<1>6. ReapedLeavesNoObject'
  BY <1>1
  DEF IInv, TypeOK, BusyHasFile, ChosenRowExists, OnRows, ObjectInv, ReapedLeavesNoObject, ReapsStale,
      WritersAreInTime
<1> QED
  BY <1>2, <1>3, <1>4, <1>5, <1>6 DEF ObjectInv

\* It has written.
LEMMA WriteKeepsObjects ==
    ASSUME IInv, ObjectInv, NEW r \in Requests, SignedPutWrite(r), UNCHANGED backend
    PROVE  ObjectInv'
<1>1. /\ \A q \in Requests : /\ pc'[q] = IF q = r THEN "idle" ELSE pc[q]
                             /\ file'[q] = IF q = r THEN None ELSE file[q]
                             /\ len'[q] = IF q = r THEN 0 ELSE len[q]
      /\ UNCHANGED <<row, age, todo, reaping, backend, unheard, cleared>>
      /\ pc[r] = "write" /\ file[r] \in FileIds /\ len[r] \in Nat
      /\ \A g \in FileIds : object'[g] = IF g = file[r] THEN len[r] ELSE object[g]
  BY DEF SignedPutWrite, Put, Finish, BusyHasFile, reaperVars, Lengths, IInv, TypeOK
<1>2. ReapsStale' /\ WritersAreInTime'
  BY <1>1 DEF IInv, TypeOK, ObjectInv, ReapsStale, WritersAreInTime
<1>3. UndoHasNoRow' /\ DeletesTombstoned'
  BY <1>1, UploadNoneAssumption
  DEF IInv, TypeOK, BusyHasFile, ObjectInv, UndoHasNoRow, DeletesTombstoned
<1>4. LocalIsChecked'
  BY <1>1, UploadNoneAssumption, UploadBoundsAssumption
  DEF IInv, TypeOK, BusyHasFile, NoRowIsBlank, NoRow, InsertOwnsId, ChosenRowExists,
      ObjectInv, LocalIsChecked
<1>5. InsertHasObject' /\ FlipHasObject' /\ ReadableHasObject'
  BY <1>1, UploadNoneAssumption
  DEF IInv, TypeOK, BusyHasFile, ObjectInv, InsertHasObject, FlipHasObject, ReadableHasObject,
      Readable
<1>6. ReapedLeavesNoObject'
  BY <1>1
  DEF IInv, TypeOK, BusyHasFile, ChosenRowExists, OnRows, ObjectInv, ReapedLeavesNoObject, ReapsStale,
      WritersAreInTime
<1> QED
  BY <1>2, <1>3, <1>4, <1>5, <1>6 DEF ObjectInv

\* A completion finds an object to publish, or one over the limit.
LEMMA HeadKeepsObjects ==
    ASSUME IInv, ObjectInv, NEW r \in Requests, CompleteHead(r), UNCHANGED backend,
           HeadVerdict(object[file[r]]) # "idle"
    PROVE  ObjectInv'
<1>1. PICK l \in {"flip", "drop"}, n \in Lengths :
        /\ \A q \in Requests : /\ pc'[q] = IF q = r THEN l ELSE pc[q]
                               /\ file'[q] = IF q = r THEN file[q] ELSE file[q]
                               /\ len'[q] = IF q = r THEN n ELSE len[q]
        /\ UNCHANGED <<row, object, age, todo, reaping, backend, unheard, cleared>>
        /\ pc[r] = "head" /\ file[r] \in FileIds
        /\ object[file[r]] \in Nat /\ n # None
        /\ l = "flip" => object[file[r]] = n /\ n <= MaxBytes
        /\ l = "drop" => n = len[r] /\ object[file[r]] > MaxBytes
  <2>1. /\ pc[r] = "head" /\ file[r] \in FileIds /\ len[r] \in Lengths
        /\ UNCHANGED <<row, object, age, todo, reaping, backend, unheard, cleared>>
        /\ object[file[r]] \in Lengths \cup {None}
    BY DEF CompleteHead, BusyHasFile, store, reaperVars, IInv, TypeOK
  <2>2. CASE HeadVerdict(object[file[r]]) = "flip"
    <3>1. /\ object[file[r]] \in Lengths /\ object[file[r]] \in Nat
          /\ object[file[r]] <= MaxBytes
      BY <2>1, <2>2, UploadNoneAssumption, UploadBoundsAssumption DEF HeadVerdict, Lengths
    <3>2. /\ pc' = [pc EXCEPT ![r] = "flip"] /\ len' = [len EXCEPT ![r] = object[file[r]]]
          /\ UNCHANGED file
      BY <2>2 DEF CompleteHead
    <3> QED
      BY <2>1, <3>1, <3>2, UploadNoneAssumption DEF IInv, TypeOK
  <2>3. CASE HeadVerdict(object[file[r]]) = "drop"
    <3>1. object[file[r]] \in Nat /\ object[file[r]] > MaxBytes /\ len[r] \in Nat
      BY <2>1, <2>3, UploadNoneAssumption, UploadBoundsAssumption DEF HeadVerdict, Lengths
    <3>2. pc' = [pc EXCEPT ![r] = "drop"] /\ UNCHANGED <<file, len>>
      BY <2>3 DEF CompleteHead, Goto
    <3> QED
      BY <2>1, <3>1, <3>2, UploadNoneAssumption DEF IInv, TypeOK
  <2> QED
    BY <2>2, <2>3 DEF HeadVerdict
<1>2. ReapsStale' /\ WritersAreInTime'
  BY <1>1 DEF IInv, TypeOK, ObjectInv, ReapsStale, WritersAreInTime
<1>3. UndoHasNoRow' /\ DeletesTombstoned'
  BY <1>1 DEF IInv, TypeOK, ObjectInv, UndoHasNoRow, DeletesTombstoned
<1>4. LocalIsChecked'
  BY <1>1, UploadNoneAssumption, UploadBoundsAssumption
  DEF IInv, TypeOK, BusyHasFile, NoRowIsBlank, NoRow, InsertOwnsId, ChosenRowExists,
      ObjectInv, LocalIsChecked
<1>5. InsertHasObject' /\ FlipHasObject' /\ ReadableHasObject'
  <2>1. InsertHasObject'
    BY <1>1, UploadNoneAssumption
    DEF IInv, TypeOK, BusyHasFile, ObjectInv, InsertHasObject
  <2>2. FlipHasObject'
    BY <1>1, UploadNoneAssumption
    DEF IInv, TypeOK, BusyHasFile, ObjectInv, FlipHasObject, ChosenRowExists, OnRows
  <2>3. ReadableHasObject'
    BY <1>1, UploadNoneAssumption
    DEF IInv, TypeOK, BusyHasFile, ObjectInv, ReadableHasObject, Readable, InsertHasObject
  <2> QED
    BY <2>1, <2>2, <2>3
<1>6. ReapedLeavesNoObject'
  BY <1>1 DEF IInv, TypeOK, ObjectInv, ReapedLeavesNoObject
<1> QED
  BY <1>2, <1>3, <1>4, <1>5, <1>6 DEF ObjectInv

\* A completion publishes the file.
LEMMA FlipKeepsObjects ==
    ASSUME IInv, ObjectInv, NEW r \in Requests, CompleteFlip(r), UNCHANGED backend
    PROVE  ObjectInv'
<1>1. /\ \A q \in Requests : /\ pc'[q] = IF q = r THEN "idle" ELSE pc[q]
                             /\ file'[q] = IF q = r THEN None ELSE file[q]
                             /\ len'[q] = IF q = r THEN 0 ELSE len[q]
      /\ UNCHANGED <<object, age, todo, reaping, backend, unheard, cleared>>
      /\ pc[r] = "flip" /\ file[r] \in FileIds
      /\ row'[file[r]].deleted = row[file[r]].deleted
      /\ row'[file[r]] # row[file[r]] => row[file[r]].status = "pending"
      /\ row'[file[r]] # row[file[r]] => row'[file[r]].status = "ready"
      /\ \A g \in FileIds \ {file[r]} : row'[g] = row[g]
  BY DEF CompleteFlip, Completed, Flips, Finish, BusyHasFile, reaperVars, IInv, TypeOK
<1>0. \A g \in FileIds : /\ row[g].status = "none" <=> row'[g].status = "none"
                         /\ row'[g].deleted = row[g].deleted
  BY <1>1
<1>2. ReapsStale' /\ WritersAreInTime'
  <2>1. \A f \in cleared : row'[f].status # "none"
    BY <1>0 DEF IInv, TypeOK, ObjectInv, ReapsStale
  <2> QED
    BY <1>1, <2>1 DEF IInv, TypeOK, ObjectInv, ReapsStale, WritersAreInTime
<1>3. UndoHasNoRow' /\ DeletesTombstoned'
  BY <1>0, <1>1, UploadNoneAssumption
  DEF IInv, TypeOK, BusyHasFile, ObjectInv, UndoHasNoRow, DeletesTombstoned
<1>4. LocalIsChecked'
  BY <1>1, UploadNoneAssumption, UploadBoundsAssumption
  DEF IInv, TypeOK, BusyHasFile, NoRowIsBlank, NoRow, InsertOwnsId, ChosenRowExists,
      ObjectInv, LocalIsChecked
<1>5. InsertHasObject' /\ FlipHasObject' /\ ReadableHasObject'
  <2>1. InsertHasObject'
    BY <1>1 DEF IInv, TypeOK, ObjectInv, InsertHasObject
  <2>2. FlipHasObject'
    BY <1>0, <1>1 DEF IInv, TypeOK, BusyHasFile, ObjectInv, FlipHasObject
  <2>3. ReadableHasObject'
    <3>1. ASSUME NEW g \in FileIds \ unheard, row'[g].status = "ready", ~row'[g].deleted,
                 age[g] # "stale", backend = "local"
          PROVE  object[g] # None
      <4>1. ~row[g].deleted
        BY <1>0, <3>1
      <4>2. CASE g = file[r]
        BY <1>1, <3>1, <4>1, <4>2 DEF ObjectInv, FlipHasObject
      <4>3. CASE g # file[r]
        BY <1>1, <3>1, <4>3 DEF ObjectInv, ReadableHasObject, Readable
      <4> QED
        BY <4>2, <4>3
    <3> QED
      BY <1>1, <3>1 DEF ReadableHasObject, Readable
  <2> QED
    BY <2>1, <2>2, <2>3
<1>6. ReapedLeavesNoObject'
  BY <1>1 DEF IInv, TypeOK, ObjectInv, ReapedLeavesNoObject
<1> QED
  BY <1>2, <1>3, <1>4, <1>5, <1>6 DEF ObjectInv

\* A completion removes an object over the limit.
LEMMA DropKeepsObjects ==
    ASSUME IInv, ObjectInv, NEW r \in Requests, CompleteDrop(r), UNCHANGED backend
    PROVE  ObjectInv'
<1>1. /\ \A q \in Requests : /\ pc'[q] = IF q = r THEN "tombstone" ELSE pc[q]
                             /\ file'[q] = IF q = r THEN file[q] ELSE file[q]
                             /\ len'[q] = IF q = r THEN len[q] ELSE len[q]
      /\ UNCHANGED <<row, age, todo, reaping, backend, unheard, cleared>>
      /\ pc[r] = "drop" /\ file[r] \in FileIds
      /\ object'[file[r]] \in {object[file[r]], None}
      /\ \A g \in FileIds \ {file[r]} : object'[g] = object[g]
  BY DEF CompleteDrop, DeleteObject, Put, Fault, Goto, BusyHasFile, reaperVars, IInv, TypeOK
<1>2. ReapsStale' /\ WritersAreInTime'
  BY <1>1 DEF IInv, TypeOK, ObjectInv, ReapsStale, WritersAreInTime
<1>3. UndoHasNoRow' /\ DeletesTombstoned'
  BY <1>1 DEF IInv, TypeOK, ObjectInv, UndoHasNoRow, DeletesTombstoned
<1>4. LocalIsChecked'
  BY <1>1 DEF IInv, TypeOK, ObjectInv, LocalIsChecked
<1>5. InsertHasObject' /\ FlipHasObject' /\ ReadableHasObject'
  BY <1>1, UploadNoneAssumption, UploadBoundsAssumption
  DEF IInv, TypeOK, BusyHasFile, NoRowIsBlank, NoRow, InsertOwnsId, ChosenRowExists,
      ObjectInv, InsertHasObject, FlipHasObject, ReadableHasObject, Readable, UndoHasNoRow,
      DeletesTombstoned, LocalIsChecked, ReapsStale, OnRows
<1>6. ReapedLeavesNoObject'
  BY <1>1 DEF IInv, TypeOK, ObjectInv, ReapedLeavesNoObject
<1> QED
  BY <1>2, <1>3, <1>4, <1>5, <1>6 DEF ObjectInv

\* And its row.
LEMMA TombstoneKeepsObjects ==
    ASSUME IInv, ObjectInv, NEW r \in Requests, CompleteTombstone(r), UNCHANGED backend
    PROVE  ObjectInv'
<1>1. /\ \A q \in Requests : /\ pc'[q] = IF q = r THEN "idle" ELSE pc[q]
                             /\ file'[q] = IF q = r THEN None ELSE file[q]
                             /\ len'[q] = IF q = r THEN 0 ELSE len[q]
      /\ UNCHANGED <<object, age, todo, reaping, backend, unheard, cleared>>
      /\ pc[r] = "tombstone" /\ file[r] \in FileIds
      /\ row'[file[r]].deleted /\ row'[file[r]].status = row[file[r]].status
      /\ \A g \in FileIds \ {file[r]} : row'[g] = row[g]
  BY TombstoneRow DEF CompleteTombstone, Finish, BusyHasFile, reaperVars, IInv, TypeOK
<1>2. ReapsStale' /\ WritersAreInTime'
  BY <1>1 DEF IInv, TypeOK, ObjectInv, ReapsStale, WritersAreInTime
<1>3. UndoHasNoRow' /\ DeletesTombstoned'
  <2>1. UndoHasNoRow'
    BY <1>1, UploadNoneAssumption
    DEF IInv, TypeOK, BusyHasFile, ObjectInv, UndoHasNoRow, ChosenRowExists, OnRows
  <2>2. DeletesTombstoned'
    BY <1>1, UploadNoneAssumption
    DEF IInv, TypeOK, BusyHasFile, ObjectInv, DeletesTombstoned
  <2> QED
    BY <2>1, <2>2
<1>4. LocalIsChecked'
  BY <1>1, UploadNoneAssumption, UploadBoundsAssumption
  DEF IInv, TypeOK, BusyHasFile, NoRowIsBlank, NoRow, InsertOwnsId, ChosenRowExists,
      ObjectInv, LocalIsChecked
<1>5. InsertHasObject' /\ FlipHasObject' /\ ReadableHasObject'
  <2>1. InsertHasObject'
    BY <1>1, UploadNoneAssumption
    DEF IInv, TypeOK, BusyHasFile, ObjectInv, InsertHasObject
  <2>2. FlipHasObject'
    BY <1>1, UploadNoneAssumption
    DEF IInv, TypeOK, BusyHasFile, ObjectInv, FlipHasObject, ChosenRowExists, OnRows
  <2>3. ReadableHasObject'
    BY <1>1, UploadNoneAssumption
    DEF IInv, TypeOK, BusyHasFile, ObjectInv, ReadableHasObject, Readable, InsertHasObject
  <2> QED
    BY <2>1, <2>2, <2>3
<1>6. ReapedLeavesNoObject'
  BY <1>1 DEF IInv, TypeOK, ObjectInv, ReapedLeavesNoObject
<1> QED
  BY <1>2, <1>3, <1>4, <1>5, <1>6 DEF ObjectInv

\* A reservation.
LEMMA ReserveKeepsObjects ==
    ASSUME IInv, ObjectInv, NEW f \in FileIds, Reserve(f), UNCHANGED backend
    PROVE  ObjectInv'
<1>1. /\ UNCHANGED <<object, age, pc, file, len, todo, reaping, backend, unheard, cleared>>
      /\ row[f].status = "none" /\ row'[f].status = "pending"
      /\ \A q \in Requests : file[q] # f
      /\ \A g \in FileIds \ {f} : row'[g] = row[g]
  BY DEF Reserve, Unused, requestVars, reaperVars, IInv, TypeOK
<1>2. ReapsStale' /\ WritersAreInTime'
  BY <1>1 DEF IInv, TypeOK, ObjectInv, ReapsStale, WritersAreInTime
<1>3. UndoHasNoRow' /\ DeletesTombstoned'
  BY <1>1 DEF IInv, TypeOK, BusyHasFile, ObjectInv, UndoHasNoRow, DeletesTombstoned
<1>4. LocalIsChecked'
  BY <1>1 DEF IInv, TypeOK, ObjectInv, LocalIsChecked
<1>5. InsertHasObject' /\ FlipHasObject' /\ ReadableHasObject'
  BY <1>1
  DEF IInv, TypeOK, BusyHasFile, ObjectInv, InsertHasObject, FlipHasObject, ReadableHasObject,
      Readable
<1>6. ReapedLeavesNoObject'
  BY <1>1 DEF IInv, TypeOK, ObjectInv, ReapedLeavesNoObject
<1> QED
  BY <1>2, <1>3, <1>4, <1>5, <1>6 DEF ObjectInv

\* A PUT to the backend begins, under a URL that is still valid, or lands.
LEMMA NativePutKeepsObjects ==
    ASSUME IInv, ObjectInv, NEW f \in FileIds, NEW n \in Lengths, UNCHANGED backend,
           NativePutStart(f, n) \/ NativePutLands(f, n)
    PROVE  ObjectInv'
<1>1. /\ UNCHANGED <<row, age, pc, file, len, todo, reaping, backend, unheard, cleared>>
      /\ backend # "local"
      /\ \A g \in FileIds : object'[g] = object[g] \/ object'[g] # None
  BY UploadNoneAssumption, UploadBoundsAssumption
  DEF NativePutStart, NativePutLands, NativePresign, Put, store, requestVars, reaperVars, Lengths,
      IInv, TypeOK
<1>2. ReapsStale' /\ WritersAreInTime'
  BY <1>1 DEF IInv, TypeOK, ObjectInv, ReapsStale, WritersAreInTime
<1>3. UndoHasNoRow' /\ DeletesTombstoned'
  BY <1>1 DEF IInv, TypeOK, ObjectInv, UndoHasNoRow, DeletesTombstoned
<1>4. LocalIsChecked' /\ ReapedLeavesNoObject'
  BY <1>1 DEF ObjectInv, LocalIsChecked, ReapedLeavesNoObject
<1>5. InsertHasObject' /\ FlipHasObject' /\ ReadableHasObject'
  BY <1>1
  DEF IInv, TypeOK, BusyHasFile, ObjectInv, InsertHasObject, FlipHasObject, ReadableHasObject,
      Readable
<1> QED
  BY <1>2, <1>3, <1>4, <1>5 DEF ObjectInv

\* Time passes.
LEMMA GrowOlderKeepsObjects ==
    ASSUME IInv, ObjectInv, NEW f \in FileIds, GrowOlder(f), UNCHANGED backend
    PROVE  ObjectInv'
<1>1. /\ UNCHANGED <<row, object, pc, file, len, todo, reaping, backend, unheard, cleared>>
      /\ age[f] # "stale" /\ (age'[f] = "stale" => ~Writing(f))
      /\ \A g \in FileIds \ {f} : age'[g] = age[g]
  BY DEF GrowOlder, store, requestVars, reaperVars, IInv, TypeOK
<1>2. ReapsStale' /\ WritersAreInTime'
  <2>1. ReapsStale'
    BY <1>1, UploadNoneAssumption
    DEF IInv, TypeOK, BusyHasFile, ObjectInv, ReapsStale
  <2>2. WritersAreInTime'
    BY <1>1, UploadNoneAssumption
    DEF IInv, TypeOK, BusyHasFile, ObjectInv, WritersAreInTime, Writing
  <2> QED
    BY <2>1, <2>2
<1>3. UndoHasNoRow' /\ DeletesTombstoned'
  BY <1>1 DEF IInv, TypeOK, ObjectInv, UndoHasNoRow, DeletesTombstoned
<1>4. LocalIsChecked'
  BY <1>1 DEF IInv, TypeOK, ObjectInv, LocalIsChecked
<1>5. InsertHasObject' /\ FlipHasObject' /\ ReadableHasObject'
  BY <1>1
  DEF IInv, TypeOK, BusyHasFile, ObjectInv, InsertHasObject, FlipHasObject, ReadableHasObject,
      Readable
<1>6. ReapedLeavesNoObject'
  BY <1>1 DEF IInv, TypeOK, ObjectInv, ReapedLeavesNoObject
<1> QED
  BY <1>2, <1>3, <1>4, <1>5, <1>6 DEF ObjectInv

\* The reaper looks for stale uploads.
LEMMA ReapSelectKeepsObjects ==
    ASSUME IInv, ObjectInv, ReapSelect, UNCHANGED backend
    PROVE  ObjectInv'
<1>1. /\ UNCHANGED <<row, object, age, pc, file, len, reaping, backend, unheard, cleared>>
      /\ \A f \in todo' : f \in FileIds /\ age[f] = "stale"
  BY DEF ReapSelect, Abandoned, store, requestVars
<1>2. ReapsStale' /\ WritersAreInTime'
  BY <1>1 DEF IInv, TypeOK, ObjectInv, ReapsStale, WritersAreInTime
<1>3. UndoHasNoRow' /\ DeletesTombstoned'
  BY <1>1 DEF IInv, TypeOK, ObjectInv, UndoHasNoRow, DeletesTombstoned
<1>4. LocalIsChecked'
  BY <1>1 DEF IInv, TypeOK, ObjectInv, LocalIsChecked
<1>5. InsertHasObject' /\ FlipHasObject' /\ ReadableHasObject'
  BY <1>1
  DEF IInv, TypeOK, ObjectInv, InsertHasObject, FlipHasObject, ReadableHasObject, Readable
<1>6. ReapedLeavesNoObject'
  BY <1>1 DEF IInv, TypeOK, ObjectInv, ReapedLeavesNoObject
<1> QED
  BY <1>2, <1>3, <1>4, <1>5, <1>6 DEF ObjectInv

\* The reaper removes an object.
LEMMA ReapObjectKeepsObjects ==
    ASSUME IInv, ObjectInv, NEW f \in FileIds, ReapObject(f), UNCHANGED backend
    PROVE  ObjectInv'
<1>1. /\ UNCHANGED <<row, age, pc, file, len, backend, unheard>>
      /\ f \in todo /\ todo' \subseteq todo /\ reaping' = f
      /\ object'[f] \in {object[f], None}
      /\ cleared' = IF object'[f] = None THEN cleared \cup {f} ELSE cleared \ {f}
      /\ \A g \in FileIds \ {f} : object'[g] = object[g]
  BY DEF ReapObject, DeleteObject, Put, Fault, requestVars, IInv, TypeOK
<1>2. ReapsStale' /\ WritersAreInTime'
  BY <1>1 DEF IInv, TypeOK, ChosenRowExists, ObjectInv, ReapsStale, WritersAreInTime
<1>3. UndoHasNoRow' /\ DeletesTombstoned'
  BY <1>1 DEF IInv, TypeOK, ObjectInv, UndoHasNoRow, DeletesTombstoned
<1>4. LocalIsChecked'
  BY <1>1 DEF IInv, TypeOK, ObjectInv, LocalIsChecked
<1>5. InsertHasObject' /\ FlipHasObject' /\ ReadableHasObject'
  BY <1>1, UploadNoneAssumption, UploadBoundsAssumption
  DEF IInv, TypeOK, BusyHasFile, NoRowIsBlank, NoRow, InsertOwnsId, ChosenRowExists,
      ObjectInv, InsertHasObject, FlipHasObject, ReadableHasObject, Readable, UndoHasNoRow,
      DeletesTombstoned, LocalIsChecked, ReapsStale, OnRows
<1>6. ReapedLeavesNoObject'
  BY <1>1 DEF IInv, TypeOK, ObjectInv, ReapedLeavesNoObject
<1> QED
  BY <1>2, <1>3, <1>4, <1>5, <1>6 DEF ObjectInv

\* And its row.
LEMMA ReapRowKeepsObjects ==
    ASSUME IInv, ObjectInv, ReapRow, UNCHANGED backend
    PROVE  ObjectInv'
<1>1. /\ UNCHANGED <<object, age, pc, file, len, todo, backend, unheard, cleared>>
      /\ reaping \in FileIds /\ reaping' = None
      /\ row'[reaping].deleted /\ row'[reaping].status = row[reaping].status
      /\ \A g \in FileIds \ {reaping} : row'[g] = row[g]
  BY TombstoneRow DEF ReapRow, requestVars, IInv, TypeOK
<1>2. ReapsStale' /\ WritersAreInTime'
  BY <1>1 DEF IInv, TypeOK, ObjectInv, ReapsStale, WritersAreInTime
<1>3. UndoHasNoRow' /\ DeletesTombstoned'
  BY <1>1 DEF IInv, TypeOK, BusyHasFile, ObjectInv, UndoHasNoRow, DeletesTombstoned
<1>4. LocalIsChecked'
  BY <1>1 DEF IInv, TypeOK, ObjectInv, LocalIsChecked
<1>5. InsertHasObject' /\ FlipHasObject' /\ ReadableHasObject'
  <2>1. InsertHasObject'
    BY <1>1, UploadNoneAssumption
    DEF IInv, TypeOK, BusyHasFile, ObjectInv, InsertHasObject
  <2>2. FlipHasObject'
    BY <1>1, UploadNoneAssumption
    DEF IInv, TypeOK, BusyHasFile, ObjectInv, FlipHasObject, ChosenRowExists, OnRows
  <2>3. ReadableHasObject'
    BY <1>1, UploadNoneAssumption
    DEF IInv, TypeOK, BusyHasFile, ObjectInv, ReadableHasObject, Readable, InsertHasObject
  <2> QED
    BY <2>1, <2>2, <2>3
<1>6. ReapedLeavesNoObject'
  BY <1>1 DEF IInv, TypeOK, ObjectInv, ReapedLeavesNoObject
<1> QED
  BY <1>2, <1>3, <1>4, <1>5, <1>6 DEF ObjectInv

\* The reaper fails or stops; or nothing happens.
LEMMA LetGoKeepsObjects ==
    ASSUME IInv, ObjectInv, ReapRowFails \/ ReaperCrashes \/ UNCHANGED vars, UNCHANGED backend
    PROVE  ObjectInv'
<1>1. /\ UNCHANGED <<row, object, age, pc, file, len, backend, unheard, cleared>>
      /\ todo' \subseteq todo /\ reaping' \in {None, reaping}
  BY DEF ReapRowFails, ReaperCrashes, Fault, vars, store, requestVars, reaperVars, IInv, TypeOK
<1>2. ReapsStale' /\ WritersAreInTime'
  BY <1>1 DEF IInv, TypeOK, ObjectInv, ReapsStale, WritersAreInTime
<1>3. UndoHasNoRow' /\ DeletesTombstoned'
  BY <1>1 DEF IInv, TypeOK, ObjectInv, UndoHasNoRow, DeletesTombstoned
<1>4. LocalIsChecked'
  BY <1>1 DEF IInv, TypeOK, ObjectInv, LocalIsChecked
<1>5. InsertHasObject' /\ FlipHasObject' /\ ReadableHasObject'
  BY <1>1
  DEF IInv, TypeOK, ObjectInv, InsertHasObject, FlipHasObject, ReadableHasObject, Readable
<1>6. ReapedLeavesNoObject'
  BY <1>1 DEF IInv, TypeOK, ObjectInv, ReapedLeavesNoObject
<1> QED
  BY <1>2, <1>3, <1>4, <1>5, <1>6 DEF ObjectInv

\* No step disturbs what is known of the objects.
LEMMA NextKeepsObjects == ASSUME IInv, ObjectInv, [Next]_vars PROVE ObjectInv'
<1>1. ASSUME NEW r \in Requests, NEW f \in FileIds, Arrive(r, f), UNCHANGED backend
      PROVE  ObjectInv'
  <2>1. 0 \in 0..MaxBytes
    BY UploadBoundsAssumption
  <2> QED
    BY <1>1, <2>1, SavePutKeepsObjects, ReadKeepsObjects, DeleteRowKeepsObjects DEF Arrive
<1>2. ASSUME NEW r \in Requests, Proceed(r), UNCHANGED backend
      PROVE  ObjectInv'
  <2>1. CASE SaveInsert(r) \/ SaveInsertFails(r) \/ SaveUndo(r) \/ DeleteStored(r)
    BY <1>2, <2>1, SaveInsertKeepsObjects, SaveInsertFailsKeepsObjects, RemoveKeepsObjects
  <2>2. CASE SaveBadVisibility(r)
    BY <1>2, <2>2, EndKeepsObjects DEF SaveBadVisibility, store, reaperVars, IInv, TypeOK
  <2>3. CASE SignedPutTruncate(r) \/ SignedPutWrite(r)
    BY <1>2, <2>3, TruncateKeepsObjects, WriteKeepsObjects
  <2>4. CASE CompleteHead(r)
    <3>1. CASE HeadVerdict(object[file[r]]) = "idle"
      <4>1. Finish(r) /\ UNCHANGED <<row, object, age, todo, reaping, unheard, cleared>>
        BY <2>4, <3>1 DEF CompleteHead, store, reaperVars
      <4> QED
        BY <1>2, <4>1, EndKeepsObjects
    <3>2. CASE HeadVerdict(object[file[r]]) # "idle"
      BY <1>2, <2>4, <3>2, HeadKeepsObjects
    <3> QED
      BY <3>1, <3>2
  <2>5. CASE CompleteFlip(r) \/ CompleteDrop(r) \/ CompleteTombstone(r)
    BY <1>2, <2>5, FlipKeepsObjects, DropKeepsObjects, TombstoneKeepsObjects
  <2> QED
    BY <1>2, <2>1, <2>2, <2>3, <2>4, <2>5 DEF Proceed
<1>3. ASSUME NEW r \in Requests, RequestDies(r), UNCHANGED backend
      PROVE  ObjectInv'
  BY <1>3, EndKeepsObjects DEF RequestDies, Fault, store, reaperVars, IInv, TypeOK
<1>4. ASSUME NEW f \in FileIds, UNCHANGED backend,
             \/ Reserve(f) \/ GrowOlder(f)
             \/ \E n \in Lengths : NativePutStart(f, n) \/ NativePutLands(f, n)
      PROVE  ObjectInv'
  BY <1>4, ReserveKeepsObjects, GrowOlderKeepsObjects, NativePutKeepsObjects
<1>5. ASSUME Reaper \/ ReapRowFails \/ ReaperCrashes, UNCHANGED backend
      PROVE  ObjectInv'
  BY <1>5, ReapSelectKeepsObjects, ReapObjectKeepsObjects, ReapRowKeepsObjects, LetGoKeepsObjects
  DEF Reaper
<1>6. CASE UNCHANGED vars
  BY <1>6, LetGoKeepsObjects DEF vars
<1> QED
  BY <1>1, <1>2, <1>3, <1>4, <1>5, <1>6 DEF Next, Step

\* What is known of the objects in every state of the storage service.
THEOREM ObjectInvariant == Spec => []ObjectInv
<1>1. Init => ObjectInv
  BY UploadBoundsAssumption
  DEF Init, NoRow, ObjectInv, ReapsStale, WritersAreInTime, UndoHasNoRow, DeletesTombstoned,
      LocalIsChecked, InsertHasObject, FlipHasObject, ReadableHasObject, Readable, ReapedLeavesNoObject
<1>2. IInv /\ ObjectInv /\ [Next]_vars => ObjectInv'
  BY NextKeepsObjects
<1> QED
  BY <1>1, <1>2, FileInvariant, PTL DEF Spec

\* On local disk a readable file that is not stale has its object, for any number
\* of overlapping uploads, completions and deletions, unless the answer of its
\* INSERT was lost.
THEOREM Served == Spec => []ReadableHasObject
<1>1. ObjectInv => ReadableHasObject
  BY DEF ObjectInv
<1> QED
  BY <1>1, ObjectInvariant, PTL

\* On local disk what the reaper has removed stays removed: no write that was let
\* in comes after it.
THEOREM ReapedClean == Spec => []ReapedLeavesNoObject
<1>1. ObjectInv => ReapedLeavesNoObject
  BY DEF ObjectInv
<1> QED
  BY <1>1, ObjectInvariant, PTL
=============================================================================
