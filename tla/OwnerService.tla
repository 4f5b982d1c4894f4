---------------------------- MODULE OwnerService ----------------------------
(***************************************************************************)
(* create, update and delete of projects and clients.  The uploaded image  *)
(* is stored before the transaction commits; the task is sent after it.    *)
(***************************************************************************)
EXTENDS IconData

Goto(w, step) == pc' = [pc EXCEPT ![w] = step] /\ UNCHANGED celery

Answer(w) ==
    /\ Goto(w, "idle")
    /\ req' = [req EXCEPT ![w] = NoRow]
    /\ got' = [got EXCEPT ![w] = NoRow]

\* The transaction is rolled back; an object that was stored stays.
Refuse(w) == Answer(w) /\ UNCHANGED <<rows, objects, queue>>

Start(w, step, request) ==
    /\ pc[w] = "idle"
    /\ Goto(w, step)
    /\ req' = [req EXCEPT ![w] = request]
    /\ UNCHANGED <<rows, objects, queue, got>>

Requests ==
    [id : Owners, version : Nat, name : Names \cup {NoRow},
     icon : {"KEEP", "UPLOAD", "DELETE"}, file : Files \cup {NoRow}]

\* An icon to upload, or none; iconFile and iconAction DELETE exclude each other.
Uploads == {[icon |-> "UPLOAD", file |-> f] : f \in FreshFiles}
Request(o, version, name, change) ==
    [id |-> o, version |-> version, name |-> name,
     icon |-> change.icon, file |-> change.file]
Change(icon) == [icon |-> icon, file |-> NoRow]

\* The service's exists() query, and the unique constraint on rows that are
\* not deleted.
NameExists(name, self) == \E o \in Live \ {self} : owners[o].name = name

\* Variant: no unique constraint.
NameNotConstrained(w) == FALSE

NameTaken(w) == NameExists(req[w].name, req[w].id)

CheckName(w, next) ==
    IF NameExists(req[w].name, req[w].id)
    THEN Refuse(w)
    ELSE /\ Goto(w, IF req[w].icon = "UPLOAD" THEN next.store ELSE next.commit)
         /\ UNCHANGED <<rows, objects, queue, req, got>>

\* _store_icon: an image that is not valid is refused, storage may fail.
StoreIcon(w, next) ==
    \/ /\ objects' = objects \cup {<<req[w].file, "original">>}
       /\ Goto(w, next)
       /\ UNCHANGED <<rows, queue, req, got>>
    \/ Refuse(w)

\* The rows a commit adds: the stored file, and the task for the icon.
NewFile == [status |-> "PENDING", processed |-> FALSE]

WithFile(w) ==
    IF req[w].icon = "UPLOAD" THEN [files EXCEPT ![req[w].file] = NewFile] ELSE files

Removed(w, row) == req[w].icon = "DELETE" /\ row.file # NoRow

WithTask(w, old, removed) ==
    IF req[w].icon = "UPLOAD"
    THEN [tasks EXCEPT ![<<"convert", req[w].file>>] = [status |-> "PENDING", old |-> old]]
    ELSE IF removed
    THEN [tasks EXCEPT ![<<"remove", old>>] = [status |-> "PENDING", old |-> NoRow]]
    ELSE tasks

\* After a commit that created a task, on_commit sends it.
Committed(w, sends) ==
    /\ UNCHANGED <<objects, queue>>
    /\ IF sends THEN Goto(w, "send") /\ UNCHANGED <<req, got>> ELSE Answer(w)

(***************************************************************************)
(* create                                                                  *)
(***************************************************************************)
CreateRequest(w) ==
    \E o \in FreshOwners, n \in Names, change \in Uploads \cup {Change("KEEP")} :
        Start(w, "createCheck", Request(o, 0, n, change))

CreateCheck(w) ==
    /\ pc[w] = "createCheck"
    /\ CheckName(w, [store |-> "createStore", commit |-> "createCommit"])

CreateStore(w) == pc[w] = "createStore" /\ StoreIcon(w, "createCommit")

CreatedOwner(w) ==
    [name |-> req[w].name, version |-> 1, deleted |-> FALSE, file |-> req[w].file,
     status |-> IF req[w].icon = "UPLOAD" THEN "PENDING" ELSE "READY"]

CreateCommit(w) ==
    /\ pc[w] = "createCommit"
    /\ IF NameTaken(w)
       THEN Refuse(w)
       ELSE /\ owners' = [owners EXCEPT ![req[w].id] = CreatedOwner(w)]
            /\ files' = WithFile(w)
            /\ tasks' = WithTask(w, NoRow, FALSE)
            /\ Committed(w, req[w].icon = "UPLOAD")

(***************************************************************************)
(* update                                                                  *)
(***************************************************************************)
UpdateRequest(w) ==
    \E o \in Owners, v \in Versions, n \in Names,
       change \in Uploads \cup {Change("KEEP"), Change("DELETE")} :
        Start(w, "updateLock", Request(o, v, n, change))

Found(w) == req[w].id \in Live /\ owners[req[w].id].version = req[w].version

UpdateLock(w) ==
    /\ pc[w] = "updateLock"
    /\ OwnerFree(req[w].id)
    /\ IF Found(w)
       THEN /\ got' = [got EXCEPT ![w] = owners[req[w].id]]
            /\ Goto(w, "updateCheck")
            /\ UNCHANGED <<rows, objects, queue, req>>
       ELSE Refuse(w)

\* A client's own name is not looked up again; no other client has it.
UpdateCheck(w) ==
    /\ pc[w] = "updateCheck"
    /\ CheckName(w, [store |-> "updateStore", commit |-> "updateCommit"])

UpdateStore(w) == pc[w] = "updateStore" /\ StoreIcon(w, "updateCommit")

\* Variant: the status of a deleted icon is not reset.
UpdatedStatusKept(w) ==
    LET named == [got[w] EXCEPT !.name = req[w].name, !.version = @ + 1] IN
    IF req[w].icon = "UPLOAD"
    THEN [named EXCEPT !.file = req[w].file, !.status = "PENDING"]
    ELSE IF Removed(w, got[w]) THEN [named EXCEPT !.file = NoRow] ELSE named

\* save() writes every column of the row that was loaded.
UpdatedOwner(w) ==
    LET named == [got[w] EXCEPT !.name = req[w].name, !.version = @ + 1] IN
    IF req[w].icon = "UPLOAD"
    THEN [named EXCEPT !.file = req[w].file, !.status = "PENDING"]
    ELSE IF Removed(w, got[w])
    THEN [named EXCEPT !.file = NoRow, !.status = "READY"]
    ELSE named

UpdateCommit(w) ==
    /\ pc[w] = "updateCommit"
    /\ IF NameTaken(w)
       THEN Refuse(w)
       ELSE /\ owners' = [owners EXCEPT ![req[w].id] = UpdatedOwner(w)]
            /\ files' = WithFile(w)
            /\ tasks' = WithTask(w, got[w].file, Removed(w, got[w]))
            /\ Committed(w, req[w].icon = "UPLOAD" \/ Removed(w, got[w]))

(***************************************************************************)
(* The callback of on_commit.  It is robust: an exception of the broker is *)
(* logged and the request answered as if the task had been sent.  A        *)
(* message that is not acknowledged in time is delivered again.            *)
(***************************************************************************)
TaskOf(w) ==
    IF req[w].icon = "UPLOAD" THEN <<"convert", req[w].file>>
    ELSE <<"remove", got[w].file>>

Send(w) ==
    /\ pc[w] = "send"
    /\ \/ \E n \in 1..MaxDeliveries : queue' = [queue EXCEPT ![TaskOf(w)] = n]
       \/ "broker" \in Failures /\ UNCHANGED queue
    /\ Answer(w)
    /\ UNCHANGED <<rows, objects>>

(***************************************************************************)
(* delete: locks, checks and commits; the icon is left alone.              *)
(***************************************************************************)
DeleteRequest(w) ==
    \E o \in Owners, v \in Versions :
        Start(w, "delete", Request(o, v, NoRow, Change("KEEP")))

Delete(w) ==
    /\ pc[w] = "delete"
    /\ OwnerFree(req[w].id)
    /\ IF Found(w)
       THEN /\ owners' = [owners EXCEPT ![req[w].id].deleted = TRUE]
            /\ UNCHANGED <<files, tasks>>
            /\ Committed(w, FALSE)
       ELSE Refuse(w)

OwnerRequest(w) == CreateRequest(w) \/ UpdateRequest(w) \/ DeleteRequest(w)

OwnerStep(w) ==
    \/ CreateCheck(w) \/ CreateStore(w) \/ CreateCommit(w)
    \/ UpdateLock(w)  \/ UpdateCheck(w) \/ UpdateStore(w) \/ UpdateCommit(w)
    \/ Delete(w)      \/ Send(w)
=============================================================================
