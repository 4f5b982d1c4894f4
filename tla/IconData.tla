------------------------------ MODULE IconData ------------------------------
(***************************************************************************)
(* What the requests on projects and clients share with the Celery tasks   *)
(* that convert and delete their icons: rows, stored objects, the broker.  *)
(*                                                                         *)
(* Projects and clients keep icons by the same code; here both are owners. *)
(* A name stands for what must be unique: an organization's client name,   *)
(* or the pair of a project's client and name.  Callers are OWNER or       *)
(* ADMIN; others are refused before anything is read.                      *)
(***************************************************************************)
EXTENDS Naturals, FiniteSets

CONSTANTS
    Workers,       \* threads of the API server
    Consumers,     \* processes of the Celery worker
    Owners,        \* ids of projects or clients
    Files,         \* ids of stored files, one for each upload
    Names,
    Versions,      \* versions a client may send with a request
    Failures,      \* what may fail: "storage", "broker", "crash"
    MaxDeliveries, \* how often the broker may deliver one message
    NoRow          \* absence of a row, a request or a value

TaskIds == {"convert", "remove"} \X Files

OwnerRow ==
    [name : Names, version : Nat, deleted : BOOLEAN,
     file : Files \cup {NoRow},                    \* icon_file, icon_type
     status : {"READY", "PENDING", "FAILED"}]      \* icon_status

FileRow ==
    [status : {"PENDING", "PROCESSING", "READY", "FAILED", "DELETED"},
     processed : BOOLEAN]                          \* processed_object_key set

TaskRow ==
    [status : {"PENDING", "PROCESSING", "SUCCEEDED", "FAILED"},
     old : Files \cup {NoRow}]                     \* result["oldFileId"]

\* Object keys: the original, the converted image, and the name storage picks
\* for a converted image when that key is taken.
Objects == Files \X {"original", "processed", "another"}

VARIABLES
    owners, files, tasks,  \* tables: id -> row or NoRow
    objects,               \* object storage
    queue,                 \* broker: deliveries still to come of each task
    pc, req, got,          \* API threads: statement, request, row loaded
    at, doing              \* Celery processes: statement, task

rows == <<owners, files, tasks>>
api == <<pc, req, got>>
celery == <<at, doing>>
vars == <<owners, files, tasks, objects, queue, pc, req, got, at, doing>>

Live == {o \in Owners : owners[o] # NoRow /\ ~owners[o].deleted}

\* UUIDs: nobody has used the id.
FreshOwners ==
    {o \in Owners : owners[o] = NoRow /\ \A w \in Workers : req[w] = NoRow \/ req[w].id # o}
FreshFiles ==
    {f \in Files : /\ files[f] = NoRow
                   /\ \A kind \in {"original", "processed", "another"} :
                         <<f, kind>> \notin objects
                   /\ \A w \in Workers : req[w] = NoRow \/ req[w].file # f}

\* Variant: the owner is read without FOR UPDATE.
NoOwnerLock(o) == TRUE

\* SELECT ... FOR UPDATE OF the owner, from the statement to the commit.
OwnerFree(o) ==
    \A w \in Workers :
        ~(pc[w] \in {"updateCheck", "updateStore", "updateCommit"} /\ req[w].id = o)

(***************************************************************************)
(* _delete_file_objects: the recorded keys, then the row.                  *)
(***************************************************************************)
RecordedObjects(f) ==
    {<<f, "original">>} \cup (IF files[f].processed THEN {<<f, "processed">>} ELSE {})

DeleteFileObjects(f) ==
    /\ objects' = objects \ RecordedObjects(f)
    /\ files' = [files EXCEPT ![f].status = "DELETED"]
=============================================================================
