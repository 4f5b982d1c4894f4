------------------------------- MODULE Icons --------------------------------
(***************************************************************************)
(* The icons of projects and clients: requests, broker and Celery worker   *)
(* over one database and one object storage.                               *)
(***************************************************************************)
EXTENDS OwnerService, IconTasks

\* What users see of a client or project.
EntryRow ==
    [name : Names, version : Nat, icon : Files \cup {NoRow},
     status : {"READY", "PENDING", "FAILED"}]

ASSUME IconInputsAssumption ==
    /\ Versions \subseteq Nat /\ MaxDeliveries \in Nat \ {0}
    /\ Failures \subseteq {"storage", "broker", "crash"}
    /\ NoRow \notin Owners \cup Files \cup Names
                      \cup OwnerRow \cup EntryRow \cup FileRow \cup TaskRow
                      \cup Requests

Init ==
    /\ owners = [o \in Owners |-> NoRow]
    /\ files = [f \in Files |-> NoRow]
    /\ tasks = [t \in TaskIds |-> NoRow]
    /\ objects = {}
    /\ queue = [t \in TaskIds |-> 0]
    /\ pc = [w \in Workers |-> "idle"]
    /\ req = [w \in Workers |-> NoRow]
    /\ got = [w \in Workers |-> NoRow]
    /\ at = [c \in Consumers |-> "idle"]
    /\ doing = [c \in Consumers |-> NoRow]

Next ==
    \/ \E w \in Workers : OwnerRequest(w) \/ OwnerStep(w)
    \/ \E c \in Consumers : TaskStep(c) \/ Crash(c)

Spec == Init /\ [][Next]_vars

\* Requests and tasks that were started go on, and a message in the broker is
\* taken; a waiter for an owner's row gets its turn.
Fairness ==
    /\ \A w \in Workers : SF_vars(OwnerStep(w))
    /\ \A c \in Consumers : SF_vars(TaskStep(c))

FairSpec == Spec /\ Fairness

----------------------------------------------------------------------------
ApiSteps ==
    {"idle", "createCheck", "createStore", "createCommit", "updateLock",
     "updateCheck", "updateStore", "updateCommit", "delete", "send"}
ConvertSteps ==
    {"convert", "markFile", "image", "publish", "cleanup", "failFile",
     "failOwner", "failTask"}
RemoveSteps == {"remove", "removeObjects", "removed"}

\* Type invariant: what each request and each task has in hand at each step.
IconTypeOK ==
    /\ owners \in [Owners -> OwnerRow \cup {NoRow}]
    /\ files \in [Files -> FileRow \cup {NoRow}]
    /\ tasks \in [TaskIds -> TaskRow \cup {NoRow}]
    /\ objects \subseteq Objects
    /\ queue \in [TaskIds -> 0..MaxDeliveries]
    /\ \A w \in Workers :
          /\ pc[w] \in ApiSteps
          /\ pc[w] = "idle" <=> req[w] = NoRow
          /\ pc[w] \in {"updateCheck", "updateStore", "updateCommit"} =>
                got[w] \in OwnerRow
          /\ pc[w] = "send" => TaskOf(w) \in TaskIds /\ tasks[TaskOf(w)] # NoRow
    /\ \A c \in Consumers :
          /\ at[c] \in {"idle"} \cup ConvertSteps \cup RemoveSteps
          /\ at[c] # "idle" => doing[c] \in TaskIds /\ tasks[doing[c]] # NoRow
          /\ at[c] = "cleanup" => tasks[doing[c]].old \in Files

\* A client's or project's name is never shared by two rows that are not
\* deleted, whatever requests pass the exists() query together.
NamesUnique ==
    \A o, p \in Live : owners[o].name = owners[p].name => o = p

\* An uploaded icon that is shown as READY has its converted image in storage:
\* no cleanup of an older or newer upload, and no deletion, takes it away.
ShownIconStored ==
    \A o \in Live :
        owners[o].status = "READY" /\ owners[o].file # NoRow =>
            /\ files[owners[o].file].processed
            /\ <<owners[o].file, "processed">> \in objects

\* "The old image is deleted after the new one is READY": an original goes only
\* once no owner has it as its icon, and then only if the upload that replaced
\* it has been converted or the user deleted the icon.
OldIconOutlivesConversion ==
    [][\A f \in Files :
          <<f, "original">> \in objects /\ <<f, "original">> \notin objects' =>
              /\ Showing(f) = {}
              /\ \/ tasks[<<"remove", f>>] # NoRow
                 \/ \E g \in Files :
                       /\ tasks[<<"convert", g>>] # NoRow
                       /\ tasks[<<"convert", g>>].old = f
                       /\ files[g].processed]_vars

\* save() writes every column of the row the request has loaded: it never puts
\* an icon that a task has meanwhile settled back to PENDING.
SettledStaysSettled ==
    [][\A o \in Live :
          owners[o].status # "PENDING" /\ owners'[o].file = owners[o].file =>
              owners'[o].status # "PENDING"]_vars

Awaits(o, f) ==
    o \in Live /\ owners[o].file = f /\ owners[o].status = "PENDING"

\* An upload is settled: whatever storage does and however often its task is
\* delivered, an icon does not stay PENDING.
UploadsSettle == \A o \in Owners, f \in Files : Awaits(o, f) ~> ~Awaits(o, f)

\* What users see: the rows that are not deleted, the files and what is
\* converted of them.
Entry(row) ==
    [name |-> row.name, version |-> row.version, icon |-> row.file, status |-> row.status]

BoardView ==
    [o \in Owners |->
        IF owners[o] = NoRow \/ owners[o].deleted THEN NoRow ELSE Entry(owners[o])]

ImageView ==
    [f \in Files |->
        IF files[f] = NoRow THEN "new"
        ELSE IF files[f].processed THEN "converted" ELSE "uploaded"]

Board == INSTANCE IconBoard WITH
    Entries <- Owners, Blank <- NoRow, board <- BoardView, image <- ImageView

\* Requests and tasks, statement by statement, implement the board of module
\* IconBoard: each takes effect at once, at its commit, and on no entry but its own.
BoardSpec == Board!BoardSpec

----------------------------------------------------------------------------
\* "READY on success, FAILED on failure": an icon whose image was converted and
\* stored is not reported as FAILED.
ConvertedNotFailed ==
    \A o \in Live :
        owners[o].status = "FAILED" => ~files[owners[o].file].processed
=============================================================================
