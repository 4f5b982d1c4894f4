----------------------------- MODULE IconProofs -----------------------------
(***************************************************************************)
(* Proofs about Icons: names, and icons that are shown, for any number of  *)
(* requests, tasks, deliveries and failures.                               *)
(***************************************************************************)
EXTENDS Icons, TLAPS

(***************************************************************************)
(* The inductive invariant.                                                *)
(***************************************************************************)
\* The statements between the first read of a request and its commit.
Creating(w) == pc[w] \in {"createCheck", "createStore", "createCommit"}
Updating(w) == pc[w] \in {"updateCheck", "updateStore", "updateCommit"}
Uploading(w) ==
    /\ Creating(w) \/ pc[w] = "updateLock" \/ Updating(w)
    /\ req[w].icon = "UPLOAD"

TablesOK ==
    /\ owners \in [Owners -> OwnerRow \cup {NoRow}]
    /\ files \in [Files -> FileRow \cup {NoRow}]
    /\ tasks \in [TaskIds -> TaskRow \cup {NoRow}]
    /\ objects \subseteq Objects
    /\ queue \in [TaskIds -> 0..MaxDeliveries]

ThreadsOK ==
    /\ pc \in [Workers -> ApiSteps] /\ DOMAIN req = Workers /\ DOMAIN got = Workers
    /\ at \in [Consumers -> {"idle"} \cup ConvertSteps \cup RemoveSteps]
    /\ DOMAIN doing = Consumers

\* What a request has in hand: an owner and a file that are not there yet, or an
\* owner that is locked and as it was read.
RequestOK(w) ==
    IF pc[w] = "idle" THEN req[w] = NoRow
    ELSE /\ req[w] \in Requests
         /\ req[w].icon = "UPLOAD" <=> req[w].file \in Files
         /\ Creating(w) \/ pc[w] = "updateLock" \/ Updating(w) => req[w].name \in Names
         /\ pc[w] \in {"createStore", "updateStore"} => req[w].icon = "UPLOAD"
         /\ Creating(w) => owners[req[w].id] = NoRow
         /\ Updating(w) => req[w].id \in Live /\ got[w] = owners[req[w].id]
         /\ Uploading(w) => files[req[w].file] = NoRow
         /\ pc[w] = "send" => TaskOf(w) \in TaskIds /\ tasks[TaskOf(w)] # NoRow

\* No two requests work on one owner, or bring one file.
Apart(v, w) ==
    /\ Creating(v) /\ Creating(w) => req[v].id # req[w].id
    /\ Updating(v) /\ Updating(w) => req[v].id # req[w].id
    /\ Uploading(v) /\ Uploading(w) => req[v].file # req[w].file

\* A file is the icon of one owner at most, and what READY says is true.
IconOK(o) ==
    owners[o] # NoRow /\ owners[o].file # NoRow =>
       LET f == owners[o].file IN
       /\ files[f] # NoRow
       /\ \A p \in Owners : owners[p] # NoRow /\ owners[p].file = f => p = o
       /\ owners[o].status = "READY" =>
             files[f].processed /\ <<f, "processed">> \in objects

\* A file that no owner has as its icon any more.
Gone(f) == files[f] # NoRow /\ Showing(f) = {}

\* A task is there to delete a file only when the file is gone.
TaskOK(t) ==
    /\ tasks[t] # NoRow =>
          /\ files[t[2]] # NoRow
          /\ t[1] = "remove" => Gone(t[2])
          /\ \A f \in Files : tasks[t].old = f => Gone(f)
    /\ queue[t] > 0 => tasks[t] # NoRow

DoingOK(c) ==
    at[c] # "idle" =>
       /\ doing[c] \in TaskIds /\ tasks[doing[c]] # NoRow
       /\ at[c] \in ConvertSteps => Task(c)[1] = "convert"
       /\ at[c] \in RemoveSteps => Task(c)[1] = "remove"
       /\ at[c] = "publish" =>
             <<File(c), "processed">> \in objects \/ Showing(File(c)) = {}
       /\ at[c] = "cleanup" =>
             files[File(c)].processed /\ tasks[doing[c]].old # NoRow

RequestsOK == \A w \in Workers : RequestOK(w)
RequestsApart == \A v, w \in Workers : v # w => Apart(v, w)
IconsOK == \A o \in Owners : IconOK(o)
TasksOK == \A t \in TaskIds : TaskOK(t)
ConsumersOK == \A c \in Consumers : DoingOK(c)

IconInv ==
    /\ TablesOK /\ ThreadsOK /\ RequestsOK /\ RequestsApart
    /\ IconsOK /\ TasksOK /\ ConsumersOK

LEMMA NoRowIsNone ==
    /\ NoRow \notin Owners /\ NoRow \notin Files /\ NoRow \notin Names
    /\ \A r \in OwnerRow : r # NoRow
    /\ \A r \in FileRow : r # NoRow
    /\ \A r \in TaskRow : r # NoRow
    /\ \A r \in Requests : r # NoRow
  BY IconInputsAssumption

LEMMA RowsKnown ==
    ASSUME TablesOK
    PROVE  /\ \A o \in Owners : owners[o] # NoRow => owners[o] \in OwnerRow
           /\ \A f \in Files : files[f] # NoRow => files[f] \in FileRow
           /\ \A t \in TaskIds : tasks[t] # NoRow => tasks[t] \in TaskRow
           /\ DOMAIN owners = Owners /\ DOMAIN files = Files /\ DOMAIN tasks = TaskIds
           /\ DOMAIN queue = TaskIds
  BY DEF TablesOK

(***************************************************************************)
(* What a step may do to what others rely on: files stay, and lose their   *)
(* converted image only when they are gone; no owner comes to show a file  *)
(* that is there already; tasks stay what they are for.                    *)
(***************************************************************************)
FileSteady(f) ==
    files[f] # NoRow =>
       /\ files'[f] # NoRow
       /\ files[f].processed => files'[f].processed
       /\ \A o \in Owners : o \in Showing(f)' => o \in Showing(f)
       /\ <<f, "processed">> \in objects =>
             <<f, "processed">> \in objects' \/ Showing(f) = {}

TaskSteady(t) ==
    tasks[t] # NoRow => tasks'[t] # NoRow /\ tasks'[t].old = tasks[t].old

Steady == (\A f \in Files : FileSteady(f)) /\ (\A t \in TaskIds : TaskSteady(t))

\* What the rows are for request v.
Respected(v) ==
    /\ Creating(v) => owners'[req[v].id] = NoRow
    /\ Updating(v) => owners'[req[v].id] = owners[req[v].id]
    /\ Uploading(v) => files'[req[v].file] = NoRow

SameRequest(v) == pc'[v] = pc[v] /\ req'[v] = req[v] /\ got'[v] = got[v]

Rest(w) == \A v \in Workers \ {w} : SameRequest(v)

LEMMA RequestFrame ==
    ASSUME IconInv, NEW v \in Workers, SameRequest(v), Respected(v), Steady
    PROVE  RequestOK(v)'
<1>1. RequestOK(v) BY DEF IconInv, RequestsOK
<1>2. CASE pc[v] = "idle" BY <1>1, <1>2 DEF SameRequest, RequestOK
<1>3. CASE pc[v] # "idle"
  <2>1. /\ Creating(v)' <=> Creating(v) 
        /\ Updating(v)' <=> Updating(v)
        /\ Uploading(v)' <=> Uploading(v)
        /\ TaskOf(v)' = TaskOf(v)
    BY DEF SameRequest, Creating, Updating, Uploading, TaskOf
  <2>2. /\ Creating(v) => owners'[req'[v].id] = NoRow
        /\ Uploading(v) => files'[req'[v].file] = NoRow
    BY DEF SameRequest, Respected
  <2>3. Updating(v) => req'[v].id \in Live' /\ got'[v] = owners'[req'[v].id]
    BY <1>1, <1>3 DEF SameRequest, Respected, RequestOK, Live
  <2>4. pc[v] = "send" => TaskOf(v) \in TaskIds /\ tasks'[TaskOf(v)] # NoRow
    BY <1>1, <1>3 DEF RequestOK, Steady, TaskSteady
  <2>5. QED BY <1>1, <1>3, <2>1, <2>2, <2>3, <2>4 DEF SameRequest, RequestOK
<1>4. QED BY <1>2, <1>3

LEMMA ApartFrame ==
    ASSUME NEW v \in Workers, NEW w \in Workers, Apart(v, w),
           SameRequest(v), SameRequest(w)
    PROVE  Apart(v, w)'
  BY DEF Apart, SameRequest, Creating, Updating, Uploading

LEMMA GoneSteady ==
    ASSUME Steady, NEW f \in Files, Gone(f)
    PROVE  Gone(f)'
<1>1. FileSteady(f) BY DEF Steady
<1>2. \A o \in Owners : o \notin Showing(f)' BY <1>1 DEF FileSteady, Gone
<1>3. QED BY <1>1, <1>2 DEF FileSteady, Gone, Showing

LEMMA TaskFrame ==
    ASSUME IconInv, Steady, NEW t \in TaskIds, tasks[t] # NoRow
    PROVE  /\ files'[t[2]] # NoRow
           /\ t[1] = "remove" => Gone(t[2])'
           /\ \A f \in Files : tasks'[t].old = f => Gone(f)'
<1>1. TaskOK(t) /\ tasks[t] \in TaskRow /\ t[2] \in Files /\ tasks'[t].old = tasks[t].old
  BY RowsKnown DEF IconInv, TasksOK, TaskIds, Steady, TaskSteady
<1>2. files'[t[2]] # NoRow BY <1>1 DEF Steady, FileSteady, TaskOK
<1>3. t[1] = "remove" => Gone(t[2])' BY <1>1, GoneSteady DEF TaskOK
<1>4. \A f \in Files : tasks'[t].old = f => Gone(f)'
  BY <1>1, GoneSteady DEF TaskOK
<1>5. QED BY <1>2, <1>3, <1>4

LEMMA DoingFrame ==
    ASSUME IconInv, Steady, NEW c \in Consumers, at'[c] = at[c], doing'[c] = doing[c]
    PROVE  DoingOK(c)'
<1>1. DoingOK(c) BY DEF IconInv, ConsumersOK
<1>2. CASE at[c] = "idle" BY <1>2 DEF DoingOK
<1>3. CASE at[c] # "idle"
  <2>1. /\ doing[c] \in TaskIds /\ tasks[doing[c]] # NoRow /\ File(c) \in Files
        /\ TaskOK(doing[c]) /\ TaskSteady(doing[c]) /\ FileSteady(File(c))
    BY <1>1, <1>3 DEF DoingOK, TaskIds, File, IconInv, TasksOK, Steady
  <2>2. files[File(c)] # NoRow BY <2>1 DEF TaskOK, File
  <2>3. Task(c)' = Task(c) /\ File(c)' = File(c) BY DEF Task, File
  <2>4. Showing(File(c)) = {} => Showing(File(c))' = {}
    BY <2>1, <2>2, <2>3, GoneSteady DEF Gone
  <2>5. QED BY <1>1, <1>3, <2>1, <2>2, <2>3, <2>4
               DEF DoingOK, TaskSteady, FileSteady
<1>4. QED BY <1>2, <1>3

(***************************************************************************)
(* Steps of a request that change no row.                                  *)
(***************************************************************************)
TypedThreads ==
    pc' \in [Workers -> ApiSteps] /\ DOMAIN req' = Workers /\ DOMAIN got' = Workers

MoreQueued ==
    /\ queue' \in [TaskIds -> 0..MaxDeliveries]
    /\ \A t \in TaskIds : queue'[t] > 0 => queue[t] > 0 \/ tasks[t] # NoRow

MoreStored == objects \subseteq objects' /\ objects' \subseteq Objects

LEMMA TurnKeeps ==
    ASSUME IconInv, NEW w \in Workers, Rest(w), TypedThreads, MoreQueued, MoreStored,
           UNCHANGED <<owners, files, tasks, at, doing>>, RequestOK(w)',
           \A v \in Workers \ {w} : Apart(v, w)' /\ Apart(w, v)'
    PROVE  IconInv'
<1>1. /\ TablesOK /\ ThreadsOK /\ RequestsOK /\ RequestsApart
      /\ IconsOK /\ TasksOK /\ ConsumersOK
  BY DEF IconInv
<1>2. TablesOK' BY <1>1 DEF TablesOK, MoreQueued, MoreStored
<1>3. ThreadsOK' BY <1>1 DEF ThreadsOK, TypedThreads
<1>4. \A f \in Files : Showing(f)' = Showing(f) BY DEF Showing
<1>5. Steady
  BY <1>4 DEF Steady, FileSteady, TaskSteady, MoreStored
<1>6. RequestsOK'
  <2>1. ASSUME NEW v \in Workers \ {w} PROVE RequestOK(v)'
    <3>1. SameRequest(v) BY DEF Rest
    <3>2. Respected(v)
      <4>1. RequestOK(v) BY <1>1 DEF RequestsOK
      <4>2. QED BY <4>1 DEF Respected, RequestOK, Creating, Updating, Uploading
    <3>3. QED BY <1>5, <3>1, <3>2, RequestFrame
  <2>2. QED BY <2>1 DEF RequestsOK
<1>7. RequestsApart'
  <2>1. ASSUME NEW v \in Workers \ {w}, NEW u \in Workers \ {w}, v # u
        PROVE  Apart(v, u)'
    BY <1>1, <2>1, ApartFrame DEF RequestsApart, Rest
  <2>2. QED BY <2>1 DEF RequestsApart
<1>8. IconsOK'
  <2>1. ASSUME NEW o \in Owners PROVE IconOK(o)'
    <3>1. IconOK(o) BY <1>1 DEF IconsOK
    <3>2. QED BY <3>1 DEF IconOK, MoreStored
  <2>2. QED BY <2>1 DEF IconsOK
<1>9. TasksOK'
  <2>1. ASSUME NEW t \in TaskIds PROVE TaskOK(t)'
    <3>1. TaskOK(t) BY <1>1 DEF TasksOK
    <3>2. \A f \in Files : Gone(f)' <=> Gone(f) BY <1>4 DEF Gone
    <3>3. t[2] \in Files BY DEF TaskIds
    <3>4. QED BY <3>1, <3>2, <3>3 DEF TaskOK, MoreQueued
  <2>2. QED BY <2>1 DEF TasksOK
<1>10. ConsumersOK' BY <1>5, DoingFrame DEF ConsumersOK
<1>11. QED BY <1>2, <1>3, <1>6, <1>7, <1>8, <1>9, <1>10 DEF IconInv

LEMMA AnswerKeeps ==
    ASSUME IconInv, NEW w \in Workers, Answer(w), MoreQueued, MoreStored,
           UNCHANGED rows
    PROVE  IconInv'
<1>1. /\ pc \in [Workers -> ApiSteps] /\ DOMAIN req = Workers /\ DOMAIN got = Workers
  BY DEF IconInv, ThreadsOK
<1>2. /\ pc' = [pc EXCEPT ![w] = "idle"] /\ req' = [req EXCEPT ![w] = NoRow]
      /\ got' = [got EXCEPT ![w] = NoRow] /\ UNCHANGED celery
  BY DEF Answer, Goto
<1>3. TypedThreads BY <1>1, <1>2 DEF TypedThreads, ApiSteps
<1>4. Rest(w) BY <1>1, <1>2 DEF Rest, SameRequest
<1>5. pc'[w] = "idle" /\ req'[w] = NoRow BY <1>1, <1>2
<1>6. RequestOK(w)' BY <1>5 DEF RequestOK
<1>7. \A v \in Workers \ {w} : Apart(v, w)' /\ Apart(w, v)'
  BY <1>5 DEF Apart, Creating, Updating, Uploading
<1>8. QED BY <1>2, <1>3, <1>4, <1>6, <1>7, TurnKeeps DEF rows, celery

LEMMA RefuseKeeps ==
    ASSUME IconInv, NEW w \in Workers, Refuse(w)
    PROVE  IconInv'
<1>1. Answer(w) /\ UNCHANGED <<rows, objects, queue>> BY DEF Refuse
<1>2. MoreQueued /\ MoreStored
  BY <1>1 DEF MoreQueued, MoreStored, IconInv, TablesOK
<1>3. QED BY <1>1, <1>2, AnswerKeeps

\* A request goes on to a later statement.
LEMMA GoKeeps ==
    ASSUME IconInv, NEW w \in Workers, NEW step \in ApiSteps \ {"idle", "send"},
           Goto(w, step), pc[w] # "idle", MoreStored,
           UNCHANGED <<rows, queue, req, got>>,
           Creating(w)' => Creating(w), Updating(w)' => Updating(w),
           Uploading(w)' => Uploading(w), step # "delete",
           step \in {"createStore", "updateStore"} => req[w].icon = "UPLOAD",
           req[w].name \in Names
    PROVE  IconInv'
<1>1. /\ pc \in [Workers -> ApiSteps] /\ DOMAIN req = Workers /\ DOMAIN got = Workers
  BY DEF IconInv, ThreadsOK
<1>2. pc' = [pc EXCEPT ![w] = step] /\ UNCHANGED celery
  BY DEF Goto
<1>3. TypedThreads BY <1>1, <1>2 DEF TypedThreads
<1>4. Rest(w) BY <1>1, <1>2 DEF Rest, SameRequest
<1>5. pc'[w] = step BY <1>1, <1>2
<1>6. RequestOK(w)'
  <2>1. RequestOK(w) BY DEF IconInv, RequestsOK
  <2>2. Live' = Live BY DEF rows, Live
  <2>3. QED BY <1>5, <2>1, <2>2 DEF RequestOK, rows
<1>7. ASSUME NEW v \in Workers \ {w} PROVE Apart(v, w)' /\ Apart(w, v)'
  <2>1. Apart(v, w) /\ Apart(w, v) BY DEF IconInv, RequestsApart
  <2>2. SameRequest(v) BY <1>4 DEF Rest
  <2>3. QED BY <2>1, <2>2 DEF Apart, SameRequest, Creating, Updating, Uploading
<1>8. MoreQueued BY DEF MoreQueued, IconInv, TablesOK
<1>9. QED BY <1>2, <1>3, <1>4, <1>6, <1>7, <1>8, TurnKeeps DEF rows, celery

LEMMA StartKeeps ==
    ASSUME IconInv, NEW w \in Workers, NEW step \in {"createCheck", "updateLock", "delete"},
           NEW r \in Requests, Start(w, step, r),
           r.icon = "UPLOAD" <=> r.file \in Files, step # "delete" => r.name \in Names,
           step = "createCheck" => r.id \in FreshOwners,
           r.icon = "UPLOAD" => r.file \in FreshFiles
    PROVE  IconInv'
<1>1. /\ pc \in [Workers -> ApiSteps] /\ DOMAIN req = Workers /\ DOMAIN got = Workers
  BY DEF IconInv, ThreadsOK
<1>2. /\ pc' = [pc EXCEPT ![w] = step] /\ req' = [req EXCEPT ![w] = r]
      /\ UNCHANGED <<rows, objects, queue, got, celery>>
  BY DEF Start, Goto
<1>3. TypedThreads BY <1>1, <1>2 DEF TypedThreads, ApiSteps
<1>4. Rest(w) BY <1>1, <1>2 DEF Rest, SameRequest
<1>5. pc'[w] = step /\ req'[w] = r BY <1>1, <1>2
<1>6. RequestOK(w)'
  <2>1. step = "createCheck" => owners[r.id] = NoRow BY DEF FreshOwners
  <2>2. r.icon = "UPLOAD" => files[r.file] = NoRow BY DEF FreshFiles
  <2>3. QED
    BY <1>2, <1>5, <2>1, <2>2 DEF RequestOK, Creating, Updating, Uploading, rows
<1>7. ASSUME NEW v \in Workers \ {w} PROVE Apart(v, w)' /\ Apart(w, v)'
  <2>1. RequestOK(v) /\ SameRequest(v) BY <1>4 DEF IconInv, RequestsOK, Rest
  <2>2. pc[v] # "idle" => /\ step = "createCheck" => req[v].id # r.id
                          /\ r.icon = "UPLOAD" => req[v].file # r.file
    BY <2>1, NoRowIsNone DEF RequestOK, FreshOwners, FreshFiles
  <2>3. QED
    BY <1>5, <2>1, <2>2 DEF Apart, SameRequest, Creating, Updating, Uploading
<1>8. MoreQueued /\ MoreStored BY <1>2 DEF MoreQueued, MoreStored, IconInv, TablesOK
<1>9. QED BY <1>2, <1>3, <1>4, <1>6, <1>7, <1>8, TurnKeeps DEF rows, celery

LEMMA RequestTyped ==
    ASSUME NEW o \in Owners, NEW v \in Nat, NEW n \in Names \cup {NoRow},
           NEW icon \in {"KEEP", "UPLOAD", "DELETE"}, NEW f \in Files \cup {NoRow},
           NEW change, change.icon = icon, change.file = f
    PROVE  /\ Request(o, v, n, change) \in Requests
           /\ Request(o, v, n, change).id = o /\ Request(o, v, n, change).name = n
           /\ Request(o, v, n, change).icon = icon /\ Request(o, v, n, change).file = f
  BY DEF Request, Requests

LEMMA ChangeKnown ==
    ASSUME NEW change \in Uploads \cup {Change("KEEP"), Change("DELETE")}
    PROVE  /\ change.icon \in {"KEEP", "UPLOAD", "DELETE"}
           /\ change.file \in Files \cup {NoRow}
           /\ change.icon = "UPLOAD" <=> change.file \in Files
           /\ change.icon = "UPLOAD" => change.file \in FreshFiles
<1>1. CASE change \in Uploads
  <2>1. PICK f \in FreshFiles : change = [icon |-> "UPLOAD", file |-> f]
    BY <1>1 DEF Uploads
  <2>2. f \in Files BY DEF FreshFiles
  <2>3. QED BY <2>1, <2>2
<1>2. CASE change = Change("KEEP")
  <2>1. change.icon = "KEEP" /\ change.file = NoRow BY <1>2 DEF Change
  <2>2. QED BY <2>1, NoRowIsNone
<1>3. CASE change = Change("DELETE")
  <2>1. change.icon = "DELETE" /\ change.file = NoRow BY <1>3 DEF Change
  <2>2. QED BY <2>1, NoRowIsNone
<1>4. QED BY <1>1, <1>2, <1>3

LEMMA OwnerRequestKeeps ==
    ASSUME IconInv, NEW w \in Workers, OwnerRequest(w)
    PROVE  IconInv'
<1>1. CASE CreateRequest(w)
  <2>1. PICK o \in FreshOwners, n \in Names, change \in Uploads \cup {Change("KEEP")} :
           Start(w, "createCheck", Request(o, 0, n, change))
    BY <1>1 DEF CreateRequest
  <2>2. o \in Owners BY DEF FreshOwners
  <2>3. QED BY <2>1, <2>2, ChangeKnown, RequestTyped, StartKeeps
<1>2. CASE UpdateRequest(w)
  <2>1. PICK o \in Owners, v \in Versions, n \in Names,
             change \in Uploads \cup {Change("KEEP"), Change("DELETE")} :
           Start(w, "updateLock", Request(o, v, n, change))
    BY <1>2 DEF UpdateRequest
  <2>2. v \in Nat BY IconInputsAssumption
  <2>3. QED BY <2>1, <2>2, ChangeKnown, RequestTyped, StartKeeps
<1>3. CASE DeleteRequest(w)
  <2>1. PICK o \in Owners, v \in Versions :
           Start(w, "delete", Request(o, v, NoRow, Change("KEEP")))
    BY <1>3 DEF DeleteRequest
  <2>2. v \in Nat BY IconInputsAssumption
  <2>3. QED BY <2>1, <2>2, ChangeKnown, RequestTyped, StartKeeps
<1>4. QED BY <1>1, <1>2, <1>3 DEF OwnerRequest

LEMMA RequestKnown ==
    ASSUME IconInv, NEW w \in Workers, pc[w] # "idle"
    PROVE  req[w] \in Requests /\ RequestOK(w)
  BY DEF IconInv, RequestsOK, RequestOK

LEMMA CheckKeeps ==
    ASSUME IconInv, NEW w \in Workers, CreateCheck(w) \/ UpdateCheck(w)
    PROVE  IconInv'
<1>1. CASE NameExists(req[w].name, req[w].id)
  <2>1. Refuse(w) BY <1>1 DEF CreateCheck, UpdateCheck, CheckName
  <2>2. QED BY <2>1, RefuseKeeps
<1>2. CASE ~NameExists(req[w].name, req[w].id)
  <2>1. /\ UNCHANGED <<rows, objects, queue, req, got>>
        /\ \/ /\ pc[w] = "createCheck" /\ req[w].icon = "UPLOAD" /\ Goto(w, "createStore")
           \/ pc[w] = "createCheck" /\ Goto(w, "createCommit")
           \/ /\ pc[w] = "updateCheck" /\ req[w].icon = "UPLOAD" /\ Goto(w, "updateStore")
           \/ pc[w] = "updateCheck" /\ Goto(w, "updateCommit")
    BY <1>2 DEF CreateCheck, UpdateCheck, CheckName
  <2>2. MoreStored BY <2>1 DEF MoreStored, IconInv, TablesOK
  <2>3. req[w].name \in Names
    BY <2>1, RequestKnown DEF RequestOK, Creating, Updating
  <2>4. pc \in [Workers -> ApiSteps] BY DEF IconInv, ThreadsOK
  <2>5. CASE pc[w] = "createCheck" /\ req[w].icon = "UPLOAD" /\ Goto(w, "createStore")
    <3>1. pc'[w] = "createStore" BY <2>4, <2>5 DEF Goto
    <3>2. QED BY <2>1, <2>2, <2>3, <2>5, <3>1, GoKeeps
              DEF Creating, Updating, Uploading, ApiSteps
  <2>6. CASE pc[w] = "createCheck" /\ Goto(w, "createCommit")
    <3>1. pc'[w] = "createCommit" BY <2>4, <2>6 DEF Goto
    <3>2. QED BY <2>1, <2>2, <2>3, <2>6, <3>1, GoKeeps
              DEF Creating, Updating, Uploading, ApiSteps
  <2>7. CASE pc[w] = "updateCheck" /\ req[w].icon = "UPLOAD" /\ Goto(w, "updateStore")
    <3>1. pc'[w] = "updateStore" BY <2>4, <2>7 DEF Goto
    <3>2. QED BY <2>1, <2>2, <2>3, <2>7, <3>1, GoKeeps
              DEF Creating, Updating, Uploading, ApiSteps
  <2>8. CASE pc[w] = "updateCheck" /\ Goto(w, "updateCommit")
    <3>1. pc'[w] = "updateCommit" BY <2>4, <2>8 DEF Goto
    <3>2. QED BY <2>1, <2>2, <2>3, <2>8, <3>1, GoKeeps
              DEF Creating, Updating, Uploading, ApiSteps
  <2>9. QED BY <2>1, <2>5, <2>6, <2>7, <2>8
<1>3. QED BY <1>1, <1>2

LEMMA StoreKeeps ==
    ASSUME IconInv, NEW w \in Workers, CreateStore(w) \/ UpdateStore(w)
    PROVE  IconInv'
<1>1. CASE Refuse(w) BY <1>1, RefuseKeeps
<1>2. CASE ~Refuse(w)
  <2>1. /\ objects' = objects \cup {<<req[w].file, "original">>}
        /\ UNCHANGED <<rows, queue, req, got>>
        /\ \/ pc[w] = "createStore" /\ Goto(w, "createCommit")
           \/ pc[w] = "updateStore" /\ Goto(w, "updateCommit")
    BY <1>2 DEF CreateStore, UpdateStore, StoreIcon
  <2>2. req[w].name \in Names /\ req[w].file \in Files
    BY <2>1, RequestKnown DEF RequestOK, Creating, Updating
  <2>3. MoreStored BY <2>1, <2>2 DEF MoreStored, IconInv, TablesOK, Objects
  <2>4. pc \in [Workers -> ApiSteps] BY DEF IconInv, ThreadsOK
  <2>5. CASE pc[w] = "createStore" /\ Goto(w, "createCommit")
    <3>1. pc'[w] = "createCommit" BY <2>4, <2>5 DEF Goto
    <3>2. QED BY <2>1, <2>2, <2>3, <2>5, <3>1, GoKeeps
              DEF Creating, Updating, Uploading, ApiSteps
  <2>6. CASE pc[w] = "updateStore" /\ Goto(w, "updateCommit")
    <3>1. pc'[w] = "updateCommit" BY <2>4, <2>6 DEF Goto
    <3>2. QED BY <2>1, <2>2, <2>3, <2>6, <3>1, GoKeeps
              DEF Creating, Updating, Uploading, ApiSteps
  <2>7. QED BY <2>1, <2>5, <2>6
<1>3. QED BY <1>1, <1>2

\* The lock is granted when no other request has it, and the row is read as it
\* is by then.
LEMMA UpdateLockKeeps ==
    ASSUME IconInv, NEW w \in Workers, UpdateLock(w)
    PROVE  IconInv'
<1>1. CASE ~Found(w)
  <2>1. Refuse(w) BY <1>1 DEF UpdateLock
  <2>2. QED BY <2>1, RefuseKeeps
<1>2. CASE Found(w)
  <2>1. /\ got' = [got EXCEPT ![w] = owners[req[w].id]]
        /\ pc' = [pc EXCEPT ![w] = "updateCheck"] /\ UNCHANGED celery
        /\ UNCHANGED <<rows, objects, queue, req>>
        /\ pc[w] = "updateLock" /\ req[w].id \in Live /\ OwnerFree(req[w].id)
    BY <1>2 DEF UpdateLock, Goto, Found
  <2>2. /\ pc \in [Workers -> ApiSteps] /\ DOMAIN req = Workers /\ DOMAIN got = Workers
    BY DEF IconInv, ThreadsOK
  <2>3. TypedThreads BY <2>1, <2>2 DEF TypedThreads, ApiSteps
  <2>4. Rest(w) BY <2>1, <2>2 DEF Rest, SameRequest
  <2>5. pc'[w] = "updateCheck" /\ got'[w] = owners[req[w].id] /\ req'[w] = req[w]
    BY <2>1, <2>2
  <2>6. RequestOK(w)'
    <3>1. RequestOK(w) BY DEF IconInv, RequestsOK
    <3>2. Live' = Live BY <2>1 DEF rows, Live
    <3>3. QED BY <2>1, <2>5, <3>1, <3>2
              DEF RequestOK, Creating, Updating, Uploading, rows
  <2>7. ASSUME NEW v \in Workers \ {w} PROVE Apart(v, w)' /\ Apart(w, v)'
    <3>1. Apart(v, w) /\ Apart(w, v) BY DEF IconInv, RequestsApart
    <3>2. SameRequest(v) BY <2>4 DEF Rest
    <3>3. Updating(v) => req[v].id # req[w].id BY <2>1 DEF OwnerFree, Updating
    <3>4. QED BY <2>1, <2>5, <3>1, <3>2, <3>3
              DEF Apart, SameRequest, Creating, Updating, Uploading
  <2>8. MoreQueued /\ MoreStored BY <2>1 DEF MoreQueued, MoreStored, IconInv, TablesOK
  <2>9. QED BY <2>1, <2>3, <2>4, <2>6, <2>7, <2>8, TurnKeeps DEF rows, celery
<1>3. QED BY <1>1, <1>2

LEMMA SendKeeps ==
    ASSUME IconInv, NEW w \in Workers, Send(w)
    PROVE  IconInv'
<1>1. Answer(w) /\ UNCHANGED <<rows, objects>> /\ pc[w] = "send" BY DEF Send
<1>2. TaskOf(w) \in TaskIds /\ tasks[TaskOf(w)] # NoRow
  BY <1>1, RequestKnown DEF RequestOK
<1>3. queue \in [TaskIds -> 0..MaxDeliveries] BY DEF IconInv, TablesOK
<1>4. MoreQueued
  <2>1. CASE UNCHANGED queue BY <1>3, <2>1 DEF MoreQueued
  <2>2. ASSUME NEW n \in 1..MaxDeliveries, queue' = [queue EXCEPT ![TaskOf(w)] = n]
        PROVE  MoreQueued
    BY <1>2, <1>3, <2>2 DEF MoreQueued
  <2>3. QED BY <2>1, <2>2 DEF Send
<1>5. MoreStored BY <1>1 DEF MoreStored, IconInv, TablesOK
<1>6. QED BY <1>1, <1>4, <1>5, AnswerKeeps

(***************************************************************************)
(* Commits.  A request writes the owner it creates or has locked; an icon  *)
(* it uploads is a file that was not there.                                *)
(***************************************************************************)
OwnerWritten(w, r) ==
    LET o == req[w].id IN
    /\ r \in OwnerRow
    /\ owners' = [owners EXCEPT ![o] = r]
    /\ files' = IF Uploading(w) THEN [files EXCEPT ![req[w].file] = NewFile] ELSE files
    /\ \/ Creating(w) \/ Updating(w)
       \/ pc[w] = "delete" /\ o \in Live /\ OwnerFree(o)
    /\ IF Uploading(w)
       THEN r.file = req[w].file /\ r.status = "PENDING"
       ELSE \/ r.file = NoRow
            \/ /\ owners[o] # NoRow
               /\ r.file = owners[o].file /\ r.status = owners[o].status

LEMMA WrittenRows ==
    ASSUME IconInv, NEW w \in Workers, NEW r, OwnerWritten(w, r)
    PROVE  /\ req[w].id \in Owners /\ pc[w] # "idle"
           /\ owners'[req[w].id] = r /\ r # NoRow
           /\ \A o \in Owners \ {req[w].id} : owners'[o] = owners[o]
           /\ Uploading(w) => /\ req[w].file \in Files /\ files[req[w].file] = NoRow
                              /\ files'[req[w].file] = NewFile
                              /\ \A f \in Files \ {req[w].file} : files'[f] = files[f]
           /\ ~Uploading(w) => files' = files
           /\ owners' \in [Owners -> OwnerRow \cup {NoRow}]
           /\ files' \in [Files -> FileRow \cup {NoRow}]
           /\ NewFile # NoRow
<1>1. pc[w] # "idle" BY DEF OwnerWritten, Creating, Updating
<1>2. RequestOK(w) /\ req[w] \in Requests BY <1>1, RequestKnown
<1>3. req[w].id \in Owners BY <1>2 DEF Requests
<1>4. Uploading(w) => req[w].file \in Files /\ files[req[w].file] = NoRow
  BY <1>1, <1>2 DEF RequestOK, Uploading
<1>5. NewFile \in FileRow /\ NewFile # NoRow
  <2>1. NewFile \in FileRow BY DEF NewFile, FileRow
  <2>2. QED BY <2>1, NoRowIsNone
<1>6. /\ owners \in [Owners -> OwnerRow \cup {NoRow}]
      /\ files \in [Files -> FileRow \cup {NoRow}]
  BY DEF IconInv, TablesOK
<1>7. /\ r \in OwnerRow /\ owners' = [owners EXCEPT ![req[w].id] = r] /\ r # NoRow
      /\ files' = IF Uploading(w) THEN [files EXCEPT ![req[w].file] = NewFile] ELSE files
  BY NoRowIsNone DEF OwnerWritten
<1>8. QED BY <1>1, <1>3, <1>4, <1>5, <1>6, <1>7

LEMMA WrittenFiles ==
    ASSUME IconInv, NEW w \in Workers, NEW r, OwnerWritten(w, r), UNCHANGED objects
    PROVE  \A f \in Files : FileSteady(f)
<1> SUFFICES ASSUME NEW f \in Files, files[f] # NoRow PROVE FileSteady(f)
  BY DEF FileSteady
<1>1. files'[f] = files[f] BY WrittenRows
<1>2. ASSUME NEW o \in Owners, o \in Showing(f)' PROVE o \in Showing(f)
  <2>1. owners'[o] # NoRow /\ owners'[o].file = f BY <1>2 DEF Showing
  <2>2. CASE o # req[w].id BY <2>1, <2>2, WrittenRows DEF Showing
  <2>3. CASE o = req[w].id
    <3>1. r.file = f BY <2>1, <2>3, WrittenRows
    <3>2. ~Uploading(w) BY <3>1, WrittenRows DEF OwnerWritten
    <3>3. owners[o] # NoRow /\ owners[o].file = f
      BY <2>3, <3>1, <3>2, NoRowIsNone DEF OwnerWritten
    <3>4. QED BY <3>3 DEF Showing
  <2>4. QED BY <2>2, <2>3
<1>3. QED BY <1>1, <1>2 DEF FileSteady

\* An icon that is right after a step, and one that is right before it.
LEMMA IconShown ==
    ASSUME NEW o \in Owners, NEW r, NEW f, owners'[o] = r, r.file = f,
           f # NoRow =>
              /\ files'[f] # NoRow
              /\ \A q \in Owners : owners'[q] # NoRow /\ owners'[q].file = f => q = o
              /\ r.status = "READY" =>
                    files'[f].processed /\ <<f, "processed">> \in objects'
    PROVE  IconOK(o)'
  BY DEF IconOK

LEMMA IconWas ==
    ASSUME IconInv, NEW o \in Owners, NEW f, owners[o] # NoRow, owners[o].file = f,
           f # NoRow
    PROVE  /\ f \in Files /\ files[f] # NoRow
           /\ \A q \in Owners : owners[q] # NoRow /\ owners[q].file = f => q = o
           /\ owners[o].status = "READY" =>
                 files[f].processed /\ <<f, "processed">> \in objects
<1>1. IconOK(o) BY DEF IconInv, IconsOK
<1>2. owners[o] \in OwnerRow BY RowsKnown DEF IconInv
<1>3. f \in Files BY <1>2 DEF OwnerRow
<1>4. QED BY <1>1, <1>3 DEF IconOK

LEMMA WrittenIcons ==
    ASSUME IconInv, NEW w \in Workers, NEW r, OwnerWritten(w, r), UNCHANGED objects
    PROVE  IconsOK'
<1>1. PICK o \in Owners : o = req[w].id /\ r # NoRow /\ owners'[o] = r
  BY WrittenRows
<1>2. ASSUME NEW p \in Owners, p # o, NEW f, owners[p] # NoRow, owners[p].file = f,
             f # NoRow
      PROVE  files'[f] = files[f] /\ r.file # f
  <2>1. /\ f \in Files /\ files[f] # NoRow
        /\ \A q \in Owners : owners[q] # NoRow /\ owners[q].file = f => q = p
    BY <1>2, IconWas
  <2>2. files'[f] = files[f] BY <2>1, WrittenRows
  <2>3. CASE Uploading(w)
    <3>1. r.file = req[w].file /\ files[req[w].file] = NoRow
      BY <2>3, WrittenRows DEF OwnerWritten
    <3>2. QED BY <2>1, <2>2, <3>1
  <2>4. CASE ~Uploading(w)
    <3>1. r.file = NoRow \/ (owners[o] # NoRow /\ r.file = owners[o].file)
      BY <1>1, <2>4 DEF OwnerWritten
    <3>2. QED BY <1>1, <1>2, <2>1, <2>2, <3>1
  <2>5. QED BY <2>3, <2>4
<1>3. ASSUME NEW p \in Owners, p # o PROVE IconOK(p)'
  <2>1. owners'[p] = owners[p] BY <1>1, <1>3, WrittenRows
  <2>2. CASE owners[p] = NoRow BY <2>1, <2>2 DEF IconOK
  <2>3. CASE owners[p] # NoRow
    <3>1. PICK f : owners[p].file = f OBVIOUS
    <3>2. CASE f # NoRow
      <4>1. /\ files[f] # NoRow
            /\ \A q \in Owners : owners[q] # NoRow /\ owners[q].file = f => q = p
            /\ owners[p].status = "READY" =>
                  files[f].processed /\ <<f, "processed">> \in objects
        BY <2>3, <3>1, <3>2, IconWas
      <4>2. files'[f] = files[f] /\ r.file # f BY <1>2, <1>3, <2>3, <3>1, <3>2
      <4>3. \A q \in Owners : owners'[q] # NoRow /\ owners'[q].file = f => q = p
        BY <1>1, <4>1, <4>2, WrittenRows
      <4>4. QED BY <2>1, <3>1, <4>1, <4>2, <4>3, IconShown
    <3>3. CASE f = NoRow BY <2>1, <3>1, <3>3, IconShown
    <3>4. QED BY <3>2, <3>3
  <2>4. QED BY <2>2, <2>3
<1>4. IconOK(o)'
  <2>1. PICK f : r.file = f OBVIOUS
  <2>2. ASSUME f # NoRow
        PROVE  \A q \in Owners : owners'[q] # NoRow /\ owners'[q].file = f => q = o
    <3>1. ASSUME NEW q \in Owners, q # o, owners'[q] # NoRow, owners'[q].file = f
          PROVE  FALSE
      <4>1. owners'[q] = owners[q] BY <1>1, <3>1, WrittenRows
      <4>2. QED BY <1>2, <2>1, <2>2, <3>1, <4>1
    <3>2. QED BY <3>1
  <2>3. CASE Uploading(w)
    <3>1. f = req[w].file /\ r.status = "PENDING" BY <2>1, <2>3 DEF OwnerWritten
    <3>2. files'[f] # NoRow BY <2>3, <3>1, WrittenRows
    <3>3. QED BY <1>1, <2>1, <2>2, <3>1, <3>2, IconShown
  <2>4. CASE ~Uploading(w)
    <3>1. files' = files BY <2>4, WrittenRows
    <3>2. f = NoRow \/ /\ owners[o] # NoRow /\ owners[o].file = f
                       /\ r.status = owners[o].status
      BY <1>1, <2>1, <2>4 DEF OwnerWritten
    <3>3. CASE f = NoRow BY <1>1, <2>1, <3>3, IconShown
    <3>4. CASE f # NoRow
      <4>1. /\ files[f] # NoRow
            /\ r.status = "READY" => files[f].processed /\ <<f, "processed">> \in objects
        BY <1>1, <3>2, <3>4, IconWas
      <4>2. QED BY <1>1, <2>1, <2>2, <3>1, <3>4, <4>1, IconShown
    <3>5. QED BY <3>3, <3>4
  <2>5. QED BY <2>3, <2>4
<1>5. QED BY <1>3, <1>4 DEF IconsOK

LEMMA WrittenRespects ==
    ASSUME IconInv, NEW w \in Workers, NEW r, OwnerWritten(w, r),
           NEW v \in Workers \ {w}
    PROVE  Respected(v)
<1>1. /\ RequestOK(v) /\ RequestOK(w) /\ Apart(v, w)
      /\ pc[w] # "idle" /\ req[w].id \in Owners
  BY WrittenRows DEF IconInv, RequestsOK, RequestsApart
<1>2. ASSUME Creating(v) \/ Updating(v)
      PROVE  req[v].id \in Owners /\ req[v].id # req[w].id
  <2>1. pc[v] # "idle" /\ req[v].id \in Owners
    BY <1>1, <1>2 DEF RequestOK, Creating, Updating, Requests
  <2>2. Creating(v) => owners[req[v].id] = NoRow BY <1>1, <2>1 DEF RequestOK
  <2>3. Updating(v) => req[v].id \in Live BY <1>1, <2>1 DEF RequestOK
  <2>4. CASE Creating(w)
    <3>1. owners[req[w].id] = NoRow BY <1>1, <2>4 DEF RequestOK
    <3>2. QED BY <1>1, <1>2, <2>1, <2>3, <2>4, <3>1 DEF Apart, Live
  <2>5. CASE Updating(w)
    <3>1. req[w].id \in Live BY <1>1, <2>5 DEF RequestOK
    <3>2. QED BY <1>1, <1>2, <2>1, <2>2, <2>5, <3>1 DEF Apart, Live
  <2>6. CASE req[w].id \in Live /\ OwnerFree(req[w].id)
    BY <1>2, <2>1, <2>2, <2>6 DEF Live, OwnerFree, Updating
  <2>7. QED BY <2>4, <2>5, <2>6 DEF OwnerWritten
<1>3. Creating(v) => owners'[req[v].id] = NoRow
  BY <1>1, <1>2, WrittenRows DEF RequestOK, Creating
<1>4. Updating(v) => owners'[req[v].id] = owners[req[v].id]
  BY <1>2, WrittenRows
<1>5. ASSUME Uploading(v) PROVE files'[req[v].file] = NoRow
  <2>1. files[req[v].file] = NoRow /\ req[v].file \in Files
    BY <1>1, <1>5 DEF RequestOK, Uploading, Creating, Updating
  <2>2. CASE Uploading(w) BY <1>1, <1>5, <2>1, <2>2, WrittenRows DEF Apart
  <2>3. CASE ~Uploading(w) BY <2>1, <2>3, WrittenRows
  <2>4. QED BY <2>2, <2>3
<1>6. QED BY <1>3, <1>4, <1>5 DEF Respected

\* A commit adds tasks, for files that are there and icons that are gone.
TasksWritten ==
    /\ tasks' \in [TaskIds -> TaskRow \cup {NoRow}]
    /\ \A t \in TaskIds :
          tasks'[t] # tasks[t] =>
             /\ tasks[t] = NoRow
             /\ files'[t[2]] # NoRow
             /\ t[1] = "remove" => Gone(t[2])'
             /\ \A f \in Files : tasks'[t].old = f => Gone(f)'

LEMMA CommitKeeps ==
    ASSUME IconInv, NEW w \in Workers, NEW r, OwnerWritten(w, r), TasksWritten,
           Rest(w), TypedThreads, UNCHANGED <<objects, queue, at, doing>>,
           pc'[w] \in {"idle", "send"}, RequestOK(w)'
    PROVE  IconInv'
<1>1. TablesOK /\ ThreadsOK /\ RequestsOK /\ RequestsApart /\ TasksOK
  BY DEF IconInv
<1>2. TablesOK' BY <1>1, WrittenRows DEF TablesOK, TasksWritten
<1>3. ThreadsOK' BY <1>1 DEF ThreadsOK, TypedThreads
<1>4. Steady BY WrittenFiles DEF Steady, TaskSteady, TasksWritten
<1>5. RequestsOK'
  <2>1. ASSUME NEW v \in Workers \ {w} PROVE RequestOK(v)'
    BY <1>4, WrittenRespects, RequestFrame DEF Rest
  <2>2. QED BY <2>1 DEF RequestsOK
<1>6. RequestsApart'
  <2>1. ASSUME NEW v \in Workers, NEW u \in Workers, v # u PROVE Apart(v, u)'
    <3>1. CASE v = w \/ u = w
      BY <3>1 DEF Apart, Creating, Updating, Uploading
    <3>2. CASE v # w /\ u # w
      BY <1>1, <2>1, <3>2, ApartFrame DEF RequestsApart, Rest
    <3>3. QED BY <3>1, <3>2
  <2>2. QED BY <2>1 DEF RequestsApart
<1>7. IconsOK' BY WrittenIcons
<1>8. TasksOK'
  <2>1. ASSUME NEW t \in TaskIds PROVE TaskOK(t)'
    <3>1. TaskOK(t) BY <1>1 DEF TasksOK
    <3>2. queue'[t] > 0 => tasks'[t] # NoRow
      BY <1>4, <3>1 DEF TaskOK, Steady, TaskSteady
    <3>3. CASE tasks[t] # NoRow BY <1>4, <3>2, <3>3, TaskFrame DEF TaskOK
    <3>4. CASE tasks[t] = NoRow BY <3>2, <3>4 DEF TaskOK, TasksWritten
    <3>5. QED BY <3>3, <3>4
  <2>2. QED BY <2>1 DEF TasksOK
<1>9. ConsumersOK' BY <1>4, DoingFrame DEF ConsumersOK
<1>10. QED BY <1>2, <1>3, <1>5, <1>6, <1>7, <1>8, <1>9 DEF IconInv

LEMMA CommittedKeeps ==
    ASSUME IconInv, NEW w \in Workers, NEW r, OwnerWritten(w, r), TasksWritten,
           NEW sends \in BOOLEAN, Committed(w, sends),
           sends => TaskOf(w) \in TaskIds /\ tasks'[TaskOf(w)] # NoRow
    PROVE  IconInv'
<1>1. /\ pc \in [Workers -> ApiSteps] /\ DOMAIN req = Workers /\ DOMAIN got = Workers
  BY DEF IconInv, ThreadsOK
<1>2. UNCHANGED <<objects, queue>> BY DEF Committed
<1>3. CASE sends
  <2>1. pc' = [pc EXCEPT ![w] = "send"] /\ UNCHANGED <<req, got, at, doing>>
    BY <1>3 DEF Committed, Goto, celery
  <2>2. TypedThreads BY <1>1, <2>1 DEF TypedThreads, ApiSteps
  <2>3. Rest(w) BY <1>1, <2>1 DEF Rest, SameRequest
  <2>4. pc'[w] = "send" BY <1>1, <2>1
  <2>5. RequestOK(w) /\ pc[w] # "idle" /\ req[w] \in Requests
    BY WrittenRows, RequestKnown
  <2>6. TaskOf(w)' = TaskOf(w) BY <2>1 DEF TaskOf
  <2>7. RequestOK(w)'
    BY <1>3, <2>1, <2>4, <2>5, <2>6 DEF RequestOK, Creating, Updating, Uploading
  <2>8. QED BY <1>2, <2>1, <2>2, <2>3, <2>4, <2>7, CommitKeeps
<1>4. CASE ~sends
  <2>1. /\ pc' = [pc EXCEPT ![w] = "idle"] /\ req' = [req EXCEPT ![w] = NoRow]
        /\ got' = [got EXCEPT ![w] = NoRow] /\ UNCHANGED <<at, doing>>
    BY <1>4 DEF Committed, Answer, Goto, celery
  <2>2. TypedThreads BY <1>1, <2>1 DEF TypedThreads, ApiSteps
  <2>3. Rest(w) BY <1>1, <2>1 DEF Rest, SameRequest
  <2>4. pc'[w] = "idle" /\ req'[w] = NoRow BY <1>1, <2>1
  <2>5. RequestOK(w)' BY <2>4 DEF RequestOK
  <2>6. QED BY <1>2, <2>1, <2>2, <2>3, <2>4, <2>5, CommitKeeps
<1>5. QED BY <1>3, <1>4

\* The task of an upload: its file is new, so it is, and what it replaces is
\* gone once the owner shows the new file.
LEMMA ConvertWritten ==
    ASSUME IconInv, NEW w \in Workers, NEW r, OwnerWritten(w, r), Uploading(w),
           UNCHANGED objects, NEW old \in Files \cup {NoRow},
           tasks' = [tasks EXCEPT ![<<"convert", req[w].file>>] =
                        [status |-> "PENDING", old |-> old]],
           old # NoRow => owners[req[w].id] # NoRow /\ owners[req[w].id].file = old
    PROVE  /\ TasksWritten /\ TaskOf(w) \in TaskIds
           /\ tasks'[TaskOf(w)] # NoRow
<1>1. PICK f \in Files : f = req[w].file BY WrittenRows
<1>2. PICK t \in TaskIds : t = <<"convert", f>> BY DEF TaskIds
<1>3. PICK q : q = [status |-> "PENDING", old |-> old] OBVIOUS
<1>4. q \in TaskRow /\ q # NoRow /\ q.old = old
  <2>1. q \in TaskRow /\ q.old = old BY <1>3 DEF TaskRow
  <2>2. QED BY <2>1, NoRowIsNone
<1>5. tasks \in [TaskIds -> TaskRow \cup {NoRow}] BY DEF IconInv, TablesOK
<1>6. tasks' = [tasks EXCEPT ![t] = q] BY <1>1, <1>2, <1>3
<1>7. files[f] = NoRow /\ files'[f] = NewFile /\ NewFile # NoRow BY <1>1, WrittenRows
<1>8. t[1] = "convert" /\ t[2] = f BY <1>2
<1>9. tasks[t] = NoRow BY <1>7, <1>8 DEF IconInv, TasksOK, TaskOK
<1>10. ASSUME old # NoRow PROVE Gone(old)'
  <2>1. PICK o \in Owners : o = req[w].id /\ owners'[o] = r /\ owners[o].file = old
                            /\ owners[o] # NoRow
    BY <1>10, WrittenRows
  <2>2. /\ old \in Files /\ files[old] # NoRow
        /\ \A p \in Owners : owners[p] # NoRow /\ owners[p].file = old => p = o
    BY <1>10, <2>1, IconWas
  <2>3. old # f BY <1>7, <2>2
  <2>4. files'[old] = files[old] BY <1>1, <2>2, <2>3, WrittenRows
  <2>5. r.file = f BY <1>1 DEF OwnerWritten
  <2>6. ASSUME NEW p \in Owners, owners'[p] # NoRow PROVE owners'[p].file # old
    <3>1. CASE p = o BY <2>1, <2>3, <2>5, <3>1
    <3>2. CASE p # o BY <2>1, <2>2, <2>6, <3>2, WrittenRows
    <3>3. QED BY <3>1, <3>2
  <2>7. QED BY <2>2, <2>4, <2>6 DEF Gone, Showing
<1>11. TasksWritten
  <2>1. \A g \in Files : q.old = g => Gone(g)' BY <1>4, <1>10, NoRowIsNone
  <2>2. tasks' \in [TaskIds -> TaskRow \cup {NoRow}] BY <1>4, <1>5, <1>6
  <2>3. \A u \in TaskIds : tasks'[u] # tasks[u] => u = t /\ tasks'[u] = q
    BY <1>5, <1>6
  <2>4. QED BY <1>7, <1>8, <1>9, <2>1, <2>2, <2>3 DEF TasksWritten
<1>12. TaskOf(w) = t BY <1>1, <1>2 DEF TaskOf, Uploading
<1>13. QED BY <1>4, <1>5, <1>6, <1>11, <1>12

\* The task of a deletion: the owner's icon is gone.
LEMMA RemoveWritten ==
    ASSUME IconInv, NEW w \in Workers, NEW r, OwnerWritten(w, r), ~Uploading(w),
           r.file = NoRow, UNCHANGED objects, NEW old \in Files,
           tasks' = [tasks EXCEPT ![<<"remove", old>>] =
                        [status |-> "PENDING", old |-> NoRow]],
           owners[req[w].id] # NoRow, owners[req[w].id].file = old
    PROVE  /\ TasksWritten /\ <<"remove", old>> \in TaskIds
           /\ tasks'[<<"remove", old>>] # NoRow
<1>1. PICK o \in Owners : o = req[w].id /\ owners'[o] = r /\ owners[o].file = old
                          /\ owners[o] # NoRow
  BY WrittenRows
<1>2. PICK t \in TaskIds : t = <<"remove", old>> BY DEF TaskIds
<1>3. PICK q : q = [status |-> "PENDING", old |-> NoRow] OBVIOUS
<1>4. q \in TaskRow /\ q # NoRow /\ q.old = NoRow
  <2>1. q \in TaskRow /\ q.old = NoRow BY <1>3 DEF TaskRow
  <2>2. QED BY <2>1, NoRowIsNone
<1>5. tasks \in [TaskIds -> TaskRow \cup {NoRow}] BY DEF IconInv, TablesOK
<1>6. tasks' = [tasks EXCEPT ![t] = q] BY <1>2, <1>3
<1>7. old # NoRow BY NoRowIsNone
<1>8. /\ old \in Files /\ files[old] # NoRow
      /\ \A p \in Owners : owners[p] # NoRow /\ owners[p].file = old => p = o
  BY <1>1, <1>7, IconWas, ZenonT(30)
<1>9. files' = files BY WrittenRows
<1>10. ASSUME NEW p \in Owners, owners'[p] # NoRow PROVE owners'[p].file # old
  <2>1. CASE p = o BY <1>1, <1>7, <2>1
  <2>2. CASE p # o BY <1>1, <1>8, <1>10, <2>2, WrittenRows
  <2>3. QED BY <2>1, <2>2
<1>11. Gone(old)' BY <1>8, <1>9, <1>10 DEF Gone, Showing
<1>12. t[1] = "remove" /\ t[2] = old BY <1>2
<1>13. tasks[t] = NoRow
  <2>1. o \in Showing(old) BY <1>1 DEF Showing
  <2>2. QED BY <1>12, <2>1 DEF IconInv, TasksOK, TaskOK, Gone
<1>14. TasksWritten
  <2>1. \A g \in Files : q.old # g BY <1>4, NoRowIsNone
  <2>2. tasks' \in [TaskIds -> TaskRow \cup {NoRow}] BY <1>4, <1>5, <1>6
  <2>3. \A u \in TaskIds : tasks'[u] # tasks[u] => u = t /\ tasks'[u] = q
    BY <1>5, <1>6
  <2>4. QED BY <1>8, <1>9, <1>11, <1>12, <1>13, <2>1, <2>2, <2>3 DEF TasksWritten
<1>15. QED BY <1>2, <1>4, <1>5, <1>6, <1>14

LEMMA NoTaskWritten ==
    ASSUME IconInv, UNCHANGED tasks
    PROVE  TasksWritten
  BY DEF IconInv, TablesOK, TasksWritten

LEMMA CreateCommitKeeps ==
    ASSUME IconInv, NEW w \in Workers, CreateCommit(w)
    PROVE  IconInv'
<1>1. CASE NameTaken(w)
  <2>1. Refuse(w) BY <1>1 DEF CreateCommit
  <2>2. QED BY <2>1, RefuseKeeps
<1>2. CASE ~NameTaken(w)
  <2>1. PICK r : r = CreatedOwner(w) OBVIOUS
  <2>2. /\ pc[w] = "createCommit" /\ owners' = [owners EXCEPT ![req[w].id] = r]
        /\ files' = WithFile(w) /\ tasks' = WithTask(w, NoRow, FALSE)
        /\ Committed(w, req[w].icon = "UPLOAD")
    BY <1>2, <2>1 DEF CreateCommit
  <2>3. Creating(w) /\ (Uploading(w) <=> req[w].icon = "UPLOAD")
    BY <2>2 DEF Creating, Uploading
  <2>4. /\ req[w] \in Requests /\ req[w].name \in Names
        /\ req[w].icon = "UPLOAD" <=> req[w].file \in Files
    BY <2>2, <2>3, RequestKnown DEF RequestOK
  <2>5. req[w].file \in Files \cup {NoRow} BY <2>4 DEF Requests
  <2>6. /\ r \in OwnerRow /\ r.file = req[w].file
        /\ req[w].icon = "UPLOAD" => r.status = "PENDING"
    BY <2>1, <2>4, <2>5 DEF CreatedOwner, OwnerRow
  <2>7. files' = IF Uploading(w) THEN [files EXCEPT ![req[w].file] = NewFile] ELSE files
    BY <2>2, <2>3 DEF WithFile
  <2>8. OwnerWritten(w, r)
    BY <2>2, <2>3, <2>4, <2>5, <2>6, <2>7 DEF OwnerWritten
  <2>9. UNCHANGED objects BY <2>2 DEF Committed
  <2>10. CASE req[w].icon = "UPLOAD"
    <3>1. tasks' = [tasks EXCEPT ![<<"convert", req[w].file>>] =
                       [status |-> "PENDING", old |-> NoRow]]
      BY <2>2, <2>10 DEF WithTask
    <3>2. TasksWritten /\ TaskOf(w) \in TaskIds /\ tasks'[TaskOf(w)] # NoRow
      BY <2>3, <2>8, <2>9, <2>10, <3>1, ConvertWritten
    <3>3. QED BY <2>2, <2>8, <3>2, CommittedKeeps
  <2>11. CASE req[w].icon # "UPLOAD"
    <3>1. UNCHANGED tasks BY <2>2, <2>11 DEF WithTask
    <3>2. QED BY <2>2, <2>8, <2>11, <3>1, NoTaskWritten, CommittedKeeps
  <2>12. QED BY <2>10, <2>11
<1>3. QED BY <1>1, <1>2

\* What save() writes for an update.
LEMMA UpdatedRow ==
    ASSUME IconInv, NEW w \in Workers, pc[w] = "updateCommit"
    PROVE  /\ UpdatedOwner(w) \in OwnerRow
           /\ got[w] \in OwnerRow /\ got[w] = owners[req[w].id]
           /\ req[w].id \in Live /\ UpdatedOwner(w).name = req[w].name
           /\ UpdatedOwner(w).version = got[w].version + 1 /\ ~UpdatedOwner(w).deleted
           /\ req[w].icon = "UPLOAD" =>
                 UpdatedOwner(w).file = req[w].file /\ UpdatedOwner(w).status = "PENDING"
           /\ req[w].icon # "UPLOAD" /\ Removed(w, got[w]) =>
                 UpdatedOwner(w).file = NoRow /\ UpdatedOwner(w).status = "READY"
           /\ req[w].icon # "UPLOAD" /\ ~Removed(w, got[w]) =>
                 /\ UpdatedOwner(w).file = got[w].file
                 /\ UpdatedOwner(w).status = got[w].status
<1>1. Updating(w) BY DEF Updating
<1>2. /\ req[w].id \in Live /\ got[w] = owners[req[w].id] /\ req[w].name \in Names
      /\ req[w] \in Requests /\ (req[w].icon = "UPLOAD" <=> req[w].file \in Files)
  BY <1>1, RequestKnown DEF RequestOK
<1>3. got[w] \in OwnerRow /\ ~got[w].deleted BY <1>2, RowsKnown DEF Live, IconInv
<1>4. PICK g \in OwnerRow, n \in Names : g = got[w] /\ n = req[w].name BY <1>2, <1>3
<1>5. PICK named : named = [g EXCEPT !.name = n, !.version = @ + 1] OBVIOUS
<1>6. /\ named \in OwnerRow /\ named.file = g.file /\ named.status = g.status
      /\ named.name = n /\ named.version = g.version + 1 /\ named.deleted = g.deleted
  <2>1. PICK v \in Nat : v = g.version + 1 BY DEF OwnerRow
  <2>2. named = [g EXCEPT !.name = n, !.version = v] BY <1>5, <2>1 DEF OwnerRow
  <2>3. QED BY <2>1, <2>2 DEF OwnerRow
<1>7. CASE req[w].icon = "UPLOAD"
  <2>1. PICK f \in Files : f = req[w].file BY <1>2, <1>7
  <2>2. UpdatedOwner(w) = [named EXCEPT !.file = f, !.status = "PENDING"]
    BY <1>4, <1>5, <1>7, <2>1 DEF UpdatedOwner
  <2>3. PICK r : r = [named EXCEPT !.file = f, !.status = "PENDING"] OBVIOUS
  <2>4. /\ r \in OwnerRow /\ r.file = f /\ r.status = "PENDING" /\ r.name = n
        /\ r.version = named.version /\ r.deleted = named.deleted
    BY <1>6, <2>3 DEF OwnerRow
  <2>5. QED BY <1>2, <1>3, <1>4, <1>6, <1>7, <2>1, <2>2, <2>3, <2>4
<1>8. CASE req[w].icon # "UPLOAD" /\ Removed(w, got[w])
  <2>1. UpdatedOwner(w) = [named EXCEPT !.file = NoRow, !.status = "READY"]
    BY <1>4, <1>5, <1>8 DEF UpdatedOwner
  <2>2. PICK r : r = [named EXCEPT !.file = NoRow, !.status = "READY"] OBVIOUS
  <2>3. /\ r \in OwnerRow /\ r.file = NoRow /\ r.status = "READY" /\ r.name = n
        /\ r.version = named.version /\ r.deleted = named.deleted
    BY <1>6, <2>2 DEF OwnerRow
  <2>4. QED BY <1>2, <1>3, <1>4, <1>6, <1>8, <2>1, <2>2, <2>3
<1>9. CASE req[w].icon # "UPLOAD" /\ ~Removed(w, got[w])
  <2>1. UpdatedOwner(w) = named BY <1>4, <1>5, <1>9 DEF UpdatedOwner
  <2>2. QED BY <1>2, <1>3, <1>4, <1>6, <1>9, <2>1
<1>10. QED BY <1>7, <1>8, <1>9

LEMMA UpdateCommitKeeps ==
    ASSUME IconInv, NEW w \in Workers, UpdateCommit(w)
    PROVE  IconInv'
<1>1. CASE NameTaken(w)
  <2>1. Refuse(w) BY <1>1 DEF UpdateCommit
  <2>2. QED BY <2>1, RefuseKeeps
<1>2. CASE ~NameTaken(w)
  <2>1. PICK r : r = UpdatedOwner(w) OBVIOUS
  <2>2. /\ pc[w] = "updateCommit" /\ owners' = [owners EXCEPT ![req[w].id] = r]
        /\ files' = WithFile(w) /\ tasks' = WithTask(w, got[w].file, Removed(w, got[w]))
        /\ Committed(w, req[w].icon = "UPLOAD" \/ Removed(w, got[w]))
    BY <1>2, <2>1 DEF UpdateCommit
  <2>3. Updating(w) /\ (Uploading(w) <=> req[w].icon = "UPLOAD")
    BY <2>2 DEF Updating, Uploading
  <2>4. PICK old : old = got[w].file OBVIOUS
  <2>5. /\ r \in OwnerRow /\ old \in Files \cup {NoRow} /\ req[w].id \in Live
        /\ owners[req[w].id] # NoRow /\ owners[req[w].id].file = old
        /\ got[w] = owners[req[w].id]
    BY <2>1, <2>2, <2>4, UpdatedRow DEF OwnerRow, Live
  <2>6. /\ req[w].icon = "UPLOAD" => r.file = req[w].file /\ r.status = "PENDING"
        /\ req[w].icon # "UPLOAD" /\ Removed(w, got[w]) => r.file = NoRow
        /\ req[w].icon # "UPLOAD" /\ ~Removed(w, got[w]) =>
              r.file = got[w].file /\ r.status = got[w].status
    BY <2>1, <2>2, UpdatedRow
  <2>7. files' = IF Uploading(w) THEN [files EXCEPT ![req[w].file] = NewFile] ELSE files
    BY <2>2, <2>3 DEF WithFile
  <2>8. OwnerWritten(w, r)
    BY <2>2, <2>3, <2>5, <2>6, <2>7 DEF OwnerWritten
  <2>9. UNCHANGED objects BY <2>2 DEF Committed
  <2>10. CASE req[w].icon = "UPLOAD"
    <3>1. tasks' = [tasks EXCEPT ![<<"convert", req[w].file>>] =
                       [status |-> "PENDING", old |-> old]]
      BY <2>2, <2>4, <2>10 DEF WithTask
    <3>2. TasksWritten /\ TaskOf(w) \in TaskIds /\ tasks'[TaskOf(w)] # NoRow
      BY <2>3, <2>5, <2>8, <2>9, <2>10, <3>1, ConvertWritten
    <3>3. QED BY <2>2, <2>8, <3>2, CommittedKeeps
  <2>11. CASE req[w].icon # "UPLOAD" /\ Removed(w, got[w])
    <3>1. old \in Files BY <2>4, <2>5, <2>11 DEF Removed
    <3>2. tasks' = [tasks EXCEPT ![<<"remove", old>>] =
                       [status |-> "PENDING", old |-> NoRow]]
      BY <2>2, <2>4, <2>11 DEF WithTask
    <3>3. /\ TasksWritten /\ <<"remove", old>> \in TaskIds
          /\ tasks'[<<"remove", old>>] # NoRow
      BY <2>3, <2>5, <2>6, <2>8, <2>9, <2>11, <3>1, <3>2, RemoveWritten
    <3>4. TaskOf(w) = <<"remove", old>> BY <2>4, <2>11 DEF TaskOf
    <3>5. QED BY <2>2, <2>8, <3>3, <3>4, CommittedKeeps
  <2>12. CASE req[w].icon # "UPLOAD" /\ ~Removed(w, got[w])
    <3>1. UNCHANGED tasks BY <2>2, <2>12 DEF WithTask
    <3>2. QED BY <2>2, <2>8, <2>12, <3>1, NoTaskWritten, CommittedKeeps
  <2>13. QED BY <2>10, <2>11, <2>12
<1>3. QED BY <1>1, <1>2

LEMMA DeleteKeeps ==
    ASSUME IconInv, NEW w \in Workers, Delete(w)
    PROVE  IconInv'
<1>1. CASE ~Found(w)
  <2>1. Refuse(w) BY <1>1 DEF Delete
  <2>2. QED BY <2>1, RefuseKeeps
<1>2. CASE Found(w)
  <2>1. /\ owners' = [owners EXCEPT ![req[w].id].deleted = TRUE]
        /\ UNCHANGED <<files, tasks>> /\ Committed(w, FALSE)
        /\ pc[w] = "delete" /\ req[w].id \in Live /\ OwnerFree(req[w].id)
    BY <1>2 DEF Delete, Found
  <2>2. PICK o \in Owners : o = req[w].id BY <2>1 DEF Live
  <2>3. owners \in [Owners -> OwnerRow \cup {NoRow}] /\ owners[o] \in OwnerRow
    BY <2>1, <2>2, RowsKnown DEF Live, IconInv, TablesOK
  <2>4. PICK g \in OwnerRow : g = owners[o] BY <2>3
  <2>5. PICK r : r = [g EXCEPT !.deleted = TRUE] OBVIOUS
  <2>6. r \in OwnerRow /\ r.file = g.file /\ r.status = g.status
    BY <2>5 DEF OwnerRow
  <2>7. owners' = [owners EXCEPT ![o] = r] BY <2>1, <2>2, <2>3, <2>4, <2>5
  <2>8. ~Uploading(w) BY <2>1 DEF Uploading, Creating, Updating
  <2>9. owners[o] # NoRow BY <2>1, <2>2 DEF Live
  <2>10. OwnerWritten(w, r)
    BY <2>1, <2>2, <2>4, <2>6, <2>7, <2>8, <2>9 DEF OwnerWritten
  <2>11. QED BY <2>1, <2>10, NoTaskWritten, CommittedKeeps
<1>3. QED BY <1>1, <1>2

LEMMA OwnerStepKeeps ==
    ASSUME IconInv, NEW w \in Workers, OwnerStep(w)
    PROVE  IconInv'
  BY CheckKeeps, StoreKeeps, CreateCommitKeeps, UpdateLockKeeps, UpdateCommitKeeps,
     DeleteKeeps, SendKeeps DEF OwnerStep

(***************************************************************************)
(* Steps of a task: they mark rows and move objects, and add no row.       *)
(***************************************************************************)
OwnersMarked ==
    /\ owners' \in [Owners -> OwnerRow \cup {NoRow}]
    /\ \A o \in Owners :
          /\ owners'[o] = NoRow <=> owners[o] = NoRow
          /\ owners[o] # NoRow => owners'[o].file = owners[o].file
          /\ ~OwnerFree(o) => owners'[o] = owners[o]

FilesMarked ==
    /\ files' \in [Files -> FileRow \cup {NoRow}]
    /\ \A f \in Files :
          /\ files'[f] = NoRow <=> files[f] = NoRow
          /\ files[f] # NoRow /\ files[f].processed => files'[f].processed

TasksMarked ==
    /\ tasks' \in [TaskIds -> TaskRow \cup {NoRow}]
    /\ \A t \in TaskIds :
          /\ tasks'[t] = NoRow <=> tasks[t] = NoRow
          /\ tasks[t] # NoRow => tasks'[t].old = tasks[t].old

\* A converted image goes only when its file is gone.
ObjectsKept ==
    /\ objects' \subseteq Objects
    /\ \A f \in Files :
          <<f, "processed">> \in objects =>
             <<f, "processed">> \in objects' \/ Showing(f) = {}

QueueTaken ==
    /\ queue' \in [TaskIds -> 0..MaxDeliveries]
    /\ \A t \in TaskIds : queue'[t] > 0 => queue[t] > 0

\* READY is said of an icon only when its image is there.
ReadyTrue ==
    \A o \in Owners :
       owners[o] # NoRow /\ owners[o].file # NoRow /\ owners'[o].status = "READY" =>
          \/ owners[o].status = "READY"
          \/ /\ files'[owners[o].file].processed
             /\ <<owners[o].file, "processed">> \in objects'

ConsumerMoves(c) ==
    /\ at' \in [Consumers -> {"idle"} \cup ConvertSteps \cup RemoveSteps]
    /\ DOMAIN doing' = Consumers
    /\ \A d \in Consumers \ {c} : at'[d] = at[d] /\ doing'[d] = doing[d]

LEMMA MarkedSteady ==
    ASSUME IconInv, OwnersMarked, FilesMarked, TasksMarked, ObjectsKept
    PROVE  Steady /\ \A f \in Files : Showing(f)' = Showing(f)
<1>1. \A f \in Files : Showing(f)' = Showing(f)
  BY DEF OwnersMarked, Showing
<1>2. QED BY <1>1
          DEF Steady, FileSteady, TaskSteady, FilesMarked, TasksMarked, ObjectsKept

LEMMA MarkedIcon ==
    ASSUME IconInv, OwnersMarked, FilesMarked, ObjectsKept, ReadyTrue,
           NEW o \in Owners
    PROVE  IconOK(o)'
<1>1. CASE owners[o] = NoRow BY <1>1 DEF OwnersMarked, IconOK
<1>2. CASE owners[o] # NoRow
  <2>1. PICK r : r = owners'[o] OBVIOUS
  <2>2. PICK f : f = owners[o].file OBVIOUS
  <2>3. r.file = f BY <1>2, <2>1, <2>2 DEF OwnersMarked
  <2>4. CASE f = NoRow BY <2>1, <2>3, <2>4, IconShown
  <2>5. CASE f # NoRow
    <3>1. /\ f \in Files /\ files[f] # NoRow
          /\ \A q \in Owners : owners[q] # NoRow /\ owners[q].file = f => q = o
          /\ owners[o].status = "READY" =>
                files[f].processed /\ <<f, "processed">> \in objects
      BY <1>2, <2>2, <2>5, IconWas
    <3>2. files'[f] # NoRow BY <3>1 DEF FilesMarked
    <3>3. \A q \in Owners : owners'[q] # NoRow /\ owners'[q].file = f => q = o
      BY <3>1 DEF OwnersMarked
    <3>4. ASSUME owners[o].status = "READY"
          PROVE  files'[f].processed /\ <<f, "processed">> \in objects'
      <4>1. Showing(f) # {} BY <1>2, <2>2 DEF Showing
      <4>2. QED BY <3>1, <3>4, <4>1 DEF FilesMarked, ObjectsKept
    <3>5. r.status = "READY" => files'[f].processed /\ <<f, "processed">> \in objects'
      BY <1>2, <2>1, <2>2, <2>5, <3>4 DEF ReadyTrue
    <3>6. QED BY <2>1, <2>3, <3>2, <3>3, <3>5, IconShown
  <2>6. QED BY <2>4, <2>5
<1>3. QED BY <1>1, <1>2

LEMMA MarksKeep ==
    ASSUME IconInv, NEW c \in Consumers, UNCHANGED api, ConsumerMoves(c),
           OwnersMarked, FilesMarked, TasksMarked, ObjectsKept, QueueTaken,
           ReadyTrue, DoingOK(c)'
    PROVE  IconInv'
<1>1. TablesOK /\ ThreadsOK /\ RequestsOK /\ RequestsApart /\ TasksOK
  BY DEF IconInv
<1>2. TablesOK'
  BY DEF TablesOK, OwnersMarked, FilesMarked, TasksMarked, ObjectsKept, QueueTaken
<1>3. ThreadsOK' BY <1>1 DEF ThreadsOK, ConsumerMoves, api
<1>4. Steady BY MarkedSteady
<1>5. \A v \in Workers : SameRequest(v) BY DEF SameRequest, api
<1>6. RequestsOK'
  <2>1. ASSUME NEW v \in Workers PROVE RequestOK(v)'
    <3>1. RequestOK(v) BY <1>1 DEF RequestsOK
    <3>2. Respected(v)
      <4>1. ASSUME Creating(v) \/ Updating(v) \/ Uploading(v)
            PROVE  /\ pc[v] # "idle" /\ req[v] \in Requests /\ req[v].id \in Owners
                   /\ Uploading(v) => req[v].file \in Files
        BY <3>1, <4>1 DEF RequestOK, Creating, Updating, Uploading, Requests
      <4>2. Creating(v) => owners'[req[v].id] = NoRow
        BY <3>1, <4>1 DEF RequestOK, OwnersMarked
      <4>3. Updating(v) => owners'[req[v].id] = owners[req[v].id]
        BY <4>1 DEF Updating, OwnerFree, OwnersMarked
      <4>4. Uploading(v) => files'[req[v].file] = NoRow
        BY <3>1, <4>1 DEF RequestOK, FilesMarked
      <4>5. QED BY <4>2, <4>3, <4>4 DEF Respected
    <3>3. QED BY <1>4, <1>5, <3>2, RequestFrame
  <2>2. QED BY <2>1 DEF RequestsOK
<1>7. RequestsApart' BY <1>1, <1>5, ApartFrame DEF RequestsApart
<1>8. IconsOK' BY MarkedIcon DEF IconsOK
<1>9. TasksOK'
  <2>1. ASSUME NEW t \in TaskIds PROVE TaskOK(t)'
    <3>1. TaskOK(t) BY <1>1 DEF TasksOK
    <3>2. queue'[t] > 0 => tasks'[t] # NoRow
      BY <3>1 DEF TaskOK, QueueTaken, TasksMarked
    <3>3. tasks'[t] # NoRow => tasks[t] # NoRow BY DEF TasksMarked
    <3>4. QED BY <1>4, <3>2, <3>3, TaskFrame DEF TaskOK
  <2>2. QED BY <2>1 DEF TasksOK
<1>10. ConsumersOK'
  <2>1. ASSUME NEW d \in Consumers PROVE DoingOK(d)'
    BY <1>4, DoingFrame DEF ConsumerMoves
  <2>2. QED BY <2>1 DEF ConsumersOK
<1>11. QED BY <1>2, <1>3, <1>6, <1>7, <1>8, <1>9, <1>10 DEF IconInv

LEMMA DoingKnown ==
    ASSUME IconInv, NEW c \in Consumers, at[c] # "idle"
    PROVE  /\ Task(c) \in TaskIds /\ tasks[Task(c)] \in TaskRow
           /\ tasks[Task(c)] # NoRow /\ TaskOK(Task(c)) /\ DoingOK(c)
           /\ File(c) \in Files /\ File(c) = Task(c)[2]
           /\ files[File(c)] \in FileRow /\ files[File(c)] # NoRow
<1>1. DoingOK(c) BY DEF IconInv, ConsumersOK
<1>2. Task(c) \in TaskIds /\ tasks[Task(c)] # NoRow BY <1>1 DEF DoingOK, Task
<1>3. TaskOK(Task(c)) BY <1>2 DEF IconInv, TasksOK
<1>4. File(c) \in Files /\ File(c) = Task(c)[2] BY <1>2 DEF File, Task, TaskIds
<1>5. files[File(c)] # NoRow BY <1>2, <1>3, <1>4 DEF TaskOK
<1>6. QED BY <1>1, <1>2, <1>3, <1>4, <1>5, RowsKnown DEF IconInv

\* What a step leaves alone, it marks as it should be.
LEMMA UntouchedMarks ==
    ASSUME IconInv
    PROVE  /\ UNCHANGED owners => OwnersMarked /\ ReadyTrue
           /\ UNCHANGED files => FilesMarked
           /\ UNCHANGED tasks => TasksMarked
           /\ objects \subseteq objects' /\ objects' \subseteq Objects => ObjectsKept
           /\ UNCHANGED objects => ObjectsKept
           /\ UNCHANGED queue => QueueTaken
<1>1. TablesOK BY DEF IconInv
<1>2. UNCHANGED owners => OwnersMarked /\ ReadyTrue
  BY <1>1 DEF TablesOK, OwnersMarked, ReadyTrue
<1>3. UNCHANGED files => FilesMarked BY <1>1 DEF TablesOK, FilesMarked
<1>4. UNCHANGED tasks => TasksMarked BY <1>1 DEF TablesOK, TasksMarked
<1>5. objects \subseteq objects' /\ objects' \subseteq Objects => ObjectsKept
  BY DEF ObjectsKept
<1>6. UNCHANGED objects => ObjectsKept BY <1>1 DEF TablesOK, ObjectsKept
<1>7. UNCHANGED queue => QueueTaken BY <1>1 DEF TablesOK, QueueTaken
<1>8. QED BY <1>2, <1>3, <1>4, <1>5, <1>6, <1>7

LEMMA TurnMoves ==
    ASSUME IconInv, NEW c \in Consumers,
           NEW step \in {"idle"} \cup ConvertSteps \cup RemoveSteps, Turn(c, step)
    PROVE  /\ at'[c] = step /\ UNCHANGED api
           /\ UNCHANGED doing => ConsumerMoves(c)
           /\ \A t : doing' = [doing EXCEPT ![c] = t] => ConsumerMoves(c) /\ doing'[c] = t
<1>1. /\ at \in [Consumers -> {"idle"} \cup ConvertSteps \cup RemoveSteps]
      /\ DOMAIN doing = Consumers
  BY DEF IconInv, ThreadsOK
<1>2. at' = [at EXCEPT ![c] = step] /\ UNCHANGED api BY DEF Turn
<1>3. QED BY <1>1, <1>2 DEF ConsumerMoves

LEMMA FinishKeeps ==
    ASSUME IconInv, NEW c \in Consumers, Finish(c),
           OwnersMarked, FilesMarked, TasksMarked, ObjectsKept, QueueTaken, ReadyTrue
    PROVE  IconInv'
<1>1. Turn(c, "idle") /\ doing' = [doing EXCEPT ![c] = NoRow] BY DEF Finish
<1>2. at'[c] = "idle" /\ UNCHANGED api /\ ConsumerMoves(c) BY <1>1, TurnMoves
<1>3. DoingOK(c)' BY <1>2 DEF DoingOK
<1>4. QED BY <1>2, <1>3, MarksKeep

LEMMA MoveKeeps ==
    ASSUME IconInv, NEW c \in Consumers, NEW step \in ConvertSteps \cup RemoveSteps,
           Move(c, step), at[c] # "idle",
           step \in ConvertSteps => at[c] \in ConvertSteps,
           step \in RemoveSteps => at[c] \in RemoveSteps,
           step = "publish" => <<File(c), "processed">> \in objects',
           step = "cleanup" => files'[File(c)].processed /\ tasks[Task(c)].old # NoRow,
           OwnersMarked, FilesMarked, TasksMarked, ObjectsKept, QueueTaken, ReadyTrue
    PROVE  IconInv'
<1>1. at'[c] = step /\ UNCHANGED <<api, doing>> /\ ConsumerMoves(c)
  BY TurnMoves DEF Move
<1>2. Task(c)' = Task(c) /\ File(c)' = File(c) BY <1>1 DEF Task, File
<1>3. DoingOK(c) /\ Task(c) \in TaskIds /\ tasks[Task(c)] # NoRow BY DoingKnown
<1>4. tasks'[Task(c)] # NoRow /\ tasks'[Task(c)].old = tasks[Task(c)].old
  BY <1>3 DEF TasksMarked
<1>5. DoingOK(c)'
  BY <1>1, <1>2, <1>3, <1>4 DEF DoingOK, Task
<1>6. QED BY <1>1, <1>5, MarksKeep

LEMMA SetTaskMarks ==
    ASSUME IconInv, NEW c \in Consumers, at[c] # "idle",
           NEW status \in {"PENDING", "PROCESSING", "SUCCEEDED", "FAILED"},
           SetTask(c, status)
    PROVE  TasksMarked
<1>1. PICK t \in TaskIds : t = Task(c) /\ tasks[t] \in TaskRow /\ tasks[t] # NoRow
  BY DoingKnown
<1>2. PICK q \in TaskRow : q = tasks[t] BY <1>1
<1>3. PICK r : r = [q EXCEPT !.status = status] OBVIOUS
<1>4. r \in TaskRow /\ r.old = q.old BY <1>3 DEF TaskRow
<1>5. r # NoRow BY <1>4, NoRowIsNone
<1>6. tasks \in [TaskIds -> TaskRow \cup {NoRow}] BY DEF IconInv, TablesOK
<1>7. tasks' = [tasks EXCEPT ![t] = r] BY <1>1, <1>2, <1>3, <1>6 DEF SetTask
<1>8. QED BY <1>1, <1>2, <1>4, <1>5, <1>6, <1>7 DEF TasksMarked

LEMMA FileMarks ==
    ASSUME IconInv, NEW f \in Files, files[f] # NoRow,
           NEW status \in {"PENDING", "PROCESSING", "READY", "FAILED", "DELETED"},
           files' = [files EXCEPT ![f].status = status]
    PROVE  FilesMarked
<1>1. files[f] \in FileRow BY RowsKnown DEF IconInv
<1>2. PICK q \in FileRow : q = files[f] BY <1>1
<1>3. PICK r : r = [q EXCEPT !.status = status] OBVIOUS
<1>4. r \in FileRow /\ r.processed = q.processed BY <1>3 DEF FileRow
<1>5. r # NoRow BY <1>4, NoRowIsNone
<1>6. files \in [Files -> FileRow \cup {NoRow}] BY DEF IconInv, TablesOK
<1>7. files' = [files EXCEPT ![f] = r] BY <1>2, <1>3, <1>6
<1>8. QED BY <1>2, <1>4, <1>5, <1>6, <1>7 DEF FilesMarked

LEMMA SetIconsMarks ==
    ASSUME IconInv, NEW f \in Files, NEW which, which \subseteq Showing(f),
           NEW status \in {"READY", "FAILED"}, SetIcons(which, status),
           status = "READY" => /\ which # {} => <<f, "processed">> \in objects'
                               /\ files'[f].processed
    PROVE  OwnersMarked /\ ReadyTrue
<1>1. owners \in [Owners -> OwnerRow \cup {NoRow}] BY DEF IconInv, TablesOK
<1>2. owners' = [o \in Owners |->
          IF o \in which THEN [owners[o] EXCEPT !.status = status] ELSE owners[o]]
  BY DEF SetIcons
<1>3. ASSUME NEW o \in Owners, o \in which
      PROVE  /\ owners'[o] \in OwnerRow /\ owners'[o] # NoRow /\ owners[o] # NoRow
             /\ owners'[o].file = owners[o].file /\ owners'[o].status = status
             /\ owners[o].file = f /\ OwnerFree(o)
  <2>1. owners[o] # NoRow /\ owners[o].file = f BY <1>3 DEF Showing
  <2>2. PICK q \in OwnerRow : q = owners[o] BY <1>1, <2>1
  <2>3. PICK r : r = [q EXCEPT !.status = status] OBVIOUS
  <2>4. r \in OwnerRow /\ r.file = q.file /\ r.status = status
    BY <2>3 DEF OwnerRow
  <2>5. r # NoRow BY <2>4, NoRowIsNone
  <2>6. owners'[o] = r BY <1>2, <1>3, <2>2, <2>3
  <2>7. OwnerFree(o) BY <1>3 DEF SetIcons
  <2>8. QED BY <2>1, <2>2, <2>4, <2>5, <2>6, <2>7
<1>4. ASSUME NEW o \in Owners, o \notin which PROVE owners'[o] = owners[o]
  BY <1>2, <1>4
<1>5. OwnersMarked
  <2>1. owners' \in [Owners -> OwnerRow \cup {NoRow}]
    <3>1. \A o \in Owners : owners'[o] \in OwnerRow \cup {NoRow} BY <1>1, <1>3, <1>4
    <3>2. QED BY <1>2, <3>1
  <2>2. QED BY <1>3, <1>4, <2>1 DEF OwnersMarked
<1>6. ReadyTrue BY <1>3, <1>4 DEF ReadyTrue
<1>7. QED BY <1>5, <1>6

(***************************************************************************)
(* The steps of a task, one by one.                                        *)
(***************************************************************************)
LEMMA DeliverKeeps ==
    ASSUME IconInv, NEW c \in Consumers, Deliver(c)
    PROVE  IconInv'
<1>1. PICK t \in TaskIds : /\ queue[t] > 0 /\ queue' = [queue EXCEPT ![t] = @ - 1]
                           /\ Turn(c, t[1]) /\ doing' = [doing EXCEPT ![c] = t]
  BY DEF Deliver
<1>2. UNCHANGED <<owners, files, tasks, objects>> BY DEF Deliver, rows
<1>3. t[1] \in {"convert", "remove"} BY DEF TaskIds
<1>4. queue \in [TaskIds -> 0..MaxDeliveries] BY DEF IconInv, TablesOK
<1>5. QueueTaken
  <2>1. PICK n \in 0..MaxDeliveries : n = queue[t] - 1
    BY <1>1, <1>4, IconInputsAssumption
  <2>2. queue' = [queue EXCEPT ![t] = n] BY <1>1, <2>1
  <2>3. QED BY <1>1, <1>4, <2>2 DEF QueueTaken
<1>6. t[1] \in {"idle"} \cup ConvertSteps \cup RemoveSteps
  BY <1>3 DEF ConvertSteps, RemoveSteps
<1>7. at'[c] = t[1] /\ UNCHANGED api /\ ConsumerMoves(c) /\ doing'[c] = t
  BY <1>1, <1>6, TurnMoves
<1>8. tasks'[t] # NoRow BY <1>1, <1>2 DEF IconInv, TasksOK, TaskOK
<1>9. DoingOK(c)' BY <1>3, <1>7, <1>8 DEF DoingOK, Task, ConvertSteps, RemoveSteps
<1>10. QED BY <1>2, <1>5, <1>7, <1>9, UntouchedMarks, MarksKeep

LEMMA BeginKeeps ==
    ASSUME IconInv, NEW c \in Consumers, ConvertBegin(c) \/ RemoveBegin(c)
    PROVE  IconInv'
<1>1. UNCHANGED <<owners, files, objects, queue>> /\ SetTask(c, "PROCESSING")
  BY DEF ConvertBegin, RemoveBegin
<1>2. at[c] # "idle" BY DEF ConvertBegin, RemoveBegin
<1>3. TasksMarked BY <1>1, <1>2, SetTaskMarks
<1>4. CASE ConvertBegin(c)
  <2>1. at[c] = "convert" /\ Move(c, "markFile") BY <1>4 DEF ConvertBegin
  <2>2. QED BY <1>1, <1>2, <1>3, <2>1, UntouchedMarks, MoveKeeps
            DEF ConvertSteps, RemoveSteps
<1>5. CASE RemoveBegin(c)
  <2>1. at[c] = "remove" /\ Move(c, "removeObjects") BY <1>5 DEF RemoveBegin
  <2>2. QED BY <1>1, <1>2, <1>3, <2>1, UntouchedMarks, MoveKeeps
            DEF ConvertSteps, RemoveSteps
<1>6. QED BY <1>4, <1>5

LEMMA EndKeeps ==
    ASSUME IconInv, NEW c \in Consumers, FailTask(c) \/ RemoveEnd(c)
    PROVE  IconInv'
<1>1. /\ UNCHANGED <<owners, files, objects, queue>> /\ Finish(c)
      /\ SetTask(c, "FAILED") \/ SetTask(c, "SUCCEEDED")
  BY DEF FailTask, RemoveEnd
<1>2. at[c] # "idle" BY DEF FailTask, RemoveEnd
<1>3. TasksMarked BY <1>1, <1>2, SetTaskMarks
<1>4. QED BY <1>1, <1>3, UntouchedMarks, FinishKeeps

LEMMA MarkFileKeeps ==
    ASSUME IconInv, NEW c \in Consumers, MarkFile(c) \/ FailFile(c)
    PROVE  IconInv'
<1>1. UNCHANGED <<owners, tasks, objects, queue>> BY DEF MarkFile, FailFile
<1>2. at[c] # "idle" BY DEF MarkFile, FailFile
<1>3. File(c) \in Files /\ files[File(c)] # NoRow BY <1>2, DoingKnown
<1>4. CASE MarkFile(c)
  <2>1. /\ at[c] = "markFile" /\ Move(c, "image")
        /\ files' = [files EXCEPT ![File(c)].status = "PROCESSING"]
    BY <1>4 DEF MarkFile
  <2>2. FilesMarked BY <1>3, <2>1, FileMarks
  <2>3. QED BY <1>1, <1>2, <2>1, <2>2, UntouchedMarks, MoveKeeps
            DEF ConvertSteps, RemoveSteps
<1>5. CASE FailFile(c)
  <2>1. /\ at[c] = "failFile" /\ Move(c, "failOwner")
        /\ files' = [files EXCEPT ![File(c)].status = "FAILED"]
    BY <1>5 DEF FailFile
  <2>2. FilesMarked BY <1>3, <2>1, FileMarks
  <2>3. QED BY <1>1, <1>2, <2>1, <2>2, UntouchedMarks, MoveKeeps
            DEF ConvertSteps, RemoveSteps
<1>6. QED BY <1>4, <1>5

LEMMA ImageKeeps ==
    ASSUME IconInv, NEW c \in Consumers, Image(c)
    PROVE  IconInv'
<1>1. at[c] = "image" /\ UNCHANGED <<owners, files, tasks, queue>> BY DEF Image, rows
<1>2. File(c) \in Files BY <1>1, DoingKnown
<1>3. objects \subseteq Objects BY DEF IconInv, TablesOK
<1>4. CASE objects' = objects \cup {Converted(File(c))} /\ Move(c, "publish")
  <2>1. Converted(File(c)) \in Objects BY <1>2 DEF Converted, Objects
  <2>2. ObjectsKept BY <1>3, <1>4, <2>1, UntouchedMarks
  <2>3. <<File(c), "processed">> \in objects' BY <1>4 DEF Converted
  <2>4. QED BY <1>1, <1>4, <2>2, <2>3, UntouchedMarks, MoveKeeps
            DEF ConvertSteps, RemoveSteps
<1>5. CASE Move(c, "failFile") /\ UNCHANGED objects
  BY <1>1, <1>5, UntouchedMarks, MoveKeeps DEF ConvertSteps, RemoveSteps
<1>6. QED BY <1>4, <1>5 DEF Image

LEMMA PublishKeeps ==
    ASSUME IconInv, NEW c \in Consumers, Publish(c)
    PROVE  IconInv'
<1>1. /\ at[c] = "publish" /\ UNCHANGED <<objects, queue>>
      /\ SetIcons(Showing(File(c)) \cap Live, "READY")
      /\ SetTask(c, "SUCCEEDED") /\ AfterPublish(c)
      /\ files' = [files EXCEPT ![File(c)] = [status |-> "READY", processed |-> TRUE]]
  BY DEF Publish
<1>2. PICK f \in Files : f = File(c) /\ files[f] # NoRow BY <1>1, DoingKnown
<1>3. PICK r : r = [status |-> "READY", processed |-> TRUE] OBVIOUS
<1>4. r \in FileRow /\ r.processed BY <1>3 DEF FileRow
<1>5. r # NoRow BY <1>4, NoRowIsNone
<1>6. files \in [Files -> FileRow \cup {NoRow}] BY DEF IconInv, TablesOK
<1>7. files' = [files EXCEPT ![f] = r] BY <1>1, <1>2, <1>3
<1>8. FilesMarked /\ files'[f].processed
  BY <1>2, <1>4, <1>5, <1>6, <1>7 DEF FilesMarked
<1>9. TasksMarked BY <1>1, SetTaskMarks
<1>10. OwnersMarked /\ ReadyTrue
  <2>1. <<f, "processed">> \in objects \/ Showing(f) = {}
    BY <1>1, <1>2, DoingKnown DEF DoingOK
  <2>2. PICK which : which = Showing(f) \cap Live OBVIOUS
  <2>3. which \subseteq Showing(f) /\ SetIcons(which, "READY") BY <1>1, <1>2, <2>2
  <2>4. which # {} => <<f, "processed">> \in objects' BY <1>1, <2>1, <2>2
  <2>5. QED BY <1>8, <2>3, <2>4, SetIconsMarks
<1>11. CASE tasks[Task(c)].old = NoRow
  <2>1. Finish(c) BY <1>1, <1>11 DEF AfterPublish
  <2>2. QED BY <1>1, <1>8, <1>9, <1>10, <2>1, UntouchedMarks, FinishKeeps
<1>12. CASE tasks[Task(c)].old # NoRow
  <2>1. Move(c, "cleanup") BY <1>1, <1>12 DEF AfterPublish
  <2>2. QED BY <1>1, <1>2, <1>8, <1>9, <1>10, <1>12, <2>1, UntouchedMarks, MoveKeeps
            DEF ConvertSteps, RemoveSteps
<1>13. QED BY <1>11, <1>12

\* Objects that are removed are those of a file that is gone.
LEMMA RemovalMarks ==
    ASSUME IconInv, NEW f \in Files, Gone(f)
    PROVE  /\ DeleteFileObjects(f) => FilesMarked /\ ObjectsKept
           /\ objects' \in {objects, objects \ {<<f, "original">>}} => ObjectsKept
<1>1. objects \subseteq Objects BY DEF IconInv, TablesOK
<1>2. files[f] # NoRow /\ Showing(f) = {} BY DEF Gone
<1>3. ASSUME DeleteFileObjects(f) PROVE FilesMarked /\ ObjectsKept
  <2>1. files' = [files EXCEPT ![f].status = "DELETED"]
    BY <1>3 DEF DeleteFileObjects
  <2>2. FilesMarked BY <1>2, <2>1, FileMarks
  <2>3. \A x \in RecordedObjects(f) : x[1] = f BY DEF RecordedObjects
  <2>4. objects' = objects \ RecordedObjects(f) BY <1>3 DEF DeleteFileObjects
  <2>5. \A g \in Files : g # f => <<g, "processed">> \notin RecordedObjects(f)
    BY <2>3
  <2>6. QED BY <1>1, <1>2, <2>2, <2>4, <2>5 DEF ObjectsKept
<1>4. QED BY <1>1, <1>3 DEF ObjectsKept

LEMMA CleanupKeeps ==
    ASSUME IconInv, NEW c \in Consumers, Cleanup(c)
    PROVE  IconInv'
<1>1. at[c] = "cleanup" /\ UNCHANGED <<owners, tasks, queue>> BY DEF Cleanup
<1>2. PICK f \in Files : f = tasks[Task(c)].old
  BY <1>1, DoingKnown DEF DoingOK, Task, TaskRow
<1>3. Gone(f) BY <1>1, <1>2, DoingKnown DEF TaskOK
<1>4. CASE DeleteFileObjects(f) /\ Finish(c)
  BY <1>1, <1>3, <1>4, RemovalMarks, UntouchedMarks, FinishKeeps
<1>5. CASE /\ objects' \in {objects, objects \ {<<f, "original">>}}
           /\ Move(c, "failFile") /\ UNCHANGED files
  BY <1>1, <1>3, <1>5, RemovalMarks, UntouchedMarks, MoveKeeps
     DEF ConvertSteps, RemoveSteps
<1>6. QED BY <1>2, <1>4, <1>5 DEF Cleanup

LEMMA FailOwnerKeeps ==
    ASSUME IconInv, NEW c \in Consumers, FailOwner(c)
    PROVE  IconInv'
<1>1. /\ at[c] = "failOwner" /\ UNCHANGED <<files, tasks, objects, queue>>
      /\ SetIcons(Showing(File(c)), "FAILED") /\ Move(c, "failTask")
  BY DEF FailOwner
<1>2. File(c) \in Files BY <1>1, DoingKnown
<1>3. OwnersMarked /\ ReadyTrue BY <1>1, <1>2, SetIconsMarks
<1>4. QED BY <1>1, <1>3, UntouchedMarks, MoveKeeps DEF ConvertSteps, RemoveSteps

LEMMA RemoveObjectsKeeps ==
    ASSUME IconInv, NEW c \in Consumers, RemoveObjects(c)
    PROVE  IconInv'
<1>1. at[c] = "removeObjects" /\ UNCHANGED <<owners, tasks, queue>>
  BY DEF RemoveObjects
<1>2. PICK f \in Files : f = File(c) BY <1>1, DoingKnown
<1>3. Gone(f)
  BY <1>1, <1>2, DoingKnown DEF DoingOK, TaskOK, RemoveSteps
<1>4. CASE DeleteFileObjects(f) /\ Move(c, "removed")
  BY <1>1, <1>3, <1>4, RemovalMarks, UntouchedMarks, MoveKeeps
     DEF ConvertSteps, RemoveSteps
<1>5. CASE /\ objects' \in {objects, objects \ {<<f, "original">>}}
           /\ Finish(c) /\ UNCHANGED files
  BY <1>1, <1>3, <1>5, RemovalMarks, UntouchedMarks, FinishKeeps
<1>6. QED BY <1>2, <1>4, <1>5 DEF RemoveObjects

LEMMA CrashKeeps ==
    ASSUME IconInv, NEW c \in Consumers, Crash(c)
    PROVE  IconInv'
<1>1. Finish(c) /\ UNCHANGED <<owners, files, tasks, objects, queue>>
  BY DEF Crash, rows
<1>2. QED BY <1>1, UntouchedMarks, FinishKeeps

LEMMA TaskStepKeeps ==
    ASSUME IconInv, NEW c \in Consumers, TaskStep(c)
    PROVE  IconInv'
  BY DeliverKeeps, BeginKeeps, MarkFileKeeps, ImageKeeps, PublishKeeps, CleanupKeeps,
     FailOwnerKeeps, EndKeeps, RemoveObjectsKeeps DEF TaskStep

LEMMA IconInit ==
    ASSUME Init
    PROVE  IconInv
<1>1. TablesOK BY IconInputsAssumption DEF Init, TablesOK
<1>2. ThreadsOK BY DEF Init, ThreadsOK, ApiSteps
<1>3. RequestsOK BY DEF Init, RequestsOK, RequestOK
<1>4. RequestsApart BY DEF Init, RequestsApart, Apart, Creating, Updating, Uploading
<1>5. IconsOK BY DEF Init, IconsOK, IconOK
<1>6. TasksOK BY DEF Init, TasksOK, TaskOK
<1>7. ConsumersOK BY DEF Init, ConsumersOK, DoingOK
<1>8. QED BY <1>1, <1>2, <1>3, <1>4, <1>5, <1>6, <1>7 DEF IconInv

LEMMA IconNext ==
    ASSUME IconInv, [Next]_vars
    PROVE  IconInv'
<1>1. CASE UNCHANGED vars
  BY <1>1 DEF vars, IconInv, TablesOK, ThreadsOK, RequestsOK, RequestOK, RequestsApart,
     Apart, Creating, Updating, Uploading, Live, TaskOf, IconsOK, IconOK, TasksOK,
     TaskOK, Gone, Showing, ConsumersOK, DoingOK, Task, File
<1>2. CASE Next
  BY <1>2, OwnerRequestKeeps, OwnerStepKeeps, TaskStepKeeps, CrashKeeps DEF Next
<1>3. QED BY <1>1, <1>2

\* Every request and task has in hand, at each of its steps, what the code takes
\* for granted there: the row it has locked, the task it was sent for.
THEOREM IconTypeCorrect == Spec => []IconTypeOK
<1>1. IconInv => IconTypeOK
  <2> SUFFICES ASSUME IconInv PROVE IconTypeOK
    OBVIOUS
  <2>1. TablesOK /\ ThreadsOK BY DEF IconInv
  <2>2. ASSUME NEW w \in Workers
        PROVE  /\ pc[w] \in ApiSteps
               /\ pc[w] = "idle" <=> req[w] = NoRow
               /\ pc[w] \in {"updateCheck", "updateStore", "updateCommit"} =>
                     got[w] \in OwnerRow
               /\ pc[w] = "send" => TaskOf(w) \in TaskIds /\ tasks[TaskOf(w)] # NoRow
    <3>1. RequestOK(w) BY DEF IconInv, RequestsOK
    <3>2. pc[w] # "idle" => req[w] # NoRow BY RequestKnown, NoRowIsNone
    <3>3. ASSUME Updating(w) PROVE got[w] \in OwnerRow
      <4>1. req[w].id \in Live /\ got[w] = owners[req[w].id]
        BY <3>1, <3>3 DEF RequestOK, Updating
      <4>2. QED BY <4>1, RowsKnown DEF Live, IconInv
    <3>4. QED BY <2>1, <3>1, <3>2, <3>3 DEF ThreadsOK, RequestOK, Updating
  <2>3. ASSUME NEW c \in Consumers
        PROVE  /\ at[c] \in {"idle"} \cup ConvertSteps \cup RemoveSteps
               /\ at[c] # "idle" => doing[c] \in TaskIds /\ tasks[doing[c]] # NoRow
               /\ at[c] = "cleanup" => tasks[doing[c]].old \in Files
    <3>1. DoingOK(c) BY DEF IconInv, ConsumersOK
    <3>2. at[c] = "cleanup" => tasks[doing[c]].old \in Files
      BY <3>1, DoingKnown DEF DoingOK, Task, TaskRow
    <3>3. QED BY <2>1, <3>1, <3>2 DEF ThreadsOK, DoingOK
  <2>4. QED BY <2>1, <2>2, <2>3 DEF IconTypeOK, TablesOK
<1>2. QED BY <1>1, IconInit, IconNext, PTL DEF Spec

\* No cleanup of an older or newer upload, no deletion and no crash takes the
\* converted image of an icon that is shown as READY.
THEOREM ShownIconsStored == Spec => []ShownIconStored
<1>1. IconInv => ShownIconStored
  <2> SUFFICES ASSUME IconInv, NEW o \in Live, owners[o].status = "READY",
                      owners[o].file # NoRow
               PROVE  /\ files[owners[o].file].processed
                      /\ <<owners[o].file, "processed">> \in objects
    BY DEF ShownIconStored
  <2>1. PICK f : f = owners[o].file OBVIOUS
  <2>2. o \in Owners /\ owners[o] # NoRow BY DEF Live
  <2>3. QED BY <2>1, <2>2, IconWas
<1>2. QED BY <1>1, IconInit, IconNext, PTL DEF Spec

(***************************************************************************)
(* What a step does to an owner's row.                                     *)
(***************************************************************************)
\* A commit writes the name that no other owner had at that moment.
NamedBy(w, r) ==
    /\ pc[w] \in {"createCommit", "updateCommit"} /\ ~NameTaken(w)
    /\ owners' = [owners EXCEPT ![req[w].id] = r]
    /\ r \in OwnerRow /\ r.name = req[w].name
    /\ \/ owners[req[w].id] = NoRow
       \/ r.file # owners[req[w].id].file
       \/ r.status = owners[req[w].id].status

DeletedBy(w) ==
    req[w].id \in Live /\ owners' = [owners EXCEPT ![req[w].id].deleted = TRUE]

IconsSet ==
    \E f \in Files, which \in SUBSET Owners, status \in {"READY", "FAILED"} :
       which \subseteq Showing(f) /\ SetIcons(which, status)

LEMMA CreateNames ==
    ASSUME IconInv, NEW w \in Workers, CreateCommit(w)
    PROVE  UNCHANGED owners \/ \E r : NamedBy(w, r)
<1>1. CASE NameTaken(w) BY <1>1 DEF CreateCommit, Refuse, rows
<1>2. CASE ~NameTaken(w)
  <2>1. PICK r : r = CreatedOwner(w) OBVIOUS
  <2>2. /\ pc[w] = "createCommit" /\ owners' = [owners EXCEPT ![req[w].id] = r]
    BY <1>2, <2>1 DEF CreateCommit
  <2>3. /\ req[w] \in Requests /\ req[w].name \in Names /\ owners[req[w].id] = NoRow
    BY <2>2, RequestKnown DEF RequestOK, Creating
  <2>4. r \in OwnerRow /\ r.name = req[w].name
    BY <2>1, <2>3 DEF CreatedOwner, OwnerRow, Requests
  <2>5. QED BY <1>2, <2>2, <2>3, <2>4 DEF NamedBy
<1>3. QED BY <1>1, <1>2

LEMMA UpdateNames ==
    ASSUME IconInv, NEW w \in Workers, UpdateCommit(w)
    PROVE  UNCHANGED owners \/ \E r : NamedBy(w, r)
<1>1. CASE NameTaken(w) BY <1>1 DEF UpdateCommit, Refuse, rows
<1>2. CASE ~NameTaken(w)
  <2>1. PICK r : r = UpdatedOwner(w) OBVIOUS
  <2>2. /\ pc[w] = "updateCommit" /\ owners' = [owners EXCEPT ![req[w].id] = r]
    BY <1>2, <2>1 DEF UpdateCommit
  <2>3. /\ r \in OwnerRow /\ got[w] = owners[req[w].id] /\ req[w].id \in Live
        /\ r.name = req[w].name
        /\ req[w].icon = "UPLOAD" => r.file = req[w].file
        /\ req[w].icon # "UPLOAD" /\ Removed(w, got[w]) => r.file = NoRow
        /\ req[w].icon # "UPLOAD" /\ ~Removed(w, got[w]) => r.status = got[w].status
    BY <2>1, <2>2, UpdatedRow
  <2>4. r.name = req[w].name BY <2>3
  <2>5. CASE req[w].icon = "UPLOAD"
    <3>1. files[req[w].file] = NoRow /\ req[w].file \in Files
      BY <2>2, <2>5, RequestKnown DEF RequestOK, Uploading, Updating
    <3>2. PICK o \in Owners : o = req[w].id /\ owners[o] # NoRow BY <2>3 DEF Live
    <3>3. ASSUME owners[o].file = req[w].file PROVE FALSE
      <4>1. PICK f : f = req[w].file OBVIOUS
      <4>2. f # NoRow BY <3>1, <4>1, NoRowIsNone
      <4>3. files[f] # NoRow BY <3>2, <3>3, <4>1, <4>2, IconWas
      <4>4. QED BY <3>1, <4>1, <4>3
    <3>4. QED BY <1>2, <2>2, <2>3, <2>4, <2>5, <3>2, <3>3 DEF NamedBy
  <2>6. CASE req[w].icon # "UPLOAD" /\ Removed(w, got[w])
    BY <1>2, <2>2, <2>3, <2>4, <2>6 DEF NamedBy, Removed
  <2>7. CASE req[w].icon # "UPLOAD" /\ ~Removed(w, got[w])
    BY <1>2, <2>2, <2>3, <2>4, <2>7 DEF NamedBy
  <2>8. QED BY <2>5, <2>6, <2>7
<1>3. QED BY <1>1, <1>2

LEMMA OwnersChange ==
    ASSUME IconInv, [Next]_vars
    PROVE  \/ UNCHANGED owners
           \/ \E w \in Workers : (\E r : NamedBy(w, r)) \/ DeletedBy(w)
           \/ IconsSet
<1>1. CASE UNCHANGED vars BY <1>1 DEF vars
<1>2. ASSUME NEW w \in Workers, OwnerRequest(w) PROVE UNCHANGED owners
  BY <1>2 DEF OwnerRequest, CreateRequest, UpdateRequest, DeleteRequest, Start, rows
<1>3. ASSUME NEW w \in Workers, CreateCheck(w) \/ UpdateCheck(w) PROVE UNCHANGED owners
  BY <1>3 DEF CreateCheck, UpdateCheck, CheckName, Refuse, rows
<1>4. ASSUME NEW w \in Workers, CreateStore(w) \/ UpdateStore(w) PROVE UNCHANGED owners
  BY <1>4 DEF CreateStore, UpdateStore, StoreIcon, Refuse, rows
<1>5. ASSUME NEW w \in Workers, UpdateLock(w) \/ Send(w) PROVE UNCHANGED owners
  BY <1>5 DEF UpdateLock, Send, Refuse, rows
<1>6. ASSUME NEW w \in Workers, Delete(w) PROVE UNCHANGED owners \/ DeletedBy(w)
  BY <1>6 DEF Delete, DeletedBy, Found, Refuse, rows
<1>7. ASSUME NEW w \in Workers, OwnerStep(w)
      PROVE  UNCHANGED owners \/ (\E r : NamedBy(w, r)) \/ DeletedBy(w)
  BY <1>3, <1>4, <1>5, <1>6, <1>7, CreateNames, UpdateNames DEF OwnerStep
<1>8. ASSUME NEW c \in Consumers, Publish(c) \/ FailOwner(c) PROVE IconsSet
  <2>1. File(c) \in Files BY <1>8, DoingKnown DEF Publish, FailOwner
  <2>2. \/ SetIcons(Showing(File(c)) \cap Live, "READY")
        \/ SetIcons(Showing(File(c)), "FAILED")
    BY <1>8 DEF Publish, FailOwner
  <2>3. Showing(File(c)) \in SUBSET Owners /\ Showing(File(c)) \cap Live \in SUBSET Owners
    BY DEF Showing
  <2>4. QED BY <2>1, <2>2, <2>3 DEF IconsSet
<1>9. ASSUME NEW c \in Consumers, TaskStep(c) \/ Crash(c)
      PROVE  UNCHANGED owners \/ IconsSet
  BY <1>8, <1>9 DEF TaskStep, Crash, Deliver, ConvertBegin, MarkFile, Image, Cleanup,
     FailFile, FailTask, RemoveBegin, RemoveObjects, RemoveEnd, rows
<1>10. CASE Next BY <1>2, <1>7, <1>9, <1>10 DEF Next
<1>11. QED BY <1>1, <1>10

\* The row a commit writes, and that the others stay.
LEMMA NamedRow ==
    ASSUME IconInv, NEW w \in Workers, NEW r, NamedBy(w, r)
    PROVE  /\ req[w].id \in Owners /\ owners'[req[w].id] = r
           /\ \A o \in Owners \ {req[w].id} : owners'[o] = owners[o]
<1>1. pc[w] # "idle" BY DEF NamedBy
<1>2. req[w].id \in Owners BY <1>1, RequestKnown DEF Requests
<1>3. DOMAIN owners = Owners BY DEF IconInv, TablesOK
<1>4. QED BY <1>2, <1>3 DEF NamedBy

LEMMA DeletedRow ==
    ASSUME IconInv, NEW w \in Workers, DeletedBy(w)
    PROVE  /\ req[w].id \in Owners /\ owners'[req[w].id].deleted
           /\ owners'[req[w].id].status = owners[req[w].id].status
           /\ \A o \in Owners \ {req[w].id} : owners'[o] = owners[o]
<1>1. PICK o \in Owners : o = req[w].id /\ owners[o] # NoRow BY DEF DeletedBy, Live
<1>2. PICK g \in OwnerRow : g = owners[o] BY <1>1, RowsKnown DEF IconInv
<1>3. PICK r : r = [g EXCEPT !.deleted = TRUE] OBVIOUS
<1>4. r.deleted /\ r.status = g.status BY <1>3 DEF OwnerRow
<1>5. DOMAIN owners = Owners BY DEF IconInv, TablesOK
<1>6. owners' = [owners EXCEPT ![o] = r] BY <1>1, <1>2, <1>3 DEF DeletedBy
<1>7. QED BY <1>1, <1>2, <1>4, <1>5, <1>6

LEMMA SetRows ==
    ASSUME IconInv, NEW f \in Files, NEW which, which \subseteq Showing(f),
           NEW status \in {"READY", "FAILED"}, SetIcons(which, status),
           NEW o \in Owners
    PROVE  IF o \in which
           THEN /\ owners[o] # NoRow /\ owners'[o] # NoRow
                /\ owners'[o].name = owners[o].name
                /\ owners'[o].version = owners[o].version
                /\ owners'[o].deleted = owners[o].deleted
                /\ owners'[o].file = owners[o].file
                /\ owners'[o].status = status
           ELSE owners'[o] = owners[o]
<1>1. owners' = [p \in Owners |->
          IF p \in which THEN [owners[p] EXCEPT !.status = status] ELSE owners[p]]
  BY DEF SetIcons
<1>2. CASE o \in which
  <2>1. owners[o] # NoRow BY <1>2 DEF Showing
  <2>2. PICK q \in OwnerRow : q = owners[o] BY <2>1, RowsKnown DEF IconInv
  <2>3. PICK r : r = [q EXCEPT !.status = status] OBVIOUS
  <2>4. /\ r \in OwnerRow /\ r.name = q.name /\ r.version = q.version
        /\ r.deleted = q.deleted /\ r.file = q.file /\ r.status = status
    BY <2>3 DEF OwnerRow
  <2>5. r # NoRow BY <2>4, NoRowIsNone
  <2>6. owners'[o] = r BY <1>1, <1>2, <2>2, <2>3
  <2>7. QED BY <1>2, <2>1, <2>2, <2>4, <2>5, <2>6
<1>3. CASE o \notin which BY <1>1, <1>3
<1>4. QED BY <1>2, <1>3

(***************************************************************************)
(* Names.                                                                  *)
(***************************************************************************)
LEMMA NamesKept ==
    ASSUME IconInv, NamesUnique, [Next]_vars
    PROVE  NamesUnique'
<1> SUFFICES ASSUME NEW o \in Owners, NEW p \in Owners, o # p,
                    owners'[o] # NoRow, ~owners'[o].deleted,
                    owners'[p] # NoRow, ~owners'[p].deleted,
                    owners'[o].name = owners'[p].name
             PROVE  FALSE
  BY DEF NamesUnique, Live
<1>1. \A q, u \in Live : owners[q].name = owners[u].name => q = u
  BY DEF NamesUnique
<1>2. CASE UNCHANGED owners BY <1>1, <1>2 DEF Live
<1>3. ASSUME NEW w \in Workers, NEW r, NamedBy(w, r) PROVE FALSE
  <2>1. PICK i \in Owners : i = req[w].id /\ owners'[i] = r BY <1>3, NamedRow
  <2>2. \A q \in Owners \ {i} : owners'[q] = owners[q] BY <1>3, <2>1, NamedRow
  <2>3. r.name = req[w].name /\ ~NameExists(req[w].name, i)
    BY <1>3, <2>1 DEF NamedBy, NameTaken
  <2>4. ASSUME NEW q \in Owners, q # i, owners[q] # NoRow, ~owners[q].deleted
        PROVE  owners[q].name # r.name
    BY <2>3, <2>4 DEF NameExists, Live
  <2>5. CASE o = i BY <2>1, <2>2, <2>4, <2>5
  <2>6. CASE p = i BY <2>1, <2>2, <2>4, <2>6
  <2>7. CASE o # i /\ p # i BY <1>1, <2>2, <2>7 DEF Live
  <2>8. QED BY <2>5, <2>6, <2>7
<1>4. ASSUME NEW w \in Workers, DeletedBy(w) PROVE FALSE
  BY <1>1, <1>4, DeletedRow DEF Live
<1>5. ASSUME NEW f \in Files, NEW which \in SUBSET Owners,
             NEW status \in {"READY", "FAILED"},
             which \subseteq Showing(f), SetIcons(which, status)
      PROVE  FALSE
  <2>1. ASSUME NEW q \in Owners, owners'[q] # NoRow, ~owners'[q].deleted
        PROVE  /\ owners[q] # NoRow /\ ~owners[q].deleted
               /\ owners'[q].name = owners[q].name
    BY <1>5, <2>1, SetRows
  <2>2. QED BY <1>1, <2>1 DEF Live
<1>6. QED BY <1>2, <1>3, <1>4, <1>5, OwnersChange DEF IconsSet

\* Two requests may both find that a name is free: the constraint lets one of
\* them commit it.
THEOREM NamesStayUnique == Spec => []NamesUnique
<1>1. Init => NamesUnique BY DEF Init, NamesUnique, Live
<1>2. QED BY <1>1, IconInit, IconNext, NamesKept, PTL DEF Spec

(***************************************************************************)
(* Icons that a task has settled.                                          *)
(***************************************************************************)
LEMMA SettledKept ==
    ASSUME IconInv, [Next]_vars, NEW o \in Live, owners[o].status # "PENDING",
           owners'[o].file = owners[o].file
    PROVE  owners'[o].status # "PENDING"
<1>1. o \in Owners /\ owners[o] # NoRow BY DEF Live
<1>2. ASSUME NEW w \in Workers, NEW r, NamedBy(w, r) PROVE owners'[o].status # "PENDING"
  <2>1. CASE o = req[w].id BY <1>1, <1>2, <2>1, NamedRow DEF NamedBy
  <2>2. CASE o # req[w].id BY <1>1, <1>2, <2>2, NamedRow
  <2>3. QED BY <2>1, <2>2
<1>3. ASSUME NEW w \in Workers, DeletedBy(w) PROVE owners'[o].status # "PENDING"
  BY <1>1, <1>3, DeletedRow
<1>4. ASSUME NEW f \in Files, NEW which \in SUBSET Owners,
             NEW status \in {"READY", "FAILED"},
             which \subseteq Showing(f), SetIcons(which, status)
      PROVE  owners'[o].status # "PENDING"
  BY <1>1, <1>4, SetRows
<1>5. QED BY <1>2, <1>3, <1>4, OwnersChange DEF IconsSet

\* The request that saves an owner holds its lock since it read the row, so it
\* does not put back the status from before a task settled it.
THEOREM SettledIconsStaySettled == Spec => SettledStaysSettled
<1>1. IconInv /\ [Next]_vars =>
        [\A o \in Live :
           owners[o].status # "PENDING" /\ owners'[o].file = owners[o].file =>
              owners'[o].status # "PENDING"]_vars
  BY SettledKept
<1>2. QED BY <1>1, IconInit, IconNext, PTL DEF Spec, SettledStaysSettled

(***************************************************************************)
(* Old icons.                                                              *)
(***************************************************************************)
Replaced(f) ==
    /\ Showing(f) = {}
    /\ \/ tasks[<<"remove", f>>] # NoRow
       \/ \E g \in Files :
             /\ tasks[<<"convert", g>>] # NoRow
             /\ tasks[<<"convert", g>>].old = f
             /\ files[g].processed

LEMMA ObjectsStored ==
    ASSUME IconInv, [Next]_vars
    PROVE  \/ objects \subseteq objects'
           \/ \E c \in Consumers : Cleanup(c) \/ RemoveObjects(c)
<1>1. CASE UNCHANGED vars BY <1>1 DEF vars
<1>2. ASSUME NEW w \in Workers, OwnerRequest(w) PROVE objects \subseteq objects'
  BY <1>2 DEF OwnerRequest, CreateRequest, UpdateRequest, DeleteRequest, Start
<1>3. ASSUME NEW w \in Workers, OwnerStep(w) PROVE objects \subseteq objects'
  BY <1>3 DEF OwnerStep, CreateCheck, CreateStore, CreateCommit, UpdateLock,
     UpdateCheck, UpdateStore, UpdateCommit, Delete, Send, CheckName, StoreIcon,
     Refuse, Committed
<1>4. ASSUME NEW c \in Consumers, TaskStep(c) \/ Crash(c),
             ~(Cleanup(c) \/ RemoveObjects(c))
      PROVE  objects \subseteq objects'
  BY <1>4 DEF TaskStep, Crash, Deliver, ConvertBegin, MarkFile, Image, Publish,
     FailFile, FailOwner, FailTask, RemoveBegin, RemoveEnd
<1>5. CASE Next BY <1>2, <1>3, <1>4, <1>5 DEF Next
<1>6. QED BY <1>1, <1>5

LEMMA CleanupReplaced ==
    ASSUME IconInv, NEW c \in Consumers, Cleanup(c), NEW f \in Files,
           <<f, "original">> \in objects, <<f, "original">> \notin objects'
    PROVE  Replaced(f)
<1>1. at[c] = "cleanup" BY DEF Cleanup
<1>2. PICK old \in Files : old = tasks[Task(c)].old
  BY <1>1, DoingKnown DEF DoingOK, Task, TaskRow
<1>3. Gone(old) BY <1>1, <1>2, DoingKnown DEF TaskOK
<1>4. f = old
  <2>1. \A x \in RecordedObjects(old) : x[1] = old BY DEF RecordedObjects
  <2>2. CASE objects' = objects \ RecordedObjects(old) BY <2>1, <2>2
  <2>3. CASE objects' \in {objects, objects \ {<<old, "original">>}} BY <2>3
  <2>4. QED BY <1>2, <2>2, <2>3 DEF Cleanup, DeleteFileObjects
<1>5. PICK g \in Files : g = File(c) BY <1>1, DoingKnown
<1>6. Task(c) = <<"convert", g>>
  <2>1. PICK t \in TaskIds : t = Task(c) /\ t[2] = g BY <1>1, <1>5, DoingKnown
  <2>2. t[1] = "convert" BY <1>1, <2>1, DoingKnown DEF DoingOK, ConvertSteps
  <2>3. QED BY <2>1, <2>2 DEF TaskIds
<1>7. files[g].processed /\ tasks[Task(c)] # NoRow
  BY <1>1, <1>5, DoingKnown DEF DoingOK
<1>8. QED BY <1>2, <1>3, <1>4, <1>5, <1>6, <1>7 DEF Replaced, Gone

LEMMA RemovalReplaced ==
    ASSUME IconInv, NEW c \in Consumers, RemoveObjects(c), NEW f \in Files,
           <<f, "original">> \in objects, <<f, "original">> \notin objects'
    PROVE  Replaced(f)
<1>1. at[c] = "removeObjects" BY DEF RemoveObjects
<1>2. PICK g \in Files : g = File(c) BY <1>1, DoingKnown
<1>3. Task(c) = <<"remove", g>> /\ tasks[Task(c)] # NoRow /\ Gone(g)
  <2>1. PICK t \in TaskIds : t = Task(c) /\ t[2] = g /\ TaskOK(t) /\ tasks[t] # NoRow
    BY <1>1, <1>2, DoingKnown
  <2>2. t[1] = "remove" BY <1>1, <2>1, DoingKnown DEF DoingOK, RemoveSteps
  <2>3. t = <<"remove", g>> BY <2>1, <2>2 DEF TaskIds
  <2>4. QED BY <2>1, <2>2, <2>3 DEF TaskOK
<1>4. f = g
  <2>1. \A x \in RecordedObjects(g) : x[1] = g BY DEF RecordedObjects
  <2>2. CASE objects' = objects \ RecordedObjects(g) BY <2>1, <2>2
  <2>3. CASE objects' \in {objects, objects \ {<<g, "original">>}} BY <2>3
  <2>4. QED BY <1>2, <2>2, <2>3 DEF RemoveObjects, DeleteFileObjects
<1>5. QED BY <1>3, <1>4 DEF Replaced, Gone

\* An original is deleted only after the upload that replaced it has been
\* converted, or because the user asked for it, and never while it is shown.
THEOREM OldIconsOutliveConversion == Spec => OldIconOutlivesConversion
<1>1. IconInv /\ [Next]_vars =>
        [\A f \in Files :
          <<f, "original">> \in objects /\ <<f, "original">> \notin objects' =>
              /\ Showing(f) = {}
              /\ \/ tasks[<<"remove", f>>] # NoRow
                 \/ \E g \in Files :
                       /\ tasks[<<"convert", g>>] # NoRow
                       /\ tasks[<<"convert", g>>].old = f
                       /\ files[g].processed]_vars
  BY ObjectsStored, CleanupReplaced, RemovalReplaced DEF Replaced
<1>2. QED
  BY <1>1, IconInit, IconNext, PTL DEF Spec, OldIconOutlivesConversion

(***************************************************************************)
(* Requests and tasks implement the board of module IconBoard.             *)
(***************************************************************************)
LEMMA BoardEntries ==
    ASSUME NEW o \in Owners
    PROVE  /\ BoardView[o] = IF o \in Live THEN Entry(owners[o]) ELSE NoRow
           /\ BoardView'[o] = IF o \in Live' THEN Entry(owners'[o]) ELSE NoRow
  BY DEF BoardView, Live, Entry

LEMMA EntryIsThere ==
    ASSUME NEW r \in OwnerRow
    PROVE  /\ Entry(r) # NoRow
           /\ Entry(r).name = r.name /\ Entry(r).version = r.version
           /\ Entry(r).icon = r.file /\ Entry(r).status = r.status
<1>1. Entry(r) \in EntryRow BY DEF Entry, EntryRow, OwnerRow
<1>2. QED BY <1>1, IconInputsAssumption DEF Entry

LEMMA LiveRow ==
    ASSUME IconInv, NEW o \in Live
    PROVE  o \in Owners /\ owners[o] \in OwnerRow /\ ~owners[o].deleted
  BY RowsKnown DEF Live, IconInv

LEMMA BoardShows ==
    ASSUME IconInv, NEW o \in Owners, NEW f \in Files
    PROVE  /\ BoardView[o] # NoRow <=> o \in Live
           /\ Board!Shows(o, f) <=> o \in Showing(f) \cap Live
<1>1. CASE o \in Live
  <2>1. PICK r \in OwnerRow : r = owners[o] BY <1>1, LiveRow
  <2>2. BoardView[o] = Entry(r) BY <1>1, <2>1, BoardEntries
  <2>3. owners[o] # NoRow BY <2>1, NoRowIsNone
  <2>4. QED BY <1>1, <2>1, <2>2, <2>3, EntryIsThere DEF Board!Shows, Showing
<1>2. CASE o \notin Live BY <1>2, BoardEntries DEF Board!Shows
<1>3. QED BY <1>1, <1>2

(***************************************************************************)
(* Steps that users do not see.                                            *)
(***************************************************************************)
Unseen == UNCHANGED <<BoardView, ImageView>>

LEMMA SameTables ==
    ASSUME UNCHANGED <<owners, files>>
    PROVE  Unseen
  BY DEF Unseen, BoardView, ImageView, Entry

LEMMA OnlyStatus ==
    ASSUME IconInv, NEW f \in Files, files[f] # NoRow,
           NEW status \in {"PENDING", "PROCESSING", "READY", "FAILED", "DELETED"},
           files' = [files EXCEPT ![f].status = status], UNCHANGED owners
    PROVE  Unseen
<1>1. PICK q \in FileRow : q = files[f] BY RowsKnown DEF IconInv
<1>2. PICK r : r = [q EXCEPT !.status = status] OBVIOUS
<1>3. r \in FileRow /\ r.processed = q.processed BY <1>2 DEF FileRow
<1>4. r # NoRow BY <1>3, NoRowIsNone
<1>5. files \in [Files -> FileRow \cup {NoRow}] BY DEF IconInv, TablesOK
<1>6. files' = [files EXCEPT ![f] = r] BY <1>1, <1>2, <1>5
<1>7. \A g \in Files : /\ files'[g] = NoRow <=> files[g] = NoRow
                       /\ files'[g].processed = files[g].processed
  BY <1>1, <1>3, <1>4, <1>5, <1>6
<1>8. ImageView' = ImageView BY <1>7 DEF ImageView
<1>9. BoardView' = BoardView BY DEF BoardView, Entry
<1>10. QED BY <1>8, <1>9 DEF Unseen

LEMMA RemovalUnseen ==
    ASSUME IconInv, NEW c \in Consumers, Cleanup(c) \/ RemoveObjects(c)
    PROVE  Unseen
<1>1. UNCHANGED owners BY DEF Cleanup, RemoveObjects
<1>2. UNCHANGED files \/ \E f \in Files : Gone(f) /\ DeleteFileObjects(f)
  <2>1. CASE Cleanup(c)
    <3>1. at[c] = "cleanup" BY <2>1 DEF Cleanup
    <3>2. PICK f \in Files : f = tasks[Task(c)].old
      BY <3>1, DoingKnown DEF DoingOK, Task, TaskRow
    <3>3. Gone(f) BY <3>1, <3>2, DoingKnown DEF TaskOK
    <3>4. QED BY <2>1, <3>2, <3>3 DEF Cleanup
  <2>2. CASE RemoveObjects(c)
    <3>1. at[c] = "removeObjects" BY <2>2 DEF RemoveObjects
    <3>2. PICK f \in Files : f = File(c) BY <3>1, DoingKnown
    <3>3. Gone(f) BY <3>1, <3>2, DoingKnown DEF DoingOK, TaskOK, RemoveSteps
    <3>4. QED BY <2>2, <3>2, <3>3 DEF RemoveObjects
  <2>3. QED BY <2>1, <2>2
<1>3. CASE UNCHANGED files BY <1>1, <1>3, SameTables
<1>4. ASSUME NEW f \in Files, Gone(f), DeleteFileObjects(f) PROVE Unseen
  BY <1>1, <1>4, OnlyStatus DEF DeleteFileObjects, Gone
<1>5. QED BY <1>2, <1>3, <1>4

LEMMA MarkUnseen ==
    ASSUME IconInv, NEW c \in Consumers, MarkFile(c) \/ FailFile(c)
    PROVE  Unseen
<1>1. at[c] # "idle" BY DEF MarkFile, FailFile
<1>2. File(c) \in Files /\ files[File(c)] # NoRow BY <1>1, DoingKnown
<1>3. QED BY <1>2, OnlyStatus DEF MarkFile, FailFile

(***************************************************************************)
(* Commits.                                                                *)
(***************************************************************************)
\* A commit writes one entry, with the version that follows, if no other entry
\* has the name.
LEMMA BoardWrites ==
    ASSUME IconInv, NEW o \in Owners, NEW r \in OwnerRow, ~r.deleted,
           owners' = [owners EXCEPT ![o] = r], ~NameExists(r.name, o)
    PROVE  /\ Board!Write(o, r.version)
           /\ BoardView'[o] # NoRow
           /\ BoardView'[o].icon = r.file /\ BoardView'[o].status = r.status
<1>1. /\ owners'[o] = r /\ r # NoRow
      /\ \A p \in Owners \ {o} : owners'[p] = owners[p]
  BY NoRowIsNone DEF IconInv, TablesOK
<1>2. BoardView'[o] = Entry(r) BY <1>1, BoardEntries DEF Live
<1>3. \A p \in Owners \ {o} : BoardView'[p] = BoardView[p]
  BY <1>1, BoardEntries DEF Live
<1>4. \A p \in Owners \ {o} : BoardView[p] = NoRow \/ BoardView[p].name # r.name
  <2> SUFFICES ASSUME NEW p \in Owners \ {o}, BoardView[p] # NoRow
               PROVE  BoardView[p].name # r.name
    OBVIOUS
  <2>1. p \in Live BY BoardEntries
  <2>2. PICK q \in OwnerRow : q = owners[p] BY <2>1, LiveRow
  <2>3. BoardView[p].name = q.name BY <2>1, <2>2, BoardEntries, EntryIsThere
  <2>4. QED BY <2>1, <2>2, <2>3 DEF NameExists
<1>5. Entry(r) = [name |-> r.name, version |-> r.version, icon |-> r.file,
                  status |-> r.status]
  BY DEF Entry
<1>6. BoardView' = [BoardView EXCEPT ![o] = Entry(r)]
  <2>1. /\ BoardView = [p \in Owners |-> BoardView[p]]
        /\ BoardView' = [p \in Owners |-> BoardView'[p]]
    BY DEF BoardView
  <2>2. QED BY <1>2, <1>3, <2>1
<1>7. r.name \in Names BY DEF OwnerRow
<1>8. Board!NameFree(o, r.name) BY <1>4 DEF Board!NameFree
<1>9. PICK e : e = Entry(r) OBVIOUS
<1>10. /\ e # NoRow /\ e.name = r.name /\ e.version = r.version
       /\ e.icon = r.file /\ e.status = r.status
  BY <1>9, EntryIsThere
<1>11. Board!Write(o, r.version)
  <2>1. BoardView' = [BoardView EXCEPT ![o] =
           [name |-> BoardView'[o].name, version |-> r.version,
            icon |-> BoardView'[o].icon, status |-> BoardView'[o].status]]
    BY <1>2, <1>5, <1>6, <1>9, <1>10
  <2>2. QED BY <1>2, <1>7, <1>8, <1>9, <1>10, <2>1 DEF Board!Write
<1>12. QED BY <1>2, <1>9, <1>10, <1>11

\* The upload of a commit is a file that was not there; without one, the files
\* are as they were.
LEMMA CommitIcons ==
    ASSUME IconInv, NEW w \in Workers, Uploading(w), files' = WithFile(w)
    PROVE  /\ req[w].file \in Files /\ ImageView[req[w].file] = "new"
           /\ ImageView' = [ImageView EXCEPT ![req[w].file] = "uploaded"]
<1>1. pc[w] # "idle" /\ req[w].icon = "UPLOAD"
  BY DEF Uploading, Creating, Updating
<1>2. PICK f \in Files : f = req[w].file /\ files[f] = NoRow
  BY <1>1, RequestKnown DEF RequestOK
<1>3. files' = [files EXCEPT ![f] = NewFile] BY <1>1, <1>2 DEF WithFile
<1>4. NewFile \in FileRow /\ ~NewFile.processed BY DEF NewFile, FileRow
<1>5. NewFile # NoRow BY <1>4, NoRowIsNone
<1>6. DOMAIN files = Files BY DEF IconInv, TablesOK
<1>7. ImageView[f] = "new" BY <1>2 DEF ImageView
<1>8. ImageView'[f] = "uploaded" BY <1>3, <1>4, <1>5, <1>6 DEF ImageView
<1>9. \A g \in Files \ {f} : ImageView'[g] = ImageView[g] BY <1>3, <1>6 DEF ImageView
<1>10. /\ ImageView = [g \in Files |-> ImageView[g]]
       /\ ImageView' = [g \in Files |-> ImageView'[g]]
  BY DEF ImageView
<1>11. QED BY <1>2, <1>7, <1>8, <1>9, <1>10

LEMMA CreateAdds ==
    ASSUME IconInv, NEW w \in Workers, CreateCommit(w)
    PROVE  Unseen \/ \E o \in Owners : Board!Add(o)
<1>1. CASE NameTaken(w)
  BY <1>1, SameTables DEF CreateCommit, Refuse, rows
<1>2. CASE ~NameTaken(w)
  <2>1. PICK r : r = CreatedOwner(w) OBVIOUS
  <2>2. /\ pc[w] = "createCommit" /\ owners' = [owners EXCEPT ![req[w].id] = r]
        /\ files' = WithFile(w)
    BY <1>2, <2>1 DEF CreateCommit
  <2>3. /\ req[w] \in Requests /\ req[w].name \in Names /\ owners[req[w].id] = NoRow
        /\ req[w].icon = "UPLOAD" <=> req[w].file \in Files
        /\ Uploading(w) <=> req[w].icon = "UPLOAD"
    BY <2>2, RequestKnown DEF RequestOK, Creating, Uploading
  <2>4. PICK o \in Owners : o = req[w].id BY <2>3 DEF Requests
  <2>5. req[w].file \in Files \cup {NoRow} BY <2>3 DEF Requests
  <2>6. /\ r \in OwnerRow /\ ~r.deleted /\ r.version = 1 /\ r.name = req[w].name
        /\ r.file = req[w].file
        /\ r.status = IF req[w].icon = "UPLOAD" THEN "PENDING" ELSE "READY"
    BY <2>1, <2>3, <2>5 DEF CreatedOwner, OwnerRow
  <2>7. ~NameExists(r.name, o) BY <1>2, <2>4, <2>6 DEF NameTaken
  <2>8. /\ Board!Write(o, 1)
        /\ BoardView'[o].icon = r.file /\ BoardView'[o].status = r.status
    BY <2>2, <2>4, <2>6, <2>7, BoardWrites
  <2>9. BoardView[o] = NoRow BY <2>3, <2>4, BoardEntries DEF Live
  <2>10. CASE req[w].icon = "UPLOAD"
    <3>1. Board!NewIcon(o)
      BY <2>2, <2>3, <2>6, <2>8, <2>10, CommitIcons DEF Board!NewIcon
    <3>2. QED BY <2>8, <2>9, <3>1 DEF Board!Add
  <2>11. CASE req[w].icon # "UPLOAD"
    <3>1. UNCHANGED ImageView BY <2>2, <2>11 DEF WithFile, ImageView
    <3>2. Board!NoIcon(o)
      BY <2>3, <2>5, <2>6, <2>8, <2>11, <3>1 DEF Board!NoIcon
    <3>3. QED BY <2>8, <2>9, <3>2 DEF Board!Add
  <2>12. QED BY <2>10, <2>11
<1>3. QED BY <1>1, <1>2

LEMMA UpdateEdits ==
    ASSUME IconInv, NEW w \in Workers, UpdateCommit(w)
    PROVE  Unseen \/ \E o \in Owners : Board!Edit(o)
<1>1. CASE NameTaken(w)
  BY <1>1, SameTables DEF UpdateCommit, Refuse, rows
<1>2. CASE ~NameTaken(w)
  <2>1. PICK r : r = UpdatedOwner(w) OBVIOUS
  <2>2. /\ pc[w] = "updateCommit" /\ owners' = [owners EXCEPT ![req[w].id] = r]
        /\ files' = WithFile(w) /\ (Uploading(w) <=> req[w].icon = "UPLOAD")
    BY <1>2, <2>1 DEF UpdateCommit, Uploading, Updating
  <2>3. PICK g \in OwnerRow : g = got[w] BY <2>2, UpdatedRow
  <2>4. /\ r \in OwnerRow /\ ~r.deleted /\ r.version = g.version + 1
        /\ r.name = req[w].name /\ g = owners[req[w].id] /\ req[w].id \in Live
        /\ req[w].icon = "UPLOAD" => r.file = req[w].file /\ r.status = "PENDING"
        /\ req[w].icon # "UPLOAD" /\ Removed(w, g) =>
              r.file = NoRow /\ r.status = "READY"
        /\ req[w].icon # "UPLOAD" /\ ~Removed(w, g) =>
              r.file = g.file /\ r.status = g.status
    BY <2>1, <2>2, <2>3, UpdatedRow
  <2>5. PICK o \in Owners : o = req[w].id BY <2>4 DEF Live
  <2>6. ~NameExists(r.name, o) BY <1>2, <2>4, <2>5 DEF NameTaken
  <2>7. /\ Board!Write(o, r.version)
        /\ BoardView'[o].icon = r.file /\ BoardView'[o].status = r.status
    BY <2>2, <2>4, <2>5, <2>6, BoardWrites
  <2>8. BoardView[o] = Entry(g) BY <2>4, <2>5, BoardEntries
  <2>9. PICK e : e = Entry(g) OBVIOUS
  <2>10. /\ BoardView[o] = e /\ e # NoRow /\ e.version = g.version
         /\ e.icon = g.file /\ e.status = g.status
    BY <2>8, <2>9, EntryIsThere
  <2>11. Board!Write(o, BoardView[o].version + 1) BY <2>4, <2>7, <2>10
  <2>12. CASE req[w].icon = "UPLOAD"
    <3>1. Board!NewIcon(o)
      BY <2>2, <2>4, <2>7, <2>12, CommitIcons DEF Board!NewIcon
    <3>2. QED BY <2>10, <2>11, <3>1 DEF Board!Edit
  <2>13. CASE req[w].icon # "UPLOAD"
    <3>1. UNCHANGED ImageView BY <2>2, <2>13 DEF WithFile, ImageView
    <3>2. CASE Removed(w, g)
      <4>1. Board!NoIcon(o) BY <2>4, <2>7, <2>13, <3>1, <3>2 DEF Board!NoIcon
      <4>2. QED BY <2>10, <2>11, <4>1 DEF Board!Edit
    <3>3. CASE ~Removed(w, g)
      <4>1. Board!SameIcon(o)
        BY <2>4, <2>7, <2>10, <2>13, <3>1, <3>3 DEF Board!SameIcon
      <4>2. QED BY <2>10, <2>11, <4>1 DEF Board!Edit
    <3>4. QED BY <3>2, <3>3
  <2>14. QED BY <2>12, <2>13
<1>3. QED BY <1>1, <1>2

LEMMA DeleteRemoves ==
    ASSUME IconInv, NEW w \in Workers, Delete(w)
    PROVE  Unseen \/ \E o \in Owners : Board!Remove(o)
<1>1. CASE ~Found(w) BY <1>1, SameTables DEF Delete, Refuse, rows
<1>2. CASE Found(w)
  <2>1. DeletedBy(w) /\ UNCHANGED files BY <1>2 DEF Delete, DeletedBy, Found
  <2>2. PICK o \in Owners : o = req[w].id /\ o \in Live BY <2>1 DEF DeletedBy, Live
  <2>3. o \notin Live' /\ \A p \in Owners \ {o} : owners'[p] = owners[p]
    BY <2>1, <2>2, DeletedRow DEF Live
  <2>4. BoardView'[o] = NoRow BY <2>3, BoardEntries
  <2>5. \A p \in Owners \ {o} : BoardView'[p] = BoardView[p]
    BY <2>3, BoardEntries DEF Live
  <2>6. /\ BoardView = [p \in Owners |-> BoardView[p]]
        /\ BoardView' = [p \in Owners |-> BoardView'[p]]
    BY DEF BoardView
  <2>7. BoardView[o] # NoRow
    <3>1. PICK r \in OwnerRow : r = owners[o] BY <2>2, LiveRow
    <3>2. QED BY <2>2, <3>1, BoardEntries, EntryIsThere
  <2>8. UNCHANGED ImageView BY <2>1 DEF ImageView
  <2>9. QED BY <2>4, <2>5, <2>6, <2>7, <2>8 DEF Board!Remove
<1>3. QED BY <1>1, <1>2

(***************************************************************************)
(* Icons that a task settles.                                              *)
(***************************************************************************)
\* A task reaches the one entry that shows its file, or none.
LEMMA BoardMarks ==
    ASSUME IconInv, NEW f \in Files, NEW which \in SUBSET Owners,
           NEW status \in {"READY", "FAILED"}, SetIcons(which, status),
           which \subseteq Showing(f), Showing(f) \cap Live \subseteq which
    PROVE  IF \E o \in Owners : Board!Shows(o, f)
           THEN \E o \in Owners : Board!Shows(o, f) /\ Board!Mark(o, status)
           ELSE UNCHANGED BoardView
<1>1. ASSUME NEW o \in Owners
      PROVE  /\ o \in Live' <=> o \in Live
             /\ o \notin Showing(f) \cap Live => BoardView'[o] = BoardView[o]
  <2>1. CASE o \in which
    <3>1. o \in Live' <=> o \in Live BY <2>1, SetRows DEF Live
    <3>2. o \in Showing(f) BY <2>1
    <3>3. QED BY <3>1, <3>2, BoardEntries
  <2>2. CASE o \notin which
    <3>1. owners'[o] = owners[o] BY <2>2, SetRows
    <3>2. QED BY <3>1, BoardEntries DEF Live
  <2>3. QED BY <2>1, <2>2
<1>2. /\ BoardView = [p \in Owners |-> BoardView[p]]
      /\ BoardView' = [p \in Owners |-> BoardView'[p]]
  BY DEF BoardView
<1>3. CASE \E o \in Owners : Board!Shows(o, f)
  <2>1. PICK o \in Owners : Board!Shows(o, f) BY <1>3
  <2>2. o \in Showing(f) /\ o \in Live /\ o \in which BY <2>1, BoardShows
  <2>3. \A p \in Owners \ {o} : p \notin Showing(f)
    BY <2>2, IconWas, NoRowIsNone DEF Showing
  <2>4. \A p \in Owners \ {o} : BoardView'[p] = BoardView[p] BY <1>1, <2>3
  <2>5. PICK q \in OwnerRow : q = owners[o] BY <2>2, LiveRow
  <2>6. PICK r : r = owners'[o] OBVIOUS
  <2>7. /\ r.name = q.name /\ r.version = q.version /\ r.file = q.file
        /\ r.status = status
    BY <2>2, <2>5, <2>6, SetRows
  <2>8. BoardView[o] = Entry(q) /\ BoardView'[o] = Entry(r)
    BY <1>1, <2>2, <2>5, <2>6, BoardEntries
  <2>9. Entry(r) = [Entry(q) EXCEPT !.status = status] BY <2>7 DEF Entry
  <2>10. BoardView' = [BoardView EXCEPT ![o].status = status]
    BY <1>2, <2>4, <2>8, <2>9
  <2>11. QED BY <1>3, <2>1, <2>10 DEF Board!Mark
<1>4. CASE ~\E o \in Owners : Board!Shows(o, f)
  <2>1. \A o \in Owners : BoardView'[o] = BoardView[o] BY <1>1, <1>4, BoardShows
  <2>2. QED BY <1>2, <1>4, <2>1
<1>5. QED BY <1>3, <1>4

LEMMA PublishConverts ==
    ASSUME IconInv, NEW c \in Consumers, Publish(c)
    PROVE  \E f \in Files : Board!Convert(f)
<1>1. /\ at[c] # "idle" /\ SetIcons(Showing(File(c)) \cap Live, "READY")
      /\ files' = [files EXCEPT ![File(c)] = [status |-> "READY", processed |-> TRUE]]
  BY DEF Publish
<1>2. PICK f \in Files : f = File(c) /\ files[f] # NoRow BY <1>1, DoingKnown
<1>3. PICK r : r = [status |-> "READY", processed |-> TRUE] OBVIOUS
<1>4. r \in FileRow /\ r.processed BY <1>3 DEF FileRow
<1>5. r # NoRow BY <1>4, NoRowIsNone
<1>6. DOMAIN files = Files BY DEF IconInv, TablesOK
<1>7. files' = [files EXCEPT ![f] = r] BY <1>1, <1>2, <1>3
<1>8. ImageView[f] # "new" BY <1>2 DEF ImageView
<1>9. ImageView'[f] = "converted" BY <1>4, <1>5, <1>6, <1>7 DEF ImageView
<1>10. \A g \in Files \ {f} : ImageView'[g] = ImageView[g] BY <1>6, <1>7 DEF ImageView
<1>11. /\ ImageView = [g \in Files |-> ImageView[g]]
       /\ ImageView' = [g \in Files |-> ImageView'[g]]
  BY DEF ImageView
<1>12. ImageView' = [ImageView EXCEPT ![f] = "converted"] BY <1>9, <1>10, <1>11
<1>13. Showing(f) \cap Live \in SUBSET Owners BY DEF Showing
<1>14. IF \E o \in Owners : Board!Shows(o, f)
       THEN \E o \in Owners : Board!Shows(o, f) /\ Board!Mark(o, "READY")
       ELSE UNCHANGED BoardView
  BY <1>1, <1>2, <1>13, BoardMarks
<1>15. QED BY <1>8, <1>12, <1>14 DEF Board!Convert

LEMMA FailureFails ==
    ASSUME IconInv, NEW c \in Consumers, FailOwner(c)
    PROVE  Unseen \/ \E o \in Owners : Board!Fail(o)
<1>1. /\ at[c] # "idle" /\ SetIcons(Showing(File(c)), "FAILED") /\ UNCHANGED files
  BY DEF FailOwner
<1>2. PICK f \in Files : f = File(c) BY <1>1, DoingKnown
<1>3. UNCHANGED ImageView BY <1>1 DEF ImageView
<1>4. Showing(f) \in SUBSET Owners BY DEF Showing
<1>5. IF \E o \in Owners : Board!Shows(o, f)
      THEN \E o \in Owners : Board!Shows(o, f) /\ Board!Mark(o, "FAILED")
      ELSE UNCHANGED BoardView
  BY <1>1, <1>2, <1>4, BoardMarks
<1>6. CASE UNCHANGED BoardView BY <1>3, <1>6 DEF Unseen
<1>7. ASSUME NEW o \in Owners, Board!Shows(o, f), Board!Mark(o, "FAILED")
      PROVE  Board!Fail(o)
  BY <1>3, <1>7, NoRowIsNone DEF Board!Shows, Board!Fail
<1>8. QED BY <1>5, <1>6, <1>7

LEMMA BoardSteps ==
    ASSUME IconInv, [Next]_vars
    PROVE  Unseen \/ Board!BoardNext
<1>1. CASE UNCHANGED vars BY <1>1, SameTables DEF vars
<1>2. ASSUME NEW w \in Workers, OwnerRequest(w) PROVE Unseen
  BY <1>2, SameTables
     DEF OwnerRequest, CreateRequest, UpdateRequest, DeleteRequest, Start, rows
<1>3. ASSUME NEW w \in Workers, OwnerStep(w) PROVE Unseen \/ Board!BoardNext
  <2>1. CASE CreateCheck(w) \/ UpdateCheck(w)
    BY <2>1, SameTables DEF CreateCheck, UpdateCheck, CheckName, Refuse, rows
  <2>2. CASE CreateStore(w) \/ UpdateStore(w)
    BY <2>2, SameTables DEF CreateStore, UpdateStore, StoreIcon, Refuse, rows
  <2>3. CASE UpdateLock(w) \/ Send(w)
    BY <2>3, SameTables DEF UpdateLock, Send, Refuse, rows
  <2>4. CASE CreateCommit(w) BY <2>4, CreateAdds DEF Board!BoardNext
  <2>5. CASE UpdateCommit(w) BY <2>5, UpdateEdits DEF Board!BoardNext
  <2>6. CASE Delete(w) BY <2>6, DeleteRemoves DEF Board!BoardNext
  <2>7. QED BY <1>3, <2>1, <2>2, <2>3, <2>4, <2>5, <2>6 DEF OwnerStep
<1>4. ASSUME NEW c \in Consumers, TaskStep(c) \/ Crash(c)
      PROVE  Unseen \/ Board!BoardNext
  <2>1. CASE MarkFile(c) \/ FailFile(c) BY <2>1, MarkUnseen
  <2>2. CASE Cleanup(c) \/ RemoveObjects(c) BY <2>2, RemovalUnseen
  <2>3. CASE Publish(c) BY <2>3, PublishConverts DEF Board!BoardNext
  <2>4. CASE FailOwner(c) BY <2>4, FailureFails DEF Board!BoardNext
  <2>5. CASE \/ Deliver(c) \/ ConvertBegin(c) \/ Image(c) \/ FailTask(c)
             \/ RemoveBegin(c) \/ RemoveEnd(c) \/ Crash(c)
    BY <2>5, SameTables DEF Deliver, ConvertBegin, Image, FailTask, RemoveBegin,
       RemoveEnd, Crash, rows
  <2>6. QED BY <1>4, <2>1, <2>2, <2>3, <2>4, <2>5 DEF TaskStep
<1>5. CASE Next BY <1>2, <1>3, <1>4, <1>5 DEF Next
<1>6. QED BY <1>1, <1>5

LEMMA BoardInitially ==
    ASSUME Init
    PROVE  Board!BoardInit
  BY DEF Init, BoardView, ImageView, Board!BoardInit

\* To users, requests of several statements and tasks that run beside them are
\* single steps of the board: an entry added, edited or removed under a name that
\* is free, an icon settled where it is shown.
THEOREM IconsImplementBoard == Spec => BoardSpec
<1>1. IconInv /\ [Next]_vars => [Board!BoardNext]_<<BoardView, ImageView>>
  BY BoardSteps DEF Unseen
<1>2. QED
  BY <1>1, BoardInitially, IconInit, IconNext, PTL
  DEF Spec, BoardSpec, Board!BoardSpec, Board!view
=============================================================================
