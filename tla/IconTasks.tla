----------------------------- MODULE IconTasks ------------------------------
(***************************************************************************)
(* The Celery tasks process_project_icon, process_client_icon and          *)
(* delete_stored_file.  They run outside a transaction: each save() is a   *)
(* statement of its own, except the one transaction that publishes.        *)
(***************************************************************************)
EXTENDS IconData

Task(c) == doing[c]
File(c) == doing[c][2]

Turn(c, step) == at' = [at EXCEPT ![c] = step] /\ UNCHANGED api

Move(c, step) == Turn(c, step) /\ UNCHANGED doing
Finish(c) == Turn(c, "idle") /\ doing' = [doing EXCEPT ![c] = NoRow]

SetTask(c, status) == tasks' = [tasks EXCEPT ![Task(c)].status = status]

\* A message is acknowledged when it is taken, before the task runs.
Deliver(c) ==
    /\ at[c] = "idle"
    /\ \E t \in TaskIds :
          /\ queue[t] > 0
          /\ queue' = [queue EXCEPT ![t] = @ - 1]
          /\ Turn(c, t[1])
          /\ doing' = [doing EXCEPT ![c] = t]
    /\ UNCHANGED <<rows, objects>>

(***************************************************************************)
(* Conversion.                                                             *)
(***************************************************************************)
ConvertBegin(c) ==
    /\ at[c] = "convert"
    /\ SetTask(c, "PROCESSING")
    /\ Move(c, "markFile")
    /\ UNCHANGED <<owners, files, objects, queue>>

MarkFile(c) ==
    /\ at[c] = "markFile"
    /\ files' = [files EXCEPT ![File(c)].status = "PROCESSING"]
    /\ Move(c, "image")
    /\ UNCHANGED <<owners, tasks, objects, queue>>

\* default_storage.save picks another name when the key is taken.
Converted(f) ==
    IF <<f, "processed">> \in objects THEN <<f, "another">> ELSE <<f, "processed">>

\* Variant: the old icon's objects are removed before the new one is READY.
ImageRemovingOld(c) ==
    LET old == tasks[Task(c)].old IN
    /\ at[c] = "image"
    /\ \/ /\ <<File(c), "original">> \in objects
          /\ objects' = (objects \cup {Converted(File(c))})
                           \ (IF old = NoRow THEN {} ELSE RecordedObjects(old))
          /\ Move(c, "publish")
       \/ /\ "storage" \in Failures \/ <<File(c), "original">> \notin objects
          /\ Move(c, "failFile")
          /\ UNCHANGED objects
    /\ UNCHANGED <<rows, queue>>

Image(c) ==
    /\ at[c] = "image"
    /\ \/ /\ <<File(c), "original">> \in objects
          /\ objects' = objects \cup {Converted(File(c))}
          /\ Move(c, "publish")
       \/ /\ "storage" \in Failures \/ <<File(c), "original">> \notin objects
          /\ Move(c, "failFile")
          /\ UNCHANGED objects
    /\ UNCHANGED <<rows, queue>>

\* Variant: the owner is found by its id, not by the icon it shows now.
ShowingOnce(f) == {o \in Owners : owners[o] # NoRow /\ owners[o].file # NoRow}

Showing(f) == {o \in Owners : owners[o] # NoRow /\ owners[o].file = f}

\* UPDATE waits for an owner another transaction has locked, then looks at its
\* icon again.
SetIcons(which, status) ==
    /\ \A o \in which : OwnerFree(o)
    /\ owners' = [o \in Owners |->
          IF o \in which THEN [owners[o] EXCEPT !.status = status] ELSE owners[o]]

\* Variant: the cleanup is not skipped when nothing was replaced.
AlwaysCleanup(c) == Move(c, "cleanup")

\* Only a task that replaced an icon has an old one to delete.
AfterPublish(c) ==
    IF tasks[Task(c)].old = NoRow THEN Finish(c) ELSE Move(c, "cleanup")

Publish(c) ==
    /\ at[c] = "publish"
    /\ files' = [files EXCEPT ![File(c)] = [status |-> "READY", processed |-> TRUE]]
    /\ SetIcons(Showing(File(c)) \cap Live, "READY")
    /\ SetTask(c, "SUCCEEDED")
    /\ AfterPublish(c)
    /\ UNCHANGED <<objects, queue>>

\* The old icon's objects, inside the same try as the conversion.
Cleanup(c) ==
    /\ at[c] = "cleanup"
    /\ \/ /\ DeleteFileObjects(tasks[Task(c)].old)
          /\ Finish(c)
       \/ /\ "storage" \in Failures
          /\ objects' \in {objects, objects \ {<<tasks[Task(c)].old, "original">>}}
          /\ Move(c, "failFile")
          /\ UNCHANGED files
    /\ UNCHANGED <<owners, tasks, queue>>

\* Variant: the owner is not told.
FailFileOnly(c) ==
    /\ at[c] = "failFile"
    /\ files' = [files EXCEPT ![File(c)].status = "FAILED"]
    /\ Move(c, "failTask")
    /\ UNCHANGED <<owners, tasks, objects, queue>>

FailFile(c) ==
    /\ at[c] = "failFile"
    /\ files' = [files EXCEPT ![File(c)].status = "FAILED"]
    /\ Move(c, "failOwner")
    /\ UNCHANGED <<owners, tasks, objects, queue>>

FailOwner(c) ==
    /\ at[c] = "failOwner"
    /\ SetIcons(Showing(File(c)), "FAILED")
    /\ Move(c, "failTask")
    /\ UNCHANGED <<files, tasks, objects, queue>>

FailTask(c) ==
    /\ at[c] = "failTask"
    /\ SetTask(c, "FAILED")
    /\ Finish(c)
    /\ UNCHANGED <<owners, files, objects, queue>>

(***************************************************************************)
(* Deletion.  Nothing catches a failure of storage.                        *)
(***************************************************************************)
RemoveBegin(c) ==
    /\ at[c] = "remove"
    /\ SetTask(c, "PROCESSING")
    /\ Move(c, "removeObjects")
    /\ UNCHANGED <<owners, files, objects, queue>>

RemoveObjects(c) ==
    /\ at[c] = "removeObjects"
    /\ \/ /\ DeleteFileObjects(File(c))
          /\ Move(c, "removed")
       \/ /\ "storage" \in Failures
          /\ objects' \in {objects, objects \ {<<File(c), "original">>}}
          /\ Finish(c)
          /\ UNCHANGED files
    /\ UNCHANGED <<owners, tasks, queue>>

RemoveEnd(c) ==
    /\ at[c] = "removed"
    /\ SetTask(c, "SUCCEEDED")
    /\ Finish(c)
    /\ UNCHANGED <<owners, files, objects, queue>>

\* The process ends; the message it had taken is gone.
Crash(c) ==
    /\ "crash" \in Failures
    /\ at[c] # "idle"
    /\ Finish(c)
    /\ UNCHANGED <<rows, objects, queue>>

TaskStep(c) ==
    \/ Deliver(c)
    \/ ConvertBegin(c) \/ MarkFile(c)      \/ Image(c)
    \/ Publish(c)      \/ Cleanup(c)
    \/ FailFile(c)     \/ FailOwner(c)     \/ FailTask(c)
    \/ RemoveBegin(c)  \/ RemoveObjects(c) \/ RemoveEnd(c)
=============================================================================
