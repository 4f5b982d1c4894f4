------------------------- MODULE WorkRecordService -------------------------
(***************************************************************************)
(* Work records: create, update and delete.  Minutes, breaks and rounding  *)
(* are computed by module WorkTime; here a record is its project, its      *)
(* local month and its version.                                            *)
(***************************************************************************)
EXTENDS BillingData

\* OWNER and ADMIN edit any record, a member its own in projects that allow it.
MayEdit(user, project, owner) ==
    \/ IsAdmin(user)
    \/ user = owner /\ <<user, project>> \in Editors

CreateRecordRequest(w) ==
    /\ "createRecord" \in Operations
    /\ \E u \in Users, r \in Fresh(records), a \in RecordArgs :
          Start(w, "recCreate", Request(u, r, 0, a))

\* No settlement is consulted, and nothing that is read before the insert is
\* changed by the transactions of this model.
CreateRecord(w) ==
    /\ pc[w] = "recCreate"
    /\ OrganizationFree(w)
    /\ LET a == req[w].args IN
       IF MayEdit(req[w].user, a.project, req[w].user)
       THEN /\ records' = [records EXCEPT ![req[w].id] =
                  [project |-> a.project, month |-> a.month,
                   user |-> req[w].user, status |-> a.status,
                   version |-> 1, deleted |-> FALSE]]
            /\ UNCHANGED <<settlements, contracts, keys>>
            /\ Answer(w)
       ELSE Refuse(w)

\* Variant: a record that is not found is looked for again.
LockRecordRetry(w, next) ==
    /\ RecordFree(w, req[w].id)
    /\ req[w].id \in Visible(records)
    /\ got' = [got EXCEPT ![w].row = records[req[w].id]]
    /\ Goto(w, next)

LockRecord(w, next) ==
    /\ RecordFree(w, req[w].id)
    /\ IF req[w].id \in Visible(records)
       THEN /\ got' = [got EXCEPT ![w].row = records[req[w].id]]
            /\ Goto(w, next)
       ELSE Refuse(w)

\* _require_editor, _ensure_mutable, then the version, all against the row as it
\* was loaded.
MayChange(w) ==
    LET row == got[w].row IN
    /\ MayEdit(req[w].user, row.project, row.user)
    /\ ~InFinalizedSettlement(row)
    /\ row.version = req[w].version

(***************************************************************************)
(* update: FOR UPDATE OF the record alone.  The foreign key of a project   *)
(* that changes is checked at commit, before the audit log's organization. *)
(***************************************************************************)
UpdateRecordRequest(w) ==
    /\ "updateRecord" \in Operations
    /\ \E u \in Users, r \in RecordIds, v \in Versions, a \in RecordArgs :
          Start(w, "recUpdateLock", Request(u, r, v, a))

UpdateRecordLock(w) == pc[w] = "recUpdateLock" /\ LockRecord(w, "recUpdateCheck")

UpdateRecordCheck(w) ==
    /\ pc[w] = "recUpdateCheck"
    /\ IF /\ MayChange(w)
          /\ MayEdit(req[w].user, req[w].args.project, got[w].row.user)
       THEN /\ Goto(w, IF ChangesProject(w) THEN "recUpdateMove" ELSE "recUpdateCommit")
            /\ UNCHANGED got
       ELSE Refuse(w)

UpdateRecordMove(w) ==
    /\ pc[w] = "recUpdateMove"
    /\ ProjectFree(w, req[w].args.project)
    /\ Goto(w, "recUpdateCommit")
    /\ UNCHANGED got

UpdatedRecord(w) ==
    LET a == req[w].args IN
    [got[w].row EXCEPT !.project = a.project, !.month = a.month,
                       !.status = a.status, !.version = @ + 1]

UpdateRecordCommit(w) ==
    /\ pc[w] = "recUpdateCommit"
    /\ OrganizationFree(w)
    /\ records' = [records EXCEPT ![req[w].id] = UpdatedRecord(w)]
    /\ UNCHANGED <<settlements, contracts, keys>>
    /\ Answer(w)

(***************************************************************************)
(* delete: FOR UPDATE without OF locks the joined rows too, first the      *)
(* record, then its organization and its project.  A record that moved     *)
(* while the statement waited for it is not found; here its version has    *)
(* changed.                                                                *)
(***************************************************************************)
DeleteRecordRequest(w) ==
    /\ "deleteRecord" \in Operations
    /\ \E u \in Users, r \in RecordIds, v \in Versions :
          Start(w, "recDeleteLock", Request(u, r, v, NoRow))

DeleteRecordLock(w) == pc[w] = "recDeleteLock" /\ LockRecord(w, "recDeleteOrg")

DeleteRecordLockOrganization(w) ==
    /\ pc[w] = "recDeleteOrg"
    /\ OrganizationFree(w)
    /\ Goto(w, "recDeleteProject")
    /\ UNCHANGED got

DeleteRecordLockProject(w) ==
    /\ pc[w] = "recDeleteProject"
    /\ ProjectUnused(w, got[w].row.project)
    /\ Goto(w, "recDeleteCheck")
    /\ UNCHANGED got

DeleteRecordCheck(w) ==
    /\ pc[w] = "recDeleteCheck"
    /\ IF MayChange(w)
       THEN Goto(w, "recDeleteCommit") /\ UNCHANGED got
       ELSE Refuse(w)

DeleteRecordCommit(w) ==
    /\ pc[w] = "recDeleteCommit"
    /\ records' = [records EXCEPT ![req[w].id].deleted = TRUE]
    /\ UNCHANGED <<settlements, contracts, keys>>
    /\ Answer(w)

RecordRequest(w) ==
    CreateRecordRequest(w) \/ UpdateRecordRequest(w) \/ DeleteRecordRequest(w)

RecordStep(w) ==
    \/ CreateRecord(w)
    \/ UpdateRecordLock(w) \/ UpdateRecordCheck(w)
    \/ UpdateRecordMove(w) \/ UpdateRecordCommit(w)
    \/ DeleteRecordLock(w) \/ DeleteRecordLockOrganization(w)
    \/ DeleteRecordLockProject(w)
    \/ DeleteRecordCheck(w) \/ DeleteRecordCommit(w)
============================================================================
