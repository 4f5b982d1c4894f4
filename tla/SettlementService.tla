------------------------- MODULE SettlementService -------------------------
(***************************************************************************)
(* The monthly settlements of projects: calculate, recalculate, finalize   *)
(* and delete.  The amounts are a function of the contract terms and the   *)
(* minutes read (module SettlementCalculation); here only which terms and  *)
(* which records they come from is kept, and a calculation that raises is  *)
(* an alternative of the step that ends with it.  Who finalized a row and  *)
(* when is left out.                                                       *)
(***************************************************************************)
EXTENDS BillingData

\* Variant: the exists() query alone guards the month.
MonthNotConstrained(p, m) == FALSE

\* Unique constraint on (organization, project, settlement_month) of rows
\* that are not deleted.
MonthTaken(p, m) == LiveSettlements(p, m) # {}

CalculatedRow(w) ==
    LET a == req[w].args IN
    [project |-> a.project, month |-> a.month, basis |-> a.basis,
     contract |-> got[w].terms.contract, terms |-> got[w].terms,
     included |-> got[w].included,
     lines |-> [terms |-> got[w].terms, included |-> got[w].included],
     status |-> "CALCULATED", version |-> 1, deleted |-> FALSE]

\* Variant: the lines are left as they were.
RecalculatedOldLines(w) ==
    [got[w].row EXCEPT
        !.contract = got[w].terms.contract, !.terms = got[w].terms,
        !.included = got[w].included, !.version = @ + 1]

\* The loaded row with the contract, minutes, amounts, snapshot and lines of
\* the new calculation.
RecalculatedRow(w) ==
    [got[w].row EXCEPT
        !.contract = got[w].terms.contract, !.terms = got[w].terms,
        !.included = got[w].included,
        !.lines = [terms |-> got[w].terms, included |-> got[w].included],
        !.version = @ + 1]

\* Variant: advance_version is not called.
FinalizedSameVersion(w) == [got[w].row EXCEPT !.status = "FINALIZED"]

FinalizedRow(w) == [got[w].row EXCEPT !.status = "FINALIZED", !.version = @ + 1]

ReadContract(w, p, m, next) ==
    LET found == ApplicableContracts(p, m) IN
    \/ \E c \in found :
        /\ found = {c}
        /\ got' = [got EXCEPT ![w].terms =
                       [contract |-> c, version |-> contracts[c].version]]
        /\ Goto(w, next)
    \/ /\ \A c \in found : found # {c}   \* no contract, or several
       /\ Refuse(w)

\* The records are those of the aggregate query; workRecordCount, which a second
\* query reads into the snapshot, and scheduled minutes are left out.
ReadMinutes(w, p, m, next) ==
    \/ /\ got' = [got EXCEPT ![w].included = IncludedRecords(p, m)]
       /\ Goto(w, next)
    \/ Refuse(w)                         \* calculate_amounts raises

(***************************************************************************)
(* calculate                                                               *)
(***************************************************************************)
CalculateRequest(w) ==
    /\ "calculate" \in Operations
    /\ \E u \in Users, s \in Fresh(settlements), a \in CalculateArgs :
          Start(w, "calcExists", Request(u, s, 0, a))

CalculateExists(w) ==
    /\ pc[w] = "calcExists"
    /\ IF /\ IsAdmin(req[w].user)
          /\ LiveSettlements(req[w].args.project, req[w].args.month) = {}
       THEN Goto(w, "calcContract") /\ UNCHANGED got
       ELSE Refuse(w)

CalculateContract(w) ==
    /\ pc[w] = "calcContract"
    /\ ReadContract(w, req[w].args.project, req[w].args.month, "calcMinutes")

CalculateMinutes(w) ==
    /\ pc[w] = "calcMinutes"
    /\ ReadMinutes(w, req[w].args.project, req[w].args.month, "calcCommit")

\* The insert; an IntegrityError is not caught and fails the request.  The
\* foreign key to the contract waits for a transaction that locks it.
CalculateCommit(w) ==
    /\ pc[w] = "calcCommit"
    /\ OrganizationFree(w)
    /\ ContractFree(w, got[w].terms.contract)
    /\ IF MonthTaken(req[w].args.project, req[w].args.month)
       THEN Refuse(w)
       ELSE /\ settlements' = [settlements EXCEPT ![req[w].id] = CalculatedRow(w)]
            /\ UNCHANGED <<records, contracts, keys>>
            /\ Answer(w)

(***************************************************************************)
(* The three operations on an existing row lock it, then check it.         *)
(***************************************************************************)
ChangeRequest(w, op, step, args) ==
    /\ op \in Operations
    /\ \E u \in Users, s \in SettlementIds, v \in Versions, a \in args :
          Start(w, step, Request(u, s, v, a))

\* Variants: the status is not checked; the version is not.
ChangeableAnyStatus(w) ==
    /\ IsAdmin(req[w].user)
    /\ req[w].id \in Visible(settlements)
    /\ settlements[req[w].id].version = req[w].version
ChangeableAnyVersion(w) ==
    /\ IsAdmin(req[w].user)
    /\ req[w].id \in Visible(settlements)
    /\ settlements[req[w].id].status = "CALCULATED"

Changeable(w) ==
    /\ IsAdmin(req[w].user)
    /\ req[w].id \in Visible(settlements)
    /\ settlements[req[w].id].status = "CALCULATED"
    /\ settlements[req[w].id].version = req[w].version

\* Variant: the locked row is not loaded.
LockSettlementOnly(w, next) ==
    /\ SettlementFree(w, req[w].id)
    /\ IF Changeable(w) THEN Goto(w, next) /\ UNCHANGED got ELSE Refuse(w)

LockSettlement(w, next) ==
    /\ SettlementFree(w, req[w].id)
    /\ IF Changeable(w)
       THEN /\ got' = [got EXCEPT ![w].row = settlements[req[w].id]]
            /\ Goto(w, next)
       ELSE Refuse(w)

RecalculateRequest(w) == ChangeRequest(w, "recalculate", "recalcLock", {NoRow})

RecalculateLock(w) == pc[w] = "recalcLock" /\ LockSettlement(w, "recalcContract")

RecalculateContract(w) ==
    /\ pc[w] = "recalcContract"
    /\ ReadContract(w, got[w].row.project, got[w].row.month, "recalcMinutes")

RecalculateMinutes(w) ==
    /\ pc[w] = "recalcMinutes"
    /\ ReadMinutes(w, got[w].row.project, got[w].row.month, "recalcCommit")

RecalculateCommit(w) ==
    /\ pc[w] = "recalcCommit"
    /\ OrganizationFree(w)
    /\ got[w].terms.contract # got[w].row.contract =>
          ContractFree(w, got[w].terms.contract)
    /\ settlements' = [settlements EXCEPT ![req[w].id] = RecalculatedRow(w)]
    /\ UNCHANGED <<records, contracts, keys>>
    /\ Answer(w)

(***************************************************************************)
(* finalize: the idempotency key is looked up before the row is locked.    *)
(***************************************************************************)
FinalizeRequest(w) == ChangeRequest(w, "finalize", "finalizeKey", IdempotencyKeys)

SavedKeys(request) ==
    {k \in keys : /\ k.user = request.user
                  /\ k.settlement = request.id
                  /\ k.key = request.args}

\* A saved key answers with the settlement, or with a conflict when the hash
\* of the request differs; neither changes anything.
FinalizeLookup(w) ==
    /\ pc[w] = "finalizeKey"
    /\ IF IsAdmin(req[w].user) /\ SavedKeys(req[w]) = {}
       THEN Goto(w, "finalizeLock") /\ UNCHANGED got
       ELSE Refuse(w)

FinalizeLock(w) == pc[w] = "finalizeLock" /\ LockSettlement(w, "finalizeCommit")

\* idempotency_scope_key_uniq would fail the request.
FinalizeCommit(w) ==
    /\ pc[w] = "finalizeCommit"
    /\ OrganizationFree(w)
    /\ IF SavedKeys(req[w]) # {}
       THEN Refuse(w)
       ELSE /\ settlements' = [settlements EXCEPT ![req[w].id] = FinalizedRow(w)]
            /\ keys' = keys \cup {[user |-> req[w].user, settlement |-> req[w].id,
                                   key |-> req[w].args, version |-> req[w].version]}
            /\ UNCHANGED <<records, contracts>>
            /\ Answer(w)

(***************************************************************************)
(* delete: a soft delete, only deleted_at is written.                      *)
(***************************************************************************)
DeleteRequest(w) == ChangeRequest(w, "delete", "deleteLock", {NoRow})

DeleteLock(w) == pc[w] = "deleteLock" /\ LockSettlement(w, "deleteCommit")

DeleteCommit(w) ==
    /\ pc[w] = "deleteCommit"
    /\ OrganizationFree(w)
    /\ settlements' = [settlements EXCEPT ![req[w].id].deleted = TRUE]
    /\ UNCHANGED <<records, contracts, keys>>
    /\ Answer(w)

SettlementRequest(w) ==
    \/ CalculateRequest(w)
    \/ RecalculateRequest(w)
    \/ FinalizeRequest(w)
    \/ DeleteRequest(w)

SettlementStep(w) ==
    \/ CalculateExists(w)   \/ CalculateContract(w)
    \/ CalculateMinutes(w)  \/ CalculateCommit(w)
    \/ RecalculateLock(w)   \/ RecalculateContract(w)
    \/ RecalculateMinutes(w) \/ RecalculateCommit(w)
    \/ FinalizeLookup(w)    \/ FinalizeLock(w)  \/ FinalizeCommit(w)
    \/ DeleteLock(w)        \/ DeleteCommit(w)
============================================================================
