-------------------------- MODULE ContractService --------------------------
(***************************************************************************)
(* The contracts of a project: create, update and delete.  Two contracts   *)
(* of a project must not be valid on the same day; the service checks it   *)
(* with a query, the database with an exclusion constraint.                *)
(***************************************************************************)
EXTENDS BillingData

\* Variant: the query is not made.
OverlapsUnasked(project, period, self) == FALSE

\* The service's query, inclusive of both end days, for another contract.
Overlaps(project, period, self) ==
    \E c \in Visible(contracts) \ {self} :
        /\ contracts[c].project = project
        /\ contracts[c].period.from <= period.until
        /\ contracts[c].period.until >= period.from

(***************************************************************************)
(* contracts_project_period_excl: the half-open day ranges                 *)
(* [valid_from, valid_until + 1) of live rows of a project are disjoint.   *)
(* An insert or update first puts its new range into the index and then    *)
(* looks for ranges it meets: one that another transaction is writing, or  *)
(* taking away, it waits for.  The query before it only reads committed    *)
(* rows, so the range counts as put from there on.  (PostgreSQL may leave  *)
(* both out when an update keeps its period; who meets it is then refused  *)
(* by the row that stays.)                                                 *)
(***************************************************************************)
\* Variant: the range ends before valid_until instead of after it.
MeetShort(p, q) == p.from < q.until /\ q.from < p.until

Meet(p, q) == p.from < q.until + 1 /\ q.from < p.until + 1

Scans(w) == pc[w] \in {"conCreateScan", "conUpdateScan"}
Puts(w) == Scans(w) \/ pc[w] \in {"conCreateCommit", "conUpdateCommit"}
TakesAway(w) == pc[w] \in {"conUpdateScan", "conUpdateCommit", "conDeleteCommit"}

\* The range w puts meets the one v puts, or takes away.
MeetsNew(w, v) ==
    /\ Puts(v) /\ req[v].args.project = req[w].args.project
    /\ Meet(req[v].args.period, req[w].args.period)
MeetsOld(w, v) ==
    /\ TakesAway(v) /\ got[v].row.project = req[w].args.project
    /\ Meet(got[v].row.period, req[w].args.period)

Excluded(project, period, self) ==
    \E c \in Visible(contracts) \ {self} :
        contracts[c].project = project /\ Meet(contracts[c].period, period)

Scan(w, next) ==
    /\ \A v \in Workers \ {w} : ~MeetsNew(w, v) /\ ~MeetsOld(w, v)
    /\ IF Excluded(req[w].args.project, req[w].args.period, req[w].id)
       THEN Refuse(w)
       ELSE Goto(w, next) /\ UNCHANGED got

CreateContractRequest(w) ==
    /\ "createContract" \in Operations
    /\ \E u \in Users, c \in Fresh(contracts), a \in ContractArgs :
          Start(w, "conCreateCheck", Request(u, c, 0, a))

CreateContractCheck(w) ==
    /\ pc[w] = "conCreateCheck"
    /\ IF /\ IsAdmin(req[w].user)
          /\ ~Overlaps(req[w].args.project, req[w].args.period, req[w].id)
       THEN Goto(w, "conCreateScan") /\ UNCHANGED got
       ELSE Refuse(w)

CreateContractScan(w) == pc[w] = "conCreateScan" /\ Scan(w, "conCreateCommit")

CreateContractCommit(w) ==
    /\ pc[w] = "conCreateCommit"
    /\ OrganizationFree(w)
    /\ LET a == req[w].args IN
       contracts' = [contracts EXCEPT ![req[w].id] =
           [project |-> a.project, period |-> a.period,
            status |-> a.status, version |-> 1, deleted |-> FALSE]]
    /\ UNCHANGED <<settlements, records, keys>>
    /\ Answer(w)

\* update and delete address a contract through its project, lock the row and
\* compare versions.
LockContract(w, project, next) ==
    /\ ContractFree(w, req[w].id)
    /\ IF /\ IsAdmin(req[w].user)
          /\ req[w].id \in Visible(contracts)
          /\ contracts[req[w].id].project = project
          /\ contracts[req[w].id].version = req[w].version
       THEN /\ got' = [got EXCEPT ![w].row = contracts[req[w].id]]
            /\ Goto(w, next)
       ELSE Refuse(w)

UpdateContractRequest(w) ==
    /\ "updateContract" \in Operations
    /\ \E u \in Users, c \in ContractIds, v \in Versions, a \in ContractArgs :
          Start(w, "conUpdateLock", Request(u, c, v, a))

UpdateContractLock(w) ==
    /\ pc[w] = "conUpdateLock"
    /\ LockContract(w, req[w].args.project, "conUpdateCheck")

UpdateContractCheck(w) ==
    /\ pc[w] = "conUpdateCheck"
    /\ IF Overlaps(req[w].args.project, req[w].args.period, req[w].id)
       THEN Refuse(w)
       ELSE Goto(w, "conUpdateScan") /\ UNCHANGED got

UpdateContractScan(w) == pc[w] = "conUpdateScan" /\ Scan(w, "conUpdateCommit")

UpdatedContract(w) ==
    [got[w].row EXCEPT !.period = req[w].args.period,
                       !.status = req[w].args.status, !.version = @ + 1]

UpdateContractCommit(w) ==
    /\ pc[w] = "conUpdateCommit"
    /\ OrganizationFree(w)
    /\ contracts' = [contracts EXCEPT ![req[w].id] = UpdatedContract(w)]
    /\ UNCHANGED <<settlements, records, keys>>
    /\ Answer(w)

DeleteContractRequest(w) ==
    /\ "deleteContract" \in Operations
    /\ \E u \in Users, c \in ContractIds, v \in Versions, p \in Projects :
          Start(w, "conDeleteLock", Request(u, c, v, p))

DeleteContractLock(w) ==
    /\ pc[w] = "conDeleteLock"
    /\ LockContract(w, req[w].args, "conDeleteCheck")

InUse(c) ==
    \E s \in Visible(settlements) :
        settlements[s].contract = c /\ settlements[s].status = "CALCULATED"

DeleteContractCheck(w) ==
    /\ pc[w] = "conDeleteCheck"
    /\ IF InUse(req[w].id)
       THEN Refuse(w)
       ELSE Goto(w, "conDeleteCommit") /\ UNCHANGED got

DeleteContractCommit(w) ==
    /\ pc[w] = "conDeleteCommit"
    /\ OrganizationFree(w)
    /\ contracts' = [contracts EXCEPT ![req[w].id].deleted = TRUE]
    /\ UNCHANGED <<settlements, records, keys>>
    /\ Answer(w)

ContractRequest(w) ==
    CreateContractRequest(w) \/ UpdateContractRequest(w) \/ DeleteContractRequest(w)

ContractStep(w) ==
    \/ CreateContractCheck(w) \/ CreateContractScan(w)  \/ CreateContractCommit(w)
    \/ UpdateContractLock(w)  \/ UpdateContractCheck(w)
    \/ UpdateContractScan(w)  \/ UpdateContractCommit(w)
    \/ DeleteContractLock(w)  \/ DeleteContractCheck(w) \/ DeleteContractCommit(w)
============================================================================
