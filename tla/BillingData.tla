---------------------------- MODULE BillingData ----------------------------
(***************************************************************************)
(* The committed rows the billing services of the API share, the request  *)
(* each server worker is executing, and the row locks and constraints of   *)
(* the database under them.  One organization is modelled: every query of  *)
(* the services is scoped to the caller's organization.                    *)
(*                                                                         *)
(* A service method is one READ COMMITTED transaction.  Each statement     *)
(* that reads rows another transaction may change is a step of its own; a  *)
(* transaction's writes become visible together, in its last step.         *)
(***************************************************************************)
EXTENDS Integers, FiniteSets

CONSTANTS
    Workers,          \* threads of the API server, one request at a time each
    Users,            \* members of the organization
    Admins,           \* those whose membership role is OWNER or ADMIN
    Editors,          \* <<user, project>> pairs with can_edit_work_record
    Projects,         \* live projects of the organization
    Months,           \* settlement months, numbered from 0
    DaysPerMonth,     \* days of a month in which a contract can start or end
    SettlementIds, RecordIds, ContractIds,
    IdempotencyKeys,  \* values of the Idempotency-Key header
    Versions,         \* versions a client may send with a request
    RequestPeriods,   \* contract periods a client may ask for
    RecordStatuses,   \* work record and contract statuses in use
    ContractStatuses,
    Operations,       \* the operations clients invoke in this instance
    InitialContracts, \* contract rows at the start, [ContractIds -> ...]
    NoRow             \* absence of a row, a request or a value

Bases == {"ACTUAL", "SCHEDULED"}
Days == {m * DaysPerMonth + d : m \in Months, d \in 0..(DaysPerMonth - 1)}
OpenEnd == (CHOOSE m \in Months : \A n \in Months : n <= m) * DaysPerMonth
             + DaysPerMonth                        \* valid_until IS NULL
Periods == {p \in [from : Days, until : Days \cup {OpenEnd}] : p.from <= p.until}

FirstDay(m) == m * DaysPerMonth

(***************************************************************************)
(* Rows.  A contract's conditions are identified by the version that holds *)
(* them, so a calculation_snapshot keeps which version of which contract   *)
(* it used (terms) and which version of which work record it added up     *)
(* (included); lines are the two values the settlement lines were made     *)
(* from.                                                                   *)
(***************************************************************************)
Terms == [contract : ContractIds, version : Nat]
Sources == SUBSET (RecordIds \X Nat)

SettlementRow ==
    [project : Projects, month : Months, basis : Bases,
     contract : ContractIds, terms : Terms, included : Sources,
     lines : [terms : Terms, included : Sources],
     status : {"CALCULATED", "FINALIZED"}, version : Nat, deleted : BOOLEAN]

RecordRow ==
    [project : Projects, month : Months, user : Users,
     status : RecordStatuses, version : Nat, deleted : BOOLEAN]

ContractRow ==
    [project : Projects, period : Periods,
     status : ContractStatuses, version : Nat, deleted : BOOLEAN]

KeyRow == [user : Users, settlement : SettlementIds, key : IdempotencyKeys,
           version : Nat]                \* request_hash digests the version

VARIABLES
    settlements, records, contracts,     \* tables: id -> row or NoRow
    keys,                                \* idempotency_keys
    pc,                                  \* the statement a worker is at
    req,                                 \* the request it executes
    got                                  \* what its transaction has read

tables == <<settlements, records, contracts, keys>>
vars == <<settlements, records, contracts, keys, pc, req, got>>

(***************************************************************************)
(* Requests and what a transaction keeps in memory.                        *)
(***************************************************************************)
CalculateArgs == [project : Projects, month : Months, basis : Bases]
RecordArgs == [project : Projects, month : Months, status : RecordStatuses]
ContractArgs ==
    [project : Projects, period : RequestPeriods, status : ContractStatuses]

Request(user, id, version, args) ==
    [user |-> user, id |-> id, version |-> version, args |-> args]

NothingRead == [row |-> NoRow, terms |-> NoRow, included |-> {}]

(***************************************************************************)
(* Queries.                                                                *)
(***************************************************************************)
\* The default manager hides soft-deleted rows.
Visible(table) ==
    {i \in DOMAIN table : table[i] # NoRow /\ ~table[i].deleted}

LiveSettlements(p, m) ==
    {s \in Visible(settlements) :
        settlements[s].project = p /\ settlements[s].month = m}

ApplicableContracts(p, m) ==
    {c \in Visible(contracts) :
        /\ contracts[c].project = p
        /\ contracts[c].status = "ACTIVE"
        /\ contracts[c].period.from < FirstDay(m + 1)
        /\ contracts[c].period.until >= FirstDay(m)}

IncludedRecords(p, m) ==
    {<<r, records[r].version>> : r \in
        {x \in Visible(records) : /\ records[x].project = p
                                  /\ records[x].month = m
                                  /\ records[x].status # "CANCELLED"}}

\* The exists() query of the work record service on a record it has loaded.
InFinalizedSettlement(record) ==
    \E s \in LiveSettlements(record.project, record.month) :
        settlements[s].status = "FINALIZED" /\ settlements[s].basis = "ACTUAL"

IsAdmin(user) == user \in Admins

Fresh(table) ==
    {i \in DOMAIN table :
        table[i] = NoRow /\ \A w \in Workers : pc[w] = "idle" \/ req[w].id # i}

(***************************************************************************)
(* Row locks.  SELECT ... FOR UPDATE holds a row from the statement that   *)
(* took it to the end of the transaction.  A work record's deletion locks  *)
(* the rows it joins as well: the organization, then the project, in the   *)
(* order of the model's fields.  Foreign keys are checked at commit, in    *)
(* the order of the writes, and share the row they refer to with each      *)
(* other but not with FOR UPDATE; the last write, an audit log, refers to  *)
(* the organization.  A new row refers to the organization before its      *)
(* project, so only an update that moves a work record holds a project     *)
(* while it waits for the organization.                                    *)
(***************************************************************************)
HoldsSettlement(w) ==
    pc[w] \in {"recalcContract", "recalcMinutes", "recalcCommit",
               "finalizeCommit", "deleteCommit"}
HoldsRecord(w) ==
    pc[w] \in {"recUpdateCheck", "recUpdateMove", "recUpdateCommit", "recDeleteOrg",
               "recDeleteProject", "recDeleteCheck", "recDeleteCommit"}
HoldsContract(w) ==
    pc[w] \in {"conUpdateCheck", "conUpdateScan", "conUpdateCommit",
               "conDeleteCheck", "conDeleteCommit"}

\* Variants: FOR UPDATE OF the record alone; the organization locked first.
OrganizationNotHeld(w) == FALSE
OrganizationHeldFirst(w) ==
    pc[w] \in {"recDeleteLock", "recDeleteOrg", "recDeleteProject",
               "recDeleteCheck", "recDeleteCommit"}

HoldsOrganization(w) ==
    pc[w] \in {"recDeleteProject", "recDeleteCheck", "recDeleteCommit"}

\* FOR UPDATE by a deletion; FOR KEY SHARE by the foreign key of a moved record.
HoldsProject(w, p) ==
    pc[w] \in {"recDeleteCheck", "recDeleteCommit"} /\ got[w].row.project = p
ChangesProject(w) == req[w].args.project # got[w].row.project
SharesProject(w, p) ==
    pc[w] = "recUpdateCommit" /\ ChangesProject(w) /\ req[w].args.project = p

\* Variant: the row is read without FOR UPDATE.
NoRowLock(w, i) == TRUE

SettlementFree(w, s) ==
    \A v \in Workers \ {w} : ~(HoldsSettlement(v) /\ req[v].id = s)
RecordFree(w, r) ==
    \A v \in Workers \ {w} : ~(HoldsRecord(v) /\ req[v].id = r)
ContractFree(w, c) ==
    \A v \in Workers \ {w} : ~(HoldsContract(v) /\ req[v].id = c)
OrganizationFree(w) == \A v \in Workers \ {w} : ~HoldsOrganization(v)
ProjectFree(w, p) == \A v \in Workers \ {w} : ~HoldsProject(v, p)
ProjectUnused(w, p) ==
    \A v \in Workers \ {w} : ~HoldsProject(v, p) /\ ~SharesProject(v, p)

(***************************************************************************)
(* How a request proceeds.                                                 *)
(***************************************************************************)
Start(w, step, request) ==
    /\ pc[w] = "idle"
    /\ pc' = [pc EXCEPT ![w] = step]
    /\ req' = [req EXCEPT ![w] = request]
    /\ UNCHANGED <<tables, got>>

Goto(w, step) ==
    /\ pc' = [pc EXCEPT ![w] = step]
    /\ UNCHANGED <<tables, req>>

Answer(w) ==
    /\ pc' = [pc EXCEPT ![w] = "idle"]
    /\ req' = [req EXCEPT ![w] = NoRow]
    /\ got' = [got EXCEPT ![w] = NothingRead]

\* An exception rolls the transaction back and becomes the error response.
Refuse(w) == Answer(w) /\ UNCHANGED tables
============================================================================
