------------------------------ MODULE Billing ------------------------------
(***************************************************************************)
(* The billing core: settlement, work record and contract requests of any  *)
(* number of workers over one database.                                    *)
(***************************************************************************)
EXTENDS SettlementService, WorkRecordService, ContractService

\* The contracts at the start are rows that create requests could have made.
ASSUME InitialContractsAssumption ==
    /\ InitialContracts \in [ContractIds -> ContractRow \cup {NoRow}]
    /\ \A c, d \in ContractIds :
          LET x == InitialContracts[c]
              y == InitialContracts[d]
          IN  x # NoRow /\ y # NoRow /\ c # d /\ x.project = y.project =>
                  x.period.until < y.period.from \/ y.period.until < x.period.from
    /\ \A c \in ContractIds :
          InitialContracts[c] # NoRow =>
              ~InitialContracts[c].deleted /\ InitialContracts[c].version = 1

ASSUME InputsAssumption ==
    /\ Months \subseteq Nat /\ \E m \in Months : \A n \in Months : n <= m
    /\ DaysPerMonth \in Nat \ {0}
    /\ Versions \subseteq Nat
    /\ RequestPeriods \subseteq Periods      \* validate_contract_conditions
    /\ RecordStatuses \subseteq {"DRAFT", "CONFIRMED", "CANCELLED"}
    /\ ContractStatuses \subseteq {"ACTIVE", "INACTIVE"}

CalculatedFigures == [terms : Terms, included : Sources]
Pages == [status : {"CALCULATED", "FINALIZED"}, version : Nat,
          figures : CalculatedFigures]

ASSUME NoRowAssumption ==
    NoRow \notin SettlementRow \cup RecordRow \cup ContractRow \cup Terms \cup Pages

Init ==
    /\ settlements = [s \in SettlementIds |-> NoRow]
    /\ records = [r \in RecordIds |-> NoRow]
    /\ contracts = InitialContracts
    /\ keys = {}
    /\ pc = [w \in Workers |-> "idle"]
    /\ req = [w \in Workers |-> NoRow]
    /\ got = [w \in Workers |-> NothingRead]

Begin(w) == SettlementRequest(w) \/ RecordRequest(w) \/ ContractRequest(w)

(***************************************************************************)
(* Waiting.  Two waits of a first statement, whose transaction holds       *)
(* nothing that anybody could wait for, are left out: that of a settlement *)
(* inserted for the month another one is being inserted for, and that of   *)
(* FOR UPDATE on a contract for a commit that refers to it.                *)
(***************************************************************************)
\* The next statement of w needs a row that v has locked, its own, one it comes
\* to refer to or the organization, or the outcome of a contract v writes.
Awaits(w, v) ==
    /\ v # w
    /\ \/ /\ pc[w] \in {"calcCommit", "recalcCommit", "finalizeCommit", "deleteCommit",
                        "recCreate", "recUpdateCommit", "recDeleteOrg",
                        "conCreateCommit", "conUpdateCommit", "conDeleteCommit"}
          /\ HoldsOrganization(v)
       \/ /\ pc[w] \in {"recalcLock", "finalizeLock", "deleteLock"}
          /\ HoldsSettlement(v) /\ req[v].id = req[w].id
       \/ /\ pc[w] \in {"recUpdateLock", "recDeleteLock"}
          /\ HoldsRecord(v) /\ req[v].id = req[w].id
       \/ /\ pc[w] \in {"conUpdateLock", "conDeleteLock"}
          /\ HoldsContract(v) /\ req[v].id = req[w].id
       \/ /\ \/ pc[w] = "calcCommit"
             \/ pc[w] = "recalcCommit" /\ got[w].terms.contract # got[w].row.contract
          /\ HoldsContract(v) /\ req[v].id = got[w].terms.contract
       \/ pc[w] = "recUpdateMove" /\ HoldsProject(v, req[w].args.project)
       \/ /\ pc[w] = "recDeleteProject"
          /\ HoldsProject(v, got[w].row.project) \/ SharesProject(v, got[w].row.project)
       \/ Scans(w) /\ (MeetsNew(w, v) \/ MeetsOld(w, v))

\* PostgreSQL ends a transaction that waits for one that waits for it.
Abort(w) ==
    /\ \E v \in Workers : Awaits(w, v) /\ Awaits(v, w)
    /\ Refuse(w)

Step(w) == SettlementStep(w) \/ RecordStep(w) \/ ContractStep(w) \/ Abort(w)

Next == \E w \in Workers : Begin(w) \/ Step(w)

Spec == Init /\ [][Next]_vars

\* A request that was accepted is executed to its end: no worker stops, and
\* the database grants the waiters of a row in turn and looks for deadlocks.
Fairness == \A w \in Workers : SF_vars(Step(w))

FairSpec == Spec /\ Fairness

----------------------------------------------------------------------------
(***************************************************************************)
(* Type invariant.                                                         *)
(***************************************************************************)
SettlementSteps ==
    {"recalcLock", "recalcContract", "recalcMinutes", "recalcCommit",
     "finalizeKey", "finalizeLock", "finalizeCommit", "deleteLock", "deleteCommit"}
CalculateSteps == {"calcExists", "calcContract", "calcMinutes", "calcCommit"}
RecordSteps ==
    {"recCreate", "recUpdateLock", "recUpdateCheck", "recUpdateMove", "recUpdateCommit",
     "recDeleteLock", "recDeleteOrg", "recDeleteProject", "recDeleteCheck",
     "recDeleteCommit"}
ContractSteps ==
    {"conCreateCheck", "conCreateScan", "conCreateCommit", "conUpdateLock",
     "conUpdateCheck", "conUpdateScan", "conUpdateCommit", "conDeleteLock",
     "conDeleteCheck", "conDeleteCommit"}

\* The kind of request a worker holds at each step, and what it has read.
WorkerTypeOK(w) ==
    /\ pc[w] \in {"idle"} \cup CalculateSteps \cup SettlementSteps
                   \cup RecordSteps \cup ContractSteps
    /\ pc[w] \in CalculateSteps =>
          req[w] \in [user : Users, id : SettlementIds, version : Nat,
                      args : CalculateArgs]
    /\ pc[w] \in SettlementSteps =>
          req[w] \in [user : Users, id : SettlementIds, version : Nat,
                      args : IdempotencyKeys \cup {NoRow}]
    /\ pc[w] \in {"finalizeKey", "finalizeLock", "finalizeCommit"} =>
          req[w].args \in IdempotencyKeys
    /\ pc[w] \in RecordSteps =>
          req[w] \in [user : Users, id : RecordIds, version : Nat,
                      args : RecordArgs \cup {NoRow}]
    /\ pc[w] \in {"recCreate", "recUpdateLock", "recUpdateCheck", "recUpdateMove",
                  "recUpdateCommit"} =>
          req[w].args \in RecordArgs
    /\ pc[w] \in ContractSteps =>
          req[w] \in [user : Users, id : ContractIds, version : Nat,
                      args : ContractArgs \cup Projects]
    /\ pc[w] \in {"conCreateCheck", "conCreateScan", "conCreateCommit", "conUpdateLock",
                  "conUpdateCheck", "conUpdateScan", "conUpdateCommit"} =>
          req[w].args \in ContractArgs
    /\ HoldsSettlement(w) => got[w].row \in SettlementRow
    /\ HoldsRecord(w) => got[w].row \in RecordRow
    /\ HoldsContract(w) => got[w].row \in ContractRow
    /\ pc[w] \in {"calcMinutes", "calcCommit", "recalcMinutes", "recalcCommit"} =>
          got[w].terms \in Terms
    /\ got[w] \in [row : SettlementRow \cup RecordRow \cup ContractRow \cup {NoRow},
                   terms : Terms \cup {NoRow}, included : Sources]

TypeOK ==
    /\ settlements \in [SettlementIds -> SettlementRow \cup {NoRow}]
    /\ records \in [RecordIds -> RecordRow \cup {NoRow}]
    /\ contracts \in [ContractIds -> ContractRow \cup {NoRow}]
    /\ keys \subseteq KeyRow
    /\ DOMAIN pc = Workers /\ DOMAIN req = Workers /\ DOMAIN got = Workers
    /\ \A w \in Workers : WorkerTypeOK(w)

----------------------------------------------------------------------------
(***************************************************************************)
(* Transactions.                                                           *)
(***************************************************************************)
LockedRowCurrent(w) ==
    /\ HoldsSettlement(w) =>
          got[w].row = settlements[req[w].id] /\ Changeable(w)
    /\ HoldsRecord(w) =>
          got[w].row = records[req[w].id] /\ req[w].id \in Visible(records)
    /\ pc[w] \in {"recUpdateMove", "recUpdateCommit", "recDeleteCommit"} =>
          got[w].row.version = req[w].version
    /\ HoldsContract(w) =>
          /\ got[w].row = contracts[req[w].id]
          /\ req[w].id \in Visible(contracts)
          /\ got[w].row.version = req[w].version
    /\ pc[w] \in {"conUpdateCheck", "conUpdateScan", "conUpdateCommit"} =>
          got[w].row.project = req[w].args.project

\* From the statement that locks a row to the end of the transaction the row is
\* what the transaction has loaded, and what was checked of it stays true.
LockedRowsCurrent == \A w \in Workers : LockedRowCurrent(w)

----------------------------------------------------------------------------
(***************************************************************************)
(* Settlements.                                                            *)
(***************************************************************************)
\* However many calculate requests pass the exists() check together, a month
\* of a project has at most one settlement that is not deleted.
OneLiveSettlementPerMonth ==
    \A p \in Projects, m \in Months :
        \A s, t \in LiveSettlements(p, m) : s = t

\* A saved idempotency key stands for exactly one finalization: its settlement
\* is live, FINALIZED, at the version after the one the client confirmed, and
\* was finalized by no other request.
KeyMeansFinalized ==
    /\ \A k \in keys :
          /\ k.settlement \in Visible(settlements)
          /\ settlements[k.settlement].status = "FINALIZED"
          /\ settlements[k.settlement].version = k.version + 1
    /\ \A k, l \in keys : k.settlement = l.settlement => k = l
    /\ \A s \in SettlementIds :
          settlements[s] # NoRow /\ settlements[s].status = "FINALIZED" =>
              \E k \in keys : k.settlement = s

\* No request, started before or after, changes or deletes a settlement once
\* it is FINALIZED.
FinalizedFrozen ==
    [][\A s \in SettlementIds :
          settlements[s] # NoRow /\ settlements[s].status = "FINALIZED" =>
              settlements'[s] = settlements[s]]_vars

\* Row i of the table may go to its new value only by the step of a request
\* that names it and whose version is the one being replaced; its version then
\* goes up by one, or stays when the row is deleted.
ReplacesItsVersion(table, i) ==
    \/ table'[i] = table[i]
    \/ table[i] = NoRow
    \/ \E w \in Workers :
          /\ pc[w] # "idle" /\ pc'[w] = "idle"
          /\ req[w].id = i
          /\ req[w].version = table[i].version
          /\ ~table[i].deleted
          /\ IF table'[i].deleted THEN table'[i].version = table[i].version
             ELSE table'[i].version = table[i].version + 1

\* No update is lost: a write that a client confirmed against one version of a
\* row is never applied over another version of it.
NoLostUpdate ==
    [][/\ \A s \in SettlementIds : ReplacesItsVersion(settlements, s)
       /\ \A r \in RecordIds : ReplacesItsVersion(records, r)
       /\ \A c \in ContractIds : ReplacesItsVersion(contracts, c)]_vars

\* The row, its snapshot and its lines always tell of the same calculation.
SettlementExplained ==
    \A s \in SettlementIds :
        LET row == settlements[s] IN
        row # NoRow =>
            /\ row.contract = row.terms.contract
            /\ row.lines = [terms |-> row.terms, included |-> row.included]

\* The settlement of each book, if it has one that is not deleted.
Page(row) ==
    [status |-> row.status, version |-> row.version, figures |-> row.lines]

LedgerView ==
    [b \in Projects \X Months |->
        IF LiveSettlements(b[1], b[2]) = {} THEN NoRow
        ELSE Page(settlements[CHOOSE s \in LiveSettlements(b[1], b[2]) : TRUE])]

Ledger == INSTANCE SettlementLedger WITH
    Books <- Projects \X Months,
    Figures <- CalculatedFigures,
    Blank <- NoRow,
    ledger <- LedgerView

\* The settlements implement the ledger of module SettlementLedger.
LedgerSpec == Ledger!LedgerSpec

----------------------------------------------------------------------------
(***************************************************************************)
(* Work records.                                                           *)
(***************************************************************************)
Settled(r) == InFinalizedSettlement(records[r])

\* A work record booked on a month with a FINALIZED settlement of basis ACTUAL
\* is not deleted, even by a request that was admitted before the finalization.
SettledRecordsNotDeleted ==
    [][\A r \in Visible(records) : Settled(r) => ~records'[r].deleted]_vars

\* "A WorkRecord that is part of a finalized settlement cannot be updated":
\* the record's present version was added up in a settlement of basis ACTUAL
\* that is now FINALIZED.
PartOfFinalized(r) ==
    \E s \in Visible(settlements) :
        /\ settlements[s].status = "FINALIZED" /\ settlements[s].basis = "ACTUAL"
        /\ <<r, records[r].version>> \in settlements[s].included

SettledRecordsNotUpdated ==
    [][\A r \in Visible(records) : PartOfFinalized(r) =>
          records'[r].version = records[r].version]_vars

----------------------------------------------------------------------------
(***************************************************************************)
(* Contracts.                                                              *)
(***************************************************************************)
\* No two live contracts of a project are valid on the same day, whatever
\* creates and updates run together.
ContractPeriodsDisjoint ==
    \A c, d \in Visible(contracts) :
        c # d /\ contracts[c].project = contracts[d].project =>
            \A day \in Days \cup {OpenEnd} :
                ~(/\ contracts[c].period.from <= day /\ day <= contracts[c].period.until
                  /\ contracts[d].period.from <= day /\ day <= contracts[d].period.until)

\* A contract that a settlement still to be finalized uses is not deleted.
ContractInUseKept ==
    \A s \in Visible(settlements) :
        settlements[s].status = "CALCULATED" =>
            settlements[s].contract \in Visible(contracts)

----------------------------------------------------------------------------
(***************************************************************************)
(* Requests.                                                               *)
(***************************************************************************)
\* Requests that wait for each other in a circle contain two that do so by
\* themselves, one of which PostgreSQL ends: a deletion of a work record that
\* holds the organization and a commit that moves another record to the same
\* project, or two contracts of a project written for periods that meet.  No
\* other requests stop each other, whatever they lock.
DeadlocksInPairs ==
    \A circle \in (SUBSET Workers) \ {{}} :
        (\A w \in circle : \E v \in circle : Awaits(w, v)) =>
            \E w, v \in circle :
                /\ Awaits(w, v) /\ Awaits(v, w)
                /\ \/ /\ pc[w] = "recDeleteProject" /\ pc[v] = "recUpdateCommit"
                      /\ req[v].args.project = got[w].row.project
                   \/ Scans(w) /\ Scans(v) /\ MeetsNew(w, v)

\* No set of requests waits for each other's rows forever.
EveryRequestAnswered == \A w \in Workers : pc[w] # "idle" ~> pc[w] = "idle"
============================================================================
