--------------------------- MODULE ContractProofs ---------------------------
(***************************************************************************)
(* The contracts of a project never overlap, and requests that stop each   *)
(* other do so in pairs, for any number of workers and rows, from the      *)
(* inductive invariant of BillingProofs.                                   *)
(***************************************************************************)
EXTENDS BillingProofs

\* The three steps that change the contracts.
Inserts(w) ==
    /\ pc[w] = "conCreateCommit"
    /\ contracts' = [contracts EXCEPT ![req[w].id] =
          [project |-> req[w].args.project, period |-> req[w].args.period,
           status |-> req[w].args.status, version |-> 1, deleted |-> FALSE]]

Edits(w) ==
    /\ pc[w] = "conUpdateCommit"
    /\ contracts' = [contracts EXCEPT ![req[w].id] = UpdatedContract(w)]

Drops(w) ==
    /\ pc[w] = "conDeleteCommit"
    /\ contracts' = [contracts EXCEPT ![req[w].id].deleted = TRUE]

LEMMA ContractChanges ==
    ASSUME TypeOK, [Next]_vars
    PROVE  \/ UNCHANGED contracts
           \/ \E w \in Workers : /\ Inserts(w) \/ Edits(w) \/ Drops(w)
                                 /\ ContractStep(w) /\ Answer(w)
<1>1. CASE UNCHANGED vars BY <1>1 DEF vars
<1>2. ASSUME NEW w \in Workers, Begin(w) PROVE UNCHANGED contracts
  BY <1>2, StartEnters DEF Enters, tables
<1>3. ASSUME NEW w \in Workers, RecordStep(w) PROVE UNCHANGED contracts
  BY <1>3 DEF RecordStep, CreateRecord, UpdateRecordLock, UpdateRecordCheck,
     UpdateRecordMove, UpdateRecordCommit, DeleteRecordLock,
     DeleteRecordLockOrganization, DeleteRecordLockProject, DeleteRecordCheck,
     DeleteRecordCommit, LockRecord, Goto, Refuse, tables
<1>4. ASSUME NEW w \in Workers, SettlementStep(w) PROVE UNCHANGED contracts
  BY <1>4 DEF SettlementStep, CalculateExists, CalculateContract, CalculateMinutes,
     CalculateCommit, RecalculateLock, RecalculateContract, RecalculateMinutes,
     RecalculateCommit, FinalizeLookup, FinalizeLock, FinalizeCommit, DeleteLock,
     DeleteCommit, LockSettlement, ReadContract, ReadMinutes, Goto, Refuse, tables
<1>5. ASSUME NEW w \in Workers, ContractStep(w)
      PROVE  UNCHANGED contracts \/ ((Inserts(w) \/ Edits(w) \/ Drops(w)) /\ Answer(w))
  <2>1. CASE CreateContractCommit(w)
    BY <2>1 DEF CreateContractCommit, Inserts
  <2>2. CASE UpdateContractCommit(w)
    BY <2>2 DEF UpdateContractCommit, Edits
  <2>3. CASE DeleteContractCommit(w)
    BY <2>3 DEF DeleteContractCommit, Drops
  <2>4. CASE \/ CreateContractCheck(w) \/ UpdateContractLock(w)
             \/ UpdateContractCheck(w) \/ DeleteContractLock(w)
             \/ DeleteContractCheck(w) \/ CreateContractScan(w)
             \/ UpdateContractScan(w)
    BY <2>4 DEF Scan, CreateContractScan, UpdateContractScan, CreateContractCheck, UpdateContractLock, UpdateContractCheck,
       DeleteContractLock, DeleteContractCheck, LockContract, Goto, Refuse, tables
  <2>5. QED BY <1>5, <2>1, <2>2, <2>3, <2>4 DEF ContractStep
<1>6. ASSUME NEW w \in Workers, Abort(w) PROVE UNCHANGED contracts
  BY <1>6 DEF Abort, Refuse, tables
<1>7. QED BY <1>1, <1>2, <1>3, <1>4, <1>5, <1>6 DEF Next, Step

(***************************************************************************)
(* Days and periods.                                                       *)
(***************************************************************************)
LEMMA PeriodsAreNumbers ==
    /\ Days \cup {OpenEnd} \subseteq Nat
    /\ \A p \in Periods : p.from \in Nat /\ p.until \in Nat
<1>1. Days \subseteq Nat
  <2>1. ASSUME NEW m \in Months, NEW d \in 0..(DaysPerMonth - 1)
        PROVE  m * DaysPerMonth + d \in Nat
    <3>1. m \in Nat /\ DaysPerMonth \in Nat /\ d \in Nat BY InputsAssumption
    <3>2. QED BY <3>1
  <2>2. QED BY <2>1 DEF Days
<1>2. OpenEnd \in Nat
  <2> DEFINE last == CHOOSE m \in Months : \A n \in Months : n <= m
  <2>1. last \in Months BY InputsAssumption
  <2>2. last \in Nat /\ DaysPerMonth \in Nat BY <2>1, InputsAssumption
  <2>3. OpenEnd = last * DaysPerMonth + DaysPerMonth BY DEF OpenEnd
  <2> HIDE DEF last
  <2>4. QED BY <2>2, <2>3
<1>3. QED BY <1>1, <1>2 DEF Periods

(***************************************************************************)
(* Where the steps of the protocol lead from.                              *)
(***************************************************************************)
Writing(w) == pc[w] \in {"conCreateCommit", "conUpdateCommit"}

Checking(w) == pc[w] \in {"conCreateCheck", "conUpdateCheck"}

LEMMA Arrivals ==
    ASSUME TypeOK, NEW w \in Workers, Begin(w) \/ Step(w)
    PROVE  /\ Writing(w)' => Scans(w) /\ ~Refuse(w) /\ Scan(w, pc'[w])
           /\ Scans(w)' => /\ Checking(w) /\ Goto(w, pc'[w]) /\ UNCHANGED got
                           /\ ~Overlaps(req[w].args.project, req[w].args.period,
                                        req[w].id)
           /\ HoldsOrganization(w)' => HoldsOrganization(w) \/ OrganizationFree(w)
<1> USE DEF Writing, Checking, Scans, HoldsOrganization
<1>1. CASE Begin(w)
  <2>1. ~HoldsRecord(w)' /\ ~HoldsContract(w)' BY <1>1, StartEnters DEF Enters
  <2>2. pc'[w] \notin {"conCreateScan", "conCreateCommit"}
    BY <1>1, StartLocal DEF Begin, SettlementRequest, RecordRequest, ContractRequest,
       CalculateRequest, RecalculateRequest, FinalizeRequest, DeleteRequest,
       ChangeRequest, CreateRecordRequest, UpdateRecordRequest, DeleteRecordRequest,
       CreateContractRequest, UpdateContractRequest, DeleteContractRequest
  <2>3. QED BY <2>1, <2>2 DEF HoldsRecord, HoldsContract
<1>2. CASE Answer(w) BY <1>2, AnswerLocal
<1>3. CASE ~Answer(w) /\ SettlementStep(w)
  BY <1>3, GotoLocal DEF SettlementStep, CalculateExists, CalculateContract,
     CalculateMinutes, CalculateCommit, RecalculateLock, RecalculateContract,
     RecalculateMinutes, RecalculateCommit, FinalizeLookup, FinalizeLock,
     FinalizeCommit, DeleteLock, DeleteCommit, LockSettlement, ReadContract,
     ReadMinutes, Refuse
<1>4. CASE ~Answer(w) /\ RecordStep(w)
  BY <1>4, GotoLocal DEF RecordStep, CreateRecord, UpdateRecordLock,
     UpdateRecordCheck, UpdateRecordMove, UpdateRecordCommit, DeleteRecordLock,
     DeleteRecordLockOrganization, DeleteRecordLockProject, DeleteRecordCheck,
     DeleteRecordCommit, LockRecord, Refuse
<1>5. CASE ~Answer(w) /\ ContractStep(w)
  <2>1. CASE CreateContractCheck(w)
    BY <1>5, <2>1, GotoLocal DEF CreateContractCheck, Refuse
  <2>2. CASE UpdateContractCheck(w)
    BY <1>5, <2>2, GotoLocal DEF UpdateContractCheck, Refuse
  <2>3. CASE CreateContractScan(w)
    BY <1>5, <2>3, GotoLocal DEF CreateContractScan, Scan, Refuse
  <2>4. CASE UpdateContractScan(w)
    BY <1>5, <2>4, GotoLocal DEF UpdateContractScan, Scan, Refuse
  <2>5. CASE \/ UpdateContractLock(w) \/ DeleteContractLock(w)
             \/ DeleteContractCheck(w)
    BY <1>5, <2>5, GotoLocal DEF UpdateContractLock, DeleteContractLock,
       DeleteContractCheck, LockContract, Refuse
  <2>6. QED
    BY <1>5, <2>1, <2>2, <2>3, <2>4, <2>5 DEF ContractStep, CreateContractCommit,
       UpdateContractCommit, DeleteContractCommit
<1>6. QED BY <1>1, <1>2, <1>3, <1>4, <1>5 DEF Step, Abort, Refuse

(***************************************************************************)
(* A range that is past its scan meets no committed row and no other range *)
(* that is.                                                                *)
(***************************************************************************)
RangesAdmitted ==
    \A w \in Workers : Writing(w) =>
        /\ ~Excluded(req[w].args.project, req[w].args.period, req[w].id)
        /\ \A v \in Workers \ {w} : Writing(v) => ~MeetsNew(w, v)

\* What the three steps leave of the rows other transactions look at.
LEMMA RowWritten ==
    ASSUME IInv, NEW w \in Workers, Inserts(w) \/ Edits(w) \/ Drops(w)
    PROVE  /\ req[w].id \in ContractIds
           /\ DOMAIN contracts = ContractIds /\ DOMAIN contracts' = ContractIds
           /\ \A c \in ContractIds \ {req[w].id} : contracts'[c] = contracts[c]
           /\ Drops(w) => contracts'[req[w].id].deleted
           /\ ~Drops(w) => /\ Writing(w)
                           /\ req[w].args.period \in Periods
                           /\ contracts'[req[w].id].project = req[w].args.project
                           /\ contracts'[req[w].id].period = req[w].args.period
<1> DEFINE id == req[w].id
<1>1. /\ id \in ContractIds
      /\ DOMAIN contracts = ContractIds /\ DOMAIN contracts' = ContractIds
      /\ \A c \in ContractIds \ {id} : contracts'[c] = contracts[c]
  BY DEF IInv, TypeOK, WorkerTypeOK, ContractSteps, Inserts, Edits, Drops
<1>2. ASSUME Drops(w) PROVE contracts'[id].deleted
  <2>1. contracts[id] \in ContractRow
    BY <1>2 DEF Drops, IInv, LockedRowsCurrent, LockedRowCurrent, HoldsContract,
       Visible, TypeOK
  <2>2. QED BY <1>1, <1>2, <2>1 DEF Drops, ContractRow
<1>3. ASSUME Inserts(w) \/ Edits(w) PROVE req[w].args.period \in Periods
  <2>1. req[w].args \in ContractArgs
    BY <1>3 DEF Inserts, Edits, IInv, TypeOK, WorkerTypeOK
  <2>2. QED BY <2>1, InputsAssumption DEF ContractArgs
<1>4. ASSUME Inserts(w)
      PROVE  /\ contracts'[id].project = req[w].args.project
             /\ contracts'[id].period = req[w].args.period
  BY <1>1, <1>4 DEF Inserts
<1>5. ASSUME Edits(w)
      PROVE  /\ contracts'[id].project = req[w].args.project
             /\ contracts'[id].period = req[w].args.period
  <2>1. /\ got[w].row = contracts[id] /\ got[w].row \in ContractRow
        /\ got[w].row.project = req[w].args.project
    BY <1>5 DEF Edits, IInv, LockedRowsCurrent, LockedRowCurrent, HoldsContract,
       TypeOK, WorkerTypeOK
  <2>2. QED BY <1>1, <1>5, <2>1 DEF Edits, UpdatedContract, ContractRow
<1>6. QED
  BY <1>1, <1>2, <1>3, <1>4, <1>5 DEF Inserts, Edits, Writing

LEMMA RangesPreserved ==
    ASSUME IInv, RangesAdmitted, [Next]_vars
    PROVE  RangesAdmitted'
<1>1. CASE UNCHANGED vars
  BY <1>1 DEF vars, RangesAdmitted, Writing, Excluded, Visible, MeetsNew, Puts, Scans
<1>2. ASSUME NEW x \in Workers, Begin(x) \/ Step(x) PROVE RangesAdmitted'
  <2>1. OthersKept(x) BY <1>2, StepMoves DEF Moves, IInv
  <2>2. ASSUME Writing(x)'
        PROVE  /\ UNCHANGED contracts /\ req'[x] = req[x]
               /\ ~Excluded(req[x].args.project, req[x].args.period, req[x].id)
               /\ \A v \in Workers \ {x} : ~MeetsNew(x, v)
    BY <1>2, <2>2, Arrivals, GotoLocal DEF Scan, tables, IInv
  <2>3. ASSUME NEW w \in Workers \ {x}, Writing(w)'
        PROVE  /\ ~Excluded(req[w].args.project, req[w].args.period, req[w].id)'
               /\ Writing(w) /\ req'[w] = req[w]
    <3>1. /\ Writing(w) /\ req'[w] = req[w]
          /\ ~Excluded(req[w].args.project, req[w].args.period, req[w].id)
      BY <2>1, <2>3 DEF OthersKept, Writing, RangesAdmitted
    <3>2. CASE UNCHANGED contracts BY <3>1, <3>2 DEF Excluded, Visible
    <3>3. ASSUME NEW y \in Workers, Answer(y), Inserts(y) \/ Edits(y) \/ Drops(y)
          PROVE  ~Excluded(req[w].args.project, req[w].args.period, req[w].id)'
      <4>1. y # w BY <2>3, <3>3, AnswerLocal DEF Writing, IInv
      <4>2. ASSUME NEW c \in Visible(contracts)' \ {req[w].id},
                   contracts'[c].project = req[w].args.project,
                   Meet(contracts'[c].period, req[w].args.period)
            PROVE  FALSE
        <5>1. CASE c # req[y].id
          BY <3>1, <3>3, <4>2, <5>1, RowWritten DEF Visible, Excluded
        <5>2. CASE c = req[y].id
          <6>1. ~Drops(y) BY <3>3, <4>2, <5>2, RowWritten DEF Visible
          <6>2. MeetsNew(w, y) /\ Writing(y)
            BY <3>3, <4>2, <5>2, <6>1, RowWritten DEF MeetsNew, Puts, Writing
          <6>3. QED BY <3>1, <4>1, <6>2 DEF RangesAdmitted
        <5>3. QED BY <5>1, <5>2
      <4>3. QED BY <3>1, <4>2 DEF Excluded
    <3>4. QED BY <3>1, <3>2, <3>3, ContractChanges DEF IInv
  <2>4. ASSUME NEW w \in Workers, NEW v \in Workers \ {w}, Writing(w)', Writing(v)'
        PROVE  ~MeetsNew(w, v)'
    <3>1. req'[w] = req[w] /\ req'[v] = req[v] BY <2>2, <2>3, <2>4
    <3>2. ~(/\ req[v].args.project = req[w].args.project
            /\ Meet(req[v].args.period, req[w].args.period))
      <4>1. CASE w = x
        BY <2>2, <2>3, <2>4, <4>1 DEF MeetsNew, Puts, Writing
      <4>2. CASE v = x
        BY <2>2, <2>3, <2>4, <4>2 DEF MeetsNew, Puts, Writing, Meet
      <4>3. CASE w # x /\ v # x
        BY <2>3, <2>4, <4>3 DEF RangesAdmitted, MeetsNew, Puts, Writing
      <4>4. QED BY <4>1, <4>2, <4>3
    <3>3. QED BY <3>1, <3>2 DEF MeetsNew
  <2>5. ASSUME NEW w \in Workers, Writing(w)'
        PROVE  ~Excluded(req[w].args.project, req[w].args.period, req[w].id)'
    BY <2>2, <2>3, <2>5 DEF Excluded, Visible
  <2>6. QED BY <2>4, <2>5 DEF RangesAdmitted
<1>3. QED BY <1>1, <1>2 DEF Next

Apart(x, y) == x.until < y.from \/ y.until < x.from

\* A period that the constraint admits is apart from every other of its project.
LEMMA AdmittedApart ==
    ASSUME TypeOK, NEW project, NEW period \in Periods, NEW i,
           ~Excluded(project, period, i),
           NEW c \in Visible(contracts) \ {i}, contracts[c].project = project
    PROVE  Apart(contracts[c].period, period)
<1>1. contracts[c] \in ContractRow BY DEF Visible, TypeOK
<1>2. contracts[c].period \in Periods BY <1>1 DEF ContractRow
<1>3. /\ contracts[c].period.from \in Nat /\ contracts[c].period.until \in Nat
      /\ period.from \in Nat /\ period.until \in Nat
  BY <1>2, PeriodsAreNumbers
<1>4. ~(/\ contracts[c].period.from < period.until + 1
        /\ period.from < contracts[c].period.until + 1)
  BY DEF Excluded, Meet
<1>5. QED BY <1>3, <1>4 DEF Apart

PeriodsApart ==
    \A c, d \in Visible(contracts) :
        c # d /\ contracts[c].project = contracts[d].project =>
            Apart(contracts[c].period, contracts[d].period)

LEMMA ApartDisjoint ==
    ASSUME TypeOK
    PROVE  PeriodsApart => ContractPeriodsDisjoint
<1> SUFFICES ASSUME PeriodsApart, NEW c \in Visible(contracts),
                    NEW d \in Visible(contracts), c # d,
                    contracts[c].project = contracts[d].project,
                    NEW day \in Days \cup {OpenEnd}
             PROVE  ~(/\ contracts[c].period.from <= day /\ day <= contracts[c].period.until
                      /\ contracts[d].period.from <= day /\ day <= contracts[d].period.until)
  BY DEF ContractPeriodsDisjoint
<1>1. contracts[c] \in ContractRow /\ contracts[d] \in ContractRow
  BY DEF Visible, TypeOK
<1>2. /\ contracts[c].period.from \in Nat /\ contracts[c].period.until \in Nat
      /\ contracts[d].period.from \in Nat /\ contracts[d].period.until \in Nat
  BY <1>1, PeriodsAreNumbers DEF ContractRow
<1>3. day \in Nat BY PeriodsAreNumbers
<1>4. Apart(contracts[c].period, contracts[d].period) BY DEF PeriodsApart
<1>5. QED BY <1>2, <1>3, <1>4 DEF Apart

LEMMA ApartPreserved ==
    ASSUME IInv, RangesAdmitted, PeriodsApart, [Next]_vars
    PROVE  PeriodsApart'
<1>1. CASE UNCHANGED contracts BY <1>1 DEF PeriodsApart, Visible
<1>2. ASSUME NEW w \in Workers, Inserts(w) \/ Edits(w) \/ Drops(w)
      PROVE  PeriodsApart'
  <2> DEFINE id == req[w].id
  <2>1. ASSUME NEW c \in Visible(contracts)', c # id
        PROVE  c \in Visible(contracts) /\ contracts'[c] = contracts[c]
    BY <1>2, <2>1, RowWritten DEF Visible
  <2>2. ASSUME NEW c \in Visible(contracts)', c # id, id \in Visible(contracts)',
               contracts'[c].project = contracts'[id].project
        PROVE  Apart(contracts'[c].period, contracts'[id].period)
    <3>1. ~Drops(w) BY <1>2, <2>2, RowWritten DEF Visible
    <3>2. /\ req[w].args.period \in Periods
          /\ contracts'[id].project = req[w].args.project
          /\ contracts'[id].period = req[w].args.period
      BY <1>2, <3>1, RowWritten
    <3>3. ~Excluded(req[w].args.project, req[w].args.period, id)
      BY <1>2, <3>1, RowWritten DEF RangesAdmitted
    <3>4. Apart(contracts[c].period, req[w].args.period)
      BY <2>1, <2>2, <3>2, <3>3, AdmittedApart DEF IInv
    <3>5. QED BY <2>1, <2>2, <3>2, <3>4
  <2>3. \A x, y : Apart(x, y) <=> Apart(y, x) BY DEF Apart
  <2>4. QED BY <2>1, <2>2, <2>3 DEF PeriodsApart
<1>3. QED BY <1>1, <1>2, ContractChanges DEF IInv

LEMMA ApartInitially ==
    ASSUME Init
    PROVE  PeriodsApart
  BY InitialContractsAssumption DEF Init, PeriodsApart, Visible, Apart

\* Contracts created and updated together never come to share a day.
THEOREM ContractsDisjoint == Spec => []ContractPeriodsDisjoint
<1>1. IInv /\ RangesAdmitted /\ PeriodsApart /\ [Next]_vars =>
        RangesAdmitted' /\ PeriodsApart'
  BY RangesPreserved, ApartPreserved
<1>2. Init => RangesAdmitted /\ PeriodsApart
  BY ApartInitially DEF Init, RangesAdmitted, Writing
<1>3. IInv /\ PeriodsApart => ContractPeriodsDisjoint BY ApartDisjoint DEF IInv
<1>4. QED BY <1>1, <1>2, <1>3, Invariance, PTL DEF Spec

(***************************************************************************)
(* The order of locks.                                                     *)
(***************************************************************************)
\* A request that waits executes no statement: Awaits says no more than the
\* guards do.
LEMMA WaitersStay ==
    ASSUME NEW w \in Workers, NEW v \in Workers, Awaits(w, v)
    PROVE  ~(SettlementStep(w) \/ RecordStep(w) \/ ContractStep(w))
<1>1. v \in Workers \ {w} BY DEF Awaits
<1>2. ~SettlementStep(w)
  BY <1>1 DEF Awaits, Scans, SettlementStep, OrganizationFree, ContractFree,
     SettlementFree, CalculateExists, CalculateContract, CalculateMinutes,
     CalculateCommit, RecalculateLock, RecalculateContract, RecalculateMinutes,
     RecalculateCommit, FinalizeLookup, FinalizeLock, FinalizeCommit, DeleteLock,
     DeleteCommit, LockSettlement
<1>3. ~RecordStep(w)
  BY <1>1 DEF Awaits, Scans, RecordStep, OrganizationFree, ProjectFree, ProjectUnused,
     RecordFree, CreateRecord, UpdateRecordLock, UpdateRecordCheck, UpdateRecordMove,
     UpdateRecordCommit, DeleteRecordLock, DeleteRecordLockOrganization,
     DeleteRecordLockProject, DeleteRecordCheck, DeleteRecordCommit, LockRecord
<1>4. ~ContractStep(w)
  BY <1>1 DEF Awaits, Scans, ContractStep, OrganizationFree, ContractFree, Scan,
     CreateContractCheck, CreateContractScan, CreateContractCommit,
     UpdateContractLock, UpdateContractCheck, UpdateContractScan,
     UpdateContractCommit, DeleteContractLock, DeleteContractCheck,
     DeleteContractCommit, LockContract
<1>5. QED BY <1>2, <1>3, <1>4

\* One transaction at a time holds the organization.
OneHolder ==
    \A v, w \in Workers : HoldsOrganization(v) /\ HoldsOrganization(w) => v = w

\* Of any contracts being scanned for, the query of the one that came last has
\* seen the rows the others will replace.
LatestSawRows ==
    \A scanners \in (SUBSET Workers) \ {{}} :
        (\A w \in scanners : Scans(w)) =>
            \E w \in scanners : \A v \in scanners \ {w} : ~MeetsOld(w, v)

LEMMA HolderPreserved ==
    ASSUME IInv, OneHolder, [Next]_vars
    PROVE  OneHolder'
<1>1. CASE UNCHANGED vars BY <1>1 DEF vars, OneHolder, HoldsOrganization
<1>2. ASSUME NEW x \in Workers, Begin(x) \/ Step(x) PROVE OneHolder'
  <2>1. OthersKept(x) BY <1>2, StepMoves DEF Moves, IInv
  <2>2. \A v \in Workers \ {x} : HoldsOrganization(v)' => HoldsOrganization(v)
    BY <2>1 DEF OthersKept, HoldsOrganization
  <2>3. HoldsOrganization(x)' => HoldsOrganization(x) \/ OrganizationFree(x)
    BY <1>2, Arrivals DEF IInv
  <2>4. QED BY <2>2, <2>3 DEF OneHolder, OrganizationFree
<1>3. QED BY <1>1, <1>2 DEF Next

\* The row another update has locked is one the query has read.
LEMMA QueryCovers ==
    ASSUME IInv, NEW w \in Workers, NEW v \in Workers \ {w}, Checking(w), Scans(v),
           ~Overlaps(req[w].args.project, req[w].args.period, req[w].id)
    PROVE  ~MeetsOld(w, v)
<1> SUFFICES ASSUME TakesAway(v), got[v].row.project = req[w].args.project
             PROVE  ~Meet(got[v].row.period, req[w].args.period)
  BY DEF MeetsOld
<1>1. HoldsContract(v) BY DEF Scans, TakesAway, HoldsContract
<1>2. /\ got[v].row = contracts[req[v].id] /\ got[v].row \in ContractRow
      /\ req[v].id \in Visible(contracts)
  BY <1>1 DEF IInv, LockedRowsCurrent, LockedRowCurrent, TypeOK, WorkerTypeOK
<1>3. req[v].id # req[w].id
  BY <1>1 DEF Checking, IInv, ClaimsExclusive, ClaimsContract, HoldsContract, NewContract
<1>4. ~(/\ got[v].row.period.from <= req[w].args.period.until
        /\ got[v].row.period.until >= req[w].args.period.from)
  BY <1>2, <1>3 DEF Overlaps
<1>5. req[w].args.period \in Periods
  BY InputsAssumption DEF Checking, IInv, TypeOK, WorkerTypeOK, ContractArgs
<1>6. /\ got[v].row.period.from \in Nat /\ got[v].row.period.until \in Nat
      /\ req[w].args.period.from \in Nat /\ req[w].args.period.until \in Nat
  BY <1>2, <1>5, PeriodsAreNumbers DEF ContractRow
<1>7. QED BY <1>4, <1>6 DEF Meet

LEMMA LatestPreserved ==
    ASSUME IInv, LatestSawRows, [Next]_vars
    PROVE  LatestSawRows'
<1>1. CASE UNCHANGED vars
  BY <1>1 DEF vars, LatestSawRows, Scans, MeetsOld, TakesAway
<1>2. ASSUME NEW x \in Workers, Begin(x) \/ Step(x),
             NEW scanners \in SUBSET Workers, scanners # {},
             \A w \in scanners : Scans(w)'
      PROVE  \E w \in scanners : \A v \in scanners \ {w} : ~MeetsOld(w, v)'
  <2>1. OthersKept(x) BY <1>2, StepMoves DEF Moves, IInv
  <2>2. \A w \in Workers \ {x} :
           pc'[w] = pc[w] /\ req'[w] = req[w] /\ got'[w] = got[w]
    BY <2>1 DEF OthersKept
  <2>3. CASE x \in scanners
    <3>1. /\ Checking(x) /\ req'[x] = req[x]
          /\ ~Overlaps(req[x].args.project, req[x].args.period, req[x].id)
      BY <1>2, <2>3, Arrivals, GotoLocal DEF IInv
    <3>2. ASSUME NEW v \in scanners \ {x} PROVE ~MeetsOld(x, v)'
      <4>1. Scans(v) BY <1>2, <2>2, <3>2 DEF Scans
      <4>2. ~MeetsOld(x, v) BY <3>1, <3>2, <4>1, QueryCovers
      <4>3. QED BY <2>2, <3>1, <3>2, <4>2 DEF MeetsOld, TakesAway
    <3>3. QED BY <2>3, <3>2
  <2>4. CASE x \notin scanners
    <3>1. \A w \in scanners : Scans(w) BY <1>2, <2>2, <2>4 DEF Scans
    <3>2. PICK w \in scanners : \A v \in scanners \ {w} : ~MeetsOld(w, v)
      BY <1>2, <3>1 DEF LatestSawRows
    <3>3. \A v \in scanners \ {w} : ~MeetsOld(w, v)'
      BY <2>2, <2>4, <3>2 DEF MeetsOld, TakesAway
    <3>4. QED BY <3>3
  <2>5. QED BY <2>3, <2>4
<1>3. QED BY <1>1, <1>2 DEF Next, LatestSawRows

\* In a circle, the holder of the organization waits for a commit that moves a
\* record; without one every wait leads to contracts being scanned for.
LEMMA CirclesArePairs ==
    ASSUME OneHolder, LatestSawRows
    PROVE  DeadlocksInPairs
<1> SUFFICES ASSUME NEW circle \in SUBSET Workers, circle # {},
                    \A w \in circle : \E v \in circle : Awaits(w, v)
             PROVE  \E w, v \in circle :
                       /\ Awaits(w, v) /\ Awaits(v, w)
                       /\ \/ /\ pc[w] = "recDeleteProject" /\ pc[v] = "recUpdateCommit"
                             /\ req[v].args.project = got[w].row.project
                          \/ Scans(w) /\ Scans(v) /\ MeetsNew(w, v)
  BY DEF DeadlocksInPairs
<1>1. ASSUME NEW w \in circle, HoldsOrganization(w)
      PROVE  \E v \in circle :
                /\ Awaits(w, v) /\ Awaits(v, w)
                /\ pc[w] = "recDeleteProject" /\ pc[v] = "recUpdateCommit"
                /\ req[v].args.project = got[w].row.project
  <2>1. PICK v \in circle : Awaits(w, v) OBVIOUS
  <2>2. pc[w] = "recDeleteProject" /\ SharesProject(v, got[w].row.project)
    BY <1>1, <2>1 DEF Awaits, HoldsOrganization, HoldsProject, OneHolder, Scans
  <2>3. Awaits(v, w) BY <1>1, <2>1, <2>2 DEF Awaits, SharesProject
  <2>4. QED BY <2>1, <2>2, <2>3 DEF SharesProject
<1>2. CASE \A w \in circle : ~HoldsOrganization(w)
  <2>1. ASSUME NEW w \in circle
        PROVE  \/ Scans(w)
               \/ \E v \in circle : HoldsContract(v)
               \/ \E v \in circle : HoldsSettlement(v) \/ HoldsRecord(v)
    BY <1>2 DEF Awaits, HoldsOrganization, HoldsProject
  <2>2. ASSUME NEW w \in circle PROVE ~HoldsRecord(w)
    BY <1>2 DEF Awaits, HoldsOrganization, HoldsProject, HoldsRecord, Scans
  <2>3. ASSUME NEW w \in circle, HoldsContract(w) PROVE Scans(w)
    BY <1>2, <2>3 DEF Awaits, HoldsOrganization, HoldsContract
  <2>4. ASSUME NEW w \in circle, HoldsSettlement(w)
        PROVE  \E v \in circle : HoldsContract(v)
    BY <1>2, <2>4 DEF Awaits, HoldsOrganization, HoldsSettlement, Scans
  <2>5. ASSUME NEW v \in circle, Puts(v) \/ TakesAway(v) PROVE Scans(v)
    BY <1>2, <2>5 DEF Awaits, HoldsOrganization, Puts, TakesAway, Scans
  <2> DEFINE scanners == {w \in circle : Scans(w)}
  <2>6. scanners # {} BY <2>1, <2>2, <2>3, <2>4
  <2>7. PICK w \in scanners : \A v \in scanners \ {w} : ~MeetsOld(w, v)
    BY <2>6 DEF LatestSawRows
  <2>8. PICK v \in circle : Awaits(w, v) BY <2>7
  <2>9. v # w /\ (MeetsNew(w, v) \/ MeetsOld(w, v))
    BY <1>2, <2>7, <2>8 DEF Awaits, Scans
  <2>10. Scans(v) BY <2>5, <2>9 DEF MeetsNew, MeetsOld
  <2>11. MeetsNew(w, v) BY <2>7, <2>9, <2>10
  <2>12. Awaits(v, w)
    BY <2>7, <2>9, <2>10, <2>11 DEF Awaits, MeetsNew, Puts, Meet
  <2>13. QED BY <2>7, <2>8, <2>10, <2>11, <2>12
<1>3. QED BY <1>1, <1>2

\* However many requests run, those that stop each other contain two that do so
\* by themselves, and only two kinds of pairs can: PostgreSQL ends one of them.
THEOREM DeadlocksOnlyInPairs == Spec => []DeadlocksInPairs
<1>1. Init => OneHolder /\ LatestSawRows
  BY DEF Init, OneHolder, HoldsOrganization, LatestSawRows, Scans
<1>2. IInv /\ OneHolder /\ LatestSawRows /\ [Next]_vars => OneHolder' /\ LatestSawRows'
  BY HolderPreserved, LatestPreserved
<1>3. OneHolder /\ LatestSawRows => DeadlocksInPairs BY CirclesArePairs
<1>4. QED BY <1>1, <1>2, <1>3, Invariance, PTL DEF Spec
============================================================================
