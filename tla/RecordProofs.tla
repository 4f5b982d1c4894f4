---------------------------- MODULE RecordProofs ----------------------------
(***************************************************************************)
(* Work records and finalizations, and the versions of all three tables.   *)
(***************************************************************************)
EXTENDS SettlementProofs, ContractProofs

\* The three steps that change the work records.
Books(w) ==
    /\ pc[w] = "recCreate" /\ Answer(w)
    /\ records' = [records EXCEPT ![req[w].id] =
          [project |-> req[w].args.project, month |-> req[w].args.month,
           user |-> req[w].user, status |-> req[w].args.status,
           version |-> 1, deleted |-> FALSE]]

Rebooks(w) ==
    /\ pc[w] = "recUpdateCommit" /\ Answer(w)
    /\ records' = [records EXCEPT ![req[w].id] = UpdatedRecord(w)]

Unbooks(w) ==
    /\ pc[w] = "recDeleteCommit" /\ Answer(w)
    /\ records' = [records EXCEPT ![req[w].id].deleted = TRUE]

LEMMA RecordChanges ==
    ASSUME TypeOK, [Next]_vars
    PROVE  \/ UNCHANGED records
           \/ \E w \in Workers : Books(w) \/ Rebooks(w) \/ Unbooks(w)
<1>1. CASE UNCHANGED vars BY <1>1 DEF vars
<1>2. ASSUME NEW w \in Workers, Begin(w) PROVE UNCHANGED records
  BY <1>2, StartEnters DEF Enters, tables
<1>3. ASSUME NEW w \in Workers, SettlementStep(w) PROVE UNCHANGED records
  BY <1>3 DEF SettlementStep, CalculateExists, CalculateContract, CalculateMinutes,
     CalculateCommit, RecalculateLock, RecalculateContract, RecalculateMinutes,
     RecalculateCommit, FinalizeLookup, FinalizeLock, FinalizeCommit, DeleteLock,
     DeleteCommit, LockSettlement, ReadContract, ReadMinutes, Goto, Refuse, tables
<1>4. ASSUME NEW w \in Workers, ContractStep(w) PROVE UNCHANGED records
  BY <1>4 DEF ContractStep, CreateContractCheck, CreateContractScan,
     CreateContractCommit, UpdateContractLock, UpdateContractCheck,
     UpdateContractScan, UpdateContractCommit, DeleteContractLock,
     DeleteContractCheck, DeleteContractCommit, LockContract, Scan, Goto, Refuse, tables
<1>5. ASSUME NEW w \in Workers, RecordStep(w)
      PROVE  UNCHANGED records \/ Books(w) \/ Rebooks(w) \/ Unbooks(w)
  <2>1. CASE CreateRecord(w)
    BY <2>1 DEF CreateRecord, Books, Refuse, tables
  <2>2. CASE UpdateRecordCommit(w)
    BY <2>2 DEF UpdateRecordCommit, Rebooks
  <2>3. CASE DeleteRecordCommit(w)
    BY <2>3 DEF DeleteRecordCommit, Unbooks
  <2>4. CASE \/ UpdateRecordLock(w) \/ UpdateRecordCheck(w) \/ DeleteRecordLock(w)
             \/ DeleteRecordLockOrganization(w) \/ DeleteRecordCheck(w)
             \/ UpdateRecordMove(w) \/ DeleteRecordLockProject(w)
    BY <2>4 DEF UpdateRecordLock, UpdateRecordCheck, UpdateRecordMove,
       DeleteRecordLock, DeleteRecordLockOrganization, DeleteRecordLockProject,
       DeleteRecordCheck, LockRecord, Goto, Refuse, tables
  <2>5. QED BY <1>5, <2>1, <2>2, <2>3, <2>4 DEF RecordStep
<1>6. ASSUME NEW w \in Workers, Abort(w) PROVE UNCHANGED records
  BY <1>6 DEF Abort, Refuse, tables
<1>7. QED BY <1>1, <1>2, <1>3, <1>4, <1>5, <1>6 DEF Next, Step

(***************************************************************************)
(* A deletion that has passed its check holds the organization, and no     *)
(* settlement changes while another transaction does.                      *)
(***************************************************************************)
DeletionsAdmitted ==
    \A w \in Workers :
        pc[w] = "recDeleteCommit" => ~InFinalizedSettlement(got[w].row)

LEMMA OnlyCheckAdmits ==
    ASSUME TypeOK, NEW w \in Workers, Begin(w) \/ Step(w),
           pc'[w] = "recDeleteCommit"
    PROVE  DeleteRecordCheck(w)
<1>1. ~Refuse(w) /\ ~Answer(w) BY AnswerLocal DEF Refuse
<1>2. ~Begin(w)
  BY StartEnters DEF Enters, HoldsRecord
<1>3. ~SettlementStep(w)
  BY <1>1, GotoLocal DEF SettlementStep, CalculateExists, CalculateContract,
     CalculateMinutes, CalculateCommit, RecalculateLock, RecalculateContract,
     RecalculateMinutes, RecalculateCommit, FinalizeLookup, FinalizeLock,
     FinalizeCommit, DeleteLock, DeleteCommit, LockSettlement, ReadContract,
     ReadMinutes
<1>4. ~ContractStep(w)
  BY <1>1, GotoLocal DEF ContractStep, CreateContractCheck, CreateContractScan,
     CreateContractCommit, UpdateContractLock, UpdateContractCheck,
     UpdateContractScan, UpdateContractCommit, DeleteContractLock,
     DeleteContractCheck, DeleteContractCommit, LockContract, Scan
<1>5. RecordStep(w) => DeleteRecordCheck(w)
  BY <1>1, GotoLocal DEF RecordStep, CreateRecord, UpdateRecordLock,
     UpdateRecordCheck, UpdateRecordMove, UpdateRecordCommit, DeleteRecordLock,
     DeleteRecordLockOrganization, DeleteRecordLockProject, DeleteRecordCommit,
     LockRecord
<1>6. QED BY <1>1, <1>2, <1>3, <1>4, <1>5 DEF Step, Abort

LEMMA AdmittedPreserved ==
    ASSUME IInv, DeletionsAdmitted, [Next]_vars
    PROVE  DeletionsAdmitted'
<1>1. CASE UNCHANGED vars
  BY <1>1 DEF vars, DeletionsAdmitted, InFinalizedSettlement, LiveSettlements, Visible
<1>2. ASSUME NEW w \in Workers, Begin(w) \/ Step(w) PROVE DeletionsAdmitted'
  <2>1. OthersKept(w) BY <1>2, StepMoves DEF Moves, IInv
  <2>2. ASSUME NEW v \in Workers \ {w}, pc'[v] = "recDeleteCommit"
        PROVE  ~InFinalizedSettlement(got[v].row)'
    <3>1. /\ pc[v] = "recDeleteCommit" /\ got'[v] = got[v]
          /\ ~InFinalizedSettlement(got[v].row)
      BY <2>1, <2>2 DEF OthersKept, DeletionsAdmitted
    <3>2. HoldsOrganization(v) BY <3>1 DEF HoldsOrganization
    <3>3. settlements' = settlements
      <4>1. \A x \in Workers : Ending(x) => x = v /\ pc'[x] = "idle"
        BY <3>2, AnswerLocal DEF Ending, OrganizationFree, IInv
      <4>2. \A x \in Workers : Opens(x) \/ Revises(x) \/ Closes(x) \/ Removes(x) => Ending(x)
        BY DEF Opens, Revises, Closes, Removes, Writes
      <4>3. QED BY <2>2, <4>1, <4>2, SettlementChanges DEF IInv
    <3>4. QED BY <3>1, <3>3 DEF InFinalizedSettlement, LiveSettlements, Visible
  <2>3. ASSUME pc'[w] = "recDeleteCommit"
        PROVE  ~InFinalizedSettlement(got[w].row)'
    <3>1. DeleteRecordCheck(w) BY <1>2, <2>3, OnlyCheckAdmits DEF IInv
    <3>2. MayChange(w) /\ got' = got /\ settlements' = settlements
      BY <2>3, <3>1, AnswerLocal DEF DeleteRecordCheck, Goto, Refuse, tables, IInv
    <3>3. QED BY <3>1, <3>2 DEF MayChange, InFinalizedSettlement, LiveSettlements, Visible
  <2>4. QED BY <2>2, <2>3 DEF DeletionsAdmitted
<1>3. QED BY <1>1, <1>2 DEF Next

LEMMA SettledKept ==
    ASSUME IInv, DeletionsAdmitted, [Next]_vars,
           NEW r \in Visible(records), Settled(r)
    PROVE  ~records'[r].deleted
<1>1. /\ r \in RecordIds /\ records[r] \in RecordRow /\ ~records[r].deleted
  BY DEF Visible, IInv, TypeOK
<1>2. CASE UNCHANGED records BY <1>1, <1>2
<1>3. ASSUME NEW w \in Workers, Books(w) \/ Rebooks(w) \/ Unbooks(w)
      PROVE  ~records'[r].deleted
  <2>1. CASE req[w].id # r
    BY <1>1, <1>3, <2>1 DEF Books, Rebooks, Unbooks, IInv, TypeOK
  <2>2. CASE req[w].id = r /\ Books(w)
    BY <1>1, <2>2, NoRowAssumption DEF Books, IInv, NewRowAbsent, NewRecord, Visible
  <2>3. CASE req[w].id = r /\ (Rebooks(w) \/ Unbooks(w))
    <3>1. got[w].row = records[r]
      BY <2>3 DEF Rebooks, Unbooks, IInv, LockedRowsCurrent, LockedRowCurrent,
         HoldsRecord
    <3>2. CASE Rebooks(w)
      BY <1>1, <2>3, <3>1, <3>2 DEF Rebooks, UpdatedRecord, RecordRow, IInv, TypeOK
    <3>3. CASE Unbooks(w)
      BY <3>1, <3>3 DEF Unbooks, DeletionsAdmitted, Settled
    <3>4. QED BY <2>3, <3>2, <3>3
  <2>4. QED BY <1>3, <2>1, <2>2, <2>3
<1>4. QED BY <1>2, <1>3, RecordChanges DEF IInv

\* No schedule of deletions and finalizations deletes a record whose month is
\* finalized.
THEOREM SettledRecordsKept == Spec => SettledRecordsNotDeleted
<1>1. Init => DeletionsAdmitted BY DEF Init, DeletionsAdmitted
<1>2. IInv /\ DeletionsAdmitted /\ [Next]_vars => DeletionsAdmitted'
  BY AdmittedPreserved
<1>3. IInv /\ DeletionsAdmitted /\ [Next]_vars =>
        [\A r \in Visible(records) : Settled(r) => ~records'[r].deleted]_vars
  BY SettledKept
<1>4. QED
  BY <1>1, <1>2, <1>3, Invariance, PTL DEF Spec, SettledRecordsNotDeleted

(***************************************************************************)
(* Versions.                                                               *)
(***************************************************************************)
LEMMA SettlementVersions ==
    ASSUME IInv, [Next]_vars, NEW s \in SettlementIds
    PROVE  ReplacesItsVersion(settlements, s)
<1>1. CASE UNCHANGED settlements BY <1>1 DEF ReplacesItsVersion
<1>2. ASSUME NEW w \in Workers, Opens(w) \/ Revises(w) \/ Closes(w) \/ Removes(w)
      PROVE  ReplacesItsVersion(settlements, s)
  <2>1. CASE req[w].id # s
    BY <1>2, <2>1, OtherRowsKept DEF ReplacesItsVersion
  <2>2. CASE req[w].id = s /\ Opens(w)
    BY <2>2, OpenedRow DEF ReplacesItsVersion
  <2>3. CASE req[w].id = s /\ (Revises(w) \/ Closes(w) \/ Removes(w))
    <3>1. pc[w] # "idle" /\ pc'[w] = "idle"
      BY <2>3, AnswerLocal DEF Revises, Closes, Removes, Writes, Ending, IInv
    <3>2. /\ ~settlements[s].deleted /\ req[w].version = settlements[s].version
          /\ \/ settlements'[s].deleted /\ settlements'[s].version = settlements[s].version
             \/ /\ ~settlements'[s].deleted
                /\ settlements'[s].version = settlements[s].version + 1
      BY <2>3, RevisedRow, ClosedRow, RemovedRow
    <3>3. QED BY <2>3, <3>1, <3>2 DEF ReplacesItsVersion
  <2>4. QED BY <1>2, <2>1, <2>2, <2>3
<1>3. QED BY <1>1, <1>2, SettlementChanges DEF IInv

LEMMA RecordVersions ==
    ASSUME IInv, [Next]_vars, NEW r \in RecordIds
    PROVE  ReplacesItsVersion(records, r)
<1>1. CASE UNCHANGED records BY <1>1 DEF ReplacesItsVersion
<1>2. ASSUME NEW w \in Workers, Books(w) \/ Rebooks(w) \/ Unbooks(w)
      PROVE  ReplacesItsVersion(records, r)
  <2>1. CASE req[w].id # r
    BY <1>2, <2>1 DEF Books, Rebooks, Unbooks, ReplacesItsVersion, IInv, TypeOK
  <2>2. CASE req[w].id = r /\ Books(w)
    BY <2>2 DEF Books, IInv, NewRowAbsent, NewRecord, ReplacesItsVersion
  <2>3. CASE req[w].id = r /\ (Rebooks(w) \/ Unbooks(w))
    <3>1. pc[w] # "idle" /\ pc'[w] = "idle"
      BY <2>3, AnswerLocal DEF Rebooks, Unbooks, IInv
    <3>2. /\ got[w].row = records[r] /\ records[r] \in RecordRow
          /\ ~records[r].deleted /\ req[w].version = records[r].version
      BY <2>3 DEF Rebooks, Unbooks, IInv, LockedRowsCurrent, LockedRowCurrent,
         HoldsRecord, Visible, TypeOK
    <3>3. CASE Rebooks(w)
      <4>1. /\ records'[r].deleted = records[r].deleted
            /\ records'[r].version = records[r].version + 1
        BY <2>3, <3>2, <3>3 DEF Rebooks, UpdatedRecord, RecordRow, IInv, TypeOK
      <4>2. QED BY <2>3, <3>1, <3>2, <4>1 DEF ReplacesItsVersion
    <3>4. CASE Unbooks(w)
      <4>1. records'[r].deleted /\ records'[r].version = records[r].version
        BY <2>3, <3>2, <3>4 DEF Unbooks, RecordRow, IInv, TypeOK
      <4>2. QED BY <2>3, <3>1, <3>2, <4>1 DEF ReplacesItsVersion
    <3>5. QED BY <2>3, <3>3, <3>4
  <2>4. QED BY <1>2, <2>1, <2>2, <2>3
<1>3. QED BY <1>1, <1>2, RecordChanges DEF IInv

LEMMA ContractVersions ==
    ASSUME IInv, [Next]_vars, NEW c \in ContractIds
    PROVE  ReplacesItsVersion(contracts, c)
<1>1. CASE UNCHANGED contracts BY <1>1 DEF ReplacesItsVersion
<1>2. ASSUME NEW w \in Workers, Answer(w), Inserts(w) \/ Edits(w) \/ Drops(w)
      PROVE  ReplacesItsVersion(contracts, c)
  <2>1. CASE req[w].id # c
    BY <1>2, <2>1 DEF Inserts, Edits, Drops, ReplacesItsVersion, IInv, TypeOK
  <2>2. CASE req[w].id = c /\ Inserts(w)
    BY <2>2 DEF Inserts, IInv, NewRowAbsent, NewContract, ReplacesItsVersion
  <2>3. CASE req[w].id = c /\ (Edits(w) \/ Drops(w))
    <3>1. pc[w] # "idle" /\ pc'[w] = "idle"
      BY <1>2, <2>3, AnswerLocal DEF Edits, Drops, IInv
    <3>2. /\ got[w].row = contracts[c] /\ contracts[c] \in ContractRow
          /\ ~contracts[c].deleted /\ req[w].version = contracts[c].version
      BY <2>3 DEF Edits, Drops, IInv, LockedRowsCurrent, LockedRowCurrent,
         HoldsContract, Visible, TypeOK
    <3>3. CASE Edits(w)
      <4>1. /\ contracts'[c].deleted = contracts[c].deleted
            /\ contracts'[c].version = contracts[c].version + 1
        BY <2>3, <3>2, <3>3 DEF Edits, UpdatedContract, ContractRow, IInv, TypeOK
      <4>2. QED BY <2>3, <3>1, <3>2, <4>1 DEF ReplacesItsVersion
    <3>4. CASE Drops(w)
      <4>1. contracts'[c].deleted /\ contracts'[c].version = contracts[c].version
        BY <2>3, <3>2, <3>4 DEF Drops, ContractRow, IInv, TypeOK
      <4>2. QED BY <2>3, <3>1, <3>2, <4>1 DEF ReplacesItsVersion
    <3>5. QED BY <2>3, <3>3, <3>4
  <2>4. QED BY <1>2, <2>1, <2>2, <2>3
<1>3. QED BY <1>1, <1>2, ContractChanges DEF IInv

\* No settlement, work record or contract is ever overwritten by a request that
\* had confirmed another version of it.
THEOREM NoUpdateLost == Spec => NoLostUpdate
<1>1. IInv /\ [Next]_vars =>
        [/\ \A s \in SettlementIds : ReplacesItsVersion(settlements, s)
         /\ \A r \in RecordIds : ReplacesItsVersion(records, r)
         /\ \A c \in ContractIds : ReplacesItsVersion(contracts, c)]_vars
  BY SettlementVersions, RecordVersions, ContractVersions
<1>2. QED BY <1>1, Invariance, PTL DEF Spec, NoLostUpdate
============================================================================
