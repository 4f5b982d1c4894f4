-------------------------- MODULE SettlementProofs --------------------------
(***************************************************************************)
(* What the settlement service guarantees, for any number of workers,      *)
(* months and settlements, from the inductive invariant of BillingProofs.  *)
(***************************************************************************)
EXTENDS BillingProofs

(***************************************************************************)
(* The four steps that change the settlements, and the row each writes.    *)
(***************************************************************************)
Ending(w) == OrganizationFree(w) /\ Answer(w)

Writes(w, row) ==
    Ending(w) /\ settlements' = [settlements EXCEPT ![req[w].id] = row]

Opens(w) ==
    /\ pc[w] = "calcCommit"
    /\ ~MonthTaken(req[w].args.project, req[w].args.month)
    /\ Writes(w, CalculatedRow(w)) /\ keys' = keys

Revises(w) == pc[w] = "recalcCommit" /\ Writes(w, RecalculatedRow(w)) /\ keys' = keys

Closes(w) ==
    /\ pc[w] = "finalizeCommit"
    /\ Writes(w, FinalizedRow(w))
    /\ keys' = keys \cup {[user |-> req[w].user, settlement |-> req[w].id,
                           key |-> req[w].args, version |-> req[w].version]}

Removes(w) ==
    /\ pc[w] = "deleteCommit" /\ Ending(w)
    /\ settlements' = [settlements EXCEPT ![req[w].id].deleted = TRUE]
    /\ keys' = keys

LEMMA SettlementChanges ==
    ASSUME TypeOK, [Next]_vars
    PROVE  \/ UNCHANGED <<settlements, keys>>
           \/ \E w \in Workers : Opens(w) \/ Revises(w) \/ Closes(w) \/ Removes(w)
<1>1. CASE UNCHANGED vars BY <1>1 DEF vars
<1>2. ASSUME NEW w \in Workers, Begin(w)
      PROVE  UNCHANGED <<settlements, keys>>
  BY <1>2, StartEnters DEF Enters, tables
<1>3. ASSUME NEW w \in Workers, RecordStep(w) \/ ContractStep(w)
      PROVE  UNCHANGED <<settlements, keys>>
  BY <1>3 DEF RecordStep, CreateRecord, UpdateRecordLock, UpdateRecordCheck,
     UpdateRecordMove, UpdateRecordCommit, DeleteRecordLock,
     DeleteRecordLockOrganization, DeleteRecordLockProject, DeleteRecordCheck,
     DeleteRecordCommit, LockRecord, ContractStep, CreateContractCheck,
     CreateContractScan, CreateContractCommit, UpdateContractLock,
     UpdateContractCheck, UpdateContractScan, UpdateContractCommit,
     DeleteContractLock, DeleteContractCheck, DeleteContractCommit, LockContract,
     Scan, Goto, Refuse, tables
<1>4. ASSUME NEW w \in Workers, SettlementStep(w)
      PROVE  \/ UNCHANGED <<settlements, keys>>
             \/ Opens(w) \/ Revises(w) \/ Closes(w) \/ Removes(w)
  <2>1. CASE CalculateCommit(w)
    BY <2>1 DEF CalculateCommit, Opens, Writes, Ending, Refuse, tables
  <2>2. CASE RecalculateCommit(w)
    BY <2>2 DEF RecalculateCommit, Revises, Writes, Ending
  <2>3. CASE FinalizeCommit(w)
    BY <2>3 DEF FinalizeCommit, Closes, Writes, Ending, Refuse, tables
  <2>4. CASE DeleteCommit(w)
    BY <2>4 DEF DeleteCommit, Removes, Ending
  <2>5. CASE \/ CalculateExists(w) \/ CalculateContract(w) \/ CalculateMinutes(w)
             \/ RecalculateLock(w) \/ RecalculateContract(w) \/ RecalculateMinutes(w)
             \/ FinalizeLookup(w) \/ FinalizeLock(w) \/ DeleteLock(w)
    BY <2>5 DEF CalculateExists, CalculateContract, CalculateMinutes,
       RecalculateLock, RecalculateContract, RecalculateMinutes, FinalizeLookup,
       FinalizeLock, DeleteLock, LockSettlement, ReadContract, ReadMinutes, Goto,
       Refuse, tables
  <2>6. QED BY <1>4, <2>1, <2>2, <2>3, <2>4, <2>5 DEF SettlementStep
<1>5. ASSUME NEW w \in Workers, Abort(w) PROVE UNCHANGED <<settlements, keys>>
  BY <1>5 DEF Abort, Refuse, tables
<1>6. QED BY <1>1, <1>2, <1>3, <1>4, <1>5 DEF Next, Step

\* The row a change to an existing settlement replaces.
LEMMA ReplacedRow ==
    ASSUME IInv, NEW w \in Workers, HoldsSettlement(w)
    PROVE  /\ req[w].id \in SettlementIds /\ settlements[req[w].id] \in SettlementRow
           /\ got[w].row = settlements[req[w].id]
           /\ settlements[req[w].id].status = "CALCULATED"
           /\ ~settlements[req[w].id].deleted
           /\ settlements[req[w].id].version = req[w].version
<1>1. LockedRowCurrent(w) BY DEF IInv, LockedRowsCurrent
<1>2. QED BY <1>1 DEF LockedRowCurrent, Changeable, Visible, IInv, TypeOK

(***************************************************************************)
(* A FINALIZED settlement never changes.                                   *)
(***************************************************************************)
LEMMA FinalizedKept ==
    ASSUME IInv, [Next]_vars, NEW s \in SettlementIds,
           settlements[s] # NoRow, settlements[s].status = "FINALIZED"
    PROVE  settlements'[s] = settlements[s]
<1>1. CASE UNCHANGED vars BY <1>1 DEF vars
<1>2. ASSUME NEW w \in Workers, Begin(w) \/ Step(w)
      PROVE  settlements'[s] = settlements[s]
  <2>1. Moves(w) BY <1>2, StepMoves DEF IInv
  <2>2. ~(ClaimsSettlement(w) /\ req[w].id = s)
    <3>1. HoldsSettlement(w) => req[w].id # s BY ReplacedRow
    <3>2. NewSettlement(w) => req[w].id # s BY DEF IInv, NewRowAbsent
    <3>3. QED BY <3>1, <3>2 DEF ClaimsSettlement
  <2>3. CASE UNCHANGED tables BY <2>3 DEF tables
  <2>4. CASE OwnRowsOnly(w) BY <2>2, <2>4 DEF OwnRowsOnly
  <2>5. QED BY <2>1, <2>3, <2>4 DEF Moves, Enters, Loads, Continues, Ends
<1>3. QED BY <1>1, <1>2 DEF Next

\* Whatever requests are under way when it is finalized, and whatever come later,
\* a FINALIZED settlement is not recalculated, finalized again or deleted.
THEOREM FinalizedNeverChanges == Spec => FinalizedFrozen
<1>1. IInv /\ [Next]_vars =>
        [\A s \in SettlementIds :
            settlements[s] # NoRow /\ settlements[s].status = "FINALIZED" =>
                settlements'[s] = settlements[s]]_vars
  BY FinalizedKept
<1>2. QED BY <1>1, Invariance, PTL DEF Spec, FinalizedFrozen

(***************************************************************************)
(* The row each change leaves, and the rows it leaves alone.               *)
(***************************************************************************)
LEMMA OtherRowsKept ==
    ASSUME IInv, NEW w \in Workers,
           Opens(w) \/ Revises(w) \/ Closes(w) \/ Removes(w)
    PROVE  /\ req[w].id \in SettlementIds
           /\ DOMAIN settlements = SettlementIds /\ DOMAIN settlements' = SettlementIds
           /\ \A s \in SettlementIds \ {req[w].id} : settlements'[s] = settlements[s]
  BY DEF IInv, TypeOK, WorkerTypeOK, Opens, Revises, Closes, Removes, Writes,
     CalculateSteps, SettlementSteps

LEMMA OpenedRow ==
    ASSUME IInv, NEW w \in Workers, Opens(w)
    PROVE  LET row == settlements'[req[w].id] IN
           /\ settlements[req[w].id] = NoRow
           /\ row \in SettlementRow /\ row.status = "CALCULATED" /\ ~row.deleted
           /\ row.version = 1
           /\ LiveSettlements(row.project, row.month) = {}
           /\ row.contract = row.terms.contract
           /\ row.lines = [terms |-> row.terms, included |-> row.included]
<1>1. settlements'[req[w].id] = CalculatedRow(w)
  BY OtherRowsKept DEF Opens, Writes
<1>2. CalculatedRow(w) \in SettlementRow
  BY SettlementRowsTyped DEF Opens, IInv
<1>3. settlements[req[w].id] = NoRow
  BY DEF IInv, NewRowAbsent, NewSettlement, Opens, CalculateSteps
<1>4. QED BY <1>1, <1>2, <1>3 DEF Opens, CalculatedRow, MonthTaken

LEMMA RevisedRow ==
    ASSUME IInv, NEW w \in Workers, Revises(w)
    PROVE  LET old == settlements[req[w].id]
               row == settlements'[req[w].id]
           IN  /\ old.status = "CALCULATED" /\ ~old.deleted /\ old.version = req[w].version
               /\ old \in SettlementRow /\ row \in SettlementRow
               /\ row.project = old.project /\ row.month = old.month
               /\ row.status = "CALCULATED" /\ ~row.deleted
               /\ row.version = old.version + 1
               /\ row.contract = row.terms.contract
               /\ row.lines = [terms |-> row.terms, included |-> row.included]
<1>1. settlements'[req[w].id] = RecalculatedRow(w)
  BY OtherRowsKept DEF Revises, Writes
<1>2. RecalculatedRow(w) \in SettlementRow
  BY SettlementRowsTyped DEF Revises, IInv
<1>3. /\ got[w].row = settlements[req[w].id] /\ got[w].row \in SettlementRow
      /\ got[w].row.status = "CALCULATED" /\ ~got[w].row.deleted
      /\ got[w].row.version = req[w].version
  BY ReplacedRow DEF Revises, HoldsSettlement
<1>4. /\ RecalculatedRow(w).project = got[w].row.project
      /\ RecalculatedRow(w).month = got[w].row.month
      /\ RecalculatedRow(w).status = got[w].row.status
      /\ RecalculatedRow(w).deleted = got[w].row.deleted
      /\ RecalculatedRow(w).version = got[w].row.version + 1
      /\ RecalculatedRow(w).contract = RecalculatedRow(w).terms.contract
      /\ RecalculatedRow(w).lines = [terms |-> RecalculatedRow(w).terms,
                                     included |-> RecalculatedRow(w).included]
  BY <1>3 DEF RecalculatedRow, SettlementRow
<1>5. QED BY <1>1, <1>2, <1>3, <1>4

SameCalculation(row, old) ==
    /\ row.project = old.project /\ row.month = old.month
    /\ row.contract = old.contract /\ row.terms = old.terms
    /\ row.included = old.included /\ row.lines = old.lines

LEMMA ClosedRow ==
    ASSUME IInv, NEW w \in Workers, Closes(w)
    PROVE  LET old == settlements[req[w].id]
               row == settlements'[req[w].id]
           IN  /\ old.status = "CALCULATED" /\ ~old.deleted /\ old.version = req[w].version
               /\ old \in SettlementRow /\ row \in SettlementRow
               /\ SameCalculation(row, old)
               /\ row.status = "FINALIZED" /\ ~row.deleted
               /\ row.version = old.version + 1
<1>1. settlements'[req[w].id] = FinalizedRow(w)
  BY OtherRowsKept DEF Closes, Writes
<1>2. FinalizedRow(w) \in SettlementRow
  BY SettlementRowsTyped DEF Closes, IInv
<1>3. /\ got[w].row = settlements[req[w].id] /\ got[w].row \in SettlementRow
      /\ got[w].row.status = "CALCULATED" /\ ~got[w].row.deleted
      /\ got[w].row.version = req[w].version
  BY ReplacedRow DEF Closes, HoldsSettlement
<1>4. /\ SameCalculation(FinalizedRow(w), got[w].row)
      /\ FinalizedRow(w).status = "FINALIZED"
      /\ FinalizedRow(w).deleted = got[w].row.deleted
      /\ FinalizedRow(w).version = got[w].row.version + 1
  BY <1>3 DEF FinalizedRow, SettlementRow, SameCalculation
<1>5. QED BY <1>1, <1>2, <1>3, <1>4

LEMMA RemovedRow ==
    ASSUME IInv, NEW w \in Workers, Removes(w)
    PROVE  LET old == settlements[req[w].id]
               row == settlements'[req[w].id]
           IN  /\ old.status = "CALCULATED" /\ ~old.deleted /\ old.version = req[w].version
               /\ old \in SettlementRow /\ row \in SettlementRow
               /\ SameCalculation(row, old)
               /\ row.status = "CALCULATED" /\ row.deleted
               /\ row.version = old.version
<1> DEFINE old == settlements[req[w].id]
<1>1. /\ old \in SettlementRow /\ old.status = "CALCULATED" /\ ~old.deleted
      /\ old.version = req[w].version
  BY ReplacedRow DEF Removes, HoldsSettlement
<1>2. settlements'[req[w].id] = [old EXCEPT !.deleted = TRUE]
  BY OtherRowsKept DEF Removes
<1>3. QED BY <1>1, <1>2 DEF SettlementRow, SameCalculation

(***************************************************************************)
(* One settlement per month.                                               *)
(***************************************************************************)
LEMMA OnePerMonthPreserved ==
    ASSUME IInv, OneLiveSettlementPerMonth, [Next]_vars
    PROVE  OneLiveSettlementPerMonth'
<1>1. CASE UNCHANGED settlements
  BY <1>1 DEF OneLiveSettlementPerMonth, LiveSettlements, Visible
<1>2. ASSUME NEW w \in Workers, Opens(w) \/ Revises(w) \/ Closes(w) \/ Removes(w)
      PROVE  OneLiveSettlementPerMonth'
  <2> DEFINE id == req[w].id
  <2>1. /\ id \in SettlementIds
        /\ DOMAIN settlements = SettlementIds /\ DOMAIN settlements' = SettlementIds
        /\ \A s \in SettlementIds \ {id} : settlements'[s] = settlements[s]
    BY <1>2, OtherRowsKept
  <2>2. ASSUME NEW p \in Projects, NEW m \in Months, id \in LiveSettlements(p, m)',
               NEW s \in LiveSettlements(p, m)', s # id
        PROVE  FALSE
    <3>1. s \in LiveSettlements(p, m)
      BY <2>1, <2>2 DEF LiveSettlements, Visible
    <3>2. settlements'[id].project = p /\ settlements'[id].month = m
          /\ ~settlements'[id].deleted
      BY <2>2 DEF LiveSettlements, Visible
    <3>3. CASE Opens(w) BY <3>1, <3>2, <3>3, OpenedRow
    <3>4. CASE Revises(w) \/ Closes(w)
      <4>1. /\ settlements[id] \in SettlementRow /\ ~settlements[id].deleted
            /\ settlements[id].project = p /\ settlements[id].month = m
        BY <3>2, <3>4, RevisedRow, ClosedRow DEF SameCalculation
      <4>2. settlements[id] # NoRow BY <4>1, NoRowAssumption
      <4>3. id \in LiveSettlements(p, m)
        BY <2>1, <4>1, <4>2 DEF LiveSettlements, Visible
      <4>4. QED BY <2>2, <3>1, <4>3 DEF OneLiveSettlementPerMonth
    <3>5. CASE Removes(w)
      BY <3>2, <3>5, RemovedRow
    <3>6. QED BY <1>2, <3>3, <3>4, <3>5
  <2>3. ASSUME NEW p \in Projects, NEW m \in Months,
               NEW s \in LiveSettlements(p, m)', NEW t \in LiveSettlements(p, m)',
               s # id, t # id
        PROVE  s = t
    <3>1. s \in LiveSettlements(p, m) /\ t \in LiveSettlements(p, m)
      BY <2>1, <2>3 DEF LiveSettlements, Visible
    <3>2. QED BY <3>1 DEF OneLiveSettlementPerMonth
  <2>4. QED BY <2>2, <2>3 DEF OneLiveSettlementPerMonth
<1>3. QED BY <1>1, <1>2, SettlementChanges DEF IInv

LEMMA OnePerMonthInitially == Init => OneLiveSettlementPerMonth
  BY DEF Init, OneLiveSettlementPerMonth, LiveSettlements, Visible

LEMMA OnePerMonthInvariance == Spec => [](IInv /\ OneLiveSettlementPerMonth)
<1>1. IInv /\ OneLiveSettlementPerMonth /\ [Next]_vars => OneLiveSettlementPerMonth'
  BY OnePerMonthPreserved
<1>2. QED BY <1>1, OnePerMonthInitially, Invariance, PTL DEF Spec

\* Any number of concurrent calculations leave one settlement per month.
THEOREM OneSettlementPerMonth == Spec => []OneLiveSettlementPerMonth
  BY OnePerMonthInvariance, PTL

(***************************************************************************)
(* Idempotency keys and finalizations.                                     *)
(***************************************************************************)
LEMMA NewKey ==
    ASSUME IInv, NEW w \in Workers, Closes(w)
    PROVE  \E k \in KeyRow :
              /\ k.settlement = req[w].id /\ k.version = req[w].version
              /\ keys' = keys \cup {k}
<1> DEFINE k == [user |-> req[w].user, settlement |-> req[w].id,
                 key |-> req[w].args, version |-> req[w].version]
<1>1. k \in KeyRow
  BY DEF IInv, TypeOK, WorkerTypeOK, Closes, SettlementSteps, KeyRow
<1>2. k.settlement = req[w].id /\ k.version = req[w].version /\ keys' = keys \cup {k}
  BY DEF Closes
<1> HIDE DEF k
<1>3. QED BY <1>1, <1>2

LEMMA KeysPreserved ==
    ASSUME IInv, KeyMeansFinalized, [Next]_vars
    PROVE  KeyMeansFinalized'
<1> DEFINE Frozen(s) == settlements[s] # NoRow /\ settlements[s].status = "FINALIZED"
<1>1. CASE UNCHANGED <<settlements, keys>>
  BY <1>1 DEF KeyMeansFinalized, Visible
<1>2. ASSUME NEW w \in Workers, Opens(w) \/ Revises(w) \/ Closes(w) \/ Removes(w)
      PROVE  KeyMeansFinalized'
  <2> DEFINE id == req[w].id
  <2>1. /\ id \in SettlementIds
        /\ DOMAIN settlements = SettlementIds /\ DOMAIN settlements' = SettlementIds
        /\ \A s \in SettlementIds \ {id} : settlements'[s] = settlements[s]
    BY <1>2, OtherRowsKept
  <2>2. settlements[id] = NoRow \/ settlements[id].status = "CALCULATED"
    BY <1>2, OpenedRow, RevisedRow, ClosedRow, RemovedRow
  <2>3. \A k \in keys : k.settlement # id /\ k.settlement \in SettlementIds
    BY <2>2 DEF KeyMeansFinalized, Visible, IInv, TypeOK, KeyRow
  <2>4. ASSUME NEW k \in keys
        PROVE  /\ k.settlement \in Visible(settlements')
               /\ settlements'[k.settlement].status = "FINALIZED"
               /\ settlements'[k.settlement].version = k.version + 1
    BY <2>1, <2>3 DEF KeyMeansFinalized, Visible
  <2>5. CASE ~Closes(w)
    <3>1. keys' = keys BY <1>2, <2>5 DEF Opens, Revises, Removes
    <3>2. settlements'[id].status = "CALCULATED"
      BY <1>2, <2>5, OpenedRow, RevisedRow, RemovedRow
    <3>3. \A s \in SettlementIds :
             settlements'[s] # NoRow /\ settlements'[s].status = "FINALIZED" =>
                \E k \in keys : k.settlement = s
      BY <2>1, <3>2 DEF KeyMeansFinalized
    <3>4. QED BY <2>4, <3>1, <3>3 DEF KeyMeansFinalized, Visible
  <2>6. CASE Closes(w)
    <3>1. PICK k \in KeyRow : /\ k.settlement = id /\ k.version = req[w].version
                              /\ keys' = keys \cup {k}
      BY <2>6, NewKey
    <3>2. /\ settlements'[id] \in SettlementRow /\ ~settlements'[id].deleted
          /\ settlements'[id].status = "FINALIZED"
          /\ settlements'[id].version = k.version + 1
      BY <2>6, <3>1, ClosedRow
    <3>3. settlements'[id] # NoRow BY <3>2, NoRowAssumption
    <3>4. k.settlement \in Visible(settlements')
      BY <2>1, <3>1, <3>2, <3>3 DEF Visible
    <3>5. \A j \in keys' :
            /\ j.settlement \in Visible(settlements')
            /\ settlements'[j.settlement].status = "FINALIZED"
            /\ settlements'[j.settlement].version = j.version + 1
      BY <2>4, <3>1, <3>2, <3>4
    <3>6. \A j, l \in keys' : j.settlement = l.settlement => j = l
      BY <2>3, <3>1 DEF KeyMeansFinalized
    <3>7. \A s \in SettlementIds :
             settlements'[s] # NoRow /\ settlements'[s].status = "FINALIZED" =>
                \E j \in keys' : j.settlement = s
      BY <2>1, <3>1 DEF KeyMeansFinalized
    <3>8. QED BY <3>5, <3>6, <3>7 DEF KeyMeansFinalized, Visible
  <2>7. QED BY <2>5, <2>6
<1>3. QED BY <1>1, <1>2, SettlementChanges DEF IInv

LEMMA KeysInitially == Init => KeyMeansFinalized
  BY DEF Init, KeyMeansFinalized

\* A finalization and its idempotency key are saved together and once.
THEOREM KeysAreFinalizations == Spec => []KeyMeansFinalized
<1>1. IInv /\ KeyMeansFinalized /\ [Next]_vars => KeyMeansFinalized'
  BY KeysPreserved
<1>2. QED BY <1>1, KeysInitially, Invariance, PTL DEF Spec

(***************************************************************************)
(* The row, its snapshot and its lines.                                    *)
(***************************************************************************)
LEMMA ExplainedPreserved ==
    ASSUME IInv, SettlementExplained, [Next]_vars
    PROVE  SettlementExplained'
<1>1. CASE UNCHANGED <<settlements, keys>>
  BY <1>1 DEF SettlementExplained
<1>2. ASSUME NEW w \in Workers, Opens(w) \/ Revises(w) \/ Closes(w) \/ Removes(w)
      PROVE  SettlementExplained'
  <2> DEFINE row == settlements'[req[w].id]
             old == settlements[req[w].id]
  <2>1. \A s \in SettlementIds \ {req[w].id} : settlements'[s] = settlements[s]
    BY <1>2, OtherRowsKept
  <2>2. /\ row.contract = row.terms.contract
        /\ row.lines = [terms |-> row.terms, included |-> row.included]
    <3>1. CASE Opens(w) \/ Revises(w) BY <3>1, OpenedRow, RevisedRow
    <3>2. CASE Closes(w) \/ Removes(w)
      <4>1. /\ old \in SettlementRow
            /\ row.contract = old.contract /\ row.terms = old.terms
            /\ row.lines = old.lines /\ row.included = old.included
        BY <3>2, ClosedRow, RemovedRow DEF SameCalculation
      <4>2. old # NoRow BY <4>1, NoRowAssumption
      <4>3. req[w].id \in SettlementIds BY <1>2, OtherRowsKept
      <4>4. QED BY <4>1, <4>2, <4>3 DEF SettlementExplained
    <3>3. QED BY <1>2, <3>1, <3>2
  <2>3. QED BY <2>1, <2>2 DEF SettlementExplained
<1>3. QED BY <1>1, <1>2, SettlementChanges DEF IInv

\* A settlement's amounts, snapshot and lines are always of one calculation.
THEOREM SettlementsExplained == Spec => []SettlementExplained
<1>1. Init => SettlementExplained BY DEF Init, SettlementExplained
<1>2. IInv /\ SettlementExplained /\ [Next]_vars => SettlementExplained'
  BY ExplainedPreserved
<1>3. QED BY <1>1, <1>2, Invariance, PTL DEF Spec

(***************************************************************************)
(* The settlements implement the ledger of module SettlementLedger.        *)
(***************************************************************************)
LedgerBooks == Projects \X Months

LEMMA PageOf ==
    ASSUME OneLiveSettlementPerMonth, NEW p \in Projects, NEW m \in Months
    PROVE  /\ LiveSettlements(p, m) = {} => LedgerView[<<p, m>>] = NoRow
           /\ \A s \in LiveSettlements(p, m) :
                 LedgerView[<<p, m>>] = Page(settlements[s])
<1>1. <<p, m>>[1] = p /\ <<p, m>>[2] = m /\ <<p, m>> \in Projects \X Months
  OBVIOUS
<1>2. LedgerView[<<p, m>>] =
        IF LiveSettlements(p, m) = {} THEN NoRow
        ELSE Page(settlements[CHOOSE s \in LiveSettlements(p, m) : TRUE])
  BY <1>1 DEF LedgerView, Page
<1>3. ASSUME NEW s \in LiveSettlements(p, m)
      PROVE  s = CHOOSE x \in LiveSettlements(p, m) : TRUE
  BY DEF OneLiveSettlementPerMonth
<1>4. QED BY <1>2, <1>3

LEMMA PageOfNext ==
    ASSUME OneLiveSettlementPerMonth', NEW p \in Projects, NEW m \in Months
    PROVE  /\ LiveSettlements(p, m)' = {} => LedgerView'[<<p, m>>] = NoRow
           /\ \A s \in LiveSettlements(p, m)' :
                 LedgerView'[<<p, m>>] = Page(settlements'[s])
<1>1. <<p, m>>[1] = p /\ <<p, m>>[2] = m /\ <<p, m>> \in Projects \X Months
  OBVIOUS
<1>2. LedgerView'[<<p, m>>] =
        IF LiveSettlements(p, m)' = {} THEN NoRow
        ELSE Page(settlements'[CHOOSE s \in LiveSettlements(p, m)' : TRUE])
  BY <1>1 DEF LedgerView, Page
<1>3. ASSUME NEW s \in LiveSettlements(p, m)'
      PROVE  s = CHOOSE x \in LiveSettlements(p, m)' : TRUE
  BY DEF OneLiveSettlementPerMonth
<1>4. QED BY <1>2, <1>3

LEMMA PagesTyped ==
    ASSUME NEW row \in SettlementRow
    PROVE  Page(row) \in Pages /\ Page(row) # NoRow
<1>1. Page(row) \in Pages BY DEF Page, Pages, SettlementRow, CalculatedFigures
<1>2. QED BY <1>1, NoRowAssumption

(***************************************************************************)
(* A change to a settlement changes the page of its book and no other.     *)
(***************************************************************************)
LEMMA OtherPagesKept ==
    ASSUME IInv, OneLiveSettlementPerMonth, OneLiveSettlementPerMonth',
           NEW w \in Workers, Opens(w) \/ Revises(w) \/ Closes(w) \/ Removes(w),
           NEW p \in Projects, NEW m \in Months,
           settlements'[req[w].id].project # p \/ settlements'[req[w].id].month # m
    PROVE  LedgerView'[<<p, m>>] = LedgerView[<<p, m>>]
<1> DEFINE id == req[w].id
<1>1. /\ id \in SettlementIds
      /\ DOMAIN settlements = SettlementIds /\ DOMAIN settlements' = SettlementIds
      /\ \A s \in SettlementIds \ {id} : settlements'[s] = settlements[s]
  BY OtherRowsKept
<1>2. id \notin LiveSettlements(p, m) /\ id \notin LiveSettlements(p, m)'
  BY OpenedRow, RevisedRow, ClosedRow, RemovedRow DEF LiveSettlements, Visible,
     SameCalculation
<1>3. ASSUME NEW s
      PROVE  s \in LiveSettlements(p, m) <=> s \in LiveSettlements(p, m)'
  BY <1>1, <1>2 DEF LiveSettlements, Visible
<1>4. CASE LiveSettlements(p, m) = {}
  BY <1>3, <1>4, PageOf, PageOfNext
<1>5. ASSUME NEW s \in LiveSettlements(p, m)
      PROVE  LedgerView'[<<p, m>>] = LedgerView[<<p, m>>]
  <2>1. s \in SettlementIds /\ s # id BY <1>1, <1>2 DEF LiveSettlements, Visible
  <2>2. settlements'[s] = settlements[s] BY <1>1, <2>1
  <2>3. QED BY <1>3, <2>2, PageOf, PageOfNext
<1>6. QED BY <1>4, <1>5

LEMMA LedgerSteps ==
    ASSUME IInv, OneLiveSettlementPerMonth, [Next]_vars
    PROVE  [Ledger!LedgerNext]_LedgerView
<1>1. CASE UNCHANGED <<settlements, keys>>
  BY <1>1 DEF LedgerView, LiveSettlements, Visible, Page
<1>2. ASSUME NEW w \in Workers, Opens(w) \/ Revises(w) \/ Closes(w) \/ Removes(w)
      PROVE  Ledger!LedgerNext
  <2> DEFINE id == req[w].id
             old == settlements[id]
             row == settlements'[id]
  <2>1. OneLiveSettlementPerMonth' BY OnePerMonthPreserved
  <2>2. row \in SettlementRow /\ row.project \in Projects /\ row.month \in Months
    BY <1>2, OpenedRow, RevisedRow, ClosedRow, RemovedRow DEF SettlementRow
  <2>3. PICK p \in Projects, m \in Months : row.project = p /\ row.month = m
    BY <2>2
  <2> DEFINE b == <<p, m>>
  <2>0. b \in LedgerBooks BY DEF LedgerBooks
  <2>4. ASSUME NEW c \in LedgerBooks, c # b
        PROVE  LedgerView'[c] = LedgerView[c]
    <3>1. PICK q \in Projects, n \in Months : c = <<q, n>> BY DEF LedgerBooks
    <3>2. row.project # q \/ row.month # n BY <2>3, <2>4, <3>1
    <3>3. QED BY <1>2, <2>1, <3>1, <3>2, OtherPagesKept
  <2>5. /\ DOMAIN LedgerView = LedgerBooks /\ DOMAIN LedgerView' = LedgerBooks
        /\ LedgerView = [c \in LedgerBooks |-> LedgerView[c]]
        /\ LedgerView' = [c \in LedgerBooks |-> LedgerView'[c]]
    BY DEF LedgerView, LedgerBooks
  <2>6. ASSUME ~row.deleted PROVE LedgerView'[b] = Page(row)
    <3>1. row # NoRow BY <2>2, NoRowAssumption
    <3>2. id \in LiveSettlements(p, m)'
      BY <1>2, <2>3, <2>6, <3>1, OtherRowsKept DEF LiveSettlements, Visible
    <3>3. QED BY <2>1, <3>2, PageOfNext
  <2>7. ASSUME ~Opens(w)
        PROVE  /\ old \in SettlementRow /\ LedgerView[b] = Page(old)
               /\ old.status = "CALCULATED" /\ Page(old) # NoRow
    <3>1. /\ old \in SettlementRow /\ ~old.deleted /\ old.status = "CALCULATED"
          /\ old.project = row.project /\ old.month = row.month
      BY <1>2, <2>7, RevisedRow, ClosedRow, RemovedRow DEF SameCalculation
    <3>2. old # NoRow /\ Page(old) # NoRow BY <3>1, NoRowAssumption, PagesTyped
    <3>3. id \in LiveSettlements(p, m)
      BY <1>2, <2>3, <3>1, <3>2, OtherRowsKept DEF LiveSettlements, Visible
    <3>4. QED BY <3>1, <3>2, <3>3, PageOf
  <2>8. Page(row) # NoRow /\ Page(row).figures \in CalculatedFigures
    BY <2>2, PagesTyped DEF Page, Pages
  <2>9. ASSUME NEW status, NEW version, ~row.deleted,
               row.status = status, row.version = version
        PROVE  Ledger!Enter(b, status, version)
    <3>1. LedgerView'[b] = [status |-> status, version |-> version,
                            figures |-> LedgerView'[b].figures]
      BY <2>6, <2>9 DEF Page
    <3>2. LedgerView' = [LedgerView EXCEPT ![b] =
             [status |-> status, version |-> version,
              figures |-> LedgerView'[b].figures]]
      BY <2>0, <2>4, <2>5, <3>1
    <3>3. QED BY <2>6, <2>8, <2>9, <3>2 DEF Ledger!Enter
  <2>10. ASSUME Opens(w) PROVE Ledger!Open(b)
    <3>1. /\ LiveSettlements(p, m) = {}
          /\ row.status = "CALCULATED" /\ row.version = 1 /\ ~row.deleted
      BY <2>3, <2>10, OpenedRow
    <3>2. LedgerView[b] = NoRow BY <3>1, PageOf
    <3>3. QED BY <2>9, <3>1, <3>2 DEF Ledger!Open
  <2>11. ASSUME Revises(w) PROVE Ledger!Revise(b)
    <3>1. /\ row.status = "CALCULATED" /\ row.version = old.version + 1
          /\ ~row.deleted
      BY <2>11, RevisedRow
    <3>2. /\ LedgerView[b] # NoRow /\ LedgerView[b].status = "CALCULATED"
          /\ LedgerView[b].version = old.version
      BY <2>7, <2>11 DEF Page, Opens, Revises
    <3>3. Ledger!Enter(b, "CALCULATED", LedgerView[b].version + 1)
      BY <2>9, <3>1, <3>2
    <3>4. QED BY <3>2, <3>3 DEF Ledger!Revise, Ledger!Calculated
  <2>12. ASSUME Closes(w) PROVE Ledger!Close(b)
    <3>1. /\ row.status = "FINALIZED" /\ row.version = old.version + 1
          /\ ~row.deleted /\ row.lines = old.lines
      BY <2>12, ClosedRow DEF SameCalculation
    <3>2. LedgerView[b] = Page(old) /\ LedgerView[b] # NoRow
          /\ old.status = "CALCULATED"
      BY <2>7, <2>12 DEF Opens, Closes
    <3>3. LedgerView'[b] = [status |-> "FINALIZED", version |-> LedgerView[b].version + 1,
                            figures |-> LedgerView[b].figures]
      BY <2>6, <3>1, <3>2 DEF Page
    <3>4. LedgerView' = [LedgerView EXCEPT ![b] =
             [status |-> "FINALIZED", version |-> LedgerView[b].version + 1,
              figures |-> LedgerView[b].figures]]
      BY <2>0, <2>4, <2>5, <3>3
    <3>5. LedgerView[b].status = "CALCULATED" BY <3>2 DEF Page
    <3>6. QED BY <3>2, <3>4, <3>5 DEF Ledger!Close, Ledger!Calculated
  <2>13. ASSUME Removes(w) PROVE Ledger!Remove(b)
    <3>1. row.deleted BY <2>13, RemovedRow
    <3>2. /\ LedgerView[b] = Page(old) /\ LedgerView[b] # NoRow
          /\ old.status = "CALCULATED" /\ old \in SettlementRow
      BY <2>7, <2>13 DEF Opens, Removes
    <3>3. LedgerView'[b] = NoRow
      <4>1. ASSUME NEW s \in LiveSettlements(p, m)' PROVE FALSE
        <5>1. s # id /\ s \in LiveSettlements(p, m)
          BY <1>2, <3>1, OtherRowsKept DEF LiveSettlements, Visible
        <5>2. id \in LiveSettlements(p, m)
          <6>1. ~old.deleted /\ old.project = p /\ old.month = m /\ old # NoRow
            BY <2>3, <2>13, <3>2, RemovedRow, NoRowAssumption DEF SameCalculation
          <6>2. QED BY <1>2, <6>1, OtherRowsKept DEF LiveSettlements, Visible
        <5>3. QED BY <5>1, <5>2 DEF OneLiveSettlementPerMonth
      <4>2. LiveSettlements(p, m)' = {} BY <4>1
      <4>3. QED BY <2>1, <4>2, PageOfNext
    <3>4. LedgerView' = [LedgerView EXCEPT ![b] = NoRow]
      BY <2>0, <2>4, <2>5, <3>3
    <3>5. QED BY <3>2, <3>4 DEF Ledger!Remove, Ledger!Calculated, Page
  <2>14. QED
    BY <1>2, <2>0, <2>10, <2>11, <2>12, <2>13 DEF Ledger!LedgerNext, LedgerBooks
<1>3. QED BY <1>1, <1>2, SettlementChanges DEF IInv

LEMMA LedgerInitially ==
    ASSUME Init
    PROVE  Ledger!LedgerInit
<1>1. \A p \in Projects, m \in Months : LiveSettlements(p, m) = {}
  BY DEF Init, LiveSettlements, Visible
<1>2. OneLiveSettlementPerMonth BY OnePerMonthInitially
<1>3. \A b \in LedgerBooks : LedgerView[b] = NoRow
  BY <1>1, <1>2, PageOf DEF LedgerBooks
<1>4. LedgerView = [b \in LedgerBooks |-> LedgerView[b]] BY DEF LedgerView, LedgerBooks
<1>5. QED BY <1>3, <1>4 DEF Ledger!LedgerInit, LedgerBooks

\* Read month by month, the rows that the workers' transactions leave in the table
\* are a behaviour of the ledger.
THEOREM SettlementsImplementLedger == Spec => LedgerSpec
<1>1. IInv /\ OneLiveSettlementPerMonth /\ [Next]_vars =>
        [Ledger!LedgerNext]_LedgerView
  BY LedgerSteps
<1>2. QED
  BY <1>1, LedgerInitially, OnePerMonthInvariance, PTL
  DEF Spec, LedgerSpec, Ledger!LedgerSpec
============================================================================
