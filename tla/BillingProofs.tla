--------------------------- MODULE BillingProofs ---------------------------
(***************************************************************************)
(* Proofs about Billing for any number of workers, users, projects, months,*)
(* rows and versions.                                                      *)
(***************************************************************************)
EXTENDS Billing, TLAPS

\* A step of worker w leaves the other workers as they are.
OthersKept(w) ==
    /\ DOMAIN pc' = Workers /\ DOMAIN req' = Workers /\ DOMAIN got' = Workers
    /\ \A v \in Workers \ {w} : pc'[v] = pc[v] /\ req'[v] = req[v] /\ got'[v] = got[v]

TablesTypeOK ==
    /\ settlements \in [SettlementIds -> SettlementRow \cup {NoRow}]
    /\ records \in [RecordIds -> RecordRow \cup {NoRow}]
    /\ contracts \in [ContractIds -> ContractRow \cup {NoRow}]
    /\ keys \subseteq KeyRow

LEMMA AnswerLocal ==
    ASSUME TypeOK, NEW w \in Workers, Answer(w)
    PROVE  OthersKept(w) /\ WorkerTypeOK(w)' /\ pc'[w] = "idle"
  BY DEF TypeOK, Answer, OthersKept, WorkerTypeOK, NothingRead, Sources,
         CalculateSteps, SettlementSteps, RecordSteps, ContractSteps,
         HoldsSettlement, HoldsRecord, HoldsContract

LEMMA RefuseTyped ==
    ASSUME TypeOK, NEW w \in Workers, Refuse(w)
    PROVE  OthersKept(w) /\ WorkerTypeOK(w)' /\ TablesTypeOK'
  BY AnswerLocal DEF Refuse, TypeOK, TablesTypeOK, tables

LEMMA StartLocal ==
    ASSUME TypeOK, NEW w \in Workers, NEW step, NEW request,
           Start(w, step, request)
    PROVE  /\ OthersKept(w) /\ TablesTypeOK'
           /\ pc[w] = "idle" /\ pc'[w] = step /\ req'[w] = request
           /\ got'[w] = got[w]
  BY DEF TypeOK, Start, OthersKept, TablesTypeOK, tables

LEMMA GotoLocal ==
    ASSUME TypeOK, NEW w \in Workers, NEW step, Goto(w, step)
    PROVE  /\ TablesTypeOK' /\ UNCHANGED tables
           /\ pc'[w] = step /\ req'[w] = req[w]
           /\ \A v \in Workers \ {w} : pc'[v] = pc[v] /\ req'[v] = req[v]
           /\ DOMAIN pc' = Workers /\ DOMAIN req' = Workers
  BY DEF TypeOK, Goto, TablesTypeOK, tables

LEMMA TypeFrame ==
    ASSUME TypeOK, NEW w \in Workers, OthersKept(w), TablesTypeOK',
           WorkerTypeOK(w)'
    PROVE  TypeOK'
<1>1. ASSUME NEW v \in Workers \ {w} PROVE WorkerTypeOK(v)'
  <2>1. WorkerTypeOK(v) BY DEF TypeOK
  <2>2. pc'[v] = pc[v] /\ req'[v] = req[v] /\ got'[v] = got[v] BY DEF OthersKept
  <2>3. QED
    BY <2>1, <2>2 DEF WorkerTypeOK, HoldsSettlement, HoldsRecord, HoldsContract
<1>2. QED BY <1>1 DEF TypeOK, OthersKept, TablesTypeOK

(***************************************************************************)
(* Type correctness, one lemma per service.                                *)
(***************************************************************************)
\* What each worker's steps promise about the types.
Typed(w) == OthersKept(w) /\ TablesTypeOK' /\ WorkerTypeOK(w)'

LEMMA ChangeRequestTyped ==
    ASSUME TypeOK, NEW w \in Workers, NEW op,
           NEW step \in {"recalcLock", "finalizeKey", "deleteLock"},
           NEW args \in SUBSET (IdempotencyKeys \cup {NoRow}),
           ChangeRequest(w, op, step, args),
           step = "finalizeKey" => args \subseteq IdempotencyKeys
    PROVE  Typed(w)
<1>1. PICK u \in Users, s \in SettlementIds, v \in Versions, a \in args :
         Start(w, step, Request(u, s, v, a))
  BY DEF ChangeRequest
<1>2. /\ OthersKept(w) /\ TablesTypeOK' /\ pc'[w] = step
      /\ req'[w] = Request(u, s, v, a) /\ got'[w] = got[w]
  BY <1>1, StartLocal
<1>3. v \in Nat BY InputsAssumption
<1>4. req'[w] \in [user : Users, id : SettlementIds, version : Nat,
                   args : IdempotencyKeys \cup {NoRow}]
  BY <1>2, <1>3 DEF Request
<1>5. pc'[w] = "finalizeKey" => req'[w].args \in IdempotencyKeys
  BY <1>2 DEF Request
<1>6. WorkerTypeOK(w) BY DEF TypeOK
<1>7. WorkerTypeOK(w)'
  BY <1>2, <1>4, <1>5, <1>6 DEF WorkerTypeOK, HoldsSettlement, HoldsRecord,
     HoldsContract, CalculateSteps, SettlementSteps, RecordSteps, ContractSteps
<1>8. QED BY <1>2, <1>7 DEF Typed

LEMMA RequestsTyped ==
    ASSUME TypeOK, NEW w \in Workers, Begin(w)
    PROVE  Typed(w)
<1> USE InputsAssumption
<1>1. CASE CalculateRequest(w)
  <2>1. PICK u \in Users, s \in Fresh(settlements), a \in CalculateArgs :
           Start(w, "calcExists", Request(u, s, 0, a))
    BY <1>1 DEF CalculateRequest
  <2>2. /\ OthersKept(w) /\ TablesTypeOK' /\ pc'[w] = "calcExists"
        /\ req'[w] = Request(u, s, 0, a) /\ got'[w] = got[w]
    BY <2>1, StartLocal
  <2>3. s \in SettlementIds BY <2>1 DEF Fresh, TypeOK
  <2>4. req'[w] \in [user : Users, id : SettlementIds, version : Nat,
                     args : CalculateArgs]
    BY <2>2, <2>3 DEF Request
  <2>5. WorkerTypeOK(w) BY DEF TypeOK
  <2>6. QED
    BY <2>2, <2>4, <2>5 DEF Typed, WorkerTypeOK, HoldsSettlement,
       HoldsRecord, HoldsContract, CalculateSteps, SettlementSteps,
       RecordSteps, ContractSteps
<1>2. CASE RecalculateRequest(w)
  BY <1>2, ChangeRequestTyped DEF RecalculateRequest
<1>3. CASE FinalizeRequest(w)
  BY <1>3, ChangeRequestTyped DEF FinalizeRequest
<1>4. CASE DeleteRequest(w)
  BY <1>4, ChangeRequestTyped DEF DeleteRequest
<1>5. CASE RecordRequest(w)
  <2>1. PICK id \in RecordIds, v \in Nat, u \in Users,
             args \in RecordArgs \cup {NoRow},
             step \in {"recCreate", "recUpdateLock", "recDeleteLock"} :
          /\ Start(w, step, Request(u, id, v, args))
          /\ step # "recDeleteLock" => args \in RecordArgs
    <3>1. CASE CreateRecordRequest(w)
      BY <3>1 DEF CreateRecordRequest, Fresh, TypeOK
    <3>2. CASE UpdateRecordRequest(w)
      BY <3>2 DEF UpdateRecordRequest
    <3>3. CASE DeleteRecordRequest(w)
      BY <3>3 DEF DeleteRecordRequest
    <3>4. QED BY <1>5, <3>1, <3>2, <3>3 DEF RecordRequest
  <2>2. /\ OthersKept(w) /\ TablesTypeOK' /\ pc'[w] = step
        /\ req'[w] = Request(u, id, v, args) /\ got'[w] = got[w]
    BY <2>1, StartLocal
  <2>3. req'[w] \in [user : Users, id : RecordIds, version : Nat,
                     args : RecordArgs \cup {NoRow}]
    BY <2>2 DEF Request
  <2>4. pc'[w] # "recDeleteLock" => req'[w].args \in RecordArgs
    BY <2>1, <2>2 DEF Request
  <2>5. WorkerTypeOK(w) BY DEF TypeOK
  <2>6. QED
    BY <2>2, <2>3, <2>4, <2>5 DEF Typed, WorkerTypeOK, HoldsSettlement,
       HoldsRecord, HoldsContract, CalculateSteps, SettlementSteps,
       RecordSteps, ContractSteps
<1>6. CASE ContractRequest(w)
  <2>1. PICK id \in ContractIds, v \in Nat, u \in Users,
             args \in ContractArgs \cup Projects,
             step \in {"conCreateCheck", "conUpdateLock", "conDeleteLock"} :
          /\ Start(w, step, Request(u, id, v, args))
          /\ step # "conDeleteLock" => args \in ContractArgs
    <3>1. CASE CreateContractRequest(w)
      BY <3>1 DEF CreateContractRequest, Fresh, TypeOK
    <3>2. CASE UpdateContractRequest(w)
      BY <3>2 DEF UpdateContractRequest
    <3>3. CASE DeleteContractRequest(w)
      BY <3>3 DEF DeleteContractRequest
    <3>4. QED BY <1>6, <3>1, <3>2, <3>3 DEF ContractRequest
  <2>2. /\ OthersKept(w) /\ TablesTypeOK' /\ pc'[w] = step
        /\ req'[w] = Request(u, id, v, args) /\ got'[w] = got[w]
    BY <2>1, StartLocal
  <2>3. req'[w] \in [user : Users, id : ContractIds, version : Nat,
                     args : ContractArgs \cup Projects]
    BY <2>2 DEF Request
  <2>4. pc'[w] # "conDeleteLock" => req'[w].args \in ContractArgs
    BY <2>1, <2>2 DEF Request
  <2>5. WorkerTypeOK(w) BY DEF TypeOK
  <2>6. QED
    BY <2>2, <2>3, <2>4, <2>5 DEF Typed, WorkerTypeOK, HoldsSettlement,
       HoldsRecord, HoldsContract, CalculateSteps, SettlementSteps,
       RecordSteps, ContractSteps
<1>7. QED
  BY <1>1, <1>2, <1>3, <1>4, <1>5, <1>6 DEF Begin, SettlementRequest

\* A transaction that goes on has read what its next step needs.
LEMMA GoOnTyped ==
    ASSUME TypeOK, NEW w \in Workers, NEW step, Goto(w, step),
           DOMAIN got' = Workers, \A v \in Workers \ {w} : got'[v] = got[v],
           WorkerTypeOK(w)'
    PROVE  Typed(w)
  BY GotoLocal DEF Typed, OthersKept

LEMMA ReadContractTyped ==
    ASSUME TypeOK, NEW w \in Workers, NEW p, NEW m,
           NEW from, NEW step, pc[w] = from, ReadContract(w, p, m, step),
           \/ from = "calcContract" /\ step = "calcMinutes"
           \/ from = "recalcContract" /\ step = "recalcMinutes"
    PROVE  Typed(w)
<1>1. CASE Refuse(w) BY <1>1, RefuseTyped DEF Typed
<1>2. ASSUME NEW c \in ApplicableContracts(p, m),
             got' = [got EXCEPT ![w].terms =
                        [contract |-> c, version |-> contracts[c].version]],
             Goto(w, step)
      PROVE  Typed(w)
  <2>1. c \in ContractIds /\ contracts[c].version \in Nat
    <3>1. c \in ContractIds /\ contracts[c] \in ContractRow
      BY DEF ApplicableContracts, Visible, TypeOK
    <3>2. QED BY <3>1 DEF ContractRow
  <2>2. WorkerTypeOK(w) BY DEF TypeOK
  <2>3. got[w] \in [row : SettlementRow \cup RecordRow \cup ContractRow \cup {NoRow},
                    terms : Terms \cup {NoRow}, included : Sources]
    BY <2>2 DEF WorkerTypeOK
  <2>4. DOMAIN got = Workers BY DEF TypeOK
  <2>5. /\ DOMAIN got' = Workers /\ \A v \in Workers \ {w} : got'[v] = got[v]
        /\ got'[w] = [got[w] EXCEPT !.terms =
                          [contract |-> c, version |-> contracts[c].version]]
    BY <1>2, <2>4
  <2>6. /\ got'[w].terms \in Terms /\ got'[w].row = got[w].row
        /\ got'[w] \in [row : SettlementRow \cup RecordRow \cup ContractRow \cup {NoRow},
                         terms : Terms \cup {NoRow}, included : Sources]
    BY <2>1, <2>3, <2>5 DEF Terms
  <2>7. WorkerTypeOK(w)'
    BY <1>2, <2>2, <2>6, GotoLocal DEF WorkerTypeOK, HoldsSettlement, HoldsRecord,
       HoldsContract, CalculateSteps, SettlementSteps, RecordSteps, ContractSteps
  <2>8. QED BY <1>2, <2>5, <2>7, GoOnTyped
<1>3. QED BY <1>1, <1>2 DEF ReadContract

LEMMA ReadMinutesTyped ==
    ASSUME TypeOK, NEW w \in Workers, NEW p, NEW m,
           NEW from, NEW step, pc[w] = from, ReadMinutes(w, p, m, step),
           \/ from = "calcMinutes" /\ step = "calcCommit"
           \/ from = "recalcMinutes" /\ step = "recalcCommit"
    PROVE  Typed(w)
<1>1. CASE Refuse(w) BY <1>1, RefuseTyped DEF Typed
<1>2. ASSUME got' = [got EXCEPT ![w].included = IncludedRecords(p, m)],
             Goto(w, step)
      PROVE  Typed(w)
  <2>1. IncludedRecords(p, m) \in Sources
    <3>1. ASSUME NEW r \in Visible(records) PROVE <<r, records[r].version>> \in RecordIds \X Nat
      <4>1. r \in RecordIds /\ records[r] \in RecordRow
        BY DEF Visible, TypeOK
      <4>2. QED BY <4>1 DEF RecordRow
    <3>2. QED BY <3>1 DEF IncludedRecords, Sources
  <2>2. WorkerTypeOK(w) BY DEF TypeOK
  <2>3. got[w] \in [row : SettlementRow \cup RecordRow \cup ContractRow \cup {NoRow},
                    terms : Terms \cup {NoRow}, included : Sources]
    BY <2>2 DEF WorkerTypeOK
  <2>4. DOMAIN got = Workers BY DEF TypeOK
  <2>5. /\ DOMAIN got' = Workers /\ \A v \in Workers \ {w} : got'[v] = got[v]
        /\ got'[w] = [got[w] EXCEPT !.included = IncludedRecords(p, m)]
    BY <1>2, <2>4
  <2>6. /\ got'[w].terms = got[w].terms /\ got'[w].row = got[w].row
        /\ got'[w] \in [row : SettlementRow \cup RecordRow \cup ContractRow \cup {NoRow},
                         terms : Terms \cup {NoRow}, included : Sources]
    BY <2>1, <2>3, <2>5
  <2>7. WorkerTypeOK(w)'
    BY <1>2, <2>2, <2>6, GotoLocal DEF WorkerTypeOK, HoldsSettlement, HoldsRecord,
       HoldsContract, CalculateSteps, SettlementSteps, RecordSteps, ContractSteps
  <2>8. QED BY <1>2, <2>5, <2>7, GoOnTyped
<1>3. QED BY <1>1, <1>2 DEF ReadMinutes

\* Locking a row loads it.
LEMMA LoadTyped ==
    ASSUME TypeOK, NEW w \in Workers, NEW row, NEW step, Goto(w, step),
           got' = [got EXCEPT ![w].row = row],
           \/ /\ row \in SettlementRow
              /\ \/ pc[w] = "recalcLock" /\ step = "recalcContract"
                 \/ pc[w] = "finalizeLock" /\ step = "finalizeCommit"
                 \/ pc[w] = "deleteLock" /\ step = "deleteCommit"
           \/ /\ row \in RecordRow
              /\ \/ pc[w] = "recUpdateLock" /\ step = "recUpdateCheck"
                 \/ pc[w] = "recDeleteLock" /\ step = "recDeleteOrg"
           \/ /\ row \in ContractRow
              /\ \/ pc[w] = "conUpdateLock" /\ step = "conUpdateCheck"
                 \/ pc[w] = "conDeleteLock" /\ step = "conDeleteCheck"
    PROVE  Typed(w)
<1>1. WorkerTypeOK(w) BY DEF TypeOK
<1>2. got[w] \in [row : SettlementRow \cup RecordRow \cup ContractRow \cup {NoRow},
                  terms : Terms \cup {NoRow}, included : Sources]
  BY <1>1 DEF WorkerTypeOK
<1>3. DOMAIN got = Workers BY DEF TypeOK
<1>4. /\ DOMAIN got' = Workers /\ \A v \in Workers \ {w} : got'[v] = got[v]
      /\ got'[w] = [got[w] EXCEPT !.row = row]
  BY <1>3
<1>5. /\ got'[w].row = row /\ got'[w].terms = got[w].terms
      /\ got'[w] \in [row : SettlementRow \cup RecordRow \cup ContractRow \cup {NoRow},
                       terms : Terms \cup {NoRow}, included : Sources]
  BY <1>2, <1>4
<1>6. WorkerTypeOK(w)'
  BY <1>1, <1>5, GotoLocal DEF WorkerTypeOK, HoldsSettlement, HoldsRecord,
     HoldsContract, CalculateSteps, SettlementSteps, RecordSteps, ContractSteps
<1>7. QED BY <1>4, <1>6, GoOnTyped

LEMMA CheckedTyped ==
    ASSUME TypeOK, NEW w \in Workers, NEW step, Goto(w, step), UNCHANGED got,
           <<pc[w], step>> \in
              {<<"calcExists", "calcContract">>, <<"finalizeKey", "finalizeLock">>,
               <<"recUpdateCheck", "recUpdateMove">>,
               <<"recUpdateCheck", "recUpdateCommit">>,
               <<"recUpdateMove", "recUpdateCommit">>,
               <<"recDeleteOrg", "recDeleteProject">>,
               <<"recDeleteProject", "recDeleteCheck">>,
               <<"recDeleteCheck", "recDeleteCommit">>,
               <<"conCreateCheck", "conCreateScan">>,
               <<"conCreateScan", "conCreateCommit">>,
               <<"conUpdateCheck", "conUpdateScan">>,
               <<"conUpdateScan", "conUpdateCommit">>,
               <<"conDeleteCheck", "conDeleteCommit">>}
    PROVE  Typed(w)
<1>1. WorkerTypeOK(w) /\ DOMAIN got = Workers BY DEF TypeOK
<1>2. WorkerTypeOK(w)'
  BY <1>1, GotoLocal DEF WorkerTypeOK, HoldsSettlement, HoldsRecord,
     HoldsContract, CalculateSteps, SettlementSteps, RecordSteps, ContractSteps
<1>3. QED BY <1>1, <1>2, GoOnTyped

LEMMA CommitTyped ==
    ASSUME TypeOK, NEW w \in Workers, Answer(w), TablesTypeOK'
    PROVE  Typed(w)
  BY AnswerLocal DEF Typed

LEMMA SettlementLoadTyped ==
    ASSUME TypeOK, NEW w \in Workers, NEW step, LockSettlement(w, step),
           \/ pc[w] = "recalcLock" /\ step = "recalcContract"
           \/ pc[w] = "finalizeLock" /\ step = "finalizeCommit"
           \/ pc[w] = "deleteLock" /\ step = "deleteCommit"
    PROVE  Typed(w)
<1>1. CASE Changeable(w)
  <2>1. settlements[req[w].id] \in SettlementRow
    BY <1>1 DEF Changeable, Visible, TypeOK
  <2>2. /\ got' = [got EXCEPT ![w].row = settlements[req[w].id]]
        /\ Goto(w, step)
    BY <1>1 DEF LockSettlement
  <2>3. QED BY <2>1, <2>2, LoadTyped
<1>2. CASE ~Changeable(w)
  BY <1>2, RefuseTyped DEF LockSettlement, Typed
<1>3. QED BY <1>1, <1>2

LEMMA RowEdited ==
    ASSUME NEW row \in SettlementRow, NEW c \in ContractIds, NEW t \in Terms,
           NEW i \in Sources
    PROVE  [row EXCEPT !.contract = c, !.terms = t, !.included = i,
                       !.lines = [terms |-> t, included |-> i],
                       !.version = @ + 1] \in SettlementRow
<1>1. row.version + 1 \in Nat BY DEF SettlementRow
<1>2. [terms |-> t, included |-> i] \in [terms : Terms, included : Sources]
  OBVIOUS
<1>3. QED BY <1>1, <1>2 DEF SettlementRow

\* The values the settlement service writes are settlement rows.
LEMMA SettlementRowsTyped ==
    ASSUME TypeOK, NEW w \in Workers
    PROVE  /\ pc[w] = "calcCommit" => CalculatedRow(w) \in SettlementRow
           /\ pc[w] = "recalcCommit" => RecalculatedRow(w) \in SettlementRow
           /\ pc[w] = "finalizeCommit" => FinalizedRow(w) \in SettlementRow
<1>1. WorkerTypeOK(w) BY DEF TypeOK
<1>2. got[w].included \in Sources BY <1>1 DEF WorkerTypeOK
<1>3. ASSUME pc[w] = "calcCommit" PROVE CalculatedRow(w) \in SettlementRow
  <2>1. req[w].args \in CalculateArgs /\ got[w].terms \in Terms
    BY <1>1, <1>3 DEF WorkerTypeOK, CalculateSteps
  <2>2. QED BY <1>2, <2>1 DEF CalculatedRow, CalculateArgs, SettlementRow, Terms
<1>4. ASSUME pc[w] = "recalcCommit" PROVE RecalculatedRow(w) \in SettlementRow
  <2>1. got[w].row \in SettlementRow /\ got[w].terms \in Terms
    BY <1>1, <1>4 DEF WorkerTypeOK, HoldsSettlement
  <2>2. got[w].terms.contract \in ContractIds BY <2>1 DEF Terms
  <2>3. QED
    BY <1>2, <2>1, <2>2, RowEdited DEF RecalculatedRow
<1>5. ASSUME pc[w] = "finalizeCommit" PROVE FinalizedRow(w) \in SettlementRow
  <2>1. got[w].row \in SettlementRow
    BY <1>1, <1>5 DEF WorkerTypeOK, HoldsSettlement
  <2>2. got[w].row.version + 1 \in Nat BY <2>1 DEF SettlementRow
  <2>3. QED BY <2>1, <2>2 DEF FinalizedRow, SettlementRow
<1>6. QED BY <1>3, <1>4, <1>5

LEMMA SettlementStepsTyped ==
    ASSUME TypeOK, LockedRowsCurrent, NEW w \in Workers, SettlementStep(w)
    PROVE  Typed(w)
<1>1. CASE CalculateExists(w)
  BY <1>1, RefuseTyped, CheckedTyped DEF CalculateExists, Typed
<1>2. CASE CalculateContract(w)
  BY <1>2, ReadContractTyped DEF CalculateContract
<1>3. CASE CalculateMinutes(w)
  BY <1>3, ReadMinutesTyped DEF CalculateMinutes
<1>4. CASE CalculateCommit(w)
  <2>1. CASE Refuse(w) BY <2>1, RefuseTyped DEF Typed
  <2>2. CASE /\ settlements' = [settlements EXCEPT ![req[w].id] = CalculatedRow(w)]
             /\ UNCHANGED <<records, contracts, keys>>
             /\ Answer(w)
    <3>1. CalculatedRow(w) \in SettlementRow
      BY <1>4, SettlementRowsTyped DEF CalculateCommit
    <3>2. TablesTypeOK' BY <2>2, <3>1 DEF TablesTypeOK, TypeOK
    <3>3. QED BY <2>2, <3>2, CommitTyped
  <2>3. QED BY <1>4, <2>1, <2>2 DEF CalculateCommit
<1>5. CASE RecalculateLock(w)
  BY <1>5, SettlementLoadTyped DEF RecalculateLock
<1>6. CASE RecalculateContract(w)
  BY <1>6, ReadContractTyped DEF RecalculateContract
<1>7. CASE RecalculateMinutes(w)
  BY <1>7, ReadMinutesTyped DEF RecalculateMinutes
<1>8. CASE RecalculateCommit(w)
  <2>1. RecalculatedRow(w) \in SettlementRow
    BY <1>8, SettlementRowsTyped DEF RecalculateCommit
  <2>2. TablesTypeOK' BY <1>8, <2>1 DEF RecalculateCommit, TablesTypeOK, TypeOK
  <2>3. QED BY <1>8, <2>2, CommitTyped DEF RecalculateCommit
<1>9. CASE FinalizeLookup(w)
  BY <1>9, RefuseTyped, CheckedTyped DEF FinalizeLookup, Typed
<1>10. CASE FinalizeLock(w)
  BY <1>10, SettlementLoadTyped DEF FinalizeLock
<1>11. CASE FinalizeCommit(w)
  <2>1. CASE Refuse(w) BY <2>1, RefuseTyped DEF Typed
  <2>2. CASE ~Refuse(w)
    <3>1. FinalizedRow(w) \in SettlementRow
      BY <1>11, SettlementRowsTyped DEF FinalizeCommit
    <3>2. /\ req[w].user \in Users /\ req[w].id \in SettlementIds
          /\ req[w].args \in IdempotencyKeys /\ req[w].version \in Nat
      BY <1>11 DEF FinalizeCommit, TypeOK, WorkerTypeOK, SettlementSteps
    <3>3. [user |-> req[w].user, settlement |-> req[w].id,
           key |-> req[w].args, version |-> req[w].version] \in KeyRow
      BY <3>2 DEF KeyRow
    <3>4. keys' \subseteq KeyRow
      BY <1>11, <2>2, <3>3 DEF FinalizeCommit, TypeOK
    <3>5. TablesTypeOK'
      BY <1>11, <2>2, <3>1, <3>4 DEF FinalizeCommit, TablesTypeOK, TypeOK
    <3>6. QED BY <1>11, <2>2, <3>5, CommitTyped DEF FinalizeCommit
  <2>3. QED BY <2>1, <2>2
<1>12. CASE DeleteLock(w)
  BY <1>12, SettlementLoadTyped DEF DeleteLock
<1>13. CASE DeleteCommit(w)
  <2>1. settlements[req[w].id] \in SettlementRow
    BY <1>13 DEF DeleteCommit, LockedRowsCurrent, LockedRowCurrent,
       HoldsSettlement, Changeable, Visible, TypeOK
  <2>2. TablesTypeOK'
    BY <1>13, <2>1 DEF DeleteCommit, TablesTypeOK, TypeOK, SettlementRow
  <2>3. QED BY <1>13, <2>2, CommitTyped DEF DeleteCommit
<1>14. QED
  BY <1>1, <1>2, <1>3, <1>4, <1>5, <1>6, <1>7, <1>8, <1>9, <1>10, <1>11, <1>12,
     <1>13 DEF SettlementStep

LEMMA RecordLoadTyped ==
    ASSUME TypeOK, NEW w \in Workers, NEW step, LockRecord(w, step),
           \/ pc[w] = "recUpdateLock" /\ step = "recUpdateCheck"
           \/ pc[w] = "recDeleteLock" /\ step = "recDeleteOrg"
    PROVE  Typed(w)
<1>1. CASE Refuse(w) BY <1>1, RefuseTyped DEF Typed
<1>2. CASE /\ req[w].id \in Visible(records)
           /\ got' = [got EXCEPT ![w].row = records[req[w].id]]
           /\ Goto(w, step)
  <2>1. records[req[w].id] \in RecordRow BY <1>2 DEF Visible, TypeOK
  <2>2. QED BY <1>2, <2>1, LoadTyped
<1>3. QED BY <1>1, <1>2 DEF LockRecord

LEMMA RecordStepsTyped ==
    ASSUME TypeOK, LockedRowsCurrent, NEW w \in Workers, RecordStep(w)
    PROVE  Typed(w)
<1>1. CASE CreateRecord(w)
  <2>1. CASE Refuse(w) BY <2>1, RefuseTyped DEF Typed
  <2>2. CASE ~Refuse(w)
    <3>1. /\ req[w].user \in Users /\ req[w].id \in RecordIds
          /\ req[w].args \in RecordArgs
      BY <1>1 DEF CreateRecord, TypeOK, WorkerTypeOK, RecordSteps
    <3> DEFINE row == [project |-> req[w].args.project, month |-> req[w].args.month,
                       user |-> req[w].user, status |-> req[w].args.status,
                       version |-> 1, deleted |-> FALSE]
    <3>2. row \in RecordRow BY <3>1 DEF RecordArgs, RecordRow
    <3>3. /\ records' = [records EXCEPT ![req[w].id] = row]
          /\ UNCHANGED <<settlements, contracts, keys>> /\ Answer(w)
      BY <1>1, <2>2 DEF CreateRecord
    <3>4. TablesTypeOK' BY <3>2, <3>3 DEF TablesTypeOK, TypeOK
    <3>5. QED BY <3>3, <3>4, CommitTyped
  <2>3. QED BY <2>1, <2>2
<1>2. CASE UpdateRecordLock(w)
  BY <1>2, RecordLoadTyped DEF UpdateRecordLock
<1>3. CASE UpdateRecordCheck(w)
  BY <1>3, RefuseTyped, CheckedTyped DEF UpdateRecordCheck, Typed
<1>4. CASE UpdateRecordCommit(w)
  <2>1. got[w].row \in RecordRow /\ req[w].args \in RecordArgs
    BY <1>4 DEF UpdateRecordCommit, TypeOK, WorkerTypeOK, HoldsRecord
  <2>2. got[w].row.version + 1 \in Nat BY <2>1 DEF RecordRow
  <2>3. UpdatedRecord(w) \in RecordRow
    BY <2>1, <2>2 DEF UpdatedRecord, RecordRow, RecordArgs
  <2>4. TablesTypeOK' BY <1>4, <2>3 DEF UpdateRecordCommit, TablesTypeOK, TypeOK
  <2>5. QED BY <1>4, <2>4, CommitTyped DEF UpdateRecordCommit
<1>5. CASE DeleteRecordLock(w)
  BY <1>5, RecordLoadTyped DEF DeleteRecordLock
<1>6. CASE DeleteRecordLockOrganization(w)
  BY <1>6, CheckedTyped DEF DeleteRecordLockOrganization
<1>7. CASE DeleteRecordCheck(w)
  BY <1>7, RefuseTyped, CheckedTyped DEF DeleteRecordCheck, Typed
<1>9. CASE UpdateRecordMove(w)
  BY <1>9, CheckedTyped DEF UpdateRecordMove
<1>10. CASE DeleteRecordLockProject(w)
  BY <1>10, CheckedTyped DEF DeleteRecordLockProject
<1>8. CASE DeleteRecordCommit(w)
  <2>1. records[req[w].id] \in RecordRow
    BY <1>8 DEF DeleteRecordCommit, LockedRowsCurrent, LockedRowCurrent,
       HoldsRecord, Visible, TypeOK
  <2>2. TablesTypeOK'
    BY <1>8, <2>1 DEF DeleteRecordCommit, TablesTypeOK, TypeOK, RecordRow
  <2>3. QED BY <1>8, <2>2, CommitTyped DEF DeleteRecordCommit
<1>11. QED
  BY <1>1, <1>2, <1>3, <1>4, <1>5, <1>6, <1>7, <1>8, <1>9, <1>10 DEF RecordStep

LEMMA ContractLoadTyped ==
    ASSUME TypeOK, NEW w \in Workers, NEW p, NEW step, LockContract(w, p, step),
           \/ pc[w] = "conUpdateLock" /\ step = "conUpdateCheck"
           \/ pc[w] = "conDeleteLock" /\ step = "conDeleteCheck"
    PROVE  Typed(w)
<1>1. CASE Refuse(w) BY <1>1, RefuseTyped DEF Typed
<1>2. CASE /\ req[w].id \in Visible(contracts)
           /\ got' = [got EXCEPT ![w].row = contracts[req[w].id]]
           /\ Goto(w, step)
  <2>1. contracts[req[w].id] \in ContractRow BY <1>2 DEF Visible, TypeOK
  <2>2. QED BY <1>2, <2>1, LoadTyped
<1>3. QED BY <1>1, <1>2 DEF LockContract

LEMMA ContractStepsTyped ==
    ASSUME TypeOK, LockedRowsCurrent, NEW w \in Workers, ContractStep(w)
    PROVE  Typed(w)
<1> USE InputsAssumption
<1>1. CASE CreateContractCheck(w)
  BY <1>1, RefuseTyped, CheckedTyped DEF CreateContractCheck, Typed
<1>2. CASE CreateContractCommit(w)
  <2>1. req[w].id \in ContractIds /\ req[w].args \in ContractArgs
    BY <1>2 DEF CreateContractCommit, TypeOK, WorkerTypeOK, ContractSteps
  <2> DEFINE row == [project |-> req[w].args.project, period |-> req[w].args.period,
                     status |-> req[w].args.status, version |-> 1,
                     deleted |-> FALSE]
  <2>2. row \in ContractRow BY <2>1 DEF ContractArgs, ContractRow
  <2>3. /\ contracts' = [contracts EXCEPT ![req[w].id] = row]
        /\ UNCHANGED <<settlements, records, keys>> /\ Answer(w)
    BY <1>2 DEF CreateContractCommit
  <2>4. TablesTypeOK' BY <2>2, <2>3 DEF TablesTypeOK, TypeOK
  <2>5. QED BY <2>3, <2>4, CommitTyped
<1>3. CASE UpdateContractLock(w)
  BY <1>3, ContractLoadTyped DEF UpdateContractLock
<1>4. CASE UpdateContractCheck(w)
  BY <1>4, RefuseTyped, CheckedTyped DEF UpdateContractCheck, Typed
<1>5. CASE UpdateContractCommit(w)
  <2>1. got[w].row \in ContractRow /\ req[w].args \in ContractArgs
    BY <1>5 DEF UpdateContractCommit, TypeOK, WorkerTypeOK, HoldsContract
  <2>2. got[w].row.version + 1 \in Nat BY <2>1 DEF ContractRow
  <2>3. UpdatedContract(w) \in ContractRow
    BY <2>1, <2>2 DEF UpdatedContract, ContractRow, ContractArgs
  <2>4. TablesTypeOK'
    BY <1>5, <2>3 DEF UpdateContractCommit, TablesTypeOK, TypeOK
  <2>5. QED BY <1>5, <2>4, CommitTyped DEF UpdateContractCommit
<1>6. CASE DeleteContractLock(w)
  BY <1>6, ContractLoadTyped DEF DeleteContractLock
<1>7. CASE DeleteContractCheck(w)
  BY <1>7, RefuseTyped, CheckedTyped DEF DeleteContractCheck, Typed
<1>8. CASE DeleteContractCommit(w)
  <2>1. contracts[req[w].id] \in ContractRow
    BY <1>8 DEF DeleteContractCommit, LockedRowsCurrent, LockedRowCurrent,
       HoldsContract, Visible, TypeOK
  <2>2. TablesTypeOK'
    BY <1>8, <2>1 DEF DeleteContractCommit, TablesTypeOK, TypeOK, ContractRow
  <2>3. QED BY <1>8, <2>2, CommitTyped DEF DeleteContractCommit
<1>9. CASE CreateContractScan(w)
  BY <1>9, RefuseTyped, CheckedTyped DEF CreateContractScan, Scan, Typed
<1>10. CASE UpdateContractScan(w)
  BY <1>10, RefuseTyped, CheckedTyped DEF UpdateContractScan, Scan, Typed
<1>11. QED
  BY <1>1, <1>2, <1>3, <1>4, <1>5, <1>6, <1>7, <1>8, <1>9, <1>10 DEF ContractStep

LEMMA StepTyped ==
    ASSUME TypeOK, LockedRowsCurrent, NEW w \in Workers, Step(w)
    PROVE  Typed(w)
  BY SettlementStepsTyped, RecordStepsTyped, ContractStepsTyped, RefuseTyped
  DEF Step, Abort, Typed

LEMMA TypePreserved ==
    ASSUME TypeOK, LockedRowsCurrent, [Next]_vars
    PROVE  TypeOK'
<1>1. CASE UNCHANGED vars
  BY <1>1 DEF vars, TypeOK, WorkerTypeOK, HoldsSettlement, HoldsRecord,
     HoldsContract
<1>2. ASSUME NEW w \in Workers, Begin(w) \/ Step(w) PROVE TypeOK'
  <2>1. Typed(w)
    BY <1>2, RequestsTyped, StepTyped
  <2>2. QED BY <2>1, TypeFrame DEF Typed
<1>3. QED BY <1>1, <1>2 DEF Next

LEMMA TypeInitially ==
    ASSUME Init
    PROVE  TypeOK
  BY InitialContractsAssumption DEF Init, TypeOK, WorkerTypeOK, NothingRead,
     Sources, CalculateSteps, SettlementSteps, RecordSteps, ContractSteps,
     HoldsSettlement, HoldsRecord, HoldsContract

----------------------------------------------------------------------------
(***************************************************************************)
(* Who may write a row.  A worker claims the row its transaction has       *)
(* locked, or the new row it will insert; claims are exclusive, and a step *)
(* writes no row but the one its worker claims.                            *)
(***************************************************************************)
NewSettlement(w) == pc[w] \in CalculateSteps
NewRecord(w) == pc[w] = "recCreate"
NewContract(w) == pc[w] \in {"conCreateCheck", "conCreateScan", "conCreateCommit"}

ClaimsSettlement(w) == HoldsSettlement(w) \/ NewSettlement(w)
ClaimsRecord(w) == HoldsRecord(w) \/ NewRecord(w)
ClaimsContract(w) == HoldsContract(w) \/ NewContract(w)

ClaimsExclusive ==
    \A v, w \in Workers : v # w =>
        /\ ClaimsSettlement(v) /\ ClaimsSettlement(w) => req[v].id # req[w].id
        /\ ClaimsRecord(v) /\ ClaimsRecord(w) => req[v].id # req[w].id
        /\ ClaimsContract(v) /\ ClaimsContract(w) => req[v].id # req[w].id

NewRowAbsent(w) ==
    /\ NewSettlement(w) => settlements[req[w].id] = NoRow
    /\ NewRecord(w) => records[req[w].id] = NoRow
    /\ NewContract(w) => contracts[req[w].id] = NoRow

IInv ==
    /\ TypeOK
    /\ LockedRowsCurrent
    /\ ClaimsExclusive
    /\ \A w \in Workers : NewRowAbsent(w)

OwnRowsOnly(w) ==
    /\ \A s \in SettlementIds :
          (ClaimsSettlement(w) /\ req[w].id = s) \/ settlements'[s] = settlements[s]
    /\ \A r \in RecordIds :
          (ClaimsRecord(w) /\ req[w].id = r) \/ records'[r] = records[r]
    /\ \A c \in ContractIds :
          (ClaimsContract(w) /\ req[w].id = c) \/ contracts'[c] = contracts[c]

(***************************************************************************)
(* The four ways a step moves its worker.                                  *)
(***************************************************************************)
Enters(w) ==
    /\ UNCHANGED tables
    /\ ~HoldsSettlement(w)' /\ ~HoldsRecord(w)' /\ ~HoldsContract(w)'
    /\ NewSettlement(w)' => req'[w].id \in Fresh(settlements)
    /\ NewRecord(w)' => req'[w].id \in Fresh(records)
    /\ NewContract(w)' => req'[w].id \in Fresh(contracts)

Loads(w) ==
    /\ UNCHANGED tables /\ req'[w] = req[w]
    /\ ~NewSettlement(w)' /\ ~NewRecord(w)' /\ ~NewContract(w)'
    /\ \/ /\ HoldsSettlement(w)' /\ ~HoldsRecord(w)' /\ ~HoldsContract(w)'
          /\ SettlementFree(w, req[w].id) /\ Changeable(w)
          /\ got'[w].row = settlements[req[w].id]
       \/ /\ HoldsRecord(w)' /\ ~HoldsSettlement(w)' /\ ~HoldsContract(w)'
          /\ pc'[w] \notin {"recUpdateMove", "recUpdateCommit", "recDeleteCommit"}
          /\ RecordFree(w, req[w].id) /\ req[w].id \in Visible(records)
          /\ got'[w].row = records[req[w].id]
       \/ /\ HoldsContract(w)' /\ ~HoldsSettlement(w)' /\ ~HoldsRecord(w)'
          /\ ContractFree(w, req[w].id) /\ req[w].id \in Visible(contracts)
          /\ got'[w].row = contracts[req[w].id]
          /\ got'[w].row.version = req[w].version
          /\ pc'[w] \in {"conUpdateCheck", "conUpdateScan", "conUpdateCommit"} =>
                got'[w].row.project = req[w].args.project

Continues(w) ==
    /\ UNCHANGED tables /\ req'[w] = req[w]
    /\ HoldsSettlement(w)' => HoldsSettlement(w)
    /\ HoldsRecord(w)' => HoldsRecord(w)
    /\ HoldsContract(w)' => HoldsContract(w)
    /\ NewSettlement(w)' => NewSettlement(w)
    /\ NewRecord(w)' => NewRecord(w)
    /\ NewContract(w)' => NewContract(w)
    /\ got'[w].row = got[w].row
    /\ pc'[w] \in {"recUpdateMove", "recUpdateCommit", "recDeleteCommit"} =>
          got[w].row.version = req[w].version
    /\ pc'[w] \in {"conUpdateCheck", "conUpdateScan", "conUpdateCommit"} =>
          pc[w] \in {"conUpdateCheck", "conUpdateScan", "conUpdateCommit"}

Ends(w) == Answer(w) /\ OwnRowsOnly(w)

Moves(w) == OthersKept(w) /\ (Enters(w) \/ Loads(w) \/ Continues(w) \/ Ends(w))

LEMMA RefuseEnds ==
    ASSUME TypeOK, NEW w \in Workers, Refuse(w)
    PROVE  Ends(w)
  BY DEF Refuse, Ends, OwnRowsOnly, tables

LEMMA StartEnters ==
    ASSUME TypeOK, NEW w \in Workers, Begin(w)
    PROVE  Enters(w)
<1>1. CASE CalculateRequest(w)
  <2>1. PICK u \in Users, i \in Fresh(settlements), a \in CalculateArgs :
           Start(w, "calcExists", Request(u, i, 0, a))
    BY <1>1 DEF CalculateRequest
  <2>2. req'[w].id = i BY <2>1, StartLocal DEF Request
  <2>3. QED
    BY <2>1, <2>2, StartLocal DEF Start, Enters, NewSettlement, NewRecord,
       NewContract, HoldsSettlement, HoldsRecord, HoldsContract, CalculateSteps
<1>2. CASE RecalculateRequest(w) \/ FinalizeRequest(w) \/ DeleteRequest(w)
  <2>1. PICK step, request : /\ step \in {"recalcLock", "finalizeKey", "deleteLock"}
                             /\ Start(w, step, request)
    BY <1>2 DEF RecalculateRequest, FinalizeRequest, DeleteRequest, ChangeRequest
  <2>2. QED
    BY <2>1, StartLocal DEF Start, Enters, NewSettlement, NewRecord, NewContract,
       HoldsSettlement, HoldsRecord, HoldsContract, CalculateSteps
<1>3. CASE CreateRecordRequest(w)
  <2>1. PICK u \in Users, i \in Fresh(records), a \in RecordArgs :
           Start(w, "recCreate", Request(u, i, 0, a))
    BY <1>3 DEF CreateRecordRequest
  <2>2. req'[w].id = i BY <2>1, StartLocal DEF Request
  <2>3. QED
    BY <2>1, <2>2, StartLocal DEF Start, Enters, NewSettlement, NewRecord,
       NewContract, HoldsSettlement, HoldsRecord, HoldsContract, CalculateSteps
<1>4. CASE CreateContractRequest(w)
  <2>1. PICK u \in Users, i \in Fresh(contracts), a \in ContractArgs :
           Start(w, "conCreateCheck", Request(u, i, 0, a))
    BY <1>4 DEF CreateContractRequest
  <2>2. req'[w].id = i BY <2>1, StartLocal DEF Request
  <2>3. QED
    BY <2>1, <2>2, StartLocal DEF Start, Enters, NewSettlement, NewRecord,
       NewContract, HoldsSettlement, HoldsRecord, HoldsContract, CalculateSteps
<1>5. CASE \/ UpdateRecordRequest(w) \/ DeleteRecordRequest(w)
           \/ UpdateContractRequest(w) \/ DeleteContractRequest(w)
  <2>1. PICK step, request : /\ step \in {"recUpdateLock", "recDeleteLock",
                                          "conUpdateLock", "conDeleteLock"}
                             /\ Start(w, step, request)
    BY <1>5 DEF UpdateRecordRequest, DeleteRecordRequest, UpdateContractRequest,
       DeleteContractRequest
  <2>2. QED
    BY <2>1, StartLocal DEF Start, Enters, NewSettlement, NewRecord, NewContract,
       HoldsSettlement, HoldsRecord, HoldsContract, CalculateSteps
<1>6. QED
  BY <1>1, <1>2, <1>3, <1>4, <1>5 DEF Begin, SettlementRequest, RecordRequest,
     ContractRequest

LEMMA SettlementStepMoves ==
    ASSUME TypeOK, LockedRowsCurrent, NEW w \in Workers, SettlementStep(w)
    PROVE  Loads(w) \/ Continues(w) \/ Ends(w)
<1> USE DEF NewSettlement, NewRecord, NewContract, HoldsSettlement, HoldsRecord,
    HoldsContract, CalculateSteps
<1>1. CASE CalculateExists(w)
  BY <1>1, RefuseEnds, GotoLocal DEF CalculateExists, Continues
<1>2. ASSUME NEW p, NEW m, NEW step, ReadContract(w, p, m, step),
             \/ pc[w] = "calcContract" /\ step = "calcMinutes"
             \/ pc[w] = "recalcContract" /\ step = "recalcMinutes"
      PROVE  Continues(w) \/ Ends(w)
  <2>1. CASE Refuse(w) BY <2>1, RefuseEnds
  <2>2. CASE ~Refuse(w)
    <3>1. Goto(w, step) /\ got'[w].row = got[w].row
      BY <1>2, <2>2 DEF ReadContract, TypeOK, WorkerTypeOK
    <3>2. QED BY <1>2, <3>1, GotoLocal DEF Continues
  <2>3. QED BY <2>1, <2>2
<1>3. ASSUME NEW p, NEW m, NEW step, ReadMinutes(w, p, m, step),
             \/ pc[w] = "calcMinutes" /\ step = "calcCommit"
             \/ pc[w] = "recalcMinutes" /\ step = "recalcCommit"
      PROVE  Continues(w) \/ Ends(w)
  <2>1. CASE Refuse(w) BY <2>1, RefuseEnds
  <2>2. CASE ~Refuse(w)
    <3>1. Goto(w, step) /\ got'[w].row = got[w].row
      BY <1>3, <2>2 DEF ReadMinutes, TypeOK, WorkerTypeOK
    <3>2. QED BY <1>3, <3>1, GotoLocal DEF Continues
  <2>3. QED BY <2>1, <2>2
<1>4. ASSUME NEW step \in {"recalcContract", "finalizeCommit", "deleteCommit"},
             LockSettlement(w, step)
      PROVE  Loads(w) \/ Ends(w)
  <2>1. CASE Changeable(w)
    <3>1. Goto(w, step) /\ got'[w].row = settlements[req[w].id]
      BY <2>1, <1>4 DEF LockSettlement, TypeOK, WorkerTypeOK
    <3>2. SettlementFree(w, req[w].id) BY <1>4 DEF LockSettlement
    <3>3. QED BY <1>4, <2>1, <3>1, <3>2, GotoLocal DEF Loads
  <2>2. CASE ~Changeable(w) BY <1>4, <2>2, RefuseEnds DEF LockSettlement
  <2>3. QED BY <2>1, <2>2
<1>5. CASE CalculateCommit(w)
  BY <1>5, RefuseEnds DEF CalculateCommit, Ends, OwnRowsOnly, ClaimsSettlement, TypeOK
<1>6. CASE RecalculateCommit(w)
  BY <1>6 DEF RecalculateCommit, Ends, OwnRowsOnly, ClaimsSettlement, TypeOK
<1>7. CASE FinalizeLookup(w)
  BY <1>7, RefuseEnds, GotoLocal DEF FinalizeLookup, Continues
<1>8. CASE FinalizeCommit(w)
  BY <1>8, RefuseEnds DEF FinalizeCommit, Ends, OwnRowsOnly, ClaimsSettlement, TypeOK
<1>9. CASE DeleteCommit(w)
  BY <1>9 DEF DeleteCommit, Ends, OwnRowsOnly, ClaimsSettlement, TypeOK
<1>10. QED
  BY <1>1, <1>2, <1>3, <1>4, <1>5, <1>6, <1>7, <1>8, <1>9 DEF SettlementStep,
     CalculateContract, RecalculateContract, CalculateMinutes, RecalculateMinutes,
     RecalculateLock, FinalizeLock, DeleteLock

LEMMA RecordStepMoves ==
    ASSUME TypeOK, LockedRowsCurrent, NEW w \in Workers, RecordStep(w)
    PROVE  Loads(w) \/ Continues(w) \/ Ends(w)
<1> USE DEF NewSettlement, NewRecord, NewContract, HoldsSettlement, HoldsRecord,
    HoldsContract, CalculateSteps
<1>1. CASE CreateRecord(w)
  BY <1>1, RefuseEnds DEF CreateRecord, Ends, OwnRowsOnly, ClaimsRecord, TypeOK
<1>2. ASSUME NEW step \in {"recUpdateCheck", "recDeleteOrg"}, LockRecord(w, step)
      PROVE  Loads(w) \/ Ends(w)
  <2>1. CASE Refuse(w) BY <2>1, RefuseEnds
  <2>2. CASE ~Refuse(w)
    <3>1. /\ Goto(w, step) /\ got'[w].row = records[req[w].id]
          /\ RecordFree(w, req[w].id) /\ req[w].id \in Visible(records)
      BY <1>2, <2>2 DEF LockRecord, TypeOK, WorkerTypeOK
    <3>2. QED BY <1>2, <3>1, GotoLocal DEF Loads
  <2>3. QED BY <2>1, <2>2
<1>3. CASE UpdateRecordCheck(w)
  BY <1>3, RefuseEnds, GotoLocal DEF UpdateRecordCheck, MayChange, Continues
<1>4. CASE UpdateRecordCommit(w)
  BY <1>4 DEF UpdateRecordCommit, Ends, OwnRowsOnly, ClaimsRecord, TypeOK
<1>5. CASE DeleteRecordLockOrganization(w)
  BY <1>5, GotoLocal DEF DeleteRecordLockOrganization, Continues
<1>6. CASE DeleteRecordCheck(w)
  BY <1>6, RefuseEnds, GotoLocal DEF DeleteRecordCheck, MayChange, Continues
<1>7. CASE DeleteRecordCommit(w)
  BY <1>7 DEF DeleteRecordCommit, Ends, OwnRowsOnly, ClaimsRecord, TypeOK
<1>8. CASE UpdateRecordMove(w)
  BY <1>8, GotoLocal DEF UpdateRecordMove, Continues, LockedRowsCurrent,
     LockedRowCurrent
<1>9. CASE DeleteRecordLockProject(w)
  BY <1>9, GotoLocal DEF DeleteRecordLockProject, Continues
<1>10. QED
  BY <1>1, <1>2, <1>3, <1>4, <1>5, <1>6, <1>7, <1>8, <1>9 DEF RecordStep,
     UpdateRecordLock, DeleteRecordLock

LEMMA ContractStepMoves ==
    ASSUME TypeOK, LockedRowsCurrent, NEW w \in Workers, ContractStep(w)
    PROVE  Loads(w) \/ Continues(w) \/ Ends(w)
<1> USE DEF NewSettlement, NewRecord, NewContract, HoldsSettlement, HoldsRecord,
    HoldsContract, CalculateSteps
<1>1. CASE CreateContractCheck(w)
  BY <1>1, RefuseEnds, GotoLocal DEF CreateContractCheck, Continues
<1>2. CASE CreateContractCommit(w)
  BY <1>2 DEF CreateContractCommit, Ends, OwnRowsOnly, ClaimsContract,
     TypeOK
<1>3. ASSUME NEW p, NEW step \in {"conUpdateCheck", "conDeleteCheck"},
             step = "conUpdateCheck" => p = req[w].args.project,
             LockContract(w, p, step)
      PROVE  Loads(w) \/ Ends(w)
  <2>1. CASE Refuse(w) BY <2>1, RefuseEnds
  <2>2. CASE ~Refuse(w)
    <3>1. /\ Goto(w, step) /\ got'[w].row = contracts[req[w].id]
          /\ ContractFree(w, req[w].id) /\ req[w].id \in Visible(contracts)
          /\ contracts[req[w].id].version = req[w].version
          /\ contracts[req[w].id].project = p
      BY <1>3, <2>2 DEF LockContract, TypeOK, WorkerTypeOK
    <3>2. QED BY <1>3, <3>1, GotoLocal DEF Loads
  <2>3. QED BY <2>1, <2>2
<1>4. CASE UpdateContractCheck(w)
  BY <1>4, RefuseEnds, GotoLocal DEF UpdateContractCheck, Continues
<1>5. CASE UpdateContractCommit(w)
  BY <1>5 DEF UpdateContractCommit, Ends, OwnRowsOnly, ClaimsContract,
     TypeOK
<1>6. CASE DeleteContractCheck(w)
  BY <1>6, RefuseEnds, GotoLocal DEF DeleteContractCheck, Continues
<1>7. CASE DeleteContractCommit(w)
  BY <1>7 DEF DeleteContractCommit, Ends, OwnRowsOnly, ClaimsContract, TypeOK
<1>8. ASSUME NEW step, Scan(w, step),
             \/ pc[w] = "conCreateScan" /\ step = "conCreateCommit"
             \/ pc[w] = "conUpdateScan" /\ step = "conUpdateCommit"
      PROVE  Continues(w) \/ Ends(w)
  BY <1>8, RefuseEnds, GotoLocal DEF Scan, Continues
<1>9. QED
  BY <1>1, <1>2, <1>3, <1>4, <1>5, <1>6, <1>7, <1>8 DEF ContractStep,
     UpdateContractLock, DeleteContractLock, CreateContractScan, UpdateContractScan

LEMMA StepMoves ==
    ASSUME TypeOK, LockedRowsCurrent, NEW w \in Workers, Begin(w) \/ Step(w)
    PROVE  Moves(w)
<1>1. OthersKept(w)
  BY RequestsTyped, StepTyped DEF Typed
<1>2. QED
  BY <1>1, StartEnters, SettlementStepMoves, RecordStepMoves, ContractStepMoves,
     RefuseEnds DEF Step, Abort, Moves

----------------------------------------------------------------------------
(***************************************************************************)
(* The inductive invariant.                                                *)
(***************************************************************************)
\* The row another worker claims is as it was.
LEMMA ClaimedRowsKept ==
    ASSUME IInv, NEW w \in Workers, Moves(w), NEW v \in Workers \ {w}
    PROVE  /\ ClaimsSettlement(v) => settlements'[req[v].id] = settlements[req[v].id]
           /\ ClaimsRecord(v) => records'[req[v].id] = records[req[v].id]
           /\ ClaimsContract(v) => contracts'[req[v].id] = contracts[req[v].id]
<1>1. CASE UNCHANGED tables BY <1>1 DEF tables
<1>2. CASE OwnRowsOnly(w)
  <2>1. /\ ClaimsSettlement(v) => req[v].id \in SettlementIds
        /\ ClaimsRecord(v) => req[v].id \in RecordIds
        /\ ClaimsContract(v) => req[v].id \in ContractIds
    BY DEF IInv, TypeOK, WorkerTypeOK, ClaimsSettlement, ClaimsRecord,
       ClaimsContract, HoldsSettlement, HoldsRecord, HoldsContract, NewSettlement,
       NewRecord, NewContract, CalculateSteps, SettlementSteps, RecordSteps,
       ContractSteps
  <2>2. QED BY <1>2, <2>1 DEF OwnRowsOnly, IInv, ClaimsExclusive
<1>3. QED BY <1>1, <1>2 DEF Moves, Enters, Loads, Continues, Ends

LEMMA ClaimsPreserved ==
    ASSUME IInv, NEW w \in Workers, Moves(w)
    PROVE  ClaimsExclusive'
<1> USE DEF ClaimsSettlement, ClaimsRecord, ClaimsContract
<1>1. ASSUME NEW v \in Workers \ {w}
      PROVE  /\ ClaimsSettlement(v)' <=> ClaimsSettlement(v)
             /\ ClaimsRecord(v)' <=> ClaimsRecord(v)
             /\ ClaimsContract(v)' <=> ClaimsContract(v)
             /\ req'[v] = req[v]
  BY DEF Moves, OthersKept, HoldsSettlement, HoldsRecord, HoldsContract,
     NewSettlement, NewRecord, NewContract
<1>2. ASSUME NEW v \in Workers \ {w}
      PROVE  /\ ClaimsSettlement(v) /\ ClaimsSettlement(w)' => req[v].id # req'[w].id
             /\ ClaimsRecord(v) /\ ClaimsRecord(w)' => req[v].id # req'[w].id
             /\ ClaimsContract(v) /\ ClaimsContract(w)' => req[v].id # req'[w].id
  <2>1. CASE Enters(w)
    <3>1. pc[v] # "idle" \/ ~(ClaimsSettlement(v) \/ ClaimsRecord(v) \/ ClaimsContract(v))
      BY DEF HoldsSettlement, HoldsRecord, HoldsContract, NewSettlement, NewRecord,
         NewContract, CalculateSteps
    <3>2. QED BY <2>1, <3>1 DEF Enters, Fresh
  <2>2. CASE Loads(w)
    <3>1. NewRowAbsent(v) BY DEF IInv
    <3>2. QED
      BY <2>2, <3>1 DEF Loads, NewRowAbsent, SettlementFree, RecordFree,
         ContractFree, Changeable, Visible
  <2>3. CASE Continues(w)
    BY <2>3 DEF Continues, IInv, ClaimsExclusive
  <2>4. CASE Ends(w)
    BY <2>4, AnswerLocal DEF Ends, IInv, HoldsSettlement, HoldsRecord, HoldsContract,
       NewSettlement, NewRecord, NewContract, CalculateSteps
  <2>5. QED BY <2>1, <2>2, <2>3, <2>4 DEF Moves
<1>3. QED
  BY <1>1, <1>2 DEF IInv, ClaimsExclusive

LEMMA LockedPreserved ==
    ASSUME IInv, TypeOK', NEW w \in Workers, Moves(w)
    PROVE  LockedRowsCurrent'
<1>0. DOMAIN settlements' = DOMAIN settlements /\ DOMAIN records' = DOMAIN records
      /\ DOMAIN contracts' = DOMAIN contracts
  BY DEF IInv, TypeOK
<1>1. ASSUME NEW v \in Workers \ {w} PROVE LockedRowCurrent(v)'
  <2>1. LockedRowCurrent(v) BY DEF IInv, LockedRowsCurrent
  <2>2. pc'[v] = pc[v] /\ req'[v] = req[v] /\ got'[v] = got[v]
    BY DEF Moves, OthersKept
  <2>3. CASE HoldsSettlement(v)
    <3>1. settlements'[req[v].id] = settlements[req[v].id]
      BY <2>3, ClaimedRowsKept DEF ClaimsSettlement
    <3>2. ~HoldsRecord(v) /\ ~HoldsContract(v)
      BY <2>3 DEF HoldsSettlement, HoldsRecord, HoldsContract
    <3>3. QED
      BY <1>0, <2>1, <2>2, <2>3, <3>1, <3>2 DEF LockedRowCurrent, HoldsSettlement,
         HoldsRecord, HoldsContract, Changeable, Visible
  <2>4. CASE HoldsRecord(v)
    <3>1. records'[req[v].id] = records[req[v].id]
      BY <2>4, ClaimedRowsKept DEF ClaimsRecord
    <3>2. QED
      BY <1>0, <2>1, <2>2, <2>4, <3>1 DEF LockedRowCurrent, HoldsSettlement,
         HoldsRecord, HoldsContract, Visible
  <2>5. CASE HoldsContract(v)
    <3>1. contracts'[req[v].id] = contracts[req[v].id]
      BY <2>5, ClaimedRowsKept DEF ClaimsContract
    <3>2. QED
      BY <1>0, <2>1, <2>2, <2>5, <3>1 DEF LockedRowCurrent, HoldsSettlement,
         HoldsRecord, HoldsContract, Visible
  <2>6. CASE ~HoldsSettlement(v) /\ ~HoldsRecord(v) /\ ~HoldsContract(v)
    BY <2>2, <2>6 DEF LockedRowCurrent, HoldsSettlement, HoldsRecord, HoldsContract
  <2>7. QED BY <2>3, <2>4, <2>5, <2>6
<1>2. LockedRowCurrent(w)'
  <2>1. LockedRowCurrent(w) BY DEF IInv, LockedRowsCurrent
  <2>2. CASE Enters(w)
    BY <2>2 DEF Enters, LockedRowCurrent, HoldsRecord, HoldsContract
  <2>3. CASE Loads(w)
    BY <2>3 DEF Loads, LockedRowCurrent, HoldsRecord, HoldsContract, Changeable,
       Visible, tables
  <2>4. CASE Continues(w)
    BY <2>1, <2>4 DEF Continues, LockedRowCurrent, Changeable, Visible, tables
  <2>5. CASE Ends(w)
    BY <2>5, AnswerLocal DEF Ends, IInv, LockedRowCurrent, HoldsSettlement,
       HoldsRecord, HoldsContract
  <2>6. QED BY <2>2, <2>3, <2>4, <2>5 DEF Moves
<1>3. QED BY <1>1, <1>2 DEF LockedRowsCurrent

LEMMA AbsentPreserved ==
    ASSUME IInv, TypeOK', NEW w \in Workers, Moves(w)
    PROVE  \A v \in Workers : NewRowAbsent(v)'
<1>1. ASSUME NEW v \in Workers \ {w} PROVE NewRowAbsent(v)'
  <2>1. NewRowAbsent(v) BY DEF IInv
  <2>2. pc'[v] = pc[v] /\ req'[v] = req[v] BY DEF Moves, OthersKept
  <2>3. QED
    BY <2>1, <2>2, ClaimedRowsKept DEF NewRowAbsent, ClaimsSettlement, ClaimsRecord,
       ClaimsContract, NewSettlement, NewRecord, NewContract
<1>2. NewRowAbsent(w)'
  <2>1. NewRowAbsent(w) BY DEF IInv
  <2>2. CASE Enters(w) BY <2>2 DEF Enters, NewRowAbsent, Fresh, tables
  <2>3. CASE Loads(w) BY <2>3 DEF Loads, NewRowAbsent
  <2>4. CASE Continues(w) BY <2>1, <2>4 DEF Continues, NewRowAbsent, tables
  <2>5. CASE Ends(w)
    BY <2>5, AnswerLocal DEF Ends, IInv, NewRowAbsent, NewSettlement, NewRecord,
       NewContract, CalculateSteps
  <2>6. QED BY <2>2, <2>3, <2>4, <2>5 DEF Moves
<1>3. QED BY <1>1, <1>2

LEMMA IInvPreserved ==
    ASSUME IInv, [Next]_vars
    PROVE  IInv'
<1>1. TypeOK' BY TypePreserved DEF IInv
<1>2. ASSUME NEW w \in Workers, Begin(w) \/ Step(w) PROVE IInv'
  <2>1. Moves(w) BY <1>2, StepMoves DEF IInv
  <2>2. QED
    BY <1>1, <2>1, ClaimsPreserved, LockedPreserved, AbsentPreserved DEF IInv
<1>3. CASE UNCHANGED vars
  <2>1. LockedRowsCurrent'
    BY <1>3 DEF vars, IInv, LockedRowsCurrent, LockedRowCurrent, HoldsSettlement,
       HoldsRecord, HoldsContract, Changeable, Visible
  <2>2. ClaimsExclusive'
    BY <1>3 DEF vars, IInv, ClaimsExclusive, ClaimsSettlement, ClaimsRecord,
       ClaimsContract, NewSettlement, NewRecord, NewContract, HoldsSettlement,
       HoldsRecord, HoldsContract
  <2>3. \A w \in Workers : NewRowAbsent(w)'
    BY <1>3 DEF vars, IInv, NewRowAbsent, NewSettlement, NewRecord, NewContract
  <2>4. QED BY <1>1, <2>1, <2>2, <2>3 DEF IInv
<1>4. QED BY <1>2, <1>3 DEF Next

LEMMA IInvInitially ==
    ASSUME Init
    PROVE  IInv
<1>1. \A w \in Workers : pc[w] = "idle" BY DEF Init
<1>2. TypeOK BY TypeInitially
<1>3. QED
  BY <1>1, <1>2 DEF IInv, LockedRowsCurrent, LockedRowCurrent, ClaimsExclusive,
     NewRowAbsent, ClaimsSettlement, ClaimsRecord, ClaimsContract, NewSettlement,
     NewRecord, NewContract, HoldsSettlement, HoldsRecord, HoldsContract,
     CalculateSteps

LEMMA Invariance == Spec => []IInv
  BY IInvInitially, IInvPreserved, PTL DEF Spec

\* In every reachable state the tables hold well-formed rows, and each worker is
\* at a step of a well-formed request.
THEOREM TypeCorrect == Spec => []TypeOK
<1>1. IInv => TypeOK BY DEF IInv
<1>2. QED BY <1>1, Invariance, PTL

\* No transaction finds its locked row changed under it.
THEOREM LocksProtect == Spec => []LockedRowsCurrent
<1>1. IInv => LockedRowsCurrent BY DEF IInv
<1>2. QED BY <1>1, Invariance, PTL

============================================================================
