----------------------------- MODULE MCBilling -----------------------------
(***************************************************************************)
(* Small instances of Billing for TLC.                                     *)
(***************************************************************************)
EXTENDS Billing, TLC

CONSTANTS c1, c2, p1, p2, bob

WholeContract ==
    [project |-> p1, period |-> [from |-> 0, until |-> OpenEnd],
     status |-> "ACTIVE", version |-> 1, deleted |-> FALSE]

MCOneContract == [c \in ContractIds |-> IF c = c1 THEN WholeContract ELSE NoRow]
MCNoContract == [c \in ContractIds |-> NoRow]

Oneself == {<<bob, p1>>}
Nobody == {}
OneMonth == {0}
FirstVersion == {1}
TwoVersions == {1, 2}

SettlementOperations ==
    {"calculate", "recalculate", "finalize", "delete", "createRecord"}
RecordOperations == {"calculate", "finalize", "createRecord", "updateRecord",
                     "deleteRecord"}
ContractOperations == {"createContract", "updateContract", "deleteContract"}
UseOperations == {"calculate", "deleteContract"}

AllPeriods == Periods
WholeMonth == {[from |-> 0, until |-> OpenEnd]}

ContractSymmetry == Permutations(Workers) \cup Permutations(ContractIds)
Symmetry == Permutations(Workers) \cup Permutations(SettlementIds)
              \cup Permutations(IdempotencyKeys)
============================================================================
