-------------------------- MODULE SettlementLedger -------------------------
(***************************************************************************)
(* What the settlements promise to a reader of the books, with no          *)
(* transactions, locks or row ids: each month of each project has at most  *)
(* one settlement, opened at version 1, revised in steps of one version    *)
(* while it is CALCULATED, removed only then, and unchanged once FINALIZED *)
(* (section 14.2 of the contract and revenue design).                      *)
(***************************************************************************)
EXTENDS Integers

CONSTANTS Books,     \* the <<project, month>> pairs
          Figures,   \* what a calculation can result in
          Blank      \* no settlement

VARIABLE ledger

LedgerInit == ledger = [b \in Books |-> Blank]

\* Book b gets an entry of this status and version, whatever its figures.
Enter(b, status, version) ==
    /\ ledger'[b] # Blank
    /\ ledger'[b].figures \in Figures
    /\ ledger' = [ledger EXCEPT ![b] =
          [status |-> status, version |-> version, figures |-> ledger'[b].figures]]

Calculated(b) == ledger[b] # Blank /\ ledger[b].status = "CALCULATED"

Open(b) == ledger[b] = Blank /\ Enter(b, "CALCULATED", 1)

Revise(b) == Calculated(b) /\ Enter(b, "CALCULATED", ledger[b].version + 1)

Close(b) ==
    /\ Calculated(b)
    /\ ledger' = [ledger EXCEPT ![b] =
          [status |-> "FINALIZED", version |-> @.version + 1, figures |-> @.figures]]

Remove(b) ==
    /\ Calculated(b)
    /\ ledger' = [ledger EXCEPT ![b] = Blank]

LedgerNext == \E b \in Books : Open(b) \/ Revise(b) \/ Close(b) \/ Remove(b)

LedgerSpec == LedgerInit /\ [][LedgerNext]_ledger
============================================================================
