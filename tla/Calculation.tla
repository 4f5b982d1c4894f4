---------------------------- MODULE Calculation ----------------------------
(***************************************************************************)
(* The two calculations behind a settlement, called one input at a time:   *)
(* a work record's minutes when it is written, a month's amounts when it   *)
(* is settled.                                                             *)
(***************************************************************************)
EXTENDS WorkTime, SettlementCalculation, FiniteSets, SequencesExt

CONSTANTS
    Instants,   \* seconds at which work and breaks start and end
    MaxBreaks,  \* breaks of a record
    Rules,      \* rounding rules of contracts
    Minutes,    \* minutes of a month
    Conditions, \* contract conditions a client may send
    Rates       \* tax and withholding rates

\* What the serializers let through.
InputRanges ==
    /\ Instants \subseteq Nat /\ MaxBreaks \in Nat
    /\ Minutes \subseteq Nat /\ Rates \subseteq 0..10000
    /\ \A r \in Rules : /\ r.unit \in {1, 5, 10, 15, 30, 60}
                         /\ r.method \in {"ROUND_DOWN", "ROUND_UP", "ROUND_HALF_UP"}
    /\ \A c \in Conditions :
          /\ DOMAIN c = ConditionFields
          /\ \A f \in ConditionFields \ {"rounding_method"} : c[f] \in Nat \cup {Null}

ASSUME CalculationAssumption == InputRanges

VARIABLE call

Idle == [of |-> "nothing"]

Works ==
    [start : Instants, end : Instants, billable : BOOLEAN,
     rule : Rules \cup {NoRule},
     breaks : SeqOf([start : Instants, end : Instants], MaxBreaks)]

Terms(type, conditions, tax, withholding) ==
    [f \in ConditionFields \cup {"type", "tax", "withholding"} |->
        CASE f = "type" -> type
          [] f = "tax" -> tax
          [] f = "withholding" -> withholding
          [] OTHER -> conditions[f]]

WriteRecord ==
    /\ call = Idle
    /\ \E work \in Works :
          /\ call' = [of |-> "record", work |-> work]
          /\ RefuseTimes(work) \/ SortBreaks(work)

Calculate ==
    /\ call.of = "record" /\ result = NoResult
    /\ TakeBreak(call.work) \/ RefuseBreak(call.work) \/ CountMinutes(call.work)
    /\ UNCHANGED call

\* A contract is validated when it is saved and settled later.
Settle ==
    /\ call = Idle
    /\ \E type \in ContractTypes, c \in Conditions :
          /\ ValidConditions(type, c)
          /\ \E tax, withholding \in Rates, m \in Minutes :
                call' = [of |-> "settlement", minutes |-> m,
                         terms |-> Terms(type, c, tax, withholding)]
    /\ UNCHANGED loop

Return ==
    /\ call # Idle
    /\ call.of = "record" => result # NoResult
    /\ call' = Idle
    /\ order' = <<>> /\ next' = 1 /\ taken' = 0 /\ result' = NoResult

CallsInit == call = Idle /\ NotCalculating
CallsNext == WriteRecord \/ Calculate \/ Settle \/ Return
CallsSpec == CallsInit /\ [][CallsNext]_<<call, loop>>

----------------------------------------------------------------------------
Recorded == call.of = "record" /\ result # NoResult
Accepted == Recorded /\ result.refused = ""

\* The whole minutes of the i-th break, of all breaks in I.
WholeMinutes(b, i) == 1..((b[i].end - b[i].start) \div 60)
BreakMinutes(b, I) == UNION {{i} \X WholeMinutes(b, i) : i \in I}

\* The seconds of a record, without those of its breaks in I.
WorkedSeconds(w, I) ==
    {t \in w.start..(w.end - 1) :
        \A i \in I : ~(w.breaks[i].start <= t /\ t < w.breaks[i].end)}

BreakInside(w, i) ==
    /\ w.start <= w.breaks[i].start
    /\ w.breaks[i].start < w.breaks[i].end
    /\ w.breaks[i].end <= w.end

BreaksApart(b, i, j) == b[i].end <= b[j].start \/ b[j].end <= b[i].start

Acceptable(w) ==
    LET I == DOMAIN w.breaks IN
    /\ w.start < w.end
    /\ \A i \in I : BreakInside(w, i)
    /\ \A i, j \in I : i # j => BreaksApart(w.breaks, i, j)
    /\ (w.end - w.start) \div 60 > Cardinality(BreakMinutes(w.breaks, I))

\* Whatever order the breaks are sent in, a record is accepted exactly when it
\* and its breaks are not empty, the breaks lie inside it and no two of them
\* overlap, and at least a minute is left.
BreaksAcceptedAsASet == Recorded => (result.refused = "" <=> Acceptable(call.work))

\* Counting whole minutes of the record and of each break never takes worked
\* minutes away, and adds at most one minute for each break.
MinutesAccountForTime ==
    Accepted =>
        LET worked == Cardinality(WorkedSeconds(call.work, DOMAIN call.work.breaks)) IN
        /\ worked \div 60 <= result.actual
        /\ result.actual <= worked \div 60 + Len(call.work.breaks)

RoundedTo(billable, actual, rule) ==
    LET over == billable - actual IN
    /\ billable % rule.unit = 0
    /\ CASE rule.method = "ROUND_DOWN" -> -rule.unit < over /\ over <= 0
         [] rule.method = "ROUND_UP" -> 0 <= over /\ over < rule.unit
         [] rule.method = "ROUND_HALF_UP" ->
                -rule.unit < 2 * over /\ 2 * over <= rule.unit

\* Billable minutes are a multiple of the contract's unit: the largest one up to
\* the actual minutes, the smallest one from them, or the nearest one and the
\* larger of two that are equally near.
BilledInUnits ==
    Accepted /\ call.work.billable /\ call.work.rule # NoRule =>
        RoundedTo(result.billable, result.actual, call.work.rule)

\* A contract that could be saved can always be settled: its conditions are
\* complete for calculate_amounts.
SavedContractsAreComplete ==
    call.of = "settlement" =>
        CalculateAmounts(call.terms, call.minutes).refused
            # "INVALID_CONTRACT_CONFIGURATION"

\* More minutes never make a month's total smaller, and never turn a month that
\* can be settled into one that is refused.
MoreMinutesNeverPayLess ==
    call.of = "settlement" =>
        LET now == CalculateAmounts(call.terms, call.minutes)
            more == CalculateAmounts(call.terms, call.minutes + 1)
        IN  now.refused = "" => more.refused = "" /\ more.total >= now.total

\* total is the total of base with its tax and without its withholding, up to a
\* yen.
WithinAYen(total, base, terms) ==
    LET exact == base * (10000 + terms.tax - terms.withholding) IN
    /\ total * 10000 - exact < 10000
    /\ exact - total * 10000 < 10000

\* Each amount is floored once: the total is less than a yen away from the base
\* with its tax and without its withholding, and a base that is not negative is
\* never refused for its total.
TotalExactToTheYen ==
    call.of = "settlement" =>
        LET amounts == CalculateAmounts(call.terms, call.minutes) IN
        IF amounts.refused = ""
        THEN WithinAYen(amounts.total, amounts.base, call.terms)
        ELSE Base(call.terms, call.minutes) < 0
============================================================================
