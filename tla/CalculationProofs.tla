------------------------- MODULE CalculationProofs -------------------------
(***************************************************************************)
(* Proofs about the two calculations: the minutes of a record, for any     *)
(* number of breaks in any order, and the amounts of a settlement, for all *)
(* conditions, rates and minutes.                                          *)
(***************************************************************************)
EXTENDS Calculation, FiniteSetTheorems, TLAPS

(***************************************************************************)
(* Amounts that are rounded down.                                          *)
(***************************************************************************)
LEMMA HourFloor ==
    ASSUME NEW m \in Int, NEW n \in Int, m <= n
    PROVE  /\ m \div 60 \in Int /\ n \div 60 \in Int
           /\ m \div 60 <= n \div 60
           /\ 0 <= m => 0 <= m \div 60
  OBVIOUS

LEMMA PerHourMonotone ==
    ASSUME NEW m \in Nat, NEW n \in Nat, m <= n, NEW rate \in Nat
    PROVE  /\ PerHour(m, rate) \in Nat /\ PerHour(n, rate) \in Nat
           /\ PerHour(m, rate) <= PerHour(n, rate)
<1>1. m * rate \in Nat /\ n * rate \in Nat OBVIOUS
<1>2. m * rate <= n * rate
  <2>1. PICK k \in Nat : n = m + k
    <3>1. n - m \in Nat /\ n = m + (n - m) OBVIOUS
    <3>2. QED BY <3>1
  <2>2. n * rate = m * rate + k * rate BY <2>1
  <2>3. k * rate \in Nat OBVIOUS
  <2>4. QED BY <1>1, <2>2, <2>3
<1>3. /\ (m * rate) \div 60 \in Int /\ (n * rate) \div 60 \in Int
      /\ (m * rate) \div 60 <= (n * rate) \div 60
      /\ 0 <= (m * rate) \div 60
  <2>1. 0 <= m * rate /\ m * rate \in Int /\ n * rate \in Int BY <1>1
  <2>2. QED BY <1>2, <2>1, HourFloor, Zenon
<1>4. QED BY <1>3 DEF PerHour

\* Rates, in hundredths of a percent.
Shares == 0..10000

LEMMA ShareFloor ==
    ASSUME NEW a \in Nat, NEW k \in Nat, NEW p \in Nat, NEW q \in Nat,
           p <= a * 10000, q <= k * 10000
    PROVE  /\ p \div 10000 \in Int /\ (p + q) \div 10000 \in Int
           /\ 0 <= p \div 10000 /\ p \div 10000 <= a
           /\ p \div 10000 <= (p + q) \div 10000
           /\ (p + q) \div 10000 - p \div 10000 <= k
  OBVIOUS

\* A share of an amount grows with it, but by no more than the amount.
LEMMA PerCentMonotone ==
    ASSUME NEW a \in Nat, NEW b \in Nat, a <= b, NEW rate \in Shares
    PROVE  /\ PerCent(a, rate) \in Nat /\ PerCent(b, rate) \in Nat
           /\ PerCent(a, rate) <= a
           /\ PerCent(a, rate) <= PerCent(b, rate)
           /\ PerCent(b, rate) - PerCent(a, rate) <= b - a
<1>1. PICK k \in Nat : b = a + k
  <2>1. b - a \in Nat /\ b = a + (b - a) OBVIOUS
  <2>2. QED BY <2>1
<1>2. /\ a * rate \in Nat /\ k * rate \in Nat /\ b * rate \in Nat
      /\ b * rate = a * rate + k * rate
  BY <1>1 DEF Shares
<1>3. ASSUME NEW n \in Nat PROVE n * rate <= n * 10000
  <2>1. PICK rest \in Nat : 10000 = rate + rest
    <3>1. 10000 - rate \in Nat /\ 10000 = rate + (10000 - rate) BY DEF Shares
    <3>2. QED BY <3>1
  <2>2. n * 10000 = n * rate + n * rest BY <2>1 DEF Shares
  <2>3. n * rate \in Nat /\ n * rest \in Nat BY DEF Shares
  <2>4. QED BY <2>2, <2>3
<1>4. a * rate <= a * 10000 /\ k * rate <= k * 10000 BY <1>3
<1> DEFINE p == a * rate
           q == k * rate
<1>5. ASSUME NEW n, NEW s, s = n * rate
      PROVE  PerCent(n, rate) = s \div 10000
  BY <1>5 DEF PerCent
<1>6. p \in Nat /\ q \in Nat /\ b * rate = p + q BY <1>2
<1>7. p <= a * 10000 /\ q <= k * 10000 BY <1>4
<1>8. p = a * rate OBVIOUS
<1> HIDE DEF p, q
<1>9. PerCent(a, rate) = p \div 10000 /\ PerCent(b, rate) = (p + q) \div 10000
  BY <1>5, <1>6, <1>8
<1>10. QED BY <1>1, <1>6, <1>7, <1>9, ShareFloor

(***************************************************************************)
(* The terms of a contract that could be saved.                            *)
(***************************************************************************)
Complete(t) ==
    /\ t.type \in ContractTypes
    /\ \A f \in Used(t.type) : f \in Given(t) /\ t[f] \in Nat
    /\ t.tax \in Shares /\ t.withholding \in Shares

LEMMA TermsFields ==
    ASSUME NEW type, NEW c \in Conditions, NEW tax, NEW withholding
    PROVE  /\ Terms(type, c, tax, withholding).type = type
           /\ Terms(type, c, tax, withholding).tax = tax
           /\ Terms(type, c, tax, withholding).withholding = withholding
           /\ \A f \in ConditionFields : Terms(type, c, tax, withholding)[f] = c[f]
  BY DEF Terms, ConditionFields

LEMMA UsedRequired ==
    ASSUME NEW type \in ContractTypes
    PROVE  /\ Used(type) \subseteq Required(type)
           /\ Used(type) \subseteq ConditionFields \ {"rounding_method"}
  BY DEF ContractTypes, Used, Required, ConditionFields

LEMMA SavedIsComplete ==
    ASSUME NEW type \in ContractTypes, NEW c \in Conditions, ValidConditions(type, c),
           NEW tax \in Rates, NEW withholding \in Rates
    PROVE  Complete(Terms(type, c, tax, withholding))
<1> DEFINE t == Terms(type, c, tax, withholding)
<1>1. t.type = type /\ t.tax = tax /\ t.withholding = withholding
  BY TermsFields
<1>2. tax \in Shares /\ withholding \in Shares
  BY CalculationAssumption DEF InputRanges, Shares
<1>3. ASSUME NEW f \in Used(type) PROVE f \in Given(t) /\ t[f] \in Nat
  <2>1. f \in Required(type) /\ f \in ConditionFields \ {"rounding_method"}
    BY <1>3, UsedRequired
  <2>2. c[f] # Null BY <2>1 DEF ValidConditions, Given
  <2>3. c[f] \in Nat BY <2>1, <2>2, CalculationAssumption DEF InputRanges
  <2>4. t[f] = c[f] BY <2>1, TermsFields
  <2>5. QED BY <2>1, <2>2, <2>3, <2>4 DEF Given
<1> HIDE DEF t
<1>4. Complete(t) BY <1>1, <1>2, <1>3 DEF Complete
<1>5. QED BY <1>4 DEF t

\* The base never falls with the minutes of the month.
LEMMA BaseMonotone ==
    ASSUME NEW t, Complete(t), NEW m \in Nat
    PROVE  /\ Base(t, m) \in Int /\ Base(t, m + 1) \in Int
           /\ Base(t, m) <= Base(t, m + 1)
<1>1. CASE t.type = "HOURLY"
  <2>1. t.hourly_rate \in Nat BY <1>1 DEF Complete, Used
  <2>2. /\ Base(t, m) = PerHour(m, t.hourly_rate)
        /\ Base(t, m + 1) = PerHour(m + 1, t.hourly_rate)
    BY <1>1 DEF Base
  <2>3. /\ PerHour(m, t.hourly_rate) \in Nat /\ PerHour(m + 1, t.hourly_rate) \in Nat
        /\ PerHour(m, t.hourly_rate) <= PerHour(m + 1, t.hourly_rate)
    <3>1. m + 1 \in Nat /\ m <= m + 1 OBVIOUS
    <3>2. QED BY <2>1, <3>1, PerHourMonotone
  <2>4. QED BY <2>2, <2>3
<1>2. CASE t.type = "MONTHLY_RANGE"
  <2>1. /\ t.monthly_rate \in Nat /\ t.base_minutes \in Nat
        /\ t.deduction_rate \in Nat /\ t.overtime_rate \in Nat
    BY <1>2 DEF Complete, Used
  <2>2. /\ NonNegative(t.base_minutes - m) \in Nat
        /\ NonNegative(t.base_minutes - (m + 1)) \in Nat
        /\ NonNegative(t.base_minutes - (m + 1)) <= NonNegative(t.base_minutes - m)
        /\ NonNegative(m - t.base_minutes) \in Nat
        /\ NonNegative((m + 1) - t.base_minutes) \in Nat
        /\ NonNegative(m - t.base_minutes) <= NonNegative((m + 1) - t.base_minutes)
    BY <2>1 DEF NonNegative
  <2>3. /\ Deduction(t, m) \in Nat /\ Deduction(t, m + 1) \in Nat
        /\ Deduction(t, m + 1) <= Deduction(t, m)
    BY <1>2, <2>1, <2>2, PerHourMonotone DEF Deduction
  <2>4. /\ Overtime(t, m) \in Nat /\ Overtime(t, m + 1) \in Nat
        /\ Overtime(t, m) <= Overtime(t, m + 1)
    BY <1>2, <2>1, <2>2, PerHourMonotone DEF Overtime
  <2>5. \A n \in {m, m + 1} :
            Base(t, n) = t.monthly_rate - Deduction(t, n) + Overtime(t, n)
    BY <1>2 DEF Base
  <2>6. QED BY <2>1, <2>3, <2>4, <2>5
<1>3. CASE t.type = "MONTHLY_FIXED"
  BY <1>3 DEF Base, Complete, Used
<1>4. CASE t.type = "PERFORMANCE"
  BY <1>4 DEF Base, Complete, Used
<1>5. QED BY <1>1, <1>2, <1>3, <1>4 DEF Complete, ContractTypes

(***************************************************************************)
(* What calculate_amounts returns.                                         *)
(***************************************************************************)
Pays(t, m) == CalculateAmounts(t, m).refused = ""
BaseOf(t, m) == CalculateAmounts(t, m).base
TotalOf(t, m) == CalculateAmounts(t, m).total
Total(t, base) == base + PerCent(base, t.tax) - Withholding(t, base)
Negative(n) == n < 0

LEMMA AmountsOf ==
    ASSUME NEW t, Complete(t), NEW m, NEW a, a = Base(t, m)
    PROVE  \/ ~Pays(t, m) /\ (Negative(a) \/ Negative(Total(t, a)))
           \/ /\ Pays(t, m) /\ BaseOf(t, m) = a /\ TotalOf(t, m) = Total(t, a)
              /\ ~Negative(a) /\ ~Negative(Total(t, a))
<1>1. Used(t.type) \subseteq Given(t) BY DEF Complete
<1>2. QED BY <1>1 DEF CalculateAmounts, Total, Pays, BaseOf, TotalOf, Negative

LEMMA TotalMonotone ==
    ASSUME NEW t, Complete(t), NEW a \in Nat, NEW b \in Nat, a <= b
    PROVE  /\ Total(t, a) \in Nat /\ Total(t, b) \in Nat
           /\ Total(t, a) <= Total(t, b)
<1>1. t.tax \in Shares /\ t.withholding \in Shares BY DEF Complete
<1>2. ASSUME NEW rate \in Shares
      PROVE  /\ PerCent(a, rate) \in Nat /\ PerCent(b, rate) \in Nat
             /\ PerCent(a, rate) <= a /\ PerCent(a, rate) <= PerCent(b, rate)
             /\ PerCent(b, rate) - PerCent(a, rate) <= b - a
  BY PerCentMonotone
<1>3. /\ PerCent(a, t.tax) \in Nat /\ PerCent(b, t.tax) \in Nat
      /\ PerCent(a, t.tax) <= PerCent(b, t.tax)
  BY <1>1, <1>2
<1>4. /\ PerCent(a, t.withholding) \in Nat /\ PerCent(b, t.withholding) \in Nat
      /\ PerCent(a, t.withholding) <= a
      /\ PerCent(b, t.withholding) - PerCent(a, t.withholding) <= b - a
  BY <1>1, <1>2
<1>5. /\ Total(t, a) = a + PerCent(a, t.tax) - PerCent(a, t.withholding)
      /\ Total(t, b) = b + PerCent(b, t.tax) - PerCent(b, t.withholding)
  BY DEF Total, Withholding
<1>6. ASSUME NEW i \in Nat, NEW j \in Nat, NEW k \in Nat, NEW l \in Nat,
             i <= j, k <= a, l - k <= b - a
      PROVE  /\ a + i - k \in Nat /\ b + j - l \in Nat
             /\ a + i - k <= b + j - l
  BY <1>6
<1>7. QED BY <1>3, <1>4, <1>5, <1>6

\* Only a negative base is refused.
LEMMA RefusedNegative ==
    ASSUME NEW t, Complete(t), NEW m, NEW a \in Int, a = Base(t, m)
    PROVE  /\ a \in Nat \/ Negative(a)
           /\ Negative(a) => ~Pays(t, m)
           /\ a \in Nat => /\ Pays(t, m) /\ BaseOf(t, m) = a
                           /\ TotalOf(t, m) = Total(t, a)
<1>1. CASE Negative(a)
  <2>1. a \notin Nat BY <1>1 DEF Negative
  <2>2. QED BY <1>1, <2>1, AmountsOf
<1>2. CASE a \in Nat
  <2>1. Total(t, a) \in Nat BY <1>2, TotalMonotone
  <2>2. \A n \in Nat : ~Negative(n) BY DEF Negative
  <2>3. ~Negative(a) /\ ~Negative(Total(t, a)) BY <1>2, <2>1, <2>2
  <2>4. QED BY <1>2, <2>3, AmountsOf
<1>3. a \in Nat \/ Negative(a) BY DEF Negative
<1>4. QED BY <1>1, <1>2, <1>3

LEMMA MoreMinutes ==
    ASSUME NEW t, Complete(t), NEW m \in Nat, Pays(t, m)
    PROVE  Pays(t, m + 1) /\ TotalOf(t, m + 1) >= TotalOf(t, m)
<1>1. PICK a \in Int, b \in Int : a = Base(t, m) /\ b = Base(t, m + 1) /\ a <= b
  BY BaseMonotone
<1>2. a \in Nat BY <1>1, RefusedNegative
<1>3. b \in Nat
  <2>1. a <= b BY <1>1
  <2>2. QED BY <1>2, <2>1
<1>4. Total(t, a) \in Nat /\ Total(t, b) \in Nat /\ Total(t, a) <= Total(t, b)
  <2>1. a <= b BY <1>1
  <2>2. QED BY <1>2, <1>3, <2>1, TotalMonotone
<1>5. /\ TotalOf(t, m) = Total(t, a) /\ TotalOf(t, m + 1) = Total(t, b)
      /\ Pays(t, m + 1)
  BY <1>1, <1>2, <1>3, RefusedNegative
<1>6. QED BY <1>4, <1>5

LEMMA TotalRounded ==
    ASSUME NEW t, Complete(t), NEW a \in Nat
    PROVE  WithinAYen(Total(t, a), a, t)
<1> DEFINE p == a * t.tax
           q == a * t.withholding
<1>1. t.tax \in Nat /\ t.withholding \in Nat
  <2>1. t.tax \in Shares /\ t.withholding \in Shares BY DEF Complete
  <2>2. \A rate \in Shares : rate \in Nat BY DEF Shares
  <2>3. QED BY <2>1, <2>2
<1>2. p \in Int /\ q \in Int BY <1>1
<1>3. a * (10000 + t.tax - t.withholding) = a * 10000 + p - q BY <1>1
<1>4. Total(t, a) = a + p \div 10000 - q \div 10000
  BY DEF Total, Withholding, PerCent
<1> HIDE DEF p, q
<1>5. ASSUME NEW x \in Int, NEW y \in Int
      PROVE  /\ (a + x \div 10000 - y \div 10000) * 10000 - (a * 10000 + x - y) < 10000
             /\ (a * 10000 + x - y) - (a + x \div 10000 - y \div 10000) * 10000 < 10000
  OBVIOUS
<1>6. QED BY <1>2, <1>3, <1>4, <1>5 DEF WithinAYen

LEMMA RoundedOnce ==
    ASSUME NEW t, Complete(t), NEW m, m \in Nat
    PROVE  IF Pays(t, m) THEN WithinAYen(TotalOf(t, m), BaseOf(t, m), t)
                         ELSE Negative(Base(t, m))
<1>1. PICK a \in Int : a = Base(t, m) BY BaseMonotone
<1>2. CASE Negative(a) BY <1>1, <1>2, RefusedNegative
<1>3. CASE a \in Nat
  <2>1. Pays(t, m) /\ BaseOf(t, m) = a /\ TotalOf(t, m) = Total(t, a)
    BY <1>1, <1>3, RefusedNegative
  <2>2. QED BY <1>3, <2>1, TotalRounded
<1>4. QED BY <1>1, <1>2, <1>3, RefusedNegative

(***************************************************************************)
(* The calls.                                                              *)
(***************************************************************************)
SettledTerms ==
    call.of = "settlement" => call.minutes \in Nat /\ Complete(call.terms)

LEMMA SettledTermsInit == CallsInit => SettledTerms
  BY DEF CallsInit, Idle, SettledTerms

LEMMA SettledTermsNext ==
    ASSUME SettledTerms, [CallsNext]_<<call, loop>>
    PROVE  SettledTerms'
<1>1. CASE UNCHANGED <<call, loop>> BY <1>1 DEF SettledTerms
<1>2. CASE WriteRecord \/ Calculate
  <2>1. call'.of = "record" BY <1>2 DEF WriteRecord, Calculate
  <2>2. QED BY <2>1 DEF SettledTerms
<1>3. CASE Settle
  <2>1. PICK type \in ContractTypes, c \in Conditions, tax \in Rates,
             withholding \in Rates, m \in Minutes :
          /\ ValidConditions(type, c)
          /\ call' = [of |-> "settlement", minutes |-> m,
                      terms |-> Terms(type, c, tax, withholding)]
    BY <1>3 DEF Settle
  <2>2. Complete(Terms(type, c, tax, withholding)) BY <2>1, SavedIsComplete
  <2>3. m \in Nat BY CalculationAssumption DEF InputRanges
  <2>4. call'.minutes = m /\ call'.terms = Terms(type, c, tax, withholding)
    BY <2>1
  <2>5. QED BY <2>2, <2>3, <2>4 DEF SettledTerms
<1>4. CASE Return BY <1>4 DEF Return, Idle, SettledTerms
<1>5. QED BY <1>1, <1>2, <1>3, <1>4 DEF CallsNext

LEMMA NeverIncomplete ==
    ASSUME NEW t, Complete(t), NEW m
    PROVE  CalculateAmounts(t, m).refused # "INVALID_CONTRACT_CONFIGURATION"
<1>1. Used(t.type) \subseteq Given(t) BY DEF Complete
<1>2. QED BY <1>1 DEF CalculateAmounts

\* ContractService and calculate_amounts: what the validation of a contract lets
\* through, the calculation can use.
THEOREM SavedContractsCanBeSettled == CallsSpec => []SavedContractsAreComplete
<1>1. SettledTerms => SavedContractsAreComplete
  BY NeverIncomplete DEF SettledTerms, SavedContractsAreComplete
<1>2. QED BY <1>1, SettledTermsInit, SettledTermsNext, PTL DEF CallsSpec

\* calculate_amounts: a minute more never costs the contractor anything, whatever
\* the type, the rates and the rounding of each amount.
THEOREM MinutesNeverCost == CallsSpec => []MoreMinutesNeverPayLess
<1>1. SettledTerms => MoreMinutesNeverPayLess
  BY MoreMinutes DEF SettledTerms, MoreMinutesNeverPayLess, Pays, TotalOf
<1>2. QED BY <1>1, SettledTermsInit, SettledTermsNext, PTL DEF CallsSpec

\* calculate_amounts: the floors of tax and withholding move the total by less
\* than a yen, and never below zero.
THEOREM TotalRoundedOnce == CallsSpec => []TotalExactToTheYen
<1>1. SettledTerms => TotalExactToTheYen
  BY RoundedOnce, Zenon
     DEF SettledTerms, TotalExactToTheYen, Pays, BaseOf, TotalOf, Negative
<1>2. QED BY <1>1, SettledTermsInit, SettledTermsNext, PTL DEF CallsSpec

(***************************************************************************)
(* Sets of minutes and of seconds.                                         *)
(***************************************************************************)
LEMMA FunctionIsSeq ==
    ASSUME NEW S, NEW m \in Nat, NEW f \in [1..m -> S]
    PROVE  Len(f) = m /\ DOMAIN f = 1..m
  OBVIOUS

LEMMA IntervalSize ==
    ASSUME NEW a \in Int, NEW b \in Int, a <= b + 1
    PROVE  IsFiniteSet(a..b) /\ Cardinality(a..b) = b - a + 1
<1>1. IsFiniteSet(a..b) /\ Cardinality(a..b) = IF a > b THEN 0 ELSE b - a + 1
  BY FS_Interval, Zenon
<1>2. QED BY <1>1

LEMMA WorkFields ==
    ASSUME NEW w \in Works
    PROVE  /\ w.start \in Nat /\ w.end \in Nat
           /\ Len(w.breaks) \in Nat /\ DOMAIN w.breaks = 1..Len(w.breaks)
           /\ \A i \in 1..Len(w.breaks) :
                 w.breaks[i].start \in Nat /\ w.breaks[i].end \in Nat
           /\ w.billable \in BOOLEAN /\ w.rule \in Rules \cup {NoRule}
<1>1. Instants \subseteq Nat /\ MaxBreaks \in Nat
  BY CalculationAssumption DEF InputRanges
<1>2. /\ w.start \in Instants /\ w.end \in Instants
      /\ w.billable \in BOOLEAN /\ w.rule \in Rules \cup {NoRule}
      /\ w.breaks \in SeqOf([start : Instants, end : Instants], MaxBreaks)
  BY DEF Works
<1>3. PICK m \in 0..MaxBreaks : w.breaks \in [1..m -> [start : Instants, end : Instants]]
  BY <1>2 DEF SeqOf
<1>4. m \in Nat BY <1>1, <1>3
<1>5. Len(w.breaks) = m /\ DOMAIN w.breaks = 1..m
  BY <1>3, <1>4, FunctionIsSeq, Zenon
<1>6. QED BY <1>1, <1>2, <1>3, <1>4, <1>5

\* The order of the loop: every break once, none after one that starts later.
LEMMA OrderOfBreaks ==
    ASSUME NEW w \in Works, NEW o \in ByStart(w.breaks)
    PROVE  /\ o \in [1..Len(w.breaks) -> 1..Len(w.breaks)]
           /\ \A i, j \in 1..Len(w.breaks) : i # j => o[i] # o[j]
           /\ \A x \in 1..Len(w.breaks) : \E j \in 1..Len(w.breaks) : o[j] = x
           /\ \A i, j \in 1..Len(w.breaks) :
                 i < j => w.breaks[o[i]].start <= w.breaks[o[j]].start
<1>1. DOMAIN w.breaks = 1..Len(w.breaks) BY WorkFields
<1>2. /\ o \in Bijection(1..Len(w.breaks), 1..Len(w.breaks))
      /\ \A i, j \in 1..Len(w.breaks) : i < j => Before(w.breaks, o[i], o[j])
  BY <1>1 DEF ByStart
<1>3. /\ o \in [1..Len(w.breaks) -> 1..Len(w.breaks)]
      /\ \A i, j \in 1..Len(w.breaks) : i # j => o[i] # o[j]
      /\ \A x \in 1..Len(w.breaks) : \E j \in 1..Len(w.breaks) : o[j] = x
  BY <1>2 DEF Bijection, Injection, Surjection, IsInjective
<1>4. ASSUME NEW i \in 1..Len(w.breaks), NEW j \in 1..Len(w.breaks), i < j
      PROVE  w.breaks[o[i]].start <= w.breaks[o[j]].start
  <2>1. Before(w.breaks, o[i], o[j]) BY <1>2, <1>4
  <2>2. w.breaks[o[i]].start \in Nat /\ w.breaks[o[j]].start \in Nat
    BY <1>3, WorkFields
  <2>3. QED BY <2>1, <2>2 DEF Before
<1>5. QED BY <1>3, <1>4

LEMMA MinutesOfOneMore ==
    ASSUME NEW b, NEW I, NEW i, i \notin I, IsFiniteSet(BreakMinutes(b, I)),
           b[i].start \in Nat, b[i].end \in Nat, b[i].start < b[i].end
    PROVE  /\ IsFiniteSet(BreakMinutes(b, I \cup {i}))
           /\ Cardinality(BreakMinutes(b, I)) \in Nat
           /\ (b[i].end - b[i].start) \div 60 \in Nat
           /\ Cardinality(BreakMinutes(b, I \cup {i}))
                = Cardinality(BreakMinutes(b, I)) + (b[i].end - b[i].start) \div 60
<1> DEFINE d == (b[i].end - b[i].start) \div 60
           mine == {i} \X WholeMinutes(b, i)
<1>1. d \in Nat OBVIOUS
<1>2. IsFiniteSet(1..d) /\ Cardinality(1..d) = d
  <2> HIDE DEF d
  <2>1. 1 \in Int /\ d \in Int /\ 1 <= d + 1 /\ d - 1 + 1 = d BY <1>1
  <2>2. QED BY <2>1, IntervalSize
<1>3. IsFiniteSet(WholeMinutes(b, i)) /\ Cardinality(WholeMinutes(b, i)) = d
  BY <1>2 DEF WholeMinutes
<1>4. IsFiniteSet({i}) /\ Cardinality({i}) = 1 BY FS_Singleton
<1>5. IsFiniteSet(mine) /\ Cardinality(mine) = d
  <2>1. IsFiniteSet(mine) /\ Cardinality(mine) = 1 * d
    <3> HIDE DEF d
    <3>1. QED BY <1>3, <1>4, FS_Product
  <2> HIDE DEF d
  <2>2. QED BY <2>1, <1>1
<1>6. BreakMinutes(b, I \cup {i}) = BreakMinutes(b, I) \cup mine
  BY DEF BreakMinutes
<1>7. BreakMinutes(b, I) \cap mine = {}
  BY DEF BreakMinutes
<1>8. Cardinality(BreakMinutes(b, I)) \in Nat BY FS_CardinalityType
<1> HIDE DEF d, mine
<1>9. IsFiniteSet(BreakMinutes(b, I) \cup mine)
      /\ Cardinality(BreakMinutes(b, I) \cup mine)
           = Cardinality(BreakMinutes(b, I)) + Cardinality(mine)
               - Cardinality(BreakMinutes(b, I) \cap mine)
  BY <1>5, FS_Union, Zenon
<1>10. Cardinality(BreakMinutes(b, I) \cap mine) = 0 BY <1>7, FS_EmptySet
<1>11. /\ IsFiniteSet(BreakMinutes(b, I \cup {i}))
       /\ Cardinality(BreakMinutes(b, I \cup {i})) = Cardinality(BreakMinutes(b, I)) + d
  <2>1. Cardinality(BreakMinutes(b, I) \cup mine) = Cardinality(BreakMinutes(b, I)) + d
    BY <1>1, <1>5, <1>8, <1>9, <1>10
  <2>2. QED BY <1>6, <1>9, <2>1, Zenon
<1>12. QED BY <1>1, <1>8, <1>11 DEF d

LEMMA SecondsOfOneMore ==
    ASSUME NEW w, NEW I, NEW i, w.start \in Nat, w.end \in Nat,
           w.breaks[i].start \in Nat, w.breaks[i].end \in Nat, BreakInside(w, i),
           \A x \in I : /\ w.breaks[x].start \in Nat /\ w.breaks[x].end \in Nat
                        /\ w.breaks[x].end <= w.breaks[i].start
    PROVE  LET seconds == Cardinality(WorkedSeconds(w, I)) IN
           /\ seconds \in Nat
           /\ Cardinality(WorkedSeconds(w, I \cup {i})) \in Nat
           /\ Cardinality(WorkedSeconds(w, I \cup {i}))
                = seconds - (w.breaks[i].end - w.breaks[i].start)
<1> DEFINE mine == w.breaks[i].start..(w.breaks[i].end - 1)
<1>1. IsFiniteSet(w.start..(w.end - 1))
  <2>1. w.start \in Int /\ w.end - 1 \in Int OBVIOUS
  <2>2. QED BY <2>1, FS_Interval
<1>2. IsFiniteSet(WorkedSeconds(w, I)) /\ IsFiniteSet(WorkedSeconds(w, I \cup {i}))
  BY <1>1, FS_Subset DEF WorkedSeconds
<1>3. /\ Cardinality(WorkedSeconds(w, I)) \in Nat
      /\ Cardinality(WorkedSeconds(w, I \cup {i})) \in Nat
  BY <1>2, FS_CardinalityType
<1>4. Cardinality(mine) = w.breaks[i].end - w.breaks[i].start
  <2>1. /\ w.breaks[i].start \in Int /\ w.breaks[i].end - 1 \in Int
        /\ ~(w.breaks[i].start > w.breaks[i].end - 1)
    BY DEF BreakInside
  <2>2. Cardinality(mine) = w.breaks[i].end - 1 - w.breaks[i].start + 1
    BY <2>1, FS_Interval
  <2>3. QED BY <2>2
<1>5. mine \subseteq WorkedSeconds(w, I)
  BY DEF WorkedSeconds, BreakInside
<1>6. WorkedSeconds(w, I \cup {i}) = WorkedSeconds(w, I) \ mine
  BY DEF WorkedSeconds
<1>7. WorkedSeconds(w, I) \cap mine = mine BY <1>5
<1> HIDE DEF mine
<1>8. Cardinality(WorkedSeconds(w, I) \ mine)
        = Cardinality(WorkedSeconds(w, I)) - Cardinality(mine)
  BY <1>2, <1>7, FS_Difference
<1>9. QED BY <1>3, <1>4, <1>6, <1>8

(***************************************************************************)
(* The loop.                                                               *)
(***************************************************************************)
\* The breaks of the turns before the n-th.
Done(o, n) == {o[j] : j \in 1..(n - 1)}

SecondsLeft(w, I) == Cardinality(WorkedSeconds(w, I))
MinutesLeft(w, k) == (w.end - w.start) \div 60 - k

\* order o, turn n, k minutes taken: the breaks so far are inside the record, lie
\* one after the other, and are counted.
Loop(w, o, n, k) ==
    /\ w.start < w.end
    /\ o \in ByStart(w.breaks)
    /\ n \in 1..(Len(w.breaks) + 1)
    /\ \A j \in 1..(n - 1) : BreakInside(w, o[j])
    /\ \A i, j \in 1..(n - 1) : i < j => w.breaks[o[i]].end <= w.breaks[o[j]].start
    /\ IsFiniteSet(BreakMinutes(w.breaks, Done(o, n)))
    /\ k \in Nat /\ k = Cardinality(BreakMinutes(w.breaks, Done(o, n)))
    /\ SecondsLeft(w, Done(o, n)) \in Nat
    /\ SecondsLeft(w, Done(o, n)) \div 60 <= MinutesLeft(w, k)
    /\ MinutesLeft(w, k) <= SecondsLeft(w, Done(o, n)) \div 60 + (n - 1)

LEMMA NoneDone ==
    ASSUME NEW w \in Works, NEW o \in ByStart(w.breaks), w.start < w.end
    PROVE  Loop(w, o, 1, 0)
<1>1. w.start \in Nat /\ w.end \in Nat /\ Len(w.breaks) \in Nat BY WorkFields
<1>2. 1..(1 - 1) = {} OBVIOUS
<1>3. Done(o, 1) = {} BY <1>2 DEF Done
<1>4. BreakMinutes(w.breaks, {}) = {} BY DEF BreakMinutes
<1>5. IsFiniteSet({}) /\ Cardinality({}) = 0 BY FS_EmptySet
<1>6. WorkedSeconds(w, {}) = w.start..(w.end - 1) BY DEF WorkedSeconds
<1>7. SecondsLeft(w, {}) = w.end - w.start
  <2>1. /\ w.start \in Int /\ w.end - 1 \in Int /\ w.start <= w.end - 1 + 1
        /\ w.end - 1 - w.start + 1 = w.end - w.start
    BY <1>1
  <2>2. Cardinality(w.start..(w.end - 1)) = w.end - 1 - w.start + 1
    BY <2>1, IntervalSize
  <2>3. QED BY <1>6, <2>1, <2>2 DEF SecondsLeft
<1>8. /\ SecondsLeft(w, {}) \in Nat
      /\ SecondsLeft(w, {}) \div 60 <= MinutesLeft(w, 0)
      /\ MinutesLeft(w, 0) <= SecondsLeft(w, {}) \div 60 + (1 - 1)
  BY <1>1, <1>7 DEF MinutesLeft
<1>9. 1 \in 1..(Len(w.breaks) + 1) /\ 0 \in Nat BY <1>1
<1>10. QED BY <1>2, <1>3, <1>4, <1>5, <1>8, <1>9 DEF Loop

\* A floor of a difference, and the difference of the floors.
LEMMA FloorOfDifference ==
    ASSUME NEW s \in Nat, NEW d \in Nat, NEW g \in Int, NEW n \in Nat,
           s \div 60 <= g, g <= s \div 60 + n, d <= s
    PROVE  /\ (s - d) \div 60 <= g - d \div 60
           /\ g - d \div 60 <= (s - d) \div 60 + n + 1
  OBVIOUS

LEMMA OneMoreDone ==
    ASSUME NEW w \in Works, NEW o, NEW n, NEW k, Loop(w, o, n, k),
           n \in 1..Len(w.breaks), BreakInside(w, o[n]),
           n > 1 => w.breaks[o[n - 1]].end <= w.breaks[o[n]].start
    PROVE  Loop(w, o, n + 1, k + MinutesBetween(w.breaks[o[n]].start, w.breaks[o[n]].end))
<1> DEFINE b == w.breaks
           i == o[n]
           I == Done(o, n)
           m == (b[i].end - b[i].start) \div 60
<1>1. /\ w.start \in Nat /\ w.end \in Nat /\ Len(b) \in Nat
      /\ \A x \in 1..Len(b) : b[x].start \in Nat /\ b[x].end \in Nat
  BY WorkFields
<1>2. /\ o \in ByStart(b) /\ w.start < w.end /\ n \in Nat /\ k \in Nat
      /\ o \in [1..Len(b) -> 1..Len(b)]
      /\ \A x, y \in 1..Len(b) : x # y => o[x] # o[y]
  <2>1. o \in ByStart(b) /\ w.start < w.end /\ k \in Nat BY DEF Loop
  <2>2. /\ o \in [1..Len(b) -> 1..Len(b)]
        /\ \A x, y \in 1..Len(b) : x # y => o[x] # o[y]
    BY <2>1, OrderOfBreaks
  <2>3. QED BY <1>1, <2>1, <2>2
<1>3. \A j \in 1..(n - 1) : j \in 1..Len(b) /\ o[j] # i /\ o[j] \in 1..Len(b)
  <2>1. SUFFICES ASSUME NEW j \in 1..(n - 1)
                 PROVE  j \in 1..Len(b) /\ o[j] # i /\ o[j] \in 1..Len(b)
    OBVIOUS
  <2>2. j \in 1..Len(b) /\ j # n BY <1>1, <1>2
  <2> HIDE DEF b
  <2>3. o[j] \in 1..Len(b) BY <1>2, <2>2
  <2>4. o[j] # o[n] BY <1>2, <2>2 DEF b
  <2>5. QED BY <2>2, <2>3, <2>4
<1>4. i \in 1..Len(b) /\ i \notin I BY <1>2, <1>3 DEF Done
<1>5. Done(o, n + 1) = I \cup {i}
  <2>1. 1..(n + 1 - 1) = 1..(n - 1) \cup {n} BY <1>2
  <2>2. QED BY <2>1 DEF Done
<1>6. \A j \in 1..(n - 1) : b[o[j]].end <= b[i].start
  <2>1. SUFFICES ASSUME NEW j \in 1..(n - 1) PROVE b[o[j]].end <= b[i].start
    OBVIOUS
  <2>2. n - 1 \in 1..(n - 1) /\ n > 1 BY <1>2
  <2>3. b[o[n - 1]].end <= b[i].start BY <2>2
  <2>4. CASE j = n - 1 BY <2>3, <2>4
  <2>5. CASE j < n - 1
    <3>1. b[o[j]].end <= b[o[n - 1]].start BY <2>2, <2>5 DEF Loop
    <3>2. b[o[n - 1]].start < b[o[n - 1]].end BY <2>2 DEF Loop, BreakInside
    <3>3. o[j] \in 1..Len(b) /\ o[n - 1] \in 1..Len(b) BY <1>3, <2>2
    <3>4. \A e, f, g, h \in Nat : e <= f /\ f < g /\ g <= h => e <= h OBVIOUS
    <3>5. /\ b[o[j]].end \in Nat /\ b[o[n - 1]].start \in Nat
          /\ b[o[n - 1]].end \in Nat /\ b[i].start \in Nat
      BY <1>1, <1>4, <3>3
    <3>6. QED BY <2>3, <3>1, <3>2, <3>4, <3>5
  <2>6. QED BY <1>2, <2>4, <2>5
<1>7. \A x \in I : /\ b[x].start \in Nat /\ b[x].end \in Nat
                   /\ b[x].end <= b[i].start
  BY <1>1, <1>3, <1>6 DEF Done
<1>8. b[i].start \in Nat /\ b[i].end \in Nat /\ b[i].start < b[i].end
  BY <1>1, <1>4 DEF BreakInside
<1>9. IsFiniteSet(BreakMinutes(b, I)) /\ k = Cardinality(BreakMinutes(b, I))
  BY DEF Loop
<1>10. /\ IsFiniteSet(BreakMinutes(b, I \cup {i}))
       /\ m \in Nat
       /\ Cardinality(BreakMinutes(b, I \cup {i})) = k + m
  BY <1>4, <1>8, <1>9, MinutesOfOneMore
<1>11. /\ SecondsLeft(w, I) \in Nat
       /\ SecondsLeft(w, I \cup {i}) \in Nat
       /\ SecondsLeft(w, I \cup {i}) = SecondsLeft(w, I) - (b[i].end - b[i].start)
  BY <1>1, <1>7, <1>8, SecondsOfOneMore DEF SecondsLeft
<1>12. /\ SecondsLeft(w, I \cup {i}) \div 60 <= MinutesLeft(w, k + m)
       /\ MinutesLeft(w, k + m) <= SecondsLeft(w, I \cup {i}) \div 60 + (n + 1 - 1)
  <2>1. PICK s \in Nat, d \in Nat, g \in Int, r \in Nat :
          /\ s = SecondsLeft(w, I) /\ d = b[i].end - b[i].start
          /\ g = MinutesLeft(w, k) /\ r = n - 1
    <3>1. MinutesLeft(w, k) \in Int BY <1>1, <1>2 DEF MinutesLeft
    <3>2. b[i].end - b[i].start \in Nat BY <1>8
    <3>3. n - 1 \in Nat BY <1>2
    <3>4. QED BY <1>11, <3>1, <3>2, <3>3
  <2>2. s \div 60 <= g /\ g <= s \div 60 + r BY <2>1 DEF Loop
  <2>3. d <= s BY <1>8, <1>11, <2>1
  <2>4. /\ (s - d) \div 60 <= g - d \div 60
        /\ g - d \div 60 <= (s - d) \div 60 + r + 1
    BY <2>2, <2>3, FloorOfDifference
  <2>5. MinutesLeft(w, k + m) = g - d \div 60
    <3>1. \A x, y, z \in Int : x - (y + z) = (x - y) - z OBVIOUS
    <3>2. (w.end - w.start) \div 60 \in Int BY <1>1
    <3>3. m = d \div 60 BY <2>1
    <3> HIDE DEF m
    <3>4. QED BY <1>2, <1>10, <2>1, <3>1, <3>2, <3>3 DEF MinutesLeft
  <2>6. SecondsLeft(w, I \cup {i}) = s - d BY <1>11, <2>1
  <2>7. r + 1 = n + 1 - 1 BY <1>2, <2>1
  <2>8. (s - d) \div 60 + r + 1 = (s - d) \div 60 + (n + 1 - 1)
    BY <2>7, <1>2
  <2>9. QED BY <2>4, <2>5, <2>6, <2>8
<1>13. n + 1 \in 1..(Len(b) + 1) BY <1>1, <1>2
<1>14. \A j \in 1..(n + 1 - 1) : BreakInside(w, o[j])
  BY <1>2 DEF Loop
<1>15. \A x, y \in 1..(n + 1 - 1) : x < y => b[o[x]].end <= b[o[y]].start
  BY <1>2, <1>6 DEF Loop
<1>16. MinutesBetween(b[i].start, b[i].end) = m BY DEF MinutesBetween
<1>17. k + m \in Nat BY <1>2, <1>10
<1>18. /\ IsFiniteSet(BreakMinutes(b, Done(o, n + 1)))
       /\ k + m = Cardinality(BreakMinutes(b, Done(o, n + 1)))
  BY <1>5, <1>10
<1>19. /\ SecondsLeft(w, Done(o, n + 1)) \in Nat
       /\ SecondsLeft(w, Done(o, n + 1)) \div 60 <= MinutesLeft(w, k + m)
       /\ MinutesLeft(w, k + m) <= SecondsLeft(w, Done(o, n + 1)) \div 60 + (n + 1 - 1)
  BY <1>5, <1>11, <1>12
<1> HIDE DEF I, m
<1>20. Loop(w, o, n + 1, k + m)
  BY <1>2, <1>13, <1>14, <1>15, <1>17, <1>18, <1>19 DEF Loop
<1>21. QED BY <1>16, <1>20

LEMMA LoopEnds ==
    ASSUME NEW w \in Works, NEW o, NEW n, NEW k, Loop(w, o, n, k),
           n \notin DOMAIN w.breaks
    PROVE  /\ MinutesLeft(w, k) \in Int
           /\ MinutesLeft(w, k) > 0 <=> Acceptable(w)
           /\ SecondsLeft(w, DOMAIN w.breaks) \in Nat
           /\ SecondsLeft(w, DOMAIN w.breaks) \div 60 <= MinutesLeft(w, k)
           /\ MinutesLeft(w, k)
                <= SecondsLeft(w, DOMAIN w.breaks) \div 60 + Len(w.breaks)
<1>1. /\ w.start \in Nat /\ w.end \in Nat /\ Len(w.breaks) \in Nat
      /\ DOMAIN w.breaks = 1..Len(w.breaks)
  BY WorkFields
<1>2. /\ n \in 1..(Len(w.breaks) + 1) /\ o \in ByStart(w.breaks) /\ k \in Nat
      /\ w.start < w.end
  BY DEF Loop
<1>3. n = Len(w.breaks) + 1 /\ n - 1 = Len(w.breaks) BY <1>1, <1>2
<1>4. /\ o \in [1..Len(w.breaks) -> 1..Len(w.breaks)]
      /\ \A x \in 1..Len(w.breaks) : \E j \in 1..Len(w.breaks) : o[j] = x
  BY <1>2, OrderOfBreaks
<1>5. Done(o, n) = DOMAIN w.breaks BY <1>1, <1>3, <1>4 DEF Done
<1>6. MinutesLeft(w, k) \in Int BY <1>1, <1>2 DEF MinutesLeft
<1>7. \A i \in DOMAIN w.breaks : BreakInside(w, i)
  <2>1. SUFFICES ASSUME NEW i \in DOMAIN w.breaks PROVE BreakInside(w, i) OBVIOUS
  <2>2. PICK j \in 1..(n - 1) : o[j] = i BY <1>1, <1>3, <1>4
  <2>3. QED BY <2>2 DEF Loop
<1>8. \A i, j \in DOMAIN w.breaks : i # j => BreaksApart(w.breaks, i, j)
  <2>1. SUFFICES ASSUME NEW i \in DOMAIN w.breaks, NEW j \in DOMAIN w.breaks, i # j
                 PROVE  BreaksApart(w.breaks, i, j)
    OBVIOUS
  <2>2. PICK x \in 1..(n - 1) : o[x] = i BY <1>1, <1>3, <1>4
  <2>3. PICK y \in 1..(n - 1) : o[y] = j BY <1>1, <1>3, <1>4
  <2>4. x < y \/ y < x BY <1>1, <1>3, <2>1, <2>2, <2>3
  <2>5. QED BY <2>2, <2>3, <2>4 DEF Loop, BreaksApart
<1>9. k = Cardinality(BreakMinutes(w.breaks, DOMAIN w.breaks)) BY <1>5 DEF Loop
<1>10. MinutesLeft(w, k) > 0
         <=> (w.end - w.start) \div 60 > Cardinality(BreakMinutes(w.breaks, DOMAIN w.breaks))
  <2>1. \A g \in Int, t \in Nat : g - t > 0 <=> g > t OBVIOUS
  <2>2. (w.end - w.start) \div 60 \in Int BY <1>1
  <2>3. QED BY <1>2, <1>9, <2>1, <2>2 DEF MinutesLeft
<1>11. MinutesLeft(w, k) > 0 <=> Acceptable(w)
  BY <1>2, <1>7, <1>8, <1>10 DEF Acceptable
<1>12. /\ SecondsLeft(w, DOMAIN w.breaks) \in Nat
       /\ SecondsLeft(w, DOMAIN w.breaks) \div 60 <= MinutesLeft(w, k)
       /\ MinutesLeft(w, k)
            <= SecondsLeft(w, DOMAIN w.breaks) \div 60 + Len(w.breaks)
  BY <1>3, <1>5 DEF Loop
<1>13. QED BY <1>6, <1>11, <1>12

\* What the loop refuses is not acceptable in any order. A break that starts
\* before the one before it in the order has ended overlaps it: the order is by
\* start.
LEMMA RefusalJustified ==
    ASSUME NEW w \in Works, NEW o, NEW n, NEW k, Loop(w, o, n, k),
           n \in 1..Len(w.breaks),
           \/ ~BreakInside(w, o[n])
           \/ n > 1 /\ w.breaks[o[n]].start < w.breaks[o[n - 1]].end
    PROVE  ~Acceptable(w)
<1>1. /\ Len(w.breaks) \in Nat /\ DOMAIN w.breaks = 1..Len(w.breaks)
      /\ \A x \in 1..Len(w.breaks) :
            w.breaks[x].start \in Nat /\ w.breaks[x].end \in Nat
  BY WorkFields
<1>2. o \in ByStart(w.breaks) BY DEF Loop
<1>3. /\ o \in [1..Len(w.breaks) -> 1..Len(w.breaks)]
      /\ \A i, j \in 1..Len(w.breaks) : i # j => o[i] # o[j]
      /\ \A i, j \in 1..Len(w.breaks) :
            i < j => w.breaks[o[i]].start <= w.breaks[o[j]].start
  BY <1>2, OrderOfBreaks
<1>4. o[n] \in DOMAIN w.breaks BY <1>1, <1>3
<1>5. CASE ~BreakInside(w, o[n]) BY <1>4, <1>5 DEF Acceptable
<1>6. CASE /\ BreakInside(w, o[n])
           /\ n > 1 /\ w.breaks[o[n]].start < w.breaks[o[n - 1]].end
  <2>1. n - 1 \in 1..Len(w.breaks) /\ n - 1 < n BY <1>1, <1>6
  <2>2. /\ o[n - 1] \in DOMAIN w.breaks /\ o[n - 1] # o[n]
        /\ w.breaks[o[n - 1]].start <= w.breaks[o[n]].start
    BY <1>1, <1>3, <2>1
  <2>3. PICK i \in DOMAIN w.breaks, j \in DOMAIN w.breaks : i = o[n - 1] /\ j = o[n]
    BY <1>4, <2>2
  <2>4. /\ w.breaks[i].start <= w.breaks[j].start
        /\ w.breaks[j].start < w.breaks[i].end
        /\ w.breaks[j].start < w.breaks[j].end /\ i # j
    BY <1>6, <2>2, <2>3 DEF BreakInside
  <2>5. ~BreaksApart(w.breaks, i, j)
    <3>1. \A p, q, r, s \in Nat : p <= r /\ r < q /\ r < s => ~(q <= r) /\ ~(s <= p)
      OBVIOUS
    <3>2. /\ w.breaks[i].start \in Nat /\ w.breaks[i].end \in Nat
          /\ w.breaks[j].start \in Nat /\ w.breaks[j].end \in Nat
      BY <1>1
    <3>3. QED BY <2>4, <3>1, <3>2 DEF BreaksApart
  <2>6. QED BY <2>4, <2>5 DEF Acceptable
<1>7. QED BY <1>5, <1>6

(***************************************************************************)
(* round_minutes.                                                          *)
(***************************************************************************)
LEMMA RoundedDown ==
    ASSUME NEW a \in Nat, NEW unit \in {1, 5, 10, 15, 30, 60}, NEW u \in Int,
           u = a \div unit
    PROVE  /\ (u * unit) % unit = 0
           /\ -unit < u * unit - a /\ u * unit - a <= 0
  OBVIOUS

LEMMA RoundedUp ==
    ASSUME NEW a \in Nat, NEW unit \in {1, 5, 10, 15, 30, 60}, NEW u \in Int,
           u = (a + unit - 1) \div unit
    PROVE  /\ (u * unit) % unit = 0
           /\ 0 <= u * unit - a /\ u * unit - a < unit
  OBVIOUS

LEMMA RoundedHalfUp ==
    ASSUME NEW a \in Nat, NEW unit \in {1, 5, 10, 15, 30, 60}, NEW u \in Int,
           u = (2 * a + unit) \div (2 * unit)
    PROVE  /\ (u * unit) % unit = 0
           /\ -unit < 2 * (u * unit - a) /\ 2 * (u * unit - a) <= unit
  OBVIOUS

LEMMA RoundsToUnits ==
    ASSUME NEW a \in Nat, NEW rule \in Rules, rule # NoRule
    PROVE  RoundedTo(RoundMinutes(a, rule), a, rule)
<1>1. /\ rule.unit \in {1, 5, 10, 15, 30, 60}
      /\ rule.method \in {"ROUND_DOWN", "ROUND_UP", "ROUND_HALF_UP"}
  BY CalculationAssumption DEF InputRanges
<1>2. PICK unit \in {1, 5, 10, 15, 30, 60} : unit = rule.unit BY <1>1
<1>3. RoundMinutes(a, rule) = Units(a, rule) * unit BY <1>2 DEF RoundMinutes
<1>4. CASE rule.method = "ROUND_DOWN"
  <2>1. PICK u \in Int : u = a \div unit OBVIOUS
  <2>2. Units(a, rule) = u BY <1>2, <1>4, <2>1 DEF Units
  <2>3. /\ (u * unit) % unit = 0
        /\ -unit < u * unit - a /\ u * unit - a <= 0
    BY <2>1, RoundedDown
  <2>4. QED BY <1>2, <1>3, <1>4, <2>2, <2>3 DEF RoundedTo
<1>5. CASE rule.method = "ROUND_UP"
  <2>1. PICK u \in Int : u = (a + unit - 1) \div unit OBVIOUS
  <2>2. Units(a, rule) = u BY <1>2, <1>5, <2>1 DEF Units
  <2>3. /\ (u * unit) % unit = 0
        /\ 0 <= u * unit - a /\ u * unit - a < unit
    BY <2>1, RoundedUp
  <2>4. QED BY <1>2, <1>3, <1>5, <2>2, <2>3 DEF RoundedTo
<1>6. CASE rule.method = "ROUND_HALF_UP"
  <2>1. PICK u \in Int : u = (2 * a + unit) \div (2 * unit) OBVIOUS
  <2>2. Units(a, rule) = u BY <1>2, <1>6, <2>1 DEF Units
  <2>3. /\ (u * unit) % unit = 0
        /\ -unit < 2 * (u * unit - a) /\ 2 * (u * unit - a) <= unit
    BY <2>1, RoundedHalfUp
  <2>4. QED BY <1>2, <1>3, <1>6, <2>2, <2>3 DEF RoundedTo
<1>7. QED BY <1>1, <1>4, <1>5, <1>6

(***************************************************************************)
(* The record being calculated.                                            *)
(***************************************************************************)
Counted(w, r) ==
    /\ r.actual \in Nat
    /\ SecondsLeft(w, DOMAIN w.breaks) \in Nat
    /\ SecondsLeft(w, DOMAIN w.breaks) \div 60 <= r.actual
    /\ r.actual <= SecondsLeft(w, DOMAIN w.breaks) \div 60 + Len(w.breaks)
    /\ w.billable => r.billable = RoundMinutes(r.actual, w.rule)

Answer(w, r) ==
    /\ r.refused = "" <=> Acceptable(w)
    /\ r.refused = "" => Counted(w, r)

CalculationInv ==
    /\ call.of # "record" => NotCalculating
    /\ call.of = "record" =>
          /\ call.work \in Works
          /\ result = NoResult => Loop(call.work, order, next, taken)
          /\ result # NoResult => Answer(call.work, result)

LEMMA RefusalIsAnswer ==
    ASSUME NEW w, ~Acceptable(w), NEW code, code \notin {"", "not yet"}
    PROVE  Refused(code) # NoResult /\ Answer(w, Refused(code))
<1>1. Refused(code).refused = code /\ NoResult.refused = "not yet"
  BY DEF Refused, NoResult
<1>2. QED BY <1>1 DEF Answer

LEMMA CalculationInvInit == CallsInit => CalculationInv
  BY DEF CallsInit, Idle, CalculationInv

LEMMA WriteRecordInv ==
    ASSUME CalculationInv, WriteRecord
    PROVE  CalculationInv'
<1>1. NotCalculating BY DEF WriteRecord, Idle, CalculationInv
<1>2. PICK w \in Works : /\ call' = [of |-> "record", work |-> w]
                         /\ RefuseTimes(w) \/ SortBreaks(w)
  BY DEF WriteRecord
<1>3. call'.of = "record" /\ call'.work = w BY <1>2
<1>4. CASE RefuseTimes(w)
  <2>1. w.start \in Nat /\ w.end \in Nat BY WorkFields
  <2>2. ~(w.start < w.end) BY <1>4, <2>1 DEF RefuseTimes
  <2>3. ~Acceptable(w) BY <2>2 DEF Acceptable
  <2>4. result' = Refused("INVALID_WORK_RECORD_TIME_RANGE") BY <1>4 DEF RefuseTimes
  <2>5. result' # NoResult /\ Answer(w, result') BY <2>3, <2>4, RefusalIsAnswer
  <2>6. QED BY <1>3, <2>5 DEF CalculationInv, NoResult
<1>5. CASE SortBreaks(w)
  <2>1. PICK o \in ByStart(w.breaks) : order' = o BY <1>5 DEF SortBreaks
  <2>2. /\ w.start < w.end /\ next' = 1 /\ taken' = 0 /\ result' = NoResult
    BY <1>1, <1>5 DEF SortBreaks, NotCalculating
  <2>3. Loop(w, o, 1, 0) BY <2>2, NoneDone
  <2>4. Loop(call'.work, order', next', taken') BY <1>3, <2>1, <2>2, <2>3
  <2>5. QED BY <1>3, <2>2, <2>4 DEF CalculationInv, NoResult
<1>6. QED BY <1>2, <1>4, <1>5

LEMMA CalculateInv ==
    ASSUME CalculationInv, Calculate
    PROVE  CalculationInv'
<1>0. PICK w \in Works : w = call.work
  BY DEF Calculate, CalculationInv
<1>1. PICK o, n, k :
        /\ w = call.work /\ o = order /\ n = next /\ k = taken
        /\ Loop(w, o, n, k)
  BY <1>0 DEF Calculate, CalculationInv
<1>2. /\ call'.of = "record" /\ call'.work = w /\ result = NoResult
      /\ TakeBreak(w) \/ RefuseBreak(w) \/ CountMinutes(w)
  BY <1>1 DEF Calculate
<1>3. /\ w.start \in Nat /\ w.end \in Nat
      /\ Len(w.breaks) \in Nat /\ DOMAIN w.breaks = 1..Len(w.breaks)
      /\ \A i \in 1..Len(w.breaks) :
            w.breaks[i].start \in Nat /\ w.breaks[i].end \in Nat
  BY WorkFields
<1>4. o \in [1..Len(w.breaks) -> 1..Len(w.breaks)]
  BY <1>1, OrderOfBreaks DEF Loop
<1>5. ASSUME n \in 1..Len(w.breaks)
      PROVE  /\ BreakFault(w) \notin {"not yet"}
             /\ BreakFault(w) = "" <=>
                  /\ BreakInside(w, o[n])
                  /\ ~(n > 1 /\ w.breaks[o[n]].start < w.breaks[o[n - 1]].end)
  <2>1. w.breaks[o[n]].start \in Nat /\ w.breaks[o[n]].end \in Nat
    BY <1>3, <1>4, <1>5
  <2>2. BreakInside(w, o[n]) <=>
           ~(\/ w.breaks[o[n]].start >= w.breaks[o[n]].end
             \/ w.breaks[o[n]].start < w.start \/ w.breaks[o[n]].end > w.end)
    BY <1>3, <2>1 DEF BreakInside
  <2>3. QED BY <1>1, <2>2 DEF BreakFault
<1>6. CASE TakeBreak(w)
  <2>1. n \in 1..Len(w.breaks) BY <1>1, <1>3, <1>6 DEF TakeBreak
  <2>2. /\ BreakInside(w, o[n])
        /\ ~(n > 1 /\ w.breaks[o[n]].start < w.breaks[o[n - 1]].end)
    BY <1>5, <1>6, <2>1 DEF TakeBreak
  <2>3. n > 1 => w.breaks[o[n - 1]].end <= w.breaks[o[n]].start
    <3>1. SUFFICES ASSUME n > 1
                   PROVE  w.breaks[o[n - 1]].end <= w.breaks[o[n]].start
      OBVIOUS
    <3>2. n - 1 \in 1..Len(w.breaks) BY <1>3, <2>1, <3>1
    <3>3. w.breaks[o[n - 1]].end \in Nat /\ w.breaks[o[n]].start \in Nat
      BY <1>3, <1>4, <2>1, <3>2
    <3>4. QED BY <2>2, <3>1, <3>3
  <2>4. Loop(w, o, n + 1, k + MinutesBetween(w.breaks[o[n]].start, w.breaks[o[n]].end))
    BY <1>1, <2>1, <2>2, <2>3, OneMoreDone
  <2>5. /\ order' = o /\ next' = n + 1 /\ result' = NoResult
        /\ taken' = k + MinutesBetween(w.breaks[o[n]].start, w.breaks[o[n]].end)
    BY <1>1, <1>2, <1>6 DEF TakeBreak
  <2>6. Loop(call'.work, order', next', taken') BY <1>2, <2>4, <2>5
  <2>7. QED BY <1>2, <2>5, <2>6 DEF CalculationInv, NoResult
<1>7. CASE RefuseBreak(w)
  <2>1. n \in 1..Len(w.breaks) BY <1>1, <1>3, <1>7 DEF RefuseBreak
  <2>2. PICK code : code = BreakFault(w) OBVIOUS
  <2>3. code \notin {"", "not yet"} /\ result' = Refused(code)
    BY <1>5, <1>7, <2>1, <2>2 DEF RefuseBreak
  <2>4. \/ ~BreakInside(w, o[n])
        \/ n > 1 /\ w.breaks[o[n]].start < w.breaks[o[n - 1]].end
    BY <1>5, <2>1, <2>2, <2>3
  <2>5. ~Acceptable(w) BY <1>1, <2>1, <2>4, RefusalJustified
  <2>6. result' # NoResult /\ Answer(w, result') BY <2>3, <2>5, RefusalIsAnswer
  <2>7. QED BY <1>2, <2>6 DEF CalculationInv, NoResult
<1>8. CASE CountMinutes(w)
  <2>1. n \notin DOMAIN w.breaks BY <1>1, <1>8 DEF CountMinutes
  <2>2. PICK left \in Int : left = MinutesLeft(w, k) BY <1>1, <2>1, LoopEnds
  <2>3. /\ left > 0 <=> Acceptable(w)
        /\ SecondsLeft(w, DOMAIN w.breaks) \in Nat
        /\ SecondsLeft(w, DOMAIN w.breaks) \div 60 <= left
        /\ left <= SecondsLeft(w, DOMAIN w.breaks) \div 60 + Len(w.breaks)
    BY <1>1, <2>1, <2>2, LoopEnds
  <2>4. left = MinutesBetween(w.start, w.end) - taken
    BY <1>1, <2>2 DEF MinutesLeft, MinutesBetween
  <2>5. CASE left <= 0
    <3>1. result' = Refused("BREAK_OUTSIDE_WORK_RECORD")
      BY <1>8, <2>4, <2>5 DEF CountMinutes
    <3>2. ~Acceptable(w) BY <2>3, <2>5
    <3>3. result' # NoResult /\ Answer(w, result') BY <3>1, <3>2, RefusalIsAnswer
    <3>4. QED BY <1>2, <3>3 DEF CalculationInv, NoResult
  <2>6. CASE ~(left <= 0)
    <3> DEFINE bill == IF w.billable THEN RoundMinutes(left, w.rule) ELSE 0
    <3> HIDE DEF bill
    <3>1. PICK r : /\ result' = r /\ r.refused = "" /\ r.actual = left
                   /\ r.billable = bill
      <4>1. PICK gross : gross = MinutesBetween(w.start, w.end) OBVIOUS
      <4>2. result' = [refused |-> "", gross |-> gross, break |-> taken,
                       actual |-> left, billable |-> bill]
        BY <1>8, <2>4, <2>6, <4>1 DEF CountMinutes, bill
      <4>3. PICK r : r = [refused |-> "", gross |-> gross, break |-> taken,
                          actual |-> left, billable |-> bill]
        OBVIOUS
      <4>4. r.refused = "" /\ r.actual = left /\ r.billable = bill BY <4>3
      <4>5. QED BY <4>2, <4>3, <4>4
    <3>2. left \in Nat /\ left > 0 BY <2>6
    <3>3. Counted(w, r) BY <2>3, <3>1, <3>2 DEF Counted, bill
    <3>4. Answer(w, r) BY <2>3, <3>1, <3>2, <3>3 DEF Answer
    <3>5. r # NoResult
      <4>1. NoResult.refused = "not yet" BY DEF NoResult
      <4>2. QED BY <3>1, <4>1
    <3>6. QED BY <1>2, <3>1, <3>4, <3>5 DEF CalculationInv
  <2>7. QED BY <2>5, <2>6
<1>9. QED BY <1>2, <1>6, <1>7, <1>8

LEMMA CalculationInvNext ==
    ASSUME CalculationInv, [CallsNext]_<<call, loop>>
    PROVE  CalculationInv'
<1>1. CASE UNCHANGED <<call, loop>>
  BY <1>1 DEF loop, CalculationInv, NotCalculating
<1>2. CASE WriteRecord BY <1>2, WriteRecordInv
<1>3. CASE Calculate BY <1>3, CalculateInv
<1>4. CASE Settle
  <2>1. call'.of = "settlement" /\ call = Idle /\ UNCHANGED loop BY <1>4 DEF Settle
  <2>2. NotCalculating' BY <2>1 DEF Idle, loop, CalculationInv, NotCalculating
  <2>3. QED BY <2>1, <2>2 DEF CalculationInv
<1>5. CASE Return
  <2>1. NotCalculating' /\ call'.of = "nothing" BY <1>5 DEF Return, Idle, NotCalculating
  <2>2. QED BY <2>1 DEF CalculationInv
<1>6. QED BY <1>1, <1>2, <1>3, <1>4, <1>5 DEF CallsNext

\* calculate_work_time: sorting by start and comparing each break with the one
\* before it accepts exactly the sets of breaks without overlaps, however many
\* they are and in whatever order they were sent.
THEOREM BreaksOrderIrrelevant == CallsSpec => []BreaksAcceptedAsASet
<1>1. CalculationInv => BreaksAcceptedAsASet
  BY DEF CalculationInv, Answer, BreaksAcceptedAsASet, Recorded
<1>2. QED BY <1>1, CalculationInvInit, CalculationInvNext, PTL DEF CallsSpec

\* calculate_work_time: flooring the record and each break on its own never takes
\* worked minutes away, and adds less than a minute for each break.
THEOREM WorkedMinutesCounted == CallsSpec => []MinutesAccountForTime
<1>1. CalculationInv => MinutesAccountForTime
  BY DEF CalculationInv, Answer, Counted, SecondsLeft, MinutesAccountForTime,
         Recorded, Accepted
<1>2. QED BY <1>1, CalculationInvInit, CalculationInvNext, PTL DEF CallsSpec

\* round_minutes, called by calculate_work_time: whatever the minutes, the unit and
\* the method, the result is the multiple the method names.
THEOREM BilledByTheUnit == CallsSpec => []BilledInUnits
<1>1. ASSUME CalculationInv PROVE BilledInUnits
  <2>1. SUFFICES ASSUME Accepted, call.work.billable, call.work.rule # NoRule
                 PROVE  RoundedTo(result.billable, result.actual, call.work.rule)
    BY DEF BilledInUnits
  <2>2. PICK w \in Works, a \in Nat :
          /\ w = call.work /\ a = result.actual
          /\ result.billable = RoundMinutes(a, w.rule)
    BY <1>1, <2>1 DEF CalculationInv, Answer, Counted, Recorded, Accepted
  <2>3. w.rule \in Rules BY <2>1, <2>2, WorkFields
  <2>4. RoundedTo(RoundMinutes(a, w.rule), a, w.rule)
    BY <2>1, <2>2, <2>3, RoundsToUnits
  <2>5. QED BY <2>2, <2>4
<1>2. QED BY <1>1, CalculationInvInit, CalculationInvNext, PTL DEF CallsSpec
=============================================================================
