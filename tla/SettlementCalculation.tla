----------------------- MODULE SettlementCalculation -----------------------
(***************************************************************************)
(* The amounts of a settlement: calculate_amounts, and the conditions      *)
(* validate_contract_conditions demands of the contracts it is given.      *)
(*                                                                         *)
(* terms is a record of the condition fields, some of them Null; rates are *)
(* hundredths of a percent, a DECIMAL(5, 2).                               *)
(***************************************************************************)
EXTENDS Integers

CONSTANT Null

ConditionFields ==
    {"hourly_rate", "monthly_rate", "performance_amount", "minimum_minutes",
     "maximum_minutes", "base_minutes", "deduction_rate", "overtime_rate",
     "rounding_unit_minutes", "rounding_method"}

Given(terms) == {f \in ConditionFields : terms[f] # Null}

ContractTypes == {"HOURLY", "MONTHLY_RANGE", "MONTHLY_FIXED", "PERFORMANCE"}

Rounding == {"rounding_unit_minutes", "rounding_method"}

\* Variant: the overtime rate is optional.
RequiredWithoutOvertime(type) ==
    CASE type = "HOURLY" -> {"hourly_rate"} \cup Rounding
      [] type = "MONTHLY_RANGE" ->
             {"monthly_rate", "minimum_minutes", "maximum_minutes",
              "base_minutes", "deduction_rate"} \cup Rounding
      [] type = "MONTHLY_FIXED" -> {"monthly_rate"}
      [] type = "PERFORMANCE" -> {"performance_amount"}

\* REQUIRED_BY_TYPE
Required(type) ==
    CASE type = "HOURLY" -> {"hourly_rate"} \cup Rounding
      [] type = "MONTHLY_RANGE" ->
             {"monthly_rate", "minimum_minutes", "maximum_minutes",
              "base_minutes", "deduction_rate", "overtime_rate"} \cup Rounding
      [] type = "MONTHLY_FIXED" -> {"monthly_rate"}
      [] type = "PERFORMANCE" -> {"performance_amount"}

\* The required fields are given, the other ones are not, and the hours of a
\* monthly range are ordered.
ValidConditions(type, terms) ==
    /\ Given(terms) = Required(type)
    /\ "base_minutes" \in Given(terms) =>
          /\ terms.minimum_minutes <= terms.base_minutes
          /\ terms.base_minutes <= terms.maximum_minutes

NonNegative(n) == IF n > 0 THEN n ELSE 0

\* _yen of minutes * rate / 60 and of amount * rate / 100.
PerHour(minutes, rate) == (minutes * rate) \div 60
PerCent(amount, rate) == (amount * rate) \div 10000

Deduction(terms, minutes) ==
    IF terms.type = "MONTHLY_RANGE"
    THEN PerHour(NonNegative(terms.base_minutes - minutes),
                 terms.deduction_rate)
    ELSE 0

\* Variant: the shortage is paid as overtime.
OvertimeOfShortage(terms, minutes) ==
    IF terms.type = "MONTHLY_RANGE"
    THEN PerHour(NonNegative(terms.base_minutes - minutes),
                 terms.overtime_rate)
    ELSE 0

Overtime(terms, minutes) ==
    IF terms.type = "MONTHLY_RANGE"
    THEN PerHour(NonNegative(minutes - terms.base_minutes),
                 terms.overtime_rate)
    ELSE 0

\* The terms calculate_amounts itself insists on.
Used(type) ==
    CASE type = "HOURLY" -> {"hourly_rate"}
      [] type = "MONTHLY_RANGE" ->
             {"monthly_rate", "base_minutes", "deduction_rate", "overtime_rate"}
      [] type = "MONTHLY_FIXED" -> {"monthly_rate"}
      [] type = "PERFORMANCE" -> {"performance_amount"}

Base(terms, minutes) ==
    CASE terms.type = "HOURLY" -> PerHour(minutes, terms.hourly_rate)
      [] terms.type = "MONTHLY_RANGE" ->
             terms.monthly_rate - Deduction(terms, minutes)
                                         + Overtime(terms, minutes)
      [] terms.type = "MONTHLY_FIXED" -> terms.monthly_rate
      [] terms.type = "PERFORMANCE" -> terms.performance_amount

\* Variant: withholding is taken from the taxed amount.
WithholdingOfTaxed(terms, base) ==
    PerCent(base + PerCent(base, terms.tax), terms.withholding)

Withholding(terms, base) == PerCent(base, terms.withholding)

CalculateAmounts(terms, minutes) ==
    IF ~(Used(terms.type) \subseteq Given(terms))
    THEN [refused |-> "INVALID_CONTRACT_CONFIGURATION"]
    ELSE LET base == Base(terms, minutes)
             tax == PerCent(base, terms.tax)
             total == base + tax - Withholding(terms, base)
         IN  IF base < 0 \/ total < 0
             THEN [refused |-> "NEGATIVE_SETTLEMENT_TOTAL"]
             ELSE [refused |-> "", base |-> base, tax |-> tax,
                   deduction |-> Deduction(terms, minutes),
                   overtime |-> Overtime(terms, minutes),
                   withholding |-> Withholding(terms, base), total |-> total]
=============================================================================
