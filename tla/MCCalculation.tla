--------------------------- MODULE MCCalculation ---------------------------
(***************************************************************************)
(* Inputs for the calculations: instants around whole minutes, durations   *)
(* around half a rounding unit, minutes around a contract's base.          *)
(***************************************************************************)
EXTENDS Calculation

MCInstants == {0, 59, 121, 360}
MCRules == {[unit |-> u, method |-> m] : u \in {5, 10},
            m \in {"ROUND_DOWN", "ROUND_UP", "ROUND_HALF_UP"}}
MCMinutes == {0, 1, 59, 60, 61, 119, 120, 200}
MCRates == {0, 1000, 1021, 10000}
MCConditions ==
    [hourly_rate : {Null, 1, 59, 6001}, monthly_rate : {Null, 0, 50, 500},
     performance_amount : {Null, 0, 999}, minimum_minutes : {Null, 0, 60},
     maximum_minutes : {Null, 120}, base_minutes : {Null, 60, 61},
     deduction_rate : {Null, 0, 59, 100}, overtime_rate : {Null, 1, 130},
     rounding_unit_minutes : {Null, 15}, rounding_method : {Null, "ROUND_UP"}]
============================================================================
