------------------------------ MODULE WorkTime ------------------------------
(***************************************************************************)
(* The minutes of a work record: calculate_work_time, one step for each    *)
(* turn of its loop over the breaks, and round_minutes.                    *)
(*                                                                         *)
(* A work is the record's start and end, its breaks, whether it is         *)
(* billable, and its rounding rule. Instants are seconds; minutes are      *)
(* floors of their differences.                                            *)
(***************************************************************************)
EXTENDS Integers, Sequences, Functions

VARIABLES
    order,   \* the indices of the breaks as sorted() puts them
    next,    \* the turn of the loop
    taken,   \* minutes of calculated_breaks
    result   \* what calculate_work_time returned or raised

loop == <<order, next, taken, result>>

NoRule == [unit |-> 0, method |-> "NONE"]

NoResult == [refused |-> "not yet"]

Refused(code) == [refused |-> code]

NotCalculating == order = <<>> /\ next = 1 /\ taken = 0 /\ result = NoResult

\* Variant: partial minutes count as whole ones.
MinutesBetweenUp(from, to) == (to - from + 59) \div 60

MinutesBetween(from, to) == (to - from) \div 60

\* Variant: half a unit is rounded down.
UnitsHalfDown(minutes, rule) ==
    CASE rule.method = "ROUND_DOWN" -> minutes \div rule.unit
      [] rule.method = "ROUND_UP" -> (minutes + rule.unit - 1) \div rule.unit
      [] rule.method = "ROUND_HALF_UP" ->
             (2 * minutes + rule.unit - 1) \div (2 * rule.unit)

\* Decimal division and quantize, for minutes that are not negative.
Units(minutes, rule) ==
    CASE rule.method = "ROUND_DOWN" -> minutes \div rule.unit
      [] rule.method = "ROUND_UP" -> (minutes + rule.unit - 1) \div rule.unit
      [] rule.method = "ROUND_HALF_UP" ->
             (2 * minutes + rule.unit) \div (2 * rule.unit)

RoundMinutes(minutes, rule) ==
    IF rule = NoRule THEN minutes ELSE Units(minutes, rule) * rule.unit

\* sorted() by start is stable.
Before(breaks, i, j) ==
    \/ breaks[i].start < breaks[j].start
    \/ breaks[i].start = breaks[j].start /\ i < j

\* Variant: the breaks are taken in the order they were sent.
AsSent(breaks) == {[i \in DOMAIN breaks |-> i]}

\* The orders sorted() may leave: there is one.
ByStart(breaks) ==
    {o \in Bijection(DOMAIN breaks, DOMAIN breaks) :
        \A i, j \in DOMAIN breaks : i < j => Before(breaks, o[i], o[j])}

RefuseTimes(work) ==
    /\ work.start >= work.end
    /\ result' = Refused("INVALID_WORK_RECORD_TIME_RANGE")
    /\ UNCHANGED <<order, next, taken>>

SortBreaks(work) ==
    /\ work.start < work.end
    /\ order' \in ByStart(work.breaks)
    /\ UNCHANGED <<next, taken, result>>

\* What the loop raises in its present turn, "" for nothing. previous_end is the
\* end of the break before, once there is one.
BreakFault(work) ==
    LET b == work.breaks[order[next]] IN
    IF b.start >= b.end THEN "INVALID_BREAK_PERIOD"
    ELSE IF b.start < work.start \/ b.end > work.end THEN "BREAK_OUTSIDE_WORK_RECORD"
    ELSE IF next > 1 /\ b.start < work.breaks[order[next - 1]].end
    THEN "BREAK_PERIOD_OVERLAP" ELSE ""

TakeBreak(work) ==
    LET b == work.breaks[order[next]] IN
    /\ next \in DOMAIN work.breaks
    /\ BreakFault(work) = ""
    /\ taken' = taken + MinutesBetween(b.start, b.end)
    /\ next' = next + 1
    /\ UNCHANGED <<order, result>>

RefuseBreak(work) ==
    /\ next \in DOMAIN work.breaks
    /\ BreakFault(work) # ""
    /\ result' = Refused(BreakFault(work))
    /\ UNCHANGED <<order, next, taken>>

\* After the loop.
CountMinutes(work) ==
    LET gross == MinutesBetween(work.start, work.end)
        actual == gross - taken
    IN  /\ next \notin DOMAIN work.breaks
        /\ result' =
              IF actual <= 0 THEN Refused("BREAK_OUTSIDE_WORK_RECORD")
              ELSE [refused |-> "", gross |-> gross, break |-> taken,
                    actual |-> actual,
                    billable |-> IF work.billable
                                 THEN RoundMinutes(actual, work.rule) ELSE 0]
        /\ UNCHANGED <<order, next, taken>>
=============================================================================
