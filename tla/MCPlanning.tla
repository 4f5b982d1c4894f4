----------------------------- MODULE MCPlanning -----------------------------
(***************************************************************************)
(* Small instances of Planning for TLC.  A unit of time is three hours;    *)
(* Tokyo is nine hours ahead of UTC.  Day 7 is a Sunday.                   *)
(***************************************************************************)
EXTENDS Planning, TLC

CONSTANTS t1, alice, bob, p1, Tokyo, Utc

MCOffset == [z \in Zones |-> IF z = Tokyo THEN 3 ELSE 0]

Oneself == {<<bob, p1>>}

Form(start, end) ==
    [user |-> bob, weekday |-> 0, start |-> start, end |-> end, rest |-> 0,
     from |-> 7, until |-> 14, status |-> "ACTIVE"]

\* From 9:00 to 15:00, on the same day in Tokyo as in UTC.
DayForms == {Form(3, 5)}
\* From 3:00 to 6:00 in Tokyo, the evening before in UTC.
EarlyForms == {Form(1, 2)}

\* On Sunday, at noon in Tokyo.
DayTimes == {[start |-> 57, end |-> 58]}

Sunday == {[from |-> 7, to |-> 7]}
SomeDays == {[from |-> 7, to |-> 7], [from |-> 7, to |-> 8]}

OneTemplate == {{t1}}
AllTemplates == {NoRow}
ProfileOrAll == {{"user"}, {"user", "organization", "business"}}

FirstVersion == {1}

EveryOperation ==
    {"createTemplates", "updateTemplate", "deleteTemplate", "createSchedule",
     "updateSchedule", "deleteSchedule", "generate", "settings"}
GenerateOperations == {"createTemplates", "generate"}

PlanningSymmetry == Permutations(Workers) \cup Permutations(ScheduleIds)
============================================================================
