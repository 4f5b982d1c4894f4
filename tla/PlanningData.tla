---------------------------- MODULE PlanningData ----------------------------
(***************************************************************************)
(* The rows behind the planning services of the API: weekly templates,    *)
(* work schedules and the settings of users and organization.  As in       *)
(* module BillingData there is one organization, a service method is one   *)
(* READ COMMITTED transaction, statements that read rows others may change *)
(* are steps, and writes become visible together in the last step.         *)
(*                                                                         *)
(* Time is counted in units of which DayLength make a day, from a midnight *)
(* in UTC; an instant of the database is such a number, and a zone is a    *)
(* fixed offset from UTC.                                                  *)
(***************************************************************************)
EXTENDS Integers, FiniteSets

CONSTANTS
    Workers,          \* threads of the API server, one request at a time each
    Users,            \* ACTIVE members of the organization
    Owners, Admins,   \* those whose role is OWNER; OWNER or ADMIN
    Editors,          \* <<user, project>> pairs with can_edit_schedule
    Projects,         \* live projects of the organization
    TemplateIds, ScheduleIds,
    DayLength,        \* units of time in a day
    Zones, Offset,    \* time zones and their distance from UTC, in units
    FirstZone,        \* the organization's time zone at the start
    TemplateForms,    \* weekly templates a client may send
    Times,            \* [start, end] instants a client may send
    Ranges,           \* [from, to] days of a generation a client may ask for
    TemplateChoices,  \* weeklyScheduleIds of a generation, NoRow for all of them
    SectionChoices,   \* settings a client may change in one request
    Versions,         \* versions a client may send with a request
    Operations,       \* the operations clients invoke in this instance
    MaxItems,         \* templates of one bulk request and of one generation
    MaxDays,          \* days of one generation
    MaxCandidates,    \* schedules one generation may come to
    MaxGenerations,   \* bound: generations that run at the same time
    NoRow             \* absence of a row, a request or a value

(***************************************************************************)
(* Days and instants.                                                      *)
(***************************************************************************)
Weekday(day) == day % 7                             \* day 0 is a Sunday
Instant(day, time, zone) == day * DayLength + time - Offset[zone]
LocalDay(instant, zone) == (instant + Offset[zone]) \div DayLength

\* Django is configured with TIME_ZONE = "UTC" and activates no other zone, so
\* a __date lookup truncates in UTC, whatever the organization's zone is.
DateLookup(instant) == instant \div DayLength

(***************************************************************************)
(* Rows.                                                                   *)
(***************************************************************************)
TemplateRow ==
    [project : Projects, form : TemplateForms, version : Nat, deleted : BOOLEAN]

\* rest stands for break_minutes; source for weekly_schedule and is_generated,
\* which the constraint work_schedules_source_valid ties together.
ScheduleRow ==
    [project : Projects, user : Users, source : TemplateIds \cup {NoRow},
     start : Int, end : Int, rest : Nat, overridden : BOOLEAN,
     version : Nat, deleted : BOOLEAN]

\* weekly_schedules_time_range, work_schedules_time_range.
InOrder(row) == row.start < row.end

VARIABLES
    templates, schedules,                \* tables: id -> row or NoRow
    users,                               \* version of each user's row
    organization,                        \* its time zone and version
    business,                            \* version of the business profile
    pc,                                  \* the statement a worker is at
    req,                                 \* the request it executes
    got                                  \* what its transaction has read

settings == <<users, organization, business>>
tables == <<templates, schedules, users, organization, business>>
vars == <<templates, schedules, users, organization, business, pc, req, got>>

(***************************************************************************)
(* Requests and what a transaction keeps in memory.                        *)
(***************************************************************************)
Request(user, id, version, args) ==
    [user |-> user, id |-> id, version |-> version, args |-> args]

\* stood is history: the schedules, and their versions, a generation could see.
NothingRead == [row |-> NoRow, zone |-> NoRow, candidates |-> {}, stood |-> {}]

(***************************************************************************)
(* Queries and permissions.                                                *)
(***************************************************************************)
\* The default manager hides soft-deleted rows.
Visible(table) ==
    {i \in DOMAIN table : table[i] # NoRow /\ ~table[i].deleted}

Fresh(table) == {i \in DOMAIN table : table[i] = NoRow}

\* What the table may be after the rows are inserted under new ids.
Insertions(table, rows) ==
    {[i \in DOMAIN table |->
        IF \E r \in rows : place[r] = i
        THEN CHOOSE r \in rows : place[r] = i
        ELSE table[i]] :
     place \in {f \in [rows -> Fresh(table)] :
                    \A r, q \in rows : f[r] = f[q] => r = q}}

\* OWNER and ADMIN plan for everybody, a member for itself where it is allowed.
MayPlan(user, project, targets) ==
    \/ user \in Admins
    \/ targets \subseteq {user} /\ <<user, project>> \in Editors

(***************************************************************************)
(* Row locks.  FOR UPDATE without OF takes the project a deletion joins    *)
(* after the row itself; the settings lock their three rows one after the  *)
(* other.  The foreign keys of what a transaction has inserted, an audit   *)
(* log always among it, are checked when it commits: the rows they refer   *)
(* to must not be held by another transaction then.                        *)
(***************************************************************************)
HoldsTemplate(w) ==
    pc[w] \in {"weeklyUpdateCommit", "weeklyDeleteProject", "weeklyDeleteCommit"}
HoldsSchedule(w) ==
    pc[w] \in {"workUpdateCommit", "workDeleteProject", "workDeleteCommit"}
HoldsProject(w) == pc[w] \in {"weeklyDeleteCommit", "workDeleteCommit"}
HoldsUser(w) == pc[w] \in {"setOrganization", "setBusiness", "setCommit"}
HoldsOrganization(w) == pc[w] \in {"setBusiness", "setCommit"}

\* Variant: the row is read without FOR UPDATE.
NoRowLock(w, i) == TRUE

TemplateFree(w, t) ==
    \A v \in Workers \ {w} : ~(HoldsTemplate(v) /\ req[v].id = t)
ScheduleFree(w, s) ==
    \A v \in Workers \ {w} : ~(HoldsSchedule(v) /\ req[v].id = s)
ProjectFree(w, p) ==
    \A v \in Workers \ {w} : ~(HoldsProject(v) /\ got[v].row.project = p)
UserFree(w, u) ==
    \A v \in Workers \ {w} : ~(HoldsUser(v) /\ req[v].user = u)
OrganizationFree(w) == \A v \in Workers \ {w} : ~HoldsOrganization(v)
BusinessFree(w) == \A v \in Workers \ {w} : pc[v] # "setCommit"

\* The audit log's organization and actor.
AuditFree(w) == OrganizationFree(w) /\ UserFree(w, req[w].user)

(***************************************************************************)
(* How a request proceeds.                                                 *)
(***************************************************************************)
Start(w, step, request) ==
    /\ pc[w] = "idle"
    /\ pc' = [pc EXCEPT ![w] = step]
    /\ req' = [req EXCEPT ![w] = request]
    /\ UNCHANGED tables

Goto(w, step) ==
    /\ pc' = [pc EXCEPT ![w] = step]
    /\ UNCHANGED <<tables, req>>

Answer(w) ==
    /\ pc' = [pc EXCEPT ![w] = "idle"]
    /\ req' = [req EXCEPT ![w] = NoRow]
    /\ got' = [got EXCEPT ![w] = NothingRead]

\* An exception rolls the transaction back and becomes the error response.
Refuse(w) == Answer(w) /\ UNCHANGED tables
============================================================================
