------------------------------ MODULE Planning ------------------------------
(***************************************************************************)
(* Planning: weekly templates, work schedules and the settings, changed by *)
(* the requests of any number of workers over one database.                *)
(***************************************************************************)
EXTENDS WeeklyScheduleService, WorkScheduleService, SettingsService

\* What the serializers and the membership's role let through.
ASSUME PlanningAssumption ==
    /\ IsFiniteSet(Workers)
    /\ Owners \subseteq Admins
    /\ DayLength \in Nat \ {0}
    /\ Offset \in [Zones -> Int] /\ FirstZone \in Zones
    /\ Versions \subseteq Nat
    /\ \A f \in TemplateForms :
          /\ f.user \in Users /\ f.weekday \in 0..6
          /\ f.start \in Nat /\ f.end \in Nat /\ f.start < f.end
          /\ f.end < DayLength
          /\ f.rest \in 0..(f.end - f.start)
          /\ f.from \in Nat /\ f.until \in Nat /\ f.from <= f.until
          /\ f.status \in {"ACTIVE", "INACTIVE"}
    /\ SectionChoices \subseteq (SUBSET Sections) \ {{}}
    /\ TemplateChoices \subseteq {NoRow} \cup SUBSET TemplateIds
    /\ \A t \in Times : t.start \in Int /\ t.end \in Int /\ t.start < t.end
    /\ \A r \in Ranges : r.from \in Nat /\ r.to \in Nat /\ r.from <= r.to

ASSUME NoPlanAssumption == NoRow \notin TemplateRow \cup ScheduleRow

Init ==
    /\ templates = [t \in TemplateIds |-> NoRow]
    /\ schedules = [s \in ScheduleIds |-> NoRow]
    /\ users = [u \in Users |-> 1]
    /\ organization = [zone |-> FirstZone, version |-> 1]
    /\ business = 1
    /\ pc = [w \in Workers |-> "idle"]
    /\ req = [w \in Workers |-> NoRow]
    /\ got = [w \in Workers |-> NothingRead]

Begin(w) == TemplateRequest(w) \/ ScheduleRequest(w) \/ SettingsRequest(w)

\* PostgreSQL ends a transaction of a deadlock, and one whose process dies.
Abort(w) == pc[w] # "idle" /\ Refuse(w)

Step(w) == TemplateStep(w) \/ ScheduleStep(w) \/ SettingsStep(w) \/ Abort(w)

Next == \E w \in Workers : Begin(w) \/ Step(w)

Spec == Init /\ [][Next]_vars

----------------------------------------------------------------------------
(***************************************************************************)
(* Type invariant.                                                         *)
(***************************************************************************)
TemplateSteps ==
    {"weeklyUpdateLock", "weeklyUpdateCommit",
     "weeklyDeleteLock", "weeklyDeleteProject", "weeklyDeleteCommit"}
ScheduleSteps ==
    {"workUpdateLock", "workUpdateCommit",
     "workDeleteLock", "workDeleteProject", "workDeleteCommit"}
GenerateSteps == {"genTemplates", "genExisting", "genCommit"}
SettingsSteps == {"setUser", "setOrganization", "setBusiness", "setCommit"}

PlanRows == {r \in ScheduleRow : InOrder(r)}

CandidateRow ==
    [source : TemplateIds, user : Users, start : Int, end : Int, rest : Nat]

ReadRows ==
    TemplateRow \cup PlanRows \cup {NoRow} \cup [user : Nat]
      \cup [user : Nat, organization : Nat]
      \cup [user : Nat, organization : Nat, business : Nat]

Reads ==
    [row : ReadRows,
     zone : Zones \cup {NoRow},
     candidates : SUBSET {c \in CandidateRow : InOrder(c)},
     stood : SUBSET (ScheduleIds \X Nat)]

WorkerTypeOK(w) ==
    /\ pc[w] \in {"idle", "weeklyCreate", "workCreate"} \cup TemplateSteps
                   \cup ScheduleSteps \cup GenerateSteps \cup SettingsSteps
    /\ pc[w] # "idle" => req[w].user \in Users
    /\ pc[w] = "weeklyCreate" =>
          req[w].args \in [project : Projects, items : SUBSET TemplateForms]
    /\ pc[w] = "workCreate" => req[w].args \in [project : Projects, time : Times]
    /\ pc[w] \in TemplateSteps => req[w].id \in TemplateIds
    /\ pc[w] \in {"weeklyUpdateLock", "weeklyUpdateCommit"} =>
          req[w].args \in [project : Projects, form : TemplateForms]
    /\ pc[w] \in ScheduleSteps => req[w].id \in ScheduleIds
    /\ pc[w] \in {"workUpdateLock", "workUpdateCommit"} =>
          req[w].args \in [project : Projects, time : Times]
    /\ pc[w] \in GenerateSteps =>
          /\ got[w].zone \in Zones
          /\ req[w].args \in [project : Projects, from : Nat, to : Nat,
                              ids : {NoRow} \cup SUBSET TemplateIds, dry : BOOLEAN]
    /\ pc[w] \in SettingsSteps =>
          req[w].args \in [sections : SUBSET Sections, zone : Zones]
    /\ HoldsTemplate(w) => got[w].row \in TemplateRow
    /\ HoldsSchedule(w) => got[w].row \in PlanRows
    /\ got[w] \in Reads

PlanTypeOK ==
    /\ templates \in [TemplateIds -> TemplateRow \cup {NoRow}]
    /\ schedules \in [ScheduleIds -> PlanRows \cup {NoRow}]
    /\ users \in [Users -> Nat]
    /\ organization \in [zone : Zones, version : Nat]
    /\ business \in Nat
    /\ DOMAIN pc = Workers /\ DOMAIN req = Workers /\ DOMAIN got = Workers
    /\ \A w \in Workers : WorkerTypeOK(w)

----------------------------------------------------------------------------
(***************************************************************************)
(* Locks.                                                                  *)
(***************************************************************************)
\* The row of a table a worker has locked is as the worker has read it.
RowCurrent(table, w) ==
    /\ req[w].id \in Visible(table)
    /\ got[w].row = table[req[w].id]
    /\ got[w].row.version = req[w].version

LockedPlanCurrent(w) ==
    /\ HoldsTemplate(w) => RowCurrent(templates, w)
    /\ HoldsSchedule(w) => RowCurrent(schedules, w)
    /\ HoldsUser(w) => got[w].row.user = users[req[w].user]
    /\ HoldsOrganization(w) => got[w].row.organization = organization.version
    /\ pc[w] = "setCommit" =>
          /\ got[w].row.business = business
          /\ \A s \in req[w].args.sections : got[w].row[s] = req[w].version[s]

\* What a transaction has locked stays what it has read, until it commits.
LockedPlansCurrent == \A w \in Workers : LockedPlanCurrent(w)

----------------------------------------------------------------------------
(***************************************************************************)
(* Changes.                                                                *)
(***************************************************************************)
\* Row i of a table goes to its new value only from no row at all, or by the
\* commit of a request that names it and the version being replaced; the
\* version then goes up by one, or stays when the row is deleted.
PlannedChange(table, i, commits) ==
    \/ table'[i] = table[i]
    \/ table[i] = NoRow
    \/ \E w \in Workers :
          /\ pc[w] \in commits /\ pc'[w] = "idle"
          /\ req[w].id = i
          /\ req[w].version = table[i].version
          /\ ~table[i].deleted
          /\ table'[i].version = table[i].version + (IF table'[i].deleted THEN 0 ELSE 1)

\* No change of a template or a schedule is lost: neither another request nor a
\* generation, which names no row, writes over a row its client did not see.
NoChangeLost ==
    [][/\ \A t \in TemplateIds :
             PlannedChange(templates, t, {"weeklyUpdateCommit", "weeklyDeleteCommit"})
       /\ \A s \in ScheduleIds :
             PlannedChange(schedules, s, {"workUpdateCommit", "workDeleteCommit"})]_vars

\* The versions of the settings a request may name.
SettingsVersion(u, section) ==
    CASE section = "user" -> users[u]
      [] section = "organization" -> organization.version
      [] section = "business" -> business

\* A settings request changes all the sections it names, each from the version
\* its client saw to the next one, and nothing else; or it changes none.
SettingsTogether ==
    [][settings' # settings =>
          \E w \in Workers, u \in Users :
             /\ pc[w] = "setCommit" /\ pc'[w] = "idle" /\ req[w].user = u
             /\ \A s \in Sections :
                   IF s \in req[w].args.sections
                   THEN /\ SettingsVersion(u, s) = req[w].version[s]
                        /\ SettingsVersion(u, s)' = req[w].version[s] + 1
                   ELSE SettingsVersion(u, s)' = SettingsVersion(u, s)
             /\ "organization" \notin req[w].args.sections =>
                   organization' = organization
             /\ \A v \in Users \ {u} : users'[v] = users[v]]_vars

----------------------------------------------------------------------------
(***************************************************************************)
(* Generation.                                                             *)
(***************************************************************************)
\* However often its days are generated, a template has at most one schedule
\* at one time that nobody has changed by hand.
GeneratedOnce ==
    \A r, s \in Visible(schedules) :
        LET x == schedules[r]
            y == schedules[s]
        IN  /\ x.source # NoRow /\ x.source = y.source
            /\ x.start = y.start /\ x.end = y.end
            /\ x.version = 1 /\ y.version = 1
            => r = s

\* A generation adds nothing beside what it has seen: of a template that has a
\* schedule the lookup of its days in UTC finds, which stood when the generation
\* looked and stands unchanged when it commits, no schedule at the same times,
\* and none on the same local day if that one was changed by hand.
SeenNotDoubled ==
    [][\A w \in Workers :
          pc[w] = "genCommit" /\ pc'[w] = "idle" =>
             \A new \in Fresh(schedules), s \in Visible(schedules) :
                LET made == schedules'[new]
                    old == schedules[s]
                IN
                /\ made # NoRow /\ made.source = old.source
                /\ <<s, old.version>> \in got[w].stood
                /\ DateLookup(old.start) <= req[w].args.to
                /\ DateLookup(old.end) >= req[w].args.from
                => /\ made.start # old.start \/ made.end # old.end
                   /\ old.version > 1 =>
                         LocalDay(old.start, got[w].zone)
                           # LocalDay(made.start, got[w].zone)]_vars
============================================================================
