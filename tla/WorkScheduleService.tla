------------------------ MODULE WorkScheduleService ------------------------
(***************************************************************************)
(* Work schedules: create, update and delete by hand, and their generation *)
(* from weekly templates.  Overlap warnings change nothing and are left    *)
(* out.                                                                    *)
(***************************************************************************)
EXTENDS PlanningData

CreateScheduleRequest(w) ==
    /\ "createSchedule" \in Operations
    /\ \E u \in Users, p \in Projects, t \in Times :
          Start(w, "workCreate", Request(u, NoRow, 0, [project |-> p, time |-> t]))
    /\ UNCHANGED got

NewSchedule(user, args) ==
    [project |-> args.project, user |-> user, source |-> NoRow,
     start |-> args.time.start, end |-> args.time.end, rest |-> 0,
     overridden |-> TRUE, version |-> 1, deleted |-> FALSE]

CreateSchedule(w) ==
    /\ pc[w] = "workCreate"
    /\ LET a == req[w].args
           after == Insertions(schedules, {NewSchedule(req[w].user, a)})
       IN
       IF MayPlan(req[w].user, a.project, {req[w].user}) /\ after # {}
       THEN /\ AuditFree(w) /\ ProjectFree(w, a.project)
            /\ schedules' \in after
            /\ UNCHANGED <<templates, settings>>
            /\ Answer(w)
       ELSE Refuse(w)

LockSchedule(w, next) ==
    LET id == req[w].id
        row == schedules[id]
    IN
    /\ ScheduleFree(w, id)
    /\ IF /\ id \in Visible(schedules)
          /\ MayPlan(req[w].user, row.project, {row.user})
          /\ row.version = req[w].version
       THEN /\ got' = [got EXCEPT ![w].row = row]
            /\ Goto(w, next)
       ELSE Refuse(w)

UpdateScheduleRequest(w) ==
    /\ "updateSchedule" \in Operations
    /\ \E u \in Users, s \in ScheduleIds, v \in Versions, p \in Projects, t \in Times :
          Start(w, "workUpdateLock", Request(u, s, v, [project |-> p, time |-> t]))
    /\ UNCHANGED got

UpdateScheduleLock(w) ==
    pc[w] = "workUpdateLock" /\ LockSchedule(w, "workUpdateCommit")

\* Variants: the start stays; the change is not marked as one made by hand.
UpdatedEndOnly(w) ==
    LET a == req[w].args IN
    [got[w].row EXCEPT !.project = a.project, !.end = a.time.end,
                       !.overridden = TRUE, !.version = @ + 1]

UpdatedUnmarked(w) ==
    LET a == req[w].args IN
    [got[w].row EXCEPT !.project = a.project, !.start = a.time.start,
                       !.end = a.time.end, !.version = @ + 1]

\* The source stays what it was: a generated schedule that was moved is still
\* the one its template was generated into.
UpdatedSchedule(w) ==
    LET a == req[w].args IN
    [got[w].row EXCEPT !.project = a.project, !.start = a.time.start,
                       !.end = a.time.end, !.overridden = TRUE, !.version = @ + 1]

UpdateScheduleCommit(w) ==
    /\ pc[w] = "workUpdateCommit"
    /\ LET a == req[w].args
           row == got[w].row
       IN
       IF /\ MayPlan(req[w].user, a.project, {row.user})
          /\ row.rest < a.time.end - a.time.start
       THEN /\ AuditFree(w)
            /\ a.project # row.project => ProjectFree(w, a.project)
            /\ schedules' = [schedules EXCEPT ![req[w].id] = UpdatedSchedule(w)]
            /\ UNCHANGED <<templates, settings>>
            /\ Answer(w)
       ELSE Refuse(w)

DeleteScheduleRequest(w) ==
    /\ "deleteSchedule" \in Operations
    /\ \E u \in Users, s \in ScheduleIds, v \in Versions :
          Start(w, "workDeleteLock", Request(u, s, v, NoRow))
    /\ UNCHANGED got

DeleteScheduleLock(w) ==
    pc[w] = "workDeleteLock" /\ LockSchedule(w, "workDeleteProject")

DeleteScheduleLockProject(w) ==
    /\ pc[w] = "workDeleteProject"
    /\ ProjectFree(w, got[w].row.project)
    /\ Goto(w, "workDeleteCommit")
    /\ UNCHANGED got

DeleteScheduleCommit(w) ==
    /\ pc[w] = "workDeleteCommit"
    /\ AuditFree(w)
    /\ schedules' = [schedules EXCEPT ![req[w].id].deleted = TRUE]
    /\ UNCHANGED <<templates, settings>>
    /\ Answer(w)

----------------------------------------------------------------------------
(***************************************************************************)
(* generate.  The organization, and with it the time zone, is read with    *)
(* the membership before anything else.                                    *)
(***************************************************************************)
Generating(w) == pc[w] \in {"genTemplates", "genExisting", "genCommit"}

GenerateRequest(w) ==
    /\ "generate" \in Operations
    /\ Cardinality({v \in Workers : Generating(v)}) < MaxGenerations
    /\ \E u \in Users, p \in Projects, r \in Ranges, dry \in BOOLEAN,
          ids \in TemplateChoices :
          Start(w, "genTemplates",
                Request(u, NoRow, 0, [project |-> p, from |-> r.from, to |-> r.to,
                                      ids |-> ids, dry |-> dry]))
    /\ got' = [got EXCEPT ![w].zone = organization.zone]

Chosen(a) ==
    {t \in Visible(templates) :
        /\ templates[t].project = a.project
        /\ templates[t].form.status = "ACTIVE"
        /\ a.ids # NoRow => t \in a.ids}

\* expand_weekly_templates: every day of the range on which a template is due.
Due(chosen, a) ==
    {x \in chosen \X (a.from..a.to) :
        LET form == templates[x[1]].form IN
        form.weekday = Weekday(x[2]) /\ x[2] \in form.from..form.until}

Candidate(t, day, zone) ==
    LET form == templates[t].form IN
    [source |-> t, user |-> form.user,
     start |-> Instant(day, form.start, zone), end |-> Instant(day, form.end, zone),
     rest |-> form.rest]

Candidates(chosen, a, zone) == {Candidate(x[1], x[2], zone) : x \in Due(chosen, a)}

GenerateTemplates(w) ==
    /\ pc[w] = "genTemplates"
    /\ LET a == req[w].args
           chosen == Chosen(a)
           candidates == Candidates(chosen, a, got[w].zone)
       IN
       IF /\ MayPlan(req[w].user, a.project, {templates[t].form.user : t \in chosen})
          /\ a.ids # NoRow => chosen = a.ids
          /\ Cardinality(chosen) <= MaxItems
          /\ a.to - a.from + 1 \in 1..MaxDays
          /\ Cardinality(candidates) <= MaxCandidates
       THEN /\ got' = [got EXCEPT ![w].candidates = candidates]
            /\ Goto(w, "genExisting")
       ELSE Refuse(w)

\* Variant: the last day of the range is not searched.
ExistingBefore(a) ==
    {s \in Visible(schedules) :
        /\ DateLookup(schedules[s].start) < a.to
        /\ DateLookup(schedules[s].end) >= a.from}

Existing(a) ==
    {s \in Visible(schedules) :
        /\ DateLookup(schedules[s].start) <= a.to
        /\ DateLookup(schedules[s].end) >= a.from}

\* A candidate is left out if its template has been generated at exactly these
\* times, or has a schedule on this local day that was changed by hand.
Accepted(candidates, existing, zone) ==
    {c \in candidates : ~\E s \in existing :
        /\ schedules[s].source = c.source
        /\ \/ schedules[s].start = c.start /\ schedules[s].end = c.end
           \/ /\ schedules[s].overridden
              /\ LocalDay(schedules[s].start, zone) = LocalDay(c.start, zone)}

GenerateExisting(w) ==
    /\ pc[w] = "genExisting"
    /\ LET a == req[w].args
           zone == got[w].zone
       IN
       IF a.dry THEN Answer(w) /\ UNCHANGED tables
       ELSE /\ got' = [got EXCEPT
                  ![w].candidates = Accepted(@, Existing(a), zone),
                  ![w].stood = {<<s, schedules[s].version>> : s \in Visible(schedules)}]
            /\ Goto(w, "genCommit")

GeneratedRows(w) ==
    {[project |-> req[w].args.project, user |-> c.user, source |-> c.source,
      start |-> c.start, end |-> c.end, rest |-> c.rest,
      overridden |-> FALSE, version |-> 1, deleted |-> FALSE] :
        c \in got[w].candidates}

\* bulk_create: all or, at the bound ScheduleIds, none.
GenerateCommit(w) ==
    /\ pc[w] = "genCommit"
    /\ LET after == Insertions(schedules, GeneratedRows(w)) IN
       IF after # {}
       THEN /\ AuditFree(w) /\ ProjectFree(w, req[w].args.project)
            /\ \A c \in got[w].candidates :
                  UserFree(w, c.user) /\ TemplateFree(w, c.source)
            /\ schedules' \in after
            /\ UNCHANGED <<templates, settings>>
            /\ Answer(w)
       ELSE Refuse(w)

ScheduleRequest(w) ==
    \/ CreateScheduleRequest(w) \/ UpdateScheduleRequest(w)
    \/ DeleteScheduleRequest(w) \/ GenerateRequest(w)

ScheduleStep(w) ==
    \/ CreateSchedule(w)
    \/ UpdateScheduleLock(w) \/ UpdateScheduleCommit(w)
    \/ DeleteScheduleLock(w) \/ DeleteScheduleLockProject(w)
    \/ DeleteScheduleCommit(w)
    \/ GenerateTemplates(w) \/ GenerateExisting(w) \/ GenerateCommit(w)
============================================================================
