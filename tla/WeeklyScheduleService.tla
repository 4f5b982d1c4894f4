----------------------- MODULE WeeklyScheduleService -----------------------
(***************************************************************************)
(* Weekly templates: create one or several at once, update and delete.     *)
(***************************************************************************)
EXTENDS PlanningData

(***************************************************************************)
(* create and bulk_create: nothing that is read before the inserts is      *)
(* changed by the transactions of this model, and one item that is refused *)
(* refuses all.  (So does the bound TemplateIds, when no id is left.)      *)
(***************************************************************************)
CreateTemplatesRequest(w) ==
    /\ "createTemplates" \in Operations
    /\ \E u \in Users, p \in Projects, items \in (SUBSET TemplateForms) \ {{}} :
          /\ Cardinality(items) <= MaxItems
          /\ Start(w, "weeklyCreate",
                   Request(u, NoRow, 0, [project |-> p, items |-> items]))
    /\ UNCHANGED got

NewTemplates(args) ==
    {[project |-> args.project, form |-> f, version |-> 1, deleted |-> FALSE] :
        f \in args.items}

CreateTemplates(w) ==
    /\ pc[w] = "weeklyCreate"
    /\ LET a == req[w].args
           targets == {f.user : f \in a.items}
           after == Insertions(templates, NewTemplates(a))
       IN
       IF MayPlan(req[w].user, a.project, targets) /\ after # {}
       THEN /\ AuditFree(w) /\ ProjectFree(w, a.project)
            /\ \A u \in targets : UserFree(w, u)
            /\ templates' \in after
            /\ UNCHANGED <<schedules, settings>>
            /\ Answer(w)
       ELSE Refuse(w)

(***************************************************************************)
(* update and delete begin alike: the row is locked if it belongs to the   *)
(* project of the URL, then the caller and the version are checked.        *)
(***************************************************************************)
LockTemplate(w, next) ==
    LET id == req[w].id
        row == templates[id]
    IN
    /\ TemplateFree(w, id)
    /\ IF /\ id \in Visible(templates) /\ row.project = req[w].args.project
          /\ MayPlan(req[w].user, row.project, {row.form.user})
          /\ row.version = req[w].version
       THEN /\ got' = [got EXCEPT ![w].row = row]
            /\ Goto(w, next)
       ELSE Refuse(w)

UpdateTemplateRequest(w) ==
    /\ "updateTemplate" \in Operations
    /\ \E u \in Users, p \in Projects, t \in TemplateIds, v \in Versions,
          f \in TemplateForms :
          Start(w, "weeklyUpdateLock",
                Request(u, t, v, [project |-> p, form |-> f]))
    /\ UNCHANGED got

UpdateTemplateLock(w) ==
    pc[w] = "weeklyUpdateLock" /\ LockTemplate(w, "weeklyUpdateCommit")

UpdatedTemplate(w) ==
    [got[w].row EXCEPT !.form = req[w].args.form, !.version = @ + 1]

UpdateTemplateCommit(w) ==
    /\ pc[w] = "weeklyUpdateCommit"
    /\ LET target == req[w].args.form.user IN
       IF MayPlan(req[w].user, got[w].row.project, {target})
       THEN /\ AuditFree(w) /\ UserFree(w, target)
            /\ templates' = [templates EXCEPT ![req[w].id] = UpdatedTemplate(w)]
            /\ UNCHANGED <<schedules, settings>>
            /\ Answer(w)
       ELSE Refuse(w)

DeleteTemplateRequest(w) ==
    /\ "deleteTemplate" \in Operations
    /\ \E u \in Users, p \in Projects, t \in TemplateIds, v \in Versions :
          Start(w, "weeklyDeleteLock", Request(u, t, v, [project |-> p]))
    /\ UNCHANGED got

DeleteTemplateLock(w) ==
    pc[w] = "weeklyDeleteLock" /\ LockTemplate(w, "weeklyDeleteProject")

DeleteTemplateLockProject(w) ==
    /\ pc[w] = "weeklyDeleteProject"
    /\ ProjectFree(w, got[w].row.project)
    /\ Goto(w, "weeklyDeleteCommit")
    /\ UNCHANGED got

\* Soft deletion; the schedules generated from the template stay.
DeleteTemplateCommit(w) ==
    /\ pc[w] = "weeklyDeleteCommit"
    /\ AuditFree(w)
    /\ templates' = [templates EXCEPT ![req[w].id].deleted = TRUE]
    /\ UNCHANGED <<schedules, settings>>
    /\ Answer(w)

TemplateRequest(w) ==
    CreateTemplatesRequest(w) \/ UpdateTemplateRequest(w) \/ DeleteTemplateRequest(w)

TemplateStep(w) ==
    \/ CreateTemplates(w)
    \/ UpdateTemplateLock(w) \/ UpdateTemplateCommit(w)
    \/ DeleteTemplateLock(w) \/ DeleteTemplateLockProject(w)
    \/ DeleteTemplateCommit(w)
============================================================================
