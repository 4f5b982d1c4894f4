--------------------------- MODULE PlanningProofs ---------------------------
(***************************************************************************)
(* Proofs about Planning for any number of workers, users, projects, ids,  *)
(* days and time zones.                                                    *)
(***************************************************************************)
EXTENDS Planning, TLAPS

\* A step of worker w leaves the other workers as they are.
OthersKept(w) ==
    /\ DOMAIN pc' = Workers /\ DOMAIN req' = Workers /\ DOMAIN got' = Workers
    /\ \A v \in Workers \ {w} : pc'[v] = pc[v] /\ req'[v] = req[v] /\ got'[v] = got[v]

TablesTypeOK ==
    /\ templates \in [TemplateIds -> TemplateRow \cup {NoRow}]
    /\ schedules \in [ScheduleIds -> PlanRows \cup {NoRow}]
    /\ users \in [Users -> Nat]
    /\ organization \in [zone : Zones, version : Nat]
    /\ business \in Nat

\* What each worker's steps promise about the types.
Typed(w) == OthersKept(w) /\ TablesTypeOK' /\ WorkerTypeOK(w)'

LEMMA NothingReadTyped == NothingRead \in Reads
  BY DEF NothingRead, Reads, ReadRows

LEMMA AnswerLocal ==
    ASSUME PlanTypeOK, NEW w \in Workers, Answer(w)
    PROVE  OthersKept(w) /\ WorkerTypeOK(w)' /\ pc'[w] = "idle"
<1>1. /\ OthersKept(w) /\ pc'[w] = "idle" /\ got'[w] = NothingRead
  BY DEF PlanTypeOK, Answer, OthersKept
<1>2. QED
  BY <1>1, NothingReadTyped DEF WorkerTypeOK, TemplateSteps, ScheduleSteps,
     GenerateSteps, SettingsSteps, HoldsTemplate, HoldsSchedule

LEMMA RefuseTyped ==
    ASSUME PlanTypeOK, NEW w \in Workers, Refuse(w)
    PROVE  Typed(w)
  BY AnswerLocal DEF Refuse, PlanTypeOK, TablesTypeOK, tables, Typed

LEMMA StartLocal ==
    ASSUME PlanTypeOK, NEW w \in Workers, NEW step, NEW request,
           Start(w, step, request)
    PROVE  /\ TablesTypeOK' /\ UNCHANGED tables
           /\ DOMAIN pc' = Workers /\ DOMAIN req' = Workers
           /\ \A v \in Workers \ {w} : pc'[v] = pc[v] /\ req'[v] = req[v]
           /\ pc[w] = "idle" /\ pc'[w] = step /\ req'[w] = request
  BY DEF PlanTypeOK, Start, TablesTypeOK, tables

LEMMA GotoLocal ==
    ASSUME PlanTypeOK, NEW w \in Workers, NEW step, Goto(w, step)
    PROVE  /\ TablesTypeOK' /\ UNCHANGED tables
           /\ DOMAIN pc' = Workers /\ DOMAIN req' = Workers
           /\ \A v \in Workers \ {w} : pc'[v] = pc[v] /\ req'[v] = req[v]
           /\ pc'[w] = step /\ req'[w] = req[w]
  BY DEF PlanTypeOK, Goto, TablesTypeOK, tables

\* A transaction that has read something more goes on to its next step.
LEMMA ReadLocal ==
    ASSUME PlanTypeOK, NEW w \in Workers, NEW step, Goto(w, step), NEW read,
           got' = [got EXCEPT ![w] = read], WorkerTypeOK(w)'
    PROVE  Typed(w)
<1>1. DOMAIN got' = Workers /\ \A v \in Workers \ {w} : got'[v] = got[v]
  BY DEF PlanTypeOK
<1>2. QED BY <1>1, GotoLocal DEF Typed, OthersKept

LEMMA TypeFrame ==
    ASSUME PlanTypeOK, NEW w \in Workers, Typed(w)
    PROVE  PlanTypeOK'
<1>1. ASSUME NEW v \in Workers \ {w} PROVE WorkerTypeOK(v)'
  <2>1. WorkerTypeOK(v) BY DEF PlanTypeOK
  <2>2. pc'[v] = pc[v] /\ req'[v] = req[v] /\ got'[v] = got[v]
    BY DEF OthersKept, Typed
  <2>3. QED BY <2>1, <2>2 DEF WorkerTypeOK, HoldsTemplate, HoldsSchedule
<1>2. QED BY <1>1 DEF PlanTypeOK, OthersKept, TablesTypeOK, Typed

(***************************************************************************)
(* Inserting rows under new ids.                                           *)
(***************************************************************************)
\* The rows that were there stay as they are.
LEMMA InsertionsKeep ==
    ASSUME NEW Ids, NEW Rows, NEW table \in [Ids -> Rows \cup {NoRow}],
           NEW rows \in SUBSET Rows, NEW after \in Insertions(table, rows)
    PROVE  /\ after \in [Ids -> Rows \cup {NoRow}]
           /\ \A i \in Ids : after[i] = table[i] \/ table[i] = NoRow
<1>1. PICK place \in [rows -> Fresh(table)] :
         after = [i \in DOMAIN table |->
                    IF \E r \in rows : place[r] = i
                    THEN CHOOSE r \in rows : place[r] = i
                    ELSE table[i]]
  BY DEF Insertions
<1>2. ASSUME NEW i \in Ids
      PROVE  /\ after[i] \in Rows \cup {NoRow}
             /\ after[i] = table[i] \/ table[i] = NoRow
  <2>1. CASE \E r \in rows : place[r] = i
    <3>1. after[i] = CHOOSE r \in rows : place[r] = i BY <1>1, <2>1
    <3>2. after[i] \in rows BY <2>1, <3>1
    <3>3. table[i] = NoRow BY <2>1 DEF Fresh
    <3>4. QED BY <3>2, <3>3
  <2>2. CASE ~\E r \in rows : place[r] = i
    BY <1>1, <2>2
  <2>3. QED BY <2>1, <2>2
<1>3. DOMAIN after = Ids /\ after = [i \in Ids |-> after[i]] BY <1>1
<1>4. QED BY <1>2, <1>3

LEMMA InsertionsKeepOld ==
    ASSUME NEW Ids, NEW Rows, NEW table \in [Ids -> Rows], NEW rows,
           NEW after \in Insertions(table, rows), NEW i \in Ids
    PROVE  after[i] = table[i] \/ table[i] = NoRow
<1>1. PICK place \in [rows -> Fresh(table)] :
         after = [j \in DOMAIN table |->
                    IF \E r \in rows : place[r] = j
                    THEN CHOOSE r \in rows : place[r] = j
                    ELSE table[j]]
  BY DEF Insertions
<1>2. CASE \E r \in rows : place[r] = i BY <1>2 DEF Fresh
<1>3. CASE ~\E r \in rows : place[r] = i BY <1>1, <1>3
<1>4. QED BY <1>2, <1>3

\* New rows are those inserted, each under one id.
LEMMA InsertionsNew ==
    ASSUME NEW Ids, NEW table, DOMAIN table = Ids, NEW rows, NoRow \notin rows,
           NEW after \in Insertions(table, rows),
           NEW i \in Ids, table[i] = NoRow, after[i] # NoRow
    PROVE  /\ after[i] \in rows
           /\ \A j \in Ids : table[j] = NoRow /\ after[j] = after[i] => j = i
<1>1. PICK place \in [rows -> Fresh(table)] :
         after = [k \in DOMAIN table |->
                    IF \E r \in rows : place[r] = k
                    THEN CHOOSE r \in rows : place[r] = k
                    ELSE table[k]]
  BY DEF Insertions
<1>2. ASSUME NEW k \in Ids, table[k] = NoRow, after[k] # NoRow
      PROVE  after[k] \in rows /\ place[after[k]] = k
  <2>1. \E r \in rows : place[r] = k BY <1>1, <1>2
  <2>2. after[k] = CHOOSE r \in rows : place[r] = k BY <1>1, <2>1
  <2>3. QED BY <2>1, <2>2
<1>3. QED BY <1>2

(***************************************************************************)
(* Type correctness: requests.                                             *)
(***************************************************************************)
\* A request that reads nothing when it starts.
LEMMA StartTyped ==
    ASSUME PlanTypeOK, NEW w \in Workers, NEW step, NEW request,
           Start(w, step, request), UNCHANGED got,
           WorkerTypeOK(w)'
    PROVE  Typed(w)
<1>1. DOMAIN got = Workers BY DEF PlanTypeOK
<1>2. QED BY <1>1, StartLocal DEF Typed, OthersKept

LEMMA TemplateRequestsTyped ==
    ASSUME PlanTypeOK, NEW w \in Workers, TemplateRequest(w)
    PROVE  Typed(w)
<1> USE DEF WorkerTypeOK, TemplateSteps, ScheduleSteps, GenerateSteps, SettingsSteps,
            HoldsTemplate, HoldsSchedule, Request
<1>1. got[w] \in Reads BY DEF PlanTypeOK
<1>2. CASE CreateTemplatesRequest(w)
  <2>1. PICK u \in Users, p \in Projects, items \in SUBSET TemplateForms :
           Start(w, "weeklyCreate",
                 Request(u, NoRow, 0, [project |-> p, items |-> items]))
    BY <1>2 DEF CreateTemplatesRequest
  <2>2. UNCHANGED got BY <1>2 DEF CreateTemplatesRequest
  <2>3. WorkerTypeOK(w)' BY <1>1, <2>1, <2>2, StartLocal
  <2>4. QED BY <2>1, <2>2, <2>3, StartTyped
<1>3. CASE UpdateTemplateRequest(w)
  <2>1. PICK u \in Users, p \in Projects, t \in TemplateIds, v \in Versions,
             f \in TemplateForms :
           Start(w, "weeklyUpdateLock",
                 Request(u, t, v, [project |-> p, form |-> f]))
    BY <1>3 DEF UpdateTemplateRequest
  <2>2. UNCHANGED got BY <1>3 DEF UpdateTemplateRequest
  <2>3. WorkerTypeOK(w)' BY <1>1, <2>1, <2>2, StartLocal
  <2>4. QED BY <2>1, <2>2, <2>3, StartTyped
<1>4. CASE DeleteTemplateRequest(w)
  <2>1. PICK u \in Users, p \in Projects, t \in TemplateIds, v \in Versions :
           Start(w, "weeklyDeleteLock", Request(u, t, v, [project |-> p]))
    BY <1>4 DEF DeleteTemplateRequest
  <2>2. UNCHANGED got BY <1>4 DEF DeleteTemplateRequest
  <2>3. WorkerTypeOK(w)' BY <1>1, <2>1, <2>2, StartLocal
  <2>4. QED BY <2>1, <2>2, <2>3, StartTyped
<1>5. QED BY <1>2, <1>3, <1>4 DEF TemplateRequest

\* A generation starts with the organization's time zone.
LEMMA GenerateRequestTyped ==
    ASSUME PlanTypeOK, NEW w \in Workers, GenerateRequest(w)
    PROVE  Typed(w)
<1>1. PICK u \in Users, p \in Projects, r \in Ranges, dry \in BOOLEAN,
           ids \in TemplateChoices :
         Start(w, "genTemplates",
               Request(u, NoRow, 0, [project |-> p, from |-> r.from, to |-> r.to,
                                     ids |-> ids, dry |-> dry]))
  BY DEF GenerateRequest
<1>2. req'[w].args \in [project : Projects, from : Nat, to : Nat,
                        ids : {NoRow} \cup SUBSET TemplateIds, dry : BOOLEAN]
  <2>1. r.from \in Nat /\ r.to \in Nat /\ ids \in {NoRow} \cup SUBSET TemplateIds
    BY PlanningAssumption
  <2>2. QED BY <1>1, <2>1, StartLocal DEF Request
<1>3. got' = [got EXCEPT ![w].zone = organization.zone] BY DEF GenerateRequest
<1>4. got[w] \in Reads /\ organization.zone \in Zones /\ DOMAIN got = Workers
  BY DEF PlanTypeOK, WorkerTypeOK
<1>5. got'[w] \in Reads /\ got'[w].zone \in Zones BY <1>3, <1>4 DEF Reads
<1>6. WorkerTypeOK(w)'
  BY <1>1, <1>2, <1>5, StartLocal DEF WorkerTypeOK, TemplateSteps, ScheduleSteps,
     GenerateSteps, SettingsSteps, HoldsTemplate, HoldsSchedule, Request
<1>7. OthersKept(w) BY <1>1, <1>3, <1>4, StartLocal DEF OthersKept
<1>8. QED BY <1>1, <1>6, <1>7, StartLocal DEF Typed

LEMMA ScheduleRequestsTyped ==
    ASSUME PlanTypeOK, NEW w \in Workers, ScheduleRequest(w)
    PROVE  Typed(w)
<1> USE DEF WorkerTypeOK, TemplateSteps, ScheduleSteps, GenerateSteps, SettingsSteps,
            HoldsTemplate, HoldsSchedule, Request
<1>1. got[w] \in Reads BY DEF PlanTypeOK
<1>2. CASE CreateScheduleRequest(w)
  <2>1. PICK u \in Users, p \in Projects, t \in Times :
           Start(w, "workCreate", Request(u, NoRow, 0, [project |-> p, time |-> t]))
    BY <1>2 DEF CreateScheduleRequest
  <2>2. UNCHANGED got BY <1>2 DEF CreateScheduleRequest
  <2>3. WorkerTypeOK(w)' BY <1>1, <2>1, <2>2, StartLocal
  <2>4. QED BY <2>1, <2>2, <2>3, StartTyped
<1>3. CASE UpdateScheduleRequest(w)
  <2>1. PICK u \in Users, s \in ScheduleIds, v \in Versions, p \in Projects,
             t \in Times :
           Start(w, "workUpdateLock", Request(u, s, v, [project |-> p, time |-> t]))
    BY <1>3 DEF UpdateScheduleRequest
  <2>2. UNCHANGED got BY <1>3 DEF UpdateScheduleRequest
  <2>3. WorkerTypeOK(w)' BY <1>1, <2>1, <2>2, StartLocal
  <2>4. QED BY <2>1, <2>2, <2>3, StartTyped
<1>4. CASE DeleteScheduleRequest(w)
  <2>1. PICK u \in Users, s \in ScheduleIds, v \in Versions :
           Start(w, "workDeleteLock", Request(u, s, v, NoRow))
    BY <1>4 DEF DeleteScheduleRequest
  <2>2. UNCHANGED got BY <1>4 DEF DeleteScheduleRequest
  <2>3. WorkerTypeOK(w)' BY <1>1, <2>1, <2>2, StartLocal
  <2>4. QED BY <2>1, <2>2, <2>3, StartTyped
<1>5. CASE GenerateRequest(w)
  BY <1>5, GenerateRequestTyped
<1>6. QED BY <1>2, <1>3, <1>4, <1>5 DEF ScheduleRequest

LEMMA SettingsRequestTyped ==
    ASSUME PlanTypeOK, NEW w \in Workers, SettingsRequest(w)
    PROVE  Typed(w)
<1>1. PICK u \in Users, sections \in SectionChoices, z \in Zones,
           seen \in [Sections -> Versions] :
         Start(w, "setUser",
               Request(u, NoRow, seen, [sections |-> sections, zone |-> z]))
  BY DEF SettingsRequest
<1>2. UNCHANGED got BY DEF SettingsRequest
<1>3. sections \in SUBSET Sections BY PlanningAssumption
<1>4. got[w] \in Reads BY DEF PlanTypeOK, WorkerTypeOK
<1>5. WorkerTypeOK(w)'
  BY <1>1, <1>2, <1>3, <1>4, StartLocal DEF WorkerTypeOK, TemplateSteps,
     ScheduleSteps, GenerateSteps, SettingsSteps, HoldsTemplate, HoldsSchedule,
     Request
<1>6. QED BY <1>1, <1>2, <1>5, StartTyped

(***************************************************************************)
(* Type correctness: steps.                                                *)
(***************************************************************************)
\* Keeping a row one has read.
LEMMA LoadLocal ==
    ASSUME PlanTypeOK, NEW w \in Workers, NEW row \in ReadRows,
           got' = [got EXCEPT ![w].row = row]
    PROVE  /\ DOMAIN got' = Workers
           /\ \A v \in Workers \ {w} : got'[v] = got[v]
           /\ got'[w] \in Reads
           /\ got'[w].row = row /\ got'[w].zone = got[w].zone
<1>1. DOMAIN got = Workers /\ got[w] \in Reads BY DEF PlanTypeOK, WorkerTypeOK
<1>2. got'[w] = [got[w] EXCEPT !.row = row] BY <1>1
<1>3. QED BY <1>1, <1>2 DEF Reads

\* Commits answer, and leave the tables as their types say.
LEMMA CommitTyped ==
    ASSUME PlanTypeOK, NEW w \in Workers, Answer(w), TablesTypeOK'
    PROVE  Typed(w)
  BY AnswerLocal DEF Typed

LEMMA InsertTyped ==
    ASSUME PlanTypeOK, NEW w \in Workers, Answer(w),
           \/ /\ \E rows \in SUBSET TemplateRow : templates' \in Insertions(templates, rows)
              /\ UNCHANGED <<schedules, settings>>
           \/ /\ \E rows \in SUBSET PlanRows : schedules' \in Insertions(schedules, rows)
              /\ UNCHANGED <<templates, settings>>
    PROVE  Typed(w)
<1>1. CASE /\ \E rows \in SUBSET TemplateRow : templates' \in Insertions(templates, rows)
           /\ UNCHANGED <<schedules, settings>>
  <2>1. templates \in [TemplateIds -> TemplateRow \cup {NoRow}] BY DEF PlanTypeOK
  <2>2. templates' \in [TemplateIds -> TemplateRow \cup {NoRow}]
    BY <1>1, <2>1, InsertionsKeep
  <2>3. TablesTypeOK' BY <1>1, <2>2 DEF PlanTypeOK, TablesTypeOK, settings
  <2>4. QED BY <2>3, CommitTyped
<1>2. CASE /\ \E rows \in SUBSET PlanRows : schedules' \in Insertions(schedules, rows)
           /\ UNCHANGED <<templates, settings>>
  <2>1. schedules \in [ScheduleIds -> PlanRows \cup {NoRow}] BY DEF PlanTypeOK
  <2>2. schedules' \in [ScheduleIds -> PlanRows \cup {NoRow}]
    BY <1>2, <2>1, InsertionsKeep
  <2>3. TablesTypeOK' BY <1>2, <2>2 DEF PlanTypeOK, TablesTypeOK, settings
  <2>4. QED BY <2>3, CommitTyped
<1>3. QED BY <1>1, <1>2

LEMMA LockTemplateTyped ==
    ASSUME PlanTypeOK, NEW w \in Workers,
           NEW step, LockTemplate(w, step),
           \/ pc[w] = "weeklyUpdateLock" /\ step = "weeklyUpdateCommit"
           \/ pc[w] = "weeklyDeleteLock" /\ step = "weeklyDeleteProject"
    PROVE  Typed(w)
<1> DEFINE row == templates[req[w].id]
<1>1. CASE Refuse(w) BY <1>1, RefuseTyped
<1>2. ASSUME req[w].id \in Visible(templates),
             got' = [got EXCEPT ![w].row = row], Goto(w, step)
      PROVE  Typed(w)
  <2>1. row \in TemplateRow BY <1>2 DEF Visible, PlanTypeOK
  <2>2. row \in ReadRows BY <2>1 DEF ReadRows
  <2>3. WorkerTypeOK(w) BY DEF PlanTypeOK
  <2>4. WorkerTypeOK(w)'
    BY <1>2, <2>1, <2>2, <2>3, LoadLocal, GotoLocal DEF WorkerTypeOK,
       TemplateSteps, ScheduleSteps, GenerateSteps, SettingsSteps, HoldsTemplate,
       HoldsSchedule
  <2>5. QED BY <1>2, <2>4, ReadLocal
<1>3. QED BY <1>1, <1>2 DEF LockTemplate

LEMMA TemplateStepsTyped ==
    ASSUME PlanTypeOK, LockedPlansCurrent, NEW w \in Workers, TemplateStep(w)
    PROVE  Typed(w)
<1>1. WorkerTypeOK(w) BY DEF PlanTypeOK
<1>2. templates \in [TemplateIds -> TemplateRow \cup {NoRow}] BY DEF PlanTypeOK
<1>3. CASE CreateTemplates(w)
  <2>1. CASE Refuse(w) BY <2>1, RefuseTyped
  <2>2. CASE ~Refuse(w)
    <3>1. NewTemplates(req[w].args) \in SUBSET TemplateRow
      <4>1. req[w].args \in [project : Projects, items : SUBSET TemplateForms]
        BY <1>1, <1>3 DEF CreateTemplates, WorkerTypeOK
      <4>2. ASSUME NEW f \in req[w].args.items
            PROVE  [project |-> req[w].args.project, form |-> f, version |-> 1,
                    deleted |-> FALSE] \in TemplateRow
        BY <4>1 DEF TemplateRow
      <4>3. QED BY <4>2 DEF NewTemplates
    <3>2. QED BY <1>3, <2>2, <3>1, InsertTyped DEF CreateTemplates
  <2>3. QED BY <2>1, <2>2
<1>4. CASE UpdateTemplateLock(w) \/ DeleteTemplateLock(w)
  BY <1>4, LockTemplateTyped DEF UpdateTemplateLock, DeleteTemplateLock
<1>5. CASE UpdateTemplateCommit(w)
  <2>1. CASE Refuse(w) BY <2>1, RefuseTyped
  <2>2. CASE ~Refuse(w)
    <3>1. got[w].row \in TemplateRow /\ req[w].args.form \in TemplateForms
      BY <1>1, <1>5 DEF UpdateTemplateCommit, WorkerTypeOK, HoldsTemplate
    <3>2. UpdatedTemplate(w) \in TemplateRow
      <4>1. got[w].row.version + 1 \in Nat BY <3>1 DEF TemplateRow
      <4>2. QED BY <3>1, <4>1 DEF UpdatedTemplate, TemplateRow
    <3>3. TablesTypeOK'
      BY <1>2, <1>5, <2>2, <3>2 DEF UpdateTemplateCommit, TablesTypeOK, PlanTypeOK,
         settings
    <3>4. QED BY <1>5, <2>2, <3>3, CommitTyped DEF UpdateTemplateCommit
  <2>3. QED BY <2>1, <2>2
<1>6. CASE DeleteTemplateLockProject(w)
  <2>1. WorkerTypeOK(w)'
    BY <1>1, <1>6, GotoLocal DEF DeleteTemplateLockProject, WorkerTypeOK,
       TemplateSteps, ScheduleSteps, GenerateSteps, SettingsSteps, HoldsTemplate,
       HoldsSchedule
  <2>2. DOMAIN got = Workers BY DEF PlanTypeOK
  <2>3. QED
    BY <1>6, <2>1, <2>2, GotoLocal DEF DeleteTemplateLockProject, Typed, OthersKept
<1>7. CASE DeleteTemplateCommit(w)
  <2>1. templates[req[w].id] \in TemplateRow
    BY <1>1, <1>7 DEF DeleteTemplateCommit, LockedPlansCurrent, LockedPlanCurrent,
       RowCurrent, WorkerTypeOK, HoldsTemplate
  <2>2. [templates[req[w].id] EXCEPT !.deleted = TRUE] \in TemplateRow
    BY <2>1 DEF TemplateRow
  <2>3. TablesTypeOK'
    BY <1>2, <1>7, <2>2 DEF DeleteTemplateCommit, TablesTypeOK, PlanTypeOK, settings
  <2>4. QED BY <1>7, <2>3, CommitTyped DEF DeleteTemplateCommit
<1>8. QED
  BY <1>3, <1>4, <1>5, <1>6, <1>7 DEF TemplateStep

LEMMA LockScheduleTyped ==
    ASSUME PlanTypeOK, NEW w \in Workers,
           NEW step, LockSchedule(w, step),
           \/ pc[w] = "workUpdateLock" /\ step = "workUpdateCommit"
           \/ pc[w] = "workDeleteLock" /\ step = "workDeleteProject"
    PROVE  Typed(w)
<1> DEFINE row == schedules[req[w].id]
<1>1. CASE Refuse(w) BY <1>1, RefuseTyped
<1>2. ASSUME req[w].id \in Visible(schedules),
             got' = [got EXCEPT ![w].row = row], Goto(w, step)
      PROVE  Typed(w)
  <2>1. row \in PlanRows BY <1>2 DEF Visible, PlanTypeOK
  <2>2. row \in ReadRows BY <2>1 DEF ReadRows
  <2>3. WorkerTypeOK(w) BY DEF PlanTypeOK
  <2>4. WorkerTypeOK(w)'
    BY <1>2, <2>1, <2>2, <2>3, LoadLocal, GotoLocal DEF WorkerTypeOK,
       TemplateSteps, ScheduleSteps, GenerateSteps, SettingsSteps, HoldsTemplate,
       HoldsSchedule
  <2>5. QED BY <1>2, <2>4, ReadLocal
<1>3. QED BY <1>1, <1>2 DEF LockSchedule

LEMMA CreateScheduleTyped ==
    ASSUME PlanTypeOK, NEW w \in Workers, CreateSchedule(w)
    PROVE  Typed(w)
<1>1. CASE Refuse(w) BY <1>1, RefuseTyped
<1>2. CASE ~Refuse(w)
  <2>1. /\ req[w].args \in [project : Projects, time : Times]
        /\ req[w].user \in Users
    BY DEF CreateSchedule, PlanTypeOK, WorkerTypeOK
  <2>2. /\ req[w].args.time.start \in Int /\ req[w].args.time.end \in Int
        /\ req[w].args.time.start < req[w].args.time.end
    BY <2>1, PlanningAssumption
  <2>3. NewSchedule(req[w].user, req[w].args) \in PlanRows
    BY <2>1, <2>2 DEF NewSchedule, PlanRows, ScheduleRow, InOrder
  <2>4. QED BY <1>2, <2>3, InsertTyped DEF CreateSchedule
<1>3. QED BY <1>1, <1>2

LEMMA UpdatedScheduleTyped ==
    ASSUME NEW w \in Workers, got[w].row \in PlanRows,
           req[w].args \in [project : Projects, time : Times]
    PROVE  /\ UpdatedSchedule(w) \in PlanRows
           /\ UpdatedSchedule(w).version = got[w].row.version + 1
           /\ ~UpdatedSchedule(w).deleted <=> ~got[w].row.deleted
<1> DEFINE row == got[w].row
           a == req[w].args
<1>1. /\ a.project \in Projects
      /\ a.time.start \in Int /\ a.time.end \in Int /\ a.time.start < a.time.end
  BY PlanningAssumption
<1>2. row \in ScheduleRow /\ row.version + 1 \in Nat BY DEF PlanRows, ScheduleRow
<1>3. /\ UpdatedSchedule(w).start = a.time.start /\ UpdatedSchedule(w).end = a.time.end
      /\ UpdatedSchedule(w).version = row.version + 1
      /\ UpdatedSchedule(w).deleted = row.deleted
  BY <1>2 DEF UpdatedSchedule, ScheduleRow
<1>4. UpdatedSchedule(w) \in ScheduleRow
  BY <1>1, <1>2 DEF UpdatedSchedule, ScheduleRow
<1>5. QED BY <1>1, <1>3, <1>4 DEF PlanRows, InOrder

LEMMA UpdateScheduleTyped ==
    ASSUME PlanTypeOK, NEW w \in Workers, UpdateScheduleCommit(w)
    PROVE  Typed(w)
<1>1. CASE Refuse(w) BY <1>1, RefuseTyped
<1>2. CASE ~Refuse(w)
  <2>1. /\ req[w].args \in [project : Projects, time : Times]
        /\ got[w].row \in PlanRows
    BY DEF UpdateScheduleCommit, PlanTypeOK, WorkerTypeOK, HoldsSchedule
  <2>2. UpdatedSchedule(w) \in PlanRows BY <2>1, UpdatedScheduleTyped
  <2>3. TablesTypeOK'
    BY <1>2, <2>2 DEF UpdateScheduleCommit, TablesTypeOK, PlanTypeOK, settings
  <2>4. QED BY <1>2, <2>3, CommitTyped DEF UpdateScheduleCommit
<1>3. QED BY <1>1, <1>2

LEMMA DeleteScheduleTyped ==
    ASSUME PlanTypeOK, LockedPlansCurrent, NEW w \in Workers,
           DeleteScheduleLockProject(w) \/ DeleteScheduleCommit(w)
    PROVE  Typed(w)
<1>1. WorkerTypeOK(w) BY DEF PlanTypeOK
<1>2. CASE DeleteScheduleLockProject(w)
  <2>1. WorkerTypeOK(w)'
    BY <1>1, <1>2, GotoLocal DEF DeleteScheduleLockProject, WorkerTypeOK,
       TemplateSteps, ScheduleSteps, GenerateSteps, SettingsSteps, HoldsTemplate,
       HoldsSchedule
  <2>2. DOMAIN got = Workers BY DEF PlanTypeOK
  <2>3. QED
    BY <1>2, <2>1, <2>2, GotoLocal DEF DeleteScheduleLockProject, Typed, OthersKept
<1>3. CASE DeleteScheduleCommit(w)
  <2>1. schedules[req[w].id] \in PlanRows
    BY <1>1, <1>3 DEF DeleteScheduleCommit, LockedPlansCurrent, LockedPlanCurrent,
       RowCurrent, WorkerTypeOK, HoldsSchedule
  <2>2. [schedules[req[w].id] EXCEPT !.deleted = TRUE] \in PlanRows
    BY <2>1 DEF PlanRows, ScheduleRow, InOrder
  <2>3. TablesTypeOK'
    BY <1>3, <2>2 DEF DeleteScheduleCommit, TablesTypeOK, PlanTypeOK, settings
  <2>4. QED BY <1>3, <2>3, CommitTyped DEF DeleteScheduleCommit
<1>4. QED BY <1>2, <1>3

(***************************************************************************)
(* Type correctness: generation.                                           *)
(***************************************************************************)
\* What a template and a day give is a schedule with its times in order.
LEMMA CandidateTyped ==
    ASSUME PlanTypeOK, NEW t \in TemplateIds, templates[t] \in TemplateRow,
           NEW day \in Int, NEW zone \in Zones
    PROVE  /\ Candidate(t, day, zone) \in CandidateRow
           /\ InOrder(Candidate(t, day, zone))
<1> DEFINE form == templates[t].form
<1>1. form \in TemplateForms BY DEF TemplateRow
<1>2. /\ form.user \in Users /\ form.start \in Nat /\ form.end \in Nat
      /\ form.start < form.end /\ form.rest \in 0..(form.end - form.start)
  BY <1>1, PlanningAssumption
<1>3. DayLength \in Int /\ Offset[zone] \in Int BY PlanningAssumption
<1>4. day * DayLength \in Int BY <1>3
<1>5. /\ Instant(day, form.start, zone) \in Int /\ Instant(day, form.end, zone) \in Int
      /\ Instant(day, form.start, zone) < Instant(day, form.end, zone)
  <2> DEFINE midnight == day * DayLength
  <2>1. midnight \in Int BY <1>4
  <2>2. /\ Instant(day, form.start, zone) = midnight + form.start - Offset[zone]
        /\ Instant(day, form.end, zone) = midnight + form.end - Offset[zone]
    BY DEF Instant
  <2> HIDE DEF midnight
  <2>3. QED BY <1>2, <1>3, <2>1, <2>2
<1>6. form.rest \in Nat BY <1>2
<1>7. QED BY <1>2, <1>5, <1>6 DEF Candidate, CandidateRow, InOrder

LEMMA GenerateOnTyped ==
    ASSUME PlanTypeOK, NEW w \in Workers, Generating(w),
           NEW step \in {"genExisting", "genCommit"}, Goto(w, step),
           DOMAIN got' = Workers, \A v \in Workers \ {w} : got'[v] = got[v],
           got'[w] \in Reads, got'[w].zone = got[w].zone
    PROVE  Typed(w)
<1>1. WorkerTypeOK(w) BY DEF PlanTypeOK
<1>2. WorkerTypeOK(w)'
  BY <1>1, GotoLocal DEF WorkerTypeOK, TemplateSteps, ScheduleSteps,
     GenerateSteps, SettingsSteps, HoldsTemplate, HoldsSchedule, Generating
<1>3. OthersKept(w) BY GotoLocal DEF OthersKept
<1>4. QED BY <1>2, <1>3, GotoLocal DEF Typed

LEMMA GenerateTemplatesTyped ==
    ASSUME PlanTypeOK, NEW w \in Workers, GenerateTemplates(w)
    PROVE  Typed(w)
<1> DEFINE a == req[w].args
           found == Candidates(Chosen(a), a, got[w].zone)
<1>1. CASE Refuse(w) BY <1>1, RefuseTyped
<1>2. CASE ~Refuse(w)
  <2>1. got' = [got EXCEPT ![w].candidates = found] /\ Goto(w, "genExisting")
    BY <1>2 DEF GenerateTemplates
  <2>2. /\ got[w] \in Reads /\ DOMAIN got = Workers /\ got[w].zone \in Zones
        /\ a.from \in Nat /\ a.to \in Nat
    BY DEF GenerateTemplates, PlanTypeOK, WorkerTypeOK, GenerateSteps
  <2>3. found \subseteq {c \in CandidateRow : InOrder(c)}
    <3>1. ASSUME NEW x \in Due(Chosen(a), a)
          PROVE  /\ Candidate(x[1], x[2], got[w].zone) \in CandidateRow
                 /\ InOrder(Candidate(x[1], x[2], got[w].zone))
      <4>1. x[1] \in Chosen(a) /\ x[2] \in a.from..a.to BY DEF Due
      <4>2. x[1] \in TemplateIds /\ templates[x[1]] \in TemplateRow
        BY <4>1 DEF Chosen, Visible, PlanTypeOK
      <4>3. x[2] \in Int BY <2>2, <4>1
      <4>4. QED BY <2>2, <4>2, <4>3, CandidateTyped
    <3>2. QED BY <3>1 DEF Candidates
  <2>4. /\ DOMAIN got' = Workers /\ \A v \in Workers \ {w} : got'[v] = got[v]
        /\ got'[w] = [got[w] EXCEPT !.candidates = found]
    BY <2>1, <2>2
  <2>5. got'[w] \in Reads /\ got'[w].zone = got[w].zone
    BY <2>2, <2>3, <2>4 DEF Reads
  <2>6. Generating(w) BY DEF GenerateTemplates, Generating
  <2>7. QED BY <2>1, <2>4, <2>5, <2>6, GenerateOnTyped
<1>3. QED BY <1>1, <1>2

LEMMA GenerateExistingTyped ==
    ASSUME PlanTypeOK, NEW w \in Workers, GenerateExisting(w)
    PROVE  Typed(w)
<1> DEFINE accepted == Accepted(got[w].candidates, Existing(req[w].args), got[w].zone)
           seen == {<<s, schedules[s].version>> : s \in Visible(schedules)}
<1>1. CASE Answer(w) /\ UNCHANGED tables BY <1>1, RefuseTyped DEF Refuse
<1>2. CASE ~(Answer(w) /\ UNCHANGED tables)
  <2>1. /\ got' = [got EXCEPT ![w].candidates = accepted, ![w].stood = seen]
        /\ Goto(w, "genCommit")
    BY <1>2 DEF GenerateExisting
  <2>2. got[w] \in Reads /\ DOMAIN got = Workers BY DEF PlanTypeOK, WorkerTypeOK
  <2>3. accepted \subseteq {c \in CandidateRow : InOrder(c)}
    BY <2>2 DEF Accepted, Reads
  <2>4. seen \subseteq ScheduleIds \X Nat
    <3>1. ASSUME NEW s \in Visible(schedules)
          PROVE  s \in ScheduleIds /\ schedules[s].version \in Nat
      BY DEF Visible, PlanTypeOK, PlanRows, ScheduleRow
    <3>2. QED BY <3>1
  <2>5. /\ DOMAIN got' = Workers /\ \A v \in Workers \ {w} : got'[v] = got[v]
        /\ got'[w] = [got[w] EXCEPT !.candidates = accepted, !.stood = seen]
    BY <2>1, <2>2
  <2>6. got'[w] \in Reads /\ got'[w].zone = got[w].zone
    BY <2>2, <2>3, <2>4, <2>5 DEF Reads
  <2>7. Generating(w) BY DEF GenerateExisting, Generating
  <2>8. QED BY <2>1, <2>5, <2>6, <2>7, GenerateOnTyped
<1>3. QED BY <1>1, <1>2

LEMMA GenerateCommitTyped ==
    ASSUME PlanTypeOK, NEW w \in Workers, GenerateCommit(w)
    PROVE  Typed(w)
<1>1. CASE Refuse(w) BY <1>1, RefuseTyped
<1>2. CASE ~Refuse(w)
  <2>1. got[w] \in Reads /\ req[w].args.project \in Projects
    BY DEF GenerateCommit, PlanTypeOK, WorkerTypeOK, GenerateSteps
  <2>2. ASSUME NEW c \in got[w].candidates
        PROVE  [project |-> req[w].args.project, user |-> c.user, source |-> c.source,
                start |-> c.start, end |-> c.end, rest |-> c.rest,
                overridden |-> FALSE, version |-> 1, deleted |-> FALSE] \in PlanRows
    <3>1. c \in CandidateRow /\ InOrder(c) BY <2>1 DEF Reads
    <3>2. QED BY <2>1, <3>1 DEF CandidateRow, PlanRows, ScheduleRow, InOrder
  <2>3. GeneratedRows(w) \in SUBSET PlanRows BY <2>2 DEF GeneratedRows
  <2>4. QED BY <1>2, <2>3, InsertTyped DEF GenerateCommit
<1>3. QED BY <1>1, <1>2

LEMMA ScheduleStepsTyped ==
    ASSUME PlanTypeOK, LockedPlansCurrent, NEW w \in Workers, ScheduleStep(w)
    PROVE  Typed(w)
<1>1. CASE UpdateScheduleLock(w) \/ DeleteScheduleLock(w)
  BY <1>1, LockScheduleTyped DEF UpdateScheduleLock, DeleteScheduleLock
<1>2. QED
  BY <1>1, CreateScheduleTyped, UpdateScheduleTyped, DeleteScheduleTyped,
     GenerateTemplatesTyped, GenerateExistingTyped, GenerateCommitTyped
     DEF ScheduleStep

(***************************************************************************)
(* Type correctness: settings, and the specification.                      *)
(***************************************************************************)
LEMMA SettingsLoadTyped ==
    ASSUME PlanTypeOK, NEW w \in Workers, pc[w] \in SettingsSteps,
           NEW step \in SettingsSteps, Goto(w, step),
           NEW row \in ReadRows, got' = [got EXCEPT ![w].row = row]
    PROVE  Typed(w)
<1>1. WorkerTypeOK(w) BY DEF PlanTypeOK
<1>2. got'[w] \in Reads BY LoadLocal
<1>3. pc'[w] = step /\ req'[w] = req[w] BY GotoLocal
<1>4. WorkerTypeOK(w)'
  BY <1>1, <1>2, <1>3 DEF WorkerTypeOK, TemplateSteps, ScheduleSteps,
     GenerateSteps, SettingsSteps, HoldsTemplate, HoldsSchedule
<1>5. QED BY <1>4, ReadLocal

LEMMA SettingsStepsTyped ==
    ASSUME PlanTypeOK, LockedPlansCurrent, NEW w \in Workers, SettingsStep(w)
    PROVE  Typed(w)
<1> USE DEF WorkerTypeOK, TemplateSteps, ScheduleSteps, GenerateSteps, SettingsSteps,
            HoldsTemplate, HoldsSchedule
<1>1. /\ WorkerTypeOK(w) /\ users \in [Users -> Nat] /\ business \in Nat
      /\ organization \in [zone : Zones, version : Nat]
  BY DEF PlanTypeOK
<1>2. CASE SettingsLockUser(w)
  <2>1. CASE Refuse(w) BY <2>1, RefuseTyped
  <2>2. CASE ~Refuse(w)
    <3> DEFINE row == [user |-> users[req[w].user]]
    <3>1. got' = [got EXCEPT ![w].row = row] /\ Goto(w, "setOrganization")
      BY <1>2, <2>2 DEF SettingsLockUser
    <3>2. row \in ReadRows
      <4>1. users[req[w].user] \in Nat BY <1>1, <1>2 DEF SettingsLockUser
      <4>2. row \in [user : Nat] BY <4>1
      <4>3. QED BY <4>2 DEF ReadRows
    <3>3. QED BY <1>2, <3>1, <3>2, SettingsLoadTyped DEF SettingsLockUser
  <2>3. QED BY <2>1, <2>2
<1>3. CASE SettingsLockOrganization(w)
  <2> DEFINE row == [user |-> got[w].row.user, organization |-> organization.version]
  <2>1. got' = [got EXCEPT ![w].row = row] /\ Goto(w, "setBusiness")
    BY <1>3, <1>1 DEF SettingsLockOrganization, PlanTypeOK
  <2>2. got[w].row.user \in Nat
    BY <1>1, <1>3 DEF SettingsLockOrganization, LockedPlansCurrent,
       LockedPlanCurrent, HoldsUser
  <2>3. row \in ReadRows
    <3>1. organization.version \in Nat BY <1>1
    <3>2. row \in [user : Nat, organization : Nat] BY <2>2, <3>1
    <3>3. QED BY <3>2 DEF ReadRows
  <2>4. QED BY <1>3, <2>1, <2>3, SettingsLoadTyped DEF SettingsLockOrganization
<1>4. CASE SettingsLockBusiness(w)
  <2>1. CASE Refuse(w) BY <2>1, RefuseTyped
  <2>2. CASE ~Refuse(w)
    <3> DEFINE row == [user |-> got[w].row.user,
                       organization |-> got[w].row.organization,
                       business |-> business]
    <3>1. got' = [got EXCEPT ![w].row = row] /\ Goto(w, "setCommit")
      BY <1>4, <2>2 DEF SettingsLockBusiness
    <3>2. got[w].row.user \in Nat /\ got[w].row.organization \in Nat
      BY <1>1, <1>4 DEF SettingsLockBusiness, LockedPlansCurrent,
         LockedPlanCurrent, HoldsUser, HoldsOrganization
    <3>3. row \in ReadRows
      <4>1. row \in [user : Nat, organization : Nat, business : Nat] BY <1>1, <3>2
      <4>2. QED BY <4>1 DEF ReadRows
    <3>4. QED BY <1>4, <3>1, <3>3, SettingsLoadTyped DEF SettingsLockBusiness
  <2>3. QED BY <2>1, <2>2
<1>5. CASE SettingsCommit(w)
  <2>1. /\ got[w].row.user \in Nat /\ got[w].row.organization \in Nat
        /\ got[w].row.business \in Nat
    BY <1>1, <1>5 DEF SettingsCommit, LockedPlansCurrent, LockedPlanCurrent,
       HoldsUser, HoldsOrganization
  <2>2. req[w].args.zone \in Zones /\ req[w].user \in Users
    BY <1>1, <1>5 DEF SettingsCommit
  <2>3. users' \in [Users -> Nat] /\ business' \in Nat
    BY <1>1, <1>5, <2>1, <2>2 DEF SettingsCommit
  <2>4. organization' \in [zone : Zones, version : Nat]
    <3>1. [zone |-> req[w].args.zone, version |-> got[w].row.organization + 1]
             \in [zone : Zones, version : Nat]
      BY <2>1, <2>2
    <3>2. QED BY <1>1, <1>5, <3>1 DEF SettingsCommit
  <2>5. TablesTypeOK'
    BY <1>5, <2>3, <2>4 DEF SettingsCommit, TablesTypeOK, PlanTypeOK
  <2>6. QED BY <1>5, <2>5, CommitTyped DEF SettingsCommit
<1>6. QED BY <1>2, <1>3, <1>4, <1>5 DEF SettingsStep

LEMMA PlanTypeInductive ==
    ASSUME PlanTypeOK, LockedPlansCurrent, [Next]_vars
    PROVE  PlanTypeOK'
<1>1. ASSUME NEW w \in Workers, Begin(w) \/ Step(w) PROVE PlanTypeOK'
  <2>1. Typed(w)
    BY <1>1, TemplateRequestsTyped, ScheduleRequestsTyped, SettingsRequestTyped,
       TemplateStepsTyped, ScheduleStepsTyped, SettingsStepsTyped, RefuseTyped
       DEF Begin, Step, Abort
  <2>2. QED BY <2>1, TypeFrame
<1>2. CASE UNCHANGED vars
  BY <1>2 DEF vars, PlanTypeOK, WorkerTypeOK, HoldsTemplate, HoldsSchedule
<1>3. QED BY <1>1, <1>2 DEF Next

LEMMA PlanTypeInitial ==
    ASSUME Init
    PROVE  PlanTypeOK
<1>1. NothingRead \in Reads BY NothingReadTyped
<1>2. FirstZone \in Zones BY PlanningAssumption
<1>3. QED
  BY <1>1, <1>2 DEF Init, PlanTypeOK, WorkerTypeOK, TemplateSteps, ScheduleSteps,
     GenerateSteps, SettingsSteps, HoldsTemplate, HoldsSchedule

----------------------------------------------------------------------------
(***************************************************************************)
(* Row locks.  No row is locked by two workers; a step writes no row but   *)
(* those its worker has locked and those that were not there; so what a    *)
(* worker has locked stays what it has read.                               *)
(***************************************************************************)
LocksExclusive ==
    \A v, w \in Workers : v # w =>
        /\ HoldsTemplate(v) /\ HoldsTemplate(w) => req[v].id # req[w].id
        /\ HoldsSchedule(v) /\ HoldsSchedule(w) => req[v].id # req[w].id
        /\ HoldsUser(v) /\ HoldsUser(w) => req[v].user # req[w].user
        /\ ~(HoldsOrganization(v) /\ HoldsOrganization(w))

PlanInv == PlanTypeOK /\ LockedPlansCurrent /\ LocksExclusive

LockedOnly(w) ==
    /\ \A t \in TemplateIds :
          \/ templates'[t] = templates[t] \/ templates[t] = NoRow
          \/ (HoldsTemplate(w) /\ req[w].id = t)
    /\ \A s \in ScheduleIds :
          \/ schedules'[s] = schedules[s] \/ schedules[s] = NoRow
          \/ (HoldsSchedule(w) /\ req[w].id = s)
    /\ \A u \in Users : users'[u] = users[u] \/ (HoldsUser(w) /\ req[w].user = u)
    /\ organization' = organization \/ HoldsOrganization(w)
    /\ business' = business \/ pc[w] = "setCommit"

Ends(w) == Answer(w) /\ LockedOnly(w)

\* A step before the last keeps its locks, or takes one that is free.
Advances(w) ==
    /\ UNCHANGED tables
    /\ LockedPlanCurrent(w)'
    /\ HoldsTemplate(w)' \/ HoldsSchedule(w)' \/ HoldsUser(w)' => req'[w] = req[w]
    /\ HoldsTemplate(w)' => HoldsTemplate(w) \/ TemplateFree(w, req[w].id)
    /\ HoldsSchedule(w)' => HoldsSchedule(w) \/ ScheduleFree(w, req[w].id)
    /\ HoldsUser(w)' => HoldsUser(w) \/ UserFree(w, req[w].user)
    /\ HoldsOrganization(w)' => HoldsOrganization(w) \/ OrganizationFree(w)

LEMMA RefuseEnds ==
    ASSUME NEW w \in Workers, Refuse(w)
    PROVE  Ends(w)
  BY DEF Refuse, Ends, LockedOnly, tables

\* A step that leaves its worker without locks.
LEMMA UnlockedAdvances ==
    ASSUME NEW w \in Workers, UNCHANGED tables,
           ~HoldsTemplate(w)', ~HoldsSchedule(w)', ~HoldsUser(w)'
    PROVE  Advances(w)
  BY DEF Advances, LockedPlanCurrent, HoldsTemplate, HoldsSchedule, HoldsUser,
     HoldsOrganization

LEMMA StartAdvances ==
    ASSUME PlanTypeOK, NEW w \in Workers, NEW request,
           NEW step \in {"weeklyCreate", "weeklyUpdateLock", "weeklyDeleteLock",
                         "workCreate", "workUpdateLock", "workDeleteLock",
                         "genTemplates", "setUser"},
           Start(w, step, request)
    PROVE  Advances(w)
<1>1. UNCHANGED tables /\ pc'[w] = step BY StartLocal
<1>2. QED BY <1>1, UnlockedAdvances DEF HoldsTemplate, HoldsSchedule, HoldsUser

LEMMA BeginAdvances ==
    ASSUME PlanTypeOK, NEW w \in Workers, Begin(w)
    PROVE  Advances(w)
<1>1. CASE TemplateRequest(w)
  BY <1>1, StartAdvances DEF TemplateRequest, CreateTemplatesRequest,
     UpdateTemplateRequest, DeleteTemplateRequest
<1>2. CASE ScheduleRequest(w)
  BY <1>2, StartAdvances DEF ScheduleRequest, CreateScheduleRequest,
     UpdateScheduleRequest, DeleteScheduleRequest, GenerateRequest
<1>3. CASE SettingsRequest(w)
  BY <1>3, StartAdvances DEF SettingsRequest
<1>4. QED BY <1>1, <1>2, <1>3 DEF Begin

LEMMA TemplateStepMoves ==
    ASSUME PlanInv, NEW w \in Workers, TemplateStep(w)
    PROVE  Advances(w) \/ Ends(w)
<1> USE DEF HoldsTemplate, HoldsSchedule, HoldsUser, HoldsOrganization
<1>1. /\ PlanTypeOK /\ LockedPlanCurrent(w) /\ WorkerTypeOK(w)
      /\ templates \in [TemplateIds -> TemplateRow \cup {NoRow}]
  BY DEF PlanInv, PlanTypeOK, LockedPlansCurrent
<1>2. CASE CreateTemplates(w)
  <2>1. CASE Refuse(w) BY <2>1, RefuseEnds
  <2>2. CASE ~Refuse(w)
    <3>1. Answer(w) /\ UNCHANGED <<schedules, settings>> BY <1>2, <2>2 DEF CreateTemplates
    <3>2. ASSUME NEW t \in TemplateIds
          PROVE  templates'[t] = templates[t] \/ templates[t] = NoRow
      <4>1. templates' \in Insertions(templates, NewTemplates(req[w].args))
        BY <1>2, <2>2 DEF CreateTemplates
      <4>2. QED BY <1>1, <4>1, InsertionsKeepOld
    <3>3. QED BY <3>1, <3>2 DEF Ends, LockedOnly, settings
  <2>3. QED BY <2>1, <2>2
<1>3. ASSUME NEW step \in {"weeklyUpdateCommit", "weeklyDeleteProject"},
             LockTemplate(w, step)
      PROVE  Advances(w) \/ Ends(w)
  <2>1. CASE Refuse(w) BY <2>1, RefuseEnds
  <2>2. CASE ~Refuse(w)
    <3>1. /\ TemplateFree(w, req[w].id) /\ Goto(w, step)
          /\ req[w].id \in Visible(templates)
          /\ templates[req[w].id].version = req[w].version
      BY <1>3, <2>2 DEF LockTemplate
    <3>2. got'[w].row = templates[req[w].id]
      <4>1. got' = [got EXCEPT ![w].row = templates[req[w].id]]
        BY <1>3, <2>2 DEF LockTemplate
      <4>2. DOMAIN got = Workers /\ got[w] \in Reads BY <1>1 DEF PlanTypeOK, WorkerTypeOK
      <4>3. QED BY <4>1, <4>2 DEF Reads
    <3>3. UNCHANGED tables /\ pc'[w] = step /\ req'[w] = req[w]
      BY <1>1, <3>1, GotoLocal
    <3>4. LockedPlanCurrent(w)'
      BY <3>1, <3>2, <3>3 DEF LockedPlanCurrent, RowCurrent, Visible, tables
    <3>5. QED BY <3>1, <3>3, <3>4 DEF Advances
  <2>3. QED BY <2>1, <2>2
<1>4. CASE UpdateTemplateCommit(w)
  <2>1. CASE Refuse(w) BY <2>1, RefuseEnds
  <2>2. CASE ~Refuse(w)
    BY <1>1, <1>4, <2>2 DEF UpdateTemplateCommit, Ends, LockedOnly, settings
  <2>3. QED BY <2>1, <2>2
<1>5. CASE DeleteTemplateLockProject(w)
  <2>1. UNCHANGED tables /\ pc'[w] = "weeklyDeleteCommit" /\ req'[w] = req[w]
    BY <1>1, <1>5, GotoLocal DEF DeleteTemplateLockProject
  <2>2. UNCHANGED got /\ pc[w] = "weeklyDeleteProject"
    BY <1>5 DEF DeleteTemplateLockProject
  <2>3. LockedPlanCurrent(w)'
    BY <1>1, <2>1, <2>2 DEF LockedPlanCurrent, RowCurrent, Visible, tables
  <2>4. QED BY <2>1, <2>2, <2>3 DEF Advances
<1>6. CASE DeleteTemplateCommit(w)
  BY <1>1, <1>6 DEF DeleteTemplateCommit, Ends, LockedOnly, settings
<1>7. QED
  BY <1>2, <1>3, <1>4, <1>5, <1>6 DEF TemplateStep, UpdateTemplateLock,
     DeleteTemplateLock

LEMMA GenerateStepMoves ==
    ASSUME PlanInv, NEW w \in Workers,
           GenerateTemplates(w) \/ GenerateExisting(w) \/ GenerateCommit(w)
    PROVE  Advances(w) \/ Ends(w)
<1>1. PlanTypeOK /\ schedules \in [ScheduleIds -> PlanRows \cup {NoRow}]
  BY DEF PlanInv, PlanTypeOK
<1>2. CASE Refuse(w) BY <1>2, RefuseEnds
<1>3. ASSUME NEW step \in {"genExisting", "genCommit"}, Goto(w, step)
      PROVE  Advances(w)
  <2>1. UNCHANGED tables /\ pc'[w] = step BY <1>1, <1>3, GotoLocal
  <2>2. QED BY <2>1, UnlockedAdvances DEF HoldsTemplate, HoldsSchedule, HoldsUser
<1>4. CASE GenerateTemplates(w) /\ ~Refuse(w)
  BY <1>3, <1>4 DEF GenerateTemplates
<1>5. CASE GenerateExisting(w) /\ ~Refuse(w)
  BY <1>3, <1>5 DEF GenerateExisting, Refuse
<1>6. CASE GenerateCommit(w) /\ ~Refuse(w)
  <2>1. Answer(w) /\ UNCHANGED <<templates, settings>> BY <1>6 DEF GenerateCommit
  <2>2. schedules' \in Insertions(schedules, GeneratedRows(w))
    BY <1>6 DEF GenerateCommit
  <2>3. ASSUME NEW s \in ScheduleIds
        PROVE  schedules'[s] = schedules[s] \/ schedules[s] = NoRow
    BY <1>1, <2>2, InsertionsKeepOld
  <2>4. QED BY <2>1, <2>3 DEF Ends, LockedOnly, settings
<1>7. QED BY <1>2, <1>4, <1>5, <1>6

LEMMA ScheduleStepMoves ==
    ASSUME PlanInv, NEW w \in Workers, ScheduleStep(w)
    PROVE  Advances(w) \/ Ends(w)
<1> USE DEF HoldsTemplate, HoldsSchedule, HoldsUser, HoldsOrganization
<1>1. /\ PlanTypeOK /\ LockedPlanCurrent(w) /\ WorkerTypeOK(w)
      /\ schedules \in [ScheduleIds -> PlanRows \cup {NoRow}]
  BY DEF PlanInv, PlanTypeOK, LockedPlansCurrent
<1>2. CASE CreateSchedule(w)
  <2>1. CASE Refuse(w) BY <2>1, RefuseEnds
  <2>2. CASE ~Refuse(w)
    <3>1. Answer(w) /\ UNCHANGED <<templates, settings>> BY <1>2, <2>2 DEF CreateSchedule
    <3>2. schedules' \in Insertions(schedules, {NewSchedule(req[w].user, req[w].args)})
      BY <1>2, <2>2 DEF CreateSchedule
    <3>3. ASSUME NEW s \in ScheduleIds
          PROVE  schedules'[s] = schedules[s] \/ schedules[s] = NoRow
      BY <1>1, <3>2, InsertionsKeepOld
    <3>4. QED BY <3>1, <3>3 DEF Ends, LockedOnly, settings
  <2>3. QED BY <2>1, <2>2
<1>3. ASSUME NEW step \in {"workUpdateCommit", "workDeleteProject"},
             LockSchedule(w, step)
      PROVE  Advances(w) \/ Ends(w)
  <2>1. CASE Refuse(w) BY <2>1, RefuseEnds
  <2>2. CASE ~Refuse(w)
    <3>1. /\ ScheduleFree(w, req[w].id) /\ Goto(w, step)
          /\ req[w].id \in Visible(schedules)
          /\ schedules[req[w].id].version = req[w].version
      BY <1>3, <2>2 DEF LockSchedule
    <3>2. got'[w].row = schedules[req[w].id]
      <4>1. got' = [got EXCEPT ![w].row = schedules[req[w].id]]
        BY <1>3, <2>2 DEF LockSchedule
      <4>2. DOMAIN got = Workers /\ got[w] \in Reads BY <1>1 DEF PlanTypeOK, WorkerTypeOK
      <4>3. QED BY <4>1, <4>2 DEF Reads
    <3>3. UNCHANGED tables /\ pc'[w] = step /\ req'[w] = req[w]
      BY <1>1, <3>1, GotoLocal
    <3>4. LockedPlanCurrent(w)'
      BY <3>1, <3>2, <3>3 DEF LockedPlanCurrent, RowCurrent, Visible, tables
    <3>5. QED BY <3>1, <3>3, <3>4 DEF Advances
  <2>3. QED BY <2>1, <2>2
<1>4. CASE UpdateScheduleCommit(w)
  <2>1. CASE Refuse(w) BY <2>1, RefuseEnds
  <2>2. CASE ~Refuse(w)
    BY <1>1, <1>4, <2>2 DEF UpdateScheduleCommit, Ends, LockedOnly, settings
  <2>3. QED BY <2>1, <2>2
<1>5. CASE DeleteScheduleLockProject(w)
  <2>1. UNCHANGED tables /\ pc'[w] = "workDeleteCommit" /\ req'[w] = req[w]
    BY <1>1, <1>5, GotoLocal DEF DeleteScheduleLockProject
  <2>2. UNCHANGED got /\ pc[w] = "workDeleteProject"
    BY <1>5 DEF DeleteScheduleLockProject
  <2>3. LockedPlanCurrent(w)'
    BY <1>1, <2>1, <2>2 DEF LockedPlanCurrent, RowCurrent, Visible, tables
  <2>4. QED BY <2>1, <2>2, <2>3 DEF Advances
<1>6. CASE DeleteScheduleCommit(w)
  BY <1>1, <1>6 DEF DeleteScheduleCommit, Ends, LockedOnly, settings
<1>7. QED
  BY <1>2, <1>3, <1>4, <1>5, <1>6, GenerateStepMoves DEF ScheduleStep,
     UpdateScheduleLock, DeleteScheduleLock

LEMMA SettingsStepMoves ==
    ASSUME PlanInv, NEW w \in Workers, SettingsStep(w)
    PROVE  Advances(w) \/ Ends(w)
<1> USE DEF HoldsTemplate, HoldsSchedule, HoldsUser, HoldsOrganization
<1>1. /\ PlanTypeOK /\ LockedPlanCurrent(w) /\ DOMAIN got = Workers
      /\ got[w] \in Reads
  BY DEF PlanInv, PlanTypeOK, WorkerTypeOK, LockedPlansCurrent
<1>2. CASE Refuse(w) BY <1>2, RefuseEnds
<1>3. CASE SettingsLockUser(w) /\ ~Refuse(w)
  <2>1. /\ UserFree(w, req[w].user) /\ Goto(w, "setOrganization")
        /\ got' = [got EXCEPT ![w].row = [user |-> users[req[w].user]]]
    BY <1>3 DEF SettingsLockUser
  <2>2. got'[w].row.user = users[req[w].user] BY <1>1, <2>1 DEF Reads
  <2>3. UNCHANGED tables /\ pc'[w] = "setOrganization" /\ req'[w] = req[w]
    BY <1>1, <2>1, GotoLocal
  <2>4. LockedPlanCurrent(w)' BY <2>2, <2>3 DEF LockedPlanCurrent, tables
  <2>5. QED BY <2>1, <2>3, <2>4 DEF Advances
<1>4. CASE SettingsLockOrganization(w)
  <2>1. /\ OrganizationFree(w) /\ Goto(w, "setBusiness")
        /\ got' = [got EXCEPT ![w].row =
              [user |-> @.user, organization |-> organization.version]]
        /\ pc[w] = "setOrganization"
    BY <1>4 DEF SettingsLockOrganization
  <2>2. /\ got'[w].row.user = got[w].row.user
        /\ got'[w].row.organization = organization.version
    BY <1>1, <2>1 DEF Reads
  <2>3. UNCHANGED tables /\ pc'[w] = "setBusiness" /\ req'[w] = req[w]
    BY <1>1, <2>1, GotoLocal
  <2>4. LockedPlanCurrent(w)'
    BY <1>1, <2>1, <2>2, <2>3 DEF LockedPlanCurrent, tables
  <2>5. QED BY <2>1, <2>3, <2>4 DEF Advances
<1>5. CASE SettingsLockBusiness(w) /\ ~Refuse(w)
  <2> DEFINE row == [user |-> got[w].row.user,
                     organization |-> got[w].row.organization,
                     business |-> business]
  <2>1. /\ Goto(w, "setCommit") /\ pc[w] = "setBusiness"
        /\ got' = [got EXCEPT ![w].row = row]
        /\ \A s \in req[w].args.sections : row[s] = req[w].version[s]
    BY <1>5 DEF SettingsLockBusiness
  <2>2. got'[w].row = row BY <1>1, <2>1 DEF Reads
  <2>3. UNCHANGED tables /\ pc'[w] = "setCommit" /\ req'[w] = req[w]
    BY <1>1, <2>1, GotoLocal
  <2>4. LockedPlanCurrent(w)'
    BY <1>1, <2>1, <2>2, <2>3 DEF LockedPlanCurrent, tables
  <2>5. QED BY <2>1, <2>3, <2>4 DEF Advances
<1>6. CASE SettingsCommit(w)
  <2>1. users \in [Users -> Nat] BY <1>1 DEF PlanTypeOK
  <2>2. /\ Answer(w) /\ UNCHANGED <<templates, schedules>> /\ pc[w] = "setCommit"
        /\ users' = users \/ users' = [users EXCEPT ![req[w].user] = got[w].row.user + 1]
    BY <1>6 DEF SettingsCommit
  <2>3. QED BY <2>1, <2>2 DEF Ends, LockedOnly
<1>7. QED BY <1>2, <1>3, <1>4, <1>5, <1>6 DEF SettingsStep

\* What every step does to its worker and to the tables.
LEMMA PlanMoves ==
    ASSUME PlanInv, NEW w \in Workers, Begin(w) \/ Step(w)
    PROVE  Advances(w) \/ Ends(w)
  BY BeginAdvances, TemplateStepMoves, ScheduleStepMoves, SettingsStepMoves,
     RefuseEnds DEF Step, Abort, PlanInv

LEMMA StepTyped ==
    ASSUME PlanInv, NEW w \in Workers, Begin(w) \/ Step(w)
    PROVE  Typed(w)
  BY TemplateRequestsTyped, ScheduleRequestsTyped, SettingsRequestTyped,
     TemplateStepsTyped, ScheduleStepsTyped, SettingsStepsTyped, RefuseTyped
     DEF Begin, Step, Abort, PlanInv

\* A step that ends takes nothing from what another worker has locked.
LEMMA OthersCurrent ==
    ASSUME PlanInv, NEW w \in Workers, NEW v \in Workers \ {w}, Typed(w),
           Advances(w) \/ Ends(w)
    PROVE  LockedPlanCurrent(v)'
<1> USE DEF HoldsTemplate, HoldsSchedule, HoldsUser, HoldsOrganization
<1>1. /\ LockedPlanCurrent(v) /\ WorkerTypeOK(v)
      /\ pc'[v] = pc[v] /\ req'[v] = req[v] /\ got'[v] = got[v]
      /\ DOMAIN templates' = TemplateIds /\ DOMAIN schedules' = ScheduleIds
  BY DEF PlanInv, PlanTypeOK, LockedPlansCurrent, OthersKept, Typed, TablesTypeOK
<1>2. CASE UNCHANGED tables
  BY <1>1, <1>2 DEF LockedPlanCurrent, RowCurrent, Visible, tables
<1>3. CASE Ends(w)
  <2>1. LockedOnly(w) BY <1>3 DEF Ends
  <2>2. ASSUME HoldsTemplate(v) PROVE RowCurrent(templates, v)'
    <3>1. RowCurrent(templates, v) /\ req[v].id \in TemplateIds
      BY <1>1, <2>2 DEF LockedPlanCurrent, WorkerTypeOK, TemplateSteps
    <3>2. ~(HoldsTemplate(w) /\ req[w].id = req[v].id)
      BY <2>2 DEF PlanInv, LocksExclusive
    <3>3. templates[req[v].id] # NoRow BY <3>1 DEF RowCurrent, Visible
    <3>4. templates'[req[v].id] = templates[req[v].id]
      BY <2>1, <3>1, <3>2, <3>3 DEF LockedOnly
    <3>5. QED BY <1>1, <3>1, <3>4 DEF RowCurrent, Visible
  <2>3. ASSUME HoldsSchedule(v) PROVE RowCurrent(schedules, v)'
    <3>1. RowCurrent(schedules, v) /\ req[v].id \in ScheduleIds
      BY <1>1, <2>3 DEF LockedPlanCurrent, WorkerTypeOK, ScheduleSteps
    <3>2. ~(HoldsSchedule(w) /\ req[w].id = req[v].id)
      BY <2>3 DEF PlanInv, LocksExclusive
    <3>3. schedules[req[v].id] # NoRow BY <3>1 DEF RowCurrent, Visible
    <3>4. schedules'[req[v].id] = schedules[req[v].id]
      BY <2>1, <3>1, <3>2, <3>3 DEF LockedOnly
    <3>5. QED BY <1>1, <3>1, <3>4 DEF RowCurrent, Visible
  <2>4. ASSUME HoldsUser(v) PROVE users'[req[v].user] = users[req[v].user]
    <3>1. req[v].user \in Users BY <1>1, <2>4 DEF WorkerTypeOK
    <3>2. ~(HoldsUser(w) /\ req[w].user = req[v].user)
      BY <2>4 DEF PlanInv, LocksExclusive
    <3>3. QED BY <2>1, <3>1, <3>2 DEF LockedOnly
  <2>5. ASSUME HoldsOrganization(v) PROVE UNCHANGED <<organization, business>>
    <3>1. ~HoldsOrganization(w) BY <2>5 DEF PlanInv, LocksExclusive
    <3>2. QED BY <2>1, <3>1 DEF LockedOnly
  <2>6. QED BY <1>1, <2>2, <2>3, <2>4, <2>5 DEF LockedPlanCurrent
<1>4. QED BY <1>2, <1>3 DEF Advances

LEMMA LocksStayExclusive ==
    ASSUME PlanInv, NEW w \in Workers, Typed(w), Advances(w) \/ Ends(w)
    PROVE  LocksExclusive'
<1> DEFINE Apart(u, v) ==
        /\ HoldsTemplate(u) /\ HoldsTemplate(v) => req[u].id # req[v].id
        /\ HoldsSchedule(u) /\ HoldsSchedule(v) => req[u].id # req[v].id
        /\ HoldsUser(u) /\ HoldsUser(v) => req[u].user # req[v].user
        /\ ~(HoldsOrganization(u) /\ HoldsOrganization(v))
<1>1. ASSUME NEW v \in Workers \ {w} PROVE Apart(w, v)' /\ Apart(v, w)'
  <2>1. pc'[v] = pc[v] /\ req'[v] = req[v] BY DEF Typed, OthersKept
  <2>2. Apart(w, v) BY DEF PlanInv, LocksExclusive
  <2>3. /\ HoldsTemplate(v)' = HoldsTemplate(v) /\ HoldsSchedule(v)' = HoldsSchedule(v)
        /\ HoldsUser(v)' = HoldsUser(v) /\ HoldsOrganization(v)' = HoldsOrganization(v)
    BY <2>1 DEF HoldsTemplate, HoldsSchedule, HoldsUser, HoldsOrganization
  <2>4. CASE Advances(w)
    <3>1. HoldsTemplate(w)' /\ HoldsTemplate(v)' => req'[w].id # req'[v].id
      BY <2>1, <2>2, <2>3, <2>4 DEF Advances, TemplateFree
    <3>2. HoldsSchedule(w)' /\ HoldsSchedule(v)' => req'[w].id # req'[v].id
      BY <2>1, <2>2, <2>3, <2>4 DEF Advances, ScheduleFree
    <3>3. HoldsUser(w)' /\ HoldsUser(v)' => req'[w].user # req'[v].user
      BY <2>1, <2>2, <2>3, <2>4 DEF Advances, UserFree
    <3>4. ~(HoldsOrganization(w)' /\ HoldsOrganization(v)')
      BY <2>1, <2>2, <2>3, <2>4 DEF Advances, OrganizationFree
    <3>5. QED BY <3>1, <3>2, <3>3, <3>4
  <2>5. CASE Ends(w)
    <3>1. pc'[w] = "idle" BY <2>5, AnswerLocal DEF Ends, PlanInv
    <3>2. QED
      BY <3>1 DEF HoldsTemplate, HoldsSchedule, HoldsUser, HoldsOrganization
  <2>6. QED BY <2>4, <2>5
<1>2. ASSUME NEW u \in Workers \ {w}, NEW v \in Workers \ {w}, u # v
      PROVE  Apart(u, v)'
  <2>1. pc'[v] = pc[v] /\ req'[v] = req[v] /\ pc'[u] = pc[u] /\ req'[u] = req[u]
    BY DEF Typed, OthersKept
  <2>2. Apart(u, v) BY <1>2 DEF PlanInv, LocksExclusive
  <2>3. QED
    BY <2>1, <2>2 DEF HoldsTemplate, HoldsSchedule, HoldsUser, HoldsOrganization
<1>3. ASSUME NEW u \in Workers, NEW v \in Workers, u # v PROVE Apart(u, v)'
  BY <1>1, <1>2, <1>3
<1>4. QED BY <1>3 DEF LocksExclusive

LEMMA PlanInvInductive ==
    ASSUME PlanInv, [Next]_vars
    PROVE  PlanInv'
<1>1. ASSUME NEW w \in Workers, Begin(w) \/ Step(w) PROVE PlanInv'
  <2>1. Typed(w) /\ (Advances(w) \/ Ends(w)) BY <1>1, StepTyped, PlanMoves
  <2>2. PlanTypeOK' BY <2>1, TypeFrame DEF PlanInv
  <2>3. LocksExclusive' BY <2>1, LocksStayExclusive
  <2>4. LockedPlanCurrent(w)'
    <3>1. CASE Advances(w) BY <3>1 DEF Advances
    <3>2. CASE Ends(w)
      <4>1. pc'[w] = "idle" BY <3>2, AnswerLocal DEF Ends, PlanInv
      <4>2. QED
        BY <4>1 DEF LockedPlanCurrent, HoldsTemplate, HoldsSchedule, HoldsUser,
           HoldsOrganization
    <3>3. QED BY <2>1, <3>1, <3>2
  <2>5. LockedPlansCurrent' BY <2>1, <2>4, OthersCurrent DEF LockedPlansCurrent
  <2>6. QED BY <2>2, <2>3, <2>5 DEF PlanInv
<1>2. CASE UNCHANGED vars
  <2>1. PlanTypeOK' BY <1>2, PlanTypeInductive DEF PlanInv
  <2>2. LockedPlansCurrent'
    BY <1>2 DEF vars, PlanInv, LockedPlansCurrent, LockedPlanCurrent, RowCurrent,
       Visible, HoldsTemplate, HoldsSchedule, HoldsUser, HoldsOrganization
  <2>3. LocksExclusive'
    BY <1>2 DEF vars, PlanInv, LocksExclusive, HoldsTemplate, HoldsSchedule,
       HoldsUser, HoldsOrganization
  <2>4. QED BY <2>1, <2>2, <2>3 DEF PlanInv
<1>3. QED BY <1>1, <1>2 DEF Next

LEMMA PlanInvAlways == Spec => []PlanInv
<1>1. Init => PlanInv
  <2>1. ASSUME Init PROVE PlanInv
    <3>1. \A w \in Workers : pc[w] = "idle" BY <2>1 DEF Init
    <3>2. LockedPlansCurrent /\ LocksExclusive
      BY <3>1 DEF LockedPlansCurrent, LockedPlanCurrent, LocksExclusive,
         HoldsTemplate, HoldsSchedule, HoldsUser, HoldsOrganization
    <3>3. QED BY <2>1, <3>2, PlanTypeInitial DEF PlanInv
  <2>2. QED BY <2>1
<1>2. PlanInv /\ [Next]_vars => PlanInv' BY PlanInvInductive
<1>3. QED BY <1>1, <1>2, PTL DEF Spec

\* In every state rows, requests and what transactions have read are as their
\* types say: no planned schedule ends before it starts, whatever templates,
\* days and time zones it was generated from.
THEOREM PlanTypeCorrect == Spec => []PlanTypeOK
<1>1. PlanInv => PlanTypeOK BY DEF PlanInv
<1>2. QED BY <1>1, PlanInvAlways, PTL

\* What a transaction has locked stays what it has read: the rows of a template,
\* a schedule, and of the settings, from their SELECT FOR UPDATE to the commit.
THEOREM LockedPlansStayCurrent == Spec => []LockedPlansCurrent
<1>1. PlanInv => LockedPlansCurrent BY DEF PlanInv
<1>2. QED BY <1>1, PlanInvAlways, PTL

----------------------------------------------------------------------------
(***************************************************************************)
(* What a step may change.                                                 *)
(***************************************************************************)
\* The statements of each service.
LEMMA BeginsIdle ==
    ASSUME NEW w \in Workers, Begin(w)
    PROVE  pc[w] = "idle"
  BY DEF Begin, TemplateRequest, ScheduleRequest, CreateTemplatesRequest,
     UpdateTemplateRequest, DeleteTemplateRequest, CreateScheduleRequest,
     UpdateScheduleRequest, DeleteScheduleRequest, GenerateRequest, SettingsRequest,
     Start

LEMMA TemplateStepAt ==
    ASSUME NEW w \in Workers, TemplateStep(w)
    PROVE  \/ pc[w] = "weeklyCreate"
           \/ pc[w] \in {"weeklyUpdateLock", "weeklyDeleteLock"}
           \/ UNCHANGED tables
           \/ pc[w] = "weeklyUpdateCommit" /\ UpdateTemplateCommit(w)
           \/ pc[w] = "weeklyDeleteCommit" /\ DeleteTemplateCommit(w)
<1>1. CASE CreateTemplates(w) BY <1>1 DEF CreateTemplates
<1>2. CASE UpdateTemplateLock(w) BY <1>2 DEF UpdateTemplateLock
<1>3. CASE UpdateTemplateCommit(w) BY <1>3 DEF UpdateTemplateCommit
<1>4. CASE DeleteTemplateLock(w) BY <1>4 DEF DeleteTemplateLock
<1>5. CASE DeleteTemplateLockProject(w) BY <1>5 DEF DeleteTemplateLockProject, Goto
<1>6. CASE DeleteTemplateCommit(w) BY <1>6 DEF DeleteTemplateCommit
<1>7. QED BY <1>1, <1>2, <1>3, <1>4, <1>5, <1>6 DEF TemplateStep

LEMMA ScheduleStepAt ==
    ASSUME NEW w \in Workers, ScheduleStep(w)
    PROVE  \/ pc[w] \in {"workCreate", "genTemplates", "genExisting", "genCommit"}
           \/ pc[w] \in {"workUpdateLock", "workDeleteLock"}
           \/ UNCHANGED tables
           \/ pc[w] = "workUpdateCommit" /\ UpdateScheduleCommit(w)
           \/ pc[w] = "workDeleteCommit" /\ DeleteScheduleCommit(w)
<1>1. CASE CreateSchedule(w) BY <1>1 DEF CreateSchedule
<1>2. CASE UpdateScheduleLock(w) BY <1>2 DEF UpdateScheduleLock
<1>3. CASE UpdateScheduleCommit(w) BY <1>3 DEF UpdateScheduleCommit
<1>4. CASE DeleteScheduleLock(w) BY <1>4 DEF DeleteScheduleLock
<1>5. CASE DeleteScheduleLockProject(w) BY <1>5 DEF DeleteScheduleLockProject, Goto
<1>6. CASE DeleteScheduleCommit(w) BY <1>6 DEF DeleteScheduleCommit
<1>7. CASE GenerateTemplates(w) BY <1>7 DEF GenerateTemplates
<1>8. CASE GenerateExisting(w) BY <1>8 DEF GenerateExisting
<1>9. CASE GenerateCommit(w) BY <1>9 DEF GenerateCommit
<1>10. QED
  BY <1>1, <1>2, <1>3, <1>4, <1>5, <1>6, <1>7, <1>8, <1>9 DEF ScheduleStep

LEMMA SettingsStepAt ==
    ASSUME NEW w \in Workers, SettingsStep(w)
    PROVE  \/ pc[w] \in {"setUser", "setOrganization", "setBusiness"}
           \/ pc[w] = "setCommit" /\ SettingsCommit(w)
<1>1. CASE SettingsLockUser(w) BY <1>1 DEF SettingsLockUser
<1>2. CASE SettingsLockOrganization(w) BY <1>2 DEF SettingsLockOrganization
<1>3. CASE SettingsLockBusiness(w) BY <1>3 DEF SettingsLockBusiness
<1>4. CASE SettingsCommit(w) BY <1>4 DEF SettingsCommit
<1>5. QED BY <1>1, <1>2, <1>3, <1>4 DEF SettingsStep

LEMMA TemplateChange ==
    ASSUME PlanInv, NEW w \in Workers, Begin(w) \/ Step(w), NEW t \in TemplateIds
    PROVE  PlannedChange(templates, t, {"weeklyUpdateCommit", "weeklyDeleteCommit"})
<1> DEFINE commits == {"weeklyUpdateCommit", "weeklyDeleteCommit"}
<1>1. SUFFICES ASSUME templates'[t] # templates[t], templates[t] # NoRow
      PROVE  PlannedChange(templates, t, commits)
  BY DEF PlannedChange
<1>2. ~UNCHANGED tables /\ ~Refuse(w) BY <1>1 DEF tables, Refuse
<1>3. Ends(w) /\ HoldsTemplate(w) /\ req[w].id = t
  BY <1>1, <1>2, PlanMoves DEF Advances, Ends, LockedOnly
<1>4. /\ RowCurrent(templates, w) /\ got[w].row \in TemplateRow
      /\ pc'[w] = "idle" /\ templates \in [TemplateIds -> TemplateRow \cup {NoRow}]
  BY <1>3, AnswerLocal DEF Ends, PlanInv, PlanTypeOK, WorkerTypeOK,
     LockedPlansCurrent, LockedPlanCurrent
<1>5. CASE UpdateTemplateCommit(w) /\ pc[w] = "weeklyUpdateCommit"
  <2>1. templates'[t] = UpdatedTemplate(w)
    BY <1>2, <1>3, <1>4, <1>5 DEF UpdateTemplateCommit
  <2>2. /\ UpdatedTemplate(w).version = templates[t].version + 1
        /\ UpdatedTemplate(w).deleted = templates[t].deleted
    BY <1>3, <1>4 DEF UpdatedTemplate, RowCurrent, TemplateRow
  <2>3. /\ ~templates[t].deleted /\ req[w].version = templates[t].version
    BY <1>3, <1>4 DEF RowCurrent, Visible
  <2>4. templates[t].version + 1 = templates[t].version + (IF templates'[t].deleted THEN 0 ELSE 1)
    BY <2>1, <2>2, <2>3
  <2>5. QED BY <1>3, <1>4, <1>5, <2>1, <2>2, <2>3, <2>4 DEF PlannedChange
<1>6. CASE DeleteTemplateCommit(w) /\ pc[w] = "weeklyDeleteCommit"
  <2>1. /\ ~templates[t].deleted /\ req[w].version = templates[t].version
        /\ templates[t] \in TemplateRow
    BY <1>3, <1>4 DEF RowCurrent, Visible
  <2>2. templates'[t] = [templates[t] EXCEPT !.deleted = TRUE]
    BY <1>3, <1>4, <1>6 DEF DeleteTemplateCommit
  <2>3. templates'[t].deleted /\ templates'[t].version = templates[t].version
    BY <2>1, <2>2 DEF TemplateRow
  <2>4. templates[t].version = templates[t].version + 0 BY <2>1 DEF TemplateRow
  <2>5. QED BY <1>3, <1>4, <1>6, <2>1, <2>3, <2>4 DEF PlannedChange
<1>7. QED
  <2>1. ~Advances(w) BY <1>2 DEF Advances
  <2>2. Step(w) BY <2>1, BeginAdvances DEF PlanInv
  <2>3. QED
    BY <1>2, <1>3, <1>5, <1>6, <2>2, TemplateStepAt, ScheduleStepAt,
       SettingsStepAt DEF Step, Abort, HoldsTemplate

\* A row that is there changes by the commit of a request that names it and its
\* version: it is deleted, or marked as changed by hand.
Written(w, s) ==
    /\ pc'[w] = "idle" /\ req[w].id = s
    /\ req[w].version = schedules[s].version /\ ~schedules[s].deleted
    /\ \/ /\ pc[w] = "workDeleteCommit"
          /\ schedules'[s] = [schedules[s] EXCEPT !.deleted = TRUE]
       \/ /\ pc[w] = "workUpdateCommit"
          /\ schedules'[s] \in ScheduleRow /\ ~schedules'[s].deleted
          /\ schedules'[s].version = schedules[s].version + 1
          /\ schedules'[s].overridden

LEMMA ScheduleWritten ==
    ASSUME PlanInv, NEW w \in Workers, Begin(w) \/ Step(w), NEW s \in ScheduleIds,
           schedules'[s] # schedules[s], schedules[s] # NoRow
    PROVE  Written(w, s) /\ schedules[s] \in ScheduleRow
<1>1. ~UNCHANGED tables /\ ~Refuse(w) BY DEF tables, Refuse
<1>2. Ends(w) /\ HoldsSchedule(w) /\ req[w].id = s
  BY <1>1, PlanMoves DEF Advances, Ends, LockedOnly
<1>3. /\ RowCurrent(schedules, w) /\ got[w].row \in PlanRows /\ WorkerTypeOK(w)
      /\ pc'[w] = "idle" /\ schedules \in [ScheduleIds -> PlanRows \cup {NoRow}]
  BY <1>2, AnswerLocal DEF Ends, PlanInv, PlanTypeOK, WorkerTypeOK,
     LockedPlansCurrent, LockedPlanCurrent
<1>4. /\ ~schedules[s].deleted /\ req[w].version = schedules[s].version
      /\ schedules[s] \in ScheduleRow /\ got[w].row = schedules[s]
  BY <1>2, <1>3 DEF RowCurrent, Visible, PlanRows
<1>5. CASE UpdateScheduleCommit(w) /\ pc[w] = "workUpdateCommit"
  <2>1. schedules'[s] = UpdatedSchedule(w)
    BY <1>1, <1>2, <1>3, <1>5 DEF UpdateScheduleCommit
  <2>2. req[w].args \in [project : Projects, time : Times]
    BY <1>3, <1>5 DEF WorkerTypeOK
  <2>3. /\ schedules'[s] \in ScheduleRow /\ ~schedules'[s].deleted
        /\ schedules'[s].version = schedules[s].version + 1
    BY <1>3, <1>4, <2>1, <2>2, UpdatedScheduleTyped DEF PlanRows
  <2>4. schedules'[s].overridden
    BY <1>4, <2>1 DEF UpdatedSchedule, ScheduleRow
  <2>5. QED BY <1>2, <1>3, <1>4, <1>5, <2>2, <2>3, <2>4 DEF Written
<1>6. CASE DeleteScheduleCommit(w) /\ pc[w] = "workDeleteCommit"
  <2>1. schedules'[s] = [schedules[s] EXCEPT !.deleted = TRUE]
    BY <1>2, <1>3, <1>6 DEF DeleteScheduleCommit
  <2>2. QED BY <1>2, <1>3, <1>4, <1>6, <2>1 DEF Written
<1>7. QED
  <2>1. ~Advances(w) BY <1>1 DEF Advances
  <2>2. Step(w) BY <2>1, BeginAdvances DEF PlanInv
  <2>3. QED
    BY <1>1, <1>2, <1>5, <1>6, <2>2, TemplateStepAt, ScheduleStepAt,
       SettingsStepAt DEF Step, Abort, HoldsSchedule

LEMMA ScheduleChange ==
    ASSUME PlanInv, NEW w \in Workers, Begin(w) \/ Step(w), NEW s \in ScheduleIds
    PROVE  PlannedChange(schedules, s, {"workUpdateCommit", "workDeleteCommit"})
<1>1. SUFFICES ASSUME schedules'[s] # schedules[s], schedules[s] # NoRow
      PROVE  PlannedChange(schedules, s, {"workUpdateCommit", "workDeleteCommit"})
  BY DEF PlannedChange
<1>2. Written(w, s) /\ schedules[s] \in ScheduleRow BY <1>1, ScheduleWritten
<1>3. schedules[s].version \in Nat BY <1>2 DEF ScheduleRow
<1>4. CASE schedules'[s] = [schedules[s] EXCEPT !.deleted = TRUE]
  <2>1. schedules'[s].deleted /\ schedules'[s].version = schedules[s].version
    BY <1>2, <1>4 DEF ScheduleRow
  <2>2. QED BY <1>2, <1>3, <2>1 DEF Written, PlannedChange
<1>5. CASE schedules'[s] # [schedules[s] EXCEPT !.deleted = TRUE]
  BY <1>2, <1>3, <1>5 DEF Written, PlannedChange
<1>6. QED BY <1>4, <1>5

\* No change of a template or a schedule is lost: a row that is there goes to its
\* new value only by the commit of a request that names it and the version it has;
\* update and delete lock the row before they compare versions, and a generation
\* only adds rows.
THEOREM NoPlannedChangeLost == Spec => NoChangeLost
<1> DEFINE Kept ==
        /\ \A t \in TemplateIds :
              PlannedChange(templates, t, {"weeklyUpdateCommit", "weeklyDeleteCommit"})
        /\ \A s \in ScheduleIds :
              PlannedChange(schedules, s, {"workUpdateCommit", "workDeleteCommit"})
<1>1. ASSUME PlanInv, [Next]_vars PROVE [Kept]_vars
  BY <1>1, TemplateChange, ScheduleChange DEF Next
<1>2. QED BY <1>1, PlanInvAlways, PTL DEF Spec, NoChangeLost

LEMMA SettingsChange ==
    ASSUME PlanInv, NEW w \in Workers, Begin(w) \/ Step(w), settings' # settings
    PROVE  SettingsCommit(w) /\ pc[w] = "setCommit"
<1>1. ~UNCHANGED tables /\ ~Refuse(w) BY DEF tables, settings, Refuse
<1>2. Ends(w) /\ Step(w)
  BY <1>1, PlanMoves, BeginAdvances DEF Advances, PlanInv
<1>3. HoldsUser(w) \/ HoldsOrganization(w) \/ pc[w] = "setCommit"
  <2>1. SUFFICES ASSUME ~HoldsUser(w), ~HoldsOrganization(w), pc[w] # "setCommit"
        PROVE  FALSE
    OBVIOUS
  <2>2. \A u \in Users : users'[u] = users[u] BY <1>2, <2>1 DEF Ends, LockedOnly
  <2>3. users \in [Users -> Nat] /\ users' \in [Users -> Nat]
    BY StepTyped DEF PlanInv, PlanTypeOK, Typed, TablesTypeOK
  <2>4. users' = users BY <2>2, <2>3
  <2>5. QED BY <1>2, <2>1, <2>4 DEF Ends, LockedOnly, settings
<1>4. pc'[w] = "idle" BY <1>2, AnswerLocal DEF Ends, PlanInv
<1>5. CASE SettingsLockUser(w) \/ SettingsLockOrganization(w) \/ SettingsLockBusiness(w)
  <2>1. PICK step \in {"setOrganization", "setBusiness", "setCommit"} : Goto(w, step)
    BY <1>1, <1>5 DEF SettingsLockUser, SettingsLockOrganization, SettingsLockBusiness
  <2>2. QED BY <1>1, <2>1 DEF Goto
<1>6. SettingsStep(w)
  BY <1>1, <1>2, <1>3, TemplateStepAt, ScheduleStepAt DEF Step, Abort, HoldsUser,
     HoldsOrganization
<1>7. QED BY <1>5, <1>6 DEF SettingsStep, SettingsCommit

\* A settings request changes all the sections it names, each from the version
\* its client saw to the next, or none of them, whatever other settings requests
\* do between its locks of the three rows.
THEOREM SettingsChangeTogether == Spec => SettingsTogether
<1> DEFINE Changed(w, u) ==
       /\ pc[w] = "setCommit" /\ pc'[w] = "idle" /\ req[w].user = u
       /\ \A s \in Sections :
             IF s \in req[w].args.sections
             THEN /\ SettingsVersion(u, s) = req[w].version[s]
                  /\ SettingsVersion(u, s)' = req[w].version[s] + 1
             ELSE SettingsVersion(u, s)' = SettingsVersion(u, s)
       /\ "organization" \notin req[w].args.sections => organization' = organization
       /\ \A v \in Users \ {u} : users'[v] = users[v]
<1>1. ASSUME PlanInv, NEW w \in Workers, Begin(w) \/ Step(w), settings' # settings
      PROVE  \E u \in Users : Changed(w, u)
  <2> DEFINE a == req[w].args
             row == got[w].row
  <2>1. SettingsCommit(w) /\ pc[w] = "setCommit" BY <1>1, SettingsChange
  <2>2. PICK u \in Users : u = req[w].user
    BY <1>1, <2>1 DEF PlanInv, PlanTypeOK, WorkerTypeOK
  <2>3. /\ users \in [Users -> Nat]
        /\ organization \in [zone : Zones, version : Nat]
        /\ a \in [sections : SUBSET Sections, zone : Zones]
    BY <1>1, <2>1 DEF PlanInv, PlanTypeOK, WorkerTypeOK, SettingsSteps
  <2>4. /\ row.user = users[u] /\ row.organization = organization.version
        /\ row.business = business
        /\ \A s \in a.sections : row[s] = req[w].version[s]
    BY <1>1, <2>2, <2>1 DEF PlanInv, LockedPlansCurrent, LockedPlanCurrent, HoldsUser,
       HoldsOrganization
  <2>5. pc'[w] = "idle"
    BY <1>1, <2>1, AnswerLocal DEF SettingsCommit, PlanInv
  <2>6. ASSUME NEW s \in Sections, s \in a.sections
        PROVE  /\ SettingsVersion(u, s) = req[w].version[s]
               /\ SettingsVersion(u, s)' = req[w].version[s] + 1
    <3>1. CASE s = "user"
      BY <2>2, <2>1, <2>3, <2>4, <2>6, <3>1 DEF SettingsVersion, SettingsCommit
    <3>2. CASE s = "organization"
      BY <2>2, <2>1, <2>3, <2>4, <2>6, <3>2 DEF SettingsVersion, SettingsCommit
    <3>3. CASE s = "business"
      BY <2>2, <2>1, <2>3, <2>4, <2>6, <3>3 DEF SettingsVersion, SettingsCommit
    <3>4. QED BY <3>1, <3>2, <3>3 DEF Sections
  <2>7. ASSUME NEW s \in Sections, s \notin a.sections
        PROVE  SettingsVersion(u, s)' = SettingsVersion(u, s)
    BY <2>2, <2>1, <2>3, <2>7 DEF SettingsVersion, SettingsCommit, Sections
  <2>8. \A v \in Users \ {u} : users'[v] = users[v]
    BY <2>2, <2>1, <2>3 DEF SettingsCommit
  <2>9. "organization" \notin a.sections => organization' = organization
    BY <2>1 DEF SettingsCommit
  <2>10. Changed(w, u) BY <2>2, <2>1, <2>5, <2>6, <2>7, <2>8, <2>9
  <2>11. QED BY <2>10
<1> DEFINE Together == settings' # settings => \E w \in Workers, u \in Users : Changed(w, u)
<1>2. ASSUME PlanInv, [Next]_vars PROVE [Together]_vars
  BY <1>1, <1>2 DEF Next
<1>3. QED BY <1>2, PlanInvAlways, PTL DEF Spec, SettingsTogether

----------------------------------------------------------------------------
(***************************************************************************)
(* How a generation comes to its commit.                                   *)
(***************************************************************************)
Compares(w) ==
    LET zone == got[w].zone IN
    /\ UNCHANGED tables
    /\ req'[w] = req[w] /\ got'[w].zone = zone
    /\ got'[w].candidates = Accepted(got[w].candidates, Existing(req[w].args), zone)
    /\ got'[w].stood = {<<s, schedules[s].version>> : s \in Visible(schedules)}

LEMMA OthersLeave ==
    ASSUME PlanTypeOK, NEW w \in Workers, TemplateStep(w) \/ SettingsStep(w)
    PROVE  pc'[w] # "genCommit"
<1>1. CASE Answer(w) BY <1>1, AnswerLocal
<1>2. CASE ~Answer(w) /\ TemplateStep(w)
  BY <1>2, GotoLocal DEF TemplateStep, CreateTemplates, UpdateTemplateLock,
     UpdateTemplateCommit, DeleteTemplateLock, DeleteTemplateLockProject,
     DeleteTemplateCommit, LockTemplate, Refuse
<1>3. CASE ~Answer(w) /\ SettingsStep(w)
  BY <1>3, GotoLocal DEF SettingsStep, SettingsLockUser, SettingsLockOrganization,
     SettingsLockBusiness, SettingsCommit, Refuse
<1>4. QED BY <1>1, <1>2, <1>3

\* It is the comparison that leads to the commit.
LEMMA OnlyComparison ==
    ASSUME PlanTypeOK, NEW w \in Workers, Begin(w) \/ Step(w), pc'[w] = "genCommit"
    PROVE  Compares(w)
<1>0. DOMAIN got = Workers /\ got[w] \in Reads BY DEF PlanTypeOK, WorkerTypeOK
<1>1. ~Answer(w) BY AnswerLocal
<1>2. ~Begin(w)
  <2> DEFINE firsts == {"weeklyCreate", "weeklyUpdateLock", "weeklyDeleteLock",
                        "workCreate", "workUpdateLock", "workDeleteLock",
                        "genTemplates", "setUser"}
  <2>1. ASSUME NEW step \in firsts, NEW request, Start(w, step, request) PROVE FALSE
    BY <2>1, StartLocal
  <2>2. ~TemplateRequest(w)
    BY <2>1 DEF TemplateRequest, CreateTemplatesRequest, UpdateTemplateRequest,
       DeleteTemplateRequest
  <2>3. ~ScheduleRequest(w)
    BY <2>1 DEF ScheduleRequest, CreateScheduleRequest, UpdateScheduleRequest,
       DeleteScheduleRequest, GenerateRequest
  <2>4. ~SettingsRequest(w) BY <2>1 DEF SettingsRequest
  <2>5. QED BY <2>2, <2>3, <2>4 DEF Begin
<1>3. ScheduleStep(w) BY <1>1, <1>2, OthersLeave DEF Step, Abort, Refuse
<1>4. GenerateExisting(w)
  BY <1>1, <1>3, GotoLocal DEF ScheduleStep, CreateSchedule, UpdateScheduleLock,
     UpdateScheduleCommit, DeleteScheduleLock, DeleteScheduleLockProject,
     DeleteScheduleCommit, GenerateTemplates, GenerateCommit, LockSchedule, Refuse
<1> DEFINE zone == got[w].zone
           seen == {<<s, schedules[s].version>> : s \in Visible(schedules)}
<1>5. /\ Goto(w, "genCommit")
      /\ got' = [got EXCEPT
             ![w].candidates = Accepted(@, Existing(req[w].args), zone), ![w].stood = seen]
  BY <1>1, <1>4 DEF GenerateExisting
<1>6. /\ got'[w].zone = zone /\ got'[w].stood = seen
      /\ got'[w].candidates = Accepted(got[w].candidates, Existing(req[w].args), zone)
  BY <1>0, <1>5 DEF Reads
<1>7. QED BY <1>5, <1>6, GotoLocal DEF Compares

(***************************************************************************)
(* Which rows appear.                                                      *)
(***************************************************************************)
\* A row that was not there is one made by hand, or one of the rows of a
\* generation that commits.
Inserted(w, s) ==
    \/ pc[w] = "workCreate" /\ \E u, args : schedules'[s] = NewSchedule(u, args)
    \/ /\ pc[w] = "genCommit"
       /\ schedules'[s] \in GeneratedRows(w)
       /\ \A r \in ScheduleIds :
             schedules[r] = NoRow /\ schedules'[r] = schedules'[s] => r = s

LEMMA ScheduleInserted ==
    ASSUME PlanInv, NEW w \in Workers, Begin(w) \/ Step(w), NEW s \in ScheduleIds,
           schedules[s] = NoRow, schedules'[s] # NoRow
    PROVE  Inserted(w, s)
<1>1. ~UNCHANGED tables /\ ~Refuse(w) BY DEF tables, Refuse
<1>2. ~Advances(w) BY <1>1 DEF Advances
<1>3. Step(w) BY <1>2, BeginAdvances DEF PlanInv
<1>4. /\ schedules \in [ScheduleIds -> PlanRows \cup {NoRow}]
      /\ PlanTypeOK /\ WorkerTypeOK(w)
  BY DEF PlanInv, PlanTypeOK
<1>5. CASE CreateSchedule(w)
  <2> DEFINE row == NewSchedule(req[w].user, req[w].args)
  <2>1. schedules' \in Insertions(schedules, {row})
    BY <1>1, <1>5 DEF CreateSchedule
  <2>2. row # NoRow
    <3>1. req[w].args \in [project : Projects, time : Times] /\ req[w].user \in Users
      BY <1>4, <1>5 DEF CreateSchedule, WorkerTypeOK
    <3>2. req[w].args.time.start \in Int /\ req[w].args.time.end \in Int
      BY <3>1, PlanningAssumption
    <3>3. row \in ScheduleRow BY <3>1, <3>2 DEF NewSchedule, ScheduleRow
    <3>4. QED BY <3>3, NoPlanAssumption
  <2>3. schedules'[s] \in {row} BY <1>4, <2>1, <2>2, InsertionsNew
  <2>4. QED BY <1>5, <2>3 DEF Inserted, CreateSchedule
<1>6. CASE GenerateCommit(w)
  <2>1. /\ schedules' \in Insertions(schedules, GeneratedRows(w))
        /\ pc[w] = "genCommit"
    BY <1>1, <1>6 DEF GenerateCommit
  <2>2. ASSUME NEW c \in got[w].candidates
        PROVE  [project |-> req[w].args.project, user |-> c.user, source |-> c.source,
                start |-> c.start, end |-> c.end, rest |-> c.rest,
                overridden |-> FALSE, version |-> 1, deleted |-> FALSE] # NoRow
    <3>1. c \in CandidateRow /\ req[w].args.project \in Projects
      BY <1>4, <2>1 DEF WorkerTypeOK, Reads, GenerateSteps
    <3>2. [project |-> req[w].args.project, user |-> c.user, source |-> c.source,
           start |-> c.start, end |-> c.end, rest |-> c.rest,
           overridden |-> FALSE, version |-> 1, deleted |-> FALSE] \in ScheduleRow
      BY <3>1 DEF CandidateRow, ScheduleRow
    <3>3. QED BY <3>2, NoPlanAssumption
  <2>3. NoRow \notin GeneratedRows(w) BY <2>2 DEF GeneratedRows
  <2>4. QED BY <1>4, <2>1, <2>3, InsertionsNew DEF Inserted
<1>7. CASE UpdateScheduleCommit(w) \/ DeleteScheduleCommit(w)
  <2>1. HoldsSchedule(w)
    BY <1>7 DEF UpdateScheduleCommit, DeleteScheduleCommit, HoldsSchedule
  <2>2. req[w].id # s
    BY <2>1 DEF PlanInv, LockedPlansCurrent, LockedPlanCurrent, RowCurrent, Visible
  <2>3. schedules'[s] = schedules[s]
    BY <1>1, <1>4, <1>7, <2>2 DEF UpdateScheduleCommit, DeleteScheduleCommit
  <2>4. QED BY <2>3
<1>8. QED
  <2>1. schedules' # schedules OBVIOUS
  <2>2. ScheduleStep(w)
    BY <1>1, <1>3, <2>1 DEF Step, Abort, TemplateStep, CreateTemplates,
       UpdateTemplateLock, UpdateTemplateCommit, DeleteTemplateLock,
       DeleteTemplateLockProject, DeleteTemplateCommit, LockTemplate, SettingsStep,
       SettingsLockUser, SettingsLockOrganization, SettingsLockBusiness,
       SettingsCommit, Goto, tables
  <2>3. QED
    BY <1>1, <1>5, <1>6, <1>7, <2>1, <2>2 DEF ScheduleStep, UpdateScheduleLock,
       DeleteScheduleLock, DeleteScheduleLockProject, LockSchedule,
       GenerateTemplates, GenerateExisting, Goto, tables

(***************************************************************************)
(* What a generation has left beside the schedules it has seen.            *)
(***************************************************************************)
\* A schedule with another version than the first is marked as changed by hand.
ByHandMarked ==
    \A s \in ScheduleIds : schedules[s] # NoRow =>
        /\ schedules[s].version >= 1
        /\ schedules[s].version > 1 => schedules[s].overridden

\* Beside schedule s, which had version k when w looked: as long as it is that
\* version, nothing at its times, and nothing on its day if it is not the first.
Spares(w, s, k) ==
    /\ s \in ScheduleIds /\ schedules[s] # NoRow /\ schedules[s].version >= k
    /\ /\ schedules[s].version = k /\ ~schedules[s].deleted
       /\ DateLookup(schedules[s].start) <= req[w].args.to
       /\ DateLookup(schedules[s].end) >= req[w].args.from
       => \A c \in got[w].candidates : schedules[s].source = c.source =>
             /\ schedules[s].start # c.start \/ schedules[s].end # c.end
             /\ k > 1 =>
                   LocalDay(schedules[s].start, got[w].zone)
                     # LocalDay(c.start, got[w].zone)

SparedInv ==
    /\ PlanInv
    /\ ByHandMarked
    /\ \A w \in Workers : pc[w] = "genCommit" =>
          \A s, k : <<s, k>> \in got[w].stood => Spares(w, s, k)

LEMMA MarkedStep ==
    ASSUME PlanInv, ByHandMarked, NEW w \in Workers, Begin(w) \/ Step(w)
    PROVE  ByHandMarked'
<1>1. SUFFICES ASSUME NEW s \in ScheduleIds, schedules'[s] # NoRow
      PROVE  /\ schedules'[s].version >= 1
             /\ schedules'[s].version > 1 => schedules'[s].overridden
  BY DEF ByHandMarked
<1>2. CASE schedules[s] = NoRow
  <2>1. Inserted(w, s) BY <1>1, <1>2, ScheduleInserted
  <2>2. schedules'[s].version = 1
    <3>1. ASSUME NEW u, NEW args PROVE NewSchedule(u, args).version = 1
      BY DEF NewSchedule
    <3>2. ASSUME NEW row \in GeneratedRows(w) PROVE row.version = 1
      BY DEF GeneratedRows
    <3>3. QED BY <2>1, <3>1, <3>2 DEF Inserted
  <2>3. QED BY <2>2
<1>3. CASE schedules[s] # NoRow /\ schedules'[s] # schedules[s]
  <2>1. Written(w, s) BY <1>3, ScheduleWritten
  <2>2. PICK row \in ScheduleRow : row = schedules[s]
    BY <1>3 DEF PlanInv, PlanTypeOK, PlanRows
  <2>3. /\ row.version >= 1 /\ row.version \in Nat
        /\ row.version > 1 => row.overridden
    BY <1>3, <2>2 DEF ByHandMarked, ScheduleRow
  <2>4. CASE schedules'[s] = [row EXCEPT !.deleted = TRUE]
    BY <2>2, <2>3, <2>4 DEF ScheduleRow
  <2>5. CASE schedules'[s] # [row EXCEPT !.deleted = TRUE]
    BY <2>1, <2>2, <2>3, <2>5 DEF Written
  <2>6. QED BY <2>4, <2>5
<1>4. CASE schedules[s] # NoRow /\ schedules'[s] = schedules[s]
  BY <1>4 DEF ByHandMarked
<1>5. QED BY <1>2, <1>3, <1>4

LEMMA SparesStep ==
    ASSUME SparedInv, NEW w \in Workers, Begin(w) \/ Step(w),
           NEW v \in Workers, pc'[v] = "genCommit", NEW s, NEW k,
           <<s, k>> \in got'[v].stood
    PROVE  Spares(v, s, k)'
<1> USE DEF SparedInv
<1>1. CASE v = w
  <2>1. Compares(w) BY <1>1, OnlyComparison DEF PlanInv
  <2>2. PICK a, zone : a = req[w].args /\ zone = got[w].zone OBVIOUS
  <2>3. /\ got'[w].zone = zone /\ req'[w].args = a
        /\ got'[w].candidates = Accepted(got[w].candidates, Existing(a), zone)
        /\ schedules' = schedules
        /\ s \in Visible(schedules) /\ k = schedules[s].version
    BY <1>1, <2>1, <2>2 DEF Compares, tables
  <2>4. s \in ScheduleIds /\ schedules[s] # NoRow /\ schedules[s] \in ScheduleRow
    BY <2>3 DEF PlanInv, PlanTypeOK, Visible, PlanRows
  <2>5. schedules[s].version \in Nat /\ schedules[s].version >= k
    BY <2>3, <2>4 DEF ScheduleRow
  <2>6. ASSUME DateLookup(schedules[s].start) <= a.to,
               DateLookup(schedules[s].end) >= a.from,
               NEW c \in got'[w].candidates, schedules[s].source = c.source
        PROVE  /\ schedules[s].start # c.start \/ schedules[s].end # c.end
               /\ k > 1 => LocalDay(schedules[s].start, zone) # LocalDay(c.start, zone)
    <3>1. s \in Existing(a) BY <2>3, <2>6 DEF Existing
    <3>2. k > 1 => schedules[s].overridden BY <2>3, <2>4 DEF ByHandMarked
    <3>3. QED BY <2>3, <2>6, <3>1, <3>2 DEF Accepted
  <2>7. QED BY <1>1, <2>3, <2>4, <2>5, <2>6 DEF Spares
<1>2. CASE v # w
  <2>1. pc'[v] = pc[v] /\ req'[v] = req[v] /\ got'[v] = got[v]
    BY <1>2, StepTyped DEF Typed, OthersKept
  <2>2. Spares(v, s, k) BY <2>1
  <2>3. CASE schedules'[s] = schedules[s] BY <2>1, <2>2, <2>3 DEF Spares
  <2>4. CASE schedules'[s] # schedules[s]
    <3>1. /\ Written(w, s) /\ s \in ScheduleIds /\ schedules[s] \in ScheduleRow
          /\ schedules[s].version >= k
      BY <2>2, <2>4, ScheduleWritten DEF Spares
    <3>2. k \in Nat BY <2>1 DEF PlanInv, PlanTypeOK, WorkerTypeOK, Reads
    <3>3. schedules'[s] \in ScheduleRow BY <3>1 DEF Written, ScheduleRow
    <3>4. schedules'[s] # NoRow BY <3>3, NoPlanAssumption
    <3>5. CASE schedules'[s] = [schedules[s] EXCEPT !.deleted = TRUE]
      <4>1. schedules'[s].deleted /\ schedules'[s].version = schedules[s].version
        BY <3>1, <3>5 DEF ScheduleRow
      <4>2. QED BY <3>1, <3>4, <4>1 DEF Spares
    <3>6. CASE schedules'[s].version = schedules[s].version + 1
      <4>1. schedules'[s].version > k /\ schedules'[s].version >= k
            /\ schedules'[s].version # k
        BY <3>1, <3>2, <3>6 DEF ScheduleRow
      <4>2. QED BY <3>1, <3>4, <4>1 DEF Spares
    <3>7. QED BY <3>1, <3>5, <3>6 DEF Written
  <2>5. QED BY <2>3, <2>4
<1>3. QED BY <1>1, <1>2

LEMMA SparedInvAlways == Spec => []SparedInv
<1> DEFINE Spared == \A w \in Workers : pc[w] = "genCommit" =>
                        \A s, k : <<s, k>> \in got[w].stood => Spares(w, s, k)
<1>1. Init => ByHandMarked /\ Spared BY DEF Init, ByHandMarked
<1>2. ASSUME PlanInv, ByHandMarked, Spared, [Next]_vars PROVE ByHandMarked' /\ Spared'
  <2>1. CASE UNCHANGED vars
    BY <1>2, <2>1 DEF vars, ByHandMarked, Spares
  <2>2. CASE Next
    <3>1. PICK w \in Workers : Begin(w) \/ Step(w) BY <2>2 DEF Next
    <3>2. SparedInv BY <1>2 DEF SparedInv
    <3>3. ByHandMarked' BY <1>2, <3>1, MarkedStep
    <3>4. Spared' BY <3>1, <3>2, SparesStep
    <3>5. QED BY <3>3, <3>4
  <2>3. QED BY <1>2, <2>1, <2>2
<1>3. PlanInv /\ ByHandMarked /\ Spared <=> SparedInv BY DEF SparedInv
<1> HIDE DEF Spared
<1>4. QED BY <1>1, <1>2, <1>3, PlanInvAlways, PTL DEF Spec

\* Whatever generations run together, and however templates, schedules and the
\* time zone change between their statements, none adds a schedule beside one it
\* has seen.  What its lookup in UTC does not find, and what another generation
\* inserts after it looked, it has not seen.
THEOREM GenerationSparesWhatItSaw == Spec => SeenNotDoubled
<1> DEFINE NotDoubled(w) ==
       pc[w] = "genCommit" /\ pc'[w] = "idle" =>
          \A new \in Fresh(schedules), s \in Visible(schedules) :
             LET made == schedules'[new]
                 old == schedules[s]
             IN
             /\ made # NoRow /\ made.source = old.source
             /\ <<s, old.version>> \in got[w].stood
             /\ DateLookup(old.start) <= req[w].args.to
             /\ DateLookup(old.end) >= req[w].args.from
             => /\ made.start # old.start \/ made.end # old.end
                /\ old.version > 1 =>
                      LocalDay(old.start, got[w].zone)
                        # LocalDay(made.start, got[w].zone)
<1>1. ASSUME SparedInv, NEW v \in Workers, Begin(v) \/ Step(v),
             NEW w \in Workers, pc[w] = "genCommit", pc'[w] = "idle",
             NEW new \in Fresh(schedules), NEW s \in Visible(schedules),
             schedules'[new] # NoRow, schedules'[new].source = schedules[s].source,
             <<s, schedules[s].version>> \in got[w].stood,
             DateLookup(schedules[s].start) <= req[w].args.to,
             DateLookup(schedules[s].end) >= req[w].args.from
      PROVE  /\ schedules'[new].start # schedules[s].start
                  \/ schedules'[new].end # schedules[s].end
             /\ schedules[s].version > 1 =>
                   LocalDay(schedules[s].start, got[w].zone)
                     # LocalDay(schedules'[new].start, got[w].zone)
  <2>1. PlanInv BY <1>1 DEF SparedInv
  <2>2. v = w
    BY <1>1, <2>1, StepTyped DEF Typed, OthersKept
  <2>3. new \in ScheduleIds /\ schedules[new] = NoRow
    BY <1>1, <2>1 DEF Fresh, PlanInv, PlanTypeOK
  <2>4. Inserted(w, new) BY <1>1, <2>1, <2>2, <2>3, ScheduleInserted
  <2>5. PICK c \in got[w].candidates :
           /\ schedules'[new].source = c.source
           /\ schedules'[new].start = c.start /\ schedules'[new].end = c.end
    BY <1>1, <2>4 DEF Inserted, GeneratedRows
  <2>6. Spares(w, s, schedules[s].version) BY <1>1 DEF SparedInv
  <2>7. ~schedules[s].deleted BY <1>1 DEF Visible
  <2>8. QED BY <1>1, <2>5, <2>6, <2>7 DEF Spares
<1>2. ASSUME SparedInv, [Next]_vars PROVE [\A w \in Workers : NotDoubled(w)]_vars
  BY <1>1, <1>2 DEF Next
<1>3. QED BY <1>2, SparedInvAlways, PTL DEF Spec, SeenNotDoubled
============================================================================
