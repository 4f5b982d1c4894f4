-------------------------- MODULE SettingsService --------------------------
(***************************************************************************)
(* Settings: one request changes the caller's own row, the organization   *)
(* and the business profile, or some of them, each against the version the *)
(* client saw.                                                             *)
(***************************************************************************)
EXTENDS PlanningData

Sections == {"user", "organization", "business"}

SettingsRequest(w) ==
    /\ "settings" \in Operations
    /\ \E u \in Users, sections \in SectionChoices, z \in Zones,
          seen \in [Sections -> Versions] :
          /\ "organization" \notin sections => z = FirstZone      \* not read then
          /\ Start(w, "setUser",
                   Request(u, NoRow, seen, [sections |-> sections, zone |-> z]))
    /\ UNCHANGED got

\* Everybody changes its own profile; the rest is the OWNER's.
SettingsLockUser(w) ==
    /\ pc[w] = "setUser"
    /\ IF req[w].args.sections \subseteq {"user"} \/ req[w].user \in Owners
       THEN /\ UserFree(w, req[w].user)
            /\ got' = [got EXCEPT ![w].row = [user |-> users[req[w].user]]]
            /\ Goto(w, "setOrganization")
       ELSE Refuse(w)

SettingsLockOrganization(w) ==
    /\ pc[w] = "setOrganization"
    /\ OrganizationFree(w)
    /\ got' = [got EXCEPT ![w].row =
          [user |-> @.user, organization |-> organization.version]]
    /\ Goto(w, "setBusiness")

\* The last of the three rows; then every version, before anything is written.
SettingsLockBusiness(w) ==
    /\ pc[w] = "setBusiness"
    /\ BusinessFree(w)
    /\ LET row == [user |-> got[w].row.user,
                   organization |-> got[w].row.organization, business |-> business]
       IN
       IF \A s \in req[w].args.sections : row[s] = req[w].version[s]
       THEN /\ got' = [got EXCEPT ![w].row = row]
            /\ Goto(w, "setCommit")
       ELSE Refuse(w)

SettingsCommit(w) ==
    /\ pc[w] = "setCommit"
    /\ LET a == req[w].args
           row == got[w].row
       IN
       /\ users' = IF "user" \in a.sections
                   THEN [users EXCEPT ![req[w].user] = row.user + 1]
                   ELSE users
       /\ organization' = IF "organization" \in a.sections
                          THEN [zone |-> a.zone, version |-> row.organization + 1]
                          ELSE organization
       /\ business' = IF "business" \in a.sections THEN row.business + 1 ELSE business
    /\ UNCHANGED <<templates, schedules>>
    /\ Answer(w)

SettingsStep(w) ==
    \/ SettingsLockUser(w) \/ SettingsLockOrganization(w)
    \/ SettingsLockBusiness(w) \/ SettingsCommit(w)
============================================================================
