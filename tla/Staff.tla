-------------------------------- MODULE Staff --------------------------------
(***************************************************************************)
(* Who works for the marketplace: applications of couriers and their       *)
(* review, roles that the admin makes, assigns and removes, and the        *)
(* courier's profile, one JSON value that is read and written back whole.  *)
(* A desk holds one handler in flight, pc names the call it awaits.        *)
(***************************************************************************)
EXTENDS FiniteSets

CONSTANTS
  People,
  Desks,      \* handlers that may be in flight at the same time
  Vehicles,   \* transport types
  Unset

ASSUME StaffAssumption == IsFiniteSet(Desks) /\ Unset \notin Vehicles \cup People

VARIABLES
  app,       \* CourierApplication row of each person
  role,      \* slug of the person's role
  custom,    \* the role the admin made exists
  profile,   \* User.profile.courier
  desk,      \* the handler at each desk
  entered,   \* per field, what the person or his application last entered (history)
  moved,     \* people whose role the admin set since they applied (history)
  lost,      \* people whose role a removal took (history)
  crossed    \* two handlers were in flight at the same time (history)

staffVars == <<app, role, custom, profile, desk, entered, moved, lost, crossed>>

-----------------------------------------------------------------------------
Applications == [status   : {"none", "PENDING", "APPROVED", "REJECTED"},
                 vehicle  : Vehicles \cup {Unset},
                 reason   : BOOLEAN,
                 reviewed : BOOLEAN]
RoleSlugs == {"none", "courier", "custom"}
Profiles == [vehicle : Vehicles \cup {Unset}, online : BOOLEAN]

DeskPCs == {"idle", "apply", "profile", "approve", "reject", "assign", "count",
            "delete", "edit"}
\* json is the profile to write, field what it changes.
Work == [pc : DeskPCs, who : People \cup {Unset}, role : RoleSlugs,
         json : Profiles, field : {"vehicle", "online"}]

Blank == [vehicle |-> Unset, online |-> FALSE]
NoWork == [pc |-> "idle", who |-> Unset, role |-> "none", json |-> Blank,
           field |-> "vehicle"]

\* Rows and handlers have their types; a role somebody has exists.
StaffTypeOK ==
  /\ app \in [People -> Applications]
  /\ role \in [People -> RoleSlugs]
  /\ custom \in BOOLEAN
  /\ ~custom => \A u \in People : role[u] # "custom"
  /\ profile \in [People -> Profiles]
  /\ desk \in [Desks -> Work]
  /\ \A d \in Desks : desk[d].pc \notin {"idle", "count", "delete"} => desk[d].who \in People
  /\ entered \in [People -> Profiles]
  /\ moved \subseteq People
  /\ lost \subseteq People
  /\ crossed \in BOOLEAN

StaffInit ==
  /\ app = [u \in People |-> [status |-> "none", vehicle |-> Unset,
                              reason |-> FALSE, reviewed |-> FALSE]]
  /\ role = [u \in People |-> "none"]
  /\ custom = FALSE
  /\ profile = [u \in People |-> Blank]
  /\ desk = [d \in Desks |-> NoWork]
  /\ entered = [u \in People |-> Blank]
  /\ moved = {}
  /\ lost = {}
  /\ crossed = FALSE

-----------------------------------------------------------------------------
StartWork(d, work) ==
  /\ desk[d].pc = "idle"
  /\ desk' = [desk EXCEPT ![d] = work]
  /\ crossed' = (crossed \/ \E e \in Desks \ {d} : desk[e].pc # "idle")
  /\ UNCHANGED <<app, role, custom, profile, entered, moved, lost>>

EndWork(d) == desk' = [desk EXCEPT ![d] = NoWork]

-----------------------------------------------------------------------------
(* Applications and their review.                                          *)

Apply(d, u, v) ==
  /\ role[u] # "courier"
  /\ StartWork(d, [NoWork EXCEPT !.pc = "apply", !.who = u, !.json.vehicle = v])

\* upsert: whatever the row was, it waits for review.
ApplyWrite(d) ==
  LET q == desk[d]
  IN /\ q.pc = "apply"
     /\ app' = [app EXCEPT ![q.who] = [status |-> "PENDING", vehicle |-> q.json.vehicle,
                                       reason |-> FALSE, reviewed |-> FALSE]]
     /\ moved' = moved \ {q.who}
     /\ EndWork(d)
     /\ UNCHANGED <<role, custom, profile, entered, lost, crossed>>

\* requirePending, then the role, which is a system role and never goes.
Approve(d, u) ==
  /\ app[u].status = "PENDING"
  /\ StartWork(d, [NoWork EXCEPT !.pc = "profile", !.who = u, !.json.vehicle = app[u].vehicle])

\* seedCourierProfile
Seed(old, v) == [old EXCEPT !.vehicle = v]

ReadProfile(d) ==
  LET q == desk[d]
  IN /\ q.pc = "profile"
     /\ desk' = [desk EXCEPT ![d].pc = "approve",
                             ![d].json = Seed(profile[q.who], q.json.vehicle)]
     /\ UNCHANGED <<app, role, custom, profile, entered, moved, lost, crossed>>

Approved(a) == [a EXCEPT !.status = "APPROVED", !.reviewed = TRUE, !.reason = FALSE]

WriteProfile(q) ==
  /\ profile' = [profile EXCEPT ![q.who] = q.json]
  /\ entered' = [entered EXCEPT ![q.who][q.field] = q.json[q.field]]

\* One transaction; it does not ask whether the application still waits.
ApproveCommit(d) ==
  LET q == desk[d]
  IN /\ q.pc = "approve"
     /\ app' = [app EXCEPT ![q.who] = Approved(@)]
     /\ role' = [role EXCEPT ![q.who] = "courier"]
     /\ WriteProfile(q)
     /\ moved' = moved \ {q.who}
     /\ EndWork(d)
     /\ UNCHANGED <<custom, lost, crossed>>

Reject(d, u) ==
  /\ app[u].status = "PENDING"
  /\ StartWork(d, [NoWork EXCEPT !.pc = "reject", !.who = u])

RejectCommit(d) ==
  LET q == desk[d]
  IN /\ q.pc = "reject"
     /\ app' = [app EXCEPT ![q.who].status = "REJECTED", ![q.who].reviewed = TRUE,
                           ![q.who].reason = TRUE]
     /\ EndWork(d)
     /\ UNCHANGED <<role, custom, profile, entered, moved, lost, crossed>>

-----------------------------------------------------------------------------
(* Roles.                                                                  *)

\* uniqueSlug looks, the key of the table decides.
CreateRole ==
  /\ ~custom
  /\ custom' = TRUE
  /\ UNCHANGED <<app, role, profile, desk, entered, moved, lost, crossed>>

AssignRole(d, u, x) ==
  /\ x = "custom" => custom
  /\ StartWork(d, [NoWork EXCEPT !.pc = "assign", !.who = u, !.role = x])

\* A role deleted in between fails the foreign key.
AssignWrite(d) ==
  LET q == desk[d]
  IN /\ q.pc = "assign"
     /\ IF q.role = "custom" /\ ~custom
        THEN UNCHANGED <<role, moved>>
        ELSE /\ role' = [role EXCEPT ![q.who] = q.role]
             /\ moved' = moved \cup {q.who}
     /\ EndWork(d)
     /\ UNCHANGED <<app, custom, profile, entered, lost, crossed>>

\* A system role is refused.
RemoveRole(d) ==
  /\ custom
  /\ StartWork(d, [NoWork EXCEPT !.pc = "count"])

\* Slip: the role goes, used or not.
CountNothing(d) ==
  /\ desk[d].pc = "count"
  /\ desk' = [desk EXCEPT ![d].pc = "delete"]
  /\ UNCHANGED <<app, role, custom, profile, entered, moved, lost, crossed>>

CountUsers(d) ==
  /\ desk[d].pc = "count"
  /\ IF \E u \in People : role[u] = "custom"
     THEN EndWork(d)
     ELSE desk' = [desk EXCEPT ![d].pc = "delete"]
  /\ UNCHANGED <<app, role, custom, profile, entered, moved, lost, crossed>>

\* onDelete: SetNull
ForgetRole == role' = [u \in People |-> IF role[u] = "custom" THEN "none" ELSE role[u]]

DeleteRole(d) ==
  /\ desk[d].pc = "delete"
  /\ custom' = FALSE
  /\ ForgetRole
  /\ lost' = lost \cup {u \in People : role[u] = "custom"}
  /\ EndWork(d)
  /\ UNCHANGED <<app, profile, entered, moved, crossed>>

-----------------------------------------------------------------------------
(* The profile: the guard reads the role, the handler the JSON it patches. *)

UpdateProfile(d, u, field, value) ==
  /\ role[u] = "courier"
  /\ StartWork(d, [NoWork EXCEPT !.pc = "edit", !.who = u, !.field = field,
                                 !.json = [profile[u] EXCEPT ![field] = value]])

ProfileWrite(d) ==
  LET q == desk[d]
  IN /\ q.pc = "edit"
     /\ WriteProfile(q)
     /\ EndWork(d)
     /\ UNCHANGED <<app, role, custom, moved, lost, crossed>>

\* A failed call ends the handler where it is.
WorkDies(d) ==
  /\ desk[d].pc # "idle"
  /\ EndWork(d)
  /\ UNCHANGED <<app, role, custom, profile, entered, moved, lost, crossed>>

WorkArrives(d) ==
  \/ \E u \in People :
       \/ Approve(d, u) \/ Reject(d, u)
       \/ \E v \in Vehicles : Apply(d, u, v) \/ UpdateProfile(d, u, "vehicle", v)
       \/ \E b \in BOOLEAN : UpdateProfile(d, u, "online", b)
       \/ \E x \in RoleSlugs : AssignRole(d, u, x)
  \/ RemoveRole(d)

WorkCall(d) ==
  \/ ApplyWrite(d) \/ ReadProfile(d) \/ ApproveCommit(d) \/ RejectCommit(d)
  \/ AssignWrite(d) \/ CountUsers(d) \/ DeleteRole(d) \/ ProfileWrite(d)

StaffNext ==
  \/ CreateRole
  \/ \E d \in Desks : WorkArrives(d) \/ WorkCall(d) \/ WorkDies(d)

StaffSpec == StaffInit /\ [][StaffNext]_staffVars

-----------------------------------------------------------------------------
\* However apply, approve and reject cross, an application shows a reason
\* exactly when it was refused and a reviewer exactly when it was decided.
ReviewFits ==
  \A u \in People :
    /\ app[u].reason <=> app[u].status = "REJECTED"
    /\ app[u].reviewed <=> app[u].status \in {"APPROVED", "REJECTED"}

\* As long as handlers do not overlap, a person is a courier exactly when his
\* application stands approved, unless the admin set his role since he applied.
RoleFollowsReview ==
  ~crossed => \A u \in People \ moved :
    role[u] = "courier" <=> app[u].status = "APPROVED"

\* As long as handlers do not overlap, every field of a profile is what the
\* person entered last, whatever rewrote the JSON since, approvals included.
ProfileKeepsEdits == ~crossed => profile = entered

\* As long as handlers do not overlap, removing a role takes nobody's role:
\* the count before the delete still holds.
RemovalTakesNobody == ~crossed => lost = {}

\* Applications, roles and profiles tell the same story.
StaffStands ==
  ReviewFits /\ RoleFollowsReview /\ ProfileKeepsEdits /\ RemovalTakesNobody

=============================================================================
