------------------------------- MODULE Accounts -------------------------------
(***************************************************************************)
(* The accounts of the platform and who supervises them.  Agencies are     *)
(* top-level agents; below them are agents and sub-agents.  Administrators, *)
(* sub-administrators and insurer supervisors create agencies, hand them   *)
(* over, disable and delete them; agency_supervision_history keeps who     *)
(* supervised each agency from which day to which.  Requests run at the    *)
(* same time and are cut at their awaits; what runs inside one transaction *)
(* after its reads is one step.  The cases, plans, API keys and activity   *)
(* log of an account are not kept here.                                    *)
(***************************************************************************)
EXTENDS Naturals, FiniteSets

CONSTANTS
  Admins, SubAdmins, InsurerSupervisors,  \* the staff
  Agents,     \* agencies, their agents and sub-agents, one per login
  Founders,   \* the staff and agents there are at the start
  Above,      \* Above[a]: the account a founding agent was created under
  CreatedBy,  \* CreatedBy[a]: who created a founding agent
  Nobody,     \* NULL where a user is expected
  Requests,   \* the requests, each one is made once
  LastDay, MaxFaults  \* bounds, for model checking

Staff == Admins \cup SubAdmins \cup InsurerSupervisors
Ids == Staff \cup Agents
ScopedManagers == SubAdmins \cup InsurerSupervisors
Days == 0 .. LastDay
Open == LastDay + 1   \* NULL in effective_to: the period goes on

ASSUME RolesAssumption ==
  /\ Staff \cap Agents = {} /\ Nobody \notin Ids
  /\ Admins \cap ScopedManagers = {} /\ SubAdmins \cap InsurerSupervisors = {}
ASSUME FoundersAssumption ==
  /\ Founders \subseteq Ids
  /\ Above \in [Agents -> (Agents \cap Founders) \cup {Nobody}]
  /\ CreatedBy \in [Agents -> (Staff \cap Founders) \cup {Nobody}]
ASSUME BoundsAssumption == LastDay \in Nat \ {0} /\ MaxFaults \in Nat

VARIABLES
  users,     \* table users: the ids that have a row
  gone,      \* ... and those that had one; an id is never given twice
  parent,    \* parent_agent_id of each agent
  creator,   \* created_by_id: for an agency, who supervises it now
  opened,    \* the day of created_at
  inactive,  \* users whose status is 'inactive'
  history,   \* table agency_supervision_history
  rows,      \* rows ever inserted into it
  today,
  req,       \* the requests' local variables
  faults     \* failed statements and crashes so far

vars == <<users, gone, parent, creator, opened, inactive, history, rows,
          today, req, faults>>
tables == <<users, gone, parent, creator, opened, inactive, history, rows>>

Row == [id : Nat, agency : Agents, supervisor : Staff \cup {Nobody},
        from : Days, to : Days \cup {Open}, recorder : Staff]

New == [pc |-> "new"]
Done == [pc |-> "done"]
Answer(r) == req' = [req EXCEPT ![r] = Done]

-----------------------------------------------------------------------------
(* What the lists and the checks compute from the table                     *)

Accounts == users \cap Agents

(* getSubAgentIds.                                                          *)
Children(a) == {b \in Accounts : parent[b] = a}

(* getAllDescendantIds: two levels, as an agency has agents and these have  *)
(* sub-agents.                                                              *)
Descendants(a) == Children(a) \cup UNION {Children(b) : b \in Children(a)}

IsAgency(a) == a \in Accounts /\ parent[a] = Nobody

(* faulty: every account someone created counts as an agency of theirs      *)
AgenciesCreated(m) == {a \in Accounts : creator[a] = m}

(* getOwnedAgencyIds, which is also the filter of listAgents.               *)
Agencies(m) == {a \in Accounts : IsAgency(a) /\ creator[a] = m}

(* getAgentVisibilityIds: what a user reaches.  A user without a row        *)
(* reaches its own id; an administrator is not asked.                       *)
Visible(u) ==
  {u} \cup
  (IF u \in users \cap ScopedManagers
   THEN UNION {{a} \cup Descendants(a) : a \in Agencies(u)}
   ELSE IF u \notin Accounts THEN {}
   ELSE IF IsAgency(u) THEN Descendants(u)
   ELSE IF IsAgency(parent[u]) THEN Children(u)
   ELSE {})

(* assertAgencyManagerMayAccessAgent, asked of sub-administrators and       *)
(* insurer supervisors only.                                                *)
Reach(by) == IF by \in ScopedManagers THEN Visible(by) ELSE Ids

(* getAgentDeletionOrder, as a set: what deleting an account removes.       *)
DeletionOrder(a) ==
  {a} \cup
  (IF IsAgency(a) THEN Children(a) \cup UNION {Children(b) : b \in Children(a)}
   ELSE IF IsAgency(parent[a]) THEN Children(a)
   ELSE {})

(* The accounts listPartners counts for an agency.                          *)
PartnerAccounts(p) ==
  {d \in Accounts : \/ parent[d] = p
                    \/ \E c \in Accounts : parent[c] = p /\ parent[d] = c}

(* The rows of AGENT_HIERARCHY_UNION_SQL under an agency: itself, agents,   *)
(* sub-agents.                                                              *)
HierarchyRows(p) ==
  {p} \cup {a \in Accounts : parent[a] = p}
      \cup {s \in Accounts : parent[s] \in Accounts /\ parent[parent[s]] = p}

(* What getAgent shows below an account.                                    *)
Family(a) ==
  {a} \cup Children(a)
      \cup (IF IsAgency(a) THEN UNION {Children(b) : b \in Children(a)} ELSE {})

Periods(a) == {w \in history : w.agency = a}
OpenPeriods(a) == {w \in Periods(a) : w.to = Open}

-----------------------------------------------------------------------------
(* The tables' foreign keys                                                 *)

(* A row for the history can be inserted if all it names exists.            *)
RowAccepted(a, s, by) == a \in users /\ s \in users \cup {Nobody} /\ by \in users

(* Deleting users: a row that records a change keeps its recorder           *)
(* (RESTRICT); what is below or was created by a deleted user stays, with   *)
(* NULL; the history of a deleted agency goes with it.                      *)
MayDelete(del) == \A w \in history : w.recorder \in del => w.agency \in del

DeleteUsers(del) ==
  /\ users' = users \ del
  /\ gone' = gone \cup (users \cap del)
  /\ parent' = [a \in Agents |-> IF parent[a] \in del \/ a \in del THEN Nobody ELSE parent[a]]
  /\ creator' = [a \in Agents |-> IF creator[a] \in del \/ a \in del THEN Nobody ELSE creator[a]]
  /\ inactive' = inactive \ del
  /\ history' = {[w EXCEPT !.supervisor = IF @ \in del THEN Nobody ELSE @] :
                   w \in {v \in history : v.agency \notin del}}

-----------------------------------------------------------------------------
Init ==
  /\ users = Founders
  /\ gone = {}
  /\ parent = Above
  /\ creator = CreatedBy
  /\ opened = [a \in Agents |-> 0]
  /\ inactive = {}
  /\ history = {} /\ rows = 0
  /\ today = 1
  /\ req = [r \in Requests |-> New]
  /\ faults = 0

Fault == faults < MaxFaults /\ faults' = faults + 1

(* A request carries a token that names its user and role; the table is not *)
(* asked again, so a disabled or deleted user may still act.                *)
HasToken(by) == by \in Staff /\ by \in users \cup gone

(* assertLoginEmailAvailable: the id stands for its login as well.          *)
Available(id) == id \notin users \cup gone

(* Free: the request has not been made yet.                                 *)
Free(r) == req[r].pc = "new"
Begins(r, job) == req' = [req EXCEPT ![r] = job] /\ UNCHANGED <<tables, today, faults>>

-----------------------------------------------------------------------------
(* New accounts                                                             *)

(* createAgent.  The plans an insurer supervisor asks for may be outside    *)
(* its insurer, which is found out only after the account is inserted.      *)
StartAgent(r, by, id, outside) ==
  /\ Free(r)
  /\ HasToken(by) /\ Available(id)
  /\ outside => by \in InsurerSupervisors
  /\ Begins(r, [pc |-> "inserting", by |-> by, id |-> id, above |-> Nobody,
                outside |-> outside])

(* createSubAgent, under any agent account; here the plans are checked first. *)
StartSubAgent(r, by, a, id) ==   \* a within the reach of by: see CreateAccount
  /\ Free(r)
  /\ HasToken(by) /\ Available(id)
  /\ a \in Accounts
  /\ Begins(r, [pc |-> "inserting", by |-> by, id |-> id, above |-> a,
                outside |-> FALSE])

InsertAccount(r) ==
  LET job == req[r] IN
  /\ job.pc = "inserting"
  /\ Available(job.id) /\ job.by \in users /\ job.above \in users \cup {Nobody}
  /\ users' = users \cup {job.id}
  /\ parent' = [parent EXCEPT ![job.id] = job.above]
  /\ creator' = [creator EXCEPT ![job.id] = job.by]
  /\ opened' = [opened EXCEPT ![job.id] = today]
  /\ IF job.above = Nobody
     THEN req' = [req EXCEPT ![r] = [pc |-> "assigning", by |-> job.by, id |-> job.id,
                                     outside |-> job.outside]]
     ELSE Answer(r)
  /\ UNCHANGED <<gone, inactive, history, rows, today, faults>>

(* The login has been taken, or the creator or the parent is gone.          *)
InsertFails(r) ==
  LET job == req[r] IN
  /\ job.pc = "inserting"
  /\ ~(Available(job.id) /\ job.by \in users /\ job.above \in users \cup {Nobody})
  /\ Answer(r)
  /\ UNCHANGED <<tables, today, faults>>

(* rejectIfPlansOutsideInsurer: 403, and the account stays.                 *)
RefusePlans(r) ==
  /\ req[r].pc = "assigning" /\ req[r].outside
  /\ Answer(r)
  /\ UNCHANGED <<tables, today, faults>>

InsertRow(a, s, from, by) ==
  /\ history' = history \cup {[id |-> rows + 1, agency |-> a, supervisor |-> s,
                               from |-> from, to |-> Open, recorder |-> by]}
  /\ rows' = rows + 1

(* recordInitialSupervision.                                                *)
RecordInitial(r) ==
  LET job == req[r] IN
  /\ job.pc = "assigning" /\ ~job.outside
  /\ RowAccepted(job.id, job.by, job.by)
  /\ InsertRow(job.id, job.by, today, job.by)
  /\ Answer(r)
  /\ UNCHANGED <<users, gone, parent, creator, opened, inactive, today, faults>>

(* Its failure is logged and swallowed.                                     *)
RecordFails(r) ==
  LET job == req[r] IN
  /\ job.pc = "assigning" /\ ~job.outside
  /\ IF RowAccepted(job.id, job.by, job.by) THEN Fault ELSE UNCHANGED faults
  /\ Answer(r)
  /\ UNCHANGED <<tables, today>>

(* createSubAdmin, createInsurerSupervisor.                                 *)
StartStaff(r, by, s) ==
  /\ Free(r)
  /\ by \in Admins /\ HasToken(by) /\ s \in ScopedManagers /\ Available(s)
  /\ Begins(r, [pc |-> "hiring", by |-> by, id |-> s])

InsertStaff(r) ==
  LET job == req[r] IN
  /\ job.pc = "hiring"
  /\ users' = IF Available(job.id) /\ job.by \in users THEN users \cup {job.id} ELSE users
  /\ Answer(r)
  /\ UNCHANGED <<gone, parent, creator, opened, inactive, history, rows, today, faults>>

-----------------------------------------------------------------------------
(* reassignAgencySupervisor                                                 *)

(* The agency and the new supervisor are read before the transaction.       *)
StartReassign(r, by, a, s, from) ==
  /\ Free(r)
  /\ by \in Admins /\ HasToken(by)
  /\ IsAgency(a)
  /\ s \in users \cap (Admins \cup SubAdmins) /\ s # creator[a]
  /\ Begins(r, [pc |-> "reassigning", by |-> by, id |-> a, to |-> s,
                before |-> creator[a], from |-> from])

(* The transaction's snapshot of the history.                               *)
ReadPeriods(r) ==
  LET job == req[r] IN
  /\ job.pc = "reassigning"
  /\ req' = [req EXCEPT ![r] =
       [pc |-> "closing", by |-> job.by, id |-> job.id, to |-> job.to,
        before |-> job.before, from |-> job.from,
        none |-> Periods(job.id) = {}, open |-> {w.id : w \in OpenPeriods(job.id)}]]
  /\ UNCHANGED <<tables, today, faults>>

(* faulty: also when the agency is no older than the reassignment           *)
NeedsPastAlways(job) == job.none

(* The first reassignment of an agency without history also records the     *)
(* period before it.                                                        *)
NeedsPast(job) == job.none /\ opened[job.id] < job.from

(* faulty: leaves a day between the two periods                             *)
CloseTwoDaysBefore(w, from) ==
  [w EXCEPT !.to = IF from > w.from + 1 THEN from - 2 ELSE w.from]

(* faulty: a period that has not begun by then is moved                     *)
CloseMoved(w, from) ==
  IF from > w.from THEN [w EXCEPT !.to = from - 1] ELSE [w EXCEPT !.from = 0, !.to = 0]

(* A period ends the day before the next one begins, but not before it has  *)
(* begun itself.                                                            *)
Close(w, from) == [w EXCEPT !.to = IF from > w.from THEN from - 1 ELSE w.from]

MayReassign(job) ==
  /\ RowAccepted(job.id, job.to, job.by)
  /\ NeedsPast(job) => job.before \in users \cup {Nobody}

Reassign(r) ==
  LET job == req[r]
      past == [id |-> rows + 1, agency |-> job.id, supervisor |-> job.before,
               from |-> opened[job.id], to |-> job.from - 1, recorder |-> job.by]
      next == [id |-> rows + 2, agency |-> job.id, supervisor |-> job.to,
               from |-> job.from, to |-> Open, recorder |-> job.by]
  IN
  /\ job.pc = "closing" /\ MayReassign(job)
  /\ history' = {IF w.id \in job.open THEN Close(w, job.from) ELSE w : w \in history}
                \cup (IF NeedsPast(job) THEN {past} ELSE {}) \cup {next}
  /\ rows' = rows + 2
  /\ creator' = [creator EXCEPT ![job.id] = job.to]
  /\ Answer(r)
  /\ UNCHANGED <<users, gone, parent, opened, inactive, today, faults>>

(* faulty: the owner is written before the transaction and stays when the   *)
(* transaction is rolled back                                               *)
ReassignFailsHalfway(r) ==
  /\ req[r].pc = "closing"
  /\ IF MayReassign(req[r]) THEN Fault ELSE UNCHANGED faults
  /\ creator' = [creator EXCEPT ![req[r].id] = IF req[r].to \in users THEN req[r].to ELSE @]
  /\ Answer(r)
  /\ UNCHANGED <<users, gone, parent, opened, inactive, history, rows, today>>

(* A user the rows name is gone, or a statement fails: rolled back.         *)
ReassignFails(r) ==
  /\ req[r].pc = "closing"
  /\ IF MayReassign(req[r]) THEN Fault ELSE UNCHANGED faults
  /\ Answer(r)
  /\ UNCHANGED <<tables, today>>

-----------------------------------------------------------------------------
(* getAgentSupervisionHistory: looking at a history may write its first row *)

StartView(r, by, a) ==
  /\ Free(r)
  /\ by \in Admins /\ HasToken(by) /\ IsAgency(a)
  /\ Begins(r, [pc |-> "looking", by |-> by, id |-> a, owner |-> creator[a]])

(* ensureOpenSupervisionPeriod: nothing to do where there is any row.       *)
LookForPeriod(r) ==
  /\ req[r].pc = "looking"
  /\ IF Periods(req[r].id) = {}
     THEN req' = [req EXCEPT ![r] = [pc |-> "backfilling", by |-> req[r].by,
                                     id |-> req[r].id, owner |-> req[r].owner]]
     ELSE Answer(r)
  /\ UNCHANGED <<tables, today, faults>>

Backfill(r) ==
  LET job == req[r] IN
  /\ job.pc = "backfilling"
  /\ IF RowAccepted(job.id, job.owner, job.by)
     THEN InsertRow(job.id, job.owner, opened[job.id], job.by)
     ELSE UNCHANGED <<history, rows>>
  /\ Answer(r)
  /\ UNCHANGED <<users, gone, parent, creator, opened, inactive, today, faults>>

-----------------------------------------------------------------------------
(* Disabling and deleting                                                   *)

(* changeUserStatus.                                                        *)
StartStatus(r, by, id, status) ==
  /\ Free(r)
  /\ HasToken(by) /\ id # by
  /\ Begins(r, [pc |-> "status", by |-> by, id |-> id, to |-> status])

SetStatus(r) ==
  LET job == req[r] IN
  /\ job.pc = "status"
  /\ inactive' = IF job.id \in users /\ job.to = "inactive" THEN inactive \cup {job.id}
                 ELSE inactive \ {job.id}
  /\ Answer(r)
  /\ UNCHANGED <<users, gone, parent, creator, opened, history, rows, today, faults>>

(* deleteAgentOrHierarchy.                                                  *)
StartDelete(r, by, id) ==
  /\ Free(r)
  /\ HasToken(by)
  /\ Begins(r, [pc |-> "ordering", by |-> by, id |-> id])

ReadOrder(r) ==
  LET job == req[r] IN
  /\ job.pc = "ordering"
  /\ IF job.id \in Accounts
     THEN req' = [req EXCEPT ![r] = [pc |-> "deleting", order |-> DeletionOrder(job.id)]]
     ELSE Answer(r)
  /\ UNCHANGED <<tables, today, faults>>

(* deleteAgentHierarchy's transaction.                                      *)
DeleteAccounts(r) ==
  /\ req[r].pc = "deleting"
  /\ \/ DeleteUsers(req[r].order) /\ UNCHANGED faults
     \/ Fault /\ UNCHANGED <<users, gone, parent, creator, inactive, history>>
  /\ Answer(r)
  /\ UNCHANGED <<opened, rows, today>>

(* deleteSubAdmin, deleteInsurerSupervisor.                                 *)
StartDeleteStaff(r, by, s) ==
  /\ Free(r)
  /\ by \in Admins /\ HasToken(by) /\ s \in users \cap ScopedManagers
  /\ Begins(r, [pc |-> "removing", by |-> by, id |-> s])

(* Refused by the database while the history names the user as recorder.    *)
DeleteStaff(r) ==
  /\ req[r].pc = "removing"
  /\ IF MayDelete({req[r].id}) THEN DeleteUsers({req[r].id})
     ELSE UNCHANGED <<users, gone, parent, creator, inactive, history>>
  /\ Answer(r)
  /\ UNCHANGED <<opened, rows, today, faults>>

-----------------------------------------------------------------------------
Tick ==
  /\ today < LastDay
  /\ today' = today + 1
  /\ UNCHANGED <<tables, req, faults>>

(* The web process dies: what is in progress is forgotten.                  *)
Crash ==
  /\ Fault
  /\ req' = [r \in Requests |-> IF Free(r) THEN New ELSE Done]
  /\ UNCHANGED <<tables, today>>

CreateAccount(r) ==
  \/ \E by \in Staff, id \in Agents : \E outside \in BOOLEAN : StartAgent(r, by, id, outside)
  \/ \E by \in Staff, id \in Agents : \E a \in Reach(by) : StartSubAgent(r, by, a, id)
  \/ InsertAccount(r) \/ InsertFails(r)
  \/ RefusePlans(r) \/ RecordInitial(r) \/ RecordFails(r)

CreateStaff(r) == (\E by \in Admins, s \in Staff : StartStaff(r, by, s)) \/ InsertStaff(r)

ReassignSupervisor(r) ==
  \/ \E by, s \in Staff, a \in Agents, from \in Days : StartReassign(r, by, a, s, from)
  \/ ReadPeriods(r) \/ Reassign(r) \/ ReassignFails(r)

ViewHistory(r) ==
  \/ \E by \in Staff, a \in Agents : StartView(r, by, a)
  \/ LookForPeriod(r) \/ Backfill(r)

ChangeStatus(r) ==
  \/ \E by \in Staff, status \in {"active", "inactive"} : \E id \in Reach(by) : StartStatus(r, by, id, status)
  \/ SetStatus(r)

DeleteAgent(r) ==
  \/ \E by \in Staff : \E id \in Reach(by) : StartDelete(r, by, id)
  \/ ReadOrder(r) \/ DeleteAccounts(r)

RemoveStaff(r) == (\E by, s \in Staff : StartDeleteStaff(r, by, s)) \/ DeleteStaff(r)

Next ==
  \/ \E r \in Requests :
       \/ CreateAccount(r) \/ CreateStaff(r) \/ ReassignSupervisor(r) \/ ViewHistory(r)
       \/ ChangeStatus(r) \/ DeleteAgent(r) \/ RemoveStaff(r)
  \/ Tick \/ Crash

Spec == Init /\ [][Next]_vars

-----------------------------------------------------------------------------
(* What is promised                                                         *)

(* The tables keep their keys: users exist or not, what an agent names as   *)
(* parent or creator exists, and so does what the history names.            *)
TypeOK ==
  /\ users \subseteq Ids /\ gone \subseteq Ids /\ users \cap gone = {}
  /\ parent \in [Agents -> Accounts \cup {Nobody}]
  /\ creator \in [Agents -> (users \cap Staff) \cup {Nobody}]
  /\ opened \in [Agents -> Days] /\ today \in Days
  /\ inactive \subseteq users
  /\ history \subseteq Row /\ rows \in Nat
  /\ \A w \in history : RowAccepted(w.agency, w.supervisor, w.recorder) /\ w.id <= rows
  /\ faults \in 0 .. MaxFaults

(* An agency whose supervision is recorded at all has a current period that *)
(* names the account it belongs to now, whatever reassignments, first looks *)
(* at the history, creations and deletions of supervisors overlapped.       *)
OwnerListed ==
  \A a \in Agents :
    Periods(a) # {} => \E w \in OpenPeriods(a) : w.supervisor = creator[a]

(* From the first day of an agency's history on, no day is without a period *)
(* and no period ends before it begins, also after back-dated and           *)
(* concurrent reassignments.                                                *)
NoDayUncovered ==
  \A w \in history :
    /\ w.from <= w.to
    /\ \A d \in w.from .. LastDay : \E v \in Periods(w.agency) : v.from <= d /\ d <= v.to

(* No account is within the reach of two sub-administrators or insurer      *)
(* supervisors: who hands an agency over reaches nothing of it any more,    *)
(* nor of the accounts they created below it.                               *)
ScopesDisjoint ==
  \A m, n \in ScopedManagers : m # n => Visible(m) \cap Visible(n) = {}

(* Deleting an account removes what its owner reaches, and for an agency    *)
(* that is what the list of partners counts, the hierarchy lists and the    *)
(* agency's page shows, also in trees that are deeper than the three levels *)
(* they were written for.                                                   *)
ViewsAgree ==
  \A a \in Accounts :
    /\ DeletionOrder(a) = Visible(a)
    /\ IsAgency(a) => /\ Visible(a) = PartnerAccounts(a) \cup {a}
                      /\ Visible(a) = HierarchyRows(a)
                      /\ Visible(a) = Family(a)

(* Whose an account is, is asked in many places, and answered the same way. *)
WhoReachesWhom == ScopesDisjoint /\ ViewsAgree

(* Reassigning loses nothing of the audit trail: while an agency and its    *)
(* supervisor exist, a period stays with its first day and its recorder.    *)
AuditTrailKept ==
  [][\A w \in history :
       w.agency \in users' =>
         \E v \in history' : /\ v.id = w.id /\ v.agency = w.agency
                             /\ v.from = w.from /\ v.recorder = w.recorder
                             /\ w.supervisor \in users' => v.supervisor = w.supervisor
                             /\ v.to = Open => w.to = Open]_vars
=============================================================================
