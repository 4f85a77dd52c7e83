---------------------------- MODULE AccountsProofs ----------------------------
(***************************************************************************)
(* Proofs about Accounts, for any staff, any agents, any number of         *)
(* requests of any kind and any number of days and faults.                 *)
(***************************************************************************)
EXTENDS Accounts, TLAPS

USE RolesAssumption, FoundersAssumption, BoundsAssumption

(* What a request remembers fits the tables.  The tables are parameters:    *)
(* u, g: users and gone; c: creator; h, n: history and rows.                *)
HasRows(a, h) == \E w \in h : w.agency = a

Owns(a, s, u, c, h) == ~HasRows(a, h) /\ a \in u /\ s \in u \cup {Nobody} => c[a] = s

JobFits(job, u, g, c, h, n) ==
  /\ job.pc = "inserting" =>
       job.id \in Agents /\ job.by \in Staff /\ job.above \in Agents \cup {Nobody}
  /\ job.pc = "assigning" =>
       /\ job.id \in Agents \cap (u \cup g) /\ job.by \in Staff \cap (u \cup g)
       /\ Owns(job.id, job.by, u, c, h)
  /\ job.pc \in {"hiring", "removing"} => job.id \in ScopedManagers
  /\ job.pc \in {"reassigning", "closing"} =>
       /\ job.id \in Agents \cap (u \cup g) /\ job.by \in Staff
       /\ job.to \in Staff /\ job.before \in Staff \cup {Nobody} /\ job.from \in Days
  /\ job.pc = "closing" =>
       \A i \in job.open : i \in Nat /\ i <= n /\ \A w \in h : w.id = i => w.agency = job.id
  /\ job.pc \in {"looking", "backfilling"} =>
       /\ job.id \in Agents \cap (u \cup g) /\ job.by \in Staff
       /\ job.owner \in (Staff \cap (u \cup g)) \cup {Nobody}
       /\ Owns(job.id, job.owner, u, c, h)
  /\ job.pc = "deleting" => job.order \subseteq Agents

Fits(job) == JobFits(job, users, gone, creator, history, rows)

Inv ==
  /\ TypeOK
  /\ \A v, w \in history : v.id = w.id => v.agency = w.agency
  /\ req = [r \in Requests |-> req[r]]
  /\ \A r \in Requests : Fits(req[r])

-----------------------------------------------------------------------------
(* A remembered job still fits when no user comes back or changes hands     *)
(* without a row in the history, and the new rows have new ids.             *)
LEMMA FitsLater ==
  ASSUME NEW job, NEW u, NEW g, NEW c, NEW h, NEW n \in Nat,
         NEW u2, NEW g2, NEW c2, NEW h2, NEW n2 \in Nat,
         JobFits(job, u, g, c, h, n),
         u \cup g \subseteq u2 \cup g2,
         \A a \in Agents \cap (u \cup g), s \in u \cup g \cup {Nobody} :
           Owns(a, s, u, c, h) => Owns(a, s, u2, c2, h2),
         \A v \in h2 : v.id \in Nat /\ (v.id > n \/ \E w \in h : w.id = v.id /\ w.agency = v.agency),
         n <= n2
  PROVE  JobFits(job, u2, g2, c2, h2, n2)
<1>1. job.pc = "closing" =>
        \A i \in job.open : i \in Nat /\ i <= n2 /\ \A w \in h2 : w.id = i => w.agency = job.id
  BY DEF JobFits
<1>2. job.pc = "assigning" => Owns(job.id, job.by, u2, c2, h2)
  BY DEF JobFits
<1>3. job.pc \in {"looking", "backfilling"} => Owns(job.id, job.owner, u2, c2, h2)
  BY DEF JobFits
<1> QED  BY <1>1, <1>2, <1>3 DEF JobFits

(* A step that changes no table leaves the invariant, if the jobs it leaves *)
(* behind fit.                                                              *)
LEMMA TablesKept ==
  ASSUME Inv, UNCHANGED tables, today' \in Days, faults' \in 0 .. MaxFaults,
         req' = [r \in Requests |-> req'[r]],
         \A r \in Requests : Fits(req'[r])
  PROVE  Inv'
BY DEF Inv, TypeOK, tables, Fits, Accounts, RowAccepted

LEMMA InitInv == Init => Inv
BY DEF Init, Inv, TypeOK, Fits, JobFits, New, Accounts, Days, Ids

(* Beginning a request whose job fits.                                      *)
LEMMA BeginKeeps ==
  ASSUME Inv, NEW r \in Requests, UNCHANGED <<tables, today, faults>>,
         \A q \in Requests : q # r => req'[q] = req[q],
         req' = [q \in Requests |-> req'[q]],
         Fits(req'[r])
  PROVE  Inv'
<1>1. \A q \in Requests : Fits(req'[q])
  BY DEF Inv
<1> QED  BY <1>1, TablesKept DEF Inv, TypeOK

LEMMA DoneFits == Fits(Done)
BY DEF Fits, JobFits, Done

(* Answering without touching a table.                                      *)
LEMMA AnswerKeeps ==
  ASSUME Inv, NEW r \in Requests, Answer(r), UNCHANGED <<tables, today>>,
         faults' = faults \/ Fault
  PROVE  Inv'
<1>1. req' = [q \in Requests |-> IF q = r THEN Done ELSE req[q]]
  BY DEF Answer, Inv
<1>2. \A q \in Requests : Fits(req'[q])
  BY <1>1, DoneFits DEF Inv
<1> QED  BY <1>1, <1>2, TablesKept, BoundsAssumption DEF Inv, TypeOK, Fault

-----------------------------------------------------------------------------
(* Steps that only read                                                     *)

LEMMA Known == Inv => Accounts \subseteq Agents \cap (users \cup gone)
BY DEF Inv, TypeOK, Accounts

LEMMA StartsKeep ==
  ASSUME Inv, NEW r \in Requests, NEW by, NEW id,
         \/ \E outside : StartAgent(r, by, id, outside) /\ id \in Agents
         \/ \E a : StartSubAgent(r, by, a, id) /\ id \in Agents
         \/ StartStaff(r, by, id)
         \/ \E s \in Staff, from \in Days : StartReassign(r, by, id, s, from)
         \/ StartView(r, by, id)
         \/ \E status : StartStatus(r, by, id, status)
         \/ StartDelete(r, by, id)
         \/ StartDeleteStaff(r, by, id)
  PROVE  Inv'
<1> USE DEF Begins, HasToken
<1>1. ASSUME NEW outside, StartAgent(r, by, id, outside), id \in Agents  PROVE Inv'
  <2>1. Fits([pc |-> "inserting", by |-> by, id |-> id, above |-> Nobody, outside |-> outside])
    BY <1>1 DEF StartAgent, Fits, JobFits
  <2> QED  BY <1>1, <2>1, BeginKeeps DEF StartAgent, Inv
<1>2. ASSUME NEW a, StartSubAgent(r, by, a, id), id \in Agents  PROVE Inv'
  <2>1. Fits([pc |-> "inserting", by |-> by, id |-> id, above |-> a, outside |-> FALSE])
    BY <1>2 DEF StartSubAgent, Fits, JobFits, Accounts
  <2> QED  BY <1>2, <2>1, BeginKeeps DEF StartSubAgent, Inv
<1>3. CASE StartStaff(r, by, id)
  <2>1. Fits([pc |-> "hiring", by |-> by, id |-> id])
    BY <1>3 DEF StartStaff, Fits, JobFits
  <2> QED  BY <1>3, <2>1, BeginKeeps DEF StartStaff, Inv
<1>4. ASSUME NEW s \in Staff, NEW from \in Days, StartReassign(r, by, id, s, from)  PROVE Inv'
  <2>1. id \in Agents \cap (users \cup gone) /\ creator[id] \in Staff \cup {Nobody}
    BY <1>4, Known DEF StartReassign, IsAgency, Inv, TypeOK
  <2>2. Fits([pc |-> "reassigning", by |-> by, id |-> id, to |-> s,
              before |-> creator[id], from |-> from])
    BY <1>4, <2>1 DEF StartReassign, Fits, JobFits
  <2> QED  BY <1>4, <2>2, BeginKeeps DEF StartReassign, Inv
<1>5. CASE StartView(r, by, id)
  <2>1. id \in Agents \cap (users \cup gone) /\ creator[id] \in (Staff \cap users) \cup {Nobody}
    BY <1>5, Known DEF StartView, IsAgency, Inv, TypeOK
  <2>2. by \in Staff
    BY <1>5 DEF StartView
  <2>3. Fits([pc |-> "looking", by |-> by, id |-> id, owner |-> creator[id]])
    BY <2>1, <2>2 DEF Fits, JobFits, Owns
  <2> QED  BY <1>5, <2>3, BeginKeeps DEF StartView, Inv
<1>6. ASSUME NEW status, StartStatus(r, by, id, status)  PROVE Inv'
  <2>1. Fits([pc |-> "status", by |-> by, id |-> id, to |-> status])
    BY DEF Fits, JobFits
  <2> QED  BY <1>6, <2>1, BeginKeeps DEF StartStatus, Inv
<1>7. CASE StartDelete(r, by, id)
  <2>1. Fits([pc |-> "ordering", by |-> by, id |-> id])
    BY DEF Fits, JobFits
  <2> QED  BY <1>7, <2>1, BeginKeeps DEF StartDelete, Inv
<1>8. CASE StartDeleteStaff(r, by, id)
  <2>1. Fits([pc |-> "removing", by |-> by, id |-> id])
    BY <1>8 DEF StartDeleteStaff, Fits, JobFits
  <2> QED  BY <1>8, <2>1, BeginKeeps DEF StartDeleteStaff, Inv
<1> QED  BY <1>1, <1>2, <1>3, <1>4, <1>5, <1>6, <1>7, <1>8

LEMMA ReadsKeep ==
  ASSUME Inv, NEW r \in Requests,
         ReadPeriods(r) \/ LookForPeriod(r) \/ ReadOrder(r)
  PROVE  Inv'
<1> DEFINE job == req[r]
<1>0. Fits(job)
  BY DEF Inv
<1>1. CASE ReadPeriods(r)
  <2> DEFINE next == [pc |-> "closing", by |-> job.by, id |-> job.id, to |-> job.to,
                      before |-> job.before, from |-> job.from,
                      none |-> Periods(job.id) = {}, open |-> {w.id : w \in OpenPeriods(job.id)}]
  <2>1. \A i \in next.open : i \in Nat /\ i <= rows
    BY DEF OpenPeriods, Periods, Inv, TypeOK, Row
  <2>2. \A i \in next.open : \A w \in history : w.id = i => w.agency = job.id
    BY DEF OpenPeriods, Periods, Inv, TypeOK, Row
  <2>3. Fits(next)
    BY <1>0, <1>1, <2>1, <2>2 DEF ReadPeriods, Fits, JobFits
  <2> QED  BY <1>1, <2>3, BeginKeeps DEF ReadPeriods, Inv
<1>2. CASE LookForPeriod(r)
  <2>1. CASE Periods(job.id) = {}
    <3> DEFINE next == [pc |-> "backfilling", by |-> job.by, id |-> job.id, owner |-> job.owner]
    <3>1. Fits(next)
      BY <1>0, <1>2 DEF LookForPeriod, Fits, JobFits
    <3> QED  BY <1>2, <2>1, <3>1, BeginKeeps DEF LookForPeriod, Inv
  <2>2. CASE Periods(job.id) # {}
    BY <1>2, <2>2, AnswerKeeps DEF LookForPeriod
  <2> QED  BY <2>1, <2>2
<1>3. CASE ReadOrder(r)
  <2>1. CASE job.id \in Accounts
    <3> DEFINE next == [pc |-> "deleting", order |-> DeletionOrder(job.id)]
    <3>1. DeletionOrder(job.id) \subseteq Agents
      BY <2>1 DEF DeletionOrder, Children, Accounts
    <3>2. Fits(next)
      BY <3>1 DEF Fits, JobFits
    <3> QED  BY <1>3, <2>1, <3>2, BeginKeeps DEF ReadOrder, Inv
  <2>2. CASE job.id \notin Accounts
    BY <1>3, <2>2, AnswerKeeps DEF ReadOrder
  <2> QED  BY <2>1, <2>2
<1> QED  BY <1>1, <1>2, <1>3

-----------------------------------------------------------------------------
(* Steps that write                                                         *)

FitsAfter(job) == JobFits(job, users', gone', creator', history', rows')

(* Whatever a request writes, the jobs of the others still fit.             *)
LEMMA WriteKeeps ==
  ASSUME Inv, NEW r \in Requests, TypeOK',
         \A v, w \in history' : v.id = w.id => v.agency = w.agency,
         users \cup gone \subseteq users' \cup gone', rows <= rows',
         \A a \in Agents \cap (users \cup gone), s \in users \cup gone \cup {Nobody} :
           Owns(a, s, users, creator, history) => Owns(a, s, users', creator', history'),
         \A v \in history' : v.id > rows \/ \E w \in history : w.id = v.id /\ w.agency = v.agency,
         \A q \in Requests : q # r => req'[q] = req[q],
         req' = [q \in Requests |-> req'[q]],
         FitsAfter(req'[r])
  PROVE  Inv'
<1>1. ASSUME NEW q \in Requests, q # r  PROVE FitsAfter(req'[q])
  <2>1. JobFits(req[q], users, gone, creator, history, rows)
    BY DEF Inv, Fits
  <2>2. rows \in Nat /\ rows' \in Nat /\ \A v \in history' : v.id \in Nat
    BY DEF Inv, TypeOK, Row
  <2>3. JobFits(req[q], users', gone', creator', history', rows')
    BY <2>1, <2>2, FitsLater
  <2> QED  BY <1>1, <2>3 DEF FitsAfter
<1> QED  BY <1>1 DEF Inv, Fits, FitsAfter

LEMMA DoneFitsAlways ==
  ASSUME NEW u, NEW g, NEW c, NEW h, NEW n  PROVE JobFits(Done, u, g, c, h, n)
BY DEF JobFits, Done

LEMMA AnswerIs ==
  ASSUME Inv, NEW r \in Requests, Answer(r)
  PROVE  req' = [q \in Requests |-> IF q = r THEN Done ELSE req[q]]
BY DEF Inv, Answer

LEMMA InsertAccountKeeps ==
  ASSUME Inv, NEW r \in Requests, InsertAccount(r)  PROVE Inv'
<1> DEFINE job == req[r]
<1>1. job.id \in Agents \ (users \cup gone) /\ job.by \in Staff \cap users /\ job.above \in Agents \cup {Nobody}
  BY DEF InsertAccount, Available, Inv, Fits, JobFits
<1>2. TypeOK'
  BY <1>1 DEF InsertAccount, Inv, TypeOK, Accounts, RowAccepted, Ids
<1>3. \A a \in Agents \cap (users \cup gone), s \in users \cup gone \cup {Nobody} :
        Owns(a, s, users, creator, history) => Owns(a, s, users', creator', history')
  BY <1>1 DEF InsertAccount, Owns, HasRows, Inv, TypeOK
<1>4. /\ \A v, w \in history' : v.id = w.id => v.agency = w.agency
      /\ users \cup gone \subseteq users' \cup gone' /\ rows <= rows'
      /\ \A v \in history' : v.id > rows \/ \E w \in history : w.id = v.id /\ w.agency = v.agency
  BY DEF InsertAccount, Inv, TypeOK
<1>5. CASE job.above = Nobody
  <2> DEFINE next == [pc |-> "assigning", by |-> job.by, id |-> job.id, outside |-> job.outside]
  <2>1. req' = [q \in Requests |-> IF q = r THEN next ELSE req[q]]
    BY <1>5 DEF InsertAccount, Inv
  <2>2. creator'[job.id] = job.by
    BY <1>1 DEF InsertAccount, Inv, TypeOK
  <2>3. FitsAfter(next)
    BY <1>1, <2>2 DEF FitsAfter, JobFits, Owns, InsertAccount
  <2>4. \A q \in Requests : q # r => req'[q] = req[q]
    BY <2>1
  <2>5. req' = [q \in Requests |-> req'[q]] /\ FitsAfter(req'[r])
    BY <2>1, <2>3
  <2> QED  BY <1>2, <1>3, <1>4, <2>4, <2>5, WriteKeeps
<1>6. CASE job.above # Nobody
  <2>1. req' = [q \in Requests |-> IF q = r THEN Done ELSE req[q]]
    BY <1>6, AnswerIs DEF InsertAccount
  <2>2. FitsAfter(Done)
    BY DoneFitsAlways DEF FitsAfter
  <2>3. \A q \in Requests : q # r => req'[q] = req[q]
    BY <2>1
  <2>4. req' = [q \in Requests |-> req'[q]] /\ FitsAfter(req'[r])
    BY <2>1, <2>2
  <2> QED  BY <1>2, <1>3, <1>4, <2>3, <2>4, WriteKeeps
<1> QED  BY <1>5, <1>6

(* A new row for an agency that had none, or had one.                       *)
LEMMA RowKeeps ==
  ASSUME Inv, NEW r \in Requests, Answer(r),
         NEW a \in Agents, NEW s \in Staff \cup {Nobody}, NEW from \in Days, NEW by \in Staff,
         RowAccepted(a, s, by), InsertRow(a, s, from, by),
         UNCHANGED <<users, gone, parent, creator, opened, inactive, today, faults>>
  PROVE  Inv'
<1>1. /\ rows \in Nat /\ rows' = rows + 1 /\ \A w \in history : w.id \in Nat /\ w.id <= rows
  BY DEF InsertRow, Inv, TypeOK, Row
<1> DEFINE new == [id |-> rows + 1, agency |-> a, supervisor |-> s, from |-> from, to |-> Open, recorder |-> by]
<1>2. history' = history \cup {new} /\ new \in Row
  BY <1>1 DEF InsertRow, Row
<1>3. TypeOK'
  <2>1. \A w \in history' : RowAccepted(w.agency, w.supervisor, w.recorder)' /\ w.id <= rows'
    BY <1>1, <1>2 DEF Inv, TypeOK, RowAccepted
  <2> QED  BY <1>1, <1>2, <2>1 DEF Inv, TypeOK, Accounts
<1>4. \A x \in Agents \cap (users \cup gone), t \in users \cup gone \cup {Nobody} :
        Owns(x, t, users, creator, history) => Owns(x, t, users', creator', history')
  BY <1>2 DEF Owns, HasRows
<1>5. \A v, w \in history' : v.id = w.id => v.agency = w.agency
  BY <1>1, <1>2 DEF Inv
<1>6. \A v \in history' : v.id > rows \/ \E w \in history : w.id = v.id /\ w.agency = v.agency
  BY <1>1, <1>2
<1>7. req' = [q \in Requests |-> IF q = r THEN Done ELSE req[q]]
  BY AnswerIs
<1>8. FitsAfter(Done)
  BY DoneFitsAlways DEF FitsAfter
<1>9. /\ \A q \in Requests : q # r => req'[q] = req[q]
      /\ req' = [q \in Requests |-> req'[q]] /\ FitsAfter(req'[r])
  BY <1>7, <1>8
<1>10. users \cup gone \subseteq users' \cup gone' /\ rows <= rows'
  BY <1>1
<1> QED  BY <1>3, <1>4, <1>5, <1>6, <1>9, <1>10, WriteKeeps

LEMMA RecordsKeep ==
  ASSUME Inv, NEW r \in Requests, RecordInitial(r) \/ Backfill(r)  PROVE Inv'
<1> DEFINE job == req[r]
<1>0. Fits(job)
  BY DEF Inv
<1>1. CASE RecordInitial(r)
  <2>1. job.id \in Agents /\ job.by \in Staff
    BY <1>0, <1>1 DEF RecordInitial, Fits, JobFits
  <2>2. today \in Days
    BY DEF Inv, TypeOK
  <2> QED  BY <1>1, <2>1, <2>2, RowKeeps DEF RecordInitial
<1>2. CASE Backfill(r)
  <2>1. job.id \in Agents /\ job.by \in Staff /\ job.owner \in Staff \cup {Nobody}
    BY <1>0, <1>2 DEF Backfill, Fits, JobFits
  <2>2. opened[job.id] \in Days
    BY <2>1 DEF Inv, TypeOK
  <2>3. CASE RowAccepted(job.id, job.owner, job.by)
    BY <1>2, <2>1, <2>2, <2>3, RowKeeps DEF Backfill
  <2>4. CASE ~RowAccepted(job.id, job.owner, job.by)
    BY <1>2, <2>4, AnswerKeeps DEF Backfill, tables
  <2> QED  BY <2>3, <2>4
<1> QED  BY <1>1, <1>2

(* What a reassignment does to the history: the periods it found open are   *)
(* closed, the rest is kept and the agency's rows are all it touches.       *)
LEMMA ReassignShape ==
  ASSUME Inv, NEW r \in Requests, Reassign(r)
  PROVE  LET job == req[r] IN
         /\ job.id \in Agents /\ job.by \in Staff /\ job.to \in Staff
         /\ job.before \in Staff \cup {Nobody} /\ job.from \in Days
         /\ \A w \in history : w.id \in job.open => w.agency = job.id
         /\ \E new \in SUBSET Row :
              /\ history' = {IF w.id \in job.open THEN Close(w, job.from) ELSE w : w \in history} \cup new
              /\ \A v \in new : /\ v.agency = job.id /\ v.id > rows /\ v.id <= rows'
                                /\ RowAccepted(v.agency, v.supervisor, v.recorder)
                                /\ v.from <= v.to /\ (v.to = Open \/ v.to + 1 = job.from)
              /\ \E v \in new : v.supervisor = job.to /\ v.from = job.from /\ v.to = Open
         /\ rows' = rows + 2
         /\ creator' = [creator EXCEPT ![job.id] = job.to]
         /\ job.to \in users
         /\ Answer(r)
         /\ UNCHANGED <<users, gone, parent, opened, inactive, today, faults>>
<1> DEFINE job == req[r]
<1>0. Fits(job)
  BY DEF Inv
<1>1. /\ job.id \in Agents /\ job.by \in Staff /\ job.to \in Staff
      /\ job.before \in Staff \cup {Nobody} /\ job.from \in Days
      /\ \A w \in history : w.id \in job.open => w.agency = job.id
  BY <1>0 DEF Reassign, Fits, JobFits
<1>2. rows \in Nat /\ opened[job.id] \in Days
  BY <1>1 DEF Inv, TypeOK
<1> DEFINE past == [id |-> rows + 1, agency |-> job.id, supervisor |-> job.before,
                    from |-> opened[job.id], to |-> job.from - 1, recorder |-> job.by]
           next == [id |-> rows + 2, agency |-> job.id, supervisor |-> job.to,
                    from |-> job.from, to |-> Open, recorder |-> job.by]
           new == (IF NeedsPast(job) THEN {past} ELSE {}) \cup {next}
<1>3. next \in Row /\ next.from <= next.to /\ next.id > rows /\ next.id <= rows + 2
  BY <1>1, <1>2 DEF Row, Days, Open
<1>4. NeedsPast(job) => /\ past \in Row /\ past.from <= past.to /\ past.to + 1 = job.from
                        /\ past.id > rows /\ past.id <= rows + 2
  BY <1>1, <1>2 DEF Row, Days, Open, NeedsPast
<1>5. MayReassign(job) /\ rows' = rows + 2
  BY DEF Reassign
<1>6. RowAccepted(job.id, job.to, job.by) /\ (NeedsPast(job) => RowAccepted(job.id, job.before, job.by))
  BY <1>5 DEF MayReassign, RowAccepted
<1>7. /\ history' = {IF w.id \in job.open THEN Close(w, job.from) ELSE w : w \in history} \cup new
      /\ creator' = [creator EXCEPT ![job.id] = job.to] /\ Answer(r)
      /\ UNCHANGED <<users, gone, parent, opened, inactive, today, faults>>
  BY DEF Reassign
<1>8. \A v \in new : /\ v.agency = job.id /\ v.id > rows /\ v.id <= rows'
                     /\ RowAccepted(v.agency, v.supervisor, v.recorder)
                     /\ v.from <= v.to /\ (v.to = Open \/ v.to + 1 = job.from)
  <2>1. next.agency = job.id /\ next.supervisor = job.to /\ next.recorder = job.by /\ next.to = Open
    OBVIOUS
  <2>2. past.agency = job.id /\ past.supervisor = job.before /\ past.recorder = job.by
    OBVIOUS
  <2> HIDE DEF past, next
  <2> QED  BY <1>3, <1>4, <1>5, <1>6, <2>1, <2>2
<1>9. new \in SUBSET Row
  <2> HIDE DEF past, next
  <2> QED  BY <1>3, <1>4
<1>10. \E v \in new : v.supervisor = job.to /\ v.from = job.from /\ v.to = Open
  <2>1. next \in new /\ next.supervisor = job.to /\ next.from = job.from /\ next.to = Open
    OBVIOUS
  <2> HIDE DEF new, next
  <2> QED  BY <2>1
<1>11. job.to \in users
  BY <1>1, <1>6 DEF RowAccepted, Ids
<1> HIDE DEF new
<1>12. \E x \in SUBSET Row :
         /\ history' = {IF w.id \in job.open THEN Close(w, job.from) ELSE w : w \in history} \cup x
         /\ \A v \in x : /\ v.agency = job.id /\ v.id > rows /\ v.id <= rows'
                         /\ RowAccepted(v.agency, v.supervisor, v.recorder)
                         /\ v.from <= v.to /\ (v.to = Open \/ v.to + 1 = job.from)
         /\ \E v \in x : v.supervisor = job.to /\ v.from = job.from /\ v.to = Open
  <2>1. new \in SUBSET Row
    BY <1>9
  <2> WITNESS new \in SUBSET Row
  <2> QED  BY <1>7, <1>8, <1>10
<1> QED  BY <1>1, <1>5, <1>7, <1>11, <1>12

LEMMA CloseRow ==
  ASSUME NEW w \in Row, w.from <= w.to, NEW from \in Days
  PROVE  LET v == Close(w, from) IN
         /\ v \in Row /\ v.id = w.id /\ v.agency = w.agency /\ v.supervisor = w.supervisor
         /\ v.from = w.from /\ v.recorder = w.recorder
         /\ v.to = IF from > w.from THEN from - 1 ELSE w.from
BY DEF Close, Row, Days, Open

(* A row's day may be any: what NoDayUncovered adds is not needed here.     *)
LEMMA CloseKeeps ==
  ASSUME NEW w \in Row, NEW from \in Days
  PROVE  /\ Close(w, from) \in Row /\ Close(w, from).id = w.id
         /\ Close(w, from).agency = w.agency /\ Close(w, from).supervisor = w.supervisor
         /\ Close(w, from).recorder = w.recorder
BY DEF Close, Row, Days, Open

LEMMA ReassignKeeps ==
  ASSUME Inv, NEW r \in Requests, Reassign(r)  PROVE Inv'
<1> DEFINE job == req[r]
           Closed(w) == IF w.id \in job.open THEN Close(w, job.from) ELSE w
<1>1. /\ job.id \in Agents /\ job.from \in Days /\ job.to \in Staff \cap users
      /\ rows' = rows + 2 /\ rows \in Nat
      /\ creator' = [creator EXCEPT ![job.id] = job.to]
      /\ Answer(r)
      /\ UNCHANGED <<users, gone, parent, opened, inactive, today, faults>>
  BY ReassignShape DEF Inv, TypeOK
<1>2. PICK new \in SUBSET Row :
        /\ history' = {Closed(w) : w \in history} \cup new
        /\ \A v \in new : /\ v.agency = job.id /\ v.id > rows /\ v.id <= rows'
                          /\ RowAccepted(v.agency, v.supervisor, v.recorder)
        /\ new # {}
  BY ReassignShape
<1>3. \A w \in history : /\ Closed(w) \in Row /\ Closed(w).id = w.id
                         /\ Closed(w).agency = w.agency /\ Closed(w).supervisor = w.supervisor
                         /\ Closed(w).recorder = w.recorder
  BY <1>1, CloseKeeps DEF Inv, TypeOK
<1> HIDE DEF Closed
<1>4. \A w \in history : w.id \in Nat /\ w.id <= rows /\ RowAccepted(w.agency, w.supervisor, w.recorder)
  BY DEF Inv, TypeOK, Row
<1>5. TypeOK'
  <2>1. history' \subseteq Row
    BY <1>2, <1>3
  <2>2. \A w \in history' : RowAccepted(w.agency, w.supervisor, w.recorder) /\ w.id <= rows + 2
    BY <1>1, <1>2, <1>3, <1>4
  <2>3. \A w \in history' : RowAccepted(w.agency, w.supervisor, w.recorder)' /\ w.id <= rows'
    BY <1>1, <2>2 DEF RowAccepted
  <2> QED  BY <1>1, <2>1, <2>3 DEF Inv, TypeOK, Accounts
<1>6. \A v \in history' : \/ v.id > rows /\ v.agency = job.id
                          \/ \E w \in history : w.id = v.id /\ w.agency = v.agency
  BY <1>2, <1>3
<1>7. \A v, w \in history' : v.id = w.id => v.agency = w.agency
  BY <1>4, <1>6, <1>1 DEF Inv
<1>8. \A a \in Agents \cap (users \cup gone), s \in users \cup gone \cup {Nobody} :
        Owns(a, s, users, creator, history) => Owns(a, s, users', creator', history')
  <2>1. \A a : HasRows(a, history) \/ a = job.id => HasRows(a, history')
    BY <1>2, <1>3 DEF HasRows
  <2>2. \A a : a # job.id => creator'[a] = creator[a]
    BY <1>1 DEF Inv, TypeOK
  <2> QED  BY <1>1, <2>1, <2>2 DEF Owns
<1>9. /\ \A q \in Requests : q # r => req'[q] = req[q]
      /\ req' = [q \in Requests |-> req'[q]] /\ FitsAfter(req'[r])
  BY <1>1, AnswerIs, DoneFitsAlways DEF FitsAfter
<1>10. users \cup gone \subseteq users' \cup gone' /\ rows <= rows'
  BY <1>1
<1>11. \A v \in history' : v.id > rows \/ \E w \in history : w.id = v.id /\ w.agency = v.agency
  BY <1>6
<1> QED  BY <1>5, <1>7, <1>8, <1>9, <1>10, <1>11, WriteKeeps

(* Deleting users who recorded nothing, or only their own history.          *)
LEMMA DeleteKeeps ==
  ASSUME Inv, NEW r \in Requests, Answer(r), NEW del,
         MayDelete(del), DeleteUsers(del), UNCHANGED <<opened, rows, today>>,
         faults' \in 0 .. MaxFaults
  PROVE  Inv'
<1> DEFINE Kept(w) == [w EXCEPT !.supervisor = IF @ \in del THEN Nobody ELSE @]
<1>1. /\ users' = users \ del /\ gone' = gone \cup (users \cap del)
      /\ parent' = [a \in Agents |-> IF parent[a] \in del \/ a \in del THEN Nobody ELSE parent[a]]
      /\ creator' = [a \in Agents |-> IF creator[a] \in del \/ a \in del THEN Nobody ELSE creator[a]]
      /\ inactive' = inactive \ del
      /\ history' = {Kept(w) : w \in {v \in history : v.agency \notin del}}
  BY DEF DeleteUsers
<1>2. \A w \in history :
        /\ w \in Row /\ Kept(w) \in Row /\ Kept(w).id = w.id /\ Kept(w).agency = w.agency
        /\ Kept(w).supervisor = IF w.supervisor \in del THEN Nobody ELSE w.supervisor
        /\ Kept(w).recorder = w.recorder
  BY DEF Inv, TypeOK, Row
<1> HIDE DEF Kept
<1>3. TypeOK'
  <2>1. history' \subseteq Row /\ rows \in Nat
    BY <1>1, <1>2 DEF Inv, TypeOK
  <2>2. ASSUME NEW w \in history, w.agency \notin del
        PROVE  RowAccepted(Kept(w).agency, Kept(w).supervisor, Kept(w).recorder)' /\ Kept(w).id <= rows
    <3>1. RowAccepted(w.agency, w.supervisor, w.recorder) /\ w.id <= rows /\ w.recorder \notin del
      BY <2>2 DEF Inv, TypeOK, MayDelete
    <3>2. /\ w.agency \in users' /\ w.recorder \in users'
          /\ (IF w.supervisor \in del THEN Nobody ELSE w.supervisor) \in users' \cup {Nobody}
      BY <1>1, <2>2, <3>1 DEF RowAccepted
    <3>3. /\ Kept(w).agency \in users' /\ Kept(w).recorder \in users'
          /\ Kept(w).supervisor \in users' \cup {Nobody}
      BY <1>2, <3>2
    <3> QED  BY <1>2, <3>1, <3>3 DEF RowAccepted
  <2>3. \A w \in history' : RowAccepted(w.agency, w.supervisor, w.recorder)' /\ w.id <= rows'
    BY <1>1, <2>2
  <2>4. parent' \in [Agents -> (users' \cap Agents) \cup {Nobody}]
    BY <1>1 DEF Inv, TypeOK, Accounts
  <2>5. creator' \in [Agents -> (users' \cap Staff) \cup {Nobody}]
    BY <1>1 DEF Inv, TypeOK
  <2> QED  BY <1>1, <2>1, <2>3, <2>4, <2>5 DEF Inv, TypeOK, Accounts
<1>4. \A v \in history' : \E w \in history : w.id = v.id /\ w.agency = v.agency
  BY <1>1, <1>2
<1>5. \A v, w \in history' : v.id = w.id => v.agency = w.agency
  BY <1>4 DEF Inv
<1>6. \A a \in Agents \cap (users \cup gone), s \in users \cup gone \cup {Nobody} :
        Owns(a, s, users, creator, history) => Owns(a, s, users', creator', history')
  <2>1. \A a : a \notin del /\ HasRows(a, history) => HasRows(a, history')
    BY <1>1, <1>2 DEF HasRows
  <2>2. Nobody \notin users
    BY DEF Inv, TypeOK
  <2>3. \A a \in Agents : a \in users' => creator'[a] = IF creator[a] \in del THEN Nobody ELSE creator[a]
    BY <1>1
  <2> QED  BY <1>1, <2>1, <2>2, <2>3 DEF Owns, Inv, TypeOK
<1>7. /\ \A q \in Requests : q # r => req'[q] = req[q]
      /\ req' = [q \in Requests |-> req'[q]] /\ FitsAfter(req'[r])
  BY AnswerIs, DoneFitsAlways DEF FitsAfter
<1>8. users \cup gone \subseteq users' \cup gone' /\ rows <= rows'
  BY <1>1 DEF Inv, TypeOK
<1> QED  BY <1>3, <1>4, <1>5, <1>6, <1>7, <1>8, WriteKeeps

LEMMA FailuresKeep ==
  ASSUME Inv, NEW r \in Requests,
         InsertFails(r) \/ RefusePlans(r) \/ RecordFails(r) \/ ReassignFails(r)
  PROVE  Inv'
<1>1. Answer(r) /\ UNCHANGED <<tables, today>> /\ (faults' = faults \/ Fault)
  BY DEF InsertFails, RefusePlans, RecordFails, ReassignFails
<1> QED  BY <1>1, AnswerKeeps

LEMMA StaffKeep ==
  ASSUME Inv, NEW r \in Requests, InsertStaff(r) \/ SetStatus(r)  PROVE Inv'
<1> DEFINE job == req[r]
<1>1. TypeOK'
  <2>1. CASE InsertStaff(r)
    <3>1. job.id \in Ids
      BY <2>1 DEF InsertStaff, Inv, Fits, JobFits, Ids, Staff, ScopedManagers
    <3> QED  BY <2>1, <3>1 DEF InsertStaff, Inv, TypeOK, Accounts, RowAccepted, Available
  <2>2. CASE SetStatus(r)
    BY <2>2 DEF SetStatus, Inv, TypeOK, Accounts, RowAccepted
  <2> QED  BY <2>1, <2>2
<1>2. /\ history' = history /\ creator' = creator /\ rows' = rows /\ rows \in Nat
      /\ Answer(r) /\ gone' = gone /\ users \subseteq users'
      /\ \A a \in users' \cap Agents : a \in users
      /\ \A s \in users' : s \in users \/ s \notin gone
  BY DEF InsertStaff, SetStatus, Inv, TypeOK, Fits, JobFits, Available, ScopedManagers, Staff
<1>3. \A a \in Agents \cap (users \cup gone), s \in users \cup gone \cup {Nobody} :
        Owns(a, s, users, creator, history) => Owns(a, s, users', creator', history')
  BY <1>2 DEF Owns, HasRows, Inv, TypeOK
<1>4. /\ \A q \in Requests : q # r => req'[q] = req[q]
      /\ req' = [q \in Requests |-> req'[q]] /\ FitsAfter(req'[r])
  BY <1>2, AnswerIs, DoneFitsAlways DEF FitsAfter
<1>5. \A v, w \in history' : v.id = w.id => v.agency = w.agency
  BY <1>2 DEF Inv
<1>6. /\ users \cup gone \subseteq users' \cup gone' /\ rows <= rows'
      /\ \A v \in history' : v.id > rows \/ \E w \in history : w.id = v.id /\ w.agency = v.agency
  BY <1>2
<1> QED  BY <1>1, <1>3, <1>4, <1>5, <1>6, WriteKeeps

LEMMA DeletionsKeep ==
  ASSUME Inv, NEW r \in Requests, DeleteAccounts(r) \/ DeleteStaff(r)  PROVE Inv'
<1>1. CASE DeleteAccounts(r)
  <2>1. MayDelete(req[r].order)
    BY <1>1 DEF DeleteAccounts, Inv, TypeOK, Fits, JobFits, MayDelete, Row
  <2>2. CASE DeleteUsers(req[r].order) /\ UNCHANGED faults
    BY <1>1, <2>1, <2>2, DeleteKeeps DEF DeleteAccounts, Inv, TypeOK
  <2>3. CASE Fault /\ UNCHANGED <<users, gone, parent, creator, inactive, history>>
    BY <1>1, <2>3, AnswerKeeps DEF DeleteAccounts, tables
  <2> QED  BY <1>1, <2>2, <2>3 DEF DeleteAccounts
<1>2. CASE DeleteStaff(r)
  <2>1. CASE MayDelete({req[r].id})
    BY <1>2, <2>1, DeleteKeeps DEF DeleteStaff, Inv, TypeOK
  <2>2. CASE ~MayDelete({req[r].id})
    BY <1>2, <2>2, AnswerKeeps DEF DeleteStaff, tables
  <2> QED  BY <2>1, <2>2
<1> QED  BY <1>1, <1>2

LEMMA TickKeeps == Inv /\ Tick => Inv'
<1> SUFFICES ASSUME Inv, Tick  PROVE Inv'
  OBVIOUS
<1>1. today' \in Days /\ faults' \in 0 .. MaxFaults
  BY DEF Tick, Inv, TypeOK, Days
<1>2. \A r \in Requests : Fits(req'[r])
  BY DEF Tick, Inv
<1> QED  BY <1>1, <1>2, TablesKept DEF Tick, Inv

LEMMA CrashKeeps == Inv /\ Crash => Inv'
<1> SUFFICES ASSUME Inv, Crash  PROVE Inv'
  OBVIOUS
<1>1. today' \in Days /\ faults' \in 0 .. MaxFaults /\ UNCHANGED tables
  BY DEF Crash, Fault, Inv, TypeOK
<1>2. \A r \in Requests : Fits(req'[r])
  BY DEF Crash, Inv, Fits, JobFits, New, Done
<1> QED  BY <1>1, <1>2, TablesKept DEF Crash

LEMMA StepKeeps == Inv /\ [Next]_vars => Inv'
<1> SUFFICES ASSUME Inv, [Next]_vars  PROVE Inv'
  OBVIOUS
<1>1. ASSUME NEW r \in Requests, CreateAccount(r) \/ CreateStaff(r)  PROVE Inv'
  <2>1. CASE CreateAccount(r)
    BY <2>1, StartsKeep, InsertAccountKeeps, FailuresKeep, RecordsKeep DEF CreateAccount
  <2>2. CASE CreateStaff(r)
    BY <2>2, StartsKeep, StaffKeep DEF CreateStaff
  <2> QED  BY <1>1, <2>1, <2>2
<1>2. ASSUME NEW r \in Requests, ReassignSupervisor(r) \/ ViewHistory(r)  PROVE Inv'
  <2>1. CASE ReassignSupervisor(r)
    BY <2>1, StartsKeep, ReadsKeep, ReassignKeeps, FailuresKeep DEF ReassignSupervisor
  <2>2. CASE ViewHistory(r)
    BY <2>2, StartsKeep, ReadsKeep, RecordsKeep DEF ViewHistory
  <2> QED  BY <1>2, <2>1, <2>2
<1>3. ASSUME NEW r \in Requests, ChangeStatus(r) \/ DeleteAgent(r) \/ RemoveStaff(r)  PROVE Inv'
  BY <1>3, StartsKeep, StaffKeep, ReadsKeep, DeletionsKeep DEF ChangeStatus, DeleteAgent, RemoveStaff
<1>4. CASE UNCHANGED vars
  BY <1>4, TablesKept DEF vars, tables, Inv, TypeOK
<1> QED  BY <1>1, <1>2, <1>3, <1>4, TickKeeps, CrashKeeps DEF Next

(* Inv holds in every state of the module, for every value of its constants. *)
THEOREM Invariant == Spec => []Inv
BY InitInv, StepKeeps, PTL DEF Spec

(* The tables keep their keys: what an account names as parent or creator   *)
(* and what the history names exists, whatever requests overlap, fail or    *)
(* are cut off by a crash (the inserts, updates and deletions of            *)
(* userModel.js and agencySupervisionService.js).                           *)
THEOREM TypeCorrect == Spec => []TypeOK
<1>1. Inv => TypeOK
  BY DEF Inv
<1> QED  BY <1>1, Invariant, PTL

-----------------------------------------------------------------------------
(* The current period names the owner                                       *)

(* What an agency whose rows a step keeps, and whose owner it keeps, needs. *)
LEMMA RowListed ==
  ASSUME Inv, OwnerListed, NEW a \in Agents, NEW s, NEW from, NEW by,
         InsertRow(a, s, from, by), creator' = creator, Periods(a) # {} \/ creator[a] = s
  PROVE  OwnerListed'
<1> DEFINE new == [id |-> rows + 1, agency |-> a, supervisor |-> s, from |-> from, to |-> Open, recorder |-> by]
<1>1. /\ history' = history \cup {new} /\ new.agency = a /\ new.supervisor = s /\ new.to = Open
  BY DEF InsertRow
<1> HIDE DEF new
<1> QED  BY <1>1 DEF OwnerListed, Periods, OpenPeriods

LEMMA ReassignListed ==
  ASSUME Inv, OwnerListed, NEW r \in Requests, Reassign(r)  PROVE OwnerListed'
<1> DEFINE job == req[r]
           Closed(w) == IF w.id \in job.open THEN Close(w, job.from) ELSE w
<1>1. /\ job.id \in Agents /\ job.from \in Days
      /\ creator' = [creator EXCEPT ![job.id] = job.to]
      /\ \A w \in history : w.id \in job.open => w.agency = job.id
  BY ReassignShape
<1>2. PICK new \in SUBSET Row :
        /\ history' = {Closed(w) : w \in history} \cup new
        /\ \A v \in new : v.agency = job.id
        /\ \E v \in new : v.supervisor = job.to /\ v.to = Open
  BY ReassignShape
<1>3. \A w \in history : /\ Closed(w).agency = w.agency
                         /\ w.agency # job.id => Closed(w) = w
  BY <1>1, CloseKeeps DEF Inv, TypeOK
<1> HIDE DEF Closed
<1>4. ASSUME NEW a \in Agents, Periods(a)' # {}
      PROVE  (\E w \in OpenPeriods(a) : w.supervisor = creator[a])'
  <2>1. CASE a = job.id
    <3>1. creator'[a] = job.to
      BY <1>1, <2>1 DEF Inv, TypeOK
    <3> QED  BY <1>2, <2>1, <3>1 DEF OpenPeriods, Periods
  <2>2. CASE a # job.id
    <3>1. creator'[a] = creator[a] /\ Periods(a) # {}
      BY <1>1, <1>2, <1>3, <1>4, <2>2 DEF Inv, TypeOK, Periods
    <3>2. PICK w \in OpenPeriods(a) : w.supervisor = creator[a]
      BY <3>1 DEF OwnerListed
    <3>3. w \in OpenPeriods(a)'
      BY <1>2, <1>3, <2>2, <3>2 DEF OpenPeriods, Periods
    <3> QED  BY <3>1, <3>2, <3>3
  <2> QED  BY <2>1, <2>2
<1> QED  BY <1>4 DEF OwnerListed

LEMMA DeleteListed ==
  ASSUME Inv, OwnerListed, NEW del, DeleteUsers(del)  PROVE OwnerListed'
<1> DEFINE Kept(w) == [w EXCEPT !.supervisor = IF @ \in del THEN Nobody ELSE @]
<1>1. /\ creator' = [a \in Agents |-> IF creator[a] \in del \/ a \in del THEN Nobody ELSE creator[a]]
      /\ history' = {Kept(w) : w \in {v \in history : v.agency \notin del}}
  BY DEF DeleteUsers
<1>2. \A w \in history :
        /\ Kept(w).agency = w.agency /\ Kept(w).to = w.to
        /\ Kept(w).supervisor = IF w.supervisor \in del THEN Nobody ELSE w.supervisor
  BY DEF Inv, TypeOK, Row
<1> HIDE DEF Kept
<1>3. ASSUME NEW a \in Agents, Periods(a)' # {}
      PROVE  (\E w \in OpenPeriods(a) : w.supervisor = creator[a])'
  <2>1. a \notin del /\ Periods(a) # {}
    BY <1>1, <1>2, <1>3 DEF Periods
  <2>2. PICK w \in OpenPeriods(a) : w.supervisor = creator[a]
    BY <2>1 DEF OwnerListed
  <2>3. w \in history /\ w.agency = a /\ w.to = Open
    BY <2>2 DEF OpenPeriods, Periods
  <2>4. Kept(w) \in history'
    BY <1>1, <2>1, <2>3
  <2>5. Kept(w) \in OpenPeriods(a)'
    BY <1>2, <2>3, <2>4 DEF OpenPeriods, Periods
  <2>6. Kept(w).supervisor = creator'[a]
    BY <1>1, <1>2, <2>1, <2>2, <2>3
  <2> QED  BY <2>5, <2>6
<1> QED  BY <1>3 DEF OwnerListed

LEMMA ListedKept == OwnerListed /\ UNCHANGED <<history, creator>> => OwnerListed'
BY DEF OwnerListed, Periods, OpenPeriods

LEMMA ListedStep == Inv /\ OwnerListed /\ [Next]_vars => OwnerListed'
<1> SUFFICES ASSUME Inv, OwnerListed, [Next]_vars, ~UNCHANGED <<history, creator>>
             PROVE  OwnerListed'
  BY ListedKept
<1>1. ASSUME NEW r \in Requests, CreateAccount(r)  PROVE OwnerListed'
  <2>1. CASE InsertAccount(r)
    <3>1. req[r].id \in Agents \ users /\ history' = history
      BY <2>1 DEF InsertAccount, Available, Inv, Fits, JobFits
    <3>2. Periods(req[r].id) = {}
      BY <3>1 DEF Periods, Inv, TypeOK, RowAccepted
    <3>3. \A a \in Agents \ {req[r].id} : creator'[a] = creator[a]
      BY <2>1, <3>1 DEF InsertAccount, Inv, TypeOK
    <3> QED  BY <3>1, <3>2, <3>3 DEF OwnerListed, Periods, OpenPeriods
  <2>2. CASE RecordInitial(r)
    <3>1. Fits(req[r])
      BY DEF Inv
    <3>2. req[r].id \in Agents /\ RowAccepted(req[r].id, req[r].by, req[r].by)
      BY <2>2, <3>1 DEF RecordInitial, Fits, JobFits
    <3>3. Periods(req[r].id) # {} \/ creator[req[r].id] = req[r].by
      BY <2>2, <3>1, <3>2 DEF RecordInitial, Fits, JobFits, Owns, HasRows, Periods, RowAccepted
    <3> QED  BY <2>2, <3>2, <3>3, RowListed DEF RecordInitial
  <2> QED  BY <1>1, <2>1, <2>2 DEF CreateAccount, StartAgent, StartSubAgent, Begins, tables,
                                   InsertFails, RefusePlans, RecordFails
<1>2. ASSUME NEW r \in Requests, ReassignSupervisor(r)  PROVE OwnerListed'
  BY <1>2, ReassignListed DEF ReassignSupervisor, StartReassign, ReadPeriods, ReassignFails, Begins, tables
<1>3. ASSUME NEW r \in Requests, ViewHistory(r)  PROVE OwnerListed'
  <2>1. Backfill(r) /\ RowAccepted(req[r].id, req[r].owner, req[r].by)
    BY <1>3 DEF ViewHistory, StartView, LookForPeriod, Backfill, Begins, tables
  <2>2. Fits(req[r])
    BY DEF Inv
  <2>3. req[r].id \in Agents
    BY <2>1, <2>2 DEF Backfill, Fits, JobFits
  <2>4. Periods(req[r].id) # {} \/ creator[req[r].id] = req[r].owner
    BY <2>1, <2>2, <2>3 DEF Backfill, Fits, JobFits, Owns, HasRows, Periods, RowAccepted
  <2> QED  BY <2>1, <2>3, <2>4, RowListed DEF Backfill
<1>4. ASSUME NEW r \in Requests, DeleteAgent(r) \/ RemoveStaff(r)  PROVE OwnerListed'
  BY <1>4, DeleteListed DEF DeleteAgent, RemoveStaff, StartDelete, ReadOrder, DeleteAccounts,
                            StartDeleteStaff, DeleteStaff, Begins, tables
<1>5. ASSUME NEW r \in Requests, CreateStaff(r) \/ ChangeStatus(r)  PROVE FALSE
  BY <1>5 DEF CreateStaff, ChangeStatus, StartStaff, InsertStaff, StartStatus, SetStatus, Begins, tables
<1>6. ASSUME Tick \/ Crash  PROVE FALSE
  BY <1>6 DEF Tick, Crash, tables
<1> QED  BY <1>1, <1>2, <1>3, <1>4, <1>5, <1>6 DEF Next, vars

(* An agency whose supervision is recorded has a current period that names  *)
(* its owner, in every interleaving of reassignments, first looks at the    *)
(* history, creations and deletions (agencySupervisionService.js).          *)
THEOREM OwnerAlwaysListed == Spec => []OwnerListed
<1>1. Init => OwnerListed
  BY DEF Init, OwnerListed, Periods
<1> QED  BY <1>1, ListedStep, Invariant, PTL DEF Spec

-----------------------------------------------------------------------------
(* No day without a period                                                  *)

(* Every row begins before it ends, and every later day is in some period.  *)
LEMMA ReassignCovers ==
  ASSUME Inv, NoDayUncovered, NEW r \in Requests, Reassign(r)  PROVE NoDayUncovered'
<1> DEFINE job == req[r]
           Closed(w) == IF w.id \in job.open THEN Close(w, job.from) ELSE w
<1>1. /\ job.from \in Days /\ history \subseteq Row
      /\ \A w \in history : w.id \in job.open => w.agency = job.id
  BY ReassignShape DEF Inv, TypeOK
<1>2. PICK new \in SUBSET Row :
        /\ history' = {Closed(w) : w \in history} \cup new
        /\ \A v \in new : /\ v.agency = job.id /\ v.from <= v.to
                          /\ v.to = Open \/ v.to + 1 = job.from
        /\ \E v \in new : v.from = job.from /\ v.to = Open
  BY ReassignShape
<1>3. PICK next \in new : next.from = job.from /\ next.to = Open /\ next.agency = job.id
  BY <1>2
<1>4. \A w \in history :
        /\ Closed(w).agency = w.agency /\ Closed(w).from = w.from
        /\ w.id \notin job.open => Closed(w) = w
        /\ w.id \in job.open => Closed(w).to = IF job.from > w.from THEN job.from - 1 ELSE w.from
  BY <1>1, CloseRow DEF NoDayUncovered
<1>5. \A w \in history : w.from \in Days /\ w.to \in Nat /\ w.from <= w.to
  BY <1>1 DEF NoDayUncovered, Row, Days, Open
<1> HIDE DEF Closed
<1>6. \A w \in history' : w.from <= w.to /\ w.from \in Days
  BY <1>1, <1>2, <1>4, <1>5 DEF Row, Days
<1>7. ASSUME NEW a, NEW d \in Days, NEW w \in history, w.agency = a, w.from <= d
      PROVE  \E v \in history' : v.agency = a /\ v.from <= d /\ d <= v.to
  <2>1. d \in w.from .. LastDay
    BY <1>5, <1>7 DEF Days
  <2>2. PICK v \in Periods(a) : v.from <= d /\ d <= v.to
    BY <1>7, <2>1 DEF NoDayUncovered
  <2>3. v \in history /\ v.agency = a
    BY <2>2 DEF Periods
  <2>4. CASE v.id \notin job.open
    BY <1>2, <1>4, <2>2, <2>3, <2>4
  <2>5. CASE v.id \in job.open /\ d < job.from
    <3>1. Closed(v) \in history' /\ Closed(v).agency = a /\ Closed(v).from <= d /\ d <= Closed(v).to
      BY <1>1, <1>2, <1>4, <1>5, <2>2, <2>3, <2>5 DEF Days
    <3> QED  BY <3>1
  <2>6. CASE v.id \in job.open /\ d >= job.from
    <3>1. next \in history' /\ next.agency = a /\ next.from <= d /\ d <= next.to
      BY <1>1, <1>2, <1>3, <2>3, <2>6 DEF Days, Open
    <3> QED  BY <3>1
  <2> QED  BY <1>1, <2>4, <2>5, <2>6 DEF Days
<1>8. ASSUME NEW d \in Days, NEW w \in new, w.from <= d
      PROVE  \E v \in history' : v.agency = job.id /\ v.from <= d /\ d <= v.to
  <2>1. CASE d <= w.to
    BY <1>2, <1>8, <2>1
  <2>2. CASE d > w.to
    <3>1. w.to \in Days \cup {Open}
      BY <1>2 DEF Row
    <3>2. next \in history' /\ next.agency = job.id /\ next.from <= d /\ d <= next.to
      BY <1>1, <1>2, <1>3, <1>8, <2>2, <3>1 DEF Days, Open
    <3> QED  BY <3>2
  <2>3. w.to \in Days \cup {Open}
    BY <1>2 DEF Row
  <2> QED  BY <2>1, <2>2, <2>3 DEF Days, Open
<1>9. ASSUME NEW w \in history', NEW d \in w.from .. LastDay
      PROVE  \E v \in history' : v.agency = w.agency /\ v.from <= d /\ d <= v.to
  <2>1. d \in Days /\ w.from <= d
    BY <1>6, <1>9 DEF Days
  <2>2. CASE w \in new
    BY <1>2, <1>8, <2>1, <2>2
  <2>3. ASSUME NEW u \in history, w = Closed(u)  PROVE \E v \in history' : v.agency = w.agency /\ v.from <= d /\ d <= v.to
    <3>1. u.agency = w.agency /\ u.from <= d
      BY <1>4, <2>1, <2>3
    <3> QED  BY <1>7, <2>1, <3>1
  <2> QED  BY <1>2, <2>2, <2>3
<1> QED  BY <1>6, <1>9 DEF NoDayUncovered, Periods

LEMMA RowCovers ==
  ASSUME Inv, NoDayUncovered, NEW a, NEW s, NEW from \in Days, NEW by, InsertRow(a, s, from, by)
  PROVE  NoDayUncovered'
<1> DEFINE new == [id |-> rows + 1, agency |-> a, supervisor |-> s, from |-> from, to |-> Open, recorder |-> by]
<1>1. /\ history' = history \cup {new} /\ new.agency = a /\ new.from = from /\ new.to = Open
  BY DEF InsertRow
<1> HIDE DEF new
<1> QED  BY <1>1 DEF NoDayUncovered, Periods, Days, Open

LEMMA DeleteCovers ==
  ASSUME Inv, NoDayUncovered, NEW del, DeleteUsers(del)  PROVE NoDayUncovered'
<1> DEFINE Kept(w) == [w EXCEPT !.supervisor = IF @ \in del THEN Nobody ELSE @]
<1>1. history' = {Kept(w) : w \in {v \in history : v.agency \notin del}}
  BY DEF DeleteUsers
<1>2. \A w \in history : /\ Kept(w).agency = w.agency /\ Kept(w).from = w.from /\ Kept(w).to = w.to
  BY DEF Inv, TypeOK, Row
<1> HIDE DEF Kept
<1>3. ASSUME NEW w \in history, w.agency \notin del, NEW d \in w.from .. LastDay
      PROVE  \E v \in history' : v.agency = w.agency /\ v.from <= d /\ d <= v.to
  <2>1. PICK v \in history : v.agency = w.agency /\ v.from <= d /\ d <= v.to
    BY DEF NoDayUncovered, Periods
  <2>2. Kept(v) \in history'
    BY <1>1, <1>3, <2>1
  <2> QED  BY <1>2, <2>1, <2>2
<1> QED  BY <1>1, <1>2, <1>3 DEF NoDayUncovered, Periods

LEMMA CoversStep == Inv /\ NoDayUncovered /\ [Next]_vars => NoDayUncovered'
<1> SUFFICES ASSUME Inv, NoDayUncovered, [Next]_vars, history' # history
             PROVE  NoDayUncovered'
  BY DEF NoDayUncovered, Periods
<1>1. ASSUME NEW r \in Requests, CreateAccount(r)  PROVE NoDayUncovered'
  <2>1. RecordInitial(r)
    BY <1>1 DEF CreateAccount, StartAgent, StartSubAgent, Begins, tables,
                InsertAccount, InsertFails, RefusePlans, RecordFails
  <2>2. today \in Days
    BY DEF Inv, TypeOK
  <2> QED  BY <2>1, <2>2, RowCovers DEF RecordInitial
<1>2. ASSUME NEW r \in Requests, ReassignSupervisor(r)  PROVE NoDayUncovered'
  BY <1>2, ReassignCovers DEF ReassignSupervisor, StartReassign, ReadPeriods, ReassignFails, Begins, tables
<1>3. ASSUME NEW r \in Requests, ViewHistory(r)  PROVE NoDayUncovered'
  <2>1. Backfill(r) /\ RowAccepted(req[r].id, req[r].owner, req[r].by)
    BY <1>3 DEF ViewHistory, StartView, LookForPeriod, Backfill, Begins, tables
  <2>2. Fits(req[r])
    BY DEF Inv
  <2>3. opened[req[r].id] \in Days
    BY <2>1, <2>2 DEF Backfill, Fits, JobFits, Inv, TypeOK
  <2> QED  BY <2>1, <2>3, RowCovers DEF Backfill
<1>4. ASSUME NEW r \in Requests, DeleteAgent(r) \/ RemoveStaff(r)  PROVE NoDayUncovered'
  BY <1>4, DeleteCovers DEF DeleteAgent, RemoveStaff, StartDelete, ReadOrder, DeleteAccounts,
                            StartDeleteStaff, DeleteStaff, Begins, tables
<1>5. ASSUME NEW r \in Requests, CreateStaff(r) \/ ChangeStatus(r)  PROVE FALSE
  BY <1>5 DEF CreateStaff, ChangeStatus, StartStaff, InsertStaff, StartStatus, SetStatus, Begins, tables
<1>6. ASSUME Tick \/ Crash  PROVE FALSE
  BY <1>6 DEF Tick, Crash, tables
<1> QED  BY <1>1, <1>2, <1>3, <1>4, <1>5, <1>6 DEF Next, vars

(* From the first day of an agency's history on, no day is without a        *)
(* supervisor's period, however reassignments are back-dated and overlap    *)
(* (reassignAgencySupervisor, userModel.js's deletions).                    *)
THEOREM DaysCovered == Spec => []NoDayUncovered
<1>1. Init => NoDayUncovered
  BY DEF Init, NoDayUncovered, Periods
<1> QED  BY <1>1, CoversStep, Invariant, PTL DEF Spec

-----------------------------------------------------------------------------
(* Whose an account is                                                      *)

(* Nobody is below two agencies: an agency has no parent, an account has    *)
(* one, however deep the accounts under it go.                              *)
LEMMA UnderOneAgency ==
  ASSUME TypeOK, NEW a \in Accounts, NEW b \in Accounts, IsAgency(a), IsAgency(b),
         NEW x \in {a} \cup Descendants(a), x \in {b} \cup Descendants(b)
  PROVE  a = b
<1>1. parent[a] = Nobody /\ parent[b] = Nobody /\ Nobody \notin Accounts
  BY DEF IsAgency, Accounts, Ids
<1>2. \/ x = a
      \/ parent[x] = a
      \/ \E c \in Accounts : parent[x] = c /\ parent[c] = a
  BY DEF Descendants, Children
<1>3. \/ x = b
      \/ parent[x] = b
      \/ \E c \in Accounts : parent[x] = c /\ parent[c] = b
  BY DEF Descendants, Children
<1> QED  BY <1>1, <1>2, <1>3

LEMMA ScopeOf ==
  ASSUME TypeOK, NEW m \in ScopedManagers, NEW x \in Visible(m)
  PROVE  x = m \/ \E a \in Agencies(m) : x \in {a} \cup Descendants(a)
<1>1. m \notin Accounts
  BY DEF Accounts, ScopedManagers, Staff
<1> QED  BY <1>1 DEF Visible

LEMMA OwnScope == TypeOK => ScopesDisjoint
<1> SUFFICES ASSUME TypeOK, NEW m \in ScopedManagers, NEW n \in ScopedManagers, m # n,
                    NEW x \in Visible(m), x \in Visible(n)
             PROVE  FALSE
  BY DEF ScopesDisjoint
<1>1. \A a \in Accounts : {a} \cup Descendants(a) \subseteq Agents
  BY DEF Descendants, Children, Accounts
<1>2. m \notin Agents /\ n \notin Agents
  BY DEF ScopedManagers, Staff
<1>3. PICK a \in Agencies(m) : x \in {a} \cup Descendants(a)
  BY <1>1, <1>2, ScopeOf DEF Agencies
<1>4. PICK b \in Agencies(n) : x \in {b} \cup Descendants(b)
  BY <1>1, <1>2, ScopeOf DEF Agencies
<1>5. /\ a \in Accounts /\ IsAgency(a) /\ creator[a] = m
      /\ b \in Accounts /\ IsAgency(b) /\ creator[b] = n
  BY <1>3, <1>4 DEF Agencies
<1>6. a = b
  BY <1>3, <1>4, <1>5, UnderOneAgency
<1> QED  BY <1>5, <1>6

LEMMA OneView == TypeOK => ViewsAgree
<1> SUFFICES ASSUME TypeOK, NEW a \in Accounts
             PROVE  /\ DeletionOrder(a) = Visible(a)
                    /\ IsAgency(a) => /\ Visible(a) = PartnerAccounts(a) \cup {a}
                                      /\ Visible(a) = HierarchyRows(a)
                                      /\ Visible(a) = Family(a)
  BY DEF ViewsAgree
<1>1. a \notin ScopedManagers
  BY DEF Accounts, ScopedManagers, Staff
<1>2. DeletionOrder(a) = Visible(a)
  BY <1>1 DEF DeletionOrder, Visible, Descendants
<1>3. ASSUME IsAgency(a)
      PROVE  /\ Visible(a) = PartnerAccounts(a) \cup {a}
             /\ Visible(a) = HierarchyRows(a)
             /\ Visible(a) = Family(a)
  <2>1. Visible(a) = {a} \cup Descendants(a)
    BY <1>1, <1>3 DEF Visible
  <2> DEFINE Below(x) == x \in Accounts /\ (parent[x] = a \/ (parent[x] \in Accounts /\ parent[parent[x]] = a))
  <2>2. \A c, x : x \in Children(c) <=> x \in Accounts /\ parent[x] = c
    BY DEF Children
  <2>3. ASSUME NEW x
        PROVE  /\ x \in Descendants(a) <=> Below(x)
               /\ x \in PartnerAccounts(a) <=> Below(x)
               /\ x \in HierarchyRows(a) <=> x = a \/ Below(x)
    <3>1. x \in Descendants(a) <=> x \in Children(a) \/ \E c \in Children(a) : x \in Children(c)
      BY Zenon DEF Descendants
    <3>2. /\ x \in Children(a) <=> x \in Accounts /\ parent[x] = a
          /\ parent[x] \in Children(a) <=> parent[x] \in Accounts /\ parent[parent[x]] = a
          /\ x \in Children(parent[x]) <=> x \in Accounts
          /\ \A c : x \in Children(c) => c = parent[x]
      BY <2>2
    <3>3. (\E c \in Children(a) : x \in Children(c)) <=>
            x \in Accounts /\ parent[x] \in Accounts /\ parent[parent[x]] = a
      BY <3>2
    <3>4. (\E c \in Accounts : parent[c] = a /\ parent[x] = c) <=>
            parent[x] \in Accounts /\ parent[parent[x]] = a
      OBVIOUS
    <3>5. x \in Descendants(a) <=> Below(x)
      BY <3>1, <3>2, <3>3
    <3>6. x \in PartnerAccounts(a) <=>
            x \in Accounts /\ (parent[x] = a \/ \E c \in Accounts : parent[c] = a /\ parent[x] = c)
      BY Zenon DEF PartnerAccounts
    <3>7. x \in PartnerAccounts(a) <=> Below(x)
      BY <3>4, <3>6
    <3>8. x \in HierarchyRows(a) <=> x = a \/ Below(x)
      BY DEF HierarchyRows
    <3> QED  BY <3>5, <3>7, <3>8
  <2> HIDE DEF Below
  <2>4. /\ \A x : x \in PartnerAccounts(a) <=> x \in Descendants(a)
        /\ \A x : x \in HierarchyRows(a) <=> x \in {a} \cup Descendants(a)
    BY <2>3
  <2>5. \A x : x \in Family(a) <=> x \in {a} \cup Descendants(a)
    BY <1>3 DEF Family, Descendants
  <2> QED  BY <2>1, <2>4, <2>5
<1> QED  BY <1>2, <1>3

(* Every place of the code that asks whose an account is answers the same:  *)
(* no account is within two supervisors' reach, and what is deleted,        *)
(* counted, listed and shown under an agency is what its owner sees, in     *)
(* trees of any depth (userModel.js, agencyAccess.js).                      *)
THEOREM OneAnswer == Spec => []WhoReachesWhom
BY TypeCorrect, OwnScope, OneView, PTL DEF WhoReachesWhom

-----------------------------------------------------------------------------
(* The audit trail of the supervision                                       *)

(* How a row may be found again after a step.                               *)
Continues(w, v, u) ==
  /\ v.id = w.id /\ v.agency = w.agency /\ v.from = w.from /\ v.recorder = w.recorder
  /\ w.supervisor \in u => v.supervisor = w.supervisor
  /\ v.to = Open => w.to = Open

NoneLost == \A w \in history : w.agency \in users' => \E v \in history' : Continues(w, v, users')

LEMMA GrowingKeeps == history \subseteq history' => NoneLost
BY DEF NoneLost, Continues

LEMMA ReassignKeepsTrail ==
  ASSUME Inv, NEW r \in Requests, Reassign(r)  PROVE NoneLost
<1> DEFINE job == req[r]
           Closed(w) == IF w.id \in job.open THEN Close(w, job.from) ELSE w
<1>1. PICK new \in SUBSET Row : history' = {Closed(w) : w \in history} \cup new
  BY ReassignShape
<1>2. job.from \in Days
  BY ReassignShape
<1>3. ASSUME NEW w \in history
      PROVE  Continues(w, Closed(w), users')
  <2>1. w \in Row
    BY DEF Inv, TypeOK
  <2>2. CASE w.id \in job.open
    <3>1. Close(w, job.from) = [w EXCEPT !.to = IF job.from > w.from THEN job.from - 1 ELSE w.from]
      BY DEF Close
    <3>2. Close(w, job.from).to # Open
      BY <1>2, <2>1, <3>1 DEF Row, Days, Open
    <3>3. LET v == Close(w, job.from) IN
          /\ v.id = w.id /\ v.agency = w.agency /\ v.from = w.from /\ v.recorder = w.recorder
          /\ v.supervisor = w.supervisor
      BY <2>1, <3>1 DEF Row
    <3> QED  BY <2>2, <3>2, <3>3 DEF Continues
  <2>3. CASE w.id \notin job.open
    BY <2>3 DEF Continues
  <2> QED  BY <2>2, <2>3
<1> HIDE DEF Closed
<1> QED  BY <1>1, <1>3 DEF NoneLost

LEMMA DeleteKeepsTrail ==
  ASSUME Inv, NEW del, DeleteUsers(del)  PROVE NoneLost
<1> DEFINE Freed(w) == [w EXCEPT !.supervisor = IF @ \in del THEN Nobody ELSE @]
<1>1. /\ users' = users \ del
      /\ history' = {Freed(w) : w \in {v \in history : v.agency \notin del}}
  BY DEF DeleteUsers
<1>2. ASSUME NEW w \in history, w.agency \in users'
      PROVE  Freed(w) \in history' /\ Continues(w, Freed(w), users')
  <2>1. w \in Row /\ w.agency \notin del
    BY <1>1, <1>2 DEF Inv, TypeOK
  <2>2. Freed(w) \in history'
    BY <1>1, <2>1
  <2> QED  BY <1>1, <2>1, <2>2 DEF Continues, Row
<1> HIDE DEF Freed
<1> QED  BY <1>2 DEF NoneLost

LEMMA TrailStep == Inv /\ [Next]_vars => NoneLost
<1> SUFFICES ASSUME Inv, [Next]_vars, ~(history \subseteq history')
             PROVE  NoneLost
  BY GrowingKeeps
<1>1. ASSUME NEW r \in Requests, CreateAccount(r) \/ CreateStaff(r) \/ ViewHistory(r) \/ ChangeStatus(r)
      PROVE  FALSE
  BY <1>1 DEF CreateAccount, StartAgent, StartSubAgent, Begins, tables, InsertAccount, InsertFails,
              RefusePlans, RecordInitial, RecordFails, InsertRow, ViewHistory, StartView,
              LookForPeriod, Backfill, CreateStaff, ChangeStatus, StartStaff, InsertStaff,
              StartStatus, SetStatus
<1>2. ASSUME NEW r \in Requests, ReassignSupervisor(r)  PROVE NoneLost
  BY <1>2, ReassignKeepsTrail DEF ReassignSupervisor, StartReassign, ReadPeriods, ReassignFails, Begins, tables
<1>3. ASSUME NEW r \in Requests, DeleteAgent(r) \/ RemoveStaff(r)  PROVE NoneLost
  BY <1>3, DeleteKeepsTrail DEF DeleteAgent, RemoveStaff, StartDelete, ReadOrder, DeleteAccounts,
                                StartDeleteStaff, DeleteStaff, Begins, tables
<1>4. ASSUME Tick \/ Crash  PROVE FALSE
  BY <1>4 DEF Tick, Crash, tables
<1> QED  BY <1>1, <1>2, <1>3, <1>4 DEF Next, vars

(* No reassignment, first look or deletion loses a period of an agency that *)
(* is still there, changes its first day, its supervisor or who recorded    *)
(* it, or opens it again once it was closed (agencySupervisionService.js).  *)
THEOREM TrailSurvives == Spec => AuditTrailKept
<1>1. Inv /\ [Next]_vars =>
        [\A w \in history :
           w.agency \in users' =>
             \E v \in history' : /\ v.id = w.id /\ v.agency = w.agency
                                 /\ v.from = w.from /\ v.recorder = w.recorder
                                 /\ w.supervisor \in users' => v.supervisor = w.supervisor
                                 /\ v.to = Open => w.to = Open]_vars
  BY TrailStep DEF NoneLost, Continues
<1> QED  BY <1>1, Invariant, PTL DEF Spec, AuditTrailKept
=============================================================================
