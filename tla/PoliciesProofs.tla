---------------------------- MODULE PoliciesProofs ----------------------------
(***************************************************************************)
(* Proofs about Policies, for any number of cases, people at work, scripts *)
(* and downloads, any catalogue and any bounds.                            *)
(***************************************************************************)
EXTENDS Policies, SequenceTheorems, FiniteSetTheorems, TLAPS

-----------------------------------------------------------------------------
(* Type correctness                                                        *)

(* A request at work is a job of its kind.                                  *)
LEMMA JobTypes ==
  ASSUME TypeOK
  PROVE  /\ \A w \in Writers : edit[w].pc # "idle" => edit[w] \in EditJob
         /\ \A w \in Issuers : issue[w].pc # "idle" => issue[w] \in IssueJob
         /\ \A r \in Readers : read[r].pc # "idle" => read[r] \in ReadJob
         /\ \A c \in Cashiers : cash[c].pc # "idle" => cash[c] \in CashJob
         /\ \A a \in Deleters : cancel[a].pc # "idle" => cancel[a] \in CancelJob
BY DEF TypeOK, Idle

(* What a list of revisions keeps: its type, its last entry, and all of it  *)
(* while it is short.                                                       *)
LEMMA LastRevisionsProperties ==
  ASSUME NEW S, NEW s \in Seq(S), NEW e \in S
  PROVE  LET kept == LastRevisions(Append(s, e)) IN
         /\ kept \in Seq(S)
         /\ kept # <<>>
         /\ Last(kept) = e
         /\ Len(kept) < MaxRevisions => kept = Append(s, e)
<1> DEFINE all == Append(s, e)
           n == Len(all)
           first == n - MaxRevisions + 1
           short == SubSeq(all, first, n)
<1>1. all \in Seq(S) /\ n \in Nat /\ n > 0 /\ all[n] = e
  OBVIOUS
<1>2. CASE n > MaxRevisions
  <2>1. first \in 1..n /\ n - first + 1 = MaxRevisions
    BY <1>1, <1>2 DEF MaxRevisions
  <2>2. /\ short \in Seq(S)
        /\ Len(short) = MaxRevisions
        /\ \A i \in 1..MaxRevisions : short[i] = all[first + i - 1]
    <3>1. \A i \in first..n : all[i] \in S
      BY <1>1, <2>1
    <3>2. first \in Int /\ n \in Int
      BY <1>1, <2>1
    <3>3. first <= n
      BY <2>1
    <3> HIDE DEF all, n, first
    <3>4. /\ short \in Seq(S)
          /\ Len(short) = IF first <= n THEN n - first + 1 ELSE 0
          /\ \A i \in 1..(n - first + 1) : short[i] = all[first + i - 1]
      BY <3>1, <3>2, SubSeqProperties
    <3> HIDE DEF short
    <3> QED  BY <2>1, <3>3, <3>4
  <2>3. short[MaxRevisions] = e
    BY <1>1, <2>1, <2>2 DEF MaxRevisions
  <2>4. short # <<>> /\ Last(short) = e /\ ~(Len(short) < MaxRevisions)
    <3>1. MaxRevisions = 10
      BY DEF MaxRevisions
    <3> HIDE DEF short
    <3>2. short # <<>>
      <4>1. Len(short) = 10
        BY <2>2, <3>1
      <4>2. Len(<<>>) = 0
        BY EmptySeq
      <4>3. 10 # 0
        OBVIOUS
      <4> QED  BY <4>1, <4>2, <4>3, Zenon
    <3> QED  BY <2>2, <2>3, <3>1, <3>2 DEF Last
  <2>5. LastRevisions(all) = short
    BY <1>2 DEF LastRevisions
  <2> HIDE DEF all, short
  <2>6. QED  BY <2>2, <2>4, <2>5 DEF all
<1>3. CASE ~(n > MaxRevisions)
  <2>1. LastRevisions(all) = all
    BY <1>3 DEF LastRevisions
  <2> QED  BY <1>1, <2>1 DEF Last
<1> QED  BY <1>2, <1>3

LEMMA ReplacedByType ==
  ASSUME NEW job, NEW p \in Policy
  PROVE  ReplacedBy(job, p) \in Revision
BY DEF ReplacedBy, Revision, Policy

USE PoliciesAssumption

(* How the cases insured at the start are laid out: one policy each.        *)
LEMMA InsuredOrder ==
  /\ Cardinality(Insured) \in Nat
  /\ SetToSeq(Insured) \in [1..Cardinality(Insured) -> Insured]
  /\ \A i, j \in 1..Cardinality(Insured) :
       SetToSeq(Insured)[i] = SetToSeq(Insured)[j] => i = j
  /\ \A c \in Insured : \E i \in 1..Cardinality(Insured) : SetToSeq(Insured)[i] = c
<1> DEFINE n == Cardinality(Insured)
           order == SetToSeq(Insured)
<1>1. n \in Nat /\ ExistsBijection(1..n, Insured)
  BY FS_CardinalityType
<1>2. PICK f : f \in Bijection(1..n, Insured)
  BY <1>1 DEF ExistsBijection
<1>3. f \in [1..n -> Insured] /\ IsInjective(f)
  BY <1>2 DEF Bijection, Injection
<1>4. order \in [1..n -> Insured] /\ IsInjective(order)
  BY <1>3 DEF SetToSeq
<1>5. order \in Injection(1..n, Insured)
  BY <1>4 DEF Injection
<1>6. IsFiniteSet(1..n) /\ Cardinality(1..n) = n
  BY <1>1, FS_Interval
<1>7. order \in Surjection(1..n, Insured)
  BY <1>5, <1>6, FS_Injection
<1>8. \A c \in Insured : \E i \in 1..n : order[i] = c
  BY <1>7 DEF Surjection
<1>9. \A i, j \in 1..n : order[i] = order[j] => i = j
  BY <1>4 DEF IsInjective
<1> HIDE DEF order
<1> QED  BY <1>1, <1>4, <1>8, <1>9 DEF order

LEMMA NewPolicyType ==
  ASSUME NEW c \in Cases, NEW d \in Details, NEW price \in Nat, NEW paid \in BOOLEAN
  PROVE  NewPolicy(c, d, price, paid) \in Policy
<1> <<>> \in Seq(Revision)
  OBVIOUS
<1> QED  BY DEF NewPolicy, Policy, Shown, PaymentStatuses

(* The rewritings of a job and of a row by which the actions proceed.       *)
LEMMA JobUpdates ==
  ASSUME NEW job \in EditJob
  PROVE  /\ \A pc \in {"loading", "writing", "pricing", "rollback", "selling",
                       "billing", "freezing", "replacing", "dropping", "counting"} :
              [job EXCEPT !.pc = pc] \in EditJob
         /\ \A i \in Nat, d \in Details :
              [job EXCEPT !.pc = "writing", !.sale = i, !.new = d] \in EditJob
         /\ \A d \in Details, n \in Nat :
              [job EXCEPT !.pc = "selling", !.new = d, !.price = n] \in EditJob
         /\ \A s \in Seq(Revision) :
              [job EXCEPT !.pc = "replacing", !.revisions = s] \in EditJob
         /\ \A d \in Details : [job EXCEPT !.pc = "freezing", !.new = d] \in EditJob
         /\ AfterFreeze(job) \in {Idle} \cup EditJob
<1>1. \A pc \in {"loading", "writing", "pricing", "rollback", "selling",
                 "billing", "freezing", "replacing", "dropping", "counting"} :
        [job EXCEPT !.pc = pc] \in EditJob
  BY DEF EditJob
<1>2. \A i \in Nat, d \in Details :
        [job EXCEPT !.pc = "writing", !.sale = i, !.new = d] \in EditJob
  BY DEF EditJob
<1>3. \A d \in Details, n \in Nat :
        [job EXCEPT !.pc = "selling", !.new = d, !.price = n] \in EditJob
  BY DEF EditJob
<1>4. \A s \in Seq(Revision) :
        [job EXCEPT !.pc = "replacing", !.revisions = s] \in EditJob
  BY DEF EditJob
<1>5. \A d \in Details : [job EXCEPT !.pc = "freezing", !.new = d] \in EditJob
  BY DEF EditJob
<1>6. AfterFreeze(job) \in {Idle} \cup EditJob
  BY <1>1 DEF AfterFreeze
<1> QED  BY <1>1, <1>2, <1>3, <1>4, <1>5, <1>6

LEMMA RowUpdates ==
  ASSUME NEW p \in Policy
  PROVE  /\ \A n \in Nat : [p EXCEPT !.price = n] \in Policy
         /\ \A n \in Nat : [p EXCEPT !.billed = n] \in Policy
         /\ \A shown \in Shown, s \in Seq(Revision) :
              [p EXCEPT !.shows = shown, !.replaced = s] \in Policy
         /\ [p EXCEPT !.count = @ + 1] \in Policy
         /\ \A to \in PaymentStatuses, given \in 0..1, n \in Nat :
              [p EXCEPT !.pay = to, !.received = given, !.reverses = n] \in Policy
         /\ [p EXCEPT !.live = FALSE, !.received = 0] \in Policy
<1>1. \A n \in Nat : [p EXCEPT !.price = n] \in Policy
  BY DEF Policy
<1>2. \A n \in Nat : [p EXCEPT !.billed = n] \in Policy
  BY DEF Policy
<1>3. \A shown \in Shown, s \in Seq(Revision) :
        [p EXCEPT !.shows = shown, !.replaced = s] \in Policy
  BY DEF Policy
<1>4. [p EXCEPT !.count = @ + 1] \in Policy
  BY DEF Policy
<1>5. \A to \in PaymentStatuses, given \in 0..1, n \in Nat :
        [p EXCEPT !.pay = to, !.received = given, !.reverses = n] \in Policy
  BY DEF Policy
<1>6. [p EXCEPT !.live = FALSE, !.received = 0] \in Policy
  <2>1. \A b \in BOOLEAN, n \in 0..1 : [p EXCEPT !.live = b, !.received = n] \in Policy
    BY DEF Policy
  <2>2. FALSE \in BOOLEAN /\ 0 \in 0..1
    OBVIOUS
  <2> QED  BY <2>1, <2>2, Zenon
<1> QED  BY <1>1, <1>2, <1>3, <1>4, <1>5, <1>6

LEMMA RowsType ==
  ASSUME NEW s \in Seq(Policy), NEW i \in 1..Len(s), NEW p \in Policy
  PROVE  /\ [s EXCEPT ![i] = p] \in Seq(Policy)
         /\ Len([s EXCEPT ![i] = p]) = Len(s)
         /\ \A j \in 1..Len(s) : [s EXCEPT ![i] = p][j] = IF j = i THEN p ELSE s[j]
BY ExceptSeq

(* Jobs are about policies that exist, each writer does what its kind may,  *)
(* and what it writes to is a policy of the case it works on.               *)
WriterInOrder(w) ==
  LET job == edit[w] IN
  /\ w \in Scripts =>
       job.role = "script" /\ job.pc \in {"pricing", "freezing", "replacing", "dropping"}
  /\ w \in Editors => job.role # "script"
  /\ job.pc = "counting" => job.role = "operator"
  /\ job.pc # "loading" =>
       /\ job.sale \in 0..Len(policies)
       /\ job.sale # 0 => policies[job.sale].case = job.case
       /\ job.pc # "writing" => job.sale # 0

JobsInOrder ==
  /\ \A w \in Writers : edit[w].pc # "idle" => WriterInOrder(w)
  /\ \A r \in Readers : read[r].pc # "idle" => read[r].sale \in 1..Len(policies)
  /\ \A c \in Cashiers : cash[c].pc # "idle" => cash[c].sale \in 1..Len(policies)
  /\ \A a \in Deleters : cancel[a].pc # "idle" => cancel[a].sale \in 1..Len(policies)

(* The policy a request at work writes to.                                  *)
LEMMA JobSales ==
  ASSUME TypeOK, JobsInOrder
  PROVE  /\ \A w \in Writers : edit[w].pc \notin {"idle", "loading", "writing"} =>
              edit[w].sale \in 1..Len(policies) /\ policies[edit[w].sale] \in Policy
         /\ \A c \in Cashiers : cash[c].pc # "idle" =>
              cash[c].sale \in 1..Len(policies) /\ policies[cash[c].sale] \in Policy
         /\ \A a \in Deleters : cancel[a].pc # "idle" =>
              cancel[a].sale \in 1..Len(policies) /\ policies[cancel[a].sale] \in Policy
         /\ \A i \in 1..Len(policies) : policies[i] \in Policy
<1>1. policies \in Seq(Policy)
  BY DEF TypeOK
<1>2. \A i \in 1..Len(policies) : policies[i] \in Policy
  BY <1>1, ElementOfSeq
<1>3. ASSUME NEW w \in Writers, edit[w].pc \notin {"idle", "loading", "writing"}
      PROVE  edit[w].sale \in 1..Len(policies)
  BY <1>1, <1>3 DEF JobsInOrder, WriterInOrder
<1> QED  BY <1>2, <1>3 DEF JobsInOrder

(* FirstPolicy is 0 or the first policy of the case.                        *)
FirstIsFirst ==
  \A c \in Cases : PoliciesOf(c) # {} =>
    \E i \in PoliciesOf(c) : \A j \in PoliciesOf(c) : i <= j

LEMMA FirstPolicyIs ==
  ASSUME TypeOK, FirstIsFirst, NEW c \in Cases
  PROVE  /\ PoliciesOf(c) = {} => FirstPolicy(c) = 0
         /\ PoliciesOf(c) # {} => /\ FirstPolicy(c) \in PoliciesOf(c)
                                 /\ \A j \in PoliciesOf(c) : FirstPolicy(c) <= j
         /\ FirstPolicy(c) \in 0..Len(policies)
<1>1. CASE PoliciesOf(c) = {}
  <2>1. FirstPolicy(c) = 0
    BY <1>1 DEF FirstPolicy
  <2> QED  BY <1>1, <2>1 DEF TypeOK
<1>2. CASE PoliciesOf(c) # {}
  <2>1. \E i \in PoliciesOf(c) : \A j \in PoliciesOf(c) : i <= j
    BY <1>2 DEF FirstIsFirst
  <2>2. /\ FirstPolicy(c) \in PoliciesOf(c)
        /\ \A j \in PoliciesOf(c) : FirstPolicy(c) <= j
    BY <1>2, <2>1 DEF FirstPolicy
  <2>3. FirstPolicy(c) \in 1..Len(policies)
    BY <2>2 DEF PoliciesOf
  <2> QED  BY <1>2, <2>2, <2>3
<1> QED  BY <1>1, <1>2

(* A step of a writer changes its job, and perhaps the details of a case or *)
(* one policy or its files.                                                 *)
LEMMA WriterStepType ==
  ASSUME TypeOK,
         NEW w \in Writers, NEW job \in {Idle} \cup EditJob,
         edit' = [edit EXCEPT ![w] = job],
         UNCHANGED <<late, requests, payments>>,
         details' \in [Cases -> Details],
         policies' \in Seq(Policy), Len(policies') = Len(policies),
         files' \in [1..Len(policies) -> [Locales -> FileType]],
         edits' \in 0..MaxEdits, faults' \in 0..MaxFaults, overlapped' \subseteq Cases
  PROVE  TypeOK'
<1>1. edit' \in [Writers -> {Idle} \cup EditJob]
  BY DEF TypeOK
<1>2. /\ issue' \in [Issuers -> {Idle} \cup IssueJob]
      /\ read' \in [Readers -> {Idle} \cup ReadJob]
      /\ cash' \in [Cashiers -> {Idle} \cup CashJob]
      /\ cancel' \in [Deleters -> {Idle} \cup CancelJob]
      /\ payments' \in 0..MaxPayments /\ late' \subseteq Trips
  BY DEF TypeOK, requests
<1> QED  BY <1>1, <1>2 DEF TypeOK

LEMMA BoundsKept ==
  ASSUME TypeOK
  PROVE  /\ Fault => faults' \in 0..MaxFaults
         /\ NoFault => faults' \in 0..MaxFaults
         /\ UNCHANGED work => edits' \in 0..MaxEdits /\ overlapped' \subseteq Cases
         /\ UNCHANGED faults => faults' \in 0..MaxFaults
         /\ \A c \in Cases : NoteOverlap(c) => overlapped' \subseteq Cases
BY DEF TypeOK, Fault, NoFault, work, NoteOverlap

(* The facts about the state before that the steps of writers need.         *)
LEMMA StateParts ==
  ASSUME TypeOK
  PROVE  /\ details \in [Cases -> Details]
         /\ policies \in Seq(Policy)
         /\ edit \in [Writers -> {Idle} \cup EditJob]
         /\ files \in [1..Len(policies) -> [Locales -> FileType]]
BY DEF TypeOK

LEMMA PriceType ==
  /\ \A d \in Details : Price[d] # NoPrice => Price[d] \in Nat
  /\ Premiums \subseteq Nat
BY DEF Premiums

LEMMA UpdateCaseType ==
  ASSUME TypeOK, JobsInOrder, FirstIsFirst, NEW w \in Editors, UpdateCase(w)
  PROVE  TypeOK'
<1> w \in Writers
  BY DEF Writers
<1> DEFINE before == edit[w]
<1> USE StateParts, BoundsKept
<1>0. before.pc # "idle" => before \in EditJob
  BY JobTypes
<1>u. UNCHANGED details => details' \in [Cases -> Details]
  OBVIOUS
<1>v. /\ UNCHANGED policies => policies' \in Seq(Policy) /\ Len(policies') = Len(policies)
      /\ UNCHANGED files => files' \in [1..Len(policies) -> [Locales -> FileType]]
  OBVIOUS
<1>1. ASSUME NEW c \in Cases, NEW role \in {"operator", "admin"}, StartEdit(w, c, role)
      PROVE  TypeOK'
  <2> DEFINE job == [pc |-> "loading", case |-> c, role |-> role, old |-> details[c],
                     new |-> details[c], sale |-> 0, price |-> 0, revisions |-> <<>>]
  <2>1. job \in EditJob
    <3>1. <<>> \in Seq(Revision) /\ details[c] \in Details
      OBVIOUS
    <3> QED  BY <3>1 DEF EditJob
  <2>2. edits' \in 0..MaxEdits
    BY <1>1 DEF StartEdit, TypeOK
  <2> QED  BY <1>1, <1>u, <1>v, <2>1, <2>2, WriterStepType DEF StartEdit
<1>2. ASSUME NEW d \in Details, AdmitEdit(w, d)
      PROVE  TypeOK'
  <2>1. before \in EditJob /\ before.case \in Cases
    BY <1>0, <1>2 DEF AdmitEdit, EditJob
  <2>2. FirstPolicy(before.case) \in Nat
    BY <2>1, FirstPolicyIs
  <2>3. [before EXCEPT !.pc = "writing", !.sale = FirstPolicy(before.case), !.new = d]
          \in EditJob
    BY <2>1, <2>2, JobUpdates
  <2> QED  BY <1>2, <1>u, <1>v, <2>3, WriterStepType DEF AdmitEdit
<1>3. CASE RejectEdit(w)
  BY <1>3, <1>u, <1>v, WriterStepType DEF RejectEdit
<1>4. CASE EditDies(w)
  BY <1>4, <1>u, <1>v, WriterStepType DEF EditDies
<1>5. CASE SaveCase(w)
  <2>1. before \in EditJob /\ before.case \in Cases /\ before.new \in Details
    BY <1>0, <1>5 DEF SaveCase, EditJob
  <2>2. details' \in [Cases -> Details]
    BY <1>5, <2>1 DEF SaveCase
  <2>3. (IF before.sale = 0 THEN Idle ELSE [before EXCEPT !.pc = "pricing"])
          \in {Idle} \cup EditJob
    BY <2>1, JobUpdates
  <2> QED  BY <1>5, <1>v, <2>2, <2>3, WriterStepType DEF SaveCase
<1>6. CASE Reprice(w)
  <2> DEFINE now == details[before.case]
  <2>1. before \in EditJob /\ now \in Details
    BY <1>0, <1>6 DEF Reprice, EditJob
  <2>2. (IF Price[now] = NoPrice THEN [before EXCEPT !.pc = "rollback"]
         ELSE [before EXCEPT !.pc = "selling", !.new = now, !.price = Price[now]])
          \in {Idle} \cup EditJob
    BY <2>1, PriceType, JobUpdates
  <2> QED  BY <1>6, <1>u, <1>v, <2>2, WriterStepType DEF Reprice
<1>7. CASE Rollback(w)
  <2>1. before \in EditJob /\ before.case \in Cases /\ before.old \in Details
    BY <1>0, <1>7 DEF Rollback, EditJob
  <2>2. details' \in [Cases -> Details] /\ faults' \in 0..MaxFaults
    BY <1>7, <2>1 DEF Rollback
  <2> QED  BY <1>7, <1>v, <2>2, WriterStepType DEF Rollback
<1>8. CASE PriceSale(w)
  <2>1. before \in EditJob /\ before.price \in Nat
    BY <1>0, <1>8 DEF PriceSale, EditJob
  <2>2. before.sale \in 1..Len(policies) /\ policies[before.sale] \in Policy
    BY <1>8, JobSales DEF PriceSale
  <2>3. policies' \in Seq(Policy) /\ Len(policies') = Len(policies)
    <3>1. [policies[before.sale] EXCEPT !.price = before.price] \in Policy
      BY <2>1, <2>2, RowUpdates
    <3> QED  BY <1>8, <2>2, <3>1, RowsType DEF PriceSale
  <2>4. [before EXCEPT !.pc = "billing"] \in EditJob
    BY <2>1, JobUpdates
  <2> QED  BY <1>8, <1>u, <1>v, <2>3, <2>4, WriterStepType DEF PriceSale
<1>9. CASE BillInvoice(w)
  <2>1. before \in EditJob /\ before.price \in Nat
    BY <1>0, <1>9 DEF BillInvoice, EditJob
  <2>2. before.sale \in 1..Len(policies) /\ policies[before.sale] \in Policy
    BY <1>9, JobSales DEF BillInvoice
  <2>3. policies' \in Seq(Policy) /\ Len(policies') = Len(policies) /\ faults' \in 0..MaxFaults
    <3>1. [policies[before.sale] EXCEPT !.billed = before.price] \in Policy
      BY <2>1, <2>2, RowUpdates
    <3>2. /\ \/ policies' = policies
             \/ policies' = [policies EXCEPT ![before.sale] =
                               [policies[before.sale] EXCEPT !.billed = before.price]]
          /\ faults' \in 0..MaxFaults
      BY <1>9 DEF BillInvoice
    <3> QED  BY <2>2, <3>1, <3>2, RowsType
  <2>4. [before EXCEPT !.pc = "freezing"] \in EditJob
    BY <2>1, JobUpdates
  <2> QED  BY <1>9, <1>u, <1>v, <2>3, <2>4, WriterStepType DEF BillInvoice
<1>10. CASE CountEdit(w)
  <2>2. before.sale \in 1..Len(policies) /\ policies[before.sale] \in Policy
    BY <1>10, JobSales DEF CountEdit
  <2>3. policies' \in Seq(Policy) /\ Len(policies') = Len(policies) /\ faults' \in 0..MaxFaults
    <3>1. [policies[before.sale] EXCEPT !.count = policies[before.sale].count + 1] \in Policy
      BY <2>2, RowUpdates
    <3>2. /\ \/ policies' = policies
             \/ policies' = [policies EXCEPT ![before.sale] =
                               [policies[before.sale] EXCEPT !.count = policies[before.sale].count + 1]]
          /\ faults' \in 0..MaxFaults
      BY <1>10 DEF CountEdit
    <3> QED  BY <2>2, <3>1, <3>2, RowsType
  <2> QED  BY <1>10, <1>u, <1>v, <2>3, WriterStepType DEF CountEdit
<1> QED
  BY <1>1, <1>2, <1>3, <1>4, <1>5, <1>6, <1>7, <1>8, <1>9, <1>10 DEF UpdateCase

LEMMA RefreshType ==
  ASSUME TypeOK, JobsInOrder, NEW w \in Writers, RefreshSnapshot(w)
  PROVE  TypeOK'
<1> DEFINE before == edit[w]
           i == before.sale
           p == policies[i]
<1> USE StateParts, BoundsKept
<1>0. before.pc # "idle" => before \in EditJob
  BY JobTypes
<1>u. /\ UNCHANGED details => details' \in [Cases -> Details]
      /\ UNCHANGED policies => policies' \in Seq(Policy) /\ Len(policies') = Len(policies)
      /\ UNCHANGED files => files' \in [1..Len(policies) -> [Locales -> FileType]]
  OBVIOUS
<1>1. CASE ReadSnapshot(w)
  <2>1. before \in EditJob
    BY <1>0, <1>1 DEF ReadSnapshot
  <2>2. p \in Policy /\ p.replaced \in Seq(Revision)
    BY <1>1, JobSales DEF ReadSnapshot, Policy
  <2>3. ReplacedBy(before, p) \in Revision
    BY <2>2, ReplacedByType
  <2>4. LastRevisions(Append(p.replaced, ReplacedBy(before, p))) \in Seq(Revision)
    BY <2>2, <2>3, LastRevisionsProperties
  <2>5. [before EXCEPT !.pc = "replacing",
           !.revisions = LastRevisions(Append(p.replaced, ReplacedBy(before, p)))] \in EditJob
    BY <2>1, <2>4, JobUpdates
  <2> QED  BY <1>1, <1>u, <2>5, WriterStepType DEF ReadSnapshot
<1>2. CASE WriteSnapshot(w)
  <2> DEFINE shown == [d |-> before.new, price |-> before.price]
  <2>1. before \in EditJob
    BY <1>0, <1>2 DEF WriteSnapshot
  <2>2. shown \in Shown /\ before.revisions \in Seq(Revision)
    BY <2>1 DEF EditJob, Shown
  <2>3. i \in 1..Len(policies) /\ p \in Policy
    BY <1>2, JobSales DEF WriteSnapshot
  <2>4. [p EXCEPT !.shows = shown, !.replaced = before.revisions] \in Policy
    BY <2>2, <2>3, RowUpdates
  <2>5. policies' \in Seq(Policy) /\ Len(policies') = Len(policies)
    BY <1>2, <2>3, <2>4, RowsType DEF WriteSnapshot
  <2>6. [before EXCEPT !.pc = "dropping"] \in EditJob
    BY <2>1, JobUpdates
  <2> QED  BY <1>2, <1>u, <2>5, <2>6, WriterStepType DEF WriteSnapshot
<1>3. CASE FreezeFails(w)
  <2>1. AfterFreeze(before) \in {Idle} \cup EditJob
    BY <1>0, <1>3, JobUpdates DEF FreezeFails
  <2> QED  BY <1>3, <1>u, <2>1, WriterStepType DEF FreezeFails
<1>4. CASE DropFiles(w)
  <2>1. AfterFreeze(before) \in {Idle} \cup EditJob
    BY <1>0, <1>4, JobUpdates DEF DropFiles
  <2>2. NoFiles \in [Locales -> FileType]
    BY DEF NoFiles, FileType
  <2>3. /\ files' \in [1..Len(policies) -> [Locales -> FileType]]
        /\ faults' \in 0..MaxFaults
    BY <1>4, <2>2 DEF DropFiles
  <2> QED  BY <1>4, <1>u, <2>1, <2>3, WriterStepType DEF DropFiles
<1> QED
  BY <1>1, <1>2, <1>3, <1>4 DEF RefreshSnapshot

LEMMA RefreezeType ==
  ASSUME TypeOK, JobsInOrder, NEW w \in Scripts, Refreeze(w)
  PROVE  TypeOK'
<1> w \in Writers
  BY DEF Writers
<1> DEFINE before == edit[w]
<1> USE StateParts, BoundsKept
<1>u. /\ UNCHANGED details => details' \in [Cases -> Details]
      /\ UNCHANGED policies => policies' \in Seq(Policy) /\ Len(policies') = Len(policies)
      /\ UNCHANGED files => files' \in [1..Len(policies) -> [Locales -> FileType]]
  OBVIOUS
<1>1. ASSUME NEW i \in 1..Len(policies), StartRefreeze(w, i)
      PROVE  TypeOK'
  <2> DEFINE c == policies[i].case
             job == [pc |-> "pricing", case |-> c, role |-> "script", old |-> details[c],
                     new |-> details[c], sale |-> i, price |-> policies[i].price,
                     revisions |-> <<>>]
  <2>1. policies[i] \in Policy
    BY ElementOfSeq
  <2>2. c \in Cases /\ policies[i].price \in Nat
    BY <2>1 DEF Policy
  <2>3. i \in Nat /\ <<>> \in Seq(Revision) /\ details[c] \in Details
    BY <2>2
  <2>4. job \in EditJob
    BY <2>2, <2>3 DEF EditJob
  <2>5. edits' \in 0..MaxEdits /\ overlapped' \subseteq Cases
    BY <1>1, <2>2 DEF StartRefreeze, TypeOK
  <2> HIDE DEF c
  <2> QED  BY <1>1, <1>u, <2>4, <2>5, WriterStepType DEF StartRefreeze, c
<1>2. CASE RereadCase(w)
  <2>1. before \in EditJob /\ details[before.case] \in Details
    BY <1>2, JobTypes DEF RereadCase, EditJob
  <2>2. [before EXCEPT !.pc = "freezing", !.new = details[before.case]] \in EditJob
    BY <2>1, JobUpdates
  <2> QED  BY <1>2, <1>u, <2>2, WriterStepType DEF RereadCase
<1>3. CASE ScriptCrash(w)
  BY <1>3, <1>u, WriterStepType DEF ScriptCrash
<1> QED  BY <1>1, <1>2, <1>3 DEF Refreeze

LEMMA IssueType ==
  ASSUME TypeOK, NEW w \in Issuers, Issue(w)
  PROVE  TypeOK'
<1> DEFINE before == issue[w]
<1>0. before.pc # "idle" => before \in IssueJob
  BY JobTypes
<1>1. ASSUME NEW c \in Cases, NEW price \in Premiums, NEW paid \in BOOLEAN,
             StartIssue(w, c, price, paid)
      PROVE  TypeOK'
  <2> DEFINE job == [pc |-> "locking", case |-> c, d |-> details[c], price |-> price,
                     paid |-> paid]
  <2>1. job \in IssueJob
    BY StateParts, PriceType DEF IssueJob
  <2>2. issue' \in [Issuers -> {Idle} \cup IssueJob]
    BY <1>1, <2>1 DEF StartIssue, TypeOK
  <2> QED  BY <1>1, <2>2 DEF StartIssue, TypeOK, work
<1>2. CASE IssuePolicy(w)
  <2> DEFINE p == NewPolicy(before.case, before.d, before.price, before.paid)
  <2>1. before \in IssueJob
    BY <1>0, <1>2 DEF IssuePolicy
  <2>2. p \in Policy
    BY <2>1, NewPolicyType DEF IssueJob
  <2>3. issue' \in [Issuers -> {Idle} \cup IssueJob]
    BY <1>2 DEF IssuePolicy, TypeOK
  <2>4. /\ policies' \in Seq(Policy)
        /\ files' \in [1..Len(policies') -> [Locales -> FileType]]
    <3>1. CASE UNCHANGED <<policies, files>>
      BY <3>1, StateParts
    <3>2. CASE policies' = Append(policies, p) /\ files' = Append(files, NoFiles)
      <4>1. policies' \in Seq(Policy) /\ Len(policies') = Len(policies) + 1
        BY <2>2, <3>2, StateParts
      <4>2. files \in Seq([Locales -> FileType]) /\ Len(files) = Len(policies)
        BY StateParts
      <4>3. NoFiles \in [Locales -> FileType]
        BY DEF NoFiles, FileType
      <4>4. files' \in Seq([Locales -> FileType]) /\ Len(files') = Len(policies) + 1
        BY <3>2, <4>2, <4>3
      <4> QED  BY <4>1, <4>4
    <3> QED  BY <1>2, <3>1, <3>2 DEF IssuePolicy
  <2> QED  BY <1>2, <2>3, <2>4 DEF IssuePolicy, TypeOK, work
<1>3. CASE IssueFails(w)
  BY <1>3, BoundsKept DEF IssueFails, TypeOK, work
<1> QED  BY <1>1, <1>2, <1>3 DEF Issue

LEMMA ReadType ==
  ASSUME TypeOK, NEW r \in Readers, ReadCertificate(r)
  PROVE  TypeOK'
<1> DEFINE before == read[r]
<1>0. before.pc # "idle" => before \in ReadJob
  BY JobTypes
<1>1. ASSUME NEW i \in 1..Len(policies), NEW loc \in Locales, Download(r, i, loc)
      PROVE  TypeOK'
  <2> DEFINE job == [pc |-> "looking", sale |-> i, loc |-> loc, shows |-> policies[i].shows]
  <2>1. policies[i] \in Policy
    BY StateParts, ElementOfSeq
  <2>2. job \in ReadJob
    BY <2>1 DEF ReadJob, Policy
  <2>3. read' \in [Readers -> {Idle} \cup ReadJob]
    BY <1>1, <2>2 DEF Download, TypeOK
  <2> QED  BY <1>1, <2>3 DEF Download, TypeOK, work
<1>2. CASE LookForFile(r)
  <2>1. before \in ReadJob
    BY <1>0, <1>2 DEF LookForFile
  <2>2. [before EXCEPT !.pc = "rendering"] \in ReadJob
    BY <2>1 DEF ReadJob
  <2>3. read' \in [Readers -> {Idle} \cup ReadJob]
    BY <1>2, <2>2 DEF LookForFile, TypeOK
  <2> QED  BY <1>2, <2>3 DEF LookForFile, TypeOK, work
<1>3. CASE StoreFile(r)
  <2>1. before.shows \in FileType
    BY <1>0, <1>3 DEF StoreFile, ReadJob, FileType
  <2>2. files' \in [1..Len(policies) -> [Locales -> FileType]]
    <3> DEFINE i == before.sale
               row == [files[i] EXCEPT ![before.loc] = before.shows]
    <3>1. files' = files \/ files' = [files EXCEPT ![i] = row]
      BY <1>3 DEF StoreFile
    <3>2. i \in 1..Len(policies) => row \in [Locales -> FileType]
      BY <2>1, StateParts
    <3> HIDE DEF i, row
    <3> QED  BY <3>1, <3>2, StateParts
  <2>3. read' \in [Readers -> {Idle} \cup ReadJob]
    BY <1>3 DEF StoreFile, TypeOK
  <2>4. faults' \in 0..MaxFaults
    BY <1>3, BoundsKept DEF StoreFile
  <2> QED  BY <1>3, <2>2, <2>3, <2>4 DEF StoreFile, TypeOK, work
<1> QED  BY <1>1, <1>2, <1>3 DEF ReadCertificate

LEMMA PaymentType ==
  ASSUME TypeOK, JobsInOrder, NEW c \in Cashiers, UpdatePaymentStatus(c)
  PROVE  TypeOK'
<1> DEFINE before == cash[c]
<1>0. before.pc # "idle" => before \in CashJob
  BY JobTypes
<1>1. ASSUME NEW i \in 1..Len(policies), NEW to \in PaymentStatuses, NEW given \in {0, 1},
             StartPayment(c, i, to, given)
      PROVE  TypeOK'
  <2> DEFINE p == policies[i]
             got == IF to = "Unpaid" THEN 0 ELSE given
             n == IF IsReverse(p, to) THEN p.reverses + 1 ELSE p.reverses
             job == [pc |-> "updating", sale |-> i, to |-> to, received |-> got, reverses |-> n]
  <2>1. p \in Policy
    BY StateParts, ElementOfSeq
  <2>2. n \in Nat /\ got \in 0..1 /\ i \in Nat
    BY <2>1 DEF Policy
  <2>3. job \in CashJob
    <3> HIDE DEF n, got
    <3> QED  BY <2>2 DEF CashJob
  <2>4. cash' \in [Cashiers -> {Idle} \cup CashJob]
    BY <1>1, <2>3 DEF StartPayment, TypeOK
  <2>5. payments' \in 0..MaxPayments
    BY <1>1 DEF StartPayment, TypeOK
  <2> QED  BY <1>1, <2>4, <2>5 DEF StartPayment, TypeOK, work
<1>2. CASE UpdatePayment(c)
  <2> DEFINE i == before.sale
  <2>1. before \in CashJob
    BY <1>0, <1>2 DEF UpdatePayment
  <2>2. i \in 1..Len(policies) /\ policies[i] \in Policy
    BY <1>2, JobSales DEF UpdatePayment
  <2>3. [policies[i] EXCEPT !.pay = before.to, !.received = before.received,
           !.reverses = before.reverses] \in Policy
    BY <2>1, <2>2, RowUpdates DEF CashJob
  <2>4. policies' \in Seq(Policy) /\ Len(policies') = Len(policies)
    BY <1>2, <2>2, <2>3, StateParts, RowsType DEF UpdatePayment
  <2>5. cash' \in [Cashiers -> {Idle} \cup CashJob]
    BY <1>2 DEF UpdatePayment, TypeOK
  <2> QED  BY <1>2, <2>4, <2>5 DEF UpdatePayment, TypeOK, work
<1> QED  BY <1>1, <1>2 DEF UpdatePaymentStatus

LEMMA DeleteType ==
  ASSUME TypeOK, JobsInOrder, NEW a \in Deleters, SoftDelete(a)
  PROVE  TypeOK'
<1> DEFINE before == cancel[a]
<1>1. ASSUME NEW i \in 1..Len(policies), StartDelete(a, i)
      PROVE  TypeOK'
  <2>1. [pc |-> "deleting", sale |-> i] \in CancelJob
    BY DEF CancelJob
  <2>2. cancel' \in [Deleters -> {Idle} \cup CancelJob]
    BY <1>1, <2>1 DEF StartDelete, TypeOK
  <2> QED  BY <1>1, <2>2 DEF StartDelete, TypeOK, work
<1>2. CASE Delete(a)
  <2> DEFINE i == before.sale
  <2>1. i \in 1..Len(policies) /\ policies[i] \in Policy
    BY <1>2, JobSales DEF Delete
  <2>2. [policies[i] EXCEPT !.live = FALSE, !.received = 0] \in Policy
    BY <2>1, RowUpdates
  <2>3. policies' \in Seq(Policy) /\ Len(policies') = Len(policies)
    BY <1>2, <2>1, <2>2, StateParts, RowsType DEF Delete
  <2>4. cancel' \in [Deleters -> {Idle} \cup CancelJob]
    BY <1>2 DEF Delete, TypeOK
  <2> QED  BY <1>2, <2>3, <2>4 DEF Delete, TypeOK, work
<1> QED  BY <1>1, <1>2 DEF SoftDelete

LEMMA NextType ==
  ASSUME TypeOK, JobsInOrder, FirstIsFirst, [Next]_vars
  PROVE  TypeOK'
<1>1. ASSUME NEW t \in Trips \ late, Approach(t)
      PROVE  TypeOK'
  BY <1>1 DEF Approach, TypeOK, work
<1>2. CASE WebCrash
  <2>1. edit' \in [Writers -> {Idle} \cup EditJob]
    BY <1>2 DEF WebCrash, TypeOK
  <2>2. faults' \in 0..MaxFaults
    BY <1>2, BoundsKept DEF WebCrash
  <2> QED  BY <1>2, <2>1, <2>2 DEF WebCrash, TypeOK, work
<1>3. CASE UNCHANGED vars
  BY <1>3 DEF vars, TypeOK
<1> QED
  BY <1>1, <1>2, <1>3, UpdateCaseType, RefreshType, RefreezeType, IssueType, ReadType,
     PaymentType, DeleteType DEF Next

LEMMA InitType == Init => TypeOK
<1> SUFFICES ASSUME Init PROVE TypeOK
  OBVIOUS
<1> DEFINE n == Cardinality(Insured)
           first(i) == NewPolicy(SetToSeq(Insured)[i], details[SetToSeq(Insured)[i]],
                                 Price[details[SetToSeq(Insured)[i]]], FALSE)
<1>1. details \in [Cases -> Details]
  BY DEF Init
<1>2. \A c \in Cases : Price[details[c]] \in Nat
  BY PriceType DEF Init
<1>3. n \in Nat /\ \A i \in 1..n : SetToSeq(Insured)[i] \in Cases
  BY InsuredOrder
<1>4. \A i \in 1..n : first(i) \in Policy
  BY <1>1, <1>2, <1>3, NewPolicyType
<1>5. policies = [i \in 1..n |-> first(i)]
  BY DEF Init
<1> HIDE DEF first, n
<1>6. policies \in Seq(Policy)
  BY <1>3, <1>4, <1>5
<1>7. files \in [1..Len(policies) -> [Locales -> FileType]]
  BY <1>6 DEF Init, NoFiles, FileType
<1>8. /\ edit \in [Writers -> {Idle} \cup EditJob]
      /\ issue \in [Issuers -> {Idle} \cup IssueJob]
      /\ read \in [Readers -> {Idle} \cup ReadJob]
      /\ cash \in [Cashiers -> {Idle} \cup CashJob]
      /\ cancel \in [Deleters -> {Idle} \cup CancelJob]
  BY DEF Init
<1>9. /\ edits \in 0..MaxEdits /\ payments \in 0..MaxPayments /\ faults \in 0..MaxFaults
      /\ overlapped \subseteq Cases /\ late \subseteq Trips
  BY DEF Init
<1> QED  BY <1>1, <1>6, <1>7, <1>8, <1>9 DEF TypeOK

-----------------------------------------------------------------------------
(* How the tables move                                                     *)

(* An issue that finds no live policy adds one; its files are yet to be     *)
(* drawn.                                                                   *)
Appends(w) ==
  LET job == issue[w] IN
  /\ job.pc = "locking" /\ LivePolicies(job.case) = {}
  /\ policies' = Append(policies, NewPolicy(job.case, job.d, job.price, job.paid))
  /\ files' = Append(files, NoFiles)

LEMMA PolicyMoves ==
  ASSUME [Next]_vars
  PROVE  \/ UNCHANGED policies
         \/ \E w \in Issuers : Appends(w)
         \/ \E w \in Editors : PriceSale(w) \/ BillInvoice(w) \/ CountEdit(w)
         \/ \E w \in Writers : WriteSnapshot(w)
         \/ \E c \in Cashiers : UpdatePayment(c)
         \/ \E a \in Deleters : Delete(a)
<1>1. ASSUME NEW w \in Editors, UpdateCase(w)
      PROVE  UNCHANGED policies \/ PriceSale(w) \/ BillInvoice(w) \/ CountEdit(w)
  BY <1>1 DEF UpdateCase, StartEdit, AdmitEdit, RejectEdit, EditDies, SaveCase, Reprice, Rollback
<1>2. ASSUME NEW w \in Writers, RefreshSnapshot(w)
      PROVE  UNCHANGED policies \/ WriteSnapshot(w)
  BY <1>2 DEF RefreshSnapshot, ReadSnapshot, FreezeFails, DropFiles
<1>3. ASSUME NEW w \in Scripts, Refreeze(w)
      PROVE  UNCHANGED policies
  BY <1>3 DEF Refreeze, StartRefreeze, RereadCase, ScriptCrash
<1>4. ASSUME NEW w \in Issuers, Issue(w)
      PROVE  UNCHANGED policies \/ Appends(w)
  BY <1>4 DEF Issue, StartIssue, IssuePolicy, IssueFails, Appends
<1>5. ASSUME NEW r \in Readers, ReadCertificate(r)
      PROVE  UNCHANGED policies
  BY <1>5 DEF ReadCertificate, Download, LookForFile, StoreFile
<1>6. ASSUME NEW c \in Cashiers, UpdatePaymentStatus(c)
      PROVE  UNCHANGED policies \/ UpdatePayment(c)
  BY <1>6 DEF UpdatePaymentStatus, StartPayment
<1>7. ASSUME NEW a \in Deleters, SoftDelete(a)
      PROVE  UNCHANGED policies \/ Delete(a)
  BY <1>7 DEF SoftDelete, StartDelete
<1>8. ASSUME NEW t \in Trips \ late, Approach(t)
      PROVE  UNCHANGED policies
  BY <1>8 DEF Approach
<1>9. ASSUME WebCrash \/ UNCHANGED vars
      PROVE  UNCHANGED policies
  BY <1>9 DEF WebCrash, vars
<1> QED  BY <1>1, <1>2, <1>3, <1>4, <1>5, <1>6, <1>7, <1>8, <1>9 DEF Next

(* What a step may do to a policy: its case is for ever, it is not revived, *)
(* and each column has its writers.                                         *)
RowMoves(i) ==
  LET p == policies[i]
      q == policies'[i] IN
  /\ q.case = p.case
  /\ q.live => p.live
  /\ q.price # p.price => \E w \in Editors : PriceSale(w) /\ edit[w].sale = i
  /\ q.billed # p.billed => \E w \in Editors : BillInvoice(w) /\ edit[w].sale = i
  /\ q.shows # p.shows \/ q.replaced # p.replaced =>
       \E w \in Writers : WriteSnapshot(w) /\ edit[w].sale = i
  /\ q.count # p.count =>
       \E w \in Editors : CountEdit(w) /\ edit[w].sale = i /\ q.count = p.count + 1
  /\ q.pay # p.pay \/ q.received # p.received =>
       \/ \E c \in Cashiers : /\ UpdatePayment(c) /\ cash[c].sale = i
                              /\ q.pay = cash[c].to /\ q.received = cash[c].received
       \/ q.pay = p.pay /\ q.received = 0

LEMMA RowsMove ==
  ASSUME TypeOK, JobsInOrder, [Next]_vars
  PROVE  /\ Len(policies) \in Nat /\ Len(policies') \in Nat
         /\ \A i \in 1..Len(policies) : RowMoves(i)
         /\ \/ Len(policies') = Len(policies)
            \/ Len(policies') = Len(policies) + 1 /\ \E w \in Issuers : Appends(w)
<1>0. policies \in Seq(Policy) /\ Len(policies) \in Nat
  BY DEF TypeOK
<1>1. CASE UNCHANGED policies
  BY <1>0, <1>1 DEF RowMoves
<1>2. ASSUME NEW w \in Issuers, Appends(w)
      PROVE  /\ Len(policies') = Len(policies) + 1
             /\ \A i \in 1..Len(policies) : policies'[i] = policies[i]
  BY <1>0, <1>2 DEF Appends
<1>3. ASSUME NEW w \in Editors, PriceSale(w)
      PROVE  /\ Len(policies') = Len(policies)
             /\ \A i \in 1..Len(policies) : RowMoves(i)
  <2> DEFINE s == edit[w].sale
             p == [policies[s] EXCEPT !.price = edit[w].price]
  <2>1. s \in 1..Len(policies) /\ policies[s] \in Policy
    BY <1>3, JobSales DEF PriceSale, Writers
  <2>2. edit[w].price \in Nat
    BY <1>3, JobTypes DEF PriceSale, EditJob, Writers
  <2>3. p \in Policy
    BY <2>1, <2>2, RowUpdates
  <2>4. policies' = [policies EXCEPT ![s] = p]
    BY <1>3 DEF PriceSale
  <2>5. /\ Len(policies') = Len(policies)
        /\ \A i \in 1..Len(policies) : policies'[i] = IF i = s THEN p ELSE policies[i]
    <3> HIDE DEF s, p
    <3> QED  BY <1>0, <2>1, <2>3, <2>4, RowsType
  <2>6. /\ p.case = policies[s].case /\ p.live = policies[s].live
        /\ p.billed = policies[s].billed /\ p.shows = policies[s].shows
        /\ p.replaced = policies[s].replaced /\ p.count = policies[s].count
        /\ p.pay = policies[s].pay /\ p.received = policies[s].received
    BY <2>1 DEF Policy
  <2>7. ASSUME NEW i \in 1..Len(policies)
        PROVE  RowMoves(i)
    <3> HIDE DEF p
    <3> QED  BY <1>3, <2>5, <2>6 DEF RowMoves
  <2> QED  BY <2>5, <2>7
<1>4. ASSUME NEW w \in Editors, BillInvoice(w)
      PROVE  /\ Len(policies') = Len(policies)
             /\ \A i \in 1..Len(policies) : RowMoves(i)
  <2> DEFINE s == edit[w].sale
             p == [policies[s] EXCEPT !.billed = edit[w].price]
  <2>1. s \in 1..Len(policies) /\ policies[s] \in Policy
    BY <1>4, JobSales DEF BillInvoice, Writers
  <2>2. edit[w].price \in Nat
    BY <1>4, JobTypes DEF BillInvoice, EditJob, Writers
  <2>3. p \in Policy
    BY <2>1, <2>2, RowUpdates
  <2>4. policies' = policies \/ policies' = [policies EXCEPT ![s] = p]
    BY <1>4 DEF BillInvoice
  <2>5. /\ Len(policies') = Len(policies)
        /\ policies' = policies \/ \A i \in 1..Len(policies) : policies'[i] = IF i = s THEN p ELSE policies[i]
    <3> HIDE DEF s, p
    <3> QED  BY <1>0, <2>1, <2>3, <2>4, RowsType
  <2>6. /\ p.case = policies[s].case /\ p.live = policies[s].live
        /\ p.price = policies[s].price /\ p.shows = policies[s].shows
        /\ p.replaced = policies[s].replaced /\ p.count = policies[s].count
        /\ p.pay = policies[s].pay /\ p.received = policies[s].received
    BY <2>1 DEF Policy
  <2>7. ASSUME NEW i \in 1..Len(policies)
        PROVE  RowMoves(i)
    <3> HIDE DEF p
    <3> QED  BY <1>4, <2>5, <2>6 DEF RowMoves
  <2> QED  BY <2>5, <2>7
<1>5. ASSUME NEW w \in Editors, CountEdit(w)
      PROVE  /\ Len(policies') = Len(policies)
             /\ \A i \in 1..Len(policies) : RowMoves(i)
  <2> DEFINE s == edit[w].sale
             p == [policies[s] EXCEPT !.count = @ + 1]
  <2>1. s \in 1..Len(policies) /\ policies[s] \in Policy
    BY <1>5, JobSales DEF CountEdit, Writers
  <2>2. policies[s].count \in Nat
    BY <2>1 DEF Policy
  <2>3. p \in Policy
    BY <2>1, <2>2, RowUpdates
  <2>4. policies' = policies \/ policies' = [policies EXCEPT ![s] = p]
    BY <1>5 DEF CountEdit
  <2>5. /\ Len(policies') = Len(policies)
        /\ policies' = policies \/ \A i \in 1..Len(policies) : policies'[i] = IF i = s THEN p ELSE policies[i]
    <3> HIDE DEF s, p
    <3> QED  BY <1>0, <2>1, <2>3, <2>4, RowsType
  <2>6. /\ p.case = policies[s].case /\ p.live = policies[s].live
        /\ p.price = policies[s].price /\ p.billed = policies[s].billed
        /\ p.shows = policies[s].shows /\ p.replaced = policies[s].replaced
        /\ p.pay = policies[s].pay /\ p.received = policies[s].received
        /\ p.count = policies[s].count + 1
    BY <2>1 DEF Policy
  <2>7. ASSUME NEW i \in 1..Len(policies)
        PROVE  RowMoves(i)
    <3> HIDE DEF p
    <3> QED  BY <1>5, <2>5, <2>6 DEF RowMoves
  <2> QED  BY <2>5, <2>7
<1>6. ASSUME NEW w \in Writers, WriteSnapshot(w)
      PROVE  /\ Len(policies') = Len(policies)
             /\ \A i \in 1..Len(policies) : RowMoves(i)
  <2> DEFINE s == edit[w].sale
             p == [policies[s] EXCEPT !.shows = [d |-> edit[w].new, price |-> edit[w].price],
                                !.replaced = edit[w].revisions]
  <2>1. s \in 1..Len(policies) /\ policies[s] \in Policy
    BY <1>6, JobSales DEF WriteSnapshot
  <2>2. [d |-> edit[w].new, price |-> edit[w].price] \in Shown /\ edit[w].revisions \in Seq(Revision)
    BY <1>6, JobTypes DEF WriteSnapshot, EditJob, Shown
  <2>3. p \in Policy
    BY <2>1, <2>2, RowUpdates
  <2>4. policies' = [policies EXCEPT ![s] = p]
    BY <1>6 DEF WriteSnapshot
  <2>5. /\ Len(policies') = Len(policies)
        /\ \A i \in 1..Len(policies) : policies'[i] = IF i = s THEN p ELSE policies[i]
    <3> HIDE DEF s, p
    <3> QED  BY <1>0, <2>1, <2>3, <2>4, RowsType
  <2>6. /\ p.case = policies[s].case /\ p.live = policies[s].live
        /\ p.price = policies[s].price /\ p.billed = policies[s].billed
        /\ p.count = policies[s].count /\ p.pay = policies[s].pay
        /\ p.received = policies[s].received
    BY <2>1 DEF Policy
  <2>7. ASSUME NEW i \in 1..Len(policies)
        PROVE  RowMoves(i)
    <3> HIDE DEF p
    <3> QED  BY <1>6, <2>5, <2>6 DEF RowMoves
  <2> QED  BY <2>5, <2>7
<1>7. ASSUME NEW c \in Cashiers, UpdatePayment(c)
      PROVE  /\ Len(policies') = Len(policies)
             /\ \A i \in 1..Len(policies) : RowMoves(i)
  <2> DEFINE s == cash[c].sale
             p == [policies[s] EXCEPT !.pay = cash[c].to, !.received = cash[c].received,
                                !.reverses = cash[c].reverses]
  <2>1. s \in 1..Len(policies) /\ policies[s] \in Policy
    BY <1>7, JobSales DEF UpdatePayment
  <2>2. cash[c].to \in PaymentStatuses /\ cash[c].received \in 0..1 /\ cash[c].reverses \in Nat
    BY <1>7, JobTypes DEF UpdatePayment, CashJob
  <2>3. p \in Policy
    BY <2>1, <2>2, RowUpdates
  <2>4. policies' = [policies EXCEPT ![s] = p]
    BY <1>7 DEF UpdatePayment
  <2>5. /\ Len(policies') = Len(policies)
        /\ \A i \in 1..Len(policies) : policies'[i] = IF i = s THEN p ELSE policies[i]
    <3> HIDE DEF s, p
    <3> QED  BY <1>0, <2>1, <2>3, <2>4, RowsType
  <2>6. /\ p.case = policies[s].case /\ p.live = policies[s].live
        /\ p.price = policies[s].price /\ p.billed = policies[s].billed
        /\ p.shows = policies[s].shows /\ p.replaced = policies[s].replaced
        /\ p.count = policies[s].count
        /\ p.pay = cash[c].to
        /\ p.received = cash[c].received
    BY <2>1 DEF Policy
  <2>7. ASSUME NEW i \in 1..Len(policies)
        PROVE  RowMoves(i)
    <3> HIDE DEF p
    <3> QED  BY <1>7, <2>5, <2>6 DEF RowMoves
  <2> QED  BY <2>5, <2>7
<1>8. ASSUME NEW a \in Deleters, Delete(a)
      PROVE  /\ Len(policies') = Len(policies)
             /\ \A i \in 1..Len(policies) : RowMoves(i)
  <2> DEFINE s == cancel[a].sale
             p == [policies[s] EXCEPT !.live = FALSE, !.received = 0]
  <2>1. s \in 1..Len(policies) /\ policies[s] \in Policy
    BY <1>8, JobSales DEF Delete
  <2>2. policies[s].count \in Nat
    BY <2>1 DEF Policy
  <2>3. p \in Policy
    BY <2>1, <2>2, RowUpdates
  <2>4. policies' = [policies EXCEPT ![s] = p]
    BY <1>8 DEF Delete
  <2>5. /\ Len(policies') = Len(policies)
        /\ \A i \in 1..Len(policies) : policies'[i] = IF i = s THEN p ELSE policies[i]
    <3> HIDE DEF s, p
    <3> QED  BY <1>0, <2>1, <2>3, <2>4, RowsType
  <2>6. /\ p.case = policies[s].case /\ p.price = policies[s].price
        /\ p.billed = policies[s].billed /\ p.shows = policies[s].shows
        /\ p.replaced = policies[s].replaced /\ p.count = policies[s].count
        /\ p.pay = policies[s].pay
        /\ ~p.live
        /\ p.received = 0
    BY <2>1 DEF Policy
  <2>7. ASSUME NEW i \in 1..Len(policies)
        PROVE  RowMoves(i)
    <3> HIDE DEF p
    <3> QED  BY <1>8, <2>5, <2>6 DEF RowMoves
  <2> QED  BY <2>5, <2>7
<1>9. ASSUME NEW i \in 1..Len(policies), policies'[i] = policies[i]
      PROVE  RowMoves(i)
  BY <1>9 DEF RowMoves
<1> QED  BY <1>0, <1>1, <1>2, <1>3, <1>4, <1>5, <1>6, <1>7, <1>8, <1>9, PolicyMoves

(* A writer's job changes by a step of its own, or ends in a crash.         *)
OwnStep(w) ==
  \/ w \in Editors /\ UpdateCase(w)
  \/ RefreshSnapshot(w)
  \/ w \in Scripts /\ Refreeze(w)

LEMMA OwnStepOnly ==
  ASSUME TypeOK, NEW w \in Writers, OwnStep(w)
  PROVE  \A v \in Writers \ {w} : edit'[v] = edit[v]
<1>0. edit \in [Writers -> {Idle} \cup EditJob]
  BY DEF TypeOK
<1>1. CASE UpdateCase(w)
  BY <1>0, <1>1 DEF UpdateCase, StartEdit, AdmitEdit, RejectEdit, EditDies, SaveCase, Reprice,
     Rollback, PriceSale, BillInvoice, CountEdit
<1>2. CASE RefreshSnapshot(w)
  BY <1>0, <1>2 DEF RefreshSnapshot, ReadSnapshot, WriteSnapshot, FreezeFails, DropFiles
<1>3. CASE Refreeze(w)
  BY <1>0, <1>3 DEF Refreeze, StartRefreeze, RereadCase, ScriptCrash
<1> QED  BY <1>1, <1>2, <1>3 DEF OwnStep

LEMMA WritersMove ==
  ASSUME TypeOK, [Next]_vars, NEW w \in Writers
  PROVE  edit'[w] = edit[w] \/ edit'[w] = Idle \/ OwnStep(w)
<1>1. ASSUME NEW v \in Writers, OwnStep(v)
      PROVE  edit'[w] = edit[w] \/ OwnStep(w)
  BY <1>1, OwnStepOnly
<1>2. ASSUME NEW v \in Issuers, Issue(v)
      PROVE  edit' = edit
  BY <1>2 DEF Issue, StartIssue, IssuePolicy, IssueFails
<1>3. ASSUME NEW r \in Readers, ReadCertificate(r)
      PROVE  edit' = edit
  BY <1>3 DEF ReadCertificate, Download, LookForFile, StoreFile
<1>4. ASSUME NEW c \in Cashiers, UpdatePaymentStatus(c)
      PROVE  edit' = edit
  BY <1>4 DEF UpdatePaymentStatus, StartPayment, UpdatePayment
<1>5. ASSUME NEW a \in Deleters, SoftDelete(a)
      PROVE  edit' = edit
  BY <1>5 DEF SoftDelete, StartDelete, Delete
<1>6. ASSUME NEW t \in Trips \ late, Approach(t)
      PROVE  edit' = edit
  BY <1>6 DEF Approach
<1>7. CASE WebCrash
  BY <1>7 DEF WebCrash
<1>8. CASE UNCHANGED vars
  BY <1>8 DEF vars
<1>9. ASSUME NEW v \in Editors, UpdateCase(v)
      PROVE  OwnStep(v) /\ v \in Writers
  BY <1>9 DEF OwnStep, Writers
<1>10. ASSUME NEW v \in Scripts, Refreeze(v)
       PROVE  OwnStep(v) /\ v \in Writers
  BY <1>10 DEF OwnStep, Writers
<1>11. ASSUME NEW v \in Writers, RefreshSnapshot(v)
       PROVE  OwnStep(v)
  BY <1>11 DEF OwnStep
<1> QED
  BY <1>1, <1>2, <1>3, <1>4, <1>5, <1>6, <1>7, <1>8, <1>9, <1>10, <1>11 DEF Next

LEMMA RequestsMove ==
  ASSUME TypeOK, [Next]_vars
  PROVE  /\ \A r \in Readers : read'[r] = read[r] \/ read'[r] = Idle \/ ReadCertificate(r)
         /\ \A c \in Cashiers :
              cash'[c] = cash[c] \/ cash'[c] = Idle \/ UpdatePaymentStatus(c)
         /\ \A a \in Deleters : cancel'[a] = cancel[a] \/ cancel'[a] = Idle \/ SoftDelete(a)
<1>0. /\ read \in [Readers -> {Idle} \cup ReadJob]
      /\ cash \in [Cashiers -> {Idle} \cup CashJob]
      /\ cancel \in [Deleters -> {Idle} \cup CancelJob]
  BY DEF TypeOK
<1>1. ASSUME NEW w \in Editors, UpdateCase(w)
      PROVE  UNCHANGED requests
  BY <1>1 DEF UpdateCase, StartEdit, AdmitEdit, RejectEdit, EditDies, SaveCase, Reprice,
     Rollback, PriceSale, BillInvoice, CountEdit
<1>2. ASSUME NEW w \in Writers, RefreshSnapshot(w)
      PROVE  UNCHANGED requests
  BY <1>2 DEF RefreshSnapshot, ReadSnapshot, WriteSnapshot, FreezeFails, DropFiles
<1>3. ASSUME NEW w \in Scripts, Refreeze(w)
      PROVE  UNCHANGED requests
  BY <1>3 DEF Refreeze, StartRefreeze, RereadCase, ScriptCrash
<1>4. ASSUME NEW v \in Issuers, Issue(v)
      PROVE  UNCHANGED <<read, cash, cancel>>
  BY <1>4 DEF Issue, StartIssue, IssuePolicy, IssueFails
<1>5. ASSUME NEW r \in Readers, ReadCertificate(r)
      PROVE  /\ UNCHANGED <<cash, cancel>>
             /\ \A s \in Readers \ {r} : read'[s] = read[s]
  BY <1>0, <1>5 DEF ReadCertificate, Download, LookForFile, StoreFile
<1>6. ASSUME NEW c \in Cashiers, UpdatePaymentStatus(c)
      PROVE  /\ UNCHANGED <<read, cancel>>
             /\ \A s \in Cashiers \ {c} : cash'[s] = cash[s]
  BY <1>0, <1>6 DEF UpdatePaymentStatus, StartPayment, UpdatePayment
<1>7. ASSUME NEW a \in Deleters, SoftDelete(a)
      PROVE  /\ UNCHANGED <<read, cash>>
             /\ \A s \in Deleters \ {a} : cancel'[s] = cancel[s]
  BY <1>0, <1>7 DEF SoftDelete, StartDelete, Delete
<1>8. ASSUME NEW t \in Trips \ late, Approach(t)
      PROVE  UNCHANGED requests
  BY <1>8 DEF Approach, requests
<1>9. CASE WebCrash
  BY <1>9 DEF WebCrash
<1>10. CASE UNCHANGED vars
  BY <1>10 DEF vars
<1>11. UNCHANGED requests => UNCHANGED <<read, cash, cancel>>
  BY DEF requests
<1>12. UNCHANGED <<read, cash, cancel>> =>
         /\ \A r \in Readers : read'[r] = read[r]
         /\ \A c \in Cashiers : cash'[c] = cash[c]
         /\ \A a \in Deleters : cancel'[a] = cancel[a]
  OBVIOUS
<1>13. CASE \E r \in Readers : ReadCertificate(r)
  BY <1>5, <1>13
<1>14. CASE \E c \in Cashiers : UpdatePaymentStatus(c)
  BY <1>6, <1>14
<1>15. CASE \E a \in Deleters : SoftDelete(a)
  BY <1>7, <1>15
<1> QED
  BY <1>1, <1>2, <1>3, <1>4, <1>8, <1>9, <1>10, <1>11, <1>12, <1>13, <1>14, <1>15 DEF Next

(* The steps that leave a writer at work, and what each leaves its job at.  *)
Continues(w) ==
  LET before == edit[w]
      after == edit'[w] IN
  /\ before \in EditJob
  /\ after.case = before.case /\ after.role = before.role /\ after.old = before.old
  /\ \/ \E d \in Details : /\ w \in Editors /\ AdmitEdit(w, d) /\ after.pc = "writing"
                           /\ after.sale = FirstPolicy(before.case) /\ after.new = d
     \/ /\ w \in Editors /\ Reprice(w) /\ after.pc = "selling" /\ after.sale = before.sale
        /\ after.new = details[before.case] /\ after.price = Price[after.new]
        /\ after.price # NoPrice
     \/ /\ w \in Scripts /\ RereadCase(w) /\ after.pc = "freezing"
        /\ after.sale = before.sale /\ after.price = before.price
        /\ after.new = details[before.case]
     \/ /\ after.sale = before.sale /\ after.new = before.new /\ after.price = before.price
        /\ \/ w \in Editors /\ SaveCase(w) /\ after.pc = "pricing"
           \/ /\ w \in Editors /\ Reprice(w) /\ after.pc = "rollback"
              /\ Price[details[before.case]] = NoPrice
           \/ w \in Editors /\ PriceSale(w) /\ after.pc = "billing"
           \/ w \in Editors /\ BillInvoice(w) /\ after.pc = "freezing"
           \/ ReadSnapshot(w) /\ after.pc = "replacing"
           \/ WriteSnapshot(w) /\ after.pc = "dropping"
           \/ FreezeFails(w) /\ after.pc = "counting"
           \/ DropFiles(w) /\ after.pc = "counting"

LEMMA WriterSteps ==
  ASSUME TypeOK, NEW w \in Writers, OwnStep(w), edit'[w] # Idle
  PROVE  \/ w \in Editors /\ \E c \in Cases, role \in {"operator", "admin"} : StartEdit(w, c, role)
         \/ w \in Scripts /\ \E i \in 1..Len(policies) : StartRefreeze(w, i)
         \/ Continues(w)
<1> DEFINE before == edit[w]
           after == edit'[w]
<1>0. /\ edit \in [Writers -> {Idle} \cup EditJob]
      /\ before.pc # "idle" => before \in EditJob
  BY JobTypes DEF TypeOK
<1>1. ASSUME NEW d \in Details, w \in Editors, AdmitEdit(w, d)
      PROVE  Continues(w)
  <2> DEFINE first == FirstPolicy(before.case)
  <2>1. before \in EditJob /\ after = [before EXCEPT !.pc = "writing", !.sale = first, !.new = d]
    BY <1>0, <1>1 DEF AdmitEdit
  <2>2. /\ after.case = before.case /\ after.role = before.role /\ after.old = before.old
        /\ after.pc = "writing" /\ after.sale = first /\ after.new = d
    <3> HIDE DEF first
    <3> QED  BY <2>1 DEF EditJob
  <2> QED  BY <1>1, <2>1, <2>2 DEF Continues
<1>2. CASE w \in Editors /\ Reprice(w)
  <2> DEFINE now == details[before.case]
  <2>1. before \in EditJob
    BY <1>0, <1>2 DEF Reprice
  <2>2. \/ after = [before EXCEPT !.pc = "rollback"] /\ Price[now] = NoPrice
        \/ /\ after = [before EXCEPT !.pc = "selling", !.new = now, !.price = Price[now]]
           /\ Price[now] # NoPrice
    BY <1>0, <1>2 DEF Reprice
  <2>3. /\ after.case = before.case /\ after.role = before.role /\ after.old = before.old
        /\ after.sale = before.sale
        /\ \/ /\ after.pc = "rollback" /\ after.new = before.new /\ after.price = before.price
              /\ Price[now] = NoPrice
           \/ /\ after.pc = "selling" /\ after.new = now /\ after.price = Price[now]
              /\ Price[now] # NoPrice
    <3> HIDE DEF now
    <3> QED  BY <2>1, <2>2 DEF EditJob
  <2> QED  BY <1>2, <2>1, <2>3 DEF Continues
<1>3. CASE w \in Scripts /\ RereadCase(w)
  <2> DEFINE now == details[before.case]
  <2>1. before \in EditJob /\ after = [before EXCEPT !.pc = "freezing", !.new = now]
    BY <1>0, <1>3 DEF RereadCase
  <2>2. /\ after.case = before.case /\ after.role = before.role /\ after.old = before.old
        /\ after.pc = "freezing" /\ after.sale = before.sale /\ after.price = before.price
        /\ after.new = now
    <3> HIDE DEF now
    <3> QED  BY <2>1 DEF EditJob
  <2> QED  BY <1>3, <2>1, <2>2 DEF Continues
<1>4. ASSUME before \in EditJob,
             NEW pc \in {"pricing", "billing", "freezing", "dropping", "counting"},
             after = [before EXCEPT !.pc = pc]
      PROVE  /\ after.case = before.case /\ after.role = before.role /\ after.old = before.old
             /\ after.sale = before.sale /\ after.new = before.new
             /\ after.price = before.price /\ after.pc = pc
  BY <1>4 DEF EditJob
<1>5. CASE w \in Editors /\ SaveCase(w)
  <2>1. before \in EditJob /\ after = [before EXCEPT !.pc = "pricing"]
    BY <1>0, <1>5 DEF SaveCase
  <2> QED  BY <1>4, <1>5, <2>1 DEF Continues
<1>6. CASE w \in Editors /\ PriceSale(w)
  <2>1. before \in EditJob /\ after = [before EXCEPT !.pc = "billing"]
    BY <1>0, <1>6 DEF PriceSale
  <2> QED  BY <1>4, <1>6, <2>1 DEF Continues
<1>7. CASE w \in Editors /\ BillInvoice(w)
  <2>1. before \in EditJob /\ after = [before EXCEPT !.pc = "freezing"]
    BY <1>0, <1>7 DEF BillInvoice
  <2> QED  BY <1>4, <1>7, <2>1 DEF Continues
<1>8. CASE ReadSnapshot(w)
  <2> DEFINE more == LastRevisions(Append(policies[before.sale].replaced,
                                          ReplacedBy(before, policies[before.sale])))
  <2>1. before \in EditJob /\ after = [before EXCEPT !.pc = "replacing", !.revisions = more]
    BY <1>0, <1>8 DEF ReadSnapshot
  <2>2. /\ after.case = before.case /\ after.role = before.role /\ after.old = before.old
        /\ after.sale = before.sale /\ after.new = before.new
        /\ after.price = before.price /\ after.pc = "replacing"
    <3> HIDE DEF more
    <3> QED  BY <2>1 DEF EditJob
  <2> QED  BY <1>8, <2>1, <2>2 DEF Continues
<1>9. CASE WriteSnapshot(w)
  <2>1. before \in EditJob /\ after = [before EXCEPT !.pc = "dropping"]
    BY <1>0, <1>9 DEF WriteSnapshot
  <2> QED  BY <1>4, <1>9, <2>1 DEF Continues
<1>10. CASE FreezeFails(w) \/ DropFiles(w)
  <2>1. before \in EditJob /\ after = [before EXCEPT !.pc = "counting"]
    BY <1>0, <1>10 DEF FreezeFails, DropFiles, AfterFreeze
  <2> QED  BY <1>4, <1>10, <2>1 DEF Continues
<1>11. ~(RejectEdit(w) \/ EditDies(w) \/ Rollback(w) \/ CountEdit(w) \/ ScriptCrash(w))
  BY <1>0 DEF RejectEdit, EditDies, Rollback, CountEdit, ScriptCrash
<1> QED
  BY <1>1, <1>2, <1>3, <1>5, <1>6, <1>7, <1>8, <1>9, <1>10, <1>11 DEF OwnStep, UpdateCase,
     RefreshSnapshot, Refreeze

-----------------------------------------------------------------------------
(* Jobs stay in order                                                      *)

LEMMA OwnStepInOrder ==
  ASSUME TypeOK, JobsInOrder, FirstIsFirst, NEW w \in Writers, OwnStep(w),
         edit'[w].pc # "idle",
         Len(policies) \in Nat, Len(policies') \in Nat, Len(policies) <= Len(policies'),
         \A i \in 1..Len(policies) : policies'[i].case = policies[i].case
  PROVE  WriterInOrder(w)'
<1> DEFINE before == edit[w]
           after == edit'[w]
<1>0. /\ edit \in [Writers -> {Idle} \cup EditJob]
      /\ Editors \cap Scripts = {}
      /\ before.pc # "idle" => before \in EditJob /\ WriterInOrder(w)
  BY JobTypes DEF TypeOK, JobsInOrder
<1>1. ASSUME NEW c \in Cases, NEW role \in {"operator", "admin"}, w \in Editors,
             StartEdit(w, c, role)
      PROVE  WriterInOrder(w)'
  <2>1. after.pc = "loading" /\ after.role = role
    BY <1>0, <1>1 DEF StartEdit
  <2> QED  BY <1>0, <1>1, <2>1 DEF WriterInOrder
<1>2. ASSUME NEW i \in 1..Len(policies), w \in Scripts, StartRefreeze(w, i)
      PROVE  WriterInOrder(w)'
  <2>1. /\ after.pc = "pricing" /\ after.sale = i /\ after.case = policies[i].case
        /\ after.role = "script"
    BY <1>0, <1>2 DEF StartRefreeze
  <2>2. i \in 0..Len(policies') /\ i # 0 /\ policies'[i].case = policies[i].case
    OBVIOUS
  <2> QED  BY <1>0, <1>2, <2>1, <2>2 DEF WriterInOrder
<1>3. CASE Continues(w)
  <2>1. /\ before \in EditJob /\ before.pc # "idle" /\ WriterInOrder(w)
        /\ after.case = before.case /\ after.role = before.role
    BY <1>0, <1>3 DEF Continues, EditJob
  <2>2. CASE after.pc = "writing"
    <3>1. after.sale = FirstPolicy(before.case) /\ w \in Editors /\ before.case \in Cases
      BY <1>3, <2>1, <2>2 DEF Continues, EditJob
    <3>2. after.sale \in 0..Len(policies) /\ (after.sale # 0 => policies[after.sale].case = before.case)
      BY <3>1, FirstPolicyIs DEF PoliciesOf
    <3>3. after.sale \in 0..Len(policies') /\ (after.sale # 0 => policies'[after.sale].case = before.case)
      BY <3>2
    <3> QED  BY <1>0, <2>1, <2>2, <3>1, <3>3 DEF WriterInOrder
  <2>3. CASE after.pc # "writing"
    <3>1. /\ after.sale = before.sale /\ before.pc # "loading" /\ before.sale # 0
          /\ after.pc # "loading"
          /\ w \in Scripts => after.pc \in {"freezing", "replacing", "dropping", "counting"}
          /\ after.pc = "counting" => before.role = "operator"
      <4>1. CASE SaveCase(w) /\ w \in Editors /\ after.pc = "pricing" /\ after.sale = before.sale
        BY <1>0, <4>1 DEF SaveCase, Idle
      <4>2. CASE FreezeFails(w) \/ DropFiles(w)
        BY <1>0, <1>3, <2>1, <2>3, <4>2 DEF Continues, FreezeFails, DropFiles, AfterFreeze, Idle,
           WriterInOrder
      <4> QED
        BY <1>0, <1>3, <2>1, <2>3, <4>1, <4>2 DEF Continues, WriterInOrder, Reprice, RereadCase,
           PriceSale, BillInvoice, ReadSnapshot, WriteSnapshot
    <3>2. /\ before.sale \in 0..Len(policies) /\ policies[before.sale].case = before.case
      BY <2>1, <3>1 DEF WriterInOrder
    <3>3. before.sale \in 0..Len(policies') /\ policies'[before.sale].case = before.case
      BY <3>1, <3>2
    <3> QED  BY <1>0, <2>1, <2>3, <3>1, <3>3 DEF WriterInOrder
  <2> QED  BY <2>2, <2>3
<1> QED
  BY <1>1, <1>2, <1>3, WriterSteps DEF Idle

LEMMA JobsStayInOrder ==
  ASSUME TypeOK, JobsInOrder, FirstIsFirst, [Next]_vars
  PROVE  JobsInOrder'
<1>1. /\ Len(policies) \in Nat /\ Len(policies') \in Nat /\ Len(policies) <= Len(policies')
      /\ \A i \in 1..Len(policies) : policies'[i].case = policies[i].case
  BY RowsMove DEF RowMoves
<1>2. ASSUME NEW w \in Writers, edit'[w].pc # "idle"
      PROVE  WriterInOrder(w)'
  <2>1. CASE edit'[w] = edit[w]
    <3>1. WriterInOrder(w)
      BY <1>2, <2>1 DEF JobsInOrder
    <3> QED  BY <1>1, <2>1, <3>1 DEF WriterInOrder
  <2>2. CASE edit'[w] = Idle
    BY <1>2, <2>2 DEF Idle
  <2>3. CASE OwnStep(w)
    BY <1>1, <1>2, <2>3, OwnStepInOrder
  <2> QED  BY <2>1, <2>2, <2>3, WritersMove
<1>3. ASSUME NEW r \in Readers, read'[r].pc # "idle"
      PROVE  read'[r].sale \in 1..Len(policies')
  <2>0. read \in [Readers -> {Idle} \cup ReadJob]
    BY DEF TypeOK
  <2>1. CASE read'[r] = read[r]
    BY <1>1, <1>3, <2>1 DEF JobsInOrder
  <2>2. CASE read'[r] = Idle
    BY <1>3, <2>2 DEF Idle
  <2>3. ASSUME NEW i \in 1..Len(policies), NEW loc \in Locales, Download(r, i, loc)
        PROVE  read'[r].sale \in 1..Len(policies')
    BY <1>1, <2>0, <2>3 DEF Download
  <2>4. CASE LookForFile(r)
    <3>1. read[r] \in ReadJob /\ read[r].sale \in 1..Len(policies)
      BY <2>4, JobTypes DEF LookForFile, JobsInOrder
    <3>2. read'[r] = Idle \/ read'[r] = [read[r] EXCEPT !.pc = "rendering"]
      BY <2>0, <2>4 DEF LookForFile
    <3>3. read'[r] # Idle => read'[r].sale = read[r].sale
      BY <3>1, <3>2 DEF ReadJob
    <3> QED  BY <1>1, <1>3, <3>1, <3>3 DEF Idle
  <2>5. CASE StoreFile(r)
    BY <1>3, <2>0, <2>5 DEF StoreFile, Idle
  <2> QED  BY <2>1, <2>2, <2>3, <2>4, <2>5, RequestsMove DEF ReadCertificate
<1>4. ASSUME NEW c \in Cashiers, cash'[c].pc # "idle"
      PROVE  cash'[c].sale \in 1..Len(policies')
  <2>0. cash \in [Cashiers -> {Idle} \cup CashJob]
    BY DEF TypeOK
  <2>1. CASE cash'[c] = cash[c]
    BY <1>1, <1>4, <2>1 DEF JobsInOrder
  <2>2. CASE cash'[c] = Idle
    BY <1>4, <2>2 DEF Idle
  <2>3. ASSUME NEW i \in 1..Len(policies), NEW to \in PaymentStatuses, NEW given \in {0, 1},
               StartPayment(c, i, to, given)
        PROVE  cash'[c].sale \in 1..Len(policies')
    BY <1>1, <2>0, <2>3 DEF StartPayment
  <2>4. CASE UpdatePayment(c)
    BY <1>4, <2>0, <2>4 DEF UpdatePayment, Idle
  <2> QED  BY <2>1, <2>2, <2>3, <2>4, RequestsMove DEF UpdatePaymentStatus
<1>5. ASSUME NEW a \in Deleters, cancel'[a].pc # "idle"
      PROVE  cancel'[a].sale \in 1..Len(policies')
  <2>0. cancel \in [Deleters -> {Idle} \cup CancelJob]
    BY DEF TypeOK
  <2>1. CASE cancel'[a] = cancel[a]
    BY <1>1, <1>5, <2>1 DEF JobsInOrder
  <2>2. CASE cancel'[a] = Idle
    BY <1>5, <2>2 DEF Idle
  <2>3. ASSUME NEW i \in 1..Len(policies), StartDelete(a, i)
        PROVE  cancel'[a].sale \in 1..Len(policies')
    BY <1>1, <2>0, <2>3 DEF StartDelete
  <2>4. CASE Delete(a)
    BY <1>5, <2>0, <2>4 DEF Delete, Idle
  <2> QED  BY <2>1, <2>2, <2>3, <2>4, RequestsMove DEF SoftDelete
<1> QED  BY <1>2, <1>3, <1>4, <1>5 DEF JobsInOrder

(* The policies of a case only grow, so its first stays its first.          *)
StaysInsured == \A c \in Insured : PoliciesOf(c) # {}

LEMMA CasesGrow ==
  ASSUME TypeOK, JobsInOrder, [Next]_vars, NEW c \in Cases
  PROVE  /\ PoliciesOf(c) \subseteq PoliciesOf(c)'
         /\ PoliciesOf(c) # {} => \A i \in PoliciesOf(c)' \ PoliciesOf(c) :
                                    \A j \in PoliciesOf(c) : j <= i
         /\ PoliciesOf(c) = {} => PoliciesOf(c)' \subseteq {Len(policies')}
<1>1. /\ Len(policies) \in Nat /\ Len(policies') \in Nat
      /\ \A i \in 1..Len(policies) : policies'[i].case = policies[i].case
      /\ Len(policies') = Len(policies) \/ Len(policies') = Len(policies) + 1
  BY RowsMove DEF RowMoves
<1>2. \A i \in 1..Len(policies') : i \in 1..Len(policies) \/ i = Len(policies')
  BY <1>1
<1> QED  BY <1>1, <1>2 DEF PoliciesOf

LEMMA FirstStaysFirst ==
  ASSUME TypeOK, JobsInOrder, FirstIsFirst, [Next]_vars
  PROVE  /\ FirstIsFirst'
         /\ \A c \in Cases : PoliciesOf(c) # {} => FirstPolicy(c)' = FirstPolicy(c)
<1> SUFFICES ASSUME NEW c \in Cases
             PROVE  /\ PoliciesOf(c)' # {} =>
                         \E i \in PoliciesOf(c)' : \A j \in PoliciesOf(c)' : i <= j
                    /\ PoliciesOf(c) # {} => FirstPolicy(c)' = FirstPolicy(c)
  BY DEF FirstIsFirst
<1>0. /\ PoliciesOf(c) \subseteq Nat /\ PoliciesOf(c)' \subseteq Nat
      /\ Len(policies') \in Nat
  BY RowsMove DEF PoliciesOf
<1>1. CASE PoliciesOf(c) = {}
  BY <1>0, <1>1, CasesGrow
<1>2. CASE PoliciesOf(c) # {}
  <2> DEFINE first == FirstPolicy(c)
  <2>1. first \in PoliciesOf(c) /\ \A j \in PoliciesOf(c) : first <= j
    BY <1>2, FirstPolicyIs
  <2> HIDE DEF first
  <2>2. first \in PoliciesOf(c)' /\ \A j \in PoliciesOf(c)' : first <= j
    BY <1>2, <2>1, CasesGrow
  <2>3. \A i \in PoliciesOf(c)' : (\A j \in PoliciesOf(c)' : i <= j) => i = first
    BY <1>0, <2>2
  <2>4. FirstPolicy(c)' = first
    BY <2>2, <2>3 DEF FirstPolicy
  <2> QED  BY <2>2, <2>4 DEF first
<1> QED  BY <1>1, <1>2

(* The shape of the tables and of the requests at work.                     *)
Shape == TypeOK /\ JobsInOrder /\ FirstIsFirst /\ StaysInsured

(* At the start every insured case has one policy, and every policy is of   *)
(* an insured case.                                                         *)
LEMMA FirstPolicies ==
  ASSUME Init
  PROVE  /\ \A i \in 1..Len(policies) :
              /\ policies[i].case \in Insured
              /\ policies[i] = NewPolicy(policies[i].case, details[policies[i].case],
                                         Price[details[policies[i].case]], FALSE)
         /\ \A i, j \in 1..Len(policies) : policies[i].case = policies[j].case => i = j
         /\ \A c \in Insured : \E i \in 1..Len(policies) : policies[i].case = c
<1> DEFINE n == Cardinality(Insured)
           order == SetToSeq(Insured)
           first(c) == NewPolicy(c, details[c], Price[details[c]], FALSE)
<1>1. policies = [i \in 1..n |-> first(order[i])]
  BY DEF Init
<1>2. n \in Nat
  BY InsuredOrder
<1>3. \A c \in Cases : first(c).case = c
  BY DEF NewPolicy
<1> HIDE DEF n, order, first
<1>4. Len(policies) = n
  BY <1>1, <1>2
<1>5. \A i \in 1..n : order[i] \in Insured
  BY InsuredOrder DEF n, order
<1>6. \A i \in 1..n : policies[i] = first(order[i]) /\ policies[i].case = order[i]
  BY <1>1, <1>3, <1>5
<1>7. \A i, j \in 1..n : order[i] = order[j] => i = j
  BY InsuredOrder DEF n, order
<1>8. \A c \in Insured : \E i \in 1..n : order[i] = c
  BY InsuredOrder DEF n, order
<1>9. \A i \in 1..n : policies[i] = first(policies[i].case)
  BY <1>6
<1>10. \A i \in 1..n : policies[i] = NewPolicy(policies[i].case, details[policies[i].case],
                                               Price[details[policies[i].case]], FALSE)
  BY <1>9 DEF first
<1>11. \A i \in 1..n : policies[i].case \in Insured
  BY <1>5, <1>6
<1>12. \A i, j \in 1..n : policies[i].case = policies[j].case => i = j
  BY <1>6, <1>7
<1>13. \A c \in Insured : \E i \in 1..n : policies[i].case = c
  BY <1>6, <1>8
<1> QED  BY <1>4, <1>10, <1>11, <1>12, <1>13, Zenon

LEMMA InitShape == Init => Shape
<1> SUFFICES ASSUME Init PROVE Shape
  OBVIOUS
<1>1. TypeOK
  BY InitType
<1>2. JobsInOrder
  BY DEF Init, JobsInOrder, Idle
<1>3. FirstIsFirst
  BY FirstPolicies DEF FirstIsFirst, PoliciesOf
<1>4. StaysInsured
  BY FirstPolicies DEF StaysInsured, PoliciesOf
<1> QED  BY <1>1, <1>2, <1>3, <1>4 DEF Shape

LEMMA NextShape == Shape /\ [Next]_vars => Shape'
<1> SUFFICES ASSUME Shape, [Next]_vars PROVE Shape'
  OBVIOUS
<1>1. TypeOK' /\ JobsInOrder' /\ FirstIsFirst'
  BY NextType, JobsStayInOrder, FirstStaysFirst DEF Shape
<1>2. StaysInsured'
  BY CasesGrow DEF Shape, StaysInsured
<1> QED  BY <1>1, <1>2 DEF Shape

(* Rows, files and requests keep their shape through every action, for any  *)
(* number of each: a job writes to a policy of the case it works on, no     *)
(* premium is missing, and each policy has its row of files.                *)
THEOREM TypeCorrect == Spec => []TypeOK
<1>1. Shape => TypeOK
  BY DEF Shape
<1> QED  BY <1>1, InitShape, NextShape, PTL DEF Spec

-----------------------------------------------------------------------------
(* One live policy per case                                                *)

(* What the lock of the case row protects: of two live policies of a case   *)
(* neither was there without the other.                                     *)
OneLive ==
  \A i, j \in 1..Len(policies) :
    policies[i].live /\ policies[j].live /\ policies[i].case = policies[j].case => i = j

LEMMA OneLiveIsOnePolicy == TypeOK /\ OneLive => OneLivePolicy
<1> SUFFICES ASSUME TypeOK, OneLive, NEW c \in Cases
             PROVE  Cardinality(LivePolicies(c)) <= 1
  BY DEF OneLivePolicy
<1> DEFINE S == LivePolicies(c)
<1>1. \A i, j \in S : i = j
  BY DEF OneLive, LivePolicies, PoliciesOf
<1>2. Cardinality(S) <= 1
  <2> HIDE DEF S
  <2>1. CASE S = {}
    BY <2>1, FS_EmptySet
  <2>2. CASE S # {}
    <3>1. PICK i : i \in S
      BY <2>2
    <3>2. S = {i}
      BY <1>1, <3>1
    <3>3. Cardinality(S) = 1
      BY <3>2, FS_Singleton
    <3> QED  BY <3>3
  <2> QED  BY <2>1, <2>2
<1> QED  BY <1>2

LEMMA OneLiveKept == Shape /\ OneLive /\ [Next]_vars => OneLive'
<1> SUFFICES ASSUME Shape, OneLive, [Next]_vars,
                    NEW i \in 1..Len(policies'), NEW j \in 1..Len(policies'),
                    policies'[i].live, policies'[j].live,
                    policies'[i].case = policies'[j].case
             PROVE  i = j
  BY DEF OneLive
<1>1. /\ Len(policies) \in Nat /\ Len(policies') \in Nat
      /\ \A k \in 1..Len(policies) : RowMoves(k)
      /\ \/ Len(policies') = Len(policies)
         \/ Len(policies') = Len(policies) + 1 /\ \E w \in Issuers : Appends(w)
  BY RowsMove DEF Shape
<1>2. CASE i \in 1..Len(policies) /\ j \in 1..Len(policies)
  <2>1. RowMoves(i) /\ RowMoves(j)
    BY <1>1, <1>2
  <2>2. policies[i].live /\ policies[j].live /\ policies[i].case = policies[j].case
    BY <2>1, Zenon DEF RowMoves
  <2> QED  BY <1>2, <2>2, Zenon DEF OneLive
<1>3. CASE ~(i \in 1..Len(policies) /\ j \in 1..Len(policies))
  <2>1. PICK w \in Issuers : Appends(w)
    BY <1>1, <1>3
  <2> DEFINE n == Len(policies')
             c == issue[w].case
  <2>2. /\ Len(policies') = Len(policies) + 1
        /\ policies'[n] = NewPolicy(c, issue[w].d, issue[w].price, issue[w].paid)
    BY <2>1, <1>1, <1>3 DEF Appends, Shape, TypeOK
  <2>3. policies'[n].case = c
    BY <2>2 DEF NewPolicy
  <2>4. \A k \in 1..Len(policies) : policies[k].case = c => ~policies[k].live
    BY <2>1 DEF Appends, LivePolicies, PoliciesOf
  <2>5. (i \in 1..Len(policies) \/ i = n) /\ (j \in 1..Len(policies) \/ j = n)
    BY <1>1, <2>2
  <2> HIDE DEF n, c
  <2>6. \A k \in 1..Len(policies) : policies'[k].case = c => ~policies'[k].live
    BY <1>1, <2>4, Zenon DEF RowMoves
  <2> QED  BY <1>3, <2>3, <2>5, <2>6, Zenon
<1> QED  BY <1>2, <1>3

(* A case never has two live policies, however many issues, cancellations   *)
(* and payments overlap.                                                    *)
THEOREM OneLiveAtATime == Spec => []OneLivePolicy
<1>1. Init => OneLive
  BY FirstPolicies DEF OneLive
<1>2. Shape /\ OneLive => OneLivePolicy
  BY OneLiveIsOnePolicy DEF Shape
<1> QED  BY <1>1, <1>2, OneLiveKept, InitShape, NextShape, PTL DEF Spec

-----------------------------------------------------------------------------
(* An unpaid policy has received nothing                                   *)

(* What a request has read and is about to write is as it should be.        *)
NothingInHand ==
  \A c \in Cashiers : cash[c].pc # "idle" /\ cash[c].to = "Unpaid" => cash[c].received = 0

LEMMA NothingInHandKept == Shape /\ NothingInHand /\ [Next]_vars => NothingInHand'
<1> SUFFICES ASSUME Shape, NothingInHand, [Next]_vars, NEW c \in Cashiers,
                    cash'[c].pc # "idle", cash'[c].to = "Unpaid"
             PROVE  cash'[c].received = 0
  BY DEF NothingInHand
<1>0. cash \in [Cashiers -> {Idle} \cup CashJob]
  BY DEF TypeOK, Shape
<1>1. CASE cash'[c] = cash[c]
  BY <1>1 DEF NothingInHand
<1>2. CASE cash'[c] = Idle
  BY <1>2 DEF Idle
<1>3. ASSUME NEW i \in 1..Len(policies), NEW to \in PaymentStatuses, NEW given \in {0, 1},
             StartPayment(c, i, to, given)
      PROVE  cash'[c].received = 0
  <2>1. cash'[c].to = to /\ cash'[c].received = IF to = "Unpaid" THEN 0 ELSE given
    BY <1>0, <1>3 DEF StartPayment
  <2> QED  BY <2>1
<1>4. CASE UpdatePayment(c)
  BY <1>0, <1>4 DEF UpdatePayment, Idle
<1> QED  BY <1>1, <1>2, <1>3, <1>4, RequestsMove DEF UpdatePaymentStatus, Shape

LEMMA NothingReceivedKept ==
  Shape /\ NothingInHand /\ UnpaidHasNothing /\ [Next]_vars => UnpaidHasNothing'
<1> SUFFICES ASSUME Shape, NothingInHand, UnpaidHasNothing, [Next]_vars,
                    NEW i \in 1..Len(policies'), policies'[i].pay = "Unpaid"
             PROVE  policies'[i].received = 0
  BY DEF UnpaidHasNothing
<1>1. /\ Len(policies) \in Nat /\ Len(policies') \in Nat
      /\ \A k \in 1..Len(policies) : RowMoves(k)
      /\ \/ Len(policies') = Len(policies)
         \/ Len(policies') = Len(policies) + 1 /\ \E w \in Issuers : Appends(w)
  BY RowsMove DEF Shape
<1>2. CASE i \in 1..Len(policies)
  <2>1. RowMoves(i)
    BY <1>1, <1>2
  <2>2. CASE policies'[i].pay = policies[i].pay /\ policies'[i].received = policies[i].received
    BY <1>2, <2>2 DEF UnpaidHasNothing
  <2>3. ASSUME NEW c \in Cashiers, UpdatePayment(c),
               policies'[i].pay = cash[c].to, policies'[i].received = cash[c].received
        PROVE  policies'[i].received = 0
    BY <2>3 DEF NothingInHand, UpdatePayment
  <2> QED  BY <2>1, <2>2, <2>3 DEF RowMoves
<1>3. CASE i \notin 1..Len(policies)
  <2>1. PICK w \in Issuers : Appends(w)
    BY <1>1, <1>3
  <2>2. policies'[i] = NewPolicy(issue[w].case, issue[w].d, issue[w].price, issue[w].paid)
    BY <1>1, <1>3, <2>1 DEF Appends, Shape, TypeOK
  <2>3. /\ policies'[i].pay = IF issue[w].paid THEN "Paid" ELSE "Unpaid"
        /\ policies'[i].received = IF issue[w].paid THEN 1 ELSE 0
    BY <2>2 DEF NewPolicy
  <2> QED  BY <2>3
<1> QED  BY <1>2, <1>3

(* No overlap of payment updates, reversals, cancellations and issues       *)
(* leaves money on an unpaid policy.                                        *)
THEOREM UnpaidIsEmpty == Spec => []UnpaidHasNothing
<1>1. Init => NothingInHand
  BY DEF Init, NothingInHand, Idle
<1>2. ASSUME Init
      PROVE  UnpaidHasNothing
  <2>1. ASSUME NEW i \in 1..Len(policies)
        PROVE  policies[i].received = 0
    <3>1. \A c, d, n : NewPolicy(c, d, n, FALSE).received = 0
      BY DEF NewPolicy
    <3> DEFINE c == policies[i].case
    <3>2. policies[i] = NewPolicy(c, details[c], Price[details[c]], FALSE)
      BY <1>2, FirstPolicies
    <3> HIDE DEF c
    <3> QED  BY <3>1, <3>2, Zenon
  <2> QED  BY <2>1 DEF UnpaidHasNothing
<1> QED
  BY <1>1, <1>2, NothingInHandKept, NothingReceivedKept, InitShape, NextShape, PTL DEF Spec

-----------------------------------------------------------------------------
(* The limit on an operator's corrections                                  *)

LEMMA AdmittedProperties ==
  /\ IsFiniteSet(Editors) /\ Cardinality(Editors) \in Nat
  /\ \A i : /\ Admitted(i) \subseteq Editors /\ IsFiniteSet(Admitted(i))
            /\ Cardinality(Admitted(i)) \in Nat
            /\ Cardinality(Admitted(i)) <= Cardinality(Editors)
<1>1. IsFiniteSet(Editors) /\ Cardinality(Editors) \in Nat
  BY FS_CardinalityType
<1>2. ASSUME NEW i
      PROVE  /\ Admitted(i) \subseteq Editors /\ IsFiniteSet(Admitted(i))
             /\ Cardinality(Admitted(i)) \in Nat
             /\ Cardinality(Admitted(i)) <= Cardinality(Editors)
  <2>1. Admitted(i) \in SUBSET Editors
    BY DEF Admitted
  <2> QED  BY <1>1, <2>1, FS_Subset, FS_CardinalityType
<1> QED  BY <1>1, <1>2

(* A correction enters the count by being admitted, and leaves it, at the   *)
(* latest, by being counted.                                                *)
LEMMA AdmittedMoves ==
  ASSUME Shape, [Next]_vars, NEW w \in Editors, NEW i \in 1..Len(policies),
         w \in Admitted(i)', w \notin Admitted(i)
  PROVE  policies[i].count < MAX_OPERATOR_POLICY_EDITS /\ policies'[i].count = policies[i].count
<1> w \in Writers
  BY DEF Writers
<1> DEFINE before == edit[w]
           after == edit'[w]
<1>1. after.pc \notin {"idle", "loading"} /\ after.role = "operator" /\ after.sale = i
  BY DEF Admitted
<1>2. ~(before.pc \notin {"idle", "loading"} /\ before.role = "operator" /\ before.sale = i)
  BY DEF Admitted
<1>3. edit \in [Writers -> {Idle} \cup EditJob]
  BY DEF Shape, TypeOK
<1>4. OwnStep(w) /\ after # Idle
  BY <1>1, <1>2, WritersMove DEF Idle, Shape
<1>5. CASE \E c \in Cases, role \in {"operator", "admin"} : StartEdit(w, c, role)
  BY <1>1, <1>3, <1>5 DEF StartEdit
<1>6. CASE Continues(w)
  <2>1. before \in EditJob /\ after.role = before.role
    BY <1>6 DEF Continues
  <2>2. CASE \E d \in Details : AdmitEdit(w, d) /\ after.sale = FirstPolicy(before.case)
    BY <1>1, <2>1, <2>2 DEF AdmitEdit, OperatorMay
  <2>3. CASE after.sale = before.sale /\ before.pc \notin {"idle", "loading"}
    BY <1>1, <1>2, <2>1, <2>3
  <2> QED
    BY <1>6, <2>2, <2>3 DEF Continues, Reprice, RereadCase, SaveCase, PriceSale, BillInvoice,
       ReadSnapshot, WriteSnapshot, FreezeFails, DropFiles
<1> QED  BY <1>4, <1>5, <1>6, WriterSteps DEF Shape

LEMMA AdmittedPrimed ==
  \A i : /\ Admitted(i)' \subseteq Editors /\ IsFiniteSet(Admitted(i)')
         /\ Cardinality(Admitted(i)') \in Nat
         /\ Cardinality(Admitted(i)') <= Cardinality(Editors)
<1> SUFFICES ASSUME NEW i
             PROVE  /\ Admitted(i)' \subseteq Editors /\ IsFiniteSet(Admitted(i)')
                    /\ Cardinality(Admitted(i)') \in Nat
                    /\ Cardinality(Admitted(i)') <= Cardinality(Editors)
  OBVIOUS
<1>1. Admitted(i)' \in SUBSET Editors
  BY DEF Admitted
<1> QED  BY <1>1, FS_Subset, FS_CardinalityType

LEMMA EditsBoundedKept == Shape /\ OperatorEditsBounded /\ [Next]_vars => OperatorEditsBounded'
<1> SUFFICES ASSUME Shape, OperatorEditsBounded, [Next]_vars,
                    NEW i \in 1..Len(policies')
             PROVE  policies'[i].count + Cardinality(Admitted(i)')
                      <= MAX_OPERATOR_POLICY_EDITS - 1 + Cardinality(Editors)
  BY DEF OperatorEditsBounded
<1>0. MAX_OPERATOR_POLICY_EDITS = 3
  BY DEF MAX_OPERATOR_POLICY_EDITS
<1>1. /\ Len(policies) \in Nat /\ Len(policies') \in Nat
      /\ \A k \in 1..Len(policies) : RowMoves(k)
      /\ \/ Len(policies') = Len(policies)
         \/ Len(policies') = Len(policies) + 1 /\ \E w \in Issuers : Appends(w)
  BY RowsMove DEF Shape
<1> DEFINE A == Admitted(i)
           B == Admitted(i)'
<1>2. /\ Cardinality(Editors) \in Nat
      /\ A \subseteq Editors /\ IsFiniteSet(A) /\ Cardinality(A) \in Nat
      /\ B \subseteq Editors /\ Cardinality(B) \in Nat
      /\ Cardinality(B) <= Cardinality(Editors)
  BY AdmittedProperties, AdmittedPrimed
<1>3. CASE i \in 1..Len(policies)
  <2>1. RowMoves(i) /\ policies[i].count \in Nat
    BY <1>1, <1>3, JobSales DEF Shape, Policy
  <2>2. policies[i].count + Cardinality(A) <= 2 + Cardinality(Editors)
    BY <1>0, <1>3 DEF OperatorEditsBounded
  <2>3. ASSUME NEW w \in Editors, CountEdit(w), edit[w].sale = i,
               policies'[i].count = policies[i].count + 1
        PROVE  policies'[i].count + Cardinality(B) <= 2 + Cardinality(Editors)
    <3>0. w \in Writers /\ OwnStep(w) /\ edit \in [Writers -> {Idle} \cup EditJob]
      BY <2>3 DEF Writers, OwnStep, UpdateCase, Shape, TypeOK
    <3>1. edit[w].pc = "counting" /\ edit'[w].pc = "idle"
      BY <2>3, <3>0 DEF CountEdit, Idle
    <3>2. w \in A /\ w \notin B
      BY <2>3, <3>0, <3>1 DEF Admitted, Shape, JobsInOrder, WriterInOrder
    <3>3. B \in SUBSET (A \ {w})
      <4>1. \A v \in Editors \ {w} : edit'[v] = edit[v]
        BY <3>0, OwnStepOnly DEF Shape, Writers
      <4> QED  BY <3>2, <4>1 DEF Admitted
    <3> HIDE DEF A, B
    <3>4. IsFiniteSet(A \ {w}) /\ Cardinality(A \ {w}) = Cardinality(A) - 1
      BY <1>2, <3>2, FS_RemoveElement
    <3>5. Cardinality(B) <= Cardinality(A \ {w})
      BY <3>3, <3>4, FS_Subset
    <3> QED  BY <1>2, <2>1, <2>2, <2>3, <3>4, <3>5
  <2>4. CASE policies'[i].count = policies[i].count
    <3>1. CASE B \subseteq A
      <4> HIDE DEF A, B
      <4>1. Cardinality(B) <= Cardinality(A)
        BY <1>2, <3>1, FS_Subset
      <4> QED  BY <1>0, <1>2, <2>1, <2>2, <2>4, <4>1 DEF B
    <3>2. CASE ~(B \subseteq A)
      <4>1. PICK w \in Editors : w \in B /\ w \notin A
        BY <1>2, <3>2
      <4>2. policies[i].count < 3
        BY <1>0, <1>3, <4>1, AdmittedMoves
      <4> QED  BY <1>0, <1>2, <2>1, <2>4, <4>2
    <3> QED  BY <3>1, <3>2
  <2> QED  BY <1>0, <2>1, <2>3, <2>4 DEF RowMoves
<1>4. CASE i \notin 1..Len(policies)
  <2>1. PICK w \in Issuers : Appends(w)
    BY <1>1, <1>4
  <2>2. policies'[i] = NewPolicy(issue[w].case, issue[w].d, issue[w].price, issue[w].paid)
    BY <1>1, <1>4, <2>1 DEF Appends, Shape, TypeOK
  <2>3. policies'[i].count = 0
    BY <2>2 DEF NewPolicy
  <2> QED  BY <1>0, <1>2, <2>3
<1> QED  BY <1>3, <1>4

(* However many people correct a policy at once, an operator's corrections  *)
(* of it exceed the limit at most by those admitted together.               *)
THEOREM EditsStayBounded == Spec => []OperatorEditsBounded
<1>1. ASSUME Init
      PROVE  OperatorEditsBounded
  <2> SUFFICES ASSUME NEW i \in 1..Len(policies)
               PROVE  policies[i].count + Cardinality(Admitted(i))
                        <= MAX_OPERATOR_POLICY_EDITS - 1 + Cardinality(Editors)
    BY DEF OperatorEditsBounded
  <2> DEFINE c == policies[i].case
  <2>1. policies[i] = NewPolicy(c, details[c], Price[details[c]], FALSE)
    BY <1>1, FirstPolicies
  <2>2. \A a, d, n : NewPolicy(a, d, n, FALSE).count = 0
    BY DEF NewPolicy
  <2> HIDE DEF c
  <2>3. policies[i].count = 0
    BY <2>1, <2>2, Zenon
  <2> QED  BY <2>3, AdmittedProperties DEF MAX_OPERATOR_POLICY_EDITS
<1> QED  BY <1>1, EditsBoundedKept, InitShape, NextShape, PTL DEF Spec

-----------------------------------------------------------------------------
(* A corrected certificate prints a premium of the catalogue               *)

(* The premium a correction is about to print is that of its details ...    *)
PriceInHand ==
  \A w \in Editors : edit[w].pc \in {"selling", "billing", "freezing", "replacing"} =>
    edit[w].price = Price[edit[w].new]

(* ... and the revision it is about to leave says that it was a correction. *)
ReasonInHand ==
  \A w \in Writers : edit[w].pc = "replacing" =>
    /\ edit[w].revisions # <<>>
    /\ Last(edit[w].revisions).reason =
         IF edit[w].role = "script" THEN "backfill_after_edit" ELSE "policy_edit"

LEMMA PriceInHandKept == Shape /\ PriceInHand /\ [Next]_vars => PriceInHand'
<1> SUFFICES ASSUME Shape, PriceInHand, [Next]_vars, NEW w \in Editors,
                    edit'[w].pc \in {"selling", "billing", "freezing", "replacing"}
             PROVE  edit'[w].price = Price[edit'[w].new]
  BY DEF PriceInHand
<1> w \in Writers
  BY DEF Writers
<1>1. CASE edit'[w] = edit[w]
  BY <1>1 DEF PriceInHand
<1>2. CASE \E c \in Cases, role \in {"operator", "admin"} : StartEdit(w, c, role)
  BY <1>2 DEF StartEdit, Shape, TypeOK
<1>3. CASE Continues(w)
  BY <1>3 DEF Continues, PriceInHand, PriceSale, BillInvoice, ReadSnapshot
<1> QED  BY <1>1, <1>2, <1>3, WritersMove, WriterSteps DEF Idle, Shape

LEMMA ReadsSnapshot ==
  ASSUME Shape, [Next]_vars, NEW w \in Writers,
         edit'[w].pc = "replacing", edit'[w] # edit[w]
  PROVE  ReadSnapshot(w) /\ edit[w] \in EditJob
<1>1. OwnStep(w) /\ edit'[w] # Idle
  BY WritersMove DEF Idle, Shape
<1>2. ~\E c \in Cases, role \in {"operator", "admin"} : StartEdit(w, c, role)
  BY DEF StartEdit, Shape, TypeOK
<1>3. ~\E i \in 1..Len(policies) : StartRefreeze(w, i)
  BY DEF StartRefreeze, Shape, TypeOK
<1>4. Continues(w)
  BY <1>1, <1>2, <1>3, WriterSteps DEF Shape
<1> QED  BY <1>4 DEF Continues

LEMMA ReasonInHandKept == Shape /\ ReasonInHand /\ [Next]_vars => ReasonInHand'
<1> SUFFICES ASSUME Shape, ReasonInHand, [Next]_vars, NEW w \in Writers,
                    edit'[w].pc = "replacing"
             PROVE  /\ edit'[w].revisions # <<>>
                    /\ Last(edit'[w].revisions).reason =
                         IF edit'[w].role = "script" THEN "backfill_after_edit"
                         ELSE "policy_edit"
  BY DEF ReasonInHand
<1> DEFINE before == edit[w]
           after == edit'[w]
<1>1. CASE after = before
  BY <1>1 DEF ReasonInHand
<1>2. CASE after # before
  <2>1. ReadSnapshot(w) /\ before \in EditJob
    BY <1>2, ReadsSnapshot
  <2> DEFINE p == policies[before.sale]
             r == ReplacedBy(before, p)
             more == LastRevisions(Append(p.replaced, r))
  <2>2. p \in Policy /\ p.replaced \in Seq(Revision) /\ r \in Revision
    BY <2>1, JobSales, ReplacedByType DEF ReadSnapshot, Shape, Policy
  <2>3. more # <<>> /\ Last(more) = r
    BY <2>2, LastRevisionsProperties
  <2>4. after = [before EXCEPT !.pc = "replacing", !.revisions = more]
    BY <2>1 DEF ReadSnapshot, Shape, TypeOK
  <2>5. after.revisions = more /\ after.role = before.role
    <3> HIDE DEF more
    <3> QED  BY <2>1, <2>4 DEF EditJob
  <2>6. r.reason = IF before.role = "script" THEN "backfill_after_edit" ELSE "policy_edit"
    BY DEF ReplacedBy
  <2> HIDE DEF more, r
  <2> QED  BY <2>3, <2>5, <2>6
<1> QED  BY <1>1, <1>2

(* What the writer of a certificate writes, and where.                      *)
LEMMA SnapshotWritten ==
  ASSUME Shape, NEW w \in Writers, WriteSnapshot(w)
  PROVE  LET job == edit[w]
             s == job.sale IN
         /\ job \in EditJob /\ s \in 1..Len(policies) /\ policies[s] \in Policy
         /\ policies[s].case = job.case
         /\ policies'[s].shows = [d |-> job.new, price |-> job.price]
         /\ policies'[s].replaced = job.revisions
<1> DEFINE job == edit[w]
           s == job.sale
           p == [policies[s] EXCEPT !.shows = [d |-> job.new, price |-> job.price],
                                    !.replaced = job.revisions]
<1>1. /\ job \in EditJob /\ job.pc = "replacing" /\ WriterInOrder(w)
      /\ s \in 1..Len(policies) /\ policies[s] \in Policy /\ policies \in Seq(Policy)
  BY JobTypes, JobSales DEF WriteSnapshot, Shape, JobsInOrder, TypeOK
<1>2. policies[s].case = job.case
  BY <1>1 DEF WriterInOrder
<1>3. policies' = [policies EXCEPT ![s] = p]
  BY DEF WriteSnapshot
<1>4. policies'[s] = p
  <2> HIDE DEF p, s, job
  <2> QED  BY <1>1, <1>3
<1>5. p.shows = [d |-> job.new, price |-> job.price] /\ p.replaced = job.revisions
  BY <1>1 DEF Policy
<1> QED  BY <1>1, <1>2, <1>4, <1>5

LEMMA RevisedIsPricedKept ==
  Shape /\ PriceInHand /\ ReasonInHand /\ RevisedCertificateIsPriced /\ [Next]_vars
    => RevisedCertificateIsPriced'
<1> SUFFICES ASSUME Shape, PriceInHand, ReasonInHand, RevisedCertificateIsPriced, [Next]_vars,
                    NEW i \in 1..Len(policies'), policies'[i].replaced # <<>>,
                    Last(policies'[i].replaced).reason = "policy_edit"
             PROVE  policies'[i].shows.price = Price[policies'[i].shows.d]
  BY DEF RevisedCertificateIsPriced
<1>1. /\ Len(policies) \in Nat /\ Len(policies') \in Nat
      /\ \A k \in 1..Len(policies) : RowMoves(k)
      /\ \/ Len(policies') = Len(policies)
         \/ Len(policies') = Len(policies) + 1 /\ \E w \in Issuers : Appends(w)
  BY RowsMove DEF Shape
<1>2. CASE i \in 1..Len(policies)
  <2>1. CASE policies'[i].shows = policies[i].shows /\ policies'[i].replaced = policies[i].replaced
    BY <1>2, <2>1 DEF RevisedCertificateIsPriced
  <2>2. ASSUME NEW w \in Writers, WriteSnapshot(w), edit[w].sale = i
        PROVE  policies'[i].shows.price = Price[policies'[i].shows.d]
    <3>1. /\ policies'[i].shows = [d |-> edit[w].new, price |-> edit[w].price]
          /\ policies'[i].replaced = edit[w].revisions
      BY <2>2, SnapshotWritten
    <3>2. edit[w].pc = "replacing" /\ WriterInOrder(w)
      BY <2>2 DEF WriteSnapshot, Shape, JobsInOrder
    <3>3. edit[w].role # "script"
      BY <3>1, <3>2 DEF ReasonInHand
    <3>4. w \in Editors
      BY <3>2, <3>3 DEF WriterInOrder, Writers
    <3>5. edit[w].price = Price[edit[w].new]
      BY <3>2, <3>4 DEF PriceInHand
    <3> QED  BY <3>1, <3>5
  <2> QED  BY <1>1, <1>2, <2>1, <2>2 DEF RowMoves
<1>3. CASE i \notin 1..Len(policies)
  <2>1. PICK w \in Issuers : Appends(w)
    BY <1>1, <1>3
  <2>2. policies'[i] = NewPolicy(issue[w].case, issue[w].d, issue[w].price, issue[w].paid)
    BY <1>1, <1>3, <2>1 DEF Appends, Shape, TypeOK
  <2>3. policies'[i].replaced = <<>>
    BY <2>2 DEF NewPolicy
  <2> QED  BY <2>3
<1> QED  BY <1>2, <1>3

LEMMA InitRevisions ==
  ASSUME Init, NEW i \in 1..Len(policies)
  PROVE  /\ policies[i].replaced = <<>>
         /\ LET c == policies[i].case IN
            /\ c \in Insured
            /\ policies[i].price = Price[details[c]]
            /\ policies[i].billed = Price[details[c]]
            /\ policies[i].shows = [d |-> details[c], price |-> Price[details[c]]]
<1> DEFINE c == policies[i].case
<1>1. c \in Insured /\ policies[i] = NewPolicy(c, details[c], Price[details[c]], FALSE)
  BY FirstPolicies
<1> DEFINE first == NewPolicy(c, details[c], Price[details[c]], FALSE)
<1>3. /\ first.replaced = <<>>
      /\ first.price = Price[details[c]]
      /\ first.billed = Price[details[c]]
      /\ first.shows = [d |-> details[c], price |-> Price[details[c]]]
  BY DEF NewPolicy
<1>4. policies[i] = first /\ c \in Insured
  BY <1>1
<1>5. /\ policies[i].replaced = first.replaced /\ policies[i].price = first.price
      /\ policies[i].billed = first.billed /\ policies[i].shows = first.shows
  <2> HIDE DEF first
  <2> QED  BY <1>4, Zenon
<1> HIDE DEF first
<1> QED  BY <1>3, <1>4, <1>5

(* A corrected certificate prints the premium of the details it prints,     *)
(* with any number of corrections and re-freezes of one case at once.       *)
THEOREM RevisedIsPriced == Spec => []RevisedCertificateIsPriced
<1>1. Init => PriceInHand /\ ReasonInHand
  BY DEF Init, PriceInHand, ReasonInHand, Idle, Writers
<1>2. Init => RevisedCertificateIsPriced
  BY InitRevisions DEF RevisedCertificateIsPriced
<1> QED
  BY <1>1, <1>2, PriceInHandKept, ReasonInHandKept, RevisedIsPricedKept, InitShape, NextShape,
     PTL DEF Spec

-----------------------------------------------------------------------------
(* One writer at a time: what its steps have in hand                       *)

(* Two writers are at work on a case only if the history says so.           *)
OneWriter ==
  \A v, w \in Writers :
    edit[v].pc # "idle" /\ edit[w].pc # "idle" /\ edit[v].case = edit[w].case =>
      v = w \/ edit[w].case \in overlapped

LEMMA OverlapGrows ==
  ASSUME [Next]_vars
  PROVE  overlapped \subseteq overlapped'
<1>1. ASSUME NEW w \in Editors, UpdateCase(w)
      PROVE  overlapped \subseteq overlapped'
  BY <1>1 DEF UpdateCase, StartEdit, AdmitEdit, RejectEdit, EditDies, SaveCase, Reprice,
     Rollback, PriceSale, BillInvoice, CountEdit, NoteOverlap, work
<1>2. ASSUME NEW w \in Writers, RefreshSnapshot(w)
      PROVE  overlapped' = overlapped
  BY <1>2 DEF RefreshSnapshot, ReadSnapshot, WriteSnapshot, FreezeFails, DropFiles, work
<1>3. ASSUME NEW w \in Scripts, Refreeze(w)
      PROVE  overlapped \subseteq overlapped'
  BY <1>3 DEF Refreeze, StartRefreeze, RereadCase, ScriptCrash, NoteOverlap, work
<1>4. ASSUME NEW w \in Issuers, Issue(w)
      PROVE  overlapped' = overlapped
  BY <1>4 DEF Issue, StartIssue, IssuePolicy, IssueFails, work
<1>5. ASSUME NEW r \in Readers, ReadCertificate(r)
      PROVE  overlapped' = overlapped
  BY <1>5 DEF ReadCertificate, Download, LookForFile, StoreFile, work
<1>6. ASSUME NEW c \in Cashiers, UpdatePaymentStatus(c)
      PROVE  overlapped' = overlapped
  BY <1>6 DEF UpdatePaymentStatus, StartPayment, UpdatePayment, work
<1>7. ASSUME NEW a \in Deleters, SoftDelete(a)
      PROVE  overlapped' = overlapped
  BY <1>7 DEF SoftDelete, StartDelete, Delete, work
<1>8. ASSUME NEW t \in Trips \ late, Approach(t)
      PROVE  overlapped' = overlapped
  BY <1>8 DEF Approach, work
<1>9. CASE WebCrash
  BY <1>9 DEF WebCrash, work
<1>10. CASE UNCHANGED vars
  BY <1>10 DEF vars
<1> QED  BY <1>1, <1>2, <1>3, <1>4, <1>5, <1>6, <1>7, <1>8, <1>9, <1>10 DEF Next

(* A writer whose job moves to a new case finds it free or leaves a note.   *)
LEMMA WriterArrives ==
  ASSUME Shape, OneWriter, [Next]_vars, NEW v \in Writers, NEW w \in Writers, v # w,
         OwnStep(w), edit'[v].pc # "idle", edit'[w].pc # "idle",
         edit'[v].case = edit'[w].case
  PROVE  edit'[w].case \in overlapped'
<1>0. /\ edit'[v] = edit[v] /\ edit \in [Writers -> {Idle} \cup EditJob]
      /\ overlapped \subseteq overlapped'
  BY OwnStepOnly, OverlapGrows DEF Shape, TypeOK
<1>1. ASSUME NEW c \in Cases, NEW role \in {"operator", "admin"}, StartEdit(w, c, role)
      PROVE  edit'[w].case \in overlapped'
  <2>1. edit'[w].case = c
    BY <1>0, <1>1 DEF StartEdit
  <2>2. Corrected(c)
    BY <1>0, <2>1 DEF Corrected
  <2> QED  BY <1>1, <2>1, <2>2 DEF StartEdit, NoteOverlap
<1>2. ASSUME NEW i \in 1..Len(policies), StartRefreeze(w, i)
      PROVE  edit'[w].case \in overlapped'
  <2> DEFINE c == policies[i].case
  <2>1. edit'[w].case = c
    BY <1>0, <1>2 DEF StartRefreeze
  <2>2. Corrected(c)
    BY <1>0, <2>1 DEF Corrected
  <2> QED  BY <1>2, <2>1, <2>2 DEF StartRefreeze, NoteOverlap
<1>3. CASE Continues(w)
  <2>1. edit'[w].case = edit[w].case /\ edit[w].pc # "idle"
    BY <1>3 DEF Continues, EditJob
  <2> QED  BY <1>0, <2>1 DEF OneWriter
<1> QED  BY <1>1, <1>2, <1>3, WriterSteps DEF Shape, Idle

LEMMA OneWriterKept == Shape /\ OneWriter /\ [Next]_vars => OneWriter'
<1> SUFFICES ASSUME Shape, OneWriter, [Next]_vars, NEW v \in Writers, NEW w \in Writers, v # w,
                    edit'[v].pc # "idle", edit'[w].pc # "idle",
                    edit'[v].case = edit'[w].case
             PROVE  edit'[w].case \in overlapped'
  BY DEF OneWriter
<1>1. CASE edit'[v] = edit[v] /\ edit'[w] = edit[w]
  BY <1>1, OverlapGrows DEF OneWriter
<1>2. CASE OwnStep(w)
  BY <1>2, WriterArrives
<1>3. CASE OwnStep(v)
  BY <1>3, WriterArrives
<1> QED  BY <1>1, <1>2, <1>3, WritersMove DEF Idle, Shape

(* The revisions a lone writer is about to write extend those it read,      *)
(* which are still the certificate's.                                       *)
RevisionsInHand ==
  \A w \in Writers : edit[w].pc = "replacing" /\ edit[w].case \notin overlapped =>
    LET p == policies[edit[w].sale] IN
    edit[w].revisions = LastRevisions(Append(p.replaced, ReplacedBy(edit[w], p)))

LEMMA RevisionsInHandKept == Shape /\ OneWriter /\ RevisionsInHand /\ [Next]_vars => RevisionsInHand'
<1> SUFFICES ASSUME Shape, OneWriter, RevisionsInHand, [Next]_vars, NEW w \in Writers,
                    edit'[w].pc = "replacing", edit'[w].case \notin overlapped'
             PROVE  LET p == policies'[edit'[w].sale] IN
                    edit'[w].revisions =
                      LastRevisions(Append(p.replaced, ReplacedBy(edit'[w], p)))
  BY DEF RevisionsInHand, LastRevisions, ReplacedBy
<1> DEFINE job == edit[w]
           s == job.sale
           p == policies[s]
           q == policies'[s]
<1>1. \A a, b, c : a.shows = b.shows => ReplacedBy(c, a) = ReplacedBy(c, b)
  BY DEF ReplacedBy
<1>2. CASE edit'[w] = edit[w]
  <2>1. /\ job.pc = "replacing" /\ job.case \notin overlapped
        /\ s \in 1..Len(policies) /\ p.case = job.case
    BY <1>2, OverlapGrows, JobSales DEF Shape, JobsInOrder, WriterInOrder
  <2>2. job.revisions = LastRevisions(Append(p.replaced, ReplacedBy(job, p)))
    BY <2>1 DEF RevisionsInHand
  <2>3. q.shows = p.shows /\ q.replaced = p.replaced
    <3> SUFFICES ASSUME ~(q.shows = p.shows /\ q.replaced = p.replaced)
                 PROVE  FALSE
      OBVIOUS
    <3>1. PICK v \in Writers : WriteSnapshot(v) /\ edit[v].sale = s
      BY <2>1, RowsMove DEF RowMoves, Shape
    <3>2. edit[v].case = job.case /\ edit[v].pc # "idle"
      BY <2>1, <3>1, SnapshotWritten DEF WriteSnapshot
    <3>3. v = w
      BY <2>1, <3>2 DEF OneWriter
    <3>4. edit'[w].pc = "dropping"
      BY <3>1, <3>3 DEF WriteSnapshot, Shape, TypeOK
    <3> QED  BY <3>4
  <2> QED  BY <1>1, <1>2, <2>2, <2>3
<1>3. CASE edit'[w] # edit[w]
  <2>1. ReadSnapshot(w) /\ job \in EditJob
    BY <1>3, ReadsSnapshot
  <2> DEFINE more == LastRevisions(Append(p.replaced, ReplacedBy(job, p)))
  <2>2. edit'[w] = [job EXCEPT !.pc = "replacing", !.revisions = more] /\ UNCHANGED policies
    BY <2>1 DEF ReadSnapshot, Shape, TypeOK
  <2>3. edit'[w].revisions = more /\ edit'[w].role = job.role /\ edit'[w].sale = s
    <3> HIDE DEF more
    <3> QED  BY <2>1, <2>2 DEF EditJob
  <2>4. \A a, b, c : a.role = b.role => ReplacedBy(a, c) = ReplacedBy(b, c)
    BY DEF ReplacedBy
  <2>5. policies'[edit'[w].sale] = p
    <3> HIDE DEF more
    <3> QED  BY <2>2, <2>3
  <2>6. ReplacedBy(edit'[w], p) = ReplacedBy(job, p)
    <3> HIDE DEF more
    <3> QED  BY <2>3, <2>4
  <2>7. edit'[w].revisions = LastRevisions(Append(p.replaced, ReplacedBy(edit'[w], p)))
    BY <2>3, <2>6
  <2> HIDE DEF more, p
  <2> QED  BY <2>5, <2>7
<1> QED  BY <1>2, <1>3

(* While one writer at a time works on a case, every certificate that is    *)
(* replaced is kept as the newest revision of the one that replaces it.     *)
THEOREM RevisionsKept == Spec => EveryRevisionKept
<1>1. ASSUME Init
      PROVE  OneWriter /\ RevisionsInHand
  <2>1. \A w \in Writers : edit[w].pc = "idle"
    BY <1>1 DEF Init, Idle
  <2> QED  BY <2>1 DEF OneWriter, RevisionsInHand
<1>2. ASSUME Shape, RevisionsInHand, [Next]_vars
      PROVE  [RevisionKept]_policies
  <2> SUFFICES ASSUME NEW i \in 1..Len(policies), policies[i].case \notin overlapped,
                      policies'[i].shows # policies[i].shows
               PROVE  /\ policies'[i].replaced # <<>>
                      /\ Last(policies'[i].replaced).was = policies[i].shows
    BY DEF RevisionKept
  <2>1. PICK w \in Writers : WriteSnapshot(w) /\ edit[w].sale = i
    BY <1>2, RowsMove DEF RowMoves, Shape
  <2> DEFINE p == policies[i]
             r == ReplacedBy(edit[w], p)
  <2>2. /\ edit[w].pc = "replacing" /\ edit[w].case = p.case /\ p \in Policy
        /\ policies'[i].replaced = edit[w].revisions
    BY <1>2, <2>1, SnapshotWritten DEF WriteSnapshot
  <2>3. edit[w].revisions = LastRevisions(Append(p.replaced, r))
    BY <1>2, <2>1, <2>2 DEF RevisionsInHand
  <2>4. p.replaced \in Seq(Revision) /\ r \in Revision /\ r.was = p.shows
    BY <2>2, ReplacedByType DEF Policy, ReplacedBy
  <2>5. edit[w].revisions # <<>> /\ Last(edit[w].revisions) = r
    <3> HIDE DEF r, p
    <3>1. \A s \in Seq(Revision), e \in Revision :
            /\ LastRevisions(Append(s, e)) # <<>>
            /\ Last(LastRevisions(Append(s, e))) = e
      BY LastRevisionsProperties
    <3>2. /\ LastRevisions(Append(p.replaced, r)) # <<>>
          /\ Last(LastRevisions(Append(p.replaced, r))) = r
      BY <2>4, <3>1
    <3>3. edit[w].revisions = LastRevisions(Append(p.replaced, r))
      BY <2>3 DEF p, r
    <3> QED  BY <3>2, <3>3
  <2> HIDE DEF r
  <2> QED  BY <2>2, <2>4, <2>5
<1> QED
  BY <1>1, <1>2, OneWriterKept, RevisionsInHandKept, InitShape, NextShape, PTL
     DEF Spec, EveryRevisionKept

-----------------------------------------------------------------------------
(* A file on disk is a certificate that was issued                         *)

(* What is shown was issued for the policy, as far as its revisions tell.   *)
WasIssued(i, shown) ==
  LET p == policies[i] IN
  p.case \notin overlapped /\ Len(p.replaced) < MaxRevisions => shown \in Issued(p)

(* The same of the state a step leads to.                                   *)
StillIssued(i, shown) ==
  LET p == policies'[i] IN
  p.case \notin overlapped' /\ Len(p.replaced) < MaxRevisions => shown \in Issued(p)

(* A download has in hand what its certificate said.                        *)
PageInHand == \A r \in Readers : read[r].pc # "idle" => WasIssued(read[r].sale, read[r].shows)

(* What was issued remains so: a certificate is replaced by one that keeps  *)
(* it, with all those before it, as its revisions.                          *)
LEMMA IssuedGrows ==
  ASSUME Shape, RevisionsInHand, [Next]_vars, NEW i \in 1..Len(policies),
         NEW shown, WasIssued(i, shown)
  PROVE  StillIssued(i, shown)
<1> SUFFICES ASSUME policies'[i].case \notin overlapped',
                    Len(policies'[i].replaced) < MaxRevisions
             PROVE  shown \in Issued(policies'[i])
  BY DEF StillIssued
<1> DEFINE p == policies[i]
           q == policies'[i]
<1>1. RowMoves(i) /\ p \in Policy
  BY RowsMove, JobSales DEF Shape
<1>2. p.case \notin overlapped
  BY <1>1, OverlapGrows DEF RowMoves
<1>3. CASE q.shows = p.shows /\ q.replaced = p.replaced
  <2>1. shown \in Issued(p)
    BY <1>2, <1>3 DEF WasIssued
  <2>2. Issued(q) = Issued(p)
    BY <1>3 DEF Issued
  <2> QED  BY <2>1, <2>2
<1>4. ASSUME NEW w \in Writers, WriteSnapshot(w), edit[w].sale = i
      PROVE  shown \in Issued(q)
  <2> DEFINE r == ReplacedBy(edit[w], p)
             more == Append(p.replaced, r)
  <2>1. /\ edit[w].pc = "replacing" /\ edit[w].case = p.case
        /\ q.replaced = edit[w].revisions
    BY <1>4, SnapshotWritten DEF WriteSnapshot
  <2>2. edit[w].revisions = LastRevisions(more)
    BY <1>2, <1>4, <2>1 DEF RevisionsInHand
  <2>3. p.replaced \in Seq(Revision) /\ r \in Revision /\ r.was = p.shows
    BY <1>1, ReplacedByType DEF Policy, ReplacedBy
  <2>4. Len(LastRevisions(more)) < MaxRevisions => LastRevisions(more) = more
    <3>1. \A s \in Seq(Revision), e \in Revision :
            Len(LastRevisions(Append(s, e))) < MaxRevisions =>
              LastRevisions(Append(s, e)) = Append(s, e)
      BY LastRevisionsProperties
    <3> HIDE DEF r, p
    <3> QED  BY <2>3, <3>1
  <2>5. q.replaced = more
    BY <2>1, <2>2, <2>4
  <2> HIDE DEF r
  <2>6. /\ Len(more) = Len(p.replaced) + 1 /\ Len(p.replaced) \in Nat
        /\ more[Len(p.replaced) + 1] = r
        /\ \A j \in 1..Len(p.replaced) : more[j] = p.replaced[j]
    BY <2>3
  <2>7. Len(p.replaced) < MaxRevisions
    BY <2>5, <2>6 DEF MaxRevisions
  <2>8. shown \in Issued(p)
    BY <1>2, <2>7 DEF WasIssued
  <2>9. \A j \in 1..Len(more) : more[j].was \in Issued(q)
    BY <2>5 DEF Issued
  <2>10. CASE shown = p.shows
    <3>1. Len(p.replaced) + 1 \in 1..Len(more)
      BY <2>6
    <3> QED  BY <2>3, <2>6, <2>9, <2>10, <3>1
  <2>11. ASSUME NEW j \in 1..Len(p.replaced), shown = p.replaced[j].was
         PROVE  shown \in Issued(q)
    <3>1. j \in 1..Len(more)
      BY <2>6
    <3> QED  BY <2>6, <2>9, <2>11, <3>1
  <2> QED  BY <2>8, <2>10, <2>11 DEF Issued
<1> QED  BY <1>1, <1>3, <1>4 DEF RowMoves

LEMMA FilesChange ==
  ASSUME [Next]_vars
  PROVE  \/ UNCHANGED files
         \/ \E w \in Issuers : Appends(w)
         \/ \E w \in Writers : DropFiles(w)
         \/ \E r \in Readers : StoreFile(r)
<1>1. ASSUME NEW w \in Editors, UpdateCase(w)
      PROVE  UNCHANGED files
  BY <1>1 DEF UpdateCase, StartEdit, AdmitEdit, RejectEdit, EditDies, SaveCase, Reprice,
     Rollback, PriceSale, BillInvoice, CountEdit
<1>2. ASSUME NEW w \in Writers, RefreshSnapshot(w)
      PROVE  UNCHANGED files \/ DropFiles(w)
  BY <1>2 DEF RefreshSnapshot, ReadSnapshot, WriteSnapshot, FreezeFails
<1>3. ASSUME NEW w \in Scripts, Refreeze(w)
      PROVE  UNCHANGED files
  BY <1>3 DEF Refreeze, StartRefreeze, RereadCase, ScriptCrash
<1>4. ASSUME NEW w \in Issuers, Issue(w)
      PROVE  UNCHANGED files \/ Appends(w)
  BY <1>4 DEF Issue, StartIssue, IssuePolicy, IssueFails, Appends
<1>5. ASSUME NEW r \in Readers, ReadCertificate(r)
      PROVE  UNCHANGED files \/ StoreFile(r)
  BY <1>5 DEF ReadCertificate, Download, LookForFile
<1>6. ASSUME NEW c \in Cashiers, UpdatePaymentStatus(c)
      PROVE  UNCHANGED files
  BY <1>6 DEF UpdatePaymentStatus, StartPayment, UpdatePayment
<1>7. ASSUME NEW a \in Deleters, SoftDelete(a)
      PROVE  UNCHANGED files
  BY <1>7 DEF SoftDelete, StartDelete, Delete
<1>8. ASSUME NEW t \in Trips \ late, Approach(t)
      PROVE  UNCHANGED files
  BY <1>8 DEF Approach
<1>9. ASSUME WebCrash \/ UNCHANGED vars
      PROVE  UNCHANGED files
  BY <1>9 DEF WebCrash, vars
<1> QED  BY <1>1, <1>2, <1>3, <1>4, <1>5, <1>6, <1>7, <1>8, <1>9 DEF Next

(* What a step may do to a file: drop it, or keep the page a download drew. *)
LEMMA FilesMove ==
  ASSUME Shape, [Next]_vars, NEW i \in 1..Len(policies'), NEW l \in Locales
  PROVE  \/ files'[i][l] = NoFile
         \/ /\ i \in 1..Len(policies)
            /\ \/ files'[i][l] = files[i][l]
               \/ \E r \in Readers : /\ read[r].pc # "idle" /\ read[r].sale = i
                                     /\ files'[i][l] = read[r].shows
<1>0. /\ Len(policies) \in Nat
      /\ files \in [1..Len(policies) -> [Locales -> FileType]]
      /\ NoFiles \in [Locales -> FileType] /\ NoFiles[l] = NoFile
  BY RowsMove, StateParts DEF Shape, NoFiles, FileType
<1>1. ASSUME NEW w \in Issuers, Appends(w)
      PROVE  IF i \in 1..Len(policies) THEN files'[i] = files[i] ELSE files'[i] = NoFiles
  <2>1. files \in Seq([Locales -> FileType]) /\ Len(files) = Len(policies)
    BY <1>0
  <2>2. policies \in Seq(Policy) /\ Len(policies') = Len(policies) + 1
    BY <1>1, StateParts DEF Appends, Shape
  <2>3. files' = Append(files, NoFiles)
    BY <1>1 DEF Appends
  <2> QED  BY <1>0, <2>1, <2>2, <2>3
<1>2. CASE i \in 1..Len(policies)
  <2>1. CASE UNCHANGED files
    BY <1>2, <2>1
  <2>2. CASE \E w \in Issuers : Appends(w)
    BY <1>1, <1>2, <2>2
  <2>3. ASSUME NEW w \in Writers, DropFiles(w)
        PROVE  files'[i][l] = NoFile \/ files'[i][l] = files[i][l]
    <3>1. files' = files \/ files' = [files EXCEPT ![edit[w].sale] = NoFiles]
      BY <2>3 DEF DropFiles
    <3> QED  BY <1>0, <1>2, <3>1
  <2>4. ASSUME NEW r \in Readers, StoreFile(r)
        PROVE  \/ files'[i][l] = files[i][l]
               \/ read[r].pc # "idle" /\ read[r].sale = i /\ files'[i][l] = read[r].shows
    <3> DEFINE s == read[r].sale
               row == [files[s] EXCEPT ![read[r].loc] = read[r].shows]
    <3>1. files' = files \/ files' = [files EXCEPT ![s] = row]
      BY <2>4 DEF StoreFile
    <3>2. s \in 1..Len(policies) => row[l] = files[s][l] \/ row[l] = read[r].shows
      BY <1>0
    <3>3. read[r].pc # "idle"
      BY <2>4 DEF StoreFile
    <3> HIDE DEF s, row
    <3>4. files'[i] = files[i] \/ (i = s /\ files'[i] = row)
      BY <1>0, <1>2, <3>1
    <3> QED  BY <1>2, <3>2, <3>3, <3>4 DEF s
  <2> QED  BY <1>2, <2>1, <2>2, <2>3, <2>4, FilesChange
<1>3. CASE i \notin 1..Len(policies)
  <2>1. PICK w \in Issuers : Appends(w)
    BY <1>3, RowsMove DEF Shape
  <2> QED  BY <1>0, <1>1, <1>3, <2>1
<1> QED  BY <1>2, <1>3

LEMMA PageInHandKept ==
  Shape /\ RevisionsInHand /\ PageInHand /\ [Next]_vars => PageInHand'
<1> SUFFICES ASSUME Shape, RevisionsInHand, PageInHand, [Next]_vars, NEW r \in Readers,
                    read'[r].pc # "idle"
             PROVE  StillIssued(read'[r].sale, read'[r].shows)
  BY DEF PageInHand, WasIssued, StillIssued, Issued
<1>0. read \in [Readers -> {Idle} \cup ReadJob]
  BY DEF TypeOK, Shape
<1> DEFINE before == read[r]
           after == read'[r]
<1>1. ASSUME before.pc # "idle", after.sale = before.sale, after.shows = before.shows
      PROVE  StillIssued(after.sale, after.shows)
  <2>1. before.sale \in 1..Len(policies) /\ WasIssued(before.sale, before.shows)
    BY <1>1 DEF PageInHand, Shape, JobsInOrder
  <2>2. StillIssued(before.sale, before.shows)
    BY <2>1, IssuedGrows
  <2> QED  BY <1>1, <2>2
<1>2. CASE after = before
  BY <1>1, <1>2
<1>3. CASE after = Idle
  BY <1>3 DEF Idle
<1>4. ASSUME NEW i \in 1..Len(policies), NEW loc \in Locales, Download(r, i, loc)
      PROVE  StillIssued(after.sale, after.shows)
  <2>1. after.sale = i /\ after.shows = policies[i].shows /\ policies' = policies
    BY <1>0, <1>4 DEF Download
  <2> QED  BY <2>1 DEF StillIssued, Issued
<1>5. CASE LookForFile(r)
  <2>1. before \in ReadJob /\ before.pc # "idle"
    BY <1>5, JobTypes DEF LookForFile, Shape
  <2>2. after = Idle \/ after = [before EXCEPT !.pc = "rendering"]
    BY <1>0, <1>5 DEF LookForFile
  <2>3. after # Idle => after.sale = before.sale /\ after.shows = before.shows
    BY <2>1, <2>2 DEF ReadJob
  <2> QED  BY <1>1, <1>3, <2>1, <2>3
<1>6. CASE StoreFile(r)
  BY <1>0, <1>6 DEF StoreFile, Idle
<1> QED  BY <1>2, <1>3, <1>4, <1>5, <1>6, RequestsMove DEF ReadCertificate, Shape

LEMMA StoredWasIssuedKept ==
  Shape /\ RevisionsInHand /\ PageInHand /\ StoredWasIssued /\ [Next]_vars => StoredWasIssued'
<1> SUFFICES ASSUME Shape, RevisionsInHand, PageInHand, StoredWasIssued, [Next]_vars,
                    NEW i \in 1..Len(policies'), NEW l \in Locales
             PROVE  files'[i][l] = NoFile \/ StillIssued(i, files'[i][l])
  BY DEF StoredWasIssued, StillIssued, Issued
<1>1. ASSUME i \in 1..Len(policies), files'[i][l] = files[i][l]
      PROVE  files'[i][l] = NoFile \/ StillIssued(i, files'[i][l])
  <2>1. files[i][l] = NoFile \/ WasIssued(i, files[i][l])
    BY <1>1 DEF StoredWasIssued, WasIssued
  <2>2. WasIssued(i, files[i][l]) => StillIssued(i, files[i][l])
    BY <1>1, IssuedGrows
  <2> QED  BY <1>1, <2>1, <2>2
<1>2. ASSUME i \in 1..Len(policies), NEW r \in Readers, read[r].pc # "idle",
             read[r].sale = i, files'[i][l] = read[r].shows
      PROVE  StillIssued(i, files'[i][l])
  <2>1. WasIssued(i, read[r].shows)
    BY <1>2 DEF PageInHand
  <2>2. StillIssued(i, read[r].shows)
    BY <1>2, <2>1, IssuedGrows
  <2> QED  BY <1>2, <2>2
<1> QED  BY <1>1, <1>2, FilesMove

(* A PDF on disk is one the insurer issued, whatever downloads, corrections *)
(* and crashes overlap, as long as no two writers were at one case at once. *)
THEOREM StoredIsIssued == Spec => []StoredWasIssued
<1>1. ASSUME Init
      PROVE  OneWriter /\ RevisionsInHand /\ PageInHand
  <2>1. /\ \A w \in Writers : edit[w].pc = "idle"
        /\ \A r \in Readers : read[r].pc = "idle"
    BY <1>1 DEF Init, Idle
  <2> QED  BY <2>1 DEF OneWriter, RevisionsInHand, PageInHand
<1>2. ASSUME Init
      PROVE  StoredWasIssued
  <2>1. \A i \in 1..Len(policies), l \in Locales : files[i][l] = NoFile
    BY <1>2 DEF Init, NoFiles
  <2> QED  BY <2>1 DEF StoredWasIssued
<1> QED
  BY <1>1, <1>2, OneWriterKept, RevisionsInHandKept, PageInHandKept, StoredWasIssuedKept,
     InitShape, NextShape, PTL DEF Spec

-----------------------------------------------------------------------------
(* A correction ends with papers that agree                                *)

(* The certificate and the invoice of a policy are those of the details.    *)
Agrees(p, now) ==
  /\ p.shows = [d |-> now, price |-> p.price]
  /\ p.billed = p.price
  /\ Price[now] # NoPrice

Agreed(c) == Agrees(policies[FirstPolicy(c)], details[c])

(* How far a correction of the policy p, number i, has come: what it has    *)
(* yet to write still says what it found, what it has written says what the *)
(* case now says.                                                           *)
EditStage(job, now, i, p) ==
  /\ job.pc # "loading" => job.sale = i
  /\ job.pc \in {"loading", "writing", "pricing", "rollback"} => Agrees(p, job.old)
  /\ job.pc \in {"loading", "writing"} => now = job.old
  /\ job.pc \in {"selling", "billing", "freezing", "replacing"} =>
       now = job.new /\ job.price = Price[now] /\ Price[now] # NoPrice
  /\ job.pc \in {"billing", "freezing", "replacing"} => p.price = job.price
  /\ job.pc \in {"freezing", "replacing"} => p.billed = job.price
  /\ job.pc \in {"dropping", "counting"} => Agrees(p, now)

(* A re-freeze leaves papers that agreed as they were.                      *)
ScriptStage(job, now, i, p) ==
  /\ Agrees(p, now)
  /\ job.sale = i =>
       /\ job.price = p.price
       /\ job.pc \in {"freezing", "replacing"} => job.new = now

Stage(job, now, i, p) ==
  IF job.role = "script" THEN ScriptStage(job, now, i, p) ELSE EditStage(job, now, i, p)

Story ==
  faults = 0 => \A c \in Insured \ overlapped :
    /\ Corrected(c) \/ Agreed(c)
    /\ \A w \in Writers : edit[w].pc # "idle" /\ edit[w].case = c =>
         Stage(edit[w], details[c], FirstPolicy(c), policies[FirstPolicy(c)])

LEMMA FaultsAreCounted ==
  ASSUME Shape, [Next]_vars, faults' = 0
  PROVE  faults = 0 /\ ~Fault
<1>0. faults \in Nat
  BY DEF Shape, TypeOK
<1>1. Fault => faults' # 0
  BY <1>0 DEF Fault
<1>2. ASSUME NEW w \in Editors, UpdateCase(w)
      PROVE  Fault \/ UNCHANGED faults
  BY <1>2 DEF UpdateCase, StartEdit, AdmitEdit, RejectEdit, EditDies, SaveCase, Reprice,
     Rollback, PriceSale, BillInvoice, CountEdit, NoFault
<1>3. ASSUME NEW w \in Writers, RefreshSnapshot(w)
      PROVE  Fault \/ UNCHANGED faults
  BY <1>3 DEF RefreshSnapshot, ReadSnapshot, WriteSnapshot, FreezeFails, DropFiles, NoFault
<1>4. ASSUME NEW w \in Scripts, Refreeze(w)
      PROVE  Fault \/ UNCHANGED faults
  BY <1>4 DEF Refreeze, StartRefreeze, RereadCase, ScriptCrash
<1>5. ASSUME NEW w \in Issuers, Issue(w)
      PROVE  Fault \/ UNCHANGED faults
  BY <1>5 DEF Issue, StartIssue, IssuePolicy, IssueFails
<1>6. ASSUME NEW r \in Readers, ReadCertificate(r)
      PROVE  Fault \/ UNCHANGED faults
  BY <1>6 DEF ReadCertificate, Download, LookForFile, StoreFile, NoFault
<1>7. ASSUME NEW c \in Cashiers, UpdatePaymentStatus(c)
      PROVE  UNCHANGED faults
  BY <1>7 DEF UpdatePaymentStatus, StartPayment, UpdatePayment
<1>8. ASSUME NEW a \in Deleters, SoftDelete(a)
      PROVE  UNCHANGED faults
  BY <1>8 DEF SoftDelete, StartDelete, Delete
<1>9. ASSUME NEW t \in Trips \ late, Approach(t)
      PROVE  UNCHANGED faults
  BY <1>9 DEF Approach
<1>10. ASSUME WebCrash \/ UNCHANGED vars
       PROVE  Fault \/ UNCHANGED faults
  BY <1>10 DEF WebCrash, vars
<1> QED
  BY <1>1, <1>2, <1>3, <1>4, <1>5, <1>6, <1>7, <1>8, <1>9, <1>10 DEF Next

(* Nothing the story of a case tells has changed.                           *)
Same(c) ==
  LET p == policies[FirstPolicy(c)]
      q == policies'[FirstPolicy(c)'] IN
  /\ details'[c] = details[c] /\ FirstPolicy(c)' = FirstPolicy(c)
  /\ q.shows = p.shows /\ q.price = p.price /\ q.billed = p.billed

LEMMA FirstRow ==
  ASSUME Shape, NEW c \in Insured
  PROVE  /\ FirstPolicy(c) \in 1..Len(policies) /\ FirstPolicy(c) # 0
         /\ policies[FirstPolicy(c)] \in Policy /\ policies[FirstPolicy(c)].case = c
         /\ [Next]_vars => FirstPolicy(c)' = FirstPolicy(c)
<1>1. c \in Cases /\ PoliciesOf(c) # {}
  BY DEF Shape, StaysInsured
<1>2. FirstPolicy(c) \in PoliciesOf(c)
  BY <1>1, FirstPolicyIs DEF Shape
<1>3. FirstPolicy(c) \in 1..Len(policies) /\ policies[FirstPolicy(c)].case = c
  BY <1>2 DEF PoliciesOf
<1>4. policies[FirstPolicy(c)] \in Policy
  BY <1>3, JobSales DEF Shape
<1>5. [Next]_vars => FirstPolicy(c)' = FirstPolicy(c)
  BY <1>1, FirstStaysFirst DEF Shape
<1> QED  BY <1>3, <1>4, <1>5

(* Without a step of a writer, a case stays as it is.                       *)
LEMMA OthersLeave ==
  ASSUME Shape, [Next]_vars, ~Fault, \A w \in Writers : ~OwnStep(w)
  PROVE  UNCHANGED edit /\ \A c \in Insured : Same(c)
<1>1. ~\E w \in Editors : UpdateCase(w)
  BY DEF OwnStep, Writers
<1>2. ~\E w \in Writers : RefreshSnapshot(w)
  BY DEF OwnStep
<1>3. ~\E w \in Scripts : Refreeze(w)
  BY DEF OwnStep, Writers
<1>4. ASSUME NEW w \in Issuers, Issue(w)
      PROVE  UNCHANGED <<edit, details>>
  BY <1>4 DEF Issue, StartIssue, IssuePolicy, IssueFails
<1>5. ASSUME NEW r \in Readers, ReadCertificate(r)
      PROVE  UNCHANGED <<edit, details>>
  BY <1>5 DEF ReadCertificate, Download, LookForFile, StoreFile
<1>6. ASSUME NEW c \in Cashiers, UpdatePaymentStatus(c)
      PROVE  UNCHANGED <<edit, details>>
  BY <1>6 DEF UpdatePaymentStatus, StartPayment, UpdatePayment
<1>7. ASSUME NEW a \in Deleters, SoftDelete(a)
      PROVE  UNCHANGED <<edit, details>>
  BY <1>7 DEF SoftDelete, StartDelete, Delete
<1>8. ASSUME NEW t \in Trips \ late, Approach(t)
      PROVE  UNCHANGED <<edit, details>>
  BY <1>8 DEF Approach
<1>9. ~WebCrash
  BY DEF WebCrash
<1>10. UNCHANGED vars => UNCHANGED <<edit, details>>
  BY DEF vars
<1>11. UNCHANGED <<edit, details>>
  BY <1>1, <1>2, <1>3, <1>4, <1>5, <1>6, <1>7, <1>8, <1>9, <1>10 DEF Next
<1>12. ASSUME NEW c \in Insured
       PROVE  Same(c)
  <2>1. ~\E w \in Editors : PriceSale(w) \/ BillInvoice(w)
    BY <1>1 DEF UpdateCase
  <2>2. ~\E w \in Writers : WriteSnapshot(w)
    BY <1>2 DEF RefreshSnapshot
  <2>3. RowMoves(FirstPolicy(c)) /\ FirstPolicy(c)' = FirstPolicy(c)
    BY FirstRow, RowsMove DEF Shape
  <2> QED  BY <1>11, <2>1, <2>2, <2>3 DEF RowMoves, Same
<1> QED  BY <1>11, <1>12

(* The step of a writer leaves every other case as it is.                   *)
LEMMA OtherCasesStay ==
  ASSUME Shape, [Next]_vars, NEW w \in Writers, OwnStep(w), NEW c \in Insured,
         edit[w].pc = "idle" \/ edit[w].case # c
  PROVE  Same(c)
<1>0. edit \in [Writers -> {Idle} \cup EditJob] /\ details \in [Cases -> Details]
  BY DEF Shape, TypeOK
<1>1. details'[c] = details[c]
  <2>1. CASE SaveCase(w)
    BY <1>0, <2>1 DEF SaveCase
  <2>2. CASE Rollback(w)
    <3>1. edit[w].case # c
      BY <2>2 DEF Rollback
    <3>2. details' = details \/ details' = [details EXCEPT ![edit[w].case] = edit[w].old]
      BY <2>2 DEF Rollback
    <3> QED  BY <1>0, <3>1, <3>2
  <2>3. CASE UpdateCase(w) /\ ~SaveCase(w) /\ ~Rollback(w)
    BY <2>3 DEF UpdateCase, StartEdit, AdmitEdit, RejectEdit, EditDies, Reprice, PriceSale,
       BillInvoice, CountEdit
  <2>4. CASE RefreshSnapshot(w)
    BY <2>4 DEF RefreshSnapshot, ReadSnapshot, WriteSnapshot, FreezeFails, DropFiles
  <2>5. CASE Refreeze(w)
    BY <2>5 DEF Refreeze, StartRefreeze, RereadCase, ScriptCrash
  <2> QED  BY <2>1, <2>2, <2>3, <2>4, <2>5 DEF OwnStep
<1>2. ASSUME NEW v \in Writers, edit[v].sale = FirstPolicy(c), edit'[v] # edit[v],
             edit[v].pc \in {"selling", "billing", "replacing"}
      PROVE  FALSE
  <2>1. v = w
    BY <1>2, OwnStepOnly DEF Shape
  <2>2. WriterInOrder(w)
    BY <1>2, <2>1 DEF Shape, JobsInOrder
  <2>3. edit[w].case = c
    BY <1>2, <2>1, <2>2, FirstRow DEF WriterInOrder
  <2> QED  BY <1>2, <2>1, <2>3
<1>3. ASSUME NEW v \in Writers, PriceSale(v) \/ BillInvoice(v) \/ WriteSnapshot(v)
      PROVE  edit'[v] # edit[v] /\ edit[v].pc \in {"selling", "billing", "replacing"}
  <2>1. edit[v].pc \in {"selling", "billing", "replacing"}
    BY <1>3 DEF PriceSale, BillInvoice, WriteSnapshot
  <2>2. edit[v] \in EditJob
    BY <2>1, JobTypes DEF Shape
  <2>3. \/ edit'[v] = [edit[v] EXCEPT !.pc = "billing"] /\ edit[v].pc = "selling"
        \/ edit'[v] = [edit[v] EXCEPT !.pc = "freezing"] /\ edit[v].pc = "billing"
        \/ edit'[v] = [edit[v] EXCEPT !.pc = "dropping"] /\ edit[v].pc = "replacing"
    BY <1>0, <1>3 DEF PriceSale, BillInvoice, WriteSnapshot
  <2>4. \A pc : [edit[v] EXCEPT !.pc = pc].pc = pc
    BY <2>2 DEF EditJob
  <2> QED  BY <2>1, <2>3, <2>4
<1>4. Editors \subseteq Writers
  BY DEF Writers
<1>5. RowMoves(FirstPolicy(c)) /\ FirstPolicy(c)' = FirstPolicy(c)
  BY FirstRow, RowsMove DEF Shape
<1> QED  BY <1>1, <1>2, <1>3, <1>4, <1>5 DEF RowMoves, Same

LEMMA SameStory ==
  ASSUME NEW c \in Insured, Same(c)
  PROVE  /\ Agreed(c) => Agreed(c)'
         /\ \A job : Stage(job, details[c], FirstPolicy(c), policies[FirstPolicy(c)]) =>
              Stage(job, details'[c], FirstPolicy(c)', policies'[FirstPolicy(c)'])
<1> DEFINE p == policies[FirstPolicy(c)]
           q == policies'[FirstPolicy(c)']
<1>1. /\ details'[c] = details[c] /\ FirstPolicy(c)' = FirstPolicy(c)
      /\ q.shows = p.shows /\ q.price = p.price /\ q.billed = p.billed
  BY DEF Same
<1> HIDE DEF p, q
<1>2. \A d : Agrees(p, d) = Agrees(q, d)
  BY <1>1 DEF Agrees
<1>3. \A job : Stage(job, details[c], FirstPolicy(c), p) =>
                 Stage(job, details'[c], FirstPolicy(c)', q)
  BY <1>1, <1>2 DEF Stage, EditStage, ScriptStage
<1>4. Agreed(c) => Agreed(c)'
  BY <1>1, <1>2 DEF Agreed, Agrees, p, q
<1> QED  BY <1>3, <1>4 DEF p, q

(* What a correction's own step makes of its story.                         *)
LEMMA OwnStory ==
  ASSUME Shape, [Next]_vars, ~Fault, NEW w \in Writers, OwnStep(w), edit[w].pc # "idle",
         NEW c \in Insured, edit[w].case = c,
         Stage(edit[w], details[c], FirstPolicy(c), policies[FirstPolicy(c)])
  PROVE  IF edit'[w].pc = "idle"
         THEN Agreed(c)'
         ELSE Stage(edit'[w], details'[c], FirstPolicy(c)', policies'[FirstPolicy(c)'])
<1> DEFINE job == edit[w]
           after == edit'[w]
           now == details[c]
           first == FirstPolicy(c)
           p == policies[first]
           q == policies'[first]
<1>0. /\ job \in EditJob /\ WriterInOrder(w) /\ w \in Editors \cup Scripts
      /\ edit \in [Writers -> {Idle} \cup EditJob] /\ details \in [Cases -> Details]
      /\ policies \in Seq(Policy) /\ Editors \cap Scripts = {} /\ Idle.pc = "idle"
      /\ c \in Cases
  BY JobTypes DEF Shape, TypeOK, JobsInOrder, Writers, Idle
<1>1. /\ first \in 1..Len(policies) /\ first # 0 /\ p \in Policy
      /\ FirstPolicy(c)' = first
  BY FirstRow
<1>2. SUFFICES IF after.pc = "idle" THEN Agrees(q, details'[c])
               ELSE Stage(after, details'[c], first, q)
  BY <1>1 DEF Agreed, Agrees
<1>3. ASSUME w \in Editors
      PROVE  EditStage(job, now, first, p)
  BY <1>0, <1>3 DEF Stage, WriterInOrder
<1>4. ASSUME w \in Scripts
      PROVE  ScriptStage(job, now, first, p)
  BY <1>0, <1>4 DEF Stage, WriterInOrder
<1>5. after = Idle \/ Continues(w)
  <2>1. ~\E a \in Cases, role \in {"operator", "admin"} : StartEdit(w, a, role)
    BY DEF StartEdit
  <2>2. ~\E i \in 1..Len(policies) : StartRefreeze(w, i)
    BY DEF StartRefreeze
  <2> QED  BY <2>1, <2>2, WriterSteps DEF Shape
<1>6. /\ UNCHANGED policies => q = p
      /\ UNCHANGED details => details'[c] = now
  OBVIOUS
<1>7. CASE after = Idle
  <2> SUFFICES Agrees(q, details'[c])
    BY <1>0, <1>7
  <2>1. CASE w \in Editors /\ RejectEdit(w)
    BY <1>3, <1>6, <2>1 DEF RejectEdit, EditStage
  <2>2. CASE w \in Editors /\ Rollback(w)
    <3>1. Agrees(p, job.old)
      BY <1>3, <2>2 DEF Rollback, EditStage
    <3>2. details' = [details EXCEPT ![c] = job.old] /\ UNCHANGED policies
      BY <2>2 DEF Rollback
    <3> QED  BY <1>0, <1>6, <3>1, <3>2
  <2>3. CASE w \in Editors /\ CountEdit(w)
    <3>1. Agrees(p, now) /\ UNCHANGED details
      BY <1>3, <2>3 DEF CountEdit, EditStage
    <3>2. job.sale = first
      BY <1>3, <2>3 DEF CountEdit, EditStage
    <3>3. policies' = policies \/ policies' = [policies EXCEPT ![first] = [p EXCEPT !.count = @ + 1]]
      BY <2>3, <3>2 DEF CountEdit
    <3>4. q.shows = p.shows /\ q.price = p.price /\ q.billed = p.billed
      <4> DEFINE r == [p EXCEPT !.count = @ + 1]
      <4>1. r.shows = p.shows /\ r.price = p.price /\ r.billed = p.billed
        BY <1>1 DEF Policy
      <4>2. q = p \/ q = r
        <5> HIDE DEF r, first
        <5> QED  BY <1>0, <1>1, <3>3 DEF r
      <4> HIDE DEF r, q, p
      <4> QED  BY <4>1, <4>2
    <3> QED  BY <1>6, <3>1, <3>4 DEF Agrees
  <2>4. CASE DropFiles(w)
    <3>1. Agrees(p, now)
      BY <1>0, <1>3, <1>4, <2>4 DEF DropFiles, EditStage, ScriptStage
    <3> QED  BY <1>6, <2>4, <3>1 DEF DropFiles
  <2>5. ~(w \in Editors /\ SaveCase(w))
    <3> SUFFICES ASSUME w \in Editors, SaveCase(w)
                 PROVE  FALSE
      OBVIOUS
    <3>1. job.sale # 0
      BY <1>1, <1>3 DEF SaveCase, EditStage
    <3>2. after = [job EXCEPT !.pc = "pricing"]
      BY <1>0, <3>1 DEF SaveCase
    <3>3. after.pc = "pricing"
      BY <1>0, <3>2 DEF EditJob
    <3> QED  BY <1>0, <1>7, <3>3
  <2>7. \A a \in Cases, role \in {"operator", "admin"} : ~StartEdit(w, a, role)
    BY DEF StartEdit
  <2>8. \A i \in 1..Len(policies) : ~StartRefreeze(w, i)
    BY DEF StartRefreeze
  <2>9. ~EditDies(w) /\ ~FreezeFails(w) /\ ~ScriptCrash(w)
    BY DEF EditDies, FreezeFails, ScriptCrash
  <2>10. after.pc = "idle"
    BY <1>0, <1>7
  <2>11. \A pc \in {"pricing", "writing", "rollback", "selling", "billing", "freezing",
                     "replacing", "dropping"} : [job EXCEPT !.pc = pc].pc = pc
    BY <1>0 DEF EditJob
  <2>12. /\ ~(\E d \in Details : AdmitEdit(w, d)) /\ ~Reprice(w) /\ ~RereadCase(w)
         /\ ~ReadSnapshot(w)
    <3>1. /\ \A i, d : [job EXCEPT !.pc = "writing", !.sale = i, !.new = d].pc = "writing"
          /\ \A d, n : [job EXCEPT !.pc = "selling", !.new = d, !.price = n].pc = "selling"
          /\ \A d : [job EXCEPT !.pc = "freezing", !.new = d].pc = "freezing"
          /\ \A s : [job EXCEPT !.pc = "replacing", !.revisions = s].pc = "replacing"
      BY <1>0 DEF EditJob
    <3>2. ASSUME NEW d \in Details, AdmitEdit(w, d)
          PROVE  FALSE
      <4>1. after = [job EXCEPT !.pc = "writing", !.sale = FirstPolicy(job.case), !.new = d]
        BY <1>0, <3>2 DEF AdmitEdit
      <4>2. after.pc = "writing"
        BY <3>1, <4>1
      <4> QED  BY <2>10, <4>2
    <3>3. ~Reprice(w)
      <4> SUFFICES ASSUME Reprice(w) PROVE FALSE
        OBVIOUS
      <4>1. \/ after = [job EXCEPT !.pc = "rollback"]
            \/ after = [job EXCEPT !.pc = "selling", !.new = now, !.price = Price[now]]
        BY <1>0 DEF Reprice
      <4>2. /\ [job EXCEPT !.pc = "rollback"].pc = "rollback"
            /\ [job EXCEPT !.pc = "selling", !.new = now, !.price = Price[now]].pc = "selling"
        BY <1>0 DEF EditJob
      <4>3. after.pc = "rollback" \/ after.pc = "selling"
        BY <4>1, <4>2, Zenon
      <4> QED  BY <2>10, <4>3
    <3>4. ~RereadCase(w)
      <4> SUFFICES ASSUME RereadCase(w) PROVE FALSE
        OBVIOUS
      <4>1. after = [job EXCEPT !.pc = "freezing", !.new = now]
        BY <1>0 DEF RereadCase
      <4>2. after.pc = "freezing"
        BY <3>1, <4>1
      <4> QED  BY <2>10, <4>2
    <3>5. ~ReadSnapshot(w)
      <4> SUFFICES ASSUME ReadSnapshot(w) PROVE FALSE
        OBVIOUS
      <4>1. PICK s : after = [job EXCEPT !.pc = "replacing", !.revisions = s]
        BY <1>0 DEF ReadSnapshot
      <4>2. after.pc = "replacing"
        BY <3>1, <4>1
      <4> QED  BY <2>10, <4>2
    <3> QED  BY <3>2, <3>3, <3>4, <3>5
  <2>13. ~PriceSale(w) /\ ~BillInvoice(w) /\ ~WriteSnapshot(w)
    BY <1>0, <2>10, <2>11 DEF PriceSale, BillInvoice, WriteSnapshot
  <2> QED
    BY <2>1, <2>2, <2>3, <2>4, <2>5, <2>7, <2>8, <2>9, <2>12, <2>13
       DEF OwnStep, UpdateCase, RefreshSnapshot, Refreeze
<1>8. CASE Continues(w)
  <2>0. /\ after.role = job.role /\ after.old = job.old /\ after.pc # "idle"
        /\ w \in Editors => after.role # "script"
        /\ w \in Scripts => after.role = "script"
    BY <1>0, <1>8 DEF Continues, WriterInOrder
  <2> SUFFICES Stage(after, details'[c], first, q)
    BY <2>0
  <2>1. w \in Editors => (EditStage(after, details'[c], first, q) =>
                            Stage(after, details'[c], first, q))
    BY <2>0 DEF Stage
  <2>2. w \in Scripts => (ScriptStage(after, details'[c], first, q) =>
                            Stage(after, details'[c], first, q))
    BY <2>0 DEF Stage
  <2>3. ASSUME NEW d \in Details, w \in Editors, AdmitEdit(w, d), after.pc = "writing",
               after.sale = FirstPolicy(job.case)
        PROVE  EditStage(after, details'[c], first, q)
    <3>1. Agrees(p, job.old) /\ now = job.old
      BY <1>3, <2>3 DEF AdmitEdit, EditStage
    <3>2. q = p /\ details'[c] = now
      BY <1>6, <2>3 DEF AdmitEdit
    <3> QED  BY <2>0, <2>3, <3>1, <3>2 DEF EditStage
  <2>4. ASSUME w \in Editors, Reprice(w), after.pc = "selling", after.sale = job.sale,
               after.new = details[job.case], after.price = Price[after.new],
               after.price # NoPrice
        PROVE  EditStage(after, details'[c], first, q)
    <3>1. job.sale = first
      BY <1>3, <2>4 DEF Reprice, EditStage
    <3>2. q = p /\ details'[c] = now
      BY <1>6, <2>4 DEF Reprice
    <3> QED  BY <2>4, <3>1, <3>2 DEF EditStage
  <2>5. ASSUME w \in Editors, Reprice(w), after.pc = "rollback", after.sale = job.sale
        PROVE  EditStage(after, details'[c], first, q)
    <3>1. Agrees(p, job.old) /\ job.sale = first
      BY <1>3, <2>5 DEF Reprice, EditStage
    <3>2. q = p /\ details'[c] = now
      BY <1>6, <2>5 DEF Reprice
    <3> QED  BY <2>0, <2>5, <3>1, <3>2 DEF EditStage
  <2>6. ASSUME w \in Scripts, RereadCase(w), after.pc = "freezing", after.sale = job.sale,
               after.price = job.price, after.new = details[job.case]
        PROVE  ScriptStage(after, details'[c], first, q)
    <3>1. q = p /\ details'[c] = now
      BY <1>6, <2>6 DEF RereadCase
    <3> QED  BY <1>4, <2>6, <3>1 DEF ScriptStage
  <2>7. ASSUME w \in Editors, SaveCase(w), after.pc = "pricing", after.sale = job.sale
        PROVE  EditStage(after, details'[c], first, q)
    <3>1. Agrees(p, job.old) /\ job.sale = first
      BY <1>3, <2>7 DEF SaveCase, EditStage
    <3>2. q = p
      BY <1>6, <2>7 DEF SaveCase
    <3> QED  BY <2>0, <2>7, <3>1, <3>2 DEF EditStage
  <2>8. ASSUME w \in Editors, PriceSale(w), after.pc = "billing", after.sale = job.sale,
               after.new = job.new, after.price = job.price
        PROVE  EditStage(after, details'[c], first, q)
    <3>1. now = job.new /\ job.price = Price[now] /\ Price[now] # NoPrice /\ job.sale = first
      BY <1>3, <2>8 DEF PriceSale, EditStage
    <3> DEFINE r == [p EXCEPT !.price = job.price]
    <3>2. policies' = [policies EXCEPT ![first] = r] /\ details'[c] = now
      BY <1>6, <2>8, <3>1 DEF PriceSale
    <3>3. r.price = job.price
      BY <1>1 DEF Policy
    <3>4. q = r
      <4> HIDE DEF r, first
      <4> QED  BY <1>0, <1>1, <3>2
    <3> HIDE DEF r, q
    <3> QED  BY <2>8, <3>1, <3>2, <3>3, <3>4 DEF EditStage
  <2>9. ASSUME w \in Editors, BillInvoice(w), after.pc = "freezing", after.sale = job.sale,
               after.new = job.new, after.price = job.price
        PROVE  EditStage(after, details'[c], first, q)
    <3>1. /\ now = job.new /\ job.price = Price[now] /\ Price[now] # NoPrice /\ job.sale = first
          /\ p.price = job.price
      BY <1>3, <2>9 DEF BillInvoice, EditStage
    <3> DEFINE r == [p EXCEPT !.billed = job.price]
    <3>2. policies' = [policies EXCEPT ![first] = r] /\ details'[c] = now
      BY <1>6, <2>9, <3>1 DEF BillInvoice
    <3>3. r.price = p.price /\ r.billed = job.price
      BY <1>1 DEF Policy
    <3>4. q = r
      <4> HIDE DEF r, first
      <4> QED  BY <1>0, <1>1, <3>2
    <3> HIDE DEF r, q, p
    <3> QED  BY <2>9, <3>1, <3>2, <3>3, <3>4 DEF EditStage
  <2>10. ASSUME ReadSnapshot(w), after.pc = "replacing", after.sale = job.sale,
                after.new = job.new, after.price = job.price
         PROVE  Stage(after, details'[c], first, q)
    <3>1. q = p /\ details'[c] = now /\ job.pc = "freezing"
      BY <1>6, <2>10 DEF ReadSnapshot
    <3>2. w \in Editors => EditStage(after, details'[c], first, q)
      BY <1>3, <2>10, <3>1 DEF EditStage
    <3>3. w \in Scripts => ScriptStage(after, details'[c], first, q)
      BY <1>4, <2>10, <3>1 DEF ScriptStage
    <3> QED  BY <1>0, <2>1, <2>2, <3>2, <3>3
  <2>11. ASSUME WriteSnapshot(w), after.pc = "dropping", after.sale = job.sale
         PROVE  Stage(after, details'[c], first, q)
    <3> DEFINE r == [p EXCEPT !.shows = [d |-> job.new, price |-> job.price],
                              !.replaced = job.revisions]
    <3>1. /\ policies' = [policies EXCEPT ![job.sale] =
                [policies[job.sale] EXCEPT !.shows = [d |-> job.new, price |-> job.price],
                                           !.replaced = job.revisions]]
          /\ details'[c] = now /\ job.pc = "replacing"
      BY <1>6, <2>11 DEF WriteSnapshot
    <3>2. r.shows = [d |-> job.new, price |-> job.price] /\ r.price = p.price /\ r.billed = p.billed
      BY <1>1 DEF Policy
    <3>3. job.sale = first => q = r
      <4>1. job.sale = first => policies' = [policies EXCEPT ![first] = r]
        BY <3>1
      <4> HIDE DEF r, first
      <4> QED  BY <1>0, <1>1, <4>1
    <3>4. job.sale # first => q = p
      <4> HIDE DEF first
      <4> QED  BY <1>0, <1>1, <3>1
    <3>5. ASSUME w \in Editors
          PROVE  EditStage(after, details'[c], first, q)
      <4>1. /\ now = job.new /\ job.price = Price[now] /\ Price[now] # NoPrice
            /\ job.sale = first /\ p.price = job.price /\ p.billed = job.price
        BY <1>3, <3>1, <3>5 DEF EditStage
      <4>2. Agrees(q, now)
        <5> HIDE DEF r, q, p
        <5> QED  BY <3>2, <3>3, <4>1 DEF Agrees
      <4> QED  BY <2>11, <3>1, <4>1, <4>2 DEF EditStage
    <3>6. ASSUME w \in Scripts
          PROVE  ScriptStage(after, details'[c], first, q)
      <4>1. /\ Agrees(p, now)
            /\ job.sale = first => job.price = p.price /\ job.new = now
        BY <1>4, <3>1, <3>6 DEF ScriptStage
      <4>2. after.price = job.price
        BY <1>0, <1>8, <2>11 DEF Continues, WriteSnapshot, Reprice, RereadCase, AdmitEdit
      <4>3. Agrees(q, now) /\ (job.sale = first => job.price = q.price)
        <5> HIDE DEF r, q, p
        <5> QED  BY <3>2, <3>3, <3>4, <4>1 DEF Agrees
      <4> QED  BY <2>11, <3>1, <4>2, <4>3 DEF ScriptStage
    <3> QED  BY <1>0, <2>1, <2>2, <3>5, <3>6
  <2>12. ASSUME DropFiles(w), after.pc = "counting", after.sale = job.sale
         PROVE  Stage(after, details'[c], first, q)
    <3>1. q = p /\ details'[c] = now /\ job.pc = "dropping"
      BY <1>6, <2>12 DEF DropFiles
    <3>2. w \in Editors
      BY <1>0, <2>0, <1>8, <2>12 DEF WriterInOrder, DropFiles, AfterFreeze
    <3>3. Agrees(p, now) /\ job.sale = first
      BY <1>3, <3>1, <3>2 DEF EditStage
    <3> QED  BY <2>1, <2>12, <3>1, <3>2, <3>3 DEF EditStage
  <2>13. ~FreezeFails(w)
    BY DEF FreezeFails
  <2> QED
    BY <1>8, <2>1, <2>2, <2>3, <2>4, <2>5, <2>6, <2>7, <2>8, <2>9, <2>10, <2>11, <2>12, <2>13
       DEF Continues
<1> QED  BY <1>5, <1>7, <1>8

(* What a job that starts makes of a case that was free.                    *)
LEMMA NewStory ==
  ASSUME Shape, [Next]_vars, NEW w \in Writers, OwnStep(w), edit[w].pc = "idle",
         edit'[w].pc # "idle", NEW c \in Insured, edit'[w].case = c, Agreed(c)
  PROVE  Stage(edit'[w], details'[c], FirstPolicy(c)', policies'[FirstPolicy(c)'])
<1> DEFINE after == edit'[w]
           first == FirstPolicy(c)
           p == policies[first]
<1>0. /\ edit \in [Writers -> {Idle} \cup EditJob]
      /\ FirstPolicy(c)' = first /\ Agrees(p, details[c])
  BY FirstRow DEF Shape, TypeOK, Agreed
<1>1. ASSUME NEW a \in Cases, NEW role \in {"operator", "admin"}, StartEdit(w, a, role)
      PROVE  Stage(after, details'[c], first, policies'[first])
  <2>1. /\ after.pc = "loading" /\ after.role = role /\ after.case = a /\ after.old = details[a]
        /\ UNCHANGED <<details, policies>>
    BY <1>0, <1>1 DEF StartEdit
  <2>2. EditStage(after, details[c], first, p)
    BY <1>0, <2>1 DEF EditStage
  <2> QED  BY <2>1, <2>2 DEF Stage
<1>2. ASSUME NEW i \in 1..Len(policies), StartRefreeze(w, i)
      PROVE  Stage(after, details'[c], first, policies'[first])
  <2>1. /\ after.pc = "pricing" /\ after.role = "script" /\ after.sale = i
        /\ after.price = policies[i].price
        /\ UNCHANGED <<details, policies>>
    BY <1>0, <1>2 DEF StartRefreeze
  <2>2. ScriptStage(after, details[c], first, p)
    BY <1>0, <2>1 DEF ScriptStage
  <2> QED  BY <2>1, <2>2 DEF Stage
<1>3. ~Continues(w)
  BY DEF Continues, EditJob
<1> QED  BY <1>0, <1>1, <1>2, <1>3, WriterSteps DEF Shape, Idle

LEMMA StoryKept == Shape /\ OneWriter /\ Story /\ [Next]_vars => Story'
<1> SUFFICES ASSUME Shape, OneWriter, Story, [Next]_vars, faults' = 0,
                    NEW c \in Insured, c \notin overlapped'
             PROVE  /\ (\E w \in Writers : edit'[w].pc # "idle" /\ edit'[w].case = c)
                         \/ Agreed(c)'
                    /\ \A w \in Writers : edit'[w].pc # "idle" /\ edit'[w].case = c =>
                         Stage(edit'[w], details'[c], FirstPolicy(c)', policies'[FirstPolicy(c)'])
  BY DEF Story, Corrected
<1>0. /\ c \notin overlapped /\ ~Fault
      /\ Corrected(c) \/ Agreed(c)
      /\ \A w \in Writers : edit[w].pc # "idle" /\ edit[w].case = c =>
           Stage(edit[w], details[c], FirstPolicy(c), policies[FirstPolicy(c)])
  BY FaultsAreCounted, OverlapGrows DEF Story
<1>1. OneWriter'
  BY OneWriterKept
<1>2. CASE \A w \in Writers : ~OwnStep(w)
  <2>1. UNCHANGED edit /\ Same(c)
    BY <1>0, <1>2, OthersLeave
  <2>2. Agreed(c) => Agreed(c)'
    BY <2>1, SameStory
  <2>3. \A w \in Writers : edit[w].pc # "idle" /\ edit[w].case = c =>
          Stage(edit[w], details'[c], FirstPolicy(c)', policies'[FirstPolicy(c)'])
    BY <1>0, <2>1, SameStory
  <2> QED  BY <1>0, <2>1, <2>2, <2>3 DEF Corrected
<1>3. ASSUME NEW w \in Writers, OwnStep(w)
      PROVE  /\ (\E v \in Writers : edit'[v].pc # "idle" /\ edit'[v].case = c) \/ Agreed(c)'
             /\ \A v \in Writers : edit'[v].pc # "idle" /\ edit'[v].case = c =>
                  Stage(edit'[v], details'[c], FirstPolicy(c)', policies'[FirstPolicy(c)'])
  <2>0. \A v \in Writers \ {w} : edit'[v] = edit[v]
    BY <1>3, OwnStepOnly DEF Shape
  <2>1. CASE edit[w].pc # "idle" /\ edit[w].case = c
    <3>1. Stage(edit[w], details[c], FirstPolicy(c), policies[FirstPolicy(c)])
      BY <1>0, <2>1
    <3>2. IF edit'[w].pc = "idle"
          THEN Agreed(c)'
          ELSE Stage(edit'[w], details'[c], FirstPolicy(c)', policies'[FirstPolicy(c)'])
      BY <1>0, <1>3, <2>1, <3>1, OwnStory
    <3>3. edit'[w].pc # "idle" => edit'[w].case = c
      BY <1>3, <2>1, WriterSteps DEF Shape, Idle, StartEdit, StartRefreeze, Continues
    <3>4. \A v \in Writers : edit'[v].pc # "idle" /\ edit'[v].case = c => v = w
      BY <1>0, <2>0, <2>1 DEF OneWriter
    <3> QED  BY <3>2, <3>3, <3>4
  <2>2. CASE edit[w].pc = "idle" \/ edit[w].case # c
    <3>1. Same(c)
      BY <1>3, <2>2, OtherCasesStay
    <3>2. /\ Agreed(c) => Agreed(c)'
          /\ \A v \in Writers \ {w} : edit'[v].pc # "idle" /\ edit'[v].case = c =>
               Stage(edit'[v], details'[c], FirstPolicy(c)', policies'[FirstPolicy(c)'])
      BY <1>0, <2>0, <3>1, SameStory
    <3>3. Corrected(c) => \E v \in Writers : edit'[v].pc # "idle" /\ edit'[v].case = c
      BY <2>0, <2>2 DEF Corrected
    <3>4. CASE edit'[w].pc # "idle" /\ edit'[w].case = c
      <4>1. edit[w].pc = "idle"
        BY <1>3, <2>2, <3>4, WriterSteps DEF Shape, Idle, StartEdit, StartRefreeze, Continues
      <4>2. ~Corrected(c)
        <5> SUFFICES ASSUME NEW v \in Writers, edit[v].pc # "idle", edit[v].case = c
                     PROVE  FALSE
          BY DEF Corrected
        <5>1. v # w /\ edit'[v] = edit[v]
          BY <2>0, <4>1
        <5> QED  BY <1>1, <3>4, <5>1 DEF OneWriter
      <4>3. Stage(edit'[w], details'[c], FirstPolicy(c)', policies'[FirstPolicy(c)'])
        BY <1>0, <1>3, <3>4, <4>1, <4>2, NewStory
      <4> QED  BY <3>2, <3>4, <4>3
    <3> QED  BY <1>0, <3>2, <3>3, <3>4
  <2> QED  BY <2>1, <2>2
<1> QED  BY <1>2, <1>3

(* With nothing failing, a case that one writer at a time works on is left  *)
(* with a sale, an invoice and a certificate that say what it says, and     *)
(* with a price, by every correction, be it turned down half way.           *)
THEOREM PapersStayTrue == Spec => []CorrectionCompletes
<1>1. ASSUME Init
      PROVE  OneWriter /\ Story
  <2>1. \A w \in Writers : edit[w].pc = "idle"
    BY <1>1 DEF Init, Idle
  <2>2. ASSUME NEW c \in Insured
        PROVE  Agreed(c)
    <3>1. FirstPolicy(c) \in 1..Len(policies) /\ policies[FirstPolicy(c)].case = c
      BY <1>1, InitShape, FirstRow
    <3>2. Price[details[c]] # NoPrice
      BY <1>1 DEF Init
    <3> QED  BY <1>1, <3>1, <3>2, InitRevisions DEF Agreed, Agrees
  <2> QED  BY <2>1, <2>2 DEF OneWriter, Story
<1>2. Story => CorrectionCompletes
  BY DEF Story, CorrectionCompletes, Agreed, Agrees, PapersAgree, Priced
<1> QED  BY <1>1, <1>2, OneWriterKept, StoryKept, InitShape, NextShape, PTL DEF Spec
=============================================================================
