------------------------------- MODULE Policies -------------------------------
(***************************************************************************)
(* Policies after the sale: a case (traveller and trip), the policies sold *)
(* on it, each with its sale, invoice and certificate rows, the frozen     *)
(* snapshot the certificate prints, and the rendered PDFs kept on disk.    *)
(* Operators and administrators correct a policy, a script re-freezes its  *)
(* certificate, the office and the payment callback issue, accounting      *)
(* moves its payment status, an administrator cancels it, and anyone       *)
(* downloads it, all at once: every handler is cut at its awaits.          *)
(***************************************************************************)
EXTENDS Naturals, Sequences, FiniteSets, SequencesExt

CONSTANTS
  Cases,
  Trips,        \* what an operator may correct: names, destination, dates
  Holders,      \* what only an administrator may: birth date, passport, plan
  Price,        \* Price[d]: the premium of a case, from the catalogue
  NoPrice,      \* ... or no price: too old, no tier for the duration
  Insured,      \* cases with a policy at the start
  Locales,      \* languages of the certificate
  NoFile,       \* no PDF on disk
  Editors,      \* concurrent requests to correct a policy
  Scripts,      \* runs of refreshCertificateSnapshots.js
  Issuers,      \* concurrent attempts to issue
  Readers,      \* concurrent downloads of a certificate
  Cashiers,     \* concurrent updates of a payment status
  Deleters,     \* concurrent cancellations
  MaxPolicies, MaxEdits, MaxPayments, MaxFaults  \* bounds, for model checking

MAX_OPERATOR_POLICY_EDITS == 3
MAX_PAYMENT_REVERSES == 2
MaxRevisions == 10

Details == [trip : Trips, holder : Holders]
PaymentStatuses == {"Unpaid", "Partial", "Paid"}
Premiums == {Price[d] : d \in Details} \ {NoPrice}
Writers == Editors \cup Scripts

ASSUME PoliciesAssumption ==
  /\ Price \in [Details -> Nat \cup {NoPrice}] /\ NoPrice \notin Nat
  /\ Insured \subseteq Cases /\ IsFiniteSet(Insured)
  /\ IsFiniteSet(Editors) /\ Editors \cap Scripts = {}
  /\ NoFile \notin [d : Details, price : Nat]
  /\ MaxPolicies \in Nat /\ MaxEdits \in Nat /\ MaxPayments \in Nat /\ MaxFaults \in Nat

VARIABLES
  details,   \* tables cases and travellers: what each case now says
  late,      \* trips that start within 24 hours, or have started
  policies,  \* tables sales, invoices, certificates: one record per policy
  files,     \* storage/certificates: files[i][l], what the PDF shows
  edit,      \* the writers: an edit or a re-freeze in progress
  issue, read, cash, cancel,  \* the other requests in progress
  edits, payments, faults,    \* bounds
  overlapped \* history: the cases two writers were ever at work on at once

vars == <<details, late, policies, files, edit, issue, read, cash, cancel,
          edits, payments, faults, overlapped>>

-----------------------------------------------------------------------------
(* Types                                                                   *)

Shown == [d : Details, price : Nat]  \* what a certificate says

(* A revision: what it replaced and why, a correction or the script.        *)
Revision == [was : Shown, reason : {"policy_edit", "backfill_after_edit"}]

Policy == [case : Cases,
           live : BOOLEAN,              \* deleted_at IS NULL
           pay : PaymentStatuses, received : 0..1,
           reverses : Nat, count : Nat, \* payment_reverse_count, policy_edit_count
           price : Nat,                 \* sales.premium_amount, total
           billed : Nat,                \* invoices.subtotal, total
           shows : Shown,               \* certificates.issued_snapshot
           replaced : Seq(Revision)]    \* its revisions

(* The requests in progress.                                                *)
Idle == [pc |-> "idle"]
EditJob == [pc : {"loading", "writing", "pricing", "rollback", "selling",
                  "billing", "freezing", "replacing", "dropping", "counting"},
            case : Cases, role : {"operator", "admin", "script"},
            old : Details,        \* the case as it was when the request began
            new : Details,        \* what it is to say, then what it says
            sale : Nat,           \* the policy corrected, 0: none
            price : Nat,          \* its new premium
            revisions : Seq(Revision)]
IssueJob == [pc : {"locking"}, case : Cases, d : Details, price : Nat, paid : BOOLEAN]
ReadJob == [pc : {"looking", "rendering"}, sale : Nat, loc : Locales, shows : Shown]
CashJob == [pc : {"updating"}, sale : Nat, to : PaymentStatuses,
            received : 0..1, reverses : Nat]
CancelJob == [pc : {"deleting"}, sale : Nat]

FileType == Shown \cup {NoFile}

(* Rows, files and counters keep their shape.                               *)
TypeOK ==
  /\ details \in [Cases -> Details]
  /\ late \subseteq Trips
  /\ policies \in Seq(Policy)
  /\ edit \in [Writers -> {Idle} \cup EditJob]
  /\ issue \in [Issuers -> {Idle} \cup IssueJob]
  /\ read \in [Readers -> {Idle} \cup ReadJob]
  /\ cash \in [Cashiers -> {Idle} \cup CashJob]
  /\ cancel \in [Deleters -> {Idle} \cup CancelJob]
  /\ files \in [1..Len(policies) -> [Locales -> FileType]]
  /\ edits \in 0..MaxEdits /\ payments \in 0..MaxPayments /\ faults \in 0..MaxFaults
  /\ overlapped \subseteq Cases

-----------------------------------------------------------------------------
(* A policy as it is issued: unpaid, or paid by the payment that bought it. *)
NewPolicy(c, d, price, paid) ==
  [case |-> c, live |-> TRUE,
   pay |-> IF paid THEN "Paid" ELSE "Unpaid", received |-> IF paid THEN 1 ELSE 0,
   reverses |-> 0, count |-> 0, price |-> price, billed |-> price,
   shows |-> [d |-> d, price |-> price], replaced |-> <<>>]

NoFiles == [l \in Locales |-> NoFile]

Init ==
  /\ details \in [Cases -> {d \in Details : Price[d] # NoPrice}]
  /\ late = {}
  /\ policies = [i \in 1..Cardinality(Insured) |->
                   LET c == SetToSeq(Insured)[i] IN
                   NewPolicy(c, details[c], Price[details[c]], FALSE)]
  /\ files = [i \in 1..Len(policies) |-> NoFiles]
  /\ edit = [w \in Writers |-> Idle]
  /\ issue = [w \in Issuers |-> Idle]
  /\ read = [r \in Readers |-> Idle]
  /\ cash = [c \in Cashiers |-> Idle]
  /\ cancel = [a \in Deleters |-> Idle]
  /\ edits = 0 /\ payments = 0 /\ faults = 0 /\ overlapped = {}

Fault == faults < MaxFaults /\ faults' = faults + 1
NoFault == UNCHANGED faults

PoliciesOf(c) == {i \in 1..Len(policies) : policies[i].case = c}
LivePolicies(c) == {i \in PoliciesOf(c) : policies[i].live}

(* getSaleByCaseId: the first row of the case, cancelled or not; 0 if none. *)
FirstPolicy(c) ==
  IF PoliciesOf(c) = {} THEN 0 ELSE CHOOSE i \in PoliciesOf(c) : \A j \in PoliciesOf(c) : i <= j

-----------------------------------------------------------------------------
(* Correcting a policy: updateCase                                          *)

requests == <<issue, read, cash, cancel>>
work == <<edits, overlapped>>

(* A writer, an edit or a re-freeze, is at work on the case.                *)
Corrected(c) == \E w \in Writers : edit[w].pc # "idle" /\ edit[w].case = c

NoteOverlap(c) ==
  overlapped' = overlapped \cup (IF Corrected(c) THEN {c} ELSE {})

(* The access check loads the case as it now is.                            *)
StartEdit(w, c, role) ==
  /\ edit[w].pc = "idle"
  /\ edits < MaxEdits
  /\ edit' = [edit EXCEPT ![w] =
       [pc |-> "loading", case |-> c, role |-> role, old |-> details[c],
        new |-> details[c], sale |-> 0, price |-> 0, revisions |-> <<>>]]
  /\ edits' = edits + 1 /\ NoteOverlap(c)
  /\ UNCHANGED <<details, late, policies, files, requests, payments, faults>>

(* A faulty variant: one correction too many.                               *)
OperatorMayOnceMore(old, count, d) ==
  d.holder = old.holder /\ d # old /\ old.trip \notin late /\ count <= MAX_OPERATOR_POLICY_EDITS

(* What an operator may do to a confirmed policy: limited fields, while the *)
(* old trip is more than a day away, a few times, and not for nothing.      *)
OperatorMay(old, count, d) ==
  /\ d.holder = old.holder
  /\ d # old
  /\ old.trip \notin late
  /\ count < MAX_OPERATOR_POLICY_EDITS

(* The sale is loaded and the body d judged against it and the old case.    *)
AdmitEdit(w, d) ==
  LET job == edit[w]
      i == FirstPolicy(job.case) IN
  /\ job.pc = "loading"
  /\ i # 0 /\ job.role = "operator" => OperatorMay(job.old, policies[i].count, d)
  /\ edit' = [edit EXCEPT ![w] = [@ EXCEPT !.pc = "writing", !.sale = i, !.new = d]]
  /\ UNCHANGED <<details, late, policies, files, requests, work, payments, faults>>

RejectEdit(w) ==
  /\ edit[w].pc = "loading"
  /\ edit' = [edit EXCEPT ![w] = Idle]
  /\ UNCHANGED <<details, late, policies, files, requests, work, payments, faults>>

(* A statement outside any try fails: 500, and the request ends there.      *)
EditDies(w) ==
  /\ edit[w].pc \in {"writing", "pricing", "selling"}
  /\ Fault
  /\ edit' = [edit EXCEPT ![w] = Idle]
  /\ UNCHANGED <<details, late, policies, files, requests, work, payments>>

(* updateCaseAndTraveller, one transaction over every column.               *)
SaveCase(w) ==
  LET job == edit[w] IN
  /\ job.pc = "writing"
  /\ details' = [details EXCEPT ![job.case] = job.new]
  /\ edit' = [edit EXCEPT ![w] = IF job.sale = 0 THEN Idle ELSE [job EXCEPT !.pc = "pricing"]]
  /\ UNCHANGED <<late, policies, files, requests, work, payments, faults>>

(* Faulty variants: the price is not checked; or is that of the old case.   *)
RepriceUnchecked(w) ==
  LET now == details[edit[w].case] IN
  /\ edit[w].pc = "pricing" /\ edit[w].role # "script"
  /\ edit' = [edit EXCEPT ![w] = [@ EXCEPT !.pc = "selling", !.new = now, !.price = Price[now]]]
  /\ UNCHANGED <<details, late, policies, files, requests, work, payments, faults>>

RepriceOld(w) ==
  /\ edit[w].pc = "pricing" /\ edit[w].role # "script"
  /\ edit' = [edit EXCEPT ![w] = [@ EXCEPT !.pc = "selling",
                !.new = details[edit[w].case], !.price = Price[edit[w].old]]]
  /\ UNCHANGED <<details, late, policies, files, requests, work, payments, faults>>

(* Read the case back and price it.  No price: the case is put back as it   *)
(* was when the request began.                                              *)
Reprice(w) ==
  LET now == details[edit[w].case] IN
  /\ edit[w].pc = "pricing" /\ edit[w].role # "script"
  /\ edit' = [edit EXCEPT ![w] =
       IF Price[now] = NoPrice
         THEN [@ EXCEPT !.pc = "rollback"]
         ELSE [@ EXCEPT !.pc = "selling", !.new = now, !.price = Price[now]]]
  /\ UNCHANGED <<details, late, policies, files, requests, work, payments, faults>>

Rollback(w) ==
  LET job == edit[w] IN
  /\ job.pc = "rollback"
  /\ \/ details' = [details EXCEPT ![job.case] = job.old] /\ NoFault
     \/ UNCHANGED details /\ Fault  \* logged
  /\ edit' = [edit EXCEPT ![w] = Idle]
  /\ UNCHANGED <<late, policies, files, requests, work, payments>>

(* updateSalePricing, then updateInvoiceAmounts, whose failure is logged.   *)
PriceSale(w) ==
  LET job == edit[w] IN
  /\ job.pc = "selling"
  /\ policies' = [policies EXCEPT ![job.sale].price = job.price]
  /\ edit' = [edit EXCEPT ![w].pc = "billing"]
  /\ UNCHANGED <<details, late, files, requests, work, payments, faults>>

BillInvoice(w) ==
  LET job == edit[w] IN
  /\ job.pc = "billing"
  /\ \/ policies' = [policies EXCEPT ![job.sale].billed = job.price] /\ NoFault
     \/ UNCHANGED policies /\ Fault
  /\ edit' = [edit EXCEPT ![w].pc = "freezing"]
  /\ UNCHANGED <<details, late, files, requests, work, payments>>

-----------------------------------------------------------------------------
(* Re-freezing a certificate: refreshIssuedSnapshot, for an edit or a script *)

LastRevisions(s) ==
  IF Len(s) > MaxRevisions THEN SubSeq(s, Len(s) - MaxRevisions + 1, Len(s)) ELSE s

(* Where a writer goes after the certificate, done or not.                  *)
AfterFreeze(job) == IF job.role = "operator" THEN [job EXCEPT !.pc = "counting"] ELSE Idle

ReplacedBy(job, p) ==
  [was |-> p.shows,
   reason |-> IF job.role = "script" THEN "backfill_after_edit" ELSE "policy_edit"]

(* The snapshot as it is, and the revisions it will leave.                  *)
ReadSnapshot(w) ==
  LET p == policies[edit[w].sale] IN
  /\ edit[w].pc = "freezing"
  /\ edit' = [edit EXCEPT ![w] = [@ EXCEPT !.pc = "replacing",
                !.revisions = LastRevisions(Append(p.replaced, ReplacedBy(edit[w], p)))]]
  /\ UNCHANGED <<details, late, policies, files, requests, work, payments, faults>>

(* Faulty variants: the old details are frozen; the revision is not kept.   *)
WriteOldSnapshot(w) ==
  LET job == edit[w] IN
  /\ job.pc = "replacing"
  /\ policies' = [policies EXCEPT ![job.sale] = [@ EXCEPT
                    !.shows = [d |-> job.old, price |-> job.price], !.replaced = job.revisions]]
  /\ edit' = [edit EXCEPT ![w].pc = "dropping"]
  /\ UNCHANGED <<details, late, files, requests, work, payments, faults>>

WriteSnapshotOnly(w) ==
  LET job == edit[w] IN
  /\ job.pc = "replacing"
  /\ policies' = [policies EXCEPT ![job.sale].shows = [d |-> job.new, price |-> job.price]]
  /\ edit' = [edit EXCEPT ![w].pc = "dropping"]
  /\ UNCHANGED <<details, late, files, requests, work, payments, faults>>

WriteSnapshot(w) ==
  LET job == edit[w] IN
  /\ job.pc = "replacing"
  /\ policies' = [policies EXCEPT ![job.sale] = [@ EXCEPT
                    !.shows = [d |-> job.new, price |-> job.price],
                    !.replaced = job.revisions]]
  /\ edit' = [edit EXCEPT ![w].pc = "dropping"]
  /\ UNCHANGED <<details, late, files, requests, work, payments, faults>>

(* A failure of either query is logged and the edit goes on.                *)
FreezeFails(w) ==
  /\ edit[w].pc \in {"freezing", "replacing"}
  /\ Fault
  /\ edit' = [edit EXCEPT ![w] = AfterFreeze(@)]
  /\ UNCHANGED <<details, late, policies, files, requests, work, payments>>

(* invalidateStoredCertificate: both languages, a failed unlink ignored.    *)
DropFiles(w) ==
  LET job == edit[w] IN
  /\ job.pc = "dropping"
  /\ \/ files' = [files EXCEPT ![job.sale] = NoFiles] /\ NoFault
     \/ UNCHANGED files /\ Fault
  /\ edit' = [edit EXCEPT ![w] = AfterFreeze(@)]
  /\ UNCHANGED <<details, late, policies, requests, work, payments>>

(* incrementPolicyEditCount.                                                *)
CountEdit(w) ==
  LET job == edit[w] IN
  /\ job.pc = "counting"
  /\ \/ policies' = [policies EXCEPT ![job.sale].count = @ + 1] /\ NoFault
     \/ UNCHANGED policies /\ Fault
  /\ edit' = [edit EXCEPT ![w] = Idle]
  /\ UNCHANGED <<details, late, files, requests, work, payments>>

(* The script takes the premium from the sale, then what the case now says. *)
StartRefreeze(w, i) ==
  /\ edit[w].pc = "idle"
  /\ edits < MaxEdits
  /\ edit' = [edit EXCEPT ![w] =
       [pc |-> "pricing", case |-> policies[i].case, role |-> "script",
        old |-> details[policies[i].case], new |-> details[policies[i].case],
        sale |-> i, price |-> policies[i].price, revisions |-> <<>>]]
  /\ edits' = edits + 1 /\ NoteOverlap(policies[i].case)
  /\ UNCHANGED <<details, late, policies, files, requests, payments, faults>>

RereadCase(w) ==
  /\ edit[w].pc = "pricing" /\ edit[w].role = "script"
  /\ edit' = [edit EXCEPT ![w] =
                [@ EXCEPT !.pc = "freezing", !.new = details[edit[w].case]]]
  /\ UNCHANGED <<details, late, policies, files, requests, work, payments, faults>>

-----------------------------------------------------------------------------
(* Issuing: the case is read and priced, then issuePolicy locks the row     *)

(* A payment issues at the price of the case; the office at the price of    *)
(* its request.                                                             *)
StartIssue(w, c, price, paid) ==
  /\ issue[w].pc = "idle"
  /\ paid => price = Price[details[c]]
  /\ issue' = [issue EXCEPT ![w] =
       [pc |-> "locking", case |-> c, d |-> details[c], price |-> price, paid |-> paid]]
  /\ UNCHANGED <<details, late, policies, files, edit, read, cash, cancel,
                 work, payments, faults>>

(* A faulty variant: the live policies are not looked up.                   *)
IssuePolicyAgain(w) ==
  LET job == issue[w] IN
  /\ job.pc = "locking" /\ Len(policies) < MaxPolicies
  /\ policies' = Append(policies, NewPolicy(job.case, job.d, job.price, job.paid))
  /\ files' = Append(files, NoFiles)
  /\ issue' = [issue EXCEPT ![w] = Idle]
  /\ UNCHANGED <<details, late, edit, read, cash, cancel, work, payments, faults>>

(* One transaction under the lock of the case row.                          *)
IssuePolicy(w) ==
  LET job == issue[w] IN
  /\ job.pc = "locking"
  /\ IF LivePolicies(job.case) # {}
       THEN UNCHANGED <<policies, files>>
       ELSE /\ Len(policies) < MaxPolicies
            /\ policies' = Append(policies, NewPolicy(job.case, job.d, job.price, job.paid))
            /\ files' = Append(files, NoFiles)
  /\ issue' = [issue EXCEPT ![w] = Idle]
  /\ UNCHANGED <<details, late, edit, read, cash, cancel, work, payments, faults>>

IssueFails(w) ==
  /\ issue[w].pc = "locking"
  /\ Fault
  /\ issue' = [issue EXCEPT ![w] = Idle]
  /\ UNCHANGED <<details, late, policies, files, edit, read, cash, cancel, work, payments>>

-----------------------------------------------------------------------------
(* Downloading a certificate: certificatePdfBufferForSaleId                 *)

(* The certificate row, with its snapshot, is loaded first; a stored file   *)
(* is served as it is; else the PDF is drawn from that snapshot, and kept.  *)
Download(r, i, loc) ==
  /\ read[r].pc = "idle"
  /\ read' = [read EXCEPT ![r] =
       [pc |-> "looking", sale |-> i, loc |-> loc, shows |-> policies[i].shows]]
  /\ UNCHANGED <<details, late, policies, files, edit, issue, cash, cancel,
                 work, payments, faults>>

LookForFile(r) ==
  /\ read[r].pc = "looking"
  /\ read' = [read EXCEPT ![r] =
       IF files[@.sale][@.loc] # NoFile THEN Idle ELSE [@ EXCEPT !.pc = "rendering"]]
  /\ UNCHANGED <<details, late, policies, files, edit, issue, cash, cancel,
                 work, payments, faults>>

(* A faulty variant: the PDF is drawn from the live case and sale.          *)
StoreLive(r) ==
  LET job == read[r] IN
  /\ job.pc = "rendering"
  /\ files' = [files EXCEPT ![job.sale][job.loc] =
                 [d |-> details[policies[job.sale].case], price |-> policies[job.sale].price]]
  /\ read' = [read EXCEPT ![r] = Idle]
  /\ UNCHANGED <<details, late, policies, edit, issue, cash, cancel, work, payments, faults>>

StoreFile(r) ==
  LET job == read[r] IN
  /\ job.pc = "rendering"
  /\ \/ files' = [files EXCEPT ![job.sale][job.loc] = job.shows] /\ NoFault
     \/ UNCHANGED files /\ Fault  \* the disk is full: served all the same
  /\ read' = [read EXCEPT ![r] = Idle]
  /\ UNCHANGED <<details, late, policies, edit, issue, cash, cancel, work, payments>>

-----------------------------------------------------------------------------
(* Payment status and cancellation                                          *)

IsReverse(p, to) == p.pay = "Paid" /\ to = "Unpaid"

(* A faulty variant: an unpaid sale keeps what is given.                    *)
StartPaymentKeeping(c, i, to, given) ==
  LET p == policies[i] IN
  /\ cash[c].pc = "idle" /\ payments < MaxPayments /\ p.live
  /\ IsReverse(p, to) => p.reverses < MAX_PAYMENT_REVERSES
  /\ cash' = [cash EXCEPT ![c] = [pc |-> "updating", sale |-> i, to |-> to, received |-> given,
       reverses |-> IF IsReverse(p, to) THEN p.reverses + 1 ELSE p.reverses]]
  /\ payments' = payments + 1
  /\ UNCHANGED <<details, late, policies, files, edit, issue, read, cancel, work, faults>>

(* updatePaymentStatusController reads the sale and decides.  given: the    *)
(* amount received in the request, or what is on the sale.                  *)
StartPayment(c, i, to, given) ==
  LET p == policies[i] IN
  /\ cash[c].pc = "idle"
  /\ payments < MaxPayments
  /\ p.live
  /\ IsReverse(p, to) => p.reverses < MAX_PAYMENT_REVERSES
  /\ cash' = [cash EXCEPT ![c] =
       [pc |-> "updating", sale |-> i, to |-> to,
        received |-> IF to = "Unpaid" THEN 0 ELSE given,
        reverses |-> IF IsReverse(p, to) THEN p.reverses + 1 ELSE p.reverses]]
  /\ payments' = payments + 1
  /\ UNCHANGED <<details, late, policies, files, edit, issue, read, cancel, work, faults>>

UpdatePayment(c) ==
  LET job == cash[c] IN
  /\ job.pc = "updating"
  /\ policies' = [policies EXCEPT ![job.sale] = [@ EXCEPT
       !.pay = job.to, !.received = job.received, !.reverses = job.reverses]]
  /\ cash' = [cash EXCEPT ![c] = Idle]
  /\ UNCHANGED <<details, late, files, edit, issue, read, cancel, work, payments, faults>>

(* softDeleteSaleController.                                                *)
StartDelete(a, i) ==
  /\ cancel[a].pc = "idle"
  /\ policies[i].live
  /\ cancel' = [cancel EXCEPT ![a] = [pc |-> "deleting", sale |-> i]]
  /\ UNCHANGED <<details, late, policies, files, edit, issue, read, cash,
                 work, payments, faults>>

Delete(a) ==
  /\ cancel[a].pc = "deleting"
  /\ policies' = [policies EXCEPT ![cancel[a].sale] = [@ EXCEPT !.live = FALSE, !.received = 0]]
  /\ cancel' = [cancel EXCEPT ![a] = Idle]
  /\ UNCHANGED <<details, late, files, edit, issue, read, cash, work, payments, faults>>

-----------------------------------------------------------------------------
(* Departures draw near; the web process, or a script, dies                 *)

Approach(t) ==
  /\ late' = late \cup {t}
  /\ UNCHANGED <<details, policies, files, edit, issue, read, cash, cancel,
                 work, payments, faults>>

WebCrash ==
  /\ Fault
  /\ edit' = [w \in Writers |-> IF w \in Editors THEN Idle ELSE edit[w]]
  /\ issue' = [w \in Issuers |-> Idle]
  /\ read' = [r \in Readers |-> Idle]
  /\ cash' = [c \in Cashiers |-> Idle]
  /\ cancel' = [a \in Deleters |-> Idle]
  /\ UNCHANGED <<details, late, policies, files, work, payments>>

ScriptCrash(w) ==
  /\ Fault
  /\ edit' = [edit EXCEPT ![w] = Idle]
  /\ UNCHANGED <<details, late, policies, files, requests, work, payments>>

-----------------------------------------------------------------------------
(* The specification                                                        *)

UpdateCase(w) ==
  \/ \E c \in Cases, role \in {"operator", "admin"} : StartEdit(w, c, role)
  \/ \E d \in Details : AdmitEdit(w, d)
  \/ RejectEdit(w)
  \/ EditDies(w)
  \/ SaveCase(w)
  \/ Reprice(w)
  \/ Rollback(w)
  \/ PriceSale(w)
  \/ BillInvoice(w)
  \/ CountEdit(w)

RefreshSnapshot(w) ==
  \/ ReadSnapshot(w)
  \/ WriteSnapshot(w)
  \/ FreezeFails(w)
  \/ DropFiles(w)

Refreeze(w) ==
  \/ \E i \in 1..Len(policies) : StartRefreeze(w, i)
  \/ RereadCase(w)
  \/ ScriptCrash(w)

Issue(w) ==
  \/ \E c \in Cases, price \in Premiums, paid \in BOOLEAN : StartIssue(w, c, price, paid)
  \/ IssuePolicy(w)
  \/ IssueFails(w)

ReadCertificate(r) ==
  \/ \E i \in 1..Len(policies), loc \in Locales : Download(r, i, loc)
  \/ LookForFile(r)
  \/ StoreFile(r)

UpdatePaymentStatus(c) ==
  \/ \E i \in 1..Len(policies), to \in PaymentStatuses :
       \E given \in {0, 1} : StartPayment(c, i, to, given)
  \/ UpdatePayment(c)

SoftDelete(a) ==
  \/ \E i \in 1..Len(policies) : StartDelete(a, i)
  \/ Delete(a)

Next ==
  \/ \E w \in Editors : UpdateCase(w)
  \/ \E w \in Writers : RefreshSnapshot(w)
  \/ \E w \in Scripts : Refreeze(w)
  \/ \E w \in Issuers : Issue(w)
  \/ \E r \in Readers : ReadCertificate(r)
  \/ \E c \in Cashiers : UpdatePaymentStatus(c)
  \/ \E a \in Deleters : SoftDelete(a)
  \/ \E t \in Trips \ late : Approach(t)
  \/ WebCrash

Spec == Init /\ [][Next]_vars

-----------------------------------------------------------------------------
(* What holds of the cases that one writer at a time has worked on, whatever *)
(* the downloads, the office and the payments do meanwhile                  *)

(* Between corrections the case, the sale, the invoice and the certificate  *)
(* tell the same story, though a correction writes them one by one and may  *)
(* have been turned down half way (updateCase, refreshIssuedSnapshot).  It   *)
(* is the first policy of the case that corrections reach.                  *)
PapersAgree(c) ==
  LET p == policies[FirstPolicy(c)] IN
  /\ p.shows = [d |-> details[c], price |-> p.price]
  /\ p.billed = p.price

(* "Roll back case/traveller so we never leave dates changed with a failed  *)
(* premium" (caseController.js:605): a confirmed case can be priced.        *)
Priced(c) == Price[details[c]] # NoPrice

(* A correction ends with papers that agree and can be priced.  A failed    *)
(* statement or a crash part way does leave them apart.                     *)
CorrectionCompletes ==
  faults = 0 => \A c \in Insured \ overlapped :
    Corrected(c) \/ (PapersAgree(c) /\ Priced(c))

(* "Every revision is kept inside the snapshot, so `what did this           *)
(* certificate say before?' has an answer" (policyIssuance.js:218).         *)
RevisionKept ==
  \A i \in 1..Len(policies) :
    LET before == policies[i]
        after == policies'[i] IN
    before.case \notin overlapped /\ after.shows # before.shows =>
      after.replaced # <<>> /\ Last(after.replaced).was = before.shows

EveryRevisionKept == [][RevisionKept]_policies

(* A PDF on disk is a document that was really issued: what the certificate *)
(* says now or one of its revisions, of which the last ten are kept, never  *)
(* a draft nor a mixture of two.                                            *)
Issued(p) == {p.shows} \cup {p.replaced[j].was : j \in 1..Len(p.replaced)}

StoredWasIssued ==
  \A i \in 1..Len(policies), l \in Locales :
    LET p == policies[i] IN
    p.case \notin overlapped /\ Len(p.replaced) < MaxRevisions =>
      files[i][l] \in Issued(p) \cup {NoFile}

(* What holds however many people correct, issue, pay and cancel at once    *)

(* A corrected certificate prints the premium of the very details it        *)
(* prints, though the case may have moved on under the correction; what the *)
(* script printed last has the premium that was charged, whatever it was.   *)
RevisedCertificateIsPriced ==
  \A i \in 1..Len(policies) :
    LET p == policies[i] IN
    p.replaced # <<>> /\ Last(p.replaced).reason = "policy_edit" =>
      p.shows.price = Price[p.shows.d]

(* An operator's corrections are limited: past the limit there is never     *)
(* more than what was already admitted when the last one was counted.       *)
Admitted(i) == {w \in Editors : /\ edit[w].pc \notin {"idle", "loading"}
                                /\ edit[w].role = "operator" /\ edit[w].sale = i}

OperatorEditsBounded ==
  \A i \in 1..Len(policies) :
    policies[i].count + Cardinality(Admitted(i))
      <= MAX_OPERATOR_POLICY_EDITS - 1 + Cardinality(Editors)

(* One live policy per case, cancelled ones and concurrent issues           *)
(* notwithstanding (issuePolicy, "one live sale per case").                 *)
OneLivePolicy == \A c \in Cases : Cardinality(LivePolicies(c)) <= 1

(* An unpaid policy has received nothing, whatever updates, reversals and   *)
(* cancellations overlap.                                                   *)
UnpaidHasNothing ==
  \A i \in 1..Len(policies) : policies[i].pay = "Unpaid" => policies[i].received = 0

(* What the repository says and the code does not do                        *)

(* "nothing short of removing it will make the corrected certificate        *)
(* appear ... Safe by construction" (certificateStore.js:190): once the     *)
(* correction is done, the file on disk is the certificate.                 *)
FileShowsCertificate ==
  \A i \in 1..Len(policies), l \in Locales :
    files[i][l] # NoFile /\ ~Corrected(policies[i].case) => files[i][l] = policies[i].shows
=============================================================================
