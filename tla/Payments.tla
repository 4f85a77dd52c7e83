------------------------------- MODULE Payments -------------------------------
(***************************************************************************)
(* Mobile-money payments: the payment_transactions table, the callback     *)
(* archive, the conversation that starts a payment, the webhook that hears *)
(* of its outcome, the status poller, the expiry sweeper, the operator who *)
(* polls by hand, and the settlement all of them share, which turns money  *)
(* into a policy.  Every step between two awaits of the code is an action, *)
(* so the actors interleave as they do in production; the web process and  *)
(* the cron scripts may die between any two steps.                         *)
(*                                                                         *)
(* The mobile-money provider is external: it prompts the customer, learns  *)
(* whether she paid, answers checkStatus and sends callbacks, which may be *)
(* lost, repeated, delayed and reordered (a callback that was sent can be  *)
(* delivered any number of times, at any time, or never).                  *)
(***************************************************************************)
EXTENDS PaymentStateMachine, FiniteSets

CONSTANTS
  Sessions,     \* WhatsApp conversations
  Payers,       \* <<operator, msisdn>> pairs a customer can pay with
  Cases,        \* quotes
  Quotes,       \* Quotes[s]: what conversation s may be paying for
  Handlers,     \* concurrent webhook requests
  Pollers,      \* runs of scripts/pollPayments.js
  Admins,       \* operators asking the provider by hand
  Sweepers,     \* runs of scripts/sweepPayments.js
  NoTx, NoCase, \* SQL NULLs
  CallbackHasReference,  \* does the provider echo our reference in a callback
  StrayStatuses,         \* statuses it may also send, contradicting itself
  OfficeStatuses,        \* OfficeStatuses[c]: what the office makes case c by hand
  MaxStarts, MaxFaults  \* bounds, for model checking

(* The idempotency key of a payment, wa:<session>:<provider>:<msisdn>:<n>.   *)
(* n is collectedData.__payAttempt + 1, and nothing in the code ever writes *)
(* __payAttempt.  UNIQUE(provider, idempotency_key) makes the key name the  *)
(* row.                                                                     *)
Attempt == 1
Key == Sessions \X Payers \X {Attempt}
IdempotencyKey(s, p) == <<s, p, Attempt>>

CaseStatuses == {"Draft", "AwaitingPayment", "Confirmed", "Cancelled"}

Worker == Handlers \cup Pollers \cup Admins \cup Sweepers

ASSUME NoTxAssumption == NoTx \notin Key
ASSUME NoCaseAssumption == NoCase \notin Cases
ASSUME QuotesAssumption == Quotes \in [Sessions -> SUBSET (Cases \cup {NoCase})]
ASSUME StrayAssumption ==
  StrayStatuses \subseteq ((PaymentStates \ {"completed"}) \cup {"none", "unknown"})
ASSUME OfficeAssumption == OfficeStatuses \in [Cases -> SUBSET CaseStatuses]
ASSUME ReferenceAssumption == CallbackHasReference \in BOOLEAN
ASSUME BoundsAssumption == MaxStarts \in Nat /\ MaxFaults \in Nat

VARIABLES
  \* table payment_transactions, by key; status "none": no row yet
  status, history, txCase, txSale, providerTxId,
  \* table payment_callbacks: the provider ids that have a processed row
  processed,
  \* tables sales and cases, as far as a payment reaches them
  sales, caseStatus,
  \* the external provider: what it knows of each payment, what it has sent
  prov, sent,
  \* the processes: a conversation starting a payment, and every worker
  start, job,
  \* bounds
  starts, faults

txVars   == <<status, history, txCase, txSale, providerTxId>>
provVars == <<prov, sent>>
bounds   == <<starts, faults>>
vars == <<status, history, txCase, txSale, providerTxId, processed,
          sales, caseStatus, prov, sent, start, job, starts, faults>>

-----------------------------------------------------------------------------
(* Types                                                                   *)

ProvStates == {"none", "prompted", "paid", "declined", "cancelled", "lapsed"}
Answers == {"none", "threw", "rejected", "initiated", "awaiting_confirmation"}
Messages == [tx : Key, status : PaymentStates \cup {"none", "unknown"}]
Sales == [case : Cases, paidBy : Key \cup {NoTx}]

NotStarting == [pc |-> "idle", tx |-> NoTx, answer |-> "none"]
NoJob == [pc |-> "idle", tx |-> NoTx, status |-> "none",
          row |-> FALSE, real |-> FALSE, sale |-> 0]

StartPCs == {"calling", "answered", "recording", "prompting"}
JobPCs == {"matching", "marking", "asking", "expiring",
           "issue", "attach", "confirm", "notify"}

BusyStart == [pc : StartPCs, tx : Key, answer : Answers]
StartType == {NotStarting} \cup BusyStart
BusyJob ==
  [pc : JobPCs, tx : Key,
   status : PaymentStates \cup {"none", "unknown"},
   row : BOOLEAN,   \* the callback was archived
   real : BOOLEAN,  \* this worker made the transition
   sale : Nat]      \* the policy it got, 0 before
JobType == {NoJob} \cup BusyJob

(* Every variable keeps its shape: rows, messages, jobs and their steps.    *)
TypeOK ==
  /\ status \in [Key -> PaymentStates \cup {"none"}]
  /\ history \in [Key -> Seq([from : PaymentStates, to : PaymentStates])]
  /\ txCase \in [Key -> Cases \cup {NoCase}]
  /\ txSale \in [Key -> Nat]
  /\ providerTxId \in [Key -> BOOLEAN]
  /\ processed \subseteq Key
  /\ sales \in Seq(Sales)
  /\ caseStatus \in [Cases -> CaseStatuses]
  /\ prov \in [Key -> ProvStates]
  /\ sent \subseteq Messages
  /\ start \in [Sessions -> StartType]
  /\ job \in [Worker -> JobType]
  /\ starts \in [Sessions -> 0..MaxStarts]
  /\ faults \in 0..MaxFaults

-----------------------------------------------------------------------------
(* The initial state                                                        *)

Init ==
  /\ status = [k \in Key |-> "none"]
  /\ history = [k \in Key |-> <<>>]
  /\ txCase = [k \in Key |-> NoCase]
  /\ txSale = [k \in Key |-> 0]
  /\ providerTxId = [k \in Key |-> FALSE]
  /\ processed = {}
  /\ sales = <<>>
  /\ caseStatus = [c \in Cases |-> "AwaitingPayment"]
  /\ prov = [k \in Key |-> "none"]
  /\ sent = {}
  /\ start = [s \in Sessions |-> NotStarting]
  /\ job = [w \in Worker |-> NoJob]
  /\ starts = [s \in Sessions |-> 0]
  /\ faults = 0

-----------------------------------------------------------------------------
(* A database call that throws, or a process that dies.  The bound counts   *)
(* both; a step either goes through or spends one.                          *)
Fault == faults < MaxFaults /\ faults' = faults + 1
NoFault == UNCHANGED faults

-----------------------------------------------------------------------------
(* transition(id, to): SELECT ... FOR UPDATE, decide, write, commit.  The   *)
(* row lock makes it one step.  A refusal and a no-op roll back.            *)
Transition(k, to) ==
  IF RealMove(status[k], to)
    THEN /\ status' = [status EXCEPT ![k] = to]
         /\ history' = [history EXCEPT ![k] =
                          AppendHistory(@, HistoryEntry(status[k], to))]
    ELSE UNCHANGED <<status, history>>

-----------------------------------------------------------------------------
(* The conversation starts a payment: startPaymentForSession                *)

(* createTransaction: the row of the key, whatever its status, or a new     *)
(* pending one.  The number lock of the conversation serialises starts of   *)
(* one session.  A conversation without a quote can get here: a late        *)
(* outcome puts a restarted one into payment (module Conversation).         *)
StartPayment(s, p, c) ==
  LET k == IdempotencyKey(s, p) IN
  /\ start[s].pc = "idle"
  /\ starts[s] < MaxStarts
  /\ c \in Quotes[s]
  /\ IF status[k] # "none"
       THEN UNCHANGED <<status, history, txCase>>
       ELSE /\ status' = [status EXCEPT ![k] = "pending"]
            /\ history' = [history EXCEPT ![k] = <<HistoryEntry("pending", "pending")>>]
            /\ txCase' = [txCase EXCEPT ![k] = c]
  /\ start' = [start EXCEPT ![s] = [pc |-> "calling", tx |-> k, answer |-> "none"]]
  /\ starts' = [starts EXCEPT ![s] = @ + 1]
  /\ UNCHANGED <<txSale, providerTxId, processed, sales, caseStatus,
                 prov, sent, job, faults>>

(* provider.initiatePayment over HTTP.  The provider pushes its prompt and  *)
(* says so, refuses, or the call throws, with or without the prompt sent.   *)
(* A payment that was paid stays paid when it is asked for again.           *)
Prompted(k) == [prov EXCEPT ![k] = IF @ = "paid" THEN @ ELSE "prompted"]

InitiatePayment(s, answer) ==
  /\ start[s].pc = "calling"
  /\ \/ answer \in {"initiated", "awaiting_confirmation"} /\ prov' = Prompted(start[s].tx)
     \/ answer = "rejected" /\ prov' = prov
     \/ answer = "threw" /\ prov' \in {prov, Prompted(start[s].tx)}
  /\ start' = [start EXCEPT ![s] = [@ EXCEPT !.pc = "answered", !.answer = answer]]
  /\ UNCHANGED <<txVars, processed, sales, caseStatus, sent, job, bounds>>

(* setProviderTxId, once, when the provider accepted; its failure ignored.  *)
RecordProviderTxId(s) ==
  /\ start[s].pc = "answered"
  /\ IF start[s].answer \in {"initiated", "awaiting_confirmation"}
       THEN \/ providerTxId' = [providerTxId EXCEPT ![start[s].tx] = TRUE] /\ NoFault
            \/ UNCHANGED providerTxId /\ Fault
       ELSE UNCHANGED <<providerTxId, faults>>
  /\ start' = [start EXCEPT ![s].pc = "recording"]
  /\ UNCHANGED <<status, history, txCase, txSale, processed, sales,
                 caseStatus, provVars, job, starts>>

(* A refusal or an exception fails the payment; an acceptance moves it to   *)
(* initiated, then to awaiting_confirmation when the answer says so.  The   *)
(* transitions may be refused or throw (.catch(() => {})).                  *)
AcceptanceIsPayment(answer) ==  \* faulty: the request accepted, the money assumed
  IF answer \in {"threw", "rejected"} THEN "failed" ELSE "completed"

AnsweredState(answer) ==
  IF answer \in {"threw", "rejected"} THEN "failed" ELSE "initiated"

RecordAnswer(s) ==
  /\ start[s].pc = "recording"
  /\ \/ Transition(start[s].tx, AnsweredState(start[s].answer)) /\ NoFault
     \/ UNCHANGED <<status, history>> /\ Fault
  /\ start' = [start EXCEPT ![s] =
                 IF start[s].answer = "awaiting_confirmation"
                   THEN [start[s] EXCEPT !.pc = "prompting"]
                   ELSE NotStarting]
  /\ UNCHANGED <<txCase, txSale, providerTxId, processed, sales,
                 caseStatus, provVars, job, starts>>

RecordPrompt(s) ==
  /\ start[s].pc = "prompting"
  /\ \/ Transition(start[s].tx, "awaiting_confirmation") /\ NoFault
     \/ UNCHANGED <<status, history>> /\ Fault
  /\ start' = [start EXCEPT ![s] = NotStarting]
  /\ UNCHANGED <<txCase, txSale, providerTxId, processed, sales,
                 caseStatus, provVars, job, starts>>

-----------------------------------------------------------------------------
(* The webhook: receivePaymentWebhook and processCallback                   *)

(* Archive first.  A callback is a duplicate when some callback with the    *)
(* same provider id is already marked processed.  When the archive throws   *)
(* (safeArchive) the callback is handled all the same, as a first one.      *)
ReceiveCallback(w, m, archived) ==
  /\ job[w].pc = "idle"
  /\ m \in sent
  /\ IF archived THEN NoFault ELSE Fault
  /\ job' = [job EXCEPT ![w] =
       [NoJob EXCEPT !.pc = IF archived /\ m.tx \in processed THEN "marking" ELSE "matching",
                     !.tx = m.tx, !.status = m.status, !.row = archived]]
  /\ UNCHANGED <<txVars, processed, sales, caseStatus, provVars, start, starts>>

(* Find the transaction by the provider's id, else by our reference.        *)
Matches(k) == providerTxId[k] \/ CallbackHasReference

(* Unmatched, or without a status: nothing but the mark.                    *)
DropCallback(w) ==
  /\ job[w].pc = "matching"
  /\ ~Matches(job[w].tx) \/ job[w].status = "none"
  /\ job' = [job EXCEPT ![w].pc = "marking"]
  /\ UNCHANGED <<txVars, processed, sales, caseStatus, provVars, start, bounds>>

ApplyCallbackNoopSettles(w) ==  \* faulty: result.noop not looked at
  LET k == job[w].tx IN
  /\ job[w].pc = "matching"
  /\ Matches(k) /\ job[w].status # "none"
  /\ Transition(k, job[w].status)
  /\ job' = [job EXCEPT ![w] = [@ EXCEPT !.pc = "marking",
               !.real = Verdict(status[k], job[w].status) \in {"ok", "noop"}]]
  /\ UNCHANGED <<txCase, txSale, providerTxId, processed, sales,
                 caseStatus, provVars, start, bounds>>

ApplyCallbackJudgesLate(w) ==  \* faulty: the move judged on the row it has already written
  LET k == job[w].tx IN
  /\ job[w].pc = "matching"
  /\ Matches(k) /\ job[w].status # "none"
  /\ Transition(k, job[w].status)
  /\ job' = [job EXCEPT ![w] = [@ EXCEPT
               !.pc = "marking", !.real = RealMove(status'[k], job[w].status)]]
  /\ UNCHANGED <<txCase, txSale, providerTxId, processed, sales,
                 caseStatus, provVars, start, bounds>>

ApplyCallback(w) ==
  LET k == job[w].tx IN
  /\ job[w].pc = "matching"
  /\ Matches(k) /\ job[w].status # "none"
  /\ Transition(k, job[w].status)
  /\ job' = [job EXCEPT ![w] = [@ EXCEPT
               !.pc = "marking", !.real = RealMove(status[k], job[w].status)]]
  /\ UNCHANGED <<txCase, txSale, providerTxId, processed, sales,
                 caseStatus, provVars, start, bounds>>

(* markCallbackProcessed; only a real move goes on to settlePayment.        *)
Mark(w) == processed' = IF job[w].row THEN processed \cup {job[w].tx} ELSE processed

MarkCallback(w) ==
  /\ job[w].pc = "marking"
  /\ Mark(w)
  /\ job' = [job EXCEPT ![w] =
               IF job[w].real THEN [job[w] EXCEPT !.pc = "issue"] ELSE NoJob]
  /\ UNCHANGED <<txVars, sales, caseStatus, provVars, start, bounds>>

(* A query of processCallback throws: the handler marks the callback with   *)
(* the error, if it can, and ends.                                          *)
CallbackThrows(w) ==
  /\ job[w].pc \in {"matching", "marking"}
  /\ Fault
  /\ Mark(w) \/ UNCHANGED processed
  /\ job' = [job EXCEPT ![w] = NoJob]
  /\ UNCHANGED <<txVars, sales, caseStatus, provVars, start, starts>>

-----------------------------------------------------------------------------
(* The poller and the operator: checkStatus, then settle                    *)

AskAbout(w, k) ==
  /\ job[w].pc = "idle"
  /\ job' = [job EXCEPT ![w] = [NoJob EXCEPT !.pc = "asking", !.tx = k]]
  /\ UNCHANGED <<txVars, processed, sales, caseStatus, provVars, start, bounds>>

(* findPending: what pollPayments.js asks about.                            *)
PollPick(w, k) == status[k] \in {"initiated", "awaiting_confirmation"} /\ AskAbout(w, k)

(* pollPayment: an operator may ask about anything that is not final.       *)
AdminPick(w, k) == status[k] # "none" /\ ~IsTerminal(status[k]) /\ AskAbout(w, k)

(* What the provider says of a payment.                                     *)
StatusOf(p) ==
  CASE p = "paid" -> "completed"
    [] p = "prompted" -> "awaiting_confirmation"
    [] p = "cancelled" -> "cancelled"
    [] p = "lapsed" -> "expired"
    [] OTHER -> "failed"

(* checkStatus answers: remember the provider's id if there was none, and   *)
(* settle a final answer; transition() is not called on this path.          *)
PollAnswer(w) ==
  LET k == job[w].tx
      said == StatusOf(prov[k]) IN
  /\ job[w].pc = "asking"
  /\ \/ providerTxId' = [providerTxId EXCEPT ![k] = TRUE] /\ NoFault
     \/ UNCHANGED providerTxId /\ Fault
  /\ job' = [job EXCEPT ![w] =
               IF IsTerminal(said) THEN [job[w] EXCEPT !.pc = "issue", !.status = said]
                                   ELSE NoJob]
  /\ UNCHANGED <<status, history, txCase, txSale, processed, sales,
                 caseStatus, provVars, start, starts>>

(* checkStatus throws: on to the next transaction.                          *)
PollThrows(w) ==
  /\ job[w].pc = "asking"
  /\ job' = [job EXCEPT ![w] = NoJob]
  /\ UNCHANGED <<txVars, processed, sales, caseStatus, provVars, start, bounds>>

-----------------------------------------------------------------------------
(* The sweeper                                                              *)

ExpirableLikePending(k) ==  \* faulty: the statuses of findPending
  status[k] \in {"initiated", "awaiting_confirmation"}

(* findExpirable.  expires_at is fixed when the row is created and no other  *)
(* step reads it, so the window is taken to close at any time after that.   *)
Expirable(k) == status[k] \in {"pending", "initiated", "awaiting_confirmation"}

SweepPick(w, k) ==
  /\ job[w].pc = "idle"
  /\ Expirable(k)
  /\ job' = [job EXCEPT ![w] = [NoJob EXCEPT !.pc = "expiring", !.tx = k, !.status = "expired"]]
  /\ UNCHANGED <<txVars, processed, sales, caseStatus, provVars, start, bounds>>

(* A row that moved since it was picked is left alone.                      *)
SweepExpire(w) ==
  LET real == RealMove(status[job[w].tx], "expired") IN
  /\ job[w].pc = "expiring"
  /\ Transition(job[w].tx, "expired")
  /\ job' = [job EXCEPT ![w] =
               IF real THEN [job[w] EXCEPT !.pc = "issue", !.real = TRUE] ELSE NoJob]
  /\ UNCHANGED <<txCase, txSale, providerTxId, processed, sales,
                 caseStatus, provVars, start, bounds>>

-----------------------------------------------------------------------------
(* settlePayment: issue, attach, confirm the case, tell the customer        *)

HasPolicy(c) == \E i \in 1..Len(sales) : sales[i].case = c

(* Only a completed payment issues.                                         *)
SkipIssue(w) ==
  /\ job[w].pc = "issue"
  /\ job[w].status # "completed"
  /\ job' = [job EXCEPT ![w].pc = "notify"]
  /\ UNCHANGED <<txVars, processed, sales, caseStatus, provVars, start, bounds>>

IssuePolicySwapped(w) ==  \* faulty: the two ids handed over the wrong way round
  LET k == job[w].tx IN
  /\ job[w].pc = "issue"
  /\ job[w].status = "completed"
  /\ ~HasPolicy(txCase[k])
  /\ sales' = Append(sales, [case |-> k, paidBy |-> txCase[k]])
  /\ job' = [job EXCEPT ![w] = [@ EXCEPT !.pc = "attach", !.sale = Len(sales) + 1]]
  /\ UNCHANGED <<txVars, processed, caseStatus, provVars, start, bounds>>

IssuePolicyUnchecked(w) ==  \* faulty: no look at the policies of the case
  LET k == job[w].tx IN
  /\ job[w].pc = "issue"
  /\ job[w].status = "completed"
  /\ txCase[k] \in Cases
  /\ sales' = Append(sales, [case |-> txCase[k], paidBy |-> k])
  /\ job' = [job EXCEPT ![w] = [@ EXCEPT !.pc = "attach", !.sale = Len(sales) + 1]]
  /\ UNCHANGED <<txVars, processed, caseStatus, provVars, start, bounds>>

(* issuePolicy under the lock of the case row: the policy of the case if it *)
(* has one, else a new one, paid by this transaction.                       *)
IssuePolicy(w) ==
  LET k == job[w].tx
      c == txCase[k] IN
  /\ job[w].pc = "issue"
  /\ job[w].status = "completed"
  /\ c \in Cases
  /\ IF HasPolicy(c)
       THEN /\ \E i \in 1..Len(sales) :
                 /\ sales[i].case = c
                 /\ job' = [job EXCEPT ![w] = [@ EXCEPT !.pc = "attach", !.sale = i]]
            /\ UNCHANGED sales
       ELSE /\ sales' = Append(sales, [case |-> c, paidBy |-> k])
            /\ job' = [job EXCEPT ![w] = [@ EXCEPT !.pc = "attach", !.sale = Len(sales) + 1]]
  /\ UNCHANGED <<txVars, processed, caseStatus, provVars, start, bounds>>

(* No case, a case that is gone, one that cannot be priced, an exception:   *)
(* reported, and the customer is told all the same.                         *)
IssueFails(w) ==
  /\ job[w].pc = "issue"
  /\ job[w].status = "completed"
  /\ IF txCase[job[w].tx] = NoCase THEN NoFault ELSE Fault
  /\ job' = [job EXCEPT ![w].pc = "notify"]
  /\ UNCHANGED <<txVars, processed, sales, caseStatus, provVars, start, starts>>

AttachLatestSale(w) ==  \* faulty: the last policy issued, not the one returned
  LET k == job[w].tx IN
  /\ job[w].pc = "attach"
  /\ \/ txSale' = [txSale EXCEPT ![k] = IF @ = 0 THEN Len(sales) ELSE @] /\ NoFault
     \/ UNCHANGED txSale /\ Fault
  /\ job' = [job EXCEPT ![w].pc = "confirm"]
  /\ UNCHANGED <<status, history, txCase, providerTxId, processed, sales,
                 caseStatus, provVars, start, starts>>

(* attachSale writes only over NULL; its failure is ignored.                *)
AttachSale(w) ==
  LET k == job[w].tx IN
  /\ job[w].pc = "attach"
  /\ \/ txSale' = [txSale EXCEPT ![k] = IF @ = 0 THEN job[w].sale ELSE @] /\ NoFault
     \/ UNCHANGED txSale /\ Fault
  /\ job' = [job EXCEPT ![w].pc = "confirm"]
  /\ UNCHANGED <<status, history, txCase, providerTxId, processed, sales,
                 caseStatus, provVars, start, starts>>

(* updateCaseStatus("Confirmed"); its failure is ignored.                   *)
ConfirmCase(w) ==
  /\ job[w].pc = "confirm"
  /\ \/ caseStatus' = [caseStatus EXCEPT ![txCase[job[w].tx]] = "Confirmed"] /\ NoFault
     \/ UNCHANGED caseStatus /\ Fault
  /\ job' = [job EXCEPT ![w].pc = "notify"]
  /\ UNCHANGED <<txVars, processed, sales, provVars, start, starts>>

(* notifyConversation never throws; what the message does to the            *)
(* conversation is in module Conversation.                                  *)
NotifyCustomer(w) ==
  /\ job[w].pc = "notify"
  /\ job' = [job EXCEPT ![w] = NoJob]
  /\ UNCHANGED <<txVars, processed, sales, caseStatus, provVars, start, bounds>>

-----------------------------------------------------------------------------
(* The office, the customer, the provider, time and faults                 *)

(* confirmSale and createSaleController: a policy by hand, not paid.        *)
OfficeIssue(c) ==
  /\ ~HasPolicy(c)
  /\ sales' = Append(sales, [case |-> c, paidBy |-> NoTx])
  /\ UNCHANGED <<txVars, processed, caseStatus, provVars, start, job, bounds>>

(* changeCaseStatus and cancelCase: any status, policy or not.              *)
OfficeSetsStatus(c, st) ==
  /\ st \in OfficeStatuses[c]
  /\ caseStatus' = [caseStatus EXCEPT ![c] = st]
  /\ UNCHANGED <<txVars, processed, sales, provVars, start, job, bounds>>

(* The customer answers the prompt, or lets it lapse.                       *)
CustomerActs(k, outcome) ==
  /\ prov[k] = "prompted"
  /\ outcome \in {"paid", "declined", "cancelled", "lapsed"}
  /\ prov' = [prov EXCEPT ![k] = outcome]
  /\ UNCHANGED <<txVars, processed, sales, caseStatus, sent, start, job, bounds>>

(* The provider reports what it knows, or contradicts it.                   *)
SendCallback(k, st) ==
  /\ prov[k] # "none"
  /\ st \in {StatusOf(prov[k])} \cup StrayStatuses
  /\ sent' = sent \cup {[tx |-> k, status |-> st]}
  /\ UNCHANGED <<txVars, processed, sales, caseStatus, prov, start, job, bounds>>

(* The web process dies with every request and conversation in it; a cron   *)
(* script dies alone.  The tables survive.                                  *)
WebCrash ==
  /\ Fault
  /\ start' = [s \in Sessions |-> NotStarting]
  /\ job' = [w \in Worker |-> IF w \in Handlers \cup Admins THEN NoJob ELSE job[w]]
  /\ UNCHANGED <<txVars, processed, sales, caseStatus, provVars, starts>>

CronCrash(w) ==
  /\ Fault
  /\ job' = [job EXCEPT ![w] = NoJob]
  /\ UNCHANGED <<txVars, processed, sales, caseStatus, provVars, start, starts>>

-----------------------------------------------------------------------------
(* The specification                                                        *)

Conversation(s) ==
  \/ \E p \in Payers, c \in Cases \cup {NoCase} : StartPayment(s, p, c)
  \/ \E answer \in Answers \ {"none"} : InitiatePayment(s, answer)
  \/ RecordProviderTxId(s)
  \/ RecordAnswer(s)
  \/ RecordPrompt(s)

Webhook(w) ==
  \/ \E m \in sent, archived \in BOOLEAN : ReceiveCallback(w, m, archived)
  \/ DropCallback(w)
  \/ ApplyCallback(w)
  \/ MarkCallback(w)
  \/ CallbackThrows(w)

Poll(w) == PollAnswer(w) \/ PollThrows(w)

Sweep(w) == (\E k \in Key : SweepPick(w, k)) \/ SweepExpire(w)

SettlePayment(w) ==
  \/ SkipIssue(w)
  \/ IssuePolicy(w)
  \/ IssueFails(w)
  \/ AttachSale(w)
  \/ ConfirmCase(w)
  \/ NotifyCustomer(w)

Environment ==
  \/ \E c \in Cases : OfficeIssue(c)
  \/ \E c \in Cases, st \in CaseStatuses : OfficeSetsStatus(c, st)
  \/ \E k \in Key, outcome \in ProvStates : CustomerActs(k, outcome)
  \/ \E k \in Key, st \in PaymentStates \cup {"none", "unknown"} : SendCallback(k, st)
  \/ WebCrash
  \/ \E w \in Pollers \cup Sweepers : CronCrash(w)

Next ==
  \/ \E s \in Sessions : Conversation(s)
  \/ \E w \in Handlers : Webhook(w)
  \/ \E w \in Pollers, k \in Key : PollPick(w, k)
  \/ \E w \in Admins, k \in Key : AdminPick(w, k)
  \/ \E w \in Pollers \cup Admins : Poll(w)
  \/ \E w \in Sweepers : Sweep(w)
  \/ \E w \in Worker : SettlePayment(w)
  \/ Environment

Spec == Init /\ [][Next]_vars

(* What the deployment runs again and again: cron starts the two scripts    *)
(* every minute or two, time passes, and a live process takes its next      *)
(* step.  Customers, callbacks, operators and faults are not fair.         *)
Fairness ==
  \A w \in Sweepers : WF_vars(Sweep(w)) /\ WF_vars(SettlePayment(w))

FairSpec == Spec /\ Fairness

-----------------------------------------------------------------------------
(* What the system gets right, with every actor interleaved                 *)

Paid(k) == prov[k] = "paid"

(* A payment that has its outcome keeps it: no late, repeated or            *)
(* contradictory callback, sweep or answer moves it again ("Nothing may     *)
(* leave it", stateMachine.js).                                             *)
OutcomeIsFinal ==
  [][\A k \in Key : IsTerminal(status[k]) => status'[k] = status[k]]_status

(* No payment is completed, and no policy is bought by a payment, unless    *)
(* the customer really paid: completion comes from the provider only, and   *)
(* so does everything a worker is still about to settle as completed.       *)
CompletedIsPaid == \A k \in Key : status[k] = "completed" => Paid(k)

PolicyIsPaid ==
  \A i \in 1..Len(sales) : sales[i].paidBy \in Key => Paid(sales[i].paidBy)

(* Neither an outcome nor a policy without the customer's money.            *)
PaidFirst == CompletedIsPaid /\ PolicyIsPaid

(* One policy per case, whoever notices the payment first and whatever the  *)
(* office does meanwhile (issuePolicy, "one live sale per case").           *)
OnePolicyPerCase ==
  \A i, j \in 1..Len(sales) : sales[i].case = sales[j].case => i = j

(* The policy linked to a payment covers the case that payment was for,     *)
(* even when another payment or the office issued it (attachSale).          *)
AttachedSaleCoversCase ==
  \A k \in Key : txSale[k] # 0 =>
    /\ txSale[k] \in 1..Len(sales)
    /\ sales[txSale[k]].case = txCase[k]

(* The worker whose transition was real is the only one settling that       *)
(* outcome, and what it settles is what the row says: a redelivery or the   *)
(* sweeper never settles on the same move (processCallback, "Only a REAL    *)
(* move settles").                                                          *)
Settling(w) == job[w].real /\ IsTerminal(job[w].status)

SettledOnce ==
  /\ \A w \in Worker : Settling(w) => status[job[w].tx] = job[w].status
  /\ \A v, w \in Worker : Settling(v) /\ Settling(w) /\ job[v].tx = job[w].tx => v = w

(* Money that came in insures.  A payment links and confirms only a case    *)
(* that has its policy; and unless a statement failed or a process died, a  *)
(* completed payment of a quote has its policy attached, or the worker that *)
(* completed it is on its way there: the callback that moves the row is     *)
(* never taken for the redelivery that settles nothing (processCallback).   *)
CompletedIsInsured ==
  /\ \A w \in Worker :
       job[w].pc \in {"attach", "confirm"} => HasPolicy(txCase[job[w].tx])
  /\ faults = 0 =>
       \A k \in Key : status[k] = "completed" /\ txCase[k] \in Cases =>
         \/ txSale[k] # 0
         \/ \E w \in Worker : /\ Settling(w) /\ job[w].tx = k
                              /\ job[w].pc \in {"marking", "issue", "attach"}

(* The audit trail of a row starts with its creation, each entry starts     *)
(* where the one before ended, and the last one is the present status.      *)
HistoryIsTrail ==
  \A k \in Key : status[k] # "none" =>
    LET h == history[k] IN
    /\ Len(h) > 0 /\ h[1].from = "pending" /\ h[1].to = "pending"
    /\ h[Len(h)].to = status[k]
    /\ \A i \in 2..Len(h) : h[i].from = h[i-1].to /\ RealMove(h[i].from, h[i].to)

(* Each move of a payment is recorded once and settled once.                *)
EachMoveOnce == HistoryIsTrail /\ SettledOnce

(* Every payment ends, whether its callback was lost, its process died      *)
(* before calling the provider or the customer walked away: the sweeper     *)
(* expires what nobody settled.                                             *)
EveryPaymentEnds ==
  \A k \in Key : status[k] # "none" ~> IsTerminal(status[k])

(* What the repository says and the code does not do.                       *)

(* "`completed` is terminal and is the ONLY state that may issue a policy"  *)
(* (stateMachine.js:9): every policy a payment bought is the policy of a    *)
(* completed payment.  The poller settles without a transition.             *)
PolicyOnlyFromCompleted ==
  \A i \in 1..Len(sales) :
    sales[i].paidBy \in Key => status[sales[i].paidBy] = "completed"

(* "a retry after a failure is a new payment and must not be deduplicated   *)
(* against the one that failed" (service.js:94).                            *)
RetryIsANewPayment ==
  [][\A s \in Sessions :
       start[s].pc = "idle" /\ start'[s].pc = "calling"
         => status[start'[s].tx] # "failed"]_vars

(* The payments implement their promise: settled once and insured once,     *)
(* with the money in (PaymentPromise).                                      *)
PaidPayments == {k \in Key : Paid(k)}
OutcomeOf == [k \in Key |-> IF IsTerminal(status[k]) THEN status[k] ELSE "open"]
PoliciesOf(c) == {i \in 1..Len(sales) : sales[i].case = c}
InsuredWith == [c \in Cases |-> {sales[i].paidBy : i \in PoliciesOf(c)}]

Promise == INSTANCE PaymentPromise WITH
  Outcomes <- TerminalStates,
  paid <- PaidPayments, outcome <- OutcomeOf, insured <- InsuredWith

KeepsPromise == Promise!PromiseSpec
=============================================================================
