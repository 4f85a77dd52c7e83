---------------------------- MODULE PaymentsProofs ----------------------------
(***************************************************************************)
(* Proofs about Payments, for any number of conversations, payers, quotes, *)
(* webhook requests, pollers, operators and sweepers.                      *)
(***************************************************************************)
EXTENDS Payments, SequenceTheorems, TLAPS

(* The rows a transition may write keep their types: the state is one of    *)
(* the machine's, the audit trail a sequence of moves.                      *)
LEMMA AppendHistoryType ==
  ASSUME NEW S, NEW h \in Seq(S), NEW e \in S
  PROVE  AppendHistory(h, e) \in Seq(S)
<1> DEFINE next == Append(h, e)
<1>1. next \in Seq(S) /\ Len(next) \in Nat
  OBVIOUS
<1>2. CASE Len(next) > HistoryCap
  <2>1. Len(next) - HistoryCap + 1 \in 1..Len(next)
    BY <1>1, <1>2 DEF HistoryCap
  <2>2. SubSeq(next, Len(next) - HistoryCap + 1, Len(next)) \in Seq(S)
    BY <1>1, <2>1, SubSeqProperties
  <2> QED  BY <1>2, <2>2 DEF AppendHistory
<1>3. CASE ~(Len(next) > HistoryCap)
  BY <1>1, <1>3 DEF AppendHistory
<1> QED  BY <1>2, <1>3

(* A move that commits starts and ends in known states, and never starts    *)
(* in a terminal one.                                                       *)
LEMMA RealMoveStates ==
  ASSUME NEW from, NEW to, RealMove(from, to)
  PROVE  from \in PaymentStates /\ to \in PaymentStates /\ ~IsTerminal(from) /\ from # to
BY DEF RealMove, Verdict, IsKnownState

LEMMA StatusOfType == \A p : StatusOf(p) \in PaymentStates
BY DEF StatusOf, PaymentStates

LEMMA TransitionType ==
  ASSUME TypeOK, NEW k, NEW to, Transition(k, to)
  PROVE  /\ status' \in [Key -> PaymentStates \cup {"none"}]
         /\ history' \in [Key -> Seq([from : PaymentStates, to : PaymentStates])]
<1> USE DEF TypeOK
<1>1. CASE RealMove(status[k], to)
  <2>1. status[k] \in PaymentStates /\ to \in PaymentStates
    BY <1>1, RealMoveStates
  <2>2. HistoryEntry(status[k], to) \in [from : PaymentStates, to : PaymentStates]
    BY <2>1 DEF HistoryEntry
  <2>3. k \in Key => AppendHistory(history[k], HistoryEntry(status[k], to))
                       \in Seq([from : PaymentStates, to : PaymentStates])
    BY <2>2, AppendHistoryType
  <2>4. /\ status' = [status EXCEPT ![k] = to]
        /\ history' = [history EXCEPT ![k] = AppendHistory(history[k], HistoryEntry(status[k], to))]
    BY <1>1 DEF Transition
  <2>5. status \in [Key -> PaymentStates \cup {"none"}]
        /\ history \in [Key -> Seq([from : PaymentStates, to : PaymentStates])]
    OBVIOUS
  <2> HIDE DEF TypeOK
  <2>6. status' \in [Key -> PaymentStates \cup {"none"}]
    BY <2>1, <2>4, <2>5
  <2>7. history' \in [Key -> Seq([from : PaymentStates, to : PaymentStates])]
    BY <2>3, <2>4, <2>5
  <2> QED  BY <2>6, <2>7
<1>2. CASE ~RealMove(status[k], to)
  BY <1>2 DEF Transition
<1> QED  BY <1>1, <1>2

-----------------------------------------------------------------------------
(* Type correctness                                                        *)

USE NoTxAssumption, NoCaseAssumption, QuotesAssumption, StrayAssumption,
    ReferenceAssumption, BoundsAssumption

LEMMA InitType == Init => TypeOK
BY DEF Init, TypeOK, NotStarting, NoJob, StartType, JobType, StartPCs, JobPCs,
       Answers, ProvStates,
       CaseStatuses

(* What a process holds keeps its shape through the updates the actions     *)
(* make to it.                                                             *)
LEMMA StartTypes ==
  ASSUME NEW r \in StartType, r.pc \in StartPCs
  PROVE  /\ r.tx \in Key
         /\ \A pc \in StartPCs : [r EXCEPT !.pc = pc] \in StartType
         /\ \A pc \in StartPCs, a \in Answers :
              [r EXCEPT !.pc = pc, !.answer = a] \in StartType
<1>1. r \in BusyStart
  BY DEF StartType, NotStarting, StartPCs
<1>2. r.tx \in Key
  BY <1>1 DEF BusyStart
<1>3. ASSUME NEW pc \in StartPCs
      PROVE  [r EXCEPT !.pc = pc] \in BusyStart
  BY <1>1 DEF BusyStart
<1>4. ASSUME NEW pc \in StartPCs, NEW a \in Answers
      PROVE  [r EXCEPT !.pc = pc, !.answer = a] \in BusyStart
  BY <1>1 DEF BusyStart
<1> QED  BY <1>2, <1>3, <1>4 DEF StartType

LEMMA JobTypes ==
  ASSUME NEW r \in JobType, r.pc \in JobPCs
  PROVE  /\ r \in BusyJob /\ r.tx \in Key
         /\ r.status \in PaymentStates \cup {"none", "unknown"}
         /\ \A pc \in JobPCs : [r EXCEPT !.pc = pc] \in JobType
         /\ \A pc \in JobPCs, b \in BOOLEAN :
              [r EXCEPT !.pc = pc, !.real = b] \in JobType
         /\ \A pc \in JobPCs, i \in Nat :
              [r EXCEPT !.pc = pc, !.sale = i] \in JobType
         /\ \A pc \in JobPCs, st \in PaymentStates :
              [r EXCEPT !.pc = pc, !.status = st] \in JobType
<1>1. r \in BusyJob
  BY DEF JobType, NoJob, JobPCs
<1>2. r.tx \in Key /\ r.status \in PaymentStates \cup {"none", "unknown"}
  BY <1>1 DEF BusyJob
<1>3. ASSUME NEW pc \in JobPCs
      PROVE  [r EXCEPT !.pc = pc] \in BusyJob
  BY <1>1 DEF BusyJob
<1>4. ASSUME NEW pc \in JobPCs, NEW b \in BOOLEAN
      PROVE  [r EXCEPT !.pc = pc, !.real = b] \in BusyJob
  BY <1>1 DEF BusyJob
<1>5. ASSUME NEW pc \in JobPCs, NEW i \in Nat
      PROVE  [r EXCEPT !.pc = pc, !.sale = i] \in BusyJob
  BY <1>1 DEF BusyJob
<1>6. ASSUME NEW pc \in JobPCs, NEW st \in PaymentStates
      PROVE  [r EXCEPT !.pc = pc, !.status = st] \in BusyJob
  BY <1>1 DEF BusyJob
<1> QED  BY <1>1, <1>2, <1>3, <1>4, <1>5, <1>6 DEF JobType

LEMMA NewJobTypes ==
  ASSUME NEW pc \in JobPCs, NEW k \in Key, NEW b \in BOOLEAN,
         NEW st \in PaymentStates \cup {"none", "unknown"}
  PROVE  /\ [NoJob EXCEPT !.pc = pc, !.tx = k] \in JobType
         /\ [NoJob EXCEPT !.pc = pc, !.tx = k, !.status = st] \in JobType
         /\ [NoJob EXCEPT !.pc = pc, !.tx = k, !.status = st, !.row = b] \in JobType
<1>1. [NoJob EXCEPT !.pc = pc, !.tx = k] \in BusyJob
  BY DEF NoJob, BusyJob
<1>2. [NoJob EXCEPT !.pc = pc, !.tx = k, !.status = st] \in BusyJob
  BY DEF NoJob, BusyJob
<1>3. [NoJob EXCEPT !.pc = pc, !.tx = k, !.status = st, !.row = b] \in BusyJob
  BY DEF NoJob, BusyJob
<1> QED  BY <1>1, <1>2, <1>3 DEF JobType

LEMMA ConversationType ==
  ASSUME TypeOK, NEW s \in Sessions, Conversation(s)
  PROVE  TypeOK'
<1> USE DEF TypeOK, txVars, provVars, bounds
<1>0. start[s].pc \in StartPCs => start[s].tx \in Key
  BY StartTypes
<1>1. ASSUME NEW p \in Payers, NEW c \in Cases \cup {NoCase}, StartPayment(s, p, c)
      PROVE  TypeOK'
  <2> DEFINE k == IdempotencyKey(s, p)
  <2>1. k \in Key
    BY DEF IdempotencyKey, Key
  <2>2. <<HistoryEntry("pending", "pending")>> \in Seq([from : PaymentStates, to : PaymentStates])
    BY DEF HistoryEntry, PaymentStates
  <2>3. [pc |-> "calling", tx |-> k, answer |-> "none"] \in StartType
    BY <2>1 DEF BusyStart, StartType, StartPCs, Answers
  <2>4. status' \in [Key -> PaymentStates \cup {"none"}]
    <3>1. "pending" \in PaymentStates
      BY DEF PaymentStates
    <3>2. [status EXCEPT ![k] = "pending"] \in [Key -> PaymentStates \cup {"none"}]
      BY <2>1, <3>1
    <3>3. status' = status \/ status' = [status EXCEPT ![k] = "pending"]
      BY <1>1 DEF StartPayment
    <3> QED  BY <3>2, <3>3
  <2>5. history' \in [Key -> Seq([from : PaymentStates, to : PaymentStates])]
    BY <1>1, <2>1, <2>2 DEF StartPayment
  <2>6. txCase' \in [Key -> Cases \cup {NoCase}]
    BY <1>1, <2>1 DEF StartPayment
  <2>7. start' \in [Sessions -> StartType]
    BY <1>1, <2>3 DEF StartPayment
  <2>8. starts' \in [Sessions -> 0..MaxStarts]
    BY <1>1 DEF StartPayment
  <2> QED  BY <1>1, <2>4, <2>5, <2>6, <2>7, <2>8 DEF StartPayment
<1>2. ASSUME NEW answer \in Answers \ {"none"}, InitiatePayment(s, answer)
      PROVE  TypeOK'
  <2>1. start[s].tx \in Key
    BY <1>0, <1>2 DEF InitiatePayment, StartPCs
  <2>2. Prompted(start[s].tx) \in [Key -> ProvStates]
    BY <2>1 DEF Prompted, ProvStates
  <2>3. prov' \in [Key -> ProvStates]
    BY <1>2, <2>2 DEF InitiatePayment
  <2>4. start' \in [Sessions -> StartType]
    BY <1>2, StartTypes DEF InitiatePayment, StartPCs
  <2> QED  BY <1>2, <2>3, <2>4 DEF InitiatePayment
<1>3. CASE RecordProviderTxId(s)
  <2>1. start' \in [Sessions -> StartType]
    BY <1>3, StartTypes DEF RecordProviderTxId, StartPCs
  <2>2. providerTxId' \in [Key -> BOOLEAN]
    BY <1>3 DEF RecordProviderTxId
  <2>3. faults' \in 0..MaxFaults
    BY <1>3 DEF RecordProviderTxId, Fault, NoFault
  <2> QED  BY <1>3, <2>1, <2>2, <2>3 DEF RecordProviderTxId
<1>4. CASE RecordAnswer(s)
  <2>1. status' \in [Key -> PaymentStates \cup {"none"}]
    BY <1>4, TransitionType DEF RecordAnswer
  <2>2. history' \in [Key -> Seq([from : PaymentStates, to : PaymentStates])]
    BY <1>4, TransitionType DEF RecordAnswer
  <2>3. start' \in [Sessions -> StartType]
    <3>1. NotStarting \in StartType
      BY DEF StartType
    <3>2. [start[s] EXCEPT !.pc = "prompting"] \in StartType
      BY <1>4, StartTypes DEF RecordAnswer, StartPCs
    <3> QED  BY <1>4, <3>1, <3>2 DEF RecordAnswer
  <2>4. faults' \in 0..MaxFaults
    BY <1>4 DEF RecordAnswer, Fault, NoFault
  <2> QED  BY <1>4, <2>1, <2>2, <2>3, <2>4 DEF RecordAnswer
<1>5. CASE RecordPrompt(s)
  <2>1. status' \in [Key -> PaymentStates \cup {"none"}]
    BY <1>5, TransitionType DEF RecordPrompt
  <2>2. history' \in [Key -> Seq([from : PaymentStates, to : PaymentStates])]
    BY <1>5, TransitionType DEF RecordPrompt
  <2>3. start' \in [Sessions -> StartType]
    BY <1>5 DEF RecordPrompt, StartType
  <2>4. faults' \in 0..MaxFaults
    BY <1>5 DEF RecordPrompt, Fault, NoFault
  <2> QED  BY <1>5, <2>1, <2>2, <2>3, <2>4 DEF RecordPrompt
<1> HIDE DEF TypeOK
<1> QED  BY <1>1, <1>2, <1>3, <1>4, <1>5 DEF Conversation

LEMMA WebhookType ==
  ASSUME TypeOK, NEW w \in Handlers, Webhook(w)
  PROVE  TypeOK'
<1> USE DEF TypeOK, txVars, provVars, bounds
<1>0. w \in Worker /\ NoJob \in JobType
  BY DEF Worker, JobType
<1>1. ASSUME NEW m \in sent, NEW archived \in BOOLEAN, ReceiveCallback(w, m, archived)
      PROVE  TypeOK'
  <2>1. m.tx \in Key /\ m.status \in PaymentStates \cup {"none", "unknown"}
    BY DEF Messages
  <2>2. job' \in [Worker -> JobType]
    BY <1>0, <1>1, <2>1, NewJobTypes DEF ReceiveCallback, JobPCs
  <2>3. faults' \in 0..MaxFaults
    BY <1>1 DEF ReceiveCallback, Fault, NoFault
  <2> QED  BY <1>1, <2>2, <2>3 DEF ReceiveCallback
<1>2. CASE DropCallback(w)
  <2>1. job' \in [Worker -> JobType]
    BY <1>0, <1>2, JobTypes DEF DropCallback, JobPCs
  <2> QED  BY <1>2, <2>1 DEF DropCallback
<1>3. CASE ApplyCallback(w)
  <2>1. status' \in [Key -> PaymentStates \cup {"none"}]
    BY <1>3, TransitionType DEF ApplyCallback
  <2>2. history' \in [Key -> Seq([from : PaymentStates, to : PaymentStates])]
    BY <1>3, TransitionType DEF ApplyCallback
  <2>3. job' \in [Worker -> JobType]
    <3>1. RealMove(status[job[w].tx], job[w].status) \in BOOLEAN
      BY DEF RealMove
    <3>2. [job[w] EXCEPT !.pc = "marking", !.real = RealMove(status[job[w].tx], job[w].status)]
            \in JobType
      BY <1>0, <1>3, <3>1, JobTypes DEF ApplyCallback, JobPCs
    <3> QED  BY <1>3, <3>2 DEF ApplyCallback
  <2> QED  BY <1>3, <2>1, <2>2, <2>3 DEF ApplyCallback
<1>4. CASE MarkCallback(w)
  <2>1. job' \in [Worker -> JobType]
    BY <1>0, <1>4, JobTypes DEF MarkCallback, JobPCs
  <2>2. processed' \subseteq Key
    BY <1>0, <1>4, JobTypes DEF MarkCallback, Mark, JobPCs
  <2> QED  BY <1>4, <2>1, <2>2 DEF MarkCallback
<1>5. CASE CallbackThrows(w)
  <2>1. job' \in [Worker -> JobType]
    BY <1>0, <1>5 DEF CallbackThrows
  <2>2. processed' \subseteq Key
    <3>1. job[w].tx \in Key
      BY <1>0, <1>5, JobTypes DEF CallbackThrows, JobPCs
    <3> QED  BY <1>5, <3>1 DEF CallbackThrows, Mark
  <2>3. faults' \in 0..MaxFaults
    BY <1>5 DEF CallbackThrows, Fault
  <2> QED  BY <1>5, <2>1, <2>2, <2>3 DEF CallbackThrows
<1> HIDE DEF TypeOK
<1> QED  BY <1>1, <1>2, <1>3, <1>4, <1>5 DEF Webhook

LEMMA PollType ==
  ASSUME TypeOK, NEW w \in Worker,
         Poll(w) \/ \E k \in Key : AskAbout(w, k)
  PROVE  TypeOK'
<1> USE DEF TypeOK, txVars, provVars, bounds
<1>1. ASSUME NEW k \in Key, AskAbout(w, k)
      PROVE  TypeOK'
  <2>1. job' \in [Worker -> JobType]
    BY <1>1, NewJobTypes DEF AskAbout, JobPCs
  <2> QED  BY <1>1, <2>1 DEF AskAbout
<1>2. CASE PollAnswer(w)
  <2> DEFINE said == StatusOf(prov[job[w].tx])
  <2>1. job[w].tx \in Key
    BY <1>2, JobTypes DEF PollAnswer, JobPCs
  <2>2. NoJob \in JobType /\ [job[w] EXCEPT !.pc = "issue", !.status = said] \in JobType
    BY <1>2, JobTypes, StatusOfType DEF PollAnswer, JobPCs, JobType
  <2>3. job' \in [Worker -> JobType]
    BY <1>2, <2>2 DEF PollAnswer
  <2>4. providerTxId' \in [Key -> BOOLEAN]
    BY <1>2 DEF PollAnswer
  <2>5. faults' \in 0..MaxFaults
    BY <1>2 DEF PollAnswer, Fault, NoFault
  <2> QED  BY <1>2, <2>3, <2>4, <2>5 DEF PollAnswer
<1>3. CASE PollThrows(w)
  <2>1. job' \in [Worker -> JobType]
    BY <1>3 DEF PollThrows, JobType
  <2> QED  BY <1>3, <2>1 DEF PollThrows
<1> HIDE DEF TypeOK
<1> QED  BY <1>1, <1>2, <1>3 DEF Poll

LEMMA SweepType ==
  ASSUME TypeOK, NEW w \in Worker, Sweep(w)
  PROVE  TypeOK'
<1> USE DEF TypeOK, txVars, provVars, bounds
<1>1. ASSUME NEW k \in Key, SweepPick(w, k)
      PROVE  TypeOK'
  <2>1. "expired" \in PaymentStates
    BY DEF PaymentStates
  <2>2. job' \in [Worker -> JobType]
    BY <1>1, <2>1, NewJobTypes DEF SweepPick, JobPCs
  <2> QED  BY <1>1, <2>2 DEF SweepPick
<1>2. CASE SweepExpire(w)
  <2>1. status' \in [Key -> PaymentStates \cup {"none"}]
    BY <1>2, TransitionType DEF SweepExpire
  <2>2. history' \in [Key -> Seq([from : PaymentStates, to : PaymentStates])]
    BY <1>2, TransitionType DEF SweepExpire
  <2>3. NoJob \in JobType /\ [job[w] EXCEPT !.pc = "issue", !.real = TRUE] \in JobType
    BY <1>2, JobTypes DEF SweepExpire, JobPCs, JobType
  <2>4. job' \in [Worker -> JobType]
    BY <1>2, <2>3 DEF SweepExpire
  <2> QED  BY <1>2, <2>1, <2>2, <2>4 DEF SweepExpire
<1> HIDE DEF TypeOK
<1> QED  BY <1>1, <1>2 DEF Sweep

LEMMA SettlePaymentType ==
  ASSUME TypeOK, NEW w \in Worker, SettlePayment(w)
  PROVE  TypeOK'
<1> USE DEF TypeOK, txVars, provVars, bounds
<1>0. /\ job[w].pc \in JobPCs => job[w].tx \in Key
      /\ job[w].pc \in JobPCs => job[w] \in BusyJob
      /\ Len(sales) \in Nat
      /\ \A x \in Sales : Append(sales, x) \in Seq(Sales)
  <2>1. job[w] \in JobType
    OBVIOUS
  <2>2. Len(sales) \in Nat /\ \A x \in Sales : Append(sales, x) \in Seq(Sales)
    OBVIOUS
  <2> QED  BY <2>1, <2>2, JobTypes
<1>1. CASE SkipIssue(w)
  <2>1. job' \in [Worker -> JobType]
    BY <1>1, JobTypes DEF SkipIssue, JobPCs
  <2> QED  BY <1>1, <2>1 DEF SkipIssue
<1>2. CASE IssuePolicy(w)
  <2>1. job[w].tx \in Key /\ txCase[job[w].tx] \in Cases
    BY <1>0, <1>2 DEF IssuePolicy, JobPCs
  <2>2. [case |-> txCase[job[w].tx], paidBy |-> job[w].tx] \in Sales
    BY <2>1 DEF Sales
  <2>3. sales' \in Seq(Sales)
    <3>1. \/ sales' = sales
          \/ sales' = Append(sales, [case |-> txCase[job[w].tx], paidBy |-> job[w].tx])
      BY <1>2 DEF IssuePolicy
    <3>2. Append(sales, [case |-> txCase[job[w].tx], paidBy |-> job[w].tx]) \in Seq(Sales)
      BY <1>0, <2>2
    <3>3. sales \in Seq(Sales)
      OBVIOUS
    <3> HIDE DEF TypeOK
    <3> QED  BY <3>1, <3>2, <3>3
  <2>4. ASSUME NEW i \in Nat
        PROVE  [job[w] EXCEPT !.pc = "attach", !.sale = i] \in JobType
    BY <1>2, JobTypes DEF IssuePolicy, JobPCs
  <2>5. job' \in [Worker -> JobType]
    <3> DEFINE gets(i) == job' = [job EXCEPT ![w] = [job[w] EXCEPT !.pc = "attach", !.sale = i]]
    <3>1. CASE HasPolicy(txCase[job[w].tx])
      <4>1. PICK i \in 1..Len(sales) : gets(i)
        BY <1>2, <3>1 DEF IssuePolicy
      <4>2. i \in Nat
        BY <1>0
      <4>3. [job[w] EXCEPT !.pc = "attach", !.sale = i] \in JobType
        BY <2>4, <4>2
      <4> QED  BY <4>1, <4>3
    <3>2. CASE ~HasPolicy(txCase[job[w].tx])
      <4>1. gets(Len(sales) + 1)
        BY <1>2, <3>2 DEF IssuePolicy
      <4>2. Len(sales) + 1 \in Nat
        BY <1>0
      <4>3. [job[w] EXCEPT !.pc = "attach", !.sale = Len(sales) + 1] \in JobType
        BY <2>4, <4>2
      <4> QED  BY <4>1, <4>3
    <3> QED  BY <3>1, <3>2
  <2> QED  BY <1>2, <2>3, <2>5 DEF IssuePolicy
<1>3. CASE IssueFails(w)
  <2>1. job' \in [Worker -> JobType]
    BY <1>3, JobTypes DEF IssueFails, JobPCs
  <2>2. faults' \in 0..MaxFaults
    BY <1>0, <1>3 DEF IssueFails, Fault, NoFault
  <2> QED  BY <1>3, <2>1, <2>2 DEF IssueFails
<1>4. CASE AttachSale(w)
  <2>1. job' \in [Worker -> JobType]
    BY <1>4, JobTypes DEF AttachSale, JobPCs
  <2>2. job[w].sale \in Nat
    BY <1>0, <1>4 DEF AttachSale, JobPCs, BusyJob
  <2>3. txSale' \in [Key -> Nat]
    <3>1. \/ txSale' = txSale
          \/ txSale' = [txSale EXCEPT ![job[w].tx] = IF @ = 0 THEN job[w].sale ELSE @]
      BY <1>4 DEF AttachSale
    <3>2. txSale \in [Key -> Nat]
      OBVIOUS
    <3> HIDE DEF TypeOK
    <3> QED  BY <2>2, <3>1, <3>2
  <2>4. faults' \in 0..MaxFaults
    BY <1>4 DEF AttachSale, Fault, NoFault
  <2> QED  BY <1>4, <2>1, <2>3, <2>4 DEF AttachSale
<1>5. CASE ConfirmCase(w)
  <2>1. job' \in [Worker -> JobType]
    <3>1. [job[w] EXCEPT !.pc = "notify"] \in JobType
      BY <1>5, JobTypes DEF ConfirmCase, JobPCs
    <3> QED  BY <1>5, <3>1 DEF ConfirmCase
  <2>2. caseStatus' \in [Cases -> CaseStatuses]
    BY <1>5 DEF ConfirmCase, CaseStatuses
  <2>3. faults' \in 0..MaxFaults
    BY <1>5 DEF ConfirmCase, Fault, NoFault
  <2> QED  BY <1>5, <2>1, <2>2, <2>3 DEF ConfirmCase
<1>6. CASE NotifyCustomer(w)
  <2>1. job' \in [Worker -> JobType]
    BY <1>6 DEF NotifyCustomer, JobType
  <2> QED  BY <1>6, <2>1 DEF NotifyCustomer
<1> HIDE DEF TypeOK
<1> QED  BY <1>1, <1>2, <1>3, <1>4, <1>5, <1>6 DEF SettlePayment

LEMMA EnvironmentType ==
  ASSUME TypeOK, Environment
  PROVE  TypeOK'
<1> USE DEF TypeOK, txVars, provVars, bounds
<1>1. ASSUME NEW c \in Cases, OfficeIssue(c)
      PROVE  TypeOK'
  <2>1. [case |-> c, paidBy |-> NoTx] \in Sales
    BY DEF Sales
  <2>2. sales' \in Seq(Sales)
    BY <1>1, <2>1 DEF OfficeIssue
  <2> QED  BY <1>1, <2>2 DEF OfficeIssue
<1>2. ASSUME NEW k \in Key, NEW outcome \in ProvStates, CustomerActs(k, outcome)
      PROVE  TypeOK'
  <2>1. prov' \in [Key -> ProvStates]
    BY <1>2 DEF CustomerActs
  <2> QED  BY <1>2, <2>1 DEF CustomerActs
<1>3. ASSUME NEW k \in Key, NEW st \in PaymentStates \cup {"none", "unknown"},
             SendCallback(k, st)
      PROVE  TypeOK'
  <2>1. [tx |-> k, status |-> st] \in Messages
    BY DEF Messages
  <2>2. sent' \subseteq Messages
    BY <1>3, <2>1 DEF SendCallback
  <2> QED  BY <1>3, <2>2 DEF SendCallback
<1>4. CASE WebCrash
  <2>1. start' \in [Sessions -> StartType]
    BY <1>4 DEF WebCrash, StartType
  <2>2. NoJob \in JobType
    BY DEF JobType
  <2>3. job' \in [Worker -> JobType]
    BY <1>4, <2>2 DEF WebCrash
  <2>4. faults' \in 0..MaxFaults
    BY <1>4 DEF WebCrash, Fault
  <2> QED  BY <1>4, <2>1, <2>3, <2>4 DEF WebCrash
<1>5. ASSUME NEW w \in Pollers \cup Sweepers, CronCrash(w)
      PROVE  TypeOK'
  <2>1. job' \in [Worker -> JobType]
    BY <1>5 DEF CronCrash, JobType
  <2>2. faults' \in 0..MaxFaults
    BY <1>5 DEF CronCrash, Fault
  <2> QED  BY <1>5, <2>1, <2>2 DEF CronCrash
<1>6. ASSUME NEW c \in Cases, NEW st \in CaseStatuses, OfficeSetsStatus(c, st)
      PROVE  TypeOK'
  <2>1. caseStatus' \in [Cases -> CaseStatuses]
    BY <1>6 DEF OfficeSetsStatus
  <2> QED  BY <1>6, <2>1 DEF OfficeSetsStatus
<1> HIDE DEF TypeOK
<1> QED  BY <1>1, <1>2, <1>3, <1>4, <1>5, <1>6 DEF Environment

LEMMA TypeKept == TypeOK /\ Next => TypeOK'
<1> SUFFICES ASSUME TypeOK, Next
             PROVE  TypeOK'
  OBVIOUS
<1>1. CASE \E s \in Sessions : Conversation(s)
  BY <1>1, ConversationType
<1>2. CASE \E w \in Handlers : Webhook(w)
  BY <1>2, WebhookType
<1>3. CASE \/ \E w \in Pollers, k \in Key : PollPick(w, k)
           \/ \E w \in Admins, k \in Key : AdminPick(w, k)
  BY <1>3, PollType DEF Worker, PollPick, AdminPick
<1>4. CASE \E w \in Pollers \cup Admins : Poll(w)
  BY <1>4, PollType DEF Worker
<1>5. CASE \E w \in Sweepers : Sweep(w)
  BY <1>5, SweepType DEF Worker
<1>6. CASE \E w \in Worker : SettlePayment(w)
  BY <1>6, SettlePaymentType
<1>7. CASE Environment
  BY <1>7, EnvironmentType
<1> QED  BY <1>1, <1>2, <1>3, <1>4, <1>5, <1>6, <1>7 DEF Next

(* Whatever the interleaving, every row, message, job and step keeps its    *)
(* shape: nothing but a known state is ever written to a payment, and a     *)
(* busy worker always holds a real payment.                                 *)
THEOREM TypeCorrect == Spec => []TypeOK
<1>1. TypeOK /\ UNCHANGED vars => TypeOK'
  BY DEF vars, TypeOK
<1> QED  BY <1>1, InitType, TypeKept, PTL DEF Spec

-----------------------------------------------------------------------------
(* What each process leaves alone                                          *)

LEMMA ConversationFrame ==
  ASSUME NEW s, Conversation(s)
  PROVE  UNCHANGED <<txSale, processed, sales, caseStatus, sent, job>>
<1>1. ASSUME NEW p, NEW c, StartPayment(s, p, c)
      PROVE  UNCHANGED <<txSale, processed, sales, caseStatus, sent, job>>
  BY <1>1 DEF StartPayment
<1>2. ASSUME NEW answer, InitiatePayment(s, answer)
      PROVE  UNCHANGED <<txSale, processed, sales, caseStatus, sent, job>>
  BY <1>2 DEF InitiatePayment, txVars
<1> QED
  BY <1>1, <1>2 DEF Conversation, RecordProviderTxId, RecordAnswer, RecordPrompt, provVars

LEMMA WebhookFrame ==
  ASSUME NEW w, Webhook(w)
  PROVE  UNCHANGED <<txCase, txSale, providerTxId, sales, caseStatus, prov, sent, start>>
<1>1. ASSUME NEW m, NEW archived, ReceiveCallback(w, m, archived)
      PROVE  UNCHANGED <<txCase, txSale, providerTxId, sales, caseStatus, prov, sent, start>>
  BY <1>1 DEF ReceiveCallback, txVars, provVars
<1> QED
  BY <1>1 DEF Webhook, DropCallback, ApplyCallback, MarkCallback, CallbackThrows, txVars, provVars

LEMMA PollFrame ==
  ASSUME NEW w, Poll(w) \/ \E k \in Key : AskAbout(w, k)
  PROVE  UNCHANGED <<status, history, txCase, txSale, processed, sales, caseStatus,
                     prov, sent, start>>
BY DEF Poll, AskAbout, PollAnswer, PollThrows, txVars, provVars

LEMMA SweepFrame ==
  ASSUME NEW w, Sweep(w)
  PROVE  UNCHANGED <<txCase, txSale, providerTxId, processed, sales, caseStatus,
                     prov, sent, start>>
BY DEF Sweep, SweepPick, SweepExpire, txVars, provVars

LEMMA SettlePaymentFrame ==
  ASSUME NEW w, SettlePayment(w)
  PROVE  UNCHANGED <<status, history, txCase, providerTxId, processed, prov, sent, start>>
<1> USE DEF txVars, provVars
<1>1. CASE IssuePolicy(w)
  BY <1>1 DEF IssuePolicy
<1> QED
  BY <1>1 DEF SettlePayment, SkipIssue, IssueFails, AttachSale, ConfirmCase, NotifyCustomer

LEMMA EnvironmentFrame ==
  ASSUME TypeOK, Environment
  PROVE  /\ UNCHANGED <<txVars, processed>>
         /\ \/ UNCHANGED <<prov, sent, start, job>> /\ \E c \in Cases : OfficeIssue(c)
            \/ UNCHANGED <<sales, prov, sent, start, job>>
            \/ UNCHANGED <<sales, sent, start, job>> /\ \E k \in Key, o \in ProvStates : CustomerActs(k, o)
            \/ /\ UNCHANGED <<sales, prov, start, job>>
               /\ \E k \in Key, st \in PaymentStates \cup {"none", "unknown"} : SendCallback(k, st)
            \/ UNCHANGED <<sales, prov, sent>> /\ \A w \in Worker : job'[w] \in {job[w], NoJob}
<1>1. ASSUME WebCrash \/ \E w \in Pollers \cup Sweepers : CronCrash(w)
      PROVE  \A w \in Worker : job'[w] \in {job[w], NoJob}
  BY <1>1 DEF WebCrash, CronCrash, TypeOK
<1> QED
  BY <1>1 DEF Environment, OfficeIssue, OfficeSetsStatus, CustomerActs, SendCallback, WebCrash,
              CronCrash,
              txVars, provVars

-----------------------------------------------------------------------------
(* How a payment's state moves                                             *)

LEMMA TransitionMoves ==
  ASSUME TypeOK, NEW k, NEW to, Transition(k, to), NEW j \in Key, status'[j] # status[j]
  PROVE  j = k /\ RealMove(status[j], to) /\ status'[j] = to
BY DEF TypeOK, Transition

(* Only four steps write a status: the creation of the row, the answer to   *)
(* its start, a callback and the sweeper.                                  *)
LEMMA StatusMoves ==
  ASSUME TypeOK, Next, NEW j \in Key, status'[j] # status[j]
  PROVE  \/ status[j] = "none" /\ status'[j] = "pending"
         \/ /\ RealMove(status[j], status'[j])
            /\ \/ status'[j] \in {"failed", "initiated", "awaiting_confirmation", "expired"}
               \/ \E w \in Handlers : /\ job[w].pc = "matching" /\ job[w].tx = j
                                       /\ status'[j] = job[w].status
<1>1. ASSUME NEW s \in Sessions, Conversation(s)
      PROVE  \/ status[j] = "none" /\ status'[j] = "pending"
             \/ /\ RealMove(status[j], status'[j])
                /\ status'[j] \in {"failed", "initiated", "awaiting_confirmation"}
  <2>1. ASSUME NEW p \in Payers, NEW c \in Cases \cup {NoCase}, StartPayment(s, p, c)
        PROVE  status[j] = "none" /\ status'[j] = "pending"
    BY <2>1 DEF StartPayment, TypeOK
  <2>2. ASSUME NEW answer, InitiatePayment(s, answer)
        PROVE  FALSE
    BY <2>2 DEF InitiatePayment, txVars
  <2>3. CASE RecordProviderTxId(s)
    BY <2>3 DEF RecordProviderTxId
  <2>4. CASE RecordAnswer(s)
    <3>1. Transition(start[s].tx, AnsweredState(start[s].answer))
      BY <2>4 DEF RecordAnswer
    <3>2. AnsweredState(start[s].answer) \in {"failed", "initiated"}
      BY DEF AnsweredState
    <3> QED  BY <3>1, <3>2, TransitionMoves
  <2>5. CASE RecordPrompt(s)
    <3>1. Transition(start[s].tx, "awaiting_confirmation")
      BY <2>5 DEF RecordPrompt
    <3> QED  BY <3>1, TransitionMoves
  <2> QED  BY <1>1, <2>1, <2>2, <2>3, <2>4, <2>5 DEF Conversation
<1>2. ASSUME NEW w \in Handlers, Webhook(w)
      PROVE  /\ RealMove(status[j], status'[j])
             /\ job[w].pc = "matching" /\ job[w].tx = j /\ status'[j] = job[w].status
  <2>1. CASE ApplyCallback(w)
    BY <2>1, TransitionMoves DEF ApplyCallback
  <2>2. ASSUME NEW m, NEW archived, ReceiveCallback(w, m, archived)
        PROVE  FALSE
    BY <2>2 DEF ReceiveCallback, txVars
  <2>3. CASE DropCallback(w) \/ MarkCallback(w) \/ CallbackThrows(w)
    BY <2>3 DEF DropCallback, MarkCallback, CallbackThrows, txVars
  <2> QED  BY <1>2, <2>1, <2>2, <2>3 DEF Webhook
<1>3. ASSUME NEW w \in Sweepers, Sweep(w)
      PROVE  RealMove(status[j], status'[j]) /\ status'[j] = "expired"
  <2>1. ASSUME NEW k, SweepPick(w, k)
        PROVE  FALSE
    BY <2>1 DEF SweepPick, txVars
  <2>2. CASE SweepExpire(w)
    BY <2>2, TransitionMoves DEF SweepExpire
  <2> QED  BY <1>3, <2>1, <2>2 DEF Sweep
<1>4. ASSUME NEW w, Poll(w) \/ \E k \in Key : PollPick(w, k) \/ AdminPick(w, k)
      PROVE  FALSE
  BY <1>4, PollFrame DEF PollPick, AdminPick
<1>5. ASSUME NEW w, SettlePayment(w)
      PROVE  FALSE
  BY <1>5, SettlePaymentFrame
<1>6. CASE Environment
  BY <1>6, EnvironmentFrame DEF txVars
<1> QED  BY <1>1, <1>2, <1>3, <1>4, <1>5, <1>6 DEF Next

(* A payment keeps its outcome through every step of every actor.           *)
THEOREM FinalOutcome == Spec => OutcomeIsFinal
<1>1. TypeOK /\ [Next]_vars => [\A k \in Key : IsTerminal(status[k]) => status'[k] = status[k]]_status
  <2> SUFFICES ASSUME TypeOK, Next, NEW k \in Key, IsTerminal(status[k]),
                      status'[k] # status[k]
               PROVE  FALSE
    BY DEF vars
  <2>1. status[k] # "none"
    BY DEF IsTerminal, TerminalStates, PaymentStates
  <2> QED  BY <2>1, StatusMoves, RealMoveStates
<1> QED  BY <1>1, TypeCorrect, PTL DEF Spec, OutcomeIsFinal

-----------------------------------------------------------------------------
(* Where the money comes from                                              *)

(* Every report of a payment that is still under way is a true one: the     *)
(* callbacks the provider sent, and the outcome each worker carries from    *)
(* the answer it read to the settlement it has yet to make.                 *)
SentIsPaid == \A m \in sent : m.status = "completed" => Paid(m.tx)
JobIsPaid == \A w \in Worker : job[w].status = "completed" => Paid(job[w].tx)

Truth == CompletedIsPaid /\ PolicyIsPaid /\ SentIsPaid /\ JobIsPaid

(* Money that is in stays in: a second request for it does not unpay it.    *)
LEMMA PaidStays ==
  ASSUME TypeOK, Next, NEW k \in Key, Paid(k)
  PROVE  Paid(k)'
<1> USE DEF Paid
<1>1. ASSUME NEW s \in Sessions, Conversation(s)
      PROVE  Paid(k)'
  <2>1. ASSUME NEW answer, InitiatePayment(s, answer)
        PROVE  Paid(k)'
    <3>1. prov' \in {prov, Prompted(start[s].tx)}
      BY <2>1 DEF InitiatePayment
    <3>2. Prompted(start[s].tx)[k] = "paid"
      BY DEF Prompted, TypeOK
    <3> QED  BY <3>1, <3>2
  <2>2. ASSUME NEW p, NEW c, StartPayment(s, p, c)
        PROVE  Paid(k)'
    BY <2>2 DEF StartPayment
  <2> QED
    BY <1>1, <2>1, <2>2 DEF Conversation, RecordProviderTxId, RecordAnswer, RecordPrompt, provVars
<1>2. CASE Environment
  BY <1>2, EnvironmentFrame DEF CustomerActs, TypeOK
<1> QED
  BY <1>1, <1>2, WebhookFrame, PollFrame, SweepFrame, SettlePaymentFrame
     DEF Next, PollPick, AdminPick

LEMMA SentKeepsTrue ==
  ASSUME TypeOK, Truth, Next
  PROVE  SentIsPaid'
<1> SUFFICES ASSUME NEW m \in sent', m.status = "completed"
             PROVE  Paid(m.tx)'
  BY DEF SentIsPaid
<1>1. CASE m \in sent
  <2>1. m.tx \in Key /\ Paid(m.tx)
    BY <1>1 DEF Truth, SentIsPaid, TypeOK, Messages
  <2> QED  BY <2>1, PaidStays
<1>2. CASE m \notin sent
  <2>1. sent' # sent
    BY <1>2
  <2>2. CASE Environment
    <3>1. PICK k \in Key, st \in PaymentStates \cup {"none", "unknown"} : SendCallback(k, st)
      BY <2>1, <2>2, EnvironmentFrame
    <3>2. m = [tx |-> k, status |-> st] /\ prov' = prov
      BY <1>2, <3>1 DEF SendCallback
    <3>3. StatusOf(prov[k]) = "completed"
      BY <3>1, <3>2 DEF SendCallback, PaymentStates
    <3>4. prov[k] = "paid"
      BY <3>3 DEF StatusOf
    <3> QED  BY <3>2, <3>4 DEF Paid
  <2> QED
    BY <2>1, <2>2, ConversationFrame, WebhookFrame, PollFrame, SweepFrame, SettlePaymentFrame
       DEF Next, PollPick, AdminPick
<1> QED  BY <1>1, <1>2

(* A worker takes its outcome from a callback or from checkStatus, and      *)
(* never changes it or its payment afterwards.                              *)
LEMMA JobOutcomes ==
  ASSUME TypeOK, Next, NEW v \in Worker, job'[v].status = "completed"
  PROVE  \/ job[v].status = "completed" /\ job'[v].tx = job[v].tx
         \/ \E m \in sent : m.status = "completed" /\ job'[v].tx = m.tx
         \/ prov[job[v].tx] = "paid" /\ job'[v].tx = job[v].tx /\ job[v] \in BusyJob
<1> USE DEF TypeOK
<1>0. /\ job[v] = NoJob \/ job[v] \in BusyJob
      /\ NoJob.status # "completed"
  BY DEF JobType, NoJob
<1>1. CASE job'[v] = job[v]
  BY <1>1
<1>2. CASE job'[v] = NoJob
  BY <1>0, <1>2
<1>3. ASSUME NEW w \in Handlers, Webhook(w), job'[v] # job[v], job'[v] # NoJob
      PROVE  \/ job[v].status = "completed" /\ job'[v].tx = job[v].tx
             \/ \E m \in sent : m.status = "completed" /\ job'[v].tx = m.tx
  <2>1. ASSUME NEW m \in sent, NEW archived, ReceiveCallback(w, m, archived)
        PROVE  m.status = "completed" /\ job'[v].tx = m.tx
    BY <1>3, <2>1 DEF ReceiveCallback, NoJob
  <2>2. ASSUME DropCallback(w) \/ ApplyCallback(w) \/ MarkCallback(w) \/ CallbackThrows(w)
        PROVE  job[v].status = "completed" /\ job'[v].tx = job[v].tx
    <3>1. v = w /\ job[w].pc \in JobPCs
      BY <1>3, <2>2 DEF DropCallback, ApplyCallback, MarkCallback, CallbackThrows, JobPCs
    <3>2. job[w] \in BusyJob
      BY <1>0, <3>1 DEF NoJob, JobPCs
    <3>3. CASE DropCallback(w)
      BY <1>3, <3>1, <3>2, <3>3 DEF DropCallback, BusyJob
    <3>4. CASE ApplyCallback(w)
      BY <1>3, <3>1, <3>2, <3>4 DEF ApplyCallback, BusyJob
    <3>5. CASE MarkCallback(w)
      BY <1>3, <3>1, <3>2, <3>5 DEF MarkCallback, BusyJob
    <3>6. CASE CallbackThrows(w)
      BY <1>3, <3>1, <3>6 DEF CallbackThrows
    <3> QED  BY <2>2, <3>3, <3>4, <3>5, <3>6
  <2> QED  BY <1>3, <2>1, <2>2 DEF Webhook
<1>4. ASSUME NEW w \in Worker, Poll(w) \/ \E k \in Key : AskAbout(w, k),
             job'[v] # job[v], job'[v] # NoJob
      PROVE  prov[job[v].tx] = "paid" /\ job'[v].tx = job[v].tx /\ job[v] \in BusyJob
  <2>1. ASSUME NEW k, AskAbout(w, k)
        PROVE  FALSE
    BY <1>4, <2>1 DEF AskAbout, NoJob
  <2>2. CASE PollAnswer(w)
    <3>1. v = w /\ job[v] \in BusyJob
      BY <1>0, <1>4, <2>2 DEF PollAnswer, NoJob
    <3>2. job'[v].status = StatusOf(prov[job[v].tx]) /\ job'[v].tx = job[v].tx
      BY <1>4, <2>2, <3>1 DEF PollAnswer, BusyJob
    <3> QED  BY <3>1, <3>2 DEF StatusOf
  <2>3. CASE PollThrows(w)
    BY <1>4, <2>3 DEF PollThrows
  <2> QED  BY <1>4, <2>1, <2>2, <2>3 DEF Poll
<1>5. ASSUME NEW w \in Sweepers, Sweep(w), job'[v] # job[v], job'[v] # NoJob
      PROVE  job[v].status = "completed" /\ job'[v].tx = job[v].tx
  <2>1. ASSUME NEW k, SweepPick(w, k)
        PROVE  FALSE
    BY <1>5, <2>1 DEF SweepPick, NoJob
  <2>2. CASE SweepExpire(w)
    <3>1. v = w /\ job[v] \in BusyJob
      BY <1>0, <1>5, <2>2 DEF SweepExpire, NoJob
    <3> QED  BY <1>5, <2>2, <3>1 DEF SweepExpire, BusyJob
  <2> QED  BY <1>5, <2>1, <2>2 DEF Sweep
<1>6. ASSUME NEW w \in Worker, SettlePayment(w), job'[v] # job[v], job'[v] # NoJob
      PROVE  job[v].status = "completed" /\ job'[v].tx = job[v].tx
  <2> USE DEF SkipIssue, IssuePolicy, IssueFails, AttachSale, ConfirmCase, NotifyCustomer
  <2>1. v = w
    BY <1>6 DEF SettlePayment
  <2>2. job[v].pc # "idle"
    BY <1>6, <2>1 DEF SettlePayment
  <2>3. job[v] \in BusyJob
    BY <1>0, <2>2 DEF NoJob
  <2>4. CASE SkipIssue(w) \/ IssueFails(w)
    BY <2>1, <2>3, <2>4 DEF BusyJob
  <2>5. CASE IssuePolicy(w)
    <3>1. job[v].status = "completed"
      BY <2>1, <2>5
    <3>2. \E i : job' = [job EXCEPT ![v] = [job[v] EXCEPT !.pc = "attach", !.sale = i]]
      BY <2>1, <2>5
    <3> QED  BY <2>3, <3>1, <3>2 DEF BusyJob
  <2>6. CASE AttachSale(w) \/ ConfirmCase(w)
    BY <2>1, <2>3, <2>6 DEF BusyJob
  <2>7. CASE NotifyCustomer(w)
    BY <1>6, <2>1, <2>7
  <2> QED  BY <1>6, <2>4, <2>5, <2>6, <2>7 DEF SettlePayment
<1>7. ASSUME Environment, job'[v] # job[v], job'[v] # NoJob
      PROVE  FALSE
  BY <1>7, EnvironmentFrame
<1>8. ASSUME NEW s \in Sessions, Conversation(s), job'[v] # job[v]
      PROVE  FALSE
  BY <1>8, ConversationFrame
<1> QED
  BY <1>1, <1>2, <1>3, <1>4, <1>5, <1>6, <1>7, <1>8 DEF Next, PollPick, AdminPick, Worker

LEMMA TruthIsKept ==
  ASSUME TypeOK, Truth, Next
  PROVE  Truth'
<1>1. CompletedIsPaid'
  <2> SUFFICES ASSUME NEW k \in Key, status'[k] = "completed"
               PROVE  Paid(k)
    BY PaidStays DEF CompletedIsPaid
  <2>1. CASE status[k] = "completed"
    BY <2>1 DEF Truth, CompletedIsPaid
  <2>2. CASE status[k] # "completed"
    <3>1. PICK w \in Handlers : job[w].tx = k /\ job[w].status = "completed"
      BY <2>2, StatusMoves
    <3> QED  BY <3>1 DEF Truth, JobIsPaid, Worker
  <2> QED  BY <2>1, <2>2
<1>2. PolicyIsPaid'
  <2> SUFFICES ASSUME NEW i \in 1..Len(sales'), sales'[i].paidBy \in Key
               PROVE  Paid(sales'[i].paidBy)
    BY PaidStays DEF PolicyIsPaid
  <2>1. CASE sales' = sales
    BY <2>1 DEF Truth, PolicyIsPaid
  <2>2. ASSUME NEW w \in Worker, IssuePolicy(w), sales' # sales
        PROVE  Paid(sales'[i].paidBy)
    <3>1. sales' = Append(sales, [case |-> txCase[job[w].tx], paidBy |-> job[w].tx])
      BY <2>2 DEF IssuePolicy
    <3>2. Paid(job[w].tx)
      BY <2>2 DEF IssuePolicy, Truth, JobIsPaid
    <3>3. i \in 1..Len(sales) \/ sales'[i].paidBy = job[w].tx
      BY <3>1 DEF TypeOK
    <3>4. i \in 1..Len(sales) => sales'[i] = sales[i]
      BY <3>1 DEF TypeOK
    <3> QED  BY <3>2, <3>3, <3>4 DEF Truth, PolicyIsPaid
  <2>3. ASSUME NEW c \in Cases, OfficeIssue(c)
        PROVE  Paid(sales'[i].paidBy)
    <3>1. sales' = Append(sales, [case |-> c, paidBy |-> NoTx])
      BY <2>3 DEF OfficeIssue
    <3>2. i \in 1..Len(sales) /\ sales'[i] = sales[i]
      BY <3>1 DEF TypeOK
    <3> QED  BY <3>2 DEF Truth, PolicyIsPaid
  <2>4. CASE Environment
    BY <2>1, <2>3, <2>4, EnvironmentFrame
  <2>5. ASSUME NEW w \in Worker, SettlePayment(w)
        PROVE  Paid(sales'[i].paidBy)
    BY <2>1, <2>2, <2>5 DEF SettlePayment, SkipIssue, IssueFails, AttachSale, ConfirmCase,
                            NotifyCustomer
  <2> QED
    BY <2>1, <2>4, <2>5, ConversationFrame, WebhookFrame, PollFrame, SweepFrame
       DEF Next, PollPick, AdminPick
<1>3. JobIsPaid'
  <2> SUFFICES ASSUME NEW v \in Worker, job'[v].status = "completed"
               PROVE  Paid(job[v].tx)'
    BY DEF JobIsPaid
  <2>1. PICK k \in Key : job'[v].tx = k
    <3>1. job' \in [Worker -> JobType]
      <4>1. TypeOK'
        BY TypeKept
      <4> QED  BY <4>1 DEF TypeOK
    <3>2. job'[v] \in BusyJob
      BY <3>1 DEF JobType, NoJob
    <3> QED  BY <3>2 DEF BusyJob
  <2>2. Paid(k)
    BY <2>1, JobOutcomes DEF Truth, JobIsPaid, SentIsPaid, Paid
  <2>3. Paid(k)'
    BY <2>2, PaidStays
  <2> QED  BY <2>1, <2>3 DEF Paid
<1> QED  BY <1>1, <1>2, <1>3, SentKeepsTrue DEF Truth

LEMMA TruthAlways == Spec => []Truth
<1>1. Init => Truth
  BY DEF Init, Truth, CompletedIsPaid, PolicyIsPaid, SentIsPaid, JobIsPaid, NoJob
<1>2. TypeOK /\ Truth /\ [Next]_vars => Truth'
  <2>1. CASE UNCHANGED vars
    BY <2>1 DEF vars, Truth, CompletedIsPaid, PolicyIsPaid, SentIsPaid, JobIsPaid, Paid
  <2> QED  BY <2>1, TruthIsKept
<1> QED  BY <1>1, <1>2, TypeCorrect, PTL DEF Spec

(* Whatever the provider, the scripts and the operators do in whatever      *)
(* order, a payment is completed only if its customer paid.                 *)
THEOREM CompletedMeansPaid == Spec => []CompletedIsPaid
BY TruthAlways, PTL DEF Truth

(* And no policy is bought by a payment whose customer did not pay.         *)
THEOREM PolicyMeansPaid == Spec => []PolicyIsPaid
BY TruthAlways, PTL DEF Truth

(* Neither happens without the customer's money.                            *)
THEOREM PaidBeforehand == Spec => []PaidFirst
BY CompletedMeansPaid, PolicyMeansPaid, PTL DEF PaidFirst

-----------------------------------------------------------------------------
(* Policies                                                                *)

(* A policy is only ever added, to a case that has none, and by a payment   *)
(* only when it was paid.                                                   *)
Issued(x) ==
  /\ sales' = Append(sales, x)
  /\ ~HasPolicy(x.case)
  /\ x.paidBy = NoTx \/ Paid(x.paidBy)

LEMMA SalesMoves ==
  ASSUME TypeOK, Truth, Next, sales' # sales
  PROVE  \E x \in Sales : Issued(x)
<1>1. ASSUME NEW w \in Worker, SettlePayment(w)
      PROVE  \E x \in Sales : Issued(x)
  <2> DEFINE x == [case |-> txCase[job[w].tx], paidBy |-> job[w].tx]
  <2>1. IssuePolicy(w)
    BY <1>1 DEF SettlePayment, SkipIssue, IssueFails, AttachSale, ConfirmCase, NotifyCustomer
  <2>2. job[w].tx \in Key
    BY <2>1, JobTypes DEF IssuePolicy, JobPCs, TypeOK
  <2>3. x \in Sales
    BY <2>1, <2>2 DEF IssuePolicy, Sales
  <2>4. sales' = Append(sales, x) /\ ~HasPolicy(x.case)
    BY <2>1 DEF IssuePolicy
  <2>5. Paid(x.paidBy)
    BY <2>1 DEF IssuePolicy, Truth, JobIsPaid
  <2> QED  BY <2>3, <2>4, <2>5 DEF Issued
<1>2. ASSUME NEW c \in Cases, OfficeIssue(c)
      PROVE  \E x \in Sales : Issued(x)
  <2>1. [case |-> c, paidBy |-> NoTx] \in Sales
    BY DEF Sales
  <2>2. Issued([case |-> c, paidBy |-> NoTx])
    BY <1>2 DEF OfficeIssue, Issued
  <2> QED  BY <2>1, <2>2
<1>3. CASE Environment
  BY <1>2, <1>3, EnvironmentFrame DEF txVars
<1> QED
  BY <1>1, <1>3, ConversationFrame, WebhookFrame, PollFrame, SweepFrame
     DEF Next, PollPick, AdminPick

LEMMA SalesAlone ==
  ASSUME TypeOK, Next, sales' # sales
  PROVE  UNCHANGED <<prov, status>>
BY ConversationFrame, WebhookFrame, PollFrame, SweepFrame, SettlePaymentFrame, EnvironmentFrame
   DEF Next, PollPick, AdminPick, txVars, OfficeIssue, provVars

LEMMA OnePolicyKept ==
  ASSUME TypeOK, Truth, OnePolicyPerCase, Next
  PROVE  OnePolicyPerCase'
<1>1. CASE sales' = sales
  BY <1>1 DEF OnePolicyPerCase
<1>2. CASE sales' # sales
  <2>0. PICK x \in Sales : Issued(x)
    BY <1>2, SalesMoves
  <2>1. sales' = Append(sales, x) /\ ~HasPolicy(x.case)
    BY <2>0 DEF Issued
  <2>2. /\ Len(sales) \in Nat /\ Len(sales') = Len(sales) + 1
        /\ \A i \in 1..Len(sales) : sales'[i] = sales[i]
        /\ sales'[Len(sales) + 1] = x
    BY <2>1 DEF TypeOK
  <2> SUFFICES ASSUME NEW i \in 1..Len(sales'), NEW j \in 1..Len(sales'),
                      sales'[i].case = sales'[j].case
               PROVE  i = j
    BY DEF OnePolicyPerCase
  <2>3. CASE i \in 1..Len(sales) /\ j \in 1..Len(sales)
    BY <2>2, <2>3 DEF OnePolicyPerCase
  <2>4. CASE i = Len(sales) + 1 \/ j = Len(sales) + 1
    BY <2>1, <2>2, <2>4 DEF HasPolicy
  <2> QED  BY <2>2, <2>3, <2>4
<1> QED  BY <1>1, <1>2

(* Whoever notices the payment first, and whatever the office does, a case  *)
(* has one policy.                                                          *)
THEOREM OnePolicy == Spec => []OnePolicyPerCase
<1>1. Init => OnePolicyPerCase
  BY DEF Init, OnePolicyPerCase
<1>2. TypeOK /\ Truth /\ OnePolicyPerCase /\ [Next]_vars => OnePolicyPerCase'
  <2>1. CASE UNCHANGED vars
    BY <2>1 DEF vars, OnePolicyPerCase
  <2> QED  BY <2>1, OnePolicyKept
<1> QED  BY <1>1, <1>2, TypeCorrect, TruthAlways, PTL DEF Spec

-----------------------------------------------------------------------------
(* The payments keep their promise                                         *)

(* A step that writes a status writes one, and neither a policy nor money.  *)
LEMMA StatusAlone ==
  ASSUME TypeOK, Next, status' # status
  PROVE  /\ UNCHANGED <<prov, sales>>
         /\ \E k \in Key : \A j \in Key : j # k => status'[j] = status[j]
<1> DEFINE One == \E k \in Key : \A j \in Key : j # k => status'[j] = status[j]
<1>1. ASSUME NEW k, NEW to, Transition(k, to)
      PROVE  One
  <2>1. k \in Key
    BY <1>1 DEF Transition, TypeOK
  <2> QED  BY <1>1, <2>1, TransitionMoves
<1>2. ASSUME NEW s \in Sessions, Conversation(s)
      PROVE  One /\ UNCHANGED <<prov, sales>>
  <2>1. ASSUME NEW p \in Payers, NEW c \in Cases \cup {NoCase}, StartPayment(s, p, c)
        PROVE  One /\ UNCHANGED <<prov, sales>>
    <3>1. IdempotencyKey(s, p) \in Key
      BY DEF IdempotencyKey, Key
    <3> QED  BY <2>1, <3>1 DEF StartPayment, TypeOK
  <2>2. ASSUME NEW answer, InitiatePayment(s, answer)
        PROVE  FALSE
    BY <2>2 DEF InitiatePayment, txVars
  <2>3. CASE RecordProviderTxId(s)
    BY <2>3 DEF RecordProviderTxId
  <2>4. CASE RecordAnswer(s)
    BY <1>1, <2>4 DEF RecordAnswer, provVars
  <2>5. CASE RecordPrompt(s)
    BY <1>1, <2>5 DEF RecordPrompt, provVars
  <2> QED  BY <1>2, <2>1, <2>2, <2>3, <2>4, <2>5 DEF Conversation
<1>3. ASSUME NEW w \in Handlers, Webhook(w)
      PROVE  One
  <2>1. CASE ApplyCallback(w)
    BY <1>1, <2>1 DEF ApplyCallback
  <2>2. ASSUME NEW m, NEW archived, ReceiveCallback(w, m, archived)
        PROVE  FALSE
    BY <2>2 DEF ReceiveCallback, txVars
  <2> QED
    BY <1>3, <2>1, <2>2 DEF Webhook, DropCallback, MarkCallback, CallbackThrows, txVars
<1>4. ASSUME NEW w \in Sweepers, Sweep(w)
      PROVE  One
  BY <1>1, <1>4 DEF Sweep, SweepPick, SweepExpire, txVars
<1>5. CASE Environment
  BY <1>5, EnvironmentFrame DEF txVars
<1> QED
  BY <1>2, <1>3, <1>4, <1>5, WebhookFrame, PollFrame, SweepFrame, SettlePaymentFrame
     DEF Next, PollPick, AdminPick

(* Money comes in for one payment at a time, and stays.                     *)
OnlyPaidOf(k) ==
  /\ \A j \in Key : j # k => prov'[j] = prov[j]
  /\ prov[k] = "paid" => prov'[k] = "paid"

LEMMA ProvAlone ==
  ASSUME TypeOK, Next, prov' # prov
  PROVE  \E k \in Key : OnlyPaidOf(k)
<1> DEFINE One(k) == \A j \in Key : j # k => prov'[j] = prov[j]
<1> SUFFICES \E k \in Key : One(k)
  BY PaidStays DEF OnlyPaidOf, Paid
<1>1. ASSUME NEW s \in Sessions, Conversation(s)
      PROVE  \E k \in Key : One(k)
  <2>1. ASSUME NEW answer, InitiatePayment(s, answer)
        PROVE  \E k \in Key : One(k)
    <3>1. start[s].tx \in Key
      BY <2>1, StartTypes DEF InitiatePayment, StartPCs, TypeOK
    <3>2. prov' = Prompted(start[s].tx)
      BY <2>1 DEF InitiatePayment
    <3>3. One(start[s].tx)
      BY <3>2 DEF Prompted, TypeOK
    <3> QED  BY <3>1, <3>3
  <2>2. ASSUME NEW p, NEW c, StartPayment(s, p, c)
        PROVE  FALSE
    BY <2>2 DEF StartPayment
  <2> QED
    BY <1>1, <2>1, <2>2 DEF Conversation, RecordProviderTxId, RecordAnswer, RecordPrompt, provVars
<1>2. CASE Environment
  <2>1. PICK k \in Key, o \in ProvStates : CustomerActs(k, o)
    BY <1>2, EnvironmentFrame
  <2> QED  BY <2>1 DEF CustomerActs, TypeOK
<1> QED
  BY <1>1, <1>2, WebhookFrame, PollFrame, SweepFrame, SettlePaymentFrame
     DEF Next, PollPick, AdminPick

LEMMA PaidMoves ==
  ASSUME TypeOK, Next, prov' # prov
  PROVE  \E k \in Key : PaidPayments' \in {PaidPayments, PaidPayments \cup {k}}
<1>0. /\ \A j : j \in PaidPayments <=> j \in Key /\ prov[j] = "paid"
      /\ \A j : j \in PaidPayments' <=> j \in Key /\ prov'[j] = "paid"
  BY DEF PaidPayments, Paid
<1>1. PICK k \in Key : OnlyPaidOf(k)
  BY ProvAlone
<1>2. CASE prov'[k] = "paid"
  <2>1. \A j : j \in PaidPayments' <=> j \in PaidPayments \cup {k}
    BY <1>0, <1>1, <1>2 DEF OnlyPaidOf
  <2>2. PaidPayments' = PaidPayments \cup {k}
    BY <2>1
  <2> QED  BY <2>2
<1>3. CASE prov'[k] # "paid"
  <2>1. \A j : j \in PaidPayments' <=> j \in PaidPayments
    BY <1>0, <1>1, <1>3 DEF OnlyPaidOf
  <2>2. PaidPayments' = PaidPayments
    BY <2>1
  <2> QED  BY <2>2
<1> QED  BY <1>2, <1>3

LEMMA PromiseStep ==
  ASSUME TypeOK, TypeOK', Truth, Truth', Next
  PROVE  [Promise!PromiseNext]_(Promise!promise)
<1> USE DEF Promise!promise, Promise!PromiseNext
<1>1. CASE sales' # sales
  <2>0. PICK x \in Sales : Issued(x)
    BY <1>1, SalesMoves
  <2>1. /\ sales' = Append(sales, x)
        /\ ~HasPolicy(x.case)
        /\ x.paidBy = NoTx \/ Paid(x.paidBy)
    BY <2>0 DEF Issued
  <2>2. PaidPayments' = PaidPayments /\ OutcomeOf' = OutcomeOf
    BY <1>1, SalesAlone DEF PaidPayments, OutcomeOf, Paid
  <2>3. /\ Len(sales) \in Nat /\ Len(sales') = Len(sales) + 1
        /\ \A i \in 1..Len(sales) : sales'[i] = sales[i]
        /\ sales'[Len(sales) + 1] = x
    BY <2>1 DEF TypeOK
  <2>4. x.case \in Cases /\ x.paidBy \in Key \cup {NoTx}
    BY DEF Sales
  <2>5. InsuredWith[x.case] = {}
    BY <2>1, <2>4 DEF InsuredWith, PoliciesOf, HasPolicy
  <2>6. PoliciesOf(x.case)' = {Len(sales) + 1}
    BY <2>1, <2>3 DEF PoliciesOf, HasPolicy
  <2>7. \A c \in Cases : c # x.case => PoliciesOf(c)' = PoliciesOf(c)
    BY <2>3 DEF PoliciesOf
  <2>8. \A c \in Cases : c # x.case => InsuredWith'[c] = InsuredWith[c]
    BY <2>3, <2>7 DEF InsuredWith, PoliciesOf
  <2>9. InsuredWith'[x.case] = {x.paidBy}
    BY <2>3, <2>4, <2>6 DEF InsuredWith
  <2>10. InsuredWith' = [InsuredWith EXCEPT ![x.case] = {x.paidBy}]
    BY <2>4, <2>8, <2>9 DEF InsuredWith
  <2>11. x.paidBy # NoTx => x.paidBy \in PaidPayments
    BY <2>1, <2>4 DEF PaidPayments
  <2>12. Promise!Insure(x.case, x.paidBy)
    BY <2>2, <2>5, <2>10, <2>11 DEF Promise!Insure
  <2> QED  BY <2>4, <2>12
<1>2. CASE status' # status
  <2>1. PICK k \in Key : \A j \in Key : j # k => status'[j] = status[j]
    BY <1>2, StatusAlone
  <2>2. PaidPayments' = PaidPayments /\ InsuredWith' = InsuredWith
    BY <1>2, StatusAlone DEF PaidPayments, Paid, InsuredWith, PoliciesOf
  <2>3. CASE OutcomeOf'[k] = OutcomeOf[k]
    <3>1. OutcomeOf' = OutcomeOf
      BY <2>1, <2>3 DEF OutcomeOf
    <3> QED  BY <2>2, <3>1
  <2>4. CASE OutcomeOf'[k] # OutcomeOf[k]
    <3>1. status'[k] # status[k]
      BY <2>4 DEF OutcomeOf
    <3>2. ~IsTerminal(status[k])
      <4>1. status[k] = "none" => ~IsTerminal(status[k])
        BY DEF IsTerminal, TerminalStates, PaymentStates
      <4> QED  BY <3>1, <4>1, StatusMoves, RealMoveStates
    <3>3. IsTerminal(status'[k]) /\ OutcomeOf'[k] = status'[k] /\ OutcomeOf[k] = "open"
      BY <2>4, <3>2 DEF OutcomeOf
    <3>4. OutcomeOf' = [OutcomeOf EXCEPT ![k] = status'[k]]
      BY <2>1, <3>3 DEF OutcomeOf
    <3>5. status'[k] = "completed" => k \in PaidPayments'
      BY DEF Truth, CompletedIsPaid, PaidPayments
    <3>6. Promise!Settle(k, status'[k])
      BY <2>2, <3>3, <3>4, <3>5 DEF Promise!Settle
    <3> QED  BY <3>3, <3>6 DEF IsTerminal
  <2> QED  BY <2>3, <2>4
<1>3. CASE status' = status /\ sales' = sales
  <2>1. OutcomeOf' = OutcomeOf /\ InsuredWith' = InsuredWith
    BY <1>3 DEF OutcomeOf, InsuredWith, PoliciesOf
  <2>2. CASE prov' = prov
    BY <2>1, <2>2 DEF PaidPayments, Paid
  <2>3. CASE prov' # prov
    <3>1. PICK k \in Key : PaidPayments' \in {PaidPayments, PaidPayments \cup {k}}
      BY <2>3, PaidMoves
    <3> QED  BY <2>1, <3>1 DEF Promise!Pay
  <2> QED  BY <2>2, <2>3
<1> QED  BY <1>1, <1>2, <1>3

(* The code's steps are the promise's steps, or nothing to it: a payment    *)
(* is settled once, a case insured once, and neither without the money.     *)
THEOREM PaymentsKeepPromise == Spec => KeepsPromise
<1>1. Init => Promise!PromiseInit
  <2> SUFFICES ASSUME Init
               PROVE  Promise!PromiseInit
    OBVIOUS
  <2>1. PaidPayments = {}
    BY DEF Init, PaidPayments, Paid
  <2>2. OutcomeOf = [k \in Key |-> "open"]
    BY DEF Init, OutcomeOf, IsTerminal, TerminalStates, PaymentStates
  <2>3. InsuredWith = [c \in Cases |-> {}]
    BY DEF Init, InsuredWith, PoliciesOf
  <2> QED  BY <2>1, <2>2, <2>3 DEF Promise!PromiseInit
<1>2. TypeOK /\ TypeOK' /\ Truth /\ Truth' /\ [Next]_vars
        => [Promise!PromiseNext]_(Promise!promise)
  <2>1. CASE UNCHANGED vars
    BY <2>1 DEF vars, Promise!promise, PaidPayments, Paid, OutcomeOf, InsuredWith, PoliciesOf
  <2> QED  BY <2>1, PromiseStep
<1> QED
  BY <1>1, <1>2, TypeCorrect, TruthAlways, PTL DEF Spec, KeepsPromise, Promise!PromiseSpec

-----------------------------------------------------------------------------
(* What a worker holds                                                     *)

(* The steps a worker takes itself; any other step leaves its job alone or, *)
(* when its process dies, drops it.                                        *)
OwnStep(w) ==
  \/ \E m \in sent, archived \in BOOLEAN : ReceiveCallback(w, m, archived)
  \/ DropCallback(w)
  \/ ApplyCallback(w)
  \/ MarkCallback(w)
  \/ \E k \in Key : AskAbout(w, k)
  \/ PollAnswer(w)
  \/ \E k \in Key : SweepPick(w, k)
  \/ SweepExpire(w)
  \/ SkipIssue(w)
  \/ IssuePolicy(w)
  \/ IssueFails(w)
  \/ AttachSale(w)
  \/ ConfirmCase(w)

LEMMA JobMoves ==
  ASSUME TypeOK, Next, NEW v \in Worker
  PROVE  job'[v] \in {job[v], NoJob} \/ OwnStep(v)
<1> DEFINE Left == job'[v] \in {job[v], NoJob}
<1> USE DEF TypeOK
<1>1. ASSUME NEW s \in Sessions, Conversation(s)
      PROVE  Left
  BY <1>1, ConversationFrame
<1>2. ASSUME NEW w \in Handlers, Webhook(w)
      PROVE  Left \/ OwnStep(v)
  <2>1. CASE w = v
    BY <1>2, <2>1 DEF Webhook, OwnStep, CallbackThrows
  <2>2. CASE w # v
    <3>1. ASSUME NEW m, NEW archived, ReceiveCallback(w, m, archived)
          PROVE  job'[v] = job[v]
      BY <2>2, <3>1 DEF ReceiveCallback
    <3> QED
      BY <1>2, <2>2, <3>1 DEF Webhook, DropCallback, ApplyCallback, MarkCallback, CallbackThrows
  <2> QED  BY <2>1, <2>2
<1>3. ASSUME NEW w \in Worker, Poll(w) \/ \E k \in Key : AskAbout(w, k)
      PROVE  Left \/ OwnStep(v)
  BY <1>3 DEF Poll, OwnStep, AskAbout, PollAnswer, PollThrows
<1>4. ASSUME NEW w \in Sweepers, Sweep(w)
      PROVE  Left \/ OwnStep(v)
  BY <1>4 DEF Sweep, OwnStep, SweepPick, SweepExpire
<1>5. ASSUME NEW w \in Worker, SettlePayment(w)
      PROVE  Left \/ OwnStep(v)
  <2>1. CASE w = v
    BY <1>5, <2>1 DEF SettlePayment, OwnStep, NotifyCustomer
  <2>2. CASE w # v
    <3>1. CASE IssuePolicy(w)
      BY <2>2, <3>1 DEF IssuePolicy
    <3> QED
      BY <1>5, <2>2, <3>1 DEF SettlePayment, SkipIssue, IssueFails, AttachSale, ConfirmCase,
                              NotifyCustomer
  <2> QED  BY <2>1, <2>2
<1>6. CASE Environment
  BY <1>6, EnvironmentFrame
<1> HIDE DEF TypeOK
<1> QED
  BY <1>1, <1>2, <1>3, <1>4, <1>5, <1>6 DEF Next, PollPick, AdminPick, Worker

(* What a worker's step does to its job: it picks a payment up, drops it,   *)
(* hears or asks its outcome, or goes on with the outcome it has.           *)
PicksUp(w) ==
  /\ job[w].pc = "idle"
  /\ job'[w].pc \in {"matching", "marking", "asking", "expiring"}
  /\ job'[w].pc = "expiring" => job'[w].status = "expired"
  /\ job'[w].real = FALSE

GoesOn(w) ==
  /\ job'[w].tx = job[w].tx /\ job'[w].status = job[w].status /\ job'[w].real = job[w].real
  /\ \/ job[w].pc \in {"matching", "marking", "issue", "confirm"}
        /\ job'[w].pc \in {"marking", "issue", "notify"}
     \/ IssuePolicy(w) /\ job'[w].pc = "attach"
     \/ AttachSale(w) /\ job'[w].pc = "confirm"

Hears(w) ==
  /\ job'[w].tx = job[w].tx
  /\ \/ /\ ApplyCallback(w) /\ job'[w].pc = "marking" /\ job'[w].status = job[w].status
        /\ job'[w].real = RealMove(status[job[w].tx], job[w].status)
     \/ /\ SweepExpire(w) /\ job'[w].pc = "issue" /\ job'[w].status = job[w].status
        /\ RealMove(status[job[w].tx], "expired")
     \/ PollAnswer(w) /\ job'[w].pc = "issue" /\ job'[w].real = job[w].real

LEMMA OwnSteps ==
  ASSUME TypeOK, NEW v \in Worker, OwnStep(v)
  PROVE  \/ PicksUp(v)
         \/ job[v] \in BusyJob /\ job[v].pc \in JobPCs /\ (job'[v] = NoJob \/ GoesOn(v) \/ Hears(v))
<1>0. job \in [Worker -> JobType] /\ (job[v].pc \in JobPCs => job[v] \in BusyJob)
  BY JobTypes DEF TypeOK
<1>u. ASSUME NEW r, job' = [job EXCEPT ![v] = r]
      PROVE  job'[v] = r
  BY <1>0, <1>u
<1>1. ASSUME NEW m \in sent, NEW archived, ReceiveCallback(v, m, archived)
      PROVE  PicksUp(v)
  <2>1. PICK pc \in {"matching", "marking"} :
          job' = [job EXCEPT ![v] = [NoJob EXCEPT !.pc = pc, !.tx = m.tx, !.status = m.status,
                                                  !.row = archived]]
    BY <1>1 DEF ReceiveCallback
  <2>2. job'[v] = [NoJob EXCEPT !.pc = pc, !.tx = m.tx, !.status = m.status, !.row = archived]
    BY <1>u, <2>1
  <2> QED  BY <1>1, <2>2 DEF ReceiveCallback, NoJob, PicksUp
<1>2. ASSUME NEW k, AskAbout(v, k) \/ SweepPick(v, k)
      PROVE  PicksUp(v)
  <2>1. \/ job'[v] = [NoJob EXCEPT !.pc = "asking", !.tx = k]
        \/ job'[v] = [NoJob EXCEPT !.pc = "expiring", !.tx = k, !.status = "expired"]
    BY <1>2, <1>u DEF AskAbout, SweepPick
  <2> QED  BY <1>2, <2>1 DEF AskAbout, SweepPick, NoJob, PicksUp
<1> SUFFICES ASSUME job[v] \in BusyJob, job[v].pc \in JobPCs, job'[v] # NoJob,
                    \A m \in sent, archived \in BOOLEAN : ~ReceiveCallback(v, m, archived),
                    \A k \in Key : ~AskAbout(v, k) /\ ~SweepPick(v, k)
             PROVE  GoesOn(v) \/ Hears(v)
  <2>1. DropCallback(v) \/ ApplyCallback(v) \/ MarkCallback(v) \/ PollAnswer(v)
        \/ SweepExpire(v) \/ SkipIssue(v) \/ IssuePolicy(v) \/ IssueFails(v) \/ AttachSale(v)
        \/ ConfirmCase(v) => job[v].pc \in JobPCs
    BY DEF DropCallback, ApplyCallback, MarkCallback, PollAnswer, SweepExpire, SkipIssue,
           IssuePolicy, IssueFails, AttachSale, ConfirmCase, JobPCs
  <2> QED  BY <1>0, <1>1, <1>2, <2>1 DEF OwnStep
<1>3. ASSUME NEW pc, job'[v] = [job[v] EXCEPT !.pc = pc]
      PROVE  /\ job'[v].pc = pc /\ job'[v].tx = job[v].tx /\ job'[v].status = job[v].status
             /\ job'[v].real = job[v].real
  BY <1>3 DEF BusyJob
<1>4. CASE DropCallback(v)
  <2>1. job'[v] = [job[v] EXCEPT !.pc = "marking"]
    BY <1>0, <1>4 DEF DropCallback
  <2> QED  BY <1>3, <1>4, <2>1 DEF DropCallback, GoesOn
<1>5. CASE SkipIssue(v) \/ IssueFails(v) \/ ConfirmCase(v)
  <2>1. job'[v] = [job[v] EXCEPT !.pc = "notify"]
    BY <1>0, <1>5 DEF SkipIssue, IssueFails, ConfirmCase
  <2> QED  BY <1>3, <1>5, <2>1 DEF SkipIssue, IssueFails, ConfirmCase, GoesOn
<1>6. CASE MarkCallback(v)
  <2>1. job'[v] = [job[v] EXCEPT !.pc = "issue"]
    BY <1>0, <1>6 DEF MarkCallback
  <2> QED  BY <1>3, <1>6, <2>1 DEF MarkCallback, GoesOn
<1>7. CASE AttachSale(v)
  <2>1. job'[v] = [job[v] EXCEPT !.pc = "confirm"]
    BY <1>0, <1>7 DEF AttachSale
  <2> QED  BY <1>3, <1>7, <2>1 DEF GoesOn
<1>8. CASE IssuePolicy(v)
  <2>1. PICK i : job' = [job EXCEPT ![v] = [job[v] EXCEPT !.pc = "attach", !.sale = i]]
    BY <1>8 DEF IssuePolicy
  <2>2. job'[v] = [job[v] EXCEPT !.pc = "attach", !.sale = i]
    BY <1>u, <2>1
  <2> QED  BY <1>8, <2>2 DEF GoesOn, BusyJob
<1>9. CASE ApplyCallback(v)
  <2>1. job'[v] = [job[v] EXCEPT !.pc = "marking",
                                 !.real = RealMove(status[job[v].tx], job[v].status)]
    BY <1>u, <1>9 DEF ApplyCallback
  <2> QED  BY <1>9, <2>1 DEF Hears, BusyJob
<1>10. CASE SweepExpire(v)
  <2>1. /\ RealMove(status[job[v].tx], "expired")
        /\ job'[v] = [job[v] EXCEPT !.pc = "issue", !.real = TRUE]
    BY <1>0, <1>10 DEF SweepExpire
  <2> QED  BY <1>10, <2>1 DEF Hears, BusyJob
<1>11. CASE PollAnswer(v)
  <2>1. job'[v] = [job[v] EXCEPT !.pc = "issue", !.status = StatusOf(prov[job[v].tx])]
    BY <1>0, <1>11 DEF PollAnswer
  <2> QED  BY <1>11, <2>1 DEF Hears, BusyJob
<1> QED  BY <1>4, <1>5, <1>6, <1>7, <1>8, <1>9, <1>10, <1>11 DEF OwnStep

-----------------------------------------------------------------------------
(* The policy a worker has in hand                                         *)

Bought(k, i) == i \in 1..Len(sales) /\ sales[i].case = txCase[k]

(* Before a policy is linked to its payment, and before its case is         *)
(* confirmed, the worker holds a policy of the case that payment is for; a  *)
(* payment's case is written with its row, and no step changes it.          *)
PolicyInHand ==
  /\ \A k \in Key : txCase[k] # NoCase => status[k] # "none"
  /\ \A w \in Worker : job[w].pc = "attach" => Bought(job[w].tx, job[w].sale)
  /\ \A w \in Worker : job[w].pc = "confirm" => \E i \in Nat : Bought(job[w].tx, i)

Covered == PolicyInHand /\ AttachedSaleCoversCase

LEMMA CaseStays ==
  ASSUME TypeOK, PolicyInHand, Next, NEW k \in Key
  PROVE  /\ txCase[k] # NoCase => txCase'[k] = txCase[k]
         /\ txCase'[k] # NoCase => status'[k] # "none"
<1>1. ASSUME NEW s \in Sessions, Conversation(s), txCase' # txCase
      PROVE  \E p \in Payers : \E c : StartPayment(s, p, c)
  <2>1. ASSUME NEW answer, InitiatePayment(s, answer)
        PROVE  FALSE
    BY <1>1, <2>1 DEF InitiatePayment, txVars
  <2> QED  BY <1>1, <2>1 DEF Conversation, RecordProviderTxId, RecordAnswer, RecordPrompt
<1>2. ASSUME NEW s, NEW p, NEW c, StartPayment(s, p, c)
      PROVE  /\ txCase[k] # NoCase => txCase'[k] = txCase[k]
             /\ txCase'[k] # txCase[k] => status'[k] # "none"
  BY <1>2 DEF StartPayment, PolicyInHand, TypeOK
<1>3. ASSUME txCase' # txCase
      PROVE  \E s, p, c : StartPayment(s, p, c)
  BY <1>1, <1>3, WebhookFrame, PollFrame, SweepFrame, SettlePaymentFrame, EnvironmentFrame
     DEF Next, PollPick, AdminPick, txVars
<1>4. status[k] # "none" => status'[k] # "none"
  BY StatusMoves, RealMoveStates DEF PaymentStates
<1>5. CASE txCase' = txCase
  BY <1>4, <1>5 DEF PolicyInHand
<1>6. CASE txCase' # txCase
  BY <1>2, <1>3, <1>4, <1>6 DEF PolicyInHand
<1> QED  BY <1>5, <1>6

(* Policies stay, and stay where they are.                                  *)
LEMMA SalesStay ==
  ASSUME TypeOK, Truth, Next
  PROVE  /\ Len(sales) \in Nat /\ Len(sales') \in Nat /\ Len(sales) <= Len(sales')
         /\ \A i \in 1..Len(sales) : i \in 1..Len(sales') /\ sales'[i] = sales[i]
<1>1. CASE sales' = sales
  BY <1>1 DEF TypeOK
<1>2. CASE sales' # sales
  <2>1. PICK x \in Sales : sales' = Append(sales, x)
    BY <1>2, SalesMoves DEF Issued
  <2> QED  BY <2>1 DEF TypeOK
<1> QED  BY <1>1, <1>2

LEMMA BoughtStays ==
  ASSUME TypeOK, Truth, PolicyInHand, Next, NEW k \in Key, NEW i, Bought(k, i)
  PROVE  i \in 1..Len(sales') /\ sales'[i].case = txCase'[k]
<1>1. sales[i] \in Sales /\ i \in 1..Len(sales)
  BY DEF Bought, TypeOK
<1>2. txCase[k] # NoCase
  BY <1>1 DEF Bought, Sales
<1>3. txCase'[k] = txCase[k]
  BY <1>2, CaseStays
<1> QED  BY <1>3, SalesStay DEF Bought

LEMMA PolicyInHandKept ==
  ASSUME TypeOK, Truth, PolicyInHand, Next
  PROVE  PolicyInHand'
<1>1. \A k \in Key : txCase'[k] # NoCase => status'[k] # "none"
  BY CaseStays
<1>0. ASSUME NEW v \in Worker, job'[v].pc \in {"attach", "confirm"}
      PROVE  /\ job[v] \in BusyJob /\ job[v].tx \in Key /\ job'[v].tx = job[v].tx
             /\ \/ job'[v] = job[v]
                \/ IssuePolicy(v) /\ job'[v].pc = "attach"
                \/ AttachSale(v) /\ job'[v].pc = "confirm"
  <2>1. job[v] \in JobType /\ NoJob.pc \notin {"attach", "confirm"}
    BY DEF TypeOK, NoJob
  <2>2. job'[v] = job[v] \/ OwnStep(v)
    BY <1>0, <2>1, JobMoves
  <2>3. CASE job'[v] = job[v]
    BY <1>0, <2>1, <2>3, JobTypes DEF JobPCs
  <2>4. CASE OwnStep(v)
    <3>1. job[v] \in BusyJob /\ job[v].pc \in JobPCs /\ (GoesOn(v) \/ Hears(v))
      BY <1>0, <2>1, <2>4, OwnSteps DEF PicksUp
    <3>2. job[v].tx \in Key /\ GoesOn(v)
      BY <1>0, <3>1 DEF Hears, BusyJob
    <3> QED  BY <1>0, <3>1, <3>2 DEF GoesOn
  <2> QED  BY <2>2, <2>3, <2>4
<1>2. ASSUME NEW v \in Worker, job'[v].pc = "attach"
      PROVE  Bought(job[v].tx, job[v].sale)'
  <2>1. CASE job'[v] = job[v]
    <3>1. Bought(job[v].tx, job[v].sale)
      BY <1>2, <2>1 DEF PolicyInHand
    <3> QED  BY <1>0, <1>2, <2>1, <3>1, BoughtStays DEF Bought
  <2>2. CASE IssuePolicy(v)
    <3> DEFINE gets(i) == job' = [job EXCEPT ![v] = [job[v] EXCEPT !.pc = "attach", !.sale = i]]
    <3>1. ASSUME NEW i, gets(i)
          PROVE  job'[v].tx = job[v].tx /\ job'[v].sale = i
      <4>1. job'[v] = [job[v] EXCEPT !.pc = "attach", !.sale = i]
        BY <3>1 DEF TypeOK
      <4> QED  BY <1>0, <1>2, <4>1 DEF BusyJob
    <3>2. txCase' = txCase
      BY <2>2 DEF IssuePolicy, txVars
    <3>3. CASE HasPolicy(txCase[job[v].tx])
      <4>1. PICK i \in 1..Len(sales) : sales[i].case = txCase[job[v].tx] /\ gets(i)
        BY <2>2, <3>3 DEF IssuePolicy
      <4>2. sales' = sales
        BY <2>2, <3>3 DEF IssuePolicy
      <4> QED  BY <3>1, <3>2, <4>1, <4>2 DEF Bought
    <3>4. CASE ~HasPolicy(txCase[job[v].tx])
      <4>1. /\ sales' = Append(sales, [case |-> txCase[job[v].tx], paidBy |-> job[v].tx])
            /\ gets(Len(sales) + 1)
        BY <2>2, <3>4 DEF IssuePolicy
      <4>2. /\ Len(sales) + 1 \in 1..Len(sales')
            /\ sales'[Len(sales) + 1].case = txCase[job[v].tx]
        BY <4>1 DEF TypeOK
      <4>3. job'[v].tx = job[v].tx /\ job'[v].sale = Len(sales) + 1
        BY <3>1, <4>1
      <4> HIDE DEF gets
      <4> QED  BY <3>2, <4>2, <4>3 DEF Bought
    <3> QED  BY <3>3, <3>4
  <2> QED  BY <1>0, <1>2, <2>1, <2>2
<1>3. ASSUME NEW v \in Worker, job'[v].pc = "confirm"
      PROVE  \E i \in Nat : Bought(job[v].tx, i)'
  <2>1. PICK i \in Nat : Bought(job[v].tx, i)
    <3>1. CASE job'[v] = job[v]
      BY <1>3, <3>1 DEF PolicyInHand
    <3>2. CASE AttachSale(v)
      <4>1. job[v].sale \in Nat
        BY <1>0, <1>3 DEF BusyJob
      <4> QED  BY <3>2, <4>1 DEF AttachSale, PolicyInHand
    <3> QED  BY <1>0, <1>3, <3>1, <3>2
  <2>2. Bought(job[v].tx, i)'
    BY <1>0, <1>3, <2>1, BoughtStays DEF Bought
  <2> QED  BY <2>2
<1> QED  BY <1>1, <1>2, <1>3 DEF PolicyInHand

LEMMA AttachedKept ==
  ASSUME TypeOK, Truth, Covered, Next
  PROVE  AttachedSaleCoversCase'
<1> USE DEF Covered
<1> SUFFICES ASSUME NEW k \in Key, txSale'[k] # 0
             PROVE  Bought(k, txSale[k])'
  BY DEF AttachedSaleCoversCase, Bought
<1>1. ASSUME NEW w \in Worker, SettlePayment(w), txSale'[k] # txSale[k]
      PROVE  /\ job[w].pc = "attach" /\ job[w].tx = k
             /\ txSale'[k] = job[w].sale /\ UNCHANGED <<txCase, sales>>
  <2>1. AttachSale(w)
    <3>1. CASE IssuePolicy(w)
      BY <1>1, <3>1 DEF IssuePolicy, txVars
    <3> QED  BY <1>1, <3>1 DEF SettlePayment, SkipIssue, IssueFails, ConfirmCase, NotifyCustomer, txVars
  <2> QED  BY <1>1, <2>1 DEF AttachSale, TypeOK
<1>2. CASE txSale'[k] = txSale[k]
  <2>1. Bought(k, txSale[k])
    BY <1>2 DEF AttachedSaleCoversCase, Bought
  <2> QED  BY <1>2, <2>1, BoughtStays DEF Bought
<1>3. CASE txSale'[k] # txSale[k]
  <2>1. PICK w \in Worker : SettlePayment(w)
    BY <1>3, ConversationFrame, WebhookFrame, PollFrame, SweepFrame, EnvironmentFrame
       DEF Next, PollPick, AdminPick, txVars
  <2>2. Bought(k, job[w].sale)
    BY <1>1, <1>3, <2>1 DEF PolicyInHand
  <2> QED  BY <1>1, <1>3, <2>1, <2>2 DEF Bought
<1> QED  BY <1>2, <1>3

LEMMA CoveredAlways == Spec => []Covered
<1> USE DEF Covered, PolicyInHand, AttachedSaleCoversCase
<1>1. Init => Covered
  BY DEF Init, NoJob
<1>2. TypeOK /\ Truth /\ Covered /\ [Next]_vars => Covered'
  <2>1. CASE UNCHANGED vars
    BY <2>1 DEF vars, Bought, HasPolicy
  <2> HIDE DEF Covered, PolicyInHand, AttachedSaleCoversCase
  <2>2. ASSUME TypeOK, Truth, Covered, Next
        PROVE  Covered'
    BY <2>2, PolicyInHandKept, AttachedKept DEF Covered
  <2> QED  BY <2>1, <2>2
<1> QED  BY <1>1, <1>2, TypeCorrect, TruthAlways, PTL DEF Spec

(* The policy linked to a payment is a policy of the case it was for,       *)
(* whoever issued it, and stays so.                                         *)
THEOREM AttachedCovers == Spec => []AttachedSaleCoversCase
BY CoveredAlways, PTL DEF Covered

-----------------------------------------------------------------------------
(* Each move is settled once                                               *)

(* Only a worker whose own transition committed carries "real": before that *)
(* it is still listening, asking or expiring.                               *)
RealAfterMove ==
  \A w \in Worker :
    /\ job[w].real => job[w].pc \in {"marking", "issue", "attach", "confirm", "notify"}
    /\ job[w].pc = "expiring" => job[w].status = "expired"

(* One row at a time moves, and it moves for one worker: a job that settles *)
(* after a step either settled before it, of the same outcome, or made the  *)
(* move to that outcome in this step.                                       *)
LEMMA SettlerMoves ==
  ASSUME TypeOK, RealAfterMove, Next, NEW v \in Worker, Settling(v)'
  PROVE  /\ job[v].tx \in Key /\ job'[v].tx = job[v].tx /\ job'[v].status = job[v].status
         /\ \/ Settling(v)
            \/ /\ RealMove(status[job[v].tx], job[v].status)
               /\ status'[job[v].tx] = job[v].status
               /\ \A w \in Worker : w # v => job'[w] = job[w]
<1> USE DEF Settling
<1>1. job[v] \in JobType /\ NoJob.real = FALSE /\ NoJob.pc = "idle"
  BY DEF TypeOK, NoJob
<1>2. CASE job'[v] = job[v]
  <2>1. job[v] \in BusyJob
    BY <1>1, <1>2 DEF JobType
  <2> QED  BY <1>2, <2>1 DEF BusyJob
<1>3. CASE OwnStep(v)
  <2>1. job[v] \in BusyJob /\ (GoesOn(v) \/ Hears(v))
    BY <1>1, <1>3, OwnSteps DEF PicksUp
  <2>2. job[v].tx \in Key /\ job'[v].tx = job[v].tx
    BY <2>1 DEF BusyJob, GoesOn, Hears
  <2>3. CASE GoesOn(v)
    BY <2>2, <2>3 DEF GoesOn
  <2>4. CASE PollAnswer(v) /\ job'[v].real = job[v].real
    BY <2>4 DEF PollAnswer, RealAfterMove
  <2>5. CASE ApplyCallback(v) /\ job'[v].status = job[v].status
             /\ job'[v].real = RealMove(status[job[v].tx], job[v].status)
    <3>1. RealMove(status[job[v].tx], job[v].status)
      BY <2>5
    <3>2. status'[job[v].tx] = job[v].status
      BY <2>2, <2>5, <3>1 DEF ApplyCallback, Transition, TypeOK
    <3>3. \A w \in Worker : w # v => job'[w] = job[w]
      BY <2>5 DEF ApplyCallback, TypeOK
    <3> QED  BY <2>2, <2>5, <3>1, <3>2, <3>3
  <2>6. CASE SweepExpire(v) /\ job'[v].status = job[v].status
             /\ RealMove(status[job[v].tx], "expired")
    <3>1. status'[job[v].tx] = "expired"
      BY <2>2, <2>6 DEF SweepExpire, Transition, TypeOK
    <3>2. \A w \in Worker : w # v => job'[w] = job[w]
      BY <2>6 DEF SweepExpire, TypeOK
    <3>3. job[v].status = "expired"
      BY <2>6 DEF SweepExpire, RealAfterMove
    <3> QED  BY <2>2, <2>6, <3>1, <3>2, <3>3
  <2> QED  BY <2>1, <2>3, <2>4, <2>5, <2>6 DEF Hears
<1> QED  BY <1>1, <1>2, <1>3, JobMoves

LEMMA RealAfterMoveKept ==
  ASSUME TypeOK, RealAfterMove, Next
  PROVE  RealAfterMove'
<1> SUFFICES ASSUME NEW v \in Worker
             PROVE  /\ job'[v].real =>
                         job'[v].pc \in {"marking", "issue", "attach", "confirm", "notify"}
                    /\ job'[v].pc = "expiring" => job'[v].status = "expired"
  BY DEF RealAfterMove
<1>1. CASE job'[v] \in {job[v], NoJob}
  BY <1>1 DEF RealAfterMove, NoJob
<1>2. CASE OwnStep(v) /\ PicksUp(v)
  BY <1>2 DEF PicksUp
<1>3. CASE GoesOn(v) \/ Hears(v)
  BY <1>3 DEF GoesOn, Hears
<1> QED  BY <1>1, <1>2, <1>3, JobMoves, OwnSteps

LEMMA SettledOnceKept ==
  ASSUME TypeOK, RealAfterMove, SettledOnce, Next
  PROVE  SettledOnce'
<1>1. ASSUME NEW v \in Worker, Settling(v)'
      PROVE  status'[job'[v].tx] = job'[v].status
  <2>1. CASE Settling(v)
    <3>1. status[job[v].tx] = job[v].status /\ IsTerminal(job[v].status)
      BY <2>1 DEF SettledOnce, Settling
    <3>2. ~RealMove(status[job[v].tx], status'[job[v].tx]) /\ status[job[v].tx] # "none"
      BY <3>1, RealMoveStates DEF IsTerminal, TerminalStates, PaymentStates
    <3> QED  BY <1>1, <3>1, <3>2, SettlerMoves, StatusMoves
  <2>2. CASE status'[job[v].tx] = job[v].status
    BY <1>1, <2>2, SettlerMoves
  <2> QED  BY <1>1, <2>1, <2>2, SettlerMoves
<1>2. ASSUME NEW v \in Worker, NEW w \in Worker, Settling(v)', Settling(w)',
             job'[v].tx = job'[w].tx, v # w
      PROVE  FALSE
  <2>1. ASSUME NEW x \in Worker, NEW y \in Worker, x # y, Settling(x)', Settling(y)',
               job'[x].tx = job'[y].tx, ~Settling(x)
        PROVE  FALSE
    <3>1. /\ RealMove(status[job[x].tx], job[x].status)
          /\ job'[y] = job[y] /\ job'[x].tx = job[x].tx
      BY <2>1, SettlerMoves
    <3>2. ~IsTerminal(status[job[x].tx])
      BY <3>1, RealMoveStates
    <3>3. Settling(y)
      BY <2>1, <3>1 DEF Settling
    <3>4. status[job[y].tx] = job[y].status /\ IsTerminal(job[y].status)
      BY <3>3 DEF SettledOnce, Settling
    <3> QED  BY <2>1, <3>1, <3>2, <3>4
  <2>2. Settling(v) /\ Settling(w)
    BY <1>2, <2>1
  <2>3. job[v].tx = job[w].tx
    BY <1>2, SettlerMoves
  <2> QED  BY <1>2, <2>2, <2>3 DEF SettledOnce
<1> QED  BY <1>1, <1>2 DEF SettledOnce

-----------------------------------------------------------------------------
(* The audit trail                                                         *)

(* The moves only go forward, so a trail has at most four entries and the   *)
(* oldest are never cut.                                                    *)
StepsTo(s) ==
  CASE s = "pending" -> 1 [] s = "initiated" -> 2 [] s = "awaiting_confirmation" -> 3 [] OTHER -> 4

TrailIsShort == \A k \in Key : status[k] # "none" => Len(history[k]) <= StepsTo(status[k])

Recorded == RealAfterMove /\ TrailIsShort /\ EachMoveOnce

LEMMA MovesGoForward ==
  ASSUME NEW from, NEW to, RealMove(from, to)
  PROVE  StepsTo(from) + 1 <= StepsTo(to) /\ StepsTo(from) \in 1..3 /\ StepsTo(to) \in 1..4
<1>1. from \in PaymentStates /\ to \in TRANSITIONS[from] /\ from # to /\ to \in PaymentStates
  BY DEF RealMove, Verdict, IsKnownState
<1> QED  BY <1>1 DEF PaymentStates, TRANSITIONS, StepsTo

LEMMA ShortTrailsGrow ==
  ASSUME NEW S, NEW h \in Seq(S), NEW e, Len(h) < HistoryCap
  PROVE  AppendHistory(h, e) = Append(h, e)
BY DEF AppendHistory, HistoryCap

(* A row and its trail are written together: a status moves with one entry  *)
(* that says so, and a trail grows with a move only.                        *)
RowKept(k) == status'[k] = status[k] /\ history'[k] = history[k]

RowCreated(k) ==
  /\ status[k] = "none" /\ status'[k] = "pending"
  /\ history'[k] = <<HistoryEntry("pending", "pending")>>

RowMoved(k) ==
  /\ RealMove(status[k], status'[k])
  /\ history'[k] = AppendHistory(history[k], HistoryEntry(status[k], status'[k]))

LEMMA RowMoves ==
  ASSUME TypeOK, Next, NEW k \in Key
  PROVE  RowKept(k) \/ RowCreated(k) \/ RowMoved(k)
<1> DEFINE Row == RowKept(k) \/ RowCreated(k) \/ RowMoved(k)
<1>1. ASSUME UNCHANGED <<status, history>>
      PROVE  Row
  BY <1>1 DEF RowKept
<1>2. ASSUME NEW j, NEW to, Transition(j, to)
      PROVE  Row
  <2>1. CASE RealMove(status[j], to)
    <3>1. /\ status' = [status EXCEPT ![j] = to]
          /\ history' = [history EXCEPT ![j] = AppendHistory(@, HistoryEntry(status[j], to))]
      BY <1>2, <2>1 DEF Transition
    <3> QED  BY <2>1, <3>1 DEF RowKept, RowMoved, TypeOK
  <2>2. CASE ~RealMove(status[j], to)
    BY <1>1, <1>2, <2>2 DEF Transition
  <2> QED  BY <2>1, <2>2
<1>3. ASSUME NEW s \in Sessions, Conversation(s)
      PROVE  Row
  <2>1. ASSUME NEW p \in Payers, NEW c \in Cases \cup {NoCase}, StartPayment(s, p, c)
        PROVE  Row
    BY <2>1 DEF StartPayment, TypeOK, RowKept, RowCreated
  <2>2. ASSUME NEW answer, InitiatePayment(s, answer)
        PROVE  Row
    BY <1>1, <2>2 DEF InitiatePayment, txVars
  <2>3. CASE RecordProviderTxId(s)
    BY <1>1, <2>3 DEF RecordProviderTxId
  <2>4. CASE RecordAnswer(s) \/ RecordPrompt(s)
    BY <1>1, <1>2, <2>4 DEF RecordAnswer, RecordPrompt
  <2> QED  BY <1>3, <2>1, <2>2, <2>3, <2>4 DEF Conversation
<1>4. ASSUME NEW w \in Handlers, Webhook(w)
      PROVE  Row
  <2>1. ASSUME NEW m, NEW archived, ReceiveCallback(w, m, archived)
        PROVE  Row
    BY <1>1, <2>1 DEF ReceiveCallback, txVars
  <2> QED
    BY <1>1, <1>2, <1>4, <2>1 DEF Webhook, DropCallback, ApplyCallback, MarkCallback,
                                  CallbackThrows, txVars
<1>5. ASSUME NEW w \in Sweepers, Sweep(w)
      PROVE  Row
  BY <1>1, <1>2, <1>5 DEF Sweep, SweepPick, SweepExpire, txVars
<1>6. CASE Environment
  BY <1>1, <1>6, EnvironmentFrame DEF txVars
<1> QED
  BY <1>1, <1>3, <1>4, <1>5, <1>6, PollFrame, SettlePaymentFrame DEF Next, PollPick, AdminPick

LEMMA TrailKept ==
  ASSUME TypeOK, TrailIsShort, HistoryIsTrail, Next
  PROVE  TrailIsShort' /\ HistoryIsTrail'
<1> SUFFICES ASSUME NEW k \in Key, status'[k] # "none"
             PROVE  LET h == history'[k] IN
                    /\ Len(h) <= StepsTo(status'[k])
                    /\ Len(h) > 0 /\ h[1].from = "pending" /\ h[1].to = "pending"
                    /\ h[Len(h)].to = status'[k]
                    /\ \A i \in 2..Len(h) : h[i].from = h[i-1].to /\ RealMove(h[i].from, h[i].to)
  BY DEF TrailIsShort, HistoryIsTrail
<1>1. CASE RowKept(k)
  BY <1>1 DEF RowKept, TrailIsShort, HistoryIsTrail
<1>2. CASE RowCreated(k)
  BY <1>2 DEF RowCreated, HistoryEntry, StepsTo
<1>3. CASE RowMoved(k)
  <2> DEFINE h == history[k]
             e == HistoryEntry(status[k], status'[k])
             n == Len(h)
  <2>1. status[k] # "none" /\ RealMove(status[k], status'[k])
    BY <1>3, RealMoveStates DEF RowMoved, PaymentStates
  <2>2. h \in Seq([from : PaymentStates, to : PaymentStates]) /\ n \in Nat
    <3>1. h \in Seq([from : PaymentStates, to : PaymentStates])
      BY DEF TypeOK
    <3> QED  BY <3>1
  <2>3. n <= StepsTo(status[k]) /\ n > 0 /\ n + 1 <= StepsTo(status'[k]) /\ n < HistoryCap
    BY <2>1, <2>2, MovesGoForward DEF TrailIsShort, HistoryIsTrail, HistoryCap
  <2>4. history'[k] = Append(h, e)
    BY <1>3, <2>2, <2>3, ShortTrailsGrow DEF RowMoved
  <2>5. /\ Len(history'[k]) = n + 1 /\ history'[k][n + 1] = e
        /\ \A i \in 1..n : history'[k][i] = h[i]
    BY <2>2, <2>4
  <2>6. h[1].from = "pending" /\ h[1].to = "pending" /\ h[n].to = status[k]
    BY <2>1 DEF HistoryIsTrail
  <2>7. \A i \in 2..n : h[i].from = h[i-1].to /\ RealMove(h[i].from, h[i].to)
    BY <2>1 DEF HistoryIsTrail
  <2>8. e.from = status[k] /\ e.to = status'[k]
    BY DEF HistoryEntry
  <2> HIDE DEF h, e, n
  <2>9. ASSUME NEW i \in 2..(n + 1)
        PROVE  /\ history'[k][i].from = history'[k][i-1].to
               /\ RealMove(history'[k][i].from, history'[k][i].to)
    <3>1. CASE i = n + 1
      <4>1. i - 1 = n /\ n \in 1..n
        BY <2>2, <2>3, <3>1
      <4> QED  BY <2>1, <2>5, <2>6, <2>8, <3>1, <4>1
    <3>2. CASE i # n + 1
      <4>1. i \in 2..n /\ i \in 1..n /\ i - 1 \in 1..n
        BY <2>2, <3>2
      <4> QED  BY <2>5, <2>7, <4>1
    <3> QED  BY <3>1, <3>2
  <2>10. 1 \in 1..n /\ history'[k][1].from = "pending" /\ history'[k][1].to = "pending"
    BY <2>2, <2>3, <2>5, <2>6
  <2>11. history'[k][Len(history'[k])].to = status'[k] /\ Len(history'[k]) > 0
    BY <2>2, <2>5, <2>8
  <2>12. Len(history'[k]) <= StepsTo(status'[k])
    BY <2>3, <2>5
  <2> QED  BY <2>5, <2>9, <2>10, <2>11, <2>12
<1> QED  BY <1>1, <1>2, <1>3, RowMoves

(* The trail and the settlers, with what makes them inductive.             *)
LEMMA RecordedAlways == Spec => []Recorded
<1>1. Init => Recorded
  BY DEF Init, Recorded, RealAfterMove, TrailIsShort, EachMoveOnce, HistoryIsTrail, SettledOnce,
         Settling, NoJob
<1>2. TypeOK /\ Recorded /\ [Next]_vars => Recorded'
  <2>1. CASE UNCHANGED vars
    BY <2>1 DEF vars, Recorded, RealAfterMove, TrailIsShort, EachMoveOnce, HistoryIsTrail,
                SettledOnce, Settling
  <2>2. ASSUME TypeOK, Recorded, Next
        PROVE  Recorded'
    BY <2>2, RealAfterMoveKept, SettledOnceKept, TrailKept DEF Recorded, EachMoveOnce
  <2> QED  BY <2>1, <2>2
<1> QED  BY <1>1, <1>2, TypeCorrect, PTL DEF Spec

(* Each move of a payment leaves one entry in its audit trail, which reads  *)
(* from its creation to its present state, and is settled by one worker,    *)
(* as what the row says, however many callbacks and sweeps compete for it.  *)
THEOREM MovesOnce == Spec => []EachMoveOnce
BY RecordedAlways, PTL DEF Recorded

-----------------------------------------------------------------------------
(* Money that came in insures                                              *)

(* A payment that is completed by a step was completed by the callback that *)
(* reported it, whose request goes on to settle it.                         *)
LEMMA CompletedNow ==
  ASSUME TypeOK, Next, NEW k \in Key, status'[k] = "completed", status[k] # "completed"
  PROVE  \E w \in Worker : /\ Settling(w)' /\ job'[w].tx = k
                          /\ job'[w].pc = "marking"
<1>1. \E w \in Handlers : ApplyCallback(w)
  <2>1. CASE \E s \in Sessions : Conversation(s)
    <3>1. PICK s \in Sessions : Conversation(s)
      BY <2>1
    <3>2. ASSUME NEW j, NEW to, Transition(j, to), to # "completed"
          PROVE  FALSE
      BY <3>2, TransitionMoves
    <3>3. ASSUME NEW p \in Payers, NEW c \in Cases \cup {NoCase}, StartPayment(s, p, c)
          PROVE  FALSE
      BY <3>3 DEF StartPayment, TypeOK
    <3>4. ASSUME NEW answer, InitiatePayment(s, answer)
          PROVE  FALSE
      BY <3>4 DEF InitiatePayment, txVars
    <3>5. CASE RecordProviderTxId(s)
      BY <3>5 DEF RecordProviderTxId
    <3>6. CASE RecordAnswer(s) \/ RecordPrompt(s)
      BY <3>2, <3>6 DEF RecordAnswer, RecordPrompt, AnsweredState
    <3> QED  BY <3>1, <3>3, <3>4, <3>5, <3>6 DEF Conversation
  <2>2. ASSUME NEW w \in Handlers, Webhook(w)
        PROVE  ApplyCallback(w)
    <3>1. ASSUME NEW m, NEW archived, ReceiveCallback(w, m, archived)
          PROVE  FALSE
      BY <3>1 DEF ReceiveCallback, txVars
    <3> QED
      BY <2>2, <3>1 DEF Webhook, DropCallback, MarkCallback, CallbackThrows, txVars
  <2>3. ASSUME NEW w \in Sweepers, Sweep(w)
        PROVE  FALSE
    <3>1. Transition(job[w].tx, "expired")
      BY <2>3 DEF Sweep, SweepPick, SweepExpire, txVars
    <3> QED  BY <3>1, TransitionMoves
  <2>4. ASSUME Environment
        PROVE  FALSE
    BY <2>4, EnvironmentFrame DEF txVars
  <2> QED
    BY <2>1, <2>2, <2>3, <2>4, PollFrame, SettlePaymentFrame DEF Next, PollPick, AdminPick
<1>2. PICK w \in Handlers : ApplyCallback(w)
  BY <1>1
<1>3. w \in Worker /\ job \in [Worker -> JobType]
  BY DEF Worker, TypeOK
<1>4. job[w] \in BusyJob
  BY <1>2, <1>3, JobTypes DEF ApplyCallback, JobPCs
<1>5. Transition(job[w].tx, job[w].status)
  BY <1>2 DEF ApplyCallback
<1>6. /\ job[w].tx = k /\ job[w].status = "completed"
      /\ RealMove(status[job[w].tx], job[w].status)
  BY <1>5, TransitionMoves
<1>7. job'[w] = [job[w] EXCEPT !.pc = "marking", !.real = TRUE]
  <2>1. RealMove(status[job[w].tx], job[w].status) = TRUE
    BY <1>6 DEF RealMove
  <2>2. job' = [job EXCEPT ![w] = [job[w] EXCEPT !.pc = "marking",
                                   !.real = RealMove(status[job[w].tx], job[w].status)]]
    BY <1>2 DEF ApplyCallback
  <2> QED  BY <1>3, <2>1, <2>2
<1>8. /\ job'[w].pc = "marking" /\ job'[w].real /\ job'[w].tx = k
      /\ job'[w].status = "completed"
  BY <1>4, <1>6, <1>7 DEF BusyJob
<1> QED  BY <1>3, <1>8 DEF Settling, IsTerminal, TerminalStates, TRANSITIONS, PaymentStates

(* When nothing fails, a worker that is settling a completed payment stays  *)
(* where it is, takes its next step, or has just linked the policy.         *)
OnItsWay(w, k) ==
  Settling(w) /\ job[w].tx = k /\ job[w].pc \in {"marking", "issue", "attach"}

LEMMA SettlerGoesOn ==
  ASSUME TypeOK, PolicyInHand, Next, UNCHANGED faults, NEW k \in Key, txCase[k] \in Cases,
         NEW w \in Worker, OnItsWay(w, k), job[w].status = "completed"
  PROVE  OnItsWay(w, k)' \/ txSale'[k] # 0
<1> DEFINE Goal == OnItsWay(w, k)' \/ txSale'[k] # 0
<1>1. /\ job[w].real /\ IsTerminal(job[w].status) /\ job[w].tx = k
      /\ job[w].pc \in {"marking", "issue", "attach"}
  BY DEF OnItsWay, Settling
<1>2. job \in [Worker -> JobType] /\ job[w] \in BusyJob /\ faults \in Nat
  <2>1. job \in [Worker -> JobType] /\ faults \in Nat
    BY DEF TypeOK
  <2> QED  BY <1>1, <2>1, JobTypes DEF JobPCs
<1>3. ~Fault
  BY <1>2 DEF Fault
<1>4. ASSUME job'[w] = job[w]
      PROVE  Goal
  BY <1>1, <1>4 DEF OnItsWay, Settling
<1>5. ASSUME NEW i, \/ job'[w] = [job[w] EXCEPT !.pc = "issue"]
                    \/ job'[w] = [job[w] EXCEPT !.pc = "attach", !.sale = i]
      PROVE  Goal
  <2>1. /\ job'[w].pc \in {"issue", "attach"}
        /\ job'[w].tx = job[w].tx /\ job'[w].real = job[w].real
        /\ job'[w].status = job[w].status
    BY <1>2, <1>5 DEF BusyJob
  <2> QED  BY <1>1, <2>1 DEF OnItsWay, Settling
<1> HIDE DEF Goal
<1>6. ASSUME NEW s \in Sessions, Conversation(s)
      PROVE  Goal
  BY <1>4, <1>6, ConversationFrame
<1>7. ASSUME NEW v \in Handlers, Webhook(v)
      PROVE  Goal
  <2>1. CASE v = w
    <3>1. ASSUME NEW m, NEW archived, ReceiveCallback(v, m, archived)
          PROVE  FALSE
      BY <1>1, <2>1, <3>1 DEF ReceiveCallback
    <3>2. CASE DropCallback(v) \/ ApplyCallback(v)
      BY <1>1, <2>1, <3>2 DEF DropCallback, ApplyCallback
    <3>3. CASE MarkCallback(v)
      <4>1. job'[w] = [job[w] EXCEPT !.pc = "issue"]
        BY <1>1, <1>2, <2>1, <3>3 DEF MarkCallback
      <4> QED  BY <1>5, <4>1
    <3>4. CASE CallbackThrows(v)
      BY <1>3, <3>4 DEF CallbackThrows
    <3> QED  BY <1>7, <3>1, <3>2, <3>3, <3>4 DEF Webhook
  <2>2. CASE v # w
    <3>1. job'[w] = job[w]
      <4>1. ASSUME NEW m, NEW archived, ReceiveCallback(v, m, archived)
            PROVE  job'[w] = job[w]
        BY <1>2, <2>2, <4>1 DEF ReceiveCallback
      <4> QED
        BY <1>2, <1>7, <2>2, <4>1 DEF Webhook, DropCallback, ApplyCallback, MarkCallback,
                                      CallbackThrows
    <3> QED  BY <1>4, <3>1
  <2> QED  BY <2>1, <2>2
<1>8. ASSUME NEW v \in Worker, Poll(v) \/ \E j \in Key : AskAbout(v, j)
      PROVE  Goal
  <2>1. job'[w] = job[w]
    BY <1>1, <1>2, <1>8 DEF Poll, AskAbout, PollAnswer, PollThrows
  <2> QED  BY <1>4, <2>1
<1>9. ASSUME NEW v \in Sweepers, Sweep(v)
      PROVE  Goal
  <2>1. job'[w] = job[w]
    BY <1>1, <1>2, <1>9 DEF Sweep, SweepPick, SweepExpire
  <2> QED  BY <1>4, <2>1
<1>10. ASSUME NEW v \in Worker, SettlePayment(v)
      PROVE  Goal
  <2>1. CASE v = w
    <3>1. CASE SkipIssue(v)
      BY <2>1, <3>1 DEF SkipIssue
    <3>2. CASE IssuePolicy(v)
      <4>1. PICK i : job' = [job EXCEPT ![w] = [job[w] EXCEPT !.pc = "attach", !.sale = i]]
        BY <2>1, <3>2 DEF IssuePolicy
      <4>2. job'[w] = [job[w] EXCEPT !.pc = "attach", !.sale = i]
        BY <1>2, <4>1
      <4> QED  BY <1>5, <4>2
    <3>3. CASE IssueFails(v)
      BY <1>1, <1>3, <2>1, <3>3 DEF IssueFails
    <3>4. CASE AttachSale(v)
      <4>1. txSale' = [txSale EXCEPT ![k] = IF @ = 0 THEN job[w].sale ELSE @]
        BY <1>1, <1>3, <2>1, <3>4 DEF AttachSale
      <4>2. Bought(k, job[w].sale)
        BY <1>1, <2>1, <3>4 DEF AttachSale, PolicyInHand
      <4>3. job[w].sale # 0 /\ txSale \in [Key -> Nat]
        BY <4>2 DEF Bought, TypeOK
      <4> QED  BY <4>1, <4>3 DEF Goal
    <3>5. CASE ConfirmCase(v) \/ NotifyCustomer(v)
      BY <1>1, <2>1, <3>5 DEF ConfirmCase, NotifyCustomer
    <3> QED  BY <1>10, <3>1, <3>2, <3>3, <3>4, <3>5 DEF SettlePayment
  <2>2. CASE v # w
    <3>1. job'[w] = job[w]
      <4>1. CASE IssuePolicy(v)
        BY <1>2, <2>2, <4>1 DEF IssuePolicy
      <4> QED
        BY <1>2, <1>10, <2>2, <4>1 DEF SettlePayment, SkipIssue, IssueFails, AttachSale,
                                       ConfirmCase, NotifyCustomer
    <3> QED  BY <1>4, <3>1
  <2> QED  BY <2>1, <2>2
<1>11. ASSUME Environment
       PROVE  Goal
  <2>1. job' = job
    BY <1>3, <1>11 DEF Environment, OfficeIssue, OfficeSetsStatus, CustomerActs, SendCallback,
                       WebCrash, CronCrash
  <2> QED  BY <1>4, <2>1
<1>12. Goal
  <2>1. ASSUME NEW v \in Pollers \cup Admins, NEW j \in Key, PollPick(v, j) \/ AdminPick(v, j)
        PROVE  Goal
    BY <1>8, <2>1 DEF PollPick, AdminPick, Worker
  <2>2. ASSUME NEW v \in Pollers \cup Admins, Poll(v)
        PROVE  Goal
    BY <1>8, <2>2 DEF Worker
  <2> QED  BY <1>6, <1>7, <1>9, <1>10, <1>11, <2>1, <2>2 DEF Next
<1> QED  BY <1>12 DEF Goal

(* A linked policy stays linked, and a payment keeps the quote it is for.   *)
LEMMA LinkStays ==
  ASSUME TypeOK, Next, NEW k \in Key
  PROVE  /\ txSale[k] # 0 => txSale'[k] = txSale[k]
         /\ status[k] # "none" => txCase'[k] = txCase[k]
<1>1. ASSUME NEW s \in Sessions, Conversation(s)
      PROVE  txSale' = txSale /\ (status[k] # "none" => txCase'[k] = txCase[k])
  <2>1. ASSUME NEW p \in Payers, NEW c \in Cases \cup {NoCase}, StartPayment(s, p, c)
        PROVE  status[k] # "none" => txCase'[k] = txCase[k]
    BY <2>1 DEF StartPayment, TypeOK
  <2>2. ASSUME NEW answer, InitiatePayment(s, answer)
        PROVE  txCase' = txCase
    BY <2>2 DEF InitiatePayment, txVars
  <2>3. CASE RecordProviderTxId(s) \/ RecordAnswer(s) \/ RecordPrompt(s)
    BY <2>3 DEF RecordProviderTxId, RecordAnswer, RecordPrompt
  <2> QED  BY <1>1, <2>1, <2>2, <2>3, ConversationFrame DEF Conversation
<1>2. ASSUME NEW w \in Worker, SettlePayment(w)
      PROVE  txCase' = txCase /\ (txSale[k] # 0 => txSale'[k] = txSale[k])
  <2>1. CASE AttachSale(w)
    BY <1>2, <2>1, SettlePaymentFrame DEF AttachSale, TypeOK
  <2>2. CASE IssuePolicy(w)
    BY <2>2 DEF IssuePolicy, txVars
  <2> QED
    BY <1>2, <2>1, <2>2, SettlePaymentFrame
       DEF SettlePayment, SkipIssue, IssueFails, ConfirmCase, NotifyCustomer, txVars
<1>3. CASE Environment
  BY <1>3, EnvironmentFrame DEF txVars
<1> QED
  BY <1>1, <1>2, <1>3, WebhookFrame, PollFrame, SweepFrame DEF Next, PollPick, AdminPick

(* The second half of CompletedIsInsured.                                   *)
MoneyInsures ==
  faults = 0 =>
    \A k \in Key : status[k] = "completed" /\ txCase[k] \in Cases =>
      txSale[k] # 0 \/ \E w \in Worker : OnItsWay(w, k)

LEMMA MoneyInsuresKept ==
  ASSUME TypeOK, PolicyInHand, SettledOnce, MoneyInsures, Next
  PROVE  MoneyInsures'
<1> SUFFICES ASSUME faults' = 0, NEW k \in Key, status'[k] = "completed",
                    txCase'[k] \in Cases
             PROVE  txSale'[k] # 0 \/ \E w \in Worker : OnItsWay(w, k)'
  BY DEF MoneyInsures
<1>1. faults = 0
  <2>1. faults' \in {faults, faults + 1}
    <3> USE DEF Fault, NoFault, bounds
    <3>1. ASSUME NEW s, Conversation(s)
          PROVE  faults' \in {faults, faults + 1}
      <4>1. ASSUME NEW answer, InitiatePayment(s, answer)
            PROVE  faults' = faults
        BY <4>1 DEF InitiatePayment
      <4>2. ASSUME NEW p, NEW c, StartPayment(s, p, c)
            PROVE  faults' = faults
        BY <4>2 DEF StartPayment
      <4> QED  BY <3>1, <4>1, <4>2 DEF Conversation, RecordProviderTxId, RecordAnswer, RecordPrompt
    <3>2. ASSUME NEW w, Webhook(w)
          PROVE  faults' \in {faults, faults + 1}
      <4>1. ASSUME NEW m, NEW archived, ReceiveCallback(w, m, archived)
            PROVE  faults' \in {faults, faults + 1}
        BY <4>1 DEF ReceiveCallback
      <4> QED
        BY <3>2, <4>1 DEF Webhook, DropCallback, ApplyCallback, MarkCallback, CallbackThrows
    <3>3. ASSUME NEW w, Poll(w) \/ \E j \in Key : AskAbout(w, j)
          PROVE  faults' \in {faults, faults + 1}
      BY <3>3 DEF Poll, AskAbout, PollAnswer, PollThrows
    <3>4. ASSUME NEW w, Sweep(w)
          PROVE  faults' = faults
      BY <3>4 DEF Sweep, SweepPick, SweepExpire
    <3>5. ASSUME NEW w, SettlePayment(w)
          PROVE  faults' \in {faults, faults + 1}
      <4>1. CASE IssuePolicy(w)
        BY <4>1 DEF IssuePolicy
      <4> QED
        BY <3>5, <4>1 DEF SettlePayment, SkipIssue, IssueFails, AttachSale, ConfirmCase,
                          NotifyCustomer
    <3>6. CASE Environment
      BY <3>6 DEF Environment, OfficeIssue, OfficeSetsStatus, CustomerActs, SendCallback,
                  WebCrash, CronCrash
    <3> QED
      BY <3>1, <3>2, <3>3, <3>4, <3>5, <3>6 DEF Next, PollPick, AdminPick
  <2>2. faults \in Nat
    BY DEF TypeOK
  <2> QED  BY <2>1, <2>2
<1>2. CASE status[k] # "completed"
  BY <1>2, CompletedNow DEF OnItsWay
<1>3. CASE status[k] = "completed"
  <2>1. txCase[k] \in Cases
    BY <1>3, LinkStays
  <2>2. CASE txSale[k] # 0
    BY <2>2, LinkStays
  <2>3. CASE \E w \in Worker : OnItsWay(w, k)
    <3>1. PICK w \in Worker : OnItsWay(w, k)
      BY <2>3
    <3>2. job[w].status = "completed"
      BY <1>3, <3>1 DEF OnItsWay, SettledOnce
    <3>3. UNCHANGED faults
      BY <1>1
    <3> QED  BY <2>1, <3>1, <3>2, <3>3, SettlerGoesOn
  <2> QED  BY <1>1, <1>3, <2>1, <2>2, <2>3 DEF MoneyInsures
<1> QED  BY <1>2, <1>3

(* A payment links and confirms only an insured case; and as long as no     *)
(* statement failed and no process died, every completed payment of a quote *)
(* has its policy, or the one worker that completed it is on its way there, *)
(* however many redeliveries, sweeps and answers of the poller came between.*)
THEOREM CompletedInsures == Spec => []CompletedIsInsured
<1>1. Init => MoneyInsures
  BY DEF Init, MoneyInsures
<1>2. TypeOK /\ Covered /\ Recorded /\ MoneyInsures /\ [Next]_vars => MoneyInsures'
  <2>1. CASE UNCHANGED vars
    BY <2>1 DEF vars, MoneyInsures, OnItsWay, Settling
  <2> QED  BY <2>1, MoneyInsuresKept DEF Covered, Recorded, EachMoveOnce
<1>3. TypeOK /\ Covered /\ MoneyInsures => CompletedIsInsured
  BY DEF Covered, PolicyInHand, Bought, HasPolicy, MoneyInsures, OnItsWay, CompletedIsInsured
<1> QED  BY <1>1, <1>2, <1>3, TypeCorrect, CoveredAlways, RecordedAlways, PTL DEF Spec
=============================================================================
