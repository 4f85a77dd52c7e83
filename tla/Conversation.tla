----------------------------- MODULE Conversation -----------------------------
(***************************************************************************)
(* The WhatsApp conversations: Meta's webhook, the lock on a phone number, *)
(* the message archive, the engine that runs the purchase flow, and the    *)
(* payment outcomes that move a conversation nobody has written to.        *)
(*                                                                         *)
(* Meta answers to nobody: a message may be delivered late, out of order,  *)
(* several times and to several requests at once.  What a message says is  *)
(* chosen when it is acted on, so a customer may write anything at any     *)
(* time.  Of a payment only what the conversation sees is here, the row    *)
(* and its outcome; module Payments has the rest.                          *)
(*                                                                         *)
(* A request holds one database connection while it waits for the number   *)
(* and while it has it, and borrows another for every query in between.    *)
(***************************************************************************)
EXTENDS PurchaseFlow

CONSTANTS
  Numbers,   \* phone numbers
  MaxMessages,  \* bound on what one number writes
  Handlers,  \* concurrent webhook requests
  Nobody,    \* a lock that is free
  PoolSize,  \* connectionLimit
  MaxRepeats,   \* bound on messages delivered again
  MaxFaults     \* bound on failures

ASSUME ConversationAssumption ==
  /\ FlowAssumption
  /\ IsFiniteSet(Numbers) /\ IsFiniteSet(Handlers)
  /\ Nobody \notin Handlers /\ PoolSize \in Nat \ {0}
  /\ MaxMessages \in Nat /\ MaxRepeats \in Nat /\ MaxFaults \in Nat

VARIABLES
  sessions,  \* table whatsapp_sessions, in order of creation
  received,  \* messages of each number that Meta has delivered at least once
  repeats,   \* deliveries beyond the first
  archived,  \* table whatsapp_messages: the messages that came in
  quotes,    \* table cases: quotes made by a conversation
  pay,       \* table payment_transactions, by idempotency key
  lock,      \* GET_LOCK of each number
  job,       \* the webhook requests
  notices,   \* settlements that are about to tell the customer
  faults

vars == <<sessions, received, repeats, archived, quotes, pay, lock, job, notices, faults>>
tables == <<received, repeats, archived, quotes, pay, notices>>

-----------------------------------------------------------------------------
(* The messages of a number, in the order in which they first arrive.       *)
Messages == Numbers \X (1..MaxMessages)

(* wa:<session>:<provider>:<msisdn>:1                                       *)
Key == (1..Cardinality(Messages)) \X Providers \X (Phones \cup {None})

NoRow == [state |-> "none", case |-> 0, amount |-> 0]
Idle == [pc |-> "idle", msg |-> None, sid |-> 0, seen |-> None, quote |-> 0]

Init ==
  /\ sessions = <<>>
  /\ received = [n \in Numbers |-> 0]
  /\ repeats = 0
  /\ archived = {}
  /\ quotes = <<>>
  /\ pay = [k \in Key |-> NoRow]
  /\ lock = [n \in Numbers |-> Nobody]
  /\ job = [w \in Handlers |-> Idle]
  /\ notices = {}
  /\ faults = 0

Fault == faults < MaxFaults /\ faults' = faults + 1
NoFault == UNCHANGED faults

Number(w) == job[w].msg[1]
Active(s) == sessions[s].status = "active"
ActiveOf(n) == {s \in 1..Len(sessions) : sessions[s].number = n /\ Active(s)}

(* The pool: one connection per request that waits for a number or has it.  *)
Holding == {w \in Handlers : job[w].pc # "idle"}
HasConnection == Cardinality(Holding) < PoolSize

At(w, pc) == job[w].pc = pc /\ HasConnection
Goes(w, pc) == job' = [job EXCEPT ![w].pc = pc]

(* The end of a request that has the number: lock and connection released.  *)
Release(w) ==
  /\ job' = [job EXCEPT ![w] = Idle]
  /\ lock' = [n \in Numbers |-> IF lock[n] = w THEN Nobody ELSE lock[n]]

-----------------------------------------------------------------------------
(* POST /webhook                                                            *)

(* expireStaleSessions: conversations of any number whose window has closed *)
(* (the clock is not modelled: any that nobody has just written to).        *)
Expire(stale) ==
  /\ stale \subseteq {s \in 1..Len(sessions) : Active(s)}
  /\ sessions' = [s \in 1..Len(sessions) |->
                    IF s \in stale THEN [sessions[s] EXCEPT !.status = "expired"]
                                   ELSE sessions[s]]

(* A new message, or one that Meta delivers again.                          *)
Deliver(m) ==
  \/ /\ m[2] = received[m[1]] + 1
     /\ received' = [received EXCEPT ![m[1]] = m[2]]
     /\ UNCHANGED repeats
  \/ /\ m[2] <= received[m[1]]
     /\ repeats < MaxRepeats
     /\ repeats' = repeats + 1
     /\ UNCHANGED received

(* A message to act on: a connection is taken, to lock its number with.     *)
Receive(w, m, stale) ==
  /\ At(w, "idle")
  /\ Deliver(m)
  /\ Expire(stale)
  /\ job' = [job EXCEPT ![w] = [Idle EXCEPT !.pc = "locking", !.msg = m]]
  /\ UNCHANGED <<archived, quotes, pay, notices, lock, faults>>

(* A message over the limit of its number is archived and that is all; how  *)
(* many came in the last minute is not counted here.                        *)
RateLimited(w, m, stale) ==
  /\ At(w, "idle")
  /\ Deliver(m)
  /\ Expire(stale)
  /\ archived' = archived \cup {m}
  /\ UNCHANGED <<quotes, pay, notices, lock, job, faults>>

(* withNumberLock: GET_LOCK on the connection, for eight seconds.           *)
TakeLock(w) ==
  /\ job[w].pc = "locking"
  /\ lock[Number(w)] = Nobody
  /\ lock' = [lock EXCEPT ![Number(w)] = w]
  /\ Goes(w, "locked")
  /\ UNCHANGED <<sessions, tables, faults>>

LockTimeout(w) ==
  /\ job[w].pc = "locking"
  /\ lock[Number(w)] # Nobody
  /\ job' = [job EXCEPT ![w] = Idle]
  /\ UNCHANGED <<sessions, tables, lock, faults>>

(* getActiveSession, then recordInboundMessage (INSERT IGNORE): a second    *)
(* delivery ends here.  No other step comes between the two that could tell *)
(* them apart: what changes the row after it was read, changes it as well   *)
(* after the archive.                                                       *)
SessionRead(w) ==
  IF ActiveOf(Number(w)) = {}
    THEN job' = [job EXCEPT ![w].pc = "creating"]
    ELSE \E s \in ActiveOf(Number(w)) :
           job' = [job EXCEPT ![w] = [@ EXCEPT !.pc = "engine", !.sid = s, !.seen = sessions[s]]]

ReadAgain(w) ==  \* faulty: `duplicate` not looked at
  /\ At(w, "locked")
  /\ archived' = archived \cup {job[w].msg}
  /\ SessionRead(w)
  /\ UNCHANGED <<sessions, received, repeats, quotes, pay, notices, lock, faults>>

ReadSession(w) ==
  /\ At(w, "locked")
  /\ IF job[w].msg \in archived
       THEN Release(w) /\ UNCHANGED archived
       ELSE /\ archived' = archived \cup {job[w].msg}
            /\ SessionRead(w)
            /\ UNCHANGED lock
  /\ UNCHANGED <<sessions, received, repeats, quotes, pay, notices, faults>>

(* createSession; the UNIQUE active_lock refuses a second active one, and   *)
(* the request ends.                                                        *)
CreateSession(w) ==
  /\ At(w, "creating")
  /\ IF ActiveOf(Number(w)) # {}
       THEN Release(w) /\ UNCHANGED sessions
       ELSE LET new == NewSession(Number(w)) IN
            /\ sessions' = Append(sessions, new)
            /\ job' = [job EXCEPT ![w] = [@ EXCEPT
                         !.pc = "engine", !.sid = Len(sessions) + 1, !.seen = new]]
            /\ UNCHANGED lock
  /\ UNCHANGED <<tables, faults>>

-----------------------------------------------------------------------------
(* updateSession writes the columns the handler's patch names; a status is  *)
(* in the patch when asking the next question set one.                      *)
Patched(row, new, columns) ==
  [f \in Columns |-> IF f \in columns THEN new[f] ELSE row[f]]

Reply(w, new, columns) ==
  LET written == columns \cup (IF new.status # job[w].seen.status THEN {"status"} ELSE {})
  IN /\ sessions' = [sessions EXCEPT ![job[w].sid] = Patched(@, new, written)]
     /\ Release(w)

Moved == {"step", "hist", "retry"} \cup Collected

(* The engine runs on the row as it was read.                               *)
Engine(w) == At(w, "engine") /\ NoFault
In(w, q) == Engine(w) /\ job[w].seen.step = q

-----------------------------------------------------------------------------
(* Commands and messages that answer no question                            *)

(* HELP, AGENT, a language, the certificate again, a picture, a list being  *)
(* browsed, BACK with nothing to go back to, anything while a payment is    *)
(* awaited: words, and no change of row.                                    *)
Talk(w) ==
  /\ Engine(w)
  /\ Release(w)
  /\ UNCHANGED <<sessions, tables>>

FirstContact(w) ==
  /\ In(w, None)
  /\ Reply(w, Goto(job[w].seen, StartStep), {"step"})
  /\ UNCHANGED tables

Restart(w) ==
  LET r == job[w].seen
      new == [f \in Columns |->
                IF f \in {"number", "tx"} THEN r[f] ELSE NewSession(r.number)[f]]
  IN /\ Engine(w)
     /\ Reply(w, Goto(new, StartStep), Moved \cup {"status", "case"})
     /\ UNCHANGED tables

(* The last step answered is asked again; what was collected stays.         *)
Back(w) ==
  LET r == job[w].seen IN
  /\ Engine(w)
  /\ r.hist # <<>>
  /\ LET q == r.hist[Len(r.hist)]
         before == [r EXCEPT !.hist = SubSeq(@, 1, Len(@) - 1), !.retry = 0]
     IN \E offer \in Offers :
          Reply(w, Ask(before, q, offer),
                {"step", "hist", "retry"}
                  \cup IF q \in {"plan", "payment_provider"} THEN Collected ELSE {})
  /\ UNCHANGED tables

Cancel(w) ==
  /\ Engine(w)
  /\ Reply(w, [job[w].seen EXCEPT !.status = "cancelled"], {"status"})
  /\ UNCHANGED tables

(* An answer that is not understood; after the limit the grouped identity   *)
(* is asked one field at a time.                                            *)
NotUnderstood(w) ==
  LET r == job[w].seen
      worse == [r EXCEPT !.retry = @ + 1]
  IN /\ Engine(w)
     /\ r.step \in Steps \ {"payment_wait", "done"}
     /\ IF r.step = "identity" /\ worse.retry >= RetryLimit
          THEN Reply(w, [Goto(r, "identity_last_name") EXCEPT !.retry = 0], {"step", "retry"})
          ELSE Reply(w, worse, {"retry"})
     /\ UNCHANGED tables

-----------------------------------------------------------------------------
(* Answers                                                                  *)

AnswerQuestion(w) ==
  LET r == job[w].seen IN
  /\ Engine(w)
  /\ r.step \in Questions
  /\ \E a \in Answers(r.step), t \in Trips, offer \in Offers :
       LET told == [Answered(r) EXCEPT !.known = @ \cup a.gives,
                                       !.trip = IF ChangesTrip(a) THEN t ELSE @]
       IN IF a.more /\ ~r.editing
            THEN Reply(w, told, Moved)
            ELSE Reply(w, Lead(told, NextStep(r.step, told.known), offer), Moved)
  /\ UNCHANGED tables

ChoosePlan(w) ==
  /\ In(w, "plan")
  /\ \E p \in Priced(job[w].seen.trip), offer \in Offers :
       Reply(w, Lead(WithPlan(Answered(job[w].seen), p), "review", offer), Moved)
  /\ UNCHANGED tables

CancelReview(w) ==
  /\ In(w, "review") \/ In(w, "payment_retry")
  /\ Reply(w, [Answered(job[w].seen) EXCEPT !.status = "cancelled"],
           Moved \ {"step"})
  /\ UNCHANGED tables

ChangeDetail(w) ==
  /\ In(w, "review")
  /\ Reply(w, Goto(Answered(job[w].seen), "review_edit"), Moved)
  /\ UNCHANGED tables

ChooseDetail(w) ==
  /\ In(w, "review_edit")
  /\ \E q \in Offered(job[w].seen.known) :
       Reply(w, Goto([Answered(job[w].seen) EXCEPT !.editing = TRUE], q), Moved)
  /\ UNCHANGED tables

(* confirmQuote: createQuote prices the trip again, in a transaction of its *)
(* own; the conversation keeps the premium it had.                          *)
RefuseQuote(w) ==
  /\ At(w, "engine") /\ job[w].seen.step = "review"
  /\ IF PriceOf(job[w].seen) = 0 THEN NoFault ELSE Fault
  /\ \E st \in {"active", "escalated"} :
       Reply(w, [job[w].seen EXCEPT !.status = st], {"status"})
  /\ UNCHANGED tables

ConfirmUnpriced(w) ==  \* faulty: a trip without a price is quoted at 0
  LET r == job[w].seen IN
  /\ In(w, "review")
  /\ quotes' = Append(quotes, [session |-> job[w].sid, price |-> PriceOf(r), by |-> job[w].msg])
  /\ job' = [job EXCEPT ![w] = [@ EXCEPT !.pc = "quoted", !.seen = Answered(r),
                                         !.quote = Len(quotes) + 1]]
  /\ UNCHANGED <<sessions, received, repeats, archived, pay, notices, lock>>

Confirm(w) ==
  LET r == job[w].seen IN
  /\ In(w, "review")
  /\ PriceOf(r) > 0
  /\ quotes' = Append(quotes, [session |-> job[w].sid, price |-> PriceOf(r), by |-> job[w].msg])
  /\ job' = [job EXCEPT ![w] = [@ EXCEPT !.pc = "quoted", !.seen = Answered(r),
                                         !.quote = Len(quotes) + 1]]
  /\ UNCHANGED <<sessions, received, repeats, archived, pay, notices, lock>>

AfterQuote(w) ==
  LET r == [job[w].seen EXCEPT !.case = job[w].quote, !.hist = Append(@, "review")]
  IN /\ At(w, "quoted") /\ NoFault
     /\ \E offer \in Offers :
          IF offer = {}
            THEN Reply(w, Ask(r, "done", offer), {"step", "case"} \cup Collected)
            ELSE Reply(w, Ask(r, "payment_provider", offer),
                       {"step", "case", "hist"} \cup Collected)
     /\ UNCHANGED tables

-----------------------------------------------------------------------------
(* Paying                                                                   *)

ChooseProvider(w) ==
  LET r == job[w].seen IN
  /\ In(w, "payment_provider")
  /\ \E p \in r.options, offer \in Offers :
       Reply(w, Lead([Answered(r) EXCEPT !.provider = p], "payment_phone", offer), Moved)
  /\ UNCHANGED tables

(* The number to charge, or the same again: on to the provider, unless a    *)
(* detail was still being changed.                                          *)
GivePhone(w) ==
  LET r == job[w].seen IN
  /\ In(w, "payment_phone")
  /\ \E ph \in Phones :
       LET told == [Answered(r) EXCEPT !.phone = ph] IN
       IF r.editing
         THEN Reply(w, Lead(told, "review", {}), Moved)
         ELSE /\ job' = [job EXCEPT ![w] = [@ EXCEPT !.pc = "starting", !.seen = told]]
              /\ UNCHANGED <<sessions, lock>>
  /\ UNCHANGED tables

RetryPayment(w) ==
  /\ In(w, "payment_retry")
  /\ job' = [job EXCEPT ![w] = [@ EXCEPT !.pc = "starting", !.seen = Answered(job[w].seen)]]
  /\ UNCHANGED <<sessions, tables, lock>>

SwitchProvider(w) ==
  /\ In(w, "payment_retry")
  /\ \E offer \in Offers :
       Reply(w, Ask(Answered(job[w].seen), "payment_provider", offer), Moved)
  /\ UNCHANGED tables

(* startPaymentForSession                                                   *)
TxOf(w) == <<job[w].sid, job[w].seen.provider, job[w].seen.phone>>

CannotPay(w) == Reply(w, Goto(job[w].seen, "payment_retry"), Moved)

(* No such operator, one that is no longer ready, no amount; or the row     *)
(* cannot be written.                                                       *)
RefusePayment(w) ==
  LET r == job[w].seen
      withdrawn == \E offer \in Offers : r.provider \notin offer
  IN /\ At(w, "starting")
     /\ IF r.provider = None \/ r.premium = 0 \/ withdrawn THEN NoFault ELSE Fault
     /\ CannotPay(w)
     /\ UNCHANGED tables

(* createTransaction: the row of the key, or a new one for what the         *)
(* conversation was told the premium is.                                    *)
CreateTransaction(w) ==
  LET r == job[w].seen IN
  /\ At(w, "starting") /\ NoFault
  /\ r.provider # None /\ r.premium # 0
  /\ pay' = [pay EXCEPT ![TxOf(w)] =
               IF @ # NoRow THEN @
               ELSE [state |-> "open", case |-> r.case, amount |-> r.premium]]
  /\ Goes(w, "parking")
  /\ UNCHANGED <<sessions, received, repeats, archived, quotes, notices, lock>>

(* paymentTransactionId, before the provider is called; failures ignored.   *)
Park(w) ==
  /\ At(w, "parking")
  /\ \/ sessions' = [sessions EXCEPT ![job[w].sid].tx = TxOf(w)] /\ NoFault
     \/ UNCHANGED sessions /\ Fault
  /\ Goes(w, "calling")
  /\ UNCHANGED <<tables, lock>>

AcceptedUnparked(w) ==  \* faulty: the patch does not name the payment
  /\ At(w, "calling") /\ NoFault
  /\ Reply(w, Goto(job[w].seen, "payment_wait"), Moved)
  /\ UNCHANGED tables

(* The provider prompts the customer, or does not; then the payment fails,  *)
(* unless that cannot be written (ignored).                                 *)
Accepted(w) ==
  /\ At(w, "calling") /\ NoFault
  /\ Reply(w, [Goto(job[w].seen, "payment_wait") EXCEPT !.tx = TxOf(w)], Moved \cup {"tx"})
  /\ UNCHANGED tables

Rejected(w) ==
  /\ At(w, "calling")
  /\ \/ pay' = [pay EXCEPT ![TxOf(w)].state = "ended"] /\ NoFault
     \/ UNCHANGED pay /\ Fault
  /\ CannotPay(w)
  /\ UNCHANGED <<received, repeats, archived, quotes, notices>>

(* A query or the engine throws: an apology, and the number is released.    *)
HandlerFails(w) ==
  /\ job[w].pc \notin {"idle", "locking"}
  /\ Fault
  /\ Release(w)
  /\ UNCHANGED <<sessions, tables>>

-----------------------------------------------------------------------------
(* Outcomes, as module Payments has them: a callback or the sweeper moves   *)
(* the row once, the poller settles without moving it.                      *)
Settle(k, outcome) ==
  /\ pay[k].state = "open"
  /\ \E st \in {"open", "ended"} : pay' = [pay EXCEPT ![k].state = st]
  /\ notices' = notices \cup {[tx |-> k, outcome |-> outcome, sending |-> FALSE]}
  /\ UNCHANGED <<sessions, received, repeats, archived, quotes, lock, job, faults>>

(* notifyConversation: reads the conversation of the payment, sends, and    *)
(* writes the step; it takes no number lock.                                *)
Notify(n) ==
  /\ n \in notices /\ ~n.sending /\ HasConnection
  /\ notices' = (notices \ {n}) \cup
       IF sessions[n.tx[1]].status \in {"cancelled", "expired"} THEN {}
       ELSE {[n EXCEPT !.sending = TRUE]}
  /\ UNCHANGED <<sessions, received, repeats, archived, quotes, pay, lock, job, faults>>

ResumedWhole(n) ==  \* faulty: the history is written back as well
  /\ n \in notices /\ n.sending /\ HasConnection
  /\ sessions' = [sessions EXCEPT ![n.tx[1]] =
       IF n.outcome = "completed" THEN [Goto(@, "done") EXCEPT !.status = "completed"]
       ELSE [Goto(@, "payment_retry") EXCEPT !.hist = <<>>]]
  /\ notices' = notices \ {n}
  /\ UNCHANGED <<received, repeats, archived, quotes, pay, lock, job, faults>>

ResumeAfterPayment(n) ==
  /\ n \in notices /\ n.sending /\ HasConnection
  /\ sessions' = [sessions EXCEPT ![n.tx[1]] =
       IF n.outcome = "completed" THEN [Goto(@, "done") EXCEPT !.status = "completed"]
       ELSE Goto(@, "payment_retry")]
  /\ notices' = notices \ {n}
  /\ UNCHANGED <<received, repeats, archived, quotes, pay, lock, job, faults>>

(* The web process dies: its locks go with its connections, and any of the  *)
(* settlements with it (the scripts run on their own).                      *)
Crash(lost) ==
  /\ Fault
  /\ job' = [w \in Handlers |-> Idle]
  /\ lock' = [n \in Numbers |-> Nobody]
  /\ notices' = notices \ lost
  /\ UNCHANGED <<sessions, received, repeats, archived, quotes, pay>>

-----------------------------------------------------------------------------
Command(w) == Talk(w) \/ Restart(w) \/ Back(w) \/ Cancel(w)

Flow(w) ==
  \/ FirstContact(w)
  \/ NotUnderstood(w)
  \/ AnswerQuestion(w)
  \/ ChoosePlan(w)
  \/ CancelReview(w)
  \/ ChangeDetail(w)
  \/ ChooseDetail(w)
  \/ Confirm(w)
  \/ RefuseQuote(w)
  \/ AfterQuote(w)

Paying(w) ==
  \/ ChooseProvider(w)
  \/ GivePhone(w)
  \/ RetryPayment(w)
  \/ SwitchProvider(w)
  \/ RefusePayment(w)
  \/ CreateTransaction(w)
  \/ Park(w)
  \/ Accepted(w)
  \/ Rejected(w)

HandleSingleMessage(w) ==
  \/ TakeLock(w)
  \/ LockTimeout(w)
  \/ ReadSession(w)
  \/ CreateSession(w)
  \/ Command(w)
  \/ Flow(w)
  \/ Paying(w)

Next ==
  \/ \E w \in Handlers, m \in Messages, stale \in SUBSET (1..Len(sessions)) :
       Receive(w, m, stale) \/ RateLimited(w, m, stale)
  \/ \E w \in Handlers : HandleSingleMessage(w) \/ HandlerFails(w)
  \/ \E k \in Key, outcome \in {"completed", "failed"} : Settle(k, outcome)
  \/ \E n \in notices : Notify(n) \/ ResumeAfterPayment(n)
  \/ \E lost \in SUBSET notices : Crash(lost)

Spec == Init /\ [][Next]_vars

(* A request that runs takes its next step, or times out.                   *)
FairSpec == Spec /\ \A w \in Handlers : WF_vars(HandleSingleMessage(w))

-----------------------------------------------------------------------------
(* Types                                                                    *)

SessionType ==
  [number : Numbers, status : Statuses, step : Steps \cup {None},
   hist : Seq(Steps \ {"payment_wait", "done"}), retry : Nat, case : Nat, tx : Key \cup {None},
   known : SUBSET Fields, trip : Trips \cup {None}, plan : Plans \cup {None},
   premium : Nat, options : SUBSET Providers, provider : Providers \cup {None},
   phone : Phones \cup {None}, editing : BOOLEAN]

JobPCs ==
  {"idle", "locking", "locked", "creating", "engine", "quoted",
   "starting", "parking", "calling"}

(* Every variable keeps its shape.                                          *)
TypeOK ==
  /\ sessions \in Seq(SessionType)
  /\ received \in [Numbers -> 0..MaxMessages]
  /\ repeats \in 0..MaxRepeats
  /\ archived \subseteq Messages
  /\ quotes \in Seq([session : Nat, price : Nat \ {0}, by : Messages])
  /\ pay \in [Key -> [state : {"none", "open", "ended"}, case : Nat, amount : Nat]]
  /\ lock \in [Numbers -> Handlers \cup {Nobody}]
  /\ job \in [Handlers -> [pc : JobPCs, msg : Messages \cup {None}, sid : Nat,
                          seen : SessionType \cup {None}, quote : Nat]]
  /\ notices \subseteq [tx : Key, outcome : {"completed", "failed"}, sending : BOOLEAN]
  /\ faults \in 0..MaxFaults

-----------------------------------------------------------------------------
(* What the system gets right                                               *)

(* No answer of a customer is lost: whatever a request is about to write,   *)
(* the details and the history it read are still those of the row, though   *)
(* other requests and payment outcomes reach the same row meanwhile.        *)
NoAnswerLost ==
  \A w \in Handlers : job[w].pc = "engine" =>
    \A f \in Columns \ {"status", "step", "tx"} :
      sessions[job[w].sid][f] = job[w].seen[f]

(* A conversation is opened only when its number has none, so the UNIQUE    *)
(* index on active_lock never turns a customer away.                        *)
OpensOnlyWhenNone ==
  \A w \in Handlers : job[w].pc = "creating" => ActiveOf(Number(w)) = {}

(* A confirmation makes one quote, however often Meta delivers it and       *)
(* however many requests it reaches.                                        *)
OneQuotePerMessage ==
  \A i, j \in 1..Len(quotes) : quotes[i].by = quotes[j].by => i = j

(* What the lock of the number is for: one message acts at a time.          *)
OneAtATime == OpensOnlyWhenNone /\ OneQuotePerMessage

(* A conversation that waits for a payment waits for one that exists and    *)
(* will tell this conversation how it ended.                                *)
WaitingHasPayment ==
  \A s \in 1..Len(sessions) : sessions[s].step = "payment_wait" =>
    LET k == sessions[s].tx IN
    /\ k \in Key /\ k[1] = s
    /\ pay[k].state # "none"

-----------------------------------------------------------------------------
(* What the repository says and the code does not do                        *)

(* "The premium written to the database is always recalculated from the     *)
(* live catalogue" (quoteModel.js:15): the customer is charged what the     *)
(* quote costs.                                                             *)
ChargedIsQuoted ==
  \A k \in Key : pay[k].case # 0 => pay[k].amount = quotes[pay[k].case].price

(* "... is how connection pools die.  An advisory lock gives us mutual      *)
(* exclusion per phone number without pinning a transaction"                *)
(* (whatsappModel.js:17): a request always ends.                            *)
RequestEnds == \A w \in Handlers : job[w].pc # "idle" ~> job[w].pc = "idle"
=============================================================================
