------------------------------- MODULE Delivery -------------------------------
(***************************************************************************)
(* What the system says to a customer on WhatsApp.  Every message is       *)
(* written to whatsapp_messages, posted to Meta with retries, and marked.  *)
(* A settled payment sends a notice and the certificate; a customer asks   *)
(* for the certificate again; a partner sends a text.  Free-form messages  *)
(* are for customers who wrote recently, templates for the others.  Meta   *)
(* may answer, refuse, fail, or do its work and lose the answer; receipts  *)
(* come in any order; statements fail and the web process dies.            *)
(***************************************************************************)
EXTENDS Integers, Sequences, FiniteSets

CONSTANTS
  Notices, Asks, Partners,  \* settled payments, requests for a certificate, texts of partners
  NoJob,      \* who holds the turn of the number when nobody does
  Never,
  NoticeSize,  \* replies in a notice
  MaxAttempts, \* attempts of a send
  Window,      \* how long a customer may be written to freely
  ResendLimit, ResendWindow,  \* certificates a customer is sent on request, and per what time
  MinDays, Retentions,        \* least retention, the configured ones
  MaxSessions, MaxReceipts, MaxTime, MaxFailures   \* bounds, for model checking

Jobs == Notices \cup Asks \cup Partners   \* what there is to say, each one once

ASSUME DeliveryAssumption ==
  /\ Notices \cap Asks = {} /\ Notices \cap Partners = {} /\ Asks \cap Partners = {}
  /\ IsFiniteSet(Jobs) /\ NoJob \notin Jobs /\ Never \notin Nat
  /\ NoticeSize \in Nat \ {0} /\ MaxAttempts \in Nat \ {0}
  /\ Window \in Nat \ {0} /\ ResendLimit \in Nat /\ ResendWindow \in Nat \ {0}
  /\ MinDays \in Nat /\ MinDays > Window /\ MinDays >= ResendWindow /\ Retentions \subseteq Nat
  /\ MaxSessions \in Nat \ {0} /\ {MaxReceipts, MaxTime, MaxFailures} \subseteq Nat

VARIABLES
  log,        \* outbound rows of whatsapp_messages, by message
  heard,      \* per session, the newest inbound row that names it
  session,    \* the number's newest session
  wrote,      \* when the customer last wrote
  turn,       \* GET_LOCK on the number
  templates,  \* the templates that are configured
  phone,      \* how many copies of a message Meta has accepted
  lost,       \* how many of Meta's answers were lost
  bounced,    \* messages of which Meta reported a failure later
  sends,      \* the local variables of the jobs
  uncounted,  \* history: the requests for which the certificates sent could not be counted
  receipts, now,
  failures    \* lost answers, failures and crashes so far

deliveryVars ==
  <<log, heard, session, wrote, turn, templates, phone, lost, bounced, sends,
    uncounted, receipts, now, failures>>

Job(pc, s) ==
  [pc |-> pc, session |-> s, phase |-> "notice", left |-> <<>>, n |-> 0,
   open |-> TRUE, wordsOnly |-> FALSE, try |-> 0, ok |-> FALSE, results |-> <<>>]

Outgoing == Jobs \X (1 .. NoticeSize + 2)   \* the n-th message of a job
Sessions == 1 .. MaxSessions

DeliveryInit ==
  /\ log = <<>>
  /\ heard = [s \in Sessions |-> IF s = 1 THEN 0 ELSE Never]
  /\ session = 1 /\ wrote = 0
  /\ turn = NoJob
  /\ templates \in SUBSET {"notice", "certificate"}
  /\ phone = [m \in Outgoing |-> 0] /\ lost = [m \in Outgoing |-> 0]
  /\ bounced = {}
  /\ sends = [j \in Jobs |-> Job("new", 0)]
  /\ uncounted = {}
  /\ receipts = 0 /\ now = 0 /\ failures = 0

Failure == failures < MaxFailures /\ failures' = failures + 1
Sets(j, r) == sends' = [sends EXCEPT ![j] = r]

(* withinCustomerServiceWindow(getLastInboundAt): of one session.           *)
Open(s) == heard[s] # Never /\ now - heard[s] < Window

(* What Meta enforces: whatever the session.                                *)
MetaOpen == now - wrote < Window

-----------------------------------------------------------------------------
(* What there is to say                                                     *)

(* deliverToSession: when the window is closed only the first reply is sent,*)
(* as a template if there is one.                                           *)
Batch(open, template) ==
  [i \in 1 .. NoticeSize |->
     IF open THEN "text" ELSE IF template /\ i = 1 THEN "template" ELSE "none"]

(* notifyConversation, in the session of the purchase.  The certificate will*)
(* follow when the payment has completed and has its sale.                  *)
Notice(j, sold) ==
  /\ j \in Notices /\ sends[j].pc = "new"
  /\ Sets(j, [Job("next", 1) EXCEPT !.open = Open(1), !.wordsOnly = ~sold,
                                    !.left = Batch(Open(1), "notice" \in templates)])
  /\ UNCHANGED <<log, heard, session, wrote, turn, templates, phone, lost, bounced, uncounted, receipts, now, failures>>

(* The payment has no session, or one that is gone, cancelled or expired, or*)
(* WhatsApp is not configured, or a read throws: nothing is said, and that  *)
(* is what the caller is told.                                              *)
NoticeGivesUp(j) ==
  /\ j \in Notices /\ sends[j].pc = "new"
  /\ Sets(j, [sends[j] EXCEPT !.pc = "gaveUp"])
  /\ UNCHANGED <<log, heard, session, wrote, turn, templates, phone, lost, bounced, uncounted, receipts, now, failures>>

(* sendMessage: a partner's text, whatever the window.                      *)
SendMessage(j) ==
  /\ j \in Partners /\ sends[j].pc = "new"
  /\ Sets(j, [Job("next", session) EXCEPT !.left = <<"text">>])
  /\ UNCHANGED <<log, heard, session, wrote, turn, templates, phone, lost, bounced, uncounted, receipts, now, failures>>

(* faulty: the lock is not waited for                                       *)
AskUnlocked(j, opens) ==
  /\ j \in Asks /\ sends[j].pc = "new"
  /\ wrote' = now
  /\ heard' = IF opens THEN heard ELSE [heard EXCEPT ![session] = now]
  /\ session' = IF opens THEN session + 1 ELSE session
  /\ turn' = j
  /\ Sets(j, Job("counting", session'))
  /\ UNCHANGED <<log, templates, phone, lost, bounced, uncounted, receipts, now, failures>>

(* handleSingleMessage: the customer asks for the certificate again.  Their *)
(* message is archived under the session there is; when there is none, under*)
(* no session, and then one is opened.                                      *)
AskCertificate(j, opens) ==
  /\ j \in Asks /\ sends[j].pc = "new" /\ turn = NoJob
  /\ wrote' = now
  /\ heard' = IF opens THEN heard ELSE [heard EXCEPT ![session] = now]
  /\ session' = IF opens THEN session + 1 ELSE session
  /\ turn' = j
  /\ Sets(j, Job("counting", session'))
  /\ UNCHANGED <<log, templates, phone, lost, bounced, uncounted, receipts, now, failures>>

(* countRecentOutboundByStep.                                               *)
Recent == {m \in DOMAIN log : log[m].step = "certificate" /\ log[m].status # "failed"
                              /\ log[m].at + ResendWindow > now}

(* handleCertificateRequest: words first, and only words when the limit is  *)
(* reached, or when no policy with a certificate is found, as when the look *)
(* fails.                                                                   *)
Count(j, found) ==
  /\ sends[j].pc = "counting"
  /\ Sets(j, [sends[j] EXCEPT !.pc = "next", !.left = <<"text">>,
                              !.wordsOnly = ~found \/ Cardinality(Recent) >= ResendLimit])
  /\ UNCHANGED <<log, heard, session, wrote, turn, templates, phone, lost, bounced, uncounted, receipts, now, failures>>

(* A count that fails is taken for none.                                    *)
CountFails(j) ==
  /\ sends[j].pc = "counting" /\ Failure
  /\ Sets(j, [sends[j] EXCEPT !.pc = "next", !.left = <<"text">>])
  /\ uncounted' = uncounted \cup {j}
  /\ UNCHANGED <<log, heard, session, wrote, turn, templates, phone, lost, bounced, receipts, now>>

(* The message is dropped: its number sends too many, the turn does not come*)
(* in time, or a statement fails before anything is said.                   *)
AskFails(j) ==
  /\ j \in Asks /\ sends[j].pc \in {"new", "counting"} /\ Failure
  /\ wrote' = IF sends[j].pc = "new" THEN now ELSE wrote
  /\ turn' = IF turn = j THEN NoJob ELSE turn
  /\ Sets(j, [sends[j] EXCEPT !.pc = "gaveUp"])
  /\ UNCHANGED <<log, heard, session, templates, phone, lost, bounced, uncounted, receipts, now>>

(* deliverCertificate: a document or, when it is too large, its link.       *)
Certificate(j, tooLarge) ==
  LET open == Open(sends[j].session) IN
  /\ sends[j].pc = "deciding"
  /\ Sets(j, [sends[j] EXCEPT !.pc = "next", !.open = open,
       !.left = IF ~open THEN IF "certificate" \in templates THEN <<"template">> ELSE <<"none">>
                ELSE IF tooLarge THEN <<"text">> ELSE <<"document">>])
  /\ UNCHANGED <<log, heard, session, wrote, turn, templates, phone, lost, bounced, uncounted, receipts, now, failures>>

(* There is no certificate, token or public address, or a read fails.       *)
CertificateFails(j) ==
  /\ sends[j].pc = "deciding" /\ Failure
  /\ Sets(j, [sends[j] EXCEPT !.pc = "next", !.results = Append(@, "threw")])
  /\ UNCHANGED <<log, heard, session, wrote, turn, templates, phone, lost, bounced, uncounted, receipts, now>>

-----------------------------------------------------------------------------
(* Sending: sendAndLog and graphSend                                        *)

Message(j) == <<j, sends[j].n>>

Step(j) == IF sends[j].phase = "notice" THEN "notice" ELSE "certificate"

(* A message that cannot be sent is reported to the caller.                 *)
Drop(j) ==
  /\ sends[j].pc = "next" /\ sends[j].left # <<>> /\ Head(sends[j].left) = "none"
  /\ Sets(j, [sends[j] EXCEPT !.left = Tail(@), !.results = Append(@, "closed")])
  /\ UNCHANGED <<log, heard, session, wrote, turn, templates, phone, lost, bounced, uncounted, receipts, now, failures>>

LogAnd(m, row) == [x \in DOMAIN log \cup {m} |-> IF x = m THEN row ELSE log[x]]

(* The row is written before the message is sent.                           *)
Queue(j) ==
  /\ sends[j].pc = "next" /\ sends[j].left # <<>> /\ Head(sends[j].left) # "none"
  /\ Sets(j, [sends[j] EXCEPT !.pc = "sending", !.n = @ + 1, !.try = 1])
  /\ log' = LogAnd(<<j, sends[j].n + 1>>,
                   [kind |-> Head(sends[j].left), step |-> Step(j),
                    status |-> "queued", known |-> FALSE, at |-> now])
  /\ UNCHANGED <<heard, session, wrote, turn, templates, phone, lost, bounced, uncounted, receipts, now, failures>>

(* faulty: an exception ends the batch                                      *)
ThrewEndsAll(j) == [sends[j] EXCEPT !.pc = "next", !.left = <<>>]

(* An exception is one reply's result, the next ones follow.                *)
Threw(j) == [sends[j] EXCEPT !.pc = "next", !.left = Tail(@), !.results = Append(@, "threw")]

QueueFails(j) ==
  /\ sends[j].pc = "next" /\ sends[j].left # <<>> /\ Head(sends[j].left) # "none" /\ Failure
  /\ Sets(j, [Threw(j) EXCEPT !.n = @ + 1])
  /\ UNCHANGED <<log, heard, session, wrote, turn, templates, phone, lost, bounced, uncounted, receipts, now>>

Attempted(j, ok) == [sends[j] EXCEPT !.pc = "marking", !.ok = ok]

(* After a failure that may pass: again, or enough.                         *)
Retried(j) ==
  IF sends[j].try < MaxAttempts THEN [sends[j] EXCEPT !.try = @ + 1] ELSE Attempted(j, FALSE)

(* faulty: a timeout is taken for a success                                 *)
AfterTimeoutOk(j) == Attempted(j, TRUE)

AfterTimeout(j) == Retried(j)

(* faulty: an accepted message is sent again                                *)
AfterAcceptedAgain(j) == Retried(j)

AfterAccepted(j) == Attempted(j, TRUE)

(* Meta accepts it, or accepts it and the answer is lost, or fails, or      *)
(* refuses it, as it does with free-form messages to the silent.            *)
Attempt(j) ==
  LET m == Message(j)
      mayPass == MetaOpen \/ Head(sends[j].left) = "template"
  IN
  /\ sends[j].pc = "sending"
  /\ \/ /\ mayPass
        /\ phone' = [phone EXCEPT ![m] = @ + 1]
        /\ \/ Sets(j, AfterAccepted(j)) /\ UNCHANGED <<lost, failures>>
           \/ Failure /\ lost' = [lost EXCEPT ![m] = @ + 1] /\ Sets(j, AfterTimeout(j))
     \/ /\ Failure
        /\ Sets(j, AfterTimeout(j)) \/ Sets(j, Attempted(j, FALSE))
        /\ UNCHANGED <<phone, lost>>
     \/ /\ ~mayPass
        /\ Sets(j, Attempted(j, FALSE))
        /\ UNCHANGED <<phone, lost, failures>>
  /\ UNCHANGED <<log, heard, session, wrote, turn, templates, bounced, uncounted, receipts, now>>

(* The row, if it has not been pruned, is changed so.                       *)
LogWith(m, status, known) ==
  [x \in DOMAIN log |-> IF x = m THEN [log[x] EXCEPT !.status = status, !.known = known] ELSE log[x]]

Result(j) ==
  IF sends[j].ok THEN "ok" ELSE IF Head(sends[j].left) = "document" THEN "no_document" ELSE "failed"

(* markOutboundSent, markOutboundFailed.                                    *)
Mark(j) ==
  /\ sends[j].pc = "marking"
  /\ log' = LogWith(Message(j), IF sends[j].ok THEN "sent" ELSE "failed", sends[j].ok)
  /\ Sets(j, [sends[j] EXCEPT !.pc = "next", !.left = Tail(@),
                              !.results = Append(@, Result(j))])
  /\ UNCHANGED <<heard, session, wrote, turn, templates, phone, lost, bounced, uncounted, receipts, now, failures>>

MarkFails(j) ==
  /\ sends[j].pc = "marking" /\ Failure
  /\ Sets(j, Threw(j))
  /\ UNCHANGED <<log, heard, session, wrote, turn, templates, phone, lost, bounced, uncounted, receipts, now>>

(* The certificate follows the words, a notice's when its session has been  *)
(* brought up to date; its link follows a document that failed.             *)
Proceed(j) ==
  LET r == sends[j]
      fallsBack == r.results # <<>> /\ r.results[Len(r.results)] = "no_document"
      certifies == r.phase = "notice" /\ j \notin Partners /\ ~r.wordsOnly
  IN
  /\ r.pc = "next" /\ r.left = <<>>
  /\ Sets(j, IF certifies THEN [r EXCEPT !.pc = "deciding", !.phase = "certificate"]
             ELSE IF fallsBack THEN [r EXCEPT !.left = <<"text">>, !.phase = "fallback"]
             ELSE [r EXCEPT !.pc = "done"])
  /\ turn' = IF turn = j /\ ~certifies /\ ~fallsBack THEN NoJob ELSE turn
  /\ UNCHANGED <<log, heard, session, wrote, templates, phone, lost, bounced, uncounted, receipts, now, failures>>

(* updateSession fails after the notice was said: the caller is told that it*)
(* was not, and no certificate follows.                                     *)
UpdateSessionFails(j) ==
  /\ j \in Notices /\ sends[j].pc = "next" /\ sends[j].left = <<>> /\ sends[j].phase = "notice"
  /\ Failure
  /\ Sets(j, [sends[j] EXCEPT !.pc = "gaveUp"])
  /\ UNCHANGED <<log, heard, session, wrote, turn, templates, phone, lost, bounced, uncounted, receipts, now>>

-----------------------------------------------------------------------------
(* applyStatusUpdate: a receipt finds the row by Meta's id, if it is there. *)
Receipt(m, status) ==
  /\ receipts < MaxReceipts /\ receipts' = receipts + 1
  /\ phone[m] > 0
  /\ log' = IF m \in DOMAIN log /\ log[m].known THEN LogWith(m, status, TRUE) ELSE log
  /\ bounced' = IF status = "failed" THEN bounced \cup {m} ELSE bounced
  /\ UNCHANGED <<heard, session, wrote, turn, templates, phone, lost, sends, uncounted, now, failures>>

Days(configured) == IF configured > MinDays THEN configured ELSE MinDays

(* pruneOldMessages deletes old rows of either direction.                   *)
Prune(configured) ==
  LET old(at) == at + Days(configured) < now IN
  /\ \E m \in DOMAIN log : old(log[m].at)
  /\ log' = [m \in {x \in DOMAIN log : ~old(log[x].at)} |-> log[m]]
  /\ heard' = [s \in Sessions |-> IF heard[s] # Never /\ old(heard[s]) THEN Never ELSE heard[s]]
  /\ UNCHANGED <<session, wrote, turn, templates, phone, lost, bounced, sends, uncounted, receipts, now, failures>>

Tick ==
  /\ now < MaxTime
  /\ now' = now + 1
  /\ UNCHANGED <<log, heard, session, wrote, turn, templates, phone, lost, bounced, sends, uncounted, receipts, failures>>

(* The web process dies, and the database gives its locks back.             *)
ProcessDies ==
  /\ Failure
  /\ \E j \in Jobs : sends[j].pc \notin {"new", "done", "gaveUp"}
  /\ sends' = [j \in Jobs |-> IF sends[j].pc \in {"new", "done", "gaveUp"} THEN sends[j]
                              ELSE Job("crashed", 0)]
  /\ turn' = NoJob
  /\ UNCHANGED <<log, heard, session, wrote, templates, phone, lost, bounced, uncounted, receipts, now>>

DeliveryNext ==
  \/ \E j \in Jobs :
       \/ \E sold \in BOOLEAN : Notice(j, sold)
       \/ NoticeGivesUp(j) \/ SendMessage(j)
       \/ \E opens \in BOOLEAN : (opens => session < MaxSessions) /\ AskCertificate(j, opens)
       \/ \E found \in BOOLEAN : Count(j, found)
       \/ CountFails(j) \/ AskFails(j)
       \/ \E tooLarge \in BOOLEAN : Certificate(j, tooLarge)
       \/ CertificateFails(j) \/ Drop(j) \/ Queue(j) \/ QueueFails(j)
       \/ Attempt(j) \/ Mark(j) \/ MarkFails(j) \/ Proceed(j) \/ UpdateSessionFails(j)
  \/ \E m \in Outgoing, status \in {"delivered", "read", "failed"} : Receipt(m, status)
  \/ \E r \in Retentions : Prune(r)
  \/ Tick \/ ProcessDies

DeliverySpec == DeliveryInit /\ [][DeliveryNext]_deliveryVars

-----------------------------------------------------------------------------
(* What is promised                                                         *)

Started(j) == sends[j].pc \notin {"new", "crashed"}

Row ==
  [kind : {"text", "template", "document"}, step : {"notice", "certificate"},
   status : {"queued", "sent", "failed", "delivered", "read"}, known : BOOLEAN, at : Nat]

Sending ==
  [pc : {"new", "counting", "deciding", "next", "sending", "marking", "done", "gaveUp", "crashed"},
   session : 0 .. MaxSessions, phase : {"notice", "certificate", "fallback"},
   left : Seq({"text", "template", "document", "none"}), n : 0 .. NoticeSize + 2,
   open : BOOLEAN, wordsOnly : BOOLEAN, try : 0 .. MaxAttempts, ok : BOOLEAN,
   results : Seq({"ok", "failed", "no_document", "closed", "threw"})]

(* Each variable has its type, and the lock is held by a job that asks.     *)
DeliveryTypeOK ==
  /\ log \in [DOMAIN log -> Row] /\ DOMAIN log \subseteq Outgoing
  /\ heard \in [Sessions -> Nat \cup {Never}]
  /\ session \in Sessions /\ wrote \in 0 .. now /\ now \in 0 .. MaxTime
  /\ turn \in Asks \cup {NoJob}
  /\ templates \subseteq {"notice", "certificate"}
  /\ phone \in [Outgoing -> Nat] /\ lost \in [Outgoing -> Nat]
  /\ bounced \subseteq Outgoing
  /\ sends \in [Jobs -> Sending]
  /\ uncounted \subseteq Asks
  /\ receipts \in 0 .. MaxReceipts /\ failures \in 0 .. MaxFailures
  /\ turn # NoJob => sends[turn].pc \notin {"new", "done", "gaveUp", "crashed"}

(* Whatever reached a customer is in the archive, though a crash or a       *)
(* failed statement came between, until its retention is over.              *)
Archived ==
  \A m \in Outgoing : phone[m] > 0 /\ m \notin DOMAIN log => now > MinDays

(* The archive says sent of what Meta accepted only, and failed of what it  *)
(* did not, unless Meta took it back or its answer was lost.                *)
StatusIsTrue ==
  \A m \in DOMAIN log :
    /\ log[m].status \in {"sent", "delivered", "read"} => phone[m] > 0
    /\ log[m].status = "failed" /\ phone[m] > 0 => m \in bounced \/ lost[m] > 0

(* The archive has what was said, and says how it went.                     *)
ArchiveTellsTruth == Archived /\ StatusIsTrue

(* A customer gets a message twice only when Meta's answer was lost, and    *)
(* never more often than it is attempted.                                   *)
TwiceOnlyIfLost == \A m \in Outgoing : phone[m] <= 1 + lost[m] /\ phone[m] <= MaxAttempts

(* Nothing is dropped silently: a notice reports on each of its replies and,*)
(* when there is a sale, on the certificate; one that gives up has tried    *)
(* every reply or none; and only what Meta accepted is reported as sent.    *)
NothingSilent ==
  \A j \in Jobs : LET r == sends[j] IN
    /\ j \in Notices /\ r.pc = "done" =>
         Len(r.results) >= NoticeSize + (IF r.wordsOnly THEN 0 ELSE 1)
    /\ j \in Notices /\ r.pc = "gaveUp" => Len(r.results) \in {0, NoticeSize}
    /\ \A i \in 1 .. Len(r.results) : r.results[i] = "ok" =>
         \E m \in Outgoing : m[1] = j /\ phone[m] > 0

Kinds(j, step) == {m \in DOMAIN log : m[1] = j /\ log[m].step = step}

(* To a customer who has been silent, a notice says nothing but one         *)
(* template, and a certificate is one template too.                         *)
SilentGetTemplates ==
  \A j \in Jobs : Started(j) /\ ~sends[j].open =>
    LET sent == Kinds(j, Step(j)) IN
    Cardinality(sent) <= 1 /\ \A m \in sent : log[m].kind = "template"

(* A notice says what it may, and reports what became of it.                *)
SaidAsReported == NothingSilent /\ SilentGetTemplates

(* A customer who keeps asking is sent no more certificates in a while than *)
(* the limit, those that failed aside, whatever crashes and receipts come   *)
(* between, except on requests for which the count itself failed.           *)
ResendsBounded ==
  Cardinality({m \in Recent : m[1] \in Asks \ uncounted /\ m \notin bounced}) <= ResendLimit

(* Who has just written is not treated as silent: a certificate asked for   *)
(* is sent as a document or a link.                                         *)
AskersAreAnswered ==
  \A j \in Asks : Started(j) /\ MetaOpen /\ now = wrote => sends[j].open
=============================================================================
