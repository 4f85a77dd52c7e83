# TLA+ verification of the Assur'Assistance backend

The backend sells travel insurance. Agents in a web application and customers in
a WhatsApp conversation obtain quotes; customers pay them by mobile money; the
system issues policies with invoices and certificates, corrects them, cancels
them, and reports on them. It is a Node.js process (Express) on one MySQL
database, with a few cron scripts beside it. There is no queue and no worker
pool: every request runs to its end between awaits, and everything two requests
share is a row.

This directory models the parts where several actors, retries and failures meet
on the same rows: TLA+ modules, the TLC configurations that check them on small
instances, and theorems that TLAPS checks for every instance.

Source references are paths below `src/`.

## 1. Inventory

State is a MySQL table unless said otherwise. "Hard" is what an ordinary test
hardly reaches.

| Component | State | Operations | Interacts with | Hard | What makes it correct |
|---|---|---|---|---|---|
| Payment state machine (`utils/payments/stateMachine.js`) | none | `canTransition`, `appendHistory` | payments | capped history | final states are final |
| Payments (`models/paymentModel.js`, `utils/payments/service.js`) | `payment_transactions`, `payment_callbacks` | create, transition, attach, archive and mark a callback, settle | conversation, issuance, provider | callbacks lost, repeated, late, contradictory; swallowed failures; death between statements | an outcome is final and true, settled once, insured once |
| Payment webhook, poller, sweeper, operator (`controllers/paymentWebhookController.js`, `scripts/pollPayments.js`, `scripts/sweepPayments.js`, `controllers/paymentAdminController.js`) | none of their own | each notices an outcome and settles it | the rows above, the provider over HTTP | all four at once over one row | only a real transition settles; every payment ends |
| Policy issuance (`models/policyIssuance.js`) | `sales`, `invoices`, `certificates` | `issuePolicy`, `refreshIssuedSnapshot` | payments, office, corrections | two issuers of one case; a snapshot read and written apart | one live policy per case; no revision lost |
| Cases, sales (`controllers/caseController.js`, `controllers/salesController.js`, their models) | `cases`, `travellers`, `sales` | correct, roll back, issue, payment status, cancel | issuance, certificates | five statements without a transaction; limits checked early and counted late | papers of a policy agree; limits hold; unpaid means nothing received |
| Certificates (`controllers/documentController.js`, `utils/certificateStore.js`) | PDF files on disk | render, store, serve, invalidate | corrections | a render that overlaps a correction | what is on disk was really issued |
| WhatsApp engine (`utils/whatsapp/engine.js`, `flow.default.js`, `commands.js`) | none (pure: reply and patch) | steps, commands, review, edits, payment steps | conversation row, quotes, payments | long sequences of legal messages; BACK and RESTART anywhere | a price shown is the price charged; nothing collected is lost |
| WhatsApp webhook and store (`controllers/whatsappController.js`, `models/whatsappModel.js`) | `whatsapp_sessions`, `whatsapp_messages`, `GET_LOCK` per number, pool of 10 connections, in-memory rate buckets | deliver, deduplicate, lock, patch, expire | engine, payments | redelivery, concurrent requests, outcomes that write the row without the lock | one quote per confirmation; requests end |
| WhatsApp delivery (`utils/whatsapp/client.js`, `outbound.js`, `utils/payments/service.js`) | outbound rows of `whatsapp_messages` | queue, send with retries, mark, status receipts, resend a certificate, prune | webhook, payments, partner API | an answer of Meta that is lost, receipts out of order, a crash between sending and marking | what reached a customer is archived truthfully; a double needs a lost answer; templates for the silent |
| Pricing (`utils/travelPricing.js`, `quoteEngine.js`, `recomputeSalePremium.js`, `commissionRules.js`) | none | pure functions | catalogue, zones | limits of ages and stays, gaps in a plan's table, a birthday between quote and issue | the prices the system computes itself agree on every path |
| Document numbers (`utils/documentNumbers.js`) | `policy_sequences` | next number under a row lock, inside the sale's transaction | issuance, settings | roll-backs, a format changed meanwhile, the turn of a month | numbers are unique and without gaps |
| Partner API (`middlewares/apiKeyMiddleware.js`, `idempotencyMiddleware.js`, `controllers/apiKeyController.js`) | `api_keys`, `idempotency_keys`, counters in memory | authenticate, count, claim, replay, record; issue, change, revoke, rotate | quotes, sales | crash between claim and record, two requests with one key, rotations that overlap | one effect per key; a revoked key stays out |
| Users and supervision (`controllers/adminController.js`, `models/userModel.js`, `models/agencySupervisionModel.js`) | `users`, `agency_supervision_history` | create, disable, delete accounts of each role; reassign an agency; look at its history | everything that asks whose an account is | reassignments, deletions and first looks that overlap; recursion limited to levels | the owner of an agency is on record; no day uncovered; nobody reaches what they handed over |
| Logins (`controllers/authController.js`, `models/userModel.js`) | `users`, `password_resets`, stateless tokens | log in, change, forget, reset; the office's reset; a moved address | e-mail | a proof that is old when the password is written | who sets a password has proved something about that account |
| Settings, zones (`utils/appSettings.js`, `models/settingsModel.js`, `utils/referenceData.js`) | `app_settings`, `country_zones`, a cache per worker | save in one transaction, read through the cache | everything | loads that overlap saves, fail, or end late; workers that do not tell each other | nobody sees half a save; staleness is bounded |
| Catalogue, contractual documents (`controllers/catalogueController.js`, `contractualDocumentController.js`) | rows that name files | upload, replace, remove, download | disk | row and file change apart, and a failed statement leaves one of them | when a named file may be gone is known |
| Ledgers, reports, activity log, operations scripts | their tables | read-only, append-only, or run alone | | | |

`PROJECT.json` repeats the list with what is modelled of each, and the hazards
with their lines.

## 2. Modules

| Module | Models |
|---|---|
| `PaymentStateMachine` | the transition table, the verdict on a move, the capped history |
| `Payments` | payments from the conversation to the policy, every actor |
| `PaymentPromise` | the abstract specification that `Payments` implements |
| `PaymentsProofs` | theorems about `Payments` |
| `Policies` | policies after the sale: correction, re-freeze, issue, payment status, cancellation, download |
| `PoliciesProofs` | theorems about `Policies` |
| `PurchaseFlow` | the purchase flow as functions of one conversation row |
| `Conversation` | webhook, number lock, archive, engine, payment outcomes |
| `ConversationProofs` | theorems about `Conversation` |
| `Delivery` | what is said to a customer: sending with retries, marks, receipts, certificates, pruning |
| `DeliveryProofs` | theorems about `Delivery` |
| `PartnerApi` | authentication, rate, scope, idempotency; the administration of keys |
| `PartnerApiProofs` | theorems about `PartnerApi` |
| `Accounts` | users of every role, who supervises an agency, who reaches whom |
| `AccountsProofs` | theorems about `Accounts` |
| `Logins` | passwords, one-time codes, tokens, moved addresses |
| `Settings` | settings, and zones of countries, behind a cache per worker |
| `Uploads` | logos of plans and contractual documents: rows that name files |
| `OfficeProofs` | theorems about `Uploads`, `Logins`, `Settings` and `Pricing` |
| `Pricing` | the premium of a quote, an issue, a correction; the commission of an invoice |
| `Numbers` | the numbers a sale takes |
| `NumbersProofs` | theorems about `Numbers` |
| `MCPayments`, `MCPolicies`, `MCConversation` | values for TLC |
| `MCWhatsApp`, `MCBackOffice` | values for TLC; each behaviour plays one of several instances of the modules above; those with theorems are extended, so that what is checked is what is proved |

### How the state and the actions correspond to the code

An action is what one handler does between two awaits that another actor could
come between. Statements inside one database transaction under a row lock are
one action (`transition`, `issuePolicy`, `createQuote`). A statement whose
failure the code swallows (`.catch(() => {})`) is a disjunction: it goes through,
or it spends one of `MaxFaults` (`MaxFileFaults`, `MaxLoginFaults`,
`MaxFailedStatements` in the modules that are played together). Variables of a request (`job`, `start`, `edit`,
...) are its local variables, with the step it is at in `pc`; a crash forgets
them and keeps the tables.

**Payments.** `status`, `history`, `txCase`, `txSale`, `providerTxId` are the
columns of `payment_transactions`, indexed by the idempotency key, because the
UNIQUE index makes the key name the row. `processed` is what
`payment_callbacks` is asked. `StartPayment` to `RecordPrompt` are
`startPaymentForSession`; `ReceiveCallback` to `CallbackThrows` the webhook;
`PollPick`/`AdminPick`, `PollAnswer` the poller and the operator; `SweepPick`,
`SweepExpire` the sweeper; `SkipIssue` to `NotifyCustomer` the `settlePayment`
all of them share. `OfficeIssue` is the office issuing by hand, `OfficeSetsStatus`
its hand on `cases.status` (`changeCaseStatus`, `cancelCase`), to any of
`OfficeStatuses` at any time. Nothing about a payment reads that column, so the
runs let the office do no more than reopen a case (`payments_twice`); the
theorems hold for every `OfficeStatuses`. The provider is external: `prov` is what it knows, `sent` the
callbacks it has sent; any of them may be delivered at any time, again, or never.

**Policies.** One record per policy joins its `sales`, `invoices` and
`certificates` rows; `details` is the case with its traveller; `files` the PDFs.
`UpdateCase` is `updateCase` statement by statement, with `RefreshSnapshot`
shared with the re-freeze script; `IssuePolicy`, `StartPayment`/`UpdatePayment`,
`StartDelete`/`Delete`, `Download`..`StoreFile` are the other requests. Trip and
holder stand for what an operator and what only an administrator may correct. A
revision keeps what it replaced and why. `overlapped` is a history variable: the
cases that two writers (corrections or re-freezes) were ever at work on at once.
Nothing in the code keeps them apart, and what overlapping ones can do is listed
in section 6; the properties that need one writer at a time say so by it, and
say nothing of downloads, issues, payments and cancellations, which overlap
freely.

**Conversation.** `sessions` is `whatsapp_sessions`; the fields of
`PurchaseFlow!Collected` are the JSON column and are written together, as
`updateSession` does; every action names the columns of its patch. A request
goes `locking`, `locked`, `engine` (`ReadSession` merges the read of the session
with the archive insert: nothing could come between that would tell them apart),
then one action per outcome of `processMessage`, which computes on the row *as
read* and patches the row *as it is*. Confirming and paying take several
actions, as they await the database and the provider. `Notify` and
`ResumeAfterPayment` are `notifyConversation`, which takes no lock. What a
message says is chosen when it is acted on. The pool is counted: one connection
per request from before `GET_LOCK` to its release, one more for each query.

**Delivery.** `log` is the outbound half of `whatsapp_messages`, `heard` the
newest inbound row of each session (what `getLastInboundAt` finds), `wrote` when
the customer really wrote (what Meta knows). A job is one call of
`notifyConversation` with the certificate after it, one request for a
certificate under the lock of the number, or one text of a partner. Each message
goes queue, post, mark: `Queue`, then the attempts of `graphSend` with Meta's
outcome chosen at each (accepted; accepted, but the answer lost; failed in a way
that may pass; refused), then the mark. Receipts and pruning come at any time.
What `notifyConversation` catches is a notice that gives up: before it says
anything (`NoticeGivesUp`: no session, one that ended, a read that throws) or after,
when the session cannot be brought up to date (`UpdateSessionFails`), and then no
certificate follows. `wordsOnly` is a job that has no certificate to send: a payment
without a sale, a request past the limit or without a policy. A request may be
dropped before it is answered (`AskFails`), and a count that fails is taken for none
(`CountFails`); the history variable `uncounted` remembers for which requests.

**PartnerApi.** `Arrive` is the request with the row of its key as it is then;
`Authenticate` counts and checks it on what was read. `Claim`, `Replay`, `Work`,
`Respond`, `Record` are the middleware around the handler: the claim is the
INSERT with a UNIQUE key, the answer is sent while it is being recorded. Keys
carry `from`, the key a rotation copied them from. `caller` holds the local
variables of each request, `idem` the rows of `idempotency_keys`. `late` is a history variable:
the key was revoked when the request arrived.

**Accounts.** One relation per column (`parent`, `creator`, `opened`,
`inactive`) and the set `history` of periods. `Reach`, `Visible`,
`DeletionOrder`, `PartnerAccounts`, `HierarchyRows` and `Family` are the queries
by which the screens decide whose an account is, each written as its own query.
A request reads first and writes in a later step; the statements of one
transaction after its reads are one step, which may fail as a whole.

**Logins.** A proof (the password before, or a code) is one step, hashing lets
others come between, writing is another. Tokens are values that nothing revokes.

**Settings.** A save writes `values` entry by entry under row locks and commits to
`past`; a load reads the newest of `past` and ends later. `stored` says what a
behaviour is about: settings, of which a worker has one load at a time, or zones,
of which it has several.

**Uploads.** `row` and `disk` change in separate steps, in the order of each
handler: a logo replaces its file first, a document its row first. The other
columns of a plan are left out. A statement may fail at every step
(`StatementFails`), and the request then removes the file it brought, also when its
row already names it. Two history variables say what a property may be excused by:
`crowded`, the slots on which requests overlapped, and `putBack`, the files that a
save of the text alone named again after another request had changed the row.

**Pricing.** Whole numbers stand for amounts (even, so that halves are exact).
One behaviour is one policy: plan, zone, stay and age, the quote, the issue, a
correction of the dates, the invoice, with birthdays in between. `InFront` is the
table with the column of the zone moved to the front, which the quote reads and the
later computations do not.

**Numbers.** A sale takes its numbers in the order of `Kinds`, each one a
statement that keeps its counter's row until the transaction ends. `txn` is what
it has read and taken so far; `issued` the numbers in the committed rows.

`Delivery` is extended by `MCWhatsApp` beside `Conversation`, and `PartnerApi`,
`Numbers`, `Uploads`, `Logins`, `Settings` and `Pricing` by `MCBackOffice` beside
`Accounts`, so their operations bear names of their own (`DeliveryInit`, `AskCertificate`, `ApiInit`, `CallApi`, `NumbersNext`,
`UploadsNext`, ...).

`Payments` keeps of a conversation only that it starts payments;
`Conversation` keeps of a payment only its row and outcome. They meet in
`StartPayment`/`CreateTransaction` and `NotifyCustomer`/`Notify`. `Delivery`
takes over where `Notify` says what to send; `Numbers` is inside the
`IssuePolicy` of `Payments` and `Policies`; `Pricing` gives the premium they
keep as a value; `PartnerApi` is what stands before any of their requests that
come from a partner.

## 3. Runs

Every run takes about four minutes or less with two workers. The configurations
with `SYMMETRY` swap only identities nothing tells apart (requests, readers); they
check no liveness property.

| Run | Instance | Shows |
|---|---|---|
| `payments_actors` | one payer, one quote or none, a webhook request, a worker that is poller and operator in turn, a sweeper, a provider that may also say "failed", one fault or crash | final, true outcomes; a completed payment has its policy or its worker on the way, while nothing fails; one settler per move; the history is a trail; the promise is kept; with a sweeper that keeps running every payment ends |
| `payments_twice` | two payers, two quotes, two starts, callbacks that only the provider's id can match, the office issuing and reopening a case | one policy per case; the policy linked to a payment is of its case |
| `policies` | three scenes: up to three corrections or re-freezes, one at a time, and a download, with one pair of trip and holder that has no price and one fault or crash; two editors at once, five corrections; two issuers, two cashiers, a cancellation and the re-freeze script, with one fault or crash | papers agree after each correction that nothing fails in, an unpriceable one is rolled back, what is on disk was issued, every revision kept; a revised certificate prints the premium of the details it prints, and the limit is exceeded by at most those already admitted; never two live policies, nothing received on an unpaid one |
| `whatsapp` | seven scenes, below | no answer lost; a conversation opened only when there is none; one quote per confirmation; one that waits for a payment waits for its own; the archive tells the truth; doubles need a lost answer; a notice reports on what it says, or gives up whole; templates for the silent; certificates under their limit, where they could be counted |
| `back_office` | eight areas, below | supervision on record; no agency reached by two; one effect and one answer per Idempotency-Key; revoked keys stay out; settings never half saved nor stale for longer than promised; named files there but in three named cases; passwords set by their owners; premiums and commissions as defined; numbers unique and without gaps |

Seven runs show where the code does not do what the repository says (section 6):
`poller_skips_transition`, `retry_reuses_failed`, `stale_file`,
`charged_old_price`, `pool_exhausted`, `asker_unanswered`, `zoned_price`.

**Scenes of `whatsapp`.** *race*: two requests, four messages of one number, one
delivered again. *outcome*: a message more and no redelivery, so that a request
meets a payment that ends. *purchase*: one request at a time, six messages, three
trips (one plan, two plans, none), two operators of which 0, 1 or 2 are offered;
or five messages and one fault or crash. The three are restrictions of one
instance, whose properties are checked in each. *notice*: a notice in two replies and its certificate, two
attempts per send, a receipt, two faults, pruning with a retention that is too
short or long enough; one without a sale, which is a prefix of these, with one
fault and no receipt. *asks*: the certificate asked for twice where once is the
limit; the two requests are alike, so one of them is the first. *both*,
*partner*: it is asked for while the notice of a sale, in the same session, or a
partner's text is under way. A scene leaves out the template nobody in it reads, and *both*
has the two templates or none.

**Areas of `back_office`.** *accounts*: an administrator, a sub-administrator
with an agency and an agent under it, a second sub-administrator to hire, a login
that is free, any three requests, three days; no insurer supervisor, who does
there what a sub-administrator does but is no target of a reassignment. *partners*: a key and its replacement, a session, three requests of which
two share an Idempotency-Key with different bodies, a rate of one or two per
window of two, keys valid on the first day or for good (`Expiries`). *settings*: two administrators save settings, or zones, in two
workers, two readers, a copy that lasts one unit. *uploads*: three requests on a plan and a
document. *logins*: two accounts, three addresses, three requests. *codes*: one
account, four requests, enough to use a code after another has been. *pricing*:
five plans - the retail table, one with three columns and gaps, one with odd
labels, one with a flat price only, one not for travellers - with stays and ages
on both sides of each limit, and a birthday. *numbers*: three sales that take two
numbers each, two months of a year and the next, a format changed once. Each
area has one fault, or crash where the code has something to lose by one. What
one area writes and another reads (an owner who is disabled, a login that moves, a
format that changes) is an action of the area that reads it, which is why they can
be played apart.

**Bounds.** `MaxStarts`, `MaxEdits`, `MaxPayments`, `MaxPolicies`,
`MaxMessages`, `MaxRepeats`, `MaxReceipts`, `MaxSessions`, `MaxMoves`,
`MaxChanges`, `MaxBirthdays`, `LastDay`, `LastMonth`, `LastTime`, `MaxClock` and
`MaxTime` bound what the environment begins and how long it lasts; `MaxFaults` and
its kin bound failures and crashes together; requests that are "made once" (`Requests`, `Tasks`, `Sales`, jobs) are
bounded by their number. None of them guards a step of a request already begun,
except `MaxPolicies`, which keeps an issue past it waiting. One key, or two, is
enough for payments because rows interact only through the case and the callback
table; two starts give the repeated key. Five corrections pass the limit of three
with two admitted. Four messages are first contact, trip, confirmation and
number; five let one more meet the outcome; six allow an edit of the trip before
confirming, or a retry. Three requests on accounts are the smallest overlap with
something to overlap about (a reassignment, a deletion, a creation); two savers
and two workers the smallest in which a copy is stale; three sales the smallest
circle of waiting. The stored flow of the MC modules jumps from the destination
to the plan: the questions in between store a field and go on, as the ones that
are kept do. With it the grouped identity step and its fallback to one question
at a time are modelled but not reached by a run. Holder details and trips are two
values each, enough for a correction to be undone, overtaken or unpriceable.

`CHECK_DEADLOCK FALSE` everywhere: a bounded environment stops, and a system with
nothing to do is at rest.

**Fairness.** `Payments!FairSpec` asks weak fairness of each sweeper's steps and
of its settlements, nothing else: cron starts the script every few minutes and a
run that dies is followed by another. Customers, callbacks, the poller, operators
and faults are not fair, so `EveryPaymentEnds` holds with every callback lost.
`Conversation!FairSpec` asks weak fairness of a request's own steps: Node runs it
whenever what it awaits is there. `RequestEnds` is violated under it, so the
requests are blocked, not merely idle.

**Properties.** Where several promises are about one thing, the run checks their
conjunction, and the parts have names and comments of their own: `PaidFirst`,
`EachMoveOnce` (`Payments`); `CorrectionCompletes` (`Policies`); `OneAtATime`
(`Conversation`); `ArchiveTellsTruth`, `SaidAsReported` (`Delivery`);
`WhoReachesWhom` (`Accounts`); `OncePerKey`, `RevokedKeysEnd` (`PartnerApi`);
`WholeAndRecent` (`Settings`); `DiskMatchesRows` (`Uploads`); `PasswordsProven`
(`Logins`); `PricesAgree` (`Pricing`); `NumbersServe` (`Numbers`). `payments_twice`
does not repeat what `payments_actors` checks and the theorems prove. Every
property of a passing run has a faulty variant of some definition (marked `faulty`
beside it), a bug the code could plausibly have, that the run catches.

## 4. Theorems

`PaymentsProofs`, for any number of conversations, payers, quotes, webhook
requests, pollers, operators, sweepers, starts and faults:

- `TypeCorrect`: `Spec => []TypeOK`;
- `FinalOutcome`: no step leaves a terminal state;
- `PaidBeforehand`: no completed payment, and no policy bought by a payment,
  without the customer having paid (`CompletedMeansPaid` and `PolicyMeansPaid`,
  the two parts of `PaidFirst`);
- `OnePolicy`: a case never has two policies;
- `CompletedInsures` (`CompletedIsInsured`): while no statement failed and no process
  died, a completed payment of a quote has its policy attached, or the one worker
  that completed it is on its way there; whatever fails, a payment links and
  confirms only a case that has its policy;
- `AttachedCovers`: the sale attached to a payment covers the payment's case;
- `MovesOnce`: the history of a payment is the trail of its real moves, and a
  settlement carries the outcome its worker's own move brought about;
- `PaymentsKeepPromise`: `Payments` implements `PaymentPromise`.

*Assumptions.* NULLs are not values (`NoTxAssumption`, `NoCaseAssumption`), a
conversation pays for quotes or for none (`QuotesAssumption`), and the provider
never reports a completion that did not happen (`StrayAssumption`: it may send
anything else). Nothing is assumed about who matches callbacks how.

*Argument.* `CompletedIsPaid` alone is not inductive: a callback in flight, or a
worker about to settle, could complete a payment nobody paid. The invariant adds
where a claim of completion can come from: a callback in `sent` that says
completed (`SentIsPaid`), and a worker that carries such a status
(`JobIsPaid`), each concern a paid payment; once paid, always paid. Each action
is then a step of its own, and those that touch none of the three are dispatched
together. `FinalOutcome` follows from the transition table (`RealMoveStates`);
`OnePolicy` from the look at the case's policies inside the row lock of
`issuePolicy`. For the refinement, a step of `Payments` changes at most one of
the three abstract variables: a transition to a terminal state is `Settle`, an
issue is `Insure`, a customer's confirmation is `Pay`, all else stutters.
`CompletedInsures` needs of each worker on its way (`OnItsWay`) that it carries what
the row says, which is `SettledOnce`: whoever moved the row settles, and since its
status is then terminal, nobody moves it again and nothing but a fault can stop that
worker before it has attached the policy (`SettlerGoesOn`, `MoneyInsuresKept`). A
policy in hand is one of the payment's case (`Covered`). The status column of the
case is not part of it: anybody in the office may write that.

`AccountsProofs`, for any staff, agents, founding tree, requests, days and
faults:

- `TypeCorrect`: `Spec => []TypeOK`;
- `OwnerAlwaysListed`: `Spec => []OwnerListed`, an agency whose supervision is
  recorded has an open period that names the account it belongs to;
- `DaysCovered`: `Spec => []NoDayUncovered`, no day of a history is without a
  period and none ends before it begins.

*Assumptions.* The roles are disjoint, the founding tree names founders, a day
and a fault are counted (`RolesAssumption`, `FoundersAssumption`,
`BoundsAssumption`).

*Argument.* What a request remembers grows old while others run, so the
invariant `Inv` says what stays true of it (`Fits`): the ids of the periods it is
to close are still periods of its agency, if they exist; the accounts it names
existed once; and whoever is about to write the first period of an agency
(`Owns`) knows its owner, unless somebody has written one before, in which case
`ensureOpenSupervisionPeriod` writes nothing. `FitsLater` says that this
survives every change of the tables that adds no stranger's period and brings
back no deleted account. Each request is then a lemma of its own. Deletions cut
nothing out of a remaining history, because a history goes with its agency, and
the foreign key empties only the supervisor of a period
(`DeleteListed`, `DeleteCovers`). A reassignment closes the periods it read, but
opens one that goes on from no later than where it closed them
(`ReassignCovers`).

`OneAnswer` (`WhoReachesWhom`) compares the queries clause by clause and needs
that an account has one parent; `TrailSurvives` (`AuditTrailKept`) is an action
property: each request's lemma says which periods it rewrites.

`PoliciesProofs`, for any cases, catalogue, writers, downloads, issuers,
cashiers, cancellations and bounds:

- `TypeCorrect`: `Spec => []TypeOK`;
- `PapersStayTrue`: while nothing fails, a case that one writer at a time works on
  has papers that agree and a price, whenever nobody is at work on it;
- `RevisionsKept`, `StoredIsIssued`: with the same proviso, but whatever fails,
  every replaced certificate is the newest revision of the one that replaces it,
  and a file on disk is the certificate or one of its revisions;
- `RevisedIsPriced`: a corrected certificate prints the premium of what it prints;
- `EditsStayBounded`: an operator's corrections exceed the limit at most by those
  admitted together;
- `OneLiveAtATime`, `UnpaidIsEmpty`: never two live policies of a case, nothing
  received on an unpaid one.

*Assumptions* (`PoliciesAssumption`). A premium is a number or none; insured
cases are cases and finitely many; a writer is a person or a script; there are
finitely many people; no PDF is not a PDF.

*Argument.* `TypeOK` alone is not inductive: a job must write to a policy that
exists and is of the case it works on (`JobsInOrder`), which holds because the
policies of a case only grow and its first stays its first (`FirstIsFirst`,
`StaysInsured`); the four make `Shape`. `RowsMove` then says once which step may
change which column of a policy (`RowMoves`), `WriterSteps` where a writer's step
leaves its job; the other proofs argue from these two. Each needs to know what a
request carries between its read and its write: an amount of zero towards
"Unpaid" (`NothingInHand`), the premium of the details (`PriceInHand`), the
reason (`ReasonInHand`), revisions that extend the certificate's own
(`RevisionsInHand`), a page that was issued (`PageInHand`). That the certificate
has not moved in between is `OneWriter`: two writers on one case leave the case
in `overlapped`. `OneLivePolicy` needs nothing but the lock (`OneLive`).
`OperatorEditsBounded` is inductive once the corrections still to be counted are
in it. `PapersStayTrue` rests on `Story`, which says of each step of a correction
which papers still say what it found (`old`) and which already say what it wrote
(`new`); re-freezing keeps papers that agree as they are.

`PartnerApiProofs`, for any keys, routes, calls, number of requests, rate and
window, however often statements fail and the process dies:

- `TypeCorrect`: `ApiSpec => []ApiTypeOK`;
- `KeysEnd` (`RevokedKeysEnd`): a request that came after its key was revoked
  changes and learns nothing, and a key that replaces another finds it revoked;
- `KeyCountsOnce` (`OncePerKey`): an Idempotency-Key stands for one effect, one
  body and one answer;
- `BusyWait` (`OnlyTheBusyWait`): who is turned away for its rate shares a
  window's length with as many requests of its key as may be let in.

*Assumptions* (`PartnerApiAssumption`). A call names a key or a session and an
Idempotency-Key or none, a session is not a key, `Never` is no time, there are
finitely many requests, and rate and window are positive.

*Argument.* `Inv` adds to the types what a request remembers of the tables
(`Fits`); tables only `Grow` - a claim is never deleted, a key never comes back
to life - so what fits still fits after any step of another (`FitsLater`). For
`OncePerKey` that is not enough: of the requests with one key, at most one is
past its claim and not yet recorded (`OneOwner`), whose answer is the one the row
gets and every replay gives (`AnswersKept`), and an effect was made only by an
owner that is, or was, past its work (`EffectsKept`). For the rate, a counter
never exceeds the requests that arrived in its window (`BucketFits`), and when a
request is refused those are the requests it is crowded by (`Crowded`); counting
them needs that they are finitely many.

`NumbersProofs`, for any sequence of different kinds, formats, sales and
calendar:

- `TypeCorrect`: `NumbersSpec => []NumbersTypeOK`;
- `NumbersHold` (`NumbersServe`): no sale is refused for its number where every
  printed month has its year; a counter's issued numbers have no gap; no two
  sales wait for each other.

*Assumptions* (`NumbersAssumption`). The kinds of one sale differ, a year has
months, and what is not printed is no number.

*Argument.* A sale under way keeps the rows of exactly the counters it has taken
from, and what it took is one more than they say (`Keeps`); an issued number is
one its counter has counted, printed with the format and in the month that chose
the counter (`Genuine`), and every count has been issued (`Complete`). What is
printed tells the period, if a month comes with its year (`TextTellsPeriod`), so
a number about to be issued has not been (`Unused`). Who waits for another has
taken fewer kinds, as all take them in one order (`WaitsBehind`).

`ConversationProofs`, for any stored flow, trips, plans, prices, operators and
offers, any finite numbers and requests, any pool, however often messages are
delivered again and steps fail:

- `TypeCorrect`: `Spec => []TypeOK`;
- `AnswersKept` (`NoAnswerLost`): while the engine works, the answers and the
  history it read are those of the row it will patch;
- `OneActs` (`OneAtATime`): a conversation is opened only when its number has
  none, and one confirmation makes one quote;
- `WaitsForItsOwn` (`WaitingHasPayment`): a conversation that waits for a payment
  waits for one that exists and is its own.

*Assumptions* (`FlowAssumption`, `ConversationAssumption`). The stored flow leads
from questions to questions or to the plans, a price is a number, an offer is of
operators, NULL is none of their values; nobody is no request; numbers and
requests are finite.

*Argument.* `JobFits` says what a request may rely on at each step: from the
moment it works it has the lock of its number, its message is archived once it
acts, its row exists and is of that number, and no quote is of its message until
it makes one. Whatever another does is `Quiet` towards the number: it may end a
conversation or move its step - expiry and payment outcomes take no lock - but
leaves its other columns, and opens none. `Bystander` shows that this is enough
to keep `JobFits`, `WorkerKeeps` that a step under one lock is quiet towards
every other number, `ReplyKeeps` that a patch is such a step; each action is then
a lemma of its own. The type is not inductive by itself: a question asked again
must be one that can be answered, so a history never holds a wait or an end, and
a key of a payment names a conversation that messages suffice to open, so
conversations, with those about to be opened, never outnumber archived messages
(`TablesFit`).

`DeliveryProofs`, for any finite payments, requests and partners' texts, any
length of a notice, number of attempts, windows, limit and retentions, however
often answers are lost, statements fail, receipts come and the process dies:

- `DeliveryTypes`: `DeliverySpec => []DeliveryTypeOK`;
- `ArchiveIsTrue` (`ArchiveTellsTruth`): what reached a customer is archived until
  its retention is over, and its status agrees with what Meta did;
- `RetriesAreNeeded` (`TwiceOnlyIfLost`): a message is received again only when an
  answer was lost, and never more often than it is attempted;
- `SaidIsReported` (`SaidAsReported`): a notice that ends reports on each reply and,
  if there is a sale, on the certificate; one that gives up has tried every reply or
  none; only what Meta accepted is reported as sent; the silent are sent one template
  at most;
- `LimitHolds` (`ResendsBounded`): certificates sent on requests whose count did not
  fail stay under their limit.

*Assumptions* (`DeliveryAssumption`). The three kinds of jobs are disjoint and
finitely many, nobody is no job, `Never` is no time, a notice says something, a
send is attempted once at least, and rows are kept longer than a customer may be
written to freely and no shorter than certificates are counted - as
`pruneMessages.js` keeps them.

*Argument.* `Fits` is about the local variables of one job alone: what may be
left to say in each phase, how many messages it has begun (`Budget`), that each
reply of a notice is still to be said or has its result (`Accounted`), and that
to the silent only a template is left (`HeldBack`). A lemma per action
(`QueueStep`, `AttemptStep`, ...) gives its record before and after, and the
other lemmas argue from these. `Ledger` relates what Meta accepted, what was lost
and the archive: nothing is known of a message not begun (`Unbegun`); while one is
sent its copies are the lost answers, one more once it is to be marked as sent
(`Attempts`); its row is queued, or old enough to have been pruned (`InArchive`);
and Meta's id is of an accepted message, reported as failed only by a receipt
(`KnownAccepted`). A notice that gives up has no results, or exactly one for each
reply, as nothing of it was left when its session could not be updated. The limit is
counted once, before three more messages and any number of receipts, so it is not
inductive: `RoomFor` says that a job which may still send a certificate has the turn
(`TurnHeld`), and that the ones that count are fewer than the limit, the one it is
sending set aside - a job in `uncounted` has no such room, and what it sends is not
among those counted by the property. A receipt may only lower their number, since a
row that failed and is then reported as read belongs to a message Meta had taken back.

`OfficeProofs`, for any plans, documents, accounts, logins, settings, zones, tariffs,
administrators, workers and requests, however often statements and mails fail:

- `FilesHaveTypes`, `LoginsHaveTypes`, `SettingsHaveTypes`: the type invariants of
  `Uploads`, `Logins` and `Settings`;
- `FilesAndRowsAgree` (`DiskMatchesRows`): whatever overlaps and whichever statements
  fail, a file that a row names is gone in three cases only - a logo just unlinked by
  its replacement, or whose UPDATE then failed; a document whose own request could not
  read its row again; a document that a save of the text alone put back. Where requests
  did not overlap, no file is left that no row names, and no download misses its file,
  but for the second case;
- `ProofsHold` (`PasswordsProven`): a password is set for an account about which
  something was proved, unless a login moved in between; a reset ends the codes
  that came before it; an account with a temporary password must change it;
- `HandedWhole` (`WholeAndRecent`): whoever reads settings or zones is handed one
  committed table or the defaults, never half of a save, and a copy has every save
  that is as old as its lifetime;
- `WorkersGoForward` (`NeverGoesBack`): no worker hands out older settings than it did;
- `PricesHold` (`PricesAgree`): a premium that the system computes is the price of the least stay on sale that
  covers the days, times the factor of the age; a sale in a zone without a column of
  its own costs what was quoted; a commission on the retail plan is that of its days.

*Assumptions* (`UploadsAssumption`, `LoginsAssumption`, `SettingsAssumption`,
`PricingAssumption`). NULL is
no request, no request stands for the factory's values and a plan is not a document;
nobody shares a login at first; secrets and the token are keys, forms are sequences
of entries, a request is served by one worker and a copy lives for a while. A plan
has any columns and rows, labelled or not; its amounts are counted in a unit of which
the half is whole, as no rounding is modelled.

*Argument.* For files, `FilesKnown` says that every file a row or a request
remembers was brought by a request for that slot and has been named, and `OneOnSlot`
that a slot where no requests overlapped has one at work. The rest holds together
(`FilesKept`), whatever fails: a request that is alone remembers what is there
(`AloneIsRight`); what a document's row names is there, unless it could not be read
again, and no one is about to unlink it, unless a save of the text alone put it back
(`DocumentsThere`), which takes an overlap (`BackByRace`); a plan's logo is away only between its unlinking and the new row, or
for good when that row could not be written (`LogosThere`); each file on disk is named,
will be, or will be unlinked, unless the request that replaced it failed on its last
look at the row (`NoneForgotten`). For passwords, `Knows` says for each step what the
request has proved, and `MadeFor` and `Newer` what is true of the codes that are left
- made for whoever had the login, after every reset of it; `KnowsStill` carries both
through the steps of others, whose logins only ever move on. For settings,
`SavesLock` gives each row a save wrote to that save alone, so that a commit is one
new table; `CachesTrue`, `ReadTrue` and `HandedTrue` name, for what is kept, read and
handed out, the table it is and the saves it must have. A load takes less than a
unit of time, which `SettingsTick` assumes, and `Committing` shows that a new table
falsifies none of the three. `OneLoad` - settings have one load per
worker, which the others join - gives `NewerYet`: what is kept is never older than
what was handed out. Zones have no such rule, and `NeverGoesBack` is not claimed for them.
For prices the invariant (`SaleAsComputed`, `QuoteAsComputed`) keeps with the sale and
the quote that they are what the functions gave for their stay and age; the rest is
about the functions. `TierCovers` finds the row (the least or greatest of a finite set
of labels, `LeastThere`, `GreatestThere`), `BaseOfRow` shows that a table with labels
is never searched further than that row, `PlainIsQuoted` that a column moved to the
front changes nothing where it stood there already, and `CommissionOfPremium` that no
factor of an age turns the premium of one retail tier into that of another - the
commission is looked up by the premium, or by twice of it for a child, so a table with
one premium the double of another would be paid wrongly.

*Only model-checked.* `EveryPaymentEnds` is liveness, which is outside TLAPS's reach,
as are `ENABLED`, induction over data and RECURSIVE operators (there are none in the
modules with proofs). `SceneTypeOK` and `AreaTypeOK` are the
type invariants of the scene or area that a behaviour plays; each of their parts is a
theorem above.

## 5. What is not modelled

- Formatting, wording, PDF layout, languages and field validation are data, and
  so are the parsers of answers and dates: an answer is understood or not.
- The signature checks of the webhooks, the hashes of passwords, keys and tokens,
  and the encryption of passports and secrets are single cryptographic guards.
- Reports, ledgers, dashboards, histories and lists only read, the activity log
  only appends, and its failures are swallowed.
- Creating, listing and deleting a case, and the expiry of quotes, are single
  statements whose effect nothing else waits for. `createCase` accepts any status
  (`models/caseModel.js:50`); the cases that are paid for come from `createQuote`,
  which writes `AwaitingPayment`.
- The two paths by which the office issues take premium, tax and total from the
  request (`controllers/salesController.js:44`, `controllers/caseController.js:365`):
  `Pricing` is about the premiums the system computes and says nothing of theirs.
- The certificate request by message changes no row of a conversation (that it is
  answered is in `Delivery`), and the sentence a customer gets when the engine throws
  is wording.
- In `Conversation`, `Payments` and `Policies` there is no clock: windows close
  at any time after they open.
- In `Settings` a load takes less than a unit of time, of which a copy lives one:
  a SELECT that outlasts the lifetime of a copy would add its own length to it.
- The rounding of a premium to cents, the wording of currencies, the padding of
  a number (it never cuts), and the limiter of a webhook's address.
- The migration runner, the repair scripts and the passport encryption run alone,
  by hand, and can be run again.
- Mail, the log and the monitoring are output; that a mail is not sent is
  modelled where something follows from it (`Logins`).

## 6. Where the code and its documentation differ

Shown by a run:

- the poller and the operator settle without a transition, so a policy is issued
  by a payment that is not `completed` (`scripts/pollPayments.js:102`);
- a retry from the same number reuses the failed row, because nothing writes
  `__payAttempt` (`utils/payments/service.js:96`);
- a download that overlaps a correction stores the superseded certificate
  (`controllers/documentController.js:583`);
- a trip changed on the review screen is quoted at one price and charged at
  another (`utils/payments/service.js:87`);
- as many customers at once as pool connections block for ever
  (`models/whatsappModel.js:35`);
- a customer whose first message of a session asks for the certificate is taken
  for one who has been silent (`controllers/whatsappController.js:208`);
- a plan with a price of its own for a zone is quoted at that price and issued
  and corrected at the one of its first column (`utils/payments/service.js:189`).

Met while modelling, without a run of their own; no property claims otherwise:

- a callback with the outcome is dropped as a duplicate after one that reported
  the prompt (`models/paymentModel.js:241`), and a callback that reports a
  prompt is settled like a failure
  (`controllers/paymentWebhookController.js:161`);
- a process that dies between completing a payment and issuing never issues: the
  redelivery is a no-op;
- `updateCase` writes back columns of a row read earlier, so an operator's
  correction undoes an administrator's (`controllers/caseController.js:598`), a
  roll-back can restore another request's unpriceable details (`:607`), and two
  corrections can drop a revision (`models/policyIssuance.js:273`);
- a case issued again after a cancellation is corrected through its oldest,
  cancelled policy (`models/salesModel.js:68`);
- two overlapping reversals of a payment spend one, and an update that overlaps a
  cancellation puts an amount back (`controllers/salesController.js:201`);
- a payment that arrives after the office issued leaves the policy unpaid
  (`models/policyIssuance.js:109`); the re-freeze script can freeze a premium
  just replaced (`scripts/refreshCertificateSnapshots.js:214`);
- a late failure reaches a restarted conversation and puts it into payment with
  no quote; an outcome that beats the provider's response is overwritten by the
  step that waits for it; BACK out of a detail being changed leaves the return
  mark, so a second confirmation makes a second quote; a message that cannot get
  its number is dropped without the archive its comment promises;
- the office may set any status of a case (`controllers/caseController.js:271`), so a
  case may be `Confirmed` without a policy; the office's own list of pending sales is
  of such cases (`models/caseModel.js:84`);
- a failed count of the certificates sent is taken for none
  (`controllers/whatsappController.js:265`), so a customer can be sent more than the
  limit, which `utils/whatsapp/engine.js:1153` says is refused;
- a notice whose session cannot be updated after it was said is reported as not
  notified, and its certificate is not sent (`utils/payments/service.js:424`);
- a failed link of a sale to its payment means no certificate after the notice;
- the limiter described as a sliding window is a fixed one, and refused requests
  are neither logged nor free; a row of an Idempotency-Key stays `in_progress`
  for ever after a crash, its fingerprint leaves out the path, the key is shared
  by all partners, and a failed answer is replayed for ever; a rotation is three
  statements without a transaction, so a failed one leaves no key;
- a save of settings is not live in its own worker while a load is in flight
  (`utils/appSettings.js:12`; `LiveWhereSaved` states what it says); of two loads
  of the zones the older may end last and stay for five minutes;
- two reassignments at once leave two open periods, and one dated to the first
  day of another, or before, overlaps it; a sub-agent created below an agent that
  is being deleted becomes an agency (`models/userModel.js:352`); deleting a
  sub-administrator who is named as a recorder is refused after their activity
  has been deleted (`controllers/adminController.js:1142`); a refused creation by
  an insurer supervisor leaves the account (`:122`); accounts below the third
  level are in no row of the hierarchy; a reassignment dated tomorrow counts from
  today; two administrators can disable each other; a token outlives a changed
  password and a disabled account for a day; a profile's change of password
  accepts weak ones; two overlapping resets with one code both succeed;
- a customer who turns 86 between payment and issue has paid and gets no price; a
  child who turns 16 before the invoice is commissioned in full on half a
  premium; as a tier is taken from the rows themselves, the fall-backs of
  `getBasePremiumForValidityTier` to another row serve only tables whose rows are
  all labelled with zero days;
- a number format with a month and no year repeats its numbers a year later and
  the sale is refused; a rolled-back sale leaves no gap, although
  `utils/documentNumbers.js:85` says it does;
- a failed UPDATE leaves a row that names a removed logo, a document whose row was
  written but could not be read again is removed though the row names it
  (`controllers/contractualDocumentController.js:212`), and a save of the text alone
  puts back the path of a file that another request has replaced and deleted (`:175`);
  a deleted plan leaves its logo on disk, and two uploads at once leave the loser's
  file.

## 7. Plan

Modelled, checked and proved: the components in section 2, as in sections 3 and 4.
Next, in order of what matters most:

1. The life of a quote: created, expired, cancelled, attached to a payment.
2. The resumable scripts, which run beside the server.
