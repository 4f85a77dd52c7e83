----------------------------- MODULE PurchaseFlow -----------------------------
(***************************************************************************)
(* The WhatsApp purchase flow as data, and what the engine does with it:   *)
(* which step follows an answer, what an answer stores, and what asking a  *)
(* step's question changes by itself (a step with one choice is skipped).  *)
(* Everything here is a function of one conversation's row; module         *)
(* Conversation says when it is read and when it is written back.          *)
(*                                                                         *)
(* The wording of prompts, the language and the validation of a field are  *)
(* left out: an answer is either understood, with the fields it gives, or  *)
(* not.                                                                    *)
(***************************************************************************)
EXTENDS Naturals, Sequences, FiniteSets

CONSTANTS
  StartStep,    \* first question of the flow
  StoredNext,   \* a row of whatsapp_flows: steps whose `next` it overrides
  RetryLimit,   \* maxFieldRetries
  Trips, Plans, \* destinations with dates and an age; catalogue entries
  Price,        \* Price[t][p]: premium of plan p for trip t, 0 for none
  Providers,    \* mobile-money operators
  Offers,       \* the sets of them that settings may offer a customer
  Phones,       \* numbers to charge
  None          \* a field that was not collected, a NULL column

(* FLOW: the steps that collect a detail, and those that sell.              *)
Questions ==
  {"welcome", "identity", "identity_last_name", "identity_first_name",
   "identity_dob", "passport", "gender", "nationality", "residence",
   "destination_dates", "travel_dates", "email", "phone"}

Selling ==
  {"plan", "review", "review_edit", "payment_provider", "payment_phone",
   "payment_wait", "payment_retry", "done"}

Steps == Questions \cup Selling

FlowAssumption ==
  /\ StartStep \in Questions
  /\ DOMAIN StoredNext \subseteq Questions
  /\ \A q \in DOMAIN StoredNext : StoredNext[q] \in Questions \cup {"plan"}
  /\ RetryLimit \in Nat \ {0}
  /\ Price \in [Trips -> [Plans -> Nat]]
  /\ Offers \subseteq SUBSET Providers
  /\ None \notin Trips \cup Plans \cup Providers \cup Phones \cup Steps

(* What an answer to a question stores (nationality also fills in the       *)
(* residence).                                                              *)
Stores ==
  [q \in Questions |->
     CASE q = "welcome" -> {}
       [] q = "identity" -> {"last_name", "first_name", "date_of_birth", "passport_or_id"}
       [] q = "identity_last_name" -> {"last_name"}
       [] q = "identity_first_name" -> {"first_name"}
       [] q = "identity_dob" -> {"date_of_birth"}
       [] q = "passport" -> {"passport_or_id"}
       [] q = "nationality" -> {"nationality", "country_of_residence"}
       [] q = "residence" -> {"country_of_residence"}
       [] q = "destination_dates" -> {"destination", "dates"}
       [] q = "travel_dates" -> {"dates"}
       [] OTHER -> {q}]

Fields == UNION {Stores[q] : q \in Questions}

(* Answers that are understood: the grouped identity may lack the passport, *)
(* a typed destination the dates, and a tapped one always does (the dates   *)
(* are then asked on the same step).                                        *)
Answers(q) ==
  CASE q = "identity" ->
         {[gives |-> Stores[q], more |-> FALSE],
          [gives |-> Stores[q] \ {"passport_or_id"}, more |-> FALSE]}
    [] q = "destination_dates" ->
         {[gives |-> Stores[q], more |-> FALSE],
          [gives |-> {"destination"}, more |-> FALSE],
          [gives |-> {"destination"}, more |-> TRUE]}
    [] OTHER -> {[gives |-> Stores[q], more |-> FALSE]}

(* A change of destination, of dates or of age is a change of trip.         *)
ChangesTrip(a) == a.gives \cap {"destination", "dates", "date_of_birth"} # {}

(* resolveNext over the flow merged with the stored one.                    *)
PassportNext(known) == IF "passport_or_id" \in known THEN "gender" ELSE "passport"

NextStep(q, known) ==
  IF q \in DOMAIN StoredNext THEN StoredNext[q]
  ELSE CASE q = "welcome" -> "identity"
         [] q = "identity_last_name" -> "identity_first_name"
         [] q = "identity_first_name" -> "identity_dob"
         [] q \in {"identity", "identity_dob"} -> PassportNext(known)
         [] q = "passport" -> "gender"
         [] q = "gender" -> "nationality"
         [] q \in {"nationality", "residence"} -> "destination_dates"
         [] q = "destination_dates" -> IF "dates" \in known THEN "email" ELSE "travel_dates"
         [] q = "travel_dates" -> "email"
         [] OTHER -> "plan"

(* The steps of the "change a detail" list; only details already given are  *)
(* offered.                                                                 *)
EDITABLE_STEPS == Questions \ {"welcome", "identity"}
Offered(known) == {q \in EDITABLE_STEPS : Stores[q] \cap known # {}}

-----------------------------------------------------------------------------
(* A conversation: a row of whatsapp_sessions.  The columns of Collected    *)
(* are one JSON column, collected_data, and are written together.           *)
Statuses == {"active", "completed", "expired", "cancelled", "escalated"}
Collected ==
  {"known", "trip", "plan", "premium", "options", "provider", "phone", "editing"}
Columns == Collected \cup {"status", "step", "hist", "retry", "case", "tx", "number"}

Blank ==  \* collected_data = {}
  [known |-> {}, trip |-> None, plan |-> None, premium |-> 0,
   options |-> {}, provider |-> None, phone |-> None, editing |-> FALSE]

NewSession(n) ==
  [f \in Columns |->
     CASE f \in Collected -> Blank[f]
       [] f = "status" -> "active"
       [] f = "step" -> None
       [] f = "hist" -> <<>>
       [] f = "retry" -> 0
       [] f = "case" -> 0
       [] f = "tx" -> None
       [] OTHER -> n]

-----------------------------------------------------------------------------
(* Asking a question: renderStep                                            *)

Goto(r, q) == [r EXCEPT !.step = q]

PriceOf(r) ==
  IF r.trip = None \/ r.plan = None THEN 0 ELSE Price[r.trip][r.plan]

Priced(t) == IF t = None THEN {} ELSE {p \in Plans : Price[t][p] > 0}

WithPlan(r, p) == [r EXCEPT !.plan = p, !.premium = Price[r.trip][p]]

(* No plan covers the trip: a person takes over.  One: it is chosen.        *)
AskPlan(r) ==
  CASE Priced(r.trip) = {} -> [Goto(r, "plan") EXCEPT !.status = "escalated"]
    [] Cardinality(Priced(r.trip)) = 1 ->
         Goto(WithPlan(r, CHOOSE p \in Plans : p \in Priced(r.trip)), "review")
    [] OTHER -> Goto(r, "plan")

(* No operator serves the customer: an adviser calls.  One: it is chosen.   *)
AskProvider(r, offer) ==
  CASE offer = {} -> [Goto(r, "done") EXCEPT !.status = "completed"]
    [] Cardinality(offer) = 1 ->
         Goto([r EXCEPT !.options = offer, !.provider = CHOOSE p \in offer : TRUE],
              "payment_phone")
    [] OTHER -> Goto([r EXCEPT !.options = offer], "payment_provider")

Ask(r, q, offer) ==
  CASE q = "plan" -> AskPlan(r)
    [] q = "payment_provider" -> AskProvider(r, offer)
    [] q = "done" -> [Goto(r, "done") EXCEPT !.status = "completed"]
    [] OTHER -> Goto(r, q)

(* An answer accepted: into the history, and the retries start over.        *)
Answered(r) == [r EXCEPT !.hist = Append(@, r.step), !.retry = 0]

(* Where an accepted answer leads: back to the review when a detail was     *)
(* being changed, else on to q.                                             *)
Lead(r, q, offer) ==
  IF r.editing THEN Goto([r EXCEPT !.editing = FALSE], "review") ELSE Ask(r, q, offer)
=============================================================================
