---------------------------- MODULE PaymentPromise ----------------------------
(***************************************************************************)
(* What the payment side of the backend promises, whatever happens to the  *)
(* callbacks, the cron scripts and the processes:                          *)
(*   - a payment is settled once, and as completed only with the money in; *)
(*   - a case is insured once, and by a payment only with the money in.    *)
(* Module Payments implements this specification.                          *)
(***************************************************************************)
CONSTANTS Key,       \* payments
          Cases,     \* quotes that can become a policy
          Outcomes,  \* terminal states of a payment
          NoTx       \* "paid for" by nobody: a policy the office issued

VARIABLES paid,      \* the payments whose customer has paid
          outcome,   \* [Key -> Outcomes \cup {"open"}]
          insured    \* [Cases -> set of what each policy was paid with]

promise == <<paid, outcome, insured>>

PromiseInit ==
  /\ paid = {}
  /\ outcome = [k \in Key |-> "open"]
  /\ insured = [c \in Cases |-> {}]

(* A customer confirms on the handset.                                     *)
Pay(k) ==
  /\ paid' = paid \cup {k}
  /\ UNCHANGED <<outcome, insured>>

(* A payment reaches its one outcome.                                      *)
Settle(k, o) ==
  /\ outcome[k] = "open"
  /\ o = "completed" => k \in paid
  /\ outcome' = [outcome EXCEPT ![k] = o]
  /\ UNCHANGED <<paid, insured>>

(* A case that has no policy gets one.                                     *)
Insure(c, by) ==
  /\ insured[c] = {}
  /\ by # NoTx => by \in paid
  /\ insured' = [insured EXCEPT ![c] = {by}]
  /\ UNCHANGED <<paid, outcome>>

PromiseNext ==
  \/ \E k \in Key : Pay(k)
  \/ \E k \in Key, o \in Outcomes : Settle(k, o)
  \/ \E c \in Cases, by \in Key \cup {NoTx} : Insure(c, by)

PromiseSpec == PromiseInit /\ [][PromiseNext]_promise
=============================================================================
