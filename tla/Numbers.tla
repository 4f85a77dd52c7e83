-------------------------------- MODULE Numbers --------------------------------
(***************************************************************************)
(* The numbers of policies, invoices and certificates: a counter per kind  *)
(* and period, taken inside the transaction that issues the policy, and    *)
(* printed with the format the operator has set.  A number holds the date  *)
(* its format prints and the count; two numbers are the same if both are.  *)
(***************************************************************************)
EXTENDS Naturals, Sequences

CONSTANTS
  Kinds,      \* the sequence in which a sale takes its numbers
  Formats,    \* what operators set: whether year and month are printed
  Sales,      \* transactions that issue a policy
  None,       \* no holder, not printed
  MonthsPerYear,
  LastMonth, MaxChanges, MaxRollbacks   \* bounds, for model checking

KindSet == {Kinds[i] : i \in 1 .. Len(Kinds)}

ASSUME NumbersAssumption ==
  /\ Kinds \in Seq(KindSet)
  /\ \A i, j \in 1 .. Len(Kinds) : Kinds[i] = Kinds[j] => i = j   \* kinds differ
  /\ Formats \subseteq [year : BOOLEAN, month : BOOLEAN]
  /\ None \notin Sales \cup Nat /\ MonthsPerYear \in Nat \ {0}
  /\ LastMonth \in Nat /\ MaxChanges \in Nat /\ MaxRollbacks \in Nat

Year(m) == m \div MonthsPerYear
Month(m) == m % MonthsPerYear

(* periodFor: a format that prints the month counts each month anew, one    *)
(* that prints the year each year, any other for ever.                      *)
Period(format, m) ==
  IF format.month THEN <<Year(m), Month(m)>> ELSE IF format.year THEN <<Year(m)>> ELSE <<>>

(* renderFormat                                                             *)
Printed(format, m, n) ==
  [year  |-> IF format.year THEN Year(m) ELSE None,
   month |-> IF format.month THEN Month(m) ELSE None,
   n     |-> n]

NumberPeriods == {Period(f, m) : f \in [year : BOOLEAN, month : BOOLEAN], m \in 0 .. LastMonth}

VARIABLES
  counter,   \* policy_sequences: the committed value of each kind and period
  held,      \* the transaction that has taken a number of a counter
  txn,       \* the transactions' local variables
  issued,    \* the committed numbers: kind, period and what is printed
  format,    \* policy.number_format, here the same for all kinds
  changes,
  thisMonth,
  rollbacks

numbersVars == <<counter, held, txn, issued, format, changes, thisMonth, rollbacks>>

NumbersInit ==
  /\ counter = [c \in KindSet \X NumberPeriods |-> 0]
  /\ held = [c \in KindSet \X NumberPeriods |-> None]
  /\ txn = [s \in Sales |-> [pc |-> "new"]]
  /\ issued = {} /\ format \in Formats
  /\ changes = 0 /\ thisMonth = 0 /\ rollbacks = 0

(* The formats are read before the transaction, from the settings' cache;   *)
(* the month once, with the first number.                                   *)
Begin(s) ==
  /\ txn[s].pc = "new"
  /\ txn' = [txn EXCEPT ![s] = [pc |-> "read", format |-> format]]
  /\ UNCHANGED <<counter, held, issued, format, changes, thisMonth, rollbacks>>

StartNumbers(s) ==
  /\ txn[s].pc = "read"
  /\ txn' = [txn EXCEPT ![s] = [pc |-> "counting", format |-> @.format, month |-> thisMonth, taken |-> <<>>]]
  /\ UNCHANGED <<counter, held, issued, format, changes, thisMonth, rollbacks>>

(* faulty: every other sale takes its numbers the other way round           *)
NextKindUnordered(s, i) == IF s = CHOOSE t \in Sales : TRUE THEN Kinds[Len(Kinds) + 1 - i] ELSE Kinds[i]

(* allocateSaleNumbers: policy, invoice, certificate.                       *)
NextKind(s, i) == Kinds[i]

CounterOf(s, i) == <<NextKind(s, i), Period(txn[s].format, txn[s].month)>>

Takes(s) == CounterOf(s, Len(txn[s].taken) + 1)

IsTaking(s) == txn[s].pc = "counting" /\ Len(txn[s].taken) < Len(Kinds)

(* allocateSequence: one statement that takes the row's lock and keeps it   *)
(* until the transaction ends.                                              *)
Allocate(s) ==
  /\ IsTaking(s) /\ held[Takes(s)] = None
  /\ held' = [held EXCEPT ![Takes(s)] = s]
  /\ txn' = [txn EXCEPT ![s].taken = Append(@, counter[Takes(s)] + 1)]
  /\ UNCHANGED <<counter, issued, format, changes, thisMonth, rollbacks>>

Number(s, i) ==
  [kind |-> NextKind(s, i), counter |-> CounterOf(s, i),
   text |-> Printed(txn[s].format, txn[s].month, txn[s].taken[i])]

NumbersOf(s) == {Number(s, i) : i \in 1 .. Len(txn[s].taken)}

SameAsIssued(s) ==
  \E a \in NumbersOf(s), b \in issued : a.kind = b.kind /\ a.text = b.text

Released(s) == [c \in DOMAIN held |-> IF held[c] = s THEN None ELSE held[c]]
Holds(s) == {c \in DOMAIN held : held[c] = s}
Ends(s, how) ==
  txn' = [txn EXCEPT ![s] = [pc |-> how, format |-> txn[s].format]]

(* A rollback gives the numbers back.                                       *)
RolledBack(s) == counter

(* issuePolicy: the sale, the invoice and the certificate are inserted and  *)
(* committed, unless a unique key knows one of the numbers.                 *)
IssueNumbers(s) ==
  /\ txn[s].pc = "counting" /\ Len(txn[s].taken) = Len(Kinds)
  /\ IF SameAsIssued(s)
     THEN Ends(s, "refused") /\ counter' = RolledBack(s) /\ UNCHANGED issued
     ELSE /\ Ends(s, "issued")
          /\ counter' = [c \in DOMAIN counter |-> IF c \in Holds(s) THEN counter[c] + 1 ELSE counter[c]]
          /\ issued' = issued \cup NumbersOf(s)
  /\ held' = Released(s)
  /\ UNCHANGED <<format, changes, thisMonth, rollbacks>>

(* Another statement of the transaction fails.                              *)
Rollback(s) ==
  /\ txn[s].pc = "counting" /\ rollbacks < MaxRollbacks
  /\ rollbacks' = rollbacks + 1
  /\ Ends(s, "failed") /\ counter' = RolledBack(s) /\ held' = Released(s)
  /\ UNCHANGED <<issued, format, changes, thisMonth>>

(* validateFormat lets any format pass that prints the count.               *)
ChangeFormat(f) ==
  /\ f # format /\ changes < MaxChanges
  /\ format' = f /\ changes' = changes + 1
  /\ UNCHANGED <<counter, held, txn, issued, thisMonth, rollbacks>>

NextMonth ==
  /\ thisMonth < LastMonth
  /\ thisMonth' = thisMonth + 1
  /\ UNCHANGED <<counter, held, txn, issued, format, changes, rollbacks>>

NumbersNext ==
  \/ \E s \in Sales : Begin(s) \/ StartNumbers(s) \/ Allocate(s) \/ IssueNumbers(s) \/ Rollback(s)
  \/ \E f \in Formats : ChangeFormat(f)
  \/ NextMonth

NumbersSpec == NumbersInit /\ [][NumbersNext]_numbersVars

-----------------------------------------------------------------------------
(* What is promised                                                         *)

Taking == [pc : {"counting"}, format : Formats, month : 0 .. LastMonth, taken : Seq(Nat)]
Ended == [pc : {"read", "issued", "refused", "failed"}, format : Formats]
Text == [year : Nat \cup {None}, month : Nat \cup {None}, n : Nat]

(* Counters, transactions and numbers keep their shape.                     *)
NumbersTypeOK ==
  /\ counter \in [KindSet \X NumberPeriods -> Nat]
  /\ held \in [KindSet \X NumberPeriods -> Sales \cup {None}]
  /\ txn \in [Sales -> {[pc |-> "new"]} \cup Taking \cup Ended]
  /\ issued \subseteq [kind : KindSet, counter : KindSet \X NumberPeriods, text : Text]
  /\ format \in Formats /\ thisMonth \in 0 .. LastMonth
  /\ changes \in 0 .. MaxChanges /\ rollbacks \in 0 .. MaxRollbacks

(* No sale is refused for its number, through rollbacks, changed formats and*)
(* the turn of a month or year - unless a format prints the month without   *)
(* the year.                                                                *)
NoSaleRefused ==
  (\A f \in Formats : f.month => f.year) => \A s \in Sales : txn[s].pc # "refused"

(* The numbers of a counter are issued without a gap: a sale that fails     *)
(* leaves none behind.                                                      *)
NoGaps ==
  \A c \in DOMAIN counter :
    {a.text.n : a \in {b \in issued : b.counter = c}} = 1 .. counter[c]

Waits(s, t) == s # t /\ IsTaking(s) /\ held[Takes(s)] = t

(* Sales wait for each other's numbers in one direction only.               *)
NoCircularWait == \A s, t \in Sales : ~(Waits(s, t) /\ Waits(t, s))

(* Every sale gets its numbers, and no number is missing.                   *)
NumbersServe == NoSaleRefused /\ NoGaps /\ NoCircularWait
=============================================================================
