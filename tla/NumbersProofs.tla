---------------------------- MODULE NumbersProofs ----------------------------
(***************************************************************************)
(* Proofs about Numbers, for any kinds, formats, sales and calendar.       *)
(***************************************************************************)
EXTENDS Numbers, SequenceTheorems, TLAPS

USE NumbersAssumption

Shape == {[pc |-> "new"]} \cup Taking \cup Ended
Counters == KindSet \X NumberPeriods

(* The counter from which a transaction t takes its i-th number.            *)
From(t, i) == <<Kinds[i], Period(t.format, t.month)>>

(* A sale keeps the rows of the counters it has taken from, and no other;   *)
(* what it has taken is the count that comes next.                          *)
Keeps(t, s, hd, ct) ==
  /\ t.pc = "counting" =>
       /\ Len(t.taken) \in 0 .. Len(Kinds)
       /\ \A i \in 1 .. Len(t.taken) : hd[From(t, i)] = s /\ t.taken[i] = ct[From(t, i)] + 1
  /\ \A c \in Counters : hd[c] = s =>
       t.pc = "counting" /\ \E i \in 1 .. Len(t.taken) : c = From(t, i)

(* An issued number is one that its counter has counted, printed with the   *)
(* format and in the month that chose the counter.                          *)
Genuine(b, ct) ==
  \E k \in KindSet, f \in Formats, m \in 0 .. LastMonth : \E n \in 1 .. ct[<<k, Period(f, m)>>] :
    b = [kind |-> k, counter |-> <<k, Period(f, m)>>, text |-> Printed(f, m, n)]

(* Every count has been issued.                                             *)
Complete(bs, ct) ==
  \A c \in Counters : \A n \in 1 .. ct[c] : \E b \in bs : b.counter = c /\ b.text.n = n

Inv ==
  /\ NumbersTypeOK
  /\ \A s \in Sales : Keeps(txn[s], s, held, counter)
  /\ \A b \in issued : Genuine(b, counter)
  /\ Complete(issued, counter)
  /\ NoSaleRefused

-----------------------------------------------------------------------------
(* Dates and numbers                                                        *)

LEMMA Dates ==
  ASSUME NEW m \in Nat
  PROVE  Year(m) \in Nat /\ Month(m) \in Nat
BY DEF Year, Month

LEMMA FormatShape ==
  ASSUME NEW f \in Formats
  PROVE  f \in [year : BOOLEAN, month : BOOLEAN]
OBVIOUS

LEMMA PeriodKnown ==
  ASSUME NEW f \in Formats, NEW m \in 0 .. LastMonth
  PROVE  Period(f, m) \in NumberPeriods
BY FormatShape DEF NumberPeriods

LEMMA KindsDiffer ==
  /\ Len(Kinds) \in Nat
  /\ \A i \in 1 .. Len(Kinds) : Kinds[i] \in KindSet
  /\ \A i, j \in 1 .. Len(Kinds) : Kinds[i] = Kinds[j] => i = j
BY LenProperties DEF KindSet

LEMMA PrintedShape ==
  ASSUME NEW f \in Formats, NEW m \in 0 .. LastMonth, NEW n \in Nat
  PROVE  Printed(f, m, n) \in Text /\ Printed(f, m, n).n = n
<1> m \in Nat
  OBVIOUS
<1>1. Year(m) \in Nat /\ Month(m) \in Nat
  BY Dates
<1> QED  BY <1>1 DEF Printed, Text

(* With a year beside every month, what is printed tells the period.        *)
LEMMA TextTellsPeriod ==
  ASSUME \A f \in Formats : f.month => f.year,
         NEW f \in Formats, NEW m \in 0 .. LastMonth, NEW n \in Nat,
         NEW g \in Formats, NEW l \in 0 .. LastMonth, NEW k \in Nat,
         Printed(f, m, n) = Printed(g, l, k)
  PROVE  Period(f, m) = Period(g, l) /\ n = k
<1> m \in Nat /\ l \in Nat
  OBVIOUS
<1>1. /\ Year(m) \in Nat /\ Month(m) \in Nat /\ Year(l) \in Nat /\ Month(l) \in Nat
  BY Dates
<1>2. None \notin Nat
  OBVIOUS
<1>3. /\ (IF f.year THEN Year(m) ELSE None) = (IF g.year THEN Year(l) ELSE None)
      /\ (IF f.month THEN Month(m) ELSE None) = (IF g.month THEN Month(l) ELSE None)
      /\ n = k
  BY DEF Printed
<1>4. /\ f.year <=> g.year
      /\ f.month <=> g.month
      /\ f.year => Year(m) = Year(l)
      /\ f.month => Month(m) = Month(l)
  BY <1>1, <1>2, <1>3
<1>5. f.month => f.year
  OBVIOUS
<1> QED  BY <1>3, <1>4, <1>5 DEF Period

LEMMA Shapes ==
  ASSUME NEW t \in Shape
  PROVE  /\ t.pc \in {"new", "read", "counting", "issued", "refused", "failed"}
         /\ t.pc = "counting" => t \in Taking
         /\ t.pc \in {"read", "issued", "refused", "failed"} => t \in Ended
BY DEF Shape, Taking, Ended

LEMMA FromKnown ==
  ASSUME NEW t \in Taking, NEW i \in 1 .. Len(Kinds)
  PROVE  From(t, i) \in Counters
<1>1. t.format \in Formats /\ t.month \in 0 .. LastMonth
  BY DEF Taking
<1> QED  BY <1>1, PeriodKnown, KindsDiffer DEF From, Counters

(* What a sale keeps does not depend on the rows of others.                 *)
LEMMA OthersKeep ==
  ASSUME NEW t \in Shape, NEW s \in Sales, NEW hd, NEW ct, NEW hd2, NEW ct2,
         Keeps(t, s, hd, ct),
         \A c \in Counters : hd2[c] = s <=> hd[c] = s,
         \A c \in Counters : hd[c] = s => ct2[c] = ct[c]
  PROVE  Keeps(t, s, hd2, ct2)
<1>1. t.pc = "counting" => \A i \in 1 .. Len(t.taken) : From(t, i) \in Counters
  <2> SUFFICES ASSUME t.pc = "counting", NEW i \in 1 .. Len(t.taken)
               PROVE  From(t, i) \in Counters
    OBVIOUS
  <2>1. t \in Taking /\ Len(t.taken) \in 0 .. Len(Kinds)
    BY Shapes DEF Keeps
  <2>2. i \in 1 .. Len(Kinds)
    BY <2>1, KindsDiffer
  <2> QED  BY <2>1, <2>2, FromKnown
<1> QED  BY <1>1 DEF Keeps

(* A sale that is not taking numbers keeps none.                            *)
LEMMA NothingKept ==
  ASSUME NEW t, NEW s, NEW hd, NEW ct, t.pc # "counting",
         \A c \in Counters : hd[c] # s
  PROVE  Keeps(t, s, hd, ct)
BY DEF Keeps

(* Counters that grow make no issued number false.                          *)
LEMMA StaysGenuine ==
  ASSUME NEW b, NEW ct \in [Counters -> Nat], NEW ct2 \in [Counters -> Nat],
         Genuine(b, ct), \A c \in Counters : ct[c] <= ct2[c]
  PROVE  Genuine(b, ct2)
<1>1. PICK k \in KindSet, f \in Formats, m \in 0 .. LastMonth : \E n \in 1 .. ct[<<k, Period(f, m)>>] :
        b = [kind |-> k, counter |-> <<k, Period(f, m)>>, text |-> Printed(f, m, n)]
  BY DEF Genuine
<1>2. PICK n \in 1 .. ct[<<k, Period(f, m)>>] :
        b = [kind |-> k, counter |-> <<k, Period(f, m)>>, text |-> Printed(f, m, n)]
  BY <1>1
<1>3. <<k, Period(f, m)>> \in Counters
  BY PeriodKnown DEF Counters
<1>4. n \in 1 .. ct2[<<k, Period(f, m)>>]
  BY <1>3
<1> QED  BY <1>2, <1>4 DEF Genuine

(* The numbers of a sale about to issue.                                    *)
LEMMA NumberShape ==
  ASSUME Inv, NEW s \in Sales, txn[s].pc = "counting", NEW i \in 1 .. Len(txn[s].taken)
  PROVE  /\ i \in 1 .. Len(Kinds) /\ CounterOf(s, i) = From(txn[s], i)
         /\ CounterOf(s, i) \in Counters /\ held[CounterOf(s, i)] = s
         /\ txn[s].taken[i] = counter[CounterOf(s, i)] + 1
         /\ txn[s].format \in Formats /\ txn[s].month \in 0 .. LastMonth
         /\ Number(s, i) = [kind |-> Kinds[i], counter |-> CounterOf(s, i),
                            text |-> Printed(txn[s].format, txn[s].month, counter[CounterOf(s, i)] + 1)]
<1>1. txn[s] \in Taking
  BY Shapes DEF Inv, NumbersTypeOK, Shape
<1>2. Keeps(txn[s], s, held, counter)
  BY DEF Inv
<1>3. i \in 1 .. Len(Kinds)
  BY <1>2, KindsDiffer DEF Keeps
<1>4. CounterOf(s, i) = From(txn[s], i)
  BY DEF CounterOf, From, NextKind
<1>5. held[CounterOf(s, i)] = s /\ txn[s].taken[i] = counter[CounterOf(s, i)] + 1
  BY <1>2, <1>4 DEF Keeps
<1>6. txn[s].format \in Formats /\ txn[s].month \in 0 .. LastMonth
  BY <1>1 DEF Taking
<1> QED  BY <1>1, <1>3, <1>4, <1>5, <1>6, FromKnown DEF Number, NextKind

(* A number that is about to be issued has not been issued before.          *)
LEMMA Unused ==
  ASSUME Inv, NEW s \in Sales, txn[s].pc = "counting", \A f \in Formats : f.month => f.year
  PROVE  ~SameAsIssued(s)
<1> SUFFICES ASSUME NEW i \in 1 .. Len(txn[s].taken), NEW b \in issued,
                    Number(s, i).kind = b.kind, Number(s, i).text = b.text
             PROVE  FALSE
  BY DEF SameAsIssued, NumbersOf
<1> DEFINE c == CounterOf(s, i)
<1>1. /\ c \in Counters /\ counter[c] \in Nat
      /\ txn[s].format \in Formats /\ txn[s].month \in 0 .. LastMonth
      /\ c = <<Kinds[i], Period(txn[s].format, txn[s].month)>>
      /\ Number(s, i).kind = Kinds[i]
      /\ Number(s, i).text = Printed(txn[s].format, txn[s].month, counter[c] + 1)
  BY NumberShape DEF Inv, NumbersTypeOK, Counters, From
<1>2. PICK k \in KindSet, f \in Formats, m \in 0 .. LastMonth : \E n \in 1 .. counter[<<k, Period(f, m)>>] :
        b = [kind |-> k, counter |-> <<k, Period(f, m)>>, text |-> Printed(f, m, n)]
  BY DEF Inv, Genuine
<1>3. PICK n \in 1 .. counter[<<k, Period(f, m)>>] :
        b = [kind |-> k, counter |-> <<k, Period(f, m)>>, text |-> Printed(f, m, n)]
  BY <1>2
<1>4. <<k, Period(f, m)>> \in Counters
  BY PeriodKnown DEF Counters
<1>5. n \in Nat /\ n <= counter[<<k, Period(f, m)>>]
  BY <1>4 DEF Inv, NumbersTypeOK, Counters
<1> HIDE DEF c
<1>6. Printed(txn[s].format, txn[s].month, counter[c] + 1) = Printed(f, m, n) /\ k = Kinds[i]
  BY <1>1, <1>3
<1>7. counter[c] + 1 \in Nat
  BY <1>1
<1>8. Period(txn[s].format, txn[s].month) = Period(f, m) /\ counter[c] + 1 = n
  BY <1>1, <1>5, <1>6, <1>7, TextTellsPeriod
<1>9. c = <<k, Period(f, m)>>
  BY <1>1, <1>6, <1>8
<1>10. counter[c] \in Nat /\ n <= counter[c]
  BY <1>1, <1>5, <1>9
<1>11. counter[c] + 1 <= counter[c]
  BY <1>8, <1>10
<1> QED  BY <1>10, <1>11

-----------------------------------------------------------------------------
(* The steps                                                                *)

(* A step of one sale that counts and issues nothing.                       *)
LEMMA MovesKeep ==
  ASSUME Inv, NEW s \in Sales, NEW t \in Shape, txn' = [txn EXCEPT ![s] = t],
         counter' = counter, issued' = issued, UNCHANGED <<format, changes, thisMonth>>,
         rollbacks' \in 0 .. MaxRollbacks,
         held' \in [Counters -> Sales \cup {None}],
         \A c \in Counters : held'[c] # held[c] => held[c] \in {None, s} /\ held'[c] \in {None, s},
         Keeps(t, s, held', counter),
         t.pc = "refused" => ~(\A f \in Formats : f.month => f.year)
  PROVE  Inv'
<1>1. txn \in [Sales -> Shape]
  BY DEF Inv, NumbersTypeOK, Shape
<1>2. txn' \in [Sales -> Shape] /\ txn'[s] = t
  BY <1>1
<1>3. NumbersTypeOK'
  BY <1>2 DEF Inv, NumbersTypeOK, Shape, Counters
<1>4. ASSUME NEW q \in Sales
      PROVE  Keeps(txn'[q], q, held', counter')
  <2>1. CASE q = s
    BY <1>2, <2>1
  <2>2. CASE q # s
    <3>1. txn'[q] = txn[q] /\ txn[q] \in Shape /\ Keeps(txn[q], q, held, counter)
      BY <1>1, <2>2 DEF Inv
    <3>2. \A c \in Counters : held'[c] = q <=> held[c] = q
      BY <2>2
    <3> QED  BY <3>1, <3>2, OthersKeep
  <2> QED  BY <2>1, <2>2
<1>5. \A b \in issued' : Genuine(b, counter')
  BY DEF Inv
<1>6. Complete(issued', counter')
  BY DEF Inv
<1>7. NoSaleRefused'
  BY <1>1 DEF Inv, NoSaleRefused
<1> QED  BY <1>3, <1>4, <1>5, <1>6, <1>7 DEF Inv

LEMMA BeginKeeps ==
  ASSUME Inv, NEW s \in Sales, Begin(s)
  PROVE  Inv'
<1> DEFINE t == [pc |-> "read", format |-> format]
<1>1. t \in Ended
  BY DEF Inv, NumbersTypeOK, Ended
<1>2. t \in Shape
  BY <1>1 DEF Shape
<1>3. \A c \in Counters : held[c] # s
  BY DEF Inv, Keeps, Begin
<1>4. Keeps(t, s, held, counter)
  BY <1>3, NothingKept
<1>5. txn' = [txn EXCEPT ![s] = t] /\ UNCHANGED <<counter, held, issued, format, changes, thisMonth, rollbacks>>
  BY DEF Begin
<1>6. t.pc # "refused"
  OBVIOUS
<1> HIDE DEF t
<1> QED  BY <1>2, <1>4, <1>5, <1>6, MovesKeep DEF Inv, NumbersTypeOK, Counters

LEMMA StartKeeps ==
  ASSUME Inv, NEW s \in Sales, StartNumbers(s)
  PROVE  Inv'
<1> DEFINE t == [pc |-> "counting", format |-> txn[s].format, month |-> thisMonth, taken |-> <<>>]
<1>1. txn[s] \in Ended
  BY Shapes DEF Inv, NumbersTypeOK, Shape, StartNumbers
<1>2. t.format \in Formats
  BY <1>1 DEF Ended
<1>3. t \in Taking
  BY <1>2 DEF Inv, NumbersTypeOK, Taking
<1>4. t \in Shape
  BY <1>3 DEF Shape
<1>5. \A c \in Counters : held[c] # s
  BY DEF Inv, Keeps, StartNumbers
<1>6. Keeps(t, s, held, counter)
  <2>1. Len(t.taken) = 0
    OBVIOUS
  <2> QED  BY <1>5, <2>1, KindsDiffer DEF Keeps
<1>7. txn' = [txn EXCEPT ![s] = t] /\ UNCHANGED <<counter, held, issued, format, changes, thisMonth, rollbacks>>
  BY DEF StartNumbers
<1>8. t.pc # "refused"
  OBVIOUS
<1> HIDE DEF t
<1> QED  BY <1>4, <1>6, <1>7, <1>8, MovesKeep DEF Inv, NumbersTypeOK, Counters

LEMMA AllocateKeeps ==
  ASSUME Inv, NEW s \in Sales, Allocate(s)
  PROVE  Inv'
<1> DEFINE old == txn[s]
           n == Len(old.taken)
           c == Takes(s)
           t == [old EXCEPT !.taken = Append(@, counter[c] + 1)]
<1>1. old.pc = "counting" /\ n < Len(Kinds) /\ held[c] = None
  BY DEF Allocate, IsTaking
<1>2. old \in Taking
  BY <1>1, Shapes DEF Inv, NumbersTypeOK, Shape
<1>3. old.taken \in Seq(Nat) /\ n \in Nat /\ n + 1 \in 1 .. Len(Kinds)
  BY <1>1, <1>2, KindsDiffer, LenProperties DEF Taking
<1>4. c = From(old, n + 1) /\ c \in Counters
  <2>1. c = From(old, n + 1)
    BY DEF Takes, CounterOf, From, NextKind
  <2> QED  BY <1>2, <1>3, <2>1, FromKnown
<1>5. counter[c] + 1 \in Nat
  BY <1>4 DEF Inv, NumbersTypeOK, Counters
<1> HIDE DEF c
<1>16. t.taken = Append(old.taken, counter[c] + 1)
  BY <1>2 DEF Taking
<1>6. t.taken \in Seq(Nat) /\ Len(t.taken) = n + 1
      /\ \A i \in 1 .. n : t.taken[i] = old.taken[i]
  BY <1>3, <1>5, <1>16, AppendProperties
<1>17. t.taken[n + 1] = counter[c] + 1
  BY <1>3, <1>5, <1>16, AppendProperties
<1>7. t \in Taking /\ t.format = old.format /\ t.month = old.month /\ t.pc = "counting"
  BY <1>1, <1>2, <1>6 DEF Taking
<1>8. t \in Shape
  BY <1>7 DEF Shape
<1>9. txn' = [txn EXCEPT ![s] = t] /\ held' = [held EXCEPT ![c] = s]
      /\ UNCHANGED <<counter, issued, format, changes, thisMonth, rollbacks>>
  <2>1. txn' = [txn EXCEPT ![s].taken = Append(@, counter[c] + 1)]
    BY DEF Allocate, c
  <2>2. txn' = [txn EXCEPT ![s] = t]
    BY <2>1
  <2> QED  BY <2>2 DEF Allocate, c
<1> HIDE DEF t
<1>10. \A i \in 1 .. Len(Kinds) : From(t, i) = From(old, i)
  BY <1>7 DEF From
<1>11. held \in [Counters -> Sales \cup {None}]
  BY DEF Inv, NumbersTypeOK, Counters
<1>12. held' \in [Counters -> Sales \cup {None}]
       /\ \A d \in Counters : held'[d] = IF d = c THEN s ELSE held[d]
  BY <1>4, <1>9, <1>11
<1>13. Keeps(t, s, held', counter)
  <2>1. Keeps(old, s, held, counter)
    BY DEF Inv
  <2>2. Len(t.taken) \in 0 .. Len(Kinds)
    BY <1>3, <1>6, KindsDiffer
  <2>3. ASSUME NEW i \in 1 .. Len(t.taken)
        PROVE  held'[From(t, i)] = s /\ t.taken[i] = counter[From(t, i)] + 1
    <3>1. CASE i = n + 1
      <4>1. From(t, i) = c
        BY <1>3, <1>4, <1>10, <3>1
      <4>2. held'[c] = s
        BY <1>4, <1>12
      <4>3. t.taken[i] = counter[c] + 1
        BY <1>17, <3>1
      <4> QED  BY <4>1, <4>2, <4>3
    <3>2. CASE i # n + 1
      <4>1. i \in 1 .. n /\ i \in 1 .. Len(Kinds)
        BY <1>3, <1>6, <3>2, KindsDiffer
      <4>2. From(t, i) = From(old, i) /\ From(old, i) \in Counters
        BY <1>2, <1>10, <4>1, FromKnown
      <4>3. held[From(old, i)] = s /\ old.taken[i] = counter[From(old, i)] + 1
        BY <1>1, <2>1, <4>1 DEF Keeps
      <4> QED  BY <1>6, <1>12, <4>1, <4>2, <4>3
    <3> QED  BY <3>1, <3>2
  <2>4. ASSUME NEW d \in Counters, held'[d] = s
        PROVE  \E i \in 1 .. Len(t.taken) : d = From(t, i)
    <3>1. CASE d = c
      BY <1>3, <1>4, <1>6, <1>10, <3>1
    <3>2. CASE d # c
      <4>1. held[d] = s
        BY <1>12, <2>4, <3>2
      <4>2. PICK i \in 1 .. n : d = From(old, i)
        BY <2>1, <4>1 DEF Keeps
      <4>3. i \in 1 .. Len(t.taken) /\ i \in 1 .. Len(Kinds)
        BY <1>3, <1>6, KindsDiffer
      <4> QED  BY <1>10, <4>2, <4>3
    <3> QED  BY <3>1, <3>2
  <2> QED  BY <1>7, <2>2, <2>3, <2>4 DEF Keeps
<1>14. \A d \in Counters : held'[d] # held[d] => held[d] \in {None, s} /\ held'[d] \in {None, s}
  BY <1>1, <1>12
<1>15. t.pc # "refused" /\ rollbacks' \in 0 .. MaxRollbacks
  BY <1>7, <1>9 DEF Inv, NumbersTypeOK
<1> QED  BY <1>8, <1>9, <1>12, <1>13, <1>14, <1>15, MovesKeep

(* A transaction that ends gives back what it held.                         *)
LEMMA EndShape ==
  ASSUME Inv, NEW s \in Sales, txn[s].pc = "counting", NEW how \in {"issued", "refused", "failed"}
  PROVE  /\ [pc |-> how, format |-> txn[s].format] \in Shape
         /\ Released(s) \in [Counters -> Sales \cup {None}]
         /\ \A c \in Counters : Released(s)[c] = IF held[c] = s THEN None ELSE held[c]
         /\ DOMAIN held = Counters /\ DOMAIN counter = Counters
<1>1. txn[s] \in Taking
  BY Shapes DEF Inv, NumbersTypeOK, Shape
<1>2. [pc |-> how, format |-> txn[s].format] \in Ended
  BY <1>1 DEF Taking, Ended
<1>3. held \in [Counters -> Sales \cup {None}] /\ counter \in [Counters -> Nat]
  BY DEF Inv, NumbersTypeOK, Counters
<1> QED  BY <1>2, <1>3 DEF Released, Shape

LEMMA EndKeeps ==
  ASSUME Inv, NEW s \in Sales, txn[s].pc = "counting", NEW how \in {"refused", "failed"}, Ends(s, how),
         counter' = RolledBack(s), held' = Released(s), UNCHANGED <<issued, format, changes, thisMonth>>,
         rollbacks' \in 0 .. MaxRollbacks,
         how = "refused" => ~(\A f \in Formats : f.month => f.year)
  PROVE  Inv'
<1> DEFINE t == [pc |-> how, format |-> txn[s].format]
<1>1. txn' = [txn EXCEPT ![s] = t] /\ counter' = counter /\ t.pc = how
  BY DEF Ends, RolledBack
<1>2. /\ t \in Shape /\ held' \in [Counters -> Sales \cup {None}]
      /\ \A c \in Counters : held'[c] = IF held[c] = s THEN None ELSE held[c]
  BY EndShape
<1>3. t.pc # "counting"
  BY <1>1
<1> HIDE DEF t
<1>4. \A c \in Counters : held'[c] # s
  BY <1>2
<1>5. Keeps(t, s, held', counter)
  BY <1>3, <1>4, NothingKept
<1>6. \A c \in Counters : held'[c] # held[c] => held[c] \in {None, s} /\ held'[c] \in {None, s}
  BY <1>2
<1> QED  BY <1>1, <1>2, <1>5, <1>6, MovesKeep

LEMMA RollbackKeeps ==
  ASSUME Inv, NEW s \in Sales, Rollback(s)
  PROVE  Inv'
<1>1. rollbacks' \in 0 .. MaxRollbacks
  BY DEF Inv, NumbersTypeOK, Rollback
<1>2. /\ txn[s].pc = "counting" /\ Ends(s, "failed") /\ counter' = RolledBack(s)
      /\ held' = Released(s) /\ UNCHANGED <<issued, format, changes, thisMonth>>
  BY DEF Rollback
<1> QED  BY <1>1, <1>2, EndKeeps

(* The counters a sale holds go up by one, the others stay.                 *)
LEMMA IssueCounts ==
  ASSUME Inv, NEW s \in Sales, IssueNumbers(s), ~SameAsIssued(s)
  PROVE  /\ counter' \in [Counters -> Nat]
         /\ \A c \in Counters : counter'[c] = IF held[c] = s THEN counter[c] + 1 ELSE counter[c]
<1>1. held \in [Counters -> Sales \cup {None}] /\ counter \in [Counters -> Nat]
  BY DEF Inv, NumbersTypeOK, Counters
<1>2. counter' = [c \in DOMAIN counter |-> IF c \in Holds(s) THEN counter[c] + 1 ELSE counter[c]]
  BY DEF IssueNumbers
<1> QED  BY <1>1, <1>2 DEF Holds

LEMMA IssuedKeeps ==
  ASSUME Inv, NEW s \in Sales, IssueNumbers(s), ~SameAsIssued(s)
  PROVE  Inv'
<1> DEFINE t == [pc |-> "issued", format |-> txn[s].format]
<1>1. /\ txn[s].pc = "counting" /\ txn' = [txn EXCEPT ![s] = t] /\ held' = Released(s)
      /\ issued' = issued \cup NumbersOf(s) /\ UNCHANGED <<format, changes, thisMonth, rollbacks>>
  BY DEF IssueNumbers, Ends
<1>2. /\ t \in Shape /\ held' \in [Counters -> Sales \cup {None}]
      /\ \A c \in Counters : held'[c] = IF held[c] = s THEN None ELSE held[c]
  BY <1>1, EndShape
<1>3. t.pc = "issued"
  OBVIOUS
<1> HIDE DEF t
<1>4. /\ counter \in [Counters -> Nat] /\ counter' \in [Counters -> Nat]
      /\ \A c \in Counters : counter'[c] = IF held[c] = s THEN counter[c] + 1 ELSE counter[c]
  BY IssueCounts DEF Inv, NumbersTypeOK, Counters
<1>5. \A c \in Counters : counter[c] <= counter'[c]
  BY <1>4
<1>6. ASSUME NEW b \in NumbersOf(s)
      PROVE  /\ Genuine(b, counter') /\ b \in [kind : KindSet, counter : Counters, text : Text]
  <2>1. PICK i \in 1 .. Len(txn[s].taken) : b = Number(s, i)
    BY DEF NumbersOf
  <2> DEFINE f == txn[s].format
             m == txn[s].month
             c == CounterOf(s, i)
             n == counter[c] + 1
  <2>2. /\ i \in 1 .. Len(Kinds) /\ c \in Counters /\ held[c] = s /\ c = <<Kinds[i], Period(f, m)>>
        /\ f \in Formats /\ m \in 0 .. LastMonth
        /\ b = [kind |-> Kinds[i], counter |-> c, text |-> Printed(f, m, n)]
    BY <1>1, <2>1, NumberShape DEF From
  <2> HIDE DEF c, f, m
  <2>3. n \in Nat /\ n \in 1 .. counter'[c]
    BY <1>4, <2>2
  <2>4. Printed(f, m, n) \in Text /\ Kinds[i] \in KindSet
    BY <2>2, <2>3, PrintedShape, KindsDiffer
  <2> HIDE DEF n
  <2>5. Genuine(b, counter')
    BY <2>2, <2>3, <2>4 DEF Genuine
  <2> QED  BY <2>2, <2>4, <2>5
<1>7. NumbersTypeOK'
  <2>1. txn \in [Sales -> Shape]
    BY DEF Inv, NumbersTypeOK, Shape
  <2>2. txn' \in [Sales -> Shape]
    BY <1>1, <1>2, <2>1
  <2>3. issued' \subseteq [kind : KindSet, counter : Counters, text : Text]
    BY <1>1, <1>6 DEF Inv, NumbersTypeOK, Counters
  <2> QED  BY <1>1, <1>2, <1>4, <2>2, <2>3 DEF Inv, NumbersTypeOK, Shape, Counters
<1>8. ASSUME NEW q \in Sales
      PROVE  Keeps(txn'[q], q, held', counter')
  <2>1. txn \in [Sales -> Shape]
    BY DEF Inv, NumbersTypeOK, Shape
  <2>2. CASE q = s
    <3>1. txn'[q] = t
      BY <1>1, <2>1, <2>2
    <3>2. \A c \in Counters : held'[c] # q
      BY <1>2, <2>2
    <3> QED  BY <1>3, <3>1, <3>2, NothingKept
  <2>3. CASE q # s
    <3>1. txn'[q] = txn[q] /\ txn[q] \in Shape /\ Keeps(txn[q], q, held, counter)
      BY <1>1, <2>1, <2>3 DEF Inv
    <3>2. \A c \in Counters : held'[c] = q <=> held[c] = q
      BY <1>2, <2>3
    <3>3. \A c \in Counters : held[c] = q => counter'[c] = counter[c]
      BY <1>4, <2>3
    <3> QED  BY <3>1, <3>2, <3>3, OthersKeep
  <2> QED  BY <2>2, <2>3
<1>9. ASSUME NEW b \in issued'
      PROVE  Genuine(b, counter')
  <2>1. CASE b \in issued
    BY <1>4, <1>5, <2>1, StaysGenuine DEF Inv
  <2> QED  BY <1>1, <1>6, <2>1
<1>10. Complete(issued', counter')
  <2> SUFFICES ASSUME NEW c \in Counters, NEW n \in 1 .. counter'[c]
               PROVE  \E b \in issued' : b.counter = c /\ b.text.n = n
    BY DEF Complete
  <2>1. CASE n \in 1 .. counter[c]
    BY <1>1, <2>1 DEF Inv, Complete
  <2>2. CASE n \notin 1 .. counter[c]
    <3>1. held[c] = s /\ n = counter[c] + 1
      BY <1>4, <2>2
    <3>2. PICK i \in 1 .. Len(txn[s].taken) : c = From(txn[s], i)
      BY <3>1 DEF Inv, Keeps
    <3>3. /\ c = CounterOf(s, i)
          /\ txn[s].format \in Formats /\ txn[s].month \in 0 .. LastMonth
          /\ Number(s, i) = [kind |-> Kinds[i], counter |-> c,
                             text |-> Printed(txn[s].format, txn[s].month, counter[c] + 1)]
      BY <1>1, <3>2, NumberShape
    <3>4. Number(s, i).counter = c /\ Number(s, i).text.n = n
      BY <3>1, <3>3, PrintedShape
    <3>5. Number(s, i) \in issued'
      BY <1>1 DEF NumbersOf
    <3> QED  BY <3>4, <3>5
  <2> QED  BY <2>1, <2>2
<1>11. NoSaleRefused'
  BY <1>1, <1>3 DEF Inv, NumbersTypeOK, NoSaleRefused
<1> QED  BY <1>7, <1>8, <1>9, <1>10, <1>11 DEF Inv

LEMMA IssueKeeps ==
  ASSUME Inv, NEW s \in Sales, IssueNumbers(s)
  PROVE  Inv'
<1>1. CASE SameAsIssued(s)
  <2>1. txn[s].pc = "counting" /\ Ends(s, "refused") /\ counter' = RolledBack(s) /\ held' = Released(s)
    BY <1>1 DEF IssueNumbers
  <2>2. UNCHANGED <<issued, format, changes, thisMonth>> /\ rollbacks' \in 0 .. MaxRollbacks
    BY <1>1 DEF IssueNumbers, Inv, NumbersTypeOK
  <2>3. ~(\A f \in Formats : f.month => f.year)
    BY <1>1, <2>1, Unused
  <2> QED  BY <2>1, <2>2, <2>3, EndKeeps
<1> QED  BY <1>1, IssuedKeeps

LEMMA OthersMove ==
  ASSUME Inv, UNCHANGED <<counter, held, txn, issued, rollbacks>>,
         format' \in Formats, thisMonth' \in 0 .. LastMonth, changes' \in 0 .. MaxChanges
  PROVE  Inv'
BY DEF Inv, NumbersTypeOK, NoSaleRefused

LEMMA StepKeeps ==
  ASSUME Inv, [NumbersNext]_numbersVars
  PROVE  Inv'
<1>1. ASSUME NEW s \in Sales, Begin(s) \/ StartNumbers(s) \/ Allocate(s) \/ IssueNumbers(s) \/ Rollback(s)
      PROVE  Inv'
  BY <1>1, BeginKeeps, StartKeeps, AllocateKeeps, IssueKeeps, RollbackKeeps
<1>2. ASSUME NEW f \in Formats, ChangeFormat(f)
      PROVE  Inv'
  BY <1>2, OthersMove DEF ChangeFormat, Inv, NumbersTypeOK
<1>3. CASE NextMonth
  BY <1>3, OthersMove DEF NextMonth, Inv, NumbersTypeOK
<1>4. CASE UNCHANGED numbersVars
  BY <1>4, OthersMove DEF numbersVars, Inv, NumbersTypeOK
<1> QED  BY <1>1, <1>2, <1>3, <1>4 DEF NumbersNext

LEMMA InitKeeps == NumbersInit => Inv
<1> SUFFICES ASSUME NumbersInit
             PROVE  Inv
  OBVIOUS
<1>1. counter = [c \in Counters |-> 0] /\ held = [c \in Counters |-> None]
  BY DEF NumbersInit, Counters
<1>2. NumbersTypeOK
  BY <1>1 DEF NumbersInit, NumbersTypeOK, Counters
<1>3. ASSUME NEW s \in Sales
      PROVE  Keeps(txn[s], s, held, counter)
  <2>1. txn[s].pc # "counting"
    BY DEF NumbersInit
  <2>2. \A c \in Counters : held[c] # s
    BY <1>1
  <2> QED  BY <2>1, <2>2, NothingKept
<1>4. issued = {}
  BY DEF NumbersInit
<1>5. Complete(issued, counter)
  BY <1>1 DEF Complete
<1>6. NoSaleRefused
  BY DEF NumbersInit, NoSaleRefused
<1> QED  BY <1>2, <1>3, <1>4, <1>5, <1>6 DEF Inv

LEMMA Invariance == NumbersSpec => []Inv
BY InitKeeps, StepKeeps, PTL DEF NumbersSpec

-----------------------------------------------------------------------------
(* What is promised                                                         *)

(* The counters of a row's numbers are those it has counted.                *)
LEMMA GaplessByInv == Inv => NoGaps
<1> SUFFICES ASSUME Inv, NEW c \in DOMAIN counter
             PROVE  {a.text.n : a \in {b \in issued : b.counter = c}} = 1 .. counter[c]
  BY DEF NoGaps
<1>1. c \in Counters
  BY DEF Inv, NumbersTypeOK, Counters
<1>2. ASSUME NEW b \in issued, b.counter = c
      PROVE  b.text.n \in 1 .. counter[c]
  <2>1. PICK k \in KindSet, f \in Formats, m \in 0 .. LastMonth : \E n \in 1 .. counter[<<k, Period(f, m)>>] :
          b = [kind |-> k, counter |-> <<k, Period(f, m)>>, text |-> Printed(f, m, n)]
    BY DEF Inv, Genuine
  <2>2. PICK n \in 1 .. counter[<<k, Period(f, m)>>] :
          b = [kind |-> k, counter |-> <<k, Period(f, m)>>, text |-> Printed(f, m, n)]
    BY <2>1
  <2>3. c = <<k, Period(f, m)>> /\ n \in 1 .. counter[c]
    BY <1>2, <2>2
  <2>4. n \in Nat
    BY <1>1, <2>3 DEF Inv, NumbersTypeOK, Counters
  <2>5. b.text.n = n
    BY <2>2, <2>4, PrintedShape
  <2> QED  BY <2>3, <2>5
<1>3. ASSUME NEW n \in 1 .. counter[c]
      PROVE  \E b \in issued : b.counter = c /\ b.text.n = n
  BY <1>1 DEF Inv, Complete
<1> QED  BY <1>2, <1>3

(* Who waits has taken fewer kinds than whom it waits for.                  *)
LEMMA WaitsBehind ==
  ASSUME Inv, NEW s \in Sales, NEW t \in Sales, Waits(s, t)
  PROVE  /\ Len(txn[s].taken) \in Nat /\ Len(txn[t].taken) \in Nat
         /\ Len(txn[s].taken) < Len(txn[t].taken)
<1> DEFINE n == Len(txn[s].taken)
<1>1. txn[s].pc = "counting" /\ n < Len(Kinds) /\ held[Takes(s)] = t
  BY DEF Waits, IsTaking
<1>2. txn[s] \in Taking
  BY <1>1, Shapes DEF Inv, NumbersTypeOK, Shape
<1>3. n \in Nat /\ n + 1 \in 1 .. Len(Kinds)
  BY <1>1, KindsDiffer DEF Inv, Keeps
<1>4. Takes(s) = From(txn[s], n + 1) /\ Takes(s) \in Counters
  <2>1. Takes(s) = From(txn[s], n + 1)
    BY DEF Takes, CounterOf, From, NextKind
  <2> QED  BY <1>2, <1>3, <2>1, FromKnown
<1>5. txn[t].pc = "counting" /\ \E i \in 1 .. Len(txn[t].taken) : Takes(s) = From(txn[t], i)
  BY <1>1, <1>4 DEF Inv, Keeps
<1>6. PICK i \in 1 .. Len(txn[t].taken) : Takes(s) = From(txn[t], i)
  BY <1>5
<1>7. Len(txn[t].taken) \in 0 .. Len(Kinds)
  BY <1>5 DEF Inv, Keeps
<1>8. Kinds[n + 1] = Kinds[i]
  BY <1>4, <1>6 DEF From
<1>9. n + 1 = i
  BY <1>3, <1>7, <1>8, KindsDiffer
<1> QED  BY <1>3, <1>7, <1>9, KindsDiffer

(* Counters, sales and issued numbers keep their shape (documentNumbers.js).*)
THEOREM TypeCorrect == NumbersSpec => []NumbersTypeOK
<1>1. Inv => NumbersTypeOK
  BY DEF Inv
<1> QED  BY <1>1, Invariance, PTL

(* No sale is refused for its number where each printed month has its year, *)
(* none of a counter's numbers is missing, and no two sales wait for each   *)
(* other: allocateSaleNumbers inside issuePolicy, through rollbacks, changed*)
(* formats and the turn of months and years.                                *)
THEOREM NumbersHold == NumbersSpec => []NumbersServe
<1>1. Inv => NumbersServe
  <2> SUFFICES ASSUME Inv
               PROVE  NumbersServe
    OBVIOUS
  <2>1. NoSaleRefused
    BY DEF Inv
  <2>2. NoCircularWait
    <3> SUFFICES ASSUME NEW s \in Sales, NEW t \in Sales, Waits(s, t), Waits(t, s)
                 PROVE  FALSE
      BY DEF NoCircularWait
    <3> QED  BY WaitsBehind
  <2> QED  BY <2>1, <2>2, GaplessByInv DEF NumbersServe
<1> QED  BY <1>1, Invariance, PTL
=============================================================================
