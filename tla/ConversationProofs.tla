-------------------------- MODULE ConversationProofs --------------------------
(***************************************************************************)
(* Proofs about Conversation, for any flow, catalogue, operators, numbers, *)
(* requests and pool, however often messages are delivered again and steps *)
(* fail.                                                                   *)
(***************************************************************************)
EXTENDS Conversation, FiniteSetTheorems, SequenceTheorems, TLAPS

USE ConversationAssumption DEF FlowAssumption

Answerable == Steps \ {"payment_wait", "done"}

Working(w) == job[w].pc \notin {"idle", "locking"}
Acting(w) == Working(w) /\ job[w].pc # "locked"
HasRow(w) == Acting(w) /\ job[w].pc # "creating"

(* A request that works has its number; from then on nobody else acts on a  *)
(* conversation of that number, or on the message it carries.               *)
JobFits(w) ==
  /\ job[w].pc # "idle" => job[w].msg \in Messages
  /\ Working(w) => lock[Number(w)] = w
  /\ Acting(w) => job[w].msg \in archived
  /\ HasRow(w) => /\ job[w].sid \in 1 .. Len(sessions)
                  /\ sessions[job[w].sid].number = Number(w)
                  /\ job[w].seen \in SessionType
  /\ job[w].pc = "engine" =>
       \A f \in Columns \ {"status", "step", "tx"} : sessions[job[w].sid][f] = job[w].seen[f]
  /\ job[w].pc = "creating" => ActiveOf(Number(w)) = {}
  /\ job[w].pc \in {"creating", "engine"} =>
       \A i \in 1 .. Len(quotes) : quotes[i].by # job[w].msg
  /\ job[w].pc \in {"parking", "calling"} => TxOf(w) \in Key /\ pay[TxOf(w)].state # "none"

Creating == {w \in Handlers : job[w].pc = "creating"}

(* Payments and their notices are of conversations that exist; every        *)
(* conversation was opened by a message of its own.                         *)
TablesFit ==
  /\ \A i \in 1 .. Len(quotes) : quotes[i].by \in archived
  /\ OneQuotePerMessage
  /\ \A k \in Key : IF pay[k].state = "none" THEN pay[k] = NoRow ELSE k[1] \in 1 .. Len(sessions)
  /\ \A n \in notices : n.tx[1] \in 1 .. Len(sessions)
  /\ WaitingHasPayment
  /\ Len(sessions) + Cardinality(Creating) <= Cardinality(archived)

Inv == TypeOK /\ (\A w \in Handlers : JobFits(w)) /\ TablesFit

-----------------------------------------------------------------------------
(* Rows and questions                                                       *)

LEMMA RowFields ==
  ASSUME NEW r \in SessionType
  PROVE  /\ r.number \in Numbers /\ r.status \in Statuses /\ r.step \in Steps \cup {None}
         /\ r.hist \in Seq(Answerable) /\ r.retry \in Nat /\ r.case \in Nat
         /\ r.tx \in Key \cup {None} /\ r.known \in SUBSET Fields /\ r.trip \in Trips \cup {None}
         /\ r.plan \in Plans \cup {None} /\ r.premium \in Nat /\ r.options \in SUBSET Providers
         /\ r.provider \in Providers \cup {None} /\ r.phone \in Phones \cup {None}
         /\ r.editing \in BOOLEAN
BY DEF SessionType, Answerable

LEMMA NewRow ==
  ASSUME NEW n \in Numbers
  PROVE  /\ NewSession(n) \in SessionType /\ NewSession(n).number = n
         /\ NewSession(n).step = None /\ NewSession(n).status = "active"
BY EmptySeq DEF SessionType, NewSession, Columns, Collected, Blank, Statuses

LEMMA PatchedRow ==
  ASSUME NEW r \in SessionType, NEW new \in SessionType, NEW columns
  PROVE  /\ Patched(r, new, columns) \in SessionType
         /\ \A f \in Columns : Patched(r, new, columns)[f] = IF f \in columns THEN new[f] ELSE r[f]
BY DEF SessionType, Columns, Collected, Patched

LEMMA GotoRow ==
  ASSUME NEW r \in SessionType, NEW q \in Steps
  PROVE  /\ Goto(r, q) \in SessionType /\ Goto(r, q).step = q
         /\ \A f \in Columns \ {"step"} : Goto(r, q)[f] = r[f]
BY DEF SessionType, Goto, Columns, Collected

LEMMA StatusRow ==
  ASSUME NEW r \in SessionType, NEW st \in Statuses
  PROVE  /\ [r EXCEPT !.status = st] \in SessionType
         /\ [r EXCEPT !.status = st].status = st
         /\ \A f \in Columns \ {"status"} : [r EXCEPT !.status = st][f] = r[f]
BY DEF SessionType, Columns, Collected

LEMMA AnsweredRow ==
  ASSUME NEW r \in SessionType, r.step \in Answerable
  PROVE  /\ Answered(r) \in SessionType
         /\ \A f \in Columns \ {"hist", "retry"} : Answered(r)[f] = r[f]
<1>1. Append(r.hist, r.step) \in Seq(Answerable)
  BY RowFields, AppendProperties
<1> QED  BY <1>1 DEF SessionType, Answered, Columns, Collected, Answerable

LEMMA WithPlanRow ==
  ASSUME NEW r \in SessionType, NEW p \in Plans, r.trip # None
  PROVE  WithPlan(r, p) \in SessionType /\ WithPlan(r, p).step = r.step
         /\ WithPlan(r, p).editing = r.editing
<1>1. r.trip \in Trips
  BY RowFields
<1>2. Price[r.trip][p] \in Nat
  BY <1>1
<1> QED  BY <1>2 DEF SessionType, WithPlan

(* Asking a question gives a row, and never one that waits for a payment.   *)
LEMMA AskRow ==
  ASSUME NEW r \in SessionType, NEW q \in Steps \ {"payment_wait"}, NEW offer \in Offers \cup {{}}
  PROVE  Ask(r, q, offer) \in SessionType /\ Ask(r, q, offer).step # "payment_wait"
<1>1. CASE q = "plan"
  <2>1. AskPlan(r) \in SessionType /\ AskPlan(r).step # "payment_wait"
    <3>1. "plan" \in Steps /\ "review" \in Steps /\ "escalated" \in Statuses
      BY DEF Steps, Selling, Statuses
    <3>2. CASE Priced(r.trip) = {}
      <4>1. AskPlan(r) = [Goto(r, "plan") EXCEPT !.status = "escalated"]
        BY <3>2, FS_EmptySet DEF AskPlan
      <4>2. [Goto(r, "plan") EXCEPT !.status = "escalated"].step = Goto(r, "plan").step
        BY <3>1, GotoRow, StatusRow DEF SessionType
      <4> QED  BY <3>1, <4>1, <4>2, GotoRow, StatusRow
    <3>3. CASE Priced(r.trip) # {} /\ Cardinality(Priced(r.trip)) = 1
      <4> DEFINE p == CHOOSE x \in Plans : x \in Priced(r.trip)
      <4>1. r.trip # None /\ \E x \in Plans : x \in Priced(r.trip)
        BY <3>3 DEF Priced
      <4>2. p \in Plans
        BY <4>1
      <4>3. AskPlan(r) = Goto(WithPlan(r, p), "review")
        BY <3>3 DEF AskPlan
      <4> HIDE DEF p
      <4> QED  BY <3>1, <4>1, <4>2, <4>3, WithPlanRow, GotoRow
    <3>4. CASE Priced(r.trip) # {} /\ Cardinality(Priced(r.trip)) # 1
      BY <3>1, <3>4, GotoRow DEF AskPlan
    <3> QED  BY <3>2, <3>3, <3>4
  <2> QED  BY <1>1, <2>1 DEF Ask
<1>2. CASE q = "payment_provider"
  <2>1. AskProvider(r, offer) \in SessionType /\ AskProvider(r, offer).step # "payment_wait"
    <3>1. /\ "done" \in Steps /\ "payment_provider" \in Steps /\ "payment_phone" \in Steps
          /\ "completed" \in Statuses
      BY DEF Steps, Selling, Statuses
    <3>2. CASE offer = {}
      <4>1. AskProvider(r, offer) = [Goto(r, "done") EXCEPT !.status = "completed"]
        BY <3>2, FS_EmptySet DEF AskProvider
      <4>2. [Goto(r, "done") EXCEPT !.status = "completed"].step = Goto(r, "done").step
        BY <3>1, GotoRow, StatusRow DEF SessionType
      <4>3. Goto(r, "done") \in SessionType /\ Goto(r, "done").step = "done"
        BY <3>1, GotoRow
      <4>4. [Goto(r, "done") EXCEPT !.status = "completed"] \in SessionType
        BY <3>1, <4>3, StatusRow
      <4> QED  BY <4>1, <4>2, <4>3, <4>4
    <3>3. CASE offer # {} /\ Cardinality(offer) = 1
      <4> DEFINE p == CHOOSE x \in offer : TRUE
                 s == [r EXCEPT !.options = offer, !.provider = p]
      <4>1. p \in offer /\ offer \in SUBSET Providers
        BY <3>3
      <4>2. p \in Providers
        BY <4>1
      <4>3. AskProvider(r, offer) = Goto(s, "payment_phone")
        BY <3>3 DEF AskProvider
      <4> HIDE DEF p
      <4>4. s \in SessionType
        BY <4>1, <4>2 DEF SessionType
      <4> HIDE DEF s
      <4>5. Goto(s, "payment_phone") \in SessionType /\ Goto(s, "payment_phone").step = "payment_phone"
        BY <3>1, <4>4, GotoRow
      <4> QED  BY <4>3, <4>5
    <3>4. CASE offer # {} /\ Cardinality(offer) # 1
      <4> DEFINE s == [r EXCEPT !.options = offer]
      <4>1. s \in SessionType
        BY DEF SessionType
      <4>2. AskProvider(r, offer) = Goto(s, "payment_provider")
        BY <3>4 DEF AskProvider
      <4> HIDE DEF s
      <4>3. Goto(s, "payment_provider") \in SessionType /\ Goto(s, "payment_provider").step = "payment_provider"
        BY <3>1, <4>1, GotoRow
      <4> QED  BY <4>2, <4>3
    <3> QED  BY <3>2, <3>3, <3>4
  <2> QED  BY <1>2, <2>1 DEF Ask
<1>3. CASE q = "done"
  <2>1. Ask(r, q, offer) = [Goto(r, "done") EXCEPT !.status = "completed"]
    BY <1>3 DEF Ask
  <2>2. "done" \in Steps /\ "completed" \in Statuses
    BY DEF Steps, Selling, Statuses
  <2>3. [Goto(r, "done") EXCEPT !.status = "completed"].step = Goto(r, "done").step
    BY <2>2, GotoRow, StatusRow DEF SessionType
  <2> QED  BY <2>1, <2>2, <2>3, GotoRow, StatusRow
<1>4. CASE q \notin {"plan", "payment_provider", "done"}
  BY <1>4, GotoRow DEF Ask
<1> QED  BY <1>1, <1>2, <1>3, <1>4

LEMMA LeadRow ==
  ASSUME NEW r \in SessionType, NEW q \in Steps \ {"payment_wait"}, NEW offer \in Offers \cup {{}}
  PROVE  Lead(r, q, offer) \in SessionType /\ Lead(r, q, offer).step # "payment_wait"
<1>1. CASE r.editing
  <2>1. [r EXCEPT !.editing = FALSE] \in SessionType
    BY DEF SessionType
  <2>2. "review" \in Steps
    BY DEF Steps, Selling
  <2> QED  BY <1>1, <2>1, <2>2, GotoRow DEF Lead
<1>2. CASE ~r.editing
  BY <1>2, AskRow DEF Lead
<1> QED  BY <1>1, <1>2

LEMMA NextQuestion ==
  ASSUME NEW q \in Questions, NEW known
  PROVE  NextStep(q, known) \in Steps \ {"payment_wait"}
<1>1. CASE q \in DOMAIN StoredNext
  BY <1>1 DEF NextStep, Steps, Selling, Questions
<1>2. CASE q \notin DOMAIN StoredNext
  BY <1>2 DEF NextStep, PassportNext, Steps, Selling, Questions
<1> QED  BY <1>1, <1>2

LEMMA StoresKnown ==
  ASSUME NEW q \in Questions, NEW a \in Answers(q)
  PROVE  a.gives \in SUBSET Fields
<1>1. Stores[q] \subseteq Fields
  BY DEF Fields
<1>2. CASE q = "identity"
  BY <1>1, <1>2 DEF Answers
<1>3. CASE q = "destination_dates"
  <2>1. "destination" \in Stores[q]
    BY <1>3 DEF Stores, Questions
  <2> QED  BY <1>1, <1>3, <2>1 DEF Answers
<1>4. CASE q \notin {"identity", "destination_dates"}
  BY <1>1, <1>4 DEF Answers
<1> QED  BY <1>2, <1>3, <1>4

-----------------------------------------------------------------------------
(* Steps of others                                                          *)

JobShape ==
  [pc : JobPCs, msg : Messages \cup {None}, sid : Nat, seen : SessionType \cup {None}, quote : Nat]

LEMMA IdleShape == Idle \in JobShape /\ Idle.pc = "idle"
BY DEF Idle, JobShape, JobPCs

LEMMA SessionsTyped ==
  ASSUME TypeOK
  PROVE  /\ sessions \in Seq(SessionType) /\ Len(sessions) \in Nat
         /\ \A s \in 1 .. Len(sessions) : sessions[s] \in SessionType
         /\ job \in [Handlers -> JobShape] /\ lock \in [Numbers -> Handlers \cup {Nobody}]
         /\ quotes \in Seq([session : Nat, price : Nat \ {0}, by : Messages]) /\ Len(quotes) \in Nat
<1>1. sessions \in Seq(SessionType) /\ quotes \in Seq([session : Nat, price : Nat \ {0}, by : Messages])
  BY DEF TypeOK
<1>2. Len(sessions) \in Nat /\ Len(quotes) \in Nat
  BY <1>1, LenProperties
<1>3. \A s \in 1 .. Len(sessions) : sessions[s] \in SessionType
  BY <1>1, ElementOfSeq
<1> QED  BY <1>1, <1>2, <1>3 DEF TypeOK, JobShape

LEMMA HasNumber ==
  ASSUME Inv, NEW w \in Handlers, job[w].pc # "idle"
  PROVE  job[w].msg \in Messages /\ Number(w) \in Numbers
BY DEF Inv, JobFits, Messages, Number

(* A step that leaves the conversations of a number as they are, but for    *)
(* their step, and for those it ends.                                       *)
Quiet(n) ==
  /\ \A s \in 1 .. Len(sessions) : s \in 1 .. Len(sessions') /\ sessions'[s].number = sessions[s].number
  /\ \A s \in 1 .. Len(sessions') : sessions'[s].number = n =>
       /\ s \in 1 .. Len(sessions)
       /\ sessions'[s].status = "active" => sessions[s].status = "active"
       /\ \A f \in Columns \ {"status", "step"} : sessions'[s][f] = sessions[s][f]

LEMMA NothingIsQuiet ==
  ASSUME sessions' = sessions, NEW n
  PROVE  Quiet(n)
BY DEF Quiet

(* Who takes no part in a step goes on as it was.                           *)
LEMMA Bystander ==
  ASSUME Inv, NEW q \in Handlers, job'[q] = job[q],
         Working(q) => lock'[Number(q)] = q /\ Quiet(Number(q)),
         archived \subseteq archived',
         \A k \in Key : pay[k].state # "none" => pay'[k].state # "none",
         \A i \in 1 .. Len(quotes') : \/ i \in 1 .. Len(quotes) /\ quotes'[i] = quotes[i]
                                      \/ Acting(q) => quotes'[i].by # job[q].msg
  PROVE  JobFits(q)'
<1>1. JobFits(q)
  BY DEF Inv
<1>2. job'[q].pc # "idle" => job'[q].msg \in Messages
  BY <1>1 DEF JobFits
<1>3. Working(q)' => lock'[Number(q)'] = q
  BY DEF Working, Number
<1>4. Acting(q)' => job'[q].msg \in archived'
  BY <1>1 DEF JobFits, Acting, Working
<1>5. Working(q) => Quiet(Number(q))
  OBVIOUS
<1>6. HasRow(q)' =>
        /\ job'[q].sid \in 1 .. Len(sessions')
        /\ sessions'[job'[q].sid].number = Number(q)'
        /\ job'[q].seen \in SessionType
  BY <1>1, <1>5 DEF JobFits, HasRow, Acting, Working, Number, Quiet
<1>7. job'[q].pc = "engine" =>
        \A f \in Columns \ {"status", "step", "tx"} : sessions'[job'[q].sid][f] = job'[q].seen[f]
  <2> SUFFICES ASSUME job[q].pc = "engine", NEW f \in Columns \ {"status", "step", "tx"}
               PROVE  sessions'[job[q].sid][f] = job[q].seen[f]
    OBVIOUS
  <2>1. HasRow(q) /\ Working(q)
    BY DEF HasRow, Acting, Working
  <2>2. /\ job[q].sid \in 1 .. Len(sessions) /\ sessions[job[q].sid].number = Number(q)
        /\ sessions[job[q].sid][f] = job[q].seen[f]
    BY <1>1, <2>1 DEF JobFits
  <2>3. job[q].sid \in 1 .. Len(sessions') /\ sessions'[job[q].sid].number = Number(q)
    BY <1>5, <2>1, <2>2 DEF Quiet
  <2> QED  BY <1>5, <2>1, <2>2, <2>3 DEF Quiet
<1>8. job'[q].pc = "creating" => ActiveOf(Number(q))' = {}
  <2> SUFFICES ASSUME job[q].pc = "creating", NEW s \in 1 .. Len(sessions'),
                      sessions'[s].number = Number(q), sessions'[s].status = "active"
               PROVE  FALSE
    BY DEF ActiveOf, Active, Number
  <2>1. Working(q)
    BY DEF Working
  <2>2. s \in 1 .. Len(sessions) /\ sessions[s].status = "active" /\ sessions[s].number = Number(q)
    BY <1>5, <2>1 DEF Quiet
  <2> QED  BY <1>1, <2>2 DEF JobFits, ActiveOf, Active
<1>9. job'[q].pc \in {"creating", "engine"} =>
        \A i \in 1 .. Len(quotes') : quotes'[i].by # job'[q].msg
  BY <1>1 DEF JobFits, Acting, Working
<1>10. job'[q].pc \in {"parking", "calling"} => TxOf(q)' \in Key /\ pay'[TxOf(q)'].state # "none"
  BY <1>1 DEF JobFits, TxOf
<1> QED  BY <1>2, <1>3, <1>4, <1>6, <1>7, <1>8, <1>9, <1>10 DEF JobFits, Working, Acting, HasRow

(* A step of one request under its lock, or that takes a lock that is free. *)
LEMMA WorkerKeeps ==
  ASSUME Inv, TypeOK', TablesFit', NEW w \in Handlers, JobFits(w)',
         \A q \in Handlers \ {w} : job'[q] = job[q],
         \A n \in Numbers : lock[n] \notin {w, Nobody} => lock'[n] = lock[n] /\ Quiet(n),
         archived \subseteq archived',
         \A k \in Key : pay[k].state # "none" => pay'[k].state # "none",
         \A i \in 1 .. Len(quotes') : \/ i \in 1 .. Len(quotes) /\ quotes'[i] = quotes[i]
                                      \/ Working(w) /\ quotes'[i].by = job[w].msg
  PROVE  Inv'
<1>1. ASSUME NEW q \in Handlers \ {w}
      PROVE  JobFits(q)'
  <2>1. JobFits(q) /\ JobFits(w) /\ Nobody \notin Handlers
    BY DEF Inv
  <2>2. Working(q) => Number(q) \in Numbers /\ lock[Number(q)] = q
    BY <2>1, HasNumber DEF JobFits, Working
  <2>3. Working(q) => lock'[Number(q)] = q /\ Quiet(Number(q))
    BY <2>1, <2>2
  <2>4. Working(w) /\ Acting(q) => job[w].msg # job[q].msg
    BY <2>1 DEF JobFits, Acting, Number
  <2>5. \A i \in 1 .. Len(quotes') : \/ i \in 1 .. Len(quotes) /\ quotes'[i] = quotes[i]
                                     \/ Acting(q) => quotes'[i].by # job[q].msg
    BY <2>4
  <2>6. job'[q] = job[q] /\ q \in Handlers
    OBVIOUS
  <2> QED  BY <2>3, <2>5, <2>6, Bystander
<1> QED  BY <1>1 DEF Inv

LEMMA Counted ==
  ASSUME TypeOK
  PROVE  /\ IsFiniteSet(Messages) /\ IsFiniteSet(archived) /\ IsFiniteSet(Creating)
         /\ Cardinality(archived) \in Nat /\ Cardinality(Creating) \in Nat /\ Cardinality(Messages) \in Nat
         /\ Cardinality(archived) <= Cardinality(Messages)
<1>1. IsFiniteSet(1 .. MaxMessages)
  BY FS_Interval
<1>2. IsFiniteSet(Messages)
  BY <1>1, FS_Product DEF Messages
<1>3. archived \subseteq Messages /\ Creating \subseteq Handlers
  BY DEF TypeOK, Creating
<1> QED  BY <1>2, <1>3, FS_Subset, FS_CardinalityType

(* A step that opens no conversation and makes no quote.                    *)
LEMMA TablesLater ==
  ASSUME Inv, TypeOK', archived \subseteq archived', quotes' = quotes,
         \A n \in notices' : n.tx[1] \in 1 .. Len(sessions),
         \A k \in Key : pay[k].state # "none" => pay'[k].state # "none",
         \A k \in Key : pay'[k].state # "none" => pay[k].state # "none" \/ k[1] \in 1 .. Len(sessions),
         \A k \in Key : pay'[k].state = "none" => pay'[k] = NoRow,
         Len(sessions') = Len(sessions),
         \A s \in 1 .. Len(sessions) : sessions'[s].step = "payment_wait" =>
           \/ sessions[s].step = "payment_wait" /\ sessions'[s].tx = sessions[s].tx
           \/ sessions'[s].tx \in Key /\ sessions'[s].tx[1] = s /\ pay'[sessions'[s].tx].state # "none",
         \A v \in Handlers : job'[v].pc = "creating" => job[v].pc = "creating"
  PROVE  TablesFit'
<1>1. TablesFit
  BY DEF Inv
<1>2. \A i \in 1 .. Len(quotes') : quotes'[i].by \in archived'
  BY <1>1 DEF TablesFit
<1>3. OneQuotePerMessage'
  BY <1>1 DEF TablesFit, OneQuotePerMessage
<1>4. \A k \in Key : IF pay'[k].state = "none" THEN pay'[k] = NoRow ELSE k[1] \in 1 .. Len(sessions')
  BY <1>1 DEF TablesFit
<1>5. \A n \in notices' : n.tx[1] \in 1 .. Len(sessions')
  OBVIOUS
<1>6. WaitingHasPayment'
  <2> SUFFICES ASSUME NEW s \in 1 .. Len(sessions), sessions'[s].step = "payment_wait"
               PROVE  /\ sessions'[s].tx \in Key /\ sessions'[s].tx[1] = s
                      /\ pay'[sessions'[s].tx].state # "none"
    BY DEF WaitingHasPayment
  <2>1. CASE sessions[s].step = "payment_wait" /\ sessions'[s].tx = sessions[s].tx
    <3>1. sessions[s].tx \in Key /\ sessions[s].tx[1] = s /\ pay[sessions[s].tx].state # "none"
      BY <1>1, <2>1 DEF TablesFit, WaitingHasPayment
    <3> QED  BY <2>1, <3>1
  <2> QED  BY <2>1
<1>7. Len(sessions') + Cardinality(Creating') <= Cardinality(archived')
  <2>1. Creating' \subseteq Creating
    BY DEF Creating
  <2>2. /\ IsFiniteSet(Creating) /\ Cardinality(Creating) \in Nat /\ Cardinality(archived) \in Nat
    BY Counted DEF Inv
  <2>3. /\ IsFiniteSet(archived') /\ Cardinality(archived') \in Nat
    <3>1. archived' \subseteq Messages /\ IsFiniteSet(Messages)
      BY Counted DEF TypeOK, Inv
    <3> QED  BY <3>1, FS_Subset, FS_CardinalityType
  <2>4. Cardinality(Creating') <= Cardinality(Creating) /\ Cardinality(Creating') \in Nat
    BY <2>1, <2>2, FS_Subset, FS_CardinalityType
  <2>5. Cardinality(archived) <= Cardinality(archived')
    BY <2>3, FS_Subset
  <2>6. Len(sessions) + Cardinality(Creating) <= Cardinality(archived)
    BY <1>1 DEF TablesFit
  <2>7. Len(sessions) \in Nat
    BY SessionsTyped DEF Inv
  <2> QED  BY <2>2, <2>3, <2>4, <2>5, <2>6, <2>7
<1> QED  BY <1>2, <1>3, <1>4, <1>5, <1>6, <1>7 DEF TablesFit

-----------------------------------------------------------------------------
(* What ends a request, and what it writes                                  *)

LEMMA Released ==
  ASSUME TypeOK, NEW w \in Handlers, Release(w)
  PROVE  /\ job' \in [Handlers -> JobShape] /\ job'[w] = Idle
         /\ \A q \in Handlers \ {w} : job'[q] = job[q]
         /\ lock' \in [Numbers -> Handlers \cup {Nobody}]
         /\ \A n \in Numbers : lock[n] # w => lock'[n] = lock[n]
         /\ \A v \in Handlers : job'[v].pc = "creating" => job[v].pc = "creating"
BY SessionsTyped, IdleShape DEF Release

LEMMA IdleFits ==
  ASSUME NEW w \in Handlers, job'[w] = Idle
  PROVE  JobFits(w)'
<1>1. job'[w].pc = "idle"
  BY IdleShape
<1> QED  BY <1>1 DEF JobFits, Working, Acting, HasRow

(* A request that ends without a word to its conversation.                  *)
LEMMA EndKeeps ==
  ASSUME Inv, NEW w \in Handlers, Release(w), archived' = archived,
         UNCHANGED <<sessions, received, repeats, quotes, pay, notices>>, faults' \in 0 .. MaxFaults
  PROVE  Inv'
<1>1. TypeOK
  BY DEF Inv
<1>2. /\ job' \in [Handlers -> JobShape] /\ job'[w] = Idle
      /\ \A q \in Handlers \ {w} : job'[q] = job[q]
      /\ lock' \in [Numbers -> Handlers \cup {Nobody}]
      /\ \A n \in Numbers : lock[n] # w => lock'[n] = lock[n]
      /\ \A v \in Handlers : job'[v].pc = "creating" => job[v].pc = "creating"
  BY <1>1, Released
<1>3. TypeOK'
  BY <1>1, <1>2 DEF TypeOK, JobShape
<1>4. TablesFit'
  BY <1>2, <1>3, TablesLater DEF Inv, TablesFit
<1>5. JobFits(w)'
  BY <1>2, IdleFits
<1>6. \A n \in Numbers : lock[n] \notin {w, Nobody} => lock'[n] = lock[n] /\ Quiet(n)
  BY <1>2, NothingIsQuiet
<1> QED  BY <1>2, <1>3, <1>4, <1>5, <1>6, WorkerKeeps

(* A reply writes columns of its own row.                                   *)
LEMMA ReplyKeeps ==
  ASSUME Inv, NEW w \in Handlers, HasRow(w), NEW new \in SessionType, NEW columns,
         Reply(w, new, columns), "number" \notin columns,
         "step" \in columns /\ new.step = "payment_wait" => "tx" \in columns,
         "tx" \in columns => new.tx \in Key /\ new.tx[1] = job[w].sid /\ pay[new.tx].state # "none",
         UNCHANGED <<received, repeats, archived, quotes, notices>>,
         pay' \in [Key -> [state : {"none", "open", "ended"}, case : Nat, amount : Nat]],
         \A k \in Key : pay'[k].state # "none" <=> pay[k].state # "none",
         \A k \in Key : pay'[k].state = "none" => pay'[k] = NoRow,
         faults' \in 0 .. MaxFaults
  PROVE  Inv'
<1> DEFINE sid == job[w].sid
           written == columns \cup (IF new.status # job[w].seen.status THEN {"status"} ELSE {})
           row == Patched(sessions[sid], new, written)
<1>1. TypeOK /\ JobFits(w) /\ sessions \in Seq(SessionType)
  BY SessionsTyped DEF Inv
<1>2. sid \in 1 .. Len(sessions) /\ sessions[sid].number = Number(w) /\ sessions[sid] \in SessionType
  BY <1>1, SessionsTyped DEF JobFits
<1>3. sessions' = [sessions EXCEPT ![sid] = row] /\ Release(w)
  BY DEF Reply
<1>4. \A f \in {"number", "step", "tx", "status"} : f \in Columns
  BY DEF Columns
<1>5. /\ row \in SessionType
      /\ \A f \in Columns : row[f] = IF f \in written THEN new[f] ELSE sessions[sid][f]
  BY <1>2, PatchedRow
<1>6. "number" \notin written /\ ("tx" \in written <=> "tx" \in columns)
      /\ ("step" \in written <=> "step" \in columns)
  OBVIOUS
<1>7. /\ row["number"] = Number(w)
      /\ row["step"] = IF "step" \in columns THEN new["step"] ELSE sessions[sid]["step"]
      /\ row["tx"] = IF "tx" \in columns THEN new["tx"] ELSE sessions[sid]["tx"]
  BY <1>2, <1>4, <1>5, <1>6
<1> HIDE DEF row, written
<1>8. /\ sessions' \in Seq(SessionType) /\ Len(sessions') = Len(sessions) /\ sessions'[sid] = row
      /\ \A s \in 1 .. Len(sessions) : s # sid => sessions'[s] = sessions[s]
  BY <1>1, <1>2, <1>3, <1>5, ExceptSeq
<1>9. /\ job' \in [Handlers -> JobShape] /\ job'[w] = Idle
      /\ \A q \in Handlers \ {w} : job'[q] = job[q]
      /\ lock' \in [Numbers -> Handlers \cup {Nobody}]
      /\ \A n \in Numbers : lock[n] # w => lock'[n] = lock[n]
      /\ \A v \in Handlers : job'[v].pc = "creating" => job[v].pc = "creating"
  BY <1>1, <1>3, Released
<1>10. TypeOK'
  BY <1>1, <1>8, <1>9 DEF TypeOK, JobShape
<1>11. \A s \in 1 .. Len(sessions) : sessions'[s].step = "payment_wait" =>
         \/ sessions[s].step = "payment_wait" /\ sessions'[s].tx = sessions[s].tx
         \/ sessions'[s].tx \in Key /\ sessions'[s].tx[1] = s /\ pay'[sessions'[s].tx].state # "none"
  <2> SUFFICES ASSUME NEW s \in 1 .. Len(sessions), sessions'[s].step = "payment_wait"
               PROVE  \/ sessions[s].step = "payment_wait" /\ sessions'[s].tx = sessions[s].tx
                      \/ sessions'[s].tx \in Key /\ sessions'[s].tx[1] = s
                         /\ pay'[sessions'[s].tx].state # "none"
    OBVIOUS
  <2>1. CASE s # sid
    BY <1>8, <2>1
  <2>2. CASE s = sid /\ "tx" \in columns
    <3>1. sessions'[s].tx = new.tx
      BY <1>7, <1>8, <2>2
    <3> QED  BY <2>2, <3>1
  <2>3. CASE s = sid /\ "tx" \notin columns
    BY <1>7, <1>8, <2>3
  <2> QED  BY <2>1, <2>2, <2>3
<1>12. TablesFit'
  <2>1. \A n \in notices' : n.tx[1] \in 1 .. Len(sessions)
    BY DEF Inv, TablesFit
  <2> QED  BY <1>8, <1>9, <1>10, <1>11, <2>1, TablesLater
<1>13. JobFits(w)'
  BY <1>9, IdleFits
<1>14. \A n \in Numbers : lock[n] \notin {w, Nobody} => lock'[n] = lock[n] /\ Quiet(n)
  <2> SUFFICES ASSUME NEW n \in Numbers, lock[n] \notin {w, Nobody}
               PROVE  Quiet(n)
    BY <1>9
  <2>1. Number(w) # n
    BY <1>1 DEF JobFits, HasRow, Acting
  <2>2. \A s \in 1 .. Len(sessions) : sessions'[s].number = sessions[s].number
    BY <1>2, <1>7, <1>8
  <2>3. \A s \in 1 .. Len(sessions') : sessions'[s].number = n => s # sid
    BY <1>2, <1>7, <1>8, <2>1
  <2> QED  BY <1>8, <2>2, <2>3 DEF Quiet
<1> QED  BY <1>9, <1>10, <1>12, <1>13, <1>14, WorkerKeeps

-----------------------------------------------------------------------------
(* The engine's replies                                                     *)

LEMMA FaultsCounted ==
  ASSUME Inv, Fault \/ NoFault
  PROVE  faults' \in 0 .. MaxFaults
BY DEF Inv, TypeOK, Fault, NoFault

LEMMA RowRead ==
  ASSUME Inv, NEW w \in Handlers, HasRow(w)
  PROVE  job[w].seen \in SessionType /\ job[w].sid \in 1 .. Len(sessions)
BY DEF Inv, JobFits

LEMMA EngineReads ==
  ASSUME Inv, NEW w \in Handlers, Engine(w)
  PROVE  HasRow(w) /\ job[w].seen \in SessionType /\ job[w].pc = "engine" /\ faults' \in 0 .. MaxFaults
<1>1. job[w].pc = "engine" /\ HasRow(w)
  BY DEF Engine, At, HasRow, Acting, Working
<1> QED  BY <1>1, RowRead, FaultsCounted DEF Engine

(* A reply that is no word on a payment.                                    *)
LEMMA SaysKeep ==
  ASSUME Inv, NEW w \in Handlers, HasRow(w), NEW new \in SessionType, NEW columns,
         Reply(w, new, columns), "number" \notin columns, "tx" \notin columns,
         "step" \in columns => new.step # "payment_wait",
         UNCHANGED tables, faults' \in 0 .. MaxFaults
  PROVE  Inv'
<1>1. UNCHANGED <<received, repeats, archived, quotes, notices>> /\ pay' = pay
  BY DEF tables
<1>2. /\ pay' \in [Key -> [state : {"none", "open", "ended"}, case : Nat, amount : Nat]]
      /\ \A k \in Key : pay'[k].state = "none" => pay'[k] = NoRow
  BY <1>1 DEF Inv, TypeOK, TablesFit
<1> QED  BY <1>1, <1>2, ReplyKeeps

LEMMA Patches ==
  /\ "number" \notin Moved /\ "tx" \notin Moved /\ "status" \notin Moved /\ "case" \notin Moved
  /\ "number" \notin Collected /\ "tx" \notin Collected /\ "step" \notin Collected
BY DEF Moved, Collected

LEMMA QuestionsAsk ==
  ASSUME NEW q \in Questions
  PROVE  q \in Steps /\ q # "payment_wait" /\ q \in Answerable
<1>1. q # "payment_wait" /\ q # "done"
  BY DEF Questions
<1>2. q \in Steps
  BY DEF Steps
<1> QED  BY <1>1, <1>2 DEF Answerable

LEMMA TalkKeeps ==
  ASSUME Inv, NEW w \in Handlers, Talk(w)
  PROVE  Inv'
<1>1. faults' \in 0 .. MaxFaults
  BY EngineReads DEF Talk
<1> QED  BY <1>1, EndKeeps DEF Talk, tables

LEMMA FirstContactKeeps ==
  ASSUME Inv, NEW w \in Handlers, FirstContact(w)
  PROVE  Inv'
<1> DEFINE new == Goto(job[w].seen, StartStep)
<1>1. Engine(w) /\ Reply(w, new, {"step"}) /\ UNCHANGED tables
  BY DEF FirstContact, In
<1>2. HasRow(w) /\ job[w].seen \in SessionType /\ faults' \in 0 .. MaxFaults
  BY <1>1, EngineReads
<1>3. StartStep \in Steps /\ StartStep # "payment_wait"
  BY QuestionsAsk
<1>4. new \in SessionType /\ new.step # "payment_wait"
  BY <1>2, <1>3, GotoRow
<1> HIDE DEF new
<1> QED  BY <1>1, <1>2, <1>4, SaysKeep

LEMMA RestartKeeps ==
  ASSUME Inv, NEW w \in Handlers, Restart(w)
  PROVE  Inv'
<1> DEFINE r == job[w].seen
           fresh == [f \in Columns |-> IF f \in {"number", "tx"} THEN r[f] ELSE NewSession(r.number)[f]]
           new == Goto(fresh, StartStep)
<1>1. Engine(w) /\ Reply(w, new, Moved \cup {"status", "case"}) /\ UNCHANGED tables
  BY DEF Restart
<1>2. HasRow(w) /\ r \in SessionType /\ faults' \in 0 .. MaxFaults
  BY <1>1, EngineReads
<1>3. StartStep \in Steps /\ StartStep # "payment_wait"
  BY QuestionsAsk
<1>4. NewSession(r.number) \in SessionType
  BY <1>2, RowFields, NewRow
<1>5. fresh \in SessionType
  BY <1>2, <1>4 DEF SessionType, Columns, Collected
<1> HIDE DEF fresh
<1>6. new \in SessionType /\ new.step # "payment_wait"
  BY <1>3, <1>5, GotoRow
<1> HIDE DEF new
<1> QED  BY <1>1, <1>2, <1>6, Patches, SaysKeep

LEMMA BackKeeps ==
  ASSUME Inv, NEW w \in Handlers, Back(w)
  PROVE  Inv'
<1> DEFINE r == job[w].seen
           q == r.hist[Len(r.hist)]
           before == [r EXCEPT !.hist = SubSeq(@, 1, Len(@) - 1), !.retry = 0]
           columns == {"step", "hist", "retry"}
                        \cup IF q \in {"plan", "payment_provider"} THEN Collected ELSE {}
<1>1. Engine(w) /\ r.hist # <<>> /\ UNCHANGED tables
  BY DEF Back
<1>2. PICK offer \in Offers : Reply(w, Ask(before, q, offer), columns)
  BY DEF Back
<1>3. HasRow(w) /\ r \in SessionType /\ faults' \in 0 .. MaxFaults
  BY <1>1, EngineReads
<1>4. r.hist \in Seq(Answerable) /\ Len(r.hist) \in Nat /\ Len(r.hist) >= 1
  BY <1>1, <1>3, RowFields, EmptySeq
<1>5. q \in Answerable
  BY <1>4, ElementOfSeq
<1>6. SubSeq(r.hist, 1, Len(r.hist) - 1) \in Seq(Answerable)
  BY <1>4, ElementOfSeq, SubSeqProperties
<1>7. before \in SessionType
  BY <1>3, <1>6 DEF SessionType, Answerable
<1> HIDE DEF before
<1>8. Ask(before, q, offer) \in SessionType /\ Ask(before, q, offer).step # "payment_wait"
  BY <1>5, <1>7, AskRow DEF Answerable
<1>9. "number" \notin columns /\ "tx" \notin columns
  BY Patches
<1> HIDE DEF q, columns
<1> QED  BY <1>1, <1>2, <1>3, <1>8, <1>9, SaysKeep

LEMMA CancelKeeps ==
  ASSUME Inv, NEW w \in Handlers, Cancel(w)
  PROVE  Inv'
<1> DEFINE new == [job[w].seen EXCEPT !.status = "cancelled"]
<1>1. Engine(w) /\ Reply(w, new, {"status"}) /\ UNCHANGED tables
  BY DEF Cancel
<1>2. HasRow(w) /\ job[w].seen \in SessionType /\ faults' \in 0 .. MaxFaults
  BY <1>1, EngineReads
<1>3. new \in SessionType
  BY <1>2, StatusRow DEF Statuses
<1> HIDE DEF new
<1> QED  BY <1>1, <1>2, <1>3, SaysKeep

LEMMA NotUnderstoodKeeps ==
  ASSUME Inv, NEW w \in Handlers, NotUnderstood(w)
  PROVE  Inv'
<1> DEFINE r == job[w].seen
           worse == [r EXCEPT !.retry = @ + 1]
           field == [Goto(r, "identity_last_name") EXCEPT !.retry = 0]
<1>1. /\ Engine(w) /\ UNCHANGED tables
      /\ \/ Reply(w, field, {"step", "retry"})
         \/ Reply(w, worse, {"retry"})
  BY DEF NotUnderstood
<1>2. HasRow(w) /\ r \in SessionType /\ faults' \in 0 .. MaxFaults
  BY <1>1, EngineReads
<1>3. "identity_last_name" \in Steps
  BY DEF Steps, Questions
<1>4. Goto(r, "identity_last_name") \in SessionType /\ Goto(r, "identity_last_name").step = "identity_last_name"
  BY <1>2, <1>3, GotoRow
<1>5. field \in SessionType /\ field.step # "payment_wait"
  BY <1>4 DEF SessionType
<1>6. worse \in SessionType
  <2>1. r.retry + 1 \in Nat
    BY <1>2, RowFields
  <2> QED  BY <1>2, <2>1 DEF SessionType
<1> HIDE DEF field, worse
<1>7. CASE Reply(w, field, {"step", "retry"})
  BY <1>1, <1>2, <1>5, <1>7, SaysKeep
<1>8. CASE Reply(w, worse, {"retry"})
  BY <1>1, <1>2, <1>6, <1>8, SaysKeep
<1> QED  BY <1>1, <1>7, <1>8

(* The row after an answer that a step waits for.                           *)
LEMMA AnswerReads ==
  ASSUME Inv, NEW w \in Handlers, Engine(w), job[w].seen.step \in Answerable
  PROVE  /\ HasRow(w) /\ job[w].seen \in SessionType /\ faults' \in 0 .. MaxFaults
         /\ Answered(job[w].seen) \in SessionType
         /\ \A f \in Columns \ {"hist", "retry"} : Answered(job[w].seen)[f] = job[w].seen[f]
BY EngineReads, AnsweredRow

LEMMA ToldRow ==
  ASSUME NEW r \in SessionType, NEW known \in SUBSET Fields, NEW trip \in Trips \cup {None}
  PROVE  /\ [r EXCEPT !.known = known, !.trip = trip] \in SessionType
         /\ [r EXCEPT !.known = known, !.trip = trip].step = r.step
BY DEF SessionType

LEMMA AnswerQuestionKeeps ==
  ASSUME Inv, NEW w \in Handlers, AnswerQuestion(w)
  PROVE  Inv'
<1> DEFINE r == job[w].seen
<1>1. Engine(w) /\ r.step \in Questions /\ UNCHANGED tables
  BY DEF AnswerQuestion
<1>2. PICK a \in Answers(r.step), t \in Trips, offer \in Offers :
        LET told == [Answered(r) EXCEPT !.known = @ \cup a.gives,
                                        !.trip = IF ChangesTrip(a) THEN t ELSE @]
        IN IF a.more /\ ~r.editing
             THEN Reply(w, told, Moved)
             ELSE Reply(w, Lead(told, NextStep(r.step, told.known), offer), Moved)
  BY DEF AnswerQuestion
<1> DEFINE told == [Answered(r) EXCEPT !.known = @ \cup a.gives,
                                       !.trip = IF ChangesTrip(a) THEN t ELSE @]
           next == Lead(told, NextStep(r.step, told.known), offer)
<1>3. r.step \in Answerable /\ "step" \in Columns
  BY <1>1 DEF Answerable, Steps, Questions, Columns
<1>4. /\ HasRow(w) /\ r \in SessionType /\ faults' \in 0 .. MaxFaults
      /\ Answered(r) \in SessionType /\ Answered(r).step = r.step
  BY <1>1, <1>3, AnswerReads
<1>5. a.gives \in SUBSET Fields
  BY <1>1, <1>2, StoresKnown
<1>6. told \in SessionType /\ told.step = r.step
  <2> DEFINE s == Answered(r)
             known == s.known \cup a.gives
             trip == IF ChangesTrip(a) THEN t ELSE s.trip
  <2>1. s.known \in SUBSET Fields /\ s.trip \in Trips \cup {None}
    BY <1>4, RowFields
  <2>2. trip \in Trips \cup {None} /\ known \in SUBSET Fields
    BY <1>5, <2>1
  <2>3. told = [s EXCEPT !.known = known, !.trip = trip]
    BY <1>4 DEF SessionType
  <2>4. s \in SessionType /\ s.step = r.step
    BY <1>4
  <2> HIDE DEF told, known, trip, s
  <2>5. [s EXCEPT !.known = known, !.trip = trip] \in SessionType
        /\ [s EXCEPT !.known = known, !.trip = trip].step = s.step
    BY <2>2, <2>4, ToldRow
  <2> QED  BY <2>3, <2>4, <2>5
<1>7. NextStep(r.step, told.known) \in Steps \ {"payment_wait"}
  BY <1>1, NextQuestion
<1>8. Reply(w, told, Moved) \/ Reply(w, next, Moved)
  BY <1>2
<1> HIDE DEF told
<1>9. next \in SessionType /\ next.step # "payment_wait"
  BY <1>6, <1>7, LeadRow
<1> HIDE DEF next
<1>10. told.step # "payment_wait"
  BY <1>3, <1>6 DEF Answerable
<1>11. CASE Reply(w, told, Moved)
  BY <1>1, <1>4, <1>6, <1>10, <1>11, Patches, SaysKeep
<1>12. CASE Reply(w, next, Moved)
  BY <1>1, <1>4, <1>9, <1>12, Patches, SaysKeep
<1> QED  BY <1>8, <1>11, <1>12

LEMMA ChoosePlanKeeps ==
  ASSUME Inv, NEW w \in Handlers, ChoosePlan(w)
  PROVE  Inv'
<1> DEFINE r == job[w].seen
<1>1. Engine(w) /\ r.step = "plan" /\ UNCHANGED tables
  BY DEF ChoosePlan, In
<1>2. PICK p \in Priced(r.trip), offer \in Offers :
        Reply(w, Lead(WithPlan(Answered(r), p), "review", offer), Moved)
  BY DEF ChoosePlan
<1>3. r.step \in Answerable /\ "trip" \in Columns /\ "review" \in Steps
  BY <1>1 DEF Answerable, Steps, Selling, Columns, Collected
<1>4. /\ HasRow(w) /\ faults' \in 0 .. MaxFaults
      /\ Answered(r) \in SessionType /\ Answered(r).trip = r.trip
  BY <1>1, <1>3, AnswerReads
<1>5. p \in Plans /\ r.trip # None
  BY <1>2 DEF Priced
<1>6. WithPlan(Answered(r), p) \in SessionType
  BY <1>4, <1>5, WithPlanRow
<1>7. /\ Lead(WithPlan(Answered(r), p), "review", offer) \in SessionType
      /\ Lead(WithPlan(Answered(r), p), "review", offer).step # "payment_wait"
  BY <1>3, <1>6, LeadRow
<1> QED  BY <1>1, <1>2, <1>4, <1>7, Patches, SaysKeep

LEMMA CancelReviewKeeps ==
  ASSUME Inv, NEW w \in Handlers, CancelReview(w)
  PROVE  Inv'
<1> DEFINE r == job[w].seen
           new == [Answered(r) EXCEPT !.status = "cancelled"]
<1>1. Engine(w) /\ r.step \in {"review", "payment_retry"} /\ UNCHANGED tables
      /\ Reply(w, new, Moved \ {"step"})
  BY DEF CancelReview, In
<1>2. r.step \in Answerable
  BY <1>1 DEF Answerable, Steps, Selling
<1>3. HasRow(w) /\ faults' \in 0 .. MaxFaults /\ Answered(r) \in SessionType
  BY <1>1, <1>2, AnswerReads
<1>4. new \in SessionType
  BY <1>3, StatusRow DEF Statuses
<1> HIDE DEF new
<1> QED  BY <1>1, <1>3, <1>4, Patches, SaysKeep

LEMMA ChangeDetailKeeps ==
  ASSUME Inv, NEW w \in Handlers, ChangeDetail(w)
  PROVE  Inv'
<1> DEFINE r == job[w].seen
           new == Goto(Answered(r), "review_edit")
<1>1. Engine(w) /\ r.step = "review" /\ UNCHANGED tables /\ Reply(w, new, Moved)
  BY DEF ChangeDetail, In
<1>2. r.step \in Answerable /\ "review_edit" \in Steps
  BY <1>1 DEF Answerable, Steps, Selling
<1>3. HasRow(w) /\ faults' \in 0 .. MaxFaults /\ Answered(r) \in SessionType
  BY <1>1, <1>2, AnswerReads
<1>4. new \in SessionType /\ new.step # "payment_wait"
  BY <1>2, <1>3, GotoRow
<1> HIDE DEF new
<1> QED  BY <1>1, <1>3, <1>4, Patches, SaysKeep

LEMMA ChooseDetailKeeps ==
  ASSUME Inv, NEW w \in Handlers, ChooseDetail(w)
  PROVE  Inv'
<1> DEFINE r == job[w].seen
           edits == [Answered(r) EXCEPT !.editing = TRUE]
<1>1. Engine(w) /\ r.step = "review_edit" /\ UNCHANGED tables
  BY DEF ChooseDetail, In
<1>2. PICK q \in Offered(r.known) : Reply(w, Goto(edits, q), Moved)
  BY DEF ChooseDetail
<1>3. r.step \in Answerable
  BY <1>1 DEF Answerable, Steps, Selling
<1>4. q \in Steps /\ q # "payment_wait"
  BY <1>2 DEF Offered, EDITABLE_STEPS, Steps, Questions
<1>5. HasRow(w) /\ faults' \in 0 .. MaxFaults /\ Answered(r) \in SessionType
  BY <1>1, <1>3, AnswerReads
<1>6. edits \in SessionType
  BY <1>5 DEF SessionType
<1> HIDE DEF edits
<1>7. Goto(edits, q) \in SessionType /\ Goto(edits, q).step # "payment_wait"
  BY <1>4, <1>6, GotoRow
<1> QED  BY <1>1, <1>2, <1>5, <1>7, Patches, SaysKeep

LEMMA RefuseQuoteKeeps ==
  ASSUME Inv, NEW w \in Handlers, RefuseQuote(w)
  PROVE  Inv'
<1>1. HasRow(w) /\ faults' \in 0 .. MaxFaults /\ job[w].seen \in SessionType /\ UNCHANGED tables
  <2>1. HasRow(w)
    BY DEF RefuseQuote, At, HasRow, Acting, Working
  <2>2. Fault \/ NoFault
    BY DEF RefuseQuote
  <2> QED  BY <2>1, <2>2, RowRead, FaultsCounted DEF RefuseQuote
<1>2. PICK st \in {"active", "escalated"} : Reply(w, [job[w].seen EXCEPT !.status = st], {"status"})
  BY DEF RefuseQuote
<1>3. [job[w].seen EXCEPT !.status = st] \in SessionType
  BY <1>1, StatusRow DEF Statuses
<1> QED  BY <1>1, <1>2, <1>3, SaysKeep

LEMMA AfterQuoteKeeps ==
  ASSUME Inv, NEW w \in Handlers, AfterQuote(w)
  PROVE  Inv'
<1> DEFINE r == [job[w].seen EXCEPT !.case = job[w].quote, !.hist = Append(@, "review")]
           last == {"step", "case"} \cup Collected
           choice == {"step", "case", "hist"} \cup Collected
<1>1. HasRow(w) /\ faults' \in 0 .. MaxFaults /\ UNCHANGED tables
  <2>1. HasRow(w) /\ NoFault
    BY DEF AfterQuote, At, HasRow, Acting, Working
  <2> QED  BY <2>1, FaultsCounted DEF AfterQuote
<1>2. PICK offer \in Offers : Reply(w, Ask(r, "done", offer), last)
                              \/ Reply(w, Ask(r, "payment_provider", offer), choice)
  BY DEF AfterQuote
<1>3. "review" \in Answerable /\ "done" \in Steps /\ "payment_provider" \in Steps
  BY DEF Answerable, Steps, Selling
<1>4. job[w].seen \in SessionType /\ job[w].quote \in Nat
  BY <1>1, RowRead, SessionsTyped DEF Inv, JobShape
<1>5. Append(job[w].seen.hist, "review") \in Seq(Answerable)
  BY <1>3, <1>4, RowFields, AppendProperties
<1>6. r \in SessionType
  BY <1>4, <1>5 DEF SessionType, Answerable
<1> HIDE DEF r
<1>7. /\ Ask(r, "done", offer) \in SessionType /\ Ask(r, "done", offer).step # "payment_wait"
      /\ Ask(r, "payment_provider", offer) \in SessionType
      /\ Ask(r, "payment_provider", offer).step # "payment_wait"
  BY <1>3, <1>6, AskRow
<1>8. "number" \notin last /\ "tx" \notin last /\ "number" \notin choice /\ "tx" \notin choice
  BY Patches
<1> HIDE DEF last, choice
<1>9. CASE Reply(w, Ask(r, "done", offer), last)
  BY <1>1, <1>7, <1>8, <1>9, SaysKeep
<1>10. CASE Reply(w, Ask(r, "payment_provider", offer), choice)
  BY <1>1, <1>7, <1>8, <1>10, SaysKeep
<1> QED  BY <1>2, <1>9, <1>10

-----------------------------------------------------------------------------
(* Paying                                                                   *)

LEMMA PayTyped ==
  ASSUME Inv
  PROVE  /\ pay \in [Key -> [state : {"none", "open", "ended"}, case : Nat, amount : Nat]]
         /\ \A k \in Key : pay[k].state = "none" => pay[k] = NoRow
         /\ \A k \in Key : pay[k].state # "none" => k[1] \in 1 .. Len(sessions)
         /\ \A n \in notices : n.tx[1] \in 1 .. Len(sessions)
BY DEF Inv, TypeOK, TablesFit

(* A request that goes on, with its row as it was.                          *)
LEMMA PassOn ==
  ASSUME Inv, NEW w \in Handlers, HasRow(w), NEW j \in JobShape, job' = [job EXCEPT ![w] = j],
         j.msg = job[w].msg, j.sid = job[w].sid, j.seen \in SessionType,
         j.pc \in {"quoted", "starting", "parking", "calling"},
         j.pc \in {"parking", "calling"} => TxOf(w)' \in Key /\ pay'[TxOf(w)'].state # "none",
         UNCHANGED <<sessions, received, repeats, archived, quotes, notices, lock>>,
         pay' \in [Key -> [state : {"none", "open", "ended"}, case : Nat, amount : Nat]],
         \A k \in Key : pay[k].state # "none" => pay'[k].state # "none",
         \A k \in Key : pay'[k].state # "none" => pay[k].state # "none" \/ k[1] \in 1 .. Len(sessions),
         \A k \in Key : pay'[k].state = "none" => pay'[k] = NoRow,
         faults' \in 0 .. MaxFaults
  PROVE  Inv'
<1>1. TypeOK /\ JobFits(w)
  BY DEF Inv
<1>2. job' \in [Handlers -> JobShape] /\ job'[w] = j /\ \A q \in Handlers \ {w} : job'[q] = job[q]
  BY <1>1, SessionsTyped
<1>3. TypeOK'
  BY <1>1, <1>2 DEF TypeOK, JobShape
<1>4. TablesFit'
  <2>1. \A v \in Handlers : job'[v].pc = "creating" => job[v].pc = "creating"
    BY <1>2
  <2>2. \A s \in 1 .. Len(sessions) : sessions'[s].step = "payment_wait" =>
          sessions[s].step = "payment_wait" /\ sessions'[s].tx = sessions[s].tx
    OBVIOUS
  <2>3. \A n \in notices' : n.tx[1] \in 1 .. Len(sessions)
    BY PayTyped
  <2> QED  BY <1>3, <2>1, <2>2, <2>3, TablesLater
<1>5. JobFits(w)'
  <2>1. Working(w) /\ Acting(w) /\ Number(w)' = Number(w)
    BY <1>2 DEF HasRow, Acting, Working, Number
  <2>2. /\ job[w].msg \in Messages /\ lock[Number(w)] = w /\ job[w].msg \in archived
        /\ job[w].sid \in 1 .. Len(sessions) /\ sessions[job[w].sid].number = Number(w)
    BY <1>1, <2>1 DEF JobFits, Acting, Working
  <2>3. job'[w].pc \notin {"engine", "creating"}
    BY <1>2
  <2> QED  BY <1>2, <2>1, <2>2, <2>3 DEF JobFits
<1>6. \A n \in Numbers : lock[n] \notin {w, Nobody} => lock'[n] = lock[n] /\ Quiet(n)
  BY NothingIsQuiet
<1> QED  BY <1>2, <1>3, <1>4, <1>5, <1>6, WorkerKeeps

(* A request that goes on to the provider, with no table changed.           *)
LEMMA StartsKeep ==
  ASSUME Inv, NEW w \in Handlers, HasRow(w), NEW row \in SessionType,
         job' = [job EXCEPT ![w] = [@ EXCEPT !.pc = "starting", !.seen = row]],
         UNCHANGED <<sessions, tables, lock>>, faults' \in 0 .. MaxFaults
  PROVE  Inv'
<1> DEFINE j == [job[w] EXCEPT !.pc = "starting", !.seen = row]
<1>1. job[w] \in JobShape
  BY SessionsTyped DEF Inv
<1>2. /\ j \in JobShape /\ j.msg = job[w].msg /\ j.sid = job[w].sid /\ j.seen = row /\ j.pc = "starting"
      /\ job' = [job EXCEPT ![w] = j]
  BY <1>1 DEF JobShape, JobPCs
<1> HIDE DEF j
<1>3. UNCHANGED <<sessions, received, repeats, archived, quotes, notices, lock, pay>>
  BY DEF tables
<1>4. /\ pay' \in [Key -> [state : {"none", "open", "ended"}, case : Nat, amount : Nat]]
      /\ \A k \in Key : pay[k].state # "none" => pay'[k].state # "none"
      /\ \A k \in Key : pay'[k].state # "none" => pay[k].state # "none" \/ k[1] \in 1 .. Len(sessions)
      /\ \A k \in Key : pay'[k].state = "none" => pay'[k] = NoRow
  BY <1>3, PayTyped
<1>5. j.pc \notin {"parking", "calling"} /\ j.pc \in {"quoted", "starting", "parking", "calling"}
  BY <1>2
<1>6. UNCHANGED <<sessions, received, repeats, archived, quotes, notices, lock>>
  BY <1>3
<1>7. j.seen \in SessionType
  BY <1>2
<1> QED  BY <1>2, <1>4, <1>5, <1>6, <1>7, PassOn

LEMMA ChooseProviderKeeps ==
  ASSUME Inv, NEW w \in Handlers, ChooseProvider(w)
  PROVE  Inv'
<1> DEFINE r == job[w].seen
<1>1. Engine(w) /\ r.step = "payment_provider" /\ UNCHANGED tables
  BY DEF ChooseProvider, In
<1>2. PICK p \in r.options, offer \in Offers :
        Reply(w, Lead([Answered(r) EXCEPT !.provider = p], "payment_phone", offer), Moved)
  BY DEF ChooseProvider
<1> DEFINE told == [Answered(r) EXCEPT !.provider = p]
<1>3. r.step \in Answerable /\ "payment_phone" \in Steps
  BY <1>1 DEF Answerable, Steps, Selling
<1>4. HasRow(w) /\ faults' \in 0 .. MaxFaults /\ Answered(r) \in SessionType /\ r \in SessionType
  BY <1>1, <1>3, AnswerReads
<1>5. p \in Providers
  BY <1>2, <1>4, RowFields
<1>6. told \in SessionType
  BY <1>4, <1>5 DEF SessionType
<1> HIDE DEF told
<1>7. Lead(told, "payment_phone", offer) \in SessionType /\ Lead(told, "payment_phone", offer).step # "payment_wait"
  BY <1>3, <1>6, LeadRow
<1>8. Reply(w, Lead(told, "payment_phone", offer), Moved)
  BY <1>2 DEF told
<1> QED  BY <1>1, <1>4, <1>7, <1>8, Patches, SaysKeep

LEMMA GivePhoneKeeps ==
  ASSUME Inv, NEW w \in Handlers, GivePhone(w)
  PROVE  Inv'
<1> DEFINE r == job[w].seen
<1>1. Engine(w) /\ r.step = "payment_phone" /\ UNCHANGED tables
  BY DEF GivePhone, In
<1>2. PICK ph \in Phones :
        LET told == [Answered(r) EXCEPT !.phone = ph] IN
        IF r.editing
          THEN Reply(w, Lead(told, "review", {}), Moved)
          ELSE /\ job' = [job EXCEPT ![w] = [@ EXCEPT !.pc = "starting", !.seen = told]]
               /\ UNCHANGED <<sessions, lock>>
  BY DEF GivePhone
<1> DEFINE told == [Answered(r) EXCEPT !.phone = ph]
<1>3. r.step \in Answerable /\ "review" \in Steps
  BY <1>1 DEF Answerable, Steps, Selling
<1>4. HasRow(w) /\ faults' \in 0 .. MaxFaults /\ Answered(r) \in SessionType
  BY <1>1, <1>3, AnswerReads
<1>5. told \in SessionType
  BY <1>4 DEF SessionType
<1>6. \/ Reply(w, Lead(told, "review", {}), Moved)
      \/ /\ job' = [job EXCEPT ![w] = [@ EXCEPT !.pc = "starting", !.seen = told]]
         /\ UNCHANGED <<sessions, lock>>
  BY <1>2
<1> HIDE DEF told
<1>7. CASE Reply(w, Lead(told, "review", {}), Moved)
  <2>1. Lead(told, "review", {}) \in SessionType /\ Lead(told, "review", {}).step # "payment_wait"
    BY <1>3, <1>5, LeadRow
  <2> QED  BY <1>1, <1>4, <1>7, <2>1, Patches, SaysKeep
<1>8. CASE /\ job' = [job EXCEPT ![w] = [@ EXCEPT !.pc = "starting", !.seen = told]]
           /\ UNCHANGED <<sessions, lock>>
  BY <1>1, <1>4, <1>5, <1>8, StartsKeep
<1> QED  BY <1>6, <1>7, <1>8

LEMMA RetryPaymentKeeps ==
  ASSUME Inv, NEW w \in Handlers, RetryPayment(w)
  PROVE  Inv'
<1> DEFINE r == job[w].seen
           told == Answered(r)
<1>1. Engine(w) /\ r.step = "payment_retry" /\ UNCHANGED <<sessions, tables, lock>>
  BY DEF RetryPayment, In
<1>2. r.step \in Answerable
  BY <1>1 DEF Answerable, Steps, Selling
<1>3. HasRow(w) /\ faults' \in 0 .. MaxFaults /\ told \in SessionType
  BY <1>1, <1>2, AnswerReads
<1>4. job[w] \in JobShape /\ job \in [Handlers -> JobShape]
  BY SessionsTyped DEF Inv
<1>5. job' = [job EXCEPT ![w] = [@ EXCEPT !.pc = "starting", !.seen = told]]
  BY DEF RetryPayment
<1> HIDE DEF told
<1> QED  BY <1>1, <1>3, <1>5, StartsKeep

LEMMA SwitchProviderKeeps ==
  ASSUME Inv, NEW w \in Handlers, SwitchProvider(w)
  PROVE  Inv'
<1> DEFINE r == job[w].seen
<1>1. Engine(w) /\ r.step = "payment_retry" /\ UNCHANGED tables
  BY DEF SwitchProvider, In
<1>2. PICK offer \in Offers : Reply(w, Ask(Answered(r), "payment_provider", offer), Moved)
  BY DEF SwitchProvider
<1>3. r.step \in Answerable /\ "payment_provider" \in Steps
  BY <1>1 DEF Answerable, Steps, Selling
<1>4. HasRow(w) /\ faults' \in 0 .. MaxFaults /\ Answered(r) \in SessionType
  BY <1>1, <1>3, AnswerReads
<1>5. /\ Ask(Answered(r), "payment_provider", offer) \in SessionType
      /\ Ask(Answered(r), "payment_provider", offer).step # "payment_wait"
  BY <1>3, <1>4, AskRow
<1> QED  BY <1>1, <1>2, <1>4, <1>5, Patches, SaysKeep

(* To be asked for another try.                                             *)
LEMMA RetryRow ==
  ASSUME NEW r \in SessionType
  PROVE  Goto(r, "payment_retry") \in SessionType /\ Goto(r, "payment_retry").step # "payment_wait"
<1>1. "payment_retry" \in Steps
  BY DEF Steps, Selling
<1> QED  BY <1>1, GotoRow

LEMMA RefusePaymentKeeps ==
  ASSUME Inv, NEW w \in Handlers, RefusePayment(w)
  PROVE  Inv'
<1> DEFINE new == Goto(job[w].seen, "payment_retry")
<1>1. HasRow(w) /\ (Fault \/ NoFault) /\ UNCHANGED tables /\ Reply(w, new, Moved)
  BY DEF RefusePayment, CannotPay, At, HasRow, Acting, Working
<1>2. job[w].seen \in SessionType /\ faults' \in 0 .. MaxFaults
  BY <1>1, RowRead, FaultsCounted
<1>3. new \in SessionType /\ new.step # "payment_wait"
  BY <1>2, RetryRow
<1> HIDE DEF new
<1> QED  BY <1>1, <1>2, <1>3, Patches, SaysKeep

(* The key of the payment of a conversation is one of the table's.          *)
LEMMA KeyKnown ==
  ASSUME Inv, NEW w \in Handlers, HasRow(w), job[w].seen.provider # None
  PROVE  TxOf(w) \in Key /\ TxOf(w)[1] = job[w].sid
<1>1. job[w].seen \in SessionType /\ job[w].sid \in 1 .. Len(sessions)
  BY RowRead
<1>2. job[w].seen.provider \in Providers /\ job[w].seen.phone \in Phones \cup {None}
  BY <1>1, RowFields
<1>3. Len(sessions) \in Nat /\ Len(sessions) <= Cardinality(Messages) /\ Cardinality(Messages) \in Nat
  BY SessionsTyped, Counted DEF Inv, TablesFit
<1>4. job[w].sid \in 1 .. Cardinality(Messages)
  BY <1>1, <1>3
<1> QED  BY <1>2, <1>4 DEF TxOf, Key

LEMMA CreateTransactionKeeps ==
  ASSUME Inv, NEW w \in Handlers, CreateTransaction(w)
  PROVE  Inv'
<1> DEFINE r == job[w].seen
           k == TxOf(w)
           j == [job[w] EXCEPT !.pc = "parking"]
           made == [state |-> "open", case |-> r.case, amount |-> r.premium]
<1>1. HasRow(w) /\ r.provider # None /\ NoFault
      /\ UNCHANGED <<sessions, received, repeats, archived, quotes, notices, lock>>
  BY DEF CreateTransaction, At, HasRow, Acting, Working
<1>2. r \in SessionType /\ job[w].sid \in 1 .. Len(sessions) /\ faults' \in 0 .. MaxFaults
  BY <1>1, RowRead, FaultsCounted
<1>3. k \in Key /\ k[1] = job[w].sid
  BY <1>1, KeyKnown
<1>4. job[w] \in JobShape /\ job \in [Handlers -> JobShape]
  BY SessionsTyped DEF Inv
<1>5. /\ j \in JobShape /\ j.msg = job[w].msg /\ j.sid = job[w].sid /\ j.seen = r /\ j.pc = "parking"
      /\ job' = [job EXCEPT ![w] = j]
  BY <1>4 DEF JobShape, JobPCs, CreateTransaction, Goes
<1>6. TxOf(w)' = k
  BY <1>4, <1>5 DEF TxOf
<1>7. made \in [state : {"none", "open", "ended"}, case : Nat, amount : Nat] /\ made.state = "open"
  BY <1>2, RowFields
<1>8. pay' = [pay EXCEPT ![k] = IF pay[k] # NoRow THEN pay[k] ELSE made]
  BY <1>3, PayTyped DEF CreateTransaction
<1> HIDE DEF j, k, made
<1>9. /\ pay' \in [Key -> [state : {"none", "open", "ended"}, case : Nat, amount : Nat]]
      /\ \A x \in Key : x # k => pay'[x] = pay[x]
      /\ pay'[k] = IF pay[k] # NoRow THEN pay[k] ELSE made
  BY <1>3, <1>7, <1>8, PayTyped
<1>10. pay'[k].state # "none"
  BY <1>3, <1>7, <1>9, PayTyped
<1>11. \A x \in Key : pay[x].state # "none" => pay'[x].state # "none"
  BY <1>9, <1>10
<1>12. \A x \in Key : pay'[x].state # "none" => pay[x].state # "none" \/ x[1] \in 1 .. Len(sessions)
  BY <1>2, <1>3, <1>9
<1>13. \A x \in Key : pay'[x].state = "none" => pay'[x] = NoRow
  BY <1>9, <1>10, PayTyped
<1> QED  BY <1>1, <1>2, <1>3, <1>5, <1>6, <1>9, <1>10, <1>11, <1>12, <1>13, PassOn

(* The payment is noted on the row before the provider is called.           *)
LEMMA ParkKeeps ==
  ASSUME Inv, NEW w \in Handlers, Park(w)
  PROVE  Inv'
<1> DEFINE sid == job[w].sid
           k == TxOf(w)
           j == [job[w] EXCEPT !.pc = "calling"]
           row == [sessions[sid] EXCEPT !.tx = k]
<1>1. HasRow(w) /\ job[w].pc = "parking" /\ (Fault \/ NoFault) /\ UNCHANGED <<tables, lock>>
  BY DEF Park, At, HasRow, Acting, Working
<1>2. UNCHANGED <<received, repeats, archived, quotes, notices, lock>> /\ pay' = pay
  BY <1>1 DEF tables
<1>3. TypeOK /\ JobFits(w) /\ faults' \in 0 .. MaxFaults
  BY <1>1, FaultsCounted DEF Inv
<1>4. /\ sid \in 1 .. Len(sessions) /\ sessions[sid].number = Number(w) /\ job[w].seen \in SessionType
      /\ k \in Key /\ pay[k].state # "none" /\ lock[Number(w)] = w
      /\ job[w].msg \in Messages /\ job[w].msg \in archived
  BY <1>1, <1>3 DEF JobFits, HasRow, Acting
<1>5. k[1] = sid
  BY DEF TxOf
<1>6. job[w] \in JobShape /\ job \in [Handlers -> JobShape]
  BY <1>3, SessionsTyped
<1>7. /\ j \in JobShape /\ j.msg = job[w].msg /\ j.sid = sid /\ j.seen = job[w].seen /\ j.pc = "calling"
      /\ job' = [job EXCEPT ![w] = j]
  BY <1>6 DEF JobShape, JobPCs, Park, Goes
<1>8. TxOf(w)' = k
  BY <1>6, <1>7 DEF TxOf
<1>9. sessions[sid] \in SessionType /\ sessions \in Seq(SessionType)
  BY <1>3, <1>4, SessionsTyped
<1>10. row \in SessionType /\ row.tx = k /\ \A f \in Columns \ {"tx"} : row[f] = sessions[sid][f]
  BY <1>4, <1>9 DEF SessionType, Columns, Collected
<1>11. sessions' = sessions \/ sessions' = [sessions EXCEPT ![sid] = row]
  BY <1>9 DEF Park
<1>12. /\ pay' \in [Key -> [state : {"none", "open", "ended"}, case : Nat, amount : Nat]]
       /\ \A x \in Key : pay[x].state # "none" => pay'[x].state # "none"
       /\ \A x \in Key : pay'[x].state # "none" => pay[x].state # "none" \/ x[1] \in 1 .. Len(sessions)
       /\ \A x \in Key : pay'[x].state = "none" => pay'[x] = NoRow
  BY <1>2, PayTyped
<1>13. pay'[k].state # "none"
  BY <1>2, <1>4
<1> HIDE DEF row, j, k
<1>14. CASE sessions' = sessions
  <2>1. j.seen \in SessionType /\ j.pc \in {"quoted", "starting", "parking", "calling"}
    BY <1>4, <1>7
  <2>2. UNCHANGED <<sessions, received, repeats, archived, quotes, notices, lock>>
    BY <1>2, <1>14
  <2>3. j.pc \in {"parking", "calling"} => TxOf(w)' \in Key /\ pay'[TxOf(w)'].state # "none"
    BY <1>4, <1>8, <1>13
  <2> QED  BY <1>1, <1>3, <1>7, <1>12, <2>1, <2>2, <2>3, PassOn
<1>15. CASE sessions' = [sessions EXCEPT ![sid] = row]
  <2>1. /\ sessions' \in Seq(SessionType) /\ Len(sessions') = Len(sessions) /\ sessions'[sid] = row
        /\ \A s \in 1 .. Len(sessions) : s # sid => sessions'[s] = sessions[s]
    BY <1>4, <1>9, <1>10, <1>15, ExceptSeq
  <2>2. job' \in [Handlers -> JobShape] /\ job'[w] = j /\ \A q \in Handlers \ {w} : job'[q] = job[q]
    BY <1>6, <1>7
  <2>3. TypeOK'
    BY <1>2, <1>3, <2>1, <2>2 DEF TypeOK, JobShape
  <2>4. row.number = Number(w) /\ row.step = sessions[sid].step
    BY <1>4, <1>10 DEF Columns
  <2>5. \A s \in 1 .. Len(sessions) : sessions'[s].step = "payment_wait" =>
          \/ sessions[s].step = "payment_wait" /\ sessions'[s].tx = sessions[s].tx
          \/ sessions'[s].tx \in Key /\ sessions'[s].tx[1] = s /\ pay'[sessions'[s].tx].state # "none"
    BY <1>4, <1>5, <1>10, <1>13, <2>1 DEF k
  <2>6. TablesFit'
    <3>1. \A n \in notices' : n.tx[1] \in 1 .. Len(sessions)
      BY <1>2, PayTyped
    <3>2. \A v \in Handlers : job'[v].pc = "creating" => job[v].pc = "creating"
      BY <1>7, <2>2
    <3> QED  BY <1>2, <1>12, <2>1, <2>3, <2>5, <3>1, <3>2, TablesLater
  <2>7. JobFits(w)'
    <3>1. Number(w)' = Number(w) /\ job'[w].pc = "calling"
      BY <1>7, <2>2 DEF Number
    <3>2. /\ job'[w].msg \in Messages /\ lock'[Number(w)'] = w /\ job'[w].msg \in archived'
          /\ job'[w].sid \in 1 .. Len(sessions') /\ sessions'[job'[w].sid].number = Number(w)'
          /\ job'[w].seen \in SessionType
          /\ TxOf(w)' \in Key /\ pay'[TxOf(w)'].state # "none"
      BY <1>2, <1>4, <1>7, <1>8, <1>13, <2>1, <2>2, <2>4, <3>1
    <3> QED  BY <3>1, <3>2 DEF JobFits
  <2>8. \A n \in Numbers : lock[n] \notin {w, Nobody} => lock'[n] = lock[n] /\ Quiet(n)
    <3> SUFFICES ASSUME NEW n \in Numbers, lock[n] \notin {w, Nobody}
                 PROVE  Quiet(n)
      BY <1>2
    <3>1. n # Number(w)
      BY <1>4
    <3>2. \A s \in 1 .. Len(sessions) : sessions'[s].number = sessions[s].number
      BY <1>4, <2>1, <2>4
    <3>3. \A s \in 1 .. Len(sessions') : sessions'[s].number = n => s # sid
      BY <2>1, <2>4, <3>1
    <3> QED  BY <2>1, <3>2, <3>3 DEF Quiet
  <2>9. archived \subseteq archived' /\ \A x \in Key : pay[x].state # "none" => pay'[x].state # "none"
    BY <1>2
  <2>10. \A i \in 1 .. Len(quotes') : i \in 1 .. Len(quotes) /\ quotes'[i] = quotes[i]
    BY <1>2
  <2> QED  BY <2>2, <2>3, <2>6, <2>7, <2>8, <2>9, <2>10, WorkerKeeps
<1> QED  BY <1>11, <1>14, <1>15

LEMMA Calling ==
  ASSUME Inv, NEW w \in Handlers, At(w, "calling")
  PROVE  /\ HasRow(w) /\ job[w].seen \in SessionType
         /\ TxOf(w) \in Key /\ TxOf(w)[1] = job[w].sid /\ pay[TxOf(w)].state # "none"
<1>1. HasRow(w) /\ job[w].pc = "calling" /\ JobFits(w)
  BY DEF At, HasRow, Acting, Working, Inv
<1>2. TxOf(w)[1] = job[w].sid
  BY DEF TxOf
<1> QED  BY <1>1, <1>2 DEF JobFits

LEMMA AcceptedKeeps ==
  ASSUME Inv, NEW w \in Handlers, Accepted(w)
  PROVE  Inv'
<1> DEFINE new == [Goto(job[w].seen, "payment_wait") EXCEPT !.tx = TxOf(w)]
           columns == Moved \cup {"tx"}
<1>1. At(w, "calling") /\ (Fault \/ NoFault) /\ Reply(w, new, columns) /\ UNCHANGED tables
  BY DEF Accepted
<1>2. /\ HasRow(w) /\ job[w].seen \in SessionType /\ faults' \in 0 .. MaxFaults
      /\ TxOf(w) \in Key /\ TxOf(w)[1] = job[w].sid /\ pay[TxOf(w)].state # "none"
  BY <1>1, Calling, FaultsCounted
<1>3. "payment_wait" \in Steps
  BY DEF Steps, Selling
<1>4. Goto(job[w].seen, "payment_wait") \in SessionType
  BY <1>2, <1>3, GotoRow
<1>5. new \in SessionType /\ new.tx = TxOf(w)
  BY <1>2, <1>4 DEF SessionType
<1>6. "number" \notin columns /\ "tx" \in columns
  BY Patches
<1> HIDE DEF new, columns
<1>7. UNCHANGED <<received, repeats, archived, quotes, notices, pay>>
  BY <1>1 DEF tables
<1>8. /\ pay' \in [Key -> [state : {"none", "open", "ended"}, case : Nat, amount : Nat]]
      /\ \A x \in Key : pay'[x].state # "none" <=> pay[x].state # "none"
      /\ \A x \in Key : pay'[x].state = "none" => pay'[x] = NoRow
  BY <1>7, PayTyped
<1> QED  BY <1>1, <1>2, <1>5, <1>6, <1>7, <1>8, ReplyKeeps

LEMMA RejectedKeeps ==
  ASSUME Inv, NEW w \in Handlers, Rejected(w)
  PROVE  Inv'
<1> DEFINE new == Goto(job[w].seen, "payment_retry")
           k == TxOf(w)
<1>1. /\ At(w, "calling") /\ (Fault \/ NoFault) /\ Reply(w, new, Moved)
      /\ UNCHANGED <<received, repeats, archived, quotes, notices>>
      /\ pay' = pay \/ pay' = [pay EXCEPT ![k].state = "ended"]
  BY DEF Rejected, CannotPay
<1>2. /\ HasRow(w) /\ job[w].seen \in SessionType /\ faults' \in 0 .. MaxFaults
      /\ k \in Key /\ pay[k].state # "none"
  BY <1>1, Calling, FaultsCounted
<1>3. new \in SessionType /\ new.step # "payment_wait"
  BY <1>2, RetryRow
<1> HIDE DEF new, k
<1>4. /\ pay' \in [Key -> [state : {"none", "open", "ended"}, case : Nat, amount : Nat]]
      /\ \A x \in Key : pay'[x].state # "none" <=> pay[x].state # "none"
      /\ \A x \in Key : pay'[x].state = "none" => pay'[x] = NoRow
  <2>1. CASE pay' = pay
    BY <2>1, PayTyped
  <2>2. CASE pay' = [pay EXCEPT ![k].state = "ended"]
    BY <1>2, <2>2, PayTyped
  <2> QED  BY <1>1, <2>1, <2>2
<1> QED  BY <1>1, <1>2, <1>3, <1>4, Patches, ReplyKeeps

LEMMA HandlerFailsKeeps ==
  ASSUME Inv, NEW w \in Handlers, HandlerFails(w)
  PROVE  Inv'
<1>1. faults' \in 0 .. MaxFaults
  BY FaultsCounted DEF HandlerFails
<1> QED  BY <1>1, EndKeeps DEF HandlerFails, tables

-----------------------------------------------------------------------------
(* The lock, the message and the conversation                               *)

LEMMA TakeLockKeeps ==
  ASSUME Inv, NEW w \in Handlers, TakeLock(w)
  PROVE  Inv'
<1> DEFINE j == [job[w] EXCEPT !.pc = "locked"]
<1>1. /\ job[w].pc = "locking" /\ lock[Number(w)] = Nobody
      /\ lock' = [lock EXCEPT ![Number(w)] = w] /\ job' = [job EXCEPT ![w] = j]
      /\ UNCHANGED <<sessions, received, repeats, archived, quotes, pay, notices, faults>>
  BY DEF TakeLock, Goes, tables
<1>2. TypeOK /\ JobFits(w) /\ job[w].msg \in Messages /\ Number(w) \in Numbers
  BY <1>1, HasNumber DEF Inv
<1>3. job[w] \in JobShape /\ job \in [Handlers -> JobShape] /\ lock \in [Numbers -> Handlers \cup {Nobody}]
  BY <1>2, SessionsTyped
<1>4. j \in JobShape /\ j.msg = job[w].msg /\ j.pc = "locked"
  BY <1>3 DEF JobShape, JobPCs
<1> HIDE DEF j
<1>5. /\ job' \in [Handlers -> JobShape] /\ job'[w] = j /\ \A q \in Handlers \ {w} : job'[q] = job[q]
      /\ lock' \in [Numbers -> Handlers \cup {Nobody}] /\ lock'[Number(w)] = w
      /\ \A n \in Numbers : n # Number(w) => lock'[n] = lock[n]
  BY <1>1, <1>2, <1>3, <1>4
<1>6. TypeOK'
  BY <1>1, <1>2, <1>5 DEF TypeOK, JobShape
<1>7. TablesFit'
  <2>1. \A v \in Handlers : job'[v].pc = "creating" => job[v].pc = "creating"
    BY <1>4, <1>5
  <2>2. /\ \A n \in notices' : n.tx[1] \in 1 .. Len(sessions)
        /\ \A k \in Key : pay'[k].state = "none" => pay'[k] = NoRow
    BY <1>1, PayTyped
  <2> QED  BY <1>1, <1>6, <2>1, <2>2, TablesLater
<1>8. JobFits(w)'
  <2>1. job'[w].pc = "locked" /\ Number(w)' = Number(w) /\ job'[w].msg \in Messages
    BY <1>2, <1>4, <1>5 DEF Number
  <2> QED  BY <1>5, <2>1 DEF JobFits, Acting, HasRow
<1>9. \A n \in Numbers : lock[n] \notin {w, Nobody} => lock'[n] = lock[n] /\ Quiet(n)
  BY <1>1, <1>5, NothingIsQuiet
<1>10. /\ archived \subseteq archived' /\ \A k \in Key : pay[k].state # "none" => pay'[k].state # "none"
       /\ \A i \in 1 .. Len(quotes') : i \in 1 .. Len(quotes) /\ quotes'[i] = quotes[i]
  BY <1>1
<1> QED  BY <1>5, <1>6, <1>7, <1>8, <1>9, <1>10, WorkerKeeps

LEMMA LockTimeoutKeeps ==
  ASSUME Inv, NEW w \in Handlers, LockTimeout(w)
  PROVE  Inv'
<1>1. /\ job' = [job EXCEPT ![w] = Idle]
      /\ UNCHANGED <<sessions, received, repeats, archived, quotes, pay, notices, lock, faults>>
  BY DEF LockTimeout, tables
<1>2. TypeOK /\ job \in [Handlers -> JobShape]
  BY SessionsTyped DEF Inv
<1>3. job' \in [Handlers -> JobShape] /\ job'[w] = Idle /\ \A q \in Handlers \ {w} : job'[q] = job[q]
  BY <1>1, <1>2, IdleShape
<1>4. TypeOK'
  BY <1>1, <1>2, <1>3 DEF TypeOK, JobShape
<1>5. TablesFit'
  <2>1. \A v \in Handlers : job'[v].pc = "creating" => job[v].pc = "creating"
    BY <1>3, IdleShape
  <2>2. /\ \A n \in notices' : n.tx[1] \in 1 .. Len(sessions)
        /\ \A k \in Key : pay'[k].state = "none" => pay'[k] = NoRow
    BY <1>1, PayTyped
  <2> QED  BY <1>1, <1>4, <2>1, <2>2, TablesLater
<1>6. JobFits(w)'
  BY <1>3, IdleFits
<1>7. \A n \in Numbers : lock[n] \notin {w, Nobody} => lock'[n] = lock[n] /\ Quiet(n)
  BY <1>1, NothingIsQuiet
<1>8. /\ archived \subseteq archived' /\ \A k \in Key : pay[k].state # "none" => pay'[k].state # "none"
      /\ \A i \in 1 .. Len(quotes') : i \in 1 .. Len(quotes) /\ quotes'[i] = quotes[i]
  BY <1>1
<1> QED  BY <1>3, <1>4, <1>5, <1>6, <1>7, <1>8, WorkerKeeps

(* A message read for the first time: one archived row more, for at most    *)
(* one conversation that is about to be opened.                             *)
LEMMA ReadSessionKeeps ==
  ASSUME Inv, NEW w \in Handlers, ReadSession(w)
  PROVE  Inv'
<1> DEFINE m == job[w].msg
           n0 == Number(w)
<1>1. /\ job[w].pc = "locked"
      /\ UNCHANGED <<sessions, received, repeats, quotes, pay, notices, faults>>
      /\ \/ m \in archived /\ Release(w) /\ archived' = archived
         \/ /\ m \notin archived /\ archived' = archived \cup {m} /\ SessionRead(w) /\ lock' = lock
  BY DEF ReadSession, At
<1>2. TypeOK /\ JobFits(w) /\ m \in Messages /\ n0 \in Numbers /\ TablesFit
  BY <1>1, HasNumber DEF Inv
<1>3. CASE m \in archived /\ Release(w) /\ archived' = archived
  <2>1. faults' \in 0 .. MaxFaults
    BY <1>1, <1>2 DEF TypeOK
  <2> QED  BY <1>1, <1>3, <2>1, EndKeeps
<1>4. CASE m \notin archived /\ archived' = archived \cup {m} /\ SessionRead(w) /\ lock' = lock
  <2>1. job[w] \in JobShape /\ job \in [Handlers -> JobShape] /\ Len(sessions) \in Nat
    BY <1>2, SessionsTyped
  <2>2. PICK j \in JobShape :
          /\ job' = [job EXCEPT ![w] = j] /\ j.msg = m
          /\ \/ j.pc = "creating" /\ ActiveOf(n0) = {}
             \/ /\ j.pc = "engine" /\ j.sid \in 1 .. Len(sessions)
                /\ sessions[j.sid].number = n0 /\ j.seen = sessions[j.sid]
                /\ j.seen \in SessionType
    <3>1. CASE ActiveOf(n0) = {}
      <4> DEFINE j == [job[w] EXCEPT !.pc = "creating"]
      <4>1. j \in JobShape /\ j.msg = m /\ j.pc = "creating"
        BY <2>1 DEF JobShape, JobPCs
      <4>2. job' = [job EXCEPT ![w] = j]
        BY <1>4, <3>1 DEF SessionRead
      <4> QED  BY <3>1, <4>1, <4>2
    <3>2. CASE ActiveOf(n0) # {}
      <4>1. PICK s \in ActiveOf(n0) :
              job' = [job EXCEPT ![w] = [@ EXCEPT !.pc = "engine", !.sid = s, !.seen = sessions[s]]]
        BY <1>4, <3>2 DEF SessionRead
      <4> DEFINE j == [job[w] EXCEPT !.pc = "engine", !.sid = s, !.seen = sessions[s]]
      <4>2. s \in 1 .. Len(sessions) /\ sessions[s].number = n0
        BY DEF ActiveOf
      <4>3. sessions[s] \in SessionType /\ s \in Nat
        BY <1>2, <2>1, <4>2, SessionsTyped
      <4>4. j \in JobShape /\ j.msg = m /\ j.pc = "engine" /\ j.sid = s /\ j.seen = sessions[s]
        BY <2>1, <4>3 DEF JobShape, JobPCs
      <4>5. job' = [job EXCEPT ![w] = j]
        BY <4>1
      <4> HIDE DEF j
      <4> QED  BY <4>2, <4>3, <4>4, <4>5
    <3> QED  BY <3>1, <3>2
  <2>3. job' \in [Handlers -> JobShape] /\ job'[w] = j /\ \A q \in Handlers \ {w} : job'[q] = job[q]
    BY <2>1, <2>2
  <2>4. TypeOK'
    BY <1>1, <1>2, <1>4, <2>3 DEF TypeOK, JobShape
  <2>5. TablesFit'
    <3>1. Creating' \subseteq Creating \cup {w}
      BY <2>3 DEF Creating
    <3>2. /\ IsFiniteSet(Creating) /\ IsFiniteSet(archived) /\ IsFiniteSet(Creating \cup {w})
          /\ Cardinality(Creating) \in Nat /\ Cardinality(archived) \in Nat
      BY <1>2, Counted, FS_AddElement
    <3>3. Cardinality(Creating \cup {w}) <= Cardinality(Creating) + 1 /\ Cardinality(Creating \cup {w}) \in Nat
      BY <3>2, FS_AddElement, FS_CardinalityType
    <3>4. Cardinality(Creating') <= Cardinality(Creating \cup {w}) /\ Cardinality(Creating') \in Nat
      BY <3>1, <3>2, FS_Subset, FS_CardinalityType
    <3>5. Cardinality(archived') = Cardinality(archived) + 1
      BY <1>4, <3>2, FS_AddElement
    <3>6. Len(sessions) + Cardinality(Creating) <= Cardinality(archived)
      BY <1>2 DEF TablesFit
    <3>7. Len(sessions') + Cardinality(Creating') <= Cardinality(archived')
      BY <1>1, <2>1, <3>2, <3>3, <3>4, <3>5, <3>6
    <3>8. /\ \A i \in 1 .. Len(quotes') : quotes'[i].by \in archived'
          /\ OneQuotePerMessage' /\ WaitingHasPayment'
          /\ \A k \in Key : IF pay'[k].state = "none" THEN pay'[k] = NoRow ELSE k[1] \in 1 .. Len(sessions')
          /\ \A n \in notices' : n.tx[1] \in 1 .. Len(sessions')
      BY <1>1, <1>2, <1>4 DEF TablesFit, OneQuotePerMessage, WaitingHasPayment
    <3> QED  BY <3>7, <3>8 DEF TablesFit
  <2>6. JobFits(w)'
    <3>1. /\ Number(w)' = n0 /\ lock'[n0] = w /\ job'[w].msg = m /\ m \in Messages /\ m \in archived'
      BY <1>1, <1>2, <1>4, <2>2, <2>3 DEF Number, JobFits, Working
    <3>2. \A i \in 1 .. Len(quotes') : quotes'[i].by # m
      BY <1>1, <1>2, <1>4 DEF TablesFit
    <3>3. CASE j.pc = "creating" /\ ActiveOf(n0) = {}
      <4>1. ActiveOf(Number(w))' = {}
        BY <1>1, <3>1, <3>3 DEF ActiveOf, Active
      <4>2. job'[w].pc = "creating"
        BY <2>3, <3>3
      <4> QED  BY <3>1, <3>2, <4>1, <4>2 DEF JobFits, HasRow
    <3>4. CASE /\ j.pc = "engine" /\ j.sid \in 1 .. Len(sessions)
               /\ sessions[j.sid].number = n0 /\ j.seen = sessions[j.sid]
               /\ j.seen \in SessionType
      <4>1. /\ job'[w].pc = "engine" /\ job'[w].sid \in 1 .. Len(sessions')
            /\ sessions'[job'[w].sid].number = n0 /\ job'[w].seen = sessions'[job'[w].sid]
            /\ job'[w].seen \in SessionType
        BY <1>1, <2>3, <3>4
      <4> QED  BY <3>1, <3>2, <4>1 DEF JobFits
    <3> QED  BY <2>2, <3>3, <3>4
  <2>7. \A n \in Numbers : lock[n] \notin {w, Nobody} => lock'[n] = lock[n] /\ Quiet(n)
    BY <1>1, <1>4, NothingIsQuiet
  <2>8. /\ archived \subseteq archived' /\ \A k \in Key : pay[k].state # "none" => pay'[k].state # "none"
        /\ \A i \in 1 .. Len(quotes') : i \in 1 .. Len(quotes) /\ quotes'[i] = quotes[i]
    BY <1>1, <1>4
  <2> QED  BY <2>3, <2>4, <2>5, <2>6, <2>7, <2>8, WorkerKeeps
<1> QED  BY <1>1, <1>3, <1>4

LEMMA CreateSessionKeeps ==
  ASSUME Inv, NEW w \in Handlers, CreateSession(w)
  PROVE  Inv'
<1> DEFINE n0 == Number(w)
           new == NewSession(n0)
           last == Len(sessions) + 1
           j == [job[w] EXCEPT !.pc = "engine", !.sid = last, !.seen = new]
<1>1. /\ job[w].pc = "creating"
      /\ UNCHANGED <<received, repeats, archived, quotes, pay, notices, faults>>
      /\ \/ Release(w) /\ sessions' = sessions
         \/ sessions' = Append(sessions, new) /\ job' = [job EXCEPT ![w] = j] /\ lock' = lock
  BY DEF CreateSession, At, tables
<1>2. TypeOK /\ JobFits(w) /\ TablesFit /\ job[w].msg \in Messages /\ n0 \in Numbers
  BY <1>1, HasNumber DEF Inv
<1>3. CASE Release(w) /\ sessions' = sessions
  <2>1. faults' \in 0 .. MaxFaults
    BY <1>1, <1>2 DEF TypeOK
  <2> QED  BY <1>1, <1>3, <2>1, EndKeeps
<1>4. CASE sessions' = Append(sessions, new) /\ job' = [job EXCEPT ![w] = j] /\ lock' = lock
  <2>1. /\ job[w] \in JobShape /\ job \in [Handlers -> JobShape] /\ Len(sessions) \in Nat
        /\ sessions \in Seq(SessionType)
    BY <1>2, SessionsTyped
  <2>2. /\ new \in SessionType /\ new.number = n0 /\ new.step # "payment_wait"
    <3>1. None # "payment_wait"
      BY DEF Steps, Selling
    <3> QED  BY <1>2, <3>1, NewRow
  <2>3. /\ sessions' \in Seq(SessionType) /\ Len(sessions') = last /\ sessions'[last] = new
        /\ \A s \in 1 .. Len(sessions) : sessions'[s] = sessions[s]
    BY <1>4, <2>1, <2>2, AppendProperties
  <2> HIDE DEF new
  <2>4. /\ j \in JobShape /\ j.msg = job[w].msg /\ j.pc = "engine" /\ j.sid = last /\ j.seen = new
    <3>1. "engine" \in JobPCs /\ last \in Nat
      BY <2>1 DEF JobPCs
    <3>2. job[w] \in JobShape /\ new \in SessionType
      BY <2>1, <2>2
    <3>3. j = [job[w] EXCEPT !.pc = "engine", !.sid = last, !.seen = new]
      OBVIOUS
    <3> HIDE DEF last, j
    <3> QED  BY <3>1, <3>2, <3>3 DEF JobShape
  <2> HIDE DEF j
  <2>5. job' \in [Handlers -> JobShape] /\ job'[w] = j /\ \A q \in Handlers \ {w} : job'[q] = job[q]
    BY <1>4, <2>1, <2>4
  <2>6. TypeOK'
    BY <1>1, <1>2, <1>4, <2>3, <2>5 DEF TypeOK, JobShape
  <2>7. TablesFit'
    <3>1. Creating' = Creating \ {w} /\ w \in Creating
      BY <1>1, <2>4, <2>5 DEF Creating
    <3>2. IsFiniteSet(Creating) /\ Cardinality(Creating) \in Nat /\ Cardinality(archived) \in Nat
      BY <1>2, Counted
    <3>3. Cardinality(Creating') = Cardinality(Creating) - 1
      BY <3>1, <3>2, FS_RemoveElement
    <3>4. Len(sessions) + Cardinality(Creating) <= Cardinality(archived)
      BY <1>2 DEF TablesFit
    <3>5. Len(sessions') + Cardinality(Creating') <= Cardinality(archived')
      BY <1>1, <2>1, <2>3, <3>2, <3>3, <3>4
    <3>6. /\ \A i \in 1 .. Len(quotes') : quotes'[i].by \in archived'
          /\ OneQuotePerMessage'
      BY <1>1, <1>2 DEF TablesFit, OneQuotePerMessage
    <3>7. 1 .. Len(sessions) \subseteq 1 .. Len(sessions')
      BY <2>1, <2>3
    <3>8. /\ \A k \in Key : IF pay'[k].state = "none" THEN pay'[k] = NoRow ELSE k[1] \in 1 .. Len(sessions')
          /\ \A n \in notices' : n.tx[1] \in 1 .. Len(sessions')
      BY <1>1, <1>2, <3>7 DEF TablesFit
    <3>9. WaitingHasPayment'
      <4> SUFFICES ASSUME NEW s \in 1 .. Len(sessions'), sessions'[s].step = "payment_wait"
                   PROVE  /\ sessions'[s].tx \in Key /\ sessions'[s].tx[1] = s
                          /\ pay'[sessions'[s].tx].state # "none"
        BY DEF WaitingHasPayment
      <4>1. s # last
        BY <2>2, <2>3
      <4>2. s \in 1 .. Len(sessions)
        BY <2>1, <2>3, <4>1
      <4>3. sessions[s].tx \in Key /\ sessions[s].tx[1] = s /\ pay[sessions[s].tx].state # "none"
        BY <1>2, <2>3, <4>2 DEF TablesFit, WaitingHasPayment
      <4> QED  BY <1>1, <2>3, <4>2, <4>3
    <3> QED  BY <3>5, <3>6, <3>8, <3>9 DEF TablesFit
  <2>8. JobFits(w)'
    <3>1. /\ Number(w)' = n0 /\ lock'[n0] = w /\ job'[w].msg \in Messages /\ job'[w].msg \in archived'
          /\ \A i \in 1 .. Len(quotes') : quotes'[i].by # job'[w].msg
      BY <1>1, <1>2, <1>4, <2>4, <2>5 DEF Number, JobFits, Working, Acting
    <3>2. /\ job'[w].pc = "engine" /\ job'[w].sid \in 1 .. Len(sessions')
          /\ sessions'[job'[w].sid].number = n0 /\ job'[w].seen = sessions'[job'[w].sid]
          /\ job'[w].seen \in SessionType
      BY <2>1, <2>2, <2>3, <2>4, <2>5
    <3> QED  BY <3>1, <3>2 DEF JobFits
  <2>9. \A n \in Numbers : lock[n] \notin {w, Nobody} => lock'[n] = lock[n] /\ Quiet(n)
    <3> SUFFICES ASSUME NEW n \in Numbers, lock[n] \notin {w, Nobody}
                 PROVE  Quiet(n)
      BY <1>4
    <3>1. n # n0
      BY <1>1, <1>2 DEF JobFits, Working
    <3>2. \A s \in 1 .. Len(sessions') : s = last \/ s \in 1 .. Len(sessions)
      BY <2>1, <2>3
    <3>3. 1 .. Len(sessions) \subseteq 1 .. Len(sessions')
      BY <2>1, <2>3
    <3>4. sessions'[last].number # n
      BY <2>2, <2>3, <3>1
    <3> QED  BY <2>3, <3>2, <3>3, <3>4 DEF Quiet
  <2>10. /\ archived \subseteq archived' /\ \A k \in Key : pay[k].state # "none" => pay'[k].state # "none"
         /\ \A i \in 1 .. Len(quotes') : i \in 1 .. Len(quotes) /\ quotes'[i] = quotes[i]
    BY <1>1
  <2> QED  BY <2>5, <2>6, <2>7, <2>8, <2>9, <2>10, WorkerKeeps
<1> QED  BY <1>1, <1>3, <1>4

(* The quote of a confirmation is the first of its message.                 *)
LEMMA ConfirmKeeps ==
  ASSUME Inv, NEW w \in Handlers, Confirm(w)
  PROVE  Inv'
<1> DEFINE r == job[w].seen
           m == job[w].msg
           last == Len(quotes) + 1
           q == [session |-> job[w].sid, price |-> PriceOf(r), by |-> m]
           j == [job[w] EXCEPT !.pc = "quoted", !.seen = Answered(r), !.quote = last]
<1>1. /\ Engine(w) /\ r.step = "review" /\ PriceOf(r) > 0
      /\ quotes' = Append(quotes, q) /\ job' = [job EXCEPT ![w] = j]
      /\ UNCHANGED <<sessions, received, repeats, archived, pay, notices, lock>>
  BY DEF Confirm, In
<1>2. "review" \in Answerable
  BY DEF Answerable, Steps, Selling
<1>3. /\ HasRow(w) /\ r \in SessionType /\ faults' \in 0 .. MaxFaults /\ job[w].pc = "engine"
      /\ Answered(r) \in SessionType
  BY <1>1, <1>2, AnswerReads, EngineReads
<1>4. TypeOK /\ JobFits(w) /\ TablesFit
  BY DEF Inv
<1>5. /\ m \in Messages /\ m \in archived /\ lock[Number(w)] = w
      /\ job[w].sid \in 1 .. Len(sessions) /\ sessions[job[w].sid].number = Number(w)
      /\ \A i \in 1 .. Len(quotes) : quotes[i].by # m
  BY <1>3, <1>4 DEF JobFits, HasRow, Acting, Working
<1>6. /\ job[w] \in JobShape /\ job \in [Handlers -> JobShape] /\ Len(quotes) \in Nat
      /\ quotes \in Seq([session : Nat, price : Nat \ {0}, by : Messages])
      /\ Len(sessions) \in Nat
  BY <1>4, SessionsTyped
<1>7. q \in [session : Nat, price : Nat \ {0}, by : Messages] /\ q.by = m
  <2>1. PriceOf(r) \in Nat
    <3>1. r.trip \in Trips \cup {None} /\ r.plan \in Plans \cup {None}
      BY <1>3, RowFields
    <3> QED  BY <3>1 DEF PriceOf
  <2>2. PriceOf(r) \in Nat \ {0} /\ job[w].sid \in Nat
    BY <1>1, <1>5, <1>6, <2>1
  <2> QED  BY <1>5, <2>2
<1>8. /\ j \in JobShape /\ j.msg = m /\ j.sid = job[w].sid /\ j.pc = "quoted" /\ j.seen \in SessionType
  <2>1. "quoted" \in JobPCs /\ last \in Nat
    BY <1>6 DEF JobPCs
  <2> DEFINE row == Answered(r)
  <2>2. row \in SessionType /\ job[w] \in JobShape
    BY <1>3, <1>6
  <2>3. j = [job[w] EXCEPT !.pc = "quoted", !.seen = row, !.quote = last]
    OBVIOUS
  <2> HIDE DEF last, row, j
  <2> QED  BY <2>1, <2>2, <2>3 DEF JobShape
<1> HIDE DEF q, j
<1>9. /\ quotes' \in Seq([session : Nat, price : Nat \ {0}, by : Messages]) /\ Len(quotes') = last
      /\ quotes'[last] = q /\ \A i \in 1 .. Len(quotes) : quotes'[i] = quotes[i]
  BY <1>1, <1>6, <1>7, AppendProperties
<1>10. job' \in [Handlers -> JobShape] /\ job'[w] = j /\ \A v \in Handlers \ {w} : job'[v] = job[v]
  BY <1>1, <1>6, <1>8
<1>11. TypeOK'
  BY <1>1, <1>3, <1>4, <1>9, <1>10 DEF TypeOK, JobShape
<1>12. \A i \in 1 .. Len(quotes') : i = last \/ i \in 1 .. Len(quotes)
  BY <1>6, <1>9
<1>13. TablesFit'
  <2>1. \A i \in 1 .. Len(quotes') : quotes'[i].by \in archived'
    BY <1>1, <1>4, <1>5, <1>7, <1>9, <1>12 DEF TablesFit
  <2>2. OneQuotePerMessage'
    <3> SUFFICES ASSUME NEW i \in 1 .. Len(quotes'), NEW k \in 1 .. Len(quotes'),
                        quotes'[i].by = quotes'[k].by
                 PROVE  i = k
      BY DEF OneQuotePerMessage
    <3>1. CASE i = last \/ k = last
      BY <1>5, <1>7, <1>9, <1>12, <3>1
    <3>2. CASE i # last /\ k # last
      BY <1>4, <1>9, <1>12, <3>2 DEF TablesFit, OneQuotePerMessage
    <3> QED  BY <3>1, <3>2
  <2>3. Len(sessions') + Cardinality(Creating') <= Cardinality(archived')
    <3>1. Creating' = Creating
      BY <1>3, <1>8, <1>10 DEF Creating
    <3> QED  BY <1>1, <1>4, <3>1 DEF TablesFit
  <2>4. /\ \A k \in Key : IF pay'[k].state = "none" THEN pay'[k] = NoRow ELSE k[1] \in 1 .. Len(sessions')
        /\ \A n \in notices' : n.tx[1] \in 1 .. Len(sessions')
        /\ WaitingHasPayment'
    BY <1>1, <1>4 DEF TablesFit, WaitingHasPayment
  <2> QED  BY <2>1, <2>2, <2>3, <2>4 DEF TablesFit
<1>14. JobFits(w)'
  <2>1. /\ Number(w)' = Number(w) /\ job'[w].pc = "quoted" /\ job'[w].msg \in Messages
        /\ lock'[Number(w)'] = w /\ job'[w].msg \in archived'
        /\ job'[w].sid \in 1 .. Len(sessions') /\ sessions'[job'[w].sid].number = Number(w)'
        /\ job'[w].seen \in SessionType
    BY <1>1, <1>5, <1>8, <1>10 DEF Number
  <2> QED  BY <2>1 DEF JobFits
<1>15. \A n \in Numbers : lock[n] \notin {w, Nobody} => lock'[n] = lock[n] /\ Quiet(n)
  BY <1>1, NothingIsQuiet
<1>16. \A i \in 1 .. Len(quotes') : \/ i \in 1 .. Len(quotes) /\ quotes'[i] = quotes[i]
                                    \/ Working(w) /\ quotes'[i].by = job[w].msg
  BY <1>3, <1>7, <1>9, <1>12 DEF HasRow, Acting
<1>17. archived \subseteq archived' /\ \A k \in Key : pay[k].state # "none" => pay'[k].state # "none"
  BY <1>1
<1> QED  BY <1>10, <1>11, <1>13, <1>14, <1>15, <1>16, <1>17, WorkerKeeps

-----------------------------------------------------------------------------
(* Steps that no request takes                                              *)

LEMMA OthersKeep ==
  ASSUME Inv, TypeOK', TablesFit', job' = job, lock' = lock, quotes' = quotes,
         \A n \in Numbers : Quiet(n),
         archived \subseteq archived',
         \A k \in Key : pay[k].state # "none" => pay'[k].state # "none"
  PROVE  Inv'
<1>1. ASSUME NEW q \in Handlers
      PROVE  JobFits(q)'
  <2>1. JobFits(q)
    BY DEF Inv
  <2>2. Working(q) => lock'[Number(q)] = q /\ Quiet(Number(q))
    BY <2>1, HasNumber DEF JobFits, Working
  <2>3. job'[q] = job[q] /\ \A i \in 1 .. Len(quotes') : i \in 1 .. Len(quotes) /\ quotes'[i] = quotes[i]
    OBVIOUS
  <2> QED  BY <2>2, <2>3, Bystander
<1> QED  BY <1>1 DEF Inv

LEMMA ExpireQuiet ==
  ASSUME Inv, NEW stale, Expire(stale)
  PROVE  /\ sessions' \in Seq(SessionType) /\ Len(sessions') = Len(sessions)
         /\ \A s \in 1 .. Len(sessions) : sessions'[s].step = sessions[s].step /\ sessions'[s].tx = sessions[s].tx
         /\ \A n : Quiet(n)
<1> DEFINE last == Len(sessions)
<1>1. last \in Nat /\ \A s \in 1 .. last : sessions[s] \in SessionType
  BY SessionsTyped DEF Inv
<1>2. sessions' = [s \in 1 .. last |->
                     IF s \in stale THEN [sessions[s] EXCEPT !.status = "expired"] ELSE sessions[s]]
  BY DEF Expire
<1>3. ASSUME NEW s \in 1 .. last
      PROVE  /\ sessions'[s] \in SessionType
             /\ \A f \in Columns \ {"status"} : sessions'[s][f] = sessions[s][f]
             /\ sessions'[s].status = "active" => sessions[s].status = "active"
  <2>1. sessions'[s] = IF s \in stale THEN [sessions[s] EXCEPT !.status = "expired"] ELSE sessions[s]
    BY <1>2
  <2>2. CASE s \in stale
    <3>1. "expired" \in Statuses /\ sessions[s] \in SessionType
      BY <1>1 DEF Statuses
    <3> QED  BY <2>1, <2>2, <3>1, StatusRow
  <2>3. CASE s \notin stale
    BY <1>1, <2>1, <2>3
  <2> QED  BY <2>2, <2>3
<1>4. sessions' \in [1 .. last -> SessionType]
  BY <1>2, <1>3
<1>5. sessions' \in Seq(SessionType) /\ Len(sessions') = last
  <2>1. sessions' \in Seq(SessionType) /\ DOMAIN sessions' = 1 .. last
    BY <1>1, <1>4, SeqDef
  <2>2. Len(sessions') \in Nat /\ DOMAIN sessions' = 1 .. Len(sessions')
    BY <2>1, LenProperties
  <2> HIDE DEF last
  <2> QED  BY <1>1, <2>1, <2>2
<1>6. "step" \in Columns /\ "tx" \in Columns /\ "number" \in Columns
  BY DEF Columns
<1>7. \A n : Quiet(n)
  BY <1>3, <1>5, <1>6 DEF Quiet
<1> QED  BY <1>3, <1>5, <1>6, <1>7

LEMMA Delivered ==
  ASSUME TypeOK, NEW m \in Messages, Deliver(m)
  PROVE  received' \in [Numbers -> 0 .. MaxMessages] /\ repeats' \in 0 .. MaxRepeats
<1>1. m[1] \in Numbers /\ m[2] \in 1 .. MaxMessages
  BY DEF Messages
<1>2. received \in [Numbers -> 0 .. MaxMessages] /\ repeats \in 0 .. MaxRepeats
  BY DEF TypeOK
<1>3. m[2] \in 0 .. MaxMessages
  BY <1>1
<1> QED  BY <1>1, <1>2, <1>3 DEF Deliver

LEMMA ReceiveKeeps ==
  ASSUME Inv, NEW w \in Handlers, NEW m \in Messages, NEW stale, Receive(w, m, stale)
  PROVE  Inv'
<1> DEFINE j == [Idle EXCEPT !.pc = "locking", !.msg = m]
<1>1. /\ Deliver(m) /\ Expire(stale) /\ job' = [job EXCEPT ![w] = j]
      /\ UNCHANGED <<archived, quotes, pay, notices, lock, faults>>
  BY DEF Receive
<1>2. TypeOK /\ job \in [Handlers -> JobShape]
  BY SessionsTyped DEF Inv
<1>3. j \in JobShape /\ j.pc = "locking" /\ j.msg = m
  BY DEF Idle, JobShape, JobPCs
<1> HIDE DEF j
<1>4. job' \in [Handlers -> JobShape] /\ job'[w] = j /\ \A q \in Handlers \ {w} : job'[q] = job[q]
  BY <1>1, <1>2, <1>3
<1>5. /\ sessions' \in Seq(SessionType) /\ Len(sessions') = Len(sessions)
      /\ \A s \in 1 .. Len(sessions) : sessions'[s].step = sessions[s].step /\ sessions'[s].tx = sessions[s].tx
      /\ \A n : Quiet(n)
  BY <1>1, ExpireQuiet
<1>6. TypeOK'
  BY <1>1, <1>2, <1>4, <1>5, Delivered DEF TypeOK, JobShape
<1>7. TablesFit'
  <2>1. \A v \in Handlers : job'[v].pc = "creating" => job[v].pc = "creating"
    BY <1>3, <1>4
  <2>2. /\ \A n \in notices' : n.tx[1] \in 1 .. Len(sessions)
        /\ \A k \in Key : pay'[k].state = "none" => pay'[k] = NoRow
    BY <1>1, PayTyped
  <2> QED  BY <1>1, <1>5, <1>6, <2>1, <2>2, TablesLater
<1>8. JobFits(w)'
  BY <1>3, <1>4 DEF JobFits, Working, Acting, HasRow
<1>9. \A n \in Numbers : lock[n] \notin {w, Nobody} => lock'[n] = lock[n] /\ Quiet(n)
  BY <1>1, <1>5
<1>10. /\ archived \subseteq archived' /\ \A k \in Key : pay[k].state # "none" => pay'[k].state # "none"
       /\ \A i \in 1 .. Len(quotes') : i \in 1 .. Len(quotes) /\ quotes'[i] = quotes[i]
  BY <1>1
<1> QED  BY <1>4, <1>6, <1>7, <1>8, <1>9, <1>10, WorkerKeeps

LEMMA RateLimitedKeeps ==
  ASSUME Inv, NEW w \in Handlers, NEW m \in Messages, NEW stale, RateLimited(w, m, stale)
  PROVE  Inv'
<1>1. /\ Deliver(m) /\ Expire(stale) /\ archived' = archived \cup {m}
      /\ UNCHANGED <<quotes, pay, notices, lock, job, faults>>
  BY DEF RateLimited
<1>2. TypeOK
  BY DEF Inv
<1>3. /\ sessions' \in Seq(SessionType) /\ Len(sessions') = Len(sessions)
      /\ \A s \in 1 .. Len(sessions) : sessions'[s].step = sessions[s].step /\ sessions'[s].tx = sessions[s].tx
      /\ \A n : Quiet(n)
  BY <1>1, ExpireQuiet
<1>4. TypeOK'
  BY <1>1, <1>2, <1>3, Delivered DEF TypeOK
<1>5. /\ archived \subseteq archived' /\ \A k \in Key : pay[k].state # "none" => pay'[k].state # "none"
      /\ \A n \in notices' : n.tx[1] \in 1 .. Len(sessions)
      /\ \A k \in Key : pay'[k].state = "none" => pay'[k] = NoRow
  BY <1>1, PayTyped
<1>6. TablesFit'
  BY <1>1, <1>3, <1>4, <1>5, TablesLater
<1> QED  BY <1>1, <1>3, <1>4, <1>5, <1>6, OthersKeep

-----------------------------------------------------------------------------
(* Outcomes and crashes                                                     *)

LEMMA SettleKeeps ==
  ASSUME Inv, NEW k \in Key, NEW outcome \in {"completed", "failed"}, Settle(k, outcome)
  PROVE  Inv'
<1>1. PICK st \in {"open", "ended"} : pay' = [pay EXCEPT ![k].state = st]
  BY DEF Settle
<1>2. /\ pay[k].state = "open" /\ notices' = notices \cup {[tx |-> k, outcome |-> outcome, sending |-> FALSE]}
      /\ UNCHANGED <<sessions, received, repeats, archived, quotes, lock, job, faults>>
  BY DEF Settle
<1>3. TypeOK /\ k[1] \in 1 .. Len(sessions)
  BY <1>2, PayTyped DEF Inv
<1>4. /\ pay' \in [Key -> [state : {"none", "open", "ended"}, case : Nat, amount : Nat]]
      /\ \A x \in Key : pay'[x].state # "none" <=> pay[x].state # "none"
      /\ \A x \in Key : pay'[x].state = "none" => pay'[x] = NoRow
  BY <1>1, <1>2, PayTyped
<1>5. TypeOK'
  <2>1. [tx |-> k, outcome |-> outcome, sending |-> FALSE]
          \in [tx : Key, outcome : {"completed", "failed"}, sending : BOOLEAN]
    OBVIOUS
  <2>2. notices' \subseteq [tx : Key, outcome : {"completed", "failed"}, sending : BOOLEAN]
    BY <1>2, <1>3, <2>1 DEF TypeOK
  <2> QED  BY <1>2, <1>3, <1>4, <2>2 DEF TypeOK
<1>6. /\ \A n \in notices' : n.tx[1] \in 1 .. Len(sessions)
      /\ \A n \in Numbers : Quiet(n)
      /\ \A s \in 1 .. Len(sessions) : sessions'[s].step = "payment_wait" =>
           sessions[s].step = "payment_wait" /\ sessions'[s].tx = sessions[s].tx
  BY <1>2, <1>3, PayTyped, NothingIsQuiet
<1>7. TablesFit'
  BY <1>2, <1>4, <1>5, <1>6, TablesLater
<1> QED  BY <1>2, <1>4, <1>5, <1>6, <1>7, OthersKeep

LEMMA NotifyKeeps ==
  ASSUME Inv, NEW n \in notices, Notify(n)
  PROVE  Inv'
<1>1. UNCHANGED <<sessions, received, repeats, archived, quotes, pay, lock, job, faults>>
  BY DEF Notify
<1>2. notices \subseteq [tx : Key, outcome : {"completed", "failed"}, sending : BOOLEAN] /\ TypeOK
  BY DEF Inv, TypeOK
<1>3. \A x \in notices' : x \in notices \/ x = [n EXCEPT !.sending = TRUE]
  BY DEF Notify
<1>4. /\ [n EXCEPT !.sending = TRUE] \in [tx : Key, outcome : {"completed", "failed"}, sending : BOOLEAN]
      /\ [n EXCEPT !.sending = TRUE].tx = n.tx
  <2>1. n \in [tx : Key, outcome : {"completed", "failed"}, sending : BOOLEAN]
    BY <1>2
  <2> QED  BY <2>1
<1>5. TypeOK'
  <2>1. notices' \subseteq [tx : Key, outcome : {"completed", "failed"}, sending : BOOLEAN]
    BY <1>2, <1>3, <1>4
  <2> QED  BY <1>1, <1>2, <2>1 DEF TypeOK
<1>6. /\ \A x \in notices' : x.tx[1] \in 1 .. Len(sessions)
      /\ \A k \in Key : pay'[k].state = "none" => pay'[k] = NoRow
      /\ \A x \in Numbers : Quiet(x)
  BY <1>1, <1>3, <1>4, PayTyped, NothingIsQuiet
<1>7. TablesFit'
  BY <1>1, <1>5, <1>6, TablesLater
<1> QED  BY <1>1, <1>5, <1>6, <1>7, OthersKeep

LEMMA ResumeAfterPaymentKeeps ==
  ASSUME Inv, NEW n \in notices, ResumeAfterPayment(n)
  PROVE  Inv'
<1> DEFINE t == n.tx[1]
           row == IF n.outcome = "completed" THEN [Goto(sessions[t], "done") EXCEPT !.status = "completed"]
                  ELSE Goto(sessions[t], "payment_retry")
<1>1. /\ sessions' = [sessions EXCEPT ![t] = row] /\ notices' = notices \ {n}
      /\ UNCHANGED <<received, repeats, archived, quotes, pay, lock, job, faults>>
  BY DEF ResumeAfterPayment
<1>2. TypeOK /\ t \in 1 .. Len(sessions) /\ sessions \in Seq(SessionType) /\ sessions[t] \in SessionType
  BY PayTyped, SessionsTyped DEF Inv
<1>3. /\ row \in SessionType /\ row.step # "payment_wait"
      /\ row.status = "active" => sessions[t].status = "active"
      /\ \A f \in Columns \ {"status", "step"} : row[f] = sessions[t][f]
  <2>1. CASE n.outcome = "completed"
    <3> DEFINE at == Goto(sessions[t], "done")
    <3>1. "done" \in Steps /\ "completed" \in Statuses /\ "step" \in Columns
      BY DEF Steps, Selling, Statuses, Columns
    <3>2. at \in SessionType /\ at.step = "done" /\ \A f \in Columns \ {"step"} : at[f] = sessions[t][f]
      BY <1>2, <3>1, GotoRow
    <3>3. row = [at EXCEPT !.status = "completed"]
      BY <2>1
    <3> HIDE DEF row, at
    <3>4. /\ [at EXCEPT !.status = "completed"] \in SessionType
          /\ [at EXCEPT !.status = "completed"].status = "completed"
          /\ \A f \in Columns \ {"status"} : [at EXCEPT !.status = "completed"][f] = at[f]
      BY <3>1, <3>2, StatusRow
    <3>5. row.step = "done"
      BY <3>1, <3>2, <3>3, <3>4
    <3>6. row.status = "completed" /\ row \in SessionType
      BY <3>3, <3>4
    <3>7. \A f \in Columns \ {"status", "step"} : row[f] = sessions[t][f]
      BY <3>2, <3>3, <3>4
    <3> QED  BY <3>5, <3>6, <3>7
  <2>2. CASE n.outcome # "completed"
    <3>1. "payment_retry" \in Steps /\ "status" \in Columns
      BY DEF Steps, Selling, Columns
    <3> QED  BY <1>2, <2>2, <3>1, GotoRow
  <2> QED  BY <2>1, <2>2
<1> HIDE DEF row
<1>4. /\ sessions' \in Seq(SessionType) /\ Len(sessions') = Len(sessions) /\ sessions'[t] = row
      /\ \A s \in 1 .. Len(sessions) : s # t => sessions'[s] = sessions[s]
  BY <1>1, <1>2, <1>3, ExceptSeq
<1>5. TypeOK'
  BY <1>1, <1>2, <1>4 DEF TypeOK
<1>6. /\ \A x \in notices' : x.tx[1] \in 1 .. Len(sessions)
      /\ \A k \in Key : pay'[k].state = "none" => pay'[k] = NoRow
  BY <1>1, PayTyped
<1>7. \A s \in 1 .. Len(sessions) : sessions'[s].step = "payment_wait" =>
        sessions[s].step = "payment_wait" /\ sessions'[s].tx = sessions[s].tx
  BY <1>3, <1>4
<1>8. TablesFit'
  BY <1>1, <1>4, <1>5, <1>6, <1>7, TablesLater
<1>9. ASSUME NEW x \in Numbers
      PROVE  Quiet(x)
  <2>1. "number" \in Columns
    BY DEF Columns
  <2>2. \A s \in 1 .. Len(sessions) :
          /\ sessions'[s].status = "active" => sessions[s].status = "active"
          /\ \A f \in Columns \ {"status", "step"} : sessions'[s][f] = sessions[s][f]
    BY <1>3, <1>4
  <2>3. \A s \in 1 .. Len(sessions) : sessions'[s].number = sessions[s].number
    BY <2>1, <2>2
  <2> QED  BY <1>4, <2>2, <2>3 DEF Quiet
<1> QED  BY <1>1, <1>5, <1>6, <1>8, <1>9, OthersKeep

LEMMA CrashKeeps ==
  ASSUME Inv, NEW lost, Crash(lost)
  PROVE  Inv'
<1>1. /\ job' = [w \in Handlers |-> Idle] /\ lock' = [n \in Numbers |-> Nobody] /\ notices' = notices \ lost
      /\ UNCHANGED <<sessions, received, repeats, archived, quotes, pay>>
  BY DEF Crash
<1>2. TypeOK /\ faults' \in 0 .. MaxFaults
  BY FaultsCounted DEF Inv, Crash
<1>3. job' \in [Handlers -> JobShape] /\ lock' \in [Numbers -> Handlers \cup {Nobody}]
      /\ \A w \in Handlers : job'[w] = Idle
  BY <1>1, IdleShape
<1>4. TypeOK'
  BY <1>1, <1>2, <1>3 DEF TypeOK, JobShape
<1>5. TablesFit'
  <2>1. \A v \in Handlers : job'[v].pc = "creating" => job[v].pc = "creating"
    BY <1>3, IdleShape
  <2>2. /\ \A n \in notices' : n.tx[1] \in 1 .. Len(sessions)
        /\ \A k \in Key : pay'[k].state = "none" => pay'[k] = NoRow
    BY <1>1, PayTyped
  <2> QED  BY <1>1, <1>4, <2>1, <2>2, TablesLater
<1>6. \A w \in Handlers : JobFits(w)'
  BY <1>3, IdleFits
<1> QED  BY <1>4, <1>5, <1>6 DEF Inv

-----------------------------------------------------------------------------
(* The invariant                                                            *)

LEMMA InitInv == Init => Inv
<1> SUFFICES ASSUME Init
             PROVE  Inv
  OBVIOUS
<1>1. sessions = <<>> /\ quotes = <<>> /\ archived = {} /\ notices = {} /\ pay = [k \in Key |-> NoRow]
      /\ job = [w \in Handlers |-> Idle]
  BY DEF Init
<1>2. Len(sessions) = 0 /\ Len(quotes) = 0 /\ sessions \in Seq(SessionType)
      /\ quotes \in Seq([session : Nat, price : Nat \ {0}, by : Messages])
  BY <1>1, EmptySeq
<1>3. job \in [Handlers -> JobShape] /\ \A w \in Handlers : job[w].pc = "idle"
  BY <1>1, IdleShape
<1>4. TypeOK
  <2>1. received \in [Numbers -> 0 .. MaxMessages] /\ repeats \in 0 .. MaxRepeats /\ faults \in 0 .. MaxFaults
    BY DEF Init
  <2>2. /\ pay \in [Key -> [state : {"none", "open", "ended"}, case : Nat, amount : Nat]]
        /\ lock \in [Numbers -> Handlers \cup {Nobody}]
    BY <1>1 DEF Init, NoRow
  <2>3. archived \subseteq Messages /\ notices \subseteq [tx : Key, outcome : {"completed", "failed"}, sending : BOOLEAN]
    BY <1>1
  <2> QED  BY <1>2, <1>3, <2>1, <2>2, <2>3 DEF TypeOK, JobShape
<1>5. \A w \in Handlers : JobFits(w)
  BY <1>3 DEF JobFits, Working, Acting, HasRow
<1>6. TablesFit
  <2>1. Creating = {}
    BY <1>3 DEF Creating
  <2>2. Len(sessions) + Cardinality(Creating) <= Cardinality(archived)
    BY <1>1, <1>2, <2>1, FS_EmptySet
  <2>3. (\A i \in 1 .. Len(quotes) : quotes[i].by \in archived) /\ OneQuotePerMessage /\ WaitingHasPayment
    BY <1>2 DEF OneQuotePerMessage, WaitingHasPayment
  <2>4. \A k \in Key : pay[k].state = "none" /\ pay[k] = NoRow
    BY <1>1 DEF NoRow
  <2>5. \A n \in notices : n.tx[1] \in 1 .. Len(sessions)
    BY <1>1
  <2> QED  BY <2>2, <2>3, <2>4, <2>5 DEF TablesFit
<1> QED  BY <1>4, <1>5, <1>6 DEF Inv

LEMMA NextInv == Inv /\ [Next]_vars => Inv'
<1> SUFFICES ASSUME Inv, [Next]_vars
             PROVE  Inv'
  OBVIOUS
<1>1. ASSUME NEW w \in Handlers, NEW m \in Messages, NEW stale \in SUBSET (1 .. Len(sessions)),
             Receive(w, m, stale) \/ RateLimited(w, m, stale)
      PROVE  Inv'
  BY <1>1, ReceiveKeeps, RateLimitedKeeps
<1>2. ASSUME NEW w \in Handlers, HandleSingleMessage(w) \/ HandlerFails(w)
      PROVE  Inv'
  <2>1. CASE TakeLock(w) \/ LockTimeout(w) \/ ReadSession(w) \/ CreateSession(w)
    BY <2>1, TakeLockKeeps, LockTimeoutKeeps, ReadSessionKeeps, CreateSessionKeeps
  <2>2. CASE Command(w)
    BY <2>2, TalkKeeps, RestartKeeps, BackKeeps, CancelKeeps DEF Command
  <2>3. CASE Flow(w)
    BY <2>3, FirstContactKeeps, NotUnderstoodKeeps, AnswerQuestionKeeps, ChoosePlanKeeps,
       CancelReviewKeeps, ChangeDetailKeeps, ChooseDetailKeeps, ConfirmKeeps, RefuseQuoteKeeps,
       AfterQuoteKeeps DEF Flow
  <2>4. CASE Paying(w)
    BY <2>4, ChooseProviderKeeps, GivePhoneKeeps, RetryPaymentKeeps, SwitchProviderKeeps,
       RefusePaymentKeeps, CreateTransactionKeeps, ParkKeeps, AcceptedKeeps, RejectedKeeps DEF Paying
  <2>5. CASE HandlerFails(w)
    BY <2>5, HandlerFailsKeeps
  <2> QED  BY <1>2, <2>1, <2>2, <2>3, <2>4, <2>5 DEF HandleSingleMessage
<1>3. ASSUME NEW k \in Key, NEW outcome \in {"completed", "failed"}, Settle(k, outcome)
      PROVE  Inv'
  BY <1>3, SettleKeeps
<1>4. ASSUME NEW n \in notices, Notify(n) \/ ResumeAfterPayment(n)
      PROVE  Inv'
  BY <1>4, NotifyKeeps, ResumeAfterPaymentKeeps
<1>5. ASSUME NEW lost \in SUBSET notices, Crash(lost)
      PROVE  Inv'
  BY <1>5, CrashKeeps
<1>6. CASE UNCHANGED vars
  <2>1. UNCHANGED <<sessions, received, repeats, archived, quotes, pay, lock, job, notices, faults>>
    BY <1>6 DEF vars
  <2>2. TypeOK'
    BY <2>1 DEF Inv, TypeOK
  <2>3. TablesFit'
    BY <2>1 DEF Inv, TablesFit, OneQuotePerMessage, WaitingHasPayment, Creating
  <2>4. \A n \in Numbers : Quiet(n)
    BY <2>1, NothingIsQuiet
  <2> QED  BY <2>1, <2>2, <2>3, <2>4, OthersKeep
<1> QED  BY <1>1, <1>2, <1>3, <1>4, <1>5, <1>6 DEF Next

THEOREM Invariance == Spec => []Inv
BY InitInv, NextInv, PTL DEF Spec

-----------------------------------------------------------------------------
(* What follows                                                             *)

(* Every variable keeps its shape, whatever a customer answers and however  *)
(* the operator edits the flow: every row of whatsapp_sessions, every quote *)
(* and every payment is one the code can read again.                        *)
THEOREM TypeCorrect == Spec => []TypeOK
<1>1. Inv => TypeOK
  BY DEF Inv
<1> QED  BY <1>1, Invariance, PTL

(* The engine patches the columns it computed from the row it read before   *)
(* (engine.js, updateSession): while it works, no other request, no expiry  *)
(* and no payment outcome changes an answer or the history of that row, so  *)
(* the patch undoes nobody's work.                                          *)
THEOREM AnswersKept == Spec => []NoAnswerLost
<1>1. Inv => NoAnswerLost
  BY DEF Inv, JobFits, NoAnswerLost
<1> QED  BY <1>1, Invariance, PTL

(* withNumberLock and INSERT IGNORE together: however many requests Meta    *)
(* starts for a number, a conversation is opened only when the number has   *)
(* none, and one confirmation makes one quote.                              *)
THEOREM OneActs == Spec => []OneAtATime
<1>1. Inv => OneAtATime
  BY DEF Inv, JobFits, TablesFit, OneAtATime, OpensOnlyWhenNone
<1> QED  BY <1>1, Invariance, PTL

(* The payment row is written, and noted on the conversation, before the    *)
(* step says that a payment is awaited (startPaymentForSession): what the   *)
(* conversation waits for exists and is of this conversation.               *)
THEOREM WaitsForItsOwn == Spec => []WaitingHasPayment
<1>1. Inv => WaitingHasPayment
  BY DEF Inv, TablesFit
<1> QED  BY <1>1, Invariance, PTL
=============================================================================
