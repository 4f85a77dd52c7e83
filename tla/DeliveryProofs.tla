---------------------------- MODULE DeliveryProofs ----------------------------
(***************************************************************************)
(* Proofs about Delivery, for any payments to announce, customers' requests*)
(* and partners' texts, any replies in a notice, attempts, windows and     *)
(* limits, however often answers are lost, statements fail and the process *)
(* dies.                                                                   *)
(***************************************************************************)
EXTENDS Delivery, FiniteSetTheorems, SequenceTheorems, TLAPS

LEMMA Sizes ==
  /\ NoticeSize \in Nat /\ NoticeSize >= 1 /\ MaxAttempts \in Nat /\ MaxAttempts >= 1
  /\ MaxSessions \in Nat /\ MaxSessions >= 1
  BY DeliveryAssumption

USE Sizes

(***************************************************************************)
(* What holds in every state.  Of the local variables of a job alone:      *)
(***************************************************************************)
Busy(r) == r.pc \in {"sending", "marking"}

Latest(r, result) == r.results # <<>> /\ r.results[Len(r.results)] = result

(* How many messages a job may have begun when its phase is over.           *)
Budget(r) ==
  IF r.phase = "notice" \/ r.pc = "deciding" THEN NoticeSize
  ELSE IF r.phase = "certificate" THEN NoticeSize + 1 ELSE NoticeSize + 2

(* There is something to say while it is said, and nothing at the stops.    *)
HasWords(r) ==
  /\ Busy(r) => r.left # <<>> /\ r.left[1] # "none" /\ r.n >= 1 /\ r.try >= 1
  /\ r.pc \in {"new", "crashed", "counting", "deciding", "done", "gaveUp"} => r.left = <<>>
  /\ r.pc \in {"new", "counting"} => r.n = 0 /\ ~r.wordsOnly
  /\ r.pc \in {"new", "counting", "crashed"} => r.phase = "notice" /\ r.results = <<>> /\ r.open
  /\ r.n + Len(r.left) <= Budget(r) + (IF Busy(r) THEN 1 ELSE 0)

(* A certificate is one reply, and its link follows a document that failed. *)
InPhase(j, r) ==
  /\ r.pc = "deciding" => r.phase = "certificate"
  /\ r.pc = "counting" => j \in Asks
  /\ r.phase # "notice" => Len(r.left) <= 1 /\ ~r.wordsOnly /\ j \notin Partners
  /\ r.phase = "fallback" => r.open
  /\ \A i \in 1 .. Len(r.left) : r.left[i] = "document" => r.open /\ r.phase = "certificate"
  /\ Latest(r, "no_document") =>
       /\ r.open /\ r.pc \notin {"done", "deciding"}
       /\ (r.phase = "certificate" /\ r.left = <<>>) \/ (r.phase = "fallback" /\ r.left # <<>>)

(* To the silent there is at most a template left to say, before anything   *)
(* else is said.                                                            *)
HeldBack(j, r) ==
  /\ r.phase = "notice" /\ ~r.open =>
       /\ j \in Notices /\ r.n <= 1
       /\ \A i \in 2 .. Len(r.left) : r.left[i] = "none"
       /\ r.left # <<>> => r.left[1] \in {"none", "template"}
       /\ r.pc = "next" /\ r.left # <<>> /\ r.left[1] = "template" => r.n = 0
  /\ r.phase = "certificate" /\ ~r.open /\ r.left # <<>> => r.left[1] \in {"none", "template"}

(* Each reply of a notice is still to be said or has a result.              *)
Accounted(j, r) ==
  j \in Notices =>
    /\ r.pc # "counting"
    /\ r.pc \notin {"new", "crashed"} =>
         /\ r.phase = "notice" =>
              /\ Len(r.results) + Len(r.left) = NoticeSize \/ (r.pc = "gaveUp" /\ r.results = <<>>)
              /\ r.pc = "done" => r.wordsOnly
         /\ r.phase # "notice" =>
              /\ Len(r.results) + Len(r.left) >= NoticeSize + (IF r.pc = "deciding" THEN 0 ELSE 1)
              /\ r.pc # "gaveUp"

Fits(j, r) == r \in Sending /\ HasWords(r) /\ InPhase(j, r) /\ HeldBack(j, r) /\ Accounted(j, r)

AllFit == \A j \in Jobs : Fits(j, sends[j])

(* What the clients and the rows of the archive say of each other: nothing  *)
(* is known of what was not begun,                                          *)
Unbegun ==
  \A j \in Jobs, i \in 1 .. NoticeSize + 2 :
    sends[j].pc # "crashed" /\ i > sends[j].n =>
      <<j, i>> \notin DOMAIN log /\ phone[<<j, i>>] = 0 /\ lost[<<j, i>>] = 0

(* what is being sent was accepted as often as the answer was lost,         *)
Attempts ==
  \A j \in Jobs : LET r == sends[j] IN
    /\ r.pc = "sending" => phone[Message(j)] = lost[Message(j)] /\ phone[Message(j)] < r.try
    /\ r.pc = "marking" => phone[Message(j)] = lost[Message(j)] + (IF r.ok THEN 1 ELSE 0)

(* and has its row,                                                         *)
InArchive ==
  \A j \in Jobs : Busy(sends[j]) =>
    IF Message(j) \in DOMAIN log
    THEN /\ log[Message(j)].status = "queued" /\ ~log[Message(j)].known
         /\ log[Message(j)].kind = sends[j].left[1] /\ log[Message(j)].step = Step(j)
    ELSE now > MinDays

(* Meta's id is of what Meta accepted.                                      *)
KnownAccepted ==
  \A m \in DOMAIN log :
    /\ log[m].at <= now
    /\ log[m].known => phone[m] > 0 /\ (log[m].status = "failed" => m \in bounced)

(* A result that says sent is of a message that was accepted.               *)
OkAccepted ==
  \A j \in Jobs : \A i \in 1 .. Len(sends[j].results) :
    sends[j].results[i] = "ok" => \E m \in Outgoing : m[1] = j /\ phone[m] > 0

(* Rows of a certificate: none before its turn, one after, a template for   *)
(* the silent.                                                              *)
RowsOf(j) ==
  LET r == sends[j] IN
  \A m \in DOMAIN log : m[1] = j /\ r.pc \notin {"new", "crashed"} =>
    /\ log[m].step = "certificate" =>
         /\ r.phase # "notice" /\ r.pc # "deciding"
         /\ r.phase = "certificate" =>
              /\ m[2] = r.n /\ ~(r.pc = "next" /\ r.left # <<>>)
              /\ ~r.open => log[m].kind = "template"
    /\ r.phase = "notice" /\ ~r.open => log[m].kind = "template"

CertificateRows == \A j \in Jobs : RowsOf(j)

(* The turn is held by the job that answers a customer.                     *)
TurnHeld == \A j \in Asks : turn = j <=> sends[j].pc \notin {"new", "crashed", "done", "gaveUp"}

(* The certificates that count against the limit, and those of a job that   *)
(* may still add one, with what it is sending set aside.                    *)
Resent == {m \in Recent : m[1] \in Asks \ uncounted /\ m \notin bounced}

MayResend(r) ==
  \/ r.phase = "notice" /\ ~r.wordsOnly /\ r.pc \in {"next", "sending", "marking"}
  \/ r.pc = "deciding"
  \/ r.phase = "certificate" /\ (r.left # <<>> \/ Latest(r, "no_document"))
  \/ r.phase = "fallback" /\ r.pc = "next" /\ r.left # <<>>

Elsewhere(j) == IF Busy(sends[j]) THEN Resent \ {Message(j)} ELSE Resent

RoomFor(j) == turn = j /\ MayResend(sends[j]) => Cardinality(Elsewhere(j)) < ResendLimit

RoomForOne == \A j \in Asks \ uncounted : RoomFor(j)

-----------------------------------------------------------------------------
(* Sequences, records and functions                                        *)

Replies == {"text", "template", "document", "none"}
Results == {"ok", "failed", "no_document", "closed", "threw"}

LEMMA TailKeeps ==
  ASSUME NEW s \in Seq(Replies), s # <<>>
  PROVE  /\ Len(s) \in Nat \ {0} /\ Head(s) = s[1] /\ s[1] \in Replies
         /\ Tail(s) \in Seq(Replies) /\ Len(Tail(s)) = Len(s) - 1
         /\ \A i \in 1 .. Len(Tail(s)) : Tail(s)[i] = s[i + 1]
         /\ Tail(s) = <<>> <=> Len(s) = 1
<1>1. Len(s) \in Nat \ {0} /\ s[1] \in Replies
  BY EmptySeq, ElementOfSeq
<1>2. Tail(s) \in Seq(Replies) /\ Len(Tail(s)) = Len(s) - 1
      /\ \A i \in 1 .. Len(Tail(s)) : Tail(s)[i] = s[i + 1]
  BY HeadTailProperties
<1>3. Tail(s) = <<>> <=> Len(s) = 1
  <2>1. Len(<<>>) = 0 /\ \A t \in Seq(Replies) : t # <<>> => Len(t) \in Nat \ {0}
    BY EmptySeq
  <2> DEFINE t == Tail(s)
  <2>2. t \in Seq(Replies) /\ Len(t) = Len(s) - 1 /\ Len(s) \in Nat
    BY <1>1, <1>2
  <2> HIDE DEF t
  <2>3. t = <<>> => Len(s) = 1
    BY <2>1, <2>2
  <2>4. Len(s) = 1 => t = <<>>
    BY <2>1, <2>2
  <2> QED
    BY <2>3, <2>4 DEF t
<1> QED
  BY <1>1, <1>2, <1>3

LEMMA AppendKeeps ==
  ASSUME NEW s \in Seq(Results), NEW e \in Results
  PROVE  /\ Append(s, e) \in Seq(Results) /\ Append(s, e) # <<>>
         /\ Len(s) \in Nat /\ Len(Append(s, e)) = Len(s) + 1
         /\ Append(s, e)[Len(s) + 1] = e
         /\ \A i \in 1 .. Len(s) : Append(s, e)[i] = s[i]
  BY AppendProperties, LenProperties

LEMMA OneReply ==
  ASSUME NEW e \in Replies
  PROVE  <<e>> \in Seq(Replies) /\ Len(<<e>>) = 1 /\ <<e>>[1] = e /\ <<e>> # <<>>
  OBVIOUS

LEMMA NoReply == <<>> \in Seq(Replies) /\ <<>> \in Seq(Results) /\ Len(<<>>) = 0
  OBVIOUS

(* The fields of the record of a job.                                       *)
LEMMA SendingFields ==
  ASSUME NEW r \in Sending
  PROVE  /\ r.pc \in {"new", "counting", "deciding", "next", "sending", "marking", "done", "gaveUp", "crashed"}
         /\ r.session \in 0 .. MaxSessions /\ r.phase \in {"notice", "certificate", "fallback"}
         /\ r.left \in Seq(Replies) /\ Len(r.left) \in Nat /\ (r.left = <<>> <=> Len(r.left) = 0)
         /\ r.n \in 0 .. NoticeSize + 2 /\ r.n \in Nat
         /\ r.open \in BOOLEAN /\ r.wordsOnly \in BOOLEAN
         /\ r.try \in 0 .. MaxAttempts /\ r.try \in Nat /\ r.ok \in BOOLEAN
         /\ r.results \in Seq(Results) /\ Len(r.results) \in Nat
<1>1. r.left \in Seq(Replies) /\ r.results \in Seq(Results)
  BY DEF Sending, Replies, Results
<1>2. Len(r.left) \in Nat /\ Len(r.results) \in Nat /\ (r.left = <<>> <=> Len(r.left) = 0)
  BY <1>1, EmptySeq, LenProperties
<1> QED
  BY <1>1, <1>2 DEF Sending

LEMMA NewJob ==
  ASSUME NEW pc \in {"new", "counting", "next", "crashed"}, NEW s \in 0 .. MaxSessions
  PROVE  /\ Job(pc, s) \in Sending
         /\ Job(pc, s).pc = pc /\ Job(pc, s).session = s /\ Job(pc, s).phase = "notice"
         /\ Job(pc, s).left = <<>> /\ Job(pc, s).n = 0 /\ Job(pc, s).open
         /\ ~Job(pc, s).wordsOnly /\ Job(pc, s).try = 0 /\ ~Job(pc, s).ok
         /\ Job(pc, s).results = <<>>
  BY NoReply DEF Job, Sending, Replies, Results

(* One job moves, the others stand still.                                   *)
Others(j) == \A k \in Jobs : k # j => sends'[k] = sends[k]

LEMMA OneMoves ==
  ASSUME sends \in [Jobs -> Sending], NEW j \in Jobs, NEW q \in Sending, Sets(j, q)
  PROVE  sends' \in [Jobs -> Sending] /\ sends'[j] = q /\ Others(j)
  BY DEF Sets, Others

-----------------------------------------------------------------------------
(* What each step of a job does to its local variables                      *)

LEMMA NoticeStep ==
  ASSUME DeliveryTypeOK, AllFit, NEW j \in Jobs, NEW sold \in BOOLEAN, Notice(j, sold)
  PROVE  LET r == sends[j] q == sends'[j] IN
         /\ sends' \in [Jobs -> Sending] /\ Others(j) /\ Fits(j, q)
         /\ r.pc = "new" /\ q.pc = "next" /\ q.phase = "notice"
         /\ q.n = 0 /\ r.n = 0 /\ q.results = <<>> /\ j \in Notices
<1> DEFINE b == Batch(Open(1), "notice" \in templates)
           q == [Job("next", 1) EXCEPT !.open = Open(1), !.wordsOnly = ~sold, !.left = b]
<1>1. b \in Seq(Replies) /\ Len(b) = NoticeSize /\ b # <<>>
      /\ \A i \in 1 .. NoticeSize : b[i] = IF Open(1) THEN "text"
                                           ELSE IF "notice" \in templates /\ i = 1 THEN "template" ELSE "none"
  <2>1. b \in [1 .. NoticeSize -> Replies]
    BY DEF Batch, Replies
  <2>2. b \in Seq(Replies)
    BY <2>1, SeqDef
  <2>3. Len(b) = NoticeSize
    BY <2>1, <2>2, LenProperties
  <2> QED
    BY <2>2, <2>3, EmptySeq DEF Batch
<1>2. Open(1) \in BOOLEAN
  BY DEF Open
<1> HIDE DEF b
<1>3. q \in Sending /\ q.pc = "next" /\ q.phase = "notice"
      /\ q.n = 0 /\ q.results = <<>> /\ q.open = Open(1) /\ q.left = b
  <2>1. 1 \in 0 .. MaxSessions
    OBVIOUS
  <2> QED
    BY <1>1, <1>2, <2>1, NewJob DEF Job, Sending, Replies, Results
<1> HIDE DEF q
<1>4. Sets(j, q) /\ j \in Notices /\ sends[j].pc = "new"
  BY DEF Notice, q, b
<1>5. sends' \in [Jobs -> Sending] /\ sends'[j] = q /\ Others(j)
  BY <1>3, <1>4, OneMoves DEF DeliveryTypeOK
<1>6. Fits(j, q)
  <2>1. HasWords(q)
    BY <1>1, <1>3 DEF HasWords, Busy, Budget
  <2>2. InPhase(j, q)
    BY <1>1, <1>2, <1>3, <1>4 DEF InPhase, Latest
  <2>3. HeldBack(j, q)
    BY <1>1, <1>2, <1>3, <1>4 DEF HeldBack
  <2>4. Accounted(j, q)
    BY <1>1, <1>3, NoReply, DeliveryAssumption DEF Accounted
  <2> QED
    BY <1>3, <2>1, <2>2, <2>3, <2>4 DEF Fits
<1>7. sends[j].n = 0
  BY <1>4 DEF AllFit, Fits, HasWords
<1> QED
  BY <1>3, <1>4, <1>5, <1>6, <1>7

LEMMA SendMessageStep ==
  ASSUME DeliveryTypeOK, AllFit, NEW j \in Jobs, SendMessage(j)
  PROVE  LET r == sends[j] q == sends'[j] IN
         /\ sends' \in [Jobs -> Sending] /\ Others(j) /\ Fits(j, q)
         /\ r.pc = "new" /\ q.pc = "next" /\ q.phase = "notice" /\ ~q.wordsOnly
         /\ q.n = 0 /\ r.n = 0 /\ q.results = <<>> /\ q.open /\ j \in Partners
<1> DEFINE q == [Job("next", session) EXCEPT !.left = <<"text">>]
<1>1. <<"text">> \in Seq(Replies) /\ Len(<<"text">>) = 1 /\ <<"text">>[1] = "text" /\ <<"text">> # <<>>
  BY OneReply DEF Replies
<1>2. q \in Sending /\ q.pc = "next" /\ q.phase = "notice" /\ ~q.wordsOnly
      /\ q.n = 0 /\ q.results = <<>> /\ q.open /\ q.left = <<"text">>
  <2>1. session \in 0 .. MaxSessions
    BY DEF DeliveryTypeOK, Sessions
  <2> QED
    BY <1>1, <2>1, NewJob DEF Job, Sending, Replies, Results
<1>3. Sets(j, q) /\ j \in Partners /\ sends[j].pc = "new"
  BY DEF SendMessage, q
<1> HIDE DEF q
<1>4. sends' \in [Jobs -> Sending] /\ sends'[j] = q /\ Others(j)
  BY <1>2, <1>3, OneMoves DEF DeliveryTypeOK
<1>5. Fits(j, q)
  <2>1. HasWords(q)
    BY <1>1, <1>2 DEF HasWords, Busy, Budget
  <2>2. InPhase(j, q)
    BY <1>1, <1>2 DEF InPhase, Latest
  <2>3. HeldBack(j, q)
    BY <1>2 DEF HeldBack
  <2>4. Accounted(j, q)
    BY <1>3, DeliveryAssumption DEF Accounted
  <2> QED
    BY <1>2, <2>1, <2>2, <2>3, <2>4 DEF Fits
<1>6. sends[j].n = 0
  BY <1>3 DEF AllFit, Fits, HasWords
<1> QED
  BY <1>2, <1>3, <1>4, <1>5, <1>6

LEMMA AskStep ==
  ASSUME DeliveryTypeOK, AllFit, NEW j \in Jobs, NEW opens \in BOOLEAN,
         opens => session < MaxSessions, AskCertificate(j, opens)
  PROVE  LET r == sends[j] q == sends'[j] IN
         /\ sends' \in [Jobs -> Sending] /\ Others(j) /\ Fits(j, q)
         /\ r.pc = "new" /\ q.pc = "counting" /\ q.phase = "notice"
         /\ q.n = 0 /\ r.n = 0 /\ q.results = <<>> /\ q.open /\ j \in Asks
<1> DEFINE q == Job("counting", session')
<1>1. q \in Sending /\ q.pc = "counting" /\ q.phase = "notice" /\ q.left = <<>> /\ ~q.wordsOnly
      /\ q.n = 0 /\ q.results = <<>> /\ q.open
  <2>1. session' \in 0 .. MaxSessions
    BY DEF DeliveryTypeOK, Sessions, AskCertificate
  <2> DEFINE s == session'
  <2>2. s \in 0 .. MaxSessions /\ q = Job("counting", s)
    BY <2>1
  <2> HIDE DEF s, q
  <2> QED
    BY <2>2, NewJob
<1>2. Sets(j, q) /\ j \in Asks /\ sends[j].pc = "new"
  BY DEF AskCertificate, q
<1> HIDE DEF q
<1>3. sends' \in [Jobs -> Sending] /\ sends'[j] = q /\ Others(j)
  BY <1>1, <1>2, OneMoves DEF DeliveryTypeOK
<1>4. Fits(j, q)
  <2>1. HasWords(q)
    BY <1>1, NoReply DEF HasWords, Busy, Budget
  <2>2. InPhase(j, q)
    BY <1>1, <1>2, NoReply DEF InPhase, Latest
  <2>3. HeldBack(j, q)
    BY <1>1 DEF HeldBack
  <2>4. Accounted(j, q)
    BY <1>2, DeliveryAssumption DEF Accounted
  <2> QED
    BY <1>1, <2>1, <2>2, <2>3, <2>4 DEF Fits
<1>5. sends[j].n = 0
  BY <1>2 DEF AllFit, Fits, HasWords
<1> QED
  BY <1>1, <1>2, <1>3, <1>4, <1>5

(* The certificates sent so far are counted, or the count fails.            *)
Counts(j) == (\E found \in BOOLEAN : Count(j, found)) \/ CountFails(j)

LEMMA CountStep ==
  ASSUME DeliveryTypeOK, AllFit, NEW j \in Jobs, Counts(j)
  PROVE  LET r == sends[j] q == sends'[j] IN
         /\ sends' \in [Jobs -> Sending] /\ Others(j) /\ Fits(j, q)
         /\ r.pc = "counting" /\ r.phase = "notice" /\ r.open
         /\ q.pc = "next" /\ q.phase = "notice" /\ q.n = r.n /\ q.results = r.results /\ q.open
         /\ q.wordsOnly \/ j \in uncounted' \/ ~(Cardinality(Recent) >= ResendLimit)
         /\ UNCHANGED <<log, heard, session, wrote, turn, templates, phone, lost, bounced, receipts, now>>
         /\ UNCHANGED failures \/ Failure
         /\ uncounted' = uncounted \/ (uncounted' = uncounted \cup {j} /\ j \in Asks)
<1> DEFINE r == sends[j]
           c == Cardinality(Recent) >= ResendLimit
<1>1. <<"text">> \in Seq(Replies) /\ Len(<<"text">>) = 1 /\ <<"text">>[1] = "text" /\ <<"text">> # <<>>
  BY OneReply DEF Replies
<1>2. r \in Sending /\ Fits(j, r) /\ r.pc = "counting"
  BY DEF DeliveryTypeOK, AllFit, Count, CountFails, Counts
<1>3. r.n = 0 /\ r.phase = "notice" /\ r.results = <<>> /\ r.open /\ j \in Asks /\ r.left = <<>> /\ ~r.wordsOnly
  BY <1>2 DEF Fits, HasWords, InPhase
<1>4. PICK t \in BOOLEAN : /\ Sets(j, [r EXCEPT !.pc = "next", !.left = <<"text">>, !.wordsOnly = t])
                           /\ t \/ j \in uncounted' \/ ~c
  <2>1. ASSUME NEW found \in BOOLEAN, Count(j, found)
        PROVE  \E t \in BOOLEAN : /\ Sets(j, [r EXCEPT !.pc = "next", !.left = <<"text">>, !.wordsOnly = t])
                                  /\ t \/ j \in uncounted' \/ ~c
    BY <2>1 DEF Count
  <2>2. ASSUME CountFails(j)
        PROVE  \E t \in BOOLEAN : /\ Sets(j, [r EXCEPT !.pc = "next", !.left = <<"text">>, !.wordsOnly = t])
                                  /\ t \/ j \in uncounted' \/ ~c
    <3>1. j \in uncounted' /\ Sets(j, [r EXCEPT !.pc = "next", !.left = <<"text">>])
      BY <2>2 DEF CountFails
    <3>2. [r EXCEPT !.pc = "next", !.left = <<"text">>]
            = [r EXCEPT !.pc = "next", !.left = <<"text">>, !.wordsOnly = FALSE]
      BY <1>2, <1>3 DEF Sending
    <3> QED
      BY <3>1, <3>2
  <2> QED
    BY <2>1, <2>2 DEF Counts
<1> DEFINE q == [r EXCEPT !.pc = "next", !.left = <<"text">>, !.wordsOnly = t]
<1> HIDE DEF r
<1>5. q \in Sending /\ q.pc = "next" /\ q.phase = "notice" /\ q.n = r.n /\ q.results = r.results
      /\ q.open /\ q.left = <<"text">> /\ q.wordsOnly = t
  BY <1>1, <1>2, <1>3, <1>4 DEF Sending, Replies
<1>9. Sets(j, q)
  BY <1>4
<1> HIDE DEF q
<1>6. sends' \in [Jobs -> Sending] /\ sends'[j] = q /\ Others(j)
  BY <1>5, <1>9, OneMoves DEF DeliveryTypeOK
<1>7. Fits(j, q)
  <2>1. HasWords(q)
    BY <1>1, <1>3, <1>5 DEF HasWords, Busy, Budget
  <2>2. InPhase(j, q)
    BY <1>1, <1>3, <1>5 DEF InPhase, Latest
  <2>3. HeldBack(j, q)
    BY <1>5 DEF HeldBack
  <2>4. Accounted(j, q)
    BY <1>3, DeliveryAssumption DEF Accounted
  <2> QED
    BY <1>5, <2>1, <2>2, <2>3, <2>4 DEF Fits
<1>8. /\ UNCHANGED <<log, heard, session, wrote, turn, templates, phone, lost, bounced, receipts, now>>
      /\ UNCHANGED failures \/ Failure
      /\ uncounted' = uncounted \/ uncounted' = uncounted \cup {j}
  BY DEF Counts, Count, CountFails
<1> QED
  BY <1>2, <1>3, <1>4, <1>5, <1>6, <1>7, <1>8 DEF r

(* A job that gives up: before anything is said, or after the whole notice. *)
GivesUp(j) == NoticeGivesUp(j) \/ AskFails(j) \/ UpdateSessionFails(j)

LEMMA GivesUpStep ==
  ASSUME DeliveryTypeOK, AllFit, NEW j \in Jobs, GivesUp(j)
  PROVE  LET r == sends[j] q == sends'[j] IN
         /\ sends' \in [Jobs -> Sending] /\ Others(j) /\ Fits(j, q)
         /\ r.pc \in {"new", "counting", "next"} /\ r.phase = "notice"
         /\ q.pc = "gaveUp" /\ q.phase = "notice" /\ q.open = r.open
         /\ q.n = r.n /\ q.results = r.results
         /\ UNCHANGED <<log, heard, session, templates, phone, lost, bounced, uncounted, receipts, now>>
         /\ UNCHANGED failures \/ Failure
         /\ wrote' \in {wrote, now} /\ turn' = IF turn = j THEN NoJob ELSE turn
<1> DEFINE r == sends[j]
           q == [r EXCEPT !.pc = "gaveUp"]
<1>1. /\ r \in Sending /\ Fits(j, r) /\ Sets(j, q)
      /\ r.pc \in {"new", "counting", "next"} /\ (r.pc = "next" => j \in Notices /\ r.left = <<>> /\ r.phase = "notice")
  BY DEF DeliveryTypeOK, AllFit, GivesUp, NoticeGivesUp, AskFails, UpdateSessionFails
<1> HIDE DEF r
<1>2. r.phase = "notice" /\ r.left = <<>> /\ HasWords(r) /\ InPhase(j, r) /\ HeldBack(j, r) /\ Accounted(j, r)
  BY <1>1 DEF Fits, HasWords
<1>3. q \in Sending /\ q.pc = "gaveUp" /\ q.phase = "notice" /\ q.open = r.open /\ q.n = r.n
      /\ q.left = <<>> /\ q.results = r.results /\ q.wordsOnly = r.wordsOnly
  BY <1>1, <1>2 DEF Sending
<1> HIDE DEF q
<1>4. sends' \in [Jobs -> Sending] /\ sends'[j] = q /\ Others(j)
  BY <1>1, <1>3, OneMoves DEF DeliveryTypeOK
<1>5. Fits(j, q)
  <2>1. HasWords(q)
    <3>1. ~Busy(q) /\ ~Busy(r) /\ Budget(q) = NoticeSize /\ Budget(r) = NoticeSize
      BY <1>1, <1>2, <1>3 DEF Busy, Budget
    <3>2. q.n + Len(q.left) <= Budget(q) + (IF Busy(q) THEN 1 ELSE 0)
      BY <1>2, <1>3, <3>1 DEF HasWords
    <3> QED
      BY <1>3, <3>1, <3>2 DEF HasWords
  <2>2. InPhase(j, q)
    <3>1. ~Latest(q, "no_document")
      BY <1>2, <1>3 DEF InPhase, Latest
    <3> QED
      BY <1>3, <3>1, NoReply DEF InPhase
  <2>3. HeldBack(j, q)
    BY <1>2, <1>3, NoReply DEF HeldBack
  <2>4. Accounted(j, q)
    <3>1. r.pc # "next" => r.results = <<>>
      BY <1>1, <1>2 DEF HasWords
    <3>2. r.pc = "next" /\ j \in Notices => Len(r.results) + Len(r.left) = NoticeSize
      BY <1>2 DEF Accounted
    <3> QED
      BY <1>1, <1>2, <1>3, <3>1, <3>2 DEF Accounted
  <2> QED
    BY <1>3, <2>1, <2>2, <2>3, <2>4 DEF Fits
<1>6. /\ UNCHANGED <<log, heard, session, templates, phone, lost, bounced, uncounted, receipts, now>>
      /\ UNCHANGED failures \/ Failure
      /\ wrote' \in {wrote, now}
  BY DEF GivesUp, NoticeGivesUp, AskFails, UpdateSessionFails
<1>7. turn' = IF turn = j THEN NoJob ELSE turn
  <2>1. turn \in Asks \cup {NoJob}
    BY DEF DeliveryTypeOK
  <2>2. CASE AskFails(j)
    BY <2>2 DEF AskFails
  <2>3. CASE j \in Notices /\ turn' = turn
    BY <2>1, <2>3, DeliveryAssumption
  <2> QED
    BY <2>2, <2>3 DEF GivesUp, NoticeGivesUp, UpdateSessionFails
<1> QED
  BY <1>1, <1>2, <1>3, <1>4, <1>5, <1>6, <1>7 DEF r

(* A reply that was dealt with leaves the record as it should be.           *)
Shortened(t, s) ==
  /\ Len(s) \in Nat \ {0} /\ Len(t) = Len(s) - 1 /\ (t = <<>> <=> Len(s) = 1)
  /\ \A i \in 1 .. Len(t) : t[i] = s[i + 1]

Extended(t, s, e) ==
  /\ Len(s) \in Nat /\ t # <<>> /\ Len(t) = Len(s) + 1 /\ t[Len(t)] = e
  /\ \A i \in 1 .. Len(s) : t[i] = s[i]

LEMMA Shortens ==
  ASSUME NEW s \in Seq(Replies), s # <<>>
  PROVE  Tail(s) \in Seq(Replies) /\ Shortened(Tail(s), s) /\ Head(s) = s[1] /\ s[1] \in Replies
  BY TailKeeps DEF Shortened

LEMMA Extends ==
  ASSUME NEW s \in Seq(Results), NEW e \in Results
  PROVE  Append(s, e) \in Seq(Results) /\ Extended(Append(s, e), s, e)
  BY AppendKeeps DEF Extended

LEMMA ReplyDone ==
  ASSUME NEW j \in Jobs, NEW r \in Sending, Fits(j, r), NEW q \in Sending, NEW e \in Results,
         r.pc \in {"next", "sending", "marking"}, r.left # <<>>,
         q.pc = "next", Shortened(q.left, r.left), Extended(q.results, r.results, e),
         q.phase = r.phase, q.open = r.open, q.wordsOnly = r.wordsOnly,
         q.n = r.n \/ (r.pc = "next" /\ r.left[1] # "none" /\ q.n = r.n + 1),
         e = "no_document" => r.left[1] = "document"
  PROVE  Fits(j, q)
<1>1. /\ Len(r.left) \in Nat \ {0} /\ Len(q.left) = Len(r.left) - 1
      /\ \A i \in 1 .. Len(q.left) : q.left[i] = r.left[i + 1]
      /\ q.left = <<>> <=> Len(r.left) = 1
  BY DEF Shortened
<1>2. /\ q.results # <<>> /\ Len(q.results) = Len(r.results) + 1
      /\ q.results[Len(q.results)] = e /\ Len(r.results) \in Nat
  BY DEF Extended
<1>3. r.n \in Nat /\ q.n \in Nat /\ r.phase \in {"notice", "certificate", "fallback"}
      /\ r.open \in BOOLEAN /\ r.wordsOnly \in BOOLEAN
  BY SendingFields
<1>4. HasWords(r) /\ InPhase(j, r) /\ HeldBack(j, r) /\ Accounted(j, r)
  BY DEF Fits
<1>5. HasWords(q)
  <2>1. r.n + Len(r.left) <= Budget(r) + (IF Busy(r) THEN 1 ELSE 0)
    BY <1>4 DEF HasWords
  <2>2. Budget(q) = Budget(r) /\ Budget(r) \in Nat
    BY <1>3 DEF Budget
  <2>3. q.n + Len(q.left) <= Budget(q)
    <3>1. CASE Busy(r)
      BY <2>1, <2>2, <1>1, <1>3, <3>1 DEF Busy
    <3>2. CASE ~Busy(r)
      BY <2>1, <2>2, <1>1, <1>3, <3>2 DEF Busy
    <3> QED
      BY <3>1, <3>2
  <2> QED
    BY <2>2, <2>3, <1>1, <1>3 DEF HasWords, Busy
<1>6. InPhase(j, q)
  <2>1. q.phase # "notice" => Len(q.left) <= 1 /\ ~q.wordsOnly /\ j \notin Partners
    BY <1>1, <1>4 DEF InPhase
  <2>2. \A i \in 1 .. Len(q.left) : q.left[i] = "document" => q.open /\ q.phase = "certificate"
    BY <1>1, <1>4 DEF InPhase
  <2>3. Latest(q, "no_document") =>
          q.open /\ q.phase = "certificate" /\ q.left = <<>>
    <3> SUFFICES ASSUME Latest(q, "no_document")
                 PROVE  q.open /\ q.phase = "certificate" /\ q.left = <<>>
      OBVIOUS
    <3>1. e = "no_document"
      BY <1>2 DEF Latest
    <3>2. r.left[1] = "document"
      BY <3>1
    <3>3. r.open /\ r.phase = "certificate" /\ Len(r.left) <= 1
      BY <3>2, <1>1, <1>4 DEF InPhase
    <3> QED
      BY <3>3, <1>1
  <2>4. q.phase = "fallback" => q.open
    BY <1>4 DEF InPhase
  <2> QED
    BY <2>1, <2>2, <2>3, <2>4 DEF InPhase
<1>7. HeldBack(j, q)
  <2>1. ASSUME q.phase = "notice", ~q.open
        PROVE  /\ j \in Notices /\ q.n <= 1
               /\ \A i \in 1 .. Len(q.left) : q.left[i] = "none"
    <3>1. j \in Notices /\ r.n <= 1 /\ \A i \in 2 .. Len(r.left) : r.left[i] = "none"
      BY <2>1, <1>4 DEF HeldBack
    <3>2. q.n <= 1
      BY <2>1, <3>1, <1>3, <1>4 DEF HeldBack
    <3>3. \A i \in 1 .. Len(q.left) : q.left[i] = "none"
      BY <3>1, <1>1
    <3> QED
      BY <3>1, <3>2, <3>3
  <2>2. q.phase = "certificate" => q.left = <<>>
    BY <1>1, <1>4 DEF InPhase
  <2>3. q.left # <<>> => Len(q.left) \in Nat \ {0}
    BY <1>1
  <2>4. ASSUME q.phase = "notice", ~q.open
        PROVE  /\ \A i \in 2 .. Len(q.left) : q.left[i] = "none"
               /\ q.left # <<>> => q.left[1] = "none"
    <3>1. Len(q.left) \in Nat
      BY <1>1
    <3> QED
      BY <2>1, <2>3, <2>4, <3>1
  <2> QED
    BY <2>1, <2>2, <2>4 DEF HeldBack
<1>8. Accounted(j, q)
  <2> SUFFICES ASSUME j \in Notices
               PROVE  Accounted(j, q)
    BY DEF Accounted
  <2>1. /\ r.phase = "notice" => Len(r.results) + Len(r.left) = NoticeSize
        /\ r.phase # "notice" => Len(r.results) + Len(r.left) >= NoticeSize + 1
    BY <1>4 DEF Accounted
  <2>2. Len(q.results) + Len(q.left) = Len(r.results) + Len(r.left)
    <3> DEFINE a == Len(r.left) b == Len(q.left) c == Len(r.results) d == Len(q.results)
    <3>1. a \in Nat /\ b = a - 1 /\ c \in Nat /\ d = c + 1
      BY <1>1, <1>2
    <3> HIDE DEF a, b, c, d
    <3>2. d + b = c + a
      BY <3>1
    <3> QED
      BY <3>2 DEF a, b, c, d
  <2>3. /\ q.phase = "notice" => Len(q.results) + Len(q.left) = NoticeSize
        /\ q.phase # "notice" => Len(q.results) + Len(q.left) >= NoticeSize + 1
    BY <2>1, <2>2
  <2> QED
    BY <2>1, <2>3 DEF Accounted
<1> QED
  BY <1>5, <1>6, <1>7, <1>8 DEF Fits

(* What moves on to another point with the same words left.                 *)
LEMMA CertificateStep ==
  ASSUME DeliveryTypeOK, AllFit, NEW j \in Jobs, NEW tooLarge \in BOOLEAN, Certificate(j, tooLarge)
  PROVE  LET r == sends[j] q == sends'[j] IN
         /\ sends' \in [Jobs -> Sending] /\ Others(j) /\ Fits(j, q)
         /\ r.pc = "deciding" /\ r.phase = "certificate" /\ q.pc = "next" /\ q.phase = "certificate"
         /\ q.n = r.n /\ q.results = r.results /\ q.left # <<>>
         /\ ~r.wordsOnly
<1> DEFINE r == sends[j]
           open == Open(r.session)
           l == IF ~open THEN IF "certificate" \in templates THEN <<"template">> ELSE <<"none">>
                ELSE IF tooLarge THEN <<"text">> ELSE <<"document">>
           q == [r EXCEPT !.pc = "next", !.open = open, !.left = l]
<1>1. l \in Seq(Replies) /\ Len(l) = 1 /\ l # <<>>
      /\ (~open => l[1] \in {"template", "none"}) /\ (l[1] = "document" => open)
  BY OneReply DEF Replies
<1>2. r \in Sending /\ Fits(j, r) /\ r.pc = "deciding" /\ Sets(j, q)
  BY DEF DeliveryTypeOK, AllFit, Certificate
<1>3. open \in BOOLEAN
  BY DEF Open
<1>4. r.n \in Nat /\ r.n <= NoticeSize /\ r.phase = "certificate" /\ ~r.wordsOnly /\ j \notin Partners
      /\ ~Latest(r, "no_document")
  <2>1. r.phase = "certificate" /\ ~r.wordsOnly /\ j \notin Partners
    BY <1>2, SendingFields DEF Fits, InPhase
  <2>2. r.left = <<>> /\ r.n + Len(r.left) <= NoticeSize /\ r.n \in Nat
    BY <1>2, <2>1, SendingFields DEF Fits, HasWords, Budget, Busy
  <2>3. r.n <= NoticeSize
    BY <2>2, NoReply
  <2>4. ~Latest(r, "no_document")
    BY <1>2 DEF Fits, InPhase
  <2> QED
    BY <2>1, <2>2, <2>3, <2>4
<1>5. Accounted(j, r)
  BY <1>2 DEF Fits
<1> HIDE DEF r, l, open
<1>6. q \in Sending /\ q.pc = "next" /\ q.phase = "certificate" /\ q.n = r.n /\ q.results = r.results
      /\ q.open = open /\ q.left = l /\ ~q.wordsOnly
  BY <1>1, <1>2, <1>3, <1>4 DEF Sending, Replies
<1> HIDE DEF q
<1>7. sends' \in [Jobs -> Sending] /\ sends'[j] = q /\ Others(j)
  BY <1>2, <1>6, OneMoves DEF DeliveryTypeOK
<1>8. Fits(j, q)
  <2>1. HasWords(q)
    <3> DEFINE a == q.n b == Len(q.left)
    <3>1. a \in Nat /\ a <= NoticeSize /\ b = 1
      BY <1>1, <1>4, <1>6
    <3> HIDE DEF a, b
    <3>2. a + b <= NoticeSize + 1
      BY <3>1
    <3>3. Budget(q) = NoticeSize + 1 /\ ~Busy(q)
      BY <1>6 DEF Budget, Busy
    <3> QED
      BY <3>2, <3>3, <1>6 DEF HasWords, a, b
  <2>2. InPhase(j, q)
    <3>1. ~Latest(q, "no_document")
      BY <1>4, <1>6 DEF Latest
    <3>3. q.left = l /\ Len(l) = 1 /\ (l[1] = "document" => q.open)
      BY <1>1, <1>3, <1>6
    <3>4. Len(q.left) = 1
      BY <3>3
    <3>2. \A i \in 1 .. Len(q.left) : q.left[i] = "document" => q.open
      <4>1. \A i \in 1 .. 1 : l[i] = "document" => q.open
        BY <3>3
      <4> QED
        BY <4>1, <3>3, <3>4
    <3> QED
      BY <1>4, <1>6, <3>1, <3>2, <3>4 DEF InPhase
  <2>3. HeldBack(j, q)
    BY <1>1, <1>6 DEF HeldBack
  <2>4. Accounted(j, q)
    <3> SUFFICES ASSUME j \in Notices
                 PROVE  Accounted(j, q)
      BY DEF Accounted
    <3>1. Len(r.results) + Len(r.left) >= NoticeSize
      <4>1. r.phase # "notice" /\ r.pc = "deciding"
        BY <1>2, <1>4
      <4>2. Len(r.results) + Len(r.left) >= NoticeSize + (IF r.pc = "deciding" THEN 0 ELSE 1)
        BY <1>2, <1>5, <4>1 DEF Accounted
      <4>3. NoticeSize + (IF r.pc = "deciding" THEN 0 ELSE 1) = NoticeSize
        BY <4>1
      <4> QED
        BY <4>2, <4>3
    <3>2. Len(r.left) = 0 /\ Len(r.results) \in Nat
      BY <1>2, SendingFields, NoReply DEF Fits, HasWords
    <3>3. Len(q.results) + Len(q.left) >= NoticeSize + 1
      BY <3>1, <3>2, <1>1, <1>6
    <3> QED
      BY <3>3, <1>6 DEF Accounted
  <2> QED
    BY <1>6, <2>1, <2>2, <2>3, <2>4 DEF Fits
<1> QED
  BY <1>1, <1>2, <1>4, <1>6, <1>7, <1>8 DEF r

LEMMA CertificateFailsStep ==
  ASSUME DeliveryTypeOK, AllFit, NEW j \in Jobs, CertificateFails(j)
  PROVE  LET r == sends[j] q == sends'[j] IN
         /\ sends' \in [Jobs -> Sending] /\ Others(j) /\ Fits(j, q)
         /\ r.pc = "deciding" /\ r.phase = "certificate" /\ q.pc = "next" /\ q.phase = "certificate"
         /\ q.n = r.n /\ q.results = Append(r.results, "threw") /\ q.left = <<>>
         /\ ~Latest(q, "no_document")
<1> DEFINE r == sends[j]
           q == [r EXCEPT !.pc = "next", !.results = Append(r.results, "threw")]
<1>1. r \in Sending /\ Fits(j, r) /\ r.pc = "deciding" /\ Sets(j, q)
  BY DEF DeliveryTypeOK, AllFit, CertificateFails
<1>2. /\ Append(r.results, "threw") \in Seq(Results) /\ Append(r.results, "threw") # <<>>
      /\ Len(r.results) \in Nat /\ Len(Append(r.results, "threw")) = Len(r.results) + 1
      /\ Append(r.results, "threw")[Len(r.results) + 1] = "threw"
  <2>1. r.results \in Seq(Results) /\ "threw" \in Results
    BY <1>1, SendingFields DEF Results
  <2> QED
    BY <2>1, AppendKeeps
<1>3. r.n \in Nat /\ r.n <= NoticeSize /\ r.phase = "certificate" /\ ~r.wordsOnly /\ j \notin Partners
      /\ r.left = <<>> /\ r.open \in BOOLEAN
  <2>1. r.phase = "certificate" /\ ~r.wordsOnly /\ j \notin Partners /\ r.open \in BOOLEAN
    BY <1>1, SendingFields DEF Fits, InPhase
  <2>2. r.left = <<>> /\ r.n + Len(r.left) <= NoticeSize /\ r.n \in Nat
    BY <1>1, <2>1, SendingFields DEF Fits, HasWords, Budget, Busy
  <2> QED
    BY <2>1, <2>2, NoReply
<1>4. Accounted(j, r)
  BY <1>1 DEF Fits
<1> HIDE DEF r
<1>5. q \in Sending /\ q.pc = "next" /\ q.phase = "certificate" /\ q.n = r.n
      /\ q.results = Append(r.results, "threw")
      /\ q.open = r.open /\ q.left = <<>> /\ ~q.wordsOnly
  BY <1>1, <1>2, <1>3 DEF Sending, Results
<1> HIDE DEF q
<1>6. sends' \in [Jobs -> Sending] /\ sends'[j] = q /\ Others(j)
  BY <1>1, <1>5, OneMoves DEF DeliveryTypeOK
<1>7. ~Latest(q, "no_document")
  BY <1>2, <1>5 DEF Latest
<1>8. Fits(j, q)
  <2>1. HasWords(q)
    BY <1>3, <1>5, NoReply DEF HasWords, Busy, Budget
  <2>2. InPhase(j, q)
    BY <1>3, <1>5, <1>7, NoReply DEF InPhase
  <2>3. HeldBack(j, q)
    BY <1>5 DEF HeldBack
  <2>4. Accounted(j, q)
    BY <1>1, <1>2, <1>3, <1>4, <1>5, NoReply DEF Accounted
  <2> QED
    BY <1>5, <2>1, <2>2, <2>3, <2>4 DEF Fits
<1> QED
  BY <1>1, <1>3, <1>5, <1>6, <1>7, <1>8 DEF r

LEMMA DropStep ==
  ASSUME DeliveryTypeOK, AllFit, NEW j \in Jobs, Drop(j)
  PROVE  LET r == sends[j] q == sends'[j] IN
         /\ sends' \in [Jobs -> Sending] /\ Others(j) /\ Fits(j, q)
         /\ r.pc = "next" /\ r.left # <<>> /\ r.left[1] = "none"
         /\ q.pc = "next" /\ q.phase = r.phase /\ q.open = r.open /\ q.wordsOnly = r.wordsOnly
         /\ q.n = r.n /\ Shortened(q.left, r.left) /\ Extended(q.results, r.results, "closed")
<1> DEFINE r == sends[j]
           q == [r EXCEPT !.left = Tail(r.left), !.results = Append(r.results, "closed")]
<1>1. r \in Sending /\ Fits(j, r) /\ r.pc = "next" /\ r.left # <<>> /\ Head(r.left) = "none" /\ Sets(j, q)
  BY DEF DeliveryTypeOK, AllFit, Drop
<1> HIDE DEF r
<1>2. Tail(r.left) \in Seq(Replies) /\ Shortened(Tail(r.left), r.left) /\ Head(r.left) = r.left[1]
  BY <1>1, SendingFields, Shortens
<1>3. Append(r.results, "closed") \in Seq(Results) /\ Extended(Append(r.results, "closed"), r.results, "closed")
  <2>1. r.results \in Seq(Results) /\ "closed" \in Results
    BY <1>1, SendingFields DEF Results
  <2> QED
    BY <2>1, Extends
<1>4. q \in Sending /\ q.pc = "next" /\ q.phase = r.phase /\ q.open = r.open /\ q.wordsOnly = r.wordsOnly
      /\ q.n = r.n /\ q.left = Tail(r.left) /\ q.results = Append(r.results, "closed")
  BY <1>1, <1>2, <1>3 DEF Sending, Replies, Results
<1> HIDE DEF q
<1>5. sends' \in [Jobs -> Sending] /\ sends'[j] = q /\ Others(j)
  BY <1>1, <1>4, OneMoves DEF DeliveryTypeOK
<1>6. Fits(j, q)
  <2>1. "closed" \in Results /\ Shortened(q.left, r.left) /\ Extended(q.results, r.results, "closed")
    BY <1>2, <1>3, <1>4 DEF Results
  <2> QED
    BY <1>1, <1>4, <2>1, ReplyDone
<1> QED
  BY <1>1, <1>2, <1>3, <1>4, <1>5, <1>6 DEF r

(* A row and the record for a message that is begun.                        *)
LEMMA RoomForMessage ==
  ASSUME NEW j \in Jobs, NEW r \in Sending, Fits(j, r), r.pc = "next", r.left # <<>>
  PROVE  r.n + 1 \in 0 .. NoticeSize + 2 /\ r.n + 1 <= Budget(r) - Len(r.left) + 1
         /\ Len(r.left) \in Nat \ {0} /\ Budget(r) \in Nat
<1>1. r.n \in Nat /\ Len(r.left) \in Nat \ {0}
  BY SendingFields
<1>2. Budget(r) \in Nat /\ Budget(r) <= NoticeSize + 2
  BY DEF Budget
<1>3. r.n + Len(r.left) <= Budget(r)
  <2>1. r.n + Len(r.left) <= Budget(r) + (IF Busy(r) THEN 1 ELSE 0) /\ ~Busy(r)
    BY DEF Fits, HasWords, Busy
  <2> QED
    BY <2>1, <1>1, <1>2
<1> QED
  BY <1>1, <1>2, <1>3

LEMMA QueueStep ==
  ASSUME DeliveryTypeOK, AllFit, NEW j \in Jobs, Queue(j)
  PROVE  LET r == sends[j] q == sends'[j] IN
         /\ sends' \in [Jobs -> Sending] /\ Others(j) /\ Fits(j, q)
         /\ r.pc = "next" /\ r.left # <<>> /\ r.left[1] # "none" /\ Head(r.left) = r.left[1]
         /\ q.pc = "sending" /\ q.phase = r.phase /\ q.open = r.open /\ q.wordsOnly = r.wordsOnly
         /\ q.n = r.n + 1 /\ r.n + 1 \in 1 .. NoticeSize + 2
         /\ q.try = 1 /\ q.left = r.left /\ q.results = r.results
<1> DEFINE r == sends[j]
           q == [r EXCEPT !.pc = "sending", !.n = r.n + 1, !.try = 1]
<1>1. r \in Sending /\ Fits(j, r) /\ r.pc = "next" /\ r.left # <<>> /\ Head(r.left) # "none" /\ Sets(j, q)
  BY DEF DeliveryTypeOK, AllFit, Queue
<1> HIDE DEF r
<1>2. Head(r.left) = r.left[1]
  BY <1>1, SendingFields, Shortens
<1>3. r.n + 1 \in 0 .. NoticeSize + 2 /\ r.n \in Nat /\ 1 \in 0 .. MaxAttempts
  BY <1>1, SendingFields, RoomForMessage
<1>4. q \in Sending /\ q.pc = "sending" /\ q.phase = r.phase /\ q.open = r.open /\ q.wordsOnly = r.wordsOnly
      /\ q.n = r.n + 1 /\ q.left = r.left /\ q.results = r.results /\ q.try = 1
  BY <1>1, <1>3 DEF Sending
<1> HIDE DEF q
<1>5. sends' \in [Jobs -> Sending] /\ sends'[j] = q /\ Others(j)
  BY <1>1, <1>4, OneMoves DEF DeliveryTypeOK
<1>6. Fits(j, q)
  <2>1. HasWords(q)
    <3>1. Budget(q) = Budget(r) /\ Busy(q)
      BY <1>1, <1>4 DEF Budget, Busy
    <3>2. q.n + Len(q.left) <= Budget(q) + 1
      BY <1>1, <1>3, <1>4, <3>1, RoomForMessage
    <3> QED
      BY <1>1, <1>2, <1>3, <1>4, <3>1, <3>2 DEF HasWords
  <2>2. InPhase(j, q)
    BY <1>1, <1>4 DEF Fits, InPhase, Latest
  <2>3. HeldBack(j, q)
    BY <1>1, <1>2, <1>3, <1>4 DEF Fits, HeldBack
  <2>4. Accounted(j, q)
    BY <1>1, <1>4 DEF Fits, Accounted
  <2> QED
    BY <1>4, <2>1, <2>2, <2>3, <2>4 DEF Fits
<1> QED
  BY <1>1, <1>2, <1>3, <1>4, <1>5, <1>6 DEF r

LEMMA QueueFailsStep ==
  ASSUME DeliveryTypeOK, AllFit, NEW j \in Jobs, QueueFails(j)
  PROVE  LET r == sends[j] q == sends'[j] IN
         /\ sends' \in [Jobs -> Sending] /\ Others(j) /\ Fits(j, q)
         /\ r.pc = "next" /\ r.left # <<>> /\ r.left[1] # "none"
         /\ q.pc = "next" /\ q.phase = r.phase /\ q.open = r.open /\ q.wordsOnly = r.wordsOnly
         /\ q.n = r.n + 1 /\ Shortened(q.left, r.left) /\ Extended(q.results, r.results, "threw")
<1> DEFINE r == sends[j]
           q == [r EXCEPT !.pc = "next", !.left = Tail(r.left), !.results = Append(r.results, "threw"),
                          !.n = r.n + 1]
<1>1. r \in Sending /\ Fits(j, r) /\ r.pc = "next" /\ r.left # <<>> /\ Head(r.left) # "none"
  BY DEF DeliveryTypeOK, AllFit, QueueFails
<1>2. Sets(j, q)
  <2>1. [Threw(j) EXCEPT !.n = @ + 1] = q
    BY <1>1 DEF Threw, Sending
  <2> QED
    BY <2>1 DEF QueueFails
<1> HIDE DEF r
<1>3. Tail(r.left) \in Seq(Replies) /\ Shortened(Tail(r.left), r.left) /\ Head(r.left) = r.left[1]
  BY <1>1, SendingFields, Shortens
<1>4. Append(r.results, "threw") \in Seq(Results) /\ Extended(Append(r.results, "threw"), r.results, "threw")
  <2>1. r.results \in Seq(Results) /\ "threw" \in Results
    BY <1>1, SendingFields DEF Results
  <2> QED
    BY <2>1, Extends
<1>5. r.n + 1 \in 0 .. NoticeSize + 2 /\ r.n \in Nat
  BY <1>1, SendingFields, RoomForMessage
<1>6. q \in Sending /\ q.pc = "next" /\ q.phase = r.phase /\ q.open = r.open /\ q.wordsOnly = r.wordsOnly
      /\ q.n = r.n + 1 /\ q.left = Tail(r.left) /\ q.results = Append(r.results, "threw")
  BY <1>1, <1>3, <1>4, <1>5 DEF Sending, Replies, Results
<1> HIDE DEF q
<1>7. sends' \in [Jobs -> Sending] /\ sends'[j] = q /\ Others(j)
  BY <1>2, <1>6, OneMoves DEF DeliveryTypeOK
<1>8. Fits(j, q)
  <2>1. "threw" \in Results /\ Shortened(q.left, r.left) /\ Extended(q.results, r.results, "threw")
    BY <1>3, <1>4, <1>6 DEF Results
  <2> QED
    BY <1>1, <1>3, <1>6, <2>1, ReplyDone
<1> QED
  BY <1>1, <1>3, <1>4, <1>5, <1>6, <1>7, <1>8 DEF r

(* After an attempt the message is tried again or its row is to be marked.  *)
Tried(q, r) ==
  /\ q.phase = r.phase /\ q.open = r.open /\ q.wordsOnly = r.wordsOnly /\ q.n = r.n
  /\ q.left = r.left /\ q.results = r.results
  /\ q.pc \in {"sending", "marking"} /\ (q.pc = "sending" => q.try = r.try + 1 /\ r.try < MaxAttempts)

LEMMA TriedFits ==
  ASSUME NEW j \in Jobs, NEW r \in Sending, Fits(j, r), r.pc = "sending", NEW q \in Sending,
         Tried(q, r), q.try >= r.try
  PROVE  Fits(j, q)
<1>1. r.try \in Nat /\ q.try \in Nat
  BY SendingFields
<1>2. HasWords(q)
  <2>1. Budget(q) = Budget(r) /\ Busy(q) /\ Busy(r)
    BY DEF Budget, Busy, Tried
  <2>2. q.n + Len(q.left) <= Budget(q) + (IF Busy(q) THEN 1 ELSE 0)
    BY <2>1 DEF Fits, HasWords, Tried
  <2> QED
    BY <1>1, <2>1, <2>2 DEF Fits, HasWords, Busy, Tried
<1>3. InPhase(j, q)
  BY DEF Fits, InPhase, Latest, Tried
<1>4. HeldBack(j, q)
  BY DEF Fits, HeldBack, Tried
<1>5. Accounted(j, q)
  BY DEF Fits, Accounted, Tried
<1> QED
  BY <1>2, <1>3, <1>4, <1>5 DEF Fits

LEMMA AttemptedFits ==
  ASSUME NEW j \in Jobs, sends[j] \in Sending, Fits(j, sends[j]), sends[j].pc = "sending", NEW ok \in BOOLEAN
  PROVE  LET q == Attempted(j, ok) IN
         /\ q \in Sending /\ Tried(q, sends[j]) /\ Fits(j, q) /\ q.pc = "marking" /\ q.ok = ok
<1> DEFINE r == sends[j]
           q == Attempted(j, ok)
<1>1. r \in Sending /\ q = [r EXCEPT !.pc = "marking", !.ok = ok]
  BY DEF Attempted
<1> HIDE DEF q
<1>2. q \in Sending /\ q.pc = "marking" /\ q.ok = ok /\ q.phase = r.phase /\ q.open = r.open
      /\ q.wordsOnly = r.wordsOnly /\ q.n = r.n /\ q.left = r.left /\ q.results = r.results
      /\ q.try = r.try
  BY <1>1 DEF Sending
<1>3. Tried(q, r)
  BY <1>2 DEF Tried
<1>4. q.try >= r.try
  BY <1>1, <1>2, SendingFields
<1>5. Fits(j, q)
  BY <1>2, <1>3, <1>4, TriedFits
<1> QED
  BY <1>2, <1>3, <1>5 DEF q

LEMMA RetriedFits ==
  ASSUME NEW j \in Jobs, sends[j] \in Sending, Fits(j, sends[j]), sends[j].pc = "sending"
  PROVE  LET q == Retried(j) IN
         /\ q \in Sending /\ Tried(q, sends[j]) /\ Fits(j, q) /\ (q.pc = "marking" => ~q.ok)
<1>1. CASE sends[j].try < MaxAttempts
  <2> DEFINE r == sends[j]
             q == Retried(j)
  <2>1. r \in Sending /\ q = [r EXCEPT !.try = r.try + 1] /\ r.pc = "sending" /\ r.try < MaxAttempts
    BY <1>1 DEF Retried
  <2>2. r.try + 1 \in 0 .. MaxAttempts /\ r.try \in Nat
    BY <2>1, SendingFields
  <2> HIDE DEF q, r
  <2>3. q \in Sending /\ q.pc = "sending" /\ q.phase = r.phase /\ q.open = r.open
        /\ q.wordsOnly = r.wordsOnly /\ q.n = r.n /\ q.left = r.left /\ q.results = r.results
        /\ q.try = r.try + 1
    BY <2>1, <2>2 DEF Sending
  <2>4. Tried(q, r) /\ q.try >= r.try
    BY <2>1, <2>2, <2>3 DEF Tried
  <2>5. Fits(j, q)
    BY <2>1, <2>3, <2>4, TriedFits DEF r
  <2> QED
    BY <2>3, <2>4, <2>5 DEF q, r
<1>2. CASE ~(sends[j].try < MaxAttempts)
  <2>1. Retried(j) = Attempted(j, FALSE)
    BY <1>2 DEF Retried
  <2> QED
    BY <2>1, AttemptedFits
<1> QED
  BY <1>1, <1>2

LEMMA AttemptStep ==
  ASSUME DeliveryTypeOK, AllFit, NEW j \in Jobs, Attempt(j)
  PROVE  LET r == sends[j] q == sends'[j] m == Message(j) IN
         /\ sends' \in [Jobs -> Sending] /\ Others(j) /\ Fits(j, q)
         /\ r.pc = "sending" /\ Tried(q, r)
         /\ \/ /\ phone' = [phone EXCEPT ![m] = @ + 1] /\ lost' = lost
               /\ q.pc = "marking" /\ q.ok
            \/ /\ phone' = [phone EXCEPT ![m] = @ + 1] /\ lost' = [lost EXCEPT ![m] = @ + 1]
               /\ q.pc = "marking" => ~q.ok
            \/ /\ phone' = phone /\ lost' = lost
               /\ q.pc = "marking" => ~q.ok
<1>1. sends \in [Jobs -> Sending] /\ sends[j] \in Sending /\ Fits(j, sends[j]) /\ sends[j].pc = "sending"
  BY DEF DeliveryTypeOK, AllFit, Attempt
<1>2. /\ Attempted(j, TRUE) \in Sending /\ Tried(Attempted(j, TRUE), sends[j])
      /\ Fits(j, Attempted(j, TRUE)) /\ Attempted(j, TRUE).pc = "marking" /\ Attempted(j, TRUE).ok
  BY <1>1, AttemptedFits
<1>3. /\ Attempted(j, FALSE) \in Sending /\ Tried(Attempted(j, FALSE), sends[j])
      /\ Fits(j, Attempted(j, FALSE)) /\ ~Attempted(j, FALSE).ok
  BY <1>1, AttemptedFits
<1>4. /\ Retried(j) \in Sending /\ Tried(Retried(j), sends[j])
      /\ Fits(j, Retried(j)) /\ (Retried(j).pc = "marking" => ~Retried(j).ok)
  BY <1>1, RetriedFits
<1>5. CASE /\ phone' = [phone EXCEPT ![Message(j)] = @ + 1]
           /\ Sets(j, AfterAccepted(j)) /\ UNCHANGED lost
  <2>1. sends' \in [Jobs -> Sending] /\ sends'[j] = Attempted(j, TRUE) /\ Others(j)
    BY <1>1, <1>2, <1>5, OneMoves DEF AfterAccepted
  <2> QED
    BY <1>1, <1>2, <1>5, <2>1
<1>6. CASE /\ phone' = [phone EXCEPT ![Message(j)] = @ + 1]
           /\ lost' = [lost EXCEPT ![Message(j)] = @ + 1] /\ Sets(j, AfterTimeout(j))
  <2>1. sends' \in [Jobs -> Sending] /\ sends'[j] = Retried(j) /\ Others(j)
    BY <1>1, <1>4, <1>6, OneMoves DEF AfterTimeout
  <2> QED
    BY <1>1, <1>4, <1>6, <2>1
<1>7. CASE UNCHANGED <<phone, lost>> /\ Sets(j, AfterTimeout(j))
  <2>1. sends' \in [Jobs -> Sending] /\ sends'[j] = Retried(j) /\ Others(j)
    BY <1>1, <1>4, <1>7, OneMoves DEF AfterTimeout
  <2> QED
    BY <1>1, <1>4, <1>7, <2>1
<1>8. CASE UNCHANGED <<phone, lost>> /\ Sets(j, Attempted(j, FALSE))
  <2>1. sends' \in [Jobs -> Sending] /\ sends'[j] = Attempted(j, FALSE) /\ Others(j)
    BY <1>1, <1>3, <1>8, OneMoves
  <2> QED
    BY <1>1, <1>3, <1>8, <2>1
<1> QED
  BY <1>5, <1>6, <1>7, <1>8 DEF Attempt

LEMMA MarkStep ==
  ASSUME DeliveryTypeOK, AllFit, NEW j \in Jobs, Mark(j)
  PROVE  LET r == sends[j] q == sends'[j] IN
         /\ sends' \in [Jobs -> Sending] /\ Others(j) /\ Fits(j, q)
         /\ r.pc = "marking" /\ r.left # <<>> /\ Result(j) \in Results
         /\ (Result(j) = "ok" <=> r.ok) /\ (Result(j) = "no_document" => ~r.ok)
         /\ q.pc = "next" /\ q.phase = r.phase /\ q.open = r.open /\ q.wordsOnly = r.wordsOnly
         /\ q.n = r.n /\ Shortened(q.left, r.left) /\ Extended(q.results, r.results, Result(j))
<1> DEFINE r == sends[j]
           e == Result(j)
           q == [r EXCEPT !.pc = "next", !.left = Tail(r.left), !.results = Append(r.results, e)]
<1>1. r \in Sending /\ Fits(j, r) /\ r.pc = "marking" /\ r.left # <<>> /\ Sets(j, q)
  BY DEF DeliveryTypeOK, AllFit, Mark, Fits, HasWords, Busy
<1>2. Tail(r.left) \in Seq(Replies) /\ Shortened(Tail(r.left), r.left) /\ Head(r.left) = r.left[1]
  BY <1>1, SendingFields, Shortens
<1>3. e \in Results /\ (e = "ok" <=> r.ok) /\ (e = "no_document" => ~r.ok /\ r.left[1] = "document")
  BY <1>1, <1>2 DEF Result, Results
<1> HIDE DEF r, e
<1>4. Append(r.results, e) \in Seq(Results) /\ Extended(Append(r.results, e), r.results, e)
  <2>1. r.results \in Seq(Results)
    BY <1>1, SendingFields
  <2> QED
    BY <1>3, <2>1, Extends
<1>5. q \in Sending /\ q.pc = "next" /\ q.phase = r.phase /\ q.open = r.open /\ q.wordsOnly = r.wordsOnly
      /\ q.n = r.n /\ q.left = Tail(r.left) /\ q.results = Append(r.results, e)
  BY <1>1, <1>2, <1>4 DEF Sending, Replies, Results
<1> HIDE DEF q
<1>6. sends' \in [Jobs -> Sending] /\ sends'[j] = q /\ Others(j)
  BY <1>1, <1>5, OneMoves DEF DeliveryTypeOK
<1>7. Fits(j, q)
  <2>1. Shortened(q.left, r.left) /\ Extended(q.results, r.results, e)
    BY <1>2, <1>4, <1>5
  <2> QED
    BY <1>1, <1>3, <1>5, <2>1, ReplyDone
<1> QED
  BY <1>1, <1>2, <1>3, <1>4, <1>5, <1>6, <1>7 DEF r, e

LEMMA MarkFailsStep ==
  ASSUME DeliveryTypeOK, AllFit, NEW j \in Jobs, MarkFails(j)
  PROVE  LET r == sends[j] q == sends'[j] IN
         /\ sends' \in [Jobs -> Sending] /\ Others(j) /\ Fits(j, q)
         /\ r.pc = "marking" /\ r.left # <<>>
         /\ q.pc = "next" /\ q.phase = r.phase /\ q.open = r.open /\ q.wordsOnly = r.wordsOnly
         /\ q.n = r.n /\ Shortened(q.left, r.left) /\ Extended(q.results, r.results, "threw")
<1> DEFINE r == sends[j]
           q == Threw(j)
<1>1. r \in Sending /\ Fits(j, r) /\ r.pc = "marking" /\ r.left # <<>> /\ Sets(j, q)
      /\ q = [r EXCEPT !.pc = "next", !.left = Tail(r.left), !.results = Append(r.results, "threw")]
  BY DEF DeliveryTypeOK, AllFit, MarkFails, Fits, HasWords, Busy, Threw
<1> HIDE DEF r, q
<1>2. Tail(r.left) \in Seq(Replies) /\ Shortened(Tail(r.left), r.left)
  BY <1>1, SendingFields, Shortens
<1>3. Append(r.results, "threw") \in Seq(Results) /\ Extended(Append(r.results, "threw"), r.results, "threw")
  <2>1. r.results \in Seq(Results) /\ "threw" \in Results
    BY <1>1, SendingFields DEF Results
  <2> QED
    BY <2>1, Extends
<1>4. q \in Sending /\ q.pc = "next" /\ q.phase = r.phase /\ q.open = r.open /\ q.wordsOnly = r.wordsOnly
      /\ q.n = r.n /\ q.left = Tail(r.left) /\ q.results = Append(r.results, "threw")
  BY <1>1, <1>2, <1>3 DEF Sending, Replies, Results
<1>5. sends' \in [Jobs -> Sending] /\ sends'[j] = q /\ Others(j)
  BY <1>1, <1>4, OneMoves DEF DeliveryTypeOK
<1>6. Fits(j, q)
  <2>1. "threw" \in Results /\ Shortened(q.left, r.left) /\ Extended(q.results, r.results, "threw")
    BY <1>2, <1>3, <1>4 DEF Results
  <2> QED
    BY <1>1, <1>4, <2>1, ReplyDone
<1> QED
  BY <1>1, <1>2, <1>3, <1>4, <1>5, <1>6 DEF r

(* The three ways on from a batch that is over.                             *)
LEMMA ProceedStep ==
  ASSUME DeliveryTypeOK, AllFit, NEW j \in Jobs, Proceed(j)
  PROVE  LET r == sends[j] q == sends'[j] IN
         /\ sends' \in [Jobs -> Sending] /\ Others(j) /\ Fits(j, q)
         /\ r.pc = "next" /\ r.left = <<>>
         /\ q.open = r.open /\ q.wordsOnly = r.wordsOnly /\ q.n = r.n /\ q.results = r.results
         /\ \/ /\ q.pc = "deciding" /\ r.phase = "notice" /\ q.phase = "certificate"
               /\ ~r.wordsOnly /\ turn' = turn
            \/ /\ q.pc = "next" /\ q.phase = "fallback" /\ r.phase = "certificate" /\ q.left # <<>>
               /\ Latest(r, "no_document") /\ r.open /\ turn' = turn
            \/ /\ q.pc = "done" /\ q.phase = r.phase
               /\ turn' = IF turn = j THEN NoJob ELSE turn
<1> DEFINE r == sends[j]
           fallsBack == Latest(r, "no_document")
           certifies == r.phase = "notice" /\ j \notin Partners /\ ~r.wordsOnly
           a == [r EXCEPT !.pc = "deciding", !.phase = "certificate"]
           b == [r EXCEPT !.left = <<"text">>, !.phase = "fallback"]
           c == [r EXCEPT !.pc = "done"]
           q == IF certifies THEN a ELSE IF fallsBack THEN b ELSE c
<1>1. r \in Sending /\ Fits(j, r) /\ r.pc = "next" /\ r.left = <<>> /\ Sets(j, q)
      /\ turn' = IF turn = j /\ ~certifies /\ ~fallsBack THEN NoJob ELSE turn
  BY DEF DeliveryTypeOK, AllFit, Proceed, Latest
<1> HIDE DEF r
<1>2. HasWords(r) /\ InPhase(j, r) /\ HeldBack(j, r) /\ Accounted(j, r) /\ r.n \in Nat
  BY <1>1, SendingFields DEF Fits
<1>3. r.phase \in {"notice", "certificate", "fallback"} /\ r.open \in BOOLEAN /\ r.wordsOnly \in BOOLEAN
      /\ Len(r.results) \in Nat
  BY <1>1, SendingFields
<1>4. r.n <= Budget(r) /\ ~Busy(r) /\ Len(r.left) = 0
  <2>1. r.n + Len(r.left) <= Budget(r) + (IF Busy(r) THEN 1 ELSE 0)
    BY <1>2 DEF HasWords
  <2>2. ~Busy(r) /\ Len(r.left) = 0
    BY <1>1, NoReply DEF Busy
  <2>3. Budget(r) \in Nat
    BY DEF Budget
  <2> DEFINE n == r.n l == Len(r.left)
  <2>4. n \in Nat /\ l = 0 /\ n + l <= Budget(r) + 0
    BY <2>1, <2>2, <1>2
  <2> HIDE DEF n, l
  <2>5. n <= Budget(r)
    BY <2>3, <2>4
  <2> QED
    BY <2>2, <2>5 DEF n
<1>5. CASE certifies
  <2>1. a \in Sending /\ a.pc = "deciding" /\ a.phase = "certificate" /\ a.open = r.open
        /\ a.wordsOnly = r.wordsOnly /\ a.n = r.n /\ a.left = <<>> /\ a.results = r.results
    BY <1>1 DEF Sending
  <2>2. q = a
    BY <1>5
  <2> HIDE DEF a, q
  <2>3. sends' \in [Jobs -> Sending] /\ sends'[j] = a /\ Others(j)
    BY <1>1, <2>1, <2>2, OneMoves DEF DeliveryTypeOK
  <2>4. ~Latest(a, "no_document")
    BY <1>2, <1>5, <2>1 DEF InPhase, Latest
  <2>5. HasWords(a)
    <3>1. Budget(a) = NoticeSize /\ Budget(r) = NoticeSize /\ ~Busy(a)
      BY <1>1, <1>5, <2>1 DEF Budget, Busy
    <3>2. a.n + Len(a.left) <= NoticeSize
      <4>1. Len(a.left) = 0 /\ a.n \in Nat /\ a.n <= NoticeSize
        BY <1>2, <1>4, <2>1, <3>1, NoReply
      <4> QED
        BY <4>1
    <3> QED
      BY <3>1, <3>2, <2>1 DEF HasWords
  <2>6. InPhase(j, a)
    <3>1. Len(a.left) = 0
      BY <2>1, NoReply
    <3> QED
      BY <3>1, <1>5, <2>1, <2>4 DEF InPhase
  <2>7. HeldBack(j, a)
    BY <2>1 DEF HeldBack
  <2>8. Accounted(j, a)
    <3> SUFFICES ASSUME j \in Notices
                 PROVE  Accounted(j, a)
      BY DEF Accounted
    <3>1. Len(r.results) + Len(r.left) = NoticeSize
      BY <1>1, <1>2, <1>5 DEF Accounted
    <3>2. Len(a.results) = Len(r.results) /\ Len(a.left) = Len(r.left)
      BY <1>1, <2>1
    <3>3. Len(a.results) + Len(a.left) >= NoticeSize
      <4> DEFINE x == Len(a.results) + Len(a.left)
      <4>1. x = NoticeSize
        BY <3>1, <3>2
      <4> HIDE DEF x
      <4>2. x >= NoticeSize
        BY <4>1
      <4> QED
        BY <4>2 DEF x
    <3>4. NoticeSize + (IF a.pc = "deciding" THEN 0 ELSE 1) = NoticeSize
      BY <2>1
    <3> QED
      BY <3>3, <3>4, <1>5, <2>1 DEF Accounted
  <2> QED
    BY <1>1, <1>5, <2>1, <2>3, <2>5, <2>6, <2>7, <2>8 DEF Fits, r
<1>6. CASE ~certifies /\ fallsBack
  <2>1. <<"text">> \in Seq(Replies) /\ Len(<<"text">>) = 1 /\ <<"text">>[1] = "text" /\ <<"text">> # <<>>
    BY OneReply DEF Replies
  <2>2. b \in Sending /\ b.pc = "next" /\ b.phase = "fallback" /\ b.open = r.open
        /\ b.wordsOnly = r.wordsOnly /\ b.n = r.n /\ b.left = <<"text">> /\ b.results = r.results
    BY <1>1, <2>1 DEF Sending, Replies
  <2>3. q = b
    BY <1>6
  <2>4. r.phase = "certificate" /\ r.open /\ ~r.wordsOnly /\ j \notin Partners
    BY <1>1, <1>2, <1>6 DEF InPhase
  <2> HIDE DEF b, q
  <2>5. sends' \in [Jobs -> Sending] /\ sends'[j] = b /\ Others(j)
    BY <1>1, <2>2, <2>3, OneMoves DEF DeliveryTypeOK
  <2>6. Len(b.left) = 1 /\ b.left[1] = "text" /\ b.left # <<>>
    BY <2>1, <2>2
  <2>7. HasWords(b)
    <3>1. Budget(b) = NoticeSize + 2 /\ Budget(r) = NoticeSize + 1 /\ ~Busy(b)
      BY <1>1, <2>2, <2>4 DEF Budget, Busy
    <3>2. b.n \in Nat /\ b.n <= NoticeSize + 1
      BY <1>2, <1>4, <2>2, <3>1
    <3>3. b.n + Len(b.left) <= NoticeSize + 2
      BY <2>6, <3>2
    <3> QED
      BY <3>1, <3>3, <2>2 DEF HasWords
  <2>8. InPhase(j, b)
    <3>1. \A i \in 1 .. Len(b.left) : b.left[i] # "document"
      BY <2>1, <2>2, <2>6
    <3> QED
      BY <3>1, <2>2, <2>4, <2>6 DEF InPhase
  <2>9. HeldBack(j, b)
    BY <2>2 DEF HeldBack
  <2>10. Accounted(j, b)
    <3> SUFFICES ASSUME j \in Notices
                 PROVE  Accounted(j, b)
      BY DEF Accounted
    <3>1. Len(r.results) + Len(r.left) >= NoticeSize + (IF r.pc = "deciding" THEN 0 ELSE 1)
      BY <1>1, <1>2, <2>4 DEF Accounted
    <3>2. Len(r.results) + Len(r.left) >= NoticeSize + 1
      BY <3>1, <1>1
    <3> DEFINE x == Len(r.results) y == Len(r.left) z == Len(b.results)
    <3>3. x + y >= NoticeSize + 1 /\ x \in Nat /\ y = 0 /\ z = x
      BY <3>2, <1>3, <1>4, <2>2
    <3> HIDE DEF x, y, z
    <3>4. z + 1 >= NoticeSize + 1
      BY <3>3
    <3>5. Len(b.results) + Len(b.left) >= NoticeSize + 1
      BY <3>4, <2>6 DEF z
    <3> QED
      BY <3>5, <2>2, <2>4 DEF Accounted
  <2> QED
    BY <1>1, <1>6, <2>2, <2>4, <2>5, <2>6, <2>7, <2>8, <2>9, <2>10 DEF Fits, r
<1>7. CASE ~certifies /\ ~fallsBack
  <2>1. c \in Sending /\ c.pc = "done" /\ c.phase = r.phase /\ c.open = r.open
        /\ c.wordsOnly = r.wordsOnly /\ c.n = r.n /\ c.left = <<>> /\ c.results = r.results
    BY <1>1 DEF Sending
  <2>2. q = c
    BY <1>7
  <2> HIDE DEF c, q
  <2>3. sends' \in [Jobs -> Sending] /\ sends'[j] = c /\ Others(j)
    BY <1>1, <2>1, <2>2, OneMoves DEF DeliveryTypeOK
  <2>4. HasWords(c)
    <3>1. Budget(c) = Budget(r) /\ ~Busy(c)
      BY <1>1, <2>1 DEF Budget, Busy
    <3>2. c.n + Len(c.left) <= Budget(c)
      <4>1. Len(c.left) = 0 /\ c.n \in Nat /\ c.n <= Budget(c)
        BY <1>2, <1>4, <2>1, <3>1, NoReply
      <4> QED
        BY <4>1
    <3>3. c.n + Len(c.left) <= Budget(c) + (IF Busy(c) THEN 1 ELSE 0)
      <4>1. Budget(c) \in Nat
        BY DEF Budget
      <4>2. Budget(c) + (IF Busy(c) THEN 1 ELSE 0) = Budget(c)
        BY <3>1, <4>1
      <4> QED
        BY <3>2, <4>2
    <3> QED
      BY <3>1, <3>3, <2>1 DEF HasWords, Busy
  <2>5. InPhase(j, c)
    <3>1. ~Latest(c, "no_document")
      BY <1>7, <2>1 DEF Latest
    <3>2. Len(c.left) = 0
      BY <2>1, NoReply
    <3> QED
      BY <3>1, <3>2, <1>2, <2>1 DEF InPhase
  <2>6. HeldBack(j, c)
    <3>1. c.left = r.left
      BY <1>1, <2>1
    <3> QED
      BY <3>1, <1>1, <1>2, <2>1 DEF HeldBack
  <2>7. Accounted(j, c)
    <3> SUFFICES ASSUME j \in Notices
                 PROVE  Accounted(j, c)
      BY DEF Accounted
    <3>0. c.left = r.left /\ c.results = r.results
      BY <1>1, <2>1
    <3>1. CASE r.phase = "notice"
      <4>1. r.wordsOnly
        BY <3>1, <1>7, DeliveryAssumption
      <4>2. Len(c.results) + Len(c.left) = NoticeSize
        BY <3>0, <3>1, <1>1, <1>2 DEF Accounted
      <4> QED
        BY <3>1, <4>1, <4>2, <2>1 DEF Accounted
    <3> SUFFICES ASSUME r.phase # "notice"
                 PROVE  Accounted(j, c)
      BY <3>1
    <3>2. Len(r.results) + Len(r.left) >= NoticeSize + (IF r.pc = "deciding" THEN 0 ELSE 1)
      BY <1>1, <1>2 DEF Accounted
    <3>3. Len(r.results) + Len(r.left) >= NoticeSize + 1
      BY <3>2, <1>1
    <3>4. Len(c.results) + Len(c.left) >= NoticeSize + 1
      BY <3>0, <3>3
    <3> QED
      BY <3>4, <2>1 DEF Accounted
  <2> QED
    BY <1>1, <1>7, <2>1, <2>3, <2>4, <2>5, <2>6, <2>7 DEF Fits, r
<1> QED
  BY <1>5, <1>6, <1>7

LEMMA CrashStep ==
  ASSUME DeliveryTypeOK, AllFit, ProcessDies
  PROVE  /\ sends' \in [Jobs -> Sending] /\ AllFit'
         /\ \A j \in Jobs : IF sends[j].pc \in {"new", "done", "gaveUp"} THEN sends'[j] = sends[j]
                            ELSE sends'[j].pc = "crashed" /\ sends'[j].results = <<>>
         /\ turn' = NoJob
<1> DEFINE c == Job("crashed", 0)
<1>1. c \in Sending /\ c.pc = "crashed" /\ c.phase = "notice" /\ c.left = <<>> /\ c.n = 0 /\ c.open
      /\ ~c.wordsOnly /\ c.results = <<>>
  BY NewJob
<1>2. sends' = [j \in Jobs |-> IF sends[j].pc \in {"new", "done", "gaveUp"} THEN sends[j] ELSE c] /\ turn' = NoJob
  BY DEF ProcessDies
<1> HIDE DEF c
<1>3. \A j \in Jobs : Fits(j, c)
  <2> SUFFICES ASSUME NEW j \in Jobs
               PROVE  Fits(j, c)
    OBVIOUS
  <2>1. HasWords(c)
    BY <1>1, NoReply DEF HasWords, Budget, Busy
  <2>2. InPhase(j, c)
    BY <1>1, NoReply DEF InPhase, Latest
  <2>3. HeldBack(j, c)
    BY <1>1 DEF HeldBack
  <2>4. Accounted(j, c)
    BY <1>1 DEF Accounted
  <2> QED
    BY <1>1, <2>1, <2>2, <2>3, <2>4 DEF Fits
<1>4. \A j \in Jobs : sends'[j] = IF sends[j].pc \in {"new", "done", "gaveUp"} THEN sends[j] ELSE c
  BY <1>2
<1>5. sends' \in [Jobs -> Sending]
  BY <1>1, <1>2 DEF DeliveryTypeOK
<1>6. AllFit'
  <2>1. \A j \in Jobs : Fits(j, sends'[j])
    BY <1>3, <1>4 DEF AllFit
  <2> QED
    BY <2>1 DEF AllFit
<1> QED
  BY <1>1, <1>2, <1>4, <1>5, <1>6

-----------------------------------------------------------------------------
(* Each variable keeps its type, each record fits                          *)

LEMMA OtherFits ==
  ASSUME AllFit, NEW j \in Jobs, Others(j), Fits(j, sends'[j])
  PROVE  AllFit'
<1>1. \A k \in Jobs : Fits(k, sends'[k])
  BY DEF AllFit, Others
<1> QED
  BY <1>1 DEF AllFit

(* What turns one record does not concern.                                  *)
TypesBut ==
  /\ log \in [DOMAIN log -> Row] /\ DOMAIN log \subseteq Outgoing
  /\ heard \in [Sessions -> Nat \cup {Never}]
  /\ session \in Sessions /\ wrote \in 0 .. now /\ now \in 0 .. MaxTime
  /\ turn \in Asks \cup {NoJob}
  /\ templates \subseteq {"notice", "certificate"}
  /\ phone \in [Outgoing -> Nat] /\ lost \in [Outgoing -> Nat]
  /\ bounced \subseteq Outgoing /\ uncounted \subseteq Asks
  /\ receipts \in 0 .. MaxReceipts /\ failures \in 0 .. MaxFailures

TurnBusy == turn # NoJob => sends[turn].pc \notin {"new", "crashed", "done", "gaveUp"}

LEMMA TypeParts ==
  DeliveryTypeOK <=> TypesBut /\ sends \in [Jobs -> Sending] /\ TurnBusy
  BY DEF DeliveryTypeOK, TypesBut, TurnBusy, Started

LEMMA BeginType ==
  ASSUME DeliveryInit
  PROVE  DeliveryTypeOK /\ AllFit
<1> DEFINE c == Job("new", 0)
<1>1. c \in Sending /\ c.pc = "new" /\ c.phase = "notice" /\ c.left = <<>> /\ c.n = 0 /\ c.open
      /\ ~c.wordsOnly /\ c.results = <<>>
  BY NewJob
<1>2. sends = [j \in Jobs |-> c]
  BY DEF DeliveryInit
<1> HIDE DEF c
<1>3. sends \in [Jobs -> Sending]
  BY <1>1, <1>2
<1>4. TypesBut
  <2>1. log \in [DOMAIN log -> Row] /\ DOMAIN log = {}
    <3>1. log = <<>> /\ DOMAIN <<>> = {}
      BY DEF DeliveryInit
    <3> QED
      BY <3>1
  <2>2. heard \in [Sessions -> Nat \cup {Never}]
    BY DEF DeliveryInit
  <2>3. session \in Sessions /\ wrote \in 0 .. now /\ now \in 0 .. MaxTime
        /\ receipts \in 0 .. MaxReceipts /\ failures \in 0 .. MaxFailures
    BY DeliveryAssumption DEF DeliveryInit, Sessions
  <2>4. turn \in Asks \cup {NoJob} /\ templates \subseteq {"notice", "certificate"} /\ bounced \subseteq Outgoing
        /\ uncounted \subseteq Asks
    BY DEF DeliveryInit
  <2>5. phone \in [Outgoing -> Nat] /\ lost \in [Outgoing -> Nat]
    BY DEF DeliveryInit
  <2> QED
    BY <2>1, <2>2, <2>3, <2>4, <2>5 DEF TypesBut
<1>5. TurnBusy
  BY DEF DeliveryInit, TurnBusy
<1>6. AllFit
  <2> SUFFICES ASSUME NEW j \in Jobs
               PROVE  Fits(j, c)
    BY <1>2 DEF AllFit
  <2>1. HasWords(c)
    BY <1>1, NoReply DEF HasWords, Budget, Busy
  <2>2. InPhase(j, c)
    BY <1>1, NoReply DEF InPhase, Latest
  <2>3. HeldBack(j, c)
    BY <1>1 DEF HeldBack
  <2>4. Accounted(j, c)
    BY <1>1 DEF Accounted
  <2> QED
    BY <1>1, <2>1, <2>2, <2>3, <2>4 DEF Fits
<1> QED
  BY <1>3, <1>4, <1>5, <1>6, TypeParts

(* The archive after a row is added, and after one is changed.              *)
LEMMA AddsRow ==
  ASSUME log \in [DOMAIN log -> Row], NEW m, NEW row \in Row, log' = LogAnd(m, row)
  PROVE  /\ log' \in [DOMAIN log' -> Row] /\ DOMAIN log' = DOMAIN log \cup {m}
         /\ log'[m] = row /\ \A x \in DOMAIN log : x # m => log'[x] = log[x]
  BY DEF LogAnd

LEMMA ChangesRow ==
  ASSUME log \in [DOMAIN log -> Row], NEW m, NEW status, NEW known \in BOOLEAN,
         status \in {"queued", "sent", "failed", "delivered", "read"},
         log' = LogWith(m, status, known)
  PROVE  /\ log' \in [DOMAIN log' -> Row] /\ DOMAIN log' = DOMAIN log
         /\ \A x \in DOMAIN log : x # m => log'[x] = log[x]
         /\ m \in DOMAIN log => /\ log'[m].kind = log[m].kind /\ log'[m].step = log[m].step
                                /\ log'[m].at = log[m].at /\ log'[m].status = status
                                /\ log'[m].known = known
<1> DEFINE row == [log[m] EXCEPT !.status = status, !.known = known]
<1>1. log' = [x \in DOMAIN log |-> IF x = m THEN row ELSE log[x]]
  BY DEF LogWith
<1>2. m \in DOMAIN log => /\ row \in Row /\ row.kind = log[m].kind /\ row.step = log[m].step
                          /\ row.at = log[m].at /\ row.status = status /\ row.known = known
  <2>1. m \in DOMAIN log => log[m] \in Row
    OBVIOUS
  <2> QED
    BY <2>1 DEF Row
<1> HIDE DEF row
<1>3. DOMAIN log' = DOMAIN log /\ \A x \in DOMAIN log : log'[x] = IF x = m THEN row ELSE log[x]
  BY <1>1
<1>4. log' \in [DOMAIN log -> Row]
  BY <1>1, <1>2
<1> QED
  BY <1>2, <1>3, <1>4

LEMMA RowFields ==
  ASSUME log \in [DOMAIN log -> Row], NEW m \in DOMAIN log
  PROVE  /\ log[m].kind \in {"text", "template", "document"} /\ log[m].step \in {"notice", "certificate"}
         /\ log[m].status \in {"queued", "sent", "failed", "delivered", "read"}
         /\ log[m].known \in BOOLEAN /\ log[m].at \in Nat
<1>1. log[m] \in Row
  OBVIOUS
<1> QED
  BY <1>1 DEF Row

(* The messages of a job.                                                   *)
LEMMA MessageType ==
  ASSUME sends \in [Jobs -> Sending], AllFit, NEW j \in Jobs, Busy(sends[j])
  PROVE  Message(j) \in Outgoing /\ Message(j)[1] = j /\ Message(j) = <<j, sends[j].n>>
<1>1. sends[j].n \in 1 .. NoticeSize + 2
  BY SendingFields DEF AllFit, Fits, HasWords
<1> QED
  BY <1>1 DEF Message, Outgoing

LEMMA OutgoingPairs ==
  ASSUME NEW m \in Outgoing
  PROVE  m[1] \in Jobs /\ m[2] \in 1 .. NoticeSize + 2 /\ m = <<m[1], m[2]>>
  BY DEF Outgoing

LEMMA NewRow ==
  ASSUME DeliveryTypeOK, AllFit, NEW j \in Jobs, Queue(j)
  PROVE  LET r == sends[j] m == <<j, r.n + 1>>
             row == [kind |-> Head(r.left), step |-> Step(j), status |-> "queued", known |-> FALSE, at |-> now]
         IN  /\ m \in Outgoing /\ m[1] = j /\ log' = LogAnd(m, row) /\ row \in Row
             /\ row.kind = r.left[1] /\ row.step = Step(j) /\ row.status = "queued"
             /\ ~row.known /\ row.at = now
<1> DEFINE r == sends[j]
           m == <<j, r.n + 1>>
           h == Head(r.left)
           s == Step(j)
           row == [kind |-> h, step |-> s, status |-> "queued", known |-> FALSE, at |-> now]
<1>1. log' = LogAnd(m, row)
  BY DEF Queue
<1>2. r \in Sending /\ r.left # <<>> /\ r.left[1] # "none" /\ h = r.left[1] /\ r.n + 1 \in 1 .. NoticeSize + 2
  BY QueueStep DEF DeliveryTypeOK
<1>3. h \in {"text", "template", "document"}
  BY <1>2, SendingFields, Shortens DEF Replies
<1>4. s \in {"notice", "certificate"} /\ now \in Nat
  <2>1. now \in Nat
    BY DeliveryAssumption DEF DeliveryTypeOK
  <2> QED
    BY <2>1 DEF Step
<1>5. m \in Outgoing /\ m[1] = j
  BY <1>2 DEF Outgoing
<1> HIDE DEF h, s, m
<1>6. row \in Row /\ row.kind = h /\ row.step = s /\ row.status = "queued" /\ ~row.known /\ row.at = now
  BY <1>3, <1>4 DEF Row
<1> QED
  BY <1>1, <1>2, <1>5, <1>6 DEF h, s, m

(* What lost statements and answers count to.                               *)
LEMMA FailureType ==
  ASSUME failures \in 0 .. MaxFailures, Failure
  PROVE  failures' \in 0 .. MaxFailures
  BY DeliveryAssumption DEF Failure

-----------------------------------------------------------------------------
(* Each variable keeps its type                                            *)

(* A step that leaves the number's turn where it is.                        *)
LEMMA TurnKept ==
  ASSUME DeliveryTypeOK, NEW j \in Jobs, Others(j), turn' = turn,
         sends[j].pc \in {"new", "crashed", "done", "gaveUp"} \/ sends'[j].pc \notin {"new", "crashed", "done", "gaveUp"}
  PROVE  TurnBusy'
<1>1. turn \in Jobs \cup {NoJob} /\ TurnBusy
  BY TypeParts DEF TypesBut, Jobs
<1>2. ASSUME turn # NoJob
      PROVE  sends'[turn].pc \notin {"new", "crashed", "done", "gaveUp"}
  <2>1. turn \in Jobs /\ sends[turn].pc \notin {"new", "crashed", "done", "gaveUp"}
    BY <1>1, <1>2 DEF TurnBusy
  <2>2. CASE turn = j
    BY <2>1, <2>2
  <2>3. CASE turn # j
    BY <2>1, <2>3 DEF Others
  <2> QED
    BY <2>2, <2>3
<1> QED
  BY <1>2 DEF TurnBusy

LEMMA LocalType ==
  ASSUME DeliveryTypeOK, NEW j \in Jobs, sends' \in [Jobs -> Sending], Others(j),
         UNCHANGED <<log, heard, session, wrote, turn, templates, phone, lost, bounced, receipts, now>>,
         UNCHANGED failures \/ Failure,
         uncounted' = uncounted \/ (uncounted' = uncounted \cup {j} /\ j \in Asks),
         sends[j].pc \in {"new", "crashed", "done", "gaveUp"} \/ sends'[j].pc \notin {"new", "crashed", "done", "gaveUp"}
  PROVE  DeliveryTypeOK'
<1>1. TypesBut
  BY TypeParts
<1>2. failures' \in 0 .. MaxFailures
  BY <1>1, FailureType DEF TypesBut
<1>3. TypesBut'
  BY <1>1, <1>2 DEF TypesBut
<1>4. TurnBusy'
  BY TurnKept
<1> QED
  BY <1>3, <1>4, TypeParts DEF DeliveryTypeOK, TypesBut, TurnBusy, Started

LEMMA TypeStep ==
  ASSUME DeliveryTypeOK, AllFit, DeliveryNext
  PROVE  DeliveryTypeOK' /\ AllFit'
<1>0. TypesBut /\ TurnBusy /\ now \in Nat
  <2>1. TypesBut /\ TurnBusy
    BY TypeParts
  <2> QED
    BY <2>1, DeliveryAssumption DEF TypesBut
<1>1. ASSUME NEW j \in Jobs, NEW sold \in BOOLEAN, Notice(j, sold)
      PROVE  DeliveryTypeOK' /\ AllFit'
  BY <1>1, NoticeStep, LocalType, OtherFits DEF Notice
<1>2. ASSUME NEW j \in Jobs, SendMessage(j)
      PROVE  DeliveryTypeOK' /\ AllFit'
  BY <1>2, SendMessageStep, LocalType, OtherFits DEF SendMessage
<1>3. ASSUME NEW j \in Jobs, Counts(j)
      PROVE  DeliveryTypeOK' /\ AllFit'
  BY <1>3, CountStep, LocalType, OtherFits
<1>4. ASSUME NEW j \in Jobs, NEW opens \in BOOLEAN, opens => session < MaxSessions, AskCertificate(j, opens)
      PROVE  DeliveryTypeOK' /\ AllFit'
  <2>1. sends' \in [Jobs -> Sending] /\ Others(j) /\ Fits(j, sends'[j]) /\ sends'[j].pc = "counting" /\ j \in Asks
    BY <1>4, AskStep
  <2>2. session' \in Sessions
    <3>1. session \in Nat /\ session >= 1 /\ session <= MaxSessions
      BY <1>0 DEF TypesBut, Sessions
    <3>2. session' = IF opens THEN session + 1 ELSE session
      BY <1>4 DEF AskCertificate
    <3> QED
      BY <1>4, <3>1, <3>2 DEF Sessions
  <2>3. heard' \in [Sessions -> Nat \cup {Never}]
    <3>1. heard' = heard \/ heard' = [heard EXCEPT ![session] = now]
      BY <1>4 DEF AskCertificate
    <3> QED
      BY <3>1, <1>0 DEF TypesBut
  <2>4. TypesBut'
    BY <1>0, <1>4, <2>1, <2>2, <2>3 DEF TypesBut, AskCertificate
  <2>5. TurnBusy'
    BY <1>4, <2>1 DEF TurnBusy, AskCertificate
  <2>6. AllFit'
    BY <2>1, OtherFits
  <2> QED
    BY <2>1, <2>4, <2>5, <2>6 DEF DeliveryTypeOK, TypesBut, TurnBusy, Started
<1>5. ASSUME NEW j \in Jobs, NEW tooLarge \in BOOLEAN, Certificate(j, tooLarge)
      PROVE  DeliveryTypeOK' /\ AllFit'
  BY <1>5, CertificateStep, LocalType, OtherFits DEF Certificate
<1>6. ASSUME NEW j \in Jobs, CertificateFails(j)
      PROVE  DeliveryTypeOK' /\ AllFit'
  BY <1>6, CertificateFailsStep, LocalType, OtherFits DEF CertificateFails
<1>7. ASSUME NEW j \in Jobs, Drop(j)
      PROVE  DeliveryTypeOK' /\ AllFit'
  BY <1>7, DropStep, LocalType, OtherFits DEF Drop
<1>8. ASSUME NEW j \in Jobs, Queue(j)
      PROVE  DeliveryTypeOK' /\ AllFit'
  <2>1. sends' \in [Jobs -> Sending] /\ Others(j) /\ Fits(j, sends'[j]) /\ sends'[j].pc = "sending"
    BY <1>8, QueueStep
  <2>2. log' \in [DOMAIN log' -> Row] /\ DOMAIN log' \subseteq Outgoing
    <3>1. PICK m \in Outgoing, row \in Row : log' = LogAnd(m, row)
      BY <1>8, NewRow
    <3>2. log' \in [DOMAIN log' -> Row] /\ DOMAIN log' = DOMAIN log \cup {m}
      BY <1>0, <3>1, AddsRow DEF TypesBut
    <3> QED
      BY <3>2, <1>0 DEF TypesBut
  <2>3. TypesBut'
    BY <1>0, <1>8, <2>2 DEF TypesBut, Queue
  <2>4. TurnBusy'
    BY <1>8, <2>1, TurnKept DEF Queue
  <2>5. AllFit'
    BY <2>1, OtherFits
  <2> QED
    BY <2>1, <2>3, <2>4, <2>5 DEF DeliveryTypeOK, TypesBut, TurnBusy, Started
<1>9. ASSUME NEW j \in Jobs, QueueFails(j)
      PROVE  DeliveryTypeOK' /\ AllFit'
  BY <1>9, QueueFailsStep, LocalType, OtherFits DEF QueueFails
<1>10. ASSUME NEW j \in Jobs, Attempt(j)
      PROVE  DeliveryTypeOK' /\ AllFit'
  <2>1. sends' \in [Jobs -> Sending] /\ Others(j) /\ Fits(j, sends'[j])
        /\ sends'[j].pc \in {"sending", "marking"}
    BY <1>10, AttemptStep DEF Tried
  <2>2. phone' \in [Outgoing -> Nat] /\ lost' \in [Outgoing -> Nat]
    <3>1. /\ phone' = phone \/ phone' = [phone EXCEPT ![Message(j)] = @ + 1]
          /\ lost' = lost \/ lost' = [lost EXCEPT ![Message(j)] = @ + 1]
      BY <1>10, AttemptStep
    <3> QED
      BY <3>1, <1>0 DEF TypesBut
  <2>3. failures' \in 0 .. MaxFailures
    BY <1>0, <1>10, FailureType DEF TypesBut, Attempt
  <2>4. TypesBut'
    BY <1>0, <1>10, <2>2, <2>3 DEF TypesBut, Attempt
  <2>5. TurnBusy'
    BY <1>10, <2>1, TurnKept DEF Attempt
  <2>6. AllFit'
    BY <2>1, OtherFits
  <2> QED
    BY <2>1, <2>4, <2>5, <2>6 DEF DeliveryTypeOK, TypesBut, TurnBusy, Started
<1>11. ASSUME NEW j \in Jobs, Mark(j)
      PROVE  DeliveryTypeOK' /\ AllFit'
  <2>1. sends' \in [Jobs -> Sending] /\ Others(j) /\ Fits(j, sends'[j]) /\ sends'[j].pc = "next"
    BY <1>11, MarkStep
  <2>2. log' \in [DOMAIN log' -> Row] /\ DOMAIN log' \subseteq Outgoing
    <3>1. /\ sends[j].ok \in BOOLEAN
          /\ log' = LogWith(Message(j), IF sends[j].ok THEN "sent" ELSE "failed", sends[j].ok)
      BY <1>11, SendingFields DEF Mark, DeliveryTypeOK
    <3>2. (IF sends[j].ok THEN "sent" ELSE "failed") \in {"queued", "sent", "failed", "delivered", "read"}
      OBVIOUS
    <3>3. log' \in [DOMAIN log' -> Row] /\ DOMAIN log' = DOMAIN log
      BY <1>0, <3>1, <3>2, ChangesRow DEF TypesBut
    <3> QED
      BY <3>3, <1>0 DEF TypesBut
  <2>3. TypesBut'
    BY <1>0, <1>11, <2>2 DEF TypesBut, Mark
  <2>4. TurnBusy'
    BY <1>11, <2>1, TurnKept DEF Mark
  <2>5. AllFit'
    BY <2>1, OtherFits
  <2> QED
    BY <2>1, <2>3, <2>4, <2>5 DEF DeliveryTypeOK, TypesBut, TurnBusy, Started
<1>12. ASSUME NEW j \in Jobs, MarkFails(j)
      PROVE  DeliveryTypeOK' /\ AllFit'
  BY <1>12, MarkFailsStep, LocalType, OtherFits DEF MarkFails
<1>13. ASSUME NEW j \in Jobs, Proceed(j)
      PROVE  DeliveryTypeOK' /\ AllFit'
  <2>1. sends' \in [Jobs -> Sending] /\ Others(j) /\ Fits(j, sends'[j])
        /\ \/ turn' = turn /\ sends'[j].pc \in {"deciding", "next"}
           \/ turn' = IF turn = j THEN NoJob ELSE turn
    BY <1>13, ProceedStep
  <2>2. TypesBut'
    <3>1. turn' \in Asks \cup {NoJob}
      BY <1>0, <2>1 DEF TypesBut
    <3> QED
      BY <1>0, <1>13, <3>1 DEF TypesBut, Proceed
  <2>3. TurnBusy'
    <3>1. CASE turn' = turn /\ sends'[j].pc \in {"deciding", "next"}
      BY <2>1, <3>1, TurnKept
    <3>2. CASE turn' = IF turn = j THEN NoJob ELSE turn
      <4>1. CASE turn = j \/ turn = NoJob
        BY <3>2, <4>1 DEF TurnBusy
      <4>2. CASE turn # j /\ turn # NoJob
        <5>1. turn' = turn /\ turn \in Jobs /\ sends'[turn] = sends[turn]
          BY <1>0, <2>1, <3>2, <4>2 DEF TypesBut, Others, Jobs
        <5> QED
          BY <5>1, <1>0 DEF TurnBusy
      <4> QED
        BY <4>1, <4>2
    <3> QED
      BY <2>1, <3>1, <3>2
  <2>4. AllFit'
    BY <2>1, OtherFits
  <2> QED
    BY <2>1, <2>2, <2>3, <2>4 DEF DeliveryTypeOK, TypesBut, TurnBusy, Started
<1>14. ASSUME NEW m \in Outgoing, NEW status \in {"delivered", "read", "failed"}, Receipt(m, status)
      PROVE  DeliveryTypeOK' /\ AllFit'
  <2>1. log' \in [DOMAIN log' -> Row] /\ DOMAIN log' \subseteq Outgoing
    <3>1. log' = LogWith(m, status, TRUE) \/ log' = log
      BY <1>14 DEF Receipt
    <3>2. CASE log' = LogWith(m, status, TRUE)
      <4>1. log' \in [DOMAIN log' -> Row] /\ DOMAIN log' = DOMAIN log
        BY <1>0, <3>2, ChangesRow DEF TypesBut
      <4> QED
        BY <4>1, <1>0 DEF TypesBut
    <3>3. CASE log' = log
      BY <3>3, <1>0 DEF TypesBut
    <3> QED
      BY <3>1, <3>2, <3>3
  <2>2. receipts' \in 0 .. MaxReceipts
    BY <1>0, <1>14, DeliveryAssumption DEF TypesBut, Receipt
  <2>3. TypesBut' /\ UNCHANGED <<sends, turn>>
    BY <1>0, <1>14, <2>1, <2>2 DEF TypesBut, Receipt
  <2> QED
    BY <2>3, <1>0 DEF DeliveryTypeOK, TypesBut, TurnBusy, Started, AllFit
<1>15. ASSUME NEW c \in Retentions, Prune(c)
      PROVE  DeliveryTypeOK' /\ AllFit'
  <2>1. log' \in [DOMAIN log' -> Row] /\ DOMAIN log' \subseteq Outgoing
    BY <1>0, <1>15 DEF TypesBut, Prune
  <2>2. heard' \in [Sessions -> Nat \cup {Never}]
    BY <1>0, <1>15 DEF TypesBut, Prune
  <2>3. TypesBut' /\ UNCHANGED <<sends, turn>>
    BY <1>0, <1>15, <2>1, <2>2 DEF TypesBut, Prune
  <2> QED
    BY <2>3, <1>0 DEF DeliveryTypeOK, TypesBut, TurnBusy, Started, AllFit
<1>16. CASE Tick
  <2>1. TypesBut' /\ UNCHANGED <<sends, turn>>
    BY <1>0, <1>16, DeliveryAssumption DEF TypesBut, Tick
  <2> QED
    BY <2>1, <1>0 DEF DeliveryTypeOK, TypesBut, TurnBusy, Started, AllFit
<1>17. CASE ProcessDies
  <2>1. sends' \in [Jobs -> Sending] /\ AllFit' /\ turn' = NoJob
    BY <1>17, CrashStep
  <2>2. failures' \in 0 .. MaxFailures
    BY <1>0, <1>17, FailureType DEF TypesBut, ProcessDies
  <2>3. TypesBut'
    BY <1>0, <1>17, <2>1, <2>2 DEF TypesBut, ProcessDies
  <2> QED
    BY <2>1, <2>3 DEF DeliveryTypeOK, TypesBut, Started
<1>18. ASSUME NEW j \in Jobs, GivesUp(j)
       PROVE  DeliveryTypeOK' /\ AllFit'
  <2>1. /\ sends' \in [Jobs -> Sending] /\ Others(j) /\ Fits(j, sends'[j])
        /\ UNCHANGED <<log, heard, session, templates, phone, lost, bounced, uncounted, receipts, now>>
        /\ UNCHANGED failures \/ Failure
        /\ wrote' \in {wrote, now} /\ turn' = IF turn = j THEN NoJob ELSE turn
    BY <1>18, GivesUpStep
  <2>2. failures' \in 0 .. MaxFailures
    BY <1>0, <2>1, FailureType DEF TypesBut
  <2>3. TypesBut'
    BY <1>0, <2>1, <2>2 DEF TypesBut
  <2>4. TurnBusy'
    <3>1. CASE turn = j \/ turn = NoJob
      BY <2>1, <3>1 DEF TurnBusy
    <3>2. CASE turn # j /\ turn # NoJob
      <4>1. turn' = turn /\ turn \in Jobs /\ sends'[turn] = sends[turn]
        BY <1>0, <2>1, <3>2 DEF TypesBut, Others, Jobs
      <4> QED
        BY <4>1, <1>0 DEF TurnBusy
    <3> QED
      BY <3>1, <3>2
  <2>5. AllFit'
    BY <2>1, OtherFits
  <2> QED
    BY <2>1, <2>3, <2>4, <2>5 DEF DeliveryTypeOK, TypesBut, TurnBusy
<1> QED
  BY <1>1, <1>2, <1>3, <1>4, <1>5, <1>6, <1>7, <1>8, <1>9, <1>10, <1>11, <1>12, <1>13, <1>14, <1>15,
     <1>16, <1>17, <1>18 DEF DeliveryNext, Counts, GivesUp

-----------------------------------------------------------------------------
(* What the clients and the archive say of each other                      *)

Ledger ==
  /\ Unbegun /\ Attempts /\ InArchive /\ KnownAccepted /\ OkAccepted
  /\ TwiceOnlyIfLost /\ Archived /\ StatusIsTrue

(* What a job has a result for.                                             *)
NoNewOk(q, r) ==
  \A i \in 1 .. Len(q.results) : q.results[i] = "ok" => \E k \in 1 .. Len(r.results) : r.results[k] = "ok"

LEMMA ExtendedNoNewOk ==
  ASSUME NEW q, NEW r, NEW e, Extended(q.results, r.results, e), e # "ok"
  PROVE  NoNewOk(q, r)
<1> SUFFICES ASSUME NEW i \in 1 .. Len(q.results), q.results[i] = "ok"
             PROVE  \E k \in 1 .. Len(r.results) : r.results[k] = "ok"
  BY DEF NoNewOk
<1> DEFINE a == q.results b == r.results
<1>1. Len(b) \in Nat /\ Len(a) = Len(b) + 1 /\ a[Len(a)] = e /\ \A k \in 1 .. Len(b) : a[k] = b[k]
  BY DEF Extended
<1>2. i \in 1 .. Len(a) /\ a[i] = "ok"
  OBVIOUS
<1> HIDE DEF a, b
<1>3. i # Len(a)
  BY <1>1, <1>2
<1>4. i \in 1 .. Len(b)
  BY <1>1, <1>2, <1>3
<1>5. b[i] = "ok"
  BY <1>1, <1>2, <1>4
<1> QED
  BY <1>4, <1>5 DEF b

LEMMA SameNoNewOk ==
  ASSUME NEW q, NEW r, q.results = r.results \/ q.results = <<>>
  PROVE  NoNewOk(q, r)
<1>1. CASE q.results = <<>>
  BY <1>1, NoReply DEF NoNewOk
<1>2. CASE q.results = r.results
  BY <1>2 DEF NoNewOk
<1> QED
  BY <1>1, <1>2

LEMMA BeginLedger ==
  ASSUME DeliveryInit
  PROVE  Ledger
<1> DEFINE c == Job("new", 0)
<1>1. c.pc = "new" /\ c.results = <<>> /\ Len(c.results) = 0
  BY NewJob, NoReply
<1>2. sends = [j \in Jobs |-> c]
  BY DEF DeliveryInit
<1> HIDE DEF c
<1>3. DOMAIN log = {} /\ phone = [m \in Outgoing |-> 0] /\ lost = [m \in Outgoing |-> 0]
  <2>1. log = <<>> /\ DOMAIN <<>> = {}
    BY DEF DeliveryInit
  <2> QED
    BY <2>1 DEF DeliveryInit
<1>4. \A j \in Jobs, i \in 1 .. NoticeSize + 2 : phone[<<j, i>>] = 0 /\ lost[<<j, i>>] = 0
  BY <1>3 DEF Outgoing
<1>5. Unbegun
  BY <1>3, <1>4 DEF Unbegun
<1>6. Attempts /\ InArchive
  BY <1>1, <1>2 DEF Attempts, InArchive, Busy
<1>7. OkAccepted
  <2>1. \A j \in Jobs : Len(sends[j].results) = 0
    BY <1>1, <1>2
  <2> QED
    BY <2>1 DEF OkAccepted
<1>8. KnownAccepted /\ StatusIsTrue /\ Archived /\ TwiceOnlyIfLost
  BY <1>3 DEF KnownAccepted, StatusIsTrue, Archived, TwiceOnlyIfLost
<1> QED
  BY <1>5, <1>6, <1>7, <1>8 DEF Ledger

(* A step between messages.                                                 *)
LEMMA QuietLedger ==
  ASSUME sends \in [Jobs -> Sending], sends' \in [Jobs -> Sending], Ledger, NEW j \in Jobs, Others(j),
         UNCHANGED <<log, phone, lost, bounced, now>>,
         ~Busy(sends'[j]), sends[j].pc # "crashed", sends'[j].n >= sends[j].n, NoNewOk(sends'[j], sends[j])
  PROVE  Ledger'
<1>1. Unbegun'
  <2> SUFFICES ASSUME NEW k \in Jobs, NEW i \in 1 .. NoticeSize + 2,
                      sends'[k].pc # "crashed", i > sends'[k].n
               PROVE  <<k, i>> \notin DOMAIN log /\ phone[<<k, i>>] = 0 /\ lost[<<k, i>>] = 0
    BY DEF Unbegun
  <2>1. sends[k].pc # "crashed" /\ i > sends[k].n
    <3>1. CASE k = j
      <4>1. sends[j].n \in Nat /\ sends'[j].n \in Nat
        BY SendingFields
      <4> QED
        BY <3>1, <4>1
    <3>2. CASE k # j
      BY <3>2 DEF Others
    <3> QED
      BY <3>1, <3>2
  <2> QED
    BY <2>1 DEF Ledger, Unbegun
<1>2. \A k \in Jobs : Busy(sends'[k]) => sends'[k] = sends[k]
  BY DEF Others
<1>3. Attempts'
  <2> SUFFICES ASSUME NEW k \in Jobs
               PROVE  LET r == sends'[k] IN
                      /\ r.pc = "sending" => phone[<<k, r.n>>] = lost[<<k, r.n>>] /\ phone[<<k, r.n>>] < r.try
                      /\ r.pc = "marking" => phone[<<k, r.n>>] = lost[<<k, r.n>>] + (IF r.ok THEN 1 ELSE 0)
    BY DEF Attempts, Message
  <2>1. CASE Busy(sends'[k])
    BY <1>2, <2>1 DEF Ledger, Attempts, Message
  <2>2. CASE ~Busy(sends'[k])
    BY <2>2 DEF Busy
  <2> QED
    BY <2>1, <2>2
<1>4. InArchive'
  <2> SUFFICES ASSUME NEW k \in Jobs, Busy(sends'[k])
               PROVE  IF <<k, sends'[k].n>> \in DOMAIN log
                      THEN /\ log[<<k, sends'[k].n>>].status = "queued" /\ ~log[<<k, sends'[k].n>>].known
                           /\ log[<<k, sends'[k].n>>].kind = sends'[k].left[1]
                           /\ log[<<k, sends'[k].n>>].step = Step(k)'
                      ELSE now > MinDays
    BY DEF InArchive, Message
  <2>1. sends'[k] = sends[k] /\ Step(k)' = Step(k) /\ Busy(sends[k])
    BY <1>2 DEF Step
  <2> QED
    BY <2>1 DEF Ledger, InArchive, Message
<1>5. OkAccepted'
  <2> SUFFICES ASSUME NEW k \in Jobs, NEW i \in 1 .. Len(sends'[k].results), sends'[k].results[i] = "ok"
               PROVE  \E m \in Outgoing : m[1] = k /\ phone[m] > 0
    BY DEF OkAccepted
  <2>1. \E x \in 1 .. Len(sends[k].results) : sends[k].results[x] = "ok"
    <3>1. CASE k = j
      BY <3>1 DEF NoNewOk
    <3>2. CASE k # j
      BY <3>2 DEF Others
    <3> QED
      BY <3>1, <3>2
  <2> QED
    BY <2>1 DEF Ledger, OkAccepted
<1>6. KnownAccepted' /\ TwiceOnlyIfLost' /\ Archived' /\ StatusIsTrue'
  BY DEF Ledger, KnownAccepted, TwiceOnlyIfLost, Archived, StatusIsTrue
<1> QED
  BY <1>1, <1>3, <1>4, <1>5, <1>6 DEF Ledger

(* A job that has begun a message it has no row of yet.                     *)
LEMMA QueueLedger ==
  ASSUME DeliveryTypeOK, AllFit, Ledger, NEW j \in Jobs, Queue(j)
  PROVE  Ledger'
<1> DEFINE m == <<j, sends[j].n + 1>>
<1>1. PICK row \in Row : /\ log' = LogAnd(m, row) /\ row.kind = sends[j].left[1] /\ row.step = Step(j)
                         /\ row.status = "queued" /\ ~row.known /\ row.at = now
  BY NewRow
<1>2. m \in Outgoing /\ m[1] = j
  BY NewRow
<1>3. /\ sends' \in [Jobs -> Sending] /\ Others(j) /\ sends[j].pc = "next"
      /\ sends'[j].pc = "sending" /\ sends'[j].phase = sends[j].phase /\ sends'[j].n = sends[j].n + 1
      /\ sends[j].n + 1 \in 1 .. NoticeSize + 2 /\ sends'[j].try = 1
      /\ sends'[j].left = sends[j].left /\ sends'[j].results = sends[j].results
  BY QueueStep
<1>4. UNCHANGED <<phone, lost, bounced, now>>
  BY DEF Queue
<1>5. /\ DOMAIN log' = DOMAIN log \cup {m} /\ log'[m] = row
      /\ \A x \in DOMAIN log : x # m => log'[x] = log[x]
  BY <1>1, AddsRow DEF DeliveryTypeOK
<1>6. m \notin DOMAIN log /\ phone[m] = 0 /\ lost[m] = 0
  <2>1. sends[j].n \in Nat
    BY SendingFields DEF DeliveryTypeOK
  <2> QED
    BY <1>3, <2>1 DEF Ledger, Unbegun
<1> HIDE DEF m
<1>7. Unbegun'
  <2> SUFFICES ASSUME NEW k \in Jobs, NEW i \in 1 .. NoticeSize + 2,
                      sends'[k].pc # "crashed", i > sends'[k].n
               PROVE  <<k, i>> \notin DOMAIN log' /\ phone'[<<k, i>>] = 0 /\ lost'[<<k, i>>] = 0
    BY DEF Unbegun
  <2>1. sends[k].pc # "crashed" /\ i > sends[k].n /\ <<k, i>> # m
    <3>1. CASE k = j
      <4>1. sends[j].n \in Nat
        BY SendingFields DEF DeliveryTypeOK
      <4> QED
        BY <1>3, <3>1, <4>1 DEF m
    <3>2. CASE k # j
      BY <3>2, <1>3 DEF Others, m
    <3> QED
      BY <3>1, <3>2
  <2> QED
    BY <2>1, <1>4, <1>5 DEF Ledger, Unbegun
<1>8. Attempts'
  <2> SUFFICES ASSUME NEW k \in Jobs
               PROVE  LET r == sends'[k] IN
                      /\ r.pc = "sending" => phone[<<k, r.n>>] = lost[<<k, r.n>>] /\ phone[<<k, r.n>>] < r.try
                      /\ r.pc = "marking" => phone[<<k, r.n>>] = lost[<<k, r.n>>] + (IF r.ok THEN 1 ELSE 0)
    BY <1>4 DEF Attempts, Message
  <2>1. CASE k = j
    BY <2>1, <1>3, <1>6 DEF m
  <2>2. CASE k # j
    BY <2>2, <1>3 DEF Others, Ledger, Attempts, Message
  <2> QED
    BY <2>1, <2>2
<1>9. InArchive'
  <2> SUFFICES ASSUME NEW k \in Jobs, Busy(sends'[k])
               PROVE  IF <<k, sends'[k].n>> \in DOMAIN log'
                      THEN /\ log'[<<k, sends'[k].n>>].status = "queued" /\ ~log'[<<k, sends'[k].n>>].known
                           /\ log'[<<k, sends'[k].n>>].kind = sends'[k].left[1]
                           /\ log'[<<k, sends'[k].n>>].step = Step(k)'
                      ELSE now' > MinDays
    BY DEF InArchive, Message
  <2>1. CASE k = j
    <3>1. <<k, sends'[k].n>> = m /\ Step(k)' = Step(j)
      BY <2>1, <1>3 DEF Step, m
    <3> QED
      BY <2>1, <3>1, <1>1, <1>3, <1>5
  <2>2. CASE k # j
    <3>1. sends'[k] = sends[k] /\ Step(k)' = Step(k) /\ Busy(sends[k]) /\ <<k, sends[k].n>> # m
      BY <2>2, <1>3 DEF Others, Step, m
    <3>2. IF <<k, sends[k].n>> \in DOMAIN log
          THEN /\ log[<<k, sends[k].n>>].status = "queued" /\ ~log[<<k, sends[k].n>>].known
               /\ log[<<k, sends[k].n>>].kind = sends[k].left[1]
               /\ log[<<k, sends[k].n>>].step = Step(k)
          ELSE now > MinDays
      BY <3>1 DEF Ledger, InArchive, Message
    <3> QED
      BY <3>1, <3>2, <1>4, <1>5
  <2> QED
    BY <2>1, <2>2
<1>10. OkAccepted'
  <2>1. \A k \in Jobs : sends'[k].results = sends[k].results
    BY <1>3 DEF Others
  <2> QED
    BY <1>4, <2>1 DEF Ledger, OkAccepted
<1>11. now \in Nat
  BY DeliveryAssumption DEF DeliveryTypeOK
<1>12. KnownAccepted'
  <2> SUFFICES ASSUME NEW x \in DOMAIN log'
               PROVE  /\ log'[x].at <= now
                      /\ log'[x].known => phone[x] > 0 /\ (log'[x].status = "failed" => x \in bounced)
    BY <1>4 DEF KnownAccepted
  <2>1. CASE x = m
    BY <2>1, <1>1, <1>5, <1>11
  <2>2. CASE x # m
    BY <2>2, <1>5 DEF Ledger, KnownAccepted
  <2> QED
    BY <2>1, <2>2
<1>13. Archived' /\ TwiceOnlyIfLost'
  BY <1>4, <1>5 DEF Ledger, Archived, TwiceOnlyIfLost
<1>14. StatusIsTrue'
  <2> SUFFICES ASSUME NEW x \in DOMAIN log'
               PROVE  /\ log'[x].status \in {"sent", "delivered", "read"} => phone[x] > 0
                      /\ log'[x].status = "failed" /\ phone[x] > 0 => x \in bounced \/ lost[x] > 0
    BY <1>4 DEF StatusIsTrue
  <2>1. CASE x = m
    BY <2>1, <1>1, <1>5
  <2>2. CASE x # m
    BY <2>2, <1>5 DEF Ledger, StatusIsTrue
  <2> QED
    BY <2>1, <2>2
<1> QED
  BY <1>7, <1>8, <1>9, <1>10, <1>12, <1>13, <1>14 DEF Ledger

(* Meta's answer, or none.                                                  *)
LEMMA AttemptLedger ==
  ASSUME DeliveryTypeOK, AllFit, Ledger, NEW j \in Jobs, Attempt(j)
  PROVE  Ledger'
<1> DEFINE m == Message(j)
           r == sends[j]
           q == sends'[j]
<1>1. /\ sends' \in [Jobs -> Sending] /\ Others(j) /\ r.pc = "sending" /\ Tried(q, r)
      /\ \/ /\ phone' = [phone EXCEPT ![m] = @ + 1] /\ lost' = lost
            /\ q.pc = "marking" /\ q.ok
         \/ /\ phone' = [phone EXCEPT ![m] = @ + 1] /\ lost' = [lost EXCEPT ![m] = @ + 1]
            /\ q.pc = "marking" => ~q.ok
         \/ /\ phone' = phone /\ lost' = lost
            /\ q.pc = "marking" => ~q.ok
  BY AttemptStep
<1>2. UNCHANGED <<log, bounced, now>>
  BY DEF Attempt
<1>3. m \in Outgoing /\ m[1] = j /\ m = <<j, r.n>>
  BY <1>1, MessageType DEF DeliveryTypeOK, Busy
<1>4. phone \in [Outgoing -> Nat] /\ lost \in [Outgoing -> Nat] /\ r \in Sending /\ r.try \in Nat /\ r.try <= MaxAttempts
  BY SendingFields DEF DeliveryTypeOK
<1>5. phone[m] = lost[m] /\ phone[m] < r.try
  BY <1>1 DEF Ledger, Attempts
<1>6. q.n = r.n /\ q.left = r.left /\ q.phase = r.phase /\ q.results = r.results
      /\ q.pc \in {"sending", "marking"} /\ (q.pc = "sending" => q.try = r.try + 1)
  BY <1>1 DEF Tried
<1>7. /\ \A x \in Outgoing : x # m => phone'[x] = phone[x] /\ lost'[x] = lost[x]
      /\ \/ phone'[m] = phone[m] + 1 /\ lost'[m] = lost[m] /\ q.pc = "marking" /\ q.ok
         \/ phone'[m] = phone[m] + 1 /\ lost'[m] = lost[m] + 1 /\ (q.pc = "marking" => ~q.ok)
         \/ phone'[m] = phone[m] /\ lost'[m] = lost[m] /\ (q.pc = "marking" => ~q.ok)
  BY <1>1, <1>3, <1>4
<1>8. phone[m] \in Nat /\ lost[m] \in Nat
  BY <1>3, <1>4
<1>9. \A x \in Outgoing : phone'[x] >= phone[x]
  BY <1>4, <1>7, <1>8
<1>10. IF m \in DOMAIN log THEN log[m].status = "queued" /\ ~log[m].known ELSE now > MinDays
  BY <1>1 DEF Ledger, InArchive, Busy
<1> HIDE DEF m, q, r
<1>11. Unbegun'
  <2> SUFFICES ASSUME NEW k \in Jobs, NEW i \in 1 .. NoticeSize + 2,
                      sends'[k].pc # "crashed", i > sends'[k].n
               PROVE  <<k, i>> \notin DOMAIN log' /\ phone'[<<k, i>>] = 0 /\ lost'[<<k, i>>] = 0
    BY DEF Unbegun
  <2>1. sends[k].pc # "crashed" /\ i > sends[k].n /\ <<k, i>> # m
    <3>1. CASE k = j
      <4>1. r.n \in Nat
        BY <1>4, SendingFields
      <4> QED
        BY <1>1, <1>3, <1>6, <3>1, <4>1 DEF q, r
    <3>2. CASE k # j
      BY <3>2, <1>1, <1>3 DEF Others
    <3> QED
      BY <3>1, <3>2
  <2>2. <<k, i>> \in Outgoing
    BY DEF Outgoing
  <2> QED
    BY <2>1, <2>2, <1>2, <1>7 DEF Ledger, Unbegun
<1>12. Attempts'
  <2> SUFFICES ASSUME NEW k \in Jobs
               PROVE  LET s == sends'[k] IN
                      /\ s.pc = "sending" => phone'[<<k, s.n>>] = lost'[<<k, s.n>>] /\ phone'[<<k, s.n>>] < s.try
                      /\ s.pc = "marking" => phone'[<<k, s.n>>] = lost'[<<k, s.n>>] + (IF s.ok THEN 1 ELSE 0)
    BY DEF Attempts, Message
  <2>1. CASE k = j
    <3>1. <<k, q.n>> = m /\ sends'[k] = q
      BY <2>1, <1>3, <1>6 DEF q
    <3>2. q.pc = "sending" => phone'[m] = lost'[m] /\ phone'[m] < q.try
      BY <1>4, <1>5, <1>6, <1>7, <1>8
    <3>3. q.pc = "marking" => phone'[m] = lost'[m] + (IF q.ok THEN 1 ELSE 0)
      BY <1>5, <1>7, <1>8
    <3> QED
      BY <3>1, <3>2, <3>3
  <2>2. CASE k # j
    <3>1. sends'[k] = sends[k]
      BY <1>1, <2>2 DEF Others
    <3>2. Busy(sends[k]) => <<k, sends[k].n>> \in Outgoing /\ <<k, sends[k].n>> # m
      BY <2>2, <1>3, MessageType DEF DeliveryTypeOK
    <3> QED
      BY <3>1, <3>2, <1>7 DEF Ledger, Attempts, Message, Busy
  <2> QED
    BY <2>1, <2>2
<1>13. InArchive'
  <2> SUFFICES ASSUME NEW k \in Jobs, Busy(sends'[k])
               PROVE  IF <<k, sends'[k].n>> \in DOMAIN log
                      THEN /\ log[<<k, sends'[k].n>>].status = "queued" /\ ~log[<<k, sends'[k].n>>].known
                           /\ log[<<k, sends'[k].n>>].kind = sends'[k].left[1]
                           /\ log[<<k, sends'[k].n>>].step = Step(k)'
                      ELSE now > MinDays
    BY <1>2 DEF InArchive, Message
  <2>1. sends'[k].n = sends[k].n /\ sends'[k].left = sends[k].left /\ Step(k)' = Step(k) /\ Busy(sends[k])
    BY <1>1, <1>6 DEF Others, Step, Busy, q, r
  <2> QED
    BY <2>1 DEF Ledger, InArchive, Message
<1>14. OkAccepted'
  <2>1. \A k \in Jobs : sends'[k].results = sends[k].results
    BY <1>1, <1>6 DEF Others, q, r
  <2> SUFFICES ASSUME NEW k \in Jobs, NEW i \in 1 .. Len(sends[k].results), sends[k].results[i] = "ok"
               PROVE  \E x \in Outgoing : x[1] = k /\ phone'[x] > 0
    BY <2>1 DEF OkAccepted
  <2>2. PICK x \in Outgoing : x[1] = k /\ phone[x] > 0
    BY DEF Ledger, OkAccepted
  <2>3. phone'[x] > 0
    <3>1. phone[x] \in Nat /\ phone'[x] >= phone[x]
      BY <1>4, <1>9
    <3>2. phone'[x] \in Nat
      BY <1>4, <1>7, <1>8
    <3> QED
      BY <2>2, <3>1, <3>2
  <2> QED
    BY <2>2, <2>3
<1>15. TwiceOnlyIfLost'
  <2> SUFFICES ASSUME NEW x \in Outgoing
               PROVE  phone'[x] <= 1 + lost'[x] /\ phone'[x] <= MaxAttempts
    BY DEF TwiceOnlyIfLost
  <2>1. CASE x = m
    BY <2>1, <1>4, <1>5, <1>7, <1>8
  <2>2. CASE x # m
    BY <2>2, <1>7 DEF Ledger, TwiceOnlyIfLost
  <2> QED
    BY <2>1, <2>2
<1>16. Archived'
  <2> SUFFICES ASSUME NEW x \in Outgoing, phone'[x] > 0, x \notin DOMAIN log
               PROVE  now > MinDays
    BY <1>2 DEF Archived
  <2>1. CASE x = m
    BY <2>1, <1>10
  <2>2. CASE x # m
    BY <2>2, <1>7 DEF Ledger, Archived
  <2> QED
    BY <2>1, <2>2
<1>17. KnownAccepted'
  <2> SUFFICES ASSUME NEW x \in DOMAIN log
               PROVE  /\ log[x].at <= now
                      /\ log[x].known => phone'[x] > 0 /\ (log[x].status = "failed" => x \in bounced)
    BY <1>2 DEF KnownAccepted
  <2>0. x \in Outgoing
    BY DEF DeliveryTypeOK
  <2>1. CASE x = m
    BY <2>1, <1>10 DEF Ledger, KnownAccepted
  <2>2. CASE x # m
    BY <2>0, <2>2, <1>7 DEF Ledger, KnownAccepted
  <2> QED
    BY <2>1, <2>2
<1>18. StatusIsTrue'
  <2> SUFFICES ASSUME NEW x \in DOMAIN log
               PROVE  /\ log[x].status \in {"sent", "delivered", "read"} => phone'[x] > 0
                      /\ log[x].status = "failed" /\ phone'[x] > 0 => x \in bounced \/ lost'[x] > 0
    BY <1>2 DEF StatusIsTrue
  <2>0. x \in Outgoing
    BY DEF DeliveryTypeOK
  <2>1. CASE x = m
    BY <2>1, <1>10
  <2>2. CASE x # m
    BY <2>0, <2>2, <1>7 DEF Ledger, StatusIsTrue
  <2> QED
    BY <2>1, <2>2
<1> QED
  BY <1>11, <1>12, <1>13, <1>14, <1>15, <1>16, <1>17, <1>18 DEF Ledger

(* The row, if it is still there, gets the outcome.                         *)
LEMMA MarkLedger ==
  ASSUME DeliveryTypeOK, AllFit, Ledger, NEW j \in Jobs, Mark(j)
  PROVE  Ledger'
<1> DEFINE m == Message(j)
           r == sends[j]
           q == sends'[j]
<1>1. /\ sends' \in [Jobs -> Sending] /\ Others(j) /\ r.pc = "marking" /\ r.ok \in BOOLEAN
      /\ (Result(j) = "ok" <=> r.ok)
      /\ q.pc = "next" /\ q.n = r.n /\ Extended(q.results, r.results, Result(j))
  BY MarkStep, SendingFields DEF DeliveryTypeOK
<1>2. UNCHANGED <<phone, lost, bounced, now>>
  BY DEF Mark
<1>3. m \in Outgoing /\ m[1] = j /\ m = <<j, r.n>>
  BY <1>1, MessageType DEF DeliveryTypeOK, Busy
<1>4. log' = LogWith(m, IF r.ok THEN "sent" ELSE "failed", r.ok)
  BY DEF Mark
<1>5. /\ DOMAIN log' = DOMAIN log
      /\ \A x \in DOMAIN log : x # m => log'[x] = log[x]
      /\ m \in DOMAIN log => /\ log'[m].kind = log[m].kind /\ log'[m].step = log[m].step
                             /\ log'[m].at = log[m].at /\ log'[m].known = r.ok
                             /\ log'[m].status = IF r.ok THEN "sent" ELSE "failed"
  <2>1. (IF r.ok THEN "sent" ELSE "failed") \in {"queued", "sent", "failed", "delivered", "read"}
    OBVIOUS
  <2> QED
    BY <1>1, <1>4, <2>1, ChangesRow DEF DeliveryTypeOK
<1>6. phone[m] = lost[m] + (IF r.ok THEN 1 ELSE 0) /\ phone[m] \in Nat /\ lost[m] \in Nat
  BY <1>1, <1>3 DEF Ledger, Attempts, DeliveryTypeOK
<1>7. (r.ok => phone[m] > 0) /\ (~r.ok /\ phone[m] > 0 => lost[m] > 0)
  BY <1>6
<1> HIDE DEF m, q, r
<1>8. Unbegun'
  <2> SUFFICES ASSUME NEW k \in Jobs, NEW i \in 1 .. NoticeSize + 2,
                      sends'[k].pc # "crashed", i > sends'[k].n
               PROVE  <<k, i>> \notin DOMAIN log /\ phone[<<k, i>>] = 0 /\ lost[<<k, i>>] = 0
    BY <1>2, <1>5 DEF Unbegun
  <2>1. sends[k].pc # "crashed" /\ i > sends[k].n
    BY <1>1 DEF Others, q, r
  <2> QED
    BY <2>1 DEF Ledger, Unbegun
<1>9. Attempts'
  <2> SUFFICES ASSUME NEW k \in Jobs
               PROVE  LET s == sends'[k] IN
                      /\ s.pc = "sending" => phone[<<k, s.n>>] = lost[<<k, s.n>>] /\ phone[<<k, s.n>>] < s.try
                      /\ s.pc = "marking" => phone[<<k, s.n>>] = lost[<<k, s.n>>] + (IF s.ok THEN 1 ELSE 0)
    BY <1>2 DEF Attempts, Message
  <2>1. CASE k = j
    BY <2>1, <1>1 DEF q
  <2>2. CASE k # j
    BY <2>2, <1>1 DEF Others, Ledger, Attempts, Message
  <2> QED
    BY <2>1, <2>2
<1>10. InArchive'
  <2> SUFFICES ASSUME NEW k \in Jobs, Busy(sends'[k])
               PROVE  IF <<k, sends'[k].n>> \in DOMAIN log'
                      THEN /\ log'[<<k, sends'[k].n>>].status = "queued" /\ ~log'[<<k, sends'[k].n>>].known
                           /\ log'[<<k, sends'[k].n>>].kind = sends'[k].left[1]
                           /\ log'[<<k, sends'[k].n>>].step = Step(k)'
                      ELSE now > MinDays
    BY <1>2 DEF InArchive, Message
  <2>1. k # j
    BY <1>1 DEF Busy, q
  <2>2. sends'[k] = sends[k] /\ Step(k)' = Step(k) /\ Busy(sends[k]) /\ <<k, sends[k].n>> # m
    BY <2>1, <1>1, <1>3 DEF Others, Step
  <2>3. IF <<k, sends[k].n>> \in DOMAIN log
        THEN /\ log[<<k, sends[k].n>>].status = "queued" /\ ~log[<<k, sends[k].n>>].known
             /\ log[<<k, sends[k].n>>].kind = sends[k].left[1]
             /\ log[<<k, sends[k].n>>].step = Step(k)
        ELSE now > MinDays
    BY <2>2 DEF Ledger, InArchive, Message
  <2> QED
    BY <2>2, <2>3, <1>5
<1>11. OkAccepted'
  <2> SUFFICES ASSUME NEW k \in Jobs, NEW i \in 1 .. Len(sends'[k].results), sends'[k].results[i] = "ok"
               PROVE  \E x \in Outgoing : x[1] = k /\ phone[x] > 0
    BY <1>2 DEF OkAccepted
  <2>1. CASE k = j /\ r.ok
    BY <2>1, <1>3, <1>7
  <2>2. CASE k = j /\ ~r.ok
    <3>1. NoNewOk(q, r)
      BY <2>2, <1>1, ExtendedNoNewOk
    <3>2. \E x \in 1 .. Len(r.results) : r.results[x] = "ok"
      BY <2>2, <3>1 DEF NoNewOk, q
    <3> QED
      BY <2>2, <3>2 DEF Ledger, OkAccepted, r
  <2>3. CASE k # j
    BY <2>3, <1>1 DEF Others, Ledger, OkAccepted
  <2> QED
    BY <2>1, <2>2, <2>3, <1>1
<1>12. TwiceOnlyIfLost' /\ Archived'
  BY <1>2, <1>5 DEF Ledger, TwiceOnlyIfLost, Archived
<1>13. KnownAccepted'
  <2> SUFFICES ASSUME NEW x \in DOMAIN log
               PROVE  /\ log'[x].at <= now
                      /\ log'[x].known => phone[x] > 0 /\ (log'[x].status = "failed" => x \in bounced)
    BY <1>2, <1>5 DEF KnownAccepted
  <2>1. CASE x = m
    <3>1. log'[x].at <= now
      BY <2>1, <1>5 DEF Ledger, KnownAccepted
    <3>2. log'[x].known => r.ok /\ log'[x].status = "sent"
      BY <2>1, <1>1, <1>5
    <3> QED
      BY <2>1, <3>1, <3>2, <1>7
  <2>2. CASE x # m
    BY <2>2, <1>5 DEF Ledger, KnownAccepted
  <2> QED
    BY <2>1, <2>2
<1>14. StatusIsTrue'
  <2> SUFFICES ASSUME NEW x \in DOMAIN log
               PROVE  /\ log'[x].status \in {"sent", "delivered", "read"} => phone[x] > 0
                      /\ log'[x].status = "failed" /\ phone[x] > 0 => x \in bounced \/ lost[x] > 0
    BY <1>2, <1>5 DEF StatusIsTrue
  <2>1. CASE x = m
    BY <2>1, <1>5, <1>7
  <2>2. CASE x # m
    BY <2>2, <1>5 DEF Ledger, StatusIsTrue
  <2> QED
    BY <2>1, <2>2
<1> QED
  BY <1>8, <1>9, <1>10, <1>11, <1>12, <1>13, <1>14 DEF Ledger

(* Receipts are of accepted messages, and change rows that know it.         *)
LEMMA ReceiptLedger ==
  ASSUME DeliveryTypeOK, AllFit, Ledger, NEW m \in Outgoing,
         NEW status \in {"delivered", "read", "failed"}, Receipt(m, status)
  PROVE  Ledger'
<1>1. UNCHANGED <<phone, lost, sends, now>> /\ phone[m] > 0
      /\ bounced' = IF status = "failed" THEN bounced \cup {m} ELSE bounced
  BY DEF Receipt
<1>2. /\ DOMAIN log' = DOMAIN log
      /\ \A x \in DOMAIN log : log'[x] = log[x] \/ (/\ x = m /\ log[m].known /\ log'[m].at = log[m].at
                                                     /\ log'[m].status = status /\ log'[m].known)
  <2>1. CASE m \in DOMAIN log /\ log[m].known
    <3>1. log' = LogWith(m, status, TRUE)
      BY <2>1 DEF Receipt
    <3> QED
      BY <2>1, <3>1, ChangesRow DEF DeliveryTypeOK
  <2>2. CASE ~(m \in DOMAIN log /\ log[m].known)
    BY <2>2 DEF Receipt
  <2> QED
    BY <2>1, <2>2
<1>3. Unbegun' /\ Attempts' /\ OkAccepted' /\ TwiceOnlyIfLost' /\ Archived'
  BY <1>1, <1>2 DEF Ledger, Unbegun, Attempts, OkAccepted, TwiceOnlyIfLost, Archived, Message
<1>4. InArchive'
  <2> SUFFICES ASSUME NEW k \in Jobs, Busy(sends[k])
               PROVE  IF <<k, sends[k].n>> \in DOMAIN log
                      THEN /\ log'[<<k, sends[k].n>>].status = "queued" /\ ~log'[<<k, sends[k].n>>].known
                           /\ log'[<<k, sends[k].n>>].kind = sends[k].left[1]
                           /\ log'[<<k, sends[k].n>>].step = Step(k)
                      ELSE now > MinDays
    BY <1>1, <1>2 DEF InArchive, Message, Step
  <2>1. IF <<k, sends[k].n>> \in DOMAIN log
        THEN /\ log[<<k, sends[k].n>>].status = "queued" /\ ~log[<<k, sends[k].n>>].known
             /\ log[<<k, sends[k].n>>].kind = sends[k].left[1]
             /\ log[<<k, sends[k].n>>].step = Step(k)
        ELSE now > MinDays
    BY DEF Ledger, InArchive, Message
  <2> QED
    BY <2>1, <1>2
<1>5. KnownAccepted'
  <2> SUFFICES ASSUME NEW x \in DOMAIN log
               PROVE  /\ log'[x].at <= now
                      /\ log'[x].known => phone[x] > 0 /\ (log'[x].status = "failed" => x \in bounced')
    BY <1>1, <1>2 DEF KnownAccepted
  <2>1. CASE log'[x] = log[x]
    BY <2>1, <1>1 DEF Ledger, KnownAccepted
  <2>2. CASE x = m /\ log'[m].at = log[m].at /\ log'[m].status = status
    BY <2>2, <1>1 DEF Ledger, KnownAccepted
  <2> QED
    BY <1>2, <2>1, <2>2
<1>6. StatusIsTrue'
  <2> SUFFICES ASSUME NEW x \in DOMAIN log
               PROVE  /\ log'[x].status \in {"sent", "delivered", "read"} => phone[x] > 0
                      /\ log'[x].status = "failed" /\ phone[x] > 0 => x \in bounced' \/ lost[x] > 0
    BY <1>1, <1>2 DEF StatusIsTrue
  <2>1. CASE log'[x] = log[x]
    BY <2>1, <1>1 DEF Ledger, StatusIsTrue
  <2>2. CASE x = m /\ log'[m].status = status
    BY <2>2, <1>1
  <2> QED
    BY <1>2, <2>1, <2>2
<1> QED
  BY <1>3, <1>4, <1>5, <1>6 DEF Ledger

(* What is pruned is old.                                                   *)
LEMMA PruneLedger ==
  ASSUME DeliveryTypeOK, AllFit, Ledger, NEW c \in Retentions, Prune(c)
  PROVE  Ledger'
<1>1. UNCHANGED <<phone, lost, bounced, sends, now>>
  BY DEF Prune
<1>2. /\ DOMAIN log' \subseteq DOMAIN log /\ \A x \in DOMAIN log' : log'[x] = log[x]
      /\ \A x \in DOMAIN log \ DOMAIN log' : log[x].at + Days(c) < now
  BY DEF Prune
<1>3. \A x \in DOMAIN log \ DOMAIN log' : now > MinDays
  <2> SUFFICES ASSUME NEW x \in DOMAIN log \ DOMAIN log'
               PROVE  now > MinDays
    OBVIOUS
  <2>1. Days(c) \in Nat /\ Days(c) >= MinDays /\ MinDays \in Nat
    BY DeliveryAssumption DEF Days
  <2>2. log[x].at \in Nat /\ now \in Nat
    BY RowFields, DeliveryAssumption DEF DeliveryTypeOK
  <2> QED
    BY <1>2, <2>1, <2>2
<1>4. Unbegun' /\ Attempts' /\ OkAccepted' /\ TwiceOnlyIfLost' /\ KnownAccepted' /\ StatusIsTrue'
  BY <1>1, <1>2 DEF Ledger, Unbegun, Attempts, OkAccepted, TwiceOnlyIfLost, KnownAccepted, StatusIsTrue, Message
<1>5. Archived'
  BY <1>1, <1>2, <1>3 DEF Ledger, Archived
<1>6. InArchive'
  <2> SUFFICES ASSUME NEW k \in Jobs, Busy(sends[k])
               PROVE  IF <<k, sends[k].n>> \in DOMAIN log'
                      THEN /\ log'[<<k, sends[k].n>>].status = "queued" /\ ~log'[<<k, sends[k].n>>].known
                           /\ log'[<<k, sends[k].n>>].kind = sends[k].left[1]
                           /\ log'[<<k, sends[k].n>>].step = Step(k)
                      ELSE now > MinDays
    BY <1>1 DEF InArchive, Message, Step
  <2>1. IF <<k, sends[k].n>> \in DOMAIN log
        THEN /\ log[<<k, sends[k].n>>].status = "queued" /\ ~log[<<k, sends[k].n>>].known
             /\ log[<<k, sends[k].n>>].kind = sends[k].left[1]
             /\ log[<<k, sends[k].n>>].step = Step(k)
        ELSE now > MinDays
    BY DEF Ledger, InArchive, Message
  <2> QED
    BY <2>1, <1>2, <1>3
<1> QED
  BY <1>4, <1>5, <1>6 DEF Ledger

LEMMA TickLedger ==
  ASSUME DeliveryTypeOK, AllFit, Ledger, Tick
  PROVE  Ledger'
<1>1. UNCHANGED <<log, phone, lost, bounced, sends>> /\ now' = now + 1
  BY DEF Tick
<1>2. now \in Nat /\ MinDays \in Nat
  BY DeliveryAssumption DEF DeliveryTypeOK
<1>3. Unbegun' /\ Attempts' /\ OkAccepted' /\ TwiceOnlyIfLost' /\ StatusIsTrue'
  BY <1>1 DEF Ledger, Unbegun, Attempts, OkAccepted, TwiceOnlyIfLost, StatusIsTrue, Message
<1>4. now > MinDays => now' > MinDays
  BY <1>1, <1>2
<1>5. Archived'
  BY <1>1, <1>4 DEF Ledger, Archived
<1>6. InArchive'
  BY <1>1, <1>4 DEF Ledger, InArchive, Message, Step
<1>7. KnownAccepted'
  <2>1. \A x \in DOMAIN log : log[x].at \in Nat /\ log[x].at <= now
    BY RowFields DEF Ledger, KnownAccepted, DeliveryTypeOK
  <2>2. \A x \in DOMAIN log : log[x].at <= now'
    BY <2>1, <1>1, <1>2
  <2> QED
    BY <2>2, <1>1 DEF Ledger, KnownAccepted
<1> QED
  BY <1>3, <1>5, <1>6, <1>7 DEF Ledger

LEMMA CrashLedger ==
  ASSUME DeliveryTypeOK, AllFit, Ledger, ProcessDies
  PROVE  Ledger'
<1>1. UNCHANGED <<log, phone, lost, bounced, now>>
  BY DEF ProcessDies
<1>2. \A k \in Jobs : \/ sends[k].pc \in {"new", "done", "gaveUp"} /\ sends'[k] = sends[k]
                      \/ sends'[k].pc = "crashed" /\ sends'[k].results = <<>>
  BY CrashStep
<1>3. Unbegun'
  BY <1>1, <1>2 DEF Ledger, Unbegun
<1>4. \A k \in Jobs : ~Busy(sends'[k])
  BY <1>2 DEF Busy
<1>5. Attempts' /\ InArchive'
  BY <1>4 DEF Attempts, InArchive, Busy
<1>6. OkAccepted'
  <2> SUFFICES ASSUME NEW k \in Jobs, NEW i \in 1 .. Len(sends'[k].results), sends'[k].results[i] = "ok"
               PROVE  \E x \in Outgoing : x[1] = k /\ phone[x] > 0
    BY <1>1 DEF OkAccepted
  <2>1. sends'[k] = sends[k]
    <3>1. sends'[k].results # <<>>
      BY NoReply
    <3> QED
      BY <1>2, <3>1
  <2> QED
    BY <2>1 DEF Ledger, OkAccepted
<1>7. TwiceOnlyIfLost' /\ Archived' /\ KnownAccepted' /\ StatusIsTrue'
  BY <1>1 DEF Ledger, TwiceOnlyIfLost, Archived, KnownAccepted, StatusIsTrue
<1> QED
  BY <1>3, <1>5, <1>6, <1>7 DEF Ledger

LEMMA LedgerStep ==
  ASSUME DeliveryTypeOK, AllFit, Ledger, DeliveryNext
  PROVE  Ledger'
<1>0. sends \in [Jobs -> Sending]
  BY DEF DeliveryTypeOK
<1>1. ASSUME NEW j \in Jobs, NEW sold \in BOOLEAN, Notice(j, sold)
      PROVE  Ledger'
  <2>1. /\ sends' \in [Jobs -> Sending] /\ Others(j) /\ ~Busy(sends'[j])
        /\ sends[j].pc # "crashed" /\ sends'[j].n >= sends[j].n /\ NoNewOk(sends'[j], sends[j])
    BY <1>1, NoticeStep, SameNoNewOk DEF Busy
  <2> QED
    BY <1>0, <1>1, <2>1, QuietLedger DEF Notice
<1>2. ASSUME NEW j \in Jobs, SendMessage(j)
      PROVE  Ledger'
  <2>1. /\ sends' \in [Jobs -> Sending] /\ Others(j) /\ ~Busy(sends'[j])
        /\ sends[j].pc # "crashed" /\ sends'[j].n >= sends[j].n /\ NoNewOk(sends'[j], sends[j])
    BY <1>2, SendMessageStep, SameNoNewOk DEF Busy
  <2> QED
    BY <1>0, <1>2, <2>1, QuietLedger DEF SendMessage
<1>3. ASSUME NEW j \in Jobs, Counts(j)
      PROVE  Ledger'
  <2>0. sends[j].n \in Nat
    BY <1>0, SendingFields
  <2>1. /\ sends' \in [Jobs -> Sending] /\ Others(j) /\ ~Busy(sends'[j])
        /\ sends[j].pc # "crashed" /\ sends'[j].n >= sends[j].n /\ NoNewOk(sends'[j], sends[j])
    BY <1>3, <2>0, CountStep, SameNoNewOk DEF Busy
  <2> QED
    BY <1>0, <1>3, <2>1, CountStep, QuietLedger
<1>4. ASSUME NEW j \in Jobs, NEW opens \in BOOLEAN, opens => session < MaxSessions, AskCertificate(j, opens)
      PROVE  Ledger'
  <2>1. /\ sends' \in [Jobs -> Sending] /\ Others(j) /\ ~Busy(sends'[j])
        /\ sends[j].pc # "crashed" /\ sends'[j].n >= sends[j].n /\ NoNewOk(sends'[j], sends[j])
    BY <1>4, AskStep, SameNoNewOk DEF Busy
  <2> QED
    BY <1>0, <1>4, <2>1, QuietLedger DEF AskCertificate
<1>5. ASSUME NEW j \in Jobs, NEW tooLarge \in BOOLEAN, Certificate(j, tooLarge)
      PROVE  Ledger'
  <2>0. sends[j].n \in Nat
    BY <1>0, SendingFields
  <2>1. /\ sends' \in [Jobs -> Sending] /\ Others(j) /\ ~Busy(sends'[j])
        /\ sends[j].pc # "crashed" /\ sends'[j].n >= sends[j].n /\ NoNewOk(sends'[j], sends[j])
    BY <1>5, <2>0, CertificateStep, SameNoNewOk DEF Busy
  <2> QED
    BY <1>0, <1>5, <2>1, QuietLedger DEF Certificate
<1>6. ASSUME NEW j \in Jobs, CertificateFails(j)
      PROVE  Ledger'
  <2>0. sends[j].n \in Nat /\ Extended(Append(sends[j].results, "threw"), sends[j].results, "threw")
    <3>1. sends[j].results \in Seq(Results) /\ "threw" \in Results
      BY <1>0, SendingFields DEF Results
    <3> QED
      BY <1>0, <3>1, SendingFields, Extends
  <2>2. Extended(sends'[j].results, sends[j].results, "threw")
    BY <1>6, <2>0, CertificateFailsStep
  <2>3. NoNewOk(sends'[j], sends[j])
    BY <2>2, ExtendedNoNewOk
  <2>1. /\ sends' \in [Jobs -> Sending] /\ Others(j) /\ ~Busy(sends'[j])
        /\ sends[j].pc # "crashed" /\ sends'[j].n >= sends[j].n /\ NoNewOk(sends'[j], sends[j])
    BY <1>6, <2>0, <2>3, CertificateFailsStep DEF Busy
  <2> QED
    BY <1>0, <1>6, <2>1, QuietLedger DEF CertificateFails
<1>7. ASSUME NEW j \in Jobs, Drop(j)
      PROVE  Ledger'
  <2>0. sends[j].n \in Nat
    BY <1>0, SendingFields
  <2>2. Extended(sends'[j].results, sends[j].results, "closed")
    BY <1>7, <2>0, DropStep
  <2>3. NoNewOk(sends'[j], sends[j])
    BY <2>2, ExtendedNoNewOk
  <2>1. /\ sends' \in [Jobs -> Sending] /\ Others(j) /\ ~Busy(sends'[j])
        /\ sends[j].pc # "crashed" /\ sends'[j].n >= sends[j].n /\ NoNewOk(sends'[j], sends[j])
    BY <1>7, <2>0, <2>3, DropStep DEF Busy
  <2> QED
    BY <1>0, <1>7, <2>1, QuietLedger DEF Drop
<1>8. ASSUME NEW j \in Jobs, Queue(j)
      PROVE  Ledger'
  BY <1>8, QueueLedger
<1>9. ASSUME NEW j \in Jobs, QueueFails(j)
      PROVE  Ledger'
  <2>0. sends[j].n \in Nat
    BY <1>0, SendingFields
  <2>2. Extended(sends'[j].results, sends[j].results, "threw")
    BY <1>9, <2>0, QueueFailsStep
  <2>3. NoNewOk(sends'[j], sends[j])
    BY <2>2, ExtendedNoNewOk
  <2>1. /\ sends' \in [Jobs -> Sending] /\ Others(j) /\ ~Busy(sends'[j])
        /\ sends[j].pc # "crashed" /\ sends'[j].n >= sends[j].n /\ NoNewOk(sends'[j], sends[j])
    BY <1>9, <2>0, <2>3, QueueFailsStep DEF Busy
  <2> QED
    BY <1>0, <1>9, <2>1, QuietLedger DEF QueueFails
<1>10. ASSUME NEW j \in Jobs, Attempt(j)
      PROVE  Ledger'
  BY <1>10, AttemptLedger
<1>11. ASSUME NEW j \in Jobs, Mark(j)
      PROVE  Ledger'
  BY <1>11, MarkLedger
<1>12. ASSUME NEW j \in Jobs, MarkFails(j)
      PROVE  Ledger'
  <2>0. sends[j].n \in Nat
    BY <1>0, SendingFields
  <2>2. Extended(sends'[j].results, sends[j].results, "threw")
    BY <1>12, <2>0, MarkFailsStep
  <2>3. NoNewOk(sends'[j], sends[j])
    BY <2>2, ExtendedNoNewOk
  <2>1. /\ sends' \in [Jobs -> Sending] /\ Others(j) /\ ~Busy(sends'[j])
        /\ sends[j].pc # "crashed" /\ sends'[j].n >= sends[j].n /\ NoNewOk(sends'[j], sends[j])
    BY <1>12, <2>0, <2>3, MarkFailsStep DEF Busy
  <2> QED
    BY <1>0, <1>12, <2>1, QuietLedger DEF MarkFails
<1>13. ASSUME NEW j \in Jobs, Proceed(j)
      PROVE  Ledger'
  <2>0. sends[j].n \in Nat
    BY <1>0, SendingFields
  <2>1. /\ sends' \in [Jobs -> Sending] /\ Others(j) /\ ~Busy(sends'[j])
        /\ sends[j].pc # "crashed" /\ sends'[j].n >= sends[j].n /\ NoNewOk(sends'[j], sends[j])
    BY <1>13, <2>0, ProceedStep, SameNoNewOk DEF Busy
  <2> QED
    BY <1>0, <1>13, <2>1, QuietLedger DEF Proceed
<1>14. ASSUME NEW m \in Outgoing, NEW status \in {"delivered", "read", "failed"}, Receipt(m, status)
      PROVE  Ledger'
  BY <1>14, ReceiptLedger
<1>15. ASSUME NEW c \in Retentions, Prune(c)
      PROVE  Ledger'
  BY <1>15, PruneLedger
<1>16. CASE Tick
  BY <1>16, TickLedger
<1>17. CASE ProcessDies
  BY <1>17, CrashLedger
<1>18. ASSUME NEW j \in Jobs, GivesUp(j)
       PROVE  Ledger'
  <2>0. sends[j].n \in Nat
    BY <1>0, SendingFields
  <2>1. /\ sends' \in [Jobs -> Sending] /\ Others(j) /\ ~Busy(sends'[j])
        /\ sends[j].pc # "crashed" /\ sends'[j].n >= sends[j].n /\ NoNewOk(sends'[j], sends[j])
        /\ UNCHANGED <<log, phone, lost, bounced, now>>
    BY <1>18, <2>0, GivesUpStep, SameNoNewOk DEF Busy
  <2> QED
    BY <1>0, <2>1, QuietLedger
<1> QED
  BY <1>1, <1>2, <1>3, <1>4, <1>5, <1>6, <1>7, <1>8, <1>9, <1>10, <1>11, <1>12, <1>13, <1>14, <1>15,
     <1>16, <1>17, <1>18 DEF DeliveryNext, Counts, GivesUp

-----------------------------------------------------------------------------
(* The rows of a certificate                                               *)

(* The rows of a job that were there before.                                *)
OldRows(k) ==
  \A x \in DOMAIN log' : x[1] = k =>
    x \in DOMAIN log /\ log'[x].kind = log[x].kind /\ log'[x].step = log[x].step

NoRows(k) == \A x \in DOMAIN log : x[1] # k

LEMMA SameRows ==
  ASSUME NEW k \in Jobs, RowsOf(k), OldRows(k), sends'[k] = sends[k]
  PROVE  RowsOf(k)'
  BY DEF RowsOf, OldRows

LEMMA GoneRows ==
  ASSUME NEW k \in Jobs, OldRows(k), NoRows(k) \/ sends'[k].pc \in {"new", "crashed"}
  PROVE  RowsOf(k)'
  BY DEF RowsOf, OldRows, NoRows

(* No certificate has been said.                                            *)
LEMMA UnsaidRows ==
  ASSUME NEW k \in Jobs, RowsOf(k), OldRows(k),
         LET r == sends[k] q == sends'[k] IN
         /\ r.pc \notin {"new", "crashed"}
         /\ \/ r.phase = "notice" \/ r.pc = "deciding"
            \/ r.phase = "certificate" /\ r.pc = "next" /\ r.left # <<>>
         /\ q.phase = "notice" /\ ~q.open => r.phase = "notice" /\ ~r.open
  PROVE  RowsOf(k)'
  BY DEF RowsOf, OldRows

(* What was said stays said.                                                *)
LEMMA SaidRows ==
  ASSUME NEW k \in Jobs, RowsOf(k), OldRows(k),
         LET r == sends[k] q == sends'[k] IN
         /\ r.pc \notin {"new", "crashed"} /\ r.phase # "notice" /\ q.pc # "deciding"
         /\ \/ /\ q.phase = r.phase /\ q.open = r.open /\ q.n = r.n
               /\ q.phase = "certificate" => ~(q.pc = "next" /\ q.left # <<>>)
            \/ q.phase = "fallback"
  PROVE  RowsOf(k)'
  BY DEF RowsOf, OldRows

LEMMA AllOldRows ==
  ASSUME UNCHANGED log
  PROVE  \A k \in Jobs : OldRows(k)
  BY DEF OldRows

LEMMA NewJobNoRows ==
  ASSUME DeliveryTypeOK, AllFit, Ledger, NEW j \in Jobs, sends[j].pc = "new"
  PROVE  NoRows(j)
<1>1. sends[j].n = 0
  BY DEF AllFit, Fits, HasWords
<1> SUFFICES ASSUME NEW x \in DOMAIN log, x[1] = j
             PROVE  FALSE
  BY DEF NoRows
<1>2. x[2] \in 1 .. NoticeSize + 2 /\ x = <<j, x[2]>>
  BY OutgoingPairs DEF DeliveryTypeOK
<1> QED
  BY <1>1, <1>2 DEF Ledger, Unbegun

LEMMA OthersRows ==
  ASSUME CertificateRows, NEW j \in Jobs, Others(j), \A k \in Jobs \ {j} : OldRows(k), RowsOf(j)'
  PROVE  CertificateRows'
<1>1. \A k \in Jobs : RowsOf(k)'
  BY SameRows DEF Others, CertificateRows
<1> QED
  BY <1>1 DEF CertificateRows

LEMMA RowsStep ==
  ASSUME DeliveryTypeOK, AllFit, Ledger, CertificateRows, DeliveryNext
  PROVE  CertificateRows'
<1>1. ASSUME NEW j \in Jobs, NEW sold \in BOOLEAN, Notice(j, sold)
      PROVE  CertificateRows'
  BY <1>1, NoticeStep, AllOldRows, NewJobNoRows, GoneRows, OthersRows DEF Notice
<1>2. ASSUME NEW j \in Jobs, SendMessage(j)
      PROVE  CertificateRows'
  BY <1>2, SendMessageStep, AllOldRows, NewJobNoRows, GoneRows, OthersRows DEF SendMessage
<1>3. ASSUME NEW j \in Jobs, Counts(j)
      PROVE  CertificateRows'
  <2>1. Others(j) /\ \A k \in Jobs : OldRows(k)
    BY <1>3, CountStep, AllOldRows
  <2>2. RowsOf(j)'
    BY <1>3, <2>1, CountStep, UnsaidRows DEF CertificateRows
  <2> QED
    BY <2>1, <2>2, OthersRows
<1>4. ASSUME NEW j \in Jobs, NEW opens \in BOOLEAN, opens => session < MaxSessions, AskCertificate(j, opens)
      PROVE  CertificateRows'
  BY <1>4, AskStep, AllOldRows, NewJobNoRows, GoneRows, OthersRows DEF AskCertificate
<1>5. ASSUME NEW j \in Jobs, NEW tooLarge \in BOOLEAN, Certificate(j, tooLarge)
      PROVE  CertificateRows'
  <2>1. Others(j) /\ \A k \in Jobs : OldRows(k)
    BY <1>5, CertificateStep, AllOldRows DEF Certificate
  <2>2. RowsOf(j)'
    BY <1>5, <2>1, CertificateStep, UnsaidRows DEF CertificateRows
  <2> QED
    BY <2>1, <2>2, OthersRows
<1>6. ASSUME NEW j \in Jobs, CertificateFails(j)
      PROVE  CertificateRows'
  <2>1. Others(j) /\ \A k \in Jobs : OldRows(k)
    BY <1>6, CertificateFailsStep, AllOldRows DEF CertificateFails
  <2>2. RowsOf(j)'
    BY <1>6, <2>1, CertificateFailsStep, UnsaidRows DEF CertificateRows
  <2> QED
    BY <2>1, <2>2, OthersRows
<1>7. ASSUME NEW j \in Jobs, Drop(j)
      PROVE  CertificateRows'
  <2>1. Others(j) /\ \A k \in Jobs : OldRows(k)
    BY <1>7, DropStep, AllOldRows DEF Drop
  <2>2. RowsOf(j)'
    <3>1. CASE sends[j].phase = "fallback"
      BY <1>7, <2>1, <3>1, DropStep, SaidRows DEF CertificateRows
    <3>2. CASE sends[j].phase \in {"notice", "certificate"}
      BY <1>7, <2>1, <3>2, DropStep, UnsaidRows DEF CertificateRows
    <3> QED
      BY <3>1, <3>2, SendingFields DEF DeliveryTypeOK
  <2> QED
    BY <2>1, <2>2, OthersRows
<1>8. ASSUME NEW j \in Jobs, Queue(j)
      PROVE  CertificateRows'
  <2> DEFINE m == <<j, sends[j].n + 1>>
  <2>1. PICK row \in Row : /\ log' = LogAnd(m, row) /\ row.kind = sends[j].left[1] /\ row.step = Step(j)
    BY <1>8, NewRow
  <2>2. DOMAIN log' = DOMAIN log \cup {m} /\ log'[m] = row /\ \A x \in DOMAIN log : x # m => log'[x] = log[x]
    BY <2>1, AddsRow DEF DeliveryTypeOK
  <2>3. /\ Others(j) /\ sends[j].pc = "next" /\ sends[j].left # <<>> /\ sends[j].left[1] # "none"
        /\ sends'[j].pc = "sending" /\ sends'[j].phase = sends[j].phase /\ sends'[j].n = sends[j].n + 1
        /\ sends'[j].open = sends[j].open /\ sends'[j].left = sends[j].left
    BY <1>8, QueueStep
  <2>4. m[1] = j /\ m[2] = sends[j].n + 1
    OBVIOUS
  <2> HIDE DEF m
  <2>5. \A k \in Jobs \ {j} : OldRows(k)
    BY <2>2, <2>4 DEF OldRows
  <2>6. HeldBack(j, sends[j])
    BY DEF AllFit, Fits
  <2>7. RowsOf(j)
    BY DEF CertificateRows
  <2>8. ASSUME NEW x \in DOMAIN log', x[1] = j
        PROVE  /\ log'[x].step = "certificate" =>
                    /\ sends'[j].phase # "notice"
                    /\ sends'[j].phase = "certificate" =>
                         x[2] = sends'[j].n /\ (~sends'[j].open => log'[x].kind = "template")
               /\ sends'[j].phase = "notice" /\ ~sends'[j].open => log'[x].kind = "template"
    <3>1. CASE x = m
      <4>1. log'[x].kind = sends[j].left[1] /\ log'[x].step = IF sends[j].phase = "notice" THEN "notice" ELSE "certificate"
        BY <2>1, <2>2, <3>1 DEF Step
      <4>2. ~sends[j].open /\ sends[j].phase \in {"notice", "certificate"} => sends[j].left[1] = "template"
        BY <2>3, <2>6 DEF HeldBack
      <4> QED
        BY <2>3, <2>4, <3>1, <4>1, <4>2
    <3>2. CASE x # m
      BY <2>2, <2>3, <2>7, <2>8, <3>2 DEF RowsOf
    <3> QED
      BY <3>1, <3>2
  <2>9. RowsOf(j)'
    BY <2>3, <2>8 DEF RowsOf
  <2> QED
    BY <2>3, <2>5, <2>9, OthersRows
<1>9. ASSUME NEW j \in Jobs, QueueFails(j)
      PROVE  CertificateRows'
  <2>1. Others(j) /\ \A k \in Jobs : OldRows(k)
    BY <1>9, QueueFailsStep, AllOldRows DEF QueueFails
  <2>2. RowsOf(j)'
    <3>1. CASE sends[j].phase = "fallback"
      BY <1>9, <2>1, <3>1, QueueFailsStep, SaidRows DEF CertificateRows
    <3>2. CASE sends[j].phase \in {"notice", "certificate"}
      BY <1>9, <2>1, <3>2, QueueFailsStep, UnsaidRows DEF CertificateRows
    <3> QED
      BY <3>1, <3>2, SendingFields DEF DeliveryTypeOK
  <2> QED
    BY <2>1, <2>2, OthersRows
<1>10. ASSUME NEW j \in Jobs, Attempt(j)
      PROVE  CertificateRows'
  <2>1. Others(j) /\ \A k \in Jobs : OldRows(k)
    BY <1>10, AttemptStep, AllOldRows DEF Attempt
  <2>2. Tried(sends'[j], sends[j]) /\ sends[j].pc = "sending" /\ RowsOf(j)
    BY <1>10, AttemptStep DEF CertificateRows
  <2>3. RowsOf(j)'
    BY <2>1, <2>2 DEF Tried, RowsOf, OldRows
  <2> QED
    BY <2>1, <2>3, OthersRows
<1>11. ASSUME NEW j \in Jobs, Mark(j)
      PROVE  CertificateRows'
  <2>1. Others(j) /\ \A k \in Jobs : OldRows(k)
    <3>1. /\ sends[j].ok \in BOOLEAN
          /\ log' = LogWith(Message(j), IF sends[j].ok THEN "sent" ELSE "failed", sends[j].ok)
          /\ (IF sends[j].ok THEN "sent" ELSE "failed") \in {"queued", "sent", "failed", "delivered", "read"}
      BY <1>11, SendingFields DEF Mark, DeliveryTypeOK
    <3>2. DOMAIN log' = DOMAIN log
          /\ \A x \in DOMAIN log : log'[x].kind = log[x].kind /\ log'[x].step = log[x].step
      BY <3>1, ChangesRow DEF DeliveryTypeOK
    <3> QED
      BY <1>11, <3>2, MarkStep DEF OldRows
  <2>2. RowsOf(j)'
    <3>1. CASE sends[j].phase = "notice"
      BY <1>11, <2>1, <3>1, MarkStep, UnsaidRows DEF CertificateRows
    <3>2. CASE sends[j].phase # "notice"
      <4>1. sends'[j].left = <<>>
        BY <1>11, <3>2, MarkStep DEF Shortened, AllFit, Fits, InPhase
      <4> QED
        BY <1>11, <2>1, <3>2, <4>1, MarkStep, SaidRows DEF CertificateRows
    <3> QED
      BY <3>1, <3>2
  <2> QED
    BY <2>1, <2>2, OthersRows
<1>12. ASSUME NEW j \in Jobs, MarkFails(j)
      PROVE  CertificateRows'
  <2>1. Others(j) /\ \A k \in Jobs : OldRows(k)
    BY <1>12, MarkFailsStep, AllOldRows DEF MarkFails
  <2>2. RowsOf(j)'
    <3>1. CASE sends[j].phase = "notice"
      BY <1>12, <2>1, <3>1, MarkFailsStep, UnsaidRows DEF CertificateRows
    <3>2. CASE sends[j].phase # "notice"
      <4>1. sends'[j].left = <<>>
        BY <1>12, <3>2, MarkFailsStep DEF Shortened, AllFit, Fits, InPhase
      <4> QED
        BY <1>12, <2>1, <3>2, <4>1, MarkFailsStep, SaidRows DEF CertificateRows
    <3> QED
      BY <3>1, <3>2
  <2> QED
    BY <2>1, <2>2, OthersRows
<1>13. ASSUME NEW j \in Jobs, Proceed(j)
      PROVE  CertificateRows'
  <2>1. Others(j) /\ (\A k \in Jobs : OldRows(k)) /\ sends[j].pc = "next"
    BY <1>13, ProceedStep, AllOldRows DEF Proceed
  <2>2. RowsOf(j)'
    <3>1. CASE sends[j].phase = "notice"
      <4>1. sends'[j].phase = "notice" /\ ~sends'[j].open => ~sends[j].open
        BY <1>13, ProceedStep
      <4> QED
        BY <2>1, <3>1, <4>1, UnsaidRows DEF CertificateRows
    <3>2. CASE sends[j].phase # "notice"
      BY <1>13, <2>1, <3>2, ProceedStep, SaidRows DEF CertificateRows
    <3> QED
      BY <3>1, <3>2
  <2> QED
    BY <2>1, <2>2, OthersRows
<1>14. ASSUME NEW m \in Outgoing, NEW status \in {"delivered", "read", "failed"}, Receipt(m, status)
      PROVE  CertificateRows'
  <2>1. DOMAIN log' = DOMAIN log
        /\ \A x \in DOMAIN log : log'[x].kind = log[x].kind /\ log'[x].step = log[x].step
    <3>1. CASE log' = LogWith(m, status, TRUE)
      BY <3>1, ChangesRow DEF DeliveryTypeOK
    <3> QED
      BY <1>14, <3>1 DEF Receipt
  <2>2. \A k \in Jobs : OldRows(k) /\ sends'[k] = sends[k]
    BY <1>14, <2>1 DEF OldRows, Receipt
  <2> QED
    BY <2>2, SameRows DEF CertificateRows
<1>15. ASSUME NEW c \in Retentions, Prune(c)
      PROVE  CertificateRows'
  <2>1. DOMAIN log' \subseteq DOMAIN log /\ \A x \in DOMAIN log' : log'[x] = log[x]
    BY <1>15 DEF Prune
  <2>2. \A k \in Jobs : OldRows(k) /\ sends'[k] = sends[k]
    BY <1>15, <2>1 DEF OldRows, Prune
  <2> QED
    BY <2>2, SameRows DEF CertificateRows
<1>16. CASE Tick
  BY <1>16, AllOldRows, SameRows DEF CertificateRows, Tick
<1>17. CASE ProcessDies
  <2>1. \A k \in Jobs : OldRows(k)
    BY <1>17, AllOldRows DEF ProcessDies
  <2>2. \A k \in Jobs : sends'[k] = sends[k] \/ sends'[k].pc = "crashed"
    BY <1>17, CrashStep
  <2>3. \A k \in Jobs : RowsOf(k)'
    BY <2>1, <2>2, SameRows, GoneRows DEF CertificateRows
  <2> QED
    BY <2>3 DEF CertificateRows
<1>18. ASSUME NEW j \in Jobs, GivesUp(j)
       PROVE  CertificateRows'
  <2>1. Others(j) /\ (\A k \in Jobs : OldRows(k)) /\ sends[j].pc \in {"new", "counting", "next"}
    BY <1>18, GivesUpStep, AllOldRows
  <2>2. RowsOf(j)'
    <3>1. CASE sends[j].pc = "new"
      BY <2>1, <3>1, NewJobNoRows, GoneRows
    <3>2. CASE sends[j].pc # "new"
      BY <1>18, <2>1, <3>2, GivesUpStep, UnsaidRows DEF CertificateRows
    <3> QED
      BY <3>1, <3>2
  <2> QED
    BY <2>1, <2>2, OthersRows
<1> QED
  BY <1>1, <1>2, <1>3, <1>4, <1>5, <1>6, <1>7, <1>8, <1>9, <1>10, <1>11, <1>12, <1>13, <1>14, <1>15,
     <1>16, <1>17, <1>18 DEF DeliveryNext, Counts, GivesUp

-----------------------------------------------------------------------------
(* Who has the turn                                                        *)

Idle(r) == r.pc \in {"new", "crashed", "done", "gaveUp"}

LEMMA HeldStays ==
  ASSUME TurnHeld, NEW j \in Jobs, Others(j), turn' = turn,
         j \in Asks => (Idle(sends'[j]) <=> Idle(sends[j]))
  PROVE  TurnHeld'
<1>1. \A k \in Asks : turn' = k <=> ~Idle(sends'[k])
  BY DEF TurnHeld, Others, Idle, Jobs
<1> QED
  BY <1>1 DEF TurnHeld, Idle

LEMMA HeldStep ==
  ASSUME DeliveryTypeOK, AllFit, TurnHeld, DeliveryNext
  PROVE  TurnHeld'
<1>1. ASSUME NEW j \in Jobs, NEW sold \in BOOLEAN, Notice(j, sold)
      PROVE  TurnHeld'
  BY <1>1, NoticeStep, HeldStays, DeliveryAssumption DEF Notice
<1>2. ASSUME NEW j \in Jobs, SendMessage(j)
      PROVE  TurnHeld'
  BY <1>2, SendMessageStep, HeldStays, DeliveryAssumption DEF SendMessage
<1>3. ASSUME NEW j \in Jobs, Counts(j)
      PROVE  TurnHeld'
  BY <1>3, CountStep, HeldStays DEF Idle
<1>4. ASSUME NEW j \in Jobs, NEW opens \in BOOLEAN, opens => session < MaxSessions, AskCertificate(j, opens)
      PROVE  TurnHeld'
  <2>1. turn = NoJob /\ turn' = j /\ sends'[j].pc = "counting" /\ Others(j) /\ j \in Asks
    BY <1>4, AskStep DEF AskCertificate
  <2>2. \A k \in Asks : turn' = k <=> ~Idle(sends'[k])
    BY <2>1, DeliveryAssumption DEF TurnHeld, Others, Idle, Jobs
  <2> QED
    BY <2>2 DEF TurnHeld, Idle
<1>5. ASSUME NEW j \in Jobs, NEW tooLarge \in BOOLEAN, Certificate(j, tooLarge)
      PROVE  TurnHeld'
  BY <1>5, CertificateStep, HeldStays DEF Certificate, Idle
<1>6. ASSUME NEW j \in Jobs, CertificateFails(j)
      PROVE  TurnHeld'
  BY <1>6, CertificateFailsStep, HeldStays DEF CertificateFails, Idle
<1>7. ASSUME NEW j \in Jobs, Drop(j)
      PROVE  TurnHeld'
  BY <1>7, DropStep, HeldStays DEF Drop, Idle
<1>8. ASSUME NEW j \in Jobs, Queue(j)
      PROVE  TurnHeld'
  BY <1>8, QueueStep, HeldStays DEF Queue, Idle
<1>9. ASSUME NEW j \in Jobs, QueueFails(j)
      PROVE  TurnHeld'
  BY <1>9, QueueFailsStep, HeldStays DEF QueueFails, Idle
<1>10. ASSUME NEW j \in Jobs, Attempt(j)
      PROVE  TurnHeld'
  BY <1>10, AttemptStep, HeldStays DEF Attempt, Idle, Tried
<1>11. ASSUME NEW j \in Jobs, Mark(j)
      PROVE  TurnHeld'
  BY <1>11, MarkStep, HeldStays DEF Mark, Idle
<1>12. ASSUME NEW j \in Jobs, MarkFails(j)
      PROVE  TurnHeld'
  BY <1>12, MarkFailsStep, HeldStays DEF MarkFails, Idle
<1>13. ASSUME NEW j \in Jobs, Proceed(j)
      PROVE  TurnHeld'
  <2>1. Others(j) /\ sends[j].pc = "next" /\ turn \in Asks \cup {NoJob}
    BY <1>13, ProceedStep DEF DeliveryTypeOK
  <2>2. CASE turn' = turn /\ ~Idle(sends'[j])
    BY <2>1, <2>2, HeldStays DEF Idle
  <2>3. CASE sends'[j].pc = "done" /\ turn' = IF turn = j THEN NoJob ELSE turn
    <3>1. CASE j \in Asks
      <4>1. turn = j /\ turn' = NoJob
        BY <2>1, <2>3, <3>1 DEF TurnHeld
      <4>2. \A k \in Asks : turn' = k <=> ~Idle(sends'[k])
        BY <2>1, <2>3, <4>1, DeliveryAssumption DEF TurnHeld, Others, Idle, Jobs
      <4> QED
        BY <4>2 DEF TurnHeld, Idle
    <3>2. CASE j \notin Asks
      <4>1. turn' = turn
        BY <2>1, <2>3, <3>2, DeliveryAssumption
      <4> QED
        BY <2>1, <3>2, <4>1, HeldStays
    <3> QED
      BY <3>1, <3>2
  <2> QED
    BY <1>13, <2>2, <2>3, ProceedStep DEF Idle
<1>14. ASSUME NEW m \in Outgoing, NEW status \in {"delivered", "read", "failed"}, Receipt(m, status)
      PROVE  TurnHeld'
  BY <1>14 DEF Receipt, TurnHeld
<1>15. ASSUME NEW c \in Retentions, Prune(c)
      PROVE  TurnHeld'
  BY <1>15 DEF Prune, TurnHeld
<1>16. CASE Tick
  BY <1>16 DEF Tick, TurnHeld
<1>17. CASE ProcessDies
  <2>1. turn' = NoJob /\ \A k \in Jobs : Idle(sends'[k])
    BY <1>17, CrashStep DEF Idle
  <2>2. \A k \in Asks : turn' # k /\ Idle(sends'[k])
    BY <2>1, DeliveryAssumption DEF Jobs
  <2> QED
    BY <2>2 DEF TurnHeld, Idle
<1>18. ASSUME NEW j \in Jobs, GivesUp(j)
       PROVE  TurnHeld'
  <2>1. Others(j) /\ Idle(sends'[j]) /\ turn' = IF turn = j THEN NoJob ELSE turn
    BY <1>18, GivesUpStep DEF Idle
  <2>2. \A k \in Asks : turn' = k <=> ~Idle(sends'[k])
    BY <2>1, DeliveryAssumption DEF TurnHeld, Others, Idle, Jobs
  <2> QED
    BY <2>2 DEF TurnHeld, Idle
<1> QED
  BY <1>1, <1>2, <1>3, <1>4, <1>5, <1>6, <1>7, <1>8, <1>9, <1>10, <1>11, <1>12, <1>13, <1>14, <1>15,
     <1>16, <1>17, <1>18 DEF DeliveryNext, Counts, GivesUp

-----------------------------------------------------------------------------
(* The limit on certificates                                               *)

LEMMA OutgoingFinite == IsFiniteSet(Outgoing)
<1>1. IsFiniteSet(1 .. NoticeSize + 2)
  BY FS_Interval
<1> QED
  BY <1>1, FS_Product, DeliveryAssumption DEF Outgoing

LEMMA ResentFinite ==
  ASSUME DeliveryTypeOK
  PROVE  /\ IsFiniteSet(Recent) /\ IsFiniteSet(Resent)
         /\ Cardinality(Recent) \in Nat /\ Cardinality(Resent) \in Nat
         /\ Cardinality(Resent) <= Cardinality(Recent)
<1>1. Recent \subseteq Outgoing
  BY DEF Recent, DeliveryTypeOK
<1>2. IsFiniteSet(Recent)
  BY <1>1, OutgoingFinite, FS_Subset
<1>3. Resent \subseteq Recent
  BY DEF Resent
<1>4. IsFiniteSet(Resent) /\ Cardinality(Resent) <= Cardinality(Recent)
  BY <1>2, <1>3, FS_Subset
<1> QED
  BY <1>2, <1>4, FS_CardinalityType

(* Fewer than the limit are left fewer when some go.                        *)
LEMMA Fewer ==
  ASSUME NEW S, IsFiniteSet(S), NEW T, T \subseteq S
  PROVE  /\ Cardinality(S) < ResendLimit => Cardinality(T) < ResendLimit
         /\ Cardinality(S) <= ResendLimit => Cardinality(T) <= ResendLimit
<1>1. IsFiniteSet(T) /\ Cardinality(T) <= Cardinality(S)
  BY FS_Subset
<1>2. Cardinality(T) \in Nat /\ Cardinality(S) \in Nat /\ ResendLimit \in Nat
  BY <1>1, FS_CardinalityType, DeliveryAssumption
<1> QED
  BY <1>1, <1>2

(* The certificates of the next state, with those of a job set aside.       *)
NextElsewhere(j) == IF Busy(sends'[j]) THEN Resent' \ {<<j, sends'[j].n>>} ELSE Resent'

LEMMA RoomKept ==
  ASSUME DeliveryTypeOK, RoomForOne, ResendsBounded, Resent' \subseteq Resent, uncounted \subseteq uncounted',
         \A k \in Asks \ uncounted' : turn' = k /\ MayResend(sends'[k]) =>
           \/ Cardinality(Resent) < ResendLimit
           \/ turn = k /\ MayResend(sends[k]) /\ NextElsewhere(k) \subseteq Elsewhere(k)
  PROVE  RoomForOne' /\ ResendsBounded'
<1>1. IsFiniteSet(Resent) /\ Cardinality(Resent) <= ResendLimit
  BY ResentFinite DEF ResendsBounded, Resent
<1>2. Cardinality(Resent') <= ResendLimit
  BY <1>1, Fewer
<1>3. ASSUME NEW k \in Asks \ uncounted', turn' = k, MayResend(sends'[k])
      PROVE  Cardinality(NextElsewhere(k)) < ResendLimit
  <2>1. CASE Cardinality(Resent) < ResendLimit
    <3>1. NextElsewhere(k) \subseteq Resent
      BY DEF NextElsewhere
    <3> QED
      BY <1>1, <2>1, <3>1, Fewer
  <2>2. CASE turn = k /\ MayResend(sends[k]) /\ NextElsewhere(k) \subseteq Elsewhere(k)
    <3>1. Cardinality(Elsewhere(k)) < ResendLimit
      BY <2>2 DEF RoomForOne, RoomFor
    <3>2. Elsewhere(k) \subseteq Resent
      BY DEF Elsewhere
    <3>3. IsFiniteSet(Elsewhere(k))
      BY <1>1, <3>2, FS_Subset
    <3> QED
      BY <2>2, <3>1, <3>3, Fewer
  <2> QED
    BY <1>3, <2>1, <2>2
<1>4. \A k \in Asks \ uncounted' : turn' = k /\ MayResend(sends'[k]) => Cardinality(NextElsewhere(k)) < ResendLimit
  BY <1>3
<1>5. RoomForOne'
  BY <1>4 DEF RoomForOne, RoomFor, Elsewhere, NextElsewhere, Message, MayResend, Latest, Busy
<1>6. ResendsBounded'
  BY <1>2 DEF ResendsBounded, Resent
<1> QED
  BY <1>5, <1>6

(* What another job does leaves the room there is.                          *)
LEMMA OthersRoom ==
  ASSUME NEW k, sends'[k] = sends[k], turn' = turn, Resent' \subseteq Resent,
         turn' = k, MayResend(sends'[k])
  PROVE  turn = k /\ MayResend(sends[k]) /\ NextElsewhere(k) \subseteq Elsewhere(k)
  BY DEF NextElsewhere, Elsewhere, Message

LEMMA NotAsked ==
  ASSUME DeliveryTypeOK, RoomForOne, ResendsBounded, Resent' \subseteq Resent, uncounted \subseteq uncounted',
         NEW j \in Jobs, Others(j), turn' = turn, j \notin Asks \ uncounted'
  PROVE  RoomForOne' /\ ResendsBounded'
<1>1. \A k \in Asks \ uncounted' : sends'[k] = sends[k]
  BY DEF Others, Jobs
<1> QED
  BY <1>1, OthersRoom, RoomKept

LEMMA OneAsked ==
  ASSUME DeliveryTypeOK, RoomForOne, ResendsBounded, Resent' \subseteq Resent, uncounted \subseteq uncounted',
         NEW j \in Jobs, Others(j), turn' = turn,
         j \notin uncounted' /\ MayResend(sends'[j]) =>
           \/ Cardinality(Resent) < ResendLimit
           \/ MayResend(sends[j]) /\ NextElsewhere(j) \subseteq Elsewhere(j)
  PROVE  RoomForOne' /\ ResendsBounded'
<1>1. \A k \in Asks : k # j => sends'[k] = sends[k]
  BY DEF Others, Jobs
<1> QED
  BY <1>1, OthersRoom, RoomKept

LEMMA NobodyAsks ==
  ASSUME DeliveryTypeOK, RoomForOne, ResendsBounded, Resent' \subseteq Resent, uncounted \subseteq uncounted',
         turn' = NoJob
  PROVE  RoomForOne' /\ ResendsBounded'
<1>1. \A k \in Asks : turn' # k
  BY DeliveryAssumption DEF Jobs
<1> QED
  BY <1>1, RoomKept

LEMMA SameResent ==
  ASSUME UNCHANGED <<log, bounced, uncounted, now>>
  PROVE  Resent' = Resent /\ Recent' = Recent /\ uncounted' = uncounted
  BY DEF Resent, Recent

(* What a reply that was dealt with leaves to say, in each phase.           *)
LEMMA DealtWith ==
  ASSUME NEW r, NEW q, NEW e, q.pc = "next", q.phase = r.phase, q.wordsOnly = r.wordsOnly,
         r.phase # "notice" => q.left = <<>>,
         Extended(q.results, r.results, e), MayResend(q)
  PROVE  \/ r.phase = "notice" /\ ~r.wordsOnly
         \/ r.phase = "certificate" /\ e = "no_document"
  BY DEF MayResend, Latest, Extended

LEMMA LastReply ==
  ASSUME AllFit, NEW j \in Jobs, NEW t, Shortened(t, sends[j].left), sends[j].phase # "notice"
  PROVE  t = <<>>
<1>1. Len(sends[j].left) <= 1
  BY DEF AllFit, Fits, InPhase
<1> QED
  BY <1>1 DEF Shortened

LEMMA RoomStep ==
  ASSUME DeliveryTypeOK, AllFit, Ledger, TurnHeld, RoomForOne, ResendsBounded, DeliveryNext
  PROVE  RoomForOne' /\ ResendsBounded'
<1>1. ASSUME NEW j \in Jobs, NEW sold \in BOOLEAN, Notice(j, sold)
      PROVE  RoomForOne' /\ ResendsBounded'
  BY <1>1, NoticeStep, SameResent, NotAsked, DeliveryAssumption DEF Notice
<1>2. ASSUME NEW j \in Jobs, SendMessage(j)
      PROVE  RoomForOne' /\ ResendsBounded'
  BY <1>2, SendMessageStep, SameResent, NotAsked, DeliveryAssumption DEF SendMessage
<1>3. ASSUME NEW j \in Jobs, Counts(j)
      PROVE  RoomForOne' /\ ResendsBounded'
  <2>1. Others(j) /\ turn' = turn /\ Resent' \subseteq Resent /\ uncounted \subseteq uncounted'
    BY <1>3, CountStep DEF Resent, Recent
  <2>2. j \notin uncounted' /\ MayResend(sends'[j]) => Cardinality(Resent) < ResendLimit
    <3>1. j \notin uncounted' /\ MayResend(sends'[j]) => ~(Cardinality(Recent) >= ResendLimit)
      BY <1>3, CountStep DEF MayResend
    <3> QED
      BY <3>1, ResentFinite, DeliveryAssumption
  <2> QED
    BY <2>1, <2>2, OneAsked
<1>4. ASSUME NEW j \in Jobs, NEW opens \in BOOLEAN, opens => session < MaxSessions, AskCertificate(j, opens)
      PROVE  RoomForOne' /\ ResendsBounded'
  <2>1. Resent' = Resent /\ turn' = j /\ uncounted' = uncounted
    BY <1>4, SameResent DEF AskCertificate
  <2>2. ~MayResend(sends'[j])
    BY <1>4, AskStep DEF MayResend
  <2>3. \A k \in Asks : ~(turn' = k /\ MayResend(sends'[k]))
    BY <2>1, <2>2
  <2> QED
    BY <2>1, <2>3, RoomKept
<1>5. ASSUME NEW j \in Jobs, NEW tooLarge \in BOOLEAN, Certificate(j, tooLarge)
      PROVE  RoomForOne' /\ ResendsBounded'
  <2>1. Others(j) /\ turn' = turn /\ Resent' = Resent /\ uncounted' = uncounted
    BY <1>5, CertificateStep, SameResent DEF Certificate
  <2>2. MayResend(sends[j]) /\ NextElsewhere(j) \subseteq Elsewhere(j)
    BY <1>5, <2>1, CertificateStep DEF MayResend, NextElsewhere, Elsewhere, Busy
  <2> QED
    BY <2>1, <2>2, OneAsked
<1>6. ASSUME NEW j \in Jobs, CertificateFails(j)
      PROVE  RoomForOne' /\ ResendsBounded'
  <2>1. Others(j) /\ turn' = turn /\ Resent' = Resent /\ uncounted' = uncounted
    BY <1>6, CertificateFailsStep, SameResent DEF CertificateFails
  <2>2. ~MayResend(sends'[j])
    BY <1>6, CertificateFailsStep DEF MayResend
  <2> QED
    BY <2>1, <2>2, OneAsked
<1>7. ASSUME NEW j \in Jobs, Drop(j)
      PROVE  RoomForOne' /\ ResendsBounded'
  <2>1. Others(j) /\ turn' = turn /\ Resent' = Resent /\ uncounted' = uncounted
    BY <1>7, DropStep, SameResent DEF Drop
  <2>2. sends[j].phase # "notice" => sends'[j].left = <<>>
    BY <1>7, DropStep, LastReply
  <2>3. MayResend(sends'[j]) => sends[j].phase = "notice" /\ ~sends[j].wordsOnly
    <3>1. /\ sends'[j].pc = "next" /\ sends'[j].phase = sends[j].phase
          /\ sends'[j].wordsOnly = sends[j].wordsOnly
          /\ Extended(sends'[j].results, sends[j].results, "closed")
      BY <1>7, DropStep
    <3>2. MayResend(sends'[j]) =>
            \/ sends[j].phase = "notice" /\ ~sends[j].wordsOnly
            \/ sends[j].phase = "certificate" /\ "closed" = "no_document"
      BY <2>2, <3>1, DealtWith
    <3> QED
      BY <3>2
  <2>4. MayResend(sends'[j]) => MayResend(sends[j]) /\ NextElsewhere(j) \subseteq Elsewhere(j)
    BY <1>7, <2>1, <2>3, DropStep DEF MayResend, NextElsewhere, Elsewhere, Busy
  <2> QED
    BY <2>1, <2>4, OneAsked
<1>8. ASSUME NEW j \in Jobs, Queue(j)
      PROVE  RoomForOne' /\ ResendsBounded'
  <2> DEFINE m == <<j, sends[j].n + 1>>
  <2>1. PICK row \in Row : log' = LogAnd(m, row) /\ row.step = Step(j)
    BY <1>8, NewRow
  <2>2. DOMAIN log' = DOMAIN log \cup {m} /\ log'[m] = row /\ \A x \in DOMAIN log : x # m => log'[x] = log[x]
    BY <2>1, AddsRow DEF DeliveryTypeOK
  <2>3. /\ Others(j) /\ turn' = turn /\ bounced' = bounced /\ now' = now /\ uncounted' = uncounted
        /\ sends[j].pc = "next" /\ sends[j].left # <<>>
        /\ sends'[j].pc = "sending" /\ sends'[j].phase = sends[j].phase /\ sends'[j].n = sends[j].n + 1
        /\ sends'[j].wordsOnly = sends[j].wordsOnly
    BY <1>8, QueueStep DEF Queue
  <2>4. m[1] = j /\ m = <<j, sends'[j].n>>
    BY <2>3
  <2> HIDE DEF m
  <2>5. Resent' \subseteq Resent \cup {m}
    BY <2>2, <2>3 DEF Resent, Recent
  <2>6. CASE j \notin Asks \ uncounted
    <3>1. Resent' \subseteq Resent
      BY <2>3, <2>4, <2>5, <2>6 DEF Resent
    <3> QED
      BY <2>3, <2>6, <3>1, NotAsked
  <2>7. CASE sends[j].phase = "notice"
    <3>1. log'[m].step = "notice"
      BY <2>1, <2>2, <2>7 DEF Step
    <3>2. Resent' \subseteq Resent
      BY <2>5, <3>1 DEF Resent, Recent
    <3>3. MayResend(sends'[j]) => MayResend(sends[j])
      BY <2>3, <2>7 DEF MayResend
    <3>4. NextElsewhere(j) \subseteq Elsewhere(j)
      BY <2>3, <3>2 DEF NextElsewhere, Elsewhere, Busy
    <3> QED
      BY <2>3, <3>2, <3>3, <3>4, OneAsked
  <2>8. CASE j \in Asks \ uncounted /\ sends[j].phase # "notice"
    <3>1. turn = j /\ MayResend(sends[j]) /\ ~Busy(sends[j])
      <4>1. sends[j].phase \in {"notice", "certificate", "fallback"}
        BY SendingFields DEF DeliveryTypeOK
      <4> QED
        BY <2>3, <2>8, <4>1 DEF TurnHeld, MayResend, Busy
    <3>2. Cardinality(Resent) < ResendLimit
      BY <2>8, <3>1 DEF RoomForOne, RoomFor, Elsewhere
    <3>3. IsFiniteSet(Resent) /\ Cardinality(Resent) \in Nat /\ ResendLimit \in Nat
      BY ResentFinite, DeliveryAssumption
    <3>4. IsFiniteSet(Resent \cup {m}) /\ Cardinality(Resent \cup {m}) <= ResendLimit
      <4>1. Cardinality(Resent \cup {m}) = IF m \in Resent THEN Cardinality(Resent) ELSE Cardinality(Resent) + 1
        BY <3>3, FS_AddElement
      <4>2. Cardinality(Resent \cup {m}) <= ResendLimit
        BY <3>2, <3>3, <4>1
      <4> QED
        BY <3>3, <4>2, FS_AddElement
    <3>5. Cardinality(Resent') <= ResendLimit
      BY <2>5, <3>4, Fewer
    <3>6. Cardinality(Resent' \ {m}) < ResendLimit
      <4>1. Resent' \ {m} \subseteq Resent
        BY <2>5
      <4> QED
        BY <3>2, <3>3, <4>1, Fewer
    <3>7. NextElsewhere(j) = Resent' \ {m}
      BY <2>3, <2>4 DEF NextElsewhere, Busy
    <3>8. \A k \in Asks \ uncounted' : turn' = k => Cardinality(NextElsewhere(k)) < ResendLimit
      BY <2>3, <3>1, <3>6, <3>7
    <3>9. RoomForOne'
      BY <3>8 DEF RoomForOne, RoomFor, Elsewhere, NextElsewhere, Message, Busy
    <3>10. ResendsBounded'
      BY <3>5 DEF ResendsBounded, Resent
    <3> QED
      BY <3>9, <3>10
  <2> QED
    BY <2>6, <2>7, <2>8
<1>9. ASSUME NEW j \in Jobs, QueueFails(j)
      PROVE  RoomForOne' /\ ResendsBounded'
  <2>1. Others(j) /\ turn' = turn /\ Resent' = Resent /\ uncounted' = uncounted
    BY <1>9, QueueFailsStep, SameResent DEF QueueFails
  <2>2. sends[j].phase # "notice" => sends'[j].left = <<>>
    BY <1>9, QueueFailsStep, LastReply
  <2>3. MayResend(sends'[j]) => sends[j].phase = "notice" /\ ~sends[j].wordsOnly
    <3>1. /\ sends'[j].pc = "next" /\ sends'[j].phase = sends[j].phase
          /\ sends'[j].wordsOnly = sends[j].wordsOnly
          /\ Extended(sends'[j].results, sends[j].results, "threw")
      BY <1>9, QueueFailsStep
    <3>2. MayResend(sends'[j]) =>
            \/ sends[j].phase = "notice" /\ ~sends[j].wordsOnly
            \/ sends[j].phase = "certificate" /\ "threw" = "no_document"
      BY <2>2, <3>1, DealtWith
    <3> QED
      BY <3>2
  <2>4. MayResend(sends'[j]) => MayResend(sends[j]) /\ NextElsewhere(j) \subseteq Elsewhere(j)
    BY <1>9, <2>1, <2>3, QueueFailsStep DEF MayResend, NextElsewhere, Elsewhere, Busy
  <2> QED
    BY <2>1, <2>4, OneAsked
<1>10. ASSUME NEW j \in Jobs, Attempt(j)
      PROVE  RoomForOne' /\ ResendsBounded'
  <2>1. Others(j) /\ turn' = turn /\ Resent' = Resent /\ uncounted' = uncounted
    BY <1>10, AttemptStep, SameResent DEF Attempt
  <2>2. sends[j].pc = "sending" /\ Tried(sends'[j], sends[j])
    BY <1>10, AttemptStep
  <2>3. MayResend(sends'[j]) => MayResend(sends[j])
    BY <2>2 DEF MayResend, Latest, Tried
  <2>4. NextElsewhere(j) \subseteq Elsewhere(j)
    BY <2>1, <2>2 DEF NextElsewhere, Elsewhere, Message, Busy, Tried
  <2> QED
    BY <2>1, <2>3, <2>4, OneAsked
<1>11. ASSUME NEW j \in Jobs, Mark(j)
      PROVE  RoomForOne' /\ ResendsBounded'
  <2> DEFINE m == Message(j)
  <2>1. /\ Others(j) /\ turn' = turn /\ bounced' = bounced /\ now' = now /\ uncounted' = uncounted
        /\ sends[j].pc = "marking" /\ sends[j].left # <<>> /\ sends[j].ok \in BOOLEAN
        /\ log' = LogWith(m, IF sends[j].ok THEN "sent" ELSE "failed", sends[j].ok)
        /\ sends'[j].pc = "next" /\ sends'[j].phase = sends[j].phase /\ sends'[j].wordsOnly = sends[j].wordsOnly
        /\ Extended(sends'[j].results, sends[j].results, Result(j))
        /\ Shortened(sends'[j].left, sends[j].left)
        /\ Result(j) = "no_document" => ~sends[j].ok
    BY <1>11, MarkStep, SendingFields DEF Mark, DeliveryTypeOK
  <2>2. /\ DOMAIN log' = DOMAIN log /\ \A x \in DOMAIN log : x # m => log'[x] = log[x]
        /\ m \in DOMAIN log => /\ log'[m].step = log[m].step /\ log'[m].at = log[m].at
                               /\ log'[m].status = IF sends[j].ok THEN "sent" ELSE "failed"
    BY <2>1, ChangesRow DEF DeliveryTypeOK
  <2>3. m \in DOMAIN log => log[m].status = "queued" /\ log[m].step = Step(j)
    BY <2>1 DEF Ledger, InArchive, Busy
  <2> HIDE DEF m
  <2>4. Resent' \subseteq Resent
    <3> SUFFICES ASSUME NEW x \in Resent'
                 PROVE  x \in Resent
      OBVIOUS
    <3>1. x \in DOMAIN log /\ x \in DOMAIN log'
      BY <2>2 DEF Resent, Recent
    <3>2. CASE x = m
      BY <2>1, <2>2, <2>3, <3>1, <3>2 DEF Resent, Recent
    <3>3. CASE x # m
      BY <2>1, <2>2, <3>1, <3>3 DEF Resent, Recent
    <3> QED
      BY <3>2, <3>3
  <2>5. sends[j].phase # "notice" => sends'[j].left = <<>>
    BY <2>1, LastReply
  <2>6. ASSUME MayResend(sends'[j])
        PROVE  MayResend(sends[j]) /\ m \notin Resent'
    <3>1. CASE sends[j].phase = "notice" /\ ~sends[j].wordsOnly
      <4>1. MayResend(sends[j])
        BY <2>1, <3>1 DEF MayResend
      <4>2. m \notin Resent'
        BY <2>2, <2>3, <3>1 DEF Resent, Recent, Step
      <4> QED
        BY <4>1, <4>2
    <3>2. CASE sends[j].phase = "certificate" /\ Result(j) = "no_document"
      <4>1. MayResend(sends[j])
        BY <2>1, <3>2 DEF MayResend
      <4>2. m \notin Resent'
        BY <2>1, <2>2, <3>2 DEF Resent, Recent
      <4> QED
        BY <4>1, <4>2
    <3> QED
      BY <2>1, <2>5, <2>6, <3>1, <3>2, DealtWith
  <2>7. MayResend(sends'[j]) => MayResend(sends[j]) /\ NextElsewhere(j) \subseteq Elsewhere(j)
    BY <2>1, <2>4, <2>6 DEF NextElsewhere, Elsewhere, Busy, m
  <2> QED
    BY <2>1, <2>4, <2>7, OneAsked
<1>12. ASSUME NEW j \in Jobs, MarkFails(j)
      PROVE  RoomForOne' /\ ResendsBounded'
  <2>1. Others(j) /\ turn' = turn /\ Resent' = Resent /\ uncounted' = uncounted
    BY <1>12, MarkFailsStep, SameResent DEF MarkFails
  <2>2. sends[j].phase # "notice" => sends'[j].left = <<>>
    BY <1>12, MarkFailsStep, LastReply
  <2>3. MayResend(sends'[j]) => sends[j].phase = "notice" /\ ~sends[j].wordsOnly
    <3>1. /\ sends'[j].pc = "next" /\ sends'[j].phase = sends[j].phase
          /\ sends'[j].wordsOnly = sends[j].wordsOnly
          /\ Extended(sends'[j].results, sends[j].results, "threw")
      BY <1>12, MarkFailsStep
    <3>2. MayResend(sends'[j]) =>
            \/ sends[j].phase = "notice" /\ ~sends[j].wordsOnly
            \/ sends[j].phase = "certificate" /\ "threw" = "no_document"
      BY <2>2, <3>1, DealtWith
    <3> QED
      BY <3>2
  <2>4. sends[j].phase = "notice" => Message(j) \notin Resent
    <3>1. Message(j) \in DOMAIN log => log[Message(j)].step = Step(j)
      BY <1>12, MarkFailsStep DEF Ledger, InArchive, Busy
    <3> QED
      BY <3>1 DEF Resent, Recent, Step
  <2>5. MayResend(sends'[j]) => MayResend(sends[j]) /\ NextElsewhere(j) \subseteq Elsewhere(j)
    BY <1>12, <2>1, <2>3, <2>4, MarkFailsStep DEF MayResend, NextElsewhere, Elsewhere, Busy
  <2> QED
    BY <2>1, <2>5, OneAsked
<1>13. ASSUME NEW j \in Jobs, Proceed(j)
      PROVE  RoomForOne' /\ ResendsBounded'
  <2>1. Others(j) /\ Resent' = Resent /\ uncounted' = uncounted /\ sends[j].pc = "next" /\ turn \in Asks \cup {NoJob}
    BY <1>13, ProceedStep, SameResent DEF Proceed, DeliveryTypeOK
  <2>2. CASE turn' = turn /\ MayResend(sends[j]) /\ ~Busy(sends'[j])
    <3>1. NextElsewhere(j) \subseteq Elsewhere(j)
      BY <2>1, <2>2 DEF NextElsewhere, Elsewhere, Busy
    <3> QED
      BY <2>1, <2>2, <3>1, OneAsked
  <2>3. CASE turn' = IF turn = j THEN NoJob ELSE turn
    <3>1. CASE turn = j
      BY <2>1, <2>3, <3>1, NobodyAsks
    <3>2. CASE turn # j
      <4>1. \A k \in Asks : turn' = k => k # j /\ sends'[k] = sends[k] /\ turn' = turn
        BY <2>1, <2>3, <3>2 DEF Others, Jobs
      <4> QED
        BY <2>1, <4>1, OthersRoom, RoomKept
    <3> QED
      BY <3>1, <3>2
  <2>4. \/ turn' = turn /\ MayResend(sends[j]) /\ ~Busy(sends'[j])
        \/ turn' = IF turn = j THEN NoJob ELSE turn
    BY <1>13, ProceedStep DEF MayResend, Busy
  <2> QED
    BY <2>2, <2>3, <2>4
<1>14. ASSUME NEW m \in Outgoing, NEW status \in {"delivered", "read", "failed"}, Receipt(m, status)
      PROVE  RoomForOne' /\ ResendsBounded'
  <2>1. turn' = turn /\ sends' = sends /\ uncounted' = uncounted /\ now' = now /\ bounced \subseteq bounced'
        /\ (status = "failed" => m \in bounced')
    BY <1>14 DEF Receipt
  <2>2. CASE log' = log
    <3>1. Resent' \subseteq Resent
      BY <2>1, <2>2 DEF Resent, Recent
    <3> QED
      BY <2>1, <3>1, OthersRoom, RoomKept
  <2>3. CASE log' = LogWith(m, status, TRUE) /\ m \in DOMAIN log /\ log[m].known
    <3>1. /\ DOMAIN log' = DOMAIN log /\ \A x \in DOMAIN log : x # m => log'[x] = log[x]
          /\ log'[m].step = log[m].step /\ log'[m].at = log[m].at /\ log'[m].status = status
      BY <2>3, ChangesRow DEF DeliveryTypeOK
    <3>2. log[m].status = "failed" => m \in bounced
      BY <2>3 DEF Ledger, KnownAccepted
    <3>3. Resent' \subseteq Resent
      <4> SUFFICES ASSUME NEW x \in Resent'
                   PROVE  x \in Resent
        OBVIOUS
      <4>1. x \in DOMAIN log /\ x \in DOMAIN log'
        BY <3>1 DEF Resent, Recent
      <4>2. CASE x = m
        BY <2>1, <3>1, <3>2, <4>1, <4>2 DEF Resent, Recent
      <4>3. CASE x # m
        BY <2>1, <3>1, <4>1, <4>3 DEF Resent, Recent
      <4> QED
        BY <4>2, <4>3
    <3> QED
      BY <2>1, <3>3, OthersRoom, RoomKept
  <2> QED
    BY <1>14, <2>2, <2>3 DEF Receipt
<1>15. ASSUME NEW c \in Retentions, Prune(c)
      PROVE  RoomForOne' /\ ResendsBounded'
  <2>1. turn' = turn /\ sends' = sends /\ uncounted' = uncounted /\ now' = now /\ bounced' = bounced
        /\ DOMAIN log' \subseteq DOMAIN log /\ \A x \in DOMAIN log' : log'[x] = log[x]
    BY <1>15 DEF Prune
  <2>2. Resent' \subseteq Resent
    BY <2>1 DEF Resent, Recent
  <2> QED
    BY <2>1, <2>2, OthersRoom, RoomKept
<1>16. CASE Tick
  <2>1. turn' = turn /\ sends' = sends /\ uncounted' = uncounted /\ now' = now + 1 /\ bounced' = bounced /\ log' = log
    BY <1>16 DEF Tick
  <2>2. now \in Nat /\ ResendWindow \in Nat /\ \A x \in DOMAIN log : log[x].at \in Nat
    BY RowFields, DeliveryAssumption DEF DeliveryTypeOK
  <2>3. \A x \in DOMAIN log : log[x].at + ResendWindow > now + 1 => log[x].at + ResendWindow > now
    BY <2>2
  <2>4. Resent' \subseteq Resent
    BY <2>1, <2>3 DEF Resent, Recent
  <2> QED
    BY <2>1, <2>4, OthersRoom, RoomKept
<1>17. CASE ProcessDies
  <2>1. turn' = NoJob /\ Resent' = Resent /\ uncounted' = uncounted
    BY <1>17, SameResent DEF ProcessDies
  <2> QED
    BY <2>1, NobodyAsks
<1>18. ASSUME NEW j \in Jobs, GivesUp(j)
       PROVE  RoomForOne' /\ ResendsBounded'
  <2>1. Others(j) /\ Resent' = Resent /\ uncounted' = uncounted
        /\ ~MayResend(sends'[j]) /\ turn' = IF turn = j THEN NoJob ELSE turn
    BY <1>18, GivesUpStep, SameResent DEF MayResend
  <2>2. CASE turn = j
    BY <2>1, <2>2, NobodyAsks
  <2>3. CASE turn # j
    <3>1. turn' = turn
      BY <2>1, <2>3
    <3> QED
      BY <2>1, <3>1, OneAsked
  <2> QED
    BY <2>2, <2>3
<1> QED
  BY <1>1, <1>2, <1>3, <1>4, <1>5, <1>6, <1>7, <1>8, <1>9, <1>10, <1>11, <1>12, <1>13, <1>14, <1>15,
     <1>16, <1>17, <1>18 DEF DeliveryNext, Counts, GivesUp

-----------------------------------------------------------------------------
(* The theorems                                                            *)

(***************************************************************************)
(* The inductive invariant: the types, each record by itself, the ledger   *)
(* of what was accepted, lost and archived, whose rows are whose, who has  *)
(* the turn and how much room is left for the certificate it may send.     *)
(***************************************************************************)
DeliveryIInv ==
  /\ DeliveryTypeOK /\ AllFit /\ Ledger
  /\ CertificateRows /\ TurnHeld /\ RoomForOne /\ ResendsBounded

LEMMA DeliveryBegins ==
  ASSUME DeliveryInit
  PROVE  DeliveryIInv
<1>1. DeliveryTypeOK /\ AllFit /\ Ledger
  BY BeginType, BeginLedger
<1>2. DOMAIN log = {} /\ turn = NoJob /\ \A j \in Jobs : sends[j].pc = "new"
  <2>1. log = <<>> /\ DOMAIN <<>> = {}
    BY DEF DeliveryInit
  <2> QED
    BY <2>1 DEF DeliveryInit, Job
<1>3. CertificateRows
  BY <1>2 DEF CertificateRows, RowsOf
<1>4. \A j \in Asks : turn # j /\ sends[j].pc = "new"
  BY <1>2, DeliveryAssumption DEF Jobs
<1>5. TurnHeld /\ RoomForOne
  BY <1>4 DEF TurnHeld, RoomForOne, RoomFor
<1>6. ResendsBounded
  <2>1. Resent = {}
    BY <1>2 DEF Resent, Recent
  <2>2. Cardinality(Resent) <= ResendLimit
    BY <2>1, FS_EmptySet, DeliveryAssumption
  <2> QED
    BY <2>2 DEF ResendsBounded, Resent
<1> QED
  BY <1>1, <1>3, <1>5, <1>6 DEF DeliveryIInv

LEMMA DeliveryStands ==
  ASSUME DeliveryIInv, UNCHANGED deliveryVars
  PROVE  DeliveryIInv'
<1>1. UNCHANGED <<log, heard, session, wrote, turn, templates, phone, lost, bounced, sends,
                uncounted, receipts, now, failures>>
  BY DEF deliveryVars
<1>2. DeliveryTypeOK' /\ AllFit'
  BY <1>1 DEF DeliveryIInv, DeliveryTypeOK, AllFit, Started
<1>3. Ledger'
  BY <1>1 DEF DeliveryIInv, Ledger, Unbegun, Attempts, InArchive, KnownAccepted, OkAccepted,
              TwiceOnlyIfLost, Archived, StatusIsTrue, Message, Step
<1>4. CertificateRows' /\ TurnHeld'
  BY <1>1 DEF DeliveryIInv, CertificateRows, RowsOf, TurnHeld
<1>5. RoomForOne' /\ ResendsBounded'
  BY <1>1 DEF DeliveryIInv, RoomForOne, RoomFor, ResendsBounded, Elsewhere, Resent, Recent, Message
<1> QED
  BY <1>2, <1>3, <1>4, <1>5 DEF DeliveryIInv

LEMMA DeliveryGoesOn ==
  ASSUME DeliveryIInv, [DeliveryNext]_deliveryVars
  PROVE  DeliveryIInv'
<1>1. CASE DeliveryNext
  BY <1>1, TypeStep, LedgerStep, RowsStep, HeldStep, RoomStep DEF DeliveryIInv
<1> QED
  BY <1>1, DeliveryStands

LEMMA DeliveryInvariant == DeliverySpec => []DeliveryIInv
<1>1. DeliveryInit => DeliveryIInv
  BY DeliveryBegins
<1>2. DeliveryIInv /\ [DeliveryNext]_deliveryVars => DeliveryIInv'
  BY DeliveryGoesOn
<1> QED
  BY <1>1, <1>2, PTL DEF DeliverySpec

(* The types are kept, and the lock is held by a job that asks.             *)
THEOREM DeliveryTypes == DeliverySpec => []DeliveryTypeOK
<1>1. DeliveryIInv => DeliveryTypeOK
  BY DEF DeliveryIInv
<1> QED
  BY <1>1, DeliveryInvariant, PTL

(* What reached a customer is in the archive until its retention is over,   *)
(* and the archive says of it what happened, though the process died, a     *)
(* statement failed or a receipt came early.                                *)
THEOREM ArchiveIsTrue == DeliverySpec => []ArchiveTellsTruth
<1>1. DeliveryIInv => ArchiveTellsTruth
  BY DEF DeliveryIInv, Ledger, ArchiveTellsTruth
<1> QED
  BY <1>1, DeliveryInvariant, PTL

(* The retries send a message again only when Meta's answer was lost, and   *)
(* no more often than they are allowed to.                                  *)
THEOREM RetriesAreNeeded == DeliverySpec => []TwiceOnlyIfLost
<1>1. DeliveryIInv => TwiceOnlyIfLost
  BY DEF DeliveryIInv, Ledger
<1> QED
  BY <1>1, DeliveryInvariant, PTL

(* A notice or a certificate to the silent is one template.                 *)
LEMMA OneTemplate ==
  ASSUME DeliveryIInv, NEW j \in Jobs, Started(j), ~sends[j].open
  PROVE  /\ Cardinality(Kinds(j, Step(j))) <= 1
         /\ \A m \in Kinds(j, Step(j)) : log[m].kind = "template"
<1> DEFINE r == sends[j]
           S == Kinds(j, Step(j))
<1>1. /\ r.pc \notin {"new", "crashed"} /\ HeldBack(j, r) /\ InPhase(j, r) /\ RowsOf(j)
      /\ r.phase \in {"notice", "certificate", "fallback"} /\ r.n \in Nat
      /\ DOMAIN log \subseteq Outgoing
  BY SendingFields DEF DeliveryIInv, DeliveryTypeOK, AllFit, Fits, CertificateRows, Started
<1>2. r.phase # "fallback"
  BY <1>1 DEF InPhase
<1>3. \A m \in S : m \in DOMAIN log /\ m[1] = j /\ m[2] \in 1 .. NoticeSize + 2 /\ m = <<j, m[2]>>
                   /\ log[m].step = Step(j)
  BY <1>1, OutgoingPairs DEF Kinds
<1>4. \A m \in S : log[m].kind = "template"
  BY <1>1, <1>2, <1>3 DEF RowsOf, Step
<1>5. S \subseteq {<<j, IF r.phase = "notice" THEN 1 ELSE r.n>>}
  <2>1. CASE r.phase = "notice"
    <3>1. r.n <= 1
      BY <1>1, <2>1 DEF HeldBack
    <3>2. \A m \in S : m[2] <= r.n
      BY <1>1, <1>3 DEF DeliveryIInv, Ledger, Unbegun
    <3>3. \A m \in S : m[2] = 1
      BY <1>1, <1>3, <3>1, <3>2
    <3> QED
      BY <1>3, <2>1, <3>3
  <2>2. CASE r.phase # "notice"
    <3>1. \A m \in S : log[m].step = "certificate"
      BY <1>3, <2>2 DEF Step
    <3>2. \A m \in S : m[2] = r.n
      BY <1>1, <1>2, <1>3, <2>2, <3>1 DEF RowsOf
    <3> QED
      BY <1>3, <2>2, <3>2
  <2> QED
    BY <2>1, <2>2
<1>6. Cardinality(S) <= 1
  <2> DEFINE one == {<<j, IF r.phase = "notice" THEN 1 ELSE r.n>>}
  <2>1. IsFiniteSet(one) /\ Cardinality(one) = 1
    BY FS_Singleton
  <2>2. S \subseteq one
    BY <1>5
  <2> HIDE DEF S, one
  <2>3. IsFiniteSet(S) /\ Cardinality(S) <= Cardinality(one)
    BY <2>1, <2>2, FS_Subset
  <2> QED
    BY <2>1, <2>3
<1> QED
  BY <1>4, <1>6

(* A notice reports on each reply and on the certificate, if there is one;  *)
(* a notice that gives up has tried each reply, or none.                    *)
LEMMA AllReported ==
  ASSUME DeliveryIInv, NEW j \in Notices
  PROVE  /\ sends[j].pc = "done" =>
              Len(sends[j].results) >= NoticeSize + (IF sends[j].wordsOnly THEN 0 ELSE 1)
         /\ sends[j].pc = "gaveUp" => Len(sends[j].results) \in {0, NoticeSize}
<1> DEFINE r == sends[j]
<1>1. r \in Sending /\ Accounted(j, r) /\ HasWords(r) /\ InPhase(j, r)
  BY DEF DeliveryIInv, DeliveryTypeOK, AllFit, Fits, Jobs
<1>2. Len(r.results) \in Nat /\ Len(r.left) \in Nat /\ r.wordsOnly \in BOOLEAN
      /\ (r.pc \in {"done", "gaveUp"} => Len(r.left) = 0)
  BY <1>1, SendingFields, NoReply DEF HasWords
<1> HIDE DEF r
<1> DEFINE a == Len(r.results) b == Len(r.left)
<1>3. r.pc = "done" /\ r.phase = "notice" => Len(r.results) = NoticeSize /\ r.wordsOnly
  <2>1. r.pc = "done" /\ r.phase = "notice" => a + b = NoticeSize /\ r.wordsOnly
    BY <1>1 DEF Accounted
  <2>2. a \in Nat /\ (r.pc = "done" => b = 0)
    BY <1>2
  <2> HIDE DEF a, b
  <2>3. r.pc = "done" /\ r.phase = "notice" => a = NoticeSize /\ r.wordsOnly
    BY <2>1, <2>2
  <2> QED
    BY <2>3 DEF a
<1>4. r.pc = "done" /\ r.phase # "notice" => Len(r.results) >= NoticeSize + 1
  <2>1. r.pc = "done" /\ r.phase # "notice" =>
          a + b >= NoticeSize + (IF r.pc = "deciding" THEN 0 ELSE 1)
    BY <1>1 DEF Accounted
  <2>2. a \in Nat /\ (r.pc = "done" => b = 0)
    BY <1>2
  <2> HIDE DEF a, b
  <2>3. r.pc = "done" /\ r.phase # "notice" => a >= NoticeSize + 1
    BY <2>1, <2>2
  <2> QED
    BY <2>3 DEF a
<1>5. r.pc = "gaveUp" => Len(r.results) = NoticeSize \/ Len(r.results) = 0
  <2>1. r.pc = "gaveUp" => a + b = NoticeSize \/ a = 0
    BY <1>1, NoReply DEF Accounted
  <2>2. a \in Nat /\ (r.pc = "gaveUp" => b = 0)
    BY <1>2
  <2> HIDE DEF a, b
  <2>3. r.pc = "gaveUp" => a = NoticeSize \/ a = 0
    BY <2>1, <2>2
  <2> QED
    BY <2>3 DEF a
<1>6. r.pc = "done" => Len(r.results) >= NoticeSize + (IF r.wordsOnly THEN 0 ELSE 1)
  BY <1>2, <1>3, <1>4
<1> QED
  BY <1>5, <1>6 DEF r

(* Nothing is dropped silently, and the silent are sent templates only,     *)
(* though reads fail, sessions end and their update is lost.                *)
THEOREM SaidIsReported == DeliverySpec => []SaidAsReported
<1>1. ASSUME DeliveryIInv
      PROVE  SaidAsReported
  <2>1. NothingSilent
    BY <1>1, AllReported DEF NothingSilent, DeliveryIInv, Ledger, OkAccepted
  <2>2. SilentGetTemplates
    BY <1>1, OneTemplate DEF SilentGetTemplates
  <2> QED
    BY <2>1, <2>2 DEF SaidAsReported
<1> QED
  BY <1>1, DeliveryInvariant, PTL

(* A customer who keeps asking is sent no more certificates in a window     *)
(* than the limit, on requests whose count did not fail: the count is taken *)
(* before the send, under the lock.                                         *)
THEOREM LimitHolds == DeliverySpec => []ResendsBounded
<1>1. DeliveryIInv => ResendsBounded
  BY DEF DeliveryIInv
<1> QED
  BY <1>1, DeliveryInvariant, PTL
=============================================================================
