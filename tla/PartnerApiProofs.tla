--------------------------- MODULE PartnerApiProofs ---------------------------
(***************************************************************************)
(* Proofs about PartnerApi, for any keys, routes, calls, number of requests*)
(* and rate, however often statements fail and the process dies.           *)
(***************************************************************************)
EXTENDS PartnerApi, FiniteSetTheorems, TLAPS

USE PartnerApiAssumption

Job == {NewRequest} \cup Looking \cup Admission \cup Reply \cup Rejection
       \cup Loss \cup Issuing \cup Rotation \cup End

(* What a request remembers fits the tables api_keys (ks) and               *)
(* idempotency_keys (im).                                                   *)
Fits(job, ks, im) ==
  /\ job.pc \in {"claiming", "replaying", "recording"} => job.call.idem # NoIdem
  /\ job.pc \in {"replaying", "running", "worked", "recording"} /\ job.call.idem # NoIdem =>
       im[Slot(job.call)] # Absent
  /\ job.pc = "recording" => job.out \in Given
  /\ job.pc \in {"retiring", "reissuing"} => ks[job.key] # Absent
  /\ job.pc = "reissuing" => ks[job.key].status = "revoked"
  /\ job.pc = "looking" /\ job.late =>
       job.call.token \in KeyIds /\ ks[job.call.token].status = "revoked"
  /\ \/ job.pc \in {"claiming", "replaying", "running", "worked", "recording"}
     \/ job.pc = "done" /\ job.out[1] \in {"completed", "failed"}
     => ~job.late

Inv ==
  /\ ApiTypeOK
  /\ RotationReplaces
  /\ \A r \in Callers : Fits(caller[r], keys, idem)

(* No key and no claim disappears, and no key that was revoked works again. *)
Grow(ks, im, ks2, im2) ==
  /\ \A k \in KeyIds : /\ ks[k] # Absent => ks2[k] # Absent
                       /\ ks[k].status = "revoked" => ks2[k].status = "revoked"
  /\ \A x \in Slots : im[x] # Absent => im2[x] # Absent

-----------------------------------------------------------------------------
(* The shapes of the requests                                               *)

(* Where a request is tells what it keeps.                                  *)
LEMMA Shapes ==
  ASSUME NEW job \in Job
  PROVE  /\ job.pc = "new" => job = NewRequest
         /\ job.pc = "looking" => job \in Looking
         /\ job.pc \in {"claiming", "replaying", "running", "worked"} => job \in Admission
         /\ job.pc = "recording" => job \in Reply
         /\ job.pc = "issuing" => job \in Issuing
         /\ job.pc \in {"retiring", "reissuing"} => job \in Rotation
         /\ job.pc = "done" => job \in Reply \cup Rejection \cup Loss \cup End
BY DEF Job, NewRequest, Looking, Admission, Reply, Rejection, Loss, Issuing, Rotation, End

LEMMA CallShape ==
  ASSUME NEW c \in Calls
  PROVE  /\ c.token \in KeyIds \cup {Session} /\ c.inside \in BOOLEAN /\ c.route \in Routes
         /\ c.idem \in Idems \cup {NoIdem} /\ c.body \in Bodies
         /\ c.idem # NoIdem => Slot(c) \in Slots
BY DEF Slot, Slots

LEMMA JobTyped == ApiTypeOK => \A r \in Callers : caller[r] \in Job
BY DEF ApiTypeOK, Job

(* What fits, still fits when the tables have grown.                        *)
LEMMA FitsLater ==
  ASSUME NEW job \in Job, NEW ks, NEW im, NEW ks2, NEW im2,
         Fits(job, ks, im), Grow(ks, im, ks2, im2)
  PROVE  Fits(job, ks2, im2)
<1>1. job.pc \in {"claiming", "replaying", "running", "worked", "recording"} /\ job.call.idem # NoIdem =>
        Slot(job.call) \in Slots
  BY Shapes, CallShape DEF Admission, Reply
<1>2. job.pc \in {"retiring", "reissuing"} => job.key \in KeyIds
  BY Shapes DEF Rotation
<1> QED  BY <1>1, <1>2 DEF Fits, Grow

(* A step of one request that leaves a job behind that fits.                *)
LEMMA MovesKeep ==
  ASSUME Inv, NEW r \in Callers, NEW job \in Job, Moves(r, job),
         keys' \in [KeyIds -> ApiKey \cup {Absent}], idem' \in [Slots -> IdemRow \cup {Absent}],
         buckets' \in [KeyIds -> [resetAt : Nat, count : Nat]], effects' \in [Slots -> Nat],
         Grow(keys, idem, keys', idem'), RotationReplaces', Fits(job, keys', idem'),
         UNCHANGED <<disabled, now>>, failures' \in 0 .. MaxFailures
  PROVE  Inv'
<1>1. caller' = [caller EXCEPT ![r] = job] /\ caller \in [Callers -> Job]
  BY DEF Moves, Inv, ApiTypeOK, Job
<1>2. caller' \in [Callers -> Job]
  BY <1>1
<1>3. ASSUME NEW q \in Callers  PROVE Fits(caller'[q], keys', idem')
  BY <1>1, <1>3, FitsLater DEF Inv
<1> QED  BY <1>2, <1>3 DEF Inv, ApiTypeOK, Job

LEMMA InitInv == ApiInit => Inv
<1> SUFFICES ASSUME ApiInit  PROVE Inv
  OBVIOUS
<1>1. ApiTypeOK
  BY DEF ApiInit, ApiTypeOK, KeyRow, ApiKey, Absent, NewRequest, EmptyBucket, Times
<1>2. RotationReplaces
  BY DEF ApiInit, RotationReplaces, KeyRow, Absent
<1>3. \A r \in Callers : Fits(caller[r], keys, idem)
  BY DEF ApiInit, Fits, NewRequest
<1> QED  BY <1>1, <1>2, <1>3 DEF Inv

-----------------------------------------------------------------------------
(* The requests of partners                                                 *)

(* A step that changes neither table.                                       *)
LEMMA ReadsKeep ==
  ASSUME Inv, NEW r \in Callers, NEW job \in Job, Moves(r, job),
         UNCHANGED <<keys, idem, disabled, now>>,
         buckets' \in [KeyIds -> [resetAt : Nat, count : Nat]], effects' \in [Slots -> Nat],
         Fits(job, keys, idem), failures' \in 0 .. MaxFailures
  PROVE  Inv'
<1>1. Grow(keys, idem, keys', idem') /\ RotationReplaces'
  BY DEF Grow, Inv, RotationReplaces
<1> QED  BY <1>1, MovesKeep DEF Inv, ApiTypeOK

LEMMA CallKeeps ==
  ASSUME Inv, NEW r \in Callers, CallApi(r)
  PROVE  Inv'
<1>0. ApiTypeOK /\ caller[r] \in Job /\ Fits(caller[r], keys, idem)
  BY JobTyped DEF Inv
<1>1. ASSUME NEW c \in Calls, Arrive(r, c)  PROVE Inv'
  <2> DEFINE job == [pc |-> "looking", call |-> c,
                     late |-> c.token \in KeyIds /\ keys[c.token].status = "revoked"]
  <2>1. job \in Job /\ Fits(job, keys, idem)
    BY DEF Job, Looking, Fits
  <2> QED  BY <1>0, <1>1, <2>1, ReadsKeep DEF Arrive, ApiTypeOK
<1>2. CASE Authenticate(r)
  <2> DEFINE c == caller[r].call
             admitted == [pc |-> IF c.idem = NoIdem THEN "running" ELSE "claiming",
                          call |-> c, late |-> caller[r].late, at |-> now]
  <2>1. caller[r] \in Looking /\ c \in Calls
    BY <1>0, <1>2, Shapes DEF Authenticate, Looking
  <2>2. admitted \in Job
    BY <1>0, <2>1 DEF Job, Admission, Looking, ApiTypeOK
  <2>3. ASSUME NEW why \in {<<"rate_limited">>, <<"insufficient_scope">>}, NEW limit \in Nat \ {0}
        PROVE  /\ [pc |-> "done", out |-> why, call |-> c, at |-> now, limit |-> limit] \in Job
               /\ Fits([pc |-> "done", out |-> why, call |-> c, at |-> now, limit |-> limit], keys, idem)
    BY <1>0, <2>1 DEF Job, Rejection, Fits, ApiTypeOK
  <2>4. /\ [pc |-> "done", out |-> <<"refused">>] \in Job
        /\ Fits([pc |-> "done", out |-> <<"refused">>], keys, idem)
    BY DEF Job, End, Fits
  <2>5. c.token \in KeyIds /\ ~Refused(keys[c.token], c) =>
          keys[c.token].rate \in Nat \ {0} /\ keys[c.token].status = "active"
    BY <1>0 DEF Refused, ApiKey, Absent, ApiTypeOK
  <2>6. c.token = Session \/ (c.token \in KeyIds /\ ~Refused(keys[c.token], c)) => Fits(admitted, keys, idem)
    BY <1>0, <1>2, <2>1, <2>5 DEF Fits, Authenticate, Looking
  <2> HIDE DEF admitted
  <2>7. \E job \in Job : Moves(r, job) /\ Fits(job, keys, idem)
    BY <1>2, <2>2, <2>3, <2>4, <2>5, <2>6 DEF Authenticate, Admitted, TurnedAway, Answers, admitted
  <2>8. ASSUME NEW k \in KeyIds  PROVE Counted(buckets[k]) \in [resetAt : Nat, count : Nat]
    BY <1>0 DEF Counted, Times, ApiTypeOK
  <2>9. buckets' \in [KeyIds -> [resetAt : Nat, count : Nat]]
    BY <1>0, <1>2, <2>8 DEF Authenticate, ApiTypeOK
  <2> QED  BY <1>0, <1>2, <2>7, <2>9, ReadsKeep DEF Authenticate, ApiTypeOK
<1>3. CASE Claim(r)
  <2> DEFINE c == caller[r].call
  <2>1. caller[r] \in Admission /\ c \in Calls /\ c.idem # NoIdem /\ Slot(c) \in Slots
    BY <1>0, <1>3, Shapes, CallShape DEF Claim, Admission, Fits
  <2>2. InProgress(c) \in IdemRow /\ InProgress(c) # Absent
    BY <2>1, CallShape DEF InProgress, IdemRow, Absent
  <2>3. Grow(keys, idem, keys', idem') /\ RotationReplaces' /\ idem' \in [Slots -> IdemRow \cup {Absent}]
        /\ idem'[Slot(c)] # Absent
    BY <1>0, <1>3, <2>1, <2>2 DEF Claim, Grow, Inv, RotationReplaces, ApiTypeOK
  <2>4. ASSUME NEW pc \in {"running", "replaying"}
        PROVE  [caller[r] EXCEPT !.pc = pc] \in Job /\ Fits([caller[r] EXCEPT !.pc = pc], keys', idem')
    BY <1>0, <1>3, <2>1, <2>3 DEF Job, Admission, Fits, Claim
  <2>5. \E job \in Job : Moves(r, job) /\ Fits(job, keys', idem')
    BY <1>3, <2>4 DEF Claim
  <2> QED  BY <1>0, <1>3, <2>3, <2>5, MovesKeep DEF Claim, ApiTypeOK
<1>4. CASE Replay(r)
  <2> DEFINE c == caller[r].call
             job == [pc |-> "done", out |-> AnswerOf(idem[Slot(c)], c), call |-> c,
                     late |-> caller[r].late, at |-> caller[r].at]
  <2>1. caller[r] \in Admission /\ c \in Calls /\ c.idem # NoIdem /\ Slot(c) \in Slots
    BY <1>0, <1>4, Shapes, CallShape DEF Replay, Admission, Fits
  <2>2. idem[Slot(c)] \in IdemRow
    BY <1>0, <1>4, <2>1 DEF Replay, Fits, ApiTypeOK
  <2>3. AnswerOf(idem[Slot(c)], c) \in Given \cup {<<"key_reuse">>, <<"in_progress">>}
    BY <2>2 DEF AnswerOf, IdemRow
  <2>4. job \in Job
    BY <2>1, <2>3 DEF Job, Reply, Admission
  <2>5. Fits(job, keys, idem)
    BY <1>0, <1>4, <2>1 DEF Fits, Replay
  <2> QED  BY <1>0, <1>4, <2>4, <2>5, ReadsKeep DEF Replay, ApiTypeOK
<1>5. CASE Work(r)
  <2>1. caller[r] \in Admission /\ (caller[r].call.idem # NoIdem => Slot(caller[r].call) \in Slots)
    BY <1>0, <1>5, Shapes, CallShape DEF Work, Admission
  <2>2. [caller[r] EXCEPT !.pc = "worked"] \in Job /\ Fits([caller[r] EXCEPT !.pc = "worked"], keys, idem)
    BY <1>0, <1>5, <2>1 DEF Job, Admission, Fits, Work
  <2>3. effects' \in [Slots -> Nat]
    BY <1>0, <1>5, <2>1 DEF Work, ApiTypeOK
  <2> QED  BY <1>0, <1>5, <2>2, <2>3, ReadsKeep DEF Work, ApiTypeOK
<1>6. ASSUME NEW status \in {"completed", "failed"}, Respond(r, status)  PROVE Inv'
  <2> DEFINE job == [pc |-> IF caller[r].call.idem = NoIdem THEN "done" ELSE "recording",
                     out |-> <<status, r>>, call |-> caller[r].call, late |-> caller[r].late,
                     at |-> caller[r].at]
  <2>1. caller[r] \in Admission /\ caller[r].pc \in {"running", "worked"}
    BY <1>0, <1>6, Shapes DEF Respond
  <2>2. job \in Job
    BY <2>1 DEF Job, Admission, Reply, Given
  <2>3. Fits(job, keys, idem)
    BY <1>0, <2>1 DEF Fits, Given
  <2> QED  BY <1>0, <1>6, <2>2, <2>3, ReadsKeep DEF Respond, ApiTypeOK
<1>7. CASE AnswerNotRecorded(r)
  <2>1. caller[r] \in Reply
    BY <1>0, <1>7, Shapes DEF AnswerNotRecorded
  <2>2. [caller[r] EXCEPT !.pc = "done"] \in Job /\ Fits([caller[r] EXCEPT !.pc = "done"], keys, idem)
    BY <1>0, <1>7, <2>1 DEF Job, Reply, Fits, AnswerNotRecorded
  <2> QED  BY <1>0, <1>7, <2>2, ReadsKeep DEF AnswerNotRecorded, ApiFault, ApiTypeOK
<1>8. CASE Record(r)
  <2> DEFINE c == caller[r].call
             row == [status |-> caller[r].out[1], body |-> idem[Slot(c)].body, answer |-> caller[r].out]
  <2>1. caller[r] \in Reply /\ c \in Calls /\ c.idem # NoIdem /\ Slot(c) \in Slots /\ idem[Slot(c)] \in IdemRow
    BY <1>0, <1>8, Shapes, CallShape DEF Record, Reply, Fits, ApiTypeOK
  <2>2. [caller[r] EXCEPT !.pc = "done"] \in Job /\ Fits([caller[r] EXCEPT !.pc = "done"], keys, idem')
    BY <1>0, <1>8, <2>1 DEF Job, Reply, Fits, Record
  <2>3. row \in IdemRow /\ row # Absent
    <3>1. caller[r].out \in Given
      BY <1>0, <1>8 DEF Fits, Record
    <3>2. row.status \in {"completed", "failed"} /\ row.body \in Bodies
      BY <2>1, <3>1 DEF Given, IdemRow
    <3> QED  BY <3>1, <3>2 DEF IdemRow, Absent
  <2>4. Grow(keys, idem, keys', idem') /\ RotationReplaces' /\ idem' \in [Slots -> IdemRow \cup {Absent}]
    BY <1>0, <1>8, <2>1, <2>3 DEF Record, Grow, Inv, RotationReplaces, ApiTypeOK
  <2> QED  BY <1>0, <1>8, <2>2, <2>4, MovesKeep DEF Record, ApiTypeOK
<1> QED  BY <1>1, <1>2, <1>3, <1>4, <1>5, <1>6, <1>7, <1>8 DEF CallApi

-----------------------------------------------------------------------------
(* The administration of keys                                               *)

LEMMA EndFits ==
  ASSUME NEW out \in {<<"created">>, <<"updated">>, <<"revoked">>, <<"rotated">>, <<"server_error">>}
  PROVE  [pc |-> "done", out |-> out] \in Job /\ \A ks, im : Fits([pc |-> "done", out |-> out], ks, im)
BY DEF Job, End, Fits

(* A step that writes one key.                                              *)
LEMMA WritesKeep ==
  ASSUME Inv, NEW r \in Callers, NEW job \in Job, Moves(r, job),
         NEW k \in KeyIds, NEW row \in ApiKey, keys' = [keys EXCEPT ![k] = row],
         keys[k].status = "revoked" => row.status = "revoked",
         IF keys[k] = Absent THEN row.from = k \/ keys[row.from].status = "revoked"
                             ELSE row.from = keys[k].from,
         Fits(job, keys', idem),
         UNCHANGED <<disabled, buckets, idem, effects, now>>, failures' \in 0 .. MaxFailures
  PROVE  Inv'
<1> ApiTypeOK
  BY DEF Inv
<1>1. row # Absent /\ row.from \in KeyIds
  BY DEF ApiKey, Absent
<1>2. Grow(keys, idem, keys', idem')
  BY <1>1 DEF Grow, ApiTypeOK
<1>3. keys' \in [KeyIds -> ApiKey \cup {Absent}]
  BY DEF ApiTypeOK
<1>4. RotationReplaces'
  <2> SUFFICES ASSUME NEW j \in KeyIds, keys'[j] # Absent, keys'[j].from # j
               PROVE  keys'[keys'[j].from].status = "revoked"
    BY DEF RotationReplaces
  <2>1. keys'[j].from \in KeyIds
    BY <1>3 DEF ApiKey
  <2>2. keys[keys'[j].from].status = "revoked"
    <3>1. CASE j # k
      BY <3>1 DEF Inv, RotationReplaces, ApiTypeOK
    <3>2. CASE j = k /\ keys[k] # Absent
      BY <3>2 DEF Inv, RotationReplaces, ApiTypeOK
    <3>3. CASE j = k /\ keys[k] = Absent
      BY <3>3 DEF ApiTypeOK
    <3> QED  BY <3>1, <3>2, <3>3
  <2> QED  BY <1>2, <2>1, <2>2 DEF Grow
<1> QED  BY <1>2, <1>3, <1>4, MovesKeep DEF ApiTypeOK

LEMMA ManageKeeps ==
  ASSUME Inv, NEW r \in Callers, ManageKeys(r)
  PROVE  Inv'
<1>0. ApiTypeOK /\ caller[r] \in Job /\ Fits(caller[r], keys, idem)
  BY JobTyped DEF Inv
<1>1. ASSUME NEW o \in Owners, StartCreate(r, o)  PROVE Inv'
  <2>1. [pc |-> "issuing", owner |-> o] \in Job /\ Fits([pc |-> "issuing", owner |-> o], keys, idem)
    BY DEF Job, Issuing, Fits
  <2> QED  BY <1>0, <1>1, <2>1, ReadsKeep DEF StartCreate, ApiTypeOK
<1>2. ASSUME NEW k \in KeyIds, NEW s \in Routes, NEW f \in BOOLEAN, NEW t \in Times \cup {Never},
             Issue(r, k, {s}, f, DefaultRate, t)
      PROVE  Inv'
  <2>1. caller[r].owner \in Owners
    BY <1>0, <1>2, Shapes DEF Issue, Issuing
  <2>2. KeyRow(caller[r].owner, {s}, f, DefaultRate, t, k) \in ApiKey
        /\ KeyRow(caller[r].owner, {s}, f, DefaultRate, t, k).from = k
    BY <2>1 DEF KeyRow, ApiKey
  <2>3. keys[k] = Absent /\ keys[k].status # "revoked"
    BY <1>2 DEF Issue, Absent
  <2> QED  BY <1>0, <1>2, <2>2, <2>3, EndFits, WritesKeep DEF Issue, Answers, ApiTypeOK
<1>3. ASSUME NEW k \in KeyIds, keys[k] # Absent, NEW row \in Edited(keys[k]), Update(r, k, row)
      PROVE  Inv'
  <2>1. keys[k] \in ApiKey
    BY <1>0, <1>3 DEF ApiTypeOK
  <2>2. row \in ApiKey /\ row.status = keys[k].status /\ row.from = keys[k].from
    BY <1>3, <2>1 DEF ApiKey, Edited
  <2> QED  BY <1>0, <1>3, <2>2, EndFits, WritesKeep DEF Update, Answers, ApiTypeOK
<1>4. ASSUME NEW k \in KeyIds, Revoke(r, k)  PROVE Inv'
  <2> DEFINE row == [keys[k] EXCEPT !.status = "revoked"]
  <2>1. keys[k] \in ApiKey /\ keys[k] # Absent
    BY <1>0, <1>4 DEF Revoke, ApiTypeOK
  <2>2. row \in ApiKey /\ row.status = "revoked" /\ row.from = keys[k].from
    BY <2>1 DEF ApiKey
  <2>3. keys' = [keys EXCEPT ![k] = row]
    BY <1>0, <1>4 DEF Revoke, ApiTypeOK
  <2> HIDE DEF row
  <2> QED  BY <1>0, <1>4, <2>1, <2>2, <2>3, EndFits, WritesKeep DEF Revoke, Answers, ApiTypeOK
<1>5. ASSUME NEW k \in KeyIds, StartRotate(r, k)  PROVE Inv'
  <2> DEFINE job == [pc |-> "retiring", key |-> k, row |-> keys[k]]
  <2>1. keys[k] \in ApiKey
    BY <1>0, <1>5 DEF StartRotate, ApiTypeOK
  <2>2. job \in Job /\ Fits(job, keys, idem)
    BY <1>5, <2>1 DEF Job, Rotation, Fits, StartRotate
  <2> QED  BY <1>0, <1>5, <2>2, ReadsKeep DEF StartRotate, ApiTypeOK
<1>6. ASSUME NEW k \in KeyIds, Reissue(r, k)  PROVE Inv'
  <2> DEFINE row == [caller[r].row EXCEPT !.status = "active", !.from = caller[r].key]
  <2>1. caller[r] \in Rotation /\ keys[caller[r].key].status = "revoked"
    BY <1>0, <1>6, Shapes DEF Reissue, Fits
  <2>2. row \in ApiKey /\ row.from = caller[r].key
    BY <2>1 DEF Rotation, ApiKey
  <2>3. keys[k] = Absent /\ keys[k].status # "revoked" /\ keys' = [keys EXCEPT ![k] = row]
    BY <1>6 DEF Reissue, Absent
  <2> DEFINE job == [pc |-> "done", out |-> <<"rotated">>]
  <2>4. Moves(r, job) /\ UNCHANGED <<disabled, buckets, idem, effects, now>> /\ failures' \in 0 .. MaxFailures
    BY <1>0, <1>6 DEF Reissue, Answers, ApiTypeOK
  <2>5. job \in Job /\ Fits(job, keys', idem)
    BY EndFits
  <2> HIDE DEF row, job
  <2> QED  BY <2>1, <2>2, <2>3, <2>4, <2>5, WritesKeep
<1>7. CASE Retire(r)
  <2> DEFINE k == caller[r].key
             row == [keys[k] EXCEPT !.status = "revoked"]
             job == [caller[r] EXCEPT !.pc = "reissuing"]
  <2>1. caller[r] \in Rotation /\ k \in KeyIds /\ keys[k] \in ApiKey /\ keys[k] # Absent
    BY <1>0, <1>7, Shapes DEF Retire, Fits, ApiTypeOK, Rotation
  <2>2. row \in ApiKey /\ row # Absent /\ row.status = "revoked" /\ row.from = keys[k].from
    BY <2>1 DEF ApiKey, Absent
  <2>3. keys' = [keys EXCEPT ![k] = row] /\ keys'[k] = row
    BY <1>0, <1>7, <2>1 DEF Retire, ApiTypeOK
  <2>4. job \in Job /\ job.pc = "reissuing" /\ job.key = k
    BY <2>1 DEF Job, Rotation
  <2> HIDE DEF row, k
  <2>5. Fits(job, keys', idem)
    BY <2>2, <2>3, <2>4 DEF Fits
  <2>6. Moves(r, job) /\ UNCHANGED <<disabled, buckets, idem, effects, now>> /\ failures' \in 0 .. MaxFailures
    BY <1>0, <1>7 DEF Retire, ApiTypeOK
  <2> HIDE DEF job
  <2> QED  BY <2>1, <2>2, <2>3, <2>4, <2>5, <2>6, WritesKeep
<1>8. CASE ReissueFails(r)
  BY <1>0, <1>8, EndFits, ReadsKeep DEF ReissueFails, ApiFault, Answers, ApiTypeOK
<1> QED  BY <1>1, <1>2, <1>3, <1>4, <1>5, <1>6, <1>7, <1>8 DEF ManageKeys

-----------------------------------------------------------------------------
(* What a crash leaves of a request.                                        *)
CutOff(r) ==
  IF caller[r].pc \in {"new", "done"} THEN caller[r]
  ELSE IF caller[r].pc = "recording" THEN [caller[r] EXCEPT !.pc = "done"]
  ELSE IF Counts(r) THEN [pc |-> "done", out |-> <<"lost">>, call |-> caller[r].call, at |-> caller[r].at]
  ELSE [pc |-> "done", out |-> <<"lost">>]

LEMMA CutOffFits ==
  ASSUME Inv, NEW r \in Callers
  PROVE  CutOff(r) \in Job /\ Fits(CutOff(r), keys, idem)
<1> DEFINE lost == [pc |-> "done", out |-> <<"lost">>, call |-> caller[r].call, at |-> caller[r].at]
<1>0. caller[r] \in Job /\ Fits(caller[r], keys, idem)
  BY JobTyped DEF Inv
<1>1. CASE caller[r].pc \in {"new", "done"}
  BY <1>0, <1>1 DEF CutOff
<1>2. CASE caller[r].pc = "recording"
  <2>1. [caller[r] EXCEPT !.pc = "done"] \in Job
    BY <1>0, <1>2, Shapes DEF Reply, Job
  <2>2. Fits([caller[r] EXCEPT !.pc = "done"], keys, idem)
    BY <1>0, <1>2, Shapes DEF Reply, Fits
  <2> QED  BY <1>2, <2>1, <2>2 DEF CutOff
<1>3. [pc |-> "done", out |-> <<"lost">>] \in Job /\ Fits([pc |-> "done", out |-> <<"lost">>], keys, idem)
  BY DEF Job, End, Fits
<1>4. CASE Counts(r) /\ caller[r].pc \notin {"new", "done", "recording"}
  <2>1. caller[r] \in Admission
    BY <1>0, <1>4, Shapes DEF Job, Counts, Looking, Issuing, Rotation, NewRequest, Reply, Rejection, Loss, End
  <2>2. lost \in Job /\ Fits(lost, keys, idem)
    BY <2>1 DEF Admission, Job, Loss, Fits
  <2> QED  BY <1>4, <2>2 DEF CutOff
<1> QED  BY <1>1, <1>2, <1>3, <1>4 DEF CutOff

LEMMA OthersKeep ==
  ASSUME Inv, (\E o \in Owners : SetOwner(o)) \/ ApiTick \/ ApiCrash
  PROVE  Inv'
<1>1. ASSUME NEW o \in Owners, SetOwner(o)  PROVE Inv'
  BY <1>1 DEF SetOwner, Inv, ApiTypeOK, RotationReplaces
<1>2. CASE ApiTick
  BY <1>2 DEF ApiTick, Inv, ApiTypeOK, RotationReplaces, Times
<1>3. CASE ApiCrash
  <2>1. caller' = [r \in Callers |-> CutOff(r)]
    BY <1>3 DEF ApiCrash, CutOff
  <2>2. caller' \in [Callers -> Job] /\ \A r \in Callers : Fits(caller'[r], keys', idem')
    BY <1>3, <2>1, CutOffFits DEF ApiCrash
  <2>3. buckets' \in [KeyIds -> [resetAt : Nat, count : Nat]] /\ failures' \in 0 .. MaxFailures
    BY <1>3 DEF ApiCrash, EmptyBucket, ApiFault, Inv, ApiTypeOK
  <2> QED  BY <1>3, <2>2, <2>3 DEF ApiCrash, Inv, ApiTypeOK, RotationReplaces, Job
<1> QED  BY <1>1, <1>2, <1>3

LEMMA NextKeeps == Inv /\ [ApiNext]_apiVars => Inv'
<1> SUFFICES ASSUME Inv, [ApiNext]_apiVars  PROVE Inv'
  OBVIOUS
<1>1. CASE UNCHANGED apiVars
  BY <1>1 DEF apiVars, Inv, ApiTypeOK, RotationReplaces
<1> QED  BY <1>1, CallKeeps, ManageKeeps, OthersKeep DEF ApiNext

LEMMA Invariant == ApiSpec => []Inv
BY InitInv, NextKeeps, PTL DEF ApiSpec

(* Every table and every request keeps its shape.                           *)
THEOREM TypeCorrect == ApiSpec => []ApiTypeOK
<1>1. Inv => ApiTypeOK
  BY DEF Inv
<1> QED  BY <1>1, Invariant, PTL

(* A request that came when its key had been revoked changes nothing and    *)
(* learns nothing, and a key that replaces another finds it revoked, over   *)
(* any rotations, updates, revocations and failed inserts at once           *)
(* (apiKeyMiddleware.js, apiKeyController.js).                              *)
THEOREM KeysEnd == ApiSpec => []RevokedKeysEnd
<1>1. Inv => RevokedKeysEnd
  BY DEF Inv, Fits, RevokedKeysEnd, RevokedStaysOut, Answered
<1> QED  BY <1>1, Invariant, PTL

-----------------------------------------------------------------------------
(* Idempotency: one request at a time works for a slot                      *)

Settled(row) == row.status \in {"completed", "failed"}

(* r runs for its Idempotency-Key; r gave its answer; r has the answer.     *)
Holds(r) == caller[r].pc \in {"running", "worked", "recording"} /\ caller[r].call.idem # NoIdem
Has(r) == Answered(r) /\ caller[r].call.idem # NoIdem
Gave(r) == caller[r].pc = "done" /\ Has(r) /\ caller[r].out[2] = r
Owns(r) == Holds(r) \/ Gave(r)
At(r) == Slot(caller[r].call)

OneOwner ==
  /\ \A q, r \in Callers : Owns(q) /\ Owns(r) /\ At(q) = At(r) => q = r
  /\ \A r \in Callers : Holds(r) => idem[At(r)].status = "in_progress"

AnswersKept ==
  /\ \A r \in Callers : caller[r].pc = "recording" => caller[r].out[2] = r
  /\ \A r \in Callers : Owns(r) \/ Has(r) =>
       idem[At(r)] # Absent /\ idem[At(r)].body = caller[r].call.body
  /\ \A r \in Callers : Has(r) => Owns(r) \/ Settled(idem[At(r)])
  /\ \A r \in Callers : Has(r) /\ Settled(idem[At(r)]) => caller[r].out = idem[At(r)].answer
  /\ \A x \in Slots, q \in Callers :
       Settled(idem[x]) /\ idem[x].answer[2] = q => Gave(q) /\ At(q) = x

EffectsKept ==
  /\ AtMostOnce
  /\ \A x \in Slots : idem[x] = Absent => effects[x] = 0
  /\ \A r \in Callers : Holds(r) /\ caller[r].pc = "running" => effects[At(r)] = 0

OnceInv == Inv /\ OneOwner /\ AnswersKept /\ EffectsKept

(* The slot of who runs or has an answer for an Idempotency-Key.            *)
LEMMA SlotOf ==
  ASSUME Inv, NEW r \in Callers
  PROVE  /\ Holds(r) \/ Has(r) => At(r) \in Slots /\ caller[r].call \in Calls
         /\ Has(r) => caller[r] \in Reply
         /\ caller[r].pc \in {"claiming", "replaying"} => At(r) \in Slots /\ caller[r] \in Admission
<1>1. caller[r] \in Job /\ Fits(caller[r], keys, idem)
  BY JobTyped DEF Inv
<1>2. Has(r) => caller[r] \in Reply
  BY <1>1, Shapes DEF Has, Answered, Reply, Rejection, Loss, End
<1>3. Holds(r) => caller[r].call \in Calls
  BY <1>1, Shapes DEF Holds, Admission, Reply
<1>4. caller[r].pc \in {"claiming", "replaying"} => caller[r] \in Admission /\ caller[r].call.idem # NoIdem
  BY <1>1, Shapes DEF Fits
<1> QED  BY <1>2, <1>3, <1>4, CallShape DEF At, Holds, Has, Reply, Admission

(* A giver is a request.                                                    *)
LEMMA GiverIsCaller ==
  ASSUME Inv, NEW x \in Slots, Settled(idem[x])
  PROVE  idem[x].answer \in Given /\ idem[x].answer[2] \in Callers /\ idem[x].status # "in_progress"
BY DEF Inv, ApiTypeOK, Settled, IdemRow, Absent, Given

(* The job neither runs nor answers for an Idempotency-Key.                 *)
Aside(job) ==
  /\ job.pc \in {"running", "worked"} => job.call.idem = NoIdem
  /\ job.pc # "recording"
  /\ job.pc = "done" /\ job.out[1] \in {"completed", "failed"} => job.call.idem = NoIdem

LEMMA MovedAt ==
  ASSUME Inv, NEW r \in Callers, NEW job, Moves(r, job)
  PROVE  caller'[r] = job /\ \A q \in Callers : q # r => caller'[q] = caller[q]
BY DEF Moves, Inv, ApiTypeOK

(* A step beside the table leaves it as it is.                              *)
LEMMA AsideKeeps ==
  ASSUME OnceInv, NEW r \in Callers, NEW job, Moves(r, job), Aside(job),
         caller[r].pc # "done", UNCHANGED <<idem, effects>>, Inv'
  PROVE  OnceInv'
<1>1. caller'[r] = job /\ \A q \in Callers : q # r => caller'[q] = caller[q]
  BY MovedAt DEF OnceInv
<1>2. ~Holds(r)' /\ ~Has(r)' /\ ~Gave(r)' /\ ~Owns(r)' /\ caller'[r].pc # "recording"
  BY <1>1 DEF Aside, Holds, Has, Gave, Owns, Answered
<1>3. ASSUME NEW q \in Callers, q # r
      PROVE  /\ Holds(q)' <=> Holds(q)
             /\ Has(q)' <=> Has(q)
             /\ Gave(q)' <=> Gave(q)
             /\ Owns(q)' <=> Owns(q)
             /\ At(q)' = At(q)
  BY <1>1, <1>3 DEF Holds, Has, Gave, Owns, At, Answered
<1>4. OneOwner'
  BY <1>2, <1>3 DEF OnceInv, OneOwner
<1>5. AnswersKept'
  <2>1. ASSUME NEW x \in Slots, NEW q \in Callers, Settled(idem[x]), idem[x].answer[2] = q
        PROVE  Gave(q)' /\ At(q)' = x
    <3>1. Gave(q) /\ At(q) = x
      BY <2>1 DEF OnceInv, AnswersKept
    <3>2. q # r
      BY <3>1 DEF Gave
    <3> QED  BY <1>3, <3>1, <3>2
  <2>2. ASSUME NEW q \in Callers
        PROVE  /\ caller'[q].pc = "recording" => caller'[q].out[2] = q
               /\ Owns(q)' \/ Has(q)' =>
                    idem[At(q)'] # Absent /\ idem[At(q)'].body = caller'[q].call.body
               /\ Has(q)' => Owns(q)' \/ Settled(idem[At(q)'])
               /\ Has(q)' /\ Settled(idem[At(q)']) => caller'[q].out = idem[At(q)'].answer
    <3>1. CASE q = r
      BY <1>2, <3>1
    <3>2. CASE q # r
      BY <1>1, <1>3, <3>2 DEF OnceInv, AnswersKept
    <3> QED  BY <3>1, <3>2
  <2> QED  BY <2>1, <2>2 DEF AnswersKept, Settled
<1>6. EffectsKept'
  BY <1>1, <1>2, <1>3 DEF OnceInv, EffectsKept, AtMostOnce
<1> QED  BY <1>4, <1>5, <1>6 DEF OnceInv

(* A step of the one that works for slot x, with which nobody else has to   *)
(* do.                                                                      *)
LEMMA OwnerKeeps ==
  ASSUME OnceInv, Inv', NEW r \in Callers, NEW x \in Slots, NEW job, Moves(r, job),
         caller[r].pc # "done",
         \A y \in Slots : y # x => idem'[y] = idem[y] /\ effects'[y] = effects[y],
         \A q \in Callers : q # r /\ (Owns(q) \/ Has(q)) => At(q) # x,
         Owns(r)', At(r)' = x,
         Holds(r)' => idem'[x].status = "in_progress",
         job.pc = "recording" => job.out[2] = r,
         idem'[x] # Absent, idem'[x].body = job.call.body,
         Has(r)' /\ Settled(idem'[x]) => job.out = idem'[x].answer,
         Settled(idem'[x]) => idem'[x].answer[2] = r /\ Gave(r)',
         effects'[x] <= 1, Holds(r)' /\ job.pc = "running" => effects'[x] = 0
  PROVE  OnceInv'
<1>1. caller'[r] = job /\ \A q \in Callers : q # r => caller'[q] = caller[q]
  BY MovedAt DEF OnceInv
<1>2. ASSUME NEW q \in Callers, q # r
      PROVE  /\ Holds(q)' <=> Holds(q)
             /\ Has(q)' <=> Has(q)
             /\ Gave(q)' <=> Gave(q)
             /\ Owns(q)' <=> Owns(q)
             /\ At(q)' = At(q)
  BY <1>1, <1>2 DEF Holds, Has, Gave, Owns, At, Answered
<1>3. ASSUME NEW q \in Callers, q # r, Owns(q) \/ Has(q)
      PROVE  At(q) \in Slots /\ At(q) # x /\ idem'[At(q)] = idem[At(q)] /\ effects'[At(q)] = effects[At(q)]
  BY <1>3, SlotOf DEF OnceInv, Owns, Gave
<1>4. OneOwner'
  <2>1. ASSUME NEW p \in Callers, NEW q \in Callers, Owns(p)', Owns(q)', At(p)' = At(q)'  PROVE p = q
    BY <1>2, <1>3, <2>1 DEF OnceInv, OneOwner
  <2>2. ASSUME NEW q \in Callers, Holds(q)'  PROVE idem'[At(q)'].status = "in_progress"
    BY <1>2, <1>3, <2>2 DEF OnceInv, OneOwner, Owns
  <2> QED  BY <2>1, <2>2 DEF OneOwner
<1>5. AnswersKept'
  <2>1. ASSUME NEW y \in Slots, NEW q \in Callers, Settled(idem'[y]), idem'[y].answer[2] = q
        PROVE  Gave(q)' /\ At(q)' = y
    <3>1. CASE y = x
      BY <2>1, <3>1
    <3>2. CASE y # x
      <4>1. Gave(q) /\ At(q) = y
        BY <2>1, <3>2 DEF OnceInv, AnswersKept
      <4>2. q # r
        BY <4>1 DEF Gave
      <4> QED  BY <1>2, <4>1, <4>2
    <3> QED  BY <3>1, <3>2
  <2>2. ASSUME NEW q \in Callers
        PROVE  /\ caller'[q].pc = "recording" => caller'[q].out[2] = q
               /\ Owns(q)' \/ Has(q)' =>
                    idem'[At(q)'] # Absent /\ idem'[At(q)'].body = caller'[q].call.body
               /\ Has(q)' => Owns(q)' \/ Settled(idem'[At(q)'])
               /\ Has(q)' /\ Settled(idem'[At(q)']) => caller'[q].out = idem'[At(q)'].answer
    <3>1. CASE q = r
      BY <1>1, <3>1
    <3>2. CASE q # r
      BY <1>1, <1>2, <1>3, <3>2 DEF OnceInv, AnswersKept
    <3> QED  BY <3>1, <3>2
  <2> QED  BY <2>1, <2>2 DEF AnswersKept, Settled
<1>6. EffectsKept'
  <2>1. \A y \in Slots : effects'[y] <= 1 /\ (idem'[y] = Absent => effects'[y] = 0)
    BY DEF OnceInv, EffectsKept, AtMostOnce
  <2>2. ASSUME NEW q \in Callers, Holds(q)', caller'[q].pc = "running"  PROVE effects'[At(q)'] = 0
    <3>1. CASE q = r
      BY <1>1, <2>2, <3>1
    <3>2. CASE q # r
      BY <1>1, <1>2, <1>3, <2>2, <3>2 DEF OnceInv, EffectsKept, Owns
    <3> QED  BY <3>1, <3>2
  <2> QED  BY <2>1, <2>2 DEF EffectsKept, AtMostOnce
<1> QED  BY <1>4, <1>5, <1>6 DEF OnceInv

(* Who runs has its slot for itself.                                        *)
LEMMA Alone ==
  ASSUME OnceInv, NEW r \in Callers, Holds(r)
  PROVE  /\ At(r) \in Slots /\ idem[At(r)].status = "in_progress" /\ ~Settled(idem[At(r)])
         /\ idem[At(r)] # Absent /\ idem[At(r)].body = caller[r].call.body
         /\ \A q \in Callers : q # r /\ (Owns(q) \/ Has(q)) => At(q) # At(r)
<1>1. At(r) \in Slots /\ idem[At(r)].status = "in_progress" /\ ~Settled(idem[At(r)])
  BY SlotOf DEF OnceInv, OneOwner, Settled
<1>2. idem[At(r)] # Absent /\ idem[At(r)].body = caller[r].call.body
  BY DEF OnceInv, AnswersKept, Owns
<1>3. ASSUME NEW q \in Callers, q # r, Owns(q) \/ Has(q), At(q) = At(r)  PROVE FALSE
  <2>1. Owns(q)
    BY <1>1, <1>3 DEF OnceInv, AnswersKept
  <2> QED  BY <1>3, <2>1 DEF OnceInv, OneOwner, Owns
<1> QED  BY <1>1, <1>2, <1>3

LEMMA CallKeepsOnce ==
  ASSUME OnceInv, NEW r \in Callers, CallApi(r), Inv'
  PROVE  OnceInv'
<1>0. caller[r] \in Job /\ Fits(caller[r], keys, idem)
  BY JobTyped DEF OnceInv, Inv
<1> DEFINE c == caller[r].call
           x == Slot(c)
<1>1. CASE \/ \E d \in Calls : Arrive(r, d)
           \/ Authenticate(r)
           \/ Claim(r) /\ idem[x] # Absent
           \/ (Work(r) \/ \E status \in {"completed", "failed"} : Respond(r, status)) /\ c.idem = NoIdem
  <2>1. \E job : Moves(r, job) /\ Aside(job)
    <3>1. ASSUME NEW d \in Calls, Arrive(r, d)  PROVE \E job : Moves(r, job) /\ Aside(job)
      BY <3>1 DEF Arrive, Aside
    <3>2. CASE Authenticate(r)
      <4>1. Aside([pc |-> IF c.idem = NoIdem THEN "running" ELSE "claiming",
                   call |-> c, late |-> caller[r].late, at |-> now])
        BY DEF Aside
      <4>2. \A limit : \A why \in {<<"rate_limited">>, <<"insufficient_scope">>} :
              Aside([pc |-> "done", out |-> why, call |-> c, at |-> now, limit |-> limit])
        BY DEF Aside
      <4>3. Aside([pc |-> "done", out |-> <<"refused">>])
        BY DEF Aside
      <4> QED  BY <3>2, <4>1, <4>2, <4>3 DEF Authenticate, Admitted, TurnedAway, Answers
    <3>3. CASE Claim(r) /\ idem[x] # Absent
      <4>1. caller[r] \in Admission
        BY <1>0, <3>3, Shapes DEF Claim
      <4>2. Aside([caller[r] EXCEPT !.pc = "replaying"])
        BY <4>1 DEF Aside, Admission
      <4> QED  BY <3>3, <4>2 DEF Claim
    <3>4. CASE Work(r) /\ c.idem = NoIdem
      <4>1. caller[r] \in Admission
        BY <1>0, <3>4, Shapes DEF Work
      <4>2. Aside([caller[r] EXCEPT !.pc = "worked"])
        BY <3>4, <4>1 DEF Aside, Admission
      <4> QED  BY <3>4, <4>2 DEF Work
    <3>5. ASSUME NEW status \in {"completed", "failed"}, Respond(r, status), c.idem = NoIdem
          PROVE  \E job : Moves(r, job) /\ Aside(job)
      BY <3>5 DEF Respond, Aside
    <3> QED  BY <1>1, <3>1, <3>2, <3>3, <3>4, <3>5
  <2>2. caller[r].pc # "done"
    <3>1. caller[r] = NewRequest \/ caller[r].pc \in {"looking", "claiming", "running", "worked"}
      <4>1. ASSUME NEW status \in {"completed", "failed"}, Respond(r, status)
            PROVE  caller[r].pc \in {"running", "worked"}
        BY <4>1 DEF Respond
      <4> QED  BY <1>1, <4>1 DEF Arrive, Authenticate, Claim, Work
    <3> QED  BY <3>1 DEF NewRequest
  <2>3. UNCHANGED <<idem, effects>>
    BY <1>1 DEF Arrive, Authenticate, Claim, Work, Respond
  <2> QED  BY <2>1, <2>2, <2>3, AsideKeeps
<1>2. CASE Claim(r) /\ idem[x] = Absent
  <2> DEFINE job == [caller[r] EXCEPT !.pc = "running"]
  <2>1. caller[r].pc = "claiming" /\ caller[r] \in Admission /\ c \in Calls /\ c.idem # NoIdem /\ x \in Slots
    BY <1>0, <1>2, Shapes, CallShape DEF Claim, Admission, Fits
  <2>2. job.pc = "running" /\ job.call = c
    BY <2>1 DEF Admission
  <2>3. Moves(r, job) /\ UNCHANGED effects /\ idem' = [idem EXCEPT ![x] = InProgress(c)]
    BY <1>2 DEF Claim
  <2> HIDE DEF job, x
  <2>4. caller'[r] = job
    BY <2>3, MovedAt DEF OnceInv
  <2>5. Holds(r)' /\ Owns(r)' /\ At(r)' = x /\ ~Has(r)'
    BY <2>1, <2>2, <2>4 DEF Holds, Owns, At, Has, Answered, x
  <2>6. idem'[x] = InProgress(c) /\ \A y \in Slots : y # x => idem'[y] = idem[y]
    BY <2>1, <2>3 DEF OnceInv, Inv, ApiTypeOK
  <2>7. \A q \in Callers : q # r /\ (Owns(q) \/ Has(q)) => At(q) # x
    BY <1>2 DEF OnceInv, AnswersKept
  <2>8. effects'[x] = 0
    BY <1>2, <2>1, <2>3 DEF OnceInv, EffectsKept
  <2>9. idem'[x] # Absent /\ idem'[x].body = job.call.body /\ idem'[x].status = "in_progress"
        /\ ~Settled(idem'[x])
    BY <2>2, <2>6 DEF InProgress, Absent, Settled
  <2> QED  BY <2>1, <2>2, <2>3, <2>5, <2>6, <2>7, <2>8, <2>9, OwnerKeeps
<1>3. CASE Replay(r)
  <2> DEFINE out == AnswerOf(idem[x], c)
             job == [pc |-> "done", out |-> out, call |-> c, late |-> caller[r].late, at |-> caller[r].at]
  <2>1. /\ caller[r].pc = "replaying" /\ c \in Calls /\ c.idem # NoIdem /\ x \in Slots
        /\ idem[x] \in IdemRow
    BY <1>0, <1>3, Shapes, CallShape DEF Replay, Admission, Fits, OnceInv, Inv, ApiTypeOK
  <2>2. Moves(r, job) /\ UNCHANGED <<idem, effects>>
    BY <1>3 DEF Replay
  <2>3. caller'[r] = job /\ \A q \in Callers : q # r => caller'[q] = caller[q]
    BY <2>2, MovedAt DEF OnceInv
  <2>4. CASE out[1] \notin {"completed", "failed"}
    BY <1>3, <2>1, <2>2, <2>4, AsideKeeps DEF Aside
  <2>5. CASE out[1] \in {"completed", "failed"}
    <3>1. out = idem[x].answer /\ Settled(idem[x]) /\ c.body = idem[x].body
      BY <2>1, <2>5 DEF AnswerOf, IdemRow, Settled
    <3>2. out[2] \in Callers /\ Gave(out[2])
      BY <2>1, <3>1, GiverIsCaller DEF OnceInv, AnswersKept
    <3>3. out[2] # r
      BY <2>1, <3>2 DEF Gave
    <3> HIDE DEF x, out
    <3>4. ~Holds(r)' /\ ~Gave(r)' /\ ~Owns(r)' /\ At(r)' = x
      BY <2>3, <3>3 DEF Holds, Gave, Owns, At, x
    <3>5. ASSUME NEW q \in Callers, q # r
          PROVE  /\ Holds(q)' <=> Holds(q)
                 /\ Has(q)' <=> Has(q)
                 /\ Gave(q)' <=> Gave(q)
                 /\ Owns(q)' <=> Owns(q)
                 /\ At(q)' = At(q)
      BY <2>3, <3>5 DEF Holds, Has, Gave, Owns, At, Answered
    <3>6. OneOwner'
      BY <2>2, <3>4, <3>5 DEF OnceInv, OneOwner
    <3>7. AnswersKept'
      <4>1. ASSUME NEW y \in Slots, NEW q \in Callers, Settled(idem[y]), idem[y].answer[2] = q
            PROVE  Gave(q)' /\ At(q)' = y
        <5>1. Gave(q) /\ At(q) = y
          BY <4>1 DEF OnceInv, AnswersKept
        <5>2. q # r
          BY <2>1, <5>1 DEF Gave
        <5> QED  BY <3>5, <5>1, <5>2
      <4>2. ASSUME NEW q \in Callers
            PROVE  /\ caller'[q].pc = "recording" => caller'[q].out[2] = q
                   /\ Owns(q)' \/ Has(q)' =>
                        idem[At(q)'] # Absent /\ idem[At(q)'].body = caller'[q].call.body
                   /\ Has(q)' => Owns(q)' \/ Settled(idem[At(q)'])
                   /\ Has(q)' /\ Settled(idem[At(q)']) => caller'[q].out = idem[At(q)'].answer
        <5>1. CASE q = r
          BY <2>3, <3>1, <3>4, <5>1 DEF Settled, Absent
        <5>2. CASE q # r
          BY <2>3, <3>5, <5>2 DEF OnceInv, AnswersKept
        <5> QED  BY <5>1, <5>2
      <4> QED  BY <2>2, <4>1, <4>2 DEF AnswersKept, Settled
    <3>8. EffectsKept'
      BY <2>2, <2>3, <3>4, <3>5 DEF OnceInv, EffectsKept, AtMostOnce
    <3> QED  BY <3>6, <3>7, <3>8 DEF OnceInv
  <2> QED  BY <2>4, <2>5
<1>4. CASE Work(r) /\ c.idem # NoIdem
  <2> DEFINE job == [caller[r] EXCEPT !.pc = "worked"]
  <2>1. caller[r].pc = "running" /\ caller[r] \in Admission /\ Holds(r) /\ x = At(r)
    BY <1>0, <1>4, Shapes DEF Work, Holds, At
  <2>2. job.pc = "worked" /\ job.call = c
    BY <2>1 DEF Admission
  <2>3. Moves(r, job) /\ UNCHANGED idem /\ effects' = [effects EXCEPT ![x] = @ + 1]
    BY <1>4 DEF Work
  <2> HIDE DEF job, x
  <2>4. caller'[r] = job
    BY <2>3, MovedAt DEF OnceInv
  <2>5. Holds(r)' /\ Owns(r)' /\ At(r)' = x /\ ~Has(r)'
    BY <1>4, <2>1, <2>2, <2>4 DEF Holds, Owns, At, Has, Answered
  <2>6. effects[x] = 0 /\ x \in Slots
    BY <2>1, Alone DEF OnceInv, EffectsKept
  <2>7. effects'[x] = 1 /\ \A y \in Slots : y # x => effects'[y] = effects[y]
    BY <2>3, <2>6 DEF OnceInv, Inv, ApiTypeOK
  <2> QED  BY <2>1, <2>2, <2>3, <2>5, <2>6, <2>7, Alone, OwnerKeeps
<1>5. ASSUME NEW status \in {"completed", "failed"}, Respond(r, status), c.idem # NoIdem  PROVE OnceInv'
  <2> DEFINE job == [pc |-> "recording", out |-> <<status, r>>, call |-> c, late |-> caller[r].late,
                     at |-> caller[r].at]
  <2>1. caller[r].pc \in {"running", "worked"} /\ Holds(r) /\ x = At(r)
    BY <1>5 DEF Respond, Holds, At
  <2>2. Moves(r, job) /\ UNCHANGED <<idem, effects>>
    BY <1>5 DEF Respond
  <2>3. job.pc = "recording" /\ job.call = c /\ job.out[2] = r
    OBVIOUS
  <2> HIDE DEF job, x
  <2>4. caller'[r] = job
    BY <2>2, MovedAt DEF OnceInv
  <2>5. Holds(r)' /\ Owns(r)' /\ At(r)' = x
    BY <1>5, <2>1, <2>3, <2>4 DEF Holds, Owns, At
  <2>6. effects[x] <= 1
    BY <2>1, Alone DEF OnceInv, EffectsKept, AtMostOnce
  <2> QED  BY <2>1, <2>2, <2>3, <2>5, <2>6, Alone, OwnerKeeps
<1>6. CASE Record(r)
  <2> DEFINE job == [caller[r] EXCEPT !.pc = "done"]
             row == [status |-> caller[r].out[1], body |-> idem[x].body, answer |-> caller[r].out]
  <2>1. /\ caller[r].pc = "recording" /\ caller[r] \in Reply /\ caller[r].out \in Given
        /\ caller[r].out[2] = r /\ Holds(r) /\ x = At(r) /\ c.idem # NoIdem
    BY <1>0, <1>6, Shapes DEF Record, Fits, Holds, At, OnceInv, AnswersKept
  <2>2. job.pc = "done" /\ job.call = c /\ job.out = caller[r].out
    BY <2>1 DEF Reply
  <2>3. row.status \in {"completed", "failed"} /\ row.body = idem[x].body /\ row.answer = caller[r].out
    BY <2>1 DEF Given
  <2>4. Moves(r, job) /\ UNCHANGED effects /\ idem' = [idem EXCEPT ![x] = row]
    BY <1>6 DEF Record
  <2> HIDE DEF job, row, x
  <2>5. caller'[r] = job
    BY <2>4, MovedAt DEF OnceInv
  <2>6. Gave(r)' /\ Owns(r)' /\ ~Holds(r)' /\ At(r)' = x
    BY <2>1, <2>2, <2>3, <2>5 DEF Holds, Owns, At, Gave, Has, Answered, Given
  <2>7. x \in Slots /\ effects[x] <= 1
    BY <2>1, Alone DEF OnceInv, EffectsKept, AtMostOnce
  <2>8. idem'[x] = row /\ \A y \in Slots : y # x => idem'[y] = idem[y]
    BY <2>4, <2>7 DEF OnceInv, Inv, ApiTypeOK
  <2>9. row # Absent
    BY <2>3 DEF Absent
  <2> QED  BY <2>1, <2>2, <2>3, <2>4, <2>6, <2>7, <2>8, <2>9, Alone, OwnerKeeps
<1>7. CASE AnswerNotRecorded(r)
  <2> DEFINE job == [caller[r] EXCEPT !.pc = "done"]
  <2>1. /\ caller[r].pc = "recording" /\ caller[r] \in Reply /\ caller[r].out \in Given
        /\ caller[r].out[2] = r /\ Holds(r) /\ x = At(r) /\ c.idem # NoIdem
    BY <1>0, <1>7, Shapes DEF AnswerNotRecorded, Fits, Holds, At, OnceInv, AnswersKept
  <2>2. job.pc = "done" /\ job.call = c /\ job.out = caller[r].out
    BY <2>1 DEF Reply
  <2>3. Moves(r, job) /\ UNCHANGED <<idem, effects>>
    BY <1>7 DEF AnswerNotRecorded
  <2> HIDE DEF job, x
  <2>4. caller'[r] = job
    BY <2>3, MovedAt DEF OnceInv
  <2>5. Gave(r)' /\ Owns(r)' /\ ~Holds(r)' /\ At(r)' = x
    BY <2>1, <2>2, <2>4 DEF Holds, Owns, At, Gave, Has, Answered, Given
  <2>6. x \in Slots /\ effects[x] <= 1
    BY <2>1, Alone DEF OnceInv, EffectsKept, AtMostOnce
  <2> QED  BY <2>1, <2>2, <2>3, <2>5, <2>6, Alone, OwnerKeeps
<1> QED  BY <1>1, <1>2, <1>3, <1>4, <1>5, <1>6, <1>7 DEF CallApi

LEMMA ManageKeepsOnce ==
  ASSUME OnceInv, NEW r \in Callers, ManageKeys(r), Inv'
  PROVE  OnceInv'
<1>0. caller[r] \in Job
  BY JobTyped DEF OnceInv, Inv
<1>1. CASE Retire(r)
  <2>1. caller[r] \in Rotation
    BY <1>0, <1>1, Shapes DEF Retire
  <2>2. Aside([caller[r] EXCEPT !.pc = "reissuing"])
    BY <2>1 DEF Rotation, Aside
  <2> QED  BY <1>1, <2>2, AsideKeeps DEF Retire
<1>2. ASSUME ManageKeys(r), ~Retire(r)
      PROVE  \E job : Moves(r, job) /\ Aside(job)
  <2>1. ASSUME NEW o  PROVE Aside([pc |-> "issuing", owner |-> o])
    BY DEF Aside
  <2>2. ASSUME NEW k  PROVE Aside([pc |-> "retiring", key |-> k, row |-> keys[k]])
    BY DEF Aside
  <2>3. ASSUME NEW out \in {<<"created">>, <<"updated">>, <<"revoked">>, <<"rotated">>, <<"server_error">>}
        PROVE  Aside([pc |-> "done", out |-> out])
    BY DEF Aside
  <2> QED  BY <1>2, <2>1, <2>2, <2>3
           DEF ManageKeys, StartCreate, Issue, Update, Revoke, StartRotate, Reissue, ReissueFails, Answers
<1>3. UNCHANGED <<idem, effects>>
  BY DEF ManageKeys, StartCreate, Issue, Update, Revoke, StartRotate, Reissue, ReissueFails, Retire
<1>4. caller[r] = NewRequest \/ caller[r].pc \in {"issuing", "retiring", "reissuing"}
  BY DEF ManageKeys, StartCreate, Issue, Update, Revoke, StartRotate, Reissue, ReissueFails, Retire
<1>5. caller[r].pc # "done"
  BY <1>4 DEF NewRequest
<1> QED  BY <1>1, <1>2, <1>3, <1>5, AsideKeeps

LEMMA OthersKeepOnce ==
  ASSUME OnceInv, (\E o \in Owners : SetOwner(o)) \/ ApiTick \/ ApiCrash, Inv'
  PROVE  OnceInv'
<1>1. CASE UNCHANGED <<caller, idem, effects>>
  BY <1>1 DEF OnceInv, OneOwner, AnswersKept, EffectsKept, AtMostOnce, Owns, Holds, Gave, Has, At, Answered
<1>2. CASE ApiCrash
  <2>1. UNCHANGED <<idem, effects>> /\ \A r \in Callers : caller'[r] = CutOff(r)
    BY <1>2 DEF ApiCrash, CutOff
  <2>2. ASSUME NEW r \in Callers
        PROVE  /\ ~Holds(r)' /\ caller'[r].pc # "recording"
               /\ Has(r)' <=> Has(r)
               /\ Has(r) => At(r)' = At(r) /\ caller'[r].out = caller[r].out
                            /\ caller'[r].call = caller[r].call
               /\ Gave(r)' <=> Has(r) /\ caller[r].out[2] = r
    <3>0. caller[r] \in Job
      BY JobTyped DEF OnceInv, Inv
    <3>1. CASE caller[r].pc \in {"new", "done"}
      BY <2>1, <3>1 DEF CutOff, Holds, Has, Gave, At, Answered
    <3>2. CASE caller[r].pc = "recording"
      <4>1. caller[r] \in Reply
        BY <3>0, <3>2, Shapes
      <4>2. /\ caller'[r].pc = "done" /\ caller'[r].out = caller[r].out
            /\ caller'[r].call = caller[r].call
        BY <2>1, <3>2, <4>1 DEF CutOff, Reply
      <4> QED  BY <3>2, <4>2 DEF Holds, Has, Gave, At, Answered
    <3>3. CASE caller[r].pc \notin {"new", "done", "recording"}
      <4>1. \/ caller'[r] = [pc |-> "done", out |-> <<"lost">>, call |-> caller[r].call, at |-> caller[r].at]
            \/ caller'[r] = [pc |-> "done", out |-> <<"lost">>]
        BY <2>1, <3>3 DEF CutOff
      <4>2. caller'[r].pc = "done" /\ caller'[r].out = <<"lost">>
        BY <4>1
      <4> QED  BY <3>3, <4>2 DEF Holds, Has, Gave, Answered
    <3> QED  BY <3>1, <3>2, <3>3
  <2>3. \A r \in Callers : /\ Owns(r)' => Owns(r) /\ Has(r) /\ caller[r].out[2] = r
                           /\ Has(r) /\ Owns(r) => Owns(r)'
    BY <2>2 DEF Owns, Gave, OnceInv, AnswersKept, Has, Answered, Holds
  <2>4. OneOwner'
    BY <2>1, <2>2, <2>3 DEF OnceInv, OneOwner
  <2>5. AnswersKept'
    BY <2>1, <2>2, <2>3 DEF OnceInv, AnswersKept, Gave
  <2>6. EffectsKept'
    BY <2>1, <2>2 DEF OnceInv, EffectsKept, AtMostOnce
  <2> QED  BY <2>4, <2>5, <2>6 DEF OnceInv
<1> QED  BY <1>1, <1>2 DEF SetOwner, ApiTick

LEMMA NextKeepsOnce == OnceInv /\ [ApiNext]_apiVars => OnceInv'
<1> SUFFICES ASSUME OnceInv, [ApiNext]_apiVars  PROVE OnceInv'
  OBVIOUS
<1>1. Inv'
  BY NextKeeps DEF OnceInv
<1>2. CASE UNCHANGED apiVars
  BY <1>1, <1>2 DEF apiVars, OnceInv, OneOwner, AnswersKept, EffectsKept, AtMostOnce, Owns, Holds, Gave,
                    Has, At, Answered
<1> QED  BY <1>1, <1>2, CallKeepsOnce, ManageKeepsOnce, OthersKeepOnce DEF ApiNext

LEMMA InitOnce == ApiInit => OnceInv
<1> SUFFICES ASSUME ApiInit  PROVE OnceInv
  OBVIOUS
<1>1. \A r \in Callers : caller[r].pc = "new" /\ ~Holds(r) /\ ~Has(r) /\ ~Owns(r)
  BY DEF ApiInit, NewRequest, Holds, Has, Owns, Gave, Answered
<1>2. \A x \in Slots : idem[x] = Absent /\ ~Settled(idem[x]) /\ effects[x] = 0
  BY DEF ApiInit, Absent, Settled
<1> QED  BY <1>1, <1>2, InitInv DEF OnceInv, OneOwner, AnswersKept, EffectsKept, AtMostOnce

(* An Idempotency-Key of a route stands for one effect and one answer:      *)
(* however its requests overlap, are repeated, fail to be recorded or die,  *)
(* the handler does its work at most once, and all who are answered are     *)
(* given the same answer for the same body (idempotencyMiddleware.js).      *)
THEOREM KeyCountsOnce == ApiSpec => []OncePerKey
<1>1. OnceInv => OncePerKey
  <2> SUFFICES ASSUME OnceInv  PROVE OncePerKey
    OBVIOUS
  <2>1. ASSUME NEW q \in Callers, NEW r \in Callers, Has(q), Has(r), At(q) = At(r)
        PROVE  caller[q].out = caller[r].out /\ caller[q].call.body = caller[r].call.body
    BY <2>1 DEF OnceInv, OneOwner, AnswersKept
  <2>2. SameAnswer
    <3> SUFFICES ASSUME NEW r \in Callers, NEW q \in Callers, Answered(r), Answered(q),
                        Slot(caller[r].call) = Slot(caller[q].call), caller[r].call.idem # NoIdem
                 PROVE  caller[r].out = caller[q].out /\ caller[r].call.body = caller[q].call.body
      BY DEF SameAnswer
    <3>1. caller[r].call.idem = caller[q].call.idem
      BY DEF Slot
    <3> QED  BY <2>1, <3>1 DEF Has, At
  <2> QED  BY <2>2 DEF OncePerKey, OnceInv, EffectsKept
<1> QED  BY <1>1, InitOnce, NextKeepsOnce, PTL DEF ApiSpec

-----------------------------------------------------------------------------
(* Rates: who is turned away finds the window full                          *)

Limited(r) == caller[r].pc = "done" /\ caller[r].out = <<"rate_limited">>

(* The requests that count in the present window of key k, and those that   *)
(* share the last window's length with r.                                   *)
InWindow(k) ==
  {q \in Callers : Counts(q) /\ caller[q].call.token = k /\ buckets[k].resetAt <= caller[q].at + Window}
Before(r) ==
  {q \in Callers \ {r} : Counts(q) /\ caller[q].call.token = caller[r].call.token
                         /\ caller[q].at <= caller[r].at /\ caller[q].at + Window > caller[r].at}

BucketFits(k) ==
  /\ buckets[k].count <= Cardinality(InWindow(k))
  /\ buckets[k].resetAt <= now + Window
  /\ buckets[k].count > 0 => \E q \in InWindow(k) : ~Limited(q)

Crowded(r) ==
  /\ Cardinality(Before(r)) >= caller[r].limit
  /\ \E q \in Before(r) : ~Limited(q)

BusyInv ==
  /\ Inv
  /\ \A r \in Callers : Counts(r) => caller[r].at <= now
  /\ \A k \in KeyIds : BucketFits(k)
  /\ \A r \in Callers : Limited(r) => Crowded(r)

LEMMA WhoCounts ==
  ASSUME Inv, NEW r \in Callers
  PROVE  /\ Counts(r) => /\ caller[r] \in Admission \cup Reply \cup Rejection \cup Loss
                         /\ caller[r].at \in Times /\ caller[r].call \in Calls
         /\ caller[r] \in Admission \cup Reply \cup Rejection \cup Loss => Counts(r)
         /\ Limited(r) => caller[r] \in Rejection
<1>1. caller[r] \in Job
  BY JobTyped DEF Inv
<1>2. Limited(r) => caller[r] \in Rejection
  BY <1>1 DEF Limited, Job, NewRequest, Looking, Admission, Reply, Rejection, Loss, Issuing, Rotation, End, Given
<1>3. Counts(r) => caller[r] \in Admission \cup Reply \cup Rejection \cup Loss
  BY <1>1 DEF Counts, Job, NewRequest, Looking, Issuing, Rotation, End
<1>4. caller[r] \in Admission \cup Reply \cup Rejection \cup Loss =>
        Counts(r) /\ caller[r].at \in Times /\ caller[r].call \in Calls
  BY DEF Counts, Admission, Reply, Rejection, Loss
<1> QED  BY <1>2, <1>3, <1>4

LEMMA WindowFinite ==
  /\ \A k : IsFiniteSet(InWindow(k)) /\ Cardinality(InWindow(k)) \in Nat
  /\ \A r : IsFiniteSet(Before(r)) /\ Cardinality(Before(r)) \in Nat
<1>1. ASSUME NEW S \in SUBSET Callers  PROVE IsFiniteSet(S) /\ Cardinality(S) \in Nat
  BY FS_Subset, FS_CardinalityType
<1> QED  BY <1>1 DEF InWindow, Before

(* Who counts goes on to count, for the same call at the same time.         *)
Stays(q) ==
  /\ Counts(q) => /\ Counts(q)'
                  /\ caller'[q].at = caller[q].at /\ caller'[q].call = caller[q].call
                  /\ Limited(q)' <=> Limited(q)
  /\ Limited(q) => caller'[q].limit = caller[q].limit

(* One who was turned away still finds the window full.                     *)
LEMMA CrowdedStays ==
  ASSUME Inv, Inv', \A q \in Callers : Stays(q), NEW r \in Callers, Limited(r), Crowded(r)
  PROVE  Crowded(r)'
<1>0. Counts(r)
  BY WhoCounts
<1>1. Before(r) \subseteq Before(r)'
  BY <1>0 DEF Before, Stays
<1>2. IsFiniteSet(Before(r)')
  <2>1. Before(r)' \in SUBSET Callers
    BY DEF Before
  <2> QED  BY <2>1, FS_Subset
<1>3. Cardinality(Before(r)) <= Cardinality(Before(r)')
  BY <1>1, <1>2, FS_Subset
<1>4. Cardinality(Before(r)) \in Nat /\ Cardinality(Before(r)') \in Nat
  BY <1>2, WindowFinite, FS_CardinalityType
<1>5. caller[r].limit \in Nat /\ caller'[r].limit = caller[r].limit
  BY WhoCounts DEF Rejection, Stays
<1>6. \E q \in Before(r)' : ~Limited(q)'
  BY <1>1 DEF Crowded, Before, Stays
<1> QED  BY <1>3, <1>4, <1>5, <1>6 DEF Crowded

(* The window of a key whose counter is left alone.                         *)
LEMMA BucketStays ==
  ASSUME Inv, Inv', \A q \in Callers : Stays(q), NEW k \in KeyIds,
         BucketFits(k), buckets'[k] = buckets[k], now <= now'
  PROVE  BucketFits(k)'
<1>0. now \in Nat /\ now' \in Nat /\ buckets[k].resetAt \in Nat /\ buckets[k].count \in Nat
  BY DEF Inv, ApiTypeOK, Times
<1>1. InWindow(k) \subseteq InWindow(k)'
  BY DEF InWindow, Stays
<1>2. IsFiniteSet(InWindow(k)') /\ Cardinality(InWindow(k)') \in Nat
  <2>1. InWindow(k)' \in SUBSET Callers
    BY DEF InWindow
  <2> QED  BY <2>1, FS_Subset, FS_CardinalityType
<1>3. Cardinality(InWindow(k)) <= Cardinality(InWindow(k)') /\ Cardinality(InWindow(k)) \in Nat
  BY <1>1, <1>2, FS_Subset, WindowFinite
<1>4. buckets[k].count > 0 => \E q \in InWindow(k)' : ~Limited(q)'
  BY <1>1 DEF BucketFits, InWindow, Stays
<1> QED  BY <1>0, <1>2, <1>3, <1>4 DEF BucketFits

(* A step that counts nobody.                                               *)
LEMMA QuietKeeps ==
  ASSUME BusyInv, Inv', \A q \in Callers : Stays(q) /\ (Limited(q)' => Limited(q)),
         \A q \in Callers : Counts(q)' => Counts(q) \/ caller'[q].at = now,
         UNCHANGED buckets, now <= now'
  PROVE  BusyInv'
<1>1. \A q \in Callers : Counts(q)' => caller'[q].at <= now'
  <2>1. now \in Nat /\ now' \in Nat
    BY DEF BusyInv, Inv, ApiTypeOK, Times
  <2>2. ASSUME NEW q \in Callers, Counts(q)  PROVE caller'[q].at <= now'
    BY <2>1, <2>2, WhoCounts DEF BusyInv, Stays, Times
  <2> QED  BY <2>1, <2>2
<1>2. \A k \in KeyIds : BucketFits(k)'
  BY BucketStays DEF BusyInv
<1>3. \A r \in Callers : Limited(r)' => Crowded(r)'
  BY CrowdedStays DEF BusyInv
<1> QED  BY <1>1, <1>2, <1>3 DEF BusyInv

(* A step of one request that does not count it, or is not the first to.    *)
LEMMA StepStays ==
  ASSUME Inv, NEW r \in Callers, NEW job, Moves(r, job),
         Counts(r) => /\ caller[r].pc # "done" /\ "at" \in DOMAIN job
                      /\ job.at = caller[r].at /\ job.call = caller[r].call,
         ~(job.pc = "done" /\ job.out = <<"rate_limited">>)
  PROVE  \A q \in Callers : /\ Stays(q) /\ (Limited(q)' => Limited(q))
                            /\ q # r => (Counts(q)' <=> Counts(q))
<1>1. caller'[r] = job /\ \A q \in Callers : q # r => caller'[q] = caller[q]
  BY MovedAt
<1>2. Limited(r) => Counts(r)
  BY WhoCounts
<1>3. ~Limited(r) /\ ~Limited(r)'
  BY <1>1, <1>2 DEF Limited
<1>4. Counts(r) => Counts(r)'
  BY <1>1 DEF Counts
<1>5. Stays(r)
  BY <1>1, <1>3, <1>4 DEF Stays
<1>6. ASSUME NEW q \in Callers, q # r
      PROVE  Stays(q) /\ (Limited(q)' <=> Limited(q)) /\ (Counts(q)' <=> Counts(q))
  BY <1>1, <1>6 DEF Stays, Limited, Counts
<1> QED  BY <1>3, <1>5, <1>6

(* Requests that are let in or turned away: r is counted for its key.       *)
LEMMA CountedKeeps ==
  ASSUME BusyInv, Inv', NEW r \in Callers, NEW k \in KeyIds, Authenticate(r),
         caller[r].call.token = k, ~Refused(keys[k], caller[r].call)
  PROVE  BusyInv'
<1> DEFINE c == caller[r].call
           b == Counted(buckets[k])
           rate == keys[k].rate
<1>0. /\ now \in Nat /\ Window \in Nat \ {0} /\ now' = now /\ k \in KeyIds
      /\ buckets[k] \in [resetAt : Nat, count : Nat] /\ c.token = k /\ buckets' = [buckets EXCEPT ![k] = b]
      /\ buckets'[k] = b /\ \A j \in KeyIds : j # k => buckets'[j] = buckets[j]
  <2>1. k \in KeyIds /\ k # Session /\ buckets \in [KeyIds -> [resetAt : Nat, count : Nat]]
        /\ now \in Nat
    BY DEF BusyInv, Inv, ApiTypeOK, Times
  <2>2. buckets' = [buckets EXCEPT ![k] = b] /\ now' = now
    BY <2>1 DEF Authenticate
  <2> HIDE DEF b
  <2> QED  BY <2>1, <2>2
<1>1. caller[r] \in Looking /\ ~Counts(r) /\ ~Limited(r)
  <2>1. caller[r] \in Looking
    BY JobTyped, Shapes DEF Authenticate, BusyInv, Inv
  <2> QED  BY <2>1 DEF Counts, Limited, Looking
<1>2. rate \in Nat \ {0}
  BY <1>0 DEF Refused, ApiKey, Absent, BusyInv, Inv, ApiTypeOK
<1>3. \E job : /\ Moves(r, job) /\ "at" \in DOMAIN job /\ job.at = now /\ job.call = c
               /\ job.pc = "done" /\ job.out = <<"rate_limited">> => b.count > rate /\ job.limit = rate
  <2> DEFINE admitted == [pc |-> IF c.idem = NoIdem THEN "running" ELSE "claiming",
                          call |-> c, late |-> caller[r].late, at |-> now]
             away(why) == [pc |-> "done", out |-> why, call |-> c, at |-> now, limit |-> rate]
  <2>1. "at" \in DOMAIN admitted /\ admitted.at = now /\ admitted.call = c /\ admitted.pc # "done"
    OBVIOUS
  <2>2. \A why : "at" \in DOMAIN away(why) /\ away(why).at = now /\ away(why).call = c
                 /\ away(why).limit = rate /\ away(why).out = why
    OBVIOUS
  <2>3. <<"insufficient_scope">> # <<"rate_limited">>
    OBVIOUS
  <2>4. \/ Moves(r, admitted)
        \/ b.count > rate /\ Moves(r, away(<<"rate_limited">>))
        \/ Moves(r, away(<<"insufficient_scope">>))
    BY <1>0 DEF Authenticate, Admitted, TurnedAway
  <2> HIDE DEF admitted, away, b, rate
  <2> QED  BY <2>1, <2>2, <2>3, <2>4
<1>4. PICK job : /\ Moves(r, job) /\ "at" \in DOMAIN job /\ job.at = now /\ job.call = c
                 /\ job.pc = "done" /\ job.out = <<"rate_limited">> => b.count > rate /\ job.limit = rate
  BY <1>3
<1>5. caller'[r] = job /\ \A q \in Callers : q # r => caller'[q] = caller[q]
  BY <1>4, MovedAt DEF BusyInv
<1>6. Counts(r)' /\ caller'[r].at = now /\ caller'[r].call.token = k
      /\ (Limited(r)' => b.count > rate /\ caller'[r].limit = rate)
  BY <1>4, <1>5 DEF Counts, Limited
<1>7. ASSUME NEW q \in Callers
      PROVE  Stays(q) /\ (q # r => (Counts(q)' <=> Counts(q)) /\ (Limited(q)' <=> Limited(q)))
  BY <1>1, <1>5, <1>7 DEF Stays, Counts, Limited
<1>8. \A q \in Callers : Counts(q)' => caller'[q].at <= now'
  BY <1>0, <1>5, <1>6, <1>7 DEF BusyInv
<1>9. InWindow(k) \subseteq Callers \ {r} /\ IsFiniteSet(InWindow(k)) /\ Cardinality(InWindow(k)) \in Nat
      /\ \A q \in InWindow(k) : /\ Counts(q) /\ Counts(q)' /\ caller'[q].call.token = k
                                /\ caller'[q].at = caller[q].at /\ caller[q].at \in Nat /\ caller[q].at <= now
                                /\ buckets[k].resetAt <= caller[q].at + Window
                                /\ (Limited(q)' <=> Limited(q))
  BY <1>0, <1>1, <1>5, <1>7, WindowFinite, WhoCounts DEF InWindow, Stays, BusyInv, Times
<1>10. BucketFits(k) /\ buckets[k].count \in Nat /\ buckets[k].resetAt \in Nat
  BY <1>0 DEF BusyInv
<1> HIDE DEF c, rate
<1>11. CASE now >= buckets[k].resetAt
  <2>1. b.resetAt = now + Window /\ b.count = 1
    BY <1>11 DEF Counted
  <2> HIDE DEF b
  <2>2. ~Limited(r)'
    BY <1>2, <1>6, <2>1
  <2>3. r \in InWindow(k)' /\ InWindow(k)' \in SUBSET Callers
    BY <1>0, <1>6, <2>1 DEF InWindow
  <2>4. IsFiniteSet(InWindow(k)') /\ {r} \subseteq InWindow(k)'
    BY <2>3, FS_Subset
  <2>5. Cardinality({r}) = 1 /\ Cardinality({r}) <= Cardinality(InWindow(k)')
    BY <2>4, FS_Subset, FS_Singleton
  <2>6. BucketFits(k)'
    BY <1>0, <2>1, <2>2, <2>3, <2>5 DEF BucketFits
  <2>7. \A j \in KeyIds : BucketFits(j)'
    BY <1>0, <1>7, <2>6, BucketStays DEF BusyInv
  <2>8. \A q \in Callers : Limited(q)' => Crowded(q)'
    BY <1>7, <2>2, CrowdedStays DEF BusyInv
  <2> QED  BY <1>8, <2>7, <2>8 DEF BusyInv
<1>12. CASE now < buckets[k].resetAt
  <2>1. b.resetAt = buckets[k].resetAt /\ b.count = buckets[k].count + 1
    BY <1>0, <1>12 DEF Counted
  <2> HIDE DEF b
  <2>2. InWindow(k)' = InWindow(k) \cup {r}
    <3>1. r \in InWindow(k)'
      BY <1>0, <1>6, <1>10, <2>1 DEF InWindow, BucketFits
    <3>2. ASSUME NEW q \in Callers, q # r  PROVE q \in InWindow(k)' <=> q \in InWindow(k)
      BY <1>0, <1>5, <1>7, <2>1, <3>2 DEF InWindow
    <3> QED  BY <3>1, <3>2 DEF InWindow
  <2>3. Cardinality(InWindow(k)') = Cardinality(InWindow(k)) + 1
    BY <1>9, <2>2, FS_AddElement
  <2>4. \E q \in InWindow(k)' : ~Limited(q)'
    <3>1. CASE buckets[k].count = 0
      BY <1>2, <1>6, <2>1, <2>2, <3>1
    <3>2. CASE buckets[k].count > 0
      BY <1>9, <1>10, <2>2, <3>2 DEF BucketFits
    <3> QED  BY <1>10, <3>1, <3>2
  <2>5. BucketFits(k)'
    BY <1>0, <1>9, <1>10, <2>1, <2>3, <2>4 DEF BucketFits
  <2>6. \A j \in KeyIds : BucketFits(j)'
    BY <1>0, <1>7, <2>5, BucketStays DEF BusyInv
  <2>7. ASSUME Limited(r)'  PROVE Crowded(r)'
    <3>1. buckets[k].count >= rate /\ buckets[k].count > 0 /\ caller'[r].limit = rate
      BY <1>2, <1>6, <1>10, <2>1, <2>7
    <3>2. InWindow(k) \subseteq Before(r)' /\ Before(r)' \in SUBSET Callers
      BY <1>0, <1>6, <1>9, <1>10, <1>12 DEF Before
    <3>3. IsFiniteSet(Before(r)')
      BY <3>2, FS_Subset
    <3>4. Cardinality(InWindow(k)) <= Cardinality(Before(r)') /\ Cardinality(Before(r)') \in Nat
      BY <3>2, <3>3, FS_Subset, FS_CardinalityType
    <3>5. PICK q \in InWindow(k) : ~Limited(q)
      BY <1>10, <3>1 DEF BucketFits
    <3>6. q \in Before(r)' /\ ~Limited(q)'
      BY <1>9, <3>2, <3>5
    <3> QED  BY <1>2, <1>9, <1>10, <3>1, <3>4, <3>6 DEF BucketFits, Crowded
  <2>8. \A q \in Callers : Limited(q)' => Crowded(q)'
    BY <1>7, <2>7, CrowdedStays DEF BusyInv
  <2> QED  BY <1>8, <2>6, <2>8 DEF BusyInv
<1> QED  BY <1>0, <1>10, <1>11, <1>12

LEMMA CallKeepsBusy ==
  ASSUME BusyInv, Inv', NEW r \in Callers, CallApi(r)
  PROVE  BusyInv'
<1>0. caller[r] \in Job /\ Inv
  BY JobTyped DEF BusyInv, Inv
<1> DEFINE c == caller[r].call
           Quiet == \E job : /\ Moves(r, job)
                             /\ Counts(r) => /\ caller[r].pc # "done" /\ "at" \in DOMAIN job
                                             /\ job.at = caller[r].at /\ job.call = caller[r].call
                             /\ ~(job.pc = "done" /\ job.out = <<"rate_limited">>)
                             /\ "at" \in DOMAIN job => Counts(r) \/ job.at = now
<1>1. ASSUME NEW d \in Calls, Arrive(r, d)  PROVE Quiet /\ UNCHANGED <<buckets, now>>
  BY <1>1 DEF Arrive, NewRequest, Counts
<1>2. ASSUME Authenticate(r) /\ ~(c.token \in KeyIds /\ ~Refused(keys[c.token], c))  PROVE Quiet /\ UNCHANGED <<buckets, now>>
  <2>1. caller[r] \in Looking /\ ~Counts(r)
    BY <1>0, <1>2, Shapes DEF Authenticate, Looking, Counts
  <2>2. \/ Moves(r, [pc |-> IF c.idem = NoIdem THEN "running" ELSE "claiming",
                     call |-> c, late |-> caller[r].late, at |-> now])
        \/ Moves(r, [pc |-> "done", out |-> <<"refused">>])
    BY <1>2 DEF Authenticate, Admitted, Answers
  <2>3. <<"refused">> # <<"rate_limited">>
    OBVIOUS
  <2>4. Quiet
    BY <2>1, <2>2, <2>3
  <2>5. UNCHANGED <<buckets, now>>
    BY <1>2 DEF Authenticate
  <2> QED  BY <2>4, <2>5
<1>3. ASSUME Claim(r) \/ Work(r)  PROVE Quiet /\ UNCHANGED <<buckets, now>>
  <2>1. caller[r] \in Admission
    BY <1>0, <1>3, Shapes DEF Claim, Work
  <2>2. ASSUME NEW pc \in {"running", "replaying", "worked"}
        PROVE  LET job == [caller[r] EXCEPT !.pc = pc] IN
               "at" \in DOMAIN job /\ job.at = caller[r].at /\ job.call = c /\ job.pc = pc /\ Counts(r)
    BY <2>1 DEF Admission, Counts
  <2>3. \E pc \in {"running", "replaying", "worked"} : Moves(r, [caller[r] EXCEPT !.pc = pc])
    BY <1>3 DEF Claim, Work
  <2>4. UNCHANGED <<buckets, now>> /\ caller[r].pc # "done"
    BY <1>3 DEF Claim, Work
  <2> QED  BY <2>2, <2>3, <2>4
<1>4. ASSUME Replay(r)  PROVE Quiet /\ UNCHANGED <<buckets, now>>
  <2>1. caller[r] \in Admission /\ Fits(caller[r], keys, idem)
    BY <1>0, <1>4, Shapes DEF Replay, Inv
  <2>2. AnswerOf(idem[Slot(c)], c) \in Given \cup {<<"key_reuse">>, <<"in_progress">>}
    <3>1. idem[Slot(c)] \in IdemRow
      BY <1>0, <1>4, <2>1, CallShape DEF Replay, Fits, Inv, ApiTypeOK, Admission
    <3> QED  BY <3>1 DEF AnswerOf, IdemRow
  <2>3. AnswerOf(idem[Slot(c)], c) # <<"rate_limited">>
    BY <2>2 DEF Given
  <2> QED  BY <1>4, <2>1, <2>3 DEF Replay, Admission, Counts
<1>5. ASSUME NEW status \in {"completed", "failed"}, Respond(r, status)
      PROVE  Quiet /\ UNCHANGED <<buckets, now>>
  <2>1. caller[r] \in Admission
    BY <1>0, <1>5, Shapes DEF Respond
  <2>2. <<status, r>> # <<"rate_limited">>
    BY <1>5
  <2> QED  BY <1>5, <2>1, <2>2 DEF Respond, Admission, Counts
<1>6. ASSUME Record(r) \/ AnswerNotRecorded(r)  PROVE Quiet /\ UNCHANGED <<buckets, now>>
  <2>1. caller[r] \in Reply /\ caller[r].pc = "recording"
    BY <1>0, <1>6, Shapes DEF Record, AnswerNotRecorded
  <2> DEFINE job == [caller[r] EXCEPT !.pc = "done"]
  <2>2. "at" \in DOMAIN job /\ job.at = caller[r].at /\ job.call = c /\ job.out = caller[r].out
        /\ job.out # <<"rate_limited">> /\ Counts(r)
    BY <2>1 DEF Reply, Counts, Given
  <2>3. Moves(r, job) /\ UNCHANGED <<buckets, now>>
    BY <1>6 DEF Record, AnswerNotRecorded
  <2> HIDE DEF job
  <2> QED  BY <2>1, <2>2, <2>3
<1>7. CASE Authenticate(r) /\ c.token \in KeyIds /\ ~Refused(keys[c.token], c)
  BY <1>7, CountedKeeps
<1>8. ASSUME Quiet, UNCHANGED <<buckets, now>>  PROVE BusyInv'
  <2>1. PICK job : /\ Moves(r, job)
                   /\ Counts(r) => /\ caller[r].pc # "done" /\ "at" \in DOMAIN job
                                   /\ job.at = caller[r].at /\ job.call = caller[r].call
                   /\ ~(job.pc = "done" /\ job.out = <<"rate_limited">>)
                   /\ "at" \in DOMAIN job => Counts(r) \/ job.at = now
    BY <1>8
  <2>2. \A q \in Callers : Stays(q) /\ (Limited(q)' => Limited(q)) /\ (q # r => (Counts(q)' <=> Counts(q)))
    BY <1>0, <2>1, StepStays
  <2>3. Counts(r)' => Counts(r) \/ caller'[r].at = now
    BY <1>0, <2>1, MovedAt DEF Counts
  <2>4. now <= now' /\ UNCHANGED buckets
    BY <1>0, <1>8 DEF Inv, ApiTypeOK, Times
  <2> QED  BY <2>2, <2>3, <2>4, QuietKeeps
<1> HIDE DEF Quiet
<1> QED  BY <1>1, <1>2, <1>3, <1>4, <1>5, <1>6, <1>7, <1>8 DEF CallApi

LEMMA ManageKeepsBusy ==
  ASSUME BusyInv, Inv', NEW r \in Callers, ManageKeys(r)
  PROVE  BusyInv'
<1>0. caller[r] \in Job /\ Inv
  BY JobTyped DEF BusyInv, Inv
<1>1. ~Counts(r)
  <2>1. caller[r] = NewRequest \/ caller[r].pc \in {"issuing", "retiring", "reissuing"}
    BY DEF ManageKeys, StartCreate, Issue, Update, Revoke, StartRotate, Reissue, ReissueFails, Retire
  <2>2. caller[r].pc \notin {"claiming", "replaying", "running", "worked", "recording", "done"}
    BY <2>1 DEF NewRequest
  <2> QED  BY <1>0, <2>2, WhoCounts DEF Admission, Reply, Rejection, Loss
<1>2. \E job : Moves(r, job) /\ "at" \notin DOMAIN job
               /\ ~(job.pc = "done" /\ job.out = <<"rate_limited">>)
  <2>1. ASSUME Retire(r)
        PROVE  LET job == [caller[r] EXCEPT !.pc = "reissuing"] IN
               Moves(r, job) /\ "at" \notin DOMAIN job /\ job.pc # "done"
    BY <1>0, <2>1, Shapes DEF Retire, Rotation
  <2>2. ASSUME NEW out \in {<<"created">>, <<"updated">>, <<"revoked">>, <<"rotated">>, <<"server_error">>},
               Answers(r, out)
        PROVE  LET job == [pc |-> "done", out |-> out] IN
               Moves(r, job) /\ "at" \notin DOMAIN job /\ job.out # <<"rate_limited">>
    BY <2>2 DEF Answers
  <2>3. ASSUME NEW o, StartCreate(r, o)
        PROVE  LET job == [pc |-> "issuing", owner |-> o] IN
               Moves(r, job) /\ "at" \notin DOMAIN job /\ job.pc # "done"
    BY <2>3 DEF StartCreate
  <2>4. ASSUME NEW k, StartRotate(r, k)
        PROVE  LET job == [pc |-> "retiring", key |-> k, row |-> keys[k]] IN
               Moves(r, job) /\ "at" \notin DOMAIN job /\ job.pc # "done"
    BY <2>4 DEF StartRotate
  <2>5. \/ Retire(r) \/ (\E o : StartCreate(r, o)) \/ (\E k : StartRotate(r, k))
        \/ \E out \in {<<"created">>, <<"updated">>, <<"revoked">>, <<"rotated">>, <<"server_error">>} :
             Answers(r, out)
    BY DEF ManageKeys, Issue, Update, Revoke, Reissue, ReissueFails
  <2> QED  BY <2>1, <2>2, <2>3, <2>4, <2>5
<1>3. PICK job : Moves(r, job) /\ "at" \notin DOMAIN job
                 /\ ~(job.pc = "done" /\ job.out = <<"rate_limited">>)
  BY <1>2
<1>4. \A q \in Callers : Stays(q) /\ (Limited(q)' => Limited(q)) /\ (q # r => (Counts(q)' <=> Counts(q)))
  BY <1>0, <1>1, <1>3, StepStays
<1>5. ~Counts(r)'
  BY <1>0, <1>3, MovedAt DEF Counts
<1>6. UNCHANGED <<buckets, now>>
  BY DEF ManageKeys, StartCreate, Issue, Update, Revoke, StartRotate, Reissue, ReissueFails, Retire
<1>7. now <= now'
  BY <1>0, <1>6 DEF Inv, ApiTypeOK, Times
<1> QED  BY <1>4, <1>5, <1>6, <1>7, QuietKeeps

LEMMA OthersKeepBusy ==
  ASSUME BusyInv, Inv', (\E o \in Owners : SetOwner(o)) \/ ApiTick \/ ApiCrash
  PROVE  BusyInv'
<1>0. Inv /\ now \in Nat /\ Window \in Nat
  BY DEF BusyInv, Inv, ApiTypeOK, Times
<1>1. CASE (\E o \in Owners : SetOwner(o)) \/ ApiTick
  <2>1. UNCHANGED <<caller, buckets>> /\ now <= now'
    BY <1>0, <1>1 DEF SetOwner, ApiTick
  <2>2. \A q \in Callers : Stays(q) /\ (Limited(q)' => Limited(q)) /\ (Counts(q)' => Counts(q))
    BY <2>1 DEF Stays, Limited, Counts
  <2> QED  BY <2>1, <2>2, QuietKeeps
<1>2. CASE ApiCrash
  <2>1. \A q \in Callers : caller'[q] = CutOff(q)
    BY <1>2 DEF ApiCrash, CutOff
  <2>2. ASSUME NEW q \in Callers
        PROVE  Stays(q) /\ (Limited(q)' => Limited(q)) /\ (Counts(q)' => Counts(q))
    <3>0. caller[q] \in Job
      BY <1>0, JobTyped DEF Inv
    <3>1. CASE caller[q].pc \in {"new", "done"}
      BY <2>1, <3>1 DEF CutOff, Stays, Limited, Counts
    <3>2. CASE caller[q].pc = "recording"
      <4>1. caller[q] \in Reply
        BY <3>0, <3>2, Shapes
      <4>2. caller'[q] = [caller[q] EXCEPT !.pc = "done"]
        BY <2>1, <3>2 DEF CutOff
      <4>3. /\ "at" \in DOMAIN caller[q] /\ "at" \in DOMAIN caller'[q]
            /\ caller'[q].at = caller[q].at /\ caller'[q].call = caller[q].call
            /\ caller'[q].out # <<"rate_limited">>
        BY <4>1, <4>2 DEF Reply, Given
      <4> QED  BY <3>2, <4>3 DEF Stays, Limited, Counts
    <3>3. CASE caller[q].pc \notin {"new", "done", "recording"} /\ Counts(q)
      <4>1. caller'[q] = [pc |-> "done", out |-> <<"lost">>, call |-> caller[q].call, at |-> caller[q].at]
        BY <2>1, <3>3 DEF CutOff
      <4>2. <<"lost">> # <<"rate_limited">>
        OBVIOUS
      <4> QED  BY <3>3, <4>1, <4>2 DEF Stays, Limited, Counts
    <3>4. CASE caller[q].pc \notin {"new", "done", "recording"} /\ ~Counts(q)
      <4>1. caller'[q] = [pc |-> "done", out |-> <<"lost">>]
        BY <2>1, <3>4 DEF CutOff
      <4>2. <<"lost">> # <<"rate_limited">>
        OBVIOUS
      <4> QED  BY <3>4, <4>1, <4>2 DEF Stays, Limited, Counts
    <3> QED  BY <3>1, <3>2, <3>3, <3>4
  <2>3. ASSUME NEW k \in KeyIds  PROVE BucketFits(k)'
    <3>1. buckets'[k].count = 0 /\ buckets'[k].resetAt = 0 /\ now' = now
      BY <1>2 DEF ApiCrash, EmptyBucket
    <3>2. InWindow(k)' \in SUBSET Callers
      BY DEF InWindow
    <3>3. Cardinality(InWindow(k)') \in Nat
      BY <3>2, FS_Subset, FS_CardinalityType
    <3> QED  BY <1>0, <3>1, <3>3 DEF BucketFits
  <2>4. \A q \in Callers : Counts(q)' => caller'[q].at <= now'
    BY <1>2, <2>2 DEF ApiCrash, Stays, BusyInv
  <2>5. \A q \in Callers : Limited(q)' => Crowded(q)'
    BY <1>0, <2>2, CrowdedStays DEF BusyInv
  <2> QED  BY <2>3, <2>4, <2>5 DEF BusyInv
<1> QED  BY <1>1, <1>2

LEMMA NextKeepsBusy == BusyInv /\ [ApiNext]_apiVars => BusyInv'
<1> SUFFICES ASSUME BusyInv, [ApiNext]_apiVars  PROVE BusyInv'
  OBVIOUS
<1>1. Inv'
  BY NextKeeps DEF BusyInv
<1>2. CASE UNCHANGED apiVars
  <2>1. \A q \in Callers : Stays(q) /\ (Limited(q)' => Limited(q)) /\ (Counts(q)' => Counts(q))
    BY <1>2 DEF apiVars, Stays, Limited, Counts
  <2>2. UNCHANGED buckets /\ now <= now'
    BY <1>2 DEF apiVars, BusyInv, Inv, ApiTypeOK, Times
  <2> QED  BY <1>1, <2>1, <2>2, QuietKeeps
<1> QED  BY <1>1, <1>2, CallKeepsBusy, ManageKeepsBusy, OthersKeepBusy DEF ApiNext

LEMMA InitBusy == ApiInit => BusyInv
<1> SUFFICES ASSUME ApiInit  PROVE BusyInv
  OBVIOUS
<1>1. \A r \in Callers : ~Counts(r) /\ ~Limited(r)
  BY DEF ApiInit, NewRequest, Counts, Limited
<1>2. ASSUME NEW k \in KeyIds  PROVE BucketFits(k)
  <2>1. buckets[k].count = 0 /\ buckets[k].resetAt = 0 /\ now = 0 /\ Window \in Nat
    BY DEF ApiInit, EmptyBucket
  <2> QED  BY <2>1, WindowFinite DEF BucketFits
<1> QED  BY <1>1, <1>2, InitInv DEF BusyInv

(* A request that is turned away for its rate shares the length of a window *)
(* with as many others of its key as the key may make, one of which was let *)
(* in: refused requests count too, but keep nobody out for longer than a    *)
(* window, whatever keys are changed and however often the process dies     *)
(* (rateCheck, apiKeyMiddleware.js).                                        *)
THEOREM BusyWait == ApiSpec => []OnlyTheBusyWait
<1>1. BusyInv => OnlyTheBusyWait
  <2> SUFFICES ASSUME BusyInv, NEW r \in Callers, Limited(r)
               PROVE  /\ Cardinality(Before(r)) >= caller[r].limit
                      /\ \E q \in Before(r) : caller[q].pc = "done" => caller[q].out # <<"rate_limited">>
    BY DEF OnlyTheBusyWait, Before, Limited
  <2> QED  BY DEF BusyInv, Crowded, Limited
<1> QED  BY <1>1, InitBusy, NextKeepsBusy, PTL DEF ApiSpec
===============================================================================
