------------------------------ MODULE PartnerApi ------------------------------
(***************************************************************************)
(* The partners' door to the API.  A request carries a token (a session's  *)
(* JWT or an API key) and perhaps an Idempotency-Key.  It is authenticated *)
(* against the row of its key, counted against the key's rate, checked for *)
(* the route's scope and, on the routes that write, made safe to retry by  *)
(* the table idempotency_keys; then the route's handler runs.  Meanwhile   *)
(* administrators create, change, revoke and rotate keys and disable their *)
(* owners.  A request is cut at its awaits; the web process may die.       *)
(***************************************************************************)
EXTENDS Naturals, FiniteSets

CONSTANTS
  KeyIds,     \* api_keys.id; who knows the secret knows the id
  Issued,     \* the keys there are at the start
  Owners,     \* users who own keys
  Session,    \* the token of a logged-in user
  Routes,     \* the routes with an idempotency(...) of their own; also their scope
  Idems,      \* values of the header Idempotency-Key
  NoIdem,     \* ... and its absence
  Bodies,
  Calls,      \* what partners send
  Callers,   \* the requests, each one is made once
  DefaultRate, Window,  \* requests per window, its length
  Never,      \* NULL in expires_at
  MaxTime, MaxFailures  \* bounds, for model checking

ASSUME PartnerApiAssumption ==
  /\ IsFiniteSet(Callers)
  /\ Calls \subseteq [token : KeyIds \cup {Session}, inside : BOOLEAN, route : Routes,
                      idem : Idems \cup {NoIdem}, body : Bodies]
  /\ Issued \subseteq KeyIds /\ Session \notin KeyIds /\ NoIdem \notin Idems
  /\ Never \notin Nat /\ Owners # {}
  /\ DefaultRate \in Nat \ {0} /\ Window \in Nat \ {0} /\ MaxTime \in Nat /\ MaxFailures \in Nat

Times == 0 .. MaxTime
Slots == Routes \X Idems   \* UNIQUE (scope, idempotency_key)

VARIABLES
  keys,      \* table api_keys
  disabled,  \* owners whose status is not 'active'
  buckets,   \* rateBuckets, of the web process
  idem,      \* table idempotency_keys
  effects,   \* how often a handler has done its work for a slot
  caller,    \* the requests' local variables
  now,
  failures   \* failed statements and crashes so far

apiVars == <<keys, disabled, buckets, idem, effects, caller, now, failures>>

Absent == [status |-> "none"]
NewRequest == [pc |-> "new"]
EmptyBucket == [resetAt |-> 0, count |-> 0]

(* A row of api_keys; from: the key it was rotated from, or itself.         *)
KeyRow(owner, scopes, fenced, rate, expires, from) ==
  [status |-> "active", owner |-> owner, scopes |-> scopes, fenced |-> fenced,
   rate |-> rate, expires |-> expires, from |-> from]

ApiInit ==
  /\ \E o \in Owners :
       keys = [k \in KeyIds |-> IF k \in Issued THEN KeyRow(o, Routes, FALSE, DefaultRate, Never, k)
                               ELSE Absent]
  /\ disabled = {}
  /\ buckets = [k \in KeyIds |-> EmptyBucket]
  /\ idem = [x \in Slots |-> Absent]
  /\ effects = [x \in Slots |-> 0]
  /\ caller = [r \in Callers |-> NewRequest]
  /\ now = 0 /\ failures = 0

ApiFault == failures < MaxFailures /\ failures' = failures + 1
Moves(r, job) == caller' = [caller EXCEPT ![r] = job]
Answers(r, out) == Moves(r, [pc |-> "done", out |-> out])
Slot(c) == <<c.route, c.idem>>

-----------------------------------------------------------------------------
(* Authentication: authenticateAny and requireScope                         *)

(* A request arrives.  late: its key has been revoked by then.              *)
Arrive(r, c) ==
  /\ caller[r] = NewRequest
  /\ c.token \in KeyIds => keys[c.token] # Absent
  /\ Moves(r, [pc |-> "looking", call |-> c,
               late |-> c.token \in KeyIds /\ keys[c.token].status = "revoked"])
  /\ UNCHANGED <<keys, disabled, buckets, idem, effects, now, failures>>

(* The checks on the row of a key, before the request is counted.           *)
Refused(row, c) ==
  \/ row.status # "active"
  \/ row.expires # Never /\ row.expires < now
  \/ row.owner \in disabled
  \/ row.fenced /\ ~c.inside   \* ipMatchesAllowlist

(* faulty: the window slides on with every request                          *)
CountedSliding(b) ==
  IF now >= b.resetAt THEN [resetAt |-> now + Window, count |-> 1]
  ELSE [resetAt |-> now + Window, count |-> b.count + 1]

(* rateCheck: a fixed window, that counts the refused requests too.         *)
Counted(b) ==
  IF now >= b.resetAt THEN [resetAt |-> now + Window, count |-> 1]
  ELSE [b EXCEPT !.count = @ + 1]

Admitted(r) ==
  Moves(r, [pc |-> IF caller[r].call.idem = NoIdem THEN "running" ELSE "claiming",
            call |-> caller[r].call, late |-> caller[r].late, at |-> now])

TurnedAway(r, why, limit) ==
  Moves(r, [pc |-> "done", out |-> why, call |-> caller[r].call, at |-> now, limit |-> limit])

(* From the row of the key on there is no await until the handler, or the   *)
(* idempotency middleware, begins.                                          *)
Authenticate(r) ==
  LET c == caller[r].call
      row == keys[c.token]
      b == Counted(buckets[c.token])
  IN
  /\ caller[r].pc = "looking"
  /\ \/ c.token = Session
        /\ Admitted(r) /\ UNCHANGED buckets
     \/ c.token \in KeyIds /\ Refused(row, c)
        /\ Answers(r, <<"refused">>) /\ UNCHANGED buckets
     \/ c.token \in KeyIds /\ ~Refused(row, c)
        /\ buckets' = [buckets EXCEPT ![c.token] = b]
        /\ IF b.count > row.rate
           THEN TurnedAway(r, <<"rate_limited">>, row.rate)
           ELSE IF c.route \in row.scopes THEN Admitted(r)
           ELSE TurnedAway(r, <<"insufficient_scope">>, row.rate)
  /\ UNCHANGED <<keys, disabled, idem, effects, now, failures>>

-----------------------------------------------------------------------------
(* Idempotency                                                              *)

InProgress(c) == [status |-> "in_progress", body |-> c.body]

(* faulty: a row that is there is not noticed when the body is the same     *)
ClaimLoose(r) ==
  LET c == caller[r].call IN
  /\ caller[r].pc = "claiming"
  /\ IF idem[Slot(c)] = Absent \/ idem[Slot(c)] = InProgress(c)
     THEN idem' = [idem EXCEPT ![Slot(c)] = InProgress(c)] /\ Moves(r, [caller[r] EXCEPT !.pc = "running"])
     ELSE Moves(r, [caller[r] EXCEPT !.pc = "replaying"]) /\ UNCHANGED idem
  /\ UNCHANGED <<keys, disabled, buckets, effects, now, failures>>

(* The INSERT decides who runs.                                             *)
Claim(r) ==
  LET c == caller[r].call IN
  /\ caller[r].pc = "claiming"
  /\ IF idem[Slot(c)] = Absent
     THEN idem' = [idem EXCEPT ![Slot(c)] = InProgress(c)] /\ Moves(r, [caller[r] EXCEPT !.pc = "running"])
     ELSE Moves(r, [caller[r] EXCEPT !.pc = "replaying"]) /\ UNCHANGED idem
  /\ UNCHANGED <<keys, disabled, buckets, effects, now, failures>>

(* What the row says to a request that came second.                         *)
AnswerOf(row, c) ==
  IF row.body # c.body THEN <<"key_reuse">>
  ELSE IF row.status = "in_progress" THEN <<"in_progress">>
  ELSE row.answer

(* replayOrReject.                                                          *)
Replay(r) ==
  LET c == caller[r].call IN
  /\ caller[r].pc = "replaying"
  /\ Moves(r, [pc |-> "done", out |-> AnswerOf(idem[Slot(c)], c), call |-> c, late |-> caller[r].late,
               at |-> caller[r].at])
  /\ UNCHANGED <<keys, disabled, buckets, idem, effects, now, failures>>

(* The handler does its work, once.                                         *)
Work(r) ==
  LET c == caller[r].call IN
  /\ caller[r].pc = "running"
  /\ effects' = IF c.idem = NoIdem THEN effects ELSE [effects EXCEPT ![Slot(c)] = @ + 1]
  /\ Moves(r, [caller[r] EXCEPT !.pc = "worked"])
  /\ UNCHANGED <<keys, disabled, buckets, idem, now, failures>>

(* It answers: done, or refused without having done anything, or an error   *)
(* before or after its work.  The answer bears who gave it.                 *)
Respond(r, status) ==
  /\ caller[r].pc \in (IF status = "completed" THEN {"worked"} ELSE {"running", "worked"})
  /\ Moves(r, [pc |-> IF caller[r].call.idem = NoIdem THEN "done" ELSE "recording",
               out |-> <<status, r>>, call |-> caller[r].call, late |-> caller[r].late, at |-> caller[r].at])
  /\ UNCHANGED <<keys, disabled, buckets, idem, effects, now, failures>>

(* The patched res.json: the answer is sent while it is being recorded.     *)
Record(r) ==
  LET c == caller[r].call IN
  /\ caller[r].pc = "recording"
  /\ idem' = [idem EXCEPT ![Slot(c)] =
       [status |-> caller[r].out[1], body |-> @.body, answer |-> caller[r].out]]
  /\ Moves(r, [caller[r] EXCEPT !.pc = "done"])
  /\ UNCHANGED <<keys, disabled, buckets, effects, now, failures>>

(* The row stays 'in_progress'.                                             *)
AnswerNotRecorded(r) ==
  /\ caller[r].pc = "recording" /\ ApiFault
  /\ Moves(r, [caller[r] EXCEPT !.pc = "done"])
  /\ UNCHANGED <<keys, disabled, buckets, idem, effects, now>>

-----------------------------------------------------------------------------
(* The administration of keys                                               *)

(* createApiKey: the owner is read first.                                   *)
StartCreate(r, owner) ==
  /\ caller[r] = NewRequest
  /\ owner \notin disabled
  /\ Moves(r, [pc |-> "issuing", owner |-> owner])
  /\ UNCHANGED <<keys, disabled, buckets, idem, effects, now, failures>>

Issue(r, k, scopes, fenced, rate, expires) ==
  /\ caller[r].pc = "issuing" /\ keys[k] = Absent
  /\ keys' = [keys EXCEPT ![k] = KeyRow(caller[r].owner, scopes, fenced, rate, expires, k)]
  /\ Answers(r, <<"created">>)
  /\ UNCHANGED <<disabled, buckets, idem, effects, now, failures>>

(* updateApiKeyController: any of these columns, also of a revoked key.     *)
Update(r, k, row) ==
  /\ caller[r] = NewRequest
  /\ keys[k] # Absent
  /\ keys' = [keys EXCEPT ![k] = row]
  /\ Answers(r, <<"updated">>)
  /\ UNCHANGED <<disabled, buckets, idem, effects, now, failures>>

(* revokeApiKeyController.                                                  *)
Revoke(r, k) ==
  /\ caller[r] = NewRequest
  /\ keys[k] # Absent
  /\ keys' = [keys EXCEPT ![k].status = "revoked"]
  /\ Answers(r, <<"revoked">>)
  /\ UNCHANGED <<disabled, buckets, idem, effects, now, failures>>

(* rotateApiKeyController: three statements, no transaction.                *)
StartRotate(r, k) ==
  /\ caller[r] = NewRequest
  /\ keys[k] # Absent
  /\ Moves(r, [pc |-> "retiring", key |-> k, row |-> keys[k]])
  /\ UNCHANGED <<keys, disabled, buckets, idem, effects, now, failures>>

(* faulty: the old key is left to be revoked after the new one is issued    *)
RetireLater(r) ==
  /\ caller[r].pc = "retiring"
  /\ Moves(r, [caller[r] EXCEPT !.pc = "reissuing"])
  /\ UNCHANGED <<keys, disabled, buckets, idem, effects, now, failures>>

Retire(r) ==
  /\ caller[r].pc = "retiring"
  /\ keys' = [keys EXCEPT ![caller[r].key].status = "revoked"]
  /\ Moves(r, [caller[r] EXCEPT !.pc = "reissuing"])
  /\ UNCHANGED <<disabled, buckets, idem, effects, now, failures>>

(* The new row is a copy of the row that was read, with status 'active'.    *)
Reissue(r, k) ==
  /\ caller[r].pc = "reissuing" /\ keys[k] = Absent
  /\ keys' = [keys EXCEPT ![k] = [caller[r].row EXCEPT !.status = "active", !.from = caller[r].key]]
  /\ Answers(r, <<"rotated">>)
  /\ UNCHANGED <<disabled, buckets, idem, effects, now, failures>>

(* The insert fails: the key has been revoked and nothing replaces it.      *)
ReissueFails(r) ==
  /\ caller[r].pc \in {"issuing", "reissuing"} /\ ApiFault
  /\ Answers(r, <<"server_error">>)
  /\ UNCHANGED <<keys, disabled, buckets, idem, effects, now>>

(* changeUserStatus of an owner.                                            *)
SetOwner(owner) ==
  /\ failures < MaxFailures /\ failures' = failures + 1   \* counted, to bound it
  /\ disabled' = IF owner \in disabled THEN disabled \ {owner} ELSE disabled \cup {owner}
  /\ UNCHANGED <<keys, buckets, idem, effects, caller, now>>

-----------------------------------------------------------------------------
(* The request has been counted against its key's rate, if it has one.      *)
Counts(r) == "at" \in DOMAIN caller[r]

ApiTick ==
  /\ now < MaxTime
  /\ now' = now + 1
  /\ UNCHANGED <<keys, disabled, buckets, idem, effects, caller, failures>>

(* The web process dies: its counters and what is in progress are gone.     *)
ApiCrash ==
  /\ ApiFault
  /\ buckets' = [k \in KeyIds |-> EmptyBucket]
  /\ caller' = [r \in Callers |-> IF caller[r].pc \in {"new", "done"} THEN caller[r]
                                ELSE IF caller[r].pc = "recording" THEN [caller[r] EXCEPT !.pc = "done"]
                                ELSE IF Counts(r) THEN [pc |-> "done", out |-> <<"lost">>,
                                                        call |-> caller[r].call, at |-> caller[r].at]
                                ELSE [pc |-> "done", out |-> <<"lost">>]]
  /\ UNCHANGED <<keys, disabled, idem, effects, now>>

(* The rows an update may leave: a new rate, expiry, list of scopes or of   *)
(* addresses.                                                               *)
Edited(row) ==
  {[row EXCEPT !.rate = n] : n \in {DefaultRate, DefaultRate + 1}}
  \cup {[row EXCEPT !.expires = t] : t \in Times \cup {Never}}
  \cup {[row EXCEPT !.scopes = {s}] : s \in Routes}
  \cup {[row EXCEPT !.fenced = f] : f \in BOOLEAN}

CallApi(r) ==
  \/ \E c \in Calls : Arrive(r, c)
  \/ Authenticate(r) \/ Claim(r) \/ Replay(r) \/ Work(r)
  \/ \E status \in {"completed", "failed"} : Respond(r, status)
  \/ Record(r) \/ AnswerNotRecorded(r)

ManageKeys(r) ==
  \/ \E o \in Owners : StartCreate(r, o)
  \/ \E k \in KeyIds, s \in Routes, f \in BOOLEAN, t \in Times \cup {Never} :
       Issue(r, k, {s}, f, DefaultRate, t)
  \/ \E k \in KeyIds : keys[k] # Absent /\ \E row \in Edited(keys[k]) : Update(r, k, row)
  \/ \E k \in KeyIds : Revoke(r, k) \/ StartRotate(r, k) \/ Reissue(r, k)
  \/ Retire(r) \/ ReissueFails(r)

ApiNext ==
  \/ \E r \in Callers : CallApi(r) \/ ManageKeys(r)
  \/ \E o \in Owners : SetOwner(o)
  \/ ApiTick \/ ApiCrash

ApiSpec == ApiInit /\ [][ApiNext]_apiVars

-----------------------------------------------------------------------------
(* What is promised                                                         *)

ApiKey == [status : {"active", "revoked"}, owner : Owners, scopes : SUBSET Routes,
           fenced : BOOLEAN, rate : Nat \ {0}, expires : Times \cup {Never}, from : KeyIds]

Given == {"completed", "failed"} \X Callers   \* an answer bears who gave it

IdemRow ==
  [status : {"in_progress"}, body : Bodies]
  \cup [status : {"completed", "failed"}, body : Bodies, answer : Given]

(* Where the requests of partners are, and how they end.                    *)
Looking == [pc : {"looking"}, call : Calls, late : BOOLEAN]
Admission == [pc : {"claiming", "replaying", "running", "worked"}, call : Calls, late : BOOLEAN,
              at : Times]
Reply == [pc : {"recording", "done"}, out : Given \cup {<<"key_reuse">>, <<"in_progress">>},
          call : Calls, late : BOOLEAN, at : Times]
Rejection == [pc : {"done"}, out : {<<"rate_limited">>, <<"insufficient_scope">>}, call : Calls,
              at : Times, limit : Nat \ {0}]
Loss == [pc : {"done"}, out : {<<"lost">>}, call : Calls, at : Times]

(* ... and those of administrators, with all that end before they count.    *)
Issuing == [pc : {"issuing"}, owner : Owners]
Rotation == [pc : {"retiring", "reissuing"}, key : KeyIds, row : ApiKey]
End == [pc : {"done"},
        out : {<<"refused">>, <<"created">>, <<"updated">>, <<"revoked">>, <<"rotated">>,
               <<"server_error">>, <<"lost">>}]

(* Every table and every request has its shape.                             *)
ApiTypeOK ==
  /\ keys \in [KeyIds -> ApiKey \cup {Absent}]
  /\ disabled \subseteq Owners
  /\ buckets \in [KeyIds -> [resetAt : Nat, count : Nat]]
  /\ idem \in [Slots -> IdemRow \cup {Absent}]
  /\ effects \in [Slots -> Nat]
  /\ caller \in [Callers -> {NewRequest} \cup Looking \cup Admission \cup Reply \cup Rejection
                            \cup Loss \cup Issuing \cup Rotation \cup End]
  /\ now \in Times /\ failures \in 0 .. MaxFailures

(* Whatever retries, overlaps, failed records and crashes there are, a      *)
(* handler does its work at most once for an Idempotency-Key of its route.  *)
AtMostOnce == \A x \in Slots : effects[x] <= 1

Answered(r) == caller[r].pc \in {"recording", "done"} /\ caller[r].out[1] \in {"completed", "failed"}

(* All who were given an answer for the same key of the same route were     *)
(* given the same one, and had sent the same body.                          *)
SameAnswer ==
  \A r, q \in Callers :
    Answered(r) /\ Answered(q) /\ Slot(caller[r].call) = Slot(caller[q].call) /\ caller[r].call.idem # NoIdem
      => caller[r].out = caller[q].out /\ caller[r].call.body = caller[q].call.body

(* An Idempotency-Key stands for one effect and one answer.                 *)
OncePerKey == AtMostOnce /\ SameAnswer

(* A request that arrives when its key has been revoked, by a revocation or *)
(* by a rotation, changes nothing and learns nothing.                       *)
RevokedStaysOut ==
  \A r \in Callers :
    caller[r].pc \in {"claiming", "replaying", "running", "worked", "recording"} \/ (caller[r].pc = "done" /\ Answered(r))
      => ~caller[r].late

(* A key that replaces another finds it revoked: a rotated secret never     *)
(* works beside its successor, whatever rotations and updates overlap and   *)
(* wherever a rotation is cut.                                              *)
RotationReplaces ==
  \A k \in KeyIds : keys[k] # Absent /\ keys[k].from # k => keys[keys[k].from].status = "revoked"

(* A key that is revoked or replaced has come to its end.                   *)
RevokedKeysEnd == RevokedStaysOut /\ RotationReplaces

(* Who is turned away for its rate shares the last window's length with as  *)
(* many requests of the same key as the rate allows, one of which was let   *)
(* in: callers that keep asking are not locked out for longer than a        *)
(* window, although the requests that are refused are counted as well.      *)
OnlyTheBusyWait ==
  \A r \in Callers :
    caller[r].pc = "done" /\ caller[r].out = <<"rate_limited">> =>
      LET others == {q \in Callers \ {r} : Counts(q) /\ caller[q].call.token = caller[r].call.token
                                            /\ caller[q].at <= caller[r].at /\ caller[q].at + Window > caller[r].at}
      IN /\ Cardinality(others) >= caller[r].limit
         /\ \E q \in others : caller[q].pc = "done" => caller[q].out # <<"rate_limited">>
=============================================================================
