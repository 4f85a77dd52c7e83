------------------------------- MODULE Settings -------------------------------
(***************************************************************************)
(* Data that administrators edit and every request reads through a cache:  *)
(* the settings (app_settings), or the zones of the countries; a behaviour *)
(* is about one of them.  Each web worker has a cache of its own.  A save  *)
(* writes row by row in one transaction, then empties the cache of its     *)
(* worker; the other workers notice when their copy has expired.  Settings *)
(* collapse the loads of a worker into one and survive a load that fails;  *)
(* zones do neither.                                                       *)
(***************************************************************************)
EXTENDS Naturals, Sequences

CONSTANTS
  Keys,       \* setting_key, or groups of countries
  Secrets,    \* the keys that are secret
  Token,      \* whatsapp.verify_token
  Forms,      \* what administrators send: sequences of [key, what]
  ZoneForms,  \* what they send about zones
  Workers,    \* web processes
  Tasks,      \* requests
  Home,       \* the worker that handles a request
  Savers,     \* the requests that save, the others read
  Nil,        \* no value, no cache, no load, no holder
  Factory,    \* who wrote what the database was installed with
  TTL,
  LastTime, MaxFailedStatements   \* bounds, for model checking

ASSUME SettingsAssumption ==
  /\ Secrets \subseteq Keys /\ Token \in Secrets /\ Savers \subseteq Tasks
  /\ Forms \cup ZoneForms \subseteq Seq([key : Keys, what : {"value", "blank", "null", "invalid"}])
  /\ Home \in [Tasks -> Workers]
  /\ Nil \notin Tasks /\ Factory \notin Tasks
  /\ TTL \in Nat \ {0} /\ LastTime \in Nat /\ MaxFailedStatements \in Nat

VARIABLES
  stored,    \* what is saved and read: "settings" or "zones"
  values,    \* the table: who wrote the value of a key
  lock,      \* the transaction that holds the row of a key
  past,      \* the committed tables and when they were committed
  cache,     \* cache and cachedAt of each worker
  inFlight,  \* the request whose load the others of its worker join
  task,      \* the requests' local variables
  own,       \* the last save whose worker has emptied its cache
  served,    \* the newest table a worker has handed out
  time,
  failedStatements   \* so far

settingVars == <<stored, values, lock, past, cache, inFlight, task, own, served, time, failedStatements>>

SettingsInit ==
  /\ stored \in {"settings", "zones"}
  /\ values = [k \in Keys |-> Factory]
  /\ lock = [k \in Keys |-> Nil]
  /\ past = <<[table |-> values, at |-> 0]>>
  /\ cache = [w \in Workers |-> Nil]
  /\ inFlight = [w \in Workers |-> Nil]
  /\ task = [t \in Tasks |-> [pc |-> "new"]]
  /\ own = [w \in Workers |-> 0]
  /\ served = [w \in Workers |-> 0]
  /\ time = 0 /\ failedStatements = 0

StatementFault == failedStatements < MaxFailedStatements /\ failedStatements' = failedStatements + 1
Acts(t, job) == task' = [task EXCEPT ![t] = job]

-----------------------------------------------------------------------------
(* Saving                                                                   *)

(* What a form asks to be written: a blank secret keeps what is stored.     *)
Entries(form) == SelectSeq(form, LAMBDA e : ~(e.key \in Secrets /\ e.what = "blank"))

Saving(entries, form, brief) ==
  [pc |-> "saving", left |-> entries, written |-> values, keys |-> {}, form |-> form, brief |-> brief]

(* updateWhatsAppSettings, updatePlatformSettings: one invalid value        *)
(* refuses the form.                                                        *)
StartSave(t, form) ==
  /\ stored = "settings" /\ t \in Savers /\ task[t].pc = "new"
  /\ Acts(t, IF (\E i \in 1 .. Len(form) : form[i].what = "invalid") \/ Entries(form) = <<>>
             THEN [pc |-> "done"]
             ELSE Saving(Entries(form), form, FALSE))
  /\ UNCHANGED <<values, lock, past, cache, inFlight, own, served, time, failedStatements>>

(* regenerateVerifyToken                                                    *)
Renew(t) ==
  LET form == <<[key |-> Token, what |-> "value"]>> IN
  /\ stored = "settings" /\ t \in Savers /\ task[t].pc = "new"
  /\ Acts(t, Saving(form, form, TRUE))
  /\ UNCHANGED <<values, lock, past, cache, inFlight, own, served, time, failedStatements>>

(* The countries there are of those that were sent.                         *)
Known(form) == {form[i].key : i \in {j \in 1 .. Len(form) : form[j].what = "value"}}

(* assignZone: one statement for the countries there are; the unknown codes *)
(* are reported.                                                            *)
AssignZone(t, form) ==
  /\ stored = "zones" /\ t \in Savers /\ task[t].pc = "new"
  /\ values' = [k \in Keys |-> IF k \in Known(form) THEN t ELSE values[k]]
  /\ past' = IF Known(form) = {} THEN past ELSE Append(past, [table |-> values', at |-> time])
  /\ Acts(t, [pc |-> "saved", n |-> Len(past'), brief |-> TRUE])
  /\ UNCHANGED <<lock, cache, inFlight, own, served, time, failedStatements>>

(* A blank or null value is stored as NULL.                                 *)
Value(t, e) == IF e.what = "value" THEN t ELSE Nil

(* saveSettings writes a row, for which its transaction takes the lock.     *)
WriteRow(t) ==
  LET e == Head(task[t].left) IN
  /\ task[t].pc = "saving" /\ task[t].left # <<>>
  /\ lock[e.key] \in {Nil, t}
  /\ lock' = [lock EXCEPT ![e.key] = t]
  /\ Acts(t, [task[t] EXCEPT !.left = Tail(@), !.keys = @ \cup {e.key},
                             !.written = [@ EXCEPT ![e.key] = Value(t, e)]])
  /\ UNCHANGED <<values, past, cache, inFlight, own, served, time, failedStatements>>

Unlocked(t) == [k \in Keys |-> IF lock[k] = t THEN Nil ELSE lock[k]]

Commit(t) ==
  /\ task[t].pc = "saving" /\ task[t].left = <<>>
  /\ values' = [k \in Keys |-> IF k \in task[t].keys THEN task[t].written[k] ELSE values[k]]
  /\ lock' = Unlocked(t)
  /\ past' = Append(past, [table |-> values', at |-> time])
  /\ Acts(t, [pc |-> "saved", n |-> Len(past'), brief |-> task[t].brief])
  /\ UNCHANGED <<cache, inFlight, own, served, time, failedStatements>>

(* The two transactions wait for each other's rows.                         *)
Deadlocked(t, u) ==
  /\ task[t].pc = "saving" /\ task[u].pc = "saving" /\ t # u
  /\ task[t].left # <<>> /\ task[u].left # <<>>
  /\ lock[Head(task[t].left).key] = u /\ lock[Head(task[u].left).key] = t

(* A statement fails, or the database breaks a deadlock: the whole save is  *)
(* rolled back and refused.                                                 *)
RefuseSave(t) ==
  /\ task[t].pc = "saving"
  /\ \/ \E u \in Savers : Deadlocked(t, u) /\ UNCHANGED failedStatements
     \/ StatementFault
  /\ lock' = Unlocked(t)
  /\ Acts(t, [pc |-> "done"])
  /\ UNCHANGED <<values, past, cache, inFlight, own, served, time>>

(* invalidateSettings leaves a load that is in flight alone.  The answer to *)
(* a save reads the settings again, a renewed verify token and the zones do *)
(* not.                                                                     *)
Invalidate(t) ==
  LET w == Home[t] IN
  /\ task[t].pc = "saved"
  /\ cache' = [cache EXCEPT ![w] = Nil]
  /\ own' = [own EXCEPT ![w] = IF @ > task[t].n THEN @ ELSE task[t].n]
  /\ Acts(t, IF task[t].brief THEN [pc |-> "done"] ELSE [pc |-> "looking", forced |-> FALSE])
  /\ UNCHANGED <<values, lock, past, inFlight, served, time, failedStatements>>

-----------------------------------------------------------------------------
(* Reading                                                                  *)

Asks(t, forced) ==
  /\ t \notin Savers /\ task[t].pc = "new"
  /\ Acts(t, [pc |-> "looking", forced |-> forced])
  /\ UNCHANGED <<values, lock, past, cache, inFlight, own, served, time, failedStatements>>

(* A request of any kind needs the settings.                                *)
ReadSettings(t) == stored = "settings" /\ Asks(t, FALSE)

(* The settings screens force a load.                                       *)
ShowSettings(t) == stored = "settings" /\ Asks(t, TRUE)

(* The customer's country is looked up.                                     *)
ResolveZone(t) == stored = "zones" /\ Asks(t, FALSE)

Fresh(w) == cache[w] # Nil /\ time - cache[w].at < TTL

(* faulty: every request loads for itself                                   *)
JoinsNone(w) == FALSE

Joins(w) == stored = "settings" /\ inFlight[w] # Nil

(* What a request was handed: of which table, how and when; after: the last *)
(* save of its worker that was there when it asked.                         *)
Handed(copy, how, after) ==
  [pc |-> "handed", n |-> copy.n, table |-> copy.table, how |-> how, at |-> time, after |-> after]

(* loadSettings: the copy if it is fresh, or else a load.                   *)
Look(t) ==
  LET w == Home[t] IN
  /\ task[t].pc = "looking"
  /\ \/ /\ Fresh(w) /\ ~task[t].forced
        /\ Acts(t, Handed(cache[w], "cached", own[w]))
        /\ served' = [served EXCEPT ![w] = IF cache[w].n = 0 THEN @ ELSE cache[w].n]
        /\ UNCHANGED inFlight
     \/ /\ ~Fresh(w) \/ task[t].forced
        /\ IF Joins(w)
           THEN /\ Acts(t, [pc |-> "joined", load |-> inFlight[w], after |-> own[w]])
                /\ UNCHANGED inFlight
           ELSE /\ Acts(t, [pc |-> "loading", after |-> own[w]])
                /\ inFlight' = [inFlight EXCEPT ![w] = t]
        /\ UNCHANGED served
  /\ UNCHANGED <<values, lock, past, cache, own, time, failedStatements>>

(* The database answers the SELECT.                                         *)
Query(t) ==
  /\ task[t].pc = "loading"
  /\ Acts(t, [pc |-> "queried", after |-> task[t].after, copy |-> [n |-> Len(past), table |-> values]])
  /\ UNCHANGED <<values, lock, past, cache, inFlight, own, served, time, failedStatements>>

(* The load of t, and with it those that joined it, end with this copy.     *)
Finish(t, copy, how) ==
  LET w == Home[t] IN
  /\ task' = [u \in Tasks |->
       IF u = t \/ (task[u].pc = "joined" /\ task[u].load = t) THEN Handed(copy, how, task[u].after)
       ELSE task[u]]
  /\ served' = [served EXCEPT ![w] = IF copy.n = 0 THEN @ ELSE copy.n]
  /\ inFlight' = [inFlight EXCEPT ![w] = Nil]

(* The n-th table as it is kept from now on.                                *)
Copied(n, table) == [n |-> n, table |-> table, at |-> time]

Install(t) ==
  /\ task[t].pc = "queried"
  /\ cache' = [cache EXCEPT ![Home[t]] = Copied(task[t].copy.n, task[t].copy.table)]
  /\ Finish(t, task[t].copy, "loaded")
  /\ UNCHANGED <<values, lock, past, own, time, failedStatements>>

(* Every setting has its default.                                           *)
NoValues == [k \in Keys |-> Nil]

(* faulty: a copy that could not be renewed counts as fresh again           *)
FallbackRenewed(w) ==
  IF cache[w] = Nil THEN Copied(0, NoValues) ELSE [cache[w] EXCEPT !.at = time]

(* A load that fails leaves the copy there is, or else the defaults.        *)
Fallback(w) == IF cache[w] = Nil THEN Copied(0, NoValues) ELSE cache[w]

LoadFails(t) ==
  LET w == Home[t] IN
  /\ task[t].pc = "loading" /\ StatementFault
  /\ IF stored = "settings"
     THEN /\ cache' = [cache EXCEPT ![w] = Fallback(w)]
          /\ Finish(t, Fallback(w), "fallback")
     ELSE /\ Acts(t, [pc |-> "done"])
          /\ UNCHANGED <<cache, inFlight, served>>
  /\ UNCHANGED <<values, lock, past, own, time>>

(* A load takes less than a unit of time.                                   *)
SettingsTick ==
  /\ time < LastTime
  /\ \A t \in Tasks : task[t].pc \notin {"loading", "queried"}
  /\ time' = time + 1
  /\ UNCHANGED <<values, lock, past, cache, inFlight, task, own, served, failedStatements>>

SettingsNext ==
  /\ UNCHANGED stored
  /\ \/ \E t \in Tasks :
          \/ \E form \in Forms : StartSave(t, form)
          \/ \E form \in ZoneForms : AssignZone(t, form)
          \/ Renew(t) \/ ReadSettings(t) \/ ShowSettings(t) \/ ResolveZone(t)
          \/ WriteRow(t) \/ Commit(t) \/ RefuseSave(t) \/ Invalidate(t)
          \/ Look(t) \/ Query(t) \/ Install(t) \/ LoadFails(t)
     \/ SettingsTick

SettingsSpec == SettingsInit /\ [][SettingsNext]_settingVars

-----------------------------------------------------------------------------
(* What is promised                                                         *)

(* Rows are locked by the transactions that wrote them, a worker's load is  *)
(* run by a request of that worker, and a copy was read from some commit.   *)
SettingsTypeOK ==
  /\ \A k \in Keys : values[k] \in Savers \cup {Factory, Nil}
  /\ \A k \in Keys, t \in Savers : lock[k] = t <=> task[t].pc = "saving" /\ k \in task[t].keys
  /\ \A w \in Workers : cache[w] # Nil => cache[w].n \in 0 .. Len(past) /\ cache[w].at \in 0 .. time
  /\ stored = "settings" => \A w \in Workers, t \in Tasks :
       inFlight[w] = t <=> Home[t] = w /\ task[t].pc \in {"loading", "queried"}

WasHanded(t) == task[t].pc = "handed"

(* Whoever reads is handed one committed table, or the defaults: never half *)
(* of a save, whose keys (a phone number and its token) belong together,    *)
(* and nothing of one that was rolled back.                                 *)
NeverMixed ==
  \A t \in Tasks : WasHanded(t) =>
    task[t].table = IF task[t].n = 0 THEN NoValues ELSE past[task[t].n].table

(* A worker never hands out older settings than it did before, however      *)
(* loads, saves and failures overlap; the defaults of a failure aside.      *)
StepsForward == stored = "settings" => \A w \in Workers : served'[w] >= served[w]
NeverGoesBack == [][StepsForward]_served

(* What comes from a copy has every save that was committed TTL ago: the    *)
(* other workers follow within the promised time, failed loads in between   *)
(* or not.                                                                  *)
LiveWithinTTL ==
  \A t \in Tasks : WasHanded(t) /\ task[t].how = "cached" /\ task[t].n # 0 =>
    \A i \in 1 .. Len(past) : past[i].at + TTL <= task[t].at => i <= task[t].n

(* What is handed out is one table, and not an old one.                     *)
WholeAndRecent == NeverMixed /\ LiveWithinTTL

(* Saving is live for the worker that saved: who asks it after that is not  *)
(* handed older settings.  appSettings.js says so; no run checks it, as a   *)
(* load that was in flight when the cache was emptied breaks it.            *)
LiveWhereSaved == \A t \in Tasks : WasHanded(t) /\ task[t].n # 0 => task[t].n >= task[t].after
=============================================================================
