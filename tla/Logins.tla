-------------------------------- MODULE Logins --------------------------------
(***************************************************************************)
(* Passwords, one-time codes and tokens.  A token says who its bearer is   *)
(* and what his login was, for a day, whatever happens to the account.     *)
(* Whoever sets a password first proves something - the password before,   *)
(* or a code that was mailed - and then hashes for a quarter of a second:  *)
(* every proof is old when the password is written.                        *)
(***************************************************************************)
EXTENDS Naturals

CONSTANTS
  Users,      \* accounts that are agents
  Emails,     \* logins
  First,      \* the login each account starts with
  Attempts,   \* requests
  CodeTTL,    \* minutes a code is valid, in units of time
  MaxClock, MaxMoves, MaxLoginFaults   \* bounds, for model checking

ASSUME LoginsAssumption ==
  /\ First \in [Users -> Emails] /\ \A u, v \in Users : First[u] = First[v] => u = v
  /\ CodeTTL \in Nat /\ MaxClock \in Nat /\ MaxMoves \in Nat /\ MaxLoginFaults \in Nat

VARIABLES
  user,     \* users: email, whether the password is temporary, force_password_change
  codes,    \* password_resets
  tokens,   \* the tokens that were issued
  attempt,  \* the requests' local variables
  moves,    \* accounts whose login was changed so far, and how often
  clock,
  loginFaults  \* statements and mails that failed so far

loginVars == <<user, codes, tokens, attempt, moves, clock, loginFaults>>

(* An account starts with a password the office made up.                    *)
LoginsInit ==
  /\ user = [u \in Users |-> [email |-> First[u], temporary |-> TRUE, force |-> TRUE]]
  /\ codes = {} /\ tokens = {}
  /\ attempt = [t \in Attempts |-> [pc |-> "new"]]
  /\ moves = [u \in Users |-> 0]
  /\ clock = 0 /\ loginFaults = 0

Sets(t, job) == attempt' = [attempt EXCEPT ![t] = job]
At(t, pc) == attempt[t].pc = pc
Rejected == [pc |-> "done", how |-> "refused"]
Slips == loginFaults < MaxLoginFaults /\ loginFaults' = loginFaults + 1

(* The account behind a login, if there is one.                             *)
ByEmail(e) == {u \in Users : user[u].email = e}

Resets == {t \in Attempts : At(t, "done") /\ attempt[t].how = "reset"}

-----------------------------------------------------------------------------
(* Logging in                                                               *)

(* login: the account of an e-mail address, while bcrypt compares.          *)
LookUp(t, e) ==
  /\ At(t, "new")
  /\ Sets(t, IF ByEmail(e) = {} THEN Rejected
             ELSE LET u == CHOOSE v \in ByEmail(e) : TRUE IN [pc |-> "comparing", id |-> u, email |-> e])
  /\ UNCHANGED <<user, codes, tokens, moves, clock, loginFaults>>

(* A token, unless the password is wrong or the account revoked.            *)
LogIn(t, welcome) ==
  /\ At(t, "comparing")
  /\ tokens' = IF welcome THEN tokens \cup {[id |-> attempt[t].id, email |-> attempt[t].email]} ELSE tokens
  /\ Sets(t, IF welcome THEN [Rejected EXCEPT !.how = "in"] ELSE Rejected)
  /\ UNCHANGED <<user, codes, moves, clock, loginFaults>>

-----------------------------------------------------------------------------
(* Changing a password one knows                                            *)

(* What a change has proved: whose password it knew.                        *)
Proved(token, owner) == [pc |-> "proved", id |-> token.id, owner |-> owner, moves |-> moves]

(* /api/auth/change-password looks for the account by the token's e-mail.   *)
ChangePassword(t, token, knows) ==
  /\ At(t, "new") /\ token \in tokens
  /\ Sets(t, IF ByEmail(token.email) = {} \/ ~knows THEN Rejected
             ELSE Proved(token, CHOOSE v \in ByEmail(token.email) : TRUE))
  /\ UNCHANGED <<user, codes, tokens, moves, clock, loginFaults>>

(* The two /change-password routes of profiles look for it by the token's id*)
ChangeInProfile(t, token, knows) ==
  /\ At(t, "new") /\ token \in tokens
  /\ Sets(t, IF knows THEN Proved(token, token.id) ELSE Rejected)
  /\ UNCHANGED <<user, codes, tokens, moves, clock, loginFaults>>

Changed(t) == [pc |-> "done", how |-> "changed", id |-> attempt[t].id,
               owner |-> attempt[t].owner, moves |-> attempt[t].moves]

(* updatePassword                                                           *)
UpdatePassword(t) ==
  /\ At(t, "proved")
  /\ user' = [user EXCEPT ![attempt[t].id] =
                [@ EXCEPT !.temporary = FALSE, !.force = FALSE]]
  /\ Sets(t, Changed(t))
  /\ UNCHANGED <<codes, tokens, moves, clock, loginFaults>>

-----------------------------------------------------------------------------
(* Resetting a password one has forgotten                                   *)

(* forgotPassword looks for the account.                                    *)
Forgot(t, e) ==
  /\ At(t, "new")
  /\ Sets(t, IF ByEmail(e) = {} THEN Rejected ELSE [pc |-> "known", email |-> e])
  /\ UNCHANGED <<user, codes, tokens, moves, clock, loginFaults>>

(* The code is stored, then mailed; it counts whether the mail leaves or    *)
(* not.  for, moves, after: the account it was meant for, and when.         *)
StoreCode(t) ==
  /\ At(t, "known")
  /\ codes' = codes \cup {[code |-> t, email |-> attempt[t].email, until |-> clock + CodeTTL,
                           for |-> ByEmail(attempt[t].email), moves |-> moves, after |-> Resets]}
  /\ Sets(t, [pc |-> "done", how |-> "mailed"])
  /\ UNCHANGED <<user, tokens, moves, clock, loginFaults>>

(* faulty: the code alone decides                                           *)
ValidForAll(c, e) == c.until > clock

Valid(c, e) == c.email = e /\ c.until > clock

(* resetPassword looks for the code, then hashes the password.              *)
PresentCode(t, c, e) ==
  /\ At(t, "new") /\ c \in codes
  /\ Sets(t, IF Valid(c, e) THEN [pc |-> "presented", with |-> c, email |-> e, after |-> Resets]
             ELSE Rejected)
  /\ UNCHANGED <<user, codes, tokens, moves, clock, loginFaults>>

(* A code nobody has, or a password that is too weak.                       *)
RefuseReset(t) ==
  /\ At(t, "new") \/ At(t, "presented")
  /\ Sets(t, Rejected)
  /\ UNCHANGED <<user, codes, tokens, moves, clock, loginFaults>>

(* The password of whoever has the e-mail address now.                        *)
ResetPassword(t) ==
  LET e == attempt[t].email IN
  /\ At(t, "presented")
  /\ user' = [u \in Users |-> IF user[u].email = e
                              THEN [user[u] EXCEPT !.temporary = FALSE, !.force = FALSE]
                              ELSE user[u]]
  /\ Sets(t, [pc |-> "written", with |-> attempt[t].with, email |-> e,
              after |-> attempt[t].after, ids |-> ByEmail(e)])
  /\ UNCHANGED <<codes, tokens, moves, clock, loginFaults>>

(* All codes of the e-mail address, later ones too.                         *)
UsedUp(t) == {c \in codes : c.email = attempt[t].email}

DeleteCodes(t) ==
  /\ At(t, "written")
  /\ codes' = codes \ UsedUp(t)
  /\ Sets(t, [pc |-> "done", how |-> "reset", with |-> attempt[t].with, email |-> attempt[t].email,
              after |-> attempt[t].after, ids |-> attempt[t].ids])
  /\ UNCHANGED <<user, tokens, moves, clock, loginFaults>>

(* verifyResetCode only looks.                                              *)
VerifyResetCode(t, c, e) ==
  /\ At(t, "new") /\ c \in codes
  /\ Sets(t, IF Valid(c, e) THEN [Rejected EXCEPT !.how = "valid"] ELSE Rejected)
  /\ UNCHANGED <<user, codes, tokens, moves, clock, loginFaults>>

-----------------------------------------------------------------------------
(* The office                                                               *)

(* sendPasswordResetLink looks for an agent, makes a password up and hashes.*)
MakePassword(t, u) ==
  /\ At(t, "new")
  /\ Sets(t, [pc |-> "made", id |-> u])
  /\ UNCHANGED <<user, codes, tokens, moves, clock, loginFaults>>

SendPassword(t) ==
  /\ At(t, "made")
  /\ user' = [user EXCEPT ![attempt[t].id] = [@ EXCEPT !.temporary = TRUE, !.force = TRUE]]
  /\ Sets(t, [pc |-> "done", how |-> "sent"])
  /\ UNCHANGED <<codes, tokens, moves, clock, loginFaults>>

(* faulty: two accounts may share a login                                   *)
TakenNever(u, e) == FALSE

(* assertLoginEmailAvailable, and the unique key when it was too early.     *)
Taken(u, e) == ByEmail(e) \ {u} # {}

(* updateAgent, by an administrator                                         *)
ChangeEmail(u, e) ==
  /\ user[u].email # e /\ ~Taken(u, e)
  /\ moves[u] < MaxMoves
  /\ user' = [user EXCEPT ![u].email = e]
  /\ moves' = [moves EXCEPT ![u] = @ + 1]
  /\ UNCHANGED <<codes, tokens, attempt, clock, loginFaults>>

(* A statement fails before anything of it is done.                         *)
LoginStatementFails(t) ==
  /\ attempt[t].pc \notin {"new", "done"} /\ Slips
  /\ Sets(t, Rejected)
  /\ UNCHANGED <<user, codes, tokens, moves, clock>>

LoginTick ==
  /\ clock < MaxClock
  /\ clock' = clock + 1
  /\ UNCHANGED <<user, codes, tokens, attempt, moves, loginFaults>>

(* A request about one of some accounts, or one of some logins, moves on.   *)
AttemptStep(t, accounts, logins) ==
  \/ \E e \in logins : LookUp(t, e) \/ Forgot(t, e)
  \/ \E b \in BOOLEAN : LogIn(t, b)
  \/ \E token \in tokens, knows \in BOOLEAN :
       ChangePassword(t, token, knows) \/ ChangeInProfile(t, token, knows)
  \/ \E c \in codes, e \in logins : PresentCode(t, c, e) \/ VerifyResetCode(t, c, e)
  \/ \E u \in accounts : MakePassword(t, u)
  \/ UpdatePassword(t) \/ StoreCode(t) \/ RefuseReset(t) \/ ResetPassword(t) \/ DeleteCodes(t)
  \/ SendPassword(t) \/ LoginStatementFails(t)

LoginsNext ==
  \/ \E t \in Attempts : AttemptStep(t, Users, Emails)
  \/ \E u \in Users, e \in Emails : ChangeEmail(u, e)
  \/ LoginTick

LoginsSpec == LoginsInit /\ [][LoginsNext]_loginVars

-----------------------------------------------------------------------------
(* What is promised                                                         *)

(* No two accounts share a login, and codes and tokens were given to        *)
(* accounts that had the login they name.                                   *)
LoginsTypeOK ==
  /\ \A u, v \in Users : user[u].email = user[v].email => u = v
  /\ \A c \in codes : c.for = {} => \E u \in Users : moves[u] > 0
  /\ \A k \in tokens : k.email # First[k.id] => moves[k.id] > 0

(* A password the office made up must be changed, and nobody is asked to    *)
(* change one he chose, whichever of two writers came last.                 *)
TemporaryMustBeChanged == \A u \in Users : user[u].temporary <=> user[u].force

(* A reset closes every code that its e-mail address was sent before: a     *)
(* later reset needs a newer code.                                          *)
ResetClosesCodes ==
  \A t \in Resets : \A r \in attempt[t].after :
    attempt[r].email = attempt[t].email => r \in attempt[t].with.after

(* Whoever sets a password has proved something about that account, unless  *)
(* a login was changed between the proof and the password.                  *)
RightAccount ==
  \A t \in Attempts : At(t, "done") =>
    /\ attempt[t].how = "changed" /\ attempt[t].owner # attempt[t].id => \E u \in Users : attempt[t].moves[u] > 0
    /\ attempt[t].how = "reset" /\ attempt[t].ids # attempt[t].with.for =>
         \E u \in Users : moves[u] > attempt[t].with.moves[u]

(* Who sets a password may, and afterwards the proof is used up.            *)
PasswordsProven == TemporaryMustBeChanged /\ ResetClosesCodes /\ RightAccount
=============================================================================
