------------------------------ MODULE Accounts ------------------------------
(***************************************************************************)
(* Accounts, as src/modules/users and src/modules/auth change them: the    *)
(* user and its credentials, the one-time tokens that mails carry, and the *)
(* routes that open and end sessions.  None of the handlers holds more     *)
(* than one statement in a transaction, except the three inserts of a      *)
(* registration.                                                           *)
(*                                                                         *)
(* A password is right or wrong when it is compared, which the action      *)
(* chooses.  Of the lock only its state is kept: "over" is a lockedUntil   *)
(* that has passed.  The mail that follows a token's insert is sent or     *)
(* lost, so a row of token is a link that may be opened.                   *)
(***************************************************************************)
EXTENDS Sessions

CONSTANTS
  Emails,       \* addresses, normalised as formatEmail does
  TokenIds,     \* ids of the rows of the three token tables
  MaxFailed,    \* config.maxFailedAttempts
  MaxAttempts,  \* highest count of failed attempts: a bound
  Mixes         \* sets of routes; a behaviour sticks to one of them

ASSUME ConstantsAssumption ==
  /\ MaxFailed \in Nat \ {0}
  /\ MaxAttempts \in Nat
  /\ MaxNow \in Nat
  /\ Null \notin Users \cup SessionIds \cup TokenIds \cup Emails \cup Int
  /\ IsFiniteSet(Requests) /\ Requests # {} /\ IsFiniteSet(SessionIds)

VARIABLES
  user,    \* tables users and auth_credentials
  token,   \* the three token tables
  mix,     \* the routes of this behaviour
  proven,  \* addresses whose mails each user has opened, or Google vouched for
  uses,    \* how often each verification and each reset has had its effect
  closed   \* users whose deletion has run to its end

history == <<proven, uses, closed>>
accountVars == <<user, token, mix, history>>
vars == <<sessionVars, accountVars, pc, arg>>

-----------------------------------------------------------------------------
FreeUser == [st |-> "free", email |-> Null, verified |-> FALSE,
             pw |-> FALSE, attempts |-> 0, lock |-> "none"]
UserRow == [st : {"live", "gone"}, email : Emails, verified : BOOLEAN, pw : BOOLEAN,
            attempts : 0..MaxAttempts, lock : {"none", "held", "over"}]

Kinds == {"verify", "reset", "change"}
FreeToken == [st |-> "free", kind |-> Null, user |-> Null, email |-> Null]
TokenRow == [st : {"open", "used"}, kind : Kinds, user : Users, email : Emails]

AccountSteps ==
  {"register.insert", "google.insert", "token.create", "session.create",
   "login.creds", "login.reset", "login.fail", "verify.spend", "verify.mark",
   "reset.spend", "reset.write", "password.write", "confirm.email",
   "confirm.spend", "delete.soft", "delete.revoke"}
Steps == {"idle", "refresh.revoke", "revoke.write"} \cup RefreshSteps \cup AccountSteps

Args == [op : Kinds \cup {"register", Null}, user : Users \cup {Null},
         sess : SessionIds \cup {Null}, tok : TokenIds \cup (0..MaxNow) \cup {Null},
         email : Emails \cup {Null}, n : Nat \cup {Null}]

TypeOK ==
  /\ session \in [SessionIds -> SessionRow \cup {FreeSession}]
  /\ cookie \in [SessionIds -> (0..MaxNow) \cup {Null}]
  /\ now \in 0..MaxNow /\ torn \subseteq SessionIds
  /\ user \in [Users -> UserRow \cup {FreeUser}]
  /\ token \in [TokenIds -> TokenRow \cup {FreeToken}]
  /\ pc \in [Requests -> Steps] /\ arg \in [Requests -> Args]
  /\ mix \in Mixes /\ closed \subseteq Users
  /\ proven \in [Users -> SUBSET Emails] /\ uses \in [TokenIds -> Nat]

Live(u) == user[u].st = "live"
FoundByEmail(e) == {u \in Users : Live(u) /\ user[u].email = e}

(* The unique index on users.email, which knows nothing of deletedAt. *)
Taken(e) == \E u \in Users : user[u].st # "free" /\ user[u].email = e

Continue(r, step, a) == Goto(r, step, a) /\ UNCHANGED <<sessionVars, accountVars>>
Refused(r) == Finish(r) /\ UNCHANGED <<sessionVars, accountVars>>

(* A request arrives: what its first reads find lets it go on, or it is    *)
(* refused at once.                                                        *)
Opened(r, ok, step, a) ==
  /\ pc[r] = "idle"
  /\ IF ok THEN Continue(r, step, a) ELSE UNCHANGED vars

Init ==
  /\ session = [s \in SessionIds |-> FreeSession]
  /\ cookie = [s \in SessionIds |-> Null]
  /\ now = 0 /\ torn = {}
  /\ user = [u \in Users |-> FreeUser]
  /\ token = [t \in TokenIds |-> FreeToken]
  /\ pc = [r \in Requests |-> "idle"] /\ arg = [r \in Requests |-> NoArgs]
  /\ mix \in Mixes /\ closed = {}
  /\ proven = [u \in Users |-> {}] /\ uses = [t \in TokenIds |-> 0]

-----------------------------------------------------------------------------
(* Register and Google: findByEmail, then the insert of the three rows in  *)
(* one transaction, which the unique index may refuse.                     *)

OpenRegister(r, e) ==
  Opened(r, FoundByEmail(e) = {}, "register.insert",
         [NoArgs EXCEPT !.op = "register", !.email = e])

(* createFromGoogle hands back whoever has the address already. *)
OpenGoogle(r, e) ==
  /\ pc[r] = "idle"
  /\ IF FoundByEmail(e) = {}
     THEN Continue(r, "google.insert", [NoArgs EXCEPT !.email = e])
     ELSE \E u \in FoundByEmail(e) :
            Continue(r, "session.create", [NoArgs EXCEPT !.user = u])

InsertUser(r, google, next) ==
  LET e == arg[r].email IN
  IF Taken(e) THEN Refused(r)
  ELSE \E u \in Users :
         /\ user[u].st = "free"
         /\ user' = [user EXCEPT ![u] =
                       [st |-> "live", email |-> e, verified |-> google, pw |-> ~google,
                        attempts |-> 0, lock |-> "none"]]
         /\ proven' = IF google THEN [proven EXCEPT ![u] = {e}] ELSE proven
         /\ Goto(r, next, [arg[r] EXCEPT !.user = u])
         /\ UNCHANGED <<sessionVars, token, mix, uses, closed>>

Register(r) == pc[r] = "register.insert" /\ InsertUser(r, FALSE, "token.create")
GoogleRegister(r) == pc[r] = "google.insert" /\ InsertUser(r, TRUE, "session.create")

(* The insert of a token and the mail that carries it; a registration then *)
(* logs in.                                                                *)
CreateToken(r) ==
  LET registering == arg[r].op = "register" IN
  /\ pc[r] = "token.create"
  /\ \E t \in TokenIds :
       /\ token[t].st = "free"
       /\ token' = [token EXCEPT ![t] =
                     [st |-> "open", kind |-> IF registering THEN "verify" ELSE arg[r].op,
                      user |-> arg[r].user, email |-> arg[r].email]]
  /\ IF registering
     THEN Goto(r, "session.create", [NoArgs EXCEPT !.user = arg[r].user])
     ELSE Finish(r)
  /\ UNCHANGED <<sessionVars, user, mix, history>>

-----------------------------------------------------------------------------
(* Log-in *)

OpenLoginDeleted(r, u) ==  \* mutant: the status of the user is not looked at
  Opened(r, user[u].st # "free", "login.creds",
         [NoArgs EXCEPT !.user = u])

(* findByEmail and validateStatus: the later read decides, since a user    *)
(* that is gone stays so.                                                  *)
OpenLogin(r, u) ==
  Opened(r, Live(u), "login.creds",
         [NoArgs EXCEPT !.user = u])

(* validatePassword: the credentials, and the comparison. *)
LoginRead(r, right) ==
  LET row == user[arg[r].user] IN
  /\ pc[r] = "login.creds"
  /\ IF row.pw /\ row.lock # "held"
     THEN Continue(r, IF right THEN "login.reset" ELSE "login.fail",
                   [arg[r] EXCEPT !.n = row.attempts])
     ELSE Refused(r)

LoginReset(r) ==
  /\ pc[r] = "login.reset"
  /\ user' = [user EXCEPT ![arg[r].user].attempts = 0, ![arg[r].user].lock = "none"]
  /\ Goto(r, "session.create", [arg[r] EXCEPT !.n = Null])
  /\ UNCHANGED <<sessionVars, token, mix, history>>

LoginFailLate(r) ==  \* mutant: off by one, the lock comes an attempt later
  LET u == arg[r].user IN
  /\ pc[r] = "login.fail"
  /\ user[u].attempts < MaxAttempts
  /\ user' = [user EXCEPT ![u].attempts = @ + 1,
                          ![u].lock = IF arg[r].n + 1 > MaxFailed THEN "held" ELSE @]
  /\ Finish(r)
  /\ UNCHANGED <<sessionVars, token, mix, history>>

(* handleFailedAttempt: the database counts, but the lock is decided on    *)
(* the count that was read.                                                *)
LoginFail(r) ==
  LET u == arg[r].user IN
  /\ pc[r] = "login.fail"
  /\ user[u].attempts < MaxAttempts
  /\ user' = [user EXCEPT ![u].attempts = @ + 1,
                          ![u].lock = IF arg[r].n + 1 >= MaxFailed THEN "held" ELSE @]
  /\ Finish(r)
  /\ UNCHANGED <<sessionVars, token, mix, history>>

LockEnds(u) ==
  /\ user[u].lock = "held"
  /\ user' = [user EXCEPT ![u].lock = "over"]
  /\ UNCHANGED <<sessionVars, token, mix, history, pc, arg>>

-----------------------------------------------------------------------------
(* Requests for a token: another verification mail, a forgotten password,  *)
(* a new address (behind EmailVerifiedGuard).                              *)

OpenResend(r, u) ==
  Opened(r, Live(u), "token.create",
         [NoArgs EXCEPT !.op = "verify", !.user = u, !.email = user[u].email])

OpenForgot(r, u) ==
  Opened(r, Live(u), "token.create",
         [NoArgs EXCEPT !.op = "reset", !.user = u, !.email = user[u].email])

OpenChangeEmailNow(r, u, e) ==  \* mutant: the address is written when it is asked for
  /\ pc[r] = "idle"
  /\ Live(u) /\ user[u].verified /\ user[u].email # e /\ ~Taken(e)
  /\ user' = [user EXCEPT ![u].email = e]
  /\ Goto(r, "token.create", [NoArgs EXCEPT !.op = "change", !.user = u, !.email = e])
  /\ UNCHANGED <<sessionVars, token, mix, history>>

OpenChangeEmail(r, u, e) ==
  Opened(r, /\ Live(u) /\ user[u].verified
            /\ user[u].email # e /\ FoundByEmail(e) = {}, "token.create",
         [NoArgs EXCEPT !.op = "change", !.user = u, !.email = e])

-----------------------------------------------------------------------------
(* Links that are opened.  Spend is markUsed.                              *)

OpensAny(r, t, kind, step) ==  \* mutant: usedAt is not looked at
  /\ pc[r] = "idle"
  /\ token[t].kind = kind
  /\ Goto(r, step, [NoArgs EXCEPT !.tok = t, !.user = token[t].user,
                                  !.email = token[t].email])
  /\ proven' = [proven EXCEPT ![token[t].user] = @ \cup {token[t].email}]
  /\ UNCHANGED <<sessionVars, user, token, mix, uses, closed>>

(* findByTokenHash of a token that is not used. *)
Opens(r, t, kind, step) ==
  /\ pc[r] = "idle"
  /\ token[t].kind = kind /\ token[t].st = "open"
  /\ Goto(r, step, [NoArgs EXCEPT !.tok = t, !.user = token[t].user,
                                  !.email = token[t].email])
  /\ proven' = [proven EXCEPT ![token[t].user] = @ \cup {token[t].email}]
  /\ UNCHANGED <<sessionVars, user, token, mix, uses, closed>>

OpenVerify(r, t) == Opens(r, t, "verify", "verify.spend")
OpenReset(r, t) == Opens(r, t, "reset", "reset.spend")

(* confirmEmailChange also reads whether the address is free, and the user. *)
OpenConfirm(r, t) ==
  /\ FoundByEmail(token[t].email) = {}
  /\ token[t].user # Null => Live(token[t].user)
  /\ Opens(r, t, "change", "confirm.email")

Spend(r, step) ==
  /\ token' = [token EXCEPT ![arg[r].tok].st = "used"]
  /\ Goto(r, step, arg[r])
  /\ UNCHANGED <<sessionVars, user, mix, history>>

VerifySpend(r) == pc[r] = "verify.spend" /\ Spend(r, "verify.mark")
ResetSpend(r) == pc[r] = "reset.spend" /\ Spend(r, "reset.write")

ConfirmSpend(r) ==
  /\ pc[r] = "confirm.spend"
  /\ token' = [token EXCEPT ![arg[r].tok].st = "used"]
  /\ Finish(r)
  /\ UNCHANGED <<sessionVars, user, mix, history>>

Used(r) == uses' = [uses EXCEPT ![arg[r].tok] = @ + 1]

VerifyMark(r) ==
  /\ pc[r] = "verify.mark"
  /\ user' = [user EXCEPT ![arg[r].user].verified = TRUE]
  /\ Used(r) /\ Finish(r)
  /\ UNCHANGED <<sessionVars, token, mix, proven, closed>>

(* updatePassword also forgets the failed attempts and the lock. *)
WithPassword(u) ==
  [user EXCEPT ![u].pw = TRUE, ![u].attempts = 0, ![u].lock = "none"]

ResetWrite(r) ==
  /\ pc[r] = "reset.write"
  /\ user' = WithPassword(arg[r].user)
  /\ Used(r) /\ Finish(r)
  /\ UNCHANGED <<sessionVars, token, mix, proven, closed>>

(* updateEmail, which comes before markUsed here. *)
ConfirmEmail(r) ==
  LET u == arg[r].user IN
  /\ pc[r] = "confirm.email"
  /\ IF Taken(arg[r].email) /\ user[u].email # arg[r].email
     THEN Refused(r)
     ELSE /\ user' = [user EXCEPT ![u].email = arg[r].email]
          /\ Goto(r, "confirm.spend", arg[r])
          /\ UNCHANGED <<sessionVars, token, mix, history>>

-----------------------------------------------------------------------------
(* PATCH /users/me/password: behind EmailVerifiedGuard, after two reads of *)
(* the credentials.                                                        *)
OpenChangePassword(r, u) ==
  Opened(r, user[u].verified /\ user[u].pw, "password.write",
         [NoArgs EXCEPT !.user = u])

ChangePassword(r) ==
  /\ pc[r] = "password.write"
  /\ user' = WithPassword(arg[r].user)
  /\ Finish(r)
  /\ UNCHANGED <<sessionVars, token, mix, history>>

(* DELETE /users/me, once the password is right and no workspace is in the *)
(* way.  An access token outlives its user: the call may be repeated.      *)
OpenDelete(r, u) ==
  Opened(r, user[u].pw, "delete.soft",
         [NoArgs EXCEPT !.user = u])

SoftDeleteCleared(r) ==  \* mutant: the address is cleared with the account
  /\ pc[r] = "delete.soft"
  /\ user' = [user EXCEPT ![arg[r].user].st = "gone", ![arg[r].user].email = Null]
  /\ Goto(r, "delete.revoke", arg[r])
  /\ UNCHANGED <<sessionVars, token, mix, history>>

SoftDelete(r) ==
  /\ pc[r] = "delete.soft"
  /\ user' = [user EXCEPT ![arg[r].user].st = "gone"]
  /\ Goto(r, "delete.revoke", arg[r])
  /\ UNCHANGED <<sessionVars, token, mix, history>>

DeleteRevoke(r) ==
  LET u == arg[r].user IN
  /\ pc[r] = "delete.revoke"
  /\ session' = Revoked(ActiveSessions(u))
  /\ closed' = closed \cup {u}
  /\ Finish(r)
  /\ UNCHANGED <<cookie, now, torn, user, token, mix, proven, uses>>

-----------------------------------------------------------------------------
(* Any await may throw, and any check on time or secrets may refuse. *)
Fail(r) ==
  /\ pc[r] # "idle"
  /\ Finish(r)
  /\ torn' = IF pc[r] = "refresh.answer" THEN torn \cup {arg[r].sess} ELSE torn
  /\ UNCHANGED <<session, cookie, now, accountVars>>

(* The routes of users, and those of auth *)
OpenOwn(r) ==
  \/ \E u \in Users :
       \/ "password" \in mix /\ OpenChangePassword(r, u)
       \/ "delete" \in mix /\ OpenDelete(r, u)
       \/ "email" \in mix /\ \E e \in Emails : OpenChangeEmail(r, u, e)
  \/ "email" \in mix /\ \E t \in TokenIds : OpenConfirm(r, t)

Open(r) ==
  \/ \E e \in Emails : \/ "register" \in mix /\ OpenRegister(r, e)
                       \/ "google" \in mix /\ OpenGoogle(r, e)
  \/ \E u \in Users :
       \/ "login" \in mix /\ OpenLogin(r, u)
       \/ "resend" \in mix /\ OpenResend(r, u)
       \/ "forgot" \in mix /\ OpenForgot(r, u)
  \/ \E t \in TokenIds :
       \/ "verify" \in mix /\ OpenVerify(r, t)
       \/ "forgot" \in mix /\ OpenReset(r, t)
  \/ OpenOwn(r)

AccountStep(r) ==
  \/ Register(r) \/ GoogleRegister(r) \/ CreateToken(r)
  \/ LoginRead(r, TRUE)
  \/ "guess" \in mix /\ LoginRead(r, FALSE)
  \/ LoginReset(r) \/ LoginFail(r)
  \/ VerifySpend(r) \/ VerifyMark(r) \/ ResetSpend(r) \/ ResetWrite(r)
  \/ ConfirmEmail(r) \/ ConfirmSpend(r) \/ ChangePassword(r)
  \/ SoftDelete(r) \/ DeleteRevoke(r)

SessionStep ==
  \/ \E r \in Requests :
       \/ CreateSession(r) \/ RefreshRead(r) \/ RefreshReuse(r) \/ RevokeFamily(r)
       \/ RefreshWrite(r) \/ RevokeWrite(r)
       \/ pc[r] = "refresh.answer"
            /\ RefreshAnswer(r, Live(session[arg[r].sess].user))
       \/ \E s \in SessionIds : \/ "refresh" \in mix /\ OpenRefresh(r, s)
                                \/ "logout" \in mix /\ OpenRevoke(r, s)
  \/ "logout" \in mix /\ \E s \in SessionIds : RevokeOthers(s)
  \/ "refresh" \in mix /\ Tick

Next ==
  \/ SessionStep /\ UNCHANGED accountVars
  \/ \E r \in Requests : Open(r) \/ AccountStep(r) \/ Fail(r)
  \/ \E u \in Users : LockEnds(u)

Spec == Init /\ [][Next]_vars

-----------------------------------------------------------------------------
(* A client guesses a password at most MaxFailed times before the account  *)
(* is locked; since the lock is decided on a count read earlier, each      *)
(* other request in flight may add one guess, and no more.                 *)
BoundedGuesses ==
  \A u \in Users :
    user[u].lock = "none" => user[u].attempts <= MaxFailed - 2 + Cardinality(Requests)

(* A deleted account is logged out: a session of it that is ACTIVE was     *)
(* opened by a log-in under way when the sessions were revoked, so there   *)
(* are fewer of them than requests.                                        *)
LoggingIn(u) ==
  {r \in Requests : /\ arg[r].user = u
                    /\ \/ pc[r] \in {"login.creds", "login.reset", "session.create"}
                       \/ pc[r] = "token.create" /\ arg[r].op = "register"}

DeletedIsLoggedOut ==
  \A u \in closed :
    Cardinality(ActiveSessions(u)) + Cardinality(LoggingIn(u)) < Cardinality(Requests)

(* A verified account has shown that it reads the mails of the address it  *)
(* has now, whatever change of address and verification overlap.           *)
VerifiedMeansProven ==
  \A u \in Users :
    user[u].st # "free" /\ user[u].verified => user[u].email \in proven[u]

(* A link to verify or reset works once; twice if requests overlapped.     *)
TokenSpent == \A t \in TokenIds : uses[t] <= Cardinality(Requests)

=============================================================================
