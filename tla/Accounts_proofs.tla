-------------------------- MODULE Accounts_proofs ---------------------------
(***************************************************************************)
(* For any accounts, sessions, links and requests in flight.               *)
(*                                                                         *)
(* None of the properties is inductive.  All of them rest on Known: what a *)
(* request read before an await still exists when it writes after it.  The *)
(* sessions come first, then the rows of users and links: each property    *)
(* gets the invariant that says what the requests in flight still have to  *)
(* do with the row.                                                        *)
(***************************************************************************)
EXTENDS Accounts, FiniteSetTheorems, TLAPS

UserSteps ==
  {"token.create", "session.create", "login.creds", "login.reset", "login.fail",
   "password.write", "delete.soft", "delete.revoke"}
VerifySteps == {"verify.spend", "verify.mark"}
ResetSteps == {"reset.spend", "reset.write"}
LinkSteps == VerifySteps \cup ResetSteps \cup {"confirm.email", "confirm.spend"}
OwnSteps == RefreshSteps \cup {"refresh.revoke", "revoke.write"}

(* What a request at step p knows of the rows that its a names *)
KnownAt(p, a) ==
  /\ p \in {"register.insert", "google.insert"} => a.email \in Emails
  /\ p = "register.insert" => a.op = "register"
  /\ p \in UserSteps \cup LinkSteps => a.user \in Users /\ user[a.user].st # "free"
  /\ p = "token.create" => a.email \in Emails /\ a.op \in Kinds \cup {"register"}
  /\ p \in {"login.reset", "login.fail"} => a.n \in Nat
  /\ p \in LinkSteps => /\ a.tok \in TokenIds /\ token[a.tok].st # "free"
                        /\ token[a.tok].user = a.user /\ token[a.tok].email = a.email
  /\ p \in VerifySteps => token[a.tok].kind = "verify"
  /\ p \in OwnSteps => a.sess \in SessionIds /\ session[a.sess].st # "free"
  /\ p \in {"refresh.write", "refresh.answer"} => a.n \in 0..MaxNow

Known(r) == KnownAt(pc[r], arg[r])

Owners == \A t \in TokenIds : token[t].st # "free" => user[token[t].user].st # "free"
Cookies == \A s \in SessionIds : cookie[s] # Null => session[s].st # "free"

IInv == TypeOK /\ Owners /\ Cookies /\ \A r \in Requests : Known(r)

(* TypeOK, in the parts that a step may touch *)
TypeSessions ==
  /\ session \in [SessionIds -> SessionRow \cup {FreeSession}]
  /\ cookie \in [SessionIds -> (0..MaxNow) \cup {Null}]
  /\ now \in 0..MaxNow /\ torn \subseteq SessionIds
TypeUsers == user \in [Users -> UserRow \cup {FreeUser}]
TypeTokens == token \in [TokenIds -> TokenRow \cup {FreeToken}]
TypeHistory ==
  /\ mix \in Mixes /\ closed \subseteq Users
  /\ proven \in [Users -> SUBSET Emails] /\ uses \in [TokenIds -> Nat]
TypeRequests == pc \in [Requests -> Steps] /\ arg \in [Requests -> Args]

LEMMA TypeParts ==
  TypeOK <=> TypeSessions /\ TypeUsers /\ TypeTokens /\ TypeHistory /\ TypeRequests
BY DEF TypeOK, TypeSessions, TypeUsers, TypeTokens, TypeHistory, TypeRequests

-----------------------------------------------------------------------------
(* What a step leaves as it was: rows are never deleted, links never change *)
(* hands, and a step is of one request.                                    *)
Grows ==
  /\ \A u \in Users : user[u].st # "free" => user'[u].st # "free"
  /\ \A t \in TokenIds : token[t].st # "free" =>
       /\ token'[t].st # "free" /\ token'[t].kind = token[t].kind
       /\ token'[t].user = token[t].user /\ token'[t].email = token[t].email
  /\ \A s \in SessionIds : session[s].st # "free" => session'[s].st # "free"

Tables ==
  TypeSessions /\ TypeUsers /\ TypeTokens /\ TypeHistory /\ Owners /\ Cookies

Only(r) ==
  /\ \A q \in Requests \ {r} : pc'[q] = pc[q] /\ arg'[q] = arg[q]
  /\ pc' \in [Requests -> Steps] /\ arg' \in [Requests -> Args]

Effect(r) == Tables' /\ Grows /\ Only(r) /\ Known(r)'

LEMMA EffectInv == ASSUME IInv, NEW r \in Requests, Effect(r) PROVE IInv'
<1>1. ASSUME NEW q \in Requests PROVE Known(q)'
  <2>1. CASE q = r
    BY <2>1 DEF Effect
  <2>2. CASE q # r
    <3>1. Known(q) /\ pc'[q] = pc[q] /\ arg'[q] = arg[q]
      BY <2>2 DEF Effect, Only, IInv
    <3> QED
      BY <3>1 DEF Effect, Grows, Known, KnownAt, UserSteps, VerifySteps, ResetSteps,
                  LinkSteps, OwnSteps, RefreshSteps
  <2> QED
    BY <2>1, <2>2
<1>2. TypeOK'
  BY DEF TypeOK, TypeSessions, TypeUsers, TypeTokens, TypeHistory, Effect, Tables, Only
<1> QED
  BY <1>1, <1>2 DEF Effect, Tables, IInv

(* A step that changes no row moves its request to where it knows enough. *)
LEMMA Moves ==
  ASSUME IInv, NEW r \in Requests, NEW p \in Steps, NEW a \in Args, Goto(r, p, a)
  PROVE  /\ Only(r) /\ pc'[r] = p /\ arg'[r] = a
         /\ pc' = [pc EXCEPT ![r] = p] /\ arg' = [arg EXCEPT ![r] = a]
BY DEF Goto, Only, IInv, TypeOK

LEMMA Silent ==
  ASSUME IInv, NEW r \in Requests, NEW p \in Steps, NEW a \in Args,
         Goto(r, p, a), KnownAt(p, a),
         UNCHANGED <<session, cookie, now, user, token, mix, history>>,
         torn' \subseteq SessionIds
  PROVE  Effect(r)
<1>1. Only(r) /\ pc'[r] = p /\ arg'[r] = a
  BY Moves
<1>2. Known(r)'
  BY <1>1 DEF Known, KnownAt
<1>3. Tables'
  BY TypeParts
     DEF IInv, Tables, TypeSessions, TypeUsers, TypeTokens, TypeHistory, Owners, Cookies, history
<1> QED
  BY <1>1, <1>2, <1>3 DEF Effect, Grows

LEMMA IdleKnown == "idle" \in Steps /\ NoArgs \in Args /\ KnownAt("idle", NoArgs)
BY DEF KnownAt, UserSteps, VerifySteps, ResetSteps, LinkSteps, OwnSteps, RefreshSteps,
       Steps, Args, NoArgs

LEMMA Stands == ASSUME IInv, NEW r \in Requests, UNCHANGED vars PROVE Effect(r)
<1>1. Tables'
  BY TypeParts
     DEF IInv, Tables, TypeSessions, TypeUsers, TypeTokens, TypeHistory, Owners, Cookies,
         vars, sessionVars, accountVars, history
<1>2. Known(r)'
  BY DEF IInv, Known, KnownAt, vars, sessionVars, accountVars
<1> QED
  BY <1>1, <1>2 DEF Effect, Grows, Only, IInv, TypeOK, vars, sessionVars, accountVars

LEMMA FailEffect == ASSUME IInv, NEW r \in Requests, Fail(r) PROVE Effect(r)
<1>1. torn' \subseteq SessionIds
  BY DEF Fail, IInv, TypeOK, Known, KnownAt, OwnSteps, RefreshSteps
<1> QED
  BY <1>1, Silent, IdleKnown DEF Fail, Finish, accountVars

LEMMA RefusedEffect == ASSUME IInv, NEW r \in Requests, Refused(r) PROVE Effect(r)
BY Silent, IdleKnown DEF Refused, Finish, sessionVars, accountVars, IInv, TypeOK

LEMMA ContinueEffect ==
  ASSUME IInv, NEW r \in Requests, NEW p \in Steps, NEW a \in Args, KnownAt(p, a),
         Continue(r, p, a)
  PROVE  Effect(r)
BY Silent DEF Continue, sessionVars, accountVars, IInv, TypeOK

LEMMA OpenedEffect ==
  ASSUME IInv, NEW r \in Requests, NEW p \in Steps, NEW a \in Args, NEW ok,
         ok => KnownAt(p, a), Opened(r, ok, p, a)
  PROVE  Effect(r)
BY ContinueEffect, Stands DEF Opened


-----------------------------------------------------------------------------
(* What there is to know at each step *)
UserOf(a) == a.user \in Users /\ user[a.user].st # "free"
LinkOf(a) ==
  /\ a.tok \in TokenIds /\ token[a.tok].st # "free"
  /\ token[a.tok].user = a.user /\ token[a.tok].email = a.email
SessionOf(a) == a.sess \in SessionIds /\ session[a.sess].st # "free"

LEMMA KnownParts ==
  ASSUME NEW a
  PROVE  /\ KnownAt("register.insert", a) <=> a.email \in Emails /\ a.op = "register"
         /\ KnownAt("google.insert", a) <=> a.email \in Emails
         /\ KnownAt("token.create", a) <=> UserOf(a) /\ a.email \in Emails
                                             /\ a.op \in Kinds \cup {"register"}
         /\ \A p \in {"session.create", "login.creds", "password.write", "delete.soft",
                      "delete.revoke"} : KnownAt(p, a) <=> UserOf(a)
         /\ \A p \in {"login.reset", "login.fail"} :
              KnownAt(p, a) <=> UserOf(a) /\ a.n \in Nat
         /\ \A p \in VerifySteps :
              KnownAt(p, a) <=> UserOf(a) /\ LinkOf(a) /\ token[a.tok].kind = "verify"
         /\ \A p \in LinkSteps \ VerifySteps : KnownAt(p, a) <=> UserOf(a) /\ LinkOf(a)
         /\ \A p \in {"refresh.read", "refresh.revoke", "revoke.write"} :
              KnownAt(p, a) <=> SessionOf(a)
         /\ \A p \in {"refresh.write", "refresh.answer"} :
              KnownAt(p, a) <=> SessionOf(a) /\ a.n \in 0..MaxNow
BY DEF KnownAt, UserOf, LinkOf, SessionOf, UserSteps, VerifySteps, ResetSteps, LinkSteps,
       OwnSteps, RefreshSteps

LEMMA StepNames ==
  Steps = {"idle"} \cup OwnSteps \cup UserSteps \cup LinkSteps
          \cup {"register.insert", "google.insert"}
BY DEF Steps, AccountSteps, UserSteps, VerifySteps, ResetSteps, LinkSteps, OwnSteps,
       RefreshSteps

(* Rows that exist are rows. *)
LEMMA Rows ==
  ASSUME IInv
  PROVE  /\ \A u \in Users : user[u].st # "free" => user[u] \in UserRow
         /\ \A t \in TokenIds : token[t].st # "free" => token[t] \in TokenRow
         /\ \A s \in SessionIds : session[s].st # "free" => session[s] \in SessionRow
BY DEF IInv, TypeOK, FreeUser, FreeToken, FreeSession

-----------------------------------------------------------------------------
(* Requests that arrive *)

LEMMA OpenRegisterEffect ==
  ASSUME IInv, NEW r \in Requests, NEW e \in Emails, OpenRegister(r, e)
  PROVE  Effect(r)
<1> DEFINE a == [NoArgs EXCEPT !.op = "register", !.email = e]
<1>1. a \in Args /\ KnownAt("register.insert", a)
  BY KnownParts DEF NoArgs, Args
<1> HIDE DEF a
<1> QED
  BY <1>1, OpenedEffect, StepNames DEF OpenRegister, a

LEMMA OpenGoogleEffect ==
  ASSUME IInv, NEW r \in Requests, NEW e \in Emails, OpenGoogle(r, e)
  PROVE  Effect(r)
<1>1. CASE FoundByEmail(e) = {}
  <2> DEFINE a == [NoArgs EXCEPT !.email = e]
  <2>1. a \in Args /\ KnownAt("google.insert", a)
    BY KnownParts DEF NoArgs, Args
  <2> HIDE DEF a
  <2> QED
    BY <1>1, <2>1, ContinueEffect, StepNames DEF OpenGoogle, a
<1>2. CASE FoundByEmail(e) # {}
  <2>1. PICK u \in FoundByEmail(e) :
               Continue(r, "session.create", [NoArgs EXCEPT !.user = u])
    BY <1>2 DEF OpenGoogle
  <2> DEFINE a == [NoArgs EXCEPT !.user = u]
  <2>2. a \in Args /\ KnownAt("session.create", a)
    BY KnownParts DEF NoArgs, Args, UserOf, FoundByEmail, Live
  <2> HIDE DEF a
  <2> QED
    BY <2>1, <2>2, ContinueEffect, StepNames DEF UserSteps, a
<1> QED
  BY <1>1, <1>2

LEMMA OpenUserEffect ==
  ASSUME IInv, NEW r \in Requests, NEW u \in Users,
         OpenLogin(r, u) \/ OpenChangePassword(r, u) \/ OpenDelete(r, u)
  PROVE  Effect(r)
<1> DEFINE a == [NoArgs EXCEPT !.user = u]
<1>1. a \in Args
      /\ (Live(u) \/ user[u].pw =>
            \A p \in {"login.creds", "password.write", "delete.soft"} : KnownAt(p, a))
  <2>1. Live(u) \/ user[u].pw => user[u].st # "free"
    <3>1. user[u] = FreeUser \/ user[u] \in UserRow
      BY DEF IInv, TypeOK
    <3>2. user[u] \in UserRow => user[u].st # "free"
      BY DEF UserRow
    <3> QED
      BY <3>1, <3>2 DEF FreeUser, Live
  <2> QED
    BY <2>1, KnownParts DEF NoArgs, Args, UserOf
<1>2. {"login.creds", "password.write", "delete.soft"} \subseteq Steps
  BY StepNames DEF UserSteps
<1> HIDE DEF a
<1>3. CASE OpenLogin(r, u)
  BY <1>1, <1>2, <1>3, OpenedEffect DEF OpenLogin, a
<1>4. CASE OpenChangePassword(r, u)
  BY <1>1, <1>2, <1>4, OpenedEffect DEF OpenChangePassword, a
<1>5. CASE OpenDelete(r, u)
  BY <1>1, <1>2, <1>5, OpenedEffect DEF OpenDelete, a
<1> QED
  BY <1>3, <1>4, <1>5

LEMMA OpenMailEffect ==
  ASSUME IInv, NEW r \in Requests, NEW u \in Users,
         OpenResend(r, u) \/ OpenForgot(r, u) \/ \E e \in Emails : OpenChangeEmail(r, u, e)
  PROVE  Effect(r)
<1>1. ASSUME NEW k \in Kinds, NEW e \in Emails \cup {user[u].email},
             \/ /\ Live(u)
                /\ Continue(r, "token.create", [NoArgs EXCEPT !.op = k, !.user = u, !.email = e])
             \/ UNCHANGED vars
      PROVE  Effect(r)
  <2> DEFINE a == [NoArgs EXCEPT !.op = k, !.user = u, !.email = e]
  <2>1. CASE Live(u) /\ Continue(r, "token.create", a)
    <3>1. e \in Emails /\ user[u].st # "free"
      BY <2>1, Rows DEF Live, UserRow
    <3>2. a \in Args /\ KnownAt("token.create", a) /\ "token.create" \in Steps
      BY <3>1, KnownParts, StepNames DEF NoArgs, Args, UserOf, UserSteps
    <3> HIDE DEF a
    <3> QED
      BY <2>1, <3>2, ContinueEffect
  <2> QED
    BY <1>1, <2>1, Stands
<1>2. "verify" \in Kinds /\ "reset" \in Kinds /\ "change" \in Kinds
  BY DEF Kinds
<1>3. PICK e : e = user[u].email
  OBVIOUS
<1>4. CASE OpenResend(r, u)
  <2>1. \/ Live(u) /\ Continue(r, "token.create",
                               [NoArgs EXCEPT !.op = "verify", !.user = u, !.email = e])
        \/ UNCHANGED vars
    BY <1>3, <1>4 DEF OpenResend, Opened
  <2> QED
    BY <1>1, <1>2, <1>3, <2>1
<1>5. CASE OpenForgot(r, u)
  <2>1. \/ Live(u) /\ Continue(r, "token.create",
                               [NoArgs EXCEPT !.op = "reset", !.user = u, !.email = e])
        \/ UNCHANGED vars
    BY <1>3, <1>5 DEF OpenForgot, Opened
  <2> QED
    BY <1>1, <1>2, <1>3, <2>1
<1>6. ASSUME NEW f \in Emails, OpenChangeEmail(r, u, f) PROVE Effect(r)
  <2>1. \/ Live(u) /\ Continue(r, "token.create",
                               [NoArgs EXCEPT !.op = "change", !.user = u, !.email = f])
        \/ UNCHANGED vars
    BY <1>6 DEF OpenChangeEmail, Opened
  <2> QED
    BY <1>1, <1>2, <2>1
<1> QED
  BY <1>4, <1>5, <1>6

(* Of a request that writes to the tables *)
LEMMA TableStep ==
  ASSUME IInv, NEW r \in Requests, NEW p \in Steps, NEW a \in Args, Goto(r, p, a),
         KnownAt(p, a), Tables', Grows
  PROVE  Effect(r)
<1>1. Only(r) /\ pc'[r] = p /\ arg'[r] = a
  BY Moves
<1>2. Known(r)'
  BY <1>1 DEF Known, KnownAt, Grows, UserSteps, VerifySteps, ResetSteps, LinkSteps,
              OwnSteps, RefreshSteps
<1> QED
  BY <1>1, <1>2 DEF Effect

LEMMA SessionsStay ==
  ASSUME IInv, UNCHANGED sessionVars
  PROVE  TypeSessions' /\ Cookies' /\ \A s \in SessionIds : session'[s] = session[s]
BY DEF IInv, TypeOK, TypeSessions, Cookies, sessionVars

LEMMA TokensStay ==
  ASSUME IInv, UNCHANGED token,
         \A u \in Users : user[u].st # "free" => user'[u].st # "free"
  PROVE  /\ TypeTokens' /\ Owners' /\ \A t \in TokenIds : token'[t] = token[t]
<1>1. \A t \in TokenIds : token[t].st # "free" => token[t].user \in Users
  BY Rows DEF TokenRow
<1> QED
  BY <1>1 DEF IInv, TypeOK, TypeTokens, Owners

(* ... to the users only *)
LEMMA UserStep ==
  ASSUME IInv, NEW r \in Requests, NEW p \in Steps, NEW a \in Args, Goto(r, p, a),
         KnownAt(p, a), UNCHANGED <<sessionVars, token>>, TypeUsers', TypeHistory',
         \A u \in Users : user[u].st # "free" => user'[u].st # "free"
  PROVE  Effect(r)
<1>1. Tables' /\ Grows
  BY SessionsStay, TokensStay DEF Tables, Grows
<1> QED
  BY <1>1, TableStep

(* ... and to one row of them, which stays a row *)
LEMMA RowStep ==
  ASSUME IInv, NEW r \in Requests, NEW p \in Steps, NEW a \in Args, Goto(r, p, a),
         KnownAt(p, a), UNCHANGED <<sessionVars, token>>, TypeHistory',
         NEW u \in Users, NEW row \in UserRow, user' = [user EXCEPT ![u] = row]
  PROVE  Effect(r)
<1>1. TypeUsers' /\ \A v \in Users : user[v].st # "free" => user'[v].st # "free"
  BY DEF IInv, TypeOK, TypeUsers, UserRow
<1> QED
  BY <1>1, UserStep

LEMMA OpensEffect ==
  ASSUME IInv, NEW r \in Requests, NEW t \in TokenIds,
         OpenVerify(r, t) \/ OpenReset(r, t) \/ OpenConfirm(r, t)
  PROVE  Effect(r)
<1> DEFINE a == [NoArgs EXCEPT !.tok = t, !.user = token[t].user, !.email = token[t].email]
<1>1. PICK p \in {"verify.spend", "reset.spend", "confirm.email"} :
        /\ token[t].st = "open" /\ Goto(r, p, a)
        /\ proven' = [proven EXCEPT ![token[t].user] = @ \cup {token[t].email}]
        /\ UNCHANGED <<sessionVars, user, token, mix, uses, closed>>
        /\ p \in VerifySteps => token[t].kind = "verify"
  BY DEF OpenVerify, OpenReset, OpenConfirm, Opens, VerifySteps
<1>2. token[t] \in TokenRow /\ user[token[t].user].st # "free"
  BY <1>1, Rows DEF IInv, Owners
<1>3. a \in Args /\ KnownAt(p, a) /\ p \in Steps
  <2>1. a \in Args /\ UserOf(a) /\ LinkOf(a) /\ a.tok = t
    BY <1>1, <1>2 DEF NoArgs, Args, UserOf, LinkOf, TokenRow
  <2> HIDE DEF a
  <2>2. p \in LinkSteps /\ p \in Steps
    BY StepNames DEF LinkSteps, VerifySteps, ResetSteps
  <2> QED
    BY <1>1, <2>1, <2>2, KnownParts
<1>4. TypeHistory' /\ TypeUsers'
  BY <1>1, <1>2 DEF IInv, TypeOK, TypeHistory, TypeUsers, TokenRow
<1> HIDE DEF a
<1> QED
  BY <1>1, <1>3, <1>4, UserStep

-----------------------------------------------------------------------------
(* The steps of accounts *)

(* A new row u, and the request that inserted it *)
LEMMA InsertStep ==
  ASSUME IInv, NEW r \in Requests, NEW p \in {"session.create", "token.create"},
         NEW u \in Users, user[u].st = "free", NEW row \in UserRow,
         user' = [user EXCEPT ![u] = row], Goto(r, p, [arg[r] EXCEPT !.user = u]),
         arg[r].email \in Emails, p = "token.create" => arg[r].op = "register",
         TypeHistory', UNCHANGED <<sessionVars, token>>
  PROVE  Effect(r)
<1> DEFINE a == [arg[r] EXCEPT !.user = u]
<1>1. a \in Args /\ a.user = u /\ a.email = arg[r].email /\ a.op = arg[r].op
  BY DEF IInv, TypeOK, Args
<1>2. p \in Steps
  BY StepNames DEF UserSteps
<1>3. TypeUsers' /\ user'[u].st # "free" /\ \A v \in Users \ {u} : user'[v] = user[v]
  BY DEF IInv, TypeOK, TypeUsers, UserRow
<1>4. \A v \in Users : user[v].st # "free" => user'[v].st # "free"
  BY <1>3
<1>5. Tables' /\ Grows
  BY <1>3, <1>4, SessionsStay, TokensStay DEF Tables, Grows
<1> HIDE DEF a
<1>6. Only(r) /\ pc'[r] = p /\ arg'[r] = a
  BY <1>1, <1>2, Moves DEF a
<1>7. Known(r)'
  BY <1>1, <1>3, <1>6 DEF Known, KnownAt, UserSteps, VerifySteps, ResetSteps, LinkSteps,
                          OwnSteps, RefreshSteps
<1> QED
  BY <1>5, <1>6, <1>7 DEF Effect

LEMMA InsertedRow ==
  ASSUME NEW e \in Emails
  PROVE  /\ [st |-> "live", email |-> e, verified |-> FALSE, pw |-> ~FALSE,
             attempts |-> 0, lock |-> "none"] \in UserRow
         /\ [st |-> "live", email |-> e, verified |-> TRUE, pw |-> ~TRUE,
             attempts |-> 0, lock |-> "none"] \in UserRow
BY ConstantsAssumption DEF UserRow

LEMMA RegisterEffect == ASSUME IInv, NEW r \in Requests, Register(r) PROVE Effect(r)
<1>1. arg[r].email \in Emails /\ arg[r].op = "register"
  BY KnownParts DEF Register, IInv, Known
<1>2. CASE Taken(arg[r].email)
  BY <1>2, RefusedEffect DEF Register, InsertUser
<1>3. CASE ~Taken(arg[r].email)
  <2> DEFINE row == [st |-> "live", email |-> arg[r].email, verified |-> FALSE,
                     pw |-> ~FALSE, attempts |-> 0, lock |-> "none"]
  <2>1. PICK u \in Users :
          /\ user[u].st = "free" /\ user' = [user EXCEPT ![u] = row] /\ proven' = proven
          /\ Goto(r, "token.create", [arg[r] EXCEPT !.user = u])
          /\ UNCHANGED <<sessionVars, token, mix, uses, closed>>
    BY <1>3 DEF Register, InsertUser
  <2>2. row \in UserRow
    BY <1>1, InsertedRow
  <2>3. TypeHistory'
    BY <2>1 DEF IInv, TypeOK, TypeHistory
  <2> HIDE DEF row
  <2> QED
    BY <1>1, <2>1, <2>2, <2>3, InsertStep
<1> QED
  BY <1>2, <1>3

LEMMA GoogleRegisterEffect ==
  ASSUME IInv, NEW r \in Requests, GoogleRegister(r)
  PROVE  Effect(r)
<1>1. arg[r].email \in Emails
  BY KnownParts DEF GoogleRegister, IInv, Known
<1>2. CASE Taken(arg[r].email)
  BY <1>2, RefusedEffect DEF GoogleRegister, InsertUser
<1>3. CASE ~Taken(arg[r].email)
  <2> DEFINE row == [st |-> "live", email |-> arg[r].email, verified |-> TRUE,
                     pw |-> ~TRUE, attempts |-> 0, lock |-> "none"]
  <2>1. PICK u \in Users :
          /\ user[u].st = "free" /\ user' = [user EXCEPT ![u] = row]
          /\ proven' = [proven EXCEPT ![u] = {arg[r].email}]
          /\ Goto(r, "session.create", [arg[r] EXCEPT !.user = u])
          /\ UNCHANGED <<sessionVars, token, mix, uses, closed>>
    BY <1>3 DEF GoogleRegister, InsertUser
  <2>2. row \in UserRow
    BY <1>1, InsertedRow
  <2>3. TypeHistory'
    BY <1>1, <2>1 DEF IInv, TypeOK, TypeHistory
  <2> HIDE DEF row
  <2> QED
    BY <1>1, <2>1, <2>2, <2>3, InsertStep
<1> QED
  BY <1>2, <1>3

LEMMA CreateTokenEffect ==
  ASSUME IInv, NEW r \in Requests, CreateToken(r)
  PROVE  Effect(r)
<1>1. /\ pc[r] = "token.create" /\ arg[r] \in Args /\ arg[r].user \in Users
      /\ user[arg[r].user].st # "free" /\ arg[r].email \in Emails
      /\ arg[r].op \in Kinds \cup {"register"}
  BY KnownParts DEF CreateToken, IInv, TypeOK, Known, UserOf
<1>2. PICK t \in TokenIds :
        /\ token[t].st = "free"
        /\ token' = [token EXCEPT ![t] =
             [st |-> "open", kind |-> IF arg[r].op = "register" THEN "verify" ELSE arg[r].op,
              user |-> arg[r].user, email |-> arg[r].email]]
  BY DEF CreateToken
<1>3. TypeTokens'
  BY <1>1, <1>2 DEF IInv, TypeOK, TypeTokens, TokenRow, Kinds
<1>4. UNCHANGED <<sessionVars, user, mix, history>>
  BY DEF CreateToken
<1>5. Tables' /\ Grows
  <2>1. Owners'
    BY <1>1, <1>2, <1>4 DEF IInv, Owners, TypeOK
  <2>2. TypeUsers' /\ TypeHistory'
    BY <1>4 DEF IInv, TypeOK, TypeUsers, TypeHistory, history
  <2>3. \A s \in TokenIds : token[s].st # "free" => token'[s] = token[s]
    BY <1>2 DEF IInv, TypeOK
  <2> QED
    BY <1>3, <1>4, <2>1, <2>2, <2>3, SessionsStay DEF Tables, Grows
<1>6. CASE arg[r].op = "register"
  <2> DEFINE a == [NoArgs EXCEPT !.user = arg[r].user]
  <2>1. a \in Args /\ KnownAt("session.create", a)
    BY <1>1, KnownParts DEF NoArgs, Args, UserOf
  <2>2. "session.create" \in Steps /\ Goto(r, "session.create", a)
    BY <1>6, StepNames DEF CreateToken, UserSteps
  <2> HIDE DEF a
  <2> QED
    BY <1>5, <2>1, <2>2, TableStep
<1>7. CASE arg[r].op # "register"
  BY <1>5, <1>7, TableStep, IdleKnown DEF CreateToken, Finish
<1> QED
  BY <1>6, <1>7

LEMMA LoginReadEffect ==
  ASSUME IInv, NEW r \in Requests, LoginRead(r, TRUE) \/ LoginRead(r, FALSE)
  PROVE  Effect(r)
<1> DEFINE a == [arg[r] EXCEPT !.n = user[arg[r].user].attempts]
<1>1. arg[r] \in Args /\ UserOf(arg[r])
  BY KnownParts DEF LoginRead, IInv, TypeOK, Known
<1>2. user[arg[r].user].attempts \in Nat
  BY <1>1, Rows DEF UserOf, UserRow
<1>3. a \in Args /\ a.user = arg[r].user /\ a.n \in Nat
  BY <1>1, <1>2 DEF Args
<1> HIDE DEF a
<1>4. \A p \in {"login.reset", "login.fail"} : p \in Steps /\ KnownAt(p, a)
  BY <1>1, <1>3, KnownParts, StepNames DEF UserOf, UserSteps
<1>5. Continue(r, "login.reset", a) \/ Continue(r, "login.fail", a) \/ Refused(r)
  BY DEF LoginRead, a
<1> QED
  BY <1>3, <1>4, <1>5, ContinueEffect, RefusedEffect

(* The row of a user that a step writes keeps its type and its place. *)
LEMMA Written ==
  ASSUME IInv, NEW u \in Users, user[u].st # "free"
  PROVE  /\ \A n \in 0..MaxAttempts, l \in {"none", "held", "over"} :
              [user[u] EXCEPT !.attempts = n, !.lock = l] \in UserRow
         /\ [user[u] EXCEPT !.verified = TRUE] \in UserRow
         /\ [user[u] EXCEPT !.pw = TRUE, !.attempts = 0, !.lock = "none"] \in UserRow
         /\ \A e \in Emails : [user[u] EXCEPT !.email = e] \in UserRow
         /\ [user[u] EXCEPT !.st = "gone"] \in UserRow
<1>1. PICK row \in UserRow : row = user[u]
  BY Rows
<1>2. \A n \in 0..MaxAttempts, l \in {"none", "held", "over"} :
        [row EXCEPT !.attempts = n, !.lock = l] \in UserRow
  BY DEF UserRow
<1>3. [row EXCEPT !.verified = TRUE] \in UserRow
  BY DEF UserRow
<1>4. [row EXCEPT !.pw = TRUE, !.attempts = 0, !.lock = "none"] \in UserRow
  <2>1. \A yes \in BOOLEAN, n \in 0..MaxAttempts :
          [row EXCEPT !.pw = yes, !.attempts = n, !.lock = "none"] \in UserRow
    BY DEF UserRow
  <2>2. TRUE \in BOOLEAN /\ 0 \in 0..MaxAttempts
    BY ConstantsAssumption
  <2> QED
    BY <2>1, <2>2
<1>5. /\ \A e \in Emails : [row EXCEPT !.email = e] \in UserRow
      /\ [row EXCEPT !.st = "gone"] \in UserRow
  BY DEF UserRow
<1> QED
  BY <1>1, <1>2, <1>3, <1>4, <1>5

LEMMA LoginResetEffect == ASSUME IInv, NEW r \in Requests, LoginReset(r) PROVE Effect(r)
<1> DEFINE u == arg[r].user
           a == [arg[r] EXCEPT !.n = Null]
<1>1. arg[r] \in Args /\ u \in Users /\ user[u].st # "free"
  BY KnownParts DEF LoginReset, IInv, TypeOK, Known, UserOf
<1>2. a \in Args /\ KnownAt("session.create", a) /\ "session.create" \in Steps
  BY <1>1, KnownParts, StepNames DEF UserOf, Args, UserSteps
<1>3. [user[u] EXCEPT !.attempts = 0, !.lock = "none"] \in UserRow
  <2>1. 0 \in 0..MaxAttempts
    BY ConstantsAssumption
  <2> HIDE DEF u
  <2> QED
    BY <1>1, <2>1, Written
<1>4. user' = [user EXCEPT ![u] = [user[u] EXCEPT !.attempts = 0, !.lock = "none"]]
  BY DEF LoginReset
<1>5. TypeHistory' /\ Goto(r, "session.create", a) /\ UNCHANGED <<sessionVars, token>>
  BY DEF LoginReset, IInv, TypeOK, TypeHistory, history
<1> HIDE DEF u, a
<1> QED
  BY <1>1, <1>2, <1>3, <1>4, <1>5, RowStep

LEMMA LoginFailEffect == ASSUME IInv, NEW r \in Requests, LoginFail(r) PROVE Effect(r)
<1> DEFINE u == arg[r].user
           lock == IF arg[r].n + 1 >= MaxFailed THEN "held" ELSE user[u].lock
<1>1. u \in Users /\ user[u].st # "free"
  BY KnownParts DEF LoginFail, IInv, Known, UserOf
<1>2. user[u].attempts + 1 \in 0..MaxAttempts /\ lock \in {"none", "held", "over"}
  <2>1. /\ user[u].attempts \in 0..MaxAttempts /\ user[u].lock \in {"none", "held", "over"}
        /\ user[u].attempts < MaxAttempts /\ MaxAttempts \in Nat
    BY <1>1, Rows, ConstantsAssumption DEF LoginFail, UserRow
  <2> HIDE DEF u
  <2> QED
    BY <2>1
<1>3. user' = [user EXCEPT ![u] = [user[u] EXCEPT !.attempts = user[u].attempts + 1,
                                                  !.lock = lock]]
  BY DEF LoginFail
<1>4. TypeHistory' /\ Goto(r, "idle", NoArgs) /\ UNCHANGED <<sessionVars, token>>
  BY DEF LoginFail, Finish, IInv, TypeOK, TypeHistory, history
<1> HIDE DEF u, lock
<1>5. [user[u] EXCEPT !.attempts = user[u].attempts + 1, !.lock = lock] \in UserRow
  BY <1>1, <1>2, Written
<1> QED
  BY <1>1, <1>3, <1>4, <1>5, IdleKnown, RowStep

LEMMA LinkArgs ==
  ASSUME IInv, NEW r \in Requests, pc[r] \in LinkSteps
  PROVE  /\ arg[r] \in Args /\ UserOf(arg[r]) /\ LinkOf(arg[r])
         /\ token[arg[r].tok] \in TokenRow /\ arg[r].email \in Emails
         /\ pc[r] \in VerifySteps => token[arg[r].tok].kind = "verify"
<1>1. arg[r] \in Args /\ Known(r)
  BY DEF IInv, TypeOK
<1>2. /\ UserOf(arg[r]) /\ LinkOf(arg[r])
      /\ pc[r] \in VerifySteps => token[arg[r].tok].kind = "verify"
  BY <1>1 DEF Known, KnownAt, UserOf, LinkOf
<1> QED
  BY <1>1, <1>2, Rows DEF LinkOf, TokenRow

LEMMA SpendEffect ==
  ASSUME IInv, NEW r \in Requests, VerifySpend(r) \/ ResetSpend(r) \/ ConfirmSpend(r)
  PROVE  Effect(r)
<1> DEFINE t == arg[r].tok
<1>1. pc[r] \in LinkSteps /\ (VerifySpend(r) => pc[r] \in VerifySteps)
  BY DEF VerifySpend, ResetSpend, ConfirmSpend, LinkSteps, VerifySteps, ResetSteps
<1>2. t \in TokenIds /\ token[t] \in TokenRow /\ UserOf(arg[r]) /\ LinkOf(arg[r])
      /\ arg[r] \in Args
  BY <1>1, LinkArgs DEF LinkOf
<1>3. /\ token' = [token EXCEPT ![t].st = "used"]
      /\ UNCHANGED <<sessionVars, user, mix, history>>
  BY DEF VerifySpend, ResetSpend, ConfirmSpend, Spend
<1>4. /\ TypeTokens'
      /\ \A s \in TokenIds : token[s].st # "free" =>
           /\ token'[s].st # "free" /\ token'[s].kind = token[s].kind
           /\ token'[s].user = token[s].user /\ token'[s].email = token[s].email
      /\ \A s \in TokenIds : token'[s].st # "free" =>
           token[s].st # "free" /\ token'[s].user = token[s].user
  <2>1. [token[t] EXCEPT !.st = "used"] \in TokenRow
    BY <1>2 DEF TokenRow
  <2>2. token[t].st # "free"
    BY <1>2 DEF LinkOf
  <2> QED
    BY <1>2, <1>3, <2>1, <2>2 DEF IInv, TypeOK, TypeTokens, TokenRow
<1>5. Tables' /\ Grows
  <2>1. TypeUsers' /\ TypeHistory'
    BY <1>3 DEF IInv, TypeOK, TypeUsers, TypeHistory, history
  <2>2. Owners'
    BY <1>3, <1>4 DEF IInv, Owners
  <2> QED
    BY <1>3, <1>4, <2>1, <2>2, SessionsStay DEF Tables, Grows
<1>6. CASE ConfirmSpend(r)
  BY <1>5, <1>6, IdleKnown, TableStep DEF ConfirmSpend, Finish
<1>7. CASE VerifySpend(r)
  <2>1. KnownAt("verify.mark", arg[r]) /\ "verify.mark" \in Steps
    <3>1. token[t].kind = "verify"
      BY <1>1, <1>7, LinkArgs
    <3> QED
      BY <1>2, <3>1, KnownParts, StepNames DEF LinkSteps, VerifySteps
  <2> QED
    BY <1>2, <1>5, <1>7, <2>1, TableStep DEF VerifySpend, Spend
<1>8. CASE ResetSpend(r)
  <2>1. KnownAt("reset.write", arg[r]) /\ "reset.write" \in Steps
    BY <1>2, KnownParts, StepNames DEF LinkSteps, VerifySteps, ResetSteps
  <2> QED
    BY <1>2, <1>5, <1>8, <2>1, TableStep DEF ResetSpend, Spend
<1> QED
  BY <1>6, <1>7, <1>8

LEMMA MarkEffect ==
  ASSUME IInv, NEW r \in Requests, VerifyMark(r) \/ ResetWrite(r)
  PROVE  Effect(r)
<1> DEFINE u == arg[r].user
<1>1. pc[r] \in LinkSteps
  BY DEF VerifyMark, ResetWrite, LinkSteps, VerifySteps, ResetSteps
<1>2. u \in Users /\ user[u].st # "free" /\ arg[r].tok \in TokenIds
  BY <1>1, LinkArgs DEF UserOf, LinkOf
<1>3. TypeHistory' /\ Goto(r, "idle", NoArgs) /\ UNCHANGED <<sessionVars, token>>
  BY <1>2 DEF VerifyMark, ResetWrite, Used, Finish, IInv, TypeOK, TypeHistory
<1>4. \/ user' = [user EXCEPT ![u] = [user[u] EXCEPT !.verified = TRUE]]
      \/ user' = [user EXCEPT ![u] = [user[u] EXCEPT !.pw = TRUE, !.attempts = 0,
                                                     !.lock = "none"]]
  BY DEF VerifyMark, ResetWrite, WithPassword
<1> HIDE DEF u
<1> QED
  BY <1>2, <1>3, <1>4, Written, IdleKnown, RowStep

LEMMA ConfirmEmailEffect ==
  ASSUME IInv, NEW r \in Requests, ConfirmEmail(r)
  PROVE  Effect(r)
<1> DEFINE u == arg[r].user
           e == arg[r].email
<1>1. /\ u \in Users /\ user[u].st # "free" /\ e \in Emails /\ arg[r] \in Args
      /\ KnownAt("confirm.spend", arg[r]) /\ "confirm.spend" \in Steps
  <2>1. pc[r] \in LinkSteps
    BY DEF ConfirmEmail, LinkSteps
  <2> QED
    BY <2>1, LinkArgs, KnownParts, StepNames DEF UserOf, LinkSteps, VerifySteps, ResetSteps
<1>2. CASE Taken(e) /\ user[u].email # e
  BY <1>2, RefusedEffect DEF ConfirmEmail
<1>3. CASE ~(Taken(e) /\ user[u].email # e)
  <2>1. /\ user' = [user EXCEPT ![u] = [user[u] EXCEPT !.email = e]]
        /\ Goto(r, "confirm.spend", arg[r])
        /\ UNCHANGED <<sessionVars, token, mix, history>>
    BY <1>3 DEF ConfirmEmail
  <2>2. TypeHistory'
    BY <2>1 DEF IInv, TypeOK, TypeHistory, history
  <2> HIDE DEF u, e
  <2> QED
    BY <1>1, <2>1, <2>2, Written, RowStep
<1> QED
  BY <1>2, <1>3

LEMMA PasswordEffect ==
  ASSUME IInv, NEW r \in Requests, ChangePassword(r)
  PROVE  Effect(r)
<1> DEFINE u == arg[r].user
<1>1. u \in Users /\ user[u].st # "free"
  BY KnownParts DEF ChangePassword, IInv, Known, UserOf
<1>2. TypeHistory' /\ Goto(r, "idle", NoArgs) /\ UNCHANGED <<sessionVars, token>>
  BY DEF ChangePassword, Finish, IInv, TypeOK, TypeHistory, history
<1>3. user' = [user EXCEPT ![u] = [user[u] EXCEPT !.pw = TRUE, !.attempts = 0, !.lock = "none"]]
  BY DEF ChangePassword, WithPassword
<1> HIDE DEF u
<1> QED
  BY <1>1, <1>2, <1>3, Written, IdleKnown, RowStep

LEMMA SoftDeleteEffect ==
  ASSUME IInv, NEW r \in Requests, SoftDelete(r)
  PROVE  Effect(r)
<1> DEFINE u == arg[r].user
<1>1. /\ u \in Users /\ user[u].st # "free" /\ arg[r] \in Args
      /\ KnownAt("delete.revoke", arg[r]) /\ "delete.revoke" \in Steps
  BY KnownParts, StepNames DEF SoftDelete, IInv, TypeOK, Known, UserOf, UserSteps
<1>2. TypeHistory' /\ Goto(r, "delete.revoke", arg[r]) /\ UNCHANGED <<sessionVars, token>>
  BY DEF SoftDelete, IInv, TypeOK, TypeHistory, history
<1>3. user' = [user EXCEPT ![u] = [user[u] EXCEPT !.st = "gone"]]
  BY DEF SoftDelete
<1> HIDE DEF u
<1> QED
  BY <1>1, <1>2, <1>3, Written, RowStep

-----------------------------------------------------------------------------
(* The steps of sessions *)

(* ... write to no other table. *)
LEMMA AccountsStay ==
  ASSUME IInv, UNCHANGED <<user, token, mix, proven, uses>>, closed' \subseteq Users
  PROVE  /\ TypeUsers' /\ TypeTokens' /\ TypeHistory' /\ Owners'
         /\ \A u \in Users : user'[u] = user[u]
         /\ \A t \in TokenIds : token'[t] = token[t]
BY DEF IInv, TypeOK, TypeUsers, TypeTokens, TypeHistory, Owners

(* The requests of a session write to its row, and to its cookie. *)
LEMMA SessionStepEffect ==
  ASSUME IInv, NEW r \in Requests, NEW p \in Steps, NEW a \in Args, Goto(r, p, a),
         KnownAt(p, a), UNCHANGED <<user, token, mix, proven, uses>>, closed' \subseteq Users,
         TypeSessions',
         \A s \in SessionIds : session[s].st # "free" => session'[s].st # "free",
         \A s \in SessionIds : cookie'[s] = cookie[s] \/ session'[s].st # "free"
  PROVE  Effect(r)
<1>1. Cookies'
  BY DEF IInv, Cookies
<1> QED
  BY <1>1, AccountsStay, TableStep DEF Tables, Grows

LEMMA CreateSessionEffect ==
  ASSUME IInv, NEW r \in Requests, CreateSession(r), UNCHANGED accountVars
  PROVE  Effect(r)
<1>1. PICK s \in SessionIds :
        /\ session[s].st = "free"
        /\ session' = [session EXCEPT ![s] =
                         [st |-> "ACTIVE", user |-> arg[r].user, hash |-> now]]
        /\ cookie' = [cookie EXCEPT ![s] = now]
  BY DEF CreateSession
<1>2. arg[r].user \in Users /\ now \in 0..MaxNow
  BY KnownParts DEF CreateSession, IInv, TypeOK, Known, UserOf
<1>3. TypeSessions'
  BY <1>1, <1>2 DEF CreateSession, IInv, TypeOK, TypeSessions, SessionRow
<1>4. /\ session'[s].st # "free"
      /\ \A q \in SessionIds \ {s} : session'[q] = session[q] /\ cookie'[q] = cookie[q]
  BY <1>1 DEF IInv, TypeOK
<1>5. /\ \A q \in SessionIds : session[q].st # "free" => session'[q].st # "free"
      /\ \A q \in SessionIds : cookie'[q] = cookie[q] \/ session'[q].st # "free"
  BY <1>4
<1>6. /\ Goto(r, "idle", NoArgs) /\ UNCHANGED <<user, token, mix, proven, uses>>
      /\ closed' \subseteq Users
  BY DEF CreateSession, Finish, accountVars, history, IInv, TypeOK
<1> QED
  BY <1>3, <1>5, <1>6, IdleKnown, SessionStepEffect

LEMMA OwnArgs ==
  ASSUME IInv, NEW r \in Requests, pc[r] \in OwnSteps
  PROVE  /\ arg[r] \in Args /\ SessionOf(arg[r]) /\ session[arg[r].sess] \in SessionRow
         /\ pc[r] \in {"refresh.write", "refresh.answer"} => arg[r].n \in 0..MaxNow
<1>1. arg[r] \in Args /\ Known(r)
  BY DEF IInv, TypeOK
<1>2. /\ SessionOf(arg[r])
      /\ pc[r] \in {"refresh.write", "refresh.answer"} => arg[r].n \in 0..MaxNow
  BY <1>1 DEF Known, KnownAt, SessionOf
<1> QED
  BY <1>1, <1>2, Rows DEF SessionOf

LEMMA OpenOwnEffect ==
  ASSUME IInv, NEW r \in Requests, NEW s \in SessionIds,
         OpenRefresh(r, s) \/ OpenRevoke(r, s), UNCHANGED accountVars
  PROVE  Effect(r)
<1>0. /\ torn' \subseteq SessionIds
      /\ UNCHANGED <<session, cookie, now, user, token, mix, history>>
  BY DEF OpenRefresh, OpenRevoke, sessionVars, accountVars, history, IInv, TypeOK
<1>1. CASE OpenRefresh(r, s)
  <2> DEFINE a == [NoArgs EXCEPT !.sess = s, !.tok = cookie[s]]
  <2>1. cookie[s] \in 0..MaxNow /\ session[s].st # "free"
    BY <1>1 DEF OpenRefresh, IInv, TypeOK, Cookies
  <2>2. a \in Args /\ KnownAt("refresh.read", a) /\ "refresh.read" \in Steps
    BY <2>1, KnownParts, StepNames DEF NoArgs, Args, SessionOf, OwnSteps, RefreshSteps
  <2>3. Goto(r, "refresh.read", a)
    BY <1>1 DEF OpenRefresh
  <2> HIDE DEF a
  <2> QED
    BY <1>0, <2>2, <2>3, Silent
<1>2. CASE OpenRevoke(r, s)
  <2> DEFINE a == [NoArgs EXCEPT !.sess = s]
  <2>1. a \in Args /\ KnownAt("revoke.write", a) /\ "revoke.write" \in Steps
    BY <1>2, KnownParts, StepNames DEF OpenRevoke, NoArgs, Args, SessionOf, OwnSteps
  <2>2. Goto(r, "revoke.write", a)
    BY <1>2 DEF OpenRevoke
  <2> HIDE DEF a
  <2> QED
    BY <1>0, <2>1, <2>2, Silent
<1> QED
  BY <1>1, <1>2

LEMMA RefreshReadEffect ==
  ASSUME IInv, NEW r \in Requests, RefreshRead(r) \/ RefreshReuse(r), UNCHANGED accountVars
  PROVE  Effect(r)
<1> DEFINE a == [arg[r] EXCEPT !.n = now]
<1>1. arg[r] \in Args /\ SessionOf(arg[r]) /\ now \in 0..MaxNow /\ torn \subseteq SessionIds
  BY OwnArgs DEF RefreshRead, RefreshReuse, OwnSteps, RefreshSteps, IInv, TypeOK
<1>2. /\ a \in Args /\ KnownAt("refresh.write", a) /\ KnownAt("refresh.revoke", arg[r])
      /\ "refresh.write" \in Steps /\ "refresh.revoke" \in Steps
  BY <1>1, KnownParts, StepNames DEF Args, SessionOf, OwnSteps, RefreshSteps
<1>3. /\ UNCHANGED <<session, cookie, now, user, token, mix, history>> /\ torn' = torn
      /\ \/ Goto(r, "refresh.write", a) \/ Goto(r, "refresh.revoke", arg[r])
         \/ Goto(r, "idle", NoArgs)
  BY DEF RefreshRead, RefreshReuse, Finish, sessionVars, accountVars
<1> HIDE DEF a
<1> QED
  BY <1>1, <1>2, <1>3, IdleKnown, Silent

LEMMA RefreshWriteEffect ==
  ASSUME IInv, NEW r \in Requests, RefreshWrite(r), UNCHANGED accountVars
  PROVE  Effect(r)
<1> DEFINE s == arg[r].sess
<1>1. /\ arg[r] \in Args /\ s \in SessionIds /\ session[s].st # "free"
      /\ session[s] \in SessionRow /\ arg[r].n \in 0..MaxNow
      /\ KnownAt("refresh.answer", arg[r]) /\ "refresh.answer" \in Steps
  BY OwnArgs, KnownParts, StepNames DEF RefreshWrite, OwnSteps, RefreshSteps, SessionOf
<1>2. /\ session' = [session EXCEPT ![s] = [session[s] EXCEPT !.hash = arg[r].n]]
      /\ Goto(r, "refresh.answer", arg[r]) /\ UNCHANGED <<cookie, now, torn>>
      /\ UNCHANGED <<user, token, mix, proven, uses>> /\ closed' \subseteq Users
  BY DEF RefreshWrite, accountVars, history, IInv, TypeOK
<1> HIDE DEF s
<1>3. [session[s] EXCEPT !.hash = arg[r].n] \in SessionRow
  BY <1>1 DEF SessionRow
<1>4. /\ TypeSessions'
      /\ \A q \in SessionIds : session[q].st # "free" => session'[q].st # "free"
  BY <1>1, <1>2, <1>3 DEF IInv, TypeOK, TypeSessions, SessionRow
<1> QED
  BY <1>1, <1>2, <1>4, SessionStepEffect

LEMMA RevokedRows ==
  ASSUME IInv, NEW S \in SUBSET SessionIds, \A s \in S : session[s].st # "free",
         session' = Revoked(S), UNCHANGED <<cookie, now, torn>>
  PROVE  /\ TypeSessions'
         /\ \A s \in SessionIds : session[s].st # "free" => session'[s].st # "free"
<1>1. \A s \in S : [session[s] EXCEPT !.st = "REVOKED"] \in SessionRow
  BY Rows DEF SessionRow
<1> QED
  BY <1>1 DEF Revoked, IInv, TypeOK, TypeSessions, SessionRow

LEMMA RevokeEffect ==
  ASSUME IInv, NEW r \in Requests, RevokeFamily(r) \/ RevokeWrite(r), UNCHANGED accountVars
  PROVE  Effect(r)
<1>1. SessionOf(arg[r])
  BY OwnArgs DEF RevokeFamily, RevokeWrite, OwnSteps
<1>2. /\ session' = Revoked({arg[r].sess}) /\ UNCHANGED <<cookie, now, torn>>
      /\ Goto(r, "idle", NoArgs)
      /\ UNCHANGED <<user, token, mix, proven, uses>> /\ closed' \subseteq Users
  BY DEF RevokeFamily, RevokeWrite, Finish, accountVars, history, IInv, TypeOK
<1>3. /\ TypeSessions'
      /\ \A s \in SessionIds : session[s].st # "free" => session'[s].st # "free"
  <2>1. /\ {arg[r].sess} \in SUBSET SessionIds
        /\ \A s \in {arg[r].sess} : session[s].st # "free"
    BY <1>1 DEF SessionOf
  <2> QED
    BY <1>2, <2>1, RevokedRows
<1> QED
  BY <1>2, <1>3, IdleKnown, SessionStepEffect

LEMMA RefreshAnswerEffect ==
  ASSUME IInv, NEW r \in Requests, NEW found, RefreshAnswer(r, found), UNCHANGED accountVars
  PROVE  Effect(r)
<1> DEFINE s == arg[r].sess
<1>1. s \in SessionIds /\ session[s].st # "free" /\ arg[r].n \in 0..MaxNow
  BY OwnArgs DEF RefreshAnswer, OwnSteps, RefreshSteps, SessionOf
<1>2. /\ cookie' = cookie \/ cookie' = [cookie EXCEPT ![s] = arg[r].n]
      /\ torn' = torn \/ torn' = torn \cup {s}
      /\ UNCHANGED <<session, now>> /\ Goto(r, "idle", NoArgs)
      /\ UNCHANGED <<user, token, mix, proven, uses>> /\ closed' \subseteq Users
  BY DEF RefreshAnswer, Finish, accountVars, history, IInv, TypeOK
<1> HIDE DEF s
<1>3. /\ TypeSessions'
      /\ \A q \in SessionIds : cookie'[q] = cookie[q] \/ session'[q].st # "free"
  BY <1>1, <1>2 DEF IInv, TypeOK, TypeSessions
<1> QED
  BY <1>2, <1>3, IdleKnown, SessionStepEffect

LEMMA DeleteRevokeEffect ==
  ASSUME IInv, NEW r \in Requests, DeleteRevoke(r)
  PROVE  Effect(r)
<1> DEFINE u == arg[r].user
<1>1. u \in Users
  BY KnownParts DEF DeleteRevoke, IInv, Known, UserOf
<1>2. /\ session' = Revoked(ActiveSessions(u)) /\ UNCHANGED <<cookie, now, torn>>
      /\ Goto(r, "idle", NoArgs)
      /\ UNCHANGED <<user, token, mix, proven, uses>> /\ closed' \subseteq Users
  BY <1>1 DEF DeleteRevoke, Finish, IInv, TypeOK
<1>3. ActiveSessions(u) \subseteq SessionIds /\ \A s \in ActiveSessions(u) : session[s].st # "free"
  BY DEF ActiveSessions
<1> HIDE DEF u
<1>4. /\ TypeSessions'
      /\ \A s \in SessionIds : session[s].st # "free" => session'[s].st # "free"
  BY <1>2, <1>3, RevokedRows
<1> QED
  BY <1>2, <1>4, IdleKnown, SessionStepEffect

-----------------------------------------------------------------------------
(* What a step is, and what no request does *)

World ==
  \/ (\E s \in SessionIds : RevokeOthers(s)) /\ UNCHANGED accountVars
  \/ Tick /\ UNCHANGED accountVars
  \/ \E u \in Users : LockEnds(u)

LEMMA WorldInv == ASSUME IInv, World PROVE IInv' /\ Grows /\ UNCHANGED <<pc, arg>>
<1>1. CASE (\E s \in SessionIds : RevokeOthers(s)) /\ UNCHANGED accountVars
  <2>1. PICK s \in SessionIds : RevokeOthers(s)
    BY <1>1
  <2> DEFINE S == ActiveSessions(session[s].user) \ {s}
  <2>2. S \subseteq SessionIds /\ \A q \in S : session[q].st # "free"
    BY DEF ActiveSessions
  <2>3. session' = Revoked(S) /\ UNCHANGED <<cookie, now, torn, pc, arg>>
    BY <2>1 DEF RevokeOthers
  <2> HIDE DEF S
  <2>4. /\ TypeSessions'
        /\ \A q \in SessionIds : session[q].st # "free" => session'[q].st # "free"
    BY <2>2, <2>3, RevokedRows
  <2>5. UNCHANGED <<user, token, mix, proven, uses>> /\ closed' \subseteq Users
    BY <1>1 DEF accountVars, history, IInv, TypeOK
  <2>6. Cookies' /\ Grows
    BY <2>3, <2>4, <2>5, AccountsStay DEF Cookies, IInv, Grows
  <2>7. \A r \in Requests : Known(r)'
    BY <2>3, <2>6 DEF Grows, Known, KnownAt, IInv, UserSteps, VerifySteps, ResetSteps,
                      LinkSteps, OwnSteps, RefreshSteps
  <2> QED
    BY <2>3, <2>4, <2>5, <2>6, <2>7, AccountsStay
       DEF IInv, TypeOK, TypeSessions, TypeUsers, TypeTokens, TypeHistory
<1>2. CASE Tick /\ UNCHANGED accountVars
  <2>1. now' \in 0..MaxNow
    BY <1>2, ConstantsAssumption DEF Tick, IInv, TypeOK
  <2>2. UNCHANGED <<session, cookie, torn, user, token, mix, proven, uses, closed, pc, arg>>
    BY <1>2 DEF Tick, accountVars, history
  <2> QED
    BY <2>1, <2>2 DEF IInv, TypeOK, Owners, Cookies, Known, KnownAt, Grows
<1>3. CASE \E u \in Users : LockEnds(u)
  <2>1. PICK u \in Users : LockEnds(u)
    BY <1>3
  <2>2. user[u].st # "free" /\ user[u] \in UserRow
    <3>1. user[u].lock = "held"
      BY <2>1 DEF LockEnds
    <3>2. user[u] # FreeUser
      BY <3>1 DEF FreeUser
    <3> QED
      BY <3>2 DEF IInv, TypeOK, UserRow
  <2>3. [user[u] EXCEPT !.lock = "over"] \in UserRow
    BY <2>2 DEF UserRow
  <2>4. /\ user' = [user EXCEPT ![u] = [user[u] EXCEPT !.lock = "over"]]
        /\ UNCHANGED <<sessionVars, token, mix, history, pc, arg>>
    BY <2>1 DEF LockEnds
  <2>5. TypeUsers' /\ \A v \in Users : user[v].st # "free" => user'[v].st # "free"
    BY <2>2, <2>3, <2>4 DEF IInv, TypeOK, TypeUsers, UserRow
  <2>6. Owners' /\ Cookies' /\ Grows /\ TypeSessions'
    BY <2>4, <2>5, TokensStay, SessionsStay DEF Grows
  <2>7. \A r \in Requests : Known(r)'
    BY <2>4, <2>6 DEF Grows, Known, KnownAt, IInv, UserSteps, VerifySteps, ResetSteps,
                      LinkSteps, OwnSteps, RefreshSteps
  <2> QED
    BY <2>4, <2>5, <2>6, <2>7
       DEF IInv, TypeOK, TypeSessions, TypeUsers, history
<1> QED
  BY <1>1, <1>2, <1>3 DEF World

(* The steps of request r on sessions *)
OwnStep(r) ==
  /\ UNCHANGED accountVars
  /\ \/ CreateSession(r) \/ RefreshRead(r) \/ RefreshReuse(r) \/ RevokeFamily(r)
     \/ RefreshWrite(r) \/ RevokeWrite(r)
     \/ \E found \in BOOLEAN : RefreshAnswer(r, found)
     \/ \E s \in SessionIds : OpenRefresh(r, s) \/ OpenRevoke(r, s)

LEMMA NextSteps ==
  Next => World \/ \E r \in Requests : Open(r) \/ AccountStep(r) \/ Fail(r) \/ OwnStep(r)
<1> SUFFICES ASSUME Next
             PROVE  World \/ \E r \in Requests :
                               Open(r) \/ AccountStep(r) \/ Fail(r) \/ OwnStep(r)
  OBVIOUS
<1>1. CASE SessionStep /\ UNCHANGED accountVars
  <2>1. \A r \in Requests : Live(session[arg[r].sess].user) \in BOOLEAN
    BY DEF Live
  <2> QED
    BY <1>1, <2>1 DEF SessionStep, OwnStep, World
<1>2. CASE \E u \in Users : LockEnds(u)
  BY <1>2 DEF World
<1> QED
  BY <1>1, <1>2 DEF Next

LEMMA OpenEffect == ASSUME IInv, NEW r \in Requests, Open(r) PROVE Effect(r)
<1>1. CASE \E e \in Emails : OpenRegister(r, e) \/ OpenGoogle(r, e)
  BY <1>1, OpenRegisterEffect, OpenGoogleEffect
<1>2. CASE \E u \in Users : OpenLogin(r, u) \/ OpenChangePassword(r, u) \/ OpenDelete(r, u)
  BY <1>2, OpenUserEffect
<1>3. CASE \E u \in Users : \/ OpenResend(r, u) \/ OpenForgot(r, u)
                            \/ \E e \in Emails : OpenChangeEmail(r, u, e)
  BY <1>3, OpenMailEffect
<1>4. CASE \E t \in TokenIds : OpenVerify(r, t) \/ OpenReset(r, t) \/ OpenConfirm(r, t)
  BY <1>4, OpensEffect
<1> QED
  BY <1>1, <1>2, <1>3, <1>4 DEF Open, OpenOwn

LEMMA RequestEffect ==
  ASSUME IInv, NEW r \in Requests, Open(r) \/ AccountStep(r) \/ Fail(r) \/ OwnStep(r)
  PROVE  Effect(r)
<1>1. CASE AccountStep(r)
  BY <1>1, RegisterEffect, GoogleRegisterEffect, CreateTokenEffect, LoginReadEffect,
     LoginResetEffect, LoginFailEffect, SpendEffect, MarkEffect, ConfirmEmailEffect,
     PasswordEffect, SoftDeleteEffect, DeleteRevokeEffect DEF AccountStep
<1>2. CASE OwnStep(r)
  BY <1>2, CreateSessionEffect, RefreshReadEffect, RevokeEffect, RefreshWriteEffect,
     RefreshAnswerEffect, OpenOwnEffect DEF OwnStep
<1> QED
  BY <1>1, <1>2, OpenEffect, FailEffect

LEMMA StepInv == IInv /\ [Next]_vars => IInv' /\ Grows
<1> SUFFICES ASSUME IInv, [Next]_vars PROVE IInv' /\ Grows
  OBVIOUS
<1>1. CASE UNCHANGED vars
  BY <1>1 DEF vars, sessionVars, accountVars, history, IInv, TypeOK, Owners, Cookies, Known,
              KnownAt, Grows
<1>2. ASSUME NEW r \in Requests, Effect(r) PROVE IInv' /\ Grows
  BY <1>2, EffectInv DEF Effect
<1> QED
  BY <1>1, <1>2, NextSteps, WorldInv, RequestEffect

LEMMA InitInv == Init => IInv
<1> SUFFICES ASSUME Init PROVE IInv
  OBVIOUS
<1>1. TypeOK
  BY ConstantsAssumption, IdleKnown DEF Init, TypeOK
<1>2. \A r \in Requests : Known(r)
  BY IdleKnown DEF Init, Known
<1> QED
  BY <1>1, <1>2 DEF Init, IInv, Owners, Cookies, FreeToken

LEMMA Inductive == Spec => []IInv
BY InitInv, StepInv, PTL DEF Spec

(* What a request read before an await still exists when it writes after   *)
(* it, and every table keeps its type.                                     *)
THEOREM TypeCorrect == Spec => []TypeOK
<1>1. IInv => TypeOK
  BY DEF IInv
<1> QED
  BY <1>1, Inductive, PTL

-----------------------------------------------------------------------------
(* Sessions *)

(* No step, of a refresh that read the session before it was revoked least *)
(* of all, makes a revoked session valid again.                            *)
THEOREM Revocation == Spec => RevokedForGood
<1> DEFINE Kept == \A s \in SessionIds : session[s].st = "REVOKED" => session'[s].st = "REVOKED"
<1>1. IInv /\ [Next]_vars => Kept
  <2> SUFFICES ASSUME IInv, [Next]_vars PROVE Kept
    OBVIOUS
  <2>1. CASE UNCHANGED session
    BY <2>1
  <2>2. ASSUME NEW S, session' = Revoked(S) PROVE Kept
    BY <2>2 DEF Revoked, IInv, TypeOK
  <2>3. ASSUME NEW r \in Requests, OwnStep(r) PROVE Kept
    <3>1. CASE CreateSession(r)
      BY <3>1 DEF CreateSession, IInv, TypeOK
    <3>2. CASE RefreshWrite(r)
      BY <3>2 DEF RefreshWrite, IInv, TypeOK
    <3>3. CASE RevokeFamily(r) \/ RevokeWrite(r)
      BY <2>2, <3>3 DEF RevokeFamily, RevokeWrite
    <3>4. CASE RefreshRead(r) \/ RefreshReuse(r) \/ (\E found \in BOOLEAN : RefreshAnswer(r, found))
               \/ \E s \in SessionIds : OpenRefresh(r, s) \/ OpenRevoke(r, s)
      <4>1. UNCHANGED session
        BY <3>4 DEF RefreshRead, RefreshReuse, RefreshAnswer, OpenRefresh, OpenRevoke, sessionVars
      <4> QED
        BY <2>1, <4>1
    <3> QED
      BY <2>3, <3>1, <3>2, <3>3, <3>4 DEF OwnStep
  <2>4. ASSUME NEW r \in Requests, AccountStep(r) PROVE Kept
    <3>1. CASE DeleteRevoke(r)
      BY <2>2, <3>1 DEF DeleteRevoke
    <3>2. CASE ~DeleteRevoke(r)
      <4>1. UNCHANGED session
        BY <2>4, <3>2 DEF AccountStep, Register, GoogleRegister, InsertUser, Refused,
           CreateToken, LoginRead, Continue, LoginReset, LoginFail, VerifySpend, VerifyMark,
           ResetSpend, Spend, ResetWrite, ConfirmEmail, ConfirmSpend, ChangePassword,
           SoftDelete, sessionVars
      <4> QED
        BY <2>1, <4>1
    <3> QED
      BY <3>1, <3>2
  <2>5. ASSUME NEW r \in Requests, Open(r) \/ Fail(r) PROVE UNCHANGED session
    BY <2>5 DEF Open, OpenOwn, Fail, OpenRegister, OpenGoogle, OpenLogin, OpenResend, OpenForgot,
       OpenChangePassword, OpenDelete, OpenChangeEmail, OpenVerify, OpenReset, OpenConfirm,
       Opens, Opened, Continue, sessionVars, vars
  <2>6. CASE World
    BY <2>2, <2>6, <2>1 DEF World, RevokeOthers, Tick, LockEnds, sessionVars
  <2> QED
    BY <2>1, <2>3, <2>4, <2>5, <2>6, NextSteps DEF vars, sessionVars
<1>2. IInv /\ [Next]_vars => [Kept]_session
  BY <1>1
<1> QED
  BY <1>2, Inductive, PTL DEF Spec, RevokedForGood

(* Of a session whose refreshes never met and whose answers arrived, at    *)
(* most one refresh is under way, and it hands out the token it stored.    *)
CookieInv ==
  \A s \in SessionIds \ torn :
    /\ \A q, r \in Refreshing(s) : q = r
    /\ \A r \in Refreshing(s) : pc[r] = "refresh.answer" => session[s].hash = arg[r].n
    /\ (\A r \in Refreshing(s) : pc[r] # "refresh.answer") => cookie[s] = session[s].hash

(* A step that touches no token, and after which r does not refresh *)
LEMMA NoRefresh ==
  ASSUME CookieInv, NEW r \in Requests, Only(r), UNCHANGED cookie, torn \subseteq torn',
         \A s \in SessionIds : session'[s].hash = session[s].hash,
         pc'[r] \notin RefreshSteps, pc[r] = "refresh.answer" => arg[r].sess \in torn'
  PROVE  CookieInv'
<1> SUFFICES ASSUME NEW s \in SessionIds \ torn'
             PROVE  /\ \A p, q \in Refreshing(s)' : p = q
                    /\ \A q \in Refreshing(s)' :
                         pc'[q] = "refresh.answer" => session'[s].hash = arg'[q].n
                    /\ (\A q \in Refreshing(s)' : pc'[q] # "refresh.answer")
                         => cookie'[s] = session'[s].hash
  BY DEF CookieInv
<1>1. s \in SessionIds \ torn
  OBVIOUS
<1>2. Refreshing(s)' = Refreshing(s) \ {r}
  BY DEF Refreshing, Only, RefreshSteps
<1>3. \A q \in Refreshing(s)' : pc'[q] = pc[q] /\ arg'[q] = arg[q]
  BY <1>2 DEF Refreshing, Only
<1>4. r \in Refreshing(s) => pc[r] # "refresh.answer"
  BY DEF Refreshing
<1> QED
  BY <1>1, <1>2, <1>3, <1>4 DEF CookieInv

LEMMA OpenNext ==
  ASSUME IInv, NEW r \in Requests, Open(r)
  PROVE  /\ UNCHANGED sessionVars /\ UNCHANGED <<user, token, mix, uses, closed>>
         /\ pc[r] = "idle"
         /\ pc'[r] \in {"idle", "register.insert", "google.insert", "session.create",
                        "login.creds", "token.create", "password.write", "delete.soft",
                        "verify.spend", "reset.spend", "confirm.email"}
<1>1. Only(r) /\ pc[r] \in Steps
  BY OpenEffect DEF Effect, IInv, TypeOK
<1>2. ASSUME NEW p, NEW a, Goto(r, p, a) PROVE pc'[r] = p
  BY <1>2 DEF Goto, IInv, TypeOK
<1>3. CASE \E e \in Emails : OpenRegister(r, e) \/ OpenGoogle(r, e)
  BY <1>2, <1>3 DEF OpenRegister, OpenGoogle, Opened, Continue, accountVars, vars, history
<1>4. CASE \E u \in Users : OpenLogin(r, u) \/ OpenChangePassword(r, u) \/ OpenDelete(r, u)
  BY <1>2, <1>4 DEF OpenLogin, OpenChangePassword, OpenDelete, Opened, Continue, accountVars,
                    vars, history
<1>5. CASE \E u \in Users : \/ OpenResend(r, u) \/ OpenForgot(r, u)
                            \/ \E e \in Emails : OpenChangeEmail(r, u, e)
  BY <1>2, <1>5 DEF OpenResend, OpenForgot, OpenChangeEmail, Opened, Continue, accountVars,
                    vars, history
<1>6. CASE \E t \in TokenIds : OpenVerify(r, t) \/ OpenReset(r, t) \/ OpenConfirm(r, t)
  BY <1>2, <1>6 DEF OpenVerify, OpenReset, OpenConfirm, Opens, accountVars, vars, history
<1> QED
  BY <1>3, <1>4, <1>5, <1>6 DEF Open, OpenOwn

LEMMA AccountNext ==
  ASSUME IInv, NEW r \in Requests, AccountStep(r)
  PROVE  /\ UNCHANGED <<cookie, now, torn>>
         /\ \A s \in SessionIds : session'[s].hash = session[s].hash
         /\ pc[r] \notin RefreshSteps /\ pc'[r] \notin RefreshSteps
<1>1. ASSUME NEW p, NEW a, Goto(r, p, a) PROVE pc'[r] = p
  BY <1>1 DEF Goto, IInv, TypeOK
<1>2. CASE Register(r) \/ GoogleRegister(r)
  BY <1>1, <1>2 DEF Register, GoogleRegister, InsertUser, Refused, Finish, sessionVars,
                    RefreshSteps
<1>3. CASE CreateToken(r) \/ LoginRead(r, TRUE) \/ LoginRead(r, FALSE)
  BY <1>1, <1>3 DEF CreateToken, LoginRead, Continue, Refused, Finish, sessionVars, RefreshSteps
<1>4. CASE LoginReset(r) \/ LoginFail(r) \/ ChangePassword(r) \/ SoftDelete(r)
  BY <1>1, <1>4 DEF LoginReset, LoginFail, ChangePassword, SoftDelete, Finish, sessionVars,
                    RefreshSteps
<1>5. CASE VerifySpend(r) \/ ResetSpend(r) \/ ConfirmSpend(r) \/ VerifyMark(r)
           \/ ResetWrite(r) \/ ConfirmEmail(r)
  BY <1>1, <1>5 DEF VerifySpend, ResetSpend, ConfirmSpend, VerifyMark, ResetWrite, ConfirmEmail,
                    Spend, Refused, Finish, sessionVars, RefreshSteps
<1>6. CASE DeleteRevoke(r)
  BY <1>1, <1>6 DEF DeleteRevoke, Revoked, Finish, RefreshSteps, IInv, TypeOK
<1> QED
  BY <1>2, <1>3, <1>4, <1>5, <1>6 DEF AccountStep

(* A refresh that goes on: nobody else refreshes the session, if it counts. *)
LEMMA RefreshGoesOn ==
  ASSUME IInv, CookieInv, NEW r \in Requests, NEW s, s = arg[r].sess,
         pc[r] \in RefreshSteps, Only(r), pc'[r] \in RefreshSteps, arg'[r].sess = s,
         UNCHANGED <<cookie, torn>>,
         \A q \in SessionIds \ {s} : session'[q].hash = session[q].hash,
         IF pc'[r] = "refresh.answer" THEN session'[s].hash = arg'[r].n
                                      ELSE session'[s].hash = session[s].hash /\ pc[r] # "refresh.answer"
  PROVE  CookieInv'
<1> SUFFICES ASSUME NEW q \in SessionIds \ torn'
             PROVE  /\ \A x, y \in Refreshing(q)' : x = y
                    /\ \A x \in Refreshing(q)' :
                         pc'[x] = "refresh.answer" => session'[q].hash = arg'[x].n
                    /\ (\A x \in Refreshing(q)' : pc'[x] # "refresh.answer")
                         => cookie'[q] = session'[q].hash
  BY DEF CookieInv
<1>1. Refreshing(q)' = Refreshing(q)
  BY DEF Refreshing, Only
<1>2. CASE q = s
  <2>1. r \in Refreshing(q)
    BY <1>2 DEF Refreshing
  <2>2. \A x \in Refreshing(q)' : x = r
    BY <1>1, <2>1 DEF CookieInv
  <2> QED
    BY <1>1, <1>2, <2>1, <2>2 DEF CookieInv
<1>3. CASE q # s
  <2>1. \A x \in Refreshing(q)' : pc'[x] = pc[x] /\ arg'[x] = arg[x]
    BY <1>1, <1>3 DEF Refreshing, Only
  <2> QED
    BY <1>1, <1>3, <2>1 DEF CookieInv
<1> QED
  BY <1>2, <1>3

LEMMA OwnCookie ==
  ASSUME IInv, CookieInv, NEW r \in Requests, OwnStep(r)
  PROVE  CookieInv'
<1>1. Only(r) /\ arg[r] \in Args
  BY RequestEffect DEF Effect, IInv, TypeOK
<1>2. ASSUME NEW p, NEW a, Goto(r, p, a) PROVE pc'[r] = p /\ arg'[r] = a
  BY <1>2 DEF Goto, IInv, TypeOK
<1>3. CASE CreateSession(r)
  <2>1. PICK s \in SessionIds :
          /\ session[s].st = "free" /\ cookie' = [cookie EXCEPT ![s] = now]
          /\ session' = [session EXCEPT ![s] =
                           [st |-> "ACTIVE", user |-> arg[r].user, hash |-> now]]
    BY <1>3 DEF CreateSession
  <2>2. pc[r] \notin RefreshSteps /\ pc'[r] = "idle" /\ torn' = torn
    BY <1>2, <1>3 DEF CreateSession, Finish, RefreshSteps
  <2>3. \A q \in SessionIds : Refreshing(q)' = Refreshing(q)
    BY <1>1, <2>2 DEF Refreshing, Only, RefreshSteps
  <2>4. \A q \in SessionIds : \A x \in Refreshing(q) : x # r /\ pc'[x] = pc[x] /\ arg'[x] = arg[x]
    BY <1>1, <2>2 DEF Refreshing, Only
  <2>5. Refreshing(s) = {}
    BY <2>1, OwnArgs DEF Refreshing, OwnSteps, SessionOf
  <2>6. /\ cookie'[s] = session'[s].hash
        /\ \A q \in SessionIds \ {s} : cookie'[q] = cookie[q] /\ session'[q] = session[q]
    BY <2>1 DEF IInv, TypeOK
  <2> QED
    BY <2>2, <2>3, <2>4, <2>5, <2>6 DEF CookieInv
<1>4. CASE RefreshRead(r) \/ RefreshReuse(r)
  <2>1. UNCHANGED <<session, cookie, now, torn>> /\ pc[r] = "refresh.read"
    BY <1>4 DEF RefreshRead, RefreshReuse, sessionVars
  <2>2. CASE pc'[r] = "refresh.write" /\ arg'[r] = [arg[r] EXCEPT !.n = now]
    <3>1. arg'[r].sess = arg[r].sess
      BY <1>1, <2>2 DEF Args
    <3> QED
      BY <1>1, <2>1, <2>2, <3>1, RefreshGoesOn DEF RefreshSteps
  <2>3. CASE pc'[r] \in {"idle", "refresh.revoke"}
    BY <1>1, <2>1, <2>3, NoRefresh DEF RefreshSteps
  <2> QED
    BY <1>2, <1>4, <2>2, <2>3 DEF RefreshRead, RefreshReuse, Finish
<1>5. CASE RevokeFamily(r) \/ RevokeWrite(r)
  <2>1. /\ UNCHANGED <<cookie, torn>> /\ pc'[r] = "idle" /\ pc[r] # "refresh.answer"
        /\ session' = Revoked({arg[r].sess})
    BY <1>2, <1>5 DEF RevokeFamily, RevokeWrite, Finish
  <2>2. \A s \in SessionIds : session'[s].hash = session[s].hash
    BY <2>1 DEF Revoked, IInv, TypeOK
  <2> QED
    BY <1>1, <2>1, <2>2, NoRefresh DEF RefreshSteps
<1>6. CASE RefreshWrite(r)
  <2>1. /\ UNCHANGED <<cookie, torn>> /\ pc[r] = "refresh.write"
        /\ pc'[r] = "refresh.answer" /\ arg'[r] = arg[r]
        /\ session' = [session EXCEPT ![arg[r].sess].hash = arg[r].n]
    BY <1>2, <1>6 DEF RefreshWrite
  <2>2. arg[r].sess \in SessionIds /\ session[arg[r].sess] \in SessionRow
    BY <2>1, OwnArgs DEF OwnSteps, RefreshSteps, SessionOf
  <2>3. /\ \A q \in SessionIds \ {arg[r].sess} : session'[q].hash = session[q].hash
        /\ session'[arg[r].sess].hash = arg[r].n
    BY <2>1, <2>2 DEF IInv, TypeOK, SessionRow
  <2> QED
    BY <1>1, <2>1, <2>2, <2>3, RefreshGoesOn DEF RefreshSteps
<1>7. ASSUME NEW found \in BOOLEAN, RefreshAnswer(r, found) PROVE CookieInv'
  <2>0. PICK s : s = arg[r].sess
    OBVIOUS
  <2>1. /\ UNCHANGED session /\ pc[r] = "refresh.answer" /\ pc'[r] = "idle"
        /\ \/ torn' = torn /\ cookie' = [cookie EXCEPT ![s] = arg[r].n]
           \/ torn' = torn \cup {s} /\ cookie' = cookie
    BY <1>2, <1>7, <2>0 DEF RefreshAnswer, Finish
  <2>2. s \in SessionIds /\ r \in Refreshing(s)
    BY <2>0, <2>1, OwnArgs DEF OwnSteps, RefreshSteps, SessionOf, Refreshing
  <2>3. CASE torn' = torn \cup {s} /\ cookie' = cookie
    BY <1>1, <2>0, <2>1, <2>3, NoRefresh DEF RefreshSteps
  <2>4. CASE torn' = torn /\ cookie' = [cookie EXCEPT ![s] = arg[r].n]
    <3>1. \A q \in SessionIds : Refreshing(q)' = Refreshing(q) \ {r}
      BY <1>1, <2>1 DEF Refreshing, Only, RefreshSteps
    <3>2. \A q \in SessionIds : \A x \in Refreshing(q)' : pc'[x] = pc[x] /\ arg'[x] = arg[x]
      BY <1>1, <3>1 DEF Only, Refreshing
    <3>3. /\ cookie'[s] = arg[r].n /\ \A q \in SessionIds \ {s} : cookie'[q] = cookie[q]
      BY <2>2, <2>4 DEF IInv, TypeOK
    <3>4. s \notin torn => session[s].hash = arg[r].n
      BY <2>1, <2>2 DEF CookieInv
    <3>6. ASSUME s \notin torn PROVE Refreshing(s) = {r}
      <4>1. \A x, y \in Refreshing(s) : x = y
        BY <2>2, <3>6 DEF CookieInv
      <4> QED
        BY <2>2, <4>1
    <3>10. Refreshing(s)' = Refreshing(s) \ {r}
      BY <2>2, <3>1
    <3>7. s \notin torn => Refreshing(s)' = {}
      BY <3>10, <3>6
    <3>5. \A q \in SessionIds \ {s} : Refreshing(q)' = Refreshing(q)
      <4> TAKE q \in SessionIds \ {s}
      <4>1. r \notin Refreshing(q)
        BY <2>0 DEF Refreshing
      <4> QED
        BY <3>1, <4>1
    <3> SUFFICES ASSUME NEW q \in SessionIds \ torn'
                 PROVE  /\ \A x, y \in Refreshing(q)' : x = y
                        /\ \A x \in Refreshing(q)' :
                             pc'[x] = "refresh.answer" => session'[q].hash = arg'[x].n
                        /\ (\A x \in Refreshing(q)' : pc'[x] # "refresh.answer")
                             => cookie'[q] = session'[q].hash
      BY DEF CookieInv
    <3>8. CASE q = s
      <4>1. q \notin torn /\ Refreshing(q)' = {} /\ cookie'[q] = arg[r].n
        BY <2>4, <3>3, <3>7, <3>8
      <4>2. session'[q].hash = arg[r].n
        BY <2>1, <3>4, <3>8, <4>1
      <4> QED
        BY <4>1, <4>2
    <3>9. CASE q # s
      BY <2>1, <2>4, <3>2, <3>3, <3>5, <3>9 DEF CookieInv
    <3> QED
      BY <3>8, <3>9
  <2> QED
    BY <2>1, <2>3, <2>4
<1>8. ASSUME NEW s \in SessionIds, OpenRefresh(r, s) PROVE CookieInv'
  <2>1. /\ UNCHANGED <<session, cookie>> /\ pc[r] = "idle" /\ pc'[r] = "refresh.read"
        /\ arg'[r] = [NoArgs EXCEPT !.sess = s, !.tok = cookie[s]]
        /\ torn' = IF Refreshing(s) = {} THEN torn ELSE torn \cup {s}
    BY <1>2, <1>8 DEF OpenRefresh
  <2>2. arg'[r].sess = s
    BY <2>1 DEF NoArgs
  <2>3. \A q \in SessionIds \ {s} : Refreshing(q)' = Refreshing(q)
    <3> TAKE q \in SessionIds \ {s}
    <3>1. r \notin Refreshing(q) /\ r \notin Refreshing(q)'
      BY <2>1, <2>2 DEF Refreshing, RefreshSteps
    <3> QED
      BY <1>1, <3>1 DEF Refreshing, Only
  <2>4. ASSUME s \notin torn' PROVE Refreshing(s) = {} /\ Refreshing(s)' = {r}
    <3>1. Refreshing(s) = {}
      BY <2>1, <2>4
    <3>2. r \in Refreshing(s)'
      BY <2>1, <2>2 DEF Refreshing, RefreshSteps
    <3>3. \A x \in Refreshing(s)' : x = r
      BY <1>1, <3>1 DEF Refreshing, Only
    <3> QED
      BY <3>1, <3>2, <3>3
  <2>5. \A q \in SessionIds : \A x \in Refreshing(q) : pc'[x] = pc[x] /\ arg'[x] = arg[x]
    BY <1>1, <2>1 DEF Refreshing, Only, RefreshSteps
  <2> QED
    BY <2>1, <2>3, <2>4, <2>5 DEF CookieInv
<1>9. ASSUME NEW s \in SessionIds, OpenRevoke(r, s) PROVE CookieInv'
  <2>1. /\ UNCHANGED <<session, cookie, torn>> /\ pc[r] = "idle" /\ pc'[r] = "revoke.write"
    BY <1>2, <1>9 DEF OpenRevoke, sessionVars
  <2> QED
    BY <1>1, <2>1, NoRefresh DEF RefreshSteps
<1> QED
  BY <1>3, <1>4, <1>5, <1>6, <1>7, <1>8, <1>9 DEF OwnStep

LEMMA CookieStep == IInv /\ CookieInv /\ [Next]_vars => CookieInv'
<1> SUFFICES ASSUME IInv, CookieInv, [Next]_vars PROVE CookieInv'
  OBVIOUS
<1>1. ASSUME UNCHANGED <<pc, arg, cookie, torn>>,
             \A s \in SessionIds : session'[s].hash = session[s].hash
      PROVE  CookieInv'
  BY <1>1 DEF CookieInv, Refreshing
<1>2. ASSUME NEW r \in Requests, Open(r) \/ AccountStep(r) PROVE CookieInv'
  <2>1. Only(r)
    BY <1>2, RequestEffect DEF Effect
  <2>2. /\ UNCHANGED <<cookie, torn>> /\ pc[r] \notin RefreshSteps /\ pc'[r] \notin RefreshSteps
        /\ \A s \in SessionIds : session'[s].hash = session[s].hash
    BY <1>2, OpenNext, AccountNext DEF sessionVars, RefreshSteps
  <2> QED
    BY <2>1, <2>2, NoRefresh DEF RefreshSteps
<1>3. ASSUME NEW r \in Requests, Fail(r) PROVE CookieInv'
  <2>1. Only(r)
    BY <1>3, FailEffect DEF Effect
  <2>2. /\ UNCHANGED <<session, cookie>> /\ pc'[r] = "idle" /\ torn \subseteq torn'
        /\ (pc[r] = "refresh.answer" => arg[r].sess \in torn')
    BY <1>3 DEF Fail, Finish, Goto, IInv, TypeOK
  <2> QED
    BY <2>1, <2>2, NoRefresh DEF RefreshSteps
<1>4. CASE World
  <2>1. UNCHANGED <<pc, arg, cookie, torn>>
    BY <1>4, WorldInv DEF World, RevokeOthers, Tick, LockEnds, sessionVars
  <2>2. UNCHANGED session \/ \E S \in SUBSET SessionIds : session' = Revoked(S)
    BY <1>4 DEF World, RevokeOthers, Tick, LockEnds, sessionVars, ActiveSessions
  <2>3. ASSUME NEW S \in SUBSET SessionIds, NEW s \in SessionIds
        PROVE  Revoked(S)[s].hash = session[s].hash
    <3>1. session[s] \in SessionRow \cup {FreeSession}
      BY DEF IInv, TypeOK
    <3> QED
      BY <3>1 DEF Revoked, SessionRow, FreeSession
  <2>4. \A s \in SessionIds : session'[s].hash = session[s].hash
    BY <2>2, <2>3
  <2> QED
    BY <1>1, <2>1, <2>4
<1>5. CASE UNCHANGED vars
  BY <1>1, <1>5 DEF vars, sessionVars
<1> QED
  BY <1>2, <1>3, <1>4, <1>5, NextSteps, OwnCookie

(* Rotation never locks an honest browser out.                             *)
THEOREM Rotation == Spec => []CookieInStep
<1>1. Init => CookieInv
  BY DEF Init, CookieInv, Refreshing, RefreshSteps, FreeSession
<1>2. CookieInv => CookieInStep
  BY DEF CookieInv, CookieInStep
<1> QED
  BY <1>1, <1>2, CookieStep, Inductive, PTL DEF Spec

-----------------------------------------------------------------------------
(* Addresses *)

(* Requests that end in a verification of the address they carry *)
Verifying(p, a) ==
  p \in VerifySteps \/ (p = "token.create" /\ a.op \in {"verify", "register"})

Unproven(u) == user[u].st # "free" /\ user[u].email \notin proven[u]

(* As long as a user has not shown that it reads its mails, every link and *)
(* every request that could verify it carries the address it has now.      *)
MailInv ==
  /\ \A r \in Requests : pc[r] \in LinkSteps => arg[r].email \in proven[arg[r].user]
  /\ \A u \in Users : Unproven(u) =>
       /\ ~user[u].verified
       /\ \A t \in TokenIds :
            token[t].st # "free" /\ token[t].kind = "verify" /\ token[t].user = u
              => token[t].email = user[u].email
       /\ \A r \in Requests :
            arg[r].user = u /\ Verifying(pc[r], arg[r]) => arg[r].email = user[u].email

(* What a step may do to users, and what it has to say of r and new links *)
MailStep(r) ==
  /\ \A u \in Users : user[u].st # "free" => proven[u] \subseteq proven'[u]
  /\ \A u \in Users : Unproven(u)' =>
       /\ ~user'[u].verified
       /\ user[u].st = "free" \/ (Unproven(u) /\ user'[u].email = user[u].email)
  /\ \A t \in TokenIds :
       token[t].st = "free" /\ token'[t].st # "free" /\ token'[t].kind = "verify"
         => \A u \in Users : Unproven(u)' /\ token'[t].user = u
              => token'[t].email = user'[u].email
  /\ pc'[r] \in LinkSteps => arg'[r].email \in proven'[arg'[r].user]
  /\ Verifying(pc'[r], arg'[r]) =>
       \A u \in Users : Unproven(u)' /\ arg'[r].user = u => arg'[r].email = user'[u].email

LEMMA MailKept ==
  ASSUME IInv, MailInv, NEW r \in Requests, Effect(r), MailStep(r)
  PROVE  MailInv'
<1>1. ASSUME NEW q \in Requests, pc'[q] \in LinkSteps
      PROVE  arg'[q].email \in proven'[arg'[q].user]
  <2>1. CASE q = r
    BY <1>1, <2>1 DEF MailStep
  <2>2. CASE q # r
    <3>1. pc'[q] = pc[q] /\ arg'[q] = arg[q]
      BY <2>2 DEF Effect, Only
    <3>2. UserOf(arg[q]) /\ arg[q].email \in proven[arg[q].user]
      BY <1>1, <3>1, LinkArgs DEF MailInv
    <3> QED
      BY <3>1, <3>2 DEF MailStep, UserOf
  <2> QED
    BY <2>1, <2>2
<1>2. ASSUME NEW u \in Users, Unproven(u)', NEW t \in TokenIds,
             token'[t].st # "free", token'[t].kind = "verify", token'[t].user = u
      PROVE  token'[t].email = user'[u].email
  <2>1. CASE token[t].st = "free"
    BY <1>2, <2>1 DEF MailStep
  <2>2. CASE token[t].st # "free"
    <3>1. /\ token'[t].kind = token[t].kind /\ token'[t].user = token[t].user
          /\ token'[t].email = token[t].email /\ user[u].st # "free"
      BY <1>2, <2>2 DEF Effect, Grows, IInv, Owners
    <3>2. Unproven(u) /\ user'[u].email = user[u].email
      BY <1>2, <3>1 DEF MailStep
    <3> QED
      BY <1>2, <2>2, <3>1, <3>2 DEF MailInv
  <2> QED
    BY <2>1, <2>2
<1>3. ASSUME NEW u \in Users, Unproven(u)', NEW q \in Requests,
             arg'[q].user = u, Verifying(pc'[q], arg'[q])
      PROVE  arg'[q].email = user'[u].email
  <2>1. CASE q = r
    BY <1>3, <2>1 DEF MailStep
  <2>2. CASE q # r
    <3>1. pc'[q] = pc[q] /\ arg'[q] = arg[q] /\ Known(q)
      BY <2>2 DEF Effect, Only, IInv
    <3>2. user[u].st # "free"
      BY <1>3, <3>1 DEF Known, KnownAt, Verifying, UserSteps, LinkSteps
    <3>3. Unproven(u) /\ user'[u].email = user[u].email
      BY <1>3, <3>2 DEF MailStep
    <3> QED
      BY <1>3, <3>1, <3>3 DEF MailInv
  <2> QED
    BY <2>1, <2>2
<1>4. \A u \in Users : Unproven(u)' => ~user'[u].verified
  BY DEF MailStep
<1> QED
  BY <1>1, <1>2, <1>3, <1>4 DEF MailInv

(* Steps that have nothing to do with addresses *)
LEMMA MailQuiet ==
  ASSUME IInv, MailInv, NEW r \in Requests, Effect(r), UNCHANGED proven,
         \A u \in Users : user'[u].st # "free" =>
           /\ user[u].st # "free" /\ user'[u].email = user[u].email
           /\ user'[u].verified => user[u].verified,
         \A t \in TokenIds : token'[t].st # "free" => token[t].st # "free",
         pc'[r] # "token.create",
         pc'[r] \in LinkSteps => pc[r] \in LinkSteps /\ arg'[r] = arg[r],
         pc'[r] \in VerifySteps => pc[r] \in VerifySteps
  PROVE  MailInv'
<1>1. \A u \in Users : Unproven(u)' => Unproven(u) /\ user'[u].email = user[u].email
                                                   /\ ~user'[u].verified
  BY DEF Unproven, MailInv
<1>2. pc'[r] \in LinkSteps => arg'[r].email \in proven'[arg'[r].user]
  BY DEF MailInv
<1>3. ASSUME Verifying(pc'[r], arg'[r]), NEW u \in Users, Unproven(u)', arg'[r].user = u
      PROVE  arg'[r].email = user'[u].email
  <2>1. pc[r] \in VerifySteps /\ arg'[r] = arg[r]
    BY <1>3 DEF Verifying, LinkSteps
  <2> QED
    BY <1>1, <1>3, <2>1 DEF MailInv, Verifying
<1>4. MailStep(r)
  BY <1>1, <1>2, <1>3 DEF MailStep
<1> QED
  BY <1>4, MailKept

LEMMA MailStays == ASSUME MailInv, UNCHANGED <<user, token, proven, pc, arg>> PROVE MailInv'
BY DEF MailInv, Unproven, Verifying

LEMMA MailOpens ==
  ASSUME IInv, MailInv, NEW r \in Requests, NEW t \in TokenIds,
         OpenVerify(r, t) \/ OpenReset(r, t) \/ OpenConfirm(r, t)
  PROVE  MailInv'
<1> DEFINE a == [NoArgs EXCEPT !.tok = t, !.user = token[t].user, !.email = token[t].email]
<1>1. PICK p \in {"verify.spend", "reset.spend", "confirm.email"} :
        /\ token[t].st = "open" /\ Goto(r, p, a)
        /\ proven' = [proven EXCEPT ![token[t].user] = @ \cup {token[t].email}]
        /\ UNCHANGED <<sessionVars, user, token, mix, uses, closed>>
        /\ p \in VerifySteps => token[t].kind = "verify"
  BY DEF OpenVerify, OpenReset, OpenConfirm, Opens, VerifySteps
<1>2. token[t] \in TokenRow /\ token[t].user \in Users
  BY <1>1, Rows DEF TokenRow
<1>3. pc'[r] = p /\ arg'[r] = a /\ a.user = token[t].user /\ a.email = token[t].email
  BY <1>1 DEF Goto, IInv, TypeOK, NoArgs
<1> HIDE DEF a
<1>4. /\ token[t].email \in proven'[token[t].user]
      /\ \A u \in Users : proven[u] \subseteq proven'[u]
  BY <1>1, <1>2 DEF IInv, TypeOK
<1>5. \A u \in Users : Unproven(u)' => Unproven(u)
  BY <1>1, <1>4 DEF Unproven
<1>6. ASSUME NEW u \in Users, Unproven(u)', Verifying(p, a), a.user = u
      PROVE  a.email = user'[u].email
  <2>1. p \in VerifySteps
    BY <1>1, <1>6 DEF Verifying
  <2> QED
    BY <1>1, <1>3, <1>5, <1>6, <2>1 DEF MailInv
<1>7. MailStep(r)
  BY <1>1, <1>3, <1>4, <1>5, <1>6 DEF MailStep, MailInv
<1> QED
  BY <1>7, OpensEffect, MailKept

LEMMA MailAsked ==
  ASSUME IInv, MailInv, NEW r \in Requests, NEW u \in Users,
         OpenResend(r, u) \/ OpenForgot(r, u) \/ \E e \in Emails : OpenChangeEmail(r, u, e)
  PROVE  MailInv'
<1>1. CASE UNCHANGED vars
  BY <1>1, MailStays DEF vars, sessionVars, accountVars, history
<1>2. ASSUME NEW k \in Kinds, NEW e, k # "verify" \/ e = user[u].email,
             Continue(r, "token.create", [NoArgs EXCEPT !.op = k, !.user = u, !.email = e])
      PROVE  MailInv'
  <2>1. /\ pc'[r] = "token.create" /\ arg'[r].op = k /\ arg'[r].user = u /\ arg'[r].email = e
        /\ UNCHANGED <<user, token, proven>>
    BY <1>2 DEF Continue, Goto, accountVars, history, IInv, TypeOK, NoArgs
  <2>2. MailStep(r)
    BY <1>2, <2>1
       DEF MailStep, MailInv, Unproven, Verifying, Kinds, LinkSteps, VerifySteps, ResetSteps
  <2> QED
    BY <2>2, OpenMailEffect, MailKept
<1>3. PICK e : e = user[u].email
  OBVIOUS
<1>0. {"verify", "reset", "change"} \subseteq Kinds /\ "reset" # "verify" /\ "change" # "verify"
  BY DEF Kinds
<1>4. CASE OpenResend(r, u)
  <2>1. \/ Continue(r, "token.create", [NoArgs EXCEPT !.op = "verify", !.user = u, !.email = e])
        \/ UNCHANGED vars
    BY <1>3, <1>4 DEF OpenResend, Opened
  <2> QED
    BY <1>0, <1>1, <1>2, <1>3, <2>1
<1>5. CASE OpenForgot(r, u)
  <2>1. \/ Continue(r, "token.create", [NoArgs EXCEPT !.op = "reset", !.user = u, !.email = e])
        \/ UNCHANGED vars
    BY <1>3, <1>5 DEF OpenForgot, Opened
  <2> QED
    BY <1>0, <1>1, <1>2, <2>1
<1>6. ASSUME NEW f \in Emails, OpenChangeEmail(r, u, f) PROVE MailInv'
  <2>1. \/ Continue(r, "token.create", [NoArgs EXCEPT !.op = "change", !.user = u, !.email = f])
        \/ UNCHANGED vars
    BY <1>6 DEF OpenChangeEmail, Opened
  <2> QED
    BY <1>0, <1>1, <1>2, <2>1
<1> QED
  BY <1>4, <1>5, <1>6

LEMMA MailOpen == ASSUME IInv, MailInv, NEW r \in Requests, Open(r) PROVE MailInv'
<1>1. ASSUME UNCHANGED proven, pc'[r] \notin LinkSteps \cup {"token.create"} PROVE MailInv'
  BY <1>1, OpenNext, OpenEffect, MailQuiet DEF LinkSteps
<1>2. ASSUME NEW p, NEW a, Continue(r, p, a), p \notin LinkSteps \cup {"token.create"}
      PROVE  MailInv'
  BY <1>1, <1>2 DEF Continue, Goto, accountVars, history, IInv, TypeOK
<1>3. CASE UNCHANGED vars
  BY <1>3, MailStays DEF vars, sessionVars, accountVars, history
<1>4. CASE \E e \in Emails : OpenRegister(r, e) \/ OpenGoogle(r, e)
  BY <1>2, <1>3, <1>4
     DEF OpenRegister, OpenGoogle, Opened, LinkSteps, VerifySteps, ResetSteps
<1>5. CASE \E u \in Users : OpenLogin(r, u) \/ OpenChangePassword(r, u) \/ OpenDelete(r, u)
  BY <1>2, <1>3, <1>5
     DEF OpenLogin, OpenChangePassword, OpenDelete, Opened, LinkSteps, VerifySteps, ResetSteps
<1> QED
  BY <1>4, <1>5, MailAsked, MailOpens DEF Open, OpenOwn

LEMMA MailRegister == ASSUME IInv, MailInv, NEW r \in Requests, Register(r) PROVE MailInv'
<1>1. CASE Taken(arg[r].email)
  <2>1. UNCHANGED <<user, token, proven>> /\ pc'[r] = "idle"
    BY <1>1 DEF Register, InsertUser, Refused, Finish, Goto, accountVars, history, IInv, TypeOK
  <2> QED
    BY <2>1, RegisterEffect, MailQuiet DEF LinkSteps, VerifySteps, ResetSteps
<1>2. CASE ~Taken(arg[r].email)
  <2>1. PICK u \in Users :
          /\ user[u].st = "free" /\ UNCHANGED <<token, proven>>
          /\ user' = [user EXCEPT ![u] =
                        [st |-> "live", email |-> arg[r].email, verified |-> FALSE,
                         pw |-> ~FALSE, attempts |-> 0, lock |-> "none"]]
          /\ Goto(r, "token.create", [arg[r] EXCEPT !.user = u])
    BY <1>2 DEF Register, InsertUser
  <2>2. pc'[r] = "token.create" /\ arg'[r].user = u /\ arg'[r].email = arg[r].email
    BY <2>1 DEF Goto, IInv, TypeOK, Args
  <2>3. /\ user'[u].email = arg[r].email /\ ~user'[u].verified
        /\ \A v \in Users \ {u} : user'[v] = user[v]
    BY <2>1 DEF IInv, TypeOK
  <2>4. \A v \in Users : Unproven(v)' =>
          /\ ~user'[v].verified
          /\ user[v].st = "free" \/ (Unproven(v) /\ user'[v].email = user[v].email)
    BY <2>1, <2>3 DEF Unproven, MailInv
  <2>5. MailStep(r)
    BY <2>1, <2>2, <2>3, <2>4 DEF MailStep, LinkSteps, VerifySteps, ResetSteps
  <2> QED
    BY <2>5, RegisterEffect, MailKept
<1> QED
  BY <1>1, <1>2

LEMMA MailGoogle == ASSUME IInv, MailInv, NEW r \in Requests, GoogleRegister(r) PROVE MailInv'
<1>1. CASE Taken(arg[r].email)
  <2>1. UNCHANGED <<user, token, proven>> /\ pc'[r] = "idle"
    BY <1>1
       DEF GoogleRegister, InsertUser, Refused, Finish, Goto, accountVars, history, IInv, TypeOK
  <2> QED
    BY <2>1, GoogleRegisterEffect, MailQuiet DEF LinkSteps, VerifySteps, ResetSteps
<1>2. CASE ~Taken(arg[r].email)
  <2>1. PICK u \in Users :
          /\ user[u].st = "free" /\ UNCHANGED token
          /\ user' = [user EXCEPT ![u] =
                        [st |-> "live", email |-> arg[r].email, verified |-> TRUE,
                         pw |-> ~TRUE, attempts |-> 0, lock |-> "none"]]
          /\ proven' = [proven EXCEPT ![u] = {arg[r].email}]
          /\ Goto(r, "session.create", [arg[r] EXCEPT !.user = u])
    BY <1>2 DEF GoogleRegister, InsertUser
  <2>2. pc'[r] = "session.create"
    BY <2>1 DEF Goto, IInv, TypeOK
  <2>3. /\ user'[u].email = arg[r].email /\ proven'[u] = {arg[r].email}
        /\ \A v \in Users \ {u} : user'[v] = user[v] /\ proven'[v] = proven[v]
    BY <2>1 DEF IInv, TypeOK
  <2>4. \A v \in Users : Unproven(v)' =>
          ~user'[v].verified /\ Unproven(v) /\ user'[v].email = user[v].email
    BY <2>3 DEF Unproven, MailInv
  <2>5. MailStep(r)
    BY <2>1, <2>2, <2>3, <2>4
       DEF MailStep, Verifying, LinkSteps, VerifySteps, ResetSteps
  <2> QED
    BY <2>5, GoogleRegisterEffect, MailKept
<1> QED
  BY <1>1, <1>2

LEMMA MailCreate == ASSUME IInv, MailInv, NEW r \in Requests, CreateToken(r) PROVE MailInv'
<1>1. UserOf(arg[r]) /\ arg[r].op \in Kinds \cup {"register"} /\ pc[r] = "token.create"
  BY KnownParts DEF CreateToken, IInv, Known
<1>2. PICK t \in TokenIds :
        /\ token[t].st = "free" /\ UNCHANGED <<user, proven>>
        /\ token' = [token EXCEPT ![t] =
             [st |-> "open", kind |-> IF arg[r].op = "register" THEN "verify" ELSE arg[r].op,
              user |-> arg[r].user, email |-> arg[r].email]]
  BY DEF CreateToken, history
<1>3. pc'[r] \in {"idle", "session.create"}
  BY DEF CreateToken, Goto, Finish, IInv, TypeOK
<1>4. /\ token'[t].user = arg[r].user /\ token'[t].email = arg[r].email
      /\ token'[t].kind = "verify" => arg[r].op \in {"verify", "register"}
      /\ \A x \in TokenIds \ {t} : token'[x] = token[x]
  BY <1>2 DEF IInv, TypeOK
<1>5. token'[t].kind = "verify" => \A u \in Users : Unproven(u) /\ token'[t].user = u
                                     => token'[t].email = user[u].email
  BY <1>1, <1>4 DEF MailInv, Verifying
<1>6. \A u \in Users : (Unproven(u)' <=> Unproven(u)) /\ user'[u] = user[u]
  BY <1>2 DEF Unproven
<1>7. MailStep(r)
  BY <1>2, <1>3, <1>4, <1>5, <1>6
     DEF MailStep, MailInv, Verifying, LinkSteps, VerifySteps, ResetSteps
<1> QED
  BY <1>7, CreateTokenEffect, MailKept

(* The link proves the address it carries, and who has not proven its own  *)
(* address has it in the link.                                             *)
LEMMA MailMark == ASSUME IInv, MailInv, NEW r \in Requests, VerifyMark(r) PROVE MailInv'
<1>1. /\ pc[r] = "verify.mark" /\ UNCHANGED <<token, proven>> /\ pc'[r] = "idle"
      /\ user' = [user EXCEPT ![arg[r].user].verified = TRUE]
  BY DEF VerifyMark, Finish, Goto, IInv, TypeOK
<1>2. /\ arg[r].user \in Users /\ user[arg[r].user].st # "free"
      /\ arg[r].email \in proven[arg[r].user]
  BY <1>1, LinkArgs DEF UserOf, LinkSteps, VerifySteps, MailInv
<1>3. PICK w \in Users : w = arg[r].user
  BY <1>2
<1>4. user[w].email \in proven[w]
  BY <1>1, <1>2, <1>3 DEF MailInv, Unproven, Verifying, VerifySteps
<1>5. /\ \A u \in Users : user'[u].st = user[u].st /\ user'[u].email = user[u].email
      /\ \A u \in Users \ {w} : user'[u].verified = user[u].verified
  <2>1. user[w] \in UserRow
    BY <1>2, <1>3, Rows
  <2> QED
    BY <1>1, <1>3, <2>1 DEF IInv, TypeOK, UserRow
<1>6. \A u \in Users : Unproven(u)' =>
        ~user'[u].verified /\ Unproven(u) /\ user'[u].email = user[u].email
  <2> SUFFICES ASSUME NEW u \in Users, Unproven(u)'
               PROVE  ~user'[u].verified /\ Unproven(u) /\ user'[u].email = user[u].email
    OBVIOUS
  <2>1. Unproven(u) /\ u # w
    BY <1>1, <1>4, <1>5 DEF Unproven
  <2> QED
    BY <1>5, <2>1 DEF MailInv
<1>7. MailStep(r)
  BY <1>1, <1>6 DEF MailStep, Verifying, LinkSteps, VerifySteps, ResetSteps
<1> QED
  BY <1>7, MarkEffect, MailKept

LEMMA MailConfirm == ASSUME IInv, MailInv, NEW r \in Requests, ConfirmEmail(r) PROVE MailInv'
<1>1. pc[r] = "confirm.email" /\ pc[r] \in LinkSteps
  BY DEF ConfirmEmail, LinkSteps
<1>2. /\ arg[r].user \in Users /\ user[arg[r].user].st # "free" /\ arg[r] \in Args
      /\ arg[r].email \in proven[arg[r].user]
  BY <1>1, LinkArgs DEF UserOf, MailInv
<1>3. PICK w, e : w \in Users /\ w = arg[r].user /\ e = arg[r].email
  BY <1>2
<1>4. CASE Refused(r)
  <2>1. UNCHANGED <<user, token, proven>> /\ pc'[r] = "idle"
    BY <1>4 DEF Refused, Finish, Goto, accountVars, history, IInv, TypeOK
  <2> QED
    BY <2>1, ConfirmEmailEffect, MailQuiet DEF LinkSteps, VerifySteps, ResetSteps
<1>5. CASE /\ user' = [user EXCEPT ![w].email = e]
           /\ Goto(r, "confirm.spend", arg[r])
           /\ UNCHANGED <<sessionVars, token, mix, history>>
  <2>1. UNCHANGED <<token, proven>> /\ pc'[r] = "confirm.spend" /\ arg'[r] = arg[r]
    BY <1>5 DEF Goto, history, IInv, TypeOK
  <2>2. /\ user'[w].email = e
        /\ \A u \in Users \ {w} : user'[u] = user[u]
    <3>1. user[w] \in UserRow
      BY <1>2, <1>3, Rows
    <3> QED
      BY <1>3, <1>5, <3>1 DEF IInv, TypeOK, UserRow
  <2>3. \A u \in Users : Unproven(u)' =>
          ~user'[u].verified /\ Unproven(u) /\ user'[u].email = user[u].email
    BY <1>2, <1>3, <2>1, <2>2 DEF Unproven, MailInv
  <2>4. MailStep(r)
    BY <1>2, <2>1, <2>3 DEF MailStep, Verifying, VerifySteps
  <2> QED
    BY <2>4, ConfirmEmailEffect, MailKept
<1> QED
  BY <1>3, <1>4, <1>5 DEF ConfirmEmail

LEMMA MailAccount == ASSUME IInv, MailInv, NEW r \in Requests, AccountStep(r) PROVE MailInv'
<1>1. Effect(r)
  BY RequestEffect
<1>2. ASSUME NEW p, NEW a, Goto(r, p, a) PROVE pc'[r] = p /\ arg'[r] = a
  BY <1>2 DEF Goto, IInv, TypeOK
<1>3. CASE LoginRead(r, TRUE) \/ LoginRead(r, FALSE)
  <2>1. UNCHANGED <<user, token, proven>> /\ pc'[r] \in {"login.reset", "login.fail", "idle"}
    BY <1>2, <1>3 DEF LoginRead, Continue, Refused, Finish, accountVars, history
  <2> QED
    BY <1>1, <2>1, MailQuiet DEF LinkSteps, VerifySteps, ResetSteps
<1>4. CASE VerifySpend(r) \/ ResetSpend(r) \/ ConfirmSpend(r)
  <2>1. /\ UNCHANGED <<user, proven>> /\ arg[r].tok \in TokenIds
        /\ token' = [token EXCEPT ![arg[r].tok].st = "used"] /\ pc[r] \in LinkSteps
        /\ \/ pc[r] = "verify.spend" /\ pc'[r] = "verify.mark" /\ arg'[r] = arg[r]
           \/ pc'[r] = "reset.write" /\ arg'[r] = arg[r]
           \/ pc'[r] = "idle"
    BY <1>2, <1>4, LinkArgs
       DEF VerifySpend, ResetSpend, ConfirmSpend, Spend, Finish, history, LinkOf, LinkSteps,
           VerifySteps, ResetSteps
  <2>2. \A t \in TokenIds : token'[t].st # "free" => token[t].st # "free"
    BY <2>1, LinkArgs DEF IInv, TypeOK, LinkOf
  <2> QED
    BY <1>1, <2>1, <2>2, MailQuiet DEF LinkSteps, VerifySteps, ResetSteps
<1>5. CASE LoginReset(r) \/ LoginFail(r) \/ ResetWrite(r) \/ ChangePassword(r) \/ SoftDelete(r)
  <2>1. /\ UNCHANGED <<token, proven>>
        /\ pc'[r] \in {"session.create", "idle", "delete.revoke"}
    BY <1>2, <1>5 DEF LoginReset, LoginFail, ResetWrite, ChangePassword, SoftDelete, Finish, history
  <2>2. PICK u : u = arg[r].user
    OBVIOUS
  <2>3. u \in Users /\ user[u].st # "free" /\ user[u] \in UserRow
    <3>1. pc[r] \in {"login.reset", "login.fail", "reset.write", "password.write", "delete.soft"}
      BY <1>5 DEF LoginReset, LoginFail, ResetWrite, ChangePassword, SoftDelete
    <3>2. Known(r)
      BY DEF IInv
    <3> QED
      BY <2>2, <3>1, <3>2, Rows DEF Known, KnownAt, UserSteps, LinkSteps, ResetSteps
  <2>4. /\ \A v \in Users \ {u} : user'[v] = user[v]
        /\ user'[u].email = user[u].email /\ user'[u].verified = user[u].verified
    <3>1. CASE LoginReset(r)
      BY <2>2, <2>3, <3>1 DEF LoginReset, UserRow, IInv, TypeOK
    <3>2. CASE LoginFail(r)
      BY <2>2, <2>3, <3>2 DEF LoginFail, UserRow, IInv, TypeOK
    <3>3. CASE ResetWrite(r) \/ ChangePassword(r)
      BY <2>2, <2>3, <3>3 DEF ResetWrite, ChangePassword, WithPassword, UserRow, IInv,
                               TypeOK
    <3>4. CASE SoftDelete(r)
      BY <2>2, <2>3, <3>4 DEF SoftDelete, UserRow, IInv, TypeOK
    <3> QED
      BY <1>5, <3>1, <3>2, <3>3, <3>4
  <2>5. \A v \in Users : user'[v].st # "free" =>
          /\ user[v].st # "free" /\ user'[v].email = user[v].email
          /\ user'[v].verified => user[v].verified
    BY <2>3, <2>4
  <2> QED
    BY <1>1, <2>1, <2>5, MailQuiet DEF LinkSteps, VerifySteps, ResetSteps
<1>6. CASE DeleteRevoke(r)
  <2>1. UNCHANGED <<user, token, proven>> /\ pc'[r] = "idle"
    BY <1>2, <1>6 DEF DeleteRevoke, Finish
  <2> QED
    BY <1>1, <2>1, MailQuiet DEF LinkSteps, VerifySteps, ResetSteps
<1> QED
  BY <1>3, <1>4, <1>5, <1>6, MailRegister, MailGoogle, MailCreate, MailMark, MailConfirm
     DEF AccountStep

(* Steps on sessions, and failures, end or go on with something else. *)
LEMMA OwnNext ==
  ASSUME IInv, NEW r \in Requests, OwnStep(r) \/ Fail(r)
  PROVE  UNCHANGED accountVars /\ pc'[r] \in OwnSteps \cup {"idle"}
<1>1. ASSUME NEW p, NEW a, Goto(r, p, a) PROVE pc'[r] = p
  BY <1>1 DEF Goto, IInv, TypeOK
<1>2. UNCHANGED accountVars
  BY DEF OwnStep, Fail
<1>3. CASE RevokeFamily(r) \/ RevokeWrite(r) \/ CreateSession(r) \/ Fail(r)
           \/ \E found \in BOOLEAN : RefreshAnswer(r, found)
  <2>1. Finish(r)
    BY <1>3 DEF RevokeFamily, RevokeWrite, CreateSession, Fail, RefreshAnswer
  <2> QED
    BY <1>1, <1>2, <2>1 DEF Finish
<1>4. CASE RefreshRead(r) \/ RefreshReuse(r) \/ RefreshWrite(r)
           \/ \E s \in SessionIds : OpenRefresh(r, s) \/ OpenRevoke(r, s)
  <2>1. \E p \in OwnSteps \cup {"idle"} : \E a : Goto(r, p, a)
    BY <1>4 DEF RefreshRead, RefreshReuse, RefreshWrite, OpenRefresh, OpenRevoke, Finish,
                OwnSteps, RefreshSteps
  <2> QED
    BY <1>1, <1>2, <2>1
<1> QED
  BY <1>3, <1>4 DEF OwnStep

LEMMA MailNext == IInv /\ MailInv /\ [Next]_vars => MailInv'
<1> SUFFICES ASSUME IInv, MailInv, [Next]_vars PROVE MailInv'
  OBVIOUS
<1>1. CASE UNCHANGED vars
  BY <1>1, MailStays DEF vars, sessionVars, accountVars, history
<1>2. ASSUME NEW r \in Requests, OwnStep(r) \/ Fail(r) PROVE MailInv'
  BY <1>2, OwnNext, RequestEffect, MailQuiet
     DEF accountVars, history, OwnSteps, RefreshSteps, LinkSteps, VerifySteps, ResetSteps
<1>3. CASE World
  <2>1. UNCHANGED <<pc, arg, token, proven>>
    BY <1>3, WorldInv DEF World, LockEnds, accountVars, history
  <2>2. \A u \in Users : /\ user'[u].st = user[u].st /\ user'[u].email = user[u].email
                         /\ user'[u].verified = user[u].verified
    <3>1. CASE UNCHANGED accountVars
      BY <3>1 DEF accountVars
    <3>2. ASSUME NEW u \in Users, LockEnds(u) PROVE <2>2
      <4>1. user' = [user EXCEPT ![u].lock = "over"] /\ user[u] # FreeUser
        BY <3>2 DEF LockEnds, FreeUser
      <4>2. user[u] \in UserRow
        BY <4>1 DEF IInv, TypeOK
      <4> QED
        BY <4>1, <4>2 DEF IInv, TypeOK, UserRow
    <3> QED
      BY <1>3, <3>1, <3>2 DEF World
  <2> QED
    BY <2>1, <2>2 DEF MailInv, Unproven, Verifying
<1> QED
  BY <1>1, <1>2, <1>3, NextSteps, MailOpen, MailAccount

(* A verified account has shown that it reads the mails of the address it  *)
(* has now, however changes of address, registrations with Google and      *)
(* verifications of accounts.service overlap.                              *)
THEOREM Addresses == Spec => []VerifiedMeansProven
<1>1. Init => MailInv
  BY DEF Init, MailInv, Unproven, LinkSteps, VerifySteps, ResetSteps, FreeUser
<1>2. MailInv => VerifiedMeansProven
  BY DEF MailInv, Unproven, VerifiedMeansProven
<1> QED
  BY <1>1, <1>2, MailNext, Inductive, PTL DEF Spec

-----------------------------------------------------------------------------
(* Counting requests: B is A after a step of r *)
LEMMA Counts ==
  ASSUME NEW A \in SUBSET Requests, NEW B \in SUBSET Requests, NEW r \in Requests,
         B \ {r} \subseteq A
  PROVE  /\ Cardinality(Requests) \in Nat /\ Cardinality(Requests) >= 1
         /\ Cardinality(A) \in Nat /\ Cardinality(A) <= Cardinality(Requests)
         /\ Cardinality(B) \in Nat /\ Cardinality(B) <= Cardinality(Requests)
         /\ r \notin B => /\ Cardinality(B) <= Cardinality(A)
                          /\ Cardinality(B) <= Cardinality(Requests) - 1
         /\ r \in A => Cardinality(B) <= Cardinality(A)
         /\ r \in A /\ r \notin B => Cardinality(B) <= Cardinality(A) - 1
<1>1. IsFiniteSet(Requests) /\ Requests # {}
  BY ConstantsAssumption
<1>2. IsFiniteSet(A) /\ IsFiniteSet(B)
  BY <1>1, FS_Subset
<1>3. /\ Cardinality(Requests) \in Nat /\ Cardinality(A) \in Nat /\ Cardinality(B) \in Nat
  BY <1>1, <1>2, FS_CardinalityType
<1>4. Cardinality(A) <= Cardinality(Requests) /\ Cardinality(B) <= Cardinality(Requests)
  BY <1>1, FS_Subset
<1>5. Cardinality(Requests) >= 1
  <2>1. Cardinality(Requests) # 0
    BY <1>1, FS_EmptySet
  <2> QED
    BY <1>3, <2>1
<1>6. ASSUME r \notin B
      PROVE  Cardinality(B) <= Cardinality(A) /\ Cardinality(B) <= Cardinality(Requests) - 1
  <2>1. B \subseteq A /\ B \subseteq Requests \ {r}
    BY <1>6
  <2>2. Cardinality(B) <= Cardinality(A)
    BY <1>2, <2>1, FS_Subset
  <2>3. IsFiniteSet(Requests \ {r}) /\ Cardinality(Requests \ {r}) = Cardinality(Requests) - 1
    BY <1>1, FS_RemoveElement
  <2> QED
    BY <2>1, <2>2, <2>3, FS_Subset
<1>7. ASSUME r \in A PROVE Cardinality(B) <= Cardinality(A)
  BY <1>2, <1>7, FS_Subset
<1>8. ASSUME r \in A, r \notin B PROVE Cardinality(B) <= Cardinality(A) - 1
  <2>1. B \in SUBSET (A \ {r})
    BY <1>8
  <2>2. IsFiniteSet(A \ {r}) /\ Cardinality(A \ {r}) = Cardinality(A) - 1
    BY <1>2, <1>8, FS_RemoveElement
  <2> QED
    BY <2>1, <2>2, FS_Subset
<1> QED
  BY <1>3, <1>4, <1>5, <1>6, <1>7, <1>8

-----------------------------------------------------------------------------
(* Guesses *)

(* Wrong log-ins of u that are still to be counted, and will not lock it *)
Guessing(u) ==
  {r \in Requests : pc[r] = "login.fail" /\ arg[r].user = u /\ arg[r].n + 1 < MaxFailed}

(* The count that the lock is decided on is late by the log-ins in flight. *)
GuessInv ==
  \A u \in Users :
    user[u].lock = "none" =>
      user[u].attempts + Cardinality(Guessing(u)) <= MaxFailed - 2 + Cardinality(Requests)

(* What a step of r may do to the count of u while it is not locked *)
GuessStep(r) ==
  \A u \in Users : user'[u].lock = "none" =>
    \/ /\ r \in Guessing(u)' /\ user'[u].attempts <= MaxFailed - 2
    \/ /\ r \notin Guessing(u)'
       /\ \/ user'[u].attempts = 0
          \/ /\ user[u].lock = "none"
             /\ \/ user'[u].attempts = user[u].attempts
                \/ user'[u].attempts = user[u].attempts + 1 /\ r \in Guessing(u)

LEMMA AttemptsNat == ASSUME IInv PROVE \A u \in Users : user[u].attempts \in Nat
BY DEF IInv, TypeOK, UserRow, FreeUser

LEMMA GuessKept ==
  ASSUME IInv, IInv', GuessInv, NEW r \in Requests, Only(r), GuessStep(r)
  PROVE  GuessInv'
<1> SUFFICES ASSUME NEW u \in Users, user'[u].lock = "none"
             PROVE  user'[u].attempts + Cardinality(Guessing(u)')
                      <= MaxFailed - 2 + Cardinality(Requests)
  BY DEF GuessInv
<1> DEFINE A == Guessing(u)
           B == Guessing(u)'
<1>1. A \in SUBSET Requests /\ B \in SUBSET Requests /\ B \ {r} \subseteq A
  BY DEF Guessing, Only
<1>2. user[u].attempts \in Nat /\ user'[u].attempts \in Nat /\ MaxFailed \in Nat \ {0}
  <2>1. user'[u] \in UserRow \cup {FreeUser}
    BY DEF IInv, TypeOK
  <2>2. user'[u].attempts \in Nat
    BY <2>1 DEF UserRow, FreeUser
  <2> QED
    BY <2>2, AttemptsNat, ConstantsAssumption
<1>3. user[u].lock = "none" =>
        user[u].attempts + Cardinality(A) <= MaxFailed - 2 + Cardinality(Requests)
  BY DEF GuessInv
<1>4. \/ r \in B /\ user'[u].attempts <= MaxFailed - 2
      \/ /\ r \notin B
         /\ \/ user'[u].attempts = 0
            \/ /\ user[u].lock = "none"
               /\ \/ user'[u].attempts = user[u].attempts
                  \/ user'[u].attempts = user[u].attempts + 1 /\ r \in A
  BY DEF GuessStep
<1> HIDE DEF A, B
<1>5. user'[u].attempts + Cardinality(B) <= MaxFailed - 2 + Cardinality(Requests)
  BY <1>1, <1>2, <1>3, <1>4, Counts
<1> QED
  BY <1>5 DEF B

(* Steps that count no guess *)
LEMMA GuessQuiet ==
  ASSUME IInv, NEW r \in Requests, pc'[r] # "login.fail",
         \A u \in Users : user'[u].lock = "none" =>
           \/ user'[u].attempts = 0
           \/ user[u].lock = "none" /\ user'[u].attempts = user[u].attempts
  PROVE  GuessStep(r)
BY DEF GuessStep, Guessing

LEMMA GuessAccount ==
  ASSUME IInv, NEW r \in Requests, AccountStep(r)
  PROVE  GuessStep(r)
<1>1. ASSUME NEW p, NEW a, Goto(r, p, a) PROVE pc'[r] = p /\ arg'[r] = a
  BY <1>1 DEF Goto, IInv, TypeOK
<1>2. CASE UNCHANGED user /\ pc'[r] # "login.fail"
  BY <1>2, GuessQuiet
<1>3. ASSUME NEW google \in BOOLEAN, NEW p \in {"token.create", "session.create"},
             InsertUser(r, google, p)
      PROVE  GuessStep(r)
  <2>1. CASE Refused(r)
    BY <1>1, <1>2, <2>1 DEF Refused, Finish, accountVars
  <2>2. ASSUME NEW u \in Users, NEW row, row.attempts = 0,
               user' = [user EXCEPT ![u] = row], pc'[r] = p
        PROVE  GuessStep(r)
    BY <2>2, GuessQuiet DEF IInv, TypeOK
  <2>3. CASE ~Refused(r)
    <3>1. PICK u \in Users :
            /\ user' = [user EXCEPT ![u] =
                         [st |-> "live", email |-> arg[r].email, verified |-> google,
                          pw |-> ~google, attempts |-> 0, lock |-> "none"]]
            /\ Goto(r, p, [arg[r] EXCEPT !.user = u])
      BY <1>3, <2>3 DEF InsertUser
    <3> QED
      BY <1>1, <2>2, <3>1
  <2> QED
    BY <2>1, <2>3
<1>4. CASE LoginRead(r, TRUE) \/ LoginRead(r, FALSE)
  <2>1. arg[r] \in Args /\ UserOf(arg[r])
    BY <1>4, KnownParts DEF LoginRead, IInv, TypeOK, Known
  <2>2. PICK w : w = arg[r].user
    OBVIOUS
  <2>3. UNCHANGED user
    BY <1>4 DEF LoginRead, Continue, Refused, accountVars
  <2>4. CASE pc'[r] # "login.fail"
    BY <1>2, <2>3, <2>4
  <2>5. CASE pc'[r] = "login.fail"
    <3>1. arg'[r] = [arg[r] EXCEPT !.n = user[w].attempts]
      BY <1>1, <1>4, <2>2, <2>5 DEF LoginRead, Continue, Refused, Finish
    <3>2. arg'[r].user = w /\ arg'[r].n = user[w].attempts
      BY <2>1, <2>2, <3>1 DEF Args
    <3>3. /\ \A v \in Users \ {w} : r \notin Guessing(v)'
          /\ r \in Guessing(w)' => user[w].attempts + 1 < MaxFailed
      BY <3>2 DEF Guessing
    <3>4. user[w].attempts + 1 < MaxFailed => user[w].attempts <= MaxFailed - 2
      BY <2>1, <2>2, AttemptsNat, ConstantsAssumption DEF UserOf
    <3> QED
      BY <2>3, <3>3, <3>4 DEF GuessStep
  <2> QED
    BY <2>4, <2>5
<1>5. CASE LoginFail(r)
  <2>1. arg[r] \in Args /\ UserOf(arg[r]) /\ arg[r].n \in Nat /\ pc[r] = "login.fail"
    BY <1>5, KnownParts DEF LoginFail, IInv, TypeOK, Known
  <2>2. PICK w \in Users : w = arg[r].user
    BY <2>1 DEF UserOf
  <2>3. user[w] \in UserRow
    BY <2>1, <2>2, Rows DEF UserOf
  <2>4. /\ \A v \in Users \ {w} : user'[v] = user[v]
        /\ user'[w].attempts = user[w].attempts + 1
        /\ user'[w].lock = IF arg[r].n + 1 >= MaxFailed THEN "held" ELSE user[w].lock
    BY <1>5, <2>2, <2>3 DEF LoginFail, IInv, TypeOK, UserRow
  <2>5. r \in Guessing(w) \/ arg[r].n + 1 >= MaxFailed
    BY <2>1, <2>2, ConstantsAssumption DEF Guessing
  <2>6. \A v \in Users : r \notin Guessing(v)'
    BY <1>1, <1>5 DEF LoginFail, Finish, Guessing
  <2> QED
    BY <2>4, <2>5, <2>6 DEF GuessStep
<1>6. CASE LoginReset(r) \/ ResetWrite(r) \/ ChangePassword(r)
  <2>1. PICK w : w = arg[r].user
    OBVIOUS
  <2>2. w \in Users /\ user[w] \in UserRow
    <3>1. pc[r] \in {"login.reset", "reset.write", "password.write"} /\ Known(r)
      BY <1>6 DEF LoginReset, ResetWrite, ChangePassword, IInv
    <3> QED
      BY <2>1, <3>1, Rows DEF Known, KnownAt, UserSteps, LinkSteps, ResetSteps
  <2>3. /\ \A v \in Users \ {w} : user'[v] = user[v]
        /\ user'[w].attempts = 0
    <3>1. CASE LoginReset(r)
      BY <2>1, <2>2, <3>1 DEF LoginReset, IInv, TypeOK, UserRow
    <3>2. CASE ResetWrite(r) \/ ChangePassword(r)
      BY <2>1, <2>2, <3>2 DEF ResetWrite, ChangePassword, WithPassword, IInv, TypeOK, UserRow
    <3> QED
      BY <1>6, <3>1, <3>2
  <2>4. pc'[r] # "login.fail"
    BY <1>1, <1>6 DEF LoginReset, ResetWrite, ChangePassword, Finish
  <2> QED
    BY <2>3, <2>4, GuessQuiet
<1>7. CASE VerifyMark(r) \/ ConfirmEmail(r) \/ SoftDelete(r)
  <2>1. PICK w : w = arg[r].user
    OBVIOUS
  <2>2. w \in Users /\ user[w] \in UserRow
    <3>1. pc[r] \in {"verify.mark", "confirm.email", "delete.soft"} /\ Known(r)
      BY <1>7 DEF VerifyMark, ConfirmEmail, SoftDelete, IInv
    <3> QED
      BY <2>1, <3>1, Rows DEF Known, KnownAt, UserSteps, LinkSteps, VerifySteps
  <2>3. /\ \A v \in Users \ {w} : user'[v] = user[v]
        /\ user'[w].attempts = user[w].attempts /\ user'[w].lock = user[w].lock
    <3>1. CASE VerifyMark(r)
      BY <2>1, <2>2, <3>1 DEF VerifyMark, IInv, TypeOK, UserRow
    <3>2. CASE ConfirmEmail(r)
      BY <2>1, <2>2, <3>2 DEF ConfirmEmail, Refused, accountVars, IInv, TypeOK, UserRow
    <3>3. CASE SoftDelete(r)
      BY <2>1, <2>2, <3>3 DEF SoftDelete, IInv, TypeOK, UserRow
    <3> QED
      BY <1>7, <3>1, <3>2, <3>3
  <2>4. pc'[r] # "login.fail"
    BY <1>1, <1>7 DEF VerifyMark, ConfirmEmail, SoftDelete, Refused, Finish
  <2> QED
    BY <2>3, <2>4, GuessQuiet
<1>8. CASE CreateToken(r) \/ VerifySpend(r) \/ ResetSpend(r) \/ ConfirmSpend(r) \/ DeleteRevoke(r)
  BY <1>1, <1>2, <1>8
     DEF CreateToken, VerifySpend, ResetSpend, Spend, ConfirmSpend, DeleteRevoke, Finish
<1> QED
  BY <1>3, <1>4, <1>5, <1>6, <1>7, <1>8 DEF AccountStep, Register, GoogleRegister

LEMMA GuessNext == IInv /\ GuessInv /\ [Next]_vars => GuessInv'
<1> SUFFICES ASSUME IInv, GuessInv, [Next]_vars PROVE GuessInv'
  OBVIOUS
<1>1. CASE UNCHANGED vars
  BY <1>1 DEF vars, accountVars, GuessInv, Guessing
<1>2. ASSUME NEW r \in Requests, Open(r) \/ AccountStep(r) \/ Fail(r) \/ OwnStep(r)
      PROVE  GuessInv'
  <2>1. GuessStep(r)
    BY <1>2, OpenNext, OwnNext, GuessAccount, GuessQuiet
       DEF accountVars, OwnSteps, RefreshSteps
  <2> QED
    BY <1>2, <2>1, GuessKept, RequestEffect, EffectInv DEF Effect
<1>3. CASE World
  <2>1. UNCHANGED <<pc, arg>>
    BY <1>3, WorldInv
  <2>2. \A u \in Users : user'[u].lock = "none" => user'[u] = user[u]
    <3>1. CASE UNCHANGED accountVars
      BY <3>1 DEF accountVars
    <3>2. ASSUME NEW w \in Users, LockEnds(w) PROVE <2>2
      <4>1. user' = [user EXCEPT ![w].lock = "over"] /\ user[w] # FreeUser
        BY <3>2 DEF LockEnds, FreeUser
      <4>2. user[w] \in UserRow
        BY <4>1 DEF IInv, TypeOK
      <4> QED
        BY <4>1, <4>2 DEF IInv, TypeOK, UserRow
    <3> QED
      BY <1>3, <3>1, <3>2 DEF World
  <2> QED
    BY <2>1, <2>2 DEF GuessInv, Guessing
<1> QED
  BY <1>1, <1>2, <1>3, NextSteps

(* A lock that is decided on a count read earlier lets at most one more    *)
(* guess through for each other request in flight.                         *)
THEOREM Guesses == Spec => []BoundedGuesses
<1>1. Init => GuessInv
  <2> SUFFICES ASSUME Init, NEW u \in Users
               PROVE  user[u].attempts + Cardinality(Guessing(u))
                        <= MaxFailed - 2 + Cardinality(Requests)
    BY DEF GuessInv
  <2>1. Guessing(u) = {} /\ user[u].attempts = 0
    BY DEF Init, Guessing, FreeUser
  <2>2. PICK r \in Requests : TRUE
    BY ConstantsAssumption
  <2>3. Cardinality(Requests) \in Nat /\ Cardinality(Requests) >= 1
    BY Counts
  <2> QED
    BY <2>1, <2>3, FS_EmptySet, ConstantsAssumption
<1>2. IInv /\ GuessInv => BoundedGuesses
  <2> SUFFICES ASSUME IInv, GuessInv, NEW u \in Users, user[u].lock = "none"
               PROVE  user[u].attempts <= MaxFailed - 2 + Cardinality(Requests)
    BY DEF BoundedGuesses
  <2>1. Guessing(u) \in SUBSET Requests
    BY DEF Guessing
  <2>2. PICK r \in Requests : TRUE
    BY ConstantsAssumption
  <2>3. Cardinality(Guessing(u)) \in Nat /\ Cardinality(Requests) \in Nat
    BY <2>1, Counts
  <2> QED
    BY <2>3, AttemptsNat, ConstantsAssumption DEF GuessInv
<1> QED
  BY <1>1, <1>2, GuessNext, Inductive, PTL DEF Spec

-----------------------------------------------------------------------------
(* Links *)

(* Requests that opened link t before any of them marked it *)
Holding(t) == {r \in Requests : pc[r] \in VerifySteps \cup ResetSteps /\ arg[r].tok = t}

SpentInv ==
  \A t \in TokenIds :
    /\ token[t].st # "used" => uses[t] = 0
    /\ uses[t] + Cardinality(Holding(t)) <= Cardinality(Requests)
    /\ \A r \in Holding(t) :
         pc[r] \in {"verify.mark", "reset.write"} => token[t].st = "used"

(* What a step of r may do to a link *)
SpentStep(r) ==
  \A t \in TokenIds :
    /\ token[t].st = "used" => token'[t].st = "used"
    /\ token'[t].st # "used" => uses'[t] = uses[t]
    /\ r \in Holding(t)' /\ pc'[r] \in {"verify.mark", "reset.write"} => token'[t].st = "used"
    /\ \/ uses'[t] = 0
       \/ uses'[t] = uses[t] /\ (r \in Holding(t)' => r \in Holding(t))
       \/ uses'[t] = uses[t] + 1 /\ r \in Holding(t) /\ r \notin Holding(t)'

LEMMA SpentKept ==
  ASSUME IInv, SpentInv, NEW r \in Requests, Effect(r), SpentStep(r)
  PROVE  SpentInv'
<1> SUFFICES ASSUME NEW t \in TokenIds
             PROVE  /\ token'[t].st # "used" => uses'[t] = 0
                    /\ uses'[t] + Cardinality(Holding(t)') <= Cardinality(Requests)
                    /\ \A q \in Holding(t)' :
                         pc'[q] \in {"verify.mark", "reset.write"} => token'[t].st = "used"
  BY DEF SpentInv
<1>1. token'[t].st # "used" => uses'[t] = 0
  BY DEF SpentInv, SpentStep
<1>2. uses'[t] + Cardinality(Holding(t)') <= Cardinality(Requests)
  <2> DEFINE A == Holding(t)
             B == Holding(t)'
  <2>1. A \in SUBSET Requests /\ B \in SUBSET Requests /\ B \ {r} \subseteq A
    BY DEF Holding, Effect, Only
  <2>2. uses[t] \in Nat /\ uses[t] + Cardinality(A) <= Cardinality(Requests)
    BY DEF SpentInv, IInv, TypeOK
  <2>3. \/ uses'[t] = 0
        \/ uses'[t] = uses[t] /\ (r \in B => r \in A)
        \/ uses'[t] = uses[t] + 1 /\ r \in A /\ r \notin B
    BY DEF SpentStep
  <2> HIDE DEF A, B
  <2>4. uses'[t] + Cardinality(B) <= Cardinality(Requests)
    BY <2>1, <2>2, <2>3, Counts
  <2> QED
    BY <2>4 DEF B
<1>3. ASSUME NEW q \in Holding(t)', pc'[q] \in {"verify.mark", "reset.write"}
      PROVE  token'[t].st = "used"
  <2>1. CASE q = r
    BY <1>3, <2>1 DEF SpentStep
  <2>2. CASE q # r
    <3>1. q \in Holding(t) /\ pc[q] = pc'[q]
      BY <2>2 DEF Holding, Effect, Only
    <3>2. token[t].st = "used"
      BY <1>3, <3>1 DEF SpentInv
    <3> QED
      BY <3>2 DEF SpentStep
  <2> QED
    BY <2>1, <2>2
<1> QED
  BY <1>1, <1>2, <1>3

(* Steps after which r holds no link, and which use none *)
LEMMA SpentQuiet ==
  ASSUME NEW r \in Requests, UNCHANGED uses, pc'[r] \notin VerifySteps \cup ResetSteps,
         \A t \in TokenIds : token[t].st = "used" => token'[t].st = "used"
  PROVE  SpentStep(r)
BY DEF SpentStep, Holding

LEMMA SpentOpen == ASSUME IInv, SpentInv, NEW r \in Requests, Open(r) PROVE SpentStep(r)
<1>1. UNCHANGED <<token, uses>>
  BY OpenNext
<1>2. CASE pc'[r] \notin VerifySteps \cup ResetSteps
  BY <1>1, <1>2, SpentQuiet
<1>3. ASSUME NEW t \in TokenIds, NEW kind, NEW p \in {"verify.spend", "reset.spend"},
             Opens(r, t, kind, p)
      PROVE  SpentStep(r)
  <2>1. /\ token[t].st = "open" /\ pc'[r] = p
        /\ arg'[r].tok = t
    BY <1>3 DEF Opens, Goto, IInv, TypeOK, NoArgs
  <2>2. uses[t] = 0 /\ \A x \in TokenIds \ {t} : r \notin Holding(x)'
    BY <2>1 DEF SpentInv, Holding
  <2> QED
    BY <1>1, <2>1, <2>2 DEF SpentStep
<1>4. CASE \E t \in TokenIds : OpenVerify(r, t) \/ OpenReset(r, t)
  BY <1>3, <1>4 DEF OpenVerify, OpenReset
<1>5. ASSUME NEW p, NEW a, Goto(r, p, a) PROVE pc'[r] = p
  BY <1>5 DEF Goto, IInv, TypeOK
<1>6. CASE \E t \in TokenIds : OpenConfirm(r, t)
  BY <1>2, <1>5, <1>6 DEF OpenConfirm, Opens, VerifySteps, ResetSteps
<1>7. CASE UNCHANGED vars
  <2>1. UNCHANGED <<pc, arg, token, uses>>
    BY <1>7 DEF vars, accountVars, history
  <2> QED
    BY <2>1 DEF SpentStep, SpentInv, Holding
<1>8. ASSUME NEW p \in {"register.insert", "google.insert", "session.create", "login.creds",
                         "password.write", "delete.soft", "token.create"},
             NEW a, Continue(r, p, a)
      PROVE  SpentStep(r)
  BY <1>2, <1>5, <1>8 DEF Continue, VerifySteps, ResetSteps
<1>9. CASE \E e \in Emails : OpenRegister(r, e) \/ OpenGoogle(r, e)
  <2>1. ASSUME NEW e \in Emails, OpenRegister(r, e) PROVE SpentStep(r)
    BY <1>7, <1>8, <2>1 DEF OpenRegister, Opened
  <2>2. ASSUME NEW e \in Emails, OpenGoogle(r, e) PROVE SpentStep(r)
    BY <1>8, <2>2 DEF OpenGoogle
  <2> QED
    BY <1>9, <2>1, <2>2
<1>10. CASE \E u \in Users : OpenLogin(r, u) \/ OpenChangePassword(r, u) \/ OpenDelete(r, u)
  BY <1>7, <1>8, <1>10 DEF OpenLogin, OpenChangePassword, OpenDelete, Opened
<1>11. CASE \E u \in Users : \/ OpenResend(r, u) \/ OpenForgot(r, u)
                             \/ \E e \in Emails : OpenChangeEmail(r, u, e)
  <2>1. ASSUME NEW u \in Users, OpenResend(r, u) PROVE SpentStep(r)
    BY <1>7, <1>8, <2>1 DEF OpenResend, Opened
  <2>2. ASSUME NEW u \in Users, OpenForgot(r, u) PROVE SpentStep(r)
    BY <1>7, <1>8, <2>2 DEF OpenForgot, Opened
  <2>3. ASSUME NEW u \in Users, NEW e \in Emails, OpenChangeEmail(r, u, e) PROVE SpentStep(r)
    BY <1>7, <1>8, <2>3 DEF OpenChangeEmail, Opened
  <2> QED
    BY <1>11, <2>1, <2>2, <2>3
<1> QED
  BY <1>4, <1>6, <1>9, <1>10, <1>11 DEF Open, OpenOwn

LEMMA SpentAccount ==
  ASSUME IInv, SpentInv, NEW r \in Requests, AccountStep(r)
  PROVE  SpentStep(r)
<1>1. ASSUME NEW p, NEW a, Goto(r, p, a) PROVE pc'[r] = p /\ arg'[r] = a
  BY <1>1 DEF Goto, IInv, TypeOK
<1>2. CASE VerifySpend(r) \/ ResetSpend(r)
  <2>1. /\ UNCHANGED uses /\ pc[r] \in {"verify.spend", "reset.spend"}
        /\ pc'[r] \in {"verify.mark", "reset.write"} /\ arg'[r] = arg[r]
        /\ token' = [token EXCEPT ![arg[r].tok].st = "used"]
    BY <1>1, <1>2 DEF VerifySpend, ResetSpend, Spend, history
  <2>2. arg[r].tok \in TokenIds /\ token[arg[r].tok] \in TokenRow
    BY <2>1, LinkArgs DEF LinkOf, LinkSteps, VerifySteps, ResetSteps
  <2>3. /\ token'[arg[r].tok].st = "used"
        /\ \A t \in TokenIds : token[t].st = "used" => token'[t].st = "used"
    BY <2>1, <2>2 DEF IInv, TypeOK, TokenRow
  <2>4. \A t \in TokenIds : /\ r \in Holding(t)' => r \in Holding(t)
                            /\ r \in Holding(t)' => token'[t].st = "used"
    BY <2>1, <2>3 DEF Holding, VerifySteps, ResetSteps
  <2> QED
    BY <2>1, <2>3, <2>4 DEF SpentStep
<1>3. CASE VerifyMark(r) \/ ResetWrite(r)
  <2>1. /\ UNCHANGED token /\ pc[r] \in {"verify.mark", "reset.write"} /\ pc'[r] = "idle"
        /\ uses' = [uses EXCEPT ![arg[r].tok] = @ + 1]
    BY <1>1, <1>3 DEF VerifyMark, ResetWrite, Used, Finish
  <2>2. PICK w \in TokenIds : w = arg[r].tok
    BY <2>1, LinkArgs DEF LinkOf, LinkSteps, VerifySteps, ResetSteps
  <2>3. /\ r \in Holding(w) /\ token[w].st = "used" /\ \A t \in TokenIds : r \notin Holding(t)'
    BY <2>1, <2>2 DEF Holding, VerifySteps, ResetSteps, SpentInv
  <2>4. uses'[w] = uses[w] + 1 /\ \A t \in TokenIds \ {w} : uses'[t] = uses[t]
    BY <2>1, <2>2 DEF IInv, TypeOK
  <2> QED
    BY <2>1, <2>3, <2>4 DEF SpentStep
<1>4. CASE CreateToken(r)
  <2>1. PICK t \in TokenIds : token[t].st = "free" /\ \A x \in TokenIds \ {t} : token'[x] = token[x]
    BY <1>4 DEF CreateToken, IInv, TypeOK
  <2>2. UNCHANGED uses /\ pc'[r] \in {"idle", "session.create"}
    BY <1>1, <1>4 DEF CreateToken, Finish, history
  <2> QED
    BY <2>1, <2>2, SpentQuiet DEF VerifySteps, ResetSteps
<1>5. CASE ConfirmSpend(r)
  <2>1. /\ UNCHANGED uses /\ pc[r] = "confirm.spend" /\ pc'[r] = "idle"
        /\ token' = [token EXCEPT ![arg[r].tok].st = "used"]
    BY <1>1, <1>5 DEF ConfirmSpend, Finish, history
  <2>2. arg[r].tok \in TokenIds /\ token[arg[r].tok] \in TokenRow
    BY <2>1, LinkArgs DEF LinkOf, LinkSteps
  <2>3. \A t \in TokenIds : token[t].st = "used" => token'[t].st = "used"
    BY <2>1, <2>2 DEF IInv, TypeOK, TokenRow
  <2> QED
    BY <2>1, <2>3, SpentQuiet DEF VerifySteps, ResetSteps
<1>6. ASSUME UNCHANGED <<token, uses>>, pc'[r] \notin VerifySteps \cup ResetSteps
      PROVE  SpentStep(r)
  BY <1>6, SpentQuiet
<1>7. ASSUME NEW google \in BOOLEAN, NEW p \in {"token.create", "session.create"},
             InsertUser(r, google, p)
      PROVE  SpentStep(r)
  <2>1. UNCHANGED <<token, uses>>
    BY <1>7 DEF InsertUser, Refused, accountVars, history
  <2>2. \E a : Goto(r, p, a) \/ Goto(r, "idle", a)
    BY <1>7 DEF InsertUser, Refused, Finish
  <2> QED
    BY <1>1, <1>6, <2>1, <2>2 DEF VerifySteps, ResetSteps
<1>8. CASE LoginRead(r, TRUE) \/ LoginRead(r, FALSE) \/ LoginReset(r) \/ LoginFail(r)
  BY <1>1, <1>6, <1>8 DEF LoginRead, LoginReset, LoginFail, Continue, Refused, Finish, accountVars,
                          history, VerifySteps, ResetSteps
<1>9. CASE ConfirmEmail(r) \/ ChangePassword(r) \/ SoftDelete(r) \/ DeleteRevoke(r)
  BY <1>1, <1>6, <1>9 DEF ConfirmEmail, ChangePassword, SoftDelete, DeleteRevoke, Refused, Finish,
                          accountVars, history, VerifySteps, ResetSteps
<1> QED
  BY <1>2, <1>3, <1>4, <1>5, <1>7, <1>8, <1>9 DEF AccountStep, Register, GoogleRegister

LEMMA SpentNext == IInv /\ SpentInv /\ [Next]_vars => SpentInv'
<1> SUFFICES ASSUME IInv, SpentInv, [Next]_vars PROVE SpentInv'
  OBVIOUS
<1>1. CASE UNCHANGED <<token, uses, pc, arg>>
  BY <1>1 DEF SpentInv, Holding
<1>2. ASSUME NEW r \in Requests, Open(r) \/ AccountStep(r) \/ Fail(r) \/ OwnStep(r)
      PROVE  SpentInv'
  <2>1. CASE Fail(r) \/ OwnStep(r)
    BY <1>2, <2>1, OwnNext, SpentQuiet, SpentKept, RequestEffect
       DEF accountVars, history, OwnSteps, RefreshSteps, VerifySteps, ResetSteps
  <2> QED
    BY <1>2, <2>1, SpentOpen, SpentAccount, SpentKept, RequestEffect
<1>3. CASE World
  BY <1>1, <1>3, WorldInv DEF World, LockEnds, accountVars, history
<1>4. CASE UNCHANGED vars
  BY <1>1, <1>4 DEF vars, accountVars, history
<1> QED
  BY <1>2, <1>3, <1>4, NextSteps

(* A link to verify or reset has its effect once for each request that     *)
(* opened it before one marked it, and never after.                        *)
THEOREM Links == Spec => []TokenSpent
<1>1. Init => SpentInv
  <2> SUFFICES ASSUME Init, NEW t \in TokenIds
               PROVE  /\ uses[t] = 0 /\ Holding(t) = {}
                      /\ uses[t] + Cardinality(Holding(t)) <= Cardinality(Requests)
    BY DEF SpentInv
  <2>1. uses[t] = 0 /\ Holding(t) = {}
    BY DEF Init, Holding, VerifySteps, ResetSteps
  <2>2. PICK r \in Requests : TRUE
    BY ConstantsAssumption
  <2>3. Cardinality(Requests) \in Nat
    BY Counts
  <2> QED
    BY <2>1, <2>3, FS_EmptySet
<1>2. IInv /\ SpentInv => TokenSpent
  <2> SUFFICES ASSUME IInv, SpentInv, NEW t \in TokenIds
               PROVE  uses[t] <= Cardinality(Requests)
    BY DEF TokenSpent
  <2>1. Holding(t) \in SUBSET Requests /\ uses[t] \in Nat
    BY DEF Holding, IInv, TypeOK
  <2>2. PICK r \in Requests : TRUE
    BY ConstantsAssumption
  <2>3. Cardinality(Holding(t)) \in Nat /\ Cardinality(Requests) \in Nat
    BY <2>1, Counts
  <2> QED
    BY <2>1, <2>3 DEF SpentInv
<1> QED
  BY <1>1, <1>2, SpentNext, Inductive, PTL DEF Spec

-----------------------------------------------------------------------------
(* Deletion *)

CloseInv ==
  /\ \A r \in Requests : pc[r] = "delete.revoke" => user[arg[r].user].st = "gone"
  /\ \A u \in closed :
       /\ user[u].st = "gone"
       /\ Cardinality(ActiveSessions(u)) + Cardinality(LoggingIn(u)) < Cardinality(Requests)

(* What a step of r may do to the sessions of a user that is deleted *)
CloseStep(r) ==
  /\ \A u \in Users : user[u].st = "gone" => user'[u].st = "gone"
  /\ pc'[r] = "delete.revoke" => user'[arg'[r].user].st = "gone"
  /\ \A u \in closed' :
       \/ /\ user'[u].st = "gone" /\ ActiveSessions(u)' = {} /\ r \notin LoggingIn(u)'
       \/ /\ u \in closed /\ ActiveSessions(u)' \subseteq ActiveSessions(u)
          /\ r \in LoggingIn(u)' => r \in LoggingIn(u)
       \/ /\ u \in closed /\ r \in LoggingIn(u) /\ r \notin LoggingIn(u)'
          /\ \E s \in SessionIds : ActiveSessions(u)' \subseteq ActiveSessions(u) \cup {s}

LEMMA CloseKept ==
  ASSUME IInv, CloseInv, NEW r \in Requests, Effect(r), CloseStep(r)
  PROVE  CloseInv'
<1>1. ASSUME NEW q \in Requests, pc'[q] = "delete.revoke"
      PROVE  user'[arg'[q].user].st = "gone"
  <2>1. CASE q = r
    BY <1>1, <2>1 DEF CloseStep
  <2>2. CASE q # r
    <3>1. pc'[q] = pc[q] /\ arg'[q] = arg[q] /\ Known(q)
      BY <2>2 DEF Effect, Only, IInv
    <3>2. user[arg[q].user].st = "gone" /\ arg[q].user \in Users
      BY <1>1, <3>1 DEF CloseInv, Known, KnownAt, UserSteps
    <3> QED
      BY <3>1, <3>2 DEF CloseStep
  <2> QED
    BY <2>1, <2>2
<1>2. ASSUME NEW u \in closed' PROVE user'[u].st = "gone"
  <2>1. closed \subseteq Users
    BY DEF IInv, TypeOK
  <2> QED
    BY <1>2, <2>1 DEF CloseStep, CloseInv
<1>3. ASSUME NEW u \in closed'
      PROVE  Cardinality(ActiveSessions(u)') + Cardinality(LoggingIn(u)') < Cardinality(Requests)
  <2>1. PICK v : v = u
    OBVIOUS
  <2> DEFINE A == LoggingIn(v)
             B == LoggingIn(v)'
             S == ActiveSessions(v)
             T == ActiveSessions(v)'
  <2>2. A \in SUBSET Requests /\ B \in SUBSET Requests /\ B \ {r} \subseteq A
    BY DEF LoggingIn, Effect, Only
  <2>3. S \in SUBSET SessionIds /\ T \in SUBSET SessionIds
    BY DEF ActiveSessions
  <2>4. IsFiniteSet(S) /\ IsFiniteSet(T)
    BY <2>3, FS_Subset, ConstantsAssumption
  <2>5. Cardinality(S) \in Nat /\ Cardinality(T) \in Nat
    BY <2>4, FS_CardinalityType
  <2>6. v \in closed => Cardinality(S) + Cardinality(A) < Cardinality(Requests)
    BY DEF CloseInv
  <2>7. \/ T = {} /\ r \notin B
        \/ v \in closed /\ T \subseteq S /\ (r \in B => r \in A)
        \/ v \in closed /\ r \in A /\ r \notin B /\ \E s \in SessionIds : T \subseteq S \cup {s}
    BY <2>1 DEF CloseStep
  <2> HIDE DEF A, B, S, T
  <2>8. CASE T = {} /\ r \notin B
    <3>1. Cardinality(T) = 0 /\ Cardinality(B) <= Cardinality(Requests) - 1
      BY <2>2, <2>8, Counts, FS_EmptySet
    <3> QED
      BY <2>1, <2>2, <3>1, Counts DEF B, T
  <2>9. CASE v \in closed /\ T \subseteq S /\ (r \in B => r \in A)
    <3>1. Cardinality(T) <= Cardinality(S)
      BY <2>4, <2>9, FS_Subset
    <3>2. Cardinality(B) <= Cardinality(A)
      BY <2>2, <2>9, Counts
    <3>3. Cardinality(A) \in Nat /\ Cardinality(B) \in Nat /\ Cardinality(Requests) \in Nat
      BY <2>2, Counts
    <3>4. Cardinality(T) + Cardinality(B) < Cardinality(Requests)
      BY <2>5, <2>6, <2>9, <3>1, <3>2, <3>3
    <3> QED
      BY <2>1, <3>4 DEF B, T
  <2>10. CASE v \in closed /\ r \in A /\ r \notin B /\ \E s \in SessionIds : T \subseteq S \cup {s}
    <3>1. PICK s \in SessionIds : T \subseteq S \cup {s}
      BY <2>10
    <3>2. IsFiniteSet(S \cup {s}) /\ Cardinality(S \cup {s}) <= Cardinality(S) + 1
      <4>1. /\ IsFiniteSet(S \cup {s})
            /\ Cardinality(S \cup {s}) =
                 IF s \in S THEN Cardinality(S) ELSE Cardinality(S) + 1
        BY <2>4, FS_AddElement
      <4> QED
        BY <2>5, <4>1
    <3>3. Cardinality(T) <= Cardinality(S \cup {s}) /\ Cardinality(S \cup {s}) \in Nat
      BY <3>1, <3>2, FS_Subset, FS_CardinalityType
    <3>4. Cardinality(B) <= Cardinality(A) - 1
      BY <2>2, <2>10, Counts
    <3>5. Cardinality(A) \in Nat /\ Cardinality(B) \in Nat /\ Cardinality(Requests) \in Nat
      BY <2>2, Counts
    <3>6. Cardinality(T) + Cardinality(B) < Cardinality(Requests)
      BY <2>5, <2>6, <2>10, <3>2, <3>3, <3>4, <3>5
    <3> QED
      BY <2>1, <3>6 DEF B, T
  <2> QED
    BY <2>7, <2>8, <2>9, <2>10
<1> QED
  BY <1>1, <1>2, <1>3 DEF CloseInv

(* A user that is gone stays so, and nobody logs it in from the start. *)
LEMMA GoneOpen ==
  ASSUME IInv, NEW r \in Requests, Open(r), NEW u \in Users, user[u].st = "gone",
         r \in LoggingIn(u)'
  PROVE  r \in LoggingIn(u)
<1>1. ASSUME NEW p, NEW a, Continue(r, p, a) PROVE pc'[r] = p /\ arg'[r] = a
  BY <1>1 DEF Continue, Goto, IInv, TypeOK
<1>2. CASE UNCHANGED vars
  BY <1>2 DEF vars, LoggingIn
<1>3. ASSUME NEW p \in {"register.insert", "google.insert", "password.write", "delete.soft"},
             pc'[r] = p
      PROVE  FALSE
  BY <1>3 DEF LoggingIn
<1>4. ASSUME NEW e \in Emails, OpenRegister(r, e) PROVE r \in LoggingIn(u)
  BY <1>1, <1>2, <1>3, <1>4 DEF OpenRegister, Opened
<1>5. ASSUME NEW v \in Users, Live(v), NEW p, Continue(r, p, [NoArgs EXCEPT !.user = v])
      PROVE  FALSE
  <2>1. arg'[r].user = v
    BY <1>1, <1>5 DEF NoArgs
  <2> QED
    BY <1>5, <2>1 DEF LoggingIn, Live
<1>6. ASSUME NEW e \in Emails, OpenGoogle(r, e) PROVE FALSE
  BY <1>1, <1>3, <1>5, <1>6 DEF OpenGoogle, FoundByEmail
<1>7. ASSUME NEW v \in Users, OpenLogin(r, v) PROVE r \in LoggingIn(u)
  BY <1>2, <1>5, <1>7 DEF OpenLogin, Opened
<1>8. ASSUME NEW v \in Users, OpenChangePassword(r, v) \/ OpenDelete(r, v)
      PROVE  r \in LoggingIn(u)
  BY <1>1, <1>2, <1>3, <1>8 DEF OpenChangePassword, OpenDelete, Opened
<1>9. ASSUME NEW v, NEW k \in Kinds, NEW e,
             Continue(r, "token.create", [NoArgs EXCEPT !.op = k, !.user = v, !.email = e])
      PROVE  FALSE
  <2> DEFINE a == [NoArgs EXCEPT !.op = k, !.user = v, !.email = e]
  <2>1. a.op = k
    BY DEF NoArgs
  <2> HIDE DEF a
  <2>2. arg'[r] = a /\ pc'[r] = "token.create"
    BY <1>1, <1>9 DEF a
  <2> QED
    BY <2>1, <2>2 DEF LoggingIn, Kinds
<1>10. {"verify", "reset", "change"} \subseteq Kinds
  BY DEF Kinds
<1>11. ASSUME NEW v \in Users, OpenResend(r, v) PROVE r \in LoggingIn(u)
  BY <1>2, <1>9, <1>10, <1>11 DEF OpenResend, Opened
<1>12. ASSUME NEW v \in Users, OpenForgot(r, v) PROVE r \in LoggingIn(u)
  BY <1>2, <1>9, <1>10, <1>12 DEF OpenForgot, Opened
<1>13. ASSUME NEW v \in Users, NEW e \in Emails, OpenChangeEmail(r, v, e)
       PROVE  r \in LoggingIn(u)
  BY <1>2, <1>9, <1>10, <1>13 DEF OpenChangeEmail, Opened
<1>14. ASSUME NEW t \in TokenIds, OpenVerify(r, t) \/ OpenReset(r, t) \/ OpenConfirm(r, t)
       PROVE  FALSE
  <2>1. pc'[r] \in {"verify.spend", "reset.spend", "confirm.email"}
    BY <1>14 DEF OpenVerify, OpenReset, OpenConfirm, Opens, Goto, IInv, TypeOK
  <2> QED
    BY <2>1 DEF LoggingIn
<1> QED
  BY <1>4, <1>6, <1>7, <1>8, <1>11, <1>12, <1>13, <1>14 DEF Open, OpenOwn

LEMMA GoneAccount ==
  ASSUME IInv, NEW r \in Requests, AccountStep(r), NEW u \in Users, user[u].st = "gone"
  PROVE  user'[u].st = "gone" /\ (r \in LoggingIn(u)' => r \in LoggingIn(u))
<1>1. ASSUME NEW p, NEW a, Goto(r, p, a) PROVE pc'[r] = p /\ arg'[r] = a
  BY <1>1 DEF Goto, IInv, TypeOK
<1>2. pc'[r] \notin {"token.create", "session.create", "login.creds", "login.reset"}
        => r \notin LoggingIn(u)'
  BY DEF LoggingIn
<1>3. ASSUME NEW google \in BOOLEAN, NEW p, InsertUser(r, google, p),
             p \in {"token.create", "session.create"}
      PROVE  user'[u].st = "gone" /\ r \notin LoggingIn(u)'
  <2>1. CASE Refused(r)
    BY <1>1, <1>2, <2>1 DEF Refused, Finish, accountVars
  <2>2. CASE ~Refused(r)
    <3>1. PICK v \in Users : /\ user[v].st = "free" /\ \A x \in Users \ {v} : user'[x] = user[x]
                             /\ Goto(r, p, [arg[r] EXCEPT !.user = v])
      BY <1>3, <2>2 DEF InsertUser, IInv, TypeOK
    <3>2. u # v /\ arg'[r].user = v
      BY <1>1, <3>1 DEF IInv, TypeOK, Args
    <3> QED
      BY <3>1, <3>2 DEF LoggingIn
  <2> QED
    BY <2>1, <2>2
<1>4. CASE CreateToken(r)
  <2>1. UNCHANGED user /\ pc[r] = "token.create"
    BY <1>4 DEF CreateToken
  <2>2. CASE arg[r].op = "register"
    <3>1. arg'[r] = [NoArgs EXCEPT !.user = arg[r].user]
      BY <1>1, <1>4, <2>2 DEF CreateToken
    <3>2. arg'[r].user = arg[r].user
      BY <3>1 DEF NoArgs
    <3> QED
      BY <2>1, <2>2, <3>2 DEF LoggingIn
  <2>3. CASE arg[r].op # "register"
    BY <1>1, <1>2, <1>4, <2>1, <2>3 DEF CreateToken, Finish
  <2> QED
    BY <2>2, <2>3
<1>5. CASE LoginRead(r, TRUE) \/ LoginRead(r, FALSE)
  <2>1. /\ UNCHANGED user /\ pc[r] = "login.creds"
        /\ \/ pc'[r] \in {"login.fail", "idle"}
           \/ arg'[r] = [arg[r] EXCEPT !.n = user[arg[r].user].attempts]
    BY <1>1, <1>5 DEF LoginRead, Continue, Refused, Finish, accountVars
  <2>2. r \in LoggingIn(u)' => arg'[r].user = arg[r].user
    BY <1>2, <2>1 DEF IInv, TypeOK, Args
  <2> QED
    BY <2>1, <2>2 DEF LoggingIn
<1>6. CASE LoginReset(r)
  <2>1. /\ pc[r] = "login.reset" /\ arg'[r] = [arg[r] EXCEPT !.n = Null]
        /\ user' = [user EXCEPT ![arg[r].user].attempts = 0, ![arg[r].user].lock = "none"]
    BY <1>1, <1>6 DEF LoginReset
  <2>2. arg'[r].user = arg[r].user
    BY <2>1 DEF IInv, TypeOK, Args
  <2>3. user'[u].st = "gone"
    BY <2>1, Rows DEF IInv, TypeOK, UserRow
  <2> QED
    BY <2>1, <2>2, <2>3 DEF LoggingIn
<1>7. CASE LoginFail(r) \/ ResetWrite(r) \/ ChangePassword(r)
  <2>1. pc'[r] = "idle"
    BY <1>1, <1>7 DEF LoginFail, ResetWrite, ChangePassword, Finish
  <2>2. user'[u].st = "gone"
    <3>1. user[u] \in UserRow
      BY Rows
    <3>2. CASE LoginFail(r)
      BY <3>1, <3>2 DEF LoginFail, IInv, TypeOK, UserRow
    <3>3. CASE ResetWrite(r) \/ ChangePassword(r)
      BY <3>1, <3>3 DEF ResetWrite, ChangePassword, WithPassword, IInv, TypeOK, UserRow
    <3> QED
      BY <1>7, <3>2, <3>3
  <2> QED
    BY <1>2, <2>1, <2>2
<1>8. CASE VerifyMark(r) \/ ConfirmEmail(r) \/ SoftDelete(r)
  <2>1. pc'[r] \in {"idle", "confirm.spend", "delete.revoke"}
    BY <1>1, <1>8 DEF VerifyMark, ConfirmEmail, SoftDelete, Refused, Finish
  <2>2. user'[u].st = "gone"
    <3>1. user[u] \in UserRow
      BY Rows
    <3>2. CASE VerifyMark(r)
      BY <3>1, <3>2 DEF VerifyMark, IInv, TypeOK, UserRow
    <3>3. CASE ConfirmEmail(r)
      BY <3>1, <3>3 DEF ConfirmEmail, Refused, accountVars, IInv, TypeOK, UserRow
    <3>4. CASE SoftDelete(r)
      BY <3>1, <3>4 DEF SoftDelete, IInv, TypeOK, UserRow
    <3> QED
      BY <1>8, <3>2, <3>3, <3>4
  <2> QED
    BY <1>2, <2>1, <2>2
<1>9. CASE VerifySpend(r) \/ ResetSpend(r) \/ ConfirmSpend(r) \/ DeleteRevoke(r)
  BY <1>1, <1>2, <1>9
     DEF VerifySpend, ResetSpend, ConfirmSpend, DeleteRevoke, Spend, Finish
<1> QED
  BY <1>3, <1>4, <1>5, <1>6, <1>7, <1>8, <1>9 DEF AccountStep, Register, GoogleRegister

(* Of the steps on accounts only the last one of a deletion writes to      *)
(* sessions.                                                               *)
LEMMA SessionsNext ==
  ASSUME IInv, NEW r \in Requests, AccountStep(r), ~DeleteRevoke(r)
  PROVE  UNCHANGED session /\ UNCHANGED closed
         /\ (pc'[r] = "delete.revoke" => SoftDelete(r))
<1>1. ASSUME NEW p, NEW a, Goto(r, p, a) PROVE pc'[r] = p
  BY <1>1 DEF Goto, IInv, TypeOK
<1>2. CASE Register(r) \/ GoogleRegister(r)
  BY <1>1, <1>2 DEF Register, GoogleRegister, InsertUser, Refused, Finish, sessionVars,
                    accountVars, history
<1>3. CASE CreateToken(r) \/ LoginRead(r, TRUE) \/ LoginRead(r, FALSE)
  BY <1>1, <1>3 DEF CreateToken, LoginRead, Continue, Refused, Finish, sessionVars,
                    accountVars, history
<1>4. CASE LoginReset(r) \/ LoginFail(r) \/ ChangePassword(r) \/ SoftDelete(r)
  BY <1>1, <1>4 DEF LoginReset, LoginFail, ChangePassword, SoftDelete, Finish, sessionVars, history
<1>5. CASE VerifySpend(r) \/ ResetSpend(r) \/ ConfirmSpend(r)
  BY <1>1, <1>5 DEF VerifySpend, ResetSpend, ConfirmSpend, Spend, Finish, sessionVars, history
<1>6. CASE VerifyMark(r) \/ ResetWrite(r) \/ ConfirmEmail(r)
  BY <1>1, <1>6 DEF VerifyMark, ResetWrite, ConfirmEmail, Refused, Finish, sessionVars,
                    accountVars, history
<1> QED
  BY <1>2, <1>3, <1>4, <1>5, <1>6 DEF AccountStep

LEMMA CloseAccount ==
  ASSUME IInv, CloseInv, NEW r \in Requests, AccountStep(r)
  PROVE  CloseStep(r)
<1>1. ASSUME NEW p, NEW a, Goto(r, p, a) PROVE pc'[r] = p /\ arg'[r] = a
  BY <1>1 DEF Goto, IInv, TypeOK
<1>2. \A u \in closed : u \in Users /\ user[u].st = "gone"
  BY DEF CloseInv, IInv, TypeOK
<1>3. CASE DeleteRevoke(r)
  <2>1. PICK w : w = arg[r].user
    OBVIOUS
  <2>2. /\ pc[r] = "delete.revoke" /\ session' = Revoked(ActiveSessions(w))
        /\ closed' = closed \cup {w} /\ pc'[r] = "idle" /\ UNCHANGED user
    BY <1>1, <1>3, <2>1 DEF DeleteRevoke, Finish
  <2>3. user[w].st = "gone" /\ \A u : r \notin LoggingIn(u)'
    BY <2>1, <2>2 DEF CloseInv, LoggingIn
  <2>4. ActiveSessions(w)' = {}
    BY <2>2 DEF ActiveSessions, Revoked, IInv, TypeOK, SessionRow, FreeSession
  <2>5. \A u : ActiveSessions(u)' \subseteq ActiveSessions(u)
    BY <2>2 DEF ActiveSessions, Revoked, IInv, TypeOK, SessionRow, FreeSession
  <2> QED
    BY <2>2, <2>3, <2>4, <2>5 DEF CloseStep
<1>4. CASE ~DeleteRevoke(r)
  <2>1. UNCHANGED session /\ UNCHANGED closed
    BY <1>4, SessionsNext
  <2>2. \A u : ActiveSessions(u)' = ActiveSessions(u)
    BY <2>1 DEF ActiveSessions
  <2>3. ASSUME pc'[r] = "delete.revoke" PROVE user'[arg'[r].user].st = "gone"
    <3>1. SoftDelete(r)
      BY <1>4, <2>3, SessionsNext
    <3>2. PICK w \in Users : w = arg[r].user /\ user[w] \in UserRow
      <4>1. pc[r] = "delete.soft" /\ Known(r)
        BY <3>1 DEF SoftDelete, IInv
      <4> QED
        BY <4>1, Rows DEF Known, KnownAt, UserSteps
    <3>3. user' = [user EXCEPT ![w].st = "gone"] /\ arg'[r].user = w
      BY <1>1, <3>1, <3>2 DEF SoftDelete
    <3> QED
      BY <3>2, <3>3 DEF IInv, TypeOK, UserRow
  <2> QED
    BY <1>2, <2>1, <2>2, <2>3, GoneAccount DEF CloseStep
<1> QED
  BY <1>3, <1>4

LEMMA CloseOwn ==
  ASSUME IInv, CloseInv, NEW r \in Requests, OwnStep(r) \/ Fail(r)
  PROVE  CloseStep(r)
<1>1. /\ UNCHANGED <<user, closed>> /\ pc'[r] # "delete.revoke"
      /\ \A u : r \notin LoggingIn(u)'
  BY OwnNext DEF accountVars, history, OwnSteps, RefreshSteps, LoggingIn
<1>2. ASSUME \A u : ActiveSessions(u)' \subseteq ActiveSessions(u) PROVE CloseStep(r)
  BY <1>1, <1>2 DEF CloseStep
<1>3. CASE UNCHANGED session
  BY <1>2, <1>3 DEF ActiveSessions
<1>4. CASE CreateSession(r)
  <2>1. PICK s \in SessionIds :
          session' = [session EXCEPT ![s] =
                       [st |-> "ACTIVE", user |-> arg[r].user, hash |-> now]]
    BY <1>4 DEF CreateSession
  <2>2. pc[r] = "session.create"
    BY <1>4 DEF CreateSession
  <2>3. session'[s].user = arg[r].user /\ \A x \in SessionIds \ {s} : session'[x] = session[x]
    BY <2>1 DEF IInv, TypeOK
  <2>4. ASSUME NEW u
        PROVE  /\ ActiveSessions(u)' \subseteq ActiveSessions(u) \cup {s}
               /\ ActiveSessions(u)' \subseteq ActiveSessions(u) \/ r \in LoggingIn(u)
    BY <2>2, <2>3 DEF ActiveSessions, LoggingIn
  <2> QED
    BY <1>1, <2>4 DEF CloseStep
<1>5. ASSUME NEW S, session' = Revoked(S) PROVE CloseStep(r)
  <2>1. \A u : ActiveSessions(u)' \subseteq ActiveSessions(u)
    BY <1>5 DEF ActiveSessions, Revoked, IInv, TypeOK, SessionRow, FreeSession
  <2> QED
    BY <1>2, <2>1
<1>6. CASE RevokeFamily(r) \/ RevokeWrite(r)
  BY <1>5, <1>6 DEF RevokeFamily, RevokeWrite
<1>7. CASE RefreshWrite(r)
  <2>1. arg[r].sess \in SessionIds /\ session[arg[r].sess] \in SessionRow
    BY <1>7, OwnArgs DEF RefreshWrite, OwnSteps, RefreshSteps, SessionOf
  <2>2. \A s \in SessionIds : session'[s].st = session[s].st /\ session'[s].user = session[s].user
    BY <1>7, <2>1 DEF RefreshWrite, IInv, TypeOK, SessionRow
  <2> QED
    BY <1>2, <2>2 DEF ActiveSessions
<1>8. CASE RefreshRead(r) \/ RefreshReuse(r) \/ Fail(r)
           \/ (\E found \in BOOLEAN : RefreshAnswer(r, found))
           \/ \E s \in SessionIds : OpenRefresh(r, s) \/ OpenRevoke(r, s)
  BY <1>3, <1>8 DEF RefreshRead, RefreshReuse, Fail, RefreshAnswer, OpenRefresh, OpenRevoke,
                    sessionVars
<1> QED
  BY <1>4, <1>6, <1>7, <1>8 DEF OwnStep

LEMMA CloseOpen ==
  ASSUME IInv, CloseInv, NEW r \in Requests, Open(r)
  PROVE  CloseStep(r)
<1>1. UNCHANGED <<session, user, closed>> /\ pc'[r] # "delete.revoke"
  BY OpenNext DEF sessionVars
<1>2. \A u : ActiveSessions(u)' = ActiveSessions(u)
  BY <1>1 DEF ActiveSessions
<1>3. \A u \in closed : u \in Users /\ user[u].st = "gone"
  BY DEF CloseInv, IInv, TypeOK
<1> QED
  BY <1>1, <1>2, <1>3, GoneOpen DEF CloseStep

LEMMA CloseNext == IInv /\ CloseInv /\ [Next]_vars => CloseInv'
<1> SUFFICES ASSUME IInv, CloseInv, [Next]_vars PROVE CloseInv'
  OBVIOUS
<1>1. ASSUME UNCHANGED <<pc, arg, closed>>, \A u \in Users : user'[u].st = user[u].st,
             \A u : ActiveSessions(u)' \subseteq ActiveSessions(u)
      PROVE  CloseInv'
  <2>1. \A r \in Requests : pc[r] = "delete.revoke" => arg[r].user \in Users
    BY DEF IInv, Known, KnownAt, UserSteps
  <2>2. ASSUME NEW u \in closed
        PROVE  Cardinality(ActiveSessions(u)') + Cardinality(LoggingIn(u)')
                 < Cardinality(Requests)
    <3>1. PICK v : v = u
      OBVIOUS
    <3> DEFINE S == ActiveSessions(v)
               T == ActiveSessions(v)'
               A == LoggingIn(v)
    <3>2. S \in SUBSET SessionIds /\ T \subseteq S /\ A \in SUBSET Requests
      BY <1>1 DEF ActiveSessions, LoggingIn
    <3>3. LoggingIn(v)' = A
      BY <1>1 DEF LoggingIn
    <3>4. Cardinality(S) + Cardinality(A) < Cardinality(Requests)
      BY <2>2, <3>1 DEF CloseInv
    <3> HIDE DEF S, T, A
    <3>5. IsFiniteSet(S)
      BY <3>2, FS_Subset, ConstantsAssumption
    <3>6. IsFiniteSet(T) /\ Cardinality(T) <= Cardinality(S)
      BY <3>2, <3>5, FS_Subset
    <3>7. PICK r \in Requests : TRUE
      BY ConstantsAssumption
    <3>8. /\ Cardinality(S) \in Nat /\ Cardinality(T) \in Nat
          /\ Cardinality(A) \in Nat /\ Cardinality(Requests) \in Nat
      BY <3>2, <3>5, <3>6, FS_CardinalityType, Counts
    <3>9. Cardinality(T) + Cardinality(A) < Cardinality(Requests)
      BY <3>4, <3>6, <3>8
    <3> QED
      BY <3>1, <3>3, <3>9 DEF T
  <2> QED
    BY <1>1, <2>1, <2>2 DEF CloseInv, IInv, TypeOK
<1>2. ASSUME NEW r \in Requests, Open(r) \/ AccountStep(r) \/ Fail(r) \/ OwnStep(r)
      PROVE  CloseInv'
  BY <1>2, CloseOpen, CloseAccount, CloseOwn, CloseKept, RequestEffect
<1>3. CASE UNCHANGED vars
  <2>1. UNCHANGED <<pc, arg, closed, user, session>>
    BY <1>3 DEF vars, accountVars, sessionVars, history
  <2> QED
    BY <1>1, <2>1 DEF ActiveSessions
<1>4. CASE World
  <2>1. UNCHANGED <<pc, arg, closed>>
    BY <1>4, WorldInv DEF World, LockEnds, accountVars, history
  <2>2. \A u \in Users : user'[u].st = user[u].st
    <3>1. CASE UNCHANGED accountVars
      BY <3>1 DEF accountVars
    <3>2. ASSUME NEW w \in Users, LockEnds(w) PROVE <2>2
      <4>1. user' = [user EXCEPT ![w].lock = "over"] /\ user[w] # FreeUser
        BY <3>2 DEF LockEnds, FreeUser
      <4>2. user[w] \in UserRow
        BY <4>1 DEF IInv, TypeOK
      <4> QED
        BY <4>1, <4>2 DEF IInv, TypeOK, UserRow
    <3> QED
      BY <1>4, <3>1, <3>2 DEF World
  <2>3. \A u : ActiveSessions(u)' \subseteq ActiveSessions(u)
    <3>1. UNCHANGED session \/ \E S : session' = Revoked(S)
      BY <1>4 DEF World, RevokeOthers, Tick, LockEnds, sessionVars
    <3> QED
      BY <3>1 DEF ActiveSessions, Revoked, IInv, TypeOK, SessionRow, FreeSession
  <2> QED
    BY <1>1, <2>1, <2>2, <2>3
<1> QED
  BY <1>2, <1>3, <1>4, NextSteps

(* After a deletion has run to its end, each session of the user that is   *)
(* ACTIVE was opened by a log-in that was under way then.                  *)
THEOREM Deletion == Spec => []DeletedIsLoggedOut
<1>1. Init => CloseInv
  BY DEF Init, CloseInv
<1>2. CloseInv => DeletedIsLoggedOut
  BY DEF CloseInv, DeletedIsLoggedOut
<1> QED
  BY <1>1, <1>2, CloseNext, Inductive, PTL DEF Spec

=============================================================================
