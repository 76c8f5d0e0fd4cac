------------------------------ MODULE Sessions ------------------------------
(***************************************************************************)
(* The log-in sessions of src/modules/sessions: the table, the rotation of *)
(* the refresh token, and revocation.  A refresh token is a signed JWT     *)
(* without an id of its own: it names its session and the second it was    *)
(* issued in, and two tokens of one session issued in the same second are  *)
(* the same string.  So a token stands here for that second, and so does   *)
(* the stored hash.  Module Accounts adds the routes that open and close   *)
(* sessions; pc and arg are those of its requests.                         *)
(*                                                                         *)
(* A request whose token or session has lapsed is refused, which Fail of   *)
(* Accounts allows at every await.                                         *)
(***************************************************************************)
EXTENDS Integers, FiniteSets

CONSTANTS
  Users,       \* ids of users rows
  SessionIds,  \* ids of sessions rows, each with its token family
  Requests,    \* HTTP requests that can be in flight together
  MaxNow,      \* how long the clock runs: a bound
  Null         \* no value

VARIABLES
  session,  \* table sessions
  cookie,   \* the refresh token that the browser of each session holds
  now,      \* the second
  torn,     \* sessions two refreshes of which met, or lost an answer: history
  pc,       \* where each request stands
  arg       \* what each request carries

sessionVars == <<session, cookie, now, torn>>

FreeSession == [st |-> "free", user |-> Null, hash |-> Null]
SessionRow == [st : {"ACTIVE", "REVOKED"}, user : Users, hash : 0..MaxNow]

NoArgs == [op |-> Null, user |-> Null, sess |-> Null, tok |-> Null,
           email |-> Null, n |-> Null]

ActiveSessions(u) == {s \in SessionIds : session[s].st = "ACTIVE" /\ session[s].user = u}

RefreshSteps == {"refresh.read", "refresh.write", "refresh.answer"}
Refreshing(s) == {r \in Requests : pc[r] \in RefreshSteps /\ arg[r].sess = s}

Goto(r, step, a) ==
  /\ pc' = [pc EXCEPT ![r] = step]
  /\ arg' = [arg EXCEPT ![r] = a]

Finish(r) == Goto(r, "idle", NoArgs)

Revoked(S) ==
  [s \in SessionIds |-> IF s \in S THEN [session[s] EXCEPT !.st = "REVOKED"]
                                   ELSE session[s]]

-----------------------------------------------------------------------------
(* createSession, the last step of every way to log in, and the answer that *)
(* sets the cookie.  The first free id: ids are interchangeable.            *)
CreateSession(r) ==
  /\ pc[r] = "session.create"
  /\ \E s \in SessionIds :
       /\ session[s].st = "free"
       /\ session' = [session EXCEPT ![s] =
                       [st |-> "ACTIVE", user |-> arg[r].user, hash |-> now]]
       /\ cookie' = [cookie EXCEPT ![s] = now]
  /\ Finish(r)
  /\ UNCHANGED <<now, torn>>

(* POST /auth/refresh: the cookie is read and its signature verified. *)
OpenRefresh(r, s) ==
  /\ pc[r] = "idle"
  /\ cookie[s] # Null
  /\ Goto(r, "refresh.read", [NoArgs EXCEPT !.sess = s, !.tok = cookie[s]])
  /\ torn' = IF Refreshing(s) = {} THEN torn ELSE torn \cup {s}
  /\ UNCHANGED <<session, cookie, now>>

(* findByTokenFamily; the next token is signed in the second of the read. *)
RefreshRead(r) ==
  LET s == arg[r].sess IN
  /\ pc[r] = "refresh.read"
  /\ session[s].hash = arg[r].tok
  /\ IF session[s].st = "ACTIVE"
     THEN Goto(r, "refresh.write", [arg[r] EXCEPT !.n = now])
     ELSE Finish(r)
  /\ UNCHANGED sessionVars

(* A token that is not the stored one: reuse, the whole family is revoked. *)
RefreshReuse(r) ==
  LET s == arg[r].sess IN
  /\ pc[r] = "refresh.read"
  /\ session[s].hash # arg[r].tok
  /\ Goto(r, "refresh.revoke", arg[r])
  /\ UNCHANGED sessionVars

RevokeFamily(r) ==
  /\ pc[r] = "refresh.revoke"
  /\ session' = Revoked({arg[r].sess})
  /\ Finish(r)
  /\ UNCHANGED <<cookie, now, torn>>

RefreshWriteRow(r) ==  \* mutant: writes back the status that was read, too
  /\ pc[r] = "refresh.write"
  /\ session' = [session EXCEPT ![arg[r].sess].hash = arg[r].n,
                                ![arg[r].sess].st = "ACTIVE"]
  /\ Goto(r, "refresh.answer", arg[r])
  /\ UNCHANGED <<cookie, now, torn>>

(* The update of hash and expiry, by id. *)
RefreshWrite(r) ==
  /\ pc[r] = "refresh.write"
  /\ session' = [session EXCEPT ![arg[r].sess].hash = arg[r].n]
  /\ Goto(r, "refresh.answer", arg[r])
  /\ UNCHANGED <<cookie, now, torn>>

RefreshAnswerStale(r, found) ==  \* mutant: hands back the token it was given
  /\ pc[r] = "refresh.answer"
  /\ cookie' = IF found THEN [cookie EXCEPT ![arg[r].sess] = arg[r].tok] ELSE cookie
  /\ torn' = IF found THEN torn ELSE torn \cup {arg[r].sess}
  /\ Finish(r)
  /\ UNCHANGED <<session, now>>

(* AuthService.refresh reads the user last: found says whether it is live. *)
RefreshAnswer(r, found) ==
  /\ pc[r] = "refresh.answer"
  /\ cookie' = IF found THEN [cookie EXCEPT ![arg[r].sess] = arg[r].n] ELSE cookie
  /\ torn' = IF found THEN torn ELSE torn \cup {arg[r].sess}
  /\ Finish(r)
  /\ UNCHANGED <<session, now>>

(* POST /auth/logout and DELETE /users/me/sessions/:id *)
OpenRevoke(r, s) ==
  /\ pc[r] = "idle"
  /\ session[s].st = "ACTIVE"
  /\ Goto(r, "revoke.write", [NoArgs EXCEPT !.sess = s])
  /\ UNCHANGED sessionVars

RevokeWrite(r) ==
  /\ pc[r] = "revoke.write"
  /\ session' = Revoked({arg[r].sess})
  /\ Finish(r)
  /\ UNCHANGED <<cookie, now, torn>>

(* DELETE /users/me/sessions: one updateMany. *)
RevokeOthers(s) ==
  /\ session[s].user # Null
  /\ session' = Revoked(ActiveSessions(session[s].user) \ {s})
  /\ UNCHANGED <<cookie, now, torn, pc, arg>>

Tick ==
  /\ now < MaxNow
  /\ now' = now + 1
  /\ UNCHANGED <<session, cookie, torn, pc, arg>>

-----------------------------------------------------------------------------
(* A session that was revoked stays so: a refresh that read it while it was *)
(* ACTIVE writes to it later, and must not bring it back.                   *)
RevokedForGood ==
  [][\A s \in SessionIds : session[s].st = "REVOKED" => session'[s].st = "REVOKED"]_session

(* Rotation never locks an honest browser out: as long as its refreshes do *)
(* not overlap and no answer is lost, the token in its cookie is the one   *)
(* the server will accept next.                                            *)
CookieInStep ==
  \A s \in SessionIds :
    session[s].st = "ACTIVE" /\ s \notin torn /\ Refreshing(s) = {}
      => cookie[s] = session[s].hash

=============================================================================
