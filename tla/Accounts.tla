------------------------------ MODULE Accounts ------------------------------
(***************************************************************************)
(* Logins, sessions, tokens and the state of user accounts.                *)
(*                                                                         *)
(* A web request validates its session, loads the user, refreshes the      *)
(* session (a read and, later, a write of the whole record and an event)   *)
(* and then runs its use case, one transaction.  A password login checks   *)
(* the password before its transaction.  Token calls run in no transaction *)
(* at all: each read and write is a step.  Requests interleave freely.     *)
(*                                                                         *)
(* The enforcer's cache is the policy on disk here (Rbac has the window    *)
(* between the two).  aux is auxiliary: counts, and what overtook what.    *)
(***************************************************************************)
EXTENDS Access

CONSTANTS
  WebTTL, CLITTL, MaxSliding, Throttle, MinDelta,   \* see SessionRepo
  Procs,          \* concurrent requests
  Passwords,      \* a set of positive naturals
  Externals,      \* callbacks: subject, email, verified; does the state match the cookie
  NewTokens,      \* the tokens asked for: namespaces, permission and expiry
  InitialAccounts, \* pairs of a database and a mode
  MaxTime, MaxRequests, MaxSessions, MaxTokens, MaxCrashes   \* bounds

Sess == INSTANCE SessionRepo
Toks == INSTANCE TokenRepo

VARIABLES
  db,    \* users, groups and policy
  sess,  \* sessions and their events
  toks,  \* tokens and their index
  now,   \* the clock
  mode,  \* the authentication mode
  req,   \* the requests in flight
  aux

vars == <<db, sess, toks, now, mode, req, aux>>

Cache == LoadPolicy(db.pol)
Account(u) == db.users.users[u]
Idle == [pc |-> "idle"]

At(p, pc) == req[p].pc = pc
Goto(p, r) == req' = [req EXCEPT ![p] = r]
Begin(p) ==
  /\ At(p, "idle") /\ aux.begun < MaxRequests
  /\ aux' = [aux EXCEPT !.begun = @ + 1]

FreeSession == Cardinality(DOMAIN sess.sessions) + 1
RoomForSession == FreeSession <= MaxSessions

\* A new session whose credentials were checked at epoch e of the user.
Born(a, s, u, e) ==
  [a EXCEPT !.born = Append(@, e), !.late = IF e = a.epoch[u] THEN @ ELSE @ \cup {s}]

\* All sessions of the user end; what was proved before counts no more.
Ended(a, u) ==
  [a EXCEPT !.epoch[u] = @ + 1, !.ended = @ \cup Sess!ListActiveByUser(sess, u)]

-----------------------------------------------------------------------------
(* Logins.                                                                 *)

\* Passwords are for basic authentication only.
requireBasicAuth == mode = "basic"

BasicLogin(p, email, password) ==
  LET u == Users!GetByIdentity(db.users, Users!NewIdentity("basic", email))
  IN  /\ requireBasicAuth /\ Begin(p)
      /\ u # Users!NoUser
      /\ Account(u).status = "active"
      /\ Account(u).password = password
      /\ Goto(p, [pc |-> "login", user |-> u, epoch |-> aux.epoch[u]])
      /\ UNCHANGED <<db, sess, toks, now, mode>>

\* The transaction of a login only creates the session.
LoginCommit(p) ==
  /\ At(p, "login") /\ RoomForSession
  /\ sess' = Sess!Create(sess, FreeSession, req[p].user, "web", now)
  /\ aux' = Born(aux, FreeSession, req[p].user, req[p].epoch)
  /\ Goto(p, Idle)
  /\ UNCHANGED <<db, toks, now, mode>>

\* An account with this verified email that has no identity of the provider yet.
canLinkOIDCByEmail(us, x) ==
  LET u == Users!GetByEmail(us, x.email)
  IN  /\ x.verified
      /\ u # Users!NoUser
      /\ \A i \in us.users[u].idents : i[1] # "oidc"
      /\ Users!canLinkIdentity(us, u, Users!NewIdentity("oidc", x.sub))

linkOIDCByEmail(us, x) ==
  Users!LinkIdentity(us, Users!GetByEmail(us, x.email), Users!NewIdentity("oidc", x.sub))

known(us, x) == Users!GetByIdentity(us, Users!NewIdentity("oidc", x.sub)) # Users!NoUser

resolveOIDCUser(us, x) == IF known(us, x) THEN us ELSE linkOIDCByEmail(us, x)

\* One transaction: resolve or link, check the status, stamp, create a session.
Callback(p, x) ==
  LET us == resolveOIDCUser(db.users, x)
      u == Users!GetByIdentity(us, Users!NewIdentity("oidc", x.sub))
  IN  /\ At(p, "idle") /\ aux.begun < MaxRequests
      /\ known(db.users, x) \/ canLinkOIDCByEmail(db.users, x)
      /\ us.users[u].status = "active"
      /\ RoomForSession
      /\ db' = [db EXCEPT !.users = Users!RecordLogin(us, u)]
      /\ sess' = Sess!Create(sess, FreeSession, u, "web", now)
      /\ aux' = Born([aux EXCEPT !.begun = @ + 1], FreeSession, u, aux.epoch[u])
      /\ UNCHANGED <<toks, now, mode, req>>

\* The state that comes back must be the one the browser's cookie holds.
OIDCCallback(p, x) == mode = "oidc" /\ x.state /\ Callback(p, x)

-----------------------------------------------------------------------------
(* The interceptor of the web API.                                         *)

Authenticate(p, s) ==
  /\ Begin(p)
  /\ Sess!Validate(sess, s, now)
  /\ Goto(p, [pc |-> "validated", session |-> s, user |-> sess.sessions[s].user])
  /\ UNCHANGED <<db, sess, toks, now, mode>>

\* The user as loaded here goes with the request.
LoadUser(p) ==
  /\ At(p, "validated")
  /\ IF Users!Exists(db.users, req[p].user) /\ Account(req[p].user).status = "active"
     THEN Goto(p, [pc |-> "loaded", session |-> req[p].session, user |-> req[p].user,
                   email |-> Account(req[p].user).email,
                   change |-> Account(req[p].user).changeRequired, epoch |-> aux.epoch[req[p].user]])
     ELSE Goto(p, Idle)
  /\ UNCHANGED <<db, sess, toks, now, mode, aux>>

\* The session is read again, and what to write is computed from it.
Refresh(p) ==
  LET s == sess.sessions[req[p].session]
  IN  /\ At(p, "loaded")
      /\ req' = IF Sess!refreshDue(s, now)
                THEN [req EXCEPT ![p] = [pc |-> "refreshing", of |-> req[p],
                        record |-> Sess!Refreshed(s, now), extended |-> Sess!extends(s, now)]]
                ELSE [req EXCEPT ![p].pc = "ready"]
      /\ UNCHANGED <<db, sess, toks, now, mode, aux>>

\* The write; a revocation since the read is overwritten.
persistRefresh(p) ==
  LET s == req[p].of.session
  IN  /\ At(p, "refreshing")
      /\ sess' = Sess!UpdateSession(sess, s, req[p].record)
      /\ aux' = [aux EXCEPT !.revived = IF sess.sessions[s].revoked /\ ~req[p].record.revoked
                                        THEN @ \cup {s} ELSE @]
      /\ Goto(p, [req[p].of EXCEPT !.pc = IF req[p].extended THEN "logging" ELSE "ready"])
      /\ UNCHANGED <<db, toks, now, mode>>

\* The event is appended outside a transaction.
LogRefresh(p) ==
  /\ At(p, "logging")
  /\ sess' = Sess!putEvent(sess, req[p].session, "refreshed")
  /\ Goto(p, [pc |-> "listing", of |-> req[p], place |-> Len(sess'.events[req[p].session])])
  /\ UNCHANGED <<db, toks, now, mode, aux>>

ListRefresh(p) ==
  /\ At(p, "listing")
  /\ sess' = Sess!putEventByUser(sess, req[p].of.session, req[p].place)
  /\ Goto(p, [req[p].of EXCEPT !.pc = "ready"])
  /\ UNCHANGED <<db, toks, now, mode, aux>>

\* With a password to change, only ChangePassword, Logout and Me are served.
Served(p) == At(p, "ready") /\ ~req[p].change

\* A read, or a refusal.
Finish(p) ==
  /\ At(p, "ready")
  /\ Goto(p, Idle)
  /\ UNCHANGED <<db, sess, toks, now, mode, aux>>

-----------------------------------------------------------------------------
(* The profile and user use cases.  The actor is the user of the request.  *)
(* XRequest is the handler of the use case X.                              *)

Logout(p) ==
  /\ sess' = Sess!Revoke(sess, req[p].session, "revokedByUser")
  /\ aux' = [aux EXCEPT !.ended = @ \cup {req[p].session}]
  /\ Goto(p, Idle)
  /\ UNCHANGED <<db, toks, now, mode>>

LogoutRequest(p) == At(p, "ready") /\ Logout(p)

\* The current password is asked for, unless the loaded user had to change it;
\* the status is not looked at again.  The new session rests on what the
\* interceptor found, and on the account it found.
ChangePassword(p, current, new) ==
  LET u == Users!GetByIdentity(db.users, Users!NewIdentity("basic", req[p].email))
  IN  /\ RoomForSession
      /\ u # Users!NoUser
      /\ ~req[p].change => Account(u).password = current
      /\ db' = [db EXCEPT !.users = Users!SetPassword(@, u, new, FALSE)]
      /\ sess' = Sess!Create(Sess!RevokeAllForUser(sess, u), FreeSession, u, "web", now)
      /\ aux' = Born(Ended(aux, u), FreeSession, u, IF u = req[p].user THEN req[p].epoch + 1 ELSE 0)
      /\ Goto(p, Idle)
      /\ UNCHANGED <<toks, now, mode>>

ChangePasswordRequest(p, current, new) ==
  requireBasicAuth /\ At(p, "ready") /\ ChangePassword(p, current, new)

ResetPassword_keepsSessions(p, u, new) ==
  /\ Users!Exists(db.users, u)
  /\ authorizeUserWrite(db, Cache, req[p].user, u)
  /\ db' = [db EXCEPT !.users = Users!SetPassword(@, u, new, TRUE)]
  /\ aux' = [aux EXCEPT !.epoch[u] = @ + 1]
  /\ Goto(p, Idle)
  /\ UNCHANGED <<sess, toks, now, mode>>

ResetPassword(p, u, new) ==
  /\ Users!Exists(db.users, u)
  /\ authorizeUserWrite(db, Cache, req[p].user, u)
  /\ db' = [db EXCEPT !.users = Users!SetPassword(@, u, new, TRUE)]
  /\ sess' = Sess!RevokeAllForUser(sess, u)
  /\ aux' = Ended(aux, u)
  /\ Goto(p, Idle)
  /\ UNCHANGED <<toks, now, mode>>

ResetUserPassword(p, u, new) == requireBasicAuth /\ Served(p) /\ ResetPassword(p, u, new)

\* Common to both changes of status, which users is the outcome of.
transitionStatus(p, u, status, users) ==
  /\ Users!Exists(db.users, u)
  /\ req[p].user # u
  /\ authorizeUserWrite(db, Cache, req[p].user, u)
  /\ Users!canTransition(db.users, u, status)
  /\ db' = [db EXCEPT !.users = users]
  /\ Goto(p, Idle)
  /\ UNCHANGED <<toks, now, mode>>

DeactivateUser(p, u) ==
  /\ transitionStatus(p, u, "deactivated", Users!Deactivate(db.users, u))
  /\ validateLastAdmin(Cache, u)
  /\ sess' = Sess!RevokeAllForUser(sess, u)
  /\ aux' = Ended(aux, u)

DeactivateUserRequest(p, u) == Served(p) /\ DeactivateUser(p, u)

\* Sessions are not restored.
ReactivateUser(p, u) ==
  transitionStatus(p, u, "active", Users!Reactivate(db.users, u)) /\ UNCHANGED <<sess, aux>>

ReactivateUserRequest(p, u) == Served(p) /\ ReactivateUser(p, u)

DeleteAccount(p, u) ==
  /\ canDeleteUser(db, Cache, Cache, req[p].user, [user |-> u])
  /\ db' = RemoveUser(db, [user |-> u]).db
  /\ sess' = Sess!RevokeAllForUser(sess, u)
  /\ aux' = Ended(aux, u)
  /\ Goto(p, Idle)
  /\ UNCHANGED <<toks, now, mode>>

DeleteUserRequest(p, u) == requireBasicAuth /\ Served(p) /\ DeleteAccount(p, u)

\* Ids are fresh.
CreateAccount(p, u, email, password) ==
  LET r == [email |-> email, password |-> password, groups |-> {}]
  IN  /\ u \notin aux.used
      /\ preauthorize(Cache, req[p].user, {})
      /\ canCreateUser(db, Cache, Cache, req[p].user, u, r)
      /\ db' = CreateUser(db, u, r).db
      /\ aux' = [aux EXCEPT !.used = @ \cup {u}]
      /\ Goto(p, Idle)
      /\ UNCHANGED <<sess, toks, now, mode>>

\* With a password in basic mode, without one in OIDC mode.
CreateUserRequest(p, u, email, password) ==
  /\ Served(p) /\ mode # "none"
  /\ mode = "oidc" <=> password = 0
  /\ CreateAccount(p, u, email, password)

-----------------------------------------------------------------------------
(* Tokens.  A hash is the token's number plus 100.                         *)

Bare(ns) == <<"name", ns>>

configActionForRole(role) == IF role = "reader" THEN "read" ELSE "write"

\* The creator holds what the token is to grant.
canCreateToken(c, a, namespaces, role) ==
  namespaces # {} /\ \A ns \in namespaces : HasNamespace(c, a, ns, configActionForRole(role))

canRevokeToken(c, a, t) ==
  \E ns \in t.namespaces : Has(c, a, Permission("token", "write", Bare(ns)))

canGetToken(c, a, t) ==
  \E ns \in t.namespaces : Has(c, a, Permission("token", "read", Bare(ns)))

GetToken(c, a, id) ==
  IF Toks!GetByID(toks, id) /\ canGetToken(c, a, toks.tokens[toks.byID[id]])
  THEN {Toks!domainTokenToProto(toks.tokens[toks.byID[id]])} ELSE {}

ListTokens(c, a, q) ==
  LET scope == EffectiveDomains(c, a, "token", "read")
  IN  IF scope = {} THEN [page |-> <<>>, total |-> 0]
      ELSE Toks!List(toks, All \in scope, {dom[2] : dom \in {x \in scope : x[1] = "name"}},
                     [q EXCEPT !.limit = pageLimit(@)])

\* The handler's answer.
ListTokensRequest(c, a, q) ==
  LET found == ListTokens(c, a, q)
  IN  [tokens |-> [i \in DOMAIN found.page |-> Toks!domainTokenToProto(toks.tokens[found.page[i]])],
       total  |-> found.total]

CreateToken(p, namespaces, role, expires) ==
  LET id    == aux.minted + 1
      token == Toks!NewToken(id, req[p].email, namespaces, role, expires)
  IN  /\ id <= MaxTokens
      /\ canCreateToken(Cache, req[p].user, namespaces, role)
      /\ Toks!Validate(token)
      /\ toks' = Toks!putToken(toks, id + 100, token)
      /\ aux' = [aux EXCEPT !.minted = id]
      /\ Goto(p, [pc |-> "indexing", id |-> id, hash |-> id + 100])
      /\ UNCHANGED <<db, sess, now, mode>>

CreateTokenRequest(p, namespaces, permission, expires) ==
  LET role == Toks!permissionActionToRole(permission)
  IN  /\ Served(p) /\ role # Toks!NoRole
      /\ \A ns \in namespaces : Has(Cache, req[p].user, Permission("token", "create", Bare(ns)))
      /\ CreateToken(p, namespaces, role, expires)

IndexToken(p) ==
  /\ At(p, "indexing")
  /\ toks' = Toks!putIndex(toks, req[p].id, req[p].hash)
  /\ Goto(p, Idle)
  /\ UNCHANGED <<db, sess, now, mode, aux>>

RevokeToken(p, id) ==
  /\ Toks!GetByID(toks, id)
  /\ canRevokeToken(Cache, req[p].user, toks.tokens[toks.byID[id]])
  /\ Goto(p, [pc |-> "revoking", id |-> id])
  /\ UNCHANGED <<db, sess, toks, now, mode, aux>>

RevokeTokenRequest(p, id) == Served(p) /\ RevokeToken(p, id)

DeleteTokenIndex_late(p) ==
  /\ At(p, "revoking")
  /\ req[p].id \in DOMAIN toks.byID
  /\ toks' = Toks!deleteToken(toks, toks.byID[req[p].id])
  /\ Goto(p, [pc |-> "dropping", hash |-> toks.byID[req[p].id]])
  /\ UNCHANGED <<db, sess, now, mode, aux>>

\* The index entry goes first; another revocation may have taken it.
DeleteTokenIndex(p) ==
  /\ At(p, "revoking")
  /\ IF req[p].id \in DOMAIN toks.byID
     THEN /\ toks' = Toks!deleteIndex(toks, req[p].id)
          /\ Goto(p, [pc |-> "dropping", hash |-> toks.byID[req[p].id]])
     ELSE UNCHANGED toks /\ Goto(p, Idle)
  /\ UNCHANGED <<db, sess, now, mode, aux>>

DropToken_keeps(p) ==
  /\ At(p, "dropping")
  /\ aux' = [aux EXCEPT !.dropped = @ \cup {req[p].hash}]
  /\ Goto(p, Idle)
  /\ UNCHANGED <<db, sess, toks, now, mode>>

DropToken(p) ==
  /\ At(p, "dropping")
  /\ toks' = Toks!deleteToken(toks, req[p].hash)
  /\ aux' = [aux EXCEPT !.dropped = @ \cup {req[p].hash}]
  /\ Goto(p, Idle)
  /\ UNCHANGED <<db, sess, now, mode>>

\* The interceptor of the etcd API; the last use is stamped in the background.
UseToken(p, hash) ==
  /\ Begin(p)
  /\ Toks!GetByHash(toks, hash)
  /\ ~Toks!IsExpired(toks.tokens[hash], now)
  /\ Goto(p, [pc |-> "used", hash |-> hash])
  /\ UNCHANGED <<db, sess, toks, now, mode>>

ReadLastUsed(p) ==
  /\ At(p, "used")
  /\ IF Toks!GetByHash(toks, req[p].hash)
     THEN Goto(p, [pc |-> "stamping", hash |-> req[p].hash,
                   record |-> [toks.tokens[req[p].hash] EXCEPT !.used = now]])
     ELSE Goto(p, Idle)
  /\ UNCHANGED <<db, sess, toks, now, mode, aux>>

\* A revocation since the read is overwritten.
UpdateLastUsed(p) ==
  /\ At(p, "stamping")
  /\ toks' = Toks!putToken(toks, req[p].hash, req[p].record)
  /\ aux' = [aux EXCEPT !.returned = IF req[p].hash \in DOMAIN toks.tokens THEN @
                                     ELSE @ \cup {req[p].hash}]
  /\ Goto(p, Idle)
  /\ UNCHANGED <<db, sess, now, mode>>

-----------------------------------------------------------------------------

Tick ==
  /\ now < MaxTime
  /\ now' = now + 1
  /\ UNCHANGED <<db, sess, toks, mode, req, aux>>

\* The requests in flight are gone; a start seeds the superadmin again.
Crash ==
  /\ aux.crashes < MaxCrashes
  /\ \E d \in bootstrap(db, mode) :
       /\ db' = d
       /\ aux' = [aux EXCEPT !.crashes = @ + 1, !.used = @ \cup DOMAIN d.users.users,
                  !.lost = @ \cup {req[p].hash : p \in {q \in Procs :
                                     req[q].pc \in {"indexing", "dropping"}}}]
  /\ req' = [p \in Procs |-> Idle]
  /\ UNCHANGED <<sess, toks, now, mode>>

\* Every account of the database logged in once, one after the other, and the
\* first of those sessions is about to expire.
Init ==
  \E init \in InitialAccounts :
    LET us == DOMAIN init[1].users.users
        nth(k) == CHOOSE u \in us : Cardinality({v \in us : v < u}) = k - 1
        opened[k \in Nat] == IF k = 0 THEN Sess!EmptySessions
                             ELSE Sess!Create(opened[k - 1], k, nth(k), "web", k - 1)
    IN  /\ db = init[1] /\ mode = init[2]
        /\ sess = opened[Cardinality(us)]
        /\ toks = Toks!EmptyTokens
        /\ now = WebTTL
        /\ req = [p \in Procs |-> Idle]
        /\ aux = [begun |-> 0, crashes |-> 0, minted |-> 0, used |-> us,
                  epoch |-> [u \in UserIds |-> 0], born |-> [k \in 1 .. Cardinality(us) |-> 0],
                  late |-> {}, ended |-> {}, revived |-> {},
                  dropped |-> {}, returned |-> {}, lost |-> {}]

UserOps(p) ==
  \/ \E u \in UserIds :
       \/ \E new \in Passwords : ResetUserPassword(p, u, new)
       \/ DeactivateUserRequest(p, u)
       \/ ReactivateUserRequest(p, u)
       \/ DeleteUserRequest(p, u)
       \/ \E email \in UserIds, password \in {0, 1} : CreateUserRequest(p, u, email, password)
  \/ \E current, new \in Passwords : ChangePasswordRequest(p, current, new)

TokenOps(p) ==
  \/ \E t \in NewTokens : CreateTokenRequest(p, t.namespaces, t.permission, t.expires)
  \/ \E id \in DOMAIN toks.byID : RevokeTokenRequest(p, id)
  \/ \E hash \in DOMAIN toks.tokens : UseToken(p, hash)
  \/ IndexToken(p) \/ DeleteTokenIndex(p) \/ DropToken(p)
  \/ ReadLastUsed(p) \/ UpdateLastUsed(p)

Next ==
  \/ Tick \/ Crash
  \/ \E p \in Procs :
       \/ \E email \in UserIds, password \in Passwords : BasicLogin(p, email, password)
       \/ LoginCommit(p)
       \/ \E x \in Externals : OIDCCallback(p, x)
       \/ \E s \in DOMAIN sess.sessions : Authenticate(p, s)
       \/ LoadUser(p) \/ Refresh(p) \/ persistRefresh(p) \/ LogRefresh(p) \/ ListRefresh(p)
       \/ Finish(p) \/ LogoutRequest(p)
       \/ UserOps(p) \/ TokenOps(p)

Spec == Init /\ [][Next]_vars

-----------------------------------------------------------------------------
(* Properties.                                                             *)

\* Logging out, and revoking all sessions of a user, is for good: a session that
\* was ended is alive again only when a refresh read it before the revocation
\* and wrote it back after.
RevocationHolds ==
  \A s \in aux.ended : sess.sessions[s].revoked \/ s \in aux.revived

\* The audit trail explains the record: the log of a session has its creation
\* once, the session is revoked exactly when a revocation was logged, except
\* for the revived ones, and the log of its user shows the same events, but for
\* refreshes that are being logged or were when the process stopped.
AuditTrail ==
  \A s \in DOMAIN sess.sessions :
    LET log == Sess!ListBySession(sess, s)
        of(types) == {e \in log : sess.events[s][e[2]] \in types}
        revocations == of({"revokedByUser", "revokedCascade"})
    IN  /\ Cardinality(of({"created"})) = 1
        /\ sess.sessions[s].revoked => revocations # {}
        /\ revocations # {} => sess.sessions[s].revoked \/ s \in aux.revived
        /\ \A e \in log \ Sess!ListEventsByUser(sess, sess.sessions[s].user) :
             /\ e \in of({"refreshed"})
             /\ \/ \E p \in Procs : At(p, "listing") /\ e = <<req[p].of.session, req[p].place>>
                \/ aux.crashes > 0

\* A password change, a reset, a deactivation and a deletion leave no live
\* session that rests on what was proved before, with three exceptions: one that
\* a refresh revived; one that a login created which had checked the password
\* before the change; and one that a password change created whose request had
\* been let in before it, as neither looks at the account again (LoginCommit,
\* ChangePassword).
CredentialsCurrent ==
  \A s \in DOMAIN sess.sessions :
    \/ sess.sessions[s].revoked
    \/ aux.born[s] = aux.epoch[sess.sessions[s].user]
    \/ s \in aux.revived \cup aux.late

\* A web session ends TTL after it was last seen, no earlier than MinDelta before
\* that, and never past its maximal age; racing refreshes do not break this.
SlidingHolds ==
  \A s \in DOMAIN sess.sessions :
    LET r == sess.sessions[s]
        due == Sess!Earlier(r.seen + WebTTL, r.created + MaxSliding)
    IN  r.created <= r.seen /\ r.expires <= due /\ due <= r.expires + MinDelta

\* A token whose revocation completed is gone, unless the stamp of a last use
\* that had read it put it back.
TokenRevocationHolds ==
  \A hash \in aux.dropped : hash \notin DOMAIN toks.tokens \/ hash \in aux.returned

\* The indexes of users and tokens lead to their records, crashes included.  Of
\* users: both indexes, and no account has two identities of one provider,
\* whatever logins link and administrators do.  Of tokens: one that cannot be
\* found by its id is being created or revoked, or was when the process
\* stopped, or came back after its revocation.
IndexesAgree ==
  LET d == db.users
      Owned == UNION {{<<i, u>> : i \in d.users[u].idents} : u \in DOMAIN d.users}
  IN  /\ {<<i, d.idents[i]>> : i \in DOMAIN d.idents} = Owned
      /\ {<<e, d.emails[e]>> : e \in DOMAIN d.emails}
           = {<<d.users[u].email, u>> : u \in DOMAIN d.users}
      /\ \A u \in DOMAIN d.users : \A i, j \in d.users[u].idents : i[1] = j[1] => i = j
      /\ \A id \in DOMAIN toks.byID :
           toks.byID[id] \in DOMAIN toks.tokens /\ toks.tokens[toks.byID[id]].id = id
      /\ \A hash \in DOMAIN toks.tokens :
           \/ toks.tokens[hash].id \in DOMAIN toks.byID
           \/ \E p \in Procs : req[p].pc \in {"indexing", "dropping"} /\ req[p].hash = hash
           \/ hash \in aux.lost \cup aux.returned

sorts == [field : {"created", "last_used"}, desc : BOOLEAN]

\* The pages of a caller's token list, however sorted, show every token that
\* caller may revoke exactly once, and each as GetToken shows it; a token
\* GetToken does not show is not in the index (see IndexesAgree).
TokenListComplete ==
  \A u \in DOMAIN db.users.users, sort \in sorts :
    LET page(k) == ListTokensRequest(Cache, u, [namespaces |-> {}, issuers |-> {}, sort |-> sort,
                                                offset |-> k, limit |-> 1]).tokens
        shown == UNION {{<<k, page(k)[i]>> : i \in DOMAIN page(k)} :
                         k \in 0 .. Cardinality(DOMAIN toks.tokens) - 1}
    IN  /\ \A hash \in DOMAIN toks.tokens :
             canRevokeToken(Cache, u, toks.tokens[hash]) =>
               Cardinality({x \in shown : x[2].id = toks.tokens[hash].id}) = 1
        /\ \A x \in shown : x[2].id \in DOMAIN toks.byID => GetToken(Cache, u, x[2].id) = {x[2]}
=============================================================================
