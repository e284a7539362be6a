----------------------------- MODULE SessionRepo -----------------------------
(***************************************************************************)
(* The session and session-event repositories, and the session service on  *)
(* top of them, as operators.  A database d has the fields                 *)
(*   sessions : id -> record      byUser : set of pairs <<user, id>>       *)
(*   events   : id -> sequence of event types, in the order of appending   *)
(*   unlisted : set of pairs <<id, place in the sequence>>                 *)
(* Events are indexed by session, which events stands for, and by user,    *)
(* where those of unlisted are missing.  Their ids are random, so lists of *)
(* them, sorted by id, come in any order.  Time is a number.  Addresses,   *)
(* agents and the name of the revoker are left out.  X_fault is a faulty   *)
(* variant of X.                                                           *)
(***************************************************************************)
EXTENDS Naturals, FiniteSets, Sequences

CONSTANTS
  WebTTL,       \* defaultWebTTL
  CLITTL,       \* defaultCLITTL
  MaxSliding,   \* maxWebSlidingTTL
  Throttle,     \* refreshThrottle
  MinDelta      \* refreshMinDelta

EmptySessions == [sessions |-> <<>>, byUser |-> {}, events |-> <<>>, unlisted |-> {}]

Put(f, k, v) == [x \in DOMAIN f \cup {k} |-> IF x = k THEN v ELSE f[x]]

-----------------------------------------------------------------------------
(* The repositories.                                                       *)

Exists(d, id) == id \in DOMAIN d.sessions

CreateSession(d, id, s) ==
  [d EXCEPT !.sessions = Put(@, id, s), !.byUser = @ \cup {<<s.user, id>>}]

\* The whole record is replaced.
UpdateSession(d, id, s) == [d EXCEPT !.sessions[id] = s]

Append1(d, id, type) ==
  [d EXCEPT !.events = Put(@, id, Append(IF id \in DOMAIN @ THEN @[id] ELSE <<>>, type))]

\* Outside a transaction the puts of an event are three: the record, which only
\* the indexes lead to, and the index by session; then the index by user.
putEvent(d, id, type) ==
  LET e == Append1(d, id, type) IN [e EXCEPT !.unlisted = @ \cup {<<id, Len(e.events[id])>>}]

putEventByUser(d, id, place) == [d EXCEPT !.unlisted = @ \ {<<id, place>>}]

collectSessionIDsForUser(d, user) == {e[2] : e \in {x \in d.byUser : x[1] = user}}

ListByUser(d, user) == {id \in collectSessionIDsForUser(d, user) : Exists(d, id)}
ListActiveByUser(d, user) == {id \in ListByUser(d, user) : ~d.sessions[id].revoked}

\* Every session of the user that is not revoked yet.
revokeAll(d, user) ==
  [d EXCEPT !.sessions = [id \in DOMAIN @ |->
                            IF id \in collectSessionIDsForUser(d, user)
                            THEN [@[id] EXCEPT !.revoked = TRUE] ELSE @[id]]]

\* The events of a session, and of all sessions of a user, as pairs <<id, place>>
\* (pages are cut by offset and limit as in the other repositories).
ListBySession(d, id) == IF id \in DOMAIN d.events THEN {<<id, i>> : i \in DOMAIN d.events[id]} ELSE {}

ListEventsByUser(d, user) ==
  UNION {ListBySession(d, id) : id \in {x \in DOMAIN d.sessions : d.sessions[x].user = user}} \ d.unlisted

-----------------------------------------------------------------------------
(* The service.                                                            *)

IsActive(s) == ~s.revoked
IsExpired(s, now) == now > s.expires
EnsureActive(s, now) == IsActive(s) /\ ~IsExpired(s, now)

NewSession(user, client, now) ==
  [user |-> user, client |-> client, created |-> now, seen |-> now, revoked |-> FALSE,
   expires |-> now + (IF client = "cli" THEN CLITTL ELSE WebTTL)]

Create(d, id, user, client, now) ==
  Append1(CreateSession(d, id, NewSession(user, client, now)), id, "created")

Validate(d, id, now) == Exists(d, id) /\ EnsureActive(d.sessions[id], now)

Earlier(a, b) == IF a <= b THEN a ELSE b

\* A web session is extended to TTL from now, up to the cap, when that gains
\* more than MinDelta.
extends(s, now) ==
  /\ s.client = "web"
  /\ Earlier(now + WebTTL, s.created + MaxSliding) > s.expires + MinDelta

applySliding_uncapped(s, now) ==
  IF extends(s, now) THEN [s EXCEPT !.expires = now + WebTTL] ELSE s

applySliding(s, now) ==
  IF extends(s, now)
  THEN [s EXCEPT !.expires = Earlier(now + WebTTL, s.created + MaxSliding)] ELSE s

\* Alive, and not seen just now.
refreshDue(s, now) == EnsureActive(s, now) /\ now >= s.seen + Throttle

\* What a refresh is going to write, and whether it logs an event.
Refreshed(s, now) == [applySliding(s, now) EXCEPT !.seen = now]

Revoke_eventOnly(d, id, type) == Append1(d, id, type)

\* Revoke does not ask whether the session is alive.
Revoke(d, id, type) ==
  Append1([d EXCEPT !.sessions[id].revoked = TRUE], id, type)

\* One event for each session that was active.
RevokeAllForUser_silent(d, user) == revokeAll(d, user)

RevokeAllForUser(d, user) ==
  LET active == ListActiveByUser(d, user)
      revoked == revokeAll(d, user)
  IN  [revoked EXCEPT !.events = [id \in DOMAIN @ |->
         IF id \in active THEN Append(@[id], "revokedCascade") ELSE @[id]]]
=============================================================================
