------------------------------ MODULE UserRepo ------------------------------
(***************************************************************************)
(* The user repository and the user service on top of it, as functions on  *)
(* a record of three buckets: the users by id, and the two indexes that    *)
(* lead from an identity and from an email to an id.                       *)
(*                                                                         *)
(* For each call X that can fail, canX says that no error return is taken  *)
(* and X is the database it leaves.  Ids are naturals in the byte order of *)
(* the UUIDs.  A user always has an email (domain.User.Validate and the    *)
(* bootstrap see to that).  A password is a natural, 0 when there is none. *)
(* Display names and timestamps are left out.  X_fault is a faulty variant *)
(* of X, for testing the properties.                                       *)
(***************************************************************************)
EXTENDS Naturals, FiniteSets, Sequences

NoUser == 0

EmptyUsers == [users |-> <<>>, idents |-> <<>>, emails |-> <<>>]

Put(f, k, v) == [x \in DOMAIN f \cup {k} |-> IF x = k THEN v ELSE f[x]]
Drop(f, ks) == [x \in DOMAIN f \ ks |-> f[x]]

NewUser(email, idents, system, password) ==
  [email |-> email, idents |-> idents, status |-> "active", system |-> system,
   password |-> password, changeRequired |-> password # 0, version |-> 0]

\* A basic identity's subject is the email; an OIDC subject is opaque.
NewIdentity(provider, subject) == <<provider, subject>>

-----------------------------------------------------------------------------
(* The indexes.                                                            *)

ensureEmailFree(d, email, id) == email \in DOMAIN d.emails => d.emails[email] = id

ensureIdentitiesFree(d, idents, id) ==
  \A i \in idents \cap DOMAIN d.idents : d.idents[i] = id

writeIdentityIndex(d, idents, id) ==
  [d EXCEPT !.idents = [i \in DOMAIN d.idents \cup idents |->
                          IF i \in idents THEN id ELSE d.idents[i]]]

writeEmailIndex(d, email, id) == [d EXCEPT !.emails = Put(d.emails, email, id)]

\* Identities no longer present leave the index, then the new ones enter it.
reconcileIdentityIndex(d, prev, next, id) ==
  writeIdentityIndex([d EXCEPT !.idents = Drop(d.idents, prev \ next)], next \ prev, id)

reconcileEmailIndex(d, prev, next, id) ==
  IF prev = next THEN d
  ELSE writeEmailIndex([d EXCEPT !.emails = Drop(d.emails, {prev})], next, id)

-----------------------------------------------------------------------------
(* The repository.                                                         *)

Exists(d, id) == id \in DOMAIN d.users

canCreate(d, id, u) ==
  /\ ~Exists(d, id)
  /\ ensureEmailFree(d, u.email, id)
  /\ ensureIdentitiesFree(d, u.idents, id)

Create(d, id, u) ==
  writeEmailIndex(
    writeIdentityIndex([d EXCEPT !.users = Put(d.users, id, u)], u.idents, id), u.email, id)

canUpdate(d, id, u) ==
  /\ Exists(d, id)
  /\ ensureIdentitiesFree(d, u.idents \ d.users[id].idents, id)
  /\ u.email # d.users[id].email => ensureEmailFree(d, u.email, id)

Update(d, id, u) ==
  LET prev == d.users[id]
      indexed == reconcileEmailIndex(
                   reconcileIdentityIndex(d, prev.idents, u.idents, id),
                   prev.email, u.email, id)
  IN  [indexed EXCEPT !.users = Put(d.users, id, u)]

SetMembershipVersion(d, id, v) == [d EXCEPT !.users[id].version = v]

SetPassword(d, id, hash, change) ==
  [d EXCEPT !.users[id].password = hash, !.users[id].changeRequired = change]

Delete(d, id) ==
  [users  |-> Drop(d.users, {id}),
   idents |-> Drop(d.idents, d.users[id].idents),
   emails |-> Drop(d.emails, {d.users[id].email})]

\* The lookups: an id, or NoUser when the index or the user is missing.
GetByIdentity(d, i) ==
  IF i \in DOMAIN d.idents /\ Exists(d, d.idents[i]) THEN d.idents[i] ELSE NoUser

GetByEmail(d, email) ==
  IF email \in DOMAIN d.emails /\ Exists(d, d.emails[email]) THEN d.emails[email] ELSE NoUser

\* The first system user in key order.
GetSystemUser(d) ==
  LET system == {id \in DOMAIN d.users : d.users[id].system}
  IN  IF system = {} THEN NoUser
      ELSE CHOOSE id \in system : \A other \in system : id <= other

-----------------------------------------------------------------------------
(* Lists: filter, sort, page.                                              *)

\* By email, the default field (emails are numbers in their order).  Emails are
\* unique, so the negated comparison of a descending sort is an order too.
sortUsers(d, ids, desc) ==
  LET before(a, b) == IF desc THEN d.users[a].email > d.users[b].email
                              ELSE d.users[a].email < d.users[b].email
  IN  [k \in 1 .. Cardinality(ids) |->
         CHOOSE a \in ids : Cardinality({b \in ids : before(b, a)}) = k - 1]

\* At most limit elements from offset on; limit 0 is no limit.
paginateUsers(s, offset, limit) ==
  IF offset >= Len(s) THEN <<>>
  ELSE SubSeq(s, offset + 1, IF limit > 0 /\ offset + limit < Len(s)
                             THEN offset + limit ELSE Len(s))

\* The page, and the number of users in all pages.
List(d, visible, desc, offset, limit) ==
  LET matches == visible \cap DOMAIN d.users
  IN  [page  |-> paginateUsers(sortUsers(d, matches, desc), offset, limit),
       total |-> Cardinality(matches)]

-----------------------------------------------------------------------------
(* The user service.                                                       *)

EnsureMutable(u) == ~u.system

\* A system user takes its first identity only.
canLinkIdentity(d, id, i) ==
  /\ Exists(d, id)
  /\ d.users[id].system => d.users[id].idents = {}
  /\ canUpdate(d, id, [d.users[id] EXCEPT !.idents = @ \cup {i}])

LinkIdentity(d, id, i) == Update(d, id, [d.users[id] EXCEPT !.idents = @ \cup {i}])

\* Stamps the login time, which is left out: the record is put back as it is.
RecordLogin(d, id) == Update(d, id, d.users[id])

canBootstrapSync(d, id, u) == Exists(d, id) /\ d.users[id].system /\ canUpdate(d, id, u)

canTransition(d, id, status) ==
  Exists(d, id) /\ EnsureMutable(d.users[id]) /\ d.users[id].status # status

transitionStatus(d, id, status) == Update(d, id, [d.users[id] EXCEPT !.status = status])

Deactivate(d, id) == transitionStatus(d, id, "deactivated")
Reactivate(d, id) == transitionStatus(d, id, "active")

=============================================================================
