------------------------------ MODULE TokenRepo ------------------------------
(***************************************************************************)
(* The token repository, its filters, and what a token allows.  d.tokens   *)
(* is a function from hashes to records, d.byID a function from ids to     *)
(* hashes.  None of these calls runs in a transaction, so each bucket      *)
(* operation is separate.  Tokens are numbered in order of creation, names *)
(* and addresses are left out.  X_fault is a faulty variant of X.           *)
(***************************************************************************)
EXTENDS Naturals, FiniteSets, Sequences

EmptyTokens == [tokens |-> <<>>, byID |-> <<>>]

NoTime == 0

PutAt(f, k, v) == [x \in DOMAIN f \cup {k} |-> IF x = k THEN v ELSE f[x]]
DropAt(f, k) == [x \in DOMAIN f \ {k} |-> f[x]]

NewToken(id, issuer, namespaces, role, expires) ==
  [id |-> id, issuer |-> issuer, namespaces |-> namespaces, role |-> role,
   expires |-> expires, used |-> NoTime]

\* A token without expiry lives on.
IsExpired(t, now) == t.expires # NoTime /\ t.expires < now

Validate(t) == t.role \in {"reader", "writer"} /\ t.namespaces # {}

NoRole == "none"

\* The action a request names as the role of the new token, and back.
permissionActionToRole(act) ==
  CASE act = "read" -> "reader" [] act = "write" -> "writer" [] OTHER -> NoRole

roleToPermissionAction(role) ==
  CASE role = "reader" -> "read" [] role = "writer" -> "write" [] role = "admin" -> "*" [] OTHER -> "unspecified"

domainTokenToProto(t) ==
  [id |-> t.id, issuedBy |-> t.issuer, namespaces |-> t.namespaces,
   permission |-> roleToPermissionAction(t.role), expires |-> t.expires, used |-> t.used]

GetByHash(d, hash) == hash \in DOMAIN d.tokens

\* Through the index; an entry without a token is not found.
GetByID(d, id) == id \in DOMAIN d.byID /\ d.byID[id] \in DOMAIN d.tokens

\* The steps of Create, Delete and UpdateLastUsed.
putToken(d, hash, t) == [d EXCEPT !.tokens = PutAt(@, hash, t)]
putIndex(d, id, hash) == [d EXCEPT !.byID = PutAt(@, id, hash)]
deleteIndex(d, id) == [d EXCEPT !.byID = DropAt(@, id)]
deleteToken(d, hash) == [d EXCEPT !.tokens = DropAt(@, hash)]

-----------------------------------------------------------------------------
(* Lists.                                                                  *)

namespaceMatches_all(t, any, scopes) == any \/ t.namespaces \subseteq scopes

namespaceMatches(t, any, scopes) == any \/ t.namespaces \cap scopes # {}

explicitNamespaceMatches(t, namespaces) == namespaces = {} \/ t.namespaces \cap namespaces # {}

\* Tokens never used come first.
lastUsedBefore(a, b) ==
  IF a.used = NoTime /\ b.used = NoTime THEN a.id < b.id
  ELSE b.used # NoTime /\ (a.used = NoTime \/ a.used < b.used)

\* The hashes a list shows.
matches(d, any, scopes, namespaces, issuers) ==
  {h \in DOMAIN d.tokens :
     /\ issuers = {} \/ d.tokens[h].issuer \in issuers
     /\ namespaceMatches(d.tokens[h], any, scopes)
     /\ explicitNamespaceMatches(d.tokens[h], namespaces)}

\* Most recent first, by default.  The sort is not stable: tokens last used at
\* one time come in some order.
sortTokens(d, hs, sort) ==
  LET a(h)         == d.tokens[h]
      less(x, y)   == IF sort.field = "last_used" THEN lastUsedBefore(a(x), a(y)) ELSE a(x).id > a(y).id
      before(x, y) == IF sort.desc THEN less(y, x) ELSE less(x, y)
  IN  CHOOSE f \in [1 .. Cardinality(hs) -> hs] :
        \A i, j \in 1 .. Cardinality(hs) : i < j => f[i] # f[j] /\ ~before(f[j], f[i])

paginate(s, offset, limit) ==
  IF offset >= Len(s) THEN <<>>
  ELSE SubSeq(s, offset + 1, IF limit > 0 /\ offset + limit < Len(s)
                             THEN offset + limit ELSE Len(s))

List(d, any, scopes, q) ==
  LET hs == matches(d, any, scopes, q.namespaces, q.issuers)
  IN  [page |-> paginate(sortTokens(d, hs, q.sort), q.offset, q.limit), total |-> Cardinality(hs)]
=============================================================================
