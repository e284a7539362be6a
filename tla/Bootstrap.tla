------------------------------ MODULE Bootstrap ------------------------------
(***************************************************************************)
(* What every start does to the database before requests are served: the   *)
(* superadmin group, its wildcard rule, and the superadmin user of the     *)
(* configured authentication mode.  A database is a record of users,       *)
(* groups and policy.  An operator returns the SET of databases a start    *)
(* may leave (a new user gets any free id); the set is empty when the      *)
(* start fails.                                                            *)
(***************************************************************************)
EXTENDS Policy

Users == INSTANCE UserRepo
Groups == INSTANCE GroupRepo

CONSTANTS
  UserIds,          \* naturals: the ids users may get
  AdminEmail,       \* the configured superadmin's email
  PassthroughEmail  \* the email of the user of the mode without authentication

EmptyDisk == [users |-> Users!EmptyUsers, groups |-> <<>>, pol |-> EmptyPolicy]

Superadmin == Permission("*", "*", All)

\* An existing group is left alone: an update keeps the stored system flag.
ensureSuperAdminGroup(d) ==
  IF SystemGroupSuperAdmin \in DOMAIN d.groups THEN d
  ELSE [d EXCEPT !.groups = Groups!Create(@, SystemGroupSuperAdmin, Groups!NewGroup(TRUE))]

ensureSuperAdminPolicy(d) ==
  [d EXCEPT !.pol = AddPolicyCtx(@, "p", {<<SystemGroupSuperAdmin, Superadmin>>})]

ensureMembership(d, id) ==
  [d EXCEPT !.pol = AddPolicyCtx(@, "g", {<<id, SystemGroupSuperAdmin>>})]

\* The user, created with any free id unless the email or identity is taken.
createUser(d, u) ==
  {ensureMembership([d EXCEPT !.users = Users!Create(@, id, u)], id) :
     id \in {i \in UserIds : Users!canCreate(d.users, i, u)}}

\* The user's record replaced, unless its email or identity is taken.
syncUser(d, id, u) ==
  IF Users!canBootstrapSync(d.users, id, u)
  THEN {ensureMembership([d EXCEPT !.users = Users!Update(@, id, u)], id)}
  ELSE {}

\* The basic identity replaced, or added.
syncBasicIdentity(u, identity) ==
  [u EXCEPT !.idents = {i \in @ : i[1] # "basic"} \cup {identity}]

ensureBasicAdminUser(d) ==
  LET identity == Users!NewIdentity("basic", AdminEmail)
      found == Users!GetSystemUser(d.users)
  IN  IF found = Users!NoUser
      THEN createUser(d, Users!NewUser(AdminEmail, {identity}, TRUE, 1))
      ELSE syncUser(d, found, [syncBasicIdentity(d.users.users[found], identity)
                                 EXCEPT !.email = AdminEmail])

\* A placeholder without identities, adopted by the first matching login.
ensureOIDCAdminUser(d) ==
  LET found == Users!GetSystemUser(d.users)
  IN  IF found = Users!NoUser
      THEN createUser(d, Users!NewUser(AdminEmail, {}, TRUE, 0))
      ELSE syncUser(d, found, [d.users.users[found] EXCEPT !.email = AdminEmail])

ensurePassthroughUser(d) ==
  LET identity == Users!NewIdentity("basic", PassthroughEmail)
      found == Users!GetByIdentity(d.users, identity)
  IN  IF found = Users!NoUser
      THEN createUser(d, Users!NewUser(PassthroughEmail, {identity}, TRUE, 0))
      ELSE {ensureMembership(d, found)}

Seeded(d) == ensureSuperAdminPolicy(ensureSuperAdminGroup(d))

BootstrapBasic(d) == ensureBasicAdminUser(Seeded(d))
BootstrapOIDC(d) == ensureOIDCAdminUser(Seeded(d))
BootstrapPassthrough(d) == ensurePassthroughUser(Seeded(d))

bootstrap(d, mode) ==
  CASE mode = "basic" -> BootstrapBasic(d)
    [] mode = "oidc"  -> BootstrapOIDC(d)
    [] mode = "none"  -> BootstrapPassthrough(d)
=============================================================================
