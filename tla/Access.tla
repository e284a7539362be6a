------------------------------- MODULE Access -------------------------------
(***************************************************************************)
(* The group and user use cases.  A request r of actor a reads the         *)
(* database d of its transaction and the enforcer's cache, which may       *)
(* change while the transaction runs: c is what its first reads see, late  *)
(* what its last ones do.  For each use case X, canX says that no error is *)
(* returned and X is the transaction's result: the new database, and the   *)
(* operations recorded for the cache.                                      *)
(*                                                                         *)
(* Members, permissions and groups in a request are sets.  Sessions that   *)
(* end with a deleted user are in Accounts.  X_fault is a faulty variant.  *)
(***************************************************************************)
EXTENDS Bootstrap, Integers

NoVersion == -1

CheckVersion_ignored(expected, current) == TRUE

\* An expectation that is not given passes.
CheckVersion(expected, current) == expected \in {NoVersion, current}

Result(d, tx) == [db |-> [d EXCEPT !.pol = tx.pol], ops |-> tx.ops]

Unchanged(d) == Result(d, BeginTx(d.pol))

loadMutableGroup_any(d, name) == name \in DOMAIN d.groups

loadMutableGroup(d, name) == name \in DOMAIN d.groups /\ Groups!EnsureMutable(d.groups[name])

-----------------------------------------------------------------------------
(* Groups.                                                                 *)

\* Each manager group must already dominate the new group's permissions.
authorizeCreate(d, c, late, a, r) ==
  /\ \A perm \in r.perms : Has(c, a, perm)
  /\ \A mg \in r.managers :
       /\ HasGroup(late, a, mg, "write")
       /\ mg \in DOMAIN d.groups
       /\ \A perm \in r.perms : HasForGroup(late, mg, perm)

\* The name must be free.  The counters of what the request gives are 1.
persistEntity(d, r) ==
  [d EXCEPT !.groups = Groups!Create(@, r.name,
     [Groups!NewGroup(FALSE) EXCEPT
        !.permissions = IF r.perms = {} THEN 0 ELSE 1,
        !.members = IF r.members = {} THEN 0 ELSE 1])]

applyInitialPermissions(tx, r) == ApplyPermissionDeltas(tx, r.name, r.perms, {})
applyInitialMembers(tx, r) == ApplyMemberDeltas(tx, r.name, r.members, {})

\* The managers' members may write the new group.  No counter moves.
wireInitialManagers(tx, r) ==
  AddPolicy(tx, r.managers \X {Permission("group", "write", GroupResource(r.name))})

canCreateGroup(d, c, late, a, r) ==
  authorizeCreate(d, c, late, a, r) /\ Groups!canCreate(d.groups, r.name)

CreateGroup(d, r) ==
  Result(persistEntity(d, r),
         wireInitialManagers(
           applyInitialMembers(applyInitialPermissions(BeginTx(d.pol), r), r), r))

canUpdateGroup(d, r) ==
  loadMutableGroup(d, r.name) /\ CheckVersion(r.expected, d.groups[r.name].metadata)

UpdateGroup(d, r) ==
  Unchanged([d EXCEPT !.groups = Groups!Update(@, r.name,
                                   [d.groups[r.name] EXCEPT !.metadata = @ + 1])])

\* The effective change, against the members in the cache.
addedMembers(c, r) == r.add \ GroupMembers(c, r.name)
removedMembers(c, r) == r.remove \cap GroupMembers(c, r.name)

canUpdateMembers(d, c, late, a, r) ==
  /\ r.add \cap r.remove = {}
  /\ loadMutableGroup(d, r.name)
  /\ CheckVersion(r.expected, d.groups[r.name].members)
  /\ addedMembers(c, r) # {} => RequireMembershipGrant(late, a, r.name)

commitMemberDelta(d, name, added, removed) ==
  Result([d EXCEPT !.groups = Groups!Update(@, name, [d.groups[name] EXCEPT !.members = @ + 1])],
         ApplyMemberDeltas(BeginTx(d.pol), name, added, removed))

UpdateMembers(d, c, r) ==
  LET added == addedMembers(c, r)
      removed == removedMembers(c, r)
  IN  IF added \cup removed = {} THEN Unchanged(d)
      ELSE commitMemberDelta(d, r.name, added, removed)

\* The effective change, against the permissions on disk.
addedPerms(d, r) == r.add \ ListPermissionsForSubject(d.pol, r.name)
removedPerms(d, r) == r.remove \cap ListPermissionsForSubject(d.pol, r.name)

boundaryCheckPerms(c, a, added) == \A perm \in added : Has(c, a, perm)

\* What the group will hold reaches its members.
cascadeCheckPerms(c, a, name, post) ==
  GroupMembers(c, name) # {} => \A perm \in post : Has(c, a, perm)

canUpdatePermissions(d, c, late, a, r) ==
  /\ validatePermissionDeltas(r.add, r.remove)
  /\ loadMutableGroup(d, r.name)
  /\ CheckVersion(r.expected, d.groups[r.name].permissions)
  /\ boundaryCheckPerms(c, a, addedPerms(d, r))
  /\ addedPerms(d, r) \cup removedPerms(d, r) # {} =>
       cascadeCheckPerms(late, a, r.name,
         (ListPermissionsForSubject(d.pol, r.name) \cup r.add) \ r.remove)

commitPermissionDelta(d, name, added, removed) ==
  Result([d EXCEPT !.groups = Groups!Update(@, name,
                                [d.groups[name] EXCEPT !.permissions = @ + 1])],
         ApplyPermissionDeltas(BeginTx(d.pol), name, added, removed))

UpdatePermissions(d, r) ==
  IF addedPerms(d, r) \cup removedPerms(d, r) = {} THEN Unchanged(d)
  ELSE commitPermissionDelta(d, r.name, addedPerms(d, r), removedPerms(d, r))

canDeleteGroup(d, r) == loadMutableGroup(d, r.name)

RemoveGroup(d, r) ==
  Result([d EXCEPT !.groups = Groups!Delete(@, r.name)], DeleteGroup(BeginTx(d.pol), r.name))

\* What a caller who may read the group is shown.
GetGroup(d, c, a, name) ==
  [members |-> FilterVisibleUsers(c, DOMAIN d.groups, a, GroupMembers(c, name)),
   permissions |-> GroupPermissions(c, name)]

defaultListLimit == 20

pageLimit(limit) == IF limit <= 0 THEN defaultListLimit ELSE limit

ListGroups(d, c, a, desc, offset, limit) ==
  LET scope == EffectiveDomains(c, a, "group", "read")
  IN  IF scope = {} THEN [page |-> <<>>, total |-> 0]
      ELSE Groups!List(d.groups, All \in scope, GroupNamesFromScope(scope), desc, offset, pageLimit(limit))

domainGroupToProto(gs, name) ==
  [name |-> name, isSystem |-> gs[name].system, metadataVersion |-> gs[name].metadata,
   membersVersion |-> gs[name].members, permissionsVersion |-> gs[name].permissions]

\* The handlers' answers; {} is a refusal.
GetGroupRequest(d, c, a, name) ==
  IF HasGroup(c, a, name, "read") /\ name \in DOMAIN d.groups
  THEN {[group |-> domainGroupToProto(d.groups, name), visibleMembers |-> GetGroup(d, c, a, name).members,
         permissions |-> GetGroup(d, c, a, name).permissions]}
  ELSE {}

ListGroupsRequest(d, c, a, offset, limit) ==
  LET found == ListGroups(d, c, a, FALSE, offset, limit)
  IN  [groups |-> [i \in DOMAIN found.page |-> domainGroupToProto(d.groups, found.page[i])],
       total  |-> found.total]

-----------------------------------------------------------------------------
(* Users.                                                                  *)

\* Group:Write on each initial group.
authorizeInitialGroups(c, a, names) == \A name \in names : HasGroup(c, a, name, "write")

\* Checked before the transaction opens.
preauthorize(c, a, names) ==
  \/ HasGlobal(c, a, "user", "create")
  \/ names # {} /\ authorizeInitialGroups(c, a, names)

loadGroupsByNames(d, names) == \A name \in names : loadMutableGroup(d, name)

\* With a password a basic identity; without, none until the first login.
newUserFromCreateData(email, password) ==
  Users!NewUser(email, IF password = 0 THEN {} ELSE {Users!NewIdentity("basic", email)},
                FALSE, 0)

persistUser(us, id, email, password) ==
  LET created == Users!Create(us, id, newUserFromCreateData(email, password))
  IN  IF password = 0 THEN created ELSE Users!SetPassword(created, id, password, TRUE)

applyInitialGroups(d, id, names) ==
  Result([d EXCEPT !.users = Users!SetMembershipVersion(@, id, 1)],
         ApplyUserMembershipDeltas(BeginTx(d.pol), id, names, {}))

canCreateUser(d, c, late, a, id, r) ==
  /\ Users!canCreate(d.users, id, newUserFromCreateData(r.email, r.password))
  /\ authorizeInitialGroups(c, a, r.groups)
  /\ loadGroupsByNames(d, r.groups)
  /\ \A name \in r.groups : RequireMembershipGrant(late, a, name)

CreateUser(d, id, r) ==
  applyInitialGroups([d EXCEPT !.users = persistUser(@, id, r.email, r.password)], id, r.groups)

\* A membership of a group that is not in the store is an error.
canCurrentUserGroupNames(d, c, user) == UserGroupNames(c, user) \subseteq DOMAIN d.groups

authorizeGroupDeltas(c, a, names) == \A name \in names : HasGroup(c, a, name, "write")

\* The effective change, against the memberships in the cache.
addedGroups(c, r) == r.add \ UserGroupNames(c, r.user)
removedGroups(c, r) == r.remove \cap UserGroupNames(c, r.user)

canComputeGroupDelta(d, c, late, a, r) ==
  /\ canCurrentUserGroupNames(d, c, r.user)
  /\ authorizeGroupDeltas(late, a, r.add \cup r.remove)
  /\ loadGroupsByNames(d, addedGroups(c, r) \cup removedGroups(c, r))
  /\ \A name \in addedGroups(c, r) : RequireMembershipGrant(late, a, name)

canUpdateUserGroups(d, c, late, a, r) ==
  /\ r.add \cap r.remove = {}
  /\ Users!Exists(d.users, r.user)
  /\ Users!EnsureMutable(d.users.users[r.user])
  /\ CheckVersion(r.expected, d.users.users[r.user].version)
  /\ canComputeGroupDelta(d, c, late, a, r)

applyMembershipDelta(d, user, added, removed) ==
  Result([d EXCEPT !.users = Users!SetMembershipVersion(@, user, @.users[user].version + 1)],
         ApplyUserMembershipDeltas(BeginTx(d.pol), user, added, removed))

UpdateUserGroups(d, c, r) ==
  IF addedGroups(c, r) \cup removedGroups(c, r) = {} THEN Unchanged(d)
  ELSE applyMembershipDelta(d, r.user, addedGroups(c, r), removedGroups(c, r))

authorizeUserWrite(d, c, a, target) ==
  RequireWriteUser(c, DOMAIN d.groups, a, target) /\ checkAntiEscalation(c, a, target)

validateLastAdmin_unchecked(c, target) == TRUE

validateLastAdmin(c, target) == GroupMembers(c, SystemGroupSuperAdmin) # {target}

canDeleteUser(d, c, late, a, r) ==
  /\ Users!Exists(d.users, r.user)
  /\ a # r.user
  /\ authorizeUserWrite(d, c, a, r.user)
  /\ validateLastAdmin(late, r.user)

RemoveUser(d, r) ==
  Result([d EXCEPT !.users = Users!Delete(@, r.user)], DeleteUser(BeginTx(d.pol), r.user))

\* Get: not found, and not visible, are one answer.
canGetUser(d, c, a, user) ==
  /\ Users!Exists(d.users, user)
  /\ CanReadUser(c, DOMAIN d.groups, a, user)
  /\ canResolveTargetGroups(c, DOMAIN d.groups, user)

listableUsers_scoped(d, c, a) ==
  IF EffectiveDomains(c, a, "group", "read") # {} THEN DOMAIN d.users.users ELSE {}

\* The users a list may show: all of them with a global User:Read or a wildcard
\* Group:Read, otherwise the members of the readable groups.
listableUsers(d, c, a) ==
  LET scope == EffectiveDomains(c, a, "group", "read")
  IN  IF HasGlobal(c, a, "user", "read") \/ All \in scope THEN DOMAIN d.users.users
      ELSE MembersOfScope(c, scope)

ListUsers(d, c, a, desc, offset, limit) ==
  Users!List(d.users, listableUsers(d, c, a), desc, offset, pageLimit(limit))

domainUserToProto(us, u) ==
  [id |-> u, email |-> us[u].email, status |-> us[u].status, identities |-> us[u].idents,
   isSystem |-> us[u].system]

GetUserRequest(d, c, a, u) ==
  IF canGetUser(d, c, a, u)
  THEN {[user |-> domainUserToProto(d.users.users, u), visibleGroups |-> VisibleUserGroupNames(c, a, u),
         membershipVersion |-> d.users.users[u].version]}
  ELSE {}

ListUsersRequest(d, c, a, offset, limit) ==
  LET found == ListUsers(d, c, a, FALSE, offset, limit)
  IN  [users |-> [i \in DOMAIN found.page |-> domainUserToProto(d.users.users, found.page[i])],
       total |-> found.total]
=============================================================================
