------------------------------- MODULE Policy -------------------------------
(***************************************************************************)
(* Permission rules and what they decide: the Casbin matcher, the policy   *)
(* repository, and the decision (PDP), administration (PAP) and scope      *)
(* helpers of service/authz.                                               *)
(*                                                                         *)
(* A policy is a record of p-rules, pairs <<group, permission>>, and of    *)
(* g-rules, pairs <<user, group>> (every g-rule is a membership in the     *)
(* domain "*").  A permission is a record of an object, an action and a    *)
(* domain; a domain is All, a group's or a namespace's resource.  The same *)
(* operators read the policy on disk and the one in the enforcer's cache.  *)
(*                                                                         *)
(* Casbin itself is external: Subjects and Enforce state what its matcher  *)
(* answers for rules of this shape.  X_fault is a faulty variant of X.     *)
(***************************************************************************)
EXTENDS Naturals, FiniteSets, Sequences

CONSTANT SystemGroupSuperAdmin   \* the name of the bootstrap group

All == <<"*">>

GroupResource(name) == <<"group", name>>
NamespaceResource(name) == <<"namespace", name>>
IsGroupSubject(dom) == dom[1] = "group"

Permission(obj, act, dom) == [obj |-> obj, act |-> act, dom |-> dom]

EmptyPolicy == [p |-> {}, g |-> {}]

ObjectGrants(granted, required) == granted = "*" \/ granted = required

\* Write implies read.
ActionGrants(granted, required) ==
  \/ granted = "*" \/ granted = required
  \/ granted = "write" /\ required = "read"

-----------------------------------------------------------------------------
(* Casbin.                                                                 *)

Subjects(c, s) == {s} \cup {rule[2] : rule \in {m \in c.g : m[1] = s}}

\* The matcher of casbinModel.
Enforce(c, s, perm) ==
  \E rule \in c.p :
    /\ rule[1] \in Subjects(c, s)
    /\ rule[2].dom = All \/ rule[2].dom = perm.dom
    /\ ObjectGrants(rule[2].obj, perm.obj)
    /\ ActionGrants(rule[2].act, perm.act)

GetImplicitPermissionsForUser(c, s) ==
  {rule[2] : rule \in {r \in c.p : r[1] \in Subjects(c, s)}}

GetMembersOfGroup(c, name) == {rule[1] : rule \in {m \in c.g : m[2] = name}}

-----------------------------------------------------------------------------
(* The policy repository: sec is "p" or "g".                               *)

AddPolicyCtx(d, sec, rules) == [d EXCEPT ![sec] = @ \cup rules]
RemovePolicyCtx(d, sec, rules) == [d EXCEPT ![sec] = @ \ rules]
RemoveFilteredPolicyCtx(d, sec, i, s) == [d EXCEPT ![sec] = {r \in @ : r[i] # s}]
ListPermissionsForSubject(d, s) == {r[2] : r \in {x \in d.p : x[1] = s}}

\* The cache is rebuilt from the rules on disk.
LoadPolicy(d) == [p |-> d.p, g |-> d.g]

-----------------------------------------------------------------------------
(* A write transaction: tx.pol is the policy on disk, tx.ops the changes   *)
(* recorded for the cache, in order.  The rules of one delta are distinct  *)
(* and are recorded as one operation on a set.                             *)

BeginTx(d) == [pol |-> d, ops |-> <<>>]

Record(ops, kind, rules) ==
  IF rules = {} THEN ops ELSE Append(ops, [kind |-> kind, rules |-> rules])

AddPolicy(tx, rules) ==
  [pol |-> AddPolicyCtx(tx.pol, "p", rules), ops |-> Record(tx.ops, "addP", rules)]

RemovePolicy(tx, rules) ==
  [pol |-> RemovePolicyCtx(tx.pol, "p", rules), ops |-> Record(tx.ops, "removeP", rules)]

AddRoleForUser(tx, rules) ==
  [pol |-> AddPolicyCtx(tx.pol, "g", rules), ops |-> Record(tx.ops, "addG", rules)]

RemoveRoleForUser(tx, rules) ==
  [pol |-> RemovePolicyCtx(tx.pol, "g", rules), ops |-> Record(tx.ops, "removeG", rules)]

\* On disk only the g-rules that name s go.
DeleteUser(tx, s) ==
  [pol |-> RemoveFilteredPolicyCtx(RemoveFilteredPolicyCtx(tx.pol, "g", 1, s), "g", 2, s),
   ops |-> Record(tx.ops, "deleteUser", {s})]

applyOp_subjectOnly(c, op) ==
  CASE op.kind = "addP"       -> [c EXCEPT !.p = @ \cup op.rules]
    [] op.kind = "removeP"    -> [c EXCEPT !.p = @ \ op.rules]
    [] op.kind = "addG"       -> [c EXCEPT !.g = @ \cup op.rules]
    [] op.kind = "removeG"    -> [c EXCEPT !.g = @ \ op.rules]
    [] op.kind = "deleteUser" -> [p |-> {r \in c.p : r[1] \notin op.rules},
                                  g |-> {r \in c.g : r[1] \notin op.rules}]

\* One recorded operation on the cache, where a deleteUser takes the subject's
\* p-rules away too.
applyOp(c, op) ==
  CASE op.kind = "addP"       -> [c EXCEPT !.p = @ \cup op.rules]
    [] op.kind = "removeP"    -> [c EXCEPT !.p = @ \ op.rules]
    [] op.kind = "addG"       -> [c EXCEPT !.g = @ \cup op.rules]
    [] op.kind = "removeG"    -> [c EXCEPT !.g = @ \ op.rules]
    [] op.kind = "deleteUser" ->
         [p |-> {r \in c.p : r[1] \notin op.rules},
          g |-> {r \in c.g : r[1] \notin op.rules /\ r[2] \notin op.rules}]

-----------------------------------------------------------------------------
(* PAP: changes of a group's or of a user's rules; removals come first.    *)

ApplyPermissionDeltas(tx, name, added, removed) ==
  AddPolicy(RemovePolicy(tx, {name} \X removed), {name} \X added)

ApplyMemberDeltas(tx, name, added, removed) ==
  AddRoleForUser(RemoveRoleForUser(tx, removed \X {name}), added \X {name})

ApplyUserMembershipDeltas(tx, user, added, removed) ==
  AddRoleForUser(RemoveRoleForUser(tx, {user} \X removed), {user} \X added)

DeleteGroup(tx, name) == DeleteUser(tx, name)

-----------------------------------------------------------------------------
(* PDP: decisions.                                                         *)

Has(c, s, perm) == Enforce(c, s, perm)

HasGroup(c, s, name, act) == Has(c, s, Permission("group", act, GroupResource(name)))
HasNamespace(c, s, name, act) == Has(c, s, Permission("namespace", act, NamespaceResource(name)))
HasGlobal(c, s, obj, act) == Has(c, s, Permission(obj, act, All))
HasForGroup(c, name, perm) == Has(c, name, perm)

EffectiveDomains_exact(c, s, obj, act) ==
  {p.dom : p \in {q \in GetImplicitPermissionsForUser(c, s) :
                    ObjectGrants(q.obj, obj) /\ q.act = act}}

\* The domains in which s may do act; All among them is a wildcard.
EffectiveDomains(c, s, obj, act) ==
  {p.dom : p \in {q \in GetImplicitPermissionsForUser(c, s) :
                    ObjectGrants(q.obj, obj) /\ ActionGrants(q.act, act)}}

Contains(scope, dom) == All \in scope \/ dom \in scope

ListPermissions(c, s) == GetImplicitPermissionsForUser(c, s)

-----------------------------------------------------------------------------
(* PAP: reads of the cache.                                                *)

GroupPermissions(c, name) == {rule[2] : rule \in {r \in c.p : r[1] = name}}
GroupMembers(c, name) == GetMembersOfGroup(c, name)
UserGroupNames(c, user) == Subjects(c, user) \ {user}

GroupNamesFromScope(scope) == {dom[2] : dom \in {x \in scope : IsGroupSubject(x)}}

MembersOfScope(c, scope) ==
  UNION {GetMembersOfGroup(c, name) : name \in GroupNamesFromScope(scope)}

-----------------------------------------------------------------------------
(* Scope: what an actor may do with a user, derived from groups.  names is *)
(* the set of groups in the store: a membership of a group that is not     *)
(* there is an error, and an error denies.                                 *)

canResolveTargetGroups(c, names, target) == UserGroupNames(c, target) \subseteq names

targetInGroupScope(c, names, actor, target, act) ==
  /\ canResolveTargetGroups(c, names, target)
  /\ \E g \in UserGroupNames(c, target) : HasGroup(c, actor, g, act)

CanReadUser(c, names, actor, target) ==
  \/ HasGlobal(c, actor, "user", "read")
  \/ targetInGroupScope(c, names, actor, target, "read")

FilterVisibleUsers(c, names, actor, candidates) ==
  {u \in candidates : CanReadUser(c, names, actor, u)}

VisibleUserGroupNames(c, actor, target) ==
  {g \in UserGroupNames(c, target) : HasGroup(c, actor, g, "read")}

RequireWriteUser(c, names, actor, target) ==
  \/ HasGlobal(c, actor, "user", "write")
  \/ targetInGroupScope(c, names, actor, target, "write")

RequireMembershipGrant_skipped(c, actor, name) == TRUE

\* A new member receives all the group grants, so the actor must hold it all.
RequireMembershipGrant(c, actor, name) ==
  \A perm \in GroupPermissions(c, name) : Has(c, actor, perm)

checkAntiEscalation(c, actor, target) ==
  \A perm \in ListPermissions(c, target) : Has(c, actor, perm)

-----------------------------------------------------------------------------
(* The permission catalog: what may be assigned.                           *)

CRUD == {"read", "write", "create", "delete", "*"}

Catalog ==
  [namespace |-> [scope |-> "namespace", actions |-> CRUD],
   group     |-> [scope |-> "group",     actions |-> CRUD],
   user      |-> [scope |-> "global",    actions |-> CRUD \ {"delete"}],
   token     |-> [scope |-> "global",    actions |-> CRUD],
   webhook   |-> [scope |-> "global",    actions |-> CRUD],
   client    |-> [scope |-> "global",    actions |-> {"read"}]]

validateAssignmentDomain(scope, dom) ==
  dom = All \/ (scope # "global" /\ dom[1] = scope)

validatePermissionAssignment(perm) ==
  /\ perm.obj \in DOMAIN Catalog
  /\ perm.act \in Catalog[perm.obj].actions
  /\ validateAssignmentDomain(Catalog[perm.obj].scope, perm.dom)

validatePermissionDeltas(add, remove) ==
  /\ add \cap remove = {}
  /\ \A perm \in add : validatePermissionAssignment(perm)

-----------------------------------------------------------------------------
(* The filter service: the options a caller is offered in the UI.          *)

\* The actions held on every resource of obj, and on the one with domain dom.
scopedActions(perms, obj, dom) ==
  {p.act : p \in {q \in perms : ObjectGrants(q.obj, obj) /\ q.dom \in {All, dom}}}

\* Some requested action is granted; no request means any action.
grants(have, requested) ==
  /\ have # {}
  /\ requested = {} \/ \E r \in requested, h \in have : ActionGrants(h, r)

FilterGroups(c, names, actor, requested) ==
  {n \in names : grants(scopedActions(ListPermissions(c, actor), "group", GroupResource(n)),
                        requested)}

FilterNamespaces(c, names, actor, requested) ==
  {n \in names : grants(scopedActions(ListPermissions(c, actor), "namespace",
                                      NamespaceResource(n)), requested)}

\* Users carry one set of actions for all: every user is offered, or none is.
FilterUsers(c, ids, actor, requested) ==
  {u \in ids : grants(scopedActions(ListPermissions(c, actor), "user", All), requested)}
=============================================================================
