-------------------------------- MODULE Rbac --------------------------------
(***************************************************************************)
(* Groups, users and their rules, changed by concurrent requests.          *)
(*                                                                         *)
(* A request passes its handler's check (HandleX), waits for the write     *)
(* lock, runs its use case in one transaction (DoX), and then, with the    *)
(* lock already free, replays the recorded changes on the enforcer's cache *)
(* one per step (Apply).  Every permission check reads the cache, so a     *)
(* transaction may see a cache that earlier transactions have not reached  *)
(* yet, and the cache may change while it runs: Read is a use case whose   *)
(* first reads are done, and whose last ones, and the commit, come when    *)
(* replays have gone on.  Fail is a use case that returns an error, or a   *)
(* client, a transaction or a commit that fails.  A replay that fails      *)
(* loads the whole cache from disk (ApplyFails, Reload).                   *)
(*                                                                         *)
(* A restart loses the requests in flight, seeds the superadmin again and  *)
(* loads the cache from disk.  A panic, when loading the cache fails too,  *)
(* is a restart.                                                           *)
(***************************************************************************)
EXTENDS Access

Seqs == INSTANCE SequencesExt

CONSTANTS
  GroupNames,    \* naturals: names of groups, SystemGroupSuperAdmin among them
  Emails,        \* naturals: emails of new users
  NewGroups,     \* records of members, perms and managers: the state of new groups
  MemberDeltas,  \* pairs of sets of users, to add to and to remove from a group
  PermDeltas,    \* pairs of sets of permissions, likewise
  GroupDeltas,   \* pairs of sets of groups to add a user to and to remove from
  InitialStates, \* pairs: a database, and the mode it was last started in
  Modes,         \* the modes a restart may choose: "basic", "oidc", "none"
  MaxCommits,    \* bound on committed transactions
  MaxFaults,     \* bound on restarts and failed replays
  MaxInFlight    \* bound on requests in flight at once

VARIABLES
  disk,   \* committed: users, groups, and the policy
  cache,  \* the enforcer's policy
  mode,   \* the authentication mode of this start
  req,    \* per actor: the request in flight
  aux     \* auxiliary: commits, faults and ids of deleted users so far; since the
          \* start: the groups deleted, the names two overlapping requests touched,
          \* whether a deletion of a user overlapped another or a reload, and the
          \* names whose rules were moved by a request that does not move their counter

vars == <<disk, cache, mode, req, aux>>

Idle == [pc |-> "idle"]

-----------------------------------------------------------------------------
(* Requests.  A client that gives a version gives the one it has read.     *)

VersionsOf(name, part) ==
  {NoVersion} \cup {disk.groups[n][part] : n \in {name} \cap DOMAIN disk.groups}
UserVersions(user) ==
  {NoVersion} \cup {disk.users.users[u].version : u \in {user} \cap DOMAIN disk.users.users}

\* Who can hold a session: in the mode without authentication everyone is the
\* passthrough user, who has no password and no identity provider.
CanAct(a) ==
  /\ Users!Exists(disk.users, a)
  /\ disk.users.users[a].status = "active"
  /\ CASE mode = "none"  -> disk.users.users[a].email = PassthroughEmail
       [] mode = "basic" -> disk.users.users[a].password # 0
       [] mode = "oidc"  -> disk.users.users[a].email # PassthroughEmail

InFlight == {a \in UserIds : req[a].pc # "idle"}

\* The rules the request's version stands for.
Seen(r) ==
  CASE r.expected = NoVersion -> {}
    [] r.op = "UpdateGroupMembers" -> GroupMembers(disk.pol, r.name)
    [] r.op = "UpdateGroupPermissions" -> GroupPermissions(disk.pol, r.name)
    [] r.op = "UpdateUserGroups" -> UserGroupNames(disk.pol, r.user)
    [] OTHER -> {}

CanBegin(a) ==
  /\ req[a].pc = "idle" /\ CanAct(a)
  /\ Cardinality(InFlight) < MaxInFlight
  /\ Cardinality({b \in InFlight : req[b].pc \in {"waiting", "running"}}) + aux.commits < MaxCommits

Begin(a, r) ==
  /\ req' = [req EXCEPT ![a] = [pc |-> "waiting", r |-> r, seen |-> Seen(r)]]
  /\ UNCHANGED <<disk, cache, mode, aux>>

HandleCreateGroup(a) ==
  /\ CanBegin(a)
  /\ HasGlobal(cache, a, "group", "create")
  /\ \E n \in GroupNames, g \in NewGroups :
       Begin(a, [op |-> "CreateGroup", name |-> n, members |-> g.members, perms |-> g.perms,
                 managers |-> g.managers, expected |-> NoVersion])

HandleUpdateGroup(a) ==
  /\ CanBegin(a)
  /\ \E n \in GroupNames : \E v \in VersionsOf(n, "metadata") :
       /\ HasGroup(cache, a, n, "write")
       /\ Begin(a, [op |-> "UpdateGroup", name |-> n, expected |-> v])

HandleUpdateGroupMembers(a) ==
  /\ CanBegin(a)
  /\ \E n \in GroupNames, delta \in MemberDeltas : \E v \in VersionsOf(n, "members") :
       /\ HasGroup(cache, a, n, "write")
       /\ Begin(a, [op |-> "UpdateGroupMembers", name |-> n, add |-> delta[1],
                    remove |-> delta[2], expected |-> v])

HandleUpdateGroupPermissions(a) ==
  /\ CanBegin(a)
  /\ \E n \in GroupNames, delta \in PermDeltas : \E v \in VersionsOf(n, "permissions") :
       /\ HasGroup(cache, a, n, "write")
       /\ Begin(a, [op |-> "UpdateGroupPermissions", name |-> n, add |-> delta[1],
                    remove |-> delta[2], expected |-> v])

HandleDeleteGroup(a) ==
  /\ CanBegin(a)
  /\ \E n \in GroupNames :
       /\ HasGroup(cache, a, n, "write")
       /\ Begin(a, [op |-> "DeleteGroup", name |-> n, expected |-> NoVersion])

\* An initial password is required with basic authentication, refused otherwise.
HandleCreateUser(a) ==
  /\ CanBegin(a) /\ mode # "none"
  /\ \E e \in Emails, gs \in {delta[1] : delta \in GroupDeltas} :
       /\ preauthorize(cache, a, gs)
       /\ Begin(a, [op |-> "CreateUser", email |-> e, groups |-> gs, expected |-> NoVersion,
                    password |-> IF mode = "basic" THEN 1 ELSE 0])

HandleUpdateUserGroups(a) ==
  /\ CanBegin(a)
  /\ \E u \in UserIds, delta \in GroupDeltas : \E v \in UserVersions(u) :
       Begin(a, [op |-> "UpdateUserGroups", user |-> u, add |-> delta[1], remove |-> delta[2],
                 expected |-> v])

HandleDeleteUser(a) ==
  /\ CanBegin(a) /\ mode = "basic"
  /\ \E u \in UserIds : Begin(a, [op |-> "DeleteUser", user |-> u, expected |-> NoVersion])

-----------------------------------------------------------------------------
(* Transactions.                                                           *)

WriteLockFree == \A b \in UserIds : req[b].pc # "running"

\* The use case of a's request runs, and has the write lock.
InTx(a, op) ==
  /\ \/ req[a].pc = "running"
     \/ req[a].pc = "waiting" /\ WriteLockFree
  /\ req[a].r.op = op

\* The requests that have committed and that the cache does not show yet.
Behind(a) == {req[b] : b \in {x \in UserIds \ {a} : req[x].pc \in {"applying", "reloading"}}}

\* The first reads of the cache are done.  With no replay in progress the cache
\* stays as it is for the rest of the use case, which is then one step (DoX).
Read(a) ==
  /\ req[a].pc = "waiting" /\ WriteLockFree /\ Behind(a) # {}
  /\ req' = [req EXCEPT ![a] = [pc |-> "running", r |-> @.r, seen |-> @.seen,
                                read |-> cache, past |-> Behind(a)]]
  /\ UNCHANGED <<disk, cache, mode, aux>>

\* What the first and the last reads of a use case see, when it commits.
FirstRead(a) == IF req[a].pc = "running" THEN req[a].read ELSE cache
LastReads(a) == {FirstRead(a), cache}

\* The requests whose replay overlaps a's transaction.
Overlapping(a) == Behind(a) \cup IF req[a].pc = "running" THEN req[a].past ELSE {}

\* The names of users and groups whose rules an operation touches.
NamesIn(op) ==
  CASE op.kind \in {"addP", "removeP"} -> {rule[1] : rule \in op.rules}
    [] op.kind \in {"addG", "removeG"} -> UNION {{rule[1], rule[2]} : rule \in op.rules}
    [] op.kind = "deleteUser"          -> op.rules

Touched(ops) == UNION {NamesIn(ops[i]) : i \in DOMAIN ops}

\* A reload replaces everything.
TouchedBy(x) == IF x.pc = "applying" THEN Touched(x.ops) ELSE UserIds \cup GroupNames

\* The names whose rules a request moves although their counter stays.
MovedBeside(r) ==
  CASE r.op = "CreateGroup"        -> {r.name} \cup r.members \cup r.managers
    [] r.op = "UpdateGroupMembers" -> r.add \cup r.remove
    [] r.op = "UpdateUserGroups"   -> r.add \cup r.remove
    [] r.op = "CreateUser"         -> r.groups
    [] r.op = "DeleteGroup"        -> {r.name} \cup GroupMembers(disk.pol, r.name)
    [] r.op = "DeleteUser"         -> UserGroupNames(disk.pol, r.user)
    [] OTHER                       -> {}

\* The transaction commits, the lock is free, and the cache is still behind.
WriteTx(a, res) ==
  LET r == req[a].r
  IN  /\ disk' = res.db
      /\ req' = [req EXCEPT ![a] = IF res.ops = <<>> THEN Idle
                                   ELSE [pc |-> "applying", r |-> r, ops |-> res.ops]]
      /\ aux' = [aux EXCEPT
           !.commits = @ + 1,
           !.deleted = IF r.op = "DeleteGroup" THEN @ \cup {r.name} ELSE @,
           !.gone = IF r.op = "DeleteUser" THEN @ \cup {r.user} ELSE @,
           !.contended = @ \cup UNION {Touched(res.ops) \cap TouchedBy(x) : x \in Overlapping(a)},
           !.overlap = @ \/ /\ r.op = "DeleteUser"
                            /\ \E x \in Overlapping(a) : x.pc = "reloading" \/ x.r.op = "DeleteUser",
           !.beside = @ \cup MovedBeside(r)]
      /\ UNCHANGED <<cache, mode>>

DoCreateGroup(a) ==
  /\ InTx(a, "CreateGroup")
  /\ \E late \in LastReads(a) : canCreateGroup(disk, FirstRead(a), late, a, req[a].r)
  /\ WriteTx(a, CreateGroup(disk, req[a].r))

DoUpdateGroup(a) ==
  /\ InTx(a, "UpdateGroup") /\ canUpdateGroup(disk, req[a].r)
  /\ WriteTx(a, UpdateGroup(disk, req[a].r))

DoUpdateGroupMembers(a) ==
  /\ InTx(a, "UpdateGroupMembers")
  /\ \E late \in LastReads(a) : canUpdateMembers(disk, FirstRead(a), late, a, req[a].r)
  /\ WriteTx(a, UpdateMembers(disk, FirstRead(a), req[a].r))

DoUpdateGroupPermissions(a) ==
  /\ InTx(a, "UpdateGroupPermissions")
  /\ \E late \in LastReads(a) : canUpdatePermissions(disk, FirstRead(a), late, a, req[a].r)
  /\ WriteTx(a, UpdatePermissions(disk, req[a].r))

DoDeleteGroup(a) ==
  /\ InTx(a, "DeleteGroup") /\ canDeleteGroup(disk, req[a].r)
  /\ WriteTx(a, RemoveGroup(disk, req[a].r))

\* The new id is one no user has had.
DoCreateUser(a) ==
  /\ InTx(a, "CreateUser")
  /\ \E id \in UserIds \ aux.gone :
       /\ \E late \in LastReads(a) : canCreateUser(disk, FirstRead(a), late, a, id, req[a].r)
       /\ WriteTx(a, CreateUser(disk, id, req[a].r))

DoUpdateUserGroups(a) ==
  /\ InTx(a, "UpdateUserGroups")
  /\ \E late \in LastReads(a) : canUpdateUserGroups(disk, FirstRead(a), late, a, req[a].r)
  /\ WriteTx(a, UpdateUserGroups(disk, FirstRead(a), req[a].r))

DoDeleteUser(a) ==
  /\ InTx(a, "DeleteUser")
  /\ \E late \in LastReads(a) : canDeleteUser(disk, FirstRead(a), late, a, req[a].r)
  /\ WriteTx(a, RemoveUser(disk, req[a].r))

\* The next recorded operation reaches the cache.
Apply(a) ==
  /\ req[a].pc = "applying"
  /\ cache' = applyOp(cache, Head(req[a].ops))
  /\ req' = [req EXCEPT ![a] = IF Len(@.ops) = 1 THEN Idle ELSE [@ EXCEPT !.ops = Tail(@)]]
  /\ UNCHANGED <<disk, mode, aux>>

\* The replay fails, and reads the rules from disk ...
ApplyFails(a) ==
  /\ req[a].pc = "applying" /\ aux.faults < MaxFaults
  /\ req' = [req EXCEPT ![a] = [pc |-> "reloading", r |-> @.r, loaded |-> LoadPolicy(disk.pol)]]
  /\ aux' = [aux EXCEPT !.faults = @ + 1]
  /\ UNCHANGED <<disk, cache, mode>>

\* ... which then replace the cache.
Reload(a) ==
  /\ req[a].pc = "reloading"
  /\ cache' = req[a].loaded
  /\ req' = [req EXCEPT ![a] = Idle]
  /\ UNCHANGED <<disk, mode, aux>>

Fail(a) ==
  /\ req[a].pc \in {"waiting", "running"}
  /\ req' = [req EXCEPT ![a] = Idle]
  /\ UNCHANGED <<disk, cache, mode, aux>>

-----------------------------------------------------------------------------
(* Starts.  Ids are fresh: a deleted user's is not used again.             *)

Restart(m) ==
  /\ aux.faults < MaxFaults
  /\ \E d \in bootstrap(disk, m) :
       /\ DOMAIN d.users.users \cap aux.gone = {}
       /\ disk' = d
       /\ cache' = LoadPolicy(d.pol)
  /\ mode' = m
  /\ req' = [a \in UserIds |-> Idle]
  /\ aux' = [aux EXCEPT !.faults = @ + 1, !.deleted = {}, !.contended = {},
                        !.overlap = FALSE, !.beside = {}]

Init ==
  \E s \in InitialStates :
    /\ disk = s[1]
    /\ cache = LoadPolicy(s[1].pol)
    /\ mode = s[2]
    /\ req = [a \in UserIds |-> Idle]
    /\ aux = [commits |-> 0, faults |-> 0, gone |-> {}, deleted |-> {}, contended |-> {},
              overlap |-> FALSE, beside |-> {}]

Next ==
  \/ \E a \in UserIds :
       \/ HandleCreateGroup(a) \/ HandleUpdateGroup(a) \/ HandleUpdateGroupMembers(a)
       \/ HandleUpdateGroupPermissions(a) \/ HandleDeleteGroup(a) \/ HandleCreateUser(a)
       \/ HandleUpdateUserGroups(a) \/ HandleDeleteUser(a)
       \/ DoCreateGroup(a) \/ DoUpdateGroup(a) \/ DoUpdateGroupMembers(a)
       \/ DoUpdateGroupPermissions(a) \/ DoDeleteGroup(a) \/ DoCreateUser(a)
       \/ DoUpdateUserGroups(a) \/ DoDeleteUser(a)
       \/ Read(a) \/ Apply(a) \/ ApplyFails(a) \/ Reload(a) \/ Fail(a)
  \/ \E m \in Modes : Restart(m)

Spec == Init /\ [][Next]_vars

-----------------------------------------------------------------------------
(* Properties.                                                             *)

Quiet == \A a \in UserIds : req[a].pc \notin {"applying", "reloading"}

\* Once every committed change has been replayed (casbin.WriteTx, after the lock
\* is released), or a failed replay has loaded the cache again, the cache and the
\* disk hold the same rules, except rules of a name that two overlapping requests
\* touched (a reload touches everything), and permissions that a deleted group
\* left on disk.
CacheFollowsDisk ==
  Quiet =>
    /\ \A rule \in (cache.g \ disk.pol.g) \cup (disk.pol.g \ cache.g) :
         {rule[1], rule[2]} \cap aux.contended # {}
    /\ \A rule \in cache.p \ disk.pol.p : rule[1] \in aux.contended
    /\ \A rule \in disk.pol.p \ cache.p : rule[1] \in aux.deleted \cup aux.contended

\* No request changes the superadmin group's rule or lets anyone but a system
\* user into it, whatever order transactions and replays come in
\* (loadMutableGroup and loadGroupsByNames on every write path).
SystemGroupClosed ==
  /\ SystemGroupSuperAdmin \in DOMAIN disk.groups
  /\ <<SystemGroupSuperAdmin, Superadmin>> \in disk.pol.p \cap cache.p
  /\ \A u \in GroupMembers(disk.pol, SystemGroupSuperAdmin) :
       Users!Exists(disk.users, u) /\ disk.users.users[u].system

\* The superadmin group has a member, unless a deletion of a user overlapped
\* another, or a reload of the cache: the last-admin guard reads the cache
\* (validateLastAdmin).
AdminRemains == GroupMembers(disk.pol, SystemGroupSuperAdmin) = {} => aux.overlap

Committed(a) == req[a].pc \in {"waiting", "running"} /\ req'[a].pc = "applying"

\* What a transaction commits gives nobody a permission that its actor did not
\* hold when it was checked: through members, permissions, initial groups or
\* initial state alike (RequireMembershipGrant, boundaryCheckPerms).  There are
\* exceptions, which docs/auth/rbac-groups.md does not make: the write access to
\* a new group that its managers get; the rules an earlier group of the same name
\* left on disk; and rules of a group that the cache does not show, because they
\* were committed by a request that overlaps this one and is still replaying
\* them, or because the cache has lost them to such an overlap before.
NoEscalation ==
  [][\A a \in UserIds : Committed(a) =>
       LET r == req[a].r
       IN  \A u \in UserIds, rule \in disk'.pol.p :
             <<u, rule[1]>> \in disk'.pol.g /\ rule[2] \notin ListPermissions(disk.pol, u) =>
               \/ \E c \in LastReads(a) : Has(c, a, rule[2])
               \/ /\ r.op = "CreateGroup"
                  /\ \/ rule[2] = Permission("group", "write", GroupResource(r.name))
                     \/ rule \in disk.pol.p
               \/ rule[1] \in aux.deleted \cup aux'.contended]_vars

\* A request that gives a version commits only if the members, permissions or
\* memberships it edits are those of that version, unless they were meanwhile
\* moved by a request that leaves this counter alone: the other side of a
\* membership, a manager grant, or the group deleted and created again.
StaleEditsRefused ==
  [][\A a \in UserIds :
       LET r == req[a].r
           name == IF r.op = "UpdateUserGroups" THEN r.user ELSE r.name
       IN  Committed(a) /\ r.expected # NoVersion /\ r.op # "UpdateGroup"
             => req[a].seen = Seen(r) \/ name \in aux.beside]_vars

\* The scan of a caller's permissions (EffectiveDomains, the filter service) and
\* the enforcer's matcher give one answer for every resource.
ScansAgree ==
  \A a \in UserIds, act \in {"read", "write", "create"} :
    LET names == DOMAIN disk.groups
    IN  /\ \A n \in names : Contains(EffectiveDomains(cache, a, "group", act), GroupResource(n))
                              <=> HasGroup(cache, a, n, act)
        /\ FilterGroups(cache, names, a, {act}) = {n \in names : HasGroup(cache, a, n, act)}
        /\ FilterNamespaces(cache, 1 .. 2, a, {act}) = {n \in 1 .. 2 : HasNamespace(cache, a, n, act)}
        /\ HasGlobal(cache, a, "user", act)
             <=> FilterUsers(cache, UserIds, a, {act}) = UserIds

\* A list shows the users, and the groups, that Get shows: the two derive
\* visibility by different code.  And of two records that a caller gets, the
\* group shows the user as a member exactly when the user shows the group.
\* Two exceptions: a caller with a wildcard Group:Read, whose list holds users
\* of no group too, and a membership whose group has left the store, for which
\* Get answers with an error.
ListShowsWhatGetShows ==
  \A a \in UserIds :
    (/\ \A rule \in cache.g : rule[2] \in DOMAIN disk.groups
     /\ HasGlobal(cache, a, "user", "read") \/ ~HasGlobal(cache, a, "group", "read"))
    => LET users  == UNION {GetUserRequest(disk, cache, a, u) : u \in UserIds}
           groups == UNION {GetGroupRequest(disk, cache, a, n) : n \in GroupNames}
       IN  /\ Seqs!ToSet(ListUsersRequest(disk, cache, a, 0, 0).users) = {x.user : x \in users}
           /\ Seqs!ToSet(ListGroupsRequest(disk, cache, a, 0, 0).groups) = {y.group : y \in groups}
           /\ \A x \in users, y \in groups :
                x.user.id \in y.visibleMembers <=> y.group.name \in x.visibleGroups

=============================================================================
