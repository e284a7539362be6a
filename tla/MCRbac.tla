------------------------------- MODULE MCRbac -------------------------------
(***************************************************************************)
(* Instances of Rbac.  Users 1 and 2 are the superadmins that starts with  *)
(* and without authentication seed, 3 is an ordinary user, 4 is yet to be  *)
(* created.  Group 10 is the superadmin group.  The initial databases come *)
(* from starts and requests on the empty database.                         *)
(***************************************************************************)
EXTENDS Rbac

OnG2 == Permission("group", "write", GroupResource(12))
MayCreateGroups == Permission("group", "create", All)
AnyUser == Permission("user", "write", All)

Started(ds, m) == UNION {bootstrap(d, m) : d \in ds}

Admin(d) == CHOOSE u \in DOMAIN d.users.users : d.users.users[u].email = AdminEmail

\* User 3 and a group of theirs with the given permissions.
WithUser(d) ==
  CreateUser(d, 3, [email |-> 3, password |-> 1, groups |-> {}]).db

WithGroup(d, name, members, perms) ==
  CreateGroup(d, [name |-> name, members |-> members, perms |-> perms, managers |-> {}]).db

Ones(ds) == {d \in ds : Admin(d) = 1 /\ DOMAIN d.users.users \subseteq {1, 2}}

\* A caretaker of group 12, which grants what they lack, or does not yet.
Caretaker ==
  {<<WithGroup(WithGroup(WithUser(d), 11, {3}, {OnG2, MayCreateGroups}), 12, {}, perms), "basic">> :
     d \in Ones(Started({EmptyDisk}, "basic")), perms \in {{}, {AnyUser}}}

\* A group with the wildcard rule beside two system superadmins.
TwoAdmins ==
  {<<WithGroup(WithUser(d), 11, {3}, {Superadmin}), "basic">> :
     d \in Ones(Started(Started(Started({EmptyDisk}, "basic"), "none"), "basic"))}

MCInitialStates == Caretaker \cup TwoAdmins
MCNewGroups ==
  {[members |-> {}, perms |-> {}, managers |-> {11}],
   [members |-> {3}, perms |-> {}, managers |-> {}],
   [members |-> {}, perms |-> {AnyUser}, managers |-> {}]}
MCMemberDeltas == {<<{3}, {}>>, <<{}, {3}>>}
MCPermDeltas == {<<{AnyUser}, {}>>, <<{}, {AnyUser}>>}
MCGroupDeltas == {<<{12}, {}>>, <<{}, {12}>>}
=============================================================================
