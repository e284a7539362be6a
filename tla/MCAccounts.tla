----------------------------- MODULE MCAccounts -----------------------------
(***************************************************************************)
(* Instances of Accounts: superadmin 1 and user 3, who holds tokens and    *)
(* one namespace through group 11, in either mode.                         *)
(***************************************************************************)
EXTENDS Accounts, TLC

Mine ==
  {Permission("token", "*", Bare(1)), Permission("namespace", "write", NamespaceResource(1))}

\* Started, user 3 created with a password (basic) or without, and both
\* passwords changed once.
Prepared(m) ==
  LET seeded == CHOOSE d \in bootstrap(EmptyDisk, m) : DOMAIN d.users.users = {1}
      withUser == CreateUser(seeded, 3,
                    [email |-> 3, password |-> IF m = "basic" THEN 1 ELSE 0, groups |-> {}]).db
      withGroup == CreateGroup(withUser,
                     [name |-> 11, members |-> {3}, perms |-> Mine, managers |-> {}]).db
      changed(d, u) == [d EXCEPT !.users = Users!SetPassword(@, u, 1, FALSE)]
  IN  IF m = "basic" THEN changed(changed(withGroup, 1), 3)
      ELSE [withGroup EXCEPT !.users =
              Users!LinkIdentity(Users!LinkIdentity(@, 1, <<"oidc", 1>>), 3, <<"oidc", 3>>)]

MCInitialAccounts == {<<Prepared(m), m>> : m \in {"basic", "oidc"}}

\* Subject 1 is the superadmin's; subject 5 claims the email of user 3 or a new
\* user's, verified or not.
MCExternals ==
  {[sub |-> 1, email |-> 1, verified |-> TRUE, state |-> TRUE], [sub |-> 5, email |-> 3, verified |-> TRUE, state |-> TRUE],
   [sub |-> 5, email |-> 4, verified |-> TRUE, state |-> TRUE], [sub |-> 6, email |-> 4, verified |-> FALSE, state |-> TRUE]}
MCNewTokens ==
  {[namespaces |-> {1}, permission |-> "write", expires |-> 0],
   [namespaces |-> {1, 2}, permission |-> "read", expires |-> WebTTL]}
ProcSymmetry == Permutations(Procs)
=============================================================================
