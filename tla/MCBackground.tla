---------------------------- MODULE MCBackground ----------------------------
(***************************************************************************)
(* Instances of Background: two webhooks that share one delivery slot, one *)
(* watched key per namespace, an administrator and a viewer of namespace 1.*)
(***************************************************************************)
EXTENDS Background

hook(ns, events) ==
  [url |-> "https", secret |-> "s", enabled |-> TRUE, namespaceFilter |-> ns, pathPrefix |-> NoPrefix, events |-> events]

MCInitialHooks == <<hook(AnyNamespace, {"created", "updated"}), hook(1, {"created", "deleted"})>>

MCEventKinds ==
  {[type |-> "created", namespace |-> 1, path |-> 1], [type |-> "deleted", namespace |-> 2, path |-> 1],
   [type |-> "locked", namespace |-> 1, path |-> 1]}

MCAtOrBelow == [p \in {1} |-> {1}]

MCHookGrants ==
  [c \in {"admin", "other"} |->
     [create    |-> IF c = "admin" THEN {DomainAll, 1} ELSE {1},
      read      |-> IF c = "admin" THEN {DomainAll, 1} ELSE {},
      write     |-> IF c = "admin" THEN {DomainAll, 1} ELSE {},
      namespace |-> IF c = "admin" THEN {DomainAll, 1} ELSE {}]]

narrow == [hook(1, {"created"}) EXCEPT !.pathPrefix = 1, !.secret = ""]

MCHookRequests ==
  {[op |-> "create", caller |-> "admin", id |-> 0, hook |-> narrow],
   [op |-> "create", caller |-> "other", id |-> 0, hook |-> narrow],
   [op |-> "update", caller |-> "admin", id |-> 1, hook |-> narrow],
   [op |-> "update", caller |-> "admin", id |-> 1, hook |-> [narrow EXCEPT !.events = {}]],
   [op |-> "delete", caller |-> "admin", id |-> 1, hook |-> narrow],
   [op |-> "delete", caller |-> "other", id |-> 2, hook |-> narrow]}

MCViewers ==
  [v \in {"admin", "other"} |->
     IF v = "admin" THEN [admin |-> TRUE, nsScope |-> {}] ELSE [admin |-> FALSE, nsScope |-> {1}]]

budgetOf(h, c, w, p) == [hooks |-> h, clients |-> c, watches |-> w, process |-> p]

\* Races of events and requests; one event through signal and restart; races
\* of clients and the streams that show them; two watch streams, alone and
\* beside other clients; all of that through signal and restart.
MCBudgets ==
  {budgetOf(2, 0, 0, 0), budgetOf(1, 0, 0, 1), budgetOf(0, 5, 0, 0), budgetOf(0, 1, 6, 0),
   budgetOf(0, 2, 4, 0), budgetOf(0, 3, 0, 1), budgetOf(0, 2, 2, 1)}
=============================================================================
