------------------------------ MODULE WebReads ------------------------------
(***************************************************************************)
(* The read requests of the web API (ConnectRPC handlers): who may ask,    *)
(* which pages are accepted, and what the answer shows of one database.    *)
(*                                                                         *)
(* A request that is refused (no permission, a bad page, nothing there) is *)
(* answered with Denied.  Grants[caller][action] is the set of namespaces  *)
(* the policy decision point grants; it contains NoNamespace when the      *)
(* grant is for all.  A handler whose name is taken by the operation       *)
(* behind it has the suffix Request.  Times, hashes, formats and metadata  *)
(* are left out of answers.                                                *)
(* Operators named X_fault are faulty variants of X.                       *)
(***************************************************************************)
EXTENDS Transfer

CONSTANTS
  Grants, \* [callers -> [read, write, create, delete: sets of namespaces]]
  Denied  \* the answer to a refused request

RequireNamespace(caller, action, n) == n \in Grants[caller][action]

\* HasNamespace for every namespace.
EffectiveNamespaces(caller, action) == {n \in Namespaces : RequireNamespace(caller, action, n)}

-----------------------------------------------------------------------------
(* Pages and orders.                                                       *)

maxPaginationLimit == 10000

maxPaginationOffset == 1000000

NormalizeLimit(limit) == limit \in 0 .. maxPaginationLimit

NormalizeOffset(offset) == offset \in 0 .. maxPaginationOffset

pageAccepted(req) == NormalizeLimit(req.limit) /\ NormalizeOffset(req.offset)

\* Ascending unless the request says otherwise.
ProtoSortToDomain(req) == [field |-> req.field, desc |-> req.direction = "desc"]

PaginationResponse(result) == [total |-> result.total, limit |-> result.limit, offset |-> result.offset]

-----------------------------------------------------------------------------
(* Configs.                                                                *)

domainConfigToProto(c) ==
  [key |-> c.summary.key, content |-> c.content, version |-> c.summary.version, revision |-> c.summary.revision,
   locked |-> c.summary.locked, namespaceLocked |-> c.summary.namespaceLocked]

GetConfig(d, caller, k) ==
  IF RequireNamespace(caller, "read", k[1]) /\ canGet(d, k) THEN domainConfigToProto(Get(d, k)) ELSE Denied

\* A folder shows the number of configs in it, a file its version and lock.
directoryEntryToProto(e) ==
  IF e.isFile
  THEN [name |-> e.name, isFile |-> TRUE, childCount |-> 0, version |-> e.version, revision |-> e.revision,
        locked |-> e.locked, namespaceLocked |-> e.namespaceLocked]
  ELSE [name |-> e.name, isFile |-> FALSE, childCount |-> e.childCount, version |-> 0, revision |-> 0,
        locked |-> FALSE, namespaceLocked |-> e.namespaceLocked]

ListConfigs(d, caller, req) ==
  LET sort   == ProtoSortToDomain(req)
      result == List(d, req.namespace, req.dir, req.query, sort.field, sort.desc, req.limit, req.offset)
  IN  IF RequireNamespace(caller, "read", req.namespace) /\ pageAccepted(req)
      THEN [entries |-> [i \in DOMAIN result.entries |-> directoryEntryToProto(result.entries[i])],
            page |-> PaginationResponse(result)]
      ELSE Denied

domainSummaryToProto(s) ==
  [key |-> s.key, version |-> s.version, revision |-> s.revision, locked |-> s.locked,
   namespaceLocked |-> s.namespaceLocked]

\* Not gated: the use case leaves out what the caller may not read.
SearchConfigs(d, caller, req) ==
  LET sort   == ProtoSortToDomain(req)
      result == Search(d, EffectiveNamespaces(caller, "read"), req.query, req.namespace,
                       sort.field, sort.desc, req.limit, req.offset)
  IN  IF pageAccepted(req)
      THEN [results |-> [i \in DOMAIN result.results |-> domainSummaryToProto(result.results[i])],
            page |-> PaginationResponse(result)]
      ELSE Denied

domainHistoryEntryToProto(e) == [revision |-> e.revision, content |-> e.content, type |-> e.type]

GetConfigAtRevision(d, caller, k, revision) ==
  IF RequireNamespace(caller, "read", k[1]) /\ canGetAtRevision(d, k, revision)
  THEN domainHistoryEntryToProto(GetAtRevision(d, k, revision)) ELSE Denied

\* The possible answers.
GetConfigHistoryRequest(d, caller, k, limit) ==
  IF RequireNamespace(caller, "read", k[1]) /\ NormalizeLimit(limit) THEN History(d, k, limit) ELSE {Denied}

GetConfigDiff(d, caller, k, from, to) ==
  IF RequireNamespace(caller, "read", k[1]) /\ canDiff(d, k, from, to) THEN Diff(d, k, from, to) ELSE Denied

ValidateConfig(sch, caller, k, c) ==
  IF RequireNamespace(caller, "read", k[1])
  THEN [valid |-> ValidateUseCase(sch, k[1], k[2], c), content |-> ValidateAndNormalize(k[2], c).content]
  ELSE Denied

-----------------------------------------------------------------------------
(* Schemas.                                                                *)

domainSchemaToProto(sch, x) == [namespace |-> x[1], pattern |-> x[2], schema |-> sch[x].schema]

GetSchema(sch, caller, n, p) ==
  IF RequireNamespace(caller, "read", n) /\ schemaKey(n, p) \in DOMAIN sch
  THEN domainSchemaToProto(sch, schemaKey(n, p)) ELSE Denied

\* No schema is an answer too.
GetEffectiveSchema(sch, caller, n, path) ==
  LET best == GetEffective(sch, n, path)
  IN  CASE ~RequireNamespace(caller, "read", n) -> Denied
        [] RequireNamespace(caller, "read", n) /\ best = NoSchema -> NoSchema
        [] OTHER -> domainSchemaToProto(sch, best)

\* A list is a filter: nothing is shown where nothing may be read.
ListSchemasRequest(sch, caller, n) ==
  IF RequireNamespace(caller, "read", n) THEN {domainSchemaToProto(sch, x) : x \in ListSchemas(sch, n)} ELSE {}

-----------------------------------------------------------------------------
(* Namespaces, the dashboard and exports.                                  *)

domainNamespaceToProto(ns) == [name |-> ns.name, configCount |-> ns.configCount, locked |-> ns.locked]

GetNamespaceRequest(d, caller, n) ==
  IF RequireNamespace(caller, "read", n) /\ n \in DOMAIN d.namespaces
  THEN domainNamespaceToProto(GetNamespace(d, n)) ELSE Denied

ListNamespacesRequest(d, caller, req) ==
  LET result == ListNamespaces(d, EffectiveNamespaces(caller, "read"), req.query,
                               ProtoSortToDomain(req).desc, req.limit, req.offset)
  IN  IF pageAccepted(req)
      THEN [namespaces |-> [i \in DOMAIN result.items |-> domainNamespaceToProto(result.items[i])],
            page |-> PaginationResponse(result)]
      ELSE Denied

GetStatsRequest(d, caller) == GetStats(d, EffectiveNamespaces(caller, "read"))

changelogEntryToActivityProto(e) == [kind |-> e.kind, at |-> e.at, namespace |-> e.namespace]

\* The possible answers.
ListActivityRequest(d, caller, limit) ==
  IF NormalizeLimit(limit)
  THEN {{changelogEntryToActivityProto(e) : e \in shown} : shown \in ListActivity(d, EffectiveNamespaces(caller, "read"), limit)}
  ELSE {Denied}

ExportNamespaceRequest(d, caller, n, asZip, enc) ==
  IF RequireNamespace(caller, "read", n) /\ canExportNamespace(d, n) THEN ExportNamespace(d, n, asZip, enc) ELSE Denied

ExportAllRequest(d, caller, asZip, enc, perNamespace) ==
  ExportAll(d, EffectiveNamespaces(caller, "read"), asZip, enc, perNamespace)

=============================================================================
