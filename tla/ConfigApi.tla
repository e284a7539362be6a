----------------------------- MODULE ConfigApi ------------------------------
(***************************************************************************)
(* Requests of the web and the etcd API beside each other: create, edit,   *)
(* copy, delete, lock, namespaces, schema attachment, import, Put,         *)
(* DeleteRange and Txn.                                                    *)
(*                                                                         *)
(* A request that reads in one transaction and writes in another takes one *)
(* step for each, so whatever it read may be stale when it writes.  A      *)
(* request that works in one transaction is one step.  The handler's       *)
(* permission check and the conversion of the request belong to the first  *)
(* step.  An editor first reads the config and sends the version it saw.   *)
(*                                                                         *)
(* calls[p] holds the request of process p, its stage and what it carries  *)
(* from one stage to the next.  Requests are taken from the constant set   *)
(* Requests; at most MaxRequests are begun.  origin and the field mine are *)
(* auxiliary: who wrote a config and against which schema it was checked,  *)
(* and the revisions a call has written.                                   *)
(* Operators named X_fault are faulty variants of X.                       *)
(***************************************************************************)
EXTENDS EtcdWire, WebReads

CONSTANTS
  Procs,       \* request handlers
  Requests,    \* requests clients send
  MaxRequests, \* bound on the requests begun
  InitialDBs,  \* databases to start from
  WireRanges,  \* [key, end: bytes] of range requests
  ReadRequests, \* requests for a range
  Directories, \* directories that are listed
  NoRequest    \* the process has no request yet

VARIABLES
  db,       \* the committed database
  schemas,  \* the committed schema attachments
  calls,    \* [Procs -> the request in progress]
  begun,    \* number of requests begun
  origin    \* auxiliary: [live keys -> [by, against]]

vars == <<db, schemas, calls, begun, origin>>

Unseen == [version |-> 0, revision |-> 0, createRevision |-> 0, locked |-> FALSE]

Idle ==
  [req |-> NoRequest, stage |-> "idle", seen |-> Unseen, existing |-> Missing, content |-> Absent,
   against |-> NoSchema, bundles |-> <<>>, which |-> 1, next |-> 1, report |-> ImportReport, mine |-> {}]

Init ==
  /\ db \in InitialDBs
  /\ schemas = Empty
  /\ calls = [p \in Procs |-> Idle]
  /\ begun = 0
  /\ origin = [k \in DOMAIN db.meta |-> [by |-> "web", against |-> NoSchema]]

-----------------------------------------------------------------------------
(* Steps of calls.                                                         *)

at(p, op, stage) == calls[p].stage = stage /\ calls[p].req.op = op

goOn(p, call) == calls' = [calls EXCEPT ![p] = call]

finish(p) == goOn(p, [calls[p] EXCEPT !.stage = "done"])

\* A read of the call, or its failure, leaves everything else as it is.
readsOnly == UNCHANGED <<db, schemas, begun, origin>>

fails(p) == finish(p) /\ readsOnly

\* The call writes d and ends; by and against describe how key k came to be.
writes(p, d, k, by, against) ==
  /\ db' = d
  /\ goOn(p, [calls[p] EXCEPT !.stage = "done", !.mine = @ \cup {d.rev}])
  /\ origin' = Put(origin, k, [by |-> by, against |-> against])
  /\ UNCHANGED <<schemas, begun>>

\* The call changes the database to d without writing a config.
changes(p, d) ==
  /\ db' = d
  /\ finish(p)
  /\ origin' = Restrict(origin, DOMAIN d.meta)
  /\ UNCHANGED <<schemas, begun>>

Begin(p) ==
  /\ begun < MaxRequests
  /\ calls[p].stage \in {"idle", "done"}
  /\ \E r \in Requests : goOn(p, [Idle EXCEPT !.req = r, !.stage = "start"])
  /\ begun' = begun + 1
  /\ UNCHANGED <<db, schemas, origin>>

-----------------------------------------------------------------------------
(* Create, edit, copy, delete, lock: the web API.                          *)

CreateConfig(r) == RequireNamespace(r.caller, "write", r.key[1])

\* Path, namespace and content are checked; the body is normalised.
CreateCheck(p) ==
  LET r == calls[p].req
  IN  /\ at(p, "create", "start")
      /\ readsOnly
      /\ IF /\ CreateConfig(r) /\ ValidatePath(r.key[2])
            /\ r.key[1] \in DOMAIN db.namespaces
            /\ ValidateContent(r.key[2], r.content)
         THEN goOn(p, [calls[p] EXCEPT !.stage = "validate", !.content = Normalize(r.key[2], r.content)])
         ELSE finish(p)

\* schemaValidator.Validate: the attachments are read in a transaction of
\* their own.
validates(p) ==
  LET k == calls[p].req.key
  IN  /\ readsOnly
      /\ IF Validate(schemas, k[1], k[2], calls[p].content)
         THEN goOn(p, [calls[p] EXCEPT !.stage = "write", !.against = effective(schemas, k)])
         ELSE finish(p)

CreateValidate(p) == at(p, "create", "validate") /\ validates(p)

CreateWrite(p) ==
  LET k == calls[p].req.key
  IN  /\ at(p, "create", "write")
      /\ IF canCreate(db, k)
         THEN writes(p, Create(db, k, calls[p].content), k, "web", calls[p].against)
         ELSE fails(p)

\* The editor reads the config; the page keeps its version.
EditGet(p) ==
  LET r == calls[p].req
  IN  /\ at(p, "update", "start")
      /\ readsOnly
      /\ IF GetConfig(db, r.caller, r.key) # Denied
         THEN goOn(p, [calls[p] EXCEPT !.stage = "edit", !.seen = db.meta[r.key]])
         ELSE finish(p)

UpdateConfig(r) == RequireNamespace(r.caller, "write", r.key[1])

\* The existing config is read for its format alone.
UpdateCheck(p) ==
  LET r == calls[p].req
  IN  /\ at(p, "update", "edit")
      /\ readsOnly
      /\ IF /\ UpdateConfig(r) /\ ValidatePath(r.key[2])
            /\ canGet(db, r.key) /\ ValidateContent(r.key[2], r.content)
         THEN goOn(p, [calls[p] EXCEPT !.stage = "validate", !.content = Normalize(r.key[2], r.content)])
         ELSE finish(p)

UpdateValidate(p) == at(p, "update", "validate") /\ validates(p)

UpdateWrite(p) ==
  LET k == calls[p].req.key
  IN  /\ at(p, "update", "write")
      /\ IF canUpdate(db, k, calls[p].seen.version)
         THEN writes(p, updateConfigTx(db, k, calls[p].content), k, "web", calls[p].against)
         ELSE fails(p)

CopyConfig(r) == RequireNamespace(r.caller, "read", r.source[1]) /\ RequireNamespace(r.caller, "write", r.key[1])

CopyGet(p) ==
  LET r == calls[p].req
  IN  /\ at(p, "copy", "start")
      /\ readsOnly
      /\ IF CopyConfig(r) /\ ValidatePath(r.key[2]) /\ canGet(db, r.source)
         THEN goOn(p, [calls[p] EXCEPT !.stage = "check", !.content = db.content[r.source]])
         ELSE finish(p)

CopyCheck(p) ==
  LET n == calls[p].req.key[1]
  IN  /\ at(p, "copy", "check")
      /\ readsOnly
      /\ IF n \in DOMAIN db.namespaces /\ ~db.namespaces[n].locked
         THEN goOn(p, [calls[p] EXCEPT !.stage = "write"])
         ELSE finish(p)

\* A copy is not validated against the schemas of its destination.
CopyWrite(p) ==
  LET k == calls[p].req.key
  IN  /\ at(p, "copy", "write")
      /\ IF canCreate(db, k)
         THEN writes(p, Create(db, k, calls[p].content), k, "copy", NoSchema)
         ELSE fails(p)

DeleteConfig(r) == RequireNamespace(r.caller, "write", r.key[1])

Delete(p) ==
  LET r == calls[p].req
  IN  /\ at(p, "delete", "start")
      /\ IF DeleteConfig(r) /\ canDelete(db, r.key) THEN changes(p, deleteConfigTx(db, r.key))
                                                    ELSE fails(p)

LockConfig(r) == RequireNamespace(r.caller, "write", r.key[1])

UnlockConfig(r) == RequireNamespace(r.caller, "write", r.key[1])

\* Toggling to the state it is in succeeds and writes nothing.
Lock(p) ==
  LET r == calls[p].req
  IN  /\ at(p, "lock", "start")
      /\ IF (IF r.locked THEN LockConfig(r) ELSE UnlockConfig(r)) /\ canToggleConfigLock(db, r.key, r.locked)
         THEN changes(p, toggleConfigLock(db, r.key, r.locked))
         ELSE fails(p)

-----------------------------------------------------------------------------
(* Namespaces.                                                             *)

\* Creating takes a grant for all namespaces, deleting one of its own kind.
CreateNamespaceRequest(r) == RequireNamespace(r.caller, "create", NoNamespace)

UpdateNamespaceRequest(r) == RequireNamespace(r.caller, "write", r.namespace)

LockNamespaceRequest(r) == RequireNamespace(r.caller, "write", r.namespace)

UnlockNamespaceRequest(r) == RequireNamespace(r.caller, "write", r.namespace)

DeleteNamespaceRequest(r) == RequireNamespace(r.caller, "delete", r.namespace)

CreateNamespace(p) ==
  LET r == calls[p].req
  IN  /\ at(p, "create_namespace", "start")
      /\ IF CreateNamespaceRequest(r) /\ r.namespace \notin DOMAIN db.namespaces
         THEN changes(p, createNamespace(db, r.namespace, r.description))
         ELSE fails(p)

UpdateNamespace(p) ==
  LET r == calls[p].req
  IN  /\ at(p, "update_namespace", "start")
      /\ IF UpdateNamespaceRequest(r) /\ canUpdateNamespace(db, r.namespace)
         THEN changes(p, updateNamespace(db, r.namespace, r.description))
         ELSE fails(p)

LockNamespace(p) ==
  LET r == calls[p].req
  IN  /\ at(p, "lock_namespace", "start")
      /\ IF /\ IF r.locked THEN LockNamespaceRequest(r) ELSE UnlockNamespaceRequest(r)
            /\ canToggleNamespaceLock(db, r.namespace, r.locked)
         THEN changes(p, toggleNamespaceLock(db, r.namespace, r.locked))
         ELSE fails(p)

DeleteNamespace(p) ==
  LET r == calls[p].req
  IN  /\ at(p, "delete_namespace", "start")
      /\ IF DeleteNamespaceRequest(r) /\ canDeleteNamespace(db, r.namespace)
         THEN changes(p, deleteNamespace(db, r.namespace))
         ELSE fails(p)

-----------------------------------------------------------------------------
(* Schemas.                                                                *)

AttachSchema(r) == RequireNamespace(r.caller, "write", r.namespace)

DetachSchema(r) == RequireNamespace(r.caller, "write", r.namespace)

\* Attach and Detach look the namespace up, then write the attachment.
SchemaCheck(p) ==
  LET r == calls[p].req
  IN  /\ at(p, "attach", "start") \/ at(p, "detach", "start")
      /\ readsOnly
      /\ IF /\ IF r.op = "attach" THEN AttachSchema(r) ELSE DetachSchema(r)
            /\ r.namespace \in DOMAIN db.namespaces /\ ~db.namespaces[r.namespace].locked
         THEN goOn(p, [calls[p] EXCEPT !.stage = "write"])
         ELSE finish(p)

AttachWrite(p) ==
  LET r == calls[p].req
  IN  /\ at(p, "attach", "write")
      /\ schemas' = Attach(schemas, r.namespace, r.pattern, r.schema)
      /\ finish(p)
      /\ UNCHANGED <<db, begun, origin>>

DetachWrite(p) ==
  LET r == calls[p].req
  IN  /\ at(p, "detach", "write")
      /\ schemas' = IF canDetach(schemas, r.namespace, r.pattern)
                    THEN Detach(schemas, r.namespace, r.pattern) ELSE schemas
      /\ finish(p)
      /\ UNCHANGED <<db, begun, origin>>

-----------------------------------------------------------------------------
(* Import.                                                                 *)

\* The handler asks for the target, the use case for what the file holds.
ImportNamespace(r) ==
  /\ RequireNamespace(r.caller, "write", r.target)
  /\ canImport(r.file, r.target)
  /\ RequireNamespace(r.caller, "write", requireTransferWrite(r.file, r.target))

\* The next bundle begins with a look at its namespace, unless it is a dry run.
beginBundle(c) ==
  CASE c.which > Len(c.bundles) -> [c EXCEPT !.stage = "done"]
    [] c.which <= Len(c.bundles) /\ ~c.req.dryRun /\ namespaceMissing(db, c.bundles[c.which].namespace) ->
         [c EXCEPT !.stage = "ensure"]
    [] OTHER -> [c EXCEPT !.stage = "get"]

ImportStart(p) ==
  LET r == calls[p].req
  IN  /\ at(p, "import", "start")
      /\ readsOnly
      /\ IF ImportNamespace(r) THEN goOn(p, beginBundle([calls[p] EXCEPT !.bundles = Import(r.file, r.target)]))
         ELSE finish(p)

bundleOf(p) == calls[p].bundles[calls[p].which]

\* If somebody else created the namespace meanwhile, the import is given up.
ImportEnsure(p) ==
  /\ at(p, "import", "ensure")
  /\ IF canEnsureNamespace(db, bundleOf(p).namespace)
     THEN /\ db' = ensureNamespace(db, bundleOf(p).namespace, bundleOf(p).description)
          /\ goOn(p, [calls[p] EXCEPT !.stage = "get"])
          /\ UNCHANGED <<schemas, begun, origin>>
     ELSE goOn(p, [calls[p] EXCEPT !.stage = "aborted"]) /\ readsOnly

importKey(p) == <<bundleOf(p).namespace, bundleOf(p).configs[calls[p].next].path>>

\* The next config of the bundle is looked up.
ImportGet(p) ==
  /\ at(p, "import", "get")
  /\ readsOnly
  /\ IF calls[p].next > Len(bundleOf(p).configs)
     THEN goOn(p, beginBundle([calls[p] EXCEPT !.which = @ + 1, !.next = 1]))
     ELSE LET existing == lookUp(db, importKey(p))
          IN  goOn(p, [calls[p] EXCEPT !.stage = "write", !.existing = existing,
                                       !.seen = IF existing = Missing THEN Unseen ELSE existing])

\* It is created, updated, skipped or counted as failed.
ImportWrite(p) ==
  LET r      == calls[p].req
      k      == importKey(p)
      result == importConfig(db, k, bundleOf(p).configs[calls[p].next].content, calls[p].existing,
                             r.mode, r.dryRun, calls[p].report)
  IN  /\ at(p, "import", "write")
      /\ db' = result.db
      /\ goOn(p, [calls[p] EXCEPT !.stage = "get", !.next = @ + 1, !.report = result.report,
                                  !.mine = IF result.db = db THEN @ ELSE @ \cup {result.db.rev}])
      /\ origin' = IF result.db = db THEN origin
                   ELSE Put(origin, k, [by |-> "import", against |-> NoSchema])
      /\ UNCHANGED <<schemas, begun>>

-----------------------------------------------------------------------------
(* The etcd API.                                                           *)

\* A Put outside a Txn is validated before its transaction.
PutValidate(p) ==
  LET r == calls[p].req
      k == keyOf(r.wire.key)
  IN  /\ at(p, "put", "start")
      /\ readsOnly
      /\ IF /\ canTxnPutOp(r.wire) /\ namespaceAllowed(r.claims, k[1], "write")
            /\ Validate(schemas, k[1], k[2], r.wire.value)
         THEN goOn(p, [calls[p] EXCEPT !.stage = "write", !.content = r.wire.value,
                                       !.against = effective(schemas, k)])
         ELSE finish(p)

PutWrite(p) ==
  LET k == keyOf(calls[p].req.wire.key)
  IN  /\ at(p, "put", "write")
      /\ IF canPutKey(db, k)
         THEN writes(p, putKeyTx(db, k, calls[p].content), k, "kv", calls[p].against)
         ELSE fails(p)

DeleteRange(p) ==
  LET r     == calls[p].req
      range == rangeOf(r.wire.key, r.wire.end)
  IN  /\ at(p, "delete_range", "start")
      /\ IF canSplitRange(r.wire.key, r.wire.end) /\ checkRangeAccess(r.claims, range, "write")
         THEN \E result \in {DeleteRangeKeys(db, range)} :
                IF result.ok THEN changes(p, result.db) ELSE fails(p)
         ELSE fails(p)

\* How the keys came to be that a transaction has written.
originAfter(d) ==
  [k \in DOMAIN d.meta |->
     IF k \in DOMAIN db.meta /\ db.meta[k].revision = d.meta[k].revision THEN origin[k]
     ELSE [by |-> "kv", against |-> effective(schemas, k)]]

\* One transaction: compares, schema checks and writes see the same state.
Txn(p) ==
  LET r == calls[p].req
  IN  /\ at(p, "txn", "start")
      /\ IF canTxnInput(r.wire) /\ checkTxnAccess(r.claims, txnInput(r.wire))
         THEN \E res \in {runTxn(db, schemas, txnInput(r.wire))} :
                IF res.ok
                THEN /\ db' = res.db
                     /\ finish(p)
                     /\ origin' = originAfter(res.db)
                     /\ UNCHANGED <<schemas, begun>>
                ELSE fails(p)
         ELSE fails(p)

-----------------------------------------------------------------------------

Step(p) ==
  \/ Begin(p)
  \/ CreateCheck(p) \/ CreateValidate(p) \/ CreateWrite(p)
  \/ EditGet(p) \/ UpdateCheck(p) \/ UpdateValidate(p) \/ UpdateWrite(p)
  \/ CopyGet(p) \/ CopyCheck(p) \/ CopyWrite(p)
  \/ Delete(p) \/ Lock(p)
  \/ CreateNamespace(p) \/ UpdateNamespace(p) \/ LockNamespace(p) \/ DeleteNamespace(p)
  \/ SchemaCheck(p) \/ AttachWrite(p) \/ DetachWrite(p)
  \/ ImportStart(p) \/ ImportEnsure(p) \/ ImportGet(p) \/ ImportWrite(p)
  \/ PutValidate(p) \/ PutWrite(p) \/ DeleteRange(p) \/ Txn(p)

Next == \E p \in Procs : Step(p)

Spec == Init /\ [][Next]_vars

-----------------------------------------------------------------------------
(***************************************************************************)
(* Properties.                                                             *)
(***************************************************************************)

\* A stored config is accepted by the schema it was checked against, so one
\* that the schema in force rejects was copied or imported (neither is
\* validated), or the schema has changed since the check, which runs before
\* the write's transaction (service_create.go, service_update.go, service_kv.go).
\* What the web API stored is in normal form.
StoredAsChecked ==
  \A k \in DOMAIN db.meta :
    /\ \/ Validate(schemas, k[1], k[2], db.content[k])
       \/ origin[k].by \in {"copy", "import"}
       \/ effective(schemas, k) # origin[k].against
    /\ origin[k].by = "web" => db.content[k] = Normalize(k[2], db.content[k])

\* The key an optimistic write of p is about to overwrite.
overwrites(p, k) ==
  /\ calls[p].stage = "write" /\ calls[p] # calls'[p] /\ db'.rev > db.rev
  /\ \/ calls[p].req.op = "update" /\ k = calls[p].req.key
     \/ calls[p].req.op = "import" /\ k = importKey(p)

\* An edit, or an import's overwrite, replaces exactly the revision its caller
\* read, however the other requests fall in between (validateUpdatePreconditions
\* compares versions): no concurrent change is lost.  The one exception is a
\* config deleted and created anew, whose versions start over.
NoLostUpdate ==
  [][\A p \in Procs, k \in Keys :
       overwrites(p, k) /\ k \in DOMAIN db.meta =>
         \/ db.meta[k].revision = calls[p].seen.revision
         \/ db.meta[k].createRevision # calls[p].seen.createRevision]_vars

\* What the API shows is a function of the store, so the properties about it
\* look at the steps that change the store.
StoreChanges == <<db, schemas>>' # <<db, schemas>>

handled(c) == MapThenSumSet(LAMBDA i : Len(c.bundles[i].configs), 1 .. c.which - 1) + c.next - 1

imports(p) == calls[p].req # NoRequest /\ calls[p].req.op = "import"

\* The report of an import (handleConflict, importConfig) counts what it really
\* did: created and updated are the revisions it wrote, every config it has
\* handled is counted once, and a dry run has written nothing.
ImportReportTrue ==
  \A p \in Procs : imports(p) =>
    LET c        == calls[p]
        of(type) == Cardinality({q \in c.mine : db.changelog[q].type = type})
    IN  /\ c.report.created + c.report.updated + c.report.skipped + c.report.failed = handled(c)
        /\ IF c.req.dryRun THEN c.mine = {}
           ELSE c.report.created = of("created") /\ c.report.updated = of("updated")

bundleKeys(bundles) == UNION {{<<b.namespace, b.configs[i].path>> : i \in DOMAIN b.configs} : b \in Range(bundles)}

bundleSize(bundles) == MapThenSumSet(LAMBDA i : Len(bundles[i].configs), DOMAIN bundles)

contentOf(d, S) == Restrict(d.content, {k \in DOMAIN d.content : k[1] \in S})

bundlesHold(d) ==
  /\ \A r \in {x \in Requests : x.op = "import" /\ canImport(x.file, x.target)} :
       LET bundles == Import(r.file, r.target)
       IN  \/ importAllBundle(d, bundles, r.mode, TRUE).report = importAllBundle(d, bundles, r.mode, FALSE).report
           \/ \E b \in Range(bundles) : isNamespaceLocked(d, b.namespace)
           \/ \E k \in bundleKeys(bundles) : isLocked(d, k)
           \/ Cardinality(bundleKeys(bundles)) < bundleSize(bundles)
  /\ \A caller \in DOMAIN Grants, asZip \in BOOLEAN :
       LET enc == IF asZip THEN "yaml" ELSE "json"
           restored(file, target) == importAllBundle(EmptyDB, Import(file, target), "fail", FALSE)
           read     == EffectiveNamespaces(caller, "read") \cap DOMAIN d.namespaces
           all      == ExportAllRequest(d, caller, asZip, enc, FALSE)
           archive  == ExportAllRequest(d, caller, TRUE, enc, TRUE)
       IN  /\ \A n \in read :
                LET back == restored(ExportNamespaceRequest(d, caller, n, asZip, enc), n)
                IN  back.report.failed = 0 /\ back.db.content = contentOf(d, {n})
           /\ canImport(all, NoNamespace) <=> read # {}
           /\ read # {} => restored(all, NoNamespace).db.content = contentOf(d, read)
           /\ \A n \in read, file \in {all, archive} : \A k \in DOMAIN restored(file, n).db.content : k[1] = n
           /\ read # {} => \E n \in read : restored(archive, NoNamespace).db.content = contentOf(d, {n})

\* A dry run predicts the report of the import it previews, unless a lock is in
\* the way or the file names one config twice: a dry run does not see what the
\* import itself would have created (importConfig).  An export read back into an
\* empty store restores every content of its namespace, or of all namespaces
\* the caller may read, zipped or not; only the archive with a file for each
\* namespace restores no more than the first one (UnzipIfNeeded).  An import
\* into one namespace, the only one whose permission was asked for, writes in no
\* other, whatever the file holds (importToTarget).
BundlesPredictAndRestore == bundlesHold(db) /\ [][StoreChanges => bundlesHold(db')]_vars

rangesHold(d) ==
  \A w \in WireRanges : canSplitRange(w.key, w.end) =>
    LET got  == scanned(d, SplitRange(w.key, w.end))
        want == requested(d, w.key, w.end)
        bounds == {SplitKey(b).ns : b \in {w.key, w.end} \ {<<>>, <<NUL>>}}
    IN  /\ \A k \in got : parseConfigKey(storedBytes(k)) = <<NamespaceName[k[1]], PathName[k[2]]>>
        /\ \A k \in (got \ want) \cup (want \ got) :
             \/ w.end = <<>> /\ slashes(w.key) = {}
             \/ \E n \in bounds : ordersDiffer(NamespaceName[k[1]], n)

\* A range of the etcd API returns the keys between its bounds and no others
\* (SplitRange, RangeQuery), with two exceptions: a single key "/ns" means the
\* path "/" of ns, and a namespace whose name goes on from another one with a
\* byte below '/' is ordered differently by the buckets.
RangesExact == rangesHold(db) /\ [][StoreChanges => rangesHold(db')]_vars

rangeInTxn(req) == [compare |-> <<>>, success |-> <<req>>, failure |-> <<>>]

responsesHold(d, sch) ==
  /\ \A req \in ReadRequests :
       LET r     == rangeOf(req.key, req.end)
           q     == RangeQuery(d, r, req.limit, 0, FALSE)
           all   == {k \in DOMAIN d.meta : inRange(k, r)}
           given == {q.kvs[i].key : i \in DOMAIN q.kvs}
       IN  /\ given \subseteq all /\ Cardinality(given) = Len(q.kvs)
           /\ ~q.more => given = all
           /\ q.more /\ given = all => \E k \in DOMAIN d.meta \ all : KeyLess(r.start, k)
           /\ LET nested == txnResponse(rangeInTxn(req), runTxn(d, sch, txnInput(rangeInTxn(req))))
              IN  nested.responses = <<RangeRequest(d, NoKV, req)>>
  /\ \A r \in {x \in Requests : x.op = "put"} :
       LET k     == keyOf(r.wire.key)
           res   == PutKey(d, sch, k, r.wire.value)
           event == res.resp.event
       IN  res.ok => /\ event.version = res.db.meta[k].version /\ event.revision = res.db.meta[k].revision
                     /\ event.createRevision = res.db.meta[k].createRevision /\ event.content = res.db.content[k]
  /\ \A r \in {x \in Requests : x.op = "delete_range"} :
       LET res  == DeleteRangeKeys(d, rangeOf(r.wire.key, r.wire.end))
           resp == DeleteRangeResponse(res.db, r.wire, res.resp)
           gone == DOMAIN d.meta \ DOMAIN res.db.meta
       IN  res.ok => /\ resp.header = Compact(res.db).header /\ resp.deleted = Cardinality(gone)
                     /\ r.wire.prevKv => {<<kv.key, kv.value>> : kv \in Range(resp.prevKvs)}
                                           = {<<wireBytes(k), d.content[k]>> : k \in gone}
  /\ \A r \in {x \in Requests : x.op = "txn" /\ canTxnInput(x.wire)} :
       LET res == runTxn(d, sch, txnInput(r.wire))
       IN  IF res.ok THEN canTxnResponse(r.wire, res) /\ txnResponse(r.wire, res).header = res.db.rev
                     ELSE res.db = d

\* A limited range read that says there is no more has returned the whole range,
\* and one that says there is more stops before some later key, in the range or
\* beyond it (RangeQuery).  A range nested in a Txn is answered as the same
\* range on its own (buildRangeResponse).  The header of a Txn is the revision
\* its transaction leaves behind, every operation of the branch that ran has
\* its response, and a Txn that fails leaves nothing (runTxn, txnResponse).
\* A Put tells the watchers what it stored (kvPutConfig).  A DeleteRange counts
\* and shows the configs that are gone and no others, at the revision a Compact
\* right after it would show.
KVResponses == responsesHold(db, schemas) /\ [][StoreChanges => responsesHold(db', schemas')]_vars

Names == UNION {Range(PathParts[path]) : path \in DOMAIN PathParts}

SumOver(entries, S) == MapThenSumSet(LAMBDA i : entries[i].childCount, S)

\* Directories: every config below a directory is one file entry of it or is
\* counted in exactly one of its folders, unless its path is the directory with
\* a slash, which is not listed; the flags and versions of a listing are those
\* Get shows; pages of a listing, put together, are the listing (List,
\* splitSummariesIntoFoldersAndFiles, Paginate).
DirectoriesComplete(d, caller, n, dir, field, direction) ==
  LET req(limit, offset) == [namespace |-> n, dir |-> dir, query |-> Names, field |-> field,
                             direction |-> direction, limit |-> limit, offset |-> offset]
      all     == ListConfigs(d, caller, req(0, 0))
      page(i) == ListConfigs(d, caller, req(1, i))
      below   == {k \in DOMAIN d.meta : k[1] = n /\ hasPrefix(k[2], dir)}
      silent  == {k \in below : PathParts[k[2]] = dir \o <<0>>}
      files   == {i \in DOMAIN all.entries : all.entries[i].isFile}
      folders == DOMAIN all.entries \ files
      size(i) == Cardinality({k \in below : relative(k[2], dir)[1] = all.entries[i].name
                                            /\ Len(relative(k[2], dir)) > 1})
  IN  /\ Cardinality(files) + SumOver(all.entries, folders) = Cardinality(below \ silent)
      /\ \A i \in folders : all.entries[i].childCount = size(i)
      /\ \A i \in files : \E k \in below :
           /\ PathParts[k[2]] = Append(dir, all.entries[i].name)
           /\ LET c == GetConfig(d, caller, k)
              IN  /\ c.locked = all.entries[i].locked /\ c.version = all.entries[i].version
                  /\ c.namespaceLocked = all.entries[i].namespaceLocked
      /\ \A i \in DOMAIN all.entries :
           page(i - 1).entries = <<all.entries[i]>> /\ page(i - 1).page.total = all.page.total

\* Searching, reading, the history and the difference agree about a config.
ConfigViewsAgree(d, caller, readable) ==
  LET req(i, field) == [namespace |-> AnyNamespace, query |-> DOMAIN PathParts, field |-> field,
                        direction |-> "desc", limit |-> 1, offset |-> i]
      pages(field) == [i \in 1 .. Cardinality(readable) |-> SearchConfigs(d, caller, req(i - 1, field))]
  IN  /\ \A field \in {"name", "modified"} :
           /\ {pages(field)[i].results[1].key : i \in DOMAIN pages(field)} = readable
           /\ \A i \in DOMAIN pages(field) : pages(field)[i].page.total = Cardinality(readable)
      /\ \A i \in DOMAIN pages("name") :
           LET found == pages("name")[i].results[1]
               c     == GetConfig(d, caller, found.key)
           IN  /\ found.version = c.version /\ found.revision = c.revision /\ found.locked = c.locked
               /\ GetConfigAtRevision(d, caller, found.key, d.rev).content = c.content
               /\ GetConfigDiff(d, caller, found.key, 0, d.rev).toContent = normalizeDiffContent(found.key[2], c.content)
               /\ \A shown \in GetConfigHistoryRequest(d, caller, found.key, 0) :
                    \E e \in shown : e.kind = "write" /\ e.at = c.revision /\ e.content = c.content

\* The dashboard counts what the namespace pages count, and shows no activity
\* of a namespace the caller may not read.
NamespaceViewsAgree(d, caller, names) ==
  LET req    == [query |-> Namespaces, field |-> "name", direction |-> "asc", limit |-> 0, offset |-> 0]
      listed == ListNamespacesRequest(d, caller, req)
      stats  == GetStatsRequest(d, caller)
  IN  /\ {listed.namespaces[i] : i \in DOMAIN listed.namespaces} = {GetNamespaceRequest(d, caller, n) : n \in names}
      /\ stats.namespaceCount = listed.page.total
      /\ stats.configCount = MapThenSumSet(LAMBDA i : listed.namespaces[i].configCount, DOMAIN listed.namespaces)
      /\ \A shown \in ListActivityRequest(d, caller, 1) : \A e \in shown : RequireNamespace(caller, "read", e.namespace)

\* The schema shown for a path is the one its configs are checked against.
SchemaViewsAgree(sch, caller, k) ==
  LET best == GetEffectiveSchema(sch, caller, k[1], k[2])
  IN  /\ best # NoSchema =>
           /\ best \in ListSchemasRequest(sch, caller, k[1])
           /\ best = GetSchema(sch, caller, k[1], best.pattern)
      /\ \A c \in Contents :
           ValidateConfig(sch, caller, k, c).valid <=>
             /\ ValidateContent(k[2], c)
             /\ k[2] \in OtherPaths \/ best = NoSchema \/ Normalize(k[2], c) \in Accepts[best.schema]

viewsHold(d, sch) ==
  \A caller \in DOMAIN Grants :
    LET names    == {n \in DOMAIN d.namespaces : RequireNamespace(caller, "read", n)}
        readable == {k \in DOMAIN d.meta : RequireNamespace(caller, "read", k[1])}
    IN  /\ \A n \in names, dir \in Directories :
             /\ DirectoriesComplete(d, caller, n, dir, "name", "asc")
             /\ DirectoriesComplete(d, caller, n, dir, "modified", "desc")
        /\ ConfigViewsAgree(d, caller, readable)
        /\ NamespaceViewsAgree(d, caller, names)
        /\ \A k \in {k \in Keys : RequireNamespace(caller, "read", k[1])} : SchemaViewsAgree(sch, caller, k)

\* All views of the web API show the same configs, to each caller those they
\* may read: directories, search, single configs, their history and
\* differences, namespaces, statistics, activity and schemas.  A config that
\* the etcd API put into a namespace that does not exist is found by its path
\* and by search, but is in no count.
ViewsAgree == viewsHold(db, schemas) /\ [][StoreChanges => viewsHold(db', schemas')]_vars

=============================================================================
