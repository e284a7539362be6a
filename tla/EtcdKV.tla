------------------------------- MODULE EtcdKV -------------------------------
(***************************************************************************)
(* The key-value part of the etcd API: Range, Put, DeleteRange and Txn.    *)
(*                                                                         *)
(* Each operator takes the database and the schema attachments that the    *)
(* enclosing transaction sees.  Keys are already split into namespace and  *)
(* path (EtcdWire models requests as sent).  A Txn is one function: the    *)
(* result record says whether an operation failed (then nothing of it is   *)
(* kept), the database, the responses and the revision of the header.      *)
(* Operators named X_fault are faulty variants of X.                       *)
(***************************************************************************)
EXTENDS Schemas

CONSTANTS
  NoKV  \* no pair: the key is absent

-----------------------------------------------------------------------------
(* Range reads.                                                            *)

KVPair(d, k, value, modRevision) ==
  [key |-> k, value |-> value, createRevision |-> d.meta[k].createRevision,
   modRevision |-> modRevision, version |-> d.meta[k].version]

\* With keysOnly the revision asked for is not looked at.
kvAt(d, k, revision, keysOnly) ==
  CASE keysOnly -> KVPair(d, k, Absent, d.meta[k].revision)
    [] ~keysOnly /\ revision > 0 /\ revision < d.meta[k].revision ->
         KVPair(d, k, readKVValue(d, k, revision), revision)
    [] OTHER -> KVPair(d, k, d.content[k], d.meta[k].revision)

\* Keys of the range, less those that did not exist at the revision.
rangeKeys(d, r, revision, keysOnly) ==
  configKey({k \in DOMAIN d.meta :
    inRange(k, r) /\ (keysOnly \/ readKVValue(d, k, revision) # Absent)})

RangeQuery_inclusive(d, r, limit, revision, keysOnly) ==
  LET ks   == rangeKeys(d, r, revision, keysOnly)
      cut  == limit > 0 /\ Len(ks) > limit
      page == IF cut THEN SubSeq(ks, 1, limit) ELSE ks
  IN  [kvs |-> [i \in DOMAIN page |-> kvAt(d, page[i], revision, keysOnly)], more |-> FALSE]

\* more looks at the key after the last one returned, whether or not the range
\* holds it.
RangeQuery(d, r, limit, revision, keysOnly) ==
  LET ks   == rangeKeys(d, r, revision, keysOnly)
      cut  == limit > 0 /\ Len(ks) >= limit
      page == IF cut THEN SubSeq(ks, 1, limit) ELSE ks
  IN  [kvs |-> [i \in DOMAIN page |-> kvAt(d, page[i], revision, keysOnly)],
       more |-> cut /\ \E k \in DOMAIN d.meta : KeyLess(page[limit], k)]

-----------------------------------------------------------------------------
(* Access of a service token; NoKV stands for "no claims": auth disabled.   *)

namespaceAllowed(claims, n, action) ==
  \/ claims = NoKV
  \/ n \in claims.namespaces /\ (action = "write" => claims.writer)

endNamespace(r) == IF r.kind = "bounded" THEN {r.end[1]} ELSE {}

\* The namespaces of the two ends are checked, not those in between.
checkRangeAccess(claims, r, action) ==
  \A n \in {r.start[1]} \cup endNamespace(r) : namespaceAllowed(claims, n, action)

RECURSIVE checkTxnAccess(_, _)

checkOpAccess(claims, op) ==
  CASE op.kind = "range"  -> checkRangeAccess(claims, op.range, "read")
    [] op.kind = "put"    -> namespaceAllowed(claims, op.key[1], "write")
    [] op.kind = "delete" -> checkRangeAccess(claims, op.range, "write")
    [] op.kind = "txn"    -> checkTxnAccess(claims, op.txn)

checkOpsAccess(claims, ops) == \A i \in DOMAIN ops : checkOpAccess(claims, ops[i])

\* Both branches, since the one that runs is not known yet.
checkTxnAccess(claims, txn) ==
  /\ \A i \in DOMAIN txn.compare : checkRangeAccess(claims, txn.compare[i].range, "read")
  /\ checkOpsAccess(claims, txn.success)
  /\ checkOpsAccess(claims, txn.failure)

-----------------------------------------------------------------------------
(* Compares.                                                               *)

compareInt64(result, got, want) ==
  CASE result = "equal"     -> got = want
    [] result = "not_equal" -> got # want
    [] result = "greater"   -> got > want
    [] result = "less"      -> got < want
    [] OTHER                -> FALSE

\* Values are compared for equality only: their byte order is abstracted.
compareBytes(result, got, want) ==
  CASE result = "equal"     -> got = want
    [] result = "not_equal" -> got # want
    [] OTHER                -> FALSE

\* An absent key compares as zero, or as the empty value.
compareKV(cmp, kv) ==
  CASE cmp.target = "version" -> compareInt64(cmp.result, IF kv = NoKV THEN 0 ELSE kv.version, cmp.want)
    [] cmp.target = "create"  -> compareInt64(cmp.result, IF kv = NoKV THEN 0 ELSE kv.createRevision, cmp.want)
    [] cmp.target = "mod"     -> compareInt64(cmp.result, IF kv = NoKV THEN 0 ELSE kv.modRevision, cmp.want)
    [] cmp.target = "value"   -> compareBytes(cmp.result, IF kv = NoKV THEN Absent ELSE kv.value, cmp.want)
    [] OTHER                  -> FALSE

\* Every pair of the range has to satisfy the condition.
evalCompare(d, cmp) ==
  LET kvs == RangeQuery(d, cmp.range, 0, 0, FALSE).kvs
  IN  IF kvs = <<>> THEN compareKV(cmp, NoKV)
      ELSE \A i \in DOMAIN kvs : compareKV(cmp, kvs[i])

evalCompares(d, compares) == \A i \in DOMAIN compares : evalCompare(d, compares[i])

-----------------------------------------------------------------------------
(* Writes.  ok says that no error return was taken.                        *)

failed(d) == [ok |-> FALSE, db |-> d, rev |-> 0, resp |-> NoKV]

\* What is stored under a key before it is written.
resolveExistingKey(d, k) ==
  IF k \in DOMAIN d.meta THEN [meta |-> d.meta[k], value |-> d.content[k]] ELSE NoKV

buildPrevKV(k, existing) ==
  IF existing = NoKV THEN NoKV
  ELSE [key |-> k, value |-> existing.value, createRevision |-> existing.meta.createRevision,
        modRevision |-> existing.meta.revision, version |-> existing.meta.version]

\* The repository's PutKey: an upsert that returns the previous pair.
repoPutKey(d, k, c) ==
  IF canPutKey(d, k)
  THEN [ok |-> TRUE, db |-> putKeyTx(d, k, c), rev |-> nextRevision(d),
        prev |-> buildPrevKV(k, resolveExistingKey(d, k))]
  ELSE [ok |-> FALSE, db |-> d, rev |-> 0, prev |-> NoKV]

\* The config the watchers and webhooks are told of, made from the previous
\* pair rather than read back.
kvPutConfig(k, c, prev, rev) ==
  [key |-> k, content |-> c, revision |-> rev, version |-> IF prev = NoKV THEN 1 ELSE prev.version + 1,
   createRevision |-> IF prev = NoKV THEN rev ELSE prev.createRevision]

putResult(d, k, c, r) ==
  IF r.ok
  THEN [ok |-> TRUE, db |-> r.db, rev |-> r.rev,
        resp |-> [kind |-> "put", revision |-> r.rev, prev |-> r.prev, event |-> kvPutConfig(k, c, r.prev, r.rev)]]
  ELSE failed(d)

PutKey_unvalidated(d, sch, k, c) == putResult(d, k, c, repoPutKey(d, k, c))

\* The value is checked against the schema, and neither parsed nor normalised.
PutKey(d, sch, k, c) ==
  IF Validate(sch, k[1], k[2], c) THEN putResult(d, k, c, repoPutKey(d, k, c)) ELSE failed(d)

\* The pairs to delete, in the order of the keys.
collectDeleteTargets(d, r) ==
  LET ks == configKey(deleteTargets(d, r))
  IN  [i \in DOMAIN ks |-> buildPrevKV(ks[i], resolveExistingKey(d, ks[i]))]

\* The repository's DeleteRangeKeys: nothing to delete is no error, takes no
\* revision and reports none.
repoDeleteRangeKeys(d, r) ==
  CASE isNamespaceLocked(d, r.start[1]) -> [ok |-> FALSE, db |-> d, rev |-> 0, deleted |-> <<>>]
    [] ~isNamespaceLocked(d, r.start[1]) /\ deleteTargets(d, r) = {} ->
         [ok |-> TRUE, db |-> d, rev |-> 0, deleted |-> <<>>]
    [] canDeleteRange(d, r) ->
         [ok |-> TRUE, db |-> deleteRangeKeysTx(d, r), rev |-> nextRevision(d), deleted |-> collectDeleteTargets(d, r)]
    [] OTHER -> [ok |-> FALSE, db |-> d, rev |-> 0, deleted |-> <<>>]

deleteResult(d, r) ==
  IF r.ok THEN [ok |-> TRUE, db |-> r.db, rev |-> r.rev,
                resp |-> [kind |-> "delete", revision |-> r.rev, deleted |-> r.deleted]]
  ELSE failed(d)

DeleteRangeKeys(d, r) == deleteResult(d, repoDeleteRangeKeys(d, r))

\* RangeKVs and the current revision, both of the state the transaction sees.
kvRangeQuery(d, op) ==
  [result |-> RangeQuery(d, op.range, op.limit, op.revision, op.keysOnly), revision |-> d.rev]

\* A range contributes no revision to the header of its transaction.
runRangeOp(d, op) ==
  LET q == kvRangeQuery(d, op)
  IN  [ok |-> TRUE, db |-> d, rev |-> 0, resp |-> [kind |-> "range", revision |-> q.revision, result |-> q.result]]

runPutOp(d, sch, op) == PutKey(d, sch, op.key, op.value)

runDeleteRangeOp(d, op) == DeleteRangeKeys(d, op.range)

-----------------------------------------------------------------------------
(* Transactions.                                                           *)

RECURSIVE hasWrites(_)

opsWrite(ops) ==
  \E i \in DOMAIN ops : \/ ops[i].kind \in {"put", "delete"}
                        \/ ops[i].kind = "txn" /\ hasWrites(ops[i].txn)

hasWrites(txn) == opsWrite(txn.success) \/ opsWrite(txn.failure)

\* A revision some read of the branch observed.
revisionFromResponses(responses) ==
  LET seen == {i \in DOMAIN responses : responses[i].kind \in {"range", "txn"} /\ responses[i].revision > 0}
  IN  IF seen = {} THEN 0 ELSE responses[Min(seen)].revision

\* The header: the newest revision of an operation, else one that was read,
\* else the current one.
headerRevision(d, lastRev, responses) ==
  CASE lastRev > 0 -> lastRev
    [] lastRev = 0 /\ revisionFromResponses(responses) > 0 -> revisionFromResponses(responses)
    [] OTHER -> d.rev

RECURSIVE runTxn(_, _, _)

\* A nested transaction flattens into the outer one.
nestedResult(r) ==
  [ok |-> r.ok, db |-> r.db, rev |-> r.revision, resp |-> [kind |-> "txn", revision |-> r.revision, txn |-> r]]

runNestedTxnOp(d, sch, txn) == nestedResult(runTxn(d, sch, txn))

runOp(d, sch, op) ==
  CASE op.kind = "range"  -> runRangeOp(d, op)
    [] op.kind = "put"    -> runPutOp(d, sch, op)
    [] op.kind = "delete" -> runDeleteRangeOp(d, op)
    [] op.kind = "txn"    -> runNestedTxnOp(d, sch, op.txn)

RECURSIVE runOps(_, _, _, _)

\* The first operation that fails ends the branch.
afterOp(d, sch, rest, acc, r) ==
  IF r.ok THEN runOps(r.db, sch, rest, [rev |-> IF r.rev > acc.rev THEN r.rev ELSE acc.rev,
                                        responses |-> Append(acc.responses, r.resp)])
  ELSE [ok |-> FALSE, db |-> d, rev |-> 0, responses |-> <<>>]

runOps(d, sch, ops, acc) ==
  IF ops = <<>> THEN [ok |-> TRUE, db |-> d, rev |-> acc.rev, responses |-> acc.responses]
  ELSE afterOp(d, sch, Tail(ops), acc, runOp(d, sch, Head(ops)))

txnResult(d, succeeded, r) ==
  [ok |-> r.ok, db |-> IF r.ok THEN r.db ELSE d, succeeded |-> succeeded,
   revision |-> headerRevision(r.db, r.rev, r.responses), responses |-> r.responses]

runBranch(d, sch, txn, succeeded) ==
  txnResult(d, succeeded, runOps(d, sch, IF succeeded THEN txn.success ELSE txn.failure,
                                 [rev |-> 0, responses |-> <<>>]))

runTxn(d, sch, txn) == runBranch(d, sch, txn, evalCompares(d, txn.compare))

=============================================================================
