------------------------------ MODULE EtcdWire ------------------------------
(***************************************************************************)
(* Requests of the etcd API as they arrive, with keys as bytes, and the    *)
(* responses made of the results.                                          *)
(*                                                                         *)
(* canX says that the conversion X of a request returns no error.  A kind  *)
(* of operation or an enumeration value the code does not know is "other". *)
(***************************************************************************)
EXTENDS EtcdKV, EtcdKeys

-----------------------------------------------------------------------------
(* Requests.                                                               *)

keyOf(key) ==
  <<CHOOSE n \in DOMAIN NamespaceName : NamespaceName[n] = SplitKey(key).ns,
    CHOOSE p \in DOMAIN PathName : PathName[p] = SplitKey(key).path>>

rangeOf(key, end) ==
  CASE end = <<>>    -> [kind |-> "single", start |-> keyOf(key)]
    [] end = <<NUL>> -> [kind |-> "from", start |-> keyOf(key)]
    [] OTHER         -> [kind |-> "bounded", start |-> keyOf(key), end |-> keyOf(end)]

\* Leases and unknown targets and relations become a condition that never holds.
compareTarget(t) == IF t \in {"version", "create", "mod", "value"} THEN t ELSE "none"

compareResult(r) == IF r \in {"equal", "not_equal", "greater", "less"} THEN r ELSE "none"

canTxnCompare(cmp) == canSplitRange(cmp.key, cmp.end)

txnCompare(cmp) ==
  [range |-> rangeOf(cmp.key, cmp.end), target |-> compareTarget(cmp.target),
   result |-> compareResult(cmp.result), want |-> cmp.want]

txnRangeOp(req) ==
  [kind |-> "range", range |-> rangeOf(req.key, req.end), limit |-> req.limit,
   revision |-> req.revision, keysOnly |-> req.keysOnly]

canTxnPutOp(req) == canSplitKey(req.key) /\ ~req.ignoreValue

txnPutOp(req) == [kind |-> "put", key |-> keyOf(req.key), value |-> req.value]

txnDeleteRangeOp(req) == [kind |-> "delete", range |-> rangeOf(req.key, req.end)]

RECURSIVE canTxnInput(_)

canTxnOp(op) ==
  CASE op.kind \in {"range", "delete"} -> canSplitRange(op.key, op.end)
    [] op.kind = "put"                 -> canTxnPutOp(op)
    [] op.kind = "txn"                 -> canTxnInput(op.txn)
    [] OTHER                           -> FALSE

canTxnOps(ops) == \A i \in DOMAIN ops : canTxnOp(ops[i])

\* All of both branches has to be well formed.
canTxnInput(req) ==
  /\ \A i \in DOMAIN req.compare : canTxnCompare(req.compare[i])
  /\ canTxnOps(req.success) /\ canTxnOps(req.failure)

RECURSIVE txnInput(_)

txnOp(op) ==
  CASE op.kind = "range"  -> txnRangeOp(op)
    [] op.kind = "put"    -> txnPutOp(op)
    [] op.kind = "delete" -> txnDeleteRangeOp(op)
    [] op.kind = "txn"    -> [kind |-> "txn", txn |-> txnInput(op.txn)]

txnOps(ops) == [i \in DOMAIN ops |-> txnOp(ops[i])]

txnInput(req) ==
  [compare |-> [i \in DOMAIN req.compare |-> txnCompare(req.compare[i])],
   success |-> txnOps(req.success), failure |-> txnOps(req.failure)]

-----------------------------------------------------------------------------
(* Responses.                                                              *)

\* The key of a pair goes back as bytes.
kvPairToProto(kv) == [kv EXCEPT !.key = wireBytes(@)]

\* sort.SliceStable, keys by their bytes on the wire.
sortKVs(kvs, order, target) ==
  LET value(i) == CASE target = "version" -> kvs[i].version
                    [] target = "create"  -> kvs[i].createRevision
                    [] target = "mod"     -> kvs[i].modRevision
                    [] OTHER              -> Cardinality({j \in DOMAIN kvs : BytesLess(kvs[j].key, kvs[i].key)})
      rank(i)  == IF order = "descend" THEN (MaxRevision + Len(kvs) + 1 - value(i)) * (Len(kvs) + 1) + i
                  ELSE value(i) * (Len(kvs) + 1) + i
      by       == SortedBy(DOMAIN kvs, rank)
  IN  IF order = "none" THEN kvs ELSE [i \in DOMAIN kvs |-> kvs[by[i]]]

\* count is the length of the page; count-only requests drop the pairs.
buildRangeResponse(req, result, revision) ==
  LET kvs == [i \in DOMAIN result.kvs |-> kvPairToProto(result.kvs[i])]
  IN  [header |-> revision, count |-> Len(kvs), more |-> result.more,
       kvs |-> IF req.countOnly THEN <<>> ELSE sortKVs(kvs, req.order, req.target)]

buildDeleteRangeResponse(revision, deleted, prevKv) ==
  [header |-> revision, deleted |-> Len(deleted),
   prevKvs |-> IF prevKv THEN [i \in DOMAIN deleted |-> kvPairToProto(deleted[i])] ELSE <<>>]

putResponse(revision, prev, prevKv) ==
  [header |-> revision, prevKv |-> IF prevKv /\ prev # NoKV THEN kvPairToProto(prev) ELSE NoKV]

RECURSIVE txnResponse(_, _)

\* What is asked of an operation's response is in its request.
txnOpResponse(op, result) ==
  CASE op.kind = "range"  -> buildRangeResponse(op, result.result, result.revision)
    [] op.kind = "put"    -> putResponse(result.revision, result.prev, op.prevKv)
    [] op.kind = "delete" -> buildDeleteRangeResponse(result.revision, result.deleted, op.prevKv)
    [] op.kind = "txn"    -> txnResponse(op.txn, result.txn)

branchOf(req, res) == IF res.succeeded THEN req.success ELSE req.failure

canTxnResponse(req, res) == Len(branchOf(req, res)) = Len(res.responses)

txnResponse(req, res) ==
  [header |-> res.revision, succeeded |-> res.succeeded,
   responses |-> [i \in DOMAIN res.responses |-> txnOpResponse(branchOf(req, res)[i], res.responses[i])]]

-----------------------------------------------------------------------------
(* Reads.                                                                  *)

Refused == [header |-> 0]

\* Range; the header's revision is read apart from the pairs, here at once.
RangeRequest(d, claims, req) ==
  IF canSplitRange(req.key, req.end) /\ checkRangeAccess(claims, rangeOf(req.key, req.end), "read")
  THEN buildRangeResponse(req, RangeQuery(d, rangeOf(req.key, req.end), req.limit, req.revision, req.keysOnly),
                          d.rev)
  ELSE Refused

\* A range delete that found nothing answers with the current revision.
DeleteRangeResponse(d, req, result) ==
  buildDeleteRangeResponse(IF result.revision = 0 THEN d.rev ELSE result.revision,
                           result.deleted, req.prevKv)

\* History is never truncated.
Compact(d) == [header |-> d.rev]

=============================================================================
