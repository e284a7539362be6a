--------------------------- MODULE WatchPipeline ----------------------------
(***************************************************************************)
(* From a committed write to the events one etcd watcher receives.         *)
(*                                                                         *)
(* A writer (a request on either API) runs its operations in one           *)
(* transaction, collects the notifications in pendingEvents, and publishes *)
(* them after the commit, when the write lock is already free: the events  *)
(* of two writers may be published in any interleaving.  The publisher     *)
(* appends to the bounded channel of every matching subscription and drops *)
(* the event if the channel is full.                                       *)
(*                                                                         *)
(* The watch server reads the current revision, acknowledges the watch,    *)
(* subscribes, replays the changelog from the start revision (if that lies *)
(* in the past) and then forwards live events, dropping those at or below  *)
(* the last revision it sent.  Each of these is a step of its own.         *)
(*                                                                         *)
(* As in ConfigRepo, X_fault is a faulty variant of X.                     *)
(***************************************************************************)
EXTENDS ConfigRepo, Sequences

CONSTANTS
  Writers,      \* concurrent write requests
  WatchRequests, \* [range, claims] the client may ask for
  BufferSize,   \* capacity of a subscription channel (100 in the code)
  BatchSize,    \* changelog entries read at once by the replay (256)
  MaxTxnEvents  \* bound on the operations of one transaction

ASSUME PipelineAssumption ==
  /\ \A w \in WatchRequests :
       w.range \in Ranges \cup [kind: {"bounded"}, start: Keys, end: Nat \X Nat]
  /\ Descriptions # {}
  /\ BufferSize \in Nat \ {0} /\ BatchSize \in Nat \ {0} /\ MaxTxnEvents \in Nat

VARIABLES
  db,         \* the committed database
  staged,     \* what the open transaction sees
  writer,     \* per writer: "idle", "open" (holds the write lock), "flushing"
  pending,    \* per writer: notifications not yet published
  watch,      \* the watcher's control state
  request,    \* its range, its token's claims and its start revision
  currentRev, \* the revision read when it was created
  subscribed, \* the publisher holds its subscription
  events,     \* the channel of that subscription
  since,      \* the replay has read the changelog up to here
  batch,      \* changelog revisions read and not yet replayed
  lastSent,   \* the revision of the last event sent
  sent,       \* everything sent to the client
  blank,      \* auxiliary: revisions replayed without their value
  seen        \* auxiliary: what was published and lost, for the properties,
              \* and the number of lock requests, for the bound on them

writeVars == <<db, staged, writer, pending>>
watchVars == <<watch, request, currentRev, since, batch, lastSent, sent, blank>>
pubVars   == <<subscribed, events, seen>>
vars      == <<writeVars, watchVars, pubVars>>

-----------------------------------------------------------------------------
(* Events.                                                                 *)

WatchEvent(type, k, r, v) == [type |-> type, key |-> k, rev |-> r, value |-> v]

\* What the client sees: everything that is not a delete is a PUT.
eventToProto(ev) ==
  [ev EXCEPT !.type = IF @ = "deleted" THEN "DELETE" ELSE "PUT"]

\* The event of a changelog entry; its value is empty if it could not be read.
changelogToEvent(d, r, failed) ==
  LET e == d.changelog[r]
  IN  IF e.type = "deleted" THEN WatchEvent("DELETE", e.key, r, Absent)
      ELSE WatchEvent("PUT", e.key, r, IF failed THEN Absent ELSE lookupHistoryAtRevision(d, e.key, r))

\* A set of revisions in increasing order, as a cursor walks the changelog.
ascending(S) ==
  CHOOSE s \in [1 .. Cardinality(S) -> S] : \A i, j \in DOMAIN s : i < j => s[i] < s[j]

ListChanges_skipsOne(d, r, limit) ==
  LET after == ascending({q \in DOMAIN d.changelog : q > r + 1})
  IN  SubSeq(after, 1, Min({limit, Len(after)}))

\* Up to limit changelog revisions after r, in order.
ListChanges(d, r, limit) ==
  LET after == ascending({q \in DOMAIN d.changelog : q > r})
  IN  SubSeq(after, 1, Min({limit, Len(after)}))

\* A set of keys in the order a cursor meets them.
inKeyOrder(S) ==
  CHOOSE s \in [1 .. Cardinality(S) -> S] : \A i, j \in DOMAIN s : i < j => KeyLess(s[i], s[j])

\* The notifications of a range delete, in key order.
deletedEvents(keys, r) ==
  LET order == inKeyOrder(keys)
  IN  [i \in DOMAIN order |-> WatchEvent("deleted", order[i], r, Absent)]

-----------------------------------------------------------------------------
(* Filters.                                                                *)

\* claims.namespaces of a token; a token for every namespace has all.  Tokens
\* of either role may read.
namespaceAllowed(claims, n) == claims.all \/ n \in claims.namespaces

namespaceAllScoped(claims) == claims.all

\* An open range needs a token for everything, a bounded one a token for the
\* namespaces it begins and ends in.
checkWatchAccess(claims, r) ==
  CASE r.kind = "from"    -> namespaceAllScoped(claims)
    [] r.kind = "single"  -> namespaceAllowed(claims, r.start[1])
    [] r.kind = "bounded" -> namespaceAllowed(claims, r.start[1]) /\ namespaceAllowed(claims, r.end[1])

subscribeFilter_narrow(r) ==
  [namespaces |-> IF r.kind \in {"single", "from"} \/ r.start[1] = r.end[1] THEN {r.start[1]} ELSE Namespaces,
   paths      |-> IF r.kind = "single" THEN {r.start[2]} ELSE {k[2] : k \in Keys}]

\* A single key and a range inside one namespace subscribe to that namespace,
\* every other range to everything.  No path of the model is a prefix of
\* another, so the path prefix of a single key admits that key, and of a range
\* every key.
subscribeFilter(r) ==
  [namespaces |-> IF r.kind = "single" \/ (r.kind = "bounded" /\ r.start[1] = r.end[1])
                  THEN {r.start[1]} ELSE Namespaces,
   paths      |-> IF r.kind = "single" THEN {r.start[2]} ELSE {k[2] : k \in Keys}]

\* The publisher's filter; events of a namespace (path 0) pass any path prefix.
subscriptionMatches(r, k) ==
  LET sub == subscribeFilter(r)
  IN  k[1] \in sub.namespaces /\ (k[2] = 0 \/ k[2] \in sub.paths)

matchesKey_unscoped(w, k) == w.range.kind = "from" \/ inRange(k, w.range)

\* The watcher's filter, which looks at the claims again.  An open range
\* ("from") does not look at its start.
matchesKey(w, k) ==
  /\ namespaceAllowed(w.claims, k[1])
  /\ w.range.kind = "from" \/ inRange(k, w.range)

-----------------------------------------------------------------------------
(* The write side.                                                         *)

Init ==
  /\ db = [EmptyDB EXCEPT !.namespaces =
             [n \in Namespaces |-> [locked |-> FALSE,
                                    description |-> CHOOSE x \in Descriptions : TRUE]]]
  /\ staged = db
  /\ writer = [p \in Writers |-> "idle"]
  /\ pending = [p \in Writers |-> <<>>]
  /\ watch = "none"
  /\ request \in {[range |-> w.range, claims |-> w.claims, start |-> r] :
                   w \in WatchRequests, r \in 0 .. MaxRevision}
  /\ currentRev = 0
  /\ subscribed = FALSE
  /\ events = <<>>
  /\ since = 0
  /\ batch = <<>>
  /\ lastSent = 0
  /\ sent = <<>>
  /\ blank = {}
  /\ seen = [highest |-> 0, late |-> {}, dropped |-> {}, since |-> 0,
             locks |-> 0]

WriteLockFree == \A p \in Writers : writer[p] # "open"

\* An operation of a transaction, the first of which takes the write lock: the
\* database it leaves and the notifications it adds to pendingEvents.
Operate(p, d, evs) ==
  /\ writer[p] = "open" \/ (writer[p] = "idle" /\ WriteLockFree)
  /\ writer' = [writer EXCEPT ![p] = "open"]
  /\ Len(pending[p]) < MaxTxnEvents
  /\ staged.rev < MaxRevision
  /\ staged' = d
  /\ pending' = [pending EXCEPT ![p] = @ \o evs]
  /\ UNCHANGED <<db, watchVars, pubVars>>

\* Create, Update and the etcd Put notify alike.
Write(p, k, c) ==
  /\ canPutKey(staged, k)
  /\ Operate(p, putKeyTx(staged, k, c),
             <<WatchEvent(IF k \in DOMAIN staged.meta THEN "updated" ELSE "created",
                          k, nextRevision(staged), c)>>)

DeleteRange(p, r) ==
  /\ canDeleteRange(staged, r)
  /\ Operate(p, deleteRangeKeysTx(staged, r),
             deletedEvents(deleteTargets(staged, r), nextRevision(staged)))

Commit(p) ==
  /\ writer[p] = "open"
  /\ db' = staged
  /\ writer' = [writer EXCEPT ![p] = "flushing"]
  /\ UNCHANGED <<staged, pending, watchVars, pubVars>>

Rollback_publishes(p) ==
  /\ writer[p] = "open"
  /\ staged' = db
  /\ writer' = [writer EXCEPT ![p] = "flushing"]
  /\ UNCHANGED <<db, pending, watchVars, pubVars>>

\* The transaction fails: nothing it collected is published.
Rollback(p) ==
  /\ writer[p] = "open"
  /\ staged' = db
  /\ pending' = [pending EXCEPT ![p] = <<>>]
  /\ writer' = [writer EXCEPT ![p] = "idle"]
  /\ UNCHANGED <<db, watchVars, pubVars>>

\* Lock requests run in a transaction of their own and notify even when the
\* lock was already in the requested state.
LockRequest(p, d, ev) ==
  /\ seen.locks < MaxLockSeq
  /\ seen' = [seen EXCEPT !.locks = @ + 1]
  /\ writer[p] = "idle"
  /\ WriteLockFree
  /\ db' = d
  /\ staged' = d
  /\ pending' = [pending EXCEPT ![p] = <<ev>>]
  /\ writer' = [writer EXCEPT ![p] = "flushing"]
  /\ UNCHANGED <<watchVars, subscribed, events>>

\* The event carries the revision and the content of the config's last write.
LockConfig(p, k, locked) ==
  /\ k \in DOMAIN db.meta
  /\ ~isNamespaceLocked(db, k[1])
  /\ LockRequest(p, IF canToggleConfigLock(db, k, locked)
                    THEN toggleConfigLock(db, k, locked) ELSE db,
                 WatchEvent(LockType(locked), k, db.meta[k].revision, db.content[k]))

\* The event of a namespace has no revision and an empty path.
LockNamespace(p, n, locked) ==
  /\ LockRequest(p, IF canToggleNamespaceLock(db, n, locked)
                    THEN toggleNamespaceLock(db, n, locked) ELSE db,
                 WatchEvent(LockType(locked), <<n, 0>>, 0, Absent))

\* seen.highest: the highest revision published; seen.late: those published
\* after a higher one; seen.dropped: those that met a full channel.
Observe(r, full) ==
  seen' = [seen EXCEPT !.highest = Max({@, r}),
                       !.late = @ \cup {q \in {r} : r < seen.highest},
                       !.dropped = @ \cup {q \in {r} : full}]

\* pendingEvents.flush publishes one notification; a full channel drops it.
Publish(p) ==
  LET ev   == Head(pending[p])
      fits == Len(events) < BufferSize
      goes == subscribed /\ subscriptionMatches(request.range, ev.key)
  IN  /\ writer[p] = "flushing"
      /\ events' = IF goes /\ fits THEN Append(events, ev) ELSE events
      /\ Observe(ev.rev, goes /\ ~fits)
      /\ pending' = [pending EXCEPT ![p] = Tail(@)]
      /\ writer' = [writer EXCEPT ![p] = IF Tail(pending[p]) = <<>> THEN "idle" ELSE @]
      /\ UNCHANGED <<db, staged, watchVars, subscribed>>

-----------------------------------------------------------------------------
(* The watch server.                                                       *)

\* createWatcher up to the acknowledgement, or to an error, which ends the
\* stream.
CreateWatcher ==
  /\ watch = "none"
  /\ IF checkWatchAccess(request.claims, request.range)
     THEN watch' = "created" /\ currentRev' = db.rev
     ELSE watch' = "closed" /\ UNCHANGED currentRev
  /\ UNCHANGED <<writeVars, pubVars, request, since, batch, lastSent, sent, blank>>

Replays == request.start > 0 /\ request.start <= currentRev

\* The rest of createWatcher, and the choice runWatcher starts with.
Subscribe ==
  /\ watch = "created"
  /\ subscribed' = TRUE
  /\ seen' = [seen EXCEPT !.since = db.rev]
  /\ watch' = IF Replays THEN "replaying" ELSE "live"
  /\ since' = IF Replays THEN request.start - 1 ELSE 0
  /\ UNCHANGED <<writeVars, events, request, currentRev, batch, lastSent, sent, blank>>

\* replayHistory reads a batch; an incomplete one is the last, and watch
\* becomes "draining" until its entries are sent.
ReplayRead ==
  LET entries == ListChanges(db, since, BatchSize)
  IN  /\ watch = "replaying"
      /\ batch = <<>>
      /\ batch' = entries
      /\ since' = IF entries = <<>> THEN since ELSE entries[Len(entries)]
      /\ watch' = IF entries = <<>> THEN "live"
                  ELSE IF Len(entries) < BatchSize THEN "draining" ELSE "replaying"
      /\ UNCHANGED <<writeVars, pubVars, request, currentRev, lastSent, sent, blank>>

\* replayEntry: reads the value and sends the event, if the key matches.  When
\* the read fails, that is logged and the event sent with an empty value.
replayEntry(failed) ==
  LET r       == Head(batch)
      matches == matchesKey(request, db.changelog[r].key)
  IN  /\ watch \in {"replaying", "draining"}
      /\ batch # <<>>
      /\ failed => matches /\ db.changelog[r].type # "deleted"
      /\ batch' = Tail(batch)
      /\ sent' = IF matches THEN Append(sent, changelogToEvent(db, r, failed)) ELSE sent
      /\ blank' = IF failed THEN blank \cup {r} ELSE blank
      /\ lastSent' = IF matches /\ r > lastSent THEN r ELSE lastSent
      /\ watch' = IF watch = "draining" /\ Tail(batch) = <<>> THEN "live" ELSE watch
      /\ UNCHANGED <<writeVars, pubVars, request, currentRev, since>>

ReplaySend == \E failed \in BOOLEAN : replayEntry(failed)

\* A storage error ends the replay and with it the watcher, silently: the
\* subscription stays until the client cancels.
ReplayFails ==
  /\ watch \in {"replaying", "draining"}
  /\ watch' = "dead"
  /\ batch' = <<>>
  /\ UNCHANGED <<writeVars, pubVars, request, currentRev, since, lastSent, sent, blank>>

isDuplicate_exclusive(ev) == ev.rev > 0 /\ ev.rev < lastSent

\* forwardEvent: drops what does not match and what it has sent already.
isDuplicate(ev) == ev.rev > 0 /\ ev.rev <= lastSent

ForwardEvent ==
  LET ev    == Head(events)
      sends == matchesKey(request, ev.key) /\ ~isDuplicate(ev)
  IN  /\ watch \in {"live", "cancelled"}
      /\ events # <<>>
      /\ events' = Tail(events)
      /\ sent' = IF sends THEN Append(sent, eventToProto(ev)) ELSE sent
      /\ lastSent' = IF sends /\ ev.rev > lastSent THEN ev.rev ELSE lastSent
      /\ UNCHANGED <<writeVars, subscribed, seen, watch, request, currentRev, since, batch, blank>>

\* releaseWatcher, on a cancel request, at the end of the stream or at
\* shutdown.  A live watcher may still forward what its channel holds, or
\* see the cancellation first and stop.
Cancel ==
  /\ watch \in {"replaying", "draining", "live", "dead"}
  /\ subscribed' = FALSE
  /\ watch' = IF watch = "live" THEN "cancelled" ELSE "closed"
  /\ batch' = <<>>
  /\ events' = IF watch = "live" THEN events ELSE <<>>
  /\ UNCHANGED <<writeVars, seen, request, currentRev, since, lastSent, sent, blank>>

StopWatcher ==
  /\ watch = "cancelled"
  /\ watch' = "closed"
  /\ events' = <<>>
  /\ UNCHANGED <<writeVars, subscribed, seen, request, currentRev, since, batch,
                 lastSent, sent, blank>>

-----------------------------------------------------------------------------
Next ==
  \/ \E p \in Writers :
       \/ Commit(p)
       \/ Rollback(p)
       \/ Publish(p)
       \/ \E k \in Keys :
            \/ \E c \in Contents : Write(p, k, c)
            \/ \E locked \in BOOLEAN : LockConfig(p, k, locked)
       \/ \E r \in Ranges : DeleteRange(p, r)
       \/ \E n \in Namespaces, locked \in BOOLEAN : LockNamespace(p, n, locked)
  \/ CreateWatcher
  \/ Subscribe
  \/ ReplayRead
  \/ ReplaySend
  \/ ReplayFails
  \/ ForwardEvent
  \/ Cancel
  \/ StopWatcher

\* A request that holds the write lock ends, a flush goes on, and the
\* watcher's goroutine runs: nothing in them waits for another party but the
\* client's stream, which is assumed to accept messages.
Fairness ==
  /\ \A p \in Writers : WF_vars(Commit(p) \/ Rollback(p)) /\ WF_vars(Publish(p))
  /\ WF_vars(Subscribe)
  /\ WF_vars(ReplayRead)
  /\ WF_vars(ReplaySend)
  /\ WF_vars(ForwardEvent)

Spec == Init /\ [][Next]_vars /\ Fairness

-----------------------------------------------------------------------------
(* Properties.                                                             *)

Message == [type: {"PUT", "DELETE"}, key: Subjects, rev: Nat, value: Contents \cup {Absent}]

\* Shapes, the capacity of the channel, and that only one writer holds the
\* write lock.
TypeOK ==
  /\ watch \in {"none", "created", "replaying", "draining", "live", "dead",
                "cancelled", "closed"}
  /\ writer \in [Writers -> {"idle", "open", "flushing"}]
  /\ \A p, q \in Writers : writer[p] = "open" /\ writer[q] = "open" => p = q
  /\ WriteLockFree => staged = db
  /\ \A p \in Writers : writer[p] = "idle" <=> pending[p] = <<>>
  /\ Len(events) <= BufferSize /\ Len(batch) <= BatchSize
  /\ sent \in Seq(Message)

revisionsSent == {sent[i].rev : i \in DOMAIN sent}

\* A client is never told of something that did not happen: every PUT is a
\* write that is committed, with its value, every DELETE a committed delete,
\* although events are collected before the commit and the replay reads the
\* value after the fact.  One exception: a replay that fails to read a value
\* goes on and sends the write with an empty one, which was never committed
\* (replayEntry; blank has the revisions).  Lock events reach the client as a
\* PUT of the config's last write; the event of a namespace has no revision.
EventsAreCommitted ==
  \A i \in DOMAIN sent :
    LET m == sent[i]
    IN  IF m.rev = 0 THEN m.key[2] = 0
        ELSE /\ m.rev <= db.rev
             /\ m.type = "PUT" => /\ <<m.key, m.rev>> \in DOMAIN db.history
                                  /\ \/ db.history[<<m.key, m.rev>>] = m.value
                                     \/ m.value = Absent /\ m.rev \in blank
             /\ m.type = "DELETE" => /\ m.key \in DOMAIN db.asOf[m.rev - 1]
                                     /\ m.key \notin DOMAIN db.asOf[m.rev]

\* A client sees revisions in strictly increasing order, each once, across
\* the seam between replay and live delivery and however concurrent writers
\* publish.
RevisionsInOrder ==
  \A i, j \in DOMAIN sent :
    i < j /\ sent[i].rev > 0 /\ sent[j].rev > 0 => sent[i].rev < sent[j].rev

\* What a watcher must be told of: the writes from its start revision on, or,
\* without a replay, those after it subscribed.
owes(r, k) ==
  matchesKey(request, k) /\ IF Replays THEN r >= request.start ELSE r > seen.since

Owed == {r \in 1 .. db.rev : owes(r, db.changelog[r].key)}

UnderWay ==
  {events[i].rev : i \in DOMAIN events}
    \cup UNION {{pending[p][i].rev : i \in DOMAIN pending[p]} : p \in Writers}

deletedAt(r) == DOMAIN db.asOf[r - 1] \ DOMAIN db.asOf[r]

\* A live watcher loses a write in three ways only: its event was published
\* after one with a higher revision, it met a full channel, or it is one of
\* several deletes of one range, which share a revision and a changelog entry.
LossIsExplained ==
  LET told(k) == {sent[i].rev : i \in {j \in DOMAIN sent : sent[j].key = k}}
  IN  watch = "live" =>
        /\ Owed \subseteq revisionsSent \cup UnderWay \cup seen.late \cup seen.dropped
        /\ \A r \in 1 .. db.rev : \A k \in deletedAt(r) :
             owes(r, k) /\ deletedAt(r) = {k} =>
               r \in told(k) \cup UnderWay \cup seen.late \cup seen.dropped

\* Every write a replaying watcher is owed is eventually sent, unless it is
\* lost in one of those two ways or the watcher ends.
EventuallySent ==
  \A r \in 1 .. MaxRevision :
    (watch \in {"replaying", "draining", "live"} /\ r \in Owed) ~>
      \/ r \in revisionsSent \cup seen.late \cup seen.dropped
      \/ watch \in {"dead", "cancelled", "closed"}

\* A watch from a past revision does not miss any writes.
ResumedWatchMissesNothing ==
  watch = "live" /\ Replays => Owed \subseteq revisionsSent \cup UnderWay \cup seen.dropped

\* A client only receives events for keys of the range it asked for.
OnlyRequestedKeys == \A i \in DOMAIN sent : inRange(sent[i].key, request.range)

\* A client receives events of no namespace its token does not name, although
\* a range that begins and ends in its namespaces may pass through others, and
\* the publisher then sends the events of all (checkWatchAccess,
\* subscribeFilter, matchesKey).
WatchInScope == \A i \in DOMAIN sent : namespaceAllowed(request.claims, sent[i].key[1])

=============================================================================
