----------------------------- MODULE ConfigRepo -----------------------------
(***************************************************************************)
(* The config and namespace repositories as functions on the database.     *)
(*                                                                         *)
(* Every write of internal/storage/bbolt/config and .../namespace runs     *)
(* inside one bbolt write transaction, so a repository call is a function  *)
(* from the database the transaction sees to the database it leaves.  For  *)
(* each call there is a guard (canX: none of the error returns is taken)   *)
(* and a result (X).  The state machines of the project (ConfigStore,      *)
(* WatchPipeline) are built from these operators.                          *)
(*                                                                         *)
(* A database is a record with one field per bucket.  A bucket is a        *)
(* function whose domain is the set of keys it holds.  Names are           *)
(* represented by their rank in byte order: a config key is the pair       *)
(* <<namespace, path>>, which orders like the bytes of "<ns>\0<path>"; the *)
(* path 0 stands for the empty path that lock events of a whole namespace  *)
(* carry.  Timestamps, hashes, formats and metadata are abstracted.        *)
(*                                                                         *)
(* A definition named X_fault is X with a plausible fault in it: the       *)
(* properties are checked to notice it.  None is used by the model.        *)
(***************************************************************************)
EXTENDS Naturals, FiniteSets, FiniteSetsExt, Functions

CONSTANTS
  Keys,         \* config keys <<namespace, path>> that clients use
  Contents,     \* config bodies
  Absent,       \* what a read of a missing key returns
  Descriptions, \* namespace descriptions
  MaxRevision,  \* bound on the global revision counter
  MaxLockSeq    \* bound on the lock event counter

ASSUME KeysAssumption   == Keys \subseteq Nat \X (Nat \ {0})
ASSUME AbsentAssumption == Absent \notin Contents
ASSUME BoundsAssumption == MaxRevision \in Nat /\ MaxLockSeq \in Nat

Namespaces == {k[1] : k \in Keys}

\* What a lock event is about: a config, or (path 0) a whole namespace.
Subjects == Keys \cup {<<n, 0>> : n \in Namespaces}

Meta == [version: Nat, revision: Nat, createRevision: Nat, locked: BOOLEAN]

WriteTypes == {"created", "updated", "deleted"}
LockTypes  == {"locked", "unlocked"}

ChangelogEntry == [type: WriteTypes, key: Keys, version: Nat]
LockEntry      == [type: LockTypes, subject: Subjects]
NamespaceMeta  == [locked: BOOLEAN, description: Descriptions]

-----------------------------------------------------------------------------
(* Buckets.                                                                *)

\* b.Put(k, v)
Put(b, k, v) == [x \in DOMAIN b \cup {k} |-> IF x = k THEN v ELSE b[x]]

\* b.Delete of every key of S
Remove(b, S) == Restrict(b, DOMAIN b \ S)

Empty == [x \in {} |-> x]

(***************************************************************************)
(* The field asOf is auxiliary (no bucket of the code holds it): asOf[r]   *)
(* is the content bucket as it was right after revision r.  Reads of the   *)
(* past are compared with it.                                              *)
(***************************************************************************)
EmptyDB ==
  [ rev |-> 0, content |-> Empty, meta |-> Empty, history |-> Empty,
    changelog |-> Empty, namespaces |-> Empty,
    lockSeq |-> 0, lockHistory |-> Empty, lockChangelog |-> Empty,
    asOf |-> [r \in {0} |-> Empty] ]

-----------------------------------------------------------------------------
(* Key order and ranges.                                                   *)

KeyLess(a, b) == a[1] < b[1] \/ (a[1] = b[1] /\ a[2] < b[2])

\* A range is a single key, [start, end), or everything from start on.
Ranges ==
  [kind: {"single"}, start: Keys] \cup [kind: {"from"}, start: Keys]
    \cup [kind: {"bounded"}, start: Keys, end: Keys]

\* The cursor starts at the first key >= start and stops where
\* shouldBreakRange says so.
inRange(k, r) ==
  CASE r.kind = "single"  -> k = r.start
    [] r.kind = "from"    -> ~KeyLess(k, r.start)
    [] r.kind = "bounded" -> ~KeyLess(k, r.start) /\ KeyLess(k, r.end)

-----------------------------------------------------------------------------
(* Locks and the two counters.                                             *)

isNamespaceLocked(d, n) == n \in DOMAIN d.namespaces /\ d.namespaces[n].locked

isLocked(d, k) == k \in DOMAIN d.meta /\ d.meta[k].locked

nextRevision(d) == d.rev + 1

nextLockSeq(d) == d.lockSeq + 1

\* Both copies (config and namespace package) append to the same buckets and
\* take their sequence number from the same counter.
writeLockHistory(d, subject, type) ==
  [d EXCEPT !.lockSeq = nextLockSeq(d),
            !.lockHistory = Put(@, <<subject, nextLockSeq(d)>>, type),
            !.lockChangelog = Put(@, nextLockSeq(d), [type |-> type, subject |-> subject])]

-----------------------------------------------------------------------------
(* Config writes.  Each takes a fresh revision and stamps everything it     *)
(* writes with it.                                                          *)

\* Content, meta, history and changelog of one written config.
writeConfigEntry(d, k, m, c, type) ==
  LET content == Put(d.content, k, c)
  IN  [d EXCEPT !.rev = m.revision,
                !.content = content,
                !.meta = Put(@, k, m),
                !.history = Put(@, <<k, m.revision>>, c),
                !.changelog = Put(@, m.revision,
                                  [type |-> type, key |-> k, version |-> m.version]),
                !.asOf = Put(@, m.revision, content)]

newMeta(d) ==
  [version |-> 1, revision |-> nextRevision(d), createRevision |-> nextRevision(d),
   locked |-> FALSE]

bumpMeta_keepsVersion(d, k) == [d.meta[k] EXCEPT !.revision = nextRevision(d)]

bumpMeta(d, k) ==
  [d.meta[k] EXCEPT !.version = @ + 1, !.revision = nextRevision(d)]

canCreate(d, k) == ~isNamespaceLocked(d, k[1]) /\ k \notin DOMAIN d.meta

Create(d, k, c) == writeConfigEntry(d, k, newMeta(d), c, "created")

validateUpdatePreconditions_blind(d, k, version) == ~d.meta[k].locked

\* version is the one the caller read: the optimistic lock of Update.
validateUpdatePreconditions(d, k, version) ==
  ~d.meta[k].locked /\ d.meta[k].version = version

canUpdate(d, k, version) ==
  /\ ~isNamespaceLocked(d, k[1])
  /\ k \in DOMAIN d.meta
  /\ validateUpdatePreconditions(d, k, version)

updateConfigTx(d, k, c) == writeConfigEntry(d, k, bumpMeta(d, k), c, "updated")

canPutKey_ignoresNamespace(d, k) == ~isLocked(d, k)

canPutKey_ignoresLock(d, k) == ~isNamespaceLocked(d, k[1])

\* The etcd Put: an upsert without a version check.
canPutKey(d, k) == ~isNamespaceLocked(d, k[1]) /\ ~isLocked(d, k)

putKeyTx(d, k, c) ==
  IF k \in DOMAIN d.meta THEN writeConfigEntry(d, k, bumpMeta(d, k), c, "updated")
                         ELSE writeConfigEntry(d, k, newMeta(d), c, "created")

removeKeys_keepsMeta(d, S, last) ==
  LET content == Remove(d.content, S)
  IN  [d EXCEPT !.rev = nextRevision(d),
                !.content = content,
                !.changelog = Put(@, nextRevision(d),
                                  [type |-> "deleted", key |-> last, version |-> 0]),
                !.asOf = Put(@, nextRevision(d), content)]

removeKeys_purgesHistory(d, S, last) ==
  LET content == Remove(d.content, S)
  IN  [d EXCEPT !.rev = nextRevision(d),
                !.content = content,
                !.meta = Remove(@, S),
                !.history = Remove(@, {h \in DOMAIN @ : h[1] \in S}),
                !.changelog = Put(@, nextRevision(d),
                                  [type |-> "deleted", key |-> last, version |-> 0]),
                !.asOf = Put(@, nextRevision(d), content)]

\* Removes the keys of S under one revision.  The changelog is keyed by
\* revision alone, so what stays in it is the entry written last.
removeKeys(d, S, last) ==
  LET content == Remove(d.content, S)
  IN  [d EXCEPT !.rev = nextRevision(d),
                !.content = content,
                !.meta = Remove(@, S),
                !.changelog = Put(@, nextRevision(d),
                                  [type |-> "deleted", key |-> last, version |-> 0]),
                !.asOf = Put(@, nextRevision(d), content)]

canDelete(d, k) ==
  ~isNamespaceLocked(d, k[1]) /\ k \in DOMAIN d.meta /\ ~d.meta[k].locked

deleteConfigTx(d, k) == removeKeys(d, {k}, k)

deleteTargets(d, r) == {k \in DOMAIN d.meta : inRange(k, r)}

lastKey(S) == CHOOSE k \in S : \A j \in S : ~KeyLess(k, j)

canDeleteRange_ignoresLocks(d, r) ==
  ~isNamespaceLocked(d, r.start[1]) /\ deleteTargets(d, r) # {}

\* A range delete checks the lock of the namespace it starts in and the lock
\* of every config it meets; with no target it takes no revision.
canDeleteRange(d, r) ==
  /\ ~isNamespaceLocked(d, r.start[1])
  /\ deleteTargets(d, r) # {}
  /\ \A k \in deleteTargets(d, r) : ~d.meta[k].locked

deleteRangeKeysTx(d, r) ==
  removeKeys(d, deleteTargets(d, r), lastKey(deleteTargets(d, r)))

-----------------------------------------------------------------------------
(* Config locks and namespaces.  None of these takes a revision.           *)

LockType(locked) == IF locked THEN "locked" ELSE "unlocked"

\* Toggling to the state a config is already in writes nothing.
canToggleConfigLock(d, k, locked) ==
  /\ ~isNamespaceLocked(d, k[1])
  /\ k \in DOMAIN d.meta
  /\ d.meta[k].locked # locked

toggleConfigLock(d, k, locked) ==
  writeLockHistory([d EXCEPT !.meta = [@ EXCEPT ![k].locked = locked]],
                   k, LockType(locked))

canToggleNamespaceLock(d, n, locked) ==
  n \in DOMAIN d.namespaces /\ d.namespaces[n].locked # locked

toggleNamespaceLock(d, n, locked) ==
  writeLockHistory([d EXCEPT !.namespaces = [@ EXCEPT ![n].locked = locked]],
                   <<n, 0>>, LockType(locked))

createNamespace(d, n, desc) ==
  [d EXCEPT !.namespaces = Put(@, n, [locked |-> FALSE, description |-> desc])]

canUpdateNamespace(d, n) == n \in DOMAIN d.namespaces /\ ~d.namespaces[n].locked

updateNamespace(d, n, desc) ==
  [d EXCEPT !.namespaces = [@ EXCEPT ![n].description = desc]]

CountByNamespace(d, n) == Cardinality({k \in DOMAIN d.meta : k[1] = n})

canDeleteNamespace_ignoresLock(d, n) ==
  n \in DOMAIN d.namespaces /\ CountByNamespace(d, n) = 0

canDeleteNamespace(d, n) ==
  /\ n \in DOMAIN d.namespaces
  /\ ~d.namespaces[n].locked
  /\ CountByNamespace(d, n) = 0

deleteNamespace(d, n) == [d EXCEPT !.namespaces = Remove(@, {n})]

-----------------------------------------------------------------------------
(* Reads of the past.                                                      *)

historyRevisions_before(d, k, r) == {q \in 1 .. r : q < r /\ <<k, q>> \in DOMAIN d.history}

historyRevisions(d, k, r) == {q \in 1 .. r : <<k, q>> \in DOMAIN d.history}

\* The newest history entry of k at or below revision r.
lookupHistoryAtRevision(d, k, r) ==
  IF historyRevisions(d, k, r) = {} THEN Absent
  ELSE d.history[<<k, Max(historyRevisions(d, k, r))>>]

\* What a range read at revision r (0: now) returns for a live key.
readKVValue(d, k, r) ==
  IF r > 0 /\ r < d.meta[k].revision THEN lookupHistoryAtRevision(d, k, r)
                                     ELSE d.content[k]

=============================================================================
