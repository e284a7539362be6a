---------------------------- MODULE ConfigStore -----------------------------
(***************************************************************************)
(* The config store: the write use cases of internal/usecase/config and    *)
(* internal/usecase/namespace over one bbolt file.                         *)
(*                                                                         *)
(* bbolt admits one writer at a time.  A use case with a single repository *)
(* write is one atomic step on db, taken while no transaction is open.  A  *)
(* KV Txn is a sequence of steps on a private copy (staged) that commit    *)
(* makes the database in one step and that an operation error, a panic, a  *)
(* failed commit or a crash throws away.  ConnectRPC Create checks that    *)
(* the namespace exists before it opens its transaction, so the check is a *)
(* step of its own.                                                        *)
(***************************************************************************)
EXTENDS ConfigRepoInv

VARIABLES
  db,        \* the committed database
  staged,    \* what the open KV transaction sees; db when none is open
  txnOpen,   \* a KV transaction holds the write lock
  creating   \* namespaces found to exist by a Create still under way

vars == <<db, staged, txnOpen, creating>>

Init ==
  /\ db = EmptyDB
  /\ staged = EmptyDB
  /\ txnOpen = FALSE
  /\ creating = {}

-----------------------------------------------------------------------------
(* A write of its own transaction: WithTx around one repository call.      *)

CommitDirect(d) ==
  /\ ~txnOpen
  /\ db' = d
  /\ staged' = d
  /\ UNCHANGED <<txnOpen, creating>>

\* Config service Create, first half: the namespace lookup outside the
\* transaction.
CreateCheckNamespace(n) ==
  /\ n \in DOMAIN db.namespaces
  /\ creating' = creating \cup {n}
  /\ UNCHANGED <<db, staged, txnOpen>>

\* Config service Create, second half.  Several Creates may have found the
\* same namespace, so it stays in creating until the last of them is done.
CreateConfig(k, c) ==
  /\ k[1] \in creating
  /\ db.rev < MaxRevision
  /\ canCreate(db, k)
  /\ CommitDirect(Create(db, k, c))

\* The last of the Creates that found n returns, written or refused.
CreatesDone(n) ==
  /\ n \in creating
  /\ creating' = creating \ {n}
  /\ UNCHANGED <<db, staged, txnOpen>>

\* Any version may be presented: only the stored one passes.
UpdateConfig(k, c, version) ==
  /\ db.rev < MaxRevision
  /\ canUpdate(db, k, version)
  /\ CommitDirect(updateConfigTx(db, k, c))

DeleteConfig(k) ==
  /\ db.rev < MaxRevision
  /\ canDelete(db, k)
  /\ CommitDirect(deleteConfigTx(db, k))

LockConfig(k, locked) ==
  /\ db.lockSeq < MaxLockSeq
  /\ canToggleConfigLock(db, k, locked)
  /\ CommitDirect(toggleConfigLock(db, k, locked))

PutKey(k, c) ==
  /\ db.rev < MaxRevision
  /\ canPutKey(db, k)
  /\ CommitDirect(putKeyTx(db, k, c))

DeleteRangeKeys(r) ==
  /\ db.rev < MaxRevision
  /\ canDeleteRange(db, r)
  /\ CommitDirect(deleteRangeKeysTx(db, r))

CreateNamespace(n, desc) ==
  /\ n \notin DOMAIN db.namespaces
  /\ CommitDirect(createNamespace(db, n, desc))

UpdateNamespace(n, desc) ==
  /\ canUpdateNamespace(db, n)
  /\ CommitDirect(updateNamespace(db, n, desc))

DeleteNamespace(n) ==
  /\ canDeleteNamespace(db, n)
  /\ CommitDirect(deleteNamespace(db, n))

LockNamespace(n, locked) ==
  /\ db.lockSeq < MaxLockSeq
  /\ canToggleNamespaceLock(db, n, locked)
  /\ CommitDirect(toggleNamespaceLock(db, n, locked))

-----------------------------------------------------------------------------
(* The KV transaction.                                                     *)

TxnBegin ==
  /\ ~txnOpen
  /\ txnOpen' = TRUE
  /\ UNCHANGED <<db, staged, creating>>

TxnPut(k, c) ==
  /\ txnOpen
  /\ staged.rev < MaxRevision
  /\ canPutKey(staged, k)
  /\ staged' = putKeyTx(staged, k, c)
  /\ UNCHANGED <<db, txnOpen, creating>>

TxnDeleteRange(r) ==
  /\ txnOpen
  /\ staged.rev < MaxRevision
  /\ canDeleteRange(staged, r)
  /\ staged' = deleteRangeKeysTx(staged, r)
  /\ UNCHANGED <<db, txnOpen, creating>>

TxnCommit ==
  /\ txnOpen
  /\ db' = staged
  /\ txnOpen' = FALSE
  /\ UNCHANGED <<staged, creating>>

TxnRollback_keepsStaged ==
  /\ txnOpen
  /\ txnOpen' = FALSE
  /\ UNCHANGED <<db, staged, creating>>

\* An operation of the branch fails, the callback panics, Commit fails, or
\* the process crashes: the file keeps the last committed database.
TxnRollback ==
  /\ txnOpen
  /\ staged' = db
  /\ txnOpen' = FALSE
  /\ UNCHANGED <<db, creating>>

\* A restart also forgets the Creates that were under way.
Crash ==
  /\ staged' = db
  /\ txnOpen' = FALSE
  /\ creating' = {}
  /\ UNCHANGED db

-----------------------------------------------------------------------------
Next ==
  \/ \E n \in Namespaces :
       \/ CreateCheckNamespace(n)
       \/ CreatesDone(n)
       \/ DeleteNamespace(n)
       \/ \E desc \in Descriptions : CreateNamespace(n, desc) \/ UpdateNamespace(n, desc)
       \/ \E locked \in BOOLEAN : LockNamespace(n, locked)
  \/ \E k \in Keys :
       \/ DeleteConfig(k)
       \/ \E locked \in BOOLEAN : LockConfig(k, locked)
       \/ \E c \in Contents :
            \/ CreateConfig(k, c)
            \/ PutKey(k, c)
            \/ TxnPut(k, c)
            \/ \E version \in 1 .. MaxRevision : UpdateConfig(k, c, version)
  \/ \E r \in Ranges : DeleteRangeKeys(r) \/ TxnDeleteRange(r)
  \/ TxnBegin
  \/ TxnCommit
  \/ TxnRollback
  \/ Crash

Spec == Init /\ [][Next]_vars

-----------------------------------------------------------------------------
(***************************************************************************)
(* Properties.  The predicates of ConfigRepoInv are required of both db    *)
(* and staged: a transaction reads its own writes, and what it commits is  *)
(* what it built.                                                          *)
(***************************************************************************)

\* Type correctness of the buckets, of the open transaction and of the
\* Creates under way.
TypeOK ==
  /\ IsDB(db) /\ IsDB(staged)
  /\ txnOpen \in BOOLEAN
  /\ creating \subseteq Namespaces

\* Agreement of content, meta, history and changelog, after every commit and
\* at every step of a transaction (writeConfigEntry, removeKeys).
BucketsAgree ==
  \A d \in {db, staged} :
    ChangelogGapless(d) /\ LiveConfigAgrees(d) /\ HistoryMatchesChangelog(d)

\* Versions count writes, after every commit and inside a transaction.
Versions == VersionCountsWrites(db) /\ VersionCountsWrites(staged)

\* Reads of the past are right, after every commit and inside a transaction.
PointInTime == PastReads(db) /\ PastReads(staged)

\* A read by revision returns the value as it existed at that revision, and
\* nothing for a key that did not exist then.
ReadsAreAsOf ==
  \A r \in 0 .. db.rev : \A k \in Keys :
    lookupHistoryAtRevision(db, k, r) =
      IF k \in DOMAIN db.asOf[r] THEN db.asOf[r][k] ELSE Absent

\* The lock audit trail of the committed database is true and alternates.
LockAudit == LockAuditCurrent(db) /\ LockAuditAlternates(db)

-----------------------------------------------------------------------------
(* Action properties.                                                      *)

\* What is recorded of the past is never rewritten: every entry of history,
\* changelog and both lock buckets stays, with its value, across commits,
\* rollbacks and crashes, and the counters never go back.
PastImmutable ==
  [][ /\ db'.rev >= db.rev /\ db'.lockSeq >= db.lockSeq
      /\ IsRestriction(db.history, db'.history)
      /\ IsRestriction(db.changelog, db'.changelog)
      /\ IsRestriction(db.lockHistory, db'.lockHistory)
      /\ IsRestriction(db.lockChangelog, db'.lockChangelog)
      /\ IsRestriction(db.asOf, db'.asOf) ]_vars

\* A locked config is frozen for both APIs and for transactions: until it is
\* unlocked, no step removes it or changes anything of it but the lock.
LockedConfigFrozen ==
  [][ \A k \in DOMAIN db.meta :
        db.meta[k].locked =>
          /\ k \in DOMAIN db'.meta
          /\ db'.content[k] = db.content[k]
          /\ db'.meta[k].version = db.meta[k].version
          /\ db'.meta[k].revision = db.meta[k].revision
          /\ db'.meta[k].createRevision = db.meta[k].createRevision ]_vars

\* While a namespace is locked nothing is created or updated in it and no
\* lock of its configs changes.  (A range delete that starts in another
\* namespace does remove configs from it: see NamespaceLockProtects.)
NamespaceLockStopsWrites ==
  [][ \A k \in DOMAIN db'.meta :
        isNamespaceLocked(db, k[1]) =>
          /\ k \in DOMAIN db.meta
          /\ db'.meta[k] = db.meta[k]
          /\ db'.content[k] = db.content[k] ]_vars

\* While a namespace is locked, every write inside it, deletes included, is
\* rejected on both APIs.
NamespaceLockProtects ==
  [][ \A k \in Keys :
        isNamespaceLocked(db, k[1]) =>
          /\ k \in DOMAIN db.meta <=> k \in DOMAIN db'.meta
          /\ k \in DOMAIN db.meta => db'.content[k] = db.content[k] ]_vars

-----------------------------------------------------------------------------
(* Refinement.                                                             *)

VM == INSTANCE VersionedMap
        WITH kv <- db.content, rev <- db.rev, log <- db.asOf, frozen <- lockedKeys(db)

\* The store implements the versioned map: every step of either API, and
\* every commit of a transaction, is an atomic batch of writes that leaves
\* the past and the locked configs alone, or changes nothing a client of the
\* map can see.
ImplementsVersionedMap == VM!Spec

-----------------------------------------------------------------------------
\* Checked by TLC as an invariant, proved inductive in ConfigStoreProofs: both
\* databases are consistent, and the open transaction has only appended
\* writes to the committed one.
IInv ==
  /\ TypeOK
  /\ DBInv(db)
  /\ DBInv(staged)
  /\ LockAudit
  /\ Evolves(db, staged)
  /\ ~txnOpen => staged = db

=============================================================================
