------------------------- MODULE ConfigStoreProofs --------------------------
(***************************************************************************)
(* Theorems about the config store, for every set of keys, contents and    *)
(* descriptions and for every bound.                                       *)
(*                                                                         *)
(* StepLemma does the work: it has one step per action and shows that a    *)
(* step keeps IInv and changes the committed database in one of three      *)
(* ways.  The theorems follow from it.                                     *)
(***************************************************************************)
EXTENDS ConfigStore, ConfigOpsProofs

\* The three ways a step may change the committed database: not at all, by
\* config writes, or by a lock or namespace operation.
Changes(d, e) == e = d \/ Evolves(d, e) \/ Relocks(d, e)

\* The initial state satisfies the inductive invariant.
LEMMA InitLemma == Init => IInv
<1> SUFFICES ASSUME Init PROVE IInv
  OBVIOUS
<1>1. DBInv(EmptyDB) /\ LockInv(EmptyDB) /\ IsDB(EmptyDB)
  BY EmptyInv DEF DBInv
<1>2. Evolves(EmptyDB, EmptyDB)
  BY <1>1, EvolvesRefl
<1> QED BY <1>1, <1>2 DEF Init, IInv, TypeOK, LockAudit, LockInv

\* A commit of a config write: it extends the committed database.
LEMMA CommitWrite ==
  ASSUME IInv, NEW e, DBInv(e), Evolves(db, e), CommitDirect(e)
  PROVE  IInv' /\ Changes(db, db')
<1>1. IsDB(e) /\ LockInv(db)
  BY DEF DBInv, IInv, LockAudit, LockInv
<1>2. LockInv(e)
  BY <1>1, EvolvesLockInv
<1>3. Evolves(e, e)
  BY <1>1, EvolvesRefl
<1> QED BY <1>1, <1>2, <1>3 DEF CommitDirect, IInv, TypeOK, LockAudit, LockInv, Changes

\* A commit of a lock or namespace operation.
LEMMA CommitLock ==
  ASSUME IInv, NEW e, DBInv(e), LockInv(e), Relocks(db, e), CommitDirect(e)
  PROVE  IInv' /\ Changes(db, db')
<1>1. IsDB(e)
  BY DEF DBInv
<1>2. Evolves(e, e)
  BY <1>1, EvolvesRefl
<1> QED BY <1>1, <1>2 DEF CommitDirect, IInv, TypeOK, LockAudit, LockInv, Changes

\* Every step keeps the inductive invariant and changes the committed
\* database in one of the three ways.
LEMMA StepLemma == IInv /\ [Next]_vars => IInv' /\ Changes(db, db')
<1> SUFFICES ASSUME IInv, [Next]_vars PROVE IInv' /\ Changes(db, db')
  OBVIOUS
<1>1. /\ IsDB(db) /\ DBInv(db) /\ DBInv(staged) /\ LockInv(db)
      /\ Evolves(db, staged) /\ Evolves(db, db)
  BY EvolvesRefl DEF IInv, TypeOK, LockAudit, LockInv
<1>2. ASSUME NEW n \in Namespaces, CreateCheckNamespace(n)
      PROVE  IInv' /\ Changes(db, db')
  BY <1>2 DEF CreateCheckNamespace, IInv, TypeOK, LockAudit, Changes
<1>3. ASSUME NEW n \in Namespaces, CreatesDone(n)
      PROVE  IInv' /\ Changes(db, db')
  BY <1>3 DEF CreatesDone, IInv, TypeOK, LockAudit, Changes
<1>4. ASSUME NEW n \in Namespaces, DeleteNamespace(n)
      PROVE  IInv' /\ Changes(db, db')
  <2>1. /\ DBInv(deleteNamespace(db, n)) /\ LockInv(deleteNamespace(db, n))
        /\ Relocks(db, deleteNamespace(db, n))
    BY <1>1, <1>4, DeleteNamespaceStep DEF DeleteNamespace
  <2> QED BY <1>4, <2>1, CommitLock DEF DeleteNamespace
<1>5. ASSUME NEW n \in Namespaces, NEW desc \in Descriptions, CreateNamespace(n, desc)
      PROVE  IInv' /\ Changes(db, db')
  <2>1. /\ DBInv(createNamespace(db, n, desc)) /\ LockInv(createNamespace(db, n, desc))
        /\ Relocks(db, createNamespace(db, n, desc))
    BY <1>1, <1>5, CreateNamespaceStep DEF CreateNamespace
  <2> QED BY <1>5, <2>1, CommitLock DEF CreateNamespace
<1>6. ASSUME NEW n \in Namespaces, NEW desc \in Descriptions, UpdateNamespace(n, desc)
      PROVE  IInv' /\ Changes(db, db')
  <2>1. /\ DBInv(updateNamespace(db, n, desc)) /\ LockInv(updateNamespace(db, n, desc))
        /\ Relocks(db, updateNamespace(db, n, desc))
    BY <1>1, <1>6, UpdateNamespaceStep DEF UpdateNamespace
  <2> QED BY <1>6, <2>1, CommitLock DEF UpdateNamespace
<1>7. ASSUME NEW n \in Namespaces, NEW locked \in BOOLEAN, LockNamespace(n, locked)
      PROVE  IInv' /\ Changes(db, db')
  <2>1. /\ DBInv(toggleNamespaceLock(db, n, locked))
        /\ LockInv(toggleNamespaceLock(db, n, locked))
        /\ Relocks(db, toggleNamespaceLock(db, n, locked))
    BY <1>1, <1>7, ToggleNamespaceStep DEF LockNamespace
  <2> QED BY <1>7, <2>1, CommitLock DEF LockNamespace
<1>8. ASSUME NEW k \in Keys, DeleteConfig(k)
      PROVE  IInv' /\ Changes(db, db')
  <2>1. DBInv(deleteConfigTx(db, k)) /\ Evolves(db, deleteConfigTx(db, k))
    BY <1>1, <1>8, DeleteStep DEF DeleteConfig
  <2> QED BY <1>8, <2>1, CommitWrite DEF DeleteConfig
<1>9. ASSUME NEW k \in Keys, NEW locked \in BOOLEAN, LockConfig(k, locked)
      PROVE  IInv' /\ Changes(db, db')
  <2>1. /\ DBInv(toggleConfigLock(db, k, locked))
        /\ LockInv(toggleConfigLock(db, k, locked))
        /\ Relocks(db, toggleConfigLock(db, k, locked))
    BY <1>1, <1>9, ToggleConfigStep DEF LockConfig
  <2> QED BY <1>9, <2>1, CommitLock DEF LockConfig
<1>10. ASSUME NEW k \in Keys, NEW c \in Contents, CreateConfig(k, c)
       PROVE  IInv' /\ Changes(db, db')
  <2>1. DBInv(Create(db, k, c)) /\ Evolves(db, Create(db, k, c))
    BY <1>1, <1>10, CreateStep DEF CreateConfig
  <2> QED BY <1>10, <2>1, CommitWrite DEF CreateConfig
<1>11. ASSUME NEW k \in Keys, NEW c \in Contents, PutKey(k, c)
       PROVE  IInv' /\ Changes(db, db')
  <2>1. DBInv(putKeyTx(db, k, c)) /\ Evolves(db, putKeyTx(db, k, c))
    BY <1>1, <1>11, PutStep DEF PutKey
  <2> QED BY <1>11, <2>1, CommitWrite DEF PutKey
<1>12. ASSUME NEW k \in Keys, NEW c \in Contents, NEW version, UpdateConfig(k, c, version)
       PROVE  IInv' /\ Changes(db, db')
  <2>1. DBInv(updateConfigTx(db, k, c)) /\ Evolves(db, updateConfigTx(db, k, c))
    BY <1>1, <1>12, UpdateStep DEF UpdateConfig
  <2> QED BY <1>12, <2>1, CommitWrite DEF UpdateConfig
<1>13. ASSUME NEW r \in Ranges, DeleteRangeKeys(r)
       PROVE  IInv' /\ Changes(db, db')
  <2>1. DBInv(deleteRangeKeysTx(db, r)) /\ Evolves(db, deleteRangeKeysTx(db, r))
    BY <1>1, <1>13, DeleteRangeStep DEF DeleteRangeKeys
  <2> QED BY <1>13, <2>1, CommitWrite DEF DeleteRangeKeys
<1>14. ASSUME NEW k \in Keys, NEW c \in Contents, TxnPut(k, c)
       PROVE  IInv' /\ Changes(db, db')
  <2>1. DBInv(putKeyTx(staged, k, c)) /\ Evolves(db, putKeyTx(staged, k, c))
    BY <1>1, <1>14, PutStep DEF TxnPut
  <2> QED BY <1>14, <2>1 DEF TxnPut, IInv, TypeOK, LockAudit, DBInv, Changes
<1>15. ASSUME NEW r \in Ranges, TxnDeleteRange(r)
       PROVE  IInv' /\ Changes(db, db')
  <2>1. DBInv(deleteRangeKeysTx(staged, r)) /\ Evolves(db, deleteRangeKeysTx(staged, r))
    BY <1>1, <1>15, DeleteRangeStep DEF TxnDeleteRange
  <2> QED BY <1>15, <2>1 DEF TxnDeleteRange, IInv, TypeOK, LockAudit, DBInv, Changes
<1>16. ASSUME TxnBegin
       PROVE  IInv' /\ Changes(db, db')
  BY <1>16 DEF TxnBegin, IInv, TypeOK, LockAudit, Changes
<1>17. ASSUME TxnCommit
       PROVE  IInv' /\ Changes(db, db')
  <2>1. LockInv(staged) /\ IsDB(staged)
    BY <1>1, EvolvesLockInv DEF DBInv
  <2>2. Evolves(staged, staged)
    BY <2>1, EvolvesRefl
  <2> QED BY <1>1, <1>17, <2>1, <2>2
          DEF TxnCommit, IInv, TypeOK, LockAudit, LockInv, Changes
<1>18. ASSUME TxnRollback \/ Crash
       PROVE  IInv' /\ Changes(db, db')
  BY <1>1, <1>18 DEF TxnRollback, Crash, IInv, TypeOK, LockAudit, Changes
<1>19. ASSUME UNCHANGED vars
       PROVE  IInv' /\ Changes(db, db')
  BY <1>19 DEF vars, IInv, TypeOK, LockAudit, Changes
<1> QED
  BY <1>2, <1>3, <1>4, <1>5, <1>6, <1>7, <1>8, <1>9, <1>10, <1>11, <1>12, <1>13,
     <1>14, <1>15, <1>16, <1>17, <1>18, <1>19 DEF Next

-----------------------------------------------------------------------------
(* Safety.                                                                 *)

\* The inductive invariant: what TLC checks as IInv on a small instance holds
\* of every use of the write paths, transactions and crashes included.
THEOREM InductiveInvariant == Spec => []IInv
<1>1. Init => IInv
  BY InitLemma
<1>2. IInv /\ [Next]_vars => IInv'
  BY StepLemma
<1> QED BY <1>1, <1>2, PTL DEF Spec

\* The buckets keep their types.
THEOREM TypeCorrect == Spec => []TypeOK
<1>1. IInv => TypeOK
  BY DEF IInv
<1> QED BY <1>1, InductiveInvariant, PTL

\* Content, meta, history and changelog agree after every commit and inside
\* every transaction.
THEOREM BucketsAlwaysAgree == Spec => []BucketsAgree
<1>1. IInv => BucketsAgree
  BY DEF IInv, DBInv, BucketsAgree
<1> QED BY <1>1, InductiveInvariant, PTL

\* The version of a config counts its writes since its creation.
THEOREM VersionsCount == Spec => []Versions
<1>1. IInv => Versions
  BY DEF IInv, DBInv, Versions
<1> QED BY <1>1, InductiveInvariant, PTL

\* A read at an old revision of a key that existed then returns the value it
\* had then.
THEOREM PointInTimeReads == Spec => []PointInTime
<1>1. IInv => PointInTime
  BY DEF IInv, DBInv, PointInTime
<1> QED BY <1>1, InductiveInvariant, PTL

\* The newest audit entry of a config or namespace is its present lock.
THEOREM LockAuditTrue == Spec => []LockAudit
<1>1. IInv => LockAudit
  BY DEF IInv
<1> QED BY <1>1, InductiveInvariant, PTL

-----------------------------------------------------------------------------
(* Action properties.                                                      *)

\* Recorded history, changelog and audit entries are never rewritten.
THEOREM PastNeverRewritten == Spec => PastImmutable
<1> DEFINE A == /\ db'.rev >= db.rev /\ db'.lockSeq >= db.lockSeq
                /\ IsRestriction(db.history, db'.history)
                /\ IsRestriction(db.changelog, db'.changelog)
                /\ IsRestriction(db.lockHistory, db'.lockHistory)
                /\ IsRestriction(db.lockChangelog, db'.lockChangelog)
                /\ IsRestriction(db.asOf, db'.asOf)
<1>1. IInv /\ [Next]_vars => A
  <2> SUFFICES ASSUME IInv, Changes(db, db') PROVE A
    BY StepLemma
  <2>1. db.rev \in Nat /\ db.lockSeq \in Nat
    BY DEF IInv, TypeOK, IsDB
  <2>2. \A f : IsRestriction(f, f)
    BY DEF IsRestriction
  <2>3. CASE db' = db
    BY <2>1, <2>2, <2>3
  <2>4. CASE Evolves(db, db')
    BY <2>1, <2>2, <2>4 DEF Evolves
  <2>5. CASE Relocks(db, db')
    BY <2>1, <2>2, <2>5 DEF Relocks, SameContent
  <2> QED BY <2>3, <2>4, <2>5 DEF Changes
<1>2. IInv /\ [Next]_vars => [A]_vars
  BY <1>1
<1> QED BY <1>2, InductiveInvariant, PTL DEF Spec, PastImmutable

\* Neither API and no transaction touches a locked config.
THEOREM LockedConfigsFrozen == Spec => LockedConfigFrozen
<1> DEFINE A == \A k \in DOMAIN db.meta :
                  db.meta[k].locked =>
                    /\ k \in DOMAIN db'.meta
                    /\ db'.content[k] = db.content[k]
                    /\ db'.meta[k].version = db.meta[k].version
                    /\ db'.meta[k].revision = db.meta[k].revision
                    /\ db'.meta[k].createRevision = db.meta[k].createRevision
<1>1. IInv /\ [Next]_vars => A
  <2> SUFFICES ASSUME Changes(db, db') PROVE A
    BY StepLemma
  <2>1. CASE db' = db
    BY <2>1
  <2>2. CASE Evolves(db, db')
    BY <2>2 DEF Evolves, lockedKeys
  <2>3. CASE Relocks(db, db')
    BY <2>3 DEF Relocks, SameContent
  <2> QED BY <2>1, <2>2, <2>3 DEF Changes
<1>2. IInv /\ [Next]_vars => [A]_vars
  BY <1>1
<1> QED BY <1>2, InductiveInvariant, PTL DEF Spec, LockedConfigFrozen

\* Nothing is created, updated, locked or unlocked in a locked namespace.
THEOREM NamespaceLockRespected == Spec => NamespaceLockStopsWrites
<1> DEFINE A == \A k \in DOMAIN db'.meta :
                  isNamespaceLocked(db, k[1]) =>
                    /\ k \in DOMAIN db.meta
                    /\ db'.meta[k] = db.meta[k]
                    /\ db'.content[k] = db.content[k]
<1>1. IInv /\ [Next]_vars => A
  <2> SUFFICES ASSUME Changes(db, db') PROVE A
    BY StepLemma
  <2>1. CASE db' = db
    BY <2>1
  <2>2. CASE Evolves(db, db')
    BY <2>2 DEF Evolves
  <2>3. CASE Relocks(db, db')
    BY <2>3 DEF Relocks, SameContent
  <2> QED BY <2>1, <2>2, <2>3 DEF Changes
<1>2. IInv /\ [Next]_vars => [A]_vars
  BY <1>1
<1> QED BY <1>2, InductiveInvariant, PTL DEF Spec, NamespaceLockStopsWrites

-----------------------------------------------------------------------------
(* Refinement.                                                             *)

\* One write of the store is one write of the map.
LEMMA OneWriteMaps ==
  ASSUME NEW F, NEW old, NEW new, OneWrite(F, old, new)
  PROVE  VM!Write(F, old, new)
<1>1. CASE \E k \in Keys \ F, c \in Contents : new = Put(old, k, c)
  BY <1>1 DEF Put, VM!Write, VM!SetKey
<1>2. CASE \E S \in SUBSET (DOMAIN old \ F) : S # {} /\ new = Remove(old, S)
  BY <1>2 DEF Remove, Restrict, VM!Write, VM!RemoveKeys, VM!Restrict
<1> QED BY <1>1, <1>2 DEF OneWrite

\* Config writes map to one atomic commit, or to nothing when a transaction
\* made none.
LEMMA EvolvesMaps ==
  ASSUME IInv, IInv', Evolves(db, db')
  PROVE  VM!Commit \/ UNCHANGED VM!vars
<1>1. /\ db.rev \in Nat /\ db'.rev \in Nat /\ db'.rev >= db.rev
      /\ lockedKeys(db') = lockedKeys(db)
      /\ IsRestriction(db.asOf, db'.asOf)
  BY DEF IInv, TypeOK, IsDB, Evolves
<1>2. DOMAIN db.asOf = 0 .. db.rev /\ DOMAIN db'.asOf = 0 .. db'.rev
  BY DEF IInv, TypeOK, IsDB
<1>3. db.asOf[db.rev] = db.content /\ db'.asOf[db'.rev] = db'.content
  BY DEF IInv, DBInv, PastEndsNow
<1>4. \A r \in 0 .. db.rev : db'.asOf[r] = db.asOf[r]
  BY <1>1, <1>2 DEF IsRestriction
<1>5. CASE db'.rev = db.rev
  <2>1. db'.asOf = db.asOf
    <3>1. /\ db.asOf = [r \in 0 .. db.rev |-> db.asOf[r]]
          /\ db'.asOf = [r \in 0 .. db'.rev |-> db'.asOf[r]]
      BY DEF IInv, TypeOK, IsDB
    <3> QED BY <1>4, <1>5, <3>1
  <2>2. db'.content = db.content
    BY <1>3, <1>5, <2>1
  <2> QED BY <1>1, <1>5, <2>1, <2>2 DEF VM!vars
<1>6. CASE db'.rev > db.rev
  <2>1. \A r \in db.rev .. db'.rev - 1 :
          VM!Write(lockedKeys(db), db'.asOf[r], db'.asOf[r + 1])
    BY OneWriteMaps DEF Evolves
  <2> QED BY <1>1, <1>2, <1>3, <1>4, <1>6, <2>1 DEF VM!Commit
<1> QED BY <1>1, <1>5, <1>6

\* A lock operation freezes or unfreezes one key, or is invisible.
LEMMA RelocksMaps ==
  ASSUME IInv, Relocks(db, db')
  PROVE  (\E k \in Keys : VM!Freeze(k) \/ VM!Unfreeze(k)) \/ UNCHANGED VM!vars
<1>1. db'.rev = db.rev /\ db'.content = db.content /\ db'.asOf = db.asOf
  BY DEF Relocks, SameContent
<1>2. DOMAIN db.content = DOMAIN db.meta /\ DOMAIN db.meta \subseteq Keys
  BY DEF IInv, TypeOK, DBInv, LiveConfigAgrees, IsDB, IsBucket
<1>3. CASE lockedKeys(db') = lockedKeys(db)
  BY <1>1, <1>3 DEF VM!vars
<1>4. CASE \E k \in DOMAIN db.meta \ lockedKeys(db) :
             lockedKeys(db') = lockedKeys(db) \cup {k}
  BY <1>1, <1>2, <1>4 DEF VM!Freeze
<1>5. CASE \E k \in lockedKeys(db) : lockedKeys(db') = lockedKeys(db) \ {k}
  <2>1. lockedKeys(db) \subseteq Keys
    BY <1>2 DEF lockedKeys
  <2> QED BY <1>1, <1>5, <2>1 DEF VM!Unfreeze
<1> QED BY <1>3, <1>4, <1>5 DEF Relocks

\* The store, with its buckets, transactions and crashes, implements the
\* versioned map.
THEOREM StoreRefinesMap == Spec => ImplementsVersionedMap
<1>1. Init => VM!Init
  <2> SUFFICES ASSUME Init PROVE VM!Init
    OBVIOUS
  <2>1. /\ db.content = Empty /\ db.rev = 0 /\ db.asOf = [r \in {0} |-> Empty]
        /\ db.meta = Empty
    BY DEF Init, EmptyDB
  <2>2. lockedKeys(db) = {}
    BY <2>1 DEF lockedKeys, Empty
  <2> QED BY <2>1, <2>2 DEF VM!Init, Empty
<1>2. IInv /\ [Next]_vars => [VM!Next]_(VM!vars)
  <2> SUFFICES ASSUME IInv, [Next]_vars PROVE VM!Next \/ UNCHANGED VM!vars
    OBVIOUS
  <2>1. IInv' /\ Changes(db, db')
    BY StepLemma
  <2>2. CASE db' = db
    BY <2>2 DEF VM!vars
  <2>3. CASE Evolves(db, db')
    BY <2>1, <2>3, EvolvesMaps DEF VM!Next
  <2>4. CASE Relocks(db, db')
    BY <2>4, RelocksMaps DEF VM!Next
  <2> QED BY <2>1, <2>2, <2>3, <2>4 DEF Changes
<1> QED BY <1>1, <1>2, InductiveInvariant, PTL DEF Spec, ImplementsVersionedMap, VM!Spec

=============================================================================
