-------------------------- MODULE ConfigOpsProofs ---------------------------
(***************************************************************************)
(* The repository calls one by one: each config write has one of the two   *)
(* shapes of ConfigRepoProofs and evolves the database; lock and namespace *)
(* calls leave everything the invariant speaks of alone but the lock.      *)
(***************************************************************************)
EXTENDS ConfigRepoProofs

-----------------------------------------------------------------------------
(* Evolution.                                                              *)

\* A transaction that has done nothing has evolved the database.
LEMMA EvolvesRefl ==
  ASSUME NEW d, IsDB(d)
  PROVE  Evolves(d, d)
<1>1. d.rev \in Nat
  BY DEF IsDB
<1>2. \A r \in d.rev .. d.rev - 1 : FALSE
  BY <1>1
<1> QED BY <1>1, <1>2 DEF Evolves, IsRestriction, lockedKeys

\* Neither shape touches namespaces or locks.
LEMMA WriteKeeps ==
  ASSUME NEW d, NEW k, NEW m, NEW c, NEW t, NEW e, WroteEntry(d, k, m, c, t, e)
  PROVE  /\ e.namespaces = d.namespaces /\ e.lockSeq = d.lockSeq
         /\ e.lockHistory = d.lockHistory /\ e.lockChangelog = d.lockChangelog
         /\ e.content = Put(d.content, k, c)
<1>1. IsDB(d) /\ e = writeConfigEntry(d, k, m, c, t)
  BY DEF WroteEntry, DBInv
<1> QED BY <1>1 DEF writeConfigEntry, IsDB, EmptyDB

\* A removal keeps the parts of the database it does not name.
LEMMA RemoveKeeps ==
  ASSUME NEW d, NEW S, NEW k, NEW e, RemovedKeys(d, S, k, e)
  PROVE  /\ e.namespaces = d.namespaces /\ e.lockSeq = d.lockSeq
         /\ e.lockHistory = d.lockHistory /\ e.lockChangelog = d.lockChangelog
         /\ e.content = Remove(d.content, S)
<1>1. IsDB(d) /\ e = removeKeys(d, S, k)
  BY DEF RemovedKeys, DBInv
<1> QED BY <1>1 DEF removeKeys, IsDB, EmptyDB

\* One more write: b extends by a step from d to e.
LEMMA EvolvesWrite ==
  ASSUME NEW b, IsDB(b), NEW d, Evolves(b, d),
         NEW k, NEW m, NEW c, NEW t, NEW e, WroteEntry(d, k, m, c, t, e),
         ~m.locked, k \notin lockedKeys(d), ~isNamespaceLocked(d, k[1])
  PROVE  Evolves(b, e)
<1>1. WriteEffect(d, k, m, c, t, e) /\ k \in Keys /\ c \in Contents
  BY WriteFacts DEF WroteEntry
<1>2. IsDB(d) /\ ChangelogGapless(d) /\ PastEndsNow(d) /\ LiveConfigAgrees(d)
  BY DEF WroteEntry, DBInv
<1>3. /\ e.namespaces = d.namespaces /\ e.lockSeq = d.lockSeq
      /\ e.lockHistory = d.lockHistory /\ e.lockChangelog = d.lockChangelog
      /\ e.content = Put(d.content, k, c)
  BY WriteKeeps
<1>4. d.rev \in Nat /\ b.rev \in Nat /\ e.rev = d.rev + 1 /\ d.rev >= b.rev
  BY <1>1, <1>2 DEF WriteEffect, Evolves, IsDB
<1>5. IsRestriction(b.history, e.history)
  <2>1. <<k, d.rev + 1>> \notin DOMAIN d.history
    BY <1>2, <1>4 DEF PastEndsNow
  <2> QED BY <1>1, <2>1 DEF WriteEffect, Evolves, IsRestriction
<1>6. IsRestriction(b.changelog, e.changelog)
  <2>1. d.rev + 1 \notin DOMAIN d.changelog
    BY <1>2, <1>4 DEF ChangelogGapless
  <2> QED BY <1>1, <2>1 DEF WriteEffect, Evolves, IsRestriction
<1>7. DOMAIN d.asOf = 0 .. d.rev /\ IsRestriction(d.asOf, e.asOf)
  <2>1. DOMAIN d.asOf = 0 .. d.rev
    BY <1>2 DEF IsDB
  <2>2. /\ DOMAIN e.asOf = 0 .. d.rev + 1
        /\ \A r \in 0 .. d.rev : e.asOf[r] = d.asOf[r]
    BY <1>1 DEF WriteEffect
  <2> QED BY <1>4, <2>1, <2>2 DEF IsRestriction
<1>8. IsRestriction(b.asOf, e.asOf)
  BY <1>7 DEF Evolves, IsRestriction
<1>9. lockedKeys(e) = lockedKeys(d)
  BY <1>1 DEF WriteEffect, lockedKeys
<1>3a. \A j \in lockedKeys(b) : e.meta[j] = b.meta[j] /\ e.content[j] = b.content[j]
  <2>1. \A j \in lockedKeys(d) : e.meta[j] = d.meta[j] /\ e.content[j] = d.content[j]
    BY <1>1, <1>2 DEF WriteEffect, lockedKeys, LiveConfigAgrees
  <2> QED BY <2>1 DEF Evolves
<1>3b. ASSUME NEW j \in DOMAIN e.meta, isNamespaceLocked(b, j[1])
       PROVE  /\ j \in DOMAIN b.meta
              /\ e.meta[j] = b.meta[j] /\ e.content[j] = b.content[j]
  <2>1. isNamespaceLocked(d, j[1])
    BY <1>3b DEF Evolves, isNamespaceLocked
  <2>2. j # k
    BY <2>1
  <2>3. j \in DOMAIN d.meta /\ e.meta[j] = d.meta[j] /\ e.content[j] = d.content[j]
    BY <1>1, <1>2, <2>2 DEF WriteEffect, LiveConfigAgrees
  <2> QED BY <1>3b, <2>3 DEF Evolves
<1>12. ASSUME NEW r \in b.rev .. e.rev - 1
       PROVE  OneWrite(lockedKeys(b), e.asOf[r], e.asOf[r + 1])
  <2>1. CASE r = d.rev
    <3>1. e.asOf[r] = d.content /\ e.asOf[r + 1] = Put(d.content, k, c)
      BY <1>1, <1>2, <1>3, <1>4, <2>1 DEF WriteEffect, PastEndsNow
    <3>2. k \in Keys \ lockedKeys(b)
      BY <1>1 DEF Evolves
    <3> QED BY <1>1, <3>1, <3>2 DEF OneWrite
  <2>2. CASE r \in b.rev .. d.rev - 1
    <3>1. r \in 0 .. d.rev /\ r + 1 \in 0 .. d.rev
      BY <1>4, <2>2
    <3>2. e.asOf[r] = d.asOf[r] /\ e.asOf[r + 1] = d.asOf[r + 1]
      BY <1>1, <3>1 DEF WriteEffect
    <3> QED BY <2>2, <3>2 DEF Evolves
  <2> QED BY <1>4, <2>1, <2>2
<1> QED BY <1>3, <1>4, <1>5, <1>6, <1>8, <1>9, <1>3a, <1>3b, <1>12 DEF Evolves

\* One more removal.
LEMMA EvolvesRemove ==
  ASSUME NEW b, IsDB(b), NEW d, Evolves(b, d),
         NEW S, NEW k, NEW e, RemovedKeys(d, S, k, e),
         S \cap lockedKeys(d) = {}
  PROVE  Evolves(b, e)
<1>1. RemoveEffect(d, S, k, e) /\ S \subseteq DOMAIN d.meta /\ k \in S
  BY RemoveFacts DEF RemovedKeys
<1>2. IsDB(d) /\ ChangelogGapless(d) /\ PastEndsNow(d) /\ LiveConfigAgrees(d)
  BY DEF RemovedKeys, DBInv
<1>3. /\ e.namespaces = d.namespaces /\ e.lockSeq = d.lockSeq
      /\ e.lockHistory = d.lockHistory /\ e.lockChangelog = d.lockChangelog
      /\ e.content = Remove(d.content, S)
  BY RemoveKeeps
<1>4. d.rev \in Nat /\ b.rev \in Nat /\ e.rev = d.rev + 1 /\ d.rev >= b.rev
  BY <1>1, <1>2 DEF RemoveEffect, Evolves, IsDB
<1>5. IsRestriction(b.history, e.history)
  BY <1>1 DEF RemoveEffect, Evolves
<1>6. IsRestriction(b.changelog, e.changelog)
  <2>1. d.rev + 1 \notin DOMAIN d.changelog
    BY <1>2, <1>4 DEF ChangelogGapless
  <2> QED BY <1>1, <2>1 DEF RemoveEffect, Evolves, IsRestriction
<1>7. DOMAIN d.asOf = 0 .. d.rev /\ IsRestriction(d.asOf, e.asOf)
  <2>1. DOMAIN d.asOf = 0 .. d.rev
    BY <1>2 DEF IsDB
  <2>2. /\ DOMAIN e.asOf = 0 .. d.rev + 1
        /\ \A r \in 0 .. d.rev : e.asOf[r] = d.asOf[r]
    BY <1>1 DEF RemoveEffect
  <2> QED BY <1>4, <2>1, <2>2 DEF IsRestriction
<1>8. IsRestriction(b.asOf, e.asOf)
  BY <1>7 DEF Evolves, IsRestriction
<1>9. lockedKeys(e) = lockedKeys(d)
  BY <1>1 DEF RemoveEffect, lockedKeys
<1>3a. \A j \in lockedKeys(b) : e.meta[j] = b.meta[j] /\ e.content[j] = b.content[j]
  <2>1. \A j \in lockedKeys(d) : e.meta[j] = d.meta[j] /\ e.content[j] = d.content[j]
    BY <1>1, <1>2 DEF RemoveEffect, lockedKeys, LiveConfigAgrees
  <2> QED BY <2>1 DEF Evolves
<1>3b. ASSUME NEW j \in DOMAIN e.meta, isNamespaceLocked(b, j[1])
       PROVE  /\ j \in DOMAIN b.meta
              /\ e.meta[j] = b.meta[j] /\ e.content[j] = b.content[j]
  <2>1. j \in DOMAIN d.meta /\ e.meta[j] = d.meta[j] /\ e.content[j] = d.content[j]
    BY <1>1, <1>2 DEF RemoveEffect, LiveConfigAgrees
  <2> QED BY <1>3b, <2>1 DEF Evolves
<1>12. ASSUME NEW r \in b.rev .. e.rev - 1
       PROVE  OneWrite(lockedKeys(b), e.asOf[r], e.asOf[r + 1])
  <2>1. CASE r = d.rev
    <3>1. e.asOf[r] = d.content /\ e.asOf[r + 1] = Remove(d.content, S)
      BY <1>1, <1>2, <1>3, <1>4, <2>1 DEF RemoveEffect, PastEndsNow
    <3>2. S \in SUBSET (DOMAIN d.content \ lockedKeys(b)) /\ S # {}
      BY <1>1, <1>2 DEF Evolves, LiveConfigAgrees
    <3> QED BY <3>1, <3>2 DEF OneWrite
  <2>2. CASE r \in b.rev .. d.rev - 1
    <3>1. r \in 0 .. d.rev /\ r + 1 \in 0 .. d.rev
      BY <1>4, <2>2
    <3>2. e.asOf[r] = d.asOf[r] /\ e.asOf[r + 1] = d.asOf[r + 1]
      BY <1>1, <3>1 DEF RemoveEffect
    <3> QED BY <2>2, <3>2 DEF Evolves
  <2> QED BY <1>4, <2>1, <2>2
<1> QED BY <1>3, <1>4, <1>5, <1>6, <1>8, <1>9, <1>3a, <1>3b, <1>12 DEF Evolves

-----------------------------------------------------------------------------
(* Config writes.  b is the database committed last, d the one the         *)
(* transaction sees.                                                       *)

\* Create, in a transaction that began on b and has reached d.
LEMMA CreateStep ==
  ASSUME NEW b, IsDB(b), NEW d, DBInv(d), Evolves(b, d),
         NEW k \in Keys, NEW c \in Contents, canCreate(d, k)
  PROVE  DBInv(Create(d, k, c)) /\ Evolves(b, Create(d, k, c))
<1>1. IsDB(d) /\ d.rev \in Nat
  BY DEF DBInv, IsDB
<1>2. NextMeta(d, k, newMeta(d)) /\ ~newMeta(d).locked
  BY <1>1 DEF NextMeta, newMeta, nextRevision, Meta, canCreate
<1>3. WroteEntry(d, k, newMeta(d), c, "created", Create(d, k, c))
  BY <1>2 DEF WroteEntry, Create
<1>4. k \notin lockedKeys(d) /\ ~isNamespaceLocked(d, k[1])
  BY DEF canCreate, lockedKeys
<1>5. DBInv(Create(d, k, c))
  BY <1>3, WriteInv
<1>6. Evolves(b, Create(d, k, c))
  BY <1>2, <1>3, <1>4, EvolvesWrite
<1> QED BY <1>5, <1>6

\* The shape Update and an overwriting Put share.
LEMMA OverwriteStep ==
  ASSUME NEW b, IsDB(b), NEW d, DBInv(d), Evolves(b, d),
         NEW k \in Keys, NEW c \in Contents,
         k \in DOMAIN d.meta, ~d.meta[k].locked, ~isNamespaceLocked(d, k[1]),
         NEW e, e = writeConfigEntry(d, k, bumpMeta(d, k), c, "updated")
  PROVE  DBInv(e) /\ Evolves(b, e)
<1>1. IsDB(d) /\ d.rev \in Nat /\ d.meta[k] \in Meta
  BY DEF DBInv, IsDB, IsBucket
<1>2. NextMeta(d, k, bumpMeta(d, k)) /\ ~bumpMeta(d, k).locked
  <2>1. /\ bumpMeta(d, k).version = d.meta[k].version + 1
        /\ bumpMeta(d, k).revision = d.rev + 1
        /\ bumpMeta(d, k).createRevision = d.meta[k].createRevision
        /\ bumpMeta(d, k).locked = d.meta[k].locked
    BY <1>1 DEF bumpMeta, nextRevision, Meta
  <2>2. bumpMeta(d, k) \in Meta
    <3>1. d.meta[k].version + 1 \in Nat /\ nextRevision(d) \in Nat
      BY <1>1 DEF nextRevision, Meta
    <3> QED BY <1>1, <3>1 DEF bumpMeta, Meta
  <2> QED BY <2>1, <2>2 DEF NextMeta
<1>3. WroteEntry(d, k, bumpMeta(d, k), c, "updated", e)
  BY <1>2 DEF WroteEntry
<1>4. k \notin lockedKeys(d)
  BY DEF lockedKeys
<1>5. DBInv(e)
  BY <1>3, WriteInv
<1>6. Evolves(b, e)
  BY <1>2, <1>3, <1>4, EvolvesWrite
<1> QED BY <1>5, <1>6

\* Update, likewise.
LEMMA UpdateStep ==
  ASSUME NEW b, IsDB(b), NEW d, DBInv(d), Evolves(b, d),
         NEW k \in Keys, NEW c \in Contents, NEW v, canUpdate(d, k, v)
  PROVE  DBInv(updateConfigTx(d, k, c)) /\ Evolves(b, updateConfigTx(d, k, c))
<1>1. k \in DOMAIN d.meta /\ ~d.meta[k].locked /\ ~isNamespaceLocked(d, k[1])
  BY DEF canUpdate, validateUpdatePreconditions
<1>2. updateConfigTx(d, k, c) = writeConfigEntry(d, k, bumpMeta(d, k), c, "updated")
  BY DEF updateConfigTx
<1> QED BY <1>1, <1>2, OverwriteStep

\* The etcd Put, likewise.
LEMMA PutStep ==
  ASSUME NEW b, IsDB(b), NEW d, DBInv(d), Evolves(b, d),
         NEW k \in Keys, NEW c \in Contents, canPutKey(d, k)
  PROVE  DBInv(putKeyTx(d, k, c)) /\ Evolves(b, putKeyTx(d, k, c))
<1>1. CASE k \in DOMAIN d.meta
  <2>1. ~d.meta[k].locked /\ ~isNamespaceLocked(d, k[1])
    BY <1>1 DEF canPutKey, isLocked
  <2>2. putKeyTx(d, k, c) = writeConfigEntry(d, k, bumpMeta(d, k), c, "updated")
    BY <1>1 DEF putKeyTx
  <2> QED BY <1>1, <2>1, <2>2, OverwriteStep
<1>2. CASE k \notin DOMAIN d.meta
  <2>1. canCreate(d, k)
    BY <1>2 DEF canPutKey, canCreate
  <2>2. putKeyTx(d, k, c) = Create(d, k, c)
    BY <1>2 DEF putKeyTx, Create
  <2> QED BY <2>1, <2>2, CreateStep
<1> QED BY <1>1, <1>2

\* Delete, likewise.
LEMMA DeleteStep ==
  ASSUME NEW b, IsDB(b), NEW d, DBInv(d), Evolves(b, d),
         NEW k \in Keys, canDelete(d, k)
  PROVE  DBInv(deleteConfigTx(d, k)) /\ Evolves(b, deleteConfigTx(d, k))
<1>1. RemovedKeys(d, {k}, k, deleteConfigTx(d, k))
  BY DEF RemovedKeys, deleteConfigTx, canDelete
<1>2. {k} \cap lockedKeys(d) = {}
  BY DEF canDelete, lockedKeys
<1>3. DBInv(deleteConfigTx(d, k))
  BY <1>1, RemoveInv
<1>4. Evolves(b, deleteConfigTx(d, k))
  BY <1>1, <1>2, EvolvesRemove
<1> QED BY <1>3, <1>4

\* The etcd DeleteRange, likewise.
LEMMA DeleteRangeStep ==
  ASSUME NEW b, IsDB(b), NEW d, DBInv(d), Evolves(b, d),
         NEW r, canDeleteRange(d, r)
  PROVE  DBInv(deleteRangeKeysTx(d, r)) /\ Evolves(b, deleteRangeKeysTx(d, r))
<1> DEFINE S == deleteTargets(d, r)
<1>1. S \subseteq DOMAIN d.meta /\ S # {} /\ \A k \in S : ~d.meta[k].locked
  BY DEF deleteTargets, canDeleteRange
<1>2. S \in SUBSET Keys /\ IsFiniteSet(S)
  <2>1. DOMAIN d.meta \subseteq Keys /\ IsFiniteSet(DOMAIN d.meta)
    BY DEF DBInv, IsDB, IsBucket
  <2> HIDE DEF S
  <2> QED BY <1>1, <2>1, FS_Subset
<1>3. lastKey(S) \in S
  <2> HIDE DEF S
  <2> QED BY <1>1, <1>2, LastKeyMember
<1>4. RemovedKeys(d, S, lastKey(S), deleteRangeKeysTx(d, r))
  BY <1>1, <1>3 DEF RemovedKeys, deleteRangeKeysTx
<1>5. S \cap lockedKeys(d) = {}
  BY <1>1 DEF lockedKeys
<1> HIDE DEF S
<1>6. DBInv(deleteRangeKeysTx(d, r))
  BY <1>4, RemoveInv
<1>7. Evolves(b, deleteRangeKeysTx(d, r))
  BY <1>4, <1>5, EvolvesRemove
<1> QED BY <1>6, <1>7

-----------------------------------------------------------------------------
(* Locks and namespaces.                                                   *)

LockInv(d) == LockAuditCurrent(d) /\ LockAuditAlternates(d)

\* Config writes change neither locks nor the audit trail.
LEMMA EvolvesLockInv ==
  ASSUME NEW d, NEW e, LockInv(d), Evolves(d, e)
  PROVE  LockInv(e)
<1>1. \A s : subjectLocked(e, s) <=> subjectLocked(d, s)
  <2>1. \A k : isLocked(e, k) <=> k \in lockedKeys(e)
    BY DEF isLocked, lockedKeys
  <2>2. \A k : isLocked(d, k) <=> k \in lockedKeys(d)
    BY DEF isLocked, lockedKeys
  <2>3. \A n : isNamespaceLocked(e, n) <=> isNamespaceLocked(d, n)
    BY DEF isNamespaceLocked, Evolves
  <2> QED BY <2>1, <2>2, <2>3 DEF subjectLocked, Evolves
<1>2. \A s : lockRevisions(e, s) = lockRevisions(d, s)
  BY DEF lockRevisions, Evolves
<1>3. LockAuditCurrent(e)
  BY <1>1, <1>2 DEF LockInv, LockAuditCurrent, Evolves
<1>4. LockAuditAlternates(e)
  BY <1>2 DEF LockInv, LockAuditAlternates, Evolves
<1> QED BY <1>3, <1>4 DEF LockInv

\* e is d after the lock of s was toggled and a lock event of type t appended.
ToggledLock(d, s, t, e) ==
  /\ d.lockSeq \in Nat
  /\ s \in Subjects
  /\ t \in LockTypes
  /\ e.lockSeq = d.lockSeq + 1
  /\ e.lockHistory = Put(d.lockHistory, <<s, d.lockSeq + 1>>, t)
  /\ e.lockChangelog = Put(d.lockChangelog, d.lockSeq + 1, [type |-> t, subject |-> s])
  /\ subjectLocked(e, s) <=> t = "locked"
  /\ subjectLocked(d, s) <=> t # "locked"
  /\ \A x \in Subjects \ {s} : subjectLocked(e, x) <=> subjectLocked(d, x)

\* A toggle appends a true entry that differs from the one before it.
LEMMA ToggleLockInv ==
  ASSUME NEW d, NEW s, NEW t, NEW e, LockInv(d), ToggledLock(d, s, t, e),
         IsBucket(d.lockChangelog, Nat, LockEntry)
  PROVE  LockInv(e)
<1> DEFINE n == d.lockSeq + 1
<1>1. /\ d.lockSeq \in Nat /\ n \in Nat /\ e.lockSeq = n
      /\ s \in Subjects /\ t \in LockTypes
  BY DEF ToggledLock
<1>2. DOMAIN d.lockChangelog = 1 .. d.lockSeq
  BY DEF LockInv, LockAuditCurrent
<1>3. /\ DOMAIN e.lockChangelog = 1 .. n
      /\ e.lockChangelog[n] = [type |-> t, subject |-> s]
      /\ \A q \in 1 .. d.lockSeq : e.lockChangelog[q] = d.lockChangelog[q]
  <2>1. DOMAIN e.lockChangelog = (1 .. d.lockSeq) \cup {n}
    BY <1>2 DEF ToggledLock, Put
  <2>2. (1 .. d.lockSeq) \cup {n} = 1 .. n
    BY <1>1
  <2>3. n \notin 1 .. d.lockSeq
    BY <1>1
  <2> QED BY <1>2, <2>1, <2>2, <2>3 DEF ToggledLock, Put
<1> HIDE DEF n
<1>3a. 1 .. n = (1 .. d.lockSeq) \cup {n} /\ n \notin 1 .. d.lockSeq
  BY <1>1 DEF n
<1>3b. e.lockChangelog[n].subject = s
  BY <1>3
<1>4. lockRevisions(e, s) = lockRevisions(d, s) \cup {n}
  BY <1>1, <1>3, <1>3a, <1>3b DEF lockRevisions
<1>5. \A x : x # s => lockRevisions(e, x) = lockRevisions(d, x)
  BY <1>1, <1>3, <1>3a, <1>3b DEF lockRevisions
<1>6. \A x : lockRevisions(d, x) \in SUBSET (1 .. d.lockSeq)
  BY DEF lockRevisions
<1>7. ASSUME NEW T \in SUBSET (1 .. d.lockSeq), T # {}
      PROVE  e.lockChangelog[Max(T)] = d.lockChangelog[Max(T)]
  BY <1>1, <1>3, <1>7, MaxInterval
<1>8. LockAuditCurrent(e)
  <2>1. ASSUME NEW x \in Subjects
        PROVE  subjectLocked(e, x) <=>
                 /\ lockRevisions(e, x) # {}
                 /\ e.lockChangelog[Max(lockRevisions(e, x))].type = "locked"
    <3>1. CASE x = s
      <4>1. lockRevisions(e, s) \in SUBSET (1 .. n) /\ n \in lockRevisions(e, s)
        BY <1>1, <1>4, <1>6 DEF n
      <4>2. \A q \in lockRevisions(e, s) : q <= n
        BY <1>1, <4>1
      <4>3. Max(lockRevisions(e, s)) = n
        BY <1>1, <4>1, <4>2, MaxIs
      <4> QED BY <1>3, <3>1, <4>1, <4>3 DEF ToggledLock
    <3>2. CASE x # s
      <4>1. subjectLocked(e, x) <=> subjectLocked(d, x)
        BY <3>2 DEF ToggledLock
      <4>2. lockRevisions(e, x) = lockRevisions(d, x)
        BY <1>5, <3>2
      <4>3. subjectLocked(d, x) <=>
              /\ lockRevisions(d, x) # {}
              /\ d.lockChangelog[Max(lockRevisions(d, x))].type = "locked"
        BY DEF LockInv, LockAuditCurrent
      <4> QED BY <1>6, <1>7, <4>1, <4>2, <4>3
    <3> QED BY <3>1, <3>2
  <2> QED BY <1>1, <1>3, <2>1 DEF LockAuditCurrent
<1>9. LockAuditAlternates(e)
  <2> DEFINE Before(x, q, f) == {p \in lockRevisions(f, x) : p < q}
             Turn(x, q, f) == IF \/ Before(x, q, f) = {}
                                 \/ f.lockChangelog[Max(Before(x, q, f))].type = "unlocked"
                              THEN "locked" ELSE "unlocked"
  <2>1. ASSUME NEW x \in Subjects, NEW q \in lockRevisions(e, x)
        PROVE  e.lockChangelog[q].type = Turn(x, q, e)
    <3>1. Before(x, q, e) = Before(x, q, d)
      <4>1. q <= n
        BY <1>1, <1>4, <1>5, <1>6 DEF n
      <4>2. q \in Nat
        BY <1>1, <1>4, <1>5, <1>6
      <4> QED BY <1>1, <1>4, <1>5, <4>1, <4>2
    <3>2. Turn(x, q, e) = Turn(x, q, d)
      <4>1. Before(x, q, d) \in SUBSET (1 .. d.lockSeq)
        BY <1>6
      <4> QED BY <1>7, <3>1, <4>1
    <3>3. CASE q = n
      <4>1. x = s /\ e.lockChangelog[q].type = t
        BY <1>1, <1>3, <1>5, <1>6, <3>3 DEF n
      <4>2. Before(s, n, d) = lockRevisions(d, s)
        BY <1>1, <1>6 DEF n
      <4>3. subjectLocked(d, s) <=>
              /\ lockRevisions(d, s) # {}
              /\ d.lockChangelog[Max(lockRevisions(d, s))].type = "locked"
        BY <1>1 DEF LockInv, LockAuditCurrent
      <4>4. lockRevisions(d, s) # {} =>
              d.lockChangelog[Max(lockRevisions(d, s))].type \in LockTypes
        <5>1. lockRevisions(d, s) # {} => Max(lockRevisions(d, s)) \in 1 .. d.lockSeq
          BY <1>1, <1>6, MaxInterval
        <5> QED BY <1>2, <5>1 DEF IsBucket, LockEntry
      <4>5. subjectLocked(d, s) <=> t # "locked"
        BY DEF ToggledLock
      <4> QED BY <1>1, <3>2, <3>3, <4>1, <4>2, <4>3, <4>4, <4>5 DEF LockTypes
    <3>4. CASE q # n
      <4>1. q \in lockRevisions(d, x) /\ q \in 1 .. d.lockSeq
        BY <1>4, <1>5, <1>6, <3>4
      <4>2. d.lockChangelog[q].type = Turn(x, q, d)
        BY <4>1 DEF LockInv, LockAuditAlternates
      <4> QED BY <1>3, <3>2, <4>1, <4>2
    <3> QED BY <3>3, <3>4
  <2>2. DOMAIN e.lockHistory = {<<e.lockChangelog[q].subject, q>> : q \in 1 .. e.lockSeq}
    <3>1. DOMAIN e.lockHistory = DOMAIN d.lockHistory \cup {<<s, n>>}
      BY DEF ToggledLock, Put, n
    <3>2. DOMAIN d.lockHistory = {<<d.lockChangelog[q].subject, q>> : q \in 1 .. d.lockSeq}
      BY DEF LockInv, LockAuditAlternates
    <3>3. 1 .. n = (1 .. d.lockSeq) \cup {n}
      BY <1>1 DEF n
    <3>4. e.lockChangelog[n].subject = s
      BY <1>3
    <3> QED BY <1>1, <1>3, <3>1, <3>2, <3>3, <3>4
  <2> QED BY <2>1, <2>2 DEF LockAuditAlternates
<1> QED BY <1>8, <1>9 DEF LockInv

\* A toggle overwrites no entry of the audit trail.
LEMMA ToggleAppends ==
  ASSUME NEW d, NEW s, NEW t, NEW e, LockInv(d), ToggledLock(d, s, t, e)
  PROVE  /\ e.lockSeq >= d.lockSeq
         /\ IsRestriction(d.lockHistory, e.lockHistory)
         /\ IsRestriction(d.lockChangelog, e.lockChangelog)
<1>1. d.lockSeq \in Nat /\ d.lockSeq + 1 \notin 1 .. d.lockSeq
  BY DEF ToggledLock
<1>2. d.lockSeq + 1 \notin DOMAIN d.lockChangelog
  BY <1>1 DEF LockInv, LockAuditCurrent
<1>3. <<s, d.lockSeq + 1>> \notin DOMAIN d.lockHistory
  BY <1>1 DEF LockInv, LockAuditAlternates
<1>4. e.lockSeq >= d.lockSeq
  BY <1>1 DEF ToggledLock
<1>5. IsRestriction(d.lockHistory, e.lockHistory)
  BY <1>3 DEF IsRestriction, ToggledLock, Put
<1>6. IsRestriction(d.lockChangelog, e.lockChangelog)
  BY <1>2 DEF IsRestriction, ToggledLock, Put
<1> QED BY <1>4, <1>5, <1>6

-----------------------------------------------------------------------------
(* Namespace and lock operations leave the content and its past alone.     *)

SameContent(d, e) ==
  /\ e.rev = d.rev
  /\ e.content = d.content
  /\ e.history = d.history
  /\ e.changelog = d.changelog
  /\ e.asOf = d.asOf
  /\ DOMAIN e.meta = DOMAIN d.meta
  /\ \A k \in DOMAIN d.meta :
       /\ e.meta[k].version = d.meta[k].version
       /\ e.meta[k].revision = d.meta[k].revision
       /\ e.meta[k].createRevision = d.meta[k].createRevision

\* How a lock or namespace operation may change a database: it appends to the
\* audit trail and locks or unlocks at most one config, not one of a locked
\* namespace.
Relocks(d, e) ==
  /\ SameContent(d, e)
  /\ e.lockSeq >= d.lockSeq
  /\ IsRestriction(d.lockHistory, e.lockHistory)
  /\ IsRestriction(d.lockChangelog, e.lockChangelog)
  /\ \A k \in DOMAIN d.meta : isNamespaceLocked(d, k[1]) => e.meta[k] = d.meta[k]
  /\ \/ lockedKeys(e) = lockedKeys(d)
     \/ \E k \in DOMAIN d.meta \ lockedKeys(d) : lockedKeys(e) = lockedKeys(d) \cup {k}
     \/ \E k \in lockedKeys(d) : lockedKeys(e) = lockedKeys(d) \ {k}

\* A database that differs in locks and namespaces only is as consistent.
LEMMA SameContentInv ==
  ASSUME NEW d, NEW e, DBInv(d), IsDB(e), SameContent(d, e)
  PROVE  DBInv(e)
<1>1. ChangelogGapless(e)
  BY DEF DBInv, ChangelogGapless, SameContent
<1>2. LiveConfigAgrees(e)
  BY DEF DBInv, LiveConfigAgrees, SameContent
<1>3. HistoryMatchesChangelog(e)
  BY DEF DBInv, HistoryMatchesChangelog, SameContent
<1>4. VersionCountsWrites(e)
  BY DEF DBInv, VersionCountsWrites, SameContent
<1>5. PastEndsNow(e)
  BY DEF DBInv, PastEndsNow, SameContent
<1>6. PastReads(e)
  <2>1. \A k, r : lookupHistoryAtRevision(e, k, r) = lookupHistoryAtRevision(d, k, r)
    BY DEF lookupHistoryAtRevision, historyRevisions, SameContent
  <2>2. \A k \in DOMAIN d.meta : \A r : readKVValue(e, k, r) = readKVValue(d, k, r)
    BY <2>1 DEF readKVValue, SameContent
  <2> QED BY <2>1, <2>2 DEF DBInv, PastReads, SameContent
<1> QED BY <1>1, <1>2, <1>3, <1>4, <1>5, <1>6 DEF DBInv

\* The fields a config lock toggle writes.
LEMMA ToggleConfigFields ==
  ASSUME NEW d, IsDB(d), NEW k \in Keys, NEW locked \in BOOLEAN,
         NEW e, e = toggleConfigLock(d, k, locked)
  PROVE  /\ DOMAIN e = DOMAIN EmptyDB
         /\ e.rev = d.rev /\ e.content = d.content /\ e.history = d.history
         /\ e.changelog = d.changelog /\ e.asOf = d.asOf
         /\ e.namespaces = d.namespaces
         /\ e.meta = [d.meta EXCEPT ![k].locked = locked]
         /\ e.lockSeq = d.lockSeq + 1
         /\ e.lockHistory = Put(d.lockHistory, <<k, d.lockSeq + 1>>, LockType(locked))
         /\ e.lockChangelog = Put(d.lockChangelog, d.lockSeq + 1,
                                  [type |-> LockType(locked), subject |-> k])
BY DEF toggleConfigLock, writeLockHistory, nextLockSeq, IsDB, EmptyDB

\* The fields a namespace lock toggle writes.
LEMMA ToggleNamespaceFields ==
  ASSUME NEW d, IsDB(d), NEW n \in Namespaces, NEW locked \in BOOLEAN,
         NEW e, e = toggleNamespaceLock(d, n, locked)
  PROVE  /\ DOMAIN e = DOMAIN EmptyDB
         /\ e.rev = d.rev /\ e.content = d.content /\ e.history = d.history
         /\ e.changelog = d.changelog /\ e.asOf = d.asOf
         /\ e.meta = d.meta
         /\ e.namespaces = [d.namespaces EXCEPT ![n].locked = locked]
         /\ e.lockSeq = d.lockSeq + 1
         /\ e.lockHistory = Put(d.lockHistory, <<<<n, 0>>, d.lockSeq + 1>>, LockType(locked))
         /\ e.lockChangelog = Put(d.lockChangelog, d.lockSeq + 1,
                                  [type |-> LockType(locked), subject |-> <<n, 0>>])
BY DEF toggleNamespaceLock, writeLockHistory, nextLockSeq, IsDB, EmptyDB

\* The lock bucket entries a toggle appends are well typed.
LEMMA LockBuckets ==
  ASSUME NEW d, IsDB(d), NEW s \in Subjects, NEW locked \in BOOLEAN
  PROVE  /\ d.lockSeq + 1 \in Nat
         /\ LockType(locked) \in LockTypes
         /\ IsBucket(Put(d.lockHistory, <<s, d.lockSeq + 1>>, LockType(locked)),
                     Subjects \X Nat, LockTypes)
         /\ IsBucket(Put(d.lockChangelog, d.lockSeq + 1,
                         [type |-> LockType(locked), subject |-> s]), Nat, LockEntry)
<1>1. d.lockSeq + 1 \in Nat
  BY DEF IsDB
<1>2. LockType(locked) \in LockTypes
  BY DEF LockType, LockTypes
<1>3. [type |-> LockType(locked), subject |-> s] \in LockEntry
  BY <1>2 DEF LockEntry
<1>4. <<s, d.lockSeq + 1>> \in Subjects \X Nat
  BY <1>1
<1>5. /\ IsBucket(d.lockHistory, Subjects \X Nat, LockTypes)
      /\ IsBucket(d.lockChangelog, Nat, LockEntry)
  BY DEF IsDB
<1> QED BY <1>1, <1>2, <1>3, <1>4, <1>5, PutBucket

\* Locking or unlocking a config (toggleConfigLock).
LEMMA ToggleConfigStep ==
  ASSUME NEW d, DBInv(d), LockInv(d), NEW k \in Keys, NEW locked \in BOOLEAN,
         canToggleConfigLock(d, k, locked)
  PROVE  /\ DBInv(toggleConfigLock(d, k, locked))
         /\ LockInv(toggleConfigLock(d, k, locked))
         /\ Relocks(d, toggleConfigLock(d, k, locked))
<1> DEFINE e == toggleConfigLock(d, k, locked)
<1>1. IsDB(d) /\ k \in Subjects /\ k \in DOMAIN d.meta /\ d.meta[k].locked # locked
  BY DEF DBInv, Subjects, canToggleConfigLock
<1>2. /\ DOMAIN e = DOMAIN EmptyDB
      /\ e.rev = d.rev /\ e.content = d.content /\ e.history = d.history
      /\ e.changelog = d.changelog /\ e.asOf = d.asOf
      /\ e.namespaces = d.namespaces
      /\ e.meta = [d.meta EXCEPT ![k].locked = locked]
      /\ e.lockSeq = d.lockSeq + 1
      /\ e.lockHistory = Put(d.lockHistory, <<k, d.lockSeq + 1>>, LockType(locked))
      /\ e.lockChangelog = Put(d.lockChangelog, d.lockSeq + 1,
                               [type |-> LockType(locked), subject |-> k])
  BY <1>1, ToggleConfigFields
<1>3. /\ d.lockSeq + 1 \in Nat
      /\ LockType(locked) \in LockTypes
      /\ IsBucket(e.lockHistory, Subjects \X Nat, LockTypes)
      /\ IsBucket(e.lockChangelog, Nat, LockEntry)
  BY <1>1, <1>2, LockBuckets
<1> HIDE DEF e
<1>4. IsBucket(d.meta, Keys, Meta) /\ IsFiniteSet(DOMAIN d.meta) /\ d.meta[k] \in Meta
  BY <1>1 DEF IsDB, IsBucket
<1>5. [d.meta[k] EXCEPT !.locked = locked] \in Meta
  BY <1>4 DEF Meta
<1>6. /\ DOMAIN e.meta = DOMAIN d.meta
      /\ e.meta[k] = [d.meta[k] EXCEPT !.locked = locked]
      /\ \A x \in DOMAIN d.meta : x # k => e.meta[x] = d.meta[x]
  BY <1>1, <1>2
<1>7. IsBucket(e.meta, Keys, Meta)
  <2>1. e.meta = [x \in DOMAIN e.meta |-> e.meta[x]]
    BY <1>2
  <2> QED BY <1>4, <1>5, <1>6, <2>1 DEF IsBucket
<1>8. IsDB(e)
  BY <1>1, <1>2, <1>3, <1>4, <1>6, <1>7 DEF IsDB
<1>9. /\ e.meta[k].version = d.meta[k].version
      /\ e.meta[k].revision = d.meta[k].revision
      /\ e.meta[k].createRevision = d.meta[k].createRevision
      /\ e.meta[k].locked = locked
  BY <1>4, <1>6 DEF Meta
<1>10. SameContent(d, e)
  BY <1>2, <1>6, <1>9 DEF SameContent
<1>11. DBInv(e)
  BY <1>8, <1>10, SameContentInv
<1>12. ToggledLock(d, k, LockType(locked), e)
  <2>1. d.lockSeq \in Nat
    BY <1>1 DEF IsDB
  <2>2. k[2] # 0
    BY KeysAssumption
  <2>3. subjectLocked(e, k) <=> LockType(locked) = "locked"
    BY <1>1, <1>6, <1>9, <2>2 DEF subjectLocked, isLocked, LockType
  <2>4. subjectLocked(d, k) <=> LockType(locked) # "locked"
    <3>1. d.meta[k].locked \in BOOLEAN
      BY <1>4 DEF Meta
    <3> QED BY <1>1, <2>2, <3>1 DEF subjectLocked, isLocked, LockType
  <2>5. \A x \in Subjects \ {k} : subjectLocked(e, x) <=> subjectLocked(d, x)
    BY <1>2, <1>6 DEF subjectLocked, isLocked, isNamespaceLocked
  <2> QED BY <1>1, <1>2, <1>3, <2>1, <2>3, <2>4, <2>5 DEF ToggledLock
<1>13. LockInv(e)
  BY <1>1, <1>12, ToggleLockInv DEF IsDB
<1>14. Relocks(d, e)
  <2>1. locked => lockedKeys(e) = lockedKeys(d) \cup {k} /\ k \notin lockedKeys(d)
    BY <1>1, <1>6, <1>9 DEF lockedKeys
  <2>2. ~locked => lockedKeys(e) = lockedKeys(d) \ {k} /\ k \in lockedKeys(d)
    <3>1. d.meta[k].locked \in BOOLEAN
      BY <1>4 DEF Meta
    <3> QED BY <1>1, <1>6, <1>9, <3>1 DEF lockedKeys
  <2>3. \A x \in DOMAIN d.meta : isNamespaceLocked(d, x[1]) => e.meta[x] = d.meta[x]
    BY <1>6 DEF canToggleConfigLock
  <2>4. /\ e.lockSeq >= d.lockSeq
        /\ IsRestriction(d.lockHistory, e.lockHistory)
        /\ IsRestriction(d.lockChangelog, e.lockChangelog)
    BY <1>12, ToggleAppends
  <2> QED BY <1>1, <1>10, <2>1, <2>2, <2>3, <2>4 DEF Relocks
<1> QED BY <1>11, <1>13, <1>14 DEF e

\* Locking or unlocking a namespace (toggleLock, writeLockEvent).
LEMMA ToggleNamespaceStep ==
  ASSUME NEW d, DBInv(d), LockInv(d), NEW n \in Namespaces, NEW locked \in BOOLEAN,
         canToggleNamespaceLock(d, n, locked)
  PROVE  /\ DBInv(toggleNamespaceLock(d, n, locked))
         /\ LockInv(toggleNamespaceLock(d, n, locked))
         /\ Relocks(d, toggleNamespaceLock(d, n, locked))
<1> DEFINE e == toggleNamespaceLock(d, n, locked)
           s == <<n, 0>>
<1>1. /\ IsDB(d) /\ s \in Subjects
      /\ n \in DOMAIN d.namespaces /\ d.namespaces[n].locked # locked
  BY DEF DBInv, Subjects, canToggleNamespaceLock
<1>2. /\ DOMAIN e = DOMAIN EmptyDB
      /\ e.rev = d.rev /\ e.content = d.content /\ e.history = d.history
      /\ e.changelog = d.changelog /\ e.asOf = d.asOf
      /\ e.meta = d.meta
      /\ e.namespaces = [d.namespaces EXCEPT ![n].locked = locked]
      /\ e.lockSeq = d.lockSeq + 1
      /\ e.lockHistory = Put(d.lockHistory, <<s, d.lockSeq + 1>>, LockType(locked))
      /\ e.lockChangelog = Put(d.lockChangelog, d.lockSeq + 1,
                               [type |-> LockType(locked), subject |-> s])
  BY <1>1, ToggleNamespaceFields
<1>3. /\ d.lockSeq + 1 \in Nat
      /\ LockType(locked) \in LockTypes
      /\ IsBucket(e.lockHistory, Subjects \X Nat, LockTypes)
      /\ IsBucket(e.lockChangelog, Nat, LockEntry)
  <2> HIDE DEF e, s
  <2>1. /\ d.lockSeq + 1 \in Nat
        /\ LockType(locked) \in LockTypes
        /\ IsBucket(Put(d.lockHistory, <<s, d.lockSeq + 1>>, LockType(locked)),
                    Subjects \X Nat, LockTypes)
        /\ IsBucket(Put(d.lockChangelog, d.lockSeq + 1,
                        [type |-> LockType(locked), subject |-> s]), Nat, LockEntry)
    BY ONLY <1>1, LockBuckets
  <2> QED BY <1>2, <2>1
<1> HIDE DEF e
<1>4. IsBucket(d.namespaces, Namespaces, NamespaceMeta) /\ d.namespaces[n] \in NamespaceMeta
  BY <1>1 DEF IsDB, IsBucket
<1>5. [d.namespaces[n] EXCEPT !.locked = locked] \in NamespaceMeta
  BY <1>4 DEF NamespaceMeta
<1>6. /\ DOMAIN e.namespaces = DOMAIN d.namespaces
      /\ e.namespaces[n] = [d.namespaces[n] EXCEPT !.locked = locked]
      /\ \A x \in DOMAIN d.namespaces : x # n => e.namespaces[x] = d.namespaces[x]
  BY <1>1, <1>2
<1>7. IsBucket(e.namespaces, Namespaces, NamespaceMeta)
  <2>1. e.namespaces = [x \in DOMAIN e.namespaces |-> e.namespaces[x]]
    BY <1>2
  <2> QED BY <1>4, <1>5, <1>6, <2>1 DEF IsBucket
<1>8. IsDB(e)
  BY <1>1, <1>2, <1>3, <1>7 DEF IsDB
<1>9. SameContent(d, e)
  BY <1>2 DEF SameContent
<1>10. DBInv(e)
  BY <1>8, <1>9, SameContentInv
<1>11. ToggledLock(d, s, LockType(locked), e)
  <2>1. d.lockSeq \in Nat
    BY <1>1 DEF IsDB
  <2>2. e.namespaces[n].locked = locked
    BY <1>4, <1>6 DEF NamespaceMeta
  <2>3. subjectLocked(e, s) <=> LockType(locked) = "locked"
    BY <1>1, <1>6, <2>2 DEF subjectLocked, isNamespaceLocked, LockType
  <2>4. subjectLocked(d, s) <=> LockType(locked) # "locked"
    <3>1. d.namespaces[n].locked \in BOOLEAN
      BY <1>4 DEF NamespaceMeta
    <3> QED BY <1>1, <3>1 DEF subjectLocked, isNamespaceLocked, LockType
  <2>5. ASSUME NEW x \in Subjects \ {s}
        PROVE  subjectLocked(e, x) <=> subjectLocked(d, x)
    <3>1. x[2] = 0 => x[1] # n
      BY KeysAssumption DEF Subjects
    <3> QED BY <1>2, <1>6, <3>1 DEF subjectLocked, isLocked, isNamespaceLocked
  <2> QED BY <1>1, <1>2, <1>3, <2>1, <2>3, <2>4, <2>5 DEF ToggledLock
<1>12. LockInv(e)
  BY <1>1, <1>11, ToggleLockInv DEF IsDB
<1>13. Relocks(d, e)
  <2>1. lockedKeys(e) = lockedKeys(d)
    BY <1>2 DEF lockedKeys
  <2>2. /\ e.lockSeq >= d.lockSeq
        /\ IsRestriction(d.lockHistory, e.lockHistory)
        /\ IsRestriction(d.lockChangelog, e.lockChangelog)
    <3> HIDE DEF s
    <3> QED BY <1>11, ToggleAppends
  <2> QED BY <1>2, <1>9, <2>1, <2>2 DEF Relocks
<1> QED BY <1>10, <1>12, <1>13 DEF e

\* Creating, describing or deleting an unlocked namespace: e differs from d in
\* its namespaces only, and the same ones are locked.
NamespaceChanged(d, e) ==
  /\ DOMAIN e = DOMAIN EmptyDB
  /\ e.rev = d.rev /\ e.content = d.content /\ e.history = d.history
  /\ e.changelog = d.changelog /\ e.asOf = d.asOf
  /\ e.meta = d.meta
  /\ e.lockSeq = d.lockSeq
  /\ e.lockHistory = d.lockHistory
  /\ e.lockChangelog = d.lockChangelog
  /\ IsBucket(e.namespaces, Namespaces, NamespaceMeta)
  /\ \A x : isNamespaceLocked(e, x) <=> isNamespaceLocked(d, x)

\* Such a change keeps the buckets and the audit trail right.
LEMMA NamespaceChangeInv ==
  ASSUME NEW d, DBInv(d), LockInv(d), NEW e, NamespaceChanged(d, e)
  PROVE  DBInv(e) /\ LockInv(e) /\ Relocks(d, e)
<1>1. IsDB(e)
  BY DEF DBInv, IsDB, NamespaceChanged
<1>2. SameContent(d, e)
  BY DEF SameContent, NamespaceChanged
<1>3. DBInv(e)
  BY <1>1, <1>2, SameContentInv
<1>4. \A s : subjectLocked(e, s) <=> subjectLocked(d, s)
  BY DEF subjectLocked, isLocked, NamespaceChanged
<1>5. \A s : lockRevisions(e, s) = lockRevisions(d, s)
  BY DEF lockRevisions, NamespaceChanged
<1>6. LockAuditCurrent(e)
  BY <1>4, <1>5 DEF LockInv, LockAuditCurrent, NamespaceChanged
<1>7. LockAuditAlternates(e)
  BY <1>5 DEF LockInv, LockAuditAlternates, NamespaceChanged
<1>8. Relocks(d, e)
  <2>1. lockedKeys(e) = lockedKeys(d)
    BY DEF lockedKeys, NamespaceChanged
  <2>2. e.lockSeq >= d.lockSeq
    BY DEF DBInv, IsDB, NamespaceChanged
  <2> QED BY <1>2, <2>1, <2>2 DEF Relocks, NamespaceChanged, IsRestriction
<1> QED BY <1>3, <1>6, <1>7, <1>8 DEF LockInv

\* Namespace repository Create.
LEMMA CreateNamespaceStep ==
  ASSUME NEW d, DBInv(d), LockInv(d), NEW n \in Namespaces, NEW desc \in Descriptions,
         n \notin DOMAIN d.namespaces
  PROVE  /\ DBInv(createNamespace(d, n, desc))
         /\ LockInv(createNamespace(d, n, desc))
         /\ Relocks(d, createNamespace(d, n, desc))
<1> DEFINE e == createNamespace(d, n, desc)
           v == [locked |-> FALSE, description |-> desc]
<1>1. IsDB(d) /\ IsBucket(d.namespaces, Namespaces, NamespaceMeta)
  BY DEF DBInv, IsDB
<1>2. e.namespaces = Put(d.namespaces, n, v)
  BY <1>1 DEF createNamespace, IsDB, EmptyDB
<1>3. v \in NamespaceMeta /\ ~v.locked
  BY DEF NamespaceMeta
<1>4. /\ IsBucket(e.namespaces, Namespaces, NamespaceMeta)
      /\ DOMAIN e.namespaces = DOMAIN d.namespaces \cup {n}
      /\ ~e.namespaces[n].locked
      /\ \A x \in DOMAIN d.namespaces : e.namespaces[x] = d.namespaces[x]
  <2> HIDE DEF e, v
  <2>1. /\ IsBucket(e.namespaces, Namespaces, NamespaceMeta)
        /\ DOMAIN e.namespaces = DOMAIN d.namespaces \cup {n}
        /\ e.namespaces[n] = v
        /\ \A x \in DOMAIN d.namespaces : x # n => e.namespaces[x] = d.namespaces[x]
    BY <1>1, <1>2, <1>3 DEF IsBucket, Put
  <2> QED BY <1>3, <2>1
<1>5. \A x : isNamespaceLocked(e, x) <=> isNamespaceLocked(d, x)
  <2> HIDE DEF e
  <2> QED BY <1>4 DEF isNamespaceLocked
<1>6. NamespaceChanged(d, e)
  BY <1>1, <1>4, <1>5 DEF NamespaceChanged, createNamespace, IsDB, EmptyDB
<1> QED BY <1>6, NamespaceChangeInv

\* Namespace repository Update.
LEMMA UpdateNamespaceStep ==
  ASSUME NEW d, DBInv(d), LockInv(d), NEW n \in Namespaces, NEW desc \in Descriptions,
         canUpdateNamespace(d, n)
  PROVE  /\ DBInv(updateNamespace(d, n, desc))
         /\ LockInv(updateNamespace(d, n, desc))
         /\ Relocks(d, updateNamespace(d, n, desc))
<1> DEFINE e == updateNamespace(d, n, desc)
           v == [d.namespaces[n] EXCEPT !.description = desc]
<1>1. /\ IsDB(d) /\ IsBucket(d.namespaces, Namespaces, NamespaceMeta)
      /\ n \in DOMAIN d.namespaces /\ ~d.namespaces[n].locked
  BY DEF DBInv, IsDB, canUpdateNamespace
<1>2. e.namespaces = [d.namespaces EXCEPT ![n].description = desc]
  BY <1>1 DEF updateNamespace, IsDB, EmptyDB
<1>3. v \in NamespaceMeta /\ v.locked = d.namespaces[n].locked
  BY <1>1 DEF IsBucket, NamespaceMeta
<1>4. /\ DOMAIN e.namespaces = DOMAIN d.namespaces
      /\ e.namespaces[n] = v
      /\ \A x \in DOMAIN d.namespaces : x # n => e.namespaces[x] = d.namespaces[x]
      /\ e.namespaces = [x \in DOMAIN e.namespaces |-> e.namespaces[x]]
  <2> HIDE DEF e
  <2> QED BY <1>1, <1>2
<1>5. IsBucket(e.namespaces, Namespaces, NamespaceMeta)
  <2> HIDE DEF e, v
  <2> QED BY <1>1, <1>3, <1>4 DEF IsBucket
<1>6. \A x : isNamespaceLocked(e, x) <=> isNamespaceLocked(d, x)
  <2> HIDE DEF e, v
  <2> QED BY <1>1, <1>3, <1>4 DEF isNamespaceLocked
<1>7. NamespaceChanged(d, e)
  BY <1>1, <1>5, <1>6 DEF NamespaceChanged, updateNamespace, IsDB, EmptyDB
<1> QED BY <1>7, NamespaceChangeInv

\* Namespace repository Delete.
LEMMA DeleteNamespaceStep ==
  ASSUME NEW d, DBInv(d), LockInv(d), NEW n \in Namespaces, canDeleteNamespace(d, n)
  PROVE  /\ DBInv(deleteNamespace(d, n))
         /\ LockInv(deleteNamespace(d, n))
         /\ Relocks(d, deleteNamespace(d, n))
<1> DEFINE e == deleteNamespace(d, n)
<1>1. /\ IsDB(d) /\ IsBucket(d.namespaces, Namespaces, NamespaceMeta)
      /\ n \in DOMAIN d.namespaces /\ ~d.namespaces[n].locked
  BY DEF DBInv, IsDB, canDeleteNamespace
<1>2. e.namespaces = Remove(d.namespaces, {n})
  BY <1>1 DEF deleteNamespace, IsDB, EmptyDB
<1>3. /\ IsBucket(e.namespaces, Namespaces, NamespaceMeta)
      /\ DOMAIN e.namespaces = DOMAIN d.namespaces \ {n}
      /\ \A x \in DOMAIN d.namespaces \ {n} : e.namespaces[x] = d.namespaces[x]
  <2> HIDE DEF e
  <2> QED BY <1>1, <1>2 DEF Remove, Restrict, IsBucket
<1>4. \A x : isNamespaceLocked(e, x) <=> isNamespaceLocked(d, x)
  <2> HIDE DEF e
  <2> QED BY <1>1, <1>3 DEF isNamespaceLocked
<1>5. NamespaceChanged(d, e)
  BY <1>1, <1>3, <1>4 DEF NamespaceChanged, deleteNamespace, IsDB, EmptyDB
<1> QED BY <1>5, NamespaceChangeInv

\* The empty database is consistent.
LEMMA EmptyInv == DBInv(EmptyDB) /\ LockInv(EmptyDB)
<1>1. /\ EmptyDB.rev = 0 /\ EmptyDB.lockSeq = 0
      /\ EmptyDB.content = Empty /\ EmptyDB.meta = Empty /\ EmptyDB.history = Empty
      /\ EmptyDB.changelog = Empty /\ EmptyDB.namespaces = Empty
      /\ EmptyDB.lockHistory = Empty /\ EmptyDB.lockChangelog = Empty
      /\ EmptyDB.asOf = [r \in {0} |-> Empty]
  BY DEF EmptyDB
<1>2. DOMAIN Empty = {} /\ Empty = [x \in DOMAIN Empty |-> Empty[x]]
  BY DEF Empty
<1>3. \A K, V : IsBucket(Empty, K, V)
  BY <1>2 DEF IsBucket
<1>4. 0 .. 0 = {0} /\ 1 .. 0 = {}
  OBVIOUS
<1>5. IsDB(EmptyDB)
  <2>1. IsFiniteSet(DOMAIN EmptyDB.meta)
    BY <1>1, <1>2, FS_EmptySet
  <2>2. EmptyDB.asOf = [r \in 0 .. EmptyDB.rev |-> EmptyDB.asOf[r]]
    BY <1>1, <1>4
  <2>3. \A r \in 0 .. EmptyDB.rev : IsBucket(EmptyDB.asOf[r], Keys, Contents)
    BY <1>1, <1>3, <1>4
  <2> QED BY <1>1, <1>3, <2>1, <2>2, <2>3 DEF IsDB
<1>6. ChangelogGapless(EmptyDB)
  BY <1>1, <1>2, <1>4 DEF ChangelogGapless
<1>7. LiveConfigAgrees(EmptyDB)
  BY <1>1, <1>2 DEF LiveConfigAgrees
<1>8. HistoryMatchesChangelog(EmptyDB)
  BY <1>1, <1>4 DEF HistoryMatchesChangelog
<1>9. VersionCountsWrites(EmptyDB)
  BY <1>1, <1>2 DEF VersionCountsWrites
<1>10. PastEndsNow(EmptyDB)
  BY <1>1, <1>2 DEF PastEndsNow
<1>11. PastReads(EmptyDB)
  BY <1>1, <1>2, <1>4 DEF PastReads
<1>12. \A s : lockRevisions(EmptyDB, s) = {} /\ ~subjectLocked(EmptyDB, s)
  BY <1>1, <1>2, <1>4 DEF lockRevisions, subjectLocked, isLocked, isNamespaceLocked
<1>13. LockAuditCurrent(EmptyDB)
  BY <1>1, <1>2, <1>4, <1>12 DEF LockAuditCurrent
<1>14. LockAuditAlternates(EmptyDB)
  BY <1>1, <1>2, <1>4, <1>12 DEF LockAuditAlternates
<1> QED BY <1>5, <1>6, <1>7, <1>8, <1>9, <1>10, <1>11, <1>13, <1>14 DEF DBInv, LockInv
=============================================================================
