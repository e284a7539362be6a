-------------------------- MODULE ConfigRepoProofs --------------------------
(***************************************************************************)
(* Every repository call preserves the invariant of ConfigRepoInv.  The    *)
(* calls come down to four shapes: writing one config entry, removing a    *)
(* set of keys, changing namespaces and locks, and appending a lock event; *)
(* there is one lemma per shape and conjunct.                              *)
(***************************************************************************)
EXTENDS ConfigRepoInv, MaxTheorems

-----------------------------------------------------------------------------
(* Buckets.                                                                *)

\* The last target of a range delete is one of its targets.
LEMMA LastKeyMember ==
  ASSUME NEW S \in SUBSET Keys, IsFiniteSet(S), S # {}
  PROVE  lastKey(S) \in S
<1> DEFINE R == {p \in (Nat \X Nat) \X (Nat \X Nat) : KeyLess(p[1], p[2])}
<1>1. /\ \A x, y, z : <<x, y>> \in R /\ <<y, z>> \in R => <<x, z>> \in R
      /\ \A x : <<x, x>> \notin R
  BY DEF KeyLess
<1>2. S \subseteq Nat \X Nat
  BY KeysAssumption
<1>3. \A x, y \in Nat \X Nat : KeyLess(x, y) => <<x, y>> \in R
  OBVIOUS
<1> HIDE DEF R
<1>4. PICK m \in S : \A y \in S : <<m, y>> \notin R
  BY <1>1, MaximalElement
<1>5. \A y \in S : ~KeyLess(m, y)
  BY <1>2, <1>3, <1>4
<1> QED BY <1>5 DEF lastKey

\* b.Put adds one typed entry and keeps the others.
LEMMA PutBucket ==
  ASSUME NEW b, NEW K, NEW V, IsBucket(b, K, V), NEW k \in K, NEW v \in V
  PROVE  /\ IsBucket(Put(b, k, v), K, V)
         /\ DOMAIN Put(b, k, v) = DOMAIN b \cup {k}
         /\ Put(b, k, v)[k] = v
         /\ \A x \in DOMAIN b : x # k => Put(b, k, v)[x] = b[x]
BY DEF IsBucket, Put

\* b.Delete of a set of keys keeps the other entries.
LEMMA RemoveBucket ==
  ASSUME NEW b, NEW K, NEW V, IsBucket(b, K, V), NEW S
  PROVE  /\ IsBucket(Remove(b, S), K, V)
         /\ DOMAIN Remove(b, S) = DOMAIN b \ S
         /\ \A x \in DOMAIN b \ S : Remove(b, S)[x] = b[x]
BY DEF IsBucket, Remove, Restrict

\* The fields of a database after one config entry was written.
LEMMA WriteFields ==
  ASSUME NEW d, IsDB(d), NEW k, NEW m, NEW c, NEW t,
         NEW e, e = writeConfigEntry(d, k, m, c, t)
  PROVE  /\ DOMAIN e = DOMAIN EmptyDB
         /\ e.rev = m.revision
         /\ e.content = Put(d.content, k, c)
         /\ e.meta = Put(d.meta, k, m)
         /\ e.history = Put(d.history, <<k, m.revision>>, c)
         /\ e.changelog = Put(d.changelog, m.revision,
                              [type |-> t, key |-> k, version |-> m.version])
         /\ e.asOf = Put(d.asOf, m.revision, Put(d.content, k, c))
         /\ e.namespaces = d.namespaces /\ e.lockSeq = d.lockSeq
         /\ e.lockHistory = d.lockHistory /\ e.lockChangelog = d.lockChangelog
BY DEF writeConfigEntry, IsDB, EmptyDB

\* The fields of a database after some keys were removed.
LEMMA RemoveFields ==
  ASSUME NEW d, IsDB(d), NEW S, NEW j, NEW e, e = removeKeys(d, S, j)
  PROVE  /\ DOMAIN e = DOMAIN EmptyDB
         /\ e.rev = d.rev + 1
         /\ e.content = Remove(d.content, S)
         /\ e.meta = Remove(d.meta, S)
         /\ e.history = d.history
         /\ e.changelog = Put(d.changelog, d.rev + 1,
                              [type |-> "deleted", key |-> j, version |-> 0])
         /\ e.asOf = Put(d.asOf, d.rev + 1, Remove(d.content, S))
         /\ e.namespaces = d.namespaces /\ e.lockSeq = d.lockSeq
         /\ e.lockHistory = d.lockHistory /\ e.lockChangelog = d.lockChangelog
BY DEF removeKeys, nextRevision, IsDB, EmptyDB

-----------------------------------------------------------------------------
(* Writing one config entry.                                               *)

\* m is what a write of k may store: a fresh meta of a new key, or the
\* bumped one of a live key.
NextMeta(d, k, m) ==
  /\ m \in Meta
  /\ m.revision = d.rev + 1
  /\ \/ k \notin DOMAIN d.meta /\ m.version = 1 /\ m.createRevision = d.rev + 1
     \/ /\ k \in DOMAIN d.meta
        /\ m.version = d.meta[k].version + 1
        /\ m.createRevision = d.meta[k].createRevision

\* e is d after a write of c to k with meta m.
WroteEntry(d, k, m, c, t, e) ==
  /\ DBInv(d)
  /\ k \in Keys
  /\ c \in Contents
  /\ t \in {"created", "updated"}
  /\ NextMeta(d, k, m)
  /\ e = writeConfigEntry(d, k, m, c, t)

\* The write, field by field.
WriteEffect(d, k, m, c, t, e) ==
  /\ d.rev \in Nat /\ e.rev = d.rev + 1
  /\ DOMAIN e.content = DOMAIN d.content \cup {k}
  /\ e.content[k] = c
  /\ \A j \in DOMAIN d.content : j # k => e.content[j] = d.content[j]
  /\ DOMAIN e.meta = DOMAIN d.meta \cup {k}
  /\ e.meta[k] = m
  /\ \A j \in DOMAIN d.meta : j # k => e.meta[j] = d.meta[j]
  /\ DOMAIN e.history = DOMAIN d.history \cup {<<k, d.rev + 1>>}
  /\ e.history[<<k, d.rev + 1>>] = c
  /\ \A x \in DOMAIN d.history : x # <<k, d.rev + 1>> => e.history[x] = d.history[x]
  /\ DOMAIN e.changelog = DOMAIN d.changelog \cup {d.rev + 1}
  /\ e.changelog[d.rev + 1] = [type |-> t, key |-> k, version |-> m.version]
  /\ \A r \in DOMAIN d.changelog : r # d.rev + 1 => e.changelog[r] = d.changelog[r]
  /\ DOMAIN e.asOf = 0 .. d.rev + 1
  /\ e.asOf[d.rev + 1] = e.content
  /\ \A r \in 0 .. d.rev : e.asOf[r] = d.asOf[r]

\* What one write does to each bucket, entry by entry.
LEMMA WriteFacts ==
  ASSUME NEW d, NEW k, NEW m, NEW c, NEW t, NEW e, WroteEntry(d, k, m, c, t, e)
  PROVE  WriteEffect(d, k, m, c, t, e)
<1>1. IsDB(d) /\ m.revision = d.rev + 1 /\ e = writeConfigEntry(d, k, m, c, t)
  BY DEF WroteEntry, DBInv, NextMeta
<1>2. d.rev \in Nat /\ DOMAIN d.asOf = 0 .. d.rev
  BY <1>1 DEF IsDB
<1>3. /\ e.rev = d.rev + 1
      /\ e.content = Put(d.content, k, c)
      /\ e.meta = Put(d.meta, k, m)
      /\ e.history = Put(d.history, <<k, d.rev + 1>>, c)
      /\ e.changelog = Put(d.changelog, d.rev + 1,
                           [type |-> t, key |-> k, version |-> m.version])
      /\ e.asOf = Put(d.asOf, d.rev + 1, e.content)
  BY <1>1, WriteFields
<1> QED BY <1>2, <1>3 DEF Put, WriteEffect

\* A write keeps the types of the buckets.
LEMMA WriteIsDB ==
  ASSUME NEW d, NEW k, NEW m, NEW c, NEW t, NEW e, WroteEntry(d, k, m, c, t, e)
  PROVE  IsDB(e)
<1>1. IsDB(d) /\ k \in Keys /\ c \in Contents /\ m \in Meta /\ m.revision = d.rev + 1
  BY DEF WroteEntry, DBInv, NextMeta
<1>2. d.rev \in Nat /\ d.rev + 1 \in Nat
  BY <1>1 DEF IsDB
<1>3. /\ DOMAIN e = DOMAIN EmptyDB
      /\ e.rev = d.rev + 1
      /\ e.content = Put(d.content, k, c)
      /\ e.meta = Put(d.meta, k, m)
      /\ e.history = Put(d.history, <<k, d.rev + 1>>, c)
      /\ e.changelog = Put(d.changelog, d.rev + 1,
                           [type |-> t, key |-> k, version |-> m.version])
      /\ e.asOf = Put(d.asOf, d.rev + 1, e.content)
      /\ e.namespaces = d.namespaces /\ e.lockSeq = d.lockSeq
      /\ e.lockHistory = d.lockHistory /\ e.lockChangelog = d.lockChangelog
  BY <1>1, WriteFields DEF WroteEntry
<1>9. /\ IsBucket(d.content, Keys, Contents) /\ IsBucket(d.meta, Keys, Meta)
      /\ IsBucket(d.history, Keys \X Nat, Contents)
      /\ IsBucket(d.changelog, Nat, ChangelogEntry)
      /\ IsFiniteSet(DOMAIN d.meta)
  BY <1>1 DEF IsDB
<1>4. IsBucket(Put(d.content, k, c), Keys, Contents)
  BY <1>1, <1>9, PutBucket
<1>5. IsBucket(Put(d.meta, k, m), Keys, Meta) /\ IsFiniteSet(DOMAIN Put(d.meta, k, m))
  <2>1. IsBucket(Put(d.meta, k, m), Keys, Meta)
    BY <1>1, <1>9, PutBucket
  <2>2. DOMAIN Put(d.meta, k, m) = DOMAIN d.meta \cup {k}
    BY DEF Put
  <2>3. IsFiniteSet(DOMAIN d.meta \cup {k})
    BY <1>9, FS_AddElement
  <2> QED BY <2>1, <2>2, <2>3
<1>6. IsBucket(Put(d.history, <<k, d.rev + 1>>, c), Keys \X Nat, Contents)
  <2>1. <<k, d.rev + 1>> \in Keys \X Nat
    BY <1>1, <1>2
  <2> QED BY <1>1, <1>9, <2>1, PutBucket
<1> DEFINE entry == [type |-> t, key |-> k, version |-> m.version]
<1>7. IsBucket(Put(d.changelog, d.rev + 1, entry), Nat, ChangelogEntry)
  <2>1. entry \in ChangelogEntry
    BY <1>1 DEF ChangelogEntry, Meta, WroteEntry, WriteTypes
  <2> HIDE DEF entry
  <2> QED BY <1>9, <1>2, <2>1, PutBucket
<1>8. /\ e.asOf = [r \in 0 .. d.rev + 1 |-> e.asOf[r]]
      /\ \A r \in 0 .. d.rev + 1 : IsBucket(e.asOf[r], Keys, Contents)
  <2>1. /\ d.asOf = [r \in 0 .. d.rev |-> d.asOf[r]]
        /\ \A r \in 0 .. d.rev : IsBucket(d.asOf[r], Keys, Contents)
    BY <1>1 DEF IsDB
  <2>2. IsBucket(e.content, Keys, Contents)
    BY <1>3, <1>4
  <2>3. DOMAIN d.asOf = 0 .. d.rev /\ 0 .. d.rev + 1 = (0 .. d.rev) \cup {d.rev + 1}
    BY <1>2, <2>1
  <2>4. e.asOf = [r \in 0 .. d.rev + 1 |-> IF r = d.rev + 1 THEN e.content ELSE d.asOf[r]]
    BY <1>3, <2>3 DEF Put
  <2>5. e.asOf = [r \in 0 .. d.rev + 1 |-> e.asOf[r]]
    BY <2>4
  <2>6. \A r \in 0 .. d.rev + 1 : IsBucket(e.asOf[r], Keys, Contents)
    BY <2>1, <2>2, <2>3, <2>4
  <2> QED BY <2>5, <2>6
<1> QED BY <1>1, <1>2, <1>3, <1>4, <1>5, <1>6, <1>7, <1>8 DEF IsDB

\* A write keeps changelog, history, meta and content in agreement.
LEMMA WriteAgrees ==
  ASSUME NEW d, NEW k, NEW m, NEW c, NEW t, NEW e, WroteEntry(d, k, m, c, t, e)
  PROVE  ChangelogGapless(e) /\ LiveConfigAgrees(e) /\ HistoryMatchesChangelog(e)
<1>1. WriteEffect(d, k, m, c, t, e)
  BY WriteFacts
<1>2. /\ ChangelogGapless(d) /\ LiveConfigAgrees(d) /\ HistoryMatchesChangelog(d)
      /\ PastEndsNow(d) /\ k \in Keys /\ t \in {"created", "updated"} /\ NextMeta(d, k, m)
  BY DEF WroteEntry, DBInv
<1>3. ChangelogGapless(e)
  BY <1>1, <1>2 DEF ChangelogGapless, WriteEffect
<1>4. LiveConfigAgrees(e)
  <2>1. DOMAIN e.content = DOMAIN e.meta
    BY <1>1, <1>2 DEF LiveConfigAgrees, WriteEffect
  <2>2. ASSUME NEW j \in DOMAIN e.meta
        PROVE  /\ e.meta[j].createRevision \in 1 .. e.meta[j].revision
               /\ e.meta[j].revision \in 1 .. e.rev
               /\ <<j, e.meta[j].revision>> \in DOMAIN e.history
               /\ e.history[<<j, e.meta[j].revision>>] = e.content[j]
               /\ e.changelog[e.meta[j].revision].key = j
               /\ e.changelog[e.meta[j].revision].version = e.meta[j].version
               /\ \A r \in e.meta[j].revision + 1 .. e.rev : e.changelog[r].key # j
    <3>1. CASE j = k
      <4>1. e.meta[j] = m /\ m.revision = d.rev + 1 /\ e.rev = d.rev + 1 /\ d.rev \in Nat
        BY <1>1, <1>2, <3>1 DEF WriteEffect, NextMeta
      <4>2. m.createRevision \in 1 .. d.rev + 1
        <5>1. CASE k \in DOMAIN d.meta
          <6>1. d.meta[k].createRevision \in 1 .. d.meta[k].revision
            BY <1>2, <5>1 DEF LiveConfigAgrees
          <6>2. d.meta[k].revision \in 1 .. d.rev
            BY <1>2, <5>1 DEF LiveConfigAgrees
          <6>3. m.createRevision = d.meta[k].createRevision
            BY <1>2, <5>1 DEF NextMeta
          <6> QED BY <4>1, <6>1, <6>2, <6>3
        <5>2. CASE k \notin DOMAIN d.meta
          BY <1>2, <4>1, <5>2 DEF NextMeta
        <5> QED BY <5>1, <5>2
      <4> QED BY <1>1, <3>1, <4>1, <4>2 DEF WriteEffect
    <3>2. CASE j # k
      <4>1. /\ j \in DOMAIN d.meta /\ e.meta[j] = d.meta[j] /\ e.content[j] = d.content[j]
            /\ d.rev \in Nat /\ e.rev = d.rev + 1
        BY <1>1, <1>2, <3>2 DEF WriteEffect, LiveConfigAgrees
      <4>2. /\ d.meta[j].createRevision \in 1 .. d.meta[j].revision
            /\ d.meta[j].revision \in 1 .. d.rev
            /\ <<j, d.meta[j].revision>> \in DOMAIN d.history
            /\ d.history[<<j, d.meta[j].revision>>] = d.content[j]
            /\ d.changelog[d.meta[j].revision].key = j
            /\ d.changelog[d.meta[j].revision].version = d.meta[j].version
            /\ \A r \in d.meta[j].revision + 1 .. d.rev : d.changelog[r].key # j
        BY <1>2, <4>1 DEF LiveConfigAgrees
      <4>3. \A r \in 1 .. d.rev : e.changelog[r] = d.changelog[r]
        BY <1>1, <1>2 DEF WriteEffect, ChangelogGapless
      <4>4. <<j, d.meta[j].revision>> # <<k, d.rev + 1>>
        BY <3>2
      <4>5. \A r \in d.meta[j].revision + 1 .. d.rev + 1 : e.changelog[r].key # j
        <5>1. e.changelog[d.rev + 1].key = k
          BY <1>1 DEF WriteEffect
        <5> QED BY <3>2, <4>1, <4>2, <4>3, <5>1
      <4> QED BY <1>1, <4>1, <4>2, <4>3, <4>4, <4>5 DEF WriteEffect
    <3> QED BY <3>1, <3>2
  <2> QED BY <2>1, <2>2 DEF LiveConfigAgrees
<1>5. HistoryMatchesChangelog(e)
  <2> SUFFICES ASSUME NEW j \in Keys, NEW r \in 1 .. e.rev
               PROVE  <<j, r>> \in DOMAIN e.history <=>
                        e.changelog[r].key = j /\ e.changelog[r].type # "deleted"
    BY DEF HistoryMatchesChangelog
  <2>1. CASE r = d.rev + 1
    BY <1>1, <1>2, <2>1 DEF WriteEffect, PastEndsNow
  <2>2. CASE r \in 1 .. d.rev
    BY <1>1, <1>2, <2>2 DEF WriteEffect, ChangelogGapless, HistoryMatchesChangelog
  <2> QED BY <1>1, <2>1, <2>2 DEF WriteEffect
<1> QED BY <1>3, <1>4, <1>5

\* A write keeps versions equal to the number of writes: it adds one history
\* entry, of the written key, and one to that key's version.
LEMMA WriteVersions ==
  ASSUME NEW d, NEW k, NEW m, NEW c, NEW t, NEW e, WroteEntry(d, k, m, c, t, e)
  PROVE  VersionCountsWrites(e)
<1>1. WriteEffect(d, k, m, c, t, e) /\ NextMeta(d, k, m)
  BY WriteFacts DEF WroteEntry
<1>2. VersionCountsWrites(d) /\ LiveConfigAgrees(d) /\ PastEndsNow(d)
  BY DEF WroteEntry, DBInv
<1>3. d.rev \in Nat /\ e.rev = d.rev + 1
  BY <1>1 DEF WriteEffect
<1> DEFINE Writes(j, b, x) == {r \in b .. x.rev : <<j, r>> \in DOMAIN x.history}
<1>4. SUFFICES ASSUME NEW j \in DOMAIN e.meta
      PROVE  e.meta[j].version = Cardinality(Writes(j, e.meta[j].createRevision, e))
  BY DEF VersionCountsWrites
<1>5. ASSUME j \in DOMAIN d.meta
      PROVE  /\ d.meta[j].createRevision \in 1 .. d.rev
             /\ IsFiniteSet(Writes(j, d.meta[j].createRevision, d))
             /\ d.meta[j].version = Cardinality(Writes(j, d.meta[j].createRevision, d))
  <2>1. d.meta[j].createRevision \in 1 .. d.meta[j].revision
    BY <1>2, <1>5 DEF LiveConfigAgrees
  <2>2. d.meta[j].revision \in 1 .. d.rev
    BY <1>2, <1>5 DEF LiveConfigAgrees
  <2>3. d.meta[j].createRevision \in 1 .. d.rev
    BY <1>3, <2>1, <2>2
  <2>4. IsFiniteSet(d.meta[j].createRevision .. d.rev)
    BY <1>3, <2>3, FS_Interval
  <2>5. IsFiniteSet(Writes(j, d.meta[j].createRevision, d))
    BY <2>4, FS_Subset
  <2> QED BY <1>2, <1>5, <2>3, <2>5 DEF VersionCountsWrites
<1>6. CASE j = k /\ k \in DOMAIN d.meta
  <2> DEFINE W == Writes(k, d.meta[k].createRevision, d)
  <2>1. e.meta[j] = m /\ m.version = d.meta[k].version + 1
        /\ m.createRevision = d.meta[k].createRevision
    BY <1>1, <1>6 DEF WriteEffect, NextMeta
  <2>2. Writes(k, m.createRevision, e) = W \cup {d.rev + 1}
    BY <1>1, <1>3, <1>5, <1>6, <2>1 DEF WriteEffect
  <2>3. d.rev + 1 \notin W
    BY <1>3
  <2>4. IsFiniteSet(W) /\ d.meta[k].version = Cardinality(W)
    BY <1>5, <1>6
  <2>5. Cardinality(W \cup {d.rev + 1}) = Cardinality(W) + 1
    <3> HIDE DEF W
    <3> QED BY <2>3, <2>4, FS_AddElement
  <2> QED BY <1>6, <2>1, <2>2, <2>4, <2>5
<1>7. CASE j = k /\ k \notin DOMAIN d.meta
  <2>1. e.meta[j] = m /\ m.version = 1 /\ m.createRevision = d.rev + 1
    BY <1>1, <1>7 DEF WriteEffect, NextMeta
  <2>2. Writes(k, d.rev + 1, e) = {d.rev + 1}
    BY <1>1, <1>3 DEF WriteEffect
  <2>3. Cardinality({d.rev + 1}) = 1
    BY FS_Singleton
  <2> QED BY <1>7, <2>1, <2>2, <2>3
<1>8. CASE j # k
  <2>1. j \in DOMAIN d.meta /\ e.meta[j] = d.meta[j]
    BY <1>1, <1>8 DEF WriteEffect
  <2>2. <<j, d.rev + 1>> \notin DOMAIN e.history
    BY <1>1, <1>2, <1>3, <1>8 DEF WriteEffect, PastEndsNow
  <2>3. Writes(j, d.meta[j].createRevision, e) = Writes(j, d.meta[j].createRevision, d)
    <3>1. d.meta[j].createRevision \in 1 .. d.rev
      BY <1>5, <2>1
    <3>2. \A r : <<j, r>> \in DOMAIN e.history <=> <<j, r>> \in DOMAIN d.history
      BY <1>1, <1>8 DEF WriteEffect
    <3> QED BY <1>3, <2>2, <3>1, <3>2
  <2> QED BY <1>5, <2>1, <2>3
<1> QED BY <1>6, <1>7, <1>8

\* Writing k at the new revision leaves older lookups alone.
LEMMA WriteLookup ==
  ASSUME NEW d, NEW k, NEW m, NEW c, NEW t, NEW e, WroteEntry(d, k, m, c, t, e),
         NEW j \in Keys, NEW r \in 0 .. d.rev
  PROVE  lookupHistoryAtRevision(e, j, r) = lookupHistoryAtRevision(d, j, r)
<1>1. WriteEffect(d, k, m, c, t, e)
  BY WriteFacts
<1>2. historyRevisions(e, j, r) = historyRevisions(d, j, r)
  BY <1>1 DEF WriteEffect, historyRevisions
<1>3. CASE historyRevisions(d, j, r) = {}
  BY <1>2, <1>3 DEF lookupHistoryAtRevision
<1>4. CASE historyRevisions(d, j, r) # {}
  <2> DEFINE q == Max(historyRevisions(d, j, r))
  <2>1. historyRevisions(d, j, r) \in SUBSET (1 .. r) /\ r \in Nat
    BY <1>1 DEF historyRevisions, WriteEffect
  <2>2. q \in historyRevisions(d, j, r)
    BY <1>4, <2>1, MaxInterval
  <2>3. <<j, q>> \in DOMAIN d.history /\ q \in 1 .. r
    BY <2>2 DEF historyRevisions
  <2>4. <<j, q>> # <<k, d.rev + 1>>
    BY <1>1, <2>1, <2>3 DEF WriteEffect
  <2>5. e.history[<<j, q>>] = d.history[<<j, q>>]
    BY <1>1, <2>3, <2>4 DEF WriteEffect
  <2> QED BY <1>2, <1>4, <2>5 DEF lookupHistoryAtRevision
<1> QED BY <1>3, <1>4

\* The lookups of the history are right at every revision.
LookupsRight(d) ==
  \A r \in 0 .. d.rev : \A k \in DOMAIN d.asOf[r] :
    lookupHistoryAtRevision(d, k, r) = d.asOf[r][k]

\* Then so are the range reads, given how asOf ends.
LEMMA RangeReadsRight ==
  ASSUME NEW d, IsDB(d), LiveConfigAgrees(d), PastEndsNow(d), LookupsRight(d)
  PROVE  PastReads(d)
<1> SUFFICES ASSUME NEW r \in 0 .. d.rev, NEW k \in DOMAIN d.meta,
                    r >= d.meta[k].createRevision
             PROVE  k \in DOMAIN d.asOf[r] /\ readKVValue(d, k, r) = d.asOf[r][k]
  BY DEF PastReads, LookupsRight
<1>1. d.rev \in Nat
  BY DEF IsDB
<1>2. d.meta[k].createRevision \in 1 .. d.meta[k].revision
  BY DEF LiveConfigAgrees
<1>3. d.meta[k].revision \in 1 .. d.rev
  BY DEF LiveConfigAgrees
<1>4. k \in DOMAIN d.asOf[r]
  <2>1. r \in d.meta[k].createRevision .. d.rev
    BY <1>1, <1>2, <1>3
  <2> QED BY <2>1 DEF PastEndsNow
<1>5. CASE r < d.meta[k].revision
  BY <1>1, <1>2, <1>3, <1>4, <1>5 DEF readKVValue, LookupsRight
<1>6. CASE ~(r < d.meta[k].revision)
  <2>1. r \in d.meta[k].revision .. d.rev
    BY <1>1, <1>3, <1>6
  <2>2. d.asOf[r][k] = d.content[k]
    BY <2>1 DEF PastEndsNow
  <2> QED BY <1>4, <1>6, <2>2 DEF readKVValue
<1> QED BY <1>5, <1>6

\* A write keeps the past ending at the present, and reads of it right.
LEMMA WritePast ==
  ASSUME NEW d, NEW k, NEW m, NEW c, NEW t, NEW e, WroteEntry(d, k, m, c, t, e)
  PROVE  PastEndsNow(e) /\ LookupsRight(e)
<1>1. WriteEffect(d, k, m, c, t, e) /\ NextMeta(d, k, m) /\ k \in Keys
  BY WriteFacts DEF WroteEntry
<1>2. IsDB(d) /\ LiveConfigAgrees(d) /\ PastEndsNow(d) /\ PastReads(d)
  BY DEF WroteEntry, DBInv
<1>3. d.rev \in Nat /\ e.rev = d.rev + 1
  BY <1>1 DEF WriteEffect
<1>4. PastEndsNow(e)
  <2>1. DOMAIN e.history \subseteq Keys \X (1 .. e.rev)
    BY <1>1, <1>2, <1>3 DEF WriteEffect, PastEndsNow
  <2>2. e.asOf[e.rev] = e.content
    BY <1>1, <1>3 DEF WriteEffect
  <2>3. ASSUME NEW j \in DOMAIN e.meta
        PROVE  /\ \A r \in e.meta[j].createRevision .. e.rev : j \in DOMAIN e.asOf[r]
               /\ \A r \in e.meta[j].revision .. e.rev : e.asOf[r][j] = e.content[j]
    <3>1. j \in DOMAIN e.content
      BY <1>1, <1>2 DEF WriteEffect, LiveConfigAgrees
    <3>2. ASSUME j \in DOMAIN d.meta
          PROVE  /\ d.meta[j].createRevision \in Nat /\ d.meta[j].revision \in Nat
                 /\ \A r \in d.meta[j].createRevision .. d.rev : j \in DOMAIN d.asOf[r]
                 /\ \A r \in d.meta[j].revision .. d.rev : d.asOf[r][j] = d.content[j]
      BY <1>2, <3>2 DEF PastEndsNow, IsDB, IsBucket, Meta
    <3>3. e.asOf[d.rev + 1] = e.content /\ \A r \in 0 .. d.rev : e.asOf[r] = d.asOf[r]
      BY <1>1 DEF WriteEffect
    <3>4. ASSUME NEW q \in Nat, NEW r \in q .. e.rev
          PROVE  r = d.rev + 1 \/ (r \in q .. d.rev /\ r \in 0 .. d.rev)
      BY <1>3
    <3>5. CASE j = k /\ j \in DOMAIN d.meta
      <4>1. /\ e.meta[j].createRevision = d.meta[j].createRevision
            /\ e.meta[j].revision = d.rev + 1
        BY <1>1, <3>5 DEF WriteEffect, NextMeta
      <4>2. \A r \in e.meta[j].createRevision .. e.rev : j \in DOMAIN e.asOf[r]
        BY <3>1, <3>2, <3>5, <3>3, <3>4, <4>1
      <4> QED BY <1>3, <3>3, <4>1, <4>2
    <3>6. CASE j = k /\ j \notin DOMAIN d.meta
      <4>1. e.meta[j].createRevision = d.rev + 1 /\ e.meta[j].revision = d.rev + 1
        BY <1>1, <3>6 DEF WriteEffect, NextMeta
      <4> QED BY <1>3, <2>2, <3>1, <4>1
    <3>7. CASE j # k
      <4>1. j \in DOMAIN d.meta /\ e.meta[j] = d.meta[j] /\ e.content[j] = d.content[j]
        BY <1>1, <1>2, <3>7 DEF WriteEffect, LiveConfigAgrees
      <4>2. \A r \in e.meta[j].createRevision .. e.rev : j \in DOMAIN e.asOf[r]
        BY <3>1, <3>2, <3>3, <3>4, <4>1
      <4>3. \A r \in e.meta[j].revision .. e.rev : e.asOf[r][j] = e.content[j]
        BY <3>1, <3>2, <3>3, <3>4, <4>1
      <4> QED BY <4>2, <4>3
    <3> QED BY <3>5, <3>6, <3>7
  <2> QED BY <2>1, <2>2, <2>3 DEF PastEndsNow
<1>5. ASSUME NEW r \in 0 .. d.rev, NEW j \in DOMAIN e.asOf[r]
      PROVE  lookupHistoryAtRevision(e, j, r) = e.asOf[r][j]
  <2>1. e.asOf[r] = d.asOf[r]
    BY <1>1 DEF WriteEffect
  <2>2. j \in Keys
    BY <1>2, <2>1 DEF IsDB, IsBucket
  <2>3. lookupHistoryAtRevision(e, j, r) = lookupHistoryAtRevision(d, j, r)
    BY <2>2, WriteLookup
  <2> QED BY <1>2, <2>1, <2>3 DEF PastReads
<1>6. ASSUME NEW j \in DOMAIN e.content
      PROVE  lookupHistoryAtRevision(e, j, e.rev) = e.content[j]
  <2>1. CASE j = k
    <3>1. /\ d.rev + 1 \in historyRevisions(e, k, d.rev + 1)
          /\ historyRevisions(e, k, d.rev + 1) \in SUBSET (1 .. d.rev + 1)
      BY <1>1, <1>3 DEF WriteEffect, historyRevisions
    <3>2. Max(historyRevisions(e, k, d.rev + 1)) = d.rev + 1
      <4>1. d.rev + 1 \in Nat /\ \A x \in historyRevisions(e, k, d.rev + 1) : x <= d.rev + 1
        BY <1>3 DEF historyRevisions
      <4> QED BY <3>1, <4>1, MaxIs
    <3> QED BY <1>1, <1>3, <2>1, <3>1, <3>2 DEF WriteEffect, lookupHistoryAtRevision
  <2>2. CASE j # k
    <3>1. j \in DOMAIN d.content /\ j \in Keys /\ e.content[j] = d.content[j]
      BY <1>1, <1>2, <2>2 DEF WriteEffect, IsDB, IsBucket
    <3>2. historyRevisions(e, j, d.rev + 1) = historyRevisions(e, j, d.rev)
      BY <1>1, <1>2, <1>3, <2>2 DEF WriteEffect, historyRevisions, PastEndsNow
    <3>3. lookupHistoryAtRevision(e, j, d.rev + 1) = lookupHistoryAtRevision(e, j, d.rev)
      BY <3>2 DEF lookupHistoryAtRevision
    <3>4. lookupHistoryAtRevision(e, j, d.rev) = lookupHistoryAtRevision(d, j, d.rev)
      BY <1>3, <3>1, WriteLookup
    <3>5. lookupHistoryAtRevision(d, j, d.rev) = d.content[j]
      BY <1>2, <1>3, <3>1 DEF PastReads, PastEndsNow
    <3> QED BY <1>3, <3>1, <3>3, <3>4, <3>5
  <2> QED BY <2>1, <2>2
<1>7. LookupsRight(e)
  <2>1. e.asOf[e.rev] = e.content
    BY <1>4 DEF PastEndsNow
  <2> QED BY <1>3, <1>5, <1>6, <2>1 DEF LookupsRight
<1> QED BY <1>4, <1>7

\* Writing a config entry preserves the invariant.
LEMMA WriteInv ==
  ASSUME NEW d, NEW k, NEW m, NEW c, NEW t, NEW e, WroteEntry(d, k, m, c, t, e)
  PROVE  DBInv(e)
<1>1. IsDB(e)
  BY WriteIsDB
<1>2. ChangelogGapless(e) /\ LiveConfigAgrees(e) /\ HistoryMatchesChangelog(e)
  BY WriteAgrees
<1>3. VersionCountsWrites(e)
  BY WriteVersions
<1>4. PastEndsNow(e) /\ LookupsRight(e)
  BY WritePast
<1>5. PastReads(e)
  BY <1>1, <1>2, <1>4, RangeReadsRight
<1> QED BY <1>1, <1>2, <1>3, <1>4, <1>5 DEF DBInv

-----------------------------------------------------------------------------
(* Removing keys.                                                          *)

\* e is d after the keys of S were removed, j the one the changelog names.
RemovedKeys(d, S, j, e) ==
  /\ DBInv(d)
  /\ S \subseteq DOMAIN d.meta
  /\ j \in S
  /\ e = removeKeys(d, S, j)

\* The removal, field by field.
RemoveEffect(d, S, j, e) ==
  /\ d.rev \in Nat /\ e.rev = d.rev + 1
  /\ DOMAIN e.content = DOMAIN d.content \ S
  /\ \A k \in DOMAIN e.content : e.content[k] = d.content[k]
  /\ DOMAIN e.meta = DOMAIN d.meta \ S
  /\ \A k \in DOMAIN e.meta : e.meta[k] = d.meta[k]
  /\ e.history = d.history
  /\ DOMAIN e.changelog = DOMAIN d.changelog \cup {d.rev + 1}
  /\ e.changelog[d.rev + 1] = [type |-> "deleted", key |-> j, version |-> 0]
  /\ \A r \in DOMAIN d.changelog : r # d.rev + 1 => e.changelog[r] = d.changelog[r]
  /\ DOMAIN e.asOf = 0 .. d.rev + 1
  /\ e.asOf[d.rev + 1] = e.content
  /\ \A r \in 0 .. d.rev : e.asOf[r] = d.asOf[r]

\* What a removal does to each bucket, entry by entry.
LEMMA RemoveFacts ==
  ASSUME NEW d, NEW S, NEW j, NEW e, RemovedKeys(d, S, j, e)
  PROVE  RemoveEffect(d, S, j, e)
<1>1. IsDB(d) /\ e = removeKeys(d, S, j)
  BY DEF RemovedKeys, DBInv
<1>2. d.rev \in Nat /\ DOMAIN d.asOf = 0 .. d.rev
  BY <1>1 DEF IsDB
<1>3. /\ e.rev = d.rev + 1
      /\ e.content = Remove(d.content, S)
      /\ e.meta = Remove(d.meta, S)
      /\ e.history = d.history
      /\ e.changelog = Put(d.changelog, d.rev + 1,
                           [type |-> "deleted", key |-> j, version |-> 0])
      /\ e.asOf = Put(d.asOf, d.rev + 1, e.content)
  BY <1>1, RemoveFields
<1> QED BY <1>2, <1>3 DEF Put, Remove, Restrict, RemoveEffect

\* A removal keeps the types of the buckets.
LEMMA RemoveIsDB ==
  ASSUME NEW d, NEW S, NEW j, NEW e, RemovedKeys(d, S, j, e)
  PROVE  IsDB(e)
<1>1. IsDB(d) /\ j \in DOMAIN d.meta /\ e = removeKeys(d, S, j)
  BY DEF RemovedKeys, DBInv
<1>2. d.rev \in Nat /\ d.rev + 1 \in Nat
  BY <1>1 DEF IsDB
<1>3. /\ DOMAIN e = DOMAIN EmptyDB
      /\ e.rev = d.rev + 1
      /\ e.content = Remove(d.content, S)
      /\ e.meta = Remove(d.meta, S)
      /\ e.history = d.history
      /\ e.changelog = Put(d.changelog, d.rev + 1,
                           [type |-> "deleted", key |-> j, version |-> 0])
      /\ e.asOf = Put(d.asOf, d.rev + 1, e.content)
      /\ e.namespaces = d.namespaces /\ e.lockSeq = d.lockSeq
      /\ e.lockHistory = d.lockHistory /\ e.lockChangelog = d.lockChangelog
  BY <1>1, RemoveFields
<1>4. /\ IsBucket(d.content, Keys, Contents) /\ IsBucket(d.meta, Keys, Meta)
      /\ IsBucket(d.changelog, Nat, ChangelogEntry)
      /\ IsFiniteSet(DOMAIN d.meta)
  BY <1>1 DEF IsDB
<1>5. IsBucket(Remove(d.content, S), Keys, Contents)
  BY <1>4, RemoveBucket
<1>6. IsBucket(Remove(d.meta, S), Keys, Meta) /\ IsFiniteSet(DOMAIN Remove(d.meta, S))
  <2>1. IsBucket(Remove(d.meta, S), Keys, Meta)
    BY <1>4, RemoveBucket
  <2>2. DOMAIN Remove(d.meta, S) \in SUBSET (DOMAIN d.meta)
    BY DEF Remove, Restrict
  <2>3. IsFiniteSet(DOMAIN Remove(d.meta, S))
    BY <1>4, <2>2, FS_Subset
  <2> QED BY <2>1, <2>3
<1> DEFINE entry == [type |-> "deleted", key |-> j, version |-> 0]
<1>7. IsBucket(Put(d.changelog, d.rev + 1, entry), Nat, ChangelogEntry)
  <2>1. entry \in ChangelogEntry
    BY <1>1, <1>4 DEF ChangelogEntry, WriteTypes, IsBucket
  <2> HIDE DEF entry
  <2> QED BY <1>2, <1>4, <2>1, PutBucket
<1>8. /\ e.asOf = [r \in 0 .. d.rev + 1 |-> e.asOf[r]]
      /\ \A r \in 0 .. d.rev + 1 : IsBucket(e.asOf[r], Keys, Contents)
  <2>1. /\ d.asOf = [r \in 0 .. d.rev |-> d.asOf[r]]
        /\ \A r \in 0 .. d.rev : IsBucket(d.asOf[r], Keys, Contents)
    BY <1>1 DEF IsDB
  <2>2. IsBucket(e.content, Keys, Contents)
    BY <1>3, <1>5
  <2>3. DOMAIN d.asOf = 0 .. d.rev /\ 0 .. d.rev + 1 = (0 .. d.rev) \cup {d.rev + 1}
    BY <1>2, <2>1
  <2>4. e.asOf = [r \in 0 .. d.rev + 1 |-> IF r = d.rev + 1 THEN e.content ELSE d.asOf[r]]
    BY <1>3, <2>3 DEF Put
  <2>5. e.asOf = [r \in 0 .. d.rev + 1 |-> e.asOf[r]]
    BY <2>4
  <2>6. \A r \in 0 .. d.rev + 1 : IsBucket(e.asOf[r], Keys, Contents)
    BY <2>1, <2>2, <2>3, <2>4
  <2> QED BY <2>5, <2>6
<1> QED BY <1>1, <1>2, <1>3, <1>5, <1>6, <1>7, <1>8 DEF IsDB

\* A removal keeps changelog, history, meta and content in agreement.
LEMMA RemoveAgrees ==
  ASSUME NEW d, NEW S, NEW j, NEW e, RemovedKeys(d, S, j, e)
  PROVE  ChangelogGapless(e) /\ LiveConfigAgrees(e) /\ HistoryMatchesChangelog(e)
<1>1. RemoveEffect(d, S, j, e)
  BY RemoveFacts
<1>2. /\ ChangelogGapless(d) /\ LiveConfigAgrees(d) /\ HistoryMatchesChangelog(d)
      /\ PastEndsNow(d) /\ j \in S
  BY DEF RemovedKeys, DBInv
<1>3. ChangelogGapless(e)
  BY <1>1, <1>2 DEF ChangelogGapless, RemoveEffect
<1>4. \A r \in 1 .. d.rev : e.changelog[r] = d.changelog[r]
  BY <1>1, <1>2 DEF RemoveEffect, ChangelogGapless
<1>5. LiveConfigAgrees(e)
  <2>1. DOMAIN e.content = DOMAIN e.meta
    BY <1>1, <1>2 DEF LiveConfigAgrees, RemoveEffect
  <2>2. ASSUME NEW k \in DOMAIN e.meta
        PROVE  /\ e.meta[k].createRevision \in 1 .. e.meta[k].revision
               /\ e.meta[k].revision \in 1 .. e.rev
               /\ <<k, e.meta[k].revision>> \in DOMAIN e.history
               /\ e.history[<<k, e.meta[k].revision>>] = e.content[k]
               /\ e.changelog[e.meta[k].revision].key = k
               /\ e.changelog[e.meta[k].revision].version = e.meta[k].version
               /\ \A r \in e.meta[k].revision + 1 .. e.rev : e.changelog[r].key # k
    <3>1. /\ k \in DOMAIN d.meta /\ k # j /\ e.meta[k] = d.meta[k]
          /\ e.content[k] = d.content[k] /\ d.rev \in Nat /\ e.rev = d.rev + 1
      BY <1>1, <1>2 DEF RemoveEffect, LiveConfigAgrees
    <3>2. /\ d.meta[k].createRevision \in 1 .. d.meta[k].revision
          /\ d.meta[k].revision \in 1 .. d.rev
          /\ <<k, d.meta[k].revision>> \in DOMAIN d.history
          /\ d.history[<<k, d.meta[k].revision>>] = d.content[k]
          /\ d.changelog[d.meta[k].revision].key = k
          /\ d.changelog[d.meta[k].revision].version = d.meta[k].version
          /\ \A r \in d.meta[k].revision + 1 .. d.rev : d.changelog[r].key # k
      BY <1>2, <3>1 DEF LiveConfigAgrees
    <3>3. \A r \in d.meta[k].revision + 1 .. d.rev + 1 : e.changelog[r].key # k
      <4>1. e.changelog[d.rev + 1].key = j
        BY <1>1 DEF RemoveEffect
      <4> QED BY <1>4, <3>1, <3>2, <4>1
    <3> QED BY <1>1, <1>4, <3>1, <3>2, <3>3 DEF RemoveEffect
  <2> QED BY <2>1, <2>2 DEF LiveConfigAgrees
<1>6. HistoryMatchesChangelog(e)
  <2> SUFFICES ASSUME NEW k \in Keys, NEW r \in 1 .. e.rev
               PROVE  <<k, r>> \in DOMAIN e.history <=>
                        e.changelog[r].key = k /\ e.changelog[r].type # "deleted"
    BY DEF HistoryMatchesChangelog
  <2>1. CASE r = d.rev + 1
    BY <1>1, <1>2, <2>1 DEF RemoveEffect, PastEndsNow
  <2>2. CASE r \in 1 .. d.rev
    BY <1>1, <1>2, <1>4, <2>2 DEF RemoveEffect, HistoryMatchesChangelog
  <2> QED BY <1>1, <2>1, <2>2 DEF RemoveEffect
<1> QED BY <1>3, <1>5, <1>6

\* A removal leaves the versions of the other configs right: it adds no
\* history entry.
LEMMA RemoveVersions ==
  ASSUME NEW d, NEW S, NEW j, NEW e, RemovedKeys(d, S, j, e)
  PROVE  VersionCountsWrites(e)
<1>1. RemoveEffect(d, S, j, e)
  BY RemoveFacts
<1>2. VersionCountsWrites(d) /\ PastEndsNow(d) /\ IsDB(d)
  BY DEF RemovedKeys, DBInv
<1> SUFFICES ASSUME NEW k \in DOMAIN e.meta
             PROVE  e.meta[k].version =
                      Cardinality({r \in e.meta[k].createRevision .. e.rev :
                                     <<k, r>> \in DOMAIN e.history})
  BY DEF VersionCountsWrites
<1>3. k \in DOMAIN d.meta /\ e.meta[k] = d.meta[k] /\ d.rev \in Nat /\ e.rev = d.rev + 1
  BY <1>1 DEF RemoveEffect
<1>4. d.meta[k].createRevision \in Nat
  BY <1>2, <1>3 DEF IsDB, IsBucket, Meta
<1>5. {r \in d.meta[k].createRevision .. d.rev + 1 : <<k, r>> \in DOMAIN d.history}
        = {r \in d.meta[k].createRevision .. d.rev : <<k, r>> \in DOMAIN d.history}
  <2>1. <<k, d.rev + 1>> \notin DOMAIN d.history
    BY <1>2, <1>3 DEF PastEndsNow
  <2> QED BY <1>3, <1>4, <2>1
<1> QED BY <1>1, <1>2, <1>3, <1>5 DEF VersionCountsWrites, RemoveEffect

\* A removal keeps the past ending at the present, and reads of it right.
LEMMA RemovePast ==
  ASSUME NEW d, NEW S, NEW j, NEW e, RemovedKeys(d, S, j, e)
  PROVE  PastEndsNow(e) /\ LookupsRight(e)
<1>1. RemoveEffect(d, S, j, e)
  BY RemoveFacts
<1>2. IsDB(d) /\ LiveConfigAgrees(d) /\ PastEndsNow(d) /\ PastReads(d)
  BY DEF RemovedKeys, DBInv
<1>3. d.rev \in Nat /\ e.rev = d.rev + 1
  BY <1>1 DEF RemoveEffect
<1>4. e.asOf[d.rev + 1] = e.content /\ \A r \in 0 .. d.rev : e.asOf[r] = d.asOf[r]
  BY <1>1 DEF RemoveEffect
<1>5. PastEndsNow(e)
  <2>1. DOMAIN e.history \subseteq Keys \X (1 .. e.rev)
    BY <1>1, <1>2, <1>3 DEF RemoveEffect, PastEndsNow
  <2>2. ASSUME NEW k \in DOMAIN e.meta
        PROVE  /\ \A r \in e.meta[k].createRevision .. e.rev : k \in DOMAIN e.asOf[r]
               /\ \A r \in e.meta[k].revision .. e.rev : e.asOf[r][k] = e.content[k]
    <3>1. /\ k \in DOMAIN d.meta /\ e.meta[k] = d.meta[k]
          /\ k \in DOMAIN e.content /\ e.content[k] = d.content[k]
      BY <1>1, <1>2 DEF RemoveEffect, LiveConfigAgrees
    <3>2. /\ d.meta[k].createRevision \in Nat /\ d.meta[k].revision \in Nat
          /\ \A r \in d.meta[k].createRevision .. d.rev : k \in DOMAIN d.asOf[r]
          /\ \A r \in d.meta[k].revision .. d.rev : d.asOf[r][k] = d.content[k]
      BY <1>2, <3>1 DEF PastEndsNow, IsDB, IsBucket, Meta
    <3>3. ASSUME NEW q \in Nat, NEW r \in q .. e.rev
          PROVE  r = d.rev + 1 \/ (r \in q .. d.rev /\ r \in 0 .. d.rev)
      BY <1>3
    <3>4. \A r \in e.meta[k].createRevision .. e.rev : k \in DOMAIN e.asOf[r]
      BY <1>4, <3>1, <3>2, <3>3
    <3>5. \A r \in e.meta[k].revision .. e.rev : e.asOf[r][k] = e.content[k]
      BY <1>4, <3>1, <3>2, <3>3
    <3> QED BY <3>4, <3>5
  <2> QED BY <1>3, <1>4, <2>1, <2>2 DEF PastEndsNow
<1>6. \A k, r : lookupHistoryAtRevision(e, k, r) = lookupHistoryAtRevision(d, k, r)
  BY <1>1 DEF RemoveEffect, lookupHistoryAtRevision, historyRevisions
<1>7. ASSUME NEW k \in DOMAIN e.content
      PROVE  lookupHistoryAtRevision(e, k, d.rev + 1) = e.content[k]
  <2>1. k \in DOMAIN d.content /\ e.content[k] = d.content[k]
    BY <1>1 DEF RemoveEffect
  <2>2. historyRevisions(d, k, d.rev + 1) = historyRevisions(d, k, d.rev)
    BY <1>2, <1>3 DEF historyRevisions, PastEndsNow
  <2>3. lookupHistoryAtRevision(d, k, d.rev + 1) = lookupHistoryAtRevision(d, k, d.rev)
    BY <2>2 DEF lookupHistoryAtRevision
  <2>4. lookupHistoryAtRevision(d, k, d.rev) = d.content[k]
    BY <1>2, <1>3, <2>1 DEF PastReads, PastEndsNow
  <2> QED BY <1>6, <2>1, <2>3, <2>4
<1>8. LookupsRight(e)
  <2> SUFFICES ASSUME NEW r \in 0 .. e.rev, NEW k \in DOMAIN e.asOf[r]
               PROVE  lookupHistoryAtRevision(e, k, r) = e.asOf[r][k]
    BY DEF LookupsRight
  <2>1. CASE r = d.rev + 1
    BY <1>4, <1>7, <2>1
  <2>2. CASE r \in 0 .. d.rev
    BY <1>2, <1>4, <1>6, <2>2 DEF PastReads
  <2> QED BY <1>3, <2>1, <2>2
<1> QED BY <1>5, <1>8

\* Removing keys preserves the invariant.
LEMMA RemoveInv ==
  ASSUME NEW d, NEW S, NEW j, NEW e, RemovedKeys(d, S, j, e)
  PROVE  DBInv(e)
<1>1. IsDB(e)
  BY RemoveIsDB
<1>2. ChangelogGapless(e) /\ LiveConfigAgrees(e) /\ HistoryMatchesChangelog(e)
  BY RemoveAgrees
<1>3. VersionCountsWrites(e)
  BY RemoveVersions
<1>4. PastEndsNow(e) /\ LookupsRight(e)
  BY RemovePast
<1>5. PastReads(e)
  BY <1>1, <1>2, <1>4, RangeReadsRight
<1> QED BY <1>1, <1>2, <1>3, <1>4, <1>5 DEF DBInv

=============================================================================
