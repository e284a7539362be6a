-------------------------- MODULE ConfigRepoInv -----------------------------
(***************************************************************************)
(* What is true of a database that only repository calls have changed, and *)
(* how such calls may change one.  Every predicate is stated of one        *)
(* database d; ConfigStore requires them of the committed database and of  *)
(* the one an open transaction builds, and ConfigRepoProofs proves that    *)
(* every repository call preserves them.                                   *)
(***************************************************************************)
EXTENDS ConfigRepo

IsBucket(b, K, V) ==
  /\ b = [x \in DOMAIN b |-> b[x]]
  /\ DOMAIN b \subseteq K
  /\ \A x \in DOMAIN b : b[x] \in V

IsDB(d) ==
  /\ DOMAIN d = DOMAIN EmptyDB
  /\ d.rev \in Nat /\ d.lockSeq \in Nat
  /\ IsBucket(d.content, Keys, Contents)
  /\ IsBucket(d.meta, Keys, Meta) /\ IsFiniteSet(DOMAIN d.meta)
  /\ IsBucket(d.history, Keys \X Nat, Contents)
  /\ IsBucket(d.changelog, Nat, ChangelogEntry)
  /\ IsBucket(d.namespaces, Namespaces, NamespaceMeta)
  /\ IsBucket(d.lockHistory, Subjects \X Nat, LockTypes)
  /\ IsBucket(d.lockChangelog, Nat, LockEntry)
  /\ d.asOf = [r \in 0 .. d.rev |-> d.asOf[r]]
  /\ \A r \in 0 .. d.rev : IsBucket(d.asOf[r], Keys, Contents)

-----------------------------------------------------------------------------
(* Agreement of the buckets.                                               *)

\* The changelog has exactly one entry per revision, with no gap: replaying
\* it from any revision meets every revision after it.
ChangelogGapless(d) == DOMAIN d.changelog = 1 .. d.rev

\* The four buckets agree on every live config: its content is the history
\* entry of its last write, and the changelog names that write, with the
\* same version, and nothing about the config after it.
LiveConfigAgrees(d) ==
  /\ DOMAIN d.content = DOMAIN d.meta
  /\ \A k \in DOMAIN d.meta :
       LET m == d.meta[k]
       IN  /\ m.createRevision \in 1 .. m.revision
           /\ m.revision \in 1 .. d.rev
           /\ <<k, m.revision>> \in DOMAIN d.history
           /\ d.history[<<k, m.revision>>] = d.content[k]
           /\ d.changelog[m.revision].key = k
           /\ d.changelog[m.revision].version = m.version
           /\ \A r \in m.revision + 1 .. d.rev : d.changelog[r].key # k

\* A history entry exists exactly where the changelog records a create or an
\* update of that config.
HistoryMatchesChangelog(d) ==
  \A k \in Keys : \A r \in 1 .. d.rev :
    <<k, r>> \in DOMAIN d.history <=>
      d.changelog[r].key = k /\ d.changelog[r].type # "deleted"

\* The version of a config is the number of times it was written since it
\* was (last) created.
VersionCountsWrites(d) ==
  \A k \in DOMAIN d.meta :
    d.meta[k].version =
      Cardinality({r \in d.meta[k].createRevision .. d.rev : <<k, r>> \in DOMAIN d.history})

\* Point-in-time reads: of every key that existed at revision r, a lookup in
\* the history returns the value it had then, however often it was deleted
\* and created again since; and a range read does so for every key that has
\* lived since.
PastReads(d) ==
  \A r \in 0 .. d.rev :
    /\ \A k \in DOMAIN d.asOf[r] : lookupHistoryAtRevision(d, k, r) = d.asOf[r][k]
    /\ \A k \in DOMAIN d.meta :
         r >= d.meta[k].createRevision =>
           /\ k \in DOMAIN d.asOf[r]
           /\ readKVValue(d, k, r) = d.asOf[r][k]

lockRevisions(d, s) == {q \in 1 .. d.lockSeq : d.lockChangelog[q].subject = s}

subjectLocked(d, s) ==
  IF s[2] = 0 THEN isNamespaceLocked(d, s[1]) ELSE isLocked(d, s)

\* The lock audit trail tells the truth: a config or a namespace is locked
\* exactly when its newest audit entry says so, whatever was deleted and
\* created again in between.
LockAuditCurrent(d) ==
  /\ DOMAIN d.lockChangelog = 1 .. d.lockSeq
  /\ \A s \in Subjects :
       subjectLocked(d, s) <=>
         /\ lockRevisions(d, s) # {}
         /\ d.lockChangelog[Max(lockRevisions(d, s))].type = "locked"

\* The audit trail of one subject alternates between locked and unlocked,
\* beginning with locked, and the per-subject bucket agrees with the global
\* one: the two packages that write it never share a sequence number.
LockAuditAlternates(d) ==
  /\ \A s \in Subjects : \A q \in lockRevisions(d, s) :
       LET before == {p \in lockRevisions(d, s) : p < q}
       IN  d.lockChangelog[q].type =
             IF before = {} \/ d.lockChangelog[Max(before)].type = "unlocked"
             THEN "locked" ELSE "unlocked"
  /\ DOMAIN d.lockHistory = {<<d.lockChangelog[q].subject, q>> : q \in 1 .. d.lockSeq}

-----------------------------------------------------------------------------
(* The inductive invariant.                                                *)

\* History and the auxiliary asOf end at the current revision; a live config
\* has been there since its creation, with its present content since its
\* last write.
PastEndsNow(d) ==
  /\ DOMAIN d.history \subseteq Keys \X (1 .. d.rev)
  /\ d.asOf[d.rev] = d.content
  /\ \A k \in DOMAIN d.meta :
       /\ \A r \in d.meta[k].createRevision .. d.rev : k \in DOMAIN d.asOf[r]
       /\ \A r \in d.meta[k].revision .. d.rev : d.asOf[r][k] = d.content[k]

DBInv(d) ==
  /\ IsDB(d)
  /\ ChangelogGapless(d)
  /\ LiveConfigAgrees(d)
  /\ HistoryMatchesChangelog(d)
  /\ VersionCountsWrites(d)
  /\ PastEndsNow(d)
  /\ PastReads(d)

-----------------------------------------------------------------------------
(* How a database may change.                                              *)

lockedKeys(d) == {k \in DOMAIN d.meta : d.meta[k].locked}

\* One revision sets one key or removes some, none of them in F.
OneWrite(F, old, new) ==
  \/ \E k \in Keys \ F, c \in Contents : new = Put(old, k, c)
  \/ \E S \in SUBSET (DOMAIN old \ F) : S # {} /\ new = Remove(old, S)

\* How config writes may change a database: they append to the past, one
\* write per revision, and leave namespaces, locks and locked configs alone.
Evolves(d, e) ==
  /\ e.namespaces = d.namespaces
  /\ e.lockSeq = d.lockSeq
  /\ e.lockHistory = d.lockHistory
  /\ e.lockChangelog = d.lockChangelog
  /\ e.rev >= d.rev
  /\ IsRestriction(d.history, e.history)
  /\ IsRestriction(d.changelog, e.changelog)
  /\ IsRestriction(d.asOf, e.asOf)
  /\ lockedKeys(e) = lockedKeys(d)
  /\ \A k \in lockedKeys(d) : e.meta[k] = d.meta[k] /\ e.content[k] = d.content[k]
  /\ \A k \in DOMAIN e.meta :
       isNamespaceLocked(d, k[1]) =>
         k \in DOMAIN d.meta /\ e.meta[k] = d.meta[k] /\ e.content[k] = d.content[k]
  /\ \A r \in d.rev .. e.rev - 1 : OneWrite(lockedKeys(d), e.asOf[r], e.asOf[r + 1])

=============================================================================
