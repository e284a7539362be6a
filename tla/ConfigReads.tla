---------------------------- MODULE ConfigReads -----------------------------
(***************************************************************************)
(* The reads of the config store: what Get, List, Search, History, Diff,   *)
(* the dashboard and the namespace pages return for one database.          *)
(*                                                                         *)
(* A read is a function of the committed database d.  Most reads take one  *)
(* read transaction; pages of namespaces, statistics and exports take one  *)
(* for each namespace, and are shown as when nobody writes meanwhile.      *)
(* A directory is a sequence of names; PathParts splits a path at its      *)
(* slashes, so that a path that ends in a slash ends in the empty name 0.  *)
(* A text query is the set of paths (or names) that contain it.  Times are *)
(* represented by the order of revisions and of lock events; the order of  *)
(* a write and a lock event is left open.  Operators named X_fault are     *)
(* faulty variants of X.                                                   *)
(***************************************************************************)
EXTENDS ConfigRepo, Sequences

CONSTANTS
  PathParts,    \* [paths -> sequences of names]
  NormalForm,   \* what normalising a well-formed content gives
  Malformed,    \* contents that do not parse in the format of their path
  OtherPaths,   \* paths whose format is neither JSON nor YAML
  AnyNamespace  \* the empty namespace name in a request: all namespaces

ASSUME FormsAssumption ==
  /\ Malformed \subseteq Contents
  /\ NormalForm \in [Contents \ Malformed -> Contents \ Malformed]
  /\ \A c \in Contents \ Malformed : NormalForm[NormalForm[c]] = NormalForm[c]

-----------------------------------------------------------------------------
(* Order and pages.                                                        *)

\* The keys of S as a cursor meets them: keys are "<ns>\0<path>".
configKey(S) ==
  [i \in 1 .. Cardinality(S) |->
     CHOOSE k \in S : Cardinality({j \in S : KeyLess(j, k)}) = i - 1]

\* Members of S by increasing rank(m), the smallest first.
SortedBy(S, rank(_)) ==
  [i \in 1 .. Cardinality(S) |->
     CHOOSE m \in S : Cardinality({j \in S : rank(j) < rank(m)}) = i - 1]

Reversed(s) == [i \in 1 .. Len(s) |-> s[Len(s) + 1 - i]]

Directed(s, desc) == IF desc THEN Reversed(s) ELSE s

Paginate(s, offset, limit) ==
  SubSeq(s, offset + 1, IF offset + limit < Len(s) THEN offset + limit ELSE Len(s))

\* A limit of zero asks for the default.
defaultLimit(limit, default) == IF limit <= 0 THEN default ELSE limit

-----------------------------------------------------------------------------
(* Single configs.                                                         *)

ConfigMetaToSummary(d, k) ==
  [key |-> k, version |-> d.meta[k].version, revision |-> d.meta[k].revision,
   locked |-> d.meta[k].locked, namespaceLocked |-> FALSE]

\* nsLockCache.get: the lock is looked up once per namespace and transaction.
withNamespaceLock(d, s) == [s EXCEPT !.namespaceLocked = isNamespaceLocked(d, s.key[1])]

ConfigMetaToDomain(d, k) ==
  [summary |-> withNamespaceLock(d, ConfigMetaToSummary(d, k)), content |-> d.content[k]]

canGet(d, k) == k \in DOMAIN d.meta

Get(d, k) == ConfigMetaToDomain(d, k)

canGetAtRevision(d, k, r) == historyRevisions(d, k, r) # {}

\* The newest entry not after r, with the type its changelog entry records.
GetAtRevision(d, k, r) ==
  LET q == Max(historyRevisions(d, k, r))
  IN  [revision |-> q, content |-> d.history[<<k, q>>], type |-> d.changelog[q].type]

-----------------------------------------------------------------------------
(* Scans.                                                                  *)

\* A prefix is a directory: "<dir>/", or "/" for the empty one, which every
\* path has.
hasPrefix(path, dir) ==
  \/ dir = <<>>
  \/ Len(PathParts[path]) > Len(dir) /\ SubSeq(PathParts[path], 1, Len(dir)) = dir

\* Without a namespace the scan visits every key and skips by path.
shouldSkipByPath(k, n, dir) == n = AnyNamespace /\ ~hasPrefix(k[2], dir)

scanMeta(d, n, dir) ==
  {k \in DOMAIN d.meta :
     /\ n # AnyNamespace => k[1] = n /\ hasPrefix(k[2], dir)
     /\ ~shouldSkipByPath(k, n, dir)}

ListByPrefix(d, dir, n) ==
  LET ks == configKey(scanMeta(d, n, dir)) IN [i \in DOMAIN ks |-> ConfigMetaToDomain(d, ks[i])]

ListAllByNamespace(d, n) == ListByPrefix(d, <<>>, n)

ListSummariesByPrefix(d, dir, n) ==
  LET ks == configKey(scanMeta(d, n, dir))
  IN  [i \in DOMAIN ks |-> withNamespaceLock(d, ConfigMetaToSummary(d, ks[i]))]

\* Search looks at the path alone and leaves the namespace's lock out.
SearchByPath(d, query, n) ==
  LET ks == configKey({k \in DOMAIN d.meta : (n = AnyNamespace \/ k[1] = n) /\ k[2] \in query})
  IN  [i \in DOMAIN ks |-> ConfigMetaToSummary(d, ks[i])]

-----------------------------------------------------------------------------
(* Use cases over scans.                                                   *)

defaultListLimit == 20

\* What remains of a path below dir.
relative(path, dir) == SubSeq(PathParts[path], Len(dir) + 1, Len(PathParts[path]))

splitSummariesIntoFoldersAndFiles_slash(summaries, dir) ==
  LET parts(s) == relative(s.key[2], dir)
      deep     == {s \in Range(summaries) : Len(parts(s)) > 1 /\ parts(s)[2] # 0}
  IN  [folders |-> [name \in {parts(s)[1] : s \in deep} |-> {s \in deep : parts(s)[1] = name}],
       files |-> {s \in Range(summaries) : Len(parts(s)) = 1 /\ parts(s) # <<0>>}]

\* A path equal to the prefix itself is in neither part.
splitSummariesIntoFoldersAndFiles(summaries, dir) ==
  LET parts(s) == relative(s.key[2], dir)
      deep     == {s \in Range(summaries) : Len(parts(s)) > 1}
  IN  [folders |-> [name \in {parts(s)[1] : s \in deep} |-> {s \in deep : parts(s)[1] = name}],
       files |-> {s \in Range(summaries) : Len(parts(s)) = 1 /\ parts(s) # <<0>>}]

buildFolderEntries(folders, namespaceLocked) ==
  {[name |-> f, isFile |-> FALSE, childCount |-> Cardinality(folders[f]), version |-> 0,
    revision |-> Max({s.revision : s \in folders[f]}),
    locked |-> FALSE, namespaceLocked |-> namespaceLocked] : f \in DOMAIN folders}

\* Folders before files, whatever the direction.
sortEntries(entries, field, desc) ==
  LET rank(e) == IF field = "modified" THEN e.revision ELSE e.name
      sorted(S) == Directed(SortedBy(S, rank), desc)
  IN  sorted({e \in entries : ~e.isFile}) \o sorted({e \in entries : e.isFile})

\* The lock of the namespace is taken from the first summary of the scan.
buildDirectoryEntries(summaries, dir, field, desc) ==
  LET parts   == splitSummariesIntoFoldersAndFiles(summaries, dir)
      nsLock  == Len(summaries) > 0 /\ summaries[1].namespaceLocked
      file(s) == [name |-> relative(s.key[2], dir)[1], isFile |-> TRUE, childCount |-> 0,
                  version |-> s.version, revision |-> s.revision,
                  locked |-> s.locked, namespaceLocked |-> s.namespaceLocked]
  IN  sortEntries(buildFolderEntries(parts.folders, nsLock) \cup {file(s) : s \in parts.files},
                  field, desc)

\* query: the names that contain the text asked for.
List(d, n, dir, query, field, desc, limit, offset) ==
  LET entries == SelectSeq(buildDirectoryEntries(ListSummariesByPrefix(d, dir, n), dir, field, desc),
                           LAMBDA e : e.name \in query)
  IN  [entries |-> Paginate(entries, offset, defaultLimit(limit, defaultListLimit)),
       total |-> Len(entries), limit |-> defaultLimit(limit, defaultListLimit), offset |-> offset]

\* Configs of one path in two namespaces keep the order of the scan.
sortSummaries(found, field, desc) ==
  LET rank(i) == IF field = "modified" THEN found[i].revision * (Len(found) + 1)
                 ELSE found[i].key[2] * (Len(found) + 1) + i
      order   == Directed(SortedBy(DOMAIN found, rank), desc)
  IN  [i \in DOMAIN order |-> found[order[i]]]

\* scope: the namespaces the caller may read.
Search(d, scope, query, n, field, desc, limit, offset) ==
  LET found == SelectSeq(SearchByPath(d, query, n), LAMBDA s : s.key[1] \in scope)
  IN  [results |-> Paginate(sortSummaries(found, field, desc), offset, defaultLimit(limit, 20)),
       total |-> Len(found), limit |-> defaultLimit(limit, 20), offset |-> offset]

-----------------------------------------------------------------------------
(* History.                                                                *)

collectContentHistory(d, k) ==
  {[kind |-> "write", at |-> q, content |-> d.history[<<k, q>>], type |-> d.changelog[q].type] :
     q \in historyRevisions(d, k, d.rev)}

lockEventsOf(d, subject) ==
  {[kind |-> "lock", at |-> s, type |-> d.lockHistory[<<subject, s>>]] :
     s \in {q \in 1 .. d.lockSeq : <<subject, q>> \in DOMAIN d.lockHistory}}

collectConfigLockHistory(d, k) == lockEventsOf(d, k)

\* Events of the whole namespace are stored under the empty path.
collectNamespaceLockHistory(d, n) == lockEventsOf(d, <<n, 0>>)

\* The newest limit entries of S: the order between writes and lock events is
\* by time, so every cut that keeps the newest of each kind is possible.
Newest(S, limit) ==
  {T \in SUBSET S :
     /\ Cardinality(T) = IF Cardinality(S) > limit THEN limit ELSE Cardinality(S)
     /\ \A e \in T, f \in S \ T : e.kind = f.kind => e.at > f.at}

mergeHistoryEntries(content, lock, limit) == Newest(content \cup lock, limit)

GetConfigHistory(d, k, limit) ==
  mergeHistoryEntries(collectContentHistory(d, k),
                      collectConfigLockHistory(d, k) \cup collectNamespaceLockHistory(d, k[1]),
                      limit)

History(d, k, limit) == GetConfigHistory(d, k, defaultLimit(limit, 20))

\* Entries strictly after a revision, oldest first.
ListChanges(d, since, limit) ==
  [i \in 1 .. (IF d.rev - since < limit THEN d.rev - since ELSE limit) |->
     [revision |-> since + i, entry |-> d.changelog[since + i]]]

collectRecentChangelog(log, last, limit) ==
  {[at |-> q, entry |-> log[q]] : q \in {p \in DOMAIN log : p > last - limit}}

\* Both changelogs, newest first.
ListRecentChanges(d, limit) ==
  LET writes == {[kind |-> "write", at |-> e.at, namespace |-> e.entry.key[1]] :
                   e \in collectRecentChangelog(d.changelog, d.rev, defaultLimit(limit, 50))}
      locks  == {[kind |-> "lock", at |-> e.at, namespace |-> e.entry.subject[1]] :
                   e \in collectRecentChangelog(d.lockChangelog, d.lockSeq, defaultLimit(limit, 50))}
  IN  Newest(writes \cup locks, defaultLimit(limit, 50))

activityOverfetchMultiplier == 5

\* Five times the limit is read, what the caller may not see is dropped, and
\* the rest is cut: the possible results.
ListActivity(d, scope, limit) ==
  LET n == defaultLimit(limit, 1)
  IN  UNION {Newest({e \in recent : e.namespace \in scope}, n) :
               recent \in ListRecentChanges(d, n * activityOverfetchMultiplier)}

-----------------------------------------------------------------------------
(* Differences.                                                            *)

\* Content that does not parse, or has no normal form, is compared as it is.
normalizeDiffContent(path, c) == IF path \in OtherPaths \/ c \in Malformed THEN c ELSE NormalForm[c]

validateDiff(v1, v2) == v2 # 0 /\ v1 <= v2

canDiff(d, k, v1, v2) ==
  /\ validateDiff(v1, v2)
  /\ canGetAtRevision(d, k, v2)
  /\ v1 > 0 => canGetAtRevision(d, k, v1)

Diff(d, k, v1, v2) ==
  LET to == GetAtRevision(d, k, v2)
  IN  [toRevision |-> to.revision, toContent |-> normalizeDiffContent(k[2], to.content),
       fromRevision |-> IF v1 > 0 THEN GetAtRevision(d, k, v1).revision ELSE 0,
       fromContent |-> IF v1 > 0 THEN normalizeDiffContent(k[2], GetAtRevision(d, k, v1).content)
                       ELSE Absent]

-----------------------------------------------------------------------------
(* Namespaces and the dashboard.                                           *)

\* The configs of a namespace are counted in a transaction of their own.
populateConfigCount(d, n) ==
  [name |-> n, locked |-> d.namespaces[n].locked, configCount |-> CountByNamespace(d, n)]

GetNamespace(d, n) == populateConfigCount(d, n)

sortNamespaces(names, desc) == Directed(SortedBy(names, LAMBDA n : n), desc)

\* No limit means all.
paginate(s, offset, limit) == Paginate(s, offset, IF limit > 0 THEN limit ELSE Len(s))

\* scope comes from the policy: names deleted since then are skipped.
ListByFilter(d, scope, query, desc, limit, offset) ==
  LET found == {n \in DOMAIN d.namespaces : n \in scope /\ n \in query}
  IN  [names |-> paginate(sortNamespaces(found, desc), offset, limit), total |-> Cardinality(found)]

ListAll(d) == ListByFilter(d, DOMAIN d.namespaces, DOMAIN d.namespaces, FALSE, 0, 0).names

populateConfigCounts(d, names) == [i \in DOMAIN names |-> populateConfigCount(d, names[i])]

ListNamespaces(d, scope, query, desc, limit, offset) ==
  LET page == ListByFilter(d, scope, query, desc, defaultLimit(limit, 20), offset)
  IN  [items |-> populateConfigCounts(d, page.names),
       total |-> page.total, limit |-> defaultLimit(limit, 20), offset |-> offset]

GetStats(d, scope) ==
  LET seen == {n \in DOMAIN d.namespaces : n \in scope}
  IN  [namespaceCount |-> Cardinality(seen),
       configCount |-> Cardinality({k \in DOMAIN d.meta : k[1] \in seen}),
       globalRevision |-> d.rev]

=============================================================================
