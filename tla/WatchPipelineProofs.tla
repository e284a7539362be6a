------------------------ MODULE WatchPipelineProofs -------------------------
(***************************************************************************)
(* The safety of WatchPipeline for any writers, requests, capacity and     *)
(* batch size.  StoreInv is about the writers and what they collect,       *)
(* WatchInv about the watcher; together they are inductive.                *)
(***************************************************************************)
EXTENDS WatchPipeline, ConfigOpsProofs

-----------------------------------------------------------------------------
(* Sequences.                                                              *)

\* A finite set with a total order R can be listed in that order.
LEMMA SortExists ==
  ASSUME NEW S, IsFiniteSet(S), NEW R,
         \A x, y, z \in S : <<x, y>> \in R /\ <<y, z>> \in R => <<x, z>> \in R,
         \A x \in S : <<x, x>> \notin R,
         \A x, y \in S : x = y \/ <<x, y>> \in R \/ <<y, x>> \in R
  PROVE  \E s \in [1 .. Cardinality(S) -> S] :
           \A i, j \in 1 .. Cardinality(S) : i < j => <<s[i], s[j]>> \in R
<1> DEFINE n == Cardinality(S)
           below(x) == {y \in S : <<y, x>> \in R}
           rank == [x \in S |-> Cardinality(below(x)) + 1]
<1>1. n \in Nat
  BY FS_CardinalityType
<1>2. \A x \in S : IsFiniteSet(below(x)) /\ Cardinality(below(x)) \in Nat
  BY FS_Subset, FS_CardinalityType
<1>3. ASSUME NEW x \in S PROVE rank[x] \in 1 .. n
  <2>1. below(x) \in SUBSET S /\ below(x) # S
    OBVIOUS
  <2>2. Cardinality(below(x)) <= n /\ Cardinality(below(x)) # n
    BY <2>1, FS_Subset
  <2> QED BY <1>1, <1>2, <2>2
<1>4. ASSUME NEW x \in S, NEW y \in S, <<x, y>> \in R PROVE rank[x] < rank[y]
  <2>1. below(x) \in SUBSET below(y)
    BY <1>4
  <2>2. below(x) # below(y)
    <3>1. x \in below(y) /\ x \notin below(x)
      BY <1>4
    <3> QED BY <3>1
  <2>3. Cardinality(below(x)) <= Cardinality(below(y)) /\ Cardinality(below(x)) # Cardinality(below(y))
    BY <1>2, <2>1, <2>2, FS_Subset
  <2> QED BY <1>2, <2>3
<1> HIDE DEF rank
<1>5. rank \in [S -> 1 .. n]
  BY <1>3 DEF rank
<1>6. \A x, y \in S : rank[x] = rank[y] => x = y
  <2> SUFFICES ASSUME NEW x \in S, NEW y \in S, rank[x] = rank[y], x # y PROVE FALSE
    OBVIOUS
  <2>1. rank[x] \in Int /\ rank[y] \in Int
    BY <1>5
  <2>2. rank[x] < rank[y] \/ rank[y] < rank[x]
    BY <1>4
  <2> QED BY <2>1, <2>2
<1>7. rank \in Injection(S, 1 .. n)
  BY <1>5, <1>6 DEF Injection, IsInjective
<1>8. IsFiniteSet(1 .. n) /\ Cardinality(1 .. n) = n
  BY <1>1, FS_Interval
<1>9. rank \in Surjection(S, 1 .. n)
  BY <1>7, <1>8, FS_Injection
<1>10. \A i \in 1 .. n : \E x \in S : rank[x] = i
  BY <1>9 DEF Surjection
<1> DEFINE s == [i \in 1 .. n |-> CHOOSE x \in S : rank[x] = i]
<1>11. \A i \in 1 .. n : s[i] \in S /\ rank[s[i]] = i
  BY <1>10
<1>12. ASSUME NEW i \in 1 .. n, NEW j \in 1 .. n, i < j PROVE <<s[i], s[j]>> \in R
  <2>1. s[i] # s[j]
    BY <1>11, <1>12
  <2>2. <<s[j], s[i]>> \notin R
    <3> SUFFICES ASSUME <<s[j], s[i]>> \in R PROVE FALSE
      OBVIOUS
    <3>1. rank[s[j]] < rank[s[i]]
      BY <1>4, <1>11
    <3>2. j < i
      BY <1>11, <3>1
    <3> QED BY <1>12, <3>2
  <2> QED BY <1>11, <2>1, <2>2
<1>13. s \in [1 .. n -> S]
  BY <1>11
<1> HIDE DEF s
<1> QED BY <1>12, <1>13

\* The listing of a set of naturals is increasing.
LEMMA AscendingFacts ==
  ASSUME NEW S \in SUBSET Nat, IsFiniteSet(S)
  PROVE  /\ Cardinality(S) \in Nat
         /\ ascending(S) \in [1 .. Cardinality(S) -> S]
         /\ \A i, j \in 1 .. Cardinality(S) : i < j => ascending(S)[i] < ascending(S)[j]
<1> DEFINE R == {p \in S \X S : p[1] < p[2]}
<1>1. \E s \in [1 .. Cardinality(S) -> S] :
        \A i, j \in 1 .. Cardinality(S) : i < j => <<s[i], s[j]>> \in R
  <2>1. \A x, y \in S : <<x, y>> \in R <=> x < y
    OBVIOUS
  <2> HIDE DEF R
  <2>2. /\ \A x, y, z \in S : <<x, y>> \in R /\ <<y, z>> \in R => <<x, z>> \in R
        /\ \A x \in S : <<x, x>> \notin R
        /\ \A x, y \in S : x = y \/ <<x, y>> \in R \/ <<y, x>> \in R
    BY <2>1
  <2> QED BY <2>2, SortExists
<1>2. PICK s \in [1 .. Cardinality(S) -> S] :
        \A i, j \in 1 .. Cardinality(S) : i < j => s[i] < s[j]
  BY <1>1
<1>3. \E t \in [1 .. Cardinality(S) -> S] : \A i, j \in DOMAIN t : i < j => t[i] < t[j]
  BY <1>2
<1>4. /\ ascending(S) \in [1 .. Cardinality(S) -> S]
      /\ \A i, j \in DOMAIN ascending(S) : i < j => ascending(S)[i] < ascending(S)[j]
  BY <1>3 DEF ascending
<1> QED BY <1>4, FS_CardinalityType

\* The listing of a set of keys has its elements.
LEMMA KeyOrderFacts ==
  ASSUME NEW S \in SUBSET Keys, IsFiniteSet(S)
  PROVE  /\ Cardinality(S) \in Nat
         /\ inKeyOrder(S) \in [1 .. Cardinality(S) -> S]
         /\ \A i, j \in 1 .. Cardinality(S) : i < j => KeyLess(inKeyOrder(S)[i], inKeyOrder(S)[j])
<1> DEFINE R == {p \in S \X S : KeyLess(p[1], p[2])}
<1>1. \E s \in [1 .. Cardinality(S) -> S] :
        \A i, j \in 1 .. Cardinality(S) : i < j => <<s[i], s[j]>> \in R
  <2>1. \A x, y \in S : <<x, y>> \in R <=> KeyLess(x, y)
    OBVIOUS
  <2>2. \A x \in S : x[1] \in Nat /\ x[2] \in Nat /\ x = <<x[1], x[2]>>
    BY KeysAssumption
  <2> HIDE DEF R
  <2>3. \A x, y \in S : x = y \/ KeyLess(x, y) \/ KeyLess(y, x)
    <3> SUFFICES ASSUME NEW x \in S, NEW y \in S, ~KeyLess(x, y), ~KeyLess(y, x) PROVE x = y
      OBVIOUS
    <3>1. x[1] = y[1] /\ x[2] = y[2]
      BY <2>2 DEF KeyLess
    <3> QED BY <2>2, <3>1
  <2>4. \A x, y, z \in S : KeyLess(x, y) /\ KeyLess(y, z) => KeyLess(x, z)
    BY <2>2 DEF KeyLess
  <2>5. \A x \in S : ~KeyLess(x, x)
    BY <2>2 DEF KeyLess
  <2> QED BY <2>1, <2>3, <2>4, <2>5, SortExists
<1>2. PICK s \in [1 .. Cardinality(S) -> S] :
        \A i, j \in 1 .. Cardinality(S) : i < j => KeyLess(s[i], s[j])
  BY <1>1
<1>3. \E t \in [1 .. Cardinality(S) -> S] : \A i, j \in DOMAIN t : i < j => KeyLess(t[i], t[j])
  BY <1>2
<1>4. /\ inKeyOrder(S) \in [1 .. Cardinality(S) -> S]
      /\ \A i, j \in DOMAIN inKeyOrder(S) : i < j => KeyLess(inKeyOrder(S)[i], inKeyOrder(S)[j])
  BY <1>3 DEF inKeyOrder
<1> QED BY <1>4, FS_CardinalityType

\* A sequence over a set is one over a larger set.
LEMMA SeqMono ==
  ASSUME NEW S, NEW T, S \subseteq T, NEW s \in Seq(S)
  PROVE  s \in Seq(T)
OBVIOUS

\* An element of a sequence over S is in S.
LEMMA SeqElem ==
  ASSUME NEW S, NEW s \in Seq(S), NEW i \in DOMAIN s
  PROVE  s[i] \in S
OBVIOUS

\* What Append does to a sequence, position by position.
LEMMA SeqAppend ==
  ASSUME NEW S, NEW s \in Seq(S), NEW x \in S
  PROVE  /\ Append(s, x) \in Seq(S)
         /\ Len(Append(s, x)) = Len(s) + 1
         /\ \A i \in DOMAIN s : Append(s, x)[i] = s[i]
         /\ Append(s, x)[Len(s) + 1] = x
         /\ DOMAIN Append(s, x) = DOMAIN s \cup {Len(s) + 1}
OBVIOUS

\* What Head and Tail of a sequence that is not empty are.
LEMMA SeqTail ==
  ASSUME NEW S, NEW s \in Seq(S), s # <<>>
  PROVE  /\ Tail(s) \in Seq(S) /\ Head(s) \in S
         /\ Head(s) = s[1] /\ Len(Tail(s)) = Len(s) - 1
         /\ \A i \in 1 .. Len(s) - 1 : Tail(s)[i] = s[i + 1]
OBVIOUS

\* Concatenation with a sequence that is not empty.
LEMMA SeqConcat ==
  ASSUME NEW S, NEW s \in Seq(S), NEW t \in Seq(S), t # <<>>
  PROVE  s \o t \in Seq(S) /\ s \o t # <<>>
OBVIOUS

-----------------------------------------------------------------------------
(* What events tell.                                                       *)

Event == [type: WriteTypes \cup LockTypes, key: Subjects, rev: Nat,
          value: Contents \cup {Absent}]

\* The event or message m tells of something that is committed in d.
Happened(d, m) ==
  IF m.rev = 0 THEN m.key[2] = 0
  ELSE /\ m.rev <= d.rev
       /\ IF m.type \in {"deleted", "DELETE"}
          THEN m.key \in DOMAIN d.asOf[m.rev - 1] /\ m.key \notin DOMAIN d.asOf[m.rev]
          ELSE /\ <<m.key, m.rev>> \in DOMAIN d.history
               /\ d.history[<<m.key, m.rev>>] = m.value

TrueEvents(d) == {m \in Event : Happened(d, m)}

\* The message m tells of a committed write whose value could not be read.
Unvalued(d, m, missed) ==
  /\ m.type = "PUT" /\ m.value = Absent
  /\ m.rev \in missed /\ m.rev # 0 /\ m.rev <= d.rev
  /\ <<m.key, m.rev>> \in DOMAIN d.history

\* Messages for a client with these claims, when the values of the revisions
\* missed could not be read.
TrueMessages(d, claims, missed) ==
  {m \in Message : (Happened(d, m) \/ Unvalued(d, m, missed)) /\ namespaceAllowed(claims, m.key[1])}

\* A delete in the changelog is a delete of its key.
DeletesLogged(d) ==
  \A r \in 1 .. d.rev : d.changelog[r].type = "deleted" =>
    /\ d.changelog[r].key \in DOMAIN d.asOf[r - 1]
    /\ d.changelog[r].key \notin DOMAIN d.asOf[r]

\* e has the past of d and perhaps more.
Follows(d, e) ==
  /\ e.rev \in Nat /\ e.rev >= d.rev
  /\ IsRestriction(d.history, e.history)
  /\ IsRestriction(d.asOf, e.asOf)

\* A transaction's writes, and a lock toggle, keep the past.
LEMMA EvolvesFollows ==
  ASSUME NEW d, NEW e, IsDB(e), Evolves(d, e) \/ SameContent(d, e)
  PROVE  Follows(d, e)
<1>1. e.rev \in Nat
  BY DEF IsDB
<1>2. CASE Evolves(d, e)
  BY <1>1, <1>2 DEF Follows, Evolves
<1>3. CASE SameContent(d, e)
  BY <1>1, <1>3 DEF Follows, SameContent, IsRestriction
<1> QED BY <1>2, <1>3

\* What has happened stays so.
LEMMA HappenedStays ==
  ASSUME NEW d, IsDB(d), NEW e, Follows(d, e)
  PROVE  /\ TrueEvents(d) \subseteq TrueEvents(e)
         /\ \A c, u : TrueMessages(d, c, u) \subseteq TrueMessages(e, c, u)
<1>1. d.rev \in Nat /\ e.rev \in Nat /\ d.rev <= e.rev
  BY DEF IsDB, Follows
<1>2. /\ DOMAIN d.asOf = 0 .. d.rev
      /\ \A r \in 0 .. d.rev : e.asOf[r] = d.asOf[r]
  BY DEF IsDB, Follows, IsRestriction
<1>3. ASSUME NEW m, m.rev \in Nat, Happened(d, m) PROVE Happened(e, m)
  <2>1. CASE m.rev = 0
    BY <1>3, <2>1 DEF Happened
  <2>2. CASE m.rev # 0
    <3>1. m.rev <= d.rev /\ m.rev \in 0 .. d.rev /\ m.rev - 1 \in 0 .. d.rev /\ m.rev <= e.rev
      BY <1>1, <1>3, <2>2 DEF Happened
    <3>2. CASE m.type \in {"deleted", "DELETE"}
      BY <1>2, <1>3, <2>2, <3>1, <3>2 DEF Happened
    <3>3. CASE m.type \notin {"deleted", "DELETE"}
      BY <1>3, <2>2, <3>1, <3>3 DEF Happened, Follows, IsRestriction
    <3> QED BY <3>2, <3>3
  <2> QED BY <2>1, <2>2
<1>4. ASSUME NEW m, NEW u, m.rev \in Nat, Unvalued(d, m, u) PROVE Unvalued(e, m, u)
  BY <1>1, <1>4 DEF Unvalued, Follows, IsRestriction
<1> QED BY <1>3, <1>4 DEF TrueEvents, TrueMessages, Event, Message

\* More values that could not be read allow for more messages.
LEMMA MissedMore ==
  ASSUME NEW d, NEW c, NEW u, NEW v, u \subseteq v
  PROVE  TrueMessages(d, c, u) \subseteq TrueMessages(d, c, v)
BY DEF TrueMessages, Unvalued

\* A write logs no delete, and its event is true of the database it leaves.
LEMMA PutLogs ==
  ASSUME NEW d, DBInv(d), DeletesLogged(d), NEW k \in Keys, NEW c \in Contents,
         canPutKey(d, k), NEW t \in WriteTypes \ {"deleted"}
  PROVE  /\ DeletesLogged(putKeyTx(d, k, c))
         /\ WatchEvent(t, k, nextRevision(d), c) \in TrueEvents(putKeyTx(d, k, c))
<1> DEFINE e == putKeyTx(d, k, c)
<1>1. IsDB(d) /\ d.rev \in Nat /\ ChangelogGapless(d)
  BY DEF DBInv, IsDB
<1>2. PICK m, u : WroteEntry(d, k, m, c, u, e)
  <2>1. CASE k \in DOMAIN d.meta
    <3>1. d.meta[k] \in Meta
      BY <1>1, <2>1 DEF IsDB, IsBucket
    <3>2. NextMeta(d, k, bumpMeta(d, k))
      <4>1. d.meta[k].version + 1 \in Nat /\ nextRevision(d) \in Nat
        BY <1>1, <3>1 DEF nextRevision, Meta
      <4>2. bumpMeta(d, k) \in Meta
        BY <3>1, <4>1 DEF bumpMeta, Meta
      <4>3. /\ bumpMeta(d, k).version = d.meta[k].version + 1
            /\ bumpMeta(d, k).revision = d.rev + 1
            /\ bumpMeta(d, k).createRevision = d.meta[k].createRevision
        BY <3>1 DEF bumpMeta, nextRevision, Meta
      <4> QED BY <2>1, <4>2, <4>3 DEF NextMeta
    <3> QED BY <2>1, <3>2 DEF WroteEntry, putKeyTx
  <2>2. CASE k \notin DOMAIN d.meta
    <3>1. NextMeta(d, k, newMeta(d))
      BY <1>1, <2>2 DEF NextMeta, newMeta, nextRevision, Meta
    <3> QED BY <2>2, <3>1 DEF WroteEntry, putKeyTx
  <2> QED BY <2>1, <2>2
<1> HIDE DEF e
<1>3. WriteEffect(d, k, m, c, u, e) /\ u # "deleted"
  BY <1>2, WriteFacts DEF WroteEntry
<1>4. e.rev = d.rev + 1 /\ <<k, d.rev + 1>> \in DOMAIN e.history /\ e.history[<<k, d.rev + 1>>] = c
  BY <1>3 DEF WriteEffect
<1>5. WatchEvent(t, k, nextRevision(d), c) \in TrueEvents(e)
  BY <1>1, <1>4 DEF TrueEvents, Event, Happened, WatchEvent, nextRevision, Subjects, WriteTypes
<1>6. DeletesLogged(e)
  <2> SUFFICES ASSUME NEW r \in 1 .. e.rev, e.changelog[r].type = "deleted"
               PROVE  /\ e.changelog[r].key \in DOMAIN e.asOf[r - 1]
                      /\ e.changelog[r].key \notin DOMAIN e.asOf[r]
    BY DEF DeletesLogged
  <2>1. r # d.rev + 1
    BY <1>3 DEF WriteEffect
  <2>2. r \in 1 .. d.rev /\ r \in 0 .. d.rev /\ r - 1 \in 0 .. d.rev
    BY <1>1, <1>4, <2>1
  <2>3. e.changelog[r] = d.changelog[r]
    BY <1>1, <1>3, <2>1, <2>2 DEF WriteEffect, ChangelogGapless
  <2>4. e.asOf[r] = d.asOf[r] /\ e.asOf[r - 1] = d.asOf[r - 1]
    BY <1>3, <2>2 DEF WriteEffect
  <2> QED BY <2>2, <2>3, <2>4 DEF DeletesLogged
<1> QED BY <1>5, <1>6 DEF e

\* A range delete logs one of its deletes, and its events are true of the
\* database it leaves.
LEMMA DeleteLogs ==
  ASSUME NEW d, DBInv(d), DeletesLogged(d), NEW r, canDeleteRange(d, r)
  PROVE  /\ DeletesLogged(deleteRangeKeysTx(d, r))
         /\ deletedEvents(deleteTargets(d, r), nextRevision(d))
              \in Seq(TrueEvents(deleteRangeKeysTx(d, r))) \ {<<>>}
<1> DEFINE e == deleteRangeKeysTx(d, r)
           S == deleteTargets(d, r)
           evs == deletedEvents(S, nextRevision(d))
<1>1. /\ IsDB(d) /\ d.rev \in Nat /\ ChangelogGapless(d)
      /\ d.asOf[d.rev] = d.content /\ DOMAIN d.content = DOMAIN d.meta
  BY DEF DBInv, IsDB, PastEndsNow, LiveConfigAgrees
<1>2. S \subseteq DOMAIN d.meta /\ S # {} /\ S \subseteq Keys /\ IsFiniteSet(S)
  <2>1. S \subseteq DOMAIN d.meta /\ S # {}
    BY DEF deleteTargets, canDeleteRange
  <2>2. DOMAIN d.meta \subseteq Keys /\ IsFiniteSet(DOMAIN d.meta)
    BY <1>1 DEF IsDB, IsBucket
  <2> QED BY <2>1, <2>2, FS_Subset
<1>3. lastKey(S) \in S
  BY <1>2, LastKeyMember
<1>4. RemovedKeys(d, S, lastKey(S), e)
  BY <1>2, <1>3 DEF RemovedKeys, deleteRangeKeysTx
<1> HIDE DEF e, S
<1>5. RemoveEffect(d, S, lastKey(S), e)
  BY <1>4, RemoveFacts
<1>6. e.rev = d.rev + 1 /\ e.asOf[d.rev] = d.asOf[d.rev] /\ DOMAIN e.asOf[d.rev + 1] = DOMAIN d.content \ S
  BY <1>1, <1>5 DEF RemoveEffect
<1>7. \A k \in S : WatchEvent("deleted", k, nextRevision(d), Absent) \in TrueEvents(e)
  BY <1>1, <1>2, <1>6 DEF TrueEvents, Event, Happened, WatchEvent, nextRevision, Subjects, WriteTypes
<1>8. /\ Cardinality(S) \in Nat /\ Cardinality(S) # 0
      /\ inKeyOrder(S) \in [1 .. Cardinality(S) -> S]
  BY <1>2, KeyOrderFacts, FS_EmptySet
<1>9. evs = [i \in 1 .. Cardinality(S) |-> WatchEvent("deleted", inKeyOrder(S)[i], nextRevision(d), Absent)]
  BY <1>8 DEF deletedEvents
<1>10. evs \in [1 .. Cardinality(S) -> TrueEvents(e)]
  BY <1>7, <1>8, <1>9
<1>11. evs \in Seq(TrueEvents(e)) /\ evs # <<>>
  <2> HIDE DEF evs
  <2>1. evs \in Seq(TrueEvents(e)) /\ Len(evs) = Cardinality(S)
    BY <1>8, <1>10
  <2> QED BY <1>8, <2>1
<1>12. DeletesLogged(e)
  <2> SUFFICES ASSUME NEW q \in 1 .. e.rev, e.changelog[q].type = "deleted"
               PROVE  /\ e.changelog[q].key \in DOMAIN e.asOf[q - 1]
                      /\ e.changelog[q].key \notin DOMAIN e.asOf[q]
    BY DEF DeletesLogged
  <2>1. CASE q = d.rev + 1
    <3>1. e.changelog[q].key = lastKey(S)
      BY <1>5, <2>1 DEF RemoveEffect
    <3>2. q - 1 = d.rev
      BY <1>1, <2>1
    <3> QED BY <1>1, <1>2, <1>3, <1>6, <2>1, <3>1, <3>2
  <2>2. CASE q # d.rev + 1
    <3>1. q \in 1 .. d.rev /\ q \in 0 .. d.rev /\ q - 1 \in 0 .. d.rev
      BY <1>1, <1>6, <2>2
    <3>2. e.changelog[q] = d.changelog[q]
      BY <1>1, <1>5, <2>2, <3>1 DEF RemoveEffect, ChangelogGapless
    <3>3. e.asOf[q] = d.asOf[q] /\ e.asOf[q - 1] = d.asOf[q - 1]
      BY <1>5, <3>1 DEF RemoveEffect
    <3> QED BY <3>1, <3>2, <3>3 DEF DeletesLogged
  <2> QED BY <2>1, <2>2
<1> QED BY <1>11, <1>12 DEF e, S

\* The replay reads committed revisions after r, in order.
LEMMA ListChangesFacts ==
  ASSUME NEW d, DBInv(d), NEW r \in Nat, NEW limit \in Nat
  PROVE  LET s == ListChanges(d, r, limit)
         IN  /\ s \in Seq(r + 1 .. d.rev)
             /\ \A i, j \in DOMAIN s : i < j => s[i] < s[j]
             /\ Len(s) <= limit
<1> DEFINE S == {q \in DOMAIN d.changelog : q > r}
           a == ascending(S)
           n == Min({limit, Len(a)})
           s == SubSeq(a, 1, n)
<1>1. d.rev \in Nat /\ DOMAIN d.changelog = 1 .. d.rev
  BY DEF DBInv, IsDB, ChangelogGapless
<1>2. S = r + 1 .. d.rev
  BY <1>1
<1>3. IsFiniteSet(S) /\ S \subseteq Nat
  <2>1. r + 1 \in Int /\ d.rev \in Int
    BY <1>1
  <2>2. IsFiniteSet(r + 1 .. d.rev)
    BY <2>1, FS_Interval
  <2>3. r + 1 .. d.rev \subseteq Nat
    BY <1>1
  <2> HIDE DEF S
  <2> QED BY <1>2, <2>2, <2>3
<1> HIDE DEF S
<1>4. /\ Cardinality(S) \in Nat /\ a \in [1 .. Cardinality(S) -> S]
      /\ \A i, j \in 1 .. Cardinality(S) : i < j => a[i] < a[j]
  BY <1>3, AscendingFacts
<1> HIDE DEF a
<1>5. a \in Seq(S) /\ Len(a) = Cardinality(S)
  BY <1>4
<1>6. n \in Nat /\ n <= Len(a) /\ n <= limit
  <2>1. \E x \in {limit, Len(a)} : \A y \in {limit, Len(a)} : x <= y
    BY <1>4, <1>5
  <2>2. n \in {limit, Len(a)} /\ \A y \in {limit, Len(a)} : n <= y
    BY <2>1 DEF Min
  <2> QED BY <1>4, <1>5, <2>2
<1> HIDE DEF n
<1>7. s \in Seq(S) /\ Len(s) = n /\ \A i \in 1 .. n : s[i] = a[i]
  BY <1>4, <1>5, <1>6
<1>8. s = ListChanges(d, r, limit)
  BY DEF ListChanges, a, n, S
<1> HIDE DEF s
<1>9. \A i, j \in DOMAIN s : i < j => s[i] < s[j]
  BY <1>4, <1>5, <1>6, <1>7
<1> QED BY <1>2, <1>6, <1>7, <1>8, <1>9

\* What the replay sends of a revision is what it committed, or has no value.
LEMMA ReplayTrue ==
  ASSUME NEW d, DBInv(d), DeletesLogged(d), NEW r \in 1 .. d.rev, NEW claims,
         namespaceAllowed(claims, d.changelog[r].key[1]), NEW failed \in BOOLEAN,
         NEW missed, failed => r \in missed
  PROVE  /\ changelogToEvent(d, r, failed) \in TrueMessages(d, claims, missed)
         /\ changelogToEvent(d, r, failed).rev = r
<1> DEFINE e == d.changelog[r]
<1>1. d.rev \in Nat /\ r \in Nat /\ r # 0 /\ r <= d.rev
  BY DEF DBInv, IsDB
<1>2. e \in ChangelogEntry /\ e.key \in Keys /\ e.key \in Subjects
  BY DEF DBInv, IsDB, IsBucket, ChangelogGapless, ChangelogEntry, Subjects
<1>3. CASE e.type = "deleted"
  <2>1. changelogToEvent(d, r, failed) = WatchEvent("DELETE", e.key, r, Absent)
    BY <1>3 DEF changelogToEvent
  <2>2. e.key \in DOMAIN d.asOf[r - 1] /\ e.key \notin DOMAIN d.asOf[r]
    BY <1>3 DEF DeletesLogged
  <2> QED BY <1>1, <1>2, <2>1, <2>2 DEF TrueMessages, Message, Happened, WatchEvent
<1>4. CASE e.type # "deleted"
  <2> DEFINE v == lookupHistoryAtRevision(d, e.key, r)
             H == historyRevisions(d, e.key, r)
  <2>1. changelogToEvent(d, r, failed) = WatchEvent("PUT", e.key, r, IF failed THEN Absent ELSE v)
    BY <1>4 DEF changelogToEvent
  <2>2. <<e.key, r>> \in DOMAIN d.history
    BY <1>2, <1>4 DEF DBInv, HistoryMatchesChangelog
  <2>3. d.history[<<e.key, r>>] \in Contents
    BY <2>2 DEF DBInv, IsDB, IsBucket
  <2>4. H \in SUBSET (1 .. r) /\ r \in H /\ \A x \in H : x <= r
    BY <1>1, <2>2 DEF historyRevisions
  <2>5. Max(H) = r
    <3> HIDE DEF H
    <3> QED BY <1>1, <2>4, MaxIs
  <2>6. v = d.history[<<e.key, r>>]
    BY <2>4, <2>5 DEF lookupHistoryAtRevision
  <2> HIDE DEF v, e
  <2>7. v \in Contents
    BY <2>3, <2>6
  <2> DEFINE m == changelogToEvent(d, r, failed)
  <2>8. /\ m.type = "PUT" /\ m.key = e.key /\ m.rev = r
        /\ m.value = IF failed THEN Absent ELSE v
    BY <2>1 DEF WatchEvent
  <2>9. m \in Message
    BY <1>1, <1>2, <2>1, <2>7 DEF Message, WatchEvent
  <2>10. namespaceAllowed(claims, m.key[1])
    BY <2>8 DEF e
  <2> HIDE DEF m
  <2>11. CASE failed
    <3>1. Unvalued(d, m, missed)
      BY <1>1, <2>2, <2>8, <2>11 DEF Unvalued
    <3> QED BY <2>8, <2>9, <2>10, <3>1 DEF TrueMessages, m
  <2>12. CASE ~failed
    <3>1. Happened(d, m)
      BY <1>1, <2>2, <2>6, <2>8, <2>12 DEF Happened
    <3> QED BY <2>8, <2>9, <2>10, <3>1 DEF TrueMessages, m
  <2> QED BY <2>11, <2>12
<1> QED BY <1>3, <1>4

-----------------------------------------------------------------------------
(* The inductive invariant.                                                *)

\* What writer p sees: its transaction, or what is committed.
Sees(p) == IF writer[p] = "open" THEN staged ELSE db

\* The write side: databases are consistent, the write lock excludes, and
\* what is collected is true of the database its transaction leaves.
StoreInv ==
  /\ DBInv(db) /\ LockInv(db) /\ DeletesLogged(db)
  /\ DBInv(staged) /\ Evolves(db, staged) /\ DeletesLogged(staged)
  /\ writer \in [Writers -> {"idle", "open", "flushing"}]
  /\ \A p, q \in Writers : writer[p] = "open" /\ writer[q] = "open" => p = q
  /\ WriteLockFree => staged = db
  /\ DOMAIN pending = Writers
  /\ pending = [p \in Writers |-> pending[p]]
  /\ \A p \in Writers : writer[p] = "idle" <=> pending[p] = <<>>
  /\ \A p \in Writers : pending[p] \in Seq(TrueEvents(Sees(p)))

Increasing(s) == \A i, j \in DOMAIN s : i < j => s[i] < s[j]

\* The watch side: what is in the channel and what was sent is true, and the
\* replay's position lies between what was sent and what is still to be read.
WatchInv ==
  /\ watch \in {"none", "created", "replaying", "draining", "live", "dead",
                "cancelled", "closed"}
  /\ request.start \in Nat /\ since \in Nat /\ lastSent \in Nat
  /\ events \in Seq(TrueEvents(db)) /\ Len(events) <= BufferSize
  /\ sent \in Seq(TrueMessages(db, request.claims, blank))
  /\ batch \in Seq(1 .. db.rev) /\ Len(batch) <= BatchSize /\ Increasing(batch)
  /\ watch \in {"none", "created"} => lastSent = 0
  /\ watch \in {"replaying", "draining"} =>
       lastSent <= since /\ \A i \in DOMAIN batch : lastSent < batch[i] /\ batch[i] <= since
  /\ watch \notin {"replaying", "draining"} => batch = <<>>
  /\ \A i \in DOMAIN sent : sent[i].rev <= lastSent
  /\ RevisionsInOrder

IInv == StoreInv /\ WatchInv

-----------------------------------------------------------------------------
(* The write side.                                                         *)

\* An operation of a transaction.
LEMMA OperateStep ==
  ASSUME StoreInv, NEW p \in Writers, NEW d, NEW evs, Operate(p, d, evs),
         DBInv(d), Evolves(db, d), Evolves(staged, d), DeletesLogged(d),
         evs \in Seq(TrueEvents(d)) \ {<<>>}
  PROVE  StoreInv' /\ Follows(db, db')
<1>1. /\ db' = db /\ staged' = d
      /\ writer' = [writer EXCEPT ![p] = "open"]
      /\ pending' = [pending EXCEPT ![p] = @ \o evs]
      /\ writer[p] = "open" \/ (writer[p] = "idle" /\ WriteLockFree)
  BY DEF Operate
<1>2. writer \in [Writers -> {"idle", "open", "flushing"}] /\ DOMAIN pending = Writers
  BY DEF StoreInv
<1>3. /\ writer'[p] = "open" /\ pending'[p] = pending[p] \o evs
      /\ \A q \in Writers \ {p} : writer'[q] = writer[q] /\ pending'[q] = pending[q]
  BY <1>1, <1>2
<1>4. \A q \in Writers \ {p} : writer[q] # "open"
  BY <1>1 DEF StoreInv, WriteLockFree
<1>5. pending[p] \in Seq(TrueEvents(d))
  <2>1. CASE writer[p] = "open"
    <3>1. pending[p] \in Seq(TrueEvents(staged))
      BY <2>1 DEF StoreInv, Sees
    <3>2. Follows(staged, d) /\ IsDB(staged)
      BY EvolvesFollows DEF DBInv, StoreInv
    <3>3. TrueEvents(staged) \subseteq TrueEvents(d)
      BY <3>2, HappenedStays
    <3> QED BY <3>1, <3>3, SeqMono
  <2>2. CASE writer[p] = "idle"
    BY <2>2 DEF StoreInv
  <2> QED BY <1>1, <2>1, <2>2
<1>6. pending'[p] \in Seq(TrueEvents(d)) /\ pending'[p] # <<>>
  BY <1>3, <1>5, SeqConcat
<1>7. DBInv(db') /\ LockInv(db') /\ DeletesLogged(db')
  BY <1>1 DEF StoreInv
<1>8. DBInv(staged') /\ Evolves(db', staged') /\ DeletesLogged(staged')
  BY <1>1
<1>9. writer' \in [Writers -> {"idle", "open", "flushing"}]
  BY <1>1, <1>2
<1>10. \A q, o \in Writers : writer'[q] = "open" /\ writer'[o] = "open" => q = o
  BY <1>3, <1>4
<1>11. ~WriteLockFree'
  BY <1>3 DEF WriteLockFree
<1>12. DOMAIN pending' = Writers /\ pending' = [q \in Writers |-> pending'[q]]
  BY <1>1, <1>2
<1>13. \A q \in Writers : writer'[q] = "idle" <=> pending'[q] = <<>>
  <2>1. \A q \in Writers : writer[q] = "idle" <=> pending[q] = <<>>
    BY DEF StoreInv
  <2> QED BY <1>3, <1>6, <2>1
<1>14. \A q \in Writers : pending'[q] \in Seq(TrueEvents(IF writer'[q] = "open" THEN staged' ELSE db'))
  <2>1. \A q \in Writers \ {p} : pending[q] \in Seq(TrueEvents(db))
    BY <1>4 DEF StoreInv, Sees
  <2> QED BY <1>1, <1>3, <1>4, <1>6, <2>1
<1>15. StoreInv'
  BY <1>7, <1>8, <1>9, <1>10, <1>11, <1>12, <1>13, <1>14 DEF StoreInv, Sees
<1>16. Follows(db, db')
  BY <1>1, EvolvesRefl, EvolvesFollows DEF StoreInv, DBInv
<1> QED BY <1>15, <1>16

\* A put in a transaction preserves the write side.
LEMMA WriteStep ==
  ASSUME StoreInv, NEW p \in Writers, NEW k \in Keys, NEW c \in Contents, Write(p, k, c)
  PROVE  StoreInv' /\ Follows(db, db')
<1> DEFINE d == putKeyTx(staged, k, c)
           t == IF k \in DOMAIN staged.meta THEN "updated" ELSE "created"
           ev == WatchEvent(t, k, nextRevision(staged), c)
<1>1. canPutKey(staged, k) /\ Operate(p, d, <<ev>>)
  BY DEF Write
<1>2. DBInv(staged) /\ DeletesLogged(staged) /\ IsDB(db) /\ IsDB(staged) /\ Evolves(db, staged)
  BY DEF StoreInv, DBInv
<1>3. DBInv(d) /\ Evolves(db, d)
  BY <1>1, <1>2, PutStep
<1>4. Evolves(staged, d)
  BY <1>1, <1>2, EvolvesRefl, PutStep
<1>5. t \in WriteTypes \ {"deleted"}
  BY DEF WriteTypes
<1>6. DeletesLogged(d) /\ ev \in TrueEvents(d)
  <2> HIDE DEF t
  <2> QED BY <1>1, <1>2, <1>5, PutLogs
<1> HIDE DEF d, ev
<1>7. <<ev>> \in Seq(TrueEvents(d)) \ {<<>>}
  BY <1>6
<1> QED BY <1>1, <1>3, <1>4, <1>6, <1>7, OperateStep

\* A range delete in a transaction preserves the write side.
LEMMA DeleteRangeStepInv ==
  ASSUME StoreInv, NEW p \in Writers, NEW r, DeleteRange(p, r)
  PROVE  StoreInv' /\ Follows(db, db')
<1> DEFINE d == deleteRangeKeysTx(staged, r)
           evs == deletedEvents(deleteTargets(staged, r), nextRevision(staged))
<1>1. canDeleteRange(staged, r) /\ Operate(p, d, evs)
  BY DEF DeleteRange
<1>2. DBInv(staged) /\ DeletesLogged(staged) /\ IsDB(db) /\ IsDB(staged) /\ Evolves(db, staged)
  BY DEF StoreInv, DBInv
<1>3. DBInv(d) /\ Evolves(db, d)
  BY <1>1, <1>2, DeleteRangeStep
<1>4. Evolves(staged, d)
  BY <1>1, <1>2, EvolvesRefl, DeleteRangeStep
<1>5. DeletesLogged(d) /\ evs \in Seq(TrueEvents(d)) \ {<<>>}
  BY <1>1, <1>2, DeleteLogs
<1> HIDE DEF d, evs
<1> QED BY <1>1, <1>3, <1>4, <1>5, OperateStep

\* A commit preserves the write side: what was collected is now committed.
LEMMA CommitStep ==
  ASSUME StoreInv, NEW p \in Writers, Commit(p)
  PROVE  StoreInv' /\ Follows(db, db')
<1>1. /\ db' = staged /\ staged' = staged /\ pending' = pending
      /\ writer' = [writer EXCEPT ![p] = "flushing"] /\ writer[p] = "open"
  BY DEF Commit
<1>2. writer \in [Writers -> {"idle", "open", "flushing"}]
  BY DEF StoreInv
<1>3. writer'[p] = "flushing" /\ \A q \in Writers \ {p} : writer'[q] = writer[q] /\ writer[q] # "open"
  BY <1>1, <1>2 DEF StoreInv
<1>4. Follows(db, staged) /\ IsDB(db) /\ IsDB(staged)
  BY EvolvesFollows DEF StoreInv, DBInv
<1>5. TrueEvents(db) \subseteq TrueEvents(staged)
  BY <1>4, HappenedStays
<1>6. DBInv(db') /\ LockInv(db') /\ DeletesLogged(db')
  BY <1>1, EvolvesLockInv DEF StoreInv
<1>7. DBInv(staged') /\ Evolves(db', staged') /\ DeletesLogged(staged')
  BY <1>1, <1>4, EvolvesRefl DEF StoreInv
<1>8. writer' \in [Writers -> {"idle", "open", "flushing"}]
  BY <1>1, <1>2
<1>9. \A q, o \in Writers : writer'[q] = "open" /\ writer'[o] = "open" => q = o
  BY <1>3
<1>10. staged' = db'
  BY <1>1
<1>11. DOMAIN pending' = Writers /\ pending' = [q \in Writers |-> pending'[q]]
  BY <1>1 DEF StoreInv
<1>12. \A q \in Writers : writer'[q] = "idle" <=> pending'[q] = <<>>
  <2>1. \A q \in Writers : writer[q] = "idle" <=> pending[q] = <<>>
    BY DEF StoreInv
  <2> QED BY <1>1, <1>3, <2>1
<1>13. \A q \in Writers : pending'[q] \in Seq(TrueEvents(IF writer'[q] = "open" THEN staged' ELSE db'))
  <2>1. pending[p] \in Seq(TrueEvents(staged))
    BY <1>1 DEF StoreInv, Sees
  <2>2. ASSUME NEW q \in Writers \ {p} PROVE pending[q] \in Seq(TrueEvents(staged))
    <3>1. pending[q] \in Seq(TrueEvents(db))
      BY <1>3 DEF StoreInv, Sees
    <3> QED BY <1>5, <3>1, SeqMono
  <2> QED BY <1>1, <2>1, <2>2
<1>14. StoreInv'
  BY <1>6, <1>7, <1>8, <1>9, <1>10, <1>11, <1>12, <1>13 DEF StoreInv, Sees
<1> QED BY <1>1, <1>4, <1>14

\* A rollback preserves the write side: what was collected is dropped.
LEMMA RollbackStep ==
  ASSUME StoreInv, NEW p \in Writers, Rollback(p)
  PROVE  StoreInv' /\ Follows(db, db')
<1>1. /\ db' = db /\ staged' = db
      /\ pending' = [pending EXCEPT ![p] = <<>>]
      /\ writer' = [writer EXCEPT ![p] = "idle"] /\ writer[p] = "open"
  BY DEF Rollback
<1>2. writer \in [Writers -> {"idle", "open", "flushing"}] /\ DOMAIN pending = Writers
  BY DEF StoreInv
<1>3. /\ writer'[p] = "idle" /\ pending'[p] = <<>>
      /\ \A q \in Writers \ {p} : writer'[q] = writer[q] /\ writer[q] # "open" /\ pending'[q] = pending[q]
  BY <1>1, <1>2 DEF StoreInv
<1>4. DBInv(db) /\ LockInv(db) /\ DeletesLogged(db) /\ IsDB(db) /\ Evolves(db, db)
  BY EvolvesRefl DEF StoreInv, DBInv
<1>5. writer' \in [Writers -> {"idle", "open", "flushing"}]
  BY <1>1, <1>2
<1>6. \A q, o \in Writers : writer'[q] = "open" /\ writer'[o] = "open" => q = o
  BY <1>3
<1>7. DOMAIN pending' = Writers /\ pending' = [q \in Writers |-> pending'[q]]
  BY <1>1, <1>2
<1>8. \A q \in Writers : writer'[q] = "idle" <=> pending'[q] = <<>>
  <2>1. \A q \in Writers : writer[q] = "idle" <=> pending[q] = <<>>
    BY DEF StoreInv
  <2> QED BY <1>3, <2>1
<1>9. \A q \in Writers : pending'[q] \in Seq(TrueEvents(IF writer'[q] = "open" THEN staged' ELSE db'))
  <2>1. \A q \in Writers \ {p} : pending[q] \in Seq(TrueEvents(db))
    BY <1>3 DEF StoreInv, Sees
  <2>2. <<>> \in Seq(TrueEvents(db))
    OBVIOUS
  <2> QED BY <1>1, <1>3, <2>1, <2>2
<1>10. StoreInv'
  BY <1>1, <1>4, <1>5, <1>6, <1>7, <1>8, <1>9 DEF StoreInv, Sees
<1> QED BY <1>1, <1>4, <1>10, EvolvesFollows

\* A lock request: a transaction of its own that leaves the content alone.
LEMMA LockRequestStep ==
  ASSUME StoreInv, NEW p \in Writers, NEW d, NEW ev, LockRequest(p, d, ev),
         DBInv(d), LockInv(d), SameContent(db, d), ev \in TrueEvents(d)
  PROVE  StoreInv' /\ Follows(db, db')
<1>1. /\ db' = d /\ staged' = d
      /\ pending' = [pending EXCEPT ![p] = <<ev>>]
      /\ writer' = [writer EXCEPT ![p] = "flushing"] /\ writer[p] = "idle" /\ WriteLockFree
  BY DEF LockRequest
<1>2. writer \in [Writers -> {"idle", "open", "flushing"}] /\ DOMAIN pending = Writers
  BY DEF StoreInv
<1>3. /\ writer'[p] = "flushing" /\ pending'[p] = <<ev>>
      /\ \A q \in Writers \ {p} : writer'[q] = writer[q] /\ writer[q] # "open" /\ pending'[q] = pending[q]
  BY <1>1, <1>2 DEF WriteLockFree
<1>4. IsDB(db) /\ IsDB(d) /\ Evolves(d, d)
  BY EvolvesRefl DEF StoreInv, DBInv
<1>5. Follows(db, d)
  BY <1>4, EvolvesFollows
<1>6. TrueEvents(db) \subseteq TrueEvents(d)
  BY <1>4, <1>5, HappenedStays
<1>7. DeletesLogged(d)
  BY DEF StoreInv, DeletesLogged, SameContent
<1>8. writer' \in [Writers -> {"idle", "open", "flushing"}]
  BY <1>1, <1>2
<1>9. \A q, o \in Writers : writer'[q] = "open" /\ writer'[o] = "open" => q = o
  BY <1>3
<1>10. DOMAIN pending' = Writers /\ pending' = [q \in Writers |-> pending'[q]]
  BY <1>1, <1>2
<1>11. <<ev>> \in Seq(TrueEvents(d)) /\ <<ev>> # <<>>
  OBVIOUS
<1>12. \A q \in Writers : writer'[q] = "idle" <=> pending'[q] = <<>>
  <2>1. \A q \in Writers : writer[q] = "idle" <=> pending[q] = <<>>
    BY DEF StoreInv
  <2> QED BY <1>3, <1>11, <2>1
<1>13. \A q \in Writers : pending'[q] \in Seq(TrueEvents(IF writer'[q] = "open" THEN staged' ELSE db'))
  <2>1. ASSUME NEW q \in Writers \ {p} PROVE pending[q] \in Seq(TrueEvents(d))
    <3>1. pending[q] \in Seq(TrueEvents(db))
      BY <1>3 DEF StoreInv, Sees
    <3> QED BY <1>6, <3>1, SeqMono
  <2> QED BY <1>1, <1>3, <1>11, <2>1
<1>14. StoreInv'
  BY <1>1, <1>4, <1>7, <1>8, <1>9, <1>10, <1>12, <1>13 DEF StoreInv, Sees
<1> QED BY <1>1, <1>5, <1>14

\* Locking or unlocking a config preserves the write side.
LEMMA LockConfigStep ==
  ASSUME StoreInv, NEW p \in Writers, NEW k \in Keys, NEW locked \in BOOLEAN,
         LockConfig(p, k, locked)
  PROVE  StoreInv' /\ Follows(db, db')
<1> DEFINE d == IF canToggleConfigLock(db, k, locked) THEN toggleConfigLock(db, k, locked) ELSE db
           ev == WatchEvent(LockType(locked), k, db.meta[k].revision, db.content[k])
<1>1. k \in DOMAIN db.meta /\ LockRequest(p, d, ev)
  BY DEF LockConfig
<1>2. DBInv(db) /\ LockInv(db) /\ IsDB(db)
  BY DEF StoreInv, DBInv
<1>3. DBInv(d) /\ LockInv(d) /\ SameContent(db, d)
  <2>1. CASE canToggleConfigLock(db, k, locked)
    BY <1>2, <2>1, ToggleConfigStep DEF Relocks
  <2>2. CASE ~canToggleConfigLock(db, k, locked)
    BY <1>2, <2>2 DEF SameContent
  <2> QED BY <2>1, <2>2
<1> HIDE DEF d
<1>4. Follows(db, d)
  BY <1>3, EvolvesFollows DEF DBInv
<1>5. ev \in TrueEvents(db)
  <2>1. /\ db.meta[k].revision \in 1 .. db.rev /\ db.rev \in Nat
        /\ <<k, db.meta[k].revision>> \in DOMAIN db.history
        /\ db.history[<<k, db.meta[k].revision>>] = db.content[k]
        /\ k \in DOMAIN db.content
    BY <1>1, <1>2 DEF DBInv, IsDB, LiveConfigAgrees
  <2>2. db.content[k] \in Contents
    BY <1>2, <2>1 DEF IsDB, IsBucket
  <2>3. LockType(locked) \in LockTypes /\ LockType(locked) \notin {"deleted", "DELETE"}
    BY DEF LockType, LockTypes
  <2>4. db.meta[k].revision \in Nat /\ db.meta[k].revision # 0 /\ db.meta[k].revision <= db.rev
    BY <2>1
  <2> QED BY <2>1, <2>2, <2>3, <2>4 DEF TrueEvents, Event, Happened, WatchEvent, Subjects
<1>6. ev \in TrueEvents(d)
  BY <1>2, <1>4, <1>5, HappenedStays
<1> HIDE DEF ev
<1> QED BY <1>1, <1>3, <1>6, LockRequestStep

\* Locking or unlocking a namespace preserves the write side.
LEMMA LockNamespaceStep ==
  ASSUME StoreInv, NEW p \in Writers, NEW n \in Namespaces, NEW locked \in BOOLEAN,
         LockNamespace(p, n, locked)
  PROVE  StoreInv' /\ Follows(db, db')
<1> DEFINE d == IF canToggleNamespaceLock(db, n, locked) THEN toggleNamespaceLock(db, n, locked) ELSE db
           ev == WatchEvent(LockType(locked), <<n, 0>>, 0, Absent)
<1>1. LockRequest(p, d, ev)
  BY DEF LockNamespace
<1>2. DBInv(db) /\ LockInv(db) /\ IsDB(db)
  BY DEF StoreInv, DBInv
<1>3. DBInv(d) /\ LockInv(d) /\ SameContent(db, d)
  <2>1. CASE canToggleNamespaceLock(db, n, locked)
    BY <1>2, <2>1, ToggleNamespaceStep DEF Relocks
  <2>2. CASE ~canToggleNamespaceLock(db, n, locked)
    BY <1>2, <2>2 DEF SameContent
  <2> QED BY <2>1, <2>2
<1> HIDE DEF d
<1>4. ev \in TrueEvents(d)
  <2>1. LockType(locked) \in LockTypes
    BY DEF LockType, LockTypes
  <2> QED BY <2>1 DEF TrueEvents, Event, Happened, WatchEvent, Subjects
<1> HIDE DEF ev
<1> QED BY <1>1, <1>3, <1>4, LockRequestStep

\* Publishing preserves the write side, and what is published is true.
LEMMA PublishStep ==
  ASSUME StoreInv, NEW p \in Writers, Publish(p)
  PROVE  /\ StoreInv' /\ Follows(db, db') /\ db' = db
         /\ Head(pending[p]) \in TrueEvents(db)
<1>1. /\ db' = db /\ staged' = staged /\ writer[p] = "flushing"
      /\ pending' = [pending EXCEPT ![p] = Tail(@)]
      /\ writer' = [writer EXCEPT ![p] = IF Tail(pending[p]) = <<>> THEN "idle" ELSE @]
  BY DEF Publish
<1>2. writer \in [Writers -> {"idle", "open", "flushing"}] /\ DOMAIN pending = Writers
  BY DEF StoreInv
<1>3. /\ writer'[p] = IF Tail(pending[p]) = <<>> THEN "idle" ELSE "flushing"
      /\ pending'[p] = Tail(pending[p])
      /\ \A q \in Writers \ {p} : writer'[q] = writer[q] /\ pending'[q] = pending[q]
  BY <1>1, <1>2
<1>4. pending[p] \in Seq(TrueEvents(db)) /\ pending[p] # <<>>
  BY <1>1 DEF StoreInv, Sees
<1>5. Head(pending[p]) \in TrueEvents(db) /\ Tail(pending[p]) \in Seq(TrueEvents(db))
  BY <1>4, SeqTail
<1>6. writer' \in [Writers -> {"idle", "open", "flushing"}]
  BY <1>1, <1>2
<1>7. \A q \in Writers : writer'[q] = "open" <=> writer[q] = "open"
  BY <1>1, <1>3
<1>8. \A q, o \in Writers : writer'[q] = "open" /\ writer'[o] = "open" => q = o
  BY <1>7 DEF StoreInv
<1>9. WriteLockFree' => staged' = db'
  BY <1>1, <1>7 DEF StoreInv, WriteLockFree
<1>10. DOMAIN pending' = Writers /\ pending' = [q \in Writers |-> pending'[q]]
  BY <1>1, <1>2
<1>11. \A q \in Writers : writer'[q] = "idle" <=> pending'[q] = <<>>
  <2>1. \A q \in Writers : writer[q] = "idle" <=> pending[q] = <<>>
    BY DEF StoreInv
  <2> QED BY <1>3, <2>1
<1>12. \A q \in Writers : pending'[q] \in Seq(TrueEvents(IF writer'[q] = "open" THEN staged' ELSE db'))
  <2>1. \A q \in Writers \ {p} : pending[q] \in Seq(TrueEvents(IF writer[q] = "open" THEN staged ELSE db))
    BY DEF StoreInv, Sees
  <2> QED BY <1>1, <1>3, <1>5, <1>7, <2>1
<1>13. /\ DBInv(db') /\ LockInv(db') /\ DeletesLogged(db')
       /\ DBInv(staged') /\ Evolves(db', staged') /\ DeletesLogged(staged')
  BY <1>1 DEF StoreInv
<1>14. StoreInv'
  BY <1>6, <1>8, <1>9, <1>10, <1>11, <1>12, <1>13 DEF StoreInv, Sees
<1>15. Follows(db, db')
  BY <1>1, EvolvesRefl, EvolvesFollows DEF StoreInv, DBInv
<1> QED BY <1>1, <1>5, <1>14, <1>15

\* Nothing of the write side changes.
LEMMA StoreStutters ==
  ASSUME StoreInv, UNCHANGED writeVars
  PROVE  StoreInv' /\ Follows(db, db')
<1>1. db' = db /\ staged' = staged /\ writer' = writer /\ pending' = pending
  BY DEF writeVars
<1>2. StoreInv'
  BY <1>1 DEF StoreInv, Sees, WriteLockFree
<1>3. Follows(db, db')
  BY <1>1, EvolvesRefl, EvolvesFollows DEF StoreInv, DBInv
<1> QED BY <1>2, <1>3

-----------------------------------------------------------------------------
(* The watch side.                                                         *)

\* Writers leave the watcher alone; the publisher may add to its channel.
LEMMA WatcherStays ==
  ASSUME StoreInv, WatchInv, Follows(db, db'), UNCHANGED watchVars,
         events' \in Seq(TrueEvents(db')), Len(events') <= BufferSize
  PROVE  WatchInv'
<1>1. /\ watch' = watch /\ request' = request /\ since' = since /\ batch' = batch
      /\ lastSent' = lastSent /\ sent' = sent /\ blank' = blank
  BY DEF watchVars
<1>2. TrueMessages(db, request.claims, blank) \subseteq TrueMessages(db', request.claims, blank)
  BY HappenedStays DEF StoreInv, DBInv
<1>3. sent \in Seq(TrueMessages(db', request.claims, blank))
  BY <1>2, SeqMono DEF WatchInv
<1>4. 1 .. db.rev \subseteq 1 .. db'.rev
  <2>1. db.rev \in Nat /\ db'.rev \in Nat /\ db'.rev >= db.rev
    BY DEF Follows, StoreInv, DBInv, IsDB
  <2> QED BY <2>1
<1>5. batch \in Seq(1 .. db'.rev)
  BY <1>4, SeqMono DEF WatchInv
<1> QED BY <1>1, <1>3, <1>5 DEF WatchInv, RevisionsInOrder, Increasing

\* A message with a revision above the last one, or of a namespace, may be sent.
LEMMA Sends ==
  ASSUME WatchInv, NEW m \in TrueMessages(db, request.claims, blank'), m.rev = 0 \/ m.rev > lastSent,
         sent' = Append(sent, m), lastSent' = IF m.rev > lastSent THEN m.rev ELSE lastSent,
         blank \subseteq blank'
  PROVE  /\ sent' \in Seq(TrueMessages(db, request.claims, blank'))
         /\ lastSent' \in Nat /\ lastSent' >= lastSent
         /\ \A i \in DOMAIN sent' : sent'[i].rev <= lastSent'
         /\ RevisionsInOrder'
<1> DEFINE M == TrueMessages(db, request.claims, blank')
           n == Len(sent) + 1
<1>1. sent \in Seq(M) /\ lastSent \in Nat /\ \A i \in DOMAIN sent : sent[i].rev <= lastSent
  BY MissedMore, SeqMono DEF WatchInv
<1>2. \A x \in M : x.rev \in Nat
  BY DEF TrueMessages, Message
<1> HIDE DEF M
<1>3. /\ sent' \in Seq(M) /\ DOMAIN sent' = DOMAIN sent \cup {n} /\ sent'[n] = m
      /\ \A i \in DOMAIN sent : sent'[i] = sent[i] /\ sent[i] \in M
  BY <1>1, SeqAppend DEF M
<1>4. m \in M /\ m.rev \in Nat
  BY <1>2 DEF M
<1>5. lastSent' \in Nat /\ lastSent' >= lastSent /\ m.rev <= lastSent'
  BY <1>1, <1>4
<1>6. ASSUME NEW i \in DOMAIN sent' PROVE sent'[i].rev <= lastSent'
  <2>1. CASE i = n
    BY <1>3, <1>5, <2>1
  <2>2. CASE i \in DOMAIN sent
    <3>1. sent'[i] = sent[i] /\ sent[i].rev \in Nat /\ sent[i].rev <= lastSent
      BY <1>1, <1>2, <1>3, <2>2
    <3> QED BY <1>1, <1>5, <3>1
  <2> QED BY <1>3, <2>1, <2>2
<1>7. ASSUME NEW i \in DOMAIN sent', NEW j \in DOMAIN sent',
             i < j, sent'[i].rev > 0, sent'[j].rev > 0
      PROVE  sent'[i].rev < sent'[j].rev
  <2>1. DOMAIN sent = 1 .. Len(sent) /\ Len(sent) \in Nat
    BY <1>1
  <2>2. i \in DOMAIN sent
    BY <1>3, <1>7, <2>1
  <2>3. sent'[i] = sent[i] /\ sent[i].rev \in Nat /\ sent[i].rev <= lastSent
    BY <1>1, <1>2, <1>3, <2>2
  <2>4. CASE j = n
    <3>1. sent'[j] = m /\ m.rev > lastSent
      BY <1>3, <1>4, <1>7, <2>4
    <3> QED BY <1>1, <1>4, <2>3, <3>1
  <2>5. CASE j \in DOMAIN sent
    <3>1. sent'[j] = sent[j]
      BY <1>3, <2>5
    <3> QED BY <1>7, <2>2, <2>3, <2>5, <3>1 DEF WatchInv, RevisionsInOrder
  <2> QED BY <1>3, <2>4, <2>5
<1>8. RevisionsInOrder'
  BY <1>7 DEF RevisionsInOrder
<1> QED BY <1>3, <1>5, <1>6, <1>8 DEF M

\* The next entry of a batch is sent, or skipped, and the rest lies above it.
LEMMA BatchTail ==
  ASSUME WatchInv, StoreInv, batch # <<>>, watch \in {"replaying", "draining"}
  PROVE  /\ Head(batch) \in 1 .. db.rev /\ Head(batch) \in Nat
         /\ lastSent < Head(batch) /\ Head(batch) <= since
         /\ Tail(batch) \in Seq(1 .. db.rev) /\ Len(Tail(batch)) <= BatchSize
         /\ Increasing(Tail(batch))
         /\ \A i \in DOMAIN Tail(batch) : Head(batch) < Tail(batch)[i] /\ Tail(batch)[i] <= since
<1>1. /\ batch \in Seq(1 .. db.rev) /\ Increasing(batch) /\ Len(batch) <= BatchSize
      /\ \A i \in DOMAIN batch : lastSent < batch[i] /\ batch[i] <= since
  BY DEF WatchInv
<1>2. db.rev \in Nat /\ BatchSize \in Nat
  BY PipelineAssumption DEF StoreInv, DBInv, IsDB
<1>3. /\ Head(batch) = batch[1] /\ Head(batch) \in 1 .. db.rev /\ Tail(batch) \in Seq(1 .. db.rev)
      /\ Len(Tail(batch)) = Len(batch) - 1
      /\ \A i \in 1 .. Len(batch) - 1 : Tail(batch)[i] = batch[i + 1]
  BY <1>1, SeqTail
<1>4. DOMAIN batch = 1 .. Len(batch) /\ Len(batch) \in Nat /\ 1 \in DOMAIN batch
  BY <1>1
<1>5. DOMAIN Tail(batch) = 1 .. Len(batch) - 1
  BY <1>3
<1> DEFINE T == Tail(batch)
<1> HIDE DEF T
<1>6. \A i \in DOMAIN T : i + 1 \in DOMAIN batch /\ T[i] = batch[i + 1]
  BY <1>3, <1>4, <1>5 DEF T
<1>7. Increasing(T)
  <2> SUFFICES ASSUME NEW i \in DOMAIN T, NEW j \in DOMAIN T, i < j PROVE T[i] < T[j]
    BY DEF Increasing
  <2>1. i \in Nat /\ j \in Nat /\ i + 1 < j + 1
    BY <1>4, <1>5 DEF T
  <2> QED BY <1>1, <1>6, <2>1 DEF Increasing
<1>8. ASSUME NEW i \in DOMAIN T PROVE batch[1] < T[i] /\ T[i] <= since
  <2>1. i \in Nat /\ 1 < i + 1
    BY <1>4, <1>5 DEF T
  <2> QED BY <1>1, <1>4, <1>6, <2>1 DEF Increasing
<1>9. Len(T) <= BatchSize
  BY <1>1, <1>2, <1>3, <1>4 DEF T
<1>10. Head(batch) \in Nat /\ lastSent < Head(batch) /\ Head(batch) <= since
  BY <1>1, <1>2, <1>3, <1>4
<1> QED BY <1>3, <1>7, <1>8, <1>9, <1>10 DEF T

\* Creating the watcher preserves the invariant.
LEMMA CreateWatcherStep ==
  ASSUME WatchInv, CreateWatcher
  PROVE  WatchInv'
<1>1. /\ watch = "none" /\ watch' \in {"created", "closed"}
      /\ db' = db /\ events' = events /\ request' = request /\ since' = since
      /\ batch' = batch /\ lastSent' = lastSent /\ sent' = sent /\ blank' = blank
  BY DEF CreateWatcher, writeVars, pubVars
<1> QED BY <1>1 DEF WatchInv, RevisionsInOrder, Increasing

\* Subscribing preserves the invariant: the replay starts where asked.
LEMMA SubscribeStep ==
  ASSUME WatchInv, Subscribe
  PROVE  WatchInv'
<1>1. /\ watch = "created" /\ watch' = (IF Replays THEN "replaying" ELSE "live")
      /\ since' = (IF Replays THEN request.start - 1 ELSE 0)
      /\ db' = db /\ events' = events /\ request' = request
      /\ batch' = batch /\ lastSent' = lastSent /\ sent' = sent /\ blank' = blank
  BY DEF Subscribe, writeVars
<1>2. batch = <<>> /\ lastSent = 0 /\ request.start \in Nat
  BY <1>1 DEF WatchInv
<1>3. since' \in Nat
  BY <1>1, <1>2 DEF Replays
<1>4. DOMAIN batch = {}
  BY <1>2
<1>5. lastSent' <= since'
  BY <1>1, <1>2, <1>3
<1> QED BY <1>1, <1>2, <1>3, <1>4, <1>5 DEF WatchInv, RevisionsInOrder, Increasing

\* Reading a batch of the changelog preserves the invariant.
LEMMA ReplayReadStep ==
  ASSUME StoreInv, WatchInv, ReplayRead
  PROVE  WatchInv'
<1> DEFINE s == ListChanges(db, since, BatchSize)
<1>1. /\ watch = "replaying" /\ batch = <<>> /\ batch' = s
      /\ since' = (IF s = <<>> THEN since ELSE s[Len(s)])
      /\ watch' = (IF s = <<>> THEN "live" ELSE IF Len(s) < BatchSize THEN "draining" ELSE "replaying")
      /\ db' = db /\ events' = events /\ request' = request
      /\ lastSent' = lastSent /\ sent' = sent /\ blank' = blank
  BY DEF ReplayRead, writeVars, pubVars
<1>2. DBInv(db) /\ db.rev \in Nat /\ since \in Nat /\ lastSent \in Nat /\ BatchSize \in Nat /\ lastSent <= since
  BY <1>1, PipelineAssumption DEF StoreInv, DBInv, IsDB, WatchInv
<1> DEFINE A == since + 1 .. db.rev
<1>3. s \in Seq(A) /\ Len(s) <= BatchSize /\ Increasing(s)
  BY <1>2, ListChangesFacts DEF Increasing
<1>4. A \subseteq 1 .. db.rev /\ \A x \in A : x \in Nat /\ since < x
  BY <1>2
<1> HIDE DEF s, A
<1>5. s \in Seq(1 .. db.rev)
  BY <1>3, <1>4, SeqMono
<1>6. watch' \in {"live", "draining", "replaying"} /\ (watch' = "live" => s = <<>>)
  BY <1>1
<1>7. CASE s = <<>>
  <2>1. watch' = "live" /\ since' = since
    BY <1>1, <1>7
  <2> QED BY <1>1, <1>2, <1>3, <1>5, <1>7, <2>1 DEF WatchInv, RevisionsInOrder
<1>8. CASE s # <<>>
  <2>1. Len(s) \in Nat /\ DOMAIN s = 1 .. Len(s) /\ Len(s) \in DOMAIN s
    BY <1>3, <1>8
  <2>2. since' = s[Len(s)] /\ since' \in A
    BY <1>1, <1>3, <1>8, <2>1, SeqElem
  <2>3. since' \in Nat /\ lastSent <= since'
    BY <1>2, <1>4, <2>2
  <2>4. ASSUME NEW i \in DOMAIN s PROVE lastSent < s[i] /\ s[i] <= since'
    <3>1. s[i] \in Nat /\ since < s[i]
      BY <1>3, <1>4, SeqElem
    <3>2. i = Len(s) \/ i < Len(s)
      BY <2>1
    <3>3. s[i] = since' \/ s[i] < since'
      BY <1>3, <2>1, <2>2, <3>2 DEF Increasing
    <3> QED BY <1>2, <2>3, <3>1, <3>3
  <2>5. watch' \in {"draining", "replaying"}
    BY <1>1, <1>8
  <2> QED BY <1>1, <1>3, <1>5, <2>3, <2>4, <2>5 DEF WatchInv, RevisionsInOrder
<1> QED BY <1>7, <1>8

\* Sending or skipping the next entry of the batch preserves the invariant.
LEMMA ReplaySendStep ==
  ASSUME StoreInv, WatchInv, ReplaySend
  PROVE  WatchInv'
<1> PICK failed \in BOOLEAN : replayEntry(failed)
  BY DEF ReplaySend
<1> DEFINE r == Head(batch)
           matches == matchesKey(request, db.changelog[r].key)
           m == changelogToEvent(db, r, failed)
<1>1. /\ watch \in {"replaying", "draining"} /\ batch # <<>> /\ batch' = Tail(batch)
      /\ sent' = (IF matches THEN Append(sent, m) ELSE sent)
      /\ lastSent' = (IF matches /\ r > lastSent THEN r ELSE lastSent)
      /\ watch' = (IF watch = "draining" /\ Tail(batch) = <<>> THEN "live" ELSE watch)
      /\ db' = db /\ events' = events /\ request' = request /\ since' = since
      /\ blank' = (IF failed THEN blank \cup {r} ELSE blank) /\ (failed => matches)
  BY DEF replayEntry, writeVars, pubVars
<1>2. /\ r \in 1 .. db.rev /\ r \in Nat /\ lastSent < r /\ r <= since
      /\ Tail(batch) \in Seq(1 .. db.rev) /\ Len(Tail(batch)) <= BatchSize
      /\ Increasing(Tail(batch))
      /\ \A i \in DOMAIN Tail(batch) : r < Tail(batch)[i] /\ Tail(batch)[i] <= since
  BY <1>1, BatchTail
<1>3. lastSent \in Nat /\ since \in Nat /\ DBInv(db) /\ DeletesLogged(db)
  BY DEF WatchInv, StoreInv
<1>4. /\ sent' \in Seq(TrueMessages(db, request.claims, blank'))
      /\ lastSent' \in Nat /\ lastSent' <= r
      /\ \A i \in DOMAIN sent' : sent'[i].rev <= lastSent'
      /\ RevisionsInOrder'
  <2>1. CASE matches
    <3>1. namespaceAllowed(request.claims, db.changelog[r].key[1])
      BY <2>1 DEF matchesKey
    <3>2. m \in TrueMessages(db, request.claims, blank') /\ m.rev = r
      BY <1>1, <1>2, <1>3, <3>1, ReplayTrue
    <3> HIDE DEF m, r
    <3>3. m.rev > lastSent /\ lastSent' = (IF m.rev > lastSent THEN m.rev ELSE lastSent)
      BY <1>1, <1>2, <1>3, <2>1, <3>2
    <3>4. sent' = Append(sent, m)
      BY <1>1, <2>1
    <3>5. lastSent' = r
      BY <3>2, <3>3
    <3>6. r <= r
      BY <1>2
    <3>7. blank \subseteq blank'
      BY <1>1
    <3> QED BY <3>2, <3>3, <3>4, <3>5, <3>6, <3>7, Sends
  <2>2. CASE ~matches
    <3>1. sent' = sent /\ lastSent' = lastSent /\ blank' = blank
      BY <1>1, <2>2
    <3> QED BY <1>2, <1>3, <3>1 DEF WatchInv, RevisionsInOrder
  <2> QED BY <2>1, <2>2
<1>5. lastSent' <= since'
  BY <1>1, <1>2, <1>3, <1>4
<1>6. \A i \in DOMAIN batch' : lastSent' < batch'[i] /\ batch'[i] <= since'
  <2> SUFFICES ASSUME NEW i \in DOMAIN Tail(batch) PROVE lastSent' < Tail(batch)[i]
    BY <1>1, <1>2
  <2>1. Tail(batch)[i] \in 1 .. db.rev /\ db.rev \in Nat
    BY <1>2, <1>3, SeqElem DEF DBInv, IsDB
  <2> HIDE DEF r
  <2> QED BY <1>2, <1>4, <2>1
<1>7. watch' \in {"replaying", "draining", "live"} /\ (watch' = "live" => batch' = <<>>)
  BY <1>1
<1> QED BY <1>1, <1>2, <1>3, <1>4, <1>5, <1>6, <1>7 DEF WatchInv

\* Forwarding or dropping an event of the channel preserves the invariant.
LEMMA ForwardEventStep ==
  ASSUME StoreInv, WatchInv, ForwardEvent
  PROVE  WatchInv'
<1> DEFINE ev == Head(events)
           sends == matchesKey(request, ev.key) /\ ~isDuplicate(ev)
           m == eventToProto(ev)
<1>1. /\ watch \in {"live", "cancelled"} /\ watch' = watch
      /\ events # <<>> /\ events' = Tail(events)
      /\ sent' = (IF sends THEN Append(sent, m) ELSE sent)
      /\ lastSent' = (IF sends /\ ev.rev > lastSent THEN ev.rev ELSE lastSent)
      /\ db' = db /\ request' = request /\ since' = since /\ batch' = batch
      /\ blank' = blank
  BY DEF ForwardEvent, writeVars
<1>2. /\ events \in Seq(TrueEvents(db)) /\ Len(events) <= BufferSize /\ lastSent \in Nat
      /\ batch = <<>> /\ BufferSize \in Nat
  BY <1>1, PipelineAssumption DEF WatchInv
<1>3. /\ ev \in TrueEvents(db) /\ Tail(events) \in Seq(TrueEvents(db))
      /\ Len(Tail(events)) = Len(events) - 1 /\ Len(events) \in Nat
  BY <1>1, <1>2, SeqTail
<1>4. Len(Tail(events)) <= BufferSize
  BY <1>2, <1>3
<1>5. /\ sent' \in Seq(TrueMessages(db, request.claims, blank))
      /\ lastSent' \in Nat
      /\ \A i \in DOMAIN sent' : sent'[i].rev <= lastSent'
      /\ RevisionsInOrder'
  <2>1. CASE sends
    <3>1. ev \in Event /\ Happened(db, ev) /\ namespaceAllowed(request.claims, ev.key[1])
      BY <1>3, <2>1 DEF TrueEvents, matchesKey
    <3> HIDE DEF ev
    <3>2. /\ m.key = ev.key /\ m.rev = ev.rev /\ m.value = ev.value
          /\ m.type = (IF ev.type = "deleted" THEN "DELETE" ELSE "PUT")
          /\ m \in Message
      BY <3>1 DEF eventToProto, Event, Message
    <3>3. ev.type \in WriteTypes \cup LockTypes
      BY <3>1 DEF Event
    <3> HIDE DEF m
    <3>4. m.type \in {"deleted", "DELETE"} <=> ev.type \in {"deleted", "DELETE"}
      BY <3>2, <3>3 DEF WriteTypes, LockTypes
    <3>5. Happened(db, m)
      BY <3>1, <3>2, <3>4 DEF Happened
    <3>6. m \in TrueMessages(db, request.claims, blank)
      BY <3>1, <3>2, <3>5 DEF TrueMessages
    <3>7. m.rev = 0 \/ m.rev > lastSent
      <4>1. ev.rev \in Nat
        BY <3>1 DEF Event
      <4> QED BY <1>2, <2>1, <3>2, <4>1 DEF isDuplicate
    <3>8. sent' = Append(sent, m) /\ lastSent' = (IF m.rev > lastSent THEN m.rev ELSE lastSent)
      BY <1>1, <2>1, <3>2
    <3>9. m \in TrueMessages(db, request.claims, blank') /\ blank \subseteq blank'
      BY <1>1, <3>6
    <3>10. /\ sent' \in Seq(TrueMessages(db, request.claims, blank'))
           /\ lastSent' \in Nat /\ lastSent' >= lastSent
           /\ \A i \in DOMAIN sent' : sent'[i].rev <= lastSent'
           /\ RevisionsInOrder'
      BY <3>7, <3>8, <3>9, Sends
    <3> QED BY <1>1, <3>10
  <2>2. CASE ~sends
    <3>1. sent' = sent /\ lastSent' = lastSent
      BY <1>1, <2>2
    <3> QED BY <3>1 DEF WatchInv, RevisionsInOrder
  <2> QED BY <2>1, <2>2
<1> QED BY <1>1, <1>2, <1>3, <1>4, <1>5 DEF WatchInv

\* The replay fails, the watch is cancelled or its goroutine stops: nothing is
\* sent, and nothing more is replayed.
LEMMA WatcherEnds ==
  ASSUME WatchInv, ReplayFails \/ Cancel \/ StopWatcher
  PROVE  WatchInv'
<1>1. /\ watch' \in {"dead", "cancelled", "closed"} /\ events' \in {events, <<>>}
      /\ batch' = <<>>
      /\ db' = db /\ request' = request /\ since' = since /\ lastSent' = lastSent /\ sent' = sent /\ blank' = blank
  <2>1. CASE ReplayFails
    BY <2>1 DEF ReplayFails, writeVars, pubVars
  <2>2. CASE Cancel
    BY <2>2 DEF Cancel, writeVars
  <2>3. CASE StopWatcher
    BY <2>3 DEF StopWatcher, writeVars, WatchInv
  <2> QED BY <2>1, <2>2, <2>3
<1>2. <<>> \in Seq(1 .. db.rev) /\ Len(<<>>) <= BatchSize /\ Increasing(<<>>)
  BY PipelineAssumption DEF Increasing
<1>3. events' \in Seq(TrueEvents(db)) /\ Len(events') <= BufferSize
  <2>1. <<>> \in Seq(TrueEvents(db)) /\ Len(<<>>) <= BufferSize
    BY PipelineAssumption
  <2> QED BY <1>1, <2>1 DEF WatchInv
<1> QED BY <1>1, <1>2, <1>3 DEF WatchInv, RevisionsInOrder

-----------------------------------------------------------------------------
(* Every step keeps the invariant.                                         *)

\* The invariant holds initially.
LEMMA InitInv ==
  ASSUME Init
  PROVE  IInv
<1> DEFINE desc == CHOOSE x \in Descriptions : TRUE
           ns == [n \in Namespaces |-> [locked |-> FALSE, description |-> desc]]
<1>1. DBInv(EmptyDB) /\ LockInv(EmptyDB)
  BY EmptyInv
<1>2. db = [EmptyDB EXCEPT !.namespaces = ns] /\ staged = db
  BY DEF Init
<1>3. NamespaceChanged(EmptyDB, db)
  <2>1. DOMAIN db = DOMAIN EmptyDB /\ db.namespaces = ns
    BY <1>2 DEF EmptyDB
  <2>2. /\ db.rev = EmptyDB.rev /\ db.content = EmptyDB.content /\ db.history = EmptyDB.history
        /\ db.changelog = EmptyDB.changelog /\ db.asOf = EmptyDB.asOf /\ db.meta = EmptyDB.meta
        /\ db.lockSeq = EmptyDB.lockSeq /\ db.lockHistory = EmptyDB.lockHistory
        /\ db.lockChangelog = EmptyDB.lockChangelog
    BY <1>2 DEF EmptyDB
  <2>3. desc \in Descriptions
    BY PipelineAssumption
  <2>4. IsBucket(ns, Namespaces, NamespaceMeta)
    BY <2>3 DEF IsBucket, NamespaceMeta
  <2>5. \A x : ~isNamespaceLocked(db, x)
    BY <2>1 DEF isNamespaceLocked
  <2>6. \A x : ~isNamespaceLocked(EmptyDB, x)
    BY DEF isNamespaceLocked, EmptyDB, Empty
  <2> QED BY <2>1, <2>2, <2>4, <2>5, <2>6 DEF NamespaceChanged
<1>4. DBInv(db) /\ LockInv(db) /\ IsDB(db)
  BY <1>1, <1>3, NamespaceChangeInv DEF DBInv
<1>5. db.rev = 0 /\ DeletesLogged(db)
  BY <1>2 DEF EmptyDB, DeletesLogged
<1>6. /\ writer = [p \in Writers |-> "idle"] /\ pending = [p \in Writers |-> <<>>]
      /\ watch = "none" /\ events = <<>> /\ since = 0 /\ batch = <<>> /\ lastSent = 0 /\ sent = <<>>
      /\ request.start \in 0 .. MaxRevision
  BY DEF Init
<1>7. StoreInv
  BY <1>2, <1>4, <1>5, <1>6, EvolvesRefl DEF StoreInv, Sees
<1>8. request.start \in Nat
  BY <1>6, BoundsAssumption
<1>9. Len(<<>>) <= BufferSize /\ Len(<<>>) <= BatchSize
  BY PipelineAssumption
<1>10. WatchInv
  BY <1>6, <1>8, <1>9 DEF WatchInv, Increasing, RevisionsInOrder
<1> QED BY <1>7, <1>10 DEF IInv

\* Every step preserves the invariant.
LEMMA StepInv ==
  ASSUME IInv, [Next]_vars
  PROVE  IInv'
<1> USE DEF IInv
<1>1. ASSUME StoreInv', Follows(db, db'), UNCHANGED watchVars, events' = events
      PROVE  WatchInv'
  <2>1. TrueEvents(db) \subseteq TrueEvents(db')
    BY <1>1, HappenedStays DEF StoreInv, DBInv
  <2>2. events' \in Seq(TrueEvents(db')) /\ Len(events') <= BufferSize
    BY <1>1, <2>1, SeqMono DEF WatchInv
  <2> QED BY <1>1, <2>2, WatcherStays
<1>2. CASE UNCHANGED vars
  <2>1. UNCHANGED writeVars /\ UNCHANGED watchVars /\ events' = events
    BY <1>2 DEF vars, pubVars
  <2> QED BY <1>1, <2>1, StoreStutters
<1>3. ASSUME NEW p \in Writers, NEW k \in Keys, NEW c \in Contents, Write(p, k, c) PROVE IInv'
  <2>1. UNCHANGED watchVars /\ events' = events
    BY <1>3 DEF Write, Operate, pubVars
  <2> QED BY <1>1, <1>3, <2>1, WriteStep
<1>4. ASSUME NEW p \in Writers, NEW r \in Ranges, DeleteRange(p, r) PROVE IInv'
  <2>1. UNCHANGED watchVars /\ events' = events
    BY <1>4 DEF DeleteRange, Operate, pubVars
  <2> QED BY <1>1, <1>4, <2>1, DeleteRangeStepInv
<1>5. ASSUME NEW p \in Writers, Commit(p) PROVE IInv'
  <2>1. UNCHANGED watchVars /\ events' = events
    BY <1>5 DEF Commit, pubVars
  <2> QED BY <1>1, <1>5, <2>1, CommitStep
<1>6. ASSUME NEW p \in Writers, Rollback(p) PROVE IInv'
  <2>1. UNCHANGED watchVars /\ events' = events
    BY <1>6 DEF Rollback, pubVars
  <2> QED BY <1>1, <1>6, <2>1, RollbackStep
<1>7. ASSUME NEW p \in Writers, NEW k \in Keys, NEW locked \in BOOLEAN, LockConfig(p, k, locked)
      PROVE  IInv'
  <2>1. UNCHANGED watchVars /\ events' = events
    BY <1>7 DEF LockConfig, LockRequest
  <2> QED BY <1>1, <1>7, <2>1, LockConfigStep
<1>8. ASSUME NEW p \in Writers, NEW n \in Namespaces, NEW locked \in BOOLEAN, LockNamespace(p, n, locked)
      PROVE  IInv'
  <2>1. UNCHANGED watchVars /\ events' = events
    BY <1>8 DEF LockNamespace, LockRequest
  <2> QED BY <1>1, <1>8, <2>1, LockNamespaceStep
<1>9. ASSUME NEW p \in Writers, Publish(p) PROVE IInv'
  <2>1. StoreInv' /\ Follows(db, db') /\ db' = db /\ Head(pending[p]) \in TrueEvents(db)
    BY <1>9, PublishStep
  <2>2. UNCHANGED watchVars
    BY <1>9 DEF Publish
  <2>3. events' = events \/ (Len(events) < BufferSize /\ events' = Append(events, Head(pending[p])))
    BY <1>9 DEF Publish
  <2>4. events \in Seq(TrueEvents(db)) /\ Len(events) <= BufferSize /\ BufferSize \in Nat
    BY PipelineAssumption DEF WatchInv
  <2>5. events' \in Seq(TrueEvents(db)) /\ Len(events') <= BufferSize
    <3>1. CASE events' = events
      BY <2>4, <3>1
    <3>2. CASE Len(events) < BufferSize /\ events' = Append(events, Head(pending[p]))
      <4>1. events' \in Seq(TrueEvents(db)) /\ Len(events') = Len(events) + 1 /\ Len(events) \in Nat
        BY <2>1, <2>4, <3>2, SeqAppend
      <4> QED BY <2>4, <3>2, <4>1
    <3> QED BY <2>3, <3>1, <3>2
  <2> QED BY <2>1, <2>2, <2>5, WatcherStays
<1>10. CASE CreateWatcher
  <2>1. UNCHANGED writeVars
    BY <1>10 DEF CreateWatcher
  <2> QED BY <1>10, <2>1, StoreStutters, CreateWatcherStep
<1>11. CASE Subscribe
  <2>1. UNCHANGED writeVars
    BY <1>11 DEF Subscribe
  <2> QED BY <1>11, <2>1, StoreStutters, SubscribeStep
<1>12. CASE ReplayRead
  <2>1. UNCHANGED writeVars
    BY <1>12 DEF ReplayRead
  <2> QED BY <1>12, <2>1, StoreStutters, ReplayReadStep
<1>13. CASE ReplaySend
  <2>1. UNCHANGED writeVars
    BY <1>13 DEF ReplaySend, replayEntry
  <2> QED BY <1>13, <2>1, StoreStutters, ReplaySendStep
<1>14. CASE ForwardEvent
  <2>1. UNCHANGED writeVars
    BY <1>14 DEF ForwardEvent
  <2> QED BY <1>14, <2>1, StoreStutters, ForwardEventStep
<1>15. CASE ReplayFails \/ Cancel \/ StopWatcher
  <2>1. UNCHANGED writeVars
    BY <1>15 DEF ReplayFails, Cancel, StopWatcher
  <2> QED BY <1>15, <2>1, StoreStutters, WatcherEnds
<1> QED BY <1>2, <1>3, <1>4, <1>5, <1>6, <1>7, <1>8, <1>9, <1>10, <1>11, <1>12, <1>13, <1>14,
           <1>15 DEF Next

-----------------------------------------------------------------------------
(* Theorems.                                                               *)

\* The invariant holds always: writers, publisher and watch server interleave
\* as they may.
THEOREM Inductive == Spec => []IInv
<1>1. Init => IInv
  BY InitInv
<1>2. IInv /\ [Next]_vars => IInv'
  BY StepInv
<1> QED BY <1>1, <1>2, PTL DEF Spec

\* Types, the write lock's exclusion and the capacity of channel and batch.
THEOREM WatchTypes == Spec => []TypeOK
<1>1. IInv => TypeOK
  <2> SUFFICES ASSUME IInv PROVE TypeOK
    OBVIOUS
  <2>1. TrueMessages(db, request.claims, blank) \subseteq Message
    BY DEF TrueMessages
  <2>2. sent \in Seq(Message)
    BY <2>1, SeqMono DEF IInv, WatchInv
  <2> QED BY <2>2 DEF IInv, StoreInv, WatchInv, TypeOK
<1> QED BY <1>1, Inductive, PTL

\* The watch server, replaying the changelog or forwarding live events, tells a
\* client only of what is committed, whichever transactions roll back, and with
\* its value, unless the replay failed to read that and sent the write without.
THEOREM OnlyCommitted == Spec => []EventsAreCommitted
<1>1. IInv => EventsAreCommitted
  <2> SUFFICES ASSUME IInv, NEW i \in DOMAIN sent
               PROVE  LET m == sent[i]
                      IN  IF m.rev = 0 THEN m.key[2] = 0
                          ELSE /\ m.rev <= db.rev
                               /\ m.type = "PUT" => /\ <<m.key, m.rev>> \in DOMAIN db.history
                                                    /\ \/ db.history[<<m.key, m.rev>>] = m.value
                                                       \/ m.value = Absent /\ m.rev \in blank
                               /\ m.type = "DELETE" => /\ m.key \in DOMAIN db.asOf[m.rev - 1]
                                                       /\ m.key \notin DOMAIN db.asOf[m.rev]
    BY DEF EventsAreCommitted
  <2>1. sent \in Seq(TrueMessages(db, request.claims, blank))
    BY DEF IInv, WatchInv
  <2>2. sent[i] \in TrueMessages(db, request.claims, blank)
    BY <2>1
  <2>3. Happened(db, sent[i]) \/ Unvalued(db, sent[i], blank)
    BY <2>2 DEF TrueMessages
  <2> QED BY <2>3 DEF Happened, Unvalued
<1> QED BY <1>1, Inductive, PTL

\* The watch server sends revisions in increasing order, each once, across the
\* seam between the replay and live events (forwardEvent drops duplicates).
THEOREM InOrder == Spec => []RevisionsInOrder
<1>1. IInv => RevisionsInOrder
  BY DEF IInv, WatchInv
<1> QED BY <1>1, Inductive, PTL

\* The watch server sends events of the namespaces of the client's token only
\* (matchesKey).
THEOREM InScope == Spec => []WatchInScope
<1>1. IInv => WatchInScope
  <2> SUFFICES ASSUME IInv, NEW i \in DOMAIN sent
               PROVE  namespaceAllowed(request.claims, sent[i].key[1])
    BY DEF WatchInScope
  <2>1. sent \in Seq(TrueMessages(db, request.claims, blank))
    BY DEF IInv, WatchInv
  <2>2. sent[i] \in TrueMessages(db, request.claims, blank)
    BY <2>1
  <2> QED BY <2>2 DEF TrueMessages
<1> QED BY <1>1, Inductive, PTL

=============================================================================
