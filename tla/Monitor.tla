------------------------------- MODULE Monitor ------------------------------
(***************************************************************************)
(* The monitor of connected etcd clients: the registry fed by the gRPC     *)
(* stats handler and the watch server, the history of past connections     *)
(* with its writer goroutine, and the streams of the web UI that follow a  *)
(* client.                                                                 *)
(*                                                                         *)
(* entries holds every clientEntry of the process; registered is the set   *)
(* of connection ids the registry's map holds, since a goroutine may work  *)
(* on an entry that has just been taken out of it.  pubs holds the         *)
(* publishers of single clients.  The history bucket is a set of           *)
(* [key, id, name] with key = <<time, suffix>>; a cursor outside a         *)
(* transaction is empty.  Durations, methods and addresses are left out.   *)
(* The variables lost and overlapped are auxiliary.                        *)
(* Operators named X_fault are faulty variants of X.                       *)
(***************************************************************************)
EXTENDS Naturals, Sequences, FiniteSets, FiniteSetsExt, Functions

CONSTANTS
  ClientNames,          \* names clients give themselves
  NoName,               \* no identity yet
  Viewers,              \* [viewers -> [admin: BOOLEAN, nsScope: set of namespaces]]
  Streams,              \* WatchClient streams
  Lists,                \* WatchClients streams
  MaxClock,             \* bound on the clock
  BufferSize,           \* capacity of the history's channel
  MaxRecords,           \* retained snapshots
  MaxAge,               \* their age
  RecentEventsCapacity, \* events kept for a client
  SubscriberBuffer,     \* capacity of a subscriber's channel
  NoPub                 \* the client has no publisher

VARIABLES
  clock,      \* time of the last disconnect
  booted,     \* time the process started
  nextID,     \* connections registered
  entries,    \* [ids -> clientEntry]
  registered, \* ids in the registry's map
  storing,    \* watch updates that have yet to store their count: {[id, by, count]}
  closing,    \* UnregisterConnection in progress: {[id, stage, snap]}
  pubs,       \* [publishers of single clients -> stopped]
  in,         \* the history's channel
  shutdown,   \* the history has been shut down
  saved,      \* the client_history bucket
  streams,    \* [Streams -> [id, stage, pub, ch]]
  lists,      \* [Lists -> [stage, ch, closed, view]]
  lost,       \* auxiliary: {[id, why]}, snapshots not saved
  overlapped  \* auxiliary: ids with two watch updates at once

monitorVars == <<clock, booted, nextID, entries, registered, storing, closing, pubs, in, shutdown, saved,
                 streams, lists, lost, overlapped>>

registryVars == <<clock, booted, nextID, entries, registered, storing, closing, pubs, overlapped>>

historyVars == <<in, shutdown, saved, lost>>

-----------------------------------------------------------------------------
(* The history repository.                                                 *)

\* Outside WithTx and WithReadTx, as the history calls it, a cursor finds
\* nothing (autoBucket.Cursor); inside it walks the bucket.
Cursor(inTx, bucket) == IF inTx THEN bucket ELSE {}

keyLess(a, b) == a[1] < b[1] \/ (a[1] = b[1] /\ a[2] < b[2])

\* The time, with the connection id when the time is taken.
timeKey(rows, snap) ==
  IF \E row \in rows : row.key = <<snap.at, 0>> THEN <<snap.at, snap.id>> ELSE <<snap.at, 0>>

Save_overwrites(rows, snap) ==
  {row \in rows : row.key # <<snap.at, 0>>} \cup {[key |-> <<snap.at, 0>>, id |-> snap.id, name |-> snap.name]}

Save(rows, snap) ==
  LET key == timeKey(rows, snap)
  IN  {row \in rows : row.key # key} \cup {[key |-> key, id |-> snap.id, name |-> snap.name]}

newest(rows, n) ==
  {row \in rows : Cardinality({r \in rows : keyLess(row.key, r.key)}) < n}

ListHistory(rows, inTx, limit) ==
  LET found == Cursor(inTx, rows)
  IN  IF limit <= 0 THEN found ELSE newest(found, limit)

ListByClient(rows, inTx, name, limit) ==
  LET found == {row \in Cursor(inTx, rows) : row.name = name}
  IN  IF limit <= 0 THEN found ELSE newest(found, limit)

Count(rows) == Cardinality(rows)

DeleteOldest(rows, inTx, n) ==
  rows \ {row \in Cursor(inTx, rows) : Cardinality({r \in rows : keyLess(r.key, row.key)}) < n}

DeleteOlderThan(rows, inTx, cutoff) == rows \ {row \in Cursor(inTx, rows) : row.key[1] < cutoff}

\* Age first, then number.
applyRetention(rows, now) ==
  LET young == IF now > MaxAge THEN DeleteOlderThan(rows, FALSE, now - MaxAge) ELSE rows
  IN  IF Count(young) <= MaxRecords THEN young
      ELSE DeleteOldest(young, FALSE, Count(young) - MaxRecords)

-----------------------------------------------------------------------------
(* Clients as viewers see them.                                            *)

toDomain(id) ==
  [id |-> id, name |-> entries[id].name, watches |-> entries[id].watches,
   activeWatches |-> entries[id].activeWatches, requests |-> entries[id].requests]

\* An administrator sees all, others by the namespaces they can read.
newScopeChecker(viewer) ==
  IF Viewers[viewer].admin THEN [admin |-> TRUE, nsScope |-> {}]
                           ELSE [admin |-> FALSE, nsScope |-> Viewers[viewer].nsScope]

\* Only a live watch in a namespace one can read makes a client visible; past
\* connections keep no watches.
visible(scope, client) ==
  scope.admin \/ \E w \in DOMAIN client.watches : client.watches[w] \in scope.nsScope

filter(scope, clients) == {c \in clients : visible(scope, c)}

ListActive(viewer) == filter(newScopeChecker(viewer), {toDomain(id) : id \in registered})

pastClient(row) == [id |-> row.id, name |-> row.name, watches |-> <<>>, activeWatches |-> 0, requests |-> 0]

defaultHistorical == 100

defaultSessions == 50

ListHistorical(viewer, limit) ==
  filter(newScopeChecker(viewer),
         {pastClient(row) : row \in ListHistory(saved, FALSE, IF limit <= 0 THEN defaultHistorical ELSE limit)})

\* One more is fetched, in case the current session is among them.
ListSessions(viewer, name, currentID, limit) ==
  LET n    == IF limit <= 0 THEN defaultSessions ELSE limit
      rows == newest({r \in ListByClient(saved, FALSE, name, n + 1) : r.id # currentID}, n)
  IN  IF name = NoName THEN {} ELSE filter(newScopeChecker(viewer), {pastClient(row) : row \in rows})

historyScanLimit == 1000

\* The registry first, with the recent events, then the recent history.
Get(viewer, id) ==
  LET active == {toDomain(x) : x \in {id} \cap registered}
      past   == {pastClient(row) : row \in newest({r \in ListHistory(saved, FALSE, historyScanLimit) : r.id = id}, 1)}
  IN  [clients |-> filter(newScopeChecker(viewer), IF active # {} THEN active ELSE past),
       recent  |-> IF active # {} THEN entries[id].events ELSE 0]

\* What the web API shows of a client, its watches by their ids.
domainClientToProto(c) ==
  [id |-> c.id, name |-> c.name, activeWatches |-> c.activeWatches, requests |-> c.requests,
   activeWatchList |-> DOMAIN c.watches]

maxPaginationLimit == 10000

\* A limit out of range is refused, which the answer {} stands for.
NormalizeLimit(limit) == limit \in 0 .. maxPaginationLimit

ListActiveClients(viewer) == {domainClientToProto(c) : c \in ListActive(viewer)}

ListHistoricalConnections(viewer, limit) ==
  {domainClientToProto(c) : c \in {x \in ListHistorical(viewer, limit) : NormalizeLimit(limit)}}

ListClientSessions(viewer, name, currentID, limit) ==
  {domainClientToProto(c) : c \in {x \in ListSessions(viewer, name, currentID, limit) : NormalizeLimit(limit)}}

\* For administrators only.
GetClient(viewer, id) ==
  IF Viewers[viewer].admin /\ Get(viewer, id).clients # {}
  THEN [found  |-> {domainClientToProto(c) : c \in Get(viewer, id).clients}, recent |-> Get(viewer, id).recent]
  ELSE [found  |-> {}, recent |-> 0]

isActive(id) == id \in registered

-----------------------------------------------------------------------------
(* Publishers of single clients.                                           *)

\* The frame is lost for a stream whose channel is full.
deliverTo(st, kind) == IF Len(st.ch) < SubscriberBuffer THEN [st EXCEPT !.ch = Append(@, kind)] ELSE st

publish(pub, kind, sts) ==
  [s \in Streams |-> IF sts[s].stage = "loop" /\ sts[s].pub = pub THEN deliverTo(sts[s], kind) ELSE sts[s]]

\* The channels of the publisher's subscribers are closed behind what they hold.
shutdownPub(pub, sts) ==
  [s \in Streams |-> IF sts[s].stage = "loop" /\ sts[s].pub = pub THEN [sts[s] EXCEPT !.pub = NoPub] ELSE sts[s]]

\* The publisher of all clients: the frame is lost for a full channel.
publishAll(kind, id) ==
  [l \in Lists |->
     IF lists[l].stage \in {"first", "loop"} /\ ~lists[l].closed /\ Len(lists[l].ch) < SubscriberBuffer
     THEN [lists[l] EXCEPT !.ch = Append(@, [kind |-> kind, id |-> id])] ELSE lists[l]]

-----------------------------------------------------------------------------
(* The registry.                                                           *)

\* watches: [watch ids -> namespace of the watched key]; calls: RPCs between
\* TagRPC and their end, which gRPC keeps track of.
newEntry ==
  [name |-> NoName, identSet |-> FALSE, watches |-> <<>>, activeWatches |-> 0, requests |-> 0,
   events |-> 0, pub |-> NoPub, calls |-> 0]

\* TagConn.
RegisterConnection ==
  /\ nextID' = nextID + 1
  /\ entries' = Append(entries, newEntry)
  /\ registered' = registered \cup {nextID + 1}
  /\ lists' = publishAll("connected", nextID + 1)
  /\ UNCHANGED <<clock, booted, storing, closing, pubs, overlapped, historyVars, streams>>

\* The first RPC with identity headers fixes the identity, named or not.
UpdateIdentity(e, name) == IF e.identSet THEN e ELSE [e EXCEPT !.name = name, !.identSet = TRUE]

\* A completed RPC counts and is among the recent events, a full ring of which
\* forgets the oldest.
RecordRequest(e) ==
  [e EXCEPT !.requests = @ + 1, !.events = IF @ < RecentEventsCapacity THEN @ + 1 ELSE @]

\* Activity is told at most once in a while.
maybePublishActivity(id) == lists' \in {lists, publishAll("activity", id)}

\* The start of an RPC: names is the name its identity headers give, if it has any.
TagRPC(id, names) ==
  LET e == IF names = {} THEN entries[id] ELSE UpdateIdentity(entries[id], CHOOSE n \in names : TRUE)
  IN  /\ id \in registered
      /\ entries' = [entries EXCEPT ![id] = [e EXCEPT !.calls = @ + 1]]
      /\ UNCHANGED <<clock, booted, nextID, registered, storing, closing, pubs, overlapped, historyVars, streams, lists>>

\* Its end, which the client's subscribers are told of.  When the connection
\* has been taken out of the registry it is not counted.
HandleRPC(id) ==
  LET e == [entries[id] EXCEPT !.calls = @ - 1]
  IN  /\ entries[id].calls > 0
      /\ IF id \in registered
         THEN /\ entries' = [entries EXCEPT ![id] = RecordRequest(e)]
              /\ maybePublishActivity(id)
              /\ streams' = publish(e.pub, "request", streams)
         ELSE entries' = [entries EXCEPT ![id] = e] /\ UNCHANGED <<streams, lists>>
      /\ UNCHANGED <<clock, booted, nextID, registered, storing, closing, pubs, overlapped, historyVars>>

overlaps(id) == IF \E x \in storing : x.id = id THEN overlapped \cup {id} ELSE overlapped

\* RegisterWatch and UnregisterWatch, called by the handler of a watch stream,
\* change the list under its lock, if the connection is still there ...
changeWatches(id, by, ws) ==
  /\ IF id \in registered
     THEN /\ entries' = [entries EXCEPT ![id].watches = ws]
          /\ storing' = storing \cup {[id |-> id, by |-> by, count |-> Cardinality(DOMAIN ws)]}
          /\ overlapped' = overlaps(id)
     ELSE UNCHANGED <<entries, storing, overlapped>>
  /\ UNCHANGED <<clock, booted, nextID, registered, closing, pubs, historyVars, streams, lists>>

\* The detail of a watch id that is in the list already is overwritten.
RegisterWatch(id, by, w, ns) ==
  changeWatches(id, by, [x \in DOMAIN entries[id].watches \cup {w} |->
                           IF x = w THEN ns ELSE entries[id].watches[x]])

UnregisterWatch(id, by, w) ==
  changeWatches(id, by, Restrict(entries[id].watches, DOMAIN entries[id].watches \ {w}))

\* ... and store the count after they have released it.
storeCount(x) ==
  /\ storing' = storing \ {x}
  /\ entries' = [entries EXCEPT ![x.id].activeWatches = x.count]
  /\ UNCHANGED <<clock, booted, nextID, registered, closing, pubs, overlapped, historyVars, streams, lists>>

\* UnregisterConnection: LoadAndDelete and the last snapshot, ...
HandleConnEnd(id) ==
  \E t \in clock .. MaxClock :
    /\ id \in registered
    /\ registered' = registered \ {id}
    /\ clock' = t
    /\ closing' = closing \cup {[id |-> id, stage |-> "record", snap |-> [id |-> id, at |-> t, name |-> entries[id].name]]}
    /\ UNCHANGED <<booted, nextID, entries, storing, pubs, overlapped, historyVars, streams, lists>>

\* ... history.Record, which never blocks, ...
Record(c) ==
  /\ c.stage = "record"
  /\ closing' = (closing \ {c}) \cup {[c EXCEPT !.stage = "publish"]}
  /\ IF shutdown \/ Len(in) >= BufferSize
     THEN in' = in /\ lost' = lost \cup {[id |-> c.id, why |-> IF shutdown THEN "shutdown" ELSE "full"]}
     ELSE in' = Append(in, c.snap) /\ lost' = lost
  /\ UNCHANGED <<clock, booted, nextID, entries, registered, storing, pubs, overlapped, shutdown, saved, streams, lists>>

\* ... and the end of the client's publisher; the other one goes on.
closePub(c) ==
  LET pub == entries[c.id].pub
  IN  /\ c.stage = "publish"
      /\ closing' = closing \ {c}
      /\ pubs' = [x \in DOMAIN pubs |-> pubs[x] \/ x = pub]
      /\ entries' = [entries EXCEPT ![c.id].pub = NoPub]
      /\ streams' = IF pub = NoPub THEN streams ELSE shutdownPub(pub, publish(pub, "disconnected", streams))
      /\ lists' = publishAll("disconnected", c.id)
      /\ UNCHANGED <<clock, booted, nextID, registered, storing, overlapped, historyVars>>

-----------------------------------------------------------------------------
(* The history's writer.                                                   *)

\* The writer goroutine saves a snapshot and applies the retention.
persist(storeOpen) ==
  /\ in # <<>>
  /\ in' = Tail(in)
  /\ IF storeOpen
     THEN LET rows == Save(saved, Head(in))
          IN  /\ saved' = applyRetention(rows, clock)
              /\ lost' = lost \cup {[id |-> row.id, why |-> "evicted"] :
                                    row \in {r \in rows \ saved' : r.key[1] >= booted}}
     ELSE saved' = saved /\ lost' = lost \cup {[id |-> Head(in).id, why |-> "closed"]}
  /\ UNCHANGED <<registryVars, shutdown, streams, lists>>

-----------------------------------------------------------------------------
(* WatchClient streams.                                                    *)

NoStream == [id |-> 0, stage |-> "idle", pub |-> NoPub, ch |-> <<>>]

streamIs(s, st) == streams' = [streams EXCEPT ![s] = st]

leavesRegistry == UNCHANGED <<registryVars, historyVars, lists>>

streamEnds(s) == streamIs(s, [NoStream EXCEPT !.id = streams[s].id, !.stage = "ended"])

\* Only those who may read all clients may watch one.
WatchClient(viewer) == Viewers[viewer].admin

\* A client that is not found, or is not active, ends the stream at once.
initWatchClient(s, viewer, id) ==
  /\ streams[s].stage = "idle" /\ id \in 1 .. nextID
  /\ IF WatchClient(viewer) /\ Get(viewer, id).clients # {} /\ isActive(id)
     THEN streamIs(s, [NoStream EXCEPT !.id = id, !.stage = "lookup"])
     ELSE streamIs(s, [NoStream EXCEPT !.id = id, !.stage = "ended"])
  /\ leavesRegistry

\* SubscribeClient looks the entry up, ...
SubscribeClient(s) ==
  /\ streams[s].stage = "lookup"
  /\ IF isActive(streams[s].id) THEN streamIs(s, [streams[s] EXCEPT !.stage = "entry"])
                                ELSE streamEnds(s)
  /\ leavesRegistry

\* ... creates its publisher if there is none, even if the client has just gone, ...
ensurePub(s) ==
  LET id  == streams[s].id
      new == Len(pubs) + 1
      pub == IF entries[id].pub = NoPub THEN new ELSE entries[id].pub
  IN  /\ streams[s].stage = "entry"
      /\ pubs' = IF pub = new THEN Append(pubs, FALSE) ELSE pubs
      /\ entries' = [entries EXCEPT ![id].pub = pub]
      /\ streamIs(s, [streams[s] EXCEPT !.stage = "subscribe", !.pub = pub])
      /\ UNCHANGED <<clock, booted, nextID, registered, storing, closing, overlapped, historyVars, lists>>

\* ... and subscribes; the channel of a stopped publisher is closed already.
subscribe(s) ==
  /\ streams[s].stage = "subscribe"
  /\ IF pubs[streams[s].pub] THEN streamEnds(s) ELSE streamIs(s, [streams[s] EXCEPT !.stage = "loop"])
  /\ leavesRegistry

\* The next frame is sent; the last one, or a closed channel, ends the stream.
receiveChange(s) ==
  LET st == streams[s]
  IN  /\ st.stage = "loop" /\ (st.ch # <<>> \/ st.pub = NoPub)
      /\ IF st.ch = <<>> \/ Head(st.ch) = "disconnected" THEN streamEnds(s)
         ELSE streamIs(s, [st EXCEPT !.ch = Tail(@)])
      /\ leavesRegistry

sendTickerSnapshot_always(s) ==
  /\ streams[s].stage = "loop"
  /\ UNCHANGED monitorVars

\* The ticker asks for the client again and ends the stream when it is gone.
sendTickerSnapshot(s) ==
  /\ streams[s].stage = "loop"
  /\ IF isActive(streams[s].id) THEN streams' = streams ELSE streamEnds(s)
  /\ leavesRegistry

cancelStream(s) ==
  /\ streams[s].stage \notin {"idle", "ended"}
  /\ streamEnds(s)
  /\ leavesRegistry

-----------------------------------------------------------------------------
(* WatchClients streams.  view is what the frames sent so far show.        *)

NoList == [stage |-> "idle", ch |-> <<>>, closed |-> FALSE, view |-> {}]

leavesClients == UNCHANGED <<registryVars, historyVars, streams>>

WatchClients(viewer) == Viewers[viewer].admin

\* runWatch subscribes; a stopped publisher closes the channel at once.
runWatch(l, viewer, stopped) ==
  /\ lists[l].stage = "idle" /\ WatchClients(viewer)
  /\ lists' = [lists EXCEPT ![l] = [NoList EXCEPT !.stage = "first", !.closed = stopped]]
  /\ leavesClients

\* All clients, first and at every tick.
sendSnapshot(l) ==
  /\ lists[l].stage \in {"first", "loop"}
  /\ lists' = [lists EXCEPT ![l].stage = "loop", ![l].view = registered]
  /\ leavesClients

shown(view, change) ==
  CASE change.kind = "connected"    -> view \cup {change.id}
    [] change.kind = "disconnected" -> view \ {change.id}
    [] OTHER                        -> view

sendChange(l) ==
  /\ lists[l].stage = "loop" /\ lists[l].ch # <<>>
  /\ lists' = [lists EXCEPT ![l].ch = Tail(@), ![l].view = shown(@, Head(lists[l].ch))]
  /\ leavesClients

\* The viewer leaves, or the channel is closed and empty.
endWatch(l) ==
  /\ lists[l].stage = "loop"
  /\ lists' = [lists EXCEPT ![l] = [NoList EXCEPT !.stage = "ended"]]
  /\ leavesClients

watchLoop(l) ==
  \/ sendSnapshot(l)
  \/ sendChange(l)
  \/ lists[l].closed /\ lists[l].ch = <<>> /\ endWatch(l)

-----------------------------------------------------------------------------

MonitorInit ==
  /\ clock = 1 /\ booted = 1 /\ nextID = 0 /\ entries = <<>> /\ registered = {} /\ storing = {} /\ closing = {}
  /\ pubs = <<>> /\ in = <<>> /\ shutdown = FALSE /\ saved = {}
  /\ streams = [s \in Streams |-> NoStream] /\ lists = [l \in Lists |-> NoList] /\ lost = {} /\ overlapped = {}

\* A new process counts connections from one again; the bucket is what is left.
MonitorFresh ==
  /\ clock' = clock + 1 /\ booted' = clock + 1
  /\ nextID' = 0 /\ entries' = <<>> /\ registered' = {} /\ storing' = {} /\ closing' = {}
  /\ pubs' = <<>> /\ in' = <<>> /\ shutdown' = FALSE /\ saved' = saved
  /\ streams' = [s \in Streams |-> NoStream] /\ lists' = [l \in Lists |-> NoList] /\ lost' = {} /\ overlapped' = {}

\* Registry.Shutdown: the subscribers of clients in the map are closed.
shutdownRegistry ==
  LET gone == {entries[id].pub : id \in registered} \ {NoPub}
  IN  /\ pubs' = [x \in DOMAIN pubs |-> pubs[x] \/ x \in gone]
      /\ entries' = [id \in DOMAIN entries |->
                       IF id \in registered THEN [entries[id] EXCEPT !.pub = NoPub] ELSE entries[id]]
      /\ streams' = [s \in Streams |->
                       IF streams[s].stage = "loop" /\ streams[s].pub \in gone
                       THEN [streams[s] EXCEPT !.pub = NoPub] ELSE streams[s]]
      /\ lists' = [l \in Lists |-> [lists[l] EXCEPT !.closed = TRUE]]
      /\ UNCHANGED <<clock, booted, nextID, registered, storing, closing, overlapped, historyVars>>

\* HistoryStore.Shutdown: no more snapshots are taken; the queue is drained.
shutdownHistory ==
  /\ shutdown' = TRUE
  /\ UNCHANGED <<registryVars, in, saved, lost, streams, lists>>

-----------------------------------------------------------------------------
(***************************************************************************)
(* Properties.                                                             *)
(***************************************************************************)

recorded == {id \in 1 .. nextID : id \notin registered /\ \A c \in closing : c.id = id => c.stage = "publish"}

\* Each connection of the running process that has ended is saved once, waits in
\* the history's channel once, or is missing for one reason: the channel was
\* full, the history shut down, the store closed, or the retention evicted it
\* (UnregisterConnection, Record, Save, applyRetention).  Snapshots of the same
\* instant do not overwrite each other.  Nothing is claimed of how many are kept:
\* the retention evicts none as the code stands, for the reason HistoryShown fails.
SnapshotsAccounted ==
  \A id \in recorded :
    LET rows    == {row \in saved : row.id = id /\ row.key[1] >= booted}
        waiting == {i \in DOMAIN in : in[i].id = id}
        dropped == {x \in lost : x.id = id}
    IN  Cardinality(rows) + Cardinality(waiting) + Cardinality(dropped) = 1

\* The History view shows clients that have since disconnected: one that has
\* been saved is listed for an administrator, and among the sessions of its name.
HistoryShown ==
  \A viewer \in DOMAIN Viewers : Viewers[viewer].admin =>
    /\ saved # {} => ListHistoricalConnections(viewer, 0) # {}
    /\ \A row \in saved : row.name # NoName => ListClientSessions(viewer, row.name, 0, 0) # {}

=============================================================================
