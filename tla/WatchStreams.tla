----------------------------- MODULE WatchStreams ---------------------------
(***************************************************************************)
(* The Watch streams of the etcd API and the registry's list of watches.   *)
(*                                                                         *)
(* A connection may carry several streams, each served by a handler of its *)
(* own that takes one request after the other and numbers its watchers     *)
(* from one.  The handler enters every watcher into the list the registry  *)
(* keeps for the connection, and takes it out when it is cancelled or when *)
(* the stream ends.  What a watcher sends is the subject of WatchPipeline. *)
(* Operators named X_fault are faulty variants of X.                       *)
(***************************************************************************)
EXTENDS Monitor

CONSTANTS
  WatchStreamIDs,    \* streams
  WatchedNamespaces  \* namespaces whose keys are watched

VARIABLE watchStreams \* [WatchStreamIDs -> [conn, stage, nextID, watchers]]

NoWatchStream == [conn |-> 0, stage |-> "idle", nextID |-> 0, watchers |-> {}]

WatchStreamsInit == watchStreams = [s \in WatchStreamIDs |-> NoWatchStream]

\* The handler has not returned from RegisterWatch or UnregisterWatch.
handlerBusy(s) == \E x \in storing : x.by = s

-----------------------------------------------------------------------------

\* The stream opens on a connection.
Watch(s, conn) ==
  /\ watchStreams[s].stage = "idle" /\ conn \in registered
  /\ watchStreams' = [watchStreams EXCEPT ![s] = [NoWatchStream EXCEPT !.conn = conn, !.stage = "open"]]
  /\ UNCHANGED monitorVars

trackWatcher(s, w, ns) == RegisterWatch(watchStreams[s].conn, s, w, ns)

releaseWatcher_untracked(s, w) == UNCHANGED monitorVars

\* Each watcher is taken out of the list once.
releaseWatcher(s, w) == UnregisterWatch(watchStreams[s].conn, s, w)

\* A create request: ids are counted per stream.
createWatcher(s, ns) ==
  LET w == watchStreams[s].nextID + 1
  IN  /\ watchStreams[s].stage = "open" /\ ~handlerBusy(s)
      /\ trackWatcher(s, w, ns)
      /\ watchStreams' = [watchStreams EXCEPT ![s].nextID = w, ![s].watchers = @ \cup {w}]

\* A cancel request; one for a watcher that is not there is only answered, and
\* so is a progress request.
cancelWatcher(s, w) ==
  /\ watchStreams[s].stage = "open" /\ ~handlerBusy(s) /\ w \in watchStreams[s].watchers
  /\ watchStreams' = [watchStreams EXCEPT ![s].watchers = @ \ {w}]
  /\ releaseWatcher(s, w)

\* Recv fails: the client ended the stream, or the connection is gone.
endWatchStream(s) ==
  /\ watchStreams[s].stage = "open" /\ ~handlerBusy(s)
  /\ watchStreams' = [watchStreams EXCEPT ![s].stage = "ending"]
  /\ UNCHANGED monitorVars

\* The deferred release of all watchers, in any order.
releaseWatchers(s) ==
  /\ watchStreams[s].stage = "ending" /\ ~handlerBusy(s)
  /\ \E w \in watchStreams[s].watchers :
       /\ watchStreams' = [watchStreams EXCEPT ![s].watchers = @ \ {w}]
       /\ releaseWatcher(s, w)

-----------------------------------------------------------------------------
(***************************************************************************)
(* Properties.                                                             *)
(***************************************************************************)

watchStreamsOf(id) == {s \in WatchStreamIDs : watchStreams[s].conn = id}

\* What the web UI lists of an active client is right whenever no handler of
\* its connection is changing it: the number of watches is the length of the
\* watch list, unless two handlers' updates overlapped (RegisterWatch stores
\* the count after it has released the lock, so the older count may be stored
\* last); and the watch list is exactly the open watchers, unless the
\* connection carries a second stream, whose watchers have the same ids
\* (registry.go asks for ids unique within the connection, watch_server.go
\* numbers them per stream).  An administrator is shown every client, and the
\* same one by GetClient.
WatchesTracked ==
  \A viewer \in DOMAIN Viewers :
    LET active == ListActiveClients(viewer)
    IN  /\ \A c \in {x \in active : ~\E y \in storing : y.id = x.id} :
             /\ c.id \notin overlapped => c.activeWatches = Cardinality(c.activeWatchList)
             /\ \A s \in WatchStreamIDs : watchStreamsOf(c.id) = {s} => c.activeWatchList = watchStreams[s].watchers
        /\ Viewers[viewer].admin =>
             \A id \in registered : \E c \in active : c.id = id /\ GetClient(viewer, id).found = {c}

=============================================================================
