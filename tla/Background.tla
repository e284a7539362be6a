----------------------------- MODULE Background -----------------------------
(***************************************************************************)
(* What a server does beside its requests: the webhook dispatcher and the  *)
(* client monitor, through start, signal, the ordered shutdown of the      *)
(* adapters, crash and restart.                                            *)
(*                                                                         *)
(* phase "up" is followed by "draining" when the signal arrives: it ends   *)
(* the context of the dispatcher at once, while the servers still finish   *)
(* requests.  The adapters then stop one after the other; each shutdown    *)
(* that waits may give up after its timeout.  In phase "down" the store is *)
(* closed.                                                                 *)
(* What comes from outside is bounded by budgets for webhooks, clients,    *)
(* their watch streams and the process, chosen at the start.               *)
(***************************************************************************)
EXTENDS Webhooks, WatchStreams

CONSTANT Budgets  \* [hooks, clients, watches, process: Nat], bounds on what comes from outside

VARIABLE budget   \* what is left of it

clientVars == <<monitorVars, watchStreams>>

vars == <<phase, budget, hookVars, clientVars>>

Init == phase = "up" /\ budget \in Budgets /\ HooksInit /\ MonitorInit /\ WatchStreamsInit

-----------------------------------------------------------------------------
(* The process.                                                            *)

\* SIGTERM, or an interrupt, cancels the context of Run.
Signal ==
  /\ phase = "up"
  /\ phase' = "draining"
  /\ UNCHANGED <<hookVars, clientVars>>

\* The dispatcher's Shutdown waits for its goroutines, or gives up; it does not
\* wait for Run.
ShutdownDispatcher ==
  /\ phase = "draining"
  /\ phase' = "registry"
  /\ UNCHANGED <<hookVars, clientVars>>

ShutdownRegistry ==
  /\ phase = "registry"
  /\ phase' = "history"
  /\ shutdownRegistry
  /\ UNCHANGED <<watchStreams, hookVars>>

\* The flag is set; what was queued is written while Shutdown waits.
ShutdownHistory ==
  /\ phase = "history" /\ ~shutdown
  /\ shutdownHistory
  /\ UNCHANGED <<phase, watchStreams, hookVars>>

HistoryDone ==
  /\ phase = "history" /\ shutdown
  /\ phase' = "watch"
  /\ UNCHANGED <<hookVars, clientVars>>

\* The publisher closes its channels behind what they hold.
ShutdownWatch ==
  /\ phase = "watch"
  /\ phase' = "store"
  /\ subscribed' = FALSE
  /\ UNCHANGED <<requestVars, published, channel, running, dispatches, deliveries, sem, history, ended, clientVars>>

CloseStore ==
  /\ phase = "store"
  /\ phase' = "down"
  /\ UNCHANGED <<hookVars, clientVars>>

\* A new process finds the store as the last one, stopped or killed, left it.
Restart ==
  /\ phase' = "up"
  /\ clock < MaxClock
  /\ HooksFresh /\ UNCHANGED <<hooks, hookSeq, published>>
  /\ MonitorFresh /\ watchStreams' = [s \in WatchStreamIDs |-> NoWatchStream]

-----------------------------------------------------------------------------

HookStimulus ==
  /\ Publish \/ \E p \in HookProcs : Begin(p)
  /\ UNCHANGED <<phase, clientVars>>

ClientStimulus ==
  /\ phase # "down"
  /\ \/ RegisterConnection
     \/ \E id \in registered :
          \/ \E names \in {{}} \cup {{name} : name \in ClientNames \cup {NoName}} : TagRPC(id, names)
          \/ HandleConnEnd(id)
     \/ \E s \in Streams, viewer \in DOMAIN Viewers, id \in 1 .. nextID : initWatchClient(s, viewer, id)
     \/ \E s \in Streams : cancelStream(s)
     \/ \E l \in Lists, viewer \in DOMAIN Viewers :
          runWatch(l, viewer, phase \notin {"up", "draining", "registry"})
     \/ \E l \in Lists : endWatch(l)
  /\ UNCHANGED <<phase, watchStreams, hookVars>>

WatchStimulus ==
  /\ phase # "down"
  /\ \E s \in WatchStreamIDs :
       \/ \E id \in registered : Watch(s, id)
       \/ \E ns \in WatchedNamespaces : createWatcher(s, ns)
       \/ \E w \in watchStreams[s].watchers : cancelWatcher(s, w)
       \/ endWatchStream(s)
  /\ UNCHANGED <<phase, hookVars>>

spend(what) == budget[what] > 0 /\ budget' = [budget EXCEPT ![what] = @ - 1]

DispatcherWorks == DispatcherStep /\ UNCHANGED <<phase, clientVars>>

HookCallWorks == (\E p \in HookProcs : HookCallStep(p)) /\ UNCHANGED <<phase, clientVars>>

MonitorWorks ==
  /\ \/ \E x \in storing : storeCount(x)
     \/ \E c \in closing : Record(c) \/ closePub(c)
     \/ persist(phase # "down")
  /\ UNCHANGED <<phase, watchStreams, hookVars>>

\* A call may take as long as it likes.
CallEnds == (\E id \in DOMAIN entries : HandleRPC(id)) /\ UNCHANGED <<phase, watchStreams, hookVars>>

\* A stream whose connection is gone ends.
WatchStreamWorks(s) ==
  /\ releaseWatchers(s) \/ (watchStreams[s].conn \notin registered /\ endWatchStream(s))
  /\ UNCHANGED <<phase, hookVars>>

StreamWorks(s) ==
  /\ SubscribeClient(s) \/ ensurePub(s) \/ subscribe(s) \/ receiveChange(s) \/ sendTickerSnapshot(s)
  /\ UNCHANGED <<phase, watchStreams, hookVars>>

ListWorks(l) == watchLoop(l) /\ UNCHANGED <<phase, watchStreams, hookVars>>

Shutdown ==
  ShutdownDispatcher \/ ShutdownRegistry \/ ShutdownHistory \/ HistoryDone \/ ShutdownWatch \/ CloseStore

Next ==
  \/ spend("hooks") /\ HookStimulus
  \/ spend("clients") /\ ClientStimulus
  \/ spend("watches") /\ WatchStimulus
  \/ spend("process") /\ (Signal \/ Restart)
  \/ (DispatcherWorks \/ HookCallWorks \/ MonitorWorks \/ CallEnds) /\ UNCHANGED budget
  \/ (\E s \in Streams : StreamWorks(s)) /\ UNCHANGED budget
  \/ (\E l \in Lists : ListWorks(l)) /\ UNCHANGED budget
  \/ (\E s \in WatchStreamIDs : WatchStreamWorks(s)) /\ UNCHANGED budget
  \/ Shutdown /\ UNCHANGED budget

\* Goroutines that can run do run, and tickers tick; an endpoint answers or its
\* request times out.
Fairness ==
  /\ WF_vars(DispatcherWorks /\ UNCHANGED budget)
  /\ WF_vars(MonitorWorks /\ UNCHANGED budget)
  /\ \A s \in Streams : WF_vars(StreamWorks(s) /\ UNCHANGED budget)
  /\ \A l \in Lists : WF_vars(ListWorks(l) /\ UNCHANGED budget)

Spec == Init /\ [][Next]_vars /\ Fairness

-----------------------------------------------------------------------------
(***************************************************************************)
(* Properties.                                                             *)
(***************************************************************************)

\* Every event the dispatcher's channel took is dealt with: its matching
\* deliveries all end, delivered, exhausted or cancelled, however the endpoints
\* answer, and slots are free again for later events (dispatch, deliver).
EventuallyHandled == \A b \in Budgets : \A rev \in 1 .. b.hooks : published >= rev ~> handled(rev)

\* The streams of the web UI catch up with the registry.  The stream that
\* follows a client closes when the client disconnects, also when the
\* disconnect races with the subscription, whose publisher then is never
\* closed: the ticker notices (SubscribeClient, sendTickerSnapshot).  The
\* stream of all clients shows those that are connected once they stop coming
\* and going, although frames are lost to full channels and arrive after
\* snapshots that are newer than they (publish, watchLoop).
StreamsCatchUp ==
  /\ \A s \in Streams :
       streams[s].stage \notin {"idle", "ended"} /\ streams[s].id \notin registered
         ~> streams[s].stage \in {"idle", "ended"}
  /\ \A l \in Lists : <>[](lists[l].stage = "loop" => lists[l].view = registered)

=============================================================================
