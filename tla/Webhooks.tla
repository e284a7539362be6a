------------------------------ MODULE Webhooks ------------------------------
(***************************************************************************)
(* Webhooks: their repository and use cases, and the dispatcher that takes *)
(* change events from the watch publisher and delivers them with retries.  *)
(*                                                                         *)
(* The dispatcher's goroutines are elements of sets: one per received      *)
(* event (dispatches) and one per webhook and event (deliveries); sem is   *)
(* the number of slots taken of deliverySem.  A use case has one step per  *)
(* bbolt operation, since none of them runs in a transaction.  Ids are     *)
(* naturals, handed out in turn.  The endpoint answers as it likes.        *)
(* phase is the lifecycle of the process (Background).  ended is           *)
(* auxiliary: how the deliveries of the running process ended.             *)
(* Operators named X_fault are faulty variants of X.                       *)
(***************************************************************************)
EXTENDS Naturals, Sequences, FiniteSets

CONSTANTS
  EventKinds,   \* [type, namespace, path] of change events
  AtOrBelow,    \* [path prefixes -> sets of paths]
  AnyNamespace, \* the empty namespace filter
  DomainAll,    \* the policy domain of all namespaces
  NoPrefix,     \* the empty path prefix
  HookProcs,    \* request handlers of the webhook service
  HookRequests, \* requests: [op, caller, id, hook]
  HookGrants,   \* [callers -> [create, read, write, namespace: sets of domains]]
  InitialHooks, \* webhooks configured at the start
  defaultBufferSize,       \* capacity of a subscription's channel
  maxConcurrentDeliveries, \* slots of deliverySem
  deliveryHistorySize      \* capacity of a delivery history

VARIABLES
  phase,      \* lifecycle of the process
  hooks,      \* the bucket: [ids -> webhook]
  hookCalls,  \* [HookProcs -> request in progress]
  hookSeq,    \* ids handed out
  published,  \* number of events published
  subscribed, \* the dispatcher's subscription is open
  channel,    \* its buffered events
  running,    \* Run: "starting", "looping" or "returned"
  dispatches, \* dispatch goroutines: [event, listed, todo]
  deliveries, \* deliver goroutines: [id, event, attempt, state, success]
  sem,        \* slots of deliverySem taken
  history,    \* [webhook ids -> sequence of attempts]
  ended       \* auxiliary: {[id, event, how]}

hookVars == <<hooks, hookCalls, hookSeq, published, subscribed, channel, running, dispatches,
              deliveries, sem, history, ended>>

requestVars == <<hooks, hookCalls, hookSeq>>

dispatchVars == <<published, subscribed, channel, running, dispatches, deliveries, sem, history, ended>>

\* The context of Run is cancelled by the signal that ends the process.
ctxDone == phase # "up"

storeClosed == phase = "down"

put(f, x, v) == [y \in DOMAIN f \cup {x} |-> IF y = x THEN v ELSE f[y]]

without(f, x) == [y \in DOMAIN f \ {x} |-> f[y]]

-----------------------------------------------------------------------------
(* domain.Webhook.                                                         *)

WebhookEventTypes == {"created", "updated", "deleted"}

validateURL(w) == w.url # "invalid"

\* At least one event, and known ones only.
canValidate(w) == validateURL(w) /\ w.events # {} /\ w.events \subseteq WebhookEventTypes

\* Lock events are not webhook events.
webhookEventFromWatchEvent(e) == e.type \in WebhookEventTypes

matchesPrefix(w, e) == w.pathPrefix = NoPrefix \/ e.path \in AtOrBelow[w.pathPrefix]

MatchesEvent(w, e) ==
  /\ w.enabled
  /\ webhookEventFromWatchEvent(e)
  /\ e.type \in w.events
  /\ w.namespaceFilter \in {AnyNamespace, e.namespace}
  /\ matchesPrefix(w, e)

\* The policy domain a webhook belongs to.
webhookDomain(w) == IF w.namespaceFilter = AnyNamespace THEN DomainAll ELSE w.namespaceFilter

Has(caller, action, dom) == dom \in HookGrants[caller][action]

-----------------------------------------------------------------------------
(* The webhook service.                                                    *)

NoCall == [req |-> [op |-> "none"], stage |-> "idle", hook |-> [url |-> "invalid"]]

callAt(p, op, stage) == hookCalls[p].stage = stage /\ hookCalls[p].req.op = op

callGoes(p, stage) == hookCalls' = [hookCalls EXCEPT ![p].stage = stage]

Begin(p) ==
  /\ phase = "up" /\ hookCalls[p].stage = "idle"
  /\ \E r \in HookRequests : hookCalls' = [hookCalls EXCEPT ![p] = [NoCall EXCEPT !.req = r, !.stage = "start"]]
  /\ UNCHANGED <<hooks, hookSeq, dispatchVars>>

\* The creator may create webhooks and read configs in the namespace.
CreateWebhook(r) ==
  Has(r.caller, "create", webhookDomain(r.hook)) /\ Has(r.caller, "namespace", webhookDomain(r.hook))

\* The id is new, so nothing can come between the repository's check and put.
Create(p) ==
  LET r == hookCalls[p].req
  IN  /\ callAt(p, "create", "start")
      /\ callGoes(p, "idle")
      /\ IF CreateWebhook(r) /\ canValidate(r.hook) /\ ~storeClosed
         THEN hooks' = put(hooks, hookSeq + 1, r.hook) /\ hookSeq' = hookSeq + 1
         ELSE UNCHANGED <<hooks, hookSeq>>
      /\ UNCHANGED dispatchVars

\* Load, then check the right on the loaded webhook's domain.
mayTouch(r, action) ==
  r.id \in DOMAIN hooks /\ Has(r.caller, action, webhookDomain(hooks[r.id]))

UpdateParams(old, params) ==
  [params EXCEPT !.secret = IF params.secret = "" THEN old.secret ELSE params.secret]

UpdateGet(p) ==
  LET r == hookCalls[p].req
  IN  /\ callAt(p, "update", "start")
      /\ IF mayTouch(r, "write") /\ canValidate(r.hook)
         THEN hookCalls' = [hookCalls EXCEPT ![p].stage = "exists",
                                             ![p].hook = UpdateParams(hooks[r.id], r.hook)]
         ELSE callGoes(p, "idle")
      /\ UNCHANGED <<hooks, hookSeq, dispatchVars>>

\* repo.Update and repo.Delete check that the webhook exists, then write.
Exists(p) ==
  LET c == hookCalls[p]
  IN  /\ c.stage = "exists"
      /\ callGoes(p, IF c.req.id \in DOMAIN hooks THEN "write" ELSE "idle")
      /\ UNCHANGED <<hooks, hookSeq, dispatchVars>>

\* A webhook deleted since the check comes back.
UpdatePut(p) ==
  LET c == hookCalls[p]
  IN  /\ callAt(p, "update", "write")
      /\ hooks' = IF storeClosed THEN hooks ELSE put(hooks, c.req.id, c.hook)
      /\ callGoes(p, "idle")
      /\ UNCHANGED <<hookSeq, dispatchVars>>

DeleteGet(p) ==
  /\ callAt(p, "delete", "start")
  /\ callGoes(p, IF mayTouch(hookCalls[p].req, "write") THEN "exists" ELSE "idle")
  /\ UNCHANGED <<hooks, hookSeq, dispatchVars>>

DeleteWrite(p) ==
  /\ callAt(p, "delete", "write")
  /\ IF storeClosed THEN hooks' = hooks /\ callGoes(p, "idle")
     ELSE hooks' = without(hooks, hookCalls[p].req.id) /\ callGoes(p, "clear")
  /\ UNCHANGED <<hookSeq, dispatchVars>>

\* A delivery that has its hands on the buffer keeps it, and nobody else does.
ClearHistory(id) ==
  /\ history' = without(history, id)
  /\ deliveries' = {IF x.id = id /\ x.state = "push" THEN [x EXCEPT !.state = "orphaned"] ELSE x : x \in deliveries}

DeleteClear(p) ==
  /\ callAt(p, "delete", "clear")
  /\ ClearHistory(hookCalls[p].req.id)
  /\ callGoes(p, "idle")
  /\ UNCHANGED <<hooks, hookSeq, published, subscribed, channel, running, dispatches, sem, ended>>

\* Webhooks of domains the caller cannot read are left out.
List(caller) == {id \in DOMAIN hooks : Has(caller, "read", webhookDomain(hooks[id]))}

canGet(r) == mayTouch(r, "read")

GetDeliveryHistory(id) == IF id \in DOMAIN history THEN history[id] ELSE <<>>

-----------------------------------------------------------------------------
(* The dispatcher.                                                         *)

\* A writer publishes an event: lost for a subscriber whose channel is full.
Publish ==
  \E k \in EventKinds :
    /\ phase \in {"up", "draining"}
    /\ published' = published + 1
    /\ channel' = IF subscribed /\ Len(channel) < defaultBufferSize
                  THEN Append(channel, [kind |-> k, revision |-> published + 1])
                  ELSE channel
    /\ UNCHANGED <<requestVars, subscribed, running, dispatches, deliveries, sem, history, ended>>

RunSubscribe ==
  /\ running = "starting"
  /\ running' = "looping" /\ subscribed' = TRUE /\ channel' = <<>>
  /\ UNCHANGED <<requestVars, published, dispatches, deliveries, sem, history, ended>>

\* Run starts a goroutine for each event.
Receive ==
  /\ running = "looping" /\ channel # <<>>
  /\ channel' = Tail(channel)
  /\ dispatches' = dispatches \cup {[event |-> Head(channel), listed |-> FALSE, todo |-> {}]}
  /\ UNCHANGED <<requestVars, published, subscribed, running, deliveries, sem, history, ended>>

\* The context is done, or the channel was closed and is empty.
RunReturn ==
  /\ running = "looping" /\ (ctxDone \/ (~subscribed /\ channel = <<>>))
  /\ running' = "returned" /\ subscribed' = FALSE /\ channel' = <<>>
  /\ UNCHANGED <<requestVars, published, dispatches, deliveries, sem, history, ended>>

\* The webhooks are read when the event is dispatched, not when it happened.
dispatch(d) ==
  LET hits == {id \in DOMAIN hooks : MatchesEvent(hooks[id], d.event.kind)}
  IN  /\ ~d.listed
      /\ dispatches' = IF storeClosed \/ hits = {} THEN dispatches \ {d}
                       ELSE (dispatches \ {d}) \cup {[d EXCEPT !.listed = TRUE, !.todo = hits]}
      /\ UNCHANGED <<requestVars, published, subscribed, channel, running, deliveries, sem, history, ended>>

\* The next matching webhook waits for a slot.
startDelivery(d, id) ==
  LET left == [d EXCEPT !.todo = @ \ {id}]
  IN  /\ id \in d.todo /\ sem < maxConcurrentDeliveries
      /\ sem' = sem + 1
      /\ deliveries' = deliveries \cup {[id |-> id, event |-> d.event, attempt |-> 1, state |-> "send", success |-> FALSE]}
      /\ dispatches' = (dispatches \ {d}) \cup (IF left.todo = {} THEN {} ELSE {left})
      /\ UNCHANGED <<requestVars, published, subscribed, channel, running, history, ended>>

giveUpDispatch(d) ==
  /\ ctxDone /\ d.listed
  /\ dispatches' = dispatches \ {d}
  /\ UNCHANGED <<requestVars, published, subscribed, channel, running, deliveries, sem, history, ended>>

-----------------------------------------------------------------------------
(* One delivery.                                                           *)

retryDelays == <<0, 5, 30, 120>>

becomes(x, y) == deliveries' = (deliveries \ {x}) \cup {y}

endDelivery_leaks(x, how) ==
  /\ deliveries' = deliveries \ {x}
  /\ sem' = IF how = "delivered" THEN sem - 1 ELSE sem
  /\ ended' = ended \cup {[id |-> x.id, event |-> x.event, how |-> how]}

\* The goroutine returns and its slot is free again.
endDelivery(x, how) ==
  /\ deliveries' = deliveries \ {x}
  /\ sem' = sem - 1
  /\ ended' = ended \cup {[id |-> x.id, event |-> x.event, how |-> how]}

\* The request succeeds or fails; once the context is done it is aborted.
sendRequest(x) ==
  /\ x.state = "send"
  /\ \E ok \in IF ctxDone THEN {FALSE} ELSE BOOLEAN : becomes(x, [x EXCEPT !.state = "record", !.success = ok])
  /\ UNCHANGED <<requestVars, published, subscribed, channel, running, dispatches, sem, history, ended>>

\* The history is a ring buffer.
Push(h, a) == IF Len(h) < deliveryHistorySize THEN Append(h, a) ELSE Append(Tail(h), a)

\* The buffer is created when it is missing, for a deleted webhook as well.
getOrCreateBuffer(x) ==
  /\ x.state = "record"
  /\ history' = put(history, x.id, GetDeliveryHistory(x.id))
  /\ becomes(x, [x EXCEPT !.state = "push"])
  /\ UNCHANGED <<requestVars, published, subscribed, channel, running, dispatches, sem, ended>>

\* The revision is auxiliary: the code's attempts do not say which event they
\* are about.
DeliveryAttempt(x) == [revision |-> x.event.revision, number |-> x.attempt, success |-> x.success]

afterAttempt_retries(x) ==
  IF x.attempt = Len(retryDelays) THEN endDelivery(x, IF x.success THEN "delivered" ELSE "exhausted")
  ELSE becomes(x, [x EXCEPT !.state = "wait"]) /\ UNCHANGED <<sem, ended>>

afterAttempt(x) ==
  CASE x.success -> endDelivery(x, "delivered")
    [] ~x.success /\ x.attempt = Len(retryDelays) -> endDelivery(x, "exhausted")
    [] OTHER -> becomes(x, [x EXCEPT !.state = "wait"]) /\ UNCHANGED <<sem, ended>>

\* deliver, from the push to the next attempt, the end, or the backoff.  A
\* buffer that was cleared since it was looked up takes the attempt with it.
recordAttempt(x) ==
  /\ x.state \in {"push", "orphaned"}
  /\ history' = IF x.state = "orphaned" THEN history
                ELSE put(history, x.id, Push(GetDeliveryHistory(x.id), DeliveryAttempt(x)))
  /\ afterAttempt(x)
  /\ UNCHANGED <<requestVars, published, subscribed, channel, running, dispatches>>

backoff(x) ==
  /\ x.state = "wait"
  /\ becomes(x, [x EXCEPT !.state = "send", !.attempt = @ + 1])
  /\ UNCHANGED <<requestVars, published, subscribed, channel, running, dispatches, sem, history, ended>>

cancelBackoff(x) ==
  /\ x.state = "wait" /\ ctxDone
  /\ endDelivery(x, "cancelled")
  /\ UNCHANGED <<requestVars, published, subscribed, channel, running, dispatches, history>>

-----------------------------------------------------------------------------

HooksFresh ==
  /\ hookCalls' = [p \in HookProcs |-> NoCall]
  /\ subscribed' = FALSE /\ channel' = <<>> /\ running' = "starting"
  /\ dispatches' = {} /\ deliveries' = {} /\ sem' = 0
  /\ history' = [x \in {} |-> <<>>] /\ ended' = {}

HooksInit ==
  /\ hooks = InitialHooks /\ hookSeq = Cardinality(DOMAIN InitialHooks)
  /\ hookCalls = [p \in HookProcs |-> NoCall]
  /\ published = 0 /\ subscribed = FALSE /\ channel = <<>> /\ running = "starting"
  /\ dispatches = {} /\ deliveries = {} /\ sem = 0
  /\ history = [x \in {} |-> <<>>] /\ ended = {}

\* Steps the process takes by itself.
DispatcherStep ==
  \/ RunSubscribe \/ Receive \/ RunReturn
  \/ \E d \in dispatches : dispatch(d) \/ giveUpDispatch(d) \/ \E id \in d.todo : startDelivery(d, id)
  \/ \E x \in deliveries : sendRequest(x) \/ getOrCreateBuffer(x) \/ recordAttempt(x) \/ backoff(x) \/ cancelBackoff(x)

HookCallStep(p) ==
  \/ Create(p)
  \/ UpdateGet(p) \/ UpdatePut(p)
  \/ DeleteGet(p) \/ DeleteWrite(p) \/ DeleteClear(p)
  \/ Exists(p)

-----------------------------------------------------------------------------
(***************************************************************************)
(* Properties.                                                             *)
(***************************************************************************)

attemptsFor(id, rev) == SelectSeq(GetDeliveryHistory(id), LAMBDA a : a.revision = rev)

\* What a delivery history says of an event is what happened (deliver,
\* getOrCreateBuffer): attempts follow one another without a gap, in order, at
\* most as many as there are retry delays; none follows a success, so an event
\* that an endpoint has accepted is not sent to it again (one whose answer was
\* lost is); and a delivery that ended shows how, if it still shows anything:
\* the history may have been cleared, or the attempt pushed out, since.
DeliveryHistoryTrue ==
  /\ \A id \in DOMAIN history, rev \in 1 .. published :
       LET s == attemptsFor(id, rev)
       IN  /\ \A i \in 1 .. Len(s) - 1 : s[i + 1].number = s[i].number + 1 /\ ~s[i].success
           /\ s # <<>> => s[Len(s)].number <= Len(retryDelays)
  /\ \A x \in ended :
       LET s == attemptsFor(x.id, x.event.revision)
       IN  s # <<>> => CASE x.how = "delivered" -> s[Len(s)].success
                         [] x.how = "exhausted" -> ~s[Len(s)].success /\ s[Len(s)].number = Len(retryDelays)
                         [] OTHER -> ~s[Len(s)].success

handled(rev) ==
  /\ \A i \in DOMAIN channel : channel[i].revision # rev
  /\ \A d \in dispatches : d.event.revision # rev
  /\ \A x \in deliveries : x.event.revision # rev

=============================================================================
