------------------------------ MODULE RpcClient ------------------------------
(***************************************************************************)
(* RPCBashBackend of src/src/do/rpc.ts: the client's calls, their pending  *)
(* entries and timers, the token refresh, the batch queue, the queue of    *)
(* calls made while the transport connects, and the reconnection loops.    *)
(*                                                                         *)
(* A request id is <<call, n>>, n the number of token refreshes behind it: *)
(* generateId gives every retry a new id, and a retry always has one more. *)
(*                                                                         *)
(* External (rpc.ts declares RPCTransport and mocks it): the transport's   *)
(* state and events.  A request is delivered at any time and in any order, *)
(* or never, which is how it is lost; so is its answer.  The server keeps  *)
(* no state: it answers each request of a batch as if sent alone, and has  *)
(* nothing to do with a cancel message (createBashRPCHandler refuses it).  *)
(***************************************************************************)
EXTENDS Naturals, Sequences, FiniteSets

CONSTANTS Calls,        \* the calls the application makes
          Options,      \* the options a client may be made with
          MaxRefresh,   \* auth.maxRefreshAttempts
          MaxAttempts,  \* reconnect.maxAttempts
          BatchSize,    \* batching.maxSize
          MaxLoops      \* bound: reconnection loops that overlap

ASSUME RpcAssumption ==
    /\ Options \subseteq [batching : BOOLEAN, reconnect : BOOLEAN]
    /\ MaxRefresh \in Nat
    /\ MaxAttempts \in Nat
    /\ BatchSize \in Nat \ {0}
    /\ MaxLoops \in Nat

VARIABLES
    opts,        \* the options of the client: batching and reconnect enabled
    transport,   \* transport.getState()
    settled,     \* what each call's promise has settled to, "idle" before the call
    pending,     \* the keys of pendingRequests
    armed,       \* the request ids whose timeout is armed
    refreshing,  \* the ids whose handleResponse awaits refreshToken
    queued,      \* queuedRequests, in order
    batch,       \* batchQueue, in order
    batchTimer,  \* batchTimer # null
    wire,        \* the ids that reached transport.send and were not served
    answers,     \* the responses on their way back
    ran,         \* how often the server executed the command of each call
    dial,        \* [user, dialing, dialed, waiting]: connects under way
    attempt,     \* reconnectAttempt
    told,        \* the application heard an error since it last was connected
    pongDue,     \* a keepalive check can still come
    closing      \* progress of disconnect()

requests == <<settled, pending, armed, refreshing, wire, answers, ran>>
queues   == <<queued, batch, batchTimer>>
links    == <<transport, dial, attempt, told, pongDue, closing>>
vars     == <<opts, requests, queues, links>>

Ids == Calls \X (0 .. MaxRefresh)

Outcomes == {"ok", "error", "unauthorized"}

\* Calls whose promise is unsettled
Open == {c \in Calls : settled[c] = "no"}

CallOf(id) == id[1]

CallsOf(S) == {CallOf(id) : id \in S}

InQueue(q) == {q[i] : i \in DOMAIN q}

\* A promise settles once: resolving or rejecting it again does nothing
Settle(S, how) ==
    settled' = [c \in Calls |-> IF c \in S /\ settled[c] = "no" THEN how ELSE settled[c]]

------------------------------------------------------------------------------
(* Sending *)

\* Mutant of SendAll: no timer is armed
SendAllUntimed(S) ==
    /\ pending' = pending \union S
    /\ wire' = wire \union S
    /\ UNCHANGED armed

\* sendRequestWithRefreshCount: arm the timer, enter the entry, send
SendAll(S) ==
    /\ pending' = pending \union S
    /\ armed' = armed \union S
    /\ wire' = wire \union S

\* call, when batching: addToBatch enters the entry now and sends later
CallBatched(c) ==
    /\ opts.batching
    /\ settled[c] = "idle"
    /\ settled' = [settled EXCEPT ![c] = "no"]
    /\ pending' = pending \union {<<c, 0>>}
    /\ armed' = armed \union {<<c, 0>>}
    /\ IF Len(batch) + 1 >= BatchSize
       THEN /\ wire' = wire \union {<<d, 0>> : d \in InQueue(batch) \union {c}}
            /\ batch' = <<>>
            /\ batchTimer' = FALSE
       ELSE /\ batch' = Append(batch, c)
            /\ batchTimer' = TRUE
            /\ UNCHANGED wire
    /\ UNCHANGED <<opts, refreshing, answers, ran, queued, links>>

\* call, while the transport connects: queued, without a timer
CallQueued(c) ==
    /\ ~opts.batching
    /\ settled[c] = "idle"
    /\ transport \in {"connecting", "reconnecting"}
    /\ settled' = [settled EXCEPT ![c] = "no"]
    /\ queued' = Append(queued, c)
    /\ UNCHANGED <<opts, pending, armed, refreshing, wire, answers, ran, batch, batchTimer, links>>

\* call otherwise, on a transport that may well be down
CallSent(c) ==
    /\ ~opts.batching
    /\ settled[c] = "idle"
    /\ transport \notin {"connecting", "reconnecting"}
    /\ settled' = [settled EXCEPT ![c] = "no"]
    /\ SendAll({<<c, 0>>})
    /\ UNCHANGED <<opts, refreshing, answers, ran, queues, links>>

\* flushBatch by its timer: whatever is in the queue goes out, settled or not
FlushBatch ==
    /\ batchTimer
    /\ wire' = wire \union {<<c, 0>> : c \in InQueue(batch)}
    /\ batch' = <<>>
    /\ batchTimer' = FALSE
    /\ UNCHANGED <<opts, settled, pending, armed, refreshing, answers, ran, queued, links>>

------------------------------------------------------------------------------
(* The answers *)

\* The server refuses a request for its token, blocks it, or executes it
Serve(id, out) ==
    /\ id \in wire
    /\ wire' = wire \ {id}
    /\ answers' = answers \union {<<id, out>>}
    /\ \/ out # "ok" /\ UNCHANGED ran
       \/ out # "unauthorized" /\ ran' = [ran EXCEPT ![CallOf(id)] = @ + 1]
    /\ UNCHANGED <<opts, settled, pending, armed, refreshing, queues, links>>

\* handleResponse for an id without an entry
Ignore(a) ==
    /\ a \in answers
    /\ a[1] \notin pending
    /\ answers' = answers \ {a}
    /\ UNCHANGED <<opts, settled, pending, armed, refreshing, wire, ran, queues, links>>

\* Mutants of Refreshable: one refresh too many, and a retry after any failure
RefreshableOnceMore(a) == a[2] = "unauthorized" /\ a[1][2] <= MaxRefresh

RefreshableOnError(a) == a[2] # "ok" /\ a[1][2] < MaxRefresh

\* An answer that is refused for its token and may still be retried
Refreshable(a) == a[2] = "unauthorized" /\ a[1][2] < MaxRefresh

\* Mutant of Answered: a refused call resolves
AnsweredRefused(a) ==
    /\ a \in answers
    /\ a[1] \in pending
    /\ ~Refreshable(a)
    /\ answers' = answers \ {a}
    /\ armed' = armed \ {a[1]}
    /\ pending' = pending \ {a[1]}
    /\ Settle({CallOf(a[1])}, IF a[2] # "error" THEN "resolved" ELSE "rejected")
    /\ UNCHANGED <<opts, refreshing, wire, ran, queues, links>>

\* handleResponse: the call settles as its answer says
Answered(a) ==
    /\ a \in answers
    /\ a[1] \in pending
    /\ ~Refreshable(a)
    /\ answers' = answers \ {a}
    /\ armed' = armed \ {a[1]}
    /\ pending' = pending \ {a[1]}
    /\ Settle({CallOf(a[1])}, IF a[2] = "ok" THEN "resolved" ELSE "rejected")
    /\ UNCHANGED <<opts, refreshing, wire, ran, queues, links>>

\* handleResponse: no timer is left while the refresh is awaited, the entry stays
RefreshStart(a) ==
    /\ a \in answers
    /\ a[1] \in pending
    /\ Refreshable(a)
    /\ answers' = answers \ {a}
    /\ armed' = armed \ {a[1]}
    /\ refreshing' = refreshing \union {a[1]}
    /\ UNCHANGED <<opts, settled, pending, wire, ran, queues, links>>

\* the retry under a new id, whatever became of the call meanwhile
RefreshOk(id) ==
    /\ id \in refreshing
    /\ refreshing' = refreshing \ {id}
    /\ LET retry == <<CallOf(id), id[2] + 1>>
       IN  /\ pending' = (pending \ {id}) \union {retry}
           /\ armed' = armed \union {retry}
           /\ wire' = wire \union {retry}
    /\ UNCHANGED <<opts, settled, answers, ran, queues, links>>

RefreshFail(id) ==
    /\ id \in refreshing
    /\ refreshing' = refreshing \ {id}
    /\ pending' = pending \ {id}
    /\ Settle({CallOf(id)}, "rejected")
    /\ UNCHANGED <<opts, armed, wire, answers, ran, queues, links>>

\* the timeout of a sent or batched request
Timeout(id) ==
    /\ id \in armed
    /\ armed' = armed \ {id}
    /\ pending' = pending \ {id}
    /\ Settle({CallOf(id)}, "rejected")
    /\ UNCHANGED <<opts, refreshing, wire, answers, ran, queues, links>>

\* Mutant of RejectPending: the entries are dropped with their promises open
RejectPendingSilently ==
    /\ pending' = {}
    /\ armed' = armed \ pending
    /\ UNCHANGED <<settled, refreshing, wire, answers, ran>>

\* what 'disconnected', 'error' and disconnect() do to the entries
RejectPending ==
    /\ Settle(CallsOf(pending), "rejected")
    /\ pending' = {}
    /\ armed' = armed \ pending
    /\ UNCHANGED <<refreshing, wire, answers, ran>>

------------------------------------------------------------------------------
(* The connection *)

\* Mutant of FlushQueued: the queue is not emptied
FlushQueuedKeepingIt ==
    /\ SendAll({<<c, 0>> : c \in InQueue(queued)})
    /\ UNCHANGED <<queued, settled, refreshing, answers, ran, batch, batchTimer>>

\* flushQueuedRequests
FlushQueued ==
    /\ queued' = <<>>
    /\ SendAll({<<c, 0>> : c \in InQueue(queued)})
    /\ UNCHANGED <<settled, refreshing, answers, ran, batch, batchTimer>>

\* The reconnection loops under way
Loops == dial.dialing + dial.dialed + dial.waiting

\* Mutant of AttemptReconnect: it gives up without telling the application
AttemptReconnectSilently(d, state) ==
    IF attempt >= MaxAttempts
    THEN /\ dial' = d
         /\ transport' = state
         /\ UNCHANGED <<attempt, told>>
    ELSE /\ attempt' = attempt + 1
         /\ dial' = [d EXCEPT !.dialing = @ + 1]
         /\ transport' = "connecting"
         /\ UNCHANGED told

\* attemptReconnect, d being the connects under way without the caller's
AttemptReconnect(d, state) ==
    \/ /\ attempt >= MaxAttempts
       /\ told' = TRUE
       /\ dial' = d
       /\ transport' = state
       /\ UNCHANGED attempt
    \/ /\ attempt < MaxAttempts
       /\ attempt' = attempt + 1
       /\ IF attempt = 0
          THEN /\ dial' = [d EXCEPT !.dialing = @ + 1]
               /\ transport' = "connecting"
          ELSE /\ dial' = [d EXCEPT !.waiting = @ + 1]
               /\ transport' = state
       /\ UNCHANGED told

\* the transport reports that the connection dropped, or that it was closed:
\* the client reconnects in either case
Drop ==
    /\ transport \in {"connected", "closed"}
    /\ Loops < MaxLoops
    /\ RejectPending
    /\ LET state == IF transport = "closed" THEN "closed" ELSE "disconnected" IN
          IF opts.reconnect
          THEN AttemptReconnect(dial, state)
          ELSE transport' = state /\ UNCHANGED <<dial, attempt, told>>
    /\ UNCHANGED <<opts, queues, pongDue, closing>>

\* the transport reports a connection, which connect() and a loop also notice
OnConnected ==
    /\ transport = "connected"
    /\ attempt' = 0
    /\ told' = FALSE
    /\ FlushQueued
    /\ UNCHANGED <<opts, transport, dial, pongDue, closing>>

\* the transport reports an error
TransportError ==
    /\ transport # "closed"
    /\ RejectPending
    /\ told' = TRUE
    /\ UNCHANGED <<opts, queues, transport, dial, attempt, pongDue, closing>>

\* reconnectTimer fires: disconnect() has not cleared it
Redial ==
    /\ dial.waiting > 0
    /\ dial' = [dial EXCEPT !.waiting = @ - 1, !.dialing = @ + 1]
    /\ transport' = "connecting"
    /\ UNCHANGED <<opts, requests, queues, attempt, told, pongDue, closing>>

\* transport.connect() of a loop succeeds: its continuation is to run
DialUp ==
    /\ dial.dialing > 0
    /\ dial' = [dial EXCEPT !.dialing = @ - 1, !.dialed = @ + 1]
    /\ transport' = "connected"
    /\ UNCHANGED <<opts, requests, queues, attempt, told, pongDue, closing>>

\* the continuation of doReconnect
Reconnected ==
    /\ dial.dialed > 0
    /\ dial' = [dial EXCEPT !.dialed = @ - 1]
    /\ attempt' = 0
    /\ told' = FALSE
    /\ FlushQueued
    /\ UNCHANGED <<opts, transport, pongDue, closing>>

\* Mutant of DialFail: the loop ends with its first failure
DialFailOnce ==
    /\ dial.dialing > 0
    /\ dial' = [dial EXCEPT !.dialing = @ - 1]
    /\ transport' = "disconnected"
    /\ UNCHANGED <<opts, requests, queues, attempt, told, pongDue, closing>>

\* transport.connect() of a loop fails
DialFail ==
    /\ dial.dialing > 0
    /\ AttemptReconnect([dial EXCEPT !.dialing = @ - 1], "disconnected")
    /\ UNCHANGED <<opts, requests, queues, pongDue, closing>>

\* connect() of the application
Connect ==
    /\ dial.user = "none"
    /\ transport \in {"disconnected", "closed"}
    /\ dial' = [dial EXCEPT !.user = "dialing"]
    /\ transport' = "connecting"
    /\ UNCHANGED <<opts, requests, queues, attempt, told, pongDue, closing>>

ConnectUp ==
    /\ dial.user = "dialing"
    /\ dial' = [dial EXCEPT !.user = "dialed"]
    /\ transport' = "connected"
    /\ UNCHANGED <<opts, requests, queues, attempt, told, pongDue, closing>>

Connected ==
    /\ dial.user = "dialed"
    /\ dial' = [dial EXCEPT !.user = "none"]
    /\ told' = FALSE
    /\ FlushQueued
    /\ UNCHANGED <<opts, transport, attempt, pongDue, closing>>

\* connect() throws to its caller
ConnectFail ==
    /\ dial.user = "dialing"
    /\ dial' = [dial EXCEPT !.user = "none"]
    /\ transport' = "disconnected"
    /\ told' = TRUE
    /\ UNCHANGED <<opts, requests, queues, attempt, pongDue, closing>>

\* A keepalive check finds its pong late, and reconnects beside whatever loop is
\* under way.  disconnect() stops the interval, not the check of the last ping.
PongLate ==
    /\ pongDue
    /\ Loops < MaxLoops
    /\ pongDue' = (closing = "no")
    /\ opts.reconnect
    /\ AttemptReconnect(dial, transport)
    /\ UNCHANGED <<opts, requests, queues, closing>>

\* disconnect() up to its await, and after it; queued calls are not rejected
DisconnectStart ==
    /\ closing = "no"
    /\ closing' = "closing"
    /\ batchTimer' = FALSE
    /\ transport' = "closed"
    /\ UNCHANGED <<opts, requests, queued, batch, dial, attempt, told, pongDue>>

DisconnectEnd ==
    /\ closing = "closing"
    /\ closing' = "done"
    /\ RejectPending
    /\ UNCHANGED <<opts, queues, transport, dial, attempt, told, pongDue>>

------------------------------------------------------------------------------

Init ==
    /\ opts \in Options
    /\ transport \in {"connected", "disconnected"}
    /\ settled = [c \in Calls |-> "idle"]
    /\ pending = {} /\ armed = {} /\ refreshing = {}
    /\ queued = <<>> /\ batch = <<>> /\ batchTimer = FALSE
    /\ wire = {} /\ answers = {}
    /\ ran = [c \in Calls |-> 0]
    /\ dial = [user |-> "none", dialing |-> 0, dialed |-> 0, waiting |-> 0]
    /\ attempt = 0
    /\ told = FALSE
    /\ pongDue = TRUE
    /\ closing = "no"

Call(c) == CallBatched(c) \/ CallQueued(c) \/ CallSent(c)

HandleResponse(a) == Ignore(a) \/ Answered(a) \/ RefreshStart(a)

RefreshEnd(id) == RefreshOk(id) \/ RefreshFail(id)

DialEnd == DialUp \/ DialFail

ConnectEnd == ConnectUp \/ ConnectFail

Next ==
    \/ \E c \in Calls : Call(c)
    \/ FlushBatch
    \/ \E id \in Ids, out \in Outcomes : Serve(id, out)
    \/ \E a \in answers : HandleResponse(a)
    \/ \E id \in Ids : RefreshEnd(id) \/ Timeout(id)
    \/ Drop \/ OnConnected \/ TransportError
    \/ Redial \/ DialEnd \/ Reconnected
    \/ Connect \/ ConnectEnd \/ Connected
    \/ PongLate
    \/ DisconnectStart \/ DisconnectEnd

\* Timers fire, and the promises the client awaits settle.  Nothing is
\* assumed of the server: no answer ever has to come.
Fairness ==
    /\ \A id \in Ids : WF_vars(Timeout(id)) /\ WF_vars(RefreshEnd(id))
    /\ WF_vars(Redial) /\ WF_vars(DialEnd) /\ WF_vars(Reconnected)
    /\ WF_vars(ConnectEnd) /\ WF_vars(Connected)

Spec == Init /\ [][Next]_vars /\ Fairness

------------------------------------------------------------------------------
(* Properties *)

TypeOK ==
    /\ opts \in Options
    /\ transport \in {"connecting", "connected", "reconnecting", "disconnected", "closed"}
    /\ settled \in [Calls -> {"idle", "no", "resolved", "rejected"}]
    /\ pending \in SUBSET Ids
    /\ armed \in SUBSET Ids
    /\ refreshing \in SUBSET Ids
    /\ queued \in Seq(Calls)
    /\ batch \in Seq(Calls)
    /\ batchTimer \in BOOLEAN
    /\ wire \in SUBSET Ids
    /\ answers \in SUBSET (Ids \X Outcomes)
    /\ ran \in [Calls -> Nat]
    /\ dial \in [user : {"none", "dialing", "dialed"}, dialing : Nat, dialed : Nat, waiting : Nat]
    /\ attempt \in 0 .. MaxAttempts
    /\ told \in BOOLEAN
    /\ pongDue \in BOOLEAN
    /\ closing \in {"no", "closing", "done"}

\* Something still holds every call that is not settled: an entry whose timer
\* is armed or whose refresh is awaited, or the queue.
NoCallForgotten ==
    \A c \in Open :
        \/ c \in InQueue(queued)
        \/ \E id \in pending : CallOf(id) = c /\ id \in armed \union refreshing

\* No command runs twice: the client sends a call again only after the server
\* refused to execute it.
AtMostOnce == \A c \in Calls : ran[c] <= 1

\* An entry for a settled call is always a retry after a refresh: any other
\* removal of a call removes its entry too.
StaleEntriesAreRetries ==
    \A id \in pending : CallOf(id) \notin Open => id[2] > 0

\* A queued call waits for a connect that is under way or due, or the
\* application has been told.
QueueHasOwner ==
    queued # <<>> =>
        \/ dial.user # "none"
        \/ Loops > 0
        \/ told

\* Without batching and without a refresh, nothing is sent for a call that is
\* settled.
SendsAreLive ==
    [][\A id \in wire' \ wire :
          CallOf(id) \in Open \union {c \in Calls : settled[c] = "idle"} \/ opts.batching \/ id[2] > 0]_vars

\* Every call that has an entry settles, though no answer comes.
SentCallsSettle ==
    \A c \in Calls : (c \in CallsOf(pending)) ~> (settled[c] \in {"resolved", "rejected"})

\* Every queued call settles, or the application is told of an error.
QueuedCallsSettle ==
    \A c \in Calls : (c \in InQueue(queued)) ~> (told \/ settled[c] \in {"resolved", "rejected"})

\* What the caller sees is a call of RemoteCall: made once, run at most once,
\* settled at most once, and resolved only with the result of what ran.
Remote == INSTANCE RemoteCall
ImplementsRemoteCall == Remote!Spec

==============================================================================
