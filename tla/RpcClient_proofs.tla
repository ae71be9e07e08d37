-------------------------- MODULE RpcClient_proofs --------------------------
(***************************************************************************)
(* Theorems about RpcClient, for any calls, options and limits.  First the *)
(* types; from them that no call is forgotten, and that a queued call has  *)
(* an owner; then the invariant that a call has at most one request or     *)
(* refusal under way, from which the rest follows.                         *)
(***************************************************************************)
EXTENDS RpcClient, TLAPS

USE RpcAssumption

------------------------------------------------------------------------------
(* Queues and ids *)

LEMMA QueueEmpty == <<>> \in Seq(Calls) /\ InQueue(<<>>) = {}
BY DEF InQueue

LEMMA QueueAppend ==
  ASSUME NEW q \in Seq(Calls), NEW c \in Calls
  PROVE  Append(q, c) \in Seq(Calls) /\ InQueue(Append(q, c)) = InQueue(q) \union {c}
<1>1. Append(q, c) \in Seq(Calls)
  OBVIOUS
<1>2. InQueue(Append(q, c)) \subseteq InQueue(q) \union {c}
  BY DEF InQueue
<1>3. ASSUME NEW d \in InQueue(q) PROVE d \in InQueue(Append(q, c))
  <2>1. PICK i \in 1 .. Len(q) : d = q[i]
    BY <1>3 DEF InQueue
  <2>2. i \in 1 .. Len(Append(q, c)) /\ Append(q, c)[i] = d
    BY <2>1
  <2> QED BY <2>2, <1>1 DEF InQueue
<1>4. c \in InQueue(Append(q, c))
  <2>1. Append(q, c)[Len(q) + 1] = c /\ Len(q) + 1 \in 1 .. Len(Append(q, c))
    OBVIOUS
  <2> QED BY <2>1, <1>1 DEF InQueue
<1> QED BY <1>1, <1>2, <1>3, <1>4

LEMMA QueueCalls ==
  ASSUME NEW q \in Seq(Calls)
  PROVE  InQueue(q) \subseteq Calls
BY DEF InQueue

\* The first request of a call, and of several
LEMMA FirstIds ==
  ASSUME NEW S \in SUBSET Calls
  PROVE  {<<c, 0>> : c \in S} \in SUBSET Ids
BY DEF Ids

LEMMA IdParts ==
  ASSUME NEW id \in Ids
  PROVE  /\ CallOf(id) \in Calls
         /\ id[2] \in 0 .. MaxRefresh
         /\ id = <<CallOf(id), id[2]>>
BY DEF Ids, CallOf

LEMMA RetryId ==
  ASSUME NEW id \in Ids, id[2] < MaxRefresh
  PROVE  /\ <<CallOf(id), id[2] + 1>> \in Ids
         /\ CallOf(<<CallOf(id), id[2] + 1>>) = CallOf(id)
BY DEF Ids, CallOf

------------------------------------------------------------------------------
(* The types *)

Stages == {"idle", "no", "resolved", "rejected"}

States == {"connecting", "connected", "reconnecting", "disconnected", "closed"}

Dials == [user : {"none", "dialing", "dialed"}, dialing : Nat, dialed : Nat, waiting : Nat]

LEMMA SettleType ==
  ASSUME settled \in [Calls -> Stages], NEW S, NEW how \in {"resolved", "rejected"},
         Settle(S, how)
  PROVE  settled' \in [Calls -> Stages]
BY DEF Settle, Stages

LEMMA AttemptType ==
  ASSUME attempt \in 0 .. MaxAttempts, told \in BOOLEAN, NEW d \in Dials, NEW state \in States,
         AttemptReconnect(d, state)
  PROVE  /\ dial' \in Dials
         /\ transport' \in States
         /\ attempt' \in 0 .. MaxAttempts
         /\ told' \in BOOLEAN
<1>1. CASE attempt >= MaxAttempts
  <2>1. dial' = d /\ transport' = state /\ attempt' = attempt /\ told' = TRUE
    BY <1>1 DEF AttemptReconnect
  <2> QED BY <2>1
<1>2. CASE attempt < MaxAttempts
  <2>1. attempt' \in 0 .. MaxAttempts /\ told' \in BOOLEAN
    BY <1>2 DEF AttemptReconnect
  <2>2. transport' \in States
    BY <1>2 DEF AttemptReconnect, States
  <2>3. dial' = [d EXCEPT !.dialing = @ + 1] \/ dial' = [d EXCEPT !.waiting = @ + 1]
    BY <1>2 DEF AttemptReconnect
  <2>4. dial' \in Dials
    BY <2>3 DEF Dials
  <2> QED BY <2>1, <2>2, <2>4
<1> QED BY <1>1, <1>2

\* The parts of TypeOK that the groups of variables make up
RequestsOK ==
    /\ settled \in [Calls -> Stages]
    /\ pending \in SUBSET Ids
    /\ armed \in SUBSET Ids
    /\ refreshing \in SUBSET Ids
    /\ wire \in SUBSET Ids
    /\ answers \in SUBSET (Ids \X Outcomes)
    /\ ran \in [Calls -> Nat]

QueuesOK ==
    /\ queued \in Seq(Calls)
    /\ batch \in Seq(Calls)
    /\ batchTimer \in BOOLEAN

LinksOK ==
    /\ transport \in States
    /\ dial \in Dials
    /\ attempt \in 0 .. MaxAttempts
    /\ told \in BOOLEAN
    /\ pongDue \in BOOLEAN
    /\ closing \in {"no", "closing", "done"}

\* A refresh that is awaited may be followed by a retry
RefreshesLeft == \A id \in refreshing : id[2] < MaxRefresh

LEMMA TypeParts == TypeOK <=> opts \in Options /\ RequestsOK /\ QueuesOK /\ LinksOK
BY DEF TypeOK, RequestsOK, QueuesOK, LinksOK, Stages, States, Dials

LEMMA TypePartsNext ==
  ASSUME opts \in Options, UNCHANGED opts, RequestsOK', QueuesOK', LinksOK'
  PROVE  TypeOK'
BY DEF TypeOK, RequestsOK, QueuesOK, LinksOK, Stages, States, Dials

LEMMA RejectType ==
  ASSUME RequestsOK, RejectPending
  PROVE  RequestsOK'
<1>1. settled' \in [Calls -> Stages]
  BY SettleType DEF RequestsOK, RejectPending
<1> QED BY <1>1 DEF RequestsOK, RejectPending

LEMMA FlushType ==
  ASSUME RequestsOK, QueuesOK, FlushQueued
  PROVE  RequestsOK' /\ QueuesOK'
<1>1. {<<c, 0>> : c \in InQueue(queued)} \in SUBSET Ids
  BY QueueCalls, FirstIds DEF QueuesOK
<1> QED BY <1>1, QueueEmpty DEF RequestsOK, QueuesOK, FlushQueued, SendAll

LEMMA RequestsType ==
  ASSUME TypeOK, RefreshesLeft,
         \/ \E c \in Calls : Call(c)
         \/ FlushBatch
         \/ \E id \in Ids, out \in Outcomes : Serve(id, out)
         \/ \E a \in answers : HandleResponse(a)
         \/ \E id \in Ids : RefreshEnd(id) \/ Timeout(id)
  PROVE  TypeOK'
<1>0. RequestsOK /\ QueuesOK /\ LinksOK /\ opts \in Options
  BY TypeParts
<1>a. ASSUME UNCHANGED links PROVE LinksOK'
  BY <1>0, <1>a DEF links, LinksOK
<1>b. ASSUME UNCHANGED queues PROVE QueuesOK'
  BY <1>0, <1>b DEF queues, QueuesOK
<1>1. ASSUME NEW c \in Calls, CallBatched(c) PROVE TypeOK'
  <2>1. settled' \in [Calls -> Stages]
    BY <1>0, <1>1 DEF CallBatched, RequestsOK, Stages
  <2>2. <<c, 0>> \in Ids
    BY DEF Ids
  <2>3. {<<d, 0>> : d \in InQueue(batch) \union {c}} \in SUBSET Ids
    BY <1>0, QueueCalls, FirstIds DEF QueuesOK
  <2>4. RequestsOK'
    BY <1>0, <1>1, <2>1, <2>2, <2>3 DEF CallBatched, RequestsOK
  <2>5. QueuesOK'
    <3>1. Append(batch, c) \in Seq(Calls) /\ <<>> \in Seq(Calls)
      BY <1>0 DEF QueuesOK
    <3>2. /\ \/ batch' = <<>> /\ batchTimer' = FALSE
             \/ batch' = Append(batch, c) /\ batchTimer' = TRUE
          /\ UNCHANGED queued
      BY <1>1 DEF CallBatched
    <3> QED BY <1>0, <3>1, <3>2 DEF QueuesOK
  <2> QED BY TypePartsNext, <1>a, <1>0, <1>1, <2>4, <2>5 DEF CallBatched
<1>2. ASSUME NEW c \in Calls, CallQueued(c) PROVE TypeOK'
  <2>1. RequestsOK'
    BY <1>0, <1>2 DEF CallQueued, RequestsOK, Stages
  <2>2. QueuesOK'
    BY <1>0, <1>2, QueueAppend DEF CallQueued, QueuesOK
  <2> QED BY TypePartsNext, <1>a, <1>0, <1>2, <2>1, <2>2 DEF CallQueued
<1>3. ASSUME NEW c \in Calls, CallSent(c) PROVE TypeOK'
  <2>1. <<c, 0>> \in Ids
    BY DEF Ids
  <2>2. RequestsOK'
    BY <1>0, <1>3, <2>1 DEF CallSent, SendAll, RequestsOK, Stages
  <2> QED BY TypePartsNext, <1>a, <1>b, <1>0, <1>3, <2>2 DEF CallSent
<1>4. ASSUME FlushBatch PROVE TypeOK'
  <2>1. {<<c, 0>> : c \in InQueue(batch)} \in SUBSET Ids
    BY <1>0, QueueCalls, FirstIds DEF QueuesOK
  <2>2. RequestsOK'
    BY <1>0, <1>4, <2>1 DEF FlushBatch, RequestsOK
  <2>3. QueuesOK'
    BY <1>0, <1>4, QueueEmpty DEF FlushBatch, QueuesOK
  <2> QED BY TypePartsNext, <1>a, <1>0, <1>4, <2>2, <2>3 DEF FlushBatch
<1>5. ASSUME NEW id \in Ids, NEW out \in Outcomes, Serve(id, out) PROVE TypeOK'
  <2>1. ran' \in [Calls -> Nat]
    <3>1. CallOf(id) \in Calls
      BY IdParts
    <3> QED BY <1>0, <1>5, <3>1 DEF Serve, RequestsOK
  <2>2. RequestsOK'
    BY <1>0, <1>5, <2>1 DEF Serve, RequestsOK
  <2> QED BY TypePartsNext, <1>a, <1>b, <1>0, <1>5, <2>2 DEF Serve
<1>6. ASSUME NEW a \in answers, HandleResponse(a) PROVE TypeOK'
  <2>0. a \in Ids \X Outcomes
    BY <1>0 DEF RequestsOK
  <2>1. CASE Ignore(a)
    <3>1. RequestsOK'
      BY <1>0, <2>1 DEF Ignore, RequestsOK
    <3> QED BY TypePartsNext, <1>a, <1>b, <1>0, <2>1, <3>1 DEF Ignore
  <2>2. CASE Answered(a)
    <3>1. settled' \in [Calls -> Stages]
      BY <1>0, <2>2, SettleType DEF Answered, RequestsOK
    <3>2. RequestsOK'
      BY <1>0, <2>2, <3>1 DEF Answered, RequestsOK
    <3> QED BY TypePartsNext, <1>a, <1>b, <1>0, <2>2, <3>2 DEF Answered
  <2>3. CASE RefreshStart(a)
    <3>1. RequestsOK'
      BY <1>0, <2>0, <2>3 DEF RefreshStart, RequestsOK
    <3> QED BY TypePartsNext, <1>a, <1>b, <1>0, <2>3, <3>1 DEF RefreshStart
  <2> QED BY <1>6, <2>1, <2>2, <2>3 DEF HandleResponse
<1>7. ASSUME NEW id \in Ids, RefreshOk(id) PROVE TypeOK'
  <2>1. <<CallOf(id), id[2] + 1>> \in Ids
    BY <1>7, RetryId DEF RefreshOk, RefreshesLeft
  <2>2. RequestsOK'
    BY <1>0, <1>7, <2>1 DEF RefreshOk, RequestsOK
  <2> QED BY TypePartsNext, <1>a, <1>b, <1>0, <1>7, <2>2 DEF RefreshOk
<1>8. ASSUME NEW id \in Ids, RefreshFail(id) PROVE TypeOK'
  <2>1. settled' \in [Calls -> Stages]
    BY <1>0, <1>8, SettleType DEF RefreshFail, RequestsOK
  <2>2. RequestsOK'
    BY <1>0, <1>8, <2>1 DEF RefreshFail, RequestsOK
  <2> QED BY TypePartsNext, <1>a, <1>b, <1>0, <1>8, <2>2 DEF RefreshFail
<1>9. ASSUME NEW id \in Ids, Timeout(id) PROVE TypeOK'
  <2>1. settled' \in [Calls -> Stages]
    BY <1>0, <1>9, SettleType DEF Timeout, RequestsOK
  <2>2. RequestsOK'
    BY <1>0, <1>9, <2>1 DEF Timeout, RequestsOK
  <2> QED BY TypePartsNext, <1>a, <1>b, <1>0, <1>9, <2>2 DEF Timeout
<1> QED BY <1>1, <1>2, <1>3, <1>4, <1>5, <1>6, <1>7, <1>8, <1>9 DEF Call, RefreshEnd

LEMMA LinksType ==
  ASSUME TypeOK,
         \/ Drop \/ OnConnected \/ TransportError
         \/ Redial \/ DialEnd \/ Reconnected
         \/ Connect \/ ConnectEnd \/ Connected
         \/ PongLate
         \/ DisconnectStart \/ DisconnectEnd
  PROVE  TypeOK'
<1>0. RequestsOK /\ QueuesOK /\ LinksOK /\ opts \in Options
  BY TypeParts
<1>a. ASSUME UNCHANGED requests PROVE RequestsOK'
  BY <1>0, <1>a DEF requests, RequestsOK
<1>b. ASSUME UNCHANGED queues PROVE QueuesOK'
  BY <1>0, <1>b DEF queues, QueuesOK
<1>1. CASE Drop
  <2>1. RequestsOK' /\ QueuesOK'
    BY <1>0, <1>b, <1>1, RejectType DEF Drop
  <2>2. \A state \in States : AttemptReconnect(dial, state) =>
            dial' \in Dials /\ transport' \in States /\ attempt' \in 0 .. MaxAttempts /\ told' \in BOOLEAN
    BY <1>0, AttemptType DEF LinksOK
  <2>3. "closed" \in States /\ "disconnected" \in States
    BY DEF States
  <2>4. dial' \in Dials /\ transport' \in States /\ attempt' \in 0 .. MaxAttempts /\ told' \in BOOLEAN
    <3>1. CASE opts.reconnect
      BY <3>1, <1>1, <2>2, <2>3 DEF Drop
    <3>2. CASE ~opts.reconnect
      <4>1. transport' \in States /\ UNCHANGED <<dial, attempt, told>>
        BY <3>2, <1>1, <2>3 DEF Drop
      <4> QED BY <4>1, <1>0 DEF LinksOK
    <3> QED BY <3>1, <3>2
  <2>5. LinksOK'
    BY <1>0, <1>1, <2>4 DEF LinksOK, Drop
  <2> QED BY TypePartsNext, <1>0, <1>1, <2>1, <2>5 DEF Drop
<1>2. CASE OnConnected
  <2>1. RequestsOK' /\ QueuesOK'
    BY <1>0, <1>2, FlushType DEF OnConnected
  <2>2. LinksOK'
    <3>1. /\ transport' = transport /\ dial' = dial /\ attempt' = 0 /\ told' = FALSE
          /\ pongDue' = pongDue /\ closing' = closing
      BY <1>2 DEF OnConnected
    <3>2. attempt' \in 0 .. MaxAttempts
      BY <3>1
    <3>3. told' \in BOOLEAN
      BY <3>1, Zenon
    <3> QED BY <1>0, <3>1, <3>2, <3>3, Zenon DEF LinksOK
  <2> QED BY TypePartsNext, <1>0, <1>2, <2>1, <2>2 DEF OnConnected
<1>3. CASE TransportError
  <2>1. RequestsOK' /\ QueuesOK'
    BY <1>0, <1>b, <1>3, RejectType DEF TransportError
  <2>2. LinksOK'
    BY <1>0, <1>3 DEF TransportError, LinksOK
  <2> QED BY TypePartsNext, <1>0, <1>3, <2>1, <2>2 DEF TransportError
<1>4. CASE Redial
  <2>1. dial' \in Dials
    <3>1. dial \in Dials /\ dial.waiting > 0
      BY <1>0, <1>4 DEF Redial, LinksOK
    <3>2. dial' = [[dial EXCEPT !.waiting = @ - 1] EXCEPT !.dialing = @ + 1]
      BY <1>4 DEF Redial
    <3>3. [dial EXCEPT !.waiting = @ - 1] \in Dials
      BY <3>1 DEF Dials
    <3>4. \A d \in Dials : [d EXCEPT !.dialing = @ + 1] \in Dials
      BY DEF Dials
    <3> QED BY <3>2, <3>3, <3>4
  <2>2. LinksOK'
    BY <1>0, <1>4, <2>1 DEF Redial, LinksOK, States
  <2> QED BY TypePartsNext, <1>0, <1>a, <1>b, <1>4, <2>2 DEF Redial
<1>5. CASE DialUp
  <2>1. dial' \in Dials
    <3>1. dial \in Dials /\ dial.dialing > 0
      BY <1>0, <1>5 DEF DialUp, LinksOK
    <3>2. dial' = [[dial EXCEPT !.dialing = @ - 1] EXCEPT !.dialed = @ + 1]
      BY <1>5 DEF DialUp
    <3>3. [dial EXCEPT !.dialing = @ - 1] \in Dials
      BY <3>1 DEF Dials
    <3>4. \A d \in Dials : [d EXCEPT !.dialed = @ + 1] \in Dials
      BY DEF Dials
    <3> QED BY <3>2, <3>3, <3>4
  <2>2. LinksOK'
    BY <1>0, <1>5, <2>1 DEF DialUp, LinksOK, States
  <2> QED BY TypePartsNext, <1>0, <1>a, <1>b, <1>5, <2>2 DEF DialUp
<1>6. CASE DialFail
  <2>1. [dial EXCEPT !.dialing = @ - 1] \in Dials
    BY <1>0, <1>6 DEF DialFail, LinksOK, Dials
  <2>2. "disconnected" \in States
    BY DEF States
  <2>3. dial' \in Dials /\ transport' \in States /\ attempt' \in 0 .. MaxAttempts /\ told' \in BOOLEAN
    BY <1>0, <1>6, <2>1, <2>2, AttemptType DEF DialFail, LinksOK
  <2>4. LinksOK'
    BY <1>0, <1>6, <2>3 DEF DialFail, LinksOK
  <2> QED BY TypePartsNext, <1>0, <1>a, <1>b, <1>6, <2>4 DEF DialFail
<1>7. CASE Reconnected
  <2>1. RequestsOK' /\ QueuesOK'
    BY <1>0, <1>7, FlushType DEF Reconnected
  <2>2. dial' \in Dials
    BY <1>0, <1>7 DEF Reconnected, LinksOK, Dials
  <2>3. LinksOK'
    <3>1. /\ transport' = transport /\ attempt' = 0 /\ told' = FALSE
          /\ pongDue' = pongDue /\ closing' = closing
      BY <1>7 DEF Reconnected
    <3>2. attempt' \in 0 .. MaxAttempts
      BY <3>1
    <3>3. told' \in BOOLEAN
      BY <3>1, Zenon
    <3> QED BY <1>0, <2>2, <3>1, <3>2, <3>3, Zenon DEF LinksOK
  <2> QED BY TypePartsNext, <1>0, <1>7, <2>1, <2>3 DEF Reconnected
<1>8. CASE Connect \/ ConnectUp \/ ConnectFail
  <2>1. dial' \in Dials
    BY <1>0, <1>8 DEF Connect, ConnectUp, ConnectFail, LinksOK, Dials
  <2>2. transport' \in States
    BY <1>8 DEF Connect, ConnectUp, ConnectFail, States
  <2>3. told' \in BOOLEAN
    BY <1>0, <1>8 DEF Connect, ConnectUp, ConnectFail, LinksOK
  <2>4. UNCHANGED <<opts, requests, queues, attempt, pongDue, closing>>
    BY <1>8 DEF Connect, ConnectUp, ConnectFail
  <2>5. LinksOK'
    BY <1>0, <2>1, <2>2, <2>3, <2>4 DEF LinksOK
  <2> QED BY TypePartsNext, <1>0, <1>a, <1>b, <2>4, <2>5
<1>9. CASE Connected
  <2>1. RequestsOK' /\ QueuesOK'
    BY <1>0, <1>9, FlushType DEF Connected
  <2>2. dial' \in Dials
    BY <1>0, <1>9 DEF Connected, LinksOK, Dials
  <2>3. LinksOK'
    BY <1>0, <1>9, <2>2 DEF Connected, LinksOK
  <2> QED BY TypePartsNext, <1>0, <1>9, <2>1, <2>3 DEF Connected
<1>10. CASE PongLate
  <2>1. dial' \in Dials /\ transport' \in States /\ attempt' \in 0 .. MaxAttempts /\ told' \in BOOLEAN
    BY <1>0, <1>10, AttemptType DEF PongLate, LinksOK
  <2>2. pongDue' \in BOOLEAN /\ UNCHANGED closing
    BY <1>10 DEF PongLate
  <2>3. LinksOK'
    BY <1>0, <2>1, <2>2 DEF LinksOK
  <2> QED BY TypePartsNext, <1>0, <1>a, <1>b, <1>10, <2>3 DEF PongLate
<1>11. CASE DisconnectStart
  <2>1. QueuesOK'
    BY <1>0, <1>11 DEF DisconnectStart, QueuesOK
  <2>2. LinksOK'
    BY <1>0, <1>11 DEF DisconnectStart, LinksOK, States
  <2> QED BY TypePartsNext, <1>0, <1>a, <1>11, <2>1, <2>2 DEF DisconnectStart
<1>12. CASE DisconnectEnd
  <2>1. RequestsOK' /\ QueuesOK'
    BY <1>0, <1>b, <1>12, RejectType DEF DisconnectEnd
  <2>2. LinksOK'
    BY <1>0, <1>12 DEF DisconnectEnd, LinksOK
  <2> QED BY TypePartsNext, <1>0, <1>12, <2>1, <2>2 DEF DisconnectEnd
<1> QED BY <1>1, <1>2, <1>3, <1>4, <1>5, <1>6, <1>7, <1>8, <1>9, <1>10, <1>11, <1>12
        DEF DialEnd, ConnectEnd

\* What a step does to the ids whose refresh is awaited
LEMMA RefreshingStep ==
  ASSUME Next
  PROVE  \/ refreshing' \subseteq refreshing
         \/ \E a \in answers : RefreshStart(a)
<1>1. ASSUME NEW c \in Calls, Call(c) PROVE UNCHANGED refreshing
  BY <1>1 DEF Call, CallBatched, CallQueued, CallSent
<1>2. ASSUME NEW id \in Ids, NEW out \in Outcomes, Serve(id, out) PROVE UNCHANGED refreshing
  BY <1>2 DEF Serve
<1>3. ASSUME NEW a \in answers, HandleResponse(a)
      PROVE  UNCHANGED refreshing \/ RefreshStart(a)
  BY <1>3 DEF HandleResponse, Ignore, Answered
<1>4. ASSUME NEW id \in Ids, RefreshEnd(id) \/ Timeout(id) PROVE refreshing' \subseteq refreshing
  BY <1>4 DEF RefreshEnd, RefreshOk, RefreshFail, Timeout
<1>5. ASSUME FlushBatch \/ Drop \/ OnConnected \/ TransportError \/ Reconnected \/ Connected \/ DisconnectEnd
      PROVE  UNCHANGED refreshing
  BY <1>5 DEF FlushBatch, Drop, OnConnected, TransportError, Reconnected, Connected, DisconnectEnd,
              RejectPending, FlushQueued
<1>6. ASSUME Redial \/ DialEnd \/ Connect \/ ConnectEnd \/ PongLate \/ DisconnectStart
      PROVE  UNCHANGED refreshing
  BY <1>6 DEF Redial, DialEnd, DialUp, DialFail, Connect, ConnectEnd, ConnectUp, ConnectFail,
              PongLate, DisconnectStart, requests
<1> QED BY <1>1, <1>2, <1>3, <1>4, <1>5, <1>6 DEF Next

TypeInv == TypeOK /\ RefreshesLeft

LEMMA TypeInit == Init => TypeInv
<1> SUFFICES ASSUME Init PROVE TypeInv
  OBVIOUS
<1>1. RequestsOK
  BY DEF Init, RequestsOK, Stages
<1>2. QueuesOK
  <2>1. queued = <<>> /\ batch = <<>> /\ batchTimer = FALSE
    BY DEF Init
  <2>2. batchTimer \in BOOLEAN
    BY <2>1, Zenon
  <2> QED BY <2>1, <2>2, QueueEmpty DEF QueuesOK
<1>3. LinksOK
  <2>1. dial \in Dials
    BY DEF Init, Dials
  <2>2. transport \in States
    BY DEF Init, States
  <2>3. attempt \in 0 .. MaxAttempts
    BY DEF Init
  <2>4. told \in BOOLEAN /\ pongDue \in BOOLEAN
    BY Zenon DEF Init
  <2> QED BY <2>1, <2>2, <2>3, <2>4 DEF Init, LinksOK
<1>4. RefreshesLeft
  BY DEF Init, RefreshesLeft
<1> QED BY <1>1, <1>2, <1>3, <1>4, TypeParts DEF Init, TypeInv

LEMMA TypeStep == TypeInv /\ [Next]_vars => TypeInv'
<1> SUFFICES ASSUME TypeInv, [Next]_vars PROVE TypeInv'
  OBVIOUS
<1>0. TypeOK /\ RefreshesLeft
  BY DEF TypeInv
<1>1. CASE Next
  <2>1. TypeOK'
    BY <1>0, <1>1, RequestsType, LinksType DEF Next
  <2>2. RefreshesLeft'
    <3>1. CASE refreshing' \subseteq refreshing
      BY <1>0, <3>1 DEF RefreshesLeft
    <3>2. ASSUME NEW a \in answers, RefreshStart(a) PROVE RefreshesLeft'
      BY <1>0, <3>2 DEF RefreshesLeft, RefreshStart, Refreshable
    <3> QED BY <3>1, <3>2, <1>1, RefreshingStep
  <2> QED BY <2>1, <2>2 DEF TypeInv
<1>2. CASE UNCHANGED vars
  BY <1>0, <1>2 DEF TypeInv, TypeOK, RefreshesLeft, vars, requests, queues, links
<1> QED BY <1>1, <1>2

\* The client's fields, the requests and answers under way and the progress of
\* every connect keep their types, for any number of calls and loops.
THEOREM TypeCorrect == Spec => []TypeOK
<1>1. TypeInv => TypeOK
  BY DEF TypeInv
<1> QED BY TypeInit, TypeStep, <1>1, PTL DEF Spec

------------------------------------------------------------------------------
(* No call is forgotten *)

Held(c) ==
    \/ c \in InQueue(queued)
    \/ \E id \in pending : CallOf(id) = c /\ id \in armed \union refreshing

LEMMA HeldMeans == NoCallForgotten <=> \A c \in Open : Held(c)
BY DEF NoCallForgotten, Held

\* What settles is not open, and nothing opens
LEMMA SettleOpen ==
  ASSUME settled \in [Calls -> Stages], NEW S, NEW how \in {"resolved", "rejected"}, Settle(S, how)
  PROVE  Open' \subseteq Open \ S
BY DEF Settle, Open, Stages

\* Every open call is new and held, or was held and keeps what holds it
LEMMA HeldStep ==
  ASSUME NoCallForgotten, NEW N, Open' \subseteq Open \union N,
         \A c \in N : Held(c)',
         InQueue(queued) \subseteq InQueue(queued') \union N,
         \A id \in pending : id \in armed \union refreshing /\ CallOf(id) \in Open' =>
             CallOf(id) \in N \/ (id \in pending' /\ id \in armed' \union refreshing')
  PROVE  NoCallForgotten'
<1> SUFFICES ASSUME NEW c \in Open' PROVE Held(c)'
  BY DEF NoCallForgotten, Held
<1>1. CASE c \in N
  BY <1>1
<1>2. CASE c \notin N
  <2>1. Held(c)
    BY <1>2 DEF NoCallForgotten, Held
  <2>2. CASE c \in InQueue(queued)
    BY <1>2, <2>2 DEF Held
  <2>3. CASE \E id \in pending : CallOf(id) = c /\ id \in armed \union refreshing
    BY <1>2, <2>3 DEF Held
  <2> QED BY <2>1, <2>2, <2>3 DEF Held
<1> QED BY <1>1, <1>2

\* Nothing is new, and what an open call is held by stays
LEMMA HeldLoss ==
  ASSUME NoCallForgotten, Open' \subseteq Open, InQueue(queued) \subseteq InQueue(queued'),
         \A id \in pending : id \in armed \union refreshing /\ CallOf(id) \in Open' =>
             id \in pending' /\ id \in armed' \union refreshing'
  PROVE  NoCallForgotten'
<1> SUFFICES ASSUME NEW c \in Open' PROVE Held(c)'
  BY DEF NoCallForgotten, Held
<1>1. Held(c)
  BY DEF NoCallForgotten, Held
<1> QED BY <1>1 DEF Held

LEMMA HeldQuiet ==
  ASSUME NoCallForgotten, Open' \subseteq Open, InQueue(queued) \subseteq InQueue(queued'),
         pending \subseteq pending', armed \union refreshing \subseteq armed' \union refreshing'
  PROVE  NoCallForgotten'
BY HeldLoss

LEMMA RejectHeld ==
  ASSUME TypeOK, NoCallForgotten, RejectPending, UNCHANGED queued
  PROVE  NoCallForgotten'
<1>1. Open' \subseteq Open \ CallsOf(pending)
  BY SettleOpen, TypeParts DEF RejectPending, RequestsOK
<1>2. \A id \in pending : CallOf(id) \notin Open'
  BY <1>1 DEF CallsOf
<1> QED BY <1>1, <1>2, HeldLoss DEF RejectPending

LEMMA FirstOf ==
  ASSUME NEW S
  PROVE  \A c \in S : <<c, 0>> \in {<<d, 0>> : d \in S} /\ CallOf(<<c, 0>>) = c
BY DEF CallOf

LEMMA FlushHeld ==
  ASSUME TypeOK, NoCallForgotten, FlushQueued
  PROVE  NoCallForgotten'
<1>1. Open' = Open
  BY DEF FlushQueued, Open
<1>2. \A c \in InQueue(queued) : Held(c)'
  <2>1. pending' = pending \union {<<c, 0>> : c \in InQueue(queued)}
    BY DEF FlushQueued, SendAll
  <2>2. armed' = armed \union {<<c, 0>> : c \in InQueue(queued)}
    BY DEF FlushQueued, SendAll
  <2> QED BY <2>1, <2>2, FirstOf DEF Held
<1>3. \A id \in pending : id \in armed \union refreshing =>
          id \in pending' /\ id \in armed' \union refreshing'
  BY DEF FlushQueued, SendAll
<1> QED BY <1>1, <1>2, <1>3, HeldStep

LEMMA HeldNext ==
  ASSUME TypeOK, RefreshesLeft, NoCallForgotten, Next
  PROVE  NoCallForgotten'
<1>0. RequestsOK /\ QueuesOK
  BY TypeParts
<1>1. ASSUME NEW c \in Calls, CallBatched(c) PROVE NoCallForgotten'
  <2>1. Open' \subseteq Open \union {c}
    BY <1>0, <1>1 DEF CallBatched, Open, RequestsOK
  <2>2. Held(c)'
    BY <1>1 DEF CallBatched, Held, CallOf
  <2>3. pending \subseteq pending' /\ armed \subseteq armed' /\ UNCHANGED <<refreshing, queued>>
    BY <1>1 DEF CallBatched
  <2> QED BY <2>1, <2>2, <2>3, HeldStep
<1>2. ASSUME NEW c \in Calls, CallQueued(c) PROVE NoCallForgotten'
  <2>1. Open' \subseteq Open \union {c}
    BY <1>0, <1>2 DEF CallQueued, Open, RequestsOK
  <2>2. InQueue(queued') = InQueue(queued) \union {c}
    BY <1>0, <1>2, QueueAppend DEF CallQueued, QueuesOK
  <2>3. Held(c)'
    BY <2>2 DEF Held
  <2>4. UNCHANGED <<pending, armed, refreshing>>
    BY <1>2 DEF CallQueued
  <2> QED BY <2>1, <2>2, <2>3, <2>4, HeldStep
<1>3. ASSUME NEW c \in Calls, CallSent(c) PROVE NoCallForgotten'
  <2>1. Open' \subseteq Open \union {c}
    BY <1>0, <1>3 DEF CallSent, Open, RequestsOK
  <2>2. Held(c)'
    BY <1>3 DEF CallSent, SendAll, Held, CallOf
  <2>3. pending \subseteq pending' /\ armed \subseteq armed' /\ UNCHANGED <<refreshing, queued>>
    BY <1>3 DEF CallSent, SendAll, queues
  <2> QED BY <2>1, <2>2, <2>3, HeldStep
<1>4. CASE FlushBatch
  BY <1>4, HeldQuiet DEF FlushBatch, Open
<1>5. ASSUME NEW id \in Ids, NEW out \in Outcomes, Serve(id, out) PROVE NoCallForgotten'
  BY <1>5, HeldQuiet DEF Serve, Open, queues
<1>6. ASSUME NEW a \in answers, HandleResponse(a) PROVE NoCallForgotten'
  <2>1. CASE Ignore(a)
    BY <2>1, HeldQuiet DEF Ignore, Open, queues
  <2>2. CASE Answered(a)
    <3>1. Open' \subseteq Open \ {CallOf(a[1])}
      BY <1>0, <2>2, SettleOpen DEF Answered, RequestsOK
    <3>2. pending' = pending \ {a[1]} /\ armed' = armed \ {a[1]} /\ UNCHANGED <<refreshing, queued>>
      BY <2>2 DEF Answered, queues
    <3>3. \A id \in pending : id \in armed \union refreshing /\ CallOf(id) \in Open' =>
              id \in pending' /\ id \in armed' \union refreshing'
      BY <3>1, <3>2
    <3> QED BY <3>1, <3>2, <3>3, HeldLoss
  <2>3. CASE RefreshStart(a)
    <3>1. armed' = armed \ {a[1]} /\ refreshing' = refreshing \union {a[1]}
      BY <2>3 DEF RefreshStart
    <3>2. UNCHANGED <<settled, pending, queued>>
      BY <2>3 DEF RefreshStart, queues
    <3> QED BY <3>1, <3>2, HeldQuiet DEF Open
  <2> QED BY <1>6, <2>1, <2>2, <2>3 DEF HandleResponse
<1>7. ASSUME NEW id \in Ids, RefreshOk(id) PROVE NoCallForgotten'
  <2> DEFINE retry == <<CallOf(id), id[2] + 1>>
  <2>1. /\ pending' = (pending \ {id}) \union {retry}
        /\ armed' = armed \union {retry}
        /\ refreshing' = refreshing \ {id}
        /\ UNCHANGED <<settled, queued>>
    BY <1>7 DEF RefreshOk, queues
  <2>2. CallOf(retry) = CallOf(id)
    BY DEF CallOf
  <2>3. Held(CallOf(id))'
    BY <2>1, <2>2 DEF Held
  <2>4. Open' \subseteq Open
    BY <2>1 DEF Open
  <2>5. \A c \in {CallOf(id)} : Held(c)'
    BY <2>3
  <2>6. \A x \in pending : x \in armed \union refreshing /\ CallOf(x) \in Open' =>
            CallOf(x) \in {CallOf(id)} \/ (x \in pending' /\ x \in armed' \union refreshing')
    BY <2>1
  <2>7. Open' \subseteq Open \union {CallOf(id)}
        /\ InQueue(queued) \subseteq InQueue(queued') \union {CallOf(id)}
    BY <2>1, <2>4
  <2> QED BY <2>5, <2>6, <2>7, HeldStep
<1>8. ASSUME NEW id \in Ids, RefreshFail(id) PROVE NoCallForgotten'
  <2>1. Open' \subseteq Open \ {CallOf(id)}
    BY <1>0, <1>8, SettleOpen DEF RefreshFail, RequestsOK
  <2>2. /\ pending' = pending \ {id} /\ refreshing' = refreshing \ {id}
        /\ UNCHANGED <<armed, queued>>
    BY <1>8 DEF RefreshFail, queues
  <2>3. \A x \in pending : x \in armed \union refreshing /\ CallOf(x) \in Open' =>
            x \in pending' /\ x \in armed' \union refreshing'
    BY <2>1, <2>2
  <2> QED BY <2>1, <2>2, <2>3, HeldLoss
<1>9. ASSUME NEW id \in Ids, Timeout(id) PROVE NoCallForgotten'
  <2>1. Open' \subseteq Open \ {CallOf(id)}
    BY <1>0, <1>9, SettleOpen DEF Timeout, RequestsOK
  <2>2. /\ pending' = pending \ {id} /\ armed' = armed \ {id}
        /\ UNCHANGED <<refreshing, queued>>
    BY <1>9 DEF Timeout, queues
  <2>3. \A x \in pending : x \in armed \union refreshing /\ CallOf(x) \in Open' =>
            x \in pending' /\ x \in armed' \union refreshing'
    BY <2>1, <2>2
  <2> QED BY <2>1, <2>2, <2>3, HeldLoss
<1>10. CASE Drop \/ TransportError \/ DisconnectEnd
  BY <1>10, RejectHeld DEF Drop, TransportError, DisconnectEnd, queues
<1>11. CASE OnConnected \/ Reconnected \/ Connected
  BY <1>11, FlushHeld DEF OnConnected, Reconnected, Connected
<1>12. CASE Redial \/ DialEnd \/ Connect \/ ConnectEnd \/ PongLate \/ DisconnectStart
  <2>1. UNCHANGED <<requests, queued>>
    BY <1>12 DEF Redial, DialEnd, DialUp, DialFail, Connect, ConnectEnd, ConnectUp, ConnectFail,
                 PongLate, DisconnectStart, queues
  <2> QED BY <2>1, HeldQuiet DEF requests, Open
<1> QED BY <1>1, <1>2, <1>3, <1>4, <1>5, <1>6, <1>7, <1>8, <1>9, <1>10, <1>11, <1>12
        DEF Next, Call, RefreshEnd

\* Whatever is dropped, timed out, refused or reconnected, a call that is not
\* settled stays in the queue or has an entry with a timer or a refresh.
THEOREM NoCallEverForgotten == Spec => []NoCallForgotten
<1>1. Init => NoCallForgotten
  BY DEF Init, NoCallForgotten, Open
<1>2. TypeInv /\ NoCallForgotten /\ [Next]_vars => NoCallForgotten'
  <2> SUFFICES ASSUME TypeInv, NoCallForgotten, [Next]_vars PROVE NoCallForgotten'
    OBVIOUS
  <2>1. CASE Next
    BY <2>1, HeldNext DEF TypeInv
  <2>2. CASE UNCHANGED vars
    BY <2>2 DEF NoCallForgotten, Open, vars, requests, queues
  <2> QED BY <2>1, <2>2
<1> QED BY TypeInit, TypeStep, <1>1, <1>2, PTL DEF Spec

------------------------------------------------------------------------------
(* A queued call has an owner *)

\* A transport connects only while somebody dials
DialedFor ==
    /\ transport # "reconnecting"
    /\ transport = "connecting" => dial.user = "dialing" \/ dial.dialing > 0

\* Somebody connects, or will, or the application knows that nobody does
Owner == dial.user # "none" \/ Loops > 0 \/ told

OwnerInv == DialedFor /\ QueueHasOwner

LEMMA AttemptOwner ==
  ASSUME NEW d \in Dials, NEW state \in States \ {"reconnecting", "connecting"},
         AttemptReconnect(d, state)
  PROVE  DialedFor' /\ Owner'
<1>1. CASE attempt >= MaxAttempts /\ told' = TRUE /\ dial' = d /\ transport' = state
  BY <1>1 DEF DialedFor, Owner
<1>2. CASE dial' = [d EXCEPT !.dialing = @ + 1] /\ transport' = "connecting"
  BY <1>2 DEF DialedFor, Owner, Loops, Dials
<1>3. CASE dial' = [d EXCEPT !.waiting = @ + 1] /\ transport' = state
  BY <1>3 DEF DialedFor, Owner, Loops, Dials
<1> QED BY <1>1, <1>2, <1>3 DEF AttemptReconnect

LEMMA OwnerQuiet ==
  ASSUME OwnerInv, transport' \notin {"connecting", "reconnecting"},
         \/ queued' = <<>>
         \/ queued' = queued /\ (Owner => Owner')
  PROVE  OwnerInv'
BY DEF OwnerInv, DialedFor, QueueHasOwner, Owner

LEMMA OwnerUnchanged ==
  ASSUME OwnerInv, UNCHANGED <<transport, dial, told>>, queued' \in {queued, <<>>}
  PROVE  OwnerInv'
BY DEF OwnerInv, DialedFor, QueueHasOwner, Loops

LEMMA OwnerNext ==
  ASSUME TypeOK, OwnerInv, Next
  PROVE  OwnerInv'
<1>0. dial \in Dials /\ transport \in States
  BY TypeParts DEF LinksOK
<1>1. ASSUME NEW c \in Calls, CallQueued(c) PROVE OwnerInv'
  <2>1. Owner
    BY <1>0, <1>1 DEF CallQueued, OwnerInv, DialedFor, Owner, Loops, Dials
  <2>2. UNCHANGED <<transport, dial, told>>
    BY <1>1 DEF CallQueued, links
  <2> QED BY <2>1, <2>2 DEF OwnerInv, DialedFor, QueueHasOwner, Owner, Loops
<1>2. ASSUME NEW c \in Calls, CallBatched(c) \/ CallSent(c) PROVE OwnerInv'
  BY <1>2, OwnerUnchanged DEF CallBatched, CallSent, links, queues
<1>3. CASE FlushBatch
  BY <1>3, OwnerUnchanged DEF FlushBatch, links
<1>4. ASSUME NEW id \in Ids, NEW out \in Outcomes, Serve(id, out) PROVE OwnerInv'
  BY <1>4, OwnerUnchanged DEF Serve, links, queues
<1>5. ASSUME NEW a \in answers, HandleResponse(a) PROVE OwnerInv'
  BY <1>5, OwnerUnchanged DEF HandleResponse, Ignore, Answered, RefreshStart, links, queues
<1>6. ASSUME NEW id \in Ids, RefreshEnd(id) \/ Timeout(id) PROVE OwnerInv'
  BY <1>6, OwnerUnchanged DEF RefreshEnd, RefreshOk, RefreshFail, Timeout, links, queues
<1>7. CASE Drop
  <2>1. CASE opts.reconnect
    <3>1. PICK state \in {"closed", "disconnected"} : AttemptReconnect(dial, state)
      BY <1>7, <2>1 DEF Drop
    <3>2. DialedFor' /\ Owner'
      BY <1>0, <3>1, AttemptOwner DEF States
    <3> QED BY <3>2 DEF OwnerInv, QueueHasOwner, Owner
  <2>2. CASE ~opts.reconnect
    <3>1. transport' \notin {"connecting", "reconnecting"} /\ UNCHANGED <<queued, dial, told>>
      BY <1>7, <2>2 DEF Drop, queues
    <3> QED BY <3>1, OwnerQuiet DEF Owner, Loops
  <2> QED BY <2>1, <2>2
<1>8. CASE OnConnected \/ Reconnected \/ Connected
  <2>1. queued' = <<>> /\ UNCHANGED transport
    BY <1>8 DEF OnConnected, Reconnected, Connected, FlushQueued
  <2>2. transport = "connecting" => dial.user = "dialing" \/ dial.dialing > 0
    BY DEF OwnerInv, DialedFor
  <2>3. dial.user = "dialing" \/ dial.dialing > 0 => dial'.user = "dialing" \/ dial'.dialing > 0
    BY <1>0, <1>8 DEF OnConnected, Reconnected, Connected, Dials
  <2> QED BY <2>1, <2>2, <2>3 DEF OwnerInv, DialedFor, QueueHasOwner
<1>9. CASE TransportError \/ DisconnectEnd
  <2>1. UNCHANGED <<transport, dial, queued>> /\ (told => told')
    BY <1>9 DEF TransportError, DisconnectEnd, queues
  <2> QED BY <2>1 DEF OwnerInv, DialedFor, QueueHasOwner, Loops
<1>10. CASE Redial
  <2>1. UNCHANGED queued /\ transport' = "connecting"
    BY <1>10 DEF Redial, queues
  <2>2. dial'.dialing = dial.dialing + 1 /\ dial'.dialed = dial.dialed
    BY <1>0, <1>10 DEF Redial, Dials
  <2>3. dial'.waiting \in Nat
    BY <1>0, <1>10 DEF Redial, Dials
  <2> QED BY <1>0, <2>1, <2>2, <2>3 DEF OwnerInv, DialedFor, QueueHasOwner, Loops, Dials
<1>11. CASE DialUp
  <2>1. UNCHANGED <<queued, told>> /\ transport' = "connected"
    BY <1>11 DEF DialUp, queues
  <2>2. dial'.dialed = dial.dialed + 1 /\ dial'.dialing \in Nat /\ dial'.waiting = dial.waiting
    BY <1>0, <1>11 DEF DialUp, Dials
  <2> QED BY <1>0, <2>1, <2>2 DEF OwnerInv, DialedFor, QueueHasOwner, Loops, Dials
<1>12. CASE DialFail
  <2>1. [dial EXCEPT !.dialing = @ - 1] \in Dials
    BY <1>0, <1>12 DEF DialFail, Dials
  <2>2. AttemptReconnect([dial EXCEPT !.dialing = @ - 1], "disconnected")
    BY <1>12 DEF DialFail
  <2>3. DialedFor' /\ Owner'
    BY <2>1, <2>2, AttemptOwner DEF States
  <2> QED BY <2>3 DEF OwnerInv, QueueHasOwner, Owner
<1>13. CASE Connect
  BY <1>0, <1>13 DEF Connect, OwnerInv, DialedFor, QueueHasOwner, queues, Dials
<1>14. CASE ConnectUp
  BY <1>0, <1>14 DEF ConnectUp, OwnerInv, DialedFor, QueueHasOwner, queues, Dials
<1>15. CASE ConnectFail
  BY <1>0, <1>15 DEF ConnectFail, OwnerInv, DialedFor, QueueHasOwner, queues, Dials
<1>16. CASE PongLate
  <2>1. AttemptReconnect(dial, transport) /\ UNCHANGED queued
    BY <1>16 DEF PongLate, queues
  <2>2. CASE transport \notin {"connecting", "reconnecting"}
    <3>1. DialedFor' /\ Owner'
      BY <1>0, <2>1, <2>2, AttemptOwner
    <3> QED BY <3>1 DEF OwnerInv, QueueHasOwner, Owner
  <2>3. CASE transport = "connecting"
    <3>1. \/ told' /\ UNCHANGED <<dial, transport>>
          \/ dial' = [dial EXCEPT !.dialing = @ + 1] /\ UNCHANGED told /\ transport' = "connecting"
          \/ dial' = [dial EXCEPT !.waiting = @ + 1] /\ UNCHANGED told /\ transport' = "connecting"
      BY <2>1, <2>3 DEF AttemptReconnect
    <3> QED BY <1>0, <2>1, <2>3, <3>1 DEF OwnerInv, DialedFor, QueueHasOwner, Loops, Dials
  <2> QED BY <2>2, <2>3 DEF OwnerInv, DialedFor
<1>17. CASE DisconnectStart
  <2>1. transport' = "closed" /\ UNCHANGED <<queued, dial, told>>
    BY <1>17 DEF DisconnectStart
  <2> QED BY <2>1, OwnerQuiet DEF Owner, Loops
<1> QED BY <1>1, <1>2, <1>3, <1>4, <1>5, <1>6, <1>7, <1>8, <1>9, <1>10, <1>11, <1>12,
           <1>13, <1>14, <1>15, <1>16, <1>17 DEF Next, Call, DialEnd, ConnectEnd

\* A queued call never waits for nothing unless the application was told, with
\* any number of overlapping loops, late pongs and a disconnect at any moment.
THEOREM QueueAlwaysHasOwner == Spec => []QueueHasOwner
<1>1. Init => OwnerInv
  BY DEF Init, OwnerInv, DialedFor, QueueHasOwner
<1>2. TypeInv /\ OwnerInv /\ [Next]_vars => OwnerInv'
  <2> SUFFICES ASSUME TypeInv, OwnerInv, [Next]_vars PROVE OwnerInv'
    OBVIOUS
  <2>1. CASE Next
    BY <2>1, OwnerNext DEF TypeInv
  <2>2. CASE UNCHANGED vars
    BY <2>2, OwnerUnchanged DEF vars, queues, links
  <2> QED BY <2>1, <2>2
<1>3. OwnerInv => QueueHasOwner
  BY DEF OwnerInv
<1> QED BY TypeInit, TypeStep, <1>1, <1>2, <1>3, PTL DEF Spec


------------------------------------------------------------------------------
(* At most one request of a call is under way *)

\* The ids the server refused and the client has not heard of yet
Refused == {a[1] : a \in {b \in answers : b[2] = "unauthorized"}}

\* The ids that may yet make the command of their call run
Out == wire \union refreshing \union Refused

OneOut == \A x, y \in Out : CallOf(x) = CallOf(y) => x = y

Apart ==
    /\ wire \intersect refreshing = {}
    /\ wire \intersect Refused = {}
    /\ refreshing \intersect Refused = {}

\* The entry of a call is that of its request; one with a timer is no refresh
OneEntry ==
    /\ \A x, y \in pending : CallOf(x) = CallOf(y) => x = y
    /\ \A x \in pending, y \in Out : CallOf(x) = CallOf(y) => x = y
    /\ armed \subseteq pending
    /\ armed \intersect refreshing = {}

\* A call with a request under way was made, has not run and is in no queue
OutIsFirst ==
    \A x \in Out :
        /\ settled[CallOf(x)] # "idle"
        /\ ran[CallOf(x)] = 0
        /\ CallOf(x) \notin InQueue(queued) \union InQueue(batch)

\* A call that was not made has nothing; a queued one waits; a batched one has
\* at most its first entry
Unsent ==
    /\ \A c \in Calls : settled[c] = "idle" =>
          /\ ran[c] = 0
          /\ c \notin InQueue(queued) \union InQueue(batch)
          /\ \A x \in pending : CallOf(x) # c
    /\ \A c \in InQueue(queued) :
          /\ settled[c] = "no" /\ ran[c] = 0 /\ c \notin InQueue(batch)
          /\ \A x \in pending : CallOf(x) # c
    /\ \A c \in InQueue(batch) :
          /\ settled[c] # "idle" /\ ran[c] = 0
          /\ \A x \in pending : CallOf(x) = c => x = <<c, 0>>

\* A result is that of a command that ran
Results == \A a \in answers : a[2] = "ok" => ran[CallOf(a[1])] = 1

BatchIsEmpty == ~opts.batching => batch = <<>> /\ ~batchTimer

OneInv ==
    /\ OneOut /\ Apart /\ OneEntry /\ OutIsFirst /\ Unsent
    /\ Results /\ AtMostOnce /\ StaleEntriesAreRetries /\ BatchIsEmpty

\* A call that has nothing under way is sent for the first time
Fresh(c) ==
    /\ c \in Calls
    /\ ran[c] = 0
    /\ \A x \in Out \union pending \union armed : CallOf(x) # c

LEMMA OutIds ==
  ASSUME TypeOK
  PROVE  Out \in SUBSET Ids
<1>1. RequestsOK
  BY TypeParts
<1>2. Refused \subseteq Ids
  BY <1>1 DEF RequestsOK, Refused
<1> QED BY <1>1, <1>2 DEF RequestsOK, Out

LEMMA RefusedShrinks ==
  ASSUME answers' \subseteq answers
  PROVE  Refused' \subseteq Refused
BY DEF Refused

\* Requests, answers and entries are only lost, and calls only settle
LEMMA LossInv ==
  ASSUME TypeOK, OneInv,
         wire' \subseteq wire, refreshing' \subseteq refreshing, answers' \subseteq answers,
         pending' \subseteq pending, armed' \subseteq armed, armed' \subseteq pending',
         UNCHANGED <<opts, ran, queued, batch>>, batchTimer' => batchTimer,
         \A c \in Calls : settled'[c] = "idle" <=> settled[c] = "idle",
         \A c \in InQueue(queued) : settled'[c] = "no",
         \A x \in pending' : x[2] = 0 => CallOf(x) \in Open'
  PROVE  OneInv'
<1>0. Out' \subseteq Out /\ Refused' \subseteq Refused
  BY RefusedShrinks DEF Out
<1>q. InQueue(batch) \subseteq Calls /\ \A x \in Out : CallOf(x) \in Calls
  BY TypeParts, QueueCalls, OutIds, IdParts DEF QueuesOK
<1>1. OneOut'
  BY <1>0 DEF OneInv, OneOut
<1>2. Apart'
  BY <1>0 DEF OneInv, Apart
<1>3. OneEntry'
  BY <1>0 DEF OneInv, OneEntry
<1>4. OutIsFirst'
  BY <1>0, <1>q DEF OneInv, OutIsFirst
<1>5. Unsent'
  <2>1. \A c \in Calls : settled'[c] = "idle" =>
          /\ ran'[c] = 0
          /\ c \notin InQueue(queued') \union InQueue(batch')
          /\ \A x \in pending' : CallOf(x) # c
    BY DEF OneInv, Unsent
  <2>2. \A c \in InQueue(queued') :
          /\ settled'[c] = "no" /\ ran'[c] = 0 /\ c \notin InQueue(batch')
          /\ \A x \in pending' : CallOf(x) # c
    BY DEF OneInv, Unsent
  <2>3. \A c \in InQueue(batch') :
          /\ settled'[c] # "idle" /\ ran'[c] = 0
          /\ \A x \in pending' : CallOf(x) = c => x = <<c, 0>>
    BY <1>q DEF OneInv, Unsent
  <2> QED BY <2>1, <2>2, <2>3 DEF Unsent
<1>6. Results'
  BY DEF OneInv, Results
<1>7. AtMostOnce'
  BY DEF OneInv, AtMostOnce
<1>8. StaleEntriesAreRetries'
  <2>1. \A x \in pending' : x \in Ids
    BY TypeParts DEF RequestsOK
  <2> QED BY <2>1, IdParts DEF StaleEntriesAreRetries
<1>9. BatchIsEmpty'
  BY DEF OneInv, BatchIsEmpty
<1> QED BY <1>1, <1>2, <1>3, <1>4, <1>5, <1>6, <1>7, <1>8, <1>9 DEF OneInv

\* The calls of S leave the queues and are sent for the first time, those of P
\* with an entry and a timer
LEMMA SendInv ==
  ASSUME TypeOK, OneInv, NEW S \in SUBSET Calls, NEW P \in SUBSET S,
         wire' = wire \union {<<c, 0>> : c \in S},
         pending' = pending \union {<<c, 0>> : c \in P},
         armed' = armed \union {<<c, 0>> : c \in P},
         UNCHANGED <<opts, refreshing, answers, ran>>,
         InQueue(queued') \subseteq InQueue(queued) \ S,
         InQueue(batch') \subseteq InQueue(batch) \ S,
         \A c \in S : ran[c] = 0 /\ settled'[c] # "idle",
         \A c \in S : \A x \in Out : CallOf(x) # c,
         \A c \in S : \A x \in pending : CallOf(x) = c => x = <<c, 0>>,
         \A c \in P : settled'[c] = "no",
         \A c \in Calls : settled[c] # "idle" => settled'[c] = settled[c],
         \A c \in Calls \ S : settled'[c] = settled[c],
         BatchIsEmpty'
  PROVE  OneInv'
<1>q. InQueue(queued) \subseteq Calls /\ InQueue(batch) \subseteq Calls
  BY TypeParts, QueueCalls DEF QueuesOK
<1>r. \A x \in Out \union pending : x \in Ids
  BY TypeParts, OutIds DEF RequestsOK
<1>0. Refused' = Refused /\ Out' = Out \union {<<c, 0>> : c \in S}
  BY DEF Refused, Out
<1>a. \A x \in {<<c, 0>> : c \in S} : CallOf(x) \in S /\ x = <<CallOf(x), 0>>
  BY DEF CallOf
<1>p. \A x \in {<<c, 0>> : c \in P} : CallOf(x) \in P /\ x = <<CallOf(x), 0>>
  BY DEF CallOf
<1>1. OneOut'
  BY <1>0, <1>a DEF OneInv, OneOut
<1>2. Apart'
  <2>1. \A x \in {<<c, 0>> : c \in S} : x \notin refreshing \union Refused
    BY <1>a DEF Out
  <2> QED BY <1>0, <2>1 DEF OneInv, Apart
<1>3. OneEntry'
  <2>1. \A x, y \in pending' : CallOf(x) = CallOf(y) => x = y
    BY <1>p DEF OneInv, OneEntry
  <2>2. \A x \in pending', y \in Out' : CallOf(x) = CallOf(y) => x = y
    BY <1>0, <1>a, <1>p DEF OneInv, OneEntry
  <2>3. armed' \subseteq pending'
    BY DEF OneInv, OneEntry
  <2>4. \A x \in {<<c, 0>> : c \in P} : x \notin refreshing
    BY <1>p DEF Out
  <2>5. armed' \intersect refreshing' = {}
    BY <2>4 DEF OneInv, OneEntry
  <2> QED BY <2>1, <2>2, <2>3, <2>5 DEF OneEntry
<1>4. OutIsFirst'
  <2>1. ASSUME NEW x \in Out'
        PROVE  /\ settled'[CallOf(x)] # "idle"
               /\ ran'[CallOf(x)] = 0
               /\ CallOf(x) \notin InQueue(queued') \union InQueue(batch')
    <3>1. CASE x \in Out
      BY <1>r, <3>1, IdParts DEF OneInv, OutIsFirst
    <3>2. CASE x \in {<<c, 0>> : c \in S}
      BY <1>a, <3>2
    <3> QED BY <1>0, <3>1, <3>2
  <2> QED BY <2>1 DEF OutIsFirst
<1>5. Unsent'
  <2>1. ASSUME NEW c \in Calls, settled'[c] = "idle"
        PROVE  /\ ran'[c] = 0
               /\ c \notin InQueue(queued') \union InQueue(batch')
               /\ \A x \in pending' : CallOf(x) # c
    <3>1. c \notin S /\ settled[c] = "idle"
      BY <2>1
    <3> QED BY <1>p, <3>1 DEF OneInv, Unsent
  <2>2. ASSUME NEW c \in InQueue(queued')
        PROVE  /\ settled'[c] = "no" /\ ran'[c] = 0 /\ c \notin InQueue(batch')
               /\ \A x \in pending' : CallOf(x) # c
    <3>1. c \in InQueue(queued) /\ c \notin S
      BY <2>2
    <3> QED BY <1>p, <1>q, <3>1 DEF OneInv, Unsent
  <2>3. ASSUME NEW c \in InQueue(batch')
        PROVE  /\ settled'[c] # "idle" /\ ran'[c] = 0
               /\ \A x \in pending' : CallOf(x) = c => x = <<c, 0>>
    <3>1. c \in InQueue(batch) /\ c \notin S
      BY <2>3
    <3> QED BY <1>p, <1>q, <3>1 DEF OneInv, Unsent
  <2> QED BY <2>1, <2>2, <2>3 DEF Unsent
<1>6. Results'
  BY DEF OneInv, Results
<1>7. AtMostOnce'
  BY DEF OneInv, AtMostOnce
<1>8. StaleEntriesAreRetries'
  <2>1. ASSUME NEW x \in pending', CallOf(x) \notin Open' PROVE x[2] > 0
    <3>1. x \in pending
      BY <2>1, <1>p DEF Open
    <3>2. CallOf(x) \notin Open
      BY <1>r, <2>1, <3>1, IdParts DEF Open
    <3> QED BY <3>1, <3>2 DEF OneInv, StaleEntriesAreRetries
  <2> QED BY <2>1 DEF StaleEntriesAreRetries
<1> QED BY <1>1, <1>2, <1>3, <1>4, <1>5, <1>6, <1>7, <1>8 DEF OneInv

LEMMA SettleStage ==
  ASSUME settled \in [Calls -> Stages], NEW S, NEW how \in {"resolved", "rejected"}, Settle(S, how)
  PROVE  /\ \A c \in Calls : settled'[c] = "idle" <=> settled[c] = "idle"
         /\ \A c \in Calls \ S : settled'[c] = settled[c]
BY DEF Settle, Stages

\* The call of a removed id settles; the ids of other calls stay as they are
LEMMA SettleOneInv ==
  ASSUME TypeOK, OneInv, NEW id \in Ids, NEW how \in {"resolved", "rejected"},
         Settle({CallOf(id)}, how),
         id \in pending \union refreshing,
         pending' = pending \ {id}, armed' \subseteq armed \ {id} \/ (armed' = armed /\ id \in refreshing),
         UNCHANGED wire, refreshing' \subseteq refreshing, answers' \subseteq answers,
         UNCHANGED <<opts, ran, queues>>
  PROVE  OneInv'
<1>0. RequestsOK /\ QueuesOK
  BY TypeParts
<1>1. /\ \A c \in Calls : settled'[c] = "idle" <=> settled[c] = "idle"
      /\ \A c \in Calls \ {CallOf(id)} : settled'[c] = settled[c]
  BY <1>0, SettleStage DEF RequestsOK
<1>2. \A x \in pending : CallOf(x) = CallOf(id) => x = id
  BY DEF OneInv, OneEntry, Out
<1>3. \A c \in InQueue(queued) : settled'[c] = "no"
  <2>1. ASSUME NEW c \in InQueue(queued) PROVE c # CallOf(id) /\ c \in Calls
    BY <1>0, QueueCalls DEF OneInv, Unsent, OutIsFirst, Out, QueuesOK
  <2> QED BY <1>1, <2>1 DEF OneInv, Unsent
<1>4. \A x \in pending' : x[2] = 0 => CallOf(x) \in Open'
  <2>1. ASSUME NEW x \in pending', x[2] = 0 PROVE CallOf(x) \in Open'
    <3>1. x \in Ids /\ x \in pending /\ CallOf(x) # CallOf(id)
      BY <1>0, <1>2, <2>1 DEF RequestsOK
    <3>2. CallOf(x) \in Open
      BY <2>1, <3>1 DEF OneInv, StaleEntriesAreRetries
    <3> QED BY <1>1, <3>1, <3>2, IdParts DEF Open
  <2> QED BY <2>1
<1>5. armed' \subseteq armed /\ armed' \subseteq pending'
  BY DEF OneInv, OneEntry
<1> QED BY <1>1, <1>3, <1>4, <1>5, LossInv DEF queues

LEMMA RejectInv ==
  ASSUME TypeOK, OneInv, RejectPending, UNCHANGED <<opts, queues>>
  PROVE  OneInv'
<1>0. RequestsOK /\ QueuesOK
  BY TypeParts
<1>1. /\ \A c \in Calls : settled'[c] = "idle" <=> settled[c] = "idle"
      /\ \A c \in Calls \ CallsOf(pending) : settled'[c] = settled[c]
  BY <1>0, SettleStage DEF RequestsOK, RejectPending
<1>2. \A c \in InQueue(queued) : settled'[c] = "no"
  <2>1. ASSUME NEW c \in InQueue(queued) PROVE c \notin CallsOf(pending) /\ c \in Calls
    BY <1>0, QueueCalls DEF OneInv, Unsent, CallsOf, QueuesOK
  <2> QED BY <1>1, <2>1 DEF OneInv, Unsent
<1>3. pending' = {} /\ armed' = {}
  BY DEF RejectPending, OneInv, OneEntry
<1> QED BY <1>1, <1>2, <1>3, LossInv DEF RejectPending, queues

LEMMA QuietInv ==
  ASSUME TypeOK, OneInv, UNCHANGED <<opts, requests, queued, batch>>, batchTimer' => batchTimer
  PROVE  OneInv'
<1>1. \A c \in InQueue(queued) : settled'[c] = "no"
  BY DEF OneInv, Unsent, requests
<1>2. armed' \subseteq pending'
  BY DEF OneInv, OneEntry, requests
<1>3. \A x \in pending' : x[2] = 0 => CallOf(x) \in Open'
  <2>1. \A x \in pending : x[2] = 0 => CallOf(x) \in Open
    BY DEF OneInv, StaleEntriesAreRetries
  <2> QED BY <2>1 DEF requests, Open
<1> QED BY <1>1, <1>2, <1>3, LossInv DEF requests

LEMMA IgnoreInv ==
  ASSUME TypeOK, OneInv, NEW a \in answers, Ignore(a)
  PROVE  OneInv'
<1>1. \A c \in InQueue(queued) : settled'[c] = "no"
  BY DEF OneInv, Unsent, Ignore
<1>2. armed' \subseteq pending'
  BY DEF OneInv, OneEntry, Ignore
<1>3. \A x \in pending' : x[2] = 0 => CallOf(x) \in Open'
  <2>1. \A x \in pending : x[2] = 0 => CallOf(x) \in Open
    BY DEF OneInv, StaleEntriesAreRetries
  <2> QED BY <2>1 DEF Ignore, Open
<1> QED BY <1>1, <1>2, <1>3, LossInv DEF Ignore, queues

\* handleResponse starts a refresh: the refused id is the refreshing one
LEMMA RefreshStartInv ==
  ASSUME TypeOK, OneInv, NEW a \in answers, RefreshStart(a)
  PROVE  OneInv'
<1>0. RequestsOK /\ QueuesOK
  BY TypeParts
<1>1. a[2] = "unauthorized" /\ a[1] \in Refused /\ a[1] \in pending
  BY DEF RefreshStart, Refreshable, Refused
<1>2. /\ refreshing' = refreshing \union {a[1]} /\ armed' = armed \ {a[1]}
      /\ answers' = answers \ {a}
      /\ UNCHANGED <<opts, settled, pending, wire, ran, queued, batch, batchTimer>>
  BY DEF RefreshStart, queues
<1>3. Refused' = Refused \ {a[1]}
  <2>1. \A b \in answers : b \in Ids \X Outcomes
    BY <1>0 DEF RequestsOK
  <2>2. \A b \in answers : b[2] = "unauthorized" /\ b[1] = a[1] => b = a
    BY <1>1, <2>1
  <2>3. Refused' = {b[1] : b \in {d \in answers \ {a} : d[2] = "unauthorized"}}
    BY <1>2 DEF Refused
  <2>4. ASSUME NEW x \in Refused' PROVE x \in Refused \ {a[1]}
    BY <2>2, <2>3, <2>4 DEF Refused
  <2>5. ASSUME NEW x \in Refused \ {a[1]} PROVE x \in Refused'
    BY <2>3, <2>5 DEF Refused
  <2> QED BY <2>4, <2>5
<1>4. Out' = Out
  BY <1>1, <1>2, <1>3 DEF Out
<1>5. OneOut' /\ OutIsFirst'
  BY <1>2, <1>4 DEF OneInv, OneOut, OutIsFirst
<1>6. Apart'
  <2>1. a[1] \notin wire
    BY <1>1 DEF OneInv, Apart
  <2> QED BY <1>2, <1>3, <2>1 DEF OneInv, Apart
<1>7. OneEntry'
  BY <1>2, <1>4 DEF OneInv, OneEntry
<1>8. Unsent'
  BY <1>2 DEF OneInv, Unsent
<1>9. Results' /\ AtMostOnce' /\ StaleEntriesAreRetries' /\ BatchIsEmpty'
  BY <1>2 DEF OneInv, Results, AtMostOnce, StaleEntriesAreRetries, BatchIsEmpty, Open
<1> QED BY <1>5, <1>6, <1>7, <1>8, <1>9 DEF OneInv

\* The retry takes the place of the id it retries
LEMMA RefreshOkInv ==
  ASSUME TypeOK, RefreshesLeft, OneInv, NEW id \in Ids, RefreshOk(id)
  PROVE  OneInv'
<1> DEFINE retry == <<CallOf(id), id[2] + 1>>
<1>0. RequestsOK /\ QueuesOK
  BY TypeParts
<1>1. /\ id \in refreshing /\ refreshing' = refreshing \ {id}
      /\ pending' = (pending \ {id}) \union {retry}
      /\ armed' = armed \union {retry}
      /\ wire' = wire \union {retry}
      /\ UNCHANGED <<opts, settled, answers, ran, queued, batch, batchTimer>>
  BY DEF RefreshOk, queues
<1>2. retry \in Ids /\ CallOf(retry) = CallOf(id) /\ retry # id /\ retry[2] # 0 /\ retry[2] > 0
  <2>1. id[2] < MaxRefresh
    BY <1>1 DEF RefreshesLeft
  <2>2. retry[2] = id[2] + 1 /\ id[2] \in Nat
    BY IdParts
  <2> QED BY <2>1, <2>2, RetryId
<1> HIDE DEF retry
<1>3. Refused' = Refused /\ Out' = (Out \ {id}) \union {retry}
  <2>1. Refused' = Refused
    BY <1>1 DEF Refused
  <2>2. id \notin wire /\ id \notin Refused
    BY <1>1 DEF OneInv, Apart
  <2> QED BY <1>1, <2>1, <2>2 DEF Out
<1>4. id \in Out /\ \A x \in Out \union pending : CallOf(x) = CallOf(id) => x = id
  BY <1>1 DEF Out, OneInv, OneOut, OneEntry
<1>5. OneOut'
  BY <1>2, <1>3, <1>4 DEF OneInv, OneOut
<1>6. Apart'
  <2>1. retry \notin Out
    BY <1>2, <1>4
  <2> QED BY <1>1, <1>3, <2>1 DEF OneInv, Apart, Out
<1>7. OneEntry'
  <2>1. \A x, y \in pending' : CallOf(x) = CallOf(y) => x = y
    BY <1>1, <1>2, <1>4 DEF OneInv, OneEntry
  <2>2. \A x \in pending', y \in Out' : CallOf(x) = CallOf(y) => x = y
    BY <1>1, <1>2, <1>3, <1>4 DEF OneInv, OneEntry
  <2>3. id \notin armed
    BY <1>1 DEF OneInv, OneEntry
  <2>4. retry \notin refreshing
    BY <1>2, <1>4 DEF Out
  <2> QED BY <1>1, <2>1, <2>2, <2>3, <2>4 DEF OneInv, OneEntry
<1>8. OutIsFirst'
  BY <1>1, <1>2, <1>3, <1>4 DEF OneInv, OutIsFirst
<1>9. Unsent'
  <2>1. \A x \in pending' : x \in pending \/ (x = retry /\ CallOf(x) = CallOf(id))
    BY <1>1, <1>2
  <2>2. settled[CallOf(id)] # "idle" /\ CallOf(id) \notin InQueue(queued) \union InQueue(batch)
    BY <1>4 DEF OneInv, OutIsFirst
  <2> QED BY <1>1, <2>1, <2>2 DEF OneInv, Unsent
<1>10. Results' /\ AtMostOnce' /\ BatchIsEmpty'
  BY <1>1 DEF OneInv, Results, AtMostOnce, BatchIsEmpty
<1>11. StaleEntriesAreRetries'
  BY <1>1, <1>2 DEF OneInv, StaleEntriesAreRetries, Open
<1> QED BY <1>5, <1>6, <1>7, <1>8, <1>9, <1>10, <1>11 DEF OneInv

\* The server answers a request, and nothing else of its call is under way
LEMMA ServeInv ==
  ASSUME TypeOK, OneInv, NEW id \in Ids, NEW out \in Outcomes, Serve(id, out)
  PROVE  OneInv'
<1>0. RequestsOK /\ QueuesOK
  BY TypeParts
<1>1. /\ id \in wire /\ wire' = wire \ {id} /\ answers' = answers \union {<<id, out>>}
      /\ UNCHANGED <<opts, settled, pending, armed, refreshing, queued, batch, batchTimer>>
  BY DEF Serve, queues
<1>2. id \in Out /\ id \notin refreshing /\ id \notin Refused
  BY <1>1 DEF Out, OneInv, Apart
<1>3. CallOf(id) \in Calls /\ ran[CallOf(id)] = 0
      /\ CallOf(id) \notin InQueue(queued) \union InQueue(batch) /\ settled[CallOf(id)] # "idle"
  BY <1>2, IdParts DEF OneInv, OutIsFirst
<1>4. Refused' = IF out = "unauthorized" THEN Refused \union {id} ELSE Refused
  <2>1. <<id, out>>[1] = id /\ <<id, out>>[2] = out
    OBVIOUS
  <2>2. Refused' = {b[1] : b \in {d \in answers \union {<<id, out>>} : d[2] = "unauthorized"}}
    BY <1>1 DEF Refused
  <2> QED BY <2>1, <2>2 DEF Refused
<1>5. Out' = IF out = "unauthorized" THEN Out ELSE Out \ {id}
  BY <1>1, <1>2, <1>4 DEF Out
<1>6. /\ \A c \in Calls \ {CallOf(id)} : ran'[c] = ran[c]
      /\ ran'[CallOf(id)] \in {0, 1}
      /\ out = "unauthorized" => ran' = ran
      /\ out = "ok" => ran'[CallOf(id)] = 1
  BY <1>0, <1>3 DEF Serve, RequestsOK
<1>7. OneOut'
  BY <1>5 DEF OneInv, OneOut
<1>8. Apart'
  BY <1>1, <1>2, <1>4 DEF OneInv, Apart
<1>9. OneEntry'
  BY <1>1, <1>5 DEF OneInv, OneEntry
<1>10. OutIsFirst'
  <2>1. ASSUME NEW x \in Out' PROVE x \in Out /\ ran'[CallOf(x)] = 0
    <3>1. x \in Out
      BY <1>5, <2>1
    <3>2. CallOf(x) \in Calls
      BY <3>1, OutIds, IdParts
    <3>3. CASE CallOf(x) = CallOf(id)
      <4>1. x = id
        BY <1>2, <3>1, <3>3 DEF OneInv, OneOut
      <4>2. out = "unauthorized"
        BY <1>5, <4>1
      <4> QED BY <1>3, <1>6, <3>1, <3>3, <4>2
    <3>4. CASE CallOf(x) # CallOf(id)
      BY <1>6, <3>1, <3>2, <3>4 DEF OneInv, OutIsFirst
    <3> QED BY <3>3, <3>4
  <2> QED BY <1>1, <2>1 DEF OneInv, OutIsFirst
<1>11. Unsent'
  <2>1. InQueue(queued) \subseteq Calls /\ InQueue(batch) \subseteq Calls
    BY <1>0, QueueCalls DEF QueuesOK
  <2>2. \A c \in Calls : settled[c] = "idle" \/ c \in InQueue(queued) \union InQueue(batch) =>
            ran'[c] = ran[c]
    BY <1>3, <1>6
  <2> QED BY <1>1, <2>1, <2>2 DEF OneInv, Unsent
<1>12. Results'
  <2>1. ASSUME NEW b \in answers', b[2] = "ok" PROVE ran'[CallOf(b[1])] = 1
    <3>1. CASE b \in answers
      <4>1. ran[CallOf(b[1])] = 1 /\ CallOf(b[1]) \in Calls
        BY <1>0, <2>1, <3>1, IdParts DEF OneInv, Results, RequestsOK
      <4> QED BY <1>3, <1>6, <4>1
    <3>2. CASE b = <<id, out>>
      BY <1>6, <2>1, <3>2
    <3> QED BY <1>1, <3>1, <3>2
  <2> QED BY <2>1 DEF Results
<1>13. AtMostOnce'
  BY <1>6 DEF OneInv, AtMostOnce
<1>14. StaleEntriesAreRetries' /\ BatchIsEmpty'
  BY <1>1 DEF OneInv, StaleEntriesAreRetries, BatchIsEmpty, Open
<1> QED BY <1>7, <1>8, <1>9, <1>10, <1>11, <1>12, <1>13, <1>14 DEF OneInv

LEMMA IdleIsUntouched ==
  ASSUME TypeOK, OneInv, NEW c \in Calls, settled[c] = "idle"
  PROVE  /\ ran[c] = 0
         /\ c \notin InQueue(queued) \union InQueue(batch)
         /\ \A x \in pending \union Out : CallOf(x) # c
BY DEF OneInv, Unsent, OutIsFirst

LEMMA CallSentInv ==
  ASSUME TypeOK, OneInv, NEW c \in Calls, CallSent(c)
  PROVE  OneInv'
<1>0. RequestsOK
  BY TypeParts
<1>1. /\ settled[c] = "idle" /\ settled' = [settled EXCEPT ![c] = "no"]
      /\ UNCHANGED <<opts, refreshing, answers, ran, queued, batch, batchTimer>>
  BY DEF CallSent, queues
<1>2. {<<d, 0>> : d \in {c}} = {<<c, 0>>}
  OBVIOUS
<1>3. /\ wire' = wire \union {<<d, 0>> : d \in {c}}
      /\ pending' = pending \union {<<d, 0>> : d \in {c}}
      /\ armed' = armed \union {<<d, 0>> : d \in {c}}
  BY <1>2 DEF CallSent, SendAll
<1>4. /\ settled'[c] = "no"
      /\ \A d \in Calls : settled[d] # "idle" => settled'[d] = settled[d]
      /\ \A d \in Calls \ {c} : settled'[d] = settled[d]
  BY <1>0, <1>1 DEF RequestsOK
<1>5. /\ ran[c] = 0 /\ c \notin InQueue(queued) \union InQueue(batch)
      /\ \A x \in pending \union Out : CallOf(x) # c
  BY <1>1, IdleIsUntouched
<1>6. BatchIsEmpty'
  BY <1>1 DEF OneInv, BatchIsEmpty
<1>7. InQueue(queued') \subseteq InQueue(queued) \ {c} /\ InQueue(batch') \subseteq InQueue(batch) \ {c}
  BY <1>1, <1>5
<1>8. \A d \in {c} : /\ ran[d] = 0 /\ settled'[d] # "idle" /\ settled'[d] = "no"
                     /\ \A x \in Out : CallOf(x) # d
                     /\ \A x \in pending : CallOf(x) = d => x = <<d, 0>>
  BY <1>4, <1>5
<1> DEFINE S == {c}
<1>9. S \in SUBSET Calls /\ S \in SUBSET S
  OBVIOUS
<1> HIDE DEF S
<1> QED BY <1>1, <1>3, <1>4, <1>6, <1>7, <1>8, <1>9, SendInv DEF S

LEMMA FlushQueuedInv ==
  ASSUME TypeOK, OneInv, FlushQueued, UNCHANGED opts
  PROVE  OneInv'
<1> DEFINE S == InQueue(queued)
<1>1. S \in SUBSET Calls /\ S \in SUBSET S
  BY TypeParts, QueueCalls DEF QueuesOK
<1>2. /\ wire' = wire \union {<<d, 0>> : d \in S}
      /\ pending' = pending \union {<<d, 0>> : d \in S}
      /\ armed' = armed \union {<<d, 0>> : d \in S}
      /\ UNCHANGED <<opts, settled, refreshing, answers, ran, batch, batchTimer>>
      /\ queued' = <<>>
  BY DEF FlushQueued, SendAll
<1>3. \A d \in S : /\ ran[d] = 0 /\ settled'[d] # "idle" /\ settled'[d] = "no"
                   /\ \A x \in Out : CallOf(x) # d
                   /\ \A x \in pending : CallOf(x) = d => x = <<d, 0>>
  BY <1>2 DEF OneInv, Unsent, OutIsFirst
<1>4. InQueue(queued') \subseteq InQueue(queued) \ S /\ InQueue(batch') \subseteq InQueue(batch) \ S
  BY <1>2, QueueEmpty DEF OneInv, Unsent
<1>5. BatchIsEmpty'
  BY <1>2 DEF OneInv, BatchIsEmpty
<1> HIDE DEF S
<1> QED BY <1>1, <1>2, <1>3, <1>4, <1>5, SendInv

LEMMA FlushBatchInv ==
  ASSUME TypeOK, OneInv, FlushBatch
  PROVE  OneInv'
<1> DEFINE S == InQueue(batch)
<1> DEFINE P == {}
<1>1. S \in SUBSET Calls /\ P \in SUBSET S
  BY TypeParts, QueueCalls DEF QueuesOK
<1>2. /\ wire' = wire \union {<<d, 0>> : d \in S}
      /\ pending' = pending \union {<<d, 0>> : d \in P}
      /\ armed' = armed \union {<<d, 0>> : d \in P}
      /\ UNCHANGED <<opts, settled, refreshing, answers, ran, queued>>
      /\ batch' = <<>> /\ batchTimer' = FALSE
  BY DEF FlushBatch
<1>3. \A d \in S : /\ ran[d] = 0 /\ settled'[d] # "idle"
                   /\ \A x \in Out : CallOf(x) # d
                   /\ \A x \in pending : CallOf(x) = d => x = <<d, 0>>
  BY <1>2 DEF OneInv, Unsent, OutIsFirst
<1>4. InQueue(queued') \subseteq InQueue(queued) \ S /\ InQueue(batch') \subseteq InQueue(batch) \ S
  BY <1>2, QueueEmpty DEF OneInv, Unsent
<1>5. BatchIsEmpty'
  BY <1>2 DEF BatchIsEmpty
<1>6. \A d \in P : settled'[d] = "no"
  OBVIOUS
<1> HIDE DEF S, P
<1> QED BY <1>1, <1>2, <1>3, <1>4, <1>5, <1>6, SendInv

\* A call enters the batch, or completes it and the batch is sent
LEMMA CallBatchedInv ==
  ASSUME TypeOK, OneInv, NEW c \in Calls, CallBatched(c)
  PROVE  OneInv'
<1>0. RequestsOK /\ QueuesOK
  BY TypeParts
<1>1. /\ opts.batching /\ settled[c] = "idle" /\ settled' = [settled EXCEPT ![c] = "no"]
      /\ pending' = pending \union {<<c, 0>>} /\ armed' = armed \union {<<c, 0>>}
      /\ UNCHANGED <<opts, refreshing, answers, ran, queued>>
  BY DEF CallBatched
<1>2. /\ settled'[c] = "no"
      /\ \A d \in Calls : settled[d] # "idle" => settled'[d] = settled[d]
      /\ \A d \in Calls \ {c} : settled'[d] = settled[d]
  BY <1>0, <1>1 DEF RequestsOK
<1>3. /\ ran[c] = 0 /\ c \notin InQueue(queued) \union InQueue(batch)
      /\ \A x \in pending \union Out : CallOf(x) # c
  BY <1>1, IdleIsUntouched
<1>4. BatchIsEmpty'
  BY <1>1 DEF BatchIsEmpty
<1>q. InQueue(queued) \subseteq Calls /\ InQueue(batch) \subseteq Calls
  BY <1>0, QueueCalls DEF QueuesOK
<1>5. CASE wire' = wire \union {<<d, 0>> : d \in InQueue(batch) \union {c}} /\ batch' = <<>>
  <2> DEFINE S == InQueue(batch) \union {c}
  <2> DEFINE P == {c}
  <2>1. S \in SUBSET Calls /\ P \in SUBSET S
    BY <1>q
  <2>2. {<<d, 0>> : d \in P} = {<<c, 0>>}
    OBVIOUS
  <2>3. /\ wire' = wire \union {<<d, 0>> : d \in S}
        /\ pending' = pending \union {<<d, 0>> : d \in P}
        /\ armed' = armed \union {<<d, 0>> : d \in P}
    BY <1>1, <1>5, <2>2
  <2>4. \A d \in InQueue(batch) :
            /\ ran[d] = 0 /\ settled'[d] # "idle"
            /\ \A x \in Out : CallOf(x) # d
            /\ \A x \in pending : CallOf(x) = d => x = <<d, 0>>
    BY <1>q, <1>2 DEF OneInv, Unsent, OutIsFirst
  <2>5. \A d \in S : /\ ran[d] = 0 /\ settled'[d] # "idle"
                     /\ \A x \in Out : CallOf(x) # d
                     /\ \A x \in pending : CallOf(x) = d => x = <<d, 0>>
    BY <1>2, <1>3, <2>4
  <2>6. InQueue(queued') \subseteq InQueue(queued) \ S /\ InQueue(batch') \subseteq InQueue(batch) \ S
    BY <1>1, <1>3, <1>5, QueueEmpty DEF OneInv, Unsent
  <2>7. /\ \A d \in P : settled'[d] = "no"
        /\ \A d \in Calls \ S : settled'[d] = settled[d]
    BY <1>2
  <2> HIDE DEF S, P
  <2> QED BY <1>1, <1>2, <1>4, <2>1, <2>3, <2>5, <2>6, <2>7, SendInv
<1>6. CASE UNCHANGED wire /\ batch' = Append(batch, c)
  <2>1. InQueue(batch') = InQueue(batch) \union {c}
    BY <1>0, <1>6, QueueAppend DEF QueuesOK
  <2>2. Refused' = Refused /\ Out' = Out
    BY <1>1, <1>6 DEF Refused, Out
  <2>3. CallOf(<<c, 0>>) = c /\ <<c, 0>> \notin refreshing
    BY <1>3 DEF CallOf, Out
  <2>4. OneOut' /\ Apart'
    BY <1>1, <1>6, <2>2 DEF OneInv, OneOut, Apart
  <2>5. OneEntry'
    BY <1>1, <1>3, <2>2, <2>3 DEF OneInv, OneEntry
  <2>6. OutIsFirst'
    <3>1. \A x \in Out : CallOf(x) # c /\ CallOf(x) \in Calls
      BY <1>3, OutIds, IdParts
    <3> QED BY <1>1, <1>2, <2>1, <2>2, <3>1 DEF OneInv, OutIsFirst
  <2>7. Unsent'
    <3>1. ASSUME NEW d \in Calls, settled'[d] = "idle"
          PROVE  /\ ran'[d] = 0
                 /\ d \notin InQueue(queued') \union InQueue(batch')
                 /\ \A x \in pending' : CallOf(x) # d
      <4>1. d # c /\ settled[d] = "idle"
        BY <1>2, <3>1
      <4> QED BY <1>1, <2>1, <2>3, <4>1 DEF OneInv, Unsent
    <3>2. ASSUME NEW d \in InQueue(queued')
          PROVE  /\ settled'[d] = "no" /\ ran'[d] = 0 /\ d \notin InQueue(batch')
                 /\ \A x \in pending' : CallOf(x) # d
      <4>1. d \in InQueue(queued) /\ d # c /\ d \in Calls
        BY <1>1, <1>3, <1>q, <3>2
      <4> QED BY <1>1, <1>2, <2>1, <2>3, <4>1 DEF OneInv, Unsent
    <3>3. ASSUME NEW d \in InQueue(batch')
          PROVE  /\ settled'[d] # "idle" /\ ran'[d] = 0
                 /\ \A x \in pending' : CallOf(x) = d => x = <<d, 0>>
      <4>1. CASE d = c
        BY <1>1, <1>2, <1>3, <2>3, <4>1
      <4>2. CASE d # c
        <5>1. d \in InQueue(batch) /\ d \in Calls
          BY <1>q, <2>1, <3>3, <4>2
        <5> QED BY <1>1, <1>2, <2>3, <4>2, <5>1 DEF OneInv, Unsent
      <4> QED BY <4>1, <4>2
    <3> QED BY <3>1, <3>2, <3>3 DEF Unsent
  <2>8. Results' /\ AtMostOnce'
    BY <1>1 DEF OneInv, Results, AtMostOnce
  <2>9. StaleEntriesAreRetries'
    <3>1. ASSUME NEW x \in pending', CallOf(x) \notin Open' PROVE x[2] > 0
      <4>1. x \in pending /\ CallOf(x) \in Calls
        BY <1>0, <1>1, <1>2, <2>3, <3>1, IdParts DEF Open, RequestsOK
      <4>2. CallOf(x) \notin Open
        BY <1>2, <3>1, <4>1 DEF Open
      <4> QED BY <4>1, <4>2 DEF OneInv, StaleEntriesAreRetries
    <3> QED BY <3>1 DEF StaleEntriesAreRetries
  <2> QED BY <1>4, <2>4, <2>5, <2>6, <2>7, <2>8, <2>9 DEF OneInv
<1> QED BY <1>5, <1>6 DEF CallBatched

LEMMA CallQueuedInv ==
  ASSUME TypeOK, OneInv, NEW c \in Calls, CallQueued(c)
  PROVE  OneInv'
<1>0. RequestsOK /\ QueuesOK
  BY TypeParts
<1>1. /\ settled[c] = "idle" /\ settled' = [settled EXCEPT ![c] = "no"]
      /\ UNCHANGED <<opts, pending, armed, refreshing, wire, answers, ran, batch, batchTimer>>
  BY DEF CallQueued
<1>2. /\ settled'[c] = "no"
      /\ \A d \in Calls : settled[d] # "idle" => settled'[d] = settled[d]
      /\ \A d \in Calls \ {c} : settled'[d] = settled[d]
  BY <1>0, <1>1 DEF RequestsOK
<1>3. /\ ran[c] = 0 /\ c \notin InQueue(queued) \union InQueue(batch)
      /\ \A x \in pending \union Out : CallOf(x) # c
  BY <1>1, IdleIsUntouched
<1>4. InQueue(queued') = InQueue(queued) \union {c}
  BY <1>0, QueueAppend DEF CallQueued, QueuesOK
<1>q. InQueue(queued) \subseteq Calls /\ InQueue(batch) \subseteq Calls
  BY <1>0, QueueCalls DEF QueuesOK
<1>5. Refused' = Refused /\ Out' = Out
  BY <1>1 DEF Refused, Out
<1>6. OneOut' /\ Apart' /\ OneEntry'
  BY <1>1, <1>5 DEF OneInv, OneOut, Apart, OneEntry
<1>7. OutIsFirst'
  <2>1. \A x \in Out : CallOf(x) # c /\ CallOf(x) \in Calls
    BY <1>3, OutIds, IdParts
  <2> QED BY <1>1, <1>2, <1>4, <1>5, <2>1 DEF OneInv, OutIsFirst
<1>8. Unsent'
  <2>1. ASSUME NEW d \in Calls, settled'[d] = "idle"
        PROVE  /\ ran'[d] = 0
               /\ d \notin InQueue(queued') \union InQueue(batch')
               /\ \A x \in pending' : CallOf(x) # d
    <3>1. d # c /\ settled[d] = "idle"
      BY <1>2, <2>1
    <3> QED BY <1>1, <1>4, <3>1 DEF OneInv, Unsent
  <2>2. ASSUME NEW d \in InQueue(queued')
        PROVE  /\ settled'[d] = "no" /\ ran'[d] = 0 /\ d \notin InQueue(batch')
               /\ \A x \in pending' : CallOf(x) # d
    <3>1. CASE d = c
      BY <1>1, <1>2, <1>3, <3>1
    <3>2. CASE d # c
      <4>1. d \in InQueue(queued) /\ d \in Calls
        BY <1>4, <1>q, <2>2, <3>2
      <4> QED BY <1>1, <1>2, <3>2, <4>1 DEF OneInv, Unsent
    <3> QED BY <3>1, <3>2
  <2>3. ASSUME NEW d \in InQueue(batch')
        PROVE  /\ settled'[d] # "idle" /\ ran'[d] = 0
               /\ \A x \in pending' : CallOf(x) = d => x = <<d, 0>>
    <3>1. d \in InQueue(batch) /\ d \in Calls /\ d # c
      BY <1>1, <1>3, <1>q, <2>3
    <3> QED BY <1>1, <1>2, <3>1 DEF OneInv, Unsent
  <2> QED BY <2>1, <2>2, <2>3 DEF Unsent
<1>9. Results' /\ AtMostOnce' /\ BatchIsEmpty'
  BY <1>1 DEF OneInv, Results, AtMostOnce, BatchIsEmpty
<1>10. StaleEntriesAreRetries'
  <2>1. \A x \in pending : CallOf(x) \in Calls
    BY <1>0, IdParts DEF RequestsOK
  <2>2. \A d \in Open : d \in Open'
    BY <1>2 DEF Open
  <2> QED BY <1>1, <2>1, <2>2 DEF OneInv, StaleEntriesAreRetries
<1> QED BY <1>6, <1>7, <1>8, <1>9, <1>10 DEF OneInv

LEMMA OneNext ==
  ASSUME TypeOK, RefreshesLeft, OneInv, Next
  PROVE  OneInv'
<1>0. RequestsOK
  BY TypeParts
<1>1. ASSUME NEW c \in Calls, Call(c) PROVE OneInv'
  BY <1>1, CallBatchedInv, CallQueuedInv, CallSentInv DEF Call
<1>2. CASE FlushBatch
  BY <1>2, FlushBatchInv
<1>3. ASSUME NEW id \in Ids, NEW out \in Outcomes, Serve(id, out) PROVE OneInv'
  BY <1>3, ServeInv
<1>4. ASSUME NEW a \in answers, HandleResponse(a) PROVE OneInv'
  <2>1. CASE Answered(a)
    <3>1. a[1] \in Ids
      BY <1>0 DEF RequestsOK
    <3>2. PICK how \in {"resolved", "rejected"} : Settle({CallOf(a[1])}, how)
      BY <2>1 DEF Answered
    <3>3. /\ a[1] \in pending /\ pending' = pending \ {a[1]} /\ armed' = armed \ {a[1]}
          /\ answers' \subseteq answers
          /\ UNCHANGED <<opts, refreshing, wire, ran, queues>>
      BY <2>1 DEF Answered
    <3> QED BY <3>1, <3>2, <3>3, SettleOneInv
  <2> QED BY <1>4, <2>1, IgnoreInv, RefreshStartInv DEF HandleResponse
<1>5. ASSUME NEW id \in Ids, RefreshOk(id) PROVE OneInv'
  BY <1>5, RefreshOkInv
<1>6. ASSUME NEW id \in Ids, RefreshFail(id) PROVE OneInv'
  <2>1. /\ id \in refreshing /\ refreshing' = refreshing \ {id} /\ pending' = pending \ {id}
        /\ Settle({CallOf(id)}, "rejected")
        /\ UNCHANGED <<opts, armed, wire, answers, ran, queues>>
    BY <1>6 DEF RefreshFail
  <2> QED BY <2>1, SettleOneInv
<1>7. ASSUME NEW id \in Ids, Timeout(id) PROVE OneInv'
  <2>1. /\ id \in armed /\ armed' = armed \ {id} /\ pending' = pending \ {id}
        /\ Settle({CallOf(id)}, "rejected")
        /\ UNCHANGED <<opts, refreshing, wire, answers, ran, queues>>
    BY <1>7 DEF Timeout
  <2>2. id \in pending
    BY <2>1 DEF OneInv, OneEntry
  <2> QED BY <2>1, <2>2, SettleOneInv
<1>8. CASE Drop \/ TransportError \/ DisconnectEnd
  BY <1>8, RejectInv DEF Drop, TransportError, DisconnectEnd
<1>9. CASE OnConnected \/ Reconnected \/ Connected
  BY <1>9, FlushQueuedInv DEF OnConnected, Reconnected, Connected
<1>10. CASE Redial \/ DialEnd \/ Connect \/ ConnectEnd \/ PongLate \/ DisconnectStart
  BY <1>10, QuietInv DEF Redial, DialEnd, DialUp, DialFail, Connect, ConnectEnd, ConnectUp,
     ConnectFail, PongLate, DisconnectStart, queues
<1> QED BY <1>1, <1>2, <1>3, <1>4, <1>5, <1>6, <1>7, <1>8, <1>9, <1>10 DEF Next, RefreshEnd

LEMMA OneInit == Init => OneInv
<1> SUFFICES ASSUME Init PROVE OneInv
  OBVIOUS
<1>1. /\ pending = {} /\ armed = {} /\ refreshing = {} /\ wire = {} /\ answers = {}
      /\ queued = <<>> /\ batch = <<>> /\ batchTimer = FALSE
      /\ \A c \in Calls : ran[c] = 0
  BY DEF Init
<1>2. Refused = {} /\ Out = {}
  BY <1>1 DEF Refused, Out
<1>3. Unsent
  BY <1>1, QueueEmpty DEF Unsent
<1> QED BY <1>1, <1>2, <1>3
     DEF OneInv, OneOut, Apart, OneEntry, OutIsFirst, Results, AtMostOnce,
         StaleEntriesAreRetries, BatchIsEmpty

LEMMA OneStep == TypeInv /\ OneInv /\ [Next]_vars => OneInv'
<1> SUFFICES ASSUME TypeInv, OneInv, [Next]_vars PROVE OneInv'
  OBVIOUS
<1>1. CASE Next
  BY <1>1, OneNext DEF TypeInv
<1>2. CASE UNCHANGED vars
  BY <1>2, QuietInv DEF TypeInv, vars, queues
<1> QED BY <1>1, <1>2

\* No command runs twice, however often its call is sent again after a refused
\* token, and whatever times out, drops, reconnects or overlaps.
THEOREM RunsAtMostOnce == Spec => []AtMostOnce
<1>1. OneInv => AtMostOnce
  BY DEF OneInv
<1> QED BY TypeInit, TypeStep, OneInit, OneStep, <1>1, PTL DEF Spec

\* An entry that outlives its call is always a retry: every other way to settle
\* a call takes its entry along.
THEOREM StaleEntriesAreAlwaysRetries == Spec => []StaleEntriesAreRetries
<1>1. OneInv => StaleEntriesAreRetries
  BY DEF OneInv
<1> QED BY TypeInit, TypeStep, OneInit, OneStep, <1>1, PTL DEF Spec

------------------------------------------------------------------------------
(* What an entry is waiting for *)

\* An entry has its timer, or its refresh is awaited
Watched == pending \subseteq armed \union refreshing

LEMMA FlushWatched ==
  ASSUME Watched, FlushQueued PROVE Watched'
BY DEF Watched, FlushQueued, SendAll

LEMMA WatchedNext ==
  ASSUME Watched, [Next]_vars
  PROVE  Watched'
<1>1. ASSUME NEW c \in Calls, Call(c) PROVE Watched'
  BY <1>1 DEF Call, CallBatched, CallQueued, CallSent, SendAll, Watched
<1>2. ASSUME NEW a \in answers, HandleResponse(a) PROVE Watched'
  BY <1>2 DEF HandleResponse, Ignore, Answered, RefreshStart, Watched
<1>3. ASSUME NEW id \in Ids, RefreshEnd(id) \/ Timeout(id) PROVE Watched'
  BY <1>3 DEF RefreshEnd, RefreshOk, RefreshFail, Timeout, Watched
<1>4. CASE Drop \/ TransportError \/ DisconnectEnd
  BY <1>4 DEF Drop, TransportError, DisconnectEnd, RejectPending, Watched
<1>5. CASE OnConnected \/ Reconnected \/ Connected
  BY <1>5, FlushWatched DEF OnConnected, Reconnected, Connected
<1>6. CASE UNCHANGED <<pending, armed, refreshing>>
  BY <1>6 DEF Watched
<1>7. CASE Redial \/ DialEnd \/ Connect \/ ConnectEnd \/ PongLate \/ DisconnectStart
  BY <1>6, <1>7 DEF Redial, DialEnd, DialUp, DialFail, Connect, ConnectEnd, ConnectUp,
     ConnectFail, PongLate, DisconnectStart, requests
<1>8. CASE FlushBatch \/ \E id \in Ids, out \in Outcomes : Serve(id, out)
  BY <1>6, <1>8 DEF FlushBatch, Serve
<1>9. CASE UNCHANGED vars
  BY <1>6, <1>9 DEF vars, requests
<1> QED BY <1>1, <1>2, <1>3, <1>4, <1>5, <1>7, <1>8, <1>9 DEF Next

\* A call has one request under way, on the wire or awaiting a refresh, and one
\* entry, which is that request's; every entry has a timer or an awaited refresh,
\* never both, and no timer is left of an entry that is gone.
OneUnderWay ==
    /\ \A x, y \in wire \union refreshing : CallOf(x) = CallOf(y) => x = y
    /\ wire \intersect refreshing = {}
    /\ \A x \in pending, y \in pending \union wire \union refreshing :
          CallOf(x) = CallOf(y) => x = y
    /\ armed \subseteq pending
    /\ pending \subseteq armed \union refreshing
    /\ armed \intersect refreshing = {}

\* Retries, drops, second reconnection loops and queues that are flushed twice never
\* give a call a second request or entry, nor leave a timer behind.
THEOREM OneRequestUnderWay == Spec => []OneUnderWay
<1>1. Init => Watched
  BY DEF Init, Watched
<1>2. Watched /\ [Next]_vars => Watched'
  BY WatchedNext
<1>3. OneInv /\ Watched => OneUnderWay
  BY DEF OneInv, OneOut, Apart, OneEntry, Out, Watched, OneUnderWay
<1> QED BY TypeInit, TypeStep, OneInit, OneStep, <1>1, <1>2, <1>3, PTL DEF Spec

\* The ids a call is waiting for
Busy(c) == {id \in pending \union refreshing : CallOf(id) = c}

\* The steps an entry has left: a timer or an answer, and a refresh, for each id
Rank(id) == 2 * (MaxRefresh - id[2]) + IF id \in armed THEN 2 ELSE 1

\* What a call waits for is its first request, sent now; what it waited for before;
\* or comes later than what it waited for before.
RequestsAdvance ==
    \A c \in Calls : \A y \in Busy(c)' :
        /\ Rank(y)' \in 1 .. (2 * MaxRefresh + 2)
        /\ \/ y = <<c, 0>> /\ (settled[c] = "idle" \/ c \in InQueue(queued))
           \/ y \in Busy(c) /\ Rank(y)' = Rank(y)
           \/ \E x \in Busy(c) : Rank(y)' < Rank(x)

\* The step goes on with a call if each of its ids does
OnlyLater(y) ==
    \/ y = <<CallOf(y), 0>> /\ (settled[CallOf(y)] = "idle" \/ CallOf(y) \in InQueue(queued))
    \/ y \in pending \union refreshing /\ (y \in armed' <=> y \in armed)
    \/ \E x \in pending \union refreshing : CallOf(x) = CallOf(y) /\ Rank(y)' < Rank(x)

LEMMA AdvanceBy ==
  ASSUME TypeOK', \A y \in pending' \union refreshing' : OnlyLater(y)
  PROVE  RequestsAdvance
<1> SUFFICES ASSUME NEW c \in Calls, NEW y \in Busy(c)'
             PROVE  /\ Rank(y)' \in 1 .. (2 * MaxRefresh + 2)
                    /\ \/ y = <<c, 0>> /\ (settled[c] = "idle" \/ c \in InQueue(queued))
                       \/ y \in Busy(c) /\ Rank(y)' = Rank(y)
                       \/ \E x \in Busy(c) : Rank(y)' < Rank(x)
  BY DEF RequestsAdvance
<1>1. y \in pending' \union refreshing' /\ CallOf(y) = c
  BY DEF Busy
<1>2. y \in Ids
  BY <1>1 DEF TypeOK
<1>3. y[2] \in Nat /\ y[2] <= MaxRefresh
  BY <1>2, IdParts
<1>4. Rank(y)' \in 1 .. (2 * MaxRefresh + 2)
  BY <1>3 DEF Rank
<1>5. OnlyLater(y)
  BY <1>1
<1>6. CASE y \in pending \union refreshing /\ (y \in armed' <=> y \in armed)
  <2>1. Rank(y)' = Rank(y)
    BY <1>6 DEF Rank
  <2> QED BY <1>1, <1>4, <1>6, <2>1 DEF Busy
<1>7. CASE ~(y \in pending \union refreshing /\ (y \in armed' <=> y \in armed))
  BY <1>1, <1>4, <1>5, <1>7 DEF OnlyLater, Busy
<1> QED BY <1>6, <1>7

\* Entries, timers and refreshes are only lost, or an entry awaits its refresh
LEMMA LossAdvances ==
  ASSUME TypeOK, TypeOK', armed' \subseteq armed,
         pending' \union refreshing' \subseteq pending \union refreshing
  PROVE  RequestsAdvance
<1> SUFFICES ASSUME NEW y \in pending' \union refreshing' PROVE OnlyLater(y)
  BY AdvanceBy
<1>1. y \in pending \union refreshing
  OBVIOUS
<1>2. y \in Ids
  BY <1>1 DEF TypeOK
<1>3. y[2] \in Nat
  BY <1>2, IdParts
<1>4. CASE y \in armed /\ y \notin armed'
  <2>1. Rank(y)' < Rank(y)
    BY <1>3, <1>4 DEF Rank
  <2> QED BY <1>1, <2>1 DEF OnlyLater
<1>5. CASE y \in armed' <=> y \in armed
  BY <1>1, <1>5 DEF OnlyLater
<1> QED BY <1>4, <1>5

\* Calls are sent for the first time
LEMMA SendAdvances ==
  ASSUME TypeOK', NEW S \in SUBSET Calls,
         \A c \in S : settled[c] = "idle" \/ c \in InQueue(queued),
         pending' = pending \union {<<c, 0>> : c \in S},
         armed' = armed \union {<<c, 0>> : c \in S},
         UNCHANGED refreshing
  PROVE  RequestsAdvance
<1> SUFFICES ASSUME NEW y \in pending' \union refreshing' PROVE OnlyLater(y)
  BY AdvanceBy
<1>1. CASE \E c \in S : y = <<c, 0>>
  BY <1>1 DEF OnlyLater, CallOf
<1>2. CASE ~ \E c \in S : y = <<c, 0>>
  BY <1>2 DEF OnlyLater
<1> QED BY <1>1, <1>2

LEMMA RetryAdvances ==
  ASSUME TypeOK, TypeOK', OneInv, NEW id \in Ids, RefreshOk(id)
  PROVE  RequestsAdvance
<1> DEFINE retry == <<CallOf(id), id[2] + 1>>
<1> SUFFICES ASSUME NEW y \in pending' \union refreshing' PROVE OnlyLater(y)
  BY AdvanceBy
<1>1. /\ id \in refreshing /\ refreshing' = refreshing \ {id}
      /\ pending' = (pending \ {id}) \union {retry} /\ armed' = armed \union {retry}
  BY DEF RefreshOk
<1>2. CASE y = retry
  <2>1. id[2] \in Nat /\ retry[2] = id[2] + 1 /\ CallOf(retry) = CallOf(id)
    BY IdParts DEF CallOf
  <2>2. id \notin armed /\ retry \in armed'
    BY <1>1 DEF OneInv, OneEntry
  <2> HIDE DEF retry
  <2>3. Rank(retry)' < Rank(id)
    BY <2>1, <2>2 DEF Rank
  <2> QED BY <1>1, <1>2, <2>1, <2>3 DEF OnlyLater
<1>3. CASE y # retry
  BY <1>1, <1>3 DEF OnlyLater
<1> QED BY <1>2, <1>3

LEMMA AdvanceNext ==
  ASSUME TypeOK, TypeOK', OneInv, [Next]_vars
  PROVE  RequestsAdvance
<1>1. ASSUME NEW c \in Calls, Call(c) PROVE RequestsAdvance
  <2>1. CASE CallBatched(c) \/ CallSent(c)
    <3>1. /\ settled[c] = "idle" /\ UNCHANGED refreshing
          /\ pending' = pending \union {<<d, 0>> : d \in {c}}
          /\ armed' = armed \union {<<d, 0>> : d \in {c}}
      BY <2>1 DEF CallBatched, CallSent, SendAll
    <3> DEFINE S == {c}
    <3>2. /\ S \in SUBSET Calls /\ \A d \in S : settled[d] = "idle"
          /\ pending' = pending \union {<<d, 0>> : d \in S}
          /\ armed' = armed \union {<<d, 0>> : d \in S}
      BY <3>1
    <3> HIDE DEF S
    <3> QED BY <3>1, <3>2, SendAdvances
  <2>2. CASE CallQueued(c)
    BY <2>2, LossAdvances DEF CallQueued
  <2> QED BY <1>1, <2>1, <2>2 DEF Call
<1>2. ASSUME NEW a \in answers, HandleResponse(a) PROVE RequestsAdvance
  <2>1. armed' \subseteq armed /\ pending' \union refreshing' \subseteq pending \union refreshing
    BY <1>2 DEF HandleResponse, Ignore, Answered, RefreshStart
  <2> QED BY <2>1, LossAdvances
<1>3. ASSUME NEW id \in Ids, RefreshFail(id) \/ Timeout(id) PROVE RequestsAdvance
  BY <1>3, LossAdvances DEF RefreshFail, Timeout
<1>4. ASSUME NEW id \in Ids, RefreshOk(id) PROVE RequestsAdvance
  BY <1>4, RetryAdvances
<1>5. CASE Drop \/ TransportError \/ DisconnectEnd
  BY <1>5, LossAdvances DEF Drop, TransportError, DisconnectEnd, RejectPending
<1>6. CASE OnConnected \/ Reconnected \/ Connected
  <2>1. FlushQueued
    BY <1>6 DEF OnConnected, Reconnected, Connected
  <2>2. InQueue(queued) \in SUBSET Calls
    BY QueueCalls DEF TypeOK
  <2> QED BY <2>1, <2>2, SendAdvances DEF FlushQueued, SendAll
<1>7. CASE UNCHANGED <<pending, armed, refreshing>>
  BY <1>7, LossAdvances
<1>8. CASE Redial \/ DialEnd \/ Connect \/ ConnectEnd \/ PongLate \/ DisconnectStart
  BY <1>7, <1>8 DEF Redial, DialEnd, DialUp, DialFail, Connect, ConnectEnd, ConnectUp,
     ConnectFail, PongLate, DisconnectStart, requests
<1>9. CASE FlushBatch \/ \E id \in Ids, out \in Outcomes : Serve(id, out)
  BY <1>7, <1>9 DEF FlushBatch, Serve
<1>10. CASE UNCHANGED vars
  BY <1>7, <1>10 DEF vars, requests
<1> QED BY <1>1, <1>2, <1>3, <1>4, <1>5, <1>6, <1>8, <1>9, <1>10 DEF Next, RefreshEnd

\* An entry is settled, dropped or retried under a later id after at most
\* 2 * MaxRefresh + 2 of its own steps: no timer is armed twice, no id refreshed
\* twice, and the retries end, also where a refresh brings back the entry of a call
\* that a drop has rejected.  That these steps happen is SentCallsSettle, which
\* needs the fairness of the timers and the refresh.
THEOREM RequestsOnlyAdvance == Spec => [][RequestsAdvance]_vars
<1>1. TypeInv /\ TypeInv' /\ OneInv /\ [Next]_vars => [RequestsAdvance]_vars
  BY AdvanceNext DEF TypeInv
<1> QED BY TypeInit, TypeStep, OneInit, OneStep, <1>1, PTL DEF Spec

------------------------------------------------------------------------------
(* What is sent *)

\* The ids that reach the transport in this step
SendsLiveNow ==
    \A id \in wire' \ wire :
        CallOf(id) \in Open \union {c \in Calls : settled[c] = "idle"} \/ opts.batching \/ id[2] > 0

LEMMA SendsNext ==
  ASSUME TypeInv, OneInv, [Next]_vars
  PROVE  SendsLiveNow
<1>0. RequestsOK /\ QueuesOK
  BY TypeParts DEF TypeInv
<1>1. ASSUME NEW c \in Calls, CallBatched(c) PROVE SendsLiveNow
  BY <1>1 DEF CallBatched, SendsLiveNow
<1>2. ASSUME NEW c \in Calls, CallQueued(c) PROVE SendsLiveNow
  BY <1>2 DEF CallQueued, SendsLiveNow
<1>3. ASSUME NEW c \in Calls, CallSent(c) PROVE SendsLiveNow
  BY <1>3 DEF CallSent, SendAll, SendsLiveNow, CallOf
<1>4. CASE FlushBatch
  BY <1>4 DEF FlushBatch, OneInv, BatchIsEmpty, SendsLiveNow
<1>5. ASSUME NEW id \in Ids, RefreshOk(id) PROVE SendsLiveNow
  <2>1. wire' = wire \union {<<CallOf(id), id[2] + 1>>}
    BY <1>5 DEF RefreshOk
  <2>2. <<CallOf(id), id[2] + 1>>[2] > 0
    BY IdParts
  <2> QED BY <2>1, <2>2 DEF SendsLiveNow
<1>6. CASE OnConnected \/ Reconnected \/ Connected
  <2>1. wire' = wire \union {<<c, 0>> : c \in InQueue(queued)}
    BY <1>6 DEF OnConnected, Reconnected, Connected, FlushQueued, SendAll
  <2>2. \A c \in InQueue(queued) : c \in Open
    BY <1>0, QueueCalls DEF OneInv, Unsent, Open, QueuesOK
  <2> QED BY <2>1, <2>2 DEF SendsLiveNow, CallOf
<1>7. CASE wire' \subseteq wire
  BY <1>7 DEF SendsLiveNow
<1>8. ASSUME NEW id \in Ids, NEW out \in Outcomes, Serve(id, out) PROVE wire' \subseteq wire
  BY <1>8 DEF Serve
<1>9. ASSUME NEW a \in answers, HandleResponse(a) PROVE wire' \subseteq wire
  BY <1>9 DEF HandleResponse, Ignore, Answered, RefreshStart
<1>10. ASSUME NEW id \in Ids, RefreshFail(id) \/ Timeout(id) PROVE wire' \subseteq wire
  BY <1>10 DEF RefreshFail, Timeout
<1>11. CASE Drop \/ TransportError \/ DisconnectEnd
  BY <1>7, <1>11 DEF Drop, TransportError, DisconnectEnd, RejectPending
<1>12. CASE Redial \/ DialEnd \/ Connect \/ ConnectEnd \/ PongLate \/ DisconnectStart
  BY <1>7, <1>12 DEF Redial, DialEnd, DialUp, DialFail, Connect, ConnectEnd, ConnectUp,
     ConnectFail, PongLate, DisconnectStart, requests
<1>13. CASE UNCHANGED vars
  BY <1>7, <1>13 DEF vars, requests
<1> QED BY <1>1, <1>2, <1>3, <1>4, <1>5, <1>6, <1>7, <1>8, <1>9, <1>10, <1>11, <1>12, <1>13
        DEF Next, Call, RefreshEnd

\* Without batching and without a refresh, only calls that still wait are sent,
\* also by a client that was closed and by a second reconnection loop.
THEOREM SendsAreAlwaysLive == Spec => SendsAreLive
<1>1. TypeInv /\ OneInv /\ [Next]_vars => [SendsLiveNow]_vars
  BY SendsNext
<1>2. Spec => [][SendsLiveNow]_vars
  BY TypeInit, TypeStep, OneInit, OneStep, <1>1, PTL DEF Spec
<1> QED BY <1>2 DEF SendsAreLive, SendsLiveNow

------------------------------------------------------------------------------
(* RpcClient implements RemoteCall *)

RemoteStep == Remote!Next \/ UNCHANGED <<settled, ran>>

LEMMA MakeStep ==
  ASSUME NEW c \in Calls, settled[c] = "idle",
         settled' = [settled EXCEPT ![c] = "no"], UNCHANGED ran
  PROVE  RemoteStep
BY DEF RemoteStep, Remote!Next, Remote!Make

\* Rejecting the calls of S rejects those of S that are open
LEMMA RejectStep ==
  ASSUME settled \in [Calls -> Stages], NEW S, Settle(S, "rejected"), UNCHANGED ran
  PROVE  RemoteStep
<1> DEFINE T == {c \in Calls : c \in S /\ settled[c] = "no"}
<1>1. settled' = [c \in Calls |-> IF c \in T THEN "rejected" ELSE settled[c]]
  BY DEF Settle
<1>2. T \in SUBSET Calls /\ \A c \in T : settled[c] = "no"
  OBVIOUS
<1> HIDE DEF T
<1>3. Remote!Reject(T)
  BY <1>1, <1>2 DEF Remote!Reject
<1> QED BY <1>2, <1>3 DEF RemoteStep, Remote!Next

\* Resolving a call that is open and ran delivers its result
LEMMA ResolveStep ==
  ASSUME settled \in [Calls -> Stages], NEW c \in Calls, settled[c] # "idle", ran[c] = 1,
         Settle({c}, "resolved"), UNCHANGED ran
  PROVE  RemoteStep
<1>1. CASE settled[c] = "no"
  <2>1. settled' = [settled EXCEPT ![c] = "resolved"]
    BY <1>1 DEF Settle
  <2> QED BY <1>1, <2>1 DEF RemoteStep, Remote!Next, Remote!Resolve
<1>2. CASE settled[c] # "no"
  <2>1. settled' = settled
    BY <1>2 DEF Settle
  <2> QED BY <2>1 DEF RemoteStep
<1> QED BY <1>1, <1>2

LEMMA RefinesNext ==
  ASSUME TypeInv, OneInv, [Next]_vars
  PROVE  RemoteStep
<1>0. RequestsOK /\ QueuesOK
  BY TypeParts DEF TypeInv
<1>q. CASE UNCHANGED <<settled, ran>>
  BY <1>q DEF RemoteStep
<1>1. ASSUME NEW c \in Calls, Call(c) PROVE RemoteStep
  BY <1>1, MakeStep DEF Call, CallBatched, CallQueued, CallSent
<1>2. ASSUME NEW id \in Ids, NEW out \in Outcomes, Serve(id, out) PROVE RemoteStep
  <2>1. UNCHANGED settled /\ id \in Out
    BY <1>2 DEF Serve, Out
  <2>2. CallOf(id) \in Calls /\ settled[CallOf(id)] # "idle" /\ ran[CallOf(id)] = 0
    BY <2>1, IdParts DEF OneInv, OutIsFirst
  <2>3. ran' = ran \/ ran' = [ran EXCEPT ![CallOf(id)] = 1]
    BY <1>0, <1>2, <2>2 DEF Serve, RequestsOK
  <2> QED BY <2>1, <2>2, <2>3 DEF RemoteStep, Remote!Next, Remote!Run
<1>3. ASSUME NEW a \in answers, Answered(a) PROVE RemoteStep
  <2>1. a[1] \in pending /\ a[1] \in Ids /\ UNCHANGED ran
    BY <1>0, <1>3 DEF Answered, RequestsOK
  <2>2. CASE a[2] = "ok"
    <3>1. CallOf(a[1]) \in Calls /\ ran[CallOf(a[1])] = 1 /\ settled[CallOf(a[1])] # "idle"
      BY <2>1, <2>2, IdParts DEF OneInv, Results, Unsent
    <3>2. Settle({CallOf(a[1])}, "resolved")
      BY <1>3, <2>2 DEF Answered
    <3> QED BY <1>0, <2>1, <3>1, <3>2, ResolveStep DEF RequestsOK
  <2>3. CASE a[2] # "ok"
    <3>1. Settle({CallOf(a[1])}, "rejected")
      BY <1>3, <2>3 DEF Answered
    <3> QED BY <1>0, <2>1, <3>1, RejectStep DEF RequestsOK
  <2> QED BY <2>2, <2>3
<1>4. ASSUME NEW a \in answers, Ignore(a) \/ RefreshStart(a) PROVE RemoteStep
  BY <1>4 DEF Ignore, RefreshStart, RemoteStep
<1>5. ASSUME NEW id \in Ids, RefreshFail(id) \/ Timeout(id) PROVE RemoteStep
  BY <1>0, <1>5, RejectStep DEF RefreshFail, Timeout, RequestsOK
<1>6. ASSUME NEW id \in Ids, RefreshOk(id) PROVE RemoteStep
  BY <1>6 DEF RefreshOk, RemoteStep
<1>7. CASE FlushBatch \/ OnConnected \/ Reconnected \/ Connected
  BY <1>q, <1>7 DEF FlushBatch, OnConnected, Reconnected, Connected, FlushQueued
<1>8. CASE Drop \/ TransportError \/ DisconnectEnd
  BY <1>0, <1>8, RejectStep DEF Drop, TransportError, DisconnectEnd, RejectPending, RequestsOK
<1>9. CASE Redial \/ DialEnd \/ Connect \/ ConnectEnd \/ PongLate \/ DisconnectStart
  BY <1>q, <1>9 DEF Redial, DialEnd, DialUp, DialFail, Connect, ConnectEnd, ConnectUp,
     ConnectFail, PongLate, DisconnectStart, requests
<1>10. CASE UNCHANGED vars
  BY <1>q, <1>10 DEF vars, requests
<1> QED BY <1>1, <1>2, <1>3, <1>4, <1>5, <1>6, <1>7, <1>8, <1>9, <1>10
        DEF Next, HandleResponse, RefreshEnd

\* Through every timeout, retry, drop and reconnection the caller sees calls that
\* are made once, run at most once, settle once and resolve with a result.
THEOREM ImplementsRemote == Spec => ImplementsRemoteCall
<1>1. Init => Remote!Init
  BY DEF Init, Remote!Init
<1>2. TypeInv /\ OneInv /\ [Next]_vars => [Remote!Next]_<<settled, ran>>
  BY RefinesNext DEF RemoteStep
<1>3. Spec => Remote!Spec
  BY TypeInit, TypeStep, OneInit, OneStep, <1>1, <1>2, PTL DEF Spec, Remote!Spec
<1> QED BY <1>3 DEF ImplementsRemoteCall
------------------------------------------------------------------------------
(* What RemoteCall promises, and RpcClient with it *)

\* A promise resolves only after its command ran, and only commands of calls that
\* were made run
ResultsAreReal ==
    \A c \in Calls :
        /\ settled[c] = "resolved" => ran[c] = 1
        /\ ran[c] > 0 => settled[c] # "idle"

\* A promise that has settled stays as it is, and what ran stays run
SettledIsFinal ==
    \A c \in Calls :
        /\ settled[c] \in {"resolved", "rejected"} => settled'[c] = settled[c]
        /\ ran'[c] # ran[c] => ran[c] = 0 /\ settled[c] # "idle"

RemoteType ==
    /\ settled \in [Calls -> Stages]
    /\ ran \in [Calls -> {0, 1}]

LEMMA RemoteKeeps ==
  ASSUME RemoteType, ResultsAreReal, [Remote!Next]_<<settled, ran>>
  PROVE  RemoteType' /\ ResultsAreReal' /\ SettledIsFinal
<1>1. ASSUME NEW c \in Calls, Remote!Make(c)
      PROVE  RemoteType' /\ ResultsAreReal' /\ SettledIsFinal
  BY <1>1 DEF Remote!Make, RemoteType, ResultsAreReal, SettledIsFinal, Stages
<1>2. ASSUME NEW c \in Calls, Remote!Run(c)
      PROVE  RemoteType' /\ ResultsAreReal' /\ SettledIsFinal
  BY <1>2 DEF Remote!Run, RemoteType, ResultsAreReal, SettledIsFinal
<1>3. ASSUME NEW c \in Calls, Remote!Resolve(c)
      PROVE  RemoteType' /\ ResultsAreReal' /\ SettledIsFinal
  BY <1>3 DEF Remote!Resolve, RemoteType, ResultsAreReal, SettledIsFinal, Stages
<1>4. ASSUME NEW S \in SUBSET Calls, Remote!Reject(S)
      PROVE  RemoteType' /\ ResultsAreReal' /\ SettledIsFinal
  BY <1>4 DEF Remote!Reject, RemoteType, ResultsAreReal, SettledIsFinal, Stages
<1>5. CASE UNCHANGED <<settled, ran>>
  BY <1>5 DEF RemoteType, ResultsAreReal, SettledIsFinal
<1> QED BY <1>1, <1>2, <1>3, <1>4, <1>5 DEF Remote!Next

LEMMA RemoteInit == Remote!Init => RemoteType /\ ResultsAreReal
BY DEF Remote!Init, RemoteType, ResultsAreReal, Stages

\* What the abstract calls promise
LEMMA RemotePromises ==
  Remote!Spec => [](RemoteType /\ ResultsAreReal) /\ [][SettledIsFinal]_<<settled, ran>>
<1>1. /\ RemoteType /\ ResultsAreReal /\ [Remote!Next]_<<settled, ran>>
         => (RemoteType /\ ResultsAreReal)'
      /\ RemoteType /\ ResultsAreReal /\ [Remote!Next]_<<settled, ran>>
         => [SettledIsFinal]_<<settled, ran>>
  BY RemoteKeeps
<1> QED BY RemoteInit, <1>1, PTL DEF Remote!Spec

\* A caller that is handed a result has had its command run, and no command runs
\* that was not called: from the refinement, for every implementation of it.
THEOREM ResultsAlwaysReal == Spec => []ResultsAreReal
BY ImplementsRemote, RemotePromises, PTL DEF ImplementsRemoteCall

\* No late answer, second timer, refresh or reconnection changes what a caller was
\* told, and no command runs after it has run: from the refinement.
THEOREM SettledStaysSettled == Spec => [][SettledIsFinal]_<<settled, ran>>
BY ImplementsRemote, RemotePromises, PTL DEF ImplementsRemoteCall
=============================================================================
