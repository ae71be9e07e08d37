----------------------- MODULE CircuitBreaker_proofs ------------------------
(***************************************************************************)
(* Theorems about CircuitBreaker, for any number of overlapping calls, any *)
(* thresholds and every kind of window.  First the types; then, from them, *)
(* the accounting of requests; then what the state says of the counters,   *)
(* which is inductive together with ProbesCounted; last the two action     *)
(* properties.                                                             *)
(***************************************************************************)
EXTENDS CircuitBreaker, FiniteSetTheorems, TLAPS

USE CircuitAssumption

-----------------------------------------------------------------------------
(* The window                                                              *)

LEMMA NewestType ==
  ASSUME NEW s \in Seq(FailureRecord)
  PROVE  Newest(s, WindowSize) \in Seq(FailureRecord)
<1>1. CASE Len(s) > WindowSize
  <2>1. s # <<>>
    BY <1>1
  <2> QED BY <1>1, <2>1 DEF Newest
<1>2. CASE ~(Len(s) > WindowSize)
  BY <1>2 DEF Newest
<1> QED BY <1>1, <1>2

(* A result added to the window leaves a sequence of results.              *)
LEMMA RecordedType ==
  ASSUME window \in Seq(FailureRecord), sequence \in Nat, NEW b \in BOOLEAN
  PROVE  Recorded(b) \in Seq(FailureRecord)
<1>1. [isFailure |-> b, left |-> 0] \in FailureRecord
  BY DEF FailureRecord
<1>2. Append(window, [isFailure |-> b, left |-> 0]) \in Seq(FailureRecord)
  BY <1>1
<1>3. WindowSize + sequence * Offset \in Int
  OBVIOUS
<1>4. [isFailure |-> b, left |-> WindowSize + sequence * Offset] \in FailureRecord
  BY <1>3 DEF FailureRecord
<1>5. Append(window, [isFailure |-> b, left |-> WindowSize + sequence * Offset])
        \in Seq(FailureRecord)
  BY <1>4
<1> QED BY <1>2, <1>5, NewestType DEF Recorded

(* The positions of the failures that still count.                         *)
Counted(w) == {i \in DOMAIN w : w[i].isFailure /\ w[i].left >= 0}

LEMMA CountedFinite ==
  ASSUME NEW w \in Seq(FailureRecord)
  PROVE  /\ IsFiniteSet(Counted(w))
         /\ Failures(w) \in Nat
<1>1. IsFiniteSet(1 .. Len(w))
  BY FS_Interval
<1>2. Counted(w) \in SUBSET (1 .. Len(w))
  BY DEF Counted
<1>3. IsFiniteSet(Counted(w))
  BY <1>1, <1>2, FS_Subset
<1>4. Failures(w) = Cardinality(Counted(w))
  BY DEF Failures, Counted
<1> QED BY <1>3, <1>4, FS_CardinalityType

LEMMA NoFailures == Failures(<<>>) = 0
<1>1. Counted(<<>>) = {}
  BY DEF Counted
<1> QED BY <1>1, FS_EmptySet DEF Failures, Counted

(* A window whose counted failures are among those of another counts no    *)
(* more of them, ...                                                       *)
LEMMA FewerFailures ==
  ASSUME NEW v \in Seq(FailureRecord), NEW w \in Seq(FailureRecord),
         Counted(v) \subseteq Counted(w)
  PROVE  Failures(v) <= Failures(w)
<1>1. IsFiniteSet(Counted(w))
  BY CountedFinite
<1>2. Cardinality(Counted(v)) <= Cardinality(Counted(w))
  BY <1>1, FS_Subset
<1> QED BY <1>2 DEF Failures, Counted

(* ... and neither does a window without its oldest result.                *)
LEMMA TailFailures ==
  ASSUME NEW w \in Seq(FailureRecord), w # <<>>
  PROVE  Failures(Tail(w)) <= Failures(w)
<1> DEFINE f == [i \in Counted(Tail(w)) |-> i + 1]
<1>1. /\ Tail(w) \in Seq(FailureRecord)
      /\ Len(Tail(w)) = Len(w) - 1
      /\ \A i \in 1 .. Len(w) - 1 : Tail(w)[i] = w[i + 1]
  OBVIOUS
<1>2. \A i \in Counted(Tail(w)) : i \in 1 .. Len(w) - 1 /\ i + 1 \in Counted(w)
  BY <1>1 DEF Counted
<1>3. f \in Injection(Counted(Tail(w)), Counted(w))
  <2>1. f \in [Counted(Tail(w)) -> Counted(w)]
    BY <1>2
  <2>2. \A i, j \in Counted(Tail(w)) : f[i] = f[j] => i = j
    BY <1>2
  <2> QED BY <2>1, <2>2 DEF Injection, IsInjective
<1>4. IsFiniteSet(Counted(w))
  BY CountedFinite
<1>5. Cardinality(Counted(Tail(w))) <= Cardinality(Counted(w))
  BY <1>3, <1>4, FS_Injection
<1> QED BY <1>5 DEF Failures, Counted

(* A success added to the window adds no failure to it.                    *)
LEMMA SuccessAddsNoFailure ==
  ASSUME window \in Seq(FailureRecord), sequence \in Nat
  PROVE  Failures(Recorded(FALSE)) <= Failures(window)
<1>1. \A n \in Int : LET w == Append(window, [isFailure |-> FALSE, left |-> n])
                     IN  w \in Seq(FailureRecord) /\ w # <<>> /\ Failures(w) <= Failures(window)
  <2> TAKE n \in Int
  <2> DEFINE w == Append(window, [isFailure |-> FALSE, left |-> n])
  <2>1. [isFailure |-> FALSE, left |-> n] \in FailureRecord
    BY DEF FailureRecord
  <2>2. w \in Seq(FailureRecord) /\ w # <<>>
    BY <2>1
  <2>3. Counted(w) \subseteq Counted(window)
    <3>1. /\ Len(w) = Len(window) + 1
          /\ w[Len(window) + 1].isFailure = FALSE
          /\ \A i \in 1 .. Len(window) : w[i] = window[i]
      BY <2>1
    <3>2. DOMAIN w = 1 .. Len(window) + 1 /\ DOMAIN window = 1 .. Len(window)
      BY <3>1, <2>2
    <3> QED BY <3>1, <3>2 DEF Counted
  <2>4. Failures(w) <= Failures(window)
    BY <2>2, <2>3, FewerFailures
  <2> QED BY <2>2, <2>4
<1>2. Failures(window) \in Nat
  BY CountedFinite
<1>3. CASE windowKind = "count"
  <2> DEFINE w == Append(window, [isFailure |-> FALSE, left |-> 0])
  <2>1. w \in Seq(FailureRecord) /\ w # <<>> /\ Failures(w) <= Failures(window)
    BY <1>1
  <2>2. Failures(Tail(w)) <= Failures(w)
    BY <2>1, TailFailures
  <2>3. Tail(w) \in Seq(FailureRecord)
    BY <2>1
  <2>4. Failures(w) \in Nat /\ Failures(Tail(w)) \in Nat
    BY <2>1, <2>3, CountedFinite
  <2>5. Failures(Tail(w)) <= Failures(window)
    BY <1>2, <2>1, <2>2, <2>4
  <2>6. Recorded(FALSE) = w \/ Recorded(FALSE) = Tail(w)
    BY <1>3 DEF Recorded, Newest
  <2> HIDE DEF w
  <2> QED BY <2>1, <2>5, <2>6
<1>4. CASE windowKind = "time"
  <2>1. WindowSize + sequence * Offset \in Int
    OBVIOUS
  <2> QED BY <1>4, <1>1, <2>1 DEF Recorded
<1>5. CASE windowKind \notin {"count", "time"}
  BY <1>2, <1>5 DEF Recorded
<1> QED BY <1>3, <1>4, <1>5

-----------------------------------------------------------------------------
(* Type correctness                                                        *)

LEMMA InitTypeOK == Init => TypeOK
<1> SUFFICES ASSUME Init PROVE TypeOK
  OBVIOUS
<1>1. call \in [Call -> CallStatus]
  BY DEF Init, CallStatus
<1>2. window \in Seq(FailureRecord) /\ sequence \in Nat
  BY DEF Init
<1>3. disposed \in BOOLEAN
  BY DEF Init
<1> QED BY <1>1, <1>2, <1>3 DEF Init, TypeOK, CircuitState

(* The fields of TypeOK that transitionTo and its callers write.           *)
BreakerType ==
  /\ state \in CircuitState
  /\ openedFor \in {NotOpened} \cup 0 .. Cooldown
  /\ failureCount \in Nat /\ halfOpenSuccessCount \in Nat
  /\ window \in Seq(FailureRecord)
  /\ sequence \in Nat
  /\ probed \in Nat

LEMMA EnterOpenType ==
  ASSUME TypeOK, EnterOpen, UNCHANGED <<failureCount, window, sequence, probed>>
  PROVE  BreakerType'
  BY DEF TypeOK, EnterOpen, BreakerType, CircuitState

LEMMA EnterClosedType ==
  ASSUME TypeOK, EnterClosed, probed' \in Nat
  PROVE  BreakerType'
  BY DEF TypeOK, EnterClosed, BreakerType, CircuitState, NotOpened

LEMMA EnterHalfOpenType ==
  ASSUME TypeOK, EnterHalfOpen
  PROVE  BreakerType'
  BY DEF TypeOK, EnterHalfOpen, BreakerType, CircuitState

LEMMA UnchangedType ==
  ASSUME TypeOK, UNCHANGED <<state, openedFor, counters, probed>>
  PROVE  BreakerType'
  BY DEF TypeOK, BreakerType, counters

LEMMA GetStateType ==
  ASSUME TypeOK, GetState
  PROVE  BreakerType'
  BY EnterHalfOpenType, UnchangedType DEF GetState

LEMMA RecordType ==
  ASSUME TypeOK, NEW b \in BOOLEAN, Record(b)
  PROVE  window' \in Seq(FailureRecord) /\ sequence' \in Nat
<1>1. window \in Seq(FailureRecord) /\ sequence \in Nat
  BY DEF TypeOK
<1> QED BY <1>1, RecordedType DEF Record

LEMMA OnSuccessType ==
  ASSUME TypeOK, OnSuccess
  PROVE  /\ BreakerType'
         /\ successfulRequests' \in Nat /\ failedRequests' \in Nat
<1>1. CASE SuccessInClosed
  <2>1. window' \in Seq(FailureRecord) /\ sequence' \in Nat
    BY <1>1, RecordType DEF SuccessInClosed
  <2> QED BY <1>1, <2>1 DEF SuccessInClosed, OnSuccess, TypeOK, BreakerType
<1>2. CASE SuccessInHalfOpen
  <2>1. CASE halfOpenSuccessCount + 1 >= HalfOpenSuccessThreshold
    <3>1. EnterClosed /\ probed' \in Nat
      BY <1>2, <2>1 DEF SuccessInHalfOpen, TypeOK
    <3>2. BreakerType'
      BY <3>1, EnterClosedType
    <3> QED BY <3>2 DEF OnSuccess, TypeOK
  <2>2. CASE ~(halfOpenSuccessCount + 1 >= HalfOpenSuccessThreshold)
    BY <1>2, <2>2 DEF SuccessInHalfOpen, OnSuccess, TypeOK, BreakerType
  <2> QED BY <2>1, <2>2
<1>3. CASE SuccessInOpen
  <2>1. BreakerType'
    BY <1>3, UnchangedType DEF SuccessInOpen
  <2> QED BY <2>1 DEF OnSuccess, TypeOK
<1> QED BY <1>1, <1>2, <1>3 DEF OnSuccess

LEMMA OnFailureType ==
  ASSUME TypeOK, OnFailure
  PROVE  /\ BreakerType'
         /\ successfulRequests' \in Nat /\ failedRequests' \in Nat
<1>1. CASE CountFailure /\ FailureInClosed
  <2>1. window' \in Seq(FailureRecord) /\ sequence' \in Nat
    BY <1>1, RecordType DEF FailureInClosed
  <2>2. failureCount' \in Nat
    <3>1. Failures(window') \in Nat
      BY <2>1, CountedFinite
    <3> QED BY <1>1, <3>1 DEF FailureInClosed, TypeOK
  <2>3. /\ state' \in CircuitState
        /\ openedFor' \in {NotOpened} \cup 0 .. Cooldown
        /\ halfOpenSuccessCount' \in Nat
    BY <1>1 DEF FailureInClosed, EnterOpen, TypeOK, CircuitState
  <2>4. probed' \in Nat /\ successfulRequests' \in Nat /\ failedRequests' \in Nat
    BY <1>1 DEF FailureInClosed, CountFailure, TypeOK
  <2> QED BY <2>1, <2>2, <2>3, <2>4 DEF BreakerType
<1>2. CASE CountFailure /\ FailureInHalfOpen
  <2>1. BreakerType'
    BY <1>2, EnterOpenType DEF FailureInHalfOpen
  <2> QED BY <1>2, <2>1 DEF CountFailure, TypeOK
<1>3. CASE CountFailure /\ FailureInOpen
  <2>1. BreakerType'
    BY <1>3, UnchangedType DEF FailureInOpen
  <2> QED BY <1>3, <2>1 DEF CountFailure, TypeOK
<1>4. CASE IgnoreFailure
  <2>1. BreakerType'
    BY <1>4, UnchangedType DEF IgnoreFailure
  <2> QED BY <1>4, <2>1 DEF IgnoreFailure, TypeOK
<1> QED BY <1>1, <1>2, <1>3, <1>4 DEF OnFailure, CountFailure

LEMMA SettleType ==
  ASSUME TypeOK, NEW c \in Call, NEW status \in {"idle", "late"},
         Settle(c, status), BreakerType',
         successfulRequests' \in Nat, failedRequests' \in Nat
  PROVE  TypeOK'
<1>1. call' \in [Call -> CallStatus]
  BY DEF Settle, TypeOK, CallStatus
<1> QED BY <1>1 DEF Settle, TypeOK, BreakerType

LEMMA InFlightFinite ==
  IsFiniteSet(InFlight) /\ Cardinality(InFlight) \in Nat
<1>1. InFlight \in SUBSET Call
  BY DEF InFlight
<1>2. IsFiniteSet(InFlight)
  BY <1>1, FS_Subset
<1> QED BY <1>2, FS_CardinalityType

LEMMA StepTypeOK ==
  ASSUME TypeOK, [Next]_vars
  PROVE  TypeOK'
<1>1. ASSUME NEW c \in Call, Execute(c)
      PROVE  TypeOK'
  <2>1. BreakerType'
    BY <1>1, GetStateType DEF Execute
  <2>2. call' \in [Call -> CallStatus]
    BY <1>1 DEF Execute, TypeOK, CallStatus
  <2>3. totalRequests' \in Nat /\ rejectedRequests' \in Nat /\ requests' \in 0 .. MaxRequests
    BY <1>1 DEF Execute, TypeOK
  <2> QED BY <1>1, <2>1, <2>2, <2>3 DEF Execute, TypeOK, BreakerType
<1>2. ASSUME NEW c \in Call, Succeed(c)
      PROVE  TypeOK'
  BY <1>2, OnSuccessType, SettleType DEF Succeed
<1>3. ASSUME NEW c \in Call, Fail(c) \/ TimeOut(c)
      PROVE  TypeOK'
  BY <1>3, OnFailureType, SettleType DEF Fail, TimeOut
<1>4. ASSUME NEW c \in Call, LateAnswer(c)
      PROVE  TypeOK'
  BY <1>4 DEF LateAnswer, TypeOK, CallStatus, counters, metrics
<1>5. CASE Observe
  <2>1. BreakerType'
    BY <1>5, GetStateType DEF Observe
  <2> QED BY <1>5, <2>1 DEF Observe, TypeOK, BreakerType, metrics
<1>6. CASE Trip
  <2>1. BreakerType'
    BY <1>6, EnterOpenType DEF Trip
  <2> QED BY <1>6, <2>1 DEF Trip, Manual, TypeOK, BreakerType, metrics
<1>7. CASE Reset
  <2>1. BreakerType'
    BY <1>7, EnterClosedType DEF Reset, TypeOK
  <2> QED BY <1>7, <2>1 DEF Reset, Manual, TypeOK, BreakerType, metrics
<1>8. CASE ForceHalfOpen
  <2>1. BreakerType'
    BY <1>8, EnterHalfOpenType DEF ForceHalfOpen
  <2> QED BY <1>8, <2>1 DEF ForceHalfOpen, Manual, TypeOK, BreakerType, metrics
<1>9. CASE ResetMetrics
  BY <1>9, InFlightFinite DEF ResetMetrics, TypeOK, counters
<1>10. CASE Restart
  <2>1. call' \in [Call -> CallStatus] /\ skew' \in Int
    BY <1>10, InFlightFinite DEF Restart, TypeOK, CallStatus
  <2>2. window' \in Seq(FailureRecord) /\ sequence' \in Nat
    BY <1>10 DEF Restart
  <2>3. disposed' \in BOOLEAN
    BY <1>10 DEF Restart
  <2> QED BY <1>10, <2>1, <2>2, <2>3 DEF Restart, TypeOK, metrics
<1>11. CASE Dispose
  <2>1. window' \in Seq(FailureRecord) /\ sequence' \in Nat /\ disposed' \in BOOLEAN
    BY <1>11 DEF Dispose
  <2> QED BY <1>11, <2>1 DEF Dispose, TypeOK, metrics
<1>12. CASE Tick
  <2>1. window' \in Seq(FailureRecord)
    <3>1. CASE windowKind # "time"
      BY <1>12, <3>1 DEF Tick, TypeOK
    <3>2. CASE windowKind = "time"
      <4>1. \A i \in DOMAIN window :
              [window[i] EXCEPT !.left = IF @ >= 0 THEN @ - 1 ELSE @] \in FailureRecord
        <5> TAKE i \in DOMAIN window
        <5>1. window[i] \in FailureRecord
          BY DEF TypeOK
        <5>2. window[i].left \in Int
          BY <5>1 DEF FailureRecord
        <5> DEFINE left == IF window[i].left >= 0 THEN window[i].left - 1
                                                  ELSE window[i].left
        <5>3. left \in Int
          BY <5>2
        <5>4. [window[i] EXCEPT !.left = left] \in FailureRecord
          BY <5>1, <5>3 DEF FailureRecord
        <5> QED BY <5>4
      <4>2. DOMAIN window = 1 .. Len(window) /\ Len(window) \in Nat
        BY DEF TypeOK
      <4>3. window' = [i \in DOMAIN window |->
                         [window[i] EXCEPT !.left = IF @ >= 0 THEN @ - 1 ELSE @]]
        BY <1>12, <3>2 DEF Tick
      <4> QED BY <4>1, <4>2, <4>3
    <3> QED BY <3>1, <3>2
  <2>2. openedFor' \in {NotOpened} \cup 0 .. Cooldown
    <3>1. openedFor \in {NotOpened} \cup 0 .. Cooldown
      BY DEF TypeOK
    <3>2. CASE openedFor \in 0 .. Cooldown - 1
      BY <1>12, <3>2 DEF Tick
    <3>3. CASE openedFor \notin 0 .. Cooldown - 1
      BY <1>12, <3>1, <3>3 DEF Tick
    <3> QED BY <3>2, <3>3
  <2> QED BY <1>12, <2>1, <2>2 DEF Tick, TypeOK, metrics
<1>13. CASE UNCHANGED vars
  BY <1>13 DEF vars, TypeOK, counters, metrics
<1> QED
  BY <1>1, <1>2, <1>3, <1>4, <1>5, <1>6, <1>7, <1>8, <1>9, <1>10, <1>11, <1>12, <1>13
     DEF Next, CallStep, Control

(* In every reachable state the breaker's fields have their types.         *)
THEOREM TypeCorrect == Spec => []TypeOK
<1>1. Init => TypeOK
  BY InitTypeOK
<1>2. TypeOK /\ [Next]_vars => TypeOK'
  BY StepTypeOK
<1> QED BY <1>1, <1>2, PTL DEF Spec

-----------------------------------------------------------------------------
(* The accounting of requests                                              *)

LEMMA AdmittedInFlight ==
  ASSUME NEW c \in Call, TypeOK, call[c] = "idle",
         NEW status \in {"running", "probe"},
         call' = [call EXCEPT ![c] = status]
  PROVE  Cardinality(InFlight') = Cardinality(InFlight) + 1
<1>1. InFlight' = InFlight \cup {c} /\ c \notin InFlight
  BY DEF InFlight, TypeOK
<1> QED BY <1>1, InFlightFinite, FS_AddElement

LEMMA SettledInFlight ==
  ASSUME NEW c \in InFlight, TypeOK, NEW status \in {"idle", "late"}, Settle(c, status)
  PROVE  Cardinality(InFlight') = Cardinality(InFlight) - 1
<1>1. InFlight' = InFlight \ {c}
  BY DEF InFlight, TypeOK, Settle
<1> QED BY <1>1, InFlightFinite, FS_RemoveElement

(* Each outcome is counted once.                                           *)
LEMMA OutcomeCounted ==
  ASSUME TypeOK, OnSuccess \/ OnFailure
  PROVE  successfulRequests' + failedRequests' = successfulRequests + failedRequests + 1
  BY DEF TypeOK, OnSuccess, OnFailure, CountFailure, IgnoreFailure

LEMMA SettleAccounted ==
  ASSUME TypeOK, TypeOK', RequestsAccounted, NEW c \in InFlight,
         NEW status \in {"idle", "late"}, OnSuccess \/ OnFailure, Settle(c, status)
  PROVE  RequestsAccounted'
<1>1. Cardinality(InFlight') = Cardinality(InFlight) - 1
  BY SettledInFlight
<1>2. successfulRequests' + failedRequests' = successfulRequests + failedRequests + 1
  BY OutcomeCounted
<1>3. totalRequests' = totalRequests /\ rejectedRequests' = rejectedRequests /\ skew' = skew
  BY DEF Settle
<1>4. Cardinality(InFlight) \in Nat
  BY InFlightFinite
<1>5. /\ totalRequests \in Nat /\ successfulRequests \in Nat
      /\ failedRequests \in Nat /\ rejectedRequests \in Nat /\ skew \in Int
  BY DEF TypeOK
<1>6. successfulRequests' \in Nat /\ failedRequests' \in Nat
  BY DEF TypeOK
<1>7. totalRequests - (successfulRequests + failedRequests + rejectedRequests)
        = Cardinality(InFlight) + skew
  BY DEF RequestsAccounted
<1>8. (successfulRequests' + failedRequests' + rejectedRequests)
        = (successfulRequests + failedRequests + rejectedRequests) + 1
  <2>1. (successfulRequests' + failedRequests') + rejectedRequests
          = (successfulRequests + failedRequests + 1) + rejectedRequests
    BY <1>2
  <2>2. (successfulRequests + failedRequests + 1) + rejectedRequests
          = (successfulRequests + failedRequests + rejectedRequests) + 1
    BY <1>5
  <2> QED BY <2>1, <2>2
<1>9. totalRequests - (successfulRequests' + failedRequests' + rejectedRequests)
        = (Cardinality(InFlight) - 1) + skew
  BY <1>4, <1>5, <1>7, <1>8
<1> QED BY <1>1, <1>3, <1>9 DEF RequestsAccounted

LEMMA StepAccounted ==
  ASSUME TypeOK, TypeOK', RequestsAccounted, [Next]_vars
  PROVE  RequestsAccounted'
<1> USE InFlightFinite
<1>1. ASSUME NEW c \in Call, Execute(c)
      PROVE  RequestsAccounted'
  <2>1. CASE state' = "OPEN"
    <3>1. Cardinality(InFlight') = Cardinality(InFlight)
      BY <1>1, <2>1 DEF Execute, InFlight
    <3> QED BY <1>1, <2>1, <3>1 DEF Execute, RequestsAccounted, TypeOK
  <2>2. CASE state' # "OPEN"
    <3>1. Cardinality(InFlight') = Cardinality(InFlight) + 1
      <4>1. PICK status \in {"running", "probe"} : call' = [call EXCEPT ![c] = status]
        BY <1>1, <2>2 DEF Execute
      <4> QED BY <1>1, <4>1, AdmittedInFlight DEF Execute
    <3> QED BY <1>1, <2>2, <3>1 DEF Execute, RequestsAccounted, TypeOK
  <2> QED BY <2>1, <2>2
<1>2. ASSUME NEW c \in Call, Succeed(c) \/ Fail(c) \/ TimeOut(c)
      PROVE  RequestsAccounted'
  BY <1>2, SettleAccounted DEF Succeed, Fail, TimeOut
<1>3. ASSUME NEW c \in Call, LateAnswer(c)
      PROVE  RequestsAccounted'
  <2>1. InFlight' = InFlight
    BY <1>3 DEF LateAnswer, InFlight, TypeOK
  <2> QED BY <1>3, <2>1 DEF LateAnswer, RequestsAccounted, metrics
<1>4. CASE ResetMetrics
  <2>1. InFlight' = InFlight
    BY <1>4 DEF ResetMetrics, InFlight
  <2> QED BY <1>4, <2>1 DEF ResetMetrics, RequestsAccounted
<1>5. CASE Restart
  <2>1. InFlight' = {}
    BY <1>5 DEF Restart, InFlight
  <2>2. Cardinality(InFlight') = 0
    BY <2>1, FS_EmptySet
  <2> QED BY <1>5, <2>2 DEF Restart, RequestsAccounted, metrics, TypeOK
<1>6. CASE UNCHANGED <<metrics, call, skew>>
  <2>1. InFlight' = InFlight
    BY <1>6 DEF InFlight
  <2> QED BY <1>6, <2>1 DEF RequestsAccounted, metrics
<1>7. Observe \/ Trip \/ Reset \/ ForceHalfOpen \/ Dispose \/ Tick \/ UNCHANGED vars
        => UNCHANGED <<metrics, call, skew>>
  BY DEF Observe, Trip, Reset, ForceHalfOpen, Manual, Dispose, Tick, vars
<1> QED
  BY <1>1, <1>2, <1>3, <1>4, <1>5, <1>6, <1>7 DEF Next, CallStep, Control

(* Every request is counted exactly once: in every reachable state the     *)
(* totals differ from the outcomes by the calls in flight, those a restart *)
(* dropped and those resetMetrics forgot.                                  *)
THEOREM RequestsAlwaysAccounted == Spec => []RequestsAccounted
<1>1. Init => RequestsAccounted
  <2>1. Init => InFlight = {}
    BY DEF Init, InFlight
  <2> QED BY <2>1, FS_EmptySet DEF Init, RequestsAccounted
<1>2. TypeOK /\ TypeOK' /\ RequestsAccounted /\ [Next]_vars => RequestsAccounted'
  BY StepAccounted
<1> QED BY <1>1, <1>2, TypeCorrect, PTL DEF Spec

-----------------------------------------------------------------------------
(* What the state says of the counters                                     *)

(* The breaker has seen no more successes of this recovery than there were:*)
(* a restart forgets those before it, nothing invents any.                 *)
ProbesCounted == state = "HALF_OPEN" => halfOpenSuccessCount <= probed

BreakerInv == CountersBelowThresholds /\ OpenHasStart /\ ProbesCounted

LEMMA EnterOpenInv ==
  ASSUME EnterOpen
  PROVE  BreakerInv'
  BY DEF EnterOpen, BreakerInv, CountersBelowThresholds, OpenHasStart,
         ProbesCounted, NotOpened

LEMMA EnterClosedInv ==
  ASSUME EnterClosed
  PROVE  BreakerInv'
<1>1. Failures(window') = 0
  BY NoFailures DEF EnterClosed
<1> QED BY <1>1 DEF EnterClosed, BreakerInv, CountersBelowThresholds, OpenHasStart,
                    ProbesCounted

LEMMA EnterHalfOpenInv ==
  ASSUME EnterHalfOpen
  PROVE  BreakerInv'
  BY DEF EnterHalfOpen, BreakerInv, CountersBelowThresholds, OpenHasStart,
         ProbesCounted

LEMMA UnchangedInv ==
  ASSUME BreakerInv, UNCHANGED <<state, openedFor, counters, probed>>
  PROVE  BreakerInv'
  BY DEF BreakerInv, CountersBelowThresholds, OpenHasStart, ProbesCounted, counters

(* The window may only lose failures while the rest stays, or the count of *)
(* failures or of half-open successes starts anew.                         *)
LEMMA FewerFailuresInv ==
  ASSUME TypeOK, TypeOK', BreakerInv, UNCHANGED <<state, probed>>,
         Failures(window') <= Failures(window),
         failureCount' \in {0, failureCount},
         halfOpenSuccessCount' \in {0, halfOpenSuccessCount},
         openedFor # NotOpened => openedFor' # NotOpened
  PROVE  BreakerInv'
<1>1. Failures(window) \in Nat /\ Failures(window') \in Nat
  BY CountedFinite DEF TypeOK
<1>2. state = "CLOSED" => failureCount' < FailureThreshold /\ Failures(window') < FailureThreshold
  <2>1. state = "CLOSED" => failureCount < FailureThreshold /\ Failures(window) < FailureThreshold
    BY DEF BreakerInv, CountersBelowThresholds
  <2>2. failureCount \in Nat /\ FailureThreshold \in Nat /\ FailureThreshold > 0
    BY DEF TypeOK
  <2> QED BY <1>1, <2>1, <2>2
<1>4. state = "HALF_OPEN" => halfOpenSuccessCount' < HalfOpenSuccessThreshold
  <2>1. state = "HALF_OPEN" => halfOpenSuccessCount < HalfOpenSuccessThreshold
    BY DEF BreakerInv, CountersBelowThresholds
  <2>2. HalfOpenSuccessThreshold \in Nat /\ HalfOpenSuccessThreshold > 0
    OBVIOUS
  <2> QED BY <2>1, <2>2
<1>5. CountersBelowThresholds'
  BY <1>2, <1>4 DEF CountersBelowThresholds
<1>3. OpenHasStart' /\ ProbesCounted'
  BY DEF BreakerInv, OpenHasStart, ProbesCounted, TypeOK
<1> QED BY <1>5, <1>3 DEF BreakerInv

LEMMA GetStateInv ==
  ASSUME BreakerInv, GetState
  PROVE  BreakerInv'
  BY EnterHalfOpenInv, UnchangedInv DEF GetState

LEMMA OnSuccessInv ==
  ASSUME TypeOK, TypeOK', BreakerInv, OnSuccess
  PROVE  BreakerInv'
<1>1. CASE SuccessInClosed
  <2>1. Failures(window') <= Failures(window)
    BY <1>1, SuccessAddsNoFailure DEF SuccessInClosed, Record, TypeOK
  <2> QED BY <1>1, <2>1, FewerFailuresInv DEF SuccessInClosed
<1>2. CASE SuccessInHalfOpen
  <2>1. CASE halfOpenSuccessCount + 1 >= HalfOpenSuccessThreshold
    BY <1>2, <2>1, EnterClosedInv DEF SuccessInHalfOpen
  <2>2. CASE ~(halfOpenSuccessCount + 1 >= HalfOpenSuccessThreshold)
    BY <1>2, <2>2 DEF SuccessInHalfOpen, TypeOK, BreakerInv,
                      CountersBelowThresholds, OpenHasStart, ProbesCounted
  <2> QED BY <2>1, <2>2
<1>3. CASE SuccessInOpen
  BY <1>3, UnchangedInv DEF SuccessInOpen
<1> QED BY <1>1, <1>2, <1>3 DEF OnSuccess

LEMMA OnFailureInv ==
  ASSUME TypeOK, TypeOK', BreakerInv, OnFailure
  PROVE  BreakerInv'
<1>1. CASE FailureInClosed
  <2>1. CASE failureCount' >= FailureThreshold
    BY <1>1, <2>1, EnterOpenInv DEF FailureInClosed
  <2>2. CASE ~(failureCount' >= FailureThreshold)
    <3>1. failureCount' < FailureThreshold
      BY <2>2 DEF TypeOK
    <3>2. Failures(window') < FailureThreshold
      <4>1. CASE windowKind = "none"
        <5>1. window' = window
          BY <1>1, <4>1 DEF FailureInClosed, Record, Recorded
        <5> QED BY <1>1, <5>1 DEF FailureInClosed, BreakerInv, CountersBelowThresholds
      <4>2. CASE windowKind # "none"
        BY <1>1, <3>1, <4>2 DEF FailureInClosed
      <4> QED BY <4>1, <4>2
    <3>3. state' = "CLOSED"
      BY <1>1, <2>2 DEF FailureInClosed
    <3> QED BY <3>1, <3>2, <3>3 DEF BreakerInv, CountersBelowThresholds,
                                    OpenHasStart, ProbesCounted
  <2> QED BY <2>1, <2>2
<1>2. CASE FailureInHalfOpen
  BY <1>2, EnterOpenInv DEF FailureInHalfOpen
<1>3. CASE FailureInOpen
  BY <1>3, UnchangedInv DEF FailureInOpen
<1>4. CASE IgnoreFailure
  BY <1>4, UnchangedInv DEF IgnoreFailure
<1> QED BY <1>1, <1>2, <1>3, <1>4 DEF OnFailure, CountFailure

(* Time only takes failures out of the window.                             *)
LEMMA TickFailures ==
  ASSUME TypeOK, TypeOK', Tick
  PROVE  Failures(window') <= Failures(window)
<1>0. window \in Seq(FailureRecord) /\ window' \in Seq(FailureRecord)
  BY Zenon DEF TypeOK
<1>1. CASE windowKind # "time"
  <2>1. window' = window
    BY <1>1 DEF Tick
  <2>2. Failures(window) \in Nat
    BY <1>0, CountedFinite
  <2> QED BY <2>1, <2>2
<1>2. CASE windowKind = "time"
  <2>1. window' = [i \in DOMAIN window |->
                     [window[i] EXCEPT !.left = IF @ >= 0 THEN @ - 1 ELSE @]]
    BY <1>2 DEF Tick
  <2>2. \A i \in DOMAIN window : window[i] \in FailureRecord
    BY <1>0
  <2>3. ASSUME NEW i \in DOMAIN window
        PROVE  /\ window'[i].isFailure = window[i].isFailure
               /\ window'[i].left >= 0 => window[i].left >= 0
    <3>1. window[i].left \in Int
      BY <2>2 DEF FailureRecord
    <3>2. window[i] = [isFailure |-> window[i].isFailure, left |-> window[i].left]
      BY <2>2 DEF FailureRecord
    <3> QED BY <2>1, <2>2, <3>1, <3>2 DEF FailureRecord
  <2>4. DOMAIN window' = DOMAIN window
    BY <2>1
  <2>5. Counted(window') \subseteq Counted(window)
    BY <2>3, <2>4 DEF Counted
  <2> QED BY <1>0, <2>5, FewerFailures
<1> QED BY <1>1, <1>2

LEMMA StepBreakerInv ==
  ASSUME TypeOK, TypeOK', BreakerInv, [Next]_vars
  PROVE  BreakerInv'
<1>1. ASSUME NEW c \in Call, CallStep(c)
      PROVE  BreakerInv'
  <2>1. CASE Execute(c)
    BY <2>1, GetStateInv DEF Execute
  <2>2. CASE Succeed(c)
    BY <2>2, OnSuccessInv DEF Succeed
  <2>3. CASE Fail(c) \/ TimeOut(c)
    BY <2>3, OnFailureInv DEF Fail, TimeOut
  <2>4. CASE LateAnswer(c)
    BY <2>4, UnchangedInv DEF LateAnswer
  <2> QED BY <1>1, <2>1, <2>2, <2>3, <2>4 DEF CallStep
<1>2. CASE Observe
  BY <1>2, GetStateInv DEF Observe
<1>3. CASE Trip
  BY <1>3, EnterOpenInv DEF Trip
<1>4. CASE Reset
  BY <1>4, EnterClosedInv DEF Reset
<1>5. CASE ForceHalfOpen
  BY <1>5, EnterHalfOpenInv DEF ForceHalfOpen
<1>6. CASE ResetMetrics
  BY <1>6, UnchangedInv DEF ResetMetrics
<1>7. CASE Restart \/ Dispose
  <2>1. Failures(window') <= Failures(window)
    <3>1. window' = <<>> /\ Failures(window) \in Nat
      BY <1>7, CountedFinite DEF Restart, Dispose, TypeOK
    <3> QED BY <3>1, NoFailures
  <2> QED BY <1>7, <2>1, FewerFailuresInv DEF Restart, Dispose
<1>8. CASE Tick
  <2>1. Failures(window') <= Failures(window)
    BY <1>8, TickFailures
  <2>2. openedFor # NotOpened => openedFor' # NotOpened
    BY <1>8 DEF Tick, TypeOK, NotOpened
  <2> QED BY <1>8, <2>1, <2>2, FewerFailuresInv DEF Tick
<1>9. CASE UNCHANGED vars
  BY <1>9, UnchangedInv DEF vars
<1> QED
  BY <1>1, <1>2, <1>3, <1>4, <1>5, <1>6, <1>7, <1>8, <1>9 DEF Next, Control

LEMMA BreakerInvariant == Spec => []BreakerInv
<1>1. Init => BreakerInv
  BY NoFailures DEF Init, BreakerInv, CountersBelowThresholds, OpenHasStart, ProbesCounted
<1>2. TypeOK /\ TypeOK' /\ BreakerInv /\ [Next]_vars => BreakerInv'
  BY StepBreakerInv
<1> QED BY <1>1, <1>2, TypeCorrect, PTL DEF Spec

(* No state is kept past its threshold: a closed circuit has counted fewer *)
(* failures than open it, a half-open one fewer successes than close it.   *)
THEOREM CountersStayBelowThresholds == Spec => []CountersBelowThresholds
<1>1. BreakerInv => CountersBelowThresholds
  BY DEF BreakerInv
<1> QED BY <1>1, BreakerInvariant, PTL

(* An open circuit always knows since when it is open.                     *)
THEOREM OpenAlwaysHasStart == Spec => []OpenHasStart
<1>1. BreakerInv => OpenHasStart
  BY DEF BreakerInv
<1> QED BY <1>1, BreakerInvariant, PTL

-----------------------------------------------------------------------------
(* Action properties                                                       *)

ClosesAfter ==
  state = "HALF_OPEN" /\ state' = "CLOSED" /\ successfulRequests' # successfulRequests
    => probed' >= HalfOpenSuccessThreshold

LEMMA StepClosesAfter ==
  ASSUME TypeOK, BreakerInv, [Next]_vars
  PROVE  [ClosesAfter]_vars
<1> SUFFICES ASSUME state = "HALF_OPEN", state' = "CLOSED",
                    successfulRequests' # successfulRequests
             PROVE  probed' >= HalfOpenSuccessThreshold
  BY DEF ClosesAfter
<1>1. ASSUME NEW c \in Call, OnSuccess
      PROVE  probed' >= HalfOpenSuccessThreshold
  <2>1. SuccessInHalfOpen
    BY <1>1 DEF OnSuccess, SuccessInClosed, SuccessInOpen
  <2> QED BY <2>1 DEF SuccessInHalfOpen, TypeOK, BreakerInv, ProbesCounted
<1>2. ASSUME NEW c \in Call, OnFailure
      PROVE  FALSE
  BY <1>2 DEF OnFailure, IgnoreFailure, CountFailure
<1>3. ASSUME NEW c \in Call, Execute(c) \/ LateAnswer(c)
      PROVE  FALSE
  BY <1>3 DEF Execute, LateAnswer, metrics
<1>4. ~ResetMetrics
  BY DEF ResetMetrics
<1>5. ~(Observe \/ Trip \/ Reset \/ ForceHalfOpen \/ Restart \/ Dispose \/ Tick
        \/ UNCHANGED vars)
  BY DEF Observe, Trip, Reset, ForceHalfOpen, Manual, Restart, Dispose, Tick, metrics, vars
<1> QED
  BY <1>1, <1>2, <1>3, <1>4, <1>5
     DEF Next, CallStep, Succeed, Fail, TimeOut, Control

(* Unless reset() closes it, a half-open circuit closes only after enough  *)
(* successes since it became half-open.                                    *)
THEOREM AlwaysClosesAfterSuccesses == Spec => ClosesAfterSuccesses
<1>1. TypeOK /\ BreakerInv /\ [Next]_vars => [ClosesAfter]_vars
  BY StepClosesAfter
<1> QED BY <1>1, TypeCorrect, BreakerInvariant, PTL DEF Spec, ClosesAfterSuccesses, ClosesAfter

CooldownGoesOn == state = "OPEN" /\ state' = "OPEN" => openedFor' >= openedFor

LEMMA StepCooldownGoesOn ==
  ASSUME TypeOK, [Next]_vars
  PROVE  [CooldownGoesOn]_vars
<1> SUFFICES ASSUME state = "OPEN", state' = "OPEN"
             PROVE  openedFor' >= openedFor
  BY DEF CooldownGoesOn
<1>1. openedFor \in Int
  BY DEF TypeOK, NotOpened
<1>2. CASE UNCHANGED openedFor
  BY <1>1, <1>2
<1>3. CASE Tick
  BY <1>1, <1>3 DEF Tick
<1>4. CASE \E c \in Call : CallStep(c)
  <2>1. OnSuccess => UNCHANGED openedFor
    BY DEF OnSuccess, SuccessInClosed, SuccessInHalfOpen, SuccessInOpen
  <2>2. OnFailure => UNCHANGED openedFor
    BY DEF OnFailure, IgnoreFailure, CountFailure, FailureInClosed,
           FailureInHalfOpen, FailureInOpen
  <2>3. GetState => UNCHANGED openedFor
    BY DEF GetState, EnterHalfOpen
  <2> QED BY <1>2, <1>4, <2>1, <2>2, <2>3
          DEF CallStep, Execute, Succeed, Fail, TimeOut, LateAnswer
<1>5. CASE Observe \/ Control \/ UNCHANGED vars
  <2>1. UNCHANGED openedFor
    BY <1>5 DEF Observe, GetState, EnterHalfOpen, Control, Trip, Reset, EnterClosed,
                ForceHalfOpen, ResetMetrics, Restart, Dispose, vars
  <2> QED BY <1>2, <2>1
<1> QED BY <1>3, <1>4, <1>5 DEF Next

(* Nothing that happens while the circuit stays open starts the cooldown   *)
(* again: no late failure, no trip(), no restart.                          *)
THEOREM CooldownAlwaysGoesOn == Spec => CooldownNeverRestarts
<1>1. TypeOK /\ [Next]_vars => [CooldownGoesOn]_vars
  BY StepCooldownGoesOn
<1> QED BY <1>1, TypeCorrect, PTL DEF Spec, CooldownNeverRestarts, CooldownGoesOn
=============================================================================
