--------------------------- MODULE CircuitBreaker ---------------------------
(***************************************************************************)
(* A circuit breaker (src/do/circuit-breaker.ts).  execute() decides at    *)
(* once whether a call is admitted and hears of its outcome much later, in *)
(* whatever state the breaker is by then: calls overlap each other, the    *)
(* manual controls, the passing of time, and a restart in which the        *)
(* exported state is imported by a new breaker.                            *)
(*                                                                         *)
(* Time is a tick.  The instant the circuit was opened is kept as the      *)
(* ticks elapsed since, counted up to the cooldown; the timestamp of a     *)
(* windowed result as the ticks until it falls out of the window.  Events, *)
(* successCount and the metrics about times and recoveries only report and *)
(* are left out.                                                           *)
(***************************************************************************)
EXTENDS Integers, Sequences, FiniteSets

CONSTANTS
  Call,                     \* calls of execute() that may overlap
  WindowKinds,              \* the windows a configuration may ask for
  FailureThreshold,         \* config.failureThreshold
  HalfOpenSuccessThreshold, \* config.halfOpenSuccessThreshold
  Cooldown,                 \* config.cooldownPeriodMs, in ticks
  WindowSize,               \* config.windowSize; windowSizeMs in ticks
  Offset,                   \* the 1000 ms TimeBasedWindow.add spaces results by
  MaxRequests               \* bound: execute() calls a behaviour makes

ASSUME CircuitAssumption ==
  /\ IsFiniteSet(Call)
  /\ WindowKinds \subseteq {"none", "count", "time"}
  /\ FailureThreshold \in Nat \ {0}
  /\ HalfOpenSuccessThreshold \in Nat \ {0}
  /\ Cooldown \in Nat \ {0}
  /\ WindowSize \in Nat \ {0}
  /\ Offset \in Nat
  /\ MaxRequests \in Nat

VARIABLES
  windowKind,            \* config.windowType, fixed at construction
  state,                 \* CLOSED, OPEN or HALF_OPEN
  openedFor,             \* ticks since openedAt, NotOpened for null
  failureCount,
  halfOpenSuccessCount,
  window,                \* slidingWindow.records
  sequence,              \* TimeBasedWindow.sequence
  disposed,
  totalRequests, successfulRequests, failedRequests, rejectedRequests,
  call,                  \* what each call is doing
  (* observation *)
  requests,              \* execute() calls made
  probed,                \* successes since the circuit last became half-open
  skew                   \* calls in flight that a restart dropped, less those
                         \* whose admission resetMetrics forgot

counters == <<failureCount, halfOpenSuccessCount, window, sequence>>
metrics  == <<totalRequests, successfulRequests, failedRequests, rejectedRequests>>
vars == <<windowKind, state, openedFor, counters, disposed, metrics, call,
          requests, probed, skew>>

NotOpened == -1
CircuitState == {"CLOSED", "OPEN", "HALF_OPEN"}

(* A call admitted while the circuit is half-open is a "probe"; one that   *)
(* timed out is "late" until the function it wrapped settles too.          *)
CallStatus == {"idle", "running", "probe", "late"}

(* FailureRecord; left goes down to -1, when the result is out of a        *)
(* time-based window.                                                      *)
FailureRecord == [isFailure : BOOLEAN, left : Int]

InFlight == {c \in Call : call[c] \in {"running", "probe"}}

(* slidingWindow.getFailureCount: failures still in the window.            *)
Failures(records) ==
  Cardinality({i \in DOMAIN records : records[i].isFailure /\ records[i].left >= 0})

Newest(records, size) ==
  IF Len(records) > size THEN Tail(records) ELSE records

(* slidingWindow.add, when there is a window.                              *)
Recorded(isFailure) ==
  CASE windowKind = "count" ->
         Newest(Append(window, [isFailure |-> isFailure, left |-> 0]), WindowSize)
    [] windowKind = "time" ->
         Append(window, [isFailure |-> isFailure,
                         left |-> WindowSize + sequence * Offset])
    [] OTHER -> window

Record(isFailure) ==
  /\ window' = Recorded(isFailure)
  /\ sequence' = IF windowKind = "time" THEN sequence + 1 ELSE sequence

TypeOK ==
  /\ windowKind \in WindowKinds
  /\ state \in CircuitState
  /\ openedFor \in {NotOpened} \cup 0 .. Cooldown
  /\ failureCount \in Nat /\ halfOpenSuccessCount \in Nat
  /\ window \in Seq(FailureRecord)
  /\ sequence \in Nat
  /\ disposed \in BOOLEAN
  /\ totalRequests \in Nat /\ successfulRequests \in Nat
  /\ failedRequests \in Nat /\ rejectedRequests \in Nat
  /\ call \in [Call -> CallStatus]
  /\ requests \in 0 .. MaxRequests
  /\ probed \in Nat /\ skew \in Int

Init ==
  /\ windowKind \in WindowKinds
  /\ state = "CLOSED" /\ openedFor = NotOpened
  /\ failureCount = 0 /\ halfOpenSuccessCount = 0
  /\ window = <<>> /\ sequence = 0
  /\ disposed = FALSE
  /\ totalRequests = 0 /\ successfulRequests = 0
  /\ failedRequests = 0 /\ rejectedRequests = 0
  /\ call = [c \in Call |-> "idle"]
  /\ requests = 0 /\ probed = 0 /\ skew = 0

-----------------------------------------------------------------------------
(* transitionTo, by the state it enters                                    *)

(* The caller says what becomes of the failure count and the window.       *)
EnterOpen ==
  /\ state' = "OPEN"
  /\ openedFor' = 0
  /\ UNCHANGED halfOpenSuccessCount

(* Mutant of EnterClosed: the sliding window is not reset.                 *)
EnterClosedKeepingWindow ==
  /\ state' = "CLOSED"
  /\ openedFor' = NotOpened
  /\ failureCount' = 0 /\ halfOpenSuccessCount' = 0
  /\ UNCHANGED <<window, sequence>>

EnterClosed ==
  /\ state' = "CLOSED"
  /\ openedFor' = NotOpened
  /\ failureCount' = 0 /\ halfOpenSuccessCount' = 0
  /\ window' = <<>> /\ sequence' = 0

(* Mutant of EnterHalfOpen: the successes of an earlier recovery count.    *)
EnterHalfOpenCounting ==
  /\ state' = "HALF_OPEN"
  /\ probed' = 0
  /\ UNCHANGED <<openedFor, failureCount, halfOpenSuccessCount, window, sequence>>

EnterHalfOpen ==
  /\ state' = "HALF_OPEN"
  /\ halfOpenSuccessCount' = 0
  /\ probed' = 0
  /\ UNCHANGED <<openedFor, failureCount, window, sequence>>

-----------------------------------------------------------------------------
(* Asking for the state, and execute()                                     *)

(* getState: an open circuit whose cooldown has passed becomes half-open.  *)
GetState ==
  IF state = "OPEN" /\ openedFor >= Cooldown
    THEN EnterHalfOpen
    ELSE UNCHANGED <<state, openedFor, counters, probed>>

(* getState or isAvailable called from outside.                            *)
Observe ==
  /\ GetState
  /\ UNCHANGED <<windowKind, disposed, metrics, call, requests, skew>>

(* execute up to its await: rejected in an open circuit, else the function *)
(* is started.                                                             *)
Execute(c) ==
  /\ call[c] = "idle"
  /\ requests < MaxRequests
  /\ requests' = requests + 1
  /\ GetState
  /\ totalRequests' = totalRequests + 1
  /\ IF state' = "OPEN"
       THEN /\ rejectedRequests' = rejectedRequests + 1
            /\ UNCHANGED call
       ELSE /\ call' = [call EXCEPT ![c] =
                          IF state' = "HALF_OPEN" THEN "probe" ELSE "running"]
            /\ UNCHANGED rejectedRequests
  /\ UNCHANGED <<windowKind, disposed, successfulRequests, failedRequests, skew>>

(* What a success changes, by the state of now, whatever it was when the   *)
(* call was admitted.                                                      *)
SuccessInClosed ==
  /\ state = "CLOSED"
  /\ failureCount' = 0
  /\ Record(FALSE)
  /\ UNCHANGED <<state, openedFor, halfOpenSuccessCount, probed>>

SuccessInHalfOpen ==
  /\ state = "HALF_OPEN"
  /\ probed' = probed + 1
  /\ IF halfOpenSuccessCount + 1 >= HalfOpenSuccessThreshold
       THEN EnterClosed
       ELSE /\ halfOpenSuccessCount' = halfOpenSuccessCount + 1
            /\ UNCHANGED <<state, openedFor, failureCount, window, sequence>>

SuccessInOpen ==
  state = "OPEN" /\ UNCHANGED <<state, openedFor, counters, probed>>

OnSuccess ==
  /\ successfulRequests' = successfulRequests + 1
  /\ SuccessInClosed \/ SuccessInHalfOpen \/ SuccessInOpen
  /\ UNCHANGED failedRequests

(* What a failure changes.                                                 *)
FailureInClosed ==
  /\ state = "CLOSED"
  /\ Record(TRUE)
  /\ failureCount' = IF windowKind = "none" THEN failureCount + 1
                                            ELSE Failures(window')
  /\ IF failureCount' >= FailureThreshold
       THEN EnterOpen
       ELSE UNCHANGED <<state, openedFor, halfOpenSuccessCount>>
  /\ UNCHANGED probed

FailureInHalfOpen ==
  state = "HALF_OPEN" /\ EnterOpen /\ UNCHANGED <<failureCount, window, sequence, probed>>

FailureInOpen ==
  state = "OPEN" /\ UNCHANGED <<state, openedFor, counters, probed>>

(* onFailure for an error that counts.                                     *)
CountFailure ==
  /\ failedRequests' = failedRequests + 1
  /\ FailureInClosed \/ FailureInHalfOpen \/ FailureInOpen
  /\ UNCHANGED successfulRequests

(* An error that config.isFailure does not count is booked as a success.   *)
IgnoreFailure ==
  /\ successfulRequests' = successfulRequests + 1
  /\ UNCHANGED <<failedRequests, state, openedFor, counters, probed>>

OnFailure == CountFailure \/ IgnoreFailure

Settle(c, status) ==
  /\ call' = [call EXCEPT ![c] = status]
  /\ UNCHANGED <<windowKind, disposed, totalRequests, rejectedRequests,
                 requests, skew>>

(* The wrapped function resolves, rejects, or runs into the timeout.       *)
Succeed(c) == c \in InFlight /\ OnSuccess /\ Settle(c, "idle")
Fail(c)    == c \in InFlight /\ OnFailure /\ Settle(c, "idle")
TimeOut(c) == c \in InFlight /\ OnFailure /\ Settle(c, "late")

(* Mutant of LateAnswer: an answer after the timeout is counted as well.   *)
LateAnswerCounted(c) ==
  /\ call[c] = "late"
  /\ OnSuccess
  /\ Settle(c, "idle")

(* The function settles after its timeout: the race is decided already.    *)
LateAnswer(c) ==
  /\ call[c] = "late"
  /\ call' = [call EXCEPT ![c] = "idle"]
  /\ UNCHANGED <<windowKind, state, openedFor, counters, disposed, metrics,
                 requests, probed, skew>>

-----------------------------------------------------------------------------
(* Manual control, metrics, persistence, disposal and time                 *)

Manual == UNCHANGED <<windowKind, disposed, metrics, call, requests, skew>>

(* Mutant of Trip: an open circuit is tripped again.                       *)
TripAgain ==
  /\ EnterOpen
  /\ UNCHANGED <<failureCount, window, sequence, probed>>
  /\ Manual

Trip ==
  /\ state # "OPEN"
  /\ EnterOpen
  /\ UNCHANGED <<failureCount, window, sequence, probed>>
  /\ Manual

Reset == EnterClosed /\ UNCHANGED probed /\ Manual

ForceHalfOpen == state # "HALF_OPEN" /\ EnterHalfOpen /\ Manual

(* resetMetrics knows nothing of the calls in flight.                      *)
ResetMetrics ==
  /\ totalRequests' = 0 /\ successfulRequests' = 0
  /\ failedRequests' = 0 /\ rejectedRequests' = 0
  /\ skew' = 0 - Cardinality(InFlight)
  /\ UNCHANGED <<windowKind, state, openedFor, counters, disposed, call,
                 requests, probed>>

(* Mutant of Restart: the export holds no failure count, and a count that  *)
(* is not a number comes back.                                             *)
RestartWithoutCount ==
  /\ halfOpenSuccessCount' = 0
  /\ window' = <<>> /\ sequence' = 0
  /\ disposed' = FALSE
  /\ failureCount' = NotOpened
  /\ call' = [c \in Call |-> "idle"]
  /\ skew' = skew + Cardinality(InFlight)
  /\ UNCHANGED <<windowKind, state, openedFor, metrics, requests, probed>>

(* export(), and the constructor of the next breaker imports it: the       *)
(* window and the half-open count start anew, the calls in flight are gone.*)
Restart ==
  /\ halfOpenSuccessCount' = 0
  /\ window' = <<>> /\ sequence' = 0
  /\ disposed' = FALSE
  /\ call' = [c \in Call |-> "idle"]
  /\ skew' = skew + Cardinality(InFlight)
  /\ UNCHANGED <<windowKind, state, openedFor, failureCount, metrics, requests,
                 probed>>

Dispose ==
  /\ ~disposed
  /\ disposed' = TRUE
  /\ window' = <<>> /\ sequence' = 0
  /\ UNCHANGED <<windowKind, state, openedFor, failureCount,
                 halfOpenSuccessCount, metrics, call, requests, probed, skew>>

(* A tick passes, as long as it makes a difference.                        *)
Tick ==
  /\ \/ openedFor \in 0 .. Cooldown - 1
     \/ windowKind = "time" /\ \E i \in DOMAIN window : window[i].left >= 0
  /\ openedFor' = IF openedFor \in 0 .. Cooldown - 1 THEN openedFor + 1 ELSE openedFor
  /\ window' = IF windowKind # "time" THEN window
               ELSE [i \in DOMAIN window |->
                       [window[i] EXCEPT !.left = IF @ >= 0 THEN @ - 1 ELSE @]]
  /\ UNCHANGED <<windowKind, state, failureCount, halfOpenSuccessCount, sequence,
                 disposed, metrics, call, requests, probed, skew>>

-----------------------------------------------------------------------------
CallStep(c) == Execute(c) \/ Succeed(c) \/ Fail(c) \/ TimeOut(c) \/ LateAnswer(c)

Control == Trip \/ Reset \/ ForceHalfOpen \/ ResetMetrics \/ Restart \/ Dispose

Next ==
  \/ \E c \in Call : CallStep(c)
  \/ Observe
  \/ Control
  \/ Tick

Spec == Init /\ [][Next]_vars

(* Time goes on.  Nobody has to call the breaker or to answer a call.      *)
FairSpec == Spec /\ WF_vars(Tick)

-----------------------------------------------------------------------------
(* Properties                                                              *)

(* The circuit is never closed with as many failures counted as should     *)
(* have opened it, nor half-open with as many successes as should have     *)
(* closed it: whichever state calls were admitted in, whenever they end.   *)
CountersBelowThresholds ==
  /\ state = "CLOSED" =>
       failureCount < FailureThreshold /\ Failures(window) < FailureThreshold
  /\ state = "HALF_OPEN" => halfOpenSuccessCount < HalfOpenSuccessThreshold

(* An open circuit knows since when, also after an import: getState only   *)
(* leaves the state OPEN if it does.                                       *)
OpenHasStart == state = "OPEN" => openedFor # NotOpened

(* Every request is counted once, under one heading: timeouts that are     *)
(* answered later, rejections and ignored errors included.                 *)
RequestsAccounted ==
  totalRequests - (successfulRequests + failedRequests + rejectedRequests)
    = Cardinality(InFlight) + skew

(* Unless by reset(), a half-open circuit closes only after                *)
(* halfOpenSuccessThreshold successes since it became half-open.           *)
ClosesAfterSuccesses ==
  [][state = "HALF_OPEN" /\ state' = "CLOSED" /\ successfulRequests' # successfulRequests
       => probed' >= HalfOpenSuccessThreshold]_vars

(* Results that arrive late, further trips and restarts never start the    *)
(* cooldown of an open circuit again.                                      *)
CooldownNeverRestarts ==
  [][state = "OPEN" /\ state' = "OPEN" => openedFor' >= openedFor]_vars

(* An open circuit does not stay so for ever: it is taken out of OPEN or   *)
(* its cooldown passes, and the next call or question makes it half-open.  *)
CoolsDown == state = "OPEN" ~> (state # "OPEN" \/ openedFor = Cooldown)
=============================================================================
