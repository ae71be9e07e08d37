# bashx in TLA+

bashx runs shell commands for agents: it parses and classifies them, decides
which executor tier runs them, streams their output over RPC, and keeps the
sessions they belong to alive across evictions of a Durable Object. This
directory holds TLA+ models of the parts of it that keep state over several
steps, the TLC runs that check them on small instances, and TLAPS proofs of the
main results for every value of the constants.

## Inventory

State-keeping components (paths below `src/src/`). Modelled ones name their modules.

| component | state it keeps | operations | interacts with | what is hard | what makes it correct |
|---|---|---|---|---|---|
| **Session persistence** `session/` (`Session`) | history, tree hash, checkpoint counters, idle timer; durably: checkpoints, references, write-ahead log, filesystem | exec/run, checkpoint (manual, threshold, idle), branch, checkout, fork, loadSession | storage in R2 and SQLite, executor, filesystem | awaits inside every method, an idle timer beside them, eviction between any two steps, rejecting promises | recovery brings back what was acknowledged, in order, once; no reference dangles; a checkout loses nothing |
| **Circuit breaker** `do/circuit-breaker.ts` (`CircuitBreaker`) | state, opening time, counters, sliding window, request metrics | execute, trip, reset, forceHalfOpen, resetMetrics, export/import, dispose | wraps the calls of an executor tier | outcomes arrive in another state than their call was admitted in, timeouts with late answers, restarts | an open circuit recovers, and closes only after successes; thresholds hold; each request is counted once |
| **RPC client** `do/rpc.ts` (`RpcClient`) | pending requests, batch queue, reconnection queue, connection state, token | call, batch flush, reconnect, token refresh, keepalive, disconnect | transport, server, auth | timeout against answer, refresh during a call, two reconnection loops, a dropped connection | each call settles once and runs at most once; none is forgotten |
| **Shell stream** `rpc/shell-stream-impl.ts` (`ShellStream`) | buffers, callback lists, exit status, wait promise | events of the child process, onData/onStderr/onExit, unsubscribe, wait, kill, dispose | child process, RPC API | order of exit, error and last output; callbacks that use the stream while it calls them | each chunk once and in order; the result fixed once; every waiter answered |
| **Undo history** `undo.ts`, `execute.ts` (`UndoHistory`) | bounded list of entries, options | trackForUndo, recordUndoEntry, undo, setOptions, clear | command execution | overlapping undos, truncation during one, undo prepared before the command runs | undoing newest first leads back; an undo removes its own entry |
| **Tiered executor** `do/tiered-executor.ts`, `do/executors/`, `do/pipeline/` (`TieredExecutor`) | classification cache; per call: segment, stdin, runs | classify, execute, pipelines, fallbacks, timers | native commands, npm, RPC services, workers, loaders, sandbox | cached decisions used for another command, nested catch blocks, runs that lost their race | the tier is the command's own; a segment gets its predecessor's output; runs bounded; the answer is that of the last run |
| Container executor `do/container-executor.ts` | session and its done promise | exec, spawn, streams | container service | promises that nobody settles | done settles |
| Retry `utils/retry.ts` | attempt, delay | retry, rate-limit wait, cancellation | any call | waits that do not count as attempts | attempts bounded, cancellation ends it |
| Rate limiter `rpc/rate-limiter.ts` | tokens of a window, queue | acquire, wrapper | RPC server | drop policy, window boundary | never more than the limit |
| Classification cache `do/cache/` | LRU list with expiry | get, set, evict | its tests | expiry at the limit | agrees with a plain map |
| Stateful shell `mcp/stateful-shell.ts` | cwd, environment | exec, cd, export | MCP tools | cd reads cwd before its await | cwd is that of the last cd |
| Columnar store `storage/columnar-store.ts` | session rows, cached columns | add and read | SQLite | read-modify-write over awaits | no append is lost |

Pure parts (parsing, classification, safety patterns, escaping, git and npm
codecs, virtual terminal, configuration, front ends) compute an answer from
their input. They are listed with a reason each in `PROJECT.json`.

`PROJECT.json` also lists the hazards found while reading, each at its line,
with the properties that watch it.

How the modelled parts meet: a command arrives through the RPC client or a
session; a session hands it to an executor, which is the tiered executor or a
plain shell with undo tracking; a tier may be wrapped in a circuit breaker; a
spawned process is read through a shell stream. At each seam one side is
external to the other: `Session` takes the executor as something that succeeds
or rejects, `TieredExecutor` a service as something that answers, throws or
stays silent, `CircuitBreaker` a call as something that succeeds, fails or times
out. Those are the outcomes the other modules allow, so the modules are checked
one by one and not multiplied together.

## Plan

In order of how much can silently go wrong; each step was modelled, checked and
then proved about before the next began:

1. `SessionStorage`, `Session`, `DurableHistory`.
2. `CircuitBreaker`.
3. `RpcClient` and its abstract specification `RemoteCall`.
4. `ShellStream`.
5. `UndoHistory`.
6. `TieredExecutor`.

What could follow, in the same order of value: `experiment` of the session, with
several sessions over one filesystem; `write` and `closeStdin` of the stream;
directories as targets of `cp` and `mv` in the undo history; the columnar store
once the program calls it.

## Session: modules and code

`SessionStorage` gives the queries of the write-ahead log. A query is written as
the set of its possible answers; each set has one element.

`Session` composes them with the three pieces of code that use them:

* `Session.exec/run/checkpoint/branch/checkout/fork` (`session/session.ts`),
* `CheckpointManager` (`session/checkpoint-manager.ts`),
* `loadSession` (`session/factory.ts`).

Every actor (a client, or the idle timer) has a record `call[a]` with the method
it runs, the await it is suspended at (`pc`) and the locals it still needs. The
code between two awaits is one action, so the actions interleave exactly where
JavaScript can interleave them.

| code | actions |
|---|---|
| `runCommand` | `Exec` (fixes `seq`), `RunCommand` (executor), `PushHistory`, `AppendWAL`, `CountOperation` |
| `checkpoint` of the manager | `ReadTree`, `Snapshot`, `PutCheckpoint`, `PutHead`, `MarkCheckpointed`, `FinishCheckpoint` |
| idle timer | `FireIdleTimer`, then the checkpoint actions |
| `branch`, `checkout` | `CallBranch`, `PutBranchRef`; `CallCheckout`, `PutAutosaveRef`, `RestoreFilesystem`, `AdoptState` around the checkpoint actions |
| `fork` | `CallFork`, `BuildFork`, `PutForkCheckpoint`, `PutForkRef`, `PutForkHead` |
| a rejecting promise | `Reject` |
| eviction, `loadSession` | `Evict`, `Load` |

Abstractions. A command is the number of the call that ran it; the filesystem is
the set of commands whose effects are present and its tree hash is that set; a
checkpoint's hash is its position among the stored ones, since the hashed state
carries a timestamp. The tree hashes exec reads around a command, dates,
metrics and event emission are left out. `getLatestSeq` and `markCheckpointed`
are one step: an entry logged between them has a larger number (a reused number
apart) and no other actor reads the marks. At most one checkpoint of the idle
timer is in flight; whether `minInterval` has passed is nondeterministic; only
the newest automatic branch is kept. Storage serialises what it is given, as R2
does: a stored checkpoint shares no array with the live state. A rejecting
executor has no effect on the filesystem. `loadSession` is one step, because
nothing else runs while the object is down and a failure of it changes nothing;
there is one live instance of the object at a time. The storage classes
themselves are not part of `src/src`: the log behaves like the storage of the
session tests (`src/test/core/session/session.test.ts`), whose strict `seq > s`
is also that of the SQL in `src/docs/design/session-persistence.md`.

`DurableHistory` is the abstract promise: commands enter a history one by one, a
prefix of it is saved, commands of it are logged, and a recovery brings back the
saved prefix in order, followed by logged commands only. `Session` maps `hist` to
the commands of the history, `saved` to the length of the history in HEAD and
`logged` to the commands in the log. The stronger wish, that only commands of
the lost history come back, does not hold when the log is longer than
`maxReplayOps`: sequence numbers are reused after a loss.

## Circuit breaker: module and code

`CircuitBreaker` has one action per step of `execute` and per public operation:
`Execute` (with the transition inside `getState`), `Succeed`, `Fail`, `TimeOut`,
`LateAnswer`, `Observe`, `Trip`, `Reset`, `ForceHalfOpen`, `ResetMetrics`,
`Restart` (export, then import in a new breaker), `Dispose` and `Tick`.
`transitionTo` is split by the state it enters: `EnterOpen`, `EnterClosed`,
`EnterHalfOpen`. The kind of window is chosen in `Init` and stays, so one run
covers all three.

Time is a tick. `openedAt` is kept as the ticks since, counted up to the cooldown,
and the timestamp of a windowed result as the ticks until it leaves the window;
pruned records stay in the sequence and are not counted, which no reader can
tell. A call may time out at any moment, as if a timeout were configured and of any
length. `Restart` imports what was exported at that moment; calls in flight are
lost with the old breaker. `probed` and `skew` are observations: the successes of
this recovery, and the difference that restarts and `resetMetrics` make to the
request counts. Events, `successCount` and the metrics of times and recoveries
only report and are left out.

## RPC client: modules and code

`RpcClient` is `RPCBashBackend` with its transport and server. A request id is
the call and the number of token refreshes behind it, since `generateId` gives
each retry a new id.

| code | actions |
|---|---|
| `call` | `CallBatched`, `CallQueued`, `CallSent` by its three branches; `FlushBatch` by the batch timer |
| `handleResponse` | `Ignore`, `Answered`, `RefreshStart`; `RefreshOk` and `RefreshFail` after its await |
| timers of a request | `Timeout` |
| `attemptReconnect`, `doReconnect` | `Redial`, `DialUp`, `DialFail`, `Reconnected` |
| `connect`, `disconnect` | `Connect`, `ConnectUp`, `ConnectFail`, `Connected`; `DisconnectStart`, `DisconnectEnd` |
| handlers of the transport | `Drop`, `OnConnected`, `TransportError` |
| keepalive | `PongLate` |
| `createBashRPCHandler` | `Serve` |

The transport is declared by `rpc.ts` and implemented outside: it delivers
requests and answers in any order, late or never. `RemoteCall` is what the
application may rely on: a call is made once, runs at most once, settles at most
once, and resolves only with a result of a command that ran. A rejection says
nothing about whether the command ran, because a timeout does not stop a request
that waits in the batch.

## Shell stream: module and code

`ShellStream` has one action per event handler of the constructor and per
method. A handler that calls callbacks is a walk along its list by index:
`OnData`, `OnExit` or `OnError` begins it, each `CallNext` calls one callback, and
between two calls the application may do whatever a callback may do
(`Subscribe`, `Unsubscribe`, `Kill`, `Wait`, `Dispose`). A subscription replays what
it missed in the same manner (`ReplayNext`). A chunk is its number in its channel.
`meddled` is an observation: the channels whose list changed during a walk.

The child process is Node's: its exit may be reported before the last chunk of
its output, an error may be reported of a process that runs on, and only a
process that did not start has an error and no exit.

## Undo history: module and code

`UndoHistory` takes the tracking in `execute.ts` (`Execute` prepares the undo
command before the await, `RunEnds` and `TimeOut` end it, `Record` does the rest)
and `undo.ts` (`Undo` and `UndoEnds` around the await `UndoRuns`, `AddEntry`,
`SetLimit`, `SetTracking`, `ClearHistory`). `UndoOf` is `generateUndoInfo` by
command. `clean`, `before`, `entry` and `moved` are observations.

Directories. A command runs in `options.cwd` (`execute.ts:1331`), while its undo
command is prepared from `process.cwd()` and run there (`undo.ts:336`). `At[w][p]`
is what the name `p` means in `w`; a command is named as it is in `process.cwd()`,
`Execute` prepares its undo from those names and runs what they mean in `w`
(`In`). A directory that is missing makes the command fail (`HasCwd`).

Texts. The file system gives each name a text, a directory or nothing. A file is
restored by `echo <text> > file` in the shell (`undo.ts:824`, `undo.ts:892`):
`Echoed[text]` is what that writes, and a text outside its domain fits in no
argument, so that the undo command fails. A text carries the number of line feeds
at its end, because `echo` writes one more, and the properties compare file systems
up to them (`Rough`). A file of 10 MB or more (`Unread`) is not read (`Readable`):
its removal is not undone, and an `echo` over it is undone by `rm`.

## Tiered executor: module and code

`TieredExecutor` covers `classifyCommand` with its cache (`Class`, `Key`,
`Classification`, `CacheAfter`), the language router (`Detected`), pipelines and
redirected input (`Execute`, `ReadInput`, `ExecuteSegment`), and the executors as
the outcomes their code can report (`Outcomes`), with `Succeeds`, `Fails`,
`Throws`, `Responds` (the fetch of a worker resolved, its body still to come) and
`TimesOut`. `Guards` counts the catch blocks around a run that would try the
sandbox: around a worker there are two, around the sandbox none. A command is its
name and what the rest of its text decides about language; what it prints is the
number of the run that printed it.

## Runs

| run | bounds | question |
|---|---|---|
| `session_recovery` | one client, exec and checkpoint, 4 calls, threshold 3, no rejection | does a recovery repeat a command (`NoCommandTwice`), can it find what exec acknowledged (`Recoverable`), how much can it drop (`LosesAtMostOne`)? |
| `session_refines_durable` | two clients, 3 calls, rejections, `maxReplayOps` 1 | does the session implement `DurableHistory` (`KeepsDurableHistory`), and does the history extend HEAD while overlapping checkpoints move it (`HistoryExtendsHead`)? |
| `session_branches` | one client, exec, branch, checkout, fork, 4 calls | can a reference dangle (`RefsResolve`), does a checkout save what it replaces (`CheckoutKeepsWork`)? |
| `circuit_breaker` | two overlapping calls, 3 requests, both thresholds 2, cooldown 2, window 2, every window kind | do late outcomes, timeouts, manual controls and restarts break the thresholds, the accounts or the recovery? |
| `rpc_calls` | two calls, clients that batch or reconnect or neither, one refresh, two attempts, batches of two, two loops | is a call forgotten (`NoCallForgotten`), run twice (`AtMostOnce`), queued for nobody (`QueueHasOwner`), sent after it settled (`SendsAreLive`), or otherwise no `RemoteCall`? |
| `rpc_settles` | one call, every option, two refreshes, three attempts, two loops | does a sent call settle, and a queued one settle or the application hear of it? |
| `shell_streams` | two callbacks on stderr, one of them on the exit too, two chunks, exit codes 0 and signal | does each subscriber get each chunk once and in order, is the result fixed, is every waiter answered, is a disposed stream silent? |
| `undo_history` | two callers, three of six kinds of commands, limits 0 and 2, three files, `process.cwd()` and a directory one name differs in, a file whose text `echo` changes or that is too large to be read | is the history in order and within its limit, does it unwind, does an undo remove its own entry and restore what it should? |
| `tiered_executor` | two callers, seven pipelines of up to three segments (one redirected), three configurations, a cache of two | is a command dispatched by its own class, fed by its predecessor, run too often, answered by an older run, left unanswered? |

Violations, each a statement of the repository that the code does not keep:

| run | what happens |
|---|---|
| `session_survives_eviction` | exec resolves, HEAD holds n entries, the next command has sequence number n and the log is asked for numbers larger than n: an eviction loses it |
| `session_replays_only_history` | after a checkout to a shorter history and a checkpoint, a recovery replays commands of the branch that was left |
| `undo_overwritten_copy` | undoing a copy over a file removes the file, whose contents the code has read and does not use |

Why the bounds are enough. *Session:* losing or repeating a command needs a
checkpoint, a command after it, an eviction and a second round with a reused
number: three commands and one checkpoint, hence 4 calls; the threshold of 3 makes
an automatic checkpoint happen inside `exec` as well. Checkpoints that overtake
each other need two actors, and two clients plus the timer are three. A checkout
needs a branch, a command after it and the checkout: 4 calls leave one more.
*Breaker:* two overlapping calls give every order of two outcomes around a state
change; thresholds of 2 distinguish the first from the last of a count; 3
requests fill the window of 2 beyond its limit. *RPC:* two calls fill a batch and
leave one half-full, and make one settle while the other is in flight; two loops
are what a late pong adds to a drop; one refresh has a first and a refused second
try; two attempts have one at once and one after a delay. `rpc_calls` leaves out the
client that batches and reconnects at once, since a batch does not look at the
connection; `rpc_settles` has it. *Stream:* with two callbacks on one list, one can
remove itself, the one before or the one after; with two chunks one is replayed
and one delivered. *Undo:* two callers overlap a command, an undo and a change of
the limit; three commands on a limit of 2 cut the list; one relative name is enough for an
undo to meet another file than its command did, and the two texts of the first
file are restored wrongly and not at all. *Executor:* two entries and
more than two keys evict; two callers share one cache; the pipelines include
every tier and each kind of fallback.

Every bound is a constant: `MaxCalls`, `MaxRequests`, `MaxLoops`, `MaxRefresh` and
`MaxAttempts` (the last two are the code's own), `MaxChunks`, `MaxCommands`, and the
sets `Interest`, `Starts`, `Calls` and `Asked`. `SYMMETRY` is used in
`session_refines_durable` (clients), `rpc_calls` (calls) and `undo_history`
(callers), which check no liveness.

Suppositions of the properties. `NoCommandTwice`, `Recoverable` and
`LosesAtMostOne` are stated for one client, nothing rejecting, no checkout, and a
log within `maxReplayOps`. With two overlapping clients two commands take the
same sequence number and both `Recoverable` and `LosesAtMostOne` fail; with
`maxReplayOps` 1, or with rejections, `NoCommandTwice` does.
`HistoryExtendsHead` and `KeepsDurableHistory` need no more than that no client
calls checkout, which replaces the history while HEAD stays; `CheckoutKeepsWork`
is stated for a single client. `SendsAreLive` excepts the batch and retries after a
refresh, which do send for settled calls. The `told` of `QueueHasOwner` and
`QueuedCallsSettle` may be left over from an earlier exhaustion: a call queued after
it is not promised another error. `DeliveredOnce` and `ExitOnce` except a
list changed while it is walked: a subscription from inside a callback may get its
chunk by replay and by the walk, an unsubscription may make the walk skip its
neighbour. `KilledIsAnswered` supposes that a process that was sent a signal ends.

`OwnEntryLeaves` excepts an undo whose entry something moved: it does remove another
entry. `Unwinds` supposes that callers take turns and undo the newest entry first,
that a command's names mean the same paths in its directory as in `process.cwd()`,
and that nothing is lost that no undo command holds: no timeout with an effect, no
`cp` or `mv` over a file, no `echo` over a file too large to be read, no `rm` that is
not tracked, no text that `echo` changes. `UndoRestores` needs no turns. It supposes
that the undo command is what would be prepared for the file system its command met,
where it ran (`Prepared`), with the last exceptions made for this one command. Drop
the condition on directories, on replaced files, on texts or on `Prepared`, and TLC
finds an undo that does not restore.

`PipelineInOrder` excepts the runs by an RPC service or npm, which get no input at
all (`rpc-executor.ts:410` sends none). `RunsBounded` allows the second run in the
sandbox that a rejection of a worker's fallback causes: three runs for a segment.
`RoutedRight` is stated for commands whose name decides their language. `CallsSettle`
is stated for the runs that have a timer or cannot hang.

Deadlock. The check is off where the program really may stop: when the calls are
made and answered, or when a session is evicted before its first checkpoint (there
is no HEAD to load). The breaker never stops.

Fairness. The session and the undo history have safety properties only, and no
fairness: the code promises no deadline. The breaker's `FairSpec` assumes only
that time passes (`WF_vars(Tick)`). For the RPC client, timers fire and the
promises it awaits itself (a refresh, a connect) settle; the server need not
answer anything. For the stream, the event loop delivers what is due, strongly
fair because the application may use the stream between two events and so disable
a handler again and again; callbacks return; a process that was signalled ends.
For the executor, the event loop goes on, file reads and loaded modules report,
and the timers of workers and the sandbox fire (nobody passes a timeout of 0,
which would mean none); nothing is assumed of a native command, of npm's registry,
of an RPC service, or of a worker whose answer has begun.

## Proofs

Proved with TLAPS, for every value of the constants (any clients, names,
thresholds, calls, chunks, commands, pipelines and configurations), under the
named assumptions of the modules: `SessionAssumption`, `CircuitAssumption`,
`RpcAssumption`, `StreamAssumption`, `UndoAssumption`, `TieredAssumption`. They type
the constants; beyond that the breaker's thresholds are positive, as its
constructor checks, its overlapping calls finite, the names of files and
directories disjoint, and a name means a file in every directory or in none. TLC
evaluates them in every run.

* `Session_proofs`: `TypeCorrect` and `RefsAlwaysResolve`. The type invariant and
  `RefsResolve` are not inductive: a call between its `putCheckpoint` and its
  `putRef` must already hold a stored hash, and a checkout a stored target. The
  inductive invariant `WellFormed` says so for every method and await (`CallOK`),
  next to the types of the durable state, the memory and the counters.
  `AcknowledgedIsLogged`, `RecoveryReadsLog`, `LosesOnlyCovered` and
  `ParentsAlwaysOlder` suppose nothing either: they hold for overlapping clients,
  checkouts, rejections and any `maxReplayOps`. `LogInv` says what each `exec` under
  way knows of the log: its command is its own and is logged from the append on, so
  the log is write-ahead and has no command twice. `RecoveryReadsLog` says what
  `loadSession` brings back: HEAD's history, then what the log holds under a number
  past HEAD's length, all of it when the log is within `maxReplayOps`. Together they
  name exactly the acknowledged commands a recovery loses (`LosesOnlyCovered`): those
  HEAD lacks and the log holds under a number HEAD's length covers. That is the hazard
  of `session_survives_eviction` in its general form, where with overlapping clients
  it is more than one command. `ParentsAlwaysOlder` makes the chain of a checkpoint's
  parents end; `LineageInv` adds the parents on their way to the storage. A log query
  is shown to leave nothing out by counting (`EnumerationIsOnto`).
* `SessionDurable_proofs`: `HistoryAlwaysExtendsHead` and
  `ImplementsDurableHistory`, both assuming `"checkout" \notin Methods`. The
  invariant `PrefixInv` adds that the snapshot a call carries, or the stored
  checkpoint it is about to make HEAD, is a prefix of the live history (it is why
  HEAD may move backwards without harm), that a command on its way to the log is
  in the history, and that there are no calls while the object is down. Each
  action of `Session` then maps to an action of `DurableHistory` or to a stutter
  (`StepRefines`).
* `SessionRecovery_proofs`: `CheckoutAlwaysKeepsWork`, assuming one client
  (`OneClient`), and `NeverTwice`, `AlwaysRecoverable`, `DropsAtMostOne`,
  `RebuildsHistory`, assuming `Careful`: one client, no checkout, no rejection, and `maxReplayOps` 0 or at least
  the number of calls. `CheckoutInv` follows the history a checkout will replace from
  its snapshot through the stored checkpoint to the autosave reference; nothing else
  may change the history meanwhile because the other actor is the idle timer.
  `RecoveryInv` is about how the log lines up with the history (`LogAligned`): past
  some place m, which no checkpoint that is or may become HEAD falls short of, the
  log is the history shifted by a constant, and an entry's number is its place or
  one less (`Lags`), because a recovery may drop the entry at HEAD's length and move
  the later ones down without renumbering. The invariant is needed because recoveries
  repeat: each starts from the numbers the last one left. `Recovered` shows that
  recovery from any checkpoint then gives back the history, or the history without
  that one entry, and that the new history lines up again. `RebuildsHistory` adds
  the order: the history comes back place by place up to HEAD's length, and from there
  on unmoved or moved down one place as a whole; at most two entries are missing, the
  skipped one and one the eviction caught before its append. Both can be, so two is
  the least bound. `Recovered` rests on
  `IntervalEnumeration`: an increasing enumeration of an interval counts up, proved by
  counting (no place is left for another value) since induction is not available.
* `CircuitBreaker_proofs`: `TypeCorrect`, `RequestsAlwaysAccounted`,
  `CountersStayBelowThresholds`, `OpenAlwaysHasStart`,
  `AlwaysClosesAfterSuccesses`, `CooldownAlwaysGoesOn`. `BreakerInv` adds
  `ProbesCounted`: the half-open count never exceeds the successes there were
  since the circuit became half-open, which is what the closing property needs.
  The lemmas about windows show that a success, the passing of time and the loss
  of the oldest result never add a counted failure.
* `RpcClient_proofs`: `TypeCorrect`, `NoCallEverForgotten`, `QueueAlwaysHasOwner`,
  `RunsAtMostOnce`, `SendsAreAlwaysLive`, `StaleEntriesAreAlwaysRetries`,
  `ImplementsRemote`, `OneRequestUnderWay`, `RequestsOnlyAdvance`,
  `ResultsAlwaysReal` and `SettledStaysSettled`. `TypeInv` adds that a refreshing request has a refresh left
  (or its retry would not be an id). Nobody is forgotten because each step keeps
  what holds a call or hands it on (`HeldStep`). `OwnerInv` relates the queue to the
  connects under way. `AtMostOnce` needs `OneInv`: a call has at most one request
  under way (on the wire, refused, or waiting for its refresh), its entry is that
  request's, and a call with a request under way has not run and is in no queue. So
  a retry begins only after a refusal. `OneRequestUnderWay` adds the timers: an entry
  has one or is being refreshed, never both, and no timer outlives its entry.
  `RequestsOnlyAdvance` gives an entry a rank in the naturals that each of its own
  steps decreases: retries end, and no timer is set again. `ResultsAlwaysReal` and
  `SettledStaysSettled` are promises of `RemoteCall`, proved there and carried over
  by `ImplementsRemote`: whoever implements the abstract client keeps them.
* `ShellStream_proofs`: `TypeCorrect`, `WaitersAreAnswered`, `DisposeAlwaysKills`,
  `ResultAlwaysStands`, `DisposedIsSilent`, `ExitAtMostOnce`, `AlwaysInOrder`,
  `AlwaysDeliveredOnce`, `ResultHasNoGap`, `ResultOnlyGrows`. `WaitersAreAnswered` says
  that nobody waits once an end was reported, and that who waits on a disposed stream
  waits for a process that was sent a signal: `dispose()` answers nobody. `TypeInv` says that a walk and a replay are on what they
  index; `EndInv` relates the flags of the end; `NoRepeats` that no function is
  twice in a list. The delivery invariants say, for every callback of a list, how
  much of the buffer it has seen: all of it before the walk reaches it, all but the
  last chunk behind the walk, the replayed prefix during a replay. `OrderInv` holds
  whatever callbacks do to the lists, `OnceInv` while they leave a walked list alone.
  The result may be taken before the last output is read; `ResultInv` shows what it
  still is: each channel's chunks up to some number, each once and in order, and a
  beginning of the buffer, so that the result of an exit after an error goes on where
  the one of the error ended.
* `UndoHistory_proofs`: `TypeCorrect`, `AlwaysInOrder`, `OwnEntryAlwaysLeaves`,
  `UndoAlwaysRestores`, `AlwaysUnwinds`. `UndoWorks` is the lemma about
  `generateUndoInfo`: on what its command left, an undo command succeeds and gives
  back what the command met, if the command replaced nothing the undo command does not
  hold, and that holds no text `echo` changes. Both theorems are stated under those
  conditions, for any directories (`At`), any `echo` (`Echoed`) and any files too
  large to be read. `EffectType` keeps the file system in order (what is
  there is in a directory). `AlwaysUnwinds` needs `InTurn`: at rest the history is a
  chain of file systems up to line feeds, and during one caller's turn the chain
  ends where that turn began.
* `TieredExecutor_proofs`: `TypeCorrect`, `AlwaysRoutedRight`,
  `PipelineAlwaysInOrder`, `RunsAlwaysBounded`, `AlwaysSettledRight`,
  `CallsOnlyAdvance`, `ThreeRunsPerSegment`. `CacheOK`: every
  cached entry is the class some command with its key has. `CallOK`, one conjunct
  for each of the four properties, links the catch blocks left to the run awaited
  last and the segments behind a call to the runs that ended with success.
  `CallsOnlyAdvance` counts the steps a call has left (`StepsLeft`, at most seven for
  each segment and one more) and shows that each step of the call decreases them and
  no other caller's step touches them.

The steps of the actions are proved one action at a time; refinement and the
temporal theorems combine them.

Only model-checked: the liveness properties `CoolsDown`, `SentCallsSettle`,
`QueuedCallsSettle`, `KilledIsAnswered` and `CallsSettle`; and the violations.
Of `CallsSettle` and `SentCallsSettle` the safety half is proved for all constants:
`CallsOnlyAdvance` and `RequestsOnlyAdvance` are variants that leave a call no way but
to its end. What stays with TLC is that the next step happens, which needs fairness.
Liveness under fairness and ENABLED are beyond the prover, as are induction over
data and RECURSIVE operators; no module here declares one.

## What the models say about the code

Besides the three violations, reading and modelling showed these, which the models
keep as the code has them:

* A half-open circuit admits every call made before the first outcome.
* `disconnect()` of the RPC client leaves the reconnection timer and the queue: a
  closed client may dial again and send what was queued. After the last attempt
  queued calls are neither sent nor rejected; they have no timer, and only the
  error event tells the application.
* A request that times out while its batch fills is still sent and may run after
  its caller was told that it failed.
* The final result of a stream may lack chunks that come after the exit, and an
  error of a process that runs on makes `kill()` and `dispose()` send no signal.
  `dispose()` leaves the promise of `wait()` pending until the process ends.
* An undo command is prepared and run in `process.cwd()`, its command in
  `options.cwd` (`execute.ts:1331`, `undo.ts:336`): with a relative name the undo fails
  or acts on another file.
* Files are restored by `echo` in the shell (`undo.ts:824`, `undo.ts:892`), which
  rewrites some texts (backslashes, a leading `-n`) and cannot be started with long
  ones. An `echo` over a file of 10 MB or more is undone by removing the file.
* `undo()` splices at the index it read before its await (`undo.ts:339`): when an
  older entry left meanwhile, another entry is removed and the undone one stays.
* The executor's cache is keyed by name while the language of some commands is
  decided by their text: after `git add a.js` is classified, `git status` gets its
  tier. `RoutedRight` is stated for the others.
* With worker loaders configured, a loadable module always exits with 1 ("No
  module loader available"). File commands that the native executor lists and does
  not implement exit with 1 and do not fall back. The sandbox strategy that an
  analysed command gets is not enforced when it runs.
* A recovered session shows commands whose file effects were rolled back to HEAD's
  tree, since replay pushes history entries only. A fork from a stored checkpoint
  takes its tree from the live state (`session/session.ts:240`).

## Not modelled

* Session: `experiment`, `deleteSession`, `dispose`, `createSession` over an existing
  id, `getLatestCheckpoint`, listing, and the metrics.
* RPC: streaming, scopes, header contents, the registration of listeners. Shell
  stream: `write`, `closeStdin`, callbacks that throw or that subscribe while they
  are replayed to, one function registered twice, the RPC API around the stream.
* Undo: recursive removal, several sources, directories as targets of `cp` and
  `mv`, replay.
* Executor: metrics, the cache of the language detector, `spawn`, sandbox sessions,
  truncated output, and what the commands do.
* Retry, the rate limiter and the cache in `do/cache/` are loops or tables of one
  caller, without an await between test and update: nothing interleaves, and their
  tests reach what can go wrong. The container executor forwards to a service that
  decides everything a property could be about. The stateful shell and the columnar
  store have one read-modify-write over an await each, which one overlap shows;
  only tests call the store.
* Parsing, classification of syntax trees, safety patterns, built-in commands, git
  and npm codecs, the terminal, configuration and front ends are pure functions over
  text. Most of the repository's lines are these; a model of them would restate
  them, and TLC cannot enumerate inputs that matter.

Each has its entry in `PROJECT.json`.
